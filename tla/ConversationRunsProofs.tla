---------------------- MODULE ConversationRunsProofs ----------------------
(***************************************************************************)
(* Proofs about ConversationRuns and ConversationInput, for every set of   *)
(* runs and call ids and every hard cap: the first of these theorems hold  *)
(* with overlapping runs and faults, the payloads and the spans without    *)
(* faults, the model input without overlapping runs.                       *)
(***************************************************************************)
EXTENDS ConversationInput, SequenceTheorems, FiniteSetTheorems, FunctionTheorems,
        WellFoundedInduction, TLAPS

-----------------------------------------------------------------------------
(* The inductive invariant *)

\* The latest row of r is its question or its tool results of iteration i.
Asked(r, i) == \E p \in DOMAIN messages : /\ Log!Latest(r, p)
                                          /\ messages[p].kind \in {"user", "tool"}
                                          /\ messages[p].iteration = i

\* The latest row of r is the answer it has in hand, in state s.
Answered(r, s) == \E p \in DOMAIN messages : /\ Log!Latest(r, p)
                                             /\ messages[p].kind = "assistant"
                                             /\ messages[p].iteration = s.iteration
                                             /\ messages[p].calls = s.calls

\* What the state s of run r says about the rows it has written: their order
\* follows its place, and their payloads are kept until it is closed.
Fits(r, s) ==
    /\ s.pc = "idle" => Log!Of(r) = {} /\ s = Idle
    /\ s.pc \in {"rebuild", "port", "start"} => s.iteration = 0 /\ Asked(r, 0)
    /\ s.pc \in {"open", "tool_close"} => s.iteration < HardCap /\ Asked(r, s.iteration)
    /\ s.pc \in {"model", "answer"} => s.iteration # 0 /\ Asked(r, s.iteration - 1)
    /\ s.pc \in {"close", "tool_open", "tools", "tool_end", "complete"} =>
          s.iteration # 0 /\ Answered(r, s)
    /\ s.pc \in {"tool_open", "tools", "tool_end"} =>
          s.iteration < HardCap /\ s.pending \subseteq s.calls
    /\ s.pc = "complete" => s.calls = {}
    /\ s.registered \subseteq Log!Of(r)
    /\ \A p \in Log!Of(r) : messages[p].kind = "assistant" /\ messages[p].payload = "none" =>
                                s.pc = "closed"

\* The observation row o of run r claims no more than its stored rows.
Behind(r, o) ==
    /\ \A i \in 1 .. HardCap : o.span[i] = "done" => Stored(r, "assistant", i)
    /\ o.status = "completed" => \E p \in DOMAIN messages : /\ messages[p].run = r
                                                            /\ messages[p].kind = "assistant"
                                                            /\ messages[p].calls = {}

\* A run whose end is recorded in o is ending in state s.
Ending(s, o) == o.status \in {"completed", "failed", "aborted"} =>
                   s.pc \in {"abort", "clear"} \cup Ended

RunOK(r) == Fits(r, run[r]) /\ Behind(r, obs[r]) /\ Ending(run[r], obs[r])

IInv == TypeOK /\ \A r \in Run : RunOK(r)

-----------------------------------------------------------------------------
(* Types *)

\* The operators on rows of app.message and of the observation return such rows.
LEMMA RowTypes ==
    /\ \A r \in Run, k \in {"user", "assistant", "tool"}, i \in 0 .. HardCap, cs \in SUBSET Call :
          Row(r, k, i, cs) \in Message
    /\ \A m \in Message : [m EXCEPT !.payload = "none"] \in Message
<1>1. ASSUME NEW r \in Run, NEW k \in {"user", "assistant", "tool"}, NEW i \in 0 .. HardCap,
             NEW cs \in SUBSET Call
      PROVE  Row(r, k, i, cs) \in Message
  BY DEF Row, Message
<1>2. ASSUME NEW m \in Message PROVE [m EXCEPT !.payload = "none"] \in Message
  BY DEF Message
<1> QED BY <1>1, <1>2

LEMMA ObsTypes ==
    ASSUME NEW o \in RunRow
    PROVE  /\ StartedRun(o) \in RunRow
           /\ \A s \in SpanId, parent \in 0 .. HardCap : OpenedSpan(o, s, parent) \in RunRow
           /\ \A s \in SpanId, result \in {"done", "partial"} : ClosedSpan(o, s, result) \in RunRow
           /\ \A status \in {"completed", "failed", "aborted"} : FinishedRun(o, status) \in RunRow
<1>1. StartedRun(o) \in RunRow
  BY DEF StartedRun, RunRow
<1>2. \A s \in SpanId, parent \in 0 .. HardCap : OpenedSpan(o, s, parent) \in RunRow
  BY DEF OpenedSpan, RunRow
<1>3. \A s \in SpanId, result \in {"done", "partial"} : ClosedSpan(o, s, result) \in RunRow
  BY DEF ClosedSpan, RunRow
<1>4. \A status \in {"completed", "failed", "aborted"} : FinishedRun(o, status) \in RunRow
  BY DEF FinishedRun, RunRow
<1> QED BY <1>1, <1>2, <1>3, <1>4

\* A write of the observation changes at most the row of its run.
LEMMA WriteType ==
    ASSUME TypeOK, NEW r \in Run, NEW o \in RunRow, Write(r, o)
    PROVE  /\ obs' \in [Run -> RunRow]
           /\ \A s \in Run : s # r => obs'[s] = obs[s]
           /\ obs'[r] \in {o, obs[r]}
  BY DEF TypeOK, Write

LEMMA LocalTypes ==
    /\ Idle \in Local
    /\ \A place \in Place : [Idle EXCEPT !.pc = place] \in Local
    /\ \A s \in Local : /\ \A place \in Unwinding : Unwind(s, place) \in Local
                        /\ \A place \in Place : [s EXCEPT !.pc = place] \in Local
<1>1. Idle \in Local /\ \A place \in Place : [Idle EXCEPT !.pc = place] \in Local
  BY HardCapPositive DEF Idle, Local, Place
<1>2. ASSUME NEW s \in Local, NEW place \in Place PROVE [s EXCEPT !.pc = place] \in Local
  BY DEF Local
<1>3. ASSUME NEW s \in Local, NEW place \in Unwinding PROVE Unwind(s, place) \in Local
  <2>1. Spans(s) \in SUBSET SpanId
    BY DEF Spans, Local, SpanId
  <2>2. place \in Place
    BY DEF Unwinding, Place, Streaming
  <2> QED BY <2>1, <2>2 DEF Unwind, Local
<1> QED BY <1>1, <1>2, <1>3

\* A step of run r leaves the others where they are.
Moved(r, s) == run' = [run EXCEPT ![r] = s]

LEMMA ResumeMoves ==
    ASSUME NEW r \in Run, NEW before, NEW after, Resume(r, before, after)
    PROVE  Moved(r, Unwind(before, "abort")) \/ Moved(r, after)
  BY DEF Resume, Moved

LEMMA MovedType ==
    ASSUME TypeOK, NEW r \in Run, NEW s \in Local, Moved(r, s)
    PROVE  /\ run' \in [Run -> Local]
           /\ run'[r] = s
           /\ \A q \in Run : q # r => run'[q] = run[q]
  BY DEF TypeOK, Moved

LEMMA ResumeType ==
    ASSUME TypeOK, NEW r \in Run, NEW before \in Local, NEW after \in Local,
           Resume(r, before, after)
    PROVE  run' \in [Run -> Local]
<1>1. Unwind(before, "abort") \in Local
  BY LocalTypes DEF Unwinding
<1> QED BY <1>1, ResumeMoves, MovedType

-----------------------------------------------------------------------------
(* Steps *)

\* Run r may have appended rows of its own and cleared payloads of its own.
Touched(r) ==
    /\ messages' \in Seq(Message)
    /\ DOMAIN messages \subseteq DOMAIN messages'
    /\ \A p \in DOMAIN messages' \ DOMAIN messages : messages'[p].run = r
    /\ \A p \in DOMAIN messages :
          \/ messages'[p] = messages[p]
          \/ messages[p].run = r /\ messages'[p] = [messages[p] EXCEPT !.payload = "none"]

LEMMA RowsTyped == TypeOK => \A p \in DOMAIN messages : messages[p] \in Message
  BY DEF TypeOK

LEMMA RowKept ==
    \A m \in Message : LET n == [m EXCEPT !.payload = "none"]
                       IN /\ n.run = m.run /\ n.kind = m.kind
                          /\ n.iteration = m.iteration /\ n.calls = m.calls
  BY DEF Message

\* What a run relies on is out of reach of the others.
LEMMA Frame ==
    ASSUME TypeOK, NEW r \in Run, Touched(r), NEW s \in Run, s # r
    PROVE  /\ \A x \in Local : Fits(s, x) => Fits(s, x)'
           /\ \A o \in RunRow : Behind(s, o) => Behind(s, o)'
<1>0. \A p \in DOMAIN messages : messages'[p].run = messages[p].run
  BY RowsTyped, RowKept DEF Touched
<1>1. /\ Log!Of(s)' = Log!Of(s)
      /\ \A p \in Log!Of(s) : messages'[p] = messages[p]
  BY <1>0 DEF Touched, Log!Of
<1>2. \A p \in DOMAIN messages : Log!Latest(s, p)' <=> Log!Latest(s, p)
  BY <1>1 DEF Log!Latest
<1>3. \A i : Asked(s, i) => Asked(s, i)'
  BY <1>1, <1>2 DEF Asked, Touched, Log!Latest
<1>4. \A x : Answered(s, x) => Answered(s, x)'
  BY <1>1, <1>2 DEF Answered, Touched, Log!Latest
<1>5. ASSUME NEW x \in Local, Fits(s, x) PROVE Fits(s, x)'
  BY <1>1, <1>3, <1>4, <1>5 DEF Fits
<1>6. ASSUME NEW o \in RunRow, Behind(s, o) PROVE Behind(s, o)'
  BY <1>1, <1>6 DEF Behind, Stored, Log!Of, Touched
<1> QED BY <1>5, <1>6

\* The observation only ever gains rows to rely on.
LEMMA BehindGrows ==
    ASSUME TypeOK, NEW r \in Run, Touched(r), NEW o \in RunRow, Behind(r, o)
    PROVE  Behind(r, o)'
<1>1. \A p \in DOMAIN messages : /\ p \in DOMAIN messages'
                                 /\ messages'[p].run = messages[p].run
                                 /\ messages'[p].kind = messages[p].kind
                                 /\ messages'[p].iteration = messages[p].iteration
                                 /\ messages'[p].calls = messages[p].calls
  BY RowsTyped, RowKept DEF Touched
<1> QED BY <1>1 DEF Behind, Stored

\* A step of run r keeps the invariant if it leaves r itself in order.
LEMMA StepOfOne ==
    ASSUME IInv, NEW r \in Run, NEW x \in Local, Moved(r, x), Touched(r),
           NEW o \in RunRow, obs' \in [Run -> RunRow], obs'[r] = o,
           \A s \in Run : s # r => obs'[s] = obs[s],
           session' \in {"absent", "live", "deleted"}, gone' \subseteq Run,
           Fits(r, x)', Behind(r, o)', Ending(x, o)
    PROVE  IInv'
<1>1. TypeOK'
  BY MovedType DEF IInv, TypeOK, Touched
<1>2. RunOK(r)'
  <2>1. run'[r] = x
    BY MovedType DEF IInv
  <2> QED BY <2>1 DEF RunOK
<1>3. ASSUME NEW s \in Run, s # r PROVE RunOK(s)'
  <2>1. run'[s] = run[s] /\ obs'[s] = obs[s] /\ run[s] \in Local /\ obs[s] \in RunRow
    BY <1>3, MovedType DEF IInv, TypeOK
  <2>2. Fits(s, run[s])' /\ Behind(s, obs[s])' /\ Ending(run[s], obs[s])
    BY <1>3, <2>1, Frame DEF IInv, RunOK
  <2> QED BY <2>1, <2>2 DEF RunOK
<1> QED BY <1>1, <1>2, <1>3 DEF IInv

\* A step that leaves the table alone.
LEMMA QuietStep ==
    ASSUME IInv, NEW r \in Run, NEW x \in Local, Moved(r, x),
           NEW o \in RunRow, obs' \in [Run -> RunRow], obs'[r] = o,
           \A s \in Run : s # r => obs'[s] = obs[s],
           UNCHANGED <<session, messages, gone>>,
           Fits(r, x), Behind(r, o), Ending(x, o)
    PROVE  IInv'
<1>1. Touched(r)
  BY DEF IInv, TypeOK, Touched
<1>2. Fits(r, x)'
  BY DEF Fits, Asked, Answered, Log!Of, Log!Latest
<1>3. Behind(r, o)'
  BY DEF Behind, Stored
<1>4. session' \in {"absent", "live", "deleted"} /\ gone' \subseteq Run
  BY DEF IInv, TypeOK
<1> QED BY <1>1, <1>2, <1>3, <1>4, StepOfOne

\* A run that unwinds relies on nothing but its own registered rows.
LEMMA UnwindFits ==
    ASSUME IInv, NEW r \in Run, run[r].pc # "closed", NEW s \in Local,
           s.registered = run[r].registered, NEW place \in Unwinding
    PROVE  Fits(r, Unwind(s, place))
<1>1. Unwind(s, place).pc = place /\ Unwind(s, place).registered = run[r].registered
  BY DEF Unwind, Local
<1>2. /\ run[r].registered \subseteq Log!Of(r)
      /\ \A p \in Log!Of(r) : ~(messages[p].kind = "assistant" /\ messages[p].payload = "none")
  BY DEF IInv, RunOK, Fits
<1> QED BY <1>1, <1>2 DEF Fits, Unwinding

LEMMA EndFits ==
    ASSUME IInv, NEW r \in Run, NEW place \in Ended, run[r].pc = "closed" => place = "closed"
    PROVE  Fits(r, [Idle EXCEPT !.pc = place]) /\ Ending([Idle EXCEPT !.pc = place], obs[r])
<1> DEFINE x == [Idle EXCEPT !.pc = place]
<1>1. x.pc = place /\ x.registered = {}
  BY DEF Idle
<1>2. \/ place = "closed"
      \/ \A p \in Log!Of(r) : ~(messages[p].kind = "assistant" /\ messages[p].payload = "none")
  BY DEF IInv, RunOK, Fits
<1>3. Fits(r, x)
  BY <1>1, <1>2 DEF Fits, Ended
<1>4. Ending(x, obs[r])
  BY <1>1 DEF Ending
<1> QED BY <1>3, <1>4

\* Run r leaves its generators.
LEMMA EndStep ==
    ASSUME IInv, NEW r \in Run, NEW place \in Ended, run[r].pc = "closed" => place = "closed",
           End(r, place), UNCHANGED <<session, messages, obs, gone>>
    PROVE  IInv'
<1> DEFINE x == [Idle EXCEPT !.pc = place]
<1>1. x \in Local
  BY LocalTypes DEF Place
<1>2. Moved(r, x)
  BY DEF End, Moved
<1>3. Fits(r, x) /\ Ending(x, obs[r])
  BY EndFits
<1>4. obs[r] \in RunRow /\ obs' \in [Run -> RunRow] /\ Behind(r, obs[r])
  BY DEF IInv, TypeOK, RunOK
<1> HIDE DEF x
<1> QED BY <1>1, <1>2, <1>3, <1>4, QuietStep

\* An await returns and run r goes on, having perhaps written the observation o.
LEMMA AwaitStep ==
    ASSUME IInv, NEW r \in Run, run[r].pc # "closed",
           NEW before \in Local, NEW after \in Local, Resume(r, before, after),
           NEW o \in RunRow, Write(r, o) \/ UNCHANGED obs,
           UNCHANGED <<session, messages, gone>>,
           before.registered = run[r].registered,
           Fits(r, after), Behind(r, o), Ending(after, o), Ending(after, obs[r])
    PROVE  IInv'
<1>1. obs' \in [Run -> RunRow] /\ \A s \in Run : s # r => obs'[s] = obs[s]
  BY WriteType DEF IInv, TypeOK
<1>2. PICK q \in RunRow : obs'[r] = q /\ q \in {o, obs[r]}
  BY WriteType DEF IInv, TypeOK
<1>3. Behind(r, q)
  BY <1>2 DEF IInv, RunOK
<1>4. CASE Moved(r, after)
  BY <1>1, <1>2, <1>3, <1>4, QuietStep
<1>5. CASE Moved(r, Unwind(before, "abort"))
  <2>1. Unwind(before, "abort") \in Local /\ Unwind(before, "abort").pc = "abort"
    BY LocalTypes DEF Unwinding, Unwind, Local
  <2>2. Fits(r, Unwind(before, "abort")) /\ Ending(Unwind(before, "abort"), q)
    BY <2>1, UnwindFits DEF Unwinding, Ending
  <2> QED BY <1>1, <1>2, <1>3, <1>5, <2>1, <2>2, QuietStep
<1> QED BY <1>4, <1>5, ResumeMoves

\* A run in the middle of its work has recorded no end.
Working == Place \ ({"abort", "clear"} \cup Ended)

LEMMA NotEnded ==
    ASSUME IInv, NEW r \in Run, run[r].pc \in Working
    PROVE  /\ run[r].pc # "closed"
           /\ obs[r].status \notin {"completed", "failed", "aborted"}
           /\ run[r] \in Local /\ obs[r] \in RunRow
           /\ \A x : Ending(x, obs[r])
  BY DEF IInv, TypeOK, RunOK, Ending, Working, Ended

-----------------------------------------------------------------------------
(* The observation *)

LEMMA StatusOfWrites ==
    ASSUME NEW o \in RunRow
    PROVE  /\ StartedRun(o).status = "running" /\ StartedRun(o).span = o.span
           /\ \A s, parent : OpenedSpan(o, s, parent).status = o.status
           /\ \A s, result : ClosedSpan(o, s, result).status = o.status
           /\ \A status : FinishedRun(o, status).status \in {"none", status}
           /\ \A status : FinishedRun(o, status).span = o.span
  BY DEF RunRow, StartedRun, OpenedSpan, ClosedSpan, FinishedRun

LEMMA SpansOfWrites ==
    ASSUME NEW o \in RunRow, NEW i \in SpanId
    PROVE  /\ \A s \in SpanId : \A parent : OpenedSpan(o, s, parent).span[i] = "done" => o.span[i] = "done"
           /\ \A s \in SpanId : ClosedSpan(o, s, "partial").span[i] = "done" => o.span[i] = "done"
           /\ \A s \in SpanId : ClosedSpan(o, s, "done").span[i] = "done" => s = i \/ o.span[i] = "done"
  BY DEF RunRow, OpenedSpan, ClosedSpan

LEMMA BehindWrites ==
    ASSUME IInv, NEW r \in Run
    PROVE  /\ Behind(r, StartedRun(obs[r]))
           /\ \A s \in SpanId : \A parent : Behind(r, OpenedSpan(obs[r], s, parent))
           /\ \A s \in SpanId : Behind(r, ClosedSpan(obs[r], s, "partial"))
           /\ \A c \in Call : Behind(r, ClosedSpan(obs[r], c, "done"))
           /\ \A i \in 1 .. HardCap :
                 Stored(r, "assistant", i) => Behind(r, ClosedSpan(obs[r], i, "done"))
           /\ Behind(r, FinishedRun(obs[r], "failed"))
           /\ Behind(r, FinishedRun(obs[r], "aborted"))
<1> DEFINE o == obs[r]
<1>1. o \in RunRow /\ Behind(r, o)
  BY DEF IInv, TypeOK, RunOK
<1>2. 1 .. HardCap \subseteq SpanId /\ Call \subseteq SpanId
  BY DEF SpanId
<1>3. \A c \in Call, i \in 1 .. HardCap : c # i
  BY CallsAreNoNumbers, HardCapPositive
<1> HIDE DEF o
<1>4. Behind(r, StartedRun(o))
  BY <1>1, StatusOfWrites DEF Behind
<1>5. \A s \in SpanId : \A parent : Behind(r, OpenedSpan(o, s, parent))
  BY <1>1, <1>2, StatusOfWrites, SpansOfWrites DEF Behind
<1>6. \A s \in SpanId : Behind(r, ClosedSpan(o, s, "partial"))
  BY <1>1, <1>2, StatusOfWrites, SpansOfWrites DEF Behind
<1>7. \A c \in Call : Behind(r, ClosedSpan(o, c, "done"))
  BY <1>1, <1>2, <1>3, StatusOfWrites, SpansOfWrites DEF Behind
<1>8. \A i \in 1 .. HardCap : Stored(r, "assistant", i) => Behind(r, ClosedSpan(o, i, "done"))
  BY <1>1, <1>2, StatusOfWrites, SpansOfWrites DEF Behind
<1>9. Behind(r, FinishedRun(o, "failed")) /\ Behind(r, FinishedRun(o, "aborted"))
  BY <1>1, StatusOfWrites DEF Behind
<1> QED BY <1>4, <1>5, <1>6, <1>7, <1>8, <1>9 DEF o

\* Opening or closing a span records no end.
LEMMA EndingWrites ==
    ASSUME IInv, NEW r \in Run, run[r].pc \in Working
    PROVE  /\ \A x : Ending(x, StartedRun(obs[r]))
           /\ \A x, s, parent : Ending(x, OpenedSpan(obs[r], s, parent))
           /\ \A x, s, result : Ending(x, ClosedSpan(obs[r], s, result))
  BY NotEnded, StatusOfWrites DEF Ending

-----------------------------------------------------------------------------
(* The steps of a run that write no row *)

LEMMA RefuseStep == ASSUME IInv, NEW r \in Run, Refuse(r) PROVE IInv'
  BY EndStep DEF Refuse, Ended

\* A run that only changes its place.
LEMMA AtTypes ==
    ASSUME IInv, NEW r \in Run, NEW place \in Place
    PROVE  /\ At(r, place) \in Local
           /\ At(r, place) = [run[r] EXCEPT !.pc = place]
           /\ At(r, place).pc = place
           /\ At(r, place).iteration = run[r].iteration
           /\ At(r, place).calls = run[r].calls
           /\ At(r, place).registered = run[r].registered
  BY LocalTypes DEF IInv, TypeOK, At, Local

LEMMA RebuildStep == ASSUME IInv, NEW r \in Run, Rebuild(r) PROVE IInv'
<1>1. CASE End(r, "rejected")
  BY <1>1, EndStep DEF Rebuild, Ended
<1>2. CASE run' = [run EXCEPT ![r].pc = "port"]
  <2>1. Moved(r, At(r, "port"))
    BY <1>2 DEF Moved, At
  <2>2. At(r, "port") \in Local /\ Fits(r, At(r, "port"))
    BY AtTypes DEF Rebuild, IInv, RunOK, Fits, Place, Streaming
  <2>3. Ending(At(r, "port"), obs[r]) /\ Behind(r, obs[r]) /\ obs[r] \in RunRow
    BY NotEnded DEF Rebuild, IInv, TypeOK, RunOK, Working, Place, Ended
  <2>4. obs' = obs /\ obs \in [Run -> RunRow]
    BY DEF Rebuild, IInv, TypeOK
  <2> QED BY <2>1, <2>2, <2>3, <2>4, QuietStep DEF Rebuild
<1> QED BY <1>1, <1>2 DEF Rebuild

LEMMA EnterPortStep == ASSUME IInv, NEW r \in Run, EnterPort(r) PROVE IInv'
<1>0. run[r].pc \in Working
  BY DEF EnterPort, Working, Place, Streaming, Ended
<1>1. /\ run[r] \in Local /\ obs[r] \in RunRow /\ Behind(r, obs[r])
      /\ \A x : Ending(x, obs[r])
  BY <1>0, NotEnded DEF IInv, RunOK
<1>2. CASE Resume(r, run[r], At(r, "start"))
  <2>1. At(r, "start") \in Local /\ Fits(r, At(r, "start"))
    BY AtTypes DEF EnterPort, IInv, RunOK, Fits, Place, Streaming
  <2> QED BY <1>1, <1>2, <2>1, AwaitStep DEF EnterPort
<1>3. CASE run' = [run EXCEPT ![r].pc = "clear"]
  <2>1. Moved(r, At(r, "clear"))
    BY <1>3 DEF Moved, At
  <2>2. At(r, "clear") \in Local /\ Fits(r, At(r, "clear"))
    BY AtTypes DEF EnterPort, IInv, RunOK, Fits, Place, Streaming
  <2>3. obs' = obs /\ obs \in [Run -> RunRow]
    BY DEF EnterPort, IInv, TypeOK
  <2> QED BY <1>1, <2>1, <2>2, <2>3, QuietStep DEF EnterPort
<1> QED BY <1>2, <1>3 DEF EnterPort

LEMMA StartRunStep == ASSUME IInv, NEW r \in Run, StartRun(r) PROVE IInv'
<1>0. run[r].pc \in Working
  BY DEF StartRun, Working, Place, Streaming, Ended
<1>1. run[r] \in Local /\ obs[r] \in RunRow /\ \A x : Ending(x, obs[r])
  BY <1>0, NotEnded
<1>2. At(r, "open") \in Local /\ Fits(r, At(r, "open"))
  BY AtTypes, HardCapPositive DEF StartRun, IInv, RunOK, Fits, Place, Streaming
<1>3. /\ StartedRun(obs[r]) \in RunRow /\ Behind(r, StartedRun(obs[r]))
      /\ \A x : Ending(x, StartedRun(obs[r]))
  BY <1>0, <1>1, ObsTypes, BehindWrites, EndingWrites
<1> QED BY <1>1, <1>2, <1>3, AwaitStep DEF StartRun

LEMMA OpenMainStep == ASSUME IInv, NEW r \in Run, OpenMain(r) PROVE IInv'
<1> DEFINE i == run[r].iteration + 1
           before == [run[r] EXCEPT !.iteration = i, !.main = i]
           after == [before EXCEPT !.pc = "model"]
           o == OpenedSpan(obs[r], i, 0)
<1>0. run[r].pc \in Working
  BY DEF OpenMain, Working, Place, Streaming, Ended
<1>1. run[r] \in Local /\ obs[r] \in RunRow /\ \A x : Ending(x, obs[r])
  BY <1>0, NotEnded
<1>2. /\ i \in 1 .. HardCap /\ i \in 0 .. HardCap /\ i # 0
      /\ i - 1 = run[r].iteration /\ Asked(r, i - 1)
  BY <1>1, HardCapPositive DEF OpenMain, IInv, RunOK, Fits, Local
<1> HIDE DEF i
<1>3. before \in Local /\ before.registered = run[r].registered /\ before.iteration = i
  BY <1>1, <1>2 DEF Local
<1>4. /\ after \in Local /\ after.registered = run[r].registered
      /\ after.pc = "model" /\ after.iteration = i
  <2> HIDE DEF before
  <2> QED BY <1>3 DEF Local, Place, Streaming
<1>7. Fits(r, after)
  <2>1. /\ run[r].registered \subseteq Log!Of(r)
        /\ \A p \in Log!Of(r) : messages[p].kind = "assistant" => messages[p].payload # "none"
    BY DEF OpenMain, IInv, RunOK, Fits
  <2> HIDE DEF after
  <2> QED BY <1>2, <1>4, <2>1 DEF Fits
<1>5. o \in RunRow /\ Behind(r, o) /\ \A x : Ending(x, o)
  <2>1. i \in SpanId /\ 0 \in 0 .. HardCap
    BY <1>2, HardCapPositive DEF SpanId
  <2> QED BY <1>0, <1>1, <2>1, ObsTypes, BehindWrites, EndingWrites
<1>6. Write(r, o) /\ Resume(r, before, after)
  BY DEF OpenMain, i
<1> HIDE DEF before, after, o
<1> QED BY <1>0, <1>1, <1>3, <1>4, <1>5, <1>6, <1>7, NotEnded, AwaitStep DEF OpenMain

LEMMA ModelAnswersStep == ASSUME IInv, NEW r \in Run, ModelAnswers(r) PROVE IInv'
<1>0. run[r].pc \in Working
  BY DEF ModelAnswers, Working, Place, Streaming, Ended
<1>1. run[r] \in Local /\ obs[r] \in RunRow /\ Behind(r, obs[r]) /\ \A x : Ending(x, obs[r])
  BY <1>0, NotEnded DEF IInv, RunOK
<1>2. PICK cs \in SUBSET Call : Resume(r, run[r], [run[r] EXCEPT !.pc = "answer", !.calls = cs])
  BY DEF ModelAnswers
<1> DEFINE after == [run[r] EXCEPT !.pc = "answer", !.calls = cs]
<1>3. /\ after \in Local /\ after.pc = "answer" /\ after.iteration = run[r].iteration
      /\ after.registered = run[r].registered
  BY <1>1 DEF Local, Place, Streaming
<1>4. Fits(r, after)
  BY <1>3 DEF ModelAnswers, IInv, RunOK, Fits
<1> HIDE DEF after
<1> QED BY <1>1, <1>2, <1>3, <1>4, AwaitStep DEF ModelAnswers, after

\* The model or a tool fails, or a row cannot be stored.
LEMMA FailStep ==
    ASSUME IInv, NEW r \in Run, run[r].pc \in Working, NEW place \in Unwinding,
           Resume(r, run[r], Unwind(run[r], place)), UNCHANGED <<session, messages, obs, gone>>
    PROVE  IInv'
<1>1. /\ run[r] \in Local /\ obs[r] \in RunRow /\ Behind(r, obs[r]) /\ \A x : Ending(x, obs[r])
      /\ run[r].pc # "closed"
  BY NotEnded DEF IInv, RunOK
<1>2. Unwind(run[r], place) \in Local /\ Fits(r, Unwind(run[r], place))
  BY <1>1, LocalTypes, UnwindFits
<1> QED BY <1>1, <1>2, AwaitStep

LEMMA FailuresStep ==
    ASSUME IInv, NEW r \in Run, ModelFails(r) \/ ToolsFail(r) \/ StoreFails(r)
    PROVE  IInv'
<1>1. run[r].pc \in Working
  BY DEF ModelFails, ToolsFail, StoreFails, Storing, Working, Place, Streaming, Ended
<1> QED BY <1>1, FailStep DEF ModelFails, ToolsFail, StoreFails, Raise, Unwinding

LEMMA ToolsReturnStep == ASSUME IInv, NEW r \in Run, ToolsReturn(r) PROVE IInv'
<1> DEFINE after == [run[r] EXCEPT !.pc = "tool_end", !.pending = run[r].calls]
<1>0. run[r].pc \in Working
  BY DEF ToolsReturn, Working, Place, Streaming, Ended
<1>1. run[r] \in Local /\ obs[r] \in RunRow /\ Behind(r, obs[r]) /\ \A x : Ending(x, obs[r])
  BY <1>0, NotEnded DEF IInv, RunOK
<1>3. /\ after \in Local /\ after.pc = "tool_end" /\ after.iteration = run[r].iteration
      /\ after.registered = run[r].registered
      /\ after.calls = run[r].calls /\ after.pending = run[r].calls
  BY <1>1 DEF Local, Place, Streaming
<1>4. Fits(r, after)
  BY <1>3 DEF ToolsReturn, IInv, RunOK, Fits, Answered
<1>5. Resume(r, run[r], after)
  BY DEF ToolsReturn
<1> HIDE DEF after
<1> QED BY <1>1, <1>3, <1>4, <1>5, <1>0, NotEnded, AwaitStep DEF ToolsReturn

LEMMA CloseMainStep == ASSUME IInv, NEW r \in Run, CloseMain(r) PROVE IInv'
<1> DEFINE s == [run[r] EXCEPT !.main = 0]
           o == ClosedSpan(obs[r], run[r].iteration, "done")
           after == IF s.calls = {} THEN [s EXCEPT !.pc = "complete"]
                    ELSE IF s.iteration = HardCap THEN Unwind(s, "fail")
                    ELSE [s EXCEPT !.pc = "tool_open", !.pending = s.calls]
<1>0. run[r].pc \in Working
  BY DEF CloseMain, Working, Place, Streaming, Ended
<1>1. run[r] \in Local /\ obs[r] \in RunRow /\ run[r].pc # "closed" /\ \A x : Ending(x, obs[r])
  BY <1>0, NotEnded
<1>2. /\ s \in Local /\ s.iteration = run[r].iteration /\ s.calls = run[r].calls
      /\ s.registered = run[r].registered
  BY <1>1, HardCapPositive DEF Local
<1>3. /\ run[r].iteration # 0 /\ Answered(r, run[r])
      /\ run[r].registered \subseteq Log!Of(r)
      /\ \A p \in Log!Of(r) : messages[p].kind = "assistant" => messages[p].payload # "none"
  BY DEF CloseMain, IInv, RunOK, Fits
<1>4. Answered(r, s)
  BY <1>2, <1>3 DEF Answered
<1>5. run[r].iteration \in 1 .. HardCap /\ run[r].iteration \in SpanId
  BY <1>1, <1>3, HardCapPositive DEF Local, SpanId
<1>6. Stored(r, "assistant", run[r].iteration)
  BY <1>3 DEF Answered, Stored, Log!Latest, Log!Of
<1>7. o \in RunRow /\ Behind(r, o) /\ \A x : Ending(x, o)
  BY <1>0, <1>1, <1>5, <1>6, ObsTypes, BehindWrites, EndingWrites
<1>8. Write(r, o) /\ Resume(r, run[r], after)
  BY DEF CloseMain
<1> HIDE DEF s
<1>9. after \in Local /\ Fits(r, after)
  <2>1. CASE s.calls = {}
    <3> DEFINE t == [s EXCEPT !.pc = "complete"]
    <3>1. /\ t \in Local /\ t.pc = "complete" /\ t.iteration = s.iteration
          /\ t.calls = s.calls /\ t.registered = s.registered
      BY <1>2 DEF Local, Place, Streaming
    <3>2. after = t
      BY <2>1
    <3> HIDE DEF t, after
    <3>3. Answered(r, t)
      BY <3>1, <1>4 DEF Answered
    <3> QED BY <3>1, <3>2, <3>3, <2>1, <1>2, <1>3 DEF Fits
  <2>2. CASE s.calls # {} /\ s.iteration = HardCap
    BY <1>1, <1>2, <2>2, LocalTypes, UnwindFits DEF Unwinding
  <2>3. CASE s.calls # {} /\ s.iteration # HardCap
    <3> DEFINE t == [s EXCEPT !.pc = "tool_open", !.pending = s.calls]
    <3>1. /\ t \in Local /\ t.pc = "tool_open" /\ t.iteration = s.iteration
          /\ t.calls = s.calls /\ t.registered = s.registered /\ t.pending = s.calls
      BY <1>2 DEF Local, Place, Streaming
    <3>2. after = t
      BY <2>3
    <3>4. t.iteration < HardCap
      BY <2>3, <3>1, <1>2, HardCapPositive DEF Local
    <3> HIDE DEF t, after
    <3>3. Answered(r, t)
      BY <3>1, <1>4 DEF Answered
    <3> QED BY <3>1, <3>2, <3>3, <3>4, <1>2, <1>3 DEF Fits
  <2> QED BY <2>1, <2>2, <2>3
<1> HIDE DEF o, after
<1> QED BY <1>1, <1>7, <1>8, <1>9, AwaitStep DEF CloseMain

LEMMA OpenToolStep == ASSUME IInv, NEW r \in Run, OpenTool(r) PROVE IInv'
<1>0. run[r].pc \in Working
  BY DEF OpenTool, Working, Place, Streaming, Ended
<1>1. run[r] \in Local /\ obs[r] \in RunRow /\ run[r].pc # "closed" /\ \A x : Ending(x, obs[r])
  BY <1>0, NotEnded
<1>2. PICK c \in run[r].pending :
         LET before == [run[r] EXCEPT !.tools = @ \cup {c}]
         IN /\ Write(r, OpenedSpan(obs[r], c, run[r].iteration))
            /\ Resume(r, before,
                      IF run[r].pending = {c} THEN [before EXCEPT !.pc = "tools"]
                      ELSE [before EXCEPT !.pending = @ \ {c}])
  BY DEF OpenTool
<1> DEFINE before == [run[r] EXCEPT !.tools = @ \cup {c}]
           after == IF run[r].pending = {c} THEN [before EXCEPT !.pc = "tools"]
                    ELSE [before EXCEPT !.pending = @ \ {c}]
           o == OpenedSpan(obs[r], c, run[r].iteration)
<1>3. c \in Call /\ c \in SpanId /\ run[r].iteration \in 0 .. HardCap
  BY <1>1 DEF Local, SpanId
<1>4. /\ before \in Local /\ before.registered = run[r].registered /\ before.calls = run[r].calls
      /\ before.iteration = run[r].iteration /\ before.pending = run[r].pending
      /\ before.pc = "tool_open"
  BY <1>1, <1>3 DEF Local, OpenTool
<1>5. /\ run[r].iteration # 0 /\ run[r].iteration < HardCap /\ Answered(r, run[r])
      /\ run[r].pending \subseteq run[r].calls /\ run[r].registered \subseteq Log!Of(r)
      /\ \A p \in Log!Of(r) : messages[p].kind = "assistant" => messages[p].payload # "none"
  BY DEF OpenTool, IInv, RunOK, Fits
<1>6. o \in RunRow /\ Behind(r, o) /\ \A x : Ending(x, o)
  BY <1>0, <1>1, <1>3, ObsTypes, BehindWrites, EndingWrites
<1>7. Write(r, o) /\ Resume(r, before, after)
  BY <1>2
<1> HIDE DEF before
<1>8. /\ after \in Local /\ after.registered = run[r].registered
      /\ after.calls = run[r].calls /\ after.iteration = run[r].iteration
      /\ after.pending \subseteq run[r].pending /\ after.pc \in {"tool_open", "tools"}
  BY <1>4 DEF Local, Place, Streaming
<1> HIDE DEF after, o
<1>9. Answered(r, after)
  BY <1>5, <1>8 DEF Answered
<1>10. Fits(r, after)
  BY <1>5, <1>8, <1>9 DEF Fits
<1> QED BY <1>1, <1>4, <1>6, <1>7, <1>8, <1>10, AwaitStep DEF OpenTool

LEMMA CloseToolStep == ASSUME IInv, NEW r \in Run, CloseTool(r) PROVE IInv'
<1>0. run[r].pc \in Working
  BY DEF CloseTool, Working, Place, Streaming, Ended
<1>1. run[r] \in Local /\ obs[r] \in RunRow /\ run[r].pc # "closed" /\ \A x : Ending(x, obs[r])
  BY <1>0, NotEnded
<1>2. PICK c \in run[r].pending :
         LET before == [run[r] EXCEPT !.tools = @ \ {c}]
         IN /\ Write(r, ClosedSpan(obs[r], c, "done"))
            /\ Resume(r, before, [before EXCEPT !.pending = @ \ {c}])
  BY DEF CloseTool
<1> DEFINE before == [run[r] EXCEPT !.tools = @ \ {c}]
           after == [before EXCEPT !.pending = @ \ {c}]
           o == ClosedSpan(obs[r], c, "done")
<1>3. c \in Call /\ c \in SpanId
  BY <1>1 DEF Local, SpanId
<1>4. /\ before \in Local /\ before.registered = run[r].registered /\ before.calls = run[r].calls
      /\ before.iteration = run[r].iteration /\ before.pending = run[r].pending
      /\ before.pc = "tool_end"
  BY <1>1, <1>3 DEF Local, CloseTool
<1>5. /\ run[r].iteration # 0 /\ run[r].iteration < HardCap /\ Answered(r, run[r])
      /\ run[r].pending \subseteq run[r].calls /\ run[r].registered \subseteq Log!Of(r)
      /\ \A p \in Log!Of(r) : messages[p].kind = "assistant" => messages[p].payload # "none"
  BY DEF CloseTool, IInv, RunOK, Fits
<1>6. o \in RunRow /\ Behind(r, o) /\ \A x : Ending(x, o)
  BY <1>0, <1>1, <1>3, ObsTypes, BehindWrites, EndingWrites
<1>7. Write(r, o) /\ Resume(r, before, after)
  BY <1>2
<1> HIDE DEF before
<1>8. /\ after \in Local /\ after.registered = run[r].registered
      /\ after.calls = run[r].calls /\ after.iteration = run[r].iteration
      /\ after.pending \subseteq run[r].pending /\ after.pc = "tool_end"
  BY <1>4 DEF Local
<1> HIDE DEF after, o
<1>9. Answered(r, after)
  BY <1>5, <1>8 DEF Answered
<1>10. Fits(r, after)
  BY <1>5, <1>8, <1>9 DEF Fits
<1> QED BY <1>1, <1>4, <1>6, <1>7, <1>8, <1>10, AwaitStep DEF CloseTool

LEMMA CloseLastToolStep == ASSUME IInv, NEW r \in Run, CloseLastTool(r) PROVE IInv'
<1>0. run[r].pc \in Working
  BY DEF CloseLastTool, Working, Place, Streaming, Ended
<1>1. run[r] \in Local /\ obs[r] \in RunRow /\ run[r].pc # "closed" /\ \A x : Ending(x, obs[r])
  BY <1>0, NotEnded
<1>2. PICK c \in run[r].pending :
         LET before == [run[r] EXCEPT !.tools = @ \ {c}]
         IN /\ Write(r, ClosedSpan(obs[r], c, "done"))
            /\ Resume(r, before, [before EXCEPT !.pending = {}, !.pc = "open"])
  BY DEF CloseLastTool
<1> DEFINE before == [run[r] EXCEPT !.tools = @ \ {c}]
           after == [before EXCEPT !.pending = {}, !.pc = "open"]
           o == ClosedSpan(obs[r], c, "done")
<1>3. c \in Call /\ c \in SpanId
  BY <1>1 DEF Local, SpanId
<1>4. /\ before \in Local /\ before.registered = run[r].registered
      /\ before.iteration = run[r].iteration
  BY <1>1, <1>3 DEF Local
<1>5. /\ run[r].iteration < HardCap /\ Asked(r, run[r].iteration)
      /\ run[r].registered \subseteq Log!Of(r)
      /\ \A p \in Log!Of(r) : messages[p].kind = "assistant" => messages[p].payload # "none"
  BY DEF CloseLastTool, IInv, RunOK, Fits
<1>6. o \in RunRow /\ Behind(r, o) /\ \A x : Ending(x, o)
  BY <1>0, <1>1, <1>3, ObsTypes, BehindWrites, EndingWrites
<1>7. Write(r, o) /\ Resume(r, before, after)
  BY <1>2
<1> HIDE DEF before
<1>8. /\ after \in Local /\ after.registered = run[r].registered
      /\ after.iteration = run[r].iteration /\ after.pc = "open"
  BY <1>4 DEF Local, Place, Streaming
<1> HIDE DEF after, o
<1>10. Fits(r, after)
  BY <1>5, <1>8 DEF Fits
<1> QED BY <1>1, <1>4, <1>6, <1>7, <1>8, <1>10, AwaitStep DEF CloseLastTool

LEMMA CompleteStep == ASSUME IInv, NEW r \in Run, Complete(r) PROVE IInv'
<1> DEFINE o == FinishedRun(obs[r], "completed")
<1>0. run[r].pc \in Working
  BY DEF Complete, Working, Place, Streaming, Ended
<1>1. /\ run[r] \in Local /\ obs[r] \in RunRow /\ run[r].pc # "closed" /\ \A x : Ending(x, obs[r])
      /\ Behind(r, obs[r])
  BY <1>0, NotEnded DEF IInv, RunOK
<1>2. /\ Answered(r, run[r]) /\ run[r].calls = {} /\ run[r].registered \subseteq Log!Of(r)
      /\ \A p \in Log!Of(r) : messages[p].kind = "assistant" => messages[p].payload # "none"
  BY DEF Complete, IInv, RunOK, Fits
<1>3. /\ At(r, "clear") \in Local /\ At(r, "clear").pc = "clear"
      /\ At(r, "clear").registered = run[r].registered
  BY AtTypes DEF Place, Streaming
<1>4. Fits(r, At(r, "clear")) /\ Ending(At(r, "clear"), o) /\ Ending(At(r, "clear"), obs[r])
  BY <1>2, <1>3 DEF Fits, Ending
<1>5. o \in RunRow /\ Behind(r, o)
  <2>1. \E p \in DOMAIN messages : /\ messages[p].run = r
                                   /\ messages[p].kind = "assistant"
                                   /\ messages[p].calls = {}
    BY <1>2 DEF Answered, Log!Latest, Log!Of
  <2>2. o.span = obs[r].span
    BY <1>1, StatusOfWrites
  <2> QED BY <1>1, <2>1, <2>2, ObsTypes DEF Behind
<1> HIDE DEF o
<1> QED BY <1>1, <1>3, <1>4, <1>5, AwaitStep DEF Complete, o

\* A step of the unwinding: it may write the observation and keeps the rows.
LEMMA UnwindingStep ==
    ASSUME IInv, NEW r \in Run, run[r].pc \in Unwinding,
           NEW before \in Local, NEW after \in Local, Continue(r, before, after),
           before.registered = run[r].registered, after.registered = run[r].registered,
           after.pc \in {run[r].pc, "clear"},
           NEW o \in RunRow, Write(r, o), Behind(r, o),
           Ending(after, o), Ending(after, obs[r]),
           UNCHANGED <<session, messages, gone>>
    PROVE  IInv'
<1>1. /\ run[r].registered \subseteq Log!Of(r) /\ run[r].pc # "closed"
      /\ \A p \in Log!Of(r) : messages[p].kind = "assistant" => messages[p].payload # "none"
  BY DEF Unwinding, IInv, RunOK, Fits
<1>2. Fits(r, after)
  BY <1>1 DEF Fits, Unwinding
<1>3. CASE Resume(r, before, after)
  BY <1>1, <1>2, <1>3, AwaitStep
<1>4. CASE run' = [run EXCEPT ![r] = after]
  <2>1. obs' \in [Run -> RunRow] /\ \A s \in Run : s # r => obs'[s] = obs[s]
    BY WriteType DEF IInv
  <2>2. PICK q \in RunRow : obs'[r] = q /\ q \in {o, obs[r]}
    BY WriteType DEF IInv, TypeOK
  <2>3. Behind(r, q) /\ Ending(after, q)
    BY <2>2 DEF IInv, RunOK
  <2> QED BY <1>2, <1>4, <2>1, <2>2, <2>3, QuietStep DEF Moved
<1> QED BY <1>3, <1>4 DEF Continue

LEMMA CloseLeftStep == ASSUME IInv, NEW r \in Run, CloseLeft(r) PROVE IInv'
<1>1. /\ run[r] \in Local /\ obs[r] \in RunRow /\ Ending(run[r], obs[r])
  BY DEF IInv, TypeOK, RunOK
<1>2. PICK s \in run[r].left :
         /\ Write(r, ClosedSpan(obs[r], s, "partial"))
         /\ LET rest == [run[r] EXCEPT !.left = @ \ {s}]
            IN Continue(r, run[r], IF run[r].pc = "fail" /\ s = run[r].main
                                   THEN [rest EXCEPT !.main = 0] ELSE rest)
  BY DEF CloseLeft
<1> DEFINE rest == [run[r] EXCEPT !.left = @ \ {s}]
           after == IF run[r].pc = "fail" /\ s = run[r].main THEN [rest EXCEPT !.main = 0]
                    ELSE rest
           o == ClosedSpan(obs[r], s, "partial")
<1>3. s \in SpanId
  BY <1>1 DEF Local
<1>4. rest \in Local /\ rest.registered = run[r].registered /\ rest.pc = run[r].pc
  BY <1>1 DEF Local
<1> HIDE DEF rest
<1>5. after \in Local /\ after.registered = run[r].registered /\ after.pc = run[r].pc
  BY <1>4, HardCapPositive DEF Local
<1>6. o \in RunRow /\ Behind(r, o) /\ o.status = obs[r].status
  <2>1. o \in RunRow
    BY <1>1, <1>3, ObsTypes
  <2>2. Behind(r, o)
    BY <1>3, BehindWrites
  <2>3. o.status = obs[r].status
    BY <1>1, StatusOfWrites
  <2> QED BY <2>1, <2>2, <2>3
<1>7. Write(r, o) /\ Continue(r, run[r], after)
  BY <1>2 DEF rest
<1> HIDE DEF after, o
<1>8. Ending(after, o) /\ Ending(after, obs[r])
  BY <1>1, <1>5, <1>6 DEF Ending
<1> QED BY <1>1, <1>5, <1>6, <1>7, <1>8, UnwindingStep DEF CloseLeft

LEMMA FinishUnwindingStep == ASSUME IInv, NEW r \in Run, FinishUnwinding(r) PROVE IInv'
<1> DEFINE before == [run[r] EXCEPT !.tools = {}]
           after == [before EXCEPT !.pc = "clear"]
           status == IF run[r].pc = "abort" THEN "aborted" ELSE "failed"
           o == FinishedRun(obs[r], status)
<1>1. run[r] \in Local /\ obs[r] \in RunRow
  BY DEF IInv, TypeOK
<1>2. before \in Local /\ before.registered = run[r].registered
  BY <1>1 DEF Local
<1>3. Write(r, o) /\ Continue(r, before, after)
  BY DEF FinishUnwinding
<1>4. o \in RunRow /\ Behind(r, o)
  BY <1>1, ObsTypes, BehindWrites
<1> HIDE DEF before
<1>5. after \in Local /\ after.registered = run[r].registered /\ after.pc = "clear"
  BY <1>2 DEF Local, Place, Streaming
<1> HIDE DEF after, o
<1>6. Ending(after, o) /\ Ending(after, obs[r])
  BY <1>5 DEF Ending
<1> QED BY <1>2, <1>3, <1>4, <1>5, <1>6, UnwindingStep DEF FinishUnwinding

LEMMA ClearFailsStep == ASSUME IInv, NEW r \in Run, ClearFails(r) PROVE IInv'
  BY EndStep DEF ClearFails, Ended

LEMMA CutCleanupStep == ASSUME IInv, NEW r \in Run, CutCleanup(r) PROVE IInv'
<1>1. CASE run[r].pc = "clear" /\ End(r, "closed")
  BY <1>1, EndStep DEF CutCleanup, Ended
<1>2. CASE run[r].pc = "abort" /\ run' = [run EXCEPT ![r].pc = "clear"]
  <2>1. Moved(r, At(r, "clear"))
    BY <1>2 DEF Moved, At
  <2>2. /\ At(r, "clear") \in Local /\ At(r, "clear").pc = "clear"
        /\ At(r, "clear").registered = run[r].registered
    BY AtTypes DEF Place, Streaming
  <2>3. Fits(r, At(r, "clear")) /\ Ending(At(r, "clear"), obs[r])
    BY <1>2, <2>2 DEF IInv, RunOK, Fits, Ending
  <2>4. obs' = obs /\ obs \in [Run -> RunRow] /\ obs[r] \in RunRow /\ Behind(r, obs[r])
    BY DEF CutCleanup, IInv, TypeOK, RunOK
  <2> QED BY <2>1, <2>2, <2>3, <2>4, QuietStep DEF CutCleanup
<1> QED BY <1>1, <1>2 DEF CutCleanup

-----------------------------------------------------------------------------
(* The steps that write rows *)

\* What the table says of run r once it has appended a row.
LEMMA Appending ==
    ASSUME IInv, NEW r \in Run, NEW row \in Message, row.run = r, messages' = Appended(row)
    PROVE  /\ Touched(r)
           /\ Len(messages') = Len(messages) + 1 /\ Len(messages') \in Nat \ {0}
           /\ messages'[Len(messages')] = row
           /\ Log!Of(r)' = Log!Of(r) \cup {Len(messages')}
           /\ \A p \in Log!Of(r) : messages'[p] = messages[p]
           /\ row.kind \in {"user", "tool"} => Asked(r, row.iteration)'
           /\ \A x : row.kind = "assistant" /\ row.iteration = x.iteration /\ row.calls = x.calls
                        => Answered(r, x)'
<1>1. messages \in Seq(Message) /\ Len(messages) \in Nat
  BY DEF IInv, TypeOK
<1>0. PICK n \in Nat : n = Len(messages) + 1
  BY <1>1
<1>2. /\ messages' \in Seq(Message) /\ Len(messages') = n
      /\ messages'[n] = row /\ \A p \in 1 .. Len(messages) : messages'[p] = messages[p]
      /\ DOMAIN messages' = 1 .. n /\ DOMAIN messages = 1 .. Len(messages)
  BY <1>0, <1>1 DEF Appended
<1>3. n \in Nat \ {0} /\ 1 .. n = (1 .. Len(messages)) \cup {n}
      /\ n \notin 1 .. Len(messages) /\ \A p \in 1 .. n : p <= n
  BY <1>0, <1>1
<1>4. Touched(r)
  BY <1>2, <1>3 DEF Touched
<1>5. Log!Of(r)' = Log!Of(r) \cup {n} /\ \A p \in Log!Of(r) : messages'[p] = messages[p]
  BY <1>2, <1>3 DEF Log!Of
<1>6. Log!Latest(r, n)' /\ n \in DOMAIN messages'
  BY <1>2, <1>3 DEF Log!Of, Log!Latest
<1>7. row.kind \in {"user", "tool"} => Asked(r, row.iteration)'
  BY <1>2, <1>6 DEF Asked
<1>8. \A x : row.kind = "assistant" /\ row.iteration = x.iteration /\ row.calls = x.calls
                => Answered(r, x)'
  BY <1>2, <1>6 DEF Answered
<1> QED BY <1>0, <1>2, <1>3, <1>4, <1>5, <1>7, <1>8

LEMMA AppendStep ==
    ASSUME IInv, NEW r \in Run, run[r].pc \in Working,
           NEW row \in Message, row.run = r, messages' = Appended(row),
           NEW x \in Local, Moved(r, x), UNCHANGED <<obs, gone>>,
           session' \in {"absent", "live", "deleted"}, Fits(r, x)'
    PROVE  IInv'
<1>1. Touched(r)
  BY Appending
<1>2. obs' \in [Run -> RunRow] /\ obs[r] \in RunRow /\ gone' \subseteq Run
  BY DEF IInv, TypeOK
<1>3. Behind(r, obs[r])'
  BY <1>1, <1>2, BehindGrows DEF IInv, RunOK
<1>4. Ending(x, obs[r])
  BY NotEnded
<1> QED BY <1>1, <1>2, <1>3, <1>4, StepOfOne

\* A run that unwinds after its row has been committed.
LEMMA AppendUnwinds ==
    ASSUME IInv, NEW r \in Run, run[r].pc \in Working,
           NEW row \in Message, row.run = r, row.kind = "assistant" => row.payload = "kept",
           messages' = Appended(row),
           NEW place \in Unwinding, Moved(r, Unwind(run[r], place)),
           UNCHANGED <<session, obs, gone>>
    PROVE  IInv'
<1>1. run[r] \in Local /\ run[r].pc # "closed"
  BY NotEnded
<1>0. PICK x \in Local : x = Unwind(run[r], place)
  BY <1>1, LocalTypes
<1>2. x.pc = place /\ x.registered = run[r].registered
  BY <1>0, <1>1 DEF Unwind, Local
<1>3. /\ run[r].registered \subseteq Log!Of(r)
      /\ \A p \in Log!Of(r) : messages[p].kind = "assistant" => messages[p].payload # "none"
  BY <1>1 DEF IInv, RunOK, Fits
<1>4. /\ x.registered \subseteq Log!Of(r)'
      /\ \A p \in Log!Of(r)' : messages'[p].kind = "assistant" => messages'[p].payload # "none"
  BY <1>2, <1>3, Appending
<1>5. Moved(r, x) /\ session' \in {"absent", "live", "deleted"}
  BY <1>0 DEF IInv, TypeOK
<1>6. Fits(r, x)'
  BY <1>2, <1>4 DEF Fits, Unwinding
<1> QED BY <1>2, <1>5, <1>6, AppendStep

LEMMA SubmitStep == ASSUME IInv, NEW r \in Run, Submit(r) PROVE IInv'
<1> DEFINE row == Row(r, "user", 0, {})
<1>0. run[r].pc \in Working
  BY DEF Submit, Working, Place, Ended
<1>1. Log!Of(r) = {} /\ run[r] = Idle
  BY DEF Submit, IInv, RunOK, Fits
<1>2. row \in Message /\ row.run = r /\ row.kind = "user" /\ row.iteration = 0
  BY RowTypes, HardCapPositive DEF Row
<1>3. messages' = Appended(row) /\ session' \in {"absent", "live", "deleted"}
  BY DEF Submit
<1> HIDE DEF row
<1>4. Asked(r, 0)' /\ Log!Of(r)' = {Len(messages')} /\ messages'[Len(messages')] = row
  BY <1>1, <1>2, <1>3, Appending
<1>5. CASE run' = [run EXCEPT ![r].pc = "rebuild"]
  <2>1. PICK x \in Local : x = At(r, "rebuild")
    BY AtTypes DEF Place
  <2>2. x.pc = "rebuild" /\ x.registered = {} /\ x.iteration = 0
    BY <1>1, <2>1, AtTypes DEF Place, Idle
  <2>3. Moved(r, x)
    BY <1>5, <2>1 DEF Moved, At
  <2>4. Fits(r, x)'
    BY <1>2, <1>4, <2>2 DEF Fits
  <2> QED BY <1>0, <1>2, <1>3, <2>3, <2>4, AppendStep DEF Submit
<1>6. CASE End(r, "rejected")
  <2> DEFINE x == [Idle EXCEPT !.pc = "rejected"]
  <2>1. x \in Local /\ x.pc = "rejected" /\ x.registered = {} /\ Moved(r, x)
    BY <1>6, LocalTypes DEF End, Moved, Place, Ended, Idle
  <2> HIDE DEF x
  <2>2. Fits(r, x)'
    BY <1>2, <1>4, <2>1 DEF Fits
  <2> QED BY <1>0, <1>2, <1>3, <2>1, <2>2, AppendStep DEF Submit
<1> QED BY <1>5, <1>6 DEF Submit

LEMMA StoreAnswerStep == ASSUME IInv, NEW r \in Run, StoreAnswer(r) PROVE IInv'
<1>0. run[r].pc \in Working
  BY DEF StoreAnswer, Working, Place, Streaming, Ended
<1>1. run[r] \in Local /\ run[r].pc # "closed"
  BY <1>0, NotEnded
<1>2. PICK row \in Message : row = Row(r, "assistant", run[r].iteration, run[r].calls)
  <2>1. run[r].iteration \in 0 .. HardCap /\ run[r].calls \in SUBSET Call
    BY <1>1 DEF Local
  <2> QED BY <2>1, RowTypes
<1>3. /\ row.run = r /\ row.kind = "assistant" /\ row.iteration = run[r].iteration
      /\ row.payload = "kept" /\ row.calls = run[r].calls
  BY <1>2 DEF Row
<1>4. /\ messages' = Appended(row)
      /\ Resume(r, run[r], [run[r] EXCEPT !.pc = "close",
                                          !.registered = @ \cup {Len(messages')}])
  BY <1>2 DEF StoreAnswer
<1>5. CASE Moved(r, Unwind(run[r], "abort"))
  BY <1>0, <1>3, <1>4, <1>5, AppendUnwinds DEF StoreAnswer, Unwinding
<1>6. CASE Moved(r, [run[r] EXCEPT !.pc = "close", !.registered = @ \cup {Len(messages')}])
  <2>1. /\ run[r].registered \subseteq Log!Of(r) /\ run[r].iteration # 0
        /\ \A p \in Log!Of(r) : messages[p].kind = "assistant" => messages[p].payload # "none"
    BY DEF StoreAnswer, IInv, RunOK, Fits
  <2>2. /\ run[r].registered \cup {Len(messages')} \subseteq Log!Of(r)'
        /\ \A p \in Log!Of(r)' : messages'[p].kind = "assistant" => messages'[p].payload # "none"
        /\ Len(messages') \in Nat \ {0}
    BY <2>1, <1>3, <1>4, Appending
  <2>3. PICK x \in Local : x = [run[r] EXCEPT !.pc = "close",
                                             !.registered = @ \cup {Len(messages')}]
    BY <1>1, <2>2 DEF Local, Place, Streaming
  <2>4. /\ x.pc = "close" /\ x.registered = run[r].registered \cup {Len(messages')}
        /\ x.iteration = run[r].iteration /\ x.calls = run[r].calls
    BY <1>1, <2>3 DEF Local
  <2>5. Answered(r, x)'
    BY <1>3, <1>4, <2>4, Appending
  <2>6. x.registered \subseteq Log!Of(r)' /\ x.iteration # 0
    BY <2>1, <2>2, <2>4
  <2>7. Fits(r, x)'
    BY <2>2, <2>4, <2>5, <2>6 DEF Fits
  <2>8. session' \in {"absent", "live", "deleted"} /\ Moved(r, x)
    BY <1>6, <2>3 DEF StoreAnswer, IInv, TypeOK
  <2> QED BY <1>0, <1>3, <1>4, <2>7, <2>8, AppendStep DEF StoreAnswer
<1> QED BY <1>4, <1>5, <1>6, ResumeMoves

LEMMA StoreResultsStep == ASSUME IInv, NEW r \in Run, StoreResults(r) PROVE IInv'
<1>0. run[r].pc \in Working
  BY DEF StoreResults, Working, Place, Streaming, Ended
<1>1. run[r] \in Local /\ run[r].pc # "closed"
  BY <1>0, NotEnded
<1>2. PICK row \in Message : row = Row(r, "tool", run[r].iteration, run[r].calls)
  <2>1. run[r].iteration \in 0 .. HardCap /\ run[r].calls \in SUBSET Call
    BY <1>1 DEF Local
  <2> QED BY <2>1, RowTypes
<1>3. /\ row.run = r /\ row.kind = "tool" /\ row.iteration = run[r].iteration
      /\ row.calls = run[r].calls
  BY <1>2 DEF Row
<1>4. /\ messages' = Appended(row)
      /\ Resume(r, run[r], [run[r] EXCEPT !.pc = "tool_close",
                                          !.registered = @ \cup {Len(messages')}])
  BY <1>2 DEF StoreResults
<1>5. CASE Moved(r, Unwind(run[r], "abort"))
  BY <1>0, <1>3, <1>4, <1>5, AppendUnwinds DEF StoreResults, Unwinding
<1>6. CASE Moved(r, [run[r] EXCEPT !.pc = "tool_close", !.registered = @ \cup {Len(messages')}])
  <2>1. /\ run[r].registered \subseteq Log!Of(r) /\ run[r].iteration < HardCap
        /\ \A p \in Log!Of(r) : messages[p].kind = "assistant" => messages[p].payload # "none"
    BY DEF StoreResults, IInv, RunOK, Fits
  <2>2. /\ run[r].registered \cup {Len(messages')} \subseteq Log!Of(r)'
        /\ \A p \in Log!Of(r)' : messages'[p].kind = "assistant" => messages'[p].payload # "none"
        /\ Len(messages') \in Nat \ {0}
    BY <2>1, <1>3, <1>4, Appending
  <2>3. PICK x \in Local : x = [run[r] EXCEPT !.pc = "tool_close",
                                             !.registered = @ \cup {Len(messages')}]
    BY <1>1, <2>2 DEF Local, Place, Streaming
  <2>4. /\ x.pc = "tool_close" /\ x.registered = run[r].registered \cup {Len(messages')}
        /\ x.iteration = run[r].iteration /\ x.calls = run[r].calls
    BY <1>1, <2>3 DEF Local
  <2>5. Asked(r, x.iteration)'
    BY <1>3, <1>4, <2>4, Appending
  <2>6. x.registered \subseteq Log!Of(r)' /\ x.iteration < HardCap
    BY <2>1, <2>2, <2>4
  <2>7. Fits(r, x)'
    BY <2>2, <2>4, <2>5, <2>6 DEF Fits
  <2>8. session' \in {"absent", "live", "deleted"} /\ Moved(r, x)
    BY <1>6, <2>3 DEF StoreResults, IInv, TypeOK
  <2> QED BY <1>0, <1>3, <1>4, <2>7, <2>8, AppendStep DEF StoreResults
<1> QED BY <1>4, <1>5, <1>6, ResumeMoves

LEMMA StoreUnacknowledgedStep == ASSUME IInv, NEW r \in Run, StoreUnacknowledged(r) PROVE IInv'
<1> DEFINE kind == IF run[r].pc = "answer" THEN "assistant" ELSE "tool"
<1>0. run[r].pc \in Working
  BY DEF StoreUnacknowledged, Storing, Working, Place, Streaming, Ended
<1>1. run[r] \in Local
  BY <1>0, NotEnded
<1>2. PICK row \in Message : row = Row(r, kind, run[r].iteration, run[r].calls)
  <2>1. /\ run[r].iteration \in 0 .. HardCap /\ run[r].calls \in SUBSET Call
        /\ kind \in {"user", "assistant", "tool"}
    BY <1>1 DEF Local
  <2> QED BY <2>1, RowTypes
<1>3. row.run = r /\ (row.kind = "assistant" => row.payload = "kept")
  BY <1>2 DEF Row
<1>4. messages' = Appended(row) /\ Raise(r) /\ UNCHANGED <<session, obs, gone>>
  BY <1>2 DEF StoreUnacknowledged
<1>5. \/ Moved(r, Unwind(run[r], "abort"))
      \/ Moved(r, Unwind(run[r], "except"))
  BY <1>4 DEF Raise, Resume, Moved
<1> QED BY <1>0, <1>3, <1>4, <1>5, AppendUnwinds DEF Unwinding


LEMMA ClearedIsTouched ==
    ASSUME IInv, NEW r \in Run, messages' = Cleared(r)
    PROVE  Touched(r)
<1>1. messages \in Seq(Message) /\ Len(messages) \in Nat /\ DOMAIN messages = 1 .. Len(messages)
  BY DEF IInv, TypeOK
<1>2. \A p \in DOMAIN messages : messages'[p] \in Message
  BY <1>1, RowTypes DEF Cleared
<1>3. DOMAIN messages' = DOMAIN messages
  BY DEF Cleared
<1>4. messages' = [p \in 1 .. Len(messages) |-> messages'[p]]
  BY <1>1 DEF Cleared
<1>5. messages' \in Seq(Message)
  BY <1>1, <1>2, <1>3, <1>4
<1>6. \A p \in run[r].registered : p \in DOMAIN messages => messages[p].run = r
  BY DEF IInv, RunOK, Fits, Log!Of
<1> QED BY <1>3, <1>5, <1>6 DEF Touched, Cleared

LEMMA ClearStep == ASSUME IInv, NEW r \in Run, Clear(r) PROVE IInv'
<1> DEFINE x == [Idle EXCEPT !.pc = "closed"]
<1>1. CASE session # "live"
  BY <1>1, EndStep DEF Clear, Ended
<1>2. CASE session = "live"
  <2>1. Touched(r)
    BY <1>2, ClearedIsTouched DEF Clear
  <2>2. x \in Local /\ x.pc = "closed" /\ x.registered = {} /\ Moved(r, x)
    BY LocalTypes DEF Clear, End, Moved, Place, Ended, Idle
  <2> HIDE DEF x
  <2>3. Fits(r, x)'
    BY <2>2 DEF Fits
  <2>4. obs[r] \in RunRow /\ Behind(r, obs[r]) /\ Ending(x, obs[r]) /\ obs \in [Run -> RunRow]
    BY <2>2 DEF IInv, TypeOK, RunOK, Ending, Ended
  <2>5. PICK o \in RunRow : o = obs[r]
    BY <2>4
  <2>6. Behind(r, o)'
    BY <2>1, <2>4, <2>5, BehindGrows DEF IInv
  <2>7. session' \in {"absent", "live", "deleted"} /\ gone' \subseteq Run /\ obs' = obs
    BY DEF Clear, IInv, TypeOK
  <2> QED BY <2>1, <2>2, <2>3, <2>4, <2>5, <2>6, <2>7, StepOfOne
<1> QED BY <1>1, <1>2

-----------------------------------------------------------------------------
(* The visitor and the process *)

\* A run that stays as it is while the table and its observation do.
LEMMA Unmoved ==
    ASSUME IInv, NEW r \in Run, UNCHANGED messages, run'[r] = run[r], obs'[r] = obs[r]
    PROVE  RunOK(r)'
<1>1. PICK x \in Local : x = run[r]
  BY DEF IInv, TypeOK
<1>2. PICK o \in RunRow : o = obs[r]
  BY DEF IInv, TypeOK
<1>3. Fits(r, x) /\ Behind(r, o) /\ Ending(x, o)
  BY <1>1, <1>2 DEF IInv, RunOK
<1>4. Fits(r, x)'
  BY <1>3 DEF Fits, Asked, Answered, Log!Of, Log!Latest
<1>5. Behind(r, o)'
  BY <1>3 DEF Behind, Stored
<1>6. run'[r] = x /\ obs'[r] = o
  BY <1>1, <1>2
<1> QED BY <1>3, <1>4, <1>5, <1>6 DEF RunOK

\* Nothing a run relies on is in session or in gone.
LEMMA OutsideStep ==
    ASSUME IInv, UNCHANGED <<messages, run, obs>>,
           session' \in {"absent", "live", "deleted"}, gone' \subseteq Run
    PROVE  IInv'
<1>1. TypeOK'
  BY DEF IInv, TypeOK
<1>2. \A r \in Run : RunOK(r)'
  BY Unmoved
<1> QED BY <1>1, <1>2 DEF IInv

LEMMA CrashStep == ASSUME IInv, Crash PROVE IInv'
<1> DEFINE x == [Idle EXCEPT !.pc = "dead"]
<1>1. x \in Local /\ x.pc = "dead"
  BY LocalTypes DEF Place, Ended, Idle
<1> HIDE DEF x
<1>2. TypeOK'
  BY <1>1 DEF Crash, IInv, TypeOK, x
<1>3. ASSUME NEW r \in Run PROVE RunOK(r)'
  <2>1. Behind(r, obs[r])'
    BY DEF Crash, IInv, RunOK, Behind, Stored
  <2>2. CASE run'[r] = run[r]
    BY <2>2, Unmoved DEF Crash
  <2>3. CASE run'[r] = x /\ run[r].pc \notin {"idle"} \cup Ended
    <3>1. Fits(r, x) /\ Ending(x, obs[r])
      BY <2>3, EndFits DEF Ended, x
    <3>2. Fits(r, x)'
      BY <3>1, <1>1 DEF Crash, Fits, Log!Of
    <3>3. Ending(x, obs[r])'
      BY <3>1, <1>1 DEF Crash, Ending, Ended
    <3> QED BY <2>1, <2>3, <3>2, <3>3 DEF RunOK
  <2> QED BY <2>2, <2>3 DEF Crash, IInv, TypeOK, x
<1> QED BY <1>2, <1>3 DEF IInv

LEMMA InitInv == Init => IInv
<1> SUFFICES ASSUME Init PROVE IInv
  OBVIOUS
<1>1. TypeOK
  BY LocalTypes DEF Init, TypeOK, RunRow
<1>2. ASSUME NEW r \in Run PROVE RunOK(r)
  <2>1. Log!Of(r) = {}
    BY DEF Init, Log!Of
  <2>2. run[r] = Idle /\ Idle.pc = "idle" /\ Idle.registered = {}
    BY DEF Init, Idle
  <2>3. Fits(r, run[r])
    BY <2>1, <2>2 DEF Fits
  <2>4. Behind(r, obs[r]) /\ Ending(run[r], obs[r])
    BY DEF Init, Behind, Ending, SpanId
  <2> QED BY <2>3, <2>4 DEF RunOK
<1> QED BY <1>1, <1>2 DEF IInv

LEMMA StepInv == IInv /\ [Next]_vars => IInv'
<1> SUFFICES ASSUME IInv, [Next]_vars PROVE IInv'
  OBVIOUS
<1>1. ASSUME NEW r \in Run, Submit(r) \/ Refuse(r) \/ Rebuild(r) PROVE IInv'
  BY <1>1, SubmitStep, RefuseStep, RebuildStep
<1>2. ASSUME NEW r \in Run, Pipeline(r) PROVE IInv'
  BY <1>2, EnterPortStep, StartRunStep, OpenMainStep, ModelAnswersStep, FailuresStep,
     CloseMainStep, OpenToolStep, ToolsReturnStep, CloseToolStep, CloseLastToolStep DEF Pipeline
<1>3. ASSUME NEW r \in Run, Store(r) PROVE IInv'
  BY <1>3, StoreAnswerStep, StoreResultsStep, FailuresStep, StoreUnacknowledgedStep DEF Store
<1>4. ASSUME NEW r \in Run, Finish(r) PROVE IInv'
  BY <1>4, CompleteStep, CloseLeftStep, FinishUnwindingStep, ClearStep, ClearFailsStep,
     CutCleanupStep DEF Finish
<1>5. ASSUME NEW r \in Run, Disconnect(r) PROVE IInv'
  <2>1. session' \in {"absent", "live", "deleted"} /\ gone' \subseteq Run
    BY <1>5 DEF Disconnect, IInv, TypeOK
  <2> QED BY <1>5, <2>1, OutsideStep DEF Disconnect
<1>6. CASE Delete
  <2>1. session' \in {"absent", "live", "deleted"} /\ gone' \subseteq Run
    BY <1>6 DEF Delete, IInv, TypeOK
  <2> QED BY <1>6, <2>1, OutsideStep DEF Delete
<1>7. CASE UNCHANGED vars
  <2>1. session' \in {"absent", "live", "deleted"} /\ gone' \subseteq Run
    BY <1>7 DEF vars, IInv, TypeOK
  <2> QED BY <1>7, <2>1, OutsideStep DEF vars
<1> QED BY <1>1, <1>2, <1>3, <1>4, <1>5, <1>6, <1>7, CrashStep DEF Next, RunStep

LEMMA Invariant == Spec => []IInv
<1> QED BY InitInv, StepInv, PTL DEF Spec

-----------------------------------------------------------------------------
(* Theorems *)

\* The session, the table, every run and every observation have their types
\* (the tables app.message, obs.run and obs.span and the generators' variables).
THEOREM TypeCorrect == Spec => []TypeOK
<1>1. IInv => TypeOK
  BY DEF IInv
<1> QED BY <1>1, Invariant, PTL

\* Whatever fails, is cancelled or crashes, a model span closed normally has its
\* answer in the table and a completed run its last one (observe after persist).
THEOREM ObservationBehindLog == Spec => []ObsBehindLog
<1>1. IInv => ObsBehindLog
  BY DEF IInv, RunOK, Behind, ObsBehindLog
<1> QED BY <1>1, Invariant, PTL

-----------------------------------------------------------------------------
(* ConversationRuns implements RunLog *)

\* A place of a run with the answer's or the results' commit ahead of it.
LEMMA Kept ==
    ASSUME IInv, NEW r \in Run, run[r].pc # "closed"
    PROVE  Log!Answering(r)
<1>1. \A p \in DOMAIN messages : messages[p].payload \in {"none", "kept"}
  BY RowsTyped DEF IInv, Message
<1> QED BY <1>1 DEF IInv, RunOK, Fits, Log!Answering, Log!Of

LEMMA SubmitAsks == ASSUME IInv, NEW r \in Run, Submit(r) PROVE Log!Ask(r)
<1>1. Log!Of(r) = {}
  BY DEF Submit, IInv, RunOK, Fits
<1>2. session # "deleted" /\ session' # "deleted"
  BY DEF Submit
<1> QED BY <1>1, <1>2 DEF Submit, Log!Ask, Log!Entry, Row, Appended

LEMMA AnswerRefines ==
    ASSUME IInv, NEW r \in Run, run[r].pc = "answer", session = "live", UNCHANGED session,
           messages' = Appended(Row(r, "assistant", run[r].iteration, run[r].calls))
    PROVE  Log!Answer(r)
<1>1. PICK p \in DOMAIN messages : /\ Log!Latest(r, p)
                                   /\ messages[p].kind \in {"user", "tool"}
                                   /\ messages[p].iteration = run[r].iteration - 1
  BY DEF IInv, RunOK, Fits, Asked
<1>2. run[r].iteration \in 1 .. HardCap /\ run[r].calls \in SUBSET Call
  <2>1. run[r] \in Local /\ run[r].iteration # 0
    BY DEF IInv, TypeOK, RunOK, Fits
  <2> QED BY <2>1, HardCapPositive DEF Local
<1>3. messages[p].iteration < HardCap /\ messages[p].iteration + 1 = run[r].iteration
  BY <1>1, <1>2, HardCapPositive
<1>4. messages' = Append(messages, Log!Entry(r, "assistant", messages[p].iteration + 1, run[r].calls))
  BY <1>3 DEF Appended, Row, Log!Entry
<1>5. Log!Answering(r) /\ session # "deleted" /\ session' # "deleted"
  BY Kept
<1> QED BY <1>1, <1>2, <1>3, <1>4, <1>5 DEF Log!Answer

LEMMA ResultsRefine ==
    ASSUME IInv, NEW r \in Run, run[r].pc = "tool_end", session = "live", UNCHANGED session,
           NEW c \in run[r].pending,
           messages' = Appended(Row(r, "tool", run[r].iteration, run[r].calls))
    PROVE  Log!Return(r)
<1>1. PICK p \in DOMAIN messages : /\ Log!Latest(r, p)
                                   /\ messages[p].kind = "assistant"
                                   /\ messages[p].iteration = run[r].iteration
                                   /\ messages[p].calls = run[r].calls
  BY DEF IInv, RunOK, Fits, Answered
<1>2. run[r].calls # {} /\ run[r].iteration < HardCap
  BY DEF IInv, RunOK, Fits
<1>3. messages' = Append(messages, Log!Entry(r, "tool", messages[p].iteration, messages[p].calls))
  BY <1>1 DEF Appended, Row, Log!Entry
<1>4. Log!Answering(r) /\ session # "deleted" /\ session' # "deleted"
  BY Kept
<1> QED BY <1>1, <1>2, <1>3, <1>4 DEF Log!Return

LEMMA StoreRefines == ASSUME IInv, NEW r \in Run, Store(r) PROVE [Log!Next]_(Log!vars)
<1>1. CASE StoreAnswer(r)
  BY <1>1, AnswerRefines DEF StoreAnswer, Log!Next
<1>2. CASE StoreResults(r)
  BY <1>2, ResultsRefine DEF StoreResults, Log!Next
<1>3. CASE StoreFails(r)
  BY <1>3 DEF StoreFails, Log!vars
<1>4. CASE StoreUnacknowledged(r)
  BY <1>4, AnswerRefines, ResultsRefine DEF StoreUnacknowledged, Storing, Log!Next
<1> QED BY <1>1, <1>2, <1>3, <1>4 DEF Store

LEMMA ClearRefines == ASSUME IInv, NEW r \in Run, Clear(r) PROVE [Log!Next]_(Log!vars)
<1>1. CASE session = "live"
  <2>1. run[r].registered \in SUBSET Log!Of(r)
    BY DEF IInv, RunOK, Fits
  <2>2. messages' = Log!Forgotten(run[r].registered)
    BY <1>1 DEF Clear, Cleared, Log!Forgotten
  <2>3. session # "deleted" /\ session' # "deleted"
    BY <1>1 DEF Clear
  <2> QED BY <2>1, <2>2, <2>3 DEF Log!Forget, Log!Next
<1>2. CASE session # "live"
  BY <1>2 DEF Clear, Log!vars
<1> QED BY <1>1, <1>2

LEMMA StepRefines == IInv /\ [Next]_vars => [Log!Next]_(Log!vars)
<1> SUFFICES ASSUME IInv, [Next]_vars PROVE [Log!Next]_(Log!vars)
  OBVIOUS
<1>1. ASSUME NEW r \in Run, Submit(r) PROVE [Log!Next]_(Log!vars)
  BY <1>1, SubmitAsks DEF Log!Next
<1>2. ASSUME NEW r \in Run, Pipeline(r) PROVE [Log!Next]_(Log!vars)
  BY <1>2 DEF Pipeline, EnterPort, StartRun, OpenMain, ModelAnswers, ModelFails, CloseMain, OpenTool,
              ToolsReturn, ToolsFail, CloseTool, CloseLastTool, Log!vars
<1>3. ASSUME NEW r \in Run, Finish(r) PROVE [Log!Next]_(Log!vars)
  BY <1>3, ClearRefines DEF Finish, Complete, CloseLeft, FinishUnwinding, ClearFails, CutCleanup,
                            Log!vars
<1>4. ASSUME NEW r \in Run, Refuse(r) \/ Rebuild(r) \/ Disconnect(r)
      PROVE  [Log!Next]_(Log!vars)
  BY <1>4 DEF Refuse, Rebuild, Disconnect, Log!vars
<1>5. CASE Delete
  BY <1>5 DEF Delete, Log!Delete, Log!Next
<1>6. CASE Crash
  BY <1>6 DEF Crash, Log!vars
<1>7. CASE UNCHANGED vars
  BY <1>7 DEF vars, Log!vars
<1> QED BY <1>1, <1>2, <1>3, <1>4, <1>5, <1>6, <1>7, StoreRefines DEF Next, RunStep

\* The message table implements RunLog: whatever interleaves, fails or crashes,
\* persist and the payload scope only extend the log in each run's own order.
THEOREM Refinement == Spec => RunLogSpec
<1>1. Init => Log!Init
  BY DEF Init, Log!Init
<1> QED BY <1>1, Invariant, StepRefines, PTL DEF Spec, RunLogSpec, Log!Spec

-----------------------------------------------------------------------------
(* Nothing follows the end *)

\* A row is written at three places only.
LEMMA RowsWritten ==
    ASSUME IInv, [Next]_vars, NEW p \in DOMAIN messages' \ DOMAIN messages
    PROVE  messages'[p].run \in Run /\ run[messages'[p].run].pc \in {"idle", "answer", "tool_end"}
<1>1. ASSUME NEW r \in Run, NEW kind, NEW i, NEW cs, messages' = Appended(Row(r, kind, i, cs)),
             run[r].pc \in {"idle", "answer", "tool_end"}
      PROVE  messages'[p].run \in Run /\ run[messages'[p].run].pc \in {"idle", "answer", "tool_end"}
  <2>1. messages \in Seq(Message)
    BY DEF IInv, TypeOK
  <2>2. p = Len(messages) + 1 /\ messages'[p] = Row(r, kind, i, cs)
    BY <1>1, <2>1 DEF Appended
  <2> QED BY <1>1, <2>2 DEF Row
<1>2. ASSUME NEW r \in Run, Submit(r) \/ Store(r)
      PROVE  messages'[p].run \in Run /\ run[messages'[p].run].pc \in {"idle", "answer", "tool_end"}
  BY <1>1, <1>2 DEF Submit, Store, StoreAnswer, StoreResults, StoreFails, StoreUnacknowledged, Storing
<1>3. ASSUME NEW r \in Run, Pipeline(r) PROVE FALSE
  BY <1>3 DEF Pipeline, EnterPort, StartRun, OpenMain, ModelAnswers, ModelFails, CloseMain, OpenTool,
              ToolsReturn, ToolsFail, CloseTool, CloseLastTool
<1>4. ASSUME NEW r \in Run, Finish(r) PROVE FALSE
  BY <1>4 DEF Finish, Complete, CloseLeft, FinishUnwinding, Clear, Cleared, ClearFails, CutCleanup
<1>5. ASSUME NEW r \in Run, Refuse(r) \/ Rebuild(r) \/ Disconnect(r) PROVE FALSE
  BY <1>5 DEF Refuse, Rebuild, Disconnect
<1>6. CASE Delete \/ Crash \/ UNCHANGED vars
  BY <1>6 DEF Delete, Crash, vars
<1> QED BY <1>2, <1>3, <1>4, <1>5, <1>6 DEF Next, RunStep

\* A span is opened at two places only.
LEMMA SpansOpened ==
    ASSUME IInv, [Next]_vars, NEW r \in Run, NEW s \in SpanId, obs[r].span[s] = "none",
           run[r].pc \notin {"open", "tool_open"}
    PROVE  obs'[r].span[s] = "none"
<1>1. obs \in [Run -> RunRow] /\ obs[r] \in RunRow
  BY DEF IInv, TypeOK
<1>2. ASSUME NEW q \in Run, NEW o, Write(q, o), q = r => o.span[s] = "none"
      PROVE  obs'[r].span[s] = "none"
  BY <1>1, <1>2 DEF Write
<1>3. /\ StartedRun(obs[r]).span[s] = "none"
      /\ \A t, result : ClosedSpan(obs[r], t, result).span[s] = "none"
      /\ \A status : FinishedRun(obs[r], status).span[s] = "none"
  BY <1>1 DEF StartedRun, ClosedSpan, FinishedRun, RunRow
<1>4. ASSUME NEW q \in Run, Pipeline(q) PROVE obs'[r].span[s] = "none"
  <2>1. CASE StartRun(q)
    BY <1>2, <1>3, <2>1 DEF StartRun
  <2>2. CASE OpenMain(q)
    BY <1>2, <2>2 DEF OpenMain
  <2>3. CASE OpenTool(q)
    BY <1>2, <2>3 DEF OpenTool
  <2>4. CASE CloseMain(q)
    BY <1>2, <1>3, <2>4 DEF CloseMain
  <2>5. CASE CloseTool(q) \/ CloseLastTool(q)
    BY <1>2, <1>3, <2>5 DEF CloseTool, CloseLastTool
  <2>6. CASE UNCHANGED obs
    BY <2>6
  <2> QED BY <1>4, <2>1, <2>2, <2>3, <2>4, <2>5, <2>6
          DEF Pipeline, EnterPort, ModelAnswers, ModelFails, ToolsReturn, ToolsFail
<1>5. ASSUME NEW q \in Run, Finish(q) PROVE obs'[r].span[s] = "none"
  <2>1. CASE Complete(q)
    BY <1>2, <1>3, <2>1 DEF Complete
  <2>2. CASE CloseLeft(q)
    BY <1>2, <1>3, <2>2 DEF CloseLeft
  <2>3. CASE FinishUnwinding(q)
    BY <1>2, <1>3, <2>3 DEF FinishUnwinding
  <2> QED BY <1>5, <2>1, <2>2, <2>3 DEF Finish, Clear, ClearFails, CutCleanup
<1>6. ASSUME NEW q \in Run, Submit(q) \/ Refuse(q) \/ Rebuild(q) \/ Store(q) \/ Disconnect(q)
      PROVE  obs'[r].span[s] = "none"
  BY <1>6 DEF Submit, Refuse, Rebuild, Store, StoreAnswer, StoreResults, StoreFails,
              StoreUnacknowledged, Disconnect
<1>7. CASE Delete \/ Crash \/ UNCHANGED vars
  BY <1>7 DEF Delete, Crash, vars
<1> QED BY <1>4, <1>5, <1>6, <1>7 DEF Next, RunStep

\* When observe has recorded how a run ended, the run stores nothing more and
\* opens no span, in whichever order clean-ups and cancellations come.
THEOREM NothingAfterTheEnd == Spec => TerminalIsLast
<1> DEFINE Quietly == \A r \in Run : obs[r].status \in {"completed", "failed", "aborted"} =>
              /\ \A p \in DOMAIN messages' \ DOMAIN messages : messages'[p].run # r
              /\ \A s \in SpanId : obs[r].span[s] = "none" => obs'[r].span[s] = "none"
<1>1. ASSUME IInv, [Next]_vars PROVE Quietly
  <2> SUFFICES ASSUME NEW r \in Run, obs[r].status \in {"completed", "failed", "aborted"}
               PROVE  /\ \A p \in DOMAIN messages' \ DOMAIN messages : messages'[p].run # r
                      /\ \A s \in SpanId : obs[r].span[s] = "none" => obs'[r].span[s] = "none"
    OBVIOUS
  <2>1. run[r].pc \in {"abort", "clear"} \cup Ended
    BY <1>1 DEF IInv, RunOK, Ending
  <2>2. \A p \in DOMAIN messages' \ DOMAIN messages : messages'[p].run # r
    BY <1>1, <2>1, RowsWritten DEF Ended
  <2>3. \A s \in SpanId : obs[r].span[s] = "none" => obs'[r].span[s] = "none"
    BY <1>1, <2>1, SpansOpened DEF Ended
  <2> QED BY <2>2, <2>3
<1>2. IInv /\ [Next]_vars => [Quietly]_vars
  BY <1>1
<1> QED BY <1>2, Invariant, PTL DEF Spec, TerminalIsLast

-----------------------------------------------------------------------------
(***************************************************************************)
(* What a run leaves behind when nothing fails and its client stays: no    *)
(* open span, no running row, no payload, for every set of runs and call   *)
(* ids, every hard cap and overlapping runs; with faults a write of the    *)
(* observation or the clearing may be lost.                                *)
(***************************************************************************)

-----------------------------------------------------------------------------
(* The inductive invariant of the ends *)

\* The spans observe will still write to, from the state s of its run.
Owed(s) == IF s.pc \in Unwinding THEN s.left
           ELSE IF s.pc = "clear" THEN {} ELSE Spans(s)

OpenOf(o) == {x \in SpanId : o.span[x] = "open"}

\* The row is written with the first event and again before the scope is left.
StatusIn(s, o) ==
    /\ o.status = "running" => s.pc \notin {"clear"} \cup Ended
    /\ s.pc \in {"idle", "rebuild", "port", "start"} => o.status = "none"

AskingModel == {"model", "answer", "close"}
CallingTools == {"tool_open", "tools", "tool_end", "tool_close"}
Leaving == {"clear"} \cup Unwinding

\* observe holds the span of the iteration while the model is asked, and of tool
\* spans those of the latest answer that have not come back.
Holds(s) ==
    /\ s.pc \in AskingModel => s.main = s.iteration
    /\ s.pc \notin AskingModel \cup Leaving => s.main = 0
    /\ s.pc \notin CallingTools \cup Leaving => s.tools = {}
    /\ s.pc \in {"tool_open", "tools"} => s.tools \subseteq s.calls
    /\ s.pc = "tool_open" => s.pending \subseteq s.calls
    /\ s.pc \in {"tool_end", "tool_close"} => s.tools \subseteq s.pending
    /\ s.pc = "tool_close" => \A c, d \in s.pending : c = d
    /\ s.pc = "closed" => s.registered = {}

Settles(s, o) == OpenOf(o) \subseteq Owed(s) /\ StatusIn(s, o) /\ Holds(s)

Settled(r) == Settles(run[r], obs[r])

\* The payloads of r's answers are registered for clearing, until they are out of
\* reach with the session.
Registered(r, s, state) ==
    \A p \in Log!Of(r) : messages[p].kind = "assistant" /\ messages[p].payload = "kept" =>
        p \in s.registered \/ (s.pc = "closed" /\ state = "deleted")

\* A cancelled run is exempt from both.
EndOK(r) == r \notin gone => /\ Settled(r)
                             /\ Registered(r, run[r], session)

EInv == /\ session = "absent" => messages = <<>>
        /\ \A r \in Run : EndOK(r)

-----------------------------------------------------------------------------
(* The observation *)

LEMMA OpenSpans ==
    ASSUME NEW o \in RunRow
    PROVE  /\ OpenOf(StartedRun(o)) = OpenOf(o)
           /\ \A status : OpenOf(FinishedRun(o, status)) = OpenOf(o)
           /\ \A x, parent : OpenOf(OpenedSpan(o, x, parent)) \subseteq OpenOf(o) \cup {x}
           /\ \A x, result : result # "open" =>
                 OpenOf(ClosedSpan(o, x, result)) \subseteq OpenOf(o) \ {x}
<1>1. OpenOf(StartedRun(o)) = OpenOf(o) /\ \A status : OpenOf(FinishedRun(o, status)) = OpenOf(o)
  BY StatusOfWrites DEF OpenOf
<1>2. \A x, parent : OpenOf(OpenedSpan(o, x, parent)) \subseteq OpenOf(o) \cup {x}
  BY DEF OpenOf, OpenedSpan, RunRow
<1>3. ASSUME NEW x, NEW result, result # "open"
      PROVE  OpenOf(ClosedSpan(o, x, result)) \subseteq OpenOf(o) \ {x}
  BY <1>3 DEF OpenOf, ClosedSpan, RunRow
<1> QED BY <1>1, <1>2, <1>3

\* Where the end of a run is recorded, its row is not left running.
LEMMA FinishedIsNotRunning ==
    ASSUME NEW o \in RunRow, NEW status \in {"completed", "failed", "aborted"}
    PROVE  FinishedRun(o, status).status # "running"
  BY StatusOfWrites

-----------------------------------------------------------------------------
(* A run that is not cancelled settles *)

\* Without faults and cancellation writes are committed and awaits return.
LEMMA Undisturbed ==
    ASSUME IInv, ~Faults, NEW r \in Run, r \notin gone, NEW before, NEW after \in Local,
           Resume(r, before, after) \/ Continue(r, before, after), NEW o \in RunRow,
           Write(r, o) \/ (UNCHANGED obs /\ o = obs[r]),
           Settles(after, o)
    PROVE  Settled(r)' /\ run'[r].registered = after.registered
<1>1. run'[r] = after
  BY DEF Resume, Continue, IInv, TypeOK
<1>2. obs'[r] = o
  BY DEF Write, IInv, TypeOK
<1> QED BY <1>1, <1>2 DEF Settled

\* Unwinding closes whatever is open, from wherever it starts.
LEMMA UnwindSettles ==
    ASSUME NEW s \in Local, NEW place \in Unwinding, NEW o \in RunRow,
           OpenOf(o) \subseteq Spans(s)
    PROVE  Settles(Unwind(s, place), o)
<1> DEFINE x == Unwind(s, place)
<1>1. x.pc = place /\ x.left = Spans(s)
  BY DEF Unwind, Local
<1> HIDE DEF x
<1>2. Owed(x) = Spans(s)
  BY <1>1 DEF Owed
<1>3. StatusIn(x, o) /\ Holds(x)
  BY <1>1 DEF StatusIn, Holds, Unwinding, Leaving, AskingModel, CallingTools, Ended
<1> QED BY <1>2, <1>3 DEF Settles, x

\* At the places in between the model span and the tool spans are owed.
LEMMA OwedSpans ==
    ASSUME NEW s \in Local, s.pc \notin Leaving
    PROVE  Owed(s) = Spans(s)
  BY DEF Owed, Leaving

LEMMA Known ==
    ASSUME IInv, NEW r \in Run
    PROVE  run[r] \in Local /\ obs[r] \in RunRow
  BY DEF IInv, TypeOK

LEMMA EarlySettle ==
    ASSUME IInv, ~Faults, NEW r \in Run, r \notin gone, Settled(r),
           Submit(r) \/ Refuse(r) \/ Rebuild(r) \/ EnterPort(r)
    PROVE  Settled(r)'
<1>1. run[r] \in Local /\ obs[r] \in RunRow
  BY Known
<1>2. /\ Spans(run[r]) = {} /\ Owed(run[r]) = {} /\ run[r].main = 0 /\ run[r].tools = {}
      /\ obs[r].status = "none" /\ OpenOf(obs[r]) = {}
  BY DEF Submit, Refuse, Rebuild, EnterPort, Settled, Settles, StatusIn, Holds, Leaving, Unwinding,
         AskingModel, CallingTools, Owed, Spans
<1>3. PICK place \in {"rebuild", "port", "start", "clear", "rejected"} :
         Moved(r, At(r, place)) \/ (place = "rejected" /\ Moved(r, [Idle EXCEPT !.pc = place]))
  BY DEF Submit, Refuse, Rebuild, EnterPort, Moved, Resume, At, End
<1>4. place \in Place
  BY DEF Place, Streaming, Ended
<1>5. PICK x \in Local : Moved(r, x) /\ x.pc = place /\ x.main = 0 /\ x.tools = {}
  <2>1. CASE Moved(r, At(r, place))
    <3>1. /\ At(r, place) \in Local /\ At(r, place).pc = place /\ At(r, place).main = 0
          /\ At(r, place).tools = {}
      BY <1>1, <1>2, <1>4 DEF At, Local
    <3> QED BY <2>1, <3>1
  <2>2. CASE Moved(r, [Idle EXCEPT !.pc = place])
    <3> DEFINE y == [Idle EXCEPT !.pc = place]
    <3>1. y \in Local /\ y.pc = place /\ y.main = 0 /\ y.tools = {}
      BY <1>4, LocalTypes DEF Idle
    <3> QED BY <2>2, <3>1
  <2> QED BY <1>3, <2>1, <2>2
<1>6. Settles(x, obs[r])
  BY <1>2, <1>5 DEF Settles, StatusIn, Holds, Leaving, Unwinding, AskingModel, CallingTools, Ended
<1>7. run'[r] = x /\ obs' = obs
  BY <1>5, MovedType DEF IInv, Submit, Refuse, Rebuild, EnterPort
<1> QED BY <1>6, <1>7 DEF Settled

LEMMA StartRunSettles ==
    ASSUME IInv, ~Faults, NEW r \in Run, r \notin gone, Settled(r), StartRun(r)
    PROVE  Settled(r)' /\ run'[r].registered = run[r].registered
<1> DEFINE x == At(r, "open")
           o == StartedRun(obs[r])
<1>1. run[r] \in Local /\ obs[r] \in RunRow
  BY Known
<1>2. /\ Owed(run[r]) = {} /\ run[r].main = 0 /\ run[r].tools = {} /\ OpenOf(obs[r]) = {}
  BY DEF StartRun, Settled, Settles, StatusIn, Holds, Leaving, Unwinding, AskingModel,
         CallingTools, Owed, Spans
<1>3. /\ x \in Local /\ x.pc = "open" /\ x.main = 0 /\ x.tools = {}
      /\ x.registered = run[r].registered
  BY <1>1, <1>2 DEF At, Local, Place, Streaming
<1>4. o \in RunRow /\ o.status = "running" /\ OpenOf(o) = {}
  BY <1>1, <1>2, ObsTypes, OpenSpans, StatusOfWrites
<1>5. Write(r, o) /\ Resume(r, run[r], x)
  BY DEF StartRun
<1> HIDE DEF x, o
<1>6. Settles(x, o)
  BY <1>3, <1>4 DEF Settles, StatusIn, Holds, Leaving, Unwinding, AskingModel, CallingTools, Ended
<1> QED BY <1>1, <1>3, <1>4, <1>5, <1>6, Undisturbed

LEMMA OpenMainSettles ==
    ASSUME IInv, ~Faults, NEW r \in Run, r \notin gone, Settled(r), OpenMain(r)
    PROVE  Settled(r)' /\ run'[r].registered = run[r].registered
<1> DEFINE i == run[r].iteration + 1
           before == [run[r] EXCEPT !.iteration = i, !.main = i]
           x == [before EXCEPT !.pc = "model"]
           o == OpenedSpan(obs[r], i, 0)
<1>1. run[r] \in Local /\ obs[r] \in RunRow
  BY Known
<1>2. run[r].main = 0 /\ run[r].tools = {} /\ OpenOf(obs[r]) = {}
  BY DEF OpenMain, Settled, Settles, Holds, Leaving, Unwinding, AskingModel,
         CallingTools, Owed, Spans
<1>3. i \in 1 .. HardCap /\ i \in 0 .. HardCap /\ i \in SpanId /\ i # 0
  BY <1>1, HardCapPositive DEF OpenMain, IInv, RunOK, Fits, Local, SpanId
<1> HIDE DEF i
<1>4. /\ before \in Local /\ before.main = i /\ before.iteration = i /\ before.tools = {}
      /\ before.registered = run[r].registered
  BY <1>1, <1>2, <1>3 DEF Local
<1>5. Write(r, o) /\ Resume(r, before, x)
  BY DEF OpenMain, i
<1> HIDE DEF before
<1>6. /\ x \in Local /\ x.pc = "model" /\ x.main = i /\ x.iteration = i /\ x.tools = {}
      /\ x.registered = run[r].registered
  BY <1>4 DEF Local, Place, Streaming
<1>7. o \in RunRow /\ OpenOf(o) \subseteq {i}
  BY <1>1, <1>2, <1>3, ObsTypes, OpenSpans, HardCapPositive
<1> HIDE DEF x, o
<1>8. Owed(x) = {i}
  BY <1>3, <1>6 DEF Owed, Spans, Unwinding
<1>9. Settles(x, o)
  BY <1>6, <1>7, <1>8 DEF Settles, StatusIn, Holds, Leaving, Unwinding, AskingModel, CallingTools,
                          Ended
<1> QED BY <1>1, <1>5, <1>6, <1>7, <1>9, Undisturbed

LEMMA ModelAnswersSettles ==
    ASSUME IInv, ~Faults, NEW r \in Run, r \notin gone, Settled(r), ModelAnswers(r)
    PROVE  Settled(r)' /\ run'[r].registered = run[r].registered
<1>1. run[r] \in Local /\ obs[r] \in RunRow
  BY Known
<1>2. PICK cs \in SUBSET Call : Resume(r, run[r], [run[r] EXCEPT !.pc = "answer", !.calls = cs])
  BY DEF ModelAnswers
<1> DEFINE x == [run[r] EXCEPT !.pc = "answer", !.calls = cs]
<1>3. /\ x \in Local /\ x.pc = "answer" /\ x.main = run[r].main /\ x.tools = run[r].tools
      /\ x.iteration = run[r].iteration /\ x.registered = run[r].registered
  BY <1>1 DEF Local, Place, Streaming
<1> HIDE DEF x
<1>4. Owed(x) = Owed(run[r])
  BY <1>3 DEF Owed, Spans, Unwinding, ModelAnswers
<1>5. Settles(x, obs[r])
  BY <1>3, <1>4 DEF ModelAnswers, Settled, Settles, StatusIn, Holds, Leaving, Unwinding, AskingModel,
                    CallingTools, Ended
<1> QED BY <1>1, <1>2, <1>3, <1>5, Undisturbed DEF ModelAnswers, x

\* The model or a tool fails, or the session has been deleted under an append.
LEMMA FailuresSettle ==
    ASSUME IInv, ~Faults, NEW r \in Run, r \notin gone, Settled(r),
           ModelFails(r) \/ ToolsFail(r) \/ StoreFails(r)
    PROVE  Settled(r)' /\ run'[r].registered = run[r].registered
<1>1. run[r] \in Local /\ obs[r] \in RunRow
  BY Known
<1>2. run[r].pc \notin Leaving
  BY DEF ModelFails, ToolsFail, StoreFails, Storing, Leaving, Unwinding
<1>3. OpenOf(obs[r]) \subseteq Spans(run[r])
  BY <1>1, <1>2, OwedSpans DEF Settled, Settles
<1>4. PICK place \in Unwinding : Resume(r, run[r], Unwind(run[r], place))
  BY DEF ModelFails, ToolsFail, StoreFails, Raise, Unwinding
<1>5. /\ Unwind(run[r], place) \in Local
      /\ Unwind(run[r], place).registered = run[r].registered
  BY <1>1, LocalTypes DEF Unwind, Local
<1>6. Settles(Unwind(run[r], place), obs[r])
  BY <1>1, <1>3, UnwindSettles
<1> QED BY <1>1, <1>4, <1>5, <1>6, Undisturbed DEF ModelFails, ToolsFail, StoreFails

LEMMA StoreAnswerSettles ==
    ASSUME IInv, ~Faults, NEW r \in Run, r \notin gone, Settled(r), StoreAnswer(r)
    PROVE  Settled(r)'
<1> DEFINE x == [run[r] EXCEPT !.pc = "close", !.registered = @ \cup {Len(messages')}]
<1>1. run[r] \in Local /\ obs[r] \in RunRow
  BY Known
<1>2. Len(messages') \in Nat \ {0}
  BY DEF StoreAnswer, Appended, IInv, TypeOK
<1>3. /\ x \in Local /\ x.pc = "close" /\ x.main = run[r].main /\ x.tools = run[r].tools
      /\ x.iteration = run[r].iteration
  BY <1>1, <1>2 DEF Local, Place, Streaming
<1>4. Resume(r, run[r], x)
  BY DEF StoreAnswer
<1> HIDE DEF x
<1>5. Owed(x) = Owed(run[r])
  BY <1>3 DEF Owed, Spans, Unwinding, StoreAnswer
<1>6. Settles(x, obs[r])
  BY <1>3, <1>5 DEF StoreAnswer, Settled, Settles, StatusIn, Holds, Leaving, Unwinding, AskingModel,
                    CallingTools, Ended
<1> QED BY <1>1, <1>3, <1>4, <1>6, Undisturbed DEF StoreAnswer

LEMMA StoreResultsSettles ==
    ASSUME IInv, ~Faults, NEW r \in Run, r \notin gone, Settled(r), StoreResults(r)
    PROVE  Settled(r)'
<1> DEFINE x == [run[r] EXCEPT !.pc = "tool_close", !.registered = @ \cup {Len(messages')}]
<1>1. run[r] \in Local /\ obs[r] \in RunRow
  BY Known
<1>2. Len(messages') \in Nat \ {0}
  BY DEF StoreResults, Appended, IInv, TypeOK
<1>3. /\ x \in Local /\ x.pc = "tool_close" /\ x.main = run[r].main /\ x.tools = run[r].tools
      /\ x.pending = run[r].pending
  BY <1>1, <1>2 DEF Local, Place, Streaming
<1>4. Resume(r, run[r], x)
  BY DEF StoreResults
<1> HIDE DEF x
<1>5. Owed(x) = Owed(run[r])
  BY <1>3 DEF Owed, Spans, Unwinding, StoreResults
<1>6. Settles(x, obs[r])
  BY <1>3, <1>5 DEF StoreResults, Settled, Settles, StatusIn, Holds, Leaving, Unwinding, AskingModel,
                    CallingTools, Ended
<1> QED BY <1>1, <1>3, <1>4, <1>6, Undisturbed DEF StoreResults

LEMMA CloseMainSettles ==
    ASSUME IInv, ~Faults, NEW r \in Run, r \notin gone, Settled(r), CloseMain(r)
    PROVE  Settled(r)' /\ run'[r].registered = run[r].registered
<1> DEFINE s == [run[r] EXCEPT !.main = 0]
           o == ClosedSpan(obs[r], run[r].iteration, "done")
           x == IF s.calls = {} THEN [s EXCEPT !.pc = "complete"]
                ELSE IF s.iteration = HardCap THEN Unwind(s, "fail")
                ELSE [s EXCEPT !.pc = "tool_open", !.pending = s.calls]
<1>1. run[r] \in Local /\ obs[r] \in RunRow
  BY Known
<1>2. /\ run[r].main = run[r].iteration /\ run[r].tools = {}
      /\ OpenOf(obs[r]) \subseteq {run[r].iteration}
  BY DEF CloseMain, Settled, Settles, Holds, Leaving, Unwinding, AskingModel, CallingTools, Owed,
         Spans
<1>3. run[r].iteration \in SpanId
  BY <1>1, HardCapPositive DEF CloseMain, IInv, RunOK, Fits, Local, SpanId
<1>4. o \in RunRow /\ OpenOf(o) = {}
  BY <1>1, <1>2, <1>3, ObsTypes, OpenSpans
<1>5. s \in Local /\ s.main = 0 /\ s.tools = {} /\ s.registered = run[r].registered
  BY <1>1, <1>2, HardCapPositive DEF Local
<1>6. Write(r, o) /\ Resume(r, run[r], x)
  BY DEF CloseMain
<1> HIDE DEF s, o
<1>7. x \in Local /\ Settles(x, o) /\ x.registered = run[r].registered
  <2>1. CASE s.calls = {}
    <3> DEFINE y == [s EXCEPT !.pc = "complete"]
    <3>1. /\ y \in Local /\ y.pc = "complete" /\ y.main = 0 /\ y.tools = {}
          /\ y.registered = run[r].registered
      BY <1>5 DEF Local, Place, Streaming
    <3>2. x = y
      BY <2>1
    <3> HIDE DEF x, y
    <3>3. Settles(y, o)
      BY <1>4, <3>1 DEF Settles, StatusIn, Holds, Leaving, Unwinding, AskingModel, CallingTools, Ended
    <3> QED BY <3>1, <3>2, <3>3
  <2>2. CASE s.calls # {} /\ s.iteration = HardCap
    <3>1. x = Unwind(s, "fail") /\ "fail" \in Unwinding
      BY <2>2 DEF Unwinding
    <3>2. Unwind(s, "fail") \in Local /\ Unwind(s, "fail").registered = run[r].registered
      BY <1>5, <3>1, LocalTypes DEF Unwind, Local
    <3> HIDE DEF x
    <3> QED BY <1>4, <1>5, <3>1, <3>2, UnwindSettles
  <2>3. CASE s.calls # {} /\ s.iteration # HardCap
    <3> DEFINE y == [s EXCEPT !.pc = "tool_open", !.pending = s.calls]
    <3>1. /\ y \in Local /\ y.pc = "tool_open" /\ y.main = 0 /\ y.tools = {}
          /\ y.pending = y.calls /\ y.registered = run[r].registered
      BY <1>5 DEF Local, Place, Streaming
    <3>2. x = y
      BY <2>3
    <3> HIDE DEF x, y
    <3>3. Settles(y, o)
      BY <1>4, <3>1 DEF Settles, StatusIn, Holds, Leaving, Unwinding, AskingModel, CallingTools, Ended
    <3> QED BY <3>1, <3>2, <3>3
  <2> QED BY <2>1, <2>2, <2>3
<1> HIDE DEF x
<1> QED BY <1>1, <1>4, <1>6, <1>7, Undisturbed

LEMMA OpenToolSettles ==
    ASSUME IInv, ~Faults, NEW r \in Run, r \notin gone, Settled(r), OpenTool(r)
    PROVE  Settled(r)' /\ run'[r].registered = run[r].registered
<1>1. run[r] \in Local /\ obs[r] \in RunRow
  BY Known
<1>2. PICK c \in run[r].pending :
         LET before == [run[r] EXCEPT !.tools = @ \cup {c}]
         IN /\ Write(r, OpenedSpan(obs[r], c, run[r].iteration))
            /\ Resume(r, before,
                      IF run[r].pending = {c} THEN [before EXCEPT !.pc = "tools"]
                      ELSE [before EXCEPT !.pending = @ \ {c}])
  BY DEF OpenTool
<1> DEFINE before == [run[r] EXCEPT !.tools = @ \cup {c}]
           x == IF run[r].pending = {c} THEN [before EXCEPT !.pc = "tools"]
                ELSE [before EXCEPT !.pending = @ \ {c}]
           o == OpenedSpan(obs[r], c, run[r].iteration)
<1>3. /\ run[r].main = 0 /\ run[r].tools \subseteq run[r].calls
      /\ run[r].pending \subseteq run[r].calls
      /\ OpenOf(obs[r]) \subseteq run[r].tools
  BY DEF OpenTool, Settled, Settles, Holds, Leaving, Unwinding, AskingModel, CallingTools, Owed,
         Spans
<1>4. c \in Call /\ c \in SpanId /\ run[r].iteration \in 0 .. HardCap
  BY <1>1 DEF Local, SpanId
<1>5. o \in RunRow /\ OpenOf(o) \subseteq run[r].tools \cup {c}
  BY <1>1, <1>3, <1>4, ObsTypes, OpenSpans
<1>6. /\ before \in Local /\ before.main = 0 /\ before.tools = run[r].tools \cup {c}
      /\ before.calls = run[r].calls /\ before.pending = run[r].pending
      /\ before.pc = "tool_open" /\ before.registered = run[r].registered
  BY <1>1, <1>3, <1>4 DEF OpenTool, Local
<1>7. Write(r, o) /\ Resume(r, before, x)
  BY <1>2
<1> HIDE DEF before
<1>8. /\ x \in Local /\ x.main = 0 /\ x.tools = run[r].tools \cup {c}
      /\ x.calls = run[r].calls /\ x.pending \subseteq run[r].pending
      /\ x.pc \in {"tool_open", "tools"} /\ x.registered = run[r].registered
  BY <1>6 DEF Local, Place, Streaming
<1> HIDE DEF x, o
<1>9. StatusIn(x, o)
  BY <1>8 DEF StatusIn, Ended
<1>10. Holds(x)
  BY <1>3, <1>8 DEF Holds, Leaving, Unwinding, AskingModel, CallingTools
<1>11. Owed(x) = run[r].tools \cup {c}
  BY <1>8 DEF Owed, Spans, Unwinding
<1> QED BY <1>1, <1>5, <1>7, <1>8, <1>9, <1>10, <1>11, Undisturbed DEF Settles

LEMMA ToolsReturnSettles ==
    ASSUME IInv, ~Faults, NEW r \in Run, r \notin gone, Settled(r), ToolsReturn(r)
    PROVE  Settled(r)' /\ run'[r].registered = run[r].registered
<1> DEFINE x == [run[r] EXCEPT !.pc = "tool_end", !.pending = run[r].calls]
<1>1. run[r] \in Local /\ obs[r] \in RunRow
  BY Known
<1>2. /\ x \in Local /\ x.pc = "tool_end" /\ x.main = run[r].main /\ x.tools = run[r].tools
      /\ x.pending = run[r].calls /\ x.registered = run[r].registered
  BY <1>1 DEF Local, Place, Streaming
<1>3. Resume(r, run[r], x)
  BY DEF ToolsReturn
<1> HIDE DEF x
<1>4. Owed(x) = Owed(run[r])
  BY <1>2 DEF Owed, Spans, Unwinding, ToolsReturn
<1>5. Settles(x, obs[r])
  BY <1>2, <1>4 DEF ToolsReturn, Settled, Settles, StatusIn, Holds, Leaving, Unwinding, AskingModel,
                    CallingTools, Ended
<1> QED BY <1>1, <1>2, <1>3, <1>5, Undisturbed DEF ToolsReturn

LEMMA CloseToolSettles ==
    ASSUME IInv, ~Faults, NEW r \in Run, r \notin gone, Settled(r),
           CloseTool(r) \/ CloseLastTool(r)
    PROVE  Settled(r)' /\ run'[r].registered = run[r].registered
<1>1. run[r] \in Local /\ obs[r] \in RunRow
  BY Known
<1>2. PICK c \in run[r].pending :
         LET before == [run[r] EXCEPT !.tools = @ \ {c}]
         IN /\ Write(r, ClosedSpan(obs[r], c, "done"))
            /\ \/ /\ run[r].pc = "tool_end"
                  /\ Resume(r, before, [before EXCEPT !.pending = @ \ {c}])
               \/ /\ run[r].pc = "tool_close"
                  /\ Resume(r, before, [before EXCEPT !.pending = {}, !.pc = "open"])
  BY DEF CloseTool, CloseLastTool
<1> DEFINE before == [run[r] EXCEPT !.tools = @ \ {c}]
           y == [before EXCEPT !.pending = @ \ {c}]
           z == [before EXCEPT !.pending = {}, !.pc = "open"]
           o == ClosedSpan(obs[r], c, "done")
<1>3. /\ run[r].main = 0 /\ run[r].tools \subseteq run[r].pending
      /\ OpenOf(obs[r]) \subseteq run[r].tools
      /\ run[r].pc = "tool_close" => run[r].pending = {c}
  BY <1>2 DEF Settled, Settles, Holds, Leaving, Unwinding, AskingModel, CallingTools, Owed, Spans
<1>4. c \in Call /\ c \in SpanId
  BY <1>1 DEF Local, SpanId
<1>5. o \in RunRow /\ OpenOf(o) \subseteq run[r].tools \ {c}
  BY <1>1, <1>3, <1>4, ObsTypes, OpenSpans
<1>6. /\ before \in Local /\ before.main = 0 /\ before.tools = run[r].tools \ {c}
      /\ before.pending = run[r].pending /\ before.pc = run[r].pc
      /\ before.registered = run[r].registered
  BY <1>1, <1>3, <1>4 DEF Local
<1>7. /\ Write(r, o)
      /\ \/ run[r].pc = "tool_end" /\ Resume(r, before, y)
         \/ run[r].pc = "tool_close" /\ Resume(r, before, z)
  BY <1>2
<1> HIDE DEF before
<1>8. CASE run[r].pc = "tool_end"
  <2>1. /\ y \in Local /\ y.main = 0 /\ y.tools = run[r].tools \ {c}
        /\ y.pending = run[r].pending \ {c} /\ y.pc = "tool_end"
        /\ y.registered = run[r].registered
    BY <1>6, <1>8 DEF Local
  <2> HIDE DEF y, o
  <2>2. Owed(y) = run[r].tools \ {c}
    BY <2>1 DEF Owed, Spans, Unwinding
  <2>3. Settles(y, o)
    BY <1>3, <1>5, <2>1, <2>2 DEF Settles, StatusIn, Holds, Leaving, Unwinding, AskingModel,
                                  CallingTools, Ended
  <2> QED BY <1>1, <1>5, <1>7, <1>8, <2>1, <2>3, Undisturbed
<1>9. CASE run[r].pc = "tool_close"
  <2>1. /\ z \in Local /\ z.main = 0 /\ z.tools = {} /\ z.pc = "open"
        /\ z.registered = run[r].registered
    BY <1>3, <1>6, <1>9 DEF Local, Place, Streaming
  <2> HIDE DEF z, o
  <2>2. OpenOf(o) = {}
    BY <1>3, <1>5, <1>9
  <2>3. Settles(z, o)
    BY <2>1, <2>2 DEF Settles, StatusIn, Holds, Leaving, Unwinding, AskingModel, CallingTools, Ended
  <2> QED BY <1>1, <1>5, <1>7, <1>9, <2>1, <2>3, Undisturbed
<1> QED BY <1>7, <1>8, <1>9

LEMMA CompleteSettles ==
    ASSUME IInv, ~Faults, NEW r \in Run, r \notin gone, Settled(r), Complete(r)
    PROVE  Settled(r)' /\ run'[r].registered = run[r].registered
<1> DEFINE x == At(r, "clear")
           o == FinishedRun(obs[r], "completed")
<1>1. run[r] \in Local /\ obs[r] \in RunRow
  BY Known
<1>2. OpenOf(obs[r]) = {}
  BY DEF Complete, Settled, Settles, Holds, Leaving, Unwinding, AskingModel, CallingTools, Owed,
         Spans
<1>3. x \in Local /\ x.pc = "clear" /\ x.registered = run[r].registered
  BY <1>1 DEF At, Local, Place, Streaming
<1>4. o \in RunRow /\ OpenOf(o) = {} /\ o.status # "running"
  BY <1>1, <1>2, ObsTypes, OpenSpans, FinishedIsNotRunning
<1>5. Write(r, o) /\ Resume(r, run[r], x)
  BY DEF Complete
<1> HIDE DEF x, o
<1>6. Settles(x, o)
  BY <1>3, <1>4 DEF Settles, StatusIn, Holds, Leaving, Unwinding, AskingModel, CallingTools, Ended
<1> QED BY <1>1, <1>3, <1>4, <1>5, <1>6, Undisturbed

LEMMA CloseLeftSettles ==
    ASSUME IInv, ~Faults, NEW r \in Run, r \notin gone, Settled(r), CloseLeft(r)
    PROVE  Settled(r)' /\ run'[r].registered = run[r].registered
<1>1. run[r] \in Local /\ obs[r] \in RunRow
  BY Known
<1>2. PICK s \in run[r].left :
         /\ Write(r, ClosedSpan(obs[r], s, "partial"))
         /\ LET rest == [run[r] EXCEPT !.left = @ \ {s}]
            IN Continue(r, run[r], IF run[r].pc = "fail" /\ s = run[r].main
                                   THEN [rest EXCEPT !.main = 0] ELSE rest)
  BY DEF CloseLeft
<1> DEFINE rest == [run[r] EXCEPT !.left = @ \ {s}]
           x == IF run[r].pc = "fail" /\ s = run[r].main THEN [rest EXCEPT !.main = 0] ELSE rest
           o == ClosedSpan(obs[r], s, "partial")
<1>3. s \in SpanId /\ run[r].pc \in Unwinding /\ OpenOf(obs[r]) \subseteq run[r].left
  BY <1>1 DEF CloseLeft, Local, Settled, Settles, Owed
<1>4. o \in RunRow /\ OpenOf(o) \subseteq run[r].left \ {s}
  BY <1>1, <1>3, ObsTypes, OpenSpans
<1>5. /\ rest \in Local /\ rest.pc = run[r].pc /\ rest.left = run[r].left \ {s}
      /\ rest.registered = run[r].registered
  BY <1>1 DEF Local
<1>6. Write(r, o) /\ Continue(r, run[r], x)
  BY <1>2
<1> HIDE DEF rest
<1>7. /\ x \in Local /\ x.pc = run[r].pc /\ x.left = run[r].left \ {s}
      /\ x.registered = run[r].registered
  BY <1>5, HardCapPositive DEF Local
<1> HIDE DEF x, o
<1>8. Settles(x, o)
  BY <1>3, <1>4, <1>7 DEF Settles, Owed, StatusIn, Holds, Leaving, Unwinding, AskingModel,
                          CallingTools, Ended
<1> QED BY <1>1, <1>4, <1>6, <1>7, <1>8, Undisturbed

LEMMA FinishUnwindingSettles ==
    ASSUME IInv, ~Faults, NEW r \in Run, r \notin gone, Settled(r), FinishUnwinding(r)
    PROVE  Settled(r)' /\ run'[r].registered = run[r].registered
<1> DEFINE status == IF run[r].pc = "abort" THEN "aborted" ELSE "failed"
           before == [run[r] EXCEPT !.tools = {}]
           x == [before EXCEPT !.pc = "clear"]
           o == FinishedRun(obs[r], status)
<1>1. run[r] \in Local /\ obs[r] \in RunRow
  BY Known
<1>2. OpenOf(obs[r]) = {}
  BY DEF FinishUnwinding, Settled, Settles, Owed
<1>3. before \in Local /\ before.registered = run[r].registered
  BY <1>1 DEF Local
<1>4. status \in {"completed", "failed", "aborted"}
  OBVIOUS
<1>5. Write(r, o) /\ Continue(r, before, x)
  BY DEF FinishUnwinding
<1> HIDE DEF before, status
<1>6. x \in Local /\ x.pc = "clear" /\ x.registered = run[r].registered
  BY <1>3 DEF Local, Place, Streaming
<1>7. o \in RunRow /\ OpenOf(o) = {} /\ o.status # "running"
  BY <1>1, <1>2, <1>4, ObsTypes, OpenSpans, FinishedIsNotRunning
<1> HIDE DEF x, o
<1>8. Settles(x, o)
  BY <1>6, <1>7 DEF Settles, StatusIn, Holds, Leaving, Unwinding, AskingModel, CallingTools, Ended
<1> QED BY <1>1, <1>5, <1>6, <1>7, <1>8, Undisturbed

LEMMA ClearSettles ==
    ASSUME IInv, ~Faults, NEW r \in Run, r \notin gone, Settled(r), Clear(r)
    PROVE  Settled(r)'
<1> DEFINE x == [Idle EXCEPT !.pc = "closed"]
<1>1. x \in Local /\ x.pc = "closed" /\ x.main = 0 /\ x.tools = {} /\ x.registered = {}
  BY LocalTypes DEF Idle, Place, Ended
<1>2. run' = [run EXCEPT ![r] = x]
  BY DEF Clear, End
<1> HIDE DEF x
<1>3. run'[r] = x /\ obs' = obs
  BY <1>2 DEF IInv, TypeOK, Clear
<1>4. OpenOf(obs[r]) = {} /\ obs[r].status # "running"
  BY DEF Clear, Settled, Settles, StatusIn, Owed, Unwinding
<1>5. Settles(x, obs[r])
  BY <1>1, <1>4 DEF Settles, StatusIn, Holds, Leaving, Unwinding, AskingModel, CallingTools, Ended
<1> QED BY <1>3, <1>5 DEF Settled

-----------------------------------------------------------------------------
(* The payloads of a run *)

\* A step of run q appends rows of its own and clears payloads of its own.
LEMMA RowsOfOne ==
    ASSUME IInv, NEW q \in Run, Submit(q) \/ Refuse(q) \/ RunStep(q)
    PROVE  Touched(q)
<1>1. messages \in Seq(Message)
  BY DEF IInv, TypeOK
<1>2. CASE UNCHANGED messages
  BY <1>1, <1>2 DEF Touched
<1>3. CASE Submit(q) \/ StoreAnswer(q) \/ StoreResults(q) \/ StoreUnacknowledged(q)
  <2>1. PICK k \in {"user", "assistant", "tool"}, i \in 0 .. HardCap, cs \in SUBSET Call :
           messages' = Appended(Row(q, k, i, cs))
    <3>1. run[q].iteration \in 0 .. HardCap /\ run[q].calls \in SUBSET Call
      BY DEF IInv, TypeOK, Local
    <3>2. 0 \in 0 .. HardCap /\ {} \in SUBSET Call
      BY HardCapPositive
    <3> QED BY <1>3, <3>1, <3>2 DEF Submit, StoreAnswer, StoreResults, StoreUnacknowledged
  <2>2. Row(q, k, i, cs) \in Message /\ Row(q, k, i, cs).run = q
    BY RowTypes DEF Row
  <2> QED BY <1>1, <2>1, <2>2 DEF Appended, Touched
<1>4. CASE Clear(q)
  BY <1>2, <1>4, ClearedIsTouched DEF Clear, IInv, TypeOK
<1> QED BY <1>2, <1>3, <1>4 DEF RunStep, Pipeline, Store, Finish, Refuse, Rebuild, EnterPort, StartRun,
           OpenMain, ModelAnswers, ModelFails, CloseMain, OpenTool, ToolsReturn, ToolsFail,
           CloseTool, CloseLastTool, StoreFails, Complete, CloseLeft, FinishUnwinding, ClearFails,
           CutCleanup

\* The other runs, their rows and their observations stay.
LEMMA OthersStay ==
    ASSUME IInv, NEW q \in Run, Submit(q) \/ Refuse(q) \/ RunStep(q), NEW r \in Run, r # q
    PROVE  /\ run'[r] = run[r] /\ obs'[r] = obs[r]
           /\ Log!Of(r)' = Log!Of(r)
           /\ \A p \in Log!Of(r) : messages'[p] = messages[p]
<1>1. run'[r] = run[r]
  BY DEF Submit, Refuse, RunStep, Pipeline, Store, Finish, Rebuild, EnterPort, StartRun, OpenMain,
         ModelAnswers, ModelFails, CloseMain, OpenTool, ToolsReturn, ToolsFail, CloseTool,
         CloseLastTool, StoreAnswer, StoreResults, StoreUnacknowledged, StoreFails, Complete,
         CloseLeft, FinishUnwinding, Clear, ClearFails, CutCleanup, Continue, Raise, Resume, End,
         IInv, TypeOK
<1>2. obs'[r] = obs[r]
  BY DEF Submit, Refuse, RunStep, Pipeline, Store, Finish, Rebuild, EnterPort, StartRun, OpenMain,
         ModelAnswers, ModelFails, CloseMain, OpenTool, ToolsReturn, ToolsFail, CloseTool,
         CloseLastTool, StoreAnswer, StoreResults, StoreUnacknowledged, StoreFails, Complete,
         CloseLeft, FinishUnwinding, Clear, ClearFails, CutCleanup, Write,
         IInv, TypeOK
<1>3. Touched(q)
  BY RowsOfOne
<1>4. \A p \in DOMAIN messages : messages'[p].run = messages[p].run
  BY <1>3, RowsTyped, RowKept DEF IInv, Touched
<1>5. Log!Of(r)' = Log!Of(r) /\ \A p \in Log!Of(r) : messages'[p] = messages[p]
  BY <1>3, <1>4 DEF Touched, Log!Of
<1> QED BY <1>1, <1>2, <1>5

\* Only an append registers, only the end forgets.
LEMMA RegisteredStays ==
    ASSUME IInv, ~Faults, NEW r \in Run, r \notin gone, Settled(r),
           Rebuild(r) \/ Pipeline(r) \/ StoreFails(r) \/ Complete(r) \/ CloseLeft(r)
              \/ FinishUnwinding(r)
    PROVE  run'[r].registered = run[r].registered /\ run[r].pc # "closed"
<1>1. CASE Rebuild(r) \/ EnterPort(r)
  BY <1>1 DEF Rebuild, EnterPort, Resume, At, IInv, TypeOK, Local
<1>2. CASE StartRun(r) \/ OpenMain(r) \/ ModelAnswers(r) \/ ModelFails(r) \/ StoreFails(r)
  BY <1>2, StartRunSettles, OpenMainSettles, ModelAnswersSettles, FailuresSettle
     DEF StartRun, OpenMain, ModelAnswers, ModelFails, StoreFails, Storing
<1>3. CASE CloseMain(r) \/ OpenTool(r) \/ ToolsReturn(r) \/ ToolsFail(r) \/ CloseTool(r)
              \/ CloseLastTool(r)
  BY <1>3, CloseMainSettles, OpenToolSettles, ToolsReturnSettles, FailuresSettle, CloseToolSettles
     DEF CloseMain, OpenTool, ToolsReturn, ToolsFail, CloseTool, CloseLastTool
<1>4. CASE Complete(r) \/ CloseLeft(r) \/ FinishUnwinding(r)
  BY <1>4, CompleteSettles, CloseLeftSettles, FinishUnwindingSettles
     DEF Complete, CloseLeft, FinishUnwinding, Unwinding
<1> QED BY <1>1, <1>2, <1>3, <1>4 DEF Pipeline

\* Deletion is final.
LEMMA SessionMoves ==
    ASSUME [Next]_vars
    PROVE  \/ session' = session
           \/ session # "deleted" /\ session' = "live"
           \/ session' = "deleted"
<1>1. ASSUME NEW r \in Run, Submit(r)
      PROVE  session # "deleted" /\ session' = "live"
  BY <1>1 DEF Submit
<1>2. ASSUME NEW r \in Run, Refuse(r) \/ Disconnect(r) \/ Rebuild(r)
      PROVE  session' = session
  BY <1>2 DEF Refuse, Disconnect, Rebuild
<1>3. ASSUME NEW r \in Run, Pipeline(r) PROVE session' = session
  <2>1. CASE EnterPort(r) \/ StartRun(r) \/ OpenMain(r) \/ ModelAnswers(r) \/ ModelFails(r)
    BY <2>1 DEF EnterPort, StartRun, OpenMain, ModelAnswers, ModelFails
  <2>2. CASE CloseMain(r) \/ OpenTool(r) \/ ToolsReturn(r)
    BY <2>2 DEF CloseMain, OpenTool, ToolsReturn
  <2>3. CASE ToolsFail(r) \/ CloseTool(r) \/ CloseLastTool(r)
    BY <2>3 DEF ToolsFail, CloseTool, CloseLastTool
  <2> QED BY <1>3, <2>1, <2>2, <2>3 DEF Pipeline
<1>4. ASSUME NEW r \in Run, Store(r) PROVE session' = session
  BY <1>4 DEF Store, StoreAnswer, StoreResults, StoreFails, StoreUnacknowledged
<1>5. ASSUME NEW r \in Run, Finish(r) PROVE session' = session
  BY <1>5 DEF Finish, Complete, CloseLeft, FinishUnwinding, Clear, ClearFails, CutCleanup
<1>6. ASSUME Delete PROVE session' = "deleted"
  BY <1>6 DEF Delete
<1>7. ASSUME Crash \/ UNCHANGED vars PROVE session' = session
  BY <1>7 DEF Crash, vars
<1> QED BY <1>1, <1>2, <1>3, <1>4, <1>5, <1>6, <1>7 DEF Next, RunStep

LEMMA StaysRegistered ==
    ASSUME [Next]_vars, NEW r \in Run, NEW s, NEW x, Registered(r, s, session),
           Log!Of(r)' = Log!Of(r), \A p \in Log!Of(r) : messages'[p] = messages[p],
           s.registered \subseteq x.registered, s.pc = "closed" => x.pc = "closed"
    PROVE  Registered(r, x, session)'
<1>1. session = "deleted" => session' = "deleted"
  BY SessionMoves
<1> QED BY <1>1 DEF Registered

\* A new row of r that is no answer, or is registered with its commit.
LEMMA AppendRegisters ==
    ASSUME IInv, NEW r \in Run, NEW row \in Message, row.run = r, messages' = Appended(row),
           NEW s, NEW x, Registered(r, s, session), s.pc # "closed",
           \/ s.registered \cup {Len(messages')} \subseteq x.registered
           \/ Log!Of(r) = {} /\ row.kind # "assistant"
    PROVE  Registered(r, x, session)'
<1>1. /\ messages'[Len(messages')] = row
      /\ Log!Of(r)' = Log!Of(r) \cup {Len(messages')}
      /\ \A p \in Log!Of(r) : messages'[p] = messages[p]
  BY Appending
<1>2. CASE s.registered \cup {Len(messages')} \subseteq x.registered
  BY <1>1, <1>2 DEF Registered
<1>3. CASE Log!Of(r) = {} /\ row.kind # "assistant"
  BY <1>1, <1>3 DEF Registered
<1> QED BY <1>2, <1>3

LEMMA StoreRegisters ==
    ASSUME IInv, ~Faults, NEW r \in Run, r \notin gone, Registered(r, run[r], session),
           StoreAnswer(r) \/ StoreResults(r)
    PROVE  Registered(r, run[r], session)'
<1>1. PICK kind \in {"assistant", "tool"}, place \in Place :
         /\ messages' = Appended(Row(r, kind, run[r].iteration, run[r].calls))
         /\ run' = [run EXCEPT ![r] = [run[r] EXCEPT !.pc = place,
                                                     !.registered = @ \cup {Len(messages')}]]
         /\ run[r].pc # "closed"
  BY DEF StoreAnswer, StoreResults, Resume, Place, Streaming
<1>2. PICK row \in Message : row.run = r /\ row = Row(r, kind, run[r].iteration, run[r].calls)
  <2>1. run[r].iteration \in 0 .. HardCap /\ run[r].calls \in SUBSET Call
    BY DEF IInv, TypeOK, Local
  <2> QED BY <2>1, RowTypes DEF Row
<1>3. PICK n : n = Len(messages')
  OBVIOUS
<1>4. run'[r].registered = run[r].registered \cup {n}
  <2>1. run'[r] = [run[r] EXCEPT !.pc = place, !.registered = @ \cup {n}]
    BY <1>1, <1>3 DEF IInv, TypeOK
  <2> QED BY <2>1, Known DEF Local
<1>5. messages' = Appended(row)
  BY <1>1, <1>2
<1>6. PICK s, x : s = run[r] /\ x = run'[r]
  OBVIOUS
<1>7. Registered(r, s, session) /\ s.pc # "closed"
  BY <1>1, <1>6 DEF Registered
<1>8. s.registered \cup {Len(messages')} \subseteq x.registered
  BY <1>3, <1>4, <1>6
<1>9. Registered(r, x, session)'
  BY <1>2, <1>5, <1>7, <1>8, AppendRegisters
<1> QED BY <1>6, <1>9 DEF Registered

\* The UPDATE at the end clears what is registered.
LEMMA ClearForgets ==
    ASSUME IInv, EInv, NEW r \in Run, Registered(r, run[r], session), Clear(r)
    PROVE  Registered(r, run[r], session)'
<1>1. run'[r].pc = "closed" /\ session' = session
  BY DEF Clear, End, IInv, TypeOK, Idle
<1>2. CASE session = "live"
  <2>1. DOMAIN messages' = DOMAIN messages
    BY <1>2 DEF Clear, Cleared
  <2>2. ASSUME NEW p \in DOMAIN messages', messages'[p].run = r, messages'[p].kind = "assistant",
               messages'[p].payload = "kept"
        PROVE  FALSE
    <3>1. messages[p] \in Message
      BY <2>1, <2>2, RowsTyped DEF IInv
    <3>2. p \in run[r].registered => messages'[p].payload = "none"
      BY <1>2, <2>1, <2>2, <3>1 DEF Clear, Cleared, Message
    <3>3. messages'[p] = messages[p]
      BY <1>2, <2>1, <2>2, <3>2 DEF Clear, Cleared
    <3> QED BY <1>2, <2>1, <2>2, <3>2, <3>3 DEF Registered, Log!Of, Clear
  <2> QED BY <2>2 DEF Registered, Log!Of
<1>3. CASE session = "absent"
  BY <1>3 DEF EInv, Clear, Registered, Log!Of
<1>4. CASE session = "deleted"
  BY <1>1, <1>4 DEF Registered
<1> QED BY <1>2, <1>3, <1>4 DEF IInv, TypeOK

-----------------------------------------------------------------------------
(* The invariant *)

\* What a run does by itself leaves itself in order.
LEMMA OwnStep ==
    ASSUME IInv, EInv, ~Faults, [Next]_vars, NEW r \in Run, r \notin gone,
           Submit(r) \/ Refuse(r) \/ RunStep(r)
    PROVE  Settled(r)' /\ Registered(r, run[r], session)'
<1>1. Settled(r) /\ Registered(r, run[r], session)
  BY DEF EInv, EndOK
<1>2. Settled(r)'
  BY <1>1, EarlySettle, StartRunSettles, OpenMainSettles, ModelAnswersSettles, FailuresSettle,
     StoreAnswerSettles, StoreResultsSettles, CloseMainSettles, OpenToolSettles,
     ToolsReturnSettles, CloseToolSettles, CompleteSettles, CloseLeftSettles,
     FinishUnwindingSettles, ClearSettles
  DEF RunStep, Pipeline, Store, Finish, StoreUnacknowledged, ClearFails, CutCleanup
<1>3. CASE Submit(r) \/ Refuse(r)
  <2>1. Log!Of(r) = {} /\ run[r].pc # "closed"
    BY <1>3 DEF Submit, Refuse, IInv, RunOK, Fits
  <2>2. CASE Refuse(r)
    BY <1>2, <2>1, <2>2 DEF Refuse, Registered, Log!Of
  <2>3. CASE Submit(r)
    <3> DEFINE row == Row(r, "user", 0, {})
    <3>1. row \in Message /\ row.run = r /\ row.kind # "assistant"
      BY RowTypes, HardCapPositive DEF Row
    <3>2. messages' = Appended(row)
      BY <2>3 DEF Submit
    <3> HIDE DEF row
    <3>3. PICK s, x : s = run[r] /\ x = run'[r]
      OBVIOUS
    <3>4. Registered(r, s, session) /\ s.pc # "closed"
      BY <1>1, <2>1, <3>3 DEF Registered
    <3>5. Registered(r, x, session)'
      BY <2>1, <3>1, <3>2, <3>4, AppendRegisters
    <3> QED BY <1>2, <3>3, <3>5 DEF Registered
  <2> QED BY <1>3, <2>2, <2>3
<1>4. CASE Rebuild(r) \/ Pipeline(r) \/ StoreFails(r) \/ Complete(r) \/ CloseLeft(r)
              \/ FinishUnwinding(r)
  <2>1. run'[r].registered = run[r].registered /\ run[r].pc # "closed"
    BY <1>1, <1>4, RegisteredStays
  <2>2. messages' = messages
    <3>1. Pipeline(r) => messages' = messages
      BY DEF Pipeline, EnterPort, StartRun, OpenMain, ModelAnswers, ModelFails,
             CloseMain, OpenTool, ToolsReturn, ToolsFail, CloseTool, CloseLastTool
    <3> QED BY <1>4, <3>1 DEF Rebuild, StoreFails, Complete, CloseLeft, FinishUnwinding
  <2>3. PICK s, x : s = run[r] /\ x = run'[r]
    OBVIOUS
  <2>4. Registered(r, s, session)
    BY <1>1, <2>3 DEF Registered
  <2>5. Registered(r, x, session)'
    BY <2>1, <2>2, <2>3, <2>4, StaysRegistered DEF Log!Of
  <2> QED BY <1>2, <2>3, <2>5 DEF Registered
<1>5. CASE StoreAnswer(r) \/ StoreResults(r)
  BY <1>1, <1>2, <1>5, StoreRegisters
<1>6. CASE Clear(r)
  BY <1>1, <1>2, <1>6, ClearForgets
<1> QED BY <1>3, <1>4, <1>5, <1>6
        DEF RunStep, Store, Finish, StoreUnacknowledged, ClearFails, CutCleanup

LEMMA EndInit == Init => EInv
<1> SUFFICES ASSUME Init PROVE EInv
  OBVIOUS
<1>1. ASSUME NEW r \in Run PROVE EndOK(r)
  <2>1. Log!Of(r) = {}
    BY DEF Init, Log!Of
  <2>2. run[r].pc = "idle" /\ run[r].main = 0 /\ run[r].tools = {}
    BY DEF Init, Idle
  <2>3. obs[r].status = "none" /\ OpenOf(obs[r]) = {}
    BY DEF Init, OpenOf
  <2>4. Settled(r)
    BY <2>2, <2>3 DEF Settled, Settles, StatusIn, Holds, Leaving, Unwinding, AskingModel,
                      CallingTools, Ended
  <2> QED BY <2>1, <2>4 DEF EndOK, Registered
<1> QED BY <1>1 DEF EInv, Init

LEMMA EndStepInv == ~Faults /\ IInv /\ EInv /\ [Next]_vars => EInv'
<1> SUFFICES ASSUME ~Faults, IInv, EInv, [Next]_vars PROVE EInv'
  OBVIOUS
<1>1. session' = "absent" => messages' = <<>>
  <2>1. session' = "absent" => session = "absent"
    BY SessionMoves DEF EInv
  <2>2. session = "absent" => messages' = messages \/ session' = "live"
    BY DEF Next, Submit, Refuse, RunStep, Rebuild, Pipeline, EnterPort, StartRun, OpenMain, ModelAnswers,
         ModelFails, CloseMain, OpenTool, ToolsReturn, ToolsFail, CloseTool, CloseLastTool, Store,
         StoreAnswer, StoreResults, StoreFails, StoreUnacknowledged, Finish, Complete, CloseLeft,
         FinishUnwinding, Clear, ClearFails, CutCleanup, Disconnect, Delete, Crash, vars
  <2> QED BY <2>1, <2>2 DEF EInv
<1>2. ASSUME NEW r \in Run, r \notin gone' PROVE Settled(r)' /\ Registered(r, run[r], session)'
  <2>1. r \notin gone
    BY <1>2 DEF Next, Submit, Refuse, RunStep, Rebuild, Pipeline, EnterPort, StartRun, OpenMain, ModelAnswers,
         ModelFails, CloseMain, OpenTool, ToolsReturn, ToolsFail, CloseTool, CloseLastTool, Store,
         StoreAnswer, StoreResults, StoreFails, StoreUnacknowledged, Finish, Complete, CloseLeft,
         FinishUnwinding, Clear, ClearFails, CutCleanup, Disconnect, Delete, Crash, vars
  <2>2. Settled(r) /\ Registered(r, run[r], session)
    BY <2>1 DEF EInv, EndOK
  <2>3. CASE Submit(r) \/ Refuse(r) \/ RunStep(r)
    BY <2>1, <2>3, OwnStep
  <2>4. ASSUME NEW q \in Run, q # r, Submit(q) \/ Refuse(q) \/ RunStep(q)
        PROVE  Settled(r)' /\ Registered(r, run[r], session)'
    <3>1. /\ run'[r] = run[r] /\ obs'[r] = obs[r]
          /\ Log!Of(r)' = Log!Of(r)
          /\ \A p \in Log!Of(r) : messages'[p] = messages[p]
      BY <2>4, OthersStay
    <3>2. PICK s : s = run[r]
      OBVIOUS
    <3>3. Registered(r, s, session)'
      BY <2>2, <3>1, <3>2, StaysRegistered
    <3> QED BY <2>2, <3>1, <3>2, <3>3 DEF Settled, Registered
  <2>5. CASE (\E q \in Run : Disconnect(q)) \/ Delete \/ UNCHANGED vars
    <3>1. UNCHANGED <<messages, run, obs>>
      BY <2>5 DEF Disconnect, Delete, vars
    <3>2. session = "deleted" => session' = "deleted"
      BY SessionMoves
    <3> QED BY <2>2, <3>1, <3>2 DEF Settled, Registered, Log!Of
  <2> QED BY <2>3, <2>4, <2>5 DEF Next, Crash
<1> QED BY <1>1, <1>2 DEF EInv, EndOK

-----------------------------------------------------------------------------
(* Theorems *)

\* Without faults the round-trip payloads of a run are kept while it lives and
\* cleared when it ends, unless the session was deleted or the stream cancelled
\* (round_trip_payload_scope around persist).
THEOREM PayloadsLive == ASSUME ~Faults PROVE Spec => []PayloadLife
<1>1. IInv /\ EInv => PayloadLife
  <2> SUFFICES ASSUME IInv, EInv, NEW p \in DOMAIN messages, messages[p].kind = "assistant"
               PROVE  LET r == messages[p].run
                      IN IF messages[p].payload = "none" THEN run[r].pc = "closed"
                         ELSE run[r].pc = "closed" => session = "deleted" \/ r \in gone
    BY DEF PayloadLife
  <2>1. messages[p] \in Message
    BY RowsTyped DEF IInv
  <2>2. messages[p].run \in Run /\ messages[p].payload \in {"none", "kept"}
    BY <2>1 DEF Message
  <2>3. messages[p].payload = "none" => run[messages[p].run].pc = "closed"
    BY <2>2 DEF IInv, RunOK, Fits, Log!Of
  <2>4. messages[p].payload = "kept" /\ run[messages[p].run].pc = "closed" =>
           session = "deleted" \/ messages[p].run \in gone
    <3>1. \/ messages[p].run \in gone
          \/ run[messages[p].run].pc = "closed" => run[messages[p].run].registered = {}
      BY <2>2 DEF EInv, EndOK, Settled, Settles, Holds
    <3> QED BY <2>2, <3>1 DEF EInv, EndOK, Registered, Log!Of
  <2> QED BY <2>2, <2>3, <2>4
<1> QED BY <1>1, Invariant, EndInit, EndStepInv, PTL DEF Spec

\* Without faults a run whose client stayed leaves no open span and no running
\* row: every way through observe closes what it opened.
THEOREM SpansSettled == ASSUME ~Faults PROVE Spec => []SpansSettle
<1>1. EInv => SpansSettle
  <2> SUFFICES ASSUME EInv, NEW r \in Run, run[r].pc = "closed", r \notin gone
               PROVE  obs[r].status # "running" /\ \A s \in SpanId : obs[r].span[s] # "open"
    BY DEF SpansSettle
  <2>1. Settles(run[r], obs[r])
    BY DEF EInv, EndOK, Settled
  <2>2. obs[r].status # "running"
    BY <2>1 DEF Settles, StatusIn, Ended
  <2>3. Owed(run[r]) = {}
    BY <2>1 DEF Settles, Holds, Owed, Spans, AskingModel, CallingTools, Leaving, Unwinding
  <2> QED BY <2>1, <2>2, <2>3 DEF Settles, OpenOf
<1> QED BY <1>1, Invariant, EndInit, EndStepInv, PTL DEF Spec

-----------------------------------------------------------------------------
(* The projection of a table that one run at a time has written *)

\* Whatever run was cut off where: a run begins with its question, and tool
\* results come right behind the answer that asked for them.
Proper(rows) ==
    /\ \A p \in DOMAIN rows :
          /\ rows[p].kind = "user" <=> rows[p].iteration = 0
          /\ rows[p].kind = "user" => rows[p].calls = {}
          /\ rows[p].kind = "tool" =>
                /\ p > 1 /\ rows[p - 1].kind = "assistant" /\ rows[p].calls # {}
                /\ rows[p - 1].run = rows[p].run
                /\ rows[p - 1].iteration = rows[p].iteration
                /\ rows[p - 1].calls = rows[p].calls
    /\ \A p, q \in DOMAIN rows : p < q /\ rows[p].run = rows[q].run =>
          \/ rows[p].iteration < rows[q].iteration
          \/ /\ rows[p].iteration = rows[q].iteration
             /\ rows[p].kind = "assistant" /\ rows[q].kind = "tool"

FreshResults ==
    [call : Call, run : Run, iteration : 0 .. HardCap, stored : BOOLEAN, masked : {FALSE}]

Inputs == [run : Run, iteration : 0 .. HardCap, kind : {"user", "assistant", "tool"},
           calls : SUBSET Call, results : SUBSET FreshResults]

\* What holds of the messages as they are put out, and stays so.
Whole(rows, out) ==
    /\ Legal(out)
    /\ OwnResults(rows, out)
    /\ \A k \in DOMAIN out :
          /\ out[k].calls # {} => out[k].kind = "assistant"
          /\ out[k].kind # "tool" => out[k].results = {}
          /\ \A x, y \in out[k].results : x.call = y.call => x = y

\* The loop after k rows.
Reached(rows, k, a) ==
    /\ a \in [out : Seq(Inputs), consumed : BOOLEAN]
    /\ Whole(rows, a.out)
    /\ a.consumed => k < Len(rows) /\ rows[k + 1].kind = "tool"
    /\ k > 0 /\ rows[k].kind = "user" =>
          a.out # <<>> /\ a.out[Len(a.out)] = Plain(rows[k])

LEMMA PlainIs ==
    ASSUME NEW row \in Message, NEW m, m = Plain(row)
    PROVE  /\ m \in Inputs /\ m.run = row.run /\ m.iteration = row.iteration /\ m.kind = row.kind
           /\ m.calls = (IF row.kind = "assistant" THEN row.calls ELSE {}) /\ m.results = {}
<1>1. /\ row.run \in Run /\ row.iteration \in 0 .. HardCap
      /\ row.kind \in {"user", "assistant", "tool"} /\ row.calls \in SUBSET Call
  BY DEF Message
<1>2. m = [run |-> row.run, iteration |-> row.iteration, kind |-> row.kind,
           calls |-> IF row.kind = "assistant" THEN row.calls ELSE {}, results |-> {}]
  BY DEF Plain
<1> QED BY <1>1, <1>2 DEF Inputs

\* A message without calls that is no tool message.
LEMMA WholeAppended ==
    ASSUME NEW rows, NEW out \in Seq(Inputs), Whole(rows, out), NEW m \in Inputs,
           m.calls = {}, m.kind # "tool", m.results = {}
    PROVE  Append(out, m) \in Seq(Inputs) /\ Whole(rows, Append(out, m))
<1>1. PICK g, n : g = Append(out, m) /\ n = Len(out)
  OBVIOUS
<1>2. /\ n \in Nat /\ g \in Seq(Inputs) /\ DOMAIN out = 1 .. n /\ Len(g) = n + 1
      /\ DOMAIN g = 1 .. n + 1 /\ g[n + 1] = m /\ \A k \in 1 .. n : g[k] = out[k]
      /\ \A k \in 1 .. n + 1 : k \in 1 .. n \/ k = n + 1
  BY <1>1
<1>3. ASSUME NEW k \in 1 .. n
      PROVE  /\ g[k].kind = "tool" => k > 1 /\ g[k - 1].calls # {}
             /\ g[k].calls # {} =>
                   /\ k < n /\ g[k + 1] = out[k + 1] /\ g[k + 1].kind = "tool"
                   /\ {x.call : x \in g[k + 1].results} = g[k].calls
  <2>1. k > 1 => k - 1 \in 1 .. n
    BY <1>2
  <2>2. k < n => k + 1 \in 1 .. n
    BY <1>2
  <2> QED BY <1>1, <1>2, <2>1, <2>2 DEF Whole, Legal
<1>4. Legal(g)
  <2>1. ASSUME NEW k \in 1 .. n + 1
        PROVE  /\ g[k].kind = "tool" => k > 1 /\ g[k - 1].calls # {}
               /\ g[k].calls # {} =>
                     /\ k < n + 1 /\ g[k + 1].kind = "tool"
                     /\ {x.call : x \in g[k + 1].results} = g[k].calls
    <3>1. CASE k \in 1 .. n
      BY <1>2, <1>3, <3>1
    <3>2. CASE k = n + 1
      BY <1>2, <3>2
    <3> QED BY <1>2, <3>1, <3>2
  <2> QED BY <1>2, <2>1 DEF Legal
<1>5. OwnResults(rows, g)
  <2>1. SUFFICES ASSUME NEW k \in 1 .. n + 1, g[k].calls # {}, NEW x \in g[k + 1].results
                 PROVE  /\ x.run = g[k].run /\ x.iteration = g[k].iteration
                        /\ ~x.stored => \A j \in DOMAIN rows : rows[j].kind = "tool" =>
                              rows[j].run # x.run \/ rows[j].iteration # x.iteration
    BY <1>2 DEF OwnResults
  <2>2. k \in 1 .. n
    BY <1>2, <2>1
  <2>3. g[k] = out[k] /\ g[k + 1] = out[k + 1]
    BY <1>2, <1>3, <2>1, <2>2
  <2> QED BY <1>2, <2>1, <2>2, <2>3 DEF Whole, OwnResults
<1> QED BY <1>1, <1>2, <1>4, <1>5 DEF Whole

\* An answer with calls and its results.
LEMMA WholePaired ==
    ASSUME NEW rows, NEW out \in Seq(Inputs), Whole(rows, out), NEW m \in Inputs, NEW t \in Inputs,
           m.kind = "assistant", m.calls # {}, m.results = {}, t.kind = "tool", t.calls = {},
           {x.call : x \in t.results} = m.calls,
           \A x, y \in t.results : x.call = y.call => x = y,
           \A x \in t.results :
              /\ x.run = m.run /\ x.iteration = m.iteration
              /\ ~x.stored => \A j \in DOMAIN rows : rows[j].kind = "tool" =>
                                 rows[j].run # x.run \/ rows[j].iteration # x.iteration
    PROVE  out \o <<m, t>> \in Seq(Inputs) /\ Whole(rows, out \o <<m, t>>)
<1>1. PICK g, n, s : g = out \o s /\ n = Len(out) /\ s = <<m, t>>
  OBVIOUS
<1>2. s \in Seq(Inputs) /\ Len(s) = 2 /\ s[1] = m /\ s[2] = t
  BY <1>1
<1>3. /\ n \in Nat /\ g \in Seq(Inputs) /\ DOMAIN out = 1 .. n /\ Len(g) = n + 2
      /\ DOMAIN g = 1 .. n + 2 /\ g[n + 1] = m /\ g[n + 2] = t
      /\ \A k \in 1 .. n : g[k] = out[k]
      /\ \A k \in 1 .. n + 2 : k \in 1 .. n \/ k = n + 1 \/ k = n + 2
  <2>1. n \in Nat /\ g \in Seq(Inputs) /\ DOMAIN out = 1 .. n /\ Len(g) = n + 2
    BY <1>1, <1>2
  <2>2. g[n + 1] = s[1] /\ g[n + 2] = s[2] /\ \A k \in 1 .. n : g[k] = out[k]
    BY <1>1, <1>2
  <2> QED BY <1>2, <2>1, <2>2
<1>4. ASSUME NEW k \in 1 .. n
      PROVE  /\ g[k].kind = "tool" => k > 1 /\ g[k - 1].calls # {}
             /\ g[k].calls # {} =>
                   /\ k < n /\ g[k + 1] = out[k + 1] /\ g[k + 1].kind = "tool"
                   /\ {x.call : x \in g[k + 1].results} = g[k].calls
  <2>1. k > 1 => k - 1 \in 1 .. n
    BY <1>3
  <2>2. k < n => k + 1 \in 1 .. n
    BY <1>3
  <2>3. /\ out[k].kind = "tool" => k > 1 /\ out[k - 1].calls # {}
        /\ out[k].calls # {} =>
              /\ k < n /\ out[k + 1].kind = "tool"
              /\ {x.call : x \in out[k + 1].results} = out[k].calls
    BY <1>1, <1>3 DEF Whole, Legal
  <2>4. g[k] = out[k] /\ (k > 1 => g[k - 1] = out[k - 1]) /\ (k < n => g[k + 1] = out[k + 1])
    BY <1>3, <2>1, <2>2
  <2> QED BY <2>3, <2>4
<1>5. Legal(g)
  <2>1. ASSUME NEW k \in 1 .. n + 2
        PROVE  /\ g[k].kind = "tool" => k > 1 /\ g[k - 1].calls # {}
               /\ g[k].calls # {} =>
                     /\ k < n + 2 /\ g[k + 1].kind = "tool"
                     /\ {x.call : x \in g[k + 1].results} = g[k].calls
    <3>1. CASE k \in 1 .. n
      BY <1>3, <1>4, <3>1
    <3>2. CASE k = n + 1
      <4>1. k + 1 = n + 2 /\ g[k] = m /\ g[k + 1] = t
        BY <1>3, <3>2
      <4> QED BY <1>3, <3>2, <4>1
    <3>3. CASE k = n + 2
      <4>1. k - 1 = n + 1 /\ g[k] = t /\ g[k - 1] = m
        BY <1>3, <3>3
      <4> QED BY <1>3, <3>3, <4>1
    <3> QED BY <1>3, <3>1, <3>2, <3>3
  <2> QED BY <1>3, <2>1 DEF Legal
<1>6. OwnResults(rows, g)
  <2>1. SUFFICES ASSUME NEW k \in 1 .. n + 2, g[k].calls # {}, NEW x \in g[k + 1].results
                 PROVE  /\ x.run = g[k].run /\ x.iteration = g[k].iteration
                        /\ ~x.stored => \A j \in DOMAIN rows : rows[j].kind = "tool" =>
                              rows[j].run # x.run \/ rows[j].iteration # x.iteration
    BY <1>3 DEF OwnResults
  <2>2. CASE k \in 1 .. n
    <3>1. g[k] = out[k] /\ g[k + 1] = out[k + 1]
      BY <1>3, <1>4, <2>1, <2>2
    <3> QED BY <1>3, <2>1, <2>2, <3>1 DEF Whole, OwnResults
  <2>3. CASE k = n + 1
    <3>1. g[k] = m /\ g[k + 1] = t
      BY <1>3, <2>3
    <3> QED BY <2>1, <3>1
  <2> QED BY <1>3, <2>1, <2>2, <2>3
<1>7. ASSUME NEW k \in 1 .. n + 2
      PROVE  /\ g[k].calls # {} => g[k].kind = "assistant"
             /\ g[k].kind # "tool" => g[k].results = {}
             /\ \A x, y \in g[k].results : x.call = y.call => x = y
  BY <1>3 DEF Whole
<1> QED BY <1>1, <1>3, <1>5, <1>6, <1>7 DEF Whole

LEMMA RepairIs ==
    ASSUME NEW row \in Message, NEW source \in Message, NEW existing \in SUBSET Call,
           existing \subseteq row.calls
    PROVE  /\ Repair(row, existing, source) \in SUBSET FreshResults
           /\ {x.call : x \in Repair(row, existing, source)} = row.calls
           /\ \A x, y \in Repair(row, existing, source) : x.call = y.call => x = y
           /\ \A x \in Repair(row, existing, source) :
                 IF x.call \in existing
                 THEN x.stored /\ x.run = source.run /\ x.iteration = source.iteration
                 ELSE ~x.stored /\ x.run = row.run /\ x.iteration = row.iteration
<1>1. /\ row.run \in Run /\ row.iteration \in 0 .. HardCap /\ row.calls \in SUBSET Call
      /\ source.run \in Run /\ source.iteration \in 0 .. HardCap
  BY DEF Message
<1>2. ASSUME NEW c \in Call
      PROVE  /\ Result(c, source, TRUE) \in FreshResults /\ Result(c, row, FALSE) \in FreshResults
             /\ Result(c, source, TRUE).call = c /\ Result(c, row, FALSE).call = c
             /\ Result(c, source, TRUE).stored = TRUE /\ Result(c, row, FALSE).stored = FALSE
             /\ Result(c, source, TRUE).run = source.run
             /\ Result(c, source, TRUE).iteration = source.iteration
             /\ Result(c, row, FALSE).run = row.run
             /\ Result(c, row, FALSE).iteration = row.iteration
  BY <1>1 DEF Result, FreshResults
<1>3. \A x : x \in Repair(row, existing, source) <=>
                \E c \in row.calls : x = IF c \in existing THEN Result(c, source, TRUE)
                                         ELSE Result(c, row, FALSE)
  BY DEF Repair
<1>4. ASSUME NEW x \in Repair(row, existing, source)
      PROVE  /\ x \in FreshResults /\ x.call \in row.calls
             /\ x = IF x.call \in existing THEN Result(x.call, source, TRUE)
                    ELSE Result(x.call, row, FALSE)
  <2>1. PICK c \in row.calls : x = IF c \in existing THEN Result(c, source, TRUE)
                                   ELSE Result(c, row, FALSE)
    BY <1>3
  <2>2. c \in Call /\ x.call = c
    BY <1>1, <1>2, <2>1
  <2> QED BY <1>2, <2>1, <2>2
<1>5. \A c \in row.calls : \E x \in Repair(row, existing, source) : x.call = c
  BY <1>1, <1>2, <1>3
<1>6. Repair(row, existing, source) \in SUBSET FreshResults
  BY <1>4
<1>7. {x.call : x \in Repair(row, existing, source)} = row.calls
  BY <1>4, <1>5
<1>8. \A x, y \in Repair(row, existing, source) : x.call = y.call => x = y
  BY <1>4
<1>9. ASSUME NEW x \in Repair(row, existing, source)
      PROVE  IF x.call \in existing
             THEN x.stored /\ x.run = source.run /\ x.iteration = source.iteration
             ELSE ~x.stored /\ x.run = row.run /\ x.iteration = row.iteration
  <2>1. x.call \in Call
    BY <1>1, <1>4
  <2>2. CASE x.call \in existing
    BY <1>2, <1>4, <2>1, <2>2
  <2>3. CASE x.call \notin existing
    BY <1>2, <1>4, <2>1, <2>3
  <2> QED BY <2>2, <2>3
<1> QED BY <1>6, <1>7, <1>8, <1>9

\* The answer of row k with its results.
LEMMA AnswerProjected ==
    ASSUME NEW rows \in Seq(Message), Proper(rows), NEW k \in DOMAIN rows,
           rows[k].kind = "assistant", rows[k].calls # {}, NEW out \in Seq(Inputs),
           Whole(rows, out), NEW paired, paired <=> k < Len(rows) /\ rows[k + 1].kind = "tool",
           NEW results,
           results = IF paired THEN Repair(rows[k], rows[k + 1].calls, rows[k + 1])
                     ELSE Repair(rows[k], {}, rows[k]),
           NEW t, t = [Plain(rows[k]) EXCEPT !.kind = "tool", !.calls = {}, !.results = results]
    PROVE  out \o <<Plain(rows[k]), t>> \in Seq(Inputs) /\ Whole(rows, out \o <<Plain(rows[k]), t>>)
<1>1. PICK row, m : row = rows[k] /\ m = Plain(rows[k])
  OBVIOUS
<1>2. row \in Message /\ DOMAIN rows = 1 .. Len(rows) /\ Len(rows) \in Nat /\ k \in 1 .. Len(rows)
  BY <1>1
<1>3. /\ m \in Inputs /\ m.run = row.run /\ m.iteration = row.iteration /\ m.kind = "assistant"
      /\ m.calls = row.calls /\ m.results = {}
  BY <1>1, <1>2, PlainIs
<1>4. /\ results \in SUBSET FreshResults /\ {x.call : x \in results} = row.calls
      /\ \A x, y \in results : x.call = y.call => x = y
      /\ \A x \in results : /\ x.run = m.run /\ x.iteration = m.iteration
                            /\ ~x.stored => \A j \in DOMAIN rows : rows[j].kind = "tool" =>
                                  rows[j].run # x.run \/ rows[j].iteration # x.iteration
  <2>1. CASE paired
    <3>1. PICK next : next = rows[k + 1]
      OBVIOUS
    <3>2. k + 1 \in DOMAIN rows /\ next.kind = "tool" /\ (k + 1) - 1 = k
      BY <1>2, <2>1, <3>1
    <3>3. next \in Message /\ next.calls = row.calls /\ next.run = row.run
          /\ next.iteration = row.iteration
      BY <1>1, <3>1, <3>2 DEF Proper
    <3>4. results = Repair(row, next.calls, next) /\ next.calls \in SUBSET Call
      BY <1>1, <2>1, <3>1, <3>3 DEF Message
    <3>5. \A x \in results : x.call \in next.calls
      BY <1>2, <3>3, <3>4, RepairIs
    <3> QED BY <1>2, <1>3, <3>3, <3>4, <3>5, RepairIs
  <2>2. CASE ~paired
    <3>1. results = Repair(row, {}, row)
      BY <1>1, <2>2
    <3>2. \A j \in DOMAIN rows : rows[j].kind = "tool" =>
             rows[j].run # row.run \/ rows[j].iteration # row.iteration
      <4>1. SUFFICES ASSUME NEW j \in DOMAIN rows, rows[j].kind = "tool",
                            rows[j].run = row.run, rows[j].iteration = row.iteration
                     PROVE  FALSE
        OBVIOUS
      <4>2. /\ j \in 1 .. Len(rows) /\ j > 1 /\ j - 1 \in DOMAIN rows
            /\ rows[j - 1].kind = "assistant" /\ rows[j - 1].run = row.run
            /\ rows[j - 1].iteration = row.iteration
        BY <1>2, <4>1 DEF Proper
      <4>3. row.iteration \in Nat
        BY <1>2, HardCapPositive DEF Message
      <4>4. j - 1 = k
        <5>1. PICK i \in 1 .. Len(rows) : i = j - 1
          BY <1>2, <4>2
        <5>2. \A p, q \in DOMAIN rows : ~(/\ p < q /\ rows[p].run = rows[q].run
                                          /\ rows[p].iteration = row.iteration
                                          /\ rows[q].iteration = row.iteration
                                          /\ rows[q].kind = "assistant")
          BY <4>3 DEF Proper
        <5>3. ~(i < k) /\ ~(k < i)
          BY <1>1, <1>2, <4>2, <5>1, <5>2
        <5> QED BY <1>2, <5>1, <5>3
      <4>5. k + 1 = j /\ k < Len(rows)
        BY <1>2, <4>2, <4>4
      <4> QED BY <2>2, <4>1, <4>5
    <3> QED BY <1>2, <1>3, <3>1, <3>2, RepairIs
  <2> QED BY <2>1, <2>2
<1>5. /\ t \in Inputs /\ t.kind = "tool" /\ t.calls = {} /\ t.results = results
  BY <1>1, <1>3, <1>4 DEF Inputs
<1>6. out \o <<m, t>> \in Seq(Inputs) /\ Whole(rows, out \o <<m, t>>)
  <2>1. /\ {x.call : x \in t.results} = m.calls
        /\ \A x, y \in t.results : x.call = y.call => x = y
        /\ m.calls # {} /\ m.kind = "assistant"
    BY <1>1, <1>3, <1>4, <1>5
  <2>2. \A x \in t.results :
           /\ x.run = m.run /\ x.iteration = m.iteration
           /\ ~x.stored => \A j \in DOMAIN rows : rows[j].kind = "tool" =>
                              rows[j].run # x.run \/ rows[j].iteration # x.iteration
    BY <1>4, <1>5
  <2> QED BY <1>3, <1>5, <2>1, <2>2, WholePaired
<1> QED BY <1>1, <1>6

LEMMA RowProjected ==
    ASSUME NEW rows \in Seq(Message), Proper(rows), NEW k \in 1 .. Len(rows), NEW a,
           Reached(rows, k - 1, a)
    PROVE  Reached(rows, k, ProjectRow(rows, a, k))
<1>1. PICK row, out, paired, results, m, t, b :
        /\ row = rows[k] /\ out = a.out /\ m = Plain(rows[k])
        /\ paired = (k < Len(rows) /\ rows[k + 1].kind = "tool")
        /\ results = IF paired THEN Repair(rows[k], rows[k + 1].calls, rows[k + 1])
                     ELSE Repair(rows[k], {}, rows[k])
        /\ t = [Plain(rows[k]) EXCEPT !.kind = "tool", !.calls = {}, !.results = results]
        /\ b = ProjectRow(rows, a, k)
  OBVIOUS
<1>2. /\ k \in DOMAIN rows /\ k \in Nat /\ k > 0 /\ Len(rows) \in Nat /\ row \in Message
      /\ a \in [out : Seq(Inputs), consumed : BOOLEAN] /\ out \in Seq(Inputs)
      /\ Whole(rows, out) /\ (k - 1) + 1 = k
      /\ row.kind \in {"user", "assistant", "tool"}
  <2>1. k \in DOMAIN rows /\ k \in Nat /\ k > 0 /\ Len(rows) \in Nat /\ (k - 1) + 1 = k
    OBVIOUS
  <2>2. a \in [out : Seq(Inputs), consumed : BOOLEAN] /\ Whole(rows, a.out)
    BY DEF Reached
  <2>3. row \in Message
    BY <1>1, <2>1
  <2>4. out \in Seq(Inputs) /\ Whole(rows, out)
    BY <1>1, <2>2
  <2> QED BY <2>1, <2>2, <2>3, <2>4 DEF Message
<1>3. b = IF a.consumed THEN [a EXCEPT !.consumed = FALSE]
          ELSE IF row.kind = "tool" /\ (out = <<>> \/ out[Len(out)].calls = {}) THEN a
          ELSE IF m.calls = {} THEN [a EXCEPT !.out = Append(out, m)]
          ELSE [out |-> out \o <<m, t>>, consumed |-> paired]
  BY <1>1 DEF ProjectRow
<1>4. /\ m \in Inputs /\ m.run = row.run /\ m.iteration = row.iteration /\ m.kind = row.kind
      /\ m.calls = (IF row.kind = "assistant" THEN row.calls ELSE {}) /\ m.results = {}
  BY <1>1, <1>2, PlainIs
<1>5. CASE a.consumed
  <2>1. row.kind = "tool"
    BY <1>1, <1>2, <1>5 DEF Reached
  <2>2. /\ b \in [out : Seq(Inputs), consumed : BOOLEAN] /\ b.out = out /\ b.consumed = FALSE
    BY <1>1, <1>2, <1>3, <1>5
  <2> QED BY <1>1, <1>2, <2>1, <2>2 DEF Reached
<1>6. CASE ~a.consumed /\ row.kind = "tool"
  <2>1. out = <<>> \/ out[Len(out)].calls = {}
    <3>1. CASE out # <<>>
      <4>1. Len(out) \in DOMAIN out /\ ~(Len(out) < Len(out))
        BY <1>2, <3>1
      <4> QED BY <1>2, <4>1 DEF Whole, Legal
    <3> QED BY <3>1
  <2>2. b = a
    BY <1>3, <1>6, <2>1
  <2> QED BY <1>1, <1>2, <1>6, <2>2 DEF Reached
<1>7. CASE ~a.consumed /\ row.kind # "tool" /\ m.calls = {}
  <2>1. b = [a EXCEPT !.out = Append(out, m)]
    BY <1>3, <1>7
  <2>2. Append(out, m) \in Seq(Inputs) /\ Whole(rows, Append(out, m))
    BY <1>2, <1>4, <1>7, WholeAppended
  <2>3. /\ b \in [out : Seq(Inputs), consumed : BOOLEAN] /\ b.out = Append(out, m)
        /\ b.consumed = FALSE
    <3>1. PICK more : more = Append(out, m)
      OBVIOUS
    <3>2. more \in Seq(Inputs) /\ b = [a EXCEPT !.out = more]
      BY <2>1, <2>2, <3>1
    <3> QED BY <1>2, <1>7, <3>1, <3>2
  <2>4. Append(out, m) # <<>> /\ Append(out, m)[Len(Append(out, m))] = m
    <3>1. PICK n, more : n = Len(out) /\ more = Append(out, m)
      OBVIOUS
    <3>2. n \in Nat /\ Len(more) = n + 1 /\ more[n + 1] = m
      BY <1>2, <1>4, <3>1
    <3> QED BY <3>1, <3>2
  <2> QED BY <1>1, <1>2, <2>2, <2>3, <2>4 DEF Reached
<1>8. CASE ~a.consumed /\ row.kind # "tool" /\ m.calls # {}
  <2>1. b = [out |-> out \o <<m, t>>, consumed |-> paired]
    BY <1>3, <1>8
  <2>2. row.kind = "assistant" /\ row.calls # {}
    BY <1>4, <1>8
  <2>3. out \o <<m, t>> \in Seq(Inputs) /\ Whole(rows, out \o <<m, t>>)
    BY <1>1, <1>2, <2>2, AnswerProjected
  <2>4. paired \in BOOLEAN
    BY <1>1
  <2>5. b \in [out : Seq(Inputs), consumed : BOOLEAN] /\ b.out = out \o <<m, t>> /\ b.consumed = paired
    BY <2>1, <2>3, <2>4
  <2> QED BY <1>1, <1>2, <2>2, <2>3, <2>5 DEF Reached
<1> QED BY <1>1, <1>5, <1>6, <1>7, <1>8

\* The loop is defined for every table.
IsLoop(rows, g, m) ==
    g = [k \in 0 .. m |-> IF k = 0 THEN [out |-> <<>>, consumed |-> FALSE]
                          ELSE ProjectRow(rows, g[k - 1], k)]

LEMMA LoopExists ==
    ASSUME NEW rows, NEW m \in Nat
    PROVE  \E g : IsLoop(rows, g, m)
<1>1. SUFFICES ASSUME NEW b \in Nat, ~\E g : IsLoop(rows, g, b),
                      \A i \in 0 .. b - 1 : \E g : IsLoop(rows, g, i)
               PROVE  FALSE
  <2>1. SUFFICES ASSUME ~\E g : IsLoop(rows, g, m) PROVE FALSE
    OBVIOUS
  <2> DEFINE Bad == {i \in Nat : ~\E g : IsLoop(rows, g, i)}
  <2>2. Bad \subseteq Nat /\ Bad # {}
    BY <2>1
  <2>3. \E b \in Bad : \A j \in Bad : ~(<<j, b>> \in OpToRel(<, Nat))
    BY <2>2, NatLessThanWellFounded, WFMin
  <2>4. PICK b \in Bad : \A j \in Bad : ~(j < b)
    BY <2>2, <2>3 DEF OpToRel
  <2> QED BY <1>1, <2>4
<1>2. CASE b = 0
  <2>1. IsLoop(rows, [k \in 0 .. 0 |-> [out |-> <<>>, consumed |-> FALSE]], 0)
    BY DEF IsLoop
  <2> QED BY <1>1, <1>2, <2>1
<1>3. CASE b # 0
  <2>1. b - 1 \in 0 .. b - 1
    BY <1>3
  <2>2. PICK f : IsLoop(rows, f, b - 1)
    BY <1>1, <2>1
  <2> DEFINE g == [k \in 0 .. b |-> IF k = b THEN ProjectRow(rows, f[b - 1], b) ELSE f[k]]
  <2>3. ASSUME NEW k \in 0 .. b
        PROVE  g[k] = IF k = 0 THEN [out |-> <<>>, consumed |-> FALSE]
                      ELSE ProjectRow(rows, g[k - 1], k)
    <3>1. CASE k = 0
      BY <1>3, <2>2, <3>1 DEF IsLoop
    <3>2. CASE k # 0
      <4>1. k - 1 \in 0 .. b - 1 /\ k - 1 # b /\ k - 1 \in 0 .. b
        BY <3>2
      <4>2. g[k - 1] = f[k - 1]
        BY <4>1
      <4>3. CASE k = b
        BY <3>2, <4>2, <4>3
      <4>4. CASE k # b
        <5>1. k \in 0 .. b - 1
          BY <4>4
        <5>2. f[k] = ProjectRow(rows, f[k - 1], k)
          BY <2>2, <3>2, <5>1 DEF IsLoop
        <5> QED BY <3>2, <4>2, <4>4, <5>2
      <4> QED BY <4>3, <4>4
    <3> QED BY <3>1, <3>2
  <2>4. g = [k \in 0 .. b |-> IF k = 0 THEN [out |-> <<>>, consumed |-> FALSE]
                              ELSE ProjectRow(rows, g[k - 1], k)]
    BY <2>3
  <2> HIDE DEF g
  <2>5. IsLoop(rows, g, b)
    BY <2>4 DEF IsLoop
  <2> QED BY <1>1, <2>5
<1> QED BY <1>2, <1>3

LEMMA LoopIs ==
    ASSUME NEW rows \in Seq(Message)
    PROVE  /\ Loop(rows)[0] = [out |-> <<>>, consumed |-> FALSE]
           /\ \A k \in 1 .. Len(rows) : Loop(rows)[k] = ProjectRow(rows, Loop(rows)[k - 1], k)
<1>1. Len(rows) \in Nat
  OBVIOUS
<1>2. \E g : g = [k \in 0 .. Len(rows) |-> IF k = 0 THEN [out |-> <<>>, consumed |-> FALSE]
                                           ELSE ProjectRow(rows, g[k - 1], k)]
  BY <1>1, LoopExists DEF IsLoop
<1>3. PICK f : f = Loop(rows)
  OBVIOUS
<1>4. f = [k \in 0 .. Len(rows) |-> IF k = 0 THEN [out |-> <<>>, consumed |-> FALSE]
                                    ELSE ProjectRow(rows, f[k - 1], k)]
  BY <1>2, <1>3 DEF Loop
<1>5. f[0] = [out |-> <<>>, consumed |-> FALSE]
  BY <1>1, <1>4
<1>6. \A k \in 1 .. Len(rows) : k \in 0 .. Len(rows) /\ k # 0
  BY <1>1
<1>7. \A k \in 1 .. Len(rows) : f[k] = ProjectRow(rows, f[k - 1], k)
  BY <1>4, <1>6
<1> QED BY <1>3, <1>5, <1>7

LEMMA Projected ==
    ASSUME NEW rows \in Seq(Message), Proper(rows)
    PROVE  Reached(rows, Len(rows), Loop(rows)[Len(rows)])
<1>1. SUFFICES ASSUME NEW b \in 0 .. Len(rows), ~Reached(rows, b, Loop(rows)[b]),
                      \A i \in 0 .. b - 1 : Reached(rows, i, Loop(rows)[i])
               PROVE  FALSE
  <2>1. SUFFICES ASSUME ~Reached(rows, Len(rows), Loop(rows)[Len(rows)]) PROVE FALSE
    OBVIOUS
  <2> DEFINE Bad == {i \in 0 .. Len(rows) : ~Reached(rows, i, Loop(rows)[i])}
  <2>2. Bad \subseteq Nat /\ Bad # {}
    BY <2>1
  <2>3. \E b \in Bad : \A j \in Bad : ~(<<j, b>> \in OpToRel(<, Nat))
    BY <2>2, NatLessThanWellFounded, WFMin
  <2>4. PICK b \in Bad : \A j \in Bad : ~(j < b)
    BY <2>2, <2>3 DEF OpToRel
  <2>5. \A i \in 0 .. b - 1 : Reached(rows, i, Loop(rows)[i])
    BY <2>4
  <2> QED BY <1>1, <2>4, <2>5
<1>2. CASE b = 0
  <2>1. Loop(rows)[b] = [out |-> <<>>, consumed |-> FALSE]
    BY <1>2, LoopIs
  <2>2. Whole(rows, <<>>)
    BY DEF Whole, Legal, OwnResults
  <2> QED BY <1>1, <1>2, <2>1, <2>2 DEF Reached
<1>3. CASE b # 0
  <2>1. b \in 1 .. Len(rows) /\ b - 1 \in 0 .. b - 1
    BY <1>3
  <2> QED BY <1>1, <2>1, LoopIs, RowProjected
<1> QED BY <1>2, <1>3

-----------------------------------------------------------------------------
(* The latest results are the readable ones *)

LEMMA TurnIs ==
    ASSUME NEW out \in Seq(Inputs)
    PROVE  /\ IsFiniteSet(CallsIn(out))
           /\ Turn(out) \in [CallsIn(out) -> 1 .. Cardinality(CallsIn(out))]
           /\ \A c, d \in CallsIn(out) : Turn(out)[c] = Turn(out)[d] => c = d
<1>1. CallsIn(out) \in SUBSET Call
  <2>1. \A k \in DOMAIN out : out[k] \in Inputs
    OBVIOUS
  <2>2. \A k \in DOMAIN out : out[k].calls \in SUBSET Call
    BY <2>1 DEF Inputs
  <2> QED BY <2>2 DEF CallsIn
<1>2. IsFiniteSet(CallsIn(out))
  BY <1>1, CallsAreFinite, FS_Subset
<1>3. PICK S, m : S = CallsIn(out) /\ m = Cardinality(S)
  OBVIOUS
<1>4. ExistsBijection(1 .. m, S)
  BY <1>2, <1>3, FS_CardinalityType
<1>5. ExistsBijection(S, 1 .. m)
  BY <1>4, Fun_ExistsBijSymmetric
<1>6. \E turn \in [S -> 1 .. m] : \A c, d \in S : turn[c] = turn[d] => c = d
  BY <1>5 DEF ExistsBijection, Bijection, Injection, IsInjective
<1>7. Turn(out) = CHOOSE turn \in [S -> 1 .. m] : \A c, d \in S : turn[c] = turn[d] => c = d
  BY <1>3 DEF Turn
<1> QED BY <1>2, <1>3, <1>6, <1>7

\* Of two pairs one is later, and fewer are later than the later one.
LEMMA LaterOrders ==
    ASSUME NEW out \in Seq(Inputs)
    PROVE  /\ IsFiniteSet(Pairs(out))
           /\ \A p \in Pairs(out) : IsFiniteSet(Later(out, p)) /\ Cardinality(Later(out, p)) \in Nat
           /\ \A p \in Pairs(out) : Later(out, p) \subseteq Pairs(out)
           /\ \A p, q \in Pairs(out) : p[1] < q[1] => q \in Later(out, p)
           /\ \A p, q \in Pairs(out) : p # q => p \in Later(out, q) \/ q \in Later(out, p)
           /\ \A p, q \in Pairs(out) : q \in Later(out, p) =>
                 Cardinality(Later(out, q)) < Cardinality(Later(out, p))
<1>1. PICK P, C, turn, n, m : /\ P = Pairs(out) /\ C = CallsIn(out) /\ turn = Turn(out)
                              /\ n = Len(out) /\ m = Cardinality(C)
  OBVIOUS
<1>2. /\ n \in Nat /\ IsFiniteSet(C) /\ turn \in [C -> 1 .. m]
      /\ \A c, d \in C : turn[c] = turn[d] => c = d
  BY <1>1, TurnIs
<1>3. m \in Nat
  BY <1>1, <1>2, FS_CardinalityType
<1>4. P \in SUBSET ((2 .. n) \X C)
  BY <1>1 DEF Pairs
<1>5. \A p \in P : /\ p[1] \in Int /\ p[2] \in C /\ turn[p[2]] \in Int /\ p = <<p[1], p[2]>>
  BY <1>2, <1>3, <1>4
<1>6. IsFiniteSet(P)
  <2>1. IsFiniteSet(2 .. n)
    BY <1>2, FS_Interval
  <2>2. IsFiniteSet((2 .. n) \X C)
    BY <1>2, <2>1, FS_Product
  <2> QED BY <1>4, <2>2, FS_Subset
<1>7. \A p, q \in P : q \in Later(out, p) <=>
         q[1] > p[1] \/ (q[1] = p[1] /\ turn[q[2]] > turn[p[2]])
  BY <1>1 DEF Later
<1>8. \A p : Later(out, p) \subseteq P
  BY <1>1 DEF Later
<1>9. \A p \in P : IsFiniteSet(Later(out, p)) /\ Cardinality(Later(out, p)) \in Nat
  BY <1>6, <1>8, FS_Subset, FS_CardinalityType
<1>10. \A p, q \in P : p # q => p \in Later(out, q) \/ q \in Later(out, p)
  BY <1>2, <1>5, <1>7
<1>11. ASSUME NEW p \in P, NEW q \in P, q \in Later(out, p)
       PROVE  Cardinality(Later(out, q)) < Cardinality(Later(out, p))
  <2>1. PICK L, K : L = Later(out, q) /\ K = Later(out, p)
    OBVIOUS
  <2>2. q \notin L /\ q \in K
    BY <1>5, <1>7, <1>11, <2>1
  <2>3. ASSUME NEW s \in L PROVE s \in K
    <3>1. s \in P
      BY <1>8, <2>1
    <3> QED BY <1>5, <1>7, <1>11, <2>1, <3>1
  <2>4. L \in SUBSET K /\ L # K
    BY <2>2, <2>3
  <2>5. IsFiniteSet(K) /\ Cardinality(K) \in Nat /\ Cardinality(L) \in Nat
    BY <1>9, <2>1
  <2>6. Cardinality(L) <= Cardinality(K) /\ Cardinality(L) # Cardinality(K)
    BY <2>4, <2>5, FS_Subset
  <2> QED BY <2>1, <2>5, <2>6
<1>12. \A p, q \in P : p[1] < q[1] => q \in Later(out, p)
  BY <1>5, <1>7
<1> QED BY <1>1, <1>6, <1>8, <1>9, <1>10, <1>11, <1>12

Results ==
    [call : Call, run : Run, iteration : 0 .. HardCap, stored : BOOLEAN, masked : BOOLEAN]

Outputs == [run : Run, iteration : 0 .. HardCap, kind : {"user", "assistant", "tool"},
            calls : SUBSET Call, results : SUBSET Results]

\* The pairs whose result loses its text.
Lost(out, window) == {p \in Pairs(out) : Cardinality(Later(out, p)) >= window}

\* What masking leaves of x, which makes it y.
Veiled(out, window, k, x, y) ==
    /\ x.call = y.call /\ x.run = y.run /\ x.iteration = y.iteration /\ x.stored = y.stored
    /\ y.masked <=> <<k, y.call>> \in Lost(out, window)

Masks(out, window, m, k) ==
    /\ m[k].run = out[k].run /\ m[k].iteration = out[k].iteration
    /\ m[k].kind = out[k].kind /\ m[k].calls = out[k].calls
    /\ m[k].results \in SUBSET Results
    /\ out[k].results = {} => m[k] = out[k]
    /\ \A y \in m[k].results : \E x \in out[k].results :
          /\ Veiled(out, window, k, x, y)
          /\ y = [x EXCEPT !.masked = <<k, x.call>> \in Lost(out, window)]
    /\ \A x \in out[k].results : \E y \in m[k].results : Veiled(out, window, k, x, y)

LEMMA MaskIs ==
    ASSUME NEW out \in Seq(Inputs), NEW window, NEW m, m = Mask(out, window)
    PROVE  /\ m \in Seq(Outputs) /\ Len(m) = Len(out) /\ DOMAIN m = DOMAIN out
           /\ \A k \in DOMAIN out : Masks(out, window, m, k)
<1>1. PICK lost, n : lost = Lost(out, window) /\ n = Len(out)
  OBVIOUS
<1>2. n \in Nat /\ DOMAIN out = 1 .. n
  BY <1>1
<1>3. m = [k \in 1 .. n |->
             [out[k] EXCEPT !.results = {[x EXCEPT !.masked = <<k, x.call>> \in lost] : x \in @}]]
  BY <1>1, <1>2 DEF Mask, Lost
<1>4. ASSUME NEW k \in 1 .. n
      PROVE  m[k] \in Outputs /\ Masks(out, window, m, k)
  <2>1. PICK o, rs : o = out[k] /\ rs = {[x EXCEPT !.masked = <<k, x.call>> \in lost] : x \in o.results}
    OBVIOUS
  <2>2. o \in Inputs /\ m[k] = [o EXCEPT !.results = rs]
    BY <1>2, <1>3, <2>1
  <2>3. \A x \in o.results : x \in FreshResults
    BY <2>2 DEF Inputs
  <2>4. ASSUME NEW x \in FreshResults, NEW y, y = [x EXCEPT !.masked = <<k, x.call>> \in lost]
        PROVE  y \in Results /\ Veiled(out, window, k, x, y)
    <3>1. PICK b \in BOOLEAN : b <=> <<k, x.call>> \in lost
      OBVIOUS
    <3>2. y = [x EXCEPT !.masked = b]
      BY <2>4, <3>1
    <3>3. /\ y \in Results /\ x.call = y.call /\ x.run = y.run /\ x.iteration = y.iteration
          /\ x.stored = y.stored /\ y.masked = b
      BY <3>2 DEF FreshResults, Results
    <3> QED BY <1>1, <3>1, <3>3 DEF Veiled
  <2>5. rs \in SUBSET Results
    BY <2>1, <2>3, <2>4
  <2>6. /\ m[k] \in Outputs /\ m[k].run = o.run /\ m[k].iteration = o.iteration
        /\ m[k].kind = o.kind /\ m[k].calls = o.calls /\ m[k].results = rs
    BY <2>2, <2>5 DEF Inputs, Outputs
  <2>7. ASSUME o.results = {} PROVE m[k] = o
    <3>1. rs = {}
      BY <2>1, <2>7
    <3> QED BY <2>2, <2>7, <3>1 DEF Inputs
  <2>8. \A y \in rs : \E x \in o.results :
           Veiled(out, window, k, x, y) /\ y = [x EXCEPT !.masked = <<k, x.call>> \in lost]
    BY <2>1, <2>3, <2>4
  <2>9. \A x \in o.results : \E y \in rs : Veiled(out, window, k, x, y)
    BY <2>1, <2>3, <2>4
  <2>10. out[k] = o /\ m[k].results = rs /\ lost = Lost(out, window)
    BY <1>1, <2>1, <2>6
  <2>11. \A y \in m[k].results : \E x \in out[k].results :
            Veiled(out, window, k, x, y) /\ y = [x EXCEPT !.masked = <<k, x.call>> \in Lost(out, window)]
    BY <2>8, <2>10
  <2>12. \A x \in out[k].results : \E y \in m[k].results : Veiled(out, window, k, x, y)
    BY <2>9, <2>10
  <2>13. /\ m[k].run = out[k].run /\ m[k].iteration = out[k].iteration
         /\ m[k].kind = out[k].kind /\ m[k].calls = out[k].calls
         /\ m[k].results \in SUBSET Results
         /\ out[k].results = {} => m[k] = out[k]
    BY <2>5, <2>6, <2>7, <2>10
  <2> QED BY <2>6, <2>11, <2>12, <2>13 DEF Masks
<1>5. m \in [1 .. n -> Outputs]
  BY <1>3, <1>4
<1>6. m \in Seq(Outputs) /\ Len(m) = n /\ DOMAIN m = 1 .. n
  BY <1>2, <1>5
<1> QED BY <1>1, <1>2, <1>4, <1>6

\* Masking takes nothing but text.
LEMMA MaskKeeps ==
    ASSUME NEW rows, NEW out \in Seq(Inputs), Whole(rows, out), NEW window
    PROVE  Legal(Mask(out, window)) /\ OwnResults(rows, Mask(out, window))
<1>1. PICK m, n : m = Mask(out, window) /\ n = Len(out)
  OBVIOUS
<1>2. n \in Nat /\ DOMAIN out = 1 .. n /\ Len(m) = n /\ DOMAIN m = 1 .. n
  BY <1>1, MaskIs
<1>3. ASSUME NEW k \in 1 .. n
      PROVE  /\ m[k].run = out[k].run /\ m[k].iteration = out[k].iteration
             /\ m[k].kind = out[k].kind /\ m[k].calls = out[k].calls
             /\ {y.call : y \in m[k].results} = {x.call : x \in out[k].results}
             /\ \A y \in m[k].results : \E x \in out[k].results :
                   x.run = y.run /\ x.iteration = y.iteration /\ x.stored = y.stored
  <2>1. /\ m[k].run = out[k].run /\ m[k].iteration = out[k].iteration
        /\ m[k].kind = out[k].kind /\ m[k].calls = out[k].calls
        /\ \A y \in m[k].results : \E x \in out[k].results : Veiled(out, window, k, x, y)
        /\ \A x \in out[k].results : \E y \in m[k].results : Veiled(out, window, k, x, y)
    <3>1. Masks(out, window, m, k)
      BY <1>1, <1>2, MaskIs
    <3> QED BY <3>1 DEF Masks
  <2>2. {y.call : y \in m[k].results} = {x.call : x \in out[k].results}
    <3>1. /\ \A y \in m[k].results : \E x \in out[k].results : x.call = y.call
          /\ \A x \in out[k].results : \E y \in m[k].results : x.call = y.call
      BY <2>1 DEF Veiled
    <3> QED BY <3>1
  <2> QED BY <2>1, <2>2 DEF Veiled
<1>4. Legal(m)
  <2>1. SUFFICES ASSUME NEW k \in 1 .. n
                 PROVE  /\ m[k].kind = "tool" => k > 1 /\ m[k - 1].calls # {}
                        /\ m[k].calls # {} =>
                              /\ k < n /\ m[k + 1].kind = "tool"
                              /\ {x.call : x \in m[k + 1].results} = m[k].calls
    BY <1>2 DEF Legal
  <2>2. /\ out[k].kind = "tool" => k > 1 /\ out[k - 1].calls # {}
        /\ out[k].calls # {} =>
              /\ k < n /\ out[k + 1].kind = "tool"
              /\ {x.call : x \in out[k + 1].results} = out[k].calls
    BY <1>1, <1>2 DEF Whole, Legal
  <2>3. (k > 1 => k - 1 \in 1 .. n) /\ (k < n => k + 1 \in 1 .. n)
    BY <1>2
  <2> QED BY <1>3, <2>2, <2>3
<1>5. OwnResults(rows, m)
  <2>1. SUFFICES ASSUME NEW k \in 1 .. n, m[k].calls # {}, NEW y \in m[k + 1].results
                 PROVE  /\ y.run = m[k].run /\ y.iteration = m[k].iteration
                        /\ ~y.stored => \A j \in DOMAIN rows : rows[j].kind = "tool" =>
                              rows[j].run # y.run \/ rows[j].iteration # y.iteration
    BY <1>2 DEF OwnResults
  <2>2. out[k].calls # {} /\ k + 1 \in 1 .. n
    <3>1. out[k].calls # {} /\ k < Len(out)
      BY <1>2, <1>3, <2>1 DEF Whole, Legal
    <3> QED BY <1>1, <1>2, <3>1
  <2>3. PICK x \in out[k + 1].results :
           x.run = y.run /\ x.iteration = y.iteration /\ x.stored = y.stored
    BY <1>3, <2>1, <2>2
  <2>4. /\ x.run = out[k].run /\ x.iteration = out[k].iteration
        /\ ~x.stored => \A j \in DOMAIN rows : rows[j].kind = "tool" =>
              rows[j].run # x.run \/ rows[j].iteration # x.iteration
    BY <1>2, <2>2 DEF Whole, OwnResults
  <2> QED BY <1>3, <2>3, <2>4
<1> QED BY <1>1, <1>4, <1>5

\* Every result stands for a pair of its call with its message.
LEMMA ResultsArePairs ==
    ASSUME NEW rows, NEW out \in Seq(Inputs), Whole(rows, out)
    PROVE  /\ \A k \in DOMAIN out : \A x \in out[k].results : <<k, x.call>> \in Pairs(out)
           /\ \A p \in Pairs(out) : /\ p[1] \in DOMAIN out /\ p = <<p[1], p[2]>>
                                    /\ \E x \in out[p[1]].results : x.call = p[2]
<1>1. PICK n : n = Len(out)
  OBVIOUS
<1>2. n \in Nat /\ DOMAIN out = 1 .. n
  BY <1>1
<1>3. ASSUME NEW k \in 1 .. n, NEW x \in out[k].results
      PROVE  <<k, x.call>> \in Pairs(out)
  <2>1. out[k] \in Inputs
    BY <1>2
  <2>2. out[k].kind = "tool"
    BY <1>2 DEF Whole
  <2>3. k > 1 /\ out[k - 1].calls # {}
    BY <1>2, <2>2 DEF Whole, Legal
  <2>4. k - 1 \in 1 .. n /\ (k - 1) + 1 = k /\ k \in 2 .. n
    BY <1>2, <2>3
  <2>5. out[k - 1].kind = "assistant" /\ {y.call : y \in out[k].results} = out[k - 1].calls
    BY <1>2, <2>3, <2>4 DEF Whole, Legal
  <2>6. x.call \in out[k - 1].calls
    BY <2>5
  <2>7. x.call \in CallsIn(out)
    BY <1>2, <2>4, <2>6 DEF CallsIn
  <2> QED BY <1>1, <2>2, <2>4, <2>5, <2>6, <2>7 DEF Pairs
<1>4. ASSUME NEW p \in Pairs(out)
      PROVE  /\ p[1] \in 1 .. n /\ p = <<p[1], p[2]>>
             /\ \E x \in out[p[1]].results : x.call = p[2]
  <2>1. p \in (2 .. n) \X CallsIn(out) /\ \E x \in out[p[1]].results : x.call = p[2]
    BY <1>1 DEF Pairs
  <2> QED BY <1>2, <2>1
<1> QED BY <1>2, <1>3, <1>4

\* The readable results are as many as the pairs that are not lost.
LEMMA ReadableAre ==
    ASSUME NEW rows, NEW out \in Seq(Inputs), Whole(rows, out), NEW window,
           NEW m, m = Mask(out, window)
    PROVE  /\ \A k \in DOMAIN out : \A y \in Read(m, k) :
                 <<k, y.call>> \in Pairs(out) \ Lost(out, window)
           /\ Cardinality(Readable(m)) = Cardinality(Pairs(out) \ Lost(out, window))
<1>1. PICK n, U, R : n = Len(out) /\ U = Pairs(out) \ Lost(out, window) /\ R = Readable(m)
  OBVIOUS
<1>2. /\ n \in Nat /\ DOMAIN out = 1 .. n /\ DOMAIN m = 1 .. n
      /\ \A k \in 1 .. n : Masks(out, window, m, k)
  BY <1>1, MaskIs
<1>3. ASSUME NEW k \in 1 .. n, NEW y \in Read(m, k)
      PROVE  <<k, y.call>> \in U
  <2>1. y \in m[k].results /\ ~y.masked
    BY DEF Read
  <2>2. PICK x \in out[k].results : Veiled(out, window, k, x, y)
    BY <1>2, <2>1 DEF Masks
  <2>3. <<k, x.call>> \in Pairs(out) /\ x.call = y.call /\ <<k, y.call>> \notin Lost(out, window)
    BY <1>2, <2>1, <2>2, ResultsArePairs DEF Veiled
  <2> QED BY <1>1, <2>3
<1>4. ASSUME NEW k \in 1 .. n, NEW y \in Read(m, k), NEW z \in Read(m, k), y.call = z.call
      PROVE  y = z
  <2>1. y \in m[k].results /\ z \in m[k].results
    BY DEF Read
  <2>2. PICK x \in out[k].results :
           /\ Veiled(out, window, k, x, y)
           /\ y = [x EXCEPT !.masked = <<k, x.call>> \in Lost(out, window)]
    BY <1>2, <2>1 DEF Masks
  <2>3. PICK w \in out[k].results :
           /\ Veiled(out, window, k, w, z)
           /\ z = [w EXCEPT !.masked = <<k, w.call>> \in Lost(out, window)]
    BY <1>2, <2>1 DEF Masks
  <2>4. x.call = w.call
    BY <1>4, <2>2, <2>3 DEF Veiled
  <2>5. x = w
    BY <1>2, <2>4 DEF Whole
  <2> QED BY <2>2, <2>3, <2>5
<1>5. \A r \in R : \E k \in 1 .. n : \E y \in Read(m, k) : r = <<k, y>>
  BY <1>1, <1>2 DEF Readable
<1>6. \A k \in 1 .. n : \A y \in Read(m, k) : <<k, y>> \in R
  BY <1>1, <1>2 DEF Readable
<1>7. PICK f : f = [r \in R |-> <<r[1], r[2].call>>]
  OBVIOUS
<1>8. f \in [R -> U]
  <2>1. ASSUME NEW r \in R PROVE <<r[1], r[2].call>> \in U
    BY <1>3, <1>5
  <2> QED BY <1>7, <2>1
<1>9. \A r, s \in R : f[r] = f[s] => r = s
  <2>1. SUFFICES ASSUME NEW r \in R, NEW s \in R, f[r] = f[s] PROVE r = s
    OBVIOUS
  <2>2. PICK k \in 1 .. n : \E y \in Read(m, k) : r = <<k, y>>
    BY <1>5
  <2>3. PICK y \in Read(m, k) : r = <<k, y>>
    BY <2>2
  <2>4. PICK j \in 1 .. n : \E z \in Read(m, j) : s = <<j, z>>
    BY <1>5
  <2>5. PICK z \in Read(m, j) : s = <<j, z>>
    BY <2>4
  <2>6. f[r] = <<k, y.call>> /\ f[s] = <<j, z.call>>
    BY <1>7, <2>3, <2>5
  <2>7. k = j /\ y.call = z.call
    <3>1. PICK c, d : c = y.call /\ d = z.call
      OBVIOUS
    <3>2. <<k, c>> = <<j, d>>
      BY <2>1, <2>6, <3>1
    <3>3. k = j /\ c = d
      BY <3>2
    <3> QED BY <3>1, <3>3
  <2>8. y = z
    BY <1>4, <2>7
  <2> QED BY <2>3, <2>5, <2>7, <2>8
<1>10. \A p \in U : \E r \in R : f[r] = p
  <2>1. SUFFICES ASSUME NEW p \in U PROVE \E r \in R : f[r] = p
    OBVIOUS
  <2>2. p \in Pairs(out) /\ p \notin Lost(out, window)
    BY <1>1
  <2>3. PICK k, c : k = p[1] /\ c = p[2]
    OBVIOUS
  <2>4. k \in 1 .. n /\ p = <<k, c>> /\ \E x \in out[k].results : x.call = c
    BY <1>2, <2>2, <2>3, ResultsArePairs
  <2>5. PICK x \in out[k].results : x.call = c
    BY <2>4
  <2>6. PICK y \in m[k].results : Veiled(out, window, k, x, y)
    BY <1>2, <2>4 DEF Masks
  <2>7. y.call = c /\ ~y.masked
    BY <2>2, <2>4, <2>5, <2>6 DEF Veiled
  <2>8. <<k, y>> \in R
    BY <1>6, <2>4, <2>7 DEF Read
  <2> QED BY <1>7, <2>4, <2>7, <2>8
<1>11. f \in Bijection(R, U)
  BY <1>8, <1>9, <1>10, Fun_IsBij DEF Surjection
<1>12. ExistsBijection(U, R)
  BY <1>11, Fun_ExistsBijSymmetric DEF ExistsBijection
<1>13. IsFiniteSet(U)
  <2>1. IsFiniteSet(Pairs(out)) /\ U \in SUBSET Pairs(out)
    BY <1>1, LaterOrders
  <2> QED BY <2>1, FS_Subset
<1>14. Cardinality(R) = Cardinality(U)
  BY <1>12, <1>13, FS_Bijection
<1> QED BY <1>1, <1>2, <1>3, <1>14

LEMMA MaskReads ==
    ASSUME NEW rows, NEW out \in Seq(Inputs), Whole(rows, out), NEW window \in Nat
    PROVE  LatestReadable(Mask(out, window), window)
<1>1. PICK n, P, lost, m : /\ n = Len(out) /\ P = Pairs(out) /\ lost = Lost(out, window)
                           /\ m = Mask(out, window)
  OBVIOUS
<1>2. PICK U, count : U = P \ lost /\ count = [p \in P |-> Cardinality(Later(out, p))]
  OBVIOUS
<1>3. /\ n \in Nat /\ DOMAIN out = 1 .. n /\ DOMAIN m = 1 .. n
      /\ \A k \in 1 .. n : Masks(out, window, m, k)
  BY <1>1, MaskIs
<1>4. /\ IsFiniteSet(P) /\ \A p \in P : count[p] \in Nat
      /\ \A p, q \in P : p # q => count[p] < count[q] \/ count[q] < count[p]
      /\ \A p, q \in P : p[1] < q[1] => count[q] < count[p]
      /\ \A p, q \in P : q \in Later(out, p) => count[q] < count[p]
      /\ \A p \in P : Later(out, p) \subseteq P
  BY <1>1, <1>2, LaterOrders
<1>5. \A p \in P : p \in lost <=> count[p] >= window
  BY <1>1, <1>2 DEF Lost
<1>6. IsFiniteSet(U) /\ Cardinality(U) \in Nat
  <2>1. U \in SUBSET P
    BY <1>2
  <2> QED BY <1>4, <2>1, FS_Subset, FS_CardinalityType
<1>7. /\ Cardinality(Readable(m)) = Cardinality(U)
      /\ \A k \in 1 .. n : \A y \in Read(m, k) : <<k, y.call>> \in U
  BY <1>1, <1>2, <1>3, ReadableAre
<1>8. Cardinality(U) <= window
  <2>1. PICK f : f = [p \in U |-> count[p] + 1]
    OBVIOUS
  <2>2. \A p \in U : p \in P /\ count[p] \in Nat /\ count[p] < window
    BY <1>2, <1>4, <1>5
  <2>3. f \in [U -> 1 .. window]
    BY <2>1, <2>2
  <2>4. \A p, q \in U : f[p] = f[q] => p = q
    BY <1>4, <2>1, <2>2
  <2>5. f \in Injection(U, 1 .. window)
    BY <2>3, <2>4 DEF Injection, IsInjective
  <2>6. IsFiniteSet(1 .. window) /\ Cardinality(1 .. window) = window
    BY FS_Interval
  <2> QED BY <2>5, <2>6, FS_Injection
<1>9. ASSUME NEW k \in 1 .. n, Read(m, k) # m[k].results
      PROVE  /\ Cardinality(U) = window
             /\ \A j \in 1 .. k - 1 : Read(m, j) = {}
  <2>1. PICK y \in m[k].results : y.masked
    BY <1>9 DEF Read
  <2>2. PICK x \in out[k].results : Veiled(out, window, k, x, y)
    BY <1>3 DEF Masks
  <2>3. PICK p : p = <<k, y.call>>
    OBVIOUS
  <2>4. p \in lost /\ p \in P /\ p[1] = k
    BY <1>1, <2>1, <2>2, <2>3 DEF Veiled, Lost
  <2>5. PICK q \in lost : \A s \in lost : ~(count[s] < count[q])
    <3> DEFINE Counts == {count[s] : s \in lost}
    <3>1. \A s \in lost : s \in P
      BY <1>1 DEF Lost
    <3>2. Counts \subseteq Nat /\ Counts # {}
      BY <1>4, <2>4, <3>1
    <3>3. \E b \in Counts : \A j \in Counts : ~(<<j, b>> \in OpToRel(<, Nat))
      BY <3>2, NatLessThanWellFounded, WFMin
    <3>4. PICK b \in Counts : \A j \in Counts : ~(j < b)
      BY <3>2, <3>3 DEF OpToRel
    <3> QED BY <3>4
  <2>6. q \in P /\ count[q] >= window /\ count[q] = Cardinality(Later(out, q))
    BY <1>1, <1>2, <1>5, <2>5 DEF Lost
  <2>7. \A s \in Later(out, q) : s \in U
    BY <1>2, <1>4, <2>5, <2>6
  <2>8. Later(out, q) \in SUBSET U
    BY <2>7
  <2>9. Cardinality(Later(out, q)) <= Cardinality(U)
    BY <1>6, <2>8, FS_Subset
  <2>10. Cardinality(U) = window
    BY <1>4, <1>6, <1>8, <2>6, <2>9
  <2>11. ASSUME NEW j \in 1 .. k - 1, NEW z \in Read(m, j) PROVE FALSE
    <3>1. j \in 1 .. n /\ j < k
      BY <1>3
    <3>2. PICK s : s = <<j, z.call>>
      OBVIOUS
    <3>3. s \in U /\ s[1] = j
      BY <1>7, <3>1, <3>2
    <3>4. s \in P /\ ~(count[s] >= window) /\ count[p] < count[s] /\ count[p] >= window
      BY <1>2, <1>4, <1>5, <2>4, <3>1, <3>3
    <3> QED BY <1>4, <2>4, <3>4
  <2> QED BY <2>10, <2>11
<1>10. LatestReadable(m, window)
  BY <1>3, <1>7, <1>8, <1>9 DEF LatestReadable
<1> QED BY <1>1, <1>10

\* What project_messages makes of such a table.
LEMMA InputIs ==
    ASSUME NEW rows \in Seq(Message), Proper(rows), NEW window \in Nat
    PROVE  LET input == ModelInput(rows, window)
           IN /\ Legal(input)
              /\ OwnResults(rows, input)
              /\ LatestReadable(input, window)
              /\ rows # <<>> /\ rows[Len(rows)].kind = "user" =>
                    input[Len(input)] = Plain(rows[Len(rows)])
<1>1. PICK a, out, m, n : /\ a = Loop(rows)[Len(rows)] /\ out = a.out /\ m = Mask(out, window)
                          /\ n = Len(rows)
  OBVIOUS
<1>2. m = ModelInput(rows, window)
  BY <1>1 DEF ModelInput, Project
<1>3. Reached(rows, n, a)
  BY <1>1, Projected
<1>4. out \in Seq(Inputs) /\ Whole(rows, out)
  BY <1>1, <1>3 DEF Reached
<1>5. Legal(m) /\ OwnResults(rows, m) /\ LatestReadable(m, window)
  BY <1>1, <1>4, MaskKeeps, MaskReads
<1>6. ASSUME rows # <<>>, rows[n].kind = "user"
      PROVE  m[Len(m)] = Plain(rows[n])
  <2>1. n > 0 /\ n \in DOMAIN rows
    BY <1>1, <1>6
  <2>2. out # <<>> /\ out[Len(out)] = Plain(rows[n])
    BY <1>1, <1>3, <1>6, <2>1 DEF Reached
  <2>3. out[Len(out)].results = {} /\ Len(out) \in DOMAIN out
    BY <1>4, <2>1, <2>2, PlainIs
  <2>4. Len(m) = Len(out) /\ Masks(out, window, m, Len(out))
    BY <1>1, <1>4, <2>3, MaskIs
  <2> QED BY <2>2, <2>3, <2>4 DEF Masks
<1> QED BY <1>1, <1>2, <1>5, <1>6

-----------------------------------------------------------------------------
(* One run at a time *)

Busy(r) == run[r].pc \notin {"idle"} \cup Ended

\* At most one run is busy, and the last row is one of its own.
Alone ==
    \A r \in Run : Busy(r) =>
        /\ \A s \in Run : Busy(s) => s = r
        /\ messages # <<>> /\ messages[Len(messages)].run = r

SInv == Proper(messages) /\ Alone

\* A row that comes in its run's order, results right behind their answer.
InOrder(rows, row) ==
    /\ row.kind = "user" <=> row.iteration = 0
    /\ row.kind = "user" => row.calls = {}
    /\ row.kind = "tool" =>
          /\ rows # <<>> /\ row.calls # {}
          /\ rows[Len(rows)].kind = "assistant" /\ rows[Len(rows)].run = row.run
          /\ rows[Len(rows)].iteration = row.iteration /\ rows[Len(rows)].calls = row.calls
    /\ \A p \in DOMAIN rows : rows[p].run = row.run =>
          \/ rows[p].iteration < row.iteration
          \/ rows[p].iteration = row.iteration /\ rows[p].kind = "assistant" /\ row.kind = "tool"

LEMMA ProperGrows ==
    ASSUME NEW rows \in Seq(Message), Proper(rows), NEW row \in Message, InOrder(rows, row)
    PROVE  Proper(Append(rows, row))
<1>1. PICK g, n : g = Append(rows, row) /\ n = Len(rows)
  OBVIOUS
<1>2. /\ n \in Nat /\ DOMAIN rows = 1 .. n /\ DOMAIN g = 1 .. n + 1 /\ g[n + 1] = row
      /\ \A k \in 1 .. n : g[k] = rows[k]
      /\ \A k \in 1 .. n + 1 : k \in 1 .. n \/ k = n + 1
  BY <1>1
<1>3. ASSUME NEW p \in 1 .. n + 1
      PROVE  /\ g[p].kind = "user" <=> g[p].iteration = 0
             /\ g[p].kind = "user" => g[p].calls = {}
             /\ g[p].kind = "tool" =>
                   /\ p > 1 /\ g[p - 1].kind = "assistant" /\ g[p].calls # {}
                   /\ g[p - 1].run = g[p].run
                   /\ g[p - 1].iteration = g[p].iteration
                   /\ g[p - 1].calls = g[p].calls
  <2>1. CASE p \in 1 .. n
    <3>1. p > 1 => p - 1 \in 1 .. n
      BY <1>2, <2>1
    <3>2. /\ g[p] = rows[p]
          /\ p > 1 => g[p - 1] = rows[p - 1]
      BY <1>2, <2>1, <3>1
    <3>3. /\ rows[p].kind = "user" <=> rows[p].iteration = 0
          /\ rows[p].kind = "user" => rows[p].calls = {}
          /\ rows[p].kind = "tool" =>
                /\ p > 1 /\ rows[p - 1].kind = "assistant" /\ rows[p].calls # {}
                /\ rows[p - 1].run = rows[p].run
                /\ rows[p - 1].iteration = rows[p].iteration
                /\ rows[p - 1].calls = rows[p].calls
      BY <1>2, <2>1 DEF Proper
    <3> QED BY <3>2, <3>3
  <2>2. CASE p = n + 1
    <3>1. p - 1 = n /\ g[p] = row
      BY <1>2, <2>2
    <3>2. CASE row.kind = "tool"
      <4>1. n > 0 /\ n \in 1 .. n
        BY <1>1, <1>2, <3>2 DEF InOrder
      <4>2. g[n] = rows[n]
        BY <1>2, <4>1
      <4> QED BY <1>1, <1>2, <2>2, <3>1, <3>2, <4>1, <4>2 DEF InOrder
    <3> QED BY <3>1, <3>2 DEF InOrder
  <2> QED BY <1>2, <2>1, <2>2
<1>4. ASSUME NEW p \in 1 .. n + 1, NEW q \in 1 .. n + 1, p < q, g[p].run = g[q].run
      PROVE  \/ g[p].iteration < g[q].iteration
             \/ /\ g[p].iteration = g[q].iteration
                /\ g[p].kind = "assistant" /\ g[q].kind = "tool"
  <2>1. p \in 1 .. n
    BY <1>2, <1>4
  <2>2. CASE q \in 1 .. n
    BY <1>2, <1>4, <2>1, <2>2 DEF Proper
  <2>3. CASE q = n + 1
    BY <1>2, <1>4, <2>1, <2>3 DEF InOrder
  <2> QED BY <1>2, <2>2, <2>3
<1>5. Proper(g)
  BY <1>2, <1>3, <1>4 DEF Proper
<1> QED BY <1>1, <1>5

\* Clearing payloads moves no row.
LEMMA ProperStays ==
    ASSUME TypeOK, Proper(messages), NEW r \in Run, Touched(r), DOMAIN messages' = DOMAIN messages
    PROVE  Proper(messages')
<1>1. PICK a, b : a = messages /\ b = messages'
  OBVIOUS
<1>2. PICK n : n = Len(a)
  OBVIOUS
<1>3. n \in Nat /\ DOMAIN a = 1 .. n /\ DOMAIN b = 1 .. n
  BY <1>1, <1>2 DEF TypeOK
<1>4. \A p \in 1 .. n : /\ b[p].run = a[p].run /\ b[p].kind = a[p].kind
                        /\ b[p].iteration = a[p].iteration /\ b[p].calls = a[p].calls
  BY <1>1, <1>3, RowsTyped, RowKept DEF Touched
<1>5. \A p \in 1 .. n : p > 1 => p - 1 \in 1 .. n
  BY <1>3
<1>6. ASSUME NEW p \in 1 .. n
      PROVE  /\ b[p].kind = "user" <=> b[p].iteration = 0
             /\ b[p].kind = "user" => b[p].calls = {}
             /\ b[p].kind = "tool" =>
                   /\ p > 1 /\ b[p - 1].kind = "assistant" /\ b[p].calls # {}
                   /\ b[p - 1].run = b[p].run
                   /\ b[p - 1].iteration = b[p].iteration
                   /\ b[p - 1].calls = b[p].calls
  <2>1. /\ a[p].kind = "user" <=> a[p].iteration = 0
        /\ a[p].kind = "user" => a[p].calls = {}
        /\ a[p].kind = "tool" =>
              /\ p > 1 /\ a[p - 1].kind = "assistant" /\ a[p].calls # {}
              /\ a[p - 1].run = a[p].run
              /\ a[p - 1].iteration = a[p].iteration
              /\ a[p - 1].calls = a[p].calls
    BY <1>1, <1>3 DEF Proper
  <2>2. CASE a[p].kind = "tool"
    BY <1>4, <1>5, <2>1, <2>2
  <2>3. CASE a[p].kind # "tool"
    BY <1>4, <2>1, <2>3
  <2> QED BY <2>2, <2>3
<1>7. ASSUME NEW p \in 1 .. n, NEW q \in 1 .. n, p < q, b[p].run = b[q].run
      PROVE  \/ b[p].iteration < b[q].iteration
             \/ /\ b[p].iteration = b[q].iteration
                /\ b[p].kind = "assistant" /\ b[q].kind = "tool"
  <2>1. a[p].run = a[q].run
    BY <1>4, <1>7
  <2>2. \/ a[p].iteration < a[q].iteration
        \/ /\ a[p].iteration = a[q].iteration
           /\ a[p].kind = "assistant" /\ a[q].kind = "tool"
    BY <1>1, <1>3, <1>7, <2>1 DEF Proper
  <2> QED BY <1>4, <2>2
<1>8. Proper(b)
  BY <1>3, <1>6, <1>7 DEF Proper
<1> QED BY <1>1, <1>8

\* What comes after the latest row of r comes after all of its rows.
LEMMA LatestIsLast ==
    ASSUME IInv, Proper(messages), NEW r \in Run, NEW p \in DOMAIN messages, Log!Latest(r, p)
    PROVE  /\ \A q \in DOMAIN messages : messages[q].run = r =>
                 \/ messages[q].iteration < messages[p].iteration
                 \/ messages[q].iteration = messages[p].iteration
           /\ messages[Len(messages)].run = r => p = Len(messages)
<1>1. messages \in Seq(Message) /\ Len(messages) \in Nat /\ DOMAIN messages = 1 .. Len(messages)
  BY DEF IInv, TypeOK
<1>2. ASSUME NEW q \in DOMAIN messages, messages[q].run = r
      PROVE  \/ messages[q].iteration < messages[p].iteration
             \/ messages[q].iteration = messages[p].iteration
  <2>1. q <= p /\ messages[p].run = r
    BY <1>2 DEF Log!Latest, Log!Of
  <2>2. q < p \/ q = p
    BY <1>1, <2>1
  <2> QED BY <1>2, <2>1, <2>2 DEF Proper
<1>3. ASSUME messages[Len(messages)].run = r PROVE p = Len(messages)
  <2>1. Len(messages) \in DOMAIN messages
    BY <1>1
  <2>2. Len(messages) <= p
    BY <1>3, <2>1 DEF Log!Latest, Log!Of
  <2> QED BY <1>1, <2>2
<1> QED BY <1>2, <1>3

\* The rows that runs store follow each other properly.
LEMMA QuestionProper ==
    ASSUME IInv, SInv, NEW r \in Run, Submit(r)
    PROVE  Proper(messages')
<1>1. PICK row : row = Row(r, "user", 0, {})
  OBVIOUS
<1>2. row \in Message /\ row.run = r /\ row.kind = "user" /\ row.iteration = 0 /\ row.calls = {}
  BY <1>1, RowTypes, HardCapPositive DEF Row
<1>3. \A p \in DOMAIN messages : messages[p].run # r
  BY DEF Submit, IInv, RunOK, Fits, Log!Of
<1>4. InOrder(messages, row)
  BY <1>2, <1>3 DEF InOrder
<1>5. messages \in Seq(Message) /\ messages' = Append(messages, row)
  BY <1>1 DEF Submit, Appended, IInv, TypeOK
<1> QED BY <1>2, <1>4, <1>5, ProperGrows DEF SInv

LEMMA AnswerProper ==
    ASSUME IInv, SInv, NEW r \in Run, run[r].pc = "answer",
           messages' = Appended(Row(r, "assistant", run[r].iteration, run[r].calls))
    PROVE  Proper(messages')
<1>1. PICK row, i : row = Row(r, "assistant", run[r].iteration, run[r].calls) /\ i = run[r].iteration
  OBVIOUS
<1>2. i \in 0 .. HardCap /\ run[r].calls \in SUBSET Call /\ i # 0 /\ Asked(r, i - 1)
  BY <1>1 DEF IInv, TypeOK, RunOK, Fits, Local
<1>3. row \in Message /\ row.run = r /\ row.kind = "assistant" /\ row.iteration = i
  BY <1>1, <1>2, RowTypes DEF Row
<1>4. PICK p \in DOMAIN messages : Log!Latest(r, p) /\ messages[p].iteration = i - 1
  BY <1>2 DEF Asked
<1>5. ASSUME NEW q \in DOMAIN messages, messages[q].run = r
      PROVE  messages[q].iteration < i
  <2>1. messages[q].iteration \in Nat
    BY RowsTyped, HardCapPositive DEF IInv, Message
  <2>2. messages[q].iteration < i - 1 \/ messages[q].iteration = i - 1
    BY <1>4, <1>5, LatestIsLast DEF SInv
  <2> QED BY <1>2, <2>1, <2>2, HardCapPositive
<1>6. InOrder(messages, row)
  BY <1>2, <1>3, <1>5 DEF InOrder
<1>7. messages \in Seq(Message) /\ messages' = Append(messages, row)
  BY <1>1 DEF Appended, IInv, TypeOK
<1> QED BY <1>3, <1>6, <1>7, ProperGrows DEF SInv

LEMMA ResultsProper ==
    ASSUME IInv, SInv, NEW r \in Run, run[r].pc = "tool_end", NEW c \in run[r].pending,
           messages' = Appended(Row(r, "tool", run[r].iteration, run[r].calls))
    PROVE  Proper(messages')
<1>1. PICK row, i, cs : /\ row = Row(r, "tool", run[r].iteration, run[r].calls)
                        /\ i = run[r].iteration /\ cs = run[r].calls
  OBVIOUS
<1>2. i \in 0 .. HardCap /\ cs \in SUBSET Call /\ i # 0 /\ cs # {} /\ Answered(r, run[r])
  BY <1>1 DEF IInv, TypeOK, RunOK, Fits, Local
<1>3. row \in Message /\ row.run = r /\ row.kind = "tool" /\ row.iteration = i /\ row.calls = cs
  BY <1>1, <1>2, RowTypes DEF Row
<1>4. PICK p \in DOMAIN messages : /\ Log!Latest(r, p) /\ messages[p].kind = "assistant"
                                   /\ messages[p].iteration = i /\ messages[p].calls = cs
  BY <1>1, <1>2 DEF Answered
<1>5. messages # <<>> /\ messages[Len(messages)].run = r
  BY DEF SInv, Alone, Busy, Ended
<1>6. p = Len(messages)
  BY <1>4, <1>5, LatestIsLast DEF SInv
<1>7. /\ messages \in Seq(Message) /\ messages' = Append(messages, row)
      /\ DOMAIN messages = 1 .. Len(messages)
  BY <1>1 DEF Appended, IInv, TypeOK
<1>8. ASSUME NEW q \in DOMAIN messages, messages[q].run = r
      PROVE  messages[q].iteration < i \/ (messages[q].iteration = i /\ messages[q].kind = "assistant")
  <2>1. CASE q = p
    BY <1>4, <2>1
  <2>2. CASE q # p
    <3>1. q < p /\ messages[p].run = r
      BY <1>5, <1>6, <1>7, <2>2
    <3> QED BY <1>4, <1>8, <3>1 DEF SInv, Proper
  <2> QED BY <2>1, <2>2
<1>9. InOrder(messages, row)
  BY <1>2, <1>3, <1>4, <1>5, <1>6, <1>8 DEF InOrder
<1> QED BY <1>3, <1>7, <1>9, ProperGrows DEF SInv

\* Only a submitted run becomes busy, and only a busy run stores.
LEMMA BusySteps ==
    ASSUME IInv, NEW r \in Run, Refuse(r) \/ RunStep(r)
    PROVE  Busy(r)' => Busy(r)
<1>1. CASE Refuse(r)
  BY <1>1 DEF Refuse, End, Busy, Ended, IInv, TypeOK, Idle
<1>2. CASE RunStep(r)
  BY <1>2 DEF RunStep, Pipeline, Store, Finish, Rebuild, EnterPort, StartRun, OpenMain,
         ModelAnswers, ModelFails, CloseMain, OpenTool, ToolsReturn, ToolsFail, CloseTool,
         CloseLastTool, StoreAnswer, StoreResults, StoreUnacknowledged, StoreFails, Storing,
         Complete, CloseLeft, FinishUnwinding, Clear, ClearFails, CutCleanup, Busy, Ended, Unwinding
<1> QED BY <1>1, <1>2

LEMMA ProperKept ==
    ASSUME IInv, SInv, NEW r \in Run, Submit(r) \/ Refuse(r) \/ RunStep(r)
    PROVE  /\ Proper(messages')
           /\ \/ DOMAIN messages' = DOMAIN messages
              \/ messages' # <<>> /\ messages'[Len(messages')].run = r
<1>0. Touched(r)
  BY RowsOfOne
<1>1. ASSUME DOMAIN messages' = DOMAIN messages PROVE Proper(messages')
  BY <1>0, <1>1, ProperStays DEF IInv, SInv
<1>2. ASSUME NEW row \in Message, row.run = r, messages' = Appended(row)
      PROVE  messages' # <<>> /\ messages'[Len(messages')].run = r
  BY <1>2, Appending
<1>3. ASSUME NEW k \in {"user", "assistant", "tool"}, NEW i \in 0 .. HardCap, NEW cs \in SUBSET Call,
             messages' = Appended(Row(r, k, i, cs))
      PROVE  messages' # <<>> /\ messages'[Len(messages')].run = r
  BY <1>2, <1>3, RowTypes DEF Row
<1>4. run[r].iteration \in 0 .. HardCap /\ run[r].calls \in SUBSET Call /\ 0 \in 0 .. HardCap
  BY HardCapPositive DEF IInv, TypeOK, Local
<1>5. CASE Submit(r)
  BY <1>3, <1>4, <1>5, QuestionProper DEF Submit
<1>6. CASE StoreAnswer(r)
  BY <1>3, <1>4, <1>6, AnswerProper DEF StoreAnswer
<1>7. CASE StoreResults(r)
  BY <1>3, <1>4, <1>7, ResultsProper DEF StoreResults
<1>8. CASE StoreUnacknowledged(r)
  <2>1. CASE run[r].pc = "answer"
    BY <1>3, <1>4, <1>8, <2>1, AnswerProper DEF StoreUnacknowledged
  <2>2. CASE run[r].pc = "tool_end"
    BY <1>3, <1>4, <1>8, <2>2, ResultsProper DEF StoreUnacknowledged, Storing
  <2> QED BY <1>8, <2>1, <2>2 DEF StoreUnacknowledged, Storing
<1>9. CASE Clear(r)
  BY <1>1, <1>9 DEF Clear, Cleared
<1>10. CASE UNCHANGED messages
  BY <1>1, <1>10
<1> QED BY <1>5, <1>6, <1>7, <1>8, <1>9, <1>10
    DEF RunStep, Pipeline, Store, Finish, Refuse, Rebuild, EnterPort, StartRun,
        OpenMain, ModelAnswers, ModelFails, CloseMain, OpenTool, ToolsReturn, ToolsFail,
        CloseTool, CloseLastTool, StoreFails, Complete, CloseLeft, FinishUnwinding, ClearFails,
        CutCleanup

LEMMA AloneKept ==
    ASSUME ~Overlap, IInv, SInv, NEW r \in Run, Submit(r) \/ Refuse(r) \/ RunStep(r)
    PROVE  Alone'
<1>1. \A s \in Run : s # r => run'[s] = run[s]
  BY OthersStay
<1>2. \A s \in Run : s # r => (Busy(s)' <=> Busy(s))
  BY <1>1 DEF Busy
<1>3. CASE Submit(r)
  <2>1. \A s \in Run : ~Busy(s)
    BY <1>3 DEF Submit, InProgress, Busy
  <2>2. \A s \in Run : Busy(s)' => s = r
    BY <1>2, <2>1
  <2>3. messages' # <<>> /\ messages'[Len(messages')].run = r
    <3>1. PICK row : row = Row(r, "user", 0, {})
      OBVIOUS
    <3>2. row \in Message /\ row.run = r /\ messages' = Appended(row)
      BY <1>3, <3>1, RowTypes, HardCapPositive DEF Row, Submit
    <3> QED BY <3>2, Appending
  <2> QED BY <2>2, <2>3 DEF Alone
<1>4. CASE Refuse(r) \/ RunStep(r)
  <2>1. Busy(r)' => Busy(r)
    BY <1>4, BusySteps
  <2>2. \A s \in Run : Busy(s)' => Busy(s)
    BY <1>2, <2>1
  <2>3. ASSUME NEW s \in Run, Busy(s)'
        PROVE  messages' # <<>> /\ messages'[Len(messages')].run = s
    <3>1. Busy(s) /\ messages # <<>> /\ messages[Len(messages)].run = s
      BY <2>2, <2>3 DEF SInv, Alone
    <3>2. messages \in Seq(Message) /\ messages' \in Seq(Message) /\ Touched(r)
      BY RowsOfOne DEF IInv, TypeOK, Touched
    <3>3. CASE DOMAIN messages' = DOMAIN messages
      <4>1. /\ Len(messages') = Len(messages) /\ messages' # <<>>
            /\ Len(messages) \in DOMAIN messages
        BY <3>1, <3>2, <3>3
      <4>2. messages'[Len(messages)].run = messages[Len(messages)].run
        BY <3>2, <4>1, RowsTyped, RowKept DEF Touched, IInv
      <4> QED BY <3>1, <4>1, <4>2
    <3>4. CASE messages' # <<>> /\ messages'[Len(messages')].run = r
      <4>1. CASE s = r
        BY <3>4, <4>1
      <4>2. CASE s # r
        <5>1. UNCHANGED messages
          <6>1. ~Busy(r)
            BY <3>1, <4>2 DEF SInv, Alone
          <6>2. ~RunStep(r)
            BY <6>1 DEF RunStep, Pipeline, Store, Finish, Rebuild, EnterPort, StartRun, OpenMain,
              ModelAnswers, ModelFails, CloseMain, OpenTool, ToolsReturn, ToolsFail, CloseTool,
              CloseLastTool, StoreAnswer, StoreResults, StoreUnacknowledged, StoreFails, Storing,
              Complete, CloseLeft, FinishUnwinding, Clear, ClearFails, CutCleanup, Busy, Ended, Unwinding
          <6> QED BY <1>4, <6>2 DEF Refuse
        <5> QED BY <3>1, <5>1
      <4> QED BY <4>1, <4>2
    <3> QED BY <3>3, <3>4, <1>4, ProperKept
  <2> QED BY <2>2, <2>3 DEF SInv, Alone
<1> QED BY <1>3, <1>4

LEMMA SequentialInit == Init => SInv
<1> SUFFICES ASSUME Init PROVE SInv
  OBVIOUS
<1>1. Proper(messages)
  BY DEF Init, Proper
<1>2. \A r \in Run : ~Busy(r)
  BY DEF Init, Busy, Idle
<1> QED BY <1>1, <1>2 DEF SInv, Alone

LEMMA SequentialStep == ~Overlap /\ IInv /\ SInv /\ [Next]_vars => SInv'
<1> SUFFICES ASSUME ~Overlap, IInv, SInv, [Next]_vars PROVE SInv'
  OBVIOUS
<1>1. ASSUME NEW r \in Run, Submit(r) \/ Refuse(r) \/ RunStep(r) PROVE SInv'
  BY <1>1, ProperKept, AloneKept DEF SInv
<1>2. CASE Crash
  <2>1. \A r \in Run : ~Busy(r)'
    BY <1>2 DEF Crash, Busy, Ended, Idle
  <2>2. messages' = messages
    BY <1>2 DEF Crash
  <2> QED BY <2>1, <2>2 DEF SInv, Alone
<1>3. CASE (\E r \in Run : Disconnect(r)) \/ Delete \/ UNCHANGED vars
  <2>1. UNCHANGED <<messages, run>>
    BY <1>3 DEF Disconnect, Delete, vars
  <2> QED BY <2>1 DEF SInv, Alone, Busy
<1> QED BY <1>1, <1>2, <1>3 DEF Next

\* While runs of a session do not overlap, what rebuild_model_input reads is
\* legal at every moment, whatever earlier runs left behind: with or without
\* faults, each answer with its own results, the latest readable, and the new
\* question last (rebuild_model_input_with_metadata in create_run).
THEOREM InputsLegal == ASSUME ~Overlap PROVE Spec => []InputLegal
<1>1. IInv /\ SInv => InputLegal
  <2> SUFFICES ASSUME IInv, SInv PROVE InputLegal
    OBVIOUS
  <2>1. PICK input : input = ModelInput(messages, RetentionWindow)
    OBVIOUS
  <2>2. messages \in Seq(Message) /\ Proper(messages) /\ RetentionWindow \in Nat
    BY DEF IInv, TypeOK, SInv, RetentionWindow
  <2>3. /\ Legal(input) /\ OwnResults(messages, input) /\ LatestReadable(input, RetentionWindow)
        /\ messages # <<>> /\ messages[Len(messages)].kind = "user" =>
              input[Len(input)] = Plain(messages[Len(messages)])
    BY <2>1, <2>2, InputIs
  <2>4. ASSUME NEW r \in Run, run[r].pc = "rebuild"
        PROVE  input[Len(input)] = Plain(Row(r, "user", 0, {}))
    <3>1. Busy(r)
      BY <2>4 DEF Busy, Ended
    <3>2. messages # <<>> /\ messages[Len(messages)].run = r
      BY <3>1 DEF SInv, Alone
    <3>3. PICK p \in DOMAIN messages : Log!Latest(r, p) /\ messages[p].iteration = 0
      BY <2>4 DEF IInv, RunOK, Fits, Asked
    <3>4. p = Len(messages)
      BY <2>2, <3>2, <3>3, LatestIsLast
    <3>5. PICK row : row = messages[Len(messages)]
      OBVIOUS
    <3>6. /\ row.run = r /\ row.iteration = 0 /\ row.kind = "user" /\ row.calls = {}
          /\ row = messages[p]
      BY <2>2, <3>2, <3>3, <3>4, <3>5 DEF Proper
    <3>7. Plain(row) = Plain(Row(r, "user", 0, {}))
      BY <3>6 DEF Plain, Row
    <3> QED BY <2>3, <3>2, <3>5, <3>6, <3>7
  <2> QED BY <2>1, <2>3, <2>4 DEF InputLegal
<1> QED BY <1>1, Invariant, SequentialInit, SequentialStep, PTL DEF Spec

=============================================================================
