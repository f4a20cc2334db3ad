------------------------- MODULE AgentStreamProofs -------------------------
(***************************************************************************)
(* Proofs about AgentRun and AgentStream, for every set of calls and       *)
(* tools, every number of attempts and every cap on the iterations.        *)
(***************************************************************************)
EXTENDS AgentStream, WellFoundedInduction, SequenceTheorems, FiniteSetTheorems, TLAPS

-----------------------------------------------------------------------------
(* The inductive invariant of the loop *)

Serials == {c \in Asked : task[c].tool \in Serial}

\* The place of a call in an answer.
Place(answer, c) == CHOOSE p \in DOMAIN answer : answer[p] = c

\* Positions of the calls that were announced and have no result yet.
Waiting == (Len(results) + 1) .. Len(announced)

Working == pc \in {"calls", "gather", "collect"}

Erred(c) == task[c].pc = "error"

\* What the event yielded last says of the place of the loop.
StageFits ==
    /\ pc = "enter" => /\ event = None /\ iteration = 0 /\ history = <<>>
                       /\ calls = <<>> /\ announced = <<>> /\ results = <<>>
    /\ pc = "loop" => \/ event = None /\ calls = <<>> /\ announced = <<>> /\ results = <<>>
                      \/ Stage = "answered" /\ Asked # {} /\ Finished = Asked
    /\ pc = "model" => Stage = "model" /\ calls = <<>> /\ announced = <<>> /\ results = <<>>
    /\ pc = "answered" => event.type = "iteration_completed" /\ announced = <<>> /\ results = <<>>
    /\ Working => Stage = "answered" /\ Asked # {}
    /\ event # None => iteration >= 1

\* Results come in the order of the announcements.
ReportsFit ==
    /\ IsInjective(calls) /\ IsInjective(announced)
    /\ Announced \subseteq Asked
    /\ Len(results) <= Len(announced)
    /\ \A j \in 1 .. Len(results) : results[j].call = announced[j]

\* The calls without a result are of the current batch, in the order of the answer.
BatchFits ==
    /\ Working =>
          /\ Announced \subseteq Finished \cup Batch
          /\ \A i, j \in Waiting : i < j => Place(calls, announced[i]) < Place(calls, announced[j])
    /\ pc \in {"calls", "gather"} => Finished = {} \/ Asked \ Serials \subseteq Finished
    /\ pc = "calls" =>
          \A i \in Waiting : \A b \in Batch \ Announced : Place(calls, announced[i]) < Place(calls, b)
    /\ pc \in {"gather", "collect"} => Batch \subseteq Announced /\ Batch \ Finished # {}

\* While the loop goes on, only the current batch has tasks that are not done.
TaskFits ==
    /\ pc \in {"enter", "loop", "model", "answered", "calls", "collect"} =>
          \A c \in Call : ~Live(c) /\ ~Erred(c)
    /\ pc = "gather" => \A c \in Call : Live(c) \/ Erred(c) => c \in Batch
    /\ \A c \in Call : /\ task[c].pc = "backoff" => task[c].attempt < Attempts(task[c])
                       /\ task[c].pc = "handler" => task[c].attempt <= Attempts(task[c])

\* An answer is followed by one message with its results, the last one perhaps not yet.
Paired(h, k) ==
    /\ h[k].kind = "results" =>
          /\ k > 1 /\ h[k - 1].kind = "answer"
          /\ Range(h[k].calls) = Range(h[k - 1].calls)
          /\ [j \in DOMAIN h[k].results |-> h[k].results[j].call] = h[k].calls
          /\ IsInjective(h[k].calls)
    /\ h[k].kind = "answer" /\ k < Len(h) => h[k + 1].kind = "results"

HistoryFits ==
    /\ \A k \in 1 .. Len(history) : Paired(history, k)
    /\ pc \in {"enter", "loop", "model"} =>
          history = <<>> \/ history[Len(history)].kind = "results"
    /\ pc \in {"answered", "calls", "gather", "collect"} =>
          /\ history # <<>>
          /\ history[Len(history)].kind = "answer" /\ history[Len(history)].calls = calls

LoopInv ==
    /\ TypeOK
    /\ StageFits
    /\ ReportsFit
    /\ BatchFits
    /\ TaskFits
    /\ NoStrayHandler
    /\ HistoryFits

-----------------------------------------------------------------------------
(* Calls in the order of the answer *)

LEMMA PlaceOf ==
    ASSUME NEW c \in Asked
    PROVE  Place(calls, c) \in DOMAIN calls /\ calls[Place(calls, c)] = c
  BY DEF Asked, Range, Place

\* A set of positions has a least one.
LEMMA LeastPosition ==
    ASSUME NEW n \in Nat, NEW P \in SUBSET (1 .. n), P # {}
    PROVE  \E p \in P : \A q \in 1 .. p - 1 : q \notin P
<1>1. \E p \in P : \A q \in P : ~(<<q, p>> \in OpToRel(<, Nat))
  <2>1. P \subseteq Nat
    OBVIOUS
  <2> QED BY <2>1, NatLessThanWellFounded, WFMin
<1>2. PICK p \in P : \A q \in P : ~(<<q, p>> \in OpToRel(<, Nat))
  BY <1>1
<1>3. ASSUME NEW q \in 1 .. p - 1, q \in P PROVE FALSE
  <2>1. <<q, p>> \in Nat \X Nat /\ <<q, p>>[1] < <<q, p>>[2]
    BY <1>3
  <2> QED BY <1>2, <1>3, <2>1 DEF OpToRel
<1> QED BY <1>3

\* First finds the call of the set that comes first in the answer.
LEMMA FirstOf ==
    ASSUME calls \in Seq(Call), IsInjective(calls), NEW S, S \subseteq Asked, S # {}
    PROVE  /\ First(S) \in S
           /\ \A b \in S : Place(calls, First(S)) <= Place(calls, b)
<1> DEFINE P == {p \in DOMAIN calls : calls[p] \in S}
           Good(p) == calls[p] \in S /\ \A q \in 1 .. p - 1 : calls[q] \notin S
<1>1. \E p \in DOMAIN calls : Good(p)
  <2>1. P \subseteq 1 .. Len(calls) /\ P # {} /\ Len(calls) \in Nat
    <3>1. PICK b \in S : b \in Asked
      OBVIOUS
    <3> QED BY <3>1, PlaceOf
  <2>2. PICK p \in P : \A q \in 1 .. p - 1 : q \notin P
    BY <2>1, LeastPosition
  <2>3. \A q \in 1 .. p - 1 : q \in DOMAIN calls
    BY <2>1
  <2> QED BY <2>2, <2>3
<1>2. PICK p \in DOMAIN calls : Good(p) /\ First(S) = calls[p]
  BY <1>1 DEF First
<1>3. First(S) \in S /\ First(S) \in Asked
  BY <1>2
<1>4. Place(calls, First(S)) = p
  BY <1>2, <1>3, PlaceOf DEF IsInjective
<1>5. ASSUME NEW b \in S PROVE p <= Place(calls, b)
  <2>1. Place(calls, b) \in DOMAIN calls /\ calls[Place(calls, b)] = b
    BY PlaceOf
  <2> QED BY <1>2, <2>1
<1> QED BY <1>3, <1>4, <1>5

-----------------------------------------------------------------------------
(* Batches *)

\* What is left of the calls: the parallelizable ones, one of the others, or none.
LEMMA BatchShape ==
    ASSUME LoopInv
    PROVE  /\ Batch \subseteq Asked
           /\ \/ Asked \ Serials \subseteq Finished /\ Batch = {} /\ Asked \subseteq Finished
              \/ ~(Asked \ Serials \subseteq Finished) /\ Batch = Asked \ Serials
              \/ /\ Asked \ Serials \subseteq Finished
                 /\ \E c \in Serials \ Finished : Batch = {c}
<1>1. Serials \subseteq Asked
  BY DEF Serials
<1>2. CASE Asked \ (Serials \cup Finished) # {}
  BY <1>1, <1>2 DEF Batch, Serials
<1>3. CASE Asked \ (Serials \cup Finished) = {} /\ Serials \ Finished # {}
  <2>1. First(Serials \ Finished) \in Serials \ Finished
    BY <1>1, <1>3, FirstOf DEF LoopInv, TypeOK, ReportsFit
  <2>2. Batch = {First(Serials \ Finished)}
    BY <1>3 DEF Batch, Serials
  <2> QED BY <1>1, <1>3, <2>1, <2>2
<1>4. CASE Asked \ (Serials \cup Finished) = {} /\ Serials \ Finished = {}
  <2>1. Batch = {}
    BY <1>4 DEF Batch, Serials
  <2> QED BY <1>4, <2>1
<1> QED BY <1>2, <1>3, <1>4

\* The batch is a matter of the answer, the tools and the results.
LEMMA BatchStays ==
    ASSUME calls' = calls, results' = results, \A c \in Asked : task'[c].tool = task[c].tool
    PROVE  Batch' = Batch /\ Serials' = Serials /\ Asked' = Asked /\ Finished' = Finished
<1>1. Asked' = Asked /\ Finished' = Finished
  BY DEF Asked, Finished
<1>2. {c \in Asked' : task'[c].tool \in Serial} = {c \in Asked : task[c].tool \in Serial}
  BY <1>1
<1>4. Serials' = Serials
  BY <1>2 DEF Serials
<1>5. Batch = IF Asked \ (Serials \cup Finished) # {} THEN Asked \ Serials
              ELSE IF Serials \ Finished # {} THEN {First(Serials \ Finished)} ELSE {}
  BY DEF Batch, Serials
<1> QED BY <1>1, <1>4, <1>5 DEF Batch, Serials, First

-----------------------------------------------------------------------------
(* What a step leaves alone *)

LEMMA RecordFits ==
    ASSUME LoopInv
    PROVE  /\ \A c \in Call : task[c] \in Task
           /\ event \in Event \cup {None} /\ iteration \in Nat
           /\ Asked \subseteq Call /\ Announced \subseteq Call
           /\ Len(results) \in Nat /\ Len(announced) \in Nat
  BY DEF LoopInv, TypeOK, Asked, Announced, Range

LEMMA SameBatch ==
    ASSUME LoopInv, UNCHANGED <<calls, announced, results>>,
           \A c \in Call : task'[c].tool = task[c].tool
    PROVE  /\ ReportsFit'
           /\ Batch' = Batch /\ Serials' = Serials /\ Asked' = Asked /\ Finished' = Finished
           /\ Announced' = Announced /\ Waiting' = Waiting
<1>1. \A c \in Asked : task'[c].tool = task[c].tool
  BY RecordFits
<1>2. Batch' = Batch /\ Serials' = Serials /\ Asked' = Asked /\ Finished' = Finished
  BY <1>1, BatchStays
<1>3. Announced' = Announced /\ Waiting' = Waiting
  BY DEF Announced, Waiting
<1>4. ReportsFit'
  BY <1>2, <1>3 DEF LoopInv, ReportsFit
<1> QED BY <1>2, <1>3, <1>4

LEMMA KeepHistory ==
    ASSUME LoopInv, UNCHANGED <<history, calls>>,
           pc' \in {"enter", "loop", "model"} => pc \in {"enter", "loop", "model"},
           pc' \in {"answered", "calls", "gather", "collect"} =>
               pc \in {"answered", "calls", "gather", "collect"}
    PROVE  HistoryFits'
  BY DEF LoopInv, HistoryFits

\* A step that moves no task: what is left running is still explained.
LEMMA KeepTasks ==
    ASSUME LoopInv, UNCHANGED <<task, announced>>,
           \/ pc' = pc
           \/ pc # "gather"
           \/ \E d \in Announced : Erred(d)
           \/ \A c \in Call : ~Live(c)
    PROVE  /\ NoStrayHandler'
           /\ \A c \in Call : /\ task'[c].pc = "backoff" => task'[c].attempt < Attempts(task'[c])
                              /\ task'[c].pc = "handler" => task'[c].attempt <= Attempts(task'[c])
<1>1. /\ Announced' = Announced
      /\ \A c \in Call : Live(c)' = Live(c)
      /\ \A c : Erred(c)' = Erred(c)
  BY DEF Announced, Live, Erred
<1>2. \A c \in Call : Live(c)' => pc' = "gather" \/ \E d \in Announced' : Erred(d)'
  BY <1>1 DEF LoopInv, TaskFits, NoStrayHandler, Erred
<1>3. \A c, d \in Call : Live(c)' /\ Live(d)' /\ task'[c].tool \in Serial => c = d
  BY <1>1 DEF LoopInv, NoStrayHandler
<1> QED BY <1>2, <1>3 DEF LoopInv, TaskFits, NoStrayHandler, Erred

\* Only the place of the loop and the event change.
LEMMA QuietStep ==
    ASSUME LoopInv, UNCHANGED <<iteration, history, calls, announced, results, task>>
    PROVE  /\ ReportsFit' /\ Finished' = Finished /\ Asked' = Asked
           /\ Batch' = Batch /\ Serials' = Serials
           /\ Announced' = Announced /\ Waiting' = Waiting
           /\ \A c \in Call : Live(c)' = Live(c) /\ Erred(c)' = Erred(c)
<1>1. \A c \in Call : Live(c)' = Live(c) /\ Erred(c)' = Erred(c)
  BY DEF Live, Erred
<1>2. \A c \in Call : task'[c].tool = task[c].tool
  OBVIOUS
<1> QED BY <1>1, <1>2, SameBatch

\* What Yield says of the event.
LEMMA Yielded ==
    ASSUME NEW type \in {"iteration_started", "text", "reasoning", "iteration_completed",
                         "tool_started", "tool_finished", "run_completed", "run_failed"},
           NEW c \in Call \cup {""}, NEW status \in {"", "ok", "error"}, Yield(type, c, status)
    PROVE  /\ event' \in Event /\ event'.type = type /\ event'.call = c /\ event'.status = status
           /\ event' # None
           /\ pulled' = FALSE
<1>1. event' = [type |-> type, call |-> c, status |-> status] /\ pulled' = FALSE
  BY DEF Yield
<1>2. event'.type = type /\ None.type = "none"
  BY <1>1 DEF None
<1> QED BY <1>1, <1>2 DEF Event

\* The events of each stage, before and after a step.
LEMMA StageMeans ==
    ASSUME event \in Event \cup {None}
    PROVE  /\ Stage = "model" <=> event.type \in {"iteration_started", "text", "reasoning"}
           /\ Stage = "completed" <=> event.type = "run_completed"
           /\ Stage = "failed" <=> event.type = "run_failed"
           /\ Stage = "ready" <=> event = None
           /\ Stage = "answered" <=>
                event.type \in {"iteration_completed", "tool_started", "tool_finished"}
           /\ event = None <=> event \notin Event
           /\ event = None <=> event.type = "none"
<1>1. ASSUME event = None
      PROVE  event.type = "none" /\ Stage = "ready" /\ event \notin Event
  <2>1. event.type = "none"
    BY <1>1 DEF None
  <2> QED BY <2>1 DEF Stage, Event
<1>2. ASSUME event \in Event
      PROVE  /\ event.type \in {"iteration_started", "text", "reasoning", "iteration_completed",
                              "tool_started", "tool_finished", "run_completed", "run_failed"}
             /\ Stage = CASE event.type \in {"iteration_started", "text", "reasoning"} -> "model"
                         [] event.type = "run_completed" -> "completed"
                         [] event.type = "run_failed" -> "failed"
                         [] OTHER -> "answered"
  <2>1. event.type \in {"iteration_started", "text", "reasoning", "iteration_completed",
                       "tool_started", "tool_finished", "run_completed", "run_failed"}
    BY <1>2 DEF Event
  <2> QED BY <2>1 DEF Stage
<1> QED BY <1>1, <1>2

LEMMA StageBecomes ==
    ASSUME event' \in Event \cup {None}
    PROVE  /\ Stage' = "model" <=> event'.type \in {"iteration_started", "text", "reasoning"}
           /\ Stage' = "completed" <=> event'.type = "run_completed"
           /\ Stage' = "failed" <=> event'.type = "run_failed"
           /\ Stage' = "ready" <=> event' = None
           /\ Stage' = "answered" <=>
                event'.type \in {"iteration_completed", "tool_started", "tool_finished"}
           /\ event' = None <=> event' \notin Event
           /\ event' = None <=> event'.type = "none"
<1>1. ASSUME event' = None
      PROVE  event'.type = "none" /\ Stage' = "ready" /\ event' \notin Event
  <2>1. event'.type = "none"
    BY <1>1 DEF None
  <2> QED BY <2>1 DEF Stage, Event
<1>2. ASSUME event' \in Event
      PROVE  /\ event'.type \in {"iteration_started", "text", "reasoning", "iteration_completed",
                              "tool_started", "tool_finished", "run_completed", "run_failed"}
             /\ Stage' = CASE event'.type \in {"iteration_started", "text", "reasoning"} -> "model"
                         [] event'.type = "run_completed" -> "completed"
                         [] event'.type = "run_failed" -> "failed"
                         [] OTHER -> "answered"
  <2>1. event'.type \in {"iteration_started", "text", "reasoning", "iteration_completed",
                       "tool_started", "tool_finished", "run_completed", "run_failed"}
    BY <1>2 DEF Event
  <2> QED BY <2>1 DEF Stage
<1> QED BY <1>1, <1>2

-----------------------------------------------------------------------------
(* The steps of the loop *)

\* Where the loop ends, or goes on without a batch, little is left to keep.
LEMMA Outside ==
    ASSUME LoopInv, TypeOK', ReportsFit', StageFits', HistoryFits', NoStrayHandler',
           pc' \notin {"calls", "gather", "collect"},
           \A c \in Call : /\ task'[c].pc = "backoff" => task'[c].attempt < Attempts(task'[c])
                           /\ task'[c].pc = "handler" => task'[c].attempt <= Attempts(task'[c]),
           pc' \in {"enter", "loop", "model", "answered"} =>
               \A c \in Call : ~Live(c)' /\ ~Erred(c)'
    PROVE  LoopInv'
  BY DEF LoopInv, BatchFits, TaskFits, Working

LEMMA EnterStep == ASSUME LoopInv, Enter PROVE LoopInv'
<1>1. /\ pc = "enter" /\ pc' \in {"loop", "raised"}
      /\ UNCHANGED <<iteration, history, calls, announced, results, task, event, pulled>>
  BY DEF Enter
<1>2. TypeOK'
  BY <1>1 DEF LoopInv, TypeOK, Ended
<1>3. StageFits'
  BY <1>1 DEF LoopInv, StageFits, Working
<1>4. HistoryFits'
  BY <1>1 DEF LoopInv, HistoryFits
<1>5. \A c \in Call : ~Live(c) /\ ~Erred(c)
  BY <1>1 DEF LoopInv, TaskFits
<1> QED BY <1>1, <1>2, <1>3, <1>4, <1>5, QuietStep, KeepTasks, Outside

LEMMA DeltaStep == ASSUME LoopInv, Delta PROVE LoopInv'
<1>1. /\ pc = "model" /\ pc' = pc
      /\ UNCHANGED <<iteration, history, calls, announced, results, task>>
      /\ event' \in Event /\ event'.type \in {"text", "reasoning"} /\ event' # None /\ pulled' = FALSE
  BY Yielded DEF Delta
<1>2. TypeOK'
  BY <1>1 DEF LoopInv, TypeOK, Ended
<1>3. StageFits'
  BY <1>1, RecordFits, StageMeans, StageBecomes DEF LoopInv, StageFits, Working
<1>4. HistoryFits'
  BY <1>1 DEF LoopInv, HistoryFits
<1>5. \A c \in Call : ~Live(c) /\ ~Erred(c)
  BY <1>1 DEF LoopInv, TaskFits
<1> QED BY <1>1, <1>2, <1>3, <1>4, <1>5, QuietStep, KeepTasks, Outside

LEMMA ModelFailsStep == ASSUME LoopInv, ModelFails PROVE LoopInv'
<1>1. /\ pc = "model" /\ pc' = "exit"
      /\ UNCHANGED <<iteration, history, calls, announced, results, task>>
      /\ event' \in Event /\ event' # None /\ pulled' = FALSE
  BY Yielded DEF ModelFails
<1>2. TypeOK'
  BY <1>1 DEF LoopInv, TypeOK, Ended
<1>3. StageFits'
  BY <1>1, RecordFits, StageMeans, StageBecomes DEF LoopInv, StageFits, Working
<1>4. HistoryFits'
  BY <1>1 DEF LoopInv, HistoryFits
<1> QED BY <1>1, <1>2, <1>3, <1>4, QuietStep, KeepTasks, Outside

LEMMA LookAtCallsStep == ASSUME LoopInv, LookAtCalls PROVE LoopInv'
<1>1. /\ pc = "answered"
      /\ UNCHANGED <<iteration, history, calls, announced, results, task>>
      /\ \/ pc' = "exit" /\ event' \in Event /\ event' # None /\ pulled' = FALSE
         \/ pc' = "calls" /\ calls # <<>> /\ event' = event /\ pulled' = pulled
  BY Yielded DEF LookAtCalls
<1>2. TypeOK'
  BY <1>1 DEF LoopInv, TypeOK, Ended
<1>3. StageFits'
  <2>1. calls # <<>> => Asked # {}
    <3>1. calls # <<>> => 1 \in DOMAIN calls
      BY DEF LoopInv, TypeOK
    <3> QED BY <3>1 DEF Asked, Range
  <2> QED BY <1>1, <2>1, QuietStep, RecordFits, StageMeans, StageBecomes DEF LoopInv, StageFits, Working
<1>4. HistoryFits'
  BY <1>1 DEF LoopInv, HistoryFits
<1>5. CASE pc' = "exit"
  BY <1>1, <1>2, <1>3, <1>4, <1>5, QuietStep, KeepTasks, Outside
<1>6. CASE pc' = "calls"
  <2>1. announced' = <<>> /\ results' = <<>> /\ Announced' = {} /\ Finished' = {} /\ Waiting' = {}
    BY <1>1 DEF LoopInv, StageFits, Announced, Finished, Range, Waiting
  <2>2. BatchFits'
    BY <1>6, <2>1 DEF BatchFits, Working
  <2>3. TaskFits'
    BY <1>1, <1>6, QuietStep DEF LoopInv, TaskFits
  <2>4. NoStrayHandler' /\ ReportsFit'
    BY <1>1, KeepTasks, QuietStep
  <2> QED BY <1>2, <1>3, <1>4, <2>2, <2>3, <2>4 DEF LoopInv
<1> QED BY <1>1, <1>5, <1>6

LEMMA ExitStep == ASSUME LoopInv, Exit PROVE LoopInv'
<1>1. /\ pc = "exit" /\ pc' \in {"ended", "raised"}
      /\ UNCHANGED <<iteration, history, calls, announced, results, task, event, pulled>>
  BY DEF Exit
<1>2. TypeOK'
  BY <1>1 DEF LoopInv, TypeOK, Ended
<1>3. StageFits'
  BY <1>1 DEF LoopInv, StageFits, Working
<1>4. HistoryFits'
  BY <1>1 DEF LoopInv, HistoryFits
<1> QED BY <1>1, <1>2, <1>3, <1>4, QuietStep, KeepTasks, Outside

LEMMA GatherFailsStep == ASSUME LoopInv, GatherFails PROVE LoopInv'
<1>1. /\ pc = "gather" /\ pc' = "exit"
      /\ UNCHANGED <<iteration, history, calls, announced, results, task>>
      /\ event' \in Event /\ event' # None /\ pulled' = FALSE
  BY Yielded DEF GatherFails
<1>2. TypeOK'
  BY <1>1 DEF LoopInv, TypeOK, Ended
<1>3. StageFits'
  <2>1. event # None
    BY <1>1, RecordFits, StageMeans, StageBecomes DEF LoopInv, StageFits, Working
  <2> QED BY <1>1, <2>1 DEF LoopInv, StageFits, Working
<1>4. HistoryFits'
  BY <1>1 DEF LoopInv, HistoryFits
<1>5. \E d \in Announced : Erred(d)
  BY <1>1 DEF GatherFails, LoopInv, BatchFits, Erred
<1> QED BY <1>1, <1>2, <1>3, <1>4, <1>5, QuietStep, KeepTasks, Outside

LEMMA GatheredStep == ASSUME LoopInv, Gathered PROVE LoopInv'
<1>1. /\ pc = "gather" /\ pc' = "collect"
      /\ UNCHANGED <<iteration, history, calls, announced, results, task, event, pulled>>
      /\ \A c \in Batch : ~Live(c) /\ ~Erred(c)
  BY DEF Gathered, Live, Erred
<1>2. TypeOK'
  BY <1>1 DEF LoopInv, TypeOK, Ended
<1>3. StageFits'
  BY <1>1, QuietStep DEF LoopInv, StageFits, Working, Stage
<1>4. HistoryFits'
  BY <1>1 DEF LoopInv, HistoryFits
<1>5. \A c \in Call : ~Live(c) /\ ~Erred(c)
  BY <1>1 DEF LoopInv, TaskFits
<1>6. TaskFits' /\ NoStrayHandler' /\ ReportsFit'
  BY <1>1, <1>5, KeepTasks, QuietStep DEF TaskFits
<1>7. BatchFits'
  BY <1>1, QuietStep DEF LoopInv, BatchFits, Working
<1> QED BY <1>2, <1>3, <1>4, <1>6, <1>7 DEF LoopInv

\* When every announced call has its result, there are as many of both.
LEMMA NoneWaits ==
    ASSUME NEW r \in Seq(Result), NEW a \in Seq(Call), IsInjective(a), Len(r) <= Len(a),
           \A j \in 1 .. Len(r) : r[j].call = a[j],
           Range(a) \subseteq {r[k].call : k \in DOMAIN r}
    PROVE  Len(r) = Len(a)
<1>1. Len(r) \in Nat /\ Len(a) \in Nat /\ DOMAIN r = 1 .. Len(r) /\ DOMAIN a = 1 .. Len(a)
  BY LenProperties
<1>2. ASSUME Len(r) < Len(a) PROVE FALSE
  <2>1. Len(a) \in DOMAIN a
    BY <1>1, <1>2
  <2>2. PICK j \in DOMAIN r : r[j].call = a[Len(a)]
    BY <2>1 DEF Range
  <2>3. j \in DOMAIN a /\ j # Len(a) /\ a[j] = a[Len(a)]
    BY <1>1, <1>2, <2>2
  <2> QED BY <2>1, <2>3 DEF IsInjective
<1>3. Len(r) \in Nat /\ Len(a) \in Nat
  BY <1>1
<1> QED BY <1>2, <1>3

LEMMA Reported ==
    ASSUME LoopInv
    PROVE  /\ Finished \subseteq Announced
           /\ Announced \subseteq Finished => Len(results) = Len(announced)
<1>1. /\ results \in Seq(Result) /\ announced \in Seq(Call) /\ IsInjective(announced)
      /\ Len(results) <= Len(announced)
      /\ \A j \in 1 .. Len(results) : results[j].call = announced[j]
  BY DEF LoopInv, TypeOK, ReportsFit
<1>2. /\ DOMAIN results = 1 .. Len(results) /\ DOMAIN announced = 1 .. Len(announced)
      /\ Len(results) \in Nat /\ Len(announced) \in Nat
  BY <1>1
<1>3. Finished \subseteq Announced
  BY <1>1, <1>2 DEF Finished, Announced, Range
<1>4. PICK r, a : r = results /\ a = announced
  OBVIOUS
<1> QED BY <1>1, <1>3, <1>4, NoneWaits DEF Finished, Announced

LEMMA StartIterationStep == ASSUME LoopInv, StartIteration PROVE LoopInv'
<1>1. /\ pc' = "model" /\ iteration < HardCap /\ iteration' = iteration + 1
      /\ calls' = <<>> /\ announced' = <<>> /\ results' = <<>> /\ history' = history
      /\ event' \in Event /\ event'.type = "iteration_started" /\ event' # None
      /\ pulled' = FALSE
  BY Yielded DEF StartIteration
<1>2. /\ NoTask \in Task /\ task' \in [Call -> Task]
      /\ \A c \in Call : task'[c].pc = "none"
  <2>1. 0 \in 0 .. MaxAttempts
    BY BoundsPositive
  <2>2. NoTask \in Task /\ NoTask.pc = "none"
    BY <2>1 DEF NoTask, Task
  <2> QED BY <2>2 DEF StartIteration
<1>3. TypeOK'
  <2>1. iteration' \in 0 .. HardCap
    BY <1>1, BoundsPositive DEF LoopInv, TypeOK
  <2>2. <<>> \in Seq(Call) /\ <<>> \in Seq(Result)
    OBVIOUS
  <2> QED BY <1>1, <1>2, <2>1, <2>2 DEF LoopInv, TypeOK
<1>4. StageFits'
  BY <1>1, RecordFits, StageBecomes DEF LoopInv, StageFits, Working
<1>5. ReportsFit'
  <2>1. DOMAIN <<>> = {}
    OBVIOUS
  <2> QED BY <1>1, <2>1 DEF ReportsFit, IsInjective, Announced, Asked, Range
<1>6. HistoryFits'
  BY <1>1 DEF StartIteration, LoopInv, HistoryFits
<1>7. \A c \in Call : ~Live(c)' /\ ~Erred(c)'
  BY <1>2 DEF Live, Erred
<1>8. NoStrayHandler'
  BY <1>7 DEF NoStrayHandler
<1> QED BY <1>1, <1>2, <1>3, <1>4, <1>5, <1>6, <1>7, <1>8, Outside

\* One more message at the end of the history.
LEMMA Lengthened ==
    ASSUME NEW h \in Seq(Message), NEW m \in Message, \A k \in 1 .. Len(h) : Paired(h, k),
           \/ m.kind = "answer" /\ (h = <<>> \/ h[Len(h)].kind = "results")
           \/ /\ m.kind = "results" /\ h # <<>> /\ h[Len(h)].kind = "answer"
              /\ Range(m.calls) = Range(h[Len(h)].calls)
              /\ [j \in DOMAIN m.results |-> m.results[j].call] = m.calls
              /\ IsInjective(m.calls)
    PROVE  /\ Append(h, m) \in Seq(Message) /\ Append(h, m) # <<>>
           /\ Append(h, m)[Len(Append(h, m))] = m
           /\ \A k \in 1 .. Len(Append(h, m)) : Paired(Append(h, m), k)
<1> DEFINE g == Append(h, m)
<1>1. /\ g \in Seq(Message) /\ Len(g) = Len(h) + 1 /\ Len(h) \in Nat /\ g[Len(h) + 1] = m
      /\ \A k \in 1 .. Len(h) : g[k] = h[k]
      /\ g # <<>>
  <2>1. /\ g \in Seq(Message) /\ Len(g) = Len(h) + 1 /\ g[Len(h) + 1] = m
        /\ \A k \in 1 .. Len(h) : g[k] = h[k]
    BY AppendProperties
  <2>2. Len(h) \in Nat
    BY LenProperties
  <2> HIDE DEF g
  <2>3. g # <<>>
    BY <2>1, <2>2
  <2> QED BY <2>1, <2>2, <2>3
<1> HIDE DEF g
<1>2. ASSUME NEW k \in 1 .. Len(h) PROVE Paired(g, k)
  <2>1. Paired(h, k) /\ g[k] = h[k]
    BY <1>1
  <2>2. k > 1 => g[k - 1] = h[k - 1]
    BY <1>1
  <2>3. CASE k < Len(h)
    <3>1. g[k + 1] = h[k + 1] /\ k < Len(g)
      BY <1>1, <2>3
    <3> QED BY <2>1, <2>2, <2>3, <3>1 DEF Paired
  <2>4. CASE k = Len(h)
    <3>1. g[k + 1] = m
      BY <1>1, <2>4
    <3>2. h[k].kind = "answer" => m.kind = "results"
      BY <2>4
    <3> QED BY <2>1, <2>2, <3>1, <3>2 DEF Paired
  <2> QED BY <2>3, <2>4
<1>3. Paired(g, Len(h) + 1)
  <2>1. h # <<>> => Len(h) >= 1 /\ g[Len(h)] = h[Len(h)]
    BY <1>1
  <2> QED BY <1>1, <2>1 DEF Paired
<1> QED BY <1>1, <1>2, <1>3 DEF g

LEMMA ModelAnswersStep == ASSUME LoopInv, ModelAnswers PROVE LoopInv'
<1>1. /\ pc = "model" /\ pc' = "answered"
      /\ UNCHANGED <<iteration, announced, results>>
      /\ event' \in Event /\ event'.type = "iteration_completed" /\ event' # None
      /\ pulled' = FALSE /\ announced = <<>> /\ results = <<>>
  BY Yielded DEF ModelAnswers, LoopInv, StageFits
<1>2. calls' \in Seq(Call) /\ IsInjective(calls')
  <2>1. Cardinality(Call) \in Nat
    BY CallsFinite, FS_CardinalityType
  <2>2. PICK n \in 0 .. Cardinality(Call) : calls' \in [1 .. n -> Call]
    BY DEF ModelAnswers, Answers
  <2>3. n \in Nat
    BY <2>1
  <2>4. calls' \in Seq(Call)
    BY <2>2, <2>3, SeqDef
  <2> QED BY <2>4 DEF ModelAnswers, Answers
<1>3. PICK tool \in [Range(calls') -> Tool] :
          task' = [c \in Call |-> IF c \in DOMAIN tool THEN [NoTask EXCEPT !.tool = tool[c]]
                                  ELSE NoTask]
  BY DEF ModelAnswers
<1>4. task' \in [Call -> Task] /\ \A c \in Call : task'[c].pc = "none"
  <2>1. 0 \in 0 .. MaxAttempts
    BY BoundsPositive
  <2>2. NoTask \in Task /\ \A t \in Tool : [NoTask EXCEPT !.tool = t] \in Task
                                            /\ [NoTask EXCEPT !.tool = t].pc = "none"
    BY <2>1 DEF NoTask, Task
  <2> QED BY <1>3, <2>2 DEF NoTask
<1>5. /\ history' \in Seq(Message) /\ history' # <<>>
      /\ history'[Len(history')].kind = "answer" /\ history'[Len(history')].calls = calls'
      /\ \A k \in 1 .. Len(history') : Paired(history', k)
  <2>1. PICK m : m = [kind |-> "answer", calls |-> calls', results |-> <<>>]
    OBVIOUS
  <2>2. m \in Message /\ m.kind = "answer" /\ m.calls = calls'
    BY <1>2, <2>1 DEF Message
  <2>3. history \in Seq(Message) /\ (history = <<>> \/ history[Len(history)].kind = "results")
        /\ \A k \in 1 .. Len(history) : Paired(history, k)
    BY <1>1 DEF LoopInv, TypeOK, HistoryFits
  <2>4. history' = Append(history, m)
    BY <2>1 DEF ModelAnswers
  <2>5. PICK h : h = history
    OBVIOUS
  <2> QED BY <2>2, <2>3, <2>4, <2>5, Lengthened
<1>6. TypeOK'
  BY <1>1, <1>2, <1>4, <1>5 DEF LoopInv, TypeOK
<1>7. StageFits'
  BY <1>1, RecordFits, StageMeans DEF LoopInv, StageFits, Working
<1>8. ReportsFit'
  <2>1. DOMAIN <<>> = {}
    OBVIOUS
  <2> QED BY <1>1, <1>2, <2>1 DEF ReportsFit, IsInjective, Announced, Asked, Range
<1>9. HistoryFits'
  BY <1>1, <1>5 DEF HistoryFits
<1>10. \A c \in Call : ~Live(c)' /\ ~Erred(c)'
  BY <1>4 DEF Live, Erred
<1>11. NoStrayHandler'
  BY <1>10 DEF NoStrayHandler
<1> QED BY <1>1, <1>4, <1>6, <1>7, <1>8, <1>9, <1>10, <1>11, Outside

LEMMA FinishCallsStep == ASSUME LoopInv, FinishCalls PROVE LoopInv'
<1>1. /\ pc = "calls" /\ pc' = "loop" /\ Batch = {}
      /\ UNCHANGED <<iteration, calls, announced, results, task, event, pulled>>
  BY DEF FinishCalls
<1>2. Asked \subseteq Finished
  BY <1>1, BatchShape
<1>3. /\ Finished \subseteq Announced /\ Announced \subseteq Asked
      /\ Len(results) = Len(announced)
  BY <1>2, Reported DEF LoopInv, ReportsFit
<1>4. Finished = Asked /\ Announced = Asked
  BY <1>2, <1>3
<1>5. [j \in DOMAIN results |-> results[j].call] = announced
  <2>1. results \in Seq(Result) /\ announced \in Seq(Call)
    BY DEF LoopInv, TypeOK
  <2>2. \A j \in 1 .. Len(results) : results[j].call = announced[j]
    BY DEF LoopInv, ReportsFit
  <2> QED BY <1>3, <2>1, <2>2
<1>6. /\ history' \in Seq(Message) /\ history' # <<>>
      /\ history'[Len(history')].kind = "results"
      /\ \A k \in 1 .. Len(history') : Paired(history', k)
  <2>1. PICK m : m = [kind |-> "results", calls |-> announced, results |-> results]
    OBVIOUS
  <2>2. /\ m \in Message /\ m.kind = "results" /\ m.calls = announced
        /\ Range(m.calls) = Range(calls)
        /\ [j \in DOMAIN m.results |-> m.results[j].call] = m.calls
        /\ IsInjective(m.calls)
    BY <1>4, <1>5, <2>1 DEF Message, LoopInv, TypeOK, ReportsFit, Announced, Asked
  <2>3. /\ history \in Seq(Message) /\ history # <<>>
        /\ history[Len(history)].kind = "answer" /\ history[Len(history)].calls = calls
        /\ \A k \in 1 .. Len(history) : Paired(history, k)
    BY <1>1 DEF LoopInv, TypeOK, HistoryFits
  <2>4. history' = Append(history, m)
    BY <2>1 DEF FinishCalls
  <2>5. PICK h : h = history
    OBVIOUS
  <2> QED BY <2>2, <2>3, <2>4, <2>5, Lengthened
<1>7. TypeOK'
  BY <1>1, <1>6 DEF LoopInv, TypeOK
<1>8. /\ ReportsFit' /\ Finished' = Finished /\ Asked' = Asked
  BY <1>1, SameBatch
<1>9. StageFits'
  BY <1>1, <1>4, <1>8, RecordFits, StageMeans, StageBecomes DEF LoopInv, StageFits, Working
<1>10. HistoryFits'
  BY <1>1, <1>6 DEF HistoryFits
<1>11. \A c \in Call : ~Live(c) /\ ~Erred(c) /\ Live(c)' = Live(c) /\ Erred(c)' = Erred(c)
  BY <1>1 DEF LoopInv, TaskFits, Live, Erred
<1> QED BY <1>1, <1>7, <1>8, <1>9, <1>10, <1>11, KeepTasks, Outside

LEMMA AnnounceStep == ASSUME LoopInv, Announce PROVE LoopInv'
<1> DEFINE c == First(Batch \ Announced)
<1>1. /\ pc = "calls" /\ pc' = pc
      /\ UNCHANGED <<iteration, history, calls, results, task>>
      /\ announced' = Append(announced, c)
  BY DEF Announce
<1>2. calls \in Seq(Call) /\ IsInjective(calls) /\ Batch \ Announced \subseteq Asked
      /\ Batch \ Announced # {}
  BY BatchShape DEF LoopInv, TypeOK, ReportsFit, Announce
<1>3. /\ c \in Batch \ Announced
      /\ \A b \in Batch \ Announced : Place(calls, c) <= Place(calls, b)
  BY <1>2, FirstOf
<1>4. c \in Asked /\ c \in Call
  BY <1>2, <1>3, RecordFits
<1>5. event' \in Event /\ event'.type = "tool_started" /\ event' # None /\ pulled' = FALSE
  BY <1>4, Yielded DEF Announce
<1> HIDE DEF c
<1>6. /\ announced \in Seq(Call) /\ announced' \in Seq(Call)
      /\ Len(announced') = Len(announced) + 1 /\ Len(announced) \in Nat
      /\ announced'[Len(announced) + 1] = c
      /\ \A i \in 1 .. Len(announced) : announced'[i] = announced[i]
  BY <1>1, <1>4, AppendProperties, LenProperties DEF LoopInv, TypeOK
<1>7. /\ Batch' = Batch /\ Serials' = Serials /\ Asked' = Asked /\ Finished' = Finished
  BY <1>1, BatchStays
<1>8. DOMAIN announced = 1 .. Len(announced) /\ DOMAIN announced' = 1 .. Len(announced) + 1
  BY <1>6, LenProperties
<1>9. Announced' = Announced \cup {c}
  BY <1>6, <1>8 DEF Announced, Range
<1>10. TypeOK'
  BY <1>1, <1>5, <1>6 DEF LoopInv, TypeOK
<1>11. StageFits'
  BY <1>1, <1>5, <1>7, RecordFits, StageMeans, StageBecomes DEF LoopInv, StageFits, Working
<1>12. ReportsFit'
  <2>1. IsInjective(announced')
    <3>1. \A i \in 1 .. Len(announced) : announced[i] # c
      BY <1>3, <1>8 DEF Announced, Range
    <3> QED BY <1>6, <1>8, <3>1 DEF LoopInv, ReportsFit, IsInjective
  <2>2. Announced' \subseteq Asked'
    BY <1>4, <1>7, <1>9 DEF LoopInv, ReportsFit
  <2>3. Len(results) \in Nat /\ Len(results) <= Len(announced)
    BY DEF LoopInv, TypeOK, ReportsFit
  <2>4. \A j \in 1 .. Len(results) : results[j].call = announced'[j]
    BY <1>6, <2>3 DEF LoopInv, ReportsFit
  <2> QED BY <1>1, <1>6, <2>1, <2>2, <2>3, <2>4 DEF LoopInv, ReportsFit
<1>13. BatchFits'
  <2>1. Waiting' = Waiting \cup {Len(announced) + 1} /\ Waiting \subseteq 1 .. Len(announced)
    BY <1>1, <1>6 DEF Waiting, LoopInv, TypeOK, ReportsFit
  <2>2. /\ Announced \subseteq Finished \cup Batch
        /\ \A i, j \in Waiting : i < j => Place(calls, announced[i]) < Place(calls, announced[j])
        /\ Finished = {} \/ Asked \ Serials \subseteq Finished
        /\ \A i \in Waiting : \A b \in Batch \ Announced :
              Place(calls, announced[i]) < Place(calls, b)
    BY <1>1 DEF LoopInv, BatchFits, Working
  <2>3. \A i, j \in Waiting' : i < j => Place(calls, announced'[i]) < Place(calls, announced'[j])
    BY <1>3, <1>6, <2>1, <2>2
  <2>4. ASSUME NEW b \in Batch \ Announced' PROVE Place(calls, c) < Place(calls, b)
    <3>1. b \in Asked /\ b \in Batch \ Announced /\ b # c
      BY <1>2, <1>9, <2>4
    <3>2. Place(calls, b) # Place(calls, c)
      BY <1>4, <3>1, PlaceOf
    <3>3. Place(calls, b) \in Int /\ Place(calls, c) \in Int
      BY <1>2, <1>4, <3>1, PlaceOf
    <3> QED BY <1>3, <3>1, <3>2, <3>3
  <2>5. \A i \in Waiting' : \A b \in Batch \ Announced' :
              Place(calls, announced'[i]) < Place(calls, b)
    BY <1>6, <1>9, <2>1, <2>2, <2>4
  <2>6. Announced' \subseteq Finished \cup Batch
    BY <1>3, <1>9, <2>2
  <2> QED BY <1>1, <1>7, <2>2, <2>3, <2>5, <2>6 DEF BatchFits, Working
<1>14. \A x \in Call : ~Live(x) /\ ~Erred(x) /\ Live(x)' = Live(x) /\ Erred(x)' = Erred(x)
  BY <1>1 DEF LoopInv, TaskFits, Live, Erred
<1>15. TaskFits' /\ NoStrayHandler'
  BY <1>1, <1>14 DEF LoopInv, TaskFits, NoStrayHandler
<1>16. HistoryFits'
  BY <1>1, KeepHistory
<1> QED BY <1>10, <1>11, <1>12, <1>13, <1>15, <1>16 DEF LoopInv

\* A call is tried once, or at most MaxAttempts times.
LEMMA AttemptsBound ==
    ASSUME NEW t \in Task
    PROVE  Attempts(t) \in 1 .. MaxAttempts
<1>1. 1 \in 1 .. MaxAttempts /\ MaxAttempts \in 1 .. MaxAttempts
  BY BoundsPositive
<1> QED BY <1>1 DEF Attempts

LEMMA ScheduledTask ==
    ASSUME NEW t \in Task
    PROVE  /\ Scheduled(t) \in Task
           /\ Scheduled(t).tool = t.tool
           /\ Scheduled(t).pc \in {"handler", "error"}
           /\ Scheduled(t).pc = "handler" => Scheduled(t).attempt = 1
<1>1. 1 \in 0 .. MaxAttempts
  BY BoundsPositive
<1>2. CASE t.tool \in Registered
  <2>1. Scheduled(t) = [t EXCEPT !.pc = "handler", !.attempt = 1]
    BY <1>2 DEF Scheduled
  <2> QED BY <1>1, <2>1 DEF Task
<1>3. CASE t.tool \notin Registered
  <2>1. Scheduled(t) = [t EXCEPT !.pc = "error"]
    BY <1>3 DEF Scheduled
  <2> QED BY <2>1 DEF Task
<1> QED BY <1>2, <1>3

LEMMA ExecuteStep == ASSUME LoopInv, Execute PROVE LoopInv'
<1>1. /\ pc = "calls" /\ pc' = "gather" /\ Batch # {} /\ Batch \subseteq Announced
      /\ UNCHANGED <<iteration, history, calls, announced, results, event, pulled>>
      /\ task' = [c \in Call |-> IF c \in Batch THEN Scheduled(task[c]) ELSE task[c]]
  BY DEF Execute
<1>2. /\ task' \in [Call -> Task]
      /\ \A c \in Call : task'[c].tool = task[c].tool
      /\ \A c \in Batch : /\ task'[c].pc \in {"handler", "error"}
                          /\ task'[c].pc = "handler" => task'[c].attempt = 1
      /\ \A c \in Call \ Batch : task'[c] = task[c]
  <2>1. Batch \subseteq Call
    BY BatchShape, RecordFits
  <2> QED BY <1>1, <2>1, RecordFits, ScheduledTask
<1>3. TypeOK'
  BY <1>1, <1>2 DEF LoopInv, TypeOK
<1>4. /\ ReportsFit' /\ Batch' = Batch /\ Serials' = Serials /\ Asked' = Asked
      /\ Finished' = Finished /\ Announced' = Announced /\ Waiting' = Waiting
  BY <1>1, <1>2, SameBatch
<1>5. StageFits'
  BY <1>1, <1>4, RecordFits, StageMeans, StageBecomes DEF LoopInv, StageFits, Working
<1>6. Batch \ Finished # {}
  BY <1>1, BatchShape DEF LoopInv, BatchFits
<1>7. BatchFits'
  BY <1>1, <1>4, <1>6 DEF LoopInv, BatchFits, Working
<1>8. \A c \in Call : ~Live(c) /\ ~Erred(c)
  BY <1>1 DEF LoopInv, TaskFits
<1>9. \A c \in Call : Live(c)' \/ Erred(c)' => c \in Batch
  BY <1>2, <1>8 DEF Live, Erred
<1>10. TaskFits'
  <2>1. ASSUME NEW c \in Call
        PROVE  /\ task'[c].pc = "backoff" => task'[c].attempt < Attempts(task'[c])
               /\ task'[c].pc = "handler" => task'[c].attempt <= Attempts(task'[c])
    <3>1. Attempts(task'[c]) \in 1 .. MaxAttempts
      BY <1>2, AttemptsBound
    <3>2. Attempts(task'[c]) >= 1
      BY <3>1, BoundsPositive
    <3> QED BY <1>2, <1>8, <3>2 DEF Live
  <2> QED BY <1>1, <1>4, <1>9, <2>1 DEF TaskFits
<1>11. NoStrayHandler'
  <2>1. ASSUME NEW c \in Call, NEW d \in Call, Live(c)', Live(d)', task'[c].tool \in Serial
        PROVE  c = d
    <3>1. c \in Batch /\ d \in Batch /\ c \in Serials
      BY <1>2, <1>9, <2>1, BatchShape DEF Serials
    <3> QED BY <3>1, BatchShape
  <2> QED BY <1>1, <2>1 DEF NoStrayHandler
<1>12. HistoryFits'
  BY <1>1, KeepHistory
<1> QED BY <1>3, <1>4, <1>5, <1>7, <1>10, <1>11, <1>12 DEF LoopInv

LEMMA CollectStep == ASSUME LoopInv, Collect PROVE LoopInv'
<1> DEFINE c == First(Batch \ Finished)
           n == Len(results) + 1
<1>1. /\ pc = "collect" /\ UNCHANGED <<iteration, history, calls, announced, task>>
      /\ pc' = IF Batch \ Finished = {c} THEN "calls" ELSE "collect"
  BY DEF Collect
<1>2. /\ Batch \subseteq Announced /\ Batch \ Finished # {} /\ Announced \subseteq Finished \cup Batch
      /\ \A i, j \in Waiting : i < j => Place(calls, announced[i]) < Place(calls, announced[j])
  BY <1>1 DEF LoopInv, BatchFits, Working
<1>3. calls \in Seq(Call) /\ IsInjective(calls) /\ Batch \subseteq Asked
  BY BatchShape DEF LoopInv, TypeOK, ReportsFit
<1>4. /\ c \in Batch \ Finished
      /\ \A b \in Batch \ Finished : Place(calls, c) <= Place(calls, b)
  BY <1>2, <1>3, FirstOf
<1>5. c \in Call /\ c \in Announced /\ c \notin Finished
  BY <1>2, <1>3, <1>4, RecordFits
<1>6. PICK status \in {"ok", "error"} : /\ results' = Append(results, [call |-> c, status |-> status])
                                        /\ Yield("tool_finished", c, status)
  BY DEF Collect
<1>7. event' \in Event /\ event'.type = "tool_finished" /\ event' # None /\ pulled' = FALSE
  BY <1>5, <1>6, Yielded
<1>8. PICK r \in Result : r.call = c /\ results' = Append(results, r)
  BY <1>5, <1>6 DEF Result
<1> HIDE DEF c
<1>9. /\ results \in Seq(Result) /\ results' \in Seq(Result) /\ Len(results') = n
      /\ Len(results) \in Nat /\ results'[n] = r
      /\ \A j \in 1 .. Len(results) : results'[j] = results[j]
  BY <1>8, AppendProperties, LenProperties DEF LoopInv, TypeOK
<1>10. DOMAIN results = 1 .. Len(results) /\ DOMAIN results' = 1 .. n
  BY <1>9, LenProperties
<1>11. Finished' = Finished \cup {c}
  BY <1>8, <1>9, <1>10 DEF Finished
<1>12. /\ announced \in Seq(Call) /\ IsInjective(announced) /\ Len(announced) \in Nat
       /\ DOMAIN announced = 1 .. Len(announced) /\ Len(results) <= Len(announced)
       /\ \A j \in 1 .. Len(results) : results[j].call = announced[j]
  BY LenProperties DEF LoopInv, TypeOK, ReportsFit
<1>13. PICK i \in 1 .. Len(announced) : announced[i] = c
  BY <1>5, <1>12 DEF Announced, Range
<1>14. i >= n
  BY <1>5, <1>9, <1>10, <1>12, <1>13 DEF Finished
<1>15. i = n
  <2> SUFFICES ASSUME n < i PROVE FALSE
    BY <1>9, <1>14
  <2> DEFINE a == announced[n]
  <2>1. n \in Waiting /\ i \in Waiting /\ n \in DOMAIN announced
    BY <1>9, <1>12, <1>14 DEF Waiting
  <2>2. a \in Announced
    BY <2>1 DEF Announced, Range
  <2>3. a \notin Finished
    BY <1>9, <1>10, <1>12, <2>1 DEF Finished, IsInjective
  <2>4. a \in Batch \ Finished
    BY <1>2, <2>2, <2>3
  <2>5. Place(calls, c) <= Place(calls, a) /\ Place(calls, a) < Place(calls, c)
    BY <1>2, <1>4, <1>13, <2>1, <2>4
  <2>6. Place(calls, c) \in Int /\ Place(calls, a) \in Int
    BY <1>3, <1>4, <2>4, PlaceOf
  <2> HIDE DEF a
  <2> QED BY <2>5, <2>6
<1>16. Asked' = Asked /\ Announced' = Announced /\ Serials' = Serials
  BY <1>1 DEF Asked, Announced, Serials
<1>17. ReportsFit'
  <2>1. \A j \in 1 .. n : results'[j].call = announced[j]
    BY <1>8, <1>9, <1>12, <1>13, <1>15
  <2>2. n <= Len(announced)
    BY <1>13, <1>15
  <2> QED BY <1>1, <1>9, <1>16, <2>1, <2>2 DEF LoopInv, ReportsFit
<1>18. TypeOK'
  BY <1>1, <1>7, <1>9 DEF LoopInv, TypeOK
<1>19. StageFits'
  BY <1>1, <1>7, <1>16, RecordFits, StageMeans, StageBecomes DEF LoopInv, StageFits, Working
<1>20. \A x \in Call : ~Live(x) /\ ~Erred(x) /\ Live(x)' = Live(x) /\ Erred(x)' = Erred(x)
  BY <1>1 DEF LoopInv, TaskFits, Live, Erred
<1>21. TaskFits' /\ NoStrayHandler'
  BY <1>1, <1>20 DEF LoopInv, TaskFits, NoStrayHandler
<1>22. HistoryFits'
  BY <1>1, KeepHistory
<1>23. BatchFits'
  <2>1. CASE Batch \ Finished = {c}
    <3>1. Announced' \subseteq Finished'
      BY <1>2, <1>11, <1>16, <2>1
    <3>2. PICK s, a : s = results' /\ a = announced
      OBVIOUS
    <3>3. Len(s) = Len(a)
      BY <1>1, <1>9, <1>12, <1>17, <3>1, <3>2, NoneWaits DEF ReportsFit, Finished, Announced
    <3>4. Waiting' = {}
      BY <1>1, <1>9, <1>12, <3>2, <3>3 DEF Waiting
    <3>5. Asked \ Serials \subseteq Finished'
      BY <1>11, <2>1, BatchShape
    <3> QED BY <1>1, <1>16, <2>1, <3>1, <3>4, <3>5 DEF BatchFits, Working
  <2>2. CASE Batch \ Finished # {c}
    <3>1. PICK x \in Batch \ Finished : x # c
      BY <1>4, <2>2
    <3>2. Batch = Asked \ Serials
      BY <1>4, <3>1, BatchShape
    <3>3. x \in Asked' \ (Serials' \cup Finished')
      BY <1>3, <1>11, <1>16, <3>1, <3>2
    <3>4. Batch' = Batch
      BY <1>16, <3>2, <3>3 DEF Batch, Serials
    <3>5. Waiting' \subseteq Waiting
      BY <1>1, <1>9 DEF Waiting, LoopInv, TypeOK
    <3>6. \A k, j \in Waiting' : k < j => Place(calls, announced[k]) < Place(calls, announced[j])
      BY <1>2, <3>5
    <3>7. x \in Batch' \ Finished'
      BY <1>11, <3>1, <3>4
    <3> QED BY <1>1, <1>2, <1>11, <1>16, <2>2, <3>4, <3>6, <3>7 DEF BatchFits, Working
  <2> QED BY <2>1, <2>2
<1> QED BY <1>17, <1>18, <1>19, <1>21, <1>22, <1>23 DEF LoopInv

-----------------------------------------------------------------------------
(* Tasks, and the end from outside *)

\* What a step of the task of c does to it.
Moves(c) ==
    /\ Live(c)
    /\ task' \in [Call -> Task]
    /\ task'[c].tool = task[c].tool
    /\ task'[c].pc = "backoff" => task'[c].attempt < Attempts(task'[c])
    /\ task'[c].pc = "handler" => task'[c].attempt <= Attempts(task'[c])
    /\ \A d \in Call : d # c => task'[d] = task[d]

LEMMA TaskMoves ==
    ASSUME LoopInv, NEW c \in Call, TaskStep(c)
    PROVE  /\ Moves(c)
           /\ UNCHANGED <<pc, iteration, history, calls, announced, results, event, pulled>>
<1>1. /\ task \in [Call -> Task] /\ task[c] \in Task
      /\ task[c].pc = "backoff" => task[c].attempt < Attempts(task[c])
      /\ Attempts(task[c]) \in 1 .. MaxAttempts
  BY AttemptsBound DEF LoopInv, TypeOK, TaskFits
<1>2. ASSUME NEW place \in {"ok", "external", "error"}, Live(c), Becomes(c, place)
      PROVE  Moves(c)
  BY <1>1, <1>2 DEF Becomes, Moves, Task
<1>3. CASE HandlerFails(c)
  <2>1. \/ task[c].pc = "handler" /\ task[c].attempt < Attempts(task[c])
        \/ ~(task[c].attempt < Attempts(task[c]))
    BY <1>3 DEF HandlerFails
  <2>2. CASE task[c].attempt < Attempts(task[c])
    <3>1. task' = [task EXCEPT ![c].pc = "backoff"] /\ Live(c)
      BY <1>3, <2>2 DEF HandlerFails, Becomes, Live
    <3>2. /\ task'[c] \in Task /\ task'[c].attempt = task[c].attempt /\ task'[c].tool = task[c].tool
          /\ task'[c].pc = "backoff"
      BY <1>1, <3>1 DEF Task
    <3>3. Attempts(task'[c]) = Attempts(task[c])
      BY <3>2 DEF Attempts
    <3> QED BY <1>1, <1>3, <2>2, <3>1, <3>2, <3>3 DEF HandlerFails, Becomes, Moves
  <2>3. CASE ~(task[c].attempt < Attempts(task[c]))
    BY <1>2, <1>3, <2>3 DEF HandlerFails, Live, Becomes
  <2> QED BY <2>2, <2>3
<1>4. CASE Retry(c)
  <2>1. task' = [task EXCEPT ![c].pc = "handler", ![c].attempt = @ + 1] /\ Live(c)
    BY <1>4 DEF Retry, Live
  <2>2. task[c].attempt + 1 <= Attempts(task[c]) /\ task[c].attempt + 1 \in 0 .. MaxAttempts
    <3>1. task[c].attempt \in 0 .. MaxAttempts /\ task[c].attempt < Attempts(task[c])
      BY <1>1, <1>4 DEF Retry, Task
    <3> QED BY <1>1, <3>1, BoundsPositive
  <2>3. /\ task'[c] \in Task /\ task'[c].attempt = task[c].attempt + 1
        /\ task'[c].tool = task[c].tool /\ task'[c].pc = "handler"
    BY <1>1, <2>1, <2>2 DEF Task
  <2>4. Attempts(task'[c]) = Attempts(task[c])
    BY <2>3 DEF Attempts
  <2> QED BY <1>1, <1>4, <2>1, <2>2, <2>3, <2>4 DEF Retry, Moves
<1>5. CASE HandlerReturns(c) \/ HandlerRefuses(c) \/ HandlerRaises(c)
  BY <1>2, <1>5 DEF HandlerReturns, HandlerRefuses, HandlerRaises, Live, Becomes
<1> QED BY <1>3, <1>4, <1>5 DEF TaskStep

LEMMA TaskStepStep == ASSUME LoopInv, NEW c \in Call, TaskStep(c) PROVE LoopInv'
<1>1. /\ Live(c) /\ task' \in [Call -> Task] /\ task'[c].tool = task[c].tool
      /\ task'[c].pc = "backoff" => task'[c].attempt < Attempts(task'[c])
      /\ task'[c].pc = "handler" => task'[c].attempt <= Attempts(task'[c])
      /\ \A d \in Call : d # c => task'[d] = task[d]
      /\ UNCHANGED <<pc, iteration, history, calls, announced, results, event, pulled>>
  BY TaskMoves DEF Moves
<1>2. \A d \in Call : task'[d].tool = task[d].tool
  BY <1>1
<1>3. /\ ReportsFit' /\ Batch' = Batch /\ Serials' = Serials /\ Asked' = Asked
      /\ Finished' = Finished /\ Announced' = Announced /\ Waiting' = Waiting
  BY <1>1, <1>2, SameBatch
<1>4. TypeOK'
  BY <1>1 DEF LoopInv, TypeOK
<1>5. StageFits'
  BY <1>1, <1>3 DEF LoopInv, StageFits, Working, Stage
<1>6. BatchFits'
  BY <1>1, <1>3 DEF LoopInv, BatchFits, Working
<1>7. /\ \A d \in Call : Live(d)' => Live(d)
      /\ \A d \in Call : Erred(d)' => Erred(d) \/ d = c
      /\ \A d \in Call : Erred(d) => Erred(d)'
  BY <1>1 DEF Live, Erred
<1>8. TaskFits'
  BY <1>1, <1>3, <1>7 DEF LoopInv, TaskFits
<1>9. NoStrayHandler'
  <2>1. ASSUME NEW d \in Call, Live(d)'
        PROVE  pc' = "gather" \/ \E x \in Announced' : Erred(x)'
    <3>1. pc = "gather" \/ \E x \in Announced : Erred(x)
      BY <1>7, <2>1 DEF LoopInv, NoStrayHandler, Erred
    <3> QED BY <1>1, <1>3, <1>7, <3>1, RecordFits
  <2>2. \A d, x \in Call : Live(d)' /\ Live(x)' /\ task'[d].tool \in Serial => d = x
    BY <1>2, <1>7 DEF LoopInv, NoStrayHandler
  <2> QED BY <2>1, <2>2 DEF NoStrayHandler, Erred
<1>10. HistoryFits'
  BY <1>1, KeepHistory
<1> QED BY <1>3, <1>4, <1>5, <1>6, <1>8, <1>9, <1>10 DEF LoopInv

LEMMA DropStep == ASSUME LoopInv, Drop PROVE LoopInv'
<1>1. /\ pc' = "dropped"
      /\ UNCHANGED <<iteration, history, calls, announced, results, event, pulled>>
  BY DEF Drop
<1>2. ASSUME pc = "gather", \A c \in Batch : task[c].pc # "error" PROVE LoopInv'
  <2>1. task' = [c \in Call |-> IF Live(c) THEN [task[c] EXCEPT !.pc = "cancelled"] ELSE task[c]]
    BY <1>2 DEF Drop
  <2>2. /\ task' \in [Call -> Task]
        /\ \A c \in Call : task'[c].pc \notin {"handler", "backoff"} /\ task'[c].tool = task[c].tool
    BY <2>1, RecordFits DEF Live, Task
  <2>3. TypeOK'
    BY <1>1, <2>2 DEF LoopInv, TypeOK, Ended
  <2>4. ReportsFit'
    BY <1>1, <2>2, SameBatch
  <2>5. StageFits'
    BY <1>1 DEF LoopInv, StageFits, Working
  <2>6. HistoryFits'
    BY <1>1, KeepHistory
  <2>7. NoStrayHandler'
    BY <2>2 DEF NoStrayHandler, Live
  <2> QED BY <1>1, <2>2, <2>3, <2>4, <2>5, <2>6, <2>7, Outside
<1>3. ASSUME ~(pc = "gather" /\ \A c \in Batch : task[c].pc # "error") PROVE LoopInv'
  <2>1. task' = task
    BY <1>3 DEF Drop
  <2>2. pc # "gather" \/ \E d \in Announced : Erred(d)
    BY <1>3 DEF LoopInv, BatchFits, Erred
  <2>3. TypeOK'
    BY <1>1, <2>1 DEF LoopInv, TypeOK, Ended
  <2>4. ReportsFit'
    BY <1>1, <2>1, SameBatch
  <2>5. StageFits'
    BY <1>1 DEF LoopInv, StageFits, Working
  <2>6. HistoryFits'
    BY <1>1, KeepHistory
  <2> QED BY <1>1, <2>1, <2>2, <2>3, <2>4, <2>5, <2>6, KeepTasks, Outside
<1> QED BY <1>2, <1>3

\* The consumer asks for the next event, or nothing happens to the run.
Asks == pulled' \in BOOLEAN /\ UNCHANGED <<pc, iteration, history, calls, announced, results, task, event>>

LEMMA AsksStep == ASSUME LoopInv, Asks PROVE LoopInv'
<1>1. /\ UNCHANGED <<pc, iteration, history, calls, announced, results, task, event>>
      /\ pulled' \in BOOLEAN
  BY DEF Asks
<1>2. TypeOK'
  BY <1>1 DEF LoopInv, TypeOK
<1>3. ReportsFit' /\ NoStrayHandler'
  BY <1>1, QuietStep, KeepTasks
<1>4. StageFits' /\ BatchFits' /\ TaskFits'
  BY <1>1, QuietStep DEF LoopInv, StageFits, BatchFits, TaskFits, Working, Stage
<1>5. HistoryFits'
  BY <1>1, KeepHistory
<1> QED BY <1>2, <1>3, <1>4, <1>5 DEF LoopInv

-----------------------------------------------------------------------------
(* The loop in the stream *)

\* What any step of the stream does to the run.
RunStep == LoopStep \/ Delta \/ ModelEnds \/ (\E c \in Call : TaskStep(c)) \/ Drop \/ Asks

LEMMA StreamRuns == ASSUME LoopInv, [Next]_vars PROVE RunStep
<1>1. pulled \in BOOLEAN
  BY DEF LoopInv, TypeOK
<1>2. UNCHANGED runVars => Asks
  BY <1>1 DEF runVars, Asks
<1>3. CASE Send
  BY <1>1, <1>3 DEF Send, Pull, Asks, RunStep
<1>4. CASE Encode \/ LoopRaises \/ StreamEnds \/ PersistRaises \/ Disconnect
  BY <1>2, <1>4 DEF Encode, LoopRaises, StreamEnds, PersistRaises, Disconnect, RunStep
<1>5. CASE UNCHANGED vars
  BY <1>2, <1>5 DEF vars, RunStep
<1> QED BY <1>3, <1>4, <1>5 DEF Next, StreamStep, RunStep

LEMMA RunStepInv == ASSUME LoopInv, RunStep PROVE LoopInv'
<1>1. CASE LoopStep
  BY <1>1, EnterStep, StartIterationStep, LookAtCallsStep, AnnounceStep, ExecuteStep, GatheredStep,
     GatherFailsStep, CollectStep, FinishCallsStep, ExitStep DEF LoopStep
<1>2. CASE Delta \/ ModelEnds
  BY <1>2, DeltaStep, ModelAnswersStep, ModelFailsStep DEF ModelEnds
<1>3. CASE (\E c \in Call : TaskStep(c)) \/ Drop \/ Asks
  BY <1>3, TaskStepStep, DropStep, AsksStep
<1> QED BY <1>1, <1>2, <1>3 DEF RunStep

LEMMA RunInitInv == ASSUME RunInit PROVE LoopInv
<1>1. TypeOK
  <2>1. 0 \in 0 .. MaxAttempts /\ 0 \in 0 .. HardCap
    BY BoundsPositive
  <2>2. NoTask \in Task
    BY <2>1 DEF NoTask, Task
  <2>3. <<>> \in Seq(Call) /\ <<>> \in Seq(Result) /\ <<>> \in Seq(Message)
    OBVIOUS
  <2> QED BY <2>1, <2>2, <2>3 DEF RunInit, TypeOK
<1>2. \A c \in Call : task[c].pc = "none"
  BY DEF RunInit, NoTask
<1>3. StageFits /\ BatchFits /\ HistoryFits
  BY DEF RunInit, StageFits, BatchFits, HistoryFits, Working
<1>4. ReportsFit
  <2>1. DOMAIN <<>> = {}
    OBVIOUS
  <2> QED BY <2>1 DEF RunInit, ReportsFit, IsInjective, Announced, Asked, Range
<1>5. TaskFits /\ NoStrayHandler
  BY <1>2 DEF TaskFits, NoStrayHandler, Live, Erred
<1> QED BY <1>1, <1>3, <1>4, <1>5 DEF LoopInv

\* LoopInv holds in every state the stream can reach.
THEOREM LoopInvariant == Spec => []LoopInv
<1>1. Init => LoopInv
  BY RunInitInv DEF Init
<1>2. LoopInv /\ [Next]_vars => LoopInv'
  BY StreamRuns, RunStepInv
<1> QED BY <1>1, <1>2, PTL DEF Spec

-----------------------------------------------------------------------------
(* What follows for the loop *)

\* The types of the loop's variables, in every state.
THEOREM LoopTypes == Spec => []TypeOK
<1>1. LoopInv => TypeOK
  BY DEF LoopInv
<1> QED BY <1>1, LoopInvariant, PTL

\* The model is only ever asked with one message of results after each of its
\* answers, of the same calls and in the order in which they were announced
\* (runner.py: the messages that _run_with_port adds).
THEOREM HistoryStaysPaired == Spec => []HistoryPaired
<1>1. ASSUME LoopInv PROVE HistoryPaired
  <2>1. DOMAIN history = 1 .. Len(history) /\ Len(history) \in Nat
    BY <1>1, LenProperties DEF LoopInv, TypeOK
  <2>2. \A k \in 1 .. Len(history) : Paired(history, k)
    BY <1>1 DEF LoopInv, HistoryFits
  <2>3. ASSUME pc \in {"loop", "model"}, NEW k \in 1 .. Len(history), history[k].kind = "answer"
        PROVE  k < Len(history) /\ history[k + 1].kind = "results"
    <3>1. history = <<>> \/ history[Len(history)].kind = "results"
      BY <1>1, <2>3 DEF LoopInv, HistoryFits
    <3>2. history # <<>>
      BY <2>1
    <3>3. k # Len(history)
      BY <2>3, <3>1, <3>2
    <3>4. k < Len(history)
      <4>1. Len(history) \in Nat /\ k \in 1 .. Len(history)
        BY <2>1, <2>3
      <4> QED BY <3>3, <4>1
    <3> QED BY <2>2, <2>3, <3>4 DEF Paired
  <2>4. \A k \in 1 .. Len(history) :
            history[k].kind = "results" =>
               /\ k > 1 /\ history[k - 1].kind = "answer"
               /\ Range(history[k].calls) = Range(history[k - 1].calls)
               /\ [j \in DOMAIN history[k].results |-> history[k].results[j].call] = history[k].calls
               /\ IsInjective(history[k].calls)
    BY <2>2 DEF Paired
  <2> QED BY <2>1, <2>3, <2>4 DEF HistoryPaired
<1> QED BY <1>1, LoopInvariant, PTL

\* A tool works on after its gather only beside a ToolProgramError, and one that
\* must not run beside others never does (tools/execution.py: run_calls).
THEOREM NoHandlerStrays == Spec => []NoStrayHandler
<1>1. LoopInv => NoStrayHandler
  BY DEF LoopInv
<1> QED BY <1>1, LoopInvariant, PTL

-----------------------------------------------------------------------------
(* The loop keeps the promise of RunEvents *)

LEMMA EventsUnchanged ==
    ASSUME UNCHANGED <<iteration, calls, announced, results>>, Stage' = Stage
    PROVE  UNCHANGED Events!vars
  BY DEF Events!vars, Asked, Announced, Finished

LEMMA EventsInit == ASSUME RunInit PROVE Events!Init
<1>1. DOMAIN <<>> = {}
  OBVIOUS
<1> QED BY <1>1 DEF RunInit, Events!Init, Stage, None, Asked, Announced, Finished, Range

LEMMA AppendedRange ==
    ASSUME NEW S, NEW s \in Seq(S), NEW e \in S
    PROVE  Range(Append(s, e)) = Range(s) \cup {e}
<1>1. /\ Len(s) \in Nat
      /\ Append(s, e) \in Seq(S) /\ Len(Append(s, e)) = Len(s) + 1
      /\ Append(s, e)[Len(s) + 1] = e
      /\ \A i \in 1 .. Len(s) : Append(s, e)[i] = s[i]
  BY AppendProperties, LenProperties
<1>2. DOMAIN s = 1 .. Len(s) /\ DOMAIN Append(s, e) = 1 .. Len(s) + 1
  BY <1>1, LenProperties
<1> QED BY <1>1, <1>2 DEF Range

\* A result adds its call to the finished ones.
LEMMA AppendedResult ==
    ASSUME LoopInv, NEW c \in Call, NEW status \in {"ok", "error"},
           results' = Append(results, [call |-> c, status |-> status])
    PROVE  Finished' = Finished \cup {c}
<1>1. PICK r \in Result : r.call = c /\ results' = Append(results, r)
  BY DEF Result
<1>2. /\ results \in Seq(Result) /\ Len(results) \in Nat
      /\ results' \in Seq(Result) /\ Len(results') = Len(results) + 1
      /\ results'[Len(results) + 1] = r
      /\ \A i \in 1 .. Len(results) : results'[i] = results[i]
  BY <1>1, AppendProperties, LenProperties DEF LoopInv, TypeOK
<1>3. DOMAIN results = 1 .. Len(results) /\ DOMAIN results' = 1 .. Len(results) + 1
  BY <1>2, LenProperties
<1> QED BY <1>1, <1>2, <1>3 DEF Finished

\* Only announced calls have a result.
LEMMA FinishedAnnounced == ASSUME LoopInv PROVE Finished \subseteq Announced
<1>1. /\ DOMAIN results = 1 .. Len(results) /\ DOMAIN announced = 1 .. Len(announced)
      /\ Len(results) \in Nat /\ Len(announced) \in Nat
  BY LenProperties DEF LoopInv, TypeOK
<1>2. Len(results) <= Len(announced) /\ \A j \in 1 .. Len(results) : results[j].call = announced[j]
  BY DEF LoopInv, ReportsFit
<1>3. ASSUME NEW j \in DOMAIN results PROVE results[j].call \in Announced
  <2>1. j \in DOMAIN announced /\ results[j].call = announced[j]
    BY <1>1, <1>2, <1>3
  <2> QED BY <2>1 DEF Announced, Range
<1> QED BY <1>3 DEF Finished

\* Every step of the stream is a step of RunEvents, or none.
LEMMA EventsStep == ASSUME LoopInv, RunStep PROVE [Events!Next]_Events!vars
<1> USE DEF Events!Next
<1>1. CASE Enter \/ Execute \/ Gathered \/ FinishCalls \/ Exit \/ Drop \/ Asks
  <2>1. UNCHANGED <<iteration, calls, announced, results, event>>
    BY <1>1 DEF Enter, Execute, Gathered, FinishCalls, Exit, Drop, Asks
  <2>2. Stage' = Stage
    BY <2>1 DEF Stage
  <2> QED BY <2>1, <2>2, EventsUnchanged
<1>2. CASE StartIteration
  <2>1. /\ iteration < HardCap /\ iteration' = iteration + 1
        /\ calls' = <<>> /\ announced' = <<>> /\ results' = <<>>
        /\ event' \in Event /\ event'.type = "iteration_started"
    BY <1>2, Yielded DEF StartIteration
  <2>2. Asked' = {} /\ Announced' = {} /\ Finished' = {}
    <3>1. DOMAIN <<>> = {}
      OBVIOUS
    <3> QED BY <2>1, <3>1 DEF Asked, Announced, Finished, Range
  <2>3. Stage' = "model"
    BY <2>1, StageBecomes
  <2>4. Stage = "ready" \/ (Stage = "answered" /\ Asked # {} /\ Finished = Asked)
    BY <1>2, RecordFits, StageMeans DEF StartIteration, LoopInv, StageFits
  <2> QED BY <2>1, <2>2, <2>3, <2>4 DEF Events!Iterate
<1>3. CASE Delta
  <2>1. /\ pc = "model" /\ UNCHANGED <<iteration, calls, announced, results>>
        /\ event' \in Event /\ event'.type \in {"text", "reasoning"}
    BY <1>3, Yielded DEF Delta
  <2>2. Stage' = Stage
    BY <2>1, StageBecomes DEF LoopInv, StageFits
  <2> QED BY <2>1, <2>2, EventsUnchanged
<1>4. CASE ModelAnswers
  <2>1. /\ pc = "model" /\ UNCHANGED <<iteration, announced, results>>
        /\ event' \in Event /\ event'.type = "iteration_completed"
    BY <1>4, Yielded DEF ModelAnswers
  <2>2. Stage = "model" /\ Stage' = "answered"
    BY <2>1, StageBecomes DEF LoopInv, StageFits
  <2>3. Announced' = Announced /\ Finished' = Finished
    BY <2>1 DEF Announced, Finished
  <2>4. Asked' \in SUBSET Call
    BY <1>4, RunStepInv DEF RunStep, ModelEnds, LoopInv, TypeOK, Asked, Range
  <2> QED BY <2>1, <2>2, <2>3, <2>4 DEF Events!Answer
<1>5. CASE ModelFails \/ GatherFails
  <2>1. /\ pc \in {"model", "gather"} /\ UNCHANGED <<iteration, calls, announced, results>>
        /\ event' \in Event /\ event'.type = "run_failed"
    BY <1>5, Yielded DEF ModelFails, GatherFails
  <2>2. Stage' = "failed" /\ (Stage = "model" \/ (Stage = "answered" /\ Asked # {}))
    BY <2>1, StageBecomes DEF LoopInv, StageFits, Working
  <2>3. Asked' = Asked /\ Announced' = Announced /\ Finished' = Finished
    BY <2>1 DEF Asked, Announced, Finished
  <2> QED BY <2>1, <2>2, <2>3 DEF Events!Fail
<1>6. CASE LookAtCalls
  <2>1. pc = "answered" /\ UNCHANGED <<iteration, calls, announced, results>> /\ Stage = "answered"
    BY <1>6, RecordFits, StageMeans DEF LookAtCalls, LoopInv, StageFits
  <2>2. Asked' = Asked /\ Announced' = Announced /\ Finished' = Finished
    BY <2>1 DEF Asked, Announced, Finished
  <2>3. Asked = {} <=> calls = <<>>
    <3>1. calls # <<>> => 1 \in DOMAIN calls
      BY DEF LoopInv, TypeOK
    <3>2. DOMAIN <<>> = {}
      OBVIOUS
    <3> QED BY <3>1, <3>2 DEF Asked, Range
  <2>4. CASE calls = <<>> /\ Yield("run_completed", "", "")
    BY <2>1, <2>2, <2>3, <2>4, Yielded, StageBecomes DEF Events!Complete
  <2>5. CASE calls # <<>> /\ Yield("run_failed", "", "")
    BY <2>1, <2>2, <2>3, <2>5, Yielded, StageBecomes DEF Events!Fail
  <2>6. CASE UNCHANGED event
    BY <2>1, <2>6, EventsUnchanged DEF Stage
  <2> QED BY <1>6, <2>4, <2>5, <2>6 DEF LookAtCalls
<1>7. CASE Announce
  <2>1. PICK c : c = First(Batch \ Announced)
    OBVIOUS
  <2>2. /\ pc = "calls" /\ UNCHANGED <<iteration, calls, results>>
        /\ announced' = Append(announced, c) /\ Yield("tool_started", c, "")
    BY <1>7, <2>1 DEF Announce
  <2>3. c \in Asked \ Announced /\ c \in Call
    <3>1. Batch \ Announced \subseteq Asked /\ Batch \ Announced # {}
      BY <1>7, BatchShape DEF Announce
    <3>2. c \in Batch \ Announced
      BY <2>1, <3>1, FirstOf DEF LoopInv, TypeOK, ReportsFit
    <3> QED BY <3>1, <3>2, RecordFits
  <2>4. Stage = "answered" /\ Stage' = "answered"
    BY <2>2, <2>3, Yielded, StageBecomes DEF LoopInv, StageFits, Working
  <2>5. Asked' = Asked /\ Finished' = Finished
    BY <2>2 DEF Asked, Finished
  <2>6. Announced' = Announced \cup {c}
    <3>1. announced \in Seq(Call) /\ c \in Call /\ announced' = Append(announced, c)
      BY <2>2, <2>3 DEF LoopInv, TypeOK
    <3>2. Range(announced') = Range(announced) \cup {c}
      BY <3>1, AppendedRange
    <3> QED BY <3>2 DEF Announced
  <2> QED BY <2>2, <2>3, <2>4, <2>5, <2>6 DEF Events!Start
<1>8. CASE Collect
  <2>1. PICK c : c = First(Batch \ Finished)
    OBVIOUS
  <2>2. PICK status \in {"ok", "error"} :
            /\ pc = "collect" /\ UNCHANGED <<iteration, calls, announced>>
            /\ results' = Append(results, [call |-> c, status |-> status])
            /\ Yield("tool_finished", c, status)
    BY <1>8, <2>1 DEF Collect
  <2>3. c \in Announced \ Finished /\ c \in Call
    <3>1. /\ Batch \ Finished \subseteq Asked /\ Batch \ Finished # {} /\ Batch \subseteq Announced
      BY <2>2, BatchShape DEF LoopInv, BatchFits
    <3>2. c \in Batch \ Finished
      BY <2>1, <3>1, FirstOf DEF LoopInv, TypeOK, ReportsFit
    <3> QED BY <3>1, <3>2, RecordFits
  <2>4. Stage = "answered" /\ Stage' = "answered"
    BY <2>2, <2>3, Yielded, StageBecomes DEF LoopInv, StageFits, Working
  <2>5. Asked' = Asked /\ Announced' = Announced
    BY <2>2 DEF Asked, Announced
  <2>6. Finished' = Finished \cup {c}
    BY <2>2, <2>3, AppendedResult
  <2> QED BY <2>2, <2>3, <2>4, <2>5, <2>6 DEF Events!Finish
<1>9. CASE \E c \in Call : TaskStep(c)
  <2>1. UNCHANGED <<iteration, calls, announced, results, event>>
    BY <1>9, TaskMoves
  <2> QED BY <2>1, EventsUnchanged DEF Stage
<1> QED BY <1>1, <1>2, <1>3, <1>4, <1>5, <1>6, <1>7, <1>8, <1>9 DEF RunStep, LoopStep, ModelEnds

\* Refinement: the loop of AgentRunner, with its executor, implements the event
\* stream that persist, observe and encode_sse rely on.
THEOREM LoopKeepsEvents == Spec => RunEventsSpec
<1>1. Init => Events!Init
  BY EventsInit DEF Init
<1>2. LoopInv /\ [Next]_vars => [Events!Next]_Events!vars
  BY StreamRuns, EventsStep
<1> QED BY <1>1, <1>2, LoopInvariant, PTL DEF Spec, RunEventsSpec, Events!Spec

=============================================================================
