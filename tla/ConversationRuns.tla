-------------------------- MODULE ConversationRuns --------------------------
(***************************************************************************)
(* The runs of one session: POST /api/runs, the event stream of the agent  *)
(* loop and the wrappers persist, observe and round_trip_payload_scope     *)
(* around it, on the tables app.message, obs.run and obs.span.  The        *)
(* generators pull one event at a time, so a run is at one place of its    *)
(* pipeline; every transaction is one action.  Nothing keeps two runs of a *)
(* session apart: any visitor may continue any session.                    *)
(***************************************************************************)
EXTENDS Integers, Sequences

CONSTANTS
    Run,       \* runs; one also stands for its user message
    Call,      \* tool call ids the model may use
    HardCap,   \* STEP_BUDGETS[effort].hard_cap
    Overlap,   \* whether a run may start while another one is in progress
    Faults     \* whether transactions may fail and the process may crash

ASSUME HardCapPositive == HardCap \in Nat \ {0}

ASSUME CallsAreNoNumbers == Call \cap Nat = {}

ASSUME SwitchesAreBoolean == Overlap \in BOOLEAN /\ Faults \in BOOLEAN

VARIABLES
    session,    \* the row of app.session
    messages,   \* app.message in seq order: seq is the position less one
    run,        \* the local state of each run's generators
    obs,        \* the row of obs.run of each run, with its spans
    gone        \* runs whose stream task has been cancelled

vars == <<session, messages, run, obs, gone>>

\* Spans are named by what their uuid5 is made from: the iteration of a model
\* call, the id of a tool call.
SpanId == (1 .. HardCap) \cup Call

Message == [run : Run, kind : {"user", "assistant", "tool"}, iteration : 0 .. HardCap,
            calls : SUBSET Call, payload : {"none", "kept"}]

Unwinding == {"fail", "except", "abort"}
Streaming == {"port", "start", "open", "model", "answer", "close", "tool_open", "tools",
              "tool_end", "tool_close", "complete", "fail", "except", "clear"}
Ended == {"rejected", "closed", "dead"}
Place == {"idle", "rebuild", "abort"} \cup Streaming \cup Ended

Local == [pc : Place,
          iteration : 0 .. HardCap,
          calls : SUBSET Call,                \* tool calls of the latest answer
          pending : SUBSET Call,              \* of these, still to start or to finish
          registered : SUBSET (Nat \ {0}),    \* round_trip_message_ids
          main : 0 .. HardCap,                \* main_span_open
          tools : SUBSET Call,                \* tool_spans_open
          left : SUBSET SpanId]               \* spans the unwinding has yet to close

\* A span is done when its own event closed it, with whatever status, and partial
\* when the end of the run did.
RunRow == [status : {"none", "running", "completed", "failed", "aborted"},
           span : [SpanId -> {"none", "open", "done", "partial"}]]

TypeOK ==
    /\ session \in {"absent", "live", "deleted"}
    /\ messages \in Seq(Message)
    /\ run \in [Run -> Local]
    /\ obs \in [Run -> RunRow]
    /\ gone \subseteq Run

-----------------------------------------------------------------------------
(* app.message *)

\* An answer always carries an opaque payload here: the worst case.
Row(r, kind, i, cs) ==
    [run |-> r, kind |-> kind, iteration |-> i, calls |-> cs,
     payload |-> IF kind = "assistant" THEN "kept" ELSE "none"]

\* next_message_seq locks the live session, so seq is the next position.
Appended(row) == Append(messages, row)

\* Slip: the payloads of every run of the session are cleared.
ClearedSession(r) == [p \in DOMAIN messages |-> [messages[p] EXCEPT !.payload = "none"]]

Cleared(r) ==
    [p \in DOMAIN messages |-> IF p \in run[r].registered
                               THEN [messages[p] EXCEPT !.payload = "none"]
                               ELSE messages[p]]

-----------------------------------------------------------------------------
(* obs.run and obs.span: every write may fail and is then forgotten *)

StartedRun(o) == [o EXCEPT !.status = "running"]

\* The foreign keys and the primary key of obs.span; parent 0 stands for none.
OpenedSpan(o, s, parent) ==
    IF /\ o.status # "none"
       /\ o.span[s] = "none"
       /\ parent = 0 \/ o.span[parent] # "none"
    THEN [o EXCEPT !.span[s] = "open"] ELSE o

ClosedSpan(o, s, result) ==
    IF o.span[s] = "none" THEN o ELSE [o EXCEPT !.span[s] = result]

FinishedRun(o, status) == IF o.status = "none" THEN o ELSE [o EXCEPT !.status = status]

\* A write in flight when the task is cancelled may or may not be committed.
Write(r, o) ==
    \/ obs' = [obs EXCEPT ![r] = o]
    \/ (Faults \/ r \in gone) /\ obs' = obs

-----------------------------------------------------------------------------
(* Control inside a run's generators *)

Idle == [pc |-> "idle", iteration |-> 0, calls |-> {}, pending |-> {}, registered |-> {},
         main |-> 0, tools |-> {}, left |-> {}]

\* Slip: whether there is an open model span is not asked.
SpansUnchecked(s) == s.tools \cup {s.main}

\* Slip: the tool spans are forgotten.
SpansOfModel(s) == IF s.main = 0 THEN {} ELSE {s.main}

Spans(s) == s.tools \cup (IF s.main = 0 THEN {} ELSE {s.main})

\* RunFailed, the except and the finally of observe close what is open.
Unwind(s, place) == [s EXCEPT !.pc = place, !.left = Spans(s)]

\* An await returns: a cancelled run goes on from what it had assigned before
\* the await, another one from what it assigns after it.
Resume(r, before, after) ==
    run' = [run EXCEPT ![r] = IF r \in gone THEN Unwind(before, "abort") ELSE after]

At(r, place) == [run[r] EXCEPT !.pc = place]

\* The generators are gone, and their variables with them.
End(r, place) == run' = [run EXCEPT ![r] = [Idle EXCEPT !.pc = place]]

\* An exception in the pipeline; cancellation goes past except Exception.
Raise(r) == Resume(r, run[r], Unwind(run[r], "except"))

-----------------------------------------------------------------------------
(* create_run before the stream *)

InProgress == \E s \in Run : run[s].pc \notin {"idle"} \cup Ended

\* The commit may succeed and its answer be lost: then 500 and no stream.
Submit(r) ==
    /\ run[r].pc = "idle"
    /\ session # "deleted"
    /\ Overlap \/ ~InProgress
    /\ session' = "live"
    /\ messages' = Appended(Row(r, "user", 0, {}))
    /\ \/ run' = [run EXCEPT ![r].pc = "rebuild"]
       \/ Faults /\ End(r, "rejected")
    /\ UNCHANGED <<obs, gone>>

Refuse(r) ==
    /\ run[r].pc = "idle"
    /\ session = "deleted" \/ Faults
    /\ End(r, "rejected")
    /\ UNCHANGED <<session, messages, obs, gone>>

\* rebuild_model_input_with_metadata reads what is committed by now.
Rebuild(r) ==
    /\ run[r].pc = "rebuild"
    /\ \/ run' = [run EXCEPT ![r].pc = "port"]
       \/ Faults /\ End(r, "rejected")
    /\ UNCHANGED <<session, messages, obs, gone>>

-----------------------------------------------------------------------------
(* The agent loop under persist and observe *)

\* model_port_scope; without a first event observe has no run to record.
EnterPort(r) ==
    /\ run[r].pc = "port"
    /\ \/ Resume(r, run[r], At(r, "start"))
       \/ run' = [run EXCEPT ![r].pc = "clear"]
    /\ UNCHANGED <<session, messages, obs, gone>>

StartRun(r) ==
    /\ run[r].pc = "start"
    /\ Write(r, StartedRun(obs[r]))
    /\ Resume(r, run[r], At(r, "open"))
    /\ UNCHANGED <<session, messages, gone>>

\* IterationStarted
OpenMain(r) ==
    /\ run[r].pc = "open"
    /\ LET i == run[r].iteration + 1
           before == [run[r] EXCEPT !.iteration = i, !.main = i]
       IN /\ Write(r, OpenedSpan(obs[r], i, 0))
          /\ Resume(r, before, [before EXCEPT !.pc = "model"])
    /\ UNCHANGED <<session, messages, gone>>

ModelAnswers(r) ==
    /\ run[r].pc = "model"
    /\ \E cs \in SUBSET Call :
          Resume(r, run[r], [run[r] EXCEPT !.pc = "answer", !.calls = cs])
    /\ UNCHANGED <<session, messages, obs, gone>>

\* The stream raises, or ends without its terminal event: RunFailed.
ModelFails(r) ==
    /\ run[r].pc = "model"
    /\ Resume(r, run[r], Unwind(run[r], "fail"))
    /\ UNCHANGED <<session, messages, obs, gone>>

\* Slip: the append does not ask for the live session.
StoreAnswerDeleted(r) ==
    /\ run[r].pc = "answer"
    /\ messages' = Appended(Row(r, "assistant", run[r].iteration, run[r].calls))
    /\ Resume(r, run[r], [run[r] EXCEPT !.pc = "close", !.registered = @ \cup {Len(messages')}])
    /\ UNCHANGED <<session, obs, gone>>

\* IterationCompleted in persist: committed first, registered afterwards.
StoreAnswer(r) ==
    /\ run[r].pc = "answer"
    /\ session = "live"
    /\ messages' = Appended(Row(r, "assistant", run[r].iteration, run[r].calls))
    /\ Resume(r, run[r], [run[r] EXCEPT !.pc = "close", !.registered = @ \cup {Len(messages')}])
    /\ UNCHANGED <<session, obs, gone>>

\* ToolFinished of the last call in persist.
StoreResults(r) ==
    /\ run[r].pc = "tool_end"
    /\ \E c \in run[r].pending : run[r].pending = {c}
    /\ session = "live"
    /\ messages' = Appended(Row(r, "tool", run[r].iteration, run[r].calls))
    /\ Resume(r, run[r], [run[r] EXCEPT !.pc = "tool_close", !.registered = @ \cup {Len(messages')}])
    /\ UNCHANGED <<session, obs, gone>>

Storing(r) == \/ run[r].pc = "answer"
              \/ run[r].pc = "tool_end" /\ \E c \in run[r].pending : run[r].pending = {c}

\* Slip: the append waits for the session to come back.
StoreWaits(r) ==
    /\ Storing(r)
    /\ Faults \/ r \in gone
    /\ Raise(r)
    /\ UNCHANGED <<session, messages, obs, gone>>

\* SessionNotFound, a database error, or the cancellation cuts the INSERT off.
StoreFails(r) ==
    /\ Storing(r)
    /\ session = "deleted" \/ Faults \/ r \in gone
    /\ Raise(r)
    /\ UNCHANGED <<session, messages, obs, gone>>

\* The commit succeeds, its answer is lost.
StoreUnacknowledged(r) ==
    /\ Faults
    /\ Storing(r)
    /\ session = "live"
    /\ messages' = Appended(Row(r, IF run[r].pc = "answer" THEN "assistant" ELSE "tool",
                                run[r].iteration, run[r].calls))
    /\ Raise(r)
    /\ UNCHANGED <<session, obs, gone>>

\* IterationCompleted in observe, then the runner looks at the tool calls.
CloseMain(r) ==
    /\ run[r].pc = "close"
    /\ Write(r, ClosedSpan(obs[r], run[r].iteration, "done"))
    /\ LET s == [run[r] EXCEPT !.main = 0]
       IN Resume(r, run[r],
                 IF s.calls = {} THEN [s EXCEPT !.pc = "complete"]
                 ELSE IF s.iteration = HardCap THEN Unwind(s, "fail")
                 ELSE [s EXCEPT !.pc = "tool_open", !.pending = s.calls])
    /\ UNCHANGED <<session, messages, gone>>

\* ToolStarted; the tools run once all of them are announced.
OpenTool(r) ==
    /\ run[r].pc = "tool_open"
    /\ \E c \in run[r].pending :
          LET before == [run[r] EXCEPT !.tools = @ \cup {c}]
          IN /\ Write(r, OpenedSpan(obs[r], c, run[r].iteration))
             /\ Resume(r, before,
                       IF run[r].pending = {c} THEN [before EXCEPT !.pc = "tools"]
                       ELSE [before EXCEPT !.pending = @ \ {c}])
    /\ UNCHANGED <<session, messages, gone>>

\* asyncio.gather: every call has its result, external failures included.
ToolsReturn(r) ==
    /\ run[r].pc = "tools"
    /\ Resume(r, run[r], [run[r] EXCEPT !.pc = "tool_end", !.pending = run[r].calls])
    /\ UNCHANGED <<session, messages, obs, gone>>

\* ToolProgramError: RunFailed.
ToolsFail(r) ==
    /\ run[r].pc = "tools"
    /\ Resume(r, run[r], Unwind(run[r], "fail"))
    /\ UNCHANGED <<session, messages, obs, gone>>

\* ToolFinished in observe: the span is struck off before it is written.
CloseTool(r) ==
    /\ run[r].pc = "tool_end"
    /\ \E c \in run[r].pending :
          LET before == [run[r] EXCEPT !.tools = @ \ {c}]
          IN /\ run[r].pending # {c}
             /\ Write(r, ClosedSpan(obs[r], c, "done"))
             /\ Resume(r, before, [before EXCEPT !.pending = @ \ {c}])
    /\ UNCHANGED <<session, messages, gone>>

CloseLastTool(r) ==
    /\ run[r].pc = "tool_close"
    /\ \E c \in run[r].pending :
          LET before == [run[r] EXCEPT !.tools = @ \ {c}]
          IN /\ Write(r, ClosedSpan(obs[r], c, "done"))
             /\ Resume(r, before, [before EXCEPT !.pending = {}, !.pc = "open"])
    /\ UNCHANGED <<session, messages, gone>>

-----------------------------------------------------------------------------
(* The end of a run *)

Complete(r) ==
    /\ run[r].pc = "complete"
    /\ Write(r, FinishedRun(obs[r], "completed"))
    /\ Resume(r, run[r], At(r, "clear"))
    /\ UNCHANGED <<session, messages, gone>>

\* A step of the unwinding; a cancelled except handler starts over in finally.
Continue(r, before, after) ==
    IF run[r].pc = "abort" THEN run' = [run EXCEPT ![r] = after] ELSE Resume(r, before, after)

\* Slip: spans that were cut off are closed like finished ones.
CloseLeftOk(r) ==
    /\ run[r].pc \in Unwinding
    /\ \E s \in run[r].left :
          /\ Write(r, ClosedSpan(obs[r], s, "done"))
          /\ Continue(r, run[r], [run[r] EXCEPT !.left = @ \ {s}])
    /\ UNCHANGED <<session, messages, gone>>

\* The model span first; only RunFailed forgets it.
CloseLeft(r) ==
    /\ run[r].pc \in Unwinding
    /\ \E s \in run[r].left :
          /\ run[r].main \in run[r].left => s = run[r].main
          /\ Write(r, ClosedSpan(obs[r], s, "partial"))
          /\ LET rest == [run[r] EXCEPT !.left = @ \ {s}]
             IN Continue(r, run[r], IF run[r].pc = "fail" /\ s = run[r].main
                                    THEN [rest EXCEPT !.main = 0] ELSE rest)
    /\ UNCHANGED <<session, messages, gone>>

\* Slip: the loop goes on after RunFailed.
FinishAndGoOn(r) ==
    /\ run[r].pc \in Unwinding
    /\ run[r].left = {}
    /\ Write(r, FinishedRun(obs[r], IF run[r].pc = "abort" THEN "aborted" ELSE "failed"))
    /\ LET again == run[r].pc = "fail" /\ run[r].iteration < HardCap
       IN Continue(r, run[r], [run[r] EXCEPT !.pc = IF again THEN "open" ELSE "clear"])
    /\ UNCHANGED <<session, messages, gone>>

FinishUnwinding(r) ==
    /\ run[r].pc \in Unwinding
    /\ run[r].left = {}
    /\ Write(r, FinishedRun(obs[r], IF run[r].pc = "abort" THEN "aborted" ELSE "failed"))
    /\ LET before == [run[r] EXCEPT !.tools = {}]
       IN Continue(r, before, [before EXCEPT !.pc = "clear"])
    /\ UNCHANGED <<session, messages, gone>>

\* round_trip_payload_scope: an UPDATE that asks for the live session.
Clear(r) ==
    /\ run[r].pc = "clear"
    /\ messages' = IF session = "live" THEN Cleared(r) ELSE messages
    /\ End(r, "closed")
    /\ UNCHANGED <<session, obs, gone>>

ClearFails(r) ==
    /\ Faults
    /\ run[r].pc = "clear"
    /\ End(r, "closed")
    /\ UNCHANGED <<session, messages, obs, gone>>

\* The clean-up runs in the task group that is being cancelled (ADR-0008), so
\* its awaits may be cancelled in turn.
CutCleanup(r) ==
    /\ r \in gone
    /\ \/ run[r].pc = "abort" /\ run' = [run EXCEPT ![r].pc = "clear"]
       \/ run[r].pc = "clear" /\ End(r, "closed")
    /\ UNCHANGED <<session, messages, obs, gone>>

-----------------------------------------------------------------------------
(* The visitor and the process *)

\* http.disconnect: the server cancels the task that pulls the stream.
Disconnect(r) ==
    /\ run[r].pc \in Streaming
    /\ r \notin gone
    /\ gone' = gone \cup {r}
    /\ UNCHANGED <<session, messages, run, obs>>

Delete ==
    /\ session = "live"
    /\ session' = "deleted"
    /\ UNCHANGED <<messages, run, obs, gone>>

Crash ==
    /\ Faults
    /\ InProgress
    /\ run' = [r \in Run |-> IF run[r].pc \in {"idle"} \cup Ended THEN run[r]
                             ELSE [Idle EXCEPT !.pc = "dead"]]
    /\ UNCHANGED <<session, messages, obs, gone>>

-----------------------------------------------------------------------------

Init ==
    /\ session = "absent"
    /\ messages = <<>>
    /\ run = [r \in Run |-> Idle]
    /\ obs = [r \in Run |-> [status |-> "none", span |-> [s \in SpanId |-> "none"]]]
    /\ gone = {}

Pipeline(r) == EnterPort(r) \/ StartRun(r) \/ OpenMain(r) \/ ModelAnswers(r) \/ ModelFails(r)
                  \/ CloseMain(r) \/ OpenTool(r) \/ ToolsReturn(r) \/ ToolsFail(r)
                  \/ CloseTool(r) \/ CloseLastTool(r)
Store(r) == StoreAnswer(r) \/ StoreResults(r) \/ StoreFails(r) \/ StoreUnacknowledged(r)
Finish(r) == Complete(r) \/ CloseLeft(r) \/ FinishUnwinding(r) \/ Clear(r) \/ ClearFails(r)
                \/ CutCleanup(r)

\* What a run does by itself once its message is accepted.
RunStep(r) == Rebuild(r) \/ Pipeline(r) \/ Store(r) \/ Finish(r)

Next == \/ \E r \in Run : Submit(r) \/ Refuse(r) \/ RunStep(r) \/ Disconnect(r)
        \/ Delete
        \/ Crash

Fairness == \A r \in Run : WF_vars(RunStep(r))

Spec == Init /\ [][Next]_vars /\ Fairness

-----------------------------------------------------------------------------
(* Properties *)

\* The table keeps the promise of RunLog whatever runs, disconnections, failed
\* transactions and deletions interleave.
Log == INSTANCE RunLog WITH log <- messages, gone <- session = "deleted"

RunLogSpec == Log!Spec

Stored(r, kind, i) == \E p \in DOMAIN messages : /\ messages[p].run = r
                                                 /\ messages[p].kind = kind
                                                 /\ messages[p].iteration = i

\* The observation never claims more than the conversation holds: a model span
\* that is closed normally has its answer in the table, and a run recorded as
\* completed has stored an answer without tool calls.
ObsBehindLog ==
    \A r \in Run :
        /\ \A i \in 1 .. HardCap : obs[r].span[i] = "done" => Stored(r, "assistant", i)
        /\ obs[r].status = "completed" =>
              \E p \in DOMAIN messages : /\ messages[p].run = r
                                         /\ messages[p].kind = "assistant"
                                         /\ messages[p].calls = {}

\* Once the observation has recorded how a run ended, the run adds no message
\* and opens no span.
TerminalIsLast ==
    [][\A r \in Run : obs[r].status \in {"completed", "failed", "aborted"} =>
          /\ \A p \in DOMAIN messages' \ DOMAIN messages : messages'[p].run # r
          /\ \A s \in SpanId : obs[r].span[s] = "none" => obs'[r].span[s] = "none"]_vars

\* The opaque payloads of a run are kept while it lives and cleared when it
\* ends, unless the session was deleted or the stream cancelled.
PayloadLife ==
    \A p \in DOMAIN messages : messages[p].kind = "assistant" =>
        LET r == messages[p].run
        IN IF messages[p].payload = "none" THEN run[r].pc = "closed"
           ELSE run[r].pc = "closed" => session = "deleted" \/ r \in gone

\* Without faults a run whose stream was not cancelled leaves no open span and
\* no running row behind.
SpansSettle ==
    \A r \in Run : run[r].pc = "closed" /\ r \notin gone =>
        /\ obs[r].status # "running"
        /\ \A s \in SpanId : obs[r].span[s] # "open"

\* Every accepted run ends, whatever its model and its client do.
RunEnds == \A r \in Run : run[r].pc = "rebuild" ~> run[r].pc \in Ended

=============================================================================
