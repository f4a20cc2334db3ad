------------------------------ MODULE AgentRun ------------------------------
(***************************************************************************)
(* One agent run: the ReAct loop of AgentRunner and the ToolExecutor under *)
(* it.  The loop is a generator: it moves only while its consumer waits    *)
(* for the next event, and rests at the yield until the event is taken.    *)
(* Tool calls are tasks of their own and move at any time, also when the   *)
(* loop that started them is gone.                                         *)
(***************************************************************************)
EXTENDS Integers, Sequences, FiniteSets, Functions

CONSTANTS
    Call,         \* tool call ids
    Tool,         \* tool names the model may produce
    Registered,   \* of these, the ones in the registry
    Retryable,    \* ToolSpec.retryable
    Serial,       \* not ToolSpec.parallelizable
    MaxAttempts,  \* MAX_ATTEMPTS_WHEN_RETRYABLE
    HardCap       \* STEP_BUDGETS[effort].hard_cap

ASSUME RegistryAssumption ==
    Registered \subseteq Tool /\ Retryable \subseteq Registered /\ Serial \subseteq Registered

ASSUME BoundsPositive == MaxAttempts \in Nat \ {0} /\ HardCap \in Nat \ {0}

ASSUME NoCallIsNoCall == "" \notin Call

ASSUME CallsFinite == IsFiniteSet(Call)

VARIABLES
    pc,          \* where the loop is
    iteration,
    history,     \* the messages added to the model input by this run
    calls,       \* ids of the tool calls of the latest answer, in its order
    announced,   \* of these, the ones whose start was yielded, in that order
    results,     \* results of the latest answer's calls, in the order of the yields
    task,        \* the execution of each call
    event,       \* the event yielded last
    pulled       \* whether the consumer waits for the next one

runVars == <<pc, iteration, history, calls, announced, results, task, event, pulled>>

Event == [type : {"iteration_started", "text", "reasoning", "iteration_completed",
                  "tool_started", "tool_finished", "run_completed", "run_failed"},
          call : Call \cup {""}, status : {"", "ok", "error"}]

None == [type |-> "none", call |-> "", status |-> ""]

Result == [call : Call, status : {"ok", "error"}]

Message == [kind : {"answer", "results"}, calls : Seq(Call), results : Seq(Result)]

\* error is the ToolProgramError; an external failure has a text but no
\* structured result.
Task == [tool : Tool \cup {""},
         pc : {"none", "handler", "backoff", "ok", "external", "error", "cancelled"},
         attempt : 0 .. MaxAttempts]

Ended == {"ended", "raised", "dropped"}

TypeOK ==
    /\ pc \in {"enter", "loop", "model", "answered", "calls", "gather", "collect", "exit"}
                \cup Ended
    /\ iteration \in 0 .. HardCap
    /\ history \in Seq(Message)
    /\ calls \in Seq(Call) /\ announced \in Seq(Call) /\ results \in Seq(Result)
    /\ task \in [Call -> Task]
    /\ event \in Event \cup {None}
    /\ pulled \in BOOLEAN

-----------------------------------------------------------------------------
(* Auxiliary definitions *)

NoTask == [tool |-> "", pc |-> "none", attempt |-> 0]

Asked == Range(calls)
Announced == Range(announced)
Finished == {results[k].call : k \in DOMAIN results}

Live(c) == task[c].pc \in {"handler", "backoff"}

\* The first of the calls in S, in the order of the answer.
First(S) ==
    LET p == CHOOSE p \in DOMAIN calls : /\ calls[p] \in S
                                         /\ \A q \in 1 .. p - 1 : calls[q] \notin S
    IN calls[p]

\* What run_calls executes together: the parallelizable calls first, an
\* unregistered name among them, then the others one by one.
Batch ==
    LET serial == {c \in Asked : task[c].tool \in Serial}
    IN IF Asked \ (serial \cup Finished) # {} THEN Asked \ serial
       ELSE IF serial \ Finished # {} THEN {First(serial \ Finished)}
       ELSE {}

\* An iteration uses distinct ids; later ones may use them again.
Answers == {s \in UNION {[1 .. n -> Call] : n \in 0 .. Cardinality(Call)} : IsInjective(s)}

Yield(type, c, status) ==
    /\ event' = [type |-> type, call |-> c, status |-> status]
    /\ pulled' = FALSE

-----------------------------------------------------------------------------
(* The loop *)

\* model_port_scope: without a port there is no event at all.
Enter ==
    /\ pc = "enter"
    /\ pulled
    /\ pc' \in {"loop", "raised"}
    /\ UNCHANGED <<iteration, history, calls, announced, results, task, event, pulled>>

StartIteration ==
    /\ pc = "loop"
    /\ iteration < HardCap
    /\ iteration' = iteration + 1
    /\ calls' = <<>>
    /\ announced' = <<>>
    /\ results' = <<>>
    /\ task' = [c \in Call |-> NoTask]
    /\ Yield("iteration_started", "", "")
    /\ pc' = "model"
    /\ UNCHANGED history

Delta ==
    /\ pc = "model"
    /\ pulled
    /\ Yield("text", "", "") \/ Yield("reasoning", "", "")
    /\ UNCHANGED <<pc, iteration, history, calls, announced, results, task>>

ModelAnswers ==
    /\ pc = "model"
    /\ pulled
    /\ calls' \in Answers
    /\ \E tool \in [Range(calls') -> Tool] :
          task' = [c \in Call |-> IF c \in DOMAIN tool THEN [NoTask EXCEPT !.tool = tool[c]]
                                  ELSE NoTask]
    /\ history' = Append(history, [kind |-> "answer", calls |-> calls', results |-> <<>>])
    /\ Yield("iteration_completed", "", "")
    /\ pc' = "answered"
    /\ UNCHANGED <<iteration, announced, results>>

\* The stream raises, or ends without its terminal event.
ModelFails ==
    /\ pc = "model"
    /\ pulled
    /\ Yield("run_failed", "", "")
    /\ pc' = "exit"
    /\ UNCHANGED <<iteration, history, calls, announced, results, task>>

\* Slip: an answer with calls at the hard cap goes on to the tools.
LookPastTheCap ==
    /\ pc = "answered"
    /\ pulled
    /\ \/ calls = <<>> /\ Yield("run_completed", "", "") /\ pc' = "exit"
       \/ calls # <<>> /\ UNCHANGED <<event, pulled>> /\ pc' = "calls"
    /\ UNCHANGED <<iteration, history, calls, announced, results, task>>

LookAtCalls ==
    /\ pc = "answered"
    /\ pulled
    /\ \/ calls = <<>> /\ Yield("run_completed", "", "") /\ pc' = "exit"
       \/ calls # <<>> /\ iteration = HardCap /\ Yield("run_failed", "", "") /\ pc' = "exit"
       \/ calls # <<>> /\ iteration < HardCap /\ UNCHANGED <<event, pulled>> /\ pc' = "calls"
    /\ UNCHANGED <<iteration, history, calls, announced, results, task>>

\* Slip: the results stay out of the model input.
ForgetResults ==
    /\ pc = "calls"
    /\ pulled
    /\ Batch = {}
    /\ pc' = "loop"
    /\ UNCHANGED <<iteration, history, calls, announced, results, task, event, pulled>>

\* Slip: the calls that run one by one are not waited for.
FinishParallelCalls ==
    /\ pc = "calls"
    /\ pulled
    /\ \A c \in Asked : task[c].tool \notin Serial => c \in Finished
    /\ history' = Append(history, [kind |-> "results", calls |-> announced, results |-> results])
    /\ pc' = "loop"
    /\ UNCHANGED <<iteration, calls, announced, results, task, event, pulled>>

\* Without calls left the results become one message of the model input.
FinishCalls ==
    /\ pc = "calls"
    /\ pulled
    /\ Batch = {}
    /\ history' = Append(history, [kind |-> "results", calls |-> announced, results |-> results])
    /\ pc' = "loop"
    /\ UNCHANGED <<iteration, calls, announced, results, task, event, pulled>>

\* Leaving model_port_scope closes the client of a custom endpoint.
Exit ==
    /\ pc = "exit"
    /\ pulled
    /\ pc' \in {"ended", "raised"}
    /\ UNCHANGED <<iteration, history, calls, announced, results, task, event, pulled>>

-----------------------------------------------------------------------------
(* run_calls: a batch is announced, executed by gather and then reported *)

Announce ==
    /\ pc = "calls"
    /\ pulled
    /\ Batch \ Announced # {}
    /\ LET c == First(Batch \ Announced)
       IN /\ announced' = Append(announced, c)
          /\ Yield("tool_started", c, "")
    /\ UNCHANGED <<pc, iteration, history, calls, results, task>>

Scheduled(t) ==
    IF t.tool \in Registered THEN [t EXCEPT !.pc = "handler", !.attempt = 1]
    ELSE [t EXCEPT !.pc = "error"]

Execute ==
    /\ pc = "calls"
    /\ pulled
    /\ Batch # {} /\ Batch \subseteq Announced
    /\ task' = [c \in Call |-> IF c \in Batch THEN Scheduled(task[c]) ELSE task[c]]
    /\ pc' = "gather"
    /\ UNCHANGED <<iteration, history, calls, announced, results, event, pulled>>

Gathered ==
    /\ pc = "gather"
    /\ \A c \in Batch : task[c].pc \in {"ok", "external"}
    /\ pc' = "collect"
    /\ UNCHANGED <<iteration, history, calls, announced, results, task, event, pulled>>

\* gather passes the first ToolProgramError on and leaves the other tasks alone.
GatherFails ==
    /\ pc = "gather"
    /\ \E c \in Batch : task[c].pc = "error"
    /\ Yield("run_failed", "", "")
    /\ pc' = "exit"
    /\ UNCHANGED <<iteration, history, calls, announced, results, task>>

Collect ==
    /\ pc = "collect"
    /\ pulled
    /\ LET c == First(Batch \ Finished)
           status == IF task[c].pc = "ok" THEN "ok" ELSE "error"
       IN /\ results' = Append(results, [call |-> c, status |-> status])
          /\ Yield("tool_finished", c, status)
          /\ pc' = IF Batch \ Finished = {c} THEN "calls" ELSE "collect"
    /\ UNCHANGED <<iteration, history, calls, announced, task>>

-----------------------------------------------------------------------------
(* execute: the attempts at one call *)

Attempts(t) == IF t.tool \in Retryable THEN MaxAttempts ELSE 1

Becomes(c, place) ==
    /\ task' = [task EXCEPT ![c].pc = place]
    /\ UNCHANGED <<pc, iteration, history, calls, announced, results, event, pulled>>

HandlerReturns(c) == task[c].pc = "handler" /\ Becomes(c, "ok")

\* Slip: one attempt too many.
FailsOnceMore(c) ==
    /\ task[c].pc = "handler"
    /\ Becomes(c, IF task[c].attempt <= Attempts(task[c]) THEN "backoff" ELSE "external")

\* A timeout, or an external failure that may pass.
HandlerFails(c) ==
    /\ task[c].pc = "handler"
    /\ Becomes(c, IF task[c].attempt < Attempts(task[c]) THEN "backoff" ELSE "external")

HandlerRefuses(c) == task[c].pc = "handler" /\ Becomes(c, "external")

HandlerRaises(c) == task[c].pc = "handler" /\ Becomes(c, "error")

\* Slip: the attempt is not counted.
RetryUncounted(c) == task[c].pc = "backoff" /\ Becomes(c, "handler")

Retry(c) ==
    /\ task[c].pc = "backoff"
    /\ task' = [task EXCEPT ![c].pc = "handler", ![c].attempt = @ + 1]
    /\ UNCHANGED <<pc, iteration, history, calls, announced, results, event, pulled>>

TaskStep(c) == \/ HandlerReturns(c)
               \/ HandlerFails(c)
               \/ HandlerRefuses(c)
               \/ HandlerRaises(c)
               \/ Retry(c)

-----------------------------------------------------------------------------
(* The end from outside *)

\* Slip: a gather that is cancelled leaves its tasks alone.
DropLoopOnly ==
    /\ pc \notin Ended
    /\ pc' = "dropped"
    /\ UNCHANGED <<iteration, history, calls, announced, results, task, event, pulled>>

\* The stream task is cancelled, or the suspended generator is closed.  A
\* gather that is waiting cancels its tasks; one that has an error to pass
\* on is done and cancels nothing.
Drop ==
    /\ pc \notin Ended
    /\ pc' = "dropped"
    /\ task' = IF pc = "gather" /\ \A c \in Batch : task[c].pc # "error"
               THEN [c \in Call |-> IF Live(c) THEN [task[c] EXCEPT !.pc = "cancelled"]
                                    ELSE task[c]]
               ELSE task
    /\ UNCHANGED <<iteration, history, calls, announced, results, event, pulled>>

\* The consumer is done with the event and asks for the next one.
Pull == ~pulled /\ pulled' = TRUE

-----------------------------------------------------------------------------

RunInit ==
    /\ pc = "enter"
    /\ iteration = 0
    /\ history = <<>>
    /\ calls = <<>> /\ announced = <<>> /\ results = <<>>
    /\ task = [c \in Call |-> NoTask]
    /\ event = None
    /\ pulled = FALSE

ModelEnds == ModelAnswers \/ ModelFails

\* What the loop does by itself while its consumer waits.
LoopStep == \/ Enter
            \/ StartIteration
            \/ LookAtCalls
            \/ Announce
            \/ Execute
            \/ Gathered
            \/ GatherFails
            \/ Collect
            \/ FinishCalls
            \/ Exit

-----------------------------------------------------------------------------
(* Properties *)

\* The loop keeps the promise of RunEvents.
Stage ==
    CASE event.type \in {"iteration_started", "text", "reasoning"} -> "model"
      [] event.type = "run_completed" -> "completed"
      [] event.type = "run_failed" -> "failed"
      [] event.type = "none" -> "ready"
      [] OTHER -> "answered"

Events == INSTANCE RunEvents WITH stage <- Stage, asked <- Asked, started <- Announced,
                                  finished <- Finished

RunEventsSpec == Events!Spec

\* The model is only ever asked with every call of its earlier answers followed
\* by one message that holds one result of each, in the order of the
\* announcements, in which persist stores them too.
HistoryPaired ==
    /\ \A k \in DOMAIN history :
          history[k].kind = "results" =>
             /\ k > 1 /\ history[k - 1].kind = "answer"
             /\ Range(history[k].calls) = Range(history[k - 1].calls)
             /\ [j \in DOMAIN history[k].results |-> history[k].results[j].call] = history[k].calls
             /\ IsInjective(history[k].calls)
    /\ pc \in {"loop", "model"} =>
          \A k \in DOMAIN history :
             history[k].kind = "answer" => /\ k < Len(history)
                                           /\ history[k + 1].kind = "results"

\* A tool runs beyond its gather only after a ToolProgramError of another call
\* of the same batch, never because the visitor left or the run ended well; and
\* a call that must not run beside others never does, not even beside a task
\* that outlived its run.
NoStrayHandler ==
    /\ \A c \in Call : Live(c) => pc = "gather" \/ \E d \in Announced : task[d].pc = "error"
    /\ \A c, d \in Call : Live(c) /\ Live(d) /\ task[c].tool \in Serial => c = d

\* Whatever the providers do, every attempt series comes to an end.
HandlersSettle == \A c \in Call : Live(c) ~> ~Live(c)

=============================================================================
