----------------------------- MODULE RunEvents -----------------------------
(***************************************************************************)
(* What the event stream of one agent run promises the wrappers persist,   *)
(* observe and encode_sse: iterations are numbered without a gap, each     *)
(* answer of the model is followed by exactly one start and one finish of  *)
(* every call it asks for before the next iteration begins, and nothing    *)
(* follows the one event that says how the run ended.                      *)
(***************************************************************************)
EXTENDS Integers

CONSTANTS Call, HardCap

VARIABLES
    stage,      \* what the latest event was about
    iteration,
    asked,      \* the calls of the latest answer
    started,    \* of these, the announced ones
    finished    \* of these, the ones whose result was passed on

vars == <<stage, iteration, asked, started, finished>>

Init ==
    /\ stage = "ready"
    /\ iteration = 0
    /\ asked = {}
    /\ started = {}
    /\ finished = {}

\* IterationStarted; the previous answer has had all its results.
Iterate ==
    /\ \/ stage = "ready"
       \/ stage = "answered" /\ asked # {} /\ finished = asked
    /\ iteration < HardCap
    /\ stage' = "model"
    /\ iteration' = iteration + 1
    /\ asked' = {}
    /\ started' = {}
    /\ finished' = {}

\* IterationCompleted
Answer ==
    /\ stage = "model"
    /\ stage' = "answered"
    /\ asked' \in SUBSET Call
    /\ UNCHANGED <<iteration, started, finished>>

\* ToolStarted
Start(c) ==
    /\ stage = "answered"
    /\ c \in asked \ started
    /\ started' = started \cup {c}
    /\ UNCHANGED <<stage, iteration, asked, finished>>

\* ToolFinished
Finish(c) ==
    /\ stage = "answered"
    /\ c \in started \ finished
    /\ finished' = finished \cup {c}
    /\ UNCHANGED <<stage, iteration, asked, started>>

\* RunCompleted: the last answer asks for nothing.
Complete ==
    /\ stage = "answered"
    /\ asked = {}
    /\ stage' = "completed"
    /\ UNCHANGED <<iteration, asked, started, finished>>

\* RunFailed: an answer without calls cannot fail any more.
Fail ==
    /\ \/ stage = "model"
       \/ stage = "answered" /\ asked # {}
    /\ stage' = "failed"
    /\ UNCHANGED <<iteration, asked, started, finished>>

Next == \/ Iterate
        \/ Answer
        \/ \E c \in Call : Start(c) \/ Finish(c)
        \/ Complete
        \/ Fail

Spec == Init /\ [][Next]_vars

=============================================================================
