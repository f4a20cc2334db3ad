---------------------------- MODULE ModelStream -----------------------------
(***************************************************************************)
(* What ModelPort.stream promises to its callers, whatever the vendor: a   *)
(* tool call is announced before anything else is said of it and completes *)
(* at most once; at most one event closes the call, it is the last one,    *)
(* and a call that returns normally has it.                                *)
(***************************************************************************)

CONSTANTS Call, NoCall, Nothing

VARIABLES
    event,      \* the latest event, by its type and the id it names
    announced,  \* ids of the tool calls of this model call
    completed,  \* of these, the ones whose arguments are complete
    outcome

vars == <<event, announced, completed, outcome>>

Init ==
    /\ event = Nothing
    /\ announced = {} /\ completed = {}
    /\ outcome = "open"

Say(type, id) == event' = [type |-> type, id |-> id]

Text ==
    /\ outcome = "open"
    /\ \E type \in {"text_delta", "reasoning_delta"} : Say(type, NoCall)
    /\ UNCHANGED <<announced, completed, outcome>>

Announce(c) ==
    /\ outcome = "open"
    /\ c \notin announced
    /\ announced' = announced \cup {c}
    /\ Say("tool_call_started", c)
    /\ UNCHANGED <<completed, outcome>>

Arguments(c) ==
    /\ outcome = "open"
    /\ c \in announced \ completed
    /\ Say("tool_call_args_delta", c)
    /\ UNCHANGED <<announced, completed, outcome>>

Complete(c) ==
    /\ outcome = "open"
    /\ c \in announced \ completed
    /\ completed' = completed \cup {c}
    /\ Say("tool_call_completed", c)
    /\ UNCHANGED <<announced, outcome>>

Tell ==
    /\ outcome = "open"
    /\ outcome' = "told"
    /\ Say("model_call_completed", NoCall)
    /\ UNCHANGED <<announced, completed>>

Return ==
    /\ outcome = "told"
    /\ outcome' = "returned"
    /\ UNCHANGED <<event, announced, completed>>

Raise ==
    /\ outcome \in {"open", "told"}
    /\ outcome' = "raised"
    /\ UNCHANGED <<event, announced, completed>>

\* The caller asks the model again.
Again ==
    /\ outcome = "returned"
    /\ event' = Nothing
    /\ announced' = {} /\ completed' = {}
    /\ outcome' = "open"

Next ==
    \/ Text \/ Tell \/ Return \/ Raise \/ Again
    \/ \E c \in Call : Announce(c) \/ Arguments(c) \/ Complete(c)

Spec == Init /\ [][Next]_vars

=============================================================================
