------------------------------- MODULE RunLog -------------------------------
(***************************************************************************)
(* What the message table of a session promises its readers, without       *)
(* streams, transactions or spans.  It only grows, and whatever runs share *)
(* the session each of them writes, in this order: its question, then      *)
(* answers, each followed by its tool results if it asked for tools.  The  *)
(* opaque payload of an answer is forgotten at most once, when the run     *)
(* will answer no more, and nothing changes in a deleted session.          *)
(***************************************************************************)
EXTENDS Integers, Sequences

CONSTANTS Run, Call, HardCap

VARIABLES
    log,    \* the messages of the session, in seq order
    gone    \* whether the session has been deleted

vars == <<log, gone>>

Entry(r, kind, i, cs) ==
    [run |-> r, kind |-> kind, iteration |-> i, calls |-> cs,
     payload |-> IF kind = "assistant" THEN "kept" ELSE "none"]

Of(r) == {p \in DOMAIN log : log[p].run = r}

Latest(r, p) == p \in Of(r) /\ \A q \in Of(r) : q <= p

\* A payload that has been forgotten ends its run.
Answering(r) == \A p \in Of(r) : log[p].kind = "assistant" => log[p].payload = "kept"

Init == log = <<>> /\ gone = FALSE

Ask(r) ==
    /\ ~gone
    /\ Of(r) = {}
    /\ log' = Append(log, Entry(r, "user", 0, {}))
    /\ UNCHANGED gone

Answer(r) ==
    /\ ~gone
    /\ Answering(r)
    /\ \E p \in DOMAIN log, cs \in SUBSET Call :
          /\ Latest(r, p)
          /\ log[p].kind \in {"user", "tool"}
          /\ log[p].iteration < HardCap
          /\ log' = Append(log, Entry(r, "assistant", log[p].iteration + 1, cs))
    /\ UNCHANGED gone

Return(r) ==
    /\ ~gone
    /\ Answering(r)
    /\ \E p \in DOMAIN log :
          /\ Latest(r, p)
          /\ log[p].kind = "assistant"
          /\ log[p].calls # {}
          /\ log[p].iteration < HardCap
          /\ log' = Append(log, Entry(r, "tool", log[p].iteration, log[p].calls))
    /\ UNCHANGED gone

Forgotten(S) ==
    [p \in DOMAIN log |-> IF p \in S THEN [log[p] EXCEPT !.payload = "none"] ELSE log[p]]

Forget(r) ==
    /\ ~gone
    /\ \E S \in SUBSET Of(r) : log' = Forgotten(S)
    /\ UNCHANGED gone

Delete ==
    /\ ~gone
    /\ gone' = TRUE
    /\ UNCHANGED log

Next == \/ \E r \in Run : Ask(r) \/ Answer(r) \/ Return(r) \/ Forget(r)
        \/ Delete

Spec == Init /\ [][Next]_vars

=============================================================================
