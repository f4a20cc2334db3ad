---------------------------- MODULE TitleAttempt ----------------------------
(***************************************************************************)
(* What the title of a session promises, without connections, requests or  *)
(* columns: a session is offered one automatic title, the attempt runs at  *)
(* most once and settles at most once, a visitor's title always wins, and  *)
(* nothing changes once the session is deleted.                            *)
(***************************************************************************)

CONSTANTS Fallback, Generated, Manual, Untitled

VARIABLES
    stage,    \* of the one automatic title
    title,
    edited,   \* whether a visitor has renamed the session
    gone      \* whether the session has been deleted

vars == <<stage, title, edited, gone>>

Settled == {"applied", "fallback", "manual_not_applied"}

Init ==
    /\ \/ stage = "absent" /\ title = Untitled
       \/ stage = "withdrawn" /\ title \in Manual \cup {Untitled}
    /\ edited = FALSE
    /\ gone = FALSE

\* The first message creates the session with its fallback title.
Offer ==
    /\ stage = "absent"
    /\ stage' = "offered"
    /\ title' \in Fallback
    /\ UNCHANGED <<edited, gone>>

Rename ==
    /\ stage # "absent" /\ ~gone
    /\ title' \in Manual \cup {Untitled}
    /\ edited' = TRUE
    /\ stage' = IF stage = "offered" THEN "withdrawn" ELSE stage
    /\ UNCHANGED gone

Start ==
    /\ stage = "offered" /\ ~gone
    /\ stage' = "running"
    /\ UNCHANGED <<title, edited, gone>>

Apply ==
    /\ stage = "running" /\ ~gone /\ ~edited
    /\ stage' = "applied"
    /\ title' \in Generated
    /\ UNCHANGED <<edited, gone>>

KeepFallback ==
    /\ stage = "running" /\ ~gone
    /\ stage' = "fallback"
    /\ UNCHANGED <<title, edited, gone>>

YieldToManual ==
    /\ stage = "running" /\ ~gone /\ edited
    /\ stage' = "manual_not_applied"
    /\ UNCHANGED <<title, edited, gone>>

Delete ==
    /\ stage # "absent" /\ ~gone
    /\ gone' = TRUE
    /\ UNCHANGED <<stage, title, edited>>

Next == Offer \/ Rename \/ Start \/ Apply \/ KeepFallback \/ YieldToManual \/ Delete

Spec == Init /\ [][Next]_vars

=============================================================================
