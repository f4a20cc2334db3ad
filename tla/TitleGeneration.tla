-------------------------- MODULE TitleGeneration --------------------------
(***************************************************************************)
(* The one automatic title of a session: the app.session row, the user     *)
(* messages that create it, POST /api/sessions/{id}/title, renaming and    *)
(* deletion.  Every SQL statement that can interleave with another         *)
(* connection is an action.  PostgreSQL runs READ COMMITTED: a statement   *)
(* that locks the row keeps it to the end of its transaction, so the       *)
(* locked tail of a transaction is one action, taken at its commit.        *)
(***************************************************************************)

CONSTANTS
    UserMessage,   \* user messages; one also stands for its fallback title
    Request,       \* title requests; one also stands for the title it generates
    ManualTitle,   \* titles a visitor may type
    Null,          \* SQL NULL
    Faults         \* whether transactions may fail and the process may crash

ASSUME DistinctTitles ==
    /\ Null \notin UserMessage \cup Request \cup ManualTitle
    /\ UserMessage \cap Request = {}
    /\ UserMessage \cap ManualTitle = {}
    /\ Request \cap ManualTitle = {}

ASSUME NullIsNoStatus ==
    Null \notin {"applied", "fallback", "manual_not_applied", "generating",
                 "processed", "not_found", "error", "gone"}

ASSUME FaultsIsBoolean == Faults \in BOOLEAN

VARIABLES
    row,       \* the row of app.session, with its first user message
    append,    \* progress of the transaction that appends a user message
    pc,        \* where each title request is
    text,      \* whether the request holds a usable generated title
    failed,    \* whether the request holds a failure reason
    reply,     \* the status the request answers, Null while it is open
    callers,   \* history: the requests that called the model
    span       \* the session-owned obs.span of the title call

request == <<pc, text, failed, reply>>
vars == <<row, append, request, callers, span>>

Title == UserMessage \cup Request \cup ManualTitle \cup {Null}

Outcome == {"applied", "fallback", "manual_not_applied"}

\* "gone" is the code's status "processed" with a NULL title: the row is deleted.
Status == Outcome \cup {"generating", "processed", "not_found", "error", "gone"}

Row == [exists : BOOLEAN, deleted : BOOLEAN, title : Title, eligible : BOOLEAN,
        claimed : BOOLEAN, manual : BOOLEAN, outcome : Outcome \cup {Null},
        first : UserMessage \cup {Null}]

ClaimSteps == {"source", "claim", "lost"}
FinalizeSteps == {"finalize", "fallback", "apply", "fresh", "manual", "reread"}
Place == {"idle", "resolve", "calling", "close", "done", "dead"}
            \cup ClaimSteps \cup FinalizeSteps

Span == [state : {"none", "open", "closed"}, ok : BOOLEAN, result : Status \cup {Null}]

TypeOK ==
    /\ row \in Row
    /\ append \in [UserMessage -> {"idle", "missed", "upserted", "done", "rejected"}]
    /\ pc \in [Request -> Place]
    /\ text \in [Request -> BOOLEAN]
    /\ failed \in [Request -> BOOLEAN]
    /\ reply \in [Request -> Status \cup {Null}]
    /\ callers \subseteq Request
    /\ span \in Span

-----------------------------------------------------------------------------
(* The session row *)

Absent == [exists |-> FALSE, deleted |-> FALSE, title |-> Null, eligible |-> FALSE,
           claimed |-> FALSE, manual |-> FALSE, outcome |-> Null, first |-> Null]

\* A row written before the title columns existed: never eligible.
Legacy(t) == [Absent EXCEPT !.exists = TRUE, !.title = t]

Live == row.exists /\ ~row.deleted

\* upsert_session's INSERT
NewRow == [Absent EXCEPT !.exists = TRUE, !.eligible = TRUE]

\* Slip: the fallback of every message replaces the title.
SetFallbackAlways(s, m) == IF s.eligible /\ ~s.manual THEN [s EXCEPT !.title = m] ELSE s

\* set_fallback_title's conditional UPDATE.  title_candidate asks the same
\* questions beforehand and a FALSE answer can never turn TRUE, so calling it
\* always and calling it for a candidate are the same.
SetFallback(s, m) ==
    IF s.title = Null /\ s.eligible /\ ~s.claimed /\ ~s.manual
    THEN [s EXCEPT !.title = m] ELSE s

\* next_message_seq and insert_message: only the first message matters here,
\* and a later one never gets a smaller seq.
InsertMessage(s, m) == IF s.first = Null THEN [s EXCEPT !.first = m] ELSE s

\* Slip: the claim tests eligibility only.
ClaimableTwice == Live /\ row.title # Null /\ row.eligible /\ ~row.manual

Claimable == /\ Live
             /\ row.title # Null
             /\ row.eligible
             /\ ~row.claimed
             /\ ~row.manual

\* WHERE of record_title_terminal
CanRecord == Live /\ row.claimed /\ row.outcome = Null

\* Slip: a rename during the model call is not looked at.
CanApplyOverManual == CanRecord

\* WHERE of apply_generated_title_terminal
CanApply == CanRecord /\ row.eligible /\ ~row.manual

\* Slip: the raw reason is stored instead of the outcome.
RecordedReason(outcome) == [row EXCEPT !.outcome = "timeout", !.eligible = FALSE]

Recorded(outcome) == [row EXCEPT !.outcome = outcome, !.eligible = FALSE]

Applied(r) == [row EXCEPT !.title = r, !.outcome = "applied", !.eligible = FALSE]

\* Slip: a rename leaves the session eligible.
RenamedEligible(t) == [row EXCEPT !.title = t, !.manual = TRUE]

Renamed(t) == [row EXCEPT !.title = t, !.manual = TRUE, !.eligible = FALSE]

-----------------------------------------------------------------------------
(* Appending a user message: POST messages and the first transaction of a run *)

\* get_session_for_update finds the row and locks it to the commit.
AppendToExisting(m) ==
    /\ append[m] = "idle"
    /\ Live
    /\ row' = InsertMessage(SetFallback(row, m), m)
    /\ append' = [append EXCEPT ![m] = "done"]
    /\ UNCHANGED <<request, callers, span>>

AppendMiss(m) ==
    /\ append[m] = "idle"
    /\ ~Live
    /\ append' = [append EXCEPT ![m] = "missed"]
    /\ UNCHANGED <<row, request, callers, span>>

\* The INSERT wins: the new row is invisible to others until the commit.
AppendInsert(m) ==
    /\ append[m] = "missed"
    /\ ~row.exists
    /\ row' = InsertMessage(SetFallback(NewRow, m), m)
    /\ append' = [append EXCEPT ![m] = "done"]
    /\ UNCHANGED <<request, callers, span>>

\* ON CONFLICT DO NOTHING, then the row is read without a lock.
AppendConflict(m) ==
    /\ append[m] = "missed"
    /\ row.exists
    /\ append' = [append EXCEPT ![m] = IF row.deleted THEN "rejected" ELSE "upserted"]
    /\ UNCHANGED <<row, request, callers, span>>

AppendAfterConflict(m) ==
    /\ append[m] = "upserted"
    /\ row' = IF Live THEN InsertMessage(SetFallback(row, m), m) ELSE row
    /\ append' = [append EXCEPT ![m] = IF Live THEN "done" ELSE "rejected"]
    /\ UNCHANGED <<request, callers, span>>

AppendStep(m) == AppendToExisting(m) \/ AppendMiss(m) \/ AppendInsert(m)
                    \/ AppendConflict(m) \/ AppendAfterConflict(m)

\* PATCH and DELETE: one conditional UPDATE each.
Rename(t) ==
    /\ Live
    /\ row' = Renamed(t)
    /\ UNCHANGED <<append, request, callers, span>>

Delete ==
    /\ Live
    /\ row' = [row EXCEPT !.deleted = TRUE]
    /\ UNCHANGED <<append, request, callers, span>>

-----------------------------------------------------------------------------
(* The claim transaction *)

Goto(r, place) ==
    /\ pc' = [pc EXCEPT ![r] = place]
    /\ UNCHANGED <<text, failed, reply>>

\* The request answers without having called the model.
Answer(r, status) ==
    /\ pc' = [pc EXCEPT ![r] = "done"]
    /\ reply' = [reply EXCEPT ![r] = status]
    /\ UNCHANGED <<text, failed>>

ClaimRead(r) ==
    /\ pc[r] = "idle"
    /\ IF ~Live THEN Answer(r, "not_found")
       ELSE IF row.outcome # Null THEN Answer(r, row.outcome)
       ELSE IF row.claimed THEN Answer(r, "generating")
       ELSE IF Claimable THEN Goto(r, "source")
       ELSE Answer(r, "processed")
    /\ UNCHANGED <<row, append, callers, span>>

\* first_user_text joins the live session.
ReadSource(r) ==
    /\ pc[r] = "source"
    /\ IF Live /\ row.first # Null THEN Goto(r, "claim") ELSE Answer(r, "processed")
    /\ UNCHANGED <<row, append, callers, span>>

\* The conditional UPDATE and its commit; the commit's answer may be lost.
ClaimWins(r) ==
    /\ pc[r] = "claim"
    /\ Claimable
    /\ row' = [row EXCEPT !.claimed = TRUE]
    /\ Goto(r, "resolve") \/ (Faults /\ Answer(r, "error"))
    /\ UNCHANGED <<append, callers, span>>

ClaimLoses(r) ==
    /\ pc[r] = "claim"
    /\ ~Claimable
    /\ Goto(r, "lost")
    /\ UNCHANGED <<row, append, callers, span>>

\* Slip: the loser tries again until it wins.
ClaimRetry(r) ==
    /\ pc[r] = "lost"
    /\ Goto(r, "claim")
    /\ UNCHANGED <<row, append, callers, span>>

\* populate_existing re-read of the loser
ClaimReread(r) ==
    /\ pc[r] = "lost"
    /\ Answer(r, IF ~Live THEN "not_found"
                 ELSE IF row.outcome # Null THEN row.outcome ELSE "generating")
    /\ UNCHANGED <<row, append, callers, span>>

-----------------------------------------------------------------------------
(* The model call, outside any transaction *)

\* resolve_profiles raises ProfileUnavailableError: nothing is called.
ResolveFails(r) ==
    /\ pc[r] = "resolve"
    /\ failed' = [failed EXCEPT ![r] = TRUE]
    /\ pc' = [pc EXCEPT ![r] = "finalize"]
    /\ UNCHANGED <<row, append, text, reply, callers, span>>

OpenedSpan == [state |-> "open", ok |-> FALSE, result |-> Null]

\* The span is written, or the write fails and is swallowed.
OpenSpan(r) ==
    /\ pc[r] = "resolve"
    /\ Goto(r, "calling")
    /\ callers' = callers \cup {r}
    /\ span' \in {span, OpenedSpan}
    /\ UNCHANGED <<row, append>>

\* A usable text, no text (timeout, upstream error, no terminal event, empty
\* output, client disconnect), or a text followed by an error while the
\* request's own model client closes.
ModelCall(r) ==
    /\ pc[r] = "calling"
    /\ text' \in {text, [text EXCEPT ![r] = TRUE]}
    /\ failed' \in {failed, [failed EXCEPT ![r] = TRUE]}
    /\ text'[r] \/ failed'[r]
    /\ pc' = [pc EXCEPT ![r] = "finalize"]
    /\ UNCHANGED <<row, append, reply, callers, span>>

-----------------------------------------------------------------------------
(* The finalize transaction, shielded from cancellation *)

\* What a read of the row tells a finalizing request; "open" is no status.
Observed == IF ~Live THEN "gone" ELSE IF row.outcome # Null THEN row.outcome ELSE "open"

Settle(r, status) ==
    /\ pc' = [pc EXCEPT ![r] = "close"]
    /\ reply' = [reply EXCEPT ![r] = status]
    /\ UNCHANGED <<text, failed>>

\* A terminal write whose commit is acknowledged, or whose answer is lost.
Commit(r, status) == Settle(r, status) \/ (Faults /\ Settle(r, "error"))

\* Slip: a failed call answers without recording its outcome.
FinalizeUnrecorded(r) ==
    /\ pc[r] = "finalize"
    /\ IF Observed # "open" THEN Settle(r, Observed)
       ELSE IF text[r] THEN Goto(r, "apply") ELSE Settle(r, "processed")
    /\ UNCHANGED <<row, append, callers, span>>

FinalizeRead(r) ==
    /\ pc[r] = "finalize"
    /\ IF Observed # "open" THEN Settle(r, Observed)
       ELSE Goto(r, IF text[r] THEN "apply" ELSE "fallback")
    /\ UNCHANGED <<row, append, callers, span>>

\* Slip: the number of updated rows is not looked at.
RecordFallbackBlind(r) ==
    /\ pc[r] = "fallback"
    /\ row' = IF CanRecord THEN Recorded("fallback") ELSE row
    /\ Settle(r, "fallback")
    /\ UNCHANGED <<append, callers, span>>

RecordFallback(r) ==
    /\ pc[r] = "fallback"
    /\ IF CanRecord THEN row' = Recorded("fallback") /\ Commit(r, "fallback")
       ELSE row' = row /\ Goto(r, "reread")
    /\ UNCHANGED <<append, callers, span>>

ApplyTitle(r) ==
    /\ pc[r] = "apply"
    /\ IF CanApply THEN row' = Applied(r) /\ Commit(r, "applied")
       ELSE row' = row /\ Goto(r, "fresh")
    /\ UNCHANGED <<append, callers, span>>

\* Slip: a title that could not be applied counts as a fallback.
FreshReadFallback(r) ==
    /\ pc[r] = "fresh"
    /\ IF Observed # "open" THEN Settle(r, Observed) ELSE Goto(r, "fallback")
    /\ UNCHANGED <<row, append, callers, span>>

FreshRead(r) ==
    /\ pc[r] = "fresh"
    /\ IF Observed # "open" THEN Settle(r, Observed) ELSE Goto(r, "manual")
    /\ UNCHANGED <<row, append, callers, span>>

RecordManual(r) ==
    /\ pc[r] = "manual"
    /\ IF CanRecord THEN row' = Recorded("manual_not_applied") /\ Commit(r, "manual_not_applied")
       ELSE row' = row /\ Goto(r, "reread")
    /\ UNCHANGED <<append, callers, span>>

\* _read_repeated_title_outcome
Reread(r) ==
    /\ pc[r] = "reread"
    /\ Settle(r, IF Observed # "open" THEN Observed ELSE "processed")
    /\ UNCHANGED <<row, append, callers, span>>

\* application_result is written only when there was a title to apply.
ClosedSpan(r) ==
    [state |-> "closed", ok |-> ~failed[r],
     result |-> IF text[r] /\ reply[r] # "error" THEN reply[r] ELSE Null]

\* Slip: the span reports the model's result as the title's.
CloseSpanOptimistic(r) ==
    /\ pc[r] = "close"
    /\ Goto(r, "done")
    /\ span' = IF span.state = "none" THEN span
               ELSE [state |-> "closed", ok |-> ~failed[r],
                     result |-> IF text[r] THEN "applied" ELSE Null]
    /\ UNCHANGED <<row, append, callers>>

\* close_span: an UPDATE that may fail and be swallowed.
CloseSpan(r) ==
    /\ pc[r] = "close"
    /\ Goto(r, "done")
    /\ \/ UNCHANGED span
       \/ span.state # "none" /\ span' = ClosedSpan(r)
    /\ UNCHANGED <<row, append, callers>>

ClaimStep(r) == ReadSource(r) \/ ClaimWins(r) \/ ClaimLoses(r) \/ ClaimReread(r)
CallStep(r) == ResolveFails(r) \/ OpenSpan(r) \/ ModelCall(r)
FinalizeStep(r) == FinalizeRead(r) \/ RecordFallback(r) \/ ApplyTitle(r)
                      \/ FreshRead(r) \/ RecordManual(r) \/ Reread(r)

\* The steps a request takes by itself once the server has received it.
RequestStep(r) == ClaimStep(r) \/ CallStep(r) \/ FinalizeStep(r) \/ CloseSpan(r)

-----------------------------------------------------------------------------
(* Failures *)

\* A statement or a commit fails: the transaction rolls back, the answer is 500.
ClaimFails(r) ==
    /\ Faults
    /\ pc[r] \in ClaimSteps
    /\ Answer(r, "error")
    /\ UNCHANGED <<row, append, callers, span>>

FinalizeFails(r) ==
    /\ Faults
    /\ pc[r] \in FinalizeSteps
    /\ Settle(r, "error")
    /\ UNCHANGED <<row, append, callers, span>>

\* The process stops; nothing resumes what was in flight.
Crash ==
    /\ Faults
    /\ \E r \in Request : pc[r] \notin {"idle", "done", "dead"}
    /\ pc' = [r \in Request |-> IF pc[r] \in {"idle", "done"} THEN pc[r] ELSE "dead"]
    /\ append' = [m \in UserMessage |->
                    IF append[m] \in {"missed", "upserted"} THEN "rejected" ELSE append[m]]
    /\ UNCHANGED <<row, text, failed, reply, callers, span>>

-----------------------------------------------------------------------------

Init ==
    /\ row \in {Absent} \cup {Legacy(t) : t \in ManualTitle \cup {Null}}
    /\ append = [m \in UserMessage |-> "idle"]
    /\ pc = [r \in Request |-> "idle"]
    /\ text = [r \in Request |-> FALSE]
    /\ failed = [r \in Request |-> FALSE]
    /\ reply = [r \in Request |-> Null]
    /\ callers = {}
    /\ span = [state |-> "none", ok |-> FALSE, result |-> Null]

Next ==
    \/ \E m \in UserMessage : AppendStep(m)
    \/ \E t \in ManualTitle \cup {Null} : Rename(t)
    \/ Delete
    \/ \E r \in Request : \/ ClaimRead(r)
                          \/ RequestStep(r)
                          \/ ClaimFails(r)
                          \/ FinalizeFails(r)
    \/ Crash

\* A request in progress keeps running: transactions are short, the model call
\* has a 30 second limit, cancellation does not reach the finalize transaction.
Fairness == \A r \in Request : WF_vars(RequestStep(r))

Spec == Init /\ [][Next]_vars /\ Fairness

-----------------------------------------------------------------------------
(* Properties *)

\* At most one request of a session ever calls the model, whatever the other
\* connections, failures and crashes do (claim_title_generation).
OneModelCall == \A r, s \in callers : r = s

\* A title that was never typed by a visitor belongs to the first user message:
\* the concurrent first appends of a session agree on fallback and source text.
FallbackIsFirst == row.title \in UserMessage => row.title = row.first

\* A generated title is shown only after "applied", "fallback" and "applied"
\* agree with what the only caller got, and "manual_not_applied" is recorded
\* only for a renamed session.
OutcomeTrue ==
    /\ row.title \in Request => row.outcome = "applied" /\ row.title \in callers
    /\ row.outcome = "applied" => \E r \in callers : text[r] /\ (row.title = r \/ row.manual)
    /\ row.outcome = "fallback" => \A r \in callers : ~text[r]
    /\ row.outcome = "manual_not_applied" => row.manual /\ \E r \in callers : text[r]

\* What a request was told stays the recorded outcome.
AnswersStand == \A r \in Request : reply[r] \in Outcome => row.outcome = reply[r]

\* The title span claims no result the row does not have, and "gone" only for
\* a deleted session.
SpanAgrees ==
    /\ span.result \in Outcome => row.outcome = span.result
    /\ span.result = "gone" => row.deleted /\ row.outcome = Null
    /\ span.result # "processed"

\* The outcome of the attempt is one story: the recorded outcome is what
\* happened, no later request, rename or deletion makes an answer already
\* given untrue, and the span, written in other transactions, agrees.
OutcomeHonest == OutcomeTrue /\ AnswersStand /\ SpanAgrees

\* Once a visitor has renamed the session only renaming changes its title, even
\* while a request is between its model call and its finalize transaction.
ManualTitleWins == [][row.manual => row'.title \in ManualTitle \cup {Null}]_vars

\* An outcome is written once and a claim is never given back.
SettledOnce == [][/\ row.outcome # Null => row'.outcome = row.outcome
                  /\ row.claimed => row'.claimed]_vars

\* A deleted session is not revived, renamed, titled or appended to.
DeletedIsFrozen == [][row.deleted => row' = row]_vars

\* The stage of the attempt, read from the columns.
Stage == IF ~row.exists THEN "absent"
         ELSE IF row.outcome # Null THEN row.outcome
         ELSE IF row.claimed THEN "running"
         ELSE IF row.eligible THEN "offered"
         ELSE "withdrawn"

\* The columns implement the promise of TitleAttempt.
Attempt == INSTANCE TitleAttempt WITH
    Fallback <- UserMessage, Generated <- Request, Manual <- ManualTitle, Untitled <- Null,
    stage <- Stage, title <- row.title, edited <- row.manual, gone <- row.deleted

AttemptSpec == Attempt!Spec

\* Every request the server receives is answered or dies with the process.
EveryRequestEnds == \A r \in Request : pc[r] # "idle" ~> pc[r] \in {"done", "dead"}

\* Without failures a claimed attempt gets its outcome, unless the session is
\* deleted under it.
ClaimSettles == row.claimed ~> (row.outcome # Null \/ row.deleted)

=============================================================================
