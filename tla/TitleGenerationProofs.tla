----------------------- MODULE TitleGenerationProofs -----------------------
(***************************************************************************)
(* TLAPS proofs about TitleGeneration: its safety invariants, its action   *)
(* properties and that it implements TitleAttempt.                         *)
(***************************************************************************)
EXTENDS TitleGeneration, TLAPS

\* The request that won the claim, until it is answered.
Attempting == {"resolve", "calling", "close"} \cup FinalizeSteps

Unsettled == Attempting \ {"close"}

(***************************************************************************)
(* The inductive invariant, in five parts.                                 *)
(***************************************************************************)

\* The columns agree with one another.
RowOK ==
    /\ ~row.exists => row = Absent
    /\ row.eligible => ~row.manual /\ row.outcome = Null /\ row.title # Null
    /\ row.outcome # Null => row.claimed
    /\ row.claimed /\ row.outcome = Null => row.eligible \/ row.manual
    /\ row.manual => row.title \in ManualTitle \cup {Null}
    /\ FallbackIsFirst

\* The claim has one winner, and only the winner calls the model.
ClaimOK ==
    /\ \A r \in Request : pc[r] \in Attempting => row.claimed
    /\ \A r, s \in Request : pc[r] \in Attempting /\ pc[s] \in Attempting => r = s
    /\ callers # {} => row.claimed
    /\ \A r \in callers, s \in Request : pc[s] \in Attempting => r = s
    /\ \A r \in Request : pc[r] = "resolve" => callers = {}
    /\ OneModelCall

\* What a request between its call and its answer knows about the row.
AttemptOK ==
    /\ \A r \in Request : pc[r] \in Unsettled => row.outcome = Null
    /\ \A r \in Request : text[r] => r \in callers
    /\ \A r \in Request : pc[r] = "calling" => r \in callers
    /\ \A r \in Request : pc[r] = "fallback" => ~text[r]
    /\ \A r \in Request : pc[r] \in {"apply", "fresh", "manual"} => text[r]
    /\ \A r \in Request : pc[r] \in {"fresh", "manual"} => row.manual \/ row.deleted
    /\ \A r \in Request : pc[r] = "reread" => row.deleted

AnswerOK ==
    /\ OutcomeTrue
    /\ AnswersStand
    /\ \A r \in Request : pc[r] = "close" =>
          /\ reply[r] # "processed"
          /\ reply[r] = "gone" => row.deleted /\ row.outcome = Null

IInv == TypeOK /\ RowOK /\ ClaimOK /\ AttemptOK /\ AnswerOK /\ SpanAgrees

-----------------------------------------------------------------------------

\* The row operators return rows.
LEMMA RowTypes ==
    /\ Absent \in Row /\ NewRow \in Row
    /\ \A t \in ManualTitle \cup {Null} : Legacy(t) \in Row
    /\ \A s \in Row, m \in UserMessage : SetFallback(s, m) \in Row /\ InsertMessage(s, m) \in Row
    /\ row \in Row => /\ \A t \in ManualTitle \cup {Null} : Renamed(t) \in Row
                      /\ \A o \in Outcome : Recorded(o) \in Row
                      /\ \A r \in Request : Applied(r) \in Row
                      /\ [row EXCEPT !.deleted = TRUE] \in Row
                      /\ [row EXCEPT !.claimed = TRUE] \in Row
                      /\ Observed \in Status \cup {"open"}
<1>1. Absent \in Row /\ NewRow \in Row
  BY DEF Absent, NewRow, Row, Title
<1>2. \A t \in ManualTitle \cup {Null} : Legacy(t) \in Row
  BY DEF Absent, Legacy, Row, Title
<1>3. \A s \in Row, m \in UserMessage : SetFallback(s, m) \in Row
  BY DEF SetFallback, Row, Title
<1>4. \A s \in Row, m \in UserMessage : InsertMessage(s, m) \in Row
  BY DEF InsertMessage, Row
<1>5. ASSUME row \in Row, NEW t \in ManualTitle \cup {Null} PROVE Renamed(t) \in Row
  BY <1>5 DEF Renamed, Row, Title
<1>6. ASSUME row \in Row, NEW o \in Outcome PROVE Recorded(o) \in Row
  BY <1>6 DEF Recorded, Row
<1>7. ASSUME row \in Row, NEW r \in Request PROVE Applied(r) \in Row
  BY <1>7 DEF Applied, Row, Title, Outcome
<1>8. ASSUME row \in Row
      PROVE [row EXCEPT !.deleted = TRUE] \in Row /\ [row EXCEPT !.claimed = TRUE] \in Row
  BY <1>8 DEF Row
<1>9. row \in Row => Observed \in Status \cup {"open"}
  BY DEF Row, Observed, Status
<1> QED
  BY <1>1, <1>2, <1>3, <1>4, <1>5, <1>6, <1>7, <1>8, <1>9

LEMMA InitType == Init => TypeOK
<1> SUFFICES ASSUME Init PROVE TypeOK
  OBVIOUS
<1>1. row \in Row
  BY RowTypes DEF Init
<1>2. span \in Span
  BY DEF Init, Span
<1> QED
  BY <1>1, <1>2 DEF Init, TypeOK, Place

\* Every step keeps the types: one case per action.
LEMMA TypeStep == TypeOK /\ [Next]_vars => TypeOK'
<1> SUFFICES ASSUME TypeOK, [Next]_vars PROVE TypeOK'
  OBVIOUS
<1> USE RowTypes DEF TypeOK
<1>1. ASSUME NEW m \in UserMessage, AppendStep(m) PROVE TypeOK'
  <2>1. row' \in Row
    BY <1>1 DEF AppendStep, AppendToExisting, AppendMiss, AppendInsert, AppendConflict,
       AppendAfterConflict
  <2> QED
    BY <1>1, <2>1 DEF AppendStep, AppendToExisting, AppendMiss, AppendInsert, AppendConflict,
       AppendAfterConflict, request
<1>2. ASSUME NEW t \in ManualTitle \cup {Null}, Rename(t) PROVE TypeOK'
  BY <1>2 DEF Rename, request
<1>3. CASE Delete
  BY <1>3 DEF Delete, request
<1>4. ASSUME NEW r \in Request, ClaimRead(r) \/ ClaimStep(r) \/ ClaimFails(r) PROVE TypeOK'
  <2>1. row' \in Row
    BY <1>4 DEF ClaimRead, ClaimStep, ReadSource, ClaimWins, ClaimLoses, ClaimReread, ClaimFails
  <2>2. row.outcome # Null => row.outcome \in Status
    BY DEF Row, Status
  <2> QED
    BY <1>4, <2>1, <2>2 DEF ClaimRead, ClaimStep, ReadSource, ClaimWins, ClaimLoses,
       ClaimReread, ClaimFails, Answer, Goto, Status, Place, ClaimSteps
<1>5. ASSUME NEW r \in Request, CallStep(r) PROVE TypeOK'
  <2>1. CASE ResolveFails(r)
    BY <2>1 DEF ResolveFails, Place, FinalizeSteps
  <2>2. CASE OpenSpan(r)
    <3>1. OpenedSpan \in Span
      BY Zenon DEF OpenedSpan, Span
    <3>2. span' \in Span
      BY <2>2, <3>1 DEF OpenSpan
    <3> QED
      BY <2>2, <3>2 DEF OpenSpan, Goto, Place
  <2>3. CASE ModelCall(r)
    BY <2>3 DEF ModelCall, Place, FinalizeSteps
  <2> QED
    BY <1>5, <2>1, <2>2, <2>3 DEF CallStep
<1>6. ASSUME NEW r \in Request, FinalizeStep(r) \/ FinalizeFails(r) PROVE TypeOK'
  <2>1. row' \in Row
    BY <1>6 DEF FinalizeStep, FinalizeRead, RecordFallback, ApplyTitle, FreshRead,
       RecordManual, Reread, FinalizeFails, Outcome
  <2>2. \A s \in Status : Settle(r, s) => pc' \in [Request -> Place]
                        /\ reply' \in [Request -> Status \cup {Null}]
                        /\ UNCHANGED <<text, failed>>
    BY DEF Settle, Place
  <2>3. \A s \in FinalizeSteps : Goto(r, s) => pc' \in [Request -> Place]
                                         /\ UNCHANGED <<text, failed, reply>>
    BY DEF Goto, Place
  <2>4. \E s \in Status, p \in FinalizeSteps : Settle(r, s) \/ Goto(r, p)
    BY <1>6 DEF FinalizeStep, FinalizeRead, RecordFallback, ApplyTitle, FreshRead,
       RecordManual, Reread, FinalizeFails, Commit, Status, Outcome, FinalizeSteps
  <2>5. UNCHANGED <<append, callers, span>>
    BY <1>6 DEF FinalizeStep, FinalizeRead, RecordFallback, ApplyTitle, FreshRead,
       RecordManual, Reread, FinalizeFails
  <2> QED
    BY <2>1, <2>2, <2>3, <2>4, <2>5
<1>7. ASSUME NEW r \in Request, CloseSpan(r) PROVE TypeOK'
  <2>1. (~failed[r]) \in BOOLEAN
    OBVIOUS
  <2>2. ClosedSpan(r) \in Span
    BY <2>1, Zenon DEF ClosedSpan, Span
  <2>3. span' \in Span
    BY <1>7, <2>2 DEF CloseSpan
  <2> QED
    BY <1>7, <2>3 DEF CloseSpan, Goto, Place
<1>8. CASE Crash
  BY <1>8 DEF Crash, Place
<1>9. CASE UNCHANGED vars
  BY <1>9 DEF vars, request
<1> QED
  BY <1>1, <1>2, <1>3, <1>4, <1>5, <1>6, <1>7, <1>8, <1>9 DEF Next, RequestStep

\* Every variable keeps its type, for any number of messages, requests and titles.
THEOREM TypeCorrect == Spec => []TypeOK
BY InitType, TypeStep, PTL DEF Spec

-----------------------------------------------------------------------------
(* The row *)

LEMMA InitRow == Init => RowOK
<1> SUFFICES ASSUME Init PROVE RowOK
  OBVIOUS
<1>1. CASE row = Absent
  BY <1>1, DistinctTitles DEF RowOK, FallbackIsFirst, Absent
<1>2. ASSUME NEW t \in ManualTitle \cup {Null}, row = Legacy(t) PROVE RowOK
  BY <1>2, DistinctTitles DEF RowOK, FallbackIsFirst, Absent, Legacy
<1> QED
  BY <1>1, <1>2 DEF Init

\* What a step does to the row, with the condition it does it under.
RowChange ==
    \/ UNCHANGED row
    \/ \E m \in UserMessage : Live /\ row' = InsertMessage(SetFallback(row, m), m)
    \/ \E m \in UserMessage : ~row.exists /\ row' = InsertMessage(SetFallback(NewRow, m), m)
    \/ \E t \in ManualTitle \cup {Null} : Live /\ row' = Renamed(t)
    \/ Live /\ row' = [row EXCEPT !.deleted = TRUE]
    \/ Claimable /\ row' = [row EXCEPT !.claimed = TRUE]
    \/ \E o \in {"fallback", "manual_not_applied"} : CanRecord /\ row' = Recorded(o)
    \/ \E r \in Request : CanApply /\ row' = Applied(r)

LEMMA RowStep == [Next]_vars => RowChange
<1> SUFFICES ASSUME [Next]_vars PROVE RowChange
  OBVIOUS
<1>1. ASSUME NEW m \in UserMessage, AppendStep(m) PROVE RowChange
  BY <1>1 DEF AppendStep, AppendToExisting, AppendMiss, AppendInsert, AppendConflict,
     AppendAfterConflict, RowChange
<1>2. ASSUME NEW t \in ManualTitle \cup {Null}, Rename(t) PROVE RowChange
  BY <1>2 DEF Rename, RowChange
<1>3. CASE Delete
  BY <1>3 DEF Delete, RowChange
<1>4. ASSUME NEW r \in Request, ClaimRead(r) \/ ClaimStep(r) \/ ClaimFails(r) PROVE RowChange
  BY <1>4 DEF ClaimRead, ClaimStep, ReadSource, ClaimWins, ClaimLoses, ClaimReread, ClaimFails,
     RowChange
<1>5. ASSUME NEW r \in Request, CallStep(r) \/ CloseSpan(r) PROVE RowChange
  BY <1>5 DEF CallStep, ResolveFails, OpenSpan, ModelCall, CloseSpan, RowChange
<1>6. ASSUME NEW r \in Request, FinalizeStep(r) \/ FinalizeFails(r) PROVE RowChange
  BY <1>6 DEF FinalizeStep, FinalizeRead, RecordFallback, ApplyTitle, FreshRead, RecordManual,
     Reread, FinalizeFails, RowChange
<1>7. CASE Crash \/ UNCHANGED vars
  BY <1>7 DEF Crash, vars, RowChange
<1> QED
  BY <1>1, <1>2, <1>3, <1>4, <1>5, <1>6, <1>7 DEF Next, RequestStep

\* The columns stay in agreement, whatever the requests are doing.
LEMMA RowInductive == TypeOK /\ RowOK /\ RowChange => RowOK'
<1> SUFFICES ASSUME TypeOK, RowOK, RowChange PROVE RowOK'
  OBVIOUS
<1> USE DistinctTitles, NullIsNoStatus DEF TypeOK, Row, RowOK, FallbackIsFirst, Live
<1>1. CASE UNCHANGED row
  BY <1>1
<1>2. ASSUME NEW m \in UserMessage, Live, row' = InsertMessage(SetFallback(row, m), m)
      PROVE RowOK'
  BY <1>2 DEF InsertMessage, SetFallback
<1>3. ASSUME NEW m \in UserMessage, row' = InsertMessage(SetFallback(NewRow, m), m)
      PROVE RowOK'
  BY <1>3 DEF InsertMessage, SetFallback, NewRow, Absent
<1>4. ASSUME NEW t \in ManualTitle \cup {Null}, Live, row' = Renamed(t) PROVE RowOK'
  BY <1>4 DEF Renamed
<1>5. ASSUME Live, row' = [row EXCEPT !.deleted = TRUE] PROVE RowOK'
  BY <1>5
<1>6. ASSUME Claimable, row' = [row EXCEPT !.claimed = TRUE] PROVE RowOK'
  BY <1>6 DEF Claimable
<1>7. ASSUME NEW o \in {"fallback", "manual_not_applied"}, CanRecord, row' = Recorded(o)
      PROVE RowOK'
  BY <1>7 DEF CanRecord, Recorded
<1>8. ASSUME NEW r \in Request, CanApply, row' = Applied(r) PROVE RowOK'
  BY <1>8 DEF CanApply, CanRecord, Applied
<1> QED
  BY <1>1, <1>2, <1>3, <1>4, <1>5, <1>6, <1>7, <1>8 DEF RowChange

\* Facts about the row that, once true, stay true.
RowKeeps ==
    /\ row.claimed => row'.claimed
    /\ row.manual => row'.manual
    /\ row.outcome # Null => row'.outcome = row.outcome
    /\ row.deleted => row' = row
    /\ row.manual => row'.title \in ManualTitle \cup {Null}

LEMMA RowMonotone == TypeOK /\ RowOK /\ RowChange => RowKeeps
<1> SUFFICES ASSUME TypeOK, RowOK, RowChange PROVE RowKeeps
  OBVIOUS
<1> USE DistinctTitles DEF TypeOK, Row, RowOK, Live, RowKeeps
<1>1. CASE UNCHANGED row
  BY <1>1
<1>2. ASSUME NEW m \in UserMessage, Live, row' = InsertMessage(SetFallback(row, m), m)
      PROVE RowKeeps
  BY <1>2 DEF InsertMessage, SetFallback
<1>3. ASSUME NEW m \in UserMessage, ~row.exists PROVE RowKeeps
  BY <1>3 DEF Absent
<1>4. ASSUME NEW t \in ManualTitle \cup {Null}, Live, row' = Renamed(t) PROVE RowKeeps
  BY <1>4 DEF Renamed
<1>5. ASSUME Live, row' = [row EXCEPT !.deleted = TRUE] PROVE RowKeeps
  BY <1>5
<1>6. ASSUME Claimable, row' = [row EXCEPT !.claimed = TRUE] PROVE RowKeeps
  BY <1>6 DEF Claimable
<1>7. ASSUME NEW o \in {"fallback", "manual_not_applied"}, CanRecord, row' = Recorded(o)
      PROVE RowKeeps
  BY <1>7 DEF CanRecord, Recorded
<1>8. ASSUME NEW r \in Request, CanApply, row' = Applied(r) PROVE RowKeeps
  BY <1>8 DEF CanApply, CanRecord, Applied
<1> QED
  BY <1>1, <1>2, <1>3, <1>4, <1>5, <1>6, <1>7, <1>8 DEF RowChange

-----------------------------------------------------------------------------
(* The claim *)

\* A step moves at most one request, from one place to another, or crashes.
Moves(r, from, to) == pc[r] \in from /\ \E p \in to : pc' = [pc EXCEPT ![r] = p]

NotAttempting == {"idle", "done", "dead"} \cup ClaimSteps

LEMMA Movement ==
    ASSUME TypeOK, [Next]_vars
    PROVE  \/ UNCHANGED <<pc, text, reply, callers>>
           \/ \E r \in Request :
                 \/ Moves(r, NotAttempting, NotAttempting) /\ UNCHANGED <<text, callers>>
                 \/ Moves(r, {"close"}, {"done"}) /\ UNCHANGED <<text, callers>>
                 \/ ClaimWins(r) /\ Moves(r, NotAttempting, {"resolve"})
                 \/ OpenSpan(r)
                 \/ /\ ResolveFails(r) \/ ModelCall(r)
                    /\ Moves(r, {"resolve", "calling"}, {"finalize"}) /\ UNCHANGED callers
                 \/ /\ FinalizeStep(r) \/ FinalizeFails(r)
                    /\ Moves(r, FinalizeSteps, FinalizeSteps \cup {"close"}) /\ UNCHANGED <<text, callers>>
           \/ Crash
<1> DEFINE Goal(r) ==
      \/ Moves(r, NotAttempting, NotAttempting) /\ UNCHANGED <<text, callers>>
      \/ Moves(r, {"close"}, {"done"}) /\ UNCHANGED <<text, callers>>
      \/ ClaimWins(r) /\ Moves(r, NotAttempting, {"resolve"})
      \/ OpenSpan(r)
      \/ /\ ResolveFails(r) \/ ModelCall(r)
         /\ Moves(r, {"resolve", "calling"}, {"finalize"}) /\ UNCHANGED callers
      \/ /\ FinalizeStep(r) \/ FinalizeFails(r)
         /\ Moves(r, FinalizeSteps, FinalizeSteps \cup {"close"}) /\ UNCHANGED <<text, callers>>
<1>1. ASSUME \/ \E m \in UserMessage : AppendStep(m)
             \/ \E t \in ManualTitle \cup {Null} : Rename(t)
             \/ Delete
             \/ UNCHANGED vars
      PROVE UNCHANGED <<pc, text, reply, callers>>
  BY <1>1 DEF AppendStep, AppendToExisting, AppendMiss, AppendInsert, AppendConflict,
     AppendAfterConflict, Rename, Delete, vars, request
<1>2. ASSUME NEW r \in Request, ClaimRead(r) \/ ClaimStep(r) \/ ClaimFails(r) PROVE Goal(r)
  BY <1>2 DEF ClaimRead, ClaimStep, ReadSource, ClaimWins, ClaimLoses, ClaimReread, ClaimFails,
     Answer, Goto, Moves, NotAttempting, ClaimSteps
<1>3. ASSUME NEW r \in Request, CallStep(r) \/ CloseSpan(r) PROVE Goal(r)
  BY <1>3 DEF CallStep, ResolveFails, ModelCall, CloseSpan, Goto, Moves
<1>4. ASSUME NEW r \in Request, FinalizeStep(r) \/ FinalizeFails(r) PROVE Goal(r)
  BY <1>4 DEF FinalizeStep, FinalizeRead, RecordFallback, ApplyTitle, FreshRead, RecordManual,
     Reread, FinalizeFails, Settle, Commit, Goto, Moves, FinalizeSteps
<1> QED
  BY <1>1, <1>2, <1>3, <1>4 DEF Next, RequestStep

\* One winner of the claim: only ClaimWins enters Attempting, only while the row
\* is unclaimed, and the row never loses its claim.
LEMMA ClaimInductive == IInv /\ [Next]_vars => ClaimOK'
<1> SUFFICES ASSUME IInv, [Next]_vars PROVE ClaimOK'
  OBVIOUS
<1>0. row.claimed => row'.claimed
  BY RowStep, RowMonotone DEF IInv, RowKeeps
<1> USE <1>0 DEF IInv, TypeOK, ClaimOK, OneModelCall
<1>1. CASE UNCHANGED <<pc, text, reply, callers>>
  BY <1>1
<1>2. ASSUME NEW r \in Request, Moves(r, NotAttempting, NotAttempting), UNCHANGED callers
      PROVE ClaimOK'
  BY <1>2 DEF Moves, NotAttempting, Attempting, ClaimSteps, FinalizeSteps
<1>3. ASSUME NEW r \in Request, Moves(r, {"close"}, {"done"}), UNCHANGED callers
      PROVE ClaimOK'
  BY <1>3 DEF Moves, Attempting, FinalizeSteps
<1>4. ASSUME NEW r \in Request, ClaimWins(r), Moves(r, NotAttempting, {"resolve"})
      PROVE ClaimOK'
  <2>1. ~row.claimed /\ row'.claimed /\ UNCHANGED callers
    BY <1>4 DEF ClaimWins, Claimable, Row
  <2>2. callers = {} /\ \A s \in Request : pc[s] \notin Attempting
    BY <2>1
  <2> QED
    BY <1>4, <2>1, <2>2 DEF Moves
<1>5. ASSUME NEW r \in Request, OpenSpan(r) PROVE ClaimOK'
  <2>1. /\ callers = {} /\ callers' = {r} /\ row.claimed
        /\ pc' = [pc EXCEPT ![r] = "calling"]
        /\ pc[r] = "resolve" /\ UNCHANGED row
    BY <1>5 DEF OpenSpan, Goto, Attempting
  <2>2. \A s \in Request : pc[s] \in Attempting => s = r
    BY <2>1 DEF Attempting
  <2>3. \A s \in Request : pc'[s] \in Attempting => s = r
    BY <2>1, <2>2
  <2>4. \A s \in Request : pc'[s] # "resolve"
    BY <2>1, <2>2 DEF Attempting
  <2> QED
    BY <2>1, <2>3, <2>4
<1>6. ASSUME NEW r \in Request, UNCHANGED callers,
             \/ Moves(r, {"resolve", "calling"}, {"finalize"})
             \/ Moves(r, FinalizeSteps, FinalizeSteps \cup {"close"})
      PROVE ClaimOK'
  BY <1>6 DEF Moves, Attempting, FinalizeSteps
<1>7. CASE Crash
  BY <1>7 DEF Crash, Attempting, FinalizeSteps
<1> QED
  BY <1>1, <1>2, <1>3, <1>4, <1>5, <1>6, <1>7, Movement

-----------------------------------------------------------------------------
(* The outcome *)

\* A step that writes no outcome: a title it sets is a fallback or a visitor's.
Quiet ==
    /\ row'.outcome = row.outcome
    /\ \/ row'.title = row.title
       \/ /\ row'.title \notin Request
          /\ row'.manual \/ row.outcome = Null

\* The only steps that write the outcome.
Writes(r, status) ==
    /\ CanRecord
    /\ \/ status = "fallback" /\ pc[r] = "fallback" /\ row' = Recorded("fallback")
       \/ status = "applied" /\ pc[r] = "apply" /\ row' = Applied(r)
       \/ status = "manual_not_applied" /\ pc[r] = "manual" /\ row' = Recorded("manual_not_applied")
    /\ pc' = [pc EXCEPT ![r] = "close"]
    /\ \E answer \in {status, "error"} : reply' = [reply EXCEPT ![r] = answer]
    /\ UNCHANGED <<text, callers, span>>

LEMMA Writers ==
    ASSUME TypeOK, RowOK, [Next]_vars
    PROVE  Quiet \/ \E r \in Request, status \in Outcome : Writes(r, status)
<1> USE DistinctTitles DEF TypeOK, Row
<1>1. ASSUME NEW m \in UserMessage, AppendStep(m) PROVE Quiet
  <2>1. CASE UNCHANGED row
    BY <2>1 DEF Quiet
  <2>2. CASE Live /\ row' = InsertMessage(SetFallback(row, m), m)
    BY <2>2 DEF Quiet, InsertMessage, SetFallback, RowOK
  <2>3. CASE ~row.exists /\ row' = InsertMessage(SetFallback(NewRow, m), m)
    BY <2>3 DEF Quiet, InsertMessage, SetFallback, NewRow, Absent, RowOK
  <2> QED
    BY <1>1, <2>1, <2>2, <2>3 DEF AppendStep, AppendToExisting, AppendMiss, AppendInsert,
       AppendConflict, AppendAfterConflict
<1>2. ASSUME NEW t \in ManualTitle \cup {Null}, Rename(t) PROVE Quiet
  BY <1>2 DEF Rename, Renamed, Quiet
<1>3. CASE Delete
  BY <1>3 DEF Delete, Quiet
<1>4. ASSUME NEW r \in Request, ClaimRead(r) \/ ClaimStep(r) \/ ClaimFails(r) PROVE Quiet
  BY <1>4 DEF ClaimRead, ClaimStep, ReadSource, ClaimWins, ClaimLoses, ClaimReread, ClaimFails,
     Quiet
<1>5. ASSUME NEW r \in Request, CallStep(r) \/ CloseSpan(r) PROVE Quiet
  BY <1>5 DEF CallStep, ResolveFails, OpenSpan, ModelCall, CloseSpan, Quiet
<1>6. ASSUME NEW r \in Request, FinalizeStep(r) \/ FinalizeFails(r)
      PROVE  Quiet \/ \E status \in Outcome : Writes(r, status)
  <2>1. CASE RecordFallback(r) /\ CanRecord
    BY <2>1 DEF RecordFallback, Commit, Settle, Writes, Outcome
  <2>2. CASE ApplyTitle(r) /\ CanApply
    BY <2>2 DEF ApplyTitle, Commit, Settle, Writes, Outcome, CanApply
  <2>3. CASE RecordManual(r) /\ CanRecord
    BY <2>3 DEF RecordManual, Commit, Settle, Writes, Outcome
  <2>4. CASE UNCHANGED row
    BY <2>4 DEF Quiet
  <2> QED
    BY <1>6, <2>1, <2>2, <2>3, <2>4 DEF FinalizeStep, FinalizeRead, RecordFallback, ApplyTitle,
       FreshRead, RecordManual, Reread, FinalizeFails
<1>7. CASE Crash \/ UNCHANGED vars
  BY <1>7 DEF Crash, vars, Quiet
<1> QED
  BY <1>1, <1>2, <1>3, <1>4, <1>5, <1>6, <1>7 DEF Next, RequestStep

\* What an unsettled request knows about the row when it steps.
LEMMA UnsettledRow ==
    ASSUME IInv, NEW r \in Request, pc[r] \in Unsettled
    PROVE  /\ row.exists /\ row.claimed /\ row.outcome = Null
           /\ ~CanRecord => row.deleted
           /\ ~CanApply => row.manual \/ row.deleted
<1>1. row.claimed /\ row.outcome = Null
  BY DEF IInv, ClaimOK, AttemptOK, Unsettled
<1>2. row.exists
  BY <1>1 DEF IInv, RowOK, Absent
<1> QED
  BY <1>1, <1>2 DEF IInv, TypeOK, Row, RowOK, CanRecord, CanApply, Live

LEMMA AttemptInductive == IInv /\ [Next]_vars => AttemptOK'
<1> SUFFICES ASSUME IInv, [Next]_vars PROVE AttemptOK'
  OBVIOUS
<1>0. RowKeeps
  BY RowStep, RowMonotone DEF IInv
<1>1. ASSUME NEW r \in Request, NEW status \in Outcome, Writes(r, status) PROVE AttemptOK'
  <2>1. /\ \A s \in Request : pc'[s] \notin Unsettled
        /\ UNCHANGED <<text, callers>>
    <3>1. pc[r] \in Attempting
      BY <1>1 DEF Writes, Attempting, FinalizeSteps
    <3>2. \A s \in Request : s # r => pc[s] \notin Attempting
      BY <3>1 DEF IInv, ClaimOK
    <3> QED
      BY <1>1, <3>2 DEF Writes, IInv, TypeOK, Unsettled, Attempting
  <2> QED
    BY <2>1 DEF IInv, AttemptOK, Unsettled, Attempting, FinalizeSteps
<1>2. ASSUME Quiet PROVE AttemptOK'
  <2> USE <1>0, <1>2 DEF Quiet, RowKeeps, IInv, TypeOK
  <2>1. CASE UNCHANGED <<pc, text, reply, callers>>
    BY <2>1 DEF AttemptOK
  <2>2. ASSUME NEW r \in Request, UNCHANGED <<text, callers>>,
               Moves(r, NotAttempting, NotAttempting) \/ Moves(r, {"close"}, {"done"})
        PROVE AttemptOK'
    BY <2>2 DEF AttemptOK, Moves, NotAttempting, Unsettled, Attempting, ClaimSteps, FinalizeSteps
  <2>3. ASSUME NEW r \in Request, ClaimWins(r), Moves(r, NotAttempting, {"resolve"})
        PROVE AttemptOK'
    <3>1. row.outcome = Null /\ UNCHANGED <<text, callers>>
      BY <2>3 DEF ClaimWins, Claimable, RowOK, Goto, Answer
    <3> QED
      BY <2>3, <3>1 DEF AttemptOK, Moves
  <2>4. ASSUME NEW r \in Request, CallStep(r) PROVE AttemptOK'
    <3>1. row.outcome = Null /\ UNCHANGED row
      BY <2>4 DEF CallStep, ResolveFails, OpenSpan, ModelCall, AttemptOK, Unsettled, Attempting
    <3>2. CASE ResolveFails(r)
      BY <3>1, <3>2 DEF ResolveFails, AttemptOK
    <3>3. CASE OpenSpan(r)
      BY <3>1, <3>3 DEF OpenSpan, Goto, AttemptOK
    <3>4. CASE ModelCall(r)
      <4>1. r \in callers /\ UNCHANGED callers
        BY <3>4 DEF ModelCall, AttemptOK
      <4>2. \A s \in Request : s # r => pc[s] \notin Attempting
        BY <3>4 DEF ModelCall, ClaimOK, Attempting
      <4>3. \A s \in Request : text'[s] => text[s] \/ s = r
        BY <3>4 DEF ModelCall
      <4>4. \A s \in Request : pc'[s] \in Attempting => pc'[s] = "finalize"
        BY <3>4, <4>2 DEF ModelCall
      <4> QED
        BY <3>1, <4>1, <4>3, <4>4 DEF AttemptOK, Unsettled, Attempting, FinalizeSteps
    <3> QED
      BY <2>4, <3>2, <3>3, <3>4 DEF CallStep
  <2>5. ASSUME NEW r \in Request, FinalizeStep(r) \/ FinalizeFails(r) PROVE AttemptOK'
    <3>1. pc[r] \in Unsettled /\ UNCHANGED <<text, callers>>
      BY <2>5 DEF FinalizeStep, FinalizeRead, RecordFallback, ApplyTitle, FreshRead, RecordManual,
         Reread, FinalizeFails, Goto, Settle, Commit, Unsettled, Attempting, FinalizeSteps
    <3>2. /\ row.outcome = Null
          /\ ~CanRecord => row.deleted
          /\ ~CanApply => row.manual \/ row.deleted
      BY <3>1, UnsettledRow
    <3> DEFINE Knows(p) == /\ p # "calling"
                           /\ p = "fallback" => ~text[r]
                           /\ p \in {"apply", "fresh", "manual"} => text[r]
                           /\ p \in {"fresh", "manual"} => row.manual \/ row.deleted
                           /\ p = "reread" => row.deleted
    <3>3. \A answer : Settle(r, answer) => pc' = [pc EXCEPT ![r] = "close"] /\ Knows("close")
      BY DEF Settle
    <3>4. \A p : Goto(r, p) => pc' = [pc EXCEPT ![r] = p]
      BY DEF Goto
    <3>5. \E p : pc' = [pc EXCEPT ![r] = p] /\ Knows(p)
      <4>1. CASE FinalizeRead(r)
        BY <4>1, <3>3, <3>4 DEF FinalizeRead
      <4>2. CASE RecordFallback(r)
        BY <4>2, <3>2, <3>3, <3>4 DEF RecordFallback, Commit
      <4>3. CASE ApplyTitle(r)
        BY <4>3, <3>2, <3>3, <3>4 DEF ApplyTitle, Commit, AttemptOK
      <4>4. CASE FreshRead(r)
        BY <4>4, <3>3, <3>4 DEF FreshRead, AttemptOK
      <4>5. CASE RecordManual(r)
        BY <4>5, <3>2, <3>3, <3>4 DEF RecordManual, Commit
      <4>6. CASE Reread(r) \/ FinalizeFails(r)
        BY <4>6, <3>3 DEF Reread, FinalizeFails
      <4> QED
        BY <2>5, <4>1, <4>2, <4>3, <4>4, <4>5, <4>6 DEF FinalizeStep
    <3>6. \A s \in Request : s # r => pc'[s] = pc[s]
      BY <3>5
    <3>7. Knows(pc'[r])
      BY <3>5
    <3> HIDE DEF Knows
    <3>8. \A s \in Request : pc'[s] \in Unsettled => row'.outcome = Null
      BY <3>2
    <3> QED
      BY <3>1, <3>6, <3>7, <3>8 DEF AttemptOK, Knows
  <2>6. CASE Crash
    BY <2>6 DEF Crash, AttemptOK, Unsettled, Attempting, FinalizeSteps
  <2> QED
    BY <2>1, <2>2, <2>3, <2>4, <2>5, <2>6, Movement
    DEF CallStep
<1> QED
  BY <1>1, <1>2, Writers DEF IInv

-----------------------------------------------------------------------------
(* The answers *)

\* The answers a quiet step may give: nothing new, the outcome the row has, or a
\* status that is no outcome; and "gone" only for a deleted session.
MayAnswer(s) ==
    /\ reply'[s] \in Outcome => reply'[s] \in {reply[s], row.outcome}
    /\ pc'[s] = "close" =>
          \/ pc[s] = "close" /\ reply'[s] = reply[s]
          \/ /\ reply'[s] # "processed"
             /\ reply'[s] = "gone" => row.deleted /\ row.outcome = Null

LEMMA QuietAnswers ==
    ASSUME IInv, [Next]_vars, Quiet, NEW s \in Request
    PROVE  MayAnswer(s)
<1> USE DEF IInv, TypeOK, MayAnswer
<1>1. CASE UNCHANGED <<pc, reply>>
  BY <1>1
<1>2. ASSUME NEW r \in Request, ClaimRead(r) \/ ClaimStep(r) \/ ClaimFails(r)
      PROVE MayAnswer(s)
  <2>1. \E p : pc' = [pc EXCEPT ![r] = p] /\ p # "close"
    BY <1>2 DEF ClaimRead, ClaimStep, ReadSource, ClaimWins, ClaimLoses, ClaimReread, ClaimFails,
       Answer, Goto
  <2>2. \/ UNCHANGED reply
        \/ \E a \in {row.outcome, "generating", "processed", "not_found", "error"} :
              reply' = [reply EXCEPT ![r] = a]
    BY <1>2 DEF ClaimRead, ClaimStep, ReadSource, ClaimWins, ClaimLoses, ClaimReread, ClaimFails,
       Answer, Goto
  <2> QED
    BY <2>1, <2>2 DEF Outcome
<1>3. ASSUME NEW r \in Request, CallStep(r) \/ CloseSpan(r) PROVE MayAnswer(s)
  BY <1>3 DEF CallStep, ResolveFails, OpenSpan, ModelCall, CloseSpan, Goto
<1>4. ASSUME NEW r \in Request, FinalizeStep(r) \/ FinalizeFails(r) PROVE MayAnswer(s)
  <2>1. pc[r] \in Unsettled
    BY <1>4 DEF FinalizeStep, FinalizeRead, RecordFallback, ApplyTitle, FreshRead, RecordManual,
       Reread, FinalizeFails, Unsettled, Attempting, FinalizeSteps
  <2>2. /\ row.exists /\ row.claimed /\ row.outcome = Null
        /\ ~CanRecord => row.deleted
    BY <2>1, UnsettledRow
  <2>3. Observed # "open" => Observed = "gone" /\ row.deleted
    BY <2>2 DEF Observed, Live
  <2>4. /\ \A o \in {"fallback", "manual_not_applied"} : row' # Recorded(o)
        /\ row' # Applied(r)
    BY <2>2, NullIsNoStatus DEF Quiet, Recorded, Applied, Row
  <2>5. \/ \E p : Goto(r, p) /\ p # "close"
        \/ Settle(r, "error")
        \/ Settle(r, "gone") /\ row.deleted
    <3>1. CASE FinalizeRead(r)
      BY <3>1, <2>3 DEF FinalizeRead
    <3>2. CASE RecordFallback(r)
      BY <3>2, <2>4 DEF RecordFallback
    <3>3. CASE ApplyTitle(r)
      BY <3>3, <2>4 DEF ApplyTitle
    <3>4. CASE FreshRead(r)
      BY <3>4, <2>3 DEF FreshRead
    <3>5. CASE RecordManual(r)
      BY <3>5, <2>4 DEF RecordManual
    <3>6. CASE Reread(r)
      <4>1. row.deleted
        BY <3>6 DEF Reread, AttemptOK
      <4>2. Observed = "gone"
        BY <4>1 DEF Observed, Live
      <4> QED
        BY <3>6, <4>1, <4>2 DEF Reread
    <3>7. CASE FinalizeFails(r)
      BY <3>7 DEF FinalizeFails
    <3> QED
      BY <1>4, <3>1, <3>2, <3>3, <3>4, <3>5, <3>6, <3>7 DEF FinalizeStep
  <2> QED
    BY <2>2, <2>5 DEF Goto, Settle, Outcome
<1>5. CASE Crash
  BY <1>5 DEF Crash
<1>6. ASSUME \/ \E m \in UserMessage : AppendStep(m)
             \/ \E t \in ManualTitle \cup {Null} : Rename(t)
             \/ Delete
             \/ UNCHANGED vars
      PROVE UNCHANGED <<pc, reply>>
  BY <1>6 DEF AppendStep, AppendToExisting, AppendMiss, AppendInsert, AppendConflict,
     AppendAfterConflict, Rename, Delete, vars, request
<1> QED
  BY <1>1, <1>2, <1>3, <1>4, <1>5, <1>6 DEF Next, RequestStep

\* What the callers got is settled before the outcome is written.
LEMMA CallersFrozen ==
    ASSUME IInv, [Next]_vars, row.outcome # Null
    PROVE  UNCHANGED <<text, callers>>
<1> USE DEF IInv
<1>1. ASSUME NEW r \in Request, OpenSpan(r) \/ ModelCall(r) PROVE FALSE
  BY <1>1 DEF OpenSpan, ModelCall, AttemptOK, Unsettled, Attempting
<1>2. ASSUME NEW r \in Request, ClaimWins(r) \/ ResolveFails(r) PROVE UNCHANGED <<text, callers>>
  BY <1>2 DEF ClaimWins, ResolveFails, Goto, Answer
<1>3. CASE Crash
  BY <1>3 DEF Crash
<1> QED
  BY <1>1, <1>2, <1>3, Movement

LEMMA AnswerInductive == IInv /\ [Next]_vars => AnswerOK'
<1> SUFFICES ASSUME IInv, [Next]_vars PROVE AnswerOK'
  OBVIOUS
<1>0. RowKeeps
  BY RowStep, RowMonotone DEF IInv
<1> USE DEF IInv, TypeOK
<1>1. ASSUME NEW r \in Request, NEW status \in Outcome, Writes(r, status) PROVE AnswerOK'
  <2>1. pc[r] \in Unsettled /\ pc[r] \in Attempting
    BY <1>1 DEF Writes, Unsettled, Attempting, FinalizeSteps
  <2>2. row.outcome = Null /\ row'.outcome = status /\ UNCHANGED <<text, callers>>
    BY <1>1, <2>1 DEF AttemptOK, Writes, Recorded, Applied, Row
  <2>3. \A s \in callers : s = r
    BY <2>1 DEF ClaimOK
  <2>4. AnswersStand'
    BY <1>1, <2>2, NullIsNoStatus DEF AnswerOK, AnswersStand, Writes, Outcome
  <2>5. ASSUME NEW s \in Request, pc'[s] = "close"
        PROVE reply'[s] # "processed" /\ reply'[s] # "gone"
    <3>1. s = r
      BY <1>1, <2>1, <2>5 DEF Writes, ClaimOK, Attempting
    <3> QED
      BY <1>1, <3>1 DEF Writes, Outcome
  <2>6. OutcomeTrue'
    <3>1. CASE status = "fallback"
      <4>1. ~text[r] /\ row'.title = row.title
        BY <1>1, <3>1 DEF Writes, AttemptOK, Recorded, Row
      <4> QED
        BY <2>2, <2>3, <3>1, <4>1, NullIsNoStatus DEF AnswerOK, OutcomeTrue
    <3>2. CASE status = "applied"
      <4>1. text[r] /\ r \in callers /\ row'.title = r
        BY <1>1, <3>2 DEF Writes, AttemptOK, Applied, Row
      <4> QED
        BY <2>2, <3>2, <4>1 DEF OutcomeTrue
    <3>3. CASE status = "manual_not_applied"
      <4>1. text[r] /\ r \in callers /\ row'.title = row.title /\ row'.manual
        BY <1>1, <3>3 DEF Writes, AttemptOK, Recorded, Row, CanRecord, Live
      <4> QED
        BY <2>2, <3>3, <4>1, NullIsNoStatus DEF AnswerOK, OutcomeTrue
    <3> QED
      BY <3>1, <3>2, <3>3 DEF Outcome
  <2> QED
    BY <2>4, <2>5, <2>6 DEF AnswerOK
<1>2. ASSUME Quiet PROVE AnswerOK'
  <2>1. \A s \in Request : MayAnswer(s)
    BY <1>2, QuietAnswers
  <2>2. AnswersStand'
    BY <1>2, <2>1 DEF MayAnswer, Quiet, AnswerOK, AnswersStand
  <2>3. ASSUME NEW s \in Request, pc'[s] = "close"
        PROVE /\ reply'[s] # "processed"
              /\ reply'[s] = "gone" => row'.deleted /\ row'.outcome = Null
    BY <1>0, <1>2, <2>1, <2>3 DEF MayAnswer, Quiet, RowKeeps, AnswerOK
  <2>4. OutcomeTrue'
    <3>1. CASE row.outcome = Null
      BY <1>2, <3>1, NullIsNoStatus DEF Quiet, AnswerOK, OutcomeTrue
    <3>2. CASE row.outcome # Null
      BY <1>0, <1>2, <3>2, CallersFrozen DEF Quiet, RowKeeps, AnswerOK, OutcomeTrue
    <3> QED
      BY <3>1, <3>2
  <2> QED
    BY <2>2, <2>3, <2>4 DEF AnswerOK
<1> QED
  BY <1>1, <1>2, Writers

LEMMA SpanInductive == IInv /\ [Next]_vars => SpanAgrees'
<1> SUFFICES ASSUME IInv, [Next]_vars PROVE SpanAgrees'
  OBVIOUS
<1>0. RowKeeps
  BY RowStep, RowMonotone DEF IInv
<1> USE <1>0, NullIsNoStatus DEF IInv, SpanAgrees, RowKeeps, Outcome
<1>1. CASE span'.result = span.result
  BY <1>1
<1>2. CASE span'.result = Null
  BY <1>2
<1>3. ASSUME NEW r \in Request, pc[r] = "close", UNCHANGED row, span' = ClosedSpan(r)
      PROVE SpanAgrees'
  BY <1>3 DEF ClosedSpan, AnswerOK, AnswersStand
<1>4. \/ span' \in {span, OpenedSpan}
      \/ \E r \in Request : pc[r] = "close" /\ UNCHANGED row /\ span' = ClosedSpan(r)
  BY DEF Next, AppendStep, AppendToExisting, AppendMiss, AppendInsert, AppendConflict,
     AppendAfterConflict, Rename, Delete, ClaimRead, RequestStep, ClaimStep, ReadSource,
     ClaimWins, ClaimLoses, ClaimReread, CallStep, ResolveFails, OpenSpan, ModelCall,
     FinalizeStep, FinalizeRead, RecordFallback, ApplyTitle, FreshRead, RecordManual, Reread,
     CloseSpan, ClaimFails, FinalizeFails, Crash, vars
<1> QED
  BY <1>1, <1>2, <1>3, <1>4 DEF OpenedSpan

-----------------------------------------------------------------------------
(* The theorems *)

LEMMA InitInv == Init => IInv
<1> SUFFICES ASSUME Init PROVE IInv
  OBVIOUS
<1>1. TypeOK /\ RowOK
  BY InitType, InitRow
<1>2. row.outcome = Null /\ row.title \notin Request
  <2>1. CASE row = Absent
    BY <2>1, DistinctTitles DEF Absent
  <2>2. ASSUME NEW t \in ManualTitle \cup {Null}, row = Legacy(t)
        PROVE row.outcome = Null /\ row.title \notin Request
    BY <2>2, DistinctTitles DEF Absent, Legacy
  <2> QED
    BY <2>1, <2>2 DEF Init
<1>3. ClaimOK /\ AttemptOK
  BY <1>2 DEF Init, ClaimOK, OneModelCall, AttemptOK, Attempting, Unsettled, FinalizeSteps
<1>4. AnswerOK /\ SpanAgrees
  BY <1>2, NullIsNoStatus DEF Init, AnswerOK, OutcomeTrue, AnswersStand, SpanAgrees, Outcome
<1> QED
  BY <1>1, <1>3, <1>4 DEF IInv

LEMMA StepInv == IInv /\ [Next]_vars => IInv'
BY TypeStep, RowStep, RowInductive, ClaimInductive, AttemptInductive, AnswerInductive,
   SpanInductive DEF IInv

\* The inductive invariant holds in every reachable state.
THEOREM Invariance == Spec => []IInv
BY InitInv, StepInv, PTL DEF Spec

\* At most one request ever calls the model, for any number of requests.
THEOREM AtMostOneCall == Spec => []OneModelCall
<1>1. IInv => OneModelCall
  BY DEF IInv, ClaimOK
<1> QED
  BY <1>1, Invariance, PTL

\* A title nobody typed is the fallback of the first user message.
THEOREM FallbackOfFirst == Spec => []FallbackIsFirst
<1>1. IInv => FallbackIsFirst
  BY DEF IInv, RowOK
<1> QED
  BY <1>1, Invariance, PTL

\* Outcomes, answers and the title span agree with the row and with one another.
THEOREM OutcomesAgree == Spec => []OutcomeHonest
<1>1. IInv => OutcomeHonest
  BY DEF IInv, AnswerOK, OutcomeHonest
<1> QED
  BY <1>1, Invariance, PTL

\* After a rename only renaming changes the title.
THEOREM ManualWins == Spec => ManualTitleWins
<1>1. IInv /\ [Next]_vars => [row.manual => row'.title \in ManualTitle \cup {Null}]_vars
  BY RowStep, RowMonotone DEF IInv, RowKeeps
<1> QED
  BY <1>1, Invariance, PTL DEF Spec, ManualTitleWins

\* An outcome is written once and a claim is never given back.
THEOREM OutcomeOnce == Spec => SettledOnce
<1>1. IInv /\ [Next]_vars => [/\ row.outcome # Null => row'.outcome = row.outcome
                              /\ row.claimed => row'.claimed]_vars
  BY RowStep, RowMonotone DEF IInv, RowKeeps
<1> QED
  BY <1>1, Invariance, PTL DEF Spec, SettledOnce

\* A deleted session never changes again.
THEOREM DeletedStays == Spec => DeletedIsFrozen
<1>1. IInv /\ [Next]_vars => [row.deleted => row' = row]_vars
  BY RowStep, RowMonotone DEF IInv, RowKeeps
<1> QED
  BY <1>1, Invariance, PTL DEF Spec, DeletedIsFrozen

-----------------------------------------------------------------------------
(* The columns implement TitleAttempt *)

LEMMA AttemptInit == Init => Attempt!Init
<1> SUFFICES ASSUME Init PROVE Attempt!Init
  OBVIOUS
<1>1. CASE row = Absent
  BY <1>1 DEF Attempt!Init, Stage, Absent
<1>2. ASSUME NEW t \in ManualTitle \cup {Null}, row = Legacy(t) PROVE Attempt!Init
  BY <1>2 DEF Attempt!Init, Stage, Legacy, Absent
<1> QED
  BY <1>1, <1>2 DEF Init

LEMMA AttemptNext == IInv /\ IInv' /\ [Next]_vars => [Attempt!Next]_(Attempt!vars)
<1> SUFFICES ASSUME IInv, IInv', [Next]_vars PROVE [Attempt!Next]_(Attempt!vars)
  OBVIOUS
<1>0. RowChange
  BY RowStep
<1> USE DistinctTitles, NullIsNoStatus DEF IInv, TypeOK, Row, RowOK, Live, Stage
<1>1. CASE UNCHANGED row
  BY <1>1 DEF Attempt!vars
<1>2. ASSUME NEW m \in UserMessage, Live, row' = InsertMessage(SetFallback(row, m), m)
      PROVE UNCHANGED Attempt!vars
  BY <1>2 DEF InsertMessage, SetFallback, Attempt!vars
<1>3. ASSUME NEW m \in UserMessage, ~row.exists,
             row' = InsertMessage(SetFallback(NewRow, m), m)
      PROVE Attempt!Offer
  BY <1>3 DEF InsertMessage, SetFallback, NewRow, Absent, Attempt!Offer
<1>4. ASSUME NEW t \in ManualTitle \cup {Null}, Live, row' = Renamed(t) PROVE Attempt!Rename
  BY <1>4 DEF Renamed, Attempt!Rename, Outcome
<1>5. ASSUME Live, row' = [row EXCEPT !.deleted = TRUE] PROVE Attempt!Delete
  BY <1>5 DEF Attempt!Delete, Outcome
<1>6. ASSUME Claimable, row' = [row EXCEPT !.claimed = TRUE] PROVE Attempt!Start
  BY <1>6 DEF Claimable, Attempt!Start
<1>7. ASSUME CanRecord, row' = Recorded("fallback") PROVE Attempt!KeepFallback
  BY <1>7 DEF CanRecord, Recorded, Attempt!KeepFallback
<1>8. ASSUME CanRecord, row' = Recorded("manual_not_applied") PROVE Attempt!YieldToManual
  BY <1>8 DEF CanRecord, Recorded, AnswerOK, OutcomeTrue, Attempt!YieldToManual
<1>9. ASSUME NEW r \in Request, CanApply, row' = Applied(r) PROVE Attempt!Apply
  BY <1>9 DEF CanApply, CanRecord, Applied, Attempt!Apply
<1> QED
  BY <1>0, <1>1, <1>2, <1>3, <1>4, <1>5, <1>6, <1>7, <1>8, <1>9 DEF RowChange, Attempt!Next

\* Every behaviour of the columns is a behaviour of the one attempt that
\* TitleAttempt promises.
THEOREM Refinement == Spec => AttemptSpec
BY AttemptInit, AttemptNext, Invariance, PTL DEF Spec, AttemptSpec, Attempt!Spec

=============================================================================
