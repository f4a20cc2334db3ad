------------------------- MODULE ConversationInput -------------------------
(***************************************************************************)
(* The message table that runs write (ConversationRuns) read back as the   *)
(* model input of the next run (Projection).                               *)
(***************************************************************************)
EXTENDS ConversationRuns, Projection

\* An answer has finitely many calls.
ASSUME CallsAreFinite == IsFiniteSet(Call)

\* OBSERVATION_KEEP
RetentionWindow == 2

\* At every moment the table projects to a sequence a model accepts, with each
\* answer's own results, wherever earlier runs were cut off; the latest of them
\* are readable, and the input of a new run ends with its question.
InputLegal ==
    LET input == ModelInput(messages, RetentionWindow)
    IN /\ Legal(input)
       /\ OwnResults(messages, input)
       /\ LatestReadable(input, RetentionWindow)
       /\ \A r \in Run : run[r].pc = "rebuild" /\ session = "live" =>
             input[Len(input)] = Plain(Row(r, "user", 0, {}))

\* The docstring of _project_messages_unmasked, which ADR-0002 supports with the
\* messages of a run being consecutive: the projection is a legal model input.
ProjectionLegal == Legal(Project(messages))

=============================================================================
