------------------------- MODULE ConversationRunsMC -------------------------
(* Values for model checking ConversationRuns. *)
EXTENDS ConversationInput, TLC

Symmetry == Permutations(Run) \cup Permutations(Call)

=============================================================================
