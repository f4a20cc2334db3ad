------------------------- MODULE TitleGenerationMC -------------------------
(* TLC instances of TitleGeneration. *)
EXTENDS TitleGeneration, TLC

Symmetry == Permutations(UserMessage) \cup Permutations(Request)

=============================================================================
