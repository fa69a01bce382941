------------------------ MODULE MCMoodleCommandStore ------------------------
(***************************************************************************)
(* TLC instance of MoodleCommandStore.                                     *)
(***************************************************************************)
EXTENDS MoodleCommandStore, TLC



StoreSymmetry == Permutations(Workers) \cup Permutations(Keys)
=============================================================================
