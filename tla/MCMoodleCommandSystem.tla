----------------------- MODULE MCMoodleCommandSystem -----------------------
(***************************************************************************)
(* TLC instances of MoodleCommandSystem.                                   *)
(***************************************************************************)
EXTENDS MoodleCommandSystem, TLC

SystemSymmetry == Permutations(Workers)
=============================================================================
