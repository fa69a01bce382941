-------------------------- MODULE MCMoodleProvider --------------------------
(***************************************************************************)
(* TLC instance of MoodleProvider.                                         *)
(***************************************************************************)
EXTENDS MoodleProvider, TLC

ProviderSymmetry == Permutations(Requests) \cup Permutations(Payloads)
=============================================================================
