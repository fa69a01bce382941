--------------------------- MODULE MCEmailDelivery ---------------------------
(***************************************************************************)
(* TLC instances of EmailDelivery.                                         *)
(***************************************************************************)
EXTENDS EmailDelivery, TLC

EmailSymmetry == Permutations(Workers) \cup Permutations(Events)
=============================================================================
