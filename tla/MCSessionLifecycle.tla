------------------------- MODULE MCSessionLifecycle -------------------------
(***************************************************************************)
(* Two compositors.                                                        *)
(***************************************************************************)
EXTENDS SessionLifecycle, TLC

IdSymmetry == Permutations(Ids)
=============================================================================
