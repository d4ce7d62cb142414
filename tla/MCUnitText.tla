----------------------------- MODULE MCUnitText -----------------------------
(***************************************************************************)
(* A character of each kind that a quoter, an escaper or a reader tells    *)
(* from the others, and one of two bytes.                                  *)
(***************************************************************************)
EXTENDS UnitText

MCAlphabet == DOMAIN Utf8
=============================================================================
