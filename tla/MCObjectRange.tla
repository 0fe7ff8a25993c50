--------------------------- MODULE MCObjectRange ---------------------------
(***************************************************************************)
(* Model-checking instance of ObjectRange: int64 shrunk to 4 bits (-8..7), *)
(* objects of 0 to 4 bytes, literals from one below to one above int64.    *)
(***************************************************************************)
EXTENDS ObjectRange

MCLiterals == (MinInt - 1)..(MaxInt + 1)
=============================================================================
