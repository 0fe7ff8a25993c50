----------------------------- MODULE MCSelect -----------------------------
(***************************************************************************)
(* Model-checking instance of Select: a 4-bit int (-8..7), array indexes   *)
(* 1 and one past the largest int, queries of up to 4 callbacks, streams   *)
(* of up to 2 documents.                                                   *)
(***************************************************************************)
EXTENDS Select

MCLiterals == {1, MaxInt + 1}
=============================================================================
