--------------------------- MODULE MCMiddleware ---------------------------
(***************************************************************************)
(* Model-checking instance of Middleware: Durations of 4 bits (-8..7),     *)
(* clock readings and dates 0, 1, 4 and 13 ticks, so that distances fall   *)
(* inside a limit of 3, on it, past it, past the largest Duration, and far *)
(* enough to wrap a 4-bit subtraction back into the window.                *)
(***************************************************************************)
EXTENDS Middleware

MCTimes == {0, 1, 4, 13}

MCSkews == {0, 3, 7}

\* time.Time{}, two thousand years before any clock reading.
MCZeroTime == -100
=============================================================================
