---------------------------- MODULE MCMultipart ----------------------------
(***************************************************************************)
(* Model-checking instance of Multipart: two concurrent clients, one or    *)
(* two buckets and keys, two payloads of which one is large, two part     *)
(* numbers and up to two uploads.                                          *)
(***************************************************************************)
EXTENDS Multipart, TLC

\* Complete bodies: empty, two ascending parts with the large payload first
\* or last, and two parts out of order.
MCCompleteLists ==
  LET P(n, e) == [pn |-> n, etag |-> e]
  IN  { << >>,
        << P(1, "big"), P(2, "small") >>,
        << P(1, "small"), P(2, "big") >>,
        << P(2, "small"), P(1, "big") >> }

\* Complete bodies for the runs without symmetry, with one part number:
\* empty, naming the part with either payload.
MCSmallCompleteLists ==
  { << >>, << [pn |-> 1, etag |-> "small"] >>, << [pn |-> 1, etag |-> "big"] >> }

MCSymmetry == Permutations(Clients)
=============================================================================
