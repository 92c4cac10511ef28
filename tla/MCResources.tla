------------------------------ MODULE MCResources ------------------------------
(***************************************************************************)
(* A small instance of Resources for TLC: two writers of one session, two  *)
(* comparisons of it with another in opposite order, and a reader.         *)
(***************************************************************************)
EXTENDS Resources

CONSTANTS w1, w2, k1, k2, reader, s1, s2

MCRows(r) ==
  CASE r \in {w1, w2} -> <<s1>> [] r = k1 -> <<s1, s2>> [] r = k2 -> <<s2, s1>> [] r = reader -> <<>>
==============================================================================
