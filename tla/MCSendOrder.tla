----------------------------- MODULE MCSendOrder -----------------------------
(* One receiver and two senders of other processes, and a deletion. *)
EXTENDS SendOrder, TLC
CONSTANTS o1, s1, s2, d1, m1, m2, m3, m4
Symmetry == Permutations({m1, m2, m3, m4}) \cup Permutations({s1, s2})
=============================================================================
