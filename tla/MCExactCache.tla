---------------------------- MODULE MCExactCache ----------------------------
(* Four requests, three of them identical, and room for one entry. *)
EXTENDS ExactCache, TLC

CONSTANTS a, b, c, d, k1, k2

FourRequests == {a, b, c, d}
KeyPair == {k1, k2}
KeyTable == [r \in FourRequests |-> IF r = d THEN k2 ELSE k1]

(* a, b and c are interchangeable. *)
Alike == Permutations({a, b, c})
=============================================================================
