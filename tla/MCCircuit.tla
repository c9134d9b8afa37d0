----------------------------- MODULE MCCircuit -----------------------------
(* Four workers, three of them in one scope, over a table of one entry. *)
EXTENDS Circuit

CONSTANTS k1, k2, w1, w2, w3, w4

KeyPair == {k1, k2}
Quartet == {w1, w2, w3, w4}
QuartetKeys == [w \in Quartet |-> IF w = w4 THEN k2 ELSE k1]
=============================================================================
