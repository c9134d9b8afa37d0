----------------------------- MODULE MCGateway -----------------------------
(* Two requests with a place for each, so that one may probe the circuit   *)
(* while the other has to wait.  The first is cacheable, may lose its      *)
(* client and may be rate-limited.                                         *)
EXTENDS Gateway

CONSTANTS r1, r2

MCFrames == [r \in Requests |-> 1]
=============================================================================
