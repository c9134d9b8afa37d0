---------------------------- MODULE MCAdmission ----------------------------
(* Small instances of Admission: three requests of two roots, or two of one.   *)
EXTENDS Admission

CONSTANTS r1, r2, r3

ThreeRequests == {r1, r2, r3}
Roots2 == [r \in ThreeRequests |-> IF r = r1 THEN 0 ELSE 1]
Wait2 == [r \in ThreeRequests |-> 2]

(* Scheduling: r1 costs the whole token budget, r2 and r3 half of it.      *)
ScheduleCosts == [r \in ThreeRequests |->
    [kind |-> "estimated", tokens |-> IF r = r1 THEN 2 ELSE 1]]

(* Only one request may lose its hold and queue again. *)
OneRequeues == [r \in ThreeRequests |-> IF r = r3 THEN 1 ELSE 0]

(* Recovery: a generation and a metadata request, each may queue twice.    *)
TwoRequests == {r1, r3}
Roots1 == [r \in TwoRequests |-> 0]
WaitReplay == [r \in TwoRequests |-> 2]
ReplayCosts == [r \in TwoRequests |->
    [kind |-> IF r = r3 THEN "metadata" ELSE "unmetered", tokens |-> 0]]
EachRequeues == [r \in TwoRequests |-> 1]

ShortBackoff == <<{1}, {2}>>
=============================================================================
