------------------------------- MODULE Slots -------------------------------
(***************************************************************************)
(* What admission promises whoever calls it, without the queue, the ledger *)
(* or the recovery that decide whose turn it is: a request asks for a      *)
(* place, may be given one of Concurrency places, may use it once, and     *)
(* gives it back; a place that is given back is free from the next step    *)
(* on.  Admission implements this specification and Gateway is built on    *)
(* it.                                                                     *)
(***************************************************************************)
EXTENDS Integers, FiniteSets

CONSTANTS Requests, Concurrency

VARIABLE slot    \* none, waiting (a Ticket), held (a Hold), started

Waiting == {r \in Requests : slot[r] = "waiting"}
Placed  == {r \in Requests : slot[r] \in {"held", "started"}}

Room(S) == Cardinality(Placed \cup S) <= Concurrency

Granted(S) == [r \in Requests |-> IF r \in S THEN "held" ELSE slot[r]]

Init == slot = [r \in Requests |-> "none"]

(* The queue admits some of those who wait; any caller's turn may do so,   *)
(* even one that enters or gives up its own ticket.                        *)
Grant(S) ==
    /\ S # {} /\ S \subseteq Waiting /\ Room(S)
    /\ slot' = Granted(S)

Enter(r, S) ==
    /\ slot[r] = "none"
    /\ S \subseteq Waiting /\ Room(S)
    /\ slot' = [Granted(S) EXCEPT ![r] = "waiting"]

GiveUp(r, S) ==
    /\ slot[r] = "waiting"
    /\ S \subseteq Waiting \ {r} /\ Room(S)
    /\ slot' = [Granted(S) EXCEPT ![r] = "none"]

Use(r) ==
    /\ slot[r] = "held"
    /\ slot' = [slot EXCEPT ![r] = "started"]

Leave(r) ==
    /\ slot[r] \in {"held", "started"}
    /\ slot' = [slot EXCEPT ![r] = "none"]

Next ==
    \/ \E S \in SUBSET Requests : Grant(S)
    \/ \E r \in Requests :
          \/ Use(r) \/ Leave(r)
          \/ \E S \in SUBSET Requests : Enter(r, S) \/ GiveUp(r, S)

Spec == Init /\ [][Next]_slot
=============================================================================
