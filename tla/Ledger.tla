------------------------------- MODULE Ledger -------------------------------
(***************************************************************************)
(* The rolling ledger of admission/quota.rs as a state machine.  Its one   *)
(* owner (the admission queue, under its mutex) may call any operation     *)
(* with any identity and any time: the ledger itself clamps time to be     *)
(* monotonic, so a caller that read the clock before it took the lock is   *)
(* covered too.                                                            *)
(***************************************************************************)
EXTENDS Quota

CONSTANTS
    RpmLimits, TpmLimits,   \* configured limits, 0 = not known
    Concurrencies,          \* configured concurrency
    StartupHolds,           \* configured startup hold
    Times,                  \* times a caller may pass
    Costs,                  \* what a request may be estimated at
    Usages                  \* what an upstream may report as used

ASSUME LedgerAssumption ==
    /\ RpmLimits \subseteq Nat
    /\ TpmLimits \subseteq Nat
    /\ Concurrencies \subseteq Nat \ {0}
    /\ StartupHolds \subseteq Nat
    /\ Times \subseteq Nat
    /\ Costs \subseteq Cost
    /\ Usages \subseteq Nat

VARIABLES
    ledger,   \* the Ledger
    wire      \* history: what was sent upstream, and when, by reservation

vars == <<ledger, wire>>

Init ==
    /\ \E rpm \in RpmLimits, tpm \in TpmLimits, c \in Concurrencies,
          a \in {"reserved", "actual"}, h \in StartupHolds :
         ledger = LedgerNew(rpm, tpm, a, c, 0, h)
    /\ wire = [i \in {} |-> Never]

-----------------------------------------------------------------------------
Admit(t, cost) ==
    LET a == LedgerAdvance(ledger, t)
    IN  /\ ledger' = IF LedgerFits(a, cost) THEN LedgerAdmit(a, cost) ELSE a
        /\ UNCHANGED wire

Start(t, id) ==
    LET a == LedgerAdvance(ledger, t)
    IN  /\ ledger' = LedgerStart(ledger, t, id)
        /\ wire' = IF CanStart(a, id)
                   THEN [i \in DOMAIN wire \cup {id} |->
                           IF i = id
                           THEN [at |-> a.now, tokens |-> a.entries[id].tokens]
                           ELSE wire[i]]
                   ELSE wire

Cancel(t, id) ==
    /\ ledger' = LedgerCancel(ledger, t, id)
    /\ UNCHANGED wire

Finish(t, id, usage) ==
    /\ ledger' = LedgerFinish(ledger, t, id, usage)
    /\ UNCHANGED wire

(* Ledger::snapshot and Ledger::check: the reports that only prune.        *)
Snapshot(t) ==
    /\ ledger' = LedgerAdvance(ledger, t)
    /\ UNCHANGED wire

Next ==
    \E t \in Times :
        \/ \E cost \in Costs : Admit(t, cost)
        \/ \E id \in Ids : Start(t, id) \/ Cancel(t, id)
        \/ \E id \in Ids, usage \in Usages \cup {NoUsage} : Finish(t, id, usage)
        \/ Snapshot(t)

Spec == Init /\ [][Next]_vars

-----------------------------------------------------------------------------
(* Every field of the ledger and of the history has its type, and what is  *)
(* in the history was admitted before.                                     *)
LedgerTypeOK ==
    /\ ledger \in LedgerType(DOMAIN ledger.entries)
    /\ wire \in [DOMAIN wire -> [at : Nat, tokens : Nat]]
    /\ DOMAIN ledger.entries \cup DOMAIN wire \subseteq 1 .. ledger.next

(* The requests sent in the window of length Window that opens when        *)
(* request i is sent.                                                      *)
SentWithin(i) ==
    {j \in DOMAIN wire : wire[i].at <= wire[j].at /\ wire[j].at < wire[i].at + Window}

(* A known RPM limit is a rolling budget (README: "Numeric RPM/TPM enforce *)
(* a local rolling 60-second budget"): no window of 60 s, wherever it      *)
(* opens, holds more sends than the limit, whatever was pruned, cancelled, *)
(* finished or still held meanwhile.                                       *)
RollingRpm ==
    Known(ledger.rpm) =>
        \A i \in DOMAIN wire : Cardinality(SentWithin(i)) <= ledger.rpm

(* The same for tokens under Reserved accounting: the reservations of the  *)
(* requests sent within any window fit the known TPM limit.                *)
RollingTpm ==
    (Known(ledger.tpm) /\ ledger.accounting = "reserved") =>
        \A i \in DOMAIN wire :
            MapThenSumSet(LAMBDA j : wire[j].tokens, SentWithin(i)) <= ledger.tpm

(* What reservation i is charged beyond what was reserved for it.          *)
Overshoot(i) ==
    LET e == ledger.entries[i]
    IN  IF e.tpm_until # wire[i].at + Window THEN e.tokens
        ELSE IF e.tokens > wire[i].tokens THEN e.tokens - wire[i].tokens ELSE 0

(* Debits and holds exceed the known TPM limit only by usage an upstream   *)
(* reported beyond a reservation, in both accountings: a late charge, a    *)
(* refund or a cancelled hold never lends budget to anybody else.          *)
TpmOvershootOnlyByUsage ==
    Known(ledger.tpm) =>
        Tokens(ledger, TpmLive(ledger)) + Tokens(ledger, Held(ledger))
            <= ledger.tpm + MapThenSumSet(Overshoot, TpmLive(ledger))

(* Every reservation is settled exactly once: those not settled yet are    *)
(* the active ones, of which there are never more than the concurrency;    *)
(* and the ledger never outgrows its memory ceiling.                       *)
SettledOnce ==
    /\ ledger.cleanups + Cardinality(Active(ledger)) = ledger.next
    /\ Cardinality(Active(ledger)) <= ledger.concurrency
    /\ Cardinality(DOMAIN ledger.entries) <= MaxEntries
=============================================================================
