------------------------------- MODULE Quota -------------------------------
(***************************************************************************)
(* admission/quota.rs: the single-owner rolling ledger, as operators that  *)
(* take a ledger and return the next one.  Ledger.tla closes them into a   *)
(* state machine of their own; Admission.tla calls them from the queue.    *)
(*                                                                         *)
(* Every operation receives a time and the ledger keeps the largest one it *)
(* has seen.  Time counts from the start of the process, so no expiry is   *)
(* ever 0, and 0 stands for Option::None in the two *_until fields.  Token *)
(* sums are u128 sums of u64 values and never overflow.  The counters that *)
(* nothing reads back (starts, ReservationDiagnostics) are left out.       *)
(***************************************************************************)
EXTENDS Integers, FiniteSets, FiniteSetsExt, Functions

CONSTANTS
    Window,      \* WINDOW: how long a debit counts (60 s)
    MaxEntries,  \* MAX_ENTRIES: memory ceiling of the ledger (8192)
    MaxId        \* u64::MAX: the identity after which nothing is admitted

ASSUME QuotaAssumption ==
    /\ Window \in Nat \ {0}
    /\ MaxEntries \in Nat \ {0}
    /\ MaxId \in Nat \ {0}

Ids == 1 .. MaxId

(***************************************************************************)
(* A limit is Known(n) with n a NonZeroU64, Unknown or Unlimited; the last *)
(* two are treated alike by the ledger and are 0 here.                     *)
(***************************************************************************)
NotKnown == 0
Known(limit) == limit # NotKnown

Never == 0          \* Option<Duration>::None
NoUsage == -1       \* Option<u64>::None

Live(until, t) == until > t

(* RequestCost; input and output tokens of an estimate are already added.  *)
Cost == [kind : {"metadata", "unmetered", "estimated"}, tokens : Nat]
IsGeneration(cost) == cost.kind # "metadata"

Entry == [active : BOOLEAN, started : BOOLEAN, metadata : BOOLEAN,
          tokens : Nat, rpm_until : Nat, tpm_until : Nat]

(* Ledgers whose retained reservations are exactly S. *)
LedgerType(S) ==
    [rpm : Nat, tpm : Nat, accounting : {"reserved", "actual"},
     concurrency : Nat \ {0}, ready_at : Nat, now : Nat, next : 0 .. MaxId,
     cleanups : Nat, entries : [S -> Entry]]

(* Ledger::new.  The startup hold applies only when some limit is known.   *)
LedgerNew(rpm, tpm, accounting, concurrency, t, hold) ==
    [rpm |-> rpm, tpm |-> tpm, accounting |-> accounting,
     concurrency |-> concurrency,
     ready_at |-> IF Known(rpm) \/ Known(tpm) THEN t + hold ELSE t,
     now |-> t, next |-> 0, cleanups |-> 0, entries |-> [i \in {} |-> Never]]

-----------------------------------------------------------------------------
Later(s, t) == IF s >= t THEN s ELSE t

Retained(l, t) ==
    {i \in DOMAIN l.entries :
        \/ l.entries[i].active
        \/ Live(l.entries[i].rpm_until, t)
        \/ Live(l.entries[i].tpm_until, t)}

LedgerAdvance(l, t) ==
    LET n == Later(l.now, t)
    IN  [l EXCEPT !.now = n, !.entries = Restrict(l.entries, Retained(l, n))]

(* The sets and sums Ledger::snapshot reports. *)
Active(l)   == {i \in DOMAIN l.entries : l.entries[i].active}
Held(l)     == {i \in DOMAIN l.entries : ~l.entries[i].started}
RpmLive(l)  == {i \in DOMAIN l.entries : Live(l.entries[i].rpm_until, l.now)}
TpmLive(l)  == {i \in DOMAIN l.entries : Live(l.entries[i].tpm_until, l.now)}

Tokens(l, S) == MapThenSumSet(LAMBDA i : l.entries[i].tokens, S)

TotalFits(l, cost) == Known(l.tpm) => cost.tokens <= l.tpm

(* Faults of check: holds are left out of the requests, or of the tokens.  *)
FitsIgnoringHeld(l, cost) ==
    /\ TotalFits(l, cost)
    /\ l.now >= l.ready_at
    /\ Cardinality(Active(l)) < l.concurrency
    /\ Known(l.rpm) => Cardinality(RpmLive(l)) < l.rpm
    /\ l.next < MaxId

FitsIgnoringHeldTokens(l, cost) ==
    /\ l.now >= l.ready_at
    /\ Cardinality(Active(l)) < l.concurrency
    /\ Known(l.tpm) => Tokens(l, TpmLive(l)) + cost.tokens <= l.tpm
    /\ l.next < MaxId

(* Fault: only the request itself is compared with the limits. *)
FitsAlone(l, cost) ==
    /\ TotalFits(l, cost)
    /\ l.now >= l.ready_at
    /\ l.next < MaxId

(* Ledger::check on a ledger that was advanced to the time of the check.   *)
LedgerFits(l, cost) ==
    /\ TotalFits(l, cost)
    /\ l.now >= l.ready_at
    /\ Cardinality(Active(l)) < l.concurrency
    /\ Known(l.rpm) => Cardinality(RpmLive(l)) + Cardinality(Held(l)) < l.rpm
    /\ Known(l.tpm) =>
         Tokens(l, TpmLive(l)) + Tokens(l, Held(l)) + cost.tokens <= l.tpm
    /\ Cardinality(DOMAIN l.entries) < MaxEntries
    /\ l.next < MaxId

(* Ledger::next_wake: the startup hold's end, else the first expiry.       *)
NextWake(l) ==
    LET expiries == {l.entries[i].rpm_until : i \in DOMAIN l.entries} \cup
                    {l.entries[i].tpm_until : i \in DOMAIN l.entries}
        future == {at \in expiries : at > l.now}
    IN  IF l.now < l.ready_at THEN l.ready_at
        ELSE IF future = {} THEN Never ELSE Min(future)

-----------------------------------------------------------------------------
(* Ledger::admit, when check succeeds: the new identity is l.next + 1.     *)
NewEntry(l, cost) ==
    [active |-> TRUE, started |-> FALSE, metadata |-> ~IsGeneration(cost),
     tokens |-> IF Known(l.tpm) THEN cost.tokens ELSE 0,
     rpm_until |-> Never, tpm_until |-> Never]

LedgerAdmit(l, cost) ==
    LET id == l.next + 1
    IN  [l EXCEPT !.next = id,
                  !.entries = [i \in DOMAIN l.entries \cup {id} |->
                      IF i = id THEN NewEntry(l, cost) ELSE l.entries[i]]]

CanStart(l, id) ==
    id \in DOMAIN l.entries /\ l.entries[id].active /\ ~l.entries[id].started

(* Fault: the debit expires one unit early. *)
StartedShort(l, e) ==
    [e EXCEPT !.started = TRUE,
              !.rpm_until = IF Known(l.rpm) THEN l.now + Window ELSE Never,
              !.tpm_until = IF Known(l.tpm) THEN l.now + Window - 1 ELSE Never]

StartedEntry(l, e) ==
    [e EXCEPT !.started = TRUE,
              !.rpm_until = IF Known(l.rpm) THEN l.now + Window ELSE Never,
              !.tpm_until = IF Known(l.tpm) /\ e.tokens > 0
                            THEN l.now + Window ELSE Never]

LedgerStart(l, t, id) ==
    LET a == LedgerAdvance(l, t)
    IN  IF CanStart(a, id)
        THEN [a EXCEPT !.entries[id] = StartedEntry(a, @)]
        ELSE a

LedgerCancel(l, t, id) ==
    LET a == LedgerAdvance(l, t)
    IN  IF CanStart(a, id)
        THEN [a EXCEPT !.entries = Restrict(a.entries, DOMAIN a.entries \ {id}),
                       !.cleanups = @ + 1]
        ELSE a

(* The settlement of a finished generation under a known TPM limit: a live *)
(* debit is replaced by the observed usage only in Actual accounting; an   *)
(* expired one is charged afresh with whatever was observed.               *)
SettledEntry(l, e, usage) ==
    LET metered == ~e.metadata /\ Known(l.tpm) /\ usage # NoUsage
        live    == Live(e.tpm_until, l.now)
        late    == metered /\ ~live /\ usage > 0
    IN  [e EXCEPT
            !.active = FALSE,
            !.tokens = IF late \/ (metered /\ live /\ l.accounting = "actual")
                       THEN usage ELSE @,
            !.tpm_until = IF late THEN l.now + Window ELSE @]

(* Fault: a reservation that is no longer active is settled again. *)
FinishAgain(l, t, id, usage) ==
    LET a == LedgerAdvance(l, t)
    IN  IF id \in DOMAIN a.entries /\ a.entries[id].started
        THEN [a EXCEPT !.entries[id] = SettledEntry(a, @, usage), !.cleanups = @ + 1]
        ELSE a

LedgerFinish(l, t, id, usage) ==
    LET a == LedgerAdvance(l, t)
    IN  IF id \in DOMAIN a.entries /\ a.entries[id].active /\ a.entries[id].started
        THEN LedgerAdvance([a EXCEPT !.entries[id] = SettledEntry(a, @, usage),
                                     !.cleanups = @ + 1], t)
        ELSE a

IsActiveGeneration(l, id) ==
    id \in DOMAIN l.entries /\ l.entries[id].active /\ ~l.entries[id].metadata
=============================================================================
