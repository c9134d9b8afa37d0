------------------------------ MODULE Circuit ------------------------------
(***************************************************************************)
(* circuit.rs: process-local protection of failing upstream scopes.  Each  *)
(* scope (root, URL, model and credential, hashed to a key) has an entry   *)
(* in a bounded table.  Consecutive failures open it; after its delay one  *)
(* attempt probes it half-open, and that attempt's outcome closes it or    *)
(* opens it again.  A worker starts an attempt just before its wire        *)
(* request, resolves it at most once, and drops it; a worker that meets a  *)
(* probe in progress waits for it to end.  Every handler holds the state   *)
(* mutex, so it is one step.                                               *)
(*                                                                         *)
(* The Snapshot counters nothing reads back are left out; waiters, which   *)
(* bounds the waiters, is kept.                                            *)
(***************************************************************************)
EXTENDS Integers, FiniteSets, FiniteSetsExt, Functions

CONSTANTS
    Keys,              \* scopes
    Workers,           \* forwarding workers
    KeyOf,             \* the scope each worker's request belongs to
    MaxScopes,         \* MAX_SCOPES (128)
    MaxWaiters,        \* MAX_WAITERS (64)
    FailureThreshold,  \* FAILURE_THRESHOLD (3)
    FailureGap,        \* FAILURE_GAP (60 s)
    FirstBackoff,      \* FIRST_BACKOFF (1 s)
    MaxBackoff,        \* MAX_BACKOFF (30 s)
    FailureDelays,     \* delays of a failure: COOLDOWN or the server's hint
    MaxGeneration,     \* bound on an entry's generation (u64 in the code)
    MaxTime            \* bound on the clock

ASSUME CircuitAssumption ==
    /\ IsFiniteSet(Workers)
    /\ KeyOf \in [Workers -> Keys]
    /\ MaxScopes \in Nat \ {0} /\ MaxWaiters \in Nat \ {0}
    /\ FailureThreshold \in Nat \ {0} /\ FailureGap \in Nat
    /\ FirstBackoff \in Nat /\ MaxBackoff \in Nat
    /\ FailureDelays \subseteq Nat
    /\ MaxGeneration \in Nat /\ MaxTime \in Nat

VARIABLES
    clock,
    entries,   \* State.entries: the tracked scopes
    waiters,   \* State.counts.waiters
    worker     \* each worker's place in forward and its Attempt

vars == <<clock, entries, waiters, worker>>

-----------------------------------------------------------------------------
(* Gate::Open { since, delay } is kept as until = since + delay.           *)
NoFailure == -1

Entry ==
    [gate : {"closed", "open", "halfopen"}, until : Nat, generation : Nat,
     in_flight : Nat, failures : Nat, last_failure : Nat \cup {NoFailure},
     next_backoff : Nat, touched : Nat]

NewEntry ==
    [gate |-> "closed", until |-> 0, generation |-> 0, in_flight |-> 0,
     failures |-> 0, last_failure |-> NoFailure, next_backoff |-> FirstBackoff,
     touched |-> clock]

(* A worker is idle (about to call start), probing (start said             *)
(* Open::Probing and wait was not entered), waiting (a counted Waiter) or  *)
(* live (owns an Attempt).                                                 *)
Worker == [phase : {"idle", "probing", "waiting", "live"}, woken : BOOLEAN,
           generation : Nat, tracked : BOOLEAN, resolved : BOOLEAN]

IdleWorker == [phase |-> "idle", woken |-> FALSE, generation |-> 0,
               tracked |-> FALSE, resolved |-> FALSE]

LiveWorker(generation, tracked) ==
    [phase |-> "live", woken |-> FALSE, generation |-> generation,
     tracked |-> tracked, resolved |-> FALSE]

(* Fault: a half-open scope blocks nobody. *)
BlockedCooling(e) == e.gate = "open" /\ clock < e.until

Blocked(e) == e.gate = "halfopen" \/ (e.gate = "open" /\ clock < e.until)

(* Fault: the notification is forgotten. *)
NotifyNobody(ws) == ws

NotifyWaiters(ws) ==
    [w \in Workers |-> IF ws[w].phase = "waiting" THEN [ws[w] EXCEPT !.woken = TRUE]
                       ELSE ws[w]]

Init ==
    /\ clock = 0
    /\ entries = [k \in {} |-> NewEntry]
    /\ waiters = 0
    /\ worker = [w \in Workers |-> IdleWorker]

-----------------------------------------------------------------------------
(* Scope::start.  A full table first evicts an idle closed entry, one of   *)
(* the least recently touched; with none to evict the attempt is let       *)
(* through untracked.                                                      *)
(* Fault: a closed entry is evicted under its attempts. *)
EvictableClosed == {k \in DOMAIN entries : entries[k].gate = "closed"}

Evictable == {k \in DOMAIN entries :
                 entries[k].in_flight = 0 /\ entries[k].gate = "closed"}

Oldest == {k \in Evictable : \A j \in Evictable : entries[k].touched <= entries[j].touched}

TableFull(w) ==
    KeyOf[w] \notin DOMAIN entries /\ Cardinality(DOMAIN entries) >= MaxScopes

StartBypass(w) ==
    /\ worker[w].phase = "idle"
    /\ TableFull(w) /\ Evictable = {}
    /\ worker' = [worker EXCEPT ![w] = LiveWorker(0, FALSE)]
    /\ UNCHANGED <<clock, entries, waiters>>

(* entries.entry(key).or_insert_with, after the eviction. *)
Slots(w) ==
    IF TableFull(w) THEN {DOMAIN entries \ {k} : k \in Oldest} ELSE {DOMAIN entries}

EntryFor(k) == IF k \in DOMAIN entries THEN entries[k] ELSE NewEntry

WithEntry(keep, k, e) ==
    [j \in keep \cup {k} |-> IF j = k THEN e ELSE entries[j]]

StartedEntry(e) ==
    LET probe == e.gate = "open"
    IN  [e EXCEPT !.gate = IF probe THEN "halfopen" ELSE @,
                  !.generation = IF probe THEN @ + 1 ELSE @,
                  !.in_flight = @ + 1,
                  !.touched = clock]

StartTracked(w) ==
    /\ worker[w].phase = "idle"
    /\ \E keep \in Slots(w) :
          LET e == EntryFor(KeyOf[w])
          IN  /\ ~Blocked(e)
              /\ e.gate = "open" => e.generation < MaxGeneration
              /\ entries' = WithEntry(keep, KeyOf[w], StartedEntry(e))
              /\ worker' = [worker EXCEPT ![w] =
                               LiveWorker(StartedEntry(e).generation, TRUE)]
    /\ UNCHANGED <<clock, waiters>>

(* Open::Probing sends the worker to wait; Open::Cooling ends its request, *)
(* and the worker is free for another one.                                 *)
StartBlocked(w) ==
    /\ worker[w].phase = "idle"
    /\ KeyOf[w] \in DOMAIN entries
    /\ Blocked(entries[KeyOf[w]])
    /\ worker' = [worker EXCEPT ![w].phase =
                     IF entries[KeyOf[w]].gate = "halfopen" THEN "probing" ELSE "idle"]
    /\ UNCHANGED <<clock, entries, waiters>>

-----------------------------------------------------------------------------
(* One turn of Scope::wait: wait while the scope is half-open, refuse when *)
(* too many wait, else leave to call start again (or to fail if it cools). *)
WaitReady(w) ==
    \/ worker[w].phase = "probing"
    \/ worker[w].phase = "waiting" /\ worker[w].woken

HalfOpen(k) == k \in DOMAIN entries /\ entries[k].gate = "halfopen"

LeaveWait(w) ==
    /\ worker' = [worker EXCEPT ![w] = IdleWorker]
    /\ waiters' = IF worker[w].phase = "waiting" THEN waiters - 1 ELSE waiters

Wait(w) ==
    /\ WaitReady(w)
    /\ \/ /\ HalfOpen(KeyOf[w])
          /\ worker[w].phase = "probing" => waiters < MaxWaiters
          /\ worker' = [worker EXCEPT ![w].phase = "waiting", ![w].woken = FALSE]
          /\ waiters' = IF worker[w].phase = "probing" THEN waiters + 1 ELSE waiters
       \/ /\ HalfOpen(KeyOf[w])
          /\ worker[w].phase = "probing" /\ waiters = MaxWaiters
          /\ LeaveWait(w)
       \/ /\ ~HalfOpen(KeyOf[w])
          /\ LeaveWait(w)
    /\ UNCHANGED <<clock, entries>>

(* The waiting future is dropped: disconnect, deadline or shutdown.        *)
AbandonWait(w) ==
    /\ worker[w].phase \in {"probing", "waiting"}
    /\ LeaveWait(w)
    /\ UNCHANGED <<clock, entries>>

-----------------------------------------------------------------------------
(* Attempt::resolve, reached from headers and failure with a delay and     *)
(* from complete with none.  It counts once, and only while the entry is   *)
(* in the generation the attempt was started in.                           *)
FailedEntry(e, delay) ==
    LET expired  == e.last_failure = NoFailure \/ clock - e.last_failure > FailureGap
        failures == IF expired THEN 1 ELSE e.failures + 1
        opens    == failures >= FailureThreshold \/ e.gate = "halfopen"
    IN  [e EXCEPT !.touched = clock,
                  !.failures = failures,
                  !.last_failure = clock,
                  !.gate = IF opens THEN "open" ELSE @,
                  !.until = IF opens THEN clock + Max({delay, e.next_backoff}) ELSE @,
                  !.next_backoff = IF opens THEN Min({2 * @, MaxBackoff}) ELSE @,
                  !.generation = IF opens THEN @ + 1 ELSE @]

CompletedEntry(e) ==
    [e EXCEPT !.touched = clock, !.failures = 0, !.last_failure = NoFailure,
              !.next_backoff = FirstBackoff, !.gate = "closed"]

Resolvable(w) == worker[w].phase = "live" /\ worker[w].tracked /\ ~worker[w].resolved

(* Fault: late outcomes count. *)
CountsAlways(w) == TRUE

Counts(w) == entries[KeyOf[w]].generation = worker[w].generation

Resolve(w, Outcome(_)) ==
    LET k == KeyOf[w]
        resolved == [worker EXCEPT ![w].resolved = TRUE]
    IN  /\ Resolvable(w)
        /\ entries' = IF Counts(w) THEN [entries EXCEPT ![k] = Outcome(@)] ELSE entries
        /\ worker' = IF Counts(w) /\ entries[k].gate = "halfopen"
                     THEN NotifyWaiters(resolved) ELSE resolved
        /\ UNCHANGED <<clock, waiters>>

Fail(w) ==
    /\ Resolvable(w)
    /\ entries[KeyOf[w]].generation < MaxGeneration
    /\ \E delay \in FailureDelays : Resolve(w, LAMBDA e : FailedEntry(e, delay))

Complete(w) == Resolve(w, CompletedEntry)

(* Fault: a vanished probe leaves its scope half-open. *)
DroppedSilently(e, unresolved) == [e EXCEPT !.in_flight = @ - 1]

(* Attempt::drop: a probe that ends without an outcome opens the scope     *)
(* again with no delay, so that the next attempt probes at once.           *)
DroppedEntry(e, unresolved) ==
    LET reopens == unresolved /\ e.gate = "halfopen"
    IN  [e EXCEPT !.in_flight = @ - 1,
                  !.gate = IF reopens THEN "open" ELSE @,
                  !.until = IF reopens THEN clock ELSE @,
                  !.generation = IF reopens THEN @ + 1 ELSE @]

Drop(w) ==
    LET k == KeyOf[w]
        dropped == [worker EXCEPT ![w] = IdleWorker]
        unresolved == ~worker[w].resolved /\ Counts(w)
    IN  /\ worker[w].phase = "live"
        /\ \/ /\ worker[w].tracked
              /\ entries' = [entries EXCEPT ![k] = DroppedEntry(@, unresolved)]
              /\ worker' = IF unresolved /\ entries[k].gate = "halfopen"
                           THEN NotifyWaiters(dropped) ELSE dropped
           \/ /\ ~worker[w].tracked
              /\ worker' = dropped
              /\ UNCHANGED entries
        /\ UNCHANGED <<clock, waiters>>

Tick ==
    /\ clock < MaxTime
    /\ clock' = clock + 1
    /\ UNCHANGED <<entries, waiters, worker>>

Next ==
    \/ Tick
    \/ \E w \in Workers :
          \/ StartBypass(w) \/ StartTracked(w) \/ StartBlocked(w)
          \/ Wait(w) \/ AbandonWait(w)
          \/ Fail(w) \/ Complete(w) \/ Drop(w)

(* Every request has a deadline, so its attempt is dropped in the end.     *)
Fairness == \A w \in Workers : WF_vars(Drop(w))

Spec == Init /\ [][Next]_vars /\ Fairness

-----------------------------------------------------------------------------
(* The shape of the state. *)
CircuitTypeOK ==
    /\ clock \in Nat
    /\ DOMAIN entries \subseteq Keys
    /\ entries \in [DOMAIN entries -> Entry]
    /\ waiters \in Nat
    /\ worker \in [Workers -> Worker]

Tracked(k) == {w \in Workers : worker[w].phase = "live" /\ worker[w].tracked /\ KeyOf[w] = k}

(* in_flight counts the live attempts of a scope, and a scope with a live  *)
(* attempt is never evicted, however full the table: resolve and drop      *)
(* always find their entry.                                                *)
AttemptsCounted ==
    /\ \A k \in DOMAIN entries : entries[k].in_flight = Cardinality(Tracked(k))
    /\ \A k \in Keys \ DOMAIN entries : Tracked(k) = {}

Probes(k) == {w \in Tracked(k) : ~worker[w].resolved
                                 /\ worker[w].generation = entries[k].generation}

(* A half-open scope has exactly one attempt that can still decide it: two *)
(* workers never probe together, and the scope is never left without a     *)
(* probe, which would refuse everyone for good.                            *)
OneProbe ==
    \A k \in DOMAIN entries : entries[k].gate = "halfopen" => Cardinality(Probes(k)) = 1

Waiting == {w \in Workers : worker[w].phase = "waiting"}

(* Whoever sleeps in wait sleeps on a probe in progress; the waiters are   *)
(* counted and stay within their bound.                                    *)
WaitersSleepOnProbe ==
    /\ \A w \in Waiting : ~worker[w].woken => HalfOpen(KeyOf[w])
    /\ waiters = Cardinality(Waiting)
    /\ waiters <= MaxWaiters

(* The table stays within MaxScopes. *)
TableBounded == Cardinality(DOMAIN entries) <= MaxScopes

(* An open scope leaves that state only for half-open, and no late answer  *)
(* to an earlier attempt closes it or moves its delay.                     *)
OpenOnlyProbed ==
    [][\A k \in DOMAIN entries : entries[k].gate = "open" =>
          /\ k \in DOMAIN entries'
          /\ \/ entries'[k].gate = "halfopen"
             \/ entries'[k].gate = "open" /\ entries'[k].until = entries[k].until]_vars

(* A half-open scope is decided: a probe that vanishes does not leave it   *)
(* half-open.                                                              *)
HalfOpenEnds == \A k \in Keys : HalfOpen(k) ~> ~HalfOpen(k)
=============================================================================
