--------------------------- MODULE CircuitProofs ---------------------------
(***************************************************************************)
(* Proofs about the circuit, for every set of scopes, every finite set of  *)
(* workers and every threshold, delay and table size.                      *)
(*                                                                         *)
(* The counted attempts and the single probe are not inductive by          *)
(* themselves.  What carries them is the generation: an attempt's is never *)
(* ahead of its entry's, every opening and every probe moves the entry's   *)
(* past all attempts alive, and so an open scope has no attempt that still *)
(* counts and a half-open one only its probe.                              *)
(***************************************************************************)
EXTENDS Circuit, FiniteSetTheorems, TLAPS

Behind ==
    \A w \in Workers : worker[w].phase = "live" /\ worker[w].tracked =>
        /\ KeyOf[w] \in DOMAIN entries
        /\ worker[w].generation <= entries[KeyOf[w]].generation

Counted == \A k \in DOMAIN entries : entries[k].in_flight = Cardinality(Tracked(k))

Decided ==
    \A k \in DOMAIN entries :
        /\ entries[k].gate = "halfopen" => \E w \in Workers : Probes(k) = {w}
        /\ entries[k].gate = "open" => Probes(k) = {}

CircuitInv == CircuitTypeOK /\ Behind /\ Counted /\ Decided

-----------------------------------------------------------------------------
(* What the operations make of an entry. *)
LEMMA MaxMinPair ==
    ASSUME NEW x \in Nat, NEW y \in Nat
    PROVE  Max({x, y}) \in Nat /\ Min({x, y}) \in Nat
<1>1. \E z \in {x, y} : \A u \in {x, y} : z >= u
  BY x >= y \/ y >= x
<1>2. \E z \in {x, y} : \A u \in {x, y} : z <= u
  BY x <= y \/ y <= x
<1>3. Max({x, y}) \in {x, y}
  BY <1>1 DEF Max
<1>4. Min({x, y}) \in {x, y}
  BY <1>2 DEF Min
<1>5. QED
  BY <1>3, <1>4

LEMMA NewEntryFacts ==
    ASSUME clock \in Nat
    PROVE  /\ NewEntry \in Entry /\ NewEntry.in_flight = 0 /\ NewEntry.gate = "closed"
           /\ NewEntry.generation = 0
BY CircuitAssumption DEF NewEntry, Entry, NoFailure

LEMMA StartedFacts ==
    ASSUME NEW e \in Entry, clock \in Nat
    PROVE  /\ StartedEntry(e) \in Entry
           /\ StartedEntry(e).in_flight = e.in_flight + 1
           /\ e.gate = "open" => /\ StartedEntry(e).gate = "halfopen"
                                 /\ StartedEntry(e).generation = e.generation + 1
           /\ e.gate # "open" => /\ StartedEntry(e).gate = e.gate
                                 /\ StartedEntry(e).generation = e.generation
<1> DEFINE gate == IF e.gate = "open" THEN "halfopen" ELSE e.gate
           generation == IF e.gate = "open" THEN e.generation + 1 ELSE e.generation
           flight == e.in_flight + 1
<1>1. /\ gate \in {"closed", "open", "halfopen"} /\ generation \in Nat /\ flight \in Nat
      /\ e.gate = "open" => gate = "halfopen" /\ generation = e.generation + 1
      /\ e.gate # "open" => gate = e.gate /\ generation = e.generation
      /\ flight = e.in_flight + 1
  BY DEF Entry
<1>2. StartedEntry(e) = [e EXCEPT !.gate = gate, !.generation = generation,
                                  !.in_flight = flight, !.touched = clock]
  BY DEF StartedEntry
<1> HIDE DEF gate, generation, flight
<1>3. /\ StartedEntry(e) \in Entry /\ StartedEntry(e).gate = gate
      /\ StartedEntry(e).generation = generation /\ StartedEntry(e).in_flight = flight
  BY <1>1, <1>2 DEF Entry
<1>4. QED
  BY <1>1, <1>3

LEMMA FailedFacts ==
    ASSUME NEW e \in Entry, NEW delay \in FailureDelays, clock \in Nat
    PROVE  /\ FailedEntry(e, delay) \in Entry
           /\ FailedEntry(e, delay).in_flight = e.in_flight
           /\ \/ /\ FailedEntry(e, delay).gate = "open"
                 /\ FailedEntry(e, delay).generation = e.generation + 1
              \/ /\ FailedEntry(e, delay).gate = e.gate
                 /\ e.gate # "halfopen"
                 /\ FailedEntry(e, delay).generation = e.generation
<1>1. /\ delay \in Nat /\ e.next_backoff \in Nat /\ 2 * e.next_backoff \in Nat
      /\ MaxBackoff \in Nat
  BY CircuitAssumption DEF Entry
<1> DEFINE far == Max({delay, e.next_backoff})
           next == Min({2 * e.next_backoff, MaxBackoff})
<1>2. far \in Nat /\ next \in Nat
  BY <1>1, MaxMinPair
<1> HIDE DEF far, next
<1> DEFINE expired == e.last_failure = NoFailure \/ clock - e.last_failure > FailureGap
           failures == IF expired THEN 1 ELSE e.failures + 1
           opens == failures >= FailureThreshold \/ e.gate = "halfopen"
<1>3. failures \in Nat
  BY DEF Entry
<1> HIDE DEF failures
<1> DEFINE gate == IF opens THEN "open" ELSE e.gate
           until == IF opens THEN clock + far ELSE e.until
           backoff == IF opens THEN next ELSE e.next_backoff
           generation == IF opens THEN e.generation + 1 ELSE e.generation
<1>4. /\ gate \in {"closed", "open", "halfopen"} /\ until \in Nat
      /\ backoff \in Nat /\ generation \in Nat
      /\ \/ gate = "open" /\ generation = e.generation + 1
         \/ gate = e.gate /\ e.gate # "halfopen" /\ generation = e.generation
  BY <1>2 DEF Entry
<1>5. FailedEntry(e, delay) =
        [e EXCEPT !.touched = clock, !.failures = failures, !.last_failure = clock,
                  !.gate = gate, !.until = until, !.next_backoff = backoff,
                  !.generation = generation]
  BY DEF FailedEntry, failures, far, next
<1> HIDE DEF gate, until, backoff, generation
<1>6. LET f == FailedEntry(e, delay)
      IN  f \in Entry /\ f.in_flight = e.in_flight /\ f.gate = gate
          /\ f.generation = generation
  BY <1>3, <1>4, <1>5, ZenonT(60) DEF Entry
<1>7. QED
  BY <1>4, <1>6

LEMMA CompletedFacts ==
    ASSUME NEW e \in Entry, clock \in Nat
    PROVE  /\ CompletedEntry(e) \in Entry
           /\ CompletedEntry(e).in_flight = e.in_flight
           /\ CompletedEntry(e).gate = "closed"
           /\ CompletedEntry(e).generation = e.generation
BY CircuitAssumption DEF CompletedEntry, Entry, NoFailure

LEMMA DroppedFacts ==
    ASSUME NEW e \in Entry, NEW unresolved \in BOOLEAN, clock \in Nat, e.in_flight > 0
    PROVE  /\ DroppedEntry(e, unresolved) \in Entry
           /\ DroppedEntry(e, unresolved).in_flight = e.in_flight - 1
           /\ unresolved /\ e.gate = "halfopen" =>
                 /\ DroppedEntry(e, unresolved).gate = "open"
                 /\ DroppedEntry(e, unresolved).generation = e.generation + 1
           /\ ~(unresolved /\ e.gate = "halfopen") =>
                 /\ DroppedEntry(e, unresolved).gate = e.gate
                 /\ DroppedEntry(e, unresolved).until = e.until
                 /\ DroppedEntry(e, unresolved).generation = e.generation
<1>1. e.in_flight - 1 \in Nat
  BY DEF Entry
<1> DEFINE reopens == unresolved /\ e.gate = "halfopen"
           gate == IF reopens THEN "open" ELSE e.gate
           until == IF reopens THEN clock ELSE e.until
           generation == IF reopens THEN e.generation + 1 ELSE e.generation
           flight == e.in_flight - 1
<1>2. /\ gate \in {"closed", "open", "halfopen"} /\ generation \in Nat
      /\ until \in Nat /\ flight \in Nat /\ flight = e.in_flight - 1
      /\ reopens => gate = "open" /\ generation = e.generation + 1
      /\ ~reopens => gate = e.gate /\ until = e.until /\ generation = e.generation
  BY <1>1 DEF Entry
<1>3. DroppedEntry(e, unresolved) =
        [e EXCEPT !.in_flight = flight, !.gate = gate, !.until = until,
                  !.generation = generation]
  BY DEF DroppedEntry
<1> HIDE DEF gate, until, generation, flight
<1>4. LET d == DroppedEntry(e, unresolved)
      IN  d \in Entry /\ d.in_flight = flight /\ d.gate = gate /\ d.until = until
          /\ d.generation = generation
  BY <1>2, <1>3 DEF Entry
<1>5. QED
  BY <1>2, <1>4

(* A notification changes nothing the invariant looks at. *)
LEMMA NotifyKeeps ==
    ASSUME NEW ws \in [Workers -> Worker]
    PROVE  /\ NotifyWaiters(ws) \in [Workers -> Worker]
           /\ \A v \in Workers :
                /\ NotifyWaiters(ws)[v].phase = ws[v].phase
                /\ NotifyWaiters(ws)[v].generation = ws[v].generation
                /\ NotifyWaiters(ws)[v].tracked <=> ws[v].tracked
                /\ NotifyWaiters(ws)[v].resolved <=> ws[v].resolved
BY DEF NotifyWaiters, Worker

LEMMA WorkerValues ==
    /\ IdleWorker \in Worker /\ IdleWorker.phase = "idle"
    /\ \A g \in Nat, b \in BOOLEAN :
         /\ LiveWorker(g, b) \in Worker
         /\ LiveWorker(g, b).phase = "live"
         /\ LiveWorker(g, b).generation = g
         /\ LiveWorker(g, b).tracked <=> b
         /\ ~LiveWorker(g, b).resolved
BY DEF IdleWorker, LiveWorker, Worker

LEMMA TrackedFinite ==
    \A k : IsFiniteSet(Tracked(k)) /\ Cardinality(Tracked(k)) \in Nat
<1>1. ASSUME NEW k PROVE Tracked(k) \subseteq Workers
  BY DEF Tracked
<1>2. QED
  BY <1>1, CircuitAssumption, FS_Subset, FS_CardinalityType

-----------------------------------------------------------------------------
(* The part of a worker that the invariant looks at is unchanged. *)
SameAttempt(v) ==
    /\ worker'[v].phase = worker[v].phase
    /\ worker'[v].generation = worker[v].generation
    /\ worker'[v].tracked <=> worker[v].tracked
    /\ worker'[v].resolved <=> worker[v].resolved

(* A step of worker w disturbs only the scope k of w: what remains is the  *)
(* invariant at k.                                                         *)
LEMMA OneScope ==
    ASSUME CircuitInv, NEW w \in Workers, NEW k \in Keys, k = KeyOf[w],
           CircuitTypeOK',
           \A v \in Workers \ {w} : SameAttempt(v),
           \A j \in DOMAIN entries' : j # k => j \in DOMAIN entries /\ entries'[j] = entries[j],
           \A j \in DOMAIN entries : j \notin DOMAIN entries' => Tracked(j) = {},
           k \in DOMAIN entries',
           entries'[k].in_flight = Cardinality(Tracked(k)'),
           entries'[k].gate = "halfopen" => \E v \in Workers : Probes(k)' = {v},
           entries'[k].gate = "open" => Probes(k)' = {},
           \A v \in Tracked(k)' : worker'[v].generation <= entries'[k].generation
    PROVE  CircuitInv'
<1>1. ASSUME NEW j \in Keys, j # k PROVE Tracked(j)' = Tracked(j)
  BY <1>1 DEF Tracked, SameAttempt
<1>2. ASSUME NEW j \in DOMAIN entries', j # k PROVE Probes(j)' = Probes(j)
  <2>1. j \in Keys /\ entries'[j] = entries[j]
    BY <1>2 DEF CircuitTypeOK
  <2>2. Tracked(j)' = Tracked(j)
    BY <1>1, <1>2, <2>1
  <2>3. \A v \in Tracked(j) : SameAttempt(v)
    BY <1>2 DEF Tracked
  <2>4. QED
    BY <2>1, <2>2, <2>3 DEF Probes, SameAttempt
<1>3. Behind'
  <2> SUFFICES ASSUME NEW v \in Workers, worker'[v].phase = "live", worker'[v].tracked
               PROVE  /\ KeyOf[v] \in DOMAIN entries'
                      /\ worker'[v].generation <= entries'[KeyOf[v]].generation
    BY DEF Behind
  <2>1. KeyOf[v] \in Keys
    BY CircuitAssumption
  <2>2. CASE KeyOf[v] = k
    BY <2>2 DEF Tracked
  <2>3. CASE KeyOf[v] # k
    <3>1. v # w /\ SameAttempt(v)
      BY <2>3
    <3>2. v \in Tracked(KeyOf[v]) /\ worker'[v].generation = worker[v].generation
      BY <3>1 DEF Tracked, SameAttempt
    <3>3. /\ KeyOf[v] \in DOMAIN entries
          /\ worker[v].generation <= entries[KeyOf[v]].generation
      BY <3>2 DEF CircuitInv, Behind, Tracked
    <3>4. KeyOf[v] \in DOMAIN entries'
      BY <3>2, <3>3
    <3>5. QED
      BY <2>3, <3>2, <3>3, <3>4
  <2>4. QED
    BY <2>2, <2>3
<1>4. Counted'
  <2> SUFFICES ASSUME NEW j \in DOMAIN entries'
               PROVE  entries'[j].in_flight = Cardinality(Tracked(j)')
    BY DEF Counted
  <2>1. CASE j # k
    <3>1. j \in Keys /\ j \in DOMAIN entries /\ entries'[j] = entries[j]
      BY <2>1 DEF CircuitTypeOK
    <3>2. Tracked(j)' = Tracked(j)
      BY <1>1, <2>1, <3>1
    <3>3. QED
      BY <3>1, <3>2 DEF CircuitInv, Counted
  <2>2. QED
    BY <2>1
<1>5. Decided'
  <2> SUFFICES ASSUME NEW j \in DOMAIN entries'
               PROVE  /\ entries'[j].gate = "halfopen" => \E v \in Workers : Probes(j)' = {v}
                      /\ entries'[j].gate = "open" => Probes(j)' = {}
    BY DEF Decided
  <2>1. CASE j # k
    <3>1. j \in DOMAIN entries /\ entries'[j] = entries[j] /\ Probes(j)' = Probes(j)
      BY <1>2, <2>1
    <3>2. QED
      BY <3>1 DEF CircuitInv, Decided
  <2>2. QED
    BY <2>1
<1>6. QED
  BY <1>3, <1>4, <1>5 DEF CircuitInv

(* A step that leaves the entries alone, and every tracked attempt. *)
LEMMA QuietStep ==
    ASSUME CircuitInv, CircuitTypeOK', entries' = entries,
           \A v \in Workers :
              \/ SameAttempt(v)
              \/ /\ ~(worker[v].phase = "live" /\ worker[v].tracked)
                 /\ ~(worker'[v].phase = "live" /\ worker'[v].tracked)
    PROVE  CircuitInv'
<1>1. \A k : Tracked(k)' = Tracked(k)
  BY DEF Tracked, SameAttempt
<1>2. \A k : \A v \in Tracked(k) : SameAttempt(v)
  BY DEF Tracked
<1>3. \A k : Probes(k)' = Probes(k)
  BY <1>1, <1>2 DEF Probes, SameAttempt
<1>4. Behind'
  BY DEF CircuitInv, Behind, SameAttempt
<1>5. Counted' /\ Decided'
  BY <1>1, <1>3 DEF CircuitInv, Counted, Decided
<1>6. QED
  BY <1>4, <1>5 DEF CircuitInv

-----------------------------------------------------------------------------
(* Scope::start lets worker w through. *)
LEMMA StartTrackedInv ==
    ASSUME CircuitInv, NEW w \in Workers, StartTracked(w)
    PROVE  CircuitInv'
<1> DEFINE k == KeyOf[w]
           e == EntryFor(k)
           s == StartedEntry(e)
<1>1. /\ k \in Keys /\ clock \in Nat /\ worker[w].phase = "idle"
      /\ worker \in [Workers -> Worker] /\ entries \in [DOMAIN entries -> Entry]
      /\ DOMAIN entries \subseteq Keys
  BY CircuitAssumption DEF CircuitInv, CircuitTypeOK, StartTracked
<1>2. PICK keep \in Slots(w) :
        /\ ~Blocked(e)
        /\ entries' = WithEntry(keep, k, s)
        /\ worker' = [worker EXCEPT ![w] = LiveWorker(s.generation, TRUE)]
  BY DEF StartTracked
<1>3. e \in Entry
  BY <1>1, NewEntryFacts DEF EntryFor
<1>4. e.in_flight = Cardinality(Tracked(k))
  <2>1. CASE k \in DOMAIN entries
    BY <2>1 DEF EntryFor, CircuitInv, Counted
  <2>2. CASE k \notin DOMAIN entries
    <3>1. Tracked(k) = {}
      BY <2>2 DEF CircuitInv, Behind, Tracked
    <3>2. QED
      BY <1>1, <2>2, <3>1, NewEntryFacts, FS_EmptySet DEF EntryFor
  <2>3. QED
    BY <2>1, <2>2
<1>5. \A v \in Tracked(k) : worker[v].generation \in Nat /\ worker[v].generation <= e.generation
  BY <1>1 DEF CircuitInv, Behind, Tracked, EntryFor, Worker
<1>6. /\ s \in Entry /\ s.in_flight = e.in_flight + 1
      /\ e.gate = "open" => s.gate = "halfopen" /\ s.generation = e.generation + 1
      /\ e.gate # "open" => s.gate = e.gate /\ s.generation = e.generation
  BY <1>1, <1>3, StartedFacts
<1>7. e.gate # "halfopen"
  BY <1>2 DEF Blocked
<1>8. /\ keep \subseteq DOMAIN entries
      /\ \A j \in DOMAIN entries \ keep : Tracked(j) = {}
  <2>1. ASSUME NEW j \in Oldest PROVE Tracked(j) = {}
    <3>1. j \in DOMAIN entries /\ entries[j].in_flight = 0
      BY DEF Oldest, Evictable
    <3>2. Cardinality(Tracked(j)) = 0
      BY <3>1 DEF CircuitInv, Counted
    <3>3. QED
      BY <3>2, TrackedFinite, FS_EmptySet
  <2>2. QED
    BY <2>1 DEF Slots
<1> HIDE DEF e, s
<1>9. /\ DOMAIN entries' = keep \cup {k}
      /\ entries'[k] = s
      /\ \A j \in DOMAIN entries' : j # k => j \in keep /\ entries'[j] = entries[j]
  BY <1>2 DEF WithEntry
<1>10. LET l == LiveWorker(s.generation, TRUE)
       IN  /\ l \in Worker /\ l.phase = "live" /\ l.generation = s.generation
           /\ l.tracked /\ ~l.resolved
  BY <1>6, WorkerValues DEF Entry
<1>11. /\ worker' \in [Workers -> Worker]
       /\ \A v \in Workers \ {w} : SameAttempt(v)
       /\ worker'[w].phase = "live" /\ worker'[w].generation = s.generation
       /\ worker'[w].tracked /\ ~worker'[w].resolved
  BY <1>1, <1>2, <1>10 DEF SameAttempt
<1>12. CircuitTypeOK'
  <2>1. clock' \in Nat /\ waiters' \in Nat
    BY DEF CircuitInv, CircuitTypeOK, StartTracked
  <2>2. entries' \in [DOMAIN entries' -> Entry]
    <3>1. \A j \in DOMAIN entries' : entries'[j] \in Entry
      BY <1>1, <1>6, <1>8, <1>9
    <3>2. entries' = [j \in DOMAIN entries' |-> entries'[j]]
      BY <1>2 DEF WithEntry
    <3>3. QED
      BY <3>1, <3>2
  <2>3. QED
    BY <1>1, <1>8, <1>9, <1>11, <2>1, <2>2 DEF CircuitTypeOK
<1>13. Tracked(k)' = Tracked(k) \cup {w} /\ w \notin Tracked(k)
  BY <1>1, <1>11 DEF Tracked, SameAttempt
<1>14. entries'[k].in_flight = Cardinality(Tracked(k)')
  <2>1. Cardinality(Tracked(k) \cup {w}) = Cardinality(Tracked(k)) + 1
    BY <1>13, TrackedFinite, FS_AddElement
  <2>2. Cardinality(Tracked(k)') = Cardinality(Tracked(k) \cup {w})
    BY <1>13
  <2>3. QED
    BY <1>4, <1>6, <1>9, <2>1, <2>2
<1>15. \A v \in Tracked(k) : worker'[v].generation = worker[v].generation
  BY <1>11, <1>13 DEF SameAttempt, Tracked
<1>16. \A v \in Tracked(k)' : worker'[v].generation <= entries'[k].generation
  BY <1>3, <1>5, <1>6, <1>9, <1>11, <1>13, <1>15 DEF Entry
<1>17. entries'[k].gate = "halfopen" => Probes(k)' = {w}
  <2> SUFFICES ASSUME s.gate = "halfopen" PROVE Probes(k)' = {w}
    BY <1>9
  <2>1. s.generation = e.generation + 1
    BY <1>6, <1>7
  <2>2. \A v \in Tracked(k) : worker'[v].generation # s.generation
    BY <1>3, <1>5, <1>15, <2>1 DEF Entry
  <2>3. QED
    BY <1>9, <1>11, <1>13, <2>2 DEF Probes
<1>18. entries'[k].gate # "open"
  BY <1>6, <1>9
<1>19. QED
  <2>1. \A j \in DOMAIN entries : j \notin DOMAIN entries' => Tracked(j) = {}
    BY <1>8, <1>9
  <2>2. \A j \in DOMAIN entries' : j # k => j \in DOMAIN entries /\ entries'[j] = entries[j]
    BY <1>8, <1>9
  <2>3. k \in DOMAIN entries'
    BY <1>9
  <2>4. QED
    BY <1>1, <1>11, <1>12, <1>14, <1>16, <1>17, <1>18, <2>1, <2>2, <2>3, OneScope

(* What a step that may notify makes of the other workers. *)
LEMMA MaybeNotified ==
    ASSUME NEW ws \in [Workers -> Worker], NEW c \in BOOLEAN,
           worker' = IF c THEN NotifyWaiters(ws) ELSE ws
    PROVE  /\ worker' \in [Workers -> Worker]
           /\ \A v \in Workers :
                /\ worker'[v].phase = ws[v].phase
                /\ worker'[v].generation = ws[v].generation
                /\ worker'[v].tracked <=> ws[v].tracked
                /\ worker'[v].resolved <=> ws[v].resolved
<1>1. CASE c
  BY <1>1, NotifyKeeps
<1>2. CASE ~c
  BY <1>2
<1>3. QED
  BY <1>1, <1>2

(* Attempt::resolve with an outcome that, where it counts, closes the      *)
(* scope, opens it in the next generation or leaves a closed one closed.   *)
ResolveStep(w, k, f) ==
    /\ UNCHANGED <<clock, waiters>>
    /\ entries' = IF Counts(w) THEN [entries EXCEPT ![k] = f] ELSE entries
    /\ worker' = IF Counts(w) /\ entries[k].gate = "halfopen"
                 THEN NotifyWaiters([worker EXCEPT ![w].resolved = TRUE])
                 ELSE [worker EXCEPT ![w].resolved = TRUE]

LEMMA ResolveInv ==
    ASSUME CircuitInv, NEW w \in Workers, NEW f \in Entry, NEW k, k = KeyOf[w],
           Resolvable(w), ResolveStep(w, k, f),
           f.in_flight = entries[k].in_flight,
           \/ f.gate = "open" /\ f.generation = entries[k].generation + 1
           \/ f.gate = "closed" /\ f.generation = entries[k].generation
           \/ /\ f.gate = entries[k].gate /\ f.gate # "halfopen"
              /\ f.generation = entries[k].generation
    PROVE  CircuitInv'
<1> DEFINE ws == [worker EXCEPT ![w].resolved = TRUE]
           n == entries'[k]
<1>1. /\ worker \in [Workers -> Worker] /\ entries \in [DOMAIN entries -> Entry]
      /\ worker[w].phase = "live" /\ worker[w].tracked /\ ~worker[w].resolved
      /\ w \in Tracked(k) /\ k \in DOMAIN entries /\ k \in Keys
      /\ worker[w].generation <= entries[k].generation
  BY CircuitAssumption DEF CircuitInv, CircuitTypeOK, Resolvable, Behind, Tracked
<1>2. /\ ws \in [Workers -> Worker] /\ ws[w].phase = "live" /\ ws[w].tracked
      /\ ws[w].resolved /\ ws[w].generation = worker[w].generation
      /\ \A v \in Workers \ {w} : ws[v] = worker[v]
  BY <1>1 DEF Worker
<1> HIDE DEF ws
<1>3. /\ worker' \in [Workers -> Worker]
      /\ \A v \in Workers :
                /\ worker'[v].phase = ws[v].phase
                /\ worker'[v].generation = ws[v].generation
                /\ worker'[v].tracked <=> ws[v].tracked
                /\ worker'[v].resolved <=> ws[v].resolved
  <2>1. worker' = IF Counts(w) /\ entries[k].gate = "halfopen" THEN NotifyWaiters(ws) ELSE ws
    BY DEF ws, ResolveStep
  <2>2. (Counts(w) /\ entries[k].gate = "halfopen") \in BOOLEAN
    BY DEF Counts
  <2> HIDE DEF Counts
  <2>3. QED
    BY <1>2, <2>1, <2>2, MaybeNotified
<1>4. /\ \A v \in Workers \ {w} : SameAttempt(v)
      /\ worker'[w].phase = "live" /\ worker'[w].tracked /\ worker'[w].resolved
      /\ worker'[w].generation = worker[w].generation
  BY <1>2, <1>3 DEF SameAttempt
<1>5. /\ DOMAIN entries' = DOMAIN entries
      /\ \A j \in DOMAIN entries' : j # k => entries'[j] = entries[j]
      /\ entries' \in [DOMAIN entries' -> Entry]
      /\ Counts(w) => n = f
      /\ ~Counts(w) => n = entries[k]
  BY <1>1 DEF ResolveStep
<1> HIDE DEF n
<1>6. n \in Entry /\ entries[k] \in Entry /\ n.in_flight = entries[k].in_flight
  BY <1>1, <1>5
<1>7. CircuitTypeOK'
  BY <1>3, <1>5 DEF CircuitInv, CircuitTypeOK, ResolveStep
<1>8. Tracked(k)' = Tracked(k)
  BY <1>1, <1>4 DEF Tracked, SameAttempt
<1>9. \A v \in Tracked(k) : /\ worker'[v].generation = worker[v].generation
                            /\ worker[v].generation \in Nat
                            /\ worker[v].generation <= entries[k].generation
  BY <1>1, <1>4 DEF Tracked, SameAttempt, CircuitInv, Behind, Worker
<1>10. entries[k].generation <= n.generation
  BY <1>5, <1>6 DEF Entry
<1>a. /\ n.generation \in Nat /\ entries[k].generation \in Nat
      /\ entries'[k].generation = n.generation
  BY <1>6 DEF Entry, n
<1>11. \A v \in Tracked(k)' : worker'[v].generation <= entries'[k].generation
  <2> SUFFICES ASSUME NEW v \in Tracked(k) PROVE worker'[v].generation <= n.generation
    BY <1>8, <1>a
  <2>1. QED
    BY <1>9, <1>10, <1>a
<1>12. /\ n.gate = "halfopen" => \E v \in Workers : Probes(k)' = {v}
       /\ n.gate = "open" => Probes(k)' = {}
  <2>1. CASE Counts(w)
    <3>1. w \in Probes(k)
      BY <1>1, <2>1 DEF Probes, Counts
    <3>2. entries[k].gate # "open"
      BY <1>1, <3>1 DEF CircuitInv, Decided
    <3>3. n.gate # "halfopen"
      BY <1>5, <2>1
    <3>4. ASSUME n.gate = "open" PROVE Probes(k)' = {}
      <4>1. n.generation = entries[k].generation + 1
        BY <1>5, <2>1, <3>2, <3>4
      <4>2. \A v \in Tracked(k)' : worker'[v].generation # entries'[k].generation
        <5> SUFFICES ASSUME NEW v \in Tracked(k) PROVE worker'[v].generation # n.generation
          BY <1>8, <1>a
        <5>1. QED
          BY <1>9, <1>a, <4>1
      <4>3. QED
        BY <4>2 DEF Probes
    <3>5. QED
      BY <3>3, <3>4
  <2>2. CASE ~Counts(w)
    <3>1. w \notin Probes(k)
      BY <2>2 DEF Probes, Counts
    <3>2. n = entries[k] /\ entries'[k] = entries[k]
      BY <1>5, <2>2 DEF n
    <3>3. Probes(k)' = Probes(k)
      BY <1>4, <1>8, <3>1, <3>2 DEF Probes, SameAttempt, Tracked
    <3>4. QED
      BY <1>1, <3>2, <3>3 DEF CircuitInv, Decided
  <2>3. QED
    BY <2>1, <2>2
<1>13. n.in_flight = Cardinality(Tracked(k)')
  BY <1>1, <1>6, <1>8 DEF CircuitInv, Counted
<1>14. QED
  <2>1. /\ entries'[k].in_flight = Cardinality(Tracked(k)')
        /\ entries'[k].gate = "halfopen" => \E v \in Workers : Probes(k)' = {v}
        /\ entries'[k].gate = "open" => Probes(k)' = {}
    BY <1>12, <1>13 DEF n
  <2>2. QED
    BY <1>1, <1>4, <1>5, <1>7, <1>11, <2>1, OneScope

(* Attempt::drop of a tracked attempt. *)
LEMMA DropTrackedInv ==
    ASSUME CircuitInv, NEW w \in Workers, Drop(w), worker[w].tracked
    PROVE  CircuitInv'
<1> DEFINE k == KeyOf[w]
           e == entries[k]
           unresolved == ~worker[w].resolved /\ Counts(w)
           d == DroppedEntry(e, unresolved)
           ws == [worker EXCEPT ![w] = IdleWorker]
<1>1. /\ worker \in [Workers -> Worker] /\ entries \in [DOMAIN entries -> Entry]
      /\ worker[w].phase = "live" /\ clock \in Nat
      /\ w \in Tracked(k) /\ k \in DOMAIN entries /\ k \in Keys /\ e \in Entry
  BY CircuitAssumption DEF CircuitInv, CircuitTypeOK, Drop, Behind, Tracked
<1>2. /\ entries' = [entries EXCEPT ![k] = d]
      /\ worker' = IF unresolved /\ e.gate = "halfopen" THEN NotifyWaiters(ws) ELSE ws
      /\ clock' = clock /\ waiters' = waiters
  BY DEF Drop
<1>3. unresolved \in BOOLEAN /\ (unresolved <=> w \in Probes(k))
  BY <1>1 DEF Counts, Probes
<1> HIDE DEF unresolved
<1>4. e.in_flight = Cardinality(Tracked(k)) /\ e.in_flight > 0
  <2>1. e.in_flight = Cardinality(Tracked(k))
    BY <1>1 DEF CircuitInv, Counted
  <2>2. Cardinality(Tracked(k)) # 0
    BY <1>1, TrackedFinite, FS_EmptySet
  <2>3. QED
    BY <2>1, <2>2, TrackedFinite
<1>5. /\ d \in Entry /\ d.in_flight = e.in_flight - 1
      /\ unresolved /\ e.gate = "halfopen" =>
            d.gate = "open" /\ d.generation = e.generation + 1
      /\ ~(unresolved /\ e.gate = "halfopen") =>
            d.gate = e.gate /\ d.generation = e.generation
  BY <1>1, <1>3, <1>4, DroppedFacts
<1> HIDE DEF d
<1>6. /\ ws \in [Workers -> Worker] /\ ws[w].phase = "idle"
      /\ \A v \in Workers \ {w} : ws[v] = worker[v]
  BY <1>1, WorkerValues
<1> HIDE DEF ws
<1>7. /\ worker' \in [Workers -> Worker]
      /\ \A v \in Workers :
                /\ worker'[v].phase = ws[v].phase
                /\ worker'[v].generation = ws[v].generation
                /\ worker'[v].tracked <=> ws[v].tracked
                /\ worker'[v].resolved <=> ws[v].resolved
  <2>1. (unresolved /\ e.gate = "halfopen") \in BOOLEAN
    BY <1>3
  <2>2. QED
    BY <1>2, <1>6, <2>1, MaybeNotified
<1>8. (\A v \in Workers \ {w} : SameAttempt(v)) /\ worker'[w].phase = "idle"
  BY <1>6, <1>7 DEF SameAttempt
<1>9. /\ DOMAIN entries' = DOMAIN entries /\ entries'[k] = d
      /\ \A j \in DOMAIN entries' : j # k => entries'[j] = entries[j]
      /\ entries' \in [DOMAIN entries' -> Entry]
  BY <1>1, <1>2, <1>5
<1>10. CircuitTypeOK'
  BY <1>2, <1>7, <1>9 DEF CircuitInv, CircuitTypeOK
<1>11. Tracked(k)' = Tracked(k) \ {w}
  BY <1>8 DEF Tracked, SameAttempt
<1>12. entries'[k].in_flight = Cardinality(Tracked(k)')
  <2>1. Cardinality(Tracked(k) \ {w}) = Cardinality(Tracked(k)) - 1
    BY <1>1, TrackedFinite, FS_RemoveElement
  <2>2. Cardinality(Tracked(k)') = Cardinality(Tracked(k) \ {w})
    BY <1>11
  <2>3. QED
    BY <1>4, <1>5, <1>9, <2>1, <2>2
<1>13. \A v \in Tracked(k) \ {w} : /\ worker'[v].generation = worker[v].generation
                                   /\ worker[v].generation \in Nat
                                   /\ worker[v].generation <= e.generation
  BY <1>1, <1>8 DEF Tracked, SameAttempt, CircuitInv, Behind, Worker
<1>14. /\ e.generation \in Nat /\ d.generation \in Nat /\ e.generation <= d.generation
  BY <1>1, <1>5 DEF Entry
<1>15. \A v \in Tracked(k)' : worker'[v].generation <= entries'[k].generation
  <2> SUFFICES ASSUME NEW v \in Tracked(k) \ {w} PROVE worker'[v].generation <= d.generation
    BY <1>9, <1>11
  <2>1. QED
    BY <1>13, <1>14
<1>16. /\ entries'[k].gate = "halfopen" => \E v \in Workers : Probes(k)' = {v}
       /\ entries'[k].gate = "open" => Probes(k)' = {}
  <2>1. CASE unresolved /\ e.gate = "halfopen"
    <3>1. \A v \in Tracked(k)' : worker'[v].generation # entries'[k].generation
      <4> SUFFICES ASSUME NEW v \in Tracked(k) \ {w}
                   PROVE  worker'[v].generation # d.generation
        BY <1>9, <1>11
      <4>1. QED
        BY <1>5, <1>13, <1>14, <2>1
    <3>2. QED
      BY <1>5, <1>9, <2>1, <3>1 DEF Probes
  <2>2. CASE ~(unresolved /\ e.gate = "halfopen")
    <3>1. Probes(k)' = Probes(k) \ {w}
      <4>1. d.generation = e.generation
        BY <1>5, <2>2
      <4>2. \A v \in Tracked(k) \ {w} : SameAttempt(v)
        BY <1>8 DEF Tracked
      <4>3. QED
        BY <1>9, <1>11, <4>1, <4>2 DEF Probes, SameAttempt
    <3>2. d.gate = e.gate
      BY <1>5, <2>2
    <3>3. ASSUME e.gate = "halfopen" PROVE Probes(k) \ {w} = Probes(k)
      BY <1>3, <2>2, <3>3
    <3>4. QED
      BY <1>1, <1>9, <3>1, <3>2, <3>3 DEF CircuitInv, Decided
  <2>3. QED
    BY <2>1, <2>2
<1>17. QED
  BY <1>1, <1>8, <1>9, <1>10, <1>12, <1>15, <1>16, OneScope

-----------------------------------------------------------------------------
LEMMA InitInv == Init => CircuitInv
<1> SUFFICES ASSUME Init PROVE CircuitInv
  OBVIOUS
<1>1. CircuitTypeOK
  BY WorkerValues DEF Init, CircuitTypeOK
<1>2. \A w \in Workers : worker[w].phase = "idle"
  BY WorkerValues DEF Init
<1>3. DOMAIN entries = {}
  BY DEF Init
<1>4. QED
  BY <1>1, <1>2, <1>3 DEF CircuitInv, Behind, Counted, Decided

(* Attempt::resolve, by its two outcomes. *)
LEMMA FailInv ==
    ASSUME CircuitInv, NEW w \in Workers, Fail(w)
    PROVE  CircuitInv'
<1>1. PICK delay \in FailureDelays : Resolve(w, LAMBDA e : FailedEntry(e, delay))
  BY DEF Fail
<1> DEFINE k == KeyOf[w]
           f == FailedEntry(entries[k], delay)
<1>2. Resolvable(w) /\ ResolveStep(w, k, f)
  BY <1>1 DEF Resolve, ResolveStep
<1>3. entries[k] \in Entry /\ clock \in Nat
  BY <1>2 DEF CircuitInv, CircuitTypeOK, Behind, Resolvable
<1>4. /\ f \in Entry /\ f.in_flight = entries[k].in_flight
      /\ \/ f.gate = "open" /\ f.generation = entries[k].generation + 1
         \/ /\ f.gate = entries[k].gate /\ f.gate # "halfopen"
            /\ f.generation = entries[k].generation
  BY <1>3, FailedFacts
<1> HIDE DEF f
<1>5. QED
  BY <1>2, <1>4, ResolveInv

LEMMA CompleteInv ==
    ASSUME CircuitInv, NEW w \in Workers, Complete(w)
    PROVE  CircuitInv'
<1> DEFINE k == KeyOf[w]
           f == CompletedEntry(entries[k])
<1>1. Resolvable(w) /\ ResolveStep(w, k, f)
  BY DEF Complete, Resolve, ResolveStep
<1>2. entries[k] \in Entry /\ clock \in Nat
  BY <1>1 DEF CircuitInv, CircuitTypeOK, Behind, Resolvable
<1>3. /\ f \in Entry /\ f.in_flight = entries[k].in_flight
      /\ f.gate = "closed" /\ f.generation = entries[k].generation
  BY <1>2, CompletedFacts
<1> HIDE DEF f
<1>4. QED
  BY <1>1, <1>3, ResolveInv

(* The steps of workers that wait, give up or go untracked. *)
LEMMA QuietInv ==
    ASSUME CircuitInv, NEW w \in Workers,
           \/ StartBypass(w) \/ StartBlocked(w)
           \/ Wait(w) /\ waiters' \in Nat
           \/ AbandonWait(w) /\ waiters' \in Nat
           \/ Drop(w) /\ ~worker[w].tracked
    PROVE  CircuitInv'
<1>1. worker \in [Workers -> Worker] /\ waiters \in Nat
  BY DEF CircuitInv, CircuitTypeOK
<1>2. /\ entries' = entries /\ clock' = clock /\ waiters' \in Nat
      /\ worker' \in [Workers -> Worker]
      /\ \A v \in Workers \ {w} : worker'[v] = worker[v]
      /\ ~(worker[w].phase = "live" /\ worker[w].tracked)
      /\ ~(worker'[w].phase = "live" /\ worker'[w].tracked)
  <2>1. CASE StartBypass(w)
    BY <1>1, <2>1, WorkerValues DEF StartBypass
  <2>2. CASE StartBlocked(w)
    BY <1>1, <2>2 DEF StartBlocked, Worker
  <2>3. CASE Wait(w) /\ waiters' \in Nat
    BY <1>1, <2>3, WorkerValues DEF Wait, WaitReady, LeaveWait, Worker
  <2>4. CASE AbandonWait(w) /\ waiters' \in Nat
    BY <1>1, <2>4, WorkerValues DEF AbandonWait, LeaveWait
  <2>5. CASE Drop(w) /\ ~worker[w].tracked
    BY <1>1, <2>5, WorkerValues DEF Drop
  <2>6. QED
    BY <2>1, <2>2, <2>3, <2>4, <2>5
<1>3. CircuitTypeOK'
  BY <1>2 DEF CircuitInv, CircuitTypeOK
<1>4. \A v \in Workers \ {w} : SameAttempt(v)
  BY <1>2 DEF SameAttempt
<1>5. QED
  BY <1>2, <1>3, <1>4, QuietStep

-----------------------------------------------------------------------------
(* The waiters.  A half-open scope is evicted by nobody and left only by a *)
(* step that notifies.                                                     *)
LEMMA WaitingFinite == IsFiniteSet(Waiting) /\ Cardinality(Waiting) \in Nat
<1>1. Waiting \subseteq Workers
  BY DEF Waiting
<1>2. QED
  BY <1>1, CircuitAssumption, FS_Subset, FS_CardinalityType

(* A step of a worker that does not enter or leave wait. *)
LEMMA SameWaiting ==
    ASSUME WaitersSleepOnProbe, waiters' = waiters,
           \A v \in Workers : worker'[v].phase = "waiting" <=> worker[v].phase = "waiting",
           \A v \in Waiting : ~worker'[v].woken /\ HalfOpen(KeyOf[v]) =>
                                  ~worker[v].woken /\ HalfOpen(KeyOf[v])',
           \A v \in Waiting : ~worker'[v].woken => ~worker[v].woken
    PROVE  WaitersSleepOnProbe'
<1>1. Waiting' = Waiting
  BY DEF Waiting
<1>2. Cardinality(Waiting') = Cardinality(Waiting)
  BY <1>1
<1>3. QED
  BY <1>1, <1>2 DEF WaitersSleepOnProbe

LEMMA NotifyWakes ==
    ASSUME NEW ws \in [Workers -> Worker]
    PROVE  \A v \in Workers : ws[v].phase = "waiting" => NotifyWaiters(ws)[v].woken
BY DEF NotifyWaiters, Worker

LEMMA ResolveWaiters ==
    ASSUME CircuitInv, WaitersSleepOnProbe, NEW w \in Workers, NEW f \in Entry, NEW k,
           k = KeyOf[w], Resolvable(w), ResolveStep(w, k, f)
    PROVE  WaitersSleepOnProbe'
<1> DEFINE ws == [worker EXCEPT ![w].resolved = TRUE]
<1>1. /\ worker \in [Workers -> Worker] /\ entries \in [DOMAIN entries -> Entry]
      /\ worker[w].phase = "live" /\ k \in DOMAIN entries /\ waiters' = waiters
  BY DEF CircuitInv, CircuitTypeOK, Resolvable, Behind, ResolveStep
<1>2. /\ ws \in [Workers -> Worker]
      /\ \A v \in Workers : /\ ws[v].phase = worker[v].phase
                            /\ ws[v].woken <=> worker[v].woken
  BY <1>1 DEF Worker
<1>3. CASE Counts(w) /\ entries[k].gate = "halfopen"
  <2>1. worker' = NotifyWaiters(ws)
    BY <1>3 DEF ResolveStep
  <2> HIDE DEF ws
  <2>2. \A v \in Workers : worker'[v].phase = worker[v].phase
    BY <1>2, <2>1, NotifyKeeps
  <2>3. \A v \in Waiting : worker'[v].woken
    BY <1>2, <2>1, NotifyWakes DEF Waiting
  <2>4. QED
    BY <1>1, <2>2, <2>3, SameWaiting
<1>4. CASE ~(Counts(w) /\ entries[k].gate = "halfopen")
  <2>1. worker' = ws
    BY <1>4 DEF ResolveStep
  <2> HIDE DEF ws
  <2>2. ASSUME NEW j, HalfOpen(j) PROVE HalfOpen(j)'
    BY <1>1, <1>4, <2>2 DEF ResolveStep, HalfOpen
  <2>3. QED
    BY <1>1, <1>2, <2>1, <2>2, SameWaiting DEF Waiting
<1>5. QED
  BY <1>3, <1>4

LEMMA DropWaiters ==
    ASSUME CircuitInv, WaitersSleepOnProbe, NEW w \in Workers, Drop(w)
    PROVE  WaitersSleepOnProbe'
<1> DEFINE k == KeyOf[w]
           unresolved == ~worker[w].resolved /\ Counts(w)
           ws == [worker EXCEPT ![w] = IdleWorker]
<1>1. /\ worker \in [Workers -> Worker] /\ entries \in [DOMAIN entries -> Entry]
      /\ worker[w].phase = "live" /\ waiters' = waiters /\ clock \in Nat
      /\ worker[w].tracked => k \in DOMAIN entries /\ w \in Tracked(k)
  BY DEF CircuitInv, CircuitTypeOK, Drop, Behind, Tracked
<1>2. /\ ws \in [Workers -> Worker]
      /\ \A v \in Workers : /\ ws[v].phase = "waiting" <=> worker[v].phase = "waiting"
                            /\ worker[v].phase = "waiting" =>
                                  (ws[v].woken <=> worker[v].woken)
  BY <1>1, WorkerValues
<1>3. unresolved \in BOOLEAN
  BY DEF Counts
<1>4. CASE worker[w].tracked /\ unresolved /\ entries[k].gate = "halfopen"
  <2>1. worker' = NotifyWaiters(ws)
    BY <1>4 DEF Drop
  <2> HIDE DEF ws
  <2>2. \A v \in Workers : worker'[v].phase = "waiting" <=> worker[v].phase = "waiting"
    BY <1>2, <2>1, NotifyKeeps
  <2>3. \A v \in Waiting : worker'[v].woken
    BY <1>2, <2>1, NotifyWakes DEF Waiting
  <2>4. QED
    BY <1>1, <2>2, <2>3, SameWaiting
<1>5. CASE worker[w].tracked /\ ~(unresolved /\ entries[k].gate = "halfopen")
  <2>1. worker' = ws /\ entries' = [entries EXCEPT ![k] = DroppedEntry(@, unresolved)]
    BY <1>5 DEF Drop
  <2> HIDE DEF ws, unresolved
  <2>2. entries[k].in_flight > 0
    <3>1. Cardinality(Tracked(k)) # 0
      BY <1>1, <1>5, TrackedFinite, FS_EmptySet
    <3>2. entries[k].in_flight = Cardinality(Tracked(k))
      BY <1>1, <1>5 DEF CircuitInv, Counted
    <3>3. QED
      BY <3>1, <3>2, TrackedFinite
  <2>3. DroppedEntry(entries[k], unresolved).gate = entries[k].gate
    BY <1>1, <1>3, <1>5, <2>2, DroppedFacts
  <2>a. /\ DOMAIN entries' = DOMAIN entries /\ entries'[k].gate = entries[k].gate
        /\ \A j \in DOMAIN entries : j # k => entries'[j] = entries[j]
    BY <1>1, <1>5, <2>1, <2>3
  <2>4. ASSUME NEW j, HalfOpen(j) PROVE HalfOpen(j)'
    BY <2>a, <2>4 DEF HalfOpen
  <2>5. QED
    BY <1>1, <1>2, <2>1, <2>4, SameWaiting DEF Waiting
<1>6. CASE ~worker[w].tracked
  <2>1. worker' = ws /\ entries' = entries
    BY <1>6 DEF Drop
  <2> HIDE DEF ws
  <2>2. \A j : HalfOpen(j)' <=> HalfOpen(j)
    BY <2>1 DEF HalfOpen
  <2>3. QED
    BY <1>1, <1>2, <2>1, <2>2, SameWaiting DEF Waiting
<1>7. QED
  BY <1>4, <1>5, <1>6

LEMMA StartWaiters ==
    ASSUME CircuitInv, WaitersSleepOnProbe, NEW w \in Workers, StartTracked(w)
    PROVE  WaitersSleepOnProbe'
<1> DEFINE k == KeyOf[w]
           e == EntryFor(k)
<1>1. PICK keep \in Slots(w) :
        /\ ~Blocked(e)
        /\ entries' = WithEntry(keep, k, StartedEntry(e))
        /\ worker' = [worker EXCEPT ![w] = LiveWorker(StartedEntry(e).generation, TRUE)]
  BY DEF StartTracked
<1>2. worker \in [Workers -> Worker] /\ worker[w].phase = "idle" /\ waiters' = waiters
  BY DEF CircuitInv, CircuitTypeOK, StartTracked
<1>3. \A v \in Workers : /\ worker'[v].phase = "waiting" <=> worker[v].phase = "waiting"
                         /\ worker[v].phase = "waiting" => worker'[v] = worker[v]
  BY <1>1, <1>2 DEF LiveWorker
<1>4. \A j \in DOMAIN entries \ keep : entries[j].gate = "closed"
  BY DEF Slots, Oldest, Evictable
<1>5. ~HalfOpen(k)
  BY <1>1 DEF Blocked, EntryFor, HalfOpen
<1>6. ASSUME NEW j, HalfOpen(j) PROVE HalfOpen(j)'
  <2>1. j # k /\ j \in keep
    BY <1>4, <1>5, <1>6 DEF HalfOpen
  <2>2. j \in DOMAIN entries' /\ entries'[j] = entries[j]
    BY <1>1, <2>1 DEF WithEntry
  <2>3. QED
    BY <1>6, <2>2 DEF HalfOpen
<1>7. QED
  BY <1>2, <1>3, <1>6, SameWaiting DEF Waiting

LEMMA LeaveWaiters ==
    ASSUME CircuitInv, WaitersSleepOnProbe, NEW w \in Workers, LeaveWait(w),
           worker[w].phase \in {"probing", "waiting"}, entries' = entries
    PROVE  WaitersSleepOnProbe'
<1>1. worker \in [Workers -> Worker] /\ worker' = [worker EXCEPT ![w] = IdleWorker]
  BY DEF CircuitInv, CircuitTypeOK, LeaveWait
<1>2. /\ \A v \in Workers \ {w} : worker'[v] = worker[v]
      /\ worker'[w].phase = "idle"
  BY <1>1, WorkerValues
<1>3. Waiting' = Waiting \ {w}
  BY <1>2 DEF Waiting
<1>4. waiters' = Cardinality(Waiting')
  <2>1. Cardinality(Waiting \ {w}) =
          IF w \in Waiting THEN Cardinality(Waiting) - 1 ELSE Cardinality(Waiting)
    BY WaitingFinite, FS_RemoveElement
  <2>2. w \in Waiting <=> worker[w].phase = "waiting"
    BY DEF Waiting
  <2>3. Cardinality(Waiting') = Cardinality(Waiting \ {w})
    BY <1>3
  <2>4. QED
    BY <2>1, <2>2, <2>3 DEF LeaveWait, WaitersSleepOnProbe
<1>5. waiters' <= MaxWaiters
  <2>1. waiters \in Nat /\ MaxWaiters \in Nat /\ waiters <= MaxWaiters
    BY CircuitAssumption DEF CircuitInv, CircuitTypeOK, WaitersSleepOnProbe
  <2>2. QED
    BY <2>1 DEF LeaveWait
<1>6. \A v \in Waiting' : ~worker'[v].woken => HalfOpen(KeyOf[v])'
  <2>1. \A j : HalfOpen(j)' <=> HalfOpen(j)
    BY DEF HalfOpen
  <2>2. \A v \in Waiting \ {w} : worker'[v] = worker[v]
    BY <1>2 DEF Waiting
  <2>3. QED
    BY <1>3, <2>1, <2>2 DEF WaitersSleepOnProbe
<1>7. QED
  BY <1>4, <1>5, <1>6 DEF WaitersSleepOnProbe

LEMMA WaitWaiters ==
    ASSUME CircuitInv, WaitersSleepOnProbe, NEW w \in Workers, Wait(w)
    PROVE  WaitersSleepOnProbe'
<1>1. /\ worker \in [Workers -> Worker] /\ entries' = entries
      /\ worker[w].phase \in {"probing", "waiting"}
  BY DEF CircuitInv, CircuitTypeOK, Wait, WaitReady
<1>2. CASE LeaveWait(w)
  BY <1>1, <1>2, LeaveWaiters
<1>3. CASE ~LeaveWait(w)
  <2>1. /\ HalfOpen(KeyOf[w]) /\ (worker[w].phase = "probing" => waiters < MaxWaiters)
        /\ worker' = [worker EXCEPT ![w].phase = "waiting", ![w].woken = FALSE]
        /\ waiters' = IF worker[w].phase = "probing" THEN waiters + 1 ELSE waiters
    BY <1>3 DEF Wait
  <2>2. /\ \A v \in Workers \ {w} : worker'[v] = worker[v]
        /\ worker'[w].phase = "waiting"
    BY <1>1, <2>1 DEF Worker
  <2>3. Waiting' = Waiting \cup {w}
    BY <2>2 DEF Waiting
  <2>4. waiters' = Cardinality(Waiting')
    <3>1. Cardinality(Waiting \cup {w}) =
            IF w \in Waiting THEN Cardinality(Waiting) ELSE Cardinality(Waiting) + 1
      BY WaitingFinite, FS_AddElement
    <3>2. w \in Waiting <=> worker[w].phase # "probing"
      BY <1>1 DEF Waiting
    <3>3. Cardinality(Waiting') = Cardinality(Waiting \cup {w})
      BY <2>3
    <3>4. QED
      BY <2>1, <3>1, <3>2, <3>3 DEF WaitersSleepOnProbe
  <2>5. waiters' <= MaxWaiters
    <3>1. waiters \in Nat /\ MaxWaiters \in Nat /\ waiters <= MaxWaiters
      BY CircuitAssumption DEF CircuitInv, CircuitTypeOK, WaitersSleepOnProbe
    <3>2. QED
      BY <2>1, <3>1
  <2>6. \A v \in Waiting' : ~worker'[v].woken => HalfOpen(KeyOf[v])'
    <3>1. \A j : HalfOpen(j)' <=> HalfOpen(j)
      BY <1>1 DEF HalfOpen
    <3>2. \A v \in Waiting \ {w} : worker'[v] = worker[v]
      BY <2>2 DEF Waiting
    <3>3. QED
      BY <2>1, <2>3, <3>1, <3>2 DEF WaitersSleepOnProbe
  <2>7. QED
    BY <2>4, <2>5, <2>6 DEF WaitersSleepOnProbe
<1>4. QED
  BY <1>2, <1>3

-----------------------------------------------------------------------------
(* The two invariants together: the count of the waiters types waiters.    *)
FullInv == CircuitInv /\ WaitersSleepOnProbe

LEMMA NextWaiters ==
    ASSUME FullInv, Next
    PROVE  WaitersSleepOnProbe'
<1> USE DEF FullInv
<1>1. CASE Tick
  BY <1>1 DEF Tick, WaitersSleepOnProbe, Waiting, HalfOpen
<1>2. ASSUME NEW w \in Workers, StartBypass(w) \/ StartBlocked(w)
      PROVE  WaitersSleepOnProbe'
  <2>1. /\ worker \in [Workers -> Worker] /\ worker[w].phase = "idle"
        /\ entries' = entries /\ waiters' = waiters
    BY <1>2 DEF CircuitInv, CircuitTypeOK, StartBypass, StartBlocked
  <2>2. \A v \in Workers : /\ worker'[v].phase = "waiting" <=> worker[v].phase = "waiting"
                           /\ worker[v].phase = "waiting" => worker'[v] = worker[v]
    <3>1. CASE StartBypass(w)
      BY <2>1, <3>1 DEF StartBypass, LiveWorker
    <3>2. CASE StartBlocked(w)
      BY <2>1, <3>2 DEF StartBlocked, Worker
    <3>3. QED
      BY <1>2, <3>1, <3>2
  <2>3. \A j : HalfOpen(j)' <=> HalfOpen(j)
    BY <2>1 DEF HalfOpen
  <2>4. QED
    BY <2>1, <2>2, <2>3, SameWaiting DEF Waiting
<1>3. ASSUME NEW w \in Workers, Fail(w) PROVE WaitersSleepOnProbe'
  <2>1. PICK delay \in FailureDelays : Resolve(w, LAMBDA e : FailedEntry(e, delay))
    BY <1>3 DEF Fail
  <2>2. /\ Resolvable(w)
        /\ ResolveStep(w, KeyOf[w], FailedEntry(entries[KeyOf[w]], delay))
    BY <2>1 DEF Resolve, ResolveStep
  <2>3. entries[KeyOf[w]] \in Entry /\ clock \in Nat
    BY <2>2 DEF CircuitInv, CircuitTypeOK, Behind, Resolvable
  <2>4. FailedEntry(entries[KeyOf[w]], delay) \in Entry
    BY <2>3, FailedFacts
  <2>5. QED
    BY <2>2, <2>4, ResolveWaiters
<1>4. ASSUME NEW w \in Workers, Complete(w) PROVE WaitersSleepOnProbe'
  <2>1. Resolvable(w) /\ ResolveStep(w, KeyOf[w], CompletedEntry(entries[KeyOf[w]]))
    BY <1>4 DEF Complete, Resolve, ResolveStep
  <2>2. entries[KeyOf[w]] \in Entry /\ clock \in Nat
    BY <2>1 DEF CircuitInv, CircuitTypeOK, Behind, Resolvable
  <2>3. CompletedEntry(entries[KeyOf[w]]) \in Entry
    BY <2>2, CompletedFacts
  <2>4. QED
    BY <2>1, <2>3, ResolveWaiters
<1>5. ASSUME NEW w \in Workers, AbandonWait(w) PROVE WaitersSleepOnProbe'
  BY <1>5, LeaveWaiters DEF AbandonWait
<1>6. QED
  BY <1>1, <1>2, <1>3, <1>4, <1>5, StartWaiters, WaitWaiters, DropWaiters DEF Next

LEMMA NextInv ==
    ASSUME FullInv, [Next]_vars
    PROVE  FullInv'
<1> USE DEF FullInv
<1>1. CASE Next
  <2>1. WaitersSleepOnProbe'
    BY <1>1, NextWaiters
  <2>2. waiters' \in Nat
    <3>1. waiters' = Cardinality(Waiting)'
      BY <2>1 DEF WaitersSleepOnProbe
    <3>2. Waiting' \subseteq Workers
      BY DEF Waiting
    <3>3. Cardinality(Waiting') \in Nat
      BY <3>2, CircuitAssumption, FS_Subset, FS_CardinalityType
    <3>4. QED
      BY <3>1, <3>3
  <2>3. CASE Tick
    <3>1. CircuitTypeOK'
      BY <2>3 DEF CircuitInv, CircuitTypeOK, Tick
    <3>2. entries' = entries /\ \A v \in Workers : SameAttempt(v)
      BY <2>3 DEF Tick, SameAttempt
    <3>3. QED
      BY <2>1, <3>1, <3>2, QuietStep
  <2>4. ASSUME NEW w \in Workers,
               \/ StartBypass(w) \/ StartTracked(w) \/ StartBlocked(w)
               \/ Wait(w) \/ AbandonWait(w)
               \/ Fail(w) \/ Complete(w) \/ Drop(w)
        PROVE  CircuitInv'
    <3>1. CASE Drop(w)
      BY <3>1, DropTrackedInv, QuietInv
    <3>2. CASE StartTracked(w) \/ Fail(w) \/ Complete(w)
      BY <3>2, StartTrackedInv, FailInv, CompleteInv
    <3>3. CASE StartBypass(w) \/ StartBlocked(w) \/ Wait(w) \/ AbandonWait(w)
      BY <2>2, <3>3, QuietInv
    <3>4. QED
      BY <2>4, <3>1, <3>2, <3>3
  <2>5. QED
    BY <1>1, <2>1, <2>3, <2>4 DEF Next
<1>2. CASE UNCHANGED vars
  <2>1. /\ clock' = clock /\ entries' = entries /\ waiters' = waiters /\ worker' = worker
    BY <1>2 DEF vars
  <2>2. CircuitTypeOK' /\ \A v \in Workers : SameAttempt(v)
    BY <2>1 DEF CircuitInv, CircuitTypeOK, SameAttempt
  <2>3. CircuitInv'
    BY <2>1, <2>2, QuietStep
  <2>4. WaitersSleepOnProbe'
    BY <2>1 DEF WaitersSleepOnProbe, Waiting, HalfOpen
  <2>5. QED
    BY <2>3, <2>4
<1>3. QED
  BY <1>1, <1>2

LEMMA InitWaiters == Init => WaitersSleepOnProbe
<1> SUFFICES ASSUME Init PROVE WaitersSleepOnProbe
  OBVIOUS
<1>1. Waiting = {}
  BY WorkerValues DEF Init, Waiting
<1>2. Cardinality(Waiting) = 0
  BY <1>1, FS_EmptySet
<1>3. QED
  BY <1>1, <1>2, CircuitAssumption DEF Init, WaitersSleepOnProbe

LEMMA InvAlways == Spec => []FullInv
<1>1. Init => FullInv
  BY InitInv, InitWaiters DEF FullInv
<1>2. FullInv /\ [Next]_vars => FullInv'
  BY NextInv
<1>3. QED
  BY <1>1, <1>2, PTL DEF Spec

-----------------------------------------------------------------------------
(* The state keeps its shape. *)
THEOREM CircuitTyped == Spec => []CircuitTypeOK
<1>1. FullInv => CircuitTypeOK
  BY DEF FullInv, CircuitInv
<1>2. QED
  BY <1>1, InvAlways, PTL

(* Scope::start, resolve and Attempt::drop keep in_flight equal to the     *)
(* live attempts and never evict the entry of one, so that the entry they  *)
(* expect is always there.                                                 *)
THEOREM AttemptsAreCounted == Spec => []AttemptsCounted
<1>1. FullInv => AttemptsCounted
  BY DEF FullInv, CircuitInv, Behind, Counted, AttemptsCounted, Tracked
<1>2. QED
  BY <1>1, InvAlways, PTL

(* Whatever answers arrive late, twice or never, a half-open scope has     *)
(* exactly one attempt that can still decide it.                           *)
THEOREM OneProbeHolds == Spec => []OneProbe
<1>1. FullInv => OneProbe
  BY FS_Singleton DEF FullInv, CircuitInv, Decided, OneProbe
<1>2. QED
  BY <1>1, InvAlways, PTL

(* No end of a probe goes by a sleeping waiter, and the waiters stay       *)
(* within MAX_WAITERS.                                                     *)
THEOREM WaitersAreWoken == Spec => []WaitersSleepOnProbe
<1>1. FullInv => WaitersSleepOnProbe
  BY DEF FullInv
<1>2. QED
  BY <1>1, InvAlways, PTL

-----------------------------------------------------------------------------
(* Scope::start makes room before it inserts, and no other step adds an    *)
(* entry: the domain of the table after a step.                            *)
LEMMA SameDomain ==
    ASSUME NEW w \in Workers,
           \/ StartBypass(w) \/ StartBlocked(w) \/ Wait(w) \/ AbandonWait(w)
           \/ Fail(w) \/ Complete(w) \/ Drop(w)
    PROVE  DOMAIN entries' = DOMAIN entries
<1>1. CASE Fail(w) \/ Complete(w)
  BY <1>1 DEF Fail, Complete, Resolve
<1>2. CASE Drop(w)
  BY <1>2 DEF Drop
<1>3. CASE StartBypass(w) \/ StartBlocked(w) \/ Wait(w) \/ AbandonWait(w)
  BY <1>3 DEF StartBypass, StartBlocked, Wait, AbandonWait
<1>4. QED
  BY <1>1, <1>2, <1>3

BoundedTable == IsFiniteSet(DOMAIN entries) /\ TableBounded

LEMMA StartBounded ==
    ASSUME BoundedTable, NEW w \in Workers, StartTracked(w)
    PROVE  BoundedTable'
<1> DEFINE D == DOMAIN entries
           k == KeyOf[w]
<1>1. PICK keep \in Slots(w) : DOMAIN entries' = keep \cup {k}
  BY DEF StartTracked, WithEntry
<1>2. IsFiniteSet(D) /\ Cardinality(D) \in Nat /\ Cardinality(D) <= MaxScopes
  BY FS_CardinalityType DEF BoundedTable, TableBounded
<1>3. CASE k \in D
  <2>1. keep \cup {k} = D
    BY <1>1, <1>3 DEF Slots, TableFull
  <2>2. QED
    BY <1>1, <1>2, <2>1 DEF BoundedTable, TableBounded
<1>4. CASE k \notin D /\ ~TableFull(w)
  <2>1. keep = D /\ Cardinality(D) < MaxScopes
    BY <1>2, <1>4, CircuitAssumption DEF Slots, TableFull
  <2>2. IsFiniteSet(keep \cup {k}) /\ Cardinality(keep \cup {k}) = Cardinality(D) + 1
    BY <1>2, <1>4, <2>1, FS_AddElement
  <2>3. QED
    BY <1>1, <1>2, <2>1, <2>2, CircuitAssumption DEF BoundedTable, TableBounded
<1>5. CASE TableFull(w)
  <2>1. PICK out \in D : keep = D \ {out}
    BY <1>5 DEF Slots, Oldest, Evictable
  <2>2. /\ IsFiniteSet(keep) /\ Cardinality(keep) = Cardinality(D) - 1
        /\ k \notin keep
    BY <1>2, <1>5, <2>1, FS_RemoveElement DEF TableFull
  <2>3. IsFiniteSet(keep \cup {k}) /\ Cardinality(keep \cup {k}) = Cardinality(keep) + 1
    BY <2>2, FS_AddElement
  <2>4. QED
    BY <1>1, <1>2, <2>2, <2>3 DEF BoundedTable, TableBounded
<1>6. QED
  BY <1>3, <1>4, <1>5

(* However many scopes meet, fail and are evicted, the table stays within  *)
(* MAX_SCOPES.                                                             *)
THEOREM TableStaysBounded == Spec => []TableBounded
<1>1. Init => BoundedTable
  BY FS_EmptySet, CircuitAssumption DEF Init, BoundedTable, TableBounded
<1>2. BoundedTable /\ [Next]_vars => BoundedTable'
  <2> SUFFICES ASSUME BoundedTable, [Next]_vars PROVE BoundedTable'
    OBVIOUS
  <2>1. CASE Tick \/ UNCHANGED vars
    BY <2>1 DEF Tick, vars, BoundedTable, TableBounded
  <2>2. ASSUME NEW w \in Workers,
               \/ StartBypass(w) \/ StartTracked(w) \/ StartBlocked(w)
               \/ Wait(w) \/ AbandonWait(w)
               \/ Fail(w) \/ Complete(w) \/ Drop(w)
        PROVE  BoundedTable'
    <3>1. CASE StartTracked(w)
      BY <3>1, StartBounded
    <3>2. CASE ~StartTracked(w)
      <4>1. DOMAIN entries' = DOMAIN entries
        BY <2>2, <3>2, SameDomain
      <4>2. QED
        BY <4>1 DEF BoundedTable, TableBounded
    <3>3. QED
      BY <3>1, <3>2
  <2>3. QED
    BY <2>1, <2>2 DEF Next
<1>3. BoundedTable => TableBounded
  BY DEF BoundedTable
<1>4. QED
  BY <1>1, <1>2, <1>3, PTL DEF Spec

-----------------------------------------------------------------------------
(* What OpenOnlyProbed says of one scope in one step. *)
StaysOpen(k) ==
    entries[k].gate = "open" =>
        /\ k \in DOMAIN entries'
        /\ \/ entries'[k].gate = "halfopen"
           \/ entries'[k].gate = "open" /\ entries'[k].until = entries[k].until

(* Scope::start probes the open scope it is asked for, leaves the others   *)
(* alone and evicts only closed entries.                                   *)
LEMMA StartStaysOpen ==
    ASSUME CircuitInv, NEW w \in Workers, StartTracked(w), NEW k \in DOMAIN entries
    PROVE  StaysOpen(k)
<1> SUFFICES ASSUME entries[k].gate = "open"
             PROVE  /\ k \in DOMAIN entries'
                    /\ \/ entries'[k].gate = "halfopen"
                       \/ entries'[k].gate = "open" /\ entries'[k].until = entries[k].until
  BY DEF StaysOpen
<1> DEFINE j == KeyOf[w]
           e == StartedEntry(EntryFor(j))
<1>1. PICK keep \in Slots(w) : entries' = WithEntry(keep, j, e)
  BY DEF StartTracked
<1>2. k \in keep
  BY <1>1 DEF Slots, Oldest, Evictable
<1>3. CASE k = j
  <2>1. clock \in Nat /\ entries[k] \in Entry
    BY DEF CircuitInv, CircuitTypeOK
  <2>2. e.gate = "halfopen"
    BY <1>3, <2>1, StartedFacts DEF EntryFor
  <2> HIDE DEF e
  <2>3. QED
    BY <1>1, <1>3, <2>2 DEF WithEntry
<1>4. CASE k # j
  <2> HIDE DEF e
  <2>1. QED
    BY <1>1, <1>2, <1>4 DEF WithEntry
<1>5. QED
  BY <1>3, <1>4

(* Attempt::resolve counts only in the generation of its entry, and an     *)
(* open entry has no attempt of its generation: a late answer is ignored.  *)
LEMMA ResolveStaysOpen ==
    ASSUME CircuitInv, NEW w \in Workers, NEW Outcome(_), Resolve(w, Outcome),
           NEW k \in DOMAIN entries
    PROVE  StaysOpen(k)
<1>1. CASE Counts(w) /\ k = KeyOf[w]
  <2>1. w \in Probes(k)
    BY <1>1 DEF Resolve, Resolvable, Counts, Probes, Tracked
  <2>2. entries[k].gate # "open"
    BY <2>1 DEF CircuitInv, Decided
  <2>3. QED
    BY <2>2 DEF StaysOpen
<1>2. CASE ~(Counts(w) /\ k = KeyOf[w])
  <2>1. k \in DOMAIN entries' /\ entries'[k] = entries[k]
    BY <1>2 DEF Resolve
  <2>2. QED
    BY <2>1 DEF StaysOpen
<1>3. QED
  BY <1>1, <1>2

(* Attempt::drop of whatever attempt leaves an open scope as it is. *)
LEMMA DropStaysOpen ==
    ASSUME CircuitInv, NEW w \in Workers, Drop(w), NEW k \in DOMAIN entries
    PROVE  StaysOpen(k)
<1> SUFFICES ASSUME entries[k].gate = "open"
             PROVE  /\ k \in DOMAIN entries'
                    /\ entries'[k].gate = "open" /\ entries'[k].until = entries[k].until
  BY DEF StaysOpen
<1>1. entries[k] \in Entry
  BY DEF CircuitInv, CircuitTypeOK
<1>2. CASE worker[w].tracked /\ k = KeyOf[w]
  <2> DEFINE unresolved == ~worker[w].resolved /\ Counts(w)
  <2>1. k \in DOMAIN entries' /\ entries'[k] = DroppedEntry(entries[k], unresolved)
    BY <1>2 DEF Drop
  <2> HIDE DEF unresolved
  <2>2. QED
    BY <1>1, <2>1 DEF DroppedEntry, Entry
<1>3. CASE ~(worker[w].tracked /\ k = KeyOf[w])
  <2>1. k \in DOMAIN entries' /\ entries'[k] = entries[k]
    BY <1>3 DEF Drop
  <2>2. QED
    BY <2>1
<1>4. QED
  BY <1>2, <1>3

(* An open scope leaves that state only for half-open: nothing evicts it,  *)
(* and no answer to an attempt made before it opened closes it or moves    *)
(* its delay.                                                              *)
THEOREM OpenIsOnlyProbed == Spec => OpenOnlyProbed
<1>1. ASSUME CircuitInv, [Next]_vars, NEW k \in DOMAIN entries
      PROVE  StaysOpen(k)
  <2>1. CASE entries' = entries
    BY <2>1 DEF StaysOpen
  <2>2. ASSUME NEW w \in Workers, StartTracked(w) PROVE StaysOpen(k)
    BY <1>1, <2>2, StartStaysOpen
  <2>3. ASSUME NEW w \in Workers, Fail(w) PROVE StaysOpen(k)
    <3>1. PICK delay \in FailureDelays : Resolve(w, LAMBDA e : FailedEntry(e, delay))
      BY <2>3 DEF Fail
    <3> DEFINE Outcome(e) == FailedEntry(e, delay)
    <3>2. Resolve(w, Outcome)
      BY <3>1 DEF Resolve
    <3> HIDE DEF Outcome
    <3>3. QED
      BY <1>1, <3>2, ResolveStaysOpen
  <2>4. ASSUME NEW w \in Workers, Complete(w) PROVE StaysOpen(k)
    BY <1>1, <2>4, ResolveStaysOpen DEF Complete
  <2>5. ASSUME NEW w \in Workers, Drop(w) PROVE StaysOpen(k)
    BY <1>1, <2>5, DropStaysOpen
  <2>6. ASSUME NEW w \in Workers,
               StartBypass(w) \/ StartBlocked(w) \/ Wait(w) \/ AbandonWait(w)
        PROVE  entries' = entries
    BY <2>6 DEF StartBypass, StartBlocked, Wait, AbandonWait
  <2>7. Tick \/ UNCHANGED vars => entries' = entries
    BY DEF Tick, vars
  <2>8. QED
    BY <1>1, <2>1, <2>2, <2>3, <2>4, <2>5, <2>6, <2>7 DEF Next
<1>2. FullInv /\ [Next]_vars => [\A k \in DOMAIN entries : StaysOpen(k)]_vars
  BY <1>1 DEF FullInv
<1>3. (\A k \in DOMAIN entries : StaysOpen(k)) =>
         \A k \in DOMAIN entries : entries[k].gate = "open" =>
            /\ k \in DOMAIN entries'
            /\ \/ entries'[k].gate = "halfopen"
               \/ entries'[k].gate = "open" /\ entries'[k].until = entries[k].until
  BY DEF StaysOpen
<1>4. QED
  BY <1>2, <1>3, InvAlways, PTL DEF Spec, OpenOnlyProbed
=============================================================================
