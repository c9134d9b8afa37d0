-------------------------- MODULE ExactCacheProofs --------------------------
(***************************************************************************)
(* Proofs about the exact response cache, for every set of requests and    *)
(* keys, every budget, limit and ttl, and any interleaving of the          *)
(* requests.  A step changes the Pending of one request and at most wakes  *)
(* the others, so the invariant is a property of each Pending together     *)
(* with what ties them to the tables and the counters.                     *)
(***************************************************************************)
EXTENDS ExactCache, SumTheorems, FiniteSetTheorems, TLAPS

Phases ==
    {"new", "missed", "waiting", "elected", "forwarding", "capturing", "replaying", "done"}

PendingType ==
    [phase : Phases, flight : {"unclaimed", "waiting", "owner", "bypass"},
     outcome : {"uncounted", "hit", "miss"}, woken : BOOLEAN,
     replay : SUBSET Requests, inserted : Nat, size : Nat]

UsedKeys == {CacheKey[r] : r \in Requests}

TypeInv ==
    /\ clock \in Nat /\ hits \in Nat /\ misses \in Nat /\ waiters \in Nat
    /\ pending \in [Requests -> PendingType]
    /\ recorded \in [Requests -> Nat]
    /\ flights \subseteq UsedKeys
    /\ entries \in [DOMAIN entries -> Requests] /\ DOMAIN entries \subseteq UsedKeys

(* What the phase of a request says of the rest of its Pending: who waits  *)
(* or owns a flight, what was counted for it, and what it replays.         *)
Sound(p, n) ==
    /\ p.flight = "waiting" <=> p.phase = "waiting"
    /\ p.flight = "owner" => p.phase \in {"elected", "forwarding", "capturing"}
    /\ p.outcome = "uncounted" <=> p.phase = "new"
    /\ p.phase \in {"missed", "waiting", "elected", "forwarding", "capturing"} =>
          p.outcome = "miss"
    /\ p.phase = "replaying" => p.outcome = "hit"
    /\ p.phase # "replaying" => p.replay = {}
    /\ n = 0 \/ (n = 1 /\ p.phase = "done")

SoundAll == \A r \in Requests : Sound(pending[r], recorded[r])

(* What the table or a replay refers to was committed, so its request is   *)
(* done.                                                                   *)
Cached(table, pd) == Stored(table) \cup UNION {pd[r].replay : r \in Requests}

CachedDone == \A r \in Cached(entries, pending) : pending[r].phase = "done"

OneOwner ==
    /\ \A r \in Requests : pending[r].flight = "owner" => CacheKey[r] \in flights
    /\ \A r, s \in Requests :
          /\ pending[r].flight = "owner" /\ pending[s].flight = "owner"
          /\ CacheKey[r] = CacheKey[s]
          => r = s
    /\ \A k \in flights : \E r \in Requests :
          CacheKey[r] = k /\ pending[r].flight = "owner"

CacheInv ==
    /\ TypeInv /\ SoundAll /\ CachedDone /\ OneOwner
    /\ WaitersHaveOwner /\ LookupsCounted /\ BudgetRespected

-----------------------------------------------------------------------------
(* Another request is left alone, or at most woken. *)
Kept(p, q) ==
    /\ q.phase = p.phase /\ q.flight = p.flight /\ q.outcome = p.outcome
    /\ q.replay = p.replay /\ q.inserted = p.inserted /\ q.size = p.size
    /\ p.woken => q.woken

KeptAll(S, pd, qd) == \A s \in S : Kept(pd[s], qd[s])

Awake(S, qd) == \A s \in S : qd[s].phase = "waiting" => qd[s].woken

Bit(b) == IF b THEN 1 ELSE 0

(* A set that one element enters or leaves is counted accordingly. *)
LEMMA CountMoved ==
    ASSUME NEW S, NEW T, IsFiniteSet(S), NEW r, T \ {r} = S \ {r}
    PROVE  /\ IsFiniteSet(T) /\ Cardinality(T) \in Nat /\ Cardinality(S) \in Nat
           /\ Cardinality(T) + Bit(r \in S) = Cardinality(S) + Bit(r \in T)
<1>1. Cardinality(S) \in Nat
  BY FS_CardinalityType
<1>2. CASE r \in S /\ r \in T
  <2>1. S = T
    BY <1>2
  <2>2. QED
    BY <1>1, <2>1
<1>3. CASE r \notin S /\ r \notin T
  <2>1. S = T
    BY <1>3
  <2>2. QED
    BY <1>1, <2>1
<1>4. CASE r \in S /\ r \notin T
  <2>1. T = S \ {r}
    BY <1>4
  <2>2. IsFiniteSet(T) /\ Cardinality(T) = Cardinality(S) - 1
    BY <1>4, <2>1, FS_RemoveElement
  <2>3. Cardinality(T) \in Nat
    BY <2>2, FS_CardinalityType
  <2>4. QED
    BY <1>1, <1>4, <2>2, <2>3 DEF Bit
<1>5. CASE r \notin S /\ r \in T
  <2>1. T = S \cup {r}
    BY <1>5
  <2>2. IsFiniteSet(T) /\ Cardinality(T) = Cardinality(S) + 1
    BY <1>5, <2>1, FS_AddElement
  <2>3. QED
    BY <1>1, <1>5, <2>2 DEF Bit
<1>6. QED
  BY <1>2, <1>3, <1>4, <1>5

(* notify_waiters wakes whoever waits and changes nothing else. *)
LEMMA NotifyKeeps ==
    ASSUME NEW pd \in [Requests -> PendingType]
    PROVE  /\ NotifyWaiters(pd) \in [Requests -> PendingType]
           /\ KeptAll(Requests, pd, NotifyWaiters(pd))
           /\ Awake(Requests, NotifyWaiters(pd))
           /\ \A s \in Requests : pd[s].phase # "waiting" => NotifyWaiters(pd)[s] = pd[s]
<1> DEFINE qd == NotifyWaiters(pd)
<1>1. ASSUME NEW s \in Requests
      PROVE  /\ qd[s] \in PendingType /\ Kept(pd[s], qd[s])
             /\ qd[s].phase = "waiting" => qd[s].woken
             /\ pd[s].phase # "waiting" => qd[s] = pd[s]
  <2>1. pd[s] \in PendingType
    OBVIOUS
  <2>2. qd[s] = IF pd[s].phase = "waiting" THEN [pd[s] EXCEPT !.woken = TRUE] ELSE pd[s]
    BY DEF NotifyWaiters
  <2> HIDE DEF qd
  <2>3. CASE pd[s].phase = "waiting"
    BY <2>1, <2>2, <2>3 DEF PendingType, Kept
  <2>4. CASE pd[s].phase # "waiting"
    BY <2>1, <2>2, <2>4 DEF PendingType, Kept
  <2>5. QED
    BY <2>3, <2>4
<1>2. qd = [s \in Requests |-> qd[s]]
  BY DEF NotifyWaiters
<1> HIDE DEF qd
<1>3. qd \in [Requests -> PendingType]
  BY <1>1, <1>2
<1>4. QED
  BY <1>1, <1>3 DEF KeptAll, Awake, qd

(* Pending::drop ends the part of request r, and an owner wakes the rest. *)
LEMMA DroppedKeeps ==
    ASSUME NEW pd \in [Requests -> PendingType], NEW r \in Requests,
           NEW phase \in Phases \ {"waiting"}
    PROVE  LET qd == Dropped(r, pd, phase)
           IN  /\ qd \in [Requests -> PendingType]
               /\ KeptAll(Requests \ {r}, pd, qd)
               /\ pd[r].flight = "owner" => Awake(Requests, qd)
               /\ qd[r].phase = phase /\ qd[r].flight = "unclaimed"
               /\ qd[r].outcome = pd[r].outcome /\ qd[r].replay = pd[r].replay
               /\ qd[r].inserted = pd[r].inserted /\ qd[r].size = pd[r].size
<1> DEFINE p == [pd[r] EXCEPT !.phase = phase, !.flight = "unclaimed", !.woken = FALSE]
           gone == [pd EXCEPT ![r].phase = phase, ![r].flight = "unclaimed",
                              ![r].woken = FALSE]
           qd == Dropped(r, pd, phase)
<1>1. gone = [pd EXCEPT ![r] = p]
  <2>1. DOMAIN pd = Requests /\ pd[r] \in PendingType
    OBVIOUS
  <2>2. gone[r] = p /\ \A s \in Requests \ {r} : gone[s] = pd[s]
    BY <2>1 DEF PendingType
  <2>3. gone = [s \in Requests |-> gone[s]]
    BY <2>1
  <2> HIDE DEF gone, p
  <2>4. QED
    BY <2>1, <2>2, <2>3
<1>2. p \in PendingType
  <2>1. pd[r] \in PendingType /\ phase \in Phases
    OBVIOUS
  <2>2. QED
    BY <2>1 DEF PendingType
<1>3. /\ p.phase = phase /\ p.flight = "unclaimed"
      /\ p.outcome = pd[r].outcome /\ p.replay = pd[r].replay
      /\ p.inserted = pd[r].inserted /\ p.size = pd[r].size
  BY DEF PendingType
<1>4. qd = IF pd[r].flight = "owner" THEN NotifyWaiters(gone) ELSE gone
  BY DEF Dropped
<1> HIDE DEF p, gone, qd
<1>5. gone \in [Requests -> PendingType]
  BY <1>1, <1>2
<1>6. gone[r] = p /\ \A s \in Requests \ {r} : gone[s] = pd[s]
  BY <1>1
<1>7. KeptAll(Requests \ {r}, pd, gone)
  BY <1>6 DEF KeptAll, Kept
<1>8. CASE pd[r].flight = "owner"
  <2>1. /\ qd \in [Requests -> PendingType] /\ KeptAll(Requests, gone, qd)
        /\ Awake(Requests, qd) /\ qd[r] = gone[r]
    BY <1>3, <1>4, <1>5, <1>6, <1>8, NotifyKeeps
  <2>2. KeptAll(Requests \ {r}, pd, qd)
    BY <1>7, <2>1 DEF KeptAll, Kept
  <2>3. QED
    BY <1>3, <1>6, <2>1, <2>2 DEF qd
<1>9. CASE pd[r].flight # "owner"
  BY <1>3, <1>4, <1>5, <1>6, <1>7, <1>9 DEF qd
<1>10. QED
  BY <1>8, <1>9

-----------------------------------------------------------------------------
(* The parts of the invariant under a step of request r. *)
Moved(r) ==
    /\ pending' \in [Requests -> PendingType]
    /\ KeptAll(Requests \ {r}, pending, pending')

(* The flights: left alone, given up by r with a notification, or claimed. *)
FlightStep(r) ==
    \/ /\ flights' = flights
       /\ pending'[r].flight = "owner" <=> pending[r].flight = "owner"
    \/ /\ pending[r].flight = "owner" /\ pending'[r].flight # "owner"
       /\ flights' = flights \ {CacheKey[r]} /\ Awake(Requests, pending')
    \/ /\ CacheKey[r] \notin flights /\ Cardinality(flights) < MaxEntries
       /\ flights' = flights \cup {CacheKey[r]}
       /\ pending[r].flight # "owner" /\ pending'[r].flight = "owner"

(* A key in use is the key of a request. *)
LEMMA UsedFinite == IsFiniteSet(UsedKeys)
<1> DEFINE f == [r \in Requests |-> CacheKey[r]]
<1>1. f \in Surjection(Requests, UsedKeys)
  BY DEF Surjection, UsedKeys
<1>2. QED
  BY <1>1, FS_Surjection, CacheAssumption

(* Every flight keeps exactly one owner, and the flights their limit. *)
LEMMA OwnerStep ==
    ASSUME CacheInv, NEW r \in Requests, Moved(r), FlightStep(r)
    PROVE  /\ OneOwner' /\ flights' \subseteq UsedKeys
           /\ Cardinality(flights') <= MaxEntries
<1>1. \A s \in Requests \ {r} : pending'[s].flight = pending[s].flight
  BY DEF Moved, KeptAll, Kept
<1>2. OneOwner
  BY DEF CacheInv
<1>3. /\ IsFiniteSet(flights) /\ Cardinality(flights) <= MaxEntries
      /\ flights \subseteq UsedKeys /\ CacheKey[r] \in UsedKeys
      /\ MaxEntries \in Nat
  <2>1. IsFiniteSet(UsedKeys)
    BY UsedFinite
  <2>2. /\ flights \subseteq UsedKeys /\ CacheKey[r] \in UsedKeys
        /\ Cardinality(flights) <= MaxEntries
    BY DEF CacheInv, TypeInv, BudgetRespected, UsedKeys
  <2>3. QED
    BY <2>1, <2>2, FS_Subset, CacheAssumption
<1>4. CASE /\ flights' = flights
           /\ pending'[r].flight = "owner" <=> pending[r].flight = "owner"
  <2>1. \A s \in Requests : pending'[s].flight = "owner" <=> pending[s].flight = "owner"
    BY <1>1, <1>4
  <2>2. QED
    BY <1>2, <1>3, <1>4, <2>1 DEF OneOwner
<1>5. CASE /\ pending[r].flight = "owner" /\ pending'[r].flight # "owner"
           /\ flights' = flights \ {CacheKey[r]}
  <2>1. \A s \in Requests : pending'[s].flight = "owner" <=>
                              pending[s].flight = "owner" /\ s # r
    BY <1>1, <1>5
  <2>2. OneOwner'
    BY <1>2, <1>5, <2>1 DEF OneOwner
  <2>3. Cardinality(flights') <= Cardinality(flights)
    BY <1>3, <1>5, FS_Subset
  <2>4. Cardinality(flights') \in Nat /\ Cardinality(flights) \in Nat
    BY <1>3, <1>5, FS_Subset, FS_CardinalityType
  <2>5. QED
    BY <1>3, <1>5, <2>2, <2>3, <2>4
<1>6. CASE /\ CacheKey[r] \notin flights /\ Cardinality(flights) < MaxEntries
           /\ flights' = flights \cup {CacheKey[r]}
           /\ pending[r].flight # "owner" /\ pending'[r].flight = "owner"
  <2>1. \A s \in Requests : pending'[s].flight = "owner" <=>
                              pending[s].flight = "owner" \/ s = r
    BY <1>1, <1>6
  <2>2. OneOwner'
    BY <1>2, <1>6, <2>1 DEF OneOwner
  <2>3. Cardinality(flights') = Cardinality(flights) + 1
    BY <1>3, <1>6, FS_AddElement
  <2>4. Cardinality(flights) \in Nat
    BY <1>3, FS_CardinalityType
  <2>5. QED
    BY <1>3, <1>6, <2>2, <2>3, <2>4
<1>7. QED
  BY <1>4, <1>5, <1>6 DEF FlightStep

Waiting(pd) == {r \in Requests : pd[r].phase = "waiting"}
Hits(pd) == {r \in Requests : pd[r].outcome = "hit"}
Misses(pd) == {r \in Requests : pd[r].outcome = "miss"}

(* State.waiters, hits and misses follow what r enters and leaves. *)
Counted(r) ==
    /\ waiters' \in Nat /\ hits' \in Nat /\ misses' \in Nat
    /\ waiters' + Bit(r \in Waiting(pending)) = waiters + Bit(r \in Waiting(pending'))
    /\ hits' + Bit(r \in Hits(pending)) = hits + Bit(r \in Hits(pending'))
    /\ misses' + Bit(r \in Misses(pending)) = misses + Bit(r \in Misses(pending'))

(* The counters equal what they count after the step. *)
LEMMA CountStep ==
    ASSUME CacheInv, NEW r \in Requests, Moved(r), Counted(r)
    PROVE  /\ waiters' = Cardinality(Waiting(pending'))
           /\ hits' = Cardinality(Hits(pending'))
           /\ misses' = Cardinality(Misses(pending'))
<1> DEFINE w == Waiting(pending)    w1 == Waiting(pending')
           h == Hits(pending)       h1 == Hits(pending')
           m == Misses(pending)     m1 == Misses(pending')
<1>1. w1 \ {r} = w \ {r} /\ h1 \ {r} = h \ {r} /\ m1 \ {r} = m \ {r}
  BY DEF Moved, KeptAll, Kept, Waiting, Hits, Misses
<1>2. w \subseteq Requests /\ h \subseteq Requests /\ m \subseteq Requests
  BY DEF Waiting, Hits, Misses
<1>3. IsFiniteSet(w) /\ IsFiniteSet(h) /\ IsFiniteSet(m)
  <2> HIDE DEF w, h, m
  <2>1. QED
    BY <1>2, FS_Subset, CacheAssumption
<1>4. waiters = Cardinality(w) /\ hits = Cardinality(h) /\ misses = Cardinality(m)
  BY DEF CacheInv, WaitersHaveOwner, LookupsCounted, Waiting, Hits, Misses
<1>5. /\ waiters' + Bit(r \in w) = waiters + Bit(r \in w1)
      /\ hits' + Bit(r \in h) = hits + Bit(r \in h1)
      /\ misses' + Bit(r \in m) = misses + Bit(r \in m1)
      /\ waiters' \in Nat /\ hits' \in Nat /\ misses' \in Nat
  BY DEF Counted
<1> HIDE DEF w, h, m, w1, h1, m1
<1>6. waiters' = Cardinality(w1)
  <2>1. /\ Cardinality(w1) \in Nat /\ Cardinality(w) \in Nat
        /\ Cardinality(w1) + Bit(r \in w) = Cardinality(w) + Bit(r \in w1)
    BY <1>1, <1>3, CountMoved
  <2>2. QED
    BY <1>4, <1>5, <2>1 DEF Bit
<1>7. hits' = Cardinality(h1)
  <2>1. /\ Cardinality(h1) \in Nat /\ Cardinality(h) \in Nat
        /\ Cardinality(h1) + Bit(r \in h) = Cardinality(h) + Bit(r \in h1)
    BY <1>1, <1>3, CountMoved
  <2>2. QED
    BY <1>4, <1>5, <2>1 DEF Bit
<1>8. misses' = Cardinality(m1)
  <2>1. /\ Cardinality(m1) \in Nat /\ Cardinality(m) \in Nat
        /\ Cardinality(m1) + Bit(r \in m) = Cardinality(m) + Bit(r \in m1)
    BY <1>1, <1>3, CountMoved
  <2>2. QED
    BY <1>4, <1>5, <2>1 DEF Bit
<1>9. QED
  BY <1>6, <1>7, <1>8 DEF w1, h1, m1

(* Whoever waits without a notification still waits for an owner. *)
LEMMA WaiterStep ==
    ASSUME CacheInv, NEW r \in Requests, Moved(r), FlightStep(r),
           pending'[r].phase = "waiting" /\ ~pending'[r].woken => CacheKey[r] \in flights'
    PROVE  \A s \in Requests :
              pending'[s].phase = "waiting" /\ ~pending'[s].woken => CacheKey[s] \in flights'
<1> SUFFICES ASSUME NEW s \in Requests \ {r}, pending'[s].phase = "waiting",
                    ~pending'[s].woken
             PROVE  CacheKey[s] \in flights'
  OBVIOUS
<1>1. CacheKey[s] \in flights
  BY DEF CacheInv, WaitersHaveOwner, Moved, KeptAll, Kept
<1>2. flights \subseteq flights'
  BY DEF FlightStep, Awake
<1>3. QED
  BY <1>1, <1>2

(* A step that satisfies the conditions of every part keeps the invariant. *)
Tables ==
    /\ entries' \in [DOMAIN entries' -> Requests] /\ DOMAIN entries' \subseteq UsedKeys
    /\ Cardinality(DOMAIN entries') <= MaxEntries
    /\ Used(entries', pending') <= BudgetBytes
    /\ \A s \in Cached(entries', pending') : pending'[s].phase = "done"

(* The parts together. *)
LEMMA StepInv ==
    ASSUME CacheInv, NEW r \in Requests, Moved(r), FlightStep(r), Counted(r), Tables,
           clock' = clock, recorded' \in [Requests -> Nat],
           \A s \in Requests \ {r} : recorded'[s] = recorded[s],
           Sound(pending'[r], recorded'[r]),
           pending'[r].phase = "waiting" /\ ~pending'[r].woken => CacheKey[r] \in flights'
    PROVE  CacheInv'
<1>1. /\ OneOwner' /\ flights' \subseteq UsedKeys
      /\ Cardinality(flights') <= MaxEntries
  BY OwnerStep
<1>2. TypeInv'
  BY <1>1 DEF CacheInv, TypeInv, Moved, Counted, Tables
<1>3. SoundAll'
  <2>1. ASSUME NEW s \in Requests \ {r} PROVE Sound(pending'[s], recorded'[s])
    <3>1. Sound(pending[s], recorded[s]) /\ Kept(pending[s], pending'[s])
      BY DEF CacheInv, SoundAll, Moved, KeptAll
    <3>2. recorded'[s] = recorded[s]
      OBVIOUS
    <3>3. QED
      BY <3>1, <3>2 DEF Sound, Kept
  <2>2. QED
    BY <2>1 DEF SoundAll
<1>4. WaitersHaveOwner'
  BY WaiterStep, CountStep DEF WaitersHaveOwner, Waiting
<1>5. LookupsCounted'
  <2>1. \A s \in Requests : pending'[s].phase = "replaying" => pending'[s].outcome = "hit"
    BY <1>3 DEF SoundAll, Sound
  <2>2. QED
    BY <2>1, CountStep DEF LookupsCounted, Hits, Misses
<1>6. CachedDone' /\ BudgetRespected'
  BY <1>1 DEF Tables, CachedDone, BudgetRespected
<1>7. QED
  BY <1>1, <1>2, <1>3, <1>4, <1>5, <1>6 DEF CacheInv

-----------------------------------------------------------------------------
(* The budget.  Used is a sum over what is cached plus the captures. *)
SizeOf(pd) == [r \in Requests |-> pd[r].size]

Capturing(pd) == {r \in Requests : pd[r].phase = "capturing"}

(* What the semaphore handed out, as a sum over requests. *)
LEMMA UsedSum ==
    ASSUME NEW t, NEW pd \in [Requests -> PendingType], Cached(t, pd) \subseteq Requests
    PROVE  /\ Used(t, pd) = Sum(SizeOf(pd), Cached(t, pd))
                              + EntryBytes * Cardinality(Capturing(pd))
           /\ Sum(SizeOf(pd), Cached(t, pd)) \in Nat
           /\ IsFiniteSet(Cached(t, pd)) /\ Cardinality(Capturing(pd)) \in Nat
<1> DEFINE S == Cached(t, pd)
           f == SizeOf(pd)
           h == CHOOSE iter : iter = [s \in SUBSET S |->
                   IF s = {} THEN 0
                   ELSE pd[CHOOSE i \in s : TRUE].size
                          + iter[s \ {CHOOSE i \in s : TRUE}]]
<1>1. IsFiniteSet(S)
  BY FS_Subset, CacheAssumption
<1>2. MapThenSumSet(LAMBDA r : pd[r].size, S) = h[S]
  BY Zenon DEF MapThenSumSet, MapThenFoldSet
<1>3. \A s \in SUBSET S : s # {} => f[First(s)] = pd[First(s)].size
  BY FirstIn DEF SizeOf
<1>4. PICK g : Solves(g, f, S)
  BY <1>1, SolutionExists
<1>5. \A r \in S : f[r] \in Nat
  BY DEF SizeOf, PendingType
<1> HIDE DEF f, S
<1>6. g = [s \in SUBSET S |->
             IF s = {} THEN 0 ELSE pd[First(s)].size + g[s \ {First(s)}]]
  BY <1>3, <1>4, Zenon DEF Solves
<1>7. h = [s \in SUBSET S |->
             IF s = {} THEN 0 ELSE pd[First(s)].size + h[s \ {First(s)}]]
  BY Zenon, <1>6 DEF First
<1> HIDE DEF h
<1>8. Solves(h, f, S)
  BY <1>3, <1>7, Zenon DEF Solves
<1>9. MapThenSumSet(LAMBDA r : pd[r].size, S) = Sum(f, S)
  BY <1>1, <1>2, <1>8, SumSolves
<1>10. Sum(f, S) \in Nat
  BY <1>1, <1>5, SumNat
<1>11. Used(t, pd) = MapThenSumSet(LAMBDA r : pd[r].size, S)
                       + EntryBytes * Cardinality(Capturing(pd))
  BY Zenon DEF Used, S, Cached, Capturing
<1>12. Capturing(pd) \subseteq Requests
  BY DEF Capturing
<1>13. Cardinality(Capturing(pd)) \in Nat
  BY <1>12, FS_Subset, FS_CardinalityType, CacheAssumption
<1>14. QED
  BY <1>1, <1>9, <1>10, <1>11, <1>13 DEF f, S

(* Multiplication by EntryBytes. *)
LEMMA Times ==
    ASSUME NEW m \in Nat, NEW n \in Nat, m <= n
    PROVE  /\ EntryBytes * m \in Nat /\ EntryBytes * n \in Nat
           /\ EntryBytes * m <= EntryBytes * n
           /\ EntryBytes * (m + 1) = EntryBytes * m + EntryBytes
  BY CacheAssumption

(* The permits in use are a number. *)
LEMMA UsedNat ==
    ASSUME NEW t, NEW pd \in [Requests -> PendingType], Cached(t, pd) \subseteq Requests
    PROVE  Used(t, pd) \in Nat
<1> DEFINE m == Cardinality(Capturing(pd))
           n == Sum(SizeOf(pd), Cached(t, pd))
<1>1. Used(t, pd) = n + EntryBytes * m /\ n \in Nat /\ m \in Nat
  BY UsedSum
<1> HIDE DEF m, n
<1>2. EntryBytes * m \in Nat
  BY <1>1, Times
<1>3. QED
  BY <1>1, <1>2

(* Referring to less, and capturing less, uses less. *)
LEMMA UsedLess ==
    ASSUME NEW t, NEW pd \in [Requests -> PendingType],
           NEW u, NEW qd \in [Requests -> PendingType],
           Cached(t, pd) \subseteq Requests, Cached(u, qd) \subseteq Cached(t, pd),
           \A s \in Cached(u, qd) : qd[s].size = pd[s].size,
           Capturing(qd) \subseteq Capturing(pd)
    PROVE  Used(u, qd) <= Used(t, pd) /\ Used(u, qd) \in Nat /\ Used(t, pd) \in Nat
<1> DEFINE S == Cached(t, pd)
           T == Cached(u, qd)
           f == SizeOf(pd)
           g == SizeOf(qd)
           m == Cardinality(Capturing(qd))
           n == Cardinality(Capturing(pd))
<1>1. /\ Used(t, pd) = Sum(f, S) + EntryBytes * n
      /\ Sum(f, S) \in Nat /\ n \in Nat /\ IsFiniteSet(S)
  BY UsedSum
<1>2. /\ Used(u, qd) = Sum(g, T) + EntryBytes * m
      /\ Sum(g, T) \in Nat /\ m \in Nat /\ IsFiniteSet(T)
  BY UsedSum
<1>3. m <= n
  <2>1. IsFiniteSet(Capturing(pd))
    BY FS_Subset, CacheAssumption DEF Capturing
  <2>2. QED
    BY <2>1, FS_Subset
<1>4. \A i \in S : f[i] \in Nat
  BY DEF SizeOf, PendingType
<1>5. \A i \in T : g[i] = f[i]
  BY DEF SizeOf
<1>6. Sum(f, T) <= Sum(f, S)
  <2>1. T \in SUBSET S
    OBVIOUS
  <2> HIDE DEF f, S, T
  <2>2. QED
    BY <1>1, <1>4, <2>1, SumSubset
<1>7. Sum(g, T) = Sum(f, T)
  <2> HIDE DEF f, g, T
  <2>1. QED
    BY <1>2, <1>5, SumSame
<1> HIDE DEF f, g, S, T, m, n
<1>8. /\ EntryBytes * m \in Nat /\ EntryBytes * n \in Nat
      /\ EntryBytes * m <= EntryBytes * n
  BY <1>1, <1>2, <1>3, Times
<1>9. QED
  BY <1>1, <1>2, <1>6, <1>7, <1>8

(* Reserving a whole entry for a capture. *)
LEMMA UsedCapture ==
    ASSUME NEW t, NEW pd \in [Requests -> PendingType],
           NEW qd \in [Requests -> PendingType], NEW r \in Requests,
           Cached(t, pd) \subseteq Requests, Cached(t, qd) = Cached(t, pd),
           \A s \in Requests : qd[s].size = pd[s].size,
           r \notin Capturing(pd), Capturing(qd) = Capturing(pd) \cup {r}
    PROVE  Used(t, qd) = Used(t, pd) + EntryBytes
<1> DEFINE S == Cached(t, pd)
           f == SizeOf(pd)
           g == SizeOf(qd)
           m == Cardinality(Capturing(qd))
           n == Cardinality(Capturing(pd))
<1>1. /\ Used(t, pd) = Sum(f, S) + EntryBytes * n
      /\ Sum(f, S) \in Nat /\ n \in Nat /\ IsFiniteSet(S)
  BY UsedSum
<1>2. Used(t, qd) = Sum(g, S) + EntryBytes * m
  BY UsedSum
<1>3. m = n + 1
  <2>1. IsFiniteSet(Capturing(pd))
    BY FS_Subset, CacheAssumption DEF Capturing
  <2>2. QED
    BY <2>1, FS_AddElement
<1>4. f = g
  BY DEF SizeOf
<1> HIDE DEF f, g, S, m, n
<1>5. EntryBytes * m = EntryBytes * n + EntryBytes /\ EntryBytes * n \in Nat
  BY <1>1, <1>3, Times
<1>6. QED
  BY <1>1, <1>2, <1>4, <1>5, CacheAssumption

(* Committing trades the reservation of a whole entry for its size. *)
LEMMA UsedCommit ==
    ASSUME NEW t, NEW pd \in [Requests -> PendingType],
           NEW u, NEW qd \in [Requests -> PendingType], NEW r \in Requests,
           Cached(t, pd) \subseteq Requests, r \notin Cached(t, pd),
           Cached(u, qd) \subseteq Cached(t, pd) \cup {r},
           \A s \in Requests \ {r} : qd[s].size = pd[s].size,
           qd[r].size <= EntryBytes,
           r \in Capturing(pd), Capturing(qd) = Capturing(pd) \ {r}
    PROVE  Used(u, qd) <= Used(t, pd)
<1> DEFINE S == Cached(t, pd)
           T == Cached(u, qd)
           f == SizeOf(pd)
           g == SizeOf(qd)
           m == Cardinality(Capturing(qd))
           n == Cardinality(Capturing(pd))
<1>1. /\ Used(t, pd) = Sum(f, S) + EntryBytes * n
      /\ Sum(f, S) \in Nat /\ n \in Nat /\ IsFiniteSet(S)
  BY UsedSum
<1>2. /\ Used(u, qd) = Sum(g, T) + EntryBytes * m
      /\ Sum(g, T) \in Nat /\ m \in Nat /\ IsFiniteSet(T)
  BY UsedSum
<1>3. n = m + 1
  <2>1. IsFiniteSet(Capturing(pd))
    BY FS_Subset, CacheAssumption DEF Capturing
  <2>2. m = n - 1
    BY <2>1, FS_RemoveElement
  <2>3. QED
    BY <1>1, <2>2
<1>4. \A i \in S \cup {r} : g[i] \in Nat
  BY DEF SizeOf, PendingType
<1>5. \A i \in S : g[i] = f[i]
  BY DEF SizeOf
<1>6. g[r] <= EntryBytes
  BY DEF SizeOf
<1>7. T \in SUBSET (S \cup {r}) /\ r \notin S
  OBVIOUS
<1> HIDE DEF f, g, S, T, m, n
<1>8. IsFiniteSet(S \cup {r})
  BY <1>1, FS_AddElement
<1>9. Sum(g, T) <= Sum(g, S \cup {r})
  BY <1>4, <1>7, <1>8, SumSubset
<1>10. Sum(g, S \cup {r}) = g[r] + Sum(g, S)
  BY <1>1, <1>4, <1>7, SumAdd
<1>11. Sum(g, S) = Sum(f, S)
  BY <1>1, <1>5, SumSame
<1>12. EntryBytes * n = EntryBytes * m + EntryBytes /\ EntryBytes * m \in Nat
  BY <1>2, <1>3, Times
<1>13. g[r] \in Nat
  BY <1>4
<1> DEFINE a == EntryBytes * m
           b == EntryBytes * n
<1>14. /\ Used(t, pd) = Sum(f, S) + b /\ Used(u, qd) = Sum(g, T) + a
       /\ b = a + EntryBytes /\ a \in Nat /\ EntryBytes \in Nat
  BY <1>1, <1>2, <1>12, CacheAssumption
<1> HIDE DEF a, b
<1>15. QED
  BY <1>1, <1>2, <1>6, <1>9, <1>10, <1>11, <1>13, <1>14

-----------------------------------------------------------------------------
(* What is cached belongs to requests, and a smaller table refers to less. *)
LEMMA CachedRequests ==
    ASSUME CacheInv
    PROVE  /\ Cached(entries, pending) \subseteq Requests
           /\ Used(entries, pending) \in Nat /\ Used(entries, pending) <= BudgetBytes
           /\ BudgetBytes \in Nat /\ MaxEntries \in Nat /\ EntryBytes \in Nat
           /\ IsFiniteSet(DOMAIN entries) /\ pending \in [Requests -> PendingType]
<1>1. pending \in [Requests -> PendingType] /\ entries \in [DOMAIN entries -> Requests]
  BY DEF CacheInv, TypeInv
<1>2. \A r \in Requests : pending[r].replay \subseteq Requests
  BY <1>1 DEF PendingType
<1>3. Cached(entries, pending) \subseteq Requests
  BY <1>1, <1>2 DEF Cached, Stored
<1>4. Used(entries, pending) \in Nat
  BY <1>1, <1>3, UsedNat
<1>5. IsFiniteSet(DOMAIN entries)
  BY UsedFinite, FS_Subset DEF CacheInv, TypeInv
<1>6. QED
  BY <1>1, <1>3, <1>4, <1>5, CacheAssumption DEF CacheInv, BudgetRespected

(* Keeping some of the keys keeps the table's type and size. *)
LEMMA KeepingTable ==
    ASSUME CacheInv, NEW K \in SUBSET DOMAIN entries
    PROVE  LET t == Keeping(entries, K)
           IN  /\ DOMAIN t = K /\ t \in [K -> Requests] /\ K \subseteq UsedKeys
               /\ Cardinality(K) <= MaxEntries
               /\ Stored(t) \subseteq Stored(entries)
<1>1. Keeping(entries, K) = [k \in K |-> entries[k]]
  BY DEF Keeping
<1>2. entries \in [DOMAIN entries -> Requests] /\ DOMAIN entries \subseteq UsedKeys
  BY DEF CacheInv, TypeInv
<1>3. Cardinality(DOMAIN entries) <= MaxEntries
  BY DEF CacheInv, BudgetRespected
<1>4. Cardinality(K) <= Cardinality(DOMAIN entries) /\ IsFiniteSet(K)
  BY CachedRequests, FS_Subset
<1>5. Cardinality(K) \in Nat /\ Cardinality(DOMAIN entries) \in Nat
  BY <1>4, CachedRequests, FS_CardinalityType
<1>6. QED
  BY <1>1, <1>2, <1>3, <1>4, <1>5, CachedRequests DEF Stored

(* The tables under a step of r that adds nothing to them. *)
LEMMA TablesLess ==
    ASSUME CacheInv, NEW r \in Requests, Moved(r), pending[r].phase # "done",
           NEW K \in SUBSET DOMAIN entries, entries' = Keeping(entries, K),
           pending'[r].size = pending[r].size,
           pending'[r].phase = "capturing" => pending[r].phase = "capturing",
           pending'[r].replay \subseteq Stored(entries) \cup pending[r].replay
    PROVE  Tables
<1>1. /\ DOMAIN entries' = K /\ entries' \in [K -> Requests] /\ K \subseteq UsedKeys
      /\ Cardinality(K) <= MaxEntries /\ Stored(entries') \subseteq Stored(entries)
  BY KeepingTable
<1>2. pending \in [Requests -> PendingType] /\ pending' \in [Requests -> PendingType]
  BY CachedRequests DEF Moved
<1>3. \A s \in Requests \ {r} : Kept(pending[s], pending'[s])
  BY DEF Moved, KeptAll
<1>4. Cached(entries', pending') \subseteq Cached(entries, pending)
  <2>1. ASSUME NEW s \in Requests
        PROVE  pending'[s].replay \subseteq Cached(entries, pending)
    <3>1. CASE s = r
      BY <3>1 DEF Cached
    <3>2. CASE s # r
      BY <1>3, <3>2 DEF Kept, Cached
    <3>3. QED
      BY <3>1, <3>2
  <2>2. QED
    BY <1>1, <2>1 DEF Cached
<1>5. \A s \in Requests : pending'[s].size = pending[s].size
  BY <1>3 DEF Kept
<1>6. Capturing(pending') \subseteq Capturing(pending)
  BY <1>3 DEF Kept, Capturing
<1>7. Cached(entries, pending) \subseteq Requests
  BY CachedRequests
<1>8. /\ Used(entries', pending') <= Used(entries, pending)
      /\ Used(entries', pending') \in Nat
  BY <1>2, <1>4, <1>5, <1>6, <1>7, UsedLess
<1>9. Used(entries', pending') <= BudgetBytes
  BY <1>8, CachedRequests
<1>10. ASSUME NEW s \in Cached(entries', pending') PROVE pending'[s].phase = "done"
  <2>1. s \in Requests /\ pending[s].phase = "done"
    BY <1>4, <1>7 DEF CacheInv, CachedDone
  <2>2. QED
    BY <1>3, <2>1 DEF Kept
<1>11. QED
  BY <1>1, <1>9, <1>10 DEF Tables

(* A table left alone keeps all of its keys. *)
LEMMA KeepingAll == CacheInv => entries = Keeping(entries, DOMAIN entries)
<1> SUFFICES ASSUME CacheInv PROVE entries = Keeping(entries, DOMAIN entries)
  OBVIOUS
<1>1. entries \in [DOMAIN entries -> Requests]
  BY DEF CacheInv, TypeInv
<1>2. QED
  BY <1>1 DEF Keeping

(* What Fresh keeps was in the table. *)
LEMMA FreshKept == Fresh \in SUBSET DOMAIN entries
  BY DEF Fresh

(* A step that touches no other request. *)
LEMMA OnlyMoved ==
    ASSUME CacheInv, NEW r \in Requests, pending' = [s \in Requests |-> pending'[s]],
           pending'[r] \in PendingType, \A s \in Requests \ {r} : pending'[s] = pending[s]
    PROVE  Moved(r)
<1>1. pending \in [Requests -> PendingType]
  BY CachedRequests
<1>2. \A s \in Requests : pending'[s] \in PendingType
  BY <1>1
<1>3. pending' \in [Requests -> PendingType]
  BY <1>2
<1>4. QED
  BY <1>3 DEF Moved, KeptAll, Kept

(* What the invariant says of one request. *)
LEMMA RequestFields ==
    ASSUME CacheInv, NEW r \in Requests
    PROVE  /\ pending[r] \in PendingType /\ DOMAIN pending = Requests
           /\ Sound(pending[r], recorded[r]) /\ recorded[r] \in Nat
           /\ recorded \in [Requests -> Nat]
           /\ waiters \in Nat /\ hits \in Nat /\ misses \in Nat
           /\ pending[r].phase = "waiting" => waiters > 0
           /\ pending[r].outcome = "miss" => misses > 0
<1>1. /\ pending[r] \in PendingType /\ DOMAIN pending = Requests
      /\ Sound(pending[r], recorded[r]) /\ recorded[r] \in Nat
      /\ recorded \in [Requests -> Nat]
      /\ waiters \in Nat /\ hits \in Nat /\ misses \in Nat
  BY DEF CacheInv, TypeInv, SoundAll
<1>2. /\ waiters = Cardinality(Waiting(pending))
      /\ misses = Cardinality(Misses(pending))
  BY DEF CacheInv, WaitersHaveOwner, LookupsCounted, Waiting, Misses
<1>3. IsFiniteSet(Waiting(pending)) /\ IsFiniteSet(Misses(pending))
  BY FS_Subset, CacheAssumption DEF Waiting, Misses
<1>4. pending[r].phase = "waiting" => waiters > 0
  <2>1. pending[r].phase = "waiting" => Waiting(pending) # {}
    BY DEF Waiting
  <2>2. QED
    BY <1>1, <1>2, <1>3, <2>1, FS_EmptySet
<1>5. pending[r].outcome = "miss" => misses > 0
  <2>1. pending[r].outcome = "miss" => Misses(pending) # {}
    BY DEF Misses
  <2>2. QED
    BY <1>1, <1>2, <1>3, <2>1, FS_EmptySet
<1>6. QED
  BY <1>1, <1>4, <1>5

(* The flight and the waiters when a Pending is dropped. *)
LEMMA DropStep ==
    ASSUME CacheInv, NEW r \in Requests, DropFlight(r),
           pending'[r].flight = "unclaimed", pending'[r].phase # "waiting",
           pending[r].flight = "owner" => Awake(Requests, pending')
    PROVE  /\ FlightStep(r) /\ waiters' \in Nat
           /\ waiters' + Bit(r \in Waiting(pending)) = waiters + Bit(r \in Waiting(pending'))
<1>1. FlightStep(r)
  BY DEF DropFlight, FlightStep
<1>2. /\ waiters \in Nat
      /\ pending[r].phase = "waiting" => waiters > 0
      /\ pending[r].flight = "waiting" <=> pending[r].phase = "waiting"
  BY RequestFields DEF Sound
<1>3. /\ r \in Waiting(pending) <=> pending[r].phase = "waiting"
      /\ r \notin Waiting(pending')
  BY DEF Waiting
<1>4. waiters' = IF pending[r].flight = "waiting" THEN waiters - 1 ELSE waiters
  BY DEF DropFlight
<1>5. QED
  BY <1>1, <1>2, <1>3, <1>4 DEF Bit

-----------------------------------------------------------------------------
(* Finish: the request is done, and what it held is released. *)
LEMMA FinishStep ==
    ASSUME CacheInv, NEW r \in Requests, Finish(r),
           pending[r].phase \in {"missed", "waiting", "elected", "forwarding", "capturing"},
           NEW K \in SUBSET DOMAIN entries, entries' = Keeping(entries, K),
           recorded' = recorded \/ recorded' = [recorded EXCEPT ![r] = @ + 1]
    PROVE  CacheInv' /\ Moved(r) /\ pending'[r].phase = "done"
<1>1. /\ pending \in [Requests -> PendingType] /\ pending[r] \in PendingType
      /\ Sound(pending[r], recorded[r]) /\ recorded \in [Requests -> Nat]
      /\ hits \in Nat /\ misses \in Nat
  BY RequestFields, CachedRequests
<1>2. pending' = Dropped(r, pending, "done") /\ DropFlight(r)
      /\ clock' = clock /\ hits' = hits /\ misses' = misses
  BY DEF Finish
<1>3. /\ pending' \in [Requests -> PendingType]
      /\ KeptAll(Requests \ {r}, pending, pending')
      /\ pending[r].flight = "owner" => Awake(Requests, pending')
      /\ pending'[r].phase = "done" /\ pending'[r].flight = "unclaimed"
      /\ pending'[r].outcome = pending[r].outcome
      /\ pending'[r].replay = pending[r].replay
      /\ pending'[r].size = pending[r].size
  <2>1. "done" \in Phases \ {"waiting"}
    BY DEF Phases
  <2>2. QED
    BY <1>1, <1>2, <2>1, DroppedKeeps
<1>4. Moved(r)
  BY <1>3 DEF Moved
<1>5. /\ FlightStep(r) /\ waiters' \in Nat
      /\ waiters' + Bit(r \in Waiting(pending)) = waiters + Bit(r \in Waiting(pending'))
  BY <1>2, <1>3, DropStep
<1>6. Counted(r)
  BY <1>1, <1>2, <1>3, <1>5 DEF Counted, Hits, Misses
<1>7. recorded[r] = 0 /\ pending[r].outcome = "miss" /\ pending[r].replay = {}
  BY <1>1 DEF Sound
<1>8. /\ recorded' \in [Requests -> Nat] /\ recorded'[r] \in {0, 1}
      /\ \A s \in Requests \ {r} : recorded'[s] = recorded[s]
  BY <1>1, <1>7
<1>9. Sound(pending'[r], recorded'[r])
  BY <1>3, <1>7, <1>8 DEF Sound
<1>10. Tables
  BY <1>3, <1>4, <1>7, TablesLess
<1>11. QED
  BY <1>2, <1>3, <1>4, <1>5, <1>6, <1>8, <1>9, <1>10, StepInv

(* A hit takes the miss of an earlier lookup back. *)
LEMMA TakeHitStep ==
    ASSUME CacheInv, NEW r \in Requests, TakeHit(r),
           pending[r].phase \in {"new", "missed", "waiting", "elected"}
    PROVE  CacheInv' /\ Moved(r)
<1> DEFINE k == CacheKey[r]
           pd == Replaying(r)
           p == [pending[r] EXCEPT !.outcome = "hit", !.replay = {entries[k]}]
<1>1. /\ pending \in [Requests -> PendingType] /\ pending[r] \in PendingType
      /\ Sound(pending[r], recorded[r]) /\ recorded \in [Requests -> Nat]
      /\ hits \in Nat /\ misses \in Nat
      /\ pending[r].outcome = "miss" => misses > 0
  BY RequestFields, CachedRequests
<1>2. /\ k \in Fresh /\ CountHit(r) /\ entries' = Keeping(entries, Fresh)
      /\ pending' = Dropped(r, pd, "replaying") /\ DropFlight(r)
      /\ clock' = clock /\ recorded' = recorded
  BY DEF TakeHit, Hit
<1>3. entries[k] \in Requests /\ entries[k] \in Stored(entries)
  BY <1>2, FreshKept DEF CacheInv, TypeInv, Stored
<1>4. pd \in [Requests -> PendingType] /\ pd[r] = p
      /\ \A s \in Requests \ {r} : pd[s] = pending[s]
  <2>1. p \in PendingType
    BY <1>1, <1>3 DEF PendingType
  <2>2. pd[r] = p /\ \A s \in Requests \ {r} : pd[s] = pending[s]
    BY <1>1 DEF Replaying, PendingType
  <2>3. pd = [s \in Requests |-> pd[s]]
    BY <1>1 DEF Replaying
  <2> HIDE DEF pd, p
  <2>4. QED
    BY <1>1, <2>1, <2>2, <2>3
<1>5. /\ p.phase = pending[r].phase /\ p.flight = pending[r].flight
      /\ p.outcome = "hit" /\ p.replay = {entries[k]} /\ p.size = pending[r].size
  BY <1>1 DEF PendingType
<1> HIDE DEF pd, p
<1>6. /\ pending' \in [Requests -> PendingType]
      /\ KeptAll(Requests \ {r}, pd, pending')
      /\ pending[r].flight = "owner" => Awake(Requests, pending')
      /\ pending'[r].phase = "replaying" /\ pending'[r].flight = "unclaimed"
      /\ pending'[r].outcome = "hit" /\ pending'[r].replay = {entries[k]}
      /\ pending'[r].size = pending[r].size
  <2>1. "replaying" \in Phases \ {"waiting"}
    BY DEF Phases
  <2>2. QED
    BY <1>2, <1>4, <1>5, <2>1, DroppedKeeps
<1>7. Moved(r)
  BY <1>4, <1>6 DEF Moved, KeptAll
<1>8. /\ FlightStep(r) /\ waiters' \in Nat
      /\ waiters' + Bit(r \in Waiting(pending)) = waiters + Bit(r \in Waiting(pending'))
  BY <1>2, <1>6, DropStep
<1>9. pending[r].outcome \in {"uncounted", "miss"} /\ recorded[r] = 0
  BY <1>1 DEF Sound, PendingType
<1>10. Counted(r)
  <2>1. /\ r \notin Hits(pending) /\ r \in Hits(pending')
        /\ r \in Misses(pending) <=> pending[r].outcome = "miss"
        /\ r \notin Misses(pending')
    BY <1>6, <1>9 DEF Hits, Misses
  <2>2. /\ hits' = hits + 1
        /\ misses' = IF pending[r].outcome = "miss" THEN misses - 1 ELSE misses
    BY <1>2, <1>9 DEF CountHit
  <2>3. QED
    BY <1>1, <1>8, <2>1, <2>2 DEF Counted, Bit
<1>11. Sound(pending'[r], recorded'[r])
  BY <1>2, <1>6, <1>9 DEF Sound
<1>12. Tables
  <2>1. pending'[r].replay \subseteq Stored(entries) \cup pending[r].replay
    BY <1>3, <1>6
  <2>2. pending'[r].phase # "capturing"
    BY <1>6
  <2>3. QED
    BY <1>2, <1>6, <1>7, <2>1, <2>2, FreshKept, TablesLess
<1>13. QED
  BY <1>1, <1>2, <1>6, <1>7, <1>8, <1>10, <1>11, <1>12, StepInv

(* A miss prunes the table and moves request r alone: shared by the first  *)
(* lookup, the turns of wait_for_turn and the lookup after admission.      *)
LEMMA MissStep ==
    ASSUME CacheInv, NEW r \in Requests, NEW p \in PendingType,
           pending' = [pending EXCEPT ![r] = p], entries' = Keeping(entries, Fresh),
           pending[r].phase \in {"new", "missed", "waiting", "elected"},
           p.phase \in {"missed", "waiting", "elected", "forwarding"},
           p.outcome = "miss", p.replay = {}, p.size = pending[r].size,
           p.flight = "waiting" <=> p.phase = "waiting",
           p.flight = "owner" => p.phase \in {"elected", "forwarding"},
           p.phase = "waiting" => CacheKey[r] \in flights',
           FlightStep(r), clock' = clock, hits' = hits, recorded' = recorded,
           waiters' \in Nat, misses' \in Nat,
           waiters' + Bit(pending[r].phase = "waiting") = waiters + Bit(p.phase = "waiting"),
           misses' + Bit(pending[r].outcome = "miss") = misses + 1
    PROVE  CacheInv' /\ Moved(r)
<1>1. /\ pending \in [Requests -> PendingType] /\ pending[r] \in PendingType
      /\ Sound(pending[r], recorded[r]) /\ recorded \in [Requests -> Nat]
      /\ hits \in Nat
  BY RequestFields, CachedRequests
<1>2. /\ pending' = [s \in Requests |-> pending'[s]] /\ pending'[r] = p
      /\ \A s \in Requests \ {r} : pending'[s] = pending[s]
  BY <1>1
<1>3. Moved(r)
  BY <1>2, OnlyMoved
<1>4. pending[r].outcome # "hit" /\ recorded[r] = 0
  BY <1>1 DEF Sound
<1>5. Counted(r)
  <2>1. /\ r \in Waiting(pending) <=> pending[r].phase = "waiting"
        /\ r \in Waiting(pending') <=> p.phase = "waiting"
        /\ r \notin Hits(pending) /\ r \notin Hits(pending')
        /\ r \in Misses(pending) <=> pending[r].outcome = "miss"
        /\ r \in Misses(pending')
    BY <1>2, <1>4 DEF Waiting, Hits, Misses
  <2>2. QED
    BY <1>1, <2>1 DEF Counted, Bit
<1>6. Sound(pending'[r], recorded'[r])
  BY <1>2, <1>4 DEF Sound
<1>7. Tables
  <2>1. /\ pending'[r].size = pending[r].size /\ pending'[r].phase # "capturing"
        /\ pending'[r].replay = {}
    BY <1>2
  <2>2. QED
    BY <1>3, <2>1, FreshKept, TablesLess
<1>8. QED
  BY <1>1, <1>2, <1>3, <1>5, <1>6, <1>7, StepInv

(* handle_request's first lookup. *)
LEMMA LookupStep ==
    ASSUME CacheInv, NEW r \in Requests, Lookup(r)
    PROVE  CacheInv' /\ Moved(r)
<1> DEFINE p == [pending[r] EXCEPT !.phase = "missed", !.outcome = "miss"]
<1>1. /\ pending \in [Requests -> PendingType] /\ pending[r] \in PendingType
      /\ Sound(pending[r], recorded[r])
      /\ waiters \in Nat /\ misses \in Nat
  BY RequestFields, CachedRequests
<1>2. CASE TakeHit(r)
  BY <1>2, TakeHitStep DEF Lookup
<1>3. CASE ~TakeHit(r)
  <2>1. /\ pending[r].phase = "new" /\ misses' = misses + 1
        /\ entries' = Keeping(entries, Fresh)
        /\ pending' = [pending EXCEPT ![r].phase = "missed", ![r].outcome = "miss"]
        /\ UNCHANGED <<clock, flights, waiters, hits, recorded>>
    BY <1>3 DEF Lookup
  <2>2. p \in PendingType
    BY <1>1 DEF PendingType, Phases
  <2>3. /\ p.phase = "missed" /\ p.outcome = "miss" /\ p.flight = pending[r].flight
        /\ p.replay = pending[r].replay /\ p.size = pending[r].size
    BY <1>1 DEF PendingType
  <2>4. pending' = [pending EXCEPT ![r] = p]
    <3>1. /\ pending'[r] = p /\ \A s \in Requests \ {r} : pending'[s] = pending[s]
          /\ pending' = [s \in Requests |-> pending'[s]]
      BY <1>1, <2>1 DEF PendingType
    <3> HIDE DEF p
    <3>2. QED
      BY <1>1, <3>1
  <2> HIDE DEF p
  <2>5. /\ pending[r].outcome = "uncounted" /\ pending[r].replay = {}
        /\ pending[r].flight # "waiting" /\ pending[r].flight # "owner"
    BY <1>1, <2>1 DEF Sound
  <2>6. FlightStep(r)
    BY <1>1, <2>1, <2>3, <2>4 DEF FlightStep
  <2>7. /\ waiters' \in Nat /\ misses' \in Nat
        /\ waiters' + Bit(pending[r].phase = "waiting") = waiters + Bit(p.phase = "waiting")
        /\ misses' + Bit(pending[r].outcome = "miss") = misses + 1
    BY <1>1, <2>1, <2>3, <2>5 DEF Bit
  <2>8. QED
    BY <2>1, <2>2, <2>3, <2>4, <2>5, <2>6, <2>7, MissStep
<1>4. QED
  BY <1>2, <1>3

(* One turn of wait_for_turn: a hit, a claim or a wait. *)
LEMMA TurnStep ==
    ASSUME CacheInv, NEW r \in Requests, WaitForTurn(r)
    PROVE  CacheInv' /\ Moved(r)
<1>1. /\ pending \in [Requests -> PendingType] /\ pending[r] \in PendingType
      /\ Sound(pending[r], recorded[r])
      /\ waiters \in Nat /\ misses \in Nat
      /\ pending[r].phase = "waiting" => waiters > 0
  BY RequestFields, CachedRequests
<1>2. pending[r].phase \in {"missed", "waiting"}
  BY DEF WaitForTurn
<1>3. /\ pending[r].outcome = "miss" /\ pending[r].replay = {}
      /\ pending[r].flight # "owner"
      /\ pending[r].flight = "waiting" <=> pending[r].phase = "waiting"
  BY <1>1, <1>2 DEF Sound
<1>4. CASE TakeHit(r)
  BY <1>2, <1>4, TakeHitStep
<1>5. CASE ~TakeHit(r) /\ Claim(r)
  <2> DEFINE owns == Cardinality(flights) < MaxEntries
             fl == IF owns THEN "owner" ELSE "bypass"
             p == [pending[r] EXCEPT !.phase = "elected", !.woken = FALSE, !.flight = fl]
  <2>1. /\ CacheKey[r] \notin flights
        /\ flights' = IF owns THEN flights \cup {CacheKey[r]} ELSE flights
        /\ pending' = [pending EXCEPT ![r].phase = "elected", ![r].woken = FALSE,
                                      ![r].flight = fl]
        /\ waiters' = IF pending[r].flight = "waiting" THEN waiters - 1 ELSE waiters
    BY <1>5 DEF Claim
  <2>2. /\ entries' = Keeping(entries, Fresh)
        /\ UNCHANGED <<clock, hits, misses, recorded>>
    BY <1>5 DEF WaitForTurn
  <2>3. fl \in {"owner", "bypass"} /\ (fl = "owner" <=> owns)
    OBVIOUS
  <2> HIDE DEF fl, owns
  <2>4. p \in PendingType
    BY <1>1, <2>3 DEF PendingType, Phases
  <2>5. /\ p.phase = "elected" /\ p.outcome = pending[r].outcome /\ p.flight = fl
        /\ p.replay = pending[r].replay /\ p.size = pending[r].size
    BY <1>1 DEF PendingType
  <2>6. pending' = [pending EXCEPT ![r] = p] /\ pending'[r] = p
    <3>1. /\ pending'[r] = p /\ \A s \in Requests \ {r} : pending'[s] = pending[s]
          /\ pending' = [s \in Requests |-> pending'[s]]
      BY <1>1, <2>1 DEF PendingType
    <3> HIDE DEF p
    <3>2. QED
      BY <1>1, <3>1
  <2> HIDE DEF p
  <2>7. FlightStep(r)
    BY <1>3, <2>1, <2>3, <2>5, <2>6 DEF FlightStep, owns
  <2>8. /\ waiters' \in Nat /\ misses' \in Nat
        /\ waiters' + Bit(pending[r].phase = "waiting") = waiters + Bit(p.phase = "waiting")
        /\ misses' + Bit(pending[r].outcome = "miss") = misses + 1
    BY <1>1, <1>3, <2>1, <2>2, <2>5 DEF Bit
  <2>9. QED
    BY <1>2, <1>3, <2>2, <2>3, <2>4, <2>5, <2>6, <2>7, <2>8, MissStep
<1>6. CASE ~TakeHit(r) /\ Sleep(r)
  <2> DEFINE p == [pending[r] EXCEPT !.phase = "waiting", !.woken = FALSE,
                                     !.flight = "waiting"]
  <2>1. /\ CacheKey[r] \in flights /\ flights' = flights
        /\ pending' = [pending EXCEPT ![r].phase = "waiting", ![r].woken = FALSE,
                                      ![r].flight = "waiting"]
        /\ waiters' = IF pending[r].flight = "waiting" THEN waiters ELSE waiters + 1
    BY <1>6 DEF Sleep
  <2>2. /\ entries' = Keeping(entries, Fresh)
        /\ UNCHANGED <<clock, hits, misses, recorded>>
    BY <1>6 DEF WaitForTurn
  <2>3. p \in PendingType
    BY <1>1 DEF PendingType, Phases
  <2>4. /\ p.phase = "waiting" /\ p.outcome = pending[r].outcome /\ p.flight = "waiting"
        /\ p.replay = pending[r].replay /\ p.size = pending[r].size
    BY <1>1 DEF PendingType
  <2>5. pending' = [pending EXCEPT ![r] = p] /\ pending'[r] = p
    <3>1. /\ pending'[r] = p /\ \A s \in Requests \ {r} : pending'[s] = pending[s]
          /\ pending' = [s \in Requests |-> pending'[s]]
      BY <1>1, <2>1 DEF PendingType
    <3> HIDE DEF p
    <3>2. QED
      BY <1>1, <3>1
  <2> HIDE DEF p
  <2>6. FlightStep(r)
    BY <1>3, <2>1, <2>4, <2>5 DEF FlightStep
  <2>7. /\ waiters' \in Nat /\ misses' \in Nat
        /\ waiters' + Bit(pending[r].phase = "waiting") = waiters + Bit(p.phase = "waiting")
        /\ misses' + Bit(pending[r].outcome = "miss") = misses + 1
    BY <1>1, <1>3, <2>1, <2>2, <2>4 DEF Bit
  <2>8. QED
    BY <1>2, <1>3, <2>1, <2>2, <2>3, <2>4, <2>5, <2>6, <2>7, MissStep
<1>7. QED
  BY <1>4, <1>5, <1>6 DEF WaitForTurn

(* The lookup after admission. *)
LEMMA AgainStep ==
    ASSUME CacheInv, NEW r \in Requests, LookupAgain(r)
    PROVE  CacheInv' /\ Moved(r)
<1> DEFINE p == [pending[r] EXCEPT !.phase = "forwarding"]
<1>1. /\ pending \in [Requests -> PendingType] /\ pending[r] \in PendingType
      /\ Sound(pending[r], recorded[r])
      /\ waiters \in Nat /\ misses \in Nat
  BY RequestFields, CachedRequests
<1>2. CASE TakeHit(r)
  BY <1>2, TakeHitStep DEF LookupAgain
<1>3. CASE ~TakeHit(r)
  <2>1. /\ pending[r].phase = "elected" /\ entries' = Keeping(entries, Fresh)
        /\ pending' = [pending EXCEPT ![r].phase = "forwarding"]
        /\ UNCHANGED <<clock, flights, waiters, hits, misses, recorded>>
    BY <1>3 DEF LookupAgain
  <2>2. p \in PendingType
    BY <1>1 DEF PendingType, Phases
  <2>3. /\ p.phase = "forwarding" /\ p.outcome = pending[r].outcome
        /\ p.flight = pending[r].flight
        /\ p.replay = pending[r].replay /\ p.size = pending[r].size
    BY <1>1 DEF PendingType
  <2>4. pending' = [pending EXCEPT ![r] = p] /\ pending'[r] = p
    BY <1>1, <2>1
  <2> HIDE DEF p
  <2>5. /\ pending[r].outcome = "miss" /\ pending[r].replay = {}
        /\ pending[r].flight # "waiting"
    BY <1>1, <2>1 DEF Sound
  <2>6. FlightStep(r)
    BY <2>1, <2>3, <2>4 DEF FlightStep
  <2>7. /\ waiters' \in Nat /\ misses' \in Nat
        /\ waiters' + Bit(pending[r].phase = "waiting") = waiters + Bit(p.phase = "waiting")
        /\ misses' + Bit(pending[r].outcome = "miss") = misses + 1
    BY <1>1, <2>1, <2>3, <2>5 DEF Bit
  <2>8. QED
    BY <2>1, <2>2, <2>3, <2>4, <2>5, <2>6, <2>7, MissStep
<1>4. QED
  BY <1>2, <1>3

(* Pending::capture: evict the oldest, then reserve a whole entry or give  *)
(* up for want of budget.                                                  *)
LEMMA CaptureStep ==
    ASSUME CacheInv, NEW r \in Requests, Capture(r)
    PROVE  /\ CacheInv' /\ Moved(r)
           /\ \/ pending'[r].phase = "capturing" /\ recorded' = recorded
              \/ pending'[r].phase = "done" /\ recorded' = [recorded EXCEPT ![r] = @ + 1]
<1>1. PICK K \in AfterEviction :
         /\ entries' = Keeping(entries, K)
         /\ \/ /\ RoomFor(K)
               /\ pending' = [pending EXCEPT ![r].phase = "capturing"]
               /\ UNCHANGED <<clock, flights, waiters, hits, misses, recorded>>
            \/ /\ ~RoomFor(K)
               /\ recorded' = [recorded EXCEPT ![r] = @ + 1]
               /\ Finish(r)
  BY DEF Capture
<1>2. K \in SUBSET DOMAIN entries /\ pending[r].phase = "forwarding"
  BY <1>1 DEF AfterEviction, Capture
<1>3. CASE ~RoomFor(K)
  BY <1>1, <1>2, <1>3, FinishStep
<1>4. CASE RoomFor(K)
  <2> DEFINE p == [pending[r] EXCEPT !.phase = "capturing"]
             t == Keeping(entries, K)
  <2>1. /\ pending \in [Requests -> PendingType] /\ pending[r] \in PendingType
        /\ Sound(pending[r], recorded[r]) /\ recorded \in [Requests -> Nat]
        /\ waiters \in Nat /\ hits \in Nat /\ misses \in Nat
    BY RequestFields, CachedRequests
  <2>2. /\ entries' = t /\ pending' = [pending EXCEPT ![r] = p]
        /\ UNCHANGED <<clock, flights, waiters, hits, misses, recorded>>
    BY <1>1, <1>4
  <2>3. p \in PendingType
    BY <2>1 DEF PendingType, Phases
  <2>4. /\ p.phase = "capturing" /\ p.outcome = pending[r].outcome
        /\ p.flight = pending[r].flight
        /\ p.replay = pending[r].replay /\ p.size = pending[r].size
    BY <2>1 DEF PendingType
  <2> HIDE DEF p
  <2>5. /\ pending' = [s \in Requests |-> pending'[s]] /\ pending'[r] = p
        /\ \A s \in Requests \ {r} : pending'[s] = pending[s]
    BY <2>1, <2>2
  <2>6. Moved(r)
    BY <2>3, <2>5, OnlyMoved
  <2>7. FlightStep(r)
    BY <2>2, <2>4, <2>5 DEF FlightStep
  <2>8. Counted(r)
    BY <1>2, <2>1, <2>2, <2>4, <2>5 DEF Counted, Waiting, Hits, Misses
  <2>9. Sound(pending'[r], recorded'[r])
    BY <1>2, <2>1, <2>2, <2>4, <2>5 DEF Sound
  <2>10. Tables
    <3>1. /\ DOMAIN t = K /\ t \in [K -> Requests] /\ K \subseteq UsedKeys
          /\ Cardinality(K) <= MaxEntries /\ Stored(t) \subseteq Stored(entries)
      BY <1>2, KeepingTable
    <3>2. \A s \in Requests : pending'[s].replay = pending[s].replay
      BY <2>4, <2>5
    <3>3. /\ Cached(t, pending') = Cached(t, pending)
          /\ Cached(t, pending) \subseteq Cached(entries, pending)
      BY <3>1, <3>2 DEF Cached
    <3>4. Cached(t, pending) \subseteq Requests
      BY <3>3, CachedRequests
    <3>5. Capturing(pending') = Capturing(pending) \cup {r} /\ r \notin Capturing(pending)
      BY <1>2, <2>4, <2>5 DEF Capturing
    <3>6. \A s \in Requests : pending'[s].size = pending[s].size
      BY <2>4, <2>5
    <3>7. Used(t, pending') = Used(t, pending) + EntryBytes
      BY <2>1, <2>6, <3>3, <3>4, <3>5, <3>6, UsedCapture DEF Moved
    <3>8. Used(t, pending') <= BudgetBytes
      BY <1>4, <3>7 DEF RoomFor
    <3>9. ASSUME NEW s \in Cached(t, pending') PROVE pending'[s].phase = "done"
      <4>1. s \in Requests /\ pending[s].phase = "done"
        BY <3>3, <3>4 DEF CacheInv, CachedDone
      <4>2. QED
        BY <1>2, <2>5, <4>1
    <3> HIDE DEF t
    <3>10. QED
      BY <2>2, <3>1, <3>8, <3>9 DEF Tables
  <2>11. QED
    BY <2>1, <2>2, <2>4, <2>5, <2>6, <2>7, <2>8, <2>9, <2>10, StepInv
<1>5. QED
  BY <1>3, <1>4

(* Capture::commit of a complete body: the oldest entry makes place, the   *)
(* reservation shrinks to the size of the entry, and the waiters wake.     *)
LEMMA CommitStep ==
    ASSUME CacheInv, NEW r \in Requests, Commit(r)
    PROVE  CacheInv' /\ Moved(r) /\ pending'[r].phase = "done"
<1> DEFINE k == CacheKey[r]
<1>1. PICK K \in CommitKeeps(k) :
         entries' = [j \in K \cup {k} |-> IF j = k THEN r ELSE entries[j]]
  BY DEF Commit
<1>2. PICK z \in Sizes :
         pending' = NotifyWaiters([pending EXCEPT
             ![r].phase = "done", ![r].flight = "unclaimed",
             ![r].inserted = clock, ![r].size = z])
  BY DEF Commit
<1> DEFINE p == [pending[r] EXCEPT !.phase = "done", !.flight = "unclaimed",
                                   !.inserted = clock, !.size = z]
           pd == [pending EXCEPT ![r].phase = "done", ![r].flight = "unclaimed",
                                 ![r].inserted = clock, ![r].size = z]
<1>3. /\ pending[r].phase = "capturing" /\ recorded' = [recorded EXCEPT ![r] = @ + 1]
      /\ DropFlight(r) /\ clock' = clock /\ hits' = hits /\ misses' = misses
  BY DEF Commit
<1>4. /\ pending \in [Requests -> PendingType] /\ pending[r] \in PendingType
      /\ Sound(pending[r], recorded[r]) /\ recorded \in [Requests -> Nat]
      /\ hits \in Nat /\ misses \in Nat
  BY RequestFields, CachedRequests
<1>5. z \in Nat /\ z <= EntryBytes /\ clock \in Nat
  BY CacheAssumption DEF CacheInv, TypeInv
<1>6. p \in PendingType
  BY <1>4, <1>5 DEF PendingType, Phases
<1>7. /\ p.phase = "done" /\ p.flight = "unclaimed" /\ p.outcome = pending[r].outcome
      /\ p.replay = pending[r].replay /\ p.size = z
  BY <1>4 DEF PendingType
<1>8. /\ pd[r] = p /\ \A s \in Requests \ {r} : pd[s] = pending[s]
      /\ pd = [s \in Requests |-> pd[s]]
  BY <1>4 DEF PendingType
<1> HIDE DEF p, pd
<1>9. pd \in [Requests -> PendingType]
  BY <1>4, <1>6, <1>8
<1>10. /\ pending' \in [Requests -> PendingType]
       /\ KeptAll(Requests, pd, pending') /\ Awake(Requests, pending')
       /\ pending'[r] = p
  BY <1>2, <1>7, <1>8, <1>9, NotifyKeeps DEF pd
<1>11. KeptAll(Requests \ {r}, pending, pending')
  BY <1>8, <1>10 DEF KeptAll
<1>12. Moved(r)
  BY <1>10, <1>11 DEF Moved
<1>13. /\ FlightStep(r) /\ waiters' \in Nat
       /\ waiters' + Bit(r \in Waiting(pending)) = waiters + Bit(r \in Waiting(pending'))
  BY <1>3, <1>7, <1>10, DropStep
<1>14. Counted(r)
  BY <1>3, <1>4, <1>7, <1>10, <1>13 DEF Counted, Hits, Misses
<1>15. recorded[r] = 0 /\ pending[r].outcome = "miss" /\ pending[r].replay = {}
  BY <1>3, <1>4 DEF Sound
<1>16. /\ recorded' \in [Requests -> Nat] /\ recorded'[r] = 1
       /\ \A s \in Requests \ {r} : recorded'[s] = recorded[s]
  BY <1>3, <1>4, <1>15
<1>17. Sound(pending'[r], recorded'[r])
  BY <1>7, <1>10, <1>15, <1>16 DEF Sound
<1>18. Tables
  <2> DEFINE D == DOMAIN entries
  <2>1. /\ IsFiniteSet(D) /\ Cardinality(D) <= MaxEntries /\ D \subseteq UsedKeys
        /\ k \in UsedKeys /\ entries \in [D -> Requests] /\ MaxEntries \in Nat
        /\ Cardinality(D) \in Nat /\ MaxEntries > 0
    BY CachedRequests, FS_CardinalityType, CacheAssumption, SMTT(40)
       DEF CacheInv, TypeInv, BudgetRespected, UsedKeys
  <2>2. K \subseteq D /\ Cardinality(K \cup {k}) <= MaxEntries
    <3>1. CASE Cardinality(D) >= MaxEntries /\ k \notin D
      <4>1. PICK e \in D : K = D \ {e}
        BY <3>1, <1>1 DEF CommitKeeps, Evictees
      <4>2. IsFiniteSet(K) /\ Cardinality(K) = Cardinality(D) - 1
        BY <2>1, <4>1, FS_RemoveElement
      <4>3. Cardinality(K \cup {k}) = Cardinality(K) + 1
        BY <3>1, <4>1, <4>2, FS_AddElement
      <4>4. QED
        BY <2>1, <4>1, <4>2, <4>3
    <3>2. CASE k \in D
      <4>1. K = D /\ K \cup {k} = D
        BY <3>2, <1>1 DEF CommitKeeps
      <4>2. QED
        BY <2>1, <4>1
    <3>3. CASE Cardinality(D) < MaxEntries /\ k \notin D
      <4>1. K = D
        BY <3>3, <1>1, <2>1 DEF CommitKeeps
      <4>2. Cardinality(K \cup {k}) = Cardinality(D) + 1
        BY <2>1, <3>3, <4>1, FS_AddElement
      <4>3. QED
        BY <2>1, <3>3, <4>1, <4>2
    <3>4. QED
      BY <2>1, <3>1, <3>2, <3>3
  <2>3. /\ DOMAIN entries' = K \cup {k}
        /\ entries' \in [K \cup {k} -> Requests]
        /\ Stored(entries') \subseteq Stored(entries) \cup {r}
    BY <1>1, <2>1, <2>2 DEF Stored
  <2>4. \A s \in Requests : pending'[s].replay = pending[s].replay
    BY <1>7, <1>10, <1>11 DEF KeptAll, Kept
  <2>5. Cached(entries', pending') \subseteq Cached(entries, pending) \cup {r}
    BY <2>3, <2>4 DEF Cached
  <2>6. Cached(entries, pending) \subseteq Requests /\ r \notin Cached(entries, pending)
    BY <1>3, CachedRequests DEF CacheInv, CachedDone
  <2>7. r \in Capturing(pending) /\ Capturing(pending') = Capturing(pending) \ {r}
    BY <1>3, <1>7, <1>10, <1>11 DEF Capturing, KeptAll, Kept
  <2>8. \A s \in Requests \ {r} : pending'[s].size = pending[s].size
    BY <1>11 DEF KeptAll, Kept
  <2>9. pending'[r].size <= EntryBytes
    BY <1>5, <1>7, <1>10
  <2>10. Used(entries', pending') <= Used(entries, pending)
    BY <1>4, <1>10, <2>5, <2>6, <2>7, <2>8, <2>9, UsedCommit
  <2>11. Used(entries', pending') \in Nat
    <3>1. Cached(entries', pending') \subseteq Requests
      BY <2>5, <2>6
    <3>2. QED
      BY <1>10, <3>1, UsedNat
  <2>12. Used(entries', pending') <= BudgetBytes
    BY <2>10, <2>11, CachedRequests
  <2>13. ASSUME NEW s \in Cached(entries', pending') PROVE pending'[s].phase = "done"
    <3>1. CASE s = r
      BY <1>7, <1>10, <3>1
    <3>2. CASE s # r
      <4>1. s \in Requests \ {r} /\ pending[s].phase = "done"
        BY <2>5, <2>6, <3>2 DEF CacheInv, CachedDone
      <4>2. QED
        BY <1>11, <4>1 DEF KeptAll, Kept
    <3>3. QED
      BY <3>1, <3>2
  <2>14. QED
    BY <2>1, <2>2, <2>3, <2>12, <2>13 DEF Tables
<1>19. QED
  BY <1>3, <1>7, <1>10, <1>12, <1>13, <1>14, <1>16, <1>17, <1>18, StepInv

(* The end of a replay lets go of the entry. *)
LEMMA EndReplayStep ==
    ASSUME CacheInv, NEW r \in Requests, EndReplay(r)
    PROVE  CacheInv' /\ Moved(r)
<1> DEFINE p == [pending[r] EXCEPT !.phase = "done", !.replay = {}]
<1>1. /\ pending \in [Requests -> PendingType] /\ pending[r] \in PendingType
      /\ Sound(pending[r], recorded[r]) /\ recorded \in [Requests -> Nat]
      /\ waiters \in Nat /\ hits \in Nat /\ misses \in Nat
  BY RequestFields, CachedRequests
<1>2. /\ pending[r].phase = "replaying"
      /\ pending' = [pending EXCEPT ![r].phase = "done", ![r].replay = {}]
      /\ UNCHANGED <<clock, entries, flights, waiters, hits, misses, recorded>>
  BY DEF EndReplay
<1>3. p \in PendingType
  BY <1>1 DEF PendingType, Phases
<1>4. /\ p.phase = "done" /\ p.outcome = pending[r].outcome
      /\ p.flight = pending[r].flight
      /\ p.replay = {} /\ p.size = pending[r].size
  BY <1>1 DEF PendingType
<1>5. /\ pending' = [s \in Requests |-> pending'[s]] /\ pending'[r] = p
      /\ \A s \in Requests \ {r} : pending'[s] = pending[s]
  BY <1>1, <1>2 DEF PendingType
<1> HIDE DEF p
<1>6. Moved(r)
  BY <1>3, <1>5, OnlyMoved
<1>7. FlightStep(r)
  BY <1>2, <1>4, <1>5 DEF FlightStep
<1>8. Counted(r)
  BY <1>1, <1>2, <1>4, <1>5 DEF Counted, Waiting, Hits, Misses
<1>9. Sound(pending'[r], recorded'[r])
  BY <1>1, <1>2, <1>4, <1>5 DEF Sound
<1>10. Tables
  <2>1. entries' = Keeping(entries, DOMAIN entries)
    BY <1>2, KeepingAll
  <2>2. DOMAIN entries \in SUBSET DOMAIN entries
    OBVIOUS
  <2>3. /\ pending[r].phase # "done" /\ pending'[r].size = pending[r].size
        /\ pending'[r].phase # "capturing"
        /\ pending'[r].replay \subseteq Stored(entries) \cup pending[r].replay
    BY <1>2, <1>4, <1>5
  <2>4. QED
    BY <1>6, <2>1, <2>2, <2>3, TablesLess
<1>11. QED
  BY <1>1, <1>2, <1>4, <1>5, <1>6, <1>7, <1>8, <1>9, <1>10, StepInv

-----------------------------------------------------------------------------
(* Nobody looked anything up in the initial state. *)
LEMMA CacheInit == Init => CacheInv
<1> SUFFICES ASSUME Init PROVE CacheInv
  OBVIOUS
<1>1. New \in PendingType
  BY DEF New, PendingType, Phases
<1>2. /\ New.phase = "new" /\ New.flight = "unclaimed" /\ New.outcome = "uncounted"
      /\ New.replay = {}
  BY DEF New
<1>3. /\ clock = 0 /\ entries = [k \in {} |-> {}] /\ flights = {}
      /\ waiters = 0 /\ hits = 0 /\ misses = 0
      /\ pending = [r \in Requests |-> New] /\ recorded = [r \in Requests |-> 0]
  BY DEF Init
<1>4. DOMAIN entries = {} /\ \A r \in Requests : pending[r] = New /\ recorded[r] = 0
  BY <1>3
<1> HIDE DEF New
<1>5. TypeInv
  BY <1>1, <1>3, <1>4 DEF TypeInv
<1>6. SoundAll
  BY <1>2, <1>4 DEF SoundAll, Sound
<1>7. Cached(entries, pending) = {}
  BY <1>2, <1>4 DEF Cached, Stored
<1>8. CachedDone /\ OneOwner
  BY <1>2, <1>3, <1>4, <1>7 DEF CachedDone, OneOwner
<1>9. /\ {r \in Requests : pending[r].phase = "waiting"} = {}
      /\ {r \in Requests : pending[r].outcome = "hit"} = {}
      /\ {r \in Requests : pending[r].outcome = "miss"} = {}
      /\ Capturing(pending) = {}
  BY <1>2, <1>4 DEF Capturing
<1>10. Cardinality({}) = 0 /\ IsFiniteSet({})
  BY FS_EmptySet
<1>11. WaitersHaveOwner /\ LookupsCounted
  BY <1>2, <1>3, <1>4, <1>9, <1>10 DEF WaitersHaveOwner, LookupsCounted
<1>12. Used(entries, pending) = 0
  <2>1. /\ Used(entries, pending) = Sum(SizeOf(pending), {}) + EntryBytes * Cardinality({})
    BY <1>5, <1>7, <1>9, UsedSum DEF TypeInv
  <2>2. Sum(SizeOf(pending), {}) = 0
    BY <1>10, SumStep
  <2>3. QED
    BY <1>10, <2>1, <2>2, CacheAssumption
<1>13. BudgetRespected
  BY <1>3, <1>4, <1>10, <1>12, CacheAssumption DEF BudgetRespected
<1>14. QED
  BY <1>5, <1>6, <1>8, <1>11, <1>13 DEF CacheInv

(* Every step of the cache keeps the invariant. *)
LEMMA CacheNext == CacheInv /\ [Next]_vars => CacheInv'
<1> SUFFICES ASSUME CacheInv, [Next]_vars PROVE CacheInv'
  OBVIOUS
<1>0. /\ entries = Keeping(entries, DOMAIN entries)
      /\ DOMAIN entries \in SUBSET DOMAIN entries
  BY KeepingAll
<1>1. CASE Tick
  <2>1. /\ clock' = clock + 1 /\ entries' = entries /\ flights' = flights
        /\ waiters' = waiters /\ hits' = hits /\ misses' = misses
        /\ pending' = pending /\ recorded' = recorded
    BY <1>1 DEF Tick
  <2>2. TypeInv'
    BY <2>1 DEF CacheInv, TypeInv
  <2>3. SoundAll' /\ CachedDone' /\ OneOwner'
    BY <2>1 DEF CacheInv, SoundAll, CachedDone, OneOwner
  <2>4. WaitersHaveOwner' /\ LookupsCounted' /\ BudgetRespected'
    BY <2>1 DEF CacheInv, WaitersHaveOwner, LookupsCounted, BudgetRespected
  <2>5. QED
    BY <2>2, <2>3, <2>4 DEF CacheInv
<1>2. ASSUME NEW r \in Requests, Lookup(r) PROVE CacheInv'
  BY <1>2, LookupStep
<1>3. ASSUME NEW r \in Requests, WaitForTurn(r) PROVE CacheInv'
  BY <1>3, TurnStep
<1>4. ASSUME NEW r \in Requests, LookupAgain(r) PROVE CacheInv'
  BY <1>4, AgainStep
<1>5. ASSUME NEW r \in Requests, RefuseCapture(r) PROVE CacheInv'
  BY <1>0, <1>5, FinishStep DEF RefuseCapture
<1>6. ASSUME NEW r \in Requests, Capture(r) PROVE CacheInv'
  BY <1>6, CaptureStep
<1>7. ASSUME NEW r \in Requests, GiveUpCapture(r) PROVE CacheInv'
  BY <1>0, <1>7, FinishStep DEF GiveUpCapture
<1>8. ASSUME NEW r \in Requests, Commit(r) PROVE CacheInv'
  BY <1>8, CommitStep
<1>9. ASSUME NEW r \in Requests, Abandon(r) PROVE CacheInv'
  BY <1>0, <1>9, FinishStep DEF Abandon
<1>10. ASSUME NEW r \in Requests, EndReplay(r) PROVE CacheInv'
  BY <1>10, EndReplayStep
<1>11. CASE UNCHANGED vars
  <2>1. /\ clock' = clock /\ entries' = entries /\ flights' = flights
        /\ waiters' = waiters /\ hits' = hits /\ misses' = misses
        /\ pending' = pending /\ recorded' = recorded
    BY <1>11 DEF vars
  <2>2. TypeInv' /\ SoundAll' /\ CachedDone' /\ OneOwner'
    BY <2>1 DEF CacheInv, TypeInv, SoundAll, CachedDone, OneOwner
  <2>3. WaitersHaveOwner' /\ LookupsCounted' /\ BudgetRespected'
    BY <2>1 DEF CacheInv, WaitersHaveOwner, LookupsCounted, BudgetRespected
  <2>4. QED
    BY <2>2, <2>3 DEF CacheInv
<1>12. QED
  BY <1>1, <1>2, <1>3, <1>4, <1>5, <1>6, <1>7, <1>8, <1>9, <1>10, <1>11 DEF Next

(* The inductive invariant of the cache holds in every reachable state:    *)
(* each Pending agrees with the flights, the waiters, the counters, the    *)
(* table and the byte budget.                                              *)
THEOREM CacheInvariant == Spec => []CacheInv
<1>1. QED
  BY CacheInit, CacheNext, PTL DEF Spec

(* Single flight of Pending::wait_for_turn and drop: a key is marked in    *)
(* flight exactly while one live request owns it.                          *)
THEOREM CacheFlightsOwned == Spec => []FlightsOwned
<1>1. CacheInv => FlightsOwned
  <2> SUFFICES ASSUME CacheInv, NEW k \in Keys
               PROVE  Cardinality(Owners(k)) = IF k \in flights THEN 1 ELSE 0
    BY DEF FlightsOwned
  <2>1. OneOwner
    BY DEF CacheInv
  <2>2. CASE k \in flights
    <3>1. PICK r \in Requests : CacheKey[r] = k /\ pending[r].flight = "owner"
      BY <2>1, <2>2 DEF OneOwner
    <3>2. Owners(k) = {r}
      BY <2>1, <3>1 DEF OneOwner, Owners
    <3>3. QED
      BY <2>2, <3>2, FS_Singleton
  <2>3. CASE k \notin flights
    <3>1. Owners(k) = {}
      BY <2>1, <2>3 DEF OneOwner, Owners
    <3>2. QED
      BY <2>3, <3>1, FS_EmptySet
  <2>4. QED
    BY <2>2, <2>3
<1>2. QED
  BY <1>1, CacheInvariant, PTL

(* Nobody sleeps for a key that no one fills, and State.waiters counts who *)
(* sleeps.                                                                 *)
THEOREM CacheWaitersHaveOwner == Spec => []WaitersHaveOwner
<1>1. CacheInv => WaitersHaveOwner
  BY DEF CacheInv
<1>2. QED
  BY <1>1, CacheInvariant, PTL

(* Captures, entries and replays of evicted entries stay within            *)
(* BUDGET_BYTES, and the tables within MAX_ENTRIES.                        *)
THEOREM CacheBudgetRespected == Spec => []BudgetRespected
<1>1. CacheInv => BudgetRespected
  BY DEF CacheInv
<1>2. QED
  BY <1>1, CacheInvariant, PTL

(* State.hits and misses count every lookup once, as what it turned out to *)
(* be.                                                                     *)
THEOREM CacheLookupsCounted == Spec => []LookupsCounted
<1>1. CacheInv => LookupsCounted
  BY DEF CacheInv
<1>2. QED
  BY <1>1, CacheInvariant, PTL

(* What CaptureSettledOnce says of one step. *)
Settles ==
    \A r \in Requests :
        /\ pending[r].phase = "capturing" /\ pending'[r].phase # "capturing" =>
              recorded[r] = 0 /\ recorded'[r] = 1
        /\ recorded'[r] # recorded[r] =>
              recorded[r] = 0 /\ pending[r].phase # "done" /\ pending'[r].phase = "done"

(* A step that records nothing and ends no capture. *)
LEMMA NothingSettled ==
    ASSUME CacheInv, NEW r \in Requests, Moved(r), recorded' = recorded,
           pending[r].phase # "capturing" \/ pending'[r].phase = "capturing"
    PROVE  Settles
  BY DEF Settles, Moved, KeptAll, Kept

(* A step that records the end of a request that forwards or captures. *)
LEMMA OneSettled ==
    ASSUME CacheInv, NEW r \in Requests, Moved(r),
           recorded' = [recorded EXCEPT ![r] = @ + 1],
           pending[r].phase \in {"forwarding", "capturing"}, pending'[r].phase = "done"
    PROVE  Settles
<1>1. recorded[r] = 0 /\ recorded \in [Requests -> Nat]
  BY RequestFields DEF Sound
<1>2. recorded'[r] = 1 /\ \A s \in Requests \ {r} : recorded'[s] = recorded[s]
  BY <1>1
<1>3. QED
  BY <1>1, <1>2 DEF Settles, Moved, KeptAll, Kept

(* Capture::commit, observe and drop settle a capture exactly once, and    *)
(* nothing is counted for a request that is done.                          *)
THEOREM CacheCaptureSettledOnce == Spec => CaptureSettledOnce
<1>1. CacheInv /\ [Next]_vars => [Settles]_vars
  <2> SUFFICES ASSUME CacheInv, Next PROVE Settles
    OBVIOUS
  <2>0. /\ entries = Keeping(entries, DOMAIN entries)
        /\ DOMAIN entries \in SUBSET DOMAIN entries
    BY KeepingAll
  <2>1. CASE Tick
    BY <2>1 DEF Tick, Settles
  <2>2. ASSUME NEW r \in Requests, Lookup(r) PROVE Settles
    <3>1. Moved(r)
      BY <2>2, LookupStep
    <3>2. recorded' = recorded /\ pending[r].phase # "capturing"
      BY <2>2 DEF Lookup, TakeHit
    <3>3. QED
      BY <3>1, <3>2, NothingSettled
  <2>3. ASSUME NEW r \in Requests, WaitForTurn(r) PROVE Settles
    <3>1. Moved(r)
      BY <2>3, TurnStep
    <3>2. recorded' = recorded /\ pending[r].phase # "capturing"
      BY <2>3 DEF WaitForTurn, TakeHit
    <3>3. QED
      BY <3>1, <3>2, NothingSettled
  <2>4. ASSUME NEW r \in Requests, LookupAgain(r) PROVE Settles
    <3>1. Moved(r)
      BY <2>4, AgainStep
    <3>2. recorded' = recorded /\ pending[r].phase # "capturing"
      BY <2>4 DEF LookupAgain, TakeHit
    <3>3. QED
      BY <3>1, <3>2, NothingSettled
  <2>5. ASSUME NEW r \in Requests, RefuseCapture(r) PROVE Settles
    <3>1. Moved(r) /\ pending'[r].phase = "done"
      BY <2>0, <2>5, FinishStep DEF RefuseCapture
    <3>2. QED
      BY <2>5, <3>1, OneSettled DEF RefuseCapture
  <2>6. ASSUME NEW r \in Requests, Capture(r) PROVE Settles
    <3>1. /\ Moved(r)
          /\ \/ pending'[r].phase = "capturing" /\ recorded' = recorded
             \/ pending'[r].phase = "done" /\ recorded' = [recorded EXCEPT ![r] = @ + 1]
      BY <2>6, CaptureStep
    <3>2. pending[r].phase = "forwarding"
      BY <2>6 DEF Capture
    <3>3. QED
      BY <3>1, <3>2, NothingSettled, OneSettled
  <2>7. ASSUME NEW r \in Requests, GiveUpCapture(r) PROVE Settles
    <3>1. Moved(r) /\ pending'[r].phase = "done"
      BY <2>0, <2>7, FinishStep DEF GiveUpCapture
    <3>2. QED
      BY <2>7, <3>1, OneSettled DEF GiveUpCapture
  <2>8. ASSUME NEW r \in Requests, Commit(r) PROVE Settles
    <3>1. Moved(r) /\ pending'[r].phase = "done"
      BY <2>8, CommitStep
    <3>2. QED
      BY <2>8, <3>1, OneSettled DEF Commit
  <2>9. ASSUME NEW r \in Requests, Abandon(r) PROVE Settles
    <3>1. Moved(r)
      BY <2>0, <2>9, FinishStep DEF Abandon
    <3>2. recorded' = recorded /\ pending[r].phase # "capturing"
      BY <2>9 DEF Abandon
    <3>3. QED
      BY <3>1, <3>2, NothingSettled
  <2>10. ASSUME NEW r \in Requests, EndReplay(r) PROVE Settles
    <3>1. Moved(r)
      BY <2>10, EndReplayStep
    <3>2. recorded' = recorded /\ pending[r].phase # "capturing"
      BY <2>10 DEF EndReplay
    <3>3. QED
      BY <3>1, <3>2, NothingSettled
  <2>11. QED
    BY <2>1, <2>2, <2>3, <2>4, <2>5, <2>6, <2>7, <2>8, <2>9, <2>10 DEF Next
<1>2. QED
  BY <1>1, CacheInvariant, PTL DEF Spec, CaptureSettledOnce, Settles
=============================================================================
