---------------------------- MODULE LedgerProofs ----------------------------
(***************************************************************************)
(* Proofs about the rolling ledger, for every limit, concurrency, window,  *)
(* cost and caller.  The invariants are stated for a ledger l and a        *)
(* history w so that each operation of Quota.tla gets one lemma.           *)
(***************************************************************************)
EXTENDS Ledger, SumTheorems, FiniteSetTheorems, TLAPS

(* The sends that still count at the ledger's time. *)
SentRecently(l, w) == {i \in DOMAIN w : w[i].at + Window > l.now}

Within(w, i) ==
    {j \in DOMAIN w : w[i].at <= w[j].at /\ w[j].at < w[i].at + Window}

Typed(l, w) ==
    /\ l \in LedgerType(DOMAIN l.entries)
    /\ w \in [DOMAIN w -> [at : Nat, tokens : Nat]]
    /\ DOMAIN l.entries \cup DOMAIN w \subseteq 1 .. l.next

(* Debits and history agree: a held reservation was never sent, a started  *)
(* one was and its debit expires Window after that, and while it counts it *)
(* is not pruned.                                                          *)
DebitsMatch(l, w) ==
    /\ \A i \in DOMAIN l.entries :
         /\ ~l.entries[i].started =>
              l.entries[i].active /\ l.entries[i].rpm_until = Never /\ i \notin DOMAIN w
         /\ l.entries[i].started =>
              /\ i \in DOMAIN w
              /\ Known(l.rpm) => l.entries[i].rpm_until = w[i].at + Window
    /\ \A i \in DOMAIN w :
         /\ w[i].at <= l.now
         /\ Known(l.rpm) /\ w[i].at + Window > l.now => i \in DOMAIN l.entries

RpmBudget(l, w) ==
    Known(l.rpm) => Cardinality(SentRecently(l, w) \cup Held(l)) <= l.rpm

Rolling(l, w) ==
    Known(l.rpm) => \A i \in DOMAIN w : Cardinality(Within(w, i)) <= l.rpm

Settled(l) ==
    /\ l.cleanups + Cardinality(Active(l)) = l.next
    /\ Cardinality(Active(l)) <= l.concurrency
    /\ Cardinality(DOMAIN l.entries) <= MaxEntries

Inv(l, w) ==
    Typed(l, w) /\ DebitsMatch(l, w) /\ RpmBudget(l, w) /\ Rolling(l, w) /\ Settled(l)

-----------------------------------------------------------------------------
(* Every set the invariant counts is finite: identities are bounded.       *)
LEMMA FiniteParts ==
    ASSUME NEW l, NEW w, Typed(l, w)
    PROVE  /\ IsFiniteSet(DOMAIN l.entries) /\ IsFiniteSet(DOMAIN w)
           /\ IsFiniteSet(Active(l)) /\ IsFiniteSet(Held(l))
           /\ IsFiniteSet(RpmLive(l)) /\ IsFiniteSet(SentRecently(l, w))
           /\ IsFiniteSet(SentRecently(l, w) \cup Held(l))
           /\ \A i \in DOMAIN w : IsFiniteSet(Within(w, i))
<1>1. l.next \in Nat
  BY QuotaAssumption DEF Typed, LedgerType
<1>2. IsFiniteSet(1 .. l.next)
  BY <1>1, FS_Interval
<1>3. IsFiniteSet(DOMAIN l.entries) /\ IsFiniteSet(DOMAIN w)
  <2>1. DOMAIN l.entries \subseteq 1 .. l.next /\ DOMAIN w \subseteq 1 .. l.next
    BY DEF Typed
  <2>2. QED
    BY <1>2, <2>1, FS_Subset
<1>4. IsFiniteSet(Active(l)) /\ IsFiniteSet(Held(l)) /\ IsFiniteSet(RpmLive(l))
  <2>1. /\ Active(l) \subseteq DOMAIN l.entries
        /\ Held(l) \subseteq DOMAIN l.entries
        /\ RpmLive(l) \subseteq DOMAIN l.entries
    BY DEF Active, Held, RpmLive
  <2>2. QED
    BY <1>3, <2>1, FS_Subset
<1>5. IsFiniteSet(SentRecently(l, w))
  <2>1. SentRecently(l, w) \subseteq DOMAIN w
    BY DEF SentRecently
  <2>2. QED
    BY <1>3, <2>1, FS_Subset
<1>6. ASSUME NEW i \in DOMAIN w PROVE IsFiniteSet(Within(w, i))
  <2>1. Within(w, i) \subseteq DOMAIN w
    BY DEF Within
  <2>2. QED
    BY <1>3, <2>1, FS_Subset
<1>7. IsFiniteSet(SentRecently(l, w) \cup Held(l))
  BY <1>4, <1>5, FS_Union
<1>8. QED
  BY <1>3, <1>4, <1>5, <1>6, <1>7

(* Pruning at a later time keeps the invariant. *)
LEMMA AdvanceInv ==
    ASSUME NEW l, NEW w, NEW t \in Nat, Inv(l, w)
    PROVE  Inv(LedgerAdvance(l, t), w)
<1> DEFINE n == Later(l.now, t)
           a == LedgerAdvance(l, t)
           S == Retained(l, n)
<1>1. /\ l.now \in Nat /\ n \in Nat /\ l.now <= n
      /\ l \in LedgerType(DOMAIN l.entries)
  BY DEF Inv, Typed, LedgerType, Later
<1>2. S \subseteq DOMAIN l.entries
  BY DEF Retained
<1>3. /\ a.now = n /\ a.entries = [i \in S |-> l.entries[i]] /\ DOMAIN a.entries = S
      /\ a.rpm = l.rpm /\ a.next = l.next /\ a.cleanups = l.cleanups
      /\ a.concurrency = l.concurrency
  BY <1>1 DEF LedgerAdvance, LedgerType, Restrict
<1>4. Typed(a, w)
  <2>1. a \in LedgerType(S)
    BY <1>1, <1>2, <1>3 DEF LedgerAdvance, LedgerType, Restrict
  <2>2. QED
    BY <1>2, <1>3, <2>1 DEF Inv, Typed
<1>5. DebitsMatch(a, w)
  <2>1. ASSUME NEW i \in S PROVE i \in DOMAIN l.entries /\ a.entries[i] = l.entries[i]
    BY <1>2, <1>3
  <2>2. ASSUME NEW i \in DOMAIN w, Known(l.rpm), w[i].at + Window > n
        PROVE  i \in S
    <3>1. w[i].at \in Nat /\ i \in DOMAIN l.entries
      BY <1>1, <2>2, QuotaAssumption DEF Inv, Typed, DebitsMatch
    <3>2. CASE l.entries[i].started
      BY <2>2, <3>1, <3>2 DEF Inv, DebitsMatch, Retained, Live
    <3>3. CASE ~l.entries[i].started
      BY <3>1, <3>3 DEF Inv, DebitsMatch, Retained
    <3>4. QED
      BY <3>2, <3>3
  <2>3. ASSUME NEW i \in DOMAIN w PROVE w[i].at <= n
    <3>1. w[i].at \in Nat /\ w[i].at <= l.now
      BY DEF Inv, Typed, DebitsMatch
    <3>2. QED
      BY <1>1, <3>1
  <2>4. QED
    BY <1>3, <2>1, <2>2, <2>3 DEF Inv, DebitsMatch
<1>6. Held(a) = Held(l) /\ Active(a) = Active(l)
  BY <1>2, <1>3 DEF Held, Active, Retained, Inv, DebitsMatch
<1>7. RpmBudget(a, w)
  <2>1. SentRecently(a, w) \subseteq SentRecently(l, w)
    <3>1. ASSUME NEW i \in DOMAIN w PROVE w[i].at \in Nat
      BY DEF Inv, Typed
    <3>2. QED
      BY <1>1, <1>3, <3>1, QuotaAssumption DEF SentRecently
  <2>2. SentRecently(a, w) \cup Held(a) \subseteq SentRecently(l, w) \cup Held(l)
    BY <1>6, <2>1
  <2>3. /\ IsFiniteSet(SentRecently(l, w) \cup Held(l))
        /\ IsFiniteSet(SentRecently(a, w) \cup Held(a))
    BY <1>4, FiniteParts DEF Inv
  <2>4. Cardinality(SentRecently(a, w) \cup Held(a))
          <= Cardinality(SentRecently(l, w) \cup Held(l))
    BY <2>2, <2>3, FS_Subset
  <2>5. /\ Cardinality(SentRecently(a, w) \cup Held(a)) \in Nat
        /\ Cardinality(SentRecently(l, w) \cup Held(l)) \in Nat
        /\ l.rpm \in Nat
    BY <1>1, <2>3, FS_CardinalityType DEF LedgerType
  <2>6. QED
    BY <1>3, <2>4, <2>5 DEF RpmBudget, Inv
<1>8. Rolling(a, w)
  BY <1>3 DEF Inv, Rolling
<1>9. Settled(a)
  <2>1. IsFiniteSet(DOMAIN l.entries)
    BY FiniteParts DEF Inv
  <2>2. Cardinality(S) <= Cardinality(DOMAIN l.entries)
    BY <1>2, <2>1, FS_Subset
  <2>3. Cardinality(S) \in Nat /\ Cardinality(DOMAIN l.entries) \in Nat
    BY <1>2, <2>1, FS_Subset, FS_CardinalityType
  <2>4. QED
    BY <1>3, <1>6, <2>2, <2>3, QuotaAssumption DEF Inv, Settled
<1>10. QED
  BY <1>4, <1>5, <1>7, <1>8, <1>9 DEF Inv

(* While RPM is known, the debits a check counts are the recent sends. *)
LEMMA LiveIsRecent ==
    ASSUME NEW l, NEW w, Inv(l, w), Known(l.rpm)
    PROVE  RpmLive(l) = SentRecently(l, w)
<1>1. l.now \in Nat
  BY DEF Inv, Typed, LedgerType
<1>2. ASSUME NEW i \in RpmLive(l) PROVE i \in SentRecently(l, w)
  <2>1. i \in DOMAIN l.entries /\ l.entries[i].rpm_until > l.now
    BY DEF RpmLive, Live
  <2>2. l.entries[i].started
    BY <1>1, <2>1 DEF Inv, DebitsMatch, Never
  <2>3. QED
    BY <2>1, <2>2 DEF Inv, DebitsMatch, SentRecently
<1>3. ASSUME NEW i \in SentRecently(l, w) PROVE i \in RpmLive(l)
  <2>1. i \in DOMAIN w /\ w[i].at + Window > l.now
    BY DEF SentRecently
  <2>2. i \in DOMAIN l.entries
    BY <2>1 DEF Inv, DebitsMatch
  <2>3. l.entries[i].started
    BY <2>1, <2>2 DEF Inv, DebitsMatch
  <2>4. QED
    BY <2>1, <2>2, <2>3 DEF Inv, DebitsMatch, RpmLive, Live
<1>4. QED
  BY <1>2, <1>3

(* Admitting what fits: the new hold takes the last free place at most.    *)
LEMMA AdmitInv ==
    ASSUME NEW l, NEW w, NEW cost \in Cost, Inv(l, w), LedgerFits(l, cost)
    PROVE  Inv(LedgerAdmit(l, cost), w)
<1> DEFINE id == l.next + 1
           b == LedgerAdmit(l, cost)
           D == DOMAIN l.entries
<1>1. /\ l \in LedgerType(D) /\ l.next \in Nat /\ l.rpm \in Nat /\ l.concurrency \in Nat
      /\ l.cleanups \in Nat /\ l.tpm \in Nat
      /\ D \subseteq 1 .. l.next /\ DOMAIN w \subseteq 1 .. l.next
  BY DEF Inv, Typed, LedgerType
<1>2. id \notin D /\ id \notin DOMAIN w /\ id \in 1 .. MaxId
  BY <1>1, QuotaAssumption DEF LedgerFits
<1>3. NewEntry(l, cost) \in Entry
  BY <1>1 DEF NewEntry, Entry, Cost, Known, Never, IsGeneration, NotKnown
<1>4. /\ b.next = id /\ b.now = l.now /\ b.rpm = l.rpm /\ b.cleanups = l.cleanups
      /\ b.concurrency = l.concurrency
      /\ b.entries = [i \in D \cup {id} |-> IF i = id THEN NewEntry(l, cost)
                                                      ELSE l.entries[i]]
      /\ DOMAIN b.entries = D \cup {id}
      /\ b.entries[id] = NewEntry(l, cost)
      /\ \A i \in D : b.entries[i] = l.entries[i]
  BY <1>1, <1>2 DEF LedgerAdmit, LedgerType
<1>5. Typed(b, w)
  <2>1. b \in LedgerType(D \cup {id})
    <3> DEFINE E == [i \in D \cup {id} |-> IF i = id THEN NewEntry(l, cost)
                                                     ELSE l.entries[i]]
    <3>1. b = [l EXCEPT !.next = id, !.entries = E]
      BY DEF LedgerAdmit
    <3>2. E \in [D \cup {id} -> Entry]
      BY <1>1, <1>3 DEF LedgerType
    <3>3. id \in 0 .. MaxId
      BY <1>2, QuotaAssumption
    <3> HIDE DEF E, b, id
    <3>4. QED
      BY <1>1, <3>1, <3>2, <3>3 DEF LedgerType
  <2>2. D \cup {id} \subseteq 1 .. id /\ DOMAIN w \subseteq 1 .. id
    BY <1>1
  <2>3. QED
    BY <1>4, <2>1, <2>2 DEF Inv, Typed
<1>6. ~NewEntry(l, cost).started /\ NewEntry(l, cost).active
      /\ NewEntry(l, cost).rpm_until = Never
  BY DEF NewEntry
<1>7. DebitsMatch(b, w)
  BY <1>2, <1>4, <1>6 DEF Inv, DebitsMatch
<1>8. /\ Held(b) = Held(l) \cup {id} /\ Active(b) = Active(l) \cup {id}
      /\ SentRecently(b, w) = SentRecently(l, w)
      /\ id \notin Active(l)
  BY <1>2, <1>4, <1>6 DEF Held, Active, SentRecently
<1>9. /\ IsFiniteSet(D) /\ IsFiniteSet(Active(l)) /\ IsFiniteSet(Held(l))
      /\ IsFiniteSet(SentRecently(l, w)) /\ IsFiniteSet(SentRecently(l, w) \cup Held(l))
  BY FiniteParts DEF Inv
<1>10. RpmBudget(b, w)
  <2>1. SUFFICES ASSUME Known(l.rpm)
                 PROVE  Cardinality(SentRecently(b, w) \cup Held(b)) <= l.rpm
    BY <1>4 DEF RpmBudget
  <2> DEFINE U == SentRecently(l, w) \cup Held(l)
  <2>2. Cardinality(RpmLive(l)) + Cardinality(Held(l)) < l.rpm
    BY <2>1 DEF LedgerFits
  <2>3. Cardinality(SentRecently(l, w)) + Cardinality(Held(l)) < l.rpm
    BY <2>1, <2>2, LiveIsRecent
  <2>4. /\ Cardinality(SentRecently(l, w)) \in Nat /\ Cardinality(Held(l)) \in Nat
        /\ Cardinality(SentRecently(l, w) \cap Held(l)) \in Nat /\ Cardinality(U) \in Nat
        /\ IsFiniteSet(U)
    BY <1>9, FS_CardinalityType, FS_Intersection
  <2>5. Cardinality(U) = Cardinality(SentRecently(l, w)) + Cardinality(Held(l))
                           - Cardinality(SentRecently(l, w) \cap Held(l))
    BY <1>9, FS_Union
  <2>6. Cardinality(U) < l.rpm
    BY <1>1, <2>3, <2>4, <2>5
  <2>7. SentRecently(b, w) \cup Held(b) = U \cup {id}
    BY <1>8
  <2> DEFINE X == U \cup {id}
  <2>8. Cardinality(X) = IF id \in U THEN Cardinality(U) ELSE Cardinality(U) + 1
    BY <2>4, FS_AddElement
  <2>9. Cardinality(SentRecently(b, w) \cup Held(b)) = Cardinality(X)
    BY <2>7
  <2> HIDE DEF U, X, b, id
  <2>10. Cardinality(X) <= l.rpm
    BY <1>1, <2>4, <2>6, <2>8
  <2>11. QED
    BY <2>9, <2>10
<1>11. Rolling(b, w)
  BY <1>4 DEF Inv, Rolling
<1>12. Settled(b)
  <2>1. /\ Cardinality(Active(l)) \in Nat /\ Cardinality(D) \in Nat
    BY <1>9, FS_CardinalityType
  <2>2. /\ Cardinality(Active(l) \cup {id}) = Cardinality(Active(l)) + 1
        /\ Cardinality(D \cup {id}) = Cardinality(D) + 1
    BY <1>2, <1>8, <1>9, FS_AddElement
  <2>3. Cardinality(Active(l)) < l.concurrency /\ Cardinality(D) < MaxEntries
    BY DEF LedgerFits
  <2>4. QED
    BY <1>1, <1>4, <1>8, <2>1, <2>2, <2>3, QuotaAssumption DEF Inv, Settled
<1>13. QED
  BY <1>5, <1>7, <1>10, <1>11, <1>12 DEF Inv

(* The history after reservation id is sent by ledger l. *)
Sent(l, w, id) ==
    [i \in DOMAIN w \cup {id} |->
        IF i = id THEN [at |-> l.now, tokens |-> l.entries[id].tokens] ELSE w[i]]

(* What starting does to one entry. *)
LEMMA StartedEntryType ==
    ASSUME NEW l, l.now \in Nat, NEW e \in Entry
    PROVE  /\ StartedEntry(l, e) \in Entry
           /\ StartedEntry(l, e).started
           /\ StartedEntry(l, e).active = e.active
           /\ Known(l.rpm) => StartedEntry(l, e).rpm_until = l.now + Window
<1> DEFINE r == IF Known(l.rpm) THEN l.now + Window ELSE Never
           u == IF Known(l.tpm) /\ e.tokens > 0 THEN l.now + Window ELSE Never
<1>1. r \in Nat /\ u \in Nat /\ (Known(l.rpm) => r = l.now + Window)
  BY QuotaAssumption DEF Never
<1>2. StartedEntry(l, e) = [e EXCEPT !.started = TRUE, !.rpm_until = r, !.tpm_until = u]
  BY DEF StartedEntry
<1> HIDE DEF r, u
<1>3. QED
  BY <1>1, <1>2 DEF Entry

(* Sending turns a hold into a debit.  The only windows that gain a send   *)
(* are those that reach the present, and all they hold is recent.          *)
LEMMA StartInv ==
    ASSUME NEW l, NEW w, NEW id, Inv(l, w), CanStart(l, id)
    PROVE  Inv([l EXCEPT !.entries[id] = StartedEntry(l, @)], Sent(l, w, id))
<1> DEFINE D == DOMAIN l.entries
           v == Sent(l, w, id)
           b == [l EXCEPT !.entries[id] = StartedEntry(l, @)]
<1>1. /\ l \in LedgerType(D) /\ l.next \in Nat /\ l.rpm \in Nat /\ l.now \in Nat
      /\ D \subseteq 1 .. l.next /\ DOMAIN w \subseteq 1 .. l.next
      /\ Window \in Nat /\ Window > 0
  BY QuotaAssumption DEF Inv, Typed, LedgerType
<1>2. id \in D /\ l.entries[id].active /\ ~l.entries[id].started /\ l.entries[id] \in Entry
  BY <1>1 DEF CanStart, LedgerType
<1>3. id \notin DOMAIN w
  BY <1>2 DEF Inv, DebitsMatch
<1>4. /\ StartedEntry(l, l.entries[id]) \in Entry
      /\ StartedEntry(l, l.entries[id]).started
      /\ StartedEntry(l, l.entries[id]).active
      /\ Known(l.rpm) => StartedEntry(l, l.entries[id]).rpm_until = l.now + Window
  BY <1>1, <1>2, StartedEntryType
<1>5. /\ b.entries = [l.entries EXCEPT ![id] = StartedEntry(l, l.entries[id])]
      /\ DOMAIN b.entries = D /\ b.entries[id] = StartedEntry(l, l.entries[id])
      /\ \A i \in D \ {id} : b.entries[i] = l.entries[i]
      /\ b.next = l.next /\ b.now = l.now /\ b.rpm = l.rpm /\ b.cleanups = l.cleanups
      /\ b.concurrency = l.concurrency
  BY <1>1, <1>2 DEF LedgerType
<1>6. /\ DOMAIN v = DOMAIN w \cup {id} /\ v[id].at = l.now
      /\ \A i \in DOMAIN w : v[i] = w[i]
  BY <1>3 DEF Sent
<1>7. Typed(b, v)
  <2>1. b \in LedgerType(D)
    BY <1>1, <1>2, <1>4 DEF LedgerType
  <2>2. v \in [DOMAIN w \cup {id} -> [at : Nat, tokens : Nat]]
    BY <1>1, <1>2 DEF Sent, Inv, Typed, Entry
  <2>3. QED
    BY <1>1, <1>2, <1>5, <1>6, <2>1, <2>2 DEF Inv, Typed
<1>8. DebitsMatch(b, v)
  <2>1. ASSUME NEW i \in D
        PROVE  /\ ~b.entries[i].started =>
                    b.entries[i].active /\ b.entries[i].rpm_until = Never /\ i \notin DOMAIN v
               /\ b.entries[i].started =>
                    /\ i \in DOMAIN v
                    /\ Known(b.rpm) => b.entries[i].rpm_until = v[i].at + Window
    <3>1. CASE i = id
      BY <1>4, <1>5, <1>6, <3>1
    <3>2. CASE i # id
      BY <1>5, <1>6, <2>1, <3>2 DEF Inv, DebitsMatch
    <3>3. QED
      BY <3>1, <3>2
  <2>2. ASSUME NEW i \in DOMAIN v
        PROVE  /\ v[i].at <= b.now
               /\ Known(b.rpm) /\ v[i].at + Window > b.now => i \in D
    <3>1. CASE i = id
      BY <1>1, <1>2, <1>5, <1>6, <3>1
    <3>2. CASE i # id
      BY <1>5, <1>6, <2>2, <3>2 DEF Inv, DebitsMatch
    <3>3. QED
      BY <3>1, <3>2
  <2>3. QED
    BY <1>5, <2>1, <2>2 DEF DebitsMatch
<1>9. Held(b) = Held(l) \ {id} /\ id \in Held(l) /\ Active(b) = Active(l)
  BY <1>2, <1>4, <1>5 DEF Held, Active
<1>10. SentRecently(b, v) = SentRecently(l, w) \cup {id}
  BY <1>1, <1>3, <1>5, <1>6 DEF SentRecently
<1>11. SentRecently(b, v) \cup Held(b) = SentRecently(l, w) \cup Held(l)
  BY <1>9, <1>10
<1>12. RpmBudget(b, v)
  BY <1>5, <1>11 DEF Inv, RpmBudget
<1>13. Rolling(b, v)
  <2>1. SUFFICES ASSUME Known(l.rpm), NEW i \in DOMAIN v
                 PROVE  Cardinality(Within(v, i)) <= l.rpm
    BY <1>5 DEF Rolling
  <2>2. \A j \in DOMAIN v : v[j].at \in Nat
    BY <1>7 DEF Typed
  <2>3. CASE l.now < v[i].at + Window
    <3>1. Within(v, i) \subseteq SentRecently(b, v) \cup Held(b)
      <4>1. ASSUME NEW j \in Within(v, i) PROVE j \in SentRecently(b, v)
        <5>1. j \in DOMAIN v /\ v[i].at <= v[j].at
          BY DEF Within
        <5>2. v[j].at + Window > l.now
          BY <1>1, <2>1, <2>2, <2>3, <5>1
        <5>3. QED
          BY <1>5, <5>1, <5>2 DEF SentRecently
      <4>2. QED
        BY <4>1
    <3>2. IsFiniteSet(SentRecently(b, v) \cup Held(b)) /\ IsFiniteSet(Within(v, i))
      BY <1>7, FiniteParts
    <3>3. Cardinality(Within(v, i)) <= Cardinality(SentRecently(b, v) \cup Held(b))
      BY <3>1, <3>2, FS_Subset
    <3>4. Cardinality(SentRecently(b, v) \cup Held(b)) <= l.rpm
      BY <1>5, <1>12, <2>1 DEF RpmBudget
    <3>5. /\ Cardinality(Within(v, i)) \in Nat
          /\ Cardinality(SentRecently(b, v) \cup Held(b)) \in Nat
      BY <3>2, FS_CardinalityType
    <3>6. QED
      BY <1>1, <3>3, <3>4, <3>5
  <2>4. CASE ~(l.now < v[i].at + Window)
    <3>1. i # id
      BY <1>1, <1>6, <2>4
    <3>2. i \in DOMAIN w /\ v[i] = w[i]
      BY <1>6, <2>1, <3>1
    <3>3. Within(v, i) = Within(w, i)
      BY <1>6, <2>4, <3>2 DEF Within
    <3>4. QED
      BY <2>1, <3>2, <3>3 DEF Inv, Rolling
  <2>5. QED
    BY <2>3, <2>4
<1>14. Settled(b)
  BY <1>5, <1>9 DEF Inv, Settled
<1>15. QED
  BY <1>7, <1>8, <1>12, <1>13, <1>14 DEF Inv

(* Replacing the entries and counting one cleanup. *)
Cleaned(l, E) == [l EXCEPT !.entries = E, !.cleanups = @ + 1]

(* What is left of a ledger whose reservation was cleaned up. *)
LEMMA CleanedType ==
    ASSUME NEW S, NEW T, NEW l \in LedgerType(S), NEW E \in [T -> Entry]
    PROVE  /\ Cleaned(l, E) \in LedgerType(T) /\ Cleaned(l, E).entries = E
           /\ Cleaned(l, E).next = l.next /\ Cleaned(l, E).now = l.now
           /\ Cleaned(l, E).rpm = l.rpm /\ Cleaned(l, E).concurrency = l.concurrency
           /\ Cleaned(l, E).cleanups = l.cleanups + 1
<1> DEFINE n == l.cleanups + 1
           b == Cleaned(l, E)
<1>1. n \in Nat /\ b = [l EXCEPT !.entries = E, !.cleanups = n]
  BY DEF LedgerType, Cleaned
<1> HIDE DEF n, b
<1>2. b \in LedgerType(T)
  BY <1>1 DEF LedgerType
<1>3. b.entries = E
  BY <1>1 DEF LedgerType
<1>4. b.next = l.next /\ b.now = l.now /\ b.rpm = l.rpm /\ b.concurrency = l.concurrency
  BY <1>1 DEF LedgerType
<1>5. b.cleanups = n
  BY <1>1 DEF LedgerType
<1>6. QED
  BY <1>2, <1>3, <1>4, <1>5 DEF n, b

(* Cancelling forgets a hold that was never sent. *)
LEMMA CancelInv ==
    ASSUME NEW l, NEW w, NEW id, Inv(l, w), CanStart(l, id)
    PROVE  Inv([l EXCEPT !.entries = Restrict(l.entries, DOMAIN l.entries \ {id}),
                         !.cleanups = @ + 1], w)
<1> DEFINE D == DOMAIN l.entries
           E == Restrict(l.entries, D \ {id})
           b == [l EXCEPT !.entries = E, !.cleanups = @ + 1]
<1>1. /\ l \in LedgerType(D) /\ l.next \in Nat /\ l.rpm \in Nat /\ l.cleanups \in Nat
      /\ l.concurrency \in Nat /\ D \subseteq 1 .. l.next
  BY DEF Inv, Typed, LedgerType
<1>2. id \in D /\ l.entries[id].active /\ ~l.entries[id].started
  BY DEF CanStart
<1>3. /\ E \in [D \ {id} -> Entry] /\ DOMAIN E = D \ {id}
      /\ \A i \in D \ {id} : E[i] = l.entries[i]
  BY <1>1 DEF LedgerType, Restrict
<1>4. /\ b \in LedgerType(D \ {id}) /\ b.entries = E
      /\ b.next = l.next /\ b.now = l.now /\ b.rpm = l.rpm
      /\ b.cleanups = l.cleanups + 1 /\ b.concurrency = l.concurrency
  <2>1. b = Cleaned(l, E)
    BY DEF Cleaned
  <2> HIDE DEF E, b
  <2>2. QED
    BY <1>1, <1>3, <2>1, CleanedType
<1> HIDE DEF E, b
<1>5. Typed(b, w)
  BY <1>1, <1>3, <1>4 DEF Inv, Typed
<1>6. DebitsMatch(b, w)
  BY <1>2, <1>3, <1>4 DEF Inv, DebitsMatch
<1>7. /\ Held(b) \subseteq Held(l) /\ SentRecently(b, w) = SentRecently(l, w)
      /\ Active(b) = Active(l) \ {id} /\ id \in Active(l)
  BY <1>2, <1>3, <1>4 DEF Held, SentRecently, Active
<1>8. /\ IsFiniteSet(D) /\ IsFiniteSet(Active(l)) /\ IsFiniteSet(SentRecently(l, w) \cup Held(l))
      /\ IsFiniteSet(SentRecently(b, w) \cup Held(b))
  BY <1>5, FiniteParts DEF Inv
<1>9. RpmBudget(b, w)
  <2>1. SentRecently(b, w) \cup Held(b) \subseteq SentRecently(l, w) \cup Held(l)
    BY <1>7
  <2>2. Cardinality(SentRecently(b, w) \cup Held(b))
          <= Cardinality(SentRecently(l, w) \cup Held(l))
    BY <1>8, <2>1, FS_Subset
  <2>3. /\ Cardinality(SentRecently(b, w) \cup Held(b)) \in Nat
        /\ Cardinality(SentRecently(l, w) \cup Held(l)) \in Nat
    BY <1>8, FS_CardinalityType
  <2>4. QED
    BY <1>1, <1>4, <2>2, <2>3 DEF Inv, RpmBudget
<1>10. Rolling(b, w)
  BY <1>4 DEF Inv, Rolling
<1>11. Settled(b)
  <2>1. Cardinality(Active(l) \ {id}) = Cardinality(Active(l)) - 1
    BY <1>7, <1>8, FS_RemoveElement
  <2>2. Cardinality(D \ {id}) = Cardinality(D) - 1
    BY <1>2, <1>8, FS_RemoveElement
  <2>3. Cardinality(Active(l)) \in Nat /\ Cardinality(D) \in Nat
    BY <1>8, FS_CardinalityType
  <2>4. QED
    BY <1>1, <1>3, <1>4, <1>7, <2>1, <2>2, <2>3, QuotaAssumption DEF Inv, Settled
<1>12. QED
  BY <1>5, <1>6, <1>9, <1>10, <1>11 DEF Inv, b, E

(* What settling does to one entry. *)
LEMMA SettledEntryType ==
    ASSUME NEW l, l.now \in Nat, NEW e \in Entry, NEW usage \in Nat \cup {NoUsage}
    PROVE  /\ SettledEntry(l, e, usage) \in Entry
           /\ ~SettledEntry(l, e, usage).active
           /\ SettledEntry(l, e, usage).started <=> e.started
           /\ SettledEntry(l, e, usage).rpm_until = e.rpm_until
<1> DEFINE metered == ~e.metadata /\ Known(l.tpm) /\ usage # NoUsage
           live == Live(e.tpm_until, l.now)
           late == metered /\ ~live /\ usage > 0
           k == IF late \/ (metered /\ live /\ l.accounting = "actual")
                THEN usage ELSE e.tokens
           u == IF late THEN l.now + Window ELSE e.tpm_until
<1>1. k \in Nat /\ u \in Nat
  BY QuotaAssumption DEF NoUsage, Entry
<1>2. SettledEntry(l, e, usage) = [e EXCEPT !.active = FALSE, !.tokens = k, !.tpm_until = u]
  BY DEF SettledEntry
<1> HIDE DEF k, u
<1>3. QED
  BY <1>1, <1>2 DEF Entry

(* Settling keeps the send's debit, so nothing about RPM changes. *)
LEMMA SettleInv ==
    ASSUME NEW l, NEW w, NEW id, NEW usage \in Nat \cup {NoUsage}, Inv(l, w),
           id \in DOMAIN l.entries, l.entries[id].active, l.entries[id].started
    PROVE  Inv([l EXCEPT !.entries[id] = SettledEntry(l, @, usage),
                         !.cleanups = @ + 1], w)
<1> DEFINE D == DOMAIN l.entries
           x == SettledEntry(l, l.entries[id], usage)
           b == [l EXCEPT !.entries[id] = SettledEntry(l, @, usage), !.cleanups = @ + 1]
<1>1. /\ l \in LedgerType(D) /\ l.next \in Nat /\ l.now \in Nat /\ l.cleanups \in Nat
      /\ l.concurrency \in Nat /\ l.entries[id] \in Entry
  BY DEF Inv, Typed, LedgerType
<1>2. /\ x \in Entry /\ ~x.active /\ x.started
      /\ x.rpm_until = l.entries[id].rpm_until
  <2> HIDE DEF b, D
  <2>1. l.now \in Nat /\ l.entries[id] \in Entry
    BY <1>1
  <2>2. QED
    BY <2>1, SettledEntryType, ZenonT(40)
<1>3. b = Cleaned(l, [l.entries EXCEPT ![id] = x])
  BY DEF Cleaned
<1> HIDE DEF x, b
<1>4. /\ b \in LedgerType(D)
      /\ b.entries = [l.entries EXCEPT ![id] = x] /\ DOMAIN b.entries = D
      /\ b.next = l.next /\ b.now = l.now /\ b.rpm = l.rpm
      /\ b.cleanups = l.cleanups + 1 /\ b.concurrency = l.concurrency
  <2>1. [l.entries EXCEPT ![id] = x] \in [D -> Entry]
    BY <1>1, <1>2 DEF LedgerType
  <2>2. QED
    BY <1>1, <1>3, <2>1, CleanedType
<1>5. b.entries[id] = x /\ \A i \in D \ {id} : b.entries[i] = l.entries[i]
  BY <1>1, <1>4 DEF LedgerType
<1>6. Typed(b, w)
  BY <1>4 DEF Inv, Typed
<1>7. DebitsMatch(b, w)
  <2>1. ASSUME NEW i \in D
        PROVE  /\ b.entries[i].started = l.entries[i].started
               /\ b.entries[i].rpm_until = l.entries[i].rpm_until
               /\ ~b.entries[i].started => b.entries[i].active = l.entries[i].active
    <3>1. CASE i = id
      BY <1>2, <1>5, <3>1
    <3>2. CASE i # id
      BY <1>5, <3>2
    <3>3. QED
      BY <3>1, <3>2
  <2>2. QED
    BY <1>4, <2>1 DEF Inv, DebitsMatch
<1>8. /\ Held(b) = Held(l) /\ SentRecently(b, w) = SentRecently(l, w)
      /\ Active(b) = Active(l) \ {id} /\ id \in Active(l)
  BY <1>2, <1>4, <1>5 DEF Held, SentRecently, Active
<1>9. RpmBudget(b, w) /\ Rolling(b, w)
  BY <1>4, <1>8 DEF Inv, RpmBudget, Rolling
<1>10. Settled(b)
  <2>1. IsFiniteSet(Active(l))
    BY FiniteParts DEF Inv
  <2>2. Cardinality(Active(l) \ {id}) = Cardinality(Active(l)) - 1
    BY <1>8, <2>1, FS_RemoveElement
  <2>3. Cardinality(Active(l)) \in Nat
    BY <2>1, FS_CardinalityType
  <2>4. QED
    BY <1>1, <1>4, <1>8, <2>2, <2>3 DEF Inv, Settled
<1>11. QED
  BY <1>6, <1>7, <1>9, <1>10 DEF Inv, b

-----------------------------------------------------------------------------
(* Nothing was admitted or sent in the initial state. *)
LEMMA InitInv == Init => Inv(ledger, wire)
<1> SUFFICES ASSUME Init PROVE Inv(ledger, wire)
  OBVIOUS
<1>1. PICK rpm \in RpmLimits, tpm \in TpmLimits, c \in Concurrencies,
           a \in {"reserved", "actual"}, h \in StartupHolds :
             ledger = LedgerNew(rpm, tpm, a, c, 0, h)
  BY DEF Init
<1> DEFINE ready == IF Known(rpm) \/ Known(tpm) THEN 0 + h ELSE 0
<1>2. /\ rpm \in Nat /\ tpm \in Nat /\ c \in Nat \ {0} /\ ready \in Nat
  BY LedgerAssumption
<1>3. ledger = [rpm |-> rpm, tpm |-> tpm, accounting |-> a, concurrency |-> c,
                ready_at |-> ready, now |-> 0, next |-> 0, cleanups |-> 0,
                entries |-> [i \in {} |-> Never]]
  BY <1>1 DEF LedgerNew
<1> HIDE DEF ready
<1>4. /\ DOMAIN ledger.entries = {} /\ ledger.next = 0 /\ ledger.rpm = rpm
      /\ ledger.cleanups = 0 /\ ledger.concurrency = c
  BY <1>3
<1>5. wire = [i \in {} |-> Never] /\ DOMAIN wire = {}
  BY DEF Init
<1>6. Typed(ledger, wire)
  <2>1. ledger \in LedgerType({})
    BY <1>2, <1>3, QuotaAssumption DEF LedgerType
  <2>2. wire \in [{} -> [at : Nat, tokens : Nat]]
    BY <1>5
  <2>3. QED
    BY <1>4, <1>5, <2>1, <2>2 DEF Typed
<1>7. Active(ledger) = {} /\ SentRecently(ledger, wire) \cup Held(ledger) = {}
  BY <1>4, <1>5 DEF Active, SentRecently, Held
<1>8. DebitsMatch(ledger, wire) /\ Rolling(ledger, wire)
  BY <1>4, <1>5 DEF DebitsMatch, Rolling
<1>9. RpmBudget(ledger, wire) /\ Settled(ledger)
  BY <1>2, <1>4, <1>7, FS_EmptySet, QuotaAssumption DEF RpmBudget, Settled
<1>10. QED
  BY <1>6, <1>8, <1>9 DEF Inv

(* Each operation of the ledger keeps the invariant. *)
LEMMA NextInv == Inv(ledger, wire) /\ [Next]_vars => Inv(ledger', wire')
<1> SUFFICES ASSUME Inv(ledger, wire), [Next]_vars PROVE Inv(ledger', wire')
  OBVIOUS
<1>1. ASSUME NEW t \in Times, NEW cost \in Costs, Admit(t, cost)
      PROVE  Inv(ledger', wire')
  <2>1. Inv(LedgerAdvance(ledger, t), wire)
    BY AdvanceInv, LedgerAssumption
  <2>2. QED
    BY <1>1, <2>1, AdmitInv, LedgerAssumption DEF Admit
<1>2. ASSUME NEW t \in Times, NEW id \in Ids, Start(t, id)
      PROVE  Inv(ledger', wire')
  <2>1. Inv(LedgerAdvance(ledger, t), wire)
    BY AdvanceInv, LedgerAssumption
  <2>2. CASE CanStart(LedgerAdvance(ledger, t), id)
    BY <1>2, <2>1, <2>2, StartInv DEF Start, LedgerStart, Sent
  <2>3. CASE ~CanStart(LedgerAdvance(ledger, t), id)
    BY <1>2, <2>1, <2>3 DEF Start, LedgerStart
  <2>4. QED
    BY <2>2, <2>3
<1>3. ASSUME NEW t \in Times, NEW id \in Ids, Cancel(t, id)
      PROVE  Inv(ledger', wire')
  <2>1. Inv(LedgerAdvance(ledger, t), wire)
    BY AdvanceInv, LedgerAssumption
  <2>2. CASE CanStart(LedgerAdvance(ledger, t), id)
    BY <1>3, <2>1, <2>2, CancelInv DEF Cancel, LedgerCancel
  <2>3. CASE ~CanStart(LedgerAdvance(ledger, t), id)
    BY <1>3, <2>1, <2>3 DEF Cancel, LedgerCancel
  <2>4. QED
    BY <2>2, <2>3
<1>4. ASSUME NEW t \in Times, NEW id \in Ids, NEW usage \in Usages \cup {NoUsage},
             Finish(t, id, usage)
      PROVE  Inv(ledger', wire')
  <2> DEFINE a == LedgerAdvance(ledger, t)
             found == id \in DOMAIN a.entries /\ a.entries[id].active /\ a.entries[id].started
             b == [a EXCEPT !.entries[id] = SettledEntry(a, @, usage), !.cleanups = @ + 1]
  <2>1. Inv(a, wire) /\ t \in Nat /\ usage \in Nat \cup {NoUsage}
    BY AdvanceInv, LedgerAssumption
  <2>2. CASE found
    <3>1. Inv(b, wire)
      BY <2>1, <2>2, SettleInv
    <3>2. ledger' = LedgerAdvance(b, t) /\ wire' = wire
      BY <1>4, <2>2 DEF Finish, LedgerFinish
    <3> HIDE DEF b
    <3>3. QED
      BY <2>1, <3>1, <3>2, AdvanceInv
  <2>3. CASE ~found
    BY <1>4, <2>1, <2>3 DEF Finish, LedgerFinish
  <2>4. QED
    BY <2>2, <2>3
<1>5. ASSUME NEW t \in Times, Snapshot(t)
      PROVE  Inv(ledger', wire')
  BY <1>5, AdvanceInv, LedgerAssumption DEF Snapshot
<1>6. CASE UNCHANGED vars
  BY <1>6 DEF vars
<1>7. QED
  BY <1>1, <1>2, <1>3, <1>4, <1>5, <1>6 DEF Next

LedgerInv == Inv(ledger, wire)

(* The inductive invariant holds in every reachable state. *)
LEMMA InvAlways == Spec => []LedgerInv
<1>1. Init => LedgerInv
  BY InitInv DEF LedgerInv
<1>2. LedgerInv /\ [Next]_vars => LedgerInv'
  BY NextInv DEF LedgerInv
<1>3. QED
  BY <1>1, <1>2, PTL DEF Spec

(* Type correctness: no operation of quota.rs leaves the ledger's types,   *)
(* and nothing is retained or sent that was not admitted.                  *)
THEOREM LedgerTyped == Spec => []LedgerTypeOK
<1>1. LedgerInv => LedgerTypeOK
  BY DEF LedgerInv, Inv, Typed, LedgerTypeOK
<1>2. QED
  BY <1>1, InvAlways, PTL

(* The rolling RPM budget of Ledger::check and Ledger::advance: whatever   *)
(* the limit and the calls, no window of length Window holds more sends    *)
(* than the known limit.                                                   *)
THEOREM RollingRpmHolds == Spec => []RollingRpm
<1>1. LedgerInv => RollingRpm
  BY DEF LedgerInv, Inv, Rolling, RollingRpm, Within, SentWithin
<1>2. QED
  BY <1>1, InvAlways, PTL

(* Ledger::cancel and Ledger::finish settle each reservation once, and     *)
(* Ledger::check keeps concurrency and memory within their limits.         *)
THEOREM SettledOnceHolds == Spec => []SettledOnce
<1>1. LedgerInv => SettledOnce
  BY DEF LedgerInv, Inv, Settled, SettledOnce
<1>2. QED
  BY <1>1, InvAlways, PTL

-----------------------------------------------------------------------------
(* Tokens.  What each reservation may be counted for out of what was       *)
(* reserved: all of a hold, and of a debit that still counts for its own   *)
(* send no more than was reserved for it.                                  *)
Reserved(l, w, i) ==
    LET e == l.entries[i]
    IN  IF ~e.started THEN e.tokens
        ELSE IF ~Live(e.tpm_until, l.now) \/ e.tpm_until # w[i].at + Window THEN 0
        ELSE IF e.tokens > w[i].tokens THEN w[i].tokens ELSE e.tokens

Charge(l, w) == [i \in DOMAIN l.entries |-> Reserved(l, w, i)]

(* A hold has no debit; an active reservation has the one of its start;    *)
(* and under Reserved accounting a send that still counts keeps it.        *)
TokensMatch(l, w) ==
    /\ \A i \in DOMAIN l.entries :
         /\ ~l.entries[i].started => l.entries[i].tpm_until = Never
         /\ Known(l.tpm) /\ l.entries[i].started /\ l.entries[i].active =>
              /\ l.entries[i].tokens = w[i].tokens
              /\ l.entries[i].tpm_until = IF w[i].tokens > 0 THEN w[i].at + Window ELSE Never
    /\ Known(l.tpm) /\ l.accounting = "reserved" =>
         \A i \in DOMAIN w :
           w[i].tokens > 0 /\ w[i].at + Window > l.now =>
             /\ i \in DOMAIN l.entries
             /\ l.entries[i].tokens = w[i].tokens
             /\ l.entries[i].tpm_until = w[i].at + Window

TokenBudget(l, w) ==
    Known(l.tpm) => Sum(Charge(l, w), DOMAIN l.entries) <= l.tpm

SentTokens(w) == [i \in DOMAIN w |-> w[i].tokens]

RollingTokens(l, w) ==
    Known(l.tpm) /\ l.accounting = "reserved" =>
        \A i \in DOMAIN w : Sum(SentTokens(w), Within(w, i)) <= l.tpm

TokenInv(l, w) == TokensMatch(l, w) /\ TokenBudget(l, w) /\ RollingTokens(l, w)

TokenOf(l) == [i \in DOMAIN l.entries |-> l.entries[i].tokens]

(* What is charged is a number. *)
LEMMA ReservedNat ==
    ASSUME NEW l, NEW w, Inv(l, w), NEW i \in DOMAIN l.entries
    PROVE  /\ Reserved(l, w, i) \in Nat /\ Charge(l, w)[i] = Reserved(l, w, i)
           /\ l.entries[i] \in Entry /\ l.entries[i].tokens \in Nat
           /\ l.entries[i].tpm_until \in Nat
           /\ l.entries[i].started => /\ i \in DOMAIN w /\ w[i].tokens \in Nat
                                      /\ w[i].at \in Nat /\ w[i].at <= l.now
           /\ Reserved(l, w, i) <= l.entries[i].tokens
<1>1. l.entries[i] \in Entry
  BY DEF Inv, Typed, LedgerType
<1>2. l.entries[i].tokens \in Nat /\ l.entries[i].tpm_until \in Nat
  BY <1>1 DEF Entry
<1>3. l.entries[i].started => /\ i \in DOMAIN w /\ w[i].tokens \in Nat
                              /\ w[i].at \in Nat /\ w[i].at <= l.now
  BY DEF Inv, Typed, DebitsMatch
<1>4. Reserved(l, w, i) \in Nat /\ Reserved(l, w, i) <= l.entries[i].tokens
  BY <1>2, <1>3 DEF Reserved
<1>5. QED
  BY <1>1, <1>2, <1>3, <1>4 DEF Charge

(* The fields every token argument uses. *)
LEMMA LedgerFields ==
    ASSUME NEW l, NEW w, Inv(l, w)
    PROVE  /\ l \in LedgerType(DOMAIN l.entries) /\ l.now \in Nat /\ l.tpm \in Nat
           /\ IsFiniteSet(DOMAIN l.entries) /\ IsFiniteSet(DOMAIN w)
           /\ Window \in Nat /\ Window > 0
           /\ \A i \in DOMAIN w : w[i].at \in Nat /\ w[i].tokens \in Nat
<1>1. Typed(l, w) /\ Window \in Nat /\ Window > 0
  BY QuotaAssumption DEF Inv
<1>2. IsFiniteSet(DOMAIN l.entries) /\ IsFiniteSet(DOMAIN w)
  BY <1>1, FiniteParts
<1>3. \A i \in DOMAIN w : w[i].at \in Nat /\ w[i].tokens \in Nat
  BY <1>1 DEF Typed
<1>4. QED
  BY <1>1, <1>2, <1>3 DEF Typed, LedgerType

(* A change that charges nobody more keeps the budget. *)
LEMMA BudgetShrinks ==
    ASSUME NEW l, NEW w, NEW b, NEW v, Inv(l, w), Inv(b, v), TokenBudget(l, w),
           b.tpm = l.tpm,
           \A i \in DOMAIN b.entries :
              \/ Reserved(b, v, i) = 0
              \/ i \in DOMAIN l.entries /\ Reserved(b, v, i) <= Reserved(l, w, i)
    PROVE  TokenBudget(b, v)
<1> DEFINE f == Charge(b, v)
           g == Charge(l, w)
           S == DOMAIN b.entries
           T == DOMAIN l.entries
<1>1. IsFiniteSet(S) /\ IsFiniteSet(T) /\ l.tpm \in Nat
  BY LedgerFields
<1>2. (\A i \in S : f[i] \in Nat) /\ (\A i \in T : g[i] \in Nat)
  BY ReservedNat
<1>3. \A i \in S : f[i] = 0 \/ (i \in T /\ f[i] <= g[i])
  BY ReservedNat
<1> HIDE DEF f, g, S, T
<1>4. Sum(f, S) <= Sum(g, T)
  BY <1>1, <1>2, <1>3, SumInto
<1>5. Sum(f, S) \in Nat /\ Sum(g, T) \in Nat
  BY <1>1, <1>2, SumNat
<1>6. QED
  BY <1>1, <1>4, <1>5 DEF TokenBudget, f, g, S, T

(* Pruning forgets no debit that still counts. *)
LEMMA AdvanceTokens ==
    ASSUME NEW l, NEW w, NEW t \in Nat, Inv(l, w), TokenInv(l, w)
    PROVE  TokenInv(LedgerAdvance(l, t), w)
<1> DEFINE n == Later(l.now, t)
           a == LedgerAdvance(l, t)
           S == Retained(l, n)
<1>1. /\ l.now \in Nat /\ n \in Nat /\ l.now <= n
      /\ l \in LedgerType(DOMAIN l.entries)
  BY LedgerFields DEF Later
<1>2. S \subseteq DOMAIN l.entries
  BY DEF Retained
<1>3. /\ a.now = n /\ a.entries = [i \in S |-> l.entries[i]] /\ DOMAIN a.entries = S
      /\ a.tpm = l.tpm /\ a.accounting = l.accounting
  BY <1>1 DEF LedgerAdvance, LedgerType, Restrict
<1>4. Inv(a, w)
  BY AdvanceInv
<1>5. \A i \in S : i \in DOMAIN l.entries /\ a.entries[i] = l.entries[i]
  BY <1>2, <1>3
<1> HIDE DEF a
<1>6. TokensMatch(a, w)
  <2>1. ASSUME Known(l.tpm), l.accounting = "reserved", NEW i \in DOMAIN w,
               w[i].tokens > 0, w[i].at + Window > n
        PROVE  /\ i \in S
               /\ l.entries[i].tokens = w[i].tokens
               /\ l.entries[i].tpm_until = w[i].at + Window
    <3>1. w[i].at + Window > l.now
      BY <1>1, <2>1, LedgerFields
    <3>2. /\ i \in DOMAIN l.entries /\ l.entries[i].tokens = w[i].tokens
          /\ l.entries[i].tpm_until = w[i].at + Window
      BY <2>1, <3>1 DEF TokenInv, TokensMatch
    <3>3. QED
      BY <2>1, <3>2 DEF Retained, Live
  <2>2. QED
    BY <1>3, <1>5, <2>1 DEF TokenInv, TokensMatch
<1>7. TokenBudget(a, w)
  <2>1. ASSUME NEW i \in S
        PROVE  Reserved(a, w, i) = 0 \/ Reserved(a, w, i) <= Reserved(l, w, i)
    <3>1. i \in DOMAIN l.entries /\ a.entries[i] = l.entries[i]
      BY <1>5
    <3>2. Live(l.entries[i].tpm_until, n) => Live(l.entries[i].tpm_until, l.now)
      BY <1>1, <3>1, ReservedNat DEF Live
    <3>3. CASE Reserved(a, w, i) = Reserved(l, w, i)
      BY <3>1, <3>3, ReservedNat
    <3>4. QED
      BY <1>3, <3>1, <3>2, <3>3 DEF Reserved
  <2>2. QED
    BY <1>3, <1>4, <1>5, <2>1, BudgetShrinks DEF TokenInv
<1>8. RollingTokens(a, w)
  BY <1>3 DEF TokenInv, RollingTokens
<1>9. QED
  BY <1>6, <1>7, <1>8 DEF TokenInv, a

(* Tokens is the sum of the entries' tokens. *)
LEMMA TokensSum ==
    ASSUME NEW l, NEW S, IsFiniteSet(S), S \subseteq DOMAIN l.entries
    PROVE  Tokens(l, S) = Sum(TokenOf(l), S)
<1> DEFINE f == TokenOf(l)
           h == CHOOSE iter : iter = [s \in SUBSET S |->
                   IF s = {} THEN 0
                   ELSE l.entries[CHOOSE i \in s : TRUE].tokens
                          + iter[s \ {CHOOSE i \in s : TRUE}]]
<1>1. Tokens(l, S) = h[S]
  BY Zenon DEF Tokens, MapThenSumSet, MapThenFoldSet
<1>2. \A s \in SUBSET S : s # {} => f[First(s)] = l.entries[First(s)].tokens
  BY FirstIn DEF TokenOf
<1>3. PICK g : Solves(g, f, S)
  BY SolutionExists
<1> HIDE DEF f
<1>4. g = [s \in SUBSET S |->
             IF s = {} THEN 0
             ELSE l.entries[First(s)].tokens + g[s \ {First(s)}]]
  BY <1>2, <1>3, Zenon DEF Solves
<1>5. h = [s \in SUBSET S |->
             IF s = {} THEN 0
             ELSE l.entries[First(s)].tokens + h[s \ {First(s)}]]
  BY Zenon, <1>4 DEF First
<1> HIDE DEF h
<1>6. Solves(h, f, S)
  BY <1>2, <1>5, Zenon DEF Solves
<1>7. QED
  BY <1>1, <1>6, SumSolves DEF f

(* What check adds up is an upper bound of what is charged. *)
LEMMA ChargeCounted ==
    ASSUME NEW l, NEW w, Inv(l, w), TokenInv(l, w)
    PROVE  /\ Tokens(l, TpmLive(l)) \in Nat /\ Tokens(l, Held(l)) \in Nat
           /\ Sum(Charge(l, w), DOMAIN l.entries)
                <= Tokens(l, TpmLive(l)) + Tokens(l, Held(l))
           /\ Sum(Charge(l, w), DOMAIN l.entries) \in Nat
<1> DEFINE D == DOMAIN l.entries
           f == Charge(l, w)
           g == TokenOf(l)
           A == TpmLive(l)
           B == Held(l)
<1>1. IsFiniteSet(D) /\ A \subseteq D /\ B \subseteq D /\ l.now \in Nat
  BY LedgerFields DEF TpmLive, Held
<1>2. IsFiniteSet(A) /\ IsFiniteSet(B)
  BY <1>1, FS_Subset
<1>3. A \cap B = {}
  BY <1>1 DEF TpmLive, Held, Live, Never, TokenInv, TokensMatch
<1>4. Tokens(l, A) = Sum(g, A) /\ Tokens(l, B) = Sum(g, B)
  <2> HIDE DEF A, B
  <2>1. QED
    BY <1>1, <1>2, TokensSum
<1>5. (\A i \in D : f[i] \in Nat) /\ (\A i \in D : g[i] \in Nat)
  BY ReservedNat DEF TokenOf
<1>6. \A i \in D : f[i] = 0 \/ (i \in A \cup B /\ f[i] <= g[i])
  <2>1. TAKE i \in D
  <2>2. f[i] = Reserved(l, w, i) /\ g[i] = l.entries[i].tokens
        /\ Reserved(l, w, i) <= l.entries[i].tokens
    BY ReservedNat DEF TokenOf
  <2>3. Reserved(l, w, i) = 0 \/ i \in A \cup B
    BY DEF Reserved, TpmLive, Held
  <2>4. QED
    BY <2>2, <2>3
<1> HIDE DEF D, f, g, A, B
<1>7. IsFiniteSet(A \cup B) /\ \A i \in A \cup B : g[i] \in Nat
  BY <1>1, <1>2, <1>5, FS_Union
<1>8. Sum(f, D) <= Sum(g, A \cup B)
  BY <1>1, <1>5, <1>6, <1>7, SumInto
<1>9. Sum(g, A \cup B) = Sum(g, A) + Sum(g, B)
  BY <1>2, <1>3, <1>7, SumUnion
<1>10. Sum(f, D) \in Nat
  BY <1>1, <1>5, SumNat
<1>11. Sum(g, A) \in Nat
  BY <1>2, <1>7, SumNat
<1>12. Sum(g, B) \in Nat
  BY <1>2, <1>7, SumNat
<1>13. QED
  BY <1>4, <1>8, <1>9, <1>10, <1>11, <1>12 DEF D, f, A, B

(* Admitting what fits. *)
LEMMA AdmitTokens ==
    ASSUME NEW l, NEW w, NEW cost \in Cost, Inv(l, w), TokenInv(l, w), LedgerFits(l, cost)
    PROVE  TokenInv(LedgerAdmit(l, cost), w)
<1> DEFINE id == l.next + 1
           b == LedgerAdmit(l, cost)
           D == DOMAIN l.entries
<1>1. /\ l \in LedgerType(D) /\ l.next \in Nat /\ l.now \in Nat /\ l.tpm \in Nat
      /\ D \subseteq 1 .. l.next /\ DOMAIN w \subseteq 1 .. l.next /\ IsFiniteSet(D)
  BY LedgerFields DEF Inv, Typed, LedgerType
<1>2. id \notin D /\ id \notin DOMAIN w
  BY <1>1
<1>3. /\ b.now = l.now /\ b.tpm = l.tpm /\ b.accounting = l.accounting
      /\ DOMAIN b.entries = D \cup {id}
      /\ b.entries[id] = NewEntry(l, cost)
      /\ \A i \in D : b.entries[i] = l.entries[i]
  BY <1>1, <1>2 DEF LedgerAdmit, LedgerType
<1>4. /\ ~b.entries[id].started /\ b.entries[id].tpm_until = Never
      /\ Known(l.tpm) => b.entries[id].tokens = cost.tokens
  BY <1>3 DEF NewEntry
<1>5. Inv(b, w)
  BY AdmitInv
<1> HIDE DEF b, id
<1>6. TokensMatch(b, w)
  BY <1>2, <1>3, <1>4 DEF TokenInv, TokensMatch
<1>7. TokenBudget(b, w)
  <2> SUFFICES ASSUME Known(l.tpm)
               PROVE  Sum(Charge(b, w), D \cup {id}) <= l.tpm
    BY <1>3 DEF TokenBudget
  <2> DEFINE f == Charge(b, w)
             g == Charge(l, w)
  <2>1. \A i \in D \cup {id} : f[i] \in Nat
    BY <1>3, <1>5, ReservedNat
  <2>2. f[id] = cost.tokens
    BY <1>3, <1>4 DEF Charge, Reserved
  <2>3. \A i \in D : f[i] = g[i]
    BY <1>3 DEF Charge, Reserved
  <2> HIDE DEF f, g
  <2>4. Sum(f, D \cup {id}) = f[id] + Sum(f, D)
    BY <1>1, <1>2, <2>1, SumAdd
  <2>5. Sum(f, D) = Sum(g, D)
    BY <1>1, <2>3, SumSame
  <2>6. Tokens(l, TpmLive(l)) + Tokens(l, Held(l)) + cost.tokens <= l.tpm
    BY DEF LedgerFits
  <2>7. /\ Tokens(l, TpmLive(l)) \in Nat /\ Tokens(l, Held(l)) \in Nat
        /\ Sum(g, D) <= Tokens(l, TpmLive(l)) + Tokens(l, Held(l))
        /\ Sum(g, D) \in Nat
    BY ChargeCounted DEF g
  <2>8. cost.tokens \in Nat
    BY DEF Cost
  <2>9. QED
    BY <1>1, <2>2, <2>4, <2>5, <2>6, <2>7, <2>8 DEF f
<1>8. RollingTokens(b, w)
  BY <1>3 DEF TokenInv, RollingTokens
<1>9. QED
  BY <1>6, <1>7, <1>8 DEF TokenInv, b

(* Cancelling forgets a hold. *)
LEMMA CancelTokens ==
    ASSUME NEW l, NEW w, NEW id, Inv(l, w), TokenInv(l, w), CanStart(l, id)
    PROVE  TokenInv([l EXCEPT !.entries = Restrict(l.entries, DOMAIN l.entries \ {id}),
                              !.cleanups = @ + 1], w)
<1> DEFINE D == DOMAIN l.entries
           b == [l EXCEPT !.entries = Restrict(l.entries, D \ {id}), !.cleanups = @ + 1]
<1>1. l \in LedgerType(D) /\ id \in D /\ ~l.entries[id].started
  BY LedgerFields DEF CanStart
<1>2. /\ b.now = l.now /\ b.tpm = l.tpm /\ b.accounting = l.accounting
      /\ b.entries = [i \in D \ {id} |-> l.entries[i]]
  BY <1>1 DEF LedgerType, Restrict
<1>3. DOMAIN b.entries = D \ {id} /\ \A i \in D \ {id} : b.entries[i] = l.entries[i]
  BY <1>2
<1>4. Inv(b, w)
  BY CancelInv
<1> HIDE DEF b
<1>5. id \notin DOMAIN w
  BY <1>1 DEF Inv, DebitsMatch
<1>6. TokensMatch(b, w)
  BY <1>2, <1>3, <1>5 DEF TokenInv, TokensMatch
<1>7. TokenBudget(b, w)
  <2>1. \A i \in D \ {id} : Reserved(b, w, i) = Reserved(l, w, i)
    BY <1>2, <1>3 DEF Reserved
  <2>2. \A i \in D \ {id} : Reserved(b, w, i) <= Reserved(l, w, i)
    BY <2>1, ReservedNat
  <2>3. QED
    BY <1>2, <1>3, <1>4, <2>2, BudgetShrinks DEF TokenInv
<1>8. RollingTokens(b, w)
  BY <1>2 DEF TokenInv, RollingTokens
<1>9. QED
  BY <1>6, <1>7, <1>8 DEF TokenInv, b

(* Under Reserved accounting the recent sends are all charged in full. *)
LEMMA RecentCharged ==
    ASSUME NEW l, NEW w, Inv(l, w), TokensMatch(l, w), TokenBudget(l, w),
           Known(l.tpm), l.accounting = "reserved"
    PROVE  \A S \in SUBSET SentRecently(l, w) : Sum(SentTokens(w), S) <= l.tpm
<1> TAKE S \in SUBSET SentRecently(l, w)
<1> DEFINE f == SentTokens(w)
           g == Charge(l, w)
           D == DOMAIN l.entries
<1>1. S \subseteq DOMAIN w /\ \A i \in S : w[i].at + Window > l.now
  BY DEF SentRecently
<1>2. IsFiniteSet(S) /\ IsFiniteSet(D) /\ l.tpm \in Nat
  BY <1>1, LedgerFields, FS_Subset
<1>3. (\A i \in S : f[i] \in Nat) /\ (\A i \in D : g[i] \in Nat)
  BY <1>1, LedgerFields, ReservedNat DEF SentTokens
<1>4. ASSUME NEW i \in S PROVE f[i] = 0 \/ (i \in D /\ f[i] <= g[i])
  <2>1. f[i] = w[i].tokens /\ w[i].tokens \in Nat /\ w[i].at + Window > l.now
    BY <1>1, LedgerFields DEF SentTokens
  <2>2. CASE w[i].tokens > 0
    <3>1. /\ i \in D /\ l.entries[i].tokens = w[i].tokens
          /\ l.entries[i].tpm_until = w[i].at + Window
      BY <1>1, <2>1, <2>2 DEF TokensMatch
    <3>2. g[i] = w[i].tokens
      BY <2>1, <3>1 DEF Charge, Reserved, Live
    <3>3. QED
      BY <2>1, <3>1, <3>2
  <2>3. QED
    BY <2>1, <2>2
<1> HIDE DEF f, g, D
<1>5. Sum(f, S) <= Sum(g, D)
  BY <1>2, <1>3, <1>4, SumInto
<1>6. Sum(f, S) \in Nat /\ Sum(g, D) \in Nat
  BY <1>2, <1>3, SumNat
<1>7. Sum(g, D) <= l.tpm
  BY DEF TokenBudget, g, D
<1>8. QED
  BY <1>2, <1>5, <1>6, <1>7 DEF f

(* What starting does to the tokens of one entry. *)
LEMMA StartedTokens ==
    ASSUME NEW l, NEW e \in Entry
    PROVE  /\ StartedEntry(l, e).started /\ StartedEntry(l, e).tokens = e.tokens
           /\ StartedEntry(l, e).tpm_until = IF Known(l.tpm) /\ e.tokens > 0
                                             THEN l.now + Window ELSE Never
  BY DEF StartedEntry, Entry

(* Sending turns a hold into a debit of the same tokens. *)
LEMMA StartTokens ==
    ASSUME NEW l, NEW w, NEW id, Inv(l, w), TokenInv(l, w), CanStart(l, id)
    PROVE  TokenInv([l EXCEPT !.entries[id] = StartedEntry(l, @)], Sent(l, w, id))
<1> DEFINE D == DOMAIN l.entries
           v == Sent(l, w, id)
           b == [l EXCEPT !.entries[id] = StartedEntry(l, @)]
<1>1. /\ l \in LedgerType(D) /\ l.now \in Nat /\ l.tpm \in Nat
      /\ Window \in Nat /\ Window > 0
  BY LedgerFields
<1>2. /\ id \in D /\ ~l.entries[id].started /\ l.entries[id] \in Entry
      /\ id \notin DOMAIN w /\ l.entries[id].tokens \in Nat
  BY <1>1, ReservedNat DEF CanStart, Inv, DebitsMatch
<1>3. /\ DOMAIN b.entries = D /\ b.entries[id] = StartedEntry(l, l.entries[id])
      /\ \A i \in D \ {id} : b.entries[i] = l.entries[i]
      /\ b.now = l.now /\ b.tpm = l.tpm /\ b.accounting = l.accounting
  BY <1>1, <1>2 DEF LedgerType
<1>4. /\ DOMAIN v = DOMAIN w \cup {id}
      /\ v[id].at = l.now /\ v[id].tokens = l.entries[id].tokens
      /\ \A i \in DOMAIN w : v[i] = w[i]
  BY <1>2 DEF Sent
<1>5. /\ b.entries[id].started /\ b.entries[id].tokens = v[id].tokens
      /\ b.entries[id].tpm_until = IF Known(l.tpm) /\ v[id].tokens > 0
                                   THEN v[id].at + Window ELSE Never
  BY <1>2, <1>3, <1>4, StartedTokens
<1>6. Inv(b, v)
  BY StartInv
<1> HIDE DEF b, v
<1>7. TokensMatch(b, v)
  <2>1. ASSUME NEW i \in D
        PROVE  /\ ~b.entries[i].started => b.entries[i].tpm_until = Never
               /\ Known(b.tpm) /\ b.entries[i].started /\ b.entries[i].active =>
                    /\ b.entries[i].tokens = v[i].tokens
                    /\ b.entries[i].tpm_until = IF v[i].tokens > 0 THEN v[i].at + Window ELSE Never
    <3>1. CASE i = id
      BY <1>3, <1>5, <3>1
    <3>2. CASE i # id
      <4>1. b.entries[i] = l.entries[i] /\ (l.entries[i].started => v[i] = w[i])
        BY <1>3, <1>4, <3>2, ReservedNat
      <4>2. QED
        BY <1>3, <4>1 DEF TokenInv, TokensMatch
    <3>3. QED
      BY <3>1, <3>2
  <2>2. ASSUME Known(b.tpm), b.accounting = "reserved", NEW i \in DOMAIN v,
               v[i].tokens > 0, v[i].at + Window > b.now
        PROVE  /\ i \in D /\ b.entries[i].tokens = v[i].tokens
               /\ b.entries[i].tpm_until = v[i].at + Window
    <3>1. CASE i = id
      BY <1>2, <1>3, <1>5, <2>2, <3>1
    <3>2. CASE i # id
      BY <1>3, <1>4, <2>2, <3>2 DEF TokenInv, TokensMatch
    <3>3. QED
      BY <3>1, <3>2
  <2>3. QED
    BY <1>3, <2>1, <2>2 DEF TokensMatch
<1>8. TokenBudget(b, v)
  <2>1. ASSUME NEW i \in D PROVE Reserved(b, v, i) = 0 \/ Reserved(b, v, i) <= Reserved(l, w, i)
    <3>1. CASE i = id
      <4>1. Reserved(l, w, i) = l.entries[i].tokens
        BY <1>2, <3>1 DEF Reserved
      <4>2. Reserved(b, v, i) <= b.entries[i].tokens
        BY <1>3, <1>6, ReservedNat
      <4>3. QED
        BY <1>4, <1>5, <3>1, <4>1, <4>2
    <3>2. CASE i # id
      <4>1. b.entries[i] = l.entries[i] /\ (l.entries[i].started => v[i] = w[i])
        BY <1>3, <1>4, <3>2, ReservedNat
      <4>2. Reserved(b, v, i) = Reserved(l, w, i)
        BY <1>3, <4>1 DEF Reserved
      <4>3. QED
        BY <4>2, ReservedNat
    <3>3. QED
      BY <3>1, <3>2
  <2>2. QED
    BY <1>3, <1>6, <2>1, BudgetShrinks DEF TokenInv
<1>9. RollingTokens(b, v)
  <2> SUFFICES ASSUME Known(l.tpm), l.accounting = "reserved", NEW i \in DOMAIN v
               PROVE  Sum(SentTokens(v), Within(v, i)) <= l.tpm
    BY <1>3 DEF RollingTokens
  <2>1. \A j \in DOMAIN v : v[j].at \in Nat
    BY <1>6, LedgerFields
  <2>2. CASE l.now < v[i].at + Window
    <3>1. ASSUME NEW j \in Within(v, i) PROVE j \in SentRecently(b, v)
      <4>1. j \in DOMAIN v /\ v[i].at <= v[j].at
        BY DEF Within
      <4>2. v[j].at + Window > l.now
        BY <1>1, <2>1, <2>2, <4>1
      <4>3. QED
        BY <1>3, <4>1, <4>2 DEF SentRecently
    <3>2. QED
      BY <1>3, <1>6, <1>7, <1>8, <3>1, RecentCharged
  <2>3. CASE ~(l.now < v[i].at + Window)
    <3>1. i # id
      BY <1>1, <1>4, <2>3
    <3>2. i \in DOMAIN w /\ v[i] = w[i]
      BY <1>4, <3>1
    <3>3. Within(v, i) = Within(w, i)
      BY <1>4, <2>3, <3>2 DEF Within
    <3>4. Within(w, i) \subseteq DOMAIN w
      BY DEF Within
    <3>5. \A j \in Within(w, i) : SentTokens(v)[j] = SentTokens(w)[j]
      BY <1>4, <3>4 DEF SentTokens
    <3>6. IsFiniteSet(Within(w, i))
      BY <3>4, LedgerFields, FS_Subset
    <3>7. Sum(SentTokens(v), Within(w, i)) = Sum(SentTokens(w), Within(w, i))
      BY <3>5, <3>6, SumSame
    <3>8. QED
      BY <3>2, <3>3, <3>7 DEF TokenInv, RollingTokens
  <2>4. QED
    BY <2>2, <2>3
<1>10. QED
  BY <1>7, <1>8, <1>9 DEF TokenInv, b, v

(* What settling does to the tokens of one entry. *)
LEMMA SettledTokens ==
    ASSUME NEW l, NEW e \in Entry, NEW usage \in Nat \cup {NoUsage}
    PROVE  LET x == SettledEntry(l, e, usage)
           IN  /\ x.started = e.started /\ x.active = FALSE
               /\ \/ x.tokens = e.tokens /\ x.tpm_until = e.tpm_until
                  \/ /\ x.tpm_until = e.tpm_until /\ x.tokens \in Nat
                     /\ l.accounting = "actual" /\ Live(e.tpm_until, l.now)
                  \/ /\ x.tpm_until = l.now + Window /\ ~Live(e.tpm_until, l.now)
                     /\ x.tokens \in Nat
<1> DEFINE metered == ~e.metadata /\ Known(l.tpm) /\ usage # NoUsage
           live == Live(e.tpm_until, l.now)
           late == metered /\ ~live /\ usage > 0
           k == IF late \/ (metered /\ live /\ l.accounting = "actual")
                THEN usage ELSE e.tokens
           u == IF late THEN l.now + Window ELSE e.tpm_until
           x == [e EXCEPT !.active = FALSE, !.tokens = k, !.tpm_until = u]
<1>1. SettledEntry(l, e, usage) = x
  BY DEF SettledEntry
<1>2. x.started = e.started /\ x.active = FALSE /\ x.tokens = k /\ x.tpm_until = u
  <2> HIDE DEF k, u
  <2>1. QED
    BY DEF Entry
<1>3. \/ k = e.tokens /\ u = e.tpm_until
      \/ u = e.tpm_until /\ k \in Nat /\ l.accounting = "actual" /\ live
      \/ u = l.now + Window /\ ~live /\ k \in Nat
  BY DEF NoUsage
<1> HIDE DEF k, u, x, live
<1>4. QED
  BY <1>1, <1>2, <1>3 DEF live

(* Settling charges a send for no more of its reservation than before: the *)
(* rest of a usage is an overshoot, and a late one counts for no send.     *)
LEMMA SettleTokens ==
    ASSUME NEW l, NEW w, NEW id, NEW usage \in Nat \cup {NoUsage}, Inv(l, w),
           TokenInv(l, w),
           id \in DOMAIN l.entries, l.entries[id].active, l.entries[id].started
    PROVE  TokenInv([l EXCEPT !.entries[id] = SettledEntry(l, @, usage),
                              !.cleanups = @ + 1], w)
<1> DEFINE D == DOMAIN l.entries
           x == SettledEntry(l, l.entries[id], usage)
           b == [l EXCEPT !.entries[id] = SettledEntry(l, @, usage), !.cleanups = @ + 1]
<1>1. /\ l \in LedgerType(D) /\ l.now \in Nat /\ Window \in Nat /\ Window > 0
      /\ l.entries[id] \in Entry /\ l.entries[id].tokens \in Nat
      /\ id \in DOMAIN w /\ w[id].at \in Nat /\ w[id].tokens \in Nat
      /\ w[id].at <= l.now
  BY LedgerFields, ReservedNat
<1>2. /\ DOMAIN b.entries = D /\ b.entries[id] = x
      /\ \A i \in D \ {id} : b.entries[i] = l.entries[i]
      /\ b.now = l.now /\ b.tpm = l.tpm /\ b.accounting = l.accounting
  <2> HIDE DEF x
  <2>1. b = [l EXCEPT !.entries[id] = x, !.cleanups = @ + 1]
    BY DEF x
  <2> HIDE DEF b
  <2>2. QED
    BY <1>1, <2>1 DEF LedgerType
<1>3. /\ x.started /\ ~x.active
      /\ \/ x.tokens = l.entries[id].tokens /\ x.tpm_until = l.entries[id].tpm_until
         \/ /\ x.tpm_until = l.entries[id].tpm_until /\ x.tokens \in Nat
            /\ l.accounting = "actual" /\ Live(l.entries[id].tpm_until, l.now)
         \/ /\ x.tpm_until = l.now + Window /\ ~Live(l.entries[id].tpm_until, l.now)
            /\ x.tokens \in Nat
  BY <1>1, SettledTokens, ZenonT(60)
<1>4. Inv(b, w)
  BY SettleInv
<1>5. Known(l.tpm) =>
        /\ l.entries[id].tokens = w[id].tokens
        /\ l.entries[id].tpm_until = IF w[id].tokens > 0 THEN w[id].at + Window ELSE Never
  BY DEF TokenInv, TokensMatch
<1> HIDE DEF b, x
<1>6. TokensMatch(b, w)
  <2>1. ASSUME NEW i \in D
        PROVE  /\ ~b.entries[i].started => b.entries[i].tpm_until = Never
               /\ Known(b.tpm) /\ b.entries[i].started /\ b.entries[i].active =>
                    /\ b.entries[i].tokens = w[i].tokens
                    /\ b.entries[i].tpm_until = IF w[i].tokens > 0 THEN w[i].at + Window ELSE Never
    <3>1. CASE i = id
      BY <1>2, <1>3, <3>1
    <3>2. CASE i # id
      BY <1>2, <3>2 DEF TokenInv, TokensMatch
    <3>3. QED
      BY <3>1, <3>2
  <2>2. ASSUME Known(b.tpm), b.accounting = "reserved", NEW i \in DOMAIN w,
               w[i].tokens > 0, w[i].at + Window > b.now
        PROVE  /\ i \in D /\ b.entries[i].tokens = w[i].tokens
               /\ b.entries[i].tpm_until = w[i].at + Window
    <3>1. /\ i \in D /\ l.entries[i].tokens = w[i].tokens
          /\ l.entries[i].tpm_until = w[i].at + Window
      BY <1>2, <2>2 DEF TokenInv, TokensMatch
    <3>2. CASE i = id
      <4>1. Live(l.entries[id].tpm_until, l.now)
        BY <1>2, <2>2, <3>1, <3>2 DEF Live
      <4>2. QED
        BY <1>2, <1>3, <2>2, <3>1, <3>2, <4>1
    <3>3. CASE i # id
      BY <1>2, <3>1, <3>3
    <3>4. QED
      BY <3>2, <3>3
  <2>3. QED
    BY <1>2, <2>1, <2>2 DEF TokensMatch
<1>7. TokenBudget(b, w)
  <2> SUFFICES ASSUME Known(l.tpm) PROVE TokenBudget(b, w)
    BY <1>2 DEF TokenBudget
  <2>1. ASSUME NEW i \in D PROVE Reserved(b, w, i) = 0 \/ Reserved(b, w, i) <= Reserved(l, w, i)
    <3>1. CASE i = id
      <4>1. /\ l.entries[id].tokens = w[id].tokens
            /\ l.entries[id].tpm_until = IF w[id].tokens > 0 THEN w[id].at + Window ELSE Never
        BY <1>5
      <4>2. CASE Live(l.entries[id].tpm_until, l.now) /\ x.tpm_until = l.entries[id].tpm_until
        <5>1. l.entries[id].tpm_until = w[id].at + Window
          BY <1>1, <4>1, <4>2 DEF Live, Never
        <5>2. Reserved(l, w, id) = w[id].tokens
          BY <1>1, <4>1, <4>2, <5>1 DEF Reserved
        <5>3. Reserved(b, w, id) = IF x.tokens > w[id].tokens THEN w[id].tokens ELSE x.tokens
          BY <1>2, <1>3, <4>2, <5>1 DEF Reserved
        <5>4. x.tokens \in Nat
          BY <1>1, <1>3
        <5>5. QED
          BY <1>1, <3>1, <5>2, <5>3, <5>4
      <4>3. CASE ~Live(l.entries[id].tpm_until, l.now) /\ x.tpm_until = l.entries[id].tpm_until
        BY <1>2, <1>3, <3>1, <4>3 DEF Reserved
      <4>4. CASE x.tpm_until = l.now + Window /\ ~Live(l.entries[id].tpm_until, l.now)
        <5>1. CASE w[id].tokens > 0
          <6>1. w[id].at + Window <= l.now
            BY <1>1, <4>1, <4>4, <5>1 DEF Live
          <6>2. x.tpm_until # w[id].at + Window
            BY <1>1, <4>4, <6>1
          <6>3. QED
            BY <1>2, <1>3, <3>1, <6>2 DEF Reserved
        <5>2. CASE ~(w[id].tokens > 0)
          <6>1. w[id].tokens = 0 /\ x.tokens \in Nat
            BY <1>1, <1>3, <5>2
          <6>2. QED
            BY <1>2, <1>3, <3>1, <6>1 DEF Reserved
        <5>3. QED
          BY <5>1, <5>2
      <4>5. QED
        BY <1>3, <4>2, <4>3, <4>4
    <3>2. CASE i # id
      <4>1. Reserved(b, w, i) = Reserved(l, w, i)
        BY <1>2, <3>2 DEF Reserved
      <4>2. QED
        BY <4>1, ReservedNat
    <3>3. QED
      BY <3>1, <3>2
  <2>2. QED
    BY <1>2, <1>4, <2>1, BudgetShrinks DEF TokenInv
<1>8. RollingTokens(b, w)
  BY <1>2 DEF TokenInv, RollingTokens
<1>9. QED
  BY <1>6, <1>7, <1>8 DEF TokenInv, b

-----------------------------------------------------------------------------
(* Nothing is charged before the first admission. *)
LEMMA InitTokens == Init => TokenInv(ledger, wire)
<1> SUFFICES ASSUME Init PROVE TokenInv(ledger, wire)
  OBVIOUS
<1>1. PICK rpm \in RpmLimits, tpm \in TpmLimits, c \in Concurrencies,
           a \in {"reserved", "actual"}, h \in StartupHolds :
             ledger = LedgerNew(rpm, tpm, a, c, 0, h)
  BY DEF Init
<1>2. DOMAIN ledger.entries = {} /\ ledger.tpm = tpm /\ tpm \in Nat
  BY <1>1, LedgerAssumption DEF LedgerNew
<1>3. DOMAIN wire = {}
  BY DEF Init
<1>4. Sum(Charge(ledger, wire), {}) = 0
  BY SumStep, FS_EmptySet
<1>5. QED
  BY <1>2, <1>3, <1>4 DEF TokenInv, TokensMatch, TokenBudget, RollingTokens

(* Each operation of the ledger keeps both invariants. *)
LEMMA NextTokens ==
    Inv(ledger, wire) /\ TokenInv(ledger, wire) /\ [Next]_vars => TokenInv(ledger', wire')
<1> SUFFICES ASSUME Inv(ledger, wire), TokenInv(ledger, wire), [Next]_vars
             PROVE  TokenInv(ledger', wire')
  OBVIOUS
<1>0. ASSUME NEW t \in Times
      PROVE  /\ t \in Nat /\ Inv(LedgerAdvance(ledger, t), wire)
             /\ TokenInv(LedgerAdvance(ledger, t), wire)
  BY AdvanceInv, AdvanceTokens, LedgerAssumption
<1>1. ASSUME NEW t \in Times, NEW cost \in Costs, Admit(t, cost)
      PROVE  TokenInv(ledger', wire')
  BY <1>0, <1>1, AdmitTokens, LedgerAssumption DEF Admit
<1>2. ASSUME NEW t \in Times, NEW id \in Ids, Start(t, id)
      PROVE  TokenInv(ledger', wire')
  <2>1. CASE CanStart(LedgerAdvance(ledger, t), id)
    <3> DEFINE a == LedgerAdvance(ledger, t)
    <3>1. Inv(a, wire) /\ TokenInv(a, wire)
      BY <1>0
    <3>2. /\ ledger' = [a EXCEPT !.entries[id] = StartedEntry(a, @)]
          /\ wire' = Sent(a, wire, id)
      BY <1>2, <2>1 DEF Start, LedgerStart, Sent
    <3> HIDE DEF a
    <3>3. TokenInv([a EXCEPT !.entries[id] = StartedEntry(a, @)], Sent(a, wire, id))
      BY <2>1, <3>1, StartTokens DEF a
    <3>4. QED
      BY <3>2, <3>3
  <2>2. CASE ~CanStart(LedgerAdvance(ledger, t), id)
    BY <1>0, <1>2, <2>2 DEF Start, LedgerStart
  <2>3. QED
    BY <2>1, <2>2
<1>3. ASSUME NEW t \in Times, NEW id \in Ids, Cancel(t, id)
      PROVE  TokenInv(ledger', wire')
  <2>1. CASE CanStart(LedgerAdvance(ledger, t), id)
    BY <1>0, <1>3, <2>1, CancelTokens DEF Cancel, LedgerCancel
  <2>2. CASE ~CanStart(LedgerAdvance(ledger, t), id)
    BY <1>0, <1>3, <2>2 DEF Cancel, LedgerCancel
  <2>3. QED
    BY <2>1, <2>2
<1>4. ASSUME NEW t \in Times, NEW id \in Ids, NEW usage \in Usages \cup {NoUsage},
             Finish(t, id, usage)
      PROVE  TokenInv(ledger', wire')
  <2> DEFINE a == LedgerAdvance(ledger, t)
             found == id \in DOMAIN a.entries /\ a.entries[id].active /\ a.entries[id].started
             b == [a EXCEPT !.entries[id] = SettledEntry(a, @, usage), !.cleanups = @ + 1]
  <2>1. Inv(a, wire) /\ TokenInv(a, wire) /\ t \in Nat /\ usage \in Nat \cup {NoUsage}
    BY <1>0, LedgerAssumption
  <2>2. CASE found
    <3>1. Inv(b, wire)
      BY <2>1, <2>2, SettleInv
    <3>2. TokenInv(b, wire)
      BY <2>1, <2>2, SettleTokens
    <3>3. ledger' = LedgerAdvance(b, t) /\ wire' = wire
      BY <1>4, <2>2 DEF Finish, LedgerFinish
    <3> HIDE DEF b
    <3>4. QED
      BY <2>1, <3>1, <3>2, <3>3, AdvanceTokens
  <2>3. CASE ~found
    BY <1>4, <2>1, <2>3 DEF Finish, LedgerFinish
  <2>4. QED
    BY <2>2, <2>3
<1>5. ASSUME NEW t \in Times, Snapshot(t)
      PROVE  TokenInv(ledger', wire')
  BY <1>0, <1>5 DEF Snapshot
<1>6. CASE UNCHANGED vars
  BY <1>6 DEF vars
<1>7. QED
  BY <1>1, <1>2, <1>3, <1>4, <1>5, <1>6 DEF Next

TokensInv == TokenInv(ledger, wire)

(* Both invariants hold in every reachable state. *)
LEMMA TokensAlways == Spec => [](LedgerInv /\ TokensInv)
<1>1. Init => LedgerInv /\ TokensInv
  BY InitInv, InitTokens DEF LedgerInv, TokensInv
<1>2. LedgerInv /\ TokensInv /\ [Next]_vars => (LedgerInv /\ TokensInv)'
  BY NextInv, NextTokens DEF LedgerInv, TokensInv
<1>3. QED
  BY <1>1, <1>2, PTL DEF Spec

(* The sum RollingTpm takes is the sum over the history. *)
LEMMA SentSum ==
    ASSUME NEW S, IsFiniteSet(S), S \subseteq DOMAIN wire
    PROVE  MapThenSumSet(LAMBDA j : wire[j].tokens, S) = Sum(SentTokens(wire), S)
<1> DEFINE f == SentTokens(wire)
           h == CHOOSE iter : iter = [s \in SUBSET S |->
                   IF s = {} THEN 0
                   ELSE wire[CHOOSE i \in s : TRUE].tokens
                          + iter[s \ {CHOOSE i \in s : TRUE}]]
<1>1. MapThenSumSet(LAMBDA j : wire[j].tokens, S) = h[S]
  BY Zenon DEF MapThenSumSet, MapThenFoldSet
<1>2. \A s \in SUBSET S : s # {} => f[First(s)] = wire[First(s)].tokens
  BY FirstIn DEF SentTokens
<1>3. PICK g : Solves(g, f, S)
  BY SolutionExists
<1> HIDE DEF f
<1>4. g = [s \in SUBSET S |->
             IF s = {} THEN 0 ELSE wire[First(s)].tokens + g[s \ {First(s)}]]
  BY <1>2, <1>3, Zenon DEF Solves
<1>5. h = [s \in SUBSET S |->
             IF s = {} THEN 0 ELSE wire[First(s)].tokens + h[s \ {First(s)}]]
  BY Zenon, <1>4 DEF First
<1> HIDE DEF h
<1>6. Solves(h, f, S)
  BY <1>2, <1>5, Zenon DEF Solves
<1>7. QED
  BY <1>1, <1>6, SumSolves DEF f

Over == [i \in DOMAIN ledger.entries |-> Overshoot(i)]

(* And the one TpmOvershootOnlyByUsage takes is the sum over the entries. *)
LEMMA OverSum ==
    ASSUME NEW S, IsFiniteSet(S), S \subseteq DOMAIN ledger.entries
    PROVE  MapThenSumSet(Overshoot, S) = Sum(Over, S)
<1> DEFINE h == CHOOSE iter : iter = [s \in SUBSET S |->
                   IF s = {} THEN 0
                   ELSE Overshoot(CHOOSE i \in s : TRUE)
                          + iter[s \ {CHOOSE i \in s : TRUE}]]
<1>1. MapThenSumSet(Overshoot, S) = h[S]
  BY Zenon DEF MapThenSumSet, MapThenFoldSet
<1>2. \A s \in SUBSET S : s # {} => Over[First(s)] = Overshoot(First(s))
  BY FirstIn DEF Over
<1>3. PICK g : Solves(g, Over, S)
  BY SolutionExists
<1>4. g = [s \in SUBSET S |->
             IF s = {} THEN 0 ELSE Overshoot(First(s)) + g[s \ {First(s)}]]
  BY <1>2, <1>3, Zenon DEF Solves
<1>5. h = [s \in SUBSET S |->
             IF s = {} THEN 0 ELSE Overshoot(First(s)) + h[s \ {First(s)}]]
  BY Zenon, <1>4 DEF First
<1> HIDE DEF h
<1>6. Solves(h, Over, S)
  BY <1>2, <1>5, Zenon DEF Solves
<1>7. QED
  BY <1>1, <1>6, SumSolves

(* Of a debit that counts, what is not charged is an overshoot. *)
LEMMA ChargedOrOver ==
    ASSUME Inv(ledger, wire), TokenInv(ledger, wire)
    PROVE  /\ Tokens(ledger, TpmLive(ledger)) + Tokens(ledger, Held(ledger))
                <= Sum(Charge(ledger, wire), DOMAIN ledger.entries)
                     + MapThenSumSet(Overshoot, TpmLive(ledger))
           /\ MapThenSumSet(Overshoot, TpmLive(ledger)) \in Nat
<1> DEFINE D == DOMAIN ledger.entries
           f == Charge(ledger, wire)
           g == TokenOf(ledger)
           A == TpmLive(ledger)
           B == Held(ledger)
<1>1. IsFiniteSet(D) /\ A \subseteq D /\ B \subseteq D /\ ledger.now \in Nat
  BY LedgerFields DEF TpmLive, Held
<1>2. IsFiniteSet(A) /\ IsFiniteSet(B)
  BY <1>1, FS_Subset
<1>3. A \cap B = {}
  BY <1>1 DEF TpmLive, Held, Live, Never, TokenInv, TokensMatch
<1>4. Tokens(ledger, A) = Sum(g, A) /\ Tokens(ledger, B) = Sum(g, B)
      /\ MapThenSumSet(Overshoot, A) = Sum(Over, A)
  <2> HIDE DEF A, B
  <2>1. QED
    BY <1>1, <1>2, TokensSum, OverSum
<1>5. (\A i \in D : f[i] \in Nat) /\ (\A i \in D : g[i] \in Nat)
  BY ReservedNat DEF TokenOf
<1>6. \A i \in A : Over[i] \in Nat /\ g[i] <= f[i] + Over[i]
  <2>1. TAKE i \in A
  <2> DEFINE e == ledger.entries[i]
  <2>2. i \in D /\ Live(e.tpm_until, ledger.now) /\ e.started
    BY <1>1 DEF TpmLive, Live, Never, TokenInv, TokensMatch
  <2>3. /\ e.tokens \in Nat /\ i \in DOMAIN wire /\ wire[i].tokens \in Nat
        /\ f[i] = Reserved(ledger, wire, i) /\ g[i] = e.tokens
        /\ Over[i] = Overshoot(i)
    BY <2>2, ReservedNat DEF TokenOf, Over
  <2>4. Overshoot(i) \in Nat /\ e.tokens <= Reserved(ledger, wire, i) + Overshoot(i)
    BY <2>2, <2>3 DEF Overshoot, Reserved
  <2>5. QED
    BY <2>3, <2>4
<1>7. \A i \in B : f[i] = g[i]
  BY DEF Charge, Reserved, TokenOf, Held
<1> HIDE DEF D, f, g, A, B
<1>8. Sum(g, A) <= Sum(f, A) + Sum(Over, A)
  <2>1. \A i \in A : f[i] \in Nat /\ g[i] \in Nat
    BY <1>1, <1>5
  <2>2. QED
    BY <1>2, <1>6, <2>1, SumLeq
<1>9. Sum(g, B) = Sum(f, B)
  BY <1>2, <1>7, SumSame
<1>10. Sum(f, A \cup B) = Sum(f, A) + Sum(f, B)
  BY <1>1, <1>2, <1>3, <1>5, SumUnion
<1>11. Sum(f, A \cup B) <= Sum(f, D)
  <2>1. A \cup B \in SUBSET D
    BY <1>1
  <2>2. QED
    BY <1>1, <1>5, <2>1, SumSubset
<1>12. /\ Sum(f, A) \in Nat /\ Sum(g, A) \in Nat /\ Sum(Over, A) \in Nat
  BY <1>1, <1>2, <1>5, <1>6, SumNat
<1>13. Sum(f, B) \in Nat /\ Sum(f, D) \in Nat
  BY <1>1, <1>2, <1>5, SumNat
<1>14. QED
  BY <1>4, <1>8, <1>9, <1>10, <1>11, <1>12, <1>13 DEF D, f, A, B

(* The rolling TPM budget of Ledger::check, start and advance: whatever    *)
(* the limit and the calls, under Reserved accounting the reservations     *)
(* sent within any window of length Window fit the known limit.            *)
THEOREM RollingTpmHolds == Spec => []RollingTpm
<1>1. LedgerInv /\ TokensInv => RollingTpm
  <2> SUFFICES ASSUME LedgerInv, TokensInv, Known(ledger.tpm),
                      ledger.accounting = "reserved", NEW i \in DOMAIN wire
               PROVE  MapThenSumSet(LAMBDA j : wire[j].tokens, SentWithin(i)) <= ledger.tpm
    BY DEF RollingTpm
  <2>1. SentWithin(i) = Within(wire, i)
    BY DEF SentWithin, Within
  <2>2. Sum(SentTokens(wire), SentWithin(i)) <= ledger.tpm
    BY <2>1 DEF TokensInv, TokenInv, RollingTokens
  <2>3. SentWithin(i) \subseteq DOMAIN wire
    BY DEF SentWithin
  <2>4. IsFiniteSet(SentWithin(i))
    BY <2>3, LedgerFields, FS_Subset DEF LedgerInv
  <2>5. MapThenSumSet(LAMBDA j : wire[j].tokens, SentWithin(i))
          = Sum(SentTokens(wire), SentWithin(i))
    BY <2>3, <2>4, SentSum
  <2>6. QED
    BY <2>2, <2>5
<1>2. QED
  BY <1>1, TokensAlways, PTL

(* Ledger::check and Ledger::finish: in both accountings, debits and holds *)
(* exceed the known TPM limit only by usage an upstream reported beyond a  *)
(* reservation.                                                            *)
THEOREM TpmOvershootHolds == Spec => []TpmOvershootOnlyByUsage
<1>1. LedgerInv /\ TokensInv => TpmOvershootOnlyByUsage
  <2> SUFFICES ASSUME LedgerInv, TokensInv, Known(ledger.tpm)
               PROVE  TpmOvershootOnlyByUsage
    BY DEF TpmOvershootOnlyByUsage
  <2> DEFINE spent == Tokens(ledger, TpmLive(ledger)) + Tokens(ledger, Held(ledger))
             charged == Sum(Charge(ledger, wire), DOMAIN ledger.entries)
             over == MapThenSumSet(Overshoot, TpmLive(ledger))
  <2>1. Inv(ledger, wire) /\ TokenInv(ledger, wire) /\ ledger.tpm \in Nat
    BY LedgerFields DEF LedgerInv, TokensInv
  <2>2. spent <= charged + over /\ over \in Nat
    BY <2>1, ChargedOrOver
  <2>3. charged \in Nat /\ spent \in Nat
    BY <2>1, ChargeCounted
  <2>4. charged <= ledger.tpm
    BY <2>1 DEF TokenInv, TokenBudget
  <2> HIDE DEF spent, charged, over
  <2>5. spent <= ledger.tpm + over
    BY <2>1, <2>2, <2>3, <2>4
  <2>6. QED
    BY <2>5 DEF TpmOvershootOnlyByUsage, spent, over
<1>2. QED
  BY <1>1, TokensAlways, PTL
=============================================================================
