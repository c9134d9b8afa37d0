-------------------------- MODULE AdmissionProofs --------------------------
(***************************************************************************)
(* What the admission queue guarantees for any requests, roots, limits and *)
(* delays.  The invariant is Inv(u, rq): the queue u and the requests'     *)
(* records rq have their types (QueueOK), a decided ticket has left its    *)
(* line and an undecided one stands once in the line of its root (Lined),  *)
(* the ledger's active entries and their owners correspond one to one and  *)
(* an entry is started exactly when its owner's hold is (Owned), and while *)
(* a recovery is armed the gated requests of its generation on the wire    *)
(* are the probe (Probing).  It is stated of a queue and of records rather *)
(* than of the variables, because Queue::drive passes through many queues  *)
(* in one step: the lemmas follow the code's calls, each from a queue that *)
(* satisfies Inv to one that does.  The barrier's theorems add Ordered and *)
(* Respects.  The last part is about wake-ups: Wakeful says that whoever   *)
(* sleeps may, since until its timer the queue is Calm, and the lemmas     *)
(* show that Queue::drive leaves a queue at rest and that the time it asks *)
(* for is early enough.                                                    *)
(***************************************************************************)
EXTENDS Admission, SumTheorems, FiniteSetTheorems, SequenceTheorems, TLAPS

(* The types of a ticket, of the recovery and of a request's record. *)
Waiter == [req : Requests, enqueued : Nat, deadline : Nat, sequence : Nat, bypasses : Nat]

Recovery == [armed : BOOLEAN, generation_only : BOOLEAN, probe : Nat]

Request ==
    [phase : {"idle", "waiting", "requeue", "done"} \cup HoldPhases, id : Nat,
     generation : Nat, exhausted : BOOLEAN, timing : {"valid", "missing", "malformed"},
     enqueued : Nat, deadline : Nat, woken : BOOLEAN, wake : Nat, replayed : BOOLEAN,
     requeues : Nat]

(* The ledger is well formed and within its concurrency. *)
LedgerOK(l) ==
    /\ l \in LedgerType(DOMAIN l.entries)
    /\ DOMAIN l.entries \subseteq 1 .. l.next
    /\ l.concurrency = Concurrency
    /\ Cardinality(Active(l)) <= Concurrency

QueueType(ledgers) ==
    [ledger : ledgers, cooldown_until : Nat, generation : Nat, recovery : Recovery,
     no_hint_stage : 1 .. Len(Backoff), roots : [Roots -> Seq(Waiter)], cursor : Roots,
     sequence : Nat, barrier : [root : Roots, sequence : Nat], cell : [Requests -> Nat \cup {Expired}]]

QueueOK(u) == u \in QueueType({u.ledger}) /\ LedgerOK(u.ledger)

(* Whoever stands in a line waits, once, in the line of its root, and its *)
(* ticket is not decided.                                                 *)
Lined(u, rq) ==
    /\ \A r \in Requests : u.cell[r] # NoId => rq[r].phase = "waiting"
    /\ \A root \in Roots : \A k \in DOMAIN u.roots[root] :
          LET w == u.roots[root][k]
          IN  /\ RootOf[w.req] = root /\ rq[w.req].phase = "waiting" /\ u.cell[w.req] = NoId
              /\ \A j \in DOMAIN u.roots[root] : u.roots[root][j].req = w.req => j = k

(* Those who own a reservation, in their ticket's cell or in their hold. *)
Owner(u, rq) == {r \in Requests : u.cell[r] > NoId \/ rq[r].phase \in HoldPhases}

IdOf(u, rq, r) == IF u.cell[r] > NoId THEN u.cell[r] ELSE rq[r].id

(* Reservations and owners correspond one to one. *)
Owned(u, rq) ==
    /\ \A r \in Owner(u, rq) :
          /\ IdOf(u, rq, r) \in Active(u.ledger)
          /\ u.ledger.entries[IdOf(u, rq, r)].started <=> rq[r].phase \in HoldPhases \ {"held"}
    /\ \A i \in Active(u.ledger) : \E r \in Owner(u, rq) : IdOf(u, rq, r) = i
    /\ \A r, s \in Owner(u, rq) : IdOf(u, rq, r) = IdOf(u, rq, s) => r = s

(* The probe's claim is some owner's, a generation's if only generations   *)
(* count, and of the gated requests that were sent in the current          *)
(* generation only the probe is on the wire.                               *)
Claimed(u) ==
    u.recovery.armed /\ u.recovery.probe # NoId =>
        /\ u.recovery.probe \in Active(u.ledger)
        /\ u.recovery.generation_only => ~ u.ledger.entries[u.recovery.probe].metadata

Probing(u, rq) ==
    /\ Claimed(u)
    /\ \A r \in Requests : rq[r].phase = "sent" =>
          /\ rq[r].generation <= u.generation
          /\ (/\ u.recovery.armed /\ rq[r].generation = u.generation
              /\ ~Exempt(u, CostOf[r])) => rq[r].id = u.recovery.probe

Inv(u, rq) ==
    QueueOK(u) /\ rq \in [Requests -> Request] /\ Lined(u, rq) /\ Owned(u, rq) /\ Probing(u, rq)

AdmissionInv == clock \in Nat /\ Inv(q, req)

-----------------------------------------------------------------------------
(* What an operation leaves of the reservations in S. *)
Keeps(l, m, S) ==
    /\ Active(m) = S
    /\ \A i \in S : i \in Active(l) => /\ m.entries[i].started = l.entries[i].started
                                       /\ m.entries[i].metadata = l.entries[i].metadata

(* The configured concurrency is a number. *)
LEMMA ConcurrencyNat == Concurrency \in Nat
BY AdmissionAssumption

(* The active entries of a ledger are finitely many, each an entry in use. *)
LEMMA ActiveFinite ==
    ASSUME NEW l, LedgerOK(l)
    PROVE  /\ IsFiniteSet(Active(l)) /\ Cardinality(Active(l)) \in Nat
           /\ Active(l) \subseteq 1 .. l.next /\ l.next \in Nat
           /\ \A i \in Active(l) : i \in DOMAIN l.entries /\ l.entries[i] \in Entry /\ l.entries[i].active
<1>1. l.next \in Nat
  BY QuotaAssumption DEF LedgerOK, LedgerType
<1>2. IsFiniteSet(1 .. l.next)
  BY <1>1, FS_Interval
<1>3. Active(l) \subseteq 1 .. l.next
  BY DEF LedgerOK, Active
<1>4. IsFiniteSet(Active(l))
  BY <1>2, <1>3, FS_Subset
<1>5. \A i \in Active(l) : i \in DOMAIN l.entries /\ l.entries[i] \in Entry /\ l.entries[i].active
  BY DEF LedgerOK, LedgerType, Active
<1>6. QED
  BY <1>1, <1>3, <1>4, <1>5, FS_CardinalityType

(* Ledger::advance drops settled entries only. *)
LEMMA AdvanceKeeps ==
    ASSUME NEW l, NEW t \in Nat, LedgerOK(l)
    PROVE  /\ LedgerOK(LedgerAdvance(l, t)) /\ Keeps(l, LedgerAdvance(l, t), Active(l))
           /\ \A i \in Active(l) : LedgerAdvance(l, t).entries[i] = l.entries[i]
           /\ LedgerAdvance(l, t).next = l.next
<1> DEFINE n == Later(l.now, t)
           a == LedgerAdvance(l, t)
           S == Retained(l, n)
<1>1. l.now \in Nat /\ n \in Nat /\ l \in LedgerType(DOMAIN l.entries)
  BY DEF LedgerOK, LedgerType, Later
<1>2. S \subseteq DOMAIN l.entries /\ Active(l) \subseteq S
  BY DEF Retained, Active
<1>3. /\ a.entries = [i \in S |-> l.entries[i]] /\ DOMAIN a.entries = S
      /\ a.next = l.next /\ a.concurrency = l.concurrency
  BY <1>1 DEF LedgerAdvance, LedgerType, Restrict
<1>4. a \in LedgerType(S)
  BY <1>1, <1>2, <1>3 DEF LedgerAdvance, LedgerType, Restrict
<1>5. Active(a) = Active(l) /\ \A i \in Active(l) : a.entries[i] = l.entries[i]
  BY <1>2, <1>3 DEF Active
<1> HIDE DEF a, S
<1>6. LedgerOK(a)
  BY <1>2, <1>3, <1>4, <1>5 DEF LedgerOK
<1>7. QED
  BY <1>3, <1>5, <1>6 DEF Keeps, a

(* Ledger::admit adds one entry, active and not started, under a new identity. *)
LEMMA AdmitKeeps ==
    ASSUME NEW l, NEW cost \in Cost, LedgerOK(l), LedgerFits(l, cost)
    PROVE  /\ LedgerOK(LedgerAdmit(l, cost))
           /\ Keeps(l, LedgerAdmit(l, cost), Active(l) \cup {l.next + 1})
           /\ ~LedgerAdmit(l, cost).entries[l.next + 1].started
           /\ LedgerAdmit(l, cost).entries[l.next + 1].metadata <=> ~IsGeneration(cost)
           /\ l.next + 1 \notin Active(l) /\ l.next + 1 \in Nat \ {0}
<1> DEFINE id == l.next + 1
           b == LedgerAdmit(l, cost)
           e == NewEntry(l, cost)
           D == DOMAIN l.entries
<1>1. /\ l.next \in Nat /\ id \in 1 .. MaxId /\ id \in 0 .. MaxId /\ MaxId \in Nat
      /\ l \in LedgerType(D) /\ D \subseteq 1 .. l.next
  BY QuotaAssumption DEF LedgerOK, LedgerType, LedgerFits
<1>2. e \in Entry /\ e.active /\ ~e.started /\ (e.metadata <=> ~IsGeneration(cost))
  BY DEF NewEntry, Entry, Cost, IsGeneration, Never
<1> HIDE DEF e
<1>3. /\ b.entries = [i \in D \cup {id} |-> IF i = id THEN e ELSE l.entries[i]]
      /\ b.next = id /\ b.concurrency = l.concurrency
  BY <1>1 DEF LedgerAdmit, LedgerType, e
<1>4. b \in LedgerType(D \cup {id})
  <2> DEFINE E == [i \in D \cup {id} |-> IF i = id THEN e ELSE l.entries[i]]
  <2>1. E \in [D \cup {id} -> Entry]
    BY <1>1, <1>2 DEF LedgerType
  <2>2. b = [l EXCEPT !.next = id, !.entries = E]
    BY DEF LedgerAdmit, e
  <2> HIDE DEF E, id
  <2>3. QED
    BY <1>1, <2>1, <2>2 DEF LedgerType
<1>5. id \notin Active(l) /\ id \notin D
  BY <1>1 DEF Active
<1> HIDE DEF b
<1>6. /\ Active(b) = Active(l) \cup {id} /\ ~b.entries[id].started
      /\ b.entries[id].metadata <=> ~IsGeneration(cost)
  BY <1>2, <1>3, <1>5 DEF Active
<1>7. \A i \in Active(l) : b.entries[i] = l.entries[i]
  BY <1>3, <1>5 DEF Active
<1>8. Cardinality(Active(b)) <= Concurrency
  <2>1. Cardinality(Active(l) \cup {id}) = Cardinality(Active(l)) + 1
    BY <1>5, ActiveFinite, FS_AddElement
  <2>2. Cardinality(Active(l)) < Concurrency /\ Cardinality(Active(l)) \in Nat
    BY ActiveFinite DEF LedgerFits, LedgerOK
  <2>3. QED
    BY <1>6, <2>1, <2>2, ConcurrencyNat
<1>9. LedgerOK(b)
  BY <1>1, <1>3, <1>4, <1>8 DEF LedgerOK
<1>10. QED
  BY <1>1, <1>5, <1>6, <1>7, <1>9 DEF Keeps, b

(* A ledger one of whose entries is replaced by one that is as active. *)
LEMMA StartKeeps ==
    ASSUME NEW l, NEW t \in Nat, LedgerOK(l), NEW id, CanStart(l, id)
    PROVE  /\ LedgerOK(LedgerStart(l, t, id))
           /\ Active(LedgerStart(l, t, id)) = Active(l)
           /\ LedgerStart(l, t, id).entries[id].started
           /\ LedgerStart(l, t, id).entries[id].metadata = l.entries[id].metadata
           /\ \A i \in Active(l) \ {id} : LedgerStart(l, t, id).entries[i] = l.entries[i]
<1> DEFINE a == LedgerAdvance(l, t)
           D == DOMAIN a.entries
           e == StartedEntry(a, a.entries[id])
<1>1. LedgerOK(a) /\ Active(a) = Active(l) /\ \A i \in Active(l) : a.entries[i] = l.entries[i]
  BY AdvanceKeeps DEF Keeps
<1>2. id \in Active(l) /\ id \in D /\ ~a.entries[id].started /\ a.entries[id].active
  BY <1>1 DEF CanStart, Active
<1> HIDE DEF a
<1>3. a \in LedgerType(D) /\ a.now \in Nat /\ a.entries[id] \in Entry /\ Window \in Nat
  BY <1>1, <1>2, QuotaAssumption DEF LedgerOK, LedgerType
<1>4. e \in Entry /\ e.started /\ e.active /\ e.metadata = a.entries[id].metadata
  <2> DEFINE x == a.entries[id]
             m == IF Known(a.rpm) THEN a.now + Window ELSE Never
             k == IF Known(a.tpm) /\ x.tokens > 0 THEN a.now + Window ELSE Never
  <2>1. m \in Nat /\ k \in Nat
    BY <1>3 DEF Never
  <2>2. e = [x EXCEPT !.started = TRUE, !.rpm_until = m, !.tpm_until = k]
    BY DEF StartedEntry
  <2> HIDE DEF m, k, x, e
  <2>3. x \in Entry /\ x.active
    BY <1>2, <1>3 DEF x
  <2>4. QED
    BY <2>1, <2>2, <2>3 DEF Entry, x
<1> DEFINE E == [i \in D |-> IF i = id THEN e ELSE a.entries[i]]
           b == LedgerStart(l, t, id)
<1>5. b = [a EXCEPT !.entries = E]
  <2>1. b = [a EXCEPT !.entries[id] = e]
    BY <1>2 DEF LedgerStart, CanStart, a
  <2> HIDE DEF e, b
  <2>2. [a.entries EXCEPT ![id] = e] = E
    BY <1>2, <1>3 DEF LedgerType
  <2>3. QED
    BY <1>3, <2>1, <2>2 DEF LedgerType
<1> HIDE DEF e, b
<1>6. E \in [D -> Entry]
  BY <1>3, <1>4 DEF LedgerType
<1>7. \A i \in D : E[i] = IF i = id THEN e ELSE a.entries[i]
  OBVIOUS
<1>8. DOMAIN E = D
  OBVIOUS
<1> HIDE DEF E
<1>9. /\ b \in LedgerType(D) /\ b.entries = E /\ b.next = a.next
      /\ b.concurrency = a.concurrency
  BY <1>3, <1>5, <1>6 DEF LedgerType
<1>10. Active(b) = Active(a)
  BY <1>2, <1>4, <1>7, <1>8, <1>9 DEF Active
<1>11. LedgerOK(b)
  BY <1>1, <1>8, <1>9, <1>10 DEF LedgerOK
<1>12. QED
  BY <1>1, <1>2, <1>4, <1>7, <1>9, <1>10, <1>11, ActiveFinite DEF b

(* Taking a reservation out of the active ones keeps the bound. *)
LEMMA FewerActive ==
    ASSUME NEW l, LedgerOK(l), NEW id \in Active(l)
    PROVE  Cardinality(Active(l) \ {id}) <= Concurrency
<1>1. IsFiniteSet(Active(l)) /\ Cardinality(Active(l)) \in Nat
  BY ActiveFinite
<1>2. Cardinality(Active(l) \ {id}) = Cardinality(Active(l)) - 1
  BY <1>1, FS_RemoveElement
<1>3. QED
  BY <1>1, <1>2, ConcurrencyNat DEF LedgerOK

(* Ledger::cancel removes one reservation that never started. *)
LEMMA CancelKeeps ==
    ASSUME NEW l, NEW t \in Nat, LedgerOK(l), NEW id, CanStart(l, id)
    PROVE  /\ LedgerOK(LedgerCancel(l, t, id))
           /\ Keeps(l, LedgerCancel(l, t, id), Active(l) \ {id})
<1> DEFINE a == LedgerAdvance(l, t)
           D == DOMAIN a.entries
           E == [i \in D \ {id} |-> a.entries[i]]
           b == LedgerCancel(l, t, id)
           c == a.cleanups + 1
<1>1. LedgerOK(a) /\ Active(a) = Active(l) /\ \A i \in Active(l) : a.entries[i] = l.entries[i]
  BY AdvanceKeeps DEF Keeps
<1>2. id \in Active(l) /\ id \in D /\ ~a.entries[id].started /\ a.entries[id].active
  BY <1>1 DEF CanStart, Active
<1>3. b = [a EXCEPT !.entries = E, !.cleanups = c]
  BY <1>2 DEF LedgerCancel, CanStart, Restrict
<1> HIDE DEF a
<1>4. a \in LedgerType(D) /\ E \in [D \ {id} -> Entry] /\ DOMAIN E = D \ {id} /\ c \in Nat
  BY <1>1 DEF LedgerOK, LedgerType
<1>5. \A i \in D \ {id} : E[i] = a.entries[i]
  OBVIOUS
<1> HIDE DEF E, b, c
<1>6. b \in LedgerType(D \ {id}) /\ b.entries = E /\ b.next = a.next /\ b.concurrency = a.concurrency
  BY <1>3, <1>4 DEF LedgerType
<1>7. Active(b) = Active(a) \ {id}
  BY <1>4, <1>5, <1>6 DEF Active
<1>8. Cardinality(Active(b)) <= Concurrency
  BY <1>1, <1>2, <1>7, FewerActive
<1>9. LedgerOK(b)
  BY <1>1, <1>4, <1>6, <1>8 DEF LedgerOK
<1>10. QED
  BY <1>1, <1>5, <1>6, <1>7, <1>9, ActiveFinite DEF Keeps, b

(* Ledger::finish settles one started reservation and touches no other. *)
LEMMA FinishKeeps ==
    ASSUME NEW l, NEW t \in Nat, LedgerOK(l), NEW id \in Active(l), l.entries[id].started,
           NEW usage \in Nat \cup {NoUsage}
    PROVE  /\ LedgerOK(LedgerFinish(l, t, id, usage))
           /\ Keeps(l, LedgerFinish(l, t, id, usage), Active(l) \ {id})
<1> DEFINE a == LedgerAdvance(l, t)
           D == DOMAIN a.entries
           e == SettledEntry(a, a.entries[id], usage)
           c == a.cleanups + 1
           E == [i \in D |-> IF i = id THEN e ELSE a.entries[i]]
           b == [a EXCEPT !.entries = E, !.cleanups = c]
<1>1. LedgerOK(a) /\ Active(a) = Active(l) /\ \A i \in Active(l) : a.entries[i] = l.entries[i]
  BY AdvanceKeeps DEF Keeps
<1>2. id \in D /\ a.entries[id].started /\ a.entries[id].active
  BY <1>1 DEF Active
<1>3. LedgerFinish(l, t, id, usage)
        = LedgerAdvance([a EXCEPT !.entries[id] = e, !.cleanups = c], t)
  BY <1>2 DEF LedgerFinish
<1> HIDE DEF a
<1>4. a \in LedgerType(D) /\ a.now \in Nat /\ a.entries[id] \in Entry /\ Window \in Nat /\ c \in Nat
  BY <1>1, <1>2, QuotaAssumption DEF LedgerOK, LedgerType
<1>5. e \in Entry /\ ~e.active
  <2> DEFINE x == a.entries[id]
             metered == ~x.metadata /\ Known(a.tpm) /\ usage # NoUsage
             live == Live(x.tpm_until, a.now)
             late == metered /\ ~live /\ usage > 0
             k == IF late \/ (metered /\ live /\ a.accounting = "actual")
                  THEN usage ELSE x.tokens
             m == IF late THEN a.now + Window ELSE x.tpm_until
  <2>1. k \in Nat /\ m \in Nat
    BY <1>4 DEF Entry, NoUsage
  <2>2. e = [x EXCEPT !.active = FALSE, !.tokens = k, !.tpm_until = m]
    BY DEF SettledEntry
  <2> HIDE DEF k, m, x, e
  <2>3. x \in Entry
    BY <1>4 DEF x
  <2>4. QED
    BY <2>1, <2>2, <2>3 DEF Entry
<1> HIDE DEF e, c
<1>6. [a EXCEPT !.entries[id] = e, !.cleanups = c] = b
  <2>1. [a.entries EXCEPT ![id] = e] = E
    BY <1>2, <1>4 DEF LedgerType
  <2>2. QED
    BY <1>4, <2>1 DEF LedgerType
<1>7. E \in [D -> Entry] /\ DOMAIN E = D
  BY <1>4, <1>5 DEF LedgerType
<1>8. \A i \in D : E[i] = IF i = id THEN e ELSE a.entries[i]
  OBVIOUS
<1> HIDE DEF E
<1>9. b \in LedgerType(D) /\ b.entries = E /\ b.next = a.next /\ b.concurrency = a.concurrency
  BY <1>4, <1>7 DEF LedgerType
<1> HIDE DEF b
<1>10. Active(b) = Active(a) \ {id}
  BY <1>5, <1>7, <1>8, <1>9 DEF Active
<1>11. Cardinality(Active(b)) <= Concurrency
  BY <1>1, <1>10, FewerActive
<1>12. LedgerOK(b)
  BY <1>1, <1>7, <1>9, <1>11 DEF LedgerOK
<1>13. \A i \in Active(l) \ {id} : b.entries[i] = l.entries[i]
  BY <1>1, <1>8, <1>9, ActiveFinite
<1>14. /\ LedgerOK(LedgerAdvance(b, t)) /\ Active(LedgerAdvance(b, t)) = Active(l) \ {id}
       /\ \A i \in Active(b) : LedgerAdvance(b, t).entries[i] = b.entries[i]
  BY <1>1, <1>10, <1>12, AdvanceKeeps DEF Keeps
<1>15. QED
  BY <1>1, <1>3, <1>6, <1>10, <1>13, <1>14 DEF Keeps

-----------------------------------------------------------------------------
(* Nobody waits twice in a line. *)
Distinct(line) == \A i, j \in DOMAIN line : line[i].req = line[j].req => i = j

(* What Without makes of a line: its recursion up to m, and what is true   *)
(* of the outcome.                                                         *)
Sifts(f, line, gone, m) ==
    f = [n \in 0 .. m |-> IF n = 0 THEN <<>>
                          ELSE IF line[n].req \in gone THEN f[n - 1]
                          ELSE Append(f[n - 1], line[n])]

Sifted(out, line, gone, m) ==
    /\ out \in Seq(Waiter)
    /\ \A i \in DOMAIN out : out[i].req \notin gone /\ \E a \in 1 .. m : out[i] = line[a]
    /\ Distinct(out)
    /\ m > 0 /\ line[1].req \notin gone => out # <<>> /\ out[1] = line[1]

(* The recursion of Without has a solution of every length. *)
LEMMA SiftsExists ==
    ASSUME NEW line \in Seq(Waiter), NEW gone
    PROVE  \A m \in Nat : \E f : Sifts(f, line, gone, m)
<1> DEFINE T == {m \in Nat : ~\E f : Sifts(f, line, gone, m)}
<1> SUFFICES ASSUME T # {} PROVE FALSE
  OBVIOUS
<1>1. PICK m \in T : \A n \in T : m <= n
  BY LeastMember
<1>2. m # 0
  <2> SUFFICES ASSUME m = 0 PROVE \E f : Sifts(f, line, gone, m)
    OBVIOUS
  <2> DEFINE f == [n \in 0 .. 0 |-> <<>>]
  <2>1. Sifts(f, line, gone, 0)
    BY DEF Sifts
  <2>2. QED
    BY <2>1
<1>3. PICK f : Sifts(f, line, gone, m - 1)
  BY <1>1, <1>2
<1> DEFINE g == [n \in 0 .. m |-> IF n = 0 THEN <<>>
                                  ELSE IF line[n].req \in gone THEN f[n - 1]
                                  ELSE Append(f[n - 1], line[n])]
<1>4. \A n \in 0 .. m - 1 : g[n] = f[n]
  <2>1. \A n \in 0 .. m - 1 : f[n] = IF n = 0 THEN <<>>
                                    ELSE IF line[n].req \in gone THEN f[n - 1]
                                    ELSE Append(f[n - 1], line[n])
    BY <1>3, Zenon DEF Sifts
  <2>2. \A n \in 0 .. m - 1 : n \in 0 .. m
    OBVIOUS
  <2>3. \A n \in 0 .. m : g[n] = IF n = 0 THEN <<>>
                                ELSE IF line[n].req \in gone THEN f[n - 1]
                                ELSE Append(f[n - 1], line[n])
    BY Zenon
  <2>4. QED
    BY <2>1, <2>2, <2>3, Zenon
<1>5. Sifts(g, line, gone, m)
  <2>1. \A n \in 0 .. m : n # 0 => n - 1 \in 0 .. m - 1
    BY <1>2
  <2>2. \A n \in 0 .. m : n # 0 => f[n - 1] = g[n - 1]
    BY <1>4, <2>1
  <2>3. QED
    BY <2>2 DEF Sifts
<1>6. QED
  BY <1>5

(* Along that recursion, what is kept are tickets of the line, in order and *)
(* once each, and none of those that go.                                   *)
LEMMA SiftedAll ==
    ASSUME NEW line \in Seq(Waiter), NEW gone, Distinct(line), NEW f,
           Sifts(f, line, gone, Len(line))
    PROVE  \A m \in 0 .. Len(line) : Sifted(f[m], line, gone, m)
<1> DEFINE T == {m \in 0 .. Len(line) : ~Sifted(f[m], line, gone, m)}
<1> SUFFICES ASSUME T # {} PROVE FALSE
  OBVIOUS
<1>1. PICK m \in T : \A n \in T : m <= n
  <2>1. T \subseteq Nat
    OBVIOUS
  <2> HIDE DEF T
  <2>2. QED
    BY <2>1, LeastMember
<1>2. m # 0
  <2>1. f[0] = <<>>
    BY DEF Sifts
  <2>2. Sifted(f[0], line, gone, 0)
    BY <2>1 DEF Sifted, Distinct
  <2>3. QED
    BY <2>2
<1> DEFINE p == f[m - 1]
           w == line[m]
<1>3. m - 1 \in 0 .. Len(line) /\ m \in 1 .. Len(line) /\ w \in Waiter
  BY <1>2
<1>4. Sifted(p, line, gone, m - 1)
  BY <1>1, <1>3
<1>5. f[m] = IF w.req \in gone THEN p ELSE Append(p, w)
  BY <1>2, <1>3 DEF Sifts
<1> HIDE DEF p, w
<1>6. Sifted(f[m], line, gone, m)
  <2>1. CASE w.req \in gone
    <3>1. m > 1 \/ line[1].req \in gone
      BY <1>3, <2>1 DEF w
    <3>2. QED
      BY <1>3, <1>4, <1>5, <2>1, <3>1 DEF Sifted
  <2>2. CASE w.req \notin gone
    <3> DEFINE out == Append(p, w)
    <3>1. p \in Seq(Waiter) /\ Len(p) \in Nat
      BY <1>4 DEF Sifted
    <3>2. /\ out \in Seq(Waiter) /\ DOMAIN out = 1 .. Len(p) + 1 /\ Len(out) = Len(p) + 1
          /\ out[Len(p) + 1] = w /\ \A i \in 1 .. Len(p) : out[i] = p[i]
      BY <1>3, <3>1
    <3> HIDE DEF out
    <3>3. DOMAIN p = 1 .. Len(p)
      BY <3>1
    <3>4. \A i \in 1 .. Len(p) : p[i].req # w.req
      <4> SUFFICES ASSUME NEW i \in 1 .. Len(p) PROVE p[i].req # w.req
        OBVIOUS
      <4>1. PICK a \in 1 .. m - 1 : p[i] = line[a]
        BY <1>4, <3>3 DEF Sifted
      <4>2. a \in DOMAIN line /\ m \in DOMAIN line /\ a # m
        BY <1>3
      <4>3. QED
        BY <4>1, <4>2 DEF Distinct, w
    <3>5. Distinct(out)
      <4> SUFFICES ASSUME NEW i \in 1 .. Len(p) + 1, NEW j \in 1 .. Len(p) + 1,
                          out[i].req = out[j].req
                   PROVE  i = j
        BY <3>2 DEF Distinct
      <4>1. CASE i \in 1 .. Len(p) /\ j \in 1 .. Len(p)
        BY <1>4, <3>2, <3>3, <4>1, ZenonT(60) DEF Sifted, Distinct
      <4>2. CASE i = Len(p) + 1 \/ j = Len(p) + 1
        BY <3>1, <3>2, <3>4, <4>2
      <4>3. QED
        BY <3>1, <4>1, <4>2
    <3>6. \A i \in DOMAIN out : out[i].req \notin gone /\ \E a \in 1 .. m : out[i] = line[a]
      <4> SUFFICES ASSUME NEW i \in 1 .. Len(p) + 1
                   PROVE  out[i].req \notin gone /\ \E a \in 1 .. m : out[i] = line[a]
        BY <3>2
      <4>1. CASE i = Len(p) + 1
        BY <1>3, <2>2, <3>2, <4>1 DEF w
      <4>2. CASE i # Len(p) + 1
        <5>1. i \in 1 .. Len(p)
          BY <3>1, <4>2
        <5>2. p[i].req \notin gone /\ \E a \in 1 .. m - 1 : p[i] = line[a]
          BY <1>4, <3>3, <5>1 DEF Sifted
        <5>3. QED
          BY <1>3, <3>2, <5>1, <5>2
      <4>3. QED
        BY <4>1, <4>2
    <3>7. line[1].req \notin gone => out # <<>> /\ out[1] = line[1]
      <4> SUFFICES ASSUME line[1].req \notin gone PROVE out # <<>> /\ out[1] = line[1]
        OBVIOUS
      <4>1. out # <<>>
        BY <3>1, <3>2
      <4>2. CASE m = 1
        <5>1. p = <<>>
          BY <4>2 DEF p, Sifts
        <5>2. QED
          BY <3>2, <4>1, <4>2, <5>1 DEF w
      <4>3. CASE m # 1
        <5>1. m - 1 > 0
          BY <1>3, <4>3
        <5>2. p # <<>> /\ p[1] = line[1]
          BY <1>4, <5>1 DEF Sifted
        <5>3. 1 \in 1 .. Len(p)
          BY <3>1, <5>2
        <5>4. QED
          BY <3>2, <4>1, <5>2, <5>3
      <4>4. QED
        BY <4>2, <4>3
    <3>8. QED
      BY <1>5, <2>2, <3>2, <3>5, <3>6, <3>7 DEF Sifted, out
  <2>3. QED
    BY <2>1, <2>2
<1>7. QED
  BY <1>6

(* retain and remove keep the order of a line and who is in it once. *)
LEMMA WithoutSifts ==
    ASSUME NEW line \in Seq(Waiter), NEW gone, Distinct(line)
    PROVE  Sifted(Without(line, gone), line, gone, Len(line))
<1> DEFINE k == CHOOSE kept : kept = [n \in 0 .. Len(line) |->
                    IF n = 0 THEN <<>>
                    ELSE IF line[n].req \in gone THEN kept[n - 1]
                    ELSE Append(kept[n - 1], line[n])]
<1>1. Without(line, gone) = k[Len(line)]
  BY Zenon DEF Without
<1>2. Len(line) \in Nat
  OBVIOUS
<1>3. \E kept : Sifts(kept, line, gone, Len(line))
  BY <1>2, SiftsExists
<1>4. k = [n \in 0 .. Len(line) |-> IF n = 0 THEN <<>>
                    ELSE IF line[n].req \in gone THEN k[n - 1]
                    ELSE Append(k[n - 1], line[n])]
  BY <1>3, Zenon DEF Sifts
<1> HIDE DEF k
<1>5. Sifts(k, line, gone, Len(line))
  BY <1>4, Zenon DEF Sifts
<1>6. Len(line) \in 0 .. Len(line)
  BY <1>2
<1>7. QED
  BY <1>1, <1>5, <1>6, SiftedAll

-----------------------------------------------------------------------------
(* The fields of a queue. *)
LEMMA QueueFields ==
    ASSUME NEW u, QueueOK(u)
    PROVE  /\ u.recovery \in Recovery /\ u.generation \in Nat /\ u.cooldown_until \in Nat
           /\ u.roots \in [Roots -> Seq(Waiter)] /\ u.sequence \in Nat
           /\ u.cell \in [Requests -> Nat \cup {Expired}]
           /\ u.no_hint_stage \in 1 .. Len(Backoff) /\ LedgerOK(u.ledger)
BY DEF QueueOK, QueueType

(* Nothing that ownership speaks of has changed. *)
LEMMA OwnedSame ==
    ASSUME NEW u, NEW v, NEW rq, NEW sq, Owned(u, rq),
           \A r \in Requests : /\ sq[r].phase = rq[r].phase /\ sq[r].id = rq[r].id
                               /\ v.cell[r] > NoId <=> u.cell[r] > NoId
                               /\ u.cell[r] > NoId => v.cell[r] = u.cell[r],
           Keeps(u.ledger, v.ledger, Active(u.ledger))
    PROVE  Owned(v, sq)
<1>1. Owner(v, sq) = Owner(u, rq)
  BY DEF Owner
<1>2. \A r \in Requests : IdOf(v, sq, r) = IdOf(u, rq, r)
  BY DEF IdOf
<1>3. \A r \in Owner(u, rq) : r \in Requests
  BY DEF Owner
<1>4. QED
  BY <1>1, <1>2, <1>3 DEF Owned, Keeps

(* Nothing that the recovery speaks of has changed. *)
LEMMA ProbingSame ==
    ASSUME NEW u, NEW v, NEW rq, NEW sq, Probing(u, rq),
           \A r \in Requests : /\ sq[r].phase = rq[r].phase /\ sq[r].id = rq[r].id
                               /\ sq[r].generation = rq[r].generation,
           Keeps(u.ledger, v.ledger, Active(u.ledger)),
           v.recovery = u.recovery, v.generation = u.generation
    PROVE  Probing(v, sq)
<1>1. Claimed(v)
  BY DEF Probing, Claimed, Keeps
<1>2. QED
  BY <1>1 DEF Probing, Exempt

(* A step that touches neither tickets nor the recovery. *)
LEMMA FrameInv ==
    ASSUME NEW u, NEW v, NEW rq, Inv(u, rq), QueueOK(v),
           v.roots = u.roots, v.cell = u.cell,
           v.recovery = u.recovery, v.generation = u.generation,
           Keeps(u.ledger, v.ledger, Active(u.ledger))
    PROVE  Inv(v, rq)
<1>1. Owned(v, rq)
  BY OwnedSame DEF Inv
<1>2. Probing(v, rq)
  BY ProbingSame DEF Inv, Keeps
<1>3. Lined(v, rq)
  BY DEF Inv, Lined
<1>4. QED
  BY <1>1, <1>2, <1>3 DEF Inv

(* Notify::notify_waiters changes nothing that the queue speaks of. *)
Alike(rq, sq) ==
    \A r \in Requests : /\ sq[r].phase = rq[r].phase /\ sq[r].id = rq[r].id
                        /\ sq[r].generation = rq[r].generation

(* Waking waiters and setting timers keep the invariant. *)
LEMMA AlikeInv ==
    ASSUME NEW u, NEW rq, NEW sq, Inv(u, rq), Alike(rq, sq), sq \in [Requests -> Request]
    PROVE  Inv(u, sq)
<1> Keeps(u.ledger, u.ledger, Active(u.ledger))
  BY DEF Keeps
<1>1. Owned(u, sq)
  BY OwnedSame DEF Inv, Alike
<1>2. Probing(u, sq)
  BY ProbingSame DEF Inv, Alike
<1>3. Lined(u, sq)
  <2>1. ASSUME NEW root \in Roots, NEW k \in DOMAIN u.roots[root]
        PROVE  u.roots[root][k].req \in Requests
    <3>1. u.roots[root][k] \in Waiter
      BY DEF Inv, QueueOK, QueueType
    <3>2. QED
      BY <3>1 DEF Waiter
  <2>2. QED
    BY <2>1 DEF Inv, Lined, Alike
<1>4. QED
  BY <1>1, <1>2, <1>3 DEF Inv

(* Notify::notify_waiters changes nobody's phase, identity or generation. *)
LEMMA NotifyAlike ==
    ASSUME NEW rq \in [Requests -> Request]
    PROVE  /\ NotifyWaiters(rq) \in [Requests -> Request] /\ Alike(rq, NotifyWaiters(rq))
           /\ \A r \in Requests : rq[r].phase # "waiting" => NotifyWaiters(rq)[r] = rq[r]
<1>1. ASSUME NEW x \in Request
      PROVE  LET y == [x EXCEPT !.woken = TRUE]
             IN  y \in Request /\ y.phase = x.phase /\ y.id = x.id /\ y.generation = x.generation
  BY DEF Request
<1>2. QED
  BY <1>1 DEF NotifyWaiters, Alike

(* Tickets that were decided stay so. *)
Moves(u, v) ==
    /\ \A r \in Requests : u.cell[r] # NoId => v.cell[r] = u.cell[r]
    /\ v.generation = u.generation

(* What the invariant says of one ticket in a line. *)
LEMMA QueuedTicket ==
    ASSUME NEW u, NEW rq, Inv(u, rq), NEW root \in Roots, NEW k \in DOMAIN u.roots[root]
    PROVE  LET w == u.roots[root][k]
           IN  /\ w \in Waiter /\ w.req \in Requests /\ RootOf[w.req] = root
               /\ rq[w.req].phase = "waiting" /\ u.cell[w.req] = NoId
<1>1. u.roots[root][k] \in Waiter
  BY DEF Inv, QueueOK, QueueType
<1>2. QED
  BY <1>1 DEF Inv, Lined, Waiter

(* Nobody stands twice in a line. *)
LEMMA LinesDistinct ==
    ASSUME NEW u, NEW rq, Inv(u, rq), NEW root \in Roots
    PROVE  u.roots[root] \in Seq(Waiter) /\ Distinct(u.roots[root])
BY DEF Inv, Lined, QueueOK, QueueType, Distinct

-----------------------------------------------------------------------------
(* Queue::drive's first half. *)
LEMMA ExpireInv ==
    ASSUME NEW u, NEW rq, NEW t \in Nat, Inv(u, rq)
    PROVE  Inv(Expire(u, t), rq) /\ Moves(u, Expire(u, t))
<1> DEFINE gone == {r \in Requests : \E root \in Roots : \E k \in 1 .. Len(u.roots[root]) :
                       u.roots[root][k].req = r /\ t >= u.roots[root][k].deadline}
           R == [root \in Roots |-> Without(u.roots[root], gone)]
           C == [r \in Requests |-> IF r \in gone THEN Expired ELSE u.cell[r]]
           e == Expire(u, t)
<1>1. e = [u EXCEPT !.roots = R, !.cell = C]
  BY DEF Expire
<1>2. \A r \in gone : r \in Requests /\ rq[r].phase = "waiting" /\ u.cell[r] = NoId
  <2> SUFFICES ASSUME NEW root \in Roots, NEW k \in 1 .. Len(u.roots[root])
               PROVE  rq[u.roots[root][k].req].phase = "waiting" /\ u.cell[u.roots[root][k].req] = NoId
    OBVIOUS
  <2>1. k \in DOMAIN u.roots[root]
    BY LinesDistinct
  <2>2. QED
    BY <2>1, QueuedTicket
<1> HIDE DEF gone
<1>3. \A root \in Roots : Sifted(R[root], u.roots[root], gone, Len(u.roots[root]))
  BY LinesDistinct, WithoutSifts
<1>4. R \in [Roots -> Seq(Waiter)] /\ C \in [Requests -> Nat \cup {Expired}]
  <2>1. \A root \in Roots : Without(u.roots[root], gone) \in Seq(Waiter)
    BY <1>3 DEF Sifted
  <2>2. u.cell \in [Requests -> Nat \cup {Expired}]
    BY QueueFields DEF Inv
  <2>3. QED
    BY <2>1, <2>2
<1>5. \A r \in Requests : C[r] = IF r \in gone THEN Expired ELSE u.cell[r]
  OBVIOUS
<1> HIDE DEF R, C, e
<1>6. QueueOK(e) /\ e.roots = R /\ e.cell = C /\ e.ledger = u.ledger /\ e.recovery = u.recovery
      /\ e.generation = u.generation
  BY <1>1, <1>4 DEF Inv, QueueOK, QueueType
<1>7. \A r \in Requests : /\ e.cell[r] > NoId <=> u.cell[r] > NoId
                          /\ u.cell[r] # NoId => e.cell[r] = u.cell[r]
  BY <1>2, <1>5, <1>6 DEF Expired, NoId
<1>8. Lined(e, rq)
  <2>1. ASSUME NEW r \in Requests, e.cell[r] # NoId PROVE rq[r].phase = "waiting"
    BY <1>2, <1>5, <1>6, <2>1 DEF Inv, Lined
  <2>2. ASSUME NEW root \in Roots, NEW k \in DOMAIN R[root]
        PROVE  LET w == R[root][k]
               IN  /\ RootOf[w.req] = root /\ rq[w.req].phase = "waiting" /\ C[w.req] = NoId
                   /\ \A j \in DOMAIN R[root] : R[root][j].req = w.req => j = k
    <3>1. PICK a \in 1 .. Len(u.roots[root]) : R[root][k] = u.roots[root][a]
      BY <1>3 DEF Sifted
    <3>2. R[root][k].req \notin gone
      BY <1>3 DEF Sifted
    <3>3. a \in DOMAIN u.roots[root]
      BY LinesDistinct
    <3>4. \A j \in DOMAIN R[root] : R[root][j].req = R[root][k].req => j = k
      BY <1>3 DEF Sifted, Distinct
    <3>5. QED
      BY <1>5, <3>1, <3>2, <3>3, <3>4, QueuedTicket
  <2>3. QED
    BY <1>6, <2>1, <2>2 DEF Lined
<1>9. Keeps(u.ledger, e.ledger, Active(u.ledger))
  BY <1>6 DEF Keeps
<1>10. Owned(e, rq)
  <2>1. \A r \in Requests : u.cell[r] > NoId => u.cell[r] # NoId
    BY DEF NoId
  <2>2. QED
    BY <1>7, <1>9, <2>1, OwnedSame DEF Inv
<1>11. Probing(e, rq)
  BY <1>6, <1>9, ProbingSame DEF Inv
<1>12. QED
  BY <1>6, <1>7, <1>8, <1>10, <1>11 DEF Inv, Moves, e

(* Somebody has waited longest. *)
LEMMA OldestExists ==
    ASSUME NEW u, QueueOK(u), Busy(u) # {}
    PROVE  \E root \in Busy(u) : \A other \in Busy(u) : Older(HeadOf(u, root), HeadOf(u, other))
<1>1. \A root \in Busy(u) : /\ HeadOf(u, root).enqueued \in Nat
                            /\ HeadOf(u, root).sequence \in Nat
  <2>1. \A root \in Busy(u) : HeadOf(u, root) \in Waiter
    BY QueueFields DEF Busy, HeadOf
  <2>2. QED
    BY <2>1 DEF Waiter
<1> DEFINE S == {HeadOf(u, root).enqueued : root \in Busy(u)}
<1>2. PICK m \in S : \A n \in S : m <= n
  <2>1. S \subseteq Nat /\ S # {}
    BY <1>1
  <2> HIDE DEF S
  <2>2. QED
    BY <2>1, LeastMember
<1> DEFINE B == {root \in Busy(u) : HeadOf(u, root).enqueued = m}
           T == {HeadOf(u, root).sequence : root \in B}
<1>3. PICK n \in T : \A k \in T : n <= k
  <2>1. T \subseteq Nat /\ T # {}
    BY <1>1
  <2> HIDE DEF T
  <2>2. QED
    BY <2>1, LeastMember
<1>4. PICK root \in B : HeadOf(u, root).sequence = n
  OBVIOUS
<1>5. ASSUME NEW other \in Busy(u) PROVE Older(HeadOf(u, root), HeadOf(u, other))
  <2>1. m <= HeadOf(u, other).enqueued
    BY <1>2
  <2>2. HeadOf(u, other).enqueued = m => n <= HeadOf(u, other).sequence
    BY <1>3
  <2>3. /\ HeadOf(u, root).enqueued = m /\ HeadOf(u, root).sequence = n
        /\ root \in Busy(u) /\ m \in Nat /\ n \in Nat
    BY <1>1, <1>4
  <2> HIDE DEF B, S, T
  <2>4. QED
    BY <1>1, <2>1, <2>2, <2>3 DEF Older
<1>6. QED
  BY <1>5

(* Queue::protect moves the barrier only. *)
LEMMA ProtectInv ==
    ASSUME NEW u, NEW rq, NEW t \in Nat, Inv(u, rq)
    PROVE  /\ Inv(Protect(u, t), rq) /\ Moves(u, Protect(u, t))
           /\ Protect(u, t).ledger = u.ledger
           /\ Protect(u, t).roots = u.roots /\ Protect(u, t).cell = u.cell
           /\ Protect(u, t).cooldown_until = u.cooldown_until
<1>1. ASSUME NEW b \in [root : Roots, sequence : Nat]
      PROVE  LET p == [u EXCEPT !.barrier = b]
             IN  /\ Inv(p, rq) /\ Moves(u, p) /\ p.ledger = u.ledger
                 /\ p.roots = u.roots /\ p.cell = u.cell /\ p.cooldown_until = u.cooldown_until
  <2> DEFINE p == [u EXCEPT !.barrier = b]
  <2>1. /\ QueueOK(p) /\ p.ledger = u.ledger /\ p.roots = u.roots /\ p.cell = u.cell
        /\ p.cooldown_until = u.cooldown_until
        /\ p.recovery = u.recovery /\ p.generation = u.generation
    BY DEF Inv, QueueOK, QueueType
  <2> HIDE DEF p
  <2>2. Keeps(u.ledger, p.ledger, Active(u.ledger))
    BY <2>1 DEF Keeps
  <2>3. Inv(p, rq)
    BY <2>1, <2>2, FrameInv
  <2>4. QED
    BY <2>1, <2>3 DEF Moves, p
<1>2. CASE Protected(u)
  BY <1>2 DEF Protect, Moves
<1>3. NoBarrier \in [root : Roots, sequence : Nat]
  BY AdmissionAssumption DEF NoBarrier, Roots
<1> DEFINE oldest == CHOOSE root \in Busy(u) :
                        \A other \in Busy(u) : Older(HeadOf(u, root), HeadOf(u, other))
<1>4. Busy(u) # {} => [root |-> oldest, sequence |-> HeadOf(u, oldest).sequence]
                         \in [root : Roots, sequence : Nat]
  <2> SUFFICES ASSUME Busy(u) # {}
               PROVE  oldest \in Roots /\ HeadOf(u, oldest).sequence \in Nat
    OBVIOUS
  <2>1. oldest \in Busy(u)
    BY OldestExists DEF Inv
  <2> HIDE DEF oldest
  <2>2. oldest \in Roots /\ u.roots[oldest] # <<>> /\ u.roots[oldest] \in Seq(Waiter)
    BY <2>1, QueueFields DEF Busy, Inv
  <2>3. Head(u.roots[oldest]) \in Waiter
    BY <2>2
  <2>4. QED
    BY <2>2, <2>3 DEF HeadOf, Waiter
<1>5. \/ Protect(u, t) = u /\ Protected(u)
      \/ Protect(u, t) = [u EXCEPT !.barrier = NoBarrier]
      \/ /\ Busy(u) # {}
         /\ Protect(u, t) = [u EXCEPT !.barrier =
                [root |-> oldest, sequence |-> HeadOf(u, oldest).sequence]]
  BY DEF Protect
<1> HIDE DEF oldest
<1>6. CASE Protect(u, t) = [u EXCEPT !.barrier = NoBarrier]
  BY <1>1, <1>3, <1>6
<1>7. CASE /\ Busy(u) # {}
           /\ Protect(u, t) = [u EXCEPT !.barrier =
                  [root |-> oldest, sequence |-> HeadOf(u, oldest).sequence]]
  <2> DEFINE b == [root |-> oldest, sequence |-> HeadOf(u, oldest).sequence]
  <2>1. b \in [root : Roots, sequence : Nat] /\ Protect(u, t) = [u EXCEPT !.barrier = b]
    BY <1>4, <1>7
  <2> HIDE DEF b
  <2>2. QED
    BY <1>1, <2>1
<1>8. QED
  BY <1>2, <1>5, <1>6, <1>7

-----------------------------------------------------------------------------
(* The second half of Queue::drive: a head that fits gets a reservation. *)
HeadFits(u, root) ==
    /\ root \in Busy(u)
    /\ LedgerFits(u.ledger, CostOf[HeadOf(u, root).req])
    /\ Eligible(u, CostOf[HeadOf(u, root).req])

(* A line after a bypass or an admission: who is in it, and where he was. *)
Shorter(line, old, head) ==
    /\ line \in Seq(Waiter)
    /\ \A k \in DOMAIN line :
          /\ head => /\ k + 1 \in DOMAIN old /\ line[k] = old[k + 1]
          /\ ~head => /\ k \in DOMAIN old /\ line[k].req = old[k].req
                      /\ line[k].sequence = old[k].sequence

(* The line after its head was admitted. *)
LEMMA TailShorter ==
    ASSUME NEW old \in Seq(Waiter), old # <<>>
    PROVE  Shorter(Tail(old), old, TRUE)
<1>1. /\ Tail(old) \in Seq(Waiter) /\ Len(Tail(old)) = Len(old) - 1 /\ Len(old) \in Nat
      /\ \A i \in 1 .. Len(Tail(old)) : Tail(old)[i] = old[i + 1]
  BY HeadTailProperties
<1>2. DOMAIN Tail(old) = 1 .. Len(old) - 1 /\ DOMAIN old = 1 .. Len(old)
  BY <1>1
<1>3. QED
  BY <1>1, <1>2 DEF Shorter

(* The line whose head was bypassed. *)
LEMMA BypassShorter ==
    ASSUME NEW old \in Seq(Waiter), old # <<>>
    PROVE  /\ Shorter([old EXCEPT ![1].bypasses = @ + 1], old, FALSE)
           /\ DOMAIN [old EXCEPT ![1].bypasses = @ + 1] = DOMAIN old
<1> DEFINE n == old[1].bypasses + 1
           w == [old[1] EXCEPT !.bypasses = n]
           new == [old EXCEPT ![1] = w]
<1>1. 1 \in 1 .. Len(old) /\ Len(old) \in Nat /\ old[1] \in Waiter
  BY EmptySeq, ElementOfSeq
<1>2. w \in Waiter /\ w.req = old[1].req /\ w.sequence = old[1].sequence
  <2>1. n \in Nat
    BY <1>1 DEF Waiter
  <2> HIDE DEF n
  <2>2. QED
    BY <1>1, <2>1 DEF Waiter
<1>3. [old EXCEPT ![1].bypasses = @ + 1] = new
  OBVIOUS
<1> HIDE DEF w
<1>4. /\ new \in Seq(Waiter) /\ Len(new) = Len(old)
      /\ \A j \in 1 .. Len(old) : new[j] = IF j = 1 THEN w ELSE old[j]
  BY <1>1, <1>2, ExceptSeq
<1> HIDE DEF new
<1>5. DOMAIN new = 1 .. Len(old) /\ DOMAIN old = 1 .. Len(old)
  BY <1>4
<1>6. QED
  BY <1>2, <1>3, <1>4, <1>5 DEF Shorter

(* Admitting a head that fits: a new reservation in its cell, the claim of *)
(* the recovery with it when it is gated, and one ticket less.             *)
LEMMA AdmitHeadInv ==
    ASSUME NEW u, NEW rq, Inv(u, rq), NEW root, HeadFits(u, root), NEW fits
    PROVE  Inv(AdmitHead(u, root, fits), rq) /\ Moves(u, AdmitHead(u, root, fits))
<1> DEFINE h == HeadOf(u, root).req
           cost == CostOf[h]
           id == u.ledger.next + 1
           Bypass(other) == other \in Busy(u) \ (fits \cup {root})
           R == [other \in Roots |->
                    IF other = root THEN Tail(u.roots[root])
                    ELSE IF Bypass(other) THEN [u.roots[other] EXCEPT ![1].bypasses = @ + 1]
                    ELSE u.roots[other]]
           L == LedgerAdmit(u.ledger, cost)
           gated == u.recovery.armed /\ ~Exempt(u, cost)
           P == [u.recovery EXCEPT !.probe = IF gated THEN id ELSE @]
           C == [u.cell EXCEPT ![h] = id]
           N == RootAfter(root)
           v == AdmitHead(u, root, fits)
<1>1. root \in Roots /\ u.roots[root] # <<>>
  BY DEF HeadFits, Busy
<1>2. /\ u \in QueueType({u.ledger}) /\ LedgerOK(u.ledger) /\ u.recovery \in Recovery
      /\ u.roots \in [Roots -> Seq(Waiter)] /\ u.cell \in [Requests -> Nat \cup {Expired}]
      /\ u.recovery.probe \in Nat
  BY QueueFields DEF Inv, QueueOK, Recovery
<1>3. 1 \in DOMAIN u.roots[root] /\ HeadOf(u, root) = u.roots[root][1]
  BY <1>1, <1>2 DEF HeadOf
<1>4. h \in Requests /\ RootOf[h] = root /\ rq[h].phase = "waiting" /\ u.cell[h] = NoId
  BY <1>1, <1>3, QueuedTicket
<1>5. cost \in Cost /\ LedgerFits(u.ledger, cost) /\ Eligible(u, cost)
  BY <1>4, AdmissionAssumption DEF HeadFits
<1>6. v = [u EXCEPT !.roots = R, !.ledger = L, !.recovery = P, !.cell = C, !.cursor = N]
  BY <1>2 DEF AdmitHead, QueueType
<1> HIDE DEF h, cost
<1>7. /\ LedgerOK(L) /\ Keeps(u.ledger, L, Active(u.ledger) \cup {id})
      /\ ~L.entries[id].started /\ id \notin Active(u.ledger) /\ id \in Nat /\ id > 0
      /\ L.entries[id].metadata <=> ~IsGeneration(cost)
  <2> DEFINE l == u.ledger
  <2>1. LedgerOK(l) /\ cost \in Cost /\ LedgerFits(l, cost)
    BY <1>2, <1>5
  <2> HIDE DEF l
  <2>2. /\ LedgerOK(LedgerAdmit(l, cost))
        /\ Keeps(l, LedgerAdmit(l, cost), Active(l) \cup {l.next + 1})
        /\ ~LedgerAdmit(l, cost).entries[l.next + 1].started
        /\ LedgerAdmit(l, cost).entries[l.next + 1].metadata <=> ~IsGeneration(cost)
        /\ l.next + 1 \notin Active(l) /\ l.next + 1 \in Nat \ {0}
    BY <2>1, AdmitKeeps
  <2>3. l.next + 1 \in Nat /\ l.next + 1 > 0
    BY <2>2
  <2>4. QED
    BY <2>2, <2>3 DEF l
<1> HIDE DEF L, id
<1>8. \A other \in Roots : Shorter(R[other], u.roots[other], other = root)
  <2> SUFFICES ASSUME NEW other \in Roots PROVE Shorter(R[other], u.roots[other], other = root)
    OBVIOUS
  <2>1. u.roots[other] \in Seq(Waiter)
    BY <1>2
  <2>2. CASE other = root
    BY <1>1, <2>1, <2>2, TailShorter DEF Shorter
  <2>3. CASE other # root /\ Bypass(other)
    <3>1. u.roots[other] # <<>>
      BY <2>3 DEF Busy
    <3>2. R[other] = [u.roots[other] EXCEPT ![1].bypasses = @ + 1]
      BY <2>3
    <3>3. QED
      BY <2>1, <2>3, <3>1, <3>2, BypassShorter DEF Shorter
  <2>4. CASE other # root /\ ~Bypass(other)
    <3>1. R[other] = u.roots[other]
      BY <2>4
    <3>2. QED
      BY <2>1, <2>4, <3>1 DEF Shorter
  <2>5. QED
    BY <2>2, <2>3, <2>4
<1>9. R \in [Roots -> Seq(Waiter)]
  <2>1. R = [other \in Roots |-> R[other]]
    OBVIOUS
  <2>2. \A other \in Roots : R[other] \in Seq(Waiter)
    BY <1>8 DEF Shorter
  <2> HIDE DEF R
  <2>3. QED
    BY <2>1, <2>2
<1>10. /\ C \in [Requests -> Nat \cup {Expired}] /\ C[h] = id
       /\ \A r \in Requests \ {h} : C[r] = u.cell[r]
  BY <1>2, <1>4, <1>7
<1>11. /\ P \in Recovery /\ P.armed = u.recovery.armed
       /\ P.generation_only = u.recovery.generation_only
       /\ P.probe = IF gated THEN id ELSE u.recovery.probe
  <2> HIDE DEF gated
  <2>1. QED
    BY <1>2, <1>7 DEF Recovery
<1>12. N \in Roots
  BY <1>1, AdmissionAssumption, SMTT(40) DEF RootAfter, Roots
<1> HIDE DEF R, C, P, N, v, gated
<1>13. /\ QueueOK(v) /\ v.roots = R /\ v.ledger = L /\ v.recovery = P /\ v.cell = C
       /\ v.generation = u.generation
  <2>1. v \in QueueType({L}) /\ v.ledger = L
    BY <1>2, <1>6, <1>9, <1>10, <1>11, <1>12 DEF QueueType
  <2>2. QED
    BY <1>2, <1>6, <1>7, <2>1 DEF QueueOK, QueueType
<1>14. Lined(v, rq)
  <2>1. \A r \in Requests : C[r] # NoId => rq[r].phase = "waiting"
    BY <1>4, <1>10 DEF Inv, Lined
  <2>2. ASSUME NEW other \in Roots, NEW k \in DOMAIN R[other]
        PROVE  LET w == R[other][k]
               IN  /\ RootOf[w.req] = other /\ rq[w.req].phase = "waiting" /\ C[w.req] = NoId
                   /\ \A j \in DOMAIN R[other] : R[other][j].req = w.req => j = k
    <3> DEFINE w == R[other][k]
    <3>1. CASE other = root
      <4>1. \A j \in DOMAIN R[other] : /\ j + 1 \in DOMAIN u.roots[other]
                                       /\ R[other][j] = u.roots[other][j + 1]
        BY <1>8, <3>1 DEF Shorter
      <4>2. \A j \in DOMAIN R[other] : j \in Nat /\ j > 0
        BY <1>9
      <4>3. u.roots[other][1].req = h
        BY <1>3, <3>1 DEF h
      <4>4. w.req # h
        BY <1>3, <3>1, <4>1, <4>2, <4>3, LinesDistinct DEF Distinct
      <4>5. w.req \in Requests /\ RootOf[w.req] = other /\ rq[w.req].phase = "waiting"
            /\ u.cell[w.req] = NoId
        BY <4>1, QueuedTicket
      <4>6. \A j \in DOMAIN R[other] : R[other][j].req = w.req => j = k
        BY <4>1, <4>2, LinesDistinct DEF Distinct
      <4>7. QED
        BY <1>10, <4>4, <4>5, <4>6
    <3>2. CASE other # root
      <4>1. \A j \in DOMAIN R[other] : /\ j \in DOMAIN u.roots[other]
                                       /\ R[other][j].req = u.roots[other][j].req
        BY <1>8, <3>2 DEF Shorter
      <4>2. w.req \in Requests /\ RootOf[w.req] = other /\ rq[w.req].phase = "waiting"
            /\ u.cell[w.req] = NoId
        BY <4>1, QueuedTicket
      <4>3. w.req # h
        BY <1>4, <3>2, <4>2
      <4>4. \A j \in DOMAIN R[other] : R[other][j].req = w.req => j = k
        BY <4>1, LinesDistinct DEF Distinct
      <4>5. QED
        BY <1>10, <4>2, <4>3, <4>4
    <3>3. QED
      BY <3>1, <3>2
  <2>3. QED
    BY <1>13, <2>1, <2>2 DEF Lined
<1>15. h \notin Owner(u, rq) /\ Owner(v, rq) = Owner(u, rq) \cup {h}
  BY <1>4, <1>7, <1>10, <1>13 DEF Owner, NoId, HoldPhases
<1>16. /\ IdOf(v, rq, h) = id
       /\ \A r \in Owner(u, rq) : r \in Requests /\ IdOf(v, rq, r) = IdOf(u, rq, r)
  BY <1>7, <1>10, <1>13, <1>15 DEF IdOf, NoId, Owner
<1>17. Owned(v, rq)
  <2>1. Active(L) = Active(u.ledger) \cup {id}
    BY <1>7 DEF Keeps
  <2>2. ASSUME NEW r \in Owner(v, rq)
        PROVE  /\ IdOf(v, rq, r) \in Active(L)
               /\ L.entries[IdOf(v, rq, r)].started <=> rq[r].phase \in HoldPhases \ {"held"}
    <3>1. CASE r = h
      BY <1>4, <1>7, <1>16, <2>1, <3>1 DEF HoldPhases
    <3>2. CASE r # h
      <4>1. r \in Owner(u, rq) /\ IdOf(v, rq, r) = IdOf(u, rq, r)
        BY <1>15, <1>16, <3>2
      <4>2. /\ IdOf(u, rq, r) \in Active(u.ledger)
            /\ u.ledger.entries[IdOf(u, rq, r)].started <=> rq[r].phase \in HoldPhases \ {"held"}
        BY <4>1 DEF Inv, Owned
      <4>3. QED
        BY <1>7, <2>1, <4>1, <4>2 DEF Keeps
    <3>3. QED
      BY <3>1, <3>2
  <2>3. ASSUME NEW i \in Active(L) PROVE \E r \in Owner(v, rq) : IdOf(v, rq, r) = i
    BY <1>15, <1>16, <2>1 DEF Inv, Owned
  <2>4. ASSUME NEW r \in Owner(v, rq), NEW s \in Owner(v, rq),
               IdOf(v, rq, r) = IdOf(v, rq, s)
        PROVE  r = s
    <3>1. \A x \in Owner(u, rq) : IdOf(u, rq, x) # id
      BY <1>7 DEF Inv, Owned
    <3>2. QED
      BY <1>15, <1>16, <2>4, <3>1 DEF Inv, Owned
  <2>5. QED
    BY <1>13, <2>2, <2>3, <2>4 DEF Owned
<1>18. Probing(v, rq)
  <2>1. Active(L) = Active(u.ledger) \cup {id}
    BY <1>7 DEF Keeps
  <2>2. Claimed(v)
    <3>1. CASE gated
      <4>1. P.probe = id /\ (P.generation_only => IsGeneration(cost))
        BY <1>11, <3>1 DEF gated, Exempt
      <4>2. QED
        BY <1>7, <1>13, <2>1, <4>1 DEF Claimed
    <3>2. CASE ~gated
      <4>1. P.probe = u.recovery.probe
        BY <1>11, <3>2
      <4>2. Claimed(u)
        BY DEF Inv, Probing
      <4>3. QED
        BY <1>7, <1>11, <1>13, <4>1, <4>2 DEF Claimed, Keeps
    <3>3. QED
      BY <3>1, <3>2
  <2>3. \A c : Exempt(v, c) = Exempt(u, c)
    BY <1>11, <1>13 DEF Exempt
  <2>4. ASSUME NEW r \in Requests, rq[r].phase = "sent", P.armed,
               rq[r].generation = u.generation, ~Exempt(v, CostOf[r])
        PROVE  rq[r].id = P.probe
    <3>1. rq[r].id = u.recovery.probe
      BY <1>11, <2>3, <2>4 DEF Inv, Probing
    <3>2. CASE gated
      <4>1. u.recovery.probe = NoId
        BY <1>5, <3>2 DEF Eligible, gated
      <4>2. u.cell[r] = NoId
        BY <2>4 DEF Inv, Lined
      <4>3. r \in Owner(u, rq) /\ IdOf(u, rq, r) = rq[r].id
        BY <2>4, <4>2 DEF Owner, IdOf, HoldPhases, NoId
      <4>4. rq[r].id \in 1 .. u.ledger.next
        BY <1>2, <4>3, ActiveFinite DEF Inv, Owned
      <4>5. QED
        BY <3>1, <4>1, <4>4 DEF NoId
    <3>3. CASE ~gated
      BY <1>11, <3>1, <3>3
    <3>4. QED
      BY <3>2, <3>3
  <2>5. \A r \in Requests : rq[r].phase = "sent" => rq[r].generation <= u.generation
    BY DEF Inv, Probing
  <2>6. QED
    BY <1>13, <2>2, <2>4, <2>5 DEF Probing
<1>19. Moves(u, v)
  BY <1>4, <1>10, <1>13 DEF Moves
<1>20. QED
  BY <1>13, <1>14, <1>17, <1>18, <1>19 DEF Inv, v

(* Decided tickets stay decided over two steps. *)
LEMMA MovesTwice ==
    ASSUME NEW u, NEW v, NEW w, Moves(u, v), Moves(v, w)
    PROVE  Moves(u, w)
BY DEF Moves

(* Advancing the ledger keeps the invariant. *)
LEMMA AdvancedInv ==
    ASSUME NEW u, NEW rq, NEW t \in Nat, Inv(u, rq)
    PROVE  LET a == [u EXCEPT !.ledger = LedgerAdvance(@, t)]
           IN  /\ Inv(a, rq) /\ Moves(u, a) /\ a.roots = u.roots /\ a.barrier = u.barrier
               /\ a.cell = u.cell
<1> DEFINE L == LedgerAdvance(u.ledger, t)
           a == [u EXCEPT !.ledger = L]
<1>1. LedgerOK(L) /\ Keeps(u.ledger, L, Active(u.ledger))
  BY AdvanceKeeps DEF Inv, QueueOK
<1> HIDE DEF L
<1>2. /\ a.roots = u.roots /\ a.cell = u.cell /\ a.recovery = u.recovery
      /\ a.generation = u.generation /\ a.ledger = L /\ a \in QueueType({L})
      /\ a.barrier = u.barrier
  BY DEF Inv, QueueOK, QueueType
<1> HIDE DEF a
<1>3. Inv(a, rq)
  BY <1>1, <1>2, FrameInv DEF QueueOK
<1>4. QED
  BY <1>2, <1>3 DEF Moves, a, L

(* One pass of the loop of Queue::drive. *)
LEMMA DrivePassInv ==
    ASSUME NEW u, NEW rq, NEW t \in Nat, Inv(u, rq)
    PROVE  Inv(DrivePass(u, t), rq) /\ Moves(u, DrivePass(u, t))
<1> DEFINE p == Protect(u, t)
           a == IF Busy(p) = {} THEN p ELSE [p EXCEPT !.ledger = LedgerAdvance(@, t)]
           fits == {root \in Busy(a) :
                      LET cost == CostOf[HeadOf(a, root).req]
                      IN  LedgerFits(a.ledger, cost) /\ Eligible(a, cost)}
           selected == Select(a, fits)
           root == CHOOSE root \in selected : TRUE
<1>1. Inv(p, rq) /\ Moves(u, p)
  BY ProtectInv
<1> HIDE DEF p
<1>2. Inv(a, rq) /\ Moves(u, a)
  <2>1. CASE Busy(p) = {}
    BY <1>1, <2>1
  <2>2. CASE Busy(p) # {}
    BY <1>1, <2>2, AdvancedInv, MovesTwice
  <2>3. QED
    BY <2>1, <2>2
<1>3. DrivePass(u, t) = IF t < p.cooldown_until THEN p
                        ELSE IF selected = {} THEN a ELSE AdmitHead(a, root, fits)
  BY DEF DrivePass, p
<1> HIDE DEF a
<1>4. selected \subseteq fits
  BY DEF Select
<1>5. \A x \in fits : HeadFits(a, x)
  BY DEF HeadFits
<1>6. selected # {} => HeadFits(a, root)
  <2> HIDE DEF fits, selected
  <2>1. selected # {} => root \in selected
    OBVIOUS
  <2>2. QED
    BY <1>4, <1>5, <2>1
<1> HIDE DEF fits, selected, root
<1>7. selected # {} => Inv(AdmitHead(a, root, fits), rq) /\ Moves(u, AdmitHead(a, root, fits))
  BY <1>2, <1>6, AdmitHeadInv, MovesTwice
<1>8. QED
  BY <1>1, <1>2, <1>3, <1>7

(* The loop of Queue::drive. *)
Passes(f, e, t, m) ==
    f = [n \in 0 .. m |-> IF n = 0 THEN e
                          ELSE CHOOSE next \in {DrivePass(w, t) : w \in {f[n - 1]}} : TRUE]

(* A pass has one outcome. *)
LEMMA OnlyPass ==
    ASSUME NEW x, NEW t
    PROVE  (CHOOSE next \in {DrivePass(w, t) : w \in {x}} : TRUE) = DrivePass(x, t)
<1>1. {DrivePass(w, t) : w \in {x}} = {DrivePass(x, t)}
  OBVIOUS
<1>2. QED
  BY <1>1

(* The recursion of Drive has a solution of every length. *)
LEMMA PassesExist ==
    ASSUME NEW e, NEW t
    PROVE  \A m \in Nat : \E f : Passes(f, e, t, m)
<1> DEFINE T == {m \in Nat : ~\E f : Passes(f, e, t, m)}
           D(x) == CHOOSE next \in {DrivePass(w, t) : w \in {x}} : TRUE
<1> SUFFICES ASSUME T # {} PROVE FALSE
  OBVIOUS
<1>1. PICK m \in T : \A n \in T : m <= n
  BY LeastMember
<1>2. \A f, n : Passes(f, e, t, n) <=> f = [k \in 0 .. n |-> IF k = 0 THEN e ELSE D(f[k - 1])]
  BY Zenon DEF Passes
<1> HIDE DEF D
<1>3. m # 0
  <2> SUFFICES ASSUME m = 0 PROVE \E f : Passes(f, e, t, m)
    OBVIOUS
  <2> DEFINE f == [n \in 0 .. 0 |-> e]
  <2>1. f = [k \in 0 .. 0 |-> IF k = 0 THEN e ELSE D(f[k - 1])]
    OBVIOUS
  <2> HIDE DEF f
  <2>2. Passes(f, e, t, 0)
    BY <1>2, <2>1
  <2>3. QED
    BY <2>2
<1>4. PICK f : Passes(f, e, t, m - 1)
  BY <1>1, <1>3
<1> DEFINE g == [n \in 0 .. m |-> IF n = 0 THEN e ELSE D(f[n - 1])]
<1>5. \A n \in 0 .. m - 1 : g[n] = f[n]
  <2>1. f = [n \in 0 .. m - 1 |-> IF n = 0 THEN e ELSE D(f[n - 1])]
    BY <1>2, <1>4
  <2>2. \A n \in 0 .. m - 1 : f[n] = IF n = 0 THEN e ELSE D(f[n - 1])
    BY <2>1, Zenon
  <2>3. \A n \in 0 .. m - 1 : n \in 0 .. m
    OBVIOUS
  <2>4. \A n \in 0 .. m : g[n] = IF n = 0 THEN e ELSE D(f[n - 1])
    BY Zenon
  <2>5. QED
    BY <2>2, <2>3, <2>4, Zenon
<1>6. g = [n \in 0 .. m |-> IF n = 0 THEN e ELSE D(g[n - 1])]
  <2>1. \A n \in 0 .. m : n # 0 => n - 1 \in 0 .. m - 1
    BY <1>3
  <2>2. \A n \in 0 .. m : n # 0 => f[n - 1] = g[n - 1]
    BY <1>5, <2>1
  <2>3. QED
    BY <2>2
<1> HIDE DEF g
<1>7. Passes(g, e, t, m)
  BY <1>2, <1>6
<1>8. QED
  BY <1>7

(* Drive is that solution. *)
LEMMA DriveSteps ==
    ASSUME NEW u, NEW t
    PROVE  \E f : /\ Drive(u, t) = f[MaxWaiting + 1] /\ f[0] = Expire(u, t)
                  /\ \A n \in 1 .. MaxWaiting + 1 : f[n] = DrivePass(f[n - 1], t)
<1> DEFINE e == Expire(u, t)
           f == CHOOSE pass : pass = [n \in 0 .. MaxWaiting + 1 |->
                   IF n = 0 THEN e
                   ELSE CHOOSE next \in {DrivePass(w, t) : w \in {pass[n - 1]}} : TRUE]
<1>1. Drive(u, t) = f[MaxWaiting + 1]
  BY Zenon DEF Drive
<1>2. MaxWaiting + 1 \in Nat
  BY AdmissionAssumption
<1>3. \E pass : Passes(pass, e, t, MaxWaiting + 1)
  BY <1>2, PassesExist
<1>4. Passes(f, e, t, MaxWaiting + 1)
  <2> HIDE DEF e
  <2>1. QED
    BY <1>3, Zenon DEF Passes
<1> HIDE DEF f
<1>5. \A n \in 0 .. MaxWaiting + 1 :
         f[n] = IF n = 0 THEN e
                ELSE CHOOSE next \in {DrivePass(w, t) : w \in {f[n - 1]}} : TRUE
  BY <1>4, Zenon DEF Passes
<1>6. f[0] = e
  <2>1. 0 \in 0 .. MaxWaiting + 1
    BY <1>2
  <2>2. QED
    BY <1>5, <2>1, Zenon
<1>7. ASSUME NEW n \in 1 .. MaxWaiting + 1 PROVE f[n] = DrivePass(f[n - 1], t)
  <2>1. n \in 0 .. MaxWaiting + 1 /\ n # 0
    BY <1>2
  <2>2. f[n] = CHOOSE next \in {DrivePass(w, t) : w \in {f[n - 1]}} : TRUE
    BY <1>5, <2>1, Zenon
  <2>3. QED
    BY <2>2, OnlyPass
<1>8. QED
  BY <1>1, <1>6, <1>7

(* Queue::drive keeps the invariant, and decided tickets as they are. *)
LEMMA DriveInv ==
    ASSUME NEW u, NEW rq, NEW t \in Nat, Inv(u, rq)
    PROVE  Inv(Drive(u, t), rq) /\ Moves(u, Drive(u, t))
<1>1. PICK f : /\ Drive(u, t) = f[MaxWaiting + 1] /\ f[0] = Expire(u, t)
               /\ \A n \in 1 .. MaxWaiting + 1 : f[n] = DrivePass(f[n - 1], t)
  BY DriveSteps
<1> DEFINE Holds(n) == Inv(f[n], rq) /\ Moves(u, f[n])
           T == {n \in 0 .. MaxWaiting + 1 : ~Holds(n)}
<1>2. MaxWaiting + 1 \in Nat
  BY AdmissionAssumption
<1>3. T = {}
  <2> SUFFICES ASSUME T # {} PROVE FALSE
    OBVIOUS
  <2>1. PICK n \in T : \A k \in T : n <= k
    <3>1. T \subseteq Nat
      OBVIOUS
    <3> HIDE DEF T
    <3>2. QED
      BY <3>1, LeastMember
  <2>2. Holds(0)
    BY <1>1, ExpireInv
  <2>3. n \in 1 .. MaxWaiting + 1 /\ n - 1 \in 0 .. MaxWaiting + 1
    BY <1>2, <2>2
  <2>4. Holds(n - 1)
    BY <2>1, <2>3
  <2>5. f[n] = DrivePass(f[n - 1], t)
    BY <1>1, <2>3
  <2>6. Holds(n)
    BY <2>4, <2>5, DrivePassInv, MovesTwice
  <2>7. QED
    BY <2>6
<1>4. Holds(MaxWaiting + 1)
  BY <1>2, <1>3
<1>5. QED
  BY <1>1, <1>4

-----------------------------------------------------------------------------
(* The times a waiter sets its timer to are times. *)
LEMMA MinNat ==
    ASSUME NEW S, S \subseteq Nat, S # {}
    PROVE  Min(S) \in S /\ Min(S) \in Nat
<1>1. \E n \in S : \A m \in S : n <= m
  BY LeastMember
<1>2. Min(S) \in S
  BY <1>1 DEF Min
<1>3. QED
  BY <1>2

(* Ledger::next_wake is a time. *)
LEMMA NextWakeNat ==
    ASSUME NEW l, LedgerOK(l)
    PROVE  NextWake(l) \in Nat
<1> DEFINE expiries == {l.entries[i].rpm_until : i \in DOMAIN l.entries} \cup
                       {l.entries[i].tpm_until : i \in DOMAIN l.entries}
           future == {at \in expiries : at > l.now}
<1>1. l.ready_at \in Nat /\ \A i \in DOMAIN l.entries : l.entries[i] \in Entry
  BY DEF LedgerOK, LedgerType
<1>2. future \subseteq Nat
  BY <1>1 DEF Entry
<1>3. NextWake(l) = IF l.now < l.ready_at THEN l.ready_at
                    ELSE IF future = {} THEN Never ELSE Min(future)
  BY DEF NextWake
<1> HIDE DEF future
<1>4. future # {} => Min(future) \in Nat
  BY <1>2, MinNat
<1>5. QED
  BY <1>1, <1>3, <1>4 DEF Never

(* The time that Queue::drive asks to be called again is a time. *)
LEMMA WakeAtNat ==
    ASSUME NEW u, QueueOK(u), NEW t \in Nat
    PROVE  WakeAt(u, t) \in Nat
<1> DEFINE queued == UNION {{u.roots[root][k] : k \in 1 .. Len(u.roots[root])} : root \in Roots}
           ages == {HeadOf(u, root).enqueued + MaxAge : root \in Busy(u)}
           resource == IF t < u.cooldown_until THEN u.cooldown_until ELSE NextWake(u.ledger)
           times == {w.deadline : w \in queued} \cup {at \in ages : at > t}
                        \cup ({resource} \ {Never})
<1>1. resource \in Nat
  BY QueueFields, NextWakeNat
<1>2. \A w \in queued : w \in Waiter
  <2> SUFFICES ASSUME NEW root \in Roots, NEW k \in 1 .. Len(u.roots[root])
               PROVE  u.roots[root][k] \in Waiter
    OBVIOUS
  <2>1. u.roots[root] \in Seq(Waiter)
    BY QueueFields
  <2>2. QED
    BY <2>1
<1>3. ages \subseteq Nat
  <2> SUFFICES ASSUME NEW root \in Busy(u) PROVE HeadOf(u, root).enqueued + MaxAge \in Nat
    OBVIOUS
  <2>1. u.roots[root] \in Seq(Waiter) /\ u.roots[root] # <<>>
    BY QueueFields DEF Busy
  <2>2. Head(u.roots[root]) \in Waiter
    BY <2>1
  <2>3. MaxAge \in Nat
    BY AdmissionAssumption
  <2>4. QED
    BY <2>2, <2>3 DEF HeadOf, Waiter
<1>4. WakeAt(u, t) = IF queued = {} THEN Never ELSE Min(times)
  BY DEF WakeAt
<1> HIDE DEF ages, resource, queued
<1>5. times \subseteq Nat /\ (queued # {} => times # {})
  <2>1. \A w \in queued : w.deadline \in Nat
    BY <1>2 DEF Waiter
  <2>2. {w.deadline : w \in queued} \subseteq Nat
    BY <2>1
  <2>3. queued # {} => {w.deadline : w \in queued} # {}
    OBVIOUS
  <2>4. QED
    BY <1>1, <1>3, <2>2, <2>3
<1> HIDE DEF times
<1>6. queued # {} => Min(times) \in Nat
  BY <1>5, MinNat
<1>7. QED
  BY <1>4, <1>6 DEF Never

-----------------------------------------------------------------------------
(* A line out of which a request was taken, if it was in it. *)
Sub(line, old, r) ==
    /\ Distinct(line)
    /\ \A i \in DOMAIN line : line[i].req # r /\ \E a \in DOMAIN old : line[i] = old[a]

(* The identity a request gives back when it leaves. *)
Own(u, rq, r) == IF r \in Owner(u, rq) THEN {IdOf(u, rq, r)} ELSE {}

(* What the invariant says of a request with a hold. *)
LEMMA HolderId ==
    ASSUME NEW u, NEW rq, Inv(u, rq), NEW r \in Requests, rq[r].phase \in HoldPhases
    PROVE  /\ u.cell[r] = NoId /\ r \in Owner(u, rq) /\ IdOf(u, rq, r) = rq[r].id
           /\ rq[r].id \in Active(u.ledger) /\ rq[r].id # NoId
           /\ u.ledger.entries[rq[r].id].started <=> rq[r].phase \in HoldPhases \ {"held"}
           /\ \A root \in Roots : Sub(u.roots[root], u.roots[root], r)
<1>1. u.cell[r] = NoId
  BY DEF Inv, Lined, HoldPhases
<1>2. r \in Owner(u, rq) /\ IdOf(u, rq, r) = rq[r].id
  BY <1>1 DEF Owner, IdOf, NoId
<1>3. /\ rq[r].id \in Active(u.ledger)
      /\ u.ledger.entries[rq[r].id].started <=> rq[r].phase \in HoldPhases \ {"held"}
  BY <1>2 DEF Inv, Owned
<1>4. rq[r].id # NoId
  BY <1>3, ActiveFinite DEF Inv, QueueOK, NoId
<1>5. ASSUME NEW root \in Roots PROVE Sub(u.roots[root], u.roots[root], r)
  <2>1. \A k \in DOMAIN u.roots[root] : rq[u.roots[root][k].req].phase = "waiting"
    BY QueuedTicket
  <2>2. QED
    BY <2>1, LinesDistinct DEF Sub, HoldPhases
<1>6. QED
  BY <1>1, <1>2, <1>3, <1>4, <1>5

(* A request that is nowhere in the queue. *)
LEMMA OutsiderLines ==
    ASSUME NEW u, NEW rq, Inv(u, rq), NEW r \in Requests,
           rq[r].phase # "waiting" \/ u.cell[r] # NoId
    PROVE  \A root \in Roots : Sub(u.roots[root], u.roots[root], r)
<1> SUFFICES ASSUME NEW root \in Roots PROVE Sub(u.roots[root], u.roots[root], r)
  OBVIOUS
<1>1. \A k \in DOMAIN u.roots[root] : /\ rq[u.roots[root][k].req].phase = "waiting"
                                      /\ u.cell[u.roots[root][k].req] = NoId
  BY QueuedTicket
<1>2. QED
  BY <1>1, LinesDistinct DEF Sub

(* A request leaves the queue: its ticket is gone from the lines and the   *)
(* cells, its reservation from the ledger, its claim from the recovery.    *)
LEMMA LeaveInv ==
    ASSUME NEW u, NEW v, NEW rq, Inv(u, rq), NEW r \in Requests, NEW x \in Request,
           x.phase \notin HoldPhases \cup {"waiting"},
           QueueOK(v), v.generation = u.generation,
           v.cell = [u.cell EXCEPT ![r] = NoId],
           \A root \in Roots : Sub(v.roots[root], u.roots[root], r),
           Keeps(u.ledger, v.ledger, Active(u.ledger) \ Own(u, rq, r)),
           \/ v.recovery = u.recovery /\ (u.recovery.armed => u.recovery.probe \notin Own(u, rq, r))
           \/ /\ v.recovery = [u.recovery EXCEPT !.probe = NoId]
              /\ u.recovery.probe \in Own(u, rq, r)
    PROVE  Inv(v, [rq EXCEPT ![r] = x])
<1> DEFINE sq == [rq EXCEPT ![r] = x]
<1>1. sq \in [Requests -> Request] /\ sq[r] = x /\ \A s \in Requests \ {r} : sq[s] = rq[s]
  BY DEF Inv
<1> HIDE DEF sq
<1>2. v.cell[r] = NoId /\ \A s \in Requests \ {r} : v.cell[s] = u.cell[s]
  BY QueueFields DEF Inv
<1>3. Lined(v, sq)
  <2>1. \A s \in Requests : v.cell[s] # NoId => sq[s].phase = "waiting"
    BY <1>1, <1>2 DEF Inv, Lined
  <2>2. ASSUME NEW root \in Roots, NEW k \in DOMAIN v.roots[root]
        PROVE  LET w == v.roots[root][k]
               IN  /\ RootOf[w.req] = root /\ sq[w.req].phase = "waiting" /\ v.cell[w.req] = NoId
                   /\ \A j \in DOMAIN v.roots[root] : v.roots[root][j].req = w.req => j = k
    <3> DEFINE w == v.roots[root][k]
    <3>1. PICK a \in DOMAIN u.roots[root] : w = u.roots[root][a]
      BY DEF Sub
    <3>2. w.req # r /\ \A j \in DOMAIN v.roots[root] : v.roots[root][j].req = w.req => j = k
      BY DEF Sub, Distinct
    <3>3. /\ w.req \in Requests /\ RootOf[w.req] = root /\ rq[w.req].phase = "waiting"
          /\ u.cell[w.req] = NoId
      BY <3>1, QueuedTicket
    <3>4. QED
      BY <1>1, <1>2, <3>2, <3>3
  <2>3. QED
    BY <2>1, <2>2 DEF Lined
<1>4. Owner(v, sq) = Owner(u, rq) \ {r}
  BY <1>1, <1>2 DEF Owner, NoId
<1>5. \A s \in Owner(v, sq) : s \in Requests /\ s # r /\ IdOf(v, sq, s) = IdOf(u, rq, s)
  BY <1>1, <1>2, <1>4 DEF IdOf, Owner
<1>6. Active(v.ledger) = Active(u.ledger) \ Own(u, rq, r)
  BY DEF Keeps
<1>7. \A s \in Owner(v, sq) : IdOf(u, rq, s) \notin Own(u, rq, r)
  BY <1>4 DEF Own, Inv, Owned
<1>8. Owned(v, sq)
  <2>1. ASSUME NEW s \in Owner(v, sq)
        PROVE  /\ IdOf(v, sq, s) \in Active(v.ledger)
               /\ v.ledger.entries[IdOf(v, sq, s)].started <=> sq[s].phase \in HoldPhases \ {"held"}
    <3>1. /\ IdOf(u, rq, s) \in Active(u.ledger)
          /\ u.ledger.entries[IdOf(u, rq, s)].started <=> rq[s].phase \in HoldPhases \ {"held"}
      BY <1>4 DEF Inv, Owned
    <3>2. IdOf(v, sq, s) = IdOf(u, rq, s) /\ sq[s] = rq[s] /\ IdOf(u, rq, s) \in Active(v.ledger)
      BY <1>1, <1>5, <1>6, <1>7, <3>1
    <3>3. QED
      BY <1>6, <3>1, <3>2 DEF Keeps
  <2>2. ASSUME NEW i \in Active(v.ledger) PROVE \E s \in Owner(v, sq) : IdOf(v, sq, s) = i
    <3>1. i \in Active(u.ledger) /\ i \notin Own(u, rq, r)
      BY <1>6
    <3>2. PICK s \in Owner(u, rq) : IdOf(u, rq, s) = i
      BY <3>1 DEF Inv, Owned
    <3>3. s # r
      BY <3>1, <3>2 DEF Own
    <3>4. QED
      BY <1>4, <1>5, <3>2, <3>3
  <2>3. \A s, z \in Owner(v, sq) : IdOf(v, sq, s) = IdOf(v, sq, z) => s = z
    BY <1>4, <1>5 DEF Inv, Owned
  <2>4. QED
    BY <2>1, <2>2, <2>3 DEF Owned
<1>9. Probing(v, sq)
  <2>1. u.recovery \in Recovery
    BY QueueFields DEF Inv
  <2>2. Claimed(v)
    <3>1. CASE v.recovery.probe = NoId
      BY <3>1 DEF Claimed
    <3>2. CASE v.recovery = u.recovery /\ (u.recovery.armed => u.recovery.probe \notin Own(u, rq, r))
      <4>1. Claimed(u)
        BY DEF Inv, Probing
      <4>2. QED
        BY <1>6, <3>2, <4>1 DEF Claimed, Keeps
    <3>3. QED
      BY <2>1, <3>1, <3>2 DEF Recovery
  <2>3. v.recovery.armed = u.recovery.armed /\ \A c : Exempt(v, c) = Exempt(u, c)
    BY <2>1 DEF Recovery, Exempt
  <2>4. ASSUME NEW s \in Requests, sq[s].phase = "sent"
        PROVE  /\ s # r /\ sq[s] = rq[s] /\ rq[s].phase = "sent" /\ rq[s].generation <= u.generation
               /\ rq[s].id \notin Own(u, rq, r)
    <3>1. s # r /\ sq[s] = rq[s]
      BY <1>1, <2>4 DEF HoldPhases
    <3>2. rq[s].phase \in HoldPhases
      BY <2>4, <3>1 DEF HoldPhases
    <3>3. s \in Owner(v, sq) /\ IdOf(u, rq, s) = rq[s].id
      BY <1>4, <3>1, <3>2, HolderId
    <3>4. QED
      BY <1>7, <2>4, <3>1, <3>3 DEF Inv, Probing
  <2>5. ASSUME NEW s \in Requests, sq[s].phase = "sent", v.recovery.armed,
               sq[s].generation = v.generation, ~Exempt(v, CostOf[s])
        PROVE  sq[s].id = v.recovery.probe
    <3>1. rq[s].id = u.recovery.probe /\ rq[s].id \notin Own(u, rq, r) /\ sq[s] = rq[s]
      BY <2>3, <2>4, <2>5 DEF Inv, Probing
    <3>2. QED
      BY <3>1
  <2>6. QED
    BY <2>2, <2>4, <2>5 DEF Probing
<1>10. QED
  BY <1>1, <1>3, <1>8, <1>9 DEF Inv, sq

(* The waiter finds the reservation it was given and makes a Hold of it. *)
LEMMA TakeInv ==
    ASSUME NEW u, NEW v, NEW rq, Inv(u, rq), NEW r \in Requests, u.cell[r] > NoId,
           NEW x \in Request, x.phase = "held", x.id = u.cell[r],
           QueueOK(v), v.cell = [u.cell EXCEPT ![r] = NoId], v.roots = u.roots,
           v.ledger = u.ledger, v.recovery = u.recovery, v.generation = u.generation
    PROVE  Inv(v, [rq EXCEPT ![r] = x])
<1> DEFINE sq == [rq EXCEPT ![r] = x]
<1>1. sq \in [Requests -> Request] /\ sq[r] = x /\ \A s \in Requests \ {r} : sq[s] = rq[s]
  BY DEF Inv
<1> HIDE DEF sq
<1>2. v.cell[r] = NoId /\ \A s \in Requests \ {r} : v.cell[s] = u.cell[s]
  BY QueueFields DEF Inv
<1>3. rq[r].phase = "waiting" /\ u.cell[r] # NoId
  BY DEF Inv, Lined, NoId
<1>4. Lined(v, sq)
  <2>1. \A s \in Requests : v.cell[s] # NoId => sq[s].phase = "waiting"
    BY <1>1, <1>2 DEF Inv, Lined
  <2>2. ASSUME NEW root \in Roots, NEW k \in DOMAIN u.roots[root]
        PROVE  LET w == u.roots[root][k]
               IN  /\ RootOf[w.req] = root /\ sq[w.req].phase = "waiting" /\ v.cell[w.req] = NoId
                   /\ \A j \in DOMAIN u.roots[root] : u.roots[root][j].req = w.req => j = k
    <3> DEFINE w == u.roots[root][k]
    <3>1. /\ w.req \in Requests /\ RootOf[w.req] = root /\ rq[w.req].phase = "waiting"
          /\ u.cell[w.req] = NoId
      BY QueuedTicket
    <3>2. w.req # r
      BY <1>3, <3>1
    <3>3. QED
      BY <1>1, <1>2, <3>1, <3>2, LinesDistinct DEF Distinct
  <2>3. QED
    BY <2>1, <2>2 DEF Lined
<1>5. Owner(v, sq) = Owner(u, rq)
  BY <1>1, <1>2 DEF Owner, HoldPhases, NoId
<1>6. \A s \in Owner(u, rq) : IdOf(v, sq, s) = IdOf(u, rq, s) /\ s \in Requests
  BY <1>1, <1>2 DEF IdOf, Owner, NoId
<1>7. \A s \in Owner(u, rq) : sq[s].phase \in HoldPhases \ {"held"} <=> rq[s].phase \in HoldPhases \ {"held"}
  BY <1>1, <1>3, <1>6 DEF HoldPhases
<1>8. Owned(v, sq)
  BY <1>5, <1>6, <1>7 DEF Inv, Owned
<1>9. Probing(v, sq)
  BY <1>1, <1>3 DEF Inv, Probing, Claimed, Exempt
<1>10. QED
  BY <1>1, <1>4, <1>8, <1>9 DEF Inv, sq

(* Hold::start: only the probe may be sent while a recovery gates it. *)
LEMMA StartInv ==
    ASSUME NEW u, NEW v, NEW rq, NEW t \in Nat, Inv(u, rq), NEW r \in Requests,
           rq[r].phase = "held", MayStart(u, t, rq[r].id, CostOf[r]),
           NEW x \in Request, x.phase = "sent", x.id = rq[r].id, x.generation = u.generation,
           QueueOK(v), v.cell = u.cell, v.roots = u.roots,
           v.ledger = LedgerStart(u.ledger, t, rq[r].id),
           v.recovery = u.recovery, v.generation = u.generation
    PROVE  Inv(v, [rq EXCEPT ![r] = x])
<1> DEFINE sq == [rq EXCEPT ![r] = x]
           id == rq[r].id
           l == u.ledger
           m == v.ledger
<1>1. sq \in [Requests -> Request] /\ sq[r] = x /\ \A s \in Requests \ {r} : sq[s] = rq[s]
  BY DEF Inv
<1> HIDE DEF sq
<1>2. /\ u.cell[r] = NoId /\ r \in Owner(u, rq) /\ IdOf(u, rq, r) = id
      /\ id \in Active(l) /\ ~l.entries[id].started
  BY HolderId DEF HoldPhases
<1>3. CanStart(l, id) /\ LedgerOK(l)
  BY <1>2 DEF CanStart, Active, Inv, QueueOK
<1>4. /\ Active(m) = Active(l) /\ m.entries[id].started
      /\ m.entries[id].metadata = l.entries[id].metadata
      /\ \A i \in Active(l) \ {id} : m.entries[i] = l.entries[i]
  BY <1>3, StartKeeps
<1> HIDE DEF l, m
<1>5. Lined(v, sq)
  <2>1. \A s \in Requests : v.cell[s] # NoId => sq[s].phase = "waiting"
    BY <1>1, <1>2 DEF Inv, Lined
  <2>2. ASSUME NEW root \in Roots, NEW k \in DOMAIN u.roots[root]
        PROVE  LET w == u.roots[root][k]
               IN  /\ RootOf[w.req] = root /\ sq[w.req].phase = "waiting" /\ v.cell[w.req] = NoId
                   /\ \A j \in DOMAIN u.roots[root] : u.roots[root][j].req = w.req => j = k
    BY <1>1, QueuedTicket, LinesDistinct DEF Distinct
  <2>3. QED
    BY <2>1, <2>2 DEF Lined
<1>6. Owner(v, sq) = Owner(u, rq)
  BY <1>1, <1>2 DEF Owner, HoldPhases
<1>7. \A s \in Owner(u, rq) : IdOf(v, sq, s) = IdOf(u, rq, s) /\ s \in Requests
  BY <1>1 DEF IdOf, Owner
<1>8. ASSUME NEW s \in Owner(u, rq)
      PROVE  /\ IdOf(u, rq, s) \in Active(m)
             /\ m.entries[IdOf(u, rq, s)].started <=> sq[s].phase \in HoldPhases \ {"held"}
  <2>1. /\ IdOf(u, rq, s) \in Active(l)
        /\ l.entries[IdOf(u, rq, s)].started <=> rq[s].phase \in HoldPhases \ {"held"}
    BY DEF Inv, Owned, l
  <2>2. CASE s = r
    BY <1>1, <1>2, <1>4, <2>1, <2>2 DEF HoldPhases
  <2>3. CASE s # r
    <3>1. IdOf(u, rq, s) # id
      BY <1>2, <2>3 DEF Inv, Owned
    <3>2. QED
      BY <1>1, <1>4, <1>7, <2>1, <2>3, <3>1
  <2>4. QED
    BY <2>2, <2>3
<1>9. Owned(v, sq)
  BY <1>4, <1>6, <1>7, <1>8 DEF Inv, Owned, l, m
<1>10. Probing(v, sq)
  <2>1. \A c : Exempt(v, c) = Exempt(u, c)
    BY DEF Exempt
  <2>2. u.generation \in Nat
    BY QueueFields DEF Inv
  <2>3. ASSUME NEW s \in Requests, sq[s].phase = "sent"
        PROVE  /\ sq[s].generation <= v.generation
               /\ (/\ v.recovery.armed /\ sq[s].generation = v.generation
                   /\ ~Exempt(v, CostOf[s])) => sq[s].id = v.recovery.probe
    <3>1. CASE s = r
      BY <1>1, <2>1, <2>2, <3>1 DEF MayStart
    <3>2. CASE s # r
      BY <1>1, <2>1, <2>3, <3>2 DEF Inv, Probing
    <3>3. QED
      BY <3>1, <3>2
  <2>4. \A i \in Active(l) : i \in Active(m) /\ m.entries[i].metadata = l.entries[i].metadata
    BY <1>4
  <2>5. Claimed(v)
    BY <2>4 DEF Inv, Probing, Claimed, l, m
  <2>6. QED
    BY <2>3, <2>5 DEF Probing
<1>11. QED
  BY <1>1, <1>5, <1>9, <1>10 DEF Inv, sq

(* A started request gets its answer; what is sent becomes less. *)
LEMMA AnsweredInv ==
    ASSUME NEW u, NEW rq, Inv(u, rq), NEW r \in Requests, rq[r].phase \in HoldPhases \ {"held"},
           NEW x \in Request, x.phase \in HoldPhases \ {"held", "sent"}, x.id = rq[r].id
    PROVE  Inv(u, [rq EXCEPT ![r] = x])
<1> DEFINE sq == [rq EXCEPT ![r] = x]
<1>1. sq \in [Requests -> Request] /\ sq[r] = x /\ \A s \in Requests \ {r} : sq[s] = rq[s]
  BY DEF Inv
<1> HIDE DEF sq
<1>2. u.cell[r] = NoId
  BY HolderId
<1>3. Lined(u, sq)
  <2>1. \A s \in Requests : u.cell[s] # NoId => sq[s].phase = "waiting"
    BY <1>1, <1>2 DEF Inv, Lined
  <2>2. ASSUME NEW root \in Roots, NEW k \in DOMAIN u.roots[root]
        PROVE  LET w == u.roots[root][k]
               IN  /\ RootOf[w.req] = root /\ sq[w.req].phase = "waiting" /\ u.cell[w.req] = NoId
                   /\ \A j \in DOMAIN u.roots[root] : u.roots[root][j].req = w.req => j = k
    BY <1>1, QueuedTicket, LinesDistinct DEF Distinct, HoldPhases
  <2>3. QED
    BY <2>1, <2>2 DEF Lined
<1>4. Owner(u, sq) = Owner(u, rq)
  BY <1>1, <1>2 DEF Owner, HoldPhases
<1>5. \A s \in Owner(u, rq) : IdOf(u, sq, s) = IdOf(u, rq, s) /\ s \in Requests
  BY <1>1 DEF IdOf, Owner
<1>6. \A s \in Owner(u, rq) : sq[s].phase \in HoldPhases \ {"held"} <=> rq[s].phase \in HoldPhases \ {"held"}
  BY <1>1, <1>5 DEF HoldPhases
<1>7. Owned(u, sq)
  BY <1>4, <1>5, <1>6 DEF Inv, Owned
<1>8. Probing(u, sq)
  BY <1>1 DEF Inv, Probing
<1>9. QED
  BY <1>1, <1>3, <1>7, <1>8 DEF Inv, sq

-----------------------------------------------------------------------------
(* The recovery.  What a change of it alone must respect. *)
LEMMA RecoveryInv ==
    ASSUME NEW u, NEW v, NEW rq, Inv(u, rq), QueueOK(v), v.ledger = u.ledger,
           v.cell = u.cell, v.roots = u.roots, v.generation >= u.generation,
           v.recovery.armed /\ v.recovery.probe # NoId =>
              /\ v.recovery.probe = u.recovery.probe /\ u.recovery.armed
              /\ v.recovery.generation_only =>
                    \/ u.recovery.generation_only
                    \/ ~u.ledger.entries[u.recovery.probe].metadata,
           \/ v.generation > u.generation
           \/ ~v.recovery.armed
           \/ /\ u.recovery.armed /\ v.recovery.probe = u.recovery.probe
              /\ u.recovery.generation_only => v.recovery.generation_only
    PROVE  Inv(v, rq)
<1>1. Owned(v, rq)
  <2>1. Keeps(u.ledger, v.ledger, Active(u.ledger))
    BY DEF Keeps
  <2>2. QED
    BY <2>1, OwnedSame DEF Inv
<1>2. Lined(v, rq)
  BY DEF Inv, Lined
<1>3. Probing(v, rq)
  <2>1. u.generation \in Nat /\ v.generation \in Nat
    BY QueueFields DEF Inv
  <2>2. \A r \in Requests : rq[r].generation \in Nat
    BY DEF Inv, Request
  <2>3. Claimed(v)
    BY DEF Inv, Probing, Claimed
  <2>4. ASSUME NEW r \in Requests, rq[r].phase = "sent"
        PROVE  /\ rq[r].generation <= v.generation
               /\ (/\ v.recovery.armed /\ rq[r].generation = v.generation
                   /\ ~Exempt(v, CostOf[r])) => rq[r].id = v.recovery.probe
    <3>1. /\ rq[r].generation <= u.generation
          /\ (/\ u.recovery.armed /\ rq[r].generation = u.generation
              /\ ~Exempt(u, CostOf[r])) => rq[r].id = u.recovery.probe
      BY <2>4 DEF Inv, Probing
    <3>2. rq[r].generation <= v.generation
      BY <2>1, <2>2, <3>1
    <3>3. CASE v.generation > u.generation \/ ~v.recovery.armed
      BY <2>1, <2>2, <3>1, <3>2, <3>3
    <3>4. CASE /\ ~(v.generation > u.generation) /\ v.recovery.armed
               /\ u.recovery.armed /\ v.recovery.probe = u.recovery.probe
               /\ u.recovery.generation_only => v.recovery.generation_only
      <4>1. v.generation = u.generation
        BY <2>1, <3>4
      <4>2. ~Exempt(v, CostOf[r]) => ~Exempt(u, CostOf[r])
        BY <3>4 DEF Exempt
      <4>3. QED
        BY <3>1, <3>2, <3>4, <4>1, <4>2
    <3>5. QED
      BY <3>3, <3>4
  <2>5. QED
    BY <2>3, <2>4 DEF Probing
<1>4. QED
  BY <1>1, <1>2, <1>3 DEF Inv

(* A longer cooldown. *)
LEMMA RaiseInv ==
    ASSUME NEW u, NEW rq, NEW t \in Nat, Inv(u, rq)
    PROVE  LET v == RaiseCooldown(u, t)
           IN  /\ Inv(v, rq) /\ v.ledger = u.ledger /\ v.cell = u.cell /\ v.roots = u.roots
               /\ v.generation = u.generation /\ v.recovery = u.recovery
               /\ v.no_hint_stage = u.no_hint_stage
<1> DEFINE n == Later(u.cooldown_until, t)
           v == [u EXCEPT !.cooldown_until = n]
<1>1. n \in Nat
  BY QueueFields DEF Later, Inv
<1>2. RaiseCooldown(u, t) = v
  BY DEF RaiseCooldown
<1> HIDE DEF n
<1>3. /\ QueueOK(v) /\ v.ledger = u.ledger /\ v.cell = u.cell /\ v.roots = u.roots
      /\ v.generation = u.generation /\ v.recovery = u.recovery
      /\ v.no_hint_stage = u.no_hint_stage
  BY <1>1 DEF Inv, QueueOK, QueueType
<1> HIDE DEF v
<1>4. Keeps(u.ledger, v.ledger, Active(u.ledger))
  BY <1>3 DEF Keeps
<1>5. Inv(v, rq)
  BY <1>3, <1>4, FrameInv
<1>6. QED
  BY <1>2, <1>3, <1>5

(* A recovery is armed in a new generation, without a probe. *)
LEMMA ArmInv ==
    ASSUME NEW u, NEW rq, NEW t \in Nat, NEW d \in Nat, NEW only \in BOOLEAN, Inv(u, rq)
    PROVE  LET v == ArmRecovery(u, t, d, only)
           IN  /\ Inv(v, rq) /\ v.ledger = u.ledger /\ v.cell = u.cell /\ v.roots = u.roots
               /\ v.no_hint_stage = u.no_hint_stage
<1> DEFINE w == RaiseCooldown(u, t + d)
           g == only \/ w.recovery.generation_only
           n == w.generation + 1
           p == [armed |-> TRUE, probe |-> NoId, generation_only |-> g]
           v == [w EXCEPT !.generation = n, !.recovery = p]
<1>1. /\ Inv(w, rq) /\ w.ledger = u.ledger /\ w.cell = u.cell /\ w.roots = u.roots
      /\ w.no_hint_stage = u.no_hint_stage
  <2>1. t + d \in Nat
    OBVIOUS
  <2>2. QED
    BY <2>1, RaiseInv
<1>2. ArmRecovery(u, t, d, only) = v
  BY DEF ArmRecovery
<1> HIDE DEF w
<1>3. n \in Nat /\ n > w.generation
  BY <1>1, QueueFields DEF Inv
<1>4. g \in BOOLEAN
  BY DEF Recovery
<1> HIDE DEF n, g
<1>5. p \in Recovery /\ p.probe = NoId
  BY <1>4 DEF Recovery, NoId
<1> HIDE DEF p
<1>6. /\ QueueOK(v) /\ v.ledger = w.ledger /\ v.cell = w.cell /\ v.roots = w.roots
      /\ v.generation = n /\ v.recovery = p /\ v.no_hint_stage = w.no_hint_stage
  BY <1>1, <1>3, <1>5 DEF Inv, QueueOK, QueueType
<1> HIDE DEF v
<1>7. v.generation >= w.generation
  BY <1>1, <1>3, <1>6, QueueFields DEF Inv
<1>8. Inv(v, rq)
  BY <1>1, <1>3, <1>5, <1>6, <1>7, RecoveryInv
<1>9. QED
  BY <1>1, <1>2, <1>6, <1>8

(* The probe succeeded and the recovery ends, or nothing happens. *)
LEMMA AcceptInv ==
    ASSUME NEW u, NEW rq, NEW t, NEW id, NEW g, Inv(u, rq)
    PROVE  LET v == Accepted(u, t, id, g)
           IN  Inv(v, rq) /\ v.ledger = u.ledger /\ v.cell = u.cell /\ v.roots = u.roots
<1> DEFINE v == [u EXCEPT !.recovery = NoRecovery, !.no_hint_stage = 1]
<1>1. Accepted(u, t, id, g) \in {u, v}
  BY DEF Accepted
<1>2. NoRecovery \in Recovery /\ ~NoRecovery.armed /\ 1 \in 1 .. Len(Backoff)
  <2>1. 1 \in 1 .. Len(Backoff)
    BY QueueFields DEF Inv
  <2>2. QED
    BY <2>1 DEF NoRecovery, Recovery, NoId
<1>3. /\ QueueOK(v) /\ v.ledger = u.ledger /\ v.cell = u.cell /\ v.roots = u.roots
      /\ v.generation = u.generation /\ v.recovery = NoRecovery
  BY <1>2 DEF Inv, QueueOK, QueueType
<1> HIDE DEF v
<1>4. v.generation >= u.generation
  BY <1>3, QueueFields DEF Inv
<1>5. Inv(v, rq)
  BY <1>2, <1>3, <1>4, RecoveryInv
<1>6. QED
  BY <1>1, <1>3, <1>5

(* A late rejection of an older generation. *)
LEMMA StaleInv ==
    ASSUME NEW u, NEW rq, NEW cost, Inv(u, rq)
    PROVE  LET v == StaleThrottle(u, cost)
           IN  Inv(v, rq) /\ v.ledger = u.ledger /\ v.cell = u.cell /\ v.roots = u.roots
<1> DEFINE p == [u.recovery EXCEPT !.generation_only = TRUE]
           s == [u.recovery EXCEPT !.generation_only = TRUE, !.probe = NoId]
           n == u.generation + 1
           v == [u EXCEPT !.recovery = p]
           w == [u EXCEPT !.recovery = s, !.generation = n]
<1>1. u \in QueueType({u.ledger}) /\ u.recovery \in Recovery /\ u.generation \in Nat
  BY QueueFields DEF Inv, QueueOK
<1>2. \/ StaleThrottle(u, cost) = u
      \/ /\ StaleThrottle(u, cost) = v /\ u.recovery.armed
         /\ ~u.ledger.entries[u.recovery.probe].metadata
      \/ StaleThrottle(u, cost) = w
  BY <1>1 DEF StaleThrottle, IsActiveGeneration, QueueType, Recovery
<1>3. p \in Recovery /\ p.probe = u.recovery.probe /\ p.armed = u.recovery.armed /\ p.generation_only
  BY <1>1 DEF Recovery
<1>4. s \in Recovery /\ s.probe = NoId
  BY <1>1 DEF Recovery, NoId
<1>5. n \in Nat /\ n > u.generation /\ n >= u.generation /\ u.generation >= u.generation
  BY <1>1
<1> HIDE DEF p, s, n
<1>6. /\ QueueOK(v) /\ v.ledger = u.ledger /\ v.cell = u.cell /\ v.roots = u.roots
      /\ v.generation = u.generation /\ v.recovery = p
  BY <1>3 DEF Inv, QueueOK, QueueType
<1>7. /\ QueueOK(w) /\ w.ledger = u.ledger /\ w.cell = u.cell /\ w.roots = u.roots
      /\ w.generation = n /\ w.recovery = s
  BY <1>4, <1>5 DEF Inv, QueueOK, QueueType
<1> HIDE DEF v, w
<1>8. u.recovery.armed /\ ~u.ledger.entries[u.recovery.probe].metadata => Inv(v, rq)
  BY <1>3, <1>5, <1>6, RecoveryInv
<1>9. Inv(w, rq)
  BY <1>4, <1>5, <1>7, RecoveryInv
<1>10. QED
  BY <1>2, <1>6, <1>7, <1>8, <1>9

(* Queue::throttle, in each of its three cases. *)
LEMMA ThrottleInv ==
    ASSUME NEW u, NEW rq, NEW t \in Nat, NEW g, NEW cost, NEW timing, Inv(u, rq),
           NEW v \in Throttle(u, t, g, cost, timing)
    PROVE  Inv(v, rq) /\ v.ledger = u.ledger /\ v.cell = u.cell /\ v.roots = u.roots
<1>1. IsGeneration(cost) \in BOOLEAN
  BY DEF IsGeneration
<1>2. CASE g # u.generation
  <2>1. v = StaleThrottle(u, cost)
    BY <1>2 DEF Throttle
  <2>2. QED
    BY <2>1, StaleInv
<1>3. CASE g = u.generation /\ timing
  <2>1. v = ArmRecovery(u, t, 0, IsGeneration(cost))
    BY <1>3 DEF Throttle
  <2>2. QED
    BY <1>1, <2>1, ArmInv
<1>4. CASE g = u.generation /\ ~timing
  <2> DEFINE W(d) == ArmRecovery(u, t, d, IsGeneration(cost))
  <2>1. u.no_hint_stage \in 1 .. Len(Backoff) /\ Len(Backoff) \in Nat
    <3>1. Len(Backoff) \in Int
      BY QueueFields, AdmissionAssumption DEF Inv
    <3>2. QED
      BY <3>1, QueueFields, AdmissionAssumption DEF Inv
  <2>2. PICK d \in Backoff[u.no_hint_stage] :
           v = [W(d) EXCEPT !.no_hint_stage = IF @ < Len(Backoff) THEN @ + 1 ELSE @]
    BY <1>4 DEF Throttle
  <2>3. d \in Nat
    BY <2>1, AdmissionAssumption
  <2> DEFINE w == W(d)
             n == IF w.no_hint_stage < Len(Backoff) THEN w.no_hint_stage + 1 ELSE w.no_hint_stage
  <2>4. /\ Inv(w, rq) /\ w.ledger = u.ledger /\ w.cell = u.cell /\ w.roots = u.roots
        /\ w.no_hint_stage = u.no_hint_stage
    BY <1>1, <2>3, ArmInv
  <2>5. v = [w EXCEPT !.no_hint_stage = n]
    BY <2>2
  <2> HIDE DEF w, W
  <2>6. n \in 1 .. Len(Backoff)
    BY <2>1, <2>4
  <2> HIDE DEF n
  <2>7. /\ QueueOK(v) /\ v.ledger = w.ledger /\ v.cell = w.cell /\ v.roots = w.roots
        /\ v.generation = w.generation /\ v.recovery = w.recovery
    BY <2>4, <2>5, <2>6 DEF Inv, QueueOK, QueueType
  <2>8. Keeps(w.ledger, v.ledger, Active(w.ledger))
    BY <2>7 DEF Keeps
  <2>9. Inv(v, rq)
    BY <2>4, <2>7, <2>8, FrameInv
  <2>10. QED
    BY <2>4, <2>7, <2>9
<1>5. QED
  BY <1>2, <1>3, <1>4

(* What ReleaseProbe does to a queue. *)
LEMMA ReleaseFields ==
    ASSUME NEW u, QueueOK(u), NEW id
    PROVE  LET v == ReleaseProbe(u, id)
           IN  /\ QueueOK(v) /\ v.ledger = u.ledger /\ v.cell = u.cell /\ v.roots = u.roots
               /\ v.generation = u.generation
               /\ \/ /\ v = u /\ v.recovery = u.recovery
                     /\ u.recovery.armed => u.recovery.probe # id
                  \/ /\ v.recovery = [u.recovery EXCEPT !.probe = NoId]
                     /\ u.recovery.armed /\ u.recovery.probe = id
<1> DEFINE p == [u.recovery EXCEPT !.probe = NoId]
           v == [u EXCEPT !.recovery = p]
<1>1. u \in QueueType({u.ledger}) /\ u.recovery \in Recovery
  BY QueueFields DEF QueueOK
<1>2. \/ ReleaseProbe(u, id) = u /\ (u.recovery.armed => u.recovery.probe # id)
      \/ ReleaseProbe(u, id) = v /\ u.recovery.armed /\ u.recovery.probe = id
  BY <1>1 DEF ReleaseProbe, QueueType, Recovery
<1>3. p \in Recovery
  BY <1>1 DEF Recovery, NoId
<1> HIDE DEF p
<1>4. /\ QueueOK(v) /\ v.ledger = u.ledger /\ v.cell = u.cell /\ v.roots = u.roots
      /\ v.generation = u.generation /\ v.recovery = p
  BY <1>3 DEF QueueOK, QueueType
<1>5. QED
  BY <1>2, <1>4 DEF p

(* A holder that is not on the wire gives up its claim and keeps its hold. *)
LEMMA ReleaseProbeInv ==
    ASSUME NEW u, NEW rq, Inv(u, rq), NEW r \in Requests,
           rq[r].phase \in HoldPhases \ {"sent"}
    PROVE  LET v == ReleaseProbe(u, rq[r].id)
           IN  Inv(v, rq) /\ v.ledger = u.ledger /\ v.cell = u.cell /\ v.roots = u.roots
<1> DEFINE id == rq[r].id
           v == ReleaseProbe(u, id)
<1>1. /\ QueueOK(v) /\ v.ledger = u.ledger /\ v.cell = u.cell /\ v.roots = u.roots
      /\ v.generation = u.generation
      /\ \/ v = u
         \/ /\ v.recovery = [u.recovery EXCEPT !.probe = NoId]
            /\ u.recovery.armed /\ u.recovery.probe = id
  BY ReleaseFields DEF Inv
<1> HIDE DEF v
<1>2. CASE v = u
  BY <1>2 DEF v
<1>3. CASE /\ v.recovery = [u.recovery EXCEPT !.probe = NoId]
           /\ u.recovery.armed /\ u.recovery.probe = id
  <2>1. Owned(v, rq)
    <3>1. Keeps(u.ledger, v.ledger, Active(u.ledger))
      BY <1>1 DEF Keeps
    <3>2. QED
      BY <1>1, <3>1, OwnedSame DEF Inv
  <2>2. Lined(v, rq)
    BY <1>1 DEF Inv, Lined
  <2>3. u.recovery \in Recovery
    BY QueueFields DEF Inv
  <2>4. v.recovery.probe = NoId /\ \A c : Exempt(v, c) = Exempt(u, c)
    BY <1>3, <2>3 DEF Recovery, Exempt
  <2>5. ASSUME NEW s \in Requests, rq[s].phase = "sent"
        PROVE  rq[s].id # id
    <3>1. rq[s].phase \in HoldPhases /\ s # r /\ rq[r].phase \in HoldPhases
      BY <2>5 DEF HoldPhases
    <3>2. /\ s \in Owner(u, rq) /\ IdOf(u, rq, s) = rq[s].id
          /\ r \in Owner(u, rq) /\ IdOf(u, rq, r) = rq[r].id
      BY <3>1, HolderId
    <3>3. QED
      BY <3>1, <3>2 DEF Inv, Owned
  <2>6. Probing(v, rq)
    BY <1>1, <1>3, <2>4, <2>5 DEF Inv, Probing, Claimed
  <2>7. QED
    BY <1>1, <2>1, <2>2, <2>6 DEF Inv, v
<1>4. QED
  BY <1>1, <1>2, <1>3 DEF v

-----------------------------------------------------------------------------
(* Queue::enqueue: a request that has nothing joins the line of its root. *)
LEMMA EnqueueInv ==
    ASSUME NEW u, NEW rq, Inv(u, rq), NEW r \in Requests,
           rq[r].phase \notin HoldPhases \cup {"waiting"},
           NEW enqueued \in Nat, NEW deadline \in Nat,
           NEW x \in Request, x.phase = "waiting"
    PROVE  Inv(Enqueue(u, r, enqueued, deadline), [rq EXCEPT ![r] = x])
<1> DEFINE home == RootOf[r]
           n == u.sequence + 1
           w == [req |-> r, enqueued |-> enqueued, deadline |-> deadline,
                 sequence |-> n, bypasses |-> 0]
           line == Append(u.roots[home], w)
           R == [u.roots EXCEPT ![home] = line]
           v == Enqueue(u, r, enqueued, deadline)
           sq == [rq EXCEPT ![r] = x]
<1>1. /\ u \in QueueType({u.ledger}) /\ u.sequence \in Nat
      /\ u.roots \in [Roots -> Seq(Waiter)]
  BY QueueFields DEF Inv, QueueOK
<1>2. v = [u EXCEPT !.sequence = n, !.roots = R]
  BY <1>1 DEF Enqueue, QueueType
<1>3. home \in Roots /\ n \in Nat
  BY <1>1, AdmissionAssumption
<1> HIDE DEF home, n
<1>4. w \in Waiter /\ w.req = r
  BY <1>3 DEF Waiter
<1> HIDE DEF w
<1>5. /\ line \in Seq(Waiter) /\ DOMAIN line = 1 .. Len(u.roots[home]) + 1
      /\ line[Len(u.roots[home]) + 1] = w
      /\ \A k \in 1 .. Len(u.roots[home]) : line[k] = u.roots[home][k]
      /\ DOMAIN u.roots[home] = 1 .. Len(u.roots[home]) /\ Len(u.roots[home]) \in Nat
  <2>1. u.roots[home] \in Seq(Waiter)
    BY <1>1, <1>3
  <2>2. QED
    BY <1>4, <2>1
<1> HIDE DEF line
<1>6. /\ R \in [Roots -> Seq(Waiter)] /\ R[home] = line
      /\ \A root \in Roots \ {home} : R[root] = u.roots[root]
  BY <1>1, <1>3, <1>5
<1> HIDE DEF R, v
<1>7. /\ QueueOK(v) /\ v.ledger = u.ledger /\ v.cell = u.cell /\ v.roots = R
      /\ v.generation = u.generation /\ v.recovery = u.recovery
  BY <1>2, <1>3, <1>6 DEF Inv, QueueOK, QueueType
<1>8. sq \in [Requests -> Request] /\ sq[r] = x /\ \A s \in Requests \ {r} : sq[s] = rq[s]
  BY DEF Inv
<1> HIDE DEF sq
<1>9. u.cell[r] = NoId
  BY DEF Inv, Lined
<1>10. Lined(v, sq)
  <2>1. \A s \in Requests : v.cell[s] # NoId => sq[s].phase = "waiting"
    BY <1>7, <1>8, <1>9 DEF Inv, Lined
  <2>2. ASSUME NEW root \in Roots, NEW k \in DOMAIN u.roots[root]
        PROVE  LET y == u.roots[root][k]
               IN  /\ y.req # r /\ RootOf[y.req] = root /\ sq[y.req].phase = "waiting"
                   /\ u.cell[y.req] = NoId
                   /\ \A j \in DOMAIN u.roots[root] : u.roots[root][j].req = y.req => j = k
    <3>1. LET y == u.roots[root][k]
          IN  /\ y.req \in Requests /\ RootOf[y.req] = root /\ rq[y.req].phase = "waiting"
              /\ u.cell[y.req] = NoId
      BY QueuedTicket
    <3>2. u.roots[root][k].req # r
      BY <3>1
    <3>3. QED
      BY <1>8, <3>1, <3>2, LinesDistinct DEF Distinct
  <2>3. ASSUME NEW root \in Roots, NEW k \in DOMAIN R[root]
        PROVE  LET y == R[root][k]
               IN  /\ RootOf[y.req] = root /\ sq[y.req].phase = "waiting"
                   /\ u.cell[y.req] = NoId
                   /\ \A j \in DOMAIN R[root] : R[root][j].req = y.req => j = k
    <3>1. CASE root # home
      BY <1>6, <2>2, <3>1
    <3>2. CASE root = home /\ k = Len(u.roots[home]) + 1
      <4>1. R[root][k] = w /\ RootOf[r] = root
        BY <1>5, <1>6, <3>2 DEF home
      <4>2. ASSUME NEW j \in DOMAIN R[root], j # k PROVE R[root][j].req # r
        <5>1. j \in DOMAIN u.roots[home] /\ R[root][j] = u.roots[home][j]
          BY <1>5, <1>6, <3>2, <4>2
        <5>2. QED
          BY <1>3, <2>2, <5>1
      <4>3. QED
        BY <1>4, <1>8, <1>9, <4>1, <4>2
    <3>3. CASE root = home /\ k # Len(u.roots[home]) + 1
      <4>1. k \in DOMAIN u.roots[home] /\ R[root][k] = u.roots[home][k]
        BY <1>5, <1>6, <3>3
      <4>2. ASSUME NEW j \in DOMAIN R[root], R[root][j].req = R[root][k].req PROVE j = k
        <5>1. CASE j = Len(u.roots[home]) + 1
          <6>1. R[root][j].req = r
            BY <1>4, <1>5, <1>6, <3>3, <5>1
          <6>2. home \in Roots /\ k \in DOMAIN u.roots[home] /\ u.roots[home][k].req = r
            BY <1>3, <4>1, <4>2, <6>1
          <6>3. FALSE
            BY <2>2, <6>2
          <6>4. QED
            BY <6>3
        <5>2. CASE j # Len(u.roots[home]) + 1
          <6>1. j \in DOMAIN u.roots[home] /\ R[root][j] = u.roots[home][j]
            BY <1>5, <1>6, <3>3, <5>2
          <6>2. QED
            BY <1>3, <2>2, <4>1, <4>2, <6>1
        <5>3. QED
          BY <5>1, <5>2
      <4>3. QED
        BY <1>3, <2>2, <3>3, <4>1, <4>2
    <3>4. QED
      BY <3>1, <3>2, <3>3
  <2>4. QED
    BY <1>7, <2>1, <2>3 DEF Lined
<1>11. Owner(v, sq) = Owner(u, rq)
  BY <1>7, <1>8, <1>9 DEF Owner, HoldPhases, NoId
<1>12. \A s \in Owner(u, rq) : IdOf(v, sq, s) = IdOf(u, rq, s) /\ s \in Requests /\ s # r
  BY <1>7, <1>8, <1>9 DEF IdOf, Owner, NoId
<1>13. Owned(v, sq)
  BY <1>7, <1>8, <1>11, <1>12 DEF Inv, Owned
<1>14. Probing(v, sq)
  BY <1>7, <1>8 DEF Inv, Probing, Claimed, Exempt
<1>15. QED
  BY <1>7, <1>8, <1>10, <1>13, <1>14 DEF Inv, v, sq

-----------------------------------------------------------------------------
(* The requests' records. *)
LEMMA DoneRequest ==
    /\ Done \in Request /\ Done.phase = "done"
    /\ Idle \in Request /\ Idle.phase = "idle"
BY DEF Done, Idle, Request, NoId, Never, HoldPhases

(* Notifying the waiters keeps the invariant. *)
LEMMA NotifiedInv ==
    ASSUME NEW u, NEW rq, Inv(u, rq)
    PROVE  Inv(u, NotifyWaiters(rq))
BY AlikeInv, NotifyAlike DEF Inv

(* A request that has nothing leaves. *)
LEMMA NothingToLeave ==
    ASSUME NEW u, NEW rq, Inv(u, rq), NEW r \in Requests,
           rq[r].phase \notin HoldPhases \cup {"waiting"}
    PROVE  Inv(u, [rq EXCEPT ![r] = Done])
<1>1. u.cell[r] = NoId
  BY DEF Inv, Lined
<1>2. u.cell = [u.cell EXCEPT ![r] = NoId]
  BY <1>1, QueueFields DEF Inv
<1>3. r \notin Owner(u, rq)
  BY <1>1 DEF Owner, NoId
<1>4. Own(u, rq, r) = {} /\ Keeps(u.ledger, u.ledger, Active(u.ledger) \ Own(u, rq, r))
  BY <1>3 DEF Own, Keeps
<1>5. \A root \in Roots : Sub(u.roots[root], u.roots[root], r)
  BY OutsiderLines
<1>6. Done.phase \notin HoldPhases \cup {"waiting"}
  BY DoneRequest DEF HoldPhases
<1>7. QED
  BY <1>2, <1>4, <1>5, <1>6, DoneRequest, LeaveInv DEF Inv

(* acquire_at up to its loop: refused, too late, or queued. *)
LEMMA AcquireAtInv ==
    ASSUME AdmissionInv, NEW r \in Requests, req[r].phase \in {"idle", "requeue"},
           NEW enqueued \in Nat, NEW deadline \in Nat, AcquireAt(r, enqueued, deadline)
    PROVE  AdmissionInv'
<1> DEFINE driven == Drive(q, clock)
           rest == IF QLen(driven) # QLen(q) THEN NotifyWaiters(req) ELSE req
           x == [req[r] EXCEPT !.phase = "waiting", !.id = NoId, !.generation = 0,
                               !.exhausted = FALSE, !.timing = "missing",
                               !.enqueued = enqueued, !.deadline = deadline, !.wake = Never]
<1>1. clock \in Nat /\ Inv(q, req) /\ req \in [Requests -> Request]
  BY DEF AdmissionInv, Inv
<1>2. req[r].phase \notin HoldPhases \cup {"waiting"}
  BY DEF HoldPhases
<1>3. Inv(driven, req)
  BY <1>1, DriveInv
<1>4. clock' = clock
  BY DEF AcquireAt
<1>5. CASE q' = q /\ req' = [req EXCEPT ![r] = Done]
  BY <1>1, <1>2, <1>4, <1>5, NothingToLeave DEF AdmissionInv
<1>6. CASE q' = driven /\ req' = [rest EXCEPT ![r] = Done]
  <2>1. Inv(driven, rest) /\ rest[r].phase = req[r].phase
    BY <1>1, <1>2, <1>3, NotifiedInv, NotifyAlike
  <2> HIDE DEF driven, rest
  <2>2. Inv(driven, [rest EXCEPT ![r] = Done])
    BY <1>2, <2>1, NothingToLeave
  <2>3. QED
    BY <1>1, <1>4, <1>6, <2>2 DEF AdmissionInv
<1>7. CASE /\ q' = Enqueue(driven, r, enqueued, deadline)
           /\ req' = NotifyWaiters([req EXCEPT ![r] = x])
  <2>1. x \in Request /\ x.phase = "waiting"
    BY <1>1, ZenonT(60) DEF Request, NoId, Never
  <2> HIDE DEF driven, x
  <2>2. Inv(Enqueue(driven, r, enqueued, deadline), [req EXCEPT ![r] = x])
    BY <1>2, <1>3, <2>1, EnqueueInv
  <2>3. QED
    BY <1>1, <1>4, <1>7, <2>2, NotifiedInv DEF AdmissionInv
<1>8. [req EXCEPT ![r].phase = "waiting", ![r].id = NoId, ![r].generation = 0,
                  ![r].exhausted = FALSE, ![r].timing = "missing",
                  ![r].enqueued = enqueued, ![r].deadline = deadline,
                  ![r].wake = Never] = [req EXCEPT ![r] = x]
  BY <1>1
<1> HIDE DEF x
<1>9. \/ q' = q /\ req' = [req EXCEPT ![r] = Done]
      \/ q' = driven /\ req' = [rest EXCEPT ![r] = Done]
      \/ /\ q' = Enqueue(driven, r, enqueued, deadline)
         /\ req' = NotifyWaiters([req EXCEPT ![r] = x])
  BY <1>8 DEF AcquireAt
<1>10. QED
  BY <1>5, <1>6, <1>7, <1>9

(* A turn of the waiter's loop: expired, admitted, or asleep again. *)
LEMMA PollInv ==
    ASSUME AdmissionInv, NEW r \in Requests, Poll(r)
    PROVE  AdmissionInv'
<1> DEFINE driven == Drive(q, clock)
           outcome == driven.cell[r]
           C == [driven.cell EXCEPT ![r] = NoId]
           v == [driven EXCEPT !.cell = C]
           asleep == [req[r] EXCEPT !.woken = FALSE, !.wake = WakeAt(driven, clock)]
           held == [req[r] EXCEPT !.phase = "held", !.id = outcome,
                                  !.woken = FALSE, !.wake = Never]
<1>1. clock \in Nat /\ Inv(q, req) /\ req \in [Requests -> Request] /\ clock' = clock
      /\ req[r].phase = "waiting"
  BY DEF AdmissionInv, Inv, Poll, CanPoll
<1>2. Inv(driven, req)
  BY <1>1, DriveInv
<1>3. /\ q' = [driven EXCEPT !.cell[r] = NoId]
      /\ \/ outcome = Expired /\ req' = NotifyWaiters([req EXCEPT ![r] = Done])
         \/ /\ outcome # Expired /\ outcome # NoId
            /\ req' = NotifyWaiters([req EXCEPT ![r].phase = "held", ![r].id = outcome,
                                                ![r].woken = FALSE, ![r].wake = Never])
         \/ /\ outcome = NoId
            /\ \/ req' = NotifyWaiters([req EXCEPT ![r].woken = FALSE,
                                                   ![r].wake = WakeAt(driven, clock)])
               \/ req' = [req EXCEPT ![r].woken = FALSE, ![r].wake = WakeAt(driven, clock)]
  BY DEF Poll
<1> HIDE DEF driven
<1>4. /\ [req EXCEPT ![r].phase = "held", ![r].id = outcome, ![r].woken = FALSE, ![r].wake = Never]
           = [req EXCEPT ![r] = held]
      /\ [req EXCEPT ![r].woken = FALSE, ![r].wake = WakeAt(driven, clock)]
           = [req EXCEPT ![r] = asleep]
  BY <1>1
<1>5. /\ driven \in QueueType({driven.ledger}) /\ driven.cell \in [Requests -> Nat \cup {Expired}]
      /\ LedgerOK(driven.ledger)
  BY <1>2, QueueFields DEF Inv, QueueOK
<1>6. q' = v
  BY <1>3, <1>5 DEF QueueType
<1>7. C \in [Requests -> Nat \cup {Expired}]
  BY <1>5 DEF NoId
<1>8. /\ QueueOK(v) /\ v.cell = C /\ v.roots = driven.roots /\ v.ledger = driven.ledger
      /\ v.recovery = driven.recovery /\ v.generation = driven.generation
  <2> HIDE DEF C
  <2>1. QED
    BY <1>5, <1>7 DEF QueueOK, QueueType
<1> HIDE DEF v
<1>9. CASE outcome = Expired /\ req' = NotifyWaiters([req EXCEPT ![r] = Done])
  <2>1. \A root \in Roots : Sub(v.roots[root], driven.roots[root], r)
    BY <1>2, <1>8, <1>9, OutsiderLines DEF Expired, NoId
  <2>2. r \notin Owner(driven, req)
    BY <1>1, <1>9 DEF Owner, HoldPhases, Expired, NoId
  <2>3. Own(driven, req, r) = {} /\ Keeps(driven.ledger, v.ledger, Active(driven.ledger) \ Own(driven, req, r))
    BY <1>8, <2>2 DEF Own, Keeps
  <2>4. Done.phase \notin HoldPhases \cup {"waiting"}
    BY DoneRequest DEF HoldPhases
  <2>5. Inv(v, [req EXCEPT ![r] = Done])
    BY <1>2, <1>8, <2>1, <2>3, <2>4, DoneRequest, LeaveInv
  <2>6. QED
    BY <1>1, <1>6, <1>9, <2>5, NotifiedInv DEF AdmissionInv
<1>10. CASE outcome # Expired /\ outcome # NoId /\ req' = NotifyWaiters([req EXCEPT ![r] = held])
  <2>1. outcome \in Nat /\ outcome > NoId
    BY <1>5, <1>10 DEF NoId
  <2>2. held \in Request /\ held.phase = "held" /\ held.id = driven.cell[r]
    <3>1. req[r] \in Request
      BY <1>1
    <3> HIDE DEF outcome
    <3>2. held \in Request /\ held.phase = "held" /\ held.id = outcome
      BY <2>1, <3>1 DEF Request, HoldPhases, Never
    <3>3. QED
      BY <3>2 DEF outcome
  <2> HIDE DEF held
  <2>3. Inv(v, [req EXCEPT ![r] = held])
    BY <1>2, <1>8, <2>1, <2>2, TakeInv
  <2>4. QED
    BY <1>1, <1>6, <1>10, <2>3, NotifiedInv DEF AdmissionInv
<1>11. CASE /\ outcome = NoId
            /\ \/ req' = NotifyWaiters([req EXCEPT ![r] = asleep])
               \/ req' = [req EXCEPT ![r] = asleep]
  <2>1. C = driven.cell
    BY <1>5, <1>11
  <2>2. Keeps(driven.ledger, v.ledger, Active(driven.ledger))
    BY <1>8 DEF Keeps
  <2>3. Inv(v, req)
    BY <1>2, <1>8, <2>1, <2>2, FrameInv
  <2> DEFINE n == WakeAt(driven, clock)
  <2>4. n \in Nat
    BY <1>1, <1>2, WakeAtNat DEF Inv
  <2>5. req[r] \in Request
    BY <1>1
  <2>6. /\ asleep \in Request /\ asleep.phase = req[r].phase /\ asleep.id = req[r].id
        /\ asleep.generation = req[r].generation
    <3> HIDE DEF n
    <3>1. asleep = [req[r] EXCEPT !.woken = FALSE, !.wake = n]
      BY DEF n
    <3> HIDE DEF asleep
    <3>2. QED
      BY <2>4, <2>5, <3>1 DEF Request
  <2> HIDE DEF asleep
  <2>7. [req EXCEPT ![r] = asleep] \in [Requests -> Request] /\ Alike(req, [req EXCEPT ![r] = asleep])
    BY <1>1, <2>6 DEF Alike
  <2>8. Inv(v, [req EXCEPT ![r] = asleep])
    BY <2>3, <2>7, AlikeInv
  <2>9. Inv(v, NotifyWaiters([req EXCEPT ![r] = asleep]))
    BY <2>8, NotifiedInv
  <2>10. QED
    BY <1>1, <1>6, <1>11, <2>8, <2>9 DEF AdmissionInv
<1>12. QED
  <2> HIDE DEF outcome, held, asleep
  <2>1. QED
    BY <1>3, <1>4, <1>9, <1>10, <1>11

-----------------------------------------------------------------------------
(* Whoever owns a reservation gives it back, and the probe's claim that    *)
(* may have gone with it.                                                  *)
LEMMA ReturnInv ==
    ASSUME NEW u, NEW v, NEW rq, Inv(u, rq), NEW r \in Owner(u, rq), NEW x \in Request,
           x.phase \notin HoldPhases \cup {"waiting"},
           QueueOK(v), v.generation = u.generation, v.recovery = u.recovery,
           v.cell = [u.cell EXCEPT ![r] = NoId],
           \A root \in Roots : Sub(v.roots[root], u.roots[root], r),
           Keeps(u.ledger, v.ledger, Active(u.ledger) \ {IdOf(u, rq, r)})
    PROVE  LET w == ReleaseProbe(v, IdOf(u, rq, r))
           IN  Inv(w, [rq EXCEPT ![r] = x]) /\ w.cell = v.cell
<1> DEFINE id == IdOf(u, rq, r)
           w == ReleaseProbe(v, id)
<1>1. r \in Requests /\ Own(u, rq, r) = {id}
  BY DEF Owner, Own
<1>2. /\ QueueOK(w) /\ w.ledger = v.ledger /\ w.cell = v.cell /\ w.roots = v.roots
      /\ w.generation = v.generation
      /\ \/ /\ w.recovery = v.recovery
            /\ v.recovery.armed => v.recovery.probe # id
         \/ /\ w.recovery = [v.recovery EXCEPT !.probe = NoId]
            /\ v.recovery.armed /\ v.recovery.probe = id
  BY ReleaseFields
<1> HIDE DEF w
<1>3. \/ w.recovery = u.recovery /\ (u.recovery.armed => u.recovery.probe \notin Own(u, rq, r))
      \/ w.recovery = [u.recovery EXCEPT !.probe = NoId] /\ u.recovery.probe \in Own(u, rq, r)
  BY <1>1, <1>2
<1>4. Keeps(u.ledger, w.ledger, Active(u.ledger) \ Own(u, rq, r))
  BY <1>1, <1>2
<1>5. \A root \in Roots : Sub(w.roots[root], u.roots[root], r)
  BY <1>2
<1>6. w.generation = u.generation /\ w.cell = [u.cell EXCEPT ![r] = NoId]
  BY <1>2
<1>7. Inv(w, [rq EXCEPT ![r] = x])
  BY <1>1, <1>2, <1>3, <1>4, <1>5, <1>6, LeaveInv
<1>8. QED
  BY <1>2, <1>7 DEF w

(* Nobody else's ticket is decided. *)
Aside(u, v, r) == \A s \in Requests \ {r} : v.cell[s] = u.cell[s]

(* Queue::cancel. *)
LEMMA CancelInv ==
    ASSUME NEW u, NEW rq, NEW t \in Nat, Inv(u, rq), NEW r \in Requests,
           rq[r].phase = "waiting"
    PROVE  /\ Inv(CancelTicket(u, t, r), [rq EXCEPT ![r] = Done])
           /\ Aside(u, CancelTicket(u, t, r), r)
<1> DEFINE home == RootOf[r]
           line == Without(u.roots[home], {r})
           R == [u.roots EXCEPT ![home] = line]
           C == [u.cell EXCEPT ![r] = NoId]
           left == [u EXCEPT !.roots = R, !.cell = C]
           id == u.cell[r]
           L == LedgerCancel(u.ledger, t, id)
           gone == [left EXCEPT !.ledger = L]
           sq == [rq EXCEPT ![r] = Done]
<1>1. /\ u \in QueueType({u.ledger}) /\ u.roots \in [Roots -> Seq(Waiter)]
      /\ u.cell \in [Requests -> Nat \cup {Expired}] /\ LedgerOK(u.ledger)
  BY QueueFields DEF Inv, QueueOK
<1>2. home \in Roots
  BY AdmissionAssumption
<1>3. u.roots[home] \in Seq(Waiter) /\ Distinct(u.roots[home])
  BY <1>2, LinesDistinct
<1>4. Sifted(line, u.roots[home], {r}, Len(u.roots[home]))
  BY <1>3, WithoutSifts
<1>5. CancelTicket(u, t, r) = Protect(IF id > NoId THEN ReleaseProbe(gone, id) ELSE left, t)
  <2>1. left = [u EXCEPT !.roots[RootOf[r]] = Without(@, {r}), !.cell[r] = NoId]
    BY <1>1 DEF QueueType
  <2>2. gone = [left EXCEPT !.ledger = LedgerCancel(@, t, id)]
    BY <1>1 DEF QueueType
  <2>3. QED
    BY <2>1, <2>2 DEF CancelTicket
<1>6. line \in Seq(Waiter) /\ Sub(line, u.roots[home], r)
  <2>1. DOMAIN u.roots[home] = 1 .. Len(u.roots[home])
    BY <1>3
  <2> HIDE DEF line, home
  <2>2. QED
    BY <1>4, <2>1 DEF Sifted, Sub
<1> HIDE DEF line
<1>7. R \in [Roots -> Seq(Waiter)] /\ C \in [Requests -> Nat \cup {Expired}]
  BY <1>1, <1>2, <1>6 DEF NoId
<1>8. \A root \in Roots : Sub(R[root], u.roots[root], r)
  <2> SUFFICES ASSUME NEW root \in Roots PROVE Sub(R[root], u.roots[root], r)
    OBVIOUS
  <2>1. CASE root = home
    BY <1>1, <1>2, <1>6, <2>1
  <2>2. CASE root # home
    <3>1. R[root] = u.roots[root]
      BY <1>1, <2>2
    <3>2. \A k \in DOMAIN u.roots[root] : u.roots[root][k].req # r
      BY <2>2, QueuedTicket
    <3>3. QED
      BY <3>1, <3>2, LinesDistinct DEF Sub
  <2>3. QED
    BY <2>1, <2>2
<1> HIDE DEF R, C
<1>9. Done.phase \notin HoldPhases \cup {"waiting"} /\ Done \in Request
  BY DoneRequest DEF HoldPhases
<1>10. /\ QueueOK(left) /\ left.ledger = u.ledger /\ left.generation = u.generation
       /\ left.recovery = u.recovery /\ left.cell = C /\ left.roots = R
  BY <1>1, <1>7 DEF QueueOK, QueueType
<1>11. CASE id > NoId
  <2>1. r \in Owner(u, rq) /\ IdOf(u, rq, r) = id
    BY <1>11 DEF Owner, IdOf
  <2>2. CanStart(u.ledger, id)
    <3>1. id \in Active(u.ledger) /\ ~u.ledger.entries[id].started
      BY <2>1 DEF Inv, Owned, HoldPhases
    <3>2. QED
      BY <3>1 DEF CanStart, Active
  <2>3. LedgerOK(L) /\ Keeps(u.ledger, L, Active(u.ledger) \ {id})
    BY <1>1, <2>2, CancelKeeps
  <2> HIDE DEF L, id
  <2>4. /\ QueueOK(gone) /\ gone.ledger = L /\ gone.generation = u.generation
        /\ gone.recovery = u.recovery /\ gone.cell = C /\ gone.roots = R
    <3> HIDE DEF left
    <3>1. gone \in QueueType({L}) /\ gone.ledger = L
      BY <1>10 DEF QueueOK, QueueType
    <3>2. gone.generation = left.generation /\ gone.recovery = left.recovery
          /\ gone.cell = left.cell /\ gone.roots = left.roots
      BY <1>10 DEF QueueOK, QueueType
    <3>3. QED
      BY <1>10, <2>3, <3>1, <3>2 DEF QueueOK
  <2> HIDE DEF gone, left
  <2>5. /\ Inv(ReleaseProbe(gone, id), sq) /\ ReleaseProbe(gone, id).cell = C
    <3>1. /\ Keeps(u.ledger, gone.ledger, Active(u.ledger) \ {IdOf(u, rq, r)})
          /\ \A root \in Roots : Sub(gone.roots[root], u.roots[root], r)
          /\ gone.cell = [u.cell EXCEPT ![r] = NoId]
      BY <1>8, <2>1, <2>3, <2>4 DEF C
    <3>2. LET w == ReleaseProbe(gone, IdOf(u, rq, r)) IN Inv(w, sq) /\ w.cell = gone.cell
      BY <1>9, <2>1, <2>4, <3>1, ReturnInv
    <3>3. QED
      BY <2>1, <2>4, <3>2
  <2>6. CancelTicket(u, t, r) = Protect(ReleaseProbe(gone, id), t)
    BY <1>5, <1>11 DEF id
  <2>7. Inv(CancelTicket(u, t, r), sq) /\ CancelTicket(u, t, r).cell = C
    BY <2>5, <2>6, ProtectInv
  <2>8. QED
    BY <1>1, <2>7 DEF C, Aside
<1>12. CASE ~(id > NoId)
  <2>1. r \notin Owner(u, rq) /\ Own(u, rq, r) = {}
    BY <1>12 DEF Owner, Own, HoldPhases
  <2>2. Keeps(u.ledger, left.ledger, Active(u.ledger) \ Own(u, rq, r))
    BY <1>10, <2>1 DEF Keeps
  <2> HIDE DEF left
  <2>3. Inv(left, sq)
    BY <1>8, <1>9, <1>10, <2>1, <2>2, LeaveInv DEF C
  <2>4. CancelTicket(u, t, r) = Protect(left, t)
    BY <1>5, <1>12
  <2>5. Inv(CancelTicket(u, t, r), sq) /\ CancelTicket(u, t, r).cell = C
    BY <1>10, <2>3, <2>4, ProtectInv
  <2>6. QED
    BY <1>1, <2>5 DEF C, Aside
<1>13. QED
  BY <1>11, <1>12

(* Hold::drop, for a request that goes and for one that comes back. *)
LEMMA ReleaseInv ==
    ASSUME AdmissionInv, NEW r \in Requests, req[r].phase \in HoldPhases,
           NEW usage \in Nat \cup {NoUsage}, NEW x \in Request,
           x.phase \notin HoldPhases \cup {"waiting"}
    PROVE  /\ Inv(Release(q, r, usage), [req EXCEPT ![r] = x])
           /\ Release(q, r, usage).cell = q.cell
<1> DEFINE id == req[r].id
           L == IF req[r].phase = "held" THEN LedgerCancel(q.ledger, clock, id)
                ELSE LedgerFinish(q.ledger, clock, id, usage)
           v == [q EXCEPT !.ledger = L]
<1>1. clock \in Nat /\ Inv(q, req)
  BY DEF AdmissionInv
<1>2. /\ q \in QueueType({q.ledger}) /\ q.cell \in [Requests -> Nat \cup {Expired}]
      /\ LedgerOK(q.ledger)
  BY <1>1, QueueFields DEF Inv, QueueOK
<1>3. /\ q.cell[r] = NoId /\ r \in Owner(q, req) /\ IdOf(q, req, r) = id
      /\ id \in Active(q.ledger)
      /\ q.ledger.entries[id].started <=> req[r].phase \in HoldPhases \ {"held"}
      /\ \A root \in Roots : Sub(q.roots[root], q.roots[root], r)
  BY <1>1, HolderId
<1>4. Release(q, r, usage) = ReleaseProbe(v, id)
  BY DEF Release
<1>5. LedgerOK(L) /\ Keeps(q.ledger, L, Active(q.ledger) \ {id})
  <2>1. CASE req[r].phase = "held"
    <3>1. CanStart(q.ledger, id)
      BY <1>3, <2>1 DEF CanStart, Active
    <3>2. QED
      BY <1>1, <1>2, <2>1, <3>1, CancelKeeps
  <2>2. CASE req[r].phase # "held"
    <3>1. q.ledger.entries[id].started
      BY <1>3, <2>2
    <3>2. QED
      BY <1>1, <1>2, <1>3, <2>2, <3>1, FinishKeeps
  <2>3. QED
    BY <2>1, <2>2
<1> HIDE DEF L, id
<1>6. /\ QueueOK(v) /\ v.generation = q.generation /\ v.recovery = q.recovery
      /\ v.ledger = L /\ v.cell = q.cell /\ v.roots = q.roots
  BY <1>2, <1>5 DEF QueueOK, QueueType
<1>7. q.cell = [q.cell EXCEPT ![r] = NoId]
  BY <1>2, <1>3
<1> HIDE DEF v
<1>8. /\ v.cell = [q.cell EXCEPT ![r] = NoId]
      /\ Keeps(q.ledger, v.ledger, Active(q.ledger) \ {IdOf(q, req, r)})
      /\ \A root \in Roots : Sub(v.roots[root], q.roots[root], r)
  BY <1>3, <1>5, <1>6, <1>7
<1>9. LET w == ReleaseProbe(v, IdOf(q, req, r))
      IN  Inv(w, [req EXCEPT ![r] = x]) /\ w.cell = v.cell
  BY <1>1, <1>3, <1>6, <1>8, ReturnInv
<1>10. QED
  BY <1>3, <1>4, <1>6, <1>9

-----------------------------------------------------------------------------
(* What a step of one request does to the places, as Slots sees them: it   *)
(* may let in others who wait, unless it uses or gives back a place.       *)
Granting(s) == SlotOf(s) = "waiting" /\ SlotOf(s)' = "held"

Turn(r) ==
    \/ /\ \A s \in Requests \ {r} : SlotOf(s)' = SlotOf(s) \/ Granting(s)
       /\ \/ SlotOf(r)' = SlotOf(r) \/ Granting(r)
          \/ SlotOf(r) = "none" /\ SlotOf(r)' = "waiting"
          \/ SlotOf(r) = "waiting" /\ SlotOf(r)' = "none"
    \/ /\ \A s \in Requests \ {r} : SlotOf(s)' = SlotOf(s)
       /\ \/ SlotOf(r) = "held" /\ SlotOf(r)' = "started"
          \/ SlotOf(r) \in {"held", "started"} /\ SlotOf(r)' = "none"

(* What a request has, by its phase and its ticket's cell. *)
LEMMA SlotValues ==
    ASSUME NEW r \in Requests
    PROVE  /\ req[r].phase = "waiting" /\ q.cell[r] > NoId => SlotOf(r) = "held"
           /\ req[r].phase = "waiting" /\ ~(q.cell[r] > NoId) => SlotOf(r) = "waiting"
           /\ req[r].phase = "held" => SlotOf(r) = "held"
           /\ req[r].phase \in HoldPhases \ {"held"} => SlotOf(r) = "started"
           /\ req[r].phase \notin HoldPhases \cup {"waiting"} => SlotOf(r) = "none"
BY DEF SlotOf, HoldPhases

(* The same, after the step. *)
LEMMA SlotValuesNext ==
    ASSUME NEW r \in Requests
    PROVE  /\ req'[r].phase = "waiting" /\ q'.cell[r] > NoId => SlotOf(r)' = "held"
           /\ req'[r].phase = "waiting" /\ ~(q'.cell[r] > NoId) => SlotOf(r)' = "waiting"
           /\ req'[r].phase = "held" => SlotOf(r)' = "held"
           /\ req'[r].phase \in HoldPhases \ {"held"} => SlotOf(r)' = "started"
           /\ req'[r].phase \notin HoldPhases \cup {"waiting"} => SlotOf(r)' = "none"
BY DEF SlotOf, HoldPhases

(* A turn that only decides undecided tickets can only grant. *)
LEMMA OthersMove ==
    ASSUME NEW s \in Requests, req'[s].phase = req[s].phase,
           q.cell[s] # NoId => q'.cell[s] = q.cell[s]
    PROVE  SlotOf(s)' = SlotOf(s) \/ Granting(s)
BY DEF SlotOf, Granting, HoldPhases, NoId

(* A turn that leaves a request alone leaves its place alone. *)
LEMMA OthersStay ==
    ASSUME NEW s \in Requests, req'[s].phase = req[s].phase, q'.cell[s] = q.cell[s]
    PROVE  SlotOf(s)' = SlotOf(s)
BY DEF SlotOf

(* One request's record is replaced and the waiters may be notified. *)
LEMMA Renewed ==
    ASSUME req \in [Requests -> Request], NEW r \in Requests, NEW x \in Request,
           \/ req' = [req EXCEPT ![r] = x]
           \/ req' = NotifyWaiters([req EXCEPT ![r] = x])
           \/ req' = [NotifyWaiters(req) EXCEPT ![r] = x]
    PROVE  req'[r].phase = x.phase /\ \A s \in Requests \ {r} : req'[s].phase = req[s].phase
<1> DEFINE sq == [req EXCEPT ![r] = x]
<1>1. sq \in [Requests -> Request] /\ sq[r] = x /\ \A s \in Requests \ {r} : sq[s] = req[s]
  OBVIOUS
<1> HIDE DEF sq
<1>2. NotifyWaiters(sq) \in [Requests -> Request] /\ Alike(sq, NotifyWaiters(sq))
  BY <1>1, NotifyAlike
<1>3. NotifyWaiters(req) \in [Requests -> Request] /\ Alike(req, NotifyWaiters(req))
  BY NotifyAlike
<1>4. CASE req' = [req EXCEPT ![r] = x]
  BY <1>4
<1>5. CASE req' = NotifyWaiters(sq)
  BY <1>1, <1>2, <1>5 DEF Alike
<1>6. CASE req' = [NotifyWaiters(req) EXCEPT ![r] = x]
  BY <1>3, <1>6 DEF Alike
<1>7. QED
  BY <1>4, <1>5, <1>6 DEF sq

-----------------------------------------------------------------------------
(* Acquire, Reacquire *)
LEMMA AcquireAtTurn ==
    ASSUME AdmissionInv, NEW r \in Requests, req[r].phase \in {"idle", "requeue"},
           NEW enqueued \in Nat, NEW deadline \in Nat, AcquireAt(r, enqueued, deadline)
    PROVE  Turn(r)
<1> DEFINE driven == Drive(q, clock)
           x == [req[r] EXCEPT !.phase = "waiting", !.id = NoId, !.generation = 0,
                               !.exhausted = FALSE, !.timing = "missing",
                               !.enqueued = enqueued, !.deadline = deadline, !.wake = Never]
<1>1. clock \in Nat /\ Inv(q, req) /\ req \in [Requests -> Request] /\ req[r] \in Request
  BY DEF AdmissionInv, Inv
<1>2. /\ \A s \in Requests : q.cell[s] # NoId => driven.cell[s] = q.cell[s]
      /\ Inv(driven, req)
  BY <1>1, DriveInv DEF Moves
<1>3. req[r].phase \notin HoldPhases \cup {"waiting"}
  BY DEF HoldPhases
<1>4. x \in Request /\ x.phase = "waiting"
  BY <1>1 DEF Request, NoId, Never
<1>5. [req EXCEPT ![r].phase = "waiting", ![r].id = NoId, ![r].generation = 0,
                  ![r].exhausted = FALSE, ![r].timing = "missing",
                  ![r].enqueued = enqueued, ![r].deadline = deadline,
                  ![r].wake = Never] = [req EXCEPT ![r] = x]
  BY <1>1
<1> HIDE DEF x, driven
<1>6. \/ /\ q' \in {q, driven}
         /\ req' = [req EXCEPT ![r] = Done] \/ req' = [NotifyWaiters(req) EXCEPT ![r] = Done]
      \/ /\ q' = Enqueue(driven, r, enqueued, deadline)
         /\ req' = NotifyWaiters([req EXCEPT ![r] = x])
  BY <1>5 DEF AcquireAt, driven
<1>7. Enqueue(driven, r, enqueued, deadline).cell = driven.cell
  BY <1>2 DEF Enqueue, Inv, QueueOK, QueueType
<1>8. \A s \in Requests : q.cell[s] # NoId => q'.cell[s] = q.cell[s]
  BY <1>2, <1>6, <1>7
<1>9. \A s \in Requests \ {r} : req'[s].phase = req[s].phase
  BY <1>1, <1>4, <1>6, Renewed, DoneRequest
<1>10. \A s \in Requests \ {r} : SlotOf(s)' = SlotOf(s) \/ Granting(s)
  BY <1>8, <1>9, OthersMove
<1>11. SlotOf(r) = "none"
  BY <1>3, SlotValues
<1>12. CASE req' = [req EXCEPT ![r] = Done] \/ req' = [NotifyWaiters(req) EXCEPT ![r] = Done]
  <2>1. req'[r].phase = "done"
    BY <1>1, <1>12, Renewed, DoneRequest
  <2>2. SlotOf(r)' = "none"
    BY <2>1, SlotValuesNext DEF HoldPhases
  <2>3. QED
    BY <1>10, <1>11, <2>2 DEF Turn
<1>13. CASE /\ q' = Enqueue(driven, r, enqueued, deadline)
            /\ req' = NotifyWaiters([req EXCEPT ![r] = x])
  <2>1. req'[r].phase = "waiting"
    BY <1>1, <1>4, <1>13, Renewed
  <2>2. q'.cell[r] = NoId
    BY <1>2, <1>3, <1>7, <1>13 DEF Inv, Lined
  <2>3. SlotOf(r)' = "waiting"
    BY <2>1, <2>2, SlotValuesNext DEF NoId
  <2>4. QED
    BY <1>10, <1>11, <2>3 DEF Turn
<1>14. QED
  BY <1>6, <1>12, <1>13

(* The first acquire of a request, and the one after Hold::retry. *)
LEMMA AcquireStep ==
    ASSUME AdmissionInv, NEW r \in Requests, Acquire(r) \/ Reacquire(r)
    PROVE  AdmissionInv' /\ Turn(r)
<1>1. clock \in Nat /\ req[r] \in Request
  BY DEF AdmissionInv, Inv
<1>2. CASE Acquire(r)
  <2>1. WaitOf[r] \in Nat
    BY AdmissionAssumption
  <2>2. clock + WaitOf[r] \in Nat
    BY <1>1, <2>1
  <2>3. req[r].phase = "idle" /\ AcquireAt(r, clock, clock + WaitOf[r])
    BY <1>2 DEF Acquire
  <2>4. QED
    BY <1>1, <2>2, <2>3, AcquireAtInv, AcquireAtTurn
<1>3. CASE Reacquire(r)
  <2>1. req[r].enqueued \in Nat /\ req[r].deadline \in Nat
    BY <1>1 DEF Request
  <2>2. req[r].phase = "requeue" /\ AcquireAt(r, req[r].enqueued, req[r].deadline)
    BY <1>3 DEF Reacquire
  <2>3. QED
    BY <2>1, <2>2, AcquireAtInv, AcquireAtTurn
<1>4. QED
  BY <1>2, <1>3

(* A turn of the waiter's loop gives a place, or takes back a ticket. *)
LEMMA PollTurn ==
    ASSUME AdmissionInv, NEW r \in Requests, Poll(r)
    PROVE  Turn(r)
<1> DEFINE driven == Drive(q, clock)
           outcome == driven.cell[r]
           n == WakeAt(driven, clock)
           asleep == [req[r] EXCEPT !.woken = FALSE, !.wake = n]
           held == [req[r] EXCEPT !.phase = "held", !.id = outcome,
                                  !.woken = FALSE, !.wake = Never]
<1>1. clock \in Nat /\ Inv(q, req) /\ req \in [Requests -> Request] /\ req[r] \in Request
      /\ req[r].phase = "waiting"
  BY DEF AdmissionInv, Inv, Poll, CanPoll
<1>2. /\ \A s \in Requests : q.cell[s] # NoId => driven.cell[s] = q.cell[s]
      /\ Inv(driven, req)
  BY <1>1, DriveInv DEF Moves
<1>3. /\ q' = [driven EXCEPT !.cell[r] = NoId]
      /\ \/ outcome = Expired /\ req' = NotifyWaiters([req EXCEPT ![r] = Done])
         \/ /\ outcome # Expired /\ outcome # NoId
            /\ req' = NotifyWaiters([req EXCEPT ![r].phase = "held", ![r].id = outcome,
                                                ![r].woken = FALSE, ![r].wake = Never])
         \/ /\ outcome = NoId
            /\ \/ req' = NotifyWaiters([req EXCEPT ![r].woken = FALSE, ![r].wake = n])
               \/ req' = [req EXCEPT ![r].woken = FALSE, ![r].wake = n]
  BY DEF Poll
<1>4. n \in Nat
  BY <1>1, <1>2, WakeAtNat DEF Inv
<1>5. driven.cell \in [Requests -> Nat \cup {Expired}] /\ driven \in QueueType({driven.ledger})
  BY <1>2, QueueFields DEF Inv, QueueOK
<1> HIDE DEF driven, n
<1>6. q'.cell = [driven.cell EXCEPT ![r] = NoId]
  BY <1>3, <1>5 DEF QueueType
<1>7. \A s \in Requests \ {r} : q.cell[s] # NoId => q'.cell[s] = q.cell[s]
  BY <1>2, <1>5, <1>6
<1>8. q'.cell[r] = NoId
  BY <1>5, <1>6
<1>9. /\ [req EXCEPT ![r].phase = "held", ![r].id = outcome, ![r].woken = FALSE, ![r].wake = Never]
           = [req EXCEPT ![r] = held]
      /\ [req EXCEPT ![r].woken = FALSE, ![r].wake = n] = [req EXCEPT ![r] = asleep]
  BY <1>1
<1>10. asleep \in Request /\ asleep.phase = "waiting"
  BY <1>1, <1>4 DEF Request
<1>11. CASE outcome = Expired /\ req' = NotifyWaiters([req EXCEPT ![r] = Done])
  <2>1. req'[r].phase = "done" /\ \A s \in Requests \ {r} : req'[s].phase = req[s].phase
    BY <1>1, <1>11, Renewed, DoneRequest
  <2>2. SlotOf(r)' = "none"
    BY <2>1, SlotValuesNext DEF HoldPhases
  <2>3. SlotOf(r) = "waiting"
    <3>1. ~(q.cell[r] > NoId)
      BY <1>2, <1>11 DEF Expired, NoId
    <3>2. QED
      BY <1>1, <3>1, SlotValues
  <2>4. QED
    BY <1>7, <2>1, <2>2, <2>3, OthersMove DEF Turn
<1>12. CASE outcome # Expired /\ outcome # NoId /\ req' = NotifyWaiters([req EXCEPT ![r] = held])
  <2>1. outcome \in Nat
    BY <1>5, <1>12
  <2>2. held \in Request /\ held.phase = "held"
    <3> HIDE DEF outcome
    <3>1. QED
      BY <1>1, <2>1 DEF Request, HoldPhases, Never
  <2> HIDE DEF held
  <2>3. req'[r].phase = "held" /\ \A s \in Requests \ {r} : req'[s].phase = req[s].phase
    BY <1>1, <1>12, <2>2, Renewed
  <2>4. SlotOf(r)' = "held"
    BY <2>3, SlotValuesNext
  <2>5. SlotOf(r) \in {"held", "waiting"}
    BY <1>1, SlotValues
  <2>6. QED
    BY <1>7, <2>3, <2>4, <2>5, OthersMove DEF Turn, Granting
<1>13. CASE /\ outcome = NoId
            /\ \/ req' = NotifyWaiters([req EXCEPT ![r] = asleep])
               \/ req' = [req EXCEPT ![r] = asleep]
  <2> HIDE DEF asleep
  <2>1. req'[r].phase = "waiting" /\ \A s \in Requests \ {r} : req'[s].phase = req[s].phase
    BY <1>1, <1>10, <1>13, Renewed
  <2>2. q.cell[r] = NoId
    BY <1>2, <1>13
  <2>3. SlotOf(r) = "waiting" /\ SlotOf(r)' = "waiting"
    BY <1>1, <1>8, <2>1, <2>2, SlotValues, SlotValuesNext DEF NoId
  <2>4. QED
    BY <1>7, <2>1, <2>3, OthersMove DEF Turn
<1>14. QED
  <2> HIDE DEF outcome, held, asleep
  <2>1. QED
    BY <1>3, <1>9, <1>11, <1>12, <1>13

-----------------------------------------------------------------------------
(* Ticket::drop. *)
LEMMA AbandonStep ==
    ASSUME AdmissionInv, NEW r \in Requests, Abandon(r)
    PROVE  AdmissionInv' /\ Turn(r)
<1>1. /\ clock \in Nat /\ clock' = clock /\ Inv(q, req) /\ req \in [Requests -> Request]
      /\ req[r].phase = "waiting"
      /\ q' = CancelTicket(q, clock, r) /\ req' = NotifyWaiters([req EXCEPT ![r] = Done])
  BY DEF AdmissionInv, Inv, Abandon
<1>2. Inv(q', [req EXCEPT ![r] = Done]) /\ Aside(q, q', r)
  <2>1. Inv(CancelTicket(q, clock, r), [req EXCEPT ![r] = Done]) /\ Aside(q, CancelTicket(q, clock, r), r)
    BY <1>1, CancelInv
  <2>2. QED
    BY <1>1, <2>1
<1>3. AdmissionInv'
  BY <1>1, <1>2, NotifiedInv DEF AdmissionInv
<1>4. req'[r].phase = "done" /\ \A s \in Requests \ {r} : req'[s].phase = req[s].phase
  BY <1>1, Renewed, DoneRequest
<1>5. \A s \in Requests \ {r} : SlotOf(s)' = SlotOf(s)
  BY <1>2, <1>4, OthersStay DEF Aside
<1>6. SlotOf(r)' = "none"
  BY <1>4, SlotValuesNext DEF HoldPhases
<1>7. SlotOf(r) \in {"waiting", "held"}
  BY <1>1, SlotValues
<1>8. QED
  BY <1>3, <1>5, <1>6, <1>7 DEF Turn

(* The future of a request between Hold::retry and acquire_at is dropped. *)
LEMMA AbandonRequeueStep ==
    ASSUME AdmissionInv, NEW r \in Requests, AbandonRequeue(r)
    PROVE  AdmissionInv' /\ Turn(r)
<1>1. /\ clock \in Nat /\ clock' = clock /\ Inv(q, req) /\ req \in [Requests -> Request]
      /\ req[r].phase = "requeue" /\ q' = q /\ req' = [req EXCEPT ![r] = Done]
  BY DEF AdmissionInv, Inv, AbandonRequeue
<1>2. req[r].phase \notin HoldPhases \cup {"waiting"}
  BY <1>1 DEF HoldPhases
<1>3. AdmissionInv'
  BY <1>1, <1>2, NothingToLeave DEF AdmissionInv
<1>4. req'[r].phase = "done" /\ \A s \in Requests \ {r} : req'[s].phase = req[s].phase
  BY <1>1, Renewed, DoneRequest
<1>5. \A s \in Requests \ {r} : SlotOf(s)' = SlotOf(s)
  BY <1>1, <1>4, OthersStay
<1>6. SlotOf(r)' = "none" /\ SlotOf(r) = "none"
  BY <1>2, <1>4, SlotValues, SlotValuesNext DEF HoldPhases
<1>7. QED
  BY <1>3, <1>5, <1>6 DEF Turn

(* Hold::start. *)
LEMMA StartStep ==
    ASSUME AdmissionInv, NEW r \in Requests, Start(r)
    PROVE  AdmissionInv' /\ Turn(r)
<1> DEFINE x == [req[r] EXCEPT !.phase = "sent", !.generation = q.generation]
           L == LedgerStart(q.ledger, clock, req[r].id)
           v == [q EXCEPT !.ledger = L]
<1>1. /\ clock \in Nat /\ clock' = clock /\ Inv(q, req) /\ req \in [Requests -> Request]
      /\ req[r] \in Request /\ req[r].phase = "held"
      /\ MayStart(q, clock, req[r].id, CostOf[r])
  BY DEF AdmissionInv, Inv, Start
<1>2. q \in QueueType({q.ledger}) /\ LedgerOK(q.ledger) /\ q.generation \in Nat
  BY <1>1, QueueFields DEF Inv, QueueOK
<1>3. q' = v
  BY DEF Start
<1>4. req' = NotifyWaiters([req EXCEPT ![r] = x])
  <2>1. [req EXCEPT ![r].phase = "sent", ![r].generation = q.generation] = [req EXCEPT ![r] = x]
    BY <1>1
  <2>2. QED
    BY <2>1 DEF Start
<1>5. x \in Request /\ x.phase = "sent" /\ x.id = req[r].id /\ x.generation = q.generation
  BY <1>1, <1>2 DEF Request, HoldPhases
<1>6. LedgerOK(L)
  <2>1. req[r].id \in Active(q.ledger) /\ ~q.ledger.entries[req[r].id].started
    BY <1>1, HolderId DEF HoldPhases
  <2>2. CanStart(q.ledger, req[r].id)
    BY <2>1 DEF CanStart, Active
  <2>3. QED
    BY <1>1, <1>2, <2>2, StartKeeps
<1> HIDE DEF x
<1>7. /\ QueueOK(v) /\ v.generation = q.generation /\ v.recovery = q.recovery
      /\ v.ledger = L /\ v.cell = q.cell /\ v.roots = q.roots
  <2> HIDE DEF L
  <2>1. QED
    BY <1>2, <1>6 DEF QueueOK, QueueType
<1> HIDE DEF v
<1>8. Inv(v, [req EXCEPT ![r] = x])
  BY <1>1, <1>5, <1>7, StartInv
<1>9. AdmissionInv'
  BY <1>1, <1>3, <1>4, <1>8, NotifiedInv DEF AdmissionInv
<1>10. req'[r].phase = "sent" /\ \A s \in Requests \ {r} : req'[s].phase = req[s].phase
  BY <1>1, <1>4, <1>5, Renewed
<1>11. \A s \in Requests \ {r} : SlotOf(s)' = SlotOf(s)
  BY <1>3, <1>7, <1>10, OthersStay
<1>12. SlotOf(r) = "held" /\ SlotOf(r)' = "started"
  BY <1>1, <1>10, SlotValues, SlotValuesNext DEF HoldPhases
<1>13. QED
  BY <1>9, <1>11, <1>12 DEF Turn

(* A hold is dropped, its request ends or will come back. *)
LEMMA ReleaseStep ==
    ASSUME AdmissionInv, NEW r \in Requests, req[r].phase \in HoldPhases,
           NEW usage \in Nat \cup {NoUsage}, NEW x \in Request,
           x.phase \notin HoldPhases \cup {"waiting"},
           clock' = clock, q' = Release(q, r, usage),
           req' = NotifyWaiters([req EXCEPT ![r] = x])
    PROVE  AdmissionInv' /\ Turn(r)
<1>1. clock \in Nat /\ req \in [Requests -> Request]
  BY DEF AdmissionInv, Inv
<1>2. Inv(q', [req EXCEPT ![r] = x]) /\ q'.cell = q.cell
  BY ReleaseInv
<1>3. AdmissionInv'
  BY <1>1, <1>2, NotifiedInv DEF AdmissionInv
<1>4. req'[r].phase = x.phase /\ \A s \in Requests \ {r} : req'[s].phase = req[s].phase
  BY <1>1, Renewed
<1>5. \A s \in Requests \ {r} : SlotOf(s)' = SlotOf(s)
  BY <1>2, <1>4, OthersStay
<1>6. SlotOf(r) \in {"held", "started"}
  BY SlotValues
<1>7. SlotOf(r)' = "none"
  BY <1>4, SlotValuesNext
<1>8. QED
  BY <1>3, <1>5, <1>6, <1>7 DEF Turn

(* Hold::drop. *)
LEMMA DropStep ==
    ASSUME AdmissionInv, NEW r \in Requests, Drop(r)
    PROVE  AdmissionInv' /\ Turn(r)
<1>1. PICK usage \in {NoUsage} \cup (IF req[r].phase = "streaming" THEN Usages ELSE {}) :
        q' = Release(q, r, usage)
  BY DEF Drop
<1>2. usage \in Nat \cup {NoUsage}
  BY <1>1, AdmissionAssumption
<1>3. Done \in Request /\ Done.phase \notin HoldPhases \cup {"waiting"}
  BY DoneRequest DEF HoldPhases
<1>4. req[r].phase \in HoldPhases /\ clock' = clock /\ req' = NotifyWaiters([req EXCEPT ![r] = Done])
  BY DEF Drop
<1>5. QED
  BY <1>1, <1>2, <1>3, <1>4, ReleaseStep

(* Hold::retry. *)
LEMMA RetryStep ==
    ASSUME AdmissionInv, NEW r \in Requests, Retry(r)
    PROVE  AdmissionInv' /\ Turn(r)
<1> DEFINE n == req[r].requeues + 1
           b == req[r].replayed \/ req[r].phase = "refused"
           x == [req[r] EXCEPT !.phase = "requeue", !.requeues = n, !.replayed = b]
<1>1. req[r] \in Request /\ req \in [Requests -> Request]
  BY DEF AdmissionInv, Inv
<1>2. n \in Nat /\ b \in BOOLEAN
  BY <1>1 DEF Request
<1>3. [req EXCEPT ![r].phase = "requeue", ![r].requeues = @ + 1,
                  ![r].replayed = @ \/ req[r].phase = "refused"] = [req EXCEPT ![r] = x]
  BY <1>1
<1>4. /\ req[r].phase \in HoldPhases /\ clock' = clock /\ q' = Release(q, r, NoUsage)
      /\ req' = NotifyWaiters([req EXCEPT ![r] = x])
  BY <1>3 DEF Retry, HoldPhases
<1> HIDE DEF n, b
<1>5. x \in Request /\ x.phase \notin HoldPhases \cup {"waiting"}
  BY <1>1, <1>2 DEF Request, HoldPhases
<1> HIDE DEF x
<1>6. NoUsage \in Nat \cup {NoUsage}
  OBVIOUS
<1>7. QED
  BY <1>4, <1>5, <1>6, ReleaseStep

-----------------------------------------------------------------------------
(* An answer whose holder stays where it is: neither tickets nor places    *)
(* change.                                                                 *)
LEMMA AnswerTurn ==
    ASSUME AdmissionInv, NEW r \in Requests, req[r].phase \in HoldPhases \ {"held"},
           NEW x \in Request, x.phase \in HoldPhases \ {"held"}, q'.cell = q.cell,
           req' = NotifyWaiters([req EXCEPT ![r] = x])
    PROVE  Turn(r)
<1>1. req \in [Requests -> Request]
  BY DEF AdmissionInv, Inv
<1>2. req'[r].phase = x.phase /\ \A s \in Requests \ {r} : req'[s].phase = req[s].phase
  BY <1>1, Renewed
<1>3. \A s \in Requests \ {r} : SlotOf(s)' = SlotOf(s)
  BY <1>2, OthersStay
<1>4. SlotOf(r) = "started" /\ SlotOf(r)' = "started"
  BY <1>2, SlotValues, SlotValuesNext
<1>5. QED
  BY <1>3, <1>4 DEF Turn

(* Hold::headers: cooldown, hint, then what the status says of the probe. *)
LEMMA HeadersStep ==
    ASSUME AdmissionInv, NEW r \in Requests, Headers(r)
    PROVE  AdmissionInv' /\ Turn(r)
<1>1. PICK a \in Answer, hint \in Hints \cup {NoHint} :
        /\ q' = HeadersQueue(q, r, a.status, a.cooldown, hint)
        /\ req' = NotifyWaiters([req EXCEPT
               ![r].phase = CASE a.status = "ok" -> "streaming"
                              [] a.status = "other" -> "refused"
                              [] a.status = "throttled" -> "rejecting",
               ![r].timing = IF a.status = "other" THEN "malformed" ELSE a.timing,
               ![r].exhausted = hint # NoHint])
  BY DEF Headers
<1>2. /\ req[r].phase = "sent" /\ clock' = clock /\ clock \in Nat /\ Inv(q, req)
      /\ req \in [Requests -> Request] /\ req[r] \in Request
      /\ req[r].phase \in HoldPhases \ {"held"}
  BY DEF Headers, AdmissionInv, Inv, HoldPhases
<1> DEFINE p == CASE a.status = "ok" -> "streaming"
                  [] a.status = "other" -> "refused"
                  [] a.status = "throttled" -> "rejecting"
           m == IF a.status = "other" THEN "malformed" ELSE a.timing
           e == hint # NoHint
           x == [req[r] EXCEPT !.phase = p, !.timing = m, !.exhausted = e]
           sq == [req EXCEPT ![r] = x]
           cooled == IF a.cooldown >= 0 THEN RaiseCooldown(q, clock + a.cooldown) ELSE q
           armed == IF hint = NoHint THEN cooled
                    ELSE ArmRecovery(cooled, clock, hint.delay,
                                     hint.generation_only \/ IsGeneration(CostOf[r]))
<1>3. /\ a.status \in {"ok", "other", "throttled"} /\ a.timing \in {"valid", "missing", "malformed"}
      /\ a.cooldown \in Nat \cup {-1}
  <2>1. Delays \subseteq Nat
    BY AdmissionAssumption
  <2>2. QED
    BY <1>1, <2>1 DEF Answer
<1>4. hint = NoHint \/ (hint.delay \in Nat /\ hint.generation_only \in BOOLEAN)
  <2>1. Delays \subseteq Nat
    BY AdmissionAssumption
  <2>2. QED
    BY <1>1, <2>1 DEF Hints
<1>5. /\ p \in {"streaming", "refused", "rejecting"} /\ m \in {"valid", "missing", "malformed"}
      /\ e \in BOOLEAN /\ (a.status = "other" => p = "refused")
  BY <1>3
<1>6. req' = NotifyWaiters(sq)
  <2>1. [req EXCEPT ![r].phase = p, ![r].timing = m, ![r].exhausted = e] = sq
    <3> HIDE DEF p, m, e
    <3>1. QED
      BY <1>2
  <2>2. QED
    BY <1>1, <2>1
<1>7. x \in Request /\ x.phase = p /\ x.id = req[r].id
  <2> HIDE DEF p, m, e
  <2>1. QED
    BY <1>2, <1>5 DEF Request, HoldPhases
<1>8. x.phase \in HoldPhases \ {"held", "sent"}
  BY <1>5, <1>7 DEF HoldPhases
<1>9. Inv(cooled, req) /\ cooled.cell = q.cell
  <2>1. CASE a.cooldown >= 0
    <3>1. clock + a.cooldown \in Nat
      BY <1>2, <1>3, <2>1
    <3>2. QED
      BY <1>2, <2>1, <3>1, RaiseInv
  <2>2. CASE ~(a.cooldown >= 0)
    BY <1>2, <2>2
  <2>3. QED
    BY <2>1, <2>2
<1>10. Inv(armed, req) /\ armed.cell = q.cell
  <2> HIDE DEF cooled
  <2>1. CASE hint = NoHint
    BY <1>9, <2>1
  <2>2. CASE hint # NoHint
    <3>1. \A d \in Nat : \A only \in BOOLEAN :
            LET v == ArmRecovery(cooled, clock, d, only)
            IN  Inv(v, req) /\ v.cell = cooled.cell
      BY <1>2, <1>9, ArmInv
    <3>2. hint.delay \in Nat /\ (hint.generation_only \/ IsGeneration(CostOf[r])) \in BOOLEAN
      BY <1>4, <2>2 DEF IsGeneration
    <3>3. armed = ArmRecovery(cooled, clock, hint.delay,
                              hint.generation_only \/ IsGeneration(CostOf[r]))
      BY <2>2
    <3> HIDE DEF armed
    <3>4. QED
      BY <1>9, <3>1, <3>2, <3>3
  <2>3. QED
    BY <2>1, <2>2
<1>11. q' = CASE a.status = "ok" -> Accepted(armed, clock, req[r].id, req[r].generation)
             [] a.status = "other" -> ReleaseProbe(armed, req[r].id)
             [] a.status = "throttled" -> armed
  BY <1>1 DEF HeadersQueue
<1> HIDE DEF armed, cooled, x, p, m, e
<1>12. sq \in [Requests -> Request] /\ sq[r] = x
  BY <1>2, <1>7
<1> HIDE DEF sq
<1>13. Inv(q', sq) /\ q'.cell = q.cell
  <2>1. CASE a.status = "ok"
    <3>1. q' = Accepted(armed, clock, req[r].id, req[r].generation)
      BY <1>11, <2>1
    <3>2. Inv(q', req) /\ q'.cell = armed.cell
      BY <1>10, <3>1, AcceptInv
    <3>3. QED
      BY <1>2, <1>7, <1>8, <1>10, <3>2, AnsweredInv DEF sq
  <2>2. CASE a.status = "other"
    <3>1. q' = ReleaseProbe(armed, req[r].id)
      BY <1>11, <2>2
    <3>2. Inv(armed, sq)
      BY <1>2, <1>7, <1>8, <1>10, AnsweredInv DEF sq
    <3>3. sq[r].phase \in HoldPhases \ {"sent"} /\ sq[r].id = req[r].id
      BY <1>7, <1>8, <1>12
    <3>4. LET v == ReleaseProbe(armed, sq[r].id) IN Inv(v, sq) /\ v.cell = armed.cell
      BY <3>2, <3>3, ReleaseProbeInv
    <3>5. QED
      BY <1>10, <3>1, <3>3, <3>4
  <2>3. CASE a.status = "throttled"
    <3>1. q' = armed
      BY <1>11, <2>3
    <3>2. QED
      BY <1>2, <1>7, <1>8, <1>10, <3>1, AnsweredInv DEF sq
  <2>4. QED
    BY <1>3, <2>1, <2>2, <2>3
<1>14. AdmissionInv'
  BY <1>2, <1>6, <1>13, NotifiedInv DEF AdmissionInv
<1>15. Turn(r)
  BY <1>2, <1>6, <1>7, <1>8, <1>13, AnswerTurn DEF sq
<1>16. QED
  BY <1>14, <1>15

(* Hold::rejected: the throttle, then the claim is given back. *)
LEMMA RejectedStep ==
    ASSUME AdmissionInv, NEW r \in Requests, Rejected(r)
    PROVE  AdmissionInv' /\ Turn(r)
<1>1. PICK recognized \in BOOLEAN :
        /\ \E u \in IF recognized /\ ~req[r].exhausted /\ req[r].timing # "malformed"
                    THEN Throttle(q, clock, req[r].generation, CostOf[r],
                                  req[r].timing = "valid")
                    ELSE {q} :
              q' = ReleaseProbe(u, req[r].id)
        /\ req' = NotifyWaiters([req EXCEPT
               ![r].phase = "refused",
               ![r].timing = IF recognized THEN @ ELSE "malformed"])
  BY DEF Rejected
<1>2. PICK u \in Throttle(q, clock, req[r].generation, CostOf[r], req[r].timing = "valid") \cup {q} :
        q' = ReleaseProbe(u, req[r].id)
  BY <1>1
<1>3. /\ req[r].phase = "rejecting" /\ clock' = clock /\ clock \in Nat /\ Inv(q, req)
      /\ req \in [Requests -> Request] /\ req[r] \in Request
      /\ req[r].phase \in HoldPhases \ {"held"}
  BY DEF Rejected, AdmissionInv, Inv, HoldPhases
<1> DEFINE m == IF recognized THEN req[r].timing ELSE "malformed"
           x == [req[r] EXCEPT !.phase = "refused", !.timing = m]
           sq == [req EXCEPT ![r] = x]
<1>4. m \in {"valid", "missing", "malformed"}
  BY <1>3 DEF Request
<1>5. req' = NotifyWaiters(sq)
  <2>1. [req EXCEPT ![r].phase = "refused", ![r].timing = IF recognized THEN @ ELSE "malformed"] = sq
    BY <1>3
  <2>2. QED
    BY <1>1, <2>1
<1> HIDE DEF m
<1>6. x \in Request /\ x.phase = "refused" /\ x.id = req[r].id
  BY <1>3, <1>4 DEF Request, HoldPhases
<1> HIDE DEF x
<1>7. x.phase \in HoldPhases \ {"held", "sent"}
  BY <1>6 DEF HoldPhases
<1>8. Inv(u, req) /\ u.cell = q.cell
  BY <1>2, <1>3, ThrottleInv
<1>9. Inv(u, sq)
  BY <1>3, <1>6, <1>7, <1>8, AnsweredInv
<1>10. sq[r].phase \in HoldPhases \ {"sent"} /\ sq[r].id = req[r].id
  BY <1>3, <1>6, <1>7
<1> HIDE DEF sq
<1>11. LET v == ReleaseProbe(u, sq[r].id) IN Inv(v, sq) /\ v.cell = u.cell
  BY <1>9, <1>10, ReleaseProbeInv
<1>12. Inv(q', sq) /\ q'.cell = q.cell
  BY <1>2, <1>8, <1>10, <1>11
<1>13. AdmissionInv'
  BY <1>3, <1>5, <1>12, NotifiedInv DEF AdmissionInv
<1>14. Turn(r)
  BY <1>3, <1>5, <1>6, <1>7, <1>12, AnswerTurn DEF sq
<1>15. QED
  BY <1>13, <1>14

-----------------------------------------------------------------------------
(* The queue starts empty. *)
LEMMA InitInv == Init => AdmissionInv
<1> SUFFICES ASSUME Init PROVE AdmissionInv
  OBVIOUS
<1> DEFINE l == q.ledger
<1>1. /\ Rpm \in Nat /\ Tpm \in Nat /\ Accounting \in {"reserved", "actual"}
      /\ Concurrency \in Nat \ {0} /\ StartupHold \in Nat /\ MaxId \in Nat /\ 0 \in Roots
      /\ Roots \subseteq Int /\ 1 \in 1 .. Len(Backoff)
  BY AdmissionAssumption, QuotaAssumption DEF Roots
<1>2. l = LedgerNew(Rpm, Tpm, Accounting, Concurrency, 0, StartupHold)
  BY DEF Init, QueueNew
<1>3. l \in LedgerType({}) /\ DOMAIN l.entries = {} /\ l.concurrency = Concurrency
  <2>1. [i \in {} |-> Never] \in [{} -> Entry]
    OBVIOUS
  <2>2. QED
    BY <1>1, <1>2, <2>1 DEF LedgerNew, LedgerType
<1>4. Active(l) = {}
  BY <1>3 DEF Active
<1>5. LedgerOK(l)
  <2>1. Cardinality(Active(l)) = 0
    BY <1>4, FS_EmptySet
  <2>2. QED
    BY <1>1, <1>3, <2>1 DEF LedgerOK
<1> HIDE DEF l
<1>6. /\ q = [ledger |-> l, cooldown_until |-> 0, generation |-> 0, recovery |-> NoRecovery,
              no_hint_stage |-> 1, roots |-> [root \in Roots |-> <<>>], cursor |-> 0,
              sequence |-> 0, barrier |-> NoBarrier, cell |-> [r \in Requests |-> NoId]]
      /\ req = [r \in Requests |-> Idle] /\ clock = 0
  BY DEF Init, QueueNew, l
<1>7. NoRecovery \in Recovery /\ ~NoRecovery.armed
  BY DEF NoRecovery, Recovery, NoId
<1>8. NoBarrier \in [root : Roots, sequence : Nat]
  BY <1>1 DEF NoBarrier
<1>9. [root \in Roots |-> <<>>] \in [Roots -> Seq(Waiter)]
  OBVIOUS
<1>10. [r \in Requests |-> NoId] \in [Requests -> Nat \cup {Expired}]
  BY DEF NoId
<1>11. q \in QueueType({l})
  <2> HIDE DEF NoRecovery, NoBarrier
  <2>1. QED
    BY <1>1, <1>6, <1>7, <1>8, <1>9, <1>10 DEF QueueType
<1>12. QueueOK(q)
  BY <1>5, <1>11 DEF QueueOK, l
<1>13. /\ q.ledger = l /\ q.recovery = NoRecovery /\ q.roots = [root \in Roots |-> <<>>]
       /\ q.cell = [r \in Requests |-> NoId] /\ q.generation = 0
  BY <1>6
<1>14. req \in [Requests -> Request] /\ \A r \in Requests : req[r].phase = "idle"
  BY <1>6, DoneRequest
<1>15. Lined(q, req)
  BY <1>13 DEF Lined
<1>16. Owner(q, req) = {}
  BY <1>13, <1>14 DEF Owner, NoId, HoldPhases
<1>17. Owned(q, req)
  BY <1>4, <1>13, <1>16 DEF Owned
<1>18. Probing(q, req)
  BY <1>7, <1>13, <1>14 DEF Probing, Claimed
<1>19. QED
  BY <1>6, <1>12, <1>14, <1>15, <1>17, <1>18 DEF AdmissionInv, Inv

(* The clock's tick and Admission::status change no place. *)
LEMMA BackgroundStep ==
    ASSUME AdmissionInv, Tick \/ Status \/ UNCHANGED vars
    PROVE  AdmissionInv' /\ \A s \in Requests : SlotOf(s)' = SlotOf(s)
<1>1. clock \in Nat /\ Inv(q, req)
  BY DEF AdmissionInv
<1>2. CASE Tick
  <2>1. q' = q /\ req' = req /\ clock' \in Nat
    BY <1>1, <1>2 DEF Tick
  <2>2. QED
    BY <1>1, <2>1 DEF AdmissionInv, SlotOf
<1>3. CASE Status
  <2> DEFINE a == [q EXCEPT !.ledger = LedgerAdvance(@, clock)]
  <2>1. q' = a /\ req' = req /\ clock' = clock
    BY <1>3 DEF Status
  <2>2. Inv(a, req) /\ a.cell = q.cell
    BY <1>1, AdvancedInv
  <2> HIDE DEF a
  <2>3. QED
    BY <1>1, <2>1, <2>2 DEF AdmissionInv, SlotOf
<1>4. CASE UNCHANGED vars
  BY <1>1, <1>4 DEF vars, AdmissionInv, SlotOf
<1>5. QED
  BY <1>2, <1>3, <1>4

(* Every step preserves the invariant and is one turn of one request, or   *)
(* nobody's.                                                               *)
LEMMA NextStep ==
    ASSUME AdmissionInv, [Next]_vars
    PROVE  /\ AdmissionInv'
           /\ \/ \A s \in Requests : SlotOf(s)' = SlotOf(s)
              \/ \E r \in Requests : Turn(r)
<1>1. CASE Tick \/ Status \/ UNCHANGED vars
  BY <1>1, BackgroundStep
<1>2. ASSUME NEW r \in Requests,
             \/ Acquire(r) \/ Reacquire(r) \/ Poll(r) \/ Abandon(r) \/ AbandonRequeue(r)
             \/ Start(r) \/ Drop(r) \/ Retry(r) \/ Headers(r) \/ Rejected(r)
      PROVE  AdmissionInv' /\ Turn(r)
  BY <1>2, AcquireStep, PollInv, PollTurn, AbandonStep, AbandonRequeueStep, StartStep,
     DropStep, RetryStep, HeadersStep, RejectedStep
<1>3. QED
  BY <1>1, <1>2 DEF Next

(* The invariant of the queue, its ledger, its tickets and the holds: the  *)
(* reservations of the ledger and their owners correspond one to one, a    *)
(* queued ticket is undecided and in the line of its root, and a probe's   *)
(* claim is held by the one request that may prove the recovery.           *)
THEOREM AdmissionInvariant == Spec => []AdmissionInv
<1>1. AdmissionInv /\ [Next]_vars => AdmissionInv'
  BY NextStep
<1>2. QED
  BY <1>1, InitInv, PTL DEF Spec

(* No reservation leaks and none is shared, however tickets expire, are    *)
(* dropped or won and holds are dropped or requeued.                       *)
THEOREM AdmissionOwnsReservations == Spec => []OwnedReservations
<1>1. ASSUME AdmissionInv PROVE OwnedReservations
  <2> DEFINE won == {r \in Requests : q.cell[r] > NoId}
             holding == {r \in Requests : req[r].phase \in HoldPhases}
             Id(r) == IF r \in won THEN q.cell[r] ELSE req[r].id
  <2>1. Owned(q, req) /\ Lined(q, req)
    BY <1>1 DEF AdmissionInv, Inv
  <2>2. Owner(q, req) = won \cup holding
    BY DEF Owner
  <2>3. \A r \in won \cup holding : Id(r) = IdOf(q, req, r)
    BY DEF IdOf
  <2>4. won \cap holding = {}
    BY <2>1 DEF Lined, HoldPhases, NoId
  <2> HIDE DEF won, holding, Id
  <2>5. Active(q.ledger) = {Id(r) : r \in won \cup holding}
    BY <2>1, <2>2, <2>3 DEF Owned
  <2>6. \A r, s \in won \cup holding : Id(r) = Id(s) => r = s
    BY <2>1, <2>2, <2>3 DEF Owned
  <2>7. QED
    BY <2>4, <2>5, <2>6 DEF OwnedReservations, won, holding, Id
<1>2. QED
  BY <1>1, AdmissionInvariant, PTL

(* A probe's claim always belongs to an active reservation, and to a       *)
(* generation's once only generations count: no answer, drop or            *)
(* cancellation leaves the recovery waiting for nobody, or for somebody    *)
(* whose success would not prove it.                                       *)
THEOREM AdmissionProbeOwned == Spec => []ProbeOwned
<1>1. ASSUME AdmissionInv PROVE ProbeOwned
  <2>1. Claimed(q) /\ LedgerOK(q.ledger)
    BY <1>1 DEF AdmissionInv, Inv, QueueOK, Probing
  <2>2. \A i \in Active(q.ledger) : i \in DOMAIN q.ledger.entries /\ q.ledger.entries[i].active
    BY <2>1, ActiveFinite
  <2>3. QED
    BY <2>1, <2>2 DEF Claimed, ProbeOwned, IsActiveGeneration
<1>2. QED
  BY <1>1, AdmissionInvariant, PTL

(* While a recovery is armed, at most one gated request of its generation  *)
(* is on the wire, whatever is answered late or rejected again.            *)
THEOREM AdmissionSingleProbe == Spec => []SingleProbe
<1>1. ASSUME AdmissionInv, q.recovery.armed
      PROVE  Cardinality({r \in In("sent") : /\ req[r].generation = q.generation
                                             /\ ~Exempt(q, CostOf[r])}) <= 1
  <2> DEFINE S == {r \in In("sent") : req[r].generation = q.generation /\ ~Exempt(q, CostOf[r])}
  <2>1. Inv(q, req)
    BY <1>1 DEF AdmissionInv
  <2>2. ASSUME NEW r \in S
        PROVE  r \in Owner(q, req) /\ IdOf(q, req, r) = q.recovery.probe
    <3>1. r \in Requests /\ req[r].phase = "sent" /\ req[r].phase \in HoldPhases
      BY DEF In, HoldPhases
    <3>2. req[r].id = q.recovery.probe
      BY <1>1, <2>1, <3>1 DEF Inv, Probing
    <3>3. QED
      BY <2>1, <3>1, <3>2, HolderId
  <2>3. \A r, s \in S : r = s
    BY <2>1, <2>2 DEF Inv, Owned
  <2> HIDE DEF S
  <2>4. CASE S = {}
    BY <2>4, FS_EmptySet DEF S
  <2>5. CASE S # {}
    <3>1. PICK r \in S : TRUE
      BY <2>5
    <3>2. S = {r}
      BY <2>3, <3>1
    <3>3. Cardinality(S) = 1
      BY <3>2, FS_Singleton
    <3>4. QED
      BY <3>3 DEF S
  <2>6. QED
    BY <2>4, <2>5
<1>2. AdmissionInv => SingleProbe
  BY <1>1 DEF SingleProbe
<1>3. QED
  BY <1>2, AdmissionInvariant, PTL

-----------------------------------------------------------------------------
(* The refinement of Slots. *)
LEMMA OwnersFew ==
    ASSUME NEW u, NEW rq, Inv(u, rq)
    PROVE  /\ IsFiniteSet(Owner(u, rq)) /\ Cardinality(Owner(u, rq)) \in Nat
           /\ Cardinality(Owner(u, rq)) <= Concurrency
<1> DEFINE A == Active(u.ledger)
           O == Owner(u, rq)
           f == [r \in O |-> IdOf(u, rq, r)]
<1>1. IsFiniteSet(A) /\ Cardinality(A) \in Nat /\ Cardinality(A) <= Concurrency
  BY QueueFields, ActiveFinite DEF Inv, LedgerOK
<1>2. \A r \in O : IdOf(u, rq, r) \in A
  BY DEF Inv, Owned
<1>3. \A r, s \in O : IdOf(u, rq, r) = IdOf(u, rq, s) => r = s
  BY DEF Inv, Owned
<1> HIDE DEF O, A
<1>4. f \in Injection(O, A)
  BY <1>2, <1>3 DEF Injection, IsInjective
<1>5. IsFiniteSet(O) /\ Cardinality(O) <= Cardinality(A)
  BY <1>1, <1>4, FS_Injection
<1>6. Cardinality(O) \in Nat
  BY <1>5, FS_CardinalityType
<1>7. QED
  BY <1>1, <1>5, <1>6, ConcurrencyNat DEF O

(* Slots counts with the same Cardinality. *)
LEMMA SameCount == \A S : Promise!Cardinality(S) = Cardinality(S)
BY DEF Promise!Cardinality, Cardinality, IsFiniteSet, Promise!IsFiniteSet

(* The slots that a turn changes, as one function. *)
Slot == [r \in Requests |-> SlotOf(r)]

(* Every turn is a step of Slots. *)
LEMMA TurnRefines ==
    ASSUME AdmissionInv, AdmissionInv', NEW r \in Requests, Turn(r)
    PROVE  Promise!Next \/ UNCHANGED Slot
<1> DEFINE S == {s \in Requests : Granting(s)}
           T == S \ {r}
           P == Owner(q', req')
<1>1. /\ Slot = [s \in Requests |-> SlotOf(s)] /\ Slot' = [s \in Requests |-> SlotOf(s)']
  BY DEF Slot
<1>2. \A s \in Requests : Slot[s] = SlotOf(s) /\ Slot'[s] = SlotOf(s)'
  BY <1>1
<1>3. /\ IsFiniteSet(P) /\ Cardinality(P) \in Nat /\ Cardinality(P) <= Concurrency
      /\ \A s \in Requests : SlotOf(s)' \in {"held", "started"} <=> s \in P
  <2>1. Inv(q', req')
    BY DEF AdmissionInv
  <2>2. ASSUME NEW s \in Requests PROVE SlotOf(s)' \in {"held", "started"} <=> s \in P
    <3>1. q'.cell[s] > NoId => req'[s].phase = "waiting"
      BY <2>1 DEF Inv, Lined, NoId
    <3>2. QED
      BY <3>1 DEF SlotOf, Owner, HoldPhases
  <2>3. QED
    BY <2>1, <2>2, OwnersFew
<1> HIDE DEF P
<1>4. Promise!Waiting = {s \in Requests : SlotOf(s) = "waiting"}
      /\ Promise!Placed = {s \in Requests : SlotOf(s) \in {"held", "started"}}
  BY DEF Promise!Waiting, Promise!Placed
<1>5. ASSUME NEW G, G \subseteq P, {s \in Requests : SlotOf(s) \in {"held", "started"}} \subseteq P
      PROVE  Promise!Room(G)
  <2>1. Promise!Placed \cup G \subseteq P
    BY <1>4, <1>5
  <2>2. /\ IsFiniteSet(Promise!Placed \cup G)
        /\ Cardinality(Promise!Placed \cup G) <= Cardinality(P)
    BY <1>3, <2>1, FS_Subset
  <2>3. Cardinality(Promise!Placed \cup G) \in Nat
    BY <2>2, FS_CardinalityType
  <2>4. Cardinality(Promise!Placed \cup G) <= Concurrency
    BY <1>3, <2>2, <2>3, ConcurrencyNat
  <2>5. QED
    BY <2>4, SameCount DEF Promise!Room
<1>6. \A G : Promise!Granted(G) = [s \in Requests |-> IF s \in G THEN "held" ELSE SlotOf(s)]
  BY DEF Promise!Granted
<1>7. /\ S \subseteq {s \in Requests : SlotOf(s) = "waiting"} /\ S \subseteq P
      /\ S \in SUBSET Requests /\ T \in SUBSET Requests /\ T \subseteq P
  BY <1>3 DEF Granting
<1>8. CASE /\ \A s \in Requests \ {r} : SlotOf(s)' = SlotOf(s) \/ Granting(s)
           /\ SlotOf(r)' = SlotOf(r) \/ Granting(r)
  <2>1. \A s \in Requests : SlotOf(s)' = IF s \in S THEN "held" ELSE SlotOf(s)
    BY <1>8 DEF Granting
  <2>2. Slot' = Promise!Granted(S)
    BY <1>1, <1>6, <2>1
  <2>3. {s \in Requests : SlotOf(s) \in {"held", "started"}} \subseteq P
    BY <1>3, <2>1
  <2>4. CASE S = {}
    BY <1>1, <2>1, <2>4
  <2>5. CASE S # {}
    <3>1. Promise!Room(S)
      BY <1>5, <1>7, <2>3
    <3> HIDE DEF S
    <3>2. Promise!Grant(S)
      BY <1>4, <1>7, <2>2, <2>5, <3>1 DEF Promise!Grant, Slot
    <3>3. QED
      BY <1>7, <3>2 DEF Promise!Next
  <2>6. QED
    BY <2>4, <2>5
<1>9. CASE /\ \A s \in Requests \ {r} : SlotOf(s)' = SlotOf(s) \/ Granting(s)
           /\ \/ SlotOf(r) = "none" /\ SlotOf(r)' = "waiting"
              \/ SlotOf(r) = "waiting" /\ SlotOf(r)' = "none"
  <2>1. \A s \in Requests \ {r} : SlotOf(s)' = IF s \in T THEN "held" ELSE SlotOf(s)
    BY <1>9 DEF Granting
  <2>2. Slot' = [Promise!Granted(T) EXCEPT ![r] = SlotOf(r)']
    BY <1>1, <1>6, <2>1
  <2>3. {s \in Requests : SlotOf(s) \in {"held", "started"}} \subseteq P
    <3>1. ASSUME NEW s \in Requests, SlotOf(s) \in {"held", "started"} PROVE s \in P
      <4>1. s # r
        BY <1>9, <3>1
      <4>2. SlotOf(s)' \in {"held", "started"}
        BY <2>1, <3>1, <4>1
      <4>3. QED
        BY <1>3, <4>2
    <3>2. QED
      BY <3>1
  <2>4. Promise!Room(T)
    BY <1>5, <1>7, <2>3
  <2>5. CASE SlotOf(r) = "none" /\ SlotOf(r)' = "waiting"
    <3>1. Promise!Enter(r, T)
      BY <1>2, <1>4, <1>7, <2>2, <2>4, <2>5 DEF Promise!Enter, Slot
    <3>2. QED
      BY <1>7, <3>1 DEF Promise!Next
  <2>6. CASE SlotOf(r) = "waiting" /\ SlotOf(r)' = "none"
    <3>1. Promise!GiveUp(r, T)
      BY <1>2, <1>4, <1>7, <2>2, <2>4, <2>6 DEF Promise!GiveUp, Slot
    <3>2. QED
      BY <1>7, <3>1 DEF Promise!Next
  <2>7. QED
    BY <1>9, <2>5, <2>6
<1>10. CASE /\ \A s \in Requests \ {r} : SlotOf(s)' = SlotOf(s)
            /\ \/ SlotOf(r) = "held" /\ SlotOf(r)' = "started"
               \/ SlotOf(r) \in {"held", "started"} /\ SlotOf(r)' = "none"
  <2>1. Slot' = [Slot EXCEPT ![r] = SlotOf(r)']
    BY <1>1, <1>10
  <2>2. Promise!Use(r) \/ Promise!Leave(r)
    BY <1>2, <1>10, <2>1 DEF Promise!Use, Promise!Leave, Slot
  <2>3. QED
    BY <2>2 DEF Promise!Next
<1>11. QED
  BY <1>8, <1>9, <1>10 DEF Turn

(* The queue, its ledger and its recovery implement the places of Slots:   *)
(* the initial queue maps to no place taken, and every step to a grant, an *)
(* entry, a use, a return or nothing.                                      *)
THEOREM AdmissionKeepsPromise == Spec => KeepsPromise
<1>1. Init => Promise!Init
  BY DEF Init, Promise!Init, SlotOf, Idle, HoldPhases
<1>2. ASSUME AdmissionInv, [Next]_vars PROVE [Promise!Next]_Slot
  <2>1. AdmissionInv'
    BY <1>2, NextStep
  <2>2. CASE \A s \in Requests : SlotOf(s)' = SlotOf(s)
    BY <2>2 DEF Slot
  <2>3. CASE \E r \in Requests : Turn(r)
    BY <1>2, <2>1, <2>3, TurnRefines
  <2>4. QED
    BY <1>2, <2>2, <2>3, NextStep
<1>3. QED
  BY <1>1, <1>2, AdmissionInvariant, PTL DEF Spec, KeepsPromise, Promise!Spec, Slot

-----------------------------------------------------------------------------
(* The order of the tickets.  A ticket that is still there is the ticket   *)
(* it was, and the head of its line as long as it was: nobody cuts in.     *)
Same(new, old) ==
    /\ new.req = old.req /\ new.enqueued = old.enqueued /\ new.sequence = old.sequence
    /\ new.bypasses >= old.bypasses

FromLine(line, old) ==
    \A k \in DOMAIN line : \E a \in DOMAIN old : Same(line[k], old[a]) /\ (a = 1 => k = 1)

From(v, u) ==
    v.sequence = u.sequence /\ \A root \in Roots : FromLine(v.roots[root], u.roots[root])

(* No two tickets have the same number, and the barrier names the head of  *)
(* its root, or a ticket that is gone.                                     *)
Ordered(u) ==
    /\ u.barrier.sequence \in 0 .. u.sequence
    /\ \A root \in Roots : \A k \in DOMAIN u.roots[root] :
          /\ u.roots[root][k].sequence \in 1 .. u.sequence
          /\ u.roots[root][k].sequence = u.barrier.sequence => root = u.barrier.root /\ k = 1
    /\ \A root, other \in Roots :
          \A k \in DOMAIN u.roots[root] : \A j \in DOMAIN u.roots[other] :
             u.roots[root][k].sequence = u.roots[other][j].sequence => root = other /\ k = j

(* The tickets in a line are tickets. *)
LEMMA Tickets ==
    ASSUME NEW u, QueueOK(u), NEW root \in Roots, NEW k \in DOMAIN u.roots[root]
    PROVE  u.roots[root][k] \in Waiter
<1>1. u.roots[root] \in Seq(Waiter)
  BY QueueFields
<1>2. QED
  BY <1>1

(* The head of a line is its first ticket. *)
LEMMA FirstOfLine ==
    ASSUME NEW u, QueueOK(u), NEW root \in Roots
    PROVE  /\ root \in Busy(u) <=> 1 \in DOMAIN u.roots[root]
           /\ root \in Busy(u) => HeadOf(u, root) = u.roots[root][1] /\ HeadOf(u, root) \in Waiter
<1>1. u.roots[root] \in Seq(Waiter)
  BY QueueFields
<1>2. QED
  BY <1>1 DEF Busy, HeadOf

(* What a ticket was, it was before. *)
LEMMA FromTwice ==
    ASSUME NEW u, NEW v, NEW w, QueueOK(u), QueueOK(v), QueueOK(w), From(v, u), From(w, v)
    PROVE  From(w, u)
<1>1. ASSUME NEW root \in Roots, NEW k \in DOMAIN w.roots[root]
      PROVE  \E a \in DOMAIN u.roots[root] :
                 Same(w.roots[root][k], u.roots[root][a]) /\ (a = 1 => k = 1)
  <2>1. PICK b \in DOMAIN v.roots[root] :
            Same(w.roots[root][k], v.roots[root][b]) /\ (b = 1 => k = 1)
    BY DEF From, FromLine
  <2>2. PICK a \in DOMAIN u.roots[root] :
            Same(v.roots[root][b], u.roots[root][a]) /\ (a = 1 => b = 1)
    BY DEF From, FromLine
  <2>3. w.roots[root][k] \in Waiter /\ v.roots[root][b] \in Waiter /\ u.roots[root][a] \in Waiter
    BY Tickets
  <2>4. Same(w.roots[root][k], u.roots[root][a])
    BY <2>1, <2>2, <2>3 DEF Same, Waiter
  <2>5. QED
    BY <2>1, <2>2, <2>4
<1>2. QED
  BY <1>1 DEF From, FromLine

(* Tickets that go leave the others in their order. *)
LEMMA FromOrdered ==
    ASSUME NEW u, NEW v, Ordered(u), From(v, u), v.barrier = u.barrier,
           \A root \in Roots : Distinct(v.roots[root])
    PROVE  Ordered(v)
<1>1. ASSUME NEW root \in Roots, NEW k \in DOMAIN v.roots[root]
      PROVE  /\ v.roots[root][k].sequence \in 1 .. v.sequence
             /\ v.roots[root][k].sequence = v.barrier.sequence => root = v.barrier.root /\ k = 1
  <2>1. PICK a \in DOMAIN u.roots[root] :
            Same(v.roots[root][k], u.roots[root][a]) /\ (a = 1 => k = 1)
    BY DEF From, FromLine
  <2>2. QED
    BY <2>1 DEF Ordered, From, Same
<1>2. ASSUME NEW root \in Roots, NEW other \in Roots, NEW k \in DOMAIN v.roots[root],
             NEW j \in DOMAIN v.roots[other],
             v.roots[root][k].sequence = v.roots[other][j].sequence
      PROVE  root = other /\ k = j
  <2>1. PICK a \in DOMAIN u.roots[root] : Same(v.roots[root][k], u.roots[root][a])
    BY DEF From, FromLine
  <2>2. PICK b \in DOMAIN u.roots[other] : Same(v.roots[other][j], u.roots[other][b])
    BY DEF From, FromLine
  <2>3. root = other /\ a = b
    <3>1. u.roots[root][a].sequence = u.roots[other][b].sequence
      BY <1>2, <2>1, <2>2 DEF Same
    <3>2. QED
      BY <3>1 DEF Ordered
  <2>4. v.roots[root][k].req = v.roots[root][j].req
    BY <2>1, <2>2, <2>3 DEF Same
  <2>5. QED
    BY <2>3, <2>4 DEF Distinct
<1>3. v.barrier.sequence \in 0 .. v.sequence
  BY DEF Ordered, From
<1>4. QED
  BY <1>1, <1>2, <1>3 DEF Ordered

(* Without removes tickets and nothing else. *)
LEMMA SiftedFrom ==
    ASSUME NEW line \in Seq(Waiter), NEW out, NEW gone, Sifted(out, line, gone, Len(line))
    PROVE  FromLine(out, line)
<1>1. ASSUME NEW k \in DOMAIN out
      PROVE  \E a \in DOMAIN line : Same(out[k], line[a]) /\ (a = 1 => k = 1)
  <2>1. PICK a \in 1 .. Len(line) : out[k] = line[a]
    BY DEF Sifted
  <2>2. a \in DOMAIN line /\ line[a] \in Waiter
    OBVIOUS
  <2>3. Same(out[k], line[a])
    BY <2>1, <2>2 DEF Same, Waiter
  <2>4. ASSUME a = 1 PROVE k = 1
    <3>1. line[1].req \notin gone /\ Len(line) > 0
      BY <2>1, <2>4 DEF Sifted
    <3>2. out # <<>> /\ out[1] = line[1] /\ out \in Seq(Waiter)
      BY <3>1 DEF Sifted
    <3>3. 1 \in DOMAIN out /\ out[1].req = out[k].req
      BY <2>1, <2>4, <3>2
    <3>4. QED
      BY <3>3 DEF Sifted, Distinct
  <2>5. QED
    BY <2>2, <2>3, <2>4
<1>2. QED
  BY <1>1 DEF FromLine

(* A line as it was. *)
LEMMA SameLine ==
    ASSUME NEW line \in Seq(Waiter)
    PROVE  FromLine(line, line)
<1>1. \A k \in DOMAIN line : line[k] \in Waiter
  OBVIOUS
<1>2. QED
  BY <1>1 DEF FromLine, Same, Waiter

(* The line without its head. *)
LEMMA TailFrom ==
    ASSUME NEW line \in Seq(Waiter), line # <<>>
    PROVE  FromLine(Tail(line), line)
<1>1. \A k \in DOMAIN Tail(line) : k + 1 \in DOMAIN line /\ Tail(line)[k] = line[k + 1]
                                  /\ k + 1 # 1 /\ line[k + 1] \in Waiter
  <2>1. Shorter(Tail(line), line, TRUE)
    BY TailShorter
  <2>2. \A k \in DOMAIN Tail(line) : k + 1 \in DOMAIN line /\ Tail(line)[k] = line[k + 1]
    BY <2>1, Zenon DEF Shorter
  <2>3. \A k \in DOMAIN Tail(line) : k \in Nat /\ k > 0
    BY <2>1 DEF Shorter
  <2>4. \A a \in DOMAIN line : line[a] \in Waiter
    OBVIOUS
  <2>5. QED
    BY <2>2, <2>3, <2>4
<1>2. \A w \in Waiter : Same(w, w)
  BY DEF Same, Waiter
<1>3. ASSUME NEW k \in DOMAIN Tail(line)
      PROVE  \E a \in DOMAIN line : Same(Tail(line)[k], line[a]) /\ (a = 1 => k = 1)
  <2>1. k + 1 \in DOMAIN line /\ Same(Tail(line)[k], line[k + 1]) /\ k + 1 # 1
    BY <1>1, <1>2
  <2>2. QED
    BY <2>1, Zenon
<1>4. QED
  BY <1>3 DEF FromLine

(* The line whose head was bypassed. *)
LEMMA BypassFrom ==
    ASSUME NEW old \in Seq(Waiter), old # <<>>
    PROVE  FromLine([old EXCEPT ![1].bypasses = @ + 1], old)
<1> DEFINE n == old[1].bypasses + 1
           w == [old[1] EXCEPT !.bypasses = n]
           new == [old EXCEPT ![1] = w]
<1>1. 1 \in 1 .. Len(old) /\ Len(old) \in Nat /\ old[1] \in Waiter
  BY EmptySeq, ElementOfSeq
<1>2. w \in Waiter /\ Same(w, old[1])
  <2>1. n \in Nat /\ n >= old[1].bypasses
    BY <1>1 DEF Waiter
  <2> HIDE DEF n
  <2>2. QED
    BY <1>1, <2>1 DEF Waiter, Same
<1>3. [old EXCEPT ![1].bypasses = @ + 1] = new
  OBVIOUS
<1> HIDE DEF w
<1>4. /\ new \in Seq(Waiter) /\ Len(new) = Len(old)
      /\ \A j \in 1 .. Len(old) : new[j] = IF j = 1 THEN w ELSE old[j]
  BY <1>1, <1>2, ExceptSeq
<1> HIDE DEF new
<1>5. DOMAIN new = 1 .. Len(old) /\ DOMAIN old = 1 .. Len(old)
  BY <1>4
<1>6. \A j \in DOMAIN old : old[j] \in Waiter /\ Same(old[j], old[j])
  <2>1. \A j \in DOMAIN old : old[j] \in Waiter
    OBVIOUS
  <2>2. QED
    BY <2>1 DEF Same, Waiter
<1>7. \A k \in DOMAIN new : Same(new[k], old[k])
  BY <1>2, <1>4, <1>5, <1>6
<1>8. QED
  BY <1>3, <1>5, <1>7 DEF FromLine

-----------------------------------------------------------------------------
(* The order through the steps of Queue::drive.  Expiry removes tickets. *)
LEMMA ExpireOrder ==
    ASSUME NEW u, NEW rq, NEW t \in Nat, Inv(u, rq)
    PROVE  LET e == Expire(u, t)
           IN  /\ From(e, u) /\ e.barrier = u.barrier
               /\ \A r \in Requests : e.cell[r] > NoId => u.cell[r] = e.cell[r]
<1> DEFINE gone == {r \in Requests : \E root \in Roots : \E k \in 1 .. Len(u.roots[root]) :
                       u.roots[root][k].req = r /\ t >= u.roots[root][k].deadline}
           R == [root \in Roots |-> Without(u.roots[root], gone)]
           C == [r \in Requests |-> IF r \in gone THEN Expired ELSE u.cell[r]]
           e == [u EXCEPT !.roots = R, !.cell = C]
<1>1. Expire(u, t) = e
  BY DEF Expire
<1> HIDE DEF gone
<1>2. \A root \in Roots : FromLine(R[root], u.roots[root])
  BY LinesDistinct, WithoutSifts, SiftedFrom
<1>3. \A r \in Requests : C[r] > NoId => u.cell[r] = C[r]
  BY DEF Expired, NoId
<1> HIDE DEF R, C
<1>4. e.roots = R /\ e.cell = C /\ e.barrier = u.barrier /\ e.sequence = u.sequence
  BY DEF Inv, QueueOK, QueueType
<1> HIDE DEF e
<1>5. QED
  BY <1>1, <1>2, <1>3, <1>4 DEF From

(* A head that is protected from being passed by younger ones. *)
Overdue(w, t) == w.bypasses >= MaxBypasses \/ t >= w.enqueued + MaxAge

(* Queue::protect keeps its barrier, or puts it before the oldest head     *)
(* when some head is overdue.                                              *)
LEMMA ProtectCases ==
    ASSUME NEW u, NEW rq, NEW t \in Nat, Inv(u, rq)
    PROVE  LET p == Protect(u, t)
           IN  /\ p.sequence = u.sequence
               /\ Protected(u) => p = u
               /\ (~Protected(u) /\ \E root \in Busy(u) : Overdue(HeadOf(u, root), t)) =>
                     \E oldest \in Busy(u) :
                        /\ p.barrier = [root |-> oldest, sequence |-> HeadOf(u, oldest).sequence]
                        /\ \A other \in Busy(u) : Older(HeadOf(u, oldest), HeadOf(u, other))
<1> DEFINE oldest == CHOOSE root \in Busy(u) :
                        \A other \in Busy(u) : Older(HeadOf(u, root), HeadOf(u, other))
           b == [root |-> oldest, sequence |-> HeadOf(u, oldest).sequence]
           p == Protect(u, t)
<1>1. p = IF Protected(u) THEN u
          ELSE IF \E root \in Busy(u) : Overdue(HeadOf(u, root), t)
          THEN [u EXCEPT !.barrier = b]
          ELSE [u EXCEPT !.barrier = NoBarrier]
  BY DEF Protect, Overdue
<1>2. Busy(u) # {} => /\ oldest \in Busy(u)
                      /\ \A other \in Busy(u) : Older(HeadOf(u, oldest), HeadOf(u, other))
  BY OldestExists DEF Inv
<1> HIDE DEF oldest, p
<1>3. \A x : LET v == [u EXCEPT !.barrier = x] IN v.sequence = u.sequence /\ v.barrier = x
  BY DEF Inv, QueueOK, QueueType
<1> HIDE DEF b
<1>4. p.sequence = u.sequence
  BY <1>1, <1>3
<1>5. ASSUME ~Protected(u), \E root \in Busy(u) : Overdue(HeadOf(u, root), t)
      PROVE  p.barrier = b /\ Busy(u) # {}
  BY <1>1, <1>3, <1>5
<1>6. Protected(u) => p = u
  BY <1>1
<1>7. QED
  BY <1>2, <1>4, <1>5, <1>6 DEF b, p

(* An admission takes the head of a line and at most marks the others'. *)
LEMMA AdmitHeadOrder ==
    ASSUME NEW u, NEW rq, Inv(u, rq), NEW root \in Busy(u), NEW fits
    PROVE  LET v == AdmitHead(u, root, fits)
               h == HeadOf(u, root).req
           IN  /\ From(v, u) /\ v.barrier = u.barrier
               /\ v.cell[h] > NoId
               /\ \A r \in Requests \ {h} : v.cell[r] = u.cell[r]
<1> DEFINE h == HeadOf(u, root).req
           cost == CostOf[h]
           id == u.ledger.next + 1
           Bypass(other) == other \in Busy(u) \ (fits \cup {root})
           R == [other \in Roots |->
                    IF other = root THEN Tail(u.roots[root])
                    ELSE IF Bypass(other) THEN [u.roots[other] EXCEPT ![1].bypasses = @ + 1]
                    ELSE u.roots[other]]
           L == LedgerAdmit(u.ledger, cost)
           gated == u.recovery.armed /\ ~Exempt(u, cost)
           P == [u.recovery EXCEPT !.probe = IF gated THEN id ELSE @]
           C == [u.cell EXCEPT ![h] = id]
           N == RootAfter(root)
           v == [u EXCEPT !.roots = R, !.ledger = L, !.recovery = P, !.cell = C, !.cursor = N]
<1>1. /\ root \in Roots /\ u.roots \in [Roots -> Seq(Waiter)]
      /\ u \in QueueType({u.ledger}) /\ u.recovery \in Recovery
      /\ u.cell \in [Requests -> Nat \cup {Expired}] /\ LedgerOK(u.ledger)
  BY QueueFields DEF Inv, Busy, QueueOK
<1>2. AdmitHead(u, root, fits) = v
  BY <1>1 DEF AdmitHead, QueueType
<1>3. h \in Requests
  BY <1>1, FirstOfLine DEF Inv, Waiter
<1>4. id > NoId
  BY <1>1, ActiveFinite DEF NoId
<1> HIDE DEF h, id, cost
<1>5. C[h] = id /\ \A r \in Requests \ {h} : C[r] = u.cell[r]
  BY <1>1, <1>3
<1>6. ASSUME NEW other \in Roots PROVE FromLine(R[other], u.roots[other])
  <2>1. u.roots[other] \in Seq(Waiter) /\ (other \in Busy(u) => u.roots[other] # <<>>)
    BY <1>1 DEF Busy
  <2>2. CASE other = root
    BY <2>1, <2>2, TailFrom
  <2>3. CASE other # root /\ Bypass(other)
    <3>1. R[other] = [u.roots[other] EXCEPT ![1].bypasses = @ + 1]
      BY <2>3
    <3>2. QED
      BY <2>1, <2>3, <3>1, BypassFrom
  <2>4. CASE other # root /\ ~Bypass(other)
    <3>1. R[other] = u.roots[other]
      BY <2>4
    <3>2. QED
      BY <2>1, <3>1, SameLine
  <2>5. QED
    BY <2>2, <2>3, <2>4
<1> HIDE DEF R, L, P, C, N
<1>7. v.roots = R /\ v.cell = C /\ v.barrier = u.barrier /\ v.sequence = u.sequence
  BY <1>1 DEF QueueType
<1> HIDE DEF v
<1>8. QED
  BY <1>2, <1>4, <1>5, <1>6, <1>7 DEF From, h

(* A pass of the loop admits nobody, or one head: the protected one when   *)
(* there is a barrier.                                                     *)
LEMMA DrivePassOrder ==
    ASSUME NEW u, NEW rq, NEW t \in Nat, Inv(u, rq)
    PROVE  LET v == DrivePass(u, t)
               b == Protect(u, t).barrier
           IN  /\ From(v, u) /\ v.barrier = b
               /\ \/ v.cell = u.cell
                  \/ \E root \in Busy(u) :
                        /\ b # NoBarrier => root = b.root
                        /\ v.cell[HeadOf(u, root).req] > NoId
                        /\ \A r \in Requests \ {HeadOf(u, root).req} : v.cell[r] = u.cell[r]
<1> DEFINE p == Protect(u, t)
           a == IF Busy(p) = {} THEN p ELSE [p EXCEPT !.ledger = LedgerAdvance(@, t)]
           fits == {root \in Busy(a) :
                      LET cost == CostOf[HeadOf(a, root).req]
                      IN  LedgerFits(a.ledger, cost) /\ Eligible(a, cost)}
           selected == Select(a, fits)
           root == CHOOSE root \in selected : TRUE
           w == AdmitHead(a, root, fits)
<1>1. Inv(p, rq) /\ p.roots = u.roots /\ p.cell = u.cell /\ p.sequence = u.sequence
  BY ProtectInv, ProtectCases
<1> HIDE DEF p
<1>2. /\ Inv(a, rq) /\ a.roots = u.roots /\ a.cell = u.cell /\ a.sequence = u.sequence
      /\ a.barrier = p.barrier
  <2>1. [p EXCEPT !.ledger = LedgerAdvance(@, t)].sequence = p.sequence
    BY <1>1 DEF Inv, QueueOK, QueueType
  <2>2. QED
    BY <1>1, <2>1, AdvancedInv
<1>3. DrivePass(u, t) = IF t < p.cooldown_until THEN p
                        ELSE IF selected = {} THEN a ELSE w
  BY DEF DrivePass, p
<1> HIDE DEF a
<1>4. selected \subseteq Busy(a) /\ (a.barrier # NoBarrier => selected \subseteq {a.barrier.root})
  BY DEF Select
<1>5. selected # {} => root \in Busy(a) /\ (a.barrier # NoBarrier => root = a.barrier.root)
  <2> HIDE DEF selected
  <2>1. QED
    BY <1>4
<1> HIDE DEF fits, selected, root
<1>6. \A x : u.roots = x.roots => Busy(x) = Busy(u) /\ \A y : HeadOf(x, y) = HeadOf(u, y)
  BY DEF Busy, HeadOf
<1>7. From(p, u) /\ From(a, u)
  <2>1. \A other \in Roots : FromLine(u.roots[other], u.roots[other])
    BY SameLine, LinesDistinct
  <2>2. QED
    BY <1>1, <1>2, <2>1 DEF From
<1>8. ASSUME selected # {}
      PROVE  /\ From(w, u) /\ w.barrier = p.barrier
             /\ root \in Busy(u) /\ (p.barrier # NoBarrier => root = p.barrier.root)
             /\ w.cell[HeadOf(u, root).req] > NoId
             /\ \A r \in Requests \ {HeadOf(u, root).req} : w.cell[r] = u.cell[r]
  <2>1. root \in Busy(a) /\ HeadOf(a, root) = HeadOf(u, root) /\ Busy(a) = Busy(u)
    BY <1>2, <1>5, <1>6, <1>8
  <2>2. /\ From(w, a) /\ w.barrier = a.barrier
        /\ w.cell[HeadOf(a, root).req] > NoId
        /\ \A r \in Requests \ {HeadOf(a, root).req} : w.cell[r] = a.cell[r]
    BY <1>2, <2>1, AdmitHeadOrder
  <2>3. From(w, u)
    BY <1>2, <2>2 DEF From
  <2>4. QED
    BY <1>2, <1>5, <1>8, <2>1, <2>2, <2>3
<1> HIDE DEF w
<1>9. QED
  BY <1>1, <1>2, <1>3, <1>7, <1>8 DEF p

(* A new barrier names a head. *)
LEMMA ProtectOrdered ==
    ASSUME NEW u, NEW t \in Nat, QueueOK(u), Ordered(u)
    PROVE  Ordered(Protect(u, t))
<1> DEFINE oldest == CHOOSE root \in Busy(u) :
                        \A other \in Busy(u) : Older(HeadOf(u, root), HeadOf(u, other))
           b == [root |-> oldest, sequence |-> HeadOf(u, oldest).sequence]
           p == Protect(u, t)
<1>1. \/ p = u
      \/ Busy(u) # {} /\ p = [u EXCEPT !.barrier = b]
      \/ p = [u EXCEPT !.barrier = NoBarrier]
  BY DEF Protect
<1>2. \A x : LET v == [u EXCEPT !.barrier = x]
             IN  v.sequence = u.sequence /\ v.barrier = x /\ v.roots = u.roots
  BY DEF QueueOK, QueueType
<1>3. u.sequence \in Nat
  BY QueueFields
<1> DEFINE Fits(x) ==
         /\ x.sequence \in 0 .. u.sequence
         /\ \A root \in Roots : \A k \in DOMAIN u.roots[root] :
               u.roots[root][k].sequence = x.sequence => root = x.root /\ k = 1
<1>4. ASSUME NEW v, v.sequence = u.sequence, v.roots = u.roots, Fits(v.barrier) PROVE Ordered(v)
  BY <1>4 DEF Ordered
<1>5. Fits(u.barrier)
  BY DEF Ordered
<1>6. Fits(NoBarrier)
  BY <1>3 DEF Ordered, NoBarrier
<1>7. Busy(u) # {} => Fits(b)
  <2> SUFFICES ASSUME Busy(u) # {} PROVE Fits(b)
    OBVIOUS
  <2>1. oldest \in Busy(u)
    BY OldestExists
  <2> HIDE DEF oldest
  <2>2. /\ oldest \in Roots /\ 1 \in DOMAIN u.roots[oldest]
        /\ HeadOf(u, oldest) = u.roots[oldest][1]
    BY <2>1, FirstOfLine DEF Busy
  <2>3. b.root = oldest /\ b.sequence = u.roots[oldest][1].sequence
    BY <2>2
  <2> HIDE DEF b
  <2>4. QED
    BY <2>2, <2>3 DEF Ordered
<1> HIDE DEF b, p, Fits, oldest
<1>8. CASE p = u
  BY <1>8 DEF p
<1>9. CASE Busy(u) # {} /\ p = [u EXCEPT !.barrier = b]
  <2>1. p.sequence = u.sequence /\ p.barrier = b /\ p.roots = u.roots
    BY <1>2, <1>9
  <2>2. QED
    BY <1>4, <1>7, <1>9, <2>1 DEF p
<1>10. CASE p = [u EXCEPT !.barrier = NoBarrier]
  <2>1. p.sequence = u.sequence /\ p.barrier = NoBarrier /\ p.roots = u.roots
    BY <1>2, <1>10
  <2>2. QED
    BY <1>4, <1>6, <2>1 DEF p
<1>11. QED
  BY <1>1, <1>8, <1>9, <1>10

-----------------------------------------------------------------------------
(* Who may be admitted while a ticket still stands. *)
Stands(u, n) == \E root \in Roots : \E k \in DOMAIN u.roots[root] : u.roots[root][k].sequence = n

Admitted(u, v) == {r \in Requests : u.cell[r] = NoId /\ v.cell[r] > NoId}

MayPass(u, x, w) ==
    \/ Older(x, w)
    \/ Protected(u) /\ x = HeadOf(u, u.barrier.root)

(* From u to v the barrier was respected: nobody was admitted past the     *)
(* protected head, and past an overdue one only older ones and the         *)
(* protected one, and whoever is protected in v may pass it too.           *)
Respects(u, v, t) ==
    /\ From(v, u)
    /\ Protected(u) /\ Stands(v, HeadOf(u, u.barrier.root).sequence)
          => v.barrier = u.barrier /\ Admitted(u, v) = {}
    /\ \A root \in Busy(u) :
          LET w == HeadOf(u, root)
          IN  Overdue(w, t) /\ Stands(v, w.sequence) =>
                 \A x \in Queued(u) :
                    /\ x.req \in Admitted(u, v) => MayPass(u, x, w)
                    /\ Protected(v) /\ x.req = HeadOf(v, v.barrier.root).req => MayPass(u, x, w)

(* A head that still stands is still the head. *)
LEMMA StandingHead ==
    ASSUME NEW u, NEW v, QueueOK(u), QueueOK(v), Ordered(u), From(v, u), NEW root \in Busy(u),
           Stands(v, HeadOf(u, root).sequence)
    PROVE  root \in Busy(v) /\ Same(HeadOf(v, root), HeadOf(u, root))
<1>1. /\ root \in Roots /\ 1 \in DOMAIN u.roots[root] /\ HeadOf(u, root) = u.roots[root][1]
  BY FirstOfLine DEF Busy
<1>2. PICK other \in Roots : \E k \in DOMAIN v.roots[other] :
         v.roots[other][k].sequence = u.roots[root][1].sequence
  BY <1>1 DEF Stands
<1>3. PICK k \in DOMAIN v.roots[other] : v.roots[other][k].sequence = u.roots[root][1].sequence
  BY <1>2
<1>4. PICK a \in DOMAIN u.roots[other] :
         Same(v.roots[other][k], u.roots[other][a]) /\ (a = 1 => k = 1)
  BY DEF From, FromLine
<1>5. u.roots[other][a].sequence = u.roots[root][1].sequence
  BY <1>3, <1>4 DEF Same
<1>6. other = root /\ a = 1
  BY <1>1, <1>5 DEF Ordered
<1>7. k = 1 /\ Same(v.roots[root][1], u.roots[root][1]) /\ 1 \in DOMAIN v.roots[root]
  BY <1>4, <1>6
<1>8. QED
  BY <1>1, <1>7, FirstOfLine

(* A ticket is in the line it was in, wherever it is looked up. *)
LEMMA SameTicket ==
    ASSUME NEW u, NEW v, NEW rq, Inv(u, rq), Inv(v, rq), From(v, u), NEW root \in Busy(v),
           NEW x \in Queued(u), x.req = HeadOf(v, root).req
    PROVE  Same(HeadOf(v, root), x)
<1>1. /\ root \in Roots /\ 1 \in DOMAIN v.roots[root] /\ HeadOf(v, root) = v.roots[root][1]
  BY FirstOfLine DEF Busy, Inv
<1>2. PICK a \in DOMAIN u.roots[root] : Same(v.roots[root][1], u.roots[root][a])
  BY <1>1 DEF From, FromLine
<1>3. PICK other \in Roots : \E j \in DOMAIN u.roots[other] : x = u.roots[other][j]
  BY DEF Queued, Range
<1>4. PICK j \in DOMAIN u.roots[other] : x = u.roots[other][j]
  BY <1>3
<1>5. x.req = u.roots[root][a].req
  BY <1>1, <1>2 DEF Same
<1>6. other = root
  BY <1>1, <1>4, <1>5, QueuedTicket
<1>7. j = a
  BY <1>4, <1>5, <1>6, LinesDistinct DEF Distinct
<1>8. QED
  BY <1>1, <1>2, <1>4, <1>6, <1>7

(* What stands now stood before. *)
LEMMA StoodBefore ==
    ASSUME NEW u, NEW v, From(v, u), NEW n, Stands(v, n)
    PROVE  Stands(u, n)
BY DEF From, FromLine, Same, Stands

(* Expiry admits nobody and moves no barrier. *)
LEMMA ExpireRespects ==
    ASSUME NEW u, NEW rq, NEW t \in Nat, Inv(u, rq), Ordered(u)
    PROVE  Ordered(Expire(u, t)) /\ Respects(u, Expire(u, t), t)
<1> DEFINE e == Expire(u, t)
<1>1. /\ Inv(e, rq) /\ From(e, u) /\ e.barrier = u.barrier
      /\ \A r \in Requests : e.cell[r] > NoId => u.cell[r] = e.cell[r]
  BY ExpireInv, ExpireOrder
<1> HIDE DEF e
<1>2. Ordered(e)
  BY <1>1, FromOrdered, LinesDistinct
<1>3. Admitted(u, e) = {}
  BY <1>1 DEF Admitted, NoId
<1>4. ASSUME Protected(e), NEW x \in Queued(u), x.req = HeadOf(e, e.barrier.root).req
      PROVE  Protected(u) /\ x = HeadOf(u, u.barrier.root)
  <2> DEFINE root == u.barrier.root
  <2>1. /\ u.barrier # NoBarrier /\ root \in Busy(e) /\ root \in Roots
        /\ HeadOf(e, root).sequence = u.barrier.sequence
    BY <1>1, <1>4 DEF Protected, Busy
  <2>2. Same(HeadOf(e, root), x)
    BY <1>1, <1>4, <2>1, SameTicket
  <2>3. PICK other \in Roots : \E j \in DOMAIN u.roots[other] : x = u.roots[other][j]
    BY DEF Queued, Range
  <2>4. PICK j \in DOMAIN u.roots[other] : x = u.roots[other][j]
    BY <2>3
  <2>5. other = root /\ j = 1
    BY <2>1, <2>2, <2>4 DEF Ordered, Same
  <2>6. root \in Busy(u) /\ HeadOf(u, root) = x
    BY <2>1, <2>4, <2>5, FirstOfLine DEF Inv
  <2>7. QED
    BY <2>1, <2>2, <2>6 DEF Protected, Same
<1>5. QED
  BY <1>1, <1>2, <1>3, <1>4 DEF Respects, MayPass, e

(* A pass respects the barrier too. *)
LEMMA DrivePassRespects ==
    ASSUME NEW u, NEW v, NEW rq, NEW t \in Nat, Inv(u, rq), Inv(v, rq), Ordered(u), Ordered(v),
           Respects(u, v, t)
    PROVE  Ordered(DrivePass(v, t)) /\ Respects(u, DrivePass(v, t), t)
<1> DEFINE p == Protect(v, t)
           b == p.barrier
           x == DrivePass(v, t)
           Lets(root) == /\ b # NoBarrier => root = b.root
                         /\ x.cell[HeadOf(v, root).req] > NoId
                         /\ \A r \in Requests \ {HeadOf(v, root).req} : x.cell[r] = v.cell[r]
<1>1. /\ Inv(x, rq) /\ From(x, v) /\ x.barrier = b
      /\ x.cell = v.cell \/ \E root \in Busy(v) : Lets(root)
  BY DrivePassInv, DrivePassOrder
<1>2. /\ p.roots = v.roots /\ p.sequence = v.sequence /\ Ordered(p)
      /\ Protected(v) => p = v
      /\ (~Protected(v) /\ \E root \in Busy(v) : Overdue(HeadOf(v, root), t)) =>
            \E oldest \in Busy(v) :
               /\ b = [root |-> oldest, sequence |-> HeadOf(v, oldest).sequence]
               /\ \A other \in Busy(v) : Older(HeadOf(v, oldest), HeadOf(v, other))
  BY ProtectInv, ProtectCases, ProtectOrdered DEF Inv
<1> HIDE DEF p, x
<1>3. Ordered(x)
  <2>1. From(x, p)
    BY <1>1, <1>2 DEF From
  <2>2. QED
    BY <1>1, <1>2, <2>1, FromOrdered, LinesDistinct
<1>4. From(v, u) /\ From(x, u)
  BY <1>1, FromTwice DEF Respects, Inv
<1>5. ASSUME Protected(u), Stands(x, HeadOf(u, u.barrier.root).sequence)
      PROVE  x.barrier = u.barrier /\ Admitted(u, x) = {}
  <2> DEFINE root == u.barrier.root
  <2>1. u.barrier # NoBarrier /\ root \in Busy(u) /\ HeadOf(u, root).sequence = u.barrier.sequence
    BY <1>5 DEF Protected
  <2>2. Stands(v, HeadOf(u, root).sequence)
    BY <1>1, <1>5, StoodBefore
  <2>3. v.barrier = u.barrier /\ Admitted(u, v) = {}
    BY <1>5, <2>2 DEF Respects
  <2>4. /\ root \in Busy(v) /\ Same(HeadOf(v, root), HeadOf(u, root))
        /\ root \in Busy(x) /\ Same(HeadOf(x, root), HeadOf(u, root))
    BY <1>1, <1>4, <1>5, <2>1, <2>2, StandingHead DEF Inv
  <2>5. Protected(v)
    BY <2>1, <2>3, <2>4 DEF Protected, Same
  <2>6. b = u.barrier
    BY <1>2, <2>3, <2>5
  <2>7. x.cell[HeadOf(v, root).req] = NoId
    <3>1. root \in Roots /\ 1 \in DOMAIN x.roots[root] /\ HeadOf(x, root) = x.roots[root][1]
      BY <1>1, <2>4, FirstOfLine DEF Busy, Inv
    <3>2. x.cell[HeadOf(x, root).req] = NoId
      BY <1>1, <3>1, QueuedTicket
    <3>3. QED
      BY <2>4, <3>2 DEF Same
  <2>8. x.cell = v.cell
    BY <1>1, <2>1, <2>6, <2>7 DEF NoId
  <2>9. QED
    BY <1>1, <2>3, <2>6, <2>8 DEF Admitted
<1>6. ASSUME NEW root \in Busy(u), Overdue(HeadOf(u, root), t), Stands(x, HeadOf(u, root).sequence),
             NEW y \in Queued(u)
      PROVE  /\ y.req \in Admitted(u, x) => MayPass(u, y, HeadOf(u, root))
             /\ Protected(x) /\ y.req = HeadOf(x, x.barrier.root).req
                   => MayPass(u, y, HeadOf(u, root))
  <2> DEFINE w == HeadOf(u, root)
             g == HeadOf(v, root)
             leader == HeadOf(v, b.root)
  <2>1. Stands(v, w.sequence)
    BY <1>1, <1>6, StoodBefore
  <2>2. root \in Busy(v) /\ Same(g, w) /\ root \in Roots
    BY <1>4, <2>1, StandingHead DEF Inv, Busy
  <2>3. /\ y.req \in Admitted(u, v) => MayPass(u, y, w)
        /\ Protected(v) /\ y.req = HeadOf(v, v.barrier.root).req => MayPass(u, y, w)
    BY <1>6, <2>1 DEF Respects
  <2>4. Overdue(g, t)
    <3>1. g \in Waiter /\ w \in Waiter
      BY <2>2, FirstOfLine DEF Inv
    <3>2. /\ g.bypasses \in Nat /\ w.bypasses \in Nat /\ g.bypasses >= w.bypasses
          /\ g.enqueued = w.enqueued /\ MaxBypasses \in Nat
      BY <2>2, <3>1, AdmissionAssumption DEF Same, Waiter
    <3> HIDE DEF g, w
    <3>3. Overdue(w, t)
      BY <1>6 DEF w
    <3>4. QED
      BY <3>2, <3>3 DEF Overdue
  <2>5. /\ b # NoBarrier /\ b.root \in Busy(v) /\ b.sequence = leader.sequence
        /\ y.req = leader.req => MayPass(u, y, w)
    <3>1. CASE Protected(v)
      BY <1>2, <2>3, <3>1 DEF Protected
    <3>2. CASE ~Protected(v)
      <4>1. PICK oldest \in Busy(v) :
               /\ b = [root |-> oldest, sequence |-> HeadOf(v, oldest).sequence]
               /\ \A other \in Busy(v) : Older(HeadOf(v, oldest), HeadOf(v, other))
        BY <1>2, <2>2, <2>4, <3>2
      <4>2. b.root = oldest /\ b.sequence = leader.sequence /\ Older(leader, g)
        BY <2>2, <4>1
      <4>3. b # NoBarrier
        <5>1. oldest \in Roots /\ 1 \in DOMAIN v.roots[oldest]
              /\ HeadOf(v, oldest) = v.roots[oldest][1]
          BY FirstOfLine DEF Busy, Inv
        <5>2. HeadOf(v, oldest).sequence # 0
          BY <5>1 DEF Ordered
        <5>3. QED
          BY <4>1, <5>2 DEF NoBarrier
      <4>4. ASSUME y.req = leader.req PROVE Older(y, w)
        <5>1. Same(leader, y)
          BY <1>4, <4>2, <4>4, SameTicket
        <5>2. /\ leader.enqueued = y.enqueued /\ leader.sequence = y.sequence
              /\ g.enqueued = w.enqueued /\ g.sequence = w.sequence
          BY <2>2, <5>1 DEF Same
        <5>3. Older(leader, g)
          BY <4>2
        <5> HIDE DEF leader, g, w
        <5>4. QED
          BY <5>2, <5>3, Zenon DEF Older
      <4>5. QED
        BY <4>2, <4>3, <4>4 DEF MayPass
    <3>3. QED
      BY <3>1, <3>2
  <2>6. y.req \in Admitted(u, x) => y.req \in Admitted(u, v) \/ y.req = leader.req
    BY <1>1, <2>5 DEF Admitted
  <2>7. Protected(x) /\ y.req = HeadOf(x, x.barrier.root).req => y.req = leader.req
    <3> SUFFICES ASSUME Protected(x) PROVE HeadOf(x, b.root).req = leader.req
      BY <1>1
    <3>1. b.root \in Busy(x) /\ HeadOf(x, b.root).sequence = leader.sequence
      BY <1>1, <2>5 DEF Protected
    <3>2. /\ b.root \in Roots /\ 1 \in DOMAIN x.roots[b.root] /\ 1 \in DOMAIN v.roots[b.root]
          /\ HeadOf(x, b.root) = x.roots[b.root][1] /\ leader = v.roots[b.root][1]
      BY <1>1, <2>5, <3>1, FirstOfLine DEF Busy, Inv
    <3>3. PICK a \in DOMAIN v.roots[b.root] : Same(x.roots[b.root][1], v.roots[b.root][a])
      BY <1>1, <3>2 DEF From, FromLine
    <3>4. v.roots[b.root][a].sequence = v.roots[b.root][1].sequence
      BY <3>1, <3>2, <3>3, Zenon DEF Same
    <3>5. a = 1
      BY <3>2, <3>4 DEF Ordered
    <3>6. QED
      BY <3>2, <3>3, <3>5 DEF Same
  <2>8. QED
    BY <2>3, <2>5, <2>6, <2>7
<1>7. QED
  BY <1>3, <1>4, <1>5, <1>6 DEF Respects, x

(* Queue::drive respects the barrier. *)
LEMMA DriveRespects ==
    ASSUME NEW u, NEW rq, NEW t \in Nat, Inv(u, rq), Ordered(u)
    PROVE  Ordered(Drive(u, t)) /\ Respects(u, Drive(u, t), t)
<1>1. PICK f : /\ Drive(u, t) = f[MaxWaiting + 1] /\ f[0] = Expire(u, t)
               /\ \A n \in 1 .. MaxWaiting + 1 : f[n] = DrivePass(f[n - 1], t)
  BY DriveSteps
<1> DEFINE Holds(n) == Inv(f[n], rq) /\ Ordered(f[n]) /\ Respects(u, f[n], t)
           T == {n \in 0 .. MaxWaiting + 1 : ~Holds(n)}
<1>2. MaxWaiting + 1 \in Nat
  BY AdmissionAssumption
<1>3. T = {}
  <2> SUFFICES ASSUME T # {} PROVE FALSE
    OBVIOUS
  <2>1. PICK n \in T : \A k \in T : n <= k
    <3>1. T \subseteq Nat
      OBVIOUS
    <3> HIDE DEF T
    <3>2. QED
      BY <3>1, LeastMember
  <2>2. Holds(0)
    BY <1>1, ExpireInv, ExpireRespects
  <2>3. n \in 1 .. MaxWaiting + 1 /\ n - 1 \in 0 .. MaxWaiting + 1
    BY <1>2, <2>2
  <2>4. Holds(n - 1)
    BY <2>1, <2>3
  <2>5. f[n] = DrivePass(f[n - 1], t)
    BY <1>1, <2>3
  <2>6. Holds(n)
    BY <2>4, <2>5, DrivePassInv, DrivePassRespects
  <2>7. QED
    BY <2>6
<1>4. Holds(MaxWaiting + 1)
  BY <1>2, <1>3
<1>5. QED
  BY <1>1, <1>4

-----------------------------------------------------------------------------
(* The calls of those who hold something leave the tickets alone. *)
Record(u) ==
    u \in [ledger : {u.ledger}, cooldown_until : {u.cooldown_until},
           generation : {u.generation}, recovery : {u.recovery},
           no_hint_stage : {u.no_hint_stage}, roots : {u.roots}, cursor : {u.cursor},
           sequence : {u.sequence}, barrier : {u.barrier}, cell : {u.cell}]

Aloof(u, v) ==
    /\ Record(v) /\ v.roots = u.roots /\ v.sequence = u.sequence /\ v.barrier = u.barrier
    /\ v.cell = u.cell

(* A queue is a record. *)
LEMMA QueueRecord ==
    ASSUME NEW u, QueueOK(u)
    PROVE  Record(u)
BY DEF QueueOK, QueueType, Record

(* One such call after another. *)
LEMMA AloofTwice ==
    ASSUME NEW u, NEW v, NEW w, Aloof(u, v), Aloof(v, w)
    PROVE  Aloof(u, w)
BY DEF Aloof

(* ReleaseProbe and the cooldown. *)
LEMMA ReleaseAloof ==
    ASSUME NEW u, Record(u), NEW id
    PROVE  Aloof(u, ReleaseProbe(u, id))
<1> DEFINE p == [u.recovery EXCEPT !.probe = NoId]
<1>1. ReleaseProbe(u, id) = u \/ ReleaseProbe(u, id) = [u EXCEPT !.recovery = p]
  BY DEF ReleaseProbe
<1> HIDE DEF p
<1>2. QED
  BY <1>1 DEF Aloof, Record

(* A recovery is armed. *)
LEMMA ArmAloof ==
    ASSUME NEW u, Record(u), NEW t, NEW d, NEW only
    PROVE  Aloof(u, RaiseCooldown(u, t)) /\ Aloof(u, ArmRecovery(u, t, d, only))
<1>1. ASSUME NEW x PROVE Aloof(u, RaiseCooldown(u, x))
  <2> DEFINE n == Later(u.cooldown_until, x)
  <2>1. RaiseCooldown(u, x) = [u EXCEPT !.cooldown_until = n]
    BY DEF RaiseCooldown
  <2> HIDE DEF n
  <2>2. QED
    BY <2>1 DEF Aloof, Record
<1> DEFINE w == RaiseCooldown(u, t + d)
           n == w.generation + 1
           p == [armed |-> TRUE, probe |-> NoId,
                 generation_only |-> only \/ w.recovery.generation_only]
<1>2. ArmRecovery(u, t, d, only) = [w EXCEPT !.generation = n, !.recovery = p]
  BY DEF ArmRecovery
<1>3. Aloof(u, w)
  BY <1>1
<1> HIDE DEF w, n, p
<1>4. Aloof(w, [w EXCEPT !.generation = n, !.recovery = p])
  BY <1>3 DEF Aloof, Record
<1>5. QED
  BY <1>1, <1>2, <1>3, <1>4, AloofTwice

(* Queue::throttle. *)
LEMMA ThrottleAloof ==
    ASSUME NEW u, Record(u), NEW t, NEW g, NEW cost, NEW timing,
           NEW v \in Throttle(u, t, g, cost, timing)
    PROVE  Aloof(u, v)
<1> DEFINE only == IsGeneration(cost)
           W(d) == ArmRecovery(u, t, d, only)
<1>1. \A d : Aloof(u, W(d))
  BY ArmAloof
<1>2. ASSUME NEW d, NEW n PROVE Aloof(u, [W(d) EXCEPT !.no_hint_stage = n])
  <2> DEFINE w == W(d)
  <2>1. Aloof(u, w)
    BY <1>1
  <2> HIDE DEF w
  <2>2. Aloof(w, [w EXCEPT !.no_hint_stage = n])
    BY <2>1 DEF Aloof, Record
  <2>3. QED
    BY <2>1, <2>2, AloofTwice DEF w
<1>3. Aloof(u, StaleThrottle(u, cost))
  <2> DEFINE p == [u.recovery EXCEPT !.generation_only = TRUE]
             s == [u.recovery EXCEPT !.generation_only = TRUE, !.probe = NoId]
             n == u.generation + 1
  <2>1. \/ StaleThrottle(u, cost) = u
        \/ StaleThrottle(u, cost) = [u EXCEPT !.recovery = p]
        \/ StaleThrottle(u, cost) = [u EXCEPT !.recovery = s, !.generation = n]
    BY DEF StaleThrottle, Record
  <2> HIDE DEF p, s, n
  <2>2. Aloof(u, u) /\ Aloof(u, [u EXCEPT !.recovery = p])
    BY DEF Aloof, Record
  <2>3. Aloof(u, [u EXCEPT !.recovery = s, !.generation = n])
    BY DEF Aloof, Record
  <2>4. QED
    BY <2>1, <2>2, <2>3
<1>4. \/ v = StaleThrottle(u, cost)
      \/ v = W(0)
      \/ \E d : v = [W(d) EXCEPT !.no_hint_stage =
                        IF W(d).no_hint_stage < Len(Backoff) THEN W(d).no_hint_stage + 1
                        ELSE W(d).no_hint_stage]
  BY DEF Throttle
<1> HIDE DEF W
<1> DEFINE M(d) == IF W(d).no_hint_stage < Len(Backoff) THEN W(d).no_hint_stage + 1
                   ELSE W(d).no_hint_stage
<1>5. \A d : Aloof(u, [W(d) EXCEPT !.no_hint_stage = M(d)])
  BY <1>2
<1>6. QED
  BY <1>1, <1>3, <1>4, <1>5

(* Hold::headers on the queue. *)
LEMMA HeadersAloof ==
    ASSUME NEW u, Record(u), NEW r, NEW status \in {"ok", "throttled", "other"},
           NEW cooldown, NEW hint
    PROVE  Aloof(u, HeadersQueue(u, r, status, cooldown, hint))
<1> DEFINE cooled == IF cooldown >= 0 THEN RaiseCooldown(u, clock + cooldown) ELSE u
           armed == IF hint = NoHint THEN cooled
                    ELSE ArmRecovery(cooled, clock, hint.delay,
                                     hint.generation_only \/ IsGeneration(CostOf[r]))
           out == HeadersQueue(u, r, status, cooldown, hint)
<1>1. Aloof(u, cooled)
  BY ArmAloof DEF Aloof
<1>2. out = CASE status = "ok" -> Accepted(armed, clock, req[r].id, req[r].generation)
              [] status = "other" -> ReleaseProbe(armed, req[r].id)
              [] status = "throttled" -> armed
  BY DEF HeadersQueue
<1> HIDE DEF cooled, out
<1>3. Aloof(u, armed)
  <2>1. Record(cooled)
    BY <1>1 DEF Aloof
  <2>2. \A t, d, only : Aloof(cooled, ArmRecovery(cooled, t, d, only))
    BY <2>1, ArmAloof
  <2>3. QED
    BY <1>1, <2>2, AloofTwice
<1> HIDE DEF armed
<1>4. Record(armed)
  BY <1>3 DEF Aloof
<1>5. Aloof(armed, Accepted(armed, clock, req[r].id, req[r].generation))
  <2>1. \/ Accepted(armed, clock, req[r].id, req[r].generation) = armed
        \/ Accepted(armed, clock, req[r].id, req[r].generation)
              = [armed EXCEPT !.recovery = NoRecovery, !.no_hint_stage = 1]
    BY DEF Accepted
  <2>2. QED
    BY <1>4, <2>1 DEF Aloof, Record
<1>6. Aloof(armed, ReleaseProbe(armed, req[r].id))
  BY <1>4, ReleaseAloof
<1>7. \/ out = Accepted(armed, clock, req[r].id, req[r].generation)
      \/ out = ReleaseProbe(armed, req[r].id)
      \/ out = armed
  BY <1>2
<1>8. QED
  BY <1>3, <1>5, <1>6, <1>7, AloofTwice DEF out

(* Hold::drop on the queue. *)
LEMMA HoldAloof ==
    ASSUME NEW u, Record(u), NEW r, NEW usage
    PROVE  Aloof(u, Release(u, r, usage))
<1> DEFINE id == req[r].id
           L == IF req[r].phase = "held" THEN LedgerCancel(u.ledger, clock, id)
                ELSE LedgerFinish(u.ledger, clock, id, usage)
           v == [u EXCEPT !.ledger = L]
<1>1. Release(u, r, usage) = ReleaseProbe(v, id)
  BY DEF Release
<1> HIDE DEF L
<1>2. Aloof(u, v)
  BY DEF Aloof, Record
<1> HIDE DEF v
<1>3. Record(v)
  BY <1>2 DEF Aloof
<1>4. Aloof(v, ReleaseProbe(v, id))
  BY <1>3, ReleaseAloof
<1>5. QED
  BY <1>1, <1>2, <1>4, AloofTwice

(* The lines and the barrier are all that their order speaks of. *)
LEMMA AloofOrdered ==
    ASSUME NEW u, NEW v, Ordered(u), v.roots = u.roots, v.sequence = u.sequence,
           v.barrier = u.barrier
    PROVE  Ordered(v)
BY DEF Ordered

(* A step that decides no ticket and gives nobody a hold admits nobody. *)
LEMMA NobodyNew ==
    ASSUME \A s \in Requests : /\ q'.cell[s] > NoId => q'.cell[s] = q.cell[s]
                               /\ req[s].phase = "waiting" => req'[s].phase # "held"
    PROVE  NewlyAdmitted = {}
BY DEF NewlyAdmitted, NoId

(* What a step does to the order of the tickets: it admits nobody, or the  *)
(* ones that a call of Queue::drive admitted.                              *)
Orderly ==
    /\ Ordered(q')
    /\ \/ NewlyAdmitted = {}
       \/ \E d : /\ Respects(q, d, clock) /\ NewlyAdmitted \subseteq Admitted(q, d)
                 /\ \A n \in 1 .. q.sequence : Stands(q', n) => Stands(d, n)

(* A call of someone who does not wait, which leaves the tickets alone. *)
LEMMA AloofStep ==
    ASSUME AdmissionInv, Ordered(q), Aloof(q, q'), NEW r \in Requests, req[r].phase # "waiting",
           NEW x \in Request,
           req' = [req EXCEPT ![r] = x] \/ req' = NotifyWaiters([req EXCEPT ![r] = x])
    PROVE  Orderly
<1>1. req \in [Requests -> Request]
  BY DEF AdmissionInv, Inv
<1>2. \A s \in Requests \ {r} : req'[s].phase = req[s].phase
  BY <1>1, Renewed
<1>3. NewlyAdmitted = {}
  BY <1>2, NobodyNew DEF Aloof
<1>4. QED
  BY <1>3, AloofOrdered DEF Aloof, Orderly

(* The calls of those who hold. *)
LEMMA HoldersQueue ==
    ASSUME AdmissionInv, NEW r \in Requests,
           AbandonRequeue(r) \/ Start(r) \/ Drop(r) \/ Retry(r) \/ Headers(r) \/ Rejected(r)
    PROVE  /\ Aloof(q, q') /\ req[r].phase # "waiting"
           /\ \E x \in Request : \/ req' = [req EXCEPT ![r] = x]
                                 \/ req' = NotifyWaiters([req EXCEPT ![r] = x])
<1>1. /\ Inv(q, req) /\ Record(q) /\ req \in [Requests -> Request] /\ req[r] \in Request
      /\ q.generation \in Nat
  BY QueueRecord, QueueFields DEF AdmissionInv, Inv
<1> DEFINE One(x) == req' = [req EXCEPT ![r] = x] \/ req' = NotifyWaiters([req EXCEPT ![r] = x])
           Called == /\ Aloof(q, q') /\ req[r].phase # "waiting"
                     /\ \E x \in Request : One(x)
<1>2. ASSUME Aloof(q, q'), req[r].phase # "waiting", NEW x \in Request, One(x) PROVE Called
  BY <1>2 DEF One, Called
<1> SUFFICES Called
  BY DEF One, Called
<1> HIDE DEF One, Called
<1>3. CASE AbandonRequeue(r)
  <2>1. q' = q /\ req[r].phase # "waiting" /\ One(Done)
    BY <1>3 DEF AbandonRequeue, One
  <2>2. Aloof(q, q')
    BY <1>1, <2>1 DEF Aloof
  <2>3. QED
    BY <1>2, <2>1, <2>2, DoneRequest
<1>4. CASE Start(r)
  <2> DEFINE L == LedgerStart(q.ledger, clock, req[r].id)
             x == [req[r] EXCEPT !.phase = "sent", !.generation = q.generation]
  <2>1. q' = [q EXCEPT !.ledger = L] /\ req[r].phase # "waiting"
    BY <1>4 DEF Start
  <2> HIDE DEF L
  <2>2. Aloof(q, q')
    BY <1>1, <2>1 DEF Aloof, Record
  <2>3. [req EXCEPT ![r].phase = "sent", ![r].generation = q.generation] = [req EXCEPT ![r] = x]
    BY <1>1
  <2>4. x \in Request
    BY <1>1 DEF Request, HoldPhases
  <2>5. One(x)
    BY <1>4, <2>3 DEF Start, One
  <2>6. QED
    BY <1>2, <2>1, <2>2, <2>4, <2>5
<1>5. CASE Drop(r)
  <2>1. PICK usage : q' = Release(q, r, usage)
    BY <1>5 DEF Drop
  <2>2. req[r].phase # "waiting" /\ One(Done)
    BY <1>5 DEF Drop, One, HoldPhases
  <2>3. QED
    BY <1>1, <1>2, <2>1, <2>2, DoneRequest, HoldAloof
<1>6. CASE Retry(r)
  <2> DEFINE n == req[r].requeues + 1
             b == req[r].replayed \/ req[r].phase = "refused"
             x == [req[r] EXCEPT !.phase = "requeue", !.requeues = n, !.replayed = b]
  <2>1. q' = Release(q, r, NoUsage) /\ req[r].phase # "waiting"
    BY <1>6 DEF Retry
  <2>2. [req EXCEPT ![r].phase = "requeue", ![r].requeues = @ + 1,
                    ![r].replayed = @ \/ req[r].phase = "refused"] = [req EXCEPT ![r] = x]
    BY <1>1
  <2>3. n \in Nat /\ b \in BOOLEAN
    BY <1>1 DEF Request
  <2>4. One(x)
    BY <1>6, <2>2 DEF Retry, One
  <2> HIDE DEF n, b
  <2>5. x \in Request
    BY <1>1, <2>3 DEF Request, HoldPhases
  <2>6. QED
    BY <1>1, <1>2, <2>1, <2>4, <2>5, HoldAloof
<1>7. CASE Headers(r)
  <2>1. PICK a \in Answer, hint \in Hints \cup {NoHint} :
          /\ q' = HeadersQueue(q, r, a.status, a.cooldown, hint)
          /\ req' = NotifyWaiters([req EXCEPT
                 ![r].phase = CASE a.status = "ok" -> "streaming"
                                [] a.status = "other" -> "refused"
                                [] a.status = "throttled" -> "rejecting",
                 ![r].timing = IF a.status = "other" THEN "malformed" ELSE a.timing,
                 ![r].exhausted = hint # NoHint])
    BY <1>7 DEF Headers
  <2>2. a.status \in {"ok", "throttled", "other"} /\ a.timing \in {"valid", "missing", "malformed"}
    BY AdmissionAssumption DEF Answer
  <2> DEFINE p == CASE a.status = "ok" -> "streaming"
                    [] a.status = "other" -> "refused"
                    [] a.status = "throttled" -> "rejecting"
             m == IF a.status = "other" THEN "malformed" ELSE a.timing
             b == hint # NoHint
             x == [req[r] EXCEPT !.phase = p, !.timing = m, !.exhausted = b]
  <2>3. /\ p \in {"refused", "rejecting", "streaming"} /\ b \in BOOLEAN
        /\ m \in {"valid", "missing", "malformed"}
    BY <2>2
  <2>4. req' = NotifyWaiters([req EXCEPT ![r].phase = p, ![r].timing = m, ![r].exhausted = b])
    BY <2>1
  <2>5. Aloof(q, q')
    BY <1>1, <2>1, <2>2, HeadersAloof
  <2> HIDE DEF p, m, b
  <2>6. [req EXCEPT ![r].phase = p, ![r].timing = m, ![r].exhausted = b] = [req EXCEPT ![r] = x]
    BY <1>1
  <2>7. One(x)
    BY <2>4, <2>6 DEF One
  <2>8. x \in Request
    BY <1>1, <2>3 DEF Request, HoldPhases
  <2>9. req[r].phase # "waiting"
    BY <1>7 DEF Headers
  <2>10. QED
    BY <1>2, <2>5, <2>7, <2>8, <2>9
<1>8. CASE Rejected(r)
  <2>1. PICK recognized \in BOOLEAN :
          /\ \E u \in IF recognized /\ ~req[r].exhausted /\ req[r].timing # "malformed"
                      THEN Throttle(q, clock, req[r].generation, CostOf[r],
                                    req[r].timing = "valid")
                      ELSE {q} :
                q' = ReleaseProbe(u, req[r].id)
          /\ req' = NotifyWaiters([req EXCEPT
                 ![r].phase = "refused",
                 ![r].timing = IF recognized THEN @ ELSE "malformed"])
    BY <1>8 DEF Rejected
  <2>2. PICK u \in IF recognized /\ ~req[r].exhausted /\ req[r].timing # "malformed"
                   THEN Throttle(q, clock, req[r].generation, CostOf[r],
                                 req[r].timing = "valid")
                   ELSE {q} :
           q' = ReleaseProbe(u, req[r].id)
    BY <2>1
  <2>3. Aloof(q, u)
    <3>1. CASE u \in Throttle(q, clock, req[r].generation, CostOf[r], req[r].timing = "valid")
      BY <1>1, <3>1, ThrottleAloof
    <3>2. CASE u = q
      BY <1>1, <3>2 DEF Aloof
    <3>3. QED
      BY <2>2, <3>1, <3>2
  <2>4. Record(u)
    BY <2>3 DEF Aloof
  <2>5. Aloof(u, q')
    BY <2>2, <2>4, ReleaseAloof
  <2>6. Aloof(q, q')
    BY <2>3, <2>5, AloofTwice
  <2> DEFINE m == IF recognized THEN req[r].timing ELSE "malformed"
             x == [req[r] EXCEPT !.phase = "refused", !.timing = m]
  <2>7. [req EXCEPT ![r].phase = "refused", ![r].timing = IF recognized THEN @ ELSE "malformed"]
          = [req EXCEPT ![r] = x]
    BY <1>1
  <2>8. m \in {"valid", "missing", "malformed"}
    BY <1>1 DEF Request
  <2>9. One(x)
    BY <2>1, <2>7 DEF One
  <2> HIDE DEF m
  <2>10. x \in Request
    BY <1>1, <2>8 DEF Request, HoldPhases
  <2>11. req[r].phase # "waiting"
    BY <1>8 DEF Rejected
  <2>12. QED
    BY <1>2, <2>6, <2>9, <2>10, <2>11
<1>9. QED
  BY <1>3, <1>4, <1>5, <1>6, <1>7, <1>8

(* So they keep the tickets in order. *)
LEMMA HolderOrder ==
    ASSUME AdmissionInv, Ordered(q), NEW r \in Requests,
           AbandonRequeue(r) \/ Start(r) \/ Drop(r) \/ Retry(r) \/ Headers(r) \/ Rejected(r)
    PROVE  Orderly
<1>1. /\ Aloof(q, q') /\ req[r].phase # "waiting"
      /\ \E x \in Request : \/ req' = [req EXCEPT ![r] = x]
                            \/ req' = NotifyWaiters([req EXCEPT ![r] = x])
  BY HoldersQueue
<1>2. PICK x \in Request : \/ req' = [req EXCEPT ![r] = x]
                           \/ req' = NotifyWaiters([req EXCEPT ![r] = x])
  BY <1>1
<1>3. QED
  BY <1>1, <1>2, AloofStep

(* Ticket::drop takes a ticket out of its line and may move the barrier. *)
LEMMA AbandonOrder ==
    ASSUME AdmissionInv, Ordered(q), NEW r \in Requests, Abandon(r)
    PROVE  Orderly
<1> DEFINE home == RootOf[r]
           line == Without(q.roots[home], {r})
           R == [q.roots EXCEPT ![home] = line]
           C == [q.cell EXCEPT ![r] = NoId]
           left == [q EXCEPT !.roots = R, !.cell = C]
           id == q.cell[r]
           L == LedgerCancel(q.ledger, clock, id)
           gone == [left EXCEPT !.ledger = L]
           v == IF id > NoId THEN ReleaseProbe(gone, id) ELSE left
<1>1. /\ clock \in Nat /\ Inv(q, req) /\ req \in [Requests -> Request]
      /\ q \in QueueType({q.ledger}) /\ LedgerOK(q.ledger)
      /\ q.roots \in [Roots -> Seq(Waiter)] /\ q.cell \in [Requests -> Nat \cup {Expired}]
  BY QueueFields DEF AdmissionInv, Inv, QueueOK
<1>2. /\ req[r].phase = "waiting" /\ q' = CancelTicket(q, clock, r)
      /\ req' = NotifyWaiters([req EXCEPT ![r] = Done])
  BY DEF Abandon
<1>3. q' = Protect(v, clock)
  <2>1. left = [q EXCEPT !.roots[RootOf[r]] = Without(@, {r}), !.cell[r] = NoId]
    BY <1>1 DEF QueueType
  <2>2. gone = [left EXCEPT !.ledger = LedgerCancel(@, clock, id)]
    BY <1>1 DEF QueueType
  <2>3. QED
    BY <1>2, <2>1, <2>2 DEF CancelTicket
<1>4. /\ home \in Roots /\ q.roots[home] \in Seq(Waiter) /\ Distinct(q.roots[home])
  BY <1>1, LinesDistinct, AdmissionAssumption
<1>5. line \in Seq(Waiter) /\ Distinct(line) /\ FromLine(line, q.roots[home])
  <2>1. Sifted(line, q.roots[home], {r}, Len(q.roots[home]))
    BY <1>4, WithoutSifts
  <2> HIDE DEF line, home
  <2>2. QED
    BY <1>4, <2>1, SiftedFrom DEF Sifted
<1> HIDE DEF line, home
<1>6. /\ R \in [Roots -> Seq(Waiter)] /\ C \in [Requests -> Nat \cup {Expired}]
      /\ \A root \in Roots : FromLine(R[root], q.roots[root]) /\ Distinct(R[root])
  <2>1. ASSUME NEW root \in Roots PROVE FromLine(R[root], q.roots[root]) /\ Distinct(R[root])
    <3>1. CASE root = home
      BY <1>1, <1>5, <3>1
    <3>2. CASE root # home
      <4>1. R[root] = q.roots[root]
        BY <1>1, <3>2
      <4>2. QED
        BY <1>1, <4>1, SameLine, LinesDistinct
    <3>3. QED
      BY <3>1, <3>2
  <2>2. QED
    BY <1>1, <1>4, <1>5, <2>1 DEF NoId
<1> HIDE DEF R, C
<1>7. /\ QueueOK(left) /\ left.ledger = q.ledger /\ left.roots = R
      /\ left.sequence = q.sequence /\ left.barrier = q.barrier
  BY <1>1, <1>6 DEF QueueOK, QueueType
<1>8. Ordered(left)
  <2>1. From(left, q)
    BY <1>6, <1>7 DEF From
  <2> HIDE DEF left
  <2>2. QED
    BY <1>6, <1>7, <2>1, FromOrdered
<1>9. ASSUME id > NoId PROVE LedgerOK(L)
  <2>1. r \in Owner(q, req) /\ IdOf(q, req, r) = id
    BY <1>9 DEF Owner, IdOf
  <2>2. id \in Active(q.ledger) /\ ~q.ledger.entries[id].started
    BY <1>1, <1>2, <2>1 DEF Inv, Owned, HoldPhases
  <2>3. CanStart(q.ledger, id)
    BY <2>2 DEF CanStart, Active
  <2>4. QED
    BY <1>1, <2>3, CancelKeeps
<1>10. QueueOK(v) /\ Ordered(v)
  <2>1. CASE id > NoId
    <3> HIDE DEF L, left, id
    <3>1. /\ QueueOK(gone) /\ gone.roots = left.roots /\ gone.sequence = left.sequence
          /\ gone.barrier = left.barrier
      BY <1>7, <1>9, <2>1 DEF QueueOK, QueueType
    <3>2. Ordered(gone)
      BY <1>8, <3>1, AloofOrdered
    <3> HIDE DEF gone
    <3>3. QueueOK(ReleaseProbe(gone, id)) /\ Aloof(gone, ReleaseProbe(gone, id))
      BY <3>1, ReleaseFields, ReleaseAloof, QueueRecord
    <3>4. Ordered(ReleaseProbe(gone, id))
      BY <3>2, <3>3, AloofOrdered DEF Aloof
    <3>5. QED
      BY <2>1, <3>3, <3>4
  <2>2. CASE ~(id > NoId)
    BY <1>7, <1>8, <2>2
  <2>3. QED
    BY <2>1, <2>2
<1> HIDE DEF v
<1>11. Ordered(q')
  BY <1>1, <1>3, <1>10, ProtectOrdered
<1>12. NewlyAdmitted = {}
  <2>1. /\ Inv(CancelTicket(q, clock, r), [req EXCEPT ![r] = Done])
        /\ Aside(q, CancelTicket(q, clock, r), r)
    BY <1>1, <1>2, CancelInv
  <2>2. /\ req'[r].phase = "done" /\ [req EXCEPT ![r] = Done][r].phase = "done"
        /\ \A s \in Requests \ {r} : req'[s].phase = req[s].phase
    BY <1>1, <1>2, Renewed, DoneRequest
  <2>3. q'.cell[r] = NoId /\ \A s \in Requests \ {r} : q'.cell[s] = q.cell[s]
    BY <1>2, <2>1, <2>2 DEF Inv, Lined, Aside
  <2>4. \A s \in Requests : /\ q'.cell[s] > NoId => q'.cell[s] = q.cell[s]
                            /\ req[s].phase = "waiting" => req'[s].phase # "held"
    BY <2>2, <2>3 DEF NoId
  <2>5. QED
    BY <2>4, NobodyNew
<1>13. QED
  BY <1>11, <1>12 DEF Orderly

(* Time, and reading the status. *)
LEMMA BackgroundOrder ==
    ASSUME AdmissionInv, Ordered(q), Tick \/ Status \/ UNCHANGED vars
    PROVE  Orderly
<1>1. Record(q)
  BY QueueRecord DEF AdmissionInv, Inv
<1>2. req' = req /\ Aloof(q, q')
  <2>1. CASE Status
    <3> DEFINE L == LedgerAdvance(q.ledger, clock)
    <3>1. q' = [q EXCEPT !.ledger = L] /\ req' = req
      BY <2>1 DEF Status
    <3> HIDE DEF L
    <3>2. QED
      BY <1>1, <3>1 DEF Aloof, Record
  <2>2. CASE Tick \/ UNCHANGED vars
    BY <1>1, <2>2 DEF Tick, vars, Aloof
  <2>3. QED
    BY <2>1, <2>2
<1>3. NewlyAdmitted = {}
  BY <1>2, NobodyNew DEF Aloof
<1>4. QED
  BY <1>2, <1>3, AloofOrdered DEF Aloof, Orderly

-----------------------------------------------------------------------------
(* A new ticket is the last of its line and younger than every other. *)
LEMMA EnqueueOrder ==
    ASSUME NEW u, NEW rq, Inv(u, rq), Ordered(u), NEW r \in Requests,
           NEW enqueued \in Nat, NEW deadline \in Nat
    PROVE  LET v == Enqueue(u, r, enqueued, deadline)
           IN  /\ Ordered(v) /\ v.cell = u.cell
               /\ \A n \in 1 .. u.sequence : Stands(v, n) => Stands(u, n)
<1> DEFINE home == RootOf[r]
           n == u.sequence + 1
           w == [req |-> r, enqueued |-> enqueued, deadline |-> deadline,
                 sequence |-> n, bypasses |-> 0]
           line == Append(u.roots[home], w)
           R == [u.roots EXCEPT ![home] = line]
           v == Enqueue(u, r, enqueued, deadline)
           last == Len(u.roots[home]) + 1
<1>1. /\ u \in QueueType({u.ledger}) /\ u.sequence \in Nat
      /\ u.roots \in [Roots -> Seq(Waiter)]
  BY QueueFields DEF Inv, QueueOK
<1>2. v = [u EXCEPT !.sequence = n, !.roots = R]
  BY <1>1 DEF Enqueue, QueueType
<1>3. home \in Roots /\ n \in Nat
  BY <1>1, AdmissionAssumption
<1> HIDE DEF home
<1>4. w \in Waiter /\ w.sequence = n
  BY <1>3 DEF Waiter
<1> HIDE DEF w
<1>5. /\ DOMAIN line = (DOMAIN u.roots[home]) \cup {last} /\ line[last] = w
      /\ last \notin DOMAIN u.roots[home]
      /\ \A k \in DOMAIN u.roots[home] : line[k] = u.roots[home][k]
  <2>1. u.roots[home] \in Seq(Waiter)
    BY <1>1, <1>3
  <2>2. /\ DOMAIN line = 1 .. last /\ DOMAIN u.roots[home] = 1 .. Len(u.roots[home])
        /\ Len(u.roots[home]) \in Nat /\ line[last] = w
        /\ \A k \in 1 .. Len(u.roots[home]) : line[k] = u.roots[home][k]
    BY <1>4, <2>1
  <2> HIDE DEF line
  <2>3. QED
    BY <2>2
<1> HIDE DEF line, last
<1>6. R[home] = line /\ \A root \in Roots \ {home} : R[root] = u.roots[root]
  BY <1>1, <1>3
<1> HIDE DEF R, v
<1>7. /\ v.roots = R /\ v.sequence = n /\ v.barrier = u.barrier /\ v.cell = u.cell
  BY <1>1, <1>2 DEF QueueType
<1>8. ASSUME NEW root \in Roots, NEW k \in DOMAIN v.roots[root]
      PROVE  \/ /\ k \in DOMAIN u.roots[root] /\ v.roots[root][k] = u.roots[root][k]
                /\ v.roots[root][k].sequence \in 1 .. u.sequence
             \/ root = home /\ k = last /\ v.roots[root][k].sequence = n
  BY <1>4, <1>5, <1>6, <1>7 DEF Ordered
<1>9. u.barrier.sequence \in 0 .. u.sequence /\ n \notin 0 .. u.sequence /\ n = u.sequence + 1
  BY <1>1 DEF Ordered
<1> HIDE DEF n
<1>10. Ordered(v)
  <2>1. v.barrier.sequence \in 0 .. v.sequence
    BY <1>1, <1>7, <1>9
  <2>2. ASSUME NEW root \in Roots, NEW k \in DOMAIN v.roots[root]
        PROVE  /\ v.roots[root][k].sequence \in 1 .. v.sequence
               /\ v.roots[root][k].sequence = v.barrier.sequence => root = v.barrier.root /\ k = 1
    <3>1. CASE k \in DOMAIN u.roots[root] /\ v.roots[root][k] = u.roots[root][k]
      BY <1>1, <1>7, <1>9, <3>1 DEF Ordered
    <3>2. CASE v.roots[root][k].sequence = n
      BY <1>1, <1>7, <1>9, <3>2
    <3>3. QED
      BY <1>8, <3>1, <3>2
  <2>3. ASSUME NEW root \in Roots, NEW other \in Roots, NEW k \in DOMAIN v.roots[root],
               NEW j \in DOMAIN v.roots[other],
               v.roots[root][k].sequence = v.roots[other][j].sequence
        PROVE  root = other /\ k = j
    <3>1. CASE v.roots[root][k].sequence = n
      <4>1. n \notin 1 .. u.sequence /\ v.roots[other][j].sequence = n
        BY <1>1, <1>9, <2>3, <3>1
      <4>2. root = home /\ k = last
        BY <1>8, <3>1, <4>1
      <4>3. other = home /\ j = last
        BY <1>8, <4>1
      <4>4. QED
        BY <4>2, <4>3
    <3>2. CASE v.roots[root][k].sequence # n
      <4>1. /\ k \in DOMAIN u.roots[root] /\ v.roots[root][k] = u.roots[root][k]
            /\ j \in DOMAIN u.roots[other] /\ v.roots[other][j] = u.roots[other][j]
        BY <1>8, <2>3, <3>2
      <4>2. QED
        BY <2>3, <4>1 DEF Ordered
    <3>3. QED
      BY <3>1, <3>2
  <2>4. QED
    BY <2>1, <2>2, <2>3 DEF Ordered
<1>11. ASSUME NEW m \in 1 .. u.sequence, Stands(v, m) PROVE Stands(u, m)
  <2>1. PICK root \in Roots : \E k \in DOMAIN v.roots[root] : v.roots[root][k].sequence = m
    BY <1>11 DEF Stands
  <2>2. PICK k \in DOMAIN v.roots[root] : v.roots[root][k].sequence = m
    BY <2>1
  <2>3. k \in DOMAIN u.roots[root] /\ v.roots[root][k] = u.roots[root][k]
    BY <1>8, <1>9, <2>2
  <2>4. QED
    BY <2>2, <2>3 DEF Stands
<1>12. QED
  BY <1>7, <1>10, <1>11 DEF v

(* The calls of Queue::drive, by one who arrives or who waits. *)
LEMMA AcquireOrder ==
    ASSUME AdmissionInv, Ordered(q), NEW r \in Requests, req[r].phase \in {"idle", "requeue"},
           NEW enqueued \in Nat, NEW deadline \in Nat, AcquireAt(r, enqueued, deadline)
    PROVE  Orderly
<1> DEFINE d == Drive(q, clock)
           rest == IF QLen(d) # QLen(q) THEN NotifyWaiters(req) ELSE req
           x == [req[r] EXCEPT !.phase = "waiting", !.id = NoId, !.generation = 0,
                               !.exhausted = FALSE, !.timing = "missing",
                               !.enqueued = enqueued, !.deadline = deadline, !.wake = Never]
<1>1. /\ clock \in Nat /\ Inv(q, req) /\ req \in [Requests -> Request] /\ req[r] \in Request
      /\ q.sequence \in Nat
  BY QueueFields DEF AdmissionInv, Inv
<1>2. Inv(d, req) /\ Ordered(d) /\ Respects(q, d, clock)
  BY <1>1, DriveInv, DriveRespects
<1>3. x \in Request /\ x.phase = "waiting"
  BY <1>1 DEF Request, NoId, Never
<1>4. [req EXCEPT ![r].phase = "waiting", ![r].id = NoId, ![r].generation = 0,
                  ![r].exhausted = FALSE, ![r].timing = "missing",
                  ![r].enqueued = enqueued, ![r].deadline = deadline,
                  ![r].wake = Never] = [req EXCEPT ![r] = x]
  BY <1>1
<1> HIDE DEF x
<1>5. \/ q' = q /\ req' = [req EXCEPT ![r] = Done]
      \/ q' = d /\ req' = [rest EXCEPT ![r] = Done]
      \/ q' = Enqueue(d, r, enqueued, deadline) /\ req' = NotifyWaiters([req EXCEPT ![r] = x])
  BY <1>4 DEF AcquireAt
<1>6. req'[r].phase # "held" /\ \A s \in Requests \ {r} : req'[s].phase = req[s].phase
  <2>1. CASE q' = Enqueue(d, r, enqueued, deadline) /\ req' = NotifyWaiters([req EXCEPT ![r] = x])
    BY <1>1, <1>3, <2>1, Renewed
  <2>2. CASE req' = [req EXCEPT ![r] = Done]
    BY <1>1, <2>2, Renewed, DoneRequest
  <2>3. CASE req' = [NotifyWaiters(req) EXCEPT ![r] = Done]
    BY <1>1, <2>3, Renewed, DoneRequest
  <2>4. QED
    BY <1>5, <2>1, <2>2, <2>3
<1> HIDE DEF d, rest
<1>7. CASE q' = q
  <2>1. NewlyAdmitted = {}
    BY <1>6, <1>7, NobodyNew
  <2>2. QED
    BY <1>7, <2>1 DEF Orderly
<1>8. ASSUME q'.cell = d.cell PROVE NewlyAdmitted \subseteq Admitted(q, d)
  BY <1>6, <1>8 DEF NewlyAdmitted, Admitted
<1>9. CASE q' = d
  BY <1>2, <1>8, <1>9 DEF Orderly
<1>10. CASE q' = Enqueue(d, r, enqueued, deadline)
  <2>1. /\ Ordered(q') /\ q'.cell = d.cell
        /\ \A n \in 1 .. d.sequence : Stands(q', n) => Stands(d, n)
    BY <1>2, <1>10, EnqueueOrder
  <2>2. d.sequence = q.sequence
    BY <1>2 DEF Respects, From
  <2>3. QED
    BY <1>2, <1>8, <2>1, <2>2 DEF Orderly
<1>11. QED
  BY <1>5, <1>7, <1>9, <1>10

(* One turn of a waiter's loop. *)
LEMMA PollOrder ==
    ASSUME AdmissionInv, Ordered(q), NEW r \in Requests, Poll(r)
    PROVE  Orderly
<1> DEFINE d == Drive(q, clock)
           C == [d.cell EXCEPT ![r] = NoId]
           outcome == d.cell[r]
<1>1. /\ clock \in Nat /\ Inv(q, req) /\ req \in [Requests -> Request] /\ req[r] \in Request
      /\ req[r].phase = "waiting"
  BY DEF AdmissionInv, Inv, Poll, CanPoll
<1>2. Inv(d, req) /\ Ordered(d) /\ Respects(q, d, clock)
  BY <1>1, DriveInv, DriveRespects
<1>3. q' = [d EXCEPT !.cell[r] = NoId]
  BY DEF Poll
<1> DEFINE held == [req[r] EXCEPT !.phase = "held", !.id = outcome,
                                  !.woken = FALSE, !.wake = Never]
           asleep == [req[r] EXCEPT !.woken = FALSE, !.wake = WakeAt(d, clock)]
<1>4. \/ req' = NotifyWaiters([req EXCEPT ![r] = Done])
      \/ /\ outcome # Expired /\ outcome # NoId
         /\ req' = NotifyWaiters([req EXCEPT ![r].phase = "held", ![r].id = outcome,
                                             ![r].woken = FALSE, ![r].wake = Never])
      \/ /\ outcome = NoId
         /\ \/ req' = NotifyWaiters([req EXCEPT ![r].woken = FALSE, ![r].wake = WakeAt(d, clock)])
            \/ req' = [req EXCEPT ![r].woken = FALSE, ![r].wake = WakeAt(d, clock)]
  BY DEF Poll
<1> HIDE DEF d
<1>5. /\ d \in QueueType({d.ledger}) /\ d.cell \in [Requests -> Nat \cup {Expired}]
  BY <1>2, QueueFields DEF Inv, QueueOK
<1>6. /\ q'.cell = C /\ q'.roots = d.roots /\ q'.sequence = d.sequence /\ q'.barrier = d.barrier
  BY <1>3, <1>5 DEF QueueType
<1>7. /\ [req EXCEPT ![r].phase = "held", ![r].id = outcome, ![r].woken = FALSE, ![r].wake = Never]
           = [req EXCEPT ![r] = held]
      /\ [req EXCEPT ![r].woken = FALSE, ![r].wake = WakeAt(d, clock)]
           = [req EXCEPT ![r] = asleep]
  BY <1>1
<1>8. /\ outcome \in Nat => held \in Request
      /\ outcome = NoId => asleep \in Request /\ asleep.phase = "waiting"
  <2>1. WakeAt(d, clock) \in Nat
    BY <1>1, <1>2, WakeAtNat DEF Inv
  <2>2. QED
    BY <1>1, <2>1 DEF Request, Never, HoldPhases
<1>9. outcome \in Nat \cup {Expired}
  BY <1>5
<1> HIDE DEF C, outcome, held, asleep
<1>10. /\ \A s \in Requests \ {r} : req'[s].phase = req[s].phase
       /\ req'[r].phase = "held" => outcome > NoId
  <2>1. CASE req' = NotifyWaiters([req EXCEPT ![r] = Done])
    BY <1>1, <2>1, Renewed, DoneRequest
  <2>2. CASE /\ outcome # Expired /\ outcome # NoId
             /\ req' = NotifyWaiters([req EXCEPT ![r] = held])
    <3>1. outcome \in Nat /\ outcome > NoId
      BY <1>9, <2>2 DEF NoId, Expired
    <3>2. QED
      BY <1>1, <1>8, <2>2, <3>1, Renewed
  <2>3. CASE /\ outcome = NoId
             /\ \/ req' = NotifyWaiters([req EXCEPT ![r] = asleep])
                \/ req' = [req EXCEPT ![r] = asleep]
    BY <1>1, <1>8, <2>3, Renewed
  <2>4. QED
    BY <1>4, <1>7, <2>1, <2>2, <2>3
<1>11. Ordered(q')
  BY <1>2, <1>6, AloofOrdered
<1>12. NewlyAdmitted \subseteq Admitted(q, d)
  <2>1. C[r] = NoId /\ \A s \in Requests \ {r} : C[s] = d.cell[s]
    BY <1>5 DEF C
  <2>2. ASSUME NEW s \in Requests, q.cell[s] = NoId, q'.cell[s] > NoId PROVE d.cell[s] > NoId
    BY <1>6, <2>1, <2>2 DEF NoId
  <2>3. ASSUME NEW s \in Requests, req[s].phase = "waiting", req'[s].phase = "held"
        PROVE  d.cell[s] > NoId
    BY <1>10, <2>3 DEF outcome
  <2>4. QED
    BY <2>2, <2>3 DEF NewlyAdmitted, Admitted
<1>13. \A n : Stands(q', n) => Stands(d, n)
  BY <1>6 DEF Stands
<1>14. QED
  BY <1>2, <1>11, <1>12, <1>13 DEF Orderly

(* Every step keeps the tickets in their order and respects the barrier. *)
LEMMA OrderStep ==
    ASSUME AdmissionInv, Ordered(q), [Next]_vars
    PROVE  Orderly
<1>1. CASE Tick \/ Status \/ UNCHANGED vars
  BY <1>1, BackgroundOrder
<1>2. ASSUME NEW r \in Requests, Acquire(r) PROVE Orderly
  <2>1. /\ req[r].phase = "idle" /\ AcquireAt(r, clock, clock + WaitOf[r]) /\ clock \in Nat
        /\ clock + WaitOf[r] \in Nat
    BY <1>2, AdmissionAssumption DEF Acquire, AdmissionInv
  <2>2. QED
    BY <2>1, AcquireOrder
<1>3. ASSUME NEW r \in Requests, Reacquire(r) PROVE Orderly
  <2>1. req[r].phase = "requeue" /\ AcquireAt(r, req[r].enqueued, req[r].deadline)
    BY <1>3 DEF Reacquire
  <2>2. req[r].enqueued \in Nat /\ req[r].deadline \in Nat
    BY DEF AdmissionInv, Inv, Request
  <2>3. QED
    BY <2>1, <2>2, AcquireOrder
<1>4. QED
  BY <1>1, <1>2, <1>3, PollOrder, AbandonOrder, HolderOrder DEF Next

(* A ticket is queued when its number stands. *)
LEMMA QueuedStands ==
    ASSUME NEW w, StillQueued(w)
    PROVE  Stands(q', w.sequence)
BY DEF StillQueued, Queued, Range, Stands

(* A step that is orderly respects the barrier. *)
LEMMA OrderlyRespects ==
    ASSUME AdmissionInv, Ordered(q), Orderly
    PROVE  /\ Protected(q) /\ StillQueued(HeadOf(q, q.barrier.root)) => NewlyAdmitted = {}
           /\ \A root \in Busy(q) :
                LET w == HeadOf(q, root)
                IN  /\ w.bypasses >= MaxBypasses \/ clock >= w.enqueued + MaxAge
                    /\ StillQueued(w)
                    => \A v \in Queued(q) : v.req \in NewlyAdmitted =>
                           \/ Older(v, w)
                           \/ Protected(q) /\ v = HeadOf(q, q.barrier.root)
<1>1. CASE NewlyAdmitted = {}
  BY <1>1
<1>2. ASSUME NEW d, Respects(q, d, clock), NewlyAdmitted \subseteq Admitted(q, d),
             \A n \in 1 .. q.sequence : Stands(q', n) => Stands(d, n)
      PROVE  /\ Protected(q) /\ StillQueued(HeadOf(q, q.barrier.root)) => NewlyAdmitted = {}
             /\ \A root \in Busy(q) :
                  LET w == HeadOf(q, root)
                  IN  /\ Overdue(w, clock) /\ StillQueued(w)
                      => \A v \in Queued(q) : v.req \in NewlyAdmitted =>
                             \/ Older(v, w)
                             \/ Protected(q) /\ v = HeadOf(q, q.barrier.root)
  <2>1. ASSUME NEW root \in Busy(q), StillQueued(HeadOf(q, root))
        PROVE  Stands(d, HeadOf(q, root).sequence)
    <3>1. /\ root \in Roots /\ 1 \in DOMAIN q.roots[root]
          /\ HeadOf(q, root) = q.roots[root][1]
      BY FirstOfLine DEF AdmissionInv, Inv, Busy
    <3>2. HeadOf(q, root).sequence \in 1 .. q.sequence
      BY <3>1 DEF Ordered
    <3>3. QED
      BY <1>2, <2>1, <3>2, QueuedStands
  <2>2. ASSUME Protected(q), StillQueued(HeadOf(q, q.barrier.root)) PROVE NewlyAdmitted = {}
    <3>1. q.barrier.root \in Busy(q)
      BY <2>2 DEF Protected
    <3>2. Stands(d, HeadOf(q, q.barrier.root).sequence)
      BY <2>1, <2>2, <3>1
    <3>3. Admitted(q, d) = {}
      BY <1>2, <2>2, <3>2 DEF Respects
    <3>4. QED
      BY <1>2, <3>3
  <2>3. ASSUME NEW root \in Busy(q), Overdue(HeadOf(q, root), clock), StillQueued(HeadOf(q, root)),
               NEW v \in Queued(q), v.req \in NewlyAdmitted
        PROVE  MayPass(q, v, HeadOf(q, root))
    <3>1. Stands(d, HeadOf(q, root).sequence)
      BY <2>1, <2>3
    <3>2. v.req \in Admitted(q, d)
      BY <1>2, <2>3
    <3>3. QED
      BY <1>2, <2>3, <3>1, <3>2 DEF Respects
  <2>4. QED
    BY <2>2, <2>3 DEF MayPass
<1>3. QED
  BY <1>1, <1>2 DEF Orderly, Overdue

(* At first nobody waits. *)
LEMMA InitOrdered ==
    ASSUME Init
    PROVE  Ordered(q)
<1>1. q.roots = [root \in Roots |-> <<>>] /\ q.sequence = 0 /\ q.barrier = NoBarrier
  BY DEF Init, QueueNew
<1>2. \A root \in Roots : DOMAIN q.roots[root] = {}
  BY <1>1
<1>3. QED
  BY <1>1, <1>2 DEF Ordered, NoBarrier

(* No two tickets ever have the same number, and the barrier names the     *)
(* head of its line or a ticket that is gone.                              *)
THEOREM AdmissionOrdered == Spec => []Ordered(q)
<1>1. ASSUME AdmissionInv, Ordered(q), [Next]_vars PROVE Ordered(q)'
  BY <1>1, OrderStep DEF Orderly
<1>2. Init => Ordered(q)
  BY InitOrdered
<1>3. QED
  BY <1>1, <1>2, AdmissionInvariant, PTL DEF Spec

(* While the protected head waits, no call of Queue::drive admits anybody  *)
(* else.                                                                   *)
THEOREM AdmissionBarrierExclusive == Spec => BarrierExclusive
<1>1. ASSUME AdmissionInv, Ordered(q), [Next]_vars
      PROVE  Protected(q) /\ StillQueued(HeadOf(q, q.barrier.root)) => NewlyAdmitted = {}
  BY <1>1, OrderStep, OrderlyRespects
<1>2. QED
  BY <1>1, AdmissionInvariant, AdmissionOrdered, PTL DEF Spec, BarrierExclusive

(* An overdue head is passed only by requests older than itself and by the *)
(* head protected before it, in however many passes one call admits them.  *)
THEOREM AdmissionOnlyOlderPass == Spec => OnlyOlderPass
<1> DEFINE Passed ==
        \A root \in Busy(q) :
           LET w == HeadOf(q, root)
           IN  /\ w.bypasses >= MaxBypasses \/ clock >= w.enqueued + MaxAge
               /\ StillQueued(w)
               => \A v \in Queued(q) : v.req \in NewlyAdmitted =>
                      \/ Older(v, w)
                      \/ Protected(q) /\ v = HeadOf(q, q.barrier.root)
<1>1. ASSUME AdmissionInv, Ordered(q), [Next]_vars PROVE Passed
  BY <1>1, OrderStep, OrderlyRespects
<1>2. OnlyOlderPass <=> [][Passed]_vars
  BY DEF OnlyOlderPass
<1> HIDE DEF Passed
<1>3. QED
  BY <1>1, <1>2, AdmissionInvariant, AdmissionOrdered, PTL DEF Spec

-----------------------------------------------------------------------------
(* The lengths of the lines. *)
LensOf(u) == [root \in Roots |-> Len(u.roots[root])]

(* There are finitely many roots. *)
LEMMA RootsFinite == IsFiniteSet(Roots)
<1>1. 0 \in Int /\ NRoots - 1 \in Int
  BY AdmissionAssumption
<1>2. IsFiniteSet(0 .. NRoots - 1)
  BY <1>1, FS_Interval
<1>3. QED
  BY <1>2 DEF Roots

(* Queue::len is a sum over the roots' lines. *)
LEMMA QLenSum ==
    ASSUME NEW u
    PROVE  QLen(u) = Sum(LensOf(u), Roots)
<1> DEFINE f == LensOf(u)
           h == CHOOSE iter : iter = [s \in SUBSET Roots |->
                   IF s = {} THEN 0
                   ELSE Len(u.roots[CHOOSE i \in s : TRUE])
                          + iter[s \ {CHOOSE i \in s : TRUE}]]
<1>1. QLen(u) = h[Roots]
  BY Zenon DEF QLen, MapThenSumSet, MapThenFoldSet
<1>2. \A s \in SUBSET Roots : s # {} => f[First(s)] = Len(u.roots[First(s)])
  BY FirstIn DEF LensOf
<1>3. PICK g : Solves(g, f, Roots)
  BY SolutionExists, RootsFinite
<1> HIDE DEF f
<1>4. g = [s \in SUBSET Roots |->
             IF s = {} THEN 0 ELSE Len(u.roots[First(s)]) + g[s \ {First(s)}]]
  BY <1>2, <1>3, Zenon DEF Solves
<1>5. h = [s \in SUBSET Roots |->
             IF s = {} THEN 0 ELSE Len(u.roots[First(s)]) + h[s \ {First(s)}]]
  BY Zenon, <1>4 DEF First
<1> HIDE DEF h
<1>6. Solves(h, f, Roots)
  BY <1>2, <1>5, Zenon DEF Solves
<1>7. QED
  BY <1>1, <1>6, SumSolves, RootsFinite DEF f

(* It is a number. *)
LEMMA QLenNat ==
    ASSUME NEW u, u.roots \in [Roots -> Seq(Waiter)]
    PROVE  QLen(u) \in Nat
<1>1. \A root \in Roots : LensOf(u)[root] \in Nat
  BY DEF LensOf
<1>2. QED
  BY <1>1, RootsFinite, SumNat, QLenSum

(* It counts tickets. *)
LEMMA QLenSame ==
    ASSUME NEW u, NEW v, \A root \in Roots : Len(v.roots[root]) = Len(u.roots[root])
    PROVE  QLen(v) = QLen(u)
<1>1. \A root \in Roots : LensOf(v)[root] = LensOf(u)[root]
  BY DEF LensOf
<1>2. QED
  BY <1>1, RootsFinite, SumSame, QLenSum

(* Lines that are no longer make a queue that is no longer, and shorter by *)
(* what any one of them is.                                                *)
LEMMA QLenLess ==
    ASSUME NEW u, NEW v, u.roots \in [Roots -> Seq(Waiter)], v.roots \in [Roots -> Seq(Waiter)],
           \A root \in Roots : Len(v.roots[root]) <= Len(u.roots[root])
    PROVE  /\ QLen(u) \in Nat /\ QLen(v) \in Nat /\ QLen(v) <= QLen(u)
           /\ \A root \in Roots : QLen(v) + Len(u.roots[root]) <= QLen(u) + Len(v.roots[root])
<1>1. \A root \in Roots : /\ LensOf(u)[root] = Len(u.roots[root]) /\ LensOf(u)[root] \in Nat
                          /\ LensOf(v)[root] = Len(v.roots[root]) /\ LensOf(v)[root] \in Nat
  BY DEF LensOf
<1>2. QED
  BY <1>1, RootsFinite, SumLess, QLenSum

(* Nobody in line is past its deadline. *)
Timely(u, t) ==
    \A root \in Roots : \A k \in DOMAIN u.roots[root] : t < u.roots[root][k].deadline

(* The queue as a pass of drive looks at it at t: protected, its ledger    *)
(* advanced.                                                               *)
BarrierAt(u, t) ==
    LET oldest == CHOOSE root \in Busy(u) :
                      \A other \in Busy(u) : Older(HeadOf(u, root), HeadOf(u, other))
    IN  IF Protected(u) THEN u.barrier
        ELSE IF \E root \in Busy(u) : Overdue(HeadOf(u, root), t)
        THEN [root |-> oldest, sequence |-> HeadOf(u, oldest).sequence]
        ELSE NoBarrier

Advanced(u, t) == IF Busy(u) = {} THEN u ELSE [u EXCEPT !.ledger = LedgerAdvance(@, t)]

Viewed(u, t) == Advanced(Protect(u, t), t)

Fitting(a) == {root \in Busy(a) : HeadFits(a, root)}

(* A pass at t admits nobody, and a drive at t decides nobody's ticket. *)
Blocked(u, t) == t < u.cooldown_until \/ Select(Viewed(u, t), Fitting(Viewed(u, t))) = {}

Calm(u, t) == Timely(u, t) /\ Blocked(u, t)

(* The queue v is u as a pass at c that admits nobody leaves it. *)
After(u, v, c) ==
    /\ v = [u EXCEPT !.barrier = v.barrier, !.ledger = v.ledger]
    /\ v.barrier \in {u.barrier, BarrierAt(u, c)}
    /\ v.ledger \in {u.ledger, LedgerAdvance(u.ledger, c)}

-----------------------------------------------------------------------------
(* Reading a ledger twice is reading it the second time. *)
LEMMA AdvanceTwice ==
    ASSUME NEW l, LedgerOK(l), NEW c \in Nat, NEW t \in Nat, c <= t
    PROVE  LedgerAdvance(LedgerAdvance(l, c), t) = LedgerAdvance(l, t)
<1> DEFINE m == Later(l.now, c)
           n == Later(l.now, t)
           a == LedgerAdvance(l, c)
<1>1. l.now \in Nat /\ m \in Nat /\ n \in Nat /\ m <= n /\ Later(m, t) = n
  BY DEF LedgerOK, LedgerType, Later
<1>2. \A i \in DOMAIN l.entries : l.entries[i].rpm_until \in Nat /\ l.entries[i].tpm_until \in Nat
  BY DEF LedgerOK, LedgerType, Entry
<1>3. a = [l EXCEPT !.now = m, !.entries = Restrict(l.entries, Retained(l, m))]
  BY DEF LedgerAdvance
<1> HIDE DEF m, n, a
<1>4. Retained(l, m) \subseteq DOMAIN l.entries
  BY DEF Retained
<1>5. a.now = m /\ DOMAIN a.entries = Retained(l, m)
      /\ \A i \in Retained(l, m) : a.entries[i] = l.entries[i]
  BY <1>3, <1>4 DEF LedgerOK, LedgerType, Restrict
<1>6. Retained(a, n) = Retained(l, n)
  <2>1. \A i \in DOMAIN l.entries : /\ Live(l.entries[i].rpm_until, n) => Live(l.entries[i].rpm_until, m)
                                    /\ Live(l.entries[i].tpm_until, n) => Live(l.entries[i].tpm_until, m)
    BY <1>1, <1>2 DEF Live
  <2>2. Retained(l, n) \subseteq Retained(l, m)
    BY <2>1 DEF Retained
  <2>3. QED
    BY <1>4, <1>5, <2>2 DEF Retained
<1>7. Retained(l, n) \subseteq Retained(l, m)
  BY <1>5, <1>6 DEF Retained
<1>8. Restrict(a.entries, Retained(a, n)) = Restrict(l.entries, Retained(l, n))
  BY <1>5, <1>6, <1>7 DEF Restrict
<1>9. LedgerAdvance(a, t) = [a EXCEPT !.now = n, !.entries = Restrict(a.entries, Retained(a, n))]
  BY <1>1, <1>5 DEF LedgerAdvance
<1>10. LedgerAdvance(l, t) = [l EXCEPT !.now = n, !.entries = Restrict(l.entries, Retained(l, n))]
  BY DEF LedgerAdvance, n
<1> DEFINE E == Restrict(l.entries, Retained(l, n))
           D == Restrict(l.entries, Retained(l, m))
<1> HIDE DEF E, D
<1>11. LedgerAdvance(a, t) = [[l EXCEPT !.now = m, !.entries = D] EXCEPT !.now = n, !.entries = E]
  BY <1>3, <1>8, <1>9 DEF D, E
<1>12. LedgerAdvance(l, t) = [l EXCEPT !.now = n, !.entries = E]
  BY <1>10 DEF E
<1>13. QED
  BY <1>11, <1>12 DEF LedgerOK, LedgerType, a

(* Queue::protect sets the barrier. *)
LEMMA ProtectBarrier ==
    ASSUME NEW u, QueueOK(u), NEW t
    PROVE  Protect(u, t) = [u EXCEPT !.barrier = BarrierAt(u, t)]
<1>1. u = [u EXCEPT !.barrier = u.barrier]
  BY DEF QueueOK, QueueType
<1>2. QED
  BY <1>1 DEF Protect, BarrierAt, Overdue

(* A barrier that was set earlier is the one that is set now. *)
LEMMA BarrierLater ==
    ASSUME NEW u, QueueOK(u), NEW v, v.roots = u.roots, NEW c \in Nat, NEW t \in Nat, c <= t,
           v.barrier \in {u.barrier, BarrierAt(u, c)}
    PROVE  BarrierAt(v, t) = BarrierAt(u, t)
<1>1. Busy(v) = Busy(u) /\ \A root : HeadOf(v, root) = HeadOf(u, root)
  BY DEF Busy, HeadOf
<1> DEFINE oldest(w) == CHOOSE root \in Busy(w) :
                           \A other \in Busy(w) : Older(HeadOf(w, root), HeadOf(w, other))
<1>2. oldest(v) = oldest(u)
  BY DEF Busy, HeadOf
<1>3. \A w, s : BarrierAt(w, s) =
                   IF Protected(w) THEN w.barrier
                   ELSE IF \E root \in Busy(w) : Overdue(HeadOf(w, root), s)
                   THEN [root |-> oldest(w), sequence |-> HeadOf(w, oldest(w)).sequence]
                   ELSE NoBarrier
  BY DEF BarrierAt
<1> HIDE DEF oldest
<1>4. \A root \in Busy(u) : Overdue(HeadOf(u, root), c) => Overdue(HeadOf(u, root), t)
  <2> SUFFICES ASSUME NEW root \in Busy(u), Overdue(HeadOf(u, root), c)
               PROVE  Overdue(HeadOf(u, root), t)
    OBVIOUS
  <2>1. HeadOf(u, root) \in Waiter
    BY QueueFields DEF Busy, HeadOf
  <2>2. MaxAge \in Nat
    BY AdmissionAssumption
  <2>3. QED
    BY <2>1, <2>2 DEF Overdue, Waiter
<1>5. v.barrier = u.barrier => Protected(v) = Protected(u)
  BY <1>1 DEF Protected
<1>6. CASE v.barrier = u.barrier
  BY <1>1, <1>2, <1>3, <1>5, <1>6
<1>7. CASE v.barrier # u.barrier
  <2>1. v.barrier = BarrierAt(u, c) /\ ~Protected(u)
    BY <1>3, <1>7
  <2>2. CASE \E root \in Busy(u) : Overdue(HeadOf(u, root), c)
    <3>1. \E root \in Busy(u) : Overdue(HeadOf(u, root), t)
      BY <1>4, <2>2
    <3>2. v.barrier = [root |-> oldest(u), sequence |-> HeadOf(u, oldest(u)).sequence]
      BY <1>3, <2>1, <2>2
    <3>3. BarrierAt(u, t) = v.barrier
      BY <1>3, <2>1, <3>1, <3>2
    <3>4. ~Protected(v) => BarrierAt(v, t) = v.barrier
      BY <1>1, <1>2, <1>3, <3>1, <3>2
    <3>5. QED
      BY <1>3, <3>3, <3>4
  <2>3. CASE ~\E root \in Busy(u) : Overdue(HeadOf(u, root), c)
    <3>1. v.barrier = NoBarrier
      BY <1>3, <2>1, <2>3
    <3>2. ~Protected(v)
      BY <3>1 DEF Protected
    <3>3. QED
      BY <1>1, <1>2, <1>3, <2>1, <3>2
  <2>4. QED
    BY <2>2, <2>3
<1>8. QED
  BY <1>6, <1>7

(* What a pass looks at. *)
LEMMA ViewedIs ==
    ASSUME NEW u, QueueOK(u), NEW t
    PROVE  Viewed(u, t) =
              IF Busy(u) = {} THEN [u EXCEPT !.barrier = BarrierAt(u, t)]
              ELSE [u EXCEPT !.barrier = BarrierAt(u, t), !.ledger = LedgerAdvance(u.ledger, t)]
<1> DEFINE B == BarrierAt(u, t)
           p == [u EXCEPT !.barrier = B]
<1>1. Protect(u, t) = p
  BY ProtectBarrier
<1>2. Viewed(u, t) = IF Busy(p) = {} THEN p ELSE [p EXCEPT !.ledger = LedgerAdvance(p.ledger, t)]
  BY <1>1 DEF Viewed, Advanced
<1> HIDE DEF B
<1>3. p.roots = u.roots /\ p.ledger = u.ledger
  BY DEF QueueOK, QueueType
<1>4. Busy(p) = Busy(u)
  BY <1>3 DEF Busy
<1> DEFINE L == LedgerAdvance(u.ledger, t)
<1> HIDE DEF L
<1>5. [p EXCEPT !.ledger = L] = [u EXCEPT !.barrier = B, !.ledger = L]
  BY DEF QueueOK, QueueType
<1>6. QED
  BY <1>2, <1>3, <1>4, <1>5 DEF L, B

(* Its fields. *)
LEMMA AfterFields ==
    ASSUME NEW u, QueueOK(u), NEW v, NEW c, After(u, v, c)
    PROVE  /\ v.roots = u.roots /\ v.cell = u.cell /\ v.cooldown_until = u.cooldown_until
           /\ v.recovery = u.recovery /\ v.cursor = u.cursor /\ v.sequence = u.sequence
           /\ v.generation = u.generation /\ v.no_hint_stage = u.no_hint_stage
           /\ Busy(v) = Busy(u) /\ \A root : HeadOf(v, root) = HeadOf(u, root)
<1> DEFINE B == v.barrier
           L == v.ledger
<1>1. v = [u EXCEPT !.barrier = B, !.ledger = L]
  BY DEF After
<1> HIDE DEF B, L
<1>2. /\ v.roots = u.roots /\ v.cell = u.cell /\ v.cooldown_until = u.cooldown_until
      /\ v.recovery = u.recovery /\ v.cursor = u.cursor /\ v.sequence = u.sequence
      /\ v.generation = u.generation /\ v.no_hint_stage = u.no_hint_stage
  BY <1>1 DEF QueueOK, QueueType
<1>3. QED
  BY <1>2 DEF Busy, HeadOf

(* A pass that admits nobody leaves the next one the same to look at. *)
LEMMA AfterViewed ==
    ASSUME NEW u, QueueOK(u), NEW v, QueueOK(v), NEW c \in Nat, NEW t \in Nat, c <= t,
           After(u, v, c), Busy(u) # {}
    PROVE  Viewed(v, t) = Viewed(u, t)
<1> DEFINE B == BarrierAt(u, t)
           L == LedgerAdvance(u.ledger, t)
<1>1. v.roots = u.roots /\ Busy(v) = Busy(u)
  BY AfterFields
<1>2. BarrierAt(v, t) = B
  BY <1>1, BarrierLater DEF After
<1>3. LedgerAdvance(v.ledger, t) = L
  BY AdvanceTwice, QueueFields DEF After
<1>4. Viewed(u, t) = [u EXCEPT !.barrier = B, !.ledger = L]
  BY ViewedIs
<1>5. Viewed(v, t) = [v EXCEPT !.barrier = B, !.ledger = L]
  BY <1>1, <1>2, <1>3, ViewedIs
<1>6. v = [u EXCEPT !.barrier = v.barrier, !.ledger = v.ledger]
  BY DEF After
<1> DEFINE b == v.barrier
           l == v.ledger
<1> HIDE DEF B, L, b, l
<1>7. v = [u EXCEPT !.barrier = b, !.ledger = l]
  BY <1>6 DEF b, l
<1>8. [v EXCEPT !.barrier = B, !.ledger = L] = [u EXCEPT !.barrier = B, !.ledger = L]
  BY <1>7 DEF QueueOK, QueueType
<1>9. QED
  BY <1>4, <1>5, <1>8

(* With nobody in line there is nobody to select. *)
LEMMA NobodyBlocked ==
    ASSUME NEW u, QueueOK(u), NEW t, Busy(u) = {}
    PROVE  Blocked(u, t)
<1>1. Busy(Viewed(u, t)) = {}
  <2> DEFINE B == BarrierAt(u, t)
  <2>1. Viewed(u, t) = [u EXCEPT !.barrier = B]
    BY ViewedIs
  <2> HIDE DEF B
  <2>2. Viewed(u, t).roots = u.roots
    BY <2>1 DEF QueueOK, QueueType
  <2>3. QED
    BY <2>2 DEF Busy
<1>2. QED
  BY <1>1 DEF Blocked, Fitting, Select

(* So what was calm stays calm. *)
LEMMA AfterCalm ==
    ASSUME NEW u, QueueOK(u), NEW v, QueueOK(v), NEW c \in Nat, NEW t \in Nat, c <= t,
           After(u, v, c), Calm(u, t)
    PROVE  Calm(v, t)
<1>1. v.roots = u.roots /\ Busy(v) = Busy(u) /\ v.cooldown_until = u.cooldown_until
  BY AfterFields
<1>2. Timely(v, t)
  BY <1>1 DEF Calm, Timely
<1>3. CASE Busy(u) = {}
  BY <1>1, <1>2, <1>3, NobodyBlocked DEF Calm
<1>4. CASE Busy(u) # {}
  <2>1. Viewed(v, t) = Viewed(u, t)
    BY <1>4, AfterViewed
  <2>2. QED
    BY <1>1, <1>2, <2>1 DEF Calm, Blocked
<1>5. QED
  BY <1>3, <1>4

-----------------------------------------------------------------------------
(* A pass at t: nobody is admitted, or somebody is. *)
LEMMA PassCases ==
    ASSUME NEW u, NEW rq, Inv(u, rq), NEW t \in Nat
    PROVE  LET a == Viewed(u, t)
           IN  /\ Inv(a, rq) /\ a.roots = u.roots
               /\ Blocked(u, t) =>
                     DrivePass(u, t) = IF t < u.cooldown_until THEN Protect(u, t) ELSE a
               /\ ~Blocked(u, t) =>
                     \E root \in Fitting(a) : DrivePass(u, t) = AdmitHead(a, root, Fitting(a))
<1> DEFINE p == Protect(u, t)
           a == IF Busy(p) = {} THEN p ELSE [p EXCEPT !.ledger = LedgerAdvance(@, t)]
           fits == {root \in Busy(a) :
                      LET cost == CostOf[HeadOf(a, root).req]
                      IN  LedgerFits(a.ledger, cost) /\ Eligible(a, cost)}
           selected == Select(a, fits)
           root == CHOOSE root \in selected : TRUE
<1>1. DrivePass(u, t) = IF t < p.cooldown_until THEN p
                        ELSE IF selected = {} THEN a ELSE AdmitHead(a, root, fits)
  BY DEF DrivePass
<1>2. Viewed(u, t) = a
  BY DEF Viewed, Advanced
<1>3. p.cooldown_until = u.cooldown_until /\ Inv(p, rq) /\ p.roots = u.roots
  BY ProtectInv
<1> HIDE DEF p
<1>4. Inv(a, rq) /\ a.roots = u.roots
  BY <1>3, AdvancedInv
<1> HIDE DEF a
<1>5. fits = Fitting(a)
  BY DEF Fitting, HeadFits
<1> HIDE DEF fits
<1>6. Blocked(u, t) <=> t < u.cooldown_until \/ selected = {}
  BY <1>2, <1>5 DEF Blocked
<1>7. selected # {} => root \in fits
  <2>1. selected \subseteq fits
    BY DEF Select
  <2> HIDE DEF selected
  <2>2. QED
    BY <2>1
<1> HIDE DEF selected, root
<1>8. QED
  BY <1>1, <1>2, <1>3, <1>4, <1>5, <1>6, <1>7 DEF p

(* A pass that admits nobody is one that After speaks of. *)
LEMMA BlockedAfter ==
    ASSUME NEW u, NEW rq, Inv(u, rq), NEW t \in Nat, Blocked(u, t)
    PROVE  After(u, DrivePass(u, t), t)
<1> DEFINE B == BarrierAt(u, t)
           L == LedgerAdvance(u.ledger, t)
           v == DrivePass(u, t)
<1>1. QueueOK(u)
  BY DEF Inv
<1>2. v \in {Protect(u, t), Viewed(u, t)}
  BY PassCases
<1>3. Protect(u, t) = [u EXCEPT !.barrier = B]
  BY <1>1, ProtectBarrier
<1>4. Viewed(u, t) \in {[u EXCEPT !.barrier = B], [u EXCEPT !.barrier = B, !.ledger = L]}
  BY <1>1, ViewedIs
<1>5. v \in {[u EXCEPT !.barrier = B], [u EXCEPT !.barrier = B, !.ledger = L]}
  BY <1>2, <1>3, <1>4
<1> HIDE DEF B, L, v
<1>6. /\ v = [u EXCEPT !.barrier = v.barrier, !.ledger = v.ledger]
      /\ v.barrier = B /\ v.ledger \in {u.ledger, L}
  BY <1>1, <1>5 DEF QueueOK, QueueType
<1>7. QED
  BY <1>6 DEF After, B, L, v

(* A queue that has come to rest at t: another pass changes nothing. *)
Rests(u, t) == Blocked(u, t) /\ DrivePass(u, t) = u

(* After a pass that admits nobody, it rests. *)
LEMMA BlockedRests ==
    ASSUME NEW u, NEW rq, Inv(u, rq), NEW t \in Nat, Blocked(u, t)
    PROVE  Rests(DrivePass(u, t), t)
<1> DEFINE v == DrivePass(u, t)
<1>1. After(u, v, t)
  BY BlockedAfter
<1>2. Inv(v, rq)
  BY DrivePassInv
<1>3. QueueOK(u) /\ QueueOK(v)
  BY <1>2 DEF Inv
<1>4. v = IF t < u.cooldown_until THEN Protect(u, t) ELSE Viewed(u, t)
  BY PassCases
<1> HIDE DEF v
<1>5. v.roots = u.roots /\ Busy(v) = Busy(u) /\ v.cooldown_until = u.cooldown_until
  BY <1>1, <1>3, AfterFields
<1>6. Blocked(v, t)
  <2>1. CASE Busy(u) = {}
    BY <1>3, <1>5, <2>1, NobodyBlocked
  <2>2. CASE Busy(u) # {}
    <3>1. Viewed(v, t) = Viewed(u, t)
      BY <1>1, <1>3, <2>2, AfterViewed
    <3>2. QED
      BY <1>5, <3>1 DEF Blocked
  <2>3. QED
    BY <2>1, <2>2
<1>7. DrivePass(v, t) = IF t < u.cooldown_until THEN Protect(v, t) ELSE Viewed(v, t)
  BY <1>2, <1>5, <1>6, PassCases
<1>8. BarrierAt(v, t) = BarrierAt(u, t)
  BY <1>1, <1>3, <1>5, BarrierLater DEF After
<1>9. CASE t < u.cooldown_until \/ Busy(u) = {}
  <2> DEFINE B == BarrierAt(u, t)
  <2>1. v = [u EXCEPT !.barrier = B]
    <3>1. Protect(u, t) = [u EXCEPT !.barrier = B]
      BY <1>3, ProtectBarrier
    <3>2. Busy(u) = {} => Viewed(u, t) = [u EXCEPT !.barrier = B]
      BY <1>3, ViewedIs
    <3>3. QED
      BY <1>4, <1>9, <3>1, <3>2
  <2>2. DrivePass(v, t) = [v EXCEPT !.barrier = B]
    <3>1. Protect(v, t) = [v EXCEPT !.barrier = B]
      BY <1>3, <1>8, ProtectBarrier
    <3>2. Busy(u) = {} => Viewed(v, t) = [v EXCEPT !.barrier = B]
      BY <1>3, <1>5, <1>8, ViewedIs
    <3>3. QED
      BY <1>7, <1>9, <3>1, <3>2
  <2> HIDE DEF B
  <2>3. [v EXCEPT !.barrier = B] = v
    BY <1>3, <2>1 DEF QueueOK, QueueType
  <2>4. QED
    BY <1>6, <2>2, <2>3 DEF Rests, v
<1>10. CASE ~(t < u.cooldown_until) /\ Busy(u) # {}
  <2>1. Viewed(v, t) = Viewed(u, t)
    BY <1>1, <1>3, <1>10, AfterViewed
  <2>2. QED
    BY <1>4, <1>6, <1>7, <1>10, <2>1 DEF Rests, v
<1>11. QED
  BY <1>9, <1>10

(* What Without leaves of the first m tickets of a line: less of them when *)
(* one goes, all of them when none does.                                   *)
Trimmed(out, line, gone, m) ==
    /\ out \in Seq(Waiter) /\ Len(out) <= m
    /\ (\E a \in 1 .. m : line[a].req \in gone) => Len(out) < m
    /\ (\A a \in 1 .. m : line[a].req \notin gone) =>
          Len(out) = m /\ \A a \in 1 .. m : out[a] = line[a]

(* It says so of every length. *)
LEMMA TrimmedAll ==
    ASSUME NEW line \in Seq(Waiter), NEW gone, NEW f, Sifts(f, line, gone, Len(line))
    PROVE  \A m \in 0 .. Len(line) : Trimmed(f[m], line, gone, m)
<1> DEFINE T == {m \in 0 .. Len(line) : ~Trimmed(f[m], line, gone, m)}
<1> SUFFICES ASSUME T # {} PROVE FALSE
  OBVIOUS
<1>1. PICK m \in T : \A n \in T : m <= n
  <2>1. T \subseteq Nat
    OBVIOUS
  <2> HIDE DEF T
  <2>2. QED
    BY <2>1, LeastMember
<1>2. m # 0
  <2>1. f[0] = <<>>
    BY DEF Sifts
  <2>2. Trimmed(f[0], line, gone, 0)
    BY <2>1 DEF Trimmed
  <2>3. QED
    BY <2>2
<1> DEFINE p == f[m - 1]
           w == line[m]
<1>3. m - 1 \in 0 .. Len(line) /\ m \in 1 .. Len(line) /\ w \in Waiter
  BY <1>2
<1>4. Trimmed(p, line, gone, m - 1)
  BY <1>1, <1>3
<1>5. f[m] = IF w.req \in gone THEN p ELSE Append(p, w)
  BY <1>2, <1>3 DEF Sifts
<1> HIDE DEF p
<1>6. p \in Seq(Waiter) /\ Len(p) \in Nat /\ Len(p) <= m - 1
  BY <1>4 DEF Trimmed
<1>7. CASE w.req \in gone
  <2>1. Trimmed(p, line, gone, m)
    BY <1>3, <1>6, <1>7 DEF Trimmed
  <2>2. QED
    BY <1>5, <1>7, <2>1
<1>8. CASE w.req \notin gone
  <2> DEFINE out == Append(p, w)
  <2>1. /\ out \in Seq(Waiter) /\ Len(out) = Len(p) + 1 /\ out[Len(p) + 1] = w
        /\ \A i \in 1 .. Len(p) : out[i] = p[i]
    BY <1>3, <1>6
  <2> HIDE DEF out
  <2>2. ASSUME NEW a \in 1 .. m, line[a].req \in gone PROVE Len(out) < m
    <3>1. a \in 1 .. m - 1
      BY <1>3, <1>8, <2>2
    <3>2. Len(p) < m - 1
      BY <1>4, <2>2, <3>1 DEF Trimmed
    <3>3. QED
      BY <1>3, <1>6, <2>1, <3>2
  <2>3. ASSUME \A a \in 1 .. m : line[a].req \notin gone
        PROVE  Len(out) = m /\ \A a \in 1 .. m : out[a] = line[a]
    <3>1. Len(p) = m - 1 /\ \A a \in 1 .. m - 1 : p[a] = line[a]
      BY <1>3, <1>4, <2>3 DEF Trimmed
    <3>2. QED
      BY <1>3, <2>1, <3>1
  <2>4. Trimmed(out, line, gone, m)
    BY <1>3, <1>6, <2>1, <2>2, <2>3 DEF Trimmed
  <2>5. QED
    BY <1>5, <1>8, <2>4 DEF out
<1>9. QED
  BY <1>7, <1>8

(* So a line without those that go is no longer, and shorter when one does. *)
LEMMA WithoutTrims ==
    ASSUME NEW line \in Seq(Waiter), NEW gone
    PROVE  /\ Trimmed(Without(line, gone), line, gone, Len(line))
           /\ (\A a \in 1 .. Len(line) : line[a].req \notin gone) => Without(line, gone) = line
<1> DEFINE k == CHOOSE kept : kept = [n \in 0 .. Len(line) |->
                    IF n = 0 THEN <<>>
                    ELSE IF line[n].req \in gone THEN kept[n - 1]
                    ELSE Append(kept[n - 1], line[n])]
<1>1. Without(line, gone) = k[Len(line)]
  BY Zenon DEF Without
<1>2. Len(line) \in Nat
  OBVIOUS
<1>3. \E kept : Sifts(kept, line, gone, Len(line))
  BY <1>2, SiftsExists
<1>4. k = [n \in 0 .. Len(line) |-> IF n = 0 THEN <<>>
                    ELSE IF line[n].req \in gone THEN k[n - 1]
                    ELSE Append(k[n - 1], line[n])]
  BY <1>3, Zenon DEF Sifts
<1> HIDE DEF k
<1>5. Sifts(k, line, gone, Len(line))
  BY <1>4, Zenon DEF Sifts
<1>6. Len(line) \in 0 .. Len(line)
  BY <1>2
<1>7. Trimmed(Without(line, gone), line, gone, Len(line))
  BY <1>1, <1>5, <1>6, TrimmedAll
<1>8. ASSUME \A a \in 1 .. Len(line) : line[a].req \notin gone PROVE Without(line, gone) = line
  <2> DEFINE out == Without(line, gone)
  <2>1. out \in Seq(Waiter) /\ Len(out) = Len(line) /\ \A a \in 1 .. Len(line) : out[a] = line[a]
    BY <1>7, <1>8 DEF Trimmed
  <2> HIDE DEF out
  <2>2. \A a \in 1 .. Len(out) : out[a] = line[a]
    BY <2>1
  <2>3. out = line
    BY <2>1, <2>2, SeqEqual
  <2>4. QED
    BY <2>3 DEF out
<1>9. QED
  BY <1>7, <1>8

(* Expiring leaves nobody past a deadline; it leaves a shorter queue when  *)
(* somebody was, and the queue as it is when nobody was.                   *)
LEMMA ExpireWake ==
    ASSUME NEW u, NEW rq, Inv(u, rq), NEW t \in Nat
    PROVE  LET e == Expire(u, t)
           IN  /\ Timely(e, t) /\ QLen(e) \in Nat /\ QLen(u) \in Nat /\ QLen(e) <= QLen(u)
               /\ Timely(u, t) => e = u
               /\ ~Timely(u, t) => QLen(e) < QLen(u)
<1> DEFINE gone == {r \in Requests : \E root \in Roots : \E k \in 1 .. Len(u.roots[root]) :
                       u.roots[root][k].req = r /\ t >= u.roots[root][k].deadline}
           R == [root \in Roots |-> Without(u.roots[root], gone)]
           C == [r \in Requests |-> IF r \in gone THEN Expired ELSE u.cell[r]]
           e == Expire(u, t)
<1>1. e = [u EXCEPT !.roots = R, !.cell = C]
  BY DEF Expire
<1>2. \A root \in Roots : \A k \in DOMAIN u.roots[root] :
         /\ k \in 1 .. Len(u.roots[root]) /\ u.roots[root][k] \in Waiter
         /\ u.roots[root][k].req \in Requests
  BY QueuedTicket, LinesDistinct
<1>3. ASSUME NEW root \in Roots, NEW k \in DOMAIN u.roots[root]
      PROVE  u.roots[root][k].req \notin gone => t < u.roots[root][k].deadline
  <2>1. u.roots[root][k] \in Waiter
    BY <1>2
  <2>2. u.roots[root][k].deadline \in Nat
    BY <2>1 DEF Waiter
  <2>3. QED
    BY <1>2, <2>2
<1>4. Timely(u, t) => gone = {}
  <2> SUFFICES ASSUME Timely(u, t), NEW root \in Roots, NEW k \in 1 .. Len(u.roots[root])
               PROVE  ~(t >= u.roots[root][k].deadline)
    OBVIOUS
  <2>1. k \in DOMAIN u.roots[root]
    BY LinesDistinct
  <2>2. t < u.roots[root][k].deadline /\ u.roots[root][k].deadline \in Nat
    BY <1>2, <2>1 DEF Timely, Waiter
  <2>3. QED
    BY <2>2
<1> HIDE DEF gone
<1>5. ASSUME NEW root \in Roots
      PROVE  /\ Trimmed(R[root], u.roots[root], gone, Len(u.roots[root]))
             /\ Sifted(R[root], u.roots[root], gone, Len(u.roots[root]))
             /\ gone = {} => R[root] = u.roots[root]
  <2>1. u.roots[root] \in Seq(Waiter) /\ Distinct(u.roots[root])
    BY LinesDistinct
  <2>2. R[root] = Without(u.roots[root], gone)
    OBVIOUS
  <2>3. QED
    BY <2>1, <2>2, WithoutTrims, WithoutSifts
<1>6. /\ u.roots \in [Roots -> Seq(Waiter)] /\ u.cell \in [Requests -> Nat \cup {Expired}]
  BY QueueFields DEF Inv
<1>7. R \in [Roots -> Seq(Waiter)]
  <2>1. R = [root \in Roots |-> R[root]]
    OBVIOUS
  <2>2. \A root \in Roots : R[root] \in Seq(Waiter)
    BY <1>5 DEF Trimmed
  <2> HIDE DEF R
  <2>3. QED
    BY <2>1, <2>2
<1>8. gone = {} => R = u.roots /\ C = u.cell
  <2>1. gone = {} => \A root \in Roots : R[root] = u.roots[root]
    BY <1>5
  <2>2. gone = {} => R = u.roots
    <3> HIDE DEF R
    <3>1. QED
      BY <1>6, <1>7, <2>1
  <2>3. gone = {} => C = u.cell
    BY <1>6
  <2>4. QED
    BY <2>2, <2>3
<1>9. Timely(u, t) => e = u
  <2> HIDE DEF R, C, e
  <2>1. QED
    BY <1>1, <1>4, <1>8 DEF Inv, QueueOK, QueueType
<1>10. e.roots = R
  <2> HIDE DEF R, C, e
  <2>1. QED
    BY <1>1 DEF Inv, QueueOK, QueueType
<1> HIDE DEF R, C, e
<1>11. Timely(e, t)
  <2> SUFFICES ASSUME NEW root \in Roots, NEW k \in DOMAIN R[root] PROVE t < R[root][k].deadline
    BY <1>10 DEF Timely
  <2>1. R[root][k].req \notin gone /\ \E a \in 1 .. Len(u.roots[root]) : R[root][k] = u.roots[root][a]
    BY <1>5 DEF Sifted
  <2>2. PICK a \in DOMAIN u.roots[root] : R[root][k] = u.roots[root][a]
    BY <2>1, LinesDistinct
  <2>3. QED
    BY <1>3, <2>1, <2>2
<1>12. \A root \in Roots : Len(R[root]) <= Len(u.roots[root])
  BY <1>5 DEF Trimmed
<1>13. /\ QLen(e) \in Nat /\ QLen(u) \in Nat /\ QLen(e) <= QLen(u)
       /\ \A root \in Roots : QLen(e) + Len(u.roots[root]) <= QLen(u) + Len(R[root])
  BY <1>6, <1>7, <1>10, <1>12, QLenLess
<1>14. ASSUME ~Timely(u, t) PROVE QLen(e) < QLen(u)
  <2>1. PICK root \in Roots : \E k \in DOMAIN u.roots[root] : ~(t < u.roots[root][k].deadline)
    BY <1>14 DEF Timely
  <2>2. PICK k \in DOMAIN u.roots[root] : ~(t < u.roots[root][k].deadline)
    BY <2>1
  <2>3. u.roots[root][k].req \in gone
    BY <1>3, <2>2
  <2>4. Len(R[root]) < Len(u.roots[root])
    BY <1>2, <1>5, <2>3 DEF Trimmed
  <2>5. QLen(e) + Len(u.roots[root]) <= QLen(u) + Len(R[root])
    BY <1>13
  <2>6. Len(R[root]) \in Nat /\ Len(u.roots[root]) \in Nat
    BY <1>6, <1>7
  <2>7. QED
    BY <1>13, <2>4, <2>5, <2>6
<1>15. QED
  BY <1>9, <1>11, <1>13, <1>14 DEF e

(* A mark on a head moves no deadline. *)
LEMMA BypassDeadlines ==
    ASSUME NEW old \in Seq(Waiter), old # <<>>
    PROVE  LET new == [old EXCEPT ![1].bypasses = @ + 1]
           IN  /\ new \in Seq(Waiter) /\ Len(new) = Len(old) /\ DOMAIN new = DOMAIN old
               /\ \A k \in DOMAIN old : new[k].deadline = old[k].deadline
<1> DEFINE n == old[1].bypasses + 1
           w == [old[1] EXCEPT !.bypasses = n]
           new == [old EXCEPT ![1] = w]
<1>1. 1 \in 1 .. Len(old) /\ Len(old) \in Nat /\ old[1] \in Waiter
  BY EmptySeq, ElementOfSeq
<1>2. w \in Waiter /\ w.deadline = old[1].deadline
  <2>1. n \in Nat
    BY <1>1 DEF Waiter
  <2> HIDE DEF n
  <2>2. QED
    BY <1>1, <2>1 DEF Waiter
<1>3. [old EXCEPT ![1].bypasses = @ + 1] = new
  OBVIOUS
<1> HIDE DEF w
<1>4. /\ new \in Seq(Waiter) /\ Len(new) = Len(old)
      /\ \A j \in 1 .. Len(old) : new[j] = IF j = 1 THEN w ELSE old[j]
  BY <1>1, <1>2, ExceptSeq
<1> HIDE DEF new
<1>5. DOMAIN new = 1 .. Len(old) /\ DOMAIN old = 1 .. Len(old)
  BY <1>4
<1>6. QED
  BY <1>2, <1>3, <1>4, <1>5

(* An admission makes the queue shorter and moves no deadline. *)
LEMMA AdmitWake ==
    ASSUME NEW u, NEW rq, Inv(u, rq), NEW root \in Busy(u), NEW fits, NEW t, Timely(u, t)
    PROVE  LET v == AdmitHead(u, root, fits)
           IN  Timely(v, t) /\ QLen(v) \in Nat /\ QLen(u) \in Nat /\ QLen(v) < QLen(u)
<1> DEFINE id == u.ledger.next + 1
           h == HeadOf(u, root).req
           Bypass(other) == other \in Busy(u) \ (fits \cup {root})
           R == [other \in Roots |->
                    IF other = root THEN Tail(u.roots[root])
                    ELSE IF Bypass(other) THEN [u.roots[other] EXCEPT ![1].bypasses = @ + 1]
                    ELSE u.roots[other]]
           L == LedgerAdmit(u.ledger, CostOf[h])
           P == [u.recovery EXCEPT !.probe =
                    IF u.recovery.armed /\ ~Exempt(u, CostOf[h]) THEN id ELSE @]
           C == [u.cell EXCEPT ![h] = id]
           N == RootAfter(root)
           v == AdmitHead(u, root, fits)
<1>1. root \in Roots /\ u.roots[root] # <<>>
  BY DEF Busy
<1>2. u.roots \in [Roots -> Seq(Waiter)] /\ u \in QueueType({u.ledger})
  BY QueueFields DEF Inv, QueueOK
<1>3. v = [u EXCEPT !.roots = R, !.ledger = L, !.recovery = P, !.cell = C, !.cursor = N]
  BY <1>2 DEF AdmitHead, QueueType
<1>4. v.roots = R
  <2> HIDE DEF R, L, P, C, N, v
  <2>1. QED
    BY <1>2, <1>3 DEF QueueType
<1>5. ASSUME NEW other \in Roots
      PROVE  /\ R[other] \in Seq(Waiter) /\ Len(R[other]) <= Len(u.roots[other])
             /\ other = root => Len(R[other]) < Len(u.roots[other])
             /\ \A k \in DOMAIN R[other] : \E j \in DOMAIN u.roots[other] :
                   R[other][k].deadline = u.roots[other][j].deadline
  <2>1. u.roots[other] \in Seq(Waiter) /\ Len(u.roots[other]) \in Nat
        /\ DOMAIN u.roots[other] = 1 .. Len(u.roots[other])
    BY <1>2
  <2>2. CASE other = root
    <3> DEFINE old == u.roots[root]
    <3>1. R[other] = Tail(old)
      BY <2>2
    <3>2. old \in Seq(Waiter) /\ old # <<>>
      BY <1>1, <2>1, <2>2
    <3> HIDE DEF old
    <3>3. /\ Tail(old) \in Seq(Waiter) /\ Len(Tail(old)) = Len(old) - 1 /\ Len(old) \in Nat
          /\ \A i \in 1 .. Len(Tail(old)) : Tail(old)[i] = old[i + 1]
      BY <3>2, HeadTailProperties
    <3>4. DOMAIN Tail(old) = 1 .. Len(old) - 1 /\ DOMAIN old = 1 .. Len(old)
      BY <3>2, <3>3
    <3>5. \A k \in DOMAIN Tail(old) : k + 1 \in DOMAIN old /\ Tail(old)[k] = old[k + 1]
      BY <3>3, <3>4
    <3>6. QED
      BY <2>2, <3>1, <3>3, <3>5 DEF old
  <2>3. CASE other # root /\ Bypass(other)
    <3>1. u.roots[other] # <<>>
      BY <2>3 DEF Busy
    <3>2. R[other] = [u.roots[other] EXCEPT ![1].bypasses = @ + 1]
      BY <2>3
    <3>3. /\ R[other] \in Seq(Waiter) /\ Len(R[other]) = Len(u.roots[other])
          /\ DOMAIN R[other] = DOMAIN u.roots[other]
          /\ \A k \in DOMAIN u.roots[other] : R[other][k].deadline = u.roots[other][k].deadline
      BY <2>1, <3>1, <3>2, BypassDeadlines
    <3> HIDE DEF R
    <3>4. QED
      BY <2>1, <2>3, <3>3
  <2>4. CASE other # root /\ ~Bypass(other)
    <3>1. R[other] = u.roots[other]
      BY <2>4
    <3>2. QED
      BY <2>1, <2>4, <3>1
  <2>5. QED
    BY <2>2, <2>3, <2>4
<1>6. R \in [Roots -> Seq(Waiter)]
  <2>1. R = [other \in Roots |-> R[other]]
    OBVIOUS
  <2>2. \A other \in Roots : R[other] \in Seq(Waiter)
    BY <1>5
  <2> HIDE DEF R
  <2>3. QED
    BY <2>1, <2>2
<1> HIDE DEF R, v
<1>7. Timely(v, t)
  BY <1>4, <1>5 DEF Timely
<1>8. /\ QLen(v) \in Nat /\ QLen(u) \in Nat
      /\ QLen(v) + Len(u.roots[root]) <= QLen(u) + Len(R[root])
  BY <1>1, <1>2, <1>4, <1>5, <1>6, QLenLess
<1>9. Len(R[root]) < Len(u.roots[root]) /\ Len(R[root]) \in Nat /\ Len(u.roots[root]) \in Nat
  BY <1>1, <1>2, <1>5, <1>6
<1>10. QED
  BY <1>7, <1>8, <1>9 DEF v

(* What is true of the queue x after n passes of a drive of u at t: it is  *)
(* shorter by what was admitted, and rests once a pass admits nobody.      *)
Driven(u, rq, t, x, n) ==
    /\ Inv(x, rq) /\ Timely(x, t) /\ QLen(x) \in Nat /\ QLen(x) <= QLen(u)
    /\ QLen(x) = QLen(u) => /\ x.cell = u.cell
                            /\ \A s \in Nat : s >= t /\ Calm(u, s) => Calm(x, s)
    /\ Calm(u, t) => QLen(x) = QLen(u)
    /\ QLen(x) + n <= QLen(u) \/ Rests(x, t)

(* Before the first pass. *)
LEMMA DrivenFirst ==
    ASSUME NEW u, NEW rq, Inv(u, rq), NEW t \in Nat
    PROVE  Driven(u, rq, t, Expire(u, t), 0)
<1>1. Inv(Expire(u, t), rq)
  BY ExpireInv
<1>2. LET e == Expire(u, t)
      IN  /\ Timely(e, t) /\ QLen(e) \in Nat /\ QLen(u) \in Nat /\ QLen(e) <= QLen(u)
          /\ Timely(u, t) => e = u
          /\ ~Timely(u, t) => QLen(e) < QLen(u)
  BY ExpireWake
<1> DEFINE e == Expire(u, t)
<1> HIDE DEF e
<1>3. /\ Timely(e, t) /\ QLen(e) \in Nat /\ QLen(u) \in Nat /\ QLen(e) <= QLen(u)
      /\ Timely(u, t) => e = u
      /\ ~Timely(u, t) => QLen(e) < QLen(u)
  BY <1>2 DEF e
<1>4. QLen(e) = QLen(u) => e = u
  BY <1>3
<1>5. Calm(u, t) => e = u
  BY <1>3 DEF Calm
<1>6. QLen(e) + 0 <= QLen(u)
  BY <1>3
<1>7. QED
  BY <1>1, <1>3, <1>4, <1>5, <1>6 DEF Driven, e

(* One pass more. *)
LEMMA DrivenNext ==
    ASSUME NEW u, NEW rq, Inv(u, rq), NEW t \in Nat, NEW x, NEW n \in Nat,
           QLen(u) \in Nat, Driven(u, rq, t, x, n)
    PROVE  Driven(u, rq, t, DrivePass(x, t), n + 1)
<1> DEFINE y == DrivePass(x, t)
<1>1. Inv(x, rq) /\ Inv(y, rq)
  BY DrivePassInv DEF Driven
<1> HIDE DEF y
<1>2. QueueOK(x) /\ QueueOK(y)
  BY <1>1 DEF Inv
<1>3. CASE Blocked(x, t)
  <2>1. After(x, y, t)
    BY <1>1, <1>3, BlockedAfter DEF y
  <2>2. Rests(y, t)
    BY <1>1, <1>3, BlockedRests DEF y
  <2>3. y.roots = x.roots /\ y.cell = x.cell
    BY <1>2, <2>1, AfterFields
  <2>4. Timely(y, t) /\ QLen(y) = QLen(x)
    BY <2>3, QLenSame DEF Driven, Timely
  <2>5. \A s \in Nat : s >= t /\ Calm(x, s) => Calm(y, s)
    BY <1>2, <2>1, AfterCalm
  <2>6. QED
    BY <1>1, <2>2, <2>3, <2>4, <2>5 DEF Driven, y
<1>4. CASE ~Blocked(x, t)
  <2> DEFINE a == Viewed(x, t)
  <2>1. Inv(a, rq) /\ a.roots = x.roots
    BY <1>1, PassCases
  <2>2. PICK root \in Fitting(a) : y = AdmitHead(a, root, Fitting(a))
    BY <1>1, <1>4, PassCases DEF y
  <2> HIDE DEF a
  <2>3. root \in Busy(a)
    BY <2>2 DEF Fitting
  <2>4. Timely(a, t) /\ QLen(a) = QLen(x)
    BY <2>1, QLenSame DEF Driven, Timely
  <2>5. Timely(y, t) /\ QLen(y) \in Nat /\ QLen(y) < QLen(x)
    BY <2>1, <2>2, <2>3, <2>4, AdmitWake
  <2>6. ~Rests(x, t)
    BY <1>4 DEF Rests
  <2>7. QLen(x) \in Nat /\ QLen(x) <= QLen(u) /\ QLen(x) + n <= QLen(u)
    BY <2>6 DEF Driven
  <2>8. QLen(y) <= QLen(u) /\ QLen(y) # QLen(u) /\ QLen(y) + (n + 1) <= QLen(u)
    BY <2>5, <2>7
  <2>9. ~Calm(u, t)
    <3>1. Calm(u, t) => Calm(x, t)
      BY DEF Driven
    <3>2. QED
      BY <1>4, <3>1 DEF Calm
  <2>10. QED
    BY <1>1, <2>5, <2>8, <2>9 DEF Driven, y
<1>5. QED
  BY <1>3, <1>4

(* What Queue::drive leaves: nobody whose deadline has passed and nobody   *)
(* who could be admitted; and if the queue has not become shorter, nobody  *)
(* was decided.                                                            *)
LEMMA DriveWake ==
    ASSUME NEW u, NEW rq, Inv(u, rq), NEW t \in Nat, QLen(u) <= MaxWaiting
    PROVE  LET d == Drive(u, t)
           IN  /\ Inv(d, rq) /\ Timely(d, t) /\ Rests(d, t)
               /\ QLen(d) \in Nat /\ QLen(d) <= QLen(u)
               /\ QLen(d) = QLen(u) => /\ d.cell = u.cell
                                       /\ \A s \in Nat : s >= t /\ Calm(u, s) => Calm(d, s)
               /\ Calm(u, t) => d.cell = u.cell
<1>1. PICK f : /\ Drive(u, t) = f[MaxWaiting + 1] /\ f[0] = Expire(u, t)
               /\ \A n \in 1 .. MaxWaiting + 1 : f[n] = DrivePass(f[n - 1], t)
  BY DriveSteps
<1>2. MaxWaiting \in Nat
  BY AdmissionAssumption
<1>3. QLen(u) \in Nat
  BY QLenNat, QueueFields DEF Inv
<1> DEFINE Holds(n) == Driven(u, rq, t, f[n], n)
           T == {n \in 0 .. MaxWaiting + 1 : ~Holds(n)}
<1>4. T = {}
  <2> SUFFICES ASSUME T # {} PROVE FALSE
    OBVIOUS
  <2>1. PICK n \in T : \A k \in T : n <= k
    <3>1. T \subseteq Nat
      OBVIOUS
    <3> HIDE DEF T
    <3>2. QED
      BY <3>1, LeastMember
  <2>2. Holds(0)
    BY <1>1, DrivenFirst
  <2>3. n \in 1 .. MaxWaiting + 1 /\ n - 1 \in 0 .. MaxWaiting + 1 /\ n - 1 \in Nat
        /\ (n - 1) + 1 = n
    BY <1>2, <2>2
  <2>4. Holds(n - 1)
    BY <2>1, <2>3
  <2>5. f[n] = DrivePass(f[n - 1], t)
    BY <1>1, <2>3
  <2>6. Driven(u, rq, t, DrivePass(f[n - 1], t), (n - 1) + 1)
    BY <1>3, <2>3, <2>4, DrivenNext
  <2>7. Holds(n)
    BY <2>3, <2>5, <2>6
  <2>8. QED
    BY <2>7
<1>5. Driven(u, rq, t, Drive(u, t), MaxWaiting + 1)
  BY <1>1, <1>2, <1>4
<1>6. ASSUME NEW d, Driven(u, rq, t, d, MaxWaiting + 1)
      PROVE  Rests(d, t)
  <2>1. QLen(d) \in Nat
    BY <1>6 DEF Driven
  <2>2. ~(QLen(d) + (MaxWaiting + 1) <= QLen(u))
    BY <1>2, <1>3, <2>1
  <2>3. QED
    BY <1>6, <2>2 DEF Driven
<1>7. QED
  BY <1>5, <1>6 DEF Driven

(* Ledger::snapshot's sum depends on the entries only. *)
TokensOf(es, S) == MapThenSumSet(LAMBDA i : es[i].tokens, S)

(* Until its next wake a ledger that was just read neither frees nor takes *)
(* anything: what fits then is what fits now.                              *)
LEMMA FitsUntilWake ==
    ASSUME NEW l, LedgerOK(l), NEW t \in Nat, l = LedgerAdvance(l, t), NEW s \in Nat,
           NextWake(l) = Never \/ s < NextWake(l), NEW cost
    PROVE  LedgerFits(LedgerAdvance(l, s), cost) <=> LedgerFits(l, cost)
<1> DEFINE n == Later(l.now, s)
           m == LedgerAdvance(l, s)
           expiries == {l.entries[i].rpm_until : i \in DOMAIN l.entries} \cup
                       {l.entries[i].tpm_until : i \in DOMAIN l.entries}
           future == {at \in expiries : at > l.now}
           E == Restrict(l.entries, Retained(l, n))
<1>1. l.now \in Nat /\ n \in Nat /\ l.now <= n /\ n \in {l.now, s} /\ l.ready_at \in Nat
  BY DEF LedgerOK, LedgerType, Later
<1>2. m = [l EXCEPT !.now = n, !.entries = E]
  BY DEF LedgerAdvance
<1>3. \A i \in DOMAIN l.entries : l.entries[i].rpm_until \in Nat /\ l.entries[i].tpm_until \in Nat
  BY DEF LedgerOK, LedgerType, Entry
<1>4. expiries \subseteq Nat
  BY <1>3
<1>5. NextWake(l) = IF l.now < l.ready_at THEN l.ready_at
                    ELSE IF future = {} THEN Never ELSE Min(future)
  BY DEF NextWake
<1>6. /\ m.now = n /\ m.entries = E /\ m.ready_at = l.ready_at /\ m.tpm = l.tpm /\ m.rpm = l.rpm
      /\ m.concurrency = l.concurrency /\ m.next = l.next
  <2> HIDE DEF n, E, m
  <2>1. QED
    BY <1>2 DEF LedgerOK, LedgerType
<1> HIDE DEF n, m
<1>7. CASE l.now < l.ready_at
  <2>1. n < l.ready_at
    BY <1>1, <1>5, <1>7 DEF Never
  <2>2. ~(m.now >= m.ready_at) /\ ~(l.now >= l.ready_at)
    BY <1>1, <1>6, <1>7, <2>1
  <2>3. ~LedgerFits(m, cost) /\ ~LedgerFits(l, cost)
    BY <2>2 DEF LedgerFits
  <2>4. QED
    BY <2>3 DEF m
<1>8. CASE ~(l.now < l.ready_at)
  <2>1. ASSUME NEW x \in expiries PROVE x > n <=> x > l.now
    <3>1. CASE x > l.now
      <4>1. future # {} /\ future \subseteq Nat
        BY <1>4, <3>1
      <4>2. Min(future) \in future /\ \A y \in future : Min(future) <= y
        <5> HIDE DEF future
        <5>1. PICK k \in future : \A y \in future : k <= y
          BY <4>1, LeastMember
        <5>2. QED
          BY <5>1 DEF Min
      <4>3. Min(future) <= x /\ Min(future) \in Nat /\ Min(future) > l.now
        BY <1>4, <3>1, <4>2
      <4>4. NextWake(l) = Min(future)
        BY <1>5, <1>8, <4>1
      <4> HIDE DEF future
      <4> DEFINE k == Min(future)
      <4>5. k \in Nat /\ k > l.now /\ k <= x /\ NextWake(l) = k
        BY <4>3, <4>4
      <4> HIDE DEF future, expiries, k
      <4>6. s < k
        BY <1>1, <4>5 DEF Never
      <4>7. x \in Nat
        BY <1>4
      <4>8. QED
        BY <1>1, <3>1, <4>5, <4>6, <4>7
    <3>2. CASE ~(x > l.now)
      <4>1. x \in Nat
        BY <1>4
      <4> HIDE DEF expiries
      <4>2. QED
        BY <1>1, <3>2, <4>1
    <3>3. QED
      BY <3>1, <3>2
  <2>2. \A i \in DOMAIN l.entries :
           /\ Live(l.entries[i].rpm_until, n) <=> Live(l.entries[i].rpm_until, l.now)
           /\ Live(l.entries[i].tpm_until, n) <=> Live(l.entries[i].tpm_until, l.now)
    BY <2>1 DEF Live
  <2> HIDE DEF expiries, future
  <2>3. Retained(l, l.now) = DOMAIN l.entries
    <3> DEFINE k == Later(l.now, t)
               F == Restrict(l.entries, Retained(l, k))
    <3>1. l = [l EXCEPT !.now = k, !.entries = F]
      BY DEF LedgerAdvance
    <3> HIDE DEF k, F
    <3>2. l.now = k /\ l.entries = F
      BY <3>1 DEF LedgerOK, LedgerType
    <3>3. DOMAIN F = Retained(l, k)
      BY DEF F, Restrict
    <3>4. QED
      BY <3>2, <3>3
  <2>4. Retained(l, n) = DOMAIN l.entries
    BY <2>2, <2>3 DEF Retained
  <2>5. m.entries = l.entries
    BY <1>6, <2>4 DEF Restrict, LedgerOK, LedgerType
  <2>6. /\ Active(m) = Active(l) /\ Held(m) = Held(l) /\ TotalFits(m, cost) = TotalFits(l, cost)
        /\ RpmLive(m) = RpmLive(l) /\ TpmLive(m) = TpmLive(l)
    BY <1>6, <2>2, <2>5 DEF Active, Held, TotalFits, RpmLive, TpmLive
  <2>7. \A S : Tokens(m, S) = Tokens(l, S)
    <3>1. \A k, S : Tokens(k, S) = TokensOf(k.entries, S)
      BY DEF Tokens, TokensOf
    <3>2. QED
      BY <2>5, <3>1
  <2>8. (m.now >= m.ready_at) /\ (l.now >= l.ready_at)
    BY <1>1, <1>6, <1>8
  <2>9. LedgerFits(m, cost) = LedgerFits(l, cost)
    <3> DEFINE fits(k) == LedgerFits(k, cost)
    <3>1. Tokens(m, TpmLive(m)) = Tokens(l, TpmLive(l)) /\ Tokens(m, Held(m)) = Tokens(l, Held(l))
      BY <2>6, <2>7
    <3>2. (m.now >= m.ready_at) = (l.now >= l.ready_at)
      BY <2>8
    <3>3. DOMAIN m.entries = DOMAIN l.entries
      BY <2>5
    <3> HIDE DEF E
    <3>4. QED
      BY ONLY <1>6, <2>6, <3>1, <3>2, <3>3 DEF LedgerFits
  <2>10. QED
    BY <2>9 DEF m
<1>9. QED
  BY <1>7, <1>8 DEF m

(* The time that drive asks for: no later than any deadline, than the age  *)
(* at which a head will be overdue, than the end of the cooldown or else   *)
(* the ledger's next wake.                                                 *)
LEMMA WakeAtEarly ==
    ASSUME NEW u, QueueOK(u), NEW t \in Nat, Timely(u, t), Busy(u) # {}
    PROVE  LET w == WakeAt(u, t)
           IN  /\ w \in Nat \ {Never}
               /\ \A root \in Roots : \A k \in DOMAIN u.roots[root] : w <= u.roots[root][k].deadline
               /\ \A root \in Busy(u) : LET at == HeadOf(u, root).enqueued + MaxAge
                                        IN  at > t => w <= at
               /\ t < u.cooldown_until => w <= u.cooldown_until
               /\ ~(t < u.cooldown_until) => NextWake(u.ledger) = Never \/ w <= NextWake(u.ledger)
<1> DEFINE queued == UNION {{u.roots[root][k] : k \in 1 .. Len(u.roots[root])} : root \in Roots}
           ages == {HeadOf(u, root).enqueued + MaxAge : root \in Busy(u)}
           resource == IF t < u.cooldown_until THEN u.cooldown_until ELSE NextWake(u.ledger)
           deadlines == {w.deadline : w \in queued}
           times == deadlines \cup {at \in ages : at > t} \cup ({resource} \ {Never})
<1>1. WakeAt(u, t) = IF queued = {} THEN Never ELSE Min(times)
  BY DEF WakeAt
<1>2. u.roots \in [Roots -> Seq(Waiter)] /\ u.cooldown_until \in Nat /\ LedgerOK(u.ledger)
  BY QueueFields
<1>3. resource \in Nat
  BY <1>2, NextWakeNat
<1>4. ASSUME NEW root \in Roots, NEW k \in DOMAIN u.roots[root]
      PROVE  /\ u.roots[root][k] \in queued /\ u.roots[root][k].deadline \in deadlines
  <2>1. k \in 1 .. Len(u.roots[root])
    BY <1>2
  <2>2. u.roots[root][k] \in queued
    BY <2>1
  <2> HIDE DEF queued
  <2>3. QED
    BY <2>2
<1>5. ASSUME NEW w \in queued PROVE w.deadline \in Nat /\ w.deadline > t
  <2>1. PICK root \in Roots : w \in {u.roots[root][k] : k \in 1 .. Len(u.roots[root])}
    OBVIOUS
  <2>2. PICK k \in 1 .. Len(u.roots[root]) : w = u.roots[root][k]
    BY <2>1
  <2>3. k \in DOMAIN u.roots[root] /\ u.roots[root][k] \in Waiter
    BY <1>2, <2>2
  <2>4. w.deadline \in Nat /\ t < w.deadline
    BY <2>2, <2>3 DEF Timely, Waiter
  <2>5. QED
    BY <2>4
<1>6. queued # {}
  <2>1. PICK root \in Roots : u.roots[root] # <<>>
    BY DEF Busy
  <2>2. 1 \in DOMAIN u.roots[root]
    BY <1>2, <2>1
  <2>3. QED
    BY <1>4, <2>2
<1>7. \A root \in Busy(u) : HeadOf(u, root).enqueued + MaxAge \in Nat
  <2> SUFFICES ASSUME NEW root \in Busy(u) PROVE HeadOf(u, root).enqueued + MaxAge \in Nat
    OBVIOUS
  <2>1. HeadOf(u, root) \in Waiter
    BY <1>2 DEF Busy, HeadOf
  <2>2. MaxAge \in Nat
    BY AdmissionAssumption
  <2>3. QED
    BY <2>1, <2>2 DEF Waiter
<1>8. \A root \in Busy(u) : HeadOf(u, root).enqueued + MaxAge \in ages
  OBVIOUS
<1>9. ages \subseteq Nat
  BY <1>7
<1> HIDE DEF queued, ages
<1>10. deadlines # {} /\ \A x \in deadlines : x \in Nat /\ x > t
  BY <1>5, <1>6
<1> HIDE DEF deadlines
<1>11. times # {} /\ \A x \in times : x \in Nat /\ x # Never
  <2>1. ASSUME NEW x \in deadlines PROVE x \in Nat /\ x # Never
    BY <1>10 DEF Never
  <2>2. ASSUME NEW x \in {at \in ages : at > t} PROVE x \in Nat /\ x # Never
    BY <1>9 DEF Never
  <2>3. ASSUME NEW x \in {resource} \ {Never} PROVE x \in Nat /\ x # Never
    BY <1>3
  <2>4. times # {}
    BY <1>10
  <2>5. QED
    BY <2>1, <2>2, <2>3, <2>4
<1>12. Min(times) \in times /\ \A x \in times : Min(times) <= x
  <2> HIDE DEF times, resource
  <2>1. times \subseteq Nat
    BY <1>11
  <2>2. PICK k \in times : \A x \in times : k <= x
    BY <1>11, <2>1, LeastMember
  <2>3. QED
    BY <2>2 DEF Min
<1> DEFINE w == WakeAt(u, t)
<1>13. w = Min(times)
  BY <1>1, <1>6
<1>14. resource # Never => resource \in times
  OBVIOUS
<1>15. \A x \in ages : x > t => x \in times
  OBVIOUS
<1>16. \A x \in deadlines : x \in times
  OBVIOUS
<1>17. resource = IF t < u.cooldown_until THEN u.cooldown_until ELSE NextWake(u.ledger)
  OBVIOUS
<1>18. t < u.cooldown_until => u.cooldown_until # Never
  BY <1>2 DEF Never
<1> HIDE DEF times, resource, w
<1>19. w \in Nat \ {Never} /\ \A x \in times : w <= x
  BY <1>11, <1>12, <1>13
<1>20. \A root \in Roots : \A k \in DOMAIN u.roots[root] : w <= u.roots[root][k].deadline
  BY <1>4, <1>16, <1>19
<1>21. \A root \in Busy(u) : LET at == HeadOf(u, root).enqueued + MaxAge IN at > t => w <= at
  BY <1>8, <1>15, <1>19
<1>22. /\ t < u.cooldown_until => w <= u.cooldown_until
       /\ ~(t < u.cooldown_until) => NextWake(u.ledger) = Never \/ w <= NextWake(u.ledger)
  BY <1>14, <1>17, <1>18, <1>19
<1>23. QED
  BY <1>19, <1>20, <1>21, <1>22 DEF w

(* A queue at rest has nobody to decide before that time. *)
LEMMA WakeCalm ==
    ASSUME NEW u, NEW rq, Inv(u, rq), NEW t \in Nat, Timely(u, t), Rests(u, t),
           NEW s \in Nat, s >= t, WakeAt(u, t) = Never \/ s < WakeAt(u, t)
    PROVE  Calm(u, s)
<1>1. QueueOK(u)
  BY DEF Inv
<1>2. u.roots \in [Roots -> Seq(Waiter)]
  BY <1>1, QueueFields
<1>3. CASE Busy(u) = {}
  <2>1. \A root \in Roots : DOMAIN u.roots[root] = {}
    <3> SUFFICES ASSUME NEW root \in Roots PROVE DOMAIN u.roots[root] = {}
      OBVIOUS
    <3>1. u.roots[root] = <<>>
      BY <1>3 DEF Busy
    <3>2. QED
      BY <3>1
  <2>2. QED
    BY <1>1, <1>3, <2>1, NobodyBlocked DEF Calm, Timely
<1>4. CASE Busy(u) # {}
  <2> DEFINE w == WakeAt(u, t)
  <2>1. /\ w \in Nat \ {Never}
        /\ \A root \in Roots : \A k \in DOMAIN u.roots[root] : w <= u.roots[root][k].deadline
        /\ \A root \in Busy(u) : LET at == HeadOf(u, root).enqueued + MaxAge IN at > t => w <= at
        /\ t < u.cooldown_until => w <= u.cooldown_until
        /\ ~(t < u.cooldown_until) => NextWake(u.ledger) = Never \/ w <= NextWake(u.ledger)
    BY <1>1, <1>4, WakeAtEarly
  <2>2. s < w
    BY <2>1
  <2> HIDE DEF w
  <2>3. Timely(u, s)
    <3> SUFFICES ASSUME NEW root \in Roots, NEW k \in DOMAIN u.roots[root]
                 PROVE  s < u.roots[root][k].deadline
      BY DEF Timely
    <3>1. u.roots[root][k] \in Waiter
      BY <1>2
    <3>2. w <= u.roots[root][k].deadline /\ u.roots[root][k].deadline \in Nat
      BY <2>1, <3>1 DEF Waiter
    <3>3. QED
      BY <2>1, <2>2, <3>2
  <2>4. CASE t < u.cooldown_until
    <3>1. u.cooldown_until \in Nat
      BY <1>1, QueueFields
    <3>2. s < u.cooldown_until
      BY <2>1, <2>2, <2>4, <3>1
    <3>3. QED
      BY <2>3, <3>2 DEF Calm, Blocked
  <2>5. CASE ~(t < u.cooldown_until)
    <3> DEFINE B == BarrierAt(u, t)
               L == LedgerAdvance(u.ledger, t)
               M == LedgerAdvance(u.ledger, s)
               e == Viewed(u, s)
    <3>1. u = Viewed(u, t)
      <4>1. DrivePass(u, t) = Viewed(u, t)
        BY <2>5, PassCases DEF Rests
      <4>2. QED
        BY <4>1 DEF Rests
    <3>2. u = [u EXCEPT !.barrier = B, !.ledger = L]
      BY <1>1, <1>4, <3>1, ViewedIs
    <3>3. u.barrier = B /\ u.ledger = L
      <4> HIDE DEF B, L
      <4>1. QED
        BY <1>1, <3>2 DEF QueueOK, QueueType
    <3>4. \A root \in Busy(u) : Overdue(HeadOf(u, root), s) <=> Overdue(HeadOf(u, root), t)
      <4> SUFFICES ASSUME NEW root \in Busy(u)
                   PROVE  Overdue(HeadOf(u, root), s) <=> Overdue(HeadOf(u, root), t)
        OBVIOUS
      <4> DEFINE at == HeadOf(u, root).enqueued + MaxAge
      <4>1. at \in Nat
        <5>1. HeadOf(u, root) \in Waiter
          BY <1>2 DEF Busy, HeadOf
        <5>2. MaxAge \in Nat
          BY AdmissionAssumption
        <5>3. QED
          BY <5>1, <5>2 DEF Waiter
      <4>2. at > t => w <= at
        BY <2>1
      <4>3. Overdue(HeadOf(u, root), s) <=> HeadOf(u, root).bypasses >= MaxBypasses \/ s >= at
        BY DEF Overdue
      <4>4. Overdue(HeadOf(u, root), t) <=> HeadOf(u, root).bypasses >= MaxBypasses \/ t >= at
        BY DEF Overdue
      <4> HIDE DEF at
      <4>5. s >= at <=> t >= at
        BY <2>1, <2>2, <4>1, <4>2
      <4>6. QED
        BY <4>3, <4>4, <4>5
    <3>5. BarrierAt(u, s) = u.barrier
      <4>1. BarrierAt(u, s) = BarrierAt(u, t)
        BY <3>4 DEF BarrierAt
      <4>2. QED
        BY <3>3, <4>1
    <3>6. e = [u EXCEPT !.barrier = u.barrier, !.ledger = M]
      BY <1>1, <1>4, <3>5, ViewedIs
    <3> HIDE DEF e, M, B, L
    <3>7. /\ e.roots = u.roots /\ e.ledger = M /\ e.recovery = u.recovery /\ e.barrier = u.barrier
          /\ e.cursor = u.cursor
      BY <1>1, <3>6 DEF QueueOK, QueueType
    <3>8. \A cost : LedgerFits(M, cost) <=> LedgerFits(u.ledger, cost)
      <4>1. LedgerOK(u.ledger)
        BY <1>1, QueueFields
      <4>2. NextWake(u.ledger) = Never \/ s < NextWake(u.ledger)
        <5>1. NextWake(u.ledger) \in Nat
          BY <4>1, NextWakeNat
        <5>2. QED
          BY <2>1, <2>2, <2>5, <5>1
      <4>3. QED
        BY <3>3, <4>1, <4>2, FitsUntilWake DEF L, M
    <3>9. \A cost : Eligible(e, cost) <=> Eligible(u, cost)
      BY <3>7 DEF Eligible, Exempt
    <3>10. Busy(e) = Busy(u) /\ \A root : HeadOf(e, root) = HeadOf(u, root)
      BY <3>7 DEF Busy, HeadOf
    <3>11. Fitting(e) = Fitting(u)
      BY <3>7, <3>8, <3>9, <3>10 DEF Fitting, HeadFits
    <3>12. \A F : Select(e, F) = Select(u, F)
      BY <3>7 DEF Select, Distance
    <3>13. Select(u, Fitting(u)) = {}
      BY <2>5, <3>1 DEF Rests, Blocked
    <3>14. QED
      BY <2>3, <3>11, <3>12, <3>13 DEF Calm, Blocked, e
  <2>6. QED
    BY <2>4, <2>5
<1>5. QED
  BY <1>3, <1>4

(* Someone who sleeps may: nobody can be decided before its timer. *)
Sleepy(u, rq, c, r) ==
    \A t \in Nat : t >= c /\ (rq[r].wake = Never \/ t < rq[r].wake) => Calm(u, t)

(* The queue is within MAX_WAITING, a decided ticket's waiter is notified  *)
(* and whoever was not notified may sleep until its timer.                 *)
Wakeful(u, rq, c) ==
    /\ QLen(u) <= MaxWaiting
    /\ \A r \in Requests : u.cell[r] # NoId => rq[r].woken
    /\ \A r \in Requests : rq[r].phase = "waiting" /\ ~rq[r].woken => Sleepy(u, rq, c, r)

-----------------------------------------------------------------------------
(* Notify::notify_waiters reaches everybody who waits. *)
LEMMA NotifiedAwake ==
    ASSUME NEW rq, NotifyWaiters(rq) \in [Requests -> Request]
    PROVE  \A s \in Requests : NotifyWaiters(rq)[s].phase = "waiting" => NotifyWaiters(rq)[s].woken
<1> SUFFICES ASSUME NEW s \in Requests, NotifyWaiters(rq)[s].phase = "waiting"
             PROVE  NotifyWaiters(rq)[s].woken
  OBVIOUS
<1> DEFINE x == rq[s]
           y == NotifyWaiters(rq)[s]
<1>1. y \in Request
  OBVIOUS
<1>2. y = IF x.phase = "waiting" THEN [x EXCEPT !.woken = TRUE] ELSE x
  BY DEF NotifyWaiters
<1> HIDE DEF x
<1>3. y = [x EXCEPT !.woken = TRUE]
  BY <1>2
<1> HIDE DEF y
<1>4. "woken" \in DOMAIN x
  <2>1. "woken" \in DOMAIN y
    BY <1>1 DEF Request
  <2>2. QED
    BY <1>3, <2>1
<1>5. y.woken = TRUE
  BY <1>3, <1>4
<1>6. QED
  BY <1>5 DEF y

(* When everybody who waits was notified nobody sleeps. *)
LEMMA AwakeWakeful ==
    ASSUME NEW u, NEW rq, Inv(u, rq), NEW c, QLen(u) <= MaxWaiting,
           \A s \in Requests : rq[s].phase = "waiting" => rq[s].woken
    PROVE  Wakeful(u, rq, c)
BY DEF Wakeful, Inv, Lined

(* A step that neither decides nor disturbs those who sleep. *)
LEMMA SleepersStay ==
    ASSUME NEW u, NEW rq, NEW c \in Nat, Wakeful(u, rq, c),
           NEW v, NEW sq, NEW d \in Nat, d >= c, QLen(v) <= MaxWaiting,
           \A s \in Requests : v.cell[s] # NoId => sq[s].woken,
           \A t \in Nat : t >= d /\ Calm(u, t) => Calm(v, t),
           \A s \in Requests : sq[s].phase = "waiting" =>
              sq[s].woken \/ sq[s] = rq[s] \/ Sleepy(v, sq, d, s)
    PROVE  Wakeful(v, sq, d)
<1>1. ASSUME NEW s \in Requests, sq[s].phase = "waiting", ~sq[s].woken
      PROVE  Sleepy(v, sq, d, s)
  <2>1. CASE sq[s] = rq[s]
    <3> SUFFICES ASSUME NEW t \in Nat, t >= d, sq[s].wake = Never \/ t < sq[s].wake
                 PROVE  Calm(v, t)
      BY DEF Sleepy
    <3>1. Sleepy(u, rq, c, s)
      BY <1>1, <2>1 DEF Wakeful
    <3>2. t >= c /\ (rq[s].wake = Never \/ t < rq[s].wake)
      BY <2>1
    <3>3. Calm(u, t)
      BY <3>1, <3>2 DEF Sleepy
    <3>4. QED
      BY <3>3
  <2>2. QED
    BY <1>1, <2>1
<1>2. QED
  BY <1>1 DEF Wakeful

(* The holders' calls notify everybody. *)
LEMMA HolderWakes ==
    ASSUME AdmissionInv, AdmissionInv', Wakeful(q, req, clock), NEW r \in Requests,
           Start(r) \/ Drop(r) \/ Retry(r) \/ Headers(r) \/ Rejected(r)
    PROVE  Wakeful(q, req, clock)'
<1>1. Aloof(q, q') /\ Inv(q', req') /\ req' \in [Requests -> Request]
  BY HoldersQueue DEF AdmissionInv, Inv
<1>2. QLen(q') <= MaxWaiting
  <2>1. \A root \in Roots : Len(q'.roots[root]) = Len(q.roots[root])
    BY <1>1 DEF Aloof
  <2>2. QED
    BY <2>1, QLenSame DEF Wakeful
<1>3. \E rq : req' = NotifyWaiters(rq)
  <2>1. Start(r) => \E rq : req' = NotifyWaiters(rq)
    BY DEF Start
  <2>2. Drop(r) => \E rq : req' = NotifyWaiters(rq)
    BY DEF Drop
  <2>3. Retry(r) => \E rq : req' = NotifyWaiters(rq)
    BY DEF Retry
  <2>4. Headers(r) => \E rq : req' = NotifyWaiters(rq)
    BY DEF Headers
  <2>5. Rejected(r) => \E rq : req' = NotifyWaiters(rq)
    BY DEF Rejected
  <2>6. QED
    BY <2>1, <2>2, <2>3, <2>4, <2>5
<1>4. \A s \in Requests : req'[s].phase = "waiting" => req'[s].woken
  BY <1>1, <1>3, NotifiedAwake
<1>5. QED
  BY <1>1, <1>2, <1>4, AwakeWakeful

(* A request that did not come back yet goes. *)
LEMMA AbandonRequeueWakes ==
    ASSUME AdmissionInv, Wakeful(q, req, clock), NEW r \in Requests, AbandonRequeue(r)
    PROVE  Wakeful(q, req, clock)'
<1>1. /\ clock \in Nat /\ clock' = clock /\ q' = q /\ req' = [req EXCEPT ![r] = Done]
      /\ req \in [Requests -> Request] /\ req[r].phase = "requeue" /\ Lined(q, req)
  BY DEF AdmissionInv, Inv, AbandonRequeue
<1>2. req'[r] = Done /\ \A s \in Requests \ {r} : req'[s] = req[s]
  BY <1>1
<1>3. \A s \in Requests : q'.cell[s] # NoId => req'[s].woken
  BY <1>1, <1>2 DEF Lined, Wakeful
<1>4. \A s \in Requests : req'[s].phase = "waiting" => req'[s] = req[s]
  BY <1>2, DoneRequest
<1>5. QLen(q') <= MaxWaiting /\ clock' >= clock /\ clock' \in Nat
  BY <1>1 DEF Wakeful
<1>6. \A t \in Nat : t >= clock' /\ Calm(q, t) => Calm(q', t)
  BY <1>1
<1>7. QED
  BY <1>1, <1>3, <1>4, <1>5, <1>6, SleepersStay

(* Time passes, and the status is read. *)
LEMMA BackgroundWakes ==
    ASSUME AdmissionInv, Wakeful(q, req, clock), Tick \/ Status \/ UNCHANGED vars
    PROVE  Wakeful(q, req, clock)'
<1>1. clock \in Nat /\ Inv(q, req) /\ QueueOK(q)
  BY DEF AdmissionInv, Inv
<1>2. CASE Tick
  <2>1. q' = q /\ req' = req /\ clock' \in Nat /\ clock' >= clock
    BY <1>1, <1>2 DEF Tick
  <2>2. /\ QLen(q') <= MaxWaiting
        /\ \A s \in Requests : q'.cell[s] # NoId => req'[s].woken
        /\ \A t \in Nat : t >= clock' /\ Calm(q, t) => Calm(q', t)
    BY <2>1 DEF Wakeful
  <2>3. QED
    BY <1>1, <2>1, <2>2, SleepersStay
<1>3. CASE Status
  <2> DEFINE L == LedgerAdvance(q.ledger, clock)
             a == [q EXCEPT !.ledger = LedgerAdvance(@, clock)]
  <2>1. q' = a /\ req' = req /\ clock' = clock
    BY <1>3 DEF Status
  <2>2. Inv(a, req) /\ a.cell = q.cell /\ a.roots = q.roots /\ a.barrier = q.barrier
    BY <1>1, AdvancedInv
  <2>3. a = [q EXCEPT !.ledger = L]
    BY <1>1 DEF QueueOK, QueueType
  <2> HIDE DEF a, L
  <2>4. a.ledger = L /\ a = [q EXCEPT !.barrier = a.barrier, !.ledger = a.ledger]
    <3>1. a.ledger = L
      BY <1>1, <2>3 DEF QueueOK, QueueType
    <3>2. q = [q EXCEPT !.barrier = q.barrier]
      BY <1>1 DEF QueueOK, QueueType
    <3>3. a = [q EXCEPT !.barrier = q.barrier, !.ledger = L]
      BY <2>3, <3>2
    <3>4. QED
      BY <2>2, <3>1, <3>3
  <2>5. After(q, a, clock)
    BY <2>2, <2>4 DEF After, L
  <2>6. QueueOK(a)
    BY <2>2 DEF Inv
  <2>7. \A t \in Nat : t >= clock' /\ Calm(q, t) => Calm(a, t)
    BY <1>1, <2>1, <2>5, <2>6, AfterCalm
  <2>8. QLen(a) <= MaxWaiting
    <3>1. \A root \in Roots : Len(a.roots[root]) = Len(q.roots[root])
      BY <2>2
    <3>2. QED
      BY <3>1, QLenSame DEF Wakeful
  <2>9. \A s \in Requests : a.cell[s] # NoId => req'[s].woken
    BY <2>1, <2>2 DEF Wakeful
  <2>10. clock' \in Nat /\ clock' >= clock
    BY <1>1, <2>1
  <2>11. QED
    BY <1>1, <2>1, <2>7, <2>8, <2>9, <2>10, SleepersStay
<1>4. CASE UNCHANGED vars
  BY <1>4 DEF vars, Wakeful, Sleepy
<1>5. QED
  BY <1>2, <1>3, <1>4

(* Queue::enqueue adds one ticket. *)
LEMMA EnqueueLen ==
    ASSUME NEW u, QueueOK(u), NEW r \in Requests, NEW enqueued, NEW deadline, QLen(u) < MaxWaiting
    PROVE  QLen(Enqueue(u, r, enqueued, deadline)) <= MaxWaiting
<1> DEFINE home == RootOf[r]
           w == [req |-> r, enqueued |-> enqueued, deadline |-> deadline,
                 sequence |-> u.sequence + 1, bypasses |-> 0]
           line == Append(u.roots[home], w)
           R == [u.roots EXCEPT ![home] = line]
           n == u.sequence + 1
           v == Enqueue(u, r, enqueued, deadline)
           f == LensOf(u)
           g == LensOf(v)
<1>1. home \in Roots /\ u.roots \in [Roots -> Seq(Waiter)] /\ MaxWaiting \in Nat
  BY QueueFields, AdmissionAssumption
<1>2. v = [u EXCEPT !.sequence = n, !.roots = R]
  BY DEF Enqueue, QueueOK, QueueType
<1>3. Len(line) = Len(u.roots[home]) + 1 /\ Len(u.roots[home]) \in Nat
  <2>1. u.roots[home] \in Seq(Waiter)
    BY <1>1
  <2>2. \A s \in Seq(Waiter) : Len(Append(s, w)) = Len(s) + 1 /\ Len(s) \in Nat
    <3> HIDE DEF w
    <3>1. QED
      OBVIOUS
  <2> HIDE DEF home, w
  <2>3. QED
    BY <2>1, <2>2
<1> HIDE DEF line, w, n
<1>4. v.roots = R
  <2> HIDE DEF R
  <2>1. QED
    BY <1>2 DEF QueueOK, QueueType
<1> HIDE DEF v, home
<1>5. \A root \in Roots : R[root] = IF root = home THEN line ELSE u.roots[root]
  BY <1>1
<1>6. \A root \in Roots : f[root] = Len(u.roots[root]) /\ f[root] \in Nat
  BY <1>1 DEF LensOf
<1>7. /\ g[home] = f[home] + 1
      /\ \A root \in Roots \ {home} : g[root] = f[root]
  BY <1>1, <1>3, <1>4, <1>5 DEF LensOf
<1>8. QLen(u) = Sum(f, Roots) /\ QLen(v) = Sum(g, Roots)
  BY QLenSum
<1> HIDE DEF f, g, R
<1>9. \A root \in Roots : g[root] \in Nat
  <2>1. g[home] \in Nat
    BY <1>1, <1>6, <1>7
  <2>2. \A root \in Roots \ {home} : g[root] \in Nat
    BY <1>6, <1>7
  <2>3. QED
    BY <2>1, <2>2
<1>10. /\ Sum(f, Roots) = f[home] + Sum(f, Roots \ {home})
       /\ Sum(g, Roots) = g[home] + Sum(g, Roots \ {home})
  <2>1. \A root \in Roots : f[root] \in Nat
    BY <1>6
  <2>2. \A a \in Roots : Sum(f, Roots) = f[a] + Sum(f, Roots \ {a})
    BY <2>1, RootsFinite, SumRemove, Zenon
  <2>3. \A a \in Roots : Sum(g, Roots) = g[a] + Sum(g, Roots \ {a})
    BY <1>9, RootsFinite, SumRemove, Zenon
  <2>4. QED
    BY <1>1, <2>2, <2>3
<1>11. IsFiniteSet(Roots \ {home})
  BY RootsFinite, FS_Subset
<1>12. Sum(f, Roots \ {home}) = Sum(g, Roots \ {home})
  BY <1>7, <1>11, SumSame
<1>13. Sum(f, Roots \ {home}) \in Nat
  BY <1>6, <1>11, SumNat
<1>14. QLen(v) = QLen(u) + 1 /\ QLen(u) \in Nat
  BY <1>1, <1>6, <1>7, <1>8, <1>10, <1>12, <1>13
<1>15. QED
  BY <1>1, <1>14 DEF v

(* acquire_at up to its loop. *)
LEMMA AcquireAtWakes ==
    ASSUME AdmissionInv, AdmissionInv', Wakeful(q, req, clock), NEW r \in Requests,
           req[r].phase \in {"idle", "requeue"},
           NEW enqueued \in Nat, NEW deadline \in Nat, AcquireAt(r, enqueued, deadline)
    PROVE  Wakeful(q, req, clock)'
<1> DEFINE driven == Drive(q, clock)
           rest == IF QLen(driven) # QLen(q) THEN NotifyWaiters(req) ELSE req
<1>1. /\ clock \in Nat /\ Inv(q, req) /\ req \in [Requests -> Request] /\ clock' = clock
      /\ Inv(q', req') /\ req' \in [Requests -> Request] /\ QLen(q) <= MaxWaiting /\ Lined(q, req)
  BY DEF AdmissionInv, Inv, AcquireAt, Wakeful
<1>2. /\ Inv(driven, req) /\ QLen(driven) \in Nat /\ QLen(driven) <= QLen(q)
      /\ QLen(driven) = QLen(q) =>
            /\ driven.cell = q.cell
            /\ \A s \in Nat : s >= clock /\ Calm(q, s) => Calm(driven, s)
  BY <1>1, DriveWake
<1>3. QLen(q) \in Nat /\ MaxWaiting \in Nat
  BY <1>1, QLenNat, QueueFields, AdmissionAssumption DEF Inv
<1>4. QLen(driven) <= MaxWaiting
  BY <1>1, <1>2, <1>3
<1>5. \/ q' = q /\ req' = [req EXCEPT ![r] = Done]
      \/ q' = driven /\ req' = [rest EXCEPT ![r] = Done]
      \/ /\ ~(QLen(driven) >= MaxWaiting)
         /\ q' = Enqueue(driven, r, enqueued, deadline)
         /\ \E rq : req' = NotifyWaiters(rq)
  BY DEF AcquireAt
<1> HIDE DEF driven
<1>6. \A s \in Requests : q.cell[s] # NoId => s # r /\ req[s].woken
  BY <1>1 DEF Lined, Wakeful
<1>7. ASSUME req' = [req EXCEPT ![r] = Done]
      PROVE  /\ \A s \in Requests : req'[s].phase = "waiting" => req'[s] = req[s]
             /\ \A s \in Requests \ {r} : req'[s] = req[s]
  BY <1>1, <1>7, DoneRequest
<1>8. CASE q' = q /\ req' = [req EXCEPT ![r] = Done]
  <2>1. /\ QLen(q') <= MaxWaiting /\ clock' \in Nat /\ clock' >= clock
        /\ \A s \in Requests : q'.cell[s] # NoId => req'[s].woken
        /\ \A t \in Nat : t >= clock' /\ Calm(q, t) => Calm(q', t)
    BY <1>1, <1>6, <1>7, <1>8
  <2>2. QED
    BY <1>1, <1>7, <1>8, <2>1, SleepersStay
<1>9. CASE q' = driven /\ req' = [rest EXCEPT ![r] = Done]
  <2>1. CASE QLen(driven) = QLen(q)
    <3>1. req' = [req EXCEPT ![r] = Done]
      BY <1>9, <2>1
    <3>2. /\ QLen(q') <= MaxWaiting /\ clock' \in Nat /\ clock' >= clock
          /\ \A s \in Requests : q'.cell[s] # NoId => req'[s].woken
          /\ \A t \in Nat : t >= clock' /\ Calm(q, t) => Calm(q', t)
      BY <1>1, <1>2, <1>4, <1>6, <1>7, <1>9, <2>1, <3>1
    <3>3. QED
      BY <1>1, <1>7, <3>1, <3>2, SleepersStay
  <2>2. CASE QLen(driven) # QLen(q)
    <3>1. NotifyWaiters(req) \in [Requests -> Request]
      BY <1>1, NotifyAlike
    <3>2. req' = [NotifyWaiters(req) EXCEPT ![r] = Done]
      BY <1>9, <2>2
    <3>3. \A s \in Requests : NotifyWaiters(req)[s].phase = "waiting" => NotifyWaiters(req)[s].woken
      BY <3>1, NotifiedAwake
    <3>4. \A s \in Requests : req'[s].phase = "waiting" => req'[s].woken
      BY <3>1, <3>2, <3>3, DoneRequest
    <3>5. QED
      BY <1>1, <1>4, <1>9, <3>4, AwakeWakeful
  <2>3. QED
    BY <2>1, <2>2
<1>10. CASE /\ ~(QLen(driven) >= MaxWaiting)
            /\ q' = Enqueue(driven, r, enqueued, deadline)
            /\ \E rq : req' = NotifyWaiters(rq)
  <2>1. QLen(driven) < MaxWaiting
    BY <1>2, <1>3, <1>10
  <2>2. QLen(q') <= MaxWaiting
    BY <1>2, <1>10, <2>1, EnqueueLen DEF Inv
  <2>3. \A s \in Requests : req'[s].phase = "waiting" => req'[s].woken
    BY <1>1, <1>10, NotifiedAwake
  <2>4. QED
    BY <1>1, <2>2, <2>3, AwakeWakeful
<1>11. QED
  <2> HIDE DEF rest
  <2>1. QED
    BY <1>5, <1>8, <1>9, <1>10

(* A turn of the waiter's loop. *)
LEMMA PollWakes ==
    ASSUME AdmissionInv, AdmissionInv', Wakeful(q, req, clock), NEW r \in Requests, Poll(r)
    PROVE  Wakeful(q, req, clock)'
<1> DEFINE driven == Drive(q, clock)
           outcome == driven.cell[r]
           n == WakeAt(driven, clock)
           asleep == [req[r] EXCEPT !.woken = FALSE, !.wake = n]
<1>1. /\ clock \in Nat /\ Inv(q, req) /\ req \in [Requests -> Request] /\ clock' = clock
      /\ Inv(q', req') /\ req' \in [Requests -> Request] /\ QLen(q) <= MaxWaiting
  BY DEF AdmissionInv, Inv, Poll, Wakeful
<1>2. /\ Inv(driven, req) /\ Timely(driven, clock) /\ Rests(driven, clock)
      /\ QLen(driven) \in Nat /\ QLen(driven) <= QLen(q)
      /\ QLen(driven) = QLen(q) =>
            /\ driven.cell = q.cell
            /\ \A s \in Nat : s >= clock /\ Calm(q, s) => Calm(driven, s)
  BY <1>1, DriveWake
<1>3. QLen(q) \in Nat /\ MaxWaiting \in Nat
  BY <1>1, QLenNat, QueueFields, AdmissionAssumption DEF Inv
<1>4. q' = [driven EXCEPT !.cell[r] = NoId]
  BY DEF Poll
<1>5. \/ \E rq : req' = NotifyWaiters(rq)
      \/ /\ outcome = NoId /\ QLen(driven) = QLen(q)
         /\ req' = [req EXCEPT ![r].woken = FALSE, ![r].wake = n]
  BY DEF Poll
<1> HIDE DEF driven
<1>6. /\ driven \in QueueType({driven.ledger}) /\ driven.cell \in [Requests -> Nat \cup {Expired}]
      /\ QueueOK(driven)
  BY <1>2, QueueFields DEF Inv, QueueOK
<1>7. q'.roots = driven.roots
  <2> DEFINE C == [driven.cell EXCEPT ![r] = NoId]
  <2>1. q' = [driven EXCEPT !.cell = C]
    BY <1>4, <1>6 DEF QueueType
  <2> HIDE DEF C
  <2>2. QED
    BY <1>6, <2>1 DEF QueueType
<1>8. QLen(q') <= MaxWaiting
  <2>1. \A root \in Roots : Len(q'.roots[root]) = Len(driven.roots[root])
    BY <1>7
  <2>2. QLen(q') = QLen(driven)
    BY <2>1, QLenSame
  <2>3. QED
    BY <1>1, <1>2, <1>3, <2>2
<1>9. CASE \E rq : req' = NotifyWaiters(rq)
  <2>1. \A s \in Requests : req'[s].phase = "waiting" => req'[s].woken
    BY <1>1, <1>9, NotifiedAwake
  <2>2. QED
    BY <1>1, <1>8, <2>1, AwakeWakeful
<1>10. CASE /\ outcome = NoId /\ QLen(driven) = QLen(q)
            /\ req' = [req EXCEPT ![r].woken = FALSE, ![r].wake = n]
  <2>1. q' = driven
    <3>1. [driven.cell EXCEPT ![r] = NoId] = driven.cell
      BY <1>6, <1>10
    <3>2. QED
      BY <1>4, <1>6, <3>1 DEF QueueType
  <2>2. req' = [req EXCEPT ![r] = asleep]
    BY <1>1, <1>10
  <2>3. n \in Nat
    BY <1>1, <1>6, WakeAtNat
  <2> HIDE DEF n
  <2>4. asleep.wake = n
    BY <1>1 DEF Request
  <2> HIDE DEF asleep
  <2>5. req'[r].wake = n /\ \A s \in Requests \ {r} : req'[s] = req[s]
    BY <1>1, <2>2, <2>4
  <2>6. Sleepy(q', req', clock', r)
    <3> SUFFICES ASSUME NEW t \in Nat, t >= clock, n = Never \/ t < n
                 PROVE  Calm(driven, t)
      BY <1>1, <2>1, <2>5 DEF Sleepy
    <3>1. QED
      BY <1>1, <1>2, WakeCalm DEF n
  <2>7. \A s \in Requests : q'.cell[s] # NoId => req'[s].woken
    <3>1. \A s \in Requests : q'.cell[s] # NoId => s # r /\ req[s].woken
      BY <1>2, <1>10, <2>1 DEF Wakeful
    <3>2. QED
      BY <2>5, <3>1
  <2>8. \A t \in Nat : t >= clock' /\ Calm(q, t) => Calm(q', t)
    BY <1>1, <1>2, <1>10, <2>1
  <2>9. \A s \in Requests : req'[s] = req[s] \/ Sleepy(q', req', clock', s)
    BY <2>5, <2>6
  <2>10. clock' \in Nat /\ clock' >= clock
    BY <1>1
  <2>11. QED
    BY <1>1, <1>8, <2>7, <2>8, <2>9, <2>10, SleepersStay
<1>11. QED
  <2> HIDE DEF outcome, n
  <2>1. QED
    BY <1>5, <1>9, <1>10

(* Ticket::drop. *)
LEMMA AbandonWakes ==
    ASSUME AdmissionInv, AdmissionInv', Wakeful(q, req, clock), NEW r \in Requests, Abandon(r)
    PROVE  Wakeful(q, req, clock)'
<1> DEFINE home == RootOf[r]
           line == Without(q.roots[home], {r})
           R == [q.roots EXCEPT ![home] = line]
           C == [q.cell EXCEPT ![r] = NoId]
           left == [q EXCEPT !.roots = R, !.cell = C]
           id == q.cell[r]
           L == LedgerCancel(q.ledger, clock, id)
           gone == [left EXCEPT !.ledger = L]
           v == IF id > NoId THEN ReleaseProbe(gone, id) ELSE left
<1>1. /\ clock \in Nat /\ Inv(q, req) /\ Inv(q', req') /\ req' \in [Requests -> Request]
      /\ q \in QueueType({q.ledger}) /\ home \in Roots
      /\ q.roots \in [Roots -> Seq(Waiter)] /\ QLen(q) <= MaxWaiting
  BY QueueFields, AdmissionAssumption DEF AdmissionInv, Inv, QueueOK, Wakeful
<1>2. q' = CancelTicket(q, clock, r) /\ \E rq : req' = NotifyWaiters(rq)
  BY DEF Abandon
<1>3. q' = Protect(v, clock)
  <2>1. left = [q EXCEPT !.roots[RootOf[r]] = Without(@, {r}), !.cell[r] = NoId]
    BY <1>1 DEF QueueType
  <2>2. gone = [left EXCEPT !.ledger = LedgerCancel(@, clock, id)]
    BY <1>1 DEF QueueType
  <2>3. QED
    BY <1>2, <2>1, <2>2 DEF CancelTicket
<1>4. line \in Seq(Waiter) /\ Len(line) <= Len(q.roots[home])
  BY <1>1, WithoutTrims DEF Trimmed
<1> HIDE DEF line, home
<1>5. /\ R \in [Roots -> Seq(Waiter)]
      /\ \A root \in Roots : Len(R[root]) <= Len(q.roots[root])
  BY <1>1, <1>4
<1> HIDE DEF R, C
<1>6. Record(left) /\ left.roots = R
  BY <1>1 DEF Record, QueueType
<1> HIDE DEF left, L
<1>7. v.roots = R
  <2>1. Record(gone) /\ gone.roots = R
    BY <1>6 DEF Record
  <2> HIDE DEF gone
  <2>2. ReleaseProbe(gone, id).roots = R
    BY <2>1, ReleaseAloof DEF Aloof
  <2>3. QED
    BY <1>6, <2>2
<1> HIDE DEF v
<1>8. q'.roots = R
  <2>1. Record(v)
    <3>1. Record(gone)
      BY <1>6 DEF Record
    <3> HIDE DEF gone
    <3>2. QED
      BY <1>6, <3>1, ReleaseAloof DEF v, Aloof
  <2>2. q' = v \/ \E b : q' = [v EXCEPT !.barrier = b]
    BY <1>3 DEF Protect
  <2>3. QED
    BY <1>7, <2>1, <2>2 DEF Record
<1>9. QLen(q') <= MaxWaiting
  <2>1. QLen(q) \in Nat /\ QLen(q') \in Nat /\ QLen(q') <= QLen(q)
    BY <1>1, <1>5, <1>8, QLenLess
  <2>2. MaxWaiting \in Nat
    BY AdmissionAssumption
  <2>3. QED
    BY <1>1, <2>1, <2>2
<1>10. \A s \in Requests : req'[s].phase = "waiting" => req'[s].woken
  BY <1>1, <1>2, NotifiedAwake
<1>11. QED
  BY <1>1, <1>9, <1>10, AwakeWakeful

(* At first nobody waits. *)
LEMMA InitWakeful == Init => Wakeful(q, req, clock)
<1> SUFFICES ASSUME Init PROVE Wakeful(q, req, clock)
  OBVIOUS
<1>1. /\ q.roots = [root \in Roots |-> <<>>] /\ q.cell = [r \in Requests |-> NoId]
      /\ \A r \in Requests : req[r].phase = "idle"
  BY DoneRequest DEF Init, QueueNew
<1>2. QLen(q) = 0
  <2>1. \A root \in Roots : Len(q.roots[root]) = 0
    BY <1>1
  <2> DEFINE f == LensOf(q)
  <2>2. \A root \in Roots : f[root] = 0
    BY <2>1 DEF LensOf
  <2>3. Sum(f, Roots) <= Sum(f, Roots \ Roots)
    <3> HIDE DEF f
    <3>1. IsFiniteSet({})
      BY FS_EmptySet
    <3>2. Sum(f, Roots) <= Sum(f, {})
      BY <2>2, <3>1, RootsFinite, SumInto
    <3>3. QED
      BY <3>2
  <2>4. Sum(f, {}) = 0
    BY FS_EmptySet, SumStep
  <2>5. Sum(f, Roots) \in Nat
    <3> HIDE DEF f
    <3>1. QED
      BY <2>2, RootsFinite, SumNat
  <2>6. Roots \ Roots = {}
    OBVIOUS
  <2>7. QLen(q) = Sum(f, Roots)
    BY QLenSum
  <2> HIDE DEF f
  <2>8. QED
    BY <2>3, <2>4, <2>5, <2>6, <2>7
<1>3. MaxWaiting \in Nat
  BY AdmissionAssumption
<1>4. QED
  BY <1>1, <1>2, <1>3 DEF Wakeful

(* Every step. *)
LEMMA WakefulStep ==
    ASSUME AdmissionInv, Wakeful(q, req, clock), [Next]_vars
    PROVE  Wakeful(q, req, clock)'
<1>1. AdmissionInv'
  BY NextStep
<1>2. CASE Tick \/ Status \/ UNCHANGED vars
  BY <1>2, BackgroundWakes
<1>3. ASSUME NEW r \in Requests, Acquire(r) PROVE Wakeful(q, req, clock)'
  <2>1. /\ req[r].phase = "idle" /\ AcquireAt(r, clock, clock + WaitOf[r]) /\ clock \in Nat
        /\ clock + WaitOf[r] \in Nat
    BY <1>3, AdmissionAssumption DEF Acquire, AdmissionInv
  <2>2. QED
    BY <1>1, <2>1, AcquireAtWakes
<1>4. ASSUME NEW r \in Requests, Reacquire(r) PROVE Wakeful(q, req, clock)'
  <2>1. req[r].phase = "requeue" /\ AcquireAt(r, req[r].enqueued, req[r].deadline)
    BY <1>4 DEF Reacquire
  <2>2. req[r].enqueued \in Nat /\ req[r].deadline \in Nat
    BY DEF AdmissionInv, Inv, Request
  <2>3. QED
    BY <1>1, <2>1, <2>2, AcquireAtWakes
<1>5. QED
  BY <1>1, <1>2, <1>3, <1>4, PollWakes, AbandonWakes, AbandonRequeueWakes, HolderWakes DEF Next

(* A decided ticket's waiter is notified, and whoever sleeps may: before   *)
(* its timer nobody can be admitted and nobody's deadline passes, whatever *)
(* was released, announced or settled since it went to sleep.              *)
THEOREM AdmissionWakeful == Spec => []Wakeful(q, req, clock)
<1>1. ASSUME AdmissionInv, Wakeful(q, req, clock), [Next]_vars PROVE Wakeful(q, req, clock)'
  BY <1>1, WakefulStep
<1>2. QED
  BY <1>1, InitWakeful, AdmissionInvariant, PTL DEF Spec

(* No release, rejection, cooldown, expiry or abandoned ticket goes by     *)
(* without the wake-up it calls for: in a queue whose waiters all sleep,   *)
(* a call of drive decides nobody.                                         *)
THEOREM AdmissionNoLostWakeup == Spec => []NoLostWakeup
<1>1. ASSUME AdmissionInv, Wakeful(q, req, clock) PROVE NoLostWakeup
  <2>1. clock \in Nat /\ Inv(q, req) /\ req \in [Requests -> Request] /\ QLen(q) <= MaxWaiting
    BY <1>1 DEF AdmissionInv, Inv, Wakeful
  <2>2. \A r \in Requests : q.cell[r] # NoId => req[r].phase = "waiting" /\ req[r].woken
    BY <1>1, <2>1 DEF Inv, Lined, Wakeful
  <2>3. ASSUME \A r \in In("waiting") : ~Ready(r) PROVE Drive(q, clock).cell = q.cell
    <3>1. Calm(q, clock)
      <4>1. CASE In("waiting") # {}
        <5>1. PICK r \in Requests : req[r].phase = "waiting"
          BY <4>1 DEF In
        <5>2. ~req[r].woken /\ (req[r].wake = Never \/ ~(clock >= req[r].wake))
          BY <2>3, <5>1 DEF In, Ready
        <5>3. req[r].wake \in Nat
          BY <2>1 DEF Request
        <5>4. Sleepy(q, req, clock, r)
          BY <1>1, <5>1, <5>2 DEF Wakeful
        <5>5. req[r].wake = Never \/ clock < req[r].wake
          BY <2>1, <5>2, <5>3
        <5>6. QED
          BY <2>1, <5>4, <5>5 DEF Sleepy
      <4>2. CASE In("waiting") = {}
        <5>1. \A root \in Roots : DOMAIN q.roots[root] = {}
          <6> SUFFICES ASSUME NEW root \in Roots, NEW k \in DOMAIN q.roots[root] PROVE FALSE
            OBVIOUS
          <6>1. q.roots[root][k].req \in Requests /\ req[q.roots[root][k].req].phase = "waiting"
            BY <2>1, QueuedTicket
          <6>2. QED
            BY <4>2, <6>1 DEF In
        <5>2. Busy(q) = {}
          <6> SUFFICES ASSUME NEW root \in Roots, q.roots[root] # <<>> PROVE FALSE
            BY DEF Busy
          <6>1. 1 \in DOMAIN q.roots[root]
            BY <2>1, FirstOfLine DEF Busy, Inv
          <6>2. QED
            BY <5>1, <6>1
        <5>3. QED
          BY <2>1, <5>1, <5>2, NobodyBlocked DEF Calm, Timely, Inv
      <4>3. QED
        BY <4>1, <4>2
    <3>2. QED
      BY <2>1, <3>1, DriveWake
  <2>4. QED
    BY <2>2, <2>3 DEF NoLostWakeup
<1>2. QED
  BY <1>1, AdmissionInvariant, AdmissionWakeful, PTL
=============================================================================
