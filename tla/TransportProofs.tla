-------------------------- MODULE TransportProofs --------------------------
(***************************************************************************)
(* Safety of transport/: Gateway for any number of requests, places and    *)
(* frames, with its use of Slots, and Streams for any texts and values.    *)
(*                                                                         *)
(* Gateway.  Every step but those of the server concerns one request, so   *)
(* the inductive invariant is a predicate Sound of one request's record    *)
(* and its place, together with who owns the flight and the probe, two     *)
(* counts, and what the server's phases say.  OneRequest reduces a step to *)
(* a statement about one record.                                           *)
(*                                                                         *)
(* Streams.  The reference parser defines the events of a whole text, the  *)
(* decoder goes from byte to byte.  They are brought together by what one  *)
(* symbol more does to each: EventsAppend for the text, ProcessIs for the  *)
(* decoder, under Relates, which says what the decoder holds of the open   *)
(* line and the open block.  The observers are related to the events in    *)
(* the same way, event by event, under Follows.                            *)
(***************************************************************************)
EXTENDS Gateway, Streams, SumTheorems, FiniteSetTheorems, SequenceTheorems, TLAPS

Record == [handler : {"idle", "head", "relay", "done"} \cup PreSpawn,
           worker : {"none", "queued", "gone"} \cup Working,
           here : BOOLEAN, result : {"none", "lost", "eof", "fail"},
           body : Nat, queue : Nat, retried : BOOLEAN, drain : BOOLEAN,
           prefix : BOOLEAN, eof : BOOLEAN, sends : Nat,
           end : {"none", "truncated"}]

SlotStates == {"none", "waiting", "held", "started"}

(* A request that has not used its place: the handler still has it, or the *)
(* worker has not started.                                                 *)
Early(y) == y.handler \in PreSpawn \/ y.worker \in PreStart \cup {"queued"}

(* Where the request is decides what it has of admission. *)
Place(y, s) ==
    /\ y.handler \in {"idle", "body", "circuit", "turn", "recheck"} => s = "none"
    /\ y.handler = "queue" => s \in {"none", "waiting", "held"}
    /\ y.handler = "spawn" => s = "held"
    /\ y.worker \in {"queued", "gate"} => s = "held"
    /\ y.worker \in {"again", "replay"} => s \in {"none", "waiting", "held"}
    /\ y.worker \in {"parked", "gone"} => s = "none"
    /\ y.worker \in OnWire => s = "started"

(* How often it was sent; only a first answer is classified. *)
Sent(y) ==
    /\ y.worker \in {"none", "queued"} => y.sends = 0 /\ ~y.retried
    /\ y.worker \in {"gate", "parked", "again"} => y.sends = IF y.retried THEN 1 ELSE 0
    /\ y.worker = "replay" => y.sends = 1 /\ ~y.retried
    /\ y.worker \in OnWire => y.sends = IF y.retried THEN 2 ELSE 1
    /\ y.worker = "classify" => ~y.retried
    /\ y.sends <= 2

Sound(y, s) ==
    /\ y.worker = "none" <=> y.handler \in {"idle"} \cup PreSpawn
    /\ Place(y, s)
    /\ Sent(y)
    /\ y.body > 0 => Early(y) \/ y.worker \in {"sent", "classify", "refused"}
    /\ y.drain => y.worker \in OnWire \cup {"gone"}
    /\ y.drain => y.handler = "done" \/ ~y.here
    /\ y.result = "eof" => y.eof
    /\ y.end = "none"

Busy == {r \in Requests : x[r].worker \in Working}
Draining == {r \in Requests : x[r].worker \in Working /\ x[r].drain}

TypeInv ==
    /\ x \in [Requests -> Record]
    /\ slot \in [Requests -> SlotStates]
    /\ gate \in {"closed", "open", "half"} /\ probe \in Requests \cup {None}
    /\ flight \in Requests \cup {None, Earlier}
    /\ stop \in BOOLEAN /\ force \in BOOLEAN
    /\ server \in {"serving", "draining", "aborting", "forcing", "stopped", "failed"}
    /\ supervisor \in {"running", "closing", "aborting", "done"}
    /\ active \in Int /\ draining \in Int

(* Who owns the flight or the probe still has a use for it. *)
Owned ==
    /\ \A r \in Requests :
          /\ flight = r => Early(x[r]) \/ (x[r].worker \in OnWire /\ ~x[r].drain)
          /\ probe = r => x[r].worker \in OnWire
    /\ gate = "half" <=> probe # None

(* What serve and supervise_workers have waited for by now. *)
Waited ==
    /\ server \in {"forcing", "stopped"} => HandlersDone
    /\ server = "stopped" => supervisor = "done"
    /\ supervisor = "done" => NoWorkers

GatewayInv ==
    /\ TypeInv
    /\ \A r \in Requests : Sound(x[r], slot[r])
    /\ Owned
    /\ active = Cardinality(Busy) /\ draining = Cardinality(Draining)
    /\ Cardinality(Admission!Placed) <= Concurrency
    /\ Waited

-----------------------------------------------------------------------------
(* Counting: how one request's change shows in a number of requests. *)
Shift(n, before, after) ==
    (n + (IF after THEN 1 ELSE 0)) - (IF before THEN 1 ELSE 0)

(* A set that changes in r alone changes its size by what r does. *)
LEMMA CountOne ==
    ASSUME NEW S, NEW T, NEW r, IsFiniteSet(S), \A q : q # r => (q \in S <=> q \in T)
    PROVE  /\ IsFiniteSet(T)
           /\ Cardinality(T) = Shift(Cardinality(S), r \in S, r \in T)
<1>1. CASE r \in S /\ r \notin T
  <2>1. T = S \ {r}
    BY <1>1
  <2>2. QED
    BY <1>1, <2>1, FS_RemoveElement, FS_CardinalityType DEF Shift
<1>2. CASE r \notin S /\ r \in T
  <2>1. T = S \cup {r}
    BY <1>2
  <2>2. QED
    BY <1>2, <2>1, FS_AddElement, FS_CardinalityType DEF Shift
<1>3. CASE r \in S <=> r \in T
  <2>1. T = S
    BY <1>3
  <2>2. QED
    BY <1>3, <2>1, FS_CardinalityType DEF Shift
<1>4. QED
  BY <1>1, <1>2, <1>3

(* A record that is put away is sound with no place, any other is kept. *)
LEMMA SettledSound ==
    ASSUME NEW y \in Record, NEW s \in SlotStates, y.end = "none",
           IF y.handler = "done" /\ y.worker \in {"none", "gone"}
           THEN s = "none" ELSE Sound(y, s)
    PROVE  /\ Settled(y) \in Record /\ Sound(Settled(y), s)
           /\ Settled(y).handler = y.handler
           /\ Settled(y).worker = y.worker \/ {y.worker, Settled(y).worker} \subseteq {"none", "gone"}
           /\ y.worker \in Working => Settled(y) = y
           /\ Early(y) => Settled(y) = y
<1>1. CASE y.handler = "done" /\ y.worker \in {"none", "gone"}
  <2> DEFINE z == [Fresh EXCEPT !.handler = "done", !.worker = "gone", !.end = y.end]
  <2>1. Settled(y) = z
    BY <1>1 DEF Settled
  <2>2. /\ z \in Record /\ z.handler = "done" /\ z.worker = "gone" /\ z.end = "none"
        /\ z.sends = 0 /\ z.body = 0 /\ ~z.drain /\ z.result = "none"
    BY ZenonT(60) DEF Fresh, Record, PreSpawn, Working, PreStart, OnWire
  <2>3. Sound(z, s)
    BY <1>1, <2>2 DEF Sound, Place, Sent, PreSpawn, OnWire
  <2>4. QED
    BY <1>1, <2>1, <2>2, <2>3 DEF Early, PreSpawn, PreStart, Working, OnWire
<1>2. CASE ~(y.handler = "done" /\ y.worker \in {"none", "gone"})
  BY <1>2 DEF Settled
<1>3. QED
  BY <1>1, <1>2

-----------------------------------------------------------------------------
(* One request changes to y with the place s. *)
Changes(r, y, s) ==
    /\ Update(r, y) /\ y.end = "none"
    /\ slot' = [slot EXCEPT ![r] = s]
    /\ IF y.handler = "done" /\ y.worker \in {"none", "gone"}
       THEN s = "none" ELSE Sound(y, s)
    /\ s \in {"held", "started"} => slot[r] \in {"held", "started"} \/ Admission!Room({r})

(* It takes, keeps or gives up the flight and the probe only as it may. *)
Circuits(r, y) ==
    /\ gate' \in {"closed", "open", "half"} /\ probe' \in {probe, None, r}
    /\ probe' = r => y.worker \in OnWire
    /\ gate' = "half" <=> probe' # None

Flights(r, y) ==
    /\ flight' \in {flight, None, r}
    /\ flight' = r => Early(y) \/ (y.worker \in OnWire /\ ~y.drain)

(* The gauges follow it, and the server's phases are respected. *)
Gauged(r, y) ==
    /\ active' = Shift(active, x[r].worker \in Working, y.worker \in Working)
    /\ draining' = Shift(draining, x[r].worker \in Working /\ x[r].drain,
                                   y.worker \in Working /\ y.drain)

Permitted(y) ==
    /\ UNCHANGED lifecycle
    /\ server \in {"forcing", "stopped"} => y.handler \in {"idle", "done"}
    /\ supervisor = "done" => y.worker \notin Working \cup {"queued"}

(* Slots counts as everyone does. *)
LEMMA SameCount == \A S : Admission!Cardinality(S) = Cardinality(S)
  BY DEF Admission!Cardinality, Cardinality, IsFiniteSet, Admission!IsFiniteSet

(* The invariant after a step of one request follows from its record alone. *)
LEMMA OneRequest ==
    ASSUME GatewayInv, NEW r \in Requests, NEW y \in Record, NEW s \in SlotStates,
           Changes(r, y, s), Circuits(r, y), Flights(r, y), Gauged(r, y), Permitted(y)
    PROVE  GatewayInv'
<1> DEFINE z == Settled(y)
<1>1. /\ z \in Record /\ Sound(z, s) /\ z.handler = y.handler
      /\ z.worker = y.worker \/ {y.worker, z.worker} \subseteq {"none", "gone"}
      /\ y.worker \in Working => z = y
      /\ Early(y) => z = y
  BY SettledSound DEF Changes
<1>2. /\ x \in [Requests -> Record] /\ slot \in [Requests -> SlotStates]
      /\ x' = [x EXCEPT ![r] = z] /\ slot' = [slot EXCEPT ![r] = s]
  BY DEF Changes, Update, GatewayInv, TypeInv
<1> HIDE DEF z
<1>3. /\ x' \in [Requests -> Record] /\ slot' \in [Requests -> SlotStates]
      /\ x'[r] = z /\ slot'[r] = s
      /\ \A q \in Requests \ {r} : x'[q] = x[q] /\ slot'[q] = slot[q]
  BY <1>1, <1>2
<1>4. \A q \in Requests : Sound(x'[q], slot'[q])
  <2>1. \A q \in Requests : Sound(x[q], slot[q])
    BY DEF GatewayInv
  <2>2. TAKE q \in Requests
  <2>3. CASE q = r
    BY <1>1, <1>3, <2>3
  <2>4. CASE q # r
    BY <1>3, <2>1, <2>4
  <2>5. QED
    BY <2>3, <2>4
<1>5. TypeInv'
  <2>1. gate' \in {"closed", "open", "half"} /\ probe' \in Requests \cup {None}
        /\ flight' \in Requests \cup {None, Earlier}
    BY DEF Circuits, Flights, GatewayInv, TypeInv
  <2>2. /\ stop' \in BOOLEAN /\ force' \in BOOLEAN
        /\ server' \in {"serving", "draining", "aborting", "forcing", "stopped", "failed"}
        /\ supervisor' \in {"running", "closing", "aborting", "done"}
    BY DEF Permitted, lifecycle, GatewayInv, TypeInv
  <2>3. active' \in Int /\ draining' \in Int
    BY DEF Gauged, Shift, GatewayInv, TypeInv
  <2>4. QED
    BY <1>3, <2>1, <2>2, <2>3 DEF TypeInv
<1>6. Owned'
  <2>1. ASSUME NEW q \in Requests, flight' = q
        PROVE  Early(x'[q]) \/ (x'[q].worker \in OnWire /\ ~x'[q].drain)
    <3>1. CASE q = r
      BY <1>1, <1>3, <2>1, <3>1 DEF Flights, Working
    <3>2. CASE q # r
      <4>1. q # None
        BY GatewayAssumption
      <4>2. flight = q
        BY <2>1, <3>2, <4>1 DEF Flights
      <4>3. QED
        BY <1>3, <3>2, <4>2 DEF GatewayInv, Owned
    <3>3. QED
      BY <3>1, <3>2
  <2>2. ASSUME NEW q \in Requests, probe' = q
        PROVE  x'[q].worker \in OnWire
    <3>1. CASE q = r
      BY <1>1, <1>3, <2>2, <3>1 DEF Circuits, Working
    <3>2. CASE q # r
      <4>1. q # None
        BY GatewayAssumption
      <4>2. probe = q
        BY <2>2, <3>2, <4>1 DEF Circuits
      <4>3. QED
        BY <1>3, <3>2, <4>2 DEF GatewayInv, Owned
    <3>3. QED
      BY <3>1, <3>2
  <2>3. QED
    BY <2>1, <2>2 DEF Owned, Circuits
<1>7. active' = Cardinality(Busy')
  <2>1. IsFiniteSet(Busy)
    BY GatewayAssumption, FS_Subset DEF Busy
  <2>2. \A q : q # r => (q \in Busy <=> q \in Busy')
    BY <1>3 DEF Busy
  <2>3. (r \in Busy <=> x[r].worker \in Working) /\ (r \in Busy' <=> y.worker \in Working)
    BY <1>1, <1>3 DEF Busy, Working, PreStart, OnWire
  <2>4. Cardinality(Busy') = Shift(Cardinality(Busy), r \in Busy, r \in Busy')
    BY <2>1, <2>2, CountOne
  <2>5. QED
    BY <2>3, <2>4 DEF Gauged, Shift, GatewayInv
<1>8. draining' = Cardinality(Draining')
  <2>1. IsFiniteSet(Draining)
    BY GatewayAssumption, FS_Subset DEF Draining
  <2>2. \A q : q # r => (q \in Draining <=> q \in Draining')
    BY <1>3 DEF Draining
  <2>3. /\ r \in Draining <=> x[r].worker \in Working /\ x[r].drain
        /\ r \in Draining' <=> y.worker \in Working /\ y.drain
    BY <1>1, <1>3 DEF Draining, Working, PreStart, OnWire
  <2>4. Cardinality(Draining') = Shift(Cardinality(Draining), r \in Draining, r \in Draining')
    BY <2>1, <2>2, CountOne
  <2>5. QED
    BY <2>3, <2>4 DEF Gauged, Shift, GatewayInv
<1>9. Cardinality(Admission!Placed') <= Concurrency
  <2> DEFINE P == {q \in Requests : slot[q] \in {"held", "started"}}
             Q == {q \in Requests : slot'[q] \in {"held", "started"}}
  <2>1. IsFiniteSet(P) /\ Cardinality(P) <= Concurrency /\ Concurrency \in Nat
    BY GatewayAssumption, FS_Subset DEF GatewayInv, Admission!Placed
  <2>2. Q \subseteq P \cup {r}
    BY <1>3
  <2>3. Q \subseteq P \/ Cardinality(P \cup {r}) <= Concurrency
    <3>1. CASE s \in {"held", "started"} /\ slot[r] \notin {"held", "started"}
      <4>1. Admission!Room({r})
        BY <3>1 DEF Changes
      <4>2. QED
        BY <4>1, SameCount DEF Admission!Room, Admission!Placed
    <3>2. CASE s \notin {"held", "started"} \/ slot[r] \in {"held", "started"}
      BY <1>3, <3>2
    <3>3. QED
      BY <3>1, <3>2
  <2>4. Admission!Placed' = Q
    BY DEF Admission!Placed
  <2> HIDE DEF P, Q
  <2>5. IsFiniteSet(P \cup {r})
    BY <2>1, FS_AddElement
  <2>6. PICK U : IsFiniteSet(U) /\ Q \subseteq U /\ Cardinality(U) <= Concurrency
    BY <2>1, <2>2, <2>3, <2>5
  <2>7. IsFiniteSet(Q) /\ Cardinality(Q) <= Cardinality(U)
    BY <2>6, FS_Subset
  <2>8. Cardinality(Q) \in Nat
    BY <2>7, FS_CardinalityType
  <2>9. Cardinality(U) \in Nat
    BY <2>6, FS_CardinalityType
  <2>10. QED
    BY <2>1, <2>4, <2>6, <2>7, <2>8, <2>9
<1>10. Waited'
  <2>1. HandlersDone /\ y.handler \in {"idle", "done"} => HandlersDone'
    BY <1>1, <1>3 DEF HandlersDone, Alive
  <2>2. NoWorkers /\ y.worker \notin Working \cup {"queued"} => NoWorkers'
    BY <1>1, <1>3 DEF NoWorkers, Working, PreStart, OnWire
  <2>3. QED
    BY <2>1, <2>2 DEF Permitted, lifecycle, GatewayInv, Waited
<1>11. QED
  BY <1>4, <1>5, <1>6, <1>7, <1>8, <1>9, <1>10 DEF GatewayInv

-----------------------------------------------------------------------------
(* What every step of a request may assume of it. *)
LEMMA Before ==
    ASSUME GatewayInv, NEW r \in Requests
    PROVE  /\ x[r] \in Record /\ slot[r] \in SlotStates /\ Sound(x[r], slot[r])
           /\ x[r].end = "none" /\ r # None
           /\ x \in [Requests -> Record] /\ slot \in [Requests -> SlotStates]
           /\ active \in Int /\ draining \in Int
           /\ flight = r => Early(x[r]) \/ (x[r].worker \in OnWire /\ ~x[r].drain)
           /\ probe = r => x[r].worker \in OnWire
           /\ gate \in {"closed", "open", "half"} /\ (gate = "half" <=> probe # None)
           /\ server \in {"forcing", "stopped"} => ~Alive(r)
           /\ supervisor = "done" => x[r].worker \notin Working \cup {"queued"}
  BY GatewayAssumption
  DEF GatewayInv, TypeInv, Sound, Owned, Waited, HandlersDone, NoWorkers

(* A step that changes the record alone. *)
LEMMA RecordAlone ==
    ASSUME GatewayInv, NEW r \in Requests, NEW y \in Record, Update(r, y),
           UNCHANGED <<slot, circuit, cache, lifecycle, gauges>>,
           Sound(y, slot[r]), ~(y.handler = "done" /\ y.worker \in {"none", "gone"}),
           (y.worker \in Working <=> x[r].worker \in Working), y.drain = x[r].drain,
           flight = r => Early(y) \/ (y.worker \in OnWire /\ ~y.drain),
           probe = r => y.worker \in OnWire,
           Permitted(y)
    PROVE  GatewayInv'
<1> USE Before
<1>1. Changes(r, y, slot[r])
  BY DEF Changes, Sound
<1>2. Circuits(r, y) /\ Flights(r, y)
  BY DEF Circuits, Flights, circuit, cache
<1>3. Gauged(r, y)
  BY DEF Gauged, gauges, Shift
<1>4. QED
  BY <1>1, <1>2, <1>3, OneRequest

(* However a handler ends. *)
LEMMA HandlerEndsInv ==
    ASSUME GatewayInv, NEW r \in Requests, Alive(r), HandlerEnds(r)
    PROVE  GatewayInv'
<1> DEFINE b == IF x[r].handler \in PreSpawn THEN 0 ELSE x[r].body
           y == [x[r] EXCEPT !.handler = "done", !.queue = 0, !.body = b]
           s == IF x[r].handler \in PreSpawn THEN "none" ELSE slot[r]
<1>1. /\ x[r] \in Record /\ slot[r] \in SlotStates /\ Sound(x[r], slot[r])
      /\ x[r].end = "none" /\ slot \in [Requests -> SlotStates]
      /\ x[r].handler \in PreSpawn => x[r].worker = "none"
      /\ b \in Nat
  BY Before DEF Sound, Record
<1>2. y \in Record /\ s \in SlotStates
  BY <1>1 DEF Record, SlotStates
<1>3. /\ y.handler = "done" /\ y.worker = x[r].worker /\ y.drain = x[r].drain
      /\ y.end = "none" /\ y.sends = x[r].sends /\ y.retried = x[r].retried
      /\ y.body = b /\ y.result = x[r].result /\ y.eof = x[r].eof
  BY <1>1 DEF Record
<1>4. Update(r, y) /\ slot' = [slot EXCEPT ![r] = s]
  BY <1>1 DEF HandlerEnds, SlotFree
<1>5. flight' = IF x[r].handler \in PreSpawn /\ flight = r THEN None ELSE flight
  BY DEF HandlerEnds, EndFlight, cache
<1> HIDE DEF y
<1>6. Changes(r, y, s)
  <2>1. CASE y.worker \in {"none", "gone"}
    <3>1. s = "none"
      BY <1>1, <1>3, <2>1 DEF Sound, Place, Alive
    <3>2. QED
      BY <1>3, <1>4, <2>1, <3>1 DEF Changes
  <2>2. CASE y.worker \notin {"none", "gone"}
    <3>1. Sound(y, s)
      BY <1>1, <1>3, <2>2 DEF Sound, Place, Sent, Early, PreSpawn, PreStart, OnWire, Record, Working
    <3>2. s = slot[r]
      BY <1>1, <1>3, <2>2
    <3>3. QED
      BY <1>3, <1>4, <2>2, <3>1, <3>2 DEF Changes
  <2>3. QED
    BY <2>1, <2>2
<1>7. Circuits(r, y)
  BY <1>3, Before DEF Circuits, HandlerEnds, circuit
<1>8. Flights(r, y)
  BY <1>3, <1>5, Before DEF Flights, Early
<1>9. Gauged(r, y)
  BY <1>3, Before DEF Gauged, HandlerEnds, gauges, Shift
<1>10. Permitted(y)
  BY <1>3, Before DEF Permitted, HandlerEnds
<1>11. QED
  BY <1>2, <1>6, <1>7, <1>8, <1>9, <1>10, OneRequest

(* An Attempt's outcome leaves the circuit's state consistent. *)
LEMMA ResolveCircuits ==
    ASSUME GatewayInv, NEW r \in Requests, NEW y, NEW outcome, Resolve(r, outcome)
    PROVE  Circuits(r, y)
  BY Before DEF Resolve, Circuits

(* However a worker ends, and whatever it leaves for the handler. *)
LEMMA WorkerGoneInv ==
    ASSUME GatewayInv, NEW r \in Requests, x[r].worker \in Working \cup {"queued"},
           NEW y \in Record, Update(r, y),
           y.worker = "gone" /\ y.handler = x[r].handler /\ y.here = x[r].here,
           y.body = 0 /\ y.sends = x[r].sends /\ y.drain = x[r].drain,
           y.end = x[r].end /\ (y.result = "eof" => y.eof),
           SlotFree(r), EndFlight(r), Circuits(r, y), Gauged(r, y), UNCHANGED lifecycle
    PROVE  GatewayInv'
<1>1. /\ x[r] \in Record /\ Sound(x[r], slot[r]) /\ x[r].end = "none"
      /\ r # None
  BY Before
<1>2. x[r].handler \notin {"idle"} \cup PreSpawn
  BY <1>1 DEF Sound, Working, PreStart, OnWire
<1>3. Changes(r, y, "none")
  <2>1. Sound(y, "none")
    BY <1>1, <1>2 DEF Sound, Place, Sent, PreSpawn, OnWire
  <2>2. QED
    BY <1>1, <2>1 DEF Changes, SlotFree
<1>4. Flights(r, y)
  BY <1>1 DEF Flights, EndFlight
<1>5. Permitted(y)
  BY Before DEF Permitted, Alive, Working, PreStart, OnWire
<1>6. QED
  BY <1>3, <1>4, <1>5, OneRequest DEF SlotStates

(* WorkerGuard::drop after an error, a deadline, an abort or an interrupt. *)
LEMMA WorkerEndsInv ==
    ASSUME GatewayInv, NEW r \in Requests, x[r].worker \in Working,
           NEW answer \in {"lost", "fail"}, NEW outcome, WorkerEnds(r, answer, outcome)
    PROVE  GatewayInv'
<1> DEFINE y == WorkerGone(x[r], answer)
<1>1. x[r] \in Record /\ active \in Int /\ draining \in Int
  BY Before
<1>2. y \in Record
  BY <1>1 DEF WorkerGone, Record
<1>3. /\ y.worker = "gone" /\ y.handler = x[r].handler /\ y.here = x[r].here
      /\ y.body = 0 /\ y.sends = x[r].sends /\ y.drain = x[r].drain
      /\ y.end = x[r].end /\ y.result = answer
  BY <1>1 DEF WorkerGone, Record
<1>4. Update(r, y) /\ SlotFree(r) /\ EndFlight(r) /\ UNCHANGED lifecycle
  BY DEF WorkerEnds
<1> HIDE DEF y
<1>5. Circuits(r, y)
  BY ResolveCircuits DEF WorkerEnds
<1>6. Gauged(r, y)
  BY <1>1, <1>3 DEF WorkerEnds, GuardDrop, Gauged, Shift, Record, Working, PreStart, OnWire
<1>7. QED
  BY <1>2, <1>3, <1>4, <1>5, <1>6, WorkerGoneInv

(* The upstream's end, seen by a worker that streams. *)
LEMMA EofInv ==
    ASSUME GatewayInv, NEW r \in Requests, Eof(r)
    PROVE  GatewayInv'
<1> DEFINE y == [WorkerGone(x[r], "eof") EXCEPT !.eof = TRUE]
<1>1. /\ x[r] \in Record /\ active \in Int /\ draining \in Int
      /\ x[r].worker = "stream"
  BY Before DEF Eof, Undisturbed
<1>2. y \in Record
  BY <1>1 DEF WorkerGone, Record
<1>3. /\ y.worker = "gone" /\ y.handler = x[r].handler /\ y.here = x[r].here
      /\ y.body = 0 /\ y.sends = x[r].sends /\ y.drain = x[r].drain
      /\ y.end = x[r].end /\ y.eof
  BY <1>1 DEF WorkerGone, Record
<1>4. Update(r, y) /\ SlotFree(r) /\ EndFlight(r) /\ UNCHANGED lifecycle
  BY DEF Eof
<1> HIDE DEF y
<1>5. Circuits(r, y)
  BY ResolveCircuits DEF Eof
<1>6. Gauged(r, y)
  BY <1>1, <1>3 DEF Eof, GuardDrop, Gauged, Shift, Record, Working, PreStart, OnWire
<1>7. QED
  BY <1>1, <1>2, <1>3, <1>4, <1>5, <1>6, WorkerGoneInv DEF Working, OnWire

(* A future dropped in the channel was never counted. *)
LEMMA DropQueuedInv ==
    ASSUME GatewayInv, NEW r \in Requests, DropQueued(r)
    PROVE  GatewayInv'
<1> DEFINE y == WorkerGone(x[r], "lost")
<1>1. /\ x[r] \in Record /\ active \in Int /\ draining \in Int
      /\ x[r].worker = "queued"
  BY Before DEF DropQueued
<1>2. y \in Record
  BY <1>1 DEF WorkerGone, Record
<1>3. /\ y.worker = "gone" /\ y.handler = x[r].handler /\ y.here = x[r].here
      /\ y.body = 0 /\ y.sends = x[r].sends /\ y.drain = x[r].drain
      /\ y.end = x[r].end /\ y.result = "lost"
  BY <1>1 DEF WorkerGone, Record
<1>4. Update(r, y) /\ SlotFree(r) /\ EndFlight(r) /\ UNCHANGED lifecycle
  BY DEF DropQueued
<1> HIDE DEF y
<1>5. Circuits(r, y)
  BY <1>1, Before DEF DropQueued, Circuits, circuit, OnWire
<1>6. Gauged(r, y)
  BY <1>1, <1>3 DEF DropQueued, gauges, Gauged, Shift, Working, PreStart, OnWire
<1>7. QED
  BY <1>1, <1>2, <1>3, <1>4, <1>5, <1>6, WorkerGoneInv

-----------------------------------------------------------------------------
(* The handler's steps. *)
LEMMA AdvanceInv ==
    ASSUME GatewayInv, NEW r \in Requests, NEW phase \in PreSpawn, Advance(r, phase),
           x[r].handler \in {"idle"} \cup PreSpawn, Alive(r) \/ server = "serving",
           phase \in {"body", "circuit", "turn", "recheck"} => slot[r] = "none",
           phase = "queue" => slot[r] \in {"none", "waiting", "held"},
           phase = "spawn" => slot[r] = "held"
    PROVE  GatewayInv'
<1> DEFINE y == [x[r] EXCEPT !.handler = phase]
<1>1. /\ x[r] \in Record /\ Sound(x[r], slot[r]) /\ x[r].worker = "none"
  BY Before DEF Sound
<1>2. y \in Record
  BY <1>1 DEF Record
<1>3. /\ y.handler = phase /\ y.worker = "none" /\ y.drain = x[r].drain
      /\ y.end = x[r].end /\ y.sends = x[r].sends /\ y.retried = x[r].retried
      /\ y.result = x[r].result /\ y.eof = x[r].eof
  BY <1>1 DEF Record
<1>4. Update(r, y) /\ UNCHANGED <<slot, circuit, cache, lifecycle, gauges>>
  BY DEF Advance
<1> HIDE DEF y
<1>5. Early(y)
  BY <1>3 DEF Early
<1>6. Sound(y, slot[r])
  BY <1>1, <1>3, <1>5 DEF Sound, Place, Sent, PreSpawn, OnWire
<1>7. Permitted(y)
  BY <1>3, <1>4, Before DEF Permitted, Working, PreStart, OnWire, lifecycle
<1>8. QED
  BY <1>1, <1>2, <1>3, <1>4, <1>5, <1>6, <1>7, RecordAlone, Before
  DEF PreSpawn, OnWire

(* A connection is refused or its body is read. *)
LEMMA ArriveInv ==
    ASSUME GatewayInv, NEW r \in Requests, Arrive(r)
    PROVE  GatewayInv'
<1>1. /\ x[r] \in Record /\ Sound(x[r], slot[r]) /\ x[r].handler = "idle"
      /\ server = "serving" /\ x[r].worker = "none" /\ slot[r] = "none"
  BY Before DEF Arrive, Sound, Place
<1>2. CASE Advance(r, "body")
  BY <1>1, <1>2, AdvanceInv DEF PreSpawn
<1>3. CASE Advance(r, "done")
  <2> DEFINE y == [x[r] EXCEPT !.handler = "done"]
  <2>1. y \in Record /\ y.handler = "done" /\ y.worker = "none" /\ y.end = "none"
    BY <1>1, Before DEF Record
  <2>2. Update(r, y) /\ UNCHANGED <<slot, circuit, cache, lifecycle, gauges>>
    BY <1>3 DEF Advance
  <2> HIDE DEF y
  <2>3. Changes(r, y, "none")
    BY <1>1, <2>1, <2>2, Before DEF Changes
  <2>4. Circuits(r, y) /\ Flights(r, y)
    <3>1. flight # r /\ probe # r
      BY <1>1, Before DEF Early, PreSpawn, PreStart, OnWire
    <3>2. QED
      BY <2>2, <3>1, Before DEF Circuits, Flights, circuit, cache
  <2>5. Gauged(r, y)
    BY <1>1, <2>1, <2>2, Before DEF Gauged, gauges, Shift, Working, PreStart, OnWire
  <2>6. Permitted(y)
    BY <1>1, <2>1, <2>2 DEF Permitted, lifecycle, Working, PreStart, OnWire
  <2>7. QED
    BY <2>1, <2>3, <2>4, <2>5, <2>6, OneRequest DEF SlotStates
<1>4. QED
  BY <1>2, <1>3 DEF Arrive

(* One frame of the body is stored or refused. *)
LEMMA BodyFrameInv ==
    ASSUME GatewayInv, NEW r \in Requests, BodyFrame(r)
    PROVE  GatewayInv'
<1>1. /\ x[r] \in Record /\ Sound(x[r], slot[r]) /\ x[r].handler = "body"
      /\ Alive(r)
  BY Before DEF BodyFrame, Calm, Alive
<1>2. CASE Update(r, [x[r] EXCEPT !.body = @ + 1])
           /\ UNCHANGED <<slot, circuit, cache, lifecycle, gauges>>
  <2> DEFINE y == [x[r] EXCEPT !.body = @ + 1]
  <2>1. y \in Record
    BY <1>1 DEF Record
  <2>2. /\ y.handler = "body" /\ y.worker = x[r].worker /\ y.drain = x[r].drain
        /\ y.end = x[r].end /\ y.sends = x[r].sends /\ y.retried = x[r].retried
        /\ y.result = x[r].result /\ y.eof = x[r].eof /\ y.here = x[r].here
    BY <1>1 DEF Record
  <2>3. Update(r, y)
    BY <1>2
  <2> HIDE DEF y
  <2>4. Early(y)
    BY <2>2 DEF Early, PreSpawn
  <2>5. Sound(y, slot[r])
    BY <1>1, <2>2, <2>4 DEF Sound, Place, Sent
  <2>6. Permitted(y)
    BY <1>1, <1>2, <2>2, Before DEF Permitted, Alive
  <2>7. QED
    BY <1>1, <1>2, <2>1, <2>2, <2>3, <2>4, <2>5, <2>6, RecordAlone, Before
<1>3. CASE HandlerEnds(r)
  BY <1>1, <1>3, HandlerEndsInv
<1>4. QED
  BY <1>2, <1>3 DEF BodyFrame

(* The body is complete. *)
LEMMA BodyReadInv ==
    ASSUME GatewayInv, NEW r \in Requests, BodyRead(r)
    PROVE  GatewayInv'
<1>1. x[r].handler = "body" /\ Alive(r) /\ slot[r] = "none"
  BY Before DEF BodyRead, Calm, Alive, Sound, Place
<1>2. CASE HandlerEnds(r)
  BY <1>1, <1>2, HandlerEndsInv
<1>3. CASE Advance(r, "circuit")
  BY <1>1, <1>3, AdvanceInv DEF PreSpawn
<1>4. QED
  BY <1>2, <1>3 DEF BodyRead

(* Scope::wait refuses or lets the request go on. *)
LEMMA CircuitWaitInv ==
    ASSUME GatewayInv, NEW r \in Requests, CircuitWait(r)
    PROVE  GatewayInv'
<1>1. x[r].handler \in {"circuit", "recheck"} /\ Alive(r) /\ slot[r] = "none"
  BY Before DEF CircuitWait, Calm, Alive, Sound, Place
<1>2. CASE HandlerEnds(r)
  BY <1>1, <1>2, HandlerEndsInv
<1>3. CASE \E phase \in {"turn", "queue"} : Advance(r, phase)
  BY <1>1, <1>3, AdvanceInv DEF PreSpawn
<1>4. QED
  BY <1>2, <1>3 DEF CircuitWait

(* The request takes the flight, or ends. *)
LEMMA WaitForTurnInv ==
    ASSUME GatewayInv, NEW r \in Requests, WaitForTurn(r)
    PROVE  GatewayInv'
<1>1. /\ x[r].handler = "turn" /\ Alive(r) /\ slot[r] = "none"
      /\ x[r] \in Record /\ Sound(x[r], slot[r]) /\ x[r].worker = "none"
  BY Before DEF WaitForTurn, Calm, Alive, Sound, Place, PreSpawn
<1>2. CASE HandlerEnds(r)
  BY <1>1, <1>2, HandlerEndsInv
<1>3. CASE /\ flight' = r /\ Update(r, [x[r] EXCEPT !.handler = "recheck"])
           /\ UNCHANGED <<slot, circuit, lifecycle, gauges>>
  <2> DEFINE y == [x[r] EXCEPT !.handler = "recheck"]
  <2>1. y \in Record
    BY <1>1 DEF Record, PreSpawn
  <2>2. /\ y.handler = "recheck" /\ y.worker = "none" /\ y.drain = x[r].drain
        /\ y.end = x[r].end /\ y.sends = x[r].sends /\ y.retried = x[r].retried
        /\ y.result = x[r].result /\ y.eof = x[r].eof
    BY <1>1 DEF Record
  <2>3. Update(r, y)
    BY <1>3
  <2> HIDE DEF y
  <2>4. Early(y)
    BY <2>2 DEF Early, PreSpawn
  <2>5. Sound(y, "none")
    BY <1>1, <2>2, <2>4 DEF Sound, Place, Sent, PreSpawn, OnWire
  <2>6. Changes(r, y, "none")
    BY <1>1, <1>3, <2>2, <2>3, <2>5, Before DEF Changes
  <2>7. Circuits(r, y)
    BY <1>1, <1>3, Before DEF Circuits, circuit, OnWire
  <2>8. Flights(r, y)
    BY <1>3, <2>4 DEF Flights
  <2>9. Gauged(r, y)
    BY <1>1, <1>3, <2>2, Before DEF Gauged, gauges, Shift
  <2>10. Permitted(y)
    BY <1>1, <1>3, <2>2, Before DEF Permitted, Working, PreStart, OnWire
  <2>11. QED
    BY <2>1, <2>6, <2>7, <2>8, <2>9, <2>10, OneRequest DEF SlotStates
<1>4. QED
  BY <1>2, <1>3 DEF WaitForTurn

(* The second lookup hits, or the worker is to be spawned. *)
LEMMA AdmittedInv ==
    ASSUME GatewayInv, NEW r \in Requests, Admitted(r)
    PROVE  GatewayInv'
<1>1. x[r].handler = "queue" /\ Alive(r) /\ slot[r] = "held"
  BY DEF Admitted, Calm, Alive
<1>2. CASE HandlerEnds(r)
  BY <1>1, <1>2, HandlerEndsInv
<1>3. CASE Advance(r, "spawn")
  BY <1>1, <1>3, AdvanceInv DEF PreSpawn
<1>4. QED
  BY <1>2, <1>3 DEF Admitted

(* A step that changes the place alone, of a request that waits for one. *)
LEMMA PlaceAlone ==
    ASSUME GatewayInv, NEW r \in Requests, NEW s \in {"waiting", "held"},
           slot' = [slot EXCEPT ![r] = s],
           UNCHANGED <<x, circuit, cache, lifecycle, gauges>>,
           x[r].handler = "queue" \/ x[r].worker \in {"again", "replay"},
           s = "held" => Admission!Room({r})
    PROVE  GatewayInv'
<1>1. /\ x[r] \in Record /\ Sound(x[r], slot[r]) /\ x \in [Requests -> Record]
  BY Before
<1>2. Sound(x[r], s)
  BY <1>1 DEF Sound, Place, Sent, PreSpawn, OnWire
<1>3. ~(x[r].handler = "done" /\ x[r].worker \in {"none", "gone"})
  BY DEF PreSpawn
<1>4. Update(r, x[r])
  BY <1>1, <1>3 DEF Update, Settled
<1>5. Changes(r, x[r], s)
  BY <1>2, <1>3, <1>4 DEF Changes, Sound
<1>6. Circuits(r, x[r]) /\ Flights(r, x[r])
  BY Before DEF Circuits, Flights, circuit, cache
<1>7. Gauged(r, x[r])
  BY Before DEF Gauged, gauges, Shift
<1>8. Permitted(x[r])
  BY Before DEF Permitted, Alive
<1>9. QED
  BY <1>1, <1>5, <1>6, <1>7, <1>8, OneRequest DEF SlotStates

(* Entering with nobody else's grant. *)
LEMMA EnterAlone ==
    ASSUME GatewayInv, NEW r \in Requests, Admission!Enter(r, {})
    PROVE  slot' = [slot EXCEPT ![r] = "waiting"]
  BY Before DEF Admission!Enter, Admission!Granted

(* Admission::acquire refuses or queues. *)
LEMMA AcquireInv ==
    ASSUME GatewayInv, NEW r \in Requests, Acquire(r)
    PROVE  GatewayInv'
<1>1. x[r].handler = "queue" /\ Alive(r)
  BY DEF Acquire, Calm, Alive
<1>2. CASE HandlerEnds(r)
  BY <1>1, <1>2, HandlerEndsInv
<1>3. CASE Admission!Enter(r, {}) /\ UNCHANGED <<x, circuit, cache, lifecycle, gauges>>
  BY <1>1, <1>3, EnterAlone, PlaceAlone
<1>4. QED
  BY <1>2, <1>3 DEF Acquire

(* Who waits for a place is in the queue, or queues again. *)
LEMMA WaitsWhere ==
    ASSUME GatewayInv, NEW r \in Requests, slot[r] = "waiting"
    PROVE  x[r].handler = "queue" \/ x[r].worker \in {"again", "replay"}
<1>1. x[r] \in Record /\ Sound(x[r], slot[r])
  BY Before
<1>2. QED
  BY <1>1 DEF Sound, Place, Record, PreSpawn, PreStart, OnWire, Working

(* The queue admits one that waits. *)
LEMMA GrantInv ==
    ASSUME GatewayInv, NEW r \in Requests, Grant(r)
    PROVE  GatewayInv'
<1>1. /\ slot[r] = "waiting" /\ Admission!Room({r})
      /\ slot' = [slot EXCEPT ![r] = "held"]
      /\ UNCHANGED <<x, circuit, cache, lifecycle, gauges>>
  BY Before DEF Grant, Admission!Grant, Admission!Waiting, Admission!Granted
<1>2. QED
  BY <1>1, WaitsWhere, PlaceAlone

(* The worker is handed over, or dropped with all it owns. *)
LEMMA SpawnInv ==
    ASSUME GatewayInv, NEW r \in Requests, Spawn(r)
    PROVE  GatewayInv'
<1>1. /\ x[r].handler = "spawn" /\ Alive(r) /\ slot[r] = "held"
      /\ x[r] \in Record /\ Sound(x[r], slot[r]) /\ x[r].worker = "none"
  BY Before DEF Spawn, Alive, Sound, Place, PreSpawn
<1>2. CASE HandlerEnds(r)
  BY <1>1, <1>2, HandlerEndsInv
<1>3. CASE /\ supervisor = "running"
           /\ Update(r, [x[r] EXCEPT !.handler = "head", !.worker = "queued"])
           /\ UNCHANGED <<slot, circuit, cache, lifecycle, gauges>>
  <2> DEFINE y == [x[r] EXCEPT !.handler = "head", !.worker = "queued"]
  <2>1. y \in Record
    BY <1>1 DEF Record
  <2>2. /\ y.handler = "head" /\ y.worker = "queued" /\ y.drain = x[r].drain
        /\ y.end = x[r].end /\ y.sends = x[r].sends /\ y.retried = x[r].retried
        /\ y.result = x[r].result /\ y.eof = x[r].eof
    BY <1>1 DEF Record
  <2>3. Update(r, y)
    BY <1>3
  <2> HIDE DEF y
  <2>4. Early(y)
    BY <2>2 DEF Early
  <2>5. Sound(y, slot[r])
    BY <1>1, <2>2, <2>4 DEF Sound, Place, Sent, PreSpawn, OnWire
  <2>6. Permitted(y)
    BY <1>1, <1>3, <2>2, Before DEF Permitted
  <2>7. x[r].worker \notin Working /\ y.worker \notin Working
    BY <1>1, <2>2 DEF Working, PreStart, OnWire
  <2>8. QED
    BY <1>1, <1>3, <2>1, <2>2, <2>3, <2>4, <2>5, <2>6, <2>7, RecordAlone, Before
    DEF OnWire
<1>4. QED
  BY <1>2, <1>3 DEF Spawn

(* The response begins, or the handler gives up on it. *)
LEMMA TakeHeadInv ==
    ASSUME GatewayInv, NEW r \in Requests, TakeHead(r)
    PROVE  GatewayInv'
<1>1. /\ x[r].handler = "head" /\ Alive(r)
      /\ x[r] \in Record /\ Sound(x[r], slot[r])
  BY Before DEF TakeHead, Alive
<1>2. CASE HandlerEnds(r)
  BY <1>1, <1>2, HandlerEndsInv
<1>3. CASE Advance(r, "relay")
  <2> DEFINE y == [x[r] EXCEPT !.handler = "relay"]
  <2>1. y \in Record
    BY <1>1 DEF Record
  <2>2. /\ y.handler = "relay" /\ y.worker = x[r].worker /\ y.drain = x[r].drain
        /\ y.end = x[r].end /\ y.sends = x[r].sends /\ y.retried = x[r].retried
        /\ y.result = x[r].result /\ y.eof = x[r].eof /\ y.here = x[r].here
        /\ y.body = x[r].body
    BY <1>1 DEF Record
  <2>3. Update(r, y) /\ UNCHANGED <<slot, circuit, cache, lifecycle, gauges>>
    BY <1>3 DEF Advance
  <2> HIDE DEF y
  <2>4. Early(x[r]) => Early(y)
    BY <1>1, <2>2 DEF Early, PreSpawn
  <2>5. Sound(y, slot[r])
    BY <1>1, <2>2, <2>4 DEF Sound, Place, Sent, PreSpawn
  <2>6. Permitted(y)
    BY <1>1, <2>2, <2>3, Before DEF Permitted
  <2>7. QED
    BY <1>1, <2>1, <2>2, <2>3, <2>4, <2>5, <2>6, RecordAlone, Before
<1>4. QED
  BY <1>2, <1>3 DEF TakeHead

(* hyper polls a chunk out of the channel. *)
LEMMA ReadInv ==
    ASSUME GatewayInv, NEW r \in Requests, Read(r)
    PROVE  GatewayInv'
<1>1. /\ x[r].handler = "relay" /\ Alive(r) /\ x[r].queue > 0
      /\ x[r] \in Record /\ Sound(x[r], slot[r])
  BY Before DEF Read, Alive
<1> DEFINE y == [x[r] EXCEPT !.queue = @ - 1]
<1>2. y \in Record
  BY <1>1 DEF Record
<1>3. /\ y.handler = "relay" /\ y.worker = x[r].worker /\ y.drain = x[r].drain
      /\ y.end = x[r].end /\ y.sends = x[r].sends /\ y.retried = x[r].retried
      /\ y.result = x[r].result /\ y.eof = x[r].eof /\ y.here = x[r].here
      /\ y.body = x[r].body
  BY <1>1 DEF Record
<1>4. Update(r, y) /\ UNCHANGED <<slot, circuit, cache, lifecycle, gauges>>
  BY DEF Read
<1> HIDE DEF y
<1>5. Early(x[r]) => Early(y)
  BY <1>1, <1>3 DEF Early
<1>6. Sound(y, slot[r])
  BY <1>1, <1>3, <1>5 DEF Sound, Place, Sent
<1>7. Permitted(y)
  BY <1>1, <1>3, <1>4, Before DEF Permitted
<1>8. QED
  BY <1>1, <1>2, <1>3, <1>4, <1>5, <1>6, <1>7, RecordAlone, Before

(* The terminal: what a client that is still there gets is the whole body. *)
LEMMA ReadEndInv ==
    ASSUME GatewayInv, NEW r \in Requests, ReadEnd(r)
    PROVE  GatewayInv'
<1>1. /\ x[r].handler = "relay" /\ x[r].worker = "gone" /\ x[r].queue = 0 /\ Alive(r)
      /\ x[r] \in Record /\ Sound(x[r], slot[r])
  BY Before DEF ReadEnd, BodyOver, Alive
<1>2. ~Truncated(r) /\ slot[r] = "none"
  BY <1>1 DEF Truncated, Sound, Place
<1> DEFINE y == [x[r] EXCEPT !.handler = "done", !.queue = 0,
                             !.end = IF Truncated(r) THEN "truncated" ELSE @]
<1>3. y = [x[r] EXCEPT !.handler = "done", !.queue = 0, !.end = x[r].end]
  BY <1>2
<1>4. y \in Record /\ y.handler = "done" /\ y.worker = "gone" /\ y.end = "none"
  BY <1>1, <1>3, Before DEF Record
<1>5. Update(r, y) /\ UNCHANGED <<slot, circuit, cache, lifecycle, gauges>>
  BY DEF ReadEnd
<1> HIDE DEF y
<1>6. Changes(r, y, "none")
  BY <1>2, <1>4, <1>5, Before DEF Changes
<1>7. Circuits(r, y) /\ Flights(r, y)
  <2>1. flight # r /\ probe # r
    BY <1>1, Before DEF Early, PreSpawn, PreStart, OnWire
  <2>2. QED
    BY <1>5, <2>1, Before DEF Circuits, Flights, circuit, cache
<1>8. Gauged(r, y)
  BY <1>1, <1>4, <1>5, Before DEF Gauged, gauges, Shift, Working, PreStart, OnWire
<1>9. Permitted(y)
  BY <1>4, <1>5 DEF Permitted, lifecycle, Working, PreStart, OnWire
<1>10. QED
  BY <1>4, <1>6, <1>7, <1>8, <1>9, OneRequest DEF SlotStates

(* The connection breaks. *)
LEMMA DisconnectInv ==
    ASSUME GatewayInv, NEW r \in Requests, Disconnect(r)
    PROVE  GatewayInv'
<1>1. /\ Alive(r) /\ x[r].here /\ x[r] \in Record /\ Sound(x[r], slot[r])
  BY Before DEF Disconnect
<1> DEFINE y == [x[r] EXCEPT !.here = FALSE]
<1>2. y \in Record
  BY <1>1 DEF Record
<1>3. /\ y.handler = x[r].handler /\ y.worker = x[r].worker /\ y.drain = x[r].drain
      /\ y.end = x[r].end /\ y.sends = x[r].sends /\ y.retried = x[r].retried
      /\ y.result = x[r].result /\ y.eof = x[r].eof /\ ~y.here
      /\ y.body = x[r].body
  BY <1>1 DEF Record
<1>4. Update(r, y) /\ UNCHANGED <<slot, circuit, cache, lifecycle, gauges>>
  BY DEF Disconnect
<1> HIDE DEF y
<1>5. Early(x[r]) => Early(y)
  BY <1>1, <1>3 DEF Early
<1>6. Sound(y, slot[r])
  BY <1>1, <1>3, <1>5 DEF Sound, Place, Sent
<1>7. Permitted(y)
  BY <1>1, <1>3, <1>4, Before DEF Permitted
<1>8. QED
  BY <1>1, <1>2, <1>3, <1>4, <1>5, <1>6, <1>7, RecordAlone, Before DEF Alive

-----------------------------------------------------------------------------
(* The worker's steps.  What no step of a worker that goes on touches, and *)
(* what it may not break.                                                  *)
Kept(z, y) ==
    /\ y.handler = z.handler /\ y.here = z.here /\ y.end = z.end
    /\ y.result = z.result /\ y.eof = z.eof

Goes(y, s) ==
    /\ y.worker \in Working
    /\ y.worker = "gate" => s = "held"
    /\ y.worker \in {"again", "replay"} => s \in {"none", "waiting", "held"}
    /\ y.worker = "parked" => s = "none"
    /\ y.worker \in OnWire => s = "started"
    /\ Sent(y)
    /\ y.body > 0 => Early(y) \/ y.worker \in {"sent", "classify", "refused"}
    /\ y.drain => y.worker \in OnWire /\ (y.handler = "done" \/ ~y.here)

(* The invariant after a step of a worker that goes on. *)
LEMMA WorkerGoes ==
    ASSUME GatewayInv, NEW r \in Requests, x[r].worker \in Working \cup {"queued"},
           NEW y \in Record, NEW s \in SlotStates,
           Update(r, y), slot' = [slot EXCEPT ![r] = s], Kept(x[r], y), Goes(y, s),
           s \in {"held", "started"} => slot[r] \in {"held", "started"},
           Circuits(r, y), Flights(r, y), Gauged(r, y), UNCHANGED lifecycle
    PROVE  GatewayInv'
<1>1. /\ x[r] \in Record /\ Sound(x[r], slot[r]) /\ x[r].end = "none"
  BY Before
<1>2. y.handler \notin {"idle"} \cup PreSpawn /\ y.worker # "none"
  BY <1>1 DEF Sound, Kept, Goes, Working, PreStart, OnWire
<1>3. Sound(y, s)
  BY <1>1, <1>2 DEF Sound, Place, Kept, Goes, PreSpawn, Working, PreStart, OnWire
<1>4. Changes(r, y, s)
  BY <1>1, <1>3 DEF Changes, Kept, Goes, Working, PreStart, OnWire
<1>5. Permitted(y)
  BY Before DEF Permitted, Kept, Alive
<1>6. QED
  BY <1>4, <1>5, OneRequest

(* The supervisor polls the worker for the first time. *)
LEMMA WorkerSpawnInv ==
    ASSUME GatewayInv, NEW r \in Requests, WorkerSpawn(r)
    PROVE  GatewayInv'
<1>1. /\ x[r].worker = "queued" /\ x[r] \in Record /\ Sound(x[r], slot[r])
      /\ slot[r] = "held" /\ ~x[r].drain
  BY Before DEF WorkerSpawn, Sound, Place, OnWire
<1> DEFINE y == [x[r] EXCEPT !.worker = "gate"]
<1>2. y \in Record /\ Kept(x[r], y)
  BY <1>1 DEF Record, Kept, Working, PreStart
<1>3. /\ y.worker = "gate" /\ y.drain = x[r].drain /\ y.sends = x[r].sends
      /\ y.retried = x[r].retried
  BY <1>1 DEF Record
<1>4. Update(r, y)
  BY DEF WorkerSpawn
<1> HIDE DEF y
<1>5. Early(y)
  BY <1>3 DEF Early, PreStart
<1>6. Goes(y, slot[r])
  BY <1>1, <1>3, <1>5 DEF Goes, Sound, Sent, Working, PreStart, OnWire
<1>7. Circuits(r, y) /\ Flights(r, y)
  BY <1>1, <1>5, Before DEF WorkerSpawn, Circuits, Flights, circuit, cache, OnWire
<1>8. Gauged(r, y)
  BY <1>1, <1>3, Before DEF WorkerSpawn, Gauged, Shift, Working, PreStart, OnWire
<1>9. QED
  BY <1>1, <1>2, <1>4, <1>6, <1>7, <1>8, WorkerGoes, Before DEF WorkerSpawn

(* A worker that has no wire attempt yet, and so neither probes nor drains. *)
LEMMA PreStartQuiet ==
    ASSUME GatewayInv, NEW r \in Requests, x[r].worker \in PreStart
    PROVE  /\ x[r].worker \in Working /\ ~x[r].drain /\ probe # r
           /\ x[r].worker \notin OnWire
  BY Before DEF Sound, PreStart, OnWire, Working

(* Circuit and hold start together: the attempt may be the probe. *)
LEMMA StartBothInv ==
    ASSUME GatewayInv, NEW r \in Requests, x[r].worker = "gate", StartBoth(r)
    PROVE  GatewayInv'
<1>1. /\ x[r] \in Record /\ Sound(x[r], slot[r]) /\ slot[r] = "held" /\ ~x[r].drain
      /\ x[r].worker \in Working
  BY Before, PreStartQuiet DEF Sound, Place, PreStart
<1> DEFINE y == [x[r] EXCEPT !.worker = "sent", !.sends = @ + 1]
<1>2. y \in Record /\ Kept(x[r], y)
  <2>1. "sent" \in Working /\ x[r].sends + 1 \in Nat
    BY <1>1 DEF Record, Working, OnWire
  <2>2. y \in Record
    BY <1>1, <2>1 DEF Record
  <2>3. QED
    BY <1>1, <2>2 DEF Record, Kept
<1>3. /\ y.worker = "sent" /\ y.drain = x[r].drain /\ y.sends = x[r].sends + 1
      /\ y.retried = x[r].retried
  BY <1>1 DEF Record
<1>4. Update(r, y) /\ slot' = [slot EXCEPT ![r] = "started"]
  BY DEF StartBoth, Admission!Use
<1> HIDE DEF y
<1>5. Goes(y, "started")
  BY <1>1, <1>3 DEF Goes, Sound, Sent, Working, OnWire
<1>6. Circuits(r, y) /\ Flights(r, y)
  BY <1>1, <1>3, Before DEF StartBoth, Circuits, Flights, cache, OnWire
<1>7. Gauged(r, y)
  BY <1>1, <1>3, Before DEF StartBoth, gauges, Gauged, Shift, Working, OnWire
<1>8. QED
  BY <1>1, <1>2, <1>4, <1>5, <1>6, <1>7, WorkerGoes, Before DEF StartBoth, SlotStates

(* A worker that moves between two phases before its attempt. *)
LEMMA PreStartMoves ==
    ASSUME GatewayInv, NEW r \in Requests, x[r].worker \in PreStart,
           NEW y \in Record, NEW s \in SlotStates,
           Update(r, y), slot' = [slot EXCEPT ![r] = s], Kept(x[r], y),
           s \in {"held", "started"} => slot[r] \in {"held", "started"},
           y.worker \in {"gate", "parked", "again"},
           y.worker = "gate" => s = "held",
           y.worker = "parked" => s = "none",
           y.worker = "again" => s \in {"none", "waiting", "held"},
           y.sends = x[r].sends, y.drain = x[r].drain,
           y.retried = (x[r].retried \/ x[r].worker = "replay"),
           UNCHANGED <<circuit, cache, lifecycle, gauges>>
    PROVE  GatewayInv'
<1>1. /\ x[r] \in Record /\ Sound(x[r], slot[r]) /\ ~x[r].drain
      /\ x[r].worker \in Working /\ probe # r
  BY Before, PreStartQuiet
<1>2. Early(y)
  BY DEF Early, PreStart
<1>3. Sent(y)
  BY <1>1 DEF Sound, Sent, PreStart, OnWire, Record
<1>4. Goes(y, s)
  BY <1>1, <1>2, <1>3 DEF Goes, Working, PreStart, OnWire
<1>5. Circuits(r, y) /\ Flights(r, y)
  BY <1>1, <1>2, Before DEF Circuits, Flights, circuit, cache
<1>6. Gauged(r, y)
  BY <1>1, Before DEF gauges, Gauged, Shift, Working, PreStart
<1>7. QED
  BY <1>1, <1>4, <1>5, <1>6, WorkerGoes

(* A hold that is given back, for another phase. *)
LEMMA LeaveFor ==
    ASSUME GatewayInv, NEW r \in Requests, x[r].worker = "gate",
           NEW phase \in {"again", "parked"}, Admission!Leave(r),
           Update(r, [x[r] EXCEPT !.worker = phase]),
           UNCHANGED <<circuit, cache, lifecycle, gauges>>
    PROVE  GatewayInv'
<1>1. x[r] \in Record
  BY Before
<1> DEFINE y == [x[r] EXCEPT !.worker = phase]
<1>2. y \in Record /\ Kept(x[r], y)
  BY <1>1 DEF Record, Kept, Working, PreStart
<1>3. /\ y.worker = phase /\ y.drain = x[r].drain /\ y.sends = x[r].sends
      /\ y.retried = x[r].retried /\ x[r].retried \in BOOLEAN
  BY <1>1 DEF Record
<1>4. slot' = [slot EXCEPT ![r] = "none"]
  BY DEF Admission!Leave
<1> HIDE DEF y
<1>5. Update(r, y)
  BY DEF y
<1>6. QED
  BY <1>2, <1>3, <1>4, <1>5, PreStartMoves DEF SlotStates, PreStart

(* begin: started, refused by the ledger, or a probe is in the way. *)
LEMMA StartInv ==
    ASSUME GatewayInv, NEW r \in Requests, Start(r)
    PROVE  GatewayInv'
<1>1. x[r].worker = "gate" /\ x[r].worker \in Working
  BY DEF Start, Working, PreStart
<1>2. CASE StartBoth(r)
  BY <1>1, <1>2, StartBothInv
<1>3. CASE StartRefused(r)
  BY <1>1, <1>3, LeaveFor DEF StartRefused
<1>4. CASE StartProbing(r)
  BY <1>1, <1>4, LeaveFor DEF StartProbing
<1>5. CASE WorkerEnds(r, "lost", "dropped")
  BY <1>1, <1>5, WorkerEndsInv
<1>6. QED
  BY <1>2, <1>3, <1>4, <1>5 DEF Start

(* The probe is over. *)
LEMMA ParkedInv ==
    ASSUME GatewayInv, NEW r \in Requests, Parked(r)
    PROVE  GatewayInv'
<1>1. /\ x[r].worker = "parked" /\ x[r].worker \in Working /\ x[r].worker \in PreStart
      /\ x[r] \in Record /\ Sound(x[r], slot[r]) /\ slot[r] = "none"
      /\ slot \in [Requests -> SlotStates]
  BY Before DEF Parked, Working, PreStart, Sound, Place
<1>2. CASE WorkerEnds(r, "lost", "dropped")
  BY <1>1, <1>2, WorkerEndsInv
<1>3. CASE /\ Update(r, [x[r] EXCEPT !.worker = "again"])
           /\ UNCHANGED <<slot, circuit, cache, lifecycle, gauges>>
  <2> DEFINE y == [x[r] EXCEPT !.worker = "again"]
  <2>1. y \in Record /\ Kept(x[r], y)
    BY <1>1 DEF Record, Kept, Working, PreStart
  <2>2. /\ y.worker = "again" /\ y.drain = x[r].drain /\ y.sends = x[r].sends
        /\ y.retried = x[r].retried /\ x[r].retried \in BOOLEAN
    BY <1>1 DEF Record
  <2> HIDE DEF y
  <2>3. Update(r, y) /\ slot' = [slot EXCEPT ![r] = "none"]
    BY <1>1, <1>3 DEF y
  <2>4. QED
    BY <1>1, <1>3, <2>1, <2>2, <2>3, PreStartMoves DEF SlotStates
<1>4. QED
  BY <1>2, <1>3 DEF Parked

(* Hold::retry refuses, queues, or has the place again. *)
LEMMA ReacquireInv ==
    ASSUME GatewayInv, NEW r \in Requests, Reacquire(r)
    PROVE  GatewayInv'
<1>1. /\ x[r].worker \in {"again", "replay"} /\ x[r].worker \in Working
      /\ x[r].worker \in PreStart /\ x[r] \in Record /\ slot \in [Requests -> SlotStates]
  BY Before DEF Reacquire, Working, PreStart
<1>2. CASE WorkerEnds(r, "lost", "dropped")
  BY <1>1, <1>2, WorkerEndsInv
<1>3. CASE Admission!Enter(r, {}) /\ UNCHANGED <<x, circuit, cache, lifecycle, gauges>>
  BY <1>1, <1>3, EnterAlone, PlaceAlone
<1>4. CASE /\ slot[r] = "held"
           /\ Update(r, [x[r] EXCEPT !.worker = "gate",
                                     !.retried = @ \/ x[r].worker = "replay"])
           /\ UNCHANGED <<slot, circuit, cache, lifecycle, gauges>>
  <2> DEFINE y == [x[r] EXCEPT !.worker = "gate",
                               !.retried = @ \/ x[r].worker = "replay"]
  <2>1. y \in Record /\ Kept(x[r], y)
    BY <1>1 DEF Record, Kept, Working, PreStart
  <2>2. /\ y.worker = "gate" /\ y.drain = x[r].drain /\ y.sends = x[r].sends
        /\ y.retried = (x[r].retried \/ x[r].worker = "replay")
    BY <1>1 DEF Record
  <2> HIDE DEF y
  <2>3. Update(r, y) /\ slot' = [slot EXCEPT ![r] = "held"]
    BY <1>1, <1>4 DEF y
  <2>4. QED
    BY <1>1, <1>4, <2>1, <2>2, <2>3, PreStartMoves DEF SlotStates
<1>5. QED
  BY <1>2, <1>3, <1>4 DEF Reacquire

-----------------------------------------------------------------------------
(* On the wire. *)
LEMMA OnWireHas ==
    ASSUME GatewayInv, NEW r \in Requests, x[r].worker \in OnWire
    PROVE  /\ x[r] \in Record /\ Sound(x[r], slot[r]) /\ slot[r] = "started"
           /\ x[r].worker \in Working /\ Rest(r) \in {"lost", "fail"}
           /\ slot = [slot EXCEPT ![r] = "started"]
  BY Before DEF Sound, Place, Working, Rest

(* A flight that is let go of is nobody's. *)
LEMMA EndFlightFlights ==
    ASSUME GatewayInv, NEW r \in Requests, NEW y, EndFlight(r)
    PROVE  Flights(r, y)
  BY Before DEF EndFlight, Flights

(* A worker that stays on the wire and keeps its place. *)
LEMMA WireMoves ==
    ASSUME GatewayInv, NEW r \in Requests, x[r].worker \in OnWire,
           NEW y \in Record, Update(r, y), Kept(x[r], y), y.worker \in OnWire,
           y.sends = x[r].sends, y.retried = x[r].retried,
           y.drain => y.handler = "done" \/ ~y.here,
           y.worker = "classify" => ~y.retried,
           y.body > 0 => y.worker \in {"sent", "classify", "refused"},
           Circuits(r, y), Flights(r, y), Gauged(r, y), UNCHANGED <<slot, lifecycle>>
    PROVE  GatewayInv'
<1>1. /\ x[r] \in Record /\ Sound(x[r], slot[r]) /\ slot[r] = "started"
      /\ x[r].worker \in Working /\ slot' = [slot EXCEPT ![r] = "started"]
  BY OnWireHas
<1>2. Sent(y)
  BY <1>1 DEF Sound, Sent, OnWire
<1>3. Goes(y, "started")
  BY <1>2 DEF Goes, Working, PreStart, OnWire
<1>4. QED
  BY <1>1, <1>3, WorkerGoes DEF SlotStates

(* The client is gone and the answer is read for its usage. *)
LEMMA StartDrainingInv ==
    ASSUME GatewayInv, NEW r \in Requests, x[r].worker \in OnWire,
           ~x[r].drain, Deserted(r), StartDraining(r)
    PROVE  GatewayInv'
<1>1. x[r] \in Record /\ Sound(x[r], slot[r]) /\ x[r].worker \in Working
  BY OnWireHas
<1> DEFINE w == IF x[r].worker = "deliver" THEN "stream" ELSE x[r].worker
           y == [x[r] EXCEPT !.drain = TRUE, !.worker = w]
<1>2. w \in OnWire /\ w \in Working
  BY DEF OnWire, Working
<1>3. y \in Record /\ Kept(x[r], y)
  BY <1>1, <1>2 DEF Record, Kept
<1>4. /\ y.worker = w /\ y.drain = TRUE /\ y.sends = x[r].sends
      /\ y.retried = x[r].retried /\ y.body = x[r].body
  BY <1>1 DEF Record
<1>5. /\ Update(r, y) /\ EndFlight(r) /\ draining' = draining + 1
      /\ UNCHANGED <<slot, circuit, lifecycle, active>>
  BY DEF StartDraining
<1> HIDE DEF y
<1>6. y.handler = "done" \/ ~y.here
  BY <1>3 DEF Kept, Deserted, Closed
<1>7. /\ y.worker = "classify" => ~y.retried
      /\ y.body > 0 => y.worker \in {"sent", "classify", "refused"}
  BY <1>1, <1>2, <1>4 DEF Sound, Sent, Early, PreSpawn, PreStart, OnWire
<1>8. Circuits(r, y)
  BY <1>2, <1>4, <1>5, Before DEF Circuits, circuit
<1>9. Flights(r, y)
  BY <1>5, EndFlightFlights
<1>10. Gauged(r, y)
  BY <1>1, <1>2, <1>4, <1>5, Before DEF Gauged, Shift
<1> HIDE DEF w
<1>11. QED
  BY <1>2, <1>3, <1>4, <1>5, <1>6, <1>7, <1>8, <1>9, <1>10, WireMoves

(* CancelPolicy: close or drain. *)
LEMMA WireDesertedInv ==
    ASSUME GatewayInv, NEW r \in Requests, WireDeserted(r)
    PROVE  GatewayInv'
<1>1. x[r].worker \in OnWire /\ ~x[r].drain /\ Deserted(r)
  BY DEF WireDeserted
<1>2. CASE WorkerEnds(r, Rest(r), "dropped")
  BY <1>1, <1>2, OnWireHas, WorkerEndsInv
<1>3. CASE StartDraining(r)
  BY <1>1, <1>3, StartDrainingInv
<1>4. QED
  BY <1>2, <1>3 DEF WireDeserted

(* A worker that stays on the wire and is counted as before. *)
LEMMA WireSteps ==
    ASSUME GatewayInv, NEW r \in Requests, x[r].worker \in OnWire,
           NEW y \in Record, Update(r, y), Kept(x[r], y), y.worker \in OnWire,
           y.sends = x[r].sends, y.retried = x[r].retried, y.drain = x[r].drain,
           y.worker = "classify" => ~y.retried,
           y.body > 0 => y.worker \in {"sent", "classify", "refused"},
           (\E outcome : Resolve(r, outcome)) \/ UNCHANGED circuit,
           (~x[r].drain /\ UNCHANGED cache) \/ EndFlight(r),
           UNCHANGED <<slot, lifecycle, gauges>>
    PROVE  GatewayInv'
<1>1. /\ x[r] \in Record /\ Sound(x[r], slot[r]) /\ x[r].worker \in Working
      /\ y.worker \in Working
  BY OnWireHas DEF Working
<1>2. y.drain => y.handler = "done" \/ ~y.here
  BY <1>1 DEF Sound, Kept
<1>3. Circuits(r, y)
  BY Before, ResolveCircuits DEF Circuits, circuit
<1>4. Flights(r, y)
  BY Before, EndFlightFlights DEF Flights, cache
<1>5. Gauged(r, y)
  BY <1>1, Before DEF Gauged, Shift, gauges
<1>6. QED
  BY <1>2, <1>3, <1>4, <1>5, WireMoves

(* The answer is passed on, whatever becomes of attempt and flight. *)
LEMMA StreamingInv ==
    ASSUME GatewayInv, NEW r \in Requests, x[r].worker \in OnWire,
           NEW prefix \in BOOLEAN, Streaming(r, prefix),
           (\E outcome : Resolve(r, outcome)) \/ UNCHANGED circuit,
           (~x[r].drain /\ UNCHANGED cache) \/ EndFlight(r),
           UNCHANGED <<slot, lifecycle, gauges>>
    PROVE  GatewayInv'
<1>1. x[r] \in Record
  BY OnWireHas
<1> DEFINE y == [x[r] EXCEPT !.worker = "stream", !.body = 0, !.prefix = prefix]
<1>2. "stream" \in OnWire /\ "stream" \in Working
  BY DEF OnWire, Working
<1>3. y \in Record /\ Kept(x[r], y)
  BY <1>1, <1>2 DEF Record, Kept
<1>4. /\ y.worker = "stream" /\ y.drain = x[r].drain /\ y.sends = x[r].sends
      /\ y.retried = x[r].retried /\ y.body = 0
  BY <1>1 DEF Record
<1>5. Update(r, y)
  BY DEF Streaming
<1> HIDE DEF y
<1>6. QED
  BY <1>2, <1>3, <1>4, <1>5, WireSteps

(* A 200, or another answer that is no failure. *)
LEMMA HeadersOkInv ==
    ASSUME GatewayInv, NEW r \in Requests, HeadersOk(r)
    PROVE  GatewayInv'
<1>1. x[r].worker \in OnWire
  BY DEF HeadersOk, Undisturbed, OnWire
<1>2. QED
  BY <1>1, StreamingInv DEF HeadersOk, KeepFlight

(* An answer that may be a failure of the upstream. *)
LEMMA HeadersErrorInv ==
    ASSUME GatewayInv, NEW r \in Requests, HeadersError(r)
    PROVE  GatewayInv'
<1>1. x[r].worker \in OnWire
  BY DEF HeadersError, Undisturbed, OnWire
<1>2. QED
  BY <1>1, StreamingInv DEF HeadersError

(* A 429 that is not replayed. *)
LEMMA PassRejectionInv ==
    ASSUME GatewayInv, NEW r \in Requests, PassRejection(r)
    PROVE  GatewayInv'
<1>1. x[r].worker \in OnWire
  BY DEF PassRejection, Undisturbed, OnWire
<1>2. QED
  BY <1>1, StreamingInv DEF PassRejection

(* A 429: classified only when it is the first answer and may be replayed. *)
LEMMA HeadersThrottledInv ==
    ASSUME GatewayInv, NEW r \in Requests, HeadersThrottled(r)
    PROVE  GatewayInv'
<1>1. x[r].worker \in OnWire /\ x[r] \in Record
  BY OnWireHas DEF HeadersThrottled, Undisturbed, OnWire
<1>2. PICK phase \in {"classify", "refused"} :
         /\ Update(r, [x[r] EXCEPT !.worker = phase])
         /\ phase = "classify" => CanRetry(r) /\ UNCHANGED cache
         /\ phase = "refused" => EndFlight(r)
         /\ UNCHANGED <<slot, circuit, lifecycle, gauges>>
  BY DEF HeadersThrottled
<1> DEFINE y == [x[r] EXCEPT !.worker = phase]
<1>3. phase \in OnWire /\ phase \in Working
  BY DEF OnWire, Working
<1>4. y \in Record /\ Kept(x[r], y)
  BY <1>1, <1>3 DEF Record, Kept
<1>5. /\ y.worker = phase /\ y.drain = x[r].drain /\ y.sends = x[r].sends
      /\ y.retried = x[r].retried
  BY <1>1 DEF Record
<1>6. Update(r, y)
  BY <1>2
<1> HIDE DEF y
<1>7. QED
  BY <1>1, <1>2, <1>3, <1>4, <1>5, <1>6, WireSteps DEF CanRetry

(* A chunk arrives. *)
LEMMA ChunkInv ==
    ASSUME GatewayInv, NEW r \in Requests, Chunk(r)
    PROVE  GatewayInv'
<1>1. /\ x[r].worker = "stream" /\ x[r].worker \in OnWire /\ x[r] \in Record
      /\ Sound(x[r], slot[r])
  BY OnWireHas DEF Chunk, Undisturbed, OnWire
<1> DEFINE w == IF x[r].drain THEN "stream" ELSE "deliver"
           y == [x[r] EXCEPT !.prefix = FALSE, !.worker = w]
<1>2. w \in OnWire /\ w \in Working /\ w # "classify"
  BY DEF OnWire, Working
<1>3. y \in Record /\ Kept(x[r], y)
  BY <1>1, <1>2 DEF Record, Kept
<1>4. /\ y.worker = w /\ y.drain = x[r].drain /\ y.sends = x[r].sends
      /\ y.retried = x[r].retried /\ y.body = x[r].body
  BY <1>1 DEF Record
<1>5. Update(r, y)
  BY DEF Chunk
<1> HIDE DEF y, w
<1>6. ~(y.body > 0)
  BY <1>1, <1>4 DEF Sound, Early, PreSpawn, PreStart
<1>7. QED
  BY <1>1, <1>2, <1>3, <1>4, <1>5, <1>6, WireSteps DEF Chunk, KeepFlight

(* A chunk is put into the channel. *)
LEMMA DeliverInv ==
    ASSUME GatewayInv, NEW r \in Requests, Deliver(r)
    PROVE  GatewayInv'
<1>1. /\ x[r].worker = "deliver" /\ x[r].worker \in OnWire /\ x[r] \in Record
      /\ Sound(x[r], slot[r])
  BY OnWireHas DEF Deliver, OnWire
<1> DEFINE y == [x[r] EXCEPT !.worker = "stream", !.queue = @ + 1]
<1>2. "stream" \in OnWire /\ "stream" \in Working /\ x[r].queue + 1 \in Nat
  BY <1>1 DEF OnWire, Working, Record
<1>3. y \in Record /\ Kept(x[r], y)
  BY <1>1, <1>2 DEF Record, Kept
<1>4. /\ y.worker = "stream" /\ y.drain = x[r].drain /\ y.sends = x[r].sends
      /\ y.retried = x[r].retried /\ y.body = x[r].body
  BY <1>1 DEF Record
<1>5. Update(r, y) /\ UNCHANGED <<slot, circuit, cache, lifecycle, gauges>>
  BY DEF Deliver
<1> HIDE DEF y
<1>6. ~(y.body > 0)
  BY <1>1, <1>4 DEF Sound, Early, PreSpawn, PreStart
<1>7. Circuits(r, y) /\ Flights(r, y)
  BY <1>1, <1>2, <1>4, <1>5, Before
  DEF Circuits, Flights, circuit, cache, Early, PreSpawn, PreStart, Sound
<1>8. Gauged(r, y)
  BY <1>1, <1>2, <1>4, <1>5, OnWireHas, Before DEF Gauged, Shift, gauges
<1>9. QED
  BY <1>1, <1>2, <1>3, <1>4, <1>5, <1>6, <1>7, <1>8, WireMoves DEF Sound, Kept

(* The one replay: its place, its probe and its sends. *)
LEMMA ReplayInv ==
    ASSUME GatewayInv, NEW r \in Requests, Replay(r)
    PROVE  GatewayInv'
<1>1. /\ x[r].worker = "classify" /\ x[r].worker \in OnWire /\ x[r] \in Record
      /\ Sound(x[r], slot[r]) /\ x[r].worker \in Working /\ ~x[r].drain
  BY OnWireHas DEF Replay, Undisturbed, OnWire
<1> DEFINE y == [x[r] EXCEPT !.worker = "replay"]
<1>2. "replay" \in Working
  BY DEF Working, PreStart
<1>3. y \in Record /\ Kept(x[r], y)
  BY <1>1, <1>2 DEF Record, Kept
<1>4. /\ y.worker = "replay" /\ y.drain = x[r].drain /\ y.sends = x[r].sends
      /\ y.retried = x[r].retried
  BY <1>1 DEF Record
<1>5. Update(r, y) /\ slot' = [slot EXCEPT ![r] = "none"]
      /\ UNCHANGED <<cache, lifecycle, gauges>>
  BY DEF Replay, Admission!Leave
<1> HIDE DEF y
<1>6. Early(y)
  BY <1>4 DEF Early, PreStart
<1>7. Goes(y, "none")
  BY <1>1, <1>2, <1>4, <1>6 DEF Goes, Sound, Sent, OnWire
<1>8. Circuits(r, y) /\ Flights(r, y)
  BY <1>5, <1>6, ResolveCircuits DEF Replay, Flights, cache
<1>9. Gauged(r, y)
  BY <1>1, <1>2, <1>4, <1>5, Before DEF Gauged, Shift, gauges
<1>10. QED
  BY <1>1, <1>3, <1>5, <1>7, <1>8, <1>9, WorkerGoes DEF SlotStates

-----------------------------------------------------------------------------
(* The server's own steps: no request changes, the phases do. *)
Phases ==
    /\ stop' \in BOOLEAN /\ force' \in BOOLEAN
    /\ server' \in {"serving", "draining", "aborting", "forcing", "stopped", "failed"}
    /\ supervisor' \in {"running", "closing", "aborting", "done"}
    /\ server' \in {"forcing", "stopped"} => HandlersDone
    /\ server' = "stopped" => supervisor' = "done"
    /\ supervisor' = "done" => NoWorkers

(* The invariant after a step that only moves the phases. *)
LEMMA PhaseInv ==
    ASSUME GatewayInv, Phases, UNCHANGED <<x, slot, circuit, gauges>>,
           flight' \in {flight, None}
    PROVE  GatewayInv'
<1>1. TypeInv'
  BY DEF GatewayInv, TypeInv, Phases, circuit, gauges
<1>2. Owned'
  BY GatewayAssumption DEF GatewayInv, Owned, circuit
<1>3. \A r \in Requests : Sound(x'[r], slot'[r])
  BY DEF GatewayInv
<1>4. active' = Cardinality(Busy') /\ draining' = Cardinality(Draining')
  BY DEF GatewayInv, Busy, Draining, gauges
<1>5. Cardinality(Admission!Placed') <= Concurrency
  BY DEF GatewayInv, Admission!Placed
<1>6. Waited'
  BY DEF Phases, Waited, HandlersDone, NoWorkers, Alive
<1>7. QED
  BY <1>1, <1>2, <1>3, <1>4, <1>5, <1>6 DEF GatewayInv

(* serve, supervise_workers, a stop, and the earlier request. *)
LEMMA ServerInv ==
    ASSUME GatewayInv, Shutdown \/ Stop \/ AcceptFails \/ EarlierEnds \/ UNCHANGED vars
    PROVE  GatewayInv'
<1>1. Phases
  <2> USE DEF Phases, GatewayInv, TypeInv, Waited
  <2>1. CASE Shutdown
    BY <2>1 DEF Shutdown, ServeStops, Drained, DrainTimeout, ForceWorkers, Forced,
       SupervisorStops, SupervisorForced, SupervisorDone, Serve, Supervise
  <2>2. CASE Stop
    BY <2>2 DEF Stop
  <2>3. CASE AcceptFails
    BY <2>3 DEF AcceptFails, Serve
  <2>4. CASE EarlierEnds
    BY <2>4 DEF EarlierEnds, lifecycle
  <2>5. CASE UNCHANGED vars
    BY <2>5 DEF vars, lifecycle
  <2>6. QED
    BY <2>1, <2>2, <2>3, <2>4, <2>5
<1>2. UNCHANGED <<x, slot, circuit, gauges>> /\ flight' \in {flight, None}
  BY DEF Shutdown, ServeStops, Drained, DrainTimeout, ForceWorkers, Forced,
     SupervisorStops, SupervisorForced, SupervisorDone, Serve, Supervise,
     Stop, AcceptFails, EarlierEnds, vars, cache
<1>3. QED
  BY <1>1, <1>2, PhaseInv

(* What the runtime drives. *)
LEMMA PromptInv ==
    ASSUME GatewayInv, NEW r \in Requests, Prompt(r)
    PROVE  GatewayInv'
<1>1. CASE Interrupt(r)
  BY <1>1, HandlerEndsInv DEF Interrupt, Alive, PreSpawn
<1>2. CASE Spawn(r)
  BY <1>2, SpawnInv
<1>3. CASE TakeHead(r)
  BY <1>3, TakeHeadInv
<1>4. CASE DropHandler(r) \/ AbortHandler(r)
  BY <1>4, HandlerEndsInv DEF DropHandler, AbortHandler
<1>5. QED
  BY <1>1, <1>2, <1>3, <1>4 DEF Prompt

(* What the supervisor and the worker's timers drive. *)
LEMMA DrivenInv ==
    ASSUME GatewayInv, NEW r \in Requests, Driven(r)
    PROVE  GatewayInv'
<1>1. CASE WorkerSpawn(r)
  BY <1>1, WorkerSpawnInv
<1>2. CASE StartInterrupted(r)
  BY <1>2, WorkerEndsInv DEF StartInterrupted, Working
<1>3. CASE WireDeadline(r)
  BY <1>3, OnWireHas, WorkerEndsInv DEF WireDeadline
<1>4. CASE AbortWorker(r)
  BY <1>4, WorkerEndsInv DEF AbortWorker, Rest
<1>5. CASE DropQueued(r)
  BY <1>5, DropQueuedInv
<1>6. QED
  BY <1>1, <1>2, <1>3, <1>4, <1>5 DEF Driven

(* A transport error. *)
LEMMA WireErrorInv ==
    ASSUME GatewayInv, NEW r \in Requests, WireError(r)
    PROVE  GatewayInv'
<1>1. x[r].worker \in OnWire
  BY DEF WireError, Undisturbed
<1>2. QED
  BY <1>1, OnWireHas, WorkerEndsInv DEF WireError

(* A server that has just begun to serve these requests. *)
LEMMA InitInv == Init => GatewayInv
<1> SUFFICES ASSUME Init PROVE GatewayInv
  OBVIOUS
<1>1. /\ x = [r \in Requests |-> Fresh] /\ slot = [r \in Requests |-> "none"]
      /\ gate \in {"closed", "open"} /\ probe = None /\ flight \in {None, Earlier}
      /\ stop = FALSE /\ server = "serving" /\ supervisor = "running"
      /\ force = FALSE /\ active = 0 /\ draining = 0
  BY DEF Init, Admission!Init
<1>2. Fresh \in Record
  BY DEF Fresh, Record
<1>3. TypeInv
  <2>1. x \in [Requests -> Record] /\ slot \in [Requests -> SlotStates]
    BY <1>1, <1>2 DEF SlotStates
  <2>2. active \in Int /\ draining \in Int
    BY <1>1
  <2>3. QED
    BY <1>1, <2>1, <2>2 DEF TypeInv
<1>4. \A r \in Requests : Sound(x[r], slot[r])
  <2>1. Sound(Fresh, "none")
    BY DEF Fresh, Sound, Place, Sent, PreSpawn, OnWire
  <2>2. QED
    BY <1>1, <2>1
<1>5. Owned
  BY <1>1, GatewayAssumption DEF Owned
<1>6. Fresh.worker \notin Working
  BY DEF Fresh, Working, PreStart, OnWire
<1>7. Busy = {} /\ Draining = {}
  BY <1>1, <1>6 DEF Busy, Draining
<1>8. active = Cardinality(Busy) /\ draining = Cardinality(Draining)
  BY <1>1, <1>7, FS_EmptySet
<1>9. Cardinality(Admission!Placed) <= Concurrency
  <2>1. Admission!Placed = {}
    BY <1>1 DEF Admission!Placed
  <2>2. QED
    BY <2>1, FS_EmptySet, GatewayAssumption
<1>10. Waited
  BY <1>1 DEF Waited
<1>11. QED
  BY <1>3, <1>4, <1>5, <1>8, <1>9, <1>10 DEF GatewayInv

(* No step of a handler, worker, supervisor or server breaks the invariant. *)
LEMMA NextInv == GatewayInv /\ [Next]_vars => GatewayInv'
<1> SUFFICES ASSUME GatewayInv, [Next]_vars PROVE GatewayInv'
  OBVIOUS
<1>1. CASE Shutdown \/ Stop \/ AcceptFails \/ EarlierEnds \/ UNCHANGED vars
  BY <1>1, ServerInv
<1>2. ASSUME NEW r \in Requests, Prompt(r) \/ Driven(r)
      PROVE  GatewayInv'
  BY <1>2, PromptInv, DrivenInv
<1>3. ASSUME NEW r \in Requests,
             \/ Arrive(r) \/ BodyFrame(r) \/ BodyRead(r) \/ CircuitWait(r)
             \/ WaitForTurn(r) \/ Acquire(r) \/ Grant(r) \/ Admitted(r)
             \/ Read(r) \/ ReadEnd(r) \/ Disconnect(r)
      PROVE  GatewayInv'
  BY <1>3, ArriveInv, BodyFrameInv, BodyReadInv, CircuitWaitInv, WaitForTurnInv,
     AcquireInv, GrantInv, AdmittedInv, ReadInv, ReadEndInv, DisconnectInv
<1>4. ASSUME NEW r \in Requests,
             \/ Start(r) \/ Parked(r) \/ Reacquire(r)
             \/ WireDeserted(r) \/ WireError(r)
             \/ HeadersOk(r) \/ HeadersError(r) \/ HeadersThrottled(r)
             \/ Replay(r) \/ PassRejection(r) \/ Chunk(r) \/ Deliver(r) \/ Eof(r)
      PROVE  GatewayInv'
  BY <1>4, StartInv, ParkedInv, ReacquireInv, WireDesertedInv, WireErrorInv,
     HeadersOkInv, HeadersErrorInv, HeadersThrottledInv, ReplayInv,
     PassRejectionInv, ChunkInv, DeliverInv, EofInv
<1>5. QED
  BY <1>1, <1>2, <1>3, <1>4 DEF Next

(* GatewayInv holds in every state: where a request is decides what it has *)
(* of admission, circuit and cache, and the gauges count its workers.      *)
THEOREM GatewayInvariant == Spec => []GatewayInv
  BY InitInv, NextInv, PTL DEF Spec

(* Whatever cancels a handler or a worker at any await, the hold, the probe, *)
(* the flight and the body budget are given back (WorkerGuard::drop and the *)
(* drops beside it), and the gauges return to what runs.                   *)
THEOREM GatewayNothingLeaks == Spec => []NothingLeaks
<1>1. GatewayInv => NothingLeaks
  <2> SUFFICES ASSUME GatewayInv PROVE NothingLeaks
    OBVIOUS
  <2>1. ASSUME NEW r \in Requests
        PROVE  /\ slot[r] \in {"waiting", "held"} => Early(x[r])
               /\ slot[r] = "started" <=> x[r].worker \in OnWire
               /\ x[r].body > 0 => Early(x[r]) \/ x[r].worker \in {"sent", "classify", "refused"}
    BY Before DEF Sound, Place, Early, Record, PreSpawn, PreStart, OnWire, Working
  <2>2. QED
    BY <2>1 DEF GatewayInv, Owned, NothingLeaks, Busy, Draining, Early
<1>2. QED
  BY <1>1, GatewayInvariant, PTL

(* A request is on the wire twice at most: the retried flag survives parking, *)
(* refused starts and re-queueing.                                         *)
THEOREM GatewayOneReplay == Spec => []OneReplay
<1>1. GatewayInv => OneReplay
  BY DEF GatewayInv, Sound, Sent, OneReplay
<1>2. QED
  BY <1>1, GatewayInvariant, PTL

(* downstream_body ends cleanly, for a client that is there, only after the *)
(* upstream's EOF and with every chunk delivered.                          *)
THEOREM GatewayCleanMeansComplete == Spec => []CleanMeansComplete
<1>1. GatewayInv => CleanMeansComplete
  BY DEF GatewayInv, Sound, CleanMeansComplete
<1>2. QED
  BY <1>1, GatewayInvariant, PTL

(* serve returns from a shutdown only when no handler, no worker and no    *)
(* place of admission is left, drained or forced.                          *)
THEOREM GatewayStoppedMeansQuiet == Spec => []StoppedMeansQuiet
<1>1. GatewayInv => StoppedMeansQuiet
  <2> SUFFICES ASSUME GatewayInv, server = "stopped"
               PROVE  HandlersDone /\ NoWorkers /\ \A r \in Requests : slot[r] = "none"
    BY DEF StoppedMeansQuiet
  <2>1. HandlersDone /\ NoWorkers
    BY DEF GatewayInv, Waited
  <2>2. ASSUME NEW r \in Requests PROVE slot[r] = "none"
    BY <2>1, Before
    DEF HandlersDone, Alive, NoWorkers, Sound, Place, Record, PreSpawn, PreStart, OnWire, Working
  <2>3. QED
    BY <2>1, <2>2
<1>2. QED
  BY <1>1, GatewayInvariant, PTL

-----------------------------------------------------------------------------
(* The use of admission.  A step changes the place of one request at most, *)
(* and as Slots allows; that the places never exceed Concurrency lets a    *)
(* request give up its ticket.                                             *)
Legal(r, s) ==
    \/ s = slot[r]
    \/ slot[r] = "none" /\ s = "waiting"
    \/ slot[r] = "waiting" /\ s = "none"
    \/ slot[r] = "held" /\ s = "started"
    \/ slot[r] \in {"held", "started"} /\ s = "none"

(* A legal change of one request's place is a step of Slots. *)
LEMMA LegalStep ==
    ASSUME GatewayInv, NEW r \in Requests, NEW s,
           slot' = [slot EXCEPT ![r] = s], Legal(r, s)
    PROVE  [Admission!Next]_slot
<1>1. slot \in [Requests -> SlotStates] /\ slot[r] \in SlotStates
  BY Before
<1>2. Admission!Room({})
  BY SameCount DEF GatewayInv, Admission!Room
<1>3. Admission!Granted({}) = slot
  BY <1>1 DEF Admission!Granted
<1>4. CASE s = slot[r]
  BY <1>1, <1>4
<1>5. CASE slot[r] = "none" /\ s = "waiting"
  <2>1. Admission!Enter(r, {})
    BY <1>2, <1>3, <1>5 DEF Admission!Enter
  <2>2. QED
    BY <2>1 DEF Admission!Next
<1>6. CASE slot[r] = "waiting" /\ s = "none"
  <2>1. Admission!GiveUp(r, {})
    BY <1>2, <1>3, <1>6 DEF Admission!GiveUp
  <2>2. QED
    BY <2>1 DEF Admission!Next
<1>7. CASE slot[r] = "held" /\ s = "started"
  BY <1>7 DEF Admission!Use, Admission!Next
<1>8. CASE slot[r] \in {"held", "started"} /\ s = "none"
  BY <1>8 DEF Admission!Leave, Admission!Next
<1>9. QED
  BY <1>4, <1>5, <1>6, <1>7, <1>8 DEF Legal

(* Giving back whatever one has is always legal. *)
LEMMA SlotFreeLegal ==
    ASSUME GatewayInv, NEW r \in Requests, SlotFree(r)
    PROVE  [Admission!Next]_slot
<1>1. Legal(r, "none")
  BY Before DEF Legal, SlotStates
<1>2. QED
  BY <1>1, LegalStep DEF SlotFree

(* Every step of the gateway is a step of Slots, or none. *)
LEMMA NextUses == GatewayInv /\ [Next]_vars => [Admission!Next]_slot
<1> SUFFICES ASSUME GatewayInv, [Next]_vars PROVE [Admission!Next]_slot
  OBVIOUS
<1>1. CASE UNCHANGED slot
  BY <1>1
<1>2. CASE \E r \in Requests : SlotFree(r)
  BY <1>2, SlotFreeLegal
<1>3. CASE \E r \in Requests : Admission!Grant({r})
  BY <1>3 DEF Admission!Next
<1>4. CASE \E r \in Requests : Admission!Enter(r, {})
  BY <1>4 DEF Admission!Next
<1>5. CASE \E r \in Requests : Admission!Use(r) \/ Admission!Leave(r)
  BY <1>5 DEF Admission!Next
<1>6. CASE Shutdown \/ Stop \/ AcceptFails \/ EarlierEnds \/ UNCHANGED vars
  BY <1>6, <1>1 DEF Shutdown, ServeStops, Drained, DrainTimeout, ForceWorkers, Forced,
     SupervisorStops, SupervisorForced, SupervisorDone, Serve, Supervise,
     Stop, AcceptFails, EarlierEnds, vars
<1>7. ASSUME NEW r \in Requests, HandlerEnds(r) PROVE [Admission!Next]_slot
  BY <1>1, <1>2, <1>7 DEF HandlerEnds
<1>8. ASSUME NEW r \in Requests, NEW answer, NEW outcome, WorkerEnds(r, answer, outcome)
      PROVE  [Admission!Next]_slot
  BY <1>2, <1>8 DEF WorkerEnds
<1>9. ASSUME NEW r \in Requests, NEW phase, Advance(r, phase) PROVE [Admission!Next]_slot
  BY <1>1, <1>9 DEF Advance
<1>10. ASSUME NEW r \in Requests, Prompt(r) \/ Driven(r)
       PROVE  [Admission!Next]_slot
  BY <1>1, <1>2, <1>7, <1>8, <1>9, <1>10
  DEF Prompt, Interrupt, Spawn, TakeHead, DropHandler, AbortHandler,
      Driven, WorkerSpawn, StartInterrupted, WireDeadline, AbortWorker, DropQueued
<1>11. ASSUME NEW r \in Requests,
             \/ Arrive(r) \/ BodyFrame(r) \/ BodyRead(r) \/ CircuitWait(r)
             \/ WaitForTurn(r) \/ Acquire(r) \/ Grant(r) \/ Admitted(r)
             \/ Read(r) \/ ReadEnd(r) \/ Disconnect(r)
       PROVE  [Admission!Next]_slot
  BY <1>1, <1>3, <1>4, <1>7, <1>9, <1>11
  DEF Arrive, BodyFrame, BodyRead, CircuitWait, WaitForTurn, Acquire, Grant, Admitted,
      Read, ReadEnd, Disconnect
<1>12. ASSUME NEW r \in Requests,
             \/ Start(r) \/ Parked(r) \/ Reacquire(r)
             \/ WireDeserted(r) \/ WireError(r)
       PROVE  [Admission!Next]_slot
  BY <1>1, <1>4, <1>5, <1>8, <1>12
  DEF Start, StartBoth, StartRefused, StartProbing, Parked, Reacquire,
      WireDeserted, StartDraining, WireError
<1>13. ASSUME NEW r \in Requests,
             \/ HeadersOk(r) \/ HeadersError(r) \/ HeadersThrottled(r)
             \/ Replay(r) \/ PassRejection(r) \/ Chunk(r) \/ Deliver(r) \/ Eof(r)
       PROVE  [Admission!Next]_slot
  BY <1>1, <1>2, <1>5, <1>13
  DEF HeadersOk, HeadersError, HeadersThrottled, Replay, PassRejection, Chunk, Deliver, Eof
<1>14. QED
  BY <1>6, <1>10, <1>11, <1>12, <1>13 DEF Next

(* The gateway asks admission for a place, uses it and gives it back only *)
(* as Slots allows, whatever cancels a handler or a worker.               *)
THEOREM GatewayUsesAdmission == Spec => UsesAdmission
<1>1. Init => Admission!Init
  BY DEF Init
<1>2. QED
  BY <1>1, NextUses, GatewayInvariant, PTL DEF Spec, UsesAdmission, Admission!Spec

-----------------------------------------------------------------------------
(***************************************************************************)
(* What a fold of the model computes, step by step.  SMT sees no further   *)
(* into CHOOSE than that such a function exists, which FoldExists shows by *)
(* the least position without one.                                         *)
(***************************************************************************)
(* A set of positions has a greatest member, which is the one Max takes. *)
LEMMA MaxMember ==
  ASSUME NEW n \in Nat, NEW S, S \subseteq 0..n, S # {}
  PROVE  Max(S) \in S /\ \A m \in S : Max(S) >= m
<1> DEFINE T == {k \in Nat : \A m \in S : k >= m}
<1>1. T \subseteq Nat /\ n \in T
  OBVIOUS
<1> HIDE DEF T
<1>2. PICK k \in T : \A m \in T : k <= m
  BY <1>1, LeastMember
<1>3. k \in Nat /\ \A m \in S : k >= m
  BY <1>2 DEF T
<1>4. k \in S
  <2>1. CASE k = 0
    <3>1. PICK m \in S : TRUE
      OBVIOUS
    <3>2. m \in 0..n /\ k >= m
      BY <1>3
    <3>3. m = k
      BY <2>1, <3>2
    <3>4. QED
      BY <3>3
  <2>2. CASE k # 0 /\ k \notin S
    <3>1. k - 1 \in Nat /\ ~(k <= k - 1)
      BY <1>3, <2>2
    <3>2. \A m \in S : k - 1 >= m
      BY <1>3, <2>2
    <3>3. k - 1 \in T
      BY <3>1, <3>2 DEF T
    <3>4. QED
      BY <1>2, <3>1, <3>3
  <2>3. QED
    BY <2>1, <2>2
<1>5. QED
  BY <1>3, <1>4 DEF Max

(* The member that no member exceeds is Max. *)
LEMMA MaxIs ==
  ASSUME NEW n \in Nat, NEW S, S \subseteq 0..n, NEW X \in S, \A m \in S : X >= m
  PROVE  Max(S) = X
<1>1. Max(S) \in S /\ \A m \in S : Max(S) >= m
  BY MaxMember
<1> DEFINE y == Max(S)
<1> HIDE DEF y
<1>2. y \in S /\ \A m \in S : y >= m
  BY <1>1 DEF y
<1>3. y \in 0..n /\ X \in 0..n /\ y >= X /\ X >= y
  BY <1>2
<1>4. y = X
  BY <1>3
<1>5. QED
  BY <1>4 DEF y

(* The steps that the folds of the model repeat. *)
Step(w, X, s) ==
  CASE w = "byte" -> ObserveByte(X, s)
    [] w = "process" -> Process(X, s)
    [] w = "event" -> ObserveEvent(X, s)

(* g folds the steps over every set of the first n positions of s. *)
Folds(w, g, X, s, n) ==
  g = [S \in SUBSET (1..n) |->
         IF S = {} THEN X ELSE Step(w, g[S \ {Max(S)}], s[Max(S)])]

(* There is such a fold, by induction on n. *)
LEMMA FoldExists ==
  ASSUME NEW w, NEW X, NEW s
  PROVE  \A n \in Nat : \E g : Folds(w, g, X, s, n)
<1> DEFINE T == {n \in Nat : ~\E g : Folds(w, g, X, s, n)}
<1> SUFFICES ASSUME T # {} PROVE FALSE
  OBVIOUS
<1>1. PICK n \in T : \A m \in T : n <= m
  BY LeastMember
<1>2. n # 0
  <2> SUFFICES ASSUME n = 0 PROVE \E g : Folds(w, g, X, s, n)
    OBVIOUS
  <2> DEFINE g == [S \in SUBSET (1..0) |-> X]
  <2>1. \A S \in SUBSET (1..0) : S = {}
    OBVIOUS
  <2>2. Folds(w, g, X, s, 0)
    BY <2>1 DEF Folds
  <2>3. QED
    BY <2>2
<1>3. PICK g : Folds(w, g, X, s, n - 1)
  BY <1>1, <1>2
<1> DEFINE h == [S \in SUBSET (1..n) |->
                   IF n \in S THEN Step(w, g[S \ {n}], s[n]) ELSE g[S]]
<1>4. n \in Nat \ {0}
  BY <1>2
<1>5. ASSUME NEW S \in SUBSET (1..n)
      PROVE  h[S] = IF S = {} THEN X ELSE Step(w, h[S \ {Max(S)}], s[Max(S)])
  <2>1. CASE n \in S
    <3>1. Max(S) = n
      <4>1. S \subseteq 0..n /\ \A m \in S : n >= m
        BY <1>4
      <4>2. QED
        BY <2>1, <4>1, MaxIs
    <3>2. h[S \ {n}] = g[S \ {n}]
      OBVIOUS
    <3>3. QED
      BY <2>1, <3>1, <3>2
  <2>2. CASE n \notin S
    <3>1. S \in SUBSET (1..(n - 1))
      BY <1>4, <2>2
    <3>2. h[S] = g[S] /\ g[S] = IF S = {} THEN X ELSE Step(w, g[S \ {Max(S)}], s[Max(S)])
      BY <1>3, <2>2, <3>1 DEF Folds
    <3>3. h[S \ {Max(S)}] = g[S \ {Max(S)}]
      BY <2>2
    <3>4. QED
      BY <3>2, <3>3
  <2>3. QED
    BY <2>1, <2>2
<1>6. Folds(w, h, X, s, n)
  <2> DEFINE k == [S \in SUBSET (1..n) |->
                     IF S = {} THEN X ELSE Step(w, h[S \ {Max(S)}], s[Max(S)])]
  <2>1. \A S \in SUBSET (1..n) : h[S] = k[S]
    BY <1>5
  <2>2. h = k
    BY <2>1
  <2>3. QED
    BY <2>2 DEF Folds
<1>7. QED
  BY <1>6

(* f is the steps one after the other. *)
Walks(f, w, X, s, n) ==
  f[0] = X /\ \A k \in 1..n : f[k] = Step(w, f[k - 1], s[k])

(* A fold of the whole sequence takes one step after the other. *)
LEMMA FoldTakesSteps ==
  ASSUME NEW w, NEW X, NEW s, NEW n \in Nat, NEW g, Folds(w, g, X, s, n)
  PROVE  Walks([k \in 0..n |-> g[1..k]], w, X, s, n)
<1> DEFINE f == [k \in 0..n |-> g[1..k]]
<1>1. f[0] = X
  <2>1. 1..0 = {} /\ 1..0 \in SUBSET (1..n)
    OBVIOUS
  <2>2. g[1..0] = X
    BY <2>1 DEF Folds
  <2>3. QED
    BY <2>2
<1>2. ASSUME NEW k \in 1..n PROVE f[k] = Step(w, f[k - 1], s[k])
  <2>1. 1..k \in SUBSET (1..n) /\ k \in 1..k /\ 1..k # {}
    OBVIOUS
  <2>2. Max(1..k) = k
    <3>1. 1..k \subseteq 0..k /\ k \in Nat /\ \A m \in 1..k : k >= m
      OBVIOUS
    <3>2. QED
      BY <2>1, <3>1, MaxIs
  <2>3. (1..k) \ {k} = 1..(k - 1)
    OBVIOUS
  <2>4. g[1..k] = Step(w, g[(1..k) \ {k}], s[k])
    BY <2>1, <2>2 DEF Folds
  <2>5. f[k] = g[1..k] /\ f[k - 1] = g[1..(k - 1)]
    OBVIOUS
  <2> HIDE DEF f
  <2>6. QED
    BY <2>3, <2>4, <2>5
<1>3. QED
  <2> HIDE DEF f
  <2>1. Walks(f, w, X, s, n)
    BY <1>1, <1>2 DEF Walks
  <2>2. QED
    BY <2>1 DEF f

(* What a chunk makes of a decoder, byte by byte. *)
LEMMA ObserveSteps ==
  ASSUME NEW T, NEW d, NEW chunk \in Seq(T)
  PROVE  \E f : /\ f[0] = d /\ f[Len(chunk)] = Observe(d, chunk)
                /\ \A k \in 1..Len(chunk) : f[k] = ObserveByte(f[k - 1], chunk[k])
<1> DEFINE n == Len(chunk)
           h == CHOOSE iter : iter = [S \in SUBSET DOMAIN chunk |->
                   IF S = {} THEN d ELSE ObserveByte(iter[S \ {Max(S)}], chunk[Max(S)])]
<1>1. n \in Nat /\ DOMAIN chunk = 1..n
  OBVIOUS
<1>2. \A X, s : Step("byte", X, s) = ObserveByte(X, s)
  BY DEF Step
<1>3. \E iter : iter = [S \in SUBSET DOMAIN chunk |->
                   IF S = {} THEN d ELSE ObserveByte(iter[S \ {Max(S)}], chunk[Max(S)])]
  <2>1. PICK g : Folds("byte", g, d, chunk, n)
    BY <1>1, FoldExists
  <2>2. g = [S \in SUBSET DOMAIN chunk |->
               IF S = {} THEN d ELSE ObserveByte(g[S \ {Max(S)}], chunk[Max(S)])]
    BY <1>1, <1>2, <2>1, Zenon DEF Folds
  <2>3. QED
    BY <2>2, Zenon
<1>4. h = [S \in SUBSET DOMAIN chunk |->
             IF S = {} THEN d ELSE ObserveByte(h[S \ {Max(S)}], chunk[Max(S)])]
  BY <1>3, Zenon
<1>5. Observe(d, chunk) = h[DOMAIN chunk]
  BY Zenon DEF Observe, FoldLeft, MapThenFoldSet
<1> HIDE DEF h, n
<1>6. Folds("byte", h, d, chunk, n)
  BY <1>1, <1>2, <1>4, Zenon DEF Folds
<1> DEFINE f == [k \in 0..n |-> h[1..k]]
<1>7. Walks(f, "byte", d, chunk, n) /\ f[n] = h[1..n]
  BY <1>1, <1>6, FoldTakesSteps
<1> HIDE DEF f
<1>8. /\ f[0] = d /\ f[n] = Observe(d, chunk)
      /\ \A k \in 1..n : f[k] = ObserveByte(f[k - 1], chunk[k])
  BY <1>1, <1>2, <1>5, <1>7 DEF Walks
<1>9. QED
  BY <1>8 DEF n

ProcessAll(d, chunk) == FoldLeft(Process, d, chunk)

(* The bytes set aside for a byte order mark, processed one by one. *)
LEMMA ProcessSteps ==
  ASSUME NEW T, NEW d, NEW chunk \in Seq(T)
  PROVE  \E f : /\ f[0] = d /\ f[Len(chunk)] = ProcessAll(d, chunk)
                /\ \A k \in 1..Len(chunk) : f[k] = Process(f[k - 1], chunk[k])
<1> DEFINE n == Len(chunk)
           h == CHOOSE iter : iter = [S \in SUBSET DOMAIN chunk |->
                   IF S = {} THEN d ELSE Process(iter[S \ {Max(S)}], chunk[Max(S)])]
<1>1. n \in Nat /\ DOMAIN chunk = 1..n
  OBVIOUS
<1>2. \A X, s : Step("process", X, s) = Process(X, s)
  BY DEF Step
<1>3. \E iter : iter = [S \in SUBSET DOMAIN chunk |->
                   IF S = {} THEN d ELSE Process(iter[S \ {Max(S)}], chunk[Max(S)])]
  <2>1. PICK g : Folds("process", g, d, chunk, n)
    BY <1>1, FoldExists
  <2>2. g = [S \in SUBSET DOMAIN chunk |->
               IF S = {} THEN d ELSE Process(g[S \ {Max(S)}], chunk[Max(S)])]
    BY <1>1, <1>2, <2>1, Zenon DEF Folds
  <2>3. QED
    BY <2>2, Zenon
<1>4. h = [S \in SUBSET DOMAIN chunk |->
             IF S = {} THEN d ELSE Process(h[S \ {Max(S)}], chunk[Max(S)])]
  BY <1>3, Zenon
<1>5. ProcessAll(d, chunk) = h[DOMAIN chunk]
  BY Zenon DEF ProcessAll, FoldLeft, MapThenFoldSet
<1> HIDE DEF h, n
<1>6. Folds("process", h, d, chunk, n)
  BY <1>1, <1>2, <1>4, Zenon DEF Folds
<1> DEFINE f == [k \in 0..n |-> h[1..k]]
<1>7. Walks(f, "process", d, chunk, n) /\ f[n] = h[1..n]
  BY <1>1, <1>6, FoldTakesSteps
<1> HIDE DEF f
<1>8. /\ f[0] = d /\ f[n] = ProcessAll(d, chunk)
      /\ \A k \in 1..n : f[k] = Process(f[k - 1], chunk[k])
  BY <1>1, <1>2, <1>5, <1>7 DEF Walks
<1>9. QED
  BY <1>8 DEF n

ObserveAll(o, events) == FoldLeft(ObserveEvent, o, events)

(* What the events of a chunk make of an observer, one by one. *)
LEMMA EventSteps ==
  ASSUME NEW T, NEW o, NEW events \in Seq(T)
  PROVE  \E f : /\ f[0] = o /\ f[Len(events)] = ObserveAll(o, events)
                /\ \A k \in 1..Len(events) : f[k] = ObserveEvent(f[k - 1], events[k])
<1> DEFINE n == Len(events)
           h == CHOOSE iter : iter = [S \in SUBSET DOMAIN events |->
                   IF S = {} THEN o ELSE ObserveEvent(iter[S \ {Max(S)}], events[Max(S)])]
<1>1. n \in Nat /\ DOMAIN events = 1..n
  OBVIOUS
<1>2. \A X, s : Step("event", X, s) = ObserveEvent(X, s)
  BY DEF Step
<1>3. \E iter : iter = [S \in SUBSET DOMAIN events |->
                   IF S = {} THEN o ELSE ObserveEvent(iter[S \ {Max(S)}], events[Max(S)])]
  <2>1. PICK g : Folds("event", g, o, events, n)
    BY <1>1, FoldExists
  <2>2. g = [S \in SUBSET DOMAIN events |->
               IF S = {} THEN o ELSE ObserveEvent(g[S \ {Max(S)}], events[Max(S)])]
    BY <1>1, <1>2, <2>1, Zenon DEF Folds
  <2>3. QED
    BY <2>2, Zenon
<1>4. h = [S \in SUBSET DOMAIN events |->
             IF S = {} THEN o ELSE ObserveEvent(h[S \ {Max(S)}], events[Max(S)])]
  BY <1>3, Zenon
<1>5. ObserveAll(o, events) = h[DOMAIN events]
  BY Zenon DEF ObserveAll, FoldLeft, MapThenFoldSet
<1> HIDE DEF h, n
<1>6. Folds("event", h, o, events, n)
  BY <1>1, <1>2, <1>4, Zenon DEF Folds
<1> DEFINE f == [k \in 0..n |-> h[1..k]]
<1>7. Walks(f, "event", o, events, n) /\ f[n] = h[1..n]
  BY <1>1, <1>6, FoldTakesSteps
<1> HIDE DEF f
<1>8. /\ f[0] = o /\ f[n] = ObserveAll(o, events)
      /\ \A k \in 1..n : f[k] = ObserveEvent(f[k - 1], events[k])
  BY <1>1, <1>2, <1>5, <1>7 DEF Walks
<1>9. QED
  BY <1>8 DEF n

-----------------------------------------------------------------------------
(***************************************************************************)
(* The text's grammar: how the lines and the events of a text change when  *)
(* one symbol more has come.                                               *)
(***************************************************************************)
(* The position of k in the order of S. *)
Below(S, n) == Cardinality({m \in S : m < n})
Kth(S, k) == CHOOSE n \in S : Below(S, n) = k - 1
(* A member that alone has k - 1 below it is the one at k. *)
LEMMA KthIs ==
  ASSUME NEW S, NEW k, NEW X \in S, \A n \in S : Below(S, n) = k - 1 <=> n = X
  PROVE  Kth(S, k) = X
<1>1. \E n \in S : Below(S, n) = k - 1
  OBVIOUS
<1>2. Kth(S, k) \in S /\ Below(S, Kth(S, k)) = k - 1
  BY <1>1, Zenon DEF Kth
<1>3. QED
  BY <1>2

(* A further greatest position comes last in the order. *)
LEMMA InOrderAppend ==
  ASSUME NEW S, IsFiniteSet(S), S \subseteq Nat, NEW X \in Nat, \A i \in S : i < X
  PROVE /\ Cardinality(S) \in Nat
        /\ Cardinality(S \cup {X}) = Cardinality(S) + 1
        /\ InOrder(S \cup {X}) = [k \in 1..(Cardinality(S) + 1) |-> IF k = Cardinality(S) + 1 THEN X ELSE InOrder(S)[k]]
<1> DEFINE T == S \cup {X}
           c == Cardinality(S)
<1>1. X \notin S
  OBVIOUS
<1>2. Cardinality(T) = c + 1 /\ c \in Nat
  BY <1>1, FS_AddElement, FS_CardinalityType
<1>3. \A n \in S : Below(S, n) = Below(T, n)
  <2>1. \A n \in S : {m \in S : m < n} = {m \in T : m < n}
    OBVIOUS
  <2>2. QED
    BY <2>1 DEF Below
<1>4. Below(T, X) = c
  <2>1. \A m \in T : m < X <=> m \in S
    OBVIOUS
  <2>2. {m \in T : m < X} = S
    BY <2>1
  <2>3. QED
    BY <2>2 DEF Below
<1>5. ASSUME NEW n \in S PROVE Below(S, n) # c
  <2> DEFINE U == {m \in S : m < n}
  <2>1. n \notin U /\ U \in SUBSET S
    OBVIOUS
  <2> HIDE DEF U
  <2>2. Cardinality(S) = Cardinality(U) => S = U
    BY <2>1, FS_Subset
  <2>3. Cardinality(S) # Cardinality(U)
    BY <2>1, <2>2
  <2>4. QED
    BY <2>3 DEF Below, U
<1>6. ASSUME NEW k \in 1..c PROVE Kth(T, k) = Kth(S, k)
  <2>1. k - 1 # c
    BY <1>2
  <2>2. \A n : (n \in S /\ Below(S, n) = k - 1) <=> (n \in T /\ Below(T, n) = k - 1)
    BY <1>3, <1>4, <2>1
  <2>3. (CHOOSE n \in S : Below(S, n) = k - 1) = (CHOOSE n \in T : Below(T, n) = k - 1)
    BY <2>2
  <2>4. QED
    BY <2>3 DEF Kth
<1>7. Kth(T, c + 1) = X
  <2>1. \A n \in T : Below(T, n) = c <=> n = X
    BY <1>3, <1>4, <1>5
  <2> DEFINE k == c + 1
  <2>2. X \in T /\ k - 1 = c
    BY <1>2
  <2> HIDE DEF T, c, k
  <2>3. Kth(T, k) = X
    BY <2>1, <2>2, KthIs
  <2>4. QED
    BY <2>3 DEF k
<1>8. InOrder(S) = [k \in 1..c |-> Kth(S, k)] /\ InOrder(T) = [k \in 1..Cardinality(T) |-> Kth(T, k)]
  BY Zenon DEF InOrder, Kth, Below
<1> HIDE DEF T, c
<1>9. InOrder(T) = [k \in 1..(c + 1) |-> IF k = c + 1 THEN X ELSE InOrder(S)[k]]
  BY <1>2, <1>6, <1>7, <1>8
<1>10. QED
  BY <1>2, <1>9 DEF T, c

(* The first positions of a set are members of it. *)
LEMMA InOrderMember ==
  \A n \in Nat : \A S \in SUBSET (1..n) :
     /\ IsFiniteSet(S) /\ Cardinality(S) \in Nat
     /\ InOrder(S) \in [1..Cardinality(S) -> S]
<1> DEFINE Good(S) == /\ IsFiniteSet(S) /\ Cardinality(S) \in Nat
                      /\ InOrder(S) \in [1..Cardinality(S) -> S]
           T == {n \in Nat : ~\A S \in SUBSET (1..n) : Good(S)}
<1> SUFFICES ASSUME T # {} PROVE FALSE
  OBVIOUS
<1>1. PICK n \in T : \A m \in T : n <= m
  BY LeastMember
<1>2. Good({})
  <2>1. IsFiniteSet({}) /\ Cardinality({}) = 0
    BY FS_EmptySet
  <2>2. QED
    BY <2>1 DEF InOrder
<1>3. PICK S \in SUBSET (1..n) : ~Good(S)
  OBVIOUS
<1>4. n # 0
  <2>1. n = 0 => S = {}
    OBVIOUS
  <2> HIDE DEF Good
  <2>2. QED
    BY <1>2, <1>3, <2>1
<1>5. \A U \in SUBSET (1..(n - 1)) : Good(U)
  <2>1. n - 1 \in Nat /\ ~(n <= n - 1)
    BY <1>4
  <2> HIDE DEF Good
  <2>2. QED
    BY <1>1, <2>1
<1>6. n \in S
  <2> HIDE DEF Good
  <2>1. n \notin S => S \in SUBSET (1..(n - 1))
    BY <1>4
  <2>2. QED
    BY <1>3, <1>5, <2>1
<1> DEFINE U == S \ {n}
<1>7. U \in SUBSET (1..(n - 1)) /\ U \cup {n} = S /\ U \subseteq Nat /\ \A i \in U : i < n
  BY <1>4, <1>6
<1>8. Good(U)
  <2> HIDE DEF Good, U
  <2>1. QED
    BY <1>5, <1>7
<1> HIDE DEF U
<1>9. /\ Cardinality(S) = Cardinality(U) + 1
      /\ InOrder(S) = [k \in 1..(Cardinality(U) + 1) |->
                         IF k = Cardinality(U) + 1 THEN n ELSE InOrder(U)[k]]
  BY <1>4, <1>7, <1>8, InOrderAppend
<1>10. IsFiniteSet(S)
  BY <1>7, <1>8, FS_AddElement
<1>11. InOrder(S) \in [1..Cardinality(S) -> S]
  <2> DEFINE c == Cardinality(U)
             f == InOrder(U)
  <2>1. c \in Nat /\ f \in [1..c -> U]
    BY <1>8
  <2>0. U \subseteq S /\ n \in S
    BY <1>6, <1>7
  <2>2. Cardinality(S) = c + 1 /\ InOrder(S) = [k \in 1..(c + 1) |-> IF k = c + 1 THEN n ELSE f[k]]
    BY <1>9
  <2> HIDE DEF c, f, Good
  <2>3. ASSUME NEW k \in 1..(c + 1) PROVE (IF k = c + 1 THEN n ELSE f[k]) \in S
    <3>1. k # c + 1 => k \in 1..c
      BY <2>1
    <3>2. k # c + 1 => f[k] \in S
      BY <2>0, <2>1, <3>1
    <3>3. QED
      BY <2>0, <3>2
  <2>4. QED
    BY <2>2, <2>3
<1>12. QED
  BY <1>3, <1>8, <1>9, <1>10, <1>11

(* The symbols a text is made of. *)
Symbol == STRING \cup {LF}


(* The part of a text that no line break follows yet, the lines since its  *)
(* last blank line, and whether a further symbol ends a line.              *)
Cur(t) == Line(t, Len(t) + 1)

Lines(t) == Block(t, Len(t) + 1)

EndsLine(t, s) == s \in Breaks /\ ~(s = LF /\ Len(t) > 0 /\ t[Len(t)] = CR)

(* What Append does, symbol by symbol. *)
LEMMA AppendFacts ==
  ASSUME NEW T, NEW t \in Seq(T), NEW s \in T
  PROVE  /\ Append(t, s) \in Seq(T) /\ Len(t) \in Nat
         /\ Len(Append(t, s)) = Len(t) + 1
         /\ DOMAIN Append(t, s) = 1..(Len(t) + 1) /\ DOMAIN t = 1..Len(t)
         /\ \A i \in 1..Len(t) : Append(t, s)[i] = t[i]
         /\ Append(t, s)[Len(t) + 1] = s
  OBVIOUS

(* A final part of a sequence grows with it. *)
LEMMA SubSeqAppend ==
  ASSUME NEW T, NEW t \in Seq(T), NEW s \in T, NEW a \in 1..(Len(t) + 1)
  PROVE  /\ SubSeq(t, a, Len(t)) \in Seq(T)
         /\ Len(SubSeq(t, a, Len(t))) = Len(t) + 1 - a
         /\ SubSeq(Append(t, s), a, Len(t) + 1) = Append(SubSeq(t, a, Len(t)), s)
<1> DEFINE u == Append(t, s)
           n == Len(t)
           v == SubSeq(u, a, n + 1)
           w == SubSeq(t, a, n)
<1>1. /\ u \in Seq(T) /\ n \in Nat /\ Len(u) = n + 1
      /\ \A j \in 1..n : u[j] = t[j] /\ t[j] \in T
      /\ u[n + 1] = s
  BY AppendFacts
<1> HIDE DEF u, n
<1>2. \A j \in a..(n + 1) : u[j] \in T
  BY <1>1 DEF n
<1>3. /\ v \in Seq(T) /\ Len(v) = n + 2 - a
      /\ \A j \in 1..(n + 2 - a) : v[j] = u[a + j - 1]
  <2> DEFINE e == n + 1
  <2>1. a \in Int /\ e \in Int /\ a <= e /\ e - a + 1 = n + 2 - a
    BY <1>1 DEF n
  <2>2. \A j \in a..e : u[j] \in T
    BY <1>2
  <2>3. v = SubSeq(u, a, e)
    OBVIOUS
  <2> HIDE DEF e, v
  <2>4. /\ v \in Seq(T)
        /\ Len(v) = IF a <= e THEN e - a + 1 ELSE 0
        /\ \A j \in 1..(e - a + 1) : v[j] = u[a + j - 1]
    BY <2>1, <2>2, <2>3, SubSeqProperties
  <2>5. QED
    BY <2>1, <2>4
<1>4. /\ w \in Seq(T) /\ Len(w) = n + 1 - a
      /\ \A j \in 1..(n + 1 - a) : w[j] = t[a + j - 1]
  <2>1. a \in Int /\ n \in Int /\ a <= n + 1 /\ n - a + 1 = n + 1 - a /\ \A j \in a..n : t[j] \in T
    BY <1>1 DEF n
  <2>2. (IF a <= n THEN n - a + 1 ELSE 0) = n + 1 - a
    BY <2>1
  <2>3. QED
    BY <2>1, <2>2, SubSeqProperties
<1> HIDE DEF v, w
<1>5. a \in 1..(n + 1)
  BY DEF n
<1>6. /\ Append(w, s) \in Seq(T) /\ Len(Append(w, s)) = n + 2 - a
      /\ \A j \in 1..(n + 1 - a) : Append(w, s)[j] = w[j]
      /\ Append(w, s)[n + 2 - a] = s
  <2> DEFINE m == Len(w)
             X == Append(w, s)
  <2>1. m + 1 = n + 2 - a /\ m = n + 1 - a
    BY <1>1, <1>4, <1>5
  <2>2. X \in Seq(T) /\ Len(X) = m + 1 /\ X[m + 1] = s /\ \A j \in 1..m : X[j] = w[j]
    <3>1. w \in Seq(T)
      BY <1>4
    <3>2. QED
      BY <3>1, AppendFacts
  <2> HIDE DEF m, X
  <2>3. X \in Seq(T) /\ Len(X) = n + 2 - a /\ X[n + 2 - a] = s /\ \A j \in 1..(n + 1 - a) : X[j] = w[j]
    BY <2>1, <2>2
  <2>4. QED
    BY <2>3 DEF X
<1>7. ASSUME NEW j \in 1..(n + 2 - a) PROVE v[j] = Append(w, s)[j]
  <2>1. CASE j = n + 2 - a
    <3>1. a + j - 1 = n + 1
      BY <1>1, <1>5, <2>1
    <3>2. v[j] = u[a + j - 1]
      BY <1>3
    <3>3. QED
      BY <1>1, <1>6, <2>1, <3>1, <3>2
  <2>2. CASE j # n + 2 - a
    <3>1. j \in 1..(n + 1 - a) /\ a + j - 1 \in 1..n
      BY <1>1, <1>5, <2>2
    <3>2. v[j] = u[a + j - 1] /\ w[j] = t[a + j - 1]
      BY <1>3, <1>4, <3>1
    <3>3. QED
      BY <1>1, <1>6, <3>1, <3>2
  <2>3. QED
    BY <2>1, <2>2
<1>8. v = Append(w, s)
  BY <1>3, <1>6, <1>7, SeqEqual
<1>9. QED
  BY <1>4, <1>8 DEF u, v, w, n

(* Lines end where they ended, and at the new symbol if it ends one. *)
LEMMA LineEndsAppend ==
  ASSUME NEW t \in Seq(Symbol), NEW s \in Symbol
  PROVE  /\ LineEnds(t) \subseteq 1..Len(t)
         /\ LineEnds(Append(t, s)) =
               LineEnds(t) \cup (IF EndsLine(t, s) THEN {Len(t) + 1} ELSE {})
<1> DEFINE u == Append(t, s)
           n == Len(t)
<1>1. /\ u \in Seq(Symbol) /\ n \in Nat /\ DOMAIN u = 1..(n + 1) /\ DOMAIN t = 1..n
      /\ \A i \in 1..n : u[i] = t[i]
      /\ u[n + 1] = s
  BY AppendFacts
<1> HIDE DEF u
<1>2. ASSUME NEW i \in 1..n PROVE i \in LineEnds(u) <=> i \in LineEnds(t)
  <2>1. i > 1 => i - 1 \in 1..n /\ u[i - 1] = t[i - 1]
    BY <1>1
  <2>2. i \in DOMAIN t /\ i \in DOMAIN u /\ u[i] = t[i]
    BY <1>1
  <2> HIDE DEF n
  <2>3. QED
    BY <2>1, <2>2 DEF LineEnds
<1>3. n + 1 \in LineEnds(u) <=> EndsLine(t, s)
  <2>1. n + 1 \in DOMAIN u /\ u[n + 1] = s /\ n + 1 - 1 = n /\ (n + 1 > 1 <=> n > 0)
    BY <1>1
  <2>2. n > 0 => u[n] = t[n]
    BY <1>1
  <2>3. n + 1 \in LineEnds(u) <=> s \in Breaks /\ ~(s = LF /\ n + 1 > 1 /\ u[n + 1 - 1] = CR)
    BY <2>1 DEF LineEnds
  <2>4. QED
    BY <2>1, <2>2, <2>3 DEF EndsLine
<1>4. LineEnds(u) \subseteq 1..(n + 1) /\ LineEnds(t) \subseteq 1..n
  BY <1>1 DEF LineEnds
<1>5. ASSUME NEW i PROVE i \in LineEnds(u) <=> i \in LineEnds(t) \cup (IF EndsLine(t, s) THEN {n + 1} ELSE {})
  <2>1. CASE i \in 1..n
    BY <1>1, <1>2, <2>1
  <2>2. CASE i = n + 1
    <3>1. i \notin LineEnds(t)
      BY <1>1, <1>4, <2>2
    <3>2. QED
      BY <1>3, <2>2, <3>1
  <2>3. CASE i \notin 1..(n + 1)
    <3>1. i \notin 1..n /\ i # n + 1
      BY <1>1, <2>3
    <3>2. QED
      BY <1>4, <2>3, <3>1
  <2>4. QED
    BY <1>1, <2>1, <2>2, <2>3
<1>6. QED
  BY <1>4, <1>5 DEF u

(* Where the line before a position begins. *)
LEMMA LineStartIs ==
  ASSUME NEW t \in Seq(Symbol), NEW i \in 1..(Len(t) + 1)
  PROVE  /\ LineStart(t, i) \in 1..i
         /\ \A j \in LineStart(t, i)..(i - 1) : t[j] \notin Breaks
         /\ LineStart(t, i) = 1 \/ t[LineStart(t, i) - 1] \in Breaks
<1> DEFINE S == {0} \cup {j \in 1..(i - 1) : t[j] \in Breaks}
           X == Max(S)
<1>1. S \subseteq 0..(i - 1) /\ S # {} /\ i - 1 \in Nat
  OBVIOUS
<1> HIDE DEF S
<1>2. X \in S /\ \A m \in S : X >= m
  BY <1>1, MaxMember
<1> HIDE DEF X
<1>3. X \in 0..(i - 1)
  BY <1>1, <1>2
<1>4. \A j \in (X + 1)..(i - 1) : t[j] \notin Breaks
  BY <1>2, <1>3 DEF S
<1>5. X = 0 \/ t[X] \in Breaks
  BY <1>2 DEF S
<1>6. LineStart(t, i) = 1 + X
  BY DEF LineStart, X, S
<1>7. QED
  BY <1>3, <1>4, <1>5, <1>6

(* A line before a position stays when a symbol is added. *)
LEMMA LineAppend ==
  ASSUME NEW t \in Seq(Symbol), NEW s \in Symbol, NEW i \in 1..(Len(t) + 1)
  PROVE  /\ Line(t, i) \in Seq(Symbol)
         /\ Line(Append(t, s), i) = Line(t, i)
         /\ LineStart(Append(t, s), i) = LineStart(t, i)
<1> DEFINE u == Append(t, s)
<1>1. /\ u \in Seq(Symbol) /\ Len(t) \in Nat /\ Len(u) = Len(t) + 1
      /\ \A j \in 1..Len(t) : u[j] = t[j]
  BY AppendFacts
<1> HIDE DEF u
<1>2. LineStart(u, i) = LineStart(t, i)
  <2>1. \A j \in 1..(i - 1) : u[j] = t[j]
    BY <1>1
  <2>2. {j \in 1..(i - 1) : u[j] \in Breaks} = {j \in 1..(i - 1) : t[j] \in Breaks}
    BY <2>1
  <2>3. QED
    BY <2>2 DEF LineStart
<1> DEFINE a == LineStart(t, i)
<1>3. a \in 1..i
  BY LineStartIs
<1> HIDE DEF a
<1>4. SubSeq(t, a, i - 1) \in Seq(Symbol) /\ SubSeq(u, a, i - 1) = SubSeq(t, a, i - 1)
  BY <1>1, <1>3
<1>5. QED
  BY <1>2, <1>4 DEF Line, a, u

(* The line before the position after n. *)
LEMMA LineUpTo ==
  ASSUME NEW t, NEW n \in Nat, NEW i, i = n + 1
  PROVE  Line(t, i) = SubSeq(t, LineStart(t, i), n)
<1>1. i - 1 = n
  OBVIOUS
<1>2. QED
  BY <1>1 DEF Line

(* The open line goes on, or a break empties it. *)
LEMMA CurAppend ==
  ASSUME NEW t \in Seq(Symbol), NEW s \in Symbol
  PROVE  /\ Cur(t) \in Seq(Symbol)
         /\ Cur(Append(t, s)) = IF s \in Breaks THEN <<>> ELSE Append(Cur(t), s)
         /\ Cur(t) = <<>> <=> t = <<>> \/ t[Len(t)] \in Breaks
<1> DEFINE u == Append(t, s)
           n == Len(t)
           a == LineStart(t, n + 1)
           b == LineStart(u, n + 2)
<1>1. /\ u \in Seq(Symbol) /\ n \in Nat /\ Len(u) = n + 1
      /\ \A j \in 1..n : u[j] = t[j]
      /\ u[n + 1] = s
  BY AppendFacts
<1>2. n + 1 \in 1..(n + 1) /\ n + 2 \in 1..(Len(u) + 1) /\ n + 1 - 1 = n /\ n + 2 - 1 = n + 1
  BY <1>1
<1> HIDE DEF u
<1>3. /\ a \in 1..(n + 1)
      /\ \A j \in a..n : t[j] \notin Breaks
      /\ a = 1 \/ t[a - 1] \in Breaks
  BY <1>2, LineStartIs
<1>4. /\ b \in 1..(n + 2)
      /\ \A j \in b..(n + 1) : u[j] \notin Breaks
      /\ b = 1 \/ u[b - 1] \in Breaks
  BY <1>1, <1>2, LineStartIs
<1>5. Cur(t) = SubSeq(t, a, n)
  <2>1. Cur(t) = Line(t, n + 1)
    BY DEF Cur
  <2>2. Line(t, n + 1) = SubSeq(t, a, n)
    BY <1>1, LineUpTo
  <2>3. QED
    BY <2>1, <2>2
<1>6. Cur(u) = SubSeq(u, b, n + 1)
  <2>1. Len(u) + 1 = n + 2
    BY <1>1
  <2> HIDE DEF n
  <2>2. Cur(u) = Line(u, n + 2)
    BY <2>1 DEF Cur
  <2>3. Line(u, n + 2) = SubSeq(u, b, n + 1)
    <3>1. n + 1 \in Nat /\ n + 2 = n + 1 + 1
      BY <1>1
    <3>2. QED
      BY <3>1, LineUpTo
  <2>4. QED
    BY <2>2, <2>3
<1> HIDE DEF n, a, b
<1>7. /\ Cur(t) \in Seq(Symbol) /\ Len(Cur(t)) = n + 1 - a
      /\ SubSeq(u, a, n + 1) = Append(Cur(t), s)
  <2>1. a \in 1..(Len(t) + 1)
    BY <1>3 DEF n
  <2>2. /\ SubSeq(t, a, Len(t)) \in Seq(Symbol)
        /\ Len(SubSeq(t, a, Len(t))) = Len(t) + 1 - a
        /\ SubSeq(Append(t, s), a, Len(t) + 1) = Append(SubSeq(t, a, Len(t)), s)
    BY <2>1, SubSeqAppend
  <2>3. QED
    BY <1>5, <2>2 DEF n, u
<1>8. ASSUME s \in Breaks PROVE Cur(u) = <<>>
  <2>1. b = n + 2
    BY <1>1, <1>4, <1>8
  <2>2. SubSeq(u, n + 2, n + 1) = <<>>
    BY <1>1, SubSeqEmpty
  <2>3. QED
    BY <1>6, <1>8, <2>1, <2>2
<1>9. ASSUME s \notin Breaks PROVE Cur(u) = Append(Cur(t), s)
  <2>1. b = a
    BY <1>1, <1>3, <1>4, <1>9
  <2>2. QED
    BY <1>6, <1>7, <1>9, <2>1
<1>10. Cur(t) = <<>> <=> t = <<>> \/ t[n] \in Breaks
  <2>1. Cur(t) = <<>> <=> Len(Cur(t)) = 0
    BY <1>7, EmptySeq
  <2>2. Cur(t) = <<>> <=> a = n + 1
    BY <1>1, <1>3, <1>7, <2>1
  <2>3. t = <<>> <=> n = 0
    BY DEF n
  <2>4. QED
    BY <1>1, <1>3, <2>2, <2>3
<1>11. QED
  BY <1>7, <1>8, <1>9, <1>10 DEF u, n

(* Blank lines end where they ended, and at the new symbol if it ends one. *)
LEMMA BlanksAppend ==
  ASSUME NEW t \in Seq(Symbol), NEW s \in Symbol
  PROVE  /\ Blanks(t) \subseteq 1..Len(t)
         /\ Blanks(Append(t, s)) =
               Blanks(t) \cup (IF EndsLine(t, s) /\ Cur(t) = <<>> THEN {Len(t) + 1} ELSE {})
<1> DEFINE u == Append(t, s)
           n == Len(t)
<1>1. n \in Nat /\ LineEnds(t) \subseteq 1..n
  BY LineEndsAppend
<1>2. LineEnds(u) = LineEnds(t) \cup (IF EndsLine(t, s) THEN {n + 1} ELSE {})
  BY LineEndsAppend
<1>3. \A i \in 1..n : Line(u, i) = Line(t, i)
  BY LineAppend
<1>4. Line(u, n + 1) = Cur(t)
  <2>1. n + 1 \in 1..(n + 1)
    BY <1>1
  <2>2. QED
    BY <2>1, LineAppend DEF Cur
<1> HIDE DEF u, n
<1>5. Blanks(u) = Blanks(t) \cup (IF EndsLine(t, s) /\ Cur(t) = <<>> THEN {n + 1} ELSE {})
  <2>1. CASE EndsLine(t, s)
    <3>1. LineEnds(u) = LineEnds(t) \cup {n + 1}
      BY <1>2, <2>1
    <3>2. QED
      BY <1>1, <1>3, <1>4, <2>1, <3>1 DEF Blanks
  <2>2. CASE ~EndsLine(t, s)
    <3>1. LineEnds(u) = LineEnds(t)
      BY <1>2, <2>2
    <3>2. QED
      BY <1>1, <1>3, <2>2, <3>1 DEF Blanks
  <2>3. QED
    BY <2>1, <2>2
<1>6. QED
  BY <1>1, <1>5 DEF Blanks, u, n

(* A function on the first n numbers is a sequence. *)
LEMMA FunctionIsSeq ==
  ASSUME NEW T, NEW n \in Nat, NEW f \in [1..n -> T]
  PROVE  f \in Seq(T) /\ Len(f) = n
  OBVIOUS

(* The blank line before a position, and the ends of the lines between. *)
Previous(t, i) == Max({0} \cup {j \in Blanks(t) : j < i})

Ends(t, i) == {j \in LineEnds(t) : Previous(t, i) < j /\ j < i}

LinesAt(t, E) == [k \in DOMAIN InOrder(E) |-> Line(t, InOrder(E)[k])]

(* A block is the lines at those ends. *)
LEMMA BlockIs ==
  \A t, i : Block(t, i) = LinesAt(t, Ends(t, i))
  BY Zenon DEF Block, LinesAt, Ends, Previous

(* Lines at given ends stay when a symbol is added; they are a sequence. *)
LEMMA LinesAtAppend ==
  ASSUME NEW t \in Seq(Symbol), NEW s \in Symbol, NEW E \in SUBSET (1..Len(t))
  PROVE  /\ LinesAt(t, E) \in Seq(Seq(Symbol))
         /\ Len(LinesAt(t, E)) = Cardinality(E)
         /\ LinesAt(Append(t, s), E) = LinesAt(t, E)
         /\ LinesAt(Append(t, s), E \cup {Len(t) + 1}) = Append(LinesAt(t, E), Cur(t))
<1> DEFINE u == Append(t, s)
           n == Len(t)
           f == InOrder(E)
           c == Cardinality(E)
           L == LinesAt(t, E)
<1>1. n \in Nat /\ E \in SUBSET (1..n)
  OBVIOUS
<1>2. IsFiniteSet(E) /\ c \in Nat /\ f \in [1..c -> E]
  BY <1>1, InOrderMember
<1>3. \A i \in 1..n : Line(u, i) = Line(t, i) /\ Line(t, i) \in Seq(Symbol)
  BY LineAppend
<1>4. Line(u, n + 1) = Cur(t) /\ Cur(t) \in Seq(Symbol)
  <2>1. n + 1 \in 1..(n + 1)
    BY <1>1
  <2>2. QED
    BY <2>1, LineAppend, CurAppend DEF Cur
<1>5. InOrder(E \cup {n + 1}) = [k \in 1..(c + 1) |-> IF k = c + 1 THEN n + 1 ELSE f[k]]
  <2>1. E \subseteq Nat /\ n + 1 \in Nat /\ \A i \in E : i < n + 1
    BY <1>1
  <2>2. QED
    BY <1>2, <2>1, InOrderAppend
<1>6. L = [k \in 1..c |-> Line(t, f[k])]
  BY <1>2 DEF LinesAt
<1>7. LinesAt(u, E) = [k \in 1..c |-> Line(u, f[k])]
  BY <1>2 DEF LinesAt
<1>8. LinesAt(u, E \cup {n + 1}) =
        [k \in 1..(c + 1) |-> Line(u, IF k = c + 1 THEN n + 1 ELSE f[k])]
  BY <1>5 DEF LinesAt
<1> HIDE DEF u, n, f, c, L
<1>9. \A k \in 1..c : f[k] \in 1..n
  BY <1>1, <1>2
<1>10. L \in Seq(Seq(Symbol)) /\ Len(L) = c
  <2>1. \A k \in 1..c : Line(t, f[k]) \in Seq(Symbol)
    BY <1>3, <1>9
  <2>2. QED
    BY <1>2, <1>6, <2>1
<1>11. LinesAt(u, E) = L
  BY <1>3, <1>6, <1>7, <1>9
<1>12. LinesAt(u, E \cup {n + 1}) = Append(L, Cur(t))
  <2> DEFINE M == LinesAt(u, E \cup {n + 1})
             A == Append(L, Cur(t))
  <2>1. /\ A \in Seq(Seq(Symbol)) /\ Len(A) = c + 1 /\ A[c + 1] = Cur(t)
        /\ \A k \in 1..c : A[k] = L[k]
    BY <1>4, <1>10, AppendFacts
  <2>2. ASSUME NEW k \in 1..(c + 1) PROVE M[k] = A[k] /\ M[k] \in Seq(Symbol)
    <3>1. CASE k = c + 1
      <4>1. M[k] = Line(u, n + 1)
        BY <1>8, <3>1
      <4>2. QED
        BY <1>4, <2>1, <3>1, <4>1
    <3>2. CASE k # c + 1
      <4>1. k \in 1..c
        BY <1>2, <3>2
      <4>2. M[k] = Line(u, f[k]) /\ L[k] = Line(t, f[k]) /\ A[k] = L[k]
        BY <1>6, <1>8, <2>1, <3>2, <4>1
      <4>3. QED
        BY <1>3, <1>9, <4>1, <4>2
    <3>3. QED
      BY <3>1, <3>2
  <2>3. M = [k \in 1..(c + 1) |-> M[k]]
    BY <1>8
  <2> HIDE DEF M, A
  <2>4. M \in Seq(Seq(Symbol)) /\ Len(M) = c + 1
    <3>1. c + 1 \in Nat /\ M \in [1..(c + 1) -> Seq(Symbol)]
      BY <1>2, <2>2, <2>3
    <3>2. QED
      BY <3>1, FunctionIsSeq
  <2>5. M = A
    BY <2>1, <2>2, <2>4, SeqEqual
  <2>6. QED
    BY <2>5 DEF M, A
<1>13. QED
  BY <1>10, <1>11, <1>12 DEF u, n, c, L

(* The blank lines before a position, with the beginning of the text. *)
Behind(t, i) == {0} \cup {j \in Blanks(t) : j < i}

(* The blank line before a position is one of them, or the beginning. *)
LEMMA PreviousIs ==
  ASSUME NEW t \in Seq(Symbol), NEW i \in Nat
  PROVE  /\ Previous(t, i) = Max(Behind(t, i))
         /\ Previous(t, i) \in Behind(t, i)
         /\ \A j \in Behind(t, i) : Previous(t, i) >= j
         /\ Behind(t, i) \subseteq 0..Len(t)
<1>1. Blanks(t) \subseteq 1..Len(t) /\ Len(t) \in Nat
  BY LenProperties DEF Blanks, LineEnds
<1>2. Behind(t, i) \subseteq 0..Len(t) /\ Behind(t, i) # {}
  BY <1>1 DEF Behind
<1>3. Previous(t, i) = Max(Behind(t, i))
  BY DEF Previous, Behind
<1>4. QED
  BY <1>1, <1>2, <1>3, MaxMember

(* The ends of the lines of a block, when a symbol is added. *)
LEMMA EndsAppend ==
  ASSUME NEW t \in Seq(Symbol), NEW s \in Symbol
  PROVE  /\ \A i \in 1..(Len(t) + 1) : /\ Ends(t, i) \in SUBSET (1..Len(t))
                                       /\ Ends(Append(t, s), i) = Ends(t, i)
         /\ Ends(Append(t, s), Len(t) + 2) =
              IF ~EndsLine(t, s) THEN Ends(t, Len(t) + 1)
              ELSE IF Cur(t) = <<>> THEN {}
              ELSE Ends(t, Len(t) + 1) \cup {Len(t) + 1}
<1> DEFINE u == Append(t, s)
           n == Len(t)
<1>1. n \in Nat /\ LineEnds(t) \subseteq 1..n /\ Blanks(t) \subseteq 1..n
  BY LineEndsAppend, BlanksAppend
<1>2. /\ LineEnds(u) = LineEnds(t) \cup (IF EndsLine(t, s) THEN {n + 1} ELSE {})
      /\ Blanks(u) = Blanks(t) \cup (IF EndsLine(t, s) /\ Cur(t) = <<>> THEN {n + 1} ELSE {})
  BY LineEndsAppend, BlanksAppend
<1>3. u \in Seq(Symbol)
  BY AppendFacts
<1> HIDE DEF u, n
<1>4. ASSUME NEW i \in 1..(n + 1)
      PROVE  Ends(t, i) \in SUBSET (1..n) /\ Ends(u, i) = Ends(t, i)
  <2>1. \A j : j < i /\ j \in 1..(n + 1) => j # n + 1
    BY <1>1
  <2>2. {j \in Blanks(u) : j < i} = {j \in Blanks(t) : j < i}
    BY <1>1, <1>2
  <2>3. Previous(u, i) = Previous(t, i)
    BY <2>2 DEF Previous
  <2>4. QED
    BY <1>1, <1>2, <2>3 DEF Ends
<1> DEFINE p == Previous(t, n + 1)
           q == Previous(u, n + 2)
<1>5. /\ p = Max(Behind(t, n + 1)) /\ p \in Behind(t, n + 1) /\ Behind(t, n + 1) \subseteq 0..n
      /\ q = Max(Behind(u, n + 2)) /\ q \in Behind(u, n + 2)
      /\ \A j \in Behind(u, n + 2) : q >= j
      /\ Behind(u, n + 2) \subseteq 0..(n + 1)
  <2>1. Len(u) = n + 1
    BY AppendFacts DEF n, u
  <2>2. n + 1 \in Nat /\ n + 2 \in Nat
    BY <1>1
  <2>3. QED
    BY <1>3, <2>1, <2>2, PreviousIs DEF n
<1>6. Ends(t, n + 1) = {j \in LineEnds(t) : p < j}
  BY <1>1 DEF Ends
<1>7. Ends(u, n + 2) = {j \in LineEnds(u) : q < j}
  BY <1>1, <1>2 DEF Ends
<1>8. Behind(t, n + 1) = {0} \cup Blanks(t)
  BY <1>1 DEF Behind
<1>9. Behind(u, n + 2) = {0} \cup Blanks(u)
  BY <1>1, <1>2 DEF Behind
<1> HIDE DEF p, q
<1>10. CASE ~EndsLine(t, s)
  <2>1. LineEnds(u) = LineEnds(t) /\ Blanks(u) = Blanks(t)
    BY <1>2, <1>10
  <2>2. p = q
    BY <1>5, <1>8, <1>9, <2>1
  <2>3. Ends(u, n + 2) = Ends(t, n + 1)
    BY <1>6, <1>7, <2>1, <2>2
  <2>4. QED
    BY <1>4, <1>10, <2>3 DEF u, n
<1>11. CASE EndsLine(t, s) /\ Cur(t) = <<>>
  <2>1. n + 1 \in Behind(u, n + 2)
    BY <1>2, <1>9, <1>11
  <2>2. q = n + 1
    BY <1>1, <1>5, <2>1
  <2>3. Ends(u, n + 2) = {}
    BY <1>1, <1>2, <1>7, <2>2
  <2>4. QED
    BY <1>4, <1>11, <2>3 DEF u, n
<1>12. CASE EndsLine(t, s) /\ Cur(t) # <<>>
  <2>1. LineEnds(u) = LineEnds(t) \cup {n + 1} /\ Blanks(u) = Blanks(t)
    BY <1>2, <1>12
  <2>2. p = q
    BY <1>5, <1>8, <1>9, <2>1
  <2>3. p < n + 1
    BY <1>1, <1>5
  <2>4. Ends(u, n + 2) = Ends(t, n + 1) \cup {n + 1}
    BY <1>6, <1>7, <2>1, <2>2, <2>3
  <2>5. QED
    BY <1>4, <1>12, <2>4 DEF u, n
<1>13. QED
  BY <1>10, <1>11, <1>12

(* The block at a position stays, and so does the one that is open, unless *)
(* the symbol ends one of its lines or ends the block.                     *)
LEMMA LinesAppend ==
  ASSUME NEW t \in Seq(Symbol), NEW s \in Symbol
  PROVE  /\ Lines(t) \in Seq(Seq(Symbol))
         /\ \A i \in 1..(Len(t) + 1) : Block(Append(t, s), i) = Block(t, i)
         /\ Lines(Append(t, s)) =
              IF ~EndsLine(t, s) THEN Lines(t)
              ELSE IF Cur(t) = <<>> THEN <<>>
              ELSE Append(Lines(t), Cur(t))
<1> DEFINE u == Append(t, s)
           n == Len(t)
           E == Ends(t, n + 1)
<1>1. n \in Nat /\ Len(u) + 1 = n + 2
  BY AppendFacts
<1>2. \A i \in 1..(n + 1) : Ends(t, i) \in SUBSET (1..n) /\ Ends(u, i) = Ends(t, i)
  BY EndsAppend
<1>3. E \in SUBSET (1..n)
  BY <1>1, <1>2
<1>4. Ends(u, n + 2) = IF ~EndsLine(t, s) THEN E ELSE IF Cur(t) = <<>> THEN {} ELSE E \cup {n + 1}
  BY EndsAppend
<1>5. Lines(t) = LinesAt(t, E)
  BY BlockIs DEF Lines
<1>6. Lines(u) = LinesAt(u, Ends(u, n + 2))
  <2>1. Lines(u) = Block(u, n + 2)
    BY <1>1 DEF Lines
  <2>2. QED
    BY <2>1, BlockIs
<1>7. /\ LinesAt(t, E) \in Seq(Seq(Symbol)) /\ LinesAt(u, E) = LinesAt(t, E)
      /\ LinesAt(u, E \cup {n + 1}) = Append(LinesAt(t, E), Cur(t))
  BY <1>3, LinesAtAppend
<1>8. LinesAt(u, {}) = <<>>
  <2>1. {} \in SUBSET (1..n) /\ Cardinality({}) = 0
    BY FS_EmptySet
  <2>2. LinesAt(u, {}) = LinesAt(t, {}) /\ LinesAt(t, {}) \in Seq(Seq(Symbol)) /\ Len(LinesAt(t, {})) = 0
    BY <2>1, LinesAtAppend
  <2>3. QED
    BY <2>2, EmptySeq
<1>9. ASSUME NEW i \in 1..(n + 1) PROVE Block(u, i) = Block(t, i)
  <2>1. Ends(t, i) \in SUBSET (1..n) /\ Ends(u, i) = Ends(t, i)
    BY <1>2
  <2>2. LinesAt(u, Ends(t, i)) = LinesAt(t, Ends(t, i))
    BY <2>1, LinesAtAppend
  <2>3. QED
    BY <2>1, <2>2, BlockIs
<1> HIDE DEF u, n, E
<1>10. Lines(u) = IF ~EndsLine(t, s) THEN Lines(t) ELSE IF Cur(t) = <<>> THEN <<>> ELSE Append(Lines(t), Cur(t))
  BY <1>4, <1>5, <1>6, <1>7, <1>8
<1>11. QED
  BY <1>5, <1>7, <1>9, <1>10 DEF u, n

(* The lines of a block that are of a field. *)
Chosen(block, field) == {k \in DOMAIN block : FieldOf(block[k]) = field}

ValuesAt(block, E) == [k \in DOMAIN InOrder(E) |-> ValueOf(block[InOrder(E)[k]])]

(* A field and a value are parts of the line. *)
LEMMA FieldType ==
  ASSUME NEW line \in Seq(Symbol)
  PROVE  /\ FieldOf(line) \in Seq(Symbol)
         /\ ValueOf(line) \in Seq(Symbol)
         /\ ":" \notin ToSet(line) => FieldOf(line) = line /\ ValueOf(line) = <<>>
<1> DEFINE n == Len(line)
           f == FieldOf(line)
           rest == SubSeq(line, Len(f) + 2, n)
<1>1. n \in Nat /\ DOMAIN line = 1..n /\ \A i \in 1..n : line[i] \in Symbol
  OBVIOUS
<1>2. \A a, b \in Int : (a >= 1 /\ b <= n) => SubSeq(line, a, b) \in Seq(Symbol)
  <2>1. ASSUME NEW a \in Int, NEW b \in Int, a >= 1, b <= n PROVE SubSeq(line, a, b) \in Seq(Symbol)
    <3>1. \A i \in a..b : line[i] \in Symbol
      BY <1>1, <2>1
    <3>2. QED
      BY <3>1, SubSeqProperties
  <2>2. QED
    BY <2>1
<1>3. ":" \notin ToSet(line) => f = line
  BY DEF FieldOf
<1> DEFINE I == {i \in 1..Len(line) : line[i] = ":"}
           c == SelectInSeq(line, LAMBDA s : s = ":")
<1>4. ASSUME ":" \in ToSet(line) PROVE f \in Seq(Symbol)
  <2>1. I # {} /\ I \subseteq Nat
    BY <1>1, <1>4 DEF ToSet
  <2>2. c = Min(I)
    BY <2>1, Zenon DEF SelectInSeq
  <2> HIDE DEF I, c
  <2>3. PICK X \in I : \A y \in I : X <= y
    BY <2>1, LeastMember
  <2>4. Min(I) \in I
    BY <2>3 DEF Min
  <2>5. c \in 1..n
    BY <2>2, <2>4 DEF I
  <2>6. f = SubSeq(line, 1, c - 1)
    BY <1>4, Zenon DEF FieldOf, c
  <2> HIDE DEF f, n
  <2>7. 1 \in Int /\ c - 1 \in Int /\ 1 >= 1 /\ c - 1 <= n
    BY <1>1, <2>5
  <2>8. QED
    BY <1>2, <2>6, <2>7
<1>5. f \in Seq(Symbol)
  BY <1>3, <1>4
<1> HIDE DEF I, c
<1>6. rest \in Seq(Symbol)
  <2>1. Len(f) \in Nat
    BY <1>5
  <2> HIDE DEF f, n
  <2>2. Len(f) + 2 \in Int /\ n \in Int /\ Len(f) + 2 >= 1 /\ n <= n
    BY <1>1, <2>1
  <2>3. QED
    BY <1>2, <2>2
<1>7. ValueOf(line) = IF rest # <<>> /\ rest[1] = " " THEN Tail(rest) ELSE rest
  BY Zenon DEF ValueOf
<1> HIDE DEF f, rest
<1>8. ValueOf(line) \in Seq(Symbol)
  BY <1>6, <1>7, HeadTailProperties
<1>9. ASSUME ":" \notin ToSet(line) PROVE ValueOf(line) = <<>>
  <2>1. f = line
    BY <1>3, <1>9
  <2>2. SubSeq(line, n + 2, n) = <<>>
    BY <1>1, SubSeqEmpty
  <2>3. rest = <<>>
    BY <2>1, <2>2 DEF rest
  <2>4. QED
    BY <1>7, <2>3
<1>10. QED
  BY <1>3, <1>5, <1>8, <1>9 DEF f

(* The values of a field, when a line is added to a block. *)
LEMMA FieldValuesAppend ==
  ASSUME NEW block \in Seq(Seq(Symbol)), NEW line \in Seq(Symbol), NEW field
  PROVE  /\ FieldValues(block, field) \in Seq(Seq(Symbol))
         /\ FieldValues(Append(block, line), field) =
              IF FieldOf(line) = field
              THEN Append(FieldValues(block, field), ValueOf(line))
              ELSE FieldValues(block, field)
<1> DEFINE u == Append(block, line)
           n == Len(block)
           E == Chosen(block, field)
           f == InOrder(E)
           c == Cardinality(E)
           V == FieldValues(block, field)
<1>1. /\ u \in Seq(Seq(Symbol)) /\ n \in Nat /\ DOMAIN u = 1..(n + 1) /\ DOMAIN block = 1..n
      /\ \A i \in 1..n : u[i] = block[i]
      /\ u[n + 1] = line
  BY AppendFacts
<1>2. \A i \in 1..n : block[i] \in Seq(Symbol)
  OBVIOUS
<1>3. E \in SUBSET (1..n)
  BY <1>1 DEF Chosen
<1>4. V = ValuesAt(block, E)
  BY Zenon DEF FieldValues, ValuesAt, Chosen
<1>5. FieldValues(u, field) = ValuesAt(u, Chosen(u, field))
  BY Zenon DEF FieldValues, ValuesAt, Chosen
<1>6. IsFiniteSet(E) /\ c \in Nat /\ f \in [1..c -> E]
  BY <1>1, <1>3, InOrderMember
<1>7. InOrder(E \cup {n + 1}) = [k \in 1..(c + 1) |-> IF k = c + 1 THEN n + 1 ELSE f[k]]
  <2>1. E \subseteq Nat /\ n + 1 \in Nat /\ \A i \in E : i < n + 1
    BY <1>1, <1>3
  <2>2. QED
    BY <1>6, <2>1, InOrderAppend
<1>8. ValuesAt(block, E) = [k \in 1..c |-> ValueOf(block[f[k]])]
  BY <1>6 DEF ValuesAt
<1>9. ValuesAt(u, E) = [k \in 1..c |-> ValueOf(u[f[k]])]
  BY <1>6 DEF ValuesAt
<1>10. ValuesAt(u, E \cup {n + 1}) = [k \in 1..(c + 1) |-> ValueOf(u[IF k = c + 1 THEN n + 1 ELSE f[k]])]
  BY <1>7 DEF ValuesAt
<1> HIDE DEF u, E, f, c, V, n
<1>11. \A k \in 1..c : f[k] \in 1..n /\ u[f[k]] = block[f[k]] /\ ValueOf(block[f[k]]) \in Seq(Symbol)
  BY <1>1, <1>2, <1>3, <1>6, FieldType
<1>12. V \in Seq(Seq(Symbol)) /\ Len(V) = c
  <2>1. V = [k \in 1..c |-> ValueOf(block[f[k]])] /\ c \in Nat
    BY <1>4, <1>6, <1>8
  <2>2. V \in [1..c -> Seq(Symbol)]
    BY <1>11, <2>1
  <2>3. QED
    BY <2>1, <2>2, FunctionIsSeq
<1>13. Chosen(u, field) = E \cup (IF FieldOf(line) = field THEN {n + 1} ELSE {})
  <2>1. \A k \in 1..n : k \in Chosen(u, field) <=> k \in E
    BY <1>1 DEF Chosen, E
  <2>2. n + 1 \in Chosen(u, field) <=> FieldOf(line) = field
    BY <1>1 DEF Chosen
  <2>3. Chosen(u, field) \subseteq 1..(n + 1)
    BY <1>1 DEF Chosen
  <2>4. \A k \in 1..(n + 1) : k \in 1..n \/ k = n + 1
    BY <1>1
  <2>5. CASE FieldOf(line) = field
    <3>1. Chosen(u, field) = E \cup {n + 1}
      BY <1>3, <2>1, <2>2, <2>3, <2>4, <2>5
    <3>2. QED
      BY <2>5, <3>1
  <2>6. CASE FieldOf(line) # field
    <3>1. Chosen(u, field) = E
      BY <1>3, <2>1, <2>2, <2>3, <2>4, <2>6
    <3>2. QED
      BY <2>6, <3>1
  <2>7. QED
    BY <2>5, <2>6
<1>14. ValuesAt(u, E) = V
  BY <1>4, <1>8, <1>9, <1>11
<1>15. ValuesAt(u, E \cup {n + 1}) = Append(V, ValueOf(line))
  <2> DEFINE M == ValuesAt(u, E \cup {n + 1})
             A == Append(V, ValueOf(line))
  <2>1. ValueOf(line) \in Seq(Symbol)
    BY FieldType
  <2>2. /\ A \in Seq(Seq(Symbol)) /\ Len(A) = c + 1 /\ A[c + 1] = ValueOf(line)
        /\ \A k \in 1..c : A[k] = V[k]
    BY <2>1, <1>12, AppendFacts
  <2>3. ASSUME NEW k \in 1..(c + 1) PROVE M[k] = A[k] /\ M[k] \in Seq(Symbol)
    <3>1. CASE k = c + 1
      <4>1. M[k] = ValueOf(u[n + 1])
        BY <1>10, <3>1
      <4>2. QED
        BY <1>1, <2>1, <2>2, <3>1, <4>1
    <3>2. CASE k # c + 1
      <4>1. k \in 1..c
        BY <1>6, <3>2
      <4>2. M[k] = ValueOf(u[f[k]]) /\ V[k] = ValueOf(block[f[k]]) /\ A[k] = V[k]
        BY <1>4, <1>8, <1>10, <2>2, <3>2, <4>1
      <4>3. QED
        BY <1>11, <4>1, <4>2
    <3>3. QED
      BY <3>1, <3>2
  <2>4. M = [k \in 1..(c + 1) |-> M[k]]
    BY <1>10
  <2> HIDE DEF M, A
  <2>5. M \in Seq(Seq(Symbol)) /\ Len(M) = c + 1
    <3>1. c + 1 \in Nat /\ M \in [1..(c + 1) -> Seq(Symbol)]
      BY <1>6, <2>3, <2>4
    <3>2. QED
      BY <3>1, FunctionIsSeq
  <2>6. M = A
    BY <2>2, <2>3, <2>5, SeqEqual
  <2>7. QED
    BY <2>6 DEF M, A
<1>16. FieldValues(u, field) = IF FieldOf(line) = field THEN Append(V, ValueOf(line)) ELSE V
  BY <1>5, <1>13, <1>14, <1>15
<1>17. QED
  BY <1>12, <1>16 DEF u, V

HasColon(line) == \E i \in 1..Len(line) : line[i] = ":"

(* What follows the colon. *)
Past(line) == SubSeq(line, Len(FieldOf(line)) + 2, Len(line))

(* c is where the first colon of a line stands. *)
FirstColon(line, c) ==
  c \in 1..Len(line) /\ line[c] = ":" /\ \A i \in 1..(c - 1) : line[i] # ":"

(* The field of a line is what stands before its first colon. *)
LEMMA FieldIs ==
  ASSUME NEW line \in Seq(Symbol)
  PROVE  /\ HasColon(line) => \E c \in 1..Len(line) : FirstColon(line, c)
         /\ \A c : FirstColon(line, c) =>
               /\ FieldOf(line) = SubSeq(line, 1, c - 1)
               /\ Past(line) = SubSeq(line, c + 1, Len(line))
         /\ ~HasColon(line) => FieldOf(line) = line
<1> DEFINE n == Len(line)
           I == {i \in 1..n : line[i] = ":"}
<1>1. n \in Nat /\ DOMAIN line = 1..n
  OBVIOUS
<1>2. ":" \in ToSet(line) <=> HasColon(line)
  BY <1>1 DEF ToSet, HasColon
<1>3. HasColon(line) <=> I # {}
  BY DEF HasColon
<1>4. I \subseteq Nat /\ I \subseteq 1..n
  OBVIOUS
<1>5. ASSUME HasColon(line) PROVE \E c \in 1..n : FirstColon(line, c)
  <2>1. I # {}
    BY <1>3, <1>5
  <2> HIDE DEF I
  <2>2. PICK c \in I : \A y \in I : c <= y
    BY <1>4, <2>1, LeastMember
  <2>3. c \in 1..n /\ line[c] = ":"
    BY <2>2 DEF I
  <2>4. \A i \in 1..(c - 1) : line[i] # ":"
    <3>1. ASSUME NEW i \in 1..(c - 1), line[i] = ":" PROVE FALSE
      <4>1. i \in 1..n /\ ~(c <= i)
        BY <2>3
      <4>2. i \in I
        BY <3>1, <4>1 DEF I
      <4>3. QED
        BY <2>2, <4>1, <4>2
    <3>2. QED
      BY <3>1
  <2>5. QED
    BY <2>3, <2>4 DEF FirstColon
<1>6. ASSUME NEW c, FirstColon(line, c)
      PROVE  /\ FieldOf(line) = SubSeq(line, 1, c - 1)
             /\ Past(line) = SubSeq(line, c + 1, n)
  <2>1. c \in 1..n /\ line[c] = ":" /\ \A i \in 1..(c - 1) : line[i] # ":"
    BY <1>6 DEF FirstColon
  <2>2. c \in I /\ \A y \in I : c <= y
    <3>1. ASSUME NEW y \in I PROVE c <= y
      <4>1. ~(y \in 1..(c - 1)) /\ y \in 1..n
        BY <2>1
      <4>2. QED
        BY <2>1, <4>1
    <3>2. QED
      BY <2>1, <3>1
  <2>3. I # {} /\ HasColon(line)
    BY <1>3, <2>2
  <2> HIDE DEF I
  <2>4. Min(I) \in I /\ \A y \in I : Min(I) <= y
    BY <2>2 DEF Min
  <2>5. Min(I) = c
    <3> DEFINE m == Min(I)
    <3>1. m \in I /\ m <= c /\ c <= m
      BY <2>2, <2>4
    <3> HIDE DEF m
    <3>2. m \in Nat /\ c \in Nat
      BY <1>4, <2>2, <3>1
    <3>3. m = c
      BY <3>1, <3>2
    <3>4. QED
      BY <3>3 DEF m
  <2>6. SelectInSeq(line, LAMBDA s : s = ":") = c
    BY <2>3, <2>5, Zenon DEF SelectInSeq, I
  <2>7. FieldOf(line) = SubSeq(line, 1, c - 1)
    BY <1>2, <2>3, <2>6, Zenon DEF FieldOf
  <2>8. Len(SubSeq(line, 1, c - 1)) = c - 1
    <3>1. 1 \in Int /\ c - 1 \in Int /\ \A i \in 1..(c - 1) : line[i] \in Symbol
      BY <1>1, <2>1
    <3>2. Len(SubSeq(line, 1, c - 1)) = IF 1 <= c - 1 THEN c - 1 - 1 + 1 ELSE 0
      BY <3>1, SubSeqProperties
    <3>3. QED
      BY <2>1, <3>2
  <2>9. Len(FieldOf(line)) + 2 = c + 1
    BY <2>1, <2>7, <2>8
  <2>10. QED
    BY <2>7, <2>9 DEF Past
<1>7. ~HasColon(line) => FieldOf(line) = line
  BY <1>2, FieldType
<1>8. QED
  BY <1>5, <1>6, <1>7

(* How a line divides into field and value, when a symbol is added. *)
LEMMA FieldAppend ==
  ASSUME NEW line \in Seq(Symbol), NEW s \in Symbol
  PROVE  LET u == Append(line, s)
         IN  /\ HasColon(u) <=> HasColon(line) \/ s = ":"
             /\ Past(line) \in Seq(Symbol)
             /\ ~HasColon(line) /\ s = ":" => FieldOf(u) = line /\ Past(u) = <<>>
             /\ HasColon(line) =>
                  FieldOf(u) = FieldOf(line) /\ Past(u) = Append(Past(line), s)
<1> DEFINE u == Append(line, s)
           n == Len(line)
<1>1. /\ u \in Seq(Symbol) /\ n \in Nat /\ Len(u) = n + 1
      /\ \A i \in 1..n : u[i] = line[i]
      /\ u[n + 1] = s
  BY AppendFacts
<1> HIDE DEF u, n
<1>2. HasColon(u) <=> HasColon(line) \/ s = ":"
  <2>1. \A i \in 1..(n + 1) : i \in 1..n \/ i = n + 1
    BY <1>1
  <2>2. \A i \in 1..n : i \in 1..(n + 1)
    BY <1>1
  <2>3. n + 1 \in 1..(n + 1)
    BY <1>1
  <2>4. HasColon(u) <=> \E i \in 1..(n + 1) : u[i] = ":"
    BY <1>1 DEF HasColon
  <2>5. HasColon(line) <=> \E i \in 1..n : line[i] = ":"
    BY DEF HasColon, n
  <2>6. QED
    BY <1>1, <2>1, <2>2, <2>3, <2>4, <2>5
<1>3. \A a \in 1..(n + 2) : SubSeq(line, a, n) \in Seq(Symbol)
  <2>1. ASSUME NEW a \in 1..(n + 2) PROVE SubSeq(line, a, n) \in Seq(Symbol)
    <3>1. a \in Int /\ n \in Int /\ \A i \in a..n : line[i] \in Symbol
      BY <1>1 DEF n
    <3>2. QED
      BY <3>1, SubSeqProperties
  <2>2. QED
    BY <2>1
<1>4. ASSUME ~HasColon(line), s = ":" PROVE FieldOf(u) = line /\ Past(u) = <<>>
  <2>1. \A i \in 1..n : line[i] # ":"
    BY <1>4 DEF HasColon, n
  <2>2. FirstColon(u, n + 1)
    BY <1>1, <1>4, <2>1 DEF FirstColon
  <2>3. FieldOf(u) = SubSeq(u, 1, n) /\ Past(u) = SubSeq(u, n + 2, n + 1)
    <3> DEFINE c == n + 1
    <3>1. FirstColon(u, c) /\ c - 1 = n /\ c + 1 = n + 2 /\ Len(u) = n + 1
      BY <1>1, <2>2
    <3> HIDE DEF c
    <3>2. FieldOf(u) = SubSeq(u, 1, c - 1) /\ Past(u) = SubSeq(u, c + 1, Len(u))
      BY <1>1, <3>1, FieldIs
    <3>3. QED
      BY <3>1, <3>2
  <2>4. SubSeq(u, n + 2, n + 1) = <<>>
    BY <1>1, SubSeqEmpty
  <2>5. SubSeq(u, 1, n) = line
    <3>1. \A i \in 1..n : u[i] \in Symbol
      BY <1>1
    <3>2. /\ SubSeq(u, 1, n) \in Seq(Symbol)
          /\ Len(SubSeq(u, 1, n)) = IF 1 <= n THEN n - 1 + 1 ELSE 0
          /\ \A i \in 1..(n - 1 + 1) : SubSeq(u, 1, n)[i] = u[1 + i - 1]
      BY <1>1, <3>1, SubSeqProperties
    <3> DEFINE v == SubSeq(u, 1, n)
    <3> HIDE DEF v
    <3>3. v \in Seq(Symbol) /\ Len(v) = n /\ \A i \in 1..n : v[i] = line[i]
      BY <1>1, <3>2 DEF v
    <3>4. v = line
      BY <3>3, SeqEqual DEF n
    <3>5. QED
      BY <3>4 DEF v
  <2>6. QED
    BY <2>3, <2>4, <2>5
<1>5. Past(line) \in Seq(Symbol)
  <2>1. FieldOf(line) \in Seq(Symbol) /\ Len(FieldOf(line)) \in Nat
    BY FieldType
  <2>2. CASE ~HasColon(line)
    <3>1. FieldOf(line) = line
      BY <2>2, FieldIs
    <3>2. n + 2 \in 1..(n + 2)
      BY <1>1
    <3>3. Past(line) = SubSeq(line, n + 2, n)
      BY <3>1 DEF Past, n
    <3>4. QED
      BY <1>3, <3>2, <3>3
  <2>3. CASE HasColon(line)
    <3>1. PICK c \in 1..n : FirstColon(line, c)
      BY <2>3, FieldIs DEF n
    <3>2. Past(line) = SubSeq(line, c + 1, Len(line))
      BY <3>1, FieldIs
    <3>3. c + 1 \in 1..(n + 2)
      BY <1>1
    <3>4. QED
      BY <1>3, <3>2, <3>3 DEF n
  <2>4. QED
    BY <2>2, <2>3
<1>6. ASSUME HasColon(line)
      PROVE  FieldOf(u) = FieldOf(line) /\ Past(u) = Append(Past(line), s)
  <2>1. PICK c \in 1..n : FirstColon(line, c)
    BY <1>6, FieldIs DEF n
  <2>2. FirstColon(u, c)
    <3>1. line[c] = ":" /\ \A i \in 1..(c - 1) : line[i] # ":"
      BY <2>1 DEF FirstColon
    <3>2. c \in 1..(n + 1) /\ \A i \in 1..(c - 1) : i \in 1..n
      BY <1>1
    <3>3. QED
      BY <1>1, <3>1, <3>2 DEF FirstColon
  <2>3. /\ FieldOf(line) = SubSeq(line, 1, c - 1) /\ Past(line) = SubSeq(line, c + 1, n)
        /\ FieldOf(u) = SubSeq(u, 1, c - 1) /\ Past(u) = SubSeq(u, c + 1, n + 1)
    BY <1>1, <2>1, <2>2, FieldIs DEF n
  <2>4. SubSeq(u, c + 1, n + 1) = Append(SubSeq(line, c + 1, n), s)
    <3>1. c + 1 \in 1..(n + 1)
      BY <1>1
    <3>2. QED
      BY <3>1, SubSeqAppend DEF u, n
  <2>5. SubSeq(u, 1, c - 1) = SubSeq(line, 1, c - 1)
    <3>1. \A i \in 1..(c - 1) : i \in 1..n
      BY <1>1
    <3>2. \A i \in 1..(c - 1) : u[i] = line[i]
      BY <1>1, <3>1
    <3>3. QED
      BY <1>1, <3>2
  <2>6. QED
    BY <2>3, <2>4, <2>5
<1>7. QED
  BY <1>2, <1>4, <1>5, <1>6 DEF u

(* The value of a line is what follows the colon, less one space. *)
LEMMA ValueAppend ==
  ASSUME NEW line \in Seq(Symbol), NEW s \in Symbol
  PROVE  LET u == Append(line, s)
         IN  /\ ~HasColon(line) \/ Past(line) = <<>> => ValueOf(line) = <<>>
             /\ HasColon(line) =>
                  ValueOf(u) = IF Past(line) = <<>> /\ s = " " THEN <<>>
                               ELSE Append(ValueOf(line), s)
<1> DEFINE u == Append(line, s)
           r == Past(line)
           q == Past(u)
<1>1. ValueOf(line) = IF r # <<>> /\ r[1] = " " THEN Tail(r) ELSE r
  BY Zenon DEF ValueOf, Past
<1>2. ValueOf(u) = IF q # <<>> /\ q[1] = " " THEN Tail(q) ELSE q
  BY Zenon DEF ValueOf, Past
<1>3. r \in Seq(Symbol) /\ (HasColon(line) => q = Append(r, s))
  BY FieldAppend
<1>4. ":" \in ToSet(line) <=> HasColon(line)
  BY DEF ToSet, HasColon
<1>5. ~HasColon(line) => ValueOf(line) = <<>>
  BY <1>4, FieldType
<1> HIDE DEF r, q, u
<1>6. r = <<>> => ValueOf(line) = <<>>
  BY <1>1
<1>7. ASSUME HasColon(line)
      PROVE  ValueOf(u) = IF r = <<>> /\ s = " " THEN <<>> ELSE Append(ValueOf(line), s)
  <2>1. q = Append(r, s) /\ Len(r) \in Nat
    BY <1>3, <1>7
  <2>2. CASE r = <<>>
    <3>1. q = <<s>>
      BY <2>1, <2>2
    <3>2. q[1] = s /\ q # <<>> /\ Tail(q) = <<>>
      BY <3>1
    <3>3. QED
      BY <1>2, <1>6, <2>1, <2>2, <3>2
  <2>3. CASE r # <<>>
    <3>1. Len(r) > 0
      BY <1>3, <2>3, EmptySeq
    <3>2. q[1] = r[1] /\ q # <<>> /\ Tail(q) = Append(Tail(r), s)
      BY <1>3, <2>1, <2>3, <3>1
    <3>3. QED
      BY <1>1, <1>2, <2>1, <2>3, <3>2
  <2>4. QED
    BY <2>2, <2>3
<1>8. QED
  BY <1>5, <1>6, <1>7 DEF u, r

(* g flattens the first n of the sequences in ss, one after the other. *)
Flattens(g, ss, n) ==
  g = [i \in 1..n |-> IF i = 1 THEN ss[i] ELSE g[i - 1] \o ss[i]]

(* Something flattens them, by induction on n. *)
LEMMA FlattenExists ==
  ASSUME NEW ss
  PROVE  \A n \in Nat : \E g : Flattens(g, ss, n)
<1> DEFINE T == {n \in Nat : ~\E g : Flattens(g, ss, n)}
<1> SUFFICES ASSUME T # {} PROVE FALSE
  OBVIOUS
<1>1. PICK n \in T : \A m \in T : n <= m
  BY LeastMember
<1>2. n # 0
  <2> SUFFICES ASSUME n = 0 PROVE \E g : Flattens(g, ss, n)
    OBVIOUS
  <2> DEFINE g == [i \in 1..0 |-> ss[i]]
  <2>1. g = [i \in 1..0 |-> IF i = 1 THEN ss[i] ELSE g[i - 1] \o ss[i]]
    OBVIOUS
  <2>2. Flattens(g, ss, 0)
    BY <2>1 DEF Flattens
  <2>3. QED
    BY <2>2
<1>3. PICK g : Flattens(g, ss, n - 1)
  BY <1>1, <1>2
<1> DEFINE h == [i \in 1..n |-> IF i \in 1..(n - 1) THEN g[i]
                                ELSE IF i = 1 THEN ss[i] ELSE g[i - 1] \o ss[i]]
<1>4. \A i \in 1..(n - 1) : g[i] = IF i = 1 THEN ss[i] ELSE g[i - 1] \o ss[i]
  BY <1>3 DEF Flattens
<1>5. ASSUME NEW i \in 1..n PROVE h[i] = IF i = 1 THEN ss[i] ELSE h[i - 1] \o ss[i]
  <2>1. i = 1 \/ (i - 1 \in 1..(n - 1) /\ h[i - 1] = g[i - 1])
    BY <1>2
  <2>2. h[i] = IF i = 1 THEN ss[i] ELSE g[i - 1] \o ss[i]
    BY <1>4
  <2> HIDE DEF h
  <2>3. QED
    BY <2>1, <2>2
<1>6. h = [i \in 1..n |-> h[i]]
  OBVIOUS
<1> HIDE DEF h
<1>7. Flattens(h, ss, n)
  BY <1>5, <1>6 DEF Flattens
<1>8. QED
  BY <1>7

(* FlattenSeq is where such a flattening ends. *)
LEMMA FlattenIs ==
  ASSUME NEW ss, Len(ss) \in Nat \ {0}
  PROVE  \E g : Flattens(g, ss, Len(ss)) /\ FlattenSeq(ss) = g[Len(ss)]
<1> DEFINE f == CHOOSE flatten : flatten =
                  [i \in 1..Len(ss) |-> IF i = 1 THEN ss[i] ELSE flatten[i - 1] \o ss[i]]
<1>1. \E g : Flattens(g, ss, Len(ss))
  BY FlattenExists
<1>2. \E g : g = [i \in 1..Len(ss) |-> IF i = 1 THEN ss[i] ELSE g[i - 1] \o ss[i]]
  BY <1>1, Zenon DEF Flattens
<1>3. f = [i \in 1..Len(ss) |-> IF i = 1 THEN ss[i] ELSE f[i - 1] \o ss[i]]
  BY <1>2, Zenon
<1>4. FlattenSeq(ss) = f[Len(ss)]
  <2>1. Len(ss) # 0
    OBVIOUS
  <2>2. QED
    BY <2>1, Zenon DEF FlattenSeq
<1> HIDE DEF f
<1>5. Flattens(f, ss, Len(ss))
  BY <1>3 DEF Flattens
<1>6. QED
  BY <1>4, <1>5

(* What two sequences share is flattened to the same sequence. *)
LEMMA FlattenAgree ==
  ASSUME NEW T, NEW n \in Nat, NEW m \in Nat, n <= m, NEW ss, NEW tt, NEW g, NEW h,
         Flattens(g, ss, n), Flattens(h, tt, m),
         \A i \in 1..n : ss[i] = tt[i] /\ ss[i] \in Seq(T)
  PROVE  \A i \in 1..n : g[i] = h[i] /\ g[i] \in Seq(T)
<1> DEFINE B == {i \in Nat : i \in 1..n /\ ~(g[i] = h[i] /\ g[i] \in Seq(T))}
<1> SUFFICES ASSUME B # {} PROVE FALSE
  OBVIOUS
<1>1. PICK i \in B : \A j \in B : i <= j
  BY LeastMember
<1>2. i \in 1..n /\ i \in 1..m
  OBVIOUS
<1>3. /\ g[i] = IF i = 1 THEN ss[i] ELSE g[i - 1] \o ss[i]
      /\ h[i] = IF i = 1 THEN tt[i] ELSE h[i - 1] \o tt[i]
  BY <1>2 DEF Flattens
<1>4. ss[i] = tt[i] /\ ss[i] \in Seq(T)
  BY <1>2
<1>5. CASE i = 1
  <2>1. g[i] = ss[i] /\ h[i] = tt[i]
    BY <1>3, <1>5
  <2>2. QED
    BY <1>4, <2>1
<1>6. CASE i # 1
  <2>1. i - 1 \in Nat /\ i - 1 \in 1..n /\ ~(i <= i - 1)
    BY <1>2, <1>6
  <2>2. g[i - 1] = h[i - 1] /\ g[i - 1] \in Seq(T)
    BY <1>1, <2>1
  <2>3. g[i] = g[i - 1] \o ss[i] /\ h[i] = h[i - 1] \o tt[i]
    BY <1>3, <1>6
  <2>4. g[i] = h[i] /\ g[i] \in Seq(T)
    BY <1>4, <2>2, <2>3, ConcatProperties
  <2>5. QED
    BY <2>4
<1>7. QED
  BY <1>5, <1>6

(* A further sequence is put after the others. *)
LEMMA FlattenAppend ==
  ASSUME NEW T, NEW ss \in Seq(Seq(T)), NEW X \in Seq(T)
  PROVE  /\ FlattenSeq(ss) \in Seq(T)
         /\ FlattenSeq(Append(ss, X)) = FlattenSeq(ss) \o X
         /\ FlattenSeq(<<>>) = <<>>
<1> DEFINE u == Append(ss, X)
           n == Len(ss)
<1>1. /\ u \in Seq(Seq(T)) /\ n \in Nat /\ Len(u) = n + 1
      /\ \A i \in 1..n : u[i] = ss[i] /\ ss[i] \in Seq(T)
      /\ u[n + 1] = X
  <2>1. /\ u \in Seq(Seq(T)) /\ n \in Nat /\ Len(u) = n + 1
        /\ \A i \in 1..n : u[i] = ss[i]
        /\ u[n + 1] = X
    BY AppendFacts
  <2>2. \A i \in 1..n : ss[i] \in Seq(T)
    OBVIOUS
  <2>3. QED
    BY <2>1, <2>2
<1>2. FlattenSeq(<<>>) = <<>>
  BY DEF FlattenSeq
<1> HIDE DEF u
<1>3. PICK h : Flattens(h, u, n + 1) /\ FlattenSeq(u) = h[n + 1]
  <2>1. Len(u) \in Nat \ {0}
    BY <1>1
  <2>2. \E h : Flattens(h, u, Len(u)) /\ FlattenSeq(u) = h[Len(u)]
    BY <2>1, FlattenIs
  <2>3. QED
    BY <1>1, <2>2
<1>4. h[n + 1] = IF n + 1 = 1 THEN X ELSE h[n] \o X
  <2> DEFINE m == n + 1
  <2>1. m \in 1..m /\ m - 1 = n
    BY <1>1
  <2>2. Flattens(h, u, m) /\ u[m] = X
    BY <1>1, <1>3
  <2> HIDE DEF m
  <2>3. h = [i \in 1..m |-> IF i = 1 THEN u[i] ELSE h[i - 1] \o u[i]]
    BY <2>2 DEF Flattens
  <2>4. h[m] = IF m = 1 THEN u[m] ELSE h[m - 1] \o u[m]
    BY <2>1, <2>3, Zenon
  <2>5. h[m] = IF m = 1 THEN X ELSE h[n] \o X
    BY <2>1, <2>2, <2>4
  <2>6. QED
    BY <2>5 DEF m
<1>5. CASE n = 0
  <2>1. ss = <<>>
    BY <1>5, EmptySeq
  <2>2. FlattenSeq(u) = X
    BY <1>3, <1>4, <1>5
  <2>3. <<>> \o X = X /\ <<>> \in Seq(T)
    BY ConcatEmptySeq, EmptySeq
  <2>4. QED
    BY <1>2, <2>1, <2>2, <2>3 DEF u
<1>6. CASE n # 0
  <2>1. PICK g : Flattens(g, ss, n) /\ FlattenSeq(ss) = g[n]
    <3>1. n \in Nat \ {0}
      BY <1>1, <1>6
    <3>2. QED
      BY <3>1, FlattenIs
  <2> HIDE DEF n
  <2>2. n + 1 \in Nat /\ n <= n + 1 /\ n \in 1..n
    BY <1>1, <1>6
  <2>3. \A i \in 1..n : g[i] = h[i] /\ g[i] \in Seq(T)
    <3> DEFINE m == n + 1
    <3>1. m \in Nat /\ n <= m /\ Flattens(h, u, m)
      BY <1>3, <2>2
    <3> HIDE DEF m
    <3>2. \A i \in 1..n : ss[i] = u[i] /\ ss[i] \in Seq(T)
      BY <1>1
    <3>3. QED
      BY <1>1, <2>1, <3>1, <3>2, FlattenAgree, Zenon
  <2>4. FlattenSeq(ss) = h[n] /\ h[n] \in Seq(T)
    BY <2>1, <2>2, <2>3
  <2>5. FlattenSeq(u) = h[n] \o X
    BY <1>1, <1>3, <1>4, <1>6
  <2>6. QED
    BY <1>2, <2>4, <2>5 DEF u
<1>7. QED
  BY <1>5, <1>6

(* The values of an event's data lines, each after a line feed. *)
Parts(values) == [k \in DOMAIN values |-> <<LF>> \o values[k]]

Joint(values) == FlattenSeq(Parts(values))

(* A further value is put after a further line feed. *)
LEMMA JointAppend ==
  ASSUME NEW values \in Seq(Seq(Symbol)), NEW v \in Seq(Symbol)
  PROVE  /\ Joint(values) \in Seq(Symbol)
         /\ Joint(Append(values, v)) = Joint(values) \o (<<LF>> \o v)
         /\ Joint(<<>>) = <<>>
<1> DEFINE u == Append(values, v)
           n == Len(values)
           p == <<LF>> \o v
           A == Append(Parts(values), p)
           M == Parts(u)
<1>1. /\ u \in Seq(Seq(Symbol)) /\ n \in Nat /\ DOMAIN u = 1..(n + 1) /\ DOMAIN values = 1..n
      /\ \A i \in 1..n : u[i] = values[i]
      /\ u[n + 1] = v
  BY AppendFacts
<1>2. <<LF>> \in Seq(Symbol)
  <2>1. LF \in Symbol
    BY DEF Symbol
  <2>2. QED
    BY <2>1
<1>3. \A i \in 1..n : values[i] \in Seq(Symbol)
  OBVIOUS
<1>4. \A w \in Seq(Symbol) : <<LF>> \o w \in Seq(Symbol)
  BY <1>2, ConcatProperties
<1> HIDE DEF u, n
<1>5. Parts(values) = [k \in 1..n |-> <<LF>> \o values[k]]
  BY <1>1 DEF Parts
<1>6. Parts(values) \in Seq(Seq(Symbol)) /\ Len(Parts(values)) = n
  <2>1. Parts(values) \in [1..n -> Seq(Symbol)]
    BY <1>3, <1>4, <1>5
  <2>2. QED
    BY <1>1, <2>1, FunctionIsSeq
<1>7. M = [k \in 1..(n + 1) |-> <<LF>> \o u[k]]
  BY <1>1 DEF Parts
<1>8. p \in Seq(Symbol)
  BY <1>4
<1>9. M[n + 1] = p
  BY <1>1, <1>7
<1>10. \A k \in 1..n : M[k] = Parts(values)[k] /\ M[k] \in Seq(Symbol)
  BY <1>1, <1>3, <1>4, <1>5, <1>7
<1> HIDE DEF M, p
<1>11. /\ A \in Seq(Seq(Symbol)) /\ Len(A) = n + 1 /\ A[n + 1] = p
       /\ \A k \in 1..n : A[k] = Parts(values)[k]
  BY <1>6, <1>8, AppendFacts
<1> HIDE DEF A
<1>12. \A k \in 1..(n + 1) : k \in 1..n \/ k = n + 1
  BY <1>1
<1>13. \A k \in 1..(n + 1) : M[k] = A[k] /\ M[k] \in Seq(Symbol)
  BY <1>8, <1>9, <1>10, <1>11, <1>12
<1>14. M \in Seq(Seq(Symbol)) /\ Len(M) = n + 1
  <2>1. M = [k \in 1..(n + 1) |-> M[k]]
    BY <1>7
  <2>2. n + 1 \in Nat /\ M \in [1..(n + 1) -> Seq(Symbol)]
    BY <1>1, <1>13, <2>1
  <2>3. QED
    BY <2>2, FunctionIsSeq
<1>15. M = A
  BY <1>11, <1>13, <1>14, SeqEqual
<1>16. FlattenSeq(Parts(values)) \in Seq(Symbol) /\ FlattenSeq(A) = FlattenSeq(Parts(values)) \o p
  BY <1>6, <1>8, FlattenAppend DEF A
<1>17. Joint(<<>>) = <<>>
  <2>1. Parts(<<>>) = <<>>
    BY DEF Parts
  <2>2. <<>> \in Seq(Seq(Symbol)) /\ <<>> \in Seq(Symbol)
    BY EmptySeq
  <2>3. FlattenSeq(<<>>) = <<>>
    BY <2>2, FlattenAppend
  <2>4. QED
    BY <2>1, <2>3 DEF Joint
<1>18. QED
  BY <1>15, <1>16, <1>17 DEF Joint, u, p, M

(* The names and the events the decoder hands on. *)
EventNames == KnownEvents \cup {"none", "unknown"}

EventType == [event : EventNames, data : Seq(Symbol)]

(* A name is one of these whatever its bytes. *)
LEMMA EventOfType == \A name : EventOf(name) \in EventNames
  BY DEF EventOf, EventNames

(* The values and the name of a block without lines. *)
LEMMA EmptyBlock ==
  /\ \A field : FieldValues(<<>>, field) = <<>>
  /\ NameOf(<<>>) = "none"
<1>1. ASSUME NEW field PROVE FieldValues(<<>>, field) = <<>>
  <2>1. Chosen(<<>>, field) = {}
    BY DEF Chosen
  <2>2. InOrder({}) = <<>>
    BY FS_EmptySet DEF InOrder
  <2>3. FieldValues(<<>>, field) = ValuesAt(<<>>, Chosen(<<>>, field))
    BY Zenon DEF FieldValues, ValuesAt, Chosen
  <2>4. ValuesAt(<<>>, {}) = [k \in DOMAIN InOrder({}) |-> ValueOf(<<>>[InOrder({})[k]])]
    BY DEF ValuesAt
  <2>5. ValuesAt(<<>>, {}) = <<>>
    BY <2>2, <2>4
  <2>6. QED
    BY <2>1, <2>3, <2>5
<1>2. QED
  BY <1>1, Zenon DEF NameOf

(* The last event line of a block names it. *)
LEMMA NameAppend ==
  ASSUME NEW block \in Seq(Seq(Symbol)), NEW line \in Seq(Symbol)
  PROVE  /\ NameOf(block) \in EventNames
         /\ NameOf(Append(block, line)) =
              IF FieldOf(line) = <<"event">> THEN EventOf(ValueOf(line)) ELSE NameOf(block)
<1> DEFINE u == Append(block, line)
           V == FieldValues(block, <<"event">>)
           W == FieldValues(u, <<"event">>)
<1>1. V \in Seq(Seq(Symbol))
  BY FieldValuesAppend
<1>2. W = IF FieldOf(line) = <<"event">> THEN Append(V, ValueOf(line)) ELSE V
  BY FieldValuesAppend
<1>3. ValueOf(line) \in Seq(Symbol)
  BY FieldType
<1>4. NameOf(block) = IF V = <<>> THEN "none" ELSE EventOf(Last(V))
  BY Zenon DEF NameOf
<1>5. NameOf(u) = IF W = <<>> THEN "none" ELSE EventOf(Last(W))
  BY Zenon DEF NameOf
<1> HIDE DEF V, W, u
<1>6. NameOf(block) \in EventNames
  BY <1>4, EventOfType DEF EventNames
<1>7. CASE FieldOf(line) = <<"event">>
  <2>1. W = Append(V, ValueOf(line))
    BY <1>2, <1>7
  <2>2. W # <<>> /\ Last(W) = ValueOf(line)
    <3> DEFINE X == ValueOf(line)
               m == Len(V) + 1
    <3>1. Append(V, X) \in Seq(Seq(Symbol)) /\ Len(V) \in Nat /\ Len(Append(V, X)) = m /\ Append(V, X)[m] = X
      BY <1>1, <1>3, AppendFacts
    <3>2. m # 0
      BY <3>1
    <3> HIDE DEF X, m
    <3>3. W \in Seq(Seq(Symbol)) /\ Len(W) = m /\ W[m] = X
      BY <2>1, <3>1 DEF X
    <3>4. W # <<>>
      BY <3>2, <3>3, EmptySeq
    <3>5. QED
      BY <3>3, <3>4 DEF Last, X
  <2>3. QED
    BY <1>5, <1>6, <1>7, <2>2 DEF u
<1>8. CASE FieldOf(line) # <<"event">>
  BY <1>2, <1>4, <1>5, <1>6, <1>8 DEF u
<1>9. QED
  BY <1>7, <1>8

(* The data of a block is its data lines' values, joined. *)
LEMMA DataIs ==
  ASSUME NEW block \in Seq(Seq(Symbol))
  PROVE  /\ DataOf(block) = Tail(Joint(FieldValues(block, <<"data">>)))
         /\ FieldValues(block, <<"data">>) # <<>> => DataOf(block) \in Seq(Symbol)
<1> DEFINE V == FieldValues(block, <<"data">>)
<1>1. DataOf(block) = Tail(Joint(V))
  BY Zenon DEF DataOf, Joint, Parts
<1>2. V \in Seq(Seq(Symbol))
  <2>1. <<>> \in Seq(Symbol)
    BY EmptySeq
  <2>2. QED
    BY <2>1, FieldValuesAppend
<1> HIDE DEF V
<1>3. ASSUME V # <<>> PROVE Tail(Joint(V)) \in Seq(Symbol)
  <2>1. PICK W \in Seq(Seq(Symbol)), v \in Seq(Symbol) : V = Append(W, v)
    BY <1>2, <1>3, SequenceEmptyOrAppend
  <2>2. Joint(V) = Joint(W) \o (<<LF>> \o v) /\ Joint(W) \in Seq(Symbol)
    BY <2>1, JointAppend
  <2>3. <<LF>> \in Seq(Symbol)
    <3>1. LF \in Symbol
      BY DEF Symbol
    <3>2. QED
      BY <3>1
  <2>4. <<LF>> \o v \in Seq(Symbol) /\ Len(<<LF>> \o v) = 1 + Len(v)
    BY <2>1, <2>3, ConcatProperties
  <2> DEFINE p == <<LF>> \o v
  <2> HIDE DEF p
  <2>5. p \in Seq(Symbol) /\ Len(p) > 0
    BY <2>1, <2>4 DEF p
  <2>6. Joint(V) \in Seq(Symbol) /\ Len(Joint(V)) > 0
    BY <2>2, <2>5, ConcatProperties DEF p
  <2>7. Joint(V) # <<>>
    BY <2>6
  <2>8. QED
    BY <2>6, <2>7, HeadTailProperties
<1>4. QED
  BY <1>1, <1>3 DEF V

(* The blank lines that end an event with data, and these events.          *)
Spoken(t) == {i \in Blanks(t) : FieldValues(Block(t, i), <<"data">>) # <<>>}

EventAt(t, i) == [event |-> NameOf(Block(t, i)), data |-> DataOf(Block(t, i))]

EventsAt(t, E) == [k \in DOMAIN InOrder(E) |-> EventAt(t, InOrder(E)[k])]

EventsOf(t) == EventsAt(t, Spoken(t))

Says(lines) == FieldValues(lines, <<"data">>) # <<>>

(* The events of a text are those of its body. *)
LEMMA EventsAre == \A t : Events(t) = EventsOf(Body(t))
  BY Zenon DEF Events, EventsOf, EventsAt, EventAt, Spoken

(* A block is a sequence of lines. *)
LEMMA BlockType ==
  ASSUME NEW t \in Seq(Symbol), NEW i \in 1..(Len(t) + 1)
  PROVE  Block(t, i) \in Seq(Seq(Symbol))
<1>1. LF \in Symbol
  BY DEF Symbol
<1>2. Ends(t, i) \in SUBSET (1..Len(t))
  BY <1>1, EndsAppend
<1>3. LinesAt(t, Ends(t, i)) \in Seq(Seq(Symbol))
  BY <1>1, <1>2, LinesAtAppend
<1>4. QED
  BY <1>3, BlockIs

(* The events of a text stay, and the symbol that ends a blank line after  *)
(* data adds the event of the open block.                                  *)
LEMMA EventsAppend ==
  ASSUME NEW t \in Seq(Symbol), NEW s \in Symbol
  PROVE  /\ EventsOf(t) \in Seq(EventType)
         /\ EventsOf(Append(t, s)) =
              IF EndsLine(t, s) /\ Cur(t) = <<>> /\ Says(Lines(t))
              THEN Append(EventsOf(t), [event |-> NameOf(Lines(t)), data |-> DataOf(Lines(t))])
              ELSE EventsOf(t)
<1> DEFINE u == Append(t, s)
           n == Len(t)
           E == Spoken(t)
           f == InOrder(E)
           c == Cardinality(E)
           V == EventsOf(t)
           e == [event |-> NameOf(Lines(t)), data |-> DataOf(Lines(t))]
           new == EndsLine(t, s) /\ Cur(t) = <<>> /\ Says(Lines(t))
<1>1. n \in Nat /\ Blanks(t) \subseteq 1..n
  BY BlanksAppend
<1>2. Blanks(u) = Blanks(t) \cup (IF EndsLine(t, s) /\ Cur(t) = <<>> THEN {n + 1} ELSE {})
  BY BlanksAppend
<1>3. \A i \in 1..(n + 1) : Block(u, i) = Block(t, i)
  BY LinesAppend
<1>4. Block(t, n + 1) = Lines(t)
  BY DEF Lines
<1>5. E \in SUBSET (1..n)
  BY <1>1 DEF Spoken
<1>6. IsFiniteSet(E) /\ c \in Nat /\ f \in [1..c -> E]
  BY <1>1, <1>5, InOrderMember
<1>7. InOrder(E \cup {n + 1}) = [k \in 1..(c + 1) |-> IF k = c + 1 THEN n + 1 ELSE f[k]]
  <2>1. E \subseteq Nat /\ n + 1 \in Nat /\ \A i \in E : i < n + 1
    BY <1>1, <1>5
  <2>2. QED
    BY <1>6, <2>1, InOrderAppend
<1>8. V = [k \in 1..c |-> EventAt(t, f[k])]
  BY <1>6 DEF EventsOf, EventsAt
<1>9. EventsAt(u, E) = [k \in 1..c |-> EventAt(u, f[k])]
  BY <1>6 DEF EventsAt
<1>10. EventsAt(u, E \cup {n + 1}) = [k \in 1..(c + 1) |-> EventAt(u, IF k = c + 1 THEN n + 1 ELSE f[k])]
  BY <1>7 DEF EventsAt
<1>11. ASSUME NEW i \in 1..(n + 1), FieldValues(Block(t, i), <<"data">>) # <<>>
       PROVE  EventAt(u, i) = EventAt(t, i) /\ EventAt(t, i) \in EventType
  <2>1. Block(t, i) \in Seq(Seq(Symbol)) /\ <<>> \in Seq(Symbol)
    BY BlockType, EmptySeq
  <2>2. NameOf(Block(t, i)) \in EventNames /\ DataOf(Block(t, i)) \in Seq(Symbol)
    BY <1>11, <2>1, NameAppend, DataIs
  <2>3. QED
    BY <1>3, <2>2 DEF EventAt, EventType
<1>12. \A i \in E : FieldValues(Block(t, i), <<"data">>) # <<>>
  BY DEF Spoken
<1>13. Spoken(u) = E \cup (IF new THEN {n + 1} ELSE {})
  <2>1. \A i \in 1..n : i \in Spoken(u) <=> i \in E
    <3>1. ASSUME NEW i \in 1..n PROVE i \in Spoken(u) <=> i \in E
      <4>1. i \in 1..(n + 1) /\ i # n + 1
        BY <1>1
      <4>2. i \in Blanks(u) <=> i \in Blanks(t)
        BY <1>2, <4>1
      <4>3. QED
        BY <1>3, <4>1, <4>2 DEF Spoken
    <3>2. QED
      BY <3>1
  <2>2. n + 1 \in Spoken(u) <=> new
    <3>1. n + 1 \in 1..(n + 1) /\ n + 1 \notin 1..n
      BY <1>1
    <3>2. n + 1 \in Blanks(u) <=> EndsLine(t, s) /\ Cur(t) = <<>>
      BY <1>1, <1>2, <3>1
    <3>3. QED
      BY <1>3, <1>4, <3>1, <3>2 DEF Spoken, Says
  <2>3. Spoken(u) \subseteq 1..(n + 1)
    BY <1>1, <1>2 DEF Spoken
  <2>4. \A k \in 1..(n + 1) : k \in 1..n \/ k = n + 1
    BY <1>1
  <2> HIDE DEF new, E, u, n
  <2>5. CASE new
    <3>1. Spoken(u) = E \cup {n + 1}
      BY <1>5, <2>1, <2>2, <2>3, <2>4, <2>5
    <3>2. QED
      BY <2>5, <3>1
  <2>6. CASE ~new
    <3>1. Spoken(u) = E
      BY <1>5, <2>1, <2>2, <2>3, <2>4, <2>6
    <3>2. QED
      BY <2>6, <3>1
  <2>7. QED
    BY <2>5, <2>6
<1>14. EventAt(t, n + 1) = e
  BY <1>4 DEF EventAt
<1> HIDE DEF u, n, E, f, c, V, e
<1>15. \A k \in 1..c : f[k] \in E /\ f[k] \in 1..(n + 1)
  <2>1. \A k \in 1..c : f[k] \in E
    BY <1>6
  <2>2. \A i \in E : i \in 1..(n + 1)
    BY <1>1, <1>5
  <2>3. QED
    BY <2>1, <2>2
<1>16. \A k \in 1..c : EventAt(u, f[k]) = EventAt(t, f[k]) /\ EventAt(t, f[k]) \in EventType
  BY <1>11, <1>12, <1>15
<1>17. V \in Seq(EventType) /\ Len(V) = c
  BY <1>6, <1>8, <1>16, FunctionIsSeq
<1>18. EventsAt(u, E) = V
  BY <1>8, <1>9, <1>16
<1>19. ASSUME new PROVE EventsAt(u, E \cup {n + 1}) = Append(V, e)
  <2> DEFINE M == EventsAt(u, E \cup {n + 1})
             A == Append(V, e)
  <2>1. e \in EventType /\ EventAt(u, n + 1) = e
    <3>1. n + 1 \in 1..(n + 1)
      BY <1>1
    <3>2. FieldValues(Block(t, n + 1), <<"data">>) # <<>>
      BY <1>4, <1>19 DEF Says
    <3>3. QED
      BY <1>11, <1>14, <3>1, <3>2
  <2>2. /\ A \in Seq(EventType) /\ Len(A) = c + 1 /\ A[c + 1] = e
        /\ \A k \in 1..c : A[k] = V[k]
    BY <2>1, <1>17, AppendFacts
  <2>3. ASSUME NEW k \in 1..(c + 1) PROVE M[k] = A[k] /\ M[k] \in EventType
    <3>1. CASE k = c + 1
      <4>1. M[k] = EventAt(u, n + 1)
        BY <1>10, <3>1
      <4>2. QED
        BY <2>1, <2>2, <3>1, <4>1
    <3>2. CASE k # c + 1
      <4>1. k \in 1..c
        BY <1>6, <3>2
      <4>2. M[k] = EventAt(u, f[k]) /\ V[k] = EventAt(t, f[k]) /\ A[k] = V[k]
        BY <1>8, <1>10, <2>2, <3>2, <4>1
      <4>3. QED
        BY <1>16, <4>1, <4>2
    <3>3. QED
      BY <3>1, <3>2
  <2>4. M = [k \in 1..(c + 1) |-> M[k]]
    BY <1>10
  <2> HIDE DEF M, A
  <2>5. M \in Seq(EventType) /\ Len(M) = c + 1
    <3>1. c + 1 \in Nat /\ M \in [1..(c + 1) -> EventType]
      BY <1>6, <2>3, <2>4
    <3>2. QED
      BY <3>1, FunctionIsSeq
  <2>6. M = A
    BY <2>2, <2>3, <2>5, SeqEqual
  <2>7. QED
    BY <2>6 DEF M, A
<1>20. EventsOf(u) = EventsAt(u, Spoken(u))
  BY DEF EventsOf
<1> HIDE DEF new
<1>21. EventsOf(u) = IF new THEN Append(V, e) ELSE V
  BY <1>13, <1>18, <1>19, <1>20
<1>22. QED
  BY <1>17, <1>21 DEF new, u, V, e

-----------------------------------------------------------------------------
(***************************************************************************)
(* The decoder: what it keeps of a text it has read, and that each byte    *)
(* keeps it so.                                                            *)
(***************************************************************************)
(* A decoder's fields. *)
DecoderType ==
  [storage : Seq(Symbol), lineStart : Nat, kind : {"field", "ignore", "data", "event"},
   strip : BOOLEAN, event : EventNames, name : Seq(Symbol), nameOverflow : BOOLEAN,
   hasData : BOOLEAN, pendingCr : BOOLEAN, bomChecked : BOOLEAN,
   bomPrefix : Seq(Symbol), overflowed : BOOLEAN, out : Seq(EventType)]

(* What is after a line, what is before it, and how they are joined.      *)
LEMMA ConcatFacts ==
  ASSUME NEW T, NEW D \in Seq(T), NEW L \in Seq(T), NEW s \in T
  PROVE  /\ D \o L \in Seq(T) /\ Len(D \o L) = Len(D) + Len(L)
         /\ SubSeq(D \o L, Len(D) + 1, Len(D \o L)) = L
         /\ SubSeq(D \o L, 1, Len(D)) = D
         /\ Append(D \o L, s) = D \o Append(L, s)
         /\ D \o <<>> = D /\ <<>> \o D = D
         /\ Tail(<<s>> \o D) = D
         /\ (<<s>> \o D) \o (<<s>> \o L) = <<s>> \o (Append(D, s) \o L)
<1> DEFINE X == D \o L
           n == Len(D)
           m == Len(L)
<1>1. /\ X \in Seq(T) /\ Len(X) = n + m /\ n \in Nat /\ m \in Nat
      /\ \A i \in 1..n : X[i] = D[i] /\ D[i] \in T
      /\ \A i \in 1..m : X[n + i] = L[i] /\ L[i] \in T
  <2>1. X \in Seq(T) /\ Len(X) = n + m
    BY ConcatProperties
  <2>2. \A i \in 1..(n + m) : X[i] = IF i <= n THEN D[i] ELSE L[i - n]
    BY ConcatProperties
  <2>3. ASSUME NEW i \in 1..n PROVE X[i] = D[i] /\ D[i] \in T
    <3>1. i \in 1..(n + m) /\ i <= n
      BY LenProperties
    <3>2. QED
      BY <2>2, <3>1
  <2>4. ASSUME NEW i \in 1..m PROVE X[n + i] = L[i] /\ L[i] \in T
    <3>1. n + i \in 1..(n + m) /\ ~(n + i <= n) /\ n + i - n = i
      BY LenProperties
    <3>2. X[n + i] = L[n + i - n]
      BY <2>2, <3>1
    <3>3. QED
      BY <3>1, <3>2
  <2>5. n \in Nat /\ m \in Nat
    BY LenProperties
  <2> HIDE DEF X, n, m
  <2>6. QED
    BY <2>1, <2>3, <2>4, <2>5
<1>2. SubSeq(X, n + 1, n + m) = L
  <2> DEFINE a == n + 1
             b == n + m
             y == SubSeq(X, a, b)
  <2>1. \A i \in 1..(n + m) : X[i] \in T
    <3> HIDE DEF X, n, m
    <3>1. ASSUME NEW i \in 1..(n + m) PROVE i \in 1..n \/ (i - n \in 1..m /\ n + (i - n) = i)
      BY <1>1
    <3>2. QED
      BY <1>1, <3>1
  <2>2. /\ a \in Int /\ b \in Int /\ b - a + 1 = m /\ (a <= b <=> m # 0)
        /\ \A i \in a..b : i \in 1..(n + m)
        /\ \A i \in 1..m : a + i - 1 = n + i
    <3> HIDE DEF X, n, m
    <3>1. QED
      BY <1>1
  <2> HIDE DEF a, b, X, n, m
  <2>3. \A i \in a..b : X[i] \in T
    BY <2>1, <2>2
  <2>4. /\ y \in Seq(T)
        /\ Len(y) = IF a <= b THEN b - a + 1 ELSE 0
        /\ \A i \in 1..(b - a + 1) : y[i] = X[a + i - 1]
    BY <2>2, <2>3, SubSeqProperties
  <2> HIDE DEF y
  <2>5. Len(y) = m
    BY <1>1, <2>2, <2>4
  <2>6. \A i \in 1..m : y[i] = X[n + i]
    BY <2>2, <2>4
  <2>7. y = L
    BY <1>1, <2>4, <2>5, <2>6, SeqEqual DEF m
  <2>8. QED
    BY <2>7 DEF y, a, b
<1>3. SubSeq(X, 1, n) = D
  <2> DEFINE y == SubSeq(X, 1, n)
  <2>1. \A i \in 1..n : X[i] \in T
    BY <1>1
  <2>2. /\ y \in Seq(T)
        /\ Len(y) = IF 1 <= n THEN n - 1 + 1 ELSE 0
        /\ \A i \in 1..(n - 1 + 1) : y[i] = X[1 + i - 1]
    <3> HIDE DEF X, n, m
    <3>1. 1 \in Int /\ n \in Int
      BY <1>1
    <3>2. QED
      BY <2>1, <3>1, SubSeqProperties
  <2> HIDE DEF y, X, m
  <2>3. Len(y) = n
    BY <1>1, <2>2
  <2>4. ASSUME NEW i \in 1..n PROVE y[i] = D[i]
    <3>1. i \in 1..(n - 1 + 1) /\ 1 + i - 1 = i
      BY <1>1
    <3>2. y[i] = X[1 + i - 1]
      BY <2>2, <3>1
    <3>3. QED
      BY <1>1, <3>1, <3>2
  <2>5. y = D
    BY <2>2, <2>3, <2>4, SeqEqual
  <2>6. QED
    BY <2>5 DEF y
<1>4. <<s>> \in Seq(T) /\ Append(D, s) = D \o <<s>> /\ Append(L, s) = L \o <<s>> /\ Append(X, s) = X \o <<s>>
  BY <1>1, AppendIsConcat
<1>5. Append(X, s) = D \o Append(L, s)
  BY <1>4, ConcatAssociative
<1>6. D \o <<>> = D /\ <<>> \o D = D
  BY ConcatEmptySeq
<1>7. Tail(<<s>> \o D) = D
  <2> DEFINE z == <<s>> \o D
  <2>1. /\ z \in Seq(T) /\ Len(z) = n + 1
        /\ \A i \in 1..n : z[i + 1] = D[i]
    <3>1. Len(<<s>>) = 1 /\ z \in Seq(T) /\ Len(z) = Len(<<s>>) + n
      BY <1>4, ConcatProperties
    <3>2. \A i \in 1..(Len(<<s>>) + n) : z[i] = IF i <= Len(<<s>>) THEN <<s>>[i] ELSE D[i - Len(<<s>>)]
      BY <1>4, ConcatProperties
    <3> HIDE DEF z, n, X, m
    <3>3. ASSUME NEW i \in 1..n PROVE z[i + 1] = D[i]
      <4>1. i + 1 \in 1..(1 + n) /\ ~(i + 1 <= 1) /\ i + 1 - 1 = i
        BY <1>1
      <4>2. \A j \in 1..(1 + n) : z[j] = IF j <= 1 THEN <<s>>[j] ELSE D[j - 1]
        BY <3>1, <3>2
      <4>3. z[i + 1] = D[i + 1 - 1]
        BY <4>1, <4>2
      <4>4. QED
        BY <4>1, <4>3
    <3>4. QED
      BY <1>1, <3>1, <3>3
  <2> HIDE DEF z, X, m
  <2>2. z # <<>>
    BY <1>1, <2>1
  <2>3. /\ Tail(z) \in Seq(T) /\ Len(Tail(z)) = Len(z) - 1
        /\ \A i \in 1..Len(Tail(z)) : Tail(z)[i] = z[i + 1]
    BY <2>1, <2>2, HeadTailProperties
  <2> DEFINE y == Tail(z)
  <2> HIDE DEF y
  <2>4. y \in Seq(T) /\ Len(y) = n /\ \A i \in 1..n : y[i] = D[i]
    BY <1>1, <2>1, <2>3 DEF y
  <2>5. y = D
    BY <2>4, SeqEqual DEF n
  <2>6. QED
    BY <2>5 DEF y, z
<1>8. (<<s>> \o D) \o (<<s>> \o L) = <<s>> \o (Append(D, s) \o L)
  <2>1. <<s>> \o L \in Seq(T)
    BY <1>4, ConcatProperties
  <2>2. (<<s>> \o D) \o (<<s>> \o L) = <<s>> \o (D \o (<<s>> \o L))
    BY <1>4, <2>1, ConcatAssociative
  <2>3. D \o (<<s>> \o L) = (D \o <<s>>) \o L
    BY <1>4, ConcatAssociative
  <2>4. QED
    BY <1>4, <2>2, <2>3
<1>9. Len(X) = n + m
  BY <1>1
<1> HIDE DEF m
<1>10. QED
  BY <1>1, <1>2, <1>3, <1>5, <1>6, <1>7, <1>8, <1>9 DEF X, n, m

(* What a decoder keeps of the complete lines of the open block: whether   *)
(* there was data, the data D, joined, and the event's name.               *)
AfterLines(d, lines, D) ==
  /\ d.hasData <=> Says(lines)
  /\ IF d.hasData THEN Joint(FieldValues(lines, <<"data">>)) = <<LF>> \o D ELSE D = <<>>
  /\ d.event = NameOf(lines)

(* What a further data line is written after. *)
Lead(d, D) == IF d.hasData THEN Append(D, LF) ELSE D

(* What a decoder keeps of the line that is open, after the data D. *)
InLine(d, line, D) ==
  CASE d.kind = "field" -> ~HasColon(line) /\ d.storage = D \o line
    [] d.kind = "ignore" ->
         /\ HasColon(line) /\ FieldOf(line) \notin {<<"data">>, <<"event">>}
         /\ d.storage = D
    [] d.kind = "data" ->
         /\ HasColon(line) /\ FieldOf(line) = <<"data">>
         /\ d.storage = Lead(d, D) \o ValueOf(line)
         /\ d.strip <=> Past(line) = <<>>
    [] d.kind = "event" ->
         /\ HasColon(line) /\ FieldOf(line) = <<"event">>
         /\ d.storage = D
         /\ d.strip <=> Past(line) = <<>>
         /\ d.nameOverflow <=> Len(ValueOf(line)) > NameSize
         /\ IF d.nameOverflow THEN Len(d.name) = NameSize ELSE d.name = ValueOf(line)

(* The parts of a decoder that only the end of a line changes. *)
SameLines(X, d) ==
  /\ X.lineStart = d.lineStart /\ X.event = d.event /\ X.hasData = d.hasData
  /\ X.pendingCr = d.pendingCr /\ X.bomChecked = d.bomChecked
  /\ X.bomPrefix = d.bomPrefix /\ X.out = d.out

(* A further symbol is stored, or the decoder overflows. *)
LEMMA PushIs ==
  ASSUME NEW d \in DecoderType, NEW s \in Symbol
  PROVE  LET X == Push(d, s)
         IN  /\ X \in DecoderType /\ SameLines(X, d)
             /\ X.kind = d.kind /\ X.strip = d.strip
             /\ X.name = d.name /\ X.nameOverflow = d.nameOverflow
             /\ ~X.overflowed => ~d.overflowed /\ X.storage = Append(d.storage, s)
<1> DEFINE X == Push(d, s)
           y == [d EXCEPT !.storage = Append(@, s)]
           z == [d EXCEPT !.overflowed = TRUE]
           Good(w) == /\ w \in DecoderType /\ SameLines(w, d)
                      /\ w.kind = d.kind /\ w.strip = d.strip
                      /\ w.name = d.name /\ w.nameOverflow = d.nameOverflow
<1>1. Append(d.storage, s) \in Seq(Symbol)
  BY DEF DecoderType
<1>2. Good(y) /\ y.overflowed = d.overflowed /\ y.storage = Append(d.storage, s)
  BY <1>1 DEF DecoderType, SameLines
<1>3. Good(z) /\ z.overflowed
  BY DEF DecoderType, SameLines
<1>4. X = y \/ X = z
  BY DEF Push
<1> HIDE DEF X, y, z
<1>5. Good(X) /\ (~X.overflowed => ~d.overflowed /\ X.storage = Append(d.storage, s))
  BY <1>2, <1>3, <1>4
<1>6. QED
  BY <1>5 DEF X

(* The name that was read is given up, and the data before it stays. *)
LEMMA JoinedIs ==
  ASSUME NEW d \in DecoderType, NEW D \in Seq(Symbol), NEW line \in Seq(Symbol),
         d.storage = D \o line, d.lineStart = Len(D)
  PROVE  LET X == NameRead(d)
             y == Joined(NameRead(d))
         IN  /\ Field(d) = line
             /\ X \in DecoderType /\ SameLines(X, d) /\ X.storage = D
             /\ X.overflowed = d.overflowed
             /\ y \in DecoderType /\ SameLines(y, d)
             /\ ~y.overflowed => ~d.overflowed /\ y.storage = Lead(d, D)
<1> DEFINE X == NameRead(d)
           y == Joined(X)
<1>1. LF \in Symbol
  BY DEF Symbol
<1>2. SubSeq(d.storage, Len(D) + 1, Len(d.storage)) = line /\ SubSeq(d.storage, 1, Len(D)) = D
  BY <1>1, ConcatFacts
<1>3. Field(d) = line
  BY <1>2 DEF Field
<1>4. X = [d EXCEPT !.storage = D]
  BY <1>2 DEF NameRead
<1>5. X \in DecoderType /\ SameLines(X, d) /\ X.storage = D /\ X.overflowed = d.overflowed
  BY <1>4 DEF DecoderType, SameLines
<1>6. y = IF X.hasData THEN Push(X, LF) ELSE X
  BY DEF Joined
<1> HIDE DEF X, y
<1>7. y \in DecoderType /\ SameLines(y, d) /\ (~y.overflowed => ~d.overflowed /\ y.storage = Lead(d, D))
  <2>1. CASE d.hasData
    <3>1. y = Push(X, LF)
      BY <1>5, <1>6, <2>1 DEF SameLines
    <3>2. y \in DecoderType /\ SameLines(y, X) /\ (~y.overflowed => ~X.overflowed /\ y.storage = Append(X.storage, LF))
      BY <1>1, <1>5, <3>1, PushIs
    <3>3. SameLines(y, d)
      BY <1>5, <3>2 DEF SameLines
    <3>4. QED
      BY <1>5, <2>1, <3>2, <3>3 DEF Lead
  <2>2. CASE ~d.hasData
    BY <1>5, <1>6, <2>2 DEF SameLines, Lead
  <2>3. QED
    BY <2>1, <2>2
<1>8. QED
  BY <1>3, <1>5, <1>7 DEF X, y

(* A colon ends the name of a line's field. *)
LEMMA ColonIs ==
  ASSUME NEW d \in DecoderType, NEW D \in Seq(Symbol), NEW line \in Seq(Symbol),
         d.lineStart = Len(D), d.kind = "field", InLine(d, line, D), ":" \in Symbol
  PROVE  LET X == Colon(d)
         IN  /\ X \in DecoderType /\ SameLines(X, d)
             /\ ~X.overflowed => ~d.overflowed /\ InLine(X, Append(line, ":"), D)
<1> DEFINE X == Colon(d)
           u == Append(line, ":")
           r == NameRead(d)
           j == Joined(NameRead(d))
<1>1. d.storage = D \o line /\ ~HasColon(line)
  BY DEF InLine
<1>2. /\ Field(d) = line
      /\ r \in DecoderType /\ SameLines(r, d) /\ r.storage = D
      /\ r.overflowed = d.overflowed
      /\ j \in DecoderType /\ SameLines(j, d)
      /\ ~j.overflowed => ~d.overflowed /\ j.storage = Lead(d, D)
  BY <1>1, JoinedIs
<1>3. HasColon(u) /\ FieldOf(u) = line /\ Past(u) = <<>> /\ u \in Seq(Symbol)
  BY <1>1, FieldAppend
<1>4. ValueOf(u) = <<>>
  BY <1>3, ValueAppend
<1>5. Lead(d, D) \in Seq(Symbol) /\ Lead(d, D) \o <<>> = Lead(d, D)
  <2>1. LF \in Symbol
    BY DEF Symbol
  <2>2. Lead(d, D) \in Seq(Symbol)
    BY <2>1 DEF Lead
  <2>3. QED
    BY <2>1, <2>2, ConcatFacts
<1> HIDE DEF u, r, j
<1>6. CASE line = <<>>
  <2>1. X = [d EXCEPT !.kind = "ignore"]
    BY <1>2, <1>6 DEF Colon
  <2>2. X \in DecoderType /\ SameLines(X, d) /\ X.kind = "ignore" /\ X.storage = d.storage /\ X.overflowed = d.overflowed
    BY <2>1 DEF DecoderType, SameLines
  <2>3. d.storage = D
    <3>1. D \o <<>> = D
      BY ConcatEmptySeq
    <3>2. QED
      BY <1>1, <1>6, <3>1
  <2>4. FieldOf(u) \notin {<<"data">>, <<"event">>}
    BY <1>3, <1>6
  <2>5. InLine(X, u, D)
    BY <1>3, <2>2, <2>3, <2>4 DEF InLine
  <2>6. QED
    BY <2>2, <2>5 DEF u
<1>7. CASE line = <<"data">>
  <2>1. X = [j EXCEPT !.kind = "data", !.strip = TRUE]
    BY <1>2, <1>7 DEF Colon, j
  <2>2. /\ X \in DecoderType /\ SameLines(X, d) /\ X.kind = "data" /\ X.strip
        /\ X.storage = j.storage /\ X.overflowed = j.overflowed
    BY <1>2, <2>1 DEF DecoderType, SameLines
  <2>3. Lead(X, D) = Lead(d, D)
    BY <2>2 DEF Lead, SameLines
  <2>4. ASSUME ~X.overflowed PROVE ~d.overflowed /\ InLine(X, u, D)
    <3>1. ~d.overflowed /\ X.storage = Lead(X, D) \o ValueOf(u)
      BY <1>2, <1>4, <1>5, <2>2, <2>3, <2>4
    <3>2. QED
      BY <1>3, <1>7, <2>2, <3>1 DEF InLine
  <2>5. QED
    BY <2>2, <2>4 DEF u
<1>8. CASE line = <<"event">>
  <2>1. X = [ResetName(r) EXCEPT !.kind = "event", !.strip = TRUE]
    BY <1>2, <1>8 DEF Colon, r
  <2>2. <<>> \in Seq(Symbol)
    BY EmptySeq
  <2>3. /\ X \in DecoderType /\ SameLines(X, d) /\ X.kind = "event" /\ X.strip
        /\ X.storage = D /\ X.overflowed = d.overflowed
        /\ X.name = <<>> /\ ~X.nameOverflow
    <3> DEFINE q == ResetName(r)
    <3>1. /\ q \in DecoderType /\ SameLines(q, d) /\ q.storage = D
          /\ q.overflowed = d.overflowed /\ q.name = <<>> /\ ~q.nameOverflow
      BY <1>2, <2>2 DEF DecoderType, SameLines, ResetName
    <3>2. X = [q EXCEPT !.kind = "event", !.strip = TRUE]
      BY <2>1
    <3> HIDE DEF q, X
    <3>3. QED
      BY <3>1, <3>2 DEF DecoderType, SameLines
  <2>4. Len(ValueOf(u)) = 0 /\ ~(0 > NameSize)
    BY <1>4, SseAssumption
  <2>5. InLine(X, u, D)
    BY <1>3, <1>4, <1>8, <2>3, <2>4 DEF InLine
  <2>6. QED
    BY <2>3, <2>5 DEF u
<1>9. CASE line \notin {<<>>, <<"data">>, <<"event">>}
  <2>1. X = [r EXCEPT !.kind = "ignore"]
    BY <1>2, <1>9 DEF Colon, r
  <2>2. X \in DecoderType /\ SameLines(X, d) /\ X.kind = "ignore" /\ X.storage = D /\ X.overflowed = d.overflowed
    BY <1>2, <2>1 DEF DecoderType, SameLines
  <2>3. InLine(X, u, D)
    BY <1>3, <1>9, <2>2 DEF InLine
  <2>4. QED
    BY <2>2, <2>3 DEF u
<1>10. QED
  BY <1>6, <1>7, <1>8, <1>9

(* The value of an event line is read into the name. *)
LEMMA NameIs ==
  ASSUME NEW d \in DecoderType, NEW D \in Seq(Symbol), NEW line \in Seq(Symbol), NEW s \in Symbol,
         d.kind = "event", InLine(d, line, D)
  PROVE  LET X == ProcessLineByte(d, s)
         IN  /\ X \in DecoderType /\ SameLines(X, d)
             /\ X.overflowed = d.overflowed /\ InLine(X, Append(line, s), D)
<1> DEFINE X == ProcessLineByte(d, s)
           u == Append(line, s)
           v == ValueOf(line)
           b == [d EXCEPT !.strip = FALSE]
<1>1. /\ HasColon(line) /\ FieldOf(line) = <<"event">>
      /\ d.storage = D
      /\ d.strip <=> Past(line) = <<>>
      /\ d.nameOverflow <=> Len(v) > NameSize
      /\ IF d.nameOverflow THEN Len(d.name) = NameSize ELSE d.name = v
  BY DEF InLine
<1>2. /\ HasColon(u) /\ FieldOf(u) = <<"event">>
      /\ Past(u) = Append(Past(line), s) /\ Past(line) \in Seq(Symbol)
  BY <1>1, FieldAppend
<1>3. Past(u) # <<>>
  BY <1>2
<1>4. v \in Seq(Symbol) /\ Len(v) \in Nat
  BY FieldType
<1>5. /\ Past(line) = <<>> => v = <<>>
      /\ ValueOf(u) = IF Past(line) = <<>> /\ s = " " THEN <<>> ELSE Append(v, s)
  BY <1>1, ValueAppend
<1>6. X = IF d.strip /\ s = " " THEN b ELSE NamePushed(b, s)
  BY DEF ProcessLineByte
<1>7. /\ b \in DecoderType /\ SameLines(b, d) /\ b.kind = "event" /\ ~b.strip
      /\ b.storage = D /\ b.overflowed = d.overflowed
      /\ b.name = d.name /\ b.nameOverflow = d.nameOverflow
  BY <1>1 DEF DecoderType, SameLines
<1>8. NameSize \in Nat \ {0}
  BY SseAssumption
<1> HIDE DEF X, u, v, b
<1>9. CASE d.strip /\ s = " "
  <2>1. X = b /\ ValueOf(u) = v
    BY <1>1, <1>5, <1>6, <1>9
  <2>2. InLine(X, u, D)
    BY <1>1, <1>2, <1>3, <1>7, <2>1 DEF InLine
  <2>3. QED
    BY <1>7, <2>1, <2>2 DEF X, u
<1>10. CASE ~(d.strip /\ s = " ")
  <2>1. ValueOf(u) = Append(v, s) /\ Append(v, s) \in Seq(Symbol) /\ Len(Append(v, s)) = Len(v) + 1
    <3>1. ValueOf(u) = Append(v, s)
      BY <1>1, <1>5, <1>10
    <3>2. QED
      BY <1>4, <3>1, AppendFacts
  <2>2. Append(b.name, s) \in Seq(Symbol) /\ Len(b.name) \in Nat
    BY <1>7 DEF DecoderType
  <2> DEFINE w == Append(v, s)
  <2>3. X = IF Len(b.name) < NameSize THEN [b EXCEPT !.name = Append(@, s)]
            ELSE [b EXCEPT !.nameOverflow = TRUE]
    BY <1>6, <1>10 DEF NamePushed
  <2>4. CASE Len(b.name) < NameSize
    <3>1. ~d.nameOverflow /\ d.name = v /\ Len(v) < NameSize
      BY <1>1, <1>7, <1>8, <2>2, <2>4
    <3>2. X = [b EXCEPT !.name = w]
      BY <1>7, <2>3, <2>4, <3>1
    <3> HIDE DEF w
    <3>3. w \in Seq(Symbol) /\ Len(w) = Len(v) + 1 /\ ValueOf(u) = w
      BY <2>1 DEF w
    <3>4. /\ X \in DecoderType /\ SameLines(X, d) /\ X.kind = "event" /\ ~X.strip
          /\ X.storage = D /\ X.overflowed = d.overflowed /\ X.name = w /\ ~X.nameOverflow
      BY <1>7, <3>1, <3>2, <3>3 DEF DecoderType, SameLines
    <3>5. ~(Len(ValueOf(u)) > NameSize)
      BY <1>4, <1>8, <3>1, <3>3
    <3>6. InLine(X, u, D)
      BY <1>2, <1>3, <3>3, <3>4, <3>5 DEF InLine
    <3>7. QED
      BY <3>4, <3>6 DEF X, u
  <2>5. CASE ~(Len(b.name) < NameSize)
    <3>1. Len(v) >= NameSize /\ Len(b.name) = NameSize
      BY <1>1, <1>4, <1>7, <1>8, <2>2, <2>5
    <3>2. X = [b EXCEPT !.nameOverflow = TRUE]
      BY <2>3, <2>5
    <3>3. /\ X \in DecoderType /\ SameLines(X, d) /\ X.kind = "event" /\ ~X.strip
          /\ X.storage = D /\ X.overflowed = d.overflowed /\ X.nameOverflow /\ Len(X.name) = NameSize
      BY <1>7, <3>1, <3>2 DEF DecoderType, SameLines
    <3>4. Len(ValueOf(u)) > NameSize
      BY <1>4, <1>8, <2>1, <3>1
    <3>5. InLine(X, u, D)
      BY <1>2, <1>3, <3>3, <3>4 DEF InLine
    <3>6. QED
      BY <3>3, <3>5 DEF X, u
  <2>6. QED
    BY <2>4, <2>5
<1>11. QED
  BY <1>9, <1>10

(* A symbol is appended to the second of two joined sequences. *)
LEMMA ConcatAppend ==
  \A D, L \in Seq(Symbol), s \in Symbol :
     D \o L \in Seq(Symbol) /\ Append(D \o L, s) = D \o Append(L, s)
  OBVIOUS

(* Two joined sequences, each after a symbol. *)
LEMMA ConcatJoin ==
  ASSUME NEW T, NEW D \in Seq(T), NEW L \in Seq(T), NEW s \in T
  PROVE  (<<s>> \o D) \o (<<s>> \o L) = <<s>> \o (Append(D, s) \o L)
<1>1. <<s>> \in Seq(T) /\ Append(D, s) = D \o <<s>>
  BY AppendIsConcat
<1>2. <<s>> \o L \in Seq(T)
  BY <1>1, ConcatProperties
<1>3. (<<s>> \o D) \o (<<s>> \o L) = <<s>> \o (D \o (<<s>> \o L))
  BY <1>1, <1>2, ConcatAssociative
<1>4. D \o (<<s>> \o L) = (D \o <<s>>) \o L
  BY <1>1, ConcatAssociative
<1>5. QED
  BY <1>1, <1>3, <1>4

(* The open line goes on. *)
LEMMA LineByteIs ==
  ASSUME NEW d \in DecoderType, NEW D \in Seq(Symbol), NEW line \in Seq(Symbol), NEW s \in Symbol,
         d.lineStart = Len(D), InLine(d, line, D)
  PROVE  LET X == ProcessLineByte(d, s)
         IN  /\ X \in DecoderType /\ SameLines(X, d)
             /\ ~X.overflowed => ~d.overflowed /\ InLine(X, Append(line, s), D)
<1> DEFINE X == ProcessLineByte(d, s)
           u == Append(line, s)
           b == [d EXCEPT !.strip = FALSE]
<1>1. d.kind \in {"field", "ignore", "data", "event"}
  BY DEF DecoderType
<1>2. LF \in Symbol /\ D \o line \in Seq(Symbol) /\ Append(D \o line, s) = D \o u
  <2>1. D \o line \in Seq(Symbol) /\ Append(D \o line, s) = D \o u
    BY ConcatAppend
  <2>2. QED
    BY <2>1 DEF Symbol
<1>3. CASE d.kind = "field" /\ s = ":"
  <2>1. X = Colon(d)
    BY <1>3 DEF ProcessLineByte
  <2> HIDE DEF X
  <2>2. QED
    BY <1>3, <2>1, ColonIs DEF X
<1>4. CASE d.kind = "field" /\ s # ":"
  <2>1. X = Push(d, s)
    BY <1>4 DEF ProcessLineByte
  <2>2. ~HasColon(u) /\ d.storage = D \o line
    BY <1>4, FieldAppend DEF InLine
  <2> HIDE DEF X, u
  <2>3. /\ X \in DecoderType /\ SameLines(X, d) /\ X.kind = d.kind
        /\ ~X.overflowed => ~d.overflowed /\ X.storage = Append(d.storage, s)
    BY <2>1, PushIs
  <2>4. ~X.overflowed => ~d.overflowed /\ InLine(X, u, D)
    BY <1>2, <1>4, <2>2, <2>3 DEF InLine
  <2>5. QED
    BY <2>3, <2>4 DEF X, u
<1>5. CASE d.kind = "ignore"
  <2>1. X = d
    BY <1>5 DEF ProcessLineByte
  <2>2. HasColon(line) /\ FieldOf(line) \notin {<<"data">>, <<"event">>} /\ d.storage = D
    BY <1>5 DEF InLine
  <2>3. HasColon(u) /\ FieldOf(u) = FieldOf(line)
    BY <2>2, FieldAppend
  <2> HIDE DEF X, u
  <2>4. InLine(d, u, D)
    BY <1>5, <2>2, <2>3 DEF InLine
  <2>5. QED
    BY <2>1, <2>4 DEF SameLines, X, u
<1>6. CASE d.kind = "data"
  <2> DEFINE v == ValueOf(line)
             l == Lead(d, D)
  <2>1. HasColon(line) /\ FieldOf(line) = <<"data">> /\ d.storage = l \o v /\ (d.strip <=> Past(line) = <<>>)
    BY <1>6 DEF InLine
  <2>2. HasColon(u) /\ FieldOf(u) = <<"data">> /\ Past(u) = Append(Past(line), s) /\ Past(line) \in Seq(Symbol)
    BY <2>1, FieldAppend
  <2>3. Past(u) # <<>>
    BY <2>2
  <2>4. v \in Seq(Symbol) /\ l \in Seq(Symbol)
    BY <1>2, FieldType DEF Lead
  <2>5. /\ Past(line) = <<>> => v = <<>>
        /\ ValueOf(u) = IF Past(line) = <<>> /\ s = " " THEN <<>> ELSE Append(v, s)
    BY <2>1, ValueAppend
  <2>6. Append(l \o v, s) = l \o Append(v, s)
    BY <2>4, ConcatAppend
  <2>7. X = IF d.strip /\ s = " " THEN b ELSE Push(b, s)
    BY <1>6 DEF ProcessLineByte
  <2>8. b \in DecoderType /\ SameLines(b, d) /\ b.kind = "data" /\ ~b.strip
        /\ b.storage = l \o v /\ b.overflowed = d.overflowed
    BY <1>6, <2>1 DEF DecoderType, SameLines
  <2> HIDE DEF X, u, v, b, l
  <2>9. CASE d.strip /\ s = " "
    <3>1. X = b /\ ValueOf(u) = v
      BY <2>1, <2>5, <2>7, <2>9
    <3>2. Lead(X, D) = l
      BY <2>8, <3>1 DEF Lead, SameLines, l
    <3>3. InLine(X, u, D)
      BY <2>2, <2>3, <2>8, <3>1, <3>2 DEF InLine
    <3>4. QED
      BY <2>8, <3>1, <3>3 DEF X, u
  <2>10. CASE ~(d.strip /\ s = " ")
    <3>1. X = Push(b, s) /\ ValueOf(u) = Append(v, s)
      BY <2>1, <2>5, <2>7, <2>10
    <3>2. /\ X \in DecoderType /\ SameLines(X, b) /\ X.kind = "data" /\ ~X.strip
          /\ ~X.overflowed => ~b.overflowed /\ X.storage = Append(b.storage, s)
      BY <2>8, <3>1, PushIs
    <3>3. SameLines(X, d)
      BY <2>8, <3>2 DEF SameLines
    <3>4. Lead(X, D) = l
      BY <3>3 DEF Lead, SameLines, l
    <3>5. ~X.overflowed => ~d.overflowed /\ X.storage = l \o ValueOf(u)
      BY <2>6, <2>8, <3>1, <3>2
    <3>6. ~X.overflowed => InLine(X, u, D)
      BY <2>2, <2>3, <3>2, <3>4, <3>5 DEF InLine
    <3>7. QED
      BY <3>2, <3>3, <3>5, <3>6 DEF X, u
  <2>11. QED
    BY <2>9, <2>10
<1>7. CASE d.kind = "event"
  BY <1>7, NameIs
<1>8. QED
  BY <1>1, <1>3, <1>4, <1>5, <1>6, <1>7

(* What a line says, after the lines before it. *)
LEMMA LineSays ==
  ASSUME NEW lines \in Seq(Seq(Symbol)), NEW line \in Seq(Symbol), NEW d, NEW D \in Seq(Symbol),
         AfterLines(d, lines, D), d.hasData \in BOOLEAN
  PROVE  LET after == Append(lines, line)
             values == FieldValues(lines, <<"data">>)
         IN  /\ FieldOf(line) = <<"data">> =>
                  /\ Says(after) /\ NameOf(after) = NameOf(lines)
                  /\ Joint(FieldValues(after, <<"data">>)) = <<LF>> \o (Lead(d, D) \o ValueOf(line))
             /\ FieldOf(line) # <<"data">> => FieldValues(after, <<"data">>) = values
             /\ FieldOf(line) # <<"event">> => NameOf(after) = NameOf(lines)
             /\ FieldOf(line) = <<"event">> => NameOf(after) = EventOf(ValueOf(line))
<1> DEFINE after == Append(lines, line)
           V == FieldValues(lines, <<"data">>)
           W == FieldValues(after, <<"data">>)
           v == ValueOf(line)
<1>1. V \in Seq(Seq(Symbol)) /\ W = IF FieldOf(line) = <<"data">> THEN Append(V, v) ELSE V
  BY FieldValuesAppend
<1>2. NameOf(after) = IF FieldOf(line) = <<"event">> THEN EventOf(v) ELSE NameOf(lines)
  BY NameAppend
<1>3. v \in Seq(Symbol)
  BY FieldType
<1>4. LF \in Symbol /\ <<"data">> # <<"event">>
  BY DEF Symbol
<1>5. d.hasData <=> V # <<>>
  BY DEF AfterLines, Says
<1>6. IF d.hasData THEN Joint(V) = <<LF>> \o D ELSE D = <<>>
  BY DEF AfterLines
<1> HIDE DEF after, V, W, v
<1>7. ASSUME FieldOf(line) = <<"data">>
      PROVE  W # <<>> /\ Joint(W) = <<LF>> \o (Lead(d, D) \o v)
  <2>1. W = Append(V, v) /\ W # <<>>
    <3>1. W = Append(V, v)
      BY <1>1, <1>7
    <3>2. Len(Append(V, v)) = Len(V) + 1 /\ Len(V) \in Nat
      BY <1>1, <1>3, AppendFacts
    <3> DEFINE X == Append(V, v)
    <3> HIDE DEF X
    <3>3. X # <<>>
      <4>1. Len(X) = Len(V) + 1 /\ Len(V) \in Nat
        BY <3>2 DEF X
      <4>2. Len(X) # 0 /\ Len(<<>>) = 0
        BY <4>1
      <4>3. QED
        BY <4>2
    <3>4. QED
      BY <3>1, <3>3 DEF X
  <2>2. Joint(W) = Joint(V) \o (<<LF>> \o v) /\ Joint(<<>>) = <<>>
    BY <1>1, <1>3, <2>1, JointAppend
  <2>3. CASE d.hasData
    <3>1. (<<LF>> \o D) \o (<<LF>> \o v) = <<LF>> \o (Append(D, LF) \o v)
      BY <1>3, <1>4, ConcatJoin
    <3>2. QED
      BY <1>6, <2>1, <2>2, <2>3, <3>1 DEF Lead
  <2>4. CASE ~d.hasData
    <3>1. Joint(V) = <<>> /\ D = <<>>
      BY <1>5, <1>6, <2>2, <2>4
    <3>2. <<LF>> \in Seq(Symbol)
      BY <1>4
    <3>3. <<LF>> \o v \in Seq(Symbol)
      BY <1>3, <3>2, ConcatProperties
    <3>4. <<>> \o (<<LF>> \o v) = <<LF>> \o v
      BY <3>3, ConcatEmptySeq
    <3>5. Lead(d, D) = <<>>
      BY <2>4, <3>1 DEF Lead
    <3>6. <<>> \o v = v
      BY <1>3, ConcatEmptySeq
    <3>7. QED
      BY <2>1, <2>2, <3>1, <3>4, <3>5, <3>6
  <2>5. QED
    BY <2>3, <2>4
<1>8. /\ FieldOf(line) = <<"data">> =>
           /\ W # <<>> /\ NameOf(after) = NameOf(lines)
           /\ Joint(W) = <<LF>> \o (Lead(d, D) \o v)
      /\ FieldOf(line) # <<"data">> => W = V
      /\ FieldOf(line) # <<"event">> => NameOf(after) = NameOf(lines)
      /\ FieldOf(line) = <<"event">> => NameOf(after) = EventOf(v)
  BY <1>1, <1>2, <1>4, <1>7
<1>9. QED
  BY <1>8 DEF after, V, W, v, Says

(* The parts of a decoder that the end of a line leaves. *)
SameStream(X, d) ==
  /\ X.pendingCr = d.pendingCr /\ X.bomChecked = d.bomChecked
  /\ X.bomPrefix = d.bomPrefix

(* A line that is not blank is read. *)
LEMMA LineReadIs ==
  ASSUME NEW d \in DecoderType, NEW D \in Seq(Symbol), NEW line \in Seq(Symbol),
         NEW lines \in Seq(Seq(Symbol)),
         d.lineStart = Len(D), InLine(d, line, D), AfterLines(d, lines, D), line # <<>>
  PROVE  LET X == LineRead(d)
         IN  /\ X \in DecoderType /\ SameStream(X, d) /\ X.out = d.out
             /\ ~X.overflowed => ~d.overflowed /\ AfterLines(X, Append(lines, line), X.storage)
<1> DEFINE X == LineRead(d)
           after == Append(lines, line)
           v == ValueOf(line)
           V == FieldValues(lines, <<"data">>)
           W == FieldValues(after, <<"data">>)
<1>1. d.kind \in {"field", "ignore", "data", "event"} /\ d.hasData \in BOOLEAN
  BY DEF DecoderType
<1>2. /\ FieldOf(line) = <<"data">> =>
           /\ Says(after) /\ NameOf(after) = NameOf(lines)
           /\ Joint(W) = <<LF>> \o (Lead(d, D) \o v)
      /\ FieldOf(line) # <<"data">> => W = V
      /\ FieldOf(line) # <<"event">> => NameOf(after) = NameOf(lines)
      /\ FieldOf(line) = <<"event">> => NameOf(after) = EventOf(v)
  BY <1>1, LineSays, Zenon
<1>3. v \in Seq(Symbol)
  BY FieldType
<1>4. /\ d.hasData <=> V # <<>>
      /\ IF d.hasData THEN Joint(V) = <<LF>> \o D ELSE D = <<>>
      /\ d.event = NameOf(lines)
  BY DEF AfterLines, Says
<1>5. Says(after) <=> W # <<>>
  BY DEF Says
<1>6. <<"data">> # <<"event">>
  OBVIOUS
<1>7. AfterLines(X, after, X.storage) <=>
        /\ X.hasData <=> Says(after)
        /\ IF X.hasData THEN Joint(W) = <<LF>> \o X.storage ELSE X.storage = <<>>
        /\ X.event = NameOf(after)
  BY DEF AfterLines
<1> HIDE DEF after, V, W, v
<1>8. CASE d.kind = "field"
  <2> DEFINE r == NameRead(d)
             j == Joined(NameRead(d))
  <2>1. d.storage = D \o line /\ ~HasColon(line)
    BY <1>8 DEF InLine
  <2>2. /\ Field(d) = line
        /\ r \in DecoderType /\ SameLines(r, d) /\ r.storage = D
        /\ r.overflowed = d.overflowed
        /\ j \in DecoderType /\ SameLines(j, d)
        /\ ~j.overflowed => ~d.overflowed /\ j.storage = Lead(d, D)
    BY <2>1, JoinedIs
  <2>3. FieldOf(line) = line /\ v = <<>>
    <3>1. LF \in Symbol
      BY DEF Symbol
    <3>2. QED
      BY <2>1, <3>1, FieldIs, ValueAppend DEF v
  <2> HIDE DEF r, j
  <2>4. CASE line = <<"data">>
    <3>1. X = [j EXCEPT !.hasData = TRUE]
      BY <1>8, <2>2, <2>4 DEF LineRead, j
    <3> HIDE DEF X
    <3>2. /\ X \in DecoderType /\ SameStream(X, d) /\ X.out = d.out
          /\ X.hasData /\ X.event = d.event /\ X.storage = j.storage /\ X.overflowed = j.overflowed
      BY <2>2, <3>1 DEF DecoderType, SameLines, SameStream
    <3>3. Lead(d, D) \o <<>> = Lead(d, D)
      <4>1. LF \in Symbol
        BY DEF Symbol
      <4>2. Lead(d, D) \in Seq(Symbol)
        BY <4>1 DEF Lead
      <4>3. QED
        BY <4>2, ConcatEmptySeq
    <3>4. Joint(W) = <<LF>> \o Lead(d, D)
      BY <1>2, <2>3, <2>4, <3>3
    <3>5. ~X.overflowed => ~d.overflowed /\ AfterLines(X, after, X.storage)
      BY <1>2, <1>4, <1>7, <2>2, <2>3, <2>4, <3>2, <3>4
    <3>6. QED
      BY <3>2, <3>5 DEF X, after
  <2>5. CASE line = <<"event">>
    <3>1. X = [r EXCEPT !.event = "none"]
      BY <1>8, <2>2, <2>5 DEF LineRead, r
    <3>2. "none" \in EventNames /\ EventOf(<<>>) = "none"
      BY DEF EventNames, EventOf
    <3> HIDE DEF X
    <3>3. /\ X \in DecoderType /\ SameStream(X, d) /\ X.out = d.out
          /\ X.hasData = d.hasData /\ X.event = "none" /\ X.storage = D /\ X.overflowed = d.overflowed
      BY <2>2, <3>1, <3>2 DEF DecoderType, SameLines, SameStream
    <3>4. W = V /\ NameOf(after) = "none"
      BY <1>2, <1>6, <2>3, <2>5, <3>2
    <3>5. AfterLines(X, after, X.storage)
      BY <1>4, <1>5, <1>7, <3>3, <3>4
    <3>6. QED
      BY <3>3, <3>5 DEF X, after
  <2>6. CASE line \notin {<<"data">>, <<"event">>}
    <3>1. X = r
      BY <1>8, <2>2, <2>6 DEF LineRead, r
    <3> HIDE DEF X
    <3>2. /\ X \in DecoderType /\ SameStream(X, d) /\ X.out = d.out
          /\ X.hasData = d.hasData /\ X.event = d.event /\ X.storage = D /\ X.overflowed = d.overflowed
      BY <2>2, <3>1 DEF SameLines, SameStream
    <3>3. W = V /\ NameOf(after) = NameOf(lines)
      BY <1>2, <2>3, <2>6
    <3>4. AfterLines(X, after, X.storage)
      BY <1>4, <1>5, <1>7, <3>2, <3>3
    <3>5. QED
      BY <3>2, <3>4 DEF X, after
  <2>7. QED
    BY <2>4, <2>5, <2>6
<1>9. CASE d.kind = "data"
  <2>1. FieldOf(line) = <<"data">> /\ d.storage = Lead(d, D) \o v
    BY <1>9 DEF InLine, v
  <2>2. X = [d EXCEPT !.hasData = TRUE]
    BY <1>9 DEF LineRead
  <2> HIDE DEF X
  <2>3. /\ X \in DecoderType /\ SameStream(X, d) /\ X.out = d.out
        /\ X.hasData /\ X.event = d.event /\ X.storage = d.storage /\ X.overflowed = d.overflowed
    BY <2>2 DEF DecoderType, SameStream
  <2>4. Joint(W) = <<LF>> \o X.storage /\ Says(after) /\ NameOf(after) = NameOf(lines)
    BY <1>2, <2>1, <2>3
  <2>5. AfterLines(X, after, X.storage)
    BY <1>4, <1>7, <2>3, <2>4
  <2>6. QED
    BY <2>3, <2>5 DEF X, after
<1>10. CASE d.kind = "event"
  <2>1. /\ FieldOf(line) = <<"event">> /\ d.storage = D
        /\ d.nameOverflow <=> Len(v) > NameSize
        /\ IF d.nameOverflow THEN Len(d.name) = NameSize ELSE d.name = v
    BY <1>10 DEF InLine, v
  <2> DEFINE e == IF d.nameOverflow THEN "unknown" ELSE EventOf(d.name)
  <2>2. X = [d EXCEPT !.event = e]
    BY <1>10 DEF LineRead
  <2>3. e = EventOf(v)
    <3>1. CASE d.nameOverflow
      <4>1. Len(v) > NameSize /\ NameSize \in Nat \ {0} /\ Len(v) \in Nat
        BY <1>3, <2>1, <3>1, SseAssumption
      <4>2. Len(v) # 0 /\ Len(v) # 1
        <5>1. \A m, k \in Nat : k # 0 /\ m > k => m # 0 /\ m # 1
          OBVIOUS
        <5>2. NameSize \in Nat /\ NameSize # 0
          BY <4>1
        <5>3. QED
          BY <4>1, <5>1, <5>2
      <4>3. v # <<>>
        BY <4>2
      <4>4. EventOf(v) = "unknown"
        BY <4>2, <4>3 DEF EventOf
      <4>5. QED
        BY <3>1, <4>4
    <3>2. CASE ~d.nameOverflow
      BY <2>1, <3>2
    <3>3. QED
      BY <3>1, <3>2
  <2>4. EventOf(v) \in EventNames
    BY EventOfType
  <2> HIDE DEF X, e
  <2>5. /\ X \in DecoderType /\ SameStream(X, d) /\ X.out = d.out
        /\ X.hasData = d.hasData /\ X.event = EventOf(v) /\ X.storage = D /\ X.overflowed = d.overflowed
    BY <2>1, <2>2, <2>3, <2>4 DEF DecoderType, SameStream
  <2>6. W = V /\ NameOf(after) = EventOf(v)
    BY <1>2, <1>6, <2>1
  <2>7. AfterLines(X, after, X.storage)
    BY <1>4, <1>5, <1>7, <2>5, <2>6
  <2>8. QED
    BY <2>5, <2>7 DEF X, after
<1>11. CASE d.kind = "ignore"
  <2>1. FieldOf(line) \notin {<<"data">>, <<"event">>} /\ d.storage = D
    BY <1>11 DEF InLine
  <2>2. X = d
    BY <1>11 DEF LineRead
  <2>3. W = V /\ NameOf(after) = NameOf(lines)
    BY <1>2, <2>1
  <2> HIDE DEF X
  <2>4. AfterLines(X, after, X.storage)
    BY <1>4, <1>5, <1>7, <2>1, <2>2, <2>3
  <2>5. QED
    BY <2>2, <2>4 DEF X, after, SameStream
<1>12. QED
  BY <1>1, <1>8, <1>9, <1>10, <1>11

(* A blank line hands on the event of the block that it ends. *)
LEMMA BlankIs ==
  ASSUME NEW d \in DecoderType, NEW D \in Seq(Symbol), NEW lines \in Seq(Seq(Symbol)),
         d.lineStart = Len(D), InLine(d, <<>>, D), AfterLines(d, lines, D)
  PROVE  LET X == LineRead(d)
         IN  /\ X \in DecoderType /\ SameStream(X, d) /\ X.overflowed = d.overflowed
             /\ X.out = IF Says(lines)
                        THEN Append(d.out, [event |-> NameOf(lines), data |-> DataOf(lines)])
                        ELSE d.out
             /\ AfterLines(X, <<>>, X.storage)
<1> DEFINE X == LineRead(d)
           e == [event |-> d.event, data |-> d.storage]
           o == IF d.hasData THEN Append(d.out, e) ELSE d.out
<1>1. ~HasColon(<<>>)
  BY DEF HasColon
<1>2. d.kind = "field"
  BY <1>1 DEF InLine, DecoderType
<1>3. d.storage = D \o <<>> /\ <<>> \in Seq(Symbol)
  BY <1>2, EmptySeq DEF InLine
<1>4. D \o <<>> = D
  BY ConcatEmptySeq
<1>5. Field(d) = <<>>
  BY <1>3, JoinedIs
<1>6. X = [d EXCEPT !.storage = <<>>, !.lineStart = 0, !.hasData = FALSE,
                    !.event = "none", !.out = o]
  BY <1>2, <1>5 DEF LineRead, DispatchEvent
<1>7. d.out \in Seq(EventType) /\ e \in EventType /\ d.hasData \in BOOLEAN
  BY DEF DecoderType, EventType
<1> HIDE DEF e
<1>8. o \in Seq(EventType)
  BY <1>7
<1>9. "none" \in EventNames
  BY DEF EventNames
<1> HIDE DEF X, o
<1>10. /\ X \in DecoderType /\ SameStream(X, d) /\ X.overflowed = d.overflowed
       /\ X.out = o /\ X.storage = <<>> /\ ~X.hasData /\ X.event = "none"
  BY <1>3, <1>6, <1>8, <1>9 DEF DecoderType, SameStream
<1>11. AfterLines(X, <<>>, X.storage)
  <2>1. FieldValues(<<>>, <<"data">>) = <<>> /\ NameOf(<<>>) = "none"
    BY EmptyBlock
  <2>2. QED
    BY <1>10, <2>1 DEF AfterLines, Says
<1>12. d.hasData => e = [event |-> NameOf(lines), data |-> DataOf(lines)]
  <2>1. d.event = NameOf(lines) /\ (d.hasData => Joint(FieldValues(lines, <<"data">>)) = <<LF>> \o D)
    BY DEF AfterLines
  <2>2. DataOf(lines) = Tail(Joint(FieldValues(lines, <<"data">>)))
    BY DataIs
  <2>3. Tail(<<LF>> \o D) = D
    <3>1. LF \in Symbol
      BY DEF Symbol
    <3>2. QED
      BY <1>3, <3>1, ConcatFacts
  <2>4. QED
    BY <1>3, <1>4, <2>1, <2>2, <2>3 DEF e
<1>13. d.hasData <=> Says(lines)
  BY DEF AfterLines
<1>14. o = IF Says(lines) THEN Append(d.out, [event |-> NameOf(lines), data |-> DataOf(lines)]) ELSE d.out
  BY <1>12, <1>13 DEF o
<1>15. QED
  BY <1>10, <1>11, <1>14 DEF X

(* A decoder that has read the text t, whose complete data is D. *)
Relates(d, t, D) ==
  /\ d.pendingCr <=> t # <<>> /\ t[Len(t)] = CR
  /\ d.lineStart = Len(D)
  /\ AfterLines(d, Lines(t), D)
  /\ InLine(d, Cur(t), D)

Reads(d, t) == \E D \in Seq(Symbol) : Relates(d, t, D)

(* The end of a line closes what the decoder keeps of it. *)
LEMMA FinishIs ==
  ASSUME NEW d \in DecoderType, NEW b \in BOOLEAN, LineRead(d) \in DecoderType
  PROVE  LET X == [FinishLine(d) EXCEPT !.pendingCr = b]
             r == LineRead(d)
         IN  /\ X \in DecoderType
             /\ X.storage = r.storage /\ X.lineStart = Len(r.storage) /\ X.kind = "field"
             /\ X.event = r.event /\ X.hasData = r.hasData /\ X.pendingCr = b
             /\ X.bomChecked = r.bomChecked /\ X.bomPrefix = r.bomPrefix
             /\ X.overflowed = r.overflowed /\ X.out = r.out
<1> DEFINE r == LineRead(d)
           f == [r EXCEPT !.lineStart = Len(r.storage), !.kind = "field", !.strip = FALSE]
           X == [FinishLine(d) EXCEPT !.pendingCr = b]
<1>1. Len(r.storage) \in Nat /\ <<>> \in Seq(Symbol)
  BY DEF DecoderType
<1>2. X = [ResetName(f) EXCEPT !.pendingCr = b]
  BY DEF FinishLine
<1> HIDE DEF r
<1>3. /\ f \in DecoderType
      /\ f.storage = r.storage /\ f.lineStart = Len(r.storage) /\ f.kind = "field"
      /\ f.event = r.event /\ f.hasData = r.hasData
      /\ f.bomChecked = r.bomChecked /\ f.bomPrefix = r.bomPrefix
      /\ f.overflowed = r.overflowed /\ f.out = r.out
  BY <1>1 DEF DecoderType, r
<1> HIDE DEF f, X
<1>4. /\ X \in DecoderType
      /\ X.storage = f.storage /\ X.lineStart = f.lineStart /\ X.kind = f.kind
      /\ X.event = f.event /\ X.hasData = f.hasData /\ X.pendingCr = b
      /\ X.bomChecked = f.bomChecked /\ X.bomPrefix = f.bomPrefix
      /\ X.overflowed = f.overflowed /\ X.out = f.out
  BY <1>1, <1>2, <1>3 DEF DecoderType, ResetName
<1>5. QED
  BY <1>3, <1>4 DEF X, r

(* The event that the symbol s after the text t completes, if it does. *)
Completes(t, s) == EndsLine(t, s) /\ Cur(t) = <<>> /\ Says(Lines(t))

EventAfter(t) == [event |-> NameOf(Lines(t)), data |-> DataOf(Lines(t))]

(* One symbol keeps the decoder with the text it has read, and hands on    *)
(* the event that the symbol completes.                                    *)
LEMMA ProcessIs ==
  ASSUME NEW d \in DecoderType, NEW t \in Seq(Symbol), NEW s \in Symbol,
         Reads(d, t), ~d.overflowed
  PROVE  LET X == Process(d, s)
         IN  /\ X \in DecoderType
             /\ X.bomChecked = d.bomChecked /\ X.bomPrefix = d.bomPrefix
             /\ ~X.overflowed => Reads(X, Append(t, s))
             /\ X.out = IF Completes(t, s) THEN Append(d.out, EventAfter(t)) ELSE d.out
<1> DEFINE X == Process(d, s)
           u == Append(t, s)
           n == Len(t)
           line == Cur(t)
           lines == Lines(t)
           Good == /\ X \in DecoderType
                   /\ X.bomChecked = d.bomChecked /\ X.bomPrefix = d.bomPrefix
                   /\ ~X.overflowed => Reads(X, u)
                   /\ X.out = IF Completes(t, s) THEN Append(d.out, EventAfter(t)) ELSE d.out
<1>1. PICK D \in Seq(Symbol) : Relates(d, t, D)
  BY DEF Reads
<1>2. /\ d.pendingCr <=> t # <<>> /\ t[n] = CR
      /\ d.lineStart = Len(D)
      /\ AfterLines(d, lines, D)
      /\ InLine(d, line, D)
  BY <1>1 DEF Relates
<1>3. /\ u \in Seq(Symbol) /\ n \in Nat /\ Len(u) = n + 1 /\ u[n + 1] = s
  BY AppendFacts
<1>4. u # <<>> /\ u[Len(u)] = s
  BY <1>3
<1>5. line \in Seq(Symbol) /\ Cur(u) = IF s \in Breaks THEN <<>> ELSE Append(line, s)
  BY CurAppend
<1>6. line = <<>> <=> t = <<>> \/ t[n] \in Breaks
  BY CurAppend
<1>7. lines \in Seq(Seq(Symbol)) /\ Lines(u) = IF ~EndsLine(t, s) THEN lines ELSE IF line = <<>> THEN <<>> ELSE Append(lines, line)
  BY LinesAppend
<1>8. t # <<>> <=> n > 0
  BY <1>3, EmptySeq
<1>9. EndsLine(t, s) <=> s \in Breaks /\ ~(s = LF /\ d.pendingCr)
  BY <1>2, <1>8 DEF EndsLine
<1>10. CR # LF /\ CR \in Breaks /\ LF \in Breaks
  BY DEF CR, LF, Breaks
<1> DEFINE c == [d EXCEPT !.pendingCr = FALSE]
<1>11. /\ c \in DecoderType /\ c.lineStart = d.lineStart /\ c.event = d.event
       /\ c.hasData = d.hasData /\ c.pendingCr = FALSE /\ c.bomChecked = d.bomChecked
       /\ c.bomPrefix = d.bomPrefix /\ c.out = d.out /\ c.overflowed = d.overflowed
       /\ c.storage = d.storage /\ c.kind = d.kind /\ c.strip = d.strip
       /\ c.name = d.name /\ c.nameOverflow = d.nameOverflow
  BY DEF DecoderType
<1>12. X = IF d.pendingCr /\ s = LF THEN c
           ELSE IF s \in Breaks THEN [FinishLine(d) EXCEPT !.pendingCr = (s = CR)]
           ELSE ProcessLineByte(c, s)
  BY DEF Process
<1> HIDE DEF X, u, n, line, lines, c
<1>13. AfterLines(c, lines, D)
  BY <1>2, <1>11 DEF AfterLines
<1>14. InLine(c, line, D)
  <2>1. Lead(c, D) = Lead(d, D)
    BY <1>11 DEF Lead
  <2>2. QED
    BY <1>2, <1>11, <2>1 DEF InLine
<1>15. CASE d.pendingCr /\ s = LF
  <2>1. X = c /\ ~EndsLine(t, s) /\ ~Completes(t, s)
    BY <1>9, <1>12, <1>15 DEF Completes
  <2>2. line = <<>> /\ Cur(u) = <<>> /\ Lines(u) = lines
    BY <1>2, <1>5, <1>6, <1>7, <1>10, <1>15, <2>1
  <2>3. Relates(X, u, D)
    BY <1>2, <1>4, <1>10, <1>11, <1>13, <1>14, <1>15, <2>1, <2>2 DEF Relates
  <2>4. Good
    BY <1>11, <2>1, <2>3 DEF Reads
  <2>5. QED
    BY <2>4 DEF X, u
<1>16. CASE s \in Breaks /\ ~(d.pendingCr /\ s = LF)
  <2> DEFINE r == LineRead(d)
  <2>1. EndsLine(t, s) /\ Cur(u) = <<>>
    BY <1>5, <1>9, <1>16
  <2>2. X = [FinishLine(d) EXCEPT !.pendingCr = (s = CR)]
    BY <1>12, <1>16
  <2>3. /\ r \in DecoderType /\ SameStream(r, d)
        /\ r.out = IF Completes(t, s) THEN Append(d.out, EventAfter(t)) ELSE d.out
        /\ ~r.overflowed => AfterLines(r, Lines(u), r.storage)
    <3>1. CASE line = <<>>
      <4>1. InLine(d, <<>>, D)
        BY <1>2, <3>1
      <4>2. /\ r \in DecoderType /\ SameStream(r, d)
            /\ r.out = IF Says(lines)
                       THEN Append(d.out, [event |-> NameOf(lines), data |-> DataOf(lines)])
                       ELSE d.out
            /\ AfterLines(r, <<>>, r.storage)
        BY <1>2, <1>7, <4>1, BlankIs
      <4>3. Lines(u) = <<>>
        BY <1>7, <2>1, <3>1
      <4> HIDE DEF r
      <4>4. Completes(t, s) <=> Says(lines)
        BY <2>1, <3>1 DEF Completes, line, lines
      <4>5. EventAfter(t) = [event |-> NameOf(lines), data |-> DataOf(lines)]
        BY DEF EventAfter, lines
      <4>6. QED
        BY <4>2, <4>3, <4>4, <4>5
    <3>2. CASE line # <<>>
      <4>1. /\ r \in DecoderType /\ SameStream(r, d) /\ r.out = d.out
            /\ ~r.overflowed => AfterLines(r, Append(lines, line), r.storage)
        BY <1>2, <1>5, <1>7, <3>2, LineReadIs
      <4>2. Lines(u) = Append(lines, line)
        BY <1>7, <2>1, <3>2
      <4> HIDE DEF r
      <4>3. ~Completes(t, s)
        BY <3>2 DEF Completes, line
      <4>4. QED
        BY <4>1, <4>2, <4>3
    <3>3. QED
      BY <3>1, <3>2
  <2>4. /\ X \in DecoderType
        /\ X.storage = r.storage /\ X.lineStart = Len(r.storage) /\ X.kind = "field"
        /\ X.event = r.event /\ X.hasData = r.hasData /\ X.pendingCr = (s = CR)
        /\ X.bomChecked = r.bomChecked /\ X.bomPrefix = r.bomPrefix
        /\ X.overflowed = r.overflowed /\ X.out = r.out
    <3>1. (s = CR) \in BOOLEAN
      OBVIOUS
    <3>2. QED
      BY <2>2, <2>3, <3>1, FinishIs, Zenon
  <2> HIDE DEF r
  <2>5. ASSUME ~X.overflowed PROVE Reads(X, u)
    <3> DEFINE E == r.storage
    <3>1. E \in Seq(Symbol)
      BY <2>3 DEF DecoderType
    <3>2. AfterLines(X, Lines(u), E)
      BY <2>3, <2>4, <2>5 DEF AfterLines
    <3>3. InLine(X, <<>>, E)
      <4>1. ~HasColon(<<>>)
        BY DEF HasColon
      <4>2. E \o <<>> = E
        BY <3>1, ConcatEmptySeq
      <4>3. QED
        BY <2>4, <4>1, <4>2 DEF InLine
    <3> HIDE DEF E
    <3>4. X.lineStart = Len(E) /\ (X.pendingCr <=> u # <<>> /\ u[Len(u)] = CR)
      BY <1>4, <2>4 DEF E
    <3>5. Relates(X, u, E)
      BY <2>1, <3>2, <3>3, <3>4 DEF Relates
    <3>6. QED
      BY <3>1, <3>5 DEF Reads
  <2>6. Good
    BY <2>3, <2>4, <2>5 DEF SameStream
  <2>7. QED
    BY <2>6 DEF X, u
<1>17. CASE s \notin Breaks
  <2>1. X = ProcessLineByte(c, s)
    BY <1>10, <1>12, <1>17
  <2>2. ~EndsLine(t, s) /\ ~Completes(t, s)
    BY <1>9, <1>17 DEF Completes
  <2>3. Cur(u) = Append(line, s) /\ Lines(u) = lines
    BY <1>5, <1>7, <1>17, <2>2
  <2>4. /\ X \in DecoderType /\ SameLines(X, c)
        /\ ~X.overflowed => InLine(X, Append(line, s), D)
    BY <1>2, <1>5, <1>11, <1>14, <2>1, LineByteIs
  <2>5. ASSUME ~X.overflowed PROVE Reads(X, u)
    <3>1. AfterLines(X, lines, D)
      BY <1>13, <2>4 DEF AfterLines, SameLines
    <3>2. X.lineStart = Len(D) /\ ~X.pendingCr
      BY <1>2, <1>11, <2>4 DEF SameLines
    <3>3. s # CR
      BY <1>10, <1>17
    <3>4. Relates(X, u, D)
      BY <1>4, <2>3, <2>4, <2>5, <3>1, <3>2, <3>3 DEF Relates
    <3>5. QED
      BY <3>4 DEF Reads
  <2>6. Good
    BY <1>11, <2>2, <2>4, <2>5 DEF SameLines
  <2>7. QED
    BY <2>6 DEF X, u
<1>18. QED
  BY <1>15, <1>16, <1>17

(* A prefix agrees with the sequence as far as it goes. *)
LEMMA PrefixIs ==
  ASSUME NEW T, NEW a \in Seq(T), NEW b \in Seq(T)
  PROVE  IsPrefix(a, b) <=> Len(a) <= Len(b) /\ \A i \in 1..Len(a) : a[i] = b[i]
<1> DEFINE n == Len(a)
           X == SubSeq(a, 1, n)
           y == SubSeq(b, 1, n)
<1>1. n \in Nat /\ Len(b) \in Nat /\ \A i \in 1..n : a[i] \in T
  OBVIOUS
<1>2. \A i \in 1..Len(b) : b[i] \in T
  OBVIOUS
<1> HIDE DEF n
<1>3. X \in Seq(T) /\ Len(X) = n /\ \A i \in 1..n : X[i] = a[i]
  <2>1. /\ X \in Seq(T) /\ Len(X) = IF 1 <= n THEN n - 1 + 1 ELSE 0
        /\ \A i \in 1..(n - 1 + 1) : X[i] = a[1 + i - 1]
    BY <1>1, SubSeqProperties
  <2> HIDE DEF X
  <2>2. QED
    BY <1>1, <2>1
<1>4. n <= Len(b) => y \in Seq(T) /\ Len(y) = n /\ \A i \in 1..n : y[i] = b[i]
  <2> SUFFICES ASSUME n <= Len(b) PROVE y \in Seq(T) /\ Len(y) = n /\ \A i \in 1..n : y[i] = b[i]
    OBVIOUS
  <2>1. \A i \in 1..n : b[i] \in T
    <3>1. \A i \in 1..n : i \in 1..Len(b)
      BY <1>1
    <3>2. QED
      BY <1>2, <3>1
  <2>2. /\ y \in Seq(T) /\ Len(y) = IF 1 <= n THEN n - 1 + 1 ELSE 0
        /\ \A i \in 1..(n - 1 + 1) : y[i] = b[1 + i - 1]
    BY <1>1, <2>1, SubSeqProperties
  <2> HIDE DEF y
  <2>3. QED
    BY <1>1, <2>2
<1>5. IsPrefix(a, b) <=> n <= Len(b) /\ X = y
  BY DEF IsPrefix, n
<1> HIDE DEF X, y
<1>6. n <= Len(b) => (X = y <=> \A i \in 1..n : a[i] = b[i])
  <2> SUFFICES ASSUME n <= Len(b) PROVE X = y <=> \A i \in 1..n : a[i] = b[i]
    OBVIOUS
  <2>1. X \in Seq(T) /\ y \in Seq(T) /\ Len(X) = Len(y)
    BY <1>3, <1>4
  <2>2. (\A i \in 1..n : X[i] = y[i]) => X = y
    BY <1>3, <2>1, SeqEqual
  <2>3. QED
    BY <1>3, <1>4, <2>2
<1>7. QED
  BY <1>5, <1>6 DEF n

(* A prefix stays one, and of every prefix the next is one symbol longer.  *)
LEMMA PrefixAppend ==
  ASSUME NEW T, NEW a \in Seq(T), NEW b \in Seq(T), NEW e \in T
  PROVE  IsPrefix(a, a) /\ (IsPrefix(a, b) => IsPrefix(a, Append(b, e)))
<1> DEFINE c == Append(b, e)
<1>1. /\ c \in Seq(T) /\ Len(b) \in Nat /\ Len(c) = Len(b) + 1 /\ \A i \in 1..Len(b) : c[i] = b[i]
      /\ Len(a) \in Nat
  BY AppendFacts
<1> HIDE DEF c
<1>2. IsPrefix(a, a)
  BY <1>1, PrefixIs
<1>3. ASSUME IsPrefix(a, b) PROVE IsPrefix(a, c)
  <2>1. Len(a) <= Len(b) /\ \A i \in 1..Len(a) : a[i] = b[i]
    BY <1>3, PrefixIs
  <2>2. \A i \in 1..Len(a) : i \in 1..Len(b)
    BY <1>1, <2>1
  <2>3. Len(a) <= Len(c) /\ \A i \in 1..Len(a) : a[i] = c[i]
    BY <1>1, <2>1, <2>2
  <2>4. QED
    BY <1>1, <2>3, PrefixIs
<1>4. QED
  BY <1>2, <1>3 DEF c

(* The first k symbols of a chunk after a text. *)
Thru(t, chunk, k) == t \o SubSeq(chunk, 1, k)

(* They grow symbol by symbol from the text to all of the chunk. *)
LEMMA UptoSteps ==
  ASSUME NEW T, NEW t \in Seq(T), NEW chunk \in Seq(T)
  PROVE  /\ Thru(t, chunk, 0) = t /\ Thru(t, chunk, Len(chunk)) = t \o chunk
         /\ \A k \in 0..Len(chunk) : Thru(t, chunk, k) \in Seq(T)
         /\ \A k \in 1..Len(chunk) : Thru(t, chunk, k) = Append(Thru(t, chunk, k - 1), chunk[k])
<1> DEFINE n == Len(chunk)
<1>1. n \in Nat /\ \A i \in 1..n : chunk[i] \in T
  OBVIOUS
<1>2. SubSeq(chunk, 1, 0) = <<>>
  BY SubSeqEmpty
<1>3. SubSeq(chunk, 1, n) = chunk
  BY SubSeqFull
<1>4. t \o <<>> = t
  BY ConcatEmptySeq
<1>5. ASSUME NEW k \in 0..n
      PROVE  /\ SubSeq(chunk, 1, k) \in Seq(T) /\ Len(SubSeq(chunk, 1, k)) = k
             /\ \A i \in 1..k : SubSeq(chunk, 1, k)[i] = chunk[i]
  <2> DEFINE X == SubSeq(chunk, 1, k)
  <2>1. k \in Nat /\ \A i \in 1..k : chunk[i] \in T
    BY <1>1
  <2>2. /\ X \in Seq(T) /\ Len(X) = IF 1 <= k THEN k - 1 + 1 ELSE 0
        /\ \A i \in 1..(k - 1 + 1) : X[i] = chunk[1 + i - 1]
    BY <2>1, SubSeqProperties
  <2> HIDE DEF X, n
  <2>3. X \in Seq(T) /\ Len(X) = k /\ \A i \in 1..k : X[i] = chunk[i]
    BY <2>1, <2>2
  <2>4. QED
    BY <2>3 DEF X
<1>6. ASSUME NEW k \in 1..n
      PROVE  SubSeq(chunk, 1, k) = Append(SubSeq(chunk, 1, k - 1), chunk[k])
  <2> DEFINE j == k - 1
             X == SubSeq(chunk, 1, k)
             y == SubSeq(chunk, 1, j)
  <2>1. k \in 0..n /\ j \in 0..n /\ j \in Nat /\ j + 1 = k /\ chunk[k] \in T
    BY <1>1
  <2> HIDE DEF j
  <2>2. X \in Seq(T) /\ Len(X) = k /\ \A i \in 1..k : X[i] = chunk[i]
    BY <1>5, <2>1
  <2>3. y \in Seq(T) /\ Len(y) = j /\ \A i \in 1..j : y[i] = chunk[i]
    BY <1>5, <2>1
  <2> HIDE DEF X, y
  <2> DEFINE z == Append(y, chunk[k])
  <2>4. z \in Seq(T) /\ Len(z) = k /\ z[k] = chunk[k] /\ \A i \in 1..j : z[i] = y[i]
    <3>1. /\ z \in Seq(T) /\ Len(z) = Len(y) + 1 /\ z[Len(y) + 1] = chunk[k]
          /\ \A i \in 1..Len(y) : z[i] = y[i]
      BY <2>1, <2>3, AppendFacts
    <3> HIDE DEF z
    <3>2. QED
      BY <2>1, <2>3, <3>1
  <2> HIDE DEF z
  <2>5. \A i \in 1..k : i \in 1..j \/ i = k
    BY <2>1
  <2>6. \A i \in 1..k : X[i] = z[i]
    BY <2>2, <2>3, <2>4, <2>5
  <2>7. X = z
    BY <2>2, <2>4, <2>6, SeqEqual
  <2>8. QED
    BY <2>7 DEF X, y, z, j
<1>7. ASSUME NEW k \in 1..n PROVE Thru(t, chunk, k) = Append(Thru(t, chunk, k - 1), chunk[k])
  <2> DEFINE y == SubSeq(chunk, 1, k - 1)
  <2>1. k - 1 \in 0..n
    BY <1>1
  <2>2. y \in Seq(T) /\ chunk[k] \in T
    BY <1>1, <1>5, <2>1
  <2>3. SubSeq(chunk, 1, k) = Append(y, chunk[k])
    BY <1>6
  <2> HIDE DEF y
  <2>4. t \o Append(y, chunk[k]) = Append(t \o y, chunk[k])
    BY <2>2
  <2>5. QED
    BY <2>3, <2>4 DEF Thru, y
<1>8. ASSUME NEW k \in 0..n PROVE Thru(t, chunk, k) \in Seq(T)
  <2>1. SubSeq(chunk, 1, k) \in Seq(T)
    BY <1>5
  <2>2. QED
    BY <2>1, ConcatProperties DEF Thru
<1>9. QED
  BY <1>2, <1>3, <1>4, <1>7, <1>8 DEF Thru

(* h, with what the decoder has still to hand on, is what the text t says, *)
(* or a prefix of it once the decoder has overflowed.                      *)
Told(h, d, t) ==
  /\ d \in DecoderType /\ d.bomChecked /\ d.bomPrefix = <<>>
  /\ IF d.overflowed THEN IsPrefix(h \o d.out, EventsOf(t))
     ELSE h \o d.out = EventsOf(t) /\ Reads(d, t)

(* One symbol more. *)
LEMMA ToldProcess ==
  ASSUME NEW h \in Seq(EventType), NEW d, NEW t \in Seq(Symbol), NEW s \in Symbol,
         Told(h, d, t)
  PROVE  Told(h, Process(d, s), Append(t, s))
<1> DEFINE X == Process(d, s)
           u == Append(t, s)
           e == EventAfter(t)
<1>1. /\ d \in DecoderType /\ d.bomChecked /\ d.bomPrefix = <<>>
      /\ d.out \in Seq(EventType)
  BY DEF Told, DecoderType
<1>2. /\ EventsOf(t) \in Seq(EventType)
      /\ EventsOf(u) = IF Completes(t, s) THEN Append(EventsOf(t), e) ELSE EventsOf(t)
  BY EventsAppend, Zenon DEF Completes, EventAfter
<1>3. h \o d.out \in Seq(EventType)
  BY <1>1, ConcatProperties
<1>4. u \in Seq(Symbol)
  BY AppendFacts
<1>5. EventsOf(u) \in Seq(EventType)
  BY <1>4, EventsAppend
<1>6. Completes(t, s) => e \in EventType
  <2> SUFFICES ASSUME Completes(t, s) PROVE e \in EventType
    OBVIOUS
  <2>1. Lines(t) \in Seq(Seq(Symbol)) /\ <<>> \in Seq(Symbol)
    BY LinesAppend, EmptySeq
  <2>2. NameOf(Lines(t)) \in EventNames /\ DataOf(Lines(t)) \in Seq(Symbol)
    BY <2>1, NameAppend, DataIs DEF Completes, Says
  <2>3. QED
    BY <2>2 DEF EventAfter, EventType
<1> HIDE DEF e
<1>7. CASE d.overflowed
  <2>1. X = d
    BY <1>7 DEF Process
  <2>2. IsPrefix(h \o d.out, EventsOf(t))
    BY <1>7 DEF Told
  <2>3. IsPrefix(h \o d.out, EventsOf(u))
    <3> DEFINE a == h \o d.out
               b == EventsOf(t)
    <3> HIDE DEF a, b
    <3>1. a \in Seq(EventType) /\ b \in Seq(EventType) /\ IsPrefix(a, b)
      BY <1>2, <1>3, <2>2 DEF a, b
    <3>2. ~Completes(t, s) => IsPrefix(a, EventsOf(u))
      BY <1>2, <3>1 DEF b
    <3>3. Completes(t, s) => IsPrefix(a, Append(b, e))
      BY <1>6, <3>1, PrefixAppend
    <3>4. QED
      BY <1>2, <3>2, <3>3 DEF a, b
  <2>4. QED
    BY <1>1, <1>7, <2>1, <2>3 DEF Told
<1>8. CASE ~d.overflowed
  <2>1. h \o d.out = EventsOf(t) /\ Reads(d, t)
    BY <1>8 DEF Told
  <2>2. /\ X \in DecoderType
        /\ X.bomChecked = d.bomChecked /\ X.bomPrefix = d.bomPrefix
        /\ ~X.overflowed => Reads(X, u)
        /\ X.out = IF Completes(t, s) THEN Append(d.out, e) ELSE d.out
    BY <1>1, <1>8, <2>1, ProcessIs DEF e
  <2> HIDE DEF X, u
  <2>3. h \o X.out = EventsOf(u)
    <3>1. CASE Completes(t, s)
      <4> DEFINE o == d.out
      <4>1. o \in Seq(EventType) /\ e \in EventType /\ X.out = Append(o, e)
        BY <1>1, <1>6, <2>2, <3>1
      <4> HIDE DEF o
      <4>2. h \o Append(o, e) = Append(h \o o, e)
        BY <4>1
      <4>3. QED
        BY <1>2, <2>1, <3>1, <4>1, <4>2 DEF o
    <3>2. CASE ~Completes(t, s)
      BY <1>2, <2>1, <2>2, <3>2
    <3>3. QED
      BY <3>1, <3>2
  <2>4. IsPrefix(EventsOf(u), EventsOf(u))
    <3> DEFINE a == EventsOf(u)
    <3> HIDE DEF a
    <3>1. \A i \in 1..Len(a) : a[i] = a[i]
      OBVIOUS
    <3>2. Len(a) <= Len(a) /\ a \in Seq(EventType)
      BY <1>5 DEF a
    <3>3. IsPrefix(a, a)
      BY <3>1, <3>2, PrefixIs
    <3>4. QED
      BY <3>3 DEF a
  <2>5. QED
    BY <1>1, <2>2, <2>3, <2>4 DEF Told, X, u
<1>9. QED
  BY <1>7, <1>8

(* What the text before the first symbol says. *)
LEMMA NothingSaid ==
  /\ <<>> \in Seq(Symbol)
  /\ Lines(<<>>) = <<>> /\ Cur(<<>>) = <<>>
  /\ \A t \in Seq(Symbol) : LineEnds(t) = {} => EventsOf(t) = <<>>
<1>1. <<>> \in Seq(Symbol) /\ LF \in Symbol
  BY EmptySeq DEF Symbol
<1>2. Cur(<<>>) = <<>>
  BY <1>1, CurAppend
<1>3. LineEnds(<<>>) = {}
  BY DEF LineEnds
<1>4. Lines(<<>>) = <<>>
  <2>1. \A i : Ends(<<>>, i) = {}
    BY <1>3 DEF Ends
  <2>2. Lines(<<>>) = LinesAt(<<>>, {})
    BY <2>1, BlockIs DEF Lines
  <2>3. {} \in SUBSET (1..Len(<<>>)) /\ Cardinality({}) = 0
    BY FS_EmptySet
  <2>4. LinesAt(<<>>, {}) \in Seq(Seq(Symbol)) /\ Len(LinesAt(<<>>, {})) = 0
    BY <1>1, <2>3, LinesAtAppend
  <2>5. QED
    BY <2>2, <2>4, EmptySeq
<1>5. ASSUME NEW t \in Seq(Symbol), LineEnds(t) = {} PROVE EventsOf(t) = <<>>
  <2>1. Spoken(t) = {}
    BY <1>5 DEF Spoken, Blanks
  <2>2. InOrder({}) = <<>>
    BY FS_EmptySet DEF InOrder
  <2>3. EventsAt(t, {}) = [k \in DOMAIN InOrder({}) |-> EventAt(t, InOrder({})[k])]
    BY DEF EventsAt
  <2>4. EventsAt(t, {}) = <<>>
    BY <2>2, <2>3
  <2>5. QED
    BY <2>1, <2>4 DEF EventsOf
<1>6. QED
  BY <1>1, <1>2, <1>4, <1>5

(* A decoder that has passed the byte order mark and read nothing. *)
LEMMA ToldNothing ==
  Told(<<>>, [NewDecoder EXCEPT !.bomChecked = TRUE, !.bomPrefix = <<>>], <<>>)
<1> DEFINE d == [NewDecoder EXCEPT !.bomChecked = TRUE, !.bomPrefix = <<>>]
<1>1. <<>> \in Seq(Symbol) /\ <<>> \in Seq(EventType)
  BY EmptySeq
<1>2. "none" \in EventNames
  BY DEF EventNames
<1>3. /\ d \in DecoderType /\ d.bomChecked /\ d.bomPrefix = <<>> /\ ~d.overflowed /\ d.out = <<>>
      /\ d.storage = <<>> /\ d.lineStart = 0 /\ d.kind = "field" /\ d.event = "none"
      /\ ~d.hasData /\ ~d.pendingCr
  BY <1>1, <1>2 DEF NewDecoder, DecoderType
<1> HIDE DEF d
<1>4. AfterLines(d, <<>>, <<>>)
  <2>1. FieldValues(<<>>, <<"data">>) = <<>> /\ NameOf(<<>>) = "none"
    BY EmptyBlock
  <2>2. QED
    BY <1>3, <2>1 DEF AfterLines, Says
<1>5. InLine(d, <<>>, <<>>)
  <2>1. ~HasColon(<<>>) /\ <<>> \o <<>> = <<>>
    BY DEF HasColon
  <2>2. QED
    BY <1>3, <2>1 DEF InLine
<1>6. Relates(d, <<>>, <<>>)
  BY <1>3, <1>4, <1>5, NothingSaid DEF Relates
<1>7. Reads(d, <<>>)
  BY <1>1, <1>6 DEF Reads
<1>8. EventsOf(<<>>) = <<>>
  <2>1. LineEnds(<<>>) = {}
    BY DEF LineEnds
  <2>2. QED
    BY <2>1, NothingSaid
<1>9. <<>> \o d.out = EventsOf(<<>>)
  BY <1>3, <1>8
<1>10. QED
  BY <1>3, <1>7, <1>9 DEF Told, d

(* Many symbols more. *)
LEMMA ToldFold ==
  ASSUME NEW h \in Seq(EventType), NEW d, NEW t \in Seq(Symbol), NEW chunk \in Seq(Symbol),
         Told(h, d, t)
  PROVE  Told(h, ProcessAll(d, chunk), t \o chunk)
<1> DEFINE n == Len(chunk)
<1>1. PICK f : /\ f[0] = d /\ f[n] = ProcessAll(d, chunk)
               /\ \A k \in 1..n : f[k] = Process(f[k - 1], chunk[k])
  BY ProcessSteps
<1>2. /\ Thru(t, chunk, 0) = t /\ Thru(t, chunk, n) = t \o chunk
      /\ \A k \in 0..n : Thru(t, chunk, k) \in Seq(Symbol)
      /\ \A k \in 1..n : Thru(t, chunk, k) = Append(Thru(t, chunk, k - 1), chunk[k])
  BY UptoSteps
<1>3. n \in Nat /\ \A k \in 1..n : chunk[k] \in Symbol
  OBVIOUS
<1> HIDE DEF n
<1> DEFINE T == {k \in Nat : k <= n /\ ~Told(h, f[k], Thru(t, chunk, k))}
<1>4. T = {}
  <2> SUFFICES ASSUME T # {} PROVE FALSE
    OBVIOUS
  <2>1. PICK k \in T : \A m \in T : k <= m
    BY LeastMember
  <2>2. k # 0
    BY <1>1, <1>2
  <2>3. k \in 1..n /\ k - 1 \in Nat /\ k - 1 <= n /\ ~(k <= k - 1) /\ k - 1 \in 0..n
    BY <1>3, <2>2
  <2>4. Told(h, f[k - 1], Thru(t, chunk, k - 1))
    BY <2>1, <2>3
  <2>5. Thru(t, chunk, k - 1) \in Seq(Symbol) /\ chunk[k] \in Symbol
    BY <1>2, <1>3, <2>3
  <2>6. Told(h, Process(f[k - 1], chunk[k]), Append(Thru(t, chunk, k - 1), chunk[k]))
    BY <2>4, <2>5, ToldProcess
  <2>7. Told(h, f[k], Thru(t, chunk, k))
    BY <1>1, <1>2, <2>3, <2>6
  <2>8. QED
    BY <2>7
<1>5. Told(h, f[n], Thru(t, chunk, n))
  BY <1>3, <1>4
<1>6. QED
  BY <1>1, <1>2, <1>5

Marks == Symbol \cup {"ef", "bb", "bf"}

(* What it is to begin with a byte order mark, or to be a part of one. *)
LEMMA BomIs ==
  ASSUME NEW t \in Seq(Symbol)
  PROVE  /\ IsPrefix(Bom, t) <=> Len(t) >= 3 /\ t[1] = "ef" /\ t[2] = "bb" /\ t[3] = "bf"
         /\ IsPrefix(t, Bom) <=>
              /\ Len(t) <= 3
              /\ Len(t) >= 1 => t[1] = "ef"
              /\ Len(t) >= 2 => t[2] = "bb"
              /\ Len(t) >= 3 => t[3] = "bf"
         /\ t = Bom <=> Len(t) = 3 /\ t[1] = "ef" /\ t[2] = "bb" /\ t[3] = "bf"
<1>1. t \in Seq(Marks) /\ Len(t) \in Nat
  <2>1. Symbol \subseteq Marks
    BY DEF Marks
  <2>2. QED
    BY <2>1, SeqMonotonic
<1>2. Bom \in Seq(Marks) /\ Len(Bom) = 3 /\ Bom[1] = "ef" /\ Bom[2] = "bb" /\ Bom[3] = "bf"
  <2>1. "ef" \in Marks /\ "bb" \in Marks /\ "bf" \in Marks
    BY DEF Marks
  <2>2. QED
    BY <2>1 DEF Bom
<1>3. IsPrefix(Bom, t) <=> Len(Bom) <= Len(t) /\ \A i \in 1..Len(Bom) : Bom[i] = t[i]
  <2> DEFINE b == Bom
  <2>1. t \in Seq(Marks) /\ b \in Seq(Marks)
    BY <1>1, <1>2
  <2> HIDE DEF b
  <2>2. IsPrefix(b, t) <=> Len(b) <= Len(t) /\ \A i \in 1..Len(b) : b[i] = t[i]
    BY <2>1, PrefixIs
  <2>3. QED
    BY <2>2 DEF b
<1>4. IsPrefix(t, Bom) <=> Len(t) <= Len(Bom) /\ \A i \in 1..Len(t) : t[i] = Bom[i]
  BY <1>1, <1>2, PrefixIs
<1>5. t = Bom <=> Len(t) = 3 /\ \A i \in 1..3 : t[i] = Bom[i]
  <2>1. (Len(t) = 3 /\ \A i \in 1..3 : t[i] = Bom[i]) => t = Bom
    BY <1>1, <1>2, SeqEqual
  <2>2. QED
    BY <1>2, <2>1
<1>6. \A i : i \in 1..3 <=> i = 1 \/ i = 2 \/ i = 3
  OBVIOUS
<1> DEFINE n == Len(t)
<1> HIDE DEF n
<1>7. n \in Nat
  BY <1>1 DEF n
<1>8. n <= 3 => \A i : i \in 1..n <=> (i = 1 /\ n >= 1) \/ (i = 2 /\ n >= 2) \/ (i = 3 /\ n >= 3)
  BY <1>7
<1>9. IsPrefix(Bom, t) <=> n >= 3 /\ t[1] = "ef" /\ t[2] = "bb" /\ t[3] = "bf"
  BY <1>2, <1>3, <1>6, <1>7 DEF n
<1>10. IsPrefix(t, Bom) <=> n <= 3 /\ (n >= 1 => t[1] = "ef") /\ (n >= 2 => t[2] = "bb") /\ (n >= 3 => t[3] = "bf")
  BY <1>2, <1>4, <1>7, <1>8 DEF n
<1>11. t = Bom <=> n = 3 /\ t[1] = "ef" /\ t[2] = "bb" /\ t[3] = "bf"
  BY <1>2, <1>5, <1>6 DEF n
<1>12. QED
  BY <1>9, <1>10, <1>11 DEF n

(* Whether a byte order mark can still come is settled. *)
BomRead(t) == IsPrefix(Bom, t) \/ ~IsPrefix(t, Bom)

(* Once it is settled, the body of a text grows with the text. *)
LEMMA BodyAppend ==
  ASSUME NEW t \in Seq(Symbol), NEW s \in Symbol
  PROVE  /\ Body(t) \in Seq(Symbol)
         /\ BomRead(t) => BomRead(Append(t, s)) /\ Body(Append(t, s)) = Append(Body(t), s)
         /\ ~BomRead(t) => /\ Body(t) = t /\ LineEnds(t) = {}
                           /\ Append(t, s) = Bom => Body(Append(t, s)) = <<>>
                           /\ ~IsPrefix(Append(t, s), Bom) => Body(Append(t, s)) = Append(t, s)
         /\ BomRead(t) <=> ~IsStrictPrefix(t, Bom)
<1> DEFINE u == Append(t, s)
           n == Len(t)
<1>1. /\ u \in Seq(Symbol) /\ n \in Nat /\ Len(u) = n + 1
      /\ \A i \in 1..n : u[i] = t[i]
      /\ u[n + 1] = s
  BY AppendFacts
<1> HIDE DEF u
<1>2. /\ IsPrefix(Bom, t) <=> n >= 3 /\ t[1] = "ef" /\ t[2] = "bb" /\ t[3] = "bf"
      /\ IsPrefix(t, Bom) <=> n <= 3 /\ (n >= 1 => t[1] = "ef") /\ (n >= 2 => t[2] = "bb") /\ (n >= 3 => t[3] = "bf")
      /\ t = Bom <=> n = 3 /\ t[1] = "ef" /\ t[2] = "bb" /\ t[3] = "bf"
  BY BomIs
<1>3. /\ IsPrefix(Bom, u) <=> n + 1 >= 3 /\ u[1] = "ef" /\ u[2] = "bb" /\ u[3] = "bf"
      /\ IsPrefix(u, Bom) <=> n + 1 <= 3 /\ (n + 1 >= 1 => u[1] = "ef") /\ (n + 1 >= 2 => u[2] = "bb") /\ (n + 1 >= 3 => u[3] = "bf")
      /\ u = Bom <=> n + 1 = 3 /\ u[1] = "ef" /\ u[2] = "bb" /\ u[3] = "bf"
  BY <1>1, BomIs
<1> HIDE DEF n
<1>4. /\ n >= 1 => u[1] = t[1]
      /\ n >= 2 => u[2] = t[2]
      /\ n >= 3 => u[3] = t[3]
  BY <1>1
<1>5. n >= 3 => SubSeq(t, 4, n) \in Seq(Symbol) /\ SubSeq(u, 4, n + 1) = Append(SubSeq(t, 4, n), s)
  <2> SUFFICES ASSUME n >= 3 PROVE SubSeq(t, 4, n) \in Seq(Symbol) /\ SubSeq(u, 4, n + 1) = Append(SubSeq(t, 4, n), s)
    OBVIOUS
  <2>1. 4 \in 1..(Len(t) + 1)
    BY <1>1 DEF n
  <2>2. SubSeq(t, 4, Len(t)) \in Seq(Symbol) /\ SubSeq(Append(t, s), 4, Len(t) + 1) = Append(SubSeq(t, 4, Len(t)), s)
    BY <2>1, SubSeqAppend
  <2>3. QED
    BY <2>2 DEF n, u
<1>6. /\ Body(t) = IF IsPrefix(Bom, t) THEN SubSeq(t, 4, n) ELSE t
      /\ Body(u) = IF IsPrefix(Bom, u) THEN SubSeq(u, 4, n + 1) ELSE u
  BY <1>1 DEF Body, n
<1>7. Body(t) \in Seq(Symbol)
  BY <1>2, <1>5, <1>6
<1>8. BomRead(t) <=> ~IsStrictPrefix(t, Bom)
  BY <1>1, <1>2 DEF BomRead, IsStrictPrefix
<1>9. ASSUME BomRead(t) PROVE BomRead(u) /\ Body(u) = Append(Body(t), s)
  <2>1. CASE IsPrefix(Bom, t)
    <3>1. n >= 3 /\ IsPrefix(Bom, u)
      BY <1>1, <1>2, <1>3, <1>4, <2>1
    <3>2. QED
      BY <1>5, <1>6, <2>1, <3>1 DEF BomRead
  <2>2. CASE ~IsPrefix(Bom, t) /\ ~IsPrefix(t, Bom)
    <3>1. ~IsPrefix(Bom, u) /\ ~IsPrefix(u, Bom)
      BY <1>1, <1>2, <1>3, <1>4, <2>2
    <3>2. Body(u) = u /\ Body(t) = t
      BY <1>6, <2>2, <3>1
    <3>3. QED
      BY <3>1, <3>2 DEF BomRead, u
  <2>3. QED
    BY <1>9, <2>1, <2>2 DEF BomRead
<1>10. ASSUME ~BomRead(t)
       PROVE  /\ Body(t) = t /\ LineEnds(t) = {}
              /\ u = Bom => Body(u) = <<>>
              /\ ~IsPrefix(u, Bom) => Body(u) = u
  <2>1. ~IsPrefix(Bom, t) /\ IsPrefix(t, Bom)
    BY <1>10 DEF BomRead
  <2>2. Body(t) = t
    BY <1>6, <2>1
  <2>3. n <= 2
    BY <1>1, <1>2, <2>1
  <2>4. \A i \in 1..n : t[i] \notin Breaks
    <3>1. \A i \in 1..n : (i = 1 /\ n >= 1) \/ (i = 2 /\ n >= 2)
      BY <1>1, <2>3
    <3>2. "ef" \notin Breaks /\ "bb" \notin Breaks
      BY DEF Breaks, CR, LF
    <3>3. QED
      BY <1>2, <2>1, <3>1, <3>2
  <2>5. LineEnds(t) = {}
    <3>1. DOMAIN t = 1..n
      BY DEF n
    <3>2. QED
      BY <2>4, <3>1 DEF LineEnds
  <2>6. ASSUME u = Bom PROVE Body(u) = <<>>
    <3>1. IsPrefix(Bom, u) /\ n + 1 = 3
      BY <1>1, <1>3, <2>6
    <3>2. Body(u) = SubSeq(u, 4, 3)
      BY <1>6, <3>1
    <3>3. SubSeq(u, 4, 3) = <<>>
      BY <1>1, SubSeqEmpty
    <3>4. QED
      BY <3>2, <3>3
  <2>7. ASSUME ~IsPrefix(u, Bom) PROVE Body(u) = u
    <3>1. ~IsPrefix(Bom, u)
      BY <1>1, <1>3, <2>3, <2>7
    <3>2. QED
      BY <1>6, <3>1
  <2>8. QED
    BY <2>2, <2>5, <2>6, <2>7
<1>11. QED
  BY <1>7, <1>8, <1>9, <1>10 DEF u

(* h, with what the decoder has still to hand on, is what the events of    *)
(* the text t are, whatever the chunks it came in.                         *)
Decoded(h, d, t) ==
  IF BomRead(t) THEN Told(h, d, Body(t))
  ELSE h = <<>> /\ d = [NewDecoder EXCEPT !.bomPrefix = t]

(* One byte more. *)
LEMMA DecodedByte ==
  ASSUME NEW h \in Seq(EventType), NEW d, NEW t \in Seq(Symbol), NEW s \in Symbol,
         Decoded(h, d, t)
  PROVE  Decoded(h, ObserveByte(d, s), Append(t, s))
<1> DEFINE u == Append(t, s)
           X == ObserveByte(d, s)
<1>1. u \in Seq(Symbol)
  BY AppendFacts
<1>2. /\ Body(t) \in Seq(Symbol)
      /\ BomRead(t) => BomRead(u) /\ Body(u) = Append(Body(t), s)
      /\ ~BomRead(t) => /\ Body(t) = t /\ LineEnds(t) = {}
                        /\ u = Bom => Body(u) = <<>>
                        /\ ~IsPrefix(u, Bom) => Body(u) = u
      /\ BomRead(t) <=> ~IsStrictPrefix(t, Bom)
  BY BodyAppend
<1>3. BomRead(u) <=> ~IsStrictPrefix(u, Bom)
  BY <1>1, BodyAppend
<1> HIDE DEF X
<1>4. CASE BomRead(t)
  <2>1. Told(h, d, Body(t))
    BY <1>4 DEF Decoded
  <2>2. d.bomChecked
    BY <2>1 DEF Told
  <2>3. X = Process(d, s)
    BY <2>2 DEF ObserveByte, X
  <2>4. Told(h, Process(d, s), Append(Body(t), s))
    BY <1>2, <2>1, ToldProcess
  <2>5. QED
    BY <1>2, <1>4, <2>3, <2>4 DEF Decoded, X
<1>5. CASE ~BomRead(t)
  <2> DEFINE c == [NewDecoder EXCEPT !.bomChecked = TRUE, !.bomPrefix = <<>>]
  <2>1. h = <<>> /\ d = [NewDecoder EXCEPT !.bomPrefix = t]
    BY <1>5 DEF Decoded
  <2>2. ~d.overflowed /\ ~d.bomChecked /\ d.bomPrefix = t
    BY <2>1 DEF NewDecoder
  <2>3. [d EXCEPT !.bomChecked = TRUE, !.bomPrefix = <<>>] = c /\ [d EXCEPT !.bomPrefix = u] = [NewDecoder EXCEPT !.bomPrefix = u]
    BY <2>1 DEF NewDecoder
  <2>4. X = IF u = Bom THEN c
            ELSE IF IsPrefix(u, Bom) THEN [NewDecoder EXCEPT !.bomPrefix = u]
            ELSE ProcessAll(c, u)
    BY <2>2, <2>3, Zenon DEF ObserveByte, ProcessFirst, ProcessAll, X
  <2>5. Told(<<>>, c, <<>>)
    BY ToldNothing
  <2> HIDE DEF c, u
  <2>6. CASE u = Bom
    <3>1. BomRead(u) /\ Body(u) = <<>> /\ X = c
      BY <1>2, <1>3, <1>5, <2>4, <2>6 DEF IsStrictPrefix
    <3>2. QED
      BY <2>1, <2>5, <3>1 DEF Decoded, X, u
  <2>7. CASE u # Bom /\ IsPrefix(u, Bom)
    <3>1. ~BomRead(u) /\ X = [NewDecoder EXCEPT !.bomPrefix = u]
      BY <1>3, <2>4, <2>7 DEF IsStrictPrefix
    <3>2. QED
      BY <2>1, <3>1 DEF Decoded, X, u
  <2>8. CASE u # Bom /\ ~IsPrefix(u, Bom)
    <3>1. BomRead(u) /\ Body(u) = u /\ X = ProcessAll(c, u)
      BY <1>2, <1>3, <1>5, <2>4, <2>8 DEF IsStrictPrefix
    <3>2. <<>> \in Seq(Symbol) /\ <<>> \in Seq(EventType) /\ <<>> \o u = u
      BY <1>1, EmptySeq, ConcatEmptySeq
    <3>3. Told(<<>>, ProcessAll(c, u), <<>> \o u)
      BY <1>1, <2>5, <3>2, ToldFold
    <3>4. Told(h, X, u)
      BY <2>1, <3>1, <3>2, <3>3
    <3>5. QED
      BY <3>1, <3>4 DEF Decoded, X, u
  <2>9. QED
    BY <2>6, <2>7, <2>8
<1>6. QED
  BY <1>4, <1>5

(* A chunk more; what it makes the decoder hand on joins what was seen. *)
LEMMA DecodedChunk ==
  ASSUME NEW h \in Seq(EventType), NEW d, NEW t \in Seq(Symbol), NEW chunk \in Seq(Symbol),
         Decoded(h, d, t)
  PROVE  LET X == Observe(d, chunk)
         IN  /\ h \o X.out \in Seq(EventType) /\ X.out \in Seq(EventType)
             /\ Decoded(h \o X.out, [X EXCEPT !.out = <<>>], t \o chunk)
             /\ [X EXCEPT !.out = <<>>].overflowed = X.overflowed
             /\ [X EXCEPT !.out = <<>>].out = <<>>
<1> DEFINE n == Len(chunk)
           X == Observe(d, chunk)
           u == t \o chunk
<1>1. PICK f : /\ f[0] = d /\ f[n] = X
               /\ \A k \in 1..n : f[k] = ObserveByte(f[k - 1], chunk[k])
  BY ObserveSteps
<1>2. /\ Thru(t, chunk, 0) = t /\ Thru(t, chunk, n) = u
      /\ \A k \in 0..n : Thru(t, chunk, k) \in Seq(Symbol)
      /\ \A k \in 1..n : Thru(t, chunk, k) = Append(Thru(t, chunk, k - 1), chunk[k])
  BY UptoSteps
<1>3. n \in Nat /\ \A k \in 1..n : chunk[k] \in Symbol
  OBVIOUS
<1> HIDE DEF n, X, u
<1> DEFINE T == {k \in Nat : k <= n /\ ~Decoded(h, f[k], Thru(t, chunk, k))}
<1>4. T = {}
  <2> SUFFICES ASSUME T # {} PROVE FALSE
    OBVIOUS
  <2>1. PICK k \in T : \A m \in T : k <= m
    BY LeastMember
  <2>2. k # 0
    BY <1>1, <1>2
  <2>3. k \in 1..n /\ k - 1 \in Nat /\ k - 1 <= n /\ ~(k <= k - 1) /\ k - 1 \in 0..n
    BY <1>3, <2>2
  <2>4. Decoded(h, f[k - 1], Thru(t, chunk, k - 1))
    BY <2>1, <2>3
  <2>5. Thru(t, chunk, k - 1) \in Seq(Symbol) /\ chunk[k] \in Symbol
    BY <1>2, <1>3, <2>3
  <2>6. Decoded(h, ObserveByte(f[k - 1], chunk[k]), Append(Thru(t, chunk, k - 1), chunk[k]))
    BY <2>4, <2>5, DecodedByte
  <2>7. Decoded(h, f[k], Thru(t, chunk, k))
    BY <1>1, <1>2, <2>3, <2>6
  <2>8. QED
    BY <2>7
<1>5. Decoded(h, X, u)
  <2>1. Decoded(h, f[n], Thru(t, chunk, n))
    BY <1>3, <1>4
  <2>2. QED
    BY <1>1, <1>2, <2>1
<1> DEFINE y == [X EXCEPT !.out = <<>>]
<1>6. CASE BomRead(u)
  <2> DEFINE b == Body(u)
             o == X.out
  <2>1. Told(h, X, b)
    BY <1>5, <1>6 DEF Decoded
  <2> HIDE DEF b
  <2>2. /\ X \in DecoderType /\ X.bomChecked /\ X.bomPrefix = <<>>
        /\ IF X.overflowed THEN IsPrefix(h \o o, EventsOf(b))
           ELSE h \o o = EventsOf(b) /\ Reads(X, b)
    BY <2>1 DEF Told
  <2>3. o \in Seq(EventType) /\ <<>> \in Seq(EventType)
    BY <2>2, EmptySeq DEF DecoderType
  <2>4. /\ y \in DecoderType /\ y.bomChecked /\ y.bomPrefix = <<>> /\ y.overflowed = X.overflowed
        /\ y.out = <<>> /\ y.pendingCr = X.pendingCr /\ y.lineStart = X.lineStart
        /\ y.hasData = X.hasData /\ y.event = X.event /\ y.kind = X.kind
        /\ y.storage = X.storage /\ y.strip = X.strip /\ y.name = X.name
        /\ y.nameOverflow = X.nameOverflow
    BY <2>2, <2>3 DEF DecoderType
  <2> HIDE DEF o, y
  <2>5. h \o o \in Seq(EventType)
    BY <2>3, ConcatProperties
  <2>6. (h \o o) \o <<>> = h \o o
    BY <2>5, ConcatEmptySeq
  <2>7. Reads(X, b) => Reads(y, b)
    <3> SUFFICES ASSUME NEW D \in Seq(Symbol), Relates(X, b, D) PROVE Relates(y, b, D)
      BY DEF Reads
    <3>1. AfterLines(y, Lines(b), D)
      BY <2>4 DEF AfterLines, Relates
    <3>2. Lead(y, D) = Lead(X, D)
      BY <2>4 DEF Lead
    <3>3. InLine(X, Cur(b), D)
      BY DEF Relates
    <3>4. InLine(y, Cur(b), D)
      BY <2>4, <3>2, <3>3 DEF InLine
    <3>5. QED
      BY <2>4, <3>1, <3>4 DEF Relates
  <2>8. Told(h \o o, y, b)
    BY <2>2, <2>4, <2>6, <2>7 DEF Told
  <2>9. Decoded(h \o o, y, u)
    BY <1>6, <2>8 DEF Decoded, b
  <2>10. QED
    BY <2>3, <2>4, <2>5, <2>9 DEF o, y, X, u
<1>7. CASE ~BomRead(u)
  <2>1. h = <<>> /\ X = [NewDecoder EXCEPT !.bomPrefix = u]
    BY <1>5, <1>7 DEF Decoded
  <2>2. X.out = <<>> /\ y = X
    <3>1. X.out = <<>>
      BY <2>1 DEF NewDecoder
    <3>2. u \in Seq(Symbol) /\ <<>> \in Seq(Symbol) /\ <<>> \in Seq(EventType) /\ "none" \in EventNames
      <4>1. n \in 0..n
        BY <1>3
      <4>2. QED
        BY <1>2, <4>1, EmptySeq DEF EventNames
    <3>3. X \in DecoderType
      BY <2>1, <3>2 DEF NewDecoder, DecoderType
    <3>4. [X EXCEPT !.out = X.out] = X
      BY <3>3 DEF DecoderType
    <3>5. QED
      BY <3>1, <3>4
  <2> HIDE DEF y
  <2>3. h \o X.out = h
    BY <2>1, <2>2
  <2>4. Decoded(h \o X.out, y, u) /\ X.out \in Seq(EventType)
    BY <1>5, <2>2, <2>3, EmptySeq
  <2>5. QED
    BY <2>2, <2>3, <2>4 DEF y, X, u
<1>8. QED
  BY <1>6, <1>7

-----------------------------------------------------------------------------
(***************************************************************************)
(* The answer: the events seen and the decoder belong to the text.         *)
(***************************************************************************)
(* What was handed on, and what is kept, once all of the text is read. *)
LEMMA DecodedMeans ==
  ASSUME NEW h \in Seq(EventType), NEW d, NEW t \in Seq(Symbol), Decoded(h, d, t), d.out = <<>>
  PROVE  /\ IF d.overflowed THEN IsPrefix(h, Events(t)) ELSE h = Events(t)
         /\ Events(t) \in Seq(EventType)
         /\ ~d.overflowed /\ AtEventBoundary(d) => EndsBetweenEvents(t)
<1> DEFINE b == Body(t)
<1>1. LF \in Symbol
  BY DEF Symbol
<1>2. b \in Seq(Symbol) /\ (~BomRead(t) => b = t /\ LineEnds(t) = {}) /\ (BomRead(t) <=> ~IsStrictPrefix(t, Bom))
  BY <1>1, BodyAppend
<1>3. Events(t) = EventsOf(b)
  BY EventsAre
<1> HIDE DEF b
<1>4. EventsOf(b) \in Seq(EventType)
  BY <1>1, <1>2, EventsAppend
<1>5. h \o d.out = h
  BY ConcatEmptySeq
<1>6. CASE BomRead(t)
  <2>1. /\ d \in DecoderType
        /\ IF d.overflowed THEN IsPrefix(h, EventsOf(b)) ELSE h = EventsOf(b) /\ Reads(d, b)
    BY <1>5, <1>6 DEF Decoded, Told, b
  <2>2. ASSUME ~d.overflowed, AtEventBoundary(d) PROVE EndsBetweenEvents(t)
    <3>1. PICK D \in Seq(Symbol) : Relates(d, b, D)
      BY <2>1, <2>2 DEF Reads
    <3>2. d.storage = <<>> /\ ~d.hasData /\ d.kind = "field" /\ d.event = "none"
      BY <2>2 DEF AtEventBoundary
    <3>3. Cur(b) \in Seq(Symbol) /\ (Cur(b) = <<>> <=> b = <<>> \/ b[Len(b)] \in Breaks)
      BY <1>1, <1>2, CurAppend
    <3>4. D \o Cur(b) = <<>>
      BY <3>1, <3>2 DEF Relates, InLine
    <3>5. Cur(b) = <<>>
      <4>1. Len(D \o Cur(b)) = Len(D) + Len(Cur(b)) /\ Len(D) \in Nat /\ Len(Cur(b)) \in Nat
        BY <3>3, ConcatProperties
      <4>2. Len(Cur(b)) = 0
        BY <3>4, <4>1
      <4>3. QED
        BY <3>3, <4>2, EmptySeq
    <3>6. FieldValues(Lines(b), <<"data">>) = <<>> /\ NameOf(Lines(b)) = "none"
      BY <3>1, <3>2 DEF Relates, AfterLines, Says
    <3> DEFINE n == Len(b)
               blank == Max({0} \cup Blanks(b))
               E == {j \in LineEnds(b) : j > blank}
    <3>7. n \in Nat /\ LineEnds(b) \subseteq 1..n /\ Blanks(b) \subseteq 1..n
      BY <1>1, <1>2, LineEndsAppend, BlanksAppend
    <3>8. Previous(b, n + 1) = blank
      <4>1. {j \in Blanks(b) : j < n + 1} = Blanks(b)
        BY <3>7
      <4>2. QED
        BY <4>1 DEF Previous
    <3>9. blank \in Int
      <4>1. {0} \cup Blanks(b) \subseteq 0..n /\ {0} \cup Blanks(b) # {}
        BY <3>7
      <4>2. blank \in {0} \cup Blanks(b)
        BY <3>7, <4>1, MaxMember
      <4>3. QED
        BY <4>1, <4>2
    <3> HIDE DEF blank, n
    <3>10. Ends(b, n + 1) = E
      <4>1. \A j \in LineEnds(b) : j \in Int /\ j < n + 1
        BY <3>7
      <4>2. \A j \in LineEnds(b) : blank < j <=> j > blank
        BY <3>9, <4>1
      <4>3. QED
        BY <3>8, <4>1, <4>2 DEF Ends
    <3> HIDE DEF E
    <3>11. Lines(b) = LinesAt(b, E)
      BY <3>10, BlockIs DEF Lines, n
    <3>12. FieldValues(LinesAt(b, E), <<"data">>) = <<>> /\ NameOf(LinesAt(b, E)) = "none"
      BY <3>6, <3>11
    <3>13. b = <<>> \/ Last(b) \in Breaks
      BY <3>3, <3>5 DEF Last
    <3>14. ~IsStrictPrefix(t, Bom)
      BY <1>2, <1>6
    <3>15. QED
      BY <3>12, <3>13, <3>14, Zenon DEF EndsBetweenEvents, LinesAt, E, blank, b
  <2>3. QED
    BY <1>3, <1>4, <2>1, <2>2
<1>7. CASE ~BomRead(t)
  <2>1. h = <<>> /\ d = [NewDecoder EXCEPT !.bomPrefix = t]
    BY <1>7 DEF Decoded
  <2>2. ~d.overflowed /\ ~d.bomChecked
    BY <2>1 DEF NewDecoder
  <2>3. EventsOf(b) = <<>>
    BY <1>2, <1>7, NothingSaid
  <2>4. QED
    BY <1>3, <1>4, <2>1, <2>2, <2>3 DEF AtEventBoundary
<1>8. QED
  BY <1>6, <1>7

-----------------------------------------------------------------------------
SseAnswer == Representation = "text/event-stream"

(* The events seen and the decoder are those of the text so far. *)
DecoderInv ==
  /\ feed \in Feeds /\ text \in Seq(Symbol) /\ seen \in Seq(EventType)
  /\ SseAnswer => Decoded(seen, decoder, text) /\ decoder.out = <<>>

(* Before the first chunk. *)
LEMMA DecoderInit == StreamInit => DecoderInv
<1> SUFFICES ASSUME StreamInit PROVE DecoderInv
  OBVIOUS
<1>1. feed \in Feeds /\ text = <<>> /\ seen = <<>> /\ decoder = NewDecoder
  BY DEF StreamInit
<1>2. <<>> \in Seq(Symbol) /\ <<>> \in Seq(EventType)
  BY EmptySeq
<1>3. ~BomRead(<<>>)
  <2> DEFINE e == <<>>
  <2>1. e \in Seq(Symbol) /\ Len(e) = 0
    BY <1>2
  <2>2. LF \in Symbol
    BY DEF Symbol
  <2> HIDE DEF e
  <2>3. /\ IsPrefix(Bom, e) <=> Len(e) >= 3 /\ e[1] = "ef" /\ e[2] = "bb" /\ e[3] = "bf"
        /\ IsPrefix(e, Bom) <=>
             Len(e) <= 3 /\ (Len(e) >= 1 => e[1] = "ef") /\ (Len(e) >= 2 => e[2] = "bb") /\ (Len(e) >= 3 => e[3] = "bf")
    BY <2>1, BomIs
  <2>4. ~BomRead(e)
    BY <2>1, <2>3 DEF BomRead
  <2>5. QED
    BY <2>4 DEF e
<1>4. NewDecoder = [NewDecoder EXCEPT !.bomPrefix = <<>>] /\ NewDecoder.out = <<>>
  BY DEF NewDecoder
<1>5. Decoded(<<>>, NewDecoder, <<>>)
  BY <1>3, <1>4 DEF Decoded
<1>6. QED
  BY <1>1, <1>2, <1>4, <1>5 DEF DecoderInv

(* A chunk is a sequence of symbols. *)
LEMMA ChunkType ==
  ASSUME feed \in Feeds, NEW chunk \in feed.chunks
  PROVE  chunk \in Seq(Symbol)
<1>1. chunk \in Seq(STRING)
  BY FeedsAssumption
<1>2. STRING \subseteq Symbol
  BY DEF Symbol
<1>3. QED
  BY <1>1, <1>2, SeqMonotonic

(* Every step of an answer keeps the decoder with the text. *)
LEMMA DecoderStep == DecoderInv /\ [StreamNext]_streamVars => DecoderInv'
<1> SUFFICES ASSUME DecoderInv, [StreamNext]_streamVars PROVE DecoderInv'
  OBVIOUS
<1>1. /\ feed \in Feeds /\ text \in Seq(Symbol) /\ seen \in Seq(EventType)
      /\ SseAnswer => Decoded(seen, decoder, text) /\ decoder.out = <<>>
  BY DEF DecoderInv
<1>2. feed' = feed => (SseAnswer' <=> SseAnswer)
  BY DEF SseAnswer, Representation
<1>3. CASE UNCHANGED streamVars \/ Finish
  <2>1. feed' = feed /\ text' = text /\ seen' = seen /\ decoder' = decoder
    BY <1>3 DEF streamVars, Finish
  <2>2. QED
    BY <1>1, <1>2, <2>1 DEF DecoderInv
<1>4. CASE \E chunk \in feed.chunks : ObserveChunk(chunk)
  <2>1. PICK chunk \in feed.chunks : ObserveChunk(chunk)
    BY <1>4
  <2>2. chunk \in Seq(Symbol)
    BY <1>1, ChunkType
  <2>3. feed' = feed /\ text' = text \o chunk
    BY <2>1 DEF ObserveChunk
  <2>4. text' \in Seq(Symbol)
    BY <1>1, <2>2, <2>3, ConcatProperties
  <2>5. CASE SseAnswer
    <3> DEFINE d == Observe(decoder, chunk)
    <3>1. decoder' = [d EXCEPT !.out = <<>>] /\ seen' = seen \o d.out
      BY <2>1, <2>5 DEF ObserveChunk, SseAnswer
    <3>2. Decoded(seen, decoder, text)
      BY <1>1, <2>5
    <3>3. /\ seen \o d.out \in Seq(EventType)
          /\ Decoded(seen \o d.out, [d EXCEPT !.out = <<>>], text \o chunk)
          /\ [d EXCEPT !.out = <<>>].out = <<>>
      BY <1>1, <2>2, <3>2, DecodedChunk
    <3> HIDE DEF d
    <3>4. QED
      BY <1>1, <2>3, <2>4, <3>1, <3>3 DEF DecoderInv
  <2>6. CASE ~SseAnswer
    <3>1. seen' = seen
      <4>1. Representation \in {"application/json", "none", "text/event-stream"}
        BY DEF Representation, ObservableRepresentation, Media
      <4>2. QED
        BY <2>1, <2>6, <4>1 DEF ObserveChunk, SseAnswer
    <3>2. QED
      BY <1>1, <1>2, <2>3, <2>4, <2>6, <3>1 DEF DecoderInv
  <2>7. QED
    BY <2>5, <2>6
<1>5. QED
  BY <1>3, <1>4 DEF StreamNext

(* The decoder stays with the text. *)
THEOREM StreamsDecoder == StreamSpec => []DecoderInv
<1>1. QED
  BY DecoderInit, DecoderStep, PTL DEF StreamSpec

(* SseDecoder::observe: however a stream is cut into chunks, what is       *)
(* dispatched is what the whole text says, in order, and a prefix of it    *)
(* when the storage overflows.                                             *)
THEOREM StreamsDecodesByReference == StreamSpec => []DecodesByReference
<1>1. DecoderInv => DecodesByReference
  BY DecodedMeans DEF DecoderInv, DecodesByReference, SseAnswer
<1>2. QED
  BY <1>1, StreamsDecoder, PTL

-----------------------------------------------------------------------------
(***************************************************************************)
(* The observers: what an event makes of an observer, of its usage and of  *)
(* its completion.                                                         *)
(***************************************************************************)
Families == {"chat", "responses", "messages"}

ErrorClasses == {"none", "unknown", "server", "client", "rate_limit"}

CompletionType ==
  [invalid : BOOLEAN, stopped : BOOLEAN, terminal : BOOLEAN, text : BOOLEAN,
   started : BOOLEAN, open : BOOLEAN, block : Nat]

Tallies == [in : Nat \cup {Absent}, out : Nat \cup {Absent},
            read : Nat \cup {Absent}, created : Nat \cup {Absent}]

ObserverType ==
  [endpoint : Families, cache : BOOLEAN, completion : CompletionType, usage : Tallies,
   invalid : BOOLEAN, terminal : BOOLEAN, completed : BOOLEAN, outputSeen : BOOLEAN,
   error : ErrorClasses]

(* What the assumption on Values says of a value. *)
ValueType(v) == v.usage \in Usages /\ v.response.usage \in Usages /\ v.choices \in Seq(ChatChoices)

(* What parses is one of the values. *)
LEMMA ParsedType == \A data : Parses(data) => ValueType(Parsed(data))
<1> SUFFICES ASSUME NEW data, Parses(data) PROVE ValueType(Parsed(data))
  OBVIOUS
<1>1. PICK k \in Words(data) : Words(data) = {k} /\ data[k] \in DOMAIN Values
  BY DEF Parses
<1>2. (CHOOSE j \in Words(data) : TRUE) = k
  BY <1>1
<1>3. Parsed(data) = Values[data[k]]
  BY <1>2 DEF Parsed
<1>4. QED
  BY <1>1, <1>3, ValuesAssumption DEF ValueType

(* [DONE] is no value. *)
LEMMA DoneUnparsed == \A e : IsDone(e) => ~Parses(e.data)
<1> SUFFICES ASSUME NEW e, IsDone(e), Parses(e.data) PROVE FALSE
  OBVIOUS
<1>1. e.data = <<"[DONE]">>
  BY DEF IsDone
<1>2. PICK k \in Words(e.data) : e.data[k] \in DOMAIN Values
  BY DEF Parses
<1>3. k = 1
  <2>1. k \in DOMAIN <<"[DONE]">>
    BY <1>1, <1>2, Zenon DEF Words
  <2>2. QED
    BY <2>1
<1>4. e.data[1] = <<"[DONE]">>[1]
  BY <1>1
<1>5. <<"[DONE]">>[1] = "[DONE]"
  OBVIOUS
<1>6. QED
  BY <1>2, <1>3, <1>4, <1>5, ValuesAssumption

(* An error has one of these classes. *)
LEMMA ErrorType == \A p, event, v : ResponseError(p, event, v) \in ErrorClasses
<1>1. \A p, s : Classify(p, s) \in ErrorClasses
  BY DEF Classify, ErrorClasses
<1> TAKE p, event, v
<1> DEFINE classes == {Classify(p, s) : s \in v.signals} \ {"none"}
<1>2. classes \subseteq ErrorClasses
  BY <1>1
<1> HIDE DEF classes
<1>3. (\E c \in classes : classes = {c}) => (CHOOSE c \in classes : TRUE) \in classes
  OBVIOUS
<1>4. \/ ResponseError(p, event, v) \in {"none", "unknown"}
      \/ (\E c \in classes : classes = {c}) /\ ResponseError(p, event, v) = CHOOSE c \in classes : TRUE
  BY DEF ResponseError, classes
<1>5. QED
  BY <1>2, <1>3, <1>4 DEF ErrorClasses

-----------------------------------------------------------------------------
(* What no family's observer touches. *)
Keeps(X, o) ==
  /\ X \in ObserverType
  /\ X.endpoint = o.endpoint /\ X.cache = o.cache /\ X.error = o.error
  /\ X.completion = o.completion
  /\ o.invalid => X.invalid

(* Chat. *)
LEMMA ChatKeeps ==
  ASSUME NEW o \in ObserverType, NEW v, ValueType(v)
  PROVE  Keeps(ChatObserve(o, v), o)
<1> DEFINE u == Observed(Reported("chat", v.usage))
<1>1. Counted(v.usage) => u \in Tallies
  BY DEF Counted, Observed, Reported, OrZero, Tallies, Usages, TokenCount, ValueType, Absent, Bad
<1> HIDE DEF u
<1>2. Keeps(o, o) /\ Keeps(Unusable(o), o)
  BY DEF Keeps, Unusable, ObserverType
<1>3. u \in Tallies => Keeps([o EXCEPT !.usage = u], o)
  BY DEF Keeps, ObserverType
<1>4. QED
  BY <1>1, <1>2, <1>3, Zenon DEF ChatObserve, u

(* Responses. *)
LEMMA ResponsesKeeps ==
  ASSUME NEW o \in ObserverType, NEW v, ValueType(v)
  PROVE  Keeps(ResponsesObserve(o, v), o)
<1> DEFINE u == Observed(Reported("responses", v.response.usage))
           completed == v.type = "response.completed"
           ended == [o EXCEPT !.terminal = TRUE, !.completed = completed,
                              !.invalid = @ \/ (o.terminal /\ o.completed # completed)]
           failed == Unusable([o EXCEPT !.terminal = TRUE])
<1>1. Counted(v.response.usage) => u \in Tallies
  BY DEF Counted, Observed, Reported, OrZero, Tallies, Usages, TokenCount, ValueType, Absent, Bad
<1> HIDE DEF u
<1>2. Keeps(o, o) /\ Keeps(failed, o)
  BY DEF Keeps, Unusable, ObserverType
<1>3. Keeps(ended, o)
  <2>1. completed \in BOOLEAN
    OBVIOUS
  <2> HIDE DEF completed
  <2>2. QED
    BY <2>1 DEF Keeps, ObserverType
<1> HIDE DEF ended
<1>4. Keeps(Unusable(ended), o) /\ (u \in Tallies => Keeps([ended EXCEPT !.usage = u], o))
  BY <1>3 DEF Keeps, Unusable, ObserverType
<1>5. \/ ResponsesObserve(o, v) \in {o, failed, Unusable(ended)}
      \/ Counted(v.response.usage) /\ ResponsesObserve(o, v) = [ended EXCEPT !.usage = u]
  BY DEF ResponsesObserve, ended, u, failed, completed
<1>6. QED
  BY <1>1, <1>2, <1>4, <1>5

(* Messages. *)
LEMMA AssignIs ==
  ASSUME NEW o \in ObserverType, NEW usage \in Usages
  PROVE  LET X == AssignUsage(o, usage)
         IN  /\ X = [o EXCEPT !.usage = X.usage, !.invalid = X.invalid]
             /\ Keeps(X, o) /\ X.terminal = o.terminal /\ X.outputSeen = o.outputSeen
             /\ \A k \in Counts : X.usage[k] = IF usage[k] >= 0 THEN usage[k] ELSE o.usage[k]
             /\ X.invalid <=> \/ o.invalid
                              \/ \E k \in Counts : usage[k] = Bad \/ usage[k] \in 0..(o.usage[k] - 1)
<1> DEFINE w == [k \in Counts |-> IF usage[k] >= 0 THEN usage[k] ELSE o.usage[k]]
           b == o.invalid \/ \E k \in Counts : usage[k] = Bad \/ usage[k] \in 0..(o.usage[k] - 1)
<1>1. w \in Tallies
  <2>1. \A k \in Counts : usage[k] \in TokenCount /\ o.usage[k] \in Nat \cup {Absent}
    BY DEF Counts, Usages, ObserverType, Tallies
  <2>2. \A k \in Counts : w[k] \in Nat \cup {Absent}
    BY <2>1 DEF TokenCount, Absent, Bad
  <2>3. w = [in |-> w["in"], out |-> w["out"], read |-> w["read"], created |-> w["created"]]
    BY DEF Counts
  <2> HIDE DEF w
  <2>4. QED
    BY <2>2, <2>3 DEF Counts, Tallies
<1>2. b \in BOOLEAN
  OBVIOUS
<1>3. AssignUsage(o, usage) = [o EXCEPT !.usage = w, !.invalid = b]
  BY DEF AssignUsage, ObserverType
<1>4. \A k \in Counts : w[k] = IF usage[k] >= 0 THEN usage[k] ELSE o.usage[k]
  OBVIOUS
<1> HIDE DEF w
<1>5. b <=> \/ o.invalid
            \/ \E k \in Counts : usage[k] = Bad \/ usage[k] \in 0..(o.usage[k] - 1)
  OBVIOUS
<1> HIDE DEF b
<1> DEFINE X == [o EXCEPT !.usage = w, !.invalid = b]
<1>6. X.usage = w /\ X.invalid = b /\ X.terminal = o.terminal /\ X.outputSeen = o.outputSeen
      /\ X = [o EXCEPT !.usage = X.usage, !.invalid = X.invalid]
  BY DEF ObserverType
<1>7. Keeps(X, o)
  BY <1>1, <1>2, <1>5 DEF Keeps, ObserverType
<1> HIDE DEF X
<1>8. QED
  BY <1>3, <1>4, <1>5, <1>6, <1>7 DEF X

(* Messages, whole. *)
LEMMA MessagesKeeps ==
  ASSUME NEW o \in ObserverType, NEW event, NEW v, ValueType(v)
  PROVE  Keeps(MessagesObserve(o, event, v), o)
<1> DEFINE a == AssignUsage(o, v.usage)
           kind == Kind(event, v)
           b == o.outputSeen \/ (kind = "message_delta" /\ v.usage.out # Absent /\ a.usage.out # Absent)
<1>1. Keeps(a, o) /\ a.outputSeen = o.outputSeen
  BY AssignIs DEF ValueType
<1> HIDE DEF a
<1>2. b \in BOOLEAN
  BY DEF ObserverType
<1> HIDE DEF b
<1>3. Keeps([a EXCEPT !.outputSeen = b], o)
  BY <1>1, <1>2 DEF Keeps, ObserverType
<1>4. Keeps(o, o) /\ Keeps(Unusable(o), o) /\ Keeps([o EXCEPT !.terminal = TRUE], o)
  BY DEF Keeps, Unusable, ObserverType
<1>5. MessagesObserve(o, event, v) \in
        {o, Unusable(o), [o EXCEPT !.terminal = TRUE], [a EXCEPT !.outputSeen = b]}
  <2>1. [a EXCEPT !.outputSeen = \/ @ \/ /\ kind = "message_delta"
                                         /\ v.usage.out # Absent /\ a.usage.out # Absent]
        = [a EXCEPT !.outputSeen = b]
    BY <1>1 DEF b
  <2> HIDE DEF kind
  <2>2. QED
    BY <2>1 DEF MessagesObserve, a, kind
<1>6. QED
  BY <1>3, <1>4, <1>5

(* StreamCompletion::chat_event: an answer of one choice, which ends once. *)
LEMMA ChatCompletionIs ==
  ASSUME NEW c \in CompletionType, NEW v
  PROVE  LET X == ChatCompletion(c, v)
         IN  /\ X \in CompletionType /\ (c.invalid => X.invalid) /\ X.terminal = c.terminal
             /\ ~X.invalid =>
                  \/ v.choices = <<>> /\ X = c
                  \/ /\ Len(v.choices) = 1 /\ ~c.stopped
                     /\ X.stopped <=> v.choices[1].finish = "stop"
<1> DEFINE choice == v.choices[1]
           ends == choice.finish # "null"
           i == c.invalid \/ choice.index \notin {Absent, 0} \/ choice.delta \in {"tool", "refusal"}
                \/ (ends /\ choice.finish # "stop")
           t == c.text \/ choice.delta \in {"empty", "text"}
           s == IF ends THEN choice.finish = "stop" ELSE c.stopped
           y == [c EXCEPT !.invalid = i, !.text = t, !.stopped = s]
<1>1. i \in BOOLEAN /\ t \in BOOLEAN /\ s \in BOOLEAN
  BY DEF CompletionType
<1>2. (c.invalid => i) /\ (~c.stopped => (s <=> choice.finish = "stop"))
  OBVIOUS
<1>3. \/ ChatCompletion(c, v) = Invalidate(c)
      \/ v.choices = <<>> /\ ChatCompletion(c, v) = c
      \/ Len(v.choices) = 1 /\ ~c.stopped /\ ChatCompletion(c, v) = y
  BY DEF ChatCompletion
<1> HIDE DEF i, t, s
<1>4. y \in CompletionType /\ y.invalid = i /\ y.stopped = s /\ y.terminal = c.terminal
  BY <1>1 DEF CompletionType
<1> HIDE DEF y
<1>5. /\ Invalidate(c) \in CompletionType /\ Invalidate(c).invalid
      /\ Invalidate(c).terminal = c.terminal
  BY DEF Invalidate, CompletionType
<1>6. QED
  BY <1>1, <1>2, <1>3, <1>4, <1>5

(* StreamCompletion::responses_event *)
LEMMA ResponsesCompletionIs ==
  ASSUME NEW c \in CompletionType, NEW v
  PROVE  LET X == ResponsesCompletion(c, v)
         IN  /\ X \in CompletionType /\ (c.invalid => X.invalid)
             /\ ~X.invalid =>
                  \/ /\ v.type = "response.completed"
                     /\ X.terminal /\ (X.stopped <=> CompleteResponse(v.response))
                  \/ /\ v.type \notin {"response.completed", "response.incomplete"}
                     /\ X.terminal = c.terminal /\ X.stopped = c.stopped
<1> DEFINE s == CompleteResponse(v.response)
           t == c.text \/ CompleteResponse(v.response)
           i == c.invalid \/ ~v.shape
           y == [c EXCEPT !.stopped = s, !.terminal = TRUE, !.text = t]
           z == [c EXCEPT !.invalid = i]
<1>1. s \in BOOLEAN /\ t \in BOOLEAN /\ i \in BOOLEAN
  BY DEF CompleteResponse
<1>2. (c.invalid => i) /\ (s <=> CompleteResponse(v.response))
  OBVIOUS
<1>3. \/ v.type = "response.completed" /\ ResponsesCompletion(c, v) = y
      \/ /\ v.type \notin {"response.completed", "response.incomplete"}
         /\ ResponsesCompletion(c, v) = z
      \/ ResponsesCompletion(c, v) = Invalidate(c)
  <2> HIDE DEF s
  <2>1. v.type = "response.completed" => ResponsesCompletion(c, v) = y
    BY DEF ResponsesCompletion, s
  <2>2. ResponsesCompletion(c, v) \in {y, z, Invalidate(c)}
    BY DEF ResponsesCompletion, s
  <2>3. v.type = "response.incomplete" => ResponsesCompletion(c, v) = Invalidate(c)
    BY DEF ResponsesCompletion
  <2>4. v.type # "response.completed" => ResponsesCompletion(c, v) \in {z, Invalidate(c)}
    BY DEF ResponsesCompletion
  <2> HIDE DEF y, z
  <2>5. QED
    BY <2>1, <2>3, <2>4
<1> HIDE DEF s, t, i
<1>4. /\ y \in CompletionType /\ y.invalid = c.invalid /\ y.stopped = s /\ y.terminal = TRUE
      /\ z \in CompletionType /\ z.invalid = i /\ z.stopped = c.stopped /\ z.terminal = c.terminal
  BY <1>1 DEF CompletionType
<1> HIDE DEF y, z
<1>5. Invalidate(c) \in CompletionType /\ Invalidate(c).invalid
  BY DEF Invalidate, CompletionType
<1>6. QED
  BY <1>1, <1>2, <1>3, <1>4, <1>5

(* StreamCompletion::messages_event *)
LEMMA MessagesCompletionIs ==
  ASSUME NEW c \in CompletionType, NEW event, NEW v
  PROVE  LET X == MessagesCompletion(c, event, v)
             kind == Kind(event, v)
         IN  /\ X \in CompletionType /\ (c.invalid => X.invalid)
             /\ ~X.invalid =>
                  \/ kind = "message_stop" /\ X.terminal /\ X.stopped = c.stopped
                  \/ /\ kind = "message_delta" /\ ~c.stopped /\ X.stopped /\ X.terminal = c.terminal
                     /\ v.stop \in {"end_turn", "stop_sequence"}
                  \/ /\ kind \notin {"message_stop", "message_delta"}
                     /\ X.terminal = c.terminal /\ X.stopped = c.stopped
<1> DEFINE kind == Kind(event, v)
           X == MessagesCompletion(c, event, v)
           late == c.stopped /\ kind # "message_stop"
           here == c.started /\ c.open /\ v.index = c.block
           stops == v.stop \in {"end_turn", "stop_sequence"}
           i1 == c.invalid \/ late \/ c.started \/ ~v.shape
           i2 == c.invalid \/ late \/ ~v.shape \/ ~c.started \/ c.open \/ v.index # c.block
           t == c.text \/ v.shape
           i3 == c.invalid \/ late \/ ~here \/ ~v.shape
           i4 == c.invalid \/ late \/ ~here
           i5 == c.invalid \/ late \/ ~c.started \/ c.open \/ ~stops
           i6 == c.invalid \/ ~c.started \/ ~c.stopped \/ c.open
           i7 == c.invalid \/ late
           x1 == [c EXCEPT !.invalid = i1, !.started = TRUE]
           x2 == [c EXCEPT !.invalid = i2, !.open = TRUE, !.text = t]
           x3 == [c EXCEPT !.invalid = i3, !.text = t]
           next == c.block + 1
           x4 == [c EXCEPT !.invalid = i4, !.open = FALSE, !.block = next]
           x5 == [c EXCEPT !.invalid = i5, !.stopped = stops]
           x6 == [c EXCEPT !.invalid = i6, !.terminal = TRUE]
           x7 == [c EXCEPT !.invalid = i7]
<1>1. /\ i1 \in BOOLEAN /\ i2 \in BOOLEAN /\ i3 \in BOOLEAN /\ i4 \in BOOLEAN /\ i5 \in BOOLEAN
      /\ i6 \in BOOLEAN /\ i7 \in BOOLEAN /\ t \in BOOLEAN /\ stops \in BOOLEAN
      /\ next \in Nat
  BY DEF CompletionType
<1>2. /\ c.invalid => i1 /\ i2 /\ i3 /\ i4 /\ i5 /\ i6 /\ i7
      /\ ~i5 /\ kind = "message_delta" => ~c.stopped /\ stops
      /\ stops <=> v.stop \in {"end_turn", "stop_sequence"}
  OBVIOUS
<1>3. /\ kind = "message_start" => X = x1
      /\ kind = "content_block_start" => X = x2
      /\ kind = "content_block_delta" => X = x3
      /\ kind = "content_block_stop" => X = x4
      /\ kind = "message_delta" => X = x5
      /\ kind = "message_stop" => X = x6
      /\ kind = "ping" => X = x7
      /\ kind \notin {"message_start", "content_block_start", "content_block_delta", "content_block_stop",
                      "message_delta", "message_stop", "ping"} => X = Invalidate(c)
  <2> HIDE DEF kind
  <2>1. QED
    BY DEF MessagesCompletion, kind
<1> HIDE DEF i1, i2, i3, i4, i5, i6, i7, t, stops, next, kind, X
<1>4. /\ x1 \in CompletionType /\ x1.invalid = i1 /\ x1.stopped = c.stopped /\ x1.terminal = c.terminal
      /\ x2 \in CompletionType /\ x2.invalid = i2 /\ x2.stopped = c.stopped /\ x2.terminal = c.terminal
      /\ x3 \in CompletionType /\ x3.invalid = i3 /\ x3.stopped = c.stopped /\ x3.terminal = c.terminal
      /\ x4 \in CompletionType /\ x4.invalid = i4 /\ x4.stopped = c.stopped /\ x4.terminal = c.terminal
  BY <1>1 DEF CompletionType
<1>5. /\ x5 \in CompletionType /\ x5.invalid = i5 /\ x5.stopped = stops /\ x5.terminal = c.terminal
      /\ x6 \in CompletionType /\ x6.invalid = i6 /\ x6.stopped = c.stopped /\ x6.terminal = TRUE
      /\ x7 \in CompletionType /\ x7.invalid = i7 /\ x7.stopped = c.stopped /\ x7.terminal = c.terminal
  BY <1>1 DEF CompletionType
<1>6. Invalidate(c) \in CompletionType /\ Invalidate(c).invalid
  BY DEF Invalidate, CompletionType
<1> HIDE DEF x1, x2, x3, x4, x5, x6, x7
<1>7. QED
  BY <1>1, <1>2, <1>3, <1>4, <1>5, <1>6 DEF X, kind

(* A completion stays one, and an invalid one stays invalid. *)
LEMMA CompletionKeeps ==
  ASSUME NEW p \in Families, NEW c \in CompletionType, NEW event, NEW v
  PROVE  LET X == Completion(p, c, event, v) IN X \in CompletionType /\ (c.invalid => X.invalid)
<1>1. Invalidate(c) \in CompletionType /\ Invalidate(c).invalid
  BY DEF Invalidate, CompletionType
<1>2. QED
  BY <1>1, ChatCompletionIs, ResponsesCompletionIs, MessagesCompletionIs DEF Completion, Families

(* The family's part of an observer. *)
Family(o, event, v) ==
  CASE o.endpoint = "chat" -> ChatObserve(o, v)
    [] o.endpoint = "responses" -> ResponsesObserve(o, v)
    [] o.endpoint = "messages" -> MessagesObserve(o, event, v)

(* What the completion was given before. *)
Seeing(o, event, v) ==
  IF o.cache THEN [o EXCEPT !.completion = Completion(o.endpoint, @, event, v)] ELSE o

(* A family's observer and the completion change apart from each other. *)
LEMMA FamilyIs ==
  ASSUME NEW o \in ObserverType, NEW event, NEW v, ValueType(v)
  PROVE  LET X == FamilyObserve(o, event, v)
             y == Seeing(o, event, v)
         IN  /\ X = Family(y, event, v) /\ Keeps(X, y)
             /\ y \in ObserverType /\ y = [o EXCEPT !.completion = y.completion]
             /\ y.completion = IF o.cache THEN Completion(o.endpoint, o.completion, event, v)
                               ELSE o.completion
             /\ X.completion = y.completion
             /\ X.endpoint = o.endpoint /\ X.cache = o.cache /\ X.error = o.error
             /\ X \in ObserverType
             /\ o.invalid => X.invalid
             /\ o.completion.invalid => X.completion.invalid
<1> DEFINE y == Seeing(o, event, v)
           c == Completion(o.endpoint, o.completion, event, v)
<1>1. c \in CompletionType /\ (o.completion.invalid => c.invalid)
  BY CompletionKeeps DEF ObserverType
<1>2. y = IF o.cache THEN [o EXCEPT !.completion = c] ELSE o
  BY DEF Seeing
<1> HIDE DEF c
<1>3. /\ y \in ObserverType /\ y = [o EXCEPT !.completion = y.completion]
      /\ y.completion = IF o.cache THEN c ELSE o.completion
      /\ y.endpoint = o.endpoint /\ y.cache = o.cache /\ y.error = o.error /\ y.invalid = o.invalid
      /\ o.completion.invalid => y.completion.invalid
  <2> HIDE DEF y
  <2>1. CASE o.cache
    BY <1>1, <1>2, <2>1 DEF ObserverType
  <2>2. CASE ~o.cache
    BY <1>2, <2>2 DEF ObserverType
  <2>3. QED
    BY <2>1, <2>2
<1>4. FamilyObserve(o, event, v) = Family(y, event, v)
  <2>1. FamilyObserve(o, event, v) =
          CASE o.endpoint = "chat" -> ChatObserve(y, v)
            [] o.endpoint = "responses" -> ResponsesObserve(y, v)
            [] o.endpoint = "messages" -> MessagesObserve(y, event, v)
    BY DEF FamilyObserve, Seeing
  <2> HIDE DEF y
  <2>2. QED
    BY <1>3, <2>1 DEF Family
<1> HIDE DEF y
<1>5. Keeps(Family(y, event, v), y)
  <2>1. /\ Keeps(ChatObserve(y, v), y) /\ Keeps(ResponsesObserve(y, v), y)
        /\ Keeps(MessagesObserve(y, event, v), y)
    BY <1>3, ChatKeeps, ResponsesKeeps, MessagesKeeps
  <2>2. y.endpoint \in {"chat", "responses", "messages"}
    BY <1>3 DEF ObserverType, Families
  <2>3. QED
    BY <2>1, <2>2 DEF Family
<1>6. QED
  BY <1>3, <1>4, <1>5 DEF Keeps, y, c

-----------------------------------------------------------------------------
(* The error an event carries. *)
ErrorAt(p, e) ==
  IF Parses(e.data) THEN ResponseError(p, e.event, Parsed(e.data))
  ELSE IF e.event = "error" THEN "unknown" ELSE "none"

(* What an observer of a value starts from. *)
Struck(o, e) ==
  IF ErrorAt(o.endpoint, e) = "none" THEN o
  ELSE MarkInvalid(FirstError(o, ErrorAt(o.endpoint, e)))

(* An event with an error invalidates what was observed. *)
LEMMA StruckIs ==
  ASSUME NEW o \in ObserverType, NEW e
  PROVE  LET X == Struck(o, e)
         IN  /\ X \in ObserverType /\ X.endpoint = o.endpoint /\ X.cache = o.cache
             /\ X.error = IF o.error = "none" THEN ErrorAt(o.endpoint, e) ELSE o.error
             /\ o.invalid => X.invalid
             /\ o.completion.invalid => X.completion.invalid
             /\ IF ErrorAt(o.endpoint, e) = "none" THEN X = o ELSE X.invalid /\ X.completion.invalid
<1> DEFINE error == ErrorAt(o.endpoint, e)
<1>1. error \in ErrorClasses
  BY ErrorType DEF ErrorAt, ErrorClasses
<1>2. Struck(o, e) = IF error = "none" THEN o ELSE MarkInvalid(FirstError(o, error))
  BY DEF Struck
<1> HIDE DEF error
<1> DEFINE y == FirstError(o, error)
<1>3. /\ y \in ObserverType /\ y.endpoint = o.endpoint /\ y.cache = o.cache
      /\ y.error = IF o.error = "none" THEN error ELSE o.error
  BY <1>1 DEF FirstError, ObserverType
<1> HIDE DEF y
<1> DEFINE z == MarkInvalid(y)
<1>4. /\ z \in ObserverType /\ z.endpoint = y.endpoint /\ z.cache = y.cache /\ z.error = y.error
      /\ z.invalid /\ z.completion.invalid
  BY <1>3 DEF MarkInvalid, Invalidate, ObserverType, CompletionType
<1> HIDE DEF z
<1>5. CASE error = "none"
  <2>1. Struck(o, e) = o
    BY <1>2, <1>5
  <2>2. QED
    BY <1>5, <2>1 DEF error
<1>6. CASE error # "none"
  <2>1. Struck(o, e) = z
    BY <1>2, <1>6 DEF z, y
  <2>2. QED
    BY <1>3, <1>4, <1>6, <2>1 DEF error
<1>7. QED
  BY <1>5, <1>6

(* EndpointObserver::observe, by the kind of event. *)
LEMMA EventIs ==
  ASSUME NEW o \in ObserverType, NEW e
  PROVE  LET X == ObserveEvent(o, e)
             p == o.endpoint
         IN  /\ Parses(e.data) => /\ X = FamilyObserve(Struck(o, e), e.event, Parsed(e.data))
                                  /\ ~IsDone(e) /\ ValueType(Parsed(e.data))
             /\ ~Parses(e.data) /\ ~(p = "chat" /\ IsDone(e)) =>
                  X.invalid /\ X.completion.invalid
             /\ p = "chat" /\ IsDone(e) =>
                  /\ ErrorAt(p, e) = "none"
                  /\ X = [o EXCEPT !.terminal = TRUE, !.completion = Done(@)]
             /\ X \in ObserverType /\ X.endpoint = p /\ X.cache = o.cache
             /\ X.error = IF o.error = "none" THEN ErrorAt(p, e) ELSE o.error
             /\ o.invalid => X.invalid
             /\ o.completion.invalid => X.completion.invalid
             /\ ErrorAt(p, e) # "none" => X.invalid /\ X.completion.invalid
<1> DEFINE X == ObserveEvent(o, e)
           p == o.endpoint
           error == ErrorAt(p, e)
           Same(y) ==
             /\ y \in ObserverType /\ y.endpoint = p /\ y.cache = o.cache
             /\ y.error = IF o.error = "none" THEN error ELSE o.error
             /\ o.invalid => y.invalid
             /\ o.completion.invalid => y.completion.invalid
             /\ error # "none" => y.invalid /\ y.completion.invalid
<1>1. IsDone(e) => ~Parses(e.data)
  BY DoneUnparsed
<1>2. CASE Parses(e.data)
  <2>1. ~IsDone(e) /\ ValueType(Parsed(e.data))
    BY <1>1, <1>2, ParsedType
  <2>2. X = FamilyObserve(Struck(o, e), e.event, Parsed(e.data))
    BY <1>2, <2>1 DEF ObserveEvent, ObserveValue, Struck, ErrorAt
  <2> DEFINE s == Struck(o, e)
  <2>3. /\ s \in ObserverType /\ s.endpoint = p /\ s.cache = o.cache
        /\ s.error = IF o.error = "none" THEN error ELSE o.error
        /\ o.invalid => s.invalid
        /\ o.completion.invalid => s.completion.invalid
        /\ IF error = "none" THEN s = o ELSE s.invalid /\ s.completion.invalid
    BY StruckIs
  <2> HIDE DEF s
  <2>4. Same(X)
    <3> HIDE DEF X, p, error
    <3>1. /\ X.endpoint = s.endpoint /\ X.cache = s.cache /\ X.error = s.error
          /\ X \in ObserverType
          /\ s.invalid => X.invalid
          /\ s.completion.invalid => X.completion.invalid
      BY <2>1, <2>2, <2>3, FamilyIs DEF s
    <3>2. QED
      BY <2>3, <3>1
  <2> HIDE DEF X, error
  <2>5. QED
    BY <1>2, <2>1, <2>2, <2>4 DEF X, error
<1>3. CASE ~Parses(e.data) /\ IsDone(e) /\ p = "chat"
  <2>1. X = [o EXCEPT !.terminal = TRUE, !.completion = Done(@)]
    BY <1>3 DEF ObserveEvent, ObserveDone
  <2>2. error = "none"
    BY <1>3 DEF ErrorAt, IsDone
  <2> HIDE DEF error
  <2> DEFINE d == Done(o.completion)
  <2>3. d \in CompletionType /\ (o.completion.invalid => d.invalid)
    BY DEF Done, ObserverType, CompletionType
  <2>4. X = [o EXCEPT !.terminal = TRUE, !.completion = d]
    BY <2>1
  <2> HIDE DEF d, X
  <2>5. Same(X)
    BY <2>2, <2>3, <2>4 DEF ObserverType
  <2>6. QED
    BY <1>3, <2>1, <2>2, <2>5 DEF X, error
<1>4. CASE ~Parses(e.data) /\ ~(IsDone(e) /\ p = "chat")
  <2>1. error = IF e.event = "error" THEN "unknown" ELSE "none"
    BY <1>4 DEF ErrorAt
  <2> DEFINE y == FirstError(o, "unknown")
  <2>2. /\ y \in ObserverType /\ y.endpoint = p /\ y.cache = o.cache
        /\ y.error = IF o.error = "none" THEN "unknown" ELSE o.error
    BY DEF FirstError, ObserverType, ErrorClasses
  <2> HIDE DEF y
  <2>3. X = MarkInvalid(IF e.event = "error" THEN y ELSE o)
    <3>1. CASE IsDone(e)
      BY <1>4, <3>1 DEF ObserveEvent, ObserveDone, IsDone
    <3>2. CASE ~IsDone(e)
      BY <1>4, <3>2 DEF ObserveEvent, ObserveUnparsed, y
    <3>3. QED
      BY <3>1, <3>2
  <2>4. ASSUME NEW z \in ObserverType
        PROVE  /\ MarkInvalid(z) \in ObserverType /\ MarkInvalid(z).endpoint = z.endpoint
               /\ MarkInvalid(z).cache = z.cache /\ MarkInvalid(z).error = z.error
               /\ MarkInvalid(z).invalid /\ MarkInvalid(z).completion.invalid
    BY DEF MarkInvalid, Invalidate, ObserverType, CompletionType
  <2> HIDE DEF X, error, p
  <2>5. Same(X) /\ X.invalid /\ X.completion.invalid
    <3>1. CASE e.event = "error"
      BY <2>1, <2>2, <2>3, <2>4, <3>1
    <3>2. CASE e.event # "error"
      BY <2>1, <2>3, <2>4, <3>2 DEF p
    <3>3. QED
      BY <3>1, <3>2
  <2>6. QED
    BY <1>4, <2>5 DEF X, p, error
<1>5. QED
  BY <1>2, <1>3, <1>4

(* What the usage of a family that does not count its cache may be. *)
Known(o) ==
  /\ o.endpoint # "messages" =>
       /\ o.usage # NoUsage => o.usage.in # Absent /\ o.usage.out # Absent
       /\ o.usage.created \in {0, Absent}
  /\ o.outputSeen => o.usage.out # Absent

(* b is a with the counts of r, none of which is lower. *)
Grows(a, b, r) ==
  \A k \in Counts :
     /\ OrZero(b[k]) >= OrZero(a[k]) /\ OrZero(b[k]) >= r[k]
     /\ OrZero(b[k]) = OrZero(a[k]) \/ OrZero(b[k]) = r[k]

(* Nothing new. *)
LEMMA GrowsNot == \A a \in Tallies : Grows(a, a, NoUsage)
<1> TAKE a \in Tallies
<1>1. \A k \in Counts : a[k] \in Nat \cup {-1} /\ NoUsage[k] = -1
  BY DEF Tallies, Counts, NoUsage, Absent
<1>2. QED
  BY <1>1 DEF Grows, OrZero, Absent

(* Counts that are read and do not fall. *)
LEMMA GrowsBy ==
  ASSUME NEW a \in Tallies, NEW usage \in Usages, NEW p \in {"chat", "responses"}, Counted(usage),
         a.created \in {0, Absent}, ~Falls(a, Observed(Reported(p, usage)))
  PROVE  LET u == Observed(Reported(p, usage))
         IN  /\ u \in Tallies /\ Grows(a, u, Reported(p, usage))
             /\ u.in # Absent /\ u.out # Absent /\ u.created = 0
<1> DEFINE r == Reported(p, usage)
           u == Observed(r)
<1>1. /\ r.in = usage.in /\ r.out = usage.out /\ r.read = usage.read /\ r.created = -1
  BY DEF Reported, Usages, Absent
<1>2. /\ usage.in \in Nat /\ usage.out \in Nat /\ usage.read \in Nat \cup {-1}
  BY DEF Counted, Usages, TokenCount, Absent, Bad
<1> HIDE DEF r
<1>3. /\ u.in = usage.in /\ u.out = usage.out /\ u.created = 0
      /\ u.read = IF usage.read = -1 THEN 0 ELSE usage.read
      /\ u \in Tallies
  BY <1>1, <1>2 DEF Observed, OrZero, Tallies, Absent
<1> HIDE DEF u
<1>4. /\ a.in \in Nat \cup {-1} /\ a.out \in Nat \cup {-1} /\ a.read \in Nat \cup {-1}
      /\ a.created \in {0, -1}
  BY DEF Tallies, Absent
<1>5. \/ a.in = -1 /\ a.out = -1 /\ a.read = -1
      \/ u.in >= a.in /\ u.out >= a.out /\ u.read >= a.read
  <2>1. ~Falls(a, u)
    BY DEF u, r
  <2>2. CASE a = NoUsage
    BY <2>2 DEF NoUsage, Absent
  <2>3. CASE a # NoUsage
    BY <1>2, <1>3, <1>4, <2>1, <2>3 DEF Falls
  <2>4. QED
    BY <2>2, <2>3
<1>6. Grows(a, u, r)
  <2>1. /\ OrZero(u["in"]) >= OrZero(a["in"]) /\ OrZero(u["in"]) = r["in"]
        /\ OrZero(u["out"]) >= OrZero(a["out"]) /\ OrZero(u["out"]) = r["out"]
    BY <1>1, <1>2, <1>3, <1>4, <1>5 DEF OrZero, Absent
  <2>2. /\ OrZero(u["read"]) >= OrZero(a["read"]) /\ OrZero(u["read"]) >= r["read"]
        /\ OrZero(u["read"]) = OrZero(a["read"]) \/ OrZero(u["read"]) = r["read"]
    BY <1>1, <1>2, <1>3, <1>4, <1>5 DEF OrZero, Absent
  <2>3. /\ OrZero(u["created"]) >= OrZero(a["created"]) /\ OrZero(u["created"]) >= r["created"]
        /\ OrZero(u["created"]) = OrZero(a["created"])
    BY <1>1, <1>3, <1>4 DEF OrZero, Absent
  <2>4. OrZero(u["in"]) >= r["in"] /\ OrZero(u["out"]) >= r["out"]
    BY <1>1, <1>2, <2>1
  <2>5. QED
    BY <2>1, <2>2, <2>3, <2>4 DEF Grows, Counts
<1>7. QED
  BY <1>2, <1>3, <1>6 DEF u, r, Absent

-----------------------------------------------------------------------------
(* Terminal and ReportOf of an event that parses. *)
Over(p, event, v) ==
  \/ p = "responses" /\ v.type \in {"response.completed", "response.incomplete"}
  \/ p = "messages" /\ Kind(event, v) = "message_stop"

ReportIn(p, event, v) ==
  CASE p = "chat" ->
         IF v.hasUsage /\ v.listed /\ v.choices = <<>> THEN Reported("chat", v.usage) ELSE NoUsage
    [] p = "responses" ->
         IF Over(p, event, v) THEN Reported("responses", v.response.usage) ELSE NoUsage
    [] p = "messages" ->
         IF v.hasUsage /\ Kind(event, v) \in {"message_start", "message_delta"} THEN v.usage ELSE NoUsage

(* x counts what the value reports, and ends when it ends the answer. *)
Tells(X, o, event, v) ==
  ~X.invalid =>
    /\ Known(X)
    /\ Grows(o.usage, X.usage, ReportIn(o.endpoint, event, v))
    /\ X.terminal => o.terminal \/ Over(o.endpoint, event, v)

(* ChatObserver *)
LEMMA ChatTells ==
  ASSUME NEW o \in ObserverType, NEW event, NEW v, ValueType(v), Known(o), o.endpoint = "chat"
  PROVE  Tells(ChatObserve(o, v), o, event, v)
<1> DEFINE X == ChatObserve(o, v)
           r == Reported("chat", v.usage)
           u == Observed(r)
<1> SUFFICES ASSUME ~X.invalid
             PROVE  /\ Known(X) /\ Grows(o.usage, X.usage, ReportIn("chat", event, v))
                    /\ X.terminal => o.terminal
  BY DEF Tells
<1>1. Unusable(o).invalid
  BY DEF Unusable, ObserverType
<1>2. \/ ~(v.hasUsage /\ v.listed /\ v.choices = <<>>) /\ X = o
      \/ /\ v.hasUsage /\ v.listed /\ v.choices = <<>>
         /\ Counted(v.usage) /\ ~Falls(o.usage, u) /\ X = [o EXCEPT !.usage = u]
  <2> HIDE DEF u
  <2>1. X \in {Unusable(o), o, [o EXCEPT !.usage = u]}
    BY DEF ChatObserve, u
  <2>2. X # Unusable(o)
    BY <1>1
  <2>3. \/ X = Unusable(o)
        \/ ~(v.hasUsage /\ v.listed /\ v.choices = <<>>) /\ X = o
        \/ /\ v.hasUsage /\ v.listed /\ v.choices = <<>>
           /\ Counted(v.usage) /\ ~Falls(o.usage, u) /\ X = [o EXCEPT !.usage = u]
    BY DEF ChatObserve, u
  <2>4. QED
    BY <2>2, <2>3
<1> HIDE DEF X, u
<1>3. CASE ~(v.hasUsage /\ v.listed /\ v.choices = <<>>) /\ X = o
  <2>1. ReportIn("chat", event, v) = NoUsage
    BY <1>3 DEF ReportIn
  <2>2. Grows(o.usage, o.usage, NoUsage)
    BY GrowsNot DEF ObserverType
  <2>3. QED
    BY <1>3, <2>1, <2>2
<1>4. CASE /\ v.hasUsage /\ v.listed /\ v.choices = <<>>
           /\ Counted(v.usage) /\ ~Falls(o.usage, u) /\ X = [o EXCEPT !.usage = u]
  <2>1. ReportIn("chat", event, v) = r
    BY <1>4 DEF ReportIn
  <2>2. o.usage \in Tallies /\ v.usage \in Usages /\ o.usage.created \in {0, Absent}
    BY DEF ObserverType, ValueType, Known
  <2>3. u \in Tallies /\ Grows(o.usage, u, r) /\ u.in # Absent /\ u.out # Absent /\ u.created = 0
    BY <1>4, <2>2, GrowsBy DEF u
  <2>4. X.usage = u /\ X.terminal = o.terminal /\ X.endpoint = "chat"
    BY <1>4 DEF ObserverType
  <2>5. QED
    BY <2>1, <2>3, <2>4 DEF Known
<1>5. QED
  BY <1>2, <1>3, <1>4

(* ResponsesObserver *)
LEMMA ResponsesTells ==
  ASSUME NEW o \in ObserverType, NEW event, NEW v, ValueType(v), Known(o), o.endpoint = "responses"
  PROVE  Tells(ResponsesObserve(o, v), o, event, v)
<1> DEFINE X == ResponsesObserve(o, v)
           response == v.response
           r == Reported("responses", response.usage)
           u == Observed(r)
           completed == v.type = "response.completed"
           ended == [o EXCEPT !.terminal = TRUE, !.completed = completed,
                              !.invalid = @ \/ (o.terminal /\ o.completed # completed)]
           failed == Unusable([o EXCEPT !.terminal = TRUE])
           E == v.type \in {"response.completed", "response.incomplete"}
<1> SUFFICES ASSUME ~X.invalid
             PROVE  /\ Known(X) /\ Grows(o.usage, X.usage, ReportIn("responses", event, v))
                    /\ X.terminal => o.terminal \/ Over("responses", event, v)
  BY DEF Tells
<1>1. failed.invalid
  BY DEF Unusable, ObserverType
<1>2. ended.invalid \in BOOLEAN /\ Unusable(ended).invalid
  BY DEF Unusable, ObserverType
<1>3. E \/ X \in {failed, o}
  BY DEF ResponsesObserve
<1>4. E => X = Unusable(ended)
           \/ (Counted(response.usage) /\ ~Falls(o.usage, u) /\ X = [ended EXCEPT !.usage = u])
  BY DEF ResponsesObserve
<1>5. /\ ended.endpoint = o.endpoint /\ ended.outputSeen = o.outputSeen
      /\ [ended EXCEPT !.usage = u].usage = u /\ [ended EXCEPT !.usage = u].endpoint = o.endpoint
  BY DEF ObserverType
<1>6. Over("responses", event, v) <=> E
  BY DEF Over
<1>7. ReportIn("responses", event, v) = IF E THEN r ELSE NoUsage
  BY <1>6 DEF ReportIn
<1> HIDE DEF X, u, ended, failed, E
<1>8. CASE ~E
  <2>1. X = o
    BY <1>1, <1>3, <1>8
  <2>2. Grows(o.usage, o.usage, NoUsage)
    BY GrowsNot DEF ObserverType
  <2>3. QED
    BY <1>7, <1>8, <2>1, <2>2
<1>9. CASE E
  <2>1. Counted(response.usage) /\ ~Falls(o.usage, u) /\ X = [ended EXCEPT !.usage = u]
    BY <1>2, <1>4, <1>9
  <2>2. o.usage \in Tallies /\ response.usage \in Usages /\ o.usage.created \in {0, Absent}
    BY DEF ObserverType, ValueType, Known
  <2>3. u \in Tallies /\ Grows(o.usage, u, r) /\ u.in # Absent /\ u.out # Absent /\ u.created = 0
    BY <2>1, <2>2, GrowsBy DEF u
  <2>4. X.usage = u /\ X.endpoint = "responses"
    BY <1>5, <2>1
  <2>5. QED
    BY <1>6, <1>7, <1>9, <2>3, <2>4 DEF Known
<1>10. QED
  BY <1>8, <1>9

(* MessagesObserver *)
LEMMA MessagesTells ==
  ASSUME NEW o \in ObserverType, NEW event, NEW v, ValueType(v), Known(o), o.endpoint = "messages"
  PROVE  Tells(MessagesObserve(o, event, v), o, event, v)
<1> DEFINE X == MessagesObserve(o, event, v)
           kind == Kind(event, v)
           reports == v.hasUsage /\ kind \in {"message_start", "message_delta"}
           a == AssignUsage(o, v.usage)
           b == o.outputSeen \/ (kind = "message_delta" /\ v.usage.out # Absent /\ a.usage.out # Absent)
           y == [a EXCEPT !.outputSeen = b]
<1> SUFFICES ASSUME ~X.invalid
             PROVE  /\ Known(X) /\ Grows(o.usage, X.usage, ReportIn("messages", event, v))
                    /\ X.terminal => o.terminal \/ kind = "message_stop"
  BY DEF Tells, Over
<1>1. /\ Keeps(a, o) /\ a.terminal = o.terminal /\ a.outputSeen = o.outputSeen
      /\ \A k \in Counts : a.usage[k] = IF v.usage[k] >= 0 THEN v.usage[k] ELSE o.usage[k]
      /\ a.invalid <=> \/ o.invalid
                       \/ \E k \in Counts : v.usage[k] = Bad \/ v.usage[k] \in 0..(o.usage[k] - 1)
  BY AssignIs DEF ValueType
<1>2. Unusable(o).invalid
  BY DEF Unusable, ObserverType
<1>3. ReportIn("messages", event, v) = IF reports THEN v.usage ELSE NoUsage
  BY DEF ReportIn
<1> HIDE DEF a
<1>4. b \in BOOLEAN /\ (b => o.outputSeen \/ a.usage.out # Absent)
  BY DEF ObserverType
<1>5. /\ reports => X = Unusable(o) \/ (~o.terminal /\ X = y)
      /\ ~reports => X \in {o, Unusable(o)} \/ (kind = "message_stop" /\ X = [o EXCEPT !.terminal = TRUE])
  <2>1. [a EXCEPT !.outputSeen = \/ @ \/ /\ kind = "message_delta"
                                         /\ v.usage.out # Absent /\ a.usage.out # Absent]
        = [a EXCEPT !.outputSeen = b]
    BY <1>1 DEF b
  <2> HIDE DEF kind
  <2>2. QED
    BY <2>1 DEF MessagesObserve, a, kind
<1> HIDE DEF X, b, reports, kind
<1>6. CASE ~reports
  <2>1. Grows(o.usage, o.usage, NoUsage)
    BY GrowsNot DEF ObserverType
  <2> DEFINE z == [o EXCEPT !.terminal = TRUE]
  <2>2. z.usage = o.usage /\ Known(z)
    BY DEF ObserverType, Known
  <2> HIDE DEF z
  <2>3. X = o \/ (kind = "message_stop" /\ X = z)
    BY <1>2, <1>5, <1>6 DEF z
  <2>4. QED
    BY <1>3, <1>6, <2>1, <2>2, <2>3
<1>7. CASE reports
  <2>1. ~o.terminal /\ X = y
    BY <1>2, <1>5, <1>7
  <2>2. /\ y.usage = a.usage /\ y.invalid = a.invalid /\ y.terminal = a.terminal /\ y.outputSeen = b
        /\ y.endpoint = "messages"
    BY <1>1, <1>4 DEF Keeps, ObserverType
  <2> HIDE DEF y
  <2>3. ~a.invalid
    BY <2>1, <2>2
  <2>4. ASSUME NEW k \in Counts
        PROVE  /\ OrZero(a.usage[k]) >= OrZero(o.usage[k]) /\ OrZero(a.usage[k]) >= v.usage[k]
               /\ OrZero(a.usage[k]) = OrZero(o.usage[k]) \/ OrZero(a.usage[k]) = v.usage[k]
    <3>1. o.usage[k] \in Nat \cup {-1} /\ v.usage[k] \in Nat \cup {-1, -2}
      BY DEF Counts, ObserverType, Tallies, ValueType, Usages, TokenCount, Absent, Bad
    <3>2. v.usage[k] # -2 /\ v.usage[k] \notin 0..(o.usage[k] - 1)
      BY <1>1, <2>3 DEF Bad
    <3> DEFINE m == a.usage[k]
               n == o.usage[k]
               w == v.usage[k]
    <3>3. m = IF w >= 0 THEN w ELSE n
      BY <1>1
    <3> HIDE DEF m, n, w
    <3>4. n \in Nat \cup {-1} /\ w \in Nat \cup {-1} /\ w \notin 0..(n - 1)
      BY <3>1, <3>2 DEF n, w
    <3>5. OrZero(m) >= OrZero(n) /\ OrZero(m) >= w /\ (OrZero(m) = OrZero(n) \/ OrZero(m) = w)
      BY <3>3, <3>4 DEF OrZero, Absent
    <3>6. QED
      BY <3>5 DEF m, n, w
  <2>5. Grows(o.usage, a.usage, v.usage)
    BY <2>4 DEF Grows
  <2>6. b => a.usage.out # Absent
    <3>1. a.usage.out = IF v.usage.out >= 0 THEN v.usage.out ELSE o.usage.out
      <4>1. a.usage["out"] = IF v.usage["out"] >= 0 THEN v.usage["out"] ELSE o.usage["out"]
        BY <1>1 DEF Counts
      <4>2. QED
        BY <4>1
    <3>2. o.outputSeen => o.usage.out # -1
      BY DEF Known, Absent
    <3>3. QED
      BY <1>4, <3>1, <3>2 DEF Absent
  <2>7. Known(X)
    BY <2>1, <2>2, <2>6 DEF Known
  <2>8. QED
    BY <1>1, <1>3, <1>7, <2>1, <2>2, <2>5, <2>7
<1>8. QED
  BY <1>6, <1>7

-----------------------------------------------------------------------------
(* Terminal and ReportOf, of the endpoint p. *)
TermAt(p, e) ==
  \/ p = "chat" /\ IsDone(e)
  \/ Parses(e.data) /\ Over(p, e.event, Parsed(e.data))

ReportAt(p, e) == IF Parses(e.data) THEN ReportIn(p, e.event, Parsed(e.data)) ELSE NoUsage

(* What an event makes of the observer that believes it. *)
LEMMA EventTells ==
  ASSUME NEW o \in ObserverType, NEW e, ~o.invalid => Known(o)
  PROVE  LET X == ObserveEvent(o, e)
             p == o.endpoint
         IN  ~X.invalid => /\ ~o.invalid /\ Known(X) /\ ErrorAt(p, e) = "none"
                           /\ Grows(o.usage, X.usage, ReportAt(p, e))
                           /\ X.terminal => o.terminal \/ TermAt(p, e)
<1> DEFINE X == ObserveEvent(o, e)
           p == o.endpoint
           event == e.event
           v == Parsed(e.data)
<1>1. /\ Parses(e.data) => /\ X = FamilyObserve(Struck(o, e), event, v)
                           /\ ~IsDone(e) /\ ValueType(v)
      /\ ~Parses(e.data) /\ ~(p = "chat" /\ IsDone(e)) => X.invalid
      /\ p = "chat" /\ IsDone(e) =>
           /\ ErrorAt(p, e) = "none"
           /\ X = [o EXCEPT !.terminal = TRUE, !.completion = Done(@)]
      /\ X \in ObserverType
      /\ o.invalid => X.invalid
      /\ ErrorAt(p, e) # "none" => X.invalid
  BY EventIs
<1> SUFFICES ASSUME ~X.invalid
             PROVE  /\ ~o.invalid /\ Known(X) /\ ErrorAt(p, e) = "none"
                    /\ Grows(o.usage, X.usage, ReportAt(p, e))
                    /\ X.terminal => o.terminal \/ TermAt(p, e)
  OBVIOUS
<1>2. ~o.invalid /\ ErrorAt(p, e) = "none" /\ Known(o)
  BY <1>1
<1>3. CASE ~Parses(e.data)
  <2>1. p = "chat" /\ IsDone(e) /\ X = [o EXCEPT !.terminal = TRUE, !.completion = Done(@)]
    BY <1>1, <1>3
  <2>2. X.usage = o.usage /\ X.outputSeen = o.outputSeen /\ X.endpoint = o.endpoint
    BY <2>1 DEF ObserverType
  <2> HIDE DEF X
  <2>3. Known(X)
    BY <1>2, <2>2 DEF Known
  <2>4. Grows(o.usage, o.usage, NoUsage)
    BY GrowsNot DEF ObserverType
  <2>5. QED
    BY <1>2, <1>3, <2>1, <2>2, <2>3, <2>4 DEF ReportAt, TermAt
<1>4. CASE Parses(e.data)
  <2> DEFINE y == Seeing(o, event, v)
  <2>1. X = FamilyObserve(o, event, v) /\ ValueType(v)
    BY <1>1, <1>2, <1>4 DEF Struck
  <2>2. /\ X = Family(y, event, v) /\ y \in ObserverType
        /\ y = [o EXCEPT !.completion = y.completion]
    BY <2>1, FamilyIs
  <2> HIDE DEF y
  <2>3. /\ y.usage = o.usage /\ y.outputSeen = o.outputSeen /\ y.endpoint = p
        /\ y.terminal = o.terminal
    <3> DEFINE c == y.completion
    <3> HIDE DEF c
    <3>1. y = [o EXCEPT !.completion = c]
      BY <2>2 DEF c
    <3>2. QED
      BY <3>1 DEF ObserverType
  <2>4. Known(y)
    BY <1>2, <2>3 DEF Known
  <2>5. Tells(X, y, event, v)
    <3>1. y.endpoint \in {"chat", "responses", "messages"}
      BY <2>2 DEF ObserverType, Families
    <3>2. CASE y.endpoint = "chat"
      BY <2>1, <2>2, <2>4, <3>2, ChatTells DEF Family
    <3>3. CASE y.endpoint = "responses"
      BY <2>1, <2>2, <2>4, <3>3, ResponsesTells DEF Family
    <3>4. CASE y.endpoint = "messages"
      BY <2>1, <2>2, <2>4, <3>4, MessagesTells DEF Family
    <3>5. QED
      BY <3>1, <3>2, <3>3, <3>4
  <2> HIDE DEF X, v, event
  <2>6. /\ Known(X) /\ Grows(o.usage, X.usage, ReportIn(p, event, v))
        /\ X.terminal => o.terminal \/ Over(p, event, v)
    BY <2>3, <2>5 DEF Tells
  <2>7. QED
    BY <1>2, <1>4, <2>6 DEF ReportAt, TermAt, v, event
<1>5. QED
  BY <1>3, <1>4

(* What announces a whole answer. *)
StopIn(p, event, v) ==
  \/ p = "chat" /\ \E i \in DOMAIN v.choices : v.choices[i].finish = "stop"
  \/ p = "messages" /\ Kind(event, v) = "message_delta" /\ v.stop \in {"end_turn", "stop_sequence"}
  \/ p = "responses" /\ v.type = "response.completed" /\ CompleteResponse(v.response)

StopAt(p, e) == Parses(e.data) /\ StopIn(p, e.event, Parsed(e.data))

(* A completion that stays valid has ended when the value ends the answer, *)
(* and has stopped when this or an earlier value, never both, is the stop. *)
LEMMA CompletionIs ==
  ASSUME NEW p \in Families, NEW c \in CompletionType, NEW event, NEW v, ValueType(v),
         ~c.invalid => (p = "responses" /\ c.stopped => c.terminal)
  PROVE  LET d == Completion(p, c, event, v)
         IN  ~d.invalid =>
               /\ ~c.invalid /\ ~c.terminal
               /\ d.terminal <=> Over(p, event, v)
               /\ d.stopped <=> c.stopped \/ StopIn(p, event, v)
               /\ ~(c.stopped /\ StopIn(p, event, v))
               /\ p = "responses" /\ d.stopped => d.terminal
<1> DEFINE d == Completion(p, c, event, v)
           late == c.terminal \/ v.error
<1> SUFFICES ASSUME ~d.invalid
             PROVE  /\ ~c.invalid /\ ~c.terminal
                    /\ d.terminal <=> Over(p, event, v)
                    /\ d.stopped <=> c.stopped \/ StopIn(p, event, v)
                    /\ ~(c.stopped /\ StopIn(p, event, v))
                    /\ p = "responses" /\ d.stopped => d.terminal
  OBVIOUS
<1>1. Invalidate(c) \in CompletionType /\ Invalidate(c).invalid
  BY DEF Invalidate, CompletionType
<1>2. ~late
  <2>1. late => d = Invalidate(c)
    BY DEF Completion
  <2> HIDE DEF d
  <2>2. QED
    BY <1>1, <2>1
<1>3. ~c.terminal /\ c.terminal \in BOOLEAN /\ c.stopped \in BOOLEAN
  BY <1>2 DEF CompletionType
<1>4. /\ p = "chat" => d = ChatCompletion(c, v)
      /\ p = "messages" => d = MessagesCompletion(c, event, v)
      /\ p = "responses" => d = ResponsesCompletion(c, v)
  BY <1>2 DEF Completion
<1> HIDE DEF d, late
<1>5. CASE p = "chat"
  <2>1. /\ d \in CompletionType /\ (c.invalid => d.invalid) /\ d.terminal = c.terminal
        /\ \/ v.choices = <<>> /\ d = c
           \/ /\ Len(v.choices) = 1 /\ ~c.stopped
              /\ d.stopped <=> v.choices[1].finish = "stop"
    BY <1>4, <1>5, ChatCompletionIs
  <2>2. ~Over(p, event, v)
    BY <1>5 DEF Over
  <2>3. StopIn(p, event, v) <=> \E i \in DOMAIN v.choices : v.choices[i].finish = "stop"
    BY <1>5 DEF StopIn
  <2>4. v.choices \in Seq(ChatChoices)
    BY DEF ValueType
  <2>5. CASE v.choices = <<>> /\ d = c
    <3>1. DOMAIN v.choices = {}
      BY <2>5
    <3>2. QED
      BY <1>3, <1>5, <2>1, <2>2, <2>3, <2>5, <3>1
  <2>6. CASE Len(v.choices) = 1 /\ ~c.stopped /\ (d.stopped <=> v.choices[1].finish = "stop")
    <3>1. DOMAIN v.choices = 1..1
      BY <2>4, <2>6
    <3>2. StopIn(p, event, v) <=> v.choices[1].finish = "stop"
      BY <2>3, <3>1
    <3>3. QED
      BY <1>3, <1>5, <2>1, <2>2, <2>6, <3>2
  <2>7. QED
    BY <2>1, <2>5, <2>6
<1>6. CASE p = "responses"
  <2>1. /\ d \in CompletionType /\ (c.invalid => d.invalid)
        /\ \/ /\ v.type = "response.completed"
              /\ d.terminal /\ (d.stopped <=> CompleteResponse(v.response))
           \/ /\ v.type \notin {"response.completed", "response.incomplete"}
              /\ d.terminal = c.terminal /\ d.stopped = c.stopped
    BY <1>4, <1>6, ResponsesCompletionIs
  <2>2. Over(p, event, v) <=> v.type \in {"response.completed", "response.incomplete"}
    BY <1>6 DEF Over
  <2>3. StopIn(p, event, v) <=> v.type = "response.completed" /\ CompleteResponse(v.response)
    BY <1>6 DEF StopIn
  <2>4. ~c.stopped
    BY <1>3, <1>6, <2>1
  <2>5. QED
    BY <1>3, <1>6, <2>1, <2>2, <2>3, <2>4
<1>7. CASE p = "messages"
  <2> DEFINE kind == Kind(event, v)
  <2>1. /\ d \in CompletionType /\ (c.invalid => d.invalid)
        /\ \/ kind = "message_stop" /\ d.terminal /\ d.stopped = c.stopped
           \/ /\ kind = "message_delta" /\ ~c.stopped /\ d.stopped /\ d.terminal = c.terminal
              /\ v.stop \in {"end_turn", "stop_sequence"}
           \/ /\ kind \notin {"message_stop", "message_delta"}
              /\ d.terminal = c.terminal /\ d.stopped = c.stopped
    BY <1>4, <1>7, MessagesCompletionIs
  <2>2. Over(p, event, v) <=> kind = "message_stop"
    BY <1>7 DEF Over
  <2>3. StopIn(p, event, v) <=> kind = "message_delta" /\ v.stop \in {"end_turn", "stop_sequence"}
    BY <1>7 DEF StopIn
  <2> HIDE DEF kind
  <2>4. QED
    BY <1>3, <1>7, <2>1, <2>2, <2>3
<1>8. QED
  BY <1>5, <1>6, <1>7 DEF Families

(* What an event makes of the completion that stays valid. *)
LEMMA EventCompletes ==
  ASSUME NEW o \in ObserverType, NEW e, o.cache,
         ~o.completion.invalid => (o.endpoint = "responses" /\ o.completion.stopped => o.completion.terminal)
  PROVE  LET c == o.completion
             d == ObserveEvent(o, e).completion
             p == o.endpoint
         IN  ~d.invalid =>
               /\ ~c.invalid /\ ~c.terminal /\ ErrorAt(p, e) = "none"
               /\ Parses(e.data) \/ TermAt(p, e)
               /\ d.terminal <=> TermAt(p, e)
               /\ d.stopped <=> c.stopped \/ StopAt(p, e)
               /\ ~(c.stopped /\ StopAt(p, e))
               /\ p = "responses" /\ d.stopped => d.terminal
<1> DEFINE c == o.completion
           X == ObserveEvent(o, e)
           d == X.completion
           p == o.endpoint
           event == e.event
           v == Parsed(e.data)
<1>1. /\ Parses(e.data) => /\ X = FamilyObserve(Struck(o, e), event, v)
                           /\ ~IsDone(e) /\ ValueType(v)
      /\ ~Parses(e.data) /\ ~(p = "chat" /\ IsDone(e)) => d.invalid
      /\ p = "chat" /\ IsDone(e) =>
           /\ ErrorAt(p, e) = "none"
           /\ X = [o EXCEPT !.terminal = TRUE, !.completion = Done(@)]
      /\ c.invalid => d.invalid
      /\ ErrorAt(p, e) # "none" => d.invalid
  BY EventIs
<1> SUFFICES ASSUME ~d.invalid
             PROVE  /\ ~c.invalid /\ ~c.terminal /\ ErrorAt(p, e) = "none"
                    /\ Parses(e.data) \/ TermAt(p, e)
                    /\ d.terminal <=> TermAt(p, e)
                    /\ d.stopped <=> c.stopped \/ StopAt(p, e)
                    /\ ~(c.stopped /\ StopAt(p, e))
                    /\ p = "responses" /\ d.stopped => d.terminal
  OBVIOUS
<1>2. ~c.invalid /\ ErrorAt(p, e) = "none" /\ c \in CompletionType /\ p \in Families
  BY <1>1 DEF ObserverType
<1>3. CASE ~Parses(e.data)
  <2>1. p = "chat" /\ IsDone(e) /\ X = [o EXCEPT !.terminal = TRUE, !.completion = Done(@)]
    BY <1>1, <1>3
  <2>2. d = Done(c)
    <3> DEFINE w == Done(c)
    <3>1. X = [o EXCEPT !.terminal = TRUE, !.completion = w]
      BY <2>1
    <3> HIDE DEF w, X
    <3>2. X.completion = w
      BY <3>1 DEF ObserverType
    <3>3. QED
      BY <3>2 DEF w
  <2> HIDE DEF d, c
  <2>3. d.invalid = (c.invalid \/ c.terminal) /\ d.terminal = TRUE /\ d.stopped = c.stopped
    BY <1>2, <2>2 DEF Done, CompletionType
  <2>4. TermAt(p, e) /\ ~StopAt(p, e)
    BY <1>3, <2>1 DEF TermAt, StopAt
  <2>5. QED
    BY <1>2, <2>1, <2>3, <2>4
<1>4. CASE Parses(e.data)
  <2>1. X = FamilyObserve(o, event, v) /\ ValueType(v) /\ ~IsDone(e)
    BY <1>1, <1>2, <1>4 DEF Struck
  <2>2. d = Completion(p, c, event, v)
    <3>1. X.completion = Seeing(o, event, v).completion
      BY <2>1, FamilyIs
    <3>2. Seeing(o, event, v).completion = Completion(p, c, event, v)
      BY <2>1, FamilyIs
    <3>3. QED
      BY <3>1, <3>2
  <2>3. /\ ~c.invalid /\ ~c.terminal
        /\ d.terminal <=> Over(p, event, v)
        /\ d.stopped <=> c.stopped \/ StopIn(p, event, v)
        /\ ~(c.stopped /\ StopIn(p, event, v))
        /\ p = "responses" /\ d.stopped => d.terminal
    <3> HIDE DEF d, c, p, v, event
    <3>1. ~c.invalid => (p = "responses" /\ c.stopped => c.terminal)
      BY DEF c, p
    <3>2. QED
      BY <1>2, <2>1, <2>2, <3>1, CompletionIs
  <2>4. (TermAt(p, e) <=> Over(p, event, v)) /\ (StopAt(p, e) <=> StopIn(p, event, v))
    BY <1>4, <2>1 DEF TermAt, StopAt
  <2> HIDE DEF d, c, p, v, event
  <2>5. QED
    BY <1>2, <1>4, <2>3, <2>4
<1>5. QED
  BY <1>3, <1>4

-----------------------------------------------------------------------------
(***************************************************************************)
(* What an observer says of all the events it has seen.                    *)
(***************************************************************************)
(* The first error among the events h is err. *)
FirstAt(p, h, err) ==
  \/ err = "none" /\ \A k \in 1..Len(h) : ErrorAt(p, h[k]) = "none"
  \/ \E k \in 1..Len(h) :
        /\ err = ErrorAt(p, h[k]) /\ err # "none"
        /\ \A j \in 1..(k - 1) : ErrorAt(p, h[j]) = "none"

(* usage holds the most that the events h report. *)
Summed(p, h, usage) ==
  \A c \in Counts :
     /\ OrZero(usage[c]) \in Nat
     /\ \A k \in 1..Len(h) : OrZero(usage[c]) >= ReportAt(p, h[k])[c]
     /\ OrZero(usage[c]) = 0 \/ \E k \in 1..Len(h) : OrZero(usage[c]) = ReportAt(p, h[k])[c]

(* What an observer that is not invalid says of the events h. *)
Believed(p, h, o) ==
  /\ Known(o)
  /\ \A k \in 1..Len(h) : ErrorAt(p, h[k]) = "none"
  /\ o.terminal => \E k \in 1..Len(h) : TermAt(p, h[k])
  /\ Summed(p, h, o.usage)

(* What a completion that is not invalid says of the events h. *)
Whole(p, h, c) ==
  /\ \A k \in 1..Len(h) : ErrorAt(p, h[k]) = "none" /\ (Parses(h[k].data) \/ TermAt(p, h[k]))
  /\ \A k \in 1..Len(h) : TermAt(p, h[k]) <=> c.terminal /\ k = Len(h)
  /\ c.terminal => Len(h) # 0
  /\ ~c.stopped => \A k \in 1..Len(h) : ~StopAt(p, h[k])
  /\ c.stopped => \E k \in 1..Len(h) : \A j \in 1..Len(h) : StopAt(p, h[j]) <=> j = k
  /\ p = "responses" /\ c.stopped => c.terminal

(* The observer o of an endpoint p has seen the events h. *)
Follows(p, h, o) ==
  /\ o \in ObserverType /\ o.endpoint = p
  /\ FirstAt(p, h, o.error)
  /\ ~o.invalid => Believed(p, h, o)
  /\ o.cache /\ ~o.completion.invalid => Whole(p, h, o.completion)

-----------------------------------------------------------------------------
(* Before the first event. *)
LEMMA FollowsNothing ==
  ASSUME NEW p \in Families, NEW store \in BOOLEAN
  PROVE  Follows(p, <<>>, NewObserver(p, store))
<1> DEFINE o == NewObserver(p, store)
           c == NewCompletion
           h == <<>>
<1>1. 1..Len(h) = {}
  OBVIOUS
<1>2. c \in CompletionType /\ ~c.terminal /\ ~c.stopped
  BY DEF NewCompletion, CompletionType
<1>3. NoUsage \in Tallies /\ \A k \in Counts : OrZero(NoUsage[k]) = 0
  BY DEF NoUsage, Tallies, OrZero, Absent, Counts
<1> HIDE DEF c
<1>4. /\ o \in ObserverType /\ o.endpoint = p /\ o.error = "none" /\ o.usage = NoUsage
      /\ ~o.terminal /\ ~o.outputSeen /\ o.completion = c
  BY <1>2, <1>3 DEF NewObserver, ObserverType, ErrorClasses, c
<1> HIDE DEF o, h
<1>5. FirstAt(p, h, o.error)
  BY <1>1, <1>4 DEF FirstAt
<1>6. Believed(p, h, o)
  <2>1. Known(o)
    BY <1>4 DEF Known, NoUsage
  <2>2. Summed(p, h, o.usage)
    BY <1>1, <1>3, <1>4 DEF Summed
  <2>3. QED
    BY <1>1, <1>4, <2>1, <2>2 DEF Believed
<1>7. Whole(p, h, c)
  BY <1>1, <1>2 DEF Whole
<1>8. QED
  BY <1>4, <1>5, <1>6, <1>7 DEF Follows, o, h

(* What an event reports are counts. *)
LEMMA ReportType ==
  ASSUME NEW p \in Families
  PROVE  \A e : \A c \in Counts : ReportAt(p, e)[c] \in Int
<1>1. NoUsage \in Usages
  BY DEF NoUsage, Usages, TokenCount
<1>2. \A usage \in Usages : \A q : Reported(q, usage) \in Usages
  BY DEF Reported, Usages, TokenCount
<1>3. ASSUME NEW event, NEW v, ValueType(v) PROVE ReportIn(p, event, v) \in Usages
  <2>1. p \in {"chat", "responses", "messages"}
    BY DEF Families
  <2>2. QED
    BY <1>1, <1>2, <1>3, <2>1 DEF ReportIn, ValueType
<1>4. \A e : ReportAt(p, e) \in Usages
  BY <1>1, <1>3, ParsedType DEF ReportAt
<1>5. QED
  BY <1>4 DEF Usages, TokenCount, Absent, Bad, Counts

(* One event more. *)
LEMMA FollowsEvent ==
  ASSUME NEW p, NEW h \in Seq(EventType), NEW o, NEW e \in EventType, Follows(p, h, o)
  PROVE  Follows(p, Append(h, e), ObserveEvent(o, e))
<1> DEFINE g == Append(h, e)
           n == Len(h)
           X == ObserveEvent(o, e)
<1>1. /\ n \in Nat /\ Len(g) = n + 1 /\ g[n + 1] = e /\ \A i \in 1..n : g[i] = h[i]
  BY AppendFacts
<1>2. /\ o \in ObserverType /\ o.endpoint = p
      /\ FirstAt(p, h, o.error)
      /\ ~o.invalid => Believed(p, h, o)
      /\ o.cache /\ ~o.completion.invalid => Whole(p, h, o.completion)
  BY DEF Follows
<1>3. /\ X \in ObserverType /\ X.endpoint = p /\ X.cache = o.cache
      /\ X.error = IF o.error = "none" THEN ErrorAt(p, e) ELSE o.error
      /\ o.invalid => X.invalid
      /\ o.completion.invalid => X.completion.invalid
  BY <1>2, EventIs
<1> HIDE DEF g, n
<1> DEFINE m == n + 1
<1>4. \A i \in 1..m : i \in 1..n \/ i = m
  BY <1>1
<1>5. /\ m \in 1..m /\ (\A i \in 1..n : i \in 1..m /\ i # m) /\ 1..(m - 1) = 1..n
      /\ Len(g) = m /\ g[m] = e
  BY <1>1
<1> HIDE DEF m
<1>6. FirstAt(p, g, X.error)
  <2>1. CASE o.error = "none"
    <3>1. \A k \in 1..n : ErrorAt(p, h[k]) = "none"
      BY <1>2, <2>1 DEF FirstAt, n
    <3>2. \A k \in 1..n : ErrorAt(p, g[k]) = "none"
      BY <1>1, <3>1
    <3>3. CASE ErrorAt(p, e) = "none"
      BY <1>3, <1>4, <1>5, <2>1, <3>2, <3>3 DEF FirstAt
    <3>4. CASE ErrorAt(p, e) # "none"
      BY <1>3, <1>5, <2>1, <3>2, <3>4 DEF FirstAt
    <3>5. QED
      BY <3>3, <3>4
  <2>2. CASE o.error # "none"
    <3>1. PICK k \in 1..n : /\ o.error = ErrorAt(p, h[k])
                            /\ \A j \in 1..(k - 1) : ErrorAt(p, h[j]) = "none"
      BY <1>2, <2>2 DEF FirstAt, n
    <3>2. \A j \in 1..(k - 1) : j \in 1..n
      BY <1>1
    <3>3. g[k] = h[k] /\ \A j \in 1..(k - 1) : g[j] = h[j]
      BY <1>1, <3>2
    <3>4. QED
      BY <1>3, <1>5, <2>2, <3>1, <3>3 DEF FirstAt
  <2>3. QED
    BY <2>1, <2>2
<1>7. ASSUME ~X.invalid PROVE Believed(p, g, X)
  <2>1. /\ Known(X) /\ ErrorAt(p, e) = "none"
        /\ Grows(o.usage, X.usage, ReportAt(p, e))
        /\ X.terminal => o.terminal \/ TermAt(p, e)
    BY <1>2, <1>7, EventTells DEF Believed
  <2>2. /\ \A k \in 1..n : ErrorAt(p, h[k]) = "none"
        /\ o.terminal => \E k \in 1..n : TermAt(p, h[k])
        /\ Summed(p, h, o.usage)
    BY <1>2, <1>3, <1>7 DEF Believed, n
  <2> HIDE DEF X
  <2>3. \A k \in 1..m : ErrorAt(p, g[k]) = "none"
    BY <1>1, <1>4, <1>5, <2>1, <2>2
  <2>4. X.terminal => \E k \in 1..m : TermAt(p, g[k])
    BY <1>1, <1>5, <2>1, <2>2
  <2>5. Summed(p, g, X.usage)
    <3> SUFFICES ASSUME NEW c \in Counts
                 PROVE  /\ OrZero(X.usage[c]) \in Nat
                        /\ \A k \in 1..m : OrZero(X.usage[c]) >= ReportAt(p, g[k])[c]
                        /\ \/ OrZero(X.usage[c]) = 0
                           \/ \E k \in 1..m : OrZero(X.usage[c]) = ReportAt(p, g[k])[c]
      BY <1>5 DEF Summed
    <3> DEFINE w == OrZero(X.usage[c])
               u == OrZero(o.usage[c])
               R(k) == ReportAt(p, h[k])[c]
               r == ReportAt(p, e)[c]
    <3>1. w >= u /\ w >= r /\ (w = u \/ w = r)
      BY <2>1 DEF Grows
    <3>2. u \in Nat /\ (\A k \in 1..n : u >= R(k)) /\ (u = 0 \/ \E k \in 1..n : u = R(k))
      BY <2>2 DEF Summed, n
    <3>3. w \in Nat
      <4>1. \A k \in Counts : X.usage[k] \in Nat \cup {Absent}
        BY <1>3 DEF Counts, ObserverType, Tallies
      <4>2. QED
        BY <4>1 DEF OrZero
    <3>4. \A k \in 1..n : R(k) \in Int
      <4>1. p \in Families
        BY <1>2 DEF ObserverType
      <4>2. QED
        BY <4>1, ReportType
    <3>5. \A k \in 1..n : ReportAt(p, g[k])[c] = R(k)
      BY <1>1
    <3>6. ReportAt(p, g[m])[c] = r
      BY <1>5
    <3> HIDE DEF w, u, r, R
    <3>7. \A k \in 1..n : w >= R(k)
      BY <3>1, <3>2, <3>3, <3>4
    <3>8. \A k \in 1..m : w >= ReportAt(p, g[k])[c]
      BY <1>4, <3>1, <3>5, <3>6, <3>7
    <3>9. w = 0 \/ \E k \in 1..m : w = ReportAt(p, g[k])[c]
      BY <1>5, <3>1, <3>2, <3>5, <3>6
    <3>10. QED
      BY <3>3, <3>8, <3>9 DEF w
  <2>6. QED
    BY <1>5, <2>1, <2>3, <2>4, <2>5 DEF Believed
<1>8. ASSUME X.cache, ~X.completion.invalid PROVE Whole(p, g, X.completion)
  <2> DEFINE c == o.completion
             d == X.completion
  <2>1. Whole(p, h, c)
    BY <1>2, <1>3, <1>8
  <2>2. /\ ~c.invalid /\ ~c.terminal /\ ErrorAt(p, e) = "none"
        /\ Parses(e.data) \/ TermAt(p, e)
        /\ d.terminal <=> TermAt(p, e)
        /\ d.stopped <=> c.stopped \/ StopAt(p, e)
        /\ ~(c.stopped /\ StopAt(p, e))
        /\ p = "responses" /\ d.stopped => d.terminal
    <3>1. o.cache /\ ~c.invalid /\ (p = "responses" /\ c.stopped => c.terminal)
      BY <1>3, <1>8, <2>1 DEF Whole
    <3>2. QED
      BY <1>2, <1>8, <3>1, EventCompletes
  <2>3. /\ \A k \in 1..n : /\ ErrorAt(p, h[k]) = "none" /\ (Parses(h[k].data) \/ TermAt(p, h[k]))
                           /\ ~TermAt(p, h[k])
        /\ ~c.stopped => \A k \in 1..n : ~StopAt(p, h[k])
        /\ c.stopped => \E k \in 1..n : \A j \in 1..n : StopAt(p, h[j]) <=> j = k
    BY <2>1, <2>2 DEF Whole, n
  <2> HIDE DEF c, d, X
  <2>4. \A k \in 1..n : /\ ErrorAt(p, g[k]) = "none" /\ (Parses(g[k].data) \/ TermAt(p, g[k]))
                        /\ ~TermAt(p, g[k]) /\ (StopAt(p, g[k]) <=> StopAt(p, h[k]))
    BY <1>1, <2>3
  <2>5. \A k \in 1..m : ErrorAt(p, g[k]) = "none" /\ (Parses(g[k].data) \/ TermAt(p, g[k]))
    BY <1>4, <1>5, <2>2, <2>4
  <2>6. \A k \in 1..m : TermAt(p, g[k]) <=> d.terminal /\ k = m
    BY <1>4, <1>5, <2>2, <2>4
  <2>7. m # 0
    BY <1>5
  <2>8. ~d.stopped => \A k \in 1..m : ~StopAt(p, g[k])
    BY <1>4, <1>5, <2>2, <2>3, <2>4
  <2>9. d.stopped => \E k \in 1..m : \A j \in 1..m : StopAt(p, g[j]) <=> j = k
    <3>1. ASSUME c.stopped PROVE \E k \in 1..m : \A j \in 1..m : StopAt(p, g[j]) <=> j = k
      <4>1. PICK k \in 1..n : \A j \in 1..n : StopAt(p, h[j]) <=> j = k
        BY <2>3, <3>1
      <4>2. ~StopAt(p, g[m])
        BY <1>5, <2>2, <3>1
      <4>3. k \in 1..m /\ \A j \in 1..m : StopAt(p, g[j]) <=> j = k
        BY <1>4, <1>5, <2>4, <4>1, <4>2
      <4>4. QED
        BY <4>3
    <3>2. ASSUME ~c.stopped, d.stopped PROVE \E k \in 1..m : \A j \in 1..m : StopAt(p, g[j]) <=> j = k
      <4>1. \A j \in 1..m : StopAt(p, g[j]) <=> j = m
        BY <1>4, <1>5, <2>2, <2>3, <2>4, <3>2
      <4>2. QED
        BY <1>5, <4>1
    <3>3. QED
      BY <3>1, <3>2
  <2>10. QED
    BY <1>5, <2>2, <2>5, <2>6, <2>7, <2>8, <2>9 DEF Whole, d
<1>9. QED
  BY <1>3, <1>6, <1>7, <1>8 DEF Follows, g

(* The events of a chunk, one after the other. *)
LEMMA FollowsAll ==
  ASSUME NEW p, NEW h \in Seq(EventType), NEW o, NEW events \in Seq(EventType), Follows(p, h, o)
  PROVE  Follows(p, h \o events, ObserveAll(o, events))
<1> DEFINE n == Len(events)
<1>1. PICK f : /\ f[0] = o /\ f[n] = ObserveAll(o, events)
               /\ \A k \in 1..n : f[k] = ObserveEvent(f[k - 1], events[k])
  BY EventSteps
<1>2. /\ Thru(h, events, 0) = h /\ Thru(h, events, n) = h \o events
      /\ \A k \in 0..n : Thru(h, events, k) \in Seq(EventType)
      /\ \A k \in 1..n : Thru(h, events, k) = Append(Thru(h, events, k - 1), events[k])
  BY UptoSteps
<1>3. n \in Nat /\ \A k \in 1..n : events[k] \in EventType
  OBVIOUS
<1> HIDE DEF n
<1> DEFINE T == {k \in Nat : k <= n /\ ~Follows(p, Thru(h, events, k), f[k])}
<1>4. T = {}
  <2> SUFFICES ASSUME T # {} PROVE FALSE
    OBVIOUS
  <2>1. PICK k \in T : \A m \in T : k <= m
    BY LeastMember
  <2>2. k # 0
    BY <1>1, <1>2
  <2>3. k \in 1..n /\ k - 1 \in Nat /\ k - 1 <= n /\ ~(k <= k - 1) /\ k - 1 \in 0..n
    BY <1>3, <2>2
  <2>4. Follows(p, Thru(h, events, k - 1), f[k - 1])
    BY <2>1, <2>3
  <2>5. Thru(h, events, k - 1) \in Seq(EventType) /\ events[k] \in EventType
    BY <1>2, <1>3, <2>3
  <2>6. Follows(p, Append(Thru(h, events, k - 1), events[k]), ObserveEvent(f[k - 1], events[k]))
    BY <2>4, <2>5, FollowsEvent
  <2>7. Follows(p, Thru(h, events, k), f[k])
    BY <1>1, <1>2, <2>3, <2>6
  <2>8. QED
    BY <2>7
<1>5. Follows(p, Thru(h, events, n), f[n])
  BY <1>3, <1>4
<1>6. QED
  BY <1>1, <1>2, <1>5

(* The cache is chosen when the answer begins. *)
LEMMA AllKeepCache ==
  ASSUME NEW p, NEW h \in Seq(EventType), NEW o, NEW events \in Seq(EventType), Follows(p, h, o)
  PROVE  ObserveAll(o, events).cache = o.cache
<1> DEFINE n == Len(events)
<1>1. PICK f : /\ f[0] = o /\ f[n] = ObserveAll(o, events)
               /\ \A k \in 1..n : f[k] = ObserveEvent(f[k - 1], events[k])
  BY EventSteps
<1>2. n \in Nat
  OBVIOUS
<1>3. o \in ObserverType
  BY DEF Follows
<1> HIDE DEF n
<1> DEFINE T == {k \in Nat : k <= n /\ ~(f[k] \in ObserverType /\ f[k].cache = o.cache)}
<1>4. T = {}
  <2> SUFFICES ASSUME T # {} PROVE FALSE
    OBVIOUS
  <2>1. PICK k \in T : \A m \in T : k <= m
    BY LeastMember
  <2>2. k # 0
    BY <1>1, <1>3
  <2>3. k \in 1..n /\ k - 1 \in Nat /\ k - 1 <= n /\ ~(k <= k - 1)
    BY <1>2, <2>2
  <2>4. f[k - 1] \in ObserverType /\ f[k - 1].cache = o.cache
    BY <2>1, <2>3
  <2>5. ObserveEvent(f[k - 1], events[k]) \in ObserverType
        /\ ObserveEvent(f[k - 1], events[k]).cache = f[k - 1].cache
    BY <2>4, EventIs
  <2>6. QED
    BY <1>1, <2>3, <2>4, <2>5
<1>5. f[n].cache = o.cache
  BY <1>2, <1>4
<1>6. QED
  BY <1>1, <1>5

(* An overflow makes nothing of what was seen, and keeps the error. *)
LEMMA FollowsOverflow ==
  ASSUME NEW p, NEW h, NEW o, Follows(p, h, o)
  PROVE  Follows(p, h, MarkInvalid(o)) /\ MarkInvalid(o).cache = o.cache
<1>1. o \in ObserverType /\ o.endpoint = p /\ FirstAt(p, h, o.error)
  BY DEF Follows
<1> DEFINE X == MarkInvalid(o)
<1>2. /\ X \in ObserverType /\ X.endpoint = p /\ X.cache = o.cache /\ X.error = o.error
      /\ X.invalid /\ X.completion.invalid
  BY <1>1 DEF MarkInvalid, Invalidate, ObserverType, CompletionType
<1> HIDE DEF X
<1>3. Follows(p, h, X)
  BY <1>1, <1>2 DEF Follows
<1>4. QED
  BY <1>2, <1>3 DEF X

-----------------------------------------------------------------------------
(* What a clean end of a stream reports. *)
Concluded ==
  IF decoder.overflowed THEN [NoResult EXCEPT !.error = observer.error] ELSE FinishSse

(* The observer follows the events seen, and the result is drawn from it.  *)
ObserverInv ==
  /\ feed \in Feeds
  /\ end = "open" => result = NoResult
  /\ SseAnswer => /\ Follows(feed.endpoint, seen, observer) /\ observer.cache = Cached
                  /\ end # "open" => end = "eof" /\ result = Concluded

(* A stream is an answer of one of the families. *)
LEMMA StreamingFamily == feed \in Feeds /\ SseAnswer => feed.endpoint \in Families
  BY FeedsAssumption DEF SseAnswer, Representation, Families

(* Before the first chunk. *)
LEMMA ObserverInit == StreamInit => ObserverInv
<1> SUFFICES ASSUME StreamInit PROVE ObserverInv
  OBVIOUS
<1>1. /\ feed \in Feeds /\ seen = <<>> /\ end = "open" /\ result = NoResult
      /\ observer = NewObserver(feed.endpoint, Cached)
  BY DEF StreamInit
<1>2. Cached \in BOOLEAN
  BY DEF Cached
<1>3. observer.cache = Cached
  BY <1>1 DEF NewObserver
<1>4. SseAnswer => Follows(feed.endpoint, <<>>, NewObserver(feed.endpoint, Cached))
  BY <1>1, <1>2, StreamingFamily, FollowsNothing
<1>5. QED
  BY <1>1, <1>3, <1>4 DEF ObserverInv

(* Every step of an answer keeps the observer with the events. *)
LEMMA ObserverStep == DecoderInv /\ ObserverInv /\ [StreamNext]_streamVars => ObserverInv'
<1> SUFFICES ASSUME DecoderInv, ObserverInv, [StreamNext]_streamVars PROVE ObserverInv'
  OBVIOUS
<1>1. /\ feed \in Feeds
      /\ end = "open" => result = NoResult
      /\ SseAnswer => /\ Follows(feed.endpoint, seen, observer) /\ observer.cache = Cached
                      /\ end # "open" => end = "eof" /\ result = Concluded
  BY DEF ObserverInv
<1>2. feed' = feed => (SseAnswer' <=> SseAnswer) /\ (Cached' <=> Cached)
  BY DEF SseAnswer, Representation, Cached
<1>3. feed' = feed => Cached' = Cached
  BY DEF Cached
<1>4. CASE UNCHANGED streamVars
  <2>1. /\ feed' = feed /\ seen' = seen /\ decoder' = decoder /\ observer' = observer
        /\ end' = end /\ result' = result
    BY <1>4 DEF streamVars
  <2>2. Concluded' = Concluded
    BY <2>1 DEF Concluded, FinishSse, FinishUsage, CacheComplete
  <2>3. QED
    BY <1>1, <1>2, <1>3, <2>1, <2>2 DEF ObserverInv
<1>5. CASE Finish
  <2>1. /\ feed' = feed /\ seen' = seen /\ decoder' = decoder /\ observer' = observer
        /\ end' = "eof" /\ end = "open"
    BY <1>5 DEF Finish
  <2>2. Concluded' = Concluded
    BY <2>1 DEF Concluded, FinishSse, FinishUsage, CacheComplete
  <2>3. SseAnswer => result' = Concluded
    <3>1. "none" # "text/event-stream"
      OBVIOUS
    <3>2. QED
      BY <1>5, <3>1, Zenon DEF Finish, Concluded, SseAnswer
  <2>4. QED
    BY <1>1, <1>2, <1>3, <2>1, <2>2, <2>3 DEF ObserverInv
<1>6. CASE \E chunk \in feed.chunks : ObserveChunk(chunk)
  <2>1. PICK chunk \in feed.chunks : ObserveChunk(chunk)
    BY <1>6
  <2>2. chunk \in Seq(Symbol)
    BY <1>1, ChunkType
  <2>3. feed' = feed /\ end = "open" /\ end' = "open" /\ result' = result
    BY <2>1 DEF ObserveChunk
  <2>4. CASE ~SseAnswer
    BY <1>1, <1>2, <2>3, <2>4 DEF ObserverInv
  <2>5. CASE SseAnswer
    <3> DEFINE d == Observe(decoder, chunk)
               o == ObserveAll(observer, d.out)
    <3>1. seen' = seen \o d.out /\ observer' = IF d.overflowed THEN MarkInvalid(o) ELSE o
      BY <2>1, <2>5 DEF ObserveChunk, SseAnswer, ObserveAll
    <3>2. text \in Seq(Symbol) /\ seen \in Seq(EventType) /\ Decoded(seen, decoder, text)
      BY <2>5 DEF DecoderInv
    <3>3. d.out \in Seq(EventType)
      BY <2>2, <3>2, DecodedChunk
    <3> HIDE DEF d
    <3>4. Follows(feed.endpoint, seen \o d.out, o) /\ o.cache = Cached
      BY <1>1, <2>5, <3>2, <3>3, FollowsAll, AllKeepCache
    <3> HIDE DEF o
    <3>5. Follows(feed.endpoint, seen', observer') /\ observer'.cache = Cached
      <4>1. Follows(feed.endpoint, seen \o d.out, MarkInvalid(o)) /\ MarkInvalid(o).cache = Cached
        BY <3>4, FollowsOverflow
      <4>2. QED
        BY <3>1, <3>4, <4>1
    <3>6. QED
      BY <1>1, <1>2, <1>3, <2>3, <3>5 DEF ObserverInv
  <2>6. QED
    BY <2>4, <2>5
<1>7. QED
  BY <1>4, <1>5, <1>6 DEF StreamNext

(* The observer stays with the events. *)
THEOREM StreamsObserver == StreamSpec => []ObserverInv
<1>1. DecoderInv /\ ObserverInv /\ [StreamNext]_streamVars => ObserverInv'
  BY ObserverStep
<1>2. QED
  BY <1>1, ObserverInit, StreamsDecoder, PTL DEF StreamSpec

(* The greatest and the least of a set of numbers, when it has one. *)
LEMMA Greatest ==
  ASSUME NEW S, S \subseteq Int, NEW X \in S, \A m \in S : X >= m
  PROVE  Max(S) = X
<1>1. Max(S) \in S /\ \A m \in S : Max(S) >= m
  BY DEF Max
<1> DEFINE y == Max(S)
<1> HIDE DEF y
<1>2. y \in S /\ y >= X /\ X >= y
  BY <1>1 DEF y
<1>3. y \in Int /\ X \in Int
  BY <1>2
<1>4. y = X
  BY <1>2, <1>3
<1>5. QED
  BY <1>4 DEF y

(* The least. *)
LEMMA Least ==
  ASSUME NEW S, S \subseteq Int, NEW X \in S, \A m \in S : X <= m
  PROVE  Min(S) = X
<1>1. Min(S) \in S /\ \A m \in S : Min(S) <= m
  BY DEF Min
<1> DEFINE y == Min(S)
<1> HIDE DEF y
<1>2. y \in S /\ y <= X /\ X <= y
  BY <1>1 DEF y
<1>3. y \in Int /\ X \in Int
  BY <1>2
<1>4. y = X
  BY <1>2, <1>3
<1>5. QED
  BY <1>4 DEF y

(* The properties' words for an event, of the endpoint. *)
LEMMA EventWords ==
  ASSUME feed.endpoint \in Families, NEW e
  PROVE  LET p == feed.endpoint
         IN  /\ Terminal(e) <=> TermAt(p, e)
             /\ ReportOf(e) = ReportAt(p, e)
<1> DEFINE p == feed.endpoint
<1>1. p \in {"chat", "responses", "messages"}
  BY DEF Families
<1>2. Terminal(e) <=> TermAt(p, e)
  BY DEF Terminal, TermAt, Over
<1> SUFFICES ReportOf(e) = ReportAt(p, e)
  BY <1>2
<1>3. CASE ~Parses(e.data)
  BY <1>3 DEF ReportOf, ReportAt
<1>4. CASE Parses(e.data)
  <2> DEFINE v == Parsed(e.data)
  <2>1. p = "responses" => (Terminal(e) <=> Over(p, e.event, v))
    BY <1>4 DEF Terminal, Over
  <2>2. ReportOf(e) = CASE p = "chat" ->
                    IF v.hasUsage /\ v.listed /\ v.choices = <<>>
                    THEN Reported("chat", v.usage) ELSE NoUsage
               [] p = "responses" ->
                    IF Terminal(e) THEN Reported("responses", v.response.usage) ELSE NoUsage
               [] p = "messages" ->
                    IF /\ v.hasUsage
                       /\ Kind(e.event, v) \in {"message_start", "message_delta"}
                    THEN v.usage ELSE NoUsage
    BY <1>4 DEF ReportOf
  <2>3. ReportAt(p, e) = ReportIn(p, e.event, v)
    BY <1>4 DEF ReportAt
  <2> HIDE DEF p, v
  <2>4. QED
    BY <1>1, <2>1, <2>2, <2>3 DEF ReportIn, p
<1>5. QED
  BY <1>2, <1>3, <1>4

(* The events with an error. *)
LEMMA ErrorsAre ==
  ASSUME NEW h \in Seq(EventType)
  PROVE  /\ Errors(h) = {k \in 1..Len(h) : ErrorAt(feed.endpoint, h[k]) # "none"}
         /\ DOMAIN h = 1..Len(h) /\ Len(h) \in Nat
<1>1. DOMAIN h = 1..Len(h) /\ Len(h) \in Nat
  OBVIOUS
<1>2. \A e : ErrorAt(feed.endpoint, e) # "none" <=>
               \/ Parses(e.data) /\ ResponseError(feed.endpoint, e.event, Parsed(e.data)) # "none"
               \/ ~Parses(e.data) /\ e.event = "error"
  BY DEF ErrorAt
<1>3. QED
  BY <1>1, <1>2, Zenon DEF Errors

(* What is settled is not invalid, and is what was observed. *)
LEMMA SettledIs ==
  ASSUME feed.endpoint \in Families, Follows(feed.endpoint, seen, observer),
         FinishUsage(observer) # NoUsage
  PROVE  /\ Believed(feed.endpoint, seen, observer) /\ observer.terminal
         /\ \A k \in Counts : FinishUsage(observer)[k] = OrZero(observer.usage[k])
<1> DEFINE o == observer
           p == feed.endpoint
           u == o.usage
<1>1. /\ ~o.invalid /\ o.terminal /\ u # NoUsage
      /\ p = "messages" => o.outputSeen /\ u.in # Absent
      /\ FinishUsage(o) = Observed(u)
  BY DEF FinishUsage, Follows
<1>2. Believed(p, seen, o) /\ o.endpoint = p /\ u \in Tallies
  BY <1>1 DEF Follows, ObserverType
<1> HIDE DEF u
<1>3. u.in # Absent /\ u.out # Absent
  <2>1. Known(o)
    BY <1>2 DEF Believed
  <2>2. QED
    BY <1>1, <1>2, <2>1 DEF Known, u
<1>4. \A k \in Counts : Observed(u)[k] = OrZero(u[k])
  <2>1. OrZero(u.in) = u.in /\ OrZero(u.out) = u.out
    BY <1>3 DEF OrZero
  <2>2. QED
    BY <2>1 DEF Observed, Counts
<1>5. QED
  BY <1>1, <1>2, <1>4 DEF u

-----------------------------------------------------------------------------
(* ObserveEvent and FirstError: the error reported is the first in the     *)
(* text, however the stream goes on.                                       *)
THEOREM StreamsFirstErrorReported == StreamSpec => []FirstErrorReported
<1>1. DecoderInv /\ ObserverInv => FirstErrorReported
  <2> SUFFICES ASSUME DecoderInv, ObserverInv, SseAnswer, end = "eof"
               PROVE  LET errors == Errors(seen)
                      IN  result.error =
                            IF errors = {} THEN "none"
                            ELSE LET e == seen[Min(errors)]
                                 IN  IF Parses(e.data)
                                     THEN ResponseError(feed.endpoint, e.event, Parsed(e.data))
                                     ELSE "unknown"
    BY DEF FirstErrorReported, SseAnswer
  <2> DEFINE p == feed.endpoint
             errors == Errors(seen)
  <2>1. Follows(p, seen, observer) /\ result = Concluded /\ seen \in Seq(EventType)
    BY DEF ObserverInv, DecoderInv
  <2>2. result.error = observer.error
    BY <2>1 DEF Concluded, FinishSse, NoResult
  <2>3. FirstAt(p, seen, observer.error)
    BY <2>1 DEF Follows
  <2>4. errors = {k \in 1..Len(seen) : ErrorAt(p, seen[k]) # "none"} /\ Len(seen) \in Nat
    BY <2>1, ErrorsAre
  <2> HIDE DEF errors, p
  <2>5. CASE observer.error = "none" /\ \A k \in 1..Len(seen) : ErrorAt(p, seen[k]) = "none"
    <3>1. errors = {}
      BY <2>4, <2>5
    <3>2. QED
      BY <2>2, <2>5, <3>1 DEF errors
  <2>6. CASE \E k \in 1..Len(seen) :
               /\ observer.error = ErrorAt(p, seen[k]) /\ observer.error # "none"
               /\ \A j \in 1..(k - 1) : ErrorAt(p, seen[j]) = "none"
    <3>1. PICK k \in 1..Len(seen) :
               /\ observer.error = ErrorAt(p, seen[k]) /\ observer.error # "none"
               /\ \A j \in 1..(k - 1) : ErrorAt(p, seen[j]) = "none"
      BY <2>6
    <3>2. k \in errors /\ errors \subseteq Int /\ \A m \in errors : k <= m
      <4>1. \A m \in errors : m \in 1..Len(seen) /\ m \notin 1..(k - 1)
        BY <2>4, <3>1
      <4>2. QED
        BY <2>4, <3>1, <4>1
    <3>3. Min(errors) = k /\ errors # {}
      BY <3>2, Least
    <3>4. ErrorAt(p, seen[k]) = IF Parses(seen[k].data)
                                THEN ResponseError(p, seen[k].event, Parsed(seen[k].data))
                                ELSE "unknown"
      BY <3>1 DEF ErrorAt
    <3>5. QED
      BY <2>2, <3>1, <3>3, <3>4 DEF errors, p
  <2>7. QED
    BY <2>3, <2>5, <2>6 DEF FirstAt
<1>2. QED
  BY <1>1, StreamsDecoder, StreamsObserver, PTL

(* EndpointObserver::finish: what the ledger settles from a stream is the  *)
(* most its text reports, after an end it announces and with no error.     *)
THEOREM StreamsUsageIsFinal == StreamSpec => []UsageIsFinal
<1>1. DecoderInv /\ ObserverInv => UsageIsFinal
  <2> SUFFICES ASSUME DecoderInv, ObserverInv, SseAnswer, result.usage # NoUsage
               PROVE  LET events == Events(text)
                      IN  /\ end = "eof" /\ Errors(events) = {}
                          /\ \E k \in DOMAIN events : Terminal(events[k])
                          /\ \A k \in Counts : result.usage[k] = Most(events, k)
    BY DEF UsageIsFinal, SseAnswer
  <2> DEFINE p == feed.endpoint
             n == Len(seen)
  <2>1. p \in Families
    BY StreamingFamily DEF ObserverInv
  <2>2. end = "eof" /\ result = Concluded
    BY DEF ObserverInv, NoResult
  <2>3. ~decoder.overflowed /\ result.usage = FinishUsage(observer)
    BY <2>2 DEF Concluded, FinishSse, NoResult
  <2>4. seen \in Seq(EventType) /\ seen = Events(text)
    BY <2>3, DecodedMeans DEF DecoderInv
  <2>5. Follows(p, seen, observer)
    BY DEF ObserverInv
  <2>6. /\ Believed(p, seen, observer) /\ observer.terminal
        /\ \A k \in Counts : result.usage[k] = OrZero(observer.usage[k])
    BY <2>1, <2>3, <2>5, SettledIs
  <2>7. /\ Errors(seen) = {k \in 1..n : ErrorAt(p, seen[k]) # "none"}
        /\ DOMAIN seen = 1..n /\ n \in Nat
    BY <2>4, ErrorsAre
  <2>8. \A e : (Terminal(e) <=> TermAt(p, e)) /\ ReportOf(e) = ReportAt(p, e)
    BY <2>1, EventWords
  <2> HIDE DEF p, n
  <2>9. /\ \A k \in 1..n : ErrorAt(p, seen[k]) = "none"
        /\ \E k \in 1..n : TermAt(p, seen[k])
        /\ Summed(p, seen, observer.usage)
    BY <2>6 DEF Believed, n
  <2>10. Errors(seen) = {}
    BY <2>7, <2>9
  <2>11. \E k \in DOMAIN seen : Terminal(seen[k])
    BY <2>7, <2>8, <2>9
  <2>12. ASSUME NEW c \in Counts PROVE OrZero(observer.usage[c]) = Most(seen, c)
    <3> DEFINE R == {ReportOf(seen[i])[c] : i \in DOMAIN seen}
               S == {0} \cup R
               w == OrZero(observer.usage[c])
    <3>1. /\ w \in Nat
          /\ \A i \in 1..n : w >= ReportAt(p, seen[i])[c]
          /\ w = 0 \/ \E i \in 1..n : w = ReportAt(p, seen[i])[c]
      BY <2>9 DEF Summed, n
    <3> HIDE DEF w
    <3>2. \A i \in DOMAIN seen : ReportOf(seen[i])[c] = ReportAt(p, seen[i])[c]
      BY <2>8
    <3>3. w \in S
      BY <2>7, <3>1, <3>2
    <3>4. \A m \in S : w >= m
      BY <2>7, <3>1, <3>2
    <3>5. S \subseteq Int
      <4>1. \A i \in 1..n : ReportAt(p, seen[i])[c] \in Int
        BY <2>1, ReportType
      <4>2. QED
        BY <2>7, <3>2, <4>1
    <3> HIDE DEF S
    <3>6. Max(S) = w
      BY <3>3, <3>4, <3>5, Greatest
    <3>7. QED
      BY <3>6 DEF Most, S, w
  <2>13. QED
    BY <2>2, <2>4, <2>6, <2>10, <2>11, <2>12
<1>2. QED
  BY <1>1, StreamsDecoder, StreamsObserver, PTL

(* EndpointObserver::cache_complete: the cache keeps a stream only if it   *)
(* is one answer and all of it.                                            *)
THEOREM StreamsCompleteMeansWhole == StreamSpec => []CompleteMeansWhole
<1>1. DecoderInv /\ ObserverInv => CompleteMeansWhole
  <2> DEFINE StopsIn(events) ==
               {k \in DOMAIN events :
                        /\ Parses(events[k].data)
                        /\ LET v == Parsed(events[k].data)
                           IN  \/ /\ feed.endpoint = "chat"
                                  /\ \E i \in DOMAIN v.choices : v.choices[i].finish = "stop"
                               \/ /\ feed.endpoint = "messages"
                                  /\ Kind(events[k].event, v) = "message_delta"
                                  /\ v.stop \in {"end_turn", "stop_sequence"}
                               \/ /\ feed.endpoint = "responses"
                                  /\ v.type = "response.completed"
                                  /\ CompleteResponse(v.response)}
  <2> SUFFICES ASSUME DecoderInv, ObserverInv, SseAnswer, result.complete
               PROVE  LET events == Events(text)
                          ends == {k \in DOMAIN events : Terminal(events[k])}
                          stops == StopsIn(events)
                      IN  /\ end = "eof" /\ Cached /\ EndsBetweenEvents(text)
                          /\ Errors(events) = {}
                          /\ ends = {Len(events)}
                          /\ \A k \in DOMAIN events : Parses(events[k].data) \/ k \in ends
                          /\ \E k \in stops : stops = {k}
    BY Zenon DEF CompleteMeansWhole, SseAnswer
  <2>1. \A h : StopsIn(h) = {k \in DOMAIN h : StopAt(feed.endpoint, h[k])}
    BY DEF StopAt, StopIn
  <2> HIDE DEF StopsIn
  <2> DEFINE p == feed.endpoint
             n == Len(seen)
             c == observer.completion
             ends == {k \in DOMAIN seen : Terminal(seen[k])}
             stops == StopsIn(seen)
  <2>2. p \in Families
    BY StreamingFamily DEF ObserverInv
  <2>3. end = "eof" /\ result = Concluded
    BY DEF ObserverInv, NoResult
  <2>4. ~decoder.overflowed /\ AtEventBoundary(decoder) /\ observer.cache /\ Complete(c)
    BY <2>3 DEF Concluded, FinishSse, NoResult, CacheComplete
  <2>5. seen \in Seq(EventType) /\ seen = Events(text) /\ EndsBetweenEvents(text)
    BY <2>4, DecodedMeans DEF DecoderInv
  <2>6. Follows(p, seen, observer) /\ Cached
    BY <2>4 DEF ObserverInv
  <2>7. ~c.invalid /\ c.stopped /\ c.terminal /\ Whole(p, seen, c)
    BY <2>4, <2>6 DEF Follows, Complete
  <2>8. /\ Errors(seen) = {k \in 1..n : ErrorAt(p, seen[k]) # "none"}
        /\ DOMAIN seen = 1..n /\ n \in Nat
    BY <2>5, ErrorsAre
  <2>9. \A e : Terminal(e) <=> TermAt(p, e)
    BY <2>2, EventWords
  <2> HIDE DEF p, n, c
  <2>10. /\ \A k \in 1..n : ErrorAt(p, seen[k]) = "none" /\ (Parses(seen[k].data) \/ TermAt(p, seen[k]))
         /\ \A k \in 1..n : TermAt(p, seen[k]) <=> k = n
         /\ n # 0
         /\ \E k \in 1..n : \A j \in 1..n : StopAt(p, seen[j]) <=> j = k
    BY <2>7 DEF Whole, n
  <2>11. Errors(seen) = {}
    BY <2>8, <2>10
  <2>12. ends = {n}
    BY <2>8, <2>9, <2>10
  <2>13. \A k \in DOMAIN seen : Parses(seen[k].data) \/ k \in ends
    BY <2>8, <2>9, <2>10
  <2>14. \E k \in stops : stops = {k}
    <3>1. stops = {k \in 1..n : StopAt(p, seen[k])}
      BY <2>1, <2>8 DEF p
    <3> HIDE DEF stops
    <3>2. PICK k \in 1..n : \A j \in 1..n : StopAt(p, seen[j]) <=> j = k
      BY <2>10
    <3>3. k \in stops /\ stops = {k}
      BY <3>1, <3>2
    <3>4. QED
      BY <3>3
  <2>15. QED
    BY <2>3, <2>5, <2>6, <2>11, <2>12, <2>13, <2>14, Zenon DEF n
<1>2. QED
  BY <1>1, StreamsDecoder, StreamsObserver, PTL
=============================================================================
