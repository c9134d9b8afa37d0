------------------------------ MODULE Gateway ------------------------------
(***************************************************************************)
(* server.rs and transport/stream.rs: one request from its arrival to the  *)
(* end of its response, and the server around it.  A handler (the hyper    *)
(* connection's future) reads the body, consults cache and circuit, waits  *)
(* for admission and sends a worker to the supervisor; the worker forwards *)
(* the request, perhaps replays it once, and streams the answer through a  *)
(* bounded channel.  Handlers, workers, the supervisor and the accept loop *)
(* are tasks that interleave; any of them may be aborted at an await.      *)
(*                                                                         *)
(* Admission is used through its promise (Slots).  Circuit and ExactCache  *)
(* are reduced to what their callers tell apart: a gate with at most one   *)
(* probe, and a key with at most one flight that all requests share.       *)
(* Whether an open circuit still delays and whether a lookup hits are left *)
(* open.                                                                   *)
(* Upstream and client are free to do anything at any time.                *)
(*                                                                         *)
(* Select branches are biased: a disconnect and a stop are seen before     *)
(* progress.  Time is not counted: each deadline may pass at any moment    *)
(* while its timer runs, and passes in the end.                            *)
(***************************************************************************)
EXTENDS Integers, FiniteSets, FiniteSetsExt

CONSTANTS
    Requests,
    Concurrency,     \* of admission
    Cacheable,       \* requests the cache does not bypass
    Fickle,          \* requests whose client may disconnect
    Limited,         \* requests the upstream may answer with a 429
    Policies,        \* CancelPolicy values; each request is taken under any
    WorkerQueue,     \* capacity of the worker channel (16)
    DeliveryItems,   \* DELIVERY_ITEMS (8), a chunk being one item
    Frames,          \* how many frames each request's body has
    BodyLimit,       \* PER_REQUEST_LIMIT, in frames
    StoredLimit,     \* TOTAL_STORED_LIMIT, in frames
    Earlier,         \* a request with the same key from before
    None

ASSUME GatewayAssumption ==
    /\ IsFiniteSet(Requests) /\ {None, Earlier} \cap Requests = {} /\ None # Earlier
    /\ Cacheable \subseteq Requests /\ Fickle \subseteq Requests
    /\ Limited \subseteq Requests
    /\ Policies \subseteq {"close", "drain"}
    /\ Concurrency \in Nat \ {0} /\ WorkerQueue \in Nat \ {0}
    /\ Frames \in [Requests -> Nat]
    /\ DeliveryItems \in Nat \ {0} /\ BodyLimit \in Nat /\ StoredLimit \in Nat

VARIABLES
    x,             \* each request: its handler, its worker and what joins them
    slot,          \* what each request has of admission
    gate, probe,   \* the circuit: closed, open or half, and who probes
    flight,        \* the request that owns the key's flight, or Earlier
    stop,          \* the stop channel
    server,        \* serve
    supervisor,    \* supervise_workers
    force,         \* force_workers was sent or its sender dropped
    active, draining   \* gauges of Metrics

circuit == <<gate, probe>>
cache == <<flight>>
lifecycle == <<stop, server, supervisor, force>>
gauges == <<active, draining>>
vars == <<x, slot, circuit, cache, lifecycle, gauges>>

Admission == INSTANCE Slots

-----------------------------------------------------------------------------
(* handler   idle, body, circuit, turn, recheck, queue, spawn, head, relay *)
(*           (the response is out, hyper delivers its body), done          *)
(* worker    none, queued (in the channel), gate (its hold unused), parked *)
(*           (waits for a probe, without a hold), again (queues again),    *)
(*           sent, classify (a 429 that may be replayed), refused (one     *)
(*           that may not), replay, stream, deliver, gone                  *)
(* result    what a worker that is gone left for the handler: lost         *)
(*           (no head, or an error), or after a good head eof or fail      *)
(* body      frames of the request body in the budget                      *)
(* queue     chunks in the delivery channel                                *)
(* drain     the worker goes on without a client                           *)
(* prefix    bytes read to classify a 429 are still owed to the client     *)
(* eof, sends, end   history: upstream EOF, wire attempts, whether the     *)
(*           client saw less than the body                                 *)
Fresh == [handler |-> "idle", worker |-> "none", here |-> TRUE,
          result |-> "none", body |-> 0, queue |-> 0, retried |-> FALSE,
          drain |-> FALSE, prefix |-> FALSE, eof |-> FALSE,
          sends |-> 0, end |-> "none"]

PreSpawn == {"body", "circuit", "turn", "recheck", "queue", "spawn"}
PreStart == {"gate", "parked", "again", "replay"}
OnWire == {"sent", "classify", "refused", "stream", "deliver"}
Working == PreStart \cup OnWire

Alive(r) == x[r].handler \notin {"idle", "done"}

(* Nothing is left of a request: its record returns to a fixed value.      *)
Settled(y) ==
    IF y.handler = "done" /\ y.worker \in {"none", "gone"}
    THEN [Fresh EXCEPT !.handler = "done", !.worker = "gone", !.end = y.end]
    ELSE y

Update(r, y) == x' = [x EXCEPT ![r] = Settled(y)]

(* A server that has served: requests before these may have left the       *)
(* circuit open, and one that is still answered may own the flight.        *)
Init ==
    /\ x = [r \in Requests |-> Fresh]
    /\ Admission!Init
    /\ gate \in {"closed", "open"} /\ probe = None
    /\ flight \in {None, Earlier}
    /\ stop = FALSE /\ server = "serving" /\ supervisor = "running" /\ force = FALSE
    /\ active = 0 /\ draining = 0

SlotFree(r) == slot' = [slot EXCEPT ![r] = "none"]

(* Pending and Capture release the flight when they are dropped. *)
EndFlight(r) == flight' = IF flight = r THEN None ELSE flight

(* What becomes of an Attempt: failure, complete or dropped without an     *)
(* outcome.  A failure beside the probe may be the one that opens.         *)
Resolve(r, outcome) ==
    \/ /\ probe = r
       /\ probe' = None
       /\ gate' = CASE outcome = "complete" -> "closed"
                    [] OTHER -> "open"
    \/ /\ probe # r
       /\ probe' = probe
       /\ \/ gate' = gate
          \/ outcome = "failure" /\ gate = "closed" /\ gate' = "open"

-----------------------------------------------------------------------------
(* The handler.  Whatever ends it drops what it owns: before the worker is *)
(* handed over the body, the flight, the ticket or hold; afterwards the    *)
(* receiving ends of the channels.                                         *)
HandlerEnds(r) ==
    /\ Update(r, [x[r] EXCEPT !.handler = "done", !.queue = 0,
                     !.body = IF x[r].handler \in PreSpawn THEN 0 ELSE @])
    /\ IF x[r].handler \in PreSpawn THEN SlotFree(r) /\ EndFlight(r)
       ELSE UNCHANGED <<slot, cache>>
    /\ UNCHANGED <<circuit, lifecycle, gauges>>

Advance(r, phase) ==
    /\ Update(r, [x[r] EXCEPT !.handler = phase])
    /\ UNCHANGED <<slot, circuit, cache, lifecycle, gauges>>

(* A new connection, up to the body: a gateway that is stopping, headers,  *)
(* route or length may refuse the request, and so may the connection limit.*)
Arrive(r) ==
    /\ server = "serving"
    /\ x[r].handler = "idle"
    /\ Advance(r, "done") \/ (~stop /\ Advance(r, "body"))

Calm(r, phase) == x[r].handler = phase /\ ~stop /\ x[r].here

(* A stop, a disconnect, or the deadline of the request or of its queueing.*)
Interrupt(r) ==
    /\ x[r].handler \in PreSpawn \ {"spawn"}
    /\ HandlerEnds(r)

(* BodyBudget::read, one frame: a body over its limit or a full budget is  *)
(* refused, and so is one whose read fails or takes too long.              *)
StoredFrames == MapThenSumSet(LAMBDA r : x[r].body, Requests)

BodyFrame(r) ==
    /\ Calm(r, "body") /\ x[r].body < Frames[r]
    /\ \/ /\ x[r].body < BodyLimit /\ StoredFrames < StoredLimit
          /\ Update(r, [x[r] EXCEPT !.body = @ + 1])
          /\ UNCHANGED <<slot, circuit, cache, lifecycle, gauges>>
       \/ HandlerEnds(r)

(* inspect_body may refuse; the first lookup may hit. *)
BodyRead(r) ==
    /\ Calm(r, "body") /\ x[r].body = Frames[r]
    /\ \/ HandlerEnds(r)
       \/ Advance(r, "circuit")

(* Scope::wait, before and after the cache's turn. *)
CircuitWait(r) ==
    /\ Calm(r, "circuit") \/ Calm(r, "recheck")
    /\ \/ gate = "open" /\ HandlerEnds(r)
       \/ /\ gate \in {"closed", "open"}
          /\ Advance(r, IF x[r].handler = "circuit" /\ r \in Cacheable
                        THEN "turn" ELSE "queue")

(* The earlier request ends its flight. *)
EarlierEnds ==
    /\ flight = Earlier
    /\ flight' = None
    /\ UNCHANGED <<x, slot, circuit, lifecycle, gauges>>

(* Pending::wait_for_turn *)
WaitForTurn(r) ==
    /\ Calm(r, "turn")
    /\ \/ HandlerEnds(r)
       \/ /\ flight = None
          /\ flight' = r
          /\ Update(r, [x[r] EXCEPT !.handler = "recheck"])
          /\ UNCHANGED <<slot, circuit, lifecycle, gauges>>

(* Admission::acquire: refused, or waiting until granted; then the cache   *)
(* is looked up again.                                                     *)
Acquire(r) ==
    /\ Calm(r, "queue") /\ slot[r] = "none"
    /\ \/ HandlerEnds(r)
       \/ Admission!Enter(r, {}) /\ UNCHANGED <<x, circuit, cache, lifecycle, gauges>>

Grant(r) ==
    /\ Admission!Grant({r})
    /\ UNCHANGED <<x, circuit, cache, lifecycle, gauges>>

Admitted(r) ==
    /\ Calm(r, "queue") /\ slot[r] = "held"
    /\ \/ r \in Cacheable /\ HandlerEnds(r)
       \/ Advance(r, "spawn")

(* WorkerSpawner::spawn waits for room in the channel; a stop or a closed  *)
(* channel drops the worker with all it owns.                              *)
InChannel == {r \in Requests : x[r].worker = "queued"}

Spawn(r) ==
    /\ x[r].handler = "spawn"
    /\ \/ (stop \/ supervisor # "running") /\ HandlerEnds(r)
       \/ /\ ~stop /\ supervisor = "running" /\ Cardinality(InChannel) < WorkerQueue
          /\ Update(r, [x[r] EXCEPT !.handler = "head", !.worker = "queued"])
          /\ UNCHANGED <<slot, circuit, cache, lifecycle, gauges>>

HeadSent(r) ==
    \/ x[r].worker \in {"stream", "deliver"}
    \/ x[r].worker = "gone" /\ x[r].result \in {"eof", "fail"}

(* The head, an error or a dropped sender, or the deadline. *)
TakeHead(r) ==
    /\ x[r].handler = "head"
    /\ \/ HeadSent(r) /\ Advance(r, "relay")
       \/ ~HeadSent(r) /\ HandlerEnds(r)

(* downstream_body, polled by hyper: the queued chunks, then the terminal; *)
(* a worker that left none counts as a failure.                            *)
Read(r) ==
    /\ x[r].handler = "relay" /\ x[r].queue > 0
    /\ Update(r, [x[r] EXCEPT !.queue = @ - 1])
    /\ UNCHANGED <<slot, circuit, cache, lifecycle, gauges>>

(* Fault: the terminal is looked at before the queue is empty. *)
BodyOverEarly(r) == x[r].worker = "gone"

BodyOver(r) == x[r].worker = "gone" /\ x[r].queue = 0

Truncated(r) ==
    x[r].result = "eof" /\ x[r].here /\ (~x[r].eof \/ x[r].drain \/ x[r].queue > 0)

ReadEnd(r) ==
    /\ x[r].handler = "relay"
    /\ BodyOver(r)
    /\ Update(r, [x[r] EXCEPT !.handler = "done", !.queue = 0,
                     !.end = IF Truncated(r) THEN "truncated" ELSE @])
    /\ UNCHANGED <<slot, circuit, cache, lifecycle, gauges>>

(* The connection breaks: the disconnect flag is set first, then the       *)
(* connection's future, and the handler in it, is dropped.                 *)
Disconnect(r) ==
    /\ r \in Fickle /\ Alive(r) /\ x[r].here
    /\ Update(r, [x[r] EXCEPT !.here = FALSE])
    /\ UNCHANGED <<slot, circuit, cache, lifecycle, gauges>>

DropHandler(r) ==
    /\ Alive(r) /\ ~x[r].here
    /\ HandlerEnds(r)

-----------------------------------------------------------------------------
(* The worker. *)

(* WorkerGuard::drop gives back the hold and the gauges; the attempt, the  *)
(* cache's capture and the request body go with the future.                *)
GuardDrop(r) ==
    /\ active' = active - 1
    /\ draining' = IF x[r].drain THEN draining - 1 ELSE draining

WorkerGone(y, result) ==
    [y EXCEPT !.worker = "gone", !.result = result, !.body = 0]

WorkerEnds(r, result, outcome) ==
    /\ Update(r, WorkerGone(x[r], result))
    /\ SlotFree(r)
    /\ Resolve(r, outcome)
    /\ EndFlight(r)
    /\ GuardDrop(r)
    /\ UNCHANGED lifecycle

(* The supervisor takes the future from the channel; its first poll counts *)
(* the worker.                                                             *)
WorkerSpawn(r) ==
    /\ supervisor \in {"running", "closing"}
    /\ x[r].worker = "queued"
    /\ Update(r, [x[r] EXCEPT !.worker = "gate"])
    /\ active' = active + 1
    /\ UNCHANGED <<slot, circuit, cache, lifecycle, draining>>

(* The sender's closed(): the handler took no head, or dropped the body.   *)
Closed(r) == x[r].handler = "done"

(* Before a wire attempt every signal ends the worker, and so does either  *)
(* deadline.                                                               *)
Called(r) == ~x[r].here \/ Closed(r) \/ stop

StartInterrupted(r) ==
    /\ x[r].worker \in PreStart
    /\ WorkerEnds(r, "lost", "dropped")

(* Circuit and hold are started together.  A hold that a new quota gate    *)
(* refuses gives up the attempt (the probe it may be) and its place.       *)
StartBoth(r) ==
    /\ gate \in {"closed", "open"}
    /\ Admission!Use(r)
    /\ Update(r, [x[r] EXCEPT !.worker = "sent", !.sends = @ + 1])
    /\ gate' = IF gate = "open" THEN "half" ELSE gate
    /\ probe' = IF gate = "open" THEN r ELSE probe
    /\ UNCHANGED <<cache, lifecycle, gauges>>

(* Fault: the refused attempt is kept while the worker queues again. *)
StartRefusedKeeping(r) ==
    /\ gate \in {"closed", "open"}
    /\ Admission!Leave(r)
    /\ Update(r, [x[r] EXCEPT !.worker = "again"])
    /\ gate' = IF gate = "open" THEN "half" ELSE gate
    /\ probe' = IF gate = "open" THEN r ELSE probe
    /\ UNCHANGED <<cache, lifecycle, gauges>>

StartRefused(r) ==
    /\ gate \in {"closed", "open"}
    /\ Admission!Leave(r)
    /\ Update(r, [x[r] EXCEPT !.worker = "again"])
    /\ UNCHANGED <<circuit, cache, lifecycle, gauges>>

(* Fault: the place is kept while the probe is awaited, then asked for     *)
(* again.                                                                  *)
StartProbingHolding(r) ==
    /\ gate = "half"
    /\ Update(r, [x[r] EXCEPT !.worker = "again"])
    /\ slot' = [slot EXCEPT ![r] = "waiting"]
    /\ UNCHANGED <<circuit, cache, lifecycle, gauges>>

(* Open::Probing: the place is given back before the probe is awaited.     *)
StartProbing(r) ==
    /\ gate = "half"
    /\ Admission!Leave(r)
    /\ Update(r, [x[r] EXCEPT !.worker = "parked"])
    /\ UNCHANGED <<circuit, cache, lifecycle, gauges>>

Start(r) ==
    /\ x[r].worker = "gate" /\ ~Called(r)
    /\ \/ StartBoth(r) \/ StartRefused(r) \/ StartProbing(r)
       \/ gate = "open" /\ WorkerEnds(r, "lost", "dropped")

Parked(r) ==
    /\ x[r].worker = "parked" /\ ~Called(r)
    /\ \/ gate = "open" /\ WorkerEnds(r, "lost", "dropped")
       \/ /\ gate \in {"closed", "open"}
          /\ Update(r, [x[r] EXCEPT !.worker = "again"])
          /\ UNCHANGED <<slot, circuit, cache, lifecycle, gauges>>

(* Hold::retry, once awaited: refused, or queued and granted as before.    *)
Reacquire(r) ==
    /\ x[r].worker \in {"again", "replay"} /\ ~Called(r)
    /\ \/ slot[r] = "none" /\ WorkerEnds(r, "lost", "dropped")
       \/ Admission!Enter(r, {}) /\ UNCHANGED <<x, circuit, cache, lifecycle, gauges>>
       \/ /\ slot[r] = "held"
          /\ Update(r, [x[r] EXCEPT !.worker = "gate",
                                    !.retried = @ \/ x[r].worker = "replay"])
          /\ UNCHANGED <<slot, circuit, cache, lifecycle, gauges>>

-----------------------------------------------------------------------------
(* On the wire.  A deadline ends the worker; a client that is gone ends it *)
(* too, or under the drain policy lets it read the answer to its end, with *)
(* no capture.  While a chunk is being delivered only the channel tells.   *)
Deserted(r) ==
    \/ Closed(r)
    \/ ~x[r].here /\ x[r].worker # "deliver"

Rest(r) == IF x[r].worker \in {"stream", "deliver"} THEN "fail" ELSE "lost"

(* Fault: a chunk that waits for room is not interrupted by the deadline.  *)
WireDeadlineUndelivered(r) ==
    /\ x[r].worker \in OnWire \ {"deliver"}
    /\ WorkerEnds(r, Rest(r),
                  IF x[r].worker = "sent" THEN "failure" ELSE "dropped")

WireDeadline(r) ==
    /\ x[r].worker \in OnWire
    /\ WorkerEnds(r, Rest(r),
                  IF x[r].worker = "sent" THEN "failure" ELSE "dropped")

StartDraining(r) ==
    /\ Update(r, [x[r] EXCEPT !.drain = TRUE,
                     !.worker = IF @ = "deliver" THEN "stream" ELSE @])
    /\ draining' = draining + 1
    /\ EndFlight(r)
    /\ UNCHANGED <<slot, circuit, lifecycle, active>>

WireDeserted(r) ==
    /\ x[r].worker \in OnWire
    /\ ~x[r].drain /\ Deserted(r)
    /\ \/ "close" \in Policies /\ WorkerEnds(r, Rest(r), "dropped")
       \/ "drain" \in Policies /\ StartDraining(r)

Undisturbed(r, phase) ==
    /\ x[r].worker = phase
    /\ x[r].drain \/ ~Deserted(r)

(* The request fails in transport; building it may fail too, which is no   *)
(* failure of the upstream, nor is a timeout of a body.                    *)
WireError(r) ==
    /\ \E phase \in OnWire \ {"deliver"} : Undisturbed(r, phase)
    /\ \E outcome \in {"failure", "dropped"} :
          WorkerEnds(r, Rest(r), outcome)

(* The answer is passed on: the request body is dropped, the head sent.    *)
(* Only a 200 is captured, and only for a client that is still there.      *)
Streaming(r, prefix) ==
    Update(r, [x[r] EXCEPT !.worker = "stream", !.body = 0, !.prefix = prefix])

KeepFlight(r) == ~x[r].drain /\ UNCHANGED cache

HeadersOk(r) ==
    /\ Undisturbed(r, "sent")
    /\ Streaming(r, FALSE)
    /\ KeepFlight(r) \/ EndFlight(r)
    /\ UNCHANGED <<slot, circuit, lifecycle, gauges>>

HeadersError(r) ==
    /\ Undisturbed(r, "sent")
    /\ Streaming(r, FALSE)
    /\ Resolve(r, "failure") \/ UNCHANGED circuit
    /\ EndFlight(r)
    /\ UNCHANGED <<slot, lifecycle, gauges>>

(* A 429 may be replayed once, if its headers allow it and the client is   *)
(* there; only then does the request keep its flight.                      *)
(* Fault: a replayed request may be replayed again. *)
CanRetryAgain(r) == ~x[r].drain

CanRetry(r) == ~x[r].retried /\ ~x[r].drain

HeadersThrottled(r) ==
    /\ Undisturbed(r, "sent") /\ r \in Limited
    /\ \/ /\ CanRetry(r)
          /\ Update(r, [x[r] EXCEPT !.worker = "classify"])
          /\ UNCHANGED cache
       \/ /\ Update(r, [x[r] EXCEPT !.worker = "refused"])
          /\ EndFlight(r)
    /\ UNCHANGED <<slot, circuit, lifecycle, gauges>>

(* probe_rejection read a complete transient error: the attempt succeeded, *)
(* its place is given back, and the request queues for another.            *)
Replay(r) ==
    /\ Undisturbed(r, "classify") /\ ~x[r].drain
    /\ Update(r, [x[r] EXCEPT !.worker = "replay"])
    /\ Admission!Leave(r)
    /\ Resolve(r, "complete")
    /\ UNCHANGED <<cache, lifecycle, gauges>>

(* Anything else is an answer, whose bytes read so far come first. *)
PassRejection(r) ==
    /\ Undisturbed(r, "classify") \/ Undisturbed(r, "refused")
    /\ \E prefix \in BOOLEAN : Streaming(r, prefix)
    /\ EndFlight(r)
    /\ UNCHANGED <<slot, circuit, lifecycle, gauges>>

(* A chunk is observed (it may be a server error, and too long to capture) *)
(* and then delivered, or discarded when nobody listens.                   *)
Chunk(r) ==
    /\ Undisturbed(r, "stream")
    /\ Update(r, [x[r] EXCEPT !.prefix = FALSE,
                     !.worker = IF x[r].drain THEN "stream" ELSE "deliver"])
    /\ KeepFlight(r) \/ EndFlight(r)
    /\ Resolve(r, "failure") \/ UNCHANGED circuit
    /\ UNCHANGED <<slot, lifecycle, gauges>>

(* deliver: a permit and a place in the channel. *)
Deliver(r) ==
    /\ x[r].worker = "deliver" /\ ~Closed(r)
    /\ x[r].queue < DeliveryItems
    /\ Update(r, [x[r] EXCEPT !.worker = "stream", !.queue = @ + 1])
    /\ UNCHANGED <<slot, circuit, cache, lifecycle, gauges>>

(* The end of the upstream body: an error seen in it proves nothing about  *)
(* recovery; Capture::commit and its drop both end the flight.             *)
Eof(r) ==
    /\ Undisturbed(r, "stream") /\ ~x[r].prefix
    /\ \E outcome \in {"complete", "failure", "dropped"} : Resolve(r, outcome)
    /\ Update(r, [WorkerGone(x[r], "eof") EXCEPT !.eof = TRUE])
    /\ SlotFree(r) /\ GuardDrop(r)
    /\ EndFlight(r)
    /\ UNCHANGED lifecycle

-----------------------------------------------------------------------------
(* An authenticated stop, or a signal. *)
Stop ==
    /\ ~stop /\ stop' = TRUE
    /\ UNCHANGED <<x, slot, circuit, cache, server, supervisor, force, gauges>>

Serve(to, forced) ==
    /\ server' = to /\ force' = forced
    /\ UNCHANGED <<x, slot, circuit, cache, stop, supervisor, gauges>>

HandlersDone == \A r \in Requests : ~Alive(r)

(* serve: accept until stopped, drain for limits.shutdown, then abort the  *)
(* handlers and after them the workers.  A failing accept returns at once, *)
(* which drops the handlers and the force sender.                          *)
ServeStops == server = "serving" /\ stop /\ Serve("draining", force)

AcceptFails == server \in {"serving", "draining"} /\ Serve("failed", TRUE)

Drained ==
    /\ server = "draining" /\ HandlersDone /\ supervisor = "done"
    /\ Serve("stopped", TRUE)

DrainTimeout == server = "draining" /\ Serve("aborting", force)

AbortHandler(r) ==
    /\ server \in {"aborting", "failed"}
    /\ Alive(r)
    /\ HandlerEnds(r)

ForceWorkers == server = "aborting" /\ HandlersDone /\ Serve("forcing", TRUE)

(* Fault: serve returns without waiting for the supervisor. *)
ForcedUnjoined == server = "forcing" /\ Serve("stopped", TRUE)

Forced == server = "forcing" /\ supervisor = "done" /\ Serve("stopped", TRUE)

(* supervise_workers *)
Supervise(to) ==
    /\ supervisor' = to
    /\ UNCHANGED <<x, slot, circuit, cache, stop, server, force, gauges>>

NoWorkers == \A r \in Requests : x[r].worker \notin Working \cup {"queued"}

SupervisorStops == supervisor = "running" /\ stop /\ ~force /\ Supervise("closing")

SupervisorForced == supervisor \in {"running", "closing"} /\ force /\ Supervise("aborting")

SupervisorDone == supervisor \in {"closing", "aborting"} /\ NoWorkers /\ Supervise("done")

(* A worker is aborted at its await, or dropped in the channel unpolled.   *)
AbortWorker(r) ==
    /\ supervisor = "aborting"
    /\ x[r].worker \in Working
    /\ WorkerEnds(r, Rest(r), "dropped")

DropQueued(r) ==
    /\ supervisor = "aborting"
    /\ x[r].worker = "queued"
    /\ Update(r, WorkerGone(x[r], "lost"))
    /\ SlotFree(r) /\ EndFlight(r)
    /\ UNCHANGED <<circuit, lifecycle, gauges>>

-----------------------------------------------------------------------------
(* What the runtime and its timers bring about, whatever upstream, client  *)
(* and admission do.                                                       *)
Prompt(r) ==
    \/ Interrupt(r) \/ Spawn(r) \/ TakeHead(r)
    \/ DropHandler(r) \/ AbortHandler(r)

Driven(r) ==
    \/ WorkerSpawn(r) \/ StartInterrupted(r) \/ WireDeadline(r)
    \/ AbortWorker(r) \/ DropQueued(r)

Shutdown ==
    \/ ServeStops \/ Drained \/ DrainTimeout \/ ForceWorkers \/ Forced
    \/ SupervisorStops \/ SupervisorForced \/ SupervisorDone

Next ==
    \/ Shutdown \/ Stop \/ AcceptFails \/ EarlierEnds
    \/ \E r \in Requests :
          \/ Prompt(r) \/ Driven(r)
          \/ Arrive(r) \/ BodyFrame(r) \/ BodyRead(r) \/ CircuitWait(r)
          \/ WaitForTurn(r) \/ Acquire(r) \/ Grant(r) \/ Admitted(r)
          \/ Read(r) \/ ReadEnd(r) \/ Disconnect(r)
          \/ Start(r) \/ Parked(r) \/ Reacquire(r)
          \/ WireDeserted(r) \/ WireError(r)
          \/ HeadersOk(r) \/ HeadersError(r) \/ HeadersThrottled(r)
          \/ Replay(r) \/ PassRejection(r) \/ Chunk(r) \/ Deliver(r) \/ Eof(r)

Fairness ==
    /\ WF_vars(Shutdown)
    /\ \A r \in Requests :
          WF_vars(Prompt(r)) /\ WF_vars(Driven(r))

Spec == Init /\ [][Next]_vars /\ Fairness

-----------------------------------------------------------------------------
(* Whatever ended a handler or a worker, nothing it had is left behind: a  *)
(* place, the flight, body memory and the probe each belong to a task that *)
(* still runs and still needs them, and the gauges count those tasks.      *)
NothingLeaks ==
    /\ \A r \in Requests :
          LET early == x[r].handler \in PreSpawn \/ x[r].worker \in PreStart \cup {"queued"}
          IN  /\ slot[r] \in {"waiting", "held"} => early
              /\ slot[r] = "started" <=> x[r].worker \in OnWire
              /\ flight = r => early \/ (x[r].worker \in OnWire /\ ~x[r].drain)
              /\ x[r].body > 0 => early \/ x[r].worker \in {"sent", "classify", "refused"}
              /\ probe = r => x[r].worker \in OnWire
    /\ gate = "half" <=> probe # None
    /\ active = Cardinality({r \in Requests : x[r].worker \in Working})
    /\ draining = Cardinality({r \in Requests : x[r].worker \in Working /\ x[r].drain})

(* A request is sent once, and a second time only as the one replay.       *)
OneReplay == \A r \in Requests : x[r].sends <= 2

(* A body that ends cleanly for a client that is still there is the whole  *)
(* upstream body, bytes read to classify a rejection included.             *)
CleanMeansComplete == \A r \in Requests : x[r].end # "truncated"

(* When serve has returned from a shutdown, no handler, worker or place    *)
(* outlives it.                                                            *)
StoppedMeansQuiet ==
    server = "stopped" =>
        HandlersDone /\ NoWorkers /\ \A r \in Requests : slot[r] = "none"

(* Something that must come to an end has not: a request without a         *)
(* response, a worker, or a server that was told to stop.                  *)
Pending ==
    \/ \E r \in Requests :
          \/ Alive(r) /\ x[r].handler # "relay"
          \/ x[r].worker \in Working \cup {"queued"}
    \/ stop /\ server \notin {"stopped", "failed"}

(* Everything that began comes to an end: every request that arrived is    *)
(* answered or dropped, its worker ends though upstream, client and queue  *)
(* may stall for good, and a stop ends the server.                         *)
Resolved == []<>~Pending

(* The gateway keeps to what admission expects of its callers. *)
UsesAdmission == Admission!Spec
=============================================================================
