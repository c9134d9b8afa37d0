----------------------------- MODULE Admission -----------------------------
(***************************************************************************)
(* admission/queue.rs and admission/mod.rs: the queue that owns the        *)
(* ledger, the tickets of those who wait in it and the holds of those it   *)
(* admitted.  The queue is one record, changed only under its mutex, so    *)
(* every handler is one step; the waiters' loop and the holders' calls     *)
(* interleave freely, and a future may be dropped at any await.            *)
(*                                                                         *)
(* A request waits in the FIFO of its root.  Queue::drive admits heads in  *)
(* round robin, and only the protected head once some head was bypassed    *)
(* MaxBypasses times or waited MaxAge.  An upstream's rate-limit answers   *)
(* raise a shared cooldown and arm a recovery: until a probe succeeds, one *)
(* request at a time is let through.                                       *)
(***************************************************************************)
EXTENDS Quota, Sequences

CONSTANTS
    Requests,        \* the requests clients make
    NRoots,          \* registered roots
    RootOf, CostOf,  \* root and cost of each request
    WaitOf,          \* how long each may queue (min(wait, 120 s))
    MaxWaiting,      \* MAX_WAITING (64)
    MaxBypasses,     \* MAX_BYPASSES (8)
    MaxAge,          \* MAX_AGE (5 s)
    Rpm, Tpm, Accounting, Concurrency, StartupHold,  \* the configuration
    Backoff,         \* SECONDS with their jitter: stage -> possible delays
    Statuses,        \* upstream answers: "ok", "throttled", "other"
    Delays,          \* delays an upstream announces
    Usages,          \* token counts an upstream reports
    MaxRequeues,     \* bound on how often each request re-enters the queue
    MaxTime          \* bound on the clock

Roots == 0 .. NRoots - 1

ASSUME AdmissionAssumption ==
    /\ NRoots \in 1 .. 16
    /\ RootOf \in [Requests -> Roots]
    /\ CostOf \in [Requests -> Cost]
    /\ WaitOf \in [Requests -> Nat]
    /\ MaxWaiting \in Nat /\ MaxBypasses \in Nat /\ MaxAge \in Nat
    /\ Rpm \in Nat /\ Tpm \in Nat /\ Accounting \in {"reserved", "actual"}
    /\ Concurrency \in 1 .. 16 /\ StartupHold \in Nat
    /\ DOMAIN Backoff = 1 .. Len(Backoff) /\ Len(Backoff) \in Nat \ {0}
    /\ \A s \in 1 .. Len(Backoff) : Backoff[s] # {} /\ Backoff[s] \subseteq Nat
    /\ Statuses \subseteq {"ok", "throttled", "other"}
    /\ Delays \subseteq Nat /\ Usages \subseteq Nat
    /\ MaxRequeues \in [Requests -> Nat] /\ MaxTime \in Nat

VARIABLES
    clock,   \* Clock::now
    q,       \* the Queue, its Ledger and the tickets' result cells
    req      \* each request's ticket or hold

vars == <<clock, q, req>>

-----------------------------------------------------------------------------
(* Option::None for identities, and the result cells: None, Ok(id) (the    *)
(* identity itself) or Err(Deadline).                                      *)
NoId == 0
Expired == -1

NoBarrier == [root |-> 0, sequence |-> 0]
NoRecovery == [armed |-> FALSE, generation_only |-> FALSE, probe |-> NoId]

QueueNew ==
    [ledger |-> LedgerNew(Rpm, Tpm, Accounting, Concurrency, 0, StartupHold),
     cooldown_until |-> 0, generation |-> 0, recovery |-> NoRecovery,
     no_hint_stage |-> 1, roots |-> [root \in Roots |-> <<>>], cursor |-> 0,
     sequence |-> 0, barrier |-> NoBarrier, cell |-> [r \in Requests |-> NoId]]

HeadOf(u, root) == Head(u.roots[root])
Busy(u) == {root \in Roots : u.roots[root] # <<>>}
QLen(u) == MapThenSumSet(LAMBDA root : Len(u.roots[root]), Roots)

-----------------------------------------------------------------------------
(* The recovery gate. *)
Exempt(u, cost) == u.recovery.generation_only /\ ~IsGeneration(cost)

Eligible(u, cost) ==
    u.recovery.armed => Exempt(u, cost) \/ u.recovery.probe = NoId

(* Fault: only the cooldown is looked at. *)
MayStartCooled(u, t, id, cost) == t >= u.cooldown_until

MayStart(u, t, id, cost) ==
    /\ t >= u.cooldown_until
    /\ u.recovery.armed => Exempt(u, cost) \/ u.recovery.probe = id

RaiseCooldown(u, until) == [u EXCEPT !.cooldown_until = Later(@, until)]

ArmRecovery(u, t, delay, generation_only) ==
    [RaiseCooldown(u, t + delay) EXCEPT
        !.generation = @ + 1,
        !.recovery = [armed |-> TRUE, probe |-> NoId,
                      generation_only |-> generation_only \/ @.generation_only]]

(* Fault: a late rejection leaves every claim. *)
LateIgnored(u, cost) ==
    IF IsGeneration(cost) /\ u.recovery.armed THEN [u EXCEPT !.recovery.generation_only = TRUE]
    ELSE u

(* Queue::throttle for an answer to a request sent in an older generation: *)
(* its timing is not counted twice, but a generation's rejection still     *)
(* ends a metadata probe's claim.                                          *)
StaleThrottle(u, cost) ==
    IF IsGeneration(cost) /\ u.recovery.armed /\ ~u.recovery.generation_only
    THEN IF u.recovery.probe # NoId /\ IsActiveGeneration(u.ledger, u.recovery.probe)
         THEN [u EXCEPT !.recovery.generation_only = TRUE]
         ELSE [u EXCEPT !.recovery.generation_only = TRUE, !.recovery.probe = NoId,
                        !.generation = @ + 1]
    ELSE u

(* All outcomes of Queue::throttle: the missing-hint backoff is jittered.  *)
Throttle(u, t, generation, cost, has_timing) ==
    IF generation # u.generation THEN {StaleThrottle(u, cost)}
    ELSE IF has_timing THEN {ArmRecovery(u, t, 0, IsGeneration(cost))}
    ELSE {[ArmRecovery(u, t, d, IsGeneration(cost)) EXCEPT
              !.no_hint_stage = IF @ < Len(Backoff) THEN @ + 1 ELSE @] :
          d \in Backoff[u.no_hint_stage]}

Accepted(u, t, id, generation) ==
    IF /\ generation = u.generation
       /\ t >= u.cooldown_until
       /\ u.recovery.armed /\ u.recovery.probe = id
    THEN [u EXCEPT !.recovery = NoRecovery, !.no_hint_stage = 1]
    ELSE u

(* Fault: the claim is kept. *)
KeepProbe(u, id) == u

ReleaseProbe(u, id) ==
    IF u.recovery.armed /\ u.recovery.probe = id
    THEN [u EXCEPT !.recovery.probe = NoId] ELSE u

-----------------------------------------------------------------------------
(* Queue::protect: a barrier stays while its head waits; a new one goes to *)
(* the oldest head once any head is bypassed or aged too much.             *)
Older(v, w) ==
    \/ v.enqueued < w.enqueued
    \/ v.enqueued = w.enqueued /\ v.sequence <= w.sequence

Protected(u) ==
    /\ u.barrier # NoBarrier
    /\ u.barrier.root \in Busy(u)
    /\ HeadOf(u, u.barrier.root).sequence = u.barrier.sequence

(* Fault: age alone protects nobody. *)
ProtectBypassed(u, t) ==
    LET bypassed == {root \in Busy(u) : HeadOf(u, root).bypasses >= MaxBypasses}
    IN  IF Protected(u) THEN u
        ELSE [u EXCEPT !.barrier =
                 IF bypassed = {} THEN NoBarrier
                 ELSE LET root == CHOOSE root \in bypassed : TRUE
                      IN  [root |-> root, sequence |-> HeadOf(u, root).sequence]]

Protect(u, t) ==
    LET Triggers(w) == w.bypasses >= MaxBypasses \/ t >= w.enqueued + MaxAge
        oldest == CHOOSE root \in Busy(u) :
                      \A other \in Busy(u) : Older(HeadOf(u, root), HeadOf(u, other))
    IN  IF Protected(u) THEN u
        ELSE IF \E root \in Busy(u) : Triggers(HeadOf(u, root))
        THEN [u EXCEPT !.barrier = [root |-> oldest,
                                    sequence |-> HeadOf(u, oldest).sequence]]
        ELSE [u EXCEPT !.barrier = NoBarrier]

(* A root's line without the tickets of some requests, in order.           *)
Without(line, gone) ==
    LET kept[n \in 0 .. Len(line)] ==
            IF n = 0 THEN <<>>
            ELSE IF line[n].req \in gone THEN kept[n - 1]
            ELSE Append(kept[n - 1], line[n])
    IN  kept[Len(line)]

(* The first half of Queue::drive: tickets past their deadline fail.       *)
Expire(u, t) ==
    LET gone == {r \in Requests : \E root \in Roots : \E k \in 1 .. Len(u.roots[root]) :
                    u.roots[root][k].req = r /\ t >= u.roots[root][k].deadline}
    IN  [u EXCEPT
            !.roots = [root \in Roots |-> Without(u.roots[root], gone)],
            !.cell = [r \in Requests |-> IF r \in gone THEN Expired ELSE u.cell[r]]]

(* One pass of the loop of Queue::drive: protect, then admit at most one   *)
(* head.  A pass that admits nobody ends the loop, and repeating it        *)
(* changes nothing.                                                        *)
Distance(u, root) == (root - u.cursor + NRoots) % NRoots

(* Fault: the barrier is ignored. *)
SelectNearest(u, fits) ==
    {root \in fits : \A other \in fits : Distance(u, root) <= Distance(u, other)}

Select(u, fits) ==
    IF u.barrier # NoBarrier THEN fits \cap {u.barrier.root}
    ELSE {root \in fits : \A other \in fits : Distance(u, root) <= Distance(u, other)}

RootAfter(root) == (root + 1) % NRoots

AdmitHead(u, root, fits) ==
    LET cost == CostOf[HeadOf(u, root).req]
        id == u.ledger.next + 1
        Bypass(other) == other \in Busy(u) \ (fits \cup {root})
    IN  [u EXCEPT
            !.roots = [other \in Roots |->
                IF other = root THEN Tail(u.roots[root])
                ELSE IF Bypass(other)
                THEN [u.roots[other] EXCEPT ![1].bypasses = @ + 1]
                ELSE u.roots[other]],
            !.ledger = LedgerAdmit(u.ledger, cost),
            !.recovery.probe =
                IF u.recovery.armed /\ ~Exempt(u, cost) THEN id ELSE @,
            !.cell[HeadOf(u, root).req] = id,
            !.cursor = RootAfter(root)]

DrivePass(u, t) ==
    LET p == Protect(u, t)
        a == IF Busy(p) = {} THEN p ELSE [p EXCEPT !.ledger = LedgerAdvance(@, t)]
        fits == {root \in Busy(a) :
                    LET cost == CostOf[HeadOf(a, root).req]
                    IN  LedgerFits(a.ledger, cost) /\ Eligible(a, cost)}
        selected == Select(a, fits)
    IN  IF t < p.cooldown_until THEN p
        ELSE IF selected = {} THEN a
        ELSE AdmitHead(a, CHOOSE root \in selected : TRUE, fits)

Drive(u, t) ==
    LET e == Expire(u, t)
        pass[n \in 0 .. MaxWaiting + 1] ==
            IF n = 0 THEN e
            ELSE CHOOSE next \in {DrivePass(w, t) : w \in {pass[n - 1]}} : TRUE
    IN  pass[MaxWaiting + 1]

(* Faults of the wake-up time: the cooldown and the ledger are left out,   *)
(* or the deadlines and ages are.                                          *)
WakeAtDeadline(u, t) ==
    LET queued == UNION {{u.roots[root][k] : k \in 1 .. Len(u.roots[root])} : root \in Roots}
    IN  IF queued = {} THEN Never ELSE Min({w.deadline : w \in queued})

WakeAtResource(u, t) ==
    IF t < u.cooldown_until THEN u.cooldown_until ELSE NextWake(u.ledger)

(* When Queue::drive asks to be called again; Never when nobody waits.     *)
WakeAt(u, t) ==
    LET queued == UNION {{u.roots[root][k] : k \in 1 .. Len(u.roots[root])} : root \in Roots}
        ages == {HeadOf(u, root).enqueued + MaxAge : root \in Busy(u)}
        resource == IF t < u.cooldown_until THEN u.cooldown_until
                    ELSE NextWake(u.ledger)
        times == {w.deadline : w \in queued} \cup {at \in ages : at > t}
                     \cup ({resource} \ {Never})
    IN  IF queued = {} THEN Never ELSE Min(times)

(* Fault: the ticket leaves a reservation it won behind. *)
CancelQueuedOnly(u, t, r) ==
    Protect([u EXCEPT !.roots[RootOf[r]] = Without(@, {r}),
                      !.cell[r] = NoId], t)

(* Queue::cancel: the ticket leaves, with the reservation it may have won. *)
CancelTicket(u, t, r) ==
    LET left == [u EXCEPT
                    !.roots[RootOf[r]] = Without(@, {r}),
                    !.cell[r] = NoId]
        id == u.cell[r]
    IN  Protect(IF id > NoId
                THEN ReleaseProbe([left EXCEPT !.ledger = LedgerCancel(@, t, id)], id)
                ELSE left, t)

-----------------------------------------------------------------------------
(* What a request's task is doing:                                         *)
(*   idle       not yet arrived                                            *)
(*   waiting    in the loop of acquire_at, with a Ticket                   *)
(*   held       owns a Hold that has not started                           *)
(*   sent       its wire attempt has no answer yet                         *)
(*   rejecting  429 headers seen, the body not yet classified              *)
(*   refused    delivering an error body                                   *)
(*   streaming  delivering a 200 body                                      *)
(*   requeue    the Hold is dropped, acquire_at not yet entered            *)
(*   done       answered or given up                                       *)
(* generation, exhausted, enqueued (wait_started) and deadline are the     *)
(* Hold's fields; woken is the enabled Notified future, wake its timer;    *)
(* timing classifies the 429's Retry-After: valid, missing or malformed.   *)
HoldPhases == {"held", "sent", "rejecting", "refused", "streaming"}

Idle == [phase |-> "idle", id |-> NoId, generation |-> 0, exhausted |-> FALSE,
         timing |-> "missing", enqueued |-> 0, deadline |-> 0, woken |-> FALSE,
         wake |-> Never, replayed |-> FALSE, requeues |-> 0]

In(phase) == {r \in Requests : req[r].phase = phase}

(* A finished request keeps no Hold; its record returns to a fixed value.  *)
Done == [Idle EXCEPT !.phase = "done"]

(* Notify::notify_waiters: everyone who enabled a Notified future wakes.   *)
(* The code notifies just after it unlocks the queue; a waiter enables its *)
(* future before it locks, so a notification in between is never missed    *)
(* and is taken here with the handler that sends it.                       *)
NotifyWaiters(rq) ==
    [r \in Requests |-> IF rq[r].phase = "waiting" THEN [rq[r] EXCEPT !.woken = TRUE]
                        ELSE rq[r]]

Init ==
    /\ clock = 0
    /\ q = QueueNew
    /\ req = [r \in Requests |-> Idle]

(* acquire_at up to its loop: drive for those already waiting, enqueue,    *)
(* notify.  Queue::enqueue refuses a cost that can never fit and a full    *)
(* queue.                                                                  *)
Enqueue(u, r, enqueued, deadline) ==
    [u EXCEPT !.sequence = @ + 1,
              !.roots[RootOf[r]] = Append(@,
                  [req |-> r, enqueued |-> enqueued, deadline |-> deadline,
                   sequence |-> u.sequence + 1, bypasses |-> 0])]

AcquireAt(r, enqueued, deadline) ==
    IF clock >= deadline
    THEN /\ req' = [req EXCEPT ![r] = Done]
         /\ UNCHANGED <<clock, q>>
    ELSE LET driven == Drive(q, clock)
             refused == \/ ~TotalFits(driven.ledger, CostOf[r])
                        \/ QLen(driven) >= MaxWaiting
             rest == IF QLen(driven) # QLen(q) THEN NotifyWaiters(req) ELSE req
         IN  /\ clock' = clock
             /\ \/ /\ refused
                   /\ q' = driven
                   /\ req' = [rest EXCEPT ![r] = Done]
                \/ /\ ~refused
                   /\ q' = Enqueue(driven, r, enqueued, deadline)
                   /\ req' = NotifyWaiters(
                        [req EXCEPT ![r].phase = "waiting",
                                    ![r].id = NoId, ![r].generation = 0,
                                    ![r].exhausted = FALSE, ![r].timing = "missing",
                                    ![r].enqueued = enqueued, ![r].deadline = deadline,
                                    ![r].wake = Never])

(* Arrivals stop early enough that every deadline fits under MaxTime.      *)
Acquire(r) ==
    /\ req[r].phase = "idle"
    /\ clock + WaitOf[r] <= MaxTime
    /\ AcquireAt(r, clock, clock + WaitOf[r])

Reacquire(r) ==
    /\ req[r].phase = "requeue"
    /\ AcquireAt(r, req[r].enqueued, req[r].deadline)

(* One turn of the waiter's loop, started by a notification or its timer.  *)
(* The turn may admit or expire other tickets, and its own may have been   *)
(* decided by someone else's turn.                                         *)
Ready(r) ==
    \/ req[r].woken
    \/ req[r].wake # Never /\ clock >= req[r].wake

CanPoll(r) == req[r].phase = "waiting" /\ Ready(r)

Poll(r) ==
    /\ CanPoll(r)
    /\ LET driven == Drive(q, clock)
           outcome == driven.cell[r]
           asleep == [req EXCEPT ![r].woken = FALSE, ![r].wake = WakeAt(driven, clock)]
       IN  /\ q' = [driven EXCEPT !.cell[r] = NoId]
           /\ req' =
                IF outcome = Expired THEN NotifyWaiters([req EXCEPT ![r] = Done])
                ELSE IF outcome # NoId
                THEN NotifyWaiters([req EXCEPT ![r].phase = "held", ![r].id = outcome,
                                               ![r].woken = FALSE, ![r].wake = Never])
                ELSE IF QLen(driven) # QLen(q) THEN NotifyWaiters(asleep)
                ELSE asleep
    /\ UNCHANGED clock

(* Ticket::drop: the waiting future is dropped (disconnect, deadline of    *)
(* the caller, shutdown).  Nobody drives; the others are only notified.    *)
Abandon(r) ==
    /\ req[r].phase = "waiting"
    /\ q' = CancelTicket(q, clock, r)
    /\ req' = NotifyWaiters([req EXCEPT ![r] = Done])
    /\ UNCHANGED clock

(* A request waiting between Hold::retry and acquire_at may be dropped     *)
(* too; it owns nothing in the queue.                                      *)
AbandonRequeue(r) ==
    /\ req[r].phase = "requeue"
    /\ req' = [req EXCEPT ![r] = Done]
    /\ UNCHANGED <<clock, q>>

-----------------------------------------------------------------------------
(* The holder's calls. *)
Start(r) ==
    /\ req[r].phase = "held"
    /\ MayStart(q, clock, req[r].id, CostOf[r])
    /\ q' = [q EXCEPT !.ledger = LedgerStart(@, clock, req[r].id)]
    /\ req' = NotifyWaiters([req EXCEPT ![r].phase = "sent",
                                        ![r].generation = q.generation])
    /\ UNCHANGED clock

(* Hold::drop: settle a started reservation, cancel one that never was.    *)
Release(u, r, usage) ==
    LET id == req[r].id
        settled == IF req[r].phase = "held" THEN LedgerCancel(u.ledger, clock, id)
                   ELSE LedgerFinish(u.ledger, clock, id, usage)
    IN  ReleaseProbe([u EXCEPT !.ledger = settled], id)

Drop(r) ==
    /\ req[r].phase \in HoldPhases
    /\ \E usage \in {NoUsage} \cup (IF req[r].phase = "streaming" THEN Usages ELSE {}) :
          q' = Release(q, r, usage)
    /\ req' = NotifyWaiters([req EXCEPT ![r] = Done])
    /\ UNCHANGED clock

(* Hold::retry, before it awaits: an unstarted hold that Hold::start or    *)
(* the circuit refused, or the one replay of a recognised rejection.       *)
Retry(r) ==
    /\ \/ req[r].phase = "held"
       \/ req[r].phase = "refused" /\ req[r].timing \in {"valid", "missing"}
                                   /\ ~req[r].replayed
    /\ req[r].requeues < MaxRequeues[r]
    /\ q' = Release(q, r, NoUsage)
    /\ req' = NotifyWaiters([req EXCEPT
                 ![r].phase = "requeue", ![r].requeues = @ + 1,
                 ![r].replayed = @ \/ req[r].phase = "refused"])
    /\ UNCHANGED clock

(* Hold::headers.  hint is feedback::exhausted: an upstream may announce   *)
(* with any status that a budget is used up and when it refills.           *)
Hints == [delay : Delays, generation_only : BOOLEAN]
NoHint == [delay |-> -1, generation_only |-> FALSE]

HeadersQueue(u, r, status, cooldown, hint) ==
    LET cooled == IF cooldown >= 0 THEN RaiseCooldown(u, clock + cooldown) ELSE u
        armed == IF hint = NoHint THEN cooled
                 ELSE ArmRecovery(cooled, clock, hint.delay,
                                  hint.generation_only \/ IsGeneration(CostOf[r]))
    IN  CASE status = "ok" -> Accepted(armed, clock, req[r].id, req[r].generation)
          [] status = "other" -> ReleaseProbe(armed, req[r].id)
          [] status = "throttled" -> armed

Answer == {[status |-> s, timing |-> "missing", cooldown |-> -1] :
              s \in Statuses \cap {"ok", "other"}}
          \cup {[status |-> s, timing |-> tm, cooldown |-> -1] :
              s \in Statuses \cap {"throttled"}, tm \in {"missing", "malformed"}}
          \cup {[status |-> s, timing |-> "valid", cooldown |-> d] :
              s \in Statuses \cap {"throttled"}, d \in Delays}

Headers(r) ==
    /\ req[r].phase = "sent"
    /\ \E a \in Answer, hint \in Hints \cup {NoHint} :
          /\ q' = HeadersQueue(q, r, a.status, a.cooldown, hint)
          /\ req' = NotifyWaiters([req EXCEPT
                 ![r].phase = CASE a.status = "ok" -> "streaming"
                                [] a.status = "other" -> "refused"
                                [] a.status = "throttled" -> "rejecting",
                 ![r].timing = IF a.status = "other" THEN "malformed" ELSE a.timing,
                 ![r].exhausted = hint # NoHint])
    /\ UNCHANGED clock

(* Hold::rejected: the 429's body was read (or skipped) and recognised as  *)
(* a transient rate limit, or not.  Only a recognised one may be replayed. *)
Rejected(r) ==
    /\ req[r].phase = "rejecting"
    /\ \E recognized \in BOOLEAN :
          /\ \E u \in IF recognized /\ ~req[r].exhausted /\ req[r].timing # "malformed"
                      THEN Throttle(q, clock, req[r].generation, CostOf[r],
                                    req[r].timing = "valid")
                      ELSE {q} :
                q' = ReleaseProbe(u, req[r].id)
          /\ req' = NotifyWaiters([req EXCEPT
                 ![r].phase = "refused",
                 ![r].timing = IF recognized THEN @ ELSE "malformed"])
    /\ UNCHANGED clock

(* Admission::status: reading the ledger advances it. *)
Status ==
    /\ q' = [q EXCEPT !.ledger = LedgerAdvance(@, clock)]
    /\ UNCHANGED <<clock, req>>

Tick ==
    /\ clock < MaxTime
    /\ clock' = clock + 1
    /\ UNCHANGED <<q, req>>

Next ==
    \/ Tick
    \/ Status
    \/ \E r \in Requests :
          \/ Acquire(r) \/ Reacquire(r) \/ Poll(r) \/ Abandon(r) \/ AbandonRequeue(r)
          \/ Start(r) \/ Drop(r) \/ Retry(r) \/ Headers(r) \/ Rejected(r)

(* Time passes and the runtime polls a task whose future is ready.  The    *)
(* second conjunct is weak fairness of Poll with its enabling condition    *)
(* written out.                                                            *)
Fairness ==
    /\ WF_vars(Tick)
    /\ \A r \in Requests : []<>~CanPoll(r) \/ []<><<Poll(r)>>_vars

Spec == Init /\ [][Next]_vars /\ Fairness

-----------------------------------------------------------------------------
Queued(u) == UNION {Range(u.roots[root]) : root \in Roots}

(* No reservation leaks and none is shared: the ledger's active entries    *)
(* are exactly those some ticket won or some hold owns, one each.          *)
OwnedReservations ==
    LET won == {r \in Requests : q.cell[r] > NoId}
        holding == {r \in Requests : req[r].phase \in HoldPhases}
        Id(r) == IF r \in won THEN q.cell[r] ELSE req[r].id
    IN  /\ won \cap holding = {}
        /\ Active(q.ledger) = {Id(r) : r \in won \cup holding}
        /\ \A r, s \in won \cup holding : Id(r) = Id(s) => r = s

(* A decided ticket has a waiter that will look at it, and a queue in      *)
(* which everyone sleeps has nobody to admit or to expire: no release,     *)
(* rejection, cooldown or expiry goes by without a wake-up.                *)
NoLostWakeup ==
    /\ \A r \in Requests : q.cell[r] # NoId => req[r].phase = "waiting" /\ req[r].woken
    /\ (\A r \in In("waiting") : ~Ready(r)) => Drive(q, clock).cell = q.cell

(* While a recovery is armed, at most one request that it gates is on the  *)
(* wire and can still prove the upstream recovered.                        *)
SingleProbe ==
    q.recovery.armed =>
        Cardinality({r \in In("sent") : /\ req[r].generation = q.generation
                                        /\ ~Exempt(q, CostOf[r])}) <= 1

(* A probe's claim always belongs to somebody who will give it back, so    *)
(* the requests behind it are not stranded; and once a generation's        *)
(* rejection counts, be it a late one, no metadata request holds the claim *)
(* to prove that generations are accepted again.  (Queue::throttle.)       *)
ProbeOwned ==
    q.recovery.armed /\ q.recovery.probe # NoId =>
        /\ q.recovery.probe \in Active(q.ledger)
        /\ q.recovery.generation_only => IsActiveGeneration(q.ledger, q.recovery.probe)

NewlyAdmitted == {r \in Requests : q.cell[r] = NoId /\ q'.cell[r] > NoId} \cup
                 {r \in Requests : req[r].phase = "waiting" /\ req'[r].phase = "held"
                                   /\ q.cell[r] = NoId}

StillQueued(w) == \E v \in Queued(q') : v.sequence = w.sequence

(* While the protected head waits, nobody else is admitted. *)
BarrierExclusive ==
    [][Protected(q) /\ StillQueued(HeadOf(q, q.barrier.root)) => NewlyAdmitted = {}]_vars

(* A head that was bypassed too often or waited too long is only passed by *)
(* requests older than itself and by the head protected before it.         *)
OnlyOlderPass ==
    [][\A root \in Busy(q) :
         LET w == HeadOf(q, root)
         IN  /\ w.bypasses >= MaxBypasses \/ clock >= w.enqueued + MaxAge
             /\ StillQueued(w)
             => \A v \in Queued(q) : v.req \in NewlyAdmitted =>
                    \/ Older(v, w)
                    \/ Protected(q) /\ v = HeadOf(q, q.barrier.root)]_vars

(* Whoever waits is eventually admitted, expired or gone. *)
WaitersResolve ==
    \A r \in Requests : req[r].phase = "waiting" ~> req[r].phase # "waiting"

(* What each request has, as its caller sees it: a reservation is its own  *)
(* from the moment the queue made it, before its waiter looks.             *)
SlotOf(r) ==
    CASE req[r].phase = "waiting" -> IF q.cell[r] > NoId THEN "held" ELSE "waiting"
      [] req[r].phase = "held" -> "held"
      [] req[r].phase \in HoldPhases \ {"held"} -> "started"
      [] OTHER -> "none"

Promise == INSTANCE Slots WITH slot <- [r \in Requests |-> SlotOf(r)]

(* The queue, its ledger and its recovery implement what Slots promises:   *)
(* never more than Concurrency places, each granted to one who waits, used *)
(* at most once and free again only when it is given back.                 *)
KeepsPromise == Promise!Spec
=============================================================================
