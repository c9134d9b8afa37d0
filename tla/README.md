# DeskQuota in TLA+

DeskQuota (`llmgw`) is a local gateway: client tools send LLM requests to one process
on the same machine, which shares an upstream's request, token and concurrency budget
between them. These modules model the parts of it whose correctness depends on order:
who may send when, what happens when a request is dropped half way, what a stream that
is cut anywhere says, and what commands, crashes and other programs leave behind. All
source paths below are relative to `src/product/src/`.

## The system and its parts

| Part | State | Operations | What is hard |
|---|---|---|---|
| Ledger (`admission/quota.rs`) | reservations with their debits and expiries, the largest time seen, an identity counter | admit, start, cancel, finish, snapshot | a rolling window that holds, debits and late charges share |
| Admission (`admission/queue.rs`, `mod.rs`) | one FIFO per root, round-robin cursor, barrier, cooldown, recovery and its probe, waiters' result cells; all under one mutex | acquire, the waiter's loop, ticket drop, hold start, headers, rejected, retry, drop | a waiter's turn decides other waiters' tickets; every future may be dropped at any await; lost wake-ups; starvation |
| Upstream signals (`admission/feedback.rs`, `retry.rs`) | none | parse rate-limit headers and error bodies | late and contradictory answers |
| Circuit (`circuit.rs`) | bounded table of scopes, each closed, open or half-open; a waiter count | start, wait, headers/failure, complete, drop | answers of earlier generations; a probe that vanishes; eviction |
| Exact cache (`cache.rs`) | entries, keys in flight, byte budget, counters | lookup, wait_for_turn, capture, observe, commit, drop | single flight with owners that fail; bytes pinned by replays |
| Forwarding worker (`transport/stream.rs`) | a hold, a circuit attempt, a capture, a delivery channel | start, requeue, one replay, body loop, drain | composes the three above under two deadlines |
| Stream observers (`transport/stream.rs`, `protocol/`) | decoder, terminal and usage state of a stream | one chunk, one event at a time | chunk boundaries; incomplete or contradictory streams |
| Body budget (`transport/body_budget.rs`) | a byte semaphore | read | cancellation while growing |
| Server (`server.rs`, `control.rs`) | workers, connections, stop channel | serve, supervise, stop | shutdown races |
| Lifecycle (`lifecycle/`) | two locks, runtime record, control token, worker processes | status, on, off, restart, worker | concurrent commands, crashes |
| Setup (`setup/`) | the config, pending metadata | review, publish, activate | stale reviews, crashes between files |
| File replacement (`file_replace.rs`) | destination and two private copies | replace, recover | partial failure |
| Autostart (`autostart/`) | a file, and what a login manager made of it | preview, apply, roll back | no lock; manager calls that fail |
| Connect (`cli.rs`, `clients/`) | the client's file | preview, confirm, activate, patch | everything may change between preview and patch |
| Client edits (`config_patch/`) | journal, private copies, client files | apply, restore, recover | crashes and edits by others |
| Configuration (`config*`) | none | parse, validate | nothing: pure functions |

A request reaches the server, is read under the body budget, looked up in the cache,
and waits for its turn there when a duplicate is being filled. It then waits in the
admission queue for a hold, and its worker asks the circuit for an attempt and the hold
for permission just before the wire request. The answer's headers go to the circuit and
to the hold; the body is decoded, observed for usage and errors, and copied to the
cache. Dropping the hold, the attempt and the capture settles them, at whatever point
the request ends. Around this one process, commands of the same user share files and
advisory locks: lifecycle commands start and stop the worker, setup publishes a config
and has a worker started on it, connect does so for a client and then patches the
client's file, autostart registers the worker with the login manager.

## Modules

| Module | Extends or uses | Contents |
|---|---|---|
| `Quota` | | the ledger's operations as operators on a ledger record |
| `Ledger` | `Quota` | the ledger as a state machine, with a history of what was sent |
| `LedgerProofs` | `Ledger`, `SumTheorems` | theorems |
| `Slots` | | abstract specification: what admission promises its callers |
| `Admission` | `Quota`, instance of `Slots` | queue, tickets and holds |
| `AdmissionProofs` | `Admission`, `SumTheorems` | theorems, with the refinement of `Slots` and the barrier |
| `Circuit` | | the circuit breaker and its workers |
| `CircuitProofs` | `Circuit` | theorems |
| `ExactCache` | | the exact cache, its single flight and its budget |
| `ExactCacheProofs` | `ExactCache`, `SumTheorems` | theorems |
| `Gateway` | instance of `Slots` | handlers, workers, supervisor and server; composes admission, circuit, cache and body budget |
| `TransportProofs` | `Gateway`, `Streams`, `SumTheorems` | theorems of both, with the use of `Slots` |
| `Sse` | | the decoder as operators, and the format's definition |
| `Observers` | | the three families' observers, response errors, usage, `StreamCompletion` |
| `Streams` | `Sse`, `Observers` | one answer passing the observer chunk by chunk |
| `ConfigPatch` | | journalled edits of client files and their restore |
| `ConfigPatchProofs` | `ConfigPatch` | theorems |
| `Lifecycle` | | status, on, off, restart and the worker processes |
| `Setup` | `Lifecycle` | the apply of a reviewed draft, with Windows file replacement |
| `Connect` | `Setup` | cli connect |
| `Autostart` | `Lifecycle` | the login registration |
| `Host` | `Connect`, `Autostart` | all programs of one machine together, and their properties |
| `HostProofs` | `Host` | theorems |
| `SumTheorems` | | lemmas about finite sums and least members |
| `MC...` | | small instances for TLC |

Operators whose comment begins with *Fault* are deliberately wrong variants of the
definition below them. No specification uses them; replacing the definition by its
fault shows that a property notices.

### Ledger and Quota

`ledger` is the `Ledger` struct, `entries` a function from reservation identities;
`wire` is a history variable with the time and the tokens of each send. One action per
method: `Admit`, `Start`, `Cancel`, `Finish`, `Snapshot` (which also stands for `check`:
both only prune). Every call may pass any time and any identity, so calls in the wrong
order, calls repeated and stale clocks are all included. Time 0 stands for `None`.

### Admission and Slots

`q` is the `Queue` with its ledger and the tickets' result cells, `req` each request's
place in `acquire_at` or in its `Hold`. `Drive` is the whole of `Queue::drive`: expire,
then passes of protect/select/admit until one admits nobody; its `MaxWaiting + 1`
passes suffice because each admits one of at most `MaxWaiting` tickets. `Acquire` and
`Reacquire` are the first half of `acquire_at`, `Poll` one turn of its loop, `Abandon`
the drop of its future; `Start`, `Headers`, `Rejected`, `Retry` and `Drop` are the
holder's calls. `Status` is there because reading the ledger advances it.

A waiter registers its `Notified` future *before* it takes the lock, so a notification
sent between its turn and its sleep is kept; that is why a handler and the notification
it sends after unlocking are one step. A notification that is never sent is found by
`NoLostWakeup`; the opposite order of registering and locking is not expressed in the model
(nor in `Circuit`, which makes the same step of it). The parsers of upstream headers appear as the set
of answers they can give: a 429 with valid, missing or malformed timing, and with any
status an exhaustion hint. `Admission::cooldown` (tests only) and the scheduling
policies of the benchmark build are left out.

`Slots` is what a caller relies on: a request asks for a place, may be granted one of
`Concurrency` places, may use it once, and gives it back. The refinement mapping
(`SlotOf`) gives a ticket its place from the moment the queue reserved it, before its
waiter looks. `KeepsPromise` says that `Admission` implements `Slots`; `Gateway` is
built on `Slots` alone, and `UsesAdmission` says it keeps the caller's side.

### Circuit

`entries` is the table, `worker` each worker's place and its `Attempt`. `Scope::start`
has three outcomes and is three actions (`StartBypass`, `StartTracked`, `StartBlocked`);
`Wait` is one turn of `Scope::wait`; `Fail` and `Complete` are `Attempt::resolve`; `Drop`
is the attempt's destructor. `Attempt::complete` consumes the attempt, but the lock is
released between resolving and dropping it, so they are two steps.

### ExactCache

`pending` follows each cacheable request through `Pending`, `Capture` and `Replay`;
`entries` maps a key to the request that filled it. `Lookup` and `LookupAgain` are the
calls of `handle_request` before and after admission, `WaitForTurn` one turn of
`wait_for_turn`, `Capture`/`RefuseCapture` the outcomes of `Pending::capture`, `Commit`
and `GiveUpCapture` the ends of a capture, `Abandon` the drop of a request anywhere in
between. The semaphore's permits live in captures and entries, so `Used` computes them.
When a capture is dropped, its flight is released an instant before its permits; here
they are released together. Whether a response qualifies is a free choice here and
computed in `Streams`.

### Gateway

`x[r]` is everything about one request: where its handler is, where its worker is, and
what joins them (the body's frames in the budget, the delivery channel, the head that
was or was not sent). `slot`, `gate`/`probe` and `flight` are admission, circuit and
cache as their callers see them; the requests before these may have left the circuit
open or own the flight. `HandlerEnds` and `WorkerEnds` are the destructors: whatever
ends a task (a stop, a disconnect, a deadline, an abort) drops what it owns at that
point and nothing else. The worker's start is one step per outcome: circuit and hold
start together (`StartBoth`), the hold is refused by a newer quota gate and the attempt
given up (`StartRefused`), somebody else probes and the place is given back before the
wait (`StartProbing`), or the circuit refuses. On the wire a 429 may be classified and
replayed once; a client that is gone closes the exchange or lets it drain, depending on
the policy. `serve` drains, then aborts handlers, then forces the workers;
`supervise_workers` closes its channel, spawns what is still in it, and aborts.

Simplifications: time is not counted, each deadline may pass at any moment while its
timer runs; the connection limit is part of `Arrive`'s refusal; the supervisor's spawn
and the worker's first poll are one step; waiter limits of circuit and cache belong to
their own modules; whether a request is refused for its contents is a free choice.
An accept error while draining makes `serve` return at once (`server = "failed"`), and
then nothing is claimed about workers that still run.

### Streams, Sse and Observers

A text is a sequence of symbols: bytes the format gives a meaning, and words it does not
look into. The field names `data` and `event` are words too, so a chunk boundary falls
between any two symbols but never within a name. `Sse` has `SseDecoder` byte for byte (mark, line ends, field names, storage
and name limits) and, next to it, `Events`: what a whole text says, line by line,
without any state between bytes. `Observers` translates `EndpointObserver` with its
three families, `response_error`, the usage totals and `StreamCompletion`; a JSON value
is a record of what the code looks at. `Streams` passes a body in any chunks through
both and decides at its end what usage is settled, whether the cache keeps the body and
which error is reported. The marker of the first output delta, which only a metric
counts, is left out.

### ConfigPatch

`file` is what the client files hold, `disk` the journals as saved, `op` the command at
work on each journal with its journal in memory, `lock` the adjacent lock files. Apply is
`BeginApply`, then per file `Prepare` (up to the save as backed up), `Publish` (check and
replace), `Record`, `Verify`, and `FinishApply`; restore is `BeginRestore`, per file
`RestoreFile` (decide and write) and `SettleFile` (read back and save), and
`FinishRestore`. Every save and every replacement may fail, a replacement also after it
took effect; `Crash` kills a command anywhere; `UserEdit` is any other editor. The check
just before a replacement and the replacement are one step, since the code claims no
compare-and-swap against other editors. A failure first saves the file's stage and then
the journal's status; nobody looks at the journal in between, and a crash there leaves what
the next apply treats alike, so the two saves are one. A preview is checked by apply itself, so reviewing
and applying are one step. Contents are values per key and a hash is what it hashes. A
replacement is atomic here; its partial failure on Windows is modelled in `Setup`.

### Lifecycle, Setup, Connect, Autostart and Host

`cmd[c]` is a command process with its place and its locks, `worker[w]` a worker process
with the contents it loaded; both run once. A config is its own fingerprint, a process
its own nonce. Trying a lock is a step and releasing it another, because a poll that
holds `worker.lock` for a moment is visible to others. `status` is a subroutine that
returns to the place `ret` names. `Reaches` and `Obeys` are the authenticated control
API: an answer counts only from the instance the record named.

`Setup` continues in the same `cmd[c]`: `Apply` checks the reviewed snapshots under
`setup.lock`, `Inspected` decides what may be done to the worker, then config and
metadata are written, tokens made (`Initialise`) and the worker brought up. `Replace`
to `Cleaned` are `replace_existing_with_recovery`. `Connect` is preview, confirmation, a
second look, an apply or an activation if needed, and the patch; `--restart` is a free
choice where it is used. Setup's own client stage is such a connect.

`Autostart` keeps the registration file and the manager's view (loaded definition,
enabled) apart, because on Linux a unit may be loaded from contents the file no longer
has. `Check` compares file and manager with the preview; after it a change looks no more.
Install moves whatever file is present aside, places the new one and calls the manager;
each step may fail, and then the rollback may fail in any part, as its errors are
dropped in the code. `Disable`, `Unlink` and `ReloadUnits` are the steps of a removal.
`Meddle` is anybody else who registers under the same label, at any time, between any two of
these steps.

`Host` composes them over a set of *scenes* (system, commands that are given, number of
events); an event is a crash, a failed system call or unanswered handshake, an edit by the user,
a start in the foreground or at login, or a foreign registration.

All contents share one listen address. The existing-backup path of setup is left out, and pending
metadata, which the same function writes, appears atomically.

## Runs

| Run | Instance | Shows |
|---|---|---|
| `ledger` | window 2, clock 0..4, 4 identities, 3 entries, RPM unknown or 2, TPM 4, both accountings, costs 0 and 2, usages 0 and 3, startup hold 1 | rolling budgets, settlement exactly once |
| `admission_schedule` | a request of the whole token budget against two of half, two roots, queue of 2, barrier after 1 bypass or age 1, one requeue | no leak, no lost wake-up, the barrier, the refinement of `Slots` |
| `admission_recovery` | a generation and a metadata request, each may queue twice, all kinds of answers, backoff 1 and 2 | one probe, always owned; waiters are resolved |
| `circuit` | three workers in one scope, one in another, a table of 1, 1 waiter, threshold 2, 4 generations, clock 0..3 | counting, one probe, no lost waiter, late answers ignored, half-open ends |
| `exact_cache` | three identical requests and another, one entry, one flight, budget 3 with entries of at most 2, ttl 1 | single flight, budget with replays, counters |
| `gateway` | two requests, two places, channel and delivery queue of 1, one frame each; the first is cacheable, may lose its client and may be rate-limited | nothing leaks, one replay, clean bodies are whole, shutdown, use of `Slots`, everything ends |
| `streams` | 13 feeds: raw texts in every chunking up to 4, 6 or 12 symbols, event sequences of up to 6 events per family, JSON bodies, storage 4, tokens up to 3 | decoder against the definition; usage, completeness and error of a stream |
| `patch_files` | one journal with two values, an existing and a missing file, one key, 2 applies, 1 crash, 1 edit | the journal covers the files; restore undoes interrupted applies |
| `patch_journals` | two journals, a missing file with two keys, 2 applies, 1 crash, 1 edit | restore leaves what others wrote |
| `host` | two commands, two workers, two contents, eight scenes of one or two events on three systems | answers are true, only verified workers are stopped, replaced files are recoverable, clients patched only when ready, foreign registrations stop a change at its check |
| `patch_retry`, `host_on` | see Disagreements | violations |

The bounds are the smallest at which the cases happen. Two units of window and a clock
of twice that let a debit expire, be charged late and expire again. Three requests are
needed for a head, a bypasser and a barrier; a queue of two is full with one outside.
Four workers cover a probe, a stale attempt, a waiter and one that needs the table's
only slot. Four cached requests cover an owner, a waiter, a third in line and a competitor
for the budget. In the gateway a place for each of two requests lets one probe while the
other finds the scope half-open; a channel of one makes spawn and delivery wait. Feeds
are long enough for an answer of each family with something wrong in any place. Two
applies are a connect and a reconnect, one crash interrupts either. Two commands race in
every pair a scene allows; one event lets anything go wrong once, two let it go wrong
while something else is being recovered.

Symmetry: keys, a journal's values, and the two journals together with their values in
the patch runs; identical requests in the cache; commands, workers and contents in the
host runs. No property with symmetry is a liveness property. Deadlock is checked for the
circuit; the other systems stop when every request is done, identities run out, the clock
reaches its bound, the server has stopped, the body has ended, or every command is done.

**Admission.** `OwnedReservations`: the ledger's active entries are exactly those of
live holds and of tickets that won one. `NoLostWakeup`: when everybody sleeps, driving
the queue would decide nobody. `BarrierExclusive` and `OnlyOlderPass` are what the
barrier promises: `MaxBypasses` itself is no bound on how often a head is passed, since
older heads may still be served before it. `SingleProbe` and `ProbeOwned` are about the
recovery gate: one probe on the wire, and a claim that some owner will give back, which
once a generation was rejected must be a generation's. That a late answer does not lengthen
the backoff or end the recovery is a guard of each handler and no property of its own.

**Circuit.** `OneProbe` says both that two workers never probe together and that a
half-open scope is never without its probe. `OpenOnlyProbed` says that late answers
change nothing.

**Cache.** `FlightsOwned` and `WaitersHaveOwner` are single flight; `BudgetRespected`
counts evicted entries that are still replayed; `CaptureSettledOnce` is the comment in
the code that a captured body commits or records one reason.

**Gateway.** `NothingLeaks` relates every resource to a task that still runs and still
needs it, and the gauges to those tasks. `CleanMeansComplete`: a client that is still
there sees a clean end only after every byte, the ones read to classify a rejection
included. `StoppedMeansQuiet` and `Resolved` are about shutdown and deadlines.

**Streams.** `DecodesByReference` compares the decoder with `Events` for every chunking.
`UsageIsFinal`: usage is settled only after an announced end, with no error anywhere, and
is the largest that was reported. `CompleteMeansWhole`: what the cache keeps is one
answer and all of it. `FirstErrorReported`: the first error stands.

**Client edits.** `JournalCoversFiles` and `RestoredMeansOriginal` are checked, and
proved, for one journal and claimed for no more. With two journals on the same key `JournalCoversFiles`
does not hold: the second records the first one's value as the one before its own, the
first is restored, and restoring the second then puts the first one's value back into the
file although its journal has called the key restored. `RestoreTouchesOwn` is checked with two
journals and proved for any number.

**Host.** `AnswersTrue` is about what a command printed, in the state where it is done;
`StopsOnlyVerified`, `PatchedWhenReady`, `RecoveryKept` and `ForeignKept` are about
steps: which step may stop a worker, patch a client, remove a copy or touch a
registration. `ForeignKept` claims what the one look of a change can give: while somebody
else's registration is there no change gets past its check, so whatever moves, replaces or
removes one was past it when it came. A task on Windows is safer: an install whose preview
saw none creates it without `/F`, which fails over one that appeared since.

## Disagreements

Two runs show where the code does not do what the repository says of it; PROJECT.json
quotes the lines.

* `patch_retry`: an apply is interrupted after it replaced the file, and so is the next
  one before it does. The journal's pending value is now the second one's, the file holds
  the first one's, and restore takes it for a user's change.
* `host_on`: while `on` waits for its worker it polls the status, which takes
  `worker.lock` for a moment. A worker that tries the lock in that moment exits, and `on`
  reports that it failed to start, though nothing else was going on.

Smaller things the models show and no property claims otherwise:

* A key restored while another key of the journal is in conflict keeps its record. A
  later connect owns it again without a new before-image, so what the user wrote in
  between is not what a later restore returns.
* A journal is called applied when the files of the last transaction were verified, also
  if a file of an earlier one failed.
* `on` answers successfully with "draining" while a worker drains, and with "stopped"
  when its start finds `worker.lock` held by somebody's poll.
* A process that dies between creating the control token and writing it leaves an empty
  file that makes later starts fail.
* A registration that somebody else makes while a change is past its check is not safe from
  it: an install moves the file to a backup that its success deletes, or overwrites it when
  it places its own, a rollback or a removal deletes it, and on Linux a reload may load the
  file in place of the unit that was loaded.
* On Linux an autostart removal whose reload failed leaves a unit loaded from a file that
  is gone; the next preview finds it unknown and is blocked.

## Fairness

* Admission: time passes (`Tick`), and the runtime polls a task whose timer or
  notification is ready. Polls are stated with their enabling condition written out,
  because `ENABLED` of a whole drive is too expensive for TLC. Nothing is assumed of
  clients or upstreams.
* Circuit: an attempt is eventually dropped, since every request has a deadline.
* Gateway: the runtime polls tasks and timers fire. `Prompt` is what ends a handler by
  itself (its deadline, room in the channel or a stop, the head or its deadline, a dropped connection),
  `Driven` what ends a worker (its spawn, its two deadlines, an abort), `Shutdown` the
  steps of `serve` and the supervisor. No other step is fair: upstream, client and queue
  may stall for good.
* Streams, ConfigPatch and Host state safety only: a command may be killed anywhere.

## Proofs

The theorems hold for every value of the constants that satisfies the named assumptions of
the modules (`LedgerAssumption`, `AdmissionAssumption`, ...): ranges that configuration
validation enforces, special values that are no ordinary ones, finiteness where something
is counted. The bounds of the runs (clock, identities, requeues, crashes, edits) are
constants too, so what is proved holds however large they are.

| Module | Theorems | Obligations |
|---|---|---|
| `LedgerProofs` | `LedgerTyped`, `RollingRpmHolds`, `RollingTpmHolds`, `TpmOvershootHolds`, `SettledOnceHolds` | 1506 |
| `AdmissionProofs` | `AdmissionInvariant`, `AdmissionOwnsReservations`, `AdmissionProbeOwned`, `AdmissionSingleProbe`, `AdmissionKeepsPromise`, `AdmissionOrdered`, `AdmissionBarrierExclusive`, `AdmissionOnlyOlderPass`, `AdmissionWakeful`, `AdmissionNoLostWakeup` | 6006 |
| `CircuitProofs` | `CircuitTyped`, `AttemptsAreCounted`, `OneProbeHolds`, `WaitersAreWoken`, `TableStaysBounded`, `OpenIsOnlyProbed` | 1087 |
| `ExactCacheProofs` | `CacheInvariant`, `CacheFlightsOwned`, `CacheWaitersHaveOwner`, `CacheBudgetRespected`, `CacheLookupsCounted`, `CacheCaptureSettledOnce` | 1462 |
| `TransportProofs` | `GatewayInvariant`, `GatewayNothingLeaks`, `GatewayOneReplay`, `GatewayCleanMeansComplete`, `GatewayStoppedMeansQuiet`, `GatewayUsesAdmission`, `StreamsDecoder`, `StreamsDecodesByReference`, `StreamsObserver`, `StreamsUsageIsFinal`, `StreamsCompleteMeansWhole`, `StreamsFirstErrorReported` | 6628 |
| `ConfigPatchProofs` | `PatchInvariant`, `PatchRestoreTouchesOwn`, `PatchJournalCoversFiles`, `PatchRestoredMeansOriginal` | 2577 |
| `HostProofs` | `HostInvariant`, `HostForeignKept`, `HostAnswersTrue`, `HostStopsOnlyVerified`, `HostPatchedWhenReady`, `HostRecoveryKept` | 3104 |
| `SumTheorems` | lemmas only | 601 |

Each `...Invariant` is the inductive strengthening of its component. TLC evaluated it in every
state of the instances above before it was proved.

**Ledger.** The rolling budgets are not inductive: they speak of sends, the ledger of debits.
The strengthening relates them (`DebitsMatch`: a started reservation expires one window after
its send and is not pruned before) and bounds at every time the sends of the last window
together with the reservations still held (`RpmBudget`, and `TokenInv` for tokens), which is
what the next start needs. `RollingTpm` speaks of reserved tokens under Reserved accounting;
with actual usage a response may cost more than its reservation, and
`TpmOvershootHolds` says that nothing else takes the ledger over its limit. `SettledOnce` needs the
finiteness of the entries and that identities in use do not exceed the counter.

**Admission.** `Queue::drive` passes through many queues in one step, so the invariant is a
predicate of a queue and of the requests' records, and the lemmas follow the calls of the
code (expire, protect, select, admit, cancel, start, reject) from a queue that satisfies it
to one that does. `Owned` matches reservations with their owners one to one, in a ticket's
cell or in a hold; `Lined` says that an undecided ticket stands once in the line of its root,
so that a dropped one can be removed; `Probing` names the one request that may prove a
recovery, and `Claimed` says whose the probe's claim is: an active reservation's, and a
generation's if only generations count, for which every operation of the ledger keeps what
kind of request an entry belongs to. The refinement of `Slots` maps the initial queue to no place taken and a drive to a
grant, an entry, a use, a return or nothing, whatever several passes do to several tickets.

The barrier needs the order of the tickets as well. `Ordered`: no two tickets have the same
number, and the barrier's number is that of the head of its line or of no ticket. `From` says
that a step only takes tickets away, so a head that still stands is still the head.
`Respects(u, v, t)` is what a drive at time t that has come from u to v keeps: nobody was
admitted past the protected head, past an overdue one only older tickets and the protected
one, and whoever is protected in v may pass it too. The last part is what makes it inductive
over the passes of one drive, whose barrier moves when a protected head is admitted.

`NoLostWakeup` compares the state with what another drive would do to it. `Wakeful` is its
strengthening: the queue is within `MaxWaiting`, the
waiter of a decided ticket has been notified, and whoever sleeps has a calm queue, in which a
drive decides nothing, from now until its timer. Two arguments carry it. A drive ends in a
queue where one more pass admits nobody: each pass that admits somebody shortens the queue,
so `MaxWaiting + 1` passes suffice. And that stays so until the time `wake_at` returns:
nothing fits before some debit expires, a head reaches its barrier or a ticket its
deadline, and `wake_at` is no later than the first of these.

**Circuit.** The invariant adds that no attempt is ahead of its entry's generation (`Behind`)
and that a half-open entry's only attempt of its generation is unresolved (`Decided`). The
table's bound follows step by step: only a tracked start adds a scope, and it first evicts one
when the table is full. `OpenIsOnlyProbed` needs both: an open scope has no attempt of its
own generation, so nothing that ends then can decide it.

**Cache.** The invariant describes each request's `Pending` by its phase, and ties the requests
to the flights (`OneOwner`), to the counters and to the entries: what an entry or a replay
refers to was committed (`CachedDone`), so nobody counts its bytes a second time.

**Gateway.** All but the server's steps concern one request. `Sound` says of one request where
its two tasks can be together and what they then hold of admission, circuit, cache and body
budget; `GatewayInv` adds who owns the flight and the probe, the gauges, and the server's phases.
`UsesAdmission` is proved action by action.

**Streams.** `DecodesByReference` relates two readings of a text, line by line without state
(`Events`) and byte by byte with very little of it (`SseDecoder`). The proof takes the effect of
one more symbol on each: on the reference's line ends, lines, fields, joined data and
events (`LineEndsAppend` to `EventsAppend`), and on the decoder that has the last line and the
current event in its storage (`Relates`, `ProcessIs`, `BlankIs`). `Told` says that what was
handed on is what the reference reads, and a prefix of it once storage has overflowed;
`Decoded` puts the byte order mark in front, whose first bytes the decoder holds back.

`Follows` then describes the observer by the events it has been given, whatever
their number: one that has not become invalid has seen no error, ends only
if a terminal event came, and holds of each count the most that was reported (`Believed`); a
completion has seen only readable events, ends at the last one, and knows whether a stop
came (`Whole`); the error kept is that of the first event that has one (`FirstAt`).
`UsageIsFinal`, `CompleteMeansWhole` and `FirstErrorReported` follow from it at the end of the
answer. The folds of the code over choices and over events are taken step by step
(`ObserveSteps`, `EventSteps`). What is assumed of constants is what their values stand for: a
feed names an endpoint and its chunks are made of symbols, no JSON value is the text
`[DONE]`, and a token count is a natural number, absent, or unusable.

**Client edits.** `PatchInv` is the journals' shape with two facts the code relies on: a
file that counts as created has a known content (`Traced`), and an apply owns every key
before it replaces a file (`Ready`). The rest is one accounting (`AccountInv`): if a value of a
set B can only be brought into a file by the journal's own applies, then wherever a file holds
one, the journal owns the key and does not call it restored, on disk and in the command's
memory, and it has none to put back; a restore that kept nothing has put everything
back. With the values the journal writes for B this is `JournalCoversFiles`; with all
values but a key's first one, while no user edits, `RestoredMeansOriginal`. Both theorems
have the hypothesis `OneJournal`, which is what the run and the properties claim; with two
journals on one key they are false (see Runs). `PatchRestoreTouchesOwn` has no such hypothesis.

**Host.** `RegistrationInv`: what a change remembers of its preview and its backup fits its
place, whatever has become of the file and the manager's entry since, as no lock keeps
changes apart and others register at any time. `CheckedOwn` is the heart of `HostForeignKept`:
if what a change saw is still there and was not blocked, nothing there is somebody else's.
`Entitled` is what each step then owes: it touches the file or the manager's entry only from a
place past the check, and on Windows somebody's task only with one shown in its preview. `CommandInv`: the
place of a command says what it may do, and an answer it relies on is true of the worker it
names; that needs `Forward`, that a worker which has served keeps its contents and never
serves again once dead. `CopyInv`: both copies exist before a config is swapped, and under
`setup.lock` nobody else swaps it.

**Sums.** The library's induction theorems take an operator as a parameter, which the
provers cannot instantiate. `SumTheorems` therefore argues by least counterexample:
every non-empty set of naturals has a least member (from the library's theorem on
well-founded relations), and what a sum over a finite set satisfies follows because no
smallest set breaks it.

Every safety invariant and action property that a run checks is stated by a theorem. Only
model-checked are the liveness properties `WaitersResolve`, `HalfOpenEnds` and `Resolved`,
because liveness under fairness and `ENABLED` are out of this prover's reach. The theorems
about decoder and observers hold for texts of any length because a step of the
specification adds one chunk; what the recursive functions in them compute is used
through their equations only.

## Not modelled

Parsing of headers, JSON and configuration; request inspection and the token estimate;
hashing, sockets, routing, prompts, formatting and the benchmark harness; rendering of
unit, agent and task files and the grammar that recognises one's own; paths and
permissions. These are functions of one input with no order to get wrong. Counters that
nothing reads back. For client files, what another program writes between a last comparison
and the rename that follows it, of which the code claims nothing. Registrations have no
such gap: `Host` includes whatever others and a second change do between any two steps.

## Plan

The safety side is proved. What further work could add: the grammar of the registration
files, which the recognition of one's own relies on; request inspection and the token
estimate, for which a reference definition would have to be stated first; and, with a
prover for `ENABLED`, `HalfOpenEnds`, whose only fairness is that of an attempt's own
end.
