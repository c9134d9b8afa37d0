----------------------------- MODULE Lifecycle -----------------------------
(***************************************************************************)
(* lifecycle/: one-shot commands (status, on, off, restart) and the worker *)
(* they start and stop.  All are processes of one user on one config; they *)
(* share the config file, a runtime record, a control token and two        *)
(* advisory locks: operation.lock, held by a command that changes the      *)
(* worker, and worker.lock, held by the worker for its life and, for a     *)
(* moment, by whoever tries whether a worker lives.                        *)
(*                                                                         *)
(* A config is its contents, and its fingerprint too; a worker process is  *)
(* its own identity (the random nonce of Identity).  All contents listen   *)
(* on one address.  A handshake reaches the worker that serves there.      *)
(* Processes die at any time and system calls fail; how often is bounded   *)
(* by the events a run starts with.                                        *)
(***************************************************************************)
EXTENDS Naturals, FiniteSets

CONSTANTS
    Commands,    \* one-shot command processes, each runs one command
    Workers,     \* worker processes, each runs once
    Contents,    \* contents of the config that load
    Broken,      \* contents that do not
    Absent, None,
    Systems      \* the operating systems considered

ASSUME LifecycleAssumption ==
    /\ {Broken, Absent, None} \cap Contents = {} /\ Cardinality({Broken, Absent, None}) = 3
    /\ None \notin Workers
    /\ Systems \subseteq {"macos", "linux", "windows"}

VARIABLES
    system,   \* the operating system
    config,   \* the config file
    record,   \* runtime_state: who runs, or ran last
    token,    \* the control token file
    cmd,      \* the commands
    worker,   \* the worker processes
    events    \* crashes, failures, edits and other starts still to come

lifecycleVars == <<system, config, record, token, cmd, worker, events>>

-----------------------------------------------------------------------------
(* A command.  op and lock: it holds operation.lock, worker.lock.  task is *)
(* the lifecycle function it runs and want the fingerprint expected of it; *)
(* ret says where status and provisioning return to, in setup and connect  *)
(* as the place itself; load is the config it loaded, inst the instance it *)
(* read of, child the worker it spawned; setup and plan belong to setup    *)
(* and connect.  state, inst, fp are the answer when it is done.           *)
Blank == [kind |-> None, pc |-> "idle", task |-> "", ret |-> "",
          op |-> FALSE, lock |-> FALSE, setup |-> FALSE, want |-> None, load |-> None,
          inst |-> None, child |-> None, ok |-> FALSE, state |-> "", fp |-> None,
          plan |-> None]

Loading == {"loading", "loaded"}
Holding == {"locked", "fill", "ready", "bound", "serving", "stopping"}
Serving == {"bound", "serving", "stopping"}    \* server::spawn has bound and accepts
Dead == {"ended", "port_in_use", "failed"}

(* The locks are advisory and exclusive, and die with their process.       *)
OperationFree == \A c \in Commands : ~ cmd[c].op
WorkerLockFree ==
    /\ \A c \in Commands : ~ cmd[c].lock
    /\ \A w \in Workers : worker[w].pc \notin Holding

Spend == events > 0 /\ events' = events - 1

(* A command's next state; everything a command leaves alone.              *)
Goto(c, new) == cmd' = [cmd EXCEPT ![c] = new]
At(c, pc) == cmd[c].pc = pc /\ ~ cmd[c].lock
To(c, pc) == [cmd[c] EXCEPT !.pc = pc, !.lock = FALSE]
Files == <<system, config, record, token>>

(* A command's end, or that of a function setup or connect called.         *)
Ended(c, ok, state, inst, fp) ==
    IF cmd[c].kind \in {"setup", "connect"}
      THEN [cmd[c] EXCEPT !.pc = "returned", !.op = FALSE, !.lock = FALSE, !.ret = "",
                          !.ok = ok, !.state = state, !.inst = inst, !.fp = fp,
                          !.load = None, !.child = None]
      ELSE [Blank EXCEPT !.kind = cmd[c].kind, !.pc = "done", !.ok = ok,
                         !.state = state, !.inst = inst, !.fp = fp]
Failed(c) == Ended(c, FALSE, "failed", None, None)

-----------------------------------------------------------------------------
(* cli run: the command line; no config, no command.  Every command but    *)
(* status waits for operation.lock, for 17 seconds.                        *)
Begin(c, kind) ==
    /\ cmd[c].pc = "idle"
    /\ config # Absent
    /\ Goto(c, [Blank EXCEPT !.kind = kind,
                             !.pc = IF kind = "status" THEN "status" ELSE "await",
                             !.task = kind, !.ret = "answer"])
    /\ UNCHANGED <<Files, worker, events>>

EntryOf(task) ==
    CASE task = "on" -> "status" [] task = "off" -> "stop"
      [] task = "restart" -> "reload" [] task = "init" -> "init"

Operation(c) ==
    /\ At(c, "await")
    /\ \/ /\ OperationFree
          /\ Goto(c, [To(c, EntryOf(cmd[c].task)) EXCEPT !.op = TRUE, !.ret = cmd[c].task])
       \/ ~ OperationFree /\ Goto(c, Failed(c))
    /\ UNCHANGED <<Files, worker, events>>

-----------------------------------------------------------------------------
(* What a command does with the status it asked for.                       *)
OnStatus(c, s) ==
    CASE s.state = "stopped" ->
           IF config \notin Contents THEN Failed(c)
           ELSE IF cmd[c].want \notin {None, config} THEN Failed(c)
           ELSE [To(c, "start") EXCEPT !.load = config, !.inst = None]
      [] s.state = "error" -> Failed(c)
      [] OTHER ->
           IF s.pending THEN Failed(c)
           ELSE IF cmd[c].want \notin {None, s.fp} THEN Failed(c)
           ELSE Ended(c, TRUE, s.state, s.inst, s.fp)

HeldStatus(c, s) ==
    IF s.state = "error" THEN Failed(c)
    ELSE IF s.pending THEN Failed(c)
    ELSE Ended(c, TRUE, s.state, s.inst, s.fp)

ReadyStatus(c, s) ==
    IF s.state # "running" THEN [To(c, "wait") EXCEPT !.inst = None]
    ELSE IF s.fp # cmd[c].load THEN Failed(c)
    ELSE Ended(c, TRUE, s.state, s.inst, s.fp)

Learnt(c, s) ==
    CASE cmd[c].ret = "answer" -> Ended(c, s.state # "error", s.state, s.inst, s.fp)
      [] cmd[c].ret = "on" -> OnStatus(c, s)
      [] cmd[c].ret = "held" -> HeldStatus(c, s)
      [] cmd[c].ret = "ready" -> ReadyStatus(c, s)
      [] OTHER -> [To(c, cmd[c].ret) EXCEPT !.state = s.state, !.fp = s.fp, !.inst = s.inst]

NotRunning(state) == [state |-> state, inst |-> None, fp |-> None, pending |-> FALSE]

(* status: try worker.lock; if it is free nothing runs.  Else the record   *)
(* says who to ask; the answer must come from that very instance.          *)
Probe(c) ==
    /\ At(c, "status")
    /\ \/ WorkerLockFree /\ Goto(c, [cmd[c] EXCEPT !.lock = TRUE])
       \/ /\ ~ WorkerLockFree
          /\ Goto(c, IF record = None THEN Learnt(c, NotRunning("error"))
                     ELSE [To(c, "ask") EXCEPT !.inst = record.inst])
    /\ UNCHANGED <<Files, worker, events>>

ProbedFree(c) ==
    /\ cmd[c].pc = "status" /\ cmd[c].lock
    /\ Goto(c, Learnt(c, NotRunning("stopped")))
    /\ UNCHANGED <<Files, worker, events>>

Reaches(inst) == worker[inst].pc \in Serving /\ token = "good"

Health(inst) ==
    [state |-> IF worker[inst].pc = "stopping" THEN "draining" ELSE "running",
     inst |-> inst, fp |-> worker[inst].fp, pending |-> config # worker[inst].fp]

Ask(c) ==
    /\ At(c, "ask")
    /\ Goto(c, Learnt(c, IF Reaches(cmd[c].inst) THEN Health(cmd[c].inst)
                         ELSE NotRunning("error")))
    /\ UNCHANGED <<Files, worker, events>>

(* A handshake times out: the worker may or may not have acted on it.      *)
Unanswered(c) ==
    /\ At(c, "ask")
    /\ Spend
    /\ Goto(c, Learnt(c, NotRunning("error")))
    /\ UNCHANGED <<Files, worker>>

-----------------------------------------------------------------------------
(* start: if no worker holds the lock, make the token, check credentials,  *)
(* spawn a worker for the loaded fingerprint and poll until it runs.       *)
Start(c) ==
    /\ At(c, "start")
    /\ \/ WorkerLockFree /\ Goto(c, [cmd[c] EXCEPT !.lock = TRUE])
       \/ ~ WorkerLockFree /\ Goto(c, [To(c, "status") EXCEPT !.ret = "held"])
    /\ UNCHANGED <<Files, worker, events>>

StartFree(c) ==
    /\ cmd[c].pc = "start" /\ cmd[c].lock
    /\ Goto(c, [To(c, "provision") EXCEPT !.ret = "spawn"])
    /\ UNCHANGED <<Files, worker, events>>

Spawn(c, w) ==
    /\ worker[w].pc = "idle"
    /\ worker' = [worker EXCEPT ![w] = [pc |-> "loading", want |-> cmd[c].load, fp |-> None]]
    /\ Goto(c, [To(c, "wait") EXCEPT !.child = w, !.ret = "ready"])

(* RuntimeCredentials and, before a restart, preflight_upstream: all that  *)
(* can be checked before the running worker is disturbed.                  *)
Credentials(c) ==
    \/ Spend /\ Goto(c, Failed(c)) /\ UNCHANGED worker
    \/ /\ cmd[c].ret = "initialised"
       /\ Goto(c, Ended(c, TRUE, "", None, None)) /\ UNCHANGED <<worker, events>>
    \/ /\ cmd[c].ret = "stop"
       /\ Goto(c, To(c, "stop")) /\ UNCHANGED <<worker, events>>
    \/ /\ cmd[c].ret = "spawn"
       /\ \E w \in Workers : Spawn(c, w)
       /\ UNCHANGED events

(* provision_tokens creates the file and then writes it; a file that is    *)
(* there is left as it is, and one that is still empty is no credential.   *)
Provision(c) ==
    /\ cmd[c].pc = "provision"
    /\ \/ /\ token = "none" /\ token' = "empty"
          /\ Goto(c, [cmd[c] EXCEPT !.pc = "fill"]) /\ UNCHANGED <<worker, events>>
       \/ /\ token = "empty" /\ Goto(c, Failed(c)) /\ UNCHANGED <<token, worker, events>>
       \/ token = "good" /\ Credentials(c) /\ UNCHANGED token
    /\ UNCHANGED <<system, config, record>>

Fill(c) ==
    /\ cmd[c].pc = "fill"
    /\ token' = "good"
    /\ Credentials(c)
    /\ UNCHANGED <<system, config, record>>

(* One turn of the loop: the child's exit, the status, the READY deadline. *)
Wait(c) ==
    /\ At(c, "wait")
    /\ \/ /\ worker[cmd[c].child].pc \in Dead \ {"ended"}
          /\ Goto(c, Ended(c, FALSE, IF worker[cmd[c].child].pc = "port_in_use"
                                       THEN "port_in_use" ELSE "worker_start_failed",
                           None, None))
       \/ /\ worker[cmd[c].child].pc \notin Dead \ {"ended"}
          /\ Goto(c, To(c, "status"))
       \/ Goto(c, Failed(c))
    /\ UNCHANGED <<Files, worker, events>>

-----------------------------------------------------------------------------
(* restart: everything that can fail is checked before the stop.           *)
Reload(c) ==
    /\ At(c, "reload")
    /\ Goto(c, IF config \notin Contents THEN Failed(c)
               ELSE IF cmd[c].want \notin {None, config} THEN Failed(c)
               ELSE [To(c, "provision") EXCEPT !.load = config, !.ret = "stop"])
    /\ UNCHANGED <<Files, worker, events>>

(* stop: nothing to do, or verify who holds the lock, tell that instance   *)
(* and wait for the lock until the STOP deadline.                          *)
Stop(c) ==
    /\ At(c, "stop")
    /\ \/ WorkerLockFree /\ Goto(c, [cmd[c] EXCEPT !.lock = TRUE])
       \/ /\ ~ WorkerLockFree
          /\ Goto(c, IF record = None THEN Failed(c)
                     ELSE [To(c, "verify") EXCEPT !.inst = record.inst])
    /\ UNCHANGED <<Files, worker, events>>

Stopped(c) ==
    /\ cmd[c].pc \in {"stop", "gone"} /\ cmd[c].lock
    /\ Goto(c, IF cmd[c].task = "restart" THEN To(c, "start")
               ELSE Ended(c, TRUE, "stopped", cmd[c].inst, None))
    /\ UNCHANGED <<Files, worker, events>>

Verify(c) ==
    /\ At(c, "verify")
    /\ \/ Goto(c, IF Reaches(cmd[c].inst) THEN To(c, "tell") ELSE Failed(c))
          /\ UNCHANGED events
       \/ Spend /\ Goto(c, Failed(c))
    /\ UNCHANGED <<Files, worker>>

(* control::handle for a conditional stop: only the instance named obeys.  *)
(* Fault: the nonce is not compared. *)
AnyoneObeys(w, inst) == worker[w].pc \in Serving /\ token = "good"

Obeys(w, inst) == worker[w].pc \in Serving /\ token = "good" /\ w = inst

Tell(c) ==
    /\ At(c, "tell")
    /\ \/ /\ \A w \in Workers : ~ Obeys(w, cmd[c].inst)
          /\ Goto(c, Failed(c)) /\ UNCHANGED <<worker, events>>
       \/ \E w \in Workers :
            /\ Obeys(w, cmd[c].inst)
            /\ worker' = [worker EXCEPT ![w].pc = "stopping"]
            /\ \/ Goto(c, To(c, "gone")) /\ UNCHANGED events
               \/ Spend /\ Goto(c, Failed(c))
    /\ UNCHANGED Files

Gone(c) ==
    /\ At(c, "gone")
    /\ \/ WorkerLockFree /\ Goto(c, [cmd[c] EXCEPT !.lock = TRUE])
       \/ ~ WorkerLockFree /\ Goto(c, Failed(c))
    /\ UNCHANGED <<Files, worker, events>>

(* initialize_setup_state: the token is made only when no worker can have  *)
(* loaded another, and worker.lock is kept until it has been validated.    *)
Initialise(c) ==
    /\ At(c, "init")
    /\ Goto(c, IF config \notin Contents \/ config # cmd[c].want
                 THEN Failed(c)
               ELSE IF WorkerLockFree
                 THEN [cmd[c] EXCEPT !.pc = "provision", !.lock = TRUE, !.ret = "initialised"]
               ELSE IF token = "good" THEN Ended(c, TRUE, "", None, None)
               ELSE Failed(c))
    /\ UNCHANGED <<Files, worker, events>>

-----------------------------------------------------------------------------
(* worker: the process `worker` or `run`.                                  *)
Becomes(w, pc) == worker' = [worker EXCEPT ![w].pc = pc]

(* `run`, by a user or at login: it takes no operation.lock.               *)
Run(w) ==
    /\ worker[w].pc = "idle"
    /\ Spend
    /\ Becomes(w, "loading")
    /\ UNCHANGED <<Files, cmd>>

Load(w) ==
    /\ worker[w].pc = "loading"
    /\ IF config \in Contents /\ worker[w].want \in {None, config}
         THEN worker' = [worker EXCEPT ![w].pc = "loaded", ![w].fp = config]
         ELSE Becomes(w, "failed")
    /\ UNCHANGED <<Files, cmd, events>>

Claim(w) ==
    /\ worker[w].pc = "loaded"
    /\ Becomes(w, IF WorkerLockFree THEN "locked" ELSE "failed")
    /\ UNCHANGED <<Files, cmd, events>>

WorkerProvision(w) ==
    /\ \/ /\ worker[w].pc = "locked" /\ token = "none"
          /\ token' = "empty" /\ Becomes(w, "fill")
       \/ /\ worker[w].pc = "locked" /\ token # "none"
          /\ Becomes(w, IF token = "good" THEN "ready" ELSE "failed") /\ UNCHANGED token
       \/ worker[w].pc = "fill" /\ token' = "good" /\ Becomes(w, "ready")
    /\ UNCHANGED <<system, config, record, cmd, events>>

Bind(w) ==
    /\ worker[w].pc = "ready"
    /\ \/ Becomes(w, "bound") /\ UNCHANGED events
       \/ Spend /\ Becomes(w, "port_in_use")
    /\ UNCHANGED <<Files, cmd>>

(* write_record renames a complete file into place.                        *)
Publish(w) ==
    /\ worker[w].pc = "bound"
    /\ \/ /\ record' = [inst |-> w, state |-> "running"]
          /\ Becomes(w, "serving") /\ UNCHANGED events
       \/ Spend /\ Becomes(w, "failed") /\ UNCHANGED record
    /\ UNCHANGED <<system, config, token, cmd>>

(* A signal, or a stop with the token alone, which the API allows.         *)
Interrupt(w) ==
    /\ worker[w].pc = "serving"
    /\ Spend
    /\ Becomes(w, "stopping")
    /\ UNCHANGED <<Files, cmd>>

Retire(w) ==
    /\ worker[w].pc = "stopping"
    /\ \/ /\ record' = [inst |-> w, state |-> "stopped"]
          /\ Becomes(w, "ended") /\ UNCHANGED events
       \/ /\ Spend /\ Becomes(w, "failed")
          /\ record' \in {record, [inst |-> w, state |-> "failed"]}
    /\ UNCHANGED <<system, config, token, cmd>>

Die(w) ==
    /\ worker[w].pc \in Loading \cup Holding
    /\ Spend
    /\ Becomes(w, "failed")
    /\ UNCHANGED <<Files, cmd>>

WorkerStep(w) ==
    \/ Run(w) \/ Load(w) \/ Claim(w) \/ WorkerProvision(w) \/ Bind(w)
    \/ Publish(w) \/ Interrupt(w) \/ Retire(w) \/ Die(w)

LifecycleStep(c) ==
    \/ Operation(c)
    \/ Probe(c) \/ ProbedFree(c) \/ Ask(c) \/ Unanswered(c)
    \/ Start(c) \/ StartFree(c) \/ Provision(c) \/ Fill(c) \/ Wait(c)
    \/ Reload(c) \/ Stop(c) \/ Stopped(c) \/ Verify(c) \/ Tell(c) \/ Gone(c)
    \/ Initialise(c)

(* A config that nothing ran on yet, or one whose worker serves.           *)
LifecycleInit ==
    /\ system \in Systems
    /\ cmd = [c \in Commands |-> Blank]
    /\ \/ /\ config \in Contents \cup {Absent}
          /\ record = None /\ token = "none"
          /\ worker = [w \in Workers |-> [pc |-> "idle", want |-> None, fp |-> None]]
       \/ \E w \in Workers, v \in Contents :
            /\ config = v
            /\ record = [inst |-> w, state |-> "running"] /\ token = "good"
            /\ worker = [x \in Workers |->
                           IF x = w THEN [pc |-> "serving", want |-> v, fp |-> v]
                           ELSE [pc |-> "idle", want |-> None, fp |-> None]]

=============================================================================
