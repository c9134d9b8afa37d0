-------------------------------- MODULE Host --------------------------------
(***************************************************************************)
(* The programs of one user's machine on one configuration: commands that  *)
(* run one lifecycle operation, a setup, a connect or an autostart change  *)
(* each, the workers they start, and the user, who edits the config and    *)
(* starts workers in the foreground.  setup ends with the autostart change *)
(* it was asked for; `run` at login is the worker's own start.             *)
(***************************************************************************)
EXTENDS Connect, Autostart

CONSTANT Scenes    \* [system, tried, events]: which commands are given on which
                   \* system, and how many events come in between

ASSUME ScenesAssumption ==
    \A scene \in Scenes : scene.system \in Systems /\ scene.events \in Nat

VARIABLE tried    \* the commands users give

vars == <<lifecycleVars, setupVars, connectVars, autostartVars, tried>>

(* cli autostart: preview and apply in one command.                        *)
AutostartCommand(c) ==
    /\ "autostart" \in tried
    /\ cmd[c].pc = "idle" /\ config \in Contents
    /\ Goto(c, [Blank EXCEPT !.kind = "autostart", !.pc = "done"])
    /\ Prepare(c)
    /\ UNCHANGED <<Files, worker, setupVars, connectVars, tried>>

(* cli setup_autostart: after a successful apply; turning off what is not  *)
(* registered changes nothing.                                             *)
SetupAutostart(c) ==
    /\ "autostart" \in tried
    /\ cmd[c].kind = "setup" /\ cmd[c].pc = "done" /\ cmd[c].ok
    /\ config \in Contents
    /\ Prepare(c)
    /\ UNCHANGED <<Files, cmd, worker, setupVars, connectVars, tried>>

Init ==
    /\ LifecycleInit /\ SetupInit /\ ConnectInit /\ AutostartInit
    /\ \E scene \in Scenes :
         system = scene.system /\ tried = scene.tried /\ events = scene.events

Next ==
    \/ \E c \in Commands :
         \/ /\ \E kind \in tried \cap {"status", "on", "off", "restart"} : Begin(c, kind)
            /\ UNCHANGED <<setupVars, connectVars, autostartVars, tried>>
         \/ LifecycleStep(c) /\ UNCHANGED <<setupVars, connectVars, autostartVars, tried>>
         \/ /\ \E mode \in Modes \cap tried : Review(c, mode)
            /\ UNCHANGED <<connectVars, autostartVars, tried>>
         \/ SetupStep(c) /\ UNCHANGED <<connectVars, autostartVars, tried>>
         \/ "connect" \in tried /\ ConnectPlan(c) /\ UNCHANGED <<autostartVars, tried>>
         \/ ConnectStep(c) /\ UNCHANGED <<autostartVars, tried>>
         \/ AutostartCommand(c)
         \/ SetupAutostart(c)
         \/ ChangeStep(c) /\ UNCHANGED <<Files, cmd, worker, setupVars, connectVars, tried>>
    \/ \E w \in Workers :
         WorkerStep(w) /\ UNCHANGED <<setupVars, connectVars, autostartVars, tried>>
    \/ Edit /\ UNCHANGED <<connectVars, autostartVars, tried>>
    \/ "connect" \in tried /\ EditClient /\ UNCHANGED <<autostartVars, tried>>
    \/ Meddle /\ UNCHANGED <<Files, cmd, worker, setupVars, connectVars, tried>>

Spec == Init /\ [][Next]_vars

-----------------------------------------------------------------------------
Done(c, kinds) == cmd[c].pc = "done" /\ cmd[c].ok /\ cmd[c].kind \in kinds

(* What a command reports is true of the worker it names, whatever other   *)
(* commands, edits and workers came in between.  on, restart and setup:    *)
(* that worker was up, on the contents reported, and setup's are those it  *)
(* wrote, connect's those it gave the client.  off: the worker it verified *)
(* is gone.  (lifecycle on_inner, start, stop; setup apply; cli connect.)  *)
AnswersTrue ==
    \A c \in Commands :
      /\ Done(c, {"on", "restart", "setup", "connect"}) /\ cmd[c].state = "running" =>
           /\ worker[cmd[c].inst].fp = cmd[c].fp
           /\ worker[cmd[c].inst].pc \in Serving \cup Dead
           /\ cmd[c].want \in {None, cmd[c].fp}
      /\ Done(c, {"off"}) /\ cmd[c].inst # None => worker[cmd[c].inst].pc \in Dead

(* A command only stops the worker whose identity it verified: if that one *)
(* went and another took its address in between, the other lives on.       *)
(* setup and connect only stop one if a restart was in what they showed.   *)
(* (lifecycle stop; control::handle; setup lifecycle_action; cli connect.) *)
StopsOnlyVerified ==
    [][\A c \in Commands, w \in Workers :
         /\ cmd'[c] # cmd[c]
         /\ worker[w].pc # "stopping" /\ worker'[w].pc = "stopping"
         => /\ cmd[c].inst = w
            /\ cmd[c].plan # None =>
                 cmd[c].plan.mode = "SaveAndRestart" \/ cmd[c].plan.reviewed = "Restart"]_vars

(* A client is pointed at the gateway only after a worker on the config    *)
(* that was reviewed has answered this very command, and only if its file  *)
(* is the one of the preview: what a user did to it since is not written   *)
(* over.  (cli connect; clients apply_reviewed.)                           *)
PatchedWhenReady ==
    [][\A c \in Commands :
         cmd'[c] # cmd[c] /\ client' # client =>
           /\ cmd[c].inst # None
           /\ worker[cmd[c].inst].fp = cmd[c].plan.desired
           /\ worker[cmd[c].inst].pc \in Serving \cup Dead
           /\ client = cmd[c].plan.client]_vars

(* A config that a failed replacement removed can be put back: both copies *)
(* are there when it goes, and they stay while it is missing.  Likewise    *)
(* the registration file an install moved aside is at its place again or   *)
(* in its backup until the install has succeeded.  (file_replace.rs;       *)
(* autostart install.)                                                     *)
RecoveryKept ==
    [][/\ config # Absent /\ config' = Absent =>
            \E c \in Commands : copies'[c].original = config /\ copies'[c].replacement # None
       /\ \A c \in Commands :
            copies[c] # NoCopies /\ copies'[c] # copies[c] => config # Absent
       /\ \A c \in Commands :
            change[c].backup # None /\ change'[c].backup = None =>
              target' = change[c].backup \/ change'[c].pc = "ok"]_vars

(* Somebody else may register at any time.  While such a registration is   *)
(* there no change gets past its check, whenever it was previewed; so only *)
(* a change that was past it when the registration came ever moves,        *)
(* replaces or removes it, and on Windows not even that one a task, unless *)
(* its preview showed a task to replace.  (autostart apply, install,       *)
(* install_manager, remove_manager.)                                       *)
ForeignKept ==
    [][LET acting == {c \in PastCheck : change'[c] # change[c]}
       IN  /\ Foreign \in {target, task} => PastCheck' \subseteq PastCheck
           /\ target = Foreign /\ target' # Foreign => acting # {}
           /\ task = Foreign /\ task' # Foreign =>
                \E c \in acting : system = "windows" => change[c].manager.state = "present"]_vars

(* tests/lifecycle_contract.rs:125: when users only say on, every on gets  *)
(* its worker; none is told that the worker it started failed.             *)
OnStarts == \A c \in Commands : cmd[c].state # "worker_start_failed"

=============================================================================
