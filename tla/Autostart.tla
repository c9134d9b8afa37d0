----------------------------- MODULE Autostart -----------------------------
(***************************************************************************)
(* autostart/: the registration that starts `run` at login.  It is a file  *)
(* (target) and, on Linux and Windows, what a login manager made of it.    *)
(* A change is previewed, and applied only to what was previewed; no lock  *)
(* keeps two changes apart, and after that one check nothing keeps other   *)
(* programs from registering under the same name.                          *)
(*                                                                         *)
(* A definition is the binary it would run, or Foreign when it is not of   *)
(* this configuration.  The managers (systemctl --user, schtasks) are      *)
(* external; parsing what they print is left out, what it tells apart is   *)
(* not.  A backup's name holds the process id, so every change has its     *)
(* own.                                                                    *)
(***************************************************************************)
EXTENDS Lifecycle

CONSTANTS
    Binaries,   \* the versions of the program that give commands
    Foreign     \* somebody else's definition

ASSUME AutostartAssumption == Foreign \notin Binaries /\ None \notin Binaries \cup {Foreign}

VARIABLES
    target,    \* the unit, agent or task file
    task,      \* the definition the manager has loaded under the label
    enabled,   \* the manager starts it at login
    change     \* each command's change

autostartVars == <<target, task, enabled, change>>

NoChange == [pc |-> "idle", action |-> "", binary |-> None, seen |-> None,
             manager |-> None, backup |-> None]

(* The changes under way, which have looked for the last time. *)
Changing == {"checked", "moved", "placed", "listed", "disable", "unlink", "reload"}
PastCheck == {c \in Commands : change[c].pc \in Changing}

Step(c, pc) == change' = [change EXCEPT ![c].pc = pc]

-----------------------------------------------------------------------------
(* ManagerSnapshot *)
Manager(state, definition, owned, on) ==
    [state |-> state, definition |-> definition, owned |-> owned, enabled |-> on]
NotThere == Manager("absent", None, FALSE, FALSE)
Unknown == Manager("unknown", None, FALSE, FALSE)

(* The ownership marker in the file; the marker, principal, trigger and    *)
(* action of a task.                                                       *)
OwnedFile(definition) == definition # Foreign
OwnedTask(definition) == definition # Foreign

(* launchd reads the directory itself.                                     *)
ObserveMacos ==
    IF target = None THEN NotThere ELSE Manager("present", target, OwnedFile(target), TRUE)

(* systemctl show: a unit that is not loaded is read from its file; one    *)
(* that was loaded from other contents waits for a reload; a Foreign unit  *)
(* that is not the user's file comes from another directory.               *)
ObserveLinux ==
    IF task \in {None, target}
    THEN IF target = None THEN NotThere
         ELSE Manager("present", target, OwnedFile(target), enabled)
    ELSE IF task = Foreign THEN Manager("present", Foreign, FALSE, enabled)
    ELSE Unknown

(* schtasks /Query *)
ObserveWindows ==
    IF task = None THEN NotThere ELSE Manager("present", task, OwnedTask(task), enabled)

ObserveManager ==
    CASE system = "macos" -> ObserveMacos
      [] system = "linux" -> ObserveLinux
      [] system = "windows" -> ObserveWindows

RegistrationState(seen, manager) ==
    IF seen # None /\ ~ OwnedFile(seen) THEN "Blocked"
    ELSE CASE manager.state = "absent" -> "Disabled"
           [] manager.state = "unknown" -> "Blocked"
           [] manager.state = "present" ->
                IF ~ manager.owned THEN "Blocked"
                ELSE IF ~ manager.enabled THEN "Disabled" ELSE "Registered"

-----------------------------------------------------------------------------
(* prepare_current: the preview, for the binary that gives the command.    *)
(* The observation may load the unit.                                      *)
Prepare(c) ==
    /\ change[c].pc = "idle"
    /\ \E action \in {"on", "off"}, binary \in Binaries :
         change' = [change EXCEPT ![c] =
                      [NoChange EXCEPT !.pc = "previewed", !.action = action,
                                       !.binary = binary, !.seen = target,
                                       !.manager = ObserveManager]]
    /\ UNCHANGED <<target, task, enabled, events>>

(* Fault: what was previewed is taken for granted. *)
NeverStale(c) == FALSE

Stale(c) == target # change[c].seen \/ ObserveManager # change[c].manager
Blocked(c) == RegistrationState(change[c].seen, change[c].manager) = "Blocked"

Decline(c) ==
    /\ change[c].pc = "previewed"
    /\ Stale(c) \/ Blocked(c)
    /\ Step(c, "failed")
    /\ UNCHANGED <<target, task, enabled, events>>

(* apply: what the action starts with.  An agent that is already so is     *)
(* left alone, and so is nothing; a manager is told before the file goes.  *)
FirstPlace(c) ==
    LET x == change[c]
    IN  IF x.action = "on"
        THEN IF system = "macos" /\ x.seen = x.binary THEN "ok" ELSE "checked"
        ELSE IF x.manager.state = "present" /\ system # "macos" THEN "disable"
        ELSE IF x.seen = None THEN "ok" ELSE "unlink"

Check(c) ==
    /\ change[c].pc = "previewed"
    /\ ~ Stale(c) /\ ~ Blocked(c)
    /\ Step(c, FirstPlace(c))
    /\ UNCHANGED <<target, task, enabled, events>>

(* install: the new file is written aside, and whatever is at the place by *)
(* then becomes the backup.                                                *)
Install(c) ==
    /\ change[c].pc = "checked"
    /\ \/ /\ change' = [change EXCEPT ![c].pc = "moved", ![c].backup = target]
          /\ target' = None /\ UNCHANGED events
       \/ Spend /\ Step(c, "failed") /\ UNCHANGED target
    /\ UNCHANGED <<task, enabled>>

(* The errors of a rollback are dropped: any part of it may fail as well.  *)
Restore(c) ==
    /\ change[c].backup # None
    /\ target' = change[c].backup
    /\ change' = [change EXCEPT ![c].pc = "failed", ![c].backup = None]

Place(c) ==
    /\ change[c].pc = "moved"
    /\ \/ target' = change[c].binary /\ Step(c, "placed") /\ UNCHANGED events
       \/ Spend /\ Restore(c)
       \/ Spend /\ Step(c, "failed") /\ UNCHANGED target
    /\ UNCHANGED <<task, enabled>>

Withdraw(c) ==
    \/ Restore(c)
    \/ target' \in {None, target} /\ Step(c, "failed")

(* Fault: every task is created with /F. *)
AlwaysForced(c) == TRUE

(* install_manager: enable, or create (with /F only over a task that the   *)
(* preview saw to be ours).  systemctl may fail having enabled the unit.   *)
MayCreate(c) == task = None \/ change[c].manager.state = "present"

(* What systemd has loaded after a reload: a unit of another directory may *)
(* hide the file.                                                          *)
Reloaded == IF task = Foreign THEN {Foreign, target} ELSE {target}

Enlistable(c) ==
    \/ system = "linux" /\ target # None
    \/ system = "windows" /\ target # None /\ MayCreate(c)

Enlist(c) ==
    /\ change[c].pc = "placed"
    /\ \/ /\ system = "macos"
          /\ Step(c, "listed") /\ UNCHANGED <<target, task, enabled, events>>
       \/ /\ Enlistable(c)
          /\ task' \in IF system = "linux" THEN Reloaded ELSE {target}
          /\ enabled' = TRUE
          /\ Step(c, "listed") /\ UNCHANGED <<target, events>>
       \/ /\ system # "macos" /\ ~ Enlistable(c)
          /\ Withdraw(c) /\ UNCHANGED <<task, enabled, events>>
       \/ /\ system # "macos"
          /\ Spend /\ Withdraw(c) /\ UNCHANGED task
          /\ enabled' \in {enabled, enabled \/ system = "linux"}

Unbackup(c) ==
    /\ change[c].pc = "listed"
    /\ \/ change' = [change EXCEPT ![c].pc = "ok", ![c].backup = None] /\ UNCHANGED events
       \/ change[c].backup # None /\ Spend /\ Step(c, "failed")
    /\ UNCHANGED <<target, task, enabled>>

(* remove_manager: disable, or delete a task that is still there.          *)
Disable(c) ==
    /\ change[c].pc = "disable"
    /\ \/ /\ system = "windows" => task # None
          /\ task' = IF system = "windows" THEN None ELSE task
          /\ enabled' = FALSE
          /\ Step(c, "unlink") /\ UNCHANGED events
       \/ /\ system = "windows" /\ task = None
          /\ Step(c, "failed") /\ UNCHANGED <<task, enabled, events>>
       \/ Spend /\ Step(c, "failed") /\ UNCHANGED <<task, enabled>>
    /\ UNCHANGED target

(* remove: then the file that is there.                                    *)
Unlink(c) ==
    /\ change[c].pc = "unlink"
    /\ \/ /\ target' = None
          /\ Step(c, IF system = "linux" THEN "reload" ELSE "ok") /\ UNCHANGED events
       \/ target # None /\ Spend /\ Step(c, "failed") /\ UNCHANGED target
    /\ UNCHANGED <<task, enabled>>

(* daemon-reload, and a last look: only an absent unit is a success.       *)
ReloadUnits(c) ==
    /\ change[c].pc = "reload"
    /\ \/ /\ task' \in Reloaded
          /\ Step(c, IF task' = None THEN "ok" ELSE "failed") /\ UNCHANGED events
       \/ Spend /\ Step(c, "failed") /\ UNCHANGED task
    /\ UNCHANGED <<target, enabled>>

KillChange(c) ==
    /\ change[c].pc \in Changing
    /\ Spend
    /\ Step(c, "failed")
    /\ UNCHANGED <<target, task, enabled>>

(* Somebody else registers under the same label, at any time.              *)
Meddle ==
    /\ Spend
    /\ \/ target' = Foreign /\ UNCHANGED task
       \/ system # "macos" /\ task' = Foreign /\ UNCHANGED target
    /\ UNCHANGED <<enabled, change>>

ChangeStep(c) ==
    \/ Decline(c) \/ Check(c) \/ Install(c) \/ Place(c) \/ Enlist(c) \/ Unbackup(c)
    \/ Disable(c) \/ Unlink(c) \/ ReloadUnits(c) \/ KillChange(c)

AutostartInit ==
    /\ target = None /\ task = None /\ enabled = FALSE
    /\ change = [c \in Commands |-> NoChange]

=============================================================================
