----------------------------- MODULE HostProofs -----------------------------
(***************************************************************************)
(* Proofs about Host, for any number of commands, workers, configs and     *)
(* binaries and any scenes.  The inductive invariant HostInv has three     *)
(* parts.  RegistrationInv: what a change of the registration has recorded *)
(* of its preview and its backup.  CommandInv: where a command is in       *)
(* its program says what it may do, and every answer it relies on is true  *)
(* of the worker it names; it needs that a worker that has served keeps    *)
(* its contents and never serves again once dead (Forward).  CopyInv: both *)
(* copies exist before a config is swapped, and under setup.lock nobody    *)
(* else swaps it.  One lemma per action shows that the state a command     *)
(* goes to is Sound.                                                       *)
(***************************************************************************)
EXTENDS Host, TLAPS, FiniteSetTheorems

-----------------------------------------------------------------------------
(* The registration.  No lock keeps two changes apart and other programs   *)
(* register at any time; what protects a registration of somebody else is  *)
(* that every change begins with a check of both the file and the manager, *)
(* and that /F is only given over a task that check has seen.              *)
Snapshot ==
    [state : {"absent", "present", "unknown"}, definition : Binaries \cup {Foreign, None},
     owned : BOOLEAN, enabled : BOOLEAN]

ChangePlaces == {"idle", "previewed", "ok", "failed"} \cup Changing
Definitions == Binaries \cup {Foreign, None}

ChangeType ==
    [pc : ChangePlaces, action : {"", "on", "off"}, binary : Binaries \cup {None},
     seen : Binaries \cup {Foreign, None}, manager : {None} \cup Snapshot,
     backup : Binaries \cup {Foreign, None}]

(* What a change's record says at each place; only Linux reloads. *)
ChangeSound(x) ==
    /\ x \in ChangeType
    /\ x.pc \in {"idle", "previewed", "checked"} => x.backup = None
    /\ x.pc = "disable" => x.manager.state = "present"
    /\ x.pc = "reload" => system = "linux"

RegistrationInv ==
    /\ system \in Systems
    /\ change \in [Commands -> ChangeType]
    /\ \A c \in Commands : ChangeSound(change[c])
    /\ target \in Definitions /\ task \in Definitions
    /\ system = "macos" => task # Foreign
    /\ enabled \in BOOLEAN

(* What the step may not do to a registration or to a backup. *)
Acts(c) == c \in PastCheck /\ change'[c] # change[c]
Shown(c) == system = "windows" => change[c].manager.state = "present"

Kept ==
    /\ Foreign \in {target, task} => PastCheck' \subseteq PastCheck
    /\ target = Foreign /\ target' # Foreign => \E c \in Commands : Acts(c)
    /\ task = Foreign /\ task' # Foreign => \E c \in Commands : Acts(c) /\ Shown(c)
    /\ \A c \in Commands :
         change[c].backup # None /\ change'[c].backup = None =>
           target' = change[c].backup \/ change'[c].pc = "ok"

(* A change's next place. *)
LEMMA StepType ==
    ASSUME NEW x \in ChangeType, NEW p \in ChangePlaces
    PROVE  LET y == [x EXCEPT !.pc = p]
           IN  y \in ChangeType /\ y.pc = p /\ y.backup = x.backup /\ y.manager = x.manager
BY DEF ChangeType

(* What a step of one change's record to y may do: everything if it is     *)
(* past its check, to a task on Windows if it was shown one; nothing else  *)
(* before, and it passes the check only where nothing is somebody else's.  *)
Entitled(c, y) ==
    \/ /\ change[c].pc \in Changing /\ y # change[c]
       /\ task' = task \/ task # Foreign \/ Shown(c)
    \/ /\ UNCHANGED <<target, task>>
       /\ y.pc \in Changing => Foreign \notin {target, task}

(* One change goes on. *)
LEMMA ChangeMove ==
    ASSUME RegistrationInv, NEW c \in Commands, NEW y, ChangeSound(y),
           change' = [change EXCEPT ![c] = y], system' = system,
           target' \in Definitions, task' \in Definitions, enabled' \in BOOLEAN,
           system = "macos" => task' # Foreign,
           y.backup = None => change[c].backup = None \/ target' = change[c].backup \/ y.pc = "ok",
           Entitled(c, y)
    PROVE  RegistrationInv' /\ Kept
<1>1. /\ change' \in [Commands -> ChangeType] /\ change'[c] = y
      /\ \A d \in Commands \ {c} : change'[d] = change[d]
  BY DEF RegistrationInv, ChangeSound
<1>2. \A d \in Commands : ChangeSound(change'[d])
  BY <1>1 DEF RegistrationInv
<1>3. RegistrationInv'
  BY <1>1, <1>2 DEF RegistrationInv, ChangeSound, ChangeType
<1>4. \A d \in PastCheck' : (d = c /\ y.pc \in Changing) \/ d \in PastCheck
  BY <1>1 DEF PastCheck
<1>5. CASE /\ change[c].pc \in Changing /\ y # change[c]
           /\ task' = task \/ task # Foreign \/ Shown(c)
  <2>1. Acts(c) /\ c \in PastCheck
    BY <1>1, <1>5 DEF Acts, PastCheck
  <2>2. PastCheck' \subseteq PastCheck
    BY <1>4, <2>1
  <2>3. task = Foreign /\ task' # Foreign => Shown(c)
    BY <1>5
  <2>4. \A d \in Commands : change[d].backup # None /\ change'[d].backup = None =>
           target' = change[d].backup \/ change'[d].pc = "ok"
    BY <1>1
  <2>5. QED
    BY <1>3, <2>1, <2>2, <2>3, <2>4 DEF Kept
<1>6. CASE /\ UNCHANGED <<target, task>>
           /\ y.pc \in Changing => Foreign \notin {target, task}
  <2>1. Foreign \in {target, task} => PastCheck' \subseteq PastCheck
    BY <1>4, <1>6
  <2>2. \A d \in Commands : change[d].backup # None /\ change'[d].backup = None =>
           target' = change[d].backup \/ change'[d].pc = "ok"
    BY <1>1
  <2>3. QED
    BY <1>3, <1>6, <2>1, <2>2 DEF Kept
<1>7. QED
  BY <1>3, <1>5, <1>6 DEF Entitled

(* prepare_current sees what is there. *)
LEMMA ObserveType ==
    ASSUME RegistrationInv
    PROVE  ObserveManager \in Snapshot
<1>1. \A d \in Definitions, s \in {"absent", "present", "unknown"}, o, e \in BOOLEAN :
        Manager(s, d, o, e) \in Snapshot
  BY DEF Manager, Snapshot, Definitions
<1>2. NotThere \in Snapshot /\ Unknown \in Snapshot
  BY <1>1 DEF NotThere, Unknown, Definitions
<1>3. system \in {"macos", "linux", "windows"}
  BY LifecycleAssumption DEF RegistrationInv
<1> HIDE DEF NotThere, Unknown
<1>4. ObserveMacos \in Snapshot
  BY <1>1, <1>2 DEF ObserveMacos, RegistrationInv, OwnedFile
<1>5. ObserveLinux \in Snapshot
  <2>1. Manager("present", Foreign, FALSE, enabled) \in Snapshot
        /\ Manager("present", target, OwnedFile(target), enabled) \in Snapshot
    BY <1>1 DEF RegistrationInv, OwnedFile, Definitions
  <2>2. QED
    BY <1>2, <2>1 DEF ObserveLinux
<1>6. ObserveWindows \in Snapshot
  BY <1>1, <1>2 DEF ObserveWindows, RegistrationInv, OwnedTask
<1>7. QED
  BY <1>3, <1>4, <1>5, <1>6 DEF ObserveManager

(* A change that passes its check meets nobody else's registration: the    *)
(* preview was not blocked, and both the file and the manager are as then. *)
LEMMA CheckedOwn ==
    ASSUME RegistrationInv, NEW c \in Commands, ~ Stale(c), ~ Blocked(c)
    PROVE  Foreign \notin {target, task}
<1>1. /\ target = change[c].seen /\ change[c].manager = ObserveManager
      /\ RegistrationState(target, ObserveManager) # "Blocked"
  BY DEF Stale, Blocked
<1>2. target # Foreign
  BY <1>1, AutostartAssumption DEF RegistrationState, OwnedFile
<1>3. task # Foreign
  <2>1. system \in {"macos", "linux", "windows"}
    BY LifecycleAssumption DEF RegistrationInv
  <2>2. SUFFICES ASSUME task = Foreign PROVE FALSE
    OBVIOUS
  <2>3. system # "macos" /\ task # None
    BY <2>2, AutostartAssumption DEF RegistrationInv
  <2>4. ObserveManager = Manager("present", Foreign, FALSE, enabled)
    BY <1>2, <2>1, <2>2, <2>3 DEF ObserveManager, ObserveLinux, ObserveWindows, OwnedTask
  <2>5. ObserveManager.state = "present" /\ ObserveManager.owned = FALSE
    BY <2>4 DEF Manager
  <2>6. RegistrationState(target, ObserveManager) = "Blocked"
    BY <2>5 DEF RegistrationState
  <2>7. QED
    BY <1>1, <2>6
<1>4. QED
  BY <1>2, <1>3

(* A change goes to another place and keeps its backup.                    *)
LEMMA GoesOn ==
    ASSUME RegistrationInv, NEW c \in Commands,
           NEW p \in ChangePlaces \ {"idle", "previewed"}, Step(c, p), system' = system,
           p # change[c].pc,
           p = "disable" => change[c].manager.state = "present",
           p = "checked" => change[c].backup = None, p = "reload" => system = "linux",
           target' \in Definitions, task' \in Definitions, enabled' \in BOOLEAN,
           system = "macos" => task' # Foreign,
           \/ /\ change[c].pc \in Changing
              /\ task' = task \/ task # Foreign \/ Shown(c)
           \/ /\ UNCHANGED <<target, task>>
              /\ p \in Changing => Foreign \notin {target, task}
    PROVE  RegistrationInv' /\ Kept
<1> DEFINE y == [change[c] EXCEPT !.pc = p]
<1>1. change[c] \in ChangeType /\ change \in [Commands -> ChangeType]
  BY DEF RegistrationInv
<1>2. /\ y \in ChangeType /\ y.pc = p /\ y.backup = change[c].backup
      /\ y.manager = change[c].manager
  BY <1>1, StepType
<1>3. change' = [change EXCEPT ![c] = y]
  BY <1>1 DEF Step
<1> HIDE DEF y
<1>4. ChangeSound(y) /\ y # change[c]
  BY <1>2 DEF ChangeSound
<1>5. Entitled(c, y)
  BY <1>2, <1>4 DEF Entitled
<1>6. QED
  BY <1>2, <1>3, <1>4, <1>5, ChangeMove

(* A change ends in failure and leaves the files as they are. *)
LEMMA GivesUp ==
    ASSUME RegistrationInv, NEW c \in Commands, Step(c, "failed"), system' = system,
           change[c].pc # "failed", UNCHANGED <<target, task>>, enabled' \in BOOLEAN
    PROVE  RegistrationInv' /\ Kept
<1>1. "failed" \in ChangePlaces \ {"idle", "previewed"} /\ "failed" \notin Changing
  BY DEF ChangePlaces, Changing
<1>2. target' \in Definitions /\ task' \in Definitions /\ (system = "macos" => task' # Foreign)
  BY DEF RegistrationInv
<1>3. QED
  BY <1>1, <1>2, GoesOn

(* The backup is put back, over whatever is there. *)
LEMMA RestoreKeeps ==
    ASSUME RegistrationInv, NEW c \in Commands, Restore(c), system' = system,
           change[c].pc \in Changing, task' = task, enabled' \in BOOLEAN
    PROVE  RegistrationInv' /\ Kept
<1> DEFINE y == [change[c] EXCEPT !.pc = "failed", !.backup = None]
<1>1. change[c] \in ChangeType /\ change \in [Commands -> ChangeType]
  BY DEF RegistrationInv
<1>2. y \in ChangeType /\ y.pc = "failed" /\ y.backup = None
  BY <1>1 DEF ChangeType, ChangePlaces, Definitions
<1>3. change' = [change EXCEPT ![c] = y] /\ target' = change[c].backup
  BY <1>1 DEF Restore
<1>4. /\ target' \in Definitions /\ task' \in Definitions
      /\ system = "macos" => task' # Foreign
  BY <1>1, <1>3 DEF ChangeType, RegistrationInv, Definitions
<1> HIDE DEF y
<1>5. ChangeSound(y) /\ y # change[c]
  BY <1>2 DEF ChangeSound, Changing
<1>6. Entitled(c, y)
  BY <1>5 DEF Entitled
<1>7. QED
  BY <1>2, <1>3, <1>4, <1>5, <1>6, ChangeMove

(* autostart prepare: a preview changes no file. *)
LEMMA PrepareKeeps ==
    ASSUME RegistrationInv, NEW c \in Commands, Prepare(c), system' = system
    PROVE  RegistrationInv' /\ Kept
<1>1. PICK action \in {"on", "off"}, binary \in Binaries :
        change' = [change EXCEPT ![c] =
                     [NoChange EXCEPT !.pc = "previewed", !.action = action,
                                      !.binary = binary, !.seen = target,
                                      !.manager = ObserveManager]]
  BY DEF Prepare
<1> DEFINE m == ObserveManager
           y == [NoChange EXCEPT !.pc = "previewed", !.action = action,
                                 !.binary = binary, !.seen = target, !.manager = m]
<1>2. m \in Snapshot /\ target \in Definitions /\ task \in Definitions /\ enabled \in BOOLEAN
      /\ (system = "macos" => task # Foreign)
  BY ObserveType DEF RegistrationInv
<1> HIDE DEF m
<1>3. y \in ChangeType /\ y.pc = "previewed" /\ y.backup = None
  BY <1>2 DEF ChangeType, NoChange, ChangePlaces, Definitions
<1>4. change' = [change EXCEPT ![c] = y]
  BY <1>1 DEF m
<1> HIDE DEF y
<1>5. change[c].backup = None /\ UNCHANGED <<target, task, enabled>>
  BY DEF Prepare, RegistrationInv, ChangeSound
<1>6. ChangeSound(y) /\ Entitled(c, y)
  BY <1>3, <1>5 DEF ChangeSound, Entitled, Changing
<1>7. QED
  BY <1>2, <1>4, <1>5, <1>6, ChangeMove

(* apply passes its check only where nothing is somebody else's. *)
LEMMA CheckKeeps ==
    ASSUME RegistrationInv, NEW c \in Commands, Check(c), system' = system
    PROVE  RegistrationInv' /\ Kept
<1>1. /\ Foreign \notin {target, task} /\ change[c].pc = "previewed"
      /\ Step(c, FirstPlace(c)) /\ UNCHANGED <<target, task, enabled>>
  BY CheckedOwn DEF Check
<1>2. /\ FirstPlace(c) \in {"ok", "checked", "disable", "unlink"}
      /\ FirstPlace(c) = "disable" => change[c].manager.state = "present"
  BY DEF FirstPlace
<1>3. /\ FirstPlace(c) \in ChangePlaces \ {"idle", "previewed"}
      /\ FirstPlace(c) # change[c].pc /\ change[c].backup = None
  BY <1>1, <1>2 DEF ChangePlaces, Changing, RegistrationInv, ChangeSound
<1>4. /\ target' \in Definitions /\ task' \in Definitions /\ enabled' \in BOOLEAN
      /\ system = "macos" => task' # Foreign
  BY <1>1 DEF RegistrationInv
<1> HIDE DEF FirstPlace
<1>5. QED
  BY <1>1, <1>2, <1>3, <1>4, GoesOn

(* autostart install moves aside what is there. *)
LEMMA InstallKeeps ==
    ASSUME RegistrationInv, NEW c \in Commands, Install(c), system' = system
    PROVE  RegistrationInv' /\ Kept
<1>1. /\ change[c].pc = "checked" /\ change[c].pc \in Changing
      /\ task' = task /\ enabled' = enabled /\ change[c] \in ChangeType
      /\ target \in Definitions /\ task' \in Definitions /\ enabled' \in BOOLEAN
      /\ system = "macos" => task' # Foreign
  BY DEF Install, RegistrationInv, Changing
<1>2. CASE /\ change' = [change EXCEPT ![c].pc = "moved", ![c].backup = target]
           /\ target' = None
  <2> DEFINE y == [change[c] EXCEPT !.pc = "moved", !.backup = target]
  <2>1. y \in ChangeType /\ y.pc = "moved" /\ y.backup = target
    BY <1>1 DEF ChangeType, ChangePlaces, Changing, Definitions
  <2>2. change' = [change EXCEPT ![c] = y]
    BY <1>2 DEF RegistrationInv
  <2> HIDE DEF y
  <2>3. ChangeSound(y) /\ Entitled(c, y)
    BY <1>1, <2>1 DEF ChangeSound, Entitled
  <2>4. target' \in Definitions
    BY <1>2 DEF Definitions
  <2>5. y.backup = None => change[c].backup = None \/ target' = change[c].backup
    BY <1>1 DEF RegistrationInv, ChangeSound
  <2>6. QED
    BY <1>1, <2>2, <2>3, <2>4, <2>5, ChangeMove
<1>3. CASE Step(c, "failed") /\ target' = target
  BY <1>1, <1>3, GivesUp
<1>4. QED
  BY <1>2, <1>3 DEF Install

(* The steps of an autostart change, one by one. *)
LEMMA ChangeStepKeeps ==
    ASSUME RegistrationInv, NEW c \in Commands, ChangeStep(c), system' = system
    PROVE  RegistrationInv' /\ Kept
<1>1. /\ enabled \in BOOLEAN /\ change[c] \in ChangeType
      /\ target \in Definitions /\ task \in Definitions /\ None \in Definitions
      /\ change[c].binary \in Definitions
      /\ system = "macos" => task # Foreign
  BY DEF RegistrationInv, Definitions, ChangeType
<1>2. {"moved", "placed", "listed", "unlink", "reload", "ok", "failed"}
         \subseteq ChangePlaces \ {"idle", "previewed", "checked", "disable"}
  BY DEF ChangePlaces, Changing
<1>3. ASSUME NEW p \in {"placed", "listed", "unlink", "reload", "ok", "failed"}, Step(c, p),
             change[c].pc \in Changing, p # change[c].pc, p = "reload" => system = "linux",
             target' \in Definitions, task' \in Definitions, enabled' \in BOOLEAN,
             system = "macos" => task' # Foreign,
             task' = task \/ task # Foreign \/ Shown(c)
      PROVE  RegistrationInv' /\ Kept
  BY <1>2, <1>3, GoesOn
<1>4. ASSUME Decline(c) PROVE RegistrationInv' /\ Kept
  <2>1. Step(c, "failed") /\ change[c].pc # "failed" /\ UNCHANGED <<target, task, enabled>>
    BY <1>4 DEF Decline
  <2>2. QED
    BY <1>1, <2>1, GivesUp
<1>5. ASSUME Place(c) PROVE RegistrationInv' /\ Kept
  <2>1. change[c].pc = "moved" /\ change[c].pc \in Changing /\ task' = task /\ enabled' = enabled
    BY <1>5 DEF Place, Changing
  <2>2. CASE target' = change[c].binary /\ Step(c, "placed")
    BY <1>1, <1>3, <2>1, <2>2
  <2>3. CASE Restore(c)
    BY <1>1, <2>1, <2>3, RestoreKeeps
  <2>4. CASE Step(c, "failed") /\ target' = target
    BY <1>1, <1>3, <2>1, <2>4
  <2>5. QED
    BY <1>5, <2>2, <2>3, <2>4 DEF Place
<1>6. ASSUME Enlist(c) PROVE RegistrationInv' /\ Kept
  <2>1. change[c].pc = "placed" /\ change[c].pc \in Changing
    BY <1>6 DEF Enlist, Changing
  <2>2. CASE /\ Step(c, "listed") /\ target' = target /\ enabled' \in BOOLEAN
             /\ task' = task \/ (system # "macos" /\ Enlistable(c) /\ task' \in {task, target})
    <3>1. task' = task \/ task # Foreign \/ Shown(c)
      BY <2>2, AutostartAssumption DEF Enlistable, MayCreate, Shown
    <3>2. task' \in Definitions /\ (system = "macos" => task' # Foreign)
      BY <1>1, <2>2
    <3>3. QED
      BY <1>1, <1>3, <2>1, <2>2, <3>1, <3>2
  <2>3. CASE Restore(c) /\ task' = task /\ enabled' \in BOOLEAN
    BY <2>1, <2>3, RestoreKeeps
  <2>4. CASE target' \in {None, target} /\ Step(c, "failed") /\ task' = task /\ enabled' \in BOOLEAN
    BY <1>1, <1>3, <2>1, <2>4
  <2>5. \/ /\ Step(c, "listed") /\ target' = target /\ enabled' \in BOOLEAN
           /\ task' = task \/ (system # "macos" /\ Enlistable(c) /\ task' \in {task, target})
        \/ Withdraw(c) /\ task' = task /\ enabled' \in BOOLEAN
    <3>1. CASE /\ Enlistable(c) /\ Step(c, "listed") /\ target' = target /\ enabled' = TRUE
               /\ task' \in IF system = "linux" THEN Reloaded ELSE {target}
      <4>1. task' \in {task, target}
        BY <3>1 DEF Reloaded
      <4>2. system # "macos"
        BY <3>1 DEF Enlistable
      <4>3. QED
        BY <3>1, <4>1, <4>2
    <3>2. CASE Step(c, "listed") /\ target' = target /\ task' = task /\ enabled' = enabled
      <4>1. enabled' \in BOOLEAN
        BY <1>1, <3>2
      <4>2. QED
        BY <3>2, <4>1
    <3>3. CASE /\ Withdraw(c) /\ task' = task
               /\ enabled' \in {enabled, enabled \/ system = "linux"}
      BY <1>1, <3>3
    <3>4. QED
      BY <1>6, <3>1, <3>2, <3>3 DEF Enlist
  <2>6. QED
    BY <2>2, <2>3, <2>4, <2>5 DEF Withdraw
<1>7. ASSUME Unbackup(c) PROVE RegistrationInv' /\ Kept
  <2>1. /\ change[c].pc = "listed" /\ change[c].pc \in Changing
        /\ UNCHANGED <<target, task, enabled>>
    BY <1>7 DEF Unbackup, Changing
  <2>2. CASE change' = [change EXCEPT ![c].pc = "ok", ![c].backup = None]
    <3> DEFINE y == [change[c] EXCEPT !.pc = "ok", !.backup = None]
    <3>1. y \in ChangeType /\ y.pc = "ok" /\ y.backup = None
      BY <1>1 DEF ChangeType, ChangePlaces, Definitions
    <3>2. change' = [change EXCEPT ![c] = y]
      BY <2>2 DEF RegistrationInv
    <3> HIDE DEF y
    <3>3. ChangeSound(y) /\ Entitled(c, y)
      BY <2>1, <3>1 DEF ChangeSound, Entitled
    <3>4. QED
      BY <1>1, <2>1, <3>1, <3>2, <3>3, ChangeMove
  <2>3. CASE Step(c, "failed")
    BY <1>1, <1>3, <2>1, <2>3
  <2>4. QED
    BY <1>7, <2>2, <2>3 DEF Unbackup
<1>8. ASSUME Disable(c) PROVE RegistrationInv' /\ Kept
  <2>1. /\ change[c].pc = "disable" /\ change[c].pc \in Changing
        /\ target' = target /\ task' \in {task, None} /\ enabled' \in BOOLEAN
        /\ Step(c, "unlink") \/ Step(c, "failed")
    BY <1>1, <1>8 DEF Disable, Changing
  <2>2. Shown(c)
    BY <2>1 DEF Shown, RegistrationInv, ChangeSound
  <2>3. /\ system = "macos" => task' # Foreign
        /\ target' \in Definitions /\ task' \in Definitions
    BY <1>1, <2>1, AutostartAssumption
  <2>4. CASE Step(c, "unlink")
    BY <1>3, <2>1, <2>2, <2>3, <2>4
  <2>5. CASE Step(c, "failed")
    BY <1>3, <2>1, <2>2, <2>3, <2>5
  <2>6. QED
    BY <2>1, <2>4, <2>5
<1>9. ASSUME Unlink(c) PROVE RegistrationInv' /\ Kept
  <2>1. /\ change[c].pc = "unlink" /\ change[c].pc \in Changing
        /\ task' = task /\ enabled' = enabled /\ target' \in {None, target}
        /\ \E p \in {"reload", "ok", "failed"} : Step(c, p) /\ (p = "reload" => system = "linux")
    BY <1>9 DEF Unlink, Changing
  <2>2. target' \in Definitions /\ task' \in Definitions /\ enabled' \in BOOLEAN
    BY <1>1, <2>1
  <2>3. PICK p \in {"reload", "ok", "failed"} : Step(c, p) /\ (p = "reload" => system = "linux")
    BY <2>1
  <2>4. QED
    BY <1>1, <1>3, <2>1, <2>2, <2>3
<1>10. ASSUME ReloadUnits(c) PROVE RegistrationInv' /\ Kept
  <2>1. /\ change[c].pc = "reload" /\ change[c].pc \in Changing
        /\ target' = target /\ enabled' = enabled /\ task' \in {task, target}
        /\ Step(c, "ok") \/ Step(c, "failed")
    BY <1>10 DEF ReloadUnits, Reloaded, Changing
  <2>2. /\ target' \in Definitions /\ task' \in Definitions /\ enabled' \in BOOLEAN
        /\ Shown(c) /\ system # "macos"
    BY <1>1, <2>1 DEF Shown, RegistrationInv, ChangeSound
  <2>3. PICK p \in {"ok", "failed"} : Step(c, p)
    BY <2>1
  <2>4. QED
    BY <1>1, <1>3, <2>1, <2>2, <2>3
<1>11. ASSUME KillChange(c) PROVE RegistrationInv' /\ Kept
  <2>1. Step(c, "failed") /\ change[c].pc # "failed" /\ UNCHANGED <<target, task, enabled>>
    BY <1>11 DEF KillChange, Changing
  <2>2. QED
    BY <1>1, <2>1, GivesUp
<1>12. QED
  BY <1>4, <1>5, <1>6, <1>7, <1>8, <1>9, <1>10, <1>11, CheckKeeps, InstallKeeps DEF ChangeStep

(* Somebody else registers, at any time. *)
LEMMA MeddleKeeps ==
    ASSUME RegistrationInv, Meddle, system' = system
    PROVE  RegistrationInv' /\ Kept
<1>1. /\ change' = change /\ enabled' = enabled
      /\ target' \in {target, Foreign} /\ task' \in {task, Foreign}
      /\ system = "macos" => task' = task
  BY DEF Meddle
<1>2. RegistrationInv'
  BY <1>1 DEF RegistrationInv, ChangeSound, Definitions
<1>3. Kept
  BY <1>1 DEF Kept, PastCheck
<1>4. QED
  BY <1>2, <1>3

(* Whoever changes neither the registration nor a change of it keeps all. *)
LEMMA ElsewhereKeeps ==
    ASSUME RegistrationInv, UNCHANGED <<system, autostartVars>>
    PROVE  RegistrationInv' /\ Kept
BY DEF RegistrationInv, ChangeSound, Kept, PastCheck, autostartVars

(* No step turns one operating system into another. *)
LEMMA LifecycleSystem ==
    ASSUME NEW c \in Commands, LifecycleStep(c) PROVE system' = system
BY Zenon DEF LifecycleStep, Operation, Probe, ProbedFree, Ask, Unanswered, Start, StartFree,
       Provision, Fill, Wait, Reload, Stop, Stopped, Verify, Tell, Gone, Initialise, Files

(* Neither does setup. *)
LEMMA SetupSystem ==
    ASSUME NEW c \in Commands, SetupStep(c) PROVE system' = system
BY Zenon DEF SetupStep, Apply, Inspected, WriteConfig, Replace, Replaced, Cleaned, WritePending,
       Returned, Kill, Files

(* Neither does connect. *)
LEMMA ConnectSystem ==
    ASSUME NEW c \in Commands, ConnectPlan(c) \/ ConnectStep(c) PROVE system' = system
BY Zenon DEF ConnectPlan, ConnectStep, Impact, Preview, Confirm, Fresh, EstablishedAgain, Activated,
       Patch, Files

(* Neither does a worker. *)
LEMMA WorkerSystem ==
    ASSUME NEW w \in Workers, WorkerStep(w) PROVE system' = system
BY Zenon DEF WorkerStep, Run, Load, Claim, WorkerProvision, Bind, Publish, Interrupt, Retire, Die,
       Files

(* The machine stays on one operating system. *)
LEMMA SystemFixed ==
    ASSUME [Next]_vars
    PROVE  system' = system
<1>1. CASE UNCHANGED vars
  BY <1>1 DEF vars, lifecycleVars
<1>2. ASSUME NEW c \in Commands, NEW kind, Begin(c, kind) PROVE system' = system
  BY <1>2 DEF Begin, Files
<1>3. ASSUME NEW c \in Commands, NEW mode, Review(c, mode) PROVE system' = system
  BY <1>3 DEF Review, Files
<1>4. ASSUME NEW c \in Commands, AutostartCommand(c) \/ SetupAutostart(c) PROVE system' = system
  BY <1>4 DEF AutostartCommand, SetupAutostart, Files
<1>5. ASSUME Edit \/ EditClient PROVE system' = system
  BY <1>5 DEF Edit, EditClient, Files
<1>6. ASSUME UNCHANGED Files PROVE system' = system
  BY <1>6 DEF Files
<1>7. CASE Next
  BY <1>2, <1>3, <1>4, <1>5, <1>6, <1>7, LifecycleSystem, SetupSystem, ConnectSystem, WorkerSystem
     DEF Next
<1>8. QED
  BY <1>1, <1>7

(* Every step of the machine. *)
LEMMA RegistrationNext ==
    ASSUME RegistrationInv, [Next]_vars
    PROVE  RegistrationInv' /\ Kept
<1>1. system' = system
  BY SystemFixed
<1>2. CASE UNCHANGED autostartVars
  BY <1>1, <1>2, ElsewhereKeeps
<1>3. CASE \E c \in Commands : Prepare(c)
  BY <1>1, <1>3, PrepareKeeps
<1>4. CASE \E c \in Commands : ChangeStep(c)
  BY <1>1, <1>4, ChangeStepKeeps
<1>5. CASE Meddle
  BY <1>1, <1>5, MeddleKeeps
<1>6. \/ UNCHANGED autostartVars \/ Meddle
      \/ \E c \in Commands : Prepare(c) \/ ChangeStep(c)
  BY DEF Next, vars, AutostartCommand, SetupAutostart
<1>7. QED
  BY <1>2, <1>3, <1>4, <1>5, <1>6

(* Nothing is registered at first. *)
LEMMA RegistrationStart == Init => RegistrationInv
<1> SUFFICES ASSUME Init PROVE RegistrationInv
  OBVIOUS
<1>1. NoChange \in ChangeType /\ NoChange.pc = "idle" /\ NoChange.backup = None
  BY DEF NoChange, ChangeType, ChangePlaces, Definitions
<1>2. ChangeSound(NoChange) /\ None # Foreign
  BY <1>1, AutostartAssumption DEF ChangeSound
<1>3. /\ target = None /\ task = None /\ enabled = FALSE
      /\ change = [c \in Commands |-> NoChange] /\ system \in Systems
  BY DEF Init, AutostartInit, LifecycleInit
<1> HIDE DEF NoChange
<1>4. QED
  BY <1>1, <1>2, <1>3 DEF RegistrationInv, Definitions

(* What is recorded of every change (autostart apply, install, remove).    *)
THEOREM HostRegistrationInvariant == Spec => []RegistrationInv
<1>1. RegistrationInv /\ [Next]_vars => RegistrationInv'
  BY RegistrationNext
<1>2. QED
  BY <1>1, RegistrationStart, PTL DEF Spec

(* However many changes are made at once and whenever somebody else        *)
(* registers: no change gets past its check while such a registration is   *)
(* there, only changes past it touch one, and on Windows a task only if    *)
(* one was shown (autostart apply, install_manager, remove_manager).       *)
THEOREM HostForeignKept == Spec => ForeignKept
<1> DEFINE acting == {c \in PastCheck : change'[c] # change[c]}
           Guarded ==
             /\ Foreign \in {target, task} => PastCheck' \subseteq PastCheck
             /\ target = Foreign /\ target' # Foreign => acting # {}
             /\ task = Foreign /\ task' # Foreign =>
                  \E c \in acting : system = "windows" => change[c].manager.state = "present"
<1>1. RegistrationInv /\ [Next]_vars => [Guarded]_vars
  <2> SUFFICES ASSUME RegistrationInv, [Next]_vars PROVE Guarded
    OBVIOUS
  <2>1. Kept
    BY RegistrationNext
  <2>2. \A c \in Commands : Acts(c) => c \in acting
    BY DEF Acts
  <2>3. QED
    BY <2>1, <2>2 DEF Kept, Shown
<1>2. QED
  BY <1>1, HostRegistrationInvariant, PTL DEF Spec, ForeignKept
-----------------------------------------------------------------------------
(* The commands.  What a command holds at each place of its program, and   *)
(* what is true of the worker it names while it relies on it.              *)
Texts == Contents \cup {None}
Somebody == Workers \cup {None}

ClientType == [by : {"before", "user", "gateway"}, fp : Texts]

PlanType ==
    [orig : Contents \cup {Broken, Absent}, pend : Texts, desired : Contents, mode : Modes,
     action : {"none", "on", "restart", "SaveOnly"}, client : ClientType \cup {None},
     reviewed : {"none", "Ready", "Restart", "Start", "Blocked"}]

Writing == {"write", "replace", "replaced", "verified", "pending"}
Swapping == {"replace", "replaced", "verified"}
Asked == {"impact", "preview", "fresh", "established"}
Connecting == {"impact", "preview", "confirm", "fresh", "established", "patch"}

Kinds == {None, "status", "on", "off", "restart", "setup", "connect", "autostart"}
Places ==
    {"idle", "await", "status", "ask", "start", "provision", "fill", "wait", "reload",
     "stop", "verify", "tell", "gone", "init", "returned", "reviewed", "inspected", "done"}
    \cup Writing \cup Connecting
Tasks == {"", "status", "on", "off", "restart", "init"}
Returns ==
    {"", "answer", "on", "off", "restart", "init", "held", "ready", "spawn", "stop",
     "initialised", "inspected"} \cup Asked
States ==
    {"", "running", "draining", "stopped", "error", "failed", "port_in_use",
     "worker_start_failed", "not_started", "pending"}

CmdType ==
    [kind : Kinds, pc : Places, task : Tasks, ret : Returns, op : BOOLEAN, lock : BOOLEAN,
     setup : BOOLEAN, want : Texts, load : Texts, inst : Somebody, child : Somebody,
     ok : BOOLEAN, state : States, fp : Texts, plan : PlanType \cup {None}]

WorkerType == [pc : {"idle"} \cup Loading \cup Holding \cup Dead, want : Texts, fp : Texts]

HostType ==
    /\ config \in Contents \cup {Broken, Absent}
    /\ record \in {None} \cup [inst : Workers, state : {"running", "stopped", "failed"}]
    /\ cmd \in [Commands -> CmdType]
    /\ worker \in [Workers -> WorkerType]
    /\ pending \in Texts
    /\ client \in ClientType

Planned(p) == p.kind \in {"setup", "connect"} /\ p.pc \notin {"idle", "done"}

(* Where a command is says what it runs and what it may do. *)
Placed(p) ==
    /\ p.pc \in {"returned", "reviewed", "inspected"} \cup Writing => Planned(p)
    /\ p.pc \in Connecting => p.kind = "connect"
    /\ p.pc \in Writing \cup {"inspected"} => p.setup
    /\ p.pc \in {"status", "ask"} =>
         /\ p.ret \in {"answer", "on", "held", "ready", "inspected"} \cup Asked
         /\ p.ret = "inspected" => Planned(p) /\ p.setup
         /\ p.ret \in Asked => p.kind = "connect" /\ p.task = ""
    /\ p.pc \in Asked \cup {"confirm", "reviewed"} => p.task = ""
    /\ p.pc = "wait" => p.ret = "ready"
    /\ p.pc = "await" => p.task \in {"on", "off", "restart", "init"}
    /\ p.pc = "init" => p.task = "init"
    /\ p.task = "init" =>
         /\ p.pc \in {"await", "init", "provision", "fill", "returned"}
         /\ p.pc \in {"provision", "fill"} => p.ret = "initialised"
    /\ p.kind = "off" =>
         \/ p.pc \in {"idle", "done"}
         \/ p.task = "off" /\ p.pc \in {"await", "stop", "verify", "tell", "gone"}
    /\ p.task = "off" => p.kind = "off"
    /\ p.pc = "reload" => p.task = "restart"
    /\ p.pc \in {"provision", "fill"} /\ p.ret = "stop" => p.task = "restart"
    /\ p.pc \in {"stop", "verify", "tell", "gone"} => p.task \in {"off", "restart"}

(* A plan restarts only what it showed, and is carried out as it is. *)
Permitted(p) ==
    /\ Planned(p) => p.plan \in PlanType /\ p.want \in {None, p.plan.desired}
    /\ ~ Planned(p) => p.plan = None
    /\ p.kind \notin {"setup", "connect"} => p.want = None
    /\ Planned(p) /\ p.task = "restart" =>
         p.plan.mode = "SaveAndRestart" \/ p.plan.reviewed = "Restart"
    /\ Planned(p) /\ p.plan.action = "restart" => p.plan.mode = "SaveAndRestart"
    /\ Planned(p) /\ (p.task = "init" \/ p.pc \in Writing) =>
         p.plan.action \in {"on", "restart"} \/ p.plan.mode = "SaveOnly"
    /\ p.pc = "patch" => p.state = "running" /\ p.fp = p.plan.desired

(* What a command says or relies on is true of the worker it names. *)
Backed(p, workers) ==
    /\ p.state = "running" =>
         /\ p.pc \in {"done", "returned", "inspected"} \cup Connecting
         /\ p.pc = "returned" => p.task # "init"
         /\ p.inst \in Workers
         /\ workers[p.inst].fp = p.fp /\ workers[p.inst].pc \in Serving \cup Dead
         /\ p.pc = "done" => p.want \in {None, p.fp}
    /\ p.pc \in {"ask", "verify", "tell", "gone"} => p.inst \in Workers
    /\ p.pc = "gone" => workers[p.inst].pc \in Dead \cup {"stopping"}
    /\ p.pc = "gone" /\ p.lock => workers[p.inst].pc \in Dead
    /\ p.kind = "off" /\ p.pc \in {"await", "stop"} => p.inst = None
    /\ p.kind = "off" /\ p.pc = "done" /\ p.ok /\ p.inst # None =>
         workers[p.inst].pc \in Dead

Good(p, workers) == Placed(p) /\ Permitted(p) /\ Backed(p, workers)

CommandInv ==
    /\ HostType
    /\ \A c \in Commands : Good(cmd[c], worker)
    /\ \A c, d \in Commands : cmd[c].setup /\ cmd[d].setup => c = d

(* Both copies are there before the config goes, and it is there while     *)
(* they are used.                                                          *)
CopyInv ==
    /\ copies \in [Commands -> [original : Contents \cup {Broken, Absent, None},
                                replacement : Texts]]
    /\ \A c \in Commands :
         /\ cmd[c].pc = "replace" => /\ copies[c].original = cmd[c].plan.orig
                                     /\ copies[c].replacement = cmd[c].plan.desired
         /\ cmd[c].pc \in Swapping => config # Absent

HostInv == CommandInv /\ CopyInv /\ RegistrationInv
-----------------------------------------------------------------------------
(* A worker that has served keeps its contents, and never comes back. *)
Forward ==
    \A w \in Workers :
      /\ worker[w].pc \in Serving \cup Dead =>
           worker'[w].fp = worker[w].fp /\ worker'[w].pc \in Serving \cup Dead
      /\ worker[w].pc \in Dead \cup {"stopping"} => worker'[w].pc \in Dead \cup {"stopping"}
      /\ worker[w].pc \in Dead => worker'[w].pc \in Dead

(* The command goes on to a state in which all it relies on is true. *)
Sound(c, y) ==
    /\ y \in CmdType /\ Good(y, worker)
    /\ y.setup => cmd[c].setup \/ SetupLockFree
    /\ y.pc \in Swapping => cmd[c].pc \in Writing

Moves(c) ==
    /\ \E y \in CmdType :
         /\ Good(y, worker') /\ cmd' = [cmd EXCEPT ![c] = y]
         /\ y.setup => cmd[c].setup \/ SetupLockFree
         /\ y.pc \in Swapping => cmd[c].pc \in Writing
    /\ Forward /\ worker' \in [Workers -> WorkerType]

(* Only a command that tells a worker to stop stops one, and that one. *)
StopsTold(c) ==
    \A w \in Workers :
      worker[w].pc # "stopping" /\ worker'[w].pc = "stopping" =>
        cmd[c].inst = w /\ cmd[c].pc = "tell"

(* What a command relies on stays true while the workers go forward. *)
LEMMA BackedForward ==
    ASSUME NEW p \in CmdType, Backed(p, worker), Forward
    PROVE  Backed(p, worker')
<1>1. p.inst \in Workers \/ p.inst = None
  BY DEF CmdType, Somebody
<1>2. "stopping" \in Serving
  BY DEF Serving
<1>3. QED
  BY <1>1, <1>2 DEF Backed, Forward

(* One command moves, soundly: everything else stays true of the others. *)
LEMMA CommandFrame ==
    ASSUME CommandInv, NEW c \in Commands, Moves(c),
           config' \in Contents \cup {Broken, Absent}, record' = record,
           pending' \in Texts, client' \in ClientType
    PROVE  CommandInv'
<1>1. PICK y \in CmdType :
        /\ Good(y, worker') /\ cmd' = [cmd EXCEPT ![c] = y]
        /\ y.setup => cmd[c].setup \/ SetupLockFree
  BY DEF Moves
<1>0. Forward /\ worker' \in [Workers -> WorkerType]
  BY DEF Moves
<1>2. /\ cmd \in [Commands -> CmdType]
      /\ \A d \in Commands : cmd[d] \in CmdType /\ Good(cmd[d], worker)
      /\ record \in {None} \cup [inst : Workers, state : {"running", "stopped", "failed"}]
  BY DEF CommandInv, HostType
<1>3. cmd' \in [Commands -> CmdType] /\ cmd'[c] = y
      /\ \A d \in Commands \ {c} : cmd'[d] = cmd[d]
  BY <1>1, <1>2
<1>4. ASSUME NEW d \in Commands PROVE Good(cmd'[d], worker')
  <2>1. CASE d = c
    BY <1>1, <1>3, <2>1
  <2>2. CASE d # c
    <3>1. cmd[d] \in CmdType /\ Placed(cmd[d]) /\ Permitted(cmd[d]) /\ Backed(cmd[d], worker)
      BY <1>2 DEF Good
    <3>2. Backed(cmd[d], worker')
      BY <1>0, <3>1, BackedForward
    <3>3. QED
      BY <1>3, <2>2, <3>1, <3>2 DEF Good
  <2>3. QED
    BY <2>1, <2>2
<1>5. ASSUME NEW d \in Commands, NEW e \in Commands, cmd'[d].setup, cmd'[e].setup
      PROVE  d = e
  BY <1>1, <1>3, <1>5 DEF CommandInv, SetupLockFree
<1>6. HostType'
  BY <1>0, <1>2, <1>3 DEF HostType
<1>7. QED
  BY <1>4, <1>5, <1>6 DEF CommandInv

(* What is known of a command at the beginning of a step. *)
LEMMA CommandAt ==
    ASSUME CommandInv, NEW c \in Commands
    PROVE  /\ cmd[c] \in CmdType /\ Placed(cmd[c]) /\ Permitted(cmd[c])
           /\ Backed(cmd[c], worker)
           /\ worker \in [Workers -> WorkerType] /\ config \in Contents \cup {Broken, Absent}
           /\ record \in {None} \cup [inst : Workers, state : {"running", "stopped", "failed"}]
           /\ pending \in Texts /\ client \in ClientType
BY DEF CommandInv, HostType, Good

(* A sound new state, and workers that go forward, make a move. *)
LEMMA SoundMoves ==
    ASSUME NEW c \in Commands, NEW y, Sound(c, y), Goto(c, y), Forward,
           worker' \in [Workers -> WorkerType]
    PROVE  Moves(c)
<1>1. y \in CmdType /\ Placed(y) /\ Permitted(y) /\ Backed(y, worker)
  BY DEF Sound, Good
<1>2. Good(y, worker')
  BY <1>1, BackedForward DEF Good
<1>3. QED
  BY <1>1, <1>2 DEF Moves, Sound, Goto

(* So does a sound new state while the workers stand still. *)
LEMMA AloneMoves ==
    ASSUME CommandInv, NEW c \in Commands, NEW y, Sound(c, y), Goto(c, y), worker' = worker
    PROVE  Moves(c) /\ StopsTold(c)
<1>1. Forward /\ worker' \in [Workers -> WorkerType]
  BY DEF Forward, CommandInv, HostType
<1>2. StopsTold(c)
  BY DEF StopsTold
<1>3. QED
  BY <1>1, <1>2, SoundMoves

-----------------------------------------------------------------------------
(* The words the records are made of. *)
LEMMA Words ==
    /\ \A s \in {"idle", "await", "status", "ask", "start", "provision", "fill", "wait",
                 "reload", "stop", "verify", "tell", "gone", "init", "returned", "reviewed",
                 "inspected", "done", "write", "replace", "replaced", "verified", "pending",
                 "impact", "preview", "confirm", "fresh", "established", "patch"} : s \in Places
    /\ \A s \in {"", "status", "on", "off", "restart", "init"} : s \in Tasks
    /\ \A s \in {"", "answer", "on", "off", "restart", "init", "held", "ready", "spawn",
                 "stop", "initialised", "inspected", "impact", "preview", "fresh",
                 "established"} : s \in Returns
    /\ \A s \in {"", "running", "draining", "stopped", "error", "failed", "port_in_use",
                 "worker_start_failed", "not_started", "pending"} : s \in States
    /\ \A s \in {"status", "on", "off", "restart", "setup", "connect", "autostart"} : s \in Kinds
    /\ None \in Texts /\ None \in Somebody /\ None \in Kinds
BY DEF Places, Tasks, Returns, States, Kinds, Texts, Somebody, Writing, Connecting, Asked

(* A command that has not begun. *)
LEMMA BlankFields ==
    /\ Blank \in CmdType
    /\ Blank.kind = None /\ Blank.pc = "idle" /\ Blank.task = "" /\ Blank.ret = ""
    /\ Blank.op = FALSE /\ Blank.lock = FALSE /\ Blank.setup = FALSE /\ Blank.want = None
    /\ Blank.load = None /\ Blank.inst = None /\ Blank.child = None /\ Blank.ok = FALSE
    /\ Blank.state = "" /\ Blank.fp = None /\ Blank.plan = None
<1>1. Blank \in CmdType
  BY Words DEF Blank, CmdType
<1>2. QED
  BY <1>1 DEF Blank

(* To changes the place and gives up worker.lock, nothing else. *)
LEMMA ToFields ==
    ASSUME NEW c, cmd[c] \in CmdType, NEW pc \in Places
    PROVE  /\ To(c, pc) \in CmdType
           /\ To(c, pc).kind = cmd[c].kind /\ To(c, pc).pc = pc /\ To(c, pc).task = cmd[c].task
           /\ To(c, pc).ret = cmd[c].ret /\ To(c, pc).op = cmd[c].op /\ To(c, pc).lock = FALSE
           /\ To(c, pc).setup = cmd[c].setup /\ To(c, pc).want = cmd[c].want
           /\ To(c, pc).load = cmd[c].load /\ To(c, pc).inst = cmd[c].inst
           /\ To(c, pc).child = cmd[c].child /\ To(c, pc).ok = cmd[c].ok
           /\ To(c, pc).state = cmd[c].state /\ To(c, pc).fp = cmd[c].fp
           /\ To(c, pc).plan = cmd[c].plan
<1>1. To(c, pc) \in CmdType
  BY DEF To, CmdType
<1>2. QED
  BY DEF To, CmdType

(* A lifecycle function ends: the answer is true of the worker it names. *)
LEMMA EndedSound ==
    ASSUME CommandInv, NEW c \in Commands, NEW ok \in BOOLEAN, NEW state \in States,
           NEW inst \in Somebody, NEW fp \in Texts,
           cmd[c].pc \notin {"idle", "done"},
           state = "running" =>
             /\ cmd[c].task # "init" /\ inst \in Workers
             /\ worker[inst].fp = fp /\ worker[inst].pc \in Serving \cup Dead,
           cmd[c].kind = "off" /\ ok /\ inst # None => worker[inst].pc \in Dead
    PROVE  Sound(c, Ended(c, ok, state, inst, fp))
<1> DEFINE y == Ended(c, ok, state, inst, fp)
<1>1. cmd[c] \in CmdType /\ Placed(cmd[c]) /\ Permitted(cmd[c])
  BY CommandAt
<1>2. CASE cmd[c].kind \in {"setup", "connect"}
  <2>1. y \in CmdType
    <3>1. "returned" \in Places /\ "" \in Returns /\ None \in Texts /\ None \in Somebody
      BY Words
    <3>2. [cmd[c] EXCEPT !.pc = "returned", !.op = FALSE, !.lock = FALSE, !.ret = "",
                         !.ok = ok, !.state = state, !.inst = inst, !.fp = fp,
                         !.load = None, !.child = None] \in CmdType
      BY <1>1, <3>1 DEF CmdType
    <3>3. QED
      BY <1>2, <3>2 DEF Ended
  <2>2. /\ y.kind = cmd[c].kind /\ y.pc = "returned" /\ y.task = cmd[c].task /\ y.ret = ""
        /\ y.op = FALSE /\ y.lock = FALSE /\ y.setup = cmd[c].setup /\ y.want = cmd[c].want
        /\ y.load = None /\ y.inst = inst /\ y.child = None /\ y.ok = ok /\ y.state = state
        /\ y.fp = fp /\ y.plan = cmd[c].plan
    BY <1>1, <1>2 DEF Ended, CmdType
  <2> HIDE DEF y
  <2>3. Planned(y) /\ Planned(cmd[c])
    BY <1>2, <2>2 DEF Planned
  <2>4. Placed(y)
    BY <1>1, <1>2, <2>2, <2>3 DEF Placed, Writing, Connecting, Asked
  <2>5. Permitted(y)
    BY <1>1, <1>2, <2>2, <2>3 DEF Permitted, Writing
  <2>6. Backed(y, worker)
    BY <1>2, <2>2 DEF Backed
  <2>7. QED
    BY <2>1, <2>2, <2>4, <2>5, <2>6 DEF Sound, Good, Swapping, y
<1>3. CASE cmd[c].kind \notin {"setup", "connect"}
  <2>0. cmd[c].kind \in Kinds
    BY <1>1 DEF CmdType
  <2>1. y = [Blank EXCEPT !.kind = cmd[c].kind, !.pc = "done", !.ok = ok,
                          !.state = state, !.inst = inst, !.fp = fp]
    BY <1>3 DEF Ended
  <2>2. y \in CmdType
    BY <2>0, <2>1, Words, BlankFields, ZenonT(60) DEF CmdType
  <2>3. /\ y.kind = cmd[c].kind /\ y.pc = "done" /\ y.task = "" /\ y.ret = "" /\ y.op = FALSE
        /\ y.lock = FALSE /\ y.setup = FALSE /\ y.want = None /\ y.load = None /\ y.inst = inst
        /\ y.child = None /\ y.ok = ok /\ y.state = state /\ y.fp = fp /\ y.plan = None
    BY <2>1 DEF Blank
  <2> HIDE DEF y
  <2>4. ~ Planned(y)
    BY <2>3 DEF Planned
  <2>5. Placed(y)
    BY <1>3, <2>3 DEF Placed, Writing, Connecting, Asked
  <2>6. Permitted(y)
    BY <1>3, <2>3, <2>4 DEF Permitted, Writing
  <2>7. Backed(y, worker)
    BY <1>3, <2>3 DEF Backed
  <2>8. QED
    BY <2>2, <2>3, <2>5, <2>6, <2>7 DEF Sound, Good, Swapping, y
<1>4. QED
  BY <1>2, <1>3

(* Failing says nothing of any worker. *)
LEMMA FailedSound ==
    ASSUME CommandInv, NEW c \in Commands, cmd[c].pc \notin {"idle", "done"}
    PROVE  Sound(c, Failed(c))
BY EndedSound, Words DEF Failed

(* A setup, a connect or a killed command that ends says nothing. *)
LEMMA RefusedSound ==
    ASSUME CommandInv, NEW c \in Commands
    PROVE  Sound(c, Refused(c))
<1> DEFINE y == Refused(c)
<1>1. cmd[c].kind \in Kinds
  BY CommandAt DEF CmdType
<1>2. y \in CmdType
  BY <1>1, Words, BlankFields DEF Refused, CmdType
<1>3. /\ y.kind = cmd[c].kind /\ y.pc = "done" /\ y.task = "" /\ y.ret = "" /\ y.op = FALSE
      /\ y.lock = FALSE /\ y.setup = FALSE /\ y.want = None /\ y.load = None /\ y.inst = None
      /\ y.child = None /\ y.ok = FALSE /\ y.state = "failed" /\ y.fp = None /\ y.plan = None
  BY DEF Refused, Blank
<1> HIDE DEF y
<1>4. ~ Planned(y)
  BY <1>3 DEF Planned
<1>5. Placed(y)
  BY <1>3 DEF Placed, Writing, Connecting, Asked
<1>6. Permitted(y)
  BY <1>3, <1>4 DEF Permitted, Writing
<1>7. Backed(y, worker)
  BY <1>3 DEF Backed
<1>8. QED
  BY <1>2, <1>3, <1>5, <1>6, <1>7 DEF Sound, Good, Swapping, y

-----------------------------------------------------------------------------
(* A command that goes on with what it runs keeps its plan. *)
LEMMA KeepsPlan ==
    ASSUME NEW p, Permitted(p), NEW y, y.kind = p.kind, y.task = p.task, y.want = p.want,
           y.plan = p.plan, p.pc \notin {"idle", "done"}, y.pc \notin {"idle", "done", "patch"},
           y.pc \in Writing => p.pc \in Writing
    PROVE  Permitted(y)
BY DEF Permitted, Planned

(* What a status says: Running is said of the worker that answered. *)
Status(s) ==
    /\ s.state \in {"running", "draining", "stopped", "error"} /\ s.inst \in Somebody
    /\ s.fp \in Texts /\ s.pending \in BOOLEAN
    /\ s.state = "running" =>
         /\ s.inst \in Workers
         /\ worker[s.inst].fp = s.fp /\ worker[s.inst].pc \in Serving \cup Dead

(* A status ends the function that asked for it. *)
LEMMA StatusEnds ==
    ASSUME CommandInv, NEW c \in Commands, NEW s, Status(s), cmd[c].pc \in {"status", "ask"},
           NEW ok \in BOOLEAN
    PROVE  /\ Sound(c, Ended(c, ok, s.state, s.inst, s.fp)) /\ Sound(c, Failed(c))
<1>1. cmd[c].task # "init" /\ cmd[c].kind # "off"
  BY CommandAt DEF Placed
<1>2. s.state \in States
  BY Words DEF Status
<1>3. Sound(c, Ended(c, ok, s.state, s.inst, s.fp))
  BY <1>1, <1>2, EndedSound DEF Status
<1>4. QED
  BY <1>3, FailedSound

(* on_inner: start, refuse, or answer with what status said. *)
LEMMA OnStatusSound ==
    ASSUME CommandInv, NEW c \in Commands, NEW s, Status(s), cmd[c].pc \in {"status", "ask"}
    PROVE  Sound(c, OnStatus(c, s))
<1>1. /\ cmd[c] \in CmdType /\ Placed(cmd[c]) /\ Permitted(cmd[c])
      /\ Backed(cmd[c], worker)
  BY CommandAt
<1>2. ASSUME config \in Contents
      PROVE  Sound(c, [To(c, "start") EXCEPT !.load = config, !.inst = None])
  <2>0. config \in Texts
    BY <1>2 DEF Texts
  <2> DEFINE t == To(c, "start")
              y == [t EXCEPT !.load = config, !.inst = None]
  <2>a. "start" \in Places
    BY <1>1, Words, <2>0
  <2>1. /\ t \in CmdType
        /\ t.kind = cmd[c].kind /\ t.pc = "start" /\ t.task = cmd[c].task /\ t.ret = cmd[c].ret
        /\ t.lock = FALSE /\ t.setup = cmd[c].setup /\ t.want = cmd[c].want
        /\ t.inst = cmd[c].inst /\ t.ok = cmd[c].ok /\ t.state = cmd[c].state
        /\ t.fp = cmd[c].fp /\ t.plan = cmd[c].plan
    BY <1>1, <2>a, ToFields
  <2> HIDE DEF t
  <2>2. y \in CmdType
    BY <2>1, Words, <2>0 DEF CmdType
  <2>3. /\ y.kind = cmd[c].kind /\ y.pc = "start" /\ y.task = cmd[c].task /\ y.ret = cmd[c].ret
        /\ y.lock = FALSE /\ y.setup = cmd[c].setup /\ y.want = cmd[c].want /\ y.inst = None
        /\ y.ok = cmd[c].ok /\ y.state = cmd[c].state /\ y.fp = cmd[c].fp
        /\ y.plan = cmd[c].plan
    BY <2>1 DEF CmdType
  <2> HIDE DEF y
  <2>4. Placed(y)
    BY <1>1, <2>0, <2>3 DEF Placed, Planned, Writing, Connecting, Asked
  <2>5. Permitted(y)
    BY <1>1, <2>0, <2>3, KeepsPlan DEF Writing
  <2>6. Backed(y, worker)
    BY <1>1, <2>0, <2>3 DEF Backed, Connecting, Planned
  <2>7. QED
    BY <2>2, <2>3, <2>4, <2>5, <2>6 DEF Sound, Good, Swapping, y, t
<1>3. Sound(c, Failed(c)) /\ Sound(c, Ended(c, TRUE, s.state, s.inst, s.fp))
  BY StatusEnds
<1>4. QED
  BY <1>2, <1>3 DEF OnStatus

(* start's loop: answer once the spawned fingerprint runs, else wait on. *)
LEMMA ReadyStatusSound ==
    ASSUME CommandInv, NEW c \in Commands, NEW s, Status(s), cmd[c].pc \in {"status", "ask"},
           cmd[c].ret = "ready"
    PROVE  Sound(c, ReadyStatus(c, s))
<1>1. /\ cmd[c] \in CmdType /\ Placed(cmd[c]) /\ Permitted(cmd[c])
      /\ Backed(cmd[c], worker)
  BY CommandAt
<1>2. Sound(c, [To(c, "wait") EXCEPT !.inst = None])
  <2> DEFINE t == To(c, "wait")
              y == [t EXCEPT !.inst = None]
  <2>a. "wait" \in Places
    BY <1>1, Words
  <2>1. /\ t \in CmdType
        /\ t.kind = cmd[c].kind /\ t.pc = "wait" /\ t.task = cmd[c].task /\ t.ret = cmd[c].ret
        /\ t.lock = FALSE /\ t.setup = cmd[c].setup /\ t.want = cmd[c].want
        /\ t.inst = cmd[c].inst /\ t.ok = cmd[c].ok /\ t.state = cmd[c].state
        /\ t.fp = cmd[c].fp /\ t.plan = cmd[c].plan
    BY <1>1, <2>a, ToFields
  <2> HIDE DEF t
  <2>2. y \in CmdType
    BY <2>1, Words DEF CmdType
  <2>3. /\ y.kind = cmd[c].kind /\ y.pc = "wait" /\ y.task = cmd[c].task /\ y.ret = cmd[c].ret
        /\ y.lock = FALSE /\ y.setup = cmd[c].setup /\ y.want = cmd[c].want /\ y.inst = None
        /\ y.ok = cmd[c].ok /\ y.state = cmd[c].state /\ y.fp = cmd[c].fp
        /\ y.plan = cmd[c].plan
    BY <2>1 DEF CmdType
  <2> HIDE DEF y
  <2>4. Placed(y)
    BY <1>1, <2>3 DEF Placed, Planned, Writing, Connecting, Asked
  <2>5. Permitted(y)
    BY <1>1, <2>3, KeepsPlan DEF Writing
  <2>6. Backed(y, worker)
    BY <1>1, <2>3 DEF Backed, Connecting, Planned
  <2>7. QED
    BY <2>2, <2>3, <2>4, <2>5, <2>6 DEF Sound, Good, Swapping, y, t
<1>3. Sound(c, Failed(c)) /\ Sound(c, Ended(c, TRUE, s.state, s.inst, s.fp))
  BY StatusEnds
<1>4. QED
  BY <1>2, <1>3 DEF ReadyStatus

(* Setup and connect go on where they asked. *)
LEMMA AskedSound ==
    ASSUME CommandInv, NEW c \in Commands, NEW s, Status(s), cmd[c].pc \in {"status", "ask"},
           cmd[c].ret \in {"inspected"} \cup Asked
    PROVE  Sound(c, [To(c, cmd[c].ret) EXCEPT !.state = s.state, !.fp = s.fp, !.inst = s.inst])
<1>1. /\ cmd[c] \in CmdType /\ Placed(cmd[c]) /\ Permitted(cmd[c])
      /\ Backed(cmd[c], worker)
  BY CommandAt
<1>2. cmd[c].ret \in Places
  BY Words DEF Asked
<1>3. s.state \in States /\ s.fp \in Texts /\ s.inst \in Somebody
  BY Words DEF Status
<1>4. QED
  <2> DEFINE t == To(c, cmd[c].ret)
              y == [t EXCEPT !.state = s.state, !.fp = s.fp, !.inst = s.inst]
  <2>a. cmd[c].ret \in Places
    BY <1>1, Words, <1>2, <1>3
  <2>1. /\ t \in CmdType
        /\ t.kind = cmd[c].kind /\ t.pc = cmd[c].ret /\ t.task = cmd[c].task
        /\ t.ret = cmd[c].ret /\ t.lock = FALSE /\ t.setup = cmd[c].setup
        /\ t.want = cmd[c].want /\ t.inst = cmd[c].inst /\ t.ok = cmd[c].ok
        /\ t.state = cmd[c].state /\ t.fp = cmd[c].fp /\ t.plan = cmd[c].plan
    BY <1>1, <2>a, ToFields
  <2> HIDE DEF t
  <2>2. y \in CmdType
    BY <2>1, Words, <1>2, <1>3 DEF CmdType
  <2>3. /\ y.kind = cmd[c].kind /\ y.pc = cmd[c].ret /\ y.task = cmd[c].task
        /\ y.ret = cmd[c].ret /\ y.lock = FALSE /\ y.setup = cmd[c].setup
        /\ y.want = cmd[c].want /\ y.inst = s.inst /\ y.ok = cmd[c].ok /\ y.state = s.state
        /\ y.fp = s.fp /\ y.plan = cmd[c].plan
    BY <2>1 DEF CmdType
  <2> HIDE DEF y
  <2>4. Placed(y)
    BY <1>1, <1>2, <1>3, <2>3 DEF Placed, Planned, Writing, Connecting, Asked
  <2>5. Permitted(y)
    BY <1>1, <1>2, <1>3, <2>3, KeepsPlan DEF Writing, Asked
  <2>6. Backed(y, worker)
    BY <1>1, <1>2, <1>3, <2>3 DEF Backed, Connecting, Asked, Status, Planned
  <2>7. QED
    BY <2>2, <2>3, <2>4, <2>5, <2>6 DEF Sound, Good, Swapping, Asked, y, t

(* Whatever asked for a status goes on soundly with it. *)
LEMMA LearntSound ==
    ASSUME CommandInv, NEW c \in Commands, NEW s, Status(s), cmd[c].pc \in {"status", "ask"}
    PROVE  Sound(c, Learnt(c, s))
<1>1. cmd[c].ret \in {"answer", "on", "held", "ready", "inspected"} \cup Asked
  BY CommandAt DEF Placed
<1>2. Sound(c, Ended(c, s.state # "error", s.state, s.inst, s.fp))
  BY StatusEnds
<1>3. Sound(c, OnStatus(c, s))
  BY OnStatusSound
<1>4. Sound(c, HeldStatus(c, s))
  BY StatusEnds DEF HeldStatus
<1>5. CASE cmd[c].ret = "ready"
  BY <1>5, ReadyStatusSound DEF Learnt
<1>6. CASE cmd[c].ret \in {"inspected"} \cup Asked
  <2>1. cmd[c].ret \notin {"answer", "on", "held", "ready"}
    BY <1>6 DEF Asked
  <2>2. QED
    BY <1>6, <2>1, AskedSound DEF Learnt
<1>7. CASE cmd[c].ret \in {"answer", "on", "held"}
  BY <1>2, <1>3, <1>4, <1>7 DEF Learnt
<1>8. QED
  BY <1>1, <1>5, <1>6, <1>7

-----------------------------------------------------------------------------
(* The steps of the lifecycle, one by one. *)
LEMMA OperationMoves ==
    ASSUME CommandInv, NEW c \in Commands, Operation(c)
    PROVE  Moves(c) /\ StopsTold(c)
<1>1. /\ cmd[c] \in CmdType /\ Placed(cmd[c]) /\ Permitted(cmd[c])
      /\ Backed(cmd[c], worker)
  BY CommandAt
<1>2. cmd[c].pc = "await" /\ worker' = worker
  BY DEF Operation, At
<1> DEFINE e == EntryOf(cmd[c].task)
<1>3. \/ cmd[c].task = "on" /\ e = "status"
      \/ cmd[c].task = "off" /\ e = "stop"
      \/ cmd[c].task = "restart" /\ e = "reload"
      \/ cmd[c].task = "init" /\ e = "init"
  BY <1>1, <1>2 DEF EntryOf, Placed
<1> HIDE DEF e
<1>4. Sound(c, [To(c, e) EXCEPT !.op = TRUE, !.ret = cmd[c].task])
  <2> DEFINE t == To(c, e)
              y == [t EXCEPT !.op = TRUE, !.ret = cmd[c].task]
  <2>a. e \in Places
    BY <1>1, Words, <1>2, <1>3
  <2>1. /\ t \in CmdType
        /\ t.kind = cmd[c].kind /\ t.pc = e /\ t.task = cmd[c].task /\ t.ret = cmd[c].ret
        /\ t.lock = FALSE /\ t.setup = cmd[c].setup /\ t.want = cmd[c].want
        /\ t.inst = cmd[c].inst /\ t.ok = cmd[c].ok /\ t.state = cmd[c].state
        /\ t.fp = cmd[c].fp /\ t.plan = cmd[c].plan
    BY <1>1, <2>a, ToFields
  <2> HIDE DEF t
  <2>2. y \in CmdType
    BY <2>1, Words, <1>2, <1>3 DEF CmdType
  <2>3. /\ y.kind = cmd[c].kind /\ y.pc = e /\ y.task = cmd[c].task /\ y.ret = cmd[c].task
        /\ y.lock = FALSE /\ y.setup = cmd[c].setup /\ y.want = cmd[c].want
        /\ y.inst = cmd[c].inst /\ y.ok = cmd[c].ok /\ y.state = cmd[c].state
        /\ y.fp = cmd[c].fp /\ y.plan = cmd[c].plan
    BY <2>1 DEF CmdType
  <2> HIDE DEF y
  <2>4. Placed(y)
    BY <1>1, <1>2, <1>3, <2>3 DEF Placed, Planned, Writing, Connecting, Asked
  <2>5. Permitted(y)
    BY <1>1, <1>2, <1>3, <2>3, KeepsPlan DEF Writing
  <2>6. Backed(y, worker)
    BY <1>1, <1>2, <1>3, <2>3 DEF Backed, Connecting, Planned
  <2>7. QED
    BY <2>2, <2>3, <2>4, <2>5, <2>6, <1>3 DEF Sound, Good, Swapping, y, t
<1>5. Sound(c, Failed(c))
  BY <1>2, FailedSound
<1>6. QED
  BY <1>2, <1>4, <1>5, AloneMoves DEF Operation, e

(* A command takes worker.lock for a moment. *)
LEMMA LockSound ==
    ASSUME CommandInv, NEW c \in Commands, WorkerLockFree,
           cmd[c].pc \in {"status", "start", "stop", "gone"}
    PROVE  Sound(c, [cmd[c] EXCEPT !.lock = TRUE])
<1>1. /\ cmd[c] \in CmdType /\ Placed(cmd[c]) /\ Permitted(cmd[c])
      /\ Backed(cmd[c], worker)
  BY CommandAt
<1>2. cmd[c].pc = "gone" => worker[cmd[c].inst].pc \in Dead
  BY <1>1 DEF Backed, WorkerLockFree, Holding
<1>3. QED
  <2> DEFINE y == [cmd[c] EXCEPT !.lock = TRUE]
  <2>2. y \in CmdType
    BY <1>1, Words, <1>2 DEF CmdType
  <2>3. /\ y.kind = cmd[c].kind /\ y.pc = cmd[c].pc /\ y.task = cmd[c].task
        /\ y.ret = cmd[c].ret /\ y.lock = TRUE /\ y.setup = cmd[c].setup
        /\ y.want = cmd[c].want /\ y.inst = cmd[c].inst /\ y.ok = cmd[c].ok
        /\ y.state = cmd[c].state /\ y.fp = cmd[c].fp /\ y.plan = cmd[c].plan
    BY <1>1 DEF CmdType
  <2> HIDE DEF y
  <2>4. Placed(y)
    BY <1>1, <1>2, <2>3, ZenonT(60) DEF Placed, Planned, Writing, Connecting, Asked
  <2>5. Permitted(y)
    BY <1>1, <1>2, <2>3, KeepsPlan DEF Writing
  <2>6. Backed(y, worker)
    BY <1>1, <1>2, <2>3 DEF Backed, Connecting, Planned
  <2>7. QED
    BY <2>2, <2>3, <2>4, <2>5, <2>6 DEF Sound, Good, Swapping, y

(* Stopped and error name no worker. *)
LEMMA NotRunningStatus ==
    ASSUME NEW state \in {"stopped", "error"}
    PROVE  Status(NotRunning(state))
BY DEF Status, NotRunning, Somebody, Texts

(* status: try worker.lock, else read the record. *)
LEMMA ProbeMoves ==
    ASSUME CommandInv, NEW c \in Commands, Probe(c)
    PROVE  Moves(c) /\ StopsTold(c)
<1>1. /\ cmd[c] \in CmdType /\ Placed(cmd[c]) /\ Permitted(cmd[c])
      /\ Backed(cmd[c], worker)
  BY CommandAt
<1>2. cmd[c].pc = "status" /\ worker' = worker
  BY DEF Probe, At
<1>3. WorkerLockFree => Sound(c, [cmd[c] EXCEPT !.lock = TRUE])
  BY <1>2, LockSound
<1>4. Sound(c, Learnt(c, NotRunning("error")))
  BY <1>2, NotRunningStatus, LearntSound
<1>5. ASSUME record # None
      PROVE  Sound(c, [To(c, "ask") EXCEPT !.inst = record.inst])
  <2> DEFINE i == record.inst
  <2>0. i \in Workers /\ i \in Somebody
    BY <1>5, CommandAt DEF Somebody
  <2> HIDE DEF i
  <2>b. Sound(c, [To(c, "ask") EXCEPT !.inst = i])
    <3> DEFINE t == To(c, "ask")
                y == [t EXCEPT !.inst = i]
    <3>a. "ask" \in Places
      BY <1>1, Words, <1>2, <2>0
    <3>1. /\ t \in CmdType
          /\ t.kind = cmd[c].kind /\ t.pc = "ask" /\ t.task = cmd[c].task /\ t.ret = cmd[c].ret
          /\ t.lock = FALSE /\ t.setup = cmd[c].setup /\ t.want = cmd[c].want
          /\ t.inst = cmd[c].inst /\ t.ok = cmd[c].ok /\ t.state = cmd[c].state
          /\ t.fp = cmd[c].fp /\ t.plan = cmd[c].plan
      BY <1>1, <3>a, ToFields
    <3> HIDE DEF t
    <3>2. y \in CmdType
      BY <3>1, Words, <1>2, <2>0 DEF CmdType
    <3>3. /\ y.kind = cmd[c].kind /\ y.pc = "ask" /\ y.task = cmd[c].task /\ y.ret = cmd[c].ret
          /\ y.lock = FALSE /\ y.setup = cmd[c].setup /\ y.want = cmd[c].want /\ y.inst = i
          /\ y.ok = cmd[c].ok /\ y.state = cmd[c].state /\ y.fp = cmd[c].fp
          /\ y.plan = cmd[c].plan
      BY <3>1 DEF CmdType
    <3> HIDE DEF y
    <3>4. Placed(y)
      BY <1>1, <1>2, <2>0, <3>3 DEF Placed, Planned, Writing, Connecting, Asked
    <3>5. Permitted(y)
      BY <1>1, <1>2, <2>0, <3>3, KeepsPlan DEF Writing
    <3>6. Backed(y, worker)
      BY <1>1, <1>2, <2>0, <3>3 DEF Backed, Connecting, Planned
    <3>7. QED
      BY <3>2, <3>3, <3>4, <3>5, <3>6 DEF Sound, Good, Swapping, y, t
  <2>c. QED
    BY <2>b DEF i
<1>6. QED
  BY <1>2, <1>3, <1>4, <1>5, AloneMoves DEF Probe

(* status: the lock was free. *)
LEMMA ProbedFreeMoves ==
    ASSUME CommandInv, NEW c \in Commands, ProbedFree(c)
    PROVE  Moves(c) /\ StopsTold(c)
<1>1. Sound(c, Learnt(c, NotRunning("stopped")))
  BY NotRunningStatus, LearntSound DEF ProbedFree
<1>2. QED
  BY <1>1, AloneMoves DEF ProbedFree

(* The answer of the very worker that was asked. *)
LEMMA HealthStatus ==
    ASSUME CommandInv, NEW w \in Workers, Reaches(w)
    PROVE  Status(Health(w))
<1>1. worker[w] \in WorkerType
  BY DEF CommandInv, HostType
<1>2. worker[w].fp \in Texts
  BY <1>1 DEF WorkerType
<1>3. worker[w].pc \in Serving
  BY DEF Reaches
<1> DEFINE fp == worker[w].fp
           st == IF worker[w].pc = "stopping" THEN "draining" ELSE "running"
           pn == config # worker[w].fp
<1>4. st \in {"draining", "running"} /\ pn \in BOOLEAN
  OBVIOUS
<1>5. Health(w) = [state |-> st, inst |-> w, fp |-> fp, pending |-> pn]
  BY DEF Health
<1> HIDE DEF st, pn
<1>6. QED
  BY <1>2, <1>3, <1>4, <1>5 DEF Status, Somebody

(* status: the handshake is answered by the instance asked, or not at all. *)
LEMMA AskMoves ==
    ASSUME CommandInv, NEW c \in Commands, Ask(c) \/ Unanswered(c)
    PROVE  Moves(c) /\ StopsTold(c)
<1>1. cmd[c].pc = "ask" /\ worker' = worker
  BY DEF Ask, Unanswered, At
<1>2. cmd[c].inst \in Workers
  BY <1>1, CommandAt DEF Backed
<1>3. Sound(c, Learnt(c, NotRunning("error")))
  BY <1>1, NotRunningStatus, LearntSound
<1>4. Reaches(cmd[c].inst) => Sound(c, Learnt(c, Health(cmd[c].inst)))
  BY <1>1, <1>2, HealthStatus, LearntSound
<1>5. QED
  BY <1>1, <1>3, <1>4, AloneMoves DEF Ask, Unanswered

(* start: try worker.lock. *)
LEMMA StartMoves ==
    ASSUME CommandInv, NEW c \in Commands, Start(c)
    PROVE  Moves(c) /\ StopsTold(c)
<1>1. /\ cmd[c] \in CmdType /\ Placed(cmd[c]) /\ Permitted(cmd[c])
      /\ Backed(cmd[c], worker)
  BY CommandAt
<1>2. cmd[c].pc = "start" /\ worker' = worker
  BY DEF Start, At
<1>3. WorkerLockFree => Sound(c, [cmd[c] EXCEPT !.lock = TRUE])
  BY <1>2, LockSound
<1>4. Sound(c, [To(c, "status") EXCEPT !.ret = "held"])
  <2> DEFINE t == To(c, "status")
              y == [t EXCEPT !.ret = "held"]
  <2>a. "status" \in Places
    BY <1>1, Words, <1>2
  <2>1. /\ t \in CmdType
        /\ t.kind = cmd[c].kind /\ t.pc = "status" /\ t.task = cmd[c].task
        /\ t.ret = cmd[c].ret /\ t.lock = FALSE /\ t.setup = cmd[c].setup
        /\ t.want = cmd[c].want /\ t.inst = cmd[c].inst /\ t.ok = cmd[c].ok
        /\ t.state = cmd[c].state /\ t.fp = cmd[c].fp /\ t.plan = cmd[c].plan
    BY <1>1, <2>a, ToFields
  <2> HIDE DEF t
  <2>2. y \in CmdType
    BY <2>1, Words, <1>2 DEF CmdType
  <2>3. /\ y.kind = cmd[c].kind /\ y.pc = "status" /\ y.task = cmd[c].task /\ y.ret = "held"
        /\ y.lock = FALSE /\ y.setup = cmd[c].setup /\ y.want = cmd[c].want
        /\ y.inst = cmd[c].inst /\ y.ok = cmd[c].ok /\ y.state = cmd[c].state
        /\ y.fp = cmd[c].fp /\ y.plan = cmd[c].plan
    BY <2>1 DEF CmdType
  <2> HIDE DEF y
  <2>4. Placed(y)
    BY <1>1, <1>2, <2>3 DEF Placed, Planned, Writing, Connecting, Asked
  <2>5. Permitted(y)
    BY <1>1, <1>2, <2>3, KeepsPlan DEF Writing
  <2>6. Backed(y, worker)
    BY <1>1, <1>2, <2>3 DEF Backed, Connecting, Planned
  <2>7. QED
    BY <2>2, <2>3, <2>4, <2>5, <2>6 DEF Sound, Good, Swapping, y, t
<1>5. QED
  BY <1>2, <1>3, <1>4, AloneMoves DEF Start

(* start: the lock was free. *)
LEMMA StartFreeMoves ==
    ASSUME CommandInv, NEW c \in Commands, StartFree(c)
    PROVE  Moves(c) /\ StopsTold(c)
<1>1. /\ cmd[c] \in CmdType /\ Placed(cmd[c]) /\ Permitted(cmd[c])
      /\ Backed(cmd[c], worker)
  BY CommandAt
<1>2. cmd[c].pc = "start" /\ worker' = worker
  BY DEF StartFree
<1>3. Sound(c, [To(c, "provision") EXCEPT !.ret = "spawn"])
  <2> DEFINE t == To(c, "provision")
              y == [t EXCEPT !.ret = "spawn"]
  <2>a. "provision" \in Places
    BY <1>1, Words, <1>2
  <2>1. /\ t \in CmdType
        /\ t.kind = cmd[c].kind /\ t.pc = "provision" /\ t.task = cmd[c].task
        /\ t.ret = cmd[c].ret /\ t.lock = FALSE /\ t.setup = cmd[c].setup
        /\ t.want = cmd[c].want /\ t.inst = cmd[c].inst /\ t.ok = cmd[c].ok
        /\ t.state = cmd[c].state /\ t.fp = cmd[c].fp /\ t.plan = cmd[c].plan
    BY <1>1, <2>a, ToFields
  <2> HIDE DEF t
  <2>2. y \in CmdType
    BY <2>1, Words, <1>2 DEF CmdType
  <2>3. /\ y.kind = cmd[c].kind /\ y.pc = "provision" /\ y.task = cmd[c].task
        /\ y.ret = "spawn" /\ y.lock = FALSE /\ y.setup = cmd[c].setup /\ y.want = cmd[c].want
        /\ y.inst = cmd[c].inst /\ y.ok = cmd[c].ok /\ y.state = cmd[c].state
        /\ y.fp = cmd[c].fp /\ y.plan = cmd[c].plan
    BY <2>1 DEF CmdType
  <2> HIDE DEF y
  <2>4. Placed(y)
    BY <1>1, <1>2, <2>3 DEF Placed, Planned, Writing, Connecting, Asked
  <2>5. Permitted(y)
    BY <1>1, <1>2, <2>3, KeepsPlan DEF Writing
  <2>6. Backed(y, worker)
    BY <1>1, <1>2, <2>3 DEF Backed, Connecting, Planned
  <2>7. QED
    BY <2>2, <2>3, <2>4, <2>5, <2>6 DEF Sound, Good, Swapping, y, t
<1>4. QED
  BY <1>2, <1>3, AloneMoves DEF StartFree

(* A worker is spawned. *)
LEMMA SpawnMoves ==
    ASSUME CommandInv, NEW c \in Commands, cmd[c].pc \in {"provision", "fill"},
           cmd[c].ret = "spawn", NEW w \in Workers, Spawn(c, w)
    PROVE  Moves(c) /\ StopsTold(c)
<1>1. /\ cmd[c] \in CmdType /\ Placed(cmd[c]) /\ Permitted(cmd[c])
      /\ Backed(cmd[c], worker)
  BY CommandAt
<1>2. Sound(c, [To(c, "wait") EXCEPT !.child = w, !.ret = "ready"])
  <2>0. w \in Somebody
    BY DEF Somebody
  <2> DEFINE t == To(c, "wait")
              y == [t EXCEPT !.child = w, !.ret = "ready"]
  <2>a. "wait" \in Places
    BY <1>1, Words, <2>0
  <2>1. /\ t \in CmdType
        /\ t.kind = cmd[c].kind /\ t.pc = "wait" /\ t.task = cmd[c].task /\ t.ret = cmd[c].ret
        /\ t.lock = FALSE /\ t.setup = cmd[c].setup /\ t.want = cmd[c].want
        /\ t.inst = cmd[c].inst /\ t.ok = cmd[c].ok /\ t.state = cmd[c].state
        /\ t.fp = cmd[c].fp /\ t.plan = cmd[c].plan
    BY <1>1, <2>a, ToFields
  <2> HIDE DEF t
  <2>2. y \in CmdType
    BY <2>1, Words, <2>0 DEF CmdType
  <2>3. /\ y.kind = cmd[c].kind /\ y.pc = "wait" /\ y.task = cmd[c].task /\ y.ret = "ready"
        /\ y.lock = FALSE /\ y.setup = cmd[c].setup /\ y.want = cmd[c].want
        /\ y.inst = cmd[c].inst /\ y.ok = cmd[c].ok /\ y.state = cmd[c].state
        /\ y.fp = cmd[c].fp /\ y.plan = cmd[c].plan
    BY <2>1 DEF CmdType
  <2> HIDE DEF y
  <2>4. Placed(y)
    BY <1>1, <2>0, <2>3 DEF Placed, Planned, Writing, Connecting, Asked
  <2>5. Permitted(y)
    BY <1>1, <2>0, <2>3, KeepsPlan DEF Writing
  <2>6. Backed(y, worker)
    BY <1>1, <2>0, <2>3 DEF Backed, Connecting, Planned
  <2>7. QED
    BY <2>2, <2>3, <2>4, <2>5, <2>6 DEF Sound, Good, Swapping, y, t
<1> DEFINE load == cmd[c].load
           x == [pc |-> "loading", want |-> load, fp |-> None]
<1>3. load \in Texts
  BY <1>1 DEF CmdType
<1> HIDE DEF load
<1>4. x \in WorkerType /\ x.pc = "loading"
  BY <1>3 DEF WorkerType, Loading, Texts
<1>5. worker' = [worker EXCEPT ![w] = x] /\ worker[w].pc = "idle"
      /\ worker \in [Workers -> WorkerType]
  BY CommandAt DEF Spawn, load
<1> HIDE DEF x
<1>6. /\ worker' \in [Workers -> WorkerType] /\ worker'[w] = x
      /\ \A v \in Workers \ {w} : worker'[v] = worker[v]
  BY <1>4, <1>5
<1>7. Forward
  BY <1>5, <1>6 DEF Forward, Serving, Dead
<1>8. StopsTold(c)
  BY <1>4, <1>6 DEF StopsTold
<1>9. QED
  BY <1>2, <1>6, <1>7, <1>8, SoundMoves DEF Spawn

(* start and restart: the credentials are checked, then a worker is spawned or stopped. *)
LEMMA CredentialsMoves ==
    ASSUME CommandInv, NEW c \in Commands, cmd[c].pc \in {"provision", "fill"}, Credentials(c)
    PROVE  Moves(c) /\ StopsTold(c)
<1>1. /\ cmd[c] \in CmdType /\ Placed(cmd[c]) /\ Permitted(cmd[c])
      /\ Backed(cmd[c], worker)
  BY CommandAt
<1>2. CASE Goto(c, Failed(c)) /\ worker' = worker
  BY <1>2, FailedSound, AloneMoves
<1>3. CASE Goto(c, Ended(c, TRUE, "", None, None)) /\ worker' = worker
  <2>1. Sound(c, Ended(c, TRUE, "", None, None))
    BY EndedSound, Words
  <2>2. QED
    BY <1>3, <2>1, AloneMoves
<1>4. CASE cmd[c].ret = "stop" /\ Goto(c, To(c, "stop")) /\ worker' = worker
  <2>0. cmd[c].kind # "off"
    BY <1>1 DEF Placed
  <2>1. Sound(c, To(c, "stop"))
    <3> DEFINE y == To(c, "stop")
    <3>a. "stop" \in Places
      BY <1>1, Words, <1>4, <2>0
    <3>2. y \in CmdType
      BY <1>1, <3>a, ToFields
    <3>3. /\ y.kind = cmd[c].kind /\ y.pc = "stop" /\ y.task = cmd[c].task /\ y.ret = cmd[c].ret
          /\ y.lock = FALSE /\ y.setup = cmd[c].setup /\ y.want = cmd[c].want
          /\ y.inst = cmd[c].inst /\ y.ok = cmd[c].ok /\ y.state = cmd[c].state
          /\ y.fp = cmd[c].fp /\ y.plan = cmd[c].plan
      BY <1>1, <3>a, ToFields
    <3> HIDE DEF y
    <3>4. Placed(y)
      BY <1>1, <1>4, <2>0, <3>3 DEF Placed, Planned, Writing, Connecting, Asked
    <3>5. Permitted(y)
      BY <1>1, <1>4, <2>0, <3>3, KeepsPlan DEF Writing
    <3>6. Backed(y, worker)
      BY <1>1, <1>4, <2>0, <3>3 DEF Backed, Connecting, Planned
    <3>7. QED
      BY <3>2, <3>3, <3>4, <3>5, <3>6 DEF Sound, Good, Swapping, y
  <2>2. QED
    BY <1>4, <2>1, AloneMoves
<1>5. CASE cmd[c].ret = "spawn" /\ \E w \in Workers : Spawn(c, w)
  BY <1>5, SpawnMoves
<1>6. QED
  BY <1>2, <1>3, <1>4, <1>5 DEF Credentials

(* provision_tokens. *)
LEMMA ProvisionMoves ==
    ASSUME CommandInv, NEW c \in Commands, Provision(c) \/ Fill(c)
    PROVE  Moves(c) /\ StopsTold(c)
<1>1. /\ cmd[c] \in CmdType /\ Placed(cmd[c]) /\ Permitted(cmd[c])
      /\ Backed(cmd[c], worker)
  BY CommandAt
<1>2. cmd[c].pc \in {"provision", "fill"}
  BY DEF Provision, Fill
<1>3. CASE cmd[c].pc = "provision" /\ Goto(c, [cmd[c] EXCEPT !.pc = "fill"]) /\ worker' = worker
  <2>1. Sound(c, [cmd[c] EXCEPT !.pc = "fill"])
    <3> DEFINE y == [cmd[c] EXCEPT !.pc = "fill"]
    <3>2. y \in CmdType
      BY <1>1, Words, <1>3 DEF CmdType
    <3>3. /\ y.kind = cmd[c].kind /\ y.pc = "fill" /\ y.task = cmd[c].task /\ y.ret = cmd[c].ret
          /\ y.lock = cmd[c].lock /\ y.setup = cmd[c].setup /\ y.want = cmd[c].want
          /\ y.inst = cmd[c].inst /\ y.ok = cmd[c].ok /\ y.state = cmd[c].state
          /\ y.fp = cmd[c].fp /\ y.plan = cmd[c].plan
      BY <1>1 DEF CmdType
    <3> HIDE DEF y
    <3>4. Placed(y)
      BY <1>1, <1>3, <3>3 DEF Placed, Planned, Writing, Connecting, Asked
    <3>5. Permitted(y)
      BY <1>1, <1>3, <3>3, KeepsPlan DEF Writing
    <3>6. Backed(y, worker)
      BY <1>1, <1>3, <3>3 DEF Backed, Connecting, Planned
    <3>7. QED
      BY <3>2, <3>3, <3>4, <3>5, <3>6 DEF Sound, Good, Swapping, y
  <2>2. QED
    BY <1>3, <2>1, AloneMoves
<1>4. CASE Goto(c, Failed(c)) /\ worker' = worker
  BY <1>2, <1>4, FailedSound, AloneMoves
<1>5. CASE Credentials(c)
  BY <1>2, <1>5, CredentialsMoves
<1>6. QED
  BY <1>3, <1>4, <1>5 DEF Provision, Fill

(* start: one turn of the readiness loop. *)
LEMMA WaitMoves ==
    ASSUME CommandInv, NEW c \in Commands, Wait(c)
    PROVE  Moves(c) /\ StopsTold(c)
<1>1. /\ cmd[c] \in CmdType /\ Placed(cmd[c]) /\ Permitted(cmd[c])
      /\ Backed(cmd[c], worker)
  BY CommandAt
<1>2. cmd[c].pc = "wait" /\ worker' = worker
  BY DEF Wait, At
<1>3. Sound(c, To(c, "status"))
  <2> DEFINE y == To(c, "status")
  <2>a. "status" \in Places
    BY <1>1, Words, <1>2
  <2>2. y \in CmdType
    BY <1>1, <2>a, ToFields
  <2>3. /\ y.kind = cmd[c].kind /\ y.pc = "status" /\ y.task = cmd[c].task
        /\ y.ret = cmd[c].ret /\ y.lock = FALSE /\ y.setup = cmd[c].setup
        /\ y.want = cmd[c].want /\ y.inst = cmd[c].inst /\ y.ok = cmd[c].ok
        /\ y.state = cmd[c].state /\ y.fp = cmd[c].fp /\ y.plan = cmd[c].plan
    BY <1>1, <2>a, ToFields
  <2> HIDE DEF y
  <2>4. Placed(y)
    BY <1>1, <1>2, <2>3 DEF Placed, Planned, Writing, Connecting, Asked
  <2>5. Permitted(y)
    BY <1>1, <1>2, <2>3, KeepsPlan DEF Writing
  <2>6. Backed(y, worker)
    BY <1>1, <1>2, <2>3 DEF Backed, Connecting, Planned
  <2>7. QED
    BY <2>2, <2>3, <2>4, <2>5, <2>6 DEF Sound, Good, Swapping, y
<1>4. Sound(c, Failed(c))
  BY <1>2, FailedSound
<1>5. ASSUME NEW s \in {"port_in_use", "worker_start_failed"}
      PROVE  Sound(c, Ended(c, FALSE, s, None, None))
  <2>1. s \in States /\ s # "running" /\ None \in Somebody /\ None \in Texts
    BY Words
  <2>2. QED
    BY <1>2, <2>1, EndedSound
<1>6. QED
  BY <1>2, <1>3, <1>4, <1>5, AloneMoves DEF Wait

(* restart: the config is loaded before anything is stopped. *)
LEMMA ReloadMoves ==
    ASSUME CommandInv, NEW c \in Commands, Reload(c)
    PROVE  Moves(c) /\ StopsTold(c)
<1>1. /\ cmd[c] \in CmdType /\ Placed(cmd[c]) /\ Permitted(cmd[c])
      /\ Backed(cmd[c], worker)
  BY CommandAt
<1>2. cmd[c].pc = "reload" /\ worker' = worker
  BY DEF Reload, At
<1>3. Sound(c, Failed(c))
  BY <1>2, FailedSound
<1>4. ASSUME config \in Contents
      PROVE  Sound(c, [To(c, "provision") EXCEPT !.load = config, !.ret = "stop"])
  <2>0. config \in Texts
    BY <1>4 DEF Texts
  <2> DEFINE t == To(c, "provision")
              y == [t EXCEPT !.load = config, !.ret = "stop"]
  <2>a. "provision" \in Places
    BY <1>1, Words, <1>2, <2>0
  <2>1. /\ t \in CmdType
        /\ t.kind = cmd[c].kind /\ t.pc = "provision" /\ t.task = cmd[c].task
        /\ t.ret = cmd[c].ret /\ t.lock = FALSE /\ t.setup = cmd[c].setup
        /\ t.want = cmd[c].want /\ t.inst = cmd[c].inst /\ t.ok = cmd[c].ok
        /\ t.state = cmd[c].state /\ t.fp = cmd[c].fp /\ t.plan = cmd[c].plan
    BY <1>1, <2>a, ToFields
  <2> HIDE DEF t
  <2>2. y \in CmdType
    BY <2>1, Words, <1>2, <2>0 DEF CmdType
  <2>3. /\ y.kind = cmd[c].kind /\ y.pc = "provision" /\ y.task = cmd[c].task /\ y.ret = "stop"
        /\ y.lock = FALSE /\ y.setup = cmd[c].setup /\ y.want = cmd[c].want
        /\ y.inst = cmd[c].inst /\ y.ok = cmd[c].ok /\ y.state = cmd[c].state
        /\ y.fp = cmd[c].fp /\ y.plan = cmd[c].plan
    BY <2>1 DEF CmdType
  <2> HIDE DEF y
  <2>4. Placed(y)
    BY <1>1, <1>2, <2>0, <2>3 DEF Placed, Planned, Writing, Connecting, Asked
  <2>5. Permitted(y)
    BY <1>1, <1>2, <2>0, <2>3, KeepsPlan DEF Writing
  <2>6. Backed(y, worker)
    BY <1>1, <1>2, <2>0, <2>3 DEF Backed, Connecting, Planned
  <2>7. QED
    BY <2>2, <2>3, <2>4, <2>5, <2>6 DEF Sound, Good, Swapping, y, t
<1>5. QED
  BY <1>2, <1>3, <1>4, AloneMoves DEF Reload

(* stop: try worker.lock, else read the record. *)
LEMMA StopMoves ==
    ASSUME CommandInv, NEW c \in Commands, Stop(c)
    PROVE  Moves(c) /\ StopsTold(c)
<1>1. /\ cmd[c] \in CmdType /\ Placed(cmd[c]) /\ Permitted(cmd[c])
      /\ Backed(cmd[c], worker)
  BY CommandAt
<1>2. cmd[c].pc = "stop" /\ worker' = worker
  BY DEF Stop, At
<1>3. WorkerLockFree => Sound(c, [cmd[c] EXCEPT !.lock = TRUE])
  BY <1>2, LockSound
<1>4. Sound(c, Failed(c))
  BY <1>2, FailedSound
<1>5. ASSUME record # None
      PROVE  Sound(c, [To(c, "verify") EXCEPT !.inst = record.inst])
  <2> DEFINE i == record.inst
  <2>0. i \in Workers /\ i \in Somebody
    BY <1>5, CommandAt DEF Somebody
  <2> HIDE DEF i
  <2>b. Sound(c, [To(c, "verify") EXCEPT !.inst = i])
    <3> DEFINE t == To(c, "verify")
                y == [t EXCEPT !.inst = i]
    <3>a. "verify" \in Places
      BY <1>1, Words, <1>2, <2>0
    <3>1. /\ t \in CmdType
          /\ t.kind = cmd[c].kind /\ t.pc = "verify" /\ t.task = cmd[c].task
          /\ t.ret = cmd[c].ret /\ t.lock = FALSE /\ t.setup = cmd[c].setup
          /\ t.want = cmd[c].want /\ t.inst = cmd[c].inst /\ t.ok = cmd[c].ok
          /\ t.state = cmd[c].state /\ t.fp = cmd[c].fp /\ t.plan = cmd[c].plan
      BY <1>1, <3>a, ToFields
    <3> HIDE DEF t
    <3>2. y \in CmdType
      BY <3>1, Words, <1>2, <2>0 DEF CmdType
    <3>3. /\ y.kind = cmd[c].kind /\ y.pc = "verify" /\ y.task = cmd[c].task
          /\ y.ret = cmd[c].ret /\ y.lock = FALSE /\ y.setup = cmd[c].setup
          /\ y.want = cmd[c].want /\ y.inst = i /\ y.ok = cmd[c].ok /\ y.state = cmd[c].state
          /\ y.fp = cmd[c].fp /\ y.plan = cmd[c].plan
      BY <3>1 DEF CmdType
    <3> HIDE DEF y
    <3>4. Placed(y)
      BY <1>1, <1>2, <2>0, <3>3 DEF Placed, Planned, Writing, Connecting, Asked
    <3>5. Permitted(y)
      BY <1>1, <1>2, <2>0, <3>3, KeepsPlan DEF Writing
    <3>6. Backed(y, worker)
      BY <1>1, <1>2, <2>0, <3>3 DEF Backed, Connecting, Planned
    <3>7. QED
      BY <3>2, <3>3, <3>4, <3>5, <3>6 DEF Sound, Good, Swapping, y, t
  <2>c. QED
    BY <2>b DEF i
<1>6. QED
  BY <1>2, <1>3, <1>4, <1>5, AloneMoves DEF Stop

(* stop: the lock is free, so the worker that was told to is gone. *)
LEMMA StoppedMoves ==
    ASSUME CommandInv, NEW c \in Commands, Stopped(c)
    PROVE  Moves(c) /\ StopsTold(c)
<1>1. /\ cmd[c] \in CmdType /\ Placed(cmd[c]) /\ Permitted(cmd[c])
      /\ Backed(cmd[c], worker)
  BY CommandAt
<1>2. cmd[c].pc \in {"stop", "gone"} /\ cmd[c].lock /\ worker' = worker
  BY DEF Stopped
<1>3. cmd[c].task = "restart" => Sound(c, To(c, "start"))
  <2> SUFFICES ASSUME cmd[c].task = "restart" PROVE Sound(c, To(c, "start"))
    OBVIOUS
  <2> DEFINE y == To(c, "start")
  <2>a. "start" \in Places
    BY <1>1, Words, <1>2
  <2>2. y \in CmdType
    BY <1>1, <2>a, ToFields
  <2>3. /\ y.kind = cmd[c].kind /\ y.pc = "start" /\ y.task = cmd[c].task /\ y.ret = cmd[c].ret
        /\ y.lock = FALSE /\ y.setup = cmd[c].setup /\ y.want = cmd[c].want
        /\ y.inst = cmd[c].inst /\ y.ok = cmd[c].ok /\ y.state = cmd[c].state
        /\ y.fp = cmd[c].fp /\ y.plan = cmd[c].plan
    BY <1>1, <2>a, ToFields
  <2> HIDE DEF y
  <2>4. Placed(y)
    BY <1>1, <1>2, <2>3 DEF Placed, Planned, Writing, Connecting, Asked
  <2>5. Permitted(y)
    BY <1>1, <1>2, <2>3, KeepsPlan DEF Writing
  <2>6. Backed(y, worker)
    BY <1>1, <1>2, <2>3 DEF Backed, Connecting, Planned
  <2>7. QED
    BY <2>2, <2>3, <2>4, <2>5, <2>6 DEF Sound, Good, Swapping, y
<1>4. Sound(c, Ended(c, TRUE, "stopped", cmd[c].inst, None))
  <2>1. cmd[c].inst \in Somebody /\ "stopped" \in States /\ None \in Texts
    BY <1>1, Words DEF CmdType
  <2>2. cmd[c].kind = "off" /\ cmd[c].inst # None => worker[cmd[c].inst].pc \in Dead
    BY <1>1, <1>2 DEF Backed
  <2>3. QED
    BY <1>2, <2>1, <2>2, EndedSound
<1>5. QED
  BY <1>2, <1>3, <1>4, AloneMoves DEF Stopped

(* stop: the identity is verified first. *)
LEMMA VerifyMoves ==
    ASSUME CommandInv, NEW c \in Commands, Verify(c)
    PROVE  Moves(c) /\ StopsTold(c)
<1>1. /\ cmd[c] \in CmdType /\ Placed(cmd[c]) /\ Permitted(cmd[c])
      /\ Backed(cmd[c], worker)
  BY CommandAt
<1>2. cmd[c].pc = "verify" /\ worker' = worker
  BY DEF Verify, At
<1>3. Sound(c, Failed(c))
  BY <1>2, FailedSound
<1>4. Sound(c, To(c, "tell"))
  <2> DEFINE y == To(c, "tell")
  <2>a. "tell" \in Places
    BY <1>1, Words, <1>2
  <2>2. y \in CmdType
    BY <1>1, <2>a, ToFields
  <2>3. /\ y.kind = cmd[c].kind /\ y.pc = "tell" /\ y.task = cmd[c].task /\ y.ret = cmd[c].ret
        /\ y.lock = FALSE /\ y.setup = cmd[c].setup /\ y.want = cmd[c].want
        /\ y.inst = cmd[c].inst /\ y.ok = cmd[c].ok /\ y.state = cmd[c].state
        /\ y.fp = cmd[c].fp /\ y.plan = cmd[c].plan
    BY <1>1, <2>a, ToFields
  <2> HIDE DEF y
  <2>4. Placed(y)
    BY <1>1, <1>2, <2>3 DEF Placed, Planned, Writing, Connecting, Asked
  <2>5. Permitted(y)
    BY <1>1, <1>2, <2>3, KeepsPlan DEF Writing
  <2>6. Backed(y, worker)
    BY <1>1, <1>2, <2>3 DEF Backed, Connecting, Planned
  <2>7. QED
    BY <2>2, <2>3, <2>4, <2>5, <2>6 DEF Sound, Good, Swapping, y
<1>5. QED
  BY <1>2, <1>3, <1>4, AloneMoves DEF Verify

(* stop: the worker verified, and no other, is told to stop. *)
LEMMA TellMoves ==
    ASSUME CommandInv, NEW c \in Commands, Tell(c)
    PROVE  Moves(c) /\ StopsTold(c)
<1>1. /\ cmd[c] \in CmdType /\ Placed(cmd[c]) /\ Permitted(cmd[c])
      /\ Backed(cmd[c], worker)
  BY CommandAt
<1>2. cmd[c].pc = "tell" /\ cmd[c].inst \in Workers /\ worker \in [Workers -> WorkerType]
  BY <1>1, CommandAt DEF Tell, At, Backed
<1>3. Sound(c, Failed(c))
  BY <1>2, FailedSound
<1>4. CASE Goto(c, Failed(c)) /\ worker' = worker
  BY <1>3, <1>4, AloneMoves
<1>5. CASE /\ Obeys(cmd[c].inst, cmd[c].inst)
           /\ worker' = [worker EXCEPT ![cmd[c].inst].pc = "stopping"]
           /\ Goto(c, To(c, "gone")) \/ Goto(c, Failed(c))
  <2> DEFINE w == cmd[c].inst
             x == [worker[w] EXCEPT !.pc = "stopping"]
  <2>a. w \in Workers /\ worker[w] \in WorkerType /\ worker[w].pc \in Serving
    BY <1>2, <1>5 DEF Obeys
  <2>b. worker' = [worker EXCEPT ![w] = x]
    BY <1>2, <1>5
  <2>c. x \in WorkerType /\ x.pc = "stopping" /\ x.fp = worker[w].fp
    BY <2>a DEF WorkerType, Holding
  <2> HIDE DEF x, w
  <2>d. /\ worker' \in [Workers -> WorkerType] /\ worker'[w] = x
        /\ \A v \in Workers \ {w} : worker'[v] = worker[v]
    BY <1>2, <2>a, <2>b, <2>c
  <2>e. Forward
    BY <2>a, <2>c, <2>d DEF Forward, Serving, Dead
  <2>f. StopsTold(c)
    BY <1>2, <2>c, <2>d DEF StopsTold, w
  <2>g. ASSUME Goto(c, To(c, "gone")) PROVE Moves(c)
    <3>0. worker'[cmd[c].inst].pc = "stopping" /\ cmd[c].inst \in Workers
      BY <1>2, <2>c, <2>d DEF w
    <3> DEFINE y == To(c, "gone")
    <3>a. "gone" \in Places
      BY <1>1, Words, <1>2, <3>0
    <3>2. y \in CmdType
      BY <1>1, <3>a, ToFields
    <3>3. /\ y.kind = cmd[c].kind /\ y.pc = "gone" /\ y.task = cmd[c].task /\ y.ret = cmd[c].ret
          /\ y.lock = FALSE /\ y.setup = cmd[c].setup /\ y.want = cmd[c].want
          /\ y.inst = cmd[c].inst /\ y.ok = cmd[c].ok /\ y.state = cmd[c].state
          /\ y.fp = cmd[c].fp /\ y.plan = cmd[c].plan
      BY <1>1, <3>a, ToFields
    <3> HIDE DEF y
    <3>4. Placed(y)
      BY <1>1, <1>2, <3>0, <3>3 DEF Placed, Planned, Writing, Connecting, Asked
    <3>5. Permitted(y)
      BY <1>1, <1>2, <3>0, <3>3, KeepsPlan DEF Writing
    <3>6. Backed(y, worker')
      BY <1>1, <1>2, <3>0, <3>3 DEF Backed, Connecting, Planned
    <3>7. cmd' = [cmd EXCEPT ![c] = y]
      BY <2>g DEF Goto, y
    <3>8. QED
      BY <2>d, <2>e, <3>2, <3>3, <3>4, <3>5, <3>6, <3>7 DEF Moves, Good, Swapping
  <2>h. QED
    BY <1>3, <1>5, <2>d, <2>e, <2>f, <2>g, SoundMoves
<1>6. QED
  BY <1>4, <1>5 DEF Tell, Obeys

(* stop: wait for worker.lock. *)
LEMMA GoneMoves ==
    ASSUME CommandInv, NEW c \in Commands, Gone(c)
    PROVE  Moves(c) /\ StopsTold(c)
<1>1. cmd[c].pc = "gone" /\ worker' = worker
  BY DEF Gone, At
<1>2. WorkerLockFree => Sound(c, [cmd[c] EXCEPT !.lock = TRUE])
  BY <1>1, LockSound
<1>3. Sound(c, Failed(c))
  BY <1>1, FailedSound
<1>4. QED
  BY <1>1, <1>2, <1>3, AloneMoves DEF Gone

(* initialize_setup_state. *)
LEMMA InitialiseMoves ==
    ASSUME CommandInv, NEW c \in Commands, Initialise(c)
    PROVE  Moves(c) /\ StopsTold(c)
<1>1. /\ cmd[c] \in CmdType /\ Placed(cmd[c]) /\ Permitted(cmd[c])
      /\ Backed(cmd[c], worker)
  BY CommandAt
<1>2. cmd[c].pc = "init" /\ worker' = worker
  BY DEF Initialise, At
<1>3. Sound(c, Failed(c))
  BY <1>2, FailedSound
<1>4. Sound(c, Ended(c, TRUE, "", None, None))
  BY <1>2, EndedSound, Words
<1>5. Sound(c, [cmd[c] EXCEPT !.pc = "provision", !.lock = TRUE, !.ret = "initialised"])
  <2> DEFINE y == [cmd[c] EXCEPT !.pc = "provision", !.lock = TRUE, !.ret = "initialised"]
  <2>2. y \in CmdType
    BY <1>1, Words, <1>2 DEF CmdType
  <2>3. /\ y.kind = cmd[c].kind /\ y.pc = "provision" /\ y.task = cmd[c].task
        /\ y.ret = "initialised" /\ y.lock = TRUE /\ y.setup = cmd[c].setup
        /\ y.want = cmd[c].want /\ y.inst = cmd[c].inst /\ y.ok = cmd[c].ok
        /\ y.state = cmd[c].state /\ y.fp = cmd[c].fp /\ y.plan = cmd[c].plan
    BY <1>1 DEF CmdType
  <2> HIDE DEF y
  <2>4. Placed(y)
    BY <1>1, <1>2, <2>3 DEF Placed, Planned, Writing, Connecting, Asked
  <2>5. Permitted(y)
    BY <1>1, <1>2, <2>3, KeepsPlan DEF Writing
  <2>6. Backed(y, worker)
    BY <1>1, <1>2, <2>3 DEF Backed, Connecting, Planned
  <2>7. QED
    BY <2>2, <2>3, <2>4, <2>5, <2>6 DEF Sound, Good, Swapping, y
<1>6. QED
  BY <1>2, <1>3, <1>4, <1>5, AloneMoves DEF Initialise

(* Every step of a lifecycle function moves its command soundly. *)
LEMMA LifecycleMoves ==
    ASSUME CommandInv, NEW c \in Commands, LifecycleStep(c)
    PROVE  Moves(c) /\ StopsTold(c)
BY OperationMoves, ProbeMoves, ProbedFreeMoves, AskMoves, StartMoves, StartFreeMoves,
   ProvisionMoves, WaitMoves, ReloadMoves, StopMoves, StoppedMoves, VerifyMoves, TellMoves,
   GoneMoves, InitialiseMoves
   DEF LifecycleStep

(* The command line starts a lifecycle command. *)
LEMMA BeginMoves ==
    ASSUME CommandInv, NEW c \in Commands, NEW kind \in {"status", "on", "off", "restart"},
           Begin(c, kind)
    PROVE  Moves(c) /\ StopsTold(c)
<1> DEFINE place == IF kind = "status" THEN "status" ELSE "await"
<1>1. \/ kind = "status" /\ place = "status"
      \/ kind \in {"on", "off", "restart"} /\ place = "await"
  OBVIOUS
<1> HIDE DEF place
<1>2. place \in Places /\ kind \in Kinds /\ kind \in Tasks /\ "answer" \in Returns
  BY <1>1, Words
<1>3. Sound(c, [Blank EXCEPT !.kind = kind, !.pc = place, !.task = kind, !.ret = "answer"])
  <2> DEFINE y == [Blank EXCEPT !.kind = kind, !.pc = place, !.task = kind, !.ret = "answer"]
  <2>2. y \in CmdType
    BY BlankFields, Words, <1>1, <1>2 DEF CmdType
  <2>3. /\ y.kind = kind /\ y.pc = place /\ y.task = kind /\ y.ret = "answer" /\ y.lock = FALSE
        /\ y.setup = FALSE /\ y.want = None /\ y.inst = None /\ y.ok = FALSE /\ y.state = ""
        /\ y.fp = None /\ y.plan = None
    BY DEF Blank
  <2> HIDE DEF y
  <2>4. Placed(y)
    BY <2>3, <1>1, <1>2 DEF Placed, Planned, Writing, Connecting, Asked
  <2>5. Permitted(y)
    BY <2>3, <1>1, <1>2 DEF Planned, Permitted, Writing
  <2>6. Backed(y, worker)
    BY <2>3, <1>1, <1>2 DEF Backed, Connecting, Planned
  <2>7. QED
    BY <2>2, <2>3, <2>4, <2>5, <2>6, <1>1 DEF Sound, Good, Swapping, y
<1>4. QED
  BY <1>3, AloneMoves DEF Begin, place

-----------------------------------------------------------------------------
(* The steps of setup. *)
LEMMA AskingFields ==
    ASSUME NEW c, cmd[c] \in CmdType, NEW ret \in Returns
    PROVE  /\ Asking(c, ret) \in CmdType
           /\ Asking(c, ret).kind = cmd[c].kind /\ Asking(c, ret).pc = "status"
           /\ Asking(c, ret).task = "" /\ Asking(c, ret).ret = ret /\ Asking(c, ret).lock = FALSE
           /\ Asking(c, ret).setup = cmd[c].setup /\ Asking(c, ret).want = None
           /\ Asking(c, ret).inst = None /\ Asking(c, ret).ok = FALSE /\ Asking(c, ret).state = ""
           /\ Asking(c, ret).fp = None /\ Asking(c, ret).plan = cmd[c].plan
<1> DEFINE k == cmd[c].kind  s == cmd[c].setup  pl == cmd[c].plan
<1>1. k \in Kinds /\ s \in BOOLEAN /\ pl \in PlanType \cup {None}
  BY DEF CmdType
<1> HIDE DEF k, s, pl
<1>2. [Blank EXCEPT !.kind = k, !.pc = "status", !.ret = ret, !.setup = s,
                    !.plan = pl] \in CmdType
  BY <1>1, BlankFields, Words DEF CmdType
<1>3. Asking(c, ret) = [Blank EXCEPT !.kind = k, !.pc = "status", !.ret = ret, !.setup = s,
                                     !.plan = pl]
  BY DEF Asking, k, s, pl
<1>4. Asking(c, ret) \in CmdType
  BY <1>2, <1>3
<1>5. QED
  BY <1>3, <1>4 DEF Blank, k, s, pl

(* A setup or a connect asks for the status. *)
LEMMA AskingSound ==
    ASSUME CommandInv, NEW c \in Commands, Planned(cmd[c]),
           NEW ret \in {"inspected"} \cup Asked,
           ret \in Asked => cmd[c].kind = "connect",
           NEW locked \in BOOLEAN, locked => cmd[c].setup \/ SetupLockFree,
           ret = "inspected" => locked
    PROVE  Sound(c, [Asking(c, ret) EXCEPT !.setup = locked])
<1>1. /\ cmd[c] \in CmdType /\ Placed(cmd[c]) /\ Permitted(cmd[c])
      /\ Backed(cmd[c], worker)
  BY CommandAt
<1>2. ret \in Returns
  BY Words DEF Asked
<1> DEFINE t == Asking(c, ret)
           y == [t EXCEPT !.setup = locked]
<1>3. /\ t \in CmdType
      /\ t.kind = cmd[c].kind /\ t.pc = "status" /\ t.task = "" /\ t.ret = ret
      /\ t.lock = FALSE /\ t.setup = cmd[c].setup /\ t.want = None /\ t.inst = None
      /\ t.ok = FALSE /\ t.state = "" /\ t.fp = None /\ t.plan = cmd[c].plan
  BY <1>1, <1>2, AskingFields, ZenonT(60)
<1> HIDE DEF t
<1>4. y \in CmdType
  BY <1>3 DEF CmdType
<1>5. /\ y.kind = cmd[c].kind /\ y.pc = "status" /\ y.task = "" /\ y.ret = ret
      /\ y.lock = FALSE /\ y.setup = locked /\ y.want = None /\ y.inst = None /\ y.ok = FALSE
      /\ y.state = "" /\ y.fp = None /\ y.plan = cmd[c].plan
  BY <1>3 DEF CmdType
<1> HIDE DEF y
<1>6. Placed(y)
  BY <1>5 DEF Placed, Planned, Writing, Connecting, Asked
<1>7. Permitted(y)
  BY <1>1, <1>5 DEF Permitted, Planned, Writing
<1>8. Backed(y, worker)
  BY <1>5 DEF Backed
<1>9. QED
  BY <1>4, <1>5, <1>6, <1>7, <1>8 DEF Sound, Good, Swapping, y, t

(* Asking as it is keeps setup.lock as it is. *)
LEMMA AskingPlain ==
    ASSUME CommandInv, NEW c \in Commands, Planned(cmd[c]), cmd[c].kind = "connect",
           NEW ret \in Asked
    PROVE  Sound(c, Asking(c, ret))
<1>1. /\ cmd[c] \in CmdType /\ Placed(cmd[c]) /\ Permitted(cmd[c])
      /\ Backed(cmd[c], worker)
  BY CommandAt
<1>2. ret \in Returns
  BY Words DEF Asked
<1> DEFINE y == Asking(c, ret)
<1>4. y \in CmdType
  BY <1>1, <1>2, AskingFields
<1>5. /\ y.kind = cmd[c].kind /\ y.pc = "status" /\ y.task = "" /\ y.ret = ret
      /\ y.lock = FALSE /\ y.setup = cmd[c].setup /\ y.want = None /\ y.inst = None
      /\ y.ok = FALSE /\ y.state = "" /\ y.fp = None /\ y.plan = cmd[c].plan
  BY <1>1, <1>2, AskingFields, ZenonT(60)
<1> HIDE DEF y
<1>6. Placed(y)
  BY <1>5 DEF Placed, Planned, Writing, Connecting, Asked
<1>7. Permitted(y)
  BY <1>1, <1>5 DEF Permitted, Planned, Writing
<1>8. Backed(y, worker)
  BY <1>5 DEF Backed
<1>9. QED
  BY <1>4, <1>5, <1>6, <1>7, <1>8 DEF Sound, Good, Swapping, y

(* setup: the draft is reviewed. *)
LEMMA ReviewMoves ==
    ASSUME CommandInv, NEW c \in Commands, NEW mode \in Modes, Review(c, mode)
    PROVE  Moves(c) /\ StopsTold(c)
<1>1. PICK desired \in Contents :
        Goto(c, [Blank EXCEPT !.kind = "setup", !.pc = "reviewed",
                              !.plan = Plan(config, pending, desired, mode)])
  BY DEF Review
<1> DEFINE pl == Plan(config, pending, desired, mode)
<1>2. pl \in PlanType /\ pl.action = "none"
  <2>1. config \in Contents \cup {Broken, Absent} /\ pending \in Texts
    BY CommandAt
  <2>2. QED
    BY <2>1 DEF Plan, PlanType
<1> HIDE DEF pl
<1>3. Sound(c, [Blank EXCEPT !.kind = "setup", !.pc = "reviewed", !.plan = pl])
  <2> DEFINE y == [Blank EXCEPT !.kind = "setup", !.pc = "reviewed", !.plan = pl]
  <2>2. y \in CmdType
    BY BlankFields, Words, <1>2 DEF CmdType
  <2>3. /\ y.kind = "setup" /\ y.pc = "reviewed" /\ y.task = "" /\ y.ret = "" /\ y.lock = FALSE
        /\ y.setup = FALSE /\ y.want = None /\ y.inst = None /\ y.ok = FALSE /\ y.state = ""
        /\ y.fp = None /\ y.plan = pl
    BY DEF Blank
  <2> HIDE DEF y
  <2>4. Placed(y)
    BY <2>3, <1>2 DEF Placed, Planned, Writing, Connecting, Asked
  <2>5. Permitted(y)
    BY <2>3, <1>2 DEF Planned, Permitted, Writing
  <2>6. Backed(y, worker)
    BY <2>3, <1>2 DEF Backed, Connecting, Planned
  <2>7. QED
    BY <2>2, <2>3, <2>4, <2>5, <2>6 DEF Sound, Good, Swapping, y
<1>4. QED
  BY <1>1, <1>3, AloneMoves DEF Review, pl

(* Setup goes on to write what was decided. *)
LEMMA WriteSound ==
    ASSUME CommandInv, NEW c \in Commands, cmd[c].pc \in {"reviewed", "inspected"},
           NEW a \in {"on", "restart", "SaveOnly"},
           a = "restart" => cmd[c].plan.mode = "SaveAndRestart",
           a = "SaveOnly" => cmd[c].plan.mode = "SaveOnly"
    PROVE  /\ SetupLockFree =>
                Sound(c, [cmd[c] EXCEPT !.pc = "write", !.setup = TRUE, !.plan.action = a])
                \/ cmd[c].pc # "reviewed"
           /\ cmd[c].pc = "inspected" =>
                Sound(c, [cmd[c] EXCEPT !.pc = "write", !.plan.action = a,
                                        !.state = "", !.fp = None, !.inst = None])
<1>1. /\ cmd[c] \in CmdType /\ Placed(cmd[c]) /\ Permitted(cmd[c])
      /\ Backed(cmd[c], worker)
  BY CommandAt
<1>2. Planned(cmd[c]) /\ cmd[c].plan \in PlanType /\ cmd[c].task # "init"
  BY <1>1 DEF Placed, Permitted
<1> DEFINE pl == [cmd[c].plan EXCEPT !.action = a]
<1>3. /\ pl \in PlanType /\ pl.action = a /\ pl.desired = cmd[c].plan.desired
      /\ pl.mode = cmd[c].plan.mode /\ pl.reviewed = cmd[c].plan.reviewed
  BY <1>2 DEF PlanType
<1>4. /\ [cmd[c] EXCEPT !.pc = "write", !.setup = TRUE, !.plan.action = a]
           = [cmd[c] EXCEPT !.pc = "write", !.setup = TRUE, !.plan = pl]
      /\ [cmd[c] EXCEPT !.pc = "write", !.plan.action = a, !.state = "", !.fp = None,
                        !.inst = None]
           = [cmd[c] EXCEPT !.pc = "write", !.plan = pl, !.state = "", !.fp = None, !.inst = None]
  OBVIOUS
<1> HIDE DEF pl
<1>5. ASSUME SetupLockFree, cmd[c].pc = "reviewed"
      PROVE  Sound(c, [cmd[c] EXCEPT !.pc = "write", !.setup = TRUE, !.plan = pl])
  <2> DEFINE y == [cmd[c] EXCEPT !.pc = "write", !.setup = TRUE, !.plan = pl]
  <2>2. y \in CmdType
    BY <1>1, Words, <1>2, <1>3, <1>5 DEF CmdType
  <2>3. /\ y.kind = cmd[c].kind /\ y.pc = "write" /\ y.task = cmd[c].task /\ y.ret = cmd[c].ret
        /\ y.lock = cmd[c].lock /\ y.setup = TRUE /\ y.want = cmd[c].want
        /\ y.inst = cmd[c].inst /\ y.ok = cmd[c].ok /\ y.state = cmd[c].state
        /\ y.fp = cmd[c].fp /\ y.plan = pl
    BY <1>1 DEF CmdType
  <2> HIDE DEF y
  <2>4. Placed(y)
    BY <1>1, <1>2, <1>3, <1>5, <2>3 DEF Placed, Planned, Writing, Connecting, Asked
  <2>5. Permitted(y)
    BY <1>1, <1>2, <1>3, <1>5, <2>3 DEF Permitted, Planned, Writing
  <2>6. Backed(y, worker)
    BY <1>1, <1>2, <1>3, <1>5, <2>3 DEF Backed, Connecting, Planned
  <2>7. QED
    BY <2>2, <2>3, <2>4, <2>5, <2>6, <1>5 DEF Sound, Good, Swapping, y
<1>6. ASSUME cmd[c].pc = "inspected"
      PROVE  Sound(c, [cmd[c] EXCEPT !.pc = "write", !.plan = pl, !.state = "", !.fp = None,
                                     !.inst = None])
  <2> DEFINE y == [cmd[c] EXCEPT !.pc = "write", !.plan = pl, !.state = "", !.fp = None,
                                 !.inst = None]
  <2>2. y \in CmdType
    BY <1>1, Words, <1>2, <1>3, <1>6 DEF CmdType
  <2>3. /\ y.kind = cmd[c].kind /\ y.pc = "write" /\ y.task = cmd[c].task /\ y.ret = cmd[c].ret
        /\ y.lock = cmd[c].lock /\ y.setup = cmd[c].setup /\ y.want = cmd[c].want
        /\ y.inst = None /\ y.ok = cmd[c].ok /\ y.state = "" /\ y.fp = None /\ y.plan = pl
    BY <1>1 DEF CmdType
  <2> HIDE DEF y
  <2>4. Placed(y)
    BY <1>1, <1>2, <1>3, <1>6, <2>3 DEF Placed, Planned, Writing, Connecting, Asked
  <2>5. Permitted(y)
    BY <1>1, <1>2, <1>3, <1>6, <2>3 DEF Permitted, Planned, Writing
  <2>6. Backed(y, worker)
    BY <1>1, <1>2, <1>3, <1>6, <2>3 DEF Backed, Connecting, Planned
  <2>7. QED
    BY <2>2, <2>3, <2>4, <2>5, <2>6 DEF Sound, Good, Swapping, y
<1>7. QED
  BY <1>4, <1>5, <1>6

(* setup apply: take setup.lock and compare with what was reviewed. *)
LEMMA ApplyMoves ==
    ASSUME CommandInv, NEW c \in Commands, Apply(c)
    PROVE  Moves(c) /\ StopsTold(c)
<1>1. /\ cmd[c] \in CmdType /\ Placed(cmd[c]) /\ Permitted(cmd[c])
      /\ Backed(cmd[c], worker)
  BY CommandAt
<1>2. cmd[c].pc = "reviewed" /\ worker' = worker
  BY DEF Apply, At
<1>3. Sound(c, Refused(c))
  BY RefusedSound
<1>4. SetupLockFree =>
        Sound(c, [cmd[c] EXCEPT !.pc = "write", !.setup = TRUE, !.plan.action = "on"])
  BY <1>2, WriteSound
<1>5. Planned(cmd[c])
  BY <1>1, <1>2 DEF Placed
<1>6. SetupLockFree => Sound(c, [Asking(c, "inspected") EXCEPT !.setup = TRUE])
  BY <1>5, AskingSound DEF Asked
<1>7. QED
  BY <1>2, <1>3, <1>4, <1>6, AloneMoves DEF Apply

(* setup apply: lifecycle_action decides before any write. *)
LEMMA InspectedMoves ==
    ASSUME CommandInv, NEW c \in Commands, Inspected(c)
    PROVE  Moves(c) /\ StopsTold(c)
<1>1. cmd[c].pc = "inspected" /\ worker' = worker
  BY DEF Inspected, At
<1>2. cmd[c].plan.mode \in Modes
  <2>1. cmd[c].plan \in PlanType
    BY <1>1, CommandAt DEF Placed, Permitted
  <2>2. QED
    BY <2>1 DEF PlanType
<1> DEFINE a == LifecycleAction(cmd[c].plan.mode, RuntimeImpact(c))
<1>3. /\ a \in {"refuse", "on", "restart", "SaveOnly"}
      /\ a = "restart" => cmd[c].plan.mode = "SaveAndRestart"
      /\ a = "SaveOnly" => cmd[c].plan.mode = "SaveOnly"
  BY <1>2 DEF LifecycleAction, RuntimeImpact, Modes
<1>4. Goto(c, IF a = "refuse" THEN Refused(c)
              ELSE [cmd[c] EXCEPT !.pc = "write", !.plan.action = a,
                                  !.state = "", !.fp = None, !.inst = None])
  BY DEF Inspected
<1> HIDE DEF a
<1>5. a # "refuse" => Sound(c, [cmd[c] EXCEPT !.pc = "write", !.plan.action = a,
                                              !.state = "", !.fp = None, !.inst = None])
  BY <1>1, <1>3, WriteSound
<1>6. QED
  BY <1>1, <1>4, <1>5, RefusedSound, AloneMoves

(* A write goes on to the next one. *)
LEMMA WritingSound ==
    ASSUME CommandInv, NEW c \in Commands, cmd[c].pc \in Writing,
           NEW p \in {"pending", "replace", "replaced", "verified"}
    PROVE  Sound(c, To(c, p))
<1>1. /\ cmd[c] \in CmdType /\ Placed(cmd[c]) /\ Permitted(cmd[c])
      /\ Backed(cmd[c], worker)
  BY CommandAt
<1>2. p \in Places /\ p \in Writing
  BY Words DEF Writing
<1>3. cmd[c].task # "init"
  BY <1>1 DEF Placed, Writing
<1>4. Planned(cmd[c]) /\ cmd[c].setup
  BY <1>1 DEF Placed
<1>5. QED
  <2> DEFINE y == To(c, p)
  <2>a. p \in Places
    BY <1>1, Words, <1>2, <1>3, <1>4
  <2>2. y \in CmdType
    BY <1>1, <2>a, ToFields
  <2>3. /\ y.kind = cmd[c].kind /\ y.pc = p /\ y.task = cmd[c].task /\ y.ret = cmd[c].ret
        /\ y.lock = FALSE /\ y.setup = cmd[c].setup /\ y.want = cmd[c].want
        /\ y.inst = cmd[c].inst /\ y.ok = cmd[c].ok /\ y.state = cmd[c].state
        /\ y.fp = cmd[c].fp /\ y.plan = cmd[c].plan
    BY <1>1, <2>a, ToFields
  <2> HIDE DEF y
  <2>4. Placed(y)
    BY <1>1, <1>2, <1>3, <1>4, <2>3 DEF Placed, Planned, Writing, Connecting, Asked
  <2>5. Permitted(y)
    BY <1>1, <1>2, <1>3, <1>4, <2>3, KeepsPlan DEF Writing, Planned
  <2>6. Backed(y, worker)
    BY <1>1, <1>2, <1>3, <1>4, <2>3 DEF Backed, Connecting, Writing
  <2>7. QED
    BY <2>2, <2>3, <2>4, <2>5, <2>6 DEF Sound, Good, Swapping, y

(* setup apply: write_protected_file and its replacement on Windows. *)
LEMMA WriteConfigMoves ==
    ASSUME CommandInv, NEW c \in Commands, WriteConfig(c) \/ Replace(c) \/ Replaced(c) \/ Cleaned(c)
    PROVE  Moves(c) /\ StopsTold(c)
<1>1. cmd[c].pc \in Writing /\ worker' = worker
  BY DEF WriteConfig, Replace, Replaced, Cleaned, At, Writing
<1>2. Sound(c, Refused(c))
  BY RefusedSound
<1>3. \A p \in {"pending", "replace", "replaced", "verified"} : Sound(c, To(c, p))
  BY <1>1, WritingSound
<1>4. \/ Goto(c, Refused(c))
      \/ \E p \in {"pending", "replace", "replaced", "verified"} : Goto(c, To(c, p))
  BY DEF WriteConfig, Replace, Replaced, Cleaned
<1>5. QED
  BY <1>1, <1>2, <1>3, <1>4, AloneMoves

(* setup apply: the pending metadata. *)
LEMMA WritePendingMoves ==
    ASSUME CommandInv, NEW c \in Commands, WritePending(c)
    PROVE  Moves(c) /\ StopsTold(c)
<1>1. /\ cmd[c] \in CmdType /\ Placed(cmd[c]) /\ Permitted(cmd[c])
      /\ Backed(cmd[c], worker)
  BY CommandAt
<1>2. cmd[c].pc = "pending" /\ worker' = worker
  BY DEF WritePending, At
<1>3. Planned(cmd[c]) /\ cmd[c].plan \in PlanType
  BY <1>1, <1>2 DEF Placed, Permitted, Writing
<1> DEFINE d == cmd[c].plan.desired
<1>4. d \in Texts
  BY <1>3 DEF PlanType, Texts
<1>5. Sound(c, [To(c, "await") EXCEPT !.task = "init", !.want = cmd[c].plan.desired])
  <2> DEFINE t == To(c, "await")
              y == [t EXCEPT !.task = "init", !.want = cmd[c].plan.desired]
  <2>a. "await" \in Places
    BY <1>1, Words, <1>2, <1>3, <1>4
  <2>1. /\ t \in CmdType
        /\ t.kind = cmd[c].kind /\ t.pc = "await" /\ t.task = cmd[c].task /\ t.ret = cmd[c].ret
        /\ t.lock = FALSE /\ t.setup = cmd[c].setup /\ t.want = cmd[c].want
        /\ t.inst = cmd[c].inst /\ t.ok = cmd[c].ok /\ t.state = cmd[c].state
        /\ t.fp = cmd[c].fp /\ t.plan = cmd[c].plan
    BY <1>1, <2>a, ToFields
  <2> HIDE DEF t
  <2>2. y \in CmdType
    BY <2>1, Words, <1>2, <1>3, <1>4 DEF CmdType
  <2>3. /\ y.kind = cmd[c].kind /\ y.pc = "await" /\ y.task = "init" /\ y.ret = cmd[c].ret
        /\ y.lock = FALSE /\ y.setup = cmd[c].setup /\ y.want = cmd[c].plan.desired
        /\ y.inst = cmd[c].inst /\ y.ok = cmd[c].ok /\ y.state = cmd[c].state
        /\ y.fp = cmd[c].fp /\ y.plan = cmd[c].plan
    BY <2>1 DEF CmdType
  <2> HIDE DEF y
  <2>4. Placed(y)
    BY <1>1, <1>2, <1>3, <1>4, <2>3 DEF Placed, Planned, Writing, Connecting, Asked
  <2>5. Permitted(y)
    BY <1>1, <1>2, <1>3, <1>4, <2>3 DEF Permitted, Planned, Writing
  <2>6. Backed(y, worker)
    BY <1>1, <1>2, <1>3, <1>4, <2>3 DEF Backed, Connecting, Planned
  <2>7. QED
    BY <2>2, <2>3, <2>4, <2>5, <2>6 DEF Sound, Good, Swapping, y, t
<1>6. QED
  BY <1>2, <1>5, RefusedSound, AloneMoves DEF WritePending

(* The apply's result. *)
LEMMA AppliedSound ==
    ASSUME CommandInv, NEW c \in Commands, cmd[c].pc = "returned",
           NEW state \in {"not_started", "running"}, state = "running" => Established(c)
    PROVE  Sound(c, Applied(c, state))
<1>1. /\ cmd[c] \in CmdType /\ Placed(cmd[c]) /\ Permitted(cmd[c])
      /\ Backed(cmd[c], worker)
  BY CommandAt
<1>2. Planned(cmd[c])
  BY <1>1 DEF Placed
<1>3. CASE cmd[c].kind = "connect"
  BY <1>2, <1>3, AskingSound DEF Applied, Asked
<1>4. CASE cmd[c].kind = "setup"
  <2> DEFINE i == cmd[c].inst  f == cmd[c].fp  w == cmd[c].want
  <2>a. i \in Somebody /\ f \in Texts /\ w \in Texts /\ state \in States
    BY <1>1, Words DEF CmdType
  <2>b. state = "running" =>
          /\ i \in Workers /\ worker[i].fp = f /\ worker[i].pc \in Serving \cup Dead
          /\ w \in {None, f}
    BY <1>1, <1>2 DEF Established, Backed, Permitted
  <2>c. Applied(c, state) = [Blank EXCEPT !.kind = "setup", !.pc = "done", !.ok = TRUE,
                               !.state = state, !.inst = i, !.fp = f, !.want = w]
    BY <1>4 DEF Applied
  <2> HIDE DEF i, f, w
  <2>d. Sound(c, [Blank EXCEPT !.kind = "setup", !.pc = "done", !.ok = TRUE,
                               !.state = state, !.inst = i, !.fp = f, !.want = w])
    <3> DEFINE y == [Blank EXCEPT !.kind = "setup", !.pc = "done", !.ok = TRUE,
                                  !.state = state, !.inst = i, !.fp = f, !.want = w]
    <3>2. y \in CmdType
      BY BlankFields, Words, <2>a, <2>b DEF CmdType
    <3>3. /\ y.kind = "setup" /\ y.pc = "done" /\ y.task = "" /\ y.ret = "" /\ y.lock = FALSE
          /\ y.setup = FALSE /\ y.want = w /\ y.inst = i /\ y.ok = TRUE /\ y.state = state
          /\ y.fp = f /\ y.plan = None
      BY DEF Blank
    <3> HIDE DEF y
    <3>4. Placed(y)
      BY <3>3, <2>a, <2>b DEF Placed, Planned, Writing, Connecting, Asked
    <3>5. Permitted(y)
      BY <3>3, <2>a, <2>b DEF Planned, Permitted, Writing
    <3>6. Backed(y, worker)
      BY <3>3, <2>a, <2>b DEF Backed, Connecting, Planned
    <3>7. QED
      BY <3>2, <3>3, <3>4, <3>5, <3>6 DEF Sound, Good, Swapping, y
  <2>e. QED
    BY <2>c, <2>d
<1>5. QED
  BY <1>2, <1>3, <1>4 DEF Planned

(* setup apply: the lifecycle function it called returned. *)
LEMMA ReturnedMoves ==
    ASSUME CommandInv, NEW c \in Commands, Returned(c)
    PROVE  Moves(c) /\ StopsTold(c)
<1>1. /\ cmd[c] \in CmdType /\ Placed(cmd[c]) /\ Permitted(cmd[c])
      /\ Backed(cmd[c], worker)
  BY CommandAt
<1>2. cmd[c].pc = "returned" /\ worker' = worker
  BY DEF Returned, At
<1>3. Planned(cmd[c]) /\ cmd[c].plan \in PlanType
  BY <1>1, <1>2 DEF Placed, Permitted
<1>4. Sound(c, Applied(c, "not_started")) /\ (Established(c) => Sound(c, Applied(c, "running")))
  BY <1>2, AppliedSound
<1> DEFINE a == cmd[c].plan.action
<1>5. ASSUME cmd[c].task = "init", cmd[c].plan.mode # "SaveOnly"
      PROVE  Sound(c, [cmd[c] EXCEPT !.pc = "await", !.task = cmd[c].plan.action, !.ok = FALSE])
  <2>a. /\ a \in {"on", "restart"} /\ a \in Tasks
        /\ a = "restart" => cmd[c].plan.mode = "SaveAndRestart"
    BY <1>1, <1>3, <1>5, Words DEF Permitted
  <2> DEFINE y == [cmd[c] EXCEPT !.pc = "await", !.task = cmd[c].plan.action, !.ok = FALSE]
  <2>2. y \in CmdType
    BY <1>1, Words, <1>2, <1>3, <1>5, <2>a DEF CmdType
  <2>3. /\ y.kind = cmd[c].kind /\ y.pc = "await" /\ y.task = cmd[c].plan.action
        /\ y.ret = cmd[c].ret /\ y.lock = cmd[c].lock /\ y.setup = cmd[c].setup
        /\ y.want = cmd[c].want /\ y.inst = cmd[c].inst /\ y.ok = FALSE
        /\ y.state = cmd[c].state /\ y.fp = cmd[c].fp /\ y.plan = cmd[c].plan
    BY <1>1 DEF CmdType
  <2> HIDE DEF y
  <2>4. Placed(y)
    BY <1>1, <1>2, <1>3, <1>5, <2>a, <2>3 DEF Placed, Planned, Writing, Connecting, Asked
  <2>5. Permitted(y)
    BY <1>1, <1>2, <1>3, <1>5, <2>a, <2>3 DEF Permitted, Planned, Writing
  <2>6. Backed(y, worker)
    BY <1>1, <1>2, <1>3, <1>5, <2>a, <2>3 DEF Backed, Connecting, Planned
  <2>7. QED
    BY <2>2, <2>3, <2>4, <2>5, <2>6 DEF Sound, Good, Swapping, y
<1>6. QED
  BY <1>2, <1>4, <1>5, RefusedSound, AloneMoves DEF Returned

(* Every step of setup moves its command soundly. *)
LEMMA SetupMoves ==
    ASSUME CommandInv, NEW c \in Commands, SetupStep(c)
    PROVE  Moves(c) /\ StopsTold(c)
<1>1. ASSUME Kill(c) PROVE Moves(c) /\ StopsTold(c)
  BY <1>1, RefusedSound, AloneMoves DEF Kill, Refused
<1>2. QED
  BY <1>1, ApplyMoves, InspectedMoves, WriteConfigMoves, WritePendingMoves, ReturnedMoves
     DEF SetupStep

-----------------------------------------------------------------------------
(* The steps of connect. *)
LEMMA ConnectPlanMoves ==
    ASSUME CommandInv, NEW c \in Commands, ConnectPlan(c)
    PROVE  Moves(c) /\ StopsTold(c)
<1>1. PICK desired \in Contents :
        Goto(c, [Blank EXCEPT !.kind = "connect", !.pc = "status", !.ret = "impact",
                              !.plan = [Plan(config, pending, desired, "SaveAndStart")
                                          EXCEPT !.client = client]])
  BY DEF ConnectPlan
<1> DEFINE x == Plan(config, pending, desired, "SaveAndStart")
           pl == [x EXCEPT !.client = client]
<1>2. x \in PlanType /\ x.action = "none"
  <2>1. config \in Contents \cup {Broken, Absent} /\ pending \in Texts
    BY CommandAt
  <2>2. QED
    BY <2>1 DEF Plan, PlanType, Modes
<1>3. Goto(c, [Blank EXCEPT !.kind = "connect", !.pc = "status", !.ret = "impact", !.plan = pl])
  BY <1>1
<1> HIDE DEF x
<1>4. pl \in PlanType /\ pl.action = "none"
  BY <1>2, CommandAt DEF PlanType
<1> HIDE DEF pl
<1>5. Sound(c, [Blank EXCEPT !.kind = "connect", !.pc = "status", !.ret = "impact", !.plan = pl])
  <2> DEFINE y == [Blank EXCEPT !.kind = "connect", !.pc = "status", !.ret = "impact",
                                !.plan = pl]
  <2>2. y \in CmdType
    BY BlankFields, Words, <1>4 DEF CmdType
  <2>3. /\ y.kind = "connect" /\ y.pc = "status" /\ y.task = "" /\ y.ret = "impact"
        /\ y.lock = FALSE /\ y.setup = FALSE /\ y.want = None /\ y.inst = None /\ y.ok = FALSE
        /\ y.state = "" /\ y.fp = None /\ y.plan = pl
    BY DEF Blank
  <2> HIDE DEF y
  <2>4. Placed(y)
    BY <2>3, <1>4 DEF Placed, Planned, Writing, Connecting, Asked
  <2>5. Permitted(y)
    BY <2>3, <1>4 DEF Planned, Permitted, Writing
  <2>6. Backed(y, worker)
    BY <2>3, <1>4 DEF Backed, Connecting, Planned
  <2>7. QED
    BY <2>2, <2>3, <2>4, <2>5, <2>6 DEF Sound, Good, Swapping, y
<1>6. QED
  BY <1>3, <1>5, AloneMoves DEF ConnectPlan

(* A connect has its plan at every place of its own. *)
LEMMA ConnectAt ==
    ASSUME CommandInv, NEW c \in Commands, cmd[c].pc \in Connecting
    PROVE  Planned(cmd[c]) /\ cmd[c].kind = "connect" /\ cmd[c].plan \in PlanType
<1>1. cmd[c].kind = "connect" /\ Permitted(cmd[c])
  BY CommandAt DEF Placed
<1>2. Planned(cmd[c])
  BY <1>1 DEF Planned, Connecting
<1>3. QED
  BY <1>1, <1>2 DEF Permitted

(* connect: the impact decides the mode. *)
LEMMA ImpactMoves ==
    ASSUME CommandInv, NEW c \in Commands, Impact(c)
    PROVE  Moves(c) /\ StopsTold(c)
<1>1. /\ cmd[c] \in CmdType /\ Placed(cmd[c]) /\ Permitted(cmd[c])
      /\ Backed(cmd[c], worker)
  BY CommandAt
<1>2. cmd[c].pc = "impact" /\ worker' = worker
  BY DEF Impact, At
<1>3. Planned(cmd[c]) /\ cmd[c].kind = "connect" /\ cmd[c].plan \in PlanType
  BY <1>2, ConnectAt DEF Connecting
<1> DEFINE ret == "preview"
           t == Asking(c, ret)
<1>w. ret \in Returns /\ cmd[c] \in CmdType
  BY <1>1, Words
<1> HIDE DEF ret
<1>v. /\ t \in CmdType
      /\ t.kind = cmd[c].kind /\ t.pc = "status" /\ t.task = "" /\ t.ret = ret
      /\ t.lock = FALSE /\ t.setup = cmd[c].setup /\ t.want = None /\ t.inst = None
      /\ t.ok = FALSE /\ t.state = "" /\ t.fp = None /\ t.plan = cmd[c].plan
  BY <1>w, AskingFields, ZenonT(60)
<1>4. /\ t \in CmdType
      /\ t.kind = cmd[c].kind /\ t.pc = "status" /\ t.task = "" /\ t.ret = "preview"
      /\ t.lock = FALSE /\ t.setup = cmd[c].setup /\ t.want = None /\ t.inst = None
      /\ t.ok = FALSE /\ t.state = "" /\ t.fp = None /\ t.plan = cmd[c].plan
  BY <1>v DEF ret
<1> DEFINE m == IF RuntimeImpact(c) = "RestartRequired" THEN "SaveAndRestart" ELSE t.plan.mode
           pl == [cmd[c].plan EXCEPT !.mode = m]
           y == [t EXCEPT !.plan = pl]
<1>5. m \in Modes /\ m \in {"SaveAndRestart", cmd[c].plan.mode}
  BY <1>3, <1>4 DEF PlanType, Modes
<1>6. Goto(c, y)
  BY <1>4 DEF Impact, CmdType, ret
<1> HIDE DEF m, t
<1>7. /\ pl \in PlanType /\ pl.desired = cmd[c].plan.desired
      /\ pl.action = "restart" => pl.mode = "SaveAndRestart"
  BY <1>1, <1>3, <1>5 DEF PlanType, Permitted
<1> HIDE DEF pl
<1>8. y \in CmdType
  BY <1>4, <1>7 DEF CmdType
<1>9. /\ y.kind = cmd[c].kind /\ y.pc = "status" /\ y.task = "" /\ y.ret = "preview"
      /\ y.lock = FALSE /\ y.setup = cmd[c].setup /\ y.want = None /\ y.inst = None
      /\ y.ok = FALSE /\ y.state = "" /\ y.fp = None /\ y.plan = pl
  BY <1>4 DEF CmdType
<1> HIDE DEF y
<1>10. Placed(y)
  BY <1>3, <1>9 DEF Placed, Planned, Writing, Connecting, Asked
<1>11. Permitted(y)
  BY <1>3, <1>7, <1>9 DEF Permitted, Planned, Writing
<1>12. Backed(y, worker)
  BY <1>3, <1>9 DEF Backed
<1>13. Sound(c, y)
  BY <1>8, <1>9, <1>10, <1>11, <1>12 DEF Sound, Good, Swapping
<1>14. QED
  BY <1>2, <1>6, <1>13, AloneMoves

(* connect: the preview shows the runtime action. *)
LEMMA PreviewMoves ==
    ASSUME CommandInv, NEW c \in Commands, Preview(c)
    PROVE  Moves(c) /\ StopsTold(c)
<1>1. /\ cmd[c] \in CmdType /\ Placed(cmd[c]) /\ Permitted(cmd[c])
      /\ Backed(cmd[c], worker)
  BY CommandAt
<1>2. cmd[c].pc = "preview" /\ worker' = worker
  BY DEF Preview, At
<1>3. Planned(cmd[c]) /\ cmd[c].kind = "connect" /\ cmd[c].plan \in PlanType /\ cmd[c].task = ""
  BY <1>1, <1>2, ConnectAt DEF Connecting, Placed, Asked
<1> DEFINE r == ClientRuntimeAction(c)
           pl == [cmd[c].plan EXCEPT !.reviewed = r]
<1>4. r \in {"Ready", "Restart", "Start", "Blocked"}
  BY DEF ClientRuntimeAction
<1>5. [cmd[c] EXCEPT !.pc = "confirm", !.plan.reviewed = r,
                     !.ret = "", !.state = "", !.fp = None, !.inst = None]
        = [cmd[c] EXCEPT !.pc = "confirm", !.plan = pl,
                         !.ret = "", !.state = "", !.fp = None, !.inst = None]
  OBVIOUS
<1> HIDE DEF r
<1>6. /\ pl \in PlanType /\ pl.desired = cmd[c].plan.desired
      /\ pl.action = cmd[c].plan.action /\ pl.mode = cmd[c].plan.mode
  BY <1>3, <1>4 DEF PlanType
<1> HIDE DEF pl
<1>7. Sound(c, [cmd[c] EXCEPT !.pc = "confirm", !.plan = pl,
                              !.ret = "", !.state = "", !.fp = None, !.inst = None])
  <2> DEFINE y == [cmd[c] EXCEPT !.pc = "confirm", !.plan = pl, !.ret = "", !.state = "",
                                 !.fp = None, !.inst = None]
  <2>2. y \in CmdType
    BY <1>1, Words, <1>2, <1>3, <1>6 DEF CmdType
  <2>3. /\ y.kind = cmd[c].kind /\ y.pc = "confirm" /\ y.task = cmd[c].task /\ y.ret = ""
        /\ y.lock = cmd[c].lock /\ y.setup = cmd[c].setup /\ y.want = cmd[c].want
        /\ y.inst = None /\ y.ok = cmd[c].ok /\ y.state = "" /\ y.fp = None /\ y.plan = pl
    BY <1>1 DEF CmdType
  <2> HIDE DEF y
  <2>4. Placed(y)
    BY <1>1, <1>2, <1>3, <1>6, <2>3 DEF Placed, Planned, Writing, Connecting, Asked
  <2>5. Permitted(y)
    BY <1>1, <1>2, <1>3, <1>6, <2>3 DEF Permitted, Planned, Writing
  <2>6. Backed(y, worker)
    BY <1>1, <1>2, <1>3, <1>6, <2>3 DEF Backed, Connecting, Planned
  <2>7. QED
    BY <2>2, <2>3, <2>4, <2>5, <2>6 DEF Sound, Good, Swapping, y
<1>8. QED
  BY <1>2, <1>5, <1>7, RefusedSound, AloneMoves DEF Preview, r

(* connect: the user confirms or stops. *)
LEMMA ConfirmMoves ==
    ASSUME CommandInv, NEW c \in Commands, Confirm(c)
    PROVE  Moves(c) /\ StopsTold(c)
<1>1. cmd[c].pc = "confirm" /\ worker' = worker
  BY DEF Confirm, At
<1>2. Sound(c, Asking(c, "fresh"))
  BY <1>1, ConnectAt, AskingPlain DEF Connecting, Asked
<1>3. Sound(c, [Blank EXCEPT !.kind = "connect", !.pc = "done", !.state = "pending"])
  <2> DEFINE y == [Blank EXCEPT !.kind = "connect", !.pc = "done", !.state = "pending"]
  <2>2. y \in CmdType
    BY BlankFields, Words DEF CmdType
  <2>3. /\ y.kind = "connect" /\ y.pc = "done" /\ y.task = "" /\ y.ret = "" /\ y.lock = FALSE
        /\ y.setup = FALSE /\ y.want = None /\ y.inst = None /\ y.ok = FALSE
        /\ y.state = "pending" /\ y.fp = None /\ y.plan = None
    BY DEF Blank
  <2> HIDE DEF y
  <2>4. Placed(y)
    BY <2>3 DEF Placed, Planned, Writing, Connecting, Asked
  <2>5. Permitted(y)
    BY <2>3 DEF Planned, Permitted, Writing
  <2>6. Backed(y, worker)
    BY <2>3 DEF Backed, Connecting, Planned
  <2>7. QED
    BY <2>2, <2>3, <2>4, <2>5, <2>6 DEF Sound, Good, Swapping, y
<1>4. QED
  BY <1>1, <1>2, <1>3, RefusedSound, AloneMoves DEF Confirm

(* The client's file may be written: the worker that was reviewed answered. *)
LEMMA PatchSound ==
    ASSUME CommandInv, NEW c \in Commands, cmd[c].pc \in {"fresh", "established", "returned"},
           cmd[c].kind = "connect", ClientRuntimeAction(c) = "Ready"
    PROVE  Sound(c, To(c, "patch"))
<1>1. /\ cmd[c] \in CmdType /\ Placed(cmd[c]) /\ Permitted(cmd[c])
      /\ Backed(cmd[c], worker)
  BY CommandAt
<1>2. Planned(cmd[c]) /\ cmd[c].plan \in PlanType
  BY <1>1 DEF Planned, Permitted
<1>3. cmd[c].state = "running" /\ cmd[c].fp = cmd[c].plan.desired
  BY DEF ClientRuntimeAction
<1>4. cmd[c].task # "init"
  BY <1>1, <1>3 DEF Placed, Backed
<1>5. QED
  <2> DEFINE y == To(c, "patch")
  <2>a. "patch" \in Places
    BY <1>1, Words, <1>2, <1>3, <1>4
  <2>2. y \in CmdType
    BY <1>1, <2>a, ToFields
  <2>3. /\ y.kind = cmd[c].kind /\ y.pc = "patch" /\ y.task = cmd[c].task /\ y.ret = cmd[c].ret
        /\ y.lock = FALSE /\ y.setup = cmd[c].setup /\ y.want = cmd[c].want
        /\ y.inst = cmd[c].inst /\ y.ok = cmd[c].ok /\ y.state = cmd[c].state
        /\ y.fp = cmd[c].fp /\ y.plan = cmd[c].plan
    BY <1>1, <2>a, ToFields
  <2> HIDE DEF y
  <2>4. Placed(y)
    BY <1>1, <1>2, <1>3, <1>4, <2>3 DEF Placed, Planned, Writing, Connecting, Asked
  <2>5. Permitted(y)
    BY <1>1, <1>2, <1>3, <1>4, <2>3 DEF Permitted, Planned, Writing
  <2>6. Backed(y, worker)
    BY <1>1, <1>2, <1>3, <1>4, <2>3 DEF Backed, Connecting, Planned
  <2>7. QED
    BY <2>2, <2>3, <2>4, <2>5, <2>6 DEF Sound, Good, Swapping, y

(* restart_expected or on_expected for the worker that was reviewed. *)
LEMMA ActivatingSound ==
    ASSUME CommandInv, NEW c \in Commands, cmd[c].pc = "fresh",
           ClientRuntimeAction(c) = cmd[c].plan.reviewed, ClientRuntimeAction(c) # "Ready"
    PROVE  Sound(c, Activating(c))
<1>1. cmd[c] \in CmdType /\ Permitted(cmd[c])
  BY CommandAt
<1>2. cmd[c].plan \in PlanType /\ Planned(cmd[c])
  BY ConnectAt DEF Connecting
<1> DEFINE k == IF cmd[c].state = "running" THEN "restart" ELSE "on"
           pl == cmd[c].plan
           d == cmd[c].plan.desired
<1>3. /\ k \in {"on", "restart"} /\ k \in Tasks
      /\ k = "restart" => pl.reviewed = "Restart"
  BY Words DEF ClientRuntimeAction
<1>4. /\ d \in Texts /\ d = pl.desired /\ pl \in PlanType
      /\ pl.action = "restart" => pl.mode = "SaveAndRestart"
  BY <1>1, <1>2 DEF PlanType, Texts, Permitted
<1>5. Activating(c) = [Blank EXCEPT !.kind = "connect", !.pc = "await", !.plan = pl,
                                    !.want = d, !.task = k]
  BY DEF Activating
<1> HIDE DEF k, d, pl
<1>6. Sound(c, [Blank EXCEPT !.kind = "connect", !.pc = "await", !.plan = pl, !.want = d,
                             !.task = k])
  <2> DEFINE y == [Blank EXCEPT !.kind = "connect", !.pc = "await", !.plan = pl, !.want = d,
                                !.task = k]
  <2>2. y \in CmdType
    BY BlankFields, Words, <1>3, <1>4 DEF CmdType
  <2>3. /\ y.kind = "connect" /\ y.pc = "await" /\ y.task = k /\ y.ret = "" /\ y.lock = FALSE
        /\ y.setup = FALSE /\ y.want = d /\ y.inst = None /\ y.ok = FALSE /\ y.state = ""
        /\ y.fp = None /\ y.plan = pl
    BY DEF Blank
  <2> HIDE DEF y
  <2>4. Placed(y)
    BY <2>3, <1>3, <1>4 DEF Placed, Planned, Writing, Connecting, Asked
  <2>5. Permitted(y)
    BY <2>3, <1>3, <1>4 DEF Planned, Permitted, Writing
  <2>6. Backed(y, worker)
    BY <2>3, <1>3, <1>4 DEF Backed, Connecting, Planned
  <2>7. QED
    BY <2>2, <2>3, <2>4, <2>5, <2>6 DEF Sound, Good, Swapping, y
<1>7. QED
  BY <1>5, <1>6

(* connect: what is to be done must be what was reviewed. *)
LEMMA FreshMoves ==
    ASSUME CommandInv, NEW c \in Commands, Fresh(c)
    PROVE  Moves(c) /\ StopsTold(c)
<1>1. cmd[c].pc = "fresh" /\ worker' = worker
  BY DEF Fresh, At
<1>2. /\ cmd[c] \in CmdType /\ Permitted(cmd[c]) /\ Planned(cmd[c])
      /\ cmd[c].kind = "connect" /\ cmd[c].plan \in PlanType
  BY <1>1, CommandAt, ConnectAt DEF Connecting
<1>3. Sound(c, [Asking(c, "") EXCEPT !.pc = "reviewed"])
  <2> DEFINE t == Asking(c, "")
             y == [t EXCEPT !.pc = "reviewed"]
  <2>w. "" \in Returns
    BY Words
  <2>1. /\ t \in CmdType
        /\ t.kind = cmd[c].kind /\ t.pc = "status" /\ t.task = "" /\ t.ret = ""
        /\ t.lock = FALSE /\ t.setup = cmd[c].setup /\ t.want = None /\ t.inst = None
        /\ t.ok = FALSE /\ t.state = "" /\ t.fp = None /\ t.plan = cmd[c].plan
    BY <1>2, <2>w, AskingFields, ZenonT(60)
  <2> HIDE DEF t
  <2>2. y \in CmdType
    BY <2>1, Words DEF CmdType
  <2>3. /\ y.kind = cmd[c].kind /\ y.pc = "reviewed" /\ y.task = "" /\ y.ret = ""
        /\ y.lock = FALSE /\ y.setup = cmd[c].setup /\ y.want = None /\ y.inst = None
        /\ y.ok = FALSE /\ y.state = "" /\ y.fp = None /\ y.plan = cmd[c].plan
    BY <2>1 DEF CmdType
  <2> HIDE DEF y
  <2>4. Placed(y)
    BY <1>2, <2>3 DEF Placed, Planned, Writing, Connecting, Asked
  <2>5. Permitted(y)
    BY <1>2, <2>3 DEF Permitted, Planned, Writing
  <2>6. Backed(y, worker)
    BY <2>3 DEF Backed
  <2>7. QED
    BY <2>2, <2>3, <2>4, <2>5, <2>6 DEF Sound, Good, Swapping, y, t
<1>4. ClientRuntimeAction(c) = "Ready" => Sound(c, To(c, "patch"))
  BY <1>1, <1>2, PatchSound
<1>5. ClientRuntimeAction(c) = cmd[c].plan.reviewed /\ ClientRuntimeAction(c) # "Ready" =>
        Sound(c, Activating(c))
  BY <1>1, ActivatingSound
<1>6. QED
  BY <1>1, <1>3, <1>4, <1>5, RefusedSound, AloneMoves DEF Fresh

(* connect: the worker that was brought up must answer. *)
LEMMA ReadyMoves ==
    ASSUME CommandInv, NEW c \in Commands, EstablishedAgain(c) \/ Activated(c)
    PROVE  Moves(c) /\ StopsTold(c)
<1>1. /\ cmd[c].pc \in {"established", "returned"} /\ cmd[c].kind = "connect" /\ worker' = worker
  <2>1. cmd[c].pc = "established" => cmd[c].kind = "connect"
    BY ConnectAt DEF Connecting
  <2>2. QED
    BY <2>1 DEF EstablishedAgain, Activated, At
<1>2. Ready(c) => Sound(c, To(c, "patch"))
  BY <1>1, PatchSound DEF Ready
<1>3. QED
  BY <1>1, <1>2, RefusedSound, AloneMoves DEF EstablishedAgain, Activated

(* connect: the client's file is patched. *)
LEMMA PatchMoves ==
    ASSUME CommandInv, NEW c \in Commands, Patch(c)
    PROVE  Moves(c) /\ StopsTold(c)
<1>1. /\ cmd[c] \in CmdType /\ Placed(cmd[c]) /\ Permitted(cmd[c])
      /\ Backed(cmd[c], worker)
  BY CommandAt
<1>2. cmd[c].pc = "patch" /\ worker' = worker
  BY DEF Patch, At
<1>3. cmd[c].plan \in PlanType
  BY <1>2, ConnectAt DEF Connecting
<1> DEFINE i == cmd[c].inst  f == cmd[c].fp  w == cmd[c].plan.desired
<1>4. /\ i \in Somebody /\ i \in Workers /\ f \in Texts /\ w \in Texts /\ w = f
      /\ worker[i].fp = f /\ worker[i].pc \in Serving \cup Dead
  BY <1>1, <1>2 DEF CmdType, Permitted, Backed
<1> HIDE DEF i, f, w
<1>5. Sound(c, [Blank EXCEPT !.kind = "connect", !.pc = "done", !.ok = TRUE,
                             !.state = "running", !.inst = i, !.fp = f, !.want = w])
  <2> DEFINE y == [Blank EXCEPT !.kind = "connect", !.pc = "done", !.ok = TRUE,
                                !.state = "running", !.inst = i, !.fp = f, !.want = w]
  <2>2. y \in CmdType
    BY BlankFields, Words, <1>4 DEF CmdType
  <2>3. /\ y.kind = "connect" /\ y.pc = "done" /\ y.task = "" /\ y.ret = "" /\ y.lock = FALSE
        /\ y.setup = FALSE /\ y.want = w /\ y.inst = i /\ y.ok = TRUE /\ y.state = "running"
        /\ y.fp = f /\ y.plan = None
    BY DEF Blank
  <2> HIDE DEF y
  <2>4. Placed(y)
    BY <2>3, <1>4 DEF Placed, Planned, Writing, Connecting, Asked
  <2>5. Permitted(y)
    BY <2>3, <1>4 DEF Planned, Permitted, Writing
  <2>6. Backed(y, worker)
    BY <2>3, <1>4 DEF Backed, Connecting, Planned
  <2>7. QED
    BY <2>2, <2>3, <2>4, <2>5, <2>6 DEF Sound, Good, Swapping, y
<1>6. QED
  BY <1>2, <1>5, RefusedSound, AloneMoves DEF Patch, i, f, w

(* Every step of connect moves its command soundly. *)
LEMMA ConnectMoves ==
    ASSUME CommandInv, NEW c \in Commands, ConnectStep(c)
    PROVE  Moves(c) /\ StopsTold(c)
BY ImpactMoves, PreviewMoves, ConfirmMoves, FreshMoves, ReadyMoves, PatchMoves DEF ConnectStep

-----------------------------------------------------------------------------
(* The workers. *)
LEMMA BecomesForward ==
    ASSUME CommandInv, NEW w \in Workers, NEW q \in {"idle"} \cup Loading \cup Holding \cup Dead,
           Becomes(w, q),
           worker[w].pc \in Serving \cup Dead => q \in Serving \cup Dead,
           worker[w].pc \in Dead \cup {"stopping"} => q \in Dead \cup {"stopping"},
           worker[w].pc \in Dead => q \in Dead
    PROVE  Forward /\ worker' \in [Workers -> WorkerType]
<1> DEFINE x == [worker[w] EXCEPT !.pc = q]
<1>1. worker \in [Workers -> WorkerType]
  BY DEF CommandInv, HostType
<1>2. x \in WorkerType /\ x.pc = q /\ x.fp = worker[w].fp
  BY <1>1 DEF WorkerType
<1>3. worker' = [worker EXCEPT ![w] = x]
  BY DEF Becomes
<1> HIDE DEF x
<1>4. /\ worker' \in [Workers -> WorkerType] /\ worker'[w] = x
      /\ \A v \in Workers \ {w} : worker'[v] = worker[v]
  BY <1>1, <1>2, <1>3
<1>5. QED
  BY <1>2, <1>4 DEF Forward

(* A worker takes its contents before it serves. *)
LEMMA LoadForward ==
    ASSUME CommandInv, NEW w \in Workers, Load(w)
    PROVE  Forward /\ worker' \in [Workers -> WorkerType]
<1>1. CASE Becomes(w, "failed")
  <2>1. "failed" \in Dead /\ worker[w].pc \notin Serving \cup Dead \cup {"stopping"}
    BY DEF Load, Serving, Dead
  <2>2. QED
    BY <1>1, <2>1, BecomesForward
<1>2. CASE config \in Contents /\ worker' = [worker EXCEPT ![w].pc = "loaded", ![w].fp = config]
  <2> DEFINE x == [worker[w] EXCEPT !.pc = "loaded", !.fp = config]
  <2>1. worker \in [Workers -> WorkerType] /\ worker[w].pc = "loading"
    BY DEF CommandInv, HostType, Load
  <2>2. x \in WorkerType /\ x.pc = "loaded"
    BY <1>2, <2>1 DEF WorkerType, Loading, Texts
  <2>3. worker' = [worker EXCEPT ![w] = x]
    BY <1>2, <2>1
  <2> HIDE DEF x
  <2>4. /\ worker' \in [Workers -> WorkerType] /\ worker'[w] = x
        /\ \A v \in Workers \ {w} : worker'[v] = worker[v]
    BY <2>1, <2>2, <2>3
  <2>5. QED
    BY <2>1, <2>4 DEF Forward, Serving, Dead
<1>3. QED
  BY <1>1, <1>2 DEF Load

(* Every step of a worker goes forward. *)
LEMMA WorkerForward ==
    ASSUME CommandInv, NEW w \in Workers, WorkerStep(w)
    PROVE  /\ Forward /\ worker' \in [Workers -> WorkerType]
           /\ cmd' = cmd /\ config' = config
           /\ record' \in {None} \cup [inst : Workers, state : {"running", "stopped", "failed"}]
<1>1. cmd' = cmd /\ config' = config
  BY Zenon DEF WorkerStep, Run, Load, Claim, WorkerProvision, Bind, Publish, Interrupt, Retire, Die,
     Files
<1>2. record' \in {None} \cup [inst : Workers, state : {"running", "stopped", "failed"}]
  <2>1. record \in {None} \cup [inst : Workers, state : {"running", "stopped", "failed"}]
    BY DEF CommandInv, HostType
  <2>2. \/ record' = record
        \/ \E s \in {"running", "stopped", "failed"} : record' = [inst |-> w, state |-> s]
    BY DEF WorkerStep, Run, Load, Claim, WorkerProvision, Bind, Publish, Interrupt, Retire, Die, Files
  <2>3. QED
    BY <2>1, <2>2
<1>3. ASSUME Load(w) PROVE Forward /\ worker' \in [Workers -> WorkerType]
  BY <1>3, LoadForward
<1>4. ASSUME NEW q \in {"loading", "locked", "fill", "ready", "bound", "failed", "port_in_use"},
             Becomes(w, q), worker[w].pc \in {"idle", "loaded", "locked", "fill", "ready"}
      PROVE  Forward /\ worker' \in [Workers -> WorkerType]
  <2>1. q \in Loading \cup Holding \cup Dead /\ worker[w].pc \notin Serving \cup Dead \cup {"stopping"}
    BY <1>4 DEF Loading, Holding, Serving, Dead
  <2>2. QED
    BY <1>4, <2>1, BecomesForward
<1>5. ASSUME NEW q \in {"serving", "stopping", "ended", "failed"}, Becomes(w, q),
             worker[w].pc \in {"bound", "serving", "stopping"},
             worker[w].pc = "stopping" => q \in {"ended", "failed"}
      PROVE  Forward /\ worker' \in [Workers -> WorkerType]
  <2>1. /\ q \in Holding \cup Dead /\ q \in Serving \cup Dead /\ worker[w].pc \notin Dead
        /\ worker[w].pc = "stopping" => q \in Dead
    BY <1>5 DEF Holding, Serving, Dead
  <2>2. QED
    BY <1>5, <2>1, BecomesForward
<1>6. ASSUME Die(w) PROVE Forward /\ worker' \in [Workers -> WorkerType]
  <2>1. "failed" \in Dead /\ worker[w].pc \notin Dead /\ Becomes(w, "failed")
    BY <1>6 DEF Die, Dead, Loading, Holding
  <2>2. QED
    BY <2>1, BecomesForward
<1>7. ASSUME Run(w) \/ Claim(w) \/ WorkerProvision(w) \/ Bind(w)
      PROVE  Forward /\ worker' \in [Workers -> WorkerType]
  <2>1. /\ worker[w].pc \in {"idle", "loaded", "locked", "fill", "ready"}
        /\ \E q \in {"loading", "locked", "fill", "ready", "bound", "failed", "port_in_use"} :
             Becomes(w, q)
    BY <1>7 DEF Run, Claim, WorkerProvision, Bind
  <2>2. QED
    BY <1>4, <2>1
<1>8. ASSUME Publish(w) \/ Interrupt(w) \/ Retire(w)
      PROVE  Forward /\ worker' \in [Workers -> WorkerType]
  <2>1. /\ worker[w].pc \in {"bound", "serving", "stopping"}
        /\ \E q \in {"serving", "stopping", "ended", "failed"} :
             Becomes(w, q) /\ (worker[w].pc = "stopping" => q \in {"ended", "failed"})
    BY <1>8 DEF Publish, Interrupt, Retire
  <2>2. QED
    BY <1>5, <2>1
<1>9. QED
  BY <1>1, <1>2, <1>3, <1>6, <1>7, <1>8 DEF WorkerStep

(* While the commands stand still. *)
LEMMA StillKeeps ==
    ASSUME CommandInv, cmd' = cmd, Forward, worker' \in [Workers -> WorkerType],
           config' \in Contents \cup {Broken, Absent}, pending' \in Texts, client' \in ClientType,
           record' \in {None} \cup [inst : Workers, state : {"running", "stopped", "failed"}]
    PROVE  CommandInv'
<1>1. ASSUME NEW c \in Commands PROVE Good(cmd[c], worker')
  <2>1. cmd[c] \in CmdType /\ Placed(cmd[c]) /\ Permitted(cmd[c]) /\ Backed(cmd[c], worker)
    BY CommandAt
  <2>2. QED
    BY <2>1, BackedForward DEF Good
<1>2. HostType'
  BY DEF CommandInv, HostType
<1>3. QED
  BY <1>1, <1>2 DEF CommandInv

-----------------------------------------------------------------------------
(* The copies a replacement can be undone with. *)
Recovered ==
    /\ config # Absent /\ config' = Absent =>
         \E c \in Commands : copies'[c].original = config /\ copies'[c].replacement # None
    /\ \A c \in Commands :
         copies[c] # NoCopies /\ copies'[c] # copies[c] => config # Absent

(* A missing config is neither one that loads nor a broken one. *)
LEMMA Distinct == Absent \notin Contents /\ None \notin Contents /\ Broken # Absent
<1>1. Absent \notin Contents /\ None \notin Contents
  BY LifecycleAssumption
<1>2. ASSUME Broken = Absent PROVE FALSE
  <2>1. Cardinality({Broken, Absent, None}) = 3
    BY LifecycleAssumption
  <2>2. {Broken, Absent, None} = {Absent} \cup {None}
    BY <1>2
  <2>3. IsFiniteSet({None}) /\ Cardinality({None}) = 1
    BY FS_Singleton
  <2>4. {Absent} \cup {None} = {None} \cup {Absent}
    OBVIOUS
  <2>5. Cardinality({None} \cup {Absent}) \in {1, 2}
    BY <2>3, FS_AddElement
  <2>6. QED
    BY <2>1, <2>2, <2>4, <2>5
<1>3. QED
  BY <1>1, <1>2

(* A command that is not swapping the config goes on. *)
LEMMA CopyFrame ==
    ASSUME CommandInv, CopyInv, NEW c \in Commands, NEW y \in CmdType,
           cmd' = [cmd EXCEPT ![c] = y], y.pc \notin Swapping, copies' = copies,
           config # Absent => config' # Absent
    PROVE  CopyInv' /\ Recovered
<1>1. cmd'[c] = y /\ \A d \in Commands \ {c} : cmd'[d] = cmd[d]
  BY DEF CommandInv, HostType
<1>2. "replace" \in Swapping
  BY DEF Swapping
<1>3. CopyInv'
  BY <1>1, <1>2 DEF CopyInv
<1>4. QED
  BY <1>3 DEF Recovered

(* The copies stay while no command moves. *)
LEMMA CopyStill ==
    ASSUME CommandInv, CopyInv, cmd' = cmd, copies' = copies, config # Absent => config' # Absent
    PROVE  CopyInv' /\ Recovered
BY DEF CopyInv, Recovered

(* Only a command that writes can begin to swap. *)
LEMMA MovesCopy ==
    ASSUME CommandInv, CopyInv, NEW c \in Commands, Moves(c), cmd[c].pc \notin Writing,
           copies' = copies, config' = config
    PROVE  CopyInv' /\ Recovered
BY CopyFrame DEF Moves

(* The one who writes is alone with the copies. *)
LEMMA WriterAlone ==
    ASSUME CommandInv, NEW c \in Commands, cmd[c].pc \in Writing
    PROVE  /\ cmd[c] \in CmdType /\ cmd[c].plan \in PlanType
           /\ \A d \in Commands \ {c} : cmd[d].pc \notin Writing
<1>1. \A d \in Commands : cmd[d].pc \in Writing => cmd[d].setup
  BY CommandAt DEF Placed
<1>2. cmd[c] \in CmdType /\ cmd[c].plan \in PlanType
  BY CommandAt DEF Placed, Permitted
<1>3. QED
  BY <1>1, <1>2 DEF CommandInv

(* The copies change and the command goes on at p; nobody else swaps. *)
LEMMA SwapFrame ==
    ASSUME CommandInv, CopyInv, NEW c \in Commands, cmd[c].pc \in Writing,
           NEW p \in {"pending", "replace", "replaced", "verified"}, Goto(c, To(c, p)),
           NEW x \in [original : Contents \cup {Broken, Absent, None}, replacement : Texts],
           copies' = [copies EXCEPT ![c] = x],
           p = "replace" => x.original = cmd[c].plan.orig /\ x.replacement = cmd[c].plan.desired,
           config' # Absent, config # Absent \/ x = copies[c]
    PROVE  CopyInv' /\ Recovered
<1>1. /\ cmd[c] \in CmdType /\ cmd[c].plan \in PlanType
      /\ \A d \in Commands \ {c} : cmd[d].pc \notin Writing
  BY WriterAlone
<1> DEFINE y == To(c, p)
<1>3. y.pc = p /\ y.plan = cmd[c].plan
  BY <1>1 DEF To, CmdType
<1>2. cmd' = [cmd EXCEPT ![c] = y]
  BY DEF Goto
<1> HIDE DEF y
<1>4. cmd'[c] = y /\ \A d \in Commands \ {c} : cmd'[d] = cmd[d]
  BY <1>2 DEF CommandInv, HostType
<1>5. /\ copies' \in [Commands -> [original : Contents \cup {Broken, Absent, None}, replacement : Texts]]
      /\ copies'[c] = x /\ \A d \in Commands \ {c} : copies'[d] = copies[d]
  BY DEF CopyInv
<1>6. CopyInv'
  BY <1>1, <1>3, <1>4, <1>5 DEF CopyInv, Swapping, Writing
<1>7. Recovered
  BY <1>5 DEF Recovered
<1>8. QED
  BY <1>6, <1>7

(* The writer ends; its copies may go if the config is there. *)
LEMMA RefusedCopy ==
    ASSUME CommandInv, CopyInv, NEW c \in Commands, cmd[c].pc \in Writing, Goto(c, Refused(c)),
           NEW x \in [original : Contents \cup {Broken, Absent, None}, replacement : Texts],
           copies' = [copies EXCEPT ![c] = x], config # Absent \/ x = copies[c],
           \/ config' = config
           \/ config # Absent /\ x.original = config /\ x.replacement # None
    PROVE  CopyInv' /\ Recovered
<1>1. \A d \in Commands \ {c} : cmd[d].pc \notin Writing
  BY WriterAlone
<1> DEFINE y == Refused(c)
<1>2. y.pc = "done" /\ cmd' = [cmd EXCEPT ![c] = y]
  BY DEF Goto, Refused, Blank
<1> HIDE DEF y
<1>3. cmd'[c] = y /\ \A d \in Commands \ {c} : cmd'[d] = cmd[d]
  BY <1>2 DEF CommandInv, HostType
<1>4. /\ copies' \in [Commands -> [original : Contents \cup {Broken, Absent, None}, replacement : Texts]]
      /\ copies'[c] = x /\ \A d \in Commands \ {c} : copies'[d] = copies[d]
  BY DEF CopyInv
<1>5. CopyInv'
  BY <1>1, <1>2, <1>3, <1>4 DEF CopyInv, Swapping, Writing
<1>6. Recovered
  BY <1>4 DEF Recovered
<1>7. QED
  BY <1>5, <1>6

(* write_protected_file: both copies are made before the swap. *)
LEMMA WriteConfigCopy ==
    ASSUME CommandInv, CopyInv, NEW c \in Commands, WriteConfig(c)
    PROVE  CopyInv' /\ Recovered /\ config' \in Contents \cup {Broken, Absent}
<1>1. cmd[c].pc = "write" /\ cmd[c].pc \in Writing
  BY DEF WriteConfig, At, Writing
<1>2. /\ cmd[c].plan \in PlanType /\ config \in Contents \cup {Broken, Absent}
      /\ copies[c] \in [original : Contents \cup {Broken, Absent, None}, replacement : Texts]
      /\ copies = [copies EXCEPT ![c] = copies[c]]
  BY <1>1, WriterAlone, CommandAt DEF CopyInv
<1>3. /\ cmd[c].plan.orig \in Contents \cup {Broken, Absent} /\ cmd[c].plan.desired \in Contents
      /\ cmd[c].plan.desired \in Texts /\ cmd[c].plan.desired # Absent
  BY <1>2, Distinct DEF PlanType, Texts
<1>4. CASE Goto(c, Refused(c)) /\ config' = config /\ copies' = copies
  BY <1>1, <1>2, <1>4, RefusedCopy
<1>5. CASE /\ Goto(c, To(c, "pending")) /\ copies' = copies
           /\ \/ config' = config
              \/ config' = cmd[c].plan.desired
  <2>1. config # Absent => config' # Absent
    BY <1>3, <1>5
  <2> DEFINE y == To(c, "pending")
  <2>2. cmd[c] \in CmdType
    BY CommandAt
  <2>3. "pending" \in Places
    BY Words
  <2>4. y \in CmdType
    BY <2>2, <2>3, ToFields
  <2>5. y.pc \notin Swapping
    BY <2>2 DEF To, CmdType, Swapping
  <2>6. cmd' = [cmd EXCEPT ![c] = y]
    BY <1>5 DEF Goto
  <2> HIDE DEF y
  <2>7. CopyInv' /\ Recovered
    BY <1>5, <2>1, <2>4, <2>5, <2>6, CopyFrame
  <2>8. QED
    BY <1>2, <1>3, <1>5, <2>7
<1>6. CASE /\ config # Absent /\ config' = config /\ Goto(c, To(c, "replace"))
           /\ copies' = [copies EXCEPT ![c] = [original |-> cmd[c].plan.orig,
                                               replacement |-> cmd[c].plan.desired]]
  <2> DEFINE o == cmd[c].plan.orig
             d == cmd[c].plan.desired
             x == [original |-> o, replacement |-> d]
  <2>1. o \in Contents \cup {Broken, Absent, None} /\ d \in Texts
    BY <1>3
  <2>2. x \in [original : Contents \cup {Broken, Absent, None}, replacement : Texts]
        /\ x.original = cmd[c].plan.orig /\ x.replacement = cmd[c].plan.desired
    BY <2>1
  <2>3. copies' = [copies EXCEPT ![c] = x]
    BY <1>6
  <2> HIDE DEF x
  <2>4. QED
    BY <1>1, <1>2, <1>6, <2>2, <2>3, SwapFrame
<1>7. QED
  BY <1>4, <1>5, <1>6 DEF WriteConfig

(* replace_existing_with_recovery: a failed swap keeps both copies. *)
LEMMA ReplaceCopy ==
    ASSUME CommandInv, CopyInv, NEW c \in Commands, Replace(c)
    PROVE  CopyInv' /\ Recovered /\ config' \in Contents \cup {Broken, Absent}
<1>1. cmd[c].pc = "replace" /\ cmd[c].pc \in Writing /\ cmd[c].pc \in Swapping
  BY DEF Replace, At, Writing, Swapping
<1>2. /\ cmd[c].plan \in PlanType /\ config \in Contents \cup {Broken, Absent}
      /\ copies[c] \in [original : Contents \cup {Broken, Absent, None}, replacement : Texts]
      /\ copies = [copies EXCEPT ![c] = copies[c]] /\ config # Absent
      /\ copies[c].original = cmd[c].plan.orig /\ copies[c].replacement = cmd[c].plan.desired
  BY <1>1, WriterAlone, CommandAt DEF CopyInv
<1>3. cmd[c].plan.desired \in Contents /\ cmd[c].plan.desired # Absent /\ cmd[c].plan.desired # None
  BY <1>2, Distinct DEF PlanType
<1>4. CASE /\ Goto(c, Refused(c)) /\ config' = config
           /\ copies' = [copies EXCEPT ![c] = NoCopies]
  <2>1. NoCopies \in [original : Contents \cup {Broken, Absent, None}, replacement : Texts]
    BY DEF NoCopies, Texts
  <2>2. QED
    BY <1>1, <1>2, <1>4, <2>1, RefusedCopy
<1>5. CASE Goto(c, To(c, "replaced")) /\ config' = cmd[c].plan.desired /\ copies' = copies
  BY <1>1, <1>2, <1>3, <1>5, SwapFrame
<1>6. CASE /\ config = cmd[c].plan.orig /\ config' \in {config, Absent}
           /\ Goto(c, Refused(c)) /\ copies' = copies
  BY <1>1, <1>2, <1>3, <1>6, RefusedCopy
<1>7. QED
  BY <1>4, <1>5, <1>6 DEF Replace, KeptCopies

(* The copies go only after the config was compared again. *)
LEMMA ReplacedCopy ==
    ASSUME CommandInv, CopyInv, NEW c \in Commands, Replaced(c) \/ Cleaned(c)
    PROVE  CopyInv' /\ Recovered /\ config' = config
<1>1. cmd[c].pc \in Writing /\ cmd[c].pc \in Swapping /\ config' = config
  BY DEF Replaced, Cleaned, At, Writing, Swapping, Files
<1>2. /\ copies[c] \in [original : Contents \cup {Broken, Absent, None}, replacement : Texts]
      /\ copies = [copies EXCEPT ![c] = copies[c]] /\ config # Absent
  BY <1>1 DEF CopyInv
<1>3. CASE Goto(c, Refused(c)) /\ copies' = copies
  BY <1>1, <1>2, <1>3, RefusedCopy
<1>4. CASE Goto(c, To(c, "verified")) /\ copies' = [copies EXCEPT ![c].replacement = None]
  <2> DEFINE x == [copies[c] EXCEPT !.replacement = None]
  <2>1. x \in [original : Contents \cup {Broken, Absent, None}, replacement : Texts]
    BY <1>2 DEF Texts
  <2>2. copies' = [copies EXCEPT ![c] = x]
    BY <1>4 DEF CopyInv
  <2> HIDE DEF x
  <2>3. QED
    BY <1>1, <1>2, <1>4, <2>1, <2>2, SwapFrame
<1>5. CASE Goto(c, To(c, "pending")) /\ copies' = [copies EXCEPT ![c] = NoCopies]
  <2>1. NoCopies \in [original : Contents \cup {Broken, Absent, None}, replacement : Texts]
    BY DEF NoCopies, Texts
  <2>2. QED
    BY <1>1, <1>2, <1>5, <2>1, SwapFrame
<1>6. QED
  BY <1>3, <1>4, <1>5 DEF Replaced, Cleaned

(* A command that ends, or goes on to make the protected state. *)
LEMMA EndCopy ==
    ASSUME CommandInv, CopyInv, NEW c \in Commands, WritePending(c) \/ Kill(c)
    PROVE  CopyInv' /\ Recovered /\ config' = config
<1>1. copies' = copies /\ config' = config
  BY DEF WritePending, Kill, setupVars, Files
<1>2. cmd[c] \in CmdType
  BY CommandAt
<1>3. Sound(c, Refused(c)) /\ Refused(c).pc = "done"
  BY RefusedSound DEF Refused, Blank
<1>4. CASE Goto(c, Refused(c))
  <2> DEFINE y == Refused(c)
  <2>1. y \in CmdType /\ y.pc \notin Swapping /\ cmd' = [cmd EXCEPT ![c] = y]
    BY <1>3, <1>4 DEF Sound, Goto, Swapping
  <2> HIDE DEF y
  <2>2. QED
    BY <1>1, <2>1, CopyFrame
<1>5. CASE WritePending(c)
           /\ Goto(c, [To(c, "await") EXCEPT !.task = "init", !.want = cmd[c].plan.desired])
  <2> DEFINE y == [To(c, "await") EXCEPT !.task = "init", !.want = cmd[c].plan.desired]
  <2>1. cmd[c].pc = "pending"
    BY <1>5 DEF WritePending, At
  <2>2. cmd[c].plan \in PlanType
    BY <2>1, WriterAlone DEF Writing
  <2>3. cmd[c].plan.desired \in Texts
    BY <2>2 DEF PlanType, Texts
  <2>4. "await" \in Places /\ "init" \in Tasks
    BY Words
  <2>5. To(c, "await") \in CmdType /\ To(c, "await").pc = "await"
    BY <1>2, <2>4 DEF To, CmdType
  <2>6. y \in CmdType /\ y.pc = "await"
    BY <2>3, <2>4, <2>5 DEF CmdType
  <2>7. cmd' = [cmd EXCEPT ![c] = y]
    BY <1>5 DEF Goto
  <2> HIDE DEF y
  <2>8. y.pc \notin Swapping
    BY <2>6 DEF Swapping
  <2>9. QED
    BY <1>1, <2>6, <2>7, <2>8, CopyFrame
<1>6. QED
  BY <1>1, <1>4, <1>5 DEF WritePending, Kill, Refused

-----------------------------------------------------------------------------
(* Every step of the machine. *)
Stops ==
    \A c \in Commands, w \in Workers :
      /\ cmd'[c] # cmd[c]
      /\ worker[w].pc # "stopping" /\ worker'[w].pc = "stopping"
      => /\ cmd[c].inst = w
         /\ cmd[c].plan # None =>
              cmd[c].plan.mode = "SaveAndRestart" \/ cmd[c].plan.reviewed = "Restart"

Patches ==
    \A c \in Commands :
      cmd'[c] # cmd[c] /\ client' # client =>
        /\ cmd[c].inst # None
        /\ worker[cmd[c].inst].fp = cmd[c].plan.desired
        /\ worker[cmd[c].inst].pc \in Serving \cup Dead
        /\ client = cmd[c].plan.client

CommandKeeps == CommandInv' /\ CopyInv' /\ Recovered /\ Stops /\ Patches

(* Who tells a worker to stop was allowed to restart it. *)
LEMMA StopsFrame ==
    ASSUME CommandInv, NEW c \in Commands, Moves(c), StopsTold(c)
    PROVE  Stops
<1>1. \A d \in Commands \ {c} : cmd'[d] = cmd[d]
  BY DEF Moves, CommandInv, HostType
<1>2. cmd[c].pc = "tell" /\ cmd[c].plan # None =>
        cmd[c].plan.mode = "SaveAndRestart" \/ cmd[c].plan.reviewed = "Restart"
  <2> SUFFICES ASSUME cmd[c].pc = "tell", cmd[c].plan # None
               PROVE  cmd[c].plan.mode = "SaveAndRestart" \/ cmd[c].plan.reviewed = "Restart"
    OBVIOUS
  <2>1. Planned(cmd[c])
    BY CommandAt DEF Permitted
  <2>2. cmd[c].task = "restart"
    BY <2>1, CommandAt DEF Placed, Planned
  <2>3. QED
    BY <2>1, <2>2, CommandAt DEF Permitted
<1>3. QED
  BY <1>1, <1>2 DEF Stops, StopsTold

(* A command moves and leaves the config and the client alone. *)
LEMMA PlainKeeps ==
    ASSUME CommandInv, CopyInv, NEW c \in Commands, Moves(c), StopsTold(c),
           cmd[c].pc \notin Writing, UNCHANGED <<config, record, pending, copies, client>>
    PROVE  CommandKeeps
<1>1. CommandInv'
  BY CommandAt, CommandFrame
<1>2. CopyInv' /\ Recovered
  BY MovesCopy
<1>3. Stops
  BY StopsFrame
<1>4. Patches
  BY DEF Patches
<1>5. QED
  BY <1>1, <1>2, <1>3, <1>4 DEF CommandKeeps

(* A step of a lifecycle function keeps everything. *)
LEMMA LifecycleKeeps ==
    ASSUME CommandInv, CopyInv, NEW c \in Commands, LifecycleStep(c),
           UNCHANGED <<setupVars, connectVars>>
    PROVE  CommandKeeps
<1>1. cmd[c].pc \notin Writing
  BY DEF LifecycleStep, Operation, Probe, ProbedFree, Ask, Unanswered, Start, StartFree,
         Provision, Fill, Wait, Reload, Stop, Stopped, Verify, Tell, Gone, Initialise, At, Writing
<1>2. config' = config /\ record' = record
  BY Zenon DEF LifecycleStep, Operation, Probe, ProbedFree, Ask, Unanswered, Start, StartFree,
         Provision, Fill, Wait, Reload, Stop, Stopped, Verify, Tell, Gone, Initialise, Files
<1>3. pending' = pending /\ copies' = copies /\ client' = client
  BY DEF setupVars, connectVars
<1>4. QED
  BY <1>1, <1>2, <1>3, LifecycleMoves, PlainKeeps

(* So does the start of a command. *)
LEMMA BeginKeeps ==
    ASSUME CommandInv, CopyInv, NEW c \in Commands, NEW kind \in {"status", "on", "off", "restart"},
           Begin(c, kind), UNCHANGED <<setupVars, connectVars>>
    PROVE  CommandKeeps
<1>1. cmd[c].pc \notin Writing /\ UNCHANGED <<config, record, pending, copies, client>>
  BY DEF Begin, Writing, Files, setupVars, connectVars
<1>2. QED
  BY <1>1, BeginMoves, PlainKeeps

(* So does the review of a draft. *)
LEMMA ReviewKeeps ==
    ASSUME CommandInv, CopyInv, NEW c \in Commands, NEW mode \in Modes,
           Review(c, mode), UNCHANGED connectVars
    PROVE  CommandKeeps
<1>1. cmd[c].pc \notin Writing /\ UNCHANGED <<config, record, pending, copies, client>>
  BY DEF Review, Writing, Files, setupVars, connectVars
<1>2. QED
  BY <1>1, ReviewMoves, PlainKeeps

(* So does a step of setup. *)
LEMMA SetupKeeps ==
    ASSUME CommandInv, CopyInv, NEW c \in Commands, SetupStep(c), UNCHANGED connectVars
    PROVE  CommandKeeps
<1>1. client' = client /\ Patches
  BY DEF connectVars, Patches
<1>2. Moves(c) /\ StopsTold(c) /\ Stops
  BY SetupMoves, StopsFrame
<1>3. record' = record
  BY Zenon DEF SetupStep, Apply, Inspected, WriteConfig, Replace, Replaced, Cleaned, WritePending,
     Returned, Kill, Files
<1>4. CASE Apply(c) \/ Inspected(c) \/ Returned(c)
  <2>1. cmd[c].pc \notin Writing /\ UNCHANGED <<config, record, pending, copies, client>>
    BY <1>1, <1>4 DEF Apply, Inspected, Returned, At, Writing, Files, setupVars
  <2>2. QED
    BY <1>2, <2>1, PlainKeeps
<1>5. CASE ~ (Apply(c) \/ Inspected(c) \/ Returned(c))
  <2>1. CopyInv' /\ Recovered /\ config' \in Contents \cup {Broken, Absent}
    <3>1. config \in Contents \cup {Broken, Absent}
      BY CommandAt
    <3>2. QED
      BY <1>5, <3>1, WriteConfigCopy, ReplaceCopy, ReplacedCopy, EndCopy DEF SetupStep
  <2>2. pending' \in Texts
    <3>1. pending \in Texts
      BY CommandAt
    <3>2. ASSUME WritePending(c) PROVE pending' \in Texts
      <4>1. cmd[c].pc \in Writing
        BY <3>2 DEF WritePending, At, Writing
      <4>2. cmd[c].plan.desired \in Texts
        BY <4>1, WriterAlone DEF PlanType, Texts
      <4>3. QED
        BY <3>1, <3>2, <4>2 DEF WritePending
    <3>3. ASSUME ~ WritePending(c) PROVE pending' = pending
      BY <1>5, <3>3 DEF SetupStep, WriteConfig, Replace, Replaced, Cleaned, Kill, setupVars
    <3>4. QED
      BY <3>1, <3>2, <3>3
  <2>3. client' \in ClientType
    BY <1>1, CommandAt
  <2>4. CommandInv'
    BY <1>2, <1>3, <2>1, <2>2, <2>3, CommandFrame
  <2>5. QED
    BY <1>1, <1>2, <2>1, <2>4 DEF CommandKeeps
<1>6. QED
  BY <1>4, <1>5

(* The patch is written while a worker on the reviewed config is known to have answered. *)
LEMMA PatchKeeps ==
    ASSUME CommandInv, CopyInv, NEW c \in Commands, Patch(c)
    PROVE  CommandKeeps
<1>1. /\ cmd[c].pc = "patch" /\ cmd[c].pc \notin Writing
      /\ UNCHANGED <<config, record, pending, copies>>
  BY DEF Patch, At, Writing, Files, setupVars
<1>2. cmd[c].plan \in PlanType
  BY <1>1, ConnectAt DEF Connecting
<1>3. Moves(c) /\ StopsTold(c)
  BY PatchMoves DEF Patch
<1> DEFINE d == cmd[c].plan.desired
<1>4. d \in Texts
  BY <1>2 DEF PlanType, Texts
<1>5. client \in ClientType
  BY CommandAt
<1>6. client' \in {client, Patched(d)} /\ (client' # client => client = cmd[c].plan.client)
  BY DEF Patch, Unchanged
<1> HIDE DEF d
<1>7. Patched(d) \in ClientType
  BY <1>4 DEF Patched, ClientType
<1>8. CommandInv'
  <2>1. client' \in ClientType
    BY <1>5, <1>6, <1>7
  <2>2. config' \in Contents \cup {Broken, Absent} /\ pending' \in Texts /\ record' = record
    BY <1>1, CommandAt
  <2>3. QED
    BY <1>3, <2>1, <2>2, CommandFrame
<1>9. CopyInv' /\ Recovered
  BY <1>1, <1>3, MovesCopy
<1>10. Stops
  BY <1>3, StopsFrame
<1>11. Patches
  <2>1. \A e \in Commands \ {c} : cmd'[e] = cmd[e]
    BY <1>3 DEF Moves, CommandInv, HostType
  <2>2. /\ cmd[c].inst # None /\ worker[cmd[c].inst].fp = cmd[c].plan.desired
        /\ worker[cmd[c].inst].pc \in Serving \cup Dead
    BY <1>1, CommandAt, LifecycleAssumption DEF Permitted, Backed
  <2>3. QED
    BY <1>6, <2>1, <2>2 DEF Patches
<1>12. QED
  BY <1>8, <1>9, <1>10, <1>11 DEF CommandKeeps

(* So does a step of connect. *)
LEMMA ConnectKeeps ==
    ASSUME CommandInv, CopyInv, NEW c \in Commands, ConnectPlan(c) \/ ConnectStep(c)
    PROVE  CommandKeeps
<1>1. CASE Patch(c)
  BY <1>1, PatchKeeps
<1>2. CASE ~ Patch(c)
  <2>1. cmd[c].pc \notin Writing
    BY <1>2 DEF ConnectPlan, ConnectStep, Impact, Preview, Confirm, Fresh, EstablishedAgain,
       Activated, At, Writing
  <2>2. UNCHANGED <<config, record, pending, copies, client>>
    BY <1>2, Zenon DEF ConnectPlan, ConnectStep, Impact, Preview, Confirm, Fresh, EstablishedAgain,
       Activated, Files, setupVars, connectVars
  <2>3. Moves(c) /\ StopsTold(c)
    BY ConnectPlanMoves, ConnectMoves
  <2>4. QED
    BY <2>1, <2>2, <2>3, PlainKeeps
<1>3. QED
  BY <1>1, <1>2

(* The commands stand still: a worker, a user or a registration moves. *)
LEMMA StillCommands ==
    ASSUME CommandInv, CopyInv, cmd' = cmd, copies' = copies, Forward,
           worker' \in [Workers -> WorkerType],
           config' \in Contents \cup {Broken, Absent}, config # Absent => config' # Absent,
           pending' \in Texts, client' \in ClientType,
           record' \in {None} \cup [inst : Workers, state : {"running", "stopped", "failed"}]
    PROVE  CommandKeeps
<1>1. CommandInv'
  BY StillKeeps
<1>2. CopyInv' /\ Recovered
  BY CopyStill
<1>3. Stops /\ Patches
  BY DEF Stops, Patches
<1>4. QED
  BY <1>1, <1>2, <1>3 DEF CommandKeeps

(* A change of the registration leaves the commands alone. *)
LEMMA ElsewhereCommands ==
    ASSUME CommandInv, CopyInv, UNCHANGED <<config, record, cmd, worker, pending, copies, client>>
    PROVE  CommandKeeps
<1>1. Forward
  BY DEF Forward
<1>2. /\ worker' \in [Workers -> WorkerType] /\ config' \in Contents \cup {Broken, Absent}
      /\ pending' \in Texts /\ client' \in ClientType
      /\ record' \in {None} \cup [inst : Workers, state : {"running", "stopped", "failed"}]
  BY DEF CommandInv, HostType
<1>3. QED
  BY <1>1, <1>2, StillCommands

(* The autostart command. *)
LEMMA AutostartKeeps ==
    ASSUME CommandInv, CopyInv, NEW c \in Commands, AutostartCommand(c)
    PROVE  CommandKeeps
<1>1. Sound(c, [Blank EXCEPT !.kind = "autostart", !.pc = "done"])
  <2> DEFINE y == [Blank EXCEPT !.kind = "autostart", !.pc = "done"]
  <2>2. y \in CmdType
    BY BlankFields, Words DEF CmdType
  <2>3. /\ y.kind = "autostart" /\ y.pc = "done" /\ y.task = "" /\ y.ret = "" /\ y.lock = FALSE
        /\ y.setup = FALSE /\ y.want = None /\ y.inst = None /\ y.ok = FALSE /\ y.state = ""
        /\ y.fp = None /\ y.plan = None
    BY DEF Blank
  <2> HIDE DEF y
  <2>4. Placed(y)
    BY <2>3 DEF Placed, Planned, Writing, Connecting, Asked
  <2>5. Permitted(y)
    BY <2>3 DEF Planned, Permitted, Writing
  <2>6. Backed(y, worker)
    BY <2>3 DEF Backed, Connecting, Planned
  <2>7. QED
    BY <2>2, <2>3, <2>4, <2>5, <2>6 DEF Sound, Good, Swapping, y
<1>2. worker' = worker /\ Goto(c, [Blank EXCEPT !.kind = "autostart", !.pc = "done"])
  BY DEF AutostartCommand
<1>3. Moves(c) /\ StopsTold(c)
  BY <1>1, <1>2, AloneMoves
<1>4. cmd[c].pc \notin Writing
  BY DEF AutostartCommand, Writing
<1>5. UNCHANGED <<config, record, pending, copies, client>>
  BY DEF AutostartCommand, Files, setupVars, connectVars
<1>6. QED
  BY <1>3, <1>4, <1>5, PlainKeeps

(* A worker's step. *)
LEMMA WorkerKeeps ==
    ASSUME CommandInv, CopyInv, NEW w \in Workers, WorkerStep(w), UNCHANGED <<setupVars, connectVars>>
    PROVE  CommandKeeps
<1>1. pending' = pending /\ copies' = copies /\ client' = client
  BY DEF setupVars, connectVars
<1>2. pending \in Texts /\ client \in ClientType /\ config \in Contents \cup {Broken, Absent}
  BY DEF CommandInv, HostType
<1>3. QED
  BY <1>1, <1>2, WorkerForward, StillCommands

(* A user edits the config, the metadata or the client's file. *)
LEMMA EditKeeps ==
    ASSUME CommandInv, CopyInv,
           \/ Edit /\ UNCHANGED connectVars
           \/ EditClient
    PROVE  CommandKeeps
<1>1. /\ worker \in [Workers -> WorkerType] /\ config \in Contents \cup {Broken, Absent}
      /\ pending \in Texts /\ client \in ClientType
      /\ record \in {None} \cup [inst : Workers, state : {"running", "stopped", "failed"}]
  BY DEF CommandInv, HostType
<1>2. /\ cmd' = cmd /\ worker' = worker /\ copies' = copies /\ record' = record
      /\ config' = config \/ config' \in Contents \cup {Broken}
      /\ pending' \in {pending, None} /\ client' \in {client, Edited}
  BY DEF Edit, EditClient, Files, setupVars, connectVars
<1>3. Edited \in ClientType /\ None \in Texts
  BY DEF Edited, ClientType, Texts
<1>4. Forward
  BY <1>2 DEF Forward
<1>5. config # Absent => config' # Absent
  BY <1>2, Distinct
<1>6. QED
  BY <1>1, <1>2, <1>3, <1>4, <1>5, StillCommands

(* Every step of the machine keeps the commands and the copies. *)
LEMMA CommandNext ==
    ASSUME CommandInv, CopyInv, [Next]_vars
    PROVE  CommandKeeps
<1>1. CASE UNCHANGED vars
  BY <1>1, ElsewhereCommands DEF vars, lifecycleVars, setupVars, connectVars
<1>2. ASSUME NEW c \in Commands, NEW kind \in tried \cap {"status", "on", "off", "restart"},
             Begin(c, kind), UNCHANGED <<setupVars, connectVars, autostartVars, tried>>
      PROVE  CommandKeeps
  BY <1>2, BeginKeeps
<1>3. ASSUME NEW c \in Commands,
             \/ LifecycleStep(c) /\ UNCHANGED <<setupVars, connectVars, autostartVars, tried>>
             \/ SetupStep(c) /\ UNCHANGED <<connectVars, autostartVars, tried>>
             \/ ConnectPlan(c) \/ ConnectStep(c) \/ AutostartCommand(c)
      PROVE  CommandKeeps
  BY <1>3, LifecycleKeeps, SetupKeeps, ConnectKeeps, AutostartKeeps
<1>4. ASSUME NEW c \in Commands, NEW mode \in Modes \cap tried, Review(c, mode),
             UNCHANGED <<connectVars, autostartVars, tried>>
      PROVE  CommandKeeps
  BY <1>4, ReviewKeeps
<1>5. ASSUME UNCHANGED <<Files, cmd, worker, setupVars, connectVars>> PROVE CommandKeeps
  BY <1>5, ElsewhereCommands DEF Files, setupVars, connectVars
<1>6. ASSUME NEW w \in Workers, WorkerStep(w),
             UNCHANGED <<setupVars, connectVars, autostartVars, tried>>
      PROVE  CommandKeeps
  BY <1>6, WorkerKeeps
<1>7. ASSUME \/ Edit /\ UNCHANGED <<connectVars, autostartVars, tried>>
             \/ EditClient
      PROVE  CommandKeeps
  BY <1>7, EditKeeps
<1>8. ASSUME NEW c \in Commands, SetupAutostart(c) PROVE CommandKeeps
  <2>1. UNCHANGED <<Files, cmd, worker, setupVars, connectVars>>
    BY <1>8 DEF SetupAutostart
  <2>2. QED
    BY <1>5, <2>1
<1>9. CASE Next
  BY <1>2, <1>3, <1>4, <1>5, <1>6, <1>7, <1>8, <1>9 DEF Next
<1>10. QED
  BY <1>1, <1>9

(* Nothing runs at first but perhaps one worker. *)
LEMMA CommandStart == Init => CommandInv /\ CopyInv
<1> SUFFICES ASSUME Init PROVE CommandInv /\ CopyInv
  OBVIOUS
<1>1. /\ cmd = [c \in Commands |-> Blank] /\ pending = None /\ client = Untouched
      /\ copies = [c \in Commands |-> NoCopies]
  BY DEF Init, LifecycleInit, SetupInit, ConnectInit
<1> DEFINE idle == [pc |-> "idle", want |-> None, fp |-> None]
<1>2. idle \in WorkerType
  BY DEF WorkerType, Texts
<1>3. \A v \in Contents : [pc |-> "serving", want |-> v, fp |-> v] \in WorkerType
  BY DEF WorkerType, Texts, Holding
<1>4. worker \in [Workers -> WorkerType]
  <2>1. \/ worker = [w \in Workers |-> idle]
        \/ \E w \in Workers, v \in Contents :
             worker = [x \in Workers |-> IF x = w THEN [pc |-> "serving", want |-> v, fp |-> v]
                                        ELSE idle]
    BY DEF Init, LifecycleInit
  <2> HIDE DEF idle
  <2>2. QED
    BY <1>2, <1>3, <2>1
<1>5. /\ config \in Contents \cup {Broken, Absent}
      /\ record \in {None} \cup [inst : Workers, state : {"running", "stopped", "failed"}]
  BY DEF Init, LifecycleInit
<1>6. Untouched \in ClientType /\ None \in Texts
  BY DEF Untouched, ClientType, Texts
<1>7. NoCopies \in [original : Contents \cup {Broken, Absent, None}, replacement : Texts]
  BY DEF NoCopies, Texts
<1> DEFINE y == Blank
<1>8. /\ y \in CmdType
      /\ y.kind = None /\ y.pc = "idle" /\ y.task = "" /\ y.ret = "" /\ y.lock = FALSE
      /\ y.setup = FALSE /\ y.want = None /\ y.inst = None /\ y.ok = FALSE /\ y.state = ""
      /\ y.fp = None /\ y.plan = None
  BY BlankFields
<1>9. \A c \in Commands : cmd[c] = y
  BY <1>1
<1> HIDE DEF y
<1>10. Good(y, worker)
  <2>1. ~ Planned(y)
    BY <1>8 DEF Planned
  <2>2. Placed(y)
    BY <1>8 DEF Placed, Writing, Connecting, Asked
  <2>3. Permitted(y)
    BY <1>8, <2>1 DEF Permitted
  <2>4. Backed(y, worker)
    BY <1>8 DEF Backed
  <2>5. QED
    BY <2>2, <2>3, <2>4 DEF Good
<1>11. HostType
  BY <1>1, <1>4, <1>5, <1>6, <1>8 DEF HostType, y
<1>12. CommandInv
  BY <1>8, <1>9, <1>10, <1>11 DEF CommandInv
<1>13. CopyInv
  BY <1>1, <1>7, <1>8, <1>9 DEF CopyInv, Swapping
<1>14. QED
  BY <1>12, <1>13

-----------------------------------------------------------------------------
(* All that the commands, the copies of the config and the registration    *)
(* keep, in every state of the machine.                                    *)
THEOREM HostInvariant == Spec => []HostInv
<1>1. Init => HostInv
  BY CommandStart, RegistrationStart DEF HostInv
<1>2. HostInv /\ [Next]_vars => HostInv'
  BY CommandNext, RegistrationNext DEF HostInv, CommandKeeps
<1>3. QED
  BY <1>1, <1>2, PTL DEF Spec

(* What a command reports is true of the worker it names, whatever other   *)
(* commands, edits, crashes and workers came in between (lifecycle         *)
(* on_inner, start, stop; setup apply; cli connect).                       *)
THEOREM HostAnswersTrue == Spec => []AnswersTrue
<1>1. HostInv => AnswersTrue
  <2> SUFFICES ASSUME HostInv, NEW c \in Commands
               PROVE  /\ Done(c, {"on", "restart", "setup", "connect"}) /\ cmd[c].state = "running" =>
                           /\ worker[cmd[c].inst].fp = cmd[c].fp
                           /\ worker[cmd[c].inst].pc \in Serving \cup Dead
                           /\ cmd[c].want \in {None, cmd[c].fp}
                      /\ Done(c, {"off"}) /\ cmd[c].inst # None =>
                           worker[cmd[c].inst].pc \in Dead
    BY DEF AnswersTrue
  <2>1. Backed(cmd[c], worker)
    BY CommandAt DEF HostInv
  <2>2. QED
    BY <2>1 DEF Backed, Done
<1>2. QED
  BY <1>1, HostInvariant, PTL

(* A command only stops the worker whose identity it verified, and setup   *)
(* and connect only one whose restart they showed (lifecycle stop;         *)
(* control::handle; setup lifecycle_action; cli connect).                  *)
THEOREM HostStopsOnlyVerified == Spec => StopsOnlyVerified
<1>1. HostInv /\ [Next]_vars =>
        [\A c \in Commands, w \in Workers :
           /\ cmd'[c] # cmd[c]
           /\ worker[w].pc # "stopping" /\ worker'[w].pc = "stopping"
           => /\ cmd[c].inst = w
              /\ cmd[c].plan # None =>
                   cmd[c].plan.mode = "SaveAndRestart" \/ cmd[c].plan.reviewed = "Restart"]_vars
  BY CommandNext DEF HostInv, CommandKeeps, Stops
<1>2. QED
  BY <1>1, HostInvariant, PTL DEF Spec, StopsOnlyVerified

(* A client is pointed at the gateway only after a worker on the reviewed  *)
(* config has answered this command, and only if its file is that of the   *)
(* preview (cli connect; clients apply_reviewed).                          *)
THEOREM HostPatchedWhenReady == Spec => PatchedWhenReady
<1>1. HostInv /\ [Next]_vars =>
        [\A c \in Commands :
           cmd'[c] # cmd[c] /\ client' # client =>
             /\ cmd[c].inst # None
             /\ worker[cmd[c].inst].fp = cmd[c].plan.desired
             /\ worker[cmd[c].inst].pc \in Serving \cup Dead
             /\ client = cmd[c].plan.client]_vars
  BY CommandNext DEF HostInv, CommandKeeps, Patches
<1>2. QED
  BY <1>1, HostInvariant, PTL DEF Spec, PatchedWhenReady

(* A config that a failed replacement removed can be put back from the two *)
(* copies, and a registration file that an install moved aside is at its   *)
(* place or in its backup (file_replace.rs; autostart install).            *)
THEOREM HostRecoveryKept == Spec => RecoveryKept
<1>1. HostInv /\ [Next]_vars =>
        [/\ config # Absent /\ config' = Absent =>
              \E c \in Commands : copies'[c].original = config /\ copies'[c].replacement # None
         /\ \A c \in Commands :
              copies[c] # NoCopies /\ copies'[c] # copies[c] => config # Absent
         /\ \A c \in Commands :
              change[c].backup # None /\ change'[c].backup = None =>
                target' = change[c].backup \/ change'[c].pc = "ok"]_vars
  BY CommandNext, RegistrationNext DEF HostInv, CommandKeeps, Recovered, Kept
<1>2. QED
  BY <1>1, HostInvariant, PTL DEF Spec, RecoveryKept

=============================================================================
