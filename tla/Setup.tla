------------------------------- MODULE Setup -------------------------------
(***************************************************************************)
(* setup/persist.rs: the apply of a reviewed draft.  Under setup.lock it   *)
(* compares the config and the pending metadata with what was reviewed,    *)
(* looks at the running worker, writes both files, makes the protected     *)
(* state and starts or restarts the worker on what it wrote.               *)
(*                                                                         *)
(* The compare before a rename and the rename are one step: of another     *)
(* editor in that instant the code claims nothing.  On Windows an existing *)
(* config is replaced as in file_replace.rs, step by step, because         *)
(* ReplaceFileW may fail half way; the metadata, written by the same       *)
(* function, appears at once.                                              *)
(***************************************************************************)
EXTENDS Lifecycle

(* ApplyMode *)
Modes == {"SaveOnly", "SaveAndStart", "SaveAndRestart"}

VARIABLES
    pending,   \* the setup pending metadata, named by the config it came with
    copies     \* each command's private copies: the original and the replacement

setupVars == <<pending, copies>>

(* The draft: from_loaded's snapshots, and what the user decided on; and,  *)
(* of a connect, the client's file and the runtime action at its preview.  *)
Plan(orig, pend, desired, mode) ==
    [orig |-> orig, pend |-> pend, desired |-> desired, mode |-> mode, action |-> "none",
     client |-> None, reviewed |-> "none"]

NoCopies == [original |-> None, replacement |-> None]

Refused(c) == [Blank EXCEPT !.kind = cmd[c].kind, !.pc = "done", !.state = "failed"]

(* Ask status and go on at ret.                                            *)
Asking(c, ret) == [Blank EXCEPT !.kind = cmd[c].kind, !.pc = "status", !.ret = ret,
                                !.setup = cmd[c].setup, !.plan = cmd[c].plan]

(* The apply's result; connect asks for the status again.                  *)
Applied(c, state) ==
    IF cmd[c].kind = "connect"
      THEN [Asking(c, "established") EXCEPT !.setup = FALSE]
      ELSE [Blank EXCEPT !.kind = "setup", !.pc = "done", !.ok = TRUE, !.state = state,
                         !.inst = cmd[c].inst, !.fp = cmd[c].fp, !.want = cmd[c].want]

Review(c, mode) ==
    /\ cmd[c].pc = "idle"
    /\ config # Broken
    /\ \E desired \in Contents :
         Goto(c, [Blank EXCEPT !.kind = "setup", !.pc = "reviewed",
                               !.plan = Plan(config, pending, desired, mode)])
    /\ UNCHANGED <<Files, worker, events, setupVars>>

SetupLockFree == \A c \in Commands : ~ cmd[c].setup

(* verify_snapshot *)
Unreviewed(c) == config # cmd[c].plan.orig \/ pending # cmd[c].plan.pend

Apply(c) ==
    /\ At(c, "reviewed")
    /\ Goto(c, IF ~ SetupLockFree \/ Unreviewed(c) THEN Refused(c)
               ELSE IF config = Absent
                 THEN [cmd[c] EXCEPT !.pc = "write", !.setup = TRUE, !.plan.action = "on"]
               ELSE [Asking(c, "inspected") EXCEPT !.setup = TRUE])
    /\ UNCHANGED <<Files, worker, events, setupVars>>

(* inspect_runtime and lifecycle_action: a worker that cannot be verified, *)
(* or whose restart was not reviewed, ends the apply before any write.     *)
RuntimeImpact(c) ==
    CASE cmd[c].state = "stopped" -> "Stopped"
      [] cmd[c].state = "running" ->
           IF cmd[c].fp = cmd[c].plan.desired THEN "Matching" ELSE "RestartRequired"
      [] OTHER -> "Unverified"

LifecycleAction(mode, impact) ==
    IF mode = "SaveOnly" THEN "SaveOnly"
    ELSE CASE impact = "Unverified" -> "refuse"
           [] impact = "RestartRequired" -> IF mode = "SaveAndRestart" THEN "restart" ELSE "refuse"
           [] OTHER -> "on"

Inspected(c) ==
    /\ At(c, "inspected")
    /\ LET action == LifecycleAction(cmd[c].plan.mode, RuntimeImpact(c))
       IN Goto(c, IF action = "refuse" THEN Refused(c)
                  ELSE [cmd[c] EXCEPT !.pc = "write", !.plan.action = action,
                                      !.state = "", !.fp = None, !.inst = None])
    /\ UNCHANGED <<Files, worker, events, setupVars>>

-----------------------------------------------------------------------------
(* write_protected_file for the config.  A file that appeared, changed or  *)
(* went since the review ends it; the same bytes are not written again; a  *)
(* new file is linked into place and never replaces one.                   *)
WriteConfig(c) ==
    /\ At(c, "write")
    /\ \/ /\ config # cmd[c].plan.orig
          /\ Goto(c, Refused(c)) /\ UNCHANGED <<config, copies, events>>
       \/ /\ config = cmd[c].plan.orig /\ config = cmd[c].plan.desired
          /\ Goto(c, To(c, "pending")) /\ UNCHANGED <<config, copies, events>>
       \/ /\ config = cmd[c].plan.orig /\ config # cmd[c].plan.desired
          /\ \/ /\ system = "windows" /\ config # Absent
                /\ copies' = [copies EXCEPT ![c] = [original |-> cmd[c].plan.orig,
                                                    replacement |-> cmd[c].plan.desired]]
                /\ Goto(c, To(c, "replace")) /\ UNCHANGED <<config, events>>
             \/ /\ system # "windows" \/ config = Absent
                /\ config' = cmd[c].plan.desired
                /\ Goto(c, To(c, "pending")) /\ UNCHANGED <<copies, events>>
             \/ /\ Spend
                /\ Goto(c, Refused(c)) /\ UNCHANGED <<config, copies>>
    /\ UNCHANGED <<system, record, token, worker, pending>>

(* replace_existing_with_recovery, once both copies are written: all three *)
(* files are compared again; a replacement that fails or is not what was   *)
(* meant keeps both copies.                                                *)
(* Fault: a failed replacement cleans up after itself. *)
ForgottenCopies(c) == [copies EXCEPT ![c] = NoCopies]

KeptCopies(c) == copies

Replace(c) ==
    /\ At(c, "replace")
    /\ \/ /\ config # cmd[c].plan.orig
          /\ copies' = [copies EXCEPT ![c] = NoCopies]
          /\ Goto(c, Refused(c)) /\ UNCHANGED <<config, events>>
       \/ /\ config = cmd[c].plan.orig
          /\ config' = cmd[c].plan.desired
          /\ Goto(c, To(c, "replaced")) /\ UNCHANGED <<copies, events>>
       \/ /\ config = cmd[c].plan.orig
          /\ Spend
          /\ config' \in {config, Absent}
          /\ Goto(c, Refused(c)) /\ copies' = KeptCopies(c)
    /\ UNCHANGED <<system, record, token, worker, pending>>

Replaced(c) ==
    /\ At(c, "replaced")
    /\ \/ /\ config # cmd[c].plan.desired
          /\ Goto(c, Refused(c)) /\ UNCHANGED <<copies, events>>
       \/ /\ config = cmd[c].plan.desired
          /\ copies' = [copies EXCEPT ![c].replacement = None]
          /\ Goto(c, To(c, "verified")) /\ UNCHANGED events
       \/ Spend /\ Goto(c, Refused(c)) /\ UNCHANGED copies
    /\ UNCHANGED <<Files, worker, pending>>

Cleaned(c) ==
    /\ At(c, "verified")
    /\ \/ copies' = [copies EXCEPT ![c] = NoCopies] /\ Goto(c, To(c, "pending"))
          /\ UNCHANGED events
       \/ Spend /\ Goto(c, Refused(c)) /\ UNCHANGED copies
    /\ UNCHANGED <<Files, worker, pending>>

WritePending(c) ==
    /\ At(c, "pending")
    /\ \/ /\ pending # cmd[c].plan.pend
          /\ Goto(c, Refused(c)) /\ UNCHANGED <<pending, events>>
       \/ /\ pending = cmd[c].plan.pend
          /\ pending' = cmd[c].plan.desired
          /\ Goto(c, [To(c, "await") EXCEPT !.task = "init", !.want = cmd[c].plan.desired])
          /\ UNCHANGED events
       \/ Spend /\ Goto(c, Refused(c)) /\ UNCHANGED pending
    /\ UNCHANGED <<Files, worker, copies>>

-----------------------------------------------------------------------------
(* initialize_setup_state, then on_expected or restart_expected, returned; *)
(* what they say must be a worker running on the config that was written.  *)
(* Fault: any running worker will do. *)
AnyRunning(c) == cmd[c].ok /\ cmd[c].state = "running"

Established(c) ==
    cmd[c].ok /\ cmd[c].state = "running" /\ cmd[c].fp = cmd[c].plan.desired

Returned(c) ==
    /\ At(c, "returned") /\ cmd[c].setup
    /\ Goto(c, IF ~ cmd[c].ok THEN Refused(c)
               ELSE IF cmd[c].task = "init" /\ cmd[c].plan.mode = "SaveOnly"
                 THEN Applied(c, "not_started")
               ELSE IF cmd[c].task = "init"
                 THEN [cmd[c] EXCEPT !.pc = "await", !.task = cmd[c].plan.action, !.ok = FALSE]
               ELSE IF Established(c) THEN Applied(c, "running")
               ELSE Refused(c))
    /\ UNCHANGED <<Files, worker, events, setupVars>>

-----------------------------------------------------------------------------
(* A user saves the config with an editor, or removes the metadata.        *)
Edit ==
    /\ Spend
    /\ \/ /\ config # Absent
          /\ config' \in (Contents \cup {Broken}) \ {config}
          /\ UNCHANGED pending
       \/ pending # None /\ pending' = None /\ UNCHANGED config
    /\ UNCHANGED <<system, record, token, cmd, worker, copies>>

(* A command is killed: its locks go with it, its files stay.              *)
Kill(c) ==
    /\ cmd[c].pc \notin {"idle", "done"}
    /\ Spend
    /\ Goto(c, [Blank EXCEPT !.kind = cmd[c].kind, !.pc = "done", !.state = "failed"])
    /\ UNCHANGED <<Files, worker, setupVars>>

SetupStep(c) ==
    \/ Apply(c) \/ Inspected(c) \/ WriteConfig(c) \/ Replace(c) \/ Replaced(c)
    \/ Cleaned(c) \/ WritePending(c) \/ Returned(c) \/ Kill(c)

SetupInit ==
    /\ pending = None
    /\ copies = [c \in Commands |-> NoCopies]

=============================================================================
