------------------------------ MODULE Connect ------------------------------
(***************************************************************************)
(* cli connect: give a client's file the gateway's address.  The preview   *)
(* is made from the config, the client's file and the running worker; once *)
(* it is confirmed all three are looked at again, the config is applied if *)
(* the client needs a new route, a worker is brought up on it, and only    *)
(* then the client's file is patched.                                      *)
(*                                                                         *)
(* The client's file is what users made of it or the patch for a config;   *)
(* the steps of the patch itself, with their journal, are in ConfigPatch,  *)
(* whose check of the expected file is kept here.                          *)
(***************************************************************************)
EXTENDS Setup

VARIABLE client    \* the client's config file

connectVars == <<client>>

Untouched == [by |-> "before", fp |-> None]
Edited == [by |-> "user", fp |-> None]
Patched(v) == [by |-> "gateway", fp |-> v]

(* connect up to its preview.  ensure_client_route leaves the config as it *)
(* is or adds a route to it; prepare takes the snapshot of the client.     *)
ConnectPlan(c) ==
    /\ cmd[c].pc = "idle"
    /\ config \in Contents
    /\ \E desired \in Contents :
         Goto(c, [Blank EXCEPT !.kind = "connect", !.pc = "status", !.ret = "impact",
                               !.plan = [Plan(config, pending, desired, "SaveAndStart")
                                           EXCEPT !.client = client]])
    /\ UNCHANGED <<Files, worker, events, setupVars, connectVars>>

(* save_and_start_mode of the impact, which the preview shows.             *)
Impact(c) ==
    /\ At(c, "impact")
    /\ Goto(c, [Asking(c, "preview") EXCEPT !.plan.mode =
                   IF RuntimeImpact(c) = "RestartRequired" THEN "SaveAndRestart" ELSE @])
    /\ UNCHANGED <<Files, worker, events, setupVars, connectVars>>

ClientRuntimeAction(c) ==
    CASE cmd[c].state = "running" ->
           IF cmd[c].fp = cmd[c].plan.desired THEN "Ready" ELSE "Restart"
      [] cmd[c].state = "stopped" -> "Start"
      [] OTHER -> "Blocked"

Preview(c) ==
    /\ At(c, "preview")
    /\ Goto(c, IF cmd[c].state = "error" THEN Refused(c)
               ELSE [cmd[c] EXCEPT !.pc = "confirm", !.plan.reviewed = ClientRuntimeAction(c),
                                   !.ret = "", !.state = "", !.fp = None, !.inst = None])
    /\ UNCHANGED <<Files, worker, events, setupVars, connectVars>>

(* The user confirms the preview's hash or stops here; the client's file   *)
(* must still be the one of the preview.                                   *)
Confirm(c) ==
    /\ At(c, "confirm")
    /\ \/ Goto(c, IF client = cmd[c].plan.client THEN Asking(c, "fresh") ELSE Refused(c))
       \/ Goto(c, [Blank EXCEPT !.kind = "connect", !.pc = "done", !.state = "pending"])
    /\ UNCHANGED <<Files, worker, events, setupVars, connectVars>>

-----------------------------------------------------------------------------
(* What is to be done is what was reviewed, else it ends.  Without         *)
(* --restart a config to apply or a worker to bring up end it too.         *)
Activating(c) ==
    [Blank EXCEPT !.kind = "connect", !.pc = "await", !.plan = cmd[c].plan,
                  !.want = cmd[c].plan.desired,
                  !.task = IF cmd[c].state = "running" THEN "restart" ELSE "on"]

Fresh(c) ==
    /\ At(c, "fresh")
    /\ LET action == ClientRuntimeAction(c)
       IN \/ /\ \/ cmd[c].state = "error" \/ action # cmd[c].plan.reviewed
                \/ action = "Blocked"
             /\ Goto(c, Refused(c))
          \/ /\ cmd[c].state # "error" /\ action = cmd[c].plan.reviewed
             /\ action # "Blocked"
             /\ \/ /\ cmd[c].plan.desired # cmd[c].plan.orig
                   /\ Goto(c, [Asking(c, "") EXCEPT !.pc = "reviewed"])
                \/ /\ cmd[c].plan.desired = cmd[c].plan.orig /\ action = "Ready"
                   /\ Goto(c, To(c, "patch"))
                \/ /\ cmd[c].plan.desired = cmd[c].plan.orig /\ action # "Ready"
                   /\ Goto(c, Activating(c))
                \/ /\ cmd[c].plan.desired # cmd[c].plan.orig \/ action # "Ready"
                   /\ Goto(c, Refused(c))
    /\ UNCHANGED <<Files, worker, events, setupVars, connectVars>>

(* After the apply: the worker it brought up must still answer.            *)
(* Fault: any worker that runs will do. *)
RunningAtAll(c) == cmd[c].state = "running"

Ready(c) == ClientRuntimeAction(c) = "Ready"

EstablishedAgain(c) ==
    /\ At(c, "established")
    /\ Goto(c, IF Ready(c) THEN To(c, "patch") ELSE Refused(c))
    /\ UNCHANGED <<Files, worker, events, setupVars, connectVars>>

(* restart_expected or on_expected returned.                               *)
Activated(c) ==
    /\ At(c, "returned") /\ cmd[c].kind = "connect" /\ ~ cmd[c].setup
    /\ Goto(c, IF cmd[c].ok /\ Ready(c) THEN To(c, "patch") ELSE Refused(c))
    /\ UNCHANGED <<Files, worker, events, setupVars, connectVars>>

(* apply_reviewed.                                                         *)
Unchanged(c) == client = cmd[c].plan.client

Patch(c) ==
    /\ At(c, "patch")
    /\ \/ /\ ~ Unchanged(c)
          /\ Goto(c, Refused(c)) /\ UNCHANGED <<client, events>>
       \/ /\ Unchanged(c)
          /\ client' = Patched(cmd[c].plan.desired)
          /\ Goto(c, [Blank EXCEPT !.kind = "connect", !.pc = "done", !.ok = TRUE,
                                   !.state = "running", !.inst = cmd[c].inst, !.fp = cmd[c].fp,
                                   !.want = cmd[c].plan.desired])
          /\ UNCHANGED events
       \/ /\ Unchanged(c) /\ Spend
          /\ client' \in {client, Patched(cmd[c].plan.desired)}
          /\ Goto(c, Refused(c))
    /\ UNCHANGED <<Files, worker, setupVars>>

(* A user edits the client's file.                                         *)
EditClient ==
    /\ client # Edited /\ Spend
    /\ client' = Edited
    /\ UNCHANGED <<Files, cmd, worker, setupVars>>

ConnectStep(c) ==
    \/ Impact(c) \/ Preview(c) \/ Confirm(c) \/ Fresh(c) \/ EstablishedAgain(c)
    \/ Activated(c) \/ Patch(c)

ConnectInit == client = Untouched

=============================================================================
