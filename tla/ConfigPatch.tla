---------------------------- MODULE ConfigPatch ----------------------------
(***************************************************************************)
(* config_patch/: reviewed, journalled edits of client files, and their    *)
(* restore.  A transaction sets or removes some keys of some files.  The   *)
(* journal is saved before a file is touched, so that restore can tell the *)
(* values that were written from those a user gave.                        *)
(*                                                                         *)
(* One command at a time works on a journal (its lock), and one journal at *)
(* a time on a file (the adjacent lock); both are tried, never waited for. *)
(* Users and other programs edit files at any time, the command may be     *)
(* killed at any time, and any save or replacement may fail.  Replacing a  *)
(* file is atomic and so is the identity check just before it: against     *)
(* other editors the code claims no more.                                  *)
(*                                                                         *)
(* A file is absent or gives each key a value, perhaps none; equal hashes  *)
(* are equal contents.  Formatting, permissions and paths are left out.    *)
(***************************************************************************)
EXTENDS Integers, FiniteSets, Functions

CONSTANTS
    Journals, Files, Keys,
    UserValues,     \* values users give
    Gateway,        \* Gateway[j]: values transactions of journal j write
    Original,       \* the files' first contents
    NoValue, Absent, NoHash, NoJournal,
    MaxApplies, MaxCrashes, MaxEdits     \* bounds

(* A document that parses gives each key a value, perhaps none. *)
Values == UserValues \cup {NoValue} \cup UNION {Gateway[j] : j \in Journals}
Contents == [Keys -> Values]

(* The journals, as journal j may record them.  The hashes it keeps are of *)
(* values, and of whole files, that its own transactions wrote.            *)
Own(j) == Gateway[j] \cup {NoValue}

KeyRecords(j) ==
    [before : Values, written : Own(j) \cup {NoHash}, pending : Own(j) \cup {NoHash},
     stage : {"owned", "conflict", "restored"}]

ResourceRecords(j) ==
    [keys : UNION {[K -> KeyRecords(j)] : K \in SUBSET Keys}, created : BOOLEAN,
     created_hash : [Keys -> Own(j)] \cup {NoHash},
     pending_created_hash : [Keys -> Own(j)] \cup {NoHash},
     stage : {"unstarted", "backed_up", "written", "verified", "restore_conflict",
              "restored", "preserved", "failed"}]

Documents(j) ==
    [status : {"applying", "partial", "applied", "restoring", "restore_partial",
               "restore_conflicts", "restored", "failed"},
     resources : UNION {[S -> ResourceRecords(j)] : S \in SUBSET Files}]

(* Journals write values of their own, which no file holds at first; an    *)
(* absent file, a missing hash and a missing journal are none of the       *)
(* contents, hashes and journals there are.                                *)
ASSUME PatchAssumption ==
    /\ Gateway \in [Journals -> SUBSET UNION {Gateway[j] : j \in Journals}]
    /\ \A j \in Journals : Gateway[j] \cap (UserValues \cup {NoValue}) = {}
    /\ \A i, j \in Journals : i # j => Gateway[i] \cap Gateway[j] = {}
    /\ Original \in [Files -> [Keys -> UserValues \cup {NoValue}] \cup {Absent}]
    /\ Absent \notin Contents \cup {NoHash}
    /\ NoHash \notin Values \cup Contents
    /\ \A j \in Journals : NoJournal \notin Documents(j)
    /\ MaxApplies \in Nat /\ MaxCrashes \in Nat /\ MaxEdits \in Nat

VARIABLES
    file,    \* the client files
    disk,    \* the journals on disk
    op,      \* the command working on each journal
    lock,    \* the journal whose command holds each file's lock
    spent    \* how much of the bounds is used up

vars == <<file, disk, op, lock, spent>>

-----------------------------------------------------------------------------
(* ResourceRecord.  has_owned_state is keys # {}: owned keys, backups and  *)
(* written hashes are recorded together.  before is the key's value in its *)
(* before-image; written and pending stand for the hashes of values; a     *)
(* key's stage is owned, conflict or restored.                             *)
NewKey(before, v) ==
    [before |-> before, written |-> NoHash, pending |-> v, stage |-> "owned"]

NoKeys == [k \in {} |-> NoHash]

NewRecord(content) ==
    [keys |-> NoKeys, created |-> content = Absent, created_hash |-> NoHash,
     pending_created_hash |-> NoHash, stage |-> "unstarted"]

HasOwned(r) == DOMAIN r.keys # {}

NewDocument == [status |-> "applying", resources |-> [f \in {} |-> NoHash]]

Idle == [phase |-> "idle"]

(* A command knows the files it has yet to work on, the one it is at, and  *)
(* its journal in memory.  Requirements on owned keys, which only refuse   *)
(* commands, are left out.                                                 *)
Applying(expected, edits, doc) ==
    [phase |-> "applying", expected |-> expected, edits |-> edits, doc |-> doc,
     todo |-> DOMAIN expected, at |-> NoJournal, applied |-> FALSE]

Restoring(doc) ==
    [phase |-> "restoring", doc |-> doc, kept |-> FALSE, at |-> NoJournal,
     todo |-> {f \in DOMAIN doc.resources : HasOwned(doc.resources[f])},
     settled |-> NoHash, candidate |-> NoHash]

ValueAt(content, k) == IF content = Absent THEN NoValue ELSE content[k]

(* document::render_edits *)
RenderEdits(content, edits) ==
    [k \in Keys |-> IF k \in DOMAIN edits THEN edits[k] ELSE ValueAt(content, k)]

Init ==
    /\ file = Original
    /\ disk = [j \in Journals |-> NoJournal]
    /\ op = [j \in Journals |-> Idle]
    /\ lock = [f \in Files |-> NoJournal]
    /\ spent = [applies |-> 0, crashes |-> 0, edits |-> 0]

-----------------------------------------------------------------------------
(* lock_resource, try_lock *)
Locked(f) == lock[f] # NoJournal

(* Replace a file that is still the one expected, or put a new one where   *)
(* none is.                                                                *)
AtomicWriteClient(f, expected, content) ==
    /\ file[f] = expected
    /\ file' = [file EXCEPT ![f] = content]

(* Ends of a command.  An error releases the file's lock and records the   *)
(* stage reached, unless that save fails too.                              *)
Unlock(j) == [f \in Files |-> IF lock[f] = j THEN NoJournal ELSE lock[f]]

GiveUp(j) ==
    /\ op' = [op EXCEPT ![j] = Idle]
    /\ lock' = Unlock(j)
    /\ UNCHANGED spent

StopWith(j, f, doc, status) ==
    /\ GiveUp(j)
    /\ \/ UNCHANGED disk
       \/ disk' = [disk EXCEPT ![j] =
                      [doc EXCEPT !.status = status, !.resources[f].stage = "failed"]]

ApplyFails(j, f, doc) == StopWith(j, f, doc, IF op[j].applied THEN "partial" ELSE "failed")

RestoreFails(j, f, doc) == StopWith(j, f, doc, "restore_partial")

(* write_private_state_atomic: a save that succeeds.  One that published   *)
(* the journal and then failed is a save followed by a crash.              *)
Save(j, doc, next) ==
    /\ disk' = [disk EXCEPT ![j] = doc]
    /\ op' = [op EXCEPT ![j] = next]

-----------------------------------------------------------------------------
(* apply up to its loop: the reviewed transaction is checked against the   *)
(* files as they are, otherwise nothing happens.  A journal that was       *)
(* restored starts afresh, any other is continued.                         *)
(* Fault: only a journal whose apply was completed is continued. *)
ContinuedApplied(j) ==
    IF disk[j] # NoJournal /\ disk[j].status = "applied" THEN disk[j] ELSE NewDocument

Continued(j) ==
    IF disk[j] = NoJournal \/ disk[j].status = "restored" THEN NewDocument ELSE disk[j]

(* plan_reviewed_targets *)
Planned(j, expected) ==
    LET doc == Continued(j)
    IN  [status |-> "applying",
         resources |-> [f \in DOMAIN doc.resources \cup DOMAIN expected |->
             IF f \in DOMAIN doc.resources THEN doc.resources[f]
             ELSE NewRecord(expected[f])]]

(* preview: the transactions whose hash can match, those made from the     *)
(* files as they are.                                                      *)
Previewed(j) ==
    {[expected |-> Restrict(file, S), edits |-> [k \in K |-> v]] :
        S \in SUBSET Files \ {{}}, K \in SUBSET Keys \ {{}}, v \in Gateway[j] \cup {NoValue}}

BeginApply(j) ==
    /\ op[j] = Idle
    /\ spent.applies < MaxApplies
    /\ \E t \in Previewed(j) :
          LET doc == Planned(j, t.expected)
          IN  Save(j, doc, Applying(t.expected, t.edits, doc))
    /\ spent' = [spent EXCEPT !.applies = @ + 1]
    /\ UNCHANGED <<file, lock>>

(* apply_one up to its first save. *)
StillOwned(r, before) ==
    \/ r.created_hash = NoHash /\ r.pending_created_hash = NoHash
    \/ before \in {r.created_hash, r.pending_created_hash}

(* Fault: a created file is taken for wholly owned after a user edited it. *)
StillCreated(r, before) == r

Downgraded(r, before) ==
    IF r.created /\ ~StillOwned(r, before)
    THEN [r EXCEPT !.created = FALSE, !.created_hash = NoHash,
                   !.pending_created_hash = NoHash]
    ELSE r

BaseRecord(r, before) ==
    IF HasOwned(r) THEN Downgraded(r, before) ELSE NewRecord(before)

(* Fault: a repeated connect takes its own value for the one before. *)
OwnKeyAnew(r, k, before, v) == NewKey(ValueAt(before, k), v)

OwnKey(r, k, before, v) ==
    IF k \in DOMAIN r.keys
    THEN [r.keys[k] EXCEPT !.pending = v, !.stage = "owned"]
    ELSE NewKey(ValueAt(before, k), v)

BackedUp(r, before, edits) ==
    LET base == BaseRecord(r, before)
    IN  [base EXCEPT
            !.stage = "backed_up",
            !.keys = [k \in DOMAIN base.keys \cup DOMAIN edits |->
                         IF k \in DOMAIN edits THEN OwnKey(base, k, before, edits[k])
                         ELSE base.keys[k]],
            !.pending_created_hash =
                IF base.created THEN RenderEdits(before, edits) ELSE @]

Prepare(j) ==
    /\ op[j].phase = "applying"
    /\ \E f \in op[j].todo :
          LET r == op[j].doc.resources[f]
              With(record) == [op[j].doc EXCEPT !.resources[f] = record]
              doc == With(BackedUp(r, file[f], op[j].edits))
          IN  \/ /\ Locked(f) \/ file[f] # op[j].expected[f]
                 /\ ApplyFails(j, f, op[j].doc)
              \/ /\ ~Locked(f) /\ file[f] = op[j].expected[f]
                 /\ \/ /\ Save(j, doc, [op[j] EXCEPT !.phase = "prepared", !.doc = doc, !.at = f])
                       /\ lock' = [lock EXCEPT ![f] = j]
                       /\ UNCHANGED spent
                    \/ ApplyFails(j, f, With(Downgraded(r, file[f])))  \* create_backup failed
                    \/ ApplyFails(j, f, doc)
    /\ UNCHANGED file

(* The file is checked once more and replaced, which may fail before or    *)
(* after the replacement took place.                                       *)
Publish(j) ==
    /\ op[j].phase = "prepared"
    /\ LET f == op[j].at
           Replaced == AtomicWriteClient(f, op[j].expected[f], RenderEdits(file[f], op[j].edits))
       IN  \/ /\ Replaced
              /\ op' = [op EXCEPT ![j].phase = "published"]
              /\ UNCHANGED <<disk, lock, spent>>
           \/ /\ Replaced \/ UNCHANGED file
              /\ ApplyFails(j, f, op[j].doc)

Record(j) ==
    /\ op[j].phase = "published"
    /\ LET f == op[j].at
           doc == [op[j].doc EXCEPT !.resources[f].stage = "written"]
       IN  \/ /\ Save(j, doc, [op[j] EXCEPT !.phase = "recorded", !.doc = doc])
              /\ UNCHANGED <<lock, spent>>
           \/ ApplyFails(j, f, doc)
    /\ UNCHANGED file

(* What was published is read back; only then it counts as written. *)
Verified(r, edits) ==
    [r EXCEPT
        !.stage = "verified",
        !.created_hash = IF r.created THEN r.pending_created_hash ELSE @,
        !.pending_created_hash = IF r.created THEN NoHash ELSE @,
        !.keys = [k \in DOMAIN r.keys |->
                     IF k \in DOMAIN edits
                     THEN [r.keys[k] EXCEPT !.written = r.keys[k].pending, !.pending = NoHash]
                     ELSE r.keys[k]]]

Verify(j) ==
    /\ op[j].phase = "recorded"
    /\ LET f == op[j].at
           doc == [op[j].doc EXCEPT !.resources[f] = Verified(@, op[j].edits)]
       IN  \/ /\ file[f] = RenderEdits(op[j].expected[f], op[j].edits)
              /\ \/ /\ Save(j, doc, [op[j] EXCEPT !.phase = "applying", !.doc = doc,
                                         !.todo = @ \ {f}, !.applied = TRUE])
                    /\ lock' = Unlock(j)
                    /\ UNCHANGED spent
                 \/ ApplyFails(j, f, doc)
           \/ /\ file[f] # RenderEdits(op[j].expected[f], op[j].edits)
              /\ ApplyFails(j, f, op[j].doc)
    /\ UNCHANGED file

FinishApply(j) ==
    /\ op[j].phase = "applying" /\ op[j].todo = {}
    /\ GiveUp(j)
    /\ \/ disk' = [disk EXCEPT ![j] = [op[j].doc EXCEPT !.status = "applied"]]
       \/ UNCHANGED disk
    /\ UNCHANGED file

-----------------------------------------------------------------------------
(* restore.  An already restored journal is left alone. *)
BeginRestore(j) ==
    /\ op[j] = Idle
    /\ disk[j] # NoJournal /\ disk[j].status # "restored"
    /\ LET doc == [disk[j] EXCEPT !.status = "restoring"]
       IN  Save(j, doc, Restoring(doc))
    /\ UNCHANGED <<file, lock, spent>>

AllRestored(r) ==
    [r EXCEPT !.stage = "restored",
              !.keys = [k \in DOMAIN r.keys |-> [r.keys[k] EXCEPT !.stage = "restored"]]]

(* The file at hand is dealt with: r is its record so far, settled its     *)
(* record once candidate, if any, was read back.                           *)
Decide(j, f, r, settled, kept, candidate) ==
    /\ op' = [op EXCEPT ![j] =
                  [op[j] EXCEPT !.phase = "decided", !.at = f,
                                !.doc = [op[j].doc EXCEPT !.resources[f] = r],
                                !.settled = settled, !.kept = op[j].kept \/ kept,
                                !.candidate = candidate]]
    /\ lock' = [lock EXCEPT ![f] = j]
    /\ UNCHANGED <<disk, spent>>

(* restore_created: the file goes if it is exactly what was written. *)
Removable(r, content) == content \in {r.created_hash, r.pending_created_hash}

RestoreCreated(j, f, r) ==
    LET removable == file[f] # Absent /\ Removable(r, file[f])
        Removed == removable /\ file' = [file EXCEPT ![f] = Absent]
    IN  \/ /\ Removed \/ (file[f] = Absent /\ UNCHANGED file)
           /\ Decide(j, f, r, AllRestored(r), FALSE, NoHash)
        \/ /\ file[f] # Absent /\ ~removable
           /\ Decide(j, f, r, [r EXCEPT !.stage = "preserved"], TRUE, NoHash)
           /\ UNCHANGED file
        \/ /\ Removed \/ UNCHANGED file
           /\ RestoreFails(j, f, op[j].doc)

(* restore_existing: each key that still has the value written goes back;  *)
(* one that a user changed is a conflict and stays.                        *)
Managed(rec, v) == v \in {rec.written, rec.pending}

Reversible(r, content) ==
    {k \in DOMAIN r.keys : /\ r.keys[k].stage # "restored"
                           /\ content[k] # r.keys[k].before
                           /\ Managed(r.keys[k], content[k])}

KeyAfter(rec, v) ==
    IF rec.stage = "restored" THEN rec
    ELSE IF v = rec.before THEN [rec EXCEPT !.stage = "restored"]
    ELSE IF Managed(rec, v) THEN rec
    ELSE [rec EXCEPT !.stage = "conflict"]

Inspected(r, content, seen) ==
    [r EXCEPT !.keys = [k \in DOMAIN r.keys |->
        IF k \in seen THEN KeyAfter(r.keys[k], content[k]) ELSE r.keys[k]]]

Settled(r, reversed) ==
    LET keys == [k \in DOMAIN r.keys |->
                    IF k \in reversed THEN [r.keys[k] EXCEPT !.stage = "restored"]
                    ELSE r.keys[k]]
    IN  [r EXCEPT !.keys = keys,
                  !.stage = IF \A k \in DOMAIN keys : keys[k].stage = "restored"
                            THEN "restored" ELSE "restore_conflict"]

(* A backup that cannot be read stops it between two keys. *)
RestoreExisting(j, f, r) ==
    LET reversed == Reversible(r, file[f])
        inspected == Inspected(r, file[f], DOMAIN r.keys)
        candidate == [k \in Keys |-> IF k \in reversed THEN r.keys[k].before ELSE file[f][k]]
        conflict == \E k \in DOMAIN r.keys : inspected.keys[k].stage = "conflict"
        Replaced == reversed # {} /\ AtomicWriteClient(f, file[f], candidate)
        FailWith(record) == RestoreFails(j, f, [op[j].doc EXCEPT !.resources[f] = record])
    IN  \/ /\ file[f] # Absent
           /\ \/ /\ Replaced
                 /\ Decide(j, f, inspected, Settled(inspected, reversed), conflict, candidate)
              \/ /\ reversed = {} /\ UNCHANGED file
                 /\ Decide(j, f, inspected, Settled(inspected, {}), conflict, NoHash)
              \/ /\ Replaced \/ UNCHANGED file
                 /\ FailWith(inspected)
              \/ /\ UNCHANGED file
                 /\ \E seen \in SUBSET DOMAIN r.keys : FailWith(Inspected(r, file[f], seen))
        \/ /\ file[f] = Absent
           /\ FailWith(r)
           /\ UNCHANGED file

RestoreFile(j) ==
    /\ op[j].phase = "restoring"
    /\ \E f \in op[j].todo :
          LET r == op[j].doc.resources[f]
          IN  \/ /\ Locked(f)
                 /\ RestoreFails(j, f, op[j].doc)
                 /\ UNCHANGED file
              \/ /\ ~Locked(f) /\ r.created
                 /\ RestoreCreated(j, f, r)
              \/ /\ ~Locked(f) /\ ~r.created
                 /\ RestoreExisting(j, f, r)

(* What was put back is read back, then the journal is saved. *)
SettleFile(j) ==
    /\ op[j].phase = "decided"
    /\ LET f == op[j].at
           doc == [op[j].doc EXCEPT !.resources[f] = op[j].settled]
       IN  \/ /\ op[j].candidate \in {NoHash, file[f]}
              /\ Save(j, doc, [op[j] EXCEPT !.phase = "restoring", !.doc = doc, !.at = NoJournal,
                                   !.todo = @ \ {f}, !.settled = NoHash, !.candidate = NoHash])
              /\ lock' = Unlock(j)
              /\ UNCHANGED spent
           \/ /\ op[j].candidate \in {NoHash, file[f]}
              /\ RestoreFails(j, f, doc)
           \/ /\ op[j].candidate # NoHash
              /\ RestoreFails(j, f, op[j].doc)
    /\ UNCHANGED file

RestoreStatus(c) == IF c.kept THEN "restore_conflicts" ELSE "restored"

FinishRestore(j) ==
    /\ op[j].phase = "restoring" /\ op[j].todo = {}
    /\ GiveUp(j)
    /\ \/ disk' = [disk EXCEPT ![j] = [op[j].doc EXCEPT !.status = RestoreStatus(op[j])]]
       \/ UNCHANGED disk
    /\ UNCHANGED file

-----------------------------------------------------------------------------
(* The process dies: its locks go with it, its journal stays. *)
Crash(j) ==
    /\ op[j] # Idle
    /\ spent.crashes < MaxCrashes
    /\ op' = [op EXCEPT ![j] = Idle]
    /\ lock' = Unlock(j)
    /\ spent' = [spent EXCEPT !.crashes = @ + 1]
    /\ UNCHANGED <<file, disk>>

(* Somebody else edits a key, creates a file or deletes it. *)
UserEdit(f) ==
    /\ spent.edits < MaxEdits
    /\ \/ \E k \in Keys, v \in UserValues \cup {NoValue} :
             /\ v # ValueAt(file[f], k)
             /\ file' = [file EXCEPT ![f] = RenderEdits(@, [i \in {k} |-> v])]
       \/ file[f] # Absent /\ file' = [file EXCEPT ![f] = Absent]
    /\ spent' = [spent EXCEPT !.edits = @ + 1]
    /\ UNCHANGED <<disk, op, lock>>

Step(j) ==
    \/ BeginApply(j) \/ Prepare(j) \/ Publish(j) \/ Record(j) \/ Verify(j) \/ FinishApply(j)
    \/ BeginRestore(j) \/ RestoreFile(j) \/ SettleFile(j) \/ FinishRestore(j)
    \/ Crash(j)

Next == (\E j \in Journals : Step(j)) \/ (\E f \in Files : UserEdit(f))

Spec == Init /\ [][Next]_vars

-----------------------------------------------------------------------------
KeysOf(j, f) ==
    IF disk[j] # NoJournal /\ f \in DOMAIN disk[j].resources
    THEN disk[j].resources[f].keys ELSE NoKeys

(* Restoring a journal changes only values that the journal's commands     *)
(* wrote or removed: what a user, or another journal, put into the file    *)
(* survives, whatever crashed in between (restore_created, which removes   *)
(* whole files, and restore_existing).                                     *)
RestoreTouchesOwn ==
    [][\A j \in Journals, f \in Files, k \in Keys :
          (/\ op[j].phase = "restoring" /\ op'[j] # op[j]
           /\ ValueAt(file'[f], k) # ValueAt(file[f], k))
              => ValueAt(file[f], k) \in Gateway[j] \cup {NoValue}]_vars

(* The journal is ahead of the files: whenever a file holds a value of     *)
(* journal j, the journal on disk owns the key and has not called it       *)
(* restored, so a crash at any point leaves restore something to go by     *)
(* (apply_one saves before it writes, restore after).  For one journal: a  *)
(* second one may have replaced the value and put it back later.           *)
JournalCoversFiles ==
    \A j \in Journals, f \in Files, k \in Keys :
        ValueAt(file[f], k) \in Gateway[j] =>
            k \in DOMAIN KeysOf(j, f) /\ KeysOf(j, f)[k].stage # "restored"

(* When nobody edited the files and every journal was restored, every key  *)
(* has its first value again, however many commands were interrupted       *)
(* (restore's status Restored).                                            *)
RestoredMeansOriginal ==
    (/\ spent.edits = 0
     /\ \A j \in Journals : op[j] = Idle /\ (disk[j] # NoJournal => disk[j].status = "restored"))
        => \A f \in Files, k \in Keys : ValueAt(file[f], k) = ValueAt(Original[f], k)

(* README.md: disconnect restores managed values that have not             *)
(* subsequently changed.  A value that a connect wrote and nobody changed  *)
(* is not called a conflict by restore.                                    *)
UnchangedIsNoConflict ==
    \A j \in Journals, f \in Files : \A k \in DOMAIN KeysOf(j, f) :
        KeysOf(j, f)[k].stage = "conflict" => ValueAt(file[f], k) \notin Gateway[j]
=============================================================================
