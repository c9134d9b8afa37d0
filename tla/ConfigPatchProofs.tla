------------------------- MODULE ConfigPatchProofs -------------------------
EXTENDS ConfigPatch, TLAPS

(* What the journals of config_patch/ are good for, for any files, keys,    *)
(* values and original contents.                                           *)
(*                                                                         *)
(* PatchInv is the shape of the journals and of the commands at work on    *)
(* them, with two facts the code relies on without saying so: a file that  *)
(* counts as created by the gateway has a known content (Traced), and an   *)
(* apply owns every key it is about to write before it writes (Ready).     *)
(* It makes a restore take away only what its journal may write.           *)
(*                                                                         *)
(* AccountInv is the accounting of values: whoever put one of the values B *)
(* into a file, the journal owns the key and does not call it restored, on *)
(* disk and in the command's memory, and has no such value to put back.    *)
(* Every step keeps it for every B that only the journal's own applies can *)
(* bring into a file.  The values the journal writes are such a B, and as  *)
(* long as no user edits a file so is everything but a key's first value.  *)

(* A record that owns keys of a file it created knows what it wrote. *)
Traced(r) ==
    r.created /\ HasOwned(r) => r.created_hash # NoHash \/ r.pending_created_hash # NoHash

(* A record of journal j, and a journal of such records. *)
GoodRecord(j, r) == r \in ResourceRecords(j) /\ Traced(r)

Recorded(j, doc) ==
    /\ doc \in Documents(j)
    /\ \A f \in DOMAIN doc.resources : Traced(doc.resources[f])

(* The record of the file an apply is at: every edited key is owned, and a *)
(* created file's content is known.                                        *)
Ready(r, edits) ==
    /\ \A k \in DOMAIN edits : k \in DOMAIN r.keys /\ r.keys[k].stage = "owned"
    /\ r.created => r.pending_created_hash # NoHash

(* What an apply may write; what a file may hold. *)
Edits(j) == UNION {[K -> Own(j)] : K \in SUBSET Keys}

Contained == Contents \cup {Absent}

(* The commands at work, by phase. *)
Applies(j) ==
    [phase : {"applying", "prepared", "published", "recorded"},
     expected : UNION {[S -> Contained] : S \in SUBSET Files}, edits : Edits(j),
     doc : Documents(j), todo : SUBSET Files, at : Files \cup {NoJournal}, applied : BOOLEAN]

Restores(j) ==
    [phase : {"restoring", "decided"}, doc : Documents(j), kept : BOOLEAN,
     at : Files \cup {NoJournal}, todo : SUBSET Files,
     settled : ResourceRecords(j) \cup {NoHash}, candidate : Contents \cup {NoHash}]

(* What a command at work may rely on; an idle journal relies on nothing. *)
ApplyOk(j, c) ==
    /\ c \in Applies(j)
    /\ Recorded(j, c.doc)
    /\ c.doc.status # "restored"
    /\ c.todo \subseteq DOMAIN c.doc.resources
    /\ c.phase # "applying" =>
          c.at \in DOMAIN c.doc.resources /\ Ready(c.doc.resources[c.at], c.edits)

RestoreOk(j, c) ==
    /\ c \in Restores(j)
    /\ Recorded(j, c.doc)
    /\ c.doc.status # "restored"
    /\ c.todo \subseteq DOMAIN c.doc.resources
    /\ c.phase = "decided" => c.at \in c.todo /\ GoodRecord(j, c.settled)

OpOk(j, c) == c = Idle \/ ApplyOk(j, c) \/ RestoreOk(j, c)

(* The journals, the files and the commands keep their shape. *)
PatchInv ==
    /\ file \in [Files -> Contained]
    /\ spent \in [applies : Nat, crashes : Nat, edits : Nat]
    /\ disk = [j \in Journals |-> disk[j]]
    /\ op = [j \in Journals |-> op[j]]
    /\ \A j \in Journals : disk[j] = NoJournal \/ Recorded(j, disk[j])
    /\ \A j \in Journals : OpOk(j, op[j])

-----------------------------------------------------------------------------
(* The parts of a record, named. *)
Stages == {"unstarted", "backed_up", "written", "verified", "restore_conflict",
           "restored", "preserved", "failed"}

KeyTables(j) == UNION {[K -> KeyRecords(j)] : K \in SUBSET Keys}

Written(j) == [Keys -> Own(j)] \cup {NoHash}

(* A key table is a function from some of the keys to key records. *)
LEMMA KeyTable ==
    ASSUME NEW j \in Journals, NEW t
    PROVE  /\ t \in KeyTables(j) => DOMAIN t \subseteq Keys /\ t \in [DOMAIN t -> KeyRecords(j)]
           /\ \A K \in SUBSET Keys : t \in [K -> KeyRecords(j)] => t \in KeyTables(j)
BY DEF KeyTables

(* A resource record, field by field. *)
LEMMA RecordFields ==
    ASSUME NEW j \in Journals, NEW r
    PROVE  r \in ResourceRecords(j) <=>
               /\ r = [keys |-> r.keys, created |-> r.created, created_hash |-> r.created_hash,
                       pending_created_hash |-> r.pending_created_hash, stage |-> r.stage]
               /\ r.keys \in KeyTables(j)
               /\ r.created \in BOOLEAN
               /\ r.created_hash \in Written(j)
               /\ r.pending_created_hash \in Written(j)
               /\ r.stage \in Stages
BY DEF ResourceRecords, KeyTables, Written, Stages

(* A record made of good fields is a resource record. *)
LEMMA MadeRecord ==
    ASSUME NEW j \in Journals, NEW t \in KeyTables(j), NEW c \in BOOLEAN,
           NEW h \in Written(j), NEW p \in Written(j), NEW s \in Stages,
           NEW r, r = [keys |-> t, created |-> c, created_hash |-> h,
                       pending_created_hash |-> p, stage |-> s]
    PROVE  r \in ResourceRecords(j)
BY DEF ResourceRecords, KeyTables, Written, Stages

(* The empty key table is one. *)
LEMMA NoKeysTable == \A j \in Journals : NoKeys \in KeyTables(j) /\ DOMAIN NoKeys = {}
<1> TAKE j \in Journals
<1>1. NoKeys \in [{} -> KeyRecords(j)]
    BY DEF NoKeys
<1> QED BY <1>1 DEF KeyTables

(* A planned record is good, empty, and created if the file was missing. *)
LEMMA NewRecordGood ==
    ASSUME NEW j \in Journals, NEW content
    PROVE  /\ GoodRecord(j, NewRecord(content))
           /\ NewRecord(content).keys = NoKeys
           /\ NewRecord(content).created = (content = Absent)
<1> DEFINE r == NewRecord(content)
<1> DEFINE new == (content = Absent)
<1>0. new \in BOOLEAN
    OBVIOUS
<1>1. r = [keys |-> NoKeys, created |-> new, created_hash |-> NoHash,
           pending_created_hash |-> NoHash, stage |-> "unstarted"]
    BY DEF NewRecord
<1> HIDE DEF new, r
<1>2. r.keys = NoKeys /\ r.created = new
    BY <1>1
<1>3. NoKeys \in KeyTables(j) /\ NoHash \in Written(j) /\ "unstarted" \in Stages
    BY NoKeysTable DEF Written, Stages
<1>4. r \in ResourceRecords(j)
    BY <1>0, <1>1, <1>3, MadeRecord
<1>5. Traced(r)
    BY <1>2, NoKeysTable DEF Traced, HasOwned
<1> QED BY <1>2, <1>4, <1>5 DEF GoodRecord, new, r

(* A file whose content is no longer what the gateway wrote stops counting *)
(* as created, and keeps its keys.                                         *)
LEMMA DowngradedGood ==
    ASSUME NEW j \in Journals, NEW r, GoodRecord(j, r), NEW before
    PROVE  /\ GoodRecord(j, Downgraded(r, before))
           /\ Downgraded(r, before).keys = r.keys
           /\ Downgraded(r, before).created => r.created
           /\ Downgraded(r, before).created /\ HasOwned(r) =>
                 before \in {r.created_hash, r.pending_created_hash}
<1> DEFINE d == Downgraded(r, before)
<1>1. /\ r.keys \in KeyTables(j) /\ r.stage \in Stages /\ NoHash \in Written(j)
      /\ r = [keys |-> r.keys, created |-> r.created, created_hash |-> r.created_hash,
              pending_created_hash |-> r.pending_created_hash, stage |-> r.stage]
      /\ r \in ResourceRecords(j)
    BY RecordFields DEF GoodRecord, Written
<1>2. CASE r.created /\ ~StillOwned(r, before)
    <2>1. d = [keys |-> r.keys, created |-> FALSE, created_hash |-> NoHash,
               pending_created_hash |-> NoHash, stage |-> r.stage]
        BY <1>1, <1>2 DEF Downgraded
    <2>2. d \in ResourceRecords(j)
        BY <1>1, <2>1, MadeRecord
    <2>3. d.keys = r.keys /\ d.created = FALSE
        BY <2>1
    <2> QED BY <2>2, <2>3 DEF GoodRecord, Traced
<1>3. CASE ~(r.created /\ ~StillOwned(r, before))
    <2>1. d = r
        BY <1>3 DEF Downgraded
    <2> QED BY <2>1, <1>3 DEF GoodRecord, Traced, StillOwned
<1> QED BY <1>2, <1>3

(* A key record, field by field. *)
LEMMA KeyFields ==
    ASSUME NEW j \in Journals, NEW x \in KeyRecords(j)
    PROVE  /\ x = [before |-> x.before, written |-> x.written, pending |-> x.pending,
                   stage |-> x.stage]
           /\ x.before \in Values
           /\ x.written \in Own(j) \cup {NoHash}
           /\ x.pending \in Own(j) \cup {NoHash}
           /\ x.stage \in {"owned", "conflict", "restored"}
BY DEF KeyRecords

(* Edits give some of the keys values of the journal. *)
LEMMA EditTable ==
    ASSUME NEW j \in Journals, NEW edits \in Edits(j)
    PROVE  /\ DOMAIN edits \subseteq Keys
           /\ \A k \in DOMAIN edits : edits[k] \in Own(j)
           /\ edits \in [DOMAIN edits -> Own(j)]
BY DEF Edits

(* A journal's values are values, and a file of nothing else is a content. *)
LEMMA OwnValues ==
    \A j \in Journals : /\ Own(j) \subseteq Values
                        /\ NoValue \in Own(j)
                        /\ NoHash \notin Own(j)
                        /\ [Keys -> Own(j)] \subseteq Contents
<1> TAKE j \in Journals
<1>1. Own(j) \subseteq Values /\ NoValue \in Own(j)
    BY DEF Own, Values
<1>2. [Keys -> Own(j)] \subseteq Contents
    BY <1>1 DEF Contents
<1> QED BY <1>1, <1>2, PatchAssumption

(* A key of a file, or of a missing one, has a value. *)
LEMMA ValueTyped ==
    ASSUME NEW content \in Contained, NEW k \in Keys
    PROVE  ValueAt(content, k) \in Values
BY DEF Contained, Contents, ValueAt, Values

(* What an edit leaves in a file. *)
LEMMA Rendered ==
    ASSUME NEW j \in Journals, NEW edits \in Edits(j), NEW content \in Contained
    PROVE  /\ RenderEdits(content, edits) \in Contents
           /\ RenderEdits(content, edits) # Absent
           /\ RenderEdits(content, edits) # NoHash
           /\ \A k \in Keys : ValueAt(RenderEdits(content, edits), k) =
                 IF k \in DOMAIN edits THEN edits[k] ELSE ValueAt(content, k)
           /\ content \in [Keys -> Own(j)] \cup {Absent} =>
                 RenderEdits(content, edits) \in [Keys -> Own(j)]
<1> DEFINE new == RenderEdits(content, edits)
<1>1. new = [k \in Keys |-> IF k \in DOMAIN edits THEN edits[k] ELSE ValueAt(content, k)]
    BY DEF RenderEdits
<1>2. \A k \in Keys : /\ k \in DOMAIN edits => edits[k] \in Values
                      /\ ValueAt(content, k) \in Values
    BY EditTable, OwnValues, ValueTyped
<1>3. new \in Contents
    BY <1>1, <1>2 DEF Contents
<1>4. new # Absent /\ new # NoHash
    BY <1>3, PatchAssumption
<1>5. \A k \in Keys : ValueAt(new, k) = new[k]
    BY <1>4 DEF ValueAt
<1>6. ASSUME content \in [Keys -> Own(j)] \cup {Absent}
      PROVE  new \in [Keys -> Own(j)]
    <2>1. \A k \in Keys : ValueAt(content, k) \in Own(j)
        BY <1>6, OwnValues DEF ValueAt
    <2> QED BY <1>1, <2>1, EditTable
<1> HIDE DEF new
<1>7. \A k \in Keys : ValueAt(new, k) =
          IF k \in DOMAIN edits THEN edits[k] ELSE ValueAt(content, k)
    BY <1>1, <1>5
<1> QED BY <1>3, <1>4, <1>6, <1>7 DEF new

(* Owning a key records the value before the first time, and only then. *)
LEMMA OwnedKey ==
    ASSUME NEW j \in Journals, NEW r \in ResourceRecords(j), NEW k \in Keys,
           NEW before \in Contained, NEW v \in Own(j)
    PROVE  /\ OwnKey(r, k, before, v) \in KeyRecords(j)
           /\ OwnKey(r, k, before, v).stage = "owned"
           /\ OwnKey(r, k, before, v).before =
                 IF k \in DOMAIN r.keys THEN r.keys[k].before ELSE ValueAt(before, k)
<1>1. CASE k \in DOMAIN r.keys
    <2>1. r.keys[k] \in KeyRecords(j)
        BY <1>1, RecordFields, KeyTable
    <2> DEFINE x == r.keys[k]
    <2> HIDE DEF x
    <2>2. x \in KeyRecords(j)
        BY <2>1 DEF x
    <2>3. /\ [x EXCEPT !.pending = v, !.stage = "owned"] \in KeyRecords(j)
          /\ [x EXCEPT !.pending = v, !.stage = "owned"].stage = "owned"
          /\ [x EXCEPT !.pending = v, !.stage = "owned"].before = x.before
        BY <2>2 DEF KeyRecords
    <2> QED BY <1>1, <2>3 DEF OwnKey, x
<1>2. CASE k \notin DOMAIN r.keys
    <2>1. ValueAt(before, k) \in Values
        BY ValueTyped
    <2>2. OwnKey(r, k, before, v) = [before |-> ValueAt(before, k), written |-> NoHash,
                                     pending |-> v, stage |-> "owned"]
        BY <1>2 DEF OwnKey, NewKey
    <2> QED BY <1>2, <2>1, <2>2 DEF KeyRecords
<1> QED BY <1>1, <1>2

(* The record an apply starts from is good; if it counts as created, the   *)
(* file is missing or holds only what the gateway wrote.                   *)
LEMMA BaseGood ==
    ASSUME NEW j \in Journals, NEW r, GoodRecord(j, r), NEW before \in Contained
    PROVE  /\ GoodRecord(j, BaseRecord(r, before))
           /\ BaseRecord(r, before).keys = r.keys
           /\ BaseRecord(r, before).created /\ ~HasOwned(r) => before = Absent
           /\ BaseRecord(r, before).created /\ HasOwned(r) => r.created
           /\ BaseRecord(r, before).created => before \in [Keys -> Own(j)] \cup {Absent}
<1> DEFINE base == BaseRecord(r, before)
<1>1. CASE HasOwned(r)
    <2>1. base = Downgraded(r, before)
        BY <1>1 DEF BaseRecord
    <2>2. /\ GoodRecord(j, base) /\ base.keys = r.keys
          /\ base.created => r.created
          /\ base.created => before \in {r.created_hash, r.pending_created_hash}
        BY <1>1, <2>1, DowngradedGood
    <2>3. r.created_hash \in Written(j) /\ r.pending_created_hash \in Written(j)
        BY RecordFields DEF GoodRecord
    <2>4. before # NoHash
        BY PatchAssumption DEF Contained
    <2> QED BY <1>1, <2>2, <2>3, <2>4 DEF Written
<1>2. CASE ~HasOwned(r)
    <2>1. base = NewRecord(before)
        BY <1>2 DEF BaseRecord
    <2>2. GoodRecord(j, base) /\ base.keys = NoKeys /\ base.created = (before = Absent)
        BY <2>1, NewRecordGood
    <2>3. r.keys = NoKeys
        <3>1. r.keys \in [DOMAIN r.keys -> KeyRecords(j)]
            BY RecordFields, KeyTable DEF GoodRecord
        <3>2. DOMAIN r.keys = {}
            BY <1>2 DEF HasOwned
        <3> QED BY <3>1, <3>2 DEF NoKeys
    <2> QED BY <1>2, <2>2, <2>3
<1> QED BY <1>1, <1>2

(* The record saved before a file is replaced owns every key that is       *)
(* edited, and keeps every earlier before-image.                           *)
LEMMA BackedUpGood ==
    ASSUME NEW j \in Journals, NEW r, GoodRecord(j, r), NEW before \in Contained,
           NEW edits \in Edits(j)
    PROVE  /\ GoodRecord(j, BackedUp(r, before, edits))
           /\ Ready(BackedUp(r, before, edits), edits)
           /\ BackedUp(r, before, edits).created = BaseRecord(r, before).created
           /\ DOMAIN BackedUp(r, before, edits).keys = DOMAIN r.keys \cup DOMAIN edits
           /\ \A k \in DOMAIN BackedUp(r, before, edits).keys :
                 /\ BackedUp(r, before, edits).keys[k].before =
                       IF k \in DOMAIN r.keys THEN r.keys[k].before ELSE ValueAt(before, k)
                 /\ BackedUp(r, before, edits).keys[k].stage =
                       IF k \in DOMAIN edits THEN "owned" ELSE r.keys[k].stage
<1> DEFINE base == BaseRecord(r, before)
<1> DEFINE keys == [k \in DOMAIN base.keys \cup DOMAIN edits |->
                      IF k \in DOMAIN edits THEN OwnKey(base, k, before, edits[k])
                      ELSE base.keys[k]]
<1> DEFINE hash == IF base.created THEN RenderEdits(before, edits) ELSE base.pending_created_hash
<1> DEFINE up == BackedUp(r, before, edits)
<1>1. /\ GoodRecord(j, base) /\ base \in ResourceRecords(j) /\ base.keys = r.keys
      /\ base.created => before \in [Keys -> Own(j)] \cup {Absent}
    BY BaseGood DEF GoodRecord
<1>2. up = [base EXCEPT !.stage = "backed_up", !.keys = keys, !.pending_created_hash = hash]
    BY DEF BackedUp
<1> HIDE DEF base, up
<1>3. /\ base.keys \in KeyTables(j) /\ base.created \in BOOLEAN
      /\ base.created_hash \in Written(j) /\ base.pending_created_hash \in Written(j)
      /\ base = [keys |-> base.keys, created |-> base.created,
                 created_hash |-> base.created_hash,
                 pending_created_hash |-> base.pending_created_hash, stage |-> base.stage]
    BY <1>1, RecordFields
<1>4. DOMAIN base.keys \subseteq Keys /\ base.keys \in [DOMAIN base.keys -> KeyRecords(j)]
    BY <1>3, KeyTable
<1>5. DOMAIN edits \subseteq Keys /\ \A k \in DOMAIN edits : edits[k] \in Own(j)
    BY EditTable
<1>6. \A k \in DOMAIN edits : /\ OwnKey(base, k, before, edits[k]) \in KeyRecords(j)
                              /\ OwnKey(base, k, before, edits[k]).stage = "owned"
                              /\ OwnKey(base, k, before, edits[k]).before =
                                    IF k \in DOMAIN base.keys THEN base.keys[k].before
                                    ELSE ValueAt(before, k)
    BY <1>1, <1>5, OwnedKey
<1>7. keys \in [DOMAIN base.keys \cup DOMAIN edits -> KeyRecords(j)]
    BY <1>4, <1>6
<1>8. keys \in KeyTables(j)
    BY <1>4, <1>5, <1>7 DEF KeyTables
<1>9. hash \in Written(j) /\ (base.created => hash # NoHash)
    BY <1>1, <1>3, Rendered DEF Written
<1>10. \A k \in DOMAIN keys : /\ keys[k].before = IF k \in DOMAIN base.keys THEN base.keys[k].before
                                                 ELSE ValueAt(before, k)
                              /\ keys[k].stage = IF k \in DOMAIN edits THEN "owned"
                                                 ELSE base.keys[k].stage
    BY <1>6
<1>11. DOMAIN keys = DOMAIN base.keys \cup DOMAIN edits
    OBVIOUS
<1> HIDE DEF keys, hash
<1>12. up = [keys |-> keys, created |-> base.created, created_hash |-> base.created_hash,
             pending_created_hash |-> hash, stage |-> "backed_up"]
    BY <1>2, <1>3
<1>13. up.keys = keys /\ up.created = base.created /\ up.pending_created_hash = hash
    BY <1>12
<1>14. "backed_up" \in Stages
    BY DEF Stages
<1>15. up \in ResourceRecords(j)
    BY <1>3, <1>8, <1>9, <1>12, <1>14, MadeRecord
<1>16. Traced(up) /\ Ready(up, edits)
    BY <1>9, <1>10, <1>11, <1>13 DEF Traced, Ready
<1>17. GoodRecord(j, up)
    BY <1>15, <1>16 DEF GoodRecord
<1> QED BY <1>1, <1>10, <1>11, <1>13, <1>16, <1>17 DEF base, up

(* Replacing a record's keys, one by one, by keys with the same before. *)
Rekeyed(r, q) ==
    /\ q.created = r.created
    /\ DOMAIN q.keys = DOMAIN r.keys
    /\ \A k \in DOMAIN r.keys : q.keys[k].before = r.keys[k].before

(* A key record that is restored, found in conflict or recorded as written *)
(* is a key record with the same before-image.                             *)
LEMMA KeyEdited ==
    ASSUME NEW j \in Journals, NEW x \in KeyRecords(j)
    PROVE  /\ [x EXCEPT !.stage = "restored"] \in KeyRecords(j)
           /\ [x EXCEPT !.stage = "restored"].stage = "restored"
           /\ [x EXCEPT !.stage = "restored"].before = x.before
           /\ [x EXCEPT !.stage = "conflict"] \in KeyRecords(j)
           /\ [x EXCEPT !.stage = "conflict"].stage = "conflict"
           /\ [x EXCEPT !.stage = "conflict"].before = x.before
           /\ [x EXCEPT !.written = x.pending, !.pending = NoHash] \in KeyRecords(j)
           /\ [x EXCEPT !.written = x.pending, !.pending = NoHash].stage = x.stage
           /\ [x EXCEPT !.written = x.pending, !.pending = NoHash].before = x.before
BY DEF KeyRecords

(* A good record with such key records in the place of its own is good. *)
LEMMA NewTableGood ==
    ASSUME NEW j \in Journals, NEW r, GoodRecord(j, r), NEW t,
           t = [k \in DOMAIN r.keys |-> t[k]],
           \A k \in DOMAIN r.keys : t[k] \in KeyRecords(j) /\ t[k].before = r.keys[k].before,
           NEW s \in Stages, NEW q,
           q = [keys |-> t, created |-> r.created, created_hash |-> r.created_hash,
                pending_created_hash |-> r.pending_created_hash, stage |-> s]
    PROVE  GoodRecord(j, q) /\ Rekeyed(r, q) /\ q.keys = t
<1>1. /\ r.keys \in KeyTables(j) /\ r.created \in BOOLEAN
      /\ r.created_hash \in Written(j) /\ r.pending_created_hash \in Written(j)
    BY RecordFields DEF GoodRecord
<1>2. DOMAIN r.keys \subseteq Keys
    BY <1>1, KeyTable
<1>3. t \in [DOMAIN r.keys -> KeyRecords(j)]
    OBVIOUS
<1>4. t \in KeyTables(j)
    BY <1>2, <1>3 DEF KeyTables
<1>5. q \in ResourceRecords(j)
    BY <1>1, <1>4, MadeRecord
<1>6. /\ q.keys = t /\ q.created = r.created /\ q.created_hash = r.created_hash
      /\ q.pending_created_hash = r.pending_created_hash
    OBVIOUS
<1>7. DOMAIN t = DOMAIN r.keys
    OBVIOUS
<1>8. Traced(q)
    BY <1>6, <1>7 DEF GoodRecord, Traced, HasOwned
<1> QED BY <1>5, <1>6, <1>7, <1>8 DEF GoodRecord, Rekeyed

(* What the later proofs use of a good record. *)
LEMMA RecordKeys ==
    ASSUME NEW j \in Journals, NEW r, GoodRecord(j, r)
    PROVE  /\ DOMAIN r.keys \subseteq Keys
           /\ \A k \in DOMAIN r.keys : r.keys[k] \in KeyRecords(j)
           /\ r.keys = [k \in DOMAIN r.keys |-> r.keys[k]]
           /\ r = [keys |-> r.keys, created |-> r.created, created_hash |-> r.created_hash,
                   pending_created_hash |-> r.pending_created_hash, stage |-> r.stage]
           /\ r.stage \in Stages /\ r.created \in BOOLEAN
<1>1. r.keys \in KeyTables(j)
    BY RecordFields DEF GoodRecord
<1>2. DOMAIN r.keys \subseteq Keys /\ r.keys \in [DOMAIN r.keys -> KeyRecords(j)]
    BY <1>1, KeyTable
<1> QED BY <1>2, RecordFields DEF GoodRecord

(* A new stage changes nothing else of a record. *)
LEMMA StagedGood ==
    ASSUME NEW j \in Journals, NEW r, GoodRecord(j, r), NEW s \in Stages
    PROVE  /\ GoodRecord(j, [r EXCEPT !.stage = s])
           /\ [r EXCEPT !.stage = s].keys = r.keys
           /\ Rekeyed(r, [r EXCEPT !.stage = s])
           /\ [r EXCEPT !.stage = s].created_hash = r.created_hash
           /\ [r EXCEPT !.stage = s].pending_created_hash = r.pending_created_hash
<1> DEFINE q == [r EXCEPT !.stage = s]
<1> DEFINE t == r.keys
<1>s. /\ r = [keys |-> r.keys, created |-> r.created, created_hash |-> r.created_hash,
               pending_created_hash |-> r.pending_created_hash, stage |-> r.stage]
      /\ r.keys = [k \in DOMAIN r.keys |-> r.keys[k]]
      /\ r.stage \in Stages
      /\ \A k \in DOMAIN r.keys : r.keys[k] \in KeyRecords(j)
    BY RecordKeys
<1>1. q = [keys |-> t, created |-> r.created, created_hash |-> r.created_hash,
           pending_created_hash |-> r.pending_created_hash, stage |-> s]
    BY <1>s
<1> HIDE DEF q
<1>2. GoodRecord(j, q) /\ Rekeyed(r, q) /\ q.keys = t
    BY <1>1, <1>s, NewTableGood
<1>3. q.created_hash = r.created_hash /\ q.pending_created_hash = r.pending_created_hash
    BY <1>1
<1> QED BY <1>2, <1>3 DEF q

(* So does noting which values a verified file holds. *)
LEMMA VerifiedGood ==
    ASSUME NEW j \in Journals, NEW r, GoodRecord(j, r), NEW edits, Ready(r, edits)
    PROVE  /\ GoodRecord(j, Verified(r, edits))
           /\ Rekeyed(r, Verified(r, edits))
           /\ \A k \in DOMAIN r.keys : Verified(r, edits).keys[k].stage = r.keys[k].stage
<1> DEFINE t == [k \in DOMAIN r.keys |->
                   IF k \in DOMAIN edits
                   THEN [r.keys[k] EXCEPT !.written = r.keys[k].pending, !.pending = NoHash]
                   ELSE r.keys[k]]
<1> DEFINE h == IF r.created THEN r.pending_created_hash ELSE r.created_hash
<1> DEFINE p == IF r.created THEN NoHash ELSE r.pending_created_hash
<1> DEFINE q == Verified(r, edits)
<1>s. /\ r = [keys |-> r.keys, created |-> r.created, created_hash |-> r.created_hash,
               pending_created_hash |-> r.pending_created_hash, stage |-> r.stage]
      /\ r.keys = [k \in DOMAIN r.keys |-> r.keys[k]]
      /\ r.stage \in Stages
      /\ \A k \in DOMAIN r.keys : r.keys[k] \in KeyRecords(j)
    BY RecordKeys
<1>0. \A k \in DOMAIN r.keys : r.keys[k] \in KeyRecords(j)
    BY RecordKeys
<1>1. \A k \in DOMAIN r.keys : /\ t[k] \in KeyRecords(j)
                               /\ t[k].before = r.keys[k].before
                               /\ t[k].stage = r.keys[k].stage
    BY <1>0, KeyEdited
<1>2. DOMAIN t = DOMAIN r.keys /\ t = [k \in DOMAIN r.keys |-> t[k]]
    OBVIOUS
<1>3. q = [r EXCEPT !.stage = "verified", !.created_hash = h, !.pending_created_hash = p,
                    !.keys = t]
    BY DEF Verified
<1>4. /\ r.created_hash \in Written(j) /\ r.pending_created_hash \in Written(j)
      /\ r.created \in BOOLEAN /\ DOMAIN r.keys \subseteq Keys /\ NoHash \in Written(j)
    BY RecordFields, RecordKeys DEF GoodRecord, Written
<1>5. h \in Written(j) /\ p \in Written(j) /\ (r.created => h # NoHash)
    BY <1>4 DEF Ready
<1>6. t \in [DOMAIN r.keys -> KeyRecords(j)]
    BY <1>1, <1>2
<1> HIDE DEF t, h, p, q
<1>7. t \in KeyTables(j)
    BY <1>4, <1>6 DEF KeyTables
<1>8. q = [keys |-> t, created |-> r.created, created_hash |-> h,
           pending_created_hash |-> p, stage |-> "verified"]
    BY <1>3, <1>s
<1>9. "verified" \in Stages
    BY DEF Stages
<1>10. q \in ResourceRecords(j)
    BY <1>4, <1>5, <1>7, <1>8, <1>9, MadeRecord
<1>11. q.keys = t /\ q.created = r.created /\ q.created_hash = h
    BY <1>8
<1>12. Traced(q)
    BY <1>5, <1>11 DEF Traced
<1>13. Rekeyed(r, q) /\ \A k \in DOMAIN r.keys : q.keys[k].stage = r.keys[k].stage
    BY <1>1, <1>2, <1>11 DEF Rekeyed
<1> QED BY <1>10, <1>12, <1>13 DEF GoodRecord, q

(* Calling every key restored keeps a record good. *)
LEMMA AllRestoredGood ==
    ASSUME NEW j \in Journals, NEW r, GoodRecord(j, r)
    PROVE  /\ GoodRecord(j, AllRestored(r))
           /\ Rekeyed(r, AllRestored(r))
           /\ \A k \in DOMAIN r.keys : AllRestored(r).keys[k].stage = "restored"
<1> DEFINE t == [k \in DOMAIN r.keys |-> [r.keys[k] EXCEPT !.stage = "restored"]]
<1> DEFINE q == AllRestored(r)
<1>s. /\ r = [keys |-> r.keys, created |-> r.created, created_hash |-> r.created_hash,
               pending_created_hash |-> r.pending_created_hash, stage |-> r.stage]
      /\ r.keys = [k \in DOMAIN r.keys |-> r.keys[k]]
      /\ r.stage \in Stages
      /\ \A k \in DOMAIN r.keys : r.keys[k] \in KeyRecords(j)
    BY RecordKeys
<1>0. \A k \in DOMAIN r.keys : r.keys[k] \in KeyRecords(j)
    BY RecordKeys
<1>1. \A k \in DOMAIN r.keys : /\ t[k] \in KeyRecords(j)
                               /\ t[k].before = r.keys[k].before
                               /\ t[k].stage = "restored"
    BY <1>0, KeyEdited, ZenonT(60)
<1>2. t = [k \in DOMAIN r.keys |-> t[k]]
    OBVIOUS
<1>3. q = [r EXCEPT !.stage = "restored", !.keys = t]
    BY DEF AllRestored
<1> HIDE DEF t, q
<1>4. q = [keys |-> t, created |-> r.created, created_hash |-> r.created_hash,
           pending_created_hash |-> r.pending_created_hash, stage |-> "restored"]
    BY <1>3, <1>s
<1>5. "restored" \in Stages
    BY DEF Stages
<1>6. GoodRecord(j, q) /\ Rekeyed(r, q) /\ q.keys = t
    BY <1>1, <1>2, <1>4, <1>5, NewTableGood
<1> QED BY <1>1, <1>6 DEF q

(* Restore's look at a file keeps the record good: it marks conflicts and  *)
(* what is back already.                                                   *)
LEMMA InspectedGood ==
    ASSUME NEW j \in Journals, NEW r, GoodRecord(j, r), NEW content, NEW seen
    PROVE  /\ GoodRecord(j, Inspected(r, content, seen))
           /\ Rekeyed(r, Inspected(r, content, seen))
           /\ \A k \in DOMAIN r.keys :
                 Inspected(r, content, seen).keys[k].stage = "restored" =>
                     r.keys[k].stage = "restored" \/ content[k] = r.keys[k].before
           /\ \A k \in DOMAIN r.keys \cap seen :
                 \/ Inspected(r, content, seen).keys[k].stage \in {"restored", "conflict"}
                 \/ k \in Reversible(r, content)
<1> DEFINE t == [k \in DOMAIN r.keys |->
                   IF k \in seen THEN KeyAfter(r.keys[k], content[k]) ELSE r.keys[k]]
<1> DEFINE q == Inspected(r, content, seen)
<1>s. /\ r = [keys |-> r.keys, created |-> r.created, created_hash |-> r.created_hash,
               pending_created_hash |-> r.pending_created_hash, stage |-> r.stage]
      /\ r.keys = [k \in DOMAIN r.keys |-> r.keys[k]]
      /\ r.stage \in Stages
      /\ \A k \in DOMAIN r.keys : r.keys[k] \in KeyRecords(j)
    BY RecordKeys
<1>0. \A k \in DOMAIN r.keys : /\ r.keys[k] \in KeyRecords(j)
                               /\ r.keys[k].stage \in {"owned", "conflict", "restored"}
    BY RecordKeys, KeyFields
<1>1. \A k \in DOMAIN r.keys : /\ t[k] \in KeyRecords(j)
                               /\ t[k].before = r.keys[k].before
                               /\ t[k].stage = "restored" => \/ r.keys[k].stage = "restored"
                                                             \/ content[k] = r.keys[k].before
    BY <1>0, KeyEdited DEF KeyAfter
<1>2. \A k \in DOMAIN r.keys \cap seen :
          t[k].stage \in {"restored", "conflict"} \/ k \in Reversible(r, content)
    <2> TAKE k \in DOMAIN r.keys \cap seen
    <2>1. t[k] = KeyAfter(r.keys[k], content[k])
        OBVIOUS
    <2>2. /\ [r.keys[k] EXCEPT !.stage = "restored"].stage = "restored"
          /\ [r.keys[k] EXCEPT !.stage = "conflict"].stage = "conflict"
        BY <1>0, KeyEdited, ZenonT(60)
    <2> HIDE DEF t
    <2> QED BY <2>1, <2>2 DEF KeyAfter, Reversible
<1>3. t = [k \in DOMAIN r.keys |-> t[k]]
    OBVIOUS
<1>4. q = [r EXCEPT !.keys = t]
    BY DEF Inspected
<1> HIDE DEF t, q
<1>5. q = [keys |-> t, created |-> r.created, created_hash |-> r.created_hash,
           pending_created_hash |-> r.pending_created_hash, stage |-> r.stage]
    BY <1>4, <1>s
<1>6. GoodRecord(j, q) /\ Rekeyed(r, q) /\ q.keys = t
    BY <1>1, <1>3, <1>5, <1>s, NewTableGood
<1> QED BY <1>1, <1>2, <1>6 DEF q

(* The record after a file was put back is good. *)
LEMMA SettledGood ==
    ASSUME NEW j \in Journals, NEW r, GoodRecord(j, r), NEW reversed
    PROVE  /\ GoodRecord(j, Settled(r, reversed))
           /\ Rekeyed(r, Settled(r, reversed))
           /\ \A k \in DOMAIN r.keys :
                 (Settled(r, reversed).keys[k].stage = "restored") <=>
                     (k \in reversed \/ r.keys[k].stage = "restored")
<1> DEFINE t == [k \in DOMAIN r.keys |->
                   IF k \in reversed THEN [r.keys[k] EXCEPT !.stage = "restored"]
                   ELSE r.keys[k]]
<1> DEFINE s == IF \A k \in DOMAIN t : t[k].stage = "restored"
                THEN "restored" ELSE "restore_conflict"
<1> DEFINE q == Settled(r, reversed)
<1>s. /\ r = [keys |-> r.keys, created |-> r.created, created_hash |-> r.created_hash,
               pending_created_hash |-> r.pending_created_hash, stage |-> r.stage]
      /\ r.keys = [k \in DOMAIN r.keys |-> r.keys[k]]
      /\ r.stage \in Stages
      /\ \A k \in DOMAIN r.keys : r.keys[k] \in KeyRecords(j)
    BY RecordKeys
<1>0. \A k \in DOMAIN r.keys : r.keys[k] \in KeyRecords(j)
    BY RecordKeys
<1>1. \A k \in DOMAIN r.keys : /\ t[k] \in KeyRecords(j)
                               /\ t[k].before = r.keys[k].before
                               /\ t[k].stage = IF k \in reversed THEN "restored"
                                               ELSE r.keys[k].stage
    BY <1>0, KeyEdited, ZenonT(60)
<1>2. t = [k \in DOMAIN r.keys |-> t[k]]
    OBVIOUS
<1>3. q = [r EXCEPT !.keys = t, !.stage = s]
    BY DEF Settled
<1>4. s \in Stages
    BY DEF Stages
<1> HIDE DEF t, q, s
<1>5. q = [keys |-> t, created |-> r.created, created_hash |-> r.created_hash,
           pending_created_hash |-> r.pending_created_hash, stage |-> s]
    BY <1>3, <1>s
<1>6. GoodRecord(j, q) /\ Rekeyed(r, q) /\ q.keys = t
    BY <1>1, <1>2, <1>4, <1>5, NewTableGood
<1> QED BY <1>1, <1>6 DEF q

-----------------------------------------------------------------------------
(* The parts of a journal, named. *)
Statuses == {"applying", "partial", "applied", "restoring", "restore_partial",
             "restore_conflicts", "restored", "failed"}

ResourceTables(j) == UNION {[S -> ResourceRecords(j)] : S \in SUBSET Files}

(* A journal, field by field. *)
LEMMA DocFields ==
    ASSUME NEW j \in Journals, NEW d, Recorded(j, d)
    PROVE  /\ d = [status |-> d.status, resources |-> d.resources]
           /\ d.status \in Statuses
           /\ DOMAIN d.resources \subseteq Files
           /\ d.resources = [f \in DOMAIN d.resources |-> d.resources[f]]
           /\ \A f \in DOMAIN d.resources : GoodRecord(j, d.resources[f])
           /\ d # NoJournal
           /\ d \in Documents(j)
<1>1. /\ d = [status |-> d.status, resources |-> d.resources]
      /\ d.status \in Statuses
      /\ d.resources \in ResourceTables(j)
    BY DEF Recorded, Documents, Statuses, ResourceTables
<1>2. /\ DOMAIN d.resources \subseteq Files
      /\ d.resources \in [DOMAIN d.resources -> ResourceRecords(j)]
    BY <1>1 DEF ResourceTables
<1>3. d # NoJournal
    BY PatchAssumption DEF Recorded
<1> QED BY <1>1, <1>2, <1>3 DEF Recorded, GoodRecord

(* A journal made of good records is a journal. *)
LEMMA DocMade ==
    ASSUME NEW j \in Journals, NEW d, NEW s \in Statuses, NEW t,
           d = [status |-> s, resources |-> t],
           DOMAIN t \subseteq Files, t = [f \in DOMAIN t |-> t[f]],
           \A f \in DOMAIN t : GoodRecord(j, t[f])
    PROVE  Recorded(j, d) /\ d.status = s /\ d.resources = t
<1>1. t \in [DOMAIN t -> ResourceRecords(j)]
    BY DEF GoodRecord
<1>2. t \in ResourceTables(j)
    BY <1>1 DEF ResourceTables
<1>3. d \in Documents(j)
    BY <1>2 DEF Documents, Statuses, ResourceTables
<1>4. d.status = s /\ d.resources = t
    OBVIOUS
<1> QED BY <1>3, <1>4 DEF Recorded, GoodRecord

(* Replacing one record of a journal leaves the others alone. *)
LEMMA DocWith ==
    ASSUME NEW j \in Journals, NEW d, Recorded(j, d), NEW f \in DOMAIN d.resources,
           NEW r, GoodRecord(j, r), NEW e, e = [d EXCEPT !.resources[f] = r]
    PROVE  /\ Recorded(j, e) /\ e.status = d.status
           /\ DOMAIN e.resources = DOMAIN d.resources
           /\ e.resources[f] = r
           /\ \A g \in DOMAIN d.resources \ {f} : e.resources[g] = d.resources[g]
<1> DEFINE t == [d.resources EXCEPT ![f] = r]
<1>1. /\ d = [status |-> d.status, resources |-> d.resources] /\ d.status \in Statuses
      /\ DOMAIN d.resources \subseteq Files
      /\ d.resources = [g \in DOMAIN d.resources |-> d.resources[g]]
      /\ \A g \in DOMAIN d.resources : GoodRecord(j, d.resources[g])
    BY DocFields
<1>2. e = [d EXCEPT !.resources = t]
    OBVIOUS
<1>3. /\ DOMAIN t = DOMAIN d.resources /\ t = [g \in DOMAIN t |-> t[g]] /\ t[f] = r
      /\ \A g \in DOMAIN d.resources \ {f} : t[g] = d.resources[g]
    BY <1>1
<1> HIDE DEF t
<1>4. e = [status |-> d.status, resources |-> t]
    BY <1>1, <1>2
<1>5. \A g \in DOMAIN t : GoodRecord(j, t[g])
    BY <1>1, <1>3
<1>6. Recorded(j, e) /\ e.status = d.status /\ e.resources = t
    BY <1>1, <1>3, <1>4, <1>5, DocMade
<1> QED BY <1>3, <1>6

(* A new status changes nothing else of a journal. *)
LEMMA DocStatus ==
    ASSUME NEW j \in Journals, NEW d, Recorded(j, d), NEW s \in Statuses,
           NEW e, e = [d EXCEPT !.status = s]
    PROVE  Recorded(j, e) /\ e.status = s /\ e.resources = d.resources
<1>1. /\ d = [status |-> d.status, resources |-> d.resources]
      /\ DOMAIN d.resources \subseteq Files
      /\ d.resources = [g \in DOMAIN d.resources |-> d.resources[g]]
      /\ \A g \in DOMAIN d.resources : GoodRecord(j, d.resources[g])
    BY DocFields
<1>2. e = [status |-> s, resources |-> d.resources]
    BY <1>1
<1> QED BY <1>1, <1>2, DocMade

(* How a command that stops with an error leaves its journal. *)
Stopped(d, f, s) == [d EXCEPT !.status = s, !.resources[f].stage = "failed"]

(* Stopping at a file changes a status and a stage, and no key. *)
LEMMA DocStopped ==
    ASSUME NEW j \in Journals, NEW d, Recorded(j, d), NEW f \in DOMAIN d.resources,
           NEW s \in Statuses
    PROVE  /\ Recorded(j, Stopped(d, f, s)) /\ Stopped(d, f, s).status = s
           /\ DOMAIN Stopped(d, f, s).resources = DOMAIN d.resources
           /\ \A g \in DOMAIN d.resources :
                 /\ Stopped(d, f, s).resources[g].keys = d.resources[g].keys
                 /\ Stopped(d, f, s).resources[g].created = d.resources[g].created
<1> DEFINE u == [d EXCEPT !.status = s]
<1> DEFINE fail == "failed"
<1> DEFINE e == Stopped(d, f, s)
<1>1. Recorded(j, u) /\ u.status = s /\ u.resources = d.resources
    BY DocStatus
<1>2. f \in DOMAIN u.resources
    BY <1>1
<1>3. fail \in Stages
    BY DEF Stages
<1> DEFINE r == [u.resources[f] EXCEPT !.stage = fail]
<1>4. e = [u EXCEPT !.resources[f] = r]
    BY DEF Stopped
<1> HIDE DEF u, fail, e
<1>5. GoodRecord(j, u.resources[f])
    BY <1>1, <1>2, DocFields
<1>6. GoodRecord(j, r) /\ r.keys = u.resources[f].keys /\ Rekeyed(u.resources[f], r)
    BY <1>3, <1>5, StagedGood
<1>7. r.created = u.resources[f].created
    BY <1>6 DEF Rekeyed
<1> HIDE DEF r
<1>8. /\ Recorded(j, e) /\ e.status = u.status
      /\ DOMAIN e.resources = DOMAIN u.resources
      /\ e.resources[f] = r
      /\ \A g \in DOMAIN u.resources \ {f} : e.resources[g] = u.resources[g]
    BY <1>1, <1>2, <1>4, <1>6, DocWith
<1> QED BY <1>1, <1>6, <1>7, <1>8 DEF e

-----------------------------------------------------------------------------
(* A step of journal j's command. *)
LEMMA Moved ==
    ASSUME PatchInv, NEW j \in Journals, NEW c, NEW d,
           op' = [op EXCEPT ![j] = c], OpOk(j, c),
           disk' = [disk EXCEPT ![j] = d], d = NoJournal \/ Recorded(j, d),
           file' \in [Files -> Contained],
           spent' \in [applies : Nat, crashes : Nat, edits : Nat]
    PROVE  PatchInv' /\ op'[j] = c /\ disk'[j] = d
<1>1. op = [i \in Journals |-> op[i]] /\ disk = [i \in Journals |-> disk[i]]
    BY DEF PatchInv
<1>2. /\ op' = [i \in Journals |-> IF i = j THEN c ELSE op[i]]
      /\ disk' = [i \in Journals |-> IF i = j THEN d ELSE disk[i]]
    BY <1>1
<1>3. op' = [i \in Journals |-> op'[i]] /\ disk' = [i \in Journals |-> disk'[i]]
    BY <1>2
<1>4. op'[j] = c /\ disk'[j] = d
    BY <1>2
<1>5. \A i \in Journals : disk'[i] = NoJournal \/ Recorded(i, disk'[i])
    BY <1>2 DEF PatchInv
<1>6. \A i \in Journals : OpOk(i, op'[i])
    BY <1>2 DEF PatchInv
<1> QED BY <1>3, <1>4, <1>5, <1>6 DEF PatchInv

(* What a step that leaves files and saved journals alone needs. *)
LEMMA DiskKept ==
    ASSUME PatchInv, NEW j \in Journals
    PROVE  disk = [disk EXCEPT ![j] = disk[j]] /\ (disk[j] = NoJournal \/ Recorded(j, disk[j]))
           /\ file \in [Files -> Contained]
           /\ spent \in [applies : Nat, crashes : Nat, edits : Nat]
           /\ OpOk(j, op[j]) /\ OpOk(j, Idle)
BY DEF PatchInv, OpOk

(* A save of a good journal keeps the invariant. *)
LEMMA SaveInv ==
    ASSUME PatchInv, NEW j \in Journals, NEW doc, NEW next, Save(j, doc, next),
           Recorded(j, doc), OpOk(j, next), file' \in [Files -> Contained],
           spent' \in [applies : Nat, crashes : Nat, edits : Nat]
    PROVE  PatchInv' /\ op'[j] = next /\ disk'[j] = doc
BY Moved DEF Save

(* So does stopping with an error, whether the save succeeds or not. *)
LEMMA StopInv ==
    ASSUME PatchInv, NEW j \in Journals, NEW doc, Recorded(j, doc),
           NEW f \in DOMAIN doc.resources, NEW s \in Statuses, StopWith(j, f, doc, s),
           file' \in [Files -> Contained]
    PROVE  PatchInv' /\ op'[j] = Idle
<1> DEFINE e == Stopped(doc, f, s)
<1>1. Recorded(j, e)
    BY DocStopped
<1>2. op' = [op EXCEPT ![j] = Idle] /\ spent' = spent
    BY DEF StopWith, GiveUp
<1>3. disk' = disk \/ disk' = [disk EXCEPT ![j] = e]
    BY DEF StopWith, Stopped
<1> HIDE DEF e
<1>4. /\ disk = [disk EXCEPT ![j] = disk[j]] /\ (disk[j] = NoJournal \/ Recorded(j, disk[j]))
      /\ OpOk(j, Idle) /\ spent \in [applies : Nat, crashes : Nat, edits : Nat]
    BY DiskKept
<1>5. CASE disk' = disk
    BY <1>2, <1>4, <1>5, Moved
<1>6. CASE disk' = [disk EXCEPT ![j] = e]
    BY <1>1, <1>2, <1>4, <1>6, Moved
<1> QED BY <1>3, <1>5, <1>6

-----------------------------------------------------------------------------
(* The contents an apply has seen in its preview. *)
Expectations == UNION {[S -> Contained] : S \in SUBSET Files}

(* An apply's command, field by field. *)
LEMMA PhaseApply ==
    ASSUME NEW j \in Journals, NEW c, OpOk(j, c),
           c.phase \in {"applying", "prepared", "published", "recorded"}
    PROVE  /\ ApplyOk(j, c) /\ c # Idle
           /\ c = [phase |-> c.phase, expected |-> c.expected, edits |-> c.edits, doc |-> c.doc,
                   todo |-> c.todo, at |-> c.at, applied |-> c.applied]
           /\ c.expected \in Expectations /\ c.edits \in Edits(j)
           /\ c.todo \in SUBSET Files /\ c.at \in Files \cup {NoJournal} /\ c.applied \in BOOLEAN
           /\ c.todo \subseteq DOMAIN c.doc.resources
           /\ Recorded(j, c.doc) /\ c.doc.status # "restored"
<1>1. c # Idle
    BY DEF Idle
<1>2. ~RestoreOk(j, c)
    BY DEF RestoreOk, Restores
<1>3. ApplyOk(j, c)
    BY <1>1, <1>2 DEF OpOk
<1>4. c \in Applies(j)
    BY <1>3 DEF ApplyOk
<1>5. /\ c = [phase |-> c.phase, expected |-> c.expected, edits |-> c.edits, doc |-> c.doc,
              todo |-> c.todo, at |-> c.at, applied |-> c.applied]
      /\ c.expected \in Expectations /\ c.edits \in Edits(j)
      /\ c.todo \in SUBSET Files /\ c.at \in Files \cup {NoJournal} /\ c.applied \in BOOLEAN
    BY <1>4 DEF Applies, Expectations
<1> QED BY <1>1, <1>3, <1>5 DEF ApplyOk

(* A command made of such fields is an apply. *)
LEMMA ApplyMade ==
    ASSUME NEW j \in Journals, NEW ph \in {"applying", "prepared", "published", "recorded"},
           NEW ex \in Expectations, NEW ed \in Edits(j), NEW doc, Recorded(j, doc),
           doc.status # "restored", NEW todo \in SUBSET Files, todo \subseteq DOMAIN doc.resources,
           NEW at \in Files \cup {NoJournal}, NEW ap \in BOOLEAN,
           ph # "applying" => at \in DOMAIN doc.resources /\ Ready(doc.resources[at], ed),
           NEW c, c = [phase |-> ph, expected |-> ex, edits |-> ed, doc |-> doc,
                       todo |-> todo, at |-> at, applied |-> ap]
    PROVE  OpOk(j, c)
<1>1. doc \in Documents(j)
    BY DocFields
<1>2. c \in Applies(j)
    BY <1>1 DEF Applies, Expectations
<1>3. c.phase = ph /\ c.edits = ed /\ c.doc = doc /\ c.todo = todo /\ c.at = at
    OBVIOUS
<1>4. ApplyOk(j, c)
    BY <1>2, <1>3 DEF ApplyOk
<1> QED BY <1>4 DEF OpOk

(* A restore's command, field by field. *)
LEMMA PhaseRestore ==
    ASSUME NEW j \in Journals, NEW c, OpOk(j, c), c.phase \in {"restoring", "decided"}
    PROVE  /\ RestoreOk(j, c) /\ c # Idle
           /\ c = [phase |-> c.phase, doc |-> c.doc, kept |-> c.kept, at |-> c.at,
                   todo |-> c.todo, settled |-> c.settled, candidate |-> c.candidate]
           /\ c.kept \in BOOLEAN /\ c.todo \in SUBSET Files
           /\ c.todo \subseteq DOMAIN c.doc.resources
           /\ Recorded(j, c.doc) /\ c.doc.status # "restored"
           /\ c.phase = "decided" => c.at \in c.todo /\ GoodRecord(j, c.settled)
<1>1. c # Idle
    BY DEF Idle
<1>2. ~ApplyOk(j, c)
    BY DEF ApplyOk, Applies
<1>3. RestoreOk(j, c)
    BY <1>1, <1>2 DEF OpOk
<1>4. c \in Restores(j)
    BY <1>3 DEF RestoreOk
<1>5. /\ c = [phase |-> c.phase, doc |-> c.doc, kept |-> c.kept, at |-> c.at,
              todo |-> c.todo, settled |-> c.settled, candidate |-> c.candidate]
      /\ c.kept \in BOOLEAN /\ c.todo \in SUBSET Files
    BY <1>4 DEF Restores
<1> QED BY <1>1, <1>3, <1>5 DEF RestoreOk

(* A command made of such fields is a restore. *)
LEMMA RestoreMade ==
    ASSUME NEW j \in Journals, NEW ph \in {"restoring", "decided"}, NEW doc, Recorded(j, doc),
           doc.status # "restored", NEW kept \in BOOLEAN, NEW at \in Files \cup {NoJournal},
           NEW todo \in SUBSET Files, todo \subseteq DOMAIN doc.resources,
           NEW settled, ph = "decided" => at \in todo /\ GoodRecord(j, settled),
           ph = "restoring" => settled = NoHash,
           NEW cand \in Contents \cup {NoHash},
           NEW c, c = [phase |-> ph, doc |-> doc, kept |-> kept, at |-> at,
                       todo |-> todo, settled |-> settled, candidate |-> cand]
    PROVE  OpOk(j, c)
<1>1. doc \in Documents(j)
    BY DocFields
<1>2. settled \in ResourceRecords(j) \cup {NoHash}
    BY DEF GoodRecord
<1>3. c \in Restores(j)
    BY <1>1, <1>2 DEF Restores
<1>4. c.phase = ph /\ c.doc = doc /\ c.todo = todo /\ c.at = at /\ c.settled = settled
    OBVIOUS
<1>5. RestoreOk(j, c)
    BY <1>3, <1>4 DEF RestoreOk
<1> QED BY <1>5 DEF OpOk

(* An apply continues the journal on disk or begins a new one. *)
LEMMA ContinuedGood ==
    ASSUME PatchInv, NEW j \in Journals
    PROVE  Recorded(j, Continued(j))
<1>1. Recorded(j, NewDocument)
    <2> DEFINE t == [f \in {} |-> NoHash]
    <2>1. t \in [{} -> ResourceRecords(j)] /\ DOMAIN t = {}
        OBVIOUS
    <2>2. NewDocument = [status |-> "applying", resources |-> t]
        BY DEF NewDocument
    <2> HIDE DEF t
    <2>3. t \in ResourceTables(j)
        BY <2>1 DEF ResourceTables
    <2>4. NewDocument \in Documents(j) /\ NewDocument.resources = t
        BY <2>2, <2>3 DEF Documents, ResourceTables
    <2> QED BY <2>1, <2>4 DEF Recorded
<1> QED BY <1>1 DEF Continued, PatchInv

(* A plan keeps the records there are and adds empty ones. *)
LEMMA PlannedGood ==
    ASSUME PatchInv, NEW j \in Journals, NEW expected \in Expectations
    PROVE  /\ Recorded(j, Planned(j, expected))
           /\ Planned(j, expected).status = "applying"
           /\ DOMAIN Planned(j, expected).resources =
                 DOMAIN Continued(j).resources \cup DOMAIN expected
           /\ \A f \in DOMAIN Continued(j).resources :
                 Planned(j, expected).resources[f] = Continued(j).resources[f]
           /\ \A f \in DOMAIN expected \ DOMAIN Continued(j).resources :
                 Planned(j, expected).resources[f] = NewRecord(expected[f])
<1> DEFINE doc == Continued(j)
<1> DEFINE t == [f \in DOMAIN doc.resources \cup DOMAIN expected |->
                   IF f \in DOMAIN doc.resources THEN doc.resources[f]
                   ELSE NewRecord(expected[f])]
<1> DEFINE p == Planned(j, expected)
<1> DEFINE s == "applying"
<1>1. p = [status |-> s, resources |-> t]
    BY DEF Planned
<1>2. Recorded(j, doc)
    BY ContinuedGood
<1> HIDE DEF doc
<1>3. /\ DOMAIN doc.resources \subseteq Files
      /\ \A f \in DOMAIN doc.resources : GoodRecord(j, doc.resources[f])
    BY <1>2, DocFields
<1>4. DOMAIN expected \subseteq Files
    BY DEF Expectations
<1>5. \A f \in DOMAIN t : GoodRecord(j, t[f])
    BY <1>3, NewRecordGood
<1>6. DOMAIN t \subseteq Files /\ t = [f \in DOMAIN t |-> t[f]] /\ s \in Statuses
    BY <1>3, <1>4 DEF Statuses
<1>7. /\ DOMAIN t = DOMAIN doc.resources \cup DOMAIN expected
      /\ \A f \in DOMAIN doc.resources : t[f] = doc.resources[f]
      /\ \A f \in DOMAIN expected \ DOMAIN doc.resources : t[f] = NewRecord(expected[f])
    OBVIOUS
<1> HIDE DEF t, p, s
<1>8. Recorded(j, p) /\ p.status = s /\ p.resources = t
    BY <1>1, <1>5, <1>6, DocMade
<1> QED BY <1>7, <1>8 DEF doc, p, s

-----------------------------------------------------------------------------
(* A preview shows the files as they are. *)
LEMMA PreviewedGood ==
    ASSUME PatchInv, NEW j \in Journals, NEW t \in Previewed(j)
    PROVE  /\ t.expected \in Expectations /\ t.edits \in Edits(j)
           /\ \A f \in DOMAIN t.expected : t.expected[f] = file[f]
<1>1. PICK S \in SUBSET Files \ {{}}, K \in SUBSET Keys \ {{}}, v \in Gateway[j] \cup {NoValue} :
          t = [expected |-> Restrict(file, S), edits |-> [k \in K |-> v]]
    BY DEF Previewed
<1>2. t.expected = [f \in S |-> file[f]] /\ t.edits = [k \in K |-> v]
    BY <1>1 DEF Restrict
<1>3. t.expected \in [S -> Contained]
    BY <1>2 DEF PatchInv
<1>4. t.edits \in [K -> Own(j)]
    BY <1>2 DEF Own
<1>5. t.expected \in Expectations
    BY <1>3 DEF Expectations
<1>6. t.edits \in Edits(j)
    BY <1>4 DEF Edits
<1> QED BY <1>2, <1>5, <1>6

(* The first save of an apply keeps the invariant. *)
LEMMA BeginApplyInv ==
    ASSUME PatchInv, NEW j \in Journals, BeginApply(j)
    PROVE  PatchInv'
<1>1. PICK t \in Previewed(j) :
          Save(j, Planned(j, t.expected), Applying(t.expected, t.edits, Planned(j, t.expected)))
    BY DEF BeginApply
<1> DEFINE doc == Planned(j, t.expected)
<1> DEFINE c == Applying(t.expected, t.edits, doc)
<1> DEFINE ph == "applying"
<1>2. t.expected \in Expectations /\ t.edits \in Edits(j)
    BY PreviewedGood
<1>3. /\ Recorded(j, doc) /\ doc.status = "applying"
      /\ DOMAIN t.expected \subseteq DOMAIN doc.resources
    BY <1>2, PlannedGood
<1>4. c = [phase |-> ph, expected |-> t.expected, edits |-> t.edits, doc |-> doc,
           todo |-> DOMAIN t.expected, at |-> NoJournal, applied |-> FALSE]
    BY DEF Applying
<1>5. DOMAIN t.expected \in SUBSET Files
    BY <1>2 DEF Expectations
<1>6. ph \in {"applying", "prepared", "published", "recorded"} /\ ph = "applying"
    OBVIOUS
<1> HIDE DEF doc, c, ph
<1>7. doc.status # "restored"
    BY <1>3
<1>8. OpOk(j, c)
    BY <1>2, <1>3, <1>4, <1>5, <1>6, <1>7, ApplyMade
<1>9. file' = file /\ spent' = [spent EXCEPT !.applies = @ + 1]
    BY DEF BeginApply
<1>10. file' \in [Files -> Contained] /\ spent' \in [applies : Nat, crashes : Nat, edits : Nat]
    BY <1>9 DEF PatchInv
<1> QED BY <1>1, <1>3, <1>8, <1>10, SaveInv DEF doc, c

(* An apply that fails at a file keeps the invariant. *)
LEMMA ApplyFailsInv ==
    ASSUME PatchInv, NEW j \in Journals, NEW doc, Recorded(j, doc),
           NEW f \in DOMAIN doc.resources, ApplyFails(j, f, doc), file' \in [Files -> Contained]
    PROVE  PatchInv' /\ op'[j] = Idle
<1> DEFINE s == IF op[j].applied THEN "partial" ELSE "failed"
<1>1. StopWith(j, f, doc, s)
    BY DEF ApplyFails
<1>2. s \in Statuses
    BY DEF Statuses
<1> HIDE DEF s
<1> QED BY <1>1, <1>2, StopInv

(* A restore that fails at a file keeps the invariant. *)
LEMMA RestoreFailsInv ==
    ASSUME PatchInv, NEW j \in Journals, NEW doc, Recorded(j, doc),
           NEW f \in DOMAIN doc.resources, RestoreFails(j, f, doc), file' \in [Files -> Contained]
    PROVE  PatchInv' /\ op'[j] = Idle
<1> DEFINE s == "restore_partial"
<1>1. StopWith(j, f, doc, s)
    BY DEF RestoreFails
<1>2. s \in Statuses
    BY DEF Statuses
<1> HIDE DEF s
<1> QED BY <1>1, <1>2, StopInv

(* So does a command that could not save its last journal. *)
LEMMA GiveUpInv ==
    ASSUME PatchInv, NEW j \in Journals, NEW doc, Recorded(j, doc), NEW s \in Statuses,
           GiveUp(j), disk' = disk \/ disk' = [disk EXCEPT ![j] = [doc EXCEPT !.status = s]],
           file' = file
    PROVE  PatchInv' /\ op'[j] = Idle
<1> DEFINE e == [doc EXCEPT !.status = s]
<1>1. Recorded(j, e)
    BY DocStatus
<1>2. op' = [op EXCEPT ![j] = Idle] /\ spent' = spent
    BY DEF GiveUp
<1>3. disk' = disk \/ disk' = [disk EXCEPT ![j] = e]
    OBVIOUS
<1> HIDE DEF e
<1>4. /\ disk = [disk EXCEPT ![j] = disk[j]] /\ (disk[j] = NoJournal \/ Recorded(j, disk[j]))
      /\ OpOk(j, Idle) /\ spent \in [applies : Nat, crashes : Nat, edits : Nat]
      /\ file \in [Files -> Contained]
    BY DiskKept
<1>5. CASE disk' = disk
    BY <1>2, <1>4, <1>5, Moved
<1>6. CASE disk' = [disk EXCEPT ![j] = e]
    BY <1>1, <1>2, <1>4, <1>6, Moved
<1> QED BY <1>3, <1>5, <1>6

(* Backing a file up keeps the invariant. *)
LEMMA PrepareInv ==
    ASSUME PatchInv, NEW j \in Journals, Prepare(j)
    PROVE  PatchInv'
<1> DEFINE c == op[j]
<1>1. c.phase = "applying" /\ OpOk(j, c) /\ file' = file /\ file \in [Files -> Contained]
    BY DiskKept DEF Prepare
<1>2. PICK f \in c.todo :
          LET r == c.doc.resources[f]
              With(record) == [c.doc EXCEPT !.resources[f] = record]
              doc == With(BackedUp(r, file[f], c.edits))
          IN  \/ ApplyFails(j, f, c.doc)
              \/ /\ Save(j, doc, [c EXCEPT !.phase = "prepared", !.doc = doc, !.at = f])
                 /\ UNCHANGED spent
              \/ ApplyFails(j, f, With(Downgraded(r, file[f])))
              \/ ApplyFails(j, f, doc)
    BY DEF Prepare
<1> DEFINE r == c.doc.resources[f]
<1> DEFINE up == BackedUp(r, file[f], c.edits)
<1> DEFINE down == Downgraded(r, file[f])
<1> DEFINE doc == [c.doc EXCEPT !.resources[f] = up]
<1> DEFINE low == [c.doc EXCEPT !.resources[f] = down]
<1> DEFINE n == [c EXCEPT !.phase = "prepared", !.doc = doc, !.at = f]
<1>3. \/ ApplyFails(j, f, c.doc)
      \/ Save(j, doc, n) /\ spent' = spent
      \/ ApplyFails(j, f, low)
      \/ ApplyFails(j, f, doc)
    BY <1>2
<1> HIDE <1>2
<1> HIDE DEF c
<1>4. /\ c.expected \in Expectations /\ c.edits \in Edits(j)
      /\ c.todo \in SUBSET Files /\ c.at \in Files \cup {NoJournal} /\ c.applied \in BOOLEAN
      /\ c.todo \subseteq DOMAIN c.doc.resources
      /\ Recorded(j, c.doc) /\ c.doc.status # "restored"
      /\ c = [phase |-> c.phase, expected |-> c.expected, edits |-> c.edits, doc |-> c.doc,
              todo |-> c.todo, at |-> c.at, applied |-> c.applied]
    BY <1>1, PhaseApply
<1>5. f \in DOMAIN c.doc.resources /\ f \in Files
    BY <1>4
<1>6. GoodRecord(j, r) /\ file[f] \in Contained
    BY <1>1, <1>4, <1>5, DocFields
<1>7. GoodRecord(j, up) /\ Ready(up, c.edits) /\ GoodRecord(j, down)
    BY <1>4, <1>6, BackedUpGood, DowngradedGood
<1> HIDE DEF up, down
<1>9. /\ Recorded(j, doc) /\ doc.status = c.doc.status
      /\ DOMAIN doc.resources = DOMAIN c.doc.resources /\ doc.resources[f] = up
    BY <1>4, <1>5, <1>7, DocWith
<1>10. Recorded(j, low) /\ DOMAIN low.resources = DOMAIN c.doc.resources
    BY <1>4, <1>5, <1>7, DocWith
<1> HIDE DEF doc, low
<1>8. c \in Applies(j) /\ doc \in Documents(j)
    BY <1>1, <1>9, PhaseApply, DocFields DEF ApplyOk
<1>11. /\ n \in Applies(j) /\ n.phase = "prepared" /\ n.doc = doc /\ n.at = f
       /\ n.todo = c.todo /\ n.edits = c.edits
    BY <1>5, <1>8 DEF Applies
<1> HIDE DEF n
<1>13. OpOk(j, n)
    BY <1>4, <1>5, <1>7, <1>9, <1>11 DEF OpOk, ApplyOk
<1>14. /\ file' \in [Files -> Contained]
       /\ spent \in [applies : Nat, crashes : Nat, edits : Nat]
    BY <1>1, DiskKept
<1>15. CASE ApplyFails(j, f, c.doc)
    BY <1>4, <1>5, <1>14, <1>15, ApplyFailsInv
<1>16. CASE Save(j, doc, n) /\ spent' = spent
    BY <1>9, <1>13, <1>14, <1>16, SaveInv
<1>17. CASE ApplyFails(j, f, low)
    BY <1>5, <1>10, <1>14, <1>17, ApplyFailsInv
<1>18. CASE ApplyFails(j, f, doc)
    BY <1>5, <1>9, <1>14, <1>18, ApplyFailsInv
<1> QED BY <1>3, <1>15, <1>16, <1>17, <1>18

(* Replacing a file keeps the invariant. *)
LEMMA PublishInv ==
    ASSUME PatchInv, NEW j \in Journals, Publish(j)
    PROVE  PatchInv'
<1> DEFINE c == op[j]
<1> DEFINE f == c.at
<1> DEFINE new == RenderEdits(file[f], c.edits)
<1> DEFINE n == [c EXCEPT !.phase = "published"]
<1>1. c.phase = "prepared" /\ OpOk(j, c) /\ file \in [Files -> Contained]
    BY DiskKept DEF Publish
<1>2. \/ /\ file' = [file EXCEPT ![f] = new]
         /\ op' = [op EXCEPT ![j].phase = "published"] /\ disk' = disk /\ spent' = spent
      \/ /\ file' = [file EXCEPT ![f] = new] \/ file' = file
         /\ ApplyFails(j, f, c.doc)
    BY DEF Publish, AtomicWriteClient
<1>3. op' = [op EXCEPT ![j].phase = "published"] => op' = [op EXCEPT ![j] = n]
    OBVIOUS
<1> HIDE DEF c
<1>4. /\ ApplyOk(j, c) /\ c.edits \in Edits(j) /\ Recorded(j, c.doc)
      /\ f \in DOMAIN c.doc.resources /\ Ready(c.doc.resources[f], c.edits)
    BY <1>1, PhaseApply DEF ApplyOk
<1>5. f \in Files
    BY <1>4, DocFields
<1>6. new \in Contained
    BY <1>1, <1>4, <1>5, Rendered DEF Contained
<1> HIDE DEF new
<1>7. file' \in [Files -> Contained]
    BY <1>1, <1>2, <1>5, <1>6
<1>8. /\ n \in Applies(j) /\ n.phase = "published" /\ n.doc = c.doc /\ n.at = c.at
      /\ n.todo = c.todo /\ n.edits = c.edits
    BY <1>4 DEF Applies, ApplyOk
<1> HIDE DEF n
<1>9. OpOk(j, n)
    BY <1>4, <1>8 DEF OpOk, ApplyOk
<1>10. CASE op' = [op EXCEPT ![j].phase = "published"] /\ disk' = disk /\ spent' = spent
    <2>1. op' = [op EXCEPT ![j] = n]
        BY <1>3, <1>10
    <2>2. /\ disk' = [disk EXCEPT ![j] = disk[j]] /\ (disk[j] = NoJournal \/ Recorded(j, disk[j]))
          /\ spent' \in [applies : Nat, crashes : Nat, edits : Nat]
        BY <1>10, DiskKept
    <2> QED BY <1>7, <1>9, <2>1, <2>2, Moved
<1>11. CASE ApplyFails(j, f, c.doc)
    BY <1>4, <1>7, <1>11, ApplyFailsInv
<1> QED BY <1>2, <1>10, <1>11

(* Saving a file as written keeps the invariant. *)
LEMMA RecordInv ==
    ASSUME PatchInv, NEW j \in Journals, Record(j)
    PROVE  PatchInv'
<1> DEFINE c == op[j]
<1> DEFINE f == c.at
<1> DEFINE s == "written"
<1> DEFINE r == [c.doc.resources[f] EXCEPT !.stage = s]
<1> DEFINE doc == [c.doc EXCEPT !.resources[f] = r]
<1> DEFINE n == [c EXCEPT !.phase = "recorded", !.doc = doc]
<1>1. c.phase = "published" /\ OpOk(j, c) /\ file' \in [Files -> Contained]
    BY DiskKept DEF Record
<1>2. doc = [c.doc EXCEPT !.resources[f].stage = "written"]
    OBVIOUS
<1>3. \/ Save(j, doc, n) /\ spent' = spent
      \/ ApplyFails(j, f, doc)
    BY <1>2 DEF Record
<1>4. s \in Stages
    BY DEF Stages
<1> HIDE <1>2
<1> HIDE DEF c, s
<1>5. /\ ApplyOk(j, c) /\ c.edits \in Edits(j) /\ Recorded(j, c.doc)
      /\ f \in DOMAIN c.doc.resources /\ Ready(c.doc.resources[f], c.edits)
      /\ c.todo \subseteq DOMAIN c.doc.resources /\ c.doc.status # "restored"
    BY <1>1, PhaseApply DEF ApplyOk
<1>6. GoodRecord(j, c.doc.resources[f]) /\ f \in Files
    BY <1>5, DocFields
<1>7. /\ GoodRecord(j, r) /\ r.keys = c.doc.resources[f].keys
      /\ r.pending_created_hash = c.doc.resources[f].pending_created_hash
      /\ Rekeyed(c.doc.resources[f], r)
    BY <1>4, <1>6, StagedGood
<1>8. Ready(r, c.edits)
    BY <1>5, <1>7 DEF Ready, Rekeyed
<1> HIDE DEF r
<1>9. /\ Recorded(j, doc) /\ doc.status = c.doc.status
      /\ DOMAIN doc.resources = DOMAIN c.doc.resources /\ doc.resources[f] = r
    BY <1>5, <1>7, DocWith
<1>10. c \in Applies(j) /\ doc \in Documents(j)
    BY <1>5, <1>9, DocFields DEF ApplyOk
<1> HIDE DEF doc
<1>11. /\ n \in Applies(j) /\ n.phase = "recorded" /\ n.doc = doc /\ n.at = c.at
       /\ n.todo = c.todo /\ n.edits = c.edits
    BY <1>10 DEF Applies
<1> HIDE DEF n
<1>12. OpOk(j, n)
    BY <1>5, <1>8, <1>9, <1>11 DEF OpOk, ApplyOk
<1>13. CASE Save(j, doc, n) /\ spent' = spent
    <2>1. spent' \in [applies : Nat, crashes : Nat, edits : Nat]
        BY <1>13, DiskKept
    <2> QED BY <1>1, <1>9, <1>12, <1>13, <2>1, SaveInv
<1>14. CASE ApplyFails(j, f, doc)
    BY <1>1, <1>5, <1>9, <1>14, ApplyFailsInv
<1> QED BY <1>3, <1>13, <1>14

(* Reading a file back keeps the invariant. *)
LEMMA VerifyInv ==
    ASSUME PatchInv, NEW j \in Journals, Verify(j)
    PROVE  PatchInv'
<1> DEFINE c == op[j]
<1> DEFINE f == c.at
<1> DEFINE r == Verified(c.doc.resources[f], c.edits)
<1> DEFINE doc == [c.doc EXCEPT !.resources[f] = r]
<1> DEFINE n == [c EXCEPT !.phase = "applying", !.doc = doc, !.todo = @ \ {f}, !.applied = TRUE]
<1>1. c.phase = "recorded" /\ OpOk(j, c) /\ file' \in [Files -> Contained]
    BY DiskKept DEF Verify
<1>2. doc = [c.doc EXCEPT !.resources[f] = Verified(@, c.edits)]
    OBVIOUS
<1>3. \/ Save(j, doc, n) /\ spent' = spent
      \/ ApplyFails(j, f, doc)
      \/ ApplyFails(j, f, c.doc)
    BY <1>2 DEF Verify
<1> HIDE <1>2
<1> HIDE DEF c
<1>5. /\ ApplyOk(j, c) /\ c.edits \in Edits(j) /\ Recorded(j, c.doc)
      /\ f \in DOMAIN c.doc.resources /\ Ready(c.doc.resources[f], c.edits)
      /\ c.todo \subseteq DOMAIN c.doc.resources /\ c.doc.status # "restored"
    BY <1>1, PhaseApply DEF ApplyOk
<1>6. GoodRecord(j, c.doc.resources[f]) /\ f \in Files
    BY <1>5, DocFields
<1>7. GoodRecord(j, r)
    BY <1>5, <1>6, VerifiedGood
<1> HIDE DEF r
<1>9. /\ Recorded(j, doc) /\ doc.status = c.doc.status
      /\ DOMAIN doc.resources = DOMAIN c.doc.resources /\ doc.resources[f] = r
    BY <1>5, <1>7, DocWith
<1>10. c \in Applies(j) /\ doc \in Documents(j)
    BY <1>5, <1>9, DocFields DEF ApplyOk
<1> HIDE DEF doc
<1>11. /\ n \in Applies(j) /\ n.phase = "applying" /\ n.doc = doc /\ n.todo = c.todo \ {f}
    BY <1>10 DEF Applies
<1> HIDE DEF n
<1>12. OpOk(j, n)
    BY <1>5, <1>9, <1>11 DEF OpOk, ApplyOk
<1>13. CASE Save(j, doc, n) /\ spent' = spent
    <2>1. spent' \in [applies : Nat, crashes : Nat, edits : Nat]
        BY <1>13, DiskKept
    <2> QED BY <1>1, <1>9, <1>12, <1>13, <2>1, SaveInv
<1>14. CASE ApplyFails(j, f, doc)
    BY <1>1, <1>5, <1>9, <1>14, ApplyFailsInv
<1>15. CASE ApplyFails(j, f, c.doc)
    BY <1>1, <1>5, <1>15, ApplyFailsInv
<1> QED BY <1>3, <1>13, <1>14, <1>15

(* The last save of either command keeps the invariant. *)
LEMMA FinishInv ==
    ASSUME PatchInv, NEW j \in Journals, FinishApply(j) \/ FinishRestore(j)
    PROVE  PatchInv'
<1> DEFINE s == IF op[j].phase = "applying" THEN "applied" ELSE RestoreStatus(op[j])
<1> DEFINE c == op[j]
<1>1. /\ OpOk(j, c) /\ c.phase \in {"applying", "restoring"} /\ GiveUp(j) /\ file' = file
      /\ disk' = disk \/ disk' = [disk EXCEPT ![j] = [c.doc EXCEPT !.status = s]]
    BY DiskKept DEF FinishApply, FinishRestore
<1>2. s \in Statuses
    BY DEF Statuses, RestoreStatus
<1>3. Recorded(j, c.doc)
    BY <1>1, PhaseApply, PhaseRestore
<1> HIDE DEF s, c
<1> QED BY <1>1, <1>2, <1>3, GiveUpInv

(* The death of a command keeps the invariant. *)
LEMMA CrashInv ==
    ASSUME PatchInv, NEW j \in Journals, Crash(j)
    PROVE  PatchInv' /\ op'[j] = Idle
<1>1. /\ op' = [op EXCEPT ![j] = Idle] /\ disk' = disk /\ file' = file
      /\ spent' = [spent EXCEPT !.crashes = @ + 1]
    BY DEF Crash
<1>2. spent' \in [applies : Nat, crashes : Nat, edits : Nat]
    BY <1>1 DEF PatchInv
<1>3. /\ disk' = [disk EXCEPT ![j] = disk[j]] /\ (disk[j] = NoJournal \/ Recorded(j, disk[j]))
      /\ OpOk(j, Idle) /\ file' \in [Files -> Contained]
    BY <1>1, DiskKept
<1> QED BY <1>1, <1>2, <1>3, Moved

(* An edit by somebody else writes only values of users. *)
LEMMA UserEditFile ==
    ASSUME PatchInv, NEW f \in Files, UserEdit(f)
    PROVE  /\ file' \in [Files -> Contained]
           /\ \A g \in Files \ {f} : file'[g] = file[g]
           /\ \A k \in Keys : \/ ValueAt(file'[f], k) = ValueAt(file[f], k)
                              \/ ValueAt(file'[f], k) \in UserValues \cup {NoValue}
<1>1. file \in [Files -> Contained]
    BY DEF PatchInv
<1>2. CASE file' = [file EXCEPT ![f] = Absent]
    BY <1>1, <1>2 DEF Contained, ValueAt
<1>3. ASSUME NEW k \in Keys, NEW v \in UserValues \cup {NoValue},
             file' = [file EXCEPT ![f] = RenderEdits(file[f], [i \in {k} |-> v])]
      PROVE  /\ file' \in [Files -> Contained]
             /\ \A g \in Files \ {f} : file'[g] = file[g]
             /\ \A i \in Keys : \/ ValueAt(file'[f], i) = ValueAt(file[f], i)
                                \/ ValueAt(file'[f], i) \in UserValues \cup {NoValue}
    <2> DEFINE new == RenderEdits(file[f], [i \in {k} |-> v])
    <2>1. new = [i \in Keys |-> IF i = k THEN v ELSE ValueAt(file[f], i)]
        BY DEF RenderEdits
    <2>2. file[f] \in Contained /\ v \in Values
        BY <1>1 DEF Values
    <2>3. \A i \in Keys : ValueAt(file[f], i) \in Values
        BY <2>2, ValueTyped
    <2> HIDE DEF new
    <2>4. new \in Contents
        BY <2>1, <2>2, <2>3 DEF Contents
    <2>5. new # Absent /\ new \in Contained
        BY <2>4, PatchAssumption DEF Contained
    <2>6. \A i \in Keys : ValueAt(new, i) = IF i = k THEN v ELSE ValueAt(file[f], i)
        BY <2>1, <2>5 DEF ValueAt
    <2>7. file' = [file EXCEPT ![f] = new]
        BY <1>3 DEF new
    <2>8. file'[f] = new /\ file' \in [Files -> Contained]
        BY <1>1, <2>5, <2>7
    <2>9. \A g \in Files \ {f} : file'[g] = file[g]
        BY <1>1, <2>7
    <2> QED BY <2>6, <2>8, <2>9
<1>4. \/ file' = [file EXCEPT ![f] = Absent]
      \/ \E k \in Keys, v \in UserValues \cup {NoValue} :
             file' = [file EXCEPT ![f] = RenderEdits(file[f], [i \in {k} |-> v])]
    BY DEF UserEdit
<1> QED BY <1>2, <1>3, <1>4

(* Another editor keeps the invariant. *)
LEMMA UserEditInv ==
    ASSUME PatchInv, NEW f \in Files, UserEdit(f)
    PROVE  PatchInv'
<1>1. spent' = [spent EXCEPT !.edits = @ + 1] /\ disk' = disk /\ op' = op
    BY DEF UserEdit
<1>2. spent' \in [applies : Nat, crashes : Nat, edits : Nat]
    BY <1>1 DEF PatchInv
<1>3. file' \in [Files -> Contained]
    BY UserEditFile
<1> QED BY <1>1, <1>2, <1>3 DEF PatchInv

(* The first save of a restore keeps the invariant. *)
LEMMA BeginRestoreInv ==
    ASSUME PatchInv, NEW j \in Journals, BeginRestore(j)
    PROVE  PatchInv'
<1> DEFINE doc == [disk[j] EXCEPT !.status = "restoring"]
<1> DEFINE c == Restoring(doc)
<1> DEFINE todo == {f \in DOMAIN doc.resources : HasOwned(doc.resources[f])}
<1> DEFINE s == "restoring"
<1>1. /\ Save(j, doc, c) /\ file' = file /\ spent' = spent /\ disk[j] # NoJournal
    BY DEF BeginRestore
<1>2. Recorded(j, disk[j]) /\ s \in Statuses /\ s \in {"restoring", "decided"} /\ s # "restored"
    BY <1>1 DEF PatchInv, Statuses
<1>3. doc = [disk[j] EXCEPT !.status = s]
    OBVIOUS
<1>4. c = [phase |-> s, doc |-> doc, kept |-> FALSE, at |-> NoJournal, todo |-> todo,
           settled |-> NoHash, candidate |-> NoHash]
    BY DEF Restoring
<1> DEFINE none == NoHash
<1>5. c = [phase |-> s, doc |-> doc, kept |-> FALSE, at |-> NoJournal, todo |-> todo,
           settled |-> none, candidate |-> NoHash] /\ none = NoHash /\ s # "decided"
    BY <1>4
<1> HIDE DEF c, s, doc, none
<1>6. Recorded(j, doc) /\ doc.status = s
    BY <1>2, <1>3, DocStatus
<1>7. todo \in SUBSET Files /\ todo \subseteq DOMAIN doc.resources
    BY <1>6, DocFields
<1> HIDE DEF todo
<1>8. OpOk(j, c)
    BY <1>2, <1>5, <1>6, <1>7, RestoreMade
<1>9. file' \in [Files -> Contained] /\ spent' \in [applies : Nat, crashes : Nat, edits : Nat]
    BY <1>1, DiskKept
<1> QED BY <1>1, <1>6, <1>8, <1>9, SaveInv

(* How command c goes on as n once it has decided about file f. *)
Decided(c, n, f, r, settled, kept) ==
    /\ n # Idle /\ n.phase = "decided" /\ n.at = f /\ n.todo = c.todo /\ n.settled = settled
    /\ n.kept = (c.kept \/ kept)
    /\ DOMAIN n.doc.resources = DOMAIN c.doc.resources
    /\ n.doc.resources[f] = r
    /\ \A g \in DOMAIN c.doc.resources \ {f} : n.doc.resources[g] = c.doc.resources[g]

(* Restore's decision about a file keeps the invariant, and leaves the     *)
(* journal on disk alone.                                                  *)
LEMMA DecideInv ==
    ASSUME PatchInv, NEW j \in Journals, NEW f, NEW r, NEW settled, NEW kept \in BOOLEAN,
           NEW cand \in Contents \cup {NoHash}, op[j].phase = "restoring", f \in op[j].todo,
           GoodRecord(j, r), GoodRecord(j, settled), Decide(j, f, r, settled, kept, cand),
           file' \in [Files -> Contained]
    PROVE  /\ PatchInv' /\ disk'[j] = disk[j]
           /\ Decided(op[j], op'[j], f, r, settled, kept)
<1> DEFINE c == op[j]
<1> DEFINE doc == [c.doc EXCEPT !.resources[f] = r]
<1> DEFINE n == [c EXCEPT !.phase = "decided", !.at = f, !.doc = doc, !.settled = settled,
                          !.kept = c.kept \/ kept, !.candidate = cand]
<1>1. op' = [op EXCEPT ![j] = n] /\ disk' = disk /\ spent' = spent
    BY DEF Decide
<1>2. OpOk(j, c) /\ c.phase = "restoring" /\ f \in c.todo
    BY DiskKept
<1> HIDE DEF c
<1>3. /\ RestoreOk(j, c) /\ c.kept \in BOOLEAN /\ c.todo \in SUBSET Files
      /\ c.todo \subseteq DOMAIN c.doc.resources
      /\ Recorded(j, c.doc) /\ c.doc.status # "restored"
    BY <1>2, PhaseRestore
<1>4. f \in DOMAIN c.doc.resources /\ f \in Files /\ c \in Restores(j)
    BY <1>2, <1>3 DEF RestoreOk
<1>5. /\ Recorded(j, doc) /\ doc.status = c.doc.status
      /\ DOMAIN doc.resources = DOMAIN c.doc.resources /\ doc.resources[f] = r
      /\ \A g \in DOMAIN c.doc.resources \ {f} : doc.resources[g] = c.doc.resources[g]
    BY <1>3, <1>4, DocWith
<1>6. doc \in Documents(j) /\ settled \in ResourceRecords(j)
    BY <1>5, DocFields DEF GoodRecord
<1> HIDE DEF doc
<1>7. /\ n \in Restores(j) /\ n.phase = "decided" /\ n.at = f /\ n.doc = doc
      /\ n.settled = settled /\ n.kept = (c.kept \/ kept) /\ n.todo = c.todo
    BY <1>3, <1>4, <1>6 DEF Restores
<1> HIDE DEF n
<1>8. OpOk(j, n) /\ n # Idle
    BY <1>2, <1>3, <1>5, <1>7 DEF OpOk, RestoreOk, Idle
<1>9. /\ disk' = [disk EXCEPT ![j] = disk[j]] /\ (disk[j] = NoJournal \/ Recorded(j, disk[j]))
      /\ spent' \in [applies : Nat, crashes : Nat, edits : Nat]
    BY <1>1, DiskKept
<1>10. PatchInv' /\ op'[j] = n /\ disk'[j] = disk[j]
    BY <1>1, <1>8, <1>9, Moved
<1>11. Decided(c, n, f, r, settled, kept)
    BY <1>5, <1>7, <1>8 DEF Decided
<1> QED BY <1>10, <1>11 DEF c

(* Removing a created file, or not, keeps the invariant. *)
LEMMA RestoreCreatedInv ==
    ASSUME PatchInv, NEW j \in Journals, op[j].phase = "restoring", NEW f \in op[j].todo,
           NEW r, r = op[j].doc.resources[f], RestoreCreated(j, f, r)
    PROVE  PatchInv'
<1> DEFINE kept == [r EXCEPT !.stage = "preserved"]
<1>1. /\ OpOk(j, op[j]) /\ file \in [Files -> Contained]
    BY DiskKept
<1>2. Recorded(j, op[j].doc) /\ f \in DOMAIN op[j].doc.resources /\ f \in Files
    BY <1>1, PhaseRestore
<1>3. GoodRecord(j, r)
    BY <1>2, DocFields
<1>4. GoodRecord(j, AllRestored(r))
    BY <1>3, AllRestoredGood
<1>5. GoodRecord(j, kept)
    <2> DEFINE s == "preserved"
    <2>1. s \in Stages
        BY DEF Stages
    <2> HIDE DEF s
    <2>2. GoodRecord(j, [r EXCEPT !.stage = s])
        BY <1>3, <2>1, StagedGood
    <2> QED BY <2>2 DEF s
<1>6. file' = [file EXCEPT ![f] = Absent] \/ file' = file
    BY DEF RestoreCreated
<1>7. file' \in [Files -> Contained]
    BY <1>1, <1>6 DEF Contained
<1>8. \/ Decide(j, f, r, AllRestored(r), FALSE, NoHash)
      \/ Decide(j, f, r, kept, TRUE, NoHash)
      \/ RestoreFails(j, f, op[j].doc)
    BY DEF RestoreCreated
<1> HIDE DEF kept
<1>9. CASE Decide(j, f, r, AllRestored(r), FALSE, NoHash)
    BY <1>3, <1>4, <1>7, <1>9, DecideInv
<1>10. CASE Decide(j, f, r, kept, TRUE, NoHash)
    BY <1>3, <1>5, <1>7, <1>10, DecideInv
<1>11. CASE RestoreFails(j, f, op[j].doc)
    BY <1>2, <1>7, <1>11, RestoreFailsInv
<1> QED BY <1>8, <1>9, <1>10, <1>11

(* What restore_existing puts back. *)
PutBack(r, content) ==
    [k \in Keys |-> IF k \in Reversible(r, content) THEN r.keys[k].before ELSE content[k]]

(* Putting a file back changes the reversible keys, to their before-       *)
(* images.                                                                 *)
LEMMA PutBackTyped ==
    ASSUME NEW j \in Journals, NEW r, GoodRecord(j, r), NEW content \in Contents
    PROVE  /\ PutBack(r, content) \in Contents
           /\ PutBack(r, content) # Absent
           /\ \A k \in Keys : ValueAt(PutBack(r, content), k) =
                 IF k \in Reversible(r, content) THEN r.keys[k].before ELSE ValueAt(content, k)
<1> DEFINE new == PutBack(r, content)
<1>1. \A k \in Reversible(r, content) : r.keys[k] \in KeyRecords(j)
    BY RecordKeys DEF Reversible
<1>2. \A k \in Reversible(r, content) : r.keys[k].before \in Values
    BY <1>1, KeyFields
<1>3. \A k \in Keys : content[k] \in Values
    BY DEF Contents
<1>4. new = [k \in Keys |-> IF k \in Reversible(r, content) THEN r.keys[k].before ELSE content[k]]
    BY DEF PutBack
<1> HIDE DEF new
<1>5. new \in Contents
    BY <1>2, <1>3, <1>4 DEF Contents
<1>6. new # Absent /\ content # Absent
    BY <1>5, PatchAssumption
<1> QED BY <1>4, <1>5, <1>6 DEF ValueAt, new

(* Putting a file's keys back keeps the invariant. *)
LEMMA RestoreExistingInv ==
    ASSUME PatchInv, NEW j \in Journals, op[j].phase = "restoring", NEW f \in op[j].todo,
           NEW r, r = op[j].doc.resources[f], RestoreExisting(j, f, r)
    PROVE  PatchInv'
<1> DEFINE d == op[j].doc
<1> DEFINE reversed == Reversible(r, file[f])
<1> DEFINE insp == Inspected(r, file[f], DOMAIN r.keys)
<1> DEFINE new == PutBack(r, file[f])
<1> DEFINE conflict == \E k \in DOMAIN r.keys : insp.keys[k].stage = "conflict"
<1>1. /\ OpOk(j, op[j]) /\ file \in [Files -> Contained]
    BY DiskKept
<1>2. Recorded(j, d) /\ f \in DOMAIN d.resources /\ f \in Files
    BY <1>1, PhaseRestore
<1>3. GoodRecord(j, r)
    BY <1>2, DocFields
<1>4. /\ GoodRecord(j, insp) /\ GoodRecord(j, Settled(insp, reversed))
      /\ GoodRecord(j, Settled(insp, {}))
      /\ \A seen : GoodRecord(j, Inspected(r, file[f], seen))
    BY <1>3, InspectedGood, SettledGood
<1>5. \/ /\ file[f] # Absent /\ file' = [file EXCEPT ![f] = new]
         /\ Decide(j, f, insp, Settled(insp, reversed), conflict, new)
      \/ file' = file /\ Decide(j, f, insp, Settled(insp, {}), conflict, NoHash)
      \/ /\ (file[f] # Absent /\ file' = [file EXCEPT ![f] = new]) \/ file' = file
         /\ RestoreFails(j, f, [d EXCEPT !.resources[f] = insp])
      \/ /\ file' = file
         /\ \E seen : RestoreFails(j, f, [d EXCEPT !.resources[f] = Inspected(r, file[f], seen)])
      \/ file' = file /\ RestoreFails(j, f, [d EXCEPT !.resources[f] = r])
    BY DEF RestoreExisting, AtomicWriteClient, PutBack
<1>6. file[f] # Absent => new \in Contents
    BY <1>1, <1>2, <1>3, PutBackTyped DEF Contained
<1> HIDE DEF new
<1>7. file' \in [Files -> Contained]
    BY <1>1, <1>5, <1>6 DEF Contained
<1> HIDE DEF insp, reversed, d
<1>8. conflict \in BOOLEAN
    OBVIOUS
<1> HIDE DEF conflict
<1>9. ASSUME NEW q, GoodRecord(j, q), RestoreFails(j, f, [d EXCEPT !.resources[f] = q])
      PROVE  PatchInv'
    <2> DEFINE e == [d EXCEPT !.resources[f] = q]
    <2>1. Recorded(j, e) /\ DOMAIN e.resources = DOMAIN d.resources
        BY <1>2, <1>9, DocWith
    <2> HIDE DEF e
    <2>2. RestoreFails(j, f, e)
        BY <1>9 DEF e
    <2> QED BY <1>2, <1>7, <2>1, <2>2, RestoreFailsInv
<1>10. CASE file[f] # Absent /\ Decide(j, f, insp, Settled(insp, reversed), conflict, new)
    BY <1>4, <1>6, <1>7, <1>8, <1>10, DecideInv
<1>11. CASE Decide(j, f, insp, Settled(insp, {}), conflict, NoHash)
    BY <1>4, <1>7, <1>8, <1>11, DecideInv
<1>12. CASE RestoreFails(j, f, [d EXCEPT !.resources[f] = insp])
    BY <1>4, <1>9, <1>12
<1>13. CASE \E seen : RestoreFails(j, f, [d EXCEPT !.resources[f] = Inspected(r, file[f], seen)])
    BY <1>4, <1>9, <1>13
<1>14. CASE RestoreFails(j, f, [d EXCEPT !.resources[f] = r])
    BY <1>3, <1>9, <1>14
<1> QED BY <1>5, <1>10, <1>11, <1>12, <1>13, <1>14

(* Either way of restoring a file keeps the invariant. *)
LEMMA RestoreFileInv ==
    ASSUME PatchInv, NEW j \in Journals, RestoreFile(j)
    PROVE  PatchInv'
<1>1. PICK f \in op[j].todo :
          \/ RestoreFails(j, f, op[j].doc) /\ file' = file
          \/ RestoreCreated(j, f, op[j].doc.resources[f])
          \/ RestoreExisting(j, f, op[j].doc.resources[f])
    BY DEF RestoreFile
<1>2. op[j].phase = "restoring" /\ OpOk(j, op[j]) /\ file \in [Files -> Contained]
    BY DiskKept DEF RestoreFile
<1>3. CASE RestoreFails(j, f, op[j].doc) /\ file' = file
    <2>1. Recorded(j, op[j].doc) /\ f \in DOMAIN op[j].doc.resources
        BY <1>2, PhaseRestore
    <2> QED BY <1>2, <1>3, <2>1, RestoreFailsInv
<1> QED BY <1>1, <1>2, <1>3, RestoreCreatedInv, RestoreExistingInv

(* Saving a restored file keeps the invariant. *)
LEMMA SettleFileInv ==
    ASSUME PatchInv, NEW j \in Journals, SettleFile(j)
    PROVE  PatchInv'
<1> DEFINE c == op[j]
<1> DEFINE f == c.at
<1> DEFINE doc == [c.doc EXCEPT !.resources[f] = c.settled]
<1> DEFINE n == [c EXCEPT !.phase = "restoring", !.doc = doc, !.at = NoJournal,
                          !.todo = @ \ {f}, !.settled = NoHash, !.candidate = NoHash]
<1>1. c.phase = "decided" /\ OpOk(j, c) /\ file' \in [Files -> Contained]
    BY DiskKept DEF SettleFile
<1>2. \/ Save(j, doc, n) /\ spent' = spent
      \/ RestoreFails(j, f, doc)
      \/ RestoreFails(j, f, c.doc)
    BY DEF SettleFile
<1> HIDE DEF c
<1>3. /\ RestoreOk(j, c) /\ c.todo \in SUBSET Files
      /\ c.todo \subseteq DOMAIN c.doc.resources
      /\ Recorded(j, c.doc) /\ c.doc.status # "restored"
      /\ f \in c.todo /\ GoodRecord(j, c.settled)
    BY <1>1, PhaseRestore
<1>4. f \in DOMAIN c.doc.resources /\ c \in Restores(j)
    BY <1>3 DEF RestoreOk
<1>5. /\ Recorded(j, doc) /\ doc.status = c.doc.status
      /\ DOMAIN doc.resources = DOMAIN c.doc.resources
    BY <1>3, <1>4, DocWith
<1>6. doc \in Documents(j)
    BY <1>5, DocFields
<1> HIDE DEF doc
<1>7. n \in Restores(j) /\ n.phase = "restoring" /\ n.doc = doc /\ n.todo = c.todo \ {f}
    BY <1>4, <1>6 DEF Restores
<1> HIDE DEF n
<1>8. OpOk(j, n)
    BY <1>3, <1>5, <1>7 DEF OpOk, RestoreOk
<1>9. CASE Save(j, doc, n) /\ spent' = spent
    <2>1. spent' \in [applies : Nat, crashes : Nat, edits : Nat]
        BY <1>9, DiskKept
    <2> QED BY <1>1, <1>5, <1>8, <1>9, <2>1, SaveInv
<1>10. CASE RestoreFails(j, f, doc)
    BY <1>1, <1>4, <1>5, <1>10, RestoreFailsInv
<1>11. CASE RestoreFails(j, f, c.doc)
    BY <1>1, <1>3, <1>4, <1>11, RestoreFailsInv
<1> QED BY <1>2, <1>9, <1>10, <1>11

(* Every step of a command keeps the invariant. *)
LEMMA StepInv ==
    ASSUME PatchInv, NEW j \in Journals, Step(j)
    PROVE  PatchInv'
BY BeginApplyInv, PrepareInv, PublishInv, RecordInv, VerifyInv, FinishInv, BeginRestoreInv,
   RestoreFileInv, SettleFileInv, CrashInv DEF Step

(* The invariant holds before the first command. *)
LEMMA PatchInitial == Init => PatchInv
<1> SUFFICES ASSUME Init PROVE PatchInv
    OBVIOUS
<1>1. Original \in [Files -> Contained]
    <2>1. [Keys -> UserValues \cup {NoValue}] \subseteq Contents
        BY DEF Contents, Values
    <2> QED BY <2>1, PatchAssumption DEF Contained
<1>2. /\ file = Original /\ disk = [j \in Journals |-> NoJournal]
      /\ op = [j \in Journals |-> Idle]
      /\ spent = [applies |-> 0, crashes |-> 0, edits |-> 0]
    BY DEF Init
<1>3. \A j \in Journals : disk[j] = NoJournal /\ op[j] = Idle
    BY <1>2
<1> QED BY <1>1, <1>2, <1>3 DEF PatchInv, OpOk

(* The journals keep their shape: a file counted as created by the gateway *)
(* has a known content, and an apply has recorded every key as owned       *)
(* before it replaces a file.                                              *)
THEOREM PatchInvariant == Spec => []PatchInv
<1>1. ASSUME PatchInv, [Next]_vars
      PROVE  PatchInv'
    <2>1. CASE UNCHANGED vars
        BY <1>1, <2>1 DEF PatchInv, vars
    <2>2. CASE Next
        BY <1>1, <2>2, StepInv, UserEditInv DEF Next
    <2> QED BY <1>1, <2>1, <2>2
<1> QED BY <1>1, PatchInitial, PTL DEF Spec

-----------------------------------------------------------------------------
(* A step of one journal's command leaves the other commands alone. *)
LEMMA StepFrame ==
    ASSUME PatchInv, NEW i \in Journals, Step(i), NEW j \in Journals, j # i
    PROVE  op'[j] = op[j]
<1>1. \A x : op' = [op EXCEPT ![i] = x] => op'[j] = op[j]
    BY DEF PatchInv
<1>2. op' = [op EXCEPT ![i].phase = "published"] => op'[j] = op[j]
    BY DEF PatchInv
<1>3. \A f, doc, s : StopWith(i, f, doc, s) => op' = [op EXCEPT ![i] = Idle]
    BY DEF StopWith, GiveUp
<1>4. CASE BeginApply(i) \/ BeginRestore(i) \/ Crash(i) \/ FinishApply(i) \/ FinishRestore(i)
    BY <1>1, <1>4, Zenon DEF BeginApply, BeginRestore, Crash, FinishApply, FinishRestore, Save, GiveUp
<1>5. CASE Prepare(i)
    BY <1>1, <1>3, <1>5, Zenon DEF Prepare, Save, ApplyFails
<1>6. CASE Publish(i)
    BY <1>1, <1>2, <1>3, <1>6, Zenon DEF Publish, ApplyFails
<1>7. CASE Record(i) \/ Verify(i) \/ SettleFile(i)
    BY <1>1, <1>3, <1>7, Zenon DEF Record, Verify, SettleFile, Save, ApplyFails, RestoreFails
<1>8. CASE RestoreFile(i)
    BY <1>1, <1>3, <1>8, Zenon
       DEF RestoreFile, RestoreCreated, RestoreExisting, Decide, RestoreFails
<1> QED BY <1>4, <1>5, <1>6, <1>7, <1>8 DEF Step

(* A created file is removed only while it holds nothing but the journal's *)
(* values.                                                                 *)
LEMMA RemovesOwn ==
    ASSUME PatchInv, NEW j \in Journals, op[j].phase = "restoring", NEW f \in op[j].todo,
           RestoreCreated(j, f, op[j].doc.resources[f]), NEW g \in Files, NEW k \in Keys,
           ValueAt(file'[g], k) # ValueAt(file[g], k)
    PROVE  ValueAt(file[g], k) \in Own(j)
<1> DEFINE r == op[j].doc.resources[f]
<1>1. OpOk(j, op[j]) /\ file \in [Files -> Contained]
    BY DiskKept
<1>2. GoodRecord(j, r)
    BY <1>1, PhaseRestore, DocFields
<1>3. /\ file' = [file EXCEPT ![f] = Absent] /\ file[f] # Absent
      /\ file[f] \in {r.created_hash, r.pending_created_hash}
    BY DEF RestoreCreated, Removable
<1>4. r.created_hash \in Written(j) /\ r.pending_created_hash \in Written(j)
    BY <1>2, RecordFields DEF GoodRecord
<1> HIDE DEF r
<1>5. f = g
    BY <1>1, <1>3
<1>6. file[g] \in Contents /\ file[g] # NoHash
    BY <1>1, <1>3, <1>5, PatchAssumption DEF Contained
<1>7. file[g] \in [Keys -> Own(j)]
    BY <1>3, <1>4, <1>5, <1>6 DEF Written
<1> QED BY <1>3, <1>5, <1>7 DEF ValueAt

(* A key is put back only while it holds a value of the journal. *)
LEMMA ReversesOwn ==
    ASSUME PatchInv, NEW j \in Journals, op[j].phase = "restoring", NEW f \in op[j].todo,
           RestoreExisting(j, f, op[j].doc.resources[f]), NEW g \in Files, NEW k \in Keys,
           ValueAt(file'[g], k) # ValueAt(file[g], k)
    PROVE  ValueAt(file[g], k) \in Own(j)
<1> DEFINE r == op[j].doc.resources[f]
<1>1. OpOk(j, op[j]) /\ file \in [Files -> Contained]
    BY DiskKept
<1>2. GoodRecord(j, r)
    BY <1>1, PhaseRestore, DocFields
<1>3. file' = [file EXCEPT ![f] = PutBack(r, file[f])] /\ file[f] # Absent
    BY DEF RestoreExisting, AtomicWriteClient, PutBack
<1> HIDE DEF r
<1>4. f = g
    BY <1>1, <1>3
<1>5. file[f] \in Contents /\ ValueAt(file[f], k) = file[f][k]
    BY <1>1, <1>3, <1>4 DEF Contained, ValueAt
<1>6. file'[f] = PutBack(r, file[f])
    BY <1>1, <1>3, <1>4
<1>7. k \in Reversible(r, file[f])
    BY <1>2, <1>4, <1>5, <1>6, PutBackTyped
<1>8. k \in DOMAIN r.keys /\ file[f][k] \in {r.keys[k].written, r.keys[k].pending}
    BY <1>7 DEF Reversible, Managed
<1>9. /\ r.keys[k].written \in Own(j) \cup {NoHash}
      /\ r.keys[k].pending \in Own(j) \cup {NoHash}
    BY <1>2, <1>8, RecordKeys, KeyFields
<1>10. file[f][k] # NoHash
    BY <1>5, PatchAssumption DEF Contents
<1> QED BY <1>4, <1>5, <1>8, <1>9, <1>10

(* A restore changes a key only where it is missing or has a value its own *)
(* journal writes, whatever other journals and editors do to the same file *)
(* meanwhile.                                                              *)
THEOREM PatchRestoreTouchesOwn == Spec => RestoreTouchesOwn
<1> DEFINE Touch == \A j \in Journals, f \in Files, k \in Keys :
                       (/\ op[j].phase = "restoring" /\ op'[j] # op[j]
                        /\ ValueAt(file'[f], k) # ValueAt(file[f], k))
                           => ValueAt(file[f], k) \in Gateway[j] \cup {NoValue}
<1>1. ASSUME PatchInv, [Next]_vars
      PROVE  [Touch]_vars
    <2>1. CASE UNCHANGED vars
        BY <2>1
    <2>2. CASE Next
        <3> SUFFICES ASSUME NEW j \in Journals, NEW f \in Files, NEW k \in Keys,
                            op[j].phase = "restoring", op'[j] # op[j],
                            ValueAt(file'[f], k) # ValueAt(file[f], k)
                     PROVE  ValueAt(file[f], k) \in Own(j)
            BY DEF Own
        <3>1. ~\E g \in Files : UserEdit(g)
            BY DEF UserEdit
        <3>2. PICK i \in Journals : Step(i)
            BY <2>2, <3>1 DEF Next
        <3>3. Step(j)
            BY <1>1, <3>2, StepFrame
        <3>4. file' # file
            OBVIOUS
        <3>5. op[j] # Idle
            BY DEF Idle
        <3>6. RestoreFile(j)
            BY <3>3, <3>4, <3>5 DEF Step, BeginApply, Prepare, Publish, Record, Verify,
               FinishApply, BeginRestore, SettleFile, FinishRestore, Crash
        <3>7. PICK g \in op[j].todo : \/ RestoreCreated(j, g, op[j].doc.resources[g])
                                      \/ RestoreExisting(j, g, op[j].doc.resources[g])
            BY <3>4, <3>6 DEF RestoreFile
        <3> QED BY <1>1, <3>7, RemovesOwn, ReversesOwn
    <2> QED BY <1>1, <2>1, <2>2
<1> QED BY <1>1, PatchInvariant, PTL DEF Spec, RestoreTouchesOwn

-----------------------------------------------------------------------------
(* Accounting.  B[f][k] is a set of values of key k in file f: while the   *)
(* file holds one of them, the journal must own the key and not call it    *)
(* restored, and it must never put one of them back.                       *)
Clean(content, bad) == \A k \in Keys : ValueAt(content, k) \notin bad[k]

(* Every key of a record is back; the record would never put a value of    *)
(* bad back; it accounts for those the content holds.                      *)
AllBack(r) == \A k \in DOMAIN r.keys : r.keys[k].stage = "restored"

Honest(r, bad) ==
    /\ \A k \in DOMAIN r.keys : r.keys[k].before \notin bad[k]
    /\ r.created => \A k \in Keys : NoValue \notin bad[k]

Covers(r, content, bad) ==
    \A k \in Keys : ValueAt(content, k) \in bad[k] =>
        k \in DOMAIN r.keys /\ r.keys[k].stage # "restored"

(* A journal accounts for the files, those it has no record of included;   *)
(* so does the one on disk, if there is one.                               *)
Accounts(doc, files, B) ==
    /\ \A f \in DOMAIN doc.resources :
          Honest(doc.resources[f], B[f]) /\ Covers(doc.resources[f], files[f], B[f])
    /\ \A f \in Files \ DOMAIN doc.resources : Clean(files[f], B[f])

DiskAccounts(d, files, B) ==
    /\ d = NoJournal => \A f \in Files : Clean(files[f], B[f])
    /\ d # NoJournal =>
          /\ Accounts(d, files, B)
          /\ d.status = "restored" => \A f \in DOMAIN d.resources : AllBack(d.resources[f])

(* The command's journal in memory accounts for the files as well.  It is  *)
(* the one on disk except while a file is being put back.  A restore that  *)
(* kept nothing has put back every file it is done with.                   *)
OpAccounts(c, d, files, B) ==
    /\ c # Idle => Accounts(c.doc, files, B)
    /\ c.phase \in {"applying", "prepared", "published", "recorded", "restoring"} => d = c.doc
    /\ c.phase \in {"restoring", "decided"} /\ ~c.kept =>
          \A f \in DOMAIN c.doc.resources \ c.todo : AllBack(c.doc.resources[f])
    /\ c.phase = "decided" => /\ Honest(c.settled, B[c.at])
                              /\ Covers(c.settled, files[c.at], B[c.at])
                              /\ ~c.kept => AllBack(c.settled)

(* Journal j accounts for the values B, wherever it is. *)
AccountInv(j, B) == DiskAccounts(disk[j], file, B) /\ OpAccounts(op[j], disk[j], file, B)

(* No value to account for has appeared. *)
Fewer(files, new, B) ==
    \A f \in Files, k \in Keys :
        ValueAt(new[f], k) \in B[f][k] => ValueAt(files[f], k) \in B[f][k]

(* A change of stages and statuses keeps the accounting. *)
LEMMA AccountsKept ==
    ASSUME NEW d, NEW e, NEW files, NEW new, NEW B, Accounts(d, files, B), Fewer(files, new, B),
           DOMAIN d.resources \subseteq Files, DOMAIN e.resources = DOMAIN d.resources,
           \A f \in DOMAIN d.resources : /\ e.resources[f].keys = d.resources[f].keys
                                         /\ e.resources[f].created = d.resources[f].created
    PROVE  Accounts(e, new, B)
BY DEF Accounts, Fewer, Honest, Covers, Clean

(* So does a new record that accounts for its file. *)
LEMMA AccountsWith ==
    ASSUME NEW j \in Journals, NEW d, Recorded(j, d), NEW f \in DOMAIN d.resources,
           NEW r, GoodRecord(j, r), NEW e, e = [d EXCEPT !.resources[f] = r],
           NEW files, NEW new, NEW B, Accounts(d, files, B), Fewer(files, new, B),
           Honest(r, B[f]), Covers(r, new[f], B[f])
    PROVE  Accounts(e, new, B)
<1>1. /\ DOMAIN e.resources = DOMAIN d.resources /\ e.resources[f] = r
      /\ \A g \in DOMAIN d.resources \ {f} : e.resources[g] = d.resources[g]
    BY DocWith
<1>2. DOMAIN d.resources \subseteq Files
    BY DocFields
<1>3. \A g \in Files \ DOMAIN d.resources : Clean(new[g], B[g])
    BY DEF Accounts, Fewer, Clean
<1>4. \A g \in DOMAIN d.resources \ {f} : /\ Honest(d.resources[g], B[g])
                                          /\ Covers(d.resources[g], new[g], B[g])
    BY <1>2 DEF Accounts, Fewer, Covers
<1> QED BY <1>1, <1>3, <1>4 DEF Accounts

(* So does any change of files that brings no new value to account for. *)
LEMMA DiskAccountsKept ==
    ASSUME NEW j \in Journals, NEW d, d = NoJournal \/ Recorded(j, d), NEW files, NEW new, NEW B,
           DiskAccounts(d, files, B), Fewer(files, new, B)
    PROVE  DiskAccounts(d, new, B)
<1>1. CASE d = NoJournal
    BY <1>1 DEF DiskAccounts, Fewer, Clean
<1>2. CASE d # NoJournal
    <2>1. DOMAIN d.resources \subseteq Files
        BY <1>2, DocFields
    <2>2. Accounts(d, new, B)
        BY <1>2, <2>1, AccountsKept DEF DiskAccounts
    <2> QED BY <1>2, <2>2 DEF DiskAccounts
<1> QED BY <1>1, <1>2

(* No change brings no new value. *)
LEMMA SameFewer == \A files, B : Fewer(files, files, B)
BY DEF Fewer

(* Without a command there is nothing more to account for. *)
LEMMA IdleAccounts == \A d, files, B : OpAccounts(Idle, d, files, B)
BY DEF OpAccounts, Idle

(* Stopping with an error keeps the accounting. *)
LEMMA StopAccounts ==
    ASSUME PatchInv, NEW j \in Journals, NEW doc, Recorded(j, doc),
           NEW f \in DOMAIN doc.resources, NEW s \in Statuses, s # "restored",
           StopWith(j, f, doc, s), NEW B, Accounts(doc, file', B), DiskAccounts(disk[j], file', B)
    PROVE  AccountInv(j, B)'
<1> DEFINE e == Stopped(doc, f, s)
<1>1. /\ Recorded(j, e) /\ e.status = s
      /\ DOMAIN e.resources = DOMAIN doc.resources
      /\ \A g \in DOMAIN doc.resources : /\ e.resources[g].keys = doc.resources[g].keys
                                         /\ e.resources[g].created = doc.resources[g].created
    BY DocStopped
<1>2. op' = [op EXCEPT ![j] = Idle]
    BY DEF StopWith, GiveUp
<1>3. disk' = disk \/ disk' = [disk EXCEPT ![j] = e]
    BY DEF StopWith, Stopped
<1> HIDE DEF e
<1>4. DOMAIN doc.resources \subseteq Files /\ e # NoJournal
    BY <1>1, DocFields
<1>5. Accounts(e, file', B)
    BY <1>1, <1>4, AccountsKept, SameFewer
<1>6. DiskAccounts(e, file', B)
    BY <1>1, <1>4, <1>5 DEF DiskAccounts
<1>7. op'[j] = Idle /\ (disk'[j] = disk[j] \/ disk'[j] = e)
    BY <1>2, <1>3 DEF PatchInv
<1>8. DiskAccounts(disk'[j], file', B)
    BY <1>6, <1>7
<1>9. OpAccounts(op'[j], disk'[j], file', B)
    BY <1>7, IdleAccounts
<1> QED BY <1>8, <1>9 DEF AccountInv

(* An apply that fails at a file keeps it. *)
LEMMA ApplyFailsAccounts ==
    ASSUME PatchInv, NEW j \in Journals, NEW doc, Recorded(j, doc),
           NEW f \in DOMAIN doc.resources, ApplyFails(j, f, doc),
           NEW B, Accounts(doc, file', B), DiskAccounts(disk[j], file', B)
    PROVE  AccountInv(j, B)'
<1> DEFINE s == IF op[j].applied THEN "partial" ELSE "failed"
<1>1. StopWith(j, f, doc, s)
    BY DEF ApplyFails
<1>2. s \in Statuses /\ s # "restored"
    BY DEF Statuses
<1> HIDE DEF s
<1> QED BY <1>1, <1>2, StopAccounts

(* A restore that fails at a file keeps it. *)
LEMMA RestoreFailsAccounts ==
    ASSUME PatchInv, NEW j \in Journals, NEW doc, Recorded(j, doc),
           NEW f \in DOMAIN doc.resources, RestoreFails(j, f, doc),
           NEW B, Accounts(doc, file', B), DiskAccounts(disk[j], file', B)
    PROVE  AccountInv(j, B)'
<1> DEFINE s == "restore_partial"
<1>1. StopWith(j, f, doc, s)
    BY DEF RestoreFails
<1>2. s \in Statuses /\ s # "restored"
    BY DEF Statuses
<1> HIDE DEF s
<1> QED BY <1>1, <1>2, StopAccounts

(* A save of a journal that accounts for the files keeps it. *)
LEMMA SaveAccounts ==
    ASSUME PatchInv, NEW j \in Journals, NEW doc, NEW next, Save(j, doc, next),
           Recorded(j, doc), doc.status # "restored",
           NEW B, Accounts(doc, file', B), OpAccounts(next, doc, file', B)
    PROVE  AccountInv(j, B)'
<1>1. op'[j] = next /\ disk'[j] = doc
    BY DEF Save, PatchInv
<1>2. doc # NoJournal
    BY DocFields
<1>3. DiskAccounts(doc, file', B)
    BY <1>2 DEF DiskAccounts
<1>4. DiskAccounts(disk'[j], file', B) /\ OpAccounts(op'[j], disk'[j], file', B)
    BY <1>1, <1>3
<1> QED BY <1>4 DEF AccountInv

(* The journal an apply continues accounts for the files: a restored one   *)
(* is replaced only when nothing is left of it.                            *)
LEMMA ContinuedAccounts ==
    ASSUME PatchInv, NEW j \in Journals, NEW B, DiskAccounts(disk[j], file, B)
    PROVE  Accounts(Continued(j), file, B)
<1>1. CASE disk[j] # NoJournal /\ disk[j].status # "restored"
    BY <1>1 DEF Continued, DiskAccounts
<1>2. CASE ~(disk[j] # NoJournal /\ disk[j].status # "restored")
    <2>1. \A f \in Files : Clean(file[f], B[f])
        BY <1>2 DEF DiskAccounts, Accounts, AllBack, Covers, Clean
    <2>2. Continued(j) = NewDocument
        BY <1>2 DEF Continued
    <2>3. DOMAIN NewDocument.resources = {}
        BY DEF NewDocument
    <2> QED BY <2>1, <2>2, <2>3 DEF Accounts
<1> QED BY <1>1, <1>2

(* A file nothing of which is owned may be recorded anew. *)
LEMMA NewRecordAccounts ==
    ASSUME NEW j \in Journals, NEW content, NEW bad, Clean(content, bad)
    PROVE  Honest(NewRecord(content), bad) /\ Covers(NewRecord(content), content, bad)
<1>1. NewRecord(content).keys = NoKeys /\ NewRecord(content).created = (content = Absent)
    BY NewRecordGood
<1>2. content = Absent => \A k \in Keys : NoValue \notin bad[k]
    BY DEF Clean, ValueAt
<1>3. DOMAIN NewRecord(content).keys = {}
    BY <1>1, NoKeysTable
<1> QED BY <1>1, <1>2, <1>3 DEF Honest, Covers, Clean

(* The plan of an apply accounts for the files. *)
LEMMA BeginApplyAccounts ==
    ASSUME PatchInv, NEW j \in Journals, BeginApply(j), NEW B, AccountInv(j, B)
    PROVE  AccountInv(j, B)'
<1>1. PICK t \in Previewed(j) :
          Save(j, Planned(j, t.expected), Applying(t.expected, t.edits, Planned(j, t.expected)))
    BY DEF BeginApply
<1> DEFINE old == Continued(j)
<1> DEFINE doc == Planned(j, t.expected)
<1> DEFINE c == Applying(t.expected, t.edits, doc)
<1>2. /\ t.expected \in Expectations /\ \A f \in DOMAIN t.expected : t.expected[f] = file[f]
    BY PreviewedGood
<1>3. /\ Recorded(j, doc) /\ doc.status = "applying"
      /\ DOMAIN doc.resources = DOMAIN old.resources \cup DOMAIN t.expected
      /\ \A f \in DOMAIN old.resources : doc.resources[f] = old.resources[f]
      /\ \A f \in DOMAIN t.expected \ DOMAIN old.resources :
            doc.resources[f] = NewRecord(t.expected[f])
    BY <1>2, PlannedGood
<1>4. Accounts(old, file, B)
    BY ContinuedAccounts DEF AccountInv
<1>5. c.phase = "applying" /\ c.doc = doc
    BY DEF Applying
<1>6. file' = file
    BY DEF BeginApply
<1> HIDE DEF doc, c, old
<1>7. DOMAIN t.expected \subseteq Files
    BY <1>2 DEF Expectations
<1>8. \A f \in DOMAIN t.expected \ DOMAIN old.resources :
          Honest(doc.resources[f], B[f]) /\ Covers(doc.resources[f], file[f], B[f])
    <2> TAKE f \in DOMAIN t.expected \ DOMAIN old.resources
    <2>1. Clean(file[f], B[f])
        BY <1>4, <1>7 DEF Accounts
    <2>2. doc.resources[f] = NewRecord(file[f])
        BY <1>2, <1>3
    <2> QED BY <2>1, <2>2, NewRecordAccounts
<1>9. Accounts(doc, file', B)
    BY <1>3, <1>4, <1>6, <1>8 DEF Accounts
<1>10. OpAccounts(c, doc, file', B)
    BY <1>5, <1>9 DEF OpAccounts
<1>11. Save(j, doc, c) /\ doc.status # "restored"
    BY <1>1, <1>3 DEF doc, c
<1> QED BY <1>3, <1>9, <1>10, <1>11, SaveAccounts

(* The record an apply saves, or keeps after a failed save, accounts for   *)
(* the file as it was.                                                     *)
LEMMA BackedUpAccounts ==
    ASSUME NEW j \in Journals, NEW r, GoodRecord(j, r), NEW before \in Contained,
           NEW edits \in Edits(j), NEW bad, Honest(r, bad), Covers(r, before, bad)
    PROVE  /\ Honest(BackedUp(r, before, edits), bad)
           /\ Covers(BackedUp(r, before, edits), before, bad)
           /\ Honest(Downgraded(r, before), bad)
           /\ Covers(Downgraded(r, before), before, bad)
<1> DEFINE up == BackedUp(r, before, edits)
<1> DEFINE base == BaseRecord(r, before)
<1>1. /\ up.created = base.created /\ DOMAIN up.keys = DOMAIN r.keys \cup DOMAIN edits
      /\ \A k \in DOMAIN up.keys :
            /\ up.keys[k].before = IF k \in DOMAIN r.keys THEN r.keys[k].before
                                   ELSE ValueAt(before, k)
            /\ up.keys[k].stage = IF k \in DOMAIN edits THEN "owned" ELSE r.keys[k].stage
    BY BackedUpGood
<1>2. /\ base.created /\ ~HasOwned(r) => before = Absent
      /\ base.created /\ HasOwned(r) => r.created
    BY BaseGood
<1>3. /\ Downgraded(r, before).keys = r.keys
      /\ Downgraded(r, before).created => r.created
    BY DowngradedGood
<1> HIDE DEF up, base
<1>4. DOMAIN edits \subseteq Keys /\ DOMAIN r.keys \subseteq Keys
    BY EditTable, RecordKeys
<1>5. \A k \in DOMAIN up.keys : up.keys[k].before \notin bad[k]
    BY <1>1, <1>4 DEF Honest, Covers
<1>6. up.created => \A k \in Keys : NoValue \notin bad[k]
    BY <1>1, <1>2 DEF Honest, Covers, HasOwned, ValueAt
<1>7. Covers(up, before, bad)
    BY <1>1, <1>4 DEF Covers
<1>8. Honest(Downgraded(r, before), bad) /\ Covers(Downgraded(r, before), before, bad)
    BY <1>3 DEF Honest, Covers
<1> QED BY <1>5, <1>6, <1>7, <1>8 DEF Honest, up

(* Backing a file up keeps the accounting. *)
LEMMA PrepareAccounts ==
    ASSUME PatchInv, NEW j \in Journals, Prepare(j), NEW B, AccountInv(j, B)
    PROVE  AccountInv(j, B)'
<1> DEFINE c == op[j]
<1>1. c.phase = "applying" /\ OpOk(j, c) /\ file' = file /\ file \in [Files -> Contained]
    BY DiskKept DEF Prepare
<1>2. PICK f \in c.todo :
          LET r == c.doc.resources[f]
              With(record) == [c.doc EXCEPT !.resources[f] = record]
              doc == With(BackedUp(r, file[f], c.edits))
          IN  \/ ApplyFails(j, f, c.doc)
              \/ Save(j, doc, [c EXCEPT !.phase = "prepared", !.doc = doc, !.at = f])
              \/ ApplyFails(j, f, With(Downgraded(r, file[f])))
              \/ ApplyFails(j, f, doc)
    BY DEF Prepare
<1> DEFINE r == c.doc.resources[f]
<1> DEFINE up == BackedUp(r, file[f], c.edits)
<1> DEFINE down == Downgraded(r, file[f])
<1> DEFINE doc == [c.doc EXCEPT !.resources[f] = up]
<1> DEFINE low == [c.doc EXCEPT !.resources[f] = down]
<1> DEFINE n == [c EXCEPT !.phase = "prepared", !.doc = doc, !.at = f]
<1>3. \/ ApplyFails(j, f, c.doc)
      \/ Save(j, doc, n)
      \/ ApplyFails(j, f, low)
      \/ ApplyFails(j, f, doc)
    BY <1>2
<1>4. DiskAccounts(disk[j], file, B) /\ OpAccounts(c, disk[j], file, B)
    BY DEF AccountInv
<1> HIDE <1>2
<1> HIDE DEF c
<1>5. /\ ApplyOk(j, c) /\ c.edits \in Edits(j) /\ c.todo \in SUBSET Files /\ c # Idle
      /\ c.todo \subseteq DOMAIN c.doc.resources
      /\ Recorded(j, c.doc) /\ c.doc.status # "restored"
    BY <1>1, PhaseApply
<1>6. f \in DOMAIN c.doc.resources /\ f \in Files
    BY <1>5
<1>7. GoodRecord(j, r) /\ file[f] \in Contained
    BY <1>1, <1>5, <1>6, DocFields
<1>8. Accounts(c.doc, file, B)
    BY <1>4, <1>5 DEF OpAccounts
<1>9. Honest(r, B[f]) /\ Covers(r, file[f], B[f])
    BY <1>6, <1>8 DEF Accounts
<1>10. GoodRecord(j, up) /\ GoodRecord(j, down)
    BY <1>5, <1>7, BackedUpGood, DowngradedGood
<1>11. /\ Honest(up, B[f]) /\ Covers(up, file[f], B[f])
       /\ Honest(down, B[f]) /\ Covers(down, file[f], B[f])
    BY <1>5, <1>7, <1>9, BackedUpAccounts
<1>12. Fewer(file, file', B) /\ Fewer(file, file, B)
    BY <1>1, SameFewer
<1> HIDE DEF up, down, r
<1>13. /\ Recorded(j, doc) /\ doc.status = c.doc.status
       /\ DOMAIN doc.resources = DOMAIN c.doc.resources
       /\ Recorded(j, low) /\ DOMAIN low.resources = DOMAIN c.doc.resources
    BY <1>5, <1>6, <1>10, DocWith
<1>14. Accounts(doc, file, B) /\ Accounts(low, file, B)
    BY <1>5, <1>6, <1>8, <1>10, <1>11, <1>12, AccountsWith
<1>15. c \in Applies(j) /\ doc \in Documents(j)
    BY <1>5, <1>13, DocFields DEF ApplyOk
<1> HIDE DEF doc, low
<1>16. n.phase = "prepared" /\ n.doc = doc
    BY <1>15 DEF Applies
<1> HIDE DEF n
<1>17. OpAccounts(n, doc, file', B)
    BY <1>1, <1>14, <1>16 DEF OpAccounts
<1>18. /\ Accounts(c.doc, file', B) /\ Accounts(doc, file', B) /\ Accounts(low, file', B)
       /\ DiskAccounts(disk[j], file', B)
    BY <1>1, <1>4, <1>8, <1>14
<1>19. CASE ApplyFails(j, f, c.doc)
    BY <1>5, <1>6, <1>18, <1>19, ApplyFailsAccounts
<1>20. CASE Save(j, doc, n)
    BY <1>5, <1>13, <1>17, <1>18, <1>20, SaveAccounts
<1>21. CASE ApplyFails(j, f, low)
    BY <1>6, <1>13, <1>18, <1>21, ApplyFailsAccounts
<1>22. CASE ApplyFails(j, f, doc)
    BY <1>6, <1>13, <1>18, <1>22, ApplyFailsAccounts
<1> QED BY <1>3, <1>19, <1>20, <1>21, <1>22

(* What an apply has at hand in its later phases. *)
LEMMA AtHand ==
    ASSUME PatchInv, NEW j \in Journals, NEW B, AccountInv(j, B), NEW c, c = op[j],
           c.phase \in {"prepared", "published", "recorded"}
    PROVE  /\ ApplyOk(j, c) /\ c \in Applies(j) /\ c.edits \in Edits(j)
           /\ Recorded(j, c.doc) /\ c.doc.status # "restored"
           /\ c.at \in DOMAIN c.doc.resources /\ c.at \in Files
           /\ GoodRecord(j, c.doc.resources[c.at]) /\ Ready(c.doc.resources[c.at], c.edits)
           /\ Accounts(c.doc, file, B) /\ disk[j] = c.doc
           /\ DiskAccounts(disk[j], file, B)
           /\ Honest(c.doc.resources[c.at], B[c.at])
           /\ Covers(c.doc.resources[c.at], file[c.at], B[c.at])
<1>1. OpOk(j, c)
    BY DiskKept
<1>2. /\ ApplyOk(j, c) /\ c # Idle /\ c.edits \in Edits(j)
      /\ Recorded(j, c.doc) /\ c.doc.status # "restored"
    BY <1>1, PhaseApply
<1>3. /\ c.at \in DOMAIN c.doc.resources /\ Ready(c.doc.resources[c.at], c.edits)
      /\ c \in Applies(j)
    BY <1>2 DEF ApplyOk
<1>4. c.at \in Files /\ GoodRecord(j, c.doc.resources[c.at])
    BY <1>2, <1>3, DocFields
<1>5. DiskAccounts(disk[j], file, B) /\ Accounts(c.doc, file, B) /\ disk[j] = c.doc
    BY <1>2 DEF AccountInv, OpAccounts
<1>6. /\ Honest(c.doc.resources[c.at], B[c.at])
      /\ Covers(c.doc.resources[c.at], file[c.at], B[c.at])
    BY <1>3, <1>5 DEF Accounts
<1> QED BY <1>2, <1>3, <1>4, <1>5, <1>6

(* The replaced file is accounted for, since its keys were owned before. *)
LEMMA PublishAccounts ==
    ASSUME PatchInv, NEW j \in Journals, Publish(j), NEW B, AccountInv(j, B)
    PROVE  AccountInv(j, B)'
<1> DEFINE c == op[j]
<1> DEFINE f == c.at
<1> DEFINE new == RenderEdits(file[f], c.edits)
<1> DEFINE n == [c EXCEPT !.phase = "published"]
<1>1. c.phase = "prepared" /\ OpOk(j, c) /\ file \in [Files -> Contained]
    BY DiskKept DEF Publish
<1>2. \/ /\ file' = [file EXCEPT ![f] = new]
         /\ op' = [op EXCEPT ![j].phase = "published"] /\ disk' = disk
      \/ /\ file' = [file EXCEPT ![f] = new] \/ file' = file
         /\ ApplyFails(j, f, c.doc)
    BY DEF Publish, AtomicWriteClient
<1>3. op' = [op EXCEPT ![j].phase = "published"] => op'[j] = n
    BY DEF PatchInv
<1>4. /\ ApplyOk(j, c) /\ c \in Applies(j) /\ c.edits \in Edits(j)
      /\ Recorded(j, c.doc) /\ c.doc.status # "restored"
      /\ f \in DOMAIN c.doc.resources /\ f \in Files /\ Ready(c.doc.resources[f], c.edits)
      /\ Accounts(c.doc, file, B) /\ disk[j] = c.doc
      /\ Covers(c.doc.resources[f], file[f], B[f])
    BY <1>1, AtHand
<1> HIDE DEF c
<1>5. \A k \in Keys : ValueAt(new, k) =
          IF k \in DOMAIN c.edits THEN c.edits[k] ELSE ValueAt(file[f], k)
    BY <1>1, <1>4, Rendered
<1> HIDE DEF new
<1>6. Covers(c.doc.resources[f], new, B[f])
    BY <1>4, <1>5 DEF Covers, Ready
<1>7. Accounts(c.doc, file', B)
    <2>1. CASE file' = file
        BY <1>4, <2>1
    <2>2. CASE file' = [file EXCEPT ![f] = new]
        <3>1. file'[f] = new /\ \A g \in Files \ {f} : file'[g] = file[g]
            BY <1>1, <1>4, <2>2
        <3>2. DOMAIN c.doc.resources \subseteq Files
            BY <1>4, DocFields
        <3> QED BY <1>4, <1>6, <3>1, <3>2 DEF Accounts
    <2> QED BY <1>2, <2>1, <2>2
<1>8. DiskAccounts(disk[j], file', B)
    <2>1. c.doc # NoJournal
        BY <1>4, DocFields
    <2> QED BY <1>4, <1>7, <2>1 DEF DiskAccounts
<1>9. CASE op' = [op EXCEPT ![j].phase = "published"] /\ disk' = disk
    <2>1. op'[j] = n /\ disk'[j] = disk[j]
        BY <1>3, <1>9
    <2>2. n.phase = "published" /\ n.doc = c.doc
        BY <1>4 DEF Applies
    <2> HIDE DEF n
    <2>3. OpAccounts(n, disk[j], file', B)
        BY <1>4, <1>7, <2>2 DEF OpAccounts
    <2>4. DiskAccounts(disk'[j], file', B) /\ OpAccounts(op'[j], disk'[j], file', B)
        BY <1>8, <2>1, <2>3
    <2> QED BY <2>4 DEF AccountInv
<1>10. CASE ApplyFails(j, f, c.doc)
    BY <1>4, <1>7, <1>8, <1>10, ApplyFailsAccounts
<1> QED BY <1>2, <1>9, <1>10

(* Records with the same before-images put the same values back. *)
LEMMA RekeyedHonest ==
    ASSUME NEW r, NEW q, NEW bad, Honest(r, bad), Rekeyed(r, q)
    PROVE  Honest(q, bad)
BY DEF Honest, Rekeyed

(* Saving a file as written keeps the accounting. *)
LEMMA RecordAccounts ==
    ASSUME PatchInv, NEW j \in Journals, Record(j), NEW B, AccountInv(j, B)
    PROVE  AccountInv(j, B)'
<1> DEFINE c == op[j]
<1> DEFINE f == c.at
<1> DEFINE s == "written"
<1> DEFINE r == [c.doc.resources[f] EXCEPT !.stage = s]
<1> DEFINE doc == [c.doc EXCEPT !.resources[f] = r]
<1> DEFINE n == [c EXCEPT !.phase = "recorded", !.doc = doc]
<1>1. c.phase = "published" /\ file' = file
    BY DEF Record
<1>2. doc = [c.doc EXCEPT !.resources[f].stage = "written"]
    OBVIOUS
<1>3. Save(j, doc, n) \/ ApplyFails(j, f, doc)
    BY <1>2 DEF Record
<1>4. s \in Stages
    BY DEF Stages
<1>5. /\ c \in Applies(j) /\ Recorded(j, c.doc) /\ c.doc.status # "restored"
      /\ f \in DOMAIN c.doc.resources /\ GoodRecord(j, c.doc.resources[f])
      /\ Accounts(c.doc, file, B) /\ DiskAccounts(disk[j], file, B)
      /\ Honest(c.doc.resources[f], B[f]) /\ Covers(c.doc.resources[f], file[f], B[f])
    BY <1>1, AtHand
<1> HIDE <1>2
<1> HIDE DEF c, s
<1>6. /\ GoodRecord(j, r) /\ r.keys = c.doc.resources[f].keys /\ Rekeyed(c.doc.resources[f], r)
    BY <1>4, <1>5, StagedGood
<1>7. Honest(r, B[f])
    BY <1>5, <1>6, RekeyedHonest
<1>8. Covers(r, file[f], B[f])
    BY <1>5, <1>6 DEF Covers
<1>9. Fewer(file, file, B)
    BY SameFewer
<1> HIDE DEF r
<1>10. /\ Recorded(j, doc) /\ doc.status = c.doc.status
       /\ DOMAIN doc.resources = DOMAIN c.doc.resources
    BY <1>5, <1>6, DocWith
<1>11. Accounts(doc, file, B)
    BY <1>5, <1>6, <1>7, <1>8, <1>9, AccountsWith
<1>12. doc \in Documents(j)
    BY <1>10, DocFields
<1> HIDE DEF doc
<1>13. n.phase = "recorded" /\ n.doc = doc
    BY <1>5, <1>12 DEF Applies
<1> HIDE DEF n
<1>14. OpAccounts(n, doc, file', B) /\ Accounts(doc, file', B) /\ DiskAccounts(disk[j], file', B)
    BY <1>1, <1>5, <1>11, <1>13 DEF OpAccounts
<1>15. CASE Save(j, doc, n)
    BY <1>5, <1>10, <1>14, <1>15, SaveAccounts
<1>16. CASE ApplyFails(j, f, doc)
    BY <1>5, <1>10, <1>14, <1>16, ApplyFailsAccounts
<1> QED BY <1>3, <1>15, <1>16

(* Reading a file back keeps the accounting. *)
LEMMA VerifyAccounts ==
    ASSUME PatchInv, NEW j \in Journals, Verify(j), NEW B, AccountInv(j, B)
    PROVE  AccountInv(j, B)'
<1> DEFINE c == op[j]
<1> DEFINE f == c.at
<1> DEFINE r == Verified(c.doc.resources[f], c.edits)
<1> DEFINE doc == [c.doc EXCEPT !.resources[f] = r]
<1> DEFINE n == [c EXCEPT !.phase = "applying", !.doc = doc, !.todo = @ \ {f}, !.applied = TRUE]
<1>1. c.phase = "recorded" /\ file' = file
    BY DEF Verify
<1>2. doc = [c.doc EXCEPT !.resources[f] = Verified(@, c.edits)]
    OBVIOUS
<1>3. \/ Save(j, doc, n)
      \/ ApplyFails(j, f, doc)
      \/ ApplyFails(j, f, c.doc)
    BY <1>2 DEF Verify
<1>5. /\ c \in Applies(j) /\ Recorded(j, c.doc) /\ c.doc.status # "restored"
      /\ f \in DOMAIN c.doc.resources /\ GoodRecord(j, c.doc.resources[f])
      /\ Ready(c.doc.resources[f], c.edits) /\ f \in Files
      /\ Accounts(c.doc, file, B) /\ DiskAccounts(disk[j], file, B)
      /\ Honest(c.doc.resources[f], B[f]) /\ Covers(c.doc.resources[f], file[f], B[f])
    BY <1>1, AtHand
<1> HIDE <1>2
<1> HIDE DEF c
<1>6. /\ GoodRecord(j, r) /\ Rekeyed(c.doc.resources[f], r)
      /\ \A k \in DOMAIN c.doc.resources[f].keys :
            r.keys[k].stage = c.doc.resources[f].keys[k].stage
    BY <1>5, VerifiedGood, ZenonT(60)
<1>7. Honest(r, B[f])
    BY <1>5, <1>6, RekeyedHonest
<1> HIDE DEF r
<1>8. Covers(r, file[f], B[f])
    BY <1>5, <1>6 DEF Covers, Rekeyed
<1>9. Fewer(file, file, B)
    BY SameFewer
<1>10. /\ Recorded(j, doc) /\ doc.status = c.doc.status
       /\ DOMAIN doc.resources = DOMAIN c.doc.resources
    <2>1. Recorded(j, c.doc) /\ f \in DOMAIN c.doc.resources /\ GoodRecord(j, r)
        BY <1>5, <1>6
    <2>2. doc = [c.doc EXCEPT !.resources[f] = r]
        OBVIOUS
    <2> HIDE DEF doc, f
    <2> QED BY <2>1, <2>2, DocWith
<1>11. Accounts(doc, file, B)
    BY <1>5, <1>6, <1>7, <1>8, <1>9, AccountsWith
<1>12. doc \in Documents(j)
    BY <1>10, DocFields
<1> HIDE DEF doc
<1>13. n.phase = "applying" /\ n.doc = doc
    BY <1>5, <1>12 DEF Applies
<1> HIDE DEF n
<1>14. /\ OpAccounts(n, doc, file', B) /\ Accounts(doc, file', B) /\ Accounts(c.doc, file', B)
       /\ DiskAccounts(disk[j], file', B)
    BY <1>1, <1>5, <1>11, <1>13 DEF OpAccounts
<1>15. CASE Save(j, doc, n)
    BY <1>5, <1>10, <1>14, <1>15, SaveAccounts
<1>16. CASE ApplyFails(j, f, doc)
    BY <1>5, <1>10, <1>14, <1>16, ApplyFailsAccounts
<1>17. CASE ApplyFails(j, f, c.doc)
    BY <1>5, <1>14, <1>17, ApplyFailsAccounts
<1> QED BY <1>3, <1>15, <1>16, <1>17

(* The last save keeps it: a journal is called restored only if nothing    *)
(* was kept.                                                               *)
LEMMA FinishAccounts ==
    ASSUME PatchInv, NEW j \in Journals, FinishApply(j) \/ FinishRestore(j),
           NEW B, AccountInv(j, B)
    PROVE  AccountInv(j, B)'
<1> DEFINE s == IF op[j].phase = "applying" THEN "applied" ELSE RestoreStatus(op[j])
<1> DEFINE c == op[j]
<1> DEFINE e == [c.doc EXCEPT !.status = s]
<1>1. /\ OpOk(j, c) /\ c.phase \in {"applying", "restoring"} /\ c.todo = {} /\ file' = file
      /\ op' = [op EXCEPT ![j] = Idle]
      /\ disk' = disk \/ disk' = [disk EXCEPT ![j] = e]
    BY DiskKept DEF FinishApply, FinishRestore, GiveUp
<1>2. s \in Statuses
    BY DEF Statuses, RestoreStatus
<1>3. Recorded(j, c.doc) /\ c # Idle
    BY <1>1, PhaseApply, PhaseRestore
<1>4. s = "restored" => c.phase = "restoring" /\ ~c.kept
    BY <1>1 DEF RestoreStatus
<1>5. Accounts(c.doc, file, B) /\ DiskAccounts(disk[j], file, B)
    BY <1>3 DEF AccountInv, OpAccounts
<1>6. s = "restored" => \A f \in DOMAIN c.doc.resources : AllBack(c.doc.resources[f])
    BY <1>1, <1>4 DEF AccountInv, OpAccounts
<1>7. op'[j] = Idle /\ (disk'[j] = disk[j] \/ disk'[j] = e)
    BY <1>1 DEF PatchInv
<1> HIDE DEF s, c
<1>8. Recorded(j, e) /\ e.status = s /\ e.resources = c.doc.resources
    BY <1>2, <1>3, DocStatus
<1>9. e # NoJournal /\ DOMAIN c.doc.resources \subseteq Files
    BY <1>3, <1>8, DocFields
<1> HIDE DEF e
<1>10. Accounts(e, file, B)
    BY <1>5, <1>8 DEF Accounts
<1>11. DiskAccounts(e, file, B)
    BY <1>6, <1>8, <1>9, <1>10 DEF DiskAccounts
<1>12. DiskAccounts(disk'[j], file', B)
    BY <1>1, <1>5, <1>7, <1>11
<1>13. OpAccounts(op'[j], disk'[j], file', B)
    BY <1>7, IdleAccounts
<1> QED BY <1>12, <1>13 DEF AccountInv

(* The death of a command keeps it, since the journal on disk accounts for *)
(* the files by itself.                                                    *)
LEMMA CrashAccounts ==
    ASSUME PatchInv, NEW j \in Journals, Crash(j), NEW B, AccountInv(j, B)
    PROVE  AccountInv(j, B)'
<1>1. op'[j] = Idle
    BY CrashInv
<1>2. file' = file /\ disk' = disk
    BY DEF Crash
<1>3. DiskAccounts(disk'[j], file', B)
    BY <1>2 DEF AccountInv
<1>4. OpAccounts(op'[j], disk'[j], file', B)
    BY <1>1, IdleAccounts
<1> QED BY <1>3, <1>4 DEF AccountInv

(* The first save of a restore keeps it. *)
LEMMA BeginRestoreAccounts ==
    ASSUME PatchInv, NEW j \in Journals, BeginRestore(j), NEW B, AccountInv(j, B)
    PROVE  AccountInv(j, B)'
<1> DEFINE d == disk[j]
<1> DEFINE s == "restoring"
<1> DEFINE doc == [d EXCEPT !.status = s]
<1> DEFINE c == Restoring(doc)
<1>1. /\ Save(j, doc, c) /\ file' = file /\ d # NoJournal
    BY DEF BeginRestore
<1>2. Recorded(j, d) /\ s \in Statuses /\ s # "restored"
    BY <1>1 DEF PatchInv, Statuses
<1>3. Accounts(d, file, B)
    BY <1>1 DEF AccountInv, DiskAccounts
<1>4. /\ c.phase = "restoring" /\ c.doc = doc
      /\ c.todo = {f \in DOMAIN doc.resources : HasOwned(doc.resources[f])}
    BY DEF Restoring
<1> HIDE DEF d, s
<1>5. Recorded(j, doc) /\ doc.status = s /\ doc.resources = d.resources
    BY <1>2, DocStatus
<1> HIDE DEF doc, c
<1>6. Accounts(doc, file', B)
    BY <1>1, <1>3, <1>5 DEF Accounts
<1>7. \A f \in DOMAIN c.doc.resources \ c.todo : AllBack(c.doc.resources[f])
    BY <1>4 DEF HasOwned, AllBack
<1>8. OpAccounts(c, doc, file', B)
    BY <1>4, <1>6, <1>7 DEF OpAccounts
<1> QED BY <1>1, <1>2, <1>5, <1>6, <1>8, SaveAccounts

(* Restore's decision about a file keeps it, in memory and on disk. *)
LEMMA DecideAccounts ==
    ASSUME PatchInv, NEW j \in Journals, NEW f, NEW r, NEW settled, NEW kept \in BOOLEAN,
           NEW cand \in Contents \cup {NoHash}, op[j].phase = "restoring", f \in op[j].todo,
           GoodRecord(j, r), GoodRecord(j, settled), Decide(j, f, r, settled, kept, cand),
           file' \in [Files -> Contained],
           NEW B, AccountInv(j, B), Fewer(file, file', B),
           Honest(r, B[f]), Covers(r, file'[f], B[f]),
           Honest(settled, B[f]), Covers(settled, file'[f], B[f]),
           ~kept => AllBack(settled)
    PROVE  AccountInv(j, B)'
<1> DEFINE c == op[j]
<1> DEFINE n == op'[j]
<1>a. Decided(c, n, f, r, settled, kept) /\ disk'[j] = disk[j]
    BY DecideInv
<1>2. /\ DiskAccounts(disk[j], file, B) /\ OpAccounts(c, disk[j], file, B) /\ OpOk(j, c)
      /\ disk[j] = NoJournal \/ Recorded(j, disk[j])
    BY DiskKept DEF AccountInv
<1> HIDE DEF n, c
<1>1. /\ n # Idle /\ n.phase = "decided" /\ n.at = f /\ n.todo = c.todo /\ n.settled = settled
      /\ n.kept = (c.kept \/ kept)
      /\ DOMAIN n.doc.resources = DOMAIN c.doc.resources
      /\ n.doc.resources[f] = r
      /\ \A g \in DOMAIN c.doc.resources \ {f} : n.doc.resources[g] = c.doc.resources[g]
      /\ disk'[j] = disk[j]
    BY <1>a DEF Decided
<1>3. c.phase = "restoring" /\ f \in c.todo
    BY DEF c
<1>4. Recorded(j, c.doc) /\ c.todo \subseteq DOMAIN c.doc.resources /\ c # Idle
    BY <1>2, <1>3, PhaseRestore
<1>5. Accounts(c.doc, file, B)
    BY <1>2, <1>4 DEF OpAccounts
<1>6. DOMAIN c.doc.resources \subseteq Files
    BY <1>4, DocFields
<1>7. Accounts(n.doc, file', B)
    <2>1. \A g \in Files \ DOMAIN c.doc.resources : Clean(file'[g], B[g])
        BY <1>5 DEF Accounts, Fewer, Clean
    <2>2. \A g \in DOMAIN c.doc.resources \ {f} : /\ Honest(c.doc.resources[g], B[g])
                                                  /\ Covers(c.doc.resources[g], file'[g], B[g])
        BY <1>5, <1>6 DEF Accounts, Fewer, Covers
    <2> QED BY <1>1, <2>1, <2>2 DEF Accounts
<1>8. ~n.kept => \A g \in DOMAIN n.doc.resources \ n.todo : AllBack(n.doc.resources[g])
    BY <1>1, <1>2, <1>3 DEF OpAccounts
<1>9. OpAccounts(n, disk[j], file', B)
    BY <1>1, <1>7, <1>8 DEF OpAccounts
<1>10. DiskAccounts(disk[j], file', B)
    BY <1>2, DiskAccountsKept
<1>11. DiskAccounts(disk'[j], file', B) /\ OpAccounts(op'[j], disk'[j], file', B)
    BY <1>1, <1>9, <1>10 DEF n
<1> QED BY <1>11 DEF AccountInv

(* Removing a created file, or not, keeps it. *)
LEMMA RestoreCreatedAccounts ==
    ASSUME PatchInv, NEW j \in Journals, op[j].phase = "restoring", NEW f \in op[j].todo,
           NEW r, r = op[j].doc.resources[f], r.created, RestoreCreated(j, f, r),
           NEW B, AccountInv(j, B)
    PROVE  AccountInv(j, B)'
<1> DEFINE c == op[j]
<1> DEFINE all == AllRestored(r)
<1> DEFINE kept == [r EXCEPT !.stage = "preserved"]
<1>1. /\ OpOk(j, c) /\ file \in [Files -> Contained]
      /\ disk[j] = NoJournal \/ Recorded(j, disk[j])
    BY DiskKept
<1>2. Recorded(j, c.doc) /\ f \in DOMAIN c.doc.resources /\ f \in Files /\ c # Idle
    BY <1>1, PhaseRestore
<1>3. GoodRecord(j, r) /\ DOMAIN c.doc.resources \subseteq Files
    BY <1>2, DocFields
<1>4. Accounts(c.doc, file, B) /\ DiskAccounts(disk[j], file, B)
    BY <1>2 DEF AccountInv, OpAccounts
<1>5. Honest(r, B[f]) /\ Covers(r, file[f], B[f])
    BY <1>2, <1>4 DEF Accounts
<1>6. /\ GoodRecord(j, all) /\ Rekeyed(r, all)
    BY <1>3, AllRestoredGood
<1>7. AllBack(all)
    BY <1>3, AllRestoredGood DEF AllBack, Rekeyed
<1>8. GoodRecord(j, kept) /\ kept.keys = r.keys /\ Rekeyed(r, kept)
    <2> DEFINE s == "preserved"
    <2>1. s \in Stages
        BY DEF Stages
    <2> HIDE DEF s
    <2>2. /\ GoodRecord(j, [r EXCEPT !.stage = s]) /\ [r EXCEPT !.stage = s].keys = r.keys
          /\ Rekeyed(r, [r EXCEPT !.stage = s])
        BY <1>3, <2>1, StagedGood
    <2> QED BY <2>2 DEF s
<1>9. file' = [file EXCEPT ![f] = Absent] \/ file' = file
    BY DEF RestoreCreated
<1>10. \/ file'[f] = Absent /\ Decide(j, f, r, all, FALSE, NoHash)
       \/ Decide(j, f, r, kept, TRUE, NoHash)
       \/ RestoreFails(j, f, c.doc)
    <2>1. file' = [file EXCEPT ![f] = Absent] => file'[f] = Absent
        BY <1>1, <1>2
    <2> QED BY <2>1 DEF RestoreCreated
<1> HIDE DEF c, all, kept
<1>11. file' \in [Files -> Contained]
    BY <1>1, <1>9 DEF Contained
<1>12. \A k \in Keys : NoValue \notin B[f][k]
    BY <1>5 DEF Honest
<1>13. \A g \in Files, k \in Keys :
           ValueAt(file'[g], k) \in B[g][k] => ValueAt(file[g], k) \in B[g][k]
    <2>1. CASE file' = file
        BY <2>1
    <2>2. CASE file' = [file EXCEPT ![f] = Absent]
        <3>1. file'[f] = Absent /\ \A g \in Files \ {f} : file'[g] = file[g]
            BY <1>1, <1>2, <2>2
        <3>2. \A k \in Keys : ValueAt(file'[f], k) = NoValue
            BY <3>1 DEF ValueAt
        <3> QED BY <1>12, <3>1, <3>2
    <2> QED BY <1>9, <2>1, <2>2
<1>14. Fewer(file, file', B)
    BY <1>13 DEF Fewer
<1>15. Covers(r, file'[f], B[f])
    BY <1>2, <1>5, <1>13 DEF Covers
<1>16. CASE file'[f] = Absent /\ Decide(j, f, r, all, FALSE, NoHash)
    <2>1. Honest(all, B[f])
        BY <1>5, <1>6, RekeyedHonest
    <2>2. Covers(all, file'[f], B[f])
        BY <1>12, <1>16 DEF Covers, ValueAt
    <2> QED BY <1>3, <1>5, <1>6, <1>7, <1>11, <1>14, <1>15, <1>16, <2>1, <2>2, DecideAccounts
<1>17. CASE Decide(j, f, r, kept, TRUE, NoHash)
    <2>1. Honest(kept, B[f])
        BY <1>5, <1>8, RekeyedHonest
    <2>2. Covers(kept, file'[f], B[f])
        BY <1>8, <1>15 DEF Covers
    <2> QED BY <1>3, <1>5, <1>8, <1>11, <1>14, <1>15, <1>17, <2>1, <2>2, DecideAccounts
<1>18. CASE RestoreFails(j, f, c.doc)
    <2>1. Accounts(c.doc, file', B)
        BY <1>3, <1>4, <1>14, AccountsKept
    <2>2. DiskAccounts(disk[j], file', B)
        BY <1>1, <1>4, <1>14, DiskAccountsKept
    <2> QED BY <1>2, <1>18, <2>1, <2>2, RestoreFailsAccounts
<1> QED BY <1>10, <1>16, <1>17, <1>18

(* A file put back by key, and the record restore makes of it. *)
LEMMA PutBackAccounts ==
    ASSUME NEW j \in Journals, NEW r, GoodRecord(j, r), NEW content \in Contents, NEW bad,
           Honest(r, bad), Covers(r, content, bad)
    PROVE  /\ \A k \in Keys : ValueAt(PutBack(r, content), k) \in bad[k] =>
                 ValueAt(content, k) \in bad[k] /\ k \notin Reversible(r, content)
           /\ \A seen : /\ Honest(Inspected(r, content, seen), bad)
                        /\ Covers(Inspected(r, content, seen), content, bad)
<1>1. \A k \in Keys : ValueAt(PutBack(r, content), k) =
          IF k \in Reversible(r, content) THEN r.keys[k].before ELSE ValueAt(content, k)
    BY PutBackTyped
<1>2. Reversible(r, content) \subseteq DOMAIN r.keys
    BY DEF Reversible
<1>3. \A k \in Keys : ValueAt(PutBack(r, content), k) \in bad[k] =>
          ValueAt(content, k) \in bad[k] /\ k \notin Reversible(r, content)
    BY <1>1, <1>2 DEF Honest
<1>4. ASSUME NEW seen
      PROVE  /\ Honest(Inspected(r, content, seen), bad)
             /\ Covers(Inspected(r, content, seen), content, bad)
    <2> DEFINE q == Inspected(r, content, seen)
    <2>1. /\ Rekeyed(r, q)
          /\ \A k \in DOMAIN r.keys : q.keys[k].stage = "restored" =>
                 r.keys[k].stage = "restored" \/ content[k] = r.keys[k].before
        BY InspectedGood
    <2> HIDE DEF q
    <2>2. Honest(q, bad)
        BY <2>1, RekeyedHonest
    <2>3. \A k \in Keys : ValueAt(content, k) = content[k]
        BY PatchAssumption DEF ValueAt
    <2>4. Covers(q, content, bad)
        BY <2>1, <2>3 DEF Covers, Honest, Rekeyed
    <2> QED BY <2>2, <2>4 DEF q
<1> QED BY <1>3, <1>4

(* Putting a file's keys back keeps it: what is not put back is a          *)
(* conflict, and stays owned.                                              *)
LEMMA RestoreExistingAccounts ==
    ASSUME PatchInv, NEW j \in Journals, op[j].phase = "restoring", NEW f \in op[j].todo,
           NEW r, r = op[j].doc.resources[f], RestoreExisting(j, f, r),
           NEW B, AccountInv(j, B)
    PROVE  AccountInv(j, B)'
<1> DEFINE c == op[j]
<1> DEFINE d == c.doc
<1> DEFINE content == file[f]
<1> DEFINE reversed == Reversible(r, content)
<1> DEFINE insp == Inspected(r, content, DOMAIN r.keys)
<1> DEFINE new == PutBack(r, content)
<1> DEFINE conflict == \E k \in DOMAIN r.keys : insp.keys[k].stage = "conflict"
<1>1. /\ OpOk(j, c) /\ file \in [Files -> Contained]
      /\ disk[j] = NoJournal \/ Recorded(j, disk[j])
    BY DiskKept
<1>2. Recorded(j, d) /\ f \in DOMAIN d.resources /\ f \in Files /\ c # Idle
    BY <1>1, PhaseRestore
<1>3. GoodRecord(j, r)
    BY <1>2, DocFields
<1>4. Accounts(d, file, B) /\ DiskAccounts(disk[j], file, B)
    BY <1>2 DEF AccountInv, OpAccounts
<1>5. Honest(r, B[f]) /\ Covers(r, content, B[f])
    BY <1>2, <1>4 DEF Accounts
<1>6. \/ /\ content # Absent /\ file' = [file EXCEPT ![f] = new]
         /\ Decide(j, f, insp, Settled(insp, reversed), conflict, new)
      \/ /\ content # Absent /\ reversed = {} /\ file' = file
         /\ Decide(j, f, insp, Settled(insp, {}), conflict, NoHash)
      \/ /\ content # Absent /\ (file' = [file EXCEPT ![f] = new] \/ file' = file)
         /\ RestoreFails(j, f, [d EXCEPT !.resources[f] = insp])
      \/ /\ content # Absent /\ file' = file
         /\ \E seen : RestoreFails(j, f, [d EXCEPT !.resources[f] = Inspected(r, content, seen)])
      \/ file' = file /\ RestoreFails(j, f, [d EXCEPT !.resources[f] = r])
    BY DEF RestoreExisting, AtomicWriteClient, PutBack
<1>7. content # Absent => content \in Contents
    BY <1>1, <1>2 DEF Contained
<1>8. content # Absent => new \in Contents
    BY <1>3, <1>7, PutBackTyped
<1>9. /\ GoodRecord(j, insp) /\ Rekeyed(r, insp)
      /\ \A seen : GoodRecord(j, Inspected(r, content, seen))
      /\ \A k \in DOMAIN r.keys :
            insp.keys[k].stage \in {"restored", "conflict"} \/ k \in reversed
    BY <1>3, InspectedGood
<1>10. \A rev : /\ GoodRecord(j, Settled(insp, rev)) /\ Rekeyed(insp, Settled(insp, rev))
                /\ \A k \in DOMAIN insp.keys : (Settled(insp, rev).keys[k].stage = "restored") <=>
                                                   (k \in rev \/ insp.keys[k].stage = "restored")
    <2> HIDE DEF insp
    <2> TAKE rev
    <2>1. GoodRecord(j, insp)
        BY <1>9
    <2> QED BY <2>1, SettledGood
<1>11. content # Absent =>
          /\ \A k \in Keys : ValueAt(new, k) \in B[f][k] =>
                ValueAt(content, k) \in B[f][k] /\ k \notin reversed
          /\ \A seen : /\ Honest(Inspected(r, content, seen), B[f])
                       /\ Covers(Inspected(r, content, seen), content, B[f])
    BY <1>3, <1>5, <1>7, PutBackAccounts
<1>12. content # Absent => Honest(insp, B[f]) /\ Covers(insp, content, B[f])
    BY <1>11
<1>13. ~conflict => \A k \in DOMAIN r.keys : insp.keys[k].stage # "conflict"
    OBVIOUS
<1>14. conflict \in BOOLEAN
    OBVIOUS
<1> HIDE DEF c, d, insp, new, conflict, reversed
<1>15. file' \in [Files -> Contained]
    BY <1>1, <1>6, <1>8 DEF Contained
<1>16. /\ file' = [file EXCEPT ![f] = new] =>
              file'[f] = new /\ \A g \in Files \ {f} : file'[g] = file[g]
    BY <1>1, <1>2
<1>17. Fewer(file, file', B)
    BY <1>6, <1>11, <1>16 DEF Fewer
<1>18. DiskAccounts(disk[j], file', B)
    BY <1>1, <1>4, <1>17, DiskAccountsKept
<1>19. ASSUME NEW q, GoodRecord(j, q), Honest(q, B[f]), Covers(q, content, B[f]),
              RestoreFails(j, f, [d EXCEPT !.resources[f] = q])
       PROVE  AccountInv(j, B)'
    <2> DEFINE e == [d EXCEPT !.resources[f] = q]
    <2>1. Recorded(j, e) /\ DOMAIN e.resources = DOMAIN d.resources
        BY <1>2, <1>19, DocWith
    <2>2. Covers(q, file'[f], B[f])
        BY <1>2, <1>17, <1>19 DEF Covers, Fewer
    <2>3. Accounts(e, file', B)
        BY <1>2, <1>4, <1>17, <1>19, <2>2, AccountsWith
    <2> HIDE DEF e
    <2>4. RestoreFails(j, f, e)
        BY <1>19 DEF e
    <2> QED BY <1>2, <1>18, <2>1, <2>3, <2>4, RestoreFailsAccounts
<1>20. f \in op[j].todo /\ op[j].phase = "restoring"
    OBVIOUS
<1>21. CASE /\ content # Absent /\ file' = [file EXCEPT ![f] = new]
            /\ Decide(j, f, insp, Settled(insp, reversed), conflict, new)
    <2> DEFINE settled == Settled(insp, reversed)
    <2>1. Honest(settled, B[f])
        BY <1>10, <1>12, <1>21, RekeyedHonest
    <2>2. Covers(insp, file'[f], B[f])
        BY <1>11, <1>12, <1>16, <1>21 DEF Covers
    <2>3. Covers(settled, file'[f], B[f])
        BY <1>10, <1>11, <1>16, <1>21, <2>2 DEF Covers, Rekeyed
    <2>4. ~conflict => AllBack(settled)
        <3>1. /\ DOMAIN settled.keys = DOMAIN insp.keys
              /\ \A k \in DOMAIN insp.keys : (settled.keys[k].stage = "restored") <=>
                                                (k \in reversed \/ insp.keys[k].stage = "restored")
            BY <1>10 DEF Rekeyed
        <3> HIDE DEF settled
        <3>2. DOMAIN insp.keys = DOMAIN r.keys
            BY <1>9 DEF Rekeyed
        <3>3. ~conflict => \A k \in DOMAIN insp.keys : insp.keys[k].stage = "restored" \/ k \in reversed
            BY <1>9, <1>13, <3>2
        <3> QED BY <3>1, <3>3 DEF AllBack
    <2>5. new \in Contents \cup {NoHash} /\ GoodRecord(j, settled)
        BY <1>8, <1>10, <1>21
    <2>6. Decide(j, f, insp, settled, conflict, new) /\ Honest(insp, B[f])
        BY <1>12, <1>21
    <2> HIDE DEF settled
    <2> QED BY <1>9, <1>14, <1>15, <1>17, <1>20, <2>1, <2>2, <2>3, <2>4, <2>5, <2>6,
               DecideAccounts
<1>22. CASE /\ content # Absent /\ reversed = {} /\ file' = file
            /\ Decide(j, f, insp, Settled(insp, {}), conflict, NoHash)
    <2> DEFINE settled == Settled(insp, {})
    <2>1. Honest(settled, B[f])
        BY <1>10, <1>12, <1>22, RekeyedHonest
    <2>2. Covers(insp, file'[f], B[f])
        BY <1>12, <1>22
    <2>3. Covers(settled, file'[f], B[f])
        BY <1>10, <2>2 DEF Covers, Rekeyed
    <2>4. ~conflict => AllBack(settled)
        <3>1. /\ DOMAIN settled.keys = DOMAIN insp.keys
              /\ \A k \in DOMAIN insp.keys : (settled.keys[k].stage = "restored") <=>
                                                (k \in {} \/ insp.keys[k].stage = "restored")
            BY <1>10 DEF Rekeyed
        <3> HIDE DEF settled
        <3>2. DOMAIN insp.keys = DOMAIN r.keys
            BY <1>9 DEF Rekeyed
        <3>3. ~conflict => \A k \in DOMAIN insp.keys : insp.keys[k].stage = "restored" \/ k \in reversed
            BY <1>9, <1>13, <3>2
        <3> QED BY <1>22, <3>1, <3>3 DEF AllBack
    <2>5. NoHash \in Contents \cup {NoHash} /\ GoodRecord(j, settled)
        BY <1>10
    <2>6. Decide(j, f, insp, settled, conflict, NoHash) /\ Honest(insp, B[f])
        BY <1>12, <1>22
    <2> HIDE DEF settled
    <2> QED BY <1>9, <1>14, <1>15, <1>17, <1>20, <2>1, <2>2, <2>3, <2>4, <2>5, <2>6,
               DecideAccounts
<1>23. CASE content # Absent /\ RestoreFails(j, f, [d EXCEPT !.resources[f] = insp])
    BY <1>9, <1>12, <1>19, <1>23
<1>24. CASE /\ content # Absent
            /\ \E seen : RestoreFails(j, f, [d EXCEPT !.resources[f] = Inspected(r, content, seen)])
    BY <1>9, <1>11, <1>19, <1>24
<1>25. CASE RestoreFails(j, f, [d EXCEPT !.resources[f] = r])
    BY <1>3, <1>5, <1>19, <1>25
<1> QED BY <1>6, <1>21, <1>22, <1>23, <1>24, <1>25

(* Either way of restoring a file keeps it. *)
LEMMA RestoreFileAccounts ==
    ASSUME PatchInv, NEW j \in Journals, RestoreFile(j), NEW B, AccountInv(j, B)
    PROVE  AccountInv(j, B)'
<1>1. PICK f \in op[j].todo :
          \/ RestoreFails(j, f, op[j].doc) /\ file' = file
          \/ op[j].doc.resources[f].created /\ RestoreCreated(j, f, op[j].doc.resources[f])
          \/ RestoreExisting(j, f, op[j].doc.resources[f])
    BY DEF RestoreFile
<1>2. op[j].phase = "restoring" /\ OpOk(j, op[j])
    BY DiskKept DEF RestoreFile
<1>3. CASE RestoreFails(j, f, op[j].doc) /\ file' = file
    <2>1. Recorded(j, op[j].doc) /\ f \in DOMAIN op[j].doc.resources /\ op[j] # Idle
        BY <1>2, PhaseRestore
    <2>2. Accounts(op[j].doc, file', B) /\ DiskAccounts(disk[j], file', B)
        BY <1>3, <2>1 DEF AccountInv, OpAccounts
    <2> QED BY <1>3, <2>1, <2>2, RestoreFailsAccounts
<1> QED BY <1>1, <1>2, <1>3, RestoreCreatedAccounts, RestoreExistingAccounts

(* Saving a restored file keeps it. *)
LEMMA SettleFileAccounts ==
    ASSUME PatchInv, NEW j \in Journals, SettleFile(j), NEW B, AccountInv(j, B)
    PROVE  AccountInv(j, B)'
<1> DEFINE c == op[j]
<1> DEFINE f == c.at
<1> DEFINE doc == [c.doc EXCEPT !.resources[f] = c.settled]
<1> DEFINE n == [c EXCEPT !.phase = "restoring", !.doc = doc, !.at = NoJournal,
                          !.todo = @ \ {f}, !.settled = NoHash, !.candidate = NoHash]
<1>1. c.phase = "decided" /\ OpOk(j, c) /\ file' = file
    BY DiskKept DEF SettleFile
<1>2. \/ Save(j, doc, n)
      \/ RestoreFails(j, f, doc)
      \/ RestoreFails(j, f, c.doc)
    BY DEF SettleFile
<1>3. OpAccounts(c, disk[j], file, B) /\ DiskAccounts(disk[j], file, B)
    BY DEF AccountInv
<1> HIDE DEF c
<1>4. /\ RestoreOk(j, c) /\ c # Idle /\ c.todo \subseteq DOMAIN c.doc.resources
      /\ Recorded(j, c.doc) /\ c.doc.status # "restored"
      /\ f \in c.todo /\ GoodRecord(j, c.settled)
    BY <1>1, PhaseRestore
<1>5. f \in DOMAIN c.doc.resources /\ c \in Restores(j)
    BY <1>4 DEF RestoreOk
<1>6. /\ Recorded(j, doc) /\ doc.status = c.doc.status
      /\ DOMAIN doc.resources = DOMAIN c.doc.resources
      /\ doc.resources[f] = c.settled
      /\ \A g \in DOMAIN c.doc.resources \ {f} : doc.resources[g] = c.doc.resources[g]
    BY <1>4, <1>5, DocWith
<1>7. /\ Accounts(c.doc, file, B) /\ Honest(c.settled, B[f]) /\ Covers(c.settled, file[f], B[f])
      /\ ~c.kept => /\ AllBack(c.settled)
                    /\ \A g \in DOMAIN c.doc.resources \ c.todo : AllBack(c.doc.resources[g])
    BY <1>1, <1>3, <1>4 DEF OpAccounts
<1>8. Fewer(file, file, B)
    BY SameFewer
<1>9. Accounts(doc, file, B)
    BY <1>4, <1>5, <1>7, <1>8, AccountsWith
<1>10. doc \in Documents(j)
    BY <1>6, DocFields
<1> HIDE DEF doc
<1>11. /\ n.phase = "restoring" /\ n.doc = doc /\ n.todo = c.todo \ {f} /\ n.kept = c.kept
    BY <1>5, <1>10 DEF Restores
<1> HIDE DEF n
<1>12. ~n.kept => \A g \in DOMAIN n.doc.resources \ n.todo : AllBack(n.doc.resources[g])
    BY <1>6, <1>7, <1>11
<1>13. /\ OpAccounts(n, doc, file', B) /\ Accounts(doc, file', B) /\ Accounts(c.doc, file', B)
       /\ DiskAccounts(disk[j], file', B)
    BY <1>1, <1>3, <1>7, <1>9, <1>11, <1>12 DEF OpAccounts
<1>14. CASE Save(j, doc, n)
    BY <1>4, <1>6, <1>13, <1>14, SaveAccounts
<1>15. CASE RestoreFails(j, f, doc)
    BY <1>5, <1>6, <1>13, <1>15, RestoreFailsAccounts
<1>16. CASE RestoreFails(j, f, c.doc)
    BY <1>4, <1>5, <1>13, <1>16, RestoreFailsAccounts
<1> QED BY <1>2, <1>14, <1>15, <1>16

(* Every step of the journal's command keeps the accounting. *)
LEMMA StepAccounts ==
    ASSUME PatchInv, NEW j \in Journals, Step(j), NEW B, AccountInv(j, B)
    PROVE  AccountInv(j, B)'
BY BeginApplyAccounts, PrepareAccounts, PublishAccounts, RecordAccounts, VerifyAccounts,
   FinishAccounts, BeginRestoreAccounts, RestoreFileAccounts, SettleFileAccounts,
   CrashAccounts DEF Step

(* So does an editor that brings no value to account for. *)
LEMMA EditAccounts ==
    ASSUME PatchInv, NEW j \in Journals, NEW f \in Files, UserEdit(f),
           NEW B, AccountInv(j, B), Fewer(file, file', B)
    PROVE  AccountInv(j, B)'
<1> DEFINE c == op[j]
<1>1. op' = op /\ disk' = disk
    BY DEF UserEdit
<1>2. /\ DiskAccounts(disk[j], file, B) /\ OpAccounts(c, disk[j], file, B) /\ OpOk(j, c)
      /\ disk[j] = NoJournal \/ Recorded(j, disk[j])
    BY DiskKept DEF AccountInv
<1> HIDE DEF c
<1>3. DiskAccounts(disk[j], file', B)
    BY <1>2, DiskAccountsKept
<1>4. c # Idle => Accounts(c.doc, file', B)
    <2> SUFFICES ASSUME c # Idle PROVE Accounts(c.doc, file', B)
        OBVIOUS
    <2>1. Recorded(j, c.doc)
        BY <1>2 DEF OpOk, ApplyOk, RestoreOk
    <2>2. DOMAIN c.doc.resources \subseteq Files
        BY <2>1, DocFields
    <2> QED BY <1>2, <2>2, AccountsKept DEF OpAccounts
<1>5. c.phase = "decided" => Covers(c.settled, file'[c.at], B[c.at])
    <2> SUFFICES ASSUME c.phase = "decided" PROVE Covers(c.settled, file'[c.at], B[c.at])
        OBVIOUS
    <2>1. c.at \in Files
        BY <1>2, PhaseRestore
    <2> QED BY <1>2, <2>1 DEF OpAccounts, Covers, Fewer
<1>6. OpAccounts(c, disk[j], file', B)
    BY <1>2, <1>4, <1>5 DEF OpAccounts
<1>7. DiskAccounts(disk'[j], file', B) /\ OpAccounts(op'[j], disk'[j], file', B)
    BY <1>1, <1>3, <1>6 DEF c
<1> QED BY <1>7 DEF AccountInv

(* Before the first command no value to account for is in a file. *)
LEMMA InitAccounts ==
    ASSUME Init, NEW j \in Journals, NEW B, \A f \in Files : Clean(Original[f], B[f])
    PROVE  AccountInv(j, B)
<1>1. file = Original /\ disk[j] = NoJournal /\ op[j] = Idle
    BY DEF Init
<1>2. DiskAccounts(disk[j], file, B)
    BY <1>1 DEF DiskAccounts
<1> QED BY <1>1, <1>2, IdleAccounts DEF AccountInv

-----------------------------------------------------------------------------
(* With one journal, nobody else writes its values or what it wrote over.  *)
OneJournal == \E j \in Journals : Journals = {j}

(* The values journal j writes; the values a file did not have at first.   *)
Mine(j) == [f \in Files |-> [k \in Keys |-> Gateway[j]]]

Changed == [f \in Files |-> [k \in Keys |-> Values \ {ValueAt(Original[f], k)}]]

(* The two uses of the accounting. *)
MineCovered == \A j \in Journals : AccountInv(j, Mine(j))

ChangedCovered == spent.edits = 0 => \A j \in Journals : AccountInv(j, Changed)

(* With one journal, every step keeps the accounting. *)
LEMMA NextAccounts ==
    ASSUME OneJournal, PatchInv, NEW j \in Journals, NEW B, AccountInv(j, B), [Next]_vars,
           \A f \in Files : UserEdit(f) => Fewer(file, file', B)
    PROVE  AccountInv(j, B)'
<1>1. CASE UNCHANGED vars
    BY <1>1 DEF AccountInv, vars
<1>2. ASSUME NEW i \in Journals, Step(i)
      PROVE  AccountInv(j, B)'
    <2>1. i = j
        BY DEF OneJournal
    <2> QED BY <1>2, <2>1, StepAccounts
<1>3. ASSUME NEW f \in Files, UserEdit(f)
      PROVE  AccountInv(j, B)'
    BY <1>3, EditAccounts
<1> QED BY <1>1, <1>2, <1>3 DEF Next

(* The values a journal writes stay accounted for: no user writes them. *)
LEMMA MineKept ==
    OneJournal /\ PatchInv /\ MineCovered /\ [Next]_vars => MineCovered'
<1> SUFFICES ASSUME OneJournal, PatchInv, MineCovered, [Next]_vars, NEW j \in Journals
             PROVE  AccountInv(j, Mine(j))'
    BY DEF MineCovered
<1>1. AccountInv(j, Mine(j))
    BY DEF MineCovered
<1>2. Gateway[j] \cap (UserValues \cup {NoValue}) = {}
    BY PatchAssumption
<1>3. \A f \in Files : UserEdit(f) => Fewer(file, file', Mine(j))
    BY <1>2, UserEditFile DEF Fewer, Mine
<1> QED BY <1>1, <1>3, NextAccounts

(* No file holds a value of a journal at first. *)
LEMMA MineInitially == Init => MineCovered
<1> SUFFICES ASSUME Init, NEW j \in Journals PROVE AccountInv(j, Mine(j))
    BY DEF MineCovered
<1>1. Gateway[j] \cap (UserValues \cup {NoValue}) = {}
    BY PatchAssumption
<1>2. \A f \in Files, k \in Keys : ValueAt(Original[f], k) \in UserValues \cup {NoValue}
    BY PatchAssumption DEF ValueAt
<1>3. \A f \in Files : Clean(Original[f], Mine(j)[f])
    BY <1>1, <1>2 DEF Clean, Mine
<1> QED BY <1>3, InitAccounts

(* Whatever value of the journal a file holds, the journal on disk owns    *)
(* the key and does not call it restored, after any failure, crash and     *)
(* edit.                                                                   *)
THEOREM PatchJournalCoversFiles == OneJournal /\ Spec => []JournalCoversFiles
<1> SUFFICES ASSUME OneJournal PROVE Spec => []JournalCoversFiles
    OBVIOUS
<1>1. MineCovered => JournalCoversFiles
    <2> SUFFICES ASSUME MineCovered, NEW j \in Journals, NEW f \in Files, NEW k \in Keys,
                        ValueAt(file[f], k) \in Gateway[j]
                 PROVE  k \in DOMAIN KeysOf(j, f) /\ KeysOf(j, f)[k].stage # "restored"
        BY DEF JournalCoversFiles
    <2>1. Mine(j)[f][k] = Gateway[j]
        BY DEF Mine
    <2>2. DiskAccounts(disk[j], file, Mine(j))
        BY DEF MineCovered, AccountInv
    <2>3. ~Clean(file[f], Mine(j)[f])
        BY <2>1 DEF Clean
    <2>4. disk[j] # NoJournal /\ f \in DOMAIN disk[j].resources
        BY <2>2, <2>3 DEF DiskAccounts, Accounts
    <2>5. Covers(disk[j].resources[f], file[f], Mine(j)[f])
        BY <2>2, <2>4 DEF DiskAccounts, Accounts
    <2> QED BY <2>1, <2>4, <2>5 DEF Covers, KeysOf
<1>2. PatchInv /\ MineCovered /\ [Next]_vars => MineCovered'
    BY MineKept
<1> QED BY <1>1, <1>2, MineInitially, PatchInvariant, PTL DEF Spec

-----------------------------------------------------------------------------
(* No command counts as an edit. *)
LEMMA StepEdits ==
    ASSUME PatchInv, NEW i \in Journals, Step(i)
    PROVE  spent'.edits = spent.edits
<1>1. \A f, doc, s : StopWith(i, f, doc, s) => spent' = spent
    BY DEF StopWith, GiveUp
<1>2. \/ spent' = spent
      \/ spent' = [spent EXCEPT !.applies = @ + 1]
      \/ spent' = [spent EXCEPT !.crashes = @ + 1]
    <2>1. CASE BeginApply(i) \/ Crash(i) \/ BeginRestore(i) \/ FinishApply(i) \/ FinishRestore(i)
        BY <2>1, Zenon DEF BeginApply, Crash, BeginRestore, FinishApply, FinishRestore, GiveUp
    <2>2. CASE Prepare(i) \/ Publish(i)
        BY <1>1, <2>2, Zenon DEF Prepare, Publish, ApplyFails
    <2>3. CASE Record(i) \/ Verify(i) \/ SettleFile(i)
        BY <1>1, <2>3, Zenon DEF Record, Verify, SettleFile, ApplyFails, RestoreFails
    <2>4. CASE RestoreFile(i)
        BY <1>1, <2>4, Zenon DEF RestoreFile, RestoreCreated, RestoreExisting, Decide, RestoreFails
    <2> QED BY <2>1, <2>2, <2>3, <2>4 DEF Step
<1> QED BY <1>2 DEF PatchInv

(* While no user edits, every value that was not there at first stays      *)
(* accounted for.                                                          *)
LEMMA ChangedKept ==
    OneJournal /\ PatchInv /\ ChangedCovered /\ [Next]_vars => ChangedCovered'
<1> SUFFICES ASSUME OneJournal, PatchInv, ChangedCovered, [Next]_vars
             PROVE  ChangedCovered'
    OBVIOUS
<1>1. CASE \E f \in Files : UserEdit(f)
    <2>1. spent' = [spent EXCEPT !.edits = @ + 1]
        BY <1>1 DEF UserEdit
    <2>2. spent'.edits # 0
        BY <2>1 DEF PatchInv
    <2> QED BY <2>2 DEF ChangedCovered
<1>2. CASE ~\E f \in Files : UserEdit(f)
    <2>1. spent'.edits = spent.edits
        BY <1>2, StepEdits DEF Next, vars
    <2>2. ASSUME spent.edits = 0, NEW j \in Journals
          PROVE  AccountInv(j, Changed)'
        <3>1. AccountInv(j, Changed)
            BY <2>2 DEF ChangedCovered
        <3> QED BY <1>2, <3>1, NextAccounts
    <2> QED BY <2>1, <2>2 DEF ChangedCovered
<1> QED BY <1>1, <1>2

(* At first no file holds another value than its first one. *)
LEMMA ChangedInitially == Init => ChangedCovered
<1>1. \A f \in Files : Clean(Original[f], Changed[f])
    BY DEF Clean, Changed
<1> QED BY <1>1, InitAccounts DEF ChangedCovered

(* If no user edited a file, a journal called restored means that every    *)
(* key of every file has its first value again, however many applies were  *)
(* interrupted where.                                                      *)
THEOREM PatchRestoredMeansOriginal == OneJournal /\ Spec => []RestoredMeansOriginal
<1> SUFFICES ASSUME OneJournal PROVE Spec => []RestoredMeansOriginal
    OBVIOUS
<1>1. PatchInv /\ ChangedCovered => RestoredMeansOriginal
    <2> SUFFICES ASSUME PatchInv, ChangedCovered, spent.edits = 0,
                        \A j \in Journals : /\ op[j] = Idle
                                            /\ disk[j] # NoJournal => disk[j].status = "restored",
                        NEW f \in Files, NEW k \in Keys
                 PROVE  ValueAt(file[f], k) = ValueAt(Original[f], k)
        BY DEF RestoredMeansOriginal
    <2>1. PICK j \in Journals : TRUE
        BY DEF OneJournal
    <2>2. DiskAccounts(disk[j], file, Changed)
        BY DEF ChangedCovered, AccountInv
    <2>3. Clean(file[f], Changed[f])
        BY <2>2 DEF DiskAccounts, Accounts, AllBack, Covers, Clean
    <2>4. ValueAt(file[f], k) \in Values
        BY ValueTyped DEF PatchInv
    <2> QED BY <2>3, <2>4 DEF Clean, Changed
<1>2. PatchInv /\ ChangedCovered /\ [Next]_vars => ChangedCovered'
    BY ChangedKept
<1> QED BY <1>1, <1>2, ChangedInitially, PatchInvariant, PTL DEF Spec
=============================================================================
