----------------------------- MODULE ExactCache -----------------------------
(***************************************************************************)
(* cache.rs: the exact-match response cache and its single-flight          *)
(* coordination.  A request that may be cached looks its key up; on a miss *)
(* it is elected to fill the key, waits for the one that was, or goes      *)
(* ahead uncoordinated when too many keys are being filled.  The filler    *)
(* reserves room for a whole entry before it copies the body, and either   *)
(* commits it or records why not.                                          *)
(*                                                                         *)
(* Pending, Capture and Entry release what they hold when they are         *)
(* dropped, so a request may vanish at any point of handle_request or      *)
(* forward.  Every handler holds the state mutex and is one step.  The     *)
(* byte budget is a semaphore whose permits live in captures and entries,  *)
(* an entry's until the last replay of it ends: what it has left is        *)
(* computed from them.                                                     *)
(***************************************************************************)
EXTENDS Integers, FiniteSets, FiniteSetsExt

CONSTANTS
    Requests,     \* requests that passed bypass_reason
    Keys,         \* hashes of root, URL, headers and body
    CacheKey,     \* the key of each request
    MaxEntries,   \* MAX_ENTRIES (128), of entries and of flights
    BudgetBytes,  \* BUDGET_BYTES (4 MiB)
    EntryBytes,   \* ENTRY_BYTES (256 KiB)
    Sizes,        \* what a stored body and its headers may take
    Ttl,          \* ttl_secs of the configuration
    MaxTime       \* bound on the clock

ASSUME CacheAssumption ==
    /\ IsFiniteSet(Requests)
    /\ CacheKey \in [Requests -> Keys]
    /\ MaxEntries \in Nat \ {0} /\ BudgetBytes \in Nat /\ EntryBytes \in Nat \ {0}
    /\ Sizes \subseteq 0 .. EntryBytes
    /\ Ttl \in Nat \ {0} /\ MaxTime \in Nat

VARIABLES
    clock,
    entries,        \* State.entries: key -> the request that filled it
    flights,        \* State.flights
    waiters,        \* State.waiters
    hits, misses,   \* State.hits, State.misses
    pending,        \* each request's Pending, Capture or Replay
    recorded        \* history: stores and reasons counted for each request

vars == <<clock, entries, flights, waiters, hits, misses, pending, recorded>>

-----------------------------------------------------------------------------
(* A request is new, missed (its first lookup failed), waiting, elected    *)
(* (may fill, queues for admission), forwarding (owned by its worker),     *)
(* capturing, replaying an entry, or done.  inserted and size describe the *)
(* entry it committed, replay the request whose entry it replays.          *)
New == [phase |-> "new", flight |-> "unclaimed", outcome |-> "uncounted",
        woken |-> FALSE, replay |-> {}, inserted |-> 0, size |-> 0]

Init ==
    /\ clock = 0
    /\ entries = [k \in {} |-> {}]
    /\ flights = {}
    /\ waiters = 0 /\ hits = 0 /\ misses = 0
    /\ pending = [r \in Requests |-> New]
    /\ recorded = [r \in Requests |-> 0]

(* The semaphore: a capture holds EntryBytes, an entry what it retained,   *)
(* for as long as the table or a replay refers to it.                      *)
Stored(table) == {table[k] : k \in DOMAIN table}

Used(table, pd) ==
    MapThenSumSet(LAMBDA r : pd[r].size,
                  Stored(table) \cup UNION {pd[r].replay : r \in Requests})
    + EntryBytes * Cardinality({r \in Requests : pd[r].phase = "capturing"})

Keeping(table, S) == [k \in S |-> table[k]]

(* Fault: the notification is forgotten. *)
NotifyNobody(pd) == pd

NotifyWaiters(pd) ==
    [r \in Requests |-> IF pd[r].phase = "waiting" THEN [pd[r] EXCEPT !.woken = TRUE]
                        ELSE pd[r]]

(* Pending::drop, at the end of a request's life: a waiter leaves, an      *)
(* owner hands its key to the next (GiveUpCapture adds the reason that a   *)
(* dropped capture records).                                               *)
Dropped(r, pd, phase) ==
    LET gone == [pd EXCEPT ![r].phase = phase, ![r].flight = "unclaimed",
                           ![r].woken = FALSE]
    IN  IF pd[r].flight = "owner" THEN NotifyWaiters(gone) ELSE gone

(* Fault: a dropped owner leaves its key in flight. *)
DropWaiterOnly(r) ==
    /\ flights' = flights
    /\ waiters' = IF pending[r].flight = "waiting" THEN waiters - 1 ELSE waiters

DropFlight(r) ==
    /\ flights' = IF pending[r].flight = "owner" THEN flights \ {CacheKey[r]} ELSE flights
    /\ waiters' = IF pending[r].flight = "waiting" THEN waiters - 1 ELSE waiters

-----------------------------------------------------------------------------
(* Pending::lookup_in: prune what outlived the ttl, then count this        *)
(* request once, as a hit or a miss; a later hit takes the miss back.      *)
Fresh == {k \in DOMAIN entries : clock - pending[entries[k]].inserted < Ttl}

Hit(r) == CacheKey[r] \in Fresh

(* Fault: the miss of an earlier lookup is not taken back. *)
CountHitOnly(r) ==
    /\ hits' = hits + 1
    /\ UNCHANGED misses

CountHit(r) ==
    /\ hits' = IF pending[r].outcome = "hit" THEN hits ELSE hits + 1
    /\ misses' = IF pending[r].outcome = "miss" THEN misses - 1 ELSE misses

Replaying(r) ==
    [pending EXCEPT ![r].outcome = "hit", ![r].replay = {entries[CacheKey[r]]}]

(* A hit answers the request, whose Pending is dropped on return. *)
TakeHit(r) ==
    /\ Hit(r)
    /\ CountHit(r)
    /\ entries' = Keeping(entries, Fresh)
    /\ pending' = Dropped(r, Replaying(r), "replaying")
    /\ DropFlight(r)
    /\ UNCHANGED <<clock, recorded>>

(* handle_request's first lookup. *)
Lookup(r) ==
    /\ pending[r].phase = "new"
    /\ \/ TakeHit(r)
       \/ /\ ~Hit(r)
          /\ misses' = misses + 1
          /\ entries' = Keeping(entries, Fresh)
          /\ pending' = [pending EXCEPT ![r].phase = "missed", ![r].outcome = "miss"]
          /\ UNCHANGED <<clock, flights, waiters, hits, recorded>>

(* One turn of wait_for_turn. *)
Claim(r) ==
    /\ CacheKey[r] \notin flights
    /\ LET owns == Cardinality(flights) < MaxEntries
       IN  /\ flights' = IF owns THEN flights \cup {CacheKey[r]} ELSE flights
           /\ pending' = [pending EXCEPT ![r].phase = "elected", ![r].woken = FALSE,
                                         ![r].flight = IF owns THEN "owner" ELSE "bypass"]
    /\ waiters' = IF pending[r].flight = "waiting" THEN waiters - 1 ELSE waiters

Sleep(r) ==
    /\ CacheKey[r] \in flights
    /\ waiters' = IF pending[r].flight = "waiting" THEN waiters ELSE waiters + 1
    /\ pending' = [pending EXCEPT ![r].phase = "waiting", ![r].woken = FALSE,
                                  ![r].flight = "waiting"]
    /\ UNCHANGED flights

WaitForTurn(r) ==
    /\ pending[r].phase = "missed" \/ (pending[r].phase = "waiting" /\ pending[r].woken)
    /\ \/ TakeHit(r)
       \/ /\ ~Hit(r)
          /\ Claim(r) \/ Sleep(r)
          /\ entries' = Keeping(entries, Fresh)
          /\ UNCHANGED <<clock, hits, misses, recorded>>

(* The lookup after admission: a hit gives the flight back and sends       *)
(* nothing, a miss hands the Pending to the worker.                        *)
LookupAgain(r) ==
    /\ pending[r].phase = "elected"
    /\ \/ TakeHit(r)
       \/ /\ ~Hit(r)
          /\ entries' = Keeping(entries, Fresh)
          /\ pending' = [pending EXCEPT ![r].phase = "forwarding"]
          /\ UNCHANGED <<clock, flights, waiters, hits, misses, recorded>>

-----------------------------------------------------------------------------
(* Pending::capture refuses a response by status, headers or size, or for  *)
(* want of budget; each is counted and the Pending dropped.                *)
Finish(r) ==
    /\ pending' = Dropped(r, pending, "done")
    /\ DropFlight(r)
    /\ UNCHANGED <<clock, hits, misses>>

RefuseCapture(r) ==
    /\ pending[r].phase = "forwarding"
    /\ recorded' = [recorded EXCEPT ![r] = @ + 1]
    /\ Finish(r)
    /\ UNCHANGED entries

(* The entries left when the oldest were evicted one by one until          *)
(* EntryBytes were free, or none was left.  Ties go either way.            *)
Inserted(k) == pending[entries[k]].inserted

(* Fault: an evicted entry that is still replayed counts as free. *)
RoomForgettingReplays(keep) ==
    MapThenSumSet(LAMBDA r : pending[r].size, Stored(Keeping(entries, keep)))
    + EntryBytes * (1 + Cardinality({r \in Requests : pending[r].phase = "capturing"}))
        <= BudgetBytes

RoomFor(keep) == Used(Keeping(entries, keep), pending) + EntryBytes <= BudgetBytes

AfterEviction ==
    {keep \in SUBSET DOMAIN entries :
        LET evicted == DOMAIN entries \ keep
        IN  /\ \A e \in evicted, k \in keep : Inserted(e) <= Inserted(k)
            /\ keep = {} \/ RoomFor(keep)
            /\ evicted = {} \/ \E last \in evicted :
                  /\ \A e \in evicted : Inserted(e) <= Inserted(last)
                  /\ ~RoomFor(keep \cup {last})}

Capture(r) ==
    /\ pending[r].phase = "forwarding"
    /\ \E keep \in AfterEviction :
          /\ entries' = Keeping(entries, keep)
          /\ \/ /\ RoomFor(keep)
                /\ pending' = [pending EXCEPT ![r].phase = "capturing"]
                /\ UNCHANGED <<clock, flights, waiters, hits, misses, recorded>>
             \/ /\ ~RoomFor(keep)
                /\ recorded' = [recorded EXCEPT ![r] = @ + 1]
                /\ Finish(r)

(* Fault: a dropped capture is not counted. *)
GiveUpUncounted(r) ==
    /\ pending[r].phase = "capturing"
    /\ Finish(r)
    /\ UNCHANGED <<entries, recorded>>

(* Capture::observe meets a body over the limit, or the capture is dropped *)
(* or committed incomplete: one reason is recorded.                        *)
GiveUpCapture(r) ==
    /\ pending[r].phase = "capturing"
    /\ recorded' = [recorded EXCEPT ![r] = @ + 1]
    /\ Finish(r)
    /\ UNCHANGED entries

(* Capture::commit of a complete body. *)
Evictees == {k \in DOMAIN entries : \A j \in DOMAIN entries : Inserted(k) <= Inserted(j)}

CommitKeeps(k) ==
    IF Cardinality(DOMAIN entries) >= MaxEntries /\ k \notin DOMAIN entries
    THEN {DOMAIN entries \ {e} : e \in Evictees} ELSE {DOMAIN entries}

Commit(r) ==
    LET k == CacheKey[r]
    IN  /\ pending[r].phase = "capturing"
        /\ \E keep \in CommitKeeps(k) :
              entries' = [j \in keep \cup {k} |-> IF j = k THEN r ELSE entries[j]]
        /\ \E size \in Sizes :
              pending' = NotifyWaiters([pending EXCEPT
                  ![r].phase = "done", ![r].flight = "unclaimed",
                  ![r].inserted = clock, ![r].size = size])
        /\ recorded' = [recorded EXCEPT ![r] = @ + 1]
        /\ DropFlight(r)
        /\ UNCHANGED <<clock, hits, misses>>

(* The request is dropped before it captures: disconnect, deadline, stop,  *)
(* a full queue, an open circuit or a failed exchange.                     *)
Abandon(r) ==
    /\ pending[r].phase \in {"missed", "waiting", "elected", "forwarding"}
    /\ Finish(r)
    /\ UNCHANGED <<entries, recorded>>

(* The last of a replayed body is delivered or dropped. *)
EndReplay(r) ==
    /\ pending[r].phase = "replaying"
    /\ pending' = [pending EXCEPT ![r].phase = "done", ![r].replay = {}]
    /\ UNCHANGED <<clock, entries, flights, waiters, hits, misses, recorded>>

Tick ==
    /\ clock < MaxTime
    /\ clock' = clock + 1
    /\ UNCHANGED <<entries, flights, waiters, hits, misses, pending, recorded>>

Next ==
    \/ Tick
    \/ \E r \in Requests :
          \/ Lookup(r) \/ WaitForTurn(r) \/ LookupAgain(r)
          \/ RefuseCapture(r) \/ Capture(r) \/ GiveUpCapture(r) \/ Commit(r)
          \/ Abandon(r) \/ EndReplay(r)

Spec == Init /\ [][Next]_vars

-----------------------------------------------------------------------------
Owners(k) == {r \in Requests : CacheKey[r] = k /\ pending[r].flight = "owner"}

(* Single flight: a key is marked in flight exactly while one live request *)
(* owns it, so no two owners fill it together and no dead one blocks it.   *)
FlightsOwned ==
    \A k \in Keys : Cardinality(Owners(k)) = IF k \in flights THEN 1 ELSE 0

(* Whoever sleeps waits for a key that someone still fills; the waiters    *)
(* are counted.                                                            *)
WaitersHaveOwner ==
    /\ \A r \in Requests :
          pending[r].phase = "waiting" /\ ~pending[r].woken => CacheKey[r] \in flights
    /\ waiters = Cardinality({r \in Requests : pending[r].phase = "waiting"})

(* Captures, entries and replays of evicted entries together stay within   *)
(* the budget, and the tables within MAX_ENTRIES.                          *)
BudgetRespected ==
    /\ Used(entries, pending) <= BudgetBytes
    /\ Cardinality(DOMAIN entries) <= MaxEntries
    /\ Cardinality(flights) <= MaxEntries

(* A captured body commits or records one reason, never both and never     *)
(* neither, however its capture ends; nothing is counted afterwards.       *)
CaptureSettledOnce ==
    [][\A r \in Requests :
         /\ pending[r].phase = "capturing" /\ pending'[r].phase # "capturing" =>
               recorded[r] = 0 /\ recorded'[r] = 1
         /\ recorded'[r] # recorded[r] =>
               recorded[r] = 0 /\ pending[r].phase # "done" /\ pending'[r].phase = "done"]_vars

(* Every lookup is counted once, as what it turned out to be. *)
LookupsCounted ==
    /\ hits = Cardinality({r \in Requests : pending[r].outcome = "hit"})
    /\ misses = Cardinality({r \in Requests : pending[r].outcome = "miss"})
    /\ \A r \in Requests : pending[r].phase = "replaying" => pending[r].outcome = "hit"
=============================================================================
