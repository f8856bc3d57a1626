----------------------------- MODULE VaultSync -----------------------------
(***************************************************************************)
(* core/vault/sync.go: how the devices of one vault bring their caches in  *)
(* line through the events of the indexer, while each of them writes,      *)
(* flushes and removes files.                                              *)
(*                                                                         *)
(* The indexer lists every object once, by the time of its last event.  A  *)
(* client reads a batch of what is listed behind its cursor, applies each  *)
(* event in a transaction of its own and saves the cursor after the batch. *)
(* A time is abstracted to what lies before it: the model has no clock,    *)
(* only the order of the last events, and a cursor is the set of objects   *)
(* whose last event it has passed.  A database transaction and a call to   *)
(* the indexer are one action each.                                        *)
(*                                                                         *)
(* A version is one content at one path and has an object of its own.  One *)
(* sync and one flush of a device run at a time.                           *)
(***************************************************************************)
EXTENDS Integers, FiniteSets

CONSTANTS Devices,    \* installations that share the vault
          Versions,   \* what may be written, a row (uuid, version_id) each
          Paths,      \* vault paths
          PathOf,     \* [Versions -> Paths]
          Writer,     \* [Versions -> Devices], None for another client's versions
          Batch,      \* events of one batch (100 in the code)
          MaxCrashes  \* bound: passes that fail and deaths of a device's process

None == "none"

ASSUME VersionsAssumption == IsFiniteSet(Versions)
ASSUME PathOfAssumption == PathOf \in [Versions -> Paths]
ASSUME WriterAssumption == Writer \in [Versions -> Devices \cup {None}]
ASSUME BoundsAssumption == Batch \in Nat \ {0} /\ MaxCrashes \in Nat
ASSUME NoneAssumption   == None \notin Versions \cup Devices

VARIABLES
  object,   \* [version -> "none", "bare" (no metadata yet), "live", "gone"]
  earlier,  \* [version -> objects whose last event is before its own]
  rows,     \* [device -> versions with a row]
  current,  \* [device -> rows whose is_current is set]
  dead,     \* [device -> rows whose deleted_at is set]
  keyed,    \* [device -> rows whose object_key is set]
  staged,   \* [device -> rows with a staged buffer]
  pinned,   \* [device -> the version its flush pinned and has yet to finalize]
  removing, \* [device -> the version whose object Remove has yet to delete]
  syncing,  \* devices in a Sync
  batch,    \* [device -> the events it fetched and has yet to apply]
  upto,     \* [device -> objects the cursor will have passed after the batch]
  cursor,   \* [device -> objects the saved cursor has passed]
  crashes,  \* passes that failed and processes that died
  removed,  \* paths on which a Remove ever ran (history)
  missed    \* [device -> rows without a key when the delete event came] (history)

rowVars  == <<rows, current, dead, keyed>>
ownVars  == <<staged, pinned, removing>>
syncVars == <<syncing, batch>>
markVars == <<upto, cursor>>
indexer  == <<object, earlier>>
history  == <<removed, missed>>
vars == <<indexer, rowVars, ownVars, syncVars, markVars, crashes, history>>

Init ==
  /\ object = [v \in Versions |-> "none"] /\ earlier = [v \in Versions |-> {}]
  /\ rows = [d \in Devices |-> {}] /\ current = [d \in Devices |-> {}]
  /\ dead = [d \in Devices |-> {}] /\ keyed = [d \in Devices |-> {}]
  /\ staged = [d \in Devices |-> {}]
  /\ pinned = [d \in Devices |-> None] /\ removing = [d \in Devices |-> None]
  /\ syncing = {} /\ batch = [d \in Devices |-> {}]
  /\ upto = [d \in Devices |-> {}] /\ cursor = [d \in Devices |-> {}]
  /\ crashes = 0
  /\ removed = {} /\ missed = [d \in Devices |-> {}]

Listed == {v \in Versions : object[v] # "none"}

(* An event makes v the last of the list, behind every cursor.             *)
Event(v, kind) ==
  /\ object'  = [object EXCEPT ![v] = kind]
  /\ earlier' = [w \in Versions |-> (IF w = v THEN Listed ELSE earlier[w]) \ {v}]
  /\ cursor'  = [d \in Devices |-> cursor[d] \ {v}]
  /\ upto'    = [d \in Devices |-> upto[d] \ {v}]

(* Mutant: promotes without the demotion of the old winner.                *)
PromotedToo(v, cur, tombs) == cur \cup ({v} \ tombs)

(* Mutant: the first version seen keeps the path.                          *)
FirstSeen(v, cur, tombs) ==
  IF \E w \in cur \ tombs : PathOf[w] = PathOf[v] THEN cur ELSE cur \cup ({v} \ tombs)

(* promoteCurrent: v becomes the winner among the live rows of its path.   *)
Promoted(v, cur, tombs) ==
  {w \in cur : PathOf[w] # PathOf[v] \/ w \in tombs} \cup ({v} \ tombs)

Winner(d, v) == v \in current[d] \ dead[d]

-----------------------------------------------------------------------------
(* Writes and removals of a device.                                        *)

(* Put: stage and commitFileRecord.                                        *)
Put(d, v) ==
  /\ Writer[v] = d /\ v \notin rows[d]
  /\ rows'    = [rows EXCEPT ![d] = @ \cup {v}]
  /\ staged'  = [staged EXCEPT ![d] = @ \cup {v}]
  /\ current' = [current EXCEPT ![d] = Promoted(v, @, dead[d])]
  /\ UNCHANGED <<indexer, dead, keyed, pinned, removing, syncVars, markVars, crashes, history>>

(* Flush of a staged row: the pin of its object, with its metadata, ...    *)
FlushPin(d, v) ==
  /\ v \in staged[d] \ dead[d]
  /\ pinned[d] = None
  /\ Event(v, "live")
  /\ pinned' = [pinned EXCEPT ![d] = v]
  /\ UNCHANGED <<rowVars, staged, removing, syncVars, crashes, history>>

(* ... and finalizeDurable.                                                *)
Finalize(d) ==
  /\ pinned[d] # None
  /\ staged' = [staged EXCEPT ![d] = @ \ {pinned[d]}]
  /\ keyed'  = [keyed EXCEPT ![d] = @ \cup {pinned[d]}]
  /\ pinned' = [pinned EXCEPT ![d] = None]
  /\ UNCHANGED <<indexer, rows, current, dead, removing, syncVars, markVars, crashes, history>>

(* Remove: the tombstone of the winner of a path, ...                      *)
Remove(d, v) ==
  /\ Winner(d, v) /\ v \in keyed[d]
  /\ removing[d] = None
  /\ dead'     = [dead EXCEPT ![d] = @ \cup {v}]
  /\ removing' = [removing EXCEPT ![d] = v]
  /\ removed'  = removed \cup {PathOf[v]}
  /\ UNCHANGED <<indexer, rows, current, keyed, staged, pinned, syncVars, markVars, crashes, missed>>

(* ... then, best effort, the deletion of its object.                      *)
DeleteObject(d) ==
  LET v == removing[d] IN
  /\ v # None
  /\ removing' = [removing EXCEPT ![d] = None]
  /\ \/ object[v] = "live" /\ Event(v, "gone")
     \/ UNCHANGED <<indexer, markVars>>
  /\ UNCHANGED <<rowVars, staged, pinned, syncVars, crashes, history>>

(* Another client pins an object first and stamps its metadata later.      *)
PinBare(v) ==
  /\ Writer[v] = None /\ object[v] = "none"
  /\ Event(v, "bare")
  /\ UNCHANGED <<rowVars, ownVars, syncVars, crashes, history>>

Stamp(v) ==
  /\ object[v] = "bare"
  /\ Event(v, "live")
  /\ UNCHANGED <<rowVars, ownVars, syncVars, crashes, history>>

-----------------------------------------------------------------------------
(* Sync                                                                    *)

(* Mutant: a page runs past the end of the list.                           *)
BehindAny(d) == Versions \ cursor[d]

Behind(d) == Listed \ cursor[d]

Rank(d, v) == Cardinality(earlier[v] \cap Behind(d))

(* ObjectEvents: the first Batch objects behind the cursor, in the order   *)
(* of their last events, as they are now.                                  *)
Page(d) == {v \in Behind(d) : Rank(d, v) < Batch}

(* Mutant: the cursor saved is the end of the list, not of the page.       *)
FetchToTheEnd(d) ==
  /\ d \notin syncing /\ Page(d) # {}
  /\ syncing' = syncing \cup {d}
  /\ batch'   = [batch EXCEPT ![d] =
                   {[version |-> v, kind |-> object[v], rank |-> Rank(d, v)] : v \in Page(d)}]
  /\ upto'    = [upto EXCEPT ![d] = Listed]
  /\ UNCHANGED <<indexer, rowVars, ownVars, cursor, crashes, history>>

(* Mutant: the cursor is saved before its batch is applied.                *)
FetchAndSave(d) ==
  /\ d \notin syncing /\ Page(d) # {}
  /\ syncing' = syncing \cup {d}
  /\ batch'   = [batch EXCEPT ![d] =
                   {[version |-> v, kind |-> object[v], rank |-> Rank(d, v)] : v \in Page(d)}]
  /\ upto'    = [upto EXCEPT ![d] = cursor[d] \cup Page(d)]
  /\ cursor'  = [cursor EXCEPT ![d] = @ \cup Page(d)]
  /\ UNCHANGED <<indexer, rowVars, ownVars, crashes, history>>

Fetch(d) ==
  /\ d \notin syncing /\ Page(d) # {}
  /\ syncing' = syncing \cup {d}
  /\ batch'   = [batch EXCEPT ![d] =
                   {[version |-> v, kind |-> object[v], rank |-> Rank(d, v)] : v \in Page(d)}]
  /\ upto'    = [upto EXCEPT ![d] = cursor[d] \cup Page(d)]
  /\ UNCHANGED <<indexer, rowVars, ownVars, cursor, crashes, history>>

(* Mutant: the tombstone is set on the history instead of on the winner.   *)
TombstoneHistory(d, v) ==
  /\ dead'   = IF v \in keyed[d] \ current[d] THEN [dead EXCEPT ![d] = @ \cup {v}] ELSE dead
  /\ missed' = IF v \in rows[d] \ keyed[d] THEN [missed EXCEPT ![d] = @ \cup {v}] ELSE missed
  /\ UNCHANGED <<rows, current, keyed>>

(* A delete event tombstones the current live row with the object's key.   *)
Tombstone(d, v) ==
  /\ dead'   = IF Winner(d, v) /\ v \in keyed[d] THEN [dead EXCEPT ![d] = @ \cup {v}] ELSE dead
  /\ missed' = IF v \in rows[d] \ keyed[d] THEN [missed EXCEPT ![d] = @ \cup {v}] ELSE missed
  /\ UNCHANGED <<rows, current, keyed>>

(* The event's version gets a row, or its row is brought back to life, and *)
(* becomes the winner of its path.                                         *)
Record(d, v) ==
  /\ rows'    = [rows EXCEPT ![d] = @ \cup {v}]
  /\ keyed'   = [keyed EXCEPT ![d] = @ \cup {v}]
  /\ dead'    = [dead EXCEPT ![d] = @ \ {v}]
  /\ current' = [current EXCEPT ![d] = Promoted(v, @ \ {v}, dead[d] \ {v})]
  /\ UNCHANGED missed

Apply(d) ==
  /\ \E e \in batch[d] :
       /\ \A f \in batch[d] : e.rank <= f.rank
       /\ batch' = [batch EXCEPT ![d] = @ \ {e}]
       /\ \/ e.kind = "gone" /\ Tombstone(d, e.version)
          \/ e.kind = "bare" /\ UNCHANGED <<rowVars, missed>>
          \/ e.kind = "live" /\ Record(d, e.version)
  /\ UNCHANGED <<indexer, ownVars, syncing, markVars, crashes, removed>>

SaveCursor(d) ==
  /\ d \in syncing /\ batch[d] = {}
  /\ cursor'  = [cursor EXCEPT ![d] = upto[d]]
  /\ syncing' = syncing \ {d}
  /\ upto'    = [upto EXCEPT ![d] = {}]
  /\ UNCHANGED <<indexer, rowVars, ownVars, batch, crashes, history>>

-----------------------------------------------------------------------------
(* A pass ends early, between two of the steps above: the cursor stays.    *)
CutPass(d) ==
  /\ crashes < MaxCrashes
  /\ crashes' = crashes + 1
  /\ syncing' = syncing \ {d}
  /\ batch'   = [batch EXCEPT ![d] = {}]
  /\ upto'    = [upto EXCEPT ![d] = {}]
  /\ UNCHANGED <<indexer, rowVars, staged, cursor, history>>

(* A transaction or the save of the cursor fails and Sync returns its      *)
(* error; a flush or a Remove of the same process goes on.                 *)
FailSync(d) == d \in syncing /\ CutPass(d) /\ UNCHANGED <<pinned, removing>>

(* The process of a device dies, whatever it is doing.                     *)
Crash(d) ==
  /\ CutPass(d)
  /\ pinned'   = [pinned EXCEPT ![d] = None]
  /\ removing' = [removing EXCEPT ![d] = None]

SyncStep(d) == Fetch(d) \/ Apply(d) \/ SaveCursor(d)

Next ==
  \/ \E d \in Devices :
       \/ \E v \in Versions : Put(d, v) \/ FlushPin(d, v) \/ Remove(d, v)
       \/ Finalize(d) \/ DeleteObject(d) \/ FailSync(d) \/ Crash(d)
       \/ Fetch(d) \/ Apply(d) \/ SaveCursor(d)
  \/ \E v \in Versions : PinBare(v) \/ Stamp(v)

(* The sync loop starts a pass again and again, and a pass goes on.        *)
Fairness == \A d \in Devices : WF_vars(SyncStep(d))

Spec == Init /\ [][Next]_vars /\ Fairness

-----------------------------------------------------------------------------
Kinds  == {"none", "bare", "live", "gone"}
Events == [version : Versions, kind : Kinds \ {"none"}, rank : Nat]

TypeOK ==
  /\ object \in [Versions -> Kinds] /\ earlier \in [Versions -> SUBSET Versions]
  /\ rows \in [Devices -> SUBSET Versions] /\ current \in [Devices -> SUBSET Versions]
  /\ dead \in [Devices -> SUBSET Versions] /\ keyed \in [Devices -> SUBSET Versions]
  /\ staged \in [Devices -> SUBSET Versions]
  /\ pinned \in [Devices -> Versions \cup {None}]
  /\ removing \in [Devices -> Versions \cup {None}]
  /\ syncing \in SUBSET Devices
  /\ batch \in [Devices -> SUBSET Events]
  /\ upto \in [Devices -> SUBSET Versions] /\ cursor \in [Devices -> SUBSET Versions]
  /\ crashes \in 0..MaxCrashes
  /\ removed \in SUBSET Paths /\ missed \in [Devices -> SUBSET Versions]

(* No device finds two live winners on one path.                           *)
OneWinner ==
  \A d \in Devices, v, w \in Versions :
    Winner(d, v) /\ Winner(d, w) /\ PathOf[v] = PathOf[w] => v = w

(* Nothing a saved cursor has passed is left unapplied, whatever errors    *)
(* and crashes cut the syncs short: an object with metadata has a row with *)
(* its key.                                                                *)
NothingSkipped ==
  \A d \in Devices : \A v \in cursor[d] : object[v] = "live" => v \in rows[d] \cap keyed[d]

CaughtUp(d) == Behind(d) = {} /\ d \notin syncing

(* Devices with nothing left to sync or to flush show the same version at  *)
(* every path from which nothing was ever removed.                         *)
Converged ==
  \A d, e \in Devices :
    CaughtUp(d) /\ CaughtUp(e) /\ staged[d] = {} /\ staged[e] = {} =>
      \A v \in Versions : PathOf[v] \notin removed => (Winner(d, v) <=> Winner(e, v))

(* A device with nothing left to sync shows no file whose object is gone,  *)
(* unless the delete event came after its own pin of the object and before *)
(* the row got its object_key.                                             *)
NoDeadWinner ==
  \A d \in Devices, v \in Versions :
    CaughtUp(d) /\ Winner(d, v) /\ v \notin missed[d] => object[v] # "gone"

(* The indexer serves every device what one of them published.             *)
Abstract == INSTANCE Replication
  WITH published <- {v \in Versions : object[v] \in {"live", "gone"}},
       withdrawn <- {v \in Versions : object[v] = "gone"},
       known     <- rows

Delivers == Abstract!Spec
=============================================================================
