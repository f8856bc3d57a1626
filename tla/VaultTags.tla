----------------------------- MODULE VaultTags -----------------------------
(***************************************************************************)
(* core/vault/vault_service.go: the tags of a file.  They live in the      *)
(* metadata of its object on the indexer, and every device keeps them in   *)
(* its file_tags join as well.  A change reads the object, pins it again   *)
(* with the new tags and then writes the join; Sync brings the join of the *)
(* other devices in line, and of its own once more.                        *)
(*                                                                         *)
(* One durable version of one file.  A transaction of the database and a   *)
(* call to the indexer are one action each.                                *)
(***************************************************************************)
EXTENDS Integers, FiniteSets

CONSTANTS Devices,    \* installations that share the vault
          Clients,    \* callers of AddTags, RemoveTags, SetTags and Remove
          DeviceOf,   \* [Clients -> Devices]
          Tags,
          MaxChanges  \* bound: changes of the object

ASSUME DeviceOfAssumption == DeviceOf \in [Clients -> Devices]
ASSUME ChangesAssumption  == MaxChanges \in Nat

VARIABLES
  object,    \* "live", "gone": the object on the indexer
  sealed,    \* the tags in its metadata
  changes,   \* events of the object so far
  dead,      \* devices whose row is tombstoned
  tags,      \* [device -> tags joined to its row]
  behind,    \* devices whose saved cursor is before the object's last event
  stage,     \* [device -> "idle", "fetched", "applied": where its Sync is]
  event,     \* [device -> the event fetched]
  outdated,  \* devices whose fetched event is not the last one any more
  pc,        \* [client -> where its call is]
  drops,     \* [client -> the tags its change may take from the file]
  copy,      \* [client -> the tags of the object it fetched, then the new ones]
  overlapped \* two tag changes were ever under way at a time (history)

calls == <<pc, drops, copy>>
sync  == <<stage, event>>
index == <<object, sealed, changes, behind, outdated>>
local == <<dead, tags>>
vars  == <<index, local, sync, calls, overlapped>>

Changes ==
  [op : {"add"}, tags : SUBSET Tags \ {{}}] \cup [op : {"remove", "set"}, tags : SUBSET Tags]

Live(t)  == [kind |-> "live", tags |-> t]
Gone     == [kind |-> "gone", tags |-> {}]

(* The file is durable and synced everywhere, without tags.                *)
Init ==
  /\ object = "live" /\ sealed = {} /\ changes = 0
  /\ dead = {} /\ tags = [d \in Devices |-> {}]
  /\ behind = {} /\ outdated = {}
  /\ stage = [d \in Devices |-> "idle"] /\ event = [d \in Devices |-> Gone]
  /\ pc = [c \in Clients |-> "idle"] /\ drops = [c \in Clients |-> {}]
  /\ copy = [c \in Clients |-> {}]
  /\ overlapped = FALSE

(* The indexer lists the object with a later time.                         *)
Changed(kind, t) ==
  /\ changes < MaxChanges
  /\ changes' = changes + 1
  /\ object' = kind /\ sealed' = t
  /\ behind' = Devices
  /\ outdated' = {d \in Devices : stage[d] # "idle"}

Goto(c, to) == pc' = [pc EXCEPT ![c] = to]

Return(c) ==
  /\ pc' = [pc EXCEPT ![c] = "idle"]
  /\ drops' = [drops EXCEPT ![c] = {}]
  /\ copy' = [copy EXCEPT ![c] = {}]

-----------------------------------------------------------------------------
(* resolveTagsChange: the row, ...                                         *)
Resolve(c) ==
  /\ pc[c] = "idle" /\ DeviceOf[c] \notin dead
  /\ Goto(c, "fetch")
  /\ UNCHANGED <<index, local, sync, drops, copy, overlapped>>

(* ... the object, ...                                                     *)
FetchObject(c) ==
  /\ pc[c] = "fetch" /\ object = "live"
  /\ copy' = [copy EXCEPT ![c] = sealed]
  /\ overlapped' = (overlapped \/ \E o \in Clients : pc[o] \in {"seed", "pin", "persist"})
  /\ Goto(c, "seed")
  /\ UNCHANGED <<index, local, sync, drops>>

Applied(r, current) ==
  CASE r.op = "add"    -> current \cup r.tags
    [] r.op = "remove" -> current \ r.tags
    [] OTHER           -> r.tags

MayDrop(r) ==
  CASE r.op = "add"    -> {}
    [] r.op = "remove" -> r.tags
    [] OTHER           -> Tags

(* Mutant: the join is taken for the tags of the object.                   *)
SeedFromJoin(c) ==
  /\ pc[c] = "seed"
  /\ \E r \in Changes :
       /\ copy'  = [copy EXCEPT ![c] = Applied(r, tags[DeviceOf[c]])]
       /\ drops' = [drops EXCEPT ![c] = MayDrop(r)]
  /\ Goto(c, "pin")
  /\ UNCHANGED <<index, local, sync, overlapped>>

(* ... its tags, or those of the join when it has none, and the change of  *)
(* them that the caller asked for, which nothing looked at before, ...     *)
Seed(c) ==
  /\ pc[c] = "seed"
  /\ LET current == IF copy[c] = {} THEN tags[DeviceOf[c]] ELSE copy[c]
     IN  \E r \in Changes :
           /\ copy'  = [copy EXCEPT ![c] = Applied(r, current)]
           /\ drops' = [drops EXCEPT ![c] = MayDrop(r)]
  /\ Goto(c, "pin")
  /\ UNCHANGED <<index, local, sync, overlapped>>

(* ... the pin of the object with the new tags ...                         *)
Pin(c) ==
  /\ pc[c] = "pin"
  /\ Changed("live", copy[c])
  /\ Goto(c, "persist")
  /\ UNCHANGED <<local, sync, drops, copy, overlapped>>

(* Mutant: the new tags are joined as one tag.                             *)
PersistAsOne(c) ==
  /\ pc[c] = "persist"
  /\ tags' = [tags EXCEPT ![DeviceOf[c]] = {copy[c]}]
  /\ Return(c)
  /\ UNCHANGED <<index, dead, sync, overlapped>>

(* ... and reconcileTagsTx.                                                *)
Persist(c) ==
  /\ pc[c] = "persist"
  /\ tags' = [tags EXCEPT ![DeviceOf[c]] = copy[c]]
  /\ Return(c)
  /\ UNCHANGED <<index, dead, sync, overlapped>>

(* Remove: the tombstone, and the deletion of the object.                  *)
Remove(c) ==
  /\ pc[c] = "idle" /\ DeviceOf[c] \notin dead
  /\ dead' = dead \cup {DeviceOf[c]}
  /\ Goto(c, "delete")
  /\ UNCHANGED <<index, tags, sync, drops, copy, overlapped>>

DeleteObject(c) ==
  /\ pc[c] = "delete" /\ object = "live"
  /\ Changed("gone", {})
  /\ Return(c)
  /\ UNCHANGED <<local, sync, overlapped>>

(* A call ends early: an error of the indexer or of the database, or the   *)
(* death of the process.                                                   *)
Abort(c) ==
  /\ pc[c] # "idle"
  /\ Return(c)
  /\ UNCHANGED <<index, local, sync, overlapped>>

-----------------------------------------------------------------------------
(* Sync, for the one object: the event, its application, the cursor.       *)
Fetch(d) ==
  /\ stage[d] = "idle" /\ d \in behind
  /\ stage' = [stage EXCEPT ![d] = "fetched"]
  /\ event' = [event EXCEPT ![d] = IF object = "live" THEN Live(sealed) ELSE Gone]
  /\ UNCHANGED <<index, local, calls, overlapped>>

(* upsertFromMeta brings the row back to life and reconciles its tags; a   *)
(* delete event tombstones it.                                             *)
Apply(d) ==
  /\ stage[d] = "fetched"
  /\ stage' = [stage EXCEPT ![d] = "applied"]
  /\ \/ /\ event[d].kind = "live"
        /\ dead' = dead \ {d}
        /\ tags' = [tags EXCEPT ![d] = event[d].tags]
     \/ /\ event[d].kind = "gone"
        /\ dead' = dead \cup {d}
        /\ UNCHANGED tags
  /\ UNCHANGED <<index, event, calls, overlapped>>

(* Mutant: the cursor is saved as of now, not as of the event applied.     *)
SaveCursorAsOfNow(d) ==
  /\ stage[d] = "applied"
  /\ stage' = [stage EXCEPT ![d] = "idle"]
  /\ behind' = behind \ {d}
  /\ outdated' = outdated \ {d}
  /\ event' = [event EXCEPT ![d] = Gone]
  /\ UNCHANGED <<object, sealed, changes, local, calls, overlapped>>

SaveCursor(d) ==
  /\ stage[d] = "applied"
  /\ stage' = [stage EXCEPT ![d] = "idle"]
  /\ behind' = behind \ ({d} \ outdated)
  /\ outdated' = outdated \ {d}
  /\ event' = [event EXCEPT ![d] = Gone]
  /\ UNCHANGED <<object, sealed, changes, local, calls, overlapped>>

(* A pass that fails, or the process that dies, saves no cursor.           *)
Interrupt(d) ==
  /\ stage[d] # "idle"
  /\ stage' = [stage EXCEPT ![d] = "idle"]
  /\ outdated' = outdated \ {d}
  /\ event' = [event EXCEPT ![d] = Gone]
  /\ UNCHANGED <<object, sealed, changes, behind, local, calls, overlapped>>

-----------------------------------------------------------------------------
Next ==
  \/ \E c \in Clients :
       \/ Resolve(c) \/ FetchObject(c) \/ Seed(c) \/ Pin(c) \/ Persist(c)
       \/ Remove(c) \/ DeleteObject(c) \/ Abort(c)
  \/ \E d \in Devices : Fetch(d) \/ Apply(d) \/ SaveCursor(d) \/ Interrupt(d)

Spec == Init /\ [][Next]_vars

-----------------------------------------------------------------------------
PCs == {"idle", "fetch", "seed", "pin", "persist", "delete"}

TypeOK ==
  /\ object \in {"live", "gone"} /\ sealed \in SUBSET Tags /\ changes \in 0..MaxChanges
  /\ dead \in SUBSET Devices /\ tags \in [Devices -> SUBSET Tags]
  /\ behind \in SUBSET Devices /\ outdated \in SUBSET Devices
  /\ stage \in [Devices -> {"idle", "fetched", "applied"}]
  /\ event \in [Devices -> [kind : {"live", "gone"}, tags : SUBSET Tags]]
  /\ pc \in [Clients -> PCs] /\ drops \in [Clients -> SUBSET Tags]
  /\ copy \in [Clients -> SUBSET Tags]
  /\ overlapped \in BOOLEAN

(* As long as no two tag changes overlap, on whatever devices, a device    *)
(* that has caught up shows the tags of the object, whatever calls and     *)
(* syncs were cut short and in whatever order they interleaved.            *)
TagsFollowObject ==
  \A d \in Devices :
    ~overlapped /\ object = "live" /\ d \notin behind => tags[d] = sealed

(* A change takes no tag from the object but those its caller meant to,    *)
(* unless it overlaps with another.                                        *)
NoLostTag ==
  [][\A c \in Clients :
       Pin(c) /\ object = "live" /\ ~overlapped => sealed \ sealed' \subseteq drops[c]]_vars
=============================================================================
