-------------------------- MODULE VaultTagsProofs --------------------------
(***************************************************************************)
(* Proofs about VaultTags, for any devices, clients and tags and any       *)
(* number of changes.                                                      *)
(*                                                                         *)
(* The argument: while no two tag changes overlap, only the client past    *)
(* its fetch of the object can pin it, so what it holds is what the object *)
(* has (CopyInv); and a pin puts every device behind and every fetched     *)
(* event out of date, so that a device catches up only by applying the     *)
(* tags of the last event (SyncInv).                                       *)
(***************************************************************************)
EXTENDS VaultTags, TLAPS

Active(c) == pc[c] \in {"seed", "pin", "persist"}

CopyInv ==
  ~overlapped =>
    \A c \in Clients :
      /\ Active(c) => \A o \in Clients : Active(o) => o = c
      /\ object = "live" /\ pc[c] \in {"seed", "persist"} => copy[c] = sealed
      /\ object = "live" /\ pc[c] = "pin" => sealed \ copy[c] \subseteq drops[c]

SyncInv ==
  \A d \in Devices :
    /\ stage[d] # "idle" => d \in behind
    /\ stage[d] # "idle" /\ d \notin outdated =>
         event[d] = IF object = "live" THEN Live(sealed) ELSE Gone
    /\ ~overlapped /\ object = "live" =>
         /\ d \notin behind => tags[d] = sealed
         /\ stage[d] = "applied" /\ d \notin outdated => tags[d] = sealed

IInv == TypeOK /\ CopyInv /\ SyncInv

-----------------------------------------------------------------------------
LEMMA ChangesType ==
  ASSUME NEW r \in Changes
  PROVE  /\ r.op \in {"add", "remove", "set"} /\ r.tags \in SUBSET Tags
         /\ \A t \in SUBSET Tags : Applied(r, t) \in SUBSET Tags
         /\ MayDrop(r) \in SUBSET Tags
         /\ \A t \in SUBSET Tags : t \ Applied(r, t) \subseteq MayDrop(r)
<1>1. r.op \in {"add", "remove", "set"} /\ r.tags \in SUBSET Tags
  BY DEF Changes
<1>2. CASE r.op = "add"
  BY <1>1, <1>2 DEF Applied, MayDrop
<1>3. CASE r.op = "remove"
  BY <1>1, <1>3 DEF Applied, MayDrop
<1>4. CASE r.op = "set"
  BY <1>1, <1>4 DEF Applied, MayDrop
<1>. QED  BY <1>1, <1>2, <1>3, <1>4

LEMMA InitIInv == Init => IInv
<1> SUFFICES ASSUME Init PROVE IInv
  OBVIOUS
<1>1. TypeOK
  <2>1. {} \in SUBSET Tags /\ 0 \in 0..MaxChanges
    BY ChangesAssumption
  <2>2. /\ tags \in [Devices -> SUBSET Tags]
        /\ event \in [Devices -> [kind : {"live", "gone"}, tags : SUBSET Tags]]
    BY <2>1 DEF Init, Gone
  <2>3. /\ stage \in [Devices -> {"idle", "fetched", "applied"}] /\ pc \in [Clients -> PCs]
        /\ drops \in [Clients -> SUBSET Tags] /\ copy \in [Clients -> SUBSET Tags]
    BY <2>1 DEF Init, PCs
  <2>. QED  BY <2>1, <2>2, <2>3 DEF Init, TypeOK
<1>2. CopyInv /\ SyncInv
  BY DEF Init, CopyInv, SyncInv, Active
<1>. QED  BY <1>1, <1>2 DEF IInv

LEMMA TypeStep == TypeOK /\ [Next]_vars => TypeOK'
<1> SUFFICES ASSUME TypeOK, [Next]_vars PROVE TypeOK'
  OBVIOUS
<1>. USE DEF TypeOK, PCs, calls, sync, index, local, Goto, Return
<1>1. ASSUME NEW c \in Clients, Resolve(c) PROVE TypeOK'
  BY <1>1 DEF Resolve
<1>2. ASSUME NEW c \in Clients, FetchObject(c) PROVE TypeOK'
  BY <1>2 DEF FetchObject
<1>3. ASSUME NEW c \in Clients, Seed(c) PROVE TypeOK'
  <2>1. PICK r \in Changes :
          /\ copy' = [copy EXCEPT ![c] =
               Applied(r, IF copy[c] = {} THEN tags[DeviceOf[c]] ELSE copy[c])]
          /\ drops' = [drops EXCEPT ![c] = MayDrop(r)]
    BY <1>3 DEF Seed
  <2>2. (IF copy[c] = {} THEN tags[DeviceOf[c]] ELSE copy[c]) \in SUBSET Tags
    BY DeviceOfAssumption
  <2>3. copy' \in [Clients -> SUBSET Tags] /\ drops' \in [Clients -> SUBSET Tags]
    BY <2>1, <2>2, ChangesType
  <2>. QED  BY <1>3, <2>3 DEF Seed
<1>4. ASSUME NEW c \in Clients, Pin(c) PROVE TypeOK'
  BY <1>4, ChangesAssumption DEF Pin, Changed
<1>5. ASSUME NEW c \in Clients, Persist(c) PROVE TypeOK'
  BY <1>5, DeviceOfAssumption DEF Persist
<1>6. ASSUME NEW c \in Clients, Remove(c) PROVE TypeOK'
  BY <1>6, DeviceOfAssumption DEF Remove
<1>7. ASSUME NEW c \in Clients, DeleteObject(c) PROVE TypeOK'
  BY <1>7, ChangesAssumption DEF DeleteObject, Changed
<1>8. ASSUME NEW c \in Clients, Abort(c) PROVE TypeOK'
  BY <1>8 DEF Abort
<1>9. ASSUME NEW d \in Devices, Fetch(d) PROVE TypeOK'
  BY <1>9 DEF Fetch, Live, Gone
<1>10. ASSUME NEW d \in Devices, Apply(d) PROVE TypeOK'
  BY <1>10 DEF Apply
<1>11. ASSUME NEW d \in Devices, SaveCursor(d) PROVE TypeOK'
  BY <1>11 DEF SaveCursor, Gone
<1>12. ASSUME NEW d \in Devices, Interrupt(d) PROVE TypeOK'
  BY <1>12 DEF Interrupt, Gone
<1>13. CASE UNCHANGED vars
  BY <1>13 DEF vars
<1>. QED
  BY <1>1, <1>2, <1>3, <1>4, <1>5, <1>6, <1>7, <1>8, <1>9, <1>10, <1>11, <1>12, <1>13 DEF Next

-----------------------------------------------------------------------------
(* The one client past its fetch holds what the object has.                *)
LEMMA CopyStep == ASSUME TypeOK, CopyInv, [Next]_vars PROVE CopyInv'
<1>. USE DEF calls, sync, index, local, Goto, Return, Active
<1>1. ASSUME NEW c \in Clients, Resolve(c) PROVE CopyInv'
  BY <1>1 DEF TypeOK, CopyInv, Resolve
<1>2. ASSUME NEW c \in Clients, FetchObject(c) PROVE CopyInv'
  <2>1. ~overlapped' => \A o \in Clients : ~Active(o)
    BY <1>2 DEF FetchObject
  <2>2. /\ pc' = [pc EXCEPT ![c] = "seed"] /\ copy' = [copy EXCEPT ![c] = sealed]
        /\ UNCHANGED <<object, sealed, drops>>
    BY <1>2 DEF FetchObject
  <2>. QED  BY <2>1, <2>2 DEF TypeOK, CopyInv
<1>3. ASSUME NEW c \in Clients, Seed(c) PROVE CopyInv'
  <2>. DEFINE current == IF copy[c] = {} THEN tags[DeviceOf[c]] ELSE copy[c]
  <2>1. PICK r \in Changes :
          /\ copy' = [copy EXCEPT ![c] = Applied(r, current)]
          /\ drops' = [drops EXCEPT ![c] = MayDrop(r)]
    BY <1>3 DEF Seed
  <2>2. copy[c] \ Applied(r, current) \subseteq MayDrop(r)
    BY ChangesType DEF TypeOK
  <2>3. /\ copy'[c] = Applied(r, current) /\ drops'[c] = MayDrop(r)
        /\ \A o \in Clients \ {c} : copy'[o] = copy[o] /\ drops'[o] = drops[o]
    BY <2>1 DEF TypeOK
  <2>4. /\ pc[c] = "seed" /\ pc'[c] = "pin" /\ UNCHANGED <<object, sealed, overlapped>>
        /\ \A o \in Clients \ {c} : pc'[o] = pc[o]
    BY <1>3 DEF TypeOK, Seed
  <2>. QED  BY <2>2, <2>3, <2>4 DEF CopyInv
<1>4. ASSUME NEW c \in Clients, Pin(c) PROVE CopyInv'
  BY <1>4 DEF TypeOK, CopyInv, Pin, Changed
<1>5. ASSUME NEW c \in Clients, Persist(c) PROVE CopyInv'
  BY <1>5 DEF TypeOK, CopyInv, Persist
<1>6. ASSUME NEW c \in Clients, Remove(c) PROVE CopyInv'
  BY <1>6 DEF TypeOK, CopyInv, Remove
<1>7. ASSUME NEW c \in Clients, DeleteObject(c) PROVE CopyInv'
  BY <1>7 DEF TypeOK, CopyInv, DeleteObject, Changed
<1>8. ASSUME NEW c \in Clients, Abort(c) PROVE CopyInv'
  BY <1>8 DEF TypeOK, CopyInv, Abort
<1>9. CASE UNCHANGED <<calls, object, sealed, overlapped>>
  BY <1>9 DEF CopyInv
<1>. QED
  BY <1>1, <1>2, <1>3, <1>4, <1>5, <1>6, <1>7, <1>8, <1>9
  DEF Next, Fetch, Apply, SaveCursor, Interrupt, vars

(* A change of the object leaves every device behind.                      *)
LEMMA SyncOfChange ==
  ASSUME TypeOK, NEW kind, NEW t, Changed(kind, t), UNCHANGED sync
  PROVE  SyncInv'
BY DEF TypeOK, SyncInv, Changed, sync

(* A device catches up by applying the object's last event.                *)
LEMMA SyncStep == ASSUME TypeOK, CopyInv, SyncInv, [Next]_vars PROVE SyncInv'
<1>. USE DEF calls, sync, index, local
<1>1. ASSUME NEW c \in Clients, Pin(c) PROVE SyncInv'
  BY <1>1, SyncOfChange DEF Pin
<1>2. ASSUME NEW c \in Clients, DeleteObject(c) PROVE SyncInv'
  BY <1>2, SyncOfChange DEF DeleteObject
<1>3. ASSUME NEW c \in Clients, Persist(c) PROVE SyncInv'
  BY <1>3 DEF TypeOK, CopyInv, SyncInv, Persist
<1>4. ASSUME NEW d \in Devices, Fetch(d) PROVE SyncInv'
  BY <1>4 DEF TypeOK, SyncInv, Fetch
<1>5. ASSUME NEW d \in Devices, Apply(d) PROVE SyncInv'
  <2>1. /\ stage[d] = "fetched" /\ stage' = [stage EXCEPT ![d] = "applied"]
        /\ UNCHANGED <<index, event, overlapped>>
    BY <1>5 DEF Apply
  <2>2. \A e \in Devices \ {d} : tags'[e] = tags[e]
    BY <1>5 DEF TypeOK, Apply
  <2>3. CASE event[d].kind = "live" /\ tags' = [tags EXCEPT ![d] = event[d].tags]
    <3>1. tags'[d] = event[d].tags
      BY <2>3 DEF TypeOK
    <3>2. ~overlapped /\ object = "live" /\ d \notin outdated => tags'[d] = sealed
      BY <2>1, <3>1 DEF SyncInv, Live
    <3>. QED  BY <2>1, <2>2, <3>2 DEF TypeOK, SyncInv
  <2>4. CASE event[d].kind = "gone" /\ UNCHANGED tags
    BY <2>1, <2>2, <2>4 DEF TypeOK, SyncInv, Live, Gone
  <2>. QED  BY <1>5, <2>3, <2>4 DEF Apply
<1>6. ASSUME NEW d \in Devices, SaveCursor(d) PROVE SyncInv'
  BY <1>6 DEF TypeOK, SyncInv, SaveCursor
<1>7. ASSUME NEW d \in Devices, Interrupt(d) PROVE SyncInv'
  BY <1>7 DEF TypeOK, SyncInv, Interrupt
<1>8. ASSUME UNCHANGED <<index, tags, sync>>, ~overlapped' => ~overlapped
      PROVE  SyncInv'
  BY <1>8 DEF SyncInv
<1>9. ASSUME NEW c \in Clients, FetchObject(c) PROVE SyncInv'
  <2>1. ~overlapped' => ~overlapped
    BY <1>9 DEF FetchObject
  <2>. QED  BY <1>8, <1>9, <2>1 DEF FetchObject
<1>10. ASSUME NEW c \in Clients, Resolve(c) \/ Seed(c) \/ Remove(c) \/ Abort(c) PROVE SyncInv'
  BY <1>8, <1>10 DEF Resolve, Seed, Remove, Abort
<1>11. CASE UNCHANGED vars
  BY <1>8, <1>11 DEF vars
<1>. QED  BY <1>1, <1>2, <1>3, <1>4, <1>5, <1>6, <1>7, <1>9, <1>10, <1>11 DEF Next

-----------------------------------------------------------------------------
(* The inductive invariant holds in every reachable state.                 *)
THEOREM Invariance == Spec => []IInv
<1>1. IInv /\ [Next]_vars => IInv'
  BY TypeStep, CopyStep, SyncStep DEF IInv
<1>. QED  BY <1>1, InitIInv, PTL DEF Spec

(* The state of the tag changes and of the syncs stays well formed.        *)
THEOREM TypeCorrect == Spec => []TypeOK
<1>1. IInv => TypeOK
  BY DEF IInv
<1>. QED  BY <1>1, Invariance, PTL

(* A device that has caught up shows the tags of the object, unless two    *)
(* calls of resolveTagsChange overlapped.                                  *)
THEOREM JoinIsTheObjects == Spec => []TagsFollowObject
<1>1. IInv => TagsFollowObject
  BY DEF IInv, SyncInv, TagsFollowObject
<1>. QED  BY <1>1, Invariance, PTL

(* resolveTagsChange pins no object without a tag that it has and that its *)
(* caller did not want off, unless two calls overlapped.                   *)
THEOREM TagsAreKept == Spec => NoLostTag
<1>. DEFINE Keeps == \A c \in Clients :
       Pin(c) /\ object = "live" /\ ~overlapped => sealed \ sealed' \subseteq drops[c]
<1>1. IInv => Keeps
  BY DEF IInv, CopyInv, Pin, Changed
<1>2. IInv /\ [Next]_vars => [Keeps]_vars
  BY <1>1
<1>. HIDE DEF Keeps
<1>3. Spec => [][Keeps]_vars
  BY <1>2, Invariance, PTL DEF Spec
<1>. QED  BY <1>3 DEF NoLostTag, Keeps
=============================================================================
