-------------------------- MODULE VaultSyncProofs --------------------------
(***************************************************************************)
(* Proofs about VaultSync, for every set of devices, versions and paths,   *)
(* every batch size and any number of crashes.                             *)
(*                                                                         *)
(* The argument: what the cursor has passed, or will have passed once the  *)
(* batch under way is done, is applied except for the events still in the  *)
(* batch (AppliedInv).  An event that comes during a batch takes its       *)
(* object out of both sets, so an event of the batch that is out of date   *)
(* is never counted as passed (BatchInv).                                  *)
(*                                                                         *)
(* Convergence needs the order as well (ConvInv).  The last events are in  *)
(* a strict total order (OrderInv), and what a device has applied is at    *)
(* any time a prefix of it (PassedInv), because a page and its ranks       *)
(* follow that order (CursorInv).  So the event a device applies comes     *)
(* after all it has applied before, and the winner it leaves is the last   *)
(* live version of its path that was passed (WinnerInv).  Two devices that *)
(* have passed the whole list then have the same last version.             *)
(***************************************************************************)
EXTENDS VaultSync, FiniteSetTheorems, TLAPS

(* A row belongs to the device that writes its version or comes from the   *)
(* metadata of its object.                                                 *)
WriterInv ==
  \A d \in Devices :
    /\ \A v \in staged[d] : v \in rows[d] /\ Writer[v] = d
    /\ \A v \in rows[d] : Writer[v] # d => object[v] \in {"live", "gone"}
    /\ \A v \in Versions : object[v] # "none" /\ Writer[v] = d => v \in rows[d]
    /\ current[d] \subseteq rows[d]

BatchInv ==
  \A d \in Devices :
    /\ d \notin syncing => batch[d] = {} /\ upto[d] = {}
    /\ \A e \in batch[d] :
         /\ e.version \notin cursor[d]
         /\ e.version \in upto[d] => e.kind = object[e.version]
         /\ e.kind = "live" => object[e.version] \in {"live", "gone"}
         /\ \A f \in batch[d] : e.version = f.version => e = f

Passed(d) == {v \in cursor[d] \cup upto[d] : \A e \in batch[d] : e.version # v}

AppliedInv ==
  \A d \in Devices : \A v \in Passed(d) :
    /\ object[v] = "live" => v \in rows[d] /\ v \in keyed[d]
    /\ object[v] = "gone" /\ Winner(d, v) => v \in missed[d]

IInv == TypeOK /\ WriterInv /\ BatchInv /\ AppliedInv /\ OneWinner

-----------------------------------------------------------------------------
(* A page is made of listed objects behind the cursor, with a rank each.   *)
LEMMA PageType ==
  ASSUME TypeOK, NEW d \in Devices
  PROVE  /\ Page(d) \subseteq Versions \ cursor[d]
         /\ \A v \in Page(d) : object[v] \in Kinds \ {"none"} /\ Rank(d, v) \in Nat
<1>1. \A v \in Versions : Rank(d, v) \in Nat
  <2> SUFFICES ASSUME NEW v \in Versions PROVE Rank(d, v) \in Nat
    OBVIOUS
  <2>1. earlier[v] \cap Behind(d) \subseteq Versions
    BY DEF TypeOK, Behind, Listed
  <2>2. IsFiniteSet(earlier[v] \cap Behind(d))
    BY <2>1, VersionsAssumption, FS_Subset
  <2>. QED  BY <2>2, FS_CardinalityType DEF Rank
<1>. QED  BY <1>1 DEF Page, Behind, Listed, TypeOK

(* What an event does to one object and leaves to the others.              *)
LEMMA EventEffect ==
  ASSUME TypeOK, NEW v \in Versions, NEW kind \in Kinds, Event(v, kind)
  PROVE  /\ object' \in [Versions -> Kinds]
         /\ earlier' \in [Versions -> SUBSET Versions]
         /\ cursor' \in [Devices -> SUBSET Versions]
         /\ upto' \in [Devices -> SUBSET Versions]
         /\ object'[v] = kind
         /\ \A w \in Versions \ {v} : object'[w] = object[w]
         /\ \A d \in Devices : cursor'[d] = cursor[d] \ {v} /\ upto'[d] = upto[d] \ {v}
BY DEF TypeOK, Event, Listed

(* Promotion keeps the rows of other paths and the dead ones as they are.  *)
LEMMA PromotedType ==
  ASSUME NEW v \in Versions, NEW cur \in SUBSET Versions, NEW tombs
  PROVE  /\ Promoted(v, cur, tombs) \in SUBSET Versions
         /\ Promoted(v, cur, tombs) \subseteq cur \cup {v}
         /\ v \notin tombs => v \in Promoted(v, cur, tombs)
         /\ \A w \in Promoted(v, cur, tombs) \ tombs :
              w = v \/ (w \in cur /\ PathOf[w] # PathOf[v])
BY DEF Promoted

LEMMA InitIInv == Init => IInv
<1> SUFFICES ASSUME Init PROVE IInv
  OBVIOUS
<1>1. TypeOK
  BY BoundsAssumption DEF Init, TypeOK, Kinds
<1>2. WriterInv /\ BatchInv /\ AppliedInv /\ OneWinner
  BY DEF Init, WriterInv, BatchInv, AppliedInv, Passed, Winner, OneWinner
<1>. QED  BY <1>1, <1>2 DEF IInv

-----------------------------------------------------------------------------
LEMMA TypeStep == TypeOK /\ [Next]_vars => TypeOK'
<1> SUFFICES ASSUME TypeOK, [Next]_vars PROVE TypeOK'
  OBVIOUS
<1>1. ASSUME NEW d \in Devices, NEW v \in Versions, Put(d, v) PROVE TypeOK'
  <2>1. Promoted(v, current[d], dead[d]) \in SUBSET Versions
    BY PromotedType DEF TypeOK
  <2>. QED  BY <1>1, <2>1 DEF TypeOK, Put, indexer, syncVars, markVars, history
<1>2. ASSUME NEW d \in Devices, NEW v \in Versions, FlushPin(d, v) PROVE TypeOK'
  BY <1>2, EventEffect DEF TypeOK, FlushPin, rowVars, syncVars, history, Kinds
<1>3. ASSUME NEW d \in Devices, NEW v \in Versions, Remove(d, v) PROVE TypeOK'
  <2>1. PathOf[v] \in Paths
    BY PathOfAssumption
  <2>. QED  BY <1>3, <2>1 DEF TypeOK, Remove, indexer, syncVars, markVars
<1>4. ASSUME NEW d \in Devices, Finalize(d) PROVE TypeOK'
  BY <1>4 DEF TypeOK, Finalize, indexer, syncVars, markVars, history
<1>5. ASSUME NEW d \in Devices, DeleteObject(d) PROVE TypeOK'
  <2>1. removing[d] \in Versions
    BY <1>5 DEF TypeOK, DeleteObject
  <2>2. CASE UNCHANGED <<indexer, markVars>>
    BY <1>5, <2>2 DEF TypeOK, DeleteObject, indexer, rowVars, syncVars, markVars, history
  <2>3. CASE Event(removing[d], "gone")
    BY <1>5, <2>1, <2>3, EventEffect DEF TypeOK, DeleteObject, rowVars, syncVars, history, Kinds
  <2>. QED  BY <1>5, <2>2, <2>3 DEF DeleteObject
<1>6. ASSUME NEW d \in Devices, Crash(d) \/ FailSync(d) PROVE TypeOK'
  BY <1>6, BoundsAssumption DEF TypeOK, CutPass, Crash, FailSync, indexer, rowVars, history
<1>7. ASSUME NEW d \in Devices, Fetch(d) PROVE TypeOK'
  <2>1. {[version |-> v, kind |-> object[v], rank |-> Rank(d, v)] : v \in Page(d)} \in SUBSET Events
    BY PageType DEF Events
  <2>2. Page(d) \in SUBSET Versions
    BY PageType
  <2>. QED  BY <1>7, <2>1, <2>2 DEF TypeOK, Fetch, indexer, rowVars, ownVars, history
<1>8. ASSUME NEW d \in Devices, Apply(d) PROVE TypeOK'
  <2>1. PICK e \in batch[d] :
          /\ batch' = [batch EXCEPT ![d] = @ \ {e}]
          /\ \/ Tombstone(d, e.version)
             \/ UNCHANGED <<rowVars, missed>>
             \/ Record(d, e.version)
    BY <1>8 DEF Apply
  <2>2. e.version \in Versions
    BY DEF TypeOK, Events
  <2>3. CASE Tombstone(d, e.version)
    BY <1>8, <2>1, <2>2, <2>3 DEF TypeOK, Apply, Tombstone, indexer, ownVars, markVars
  <2>4. CASE UNCHANGED <<rowVars, missed>>
    BY <1>8, <2>1, <2>4 DEF TypeOK, Apply, rowVars, indexer, ownVars, markVars
  <2>5. CASE Record(d, e.version)
    <3>1. Promoted(e.version, current[d] \ {e.version}, dead[d] \ {e.version}) \in SUBSET Versions
      BY <2>2, PromotedType DEF TypeOK
    <3>2. current' \in [Devices -> SUBSET Versions] /\ missed' = missed
      BY <2>5, <3>1 DEF TypeOK, Record
    <3>3. rows' \in [Devices -> SUBSET Versions] /\ keyed' \in [Devices -> SUBSET Versions]
      BY <2>2, <2>5 DEF TypeOK, Record
    <3>4. /\ rows' \in [Devices -> SUBSET Versions] /\ current' \in [Devices -> SUBSET Versions]
          /\ dead' \in [Devices -> SUBSET Versions] /\ keyed' \in [Devices -> SUBSET Versions]
          /\ missed' = missed
      BY <2>5, <3>2, <3>3 DEF TypeOK, Record
    <3>5. /\ batch' \in [Devices -> SUBSET Events]
          /\ UNCHANGED <<indexer, ownVars, syncing, markVars, crashes, removed>>
      BY <1>8, <2>1 DEF TypeOK, Apply
    <3>. QED  BY <3>4, <3>5 DEF TypeOK, indexer, ownVars, markVars
  <2>. QED  BY <2>1, <2>3, <2>4, <2>5
<1>9. ASSUME NEW d \in Devices, SaveCursor(d) PROVE TypeOK'
  BY <1>9 DEF TypeOK, SaveCursor, indexer, rowVars, ownVars, history
<1>10. ASSUME NEW v \in Versions, PinBare(v) PROVE TypeOK'
  BY <1>10, EventEffect DEF TypeOK, PinBare, rowVars, ownVars, syncVars, history, Kinds
<1>11. ASSUME NEW v \in Versions, Stamp(v) PROVE TypeOK'
  BY <1>11, EventEffect DEF TypeOK, Stamp, rowVars, ownVars, syncVars, history, Kinds
<1>12. CASE UNCHANGED vars
  BY <1>12 DEF TypeOK, vars, indexer, rowVars, ownVars, syncVars, markVars, history
<1>. QED  BY <1>1, <1>2, <1>3, <1>4, <1>5, <1>6, <1>7, <1>8, <1>9, <1>10, <1>11, <1>12 DEF Next

(* Every row is its writer's or came from metadata.                        *)
LEMMA WriterStep ==
  ASSUME TypeOK, WriterInv, BatchInv, [Next]_vars
  PROVE  WriterInv'
<1>1. ASSUME NEW d \in Devices, NEW v \in Versions, Put(d, v) PROVE WriterInv'
  <2>1. Promoted(v, current[d], dead[d]) \subseteq current[d] \cup {v}
    BY PromotedType DEF TypeOK
  <2>. QED  BY <1>1, <2>1 DEF TypeOK, WriterInv, Put, indexer
<1>2. ASSUME NEW d \in Devices, NEW v \in Versions, FlushPin(d, v) PROVE WriterInv'
  <2>1. Event(v, "live") /\ Writer[v] = d /\ v \in rows[d]
    BY <1>2 DEF FlushPin, WriterInv
  <2>2. object'[v] = "live" /\ \A w \in Versions \ {v} : object'[w] = object[w]
    BY <2>1, EventEffect DEF Kinds
  <2>. QED  BY <1>2, <2>1, <2>2 DEF TypeOK, WriterInv, FlushPin, rowVars
<1>3. ASSUME NEW d \in Devices, NEW v \in Versions, Remove(d, v) PROVE WriterInv'
  BY <1>3 DEF TypeOK, WriterInv, Remove, indexer
<1>4. ASSUME NEW d \in Devices, Finalize(d) PROVE WriterInv'
  BY <1>4 DEF TypeOK, WriterInv, Finalize, indexer
<1>5. ASSUME NEW d \in Devices, DeleteObject(d) PROVE WriterInv'
  <2>1. removing[d] \in Versions
    BY <1>5 DEF TypeOK, DeleteObject
  <2>2. CASE UNCHANGED <<indexer, markVars>>
    BY <1>5, <2>2 DEF WriterInv, DeleteObject, indexer, rowVars
  <2>3. CASE object[removing[d]] = "live" /\ Event(removing[d], "gone")
    <3>1. /\ object'[removing[d]] = "gone"
          /\ \A w \in Versions \ {removing[d]} : object'[w] = object[w]
      BY <2>1, <2>3, EventEffect DEF Kinds
    <3>. QED  BY <1>5, <2>1, <2>3, <3>1 DEF TypeOK, WriterInv, DeleteObject, rowVars
  <2>. QED  BY <1>5, <2>2, <2>3 DEF DeleteObject
<1>6. ASSUME NEW d \in Devices, Crash(d) \/ FailSync(d) PROVE WriterInv'
  BY <1>6 DEF WriterInv, CutPass, Crash, FailSync, indexer, rowVars
<1>7. ASSUME NEW d \in Devices, Fetch(d) PROVE WriterInv'
  BY <1>7 DEF WriterInv, Fetch, indexer, rowVars, ownVars
<1>8. ASSUME NEW d \in Devices, Apply(d) PROVE WriterInv'
  <2>1. PICK e \in batch[d] :
          \/ Tombstone(d, e.version)
          \/ UNCHANGED <<rowVars, missed>>
          \/ e.kind = "live" /\ Record(d, e.version)
    BY <1>8 DEF Apply
  <2>2. e.version \in Versions
    BY DEF TypeOK, Events
  <2>3. CASE Tombstone(d, e.version)
    BY <1>8, <2>3 DEF WriterInv, Apply, Tombstone, indexer, ownVars
  <2>4. CASE UNCHANGED <<rowVars, missed>>
    BY <1>8, <2>4 DEF WriterInv, Apply, rowVars, indexer, ownVars
  <2>5. CASE e.kind = "live" /\ Record(d, e.version)
    <3>1. Promoted(e.version, current[d] \ {e.version}, dead[d] \ {e.version})
            \subseteq current[d] \cup {e.version}
      BY <2>2, PromotedType DEF TypeOK
    <3>2. object[e.version] \in {"live", "gone"}
      BY <2>5 DEF BatchInv
    <3>3. UNCHANGED <<object, staged>>
      BY <1>8 DEF Apply, indexer, ownVars
    <3>4. /\ rows'[d] = rows[d] \cup {e.version}
          /\ \A c \in Devices \ {d} : rows'[c] = rows[c] /\ current'[c] = current[c]
      BY <2>5 DEF TypeOK, Record
    <3>5. current'[d] \subseteq rows'[d]
      <4>1. current'[d] = Promoted(e.version, current[d] \ {e.version}, dead[d] \ {e.version})
        BY <2>5 DEF TypeOK, Record
      <4>2. current[d] \subseteq rows[d]
        BY DEF WriterInv
      <4>. QED  BY <3>1, <3>4, <4>1, <4>2
    <3>. QED  BY <2>2, <3>2, <3>3, <3>4, <3>5 DEF WriterInv
  <2>. QED  BY <2>1, <2>3, <2>4, <2>5
<1>9. ASSUME NEW d \in Devices, SaveCursor(d) PROVE WriterInv'
  BY <1>9 DEF WriterInv, SaveCursor, indexer, rowVars, ownVars
<1>10. ASSUME NEW v \in Versions, PinBare(v) PROVE WriterInv'
  <2>1. \A d \in Devices : Writer[v] # d
    BY <1>10, NoneAssumption DEF PinBare
  <2>2. object[v] = "none" /\ \A w \in Versions \ {v} : object'[w] = object[w]
    BY <1>10, EventEffect DEF PinBare, Kinds
  <2>. QED  BY <1>10, <2>1, <2>2 DEF TypeOK, WriterInv, PinBare, rowVars, ownVars
<1>11. ASSUME NEW v \in Versions, Stamp(v) PROVE WriterInv'
  <2>1. /\ object[v] = "bare" /\ object'[v] = "live"
        /\ \A w \in Versions \ {v} : object'[w] = object[w]
    BY <1>11, EventEffect DEF Stamp, Kinds
  <2>. QED  BY <1>11, <2>1 DEF TypeOK, WriterInv, Stamp, rowVars, ownVars
<1>12. CASE UNCHANGED vars
  BY <1>12 DEF WriterInv, vars, indexer, rowVars, ownVars
<1>. QED  BY <1>1, <1>2, <1>3, <1>4, <1>5, <1>6, <1>7, <1>8, <1>9, <1>10, <1>11, <1>12 DEF Next

-----------------------------------------------------------------------------
(* An event takes its object out of what every cursor passes.              *)
LEMMA BatchOfEvent ==
  ASSUME TypeOK, BatchInv, NEW v \in Versions, NEW kind \in {"bare", "live", "gone"},
         Event(v, kind), UNCHANGED syncVars,
         kind = "bare" => object[v] = "none"
  PROVE  BatchInv'
<1>1. /\ object'[v] = kind
      /\ \A w \in Versions \ {v} : object'[w] = object[w]
      /\ \A d \in Devices : cursor'[d] = cursor[d] \ {v} /\ upto'[d] = upto[d] \ {v}
  BY EventEffect DEF Kinds
<1>2. \A d \in Devices : \A e \in batch[d] : e.version \in Versions
  BY DEF TypeOK, Events
<1>. QED  BY <1>1, <1>2 DEF BatchInv, syncVars

(* An event of the batch is of an object no cursor has passed, and as the  *)
(* object is now unless a later event is to come.                          *)
LEMMA BatchStep ==
  ASSUME TypeOK, BatchInv, [Next]_vars
  PROVE  BatchInv'
<1>1. ASSUME NEW d \in Devices, NEW v \in Versions, Put(d, v) PROVE BatchInv'
  BY <1>1 DEF BatchInv, Put, indexer, syncVars, markVars
<1>2. ASSUME NEW d \in Devices, NEW v \in Versions, FlushPin(d, v) PROVE BatchInv'
  BY <1>2, BatchOfEvent DEF FlushPin
<1>3. ASSUME NEW d \in Devices, NEW v \in Versions, Remove(d, v) PROVE BatchInv'
  BY <1>3 DEF BatchInv, Remove, indexer, syncVars, markVars
<1>4. ASSUME NEW d \in Devices, Finalize(d) PROVE BatchInv'
  BY <1>4 DEF BatchInv, Finalize, indexer, syncVars, markVars
<1>5. ASSUME NEW d \in Devices, DeleteObject(d) PROVE BatchInv'
  <2>1. removing[d] \in Versions
    BY <1>5 DEF TypeOK, DeleteObject
  <2>2. CASE UNCHANGED <<indexer, markVars>>
    BY <1>5, <2>2 DEF BatchInv, DeleteObject, indexer, syncVars, markVars
  <2>3. CASE Event(removing[d], "gone")
    BY <1>5, <2>1, <2>3, BatchOfEvent DEF DeleteObject
  <2>. QED  BY <1>5, <2>2, <2>3 DEF DeleteObject
<1>6. ASSUME NEW d \in Devices, Crash(d) \/ FailSync(d) PROVE BatchInv'
  BY <1>6 DEF TypeOK, BatchInv, CutPass, Crash, FailSync, indexer
<1>7. ASSUME NEW d \in Devices, Fetch(d) PROVE BatchInv'
  <2>1. \A v \in Page(d) : v \notin cursor[d]
    BY PageType
  <2>2. \A e \in batch'[d] :
          \E v \in Page(d) : e = [version |-> v, kind |-> object[v], rank |-> Rank(d, v)]
    BY <1>7 DEF TypeOK, Fetch
  <2>3. \A e \in batch'[d] :
          e.version \in Page(d) /\ e.kind = object[e.version] /\ e.rank = Rank(d, e.version)
    BY <2>2
  <2>4. \A e, f \in batch'[d] : e.version = f.version => e = f
    BY <2>2
  <2>5. /\ \A c \in Devices \ {d} : batch'[c] = batch[c] /\ upto'[c] = upto[c]
        /\ syncing' = syncing \cup {d} /\ cursor' = cursor /\ object' = object
    BY <1>7 DEF TypeOK, Fetch, indexer
  <2>. QED  BY <2>1, <2>3, <2>4, <2>5 DEF BatchInv
<1>8. ASSUME NEW d \in Devices, Apply(d) PROVE BatchInv'
  BY <1>8 DEF TypeOK, BatchInv, Apply, indexer, markVars
<1>9. ASSUME NEW d \in Devices, SaveCursor(d) PROVE BatchInv'
  BY <1>9 DEF TypeOK, BatchInv, SaveCursor, indexer
<1>10. ASSUME NEW v \in Versions, PinBare(v) PROVE BatchInv'
  BY <1>10, BatchOfEvent DEF PinBare
<1>11. ASSUME NEW v \in Versions, Stamp(v) PROVE BatchInv'
  BY <1>11, BatchOfEvent DEF Stamp
<1>12. CASE UNCHANGED vars
  BY <1>12 DEF BatchInv, vars, indexer, syncVars, markVars
<1>. QED  BY <1>1, <1>2, <1>3, <1>4, <1>5, <1>6, <1>7, <1>8, <1>9, <1>10, <1>11, <1>12 DEF Next

(* An event of v leaves the other objects passed and applied as they were. *)
LEMMA AppliedOfEvent ==
  ASSUME TypeOK, AppliedInv, NEW v \in Versions, NEW kind \in Kinds,
         Event(v, kind), UNCHANGED <<rowVars, syncVars, missed>>
  PROVE  AppliedInv'
<1>1. /\ \A w \in Versions \ {v} : object'[w] = object[w]
      /\ \A d \in Devices : cursor'[d] = cursor[d] \ {v} /\ upto'[d] = upto[d] \ {v}
  BY EventEffect
<1>2. \A d \in Devices : cursor[d] \subseteq Versions /\ upto[d] \subseteq Versions
  BY DEF TypeOK
<1>3. \A d \in Devices : \A w \in Passed(d)' : w \in Passed(d) /\ w # v /\ w \in Versions
  BY <1>1, <1>2 DEF Passed, syncVars
<1>. QED  BY <1>1, <1>3 DEF AppliedInv, Winner, rowVars

(* What the cursors pass is applied.                                       *)
LEMMA AppliedStep ==
  ASSUME TypeOK, WriterInv, BatchInv, AppliedInv, [Next]_vars
  PROVE  AppliedInv'
<1>. \A d \in Devices : \A v \in Passed(d) : v \in Versions
  BY DEF Passed, TypeOK
<1>1. ASSUME NEW d \in Devices, NEW v \in Versions, Put(d, v) PROVE AppliedInv'
  <2>1. object[v] = "none"
    BY <1>1 DEF Put, WriterInv
  <2>2. \A w \in Promoted(v, current[d], dead[d]) \ dead[d] : w = v \/ w \in current[d]
    BY PromotedType DEF TypeOK
  <2>3. \A c \in Devices : Passed(c)' = Passed(c)
    BY <1>1 DEF Put, Passed, syncVars, markVars
  <2>4. \A c \in Devices : \A w \in Versions \ {v} : Winner(c, w)' => Winner(c, w)
    BY <1>1, <2>2 DEF TypeOK, Put, Winner
  <2>5. \A c \in Devices : rows[c] \subseteq rows'[c] /\ UNCHANGED <<object, keyed, missed>>
    BY <1>1 DEF TypeOK, Put, indexer, history
  <2>. QED  BY <2>1, <2>3, <2>4, <2>5 DEF AppliedInv
<1>2. ASSUME NEW d \in Devices, NEW v \in Versions, FlushPin(d, v) PROVE AppliedInv'
  BY <1>2, AppliedOfEvent DEF FlushPin, Kinds, history
<1>3. ASSUME NEW d \in Devices, NEW v \in Versions, Remove(d, v) PROVE AppliedInv'
  <2>1. \A c \in Devices : Passed(c)' = Passed(c)
    BY <1>3 DEF Remove, Passed, syncVars, markVars
  <2>2. \A c \in Devices, w \in Versions : Winner(c, w)' => Winner(c, w)
    BY <1>3 DEF TypeOK, Remove, Winner
  <2>. QED  BY <1>3, <2>1, <2>2 DEF AppliedInv, Remove, indexer
<1>4. ASSUME NEW d \in Devices, Finalize(d) PROVE AppliedInv'
  <2>1. \A c \in Devices : Passed(c)' = Passed(c) /\ keyed[c] \subseteq keyed'[c]
    BY <1>4 DEF TypeOK, Finalize, Passed, syncVars, markVars
  <2>. QED  BY <1>4, <2>1 DEF AppliedInv, Finalize, Winner, indexer, history
<1>5. ASSUME NEW d \in Devices, DeleteObject(d) PROVE AppliedInv'
  <2>1. removing[d] \in Versions
    BY <1>5 DEF TypeOK, DeleteObject
  <2>2. CASE UNCHANGED <<indexer, markVars>>
    BY <1>5, <2>2 DEF AppliedInv, Passed, Winner, DeleteObject, indexer, rowVars, syncVars, markVars, history
  <2>3. CASE Event(removing[d], "gone")
    BY <1>5, <2>1, <2>3, AppliedOfEvent DEF DeleteObject, Kinds, history
  <2>. QED  BY <1>5, <2>2, <2>3 DEF DeleteObject
<1>6. ASSUME NEW d \in Devices, Crash(d) \/ FailSync(d) PROVE AppliedInv'
  <2>1. \A c \in Devices : Passed(c)' \subseteq Passed(c)
    BY <1>6 DEF TypeOK, BatchInv, CutPass, Crash, FailSync, Passed
  <2>. QED  BY <1>6, <2>1 DEF AppliedInv, CutPass, Crash, FailSync, Winner, indexer, rowVars, history
<1>7. ASSUME NEW d \in Devices, Fetch(d) PROVE AppliedInv'
  <2>1. \A v \in Page(d) : \E e \in batch'[d] : e.version = v
    <3>1. batch'[d] = {[version |-> v, kind |-> object[v], rank |-> Rank(d, v)] : v \in Page(d)}
      BY <1>7 DEF TypeOK, Fetch
    <3>2. \A v \in Page(d) : [version |-> v, kind |-> object[v], rank |-> Rank(d, v)] \in batch'[d]
      BY <3>1
    <3>. QED  BY <3>2
  <2>2. batch[d] = {} /\ upto[d] = {}
    BY <1>7 DEF Fetch, BatchInv
  <2>3. Passed(d)' \subseteq Passed(d)
    BY <1>7, <2>1, <2>2 DEF TypeOK, Fetch, Passed
  <2>4. \A c \in Devices \ {d} : Passed(c)' = Passed(c)
    BY <1>7 DEF TypeOK, Fetch, Passed
  <2>. QED  BY <1>7, <2>3, <2>4 DEF AppliedInv, Fetch, Winner, indexer, rowVars, history
<1>8. ASSUME NEW d \in Devices, Apply(d) PROVE AppliedInv'
  <2>1. PICK e \in batch[d] :
          /\ batch' = [batch EXCEPT ![d] = @ \ {e}]
          /\ \/ e.kind = "gone" /\ Tombstone(d, e.version)
             \/ e.kind = "bare" /\ UNCHANGED <<rowVars, missed>>
             \/ e.kind = "live" /\ Record(d, e.version)
    BY <1>8 DEF Apply
  <2>2. e.version \in Versions
    BY DEF TypeOK, Events
  <2>3. UNCHANGED <<object, cursor, upto>>
    BY <1>8 DEF Apply, indexer, markVars
  <2>4. \A c \in Devices \ {d} : Passed(c)' = Passed(c)
    BY <2>1, <2>3 DEF TypeOK, Passed
  <2>5. Passed(d)' \subseteq Passed(d) \cup {e.version}
    BY <2>1, <2>3 DEF TypeOK, Passed
  <2>6. e.version \in Passed(d)' => e.kind = object[e.version]
    BY <2>3 DEF Passed, BatchInv
  <2>7. e.version \notin Passed(d)
    BY DEF Passed
  <2>8. CASE e.kind = "gone" /\ Tombstone(d, e.version)
    <3>1. \A c \in Devices, w \in Versions : Winner(c, w)' => Winner(c, w)
      BY <2>2, <2>8 DEF TypeOK, Tombstone, Winner
    <3>2. \A c \in Devices : missed[c] \subseteq missed'[c]
      BY <2>2, <2>8 DEF TypeOK, Tombstone
    <3>3. Winner(d, e.version)' => e.version \in missed'[d]
      BY <2>2, <2>8 DEF TypeOK, WriterInv, Tombstone, Winner
    <3>. QED  BY <2>2, <2>3, <2>4, <2>5, <2>6, <2>8, <3>1, <3>2, <3>3 DEF AppliedInv, Tombstone
  <2>9. CASE e.kind = "bare" /\ UNCHANGED <<rowVars, missed>>
    BY <2>2, <2>3, <2>4, <2>5, <2>6, <2>9 DEF AppliedInv, Winner, rowVars
  <2>10. CASE e.kind = "live" /\ Record(d, e.version)
    <3>. DEFINE v == e.version
    <3>1. Promoted(v, current[d] \ {v}, dead[d] \ {v}) \subseteq current[d] \cup {v}
      BY <2>2, PromotedType DEF TypeOK
    <3>2. \A c \in Devices : \A w \in Versions \ {v} : Winner(c, w)' => Winner(c, w)
      BY <2>2, <2>10, <3>1 DEF TypeOK, Record, Winner
    <3>3. \A c \in Devices : rows[c] \subseteq rows'[c] /\ keyed[c] \subseteq keyed'[c]
      BY <2>2, <2>10 DEF TypeOK, Record
    <3>4. v \in rows'[d] /\ v \in keyed'[d] /\ missed' = missed
      BY <2>2, <2>10 DEF TypeOK, Record
    <3>5. ASSUME NEW c \in Devices, NEW w \in Passed(c)', w # v \/ c # d
          PROVE  w \in Passed(c) /\ (w # v \/ c # d)
      BY <2>4, <2>5, <3>5
    <3>6. ASSUME NEW c \in Devices, c # d PROVE Winner(c, v)' => Winner(c, v)
      BY <2>2, <2>10, <3>6 DEF TypeOK, Record, Winner
    <3>7. v \in Passed(d)' => object[v] = "live"
      BY <2>6, <2>10
    <3>8. ASSUME NEW c \in Devices, NEW w \in Passed(c)'
          PROVE  /\ object'[w] = "live" => w \in rows'[c] /\ w \in keyed'[c]
                 /\ object'[w] = "gone" /\ Winner(c, w)' => w \in missed'[c]
      <4>1. CASE w = v /\ c = d
        BY <2>3, <3>4, <3>7, <4>1
      <4>2. CASE w # v \/ c # d
        <5>1. w \in Passed(c) /\ w \in Versions
          BY <3>5, <4>2
        <5>2. /\ object[w] = "live" => w \in rows[c] /\ w \in keyed[c]
              /\ object[w] = "gone" /\ Winner(c, w) => w \in missed[c]
          BY <5>1 DEF AppliedInv
        <5>3. Winner(c, w)' => Winner(c, w)
          BY <3>2, <3>6, <4>2, <5>1
        <5>. QED  BY <2>3, <3>3, <3>4, <5>2, <5>3
      <4>. QED  BY <4>1, <4>2
    <3>. QED  BY <3>8 DEF AppliedInv
  <2>. QED  BY <2>1, <2>8, <2>9, <2>10
<1>9. ASSUME NEW d \in Devices, SaveCursor(d) PROVE AppliedInv'
  <2>1. \A c \in Devices : Passed(c)' \subseteq Passed(c)
    BY <1>9 DEF TypeOK, SaveCursor, Passed
  <2>. QED  BY <1>9, <2>1 DEF AppliedInv, SaveCursor, Winner, indexer, rowVars, history
<1>10. ASSUME NEW v \in Versions, PinBare(v) PROVE AppliedInv'
  BY <1>10, AppliedOfEvent DEF PinBare, Kinds, history
<1>11. ASSUME NEW v \in Versions, Stamp(v) PROVE AppliedInv'
  BY <1>11, AppliedOfEvent DEF Stamp, Kinds, history
<1>12. CASE UNCHANGED vars
  BY <1>12 DEF AppliedInv, Passed, Winner, vars, indexer, rowVars, syncVars, markVars, history
<1>. QED  BY <1>1, <1>2, <1>3, <1>4, <1>5, <1>6, <1>7, <1>8, <1>9, <1>10, <1>11, <1>12 DEF Next

-----------------------------------------------------------------------------
(* A promotion among rows with one winner per path leaves one per path.    *)
LEMMA OneWinnerOfPromotion ==
  ASSUME TypeOK, OneWinner, NEW d \in Devices, NEW v \in Versions,
         current' = [current EXCEPT ![d] = Promoted(v, @ \ {v}, dead[d] \ {v})],
         dead' = [dead EXCEPT ![d] = @ \ {v}]
  PROVE  OneWinner'
<1>1. \A w \in Promoted(v, current[d] \ {v}, dead[d] \ {v}) \ (dead[d] \ {v}) :
        w = v \/ (w \in current[d] \ {v} /\ PathOf[w] # PathOf[v])
  BY PromotedType DEF TypeOK
<1>2. \A w \in Versions : Winner(d, w)' => w = v \/ (Winner(d, w) /\ PathOf[w] # PathOf[v])
  BY <1>1 DEF TypeOK, Winner
<1>3. \A c \in Devices \ {d}, w \in Versions : Winner(c, w)' => Winner(c, w)
  BY DEF TypeOK, Winner
<1>. QED  BY <1>2, <1>3 DEF OneWinner

LEMMA OneWinnerStep ==
  ASSUME TypeOK, WriterInv, OneWinner, [Next]_vars
  PROVE  OneWinner'
<1>1. ASSUME NEW d \in Devices, NEW v \in Versions, Put(d, v) PROVE OneWinner'
  <2>1. \A w \in Promoted(v, current[d], dead[d]) \ dead[d] :
          w = v \/ (w \in current[d] /\ PathOf[w] # PathOf[v])
    BY PromotedType DEF TypeOK
  <2>2. \A w \in Versions : Winner(d, w)' => w = v \/ (Winner(d, w) /\ PathOf[w] # PathOf[v])
    BY <1>1, <2>1 DEF TypeOK, Put, Winner
  <2>3. \A c \in Devices \ {d}, w \in Versions : Winner(c, w)' => Winner(c, w)
    BY <1>1 DEF TypeOK, Put, Winner
  <2>. QED  BY <2>2, <2>3 DEF OneWinner
<1>2. ASSUME NEW d \in Devices, NEW v \in Versions, Remove(d, v) PROVE OneWinner'
  <2>1. \A c \in Devices, w \in Versions : Winner(c, w)' => Winner(c, w)
    BY <1>2 DEF TypeOK, Remove, Winner
  <2>. QED  BY <2>1 DEF OneWinner
<1>3. ASSUME NEW d \in Devices, Apply(d) PROVE OneWinner'
  <2>1. PICK e \in batch[d] :
          \/ Tombstone(d, e.version)
          \/ UNCHANGED <<rowVars, missed>>
          \/ Record(d, e.version)
    BY <1>3 DEF Apply
  <2>2. e.version \in Versions
    BY DEF TypeOK, Events
  <2>3. CASE Tombstone(d, e.version)
    <3>1. \A c \in Devices, w \in Versions : Winner(c, w)' => Winner(c, w)
      BY <2>2, <2>3 DEF TypeOK, Tombstone, Winner
    <3>. QED  BY <3>1 DEF OneWinner
  <2>4. CASE UNCHANGED <<rowVars, missed>>
    BY <2>4 DEF OneWinner, Winner, rowVars
  <2>5. CASE Record(d, e.version)
    BY <2>2, <2>5, OneWinnerOfPromotion DEF Record
  <2>. QED  BY <2>1, <2>3, <2>4, <2>5
<1>4. CASE UNCHANGED <<current, dead>>
  BY <1>4 DEF OneWinner, Winner
<1>. QED
  BY <1>1, <1>2, <1>3, <1>4
  DEF Next, vars, FlushPin, Finalize, DeleteObject, CutPass, Crash, FailSync, Fetch, SaveCursor, PinBare, Stamp, rowVars

(* The inductive invariant holds in every reachable state.                 *)
THEOREM Invariance == Spec => []IInv
<1>1. IInv /\ [Next]_vars => IInv'
  BY TypeStep, WriterStep, BatchStep, AppliedStep, OneWinnerStep DEF IInv
<1>. QED  BY <1>1, InitIInv, PTL DEF Spec

(* sync.go keeps its state well formed: what it fetches is listed.         *)
THEOREM TypeCorrect == Spec => []TypeOK
<1>1. IInv => TypeOK
  BY DEF IInv
<1>. QED  BY <1>1, Invariance, PTL

(* promoteCurrent leaves one live winner per path, in whatever order the   *)
(* events of the other devices come between the writes of this one.        *)
THEOREM WinnerIsUnique == Spec => []OneWinner
<1>1. IInv => OneWinner
  BY DEF IInv
<1>. QED  BY <1>1, Invariance, PTL

(* Sync saves a cursor only past what it applied.                          *)
THEOREM CursorIsSafe == Spec => []NothingSkipped
<1>1. IInv => NothingSkipped
  <2> SUFFICES ASSUME IInv, NEW d \in Devices, NEW v \in cursor[d], object[v] = "live"
               PROVE  v \in rows[d] /\ v \in keyed[d]
    BY DEF NothingSkipped
  <2>1. v \in Passed(d)
    BY DEF IInv, BatchInv, Passed
  <2>. QED  BY <2>1 DEF IInv, AppliedInv
<1>. QED  BY <1>1, Invariance, PTL

(* A device that has caught up shows no file whose object is gone, but for *)
(* the rows that had no object_key when the delete event came.             *)
THEOREM DeletionsArrive == Spec => []NoDeadWinner
<1>1. IInv => NoDeadWinner
  <2> SUFFICES ASSUME IInv, NEW d \in Devices, NEW v \in Versions,
                      CaughtUp(d), Winner(d, v), v \notin missed[d], object[v] = "gone"
               PROVE  FALSE
    BY DEF NoDeadWinner
  <2>1. v \in cursor[d]
    BY DEF CaughtUp, Behind, Listed
  <2>2. v \in Passed(d)
    BY <2>1 DEF IInv, BatchInv, Passed
  <2>. QED  BY <2>2 DEF IInv, AppliedInv
<1>. QED  BY <1>1, Invariance, PTL

-----------------------------------------------------------------------------
(* Convergence: what the devices need to agree beyond IInv.                *)

(* The last events of the listed objects are in a strict total order.      *)
OrderInv ==
  \A v \in Listed :
    /\ earlier[v] \subseteq Listed \ {v}
    /\ \A u \in earlier[v] : earlier[u] \subseteq earlier[v]
    /\ \A w \in Listed \ {v} : v \in earlier[w] \/ w \in earlier[v]

(* S is a prefix of the list.                                              *)
Closed(S) == S \subseteq Listed /\ \A v \in S : earlier[v] \subseteq S

(* The cursor and what a batch will add to it are prefixes of the list,    *)
(* and the ranks of a batch are in the order of the list.                  *)
CursorInv ==
  \A d \in Devices :
    /\ Closed(cursor[d]) /\ Closed(cursor[d] \cup upto[d])
    /\ d \in syncing => cursor[d] \subseteq upto[d]
    /\ \A e, f \in batch[d] :
         e.version \in upto[d] /\ f.version \in upto[d] /\ f.version \in earlier[e.version]
           => f.rank < e.rank

(* So is what is applied at any time.                                      *)
PassedInv == \A d \in Devices : Closed(Passed(d))

(* Nothing is gone or dead but on a path where a Remove ran.               *)
RemovedInv ==
  /\ \A v \in Versions : object[v] = "gone" => PathOf[v] \in removed
  /\ \A d \in Devices :
       /\ \A v \in dead[d] : PathOf[v] \in removed
       /\ \A e \in batch[d] : e.kind = "gone" => PathOf[e.version] \in removed
       /\ removing[d] # None => PathOf[removing[d]] \in removed

(* What is not staged any more was published.                              *)
PublishedInv ==
  \A d \in Devices :
    /\ pinned[d] # None => object[pinned[d]] \in {"live", "gone"}
    /\ \A v \in rows[d] : Writer[v] = d /\ v \notin staged[d] => object[v] \in {"live", "gone"}

(* A path with a row has a winner, and a winner that the cursor has passed *)
(* is the last of what is live there and passed.                           *)
WinnerInv ==
  \A d \in Devices, v \in Versions : PathOf[v] \notin removed =>
    /\ v \in rows[d] => \E w \in Versions : PathOf[w] = PathOf[v] /\ Winner(d, w)
    /\ Winner(d, v) /\ v \in Passed(d) =>
         \A w \in Passed(d) :
           object[w] = "live" /\ PathOf[w] = PathOf[v] => w = v \/ w \in earlier[v]

ConvInv ==
  /\ IInv
  /\ OrderInv /\ CursorInv /\ PassedInv /\ RemovedInv /\ PublishedInv /\ WinnerInv

LEMMA InitConvInv == Init => ConvInv
<1> SUFFICES ASSUME Init PROVE ConvInv
  OBVIOUS
<1>1. Listed = {} /\ \A d \in Devices : Passed(d) = {}
  BY DEF Init, Listed, Passed
<1>2. OrderInv /\ CursorInv /\ PassedInv
  BY <1>1 DEF Init, OrderInv, CursorInv, PassedInv, Closed
<1>3. RemovedInv /\ PublishedInv /\ WinnerInv
  BY <1>1 DEF Init, RemovedInv, PublishedInv, WinnerInv
<1>. QED  BY <1>2, <1>3, InitIInv DEF ConvInv

(* A step leaves the list as it is or makes one object the last of it.     *)
LEMMA IndexerStep ==
  ASSUME TypeOK, [Next]_vars
  PROVE  \/ UNCHANGED indexer
         \/ \E v \in Versions, kind \in {"bare", "live", "gone"} :
              /\ Event(v, kind) /\ UNCHANGED <<rows, current, dead, syncVars, removed>>
              /\ kind = "bare" => object[v] = "none"
<1>1. ASSUME NEW d \in Devices, DeleteObject(d) PROVE removing[d] \in Versions
  BY <1>1 DEF TypeOK, DeleteObject
<1>2. ASSUME NEW d \in Devices, NEW v \in Versions, FlushPin(d, v)
      PROVE  Event(v, "live") /\ UNCHANGED <<rows, current, dead, syncVars, removed>>
  BY <1>2 DEF FlushPin, rowVars, history
<1>3. ASSUME NEW d \in Devices, DeleteObject(d)
      PROVE  /\ Event(removing[d], "gone") \/ UNCHANGED indexer
             /\ UNCHANGED <<rows, current, dead, syncVars, removed>>
  BY <1>3 DEF DeleteObject, rowVars, history
<1>4. ASSUME NEW v \in Versions, PinBare(v)
      PROVE  /\ Event(v, "bare") /\ object[v] = "none"
             /\ UNCHANGED <<rows, current, dead, syncVars, removed>>
  BY <1>4 DEF PinBare, rowVars, history
<1>5. ASSUME NEW v \in Versions, Stamp(v)
      PROVE  Event(v, "live") /\ UNCHANGED <<rows, current, dead, syncVars, removed>>
  BY <1>5 DEF Stamp, rowVars, history
<1>6. CASE UNCHANGED vars
  BY <1>6 DEF vars
<1>7. ASSUME NEW d \in Devices,
             \/ \E v \in Versions : Put(d, v) \/ Remove(d, v)
             \/ Finalize(d) \/ Crash(d) \/ FailSync(d) \/ Fetch(d) \/ Apply(d) \/ SaveCursor(d)
      PROVE  UNCHANGED indexer
  BY <1>7 DEF Put, Remove, Finalize, CutPass, Crash, FailSync, Fetch, Apply, SaveCursor
<1>. QED  BY <1>1, <1>2, <1>3, <1>4, <1>5, <1>6, <1>7 DEF Next

(* The object of an event leaves its place and comes after all the others. *)
LEMMA OrderOfEvent ==
  ASSUME TypeOK, NEW v \in Versions, NEW kind \in {"bare", "live", "gone"}, Event(v, kind)
  PROVE  /\ Listed' = Listed \cup {v}
         /\ earlier'[v] = Listed \ {v}
         /\ \A w \in Versions \ {v} : earlier'[w] = earlier[w] \ {v}
<1>1. object'[v] = kind /\ \A w \in Versions \ {v} : object'[w] = object[w]
  BY EventEffect DEF Kinds
<1>2. Listed' = Listed \cup {v}
  BY <1>1 DEF Listed
<1>. QED  BY <1>2 DEF Event

LEMMA OrderStep ==
  ASSUME TypeOK, OrderInv, [Next]_vars
  PROVE  OrderInv'
<1>1. CASE UNCHANGED indexer
  BY <1>1 DEF OrderInv, Listed, indexer
<1>2. ASSUME NEW v \in Versions, NEW kind \in {"bare", "live", "gone"}, Event(v, kind)
      PROVE  OrderInv'
  <2>1. /\ Listed' = Listed \cup {v}
        /\ earlier'[v] = Listed \ {v}
        /\ \A w \in Versions \ {v} : earlier'[w] = earlier[w] \ {v}
    BY <1>2, OrderOfEvent
  <2>2. Listed \subseteq Versions
    BY DEF Listed
  <2>3. ASSUME NEW w \in Listed' PROVE earlier'[w] \subseteq Listed' \ {w}
    BY <2>1, <2>2 DEF OrderInv
  <2>4. ASSUME NEW w \in Listed', NEW u \in earlier'[w] PROVE earlier'[u] \subseteq earlier'[w]
    <3>1. u # v /\ u \in Listed /\ earlier'[u] = earlier[u] \ {v}
      BY <2>1, <2>2, <2>4 DEF OrderInv
    <3>. QED  BY <2>1, <2>2, <2>4, <3>1 DEF OrderInv
  <2>5. ASSUME NEW w \in Listed', NEW u \in Listed' \ {w} PROVE w \in earlier'[u] \/ u \in earlier'[w]
    BY <2>1, <2>2, <2>5 DEF OrderInv
  <2>. QED  BY <2>3, <2>4, <2>5 DEF OrderInv
<1>. QED  BY <1>1, <1>2, IndexerStep

(* An event takes its object out of a prefix and leaves a prefix.          *)
LEMMA ClosedOfEvent ==
  ASSUME TypeOK, NEW v \in Versions, NEW kind \in {"bare", "live", "gone"}, Event(v, kind),
         NEW S, Closed(S)
  PROVE  /\ S \ {v} \subseteq Listed'
         /\ \A w \in S \ {v} : earlier'[w] \subseteq S \ {v}
BY OrderOfEvent DEF Closed, Listed

(* A page continues the prefix that the cursor has passed, in the order of *)
(* the list.                                                               *)
LEMMA PageIsClosed ==
  ASSUME TypeOK, OrderInv, NEW d \in Devices, Closed(cursor[d])
  PROVE  /\ Closed(cursor[d] \cup Page(d))
         /\ \A u, v \in Page(d) : u \in earlier[v] => Rank(d, u) < Rank(d, v)
<1>1. \A v \in Behind(d) : /\ IsFiniteSet(earlier[v] \cap Behind(d))
                           /\ Rank(d, v) \in Nat
  <2> SUFFICES ASSUME NEW v \in Behind(d)
               PROVE  IsFiniteSet(earlier[v] \cap Behind(d)) /\ Rank(d, v) \in Nat
    OBVIOUS
  <2>1. earlier[v] \cap Behind(d) \subseteq Versions
    BY DEF Behind, Listed
  <2>2. IsFiniteSet(earlier[v] \cap Behind(d))
    BY <2>1, VersionsAssumption, FS_Subset
  <2>. QED  BY <2>2, FS_CardinalityType DEF Rank
<1>2. ASSUME NEW v \in Behind(d), NEW u \in earlier[v], u \in Behind(d)
      PROVE  Rank(d, u) < Rank(d, v)
  <2>1. /\ earlier[u] \cap Behind(d) \subseteq earlier[v] \cap Behind(d)
        /\ u \in earlier[v] \cap Behind(d) /\ u \notin earlier[u] \cap Behind(d)
    BY <1>2 DEF OrderInv, Behind
  <2>2. /\ Rank(d, u) <= Rank(d, v)
        /\ Rank(d, u) # Rank(d, v)
    BY <1>1, <1>2, <2>1, FS_Subset DEF Rank
  <2>3. Rank(d, u) \in Nat /\ Rank(d, v) \in Nat
    BY <1>1, <1>2
  <2>. QED  BY <2>2, <2>3
<1>3. ASSUME NEW v \in Page(d), NEW u \in earlier[v] PROVE u \in cursor[d] \cup Page(d)
  <2>1. v \in Behind(d) /\ Rank(d, v) < Batch /\ u \in Listed
    BY DEF Page, OrderInv, Behind
  <2>2. CASE u \in Behind(d)
    <3>1. Rank(d, u) \in Nat /\ Rank(d, v) \in Nat /\ Rank(d, u) < Rank(d, v)
      BY <1>1, <1>2, <2>1, <2>2
    <3>2. Rank(d, u) < Batch
      BY <2>1, <3>1, BoundsAssumption
    <3>. QED  BY <2>2, <3>2 DEF Page
  <2>. QED  BY <2>1, <2>2 DEF Behind
<1>. QED  BY <1>2, <1>3 DEF Closed, Page, Behind

LEMMA CursorStep ==
  ASSUME TypeOK, BatchInv, OrderInv, CursorInv, [Next]_vars
  PROVE  CursorInv'
<1>1. ASSUME NEW v \in Versions, NEW kind \in {"bare", "live", "gone"},
             Event(v, kind), UNCHANGED syncVars
      PROVE  CursorInv'
  <2>1. ASSUME NEW d \in Devices
        PROVE  cursor'[d] = cursor[d] \ {v} /\ upto'[d] = upto[d] \ {v}
    BY <1>1, EventEffect DEF Kinds
  <2>2. ASSUME NEW d \in Devices
        PROVE  Closed(cursor[d])' /\ Closed(cursor[d] \cup upto[d])'
    <3>1. Closed(cursor[d]) /\ Closed(cursor[d] \cup upto[d])
      BY DEF CursorInv
    <3>2. /\ cursor'[d] = cursor[d] \ {v}
          /\ cursor'[d] \cup upto'[d] = (cursor[d] \cup upto[d]) \ {v}
      BY <2>1
    <3>3. Closed(cursor[d])'
      BY <1>1, <3>1, <3>2, ClosedOfEvent DEF Closed
    <3>4. Closed(cursor[d] \cup upto[d])'
      <4>1. /\ (cursor[d] \cup upto[d]) \ {v} \subseteq Listed'
            /\ \A w \in (cursor[d] \cup upto[d]) \ {v} :
                 earlier'[w] \subseteq (cursor[d] \cup upto[d]) \ {v}
        BY <1>1, <3>1, ClosedOfEvent
      <4>. QED  BY <3>2, <4>1 DEF Closed
    <3>. QED  BY <3>3, <3>4
  <2>3. ASSUME NEW d \in Devices, d \in syncing' PROVE cursor'[d] \subseteq upto'[d]
    BY <1>1, <2>1, <2>3 DEF CursorInv, syncVars
  <2>4. \A w \in Versions \ {v} : earlier'[w] = earlier[w] \ {v}
    BY <1>1, OrderOfEvent
  <2>5. ASSUME NEW d \in Devices, NEW e \in batch'[d], NEW f \in batch'[d],
               e.version \in upto'[d], f.version \in upto'[d], f.version \in earlier'[e.version]
        PROVE  f.rank < e.rank
    <3>1. e \in batch[d] /\ f \in batch[d] /\ e.version \in Versions
      BY <1>1 DEF syncVars, TypeOK, Events
    <3>2. e.version \in upto[d] /\ f.version \in upto[d] /\ e.version # v
      BY <2>1, <2>5
    <3>3. f.version \in earlier[e.version]
      BY <2>4, <2>5, <3>1, <3>2
    <3>. QED  BY <3>1, <3>2, <3>3 DEF CursorInv
  <2>. QED  BY <2>2, <2>3, <2>5 DEF CursorInv
<1>2. ASSUME NEW d \in Devices, Fetch(d) PROVE CursorInv'
  <2>1. /\ \A c \in Devices \ {d} : batch'[c] = batch[c] /\ upto'[c] = upto[c]
        /\ syncing' = syncing \cup {d} /\ cursor' = cursor /\ UNCHANGED indexer
        /\ upto'[d] = cursor[d] \cup Page(d)
    BY <1>2 DEF TypeOK, Fetch
  <2>2. ASSUME NEW e \in batch'[d] PROVE e.version \in Page(d) /\ e.rank = Rank(d, e.version)
    <3>1. batch'[d] = {[version |-> v, kind |-> object[v], rank |-> Rank(d, v)] : v \in Page(d)}
      BY <1>2 DEF TypeOK, Fetch
    <3>. QED  BY <2>2, <3>1
  <2>3. /\ Closed(cursor[d]) /\ Closed(cursor[d] \cup Page(d))
        /\ \A u, v \in Page(d) : u \in earlier[v] => Rank(d, u) < Rank(d, v)
    BY PageIsClosed DEF CursorInv
  <2>4. ASSUME NEW c \in Devices
        PROVE  /\ Closed(cursor'[c]) /\ Closed(cursor'[c] \cup upto'[c])
               /\ c \in syncing' => cursor'[c] \subseteq upto'[c]
    <3>1. CASE c = d
      <4>1. cursor'[c] \cup upto'[c] = cursor[d] \cup Page(d)
        BY <2>1, <3>1
      <4>. QED  BY <2>1, <2>3, <3>1, <4>1
    <3>2. CASE c # d
      BY <2>1, <3>2 DEF CursorInv
    <3>. QED  BY <3>1, <3>2
  <2>5. ASSUME NEW c \in Devices
        PROVE  /\ Closed(cursor[c])' /\ Closed(cursor[c] \cup upto[c])'
               /\ c \in syncing' => cursor'[c] \subseteq upto'[c]
    BY <2>1, <2>4 DEF Closed, Listed, indexer
  <2>6. ASSUME NEW c \in Devices, NEW e \in batch'[c], NEW f \in batch'[c],
               e.version \in upto'[c], f.version \in upto'[c], f.version \in earlier'[e.version]
        PROVE  f.rank < e.rank
    <3>1. earlier' = earlier
      BY <2>1 DEF indexer
    <3>2. CASE c = d
      BY <2>2, <2>3, <2>6, <3>1, <3>2
    <3>3. CASE c # d
      BY <2>1, <2>6, <3>1, <3>3 DEF CursorInv
    <3>. QED  BY <3>2, <3>3
  <2>. QED  BY <2>5, <2>6 DEF CursorInv
<1>3. ASSUME UNCHANGED <<indexer, markVars, syncing>>,
             \A d \in Devices : batch'[d] \subseteq batch[d]
      PROVE  CursorInv'
  BY <1>3 DEF CursorInv, Closed, Listed, indexer, markVars
<1>4. ASSUME NEW d \in Devices, Apply(d) PROVE CursorInv'
  <2>1. UNCHANGED <<indexer, markVars, syncing>>
    BY <1>4 DEF Apply
  <2>2. \A c \in Devices : batch'[c] \subseteq batch[c]
    BY <1>4 DEF TypeOK, Apply
  <2>. QED  BY <1>3, <2>1, <2>2
<1>5. ASSUME NEW d \in Devices, SaveCursor(d) PROVE CursorInv'
  <2>1. /\ UNCHANGED <<indexer, batch>> /\ syncing' = syncing \ {d}
        /\ d \in syncing /\ batch[d] = {}
        /\ cursor'[d] = upto[d] /\ upto'[d] = {}
        /\ \A c \in Devices \ {d} : cursor'[c] = cursor[c] /\ upto'[c] = upto[c]
    BY <1>5 DEF TypeOK, SaveCursor
  <2>2. cursor[d] \cup upto[d] = upto[d]
    BY <2>1 DEF CursorInv
  <2>3. Closed(upto[d])
    BY <2>2 DEF CursorInv
  <2>4. cursor'[d] \cup upto'[d] = upto[d]
    BY <2>1
  <2>5. Closed(cursor[d])' /\ Closed(cursor[d] \cup upto[d])'
    BY <2>1, <2>3, <2>4 DEF Closed, Listed, indexer
  <2>6. ASSUME NEW c \in Devices, c # d
        PROVE  Closed(cursor[c])' /\ Closed(cursor[c] \cup upto[c])'
    BY <2>1, <2>6 DEF CursorInv, Closed, Listed, indexer
  <2>. QED  BY <2>1, <2>5, <2>6 DEF CursorInv, indexer
<1>6. ASSUME NEW d \in Devices, Crash(d) \/ FailSync(d) PROVE CursorInv'
  <2>1. /\ UNCHANGED <<indexer, cursor>> /\ syncing' = syncing \ {d}
        /\ batch'[d] = {} /\ upto'[d] = {}
        /\ \A c \in Devices \ {d} : batch'[c] = batch[c] /\ upto'[c] = upto[c]
    BY <1>6 DEF TypeOK, CutPass, Crash, FailSync
  <2>2. cursor'[d] \cup upto'[d] = cursor[d]
    BY <2>1
  <2>3. Closed(cursor[d])' /\ Closed(cursor[d] \cup upto[d])'
    BY <2>1, <2>2 DEF CursorInv, Closed, Listed, indexer
  <2>4. ASSUME NEW c \in Devices, c # d
        PROVE  Closed(cursor[c])' /\ Closed(cursor[c] \cup upto[c])'
    BY <2>1, <2>4 DEF CursorInv, Closed, Listed, indexer
  <2>. QED  BY <2>1, <2>3, <2>4 DEF CursorInv, indexer
<1>7. ASSUME UNCHANGED <<indexer, markVars, syncVars>> PROVE CursorInv'
  BY <1>3, <1>7 DEF syncVars
<1>8. ASSUME NEW d \in Devices,
             \/ \E v \in Versions : Put(d, v) \/ Remove(d, v)
             \/ Finalize(d)
      PROVE  CursorInv'
  BY <1>7, <1>8 DEF Put, Remove, Finalize
<1>9. ASSUME NEW d \in Devices, NEW v \in Versions, FlushPin(d, v) PROVE CursorInv'
  BY <1>1, <1>9 DEF FlushPin
<1>10. ASSUME NEW d \in Devices, DeleteObject(d) PROVE CursorInv'
  <2>1. removing[d] \in Versions
    BY <1>10 DEF TypeOK, DeleteObject
  <2>. QED  BY <1>1, <1>7, <1>10, <2>1 DEF DeleteObject
<1>11. ASSUME NEW v \in Versions, PinBare(v) \/ Stamp(v) PROVE CursorInv'
  BY <1>1, <1>11 DEF PinBare, Stamp
<1>12. CASE UNCHANGED vars
  BY <1>7, <1>12 DEF vars
<1>. QED  BY <1>2, <1>4, <1>5, <1>6, <1>8, <1>9, <1>10, <1>11, <1>12 DEF Next

(* What a device has passed grows only by the event it applies, and that   *)
(* comes after all it has passed before.                                   *)
LEMMA PassedOfApply ==
  ASSUME TypeOK, BatchInv, OrderInv, CursorInv, NEW d \in Devices, NEW e \in batch[d],
         \A f \in batch[d] : e.rank <= f.rank,
         batch' = [batch EXCEPT ![d] = @ \ {e}], UNCHANGED <<indexer, markVars>>
  PROVE  /\ \A c \in Devices \ {d} : Passed(c)' = Passed(c)
         /\ Passed(d) \subseteq Passed(d)' /\ Passed(d)' \subseteq Passed(d) \cup {e.version}
         /\ e.version \notin Passed(d)
         /\ e.version \in Passed(d)' =>
              object[e.version] = e.kind /\ earlier[e.version] \subseteq Passed(d)
<1>1. /\ \A c \in Devices \ {d} : batch'[c] = batch[c]
      /\ batch'[d] = batch[d] \ {e} /\ UNCHANGED <<object, earlier, cursor, upto>>
  BY DEF TypeOK, indexer, markVars
<1>2. \A c \in Devices \ {d} : Passed(c)' = Passed(c)
  BY <1>1 DEF Passed
<1>3. Passed(d) \subseteq Passed(d)' /\ Passed(d)' \subseteq Passed(d) \cup {e.version}
  BY <1>1 DEF Passed
<1>4. e.version \notin Passed(d)
  BY DEF Passed
<1>5. ASSUME e.version \in Passed(d)'
      PROVE  object[e.version] = e.kind /\ earlier[e.version] \subseteq Passed(d)
  <2>1. e.version \notin cursor[d] /\ e.version \in upto[d] /\ e.kind = object[e.version]
    BY <1>1, <1>5 DEF Passed, BatchInv
  <2>2. ASSUME NEW u \in earlier[e.version] PROVE u \in Passed(d)
    <3>1. u \in cursor[d] \cup upto[d]
      BY <2>1 DEF CursorInv, Closed
    <3>2. ASSUME NEW f \in batch[d] PROVE f.version # u
      <4>1. SUFFICES ASSUME f.version = u PROVE FALSE
        OBVIOUS
      <4>2. u \in upto[d]
        BY <3>1, <4>1 DEF BatchInv
      <4>3. f.rank < e.rank
        BY <2>1, <4>1, <4>2 DEF CursorInv
      <4>4. e.rank <= f.rank /\ e.rank \in Nat /\ f.rank \in Nat
        BY DEF TypeOK, Events
      <4>. QED  BY <4>3, <4>4
    <3>. QED  BY <3>1, <3>2 DEF Passed
  <2>. QED  BY <2>1, <2>2
<1>. QED  BY <1>2, <1>3, <1>4, <1>5

(* Whatever does not apply an event passes no more than before.            *)
LEMMA PassedShrinks ==
  ASSUME TypeOK, BatchInv, CursorInv, NEW d \in Devices, Fetch(d) \/ SaveCursor(d) \/ Crash(d) \/ FailSync(d)
  PROVE  /\ UNCHANGED <<object, earlier, rowVars, history>>
         /\ \A c \in Devices : Passed(c)' = Passed(c) \/ Passed(c)' = cursor[c]
         /\ \A c \in Devices : Passed(c)' \subseteq Passed(c)
<1>1. UNCHANGED <<object, earlier, rowVars, history>>
  BY DEF Fetch, SaveCursor, CutPass, Crash, FailSync, indexer, rowVars, history
<1>2. \A c \in Devices : cursor[c] \subseteq Passed(c)
  BY DEF BatchInv, Passed
<1>3. CASE Fetch(d)
  <2>1. \A c \in Devices \ {d} : Passed(c)' = Passed(c)
    BY <1>3 DEF TypeOK, Fetch, Passed
  <2>2. batch'[d] = {[version |-> v, kind |-> object[v], rank |-> Rank(d, v)] : v \in Page(d)}
    BY <1>3 DEF TypeOK, Fetch
  <2>3. ASSUME NEW v \in Page(d) PROVE \E e \in batch'[d] : e.version = v
    <3>1. [version |-> v, kind |-> object[v], rank |-> Rank(d, v)] \in batch'[d]
      BY <2>2
    <3>. QED  BY <3>1
  <2>4. \A e \in batch'[d] : e.version \in Page(d)
    BY <2>2
  <2>5. Page(d) \cap cursor[d] = {}
    BY PageType
  <2>6. cursor' = cursor /\ upto'[d] = cursor[d] \cup Page(d)
    BY <1>3 DEF TypeOK, Fetch
  <2>7. Passed(d)' = cursor[d]
    BY <2>3, <2>4, <2>5, <2>6 DEF Passed
  <2>. QED  BY <1>1, <1>2, <2>1, <2>7
<1>4. CASE SaveCursor(d)
  <2>1. \A c \in Devices \ {d} : Passed(c)' = Passed(c)
    BY <1>4 DEF TypeOK, SaveCursor, Passed
  <2>2. /\ batch[d] = {} /\ batch'[d] = {} /\ cursor'[d] = upto[d] /\ upto'[d] = {}
        /\ cursor[d] \subseteq upto[d]
    BY <1>4 DEF TypeOK, SaveCursor, CursorInv
  <2>3. Passed(d)' = Passed(d)
    BY <2>2 DEF Passed
  <2>. QED  BY <1>1, <2>1, <2>3
<1>5. CASE Crash(d) \/ FailSync(d)
  <2>1. \A c \in Devices \ {d} : Passed(c)' = Passed(c)
    BY <1>5 DEF TypeOK, CutPass, Crash, FailSync, Passed
  <2>2. Passed(d)' = cursor[d]
    BY <1>5 DEF TypeOK, CutPass, Crash, FailSync, Passed
  <2>. QED  BY <1>1, <1>2, <2>1, <2>2
<1>. QED  BY <1>3, <1>4, <1>5

LEMMA PassedOfEvent ==
  ASSUME TypeOK, NEW v \in Versions, NEW kind \in {"bare", "live", "gone"},
         Event(v, kind), UNCHANGED syncVars
  PROVE  \A d \in Devices : Passed(d)' = Passed(d) \ {v}
<1>1. \A d \in Devices : cursor'[d] = cursor[d] \ {v} /\ upto'[d] = upto[d] \ {v}
  BY EventEffect DEF Kinds
<1>. QED  BY <1>1 DEF Passed, syncVars

LEMMA PassedStep ==
  ASSUME TypeOK, BatchInv, OrderInv, CursorInv, PassedInv, [Next]_vars
  PROVE  PassedInv'
<1>1. ASSUME NEW v \in Versions, NEW kind \in {"bare", "live", "gone"},
             Event(v, kind), UNCHANGED syncVars
      PROVE  PassedInv'
  <2>. SUFFICES ASSUME NEW d \in Devices PROVE Closed(Passed(d))'
    BY DEF PassedInv
  <2>1. Passed(d)' = Passed(d) \ {v} /\ Closed(Passed(d))
    BY <1>1, PassedOfEvent DEF PassedInv
  <2>. QED  BY <1>1, <2>1, ClosedOfEvent DEF Closed
<1>2. ASSUME NEW d \in Devices, Fetch(d) \/ SaveCursor(d) \/ Crash(d) \/ FailSync(d) PROVE PassedInv'
  <2>1. /\ UNCHANGED <<object, earlier>>
        /\ \A c \in Devices : Passed(c)' = Passed(c) \/ Passed(c)' = cursor[c]
    BY <1>2, PassedShrinks
  <2>. QED  BY <2>1 DEF PassedInv, CursorInv, Closed, Listed
<1>3. ASSUME NEW d \in Devices, Apply(d) PROVE PassedInv'
  <2>1. PICK e \in batch[d] :
          /\ \A f \in batch[d] : e.rank <= f.rank
          /\ batch' = [batch EXCEPT ![d] = @ \ {e}]
    BY <1>3 DEF Apply
  <2>2. UNCHANGED <<indexer, markVars>>
    BY <1>3 DEF Apply
  <2>3. /\ \A c \in Devices \ {d} : Passed(c)' = Passed(c)
        /\ Passed(d) \subseteq Passed(d)' /\ Passed(d)' \subseteq Passed(d) \cup {e.version}
        /\ e.version \in Passed(d)' => earlier[e.version] \subseteq Passed(d)
    BY <2>1, <2>2, PassedOfApply
  <2>4. ASSUME NEW c \in Devices PROVE Passed(c)' \subseteq Listed
    <3>1. Passed(c)' \subseteq cursor[c] \cup upto[c]
      BY <2>2 DEF Passed, markVars
    <3>. QED  BY <3>1 DEF CursorInv, Closed
  <2>5. ASSUME NEW c \in Devices, NEW v \in Passed(c)' PROVE earlier[v] \subseteq Passed(c)'
    BY <2>3, <2>5 DEF PassedInv, Closed
  <2>. QED  BY <2>2, <2>4, <2>5 DEF PassedInv, Closed, Listed, indexer
<1>4. ASSUME UNCHANGED <<indexer, markVars, syncVars>> PROVE PassedInv'
  BY <1>4 DEF PassedInv, Passed, Closed, Listed, indexer, markVars, syncVars
<1>5. ASSUME NEW d \in Devices,
             \/ \E v \in Versions : Put(d, v) \/ Remove(d, v)
             \/ Finalize(d)
      PROVE  PassedInv'
  BY <1>4, <1>5 DEF Put, Remove, Finalize
<1>6. ASSUME NEW d \in Devices, NEW v \in Versions, FlushPin(d, v) PROVE PassedInv'
  BY <1>1, <1>6 DEF FlushPin
<1>7. ASSUME NEW d \in Devices, DeleteObject(d) PROVE PassedInv'
  <2>1. removing[d] \in Versions
    BY <1>7 DEF TypeOK, DeleteObject
  <2>. QED  BY <1>1, <1>4, <1>7, <2>1 DEF DeleteObject
<1>8. ASSUME NEW v \in Versions, PinBare(v) \/ Stamp(v) PROVE PassedInv'
  BY <1>1, <1>8 DEF PinBare, Stamp
<1>9. CASE UNCHANGED vars
  BY <1>4, <1>9 DEF vars
<1>. QED  BY <1>2, <1>3, <1>5, <1>6, <1>7, <1>8, <1>9 DEF Next

LEMMA RemovedStep ==
  ASSUME TypeOK, RemovedInv, [Next]_vars
  PROVE  RemovedInv'
<1>0. \A d \in Devices : \A e \in batch[d] : e.version \in Versions
  BY DEF TypeOK, Events
<1>1. ASSUME NEW d \in Devices, NEW v \in Versions, Put(d, v) PROVE RemovedInv'
  BY <1>1 DEF RemovedInv, Put, indexer, syncVars, history
<1>2. ASSUME NEW v \in Versions, Event(v, "live") \/ Event(v, "bare"),
             UNCHANGED <<dead, batch, removing, removed>>
      PROVE  RemovedInv'
  <2>1. /\ object'[v] \in {"live", "bare"}
        /\ \A w \in Versions \ {v} : object'[w] = object[w]
    BY <1>2, EventEffect DEF Kinds
  <2>. QED  BY <1>2, <2>1 DEF RemovedInv
<1>3. ASSUME NEW d \in Devices, NEW v \in Versions, FlushPin(d, v) PROVE RemovedInv'
  BY <1>2, <1>3 DEF FlushPin, rowVars, syncVars, history
<1>4. ASSUME NEW d \in Devices, NEW v \in Versions, Remove(d, v) PROVE RemovedInv'
  <2>1. /\ UNCHANGED <<object, batch>> /\ removed' = removed \cup {PathOf[v]}
        /\ dead'[d] = dead[d] \cup {v} /\ removing'[d] = v
        /\ \A c \in Devices \ {d} : dead'[c] = dead[c] /\ removing'[c] = removing[c]
    BY <1>4 DEF TypeOK, Remove, indexer, syncVars
  <2>. QED  BY <2>1 DEF RemovedInv
<1>5. ASSUME NEW d \in Devices, Finalize(d) PROVE RemovedInv'
  BY <1>5 DEF RemovedInv, Finalize, indexer, syncVars, history
<1>6. ASSUME NEW d \in Devices, DeleteObject(d) PROVE RemovedInv'
  <2>1. removing[d] \in Versions /\ PathOf[removing[d]] \in removed
    BY <1>6 DEF TypeOK, DeleteObject, RemovedInv
  <2>2. /\ removing'[d] = None /\ UNCHANGED <<dead, batch, removed>>
        /\ \A c \in Devices \ {d} : removing'[c] = removing[c]
    BY <1>6 DEF TypeOK, DeleteObject, rowVars, syncVars, history
  <2>3. CASE UNCHANGED <<indexer, markVars>>
    BY <2>2, <2>3 DEF RemovedInv, indexer
  <2>4. CASE Event(removing[d], "gone")
    <3>1. \A w \in Versions \ {removing[d]} : object'[w] = object[w]
      BY <2>1, <2>4, EventEffect DEF Kinds
    <3>. QED  BY <2>1, <2>2, <3>1 DEF RemovedInv
  <2>. QED  BY <1>6, <2>3, <2>4 DEF DeleteObject
<1>7. ASSUME NEW d \in Devices, Crash(d) \/ FailSync(d) PROVE RemovedInv'
  <2>1. /\ UNCHANGED <<object, dead, removed>>
        /\ \A c \in Devices : removing'[c] \in {removing[c], None} /\ batch'[c] \in {batch[c], {}}
    BY <1>7 DEF TypeOK, CutPass, Crash, FailSync, indexer, rowVars, history
  <2>. QED  BY <2>1 DEF RemovedInv
<1>8. ASSUME NEW d \in Devices, Fetch(d) PROVE RemovedInv'
  <2>1. /\ UNCHANGED <<object, dead, removing, removed>>
        /\ \A c \in Devices \ {d} : batch'[c] = batch[c]
        /\ batch'[d] = {[version |-> v, kind |-> object[v], rank |-> Rank(d, v)] : v \in Page(d)}
    BY <1>8 DEF TypeOK, Fetch, indexer, rowVars, ownVars, history
  <2>2. \A e \in batch'[d] : e.version \in Versions /\ e.kind = object[e.version]
    BY <2>1, PageType
  <2>3. ASSUME NEW c \in Devices, NEW e \in batch'[c], e.kind = "gone"
        PROVE  PathOf[e.version] \in removed
    BY <2>1, <2>2, <2>3 DEF RemovedInv
  <2>. QED  BY <2>1, <2>3 DEF RemovedInv
<1>9. ASSUME NEW d \in Devices, Apply(d) PROVE RemovedInv'
  <2>1. PICK e \in batch[d] :
          /\ batch' = [batch EXCEPT ![d] = @ \ {e}]
          /\ \/ e.kind = "gone" /\ Tombstone(d, e.version)
             \/ UNCHANGED <<rowVars, missed>>
             \/ Record(d, e.version)
    BY <1>9 DEF Apply
  <2>2. /\ UNCHANGED <<object, removing, removed>>
        /\ \A c \in Devices : batch'[c] \subseteq batch[c]
    BY <1>9, <2>1 DEF TypeOK, Apply, indexer, ownVars
  <2>3. ASSUME NEW c \in Devices, NEW v \in dead'[c] PROVE PathOf[v] \in removed
    <3>1. CASE e.kind = "gone" /\ Tombstone(d, e.version)
      <4>1. PathOf[e.version] \in removed
        BY <3>1 DEF RemovedInv
      <4>2. v \in dead[c] \/ v = e.version
        BY <2>3, <3>1 DEF TypeOK, Tombstone
      <4>. QED  BY <4>1, <4>2 DEF RemovedInv
    <3>2. CASE UNCHANGED <<rowVars, missed>>
      BY <2>3, <3>2 DEF RemovedInv, rowVars
    <3>3. CASE Record(d, e.version)
      BY <2>3, <3>3 DEF TypeOK, RemovedInv, Record
    <3>. QED  BY <2>1, <3>1, <3>2, <3>3
  <2>. QED  BY <2>2, <2>3 DEF RemovedInv
<1>10. ASSUME NEW d \in Devices, SaveCursor(d) PROVE RemovedInv'
  BY <1>10 DEF RemovedInv, SaveCursor, indexer, rowVars, ownVars, history
<1>11. ASSUME NEW v \in Versions, PinBare(v) \/ Stamp(v) PROVE RemovedInv'
  BY <1>2, <1>11 DEF PinBare, Stamp, rowVars, ownVars, syncVars, history
<1>12. CASE UNCHANGED vars
  BY <1>12 DEF RemovedInv, vars, indexer, rowVars, ownVars, syncVars, history
<1>. QED  BY <1>1, <1>3, <1>4, <1>5, <1>6, <1>7, <1>8, <1>9, <1>10, <1>11, <1>12 DEF Next

(* What was published stays published, live or gone.                       *)
LEMMA PublishedStays ==
  ASSUME TypeOK, [Next]_vars, NEW v \in Versions, object[v] \in {"live", "gone"}
  PROVE  object'[v] \in {"live", "gone"}
<1>1. CASE UNCHANGED indexer
  BY <1>1 DEF indexer
<1>2. ASSUME NEW w \in Versions, NEW kind \in {"bare", "live", "gone"}, Event(w, kind),
             kind = "bare" => object[w] = "none"
      PROVE  object'[v] \in {"live", "gone"}
  <2>1. object'[w] = kind /\ \A x \in Versions \ {w} : object'[x] = object[x]
    BY <1>2, EventEffect DEF Kinds
  <2>. QED  BY <1>2, <2>1
<1>. QED  BY <1>1, <1>2, IndexerStep

LEMMA PublishedStep ==
  ASSUME TypeOK, BatchInv, PublishedInv, [Next]_vars
  PROVE  PublishedInv'
<1>0. ASSUME NEW d \in Devices,
             pinned'[d] \in {pinned[d], None}, rows'[d] = rows[d], staged'[d] = staged[d]
      PROVE  /\ pinned'[d] # None => object'[pinned'[d]] \in {"live", "gone"}
             /\ \A v \in rows'[d] :
                  Writer[v] = d /\ v \notin staged'[d] => object'[v] \in {"live", "gone"}
  <2>1. rows[d] \subseteq Versions /\ pinned[d] \in Versions \cup {None}
    BY DEF TypeOK
  <2>. QED  BY <1>0, <2>1, PublishedStays DEF PublishedInv
<1>1. ASSUME NEW d \in Devices, NEW v \in Versions, Put(d, v) PROVE PublishedInv'
  BY <1>1 DEF TypeOK, PublishedInv, Put, indexer
<1>2. ASSUME NEW d \in Devices, NEW v \in Versions, FlushPin(d, v) PROVE PublishedInv'
  <2>1. /\ pinned'[d] = v /\ UNCHANGED <<rows, staged>>
        /\ \A c \in Devices \ {d} : pinned'[c] = pinned[c]
    BY <1>2 DEF TypeOK, FlushPin, rowVars
  <2>2. object'[v] = "live" /\ \A w \in Versions \ {v} : object'[w] = object[w]
    BY <1>2, EventEffect DEF FlushPin, Kinds
  <2>. QED  BY <2>1, <2>2 DEF TypeOK, PublishedInv
<1>3. ASSUME NEW d \in Devices, NEW v \in Versions, Remove(d, v) PROVE PublishedInv'
  BY <1>3 DEF PublishedInv, Remove, indexer
<1>4. ASSUME NEW d \in Devices, Finalize(d) PROVE PublishedInv'
  <2>1. /\ UNCHANGED <<object, rows>>
        /\ staged'[d] = staged[d] \ {pinned[d]} /\ pinned'[d] = None /\ pinned[d] # None
        /\ \A c \in Devices \ {d} : staged'[c] = staged[c] /\ pinned'[c] = pinned[c]
    BY <1>4 DEF TypeOK, Finalize, indexer
  <2>. QED  BY <2>1 DEF PublishedInv
<1>5. ASSUME NEW d \in Devices, DeleteObject(d) PROVE PublishedInv'
  <2>1. UNCHANGED <<pinned, rows, staged>>
    BY <1>5 DEF DeleteObject, rowVars
  <2>. QED  BY <1>0, <2>1 DEF PublishedInv
<1>6. ASSUME NEW d \in Devices, Crash(d) \/ FailSync(d) PROVE PublishedInv'
  <2>1. /\ UNCHANGED <<rows, staged>> /\ \A c \in Devices : pinned'[c] \in {pinned[c], None}
    BY <1>6 DEF TypeOK, CutPass, Crash, FailSync, rowVars
  <2>. QED  BY <1>0, <2>1 DEF PublishedInv
<1>7. ASSUME NEW d \in Devices, Fetch(d) \/ SaveCursor(d) PROVE PublishedInv'
  BY <1>7 DEF PublishedInv, Fetch, SaveCursor, indexer, rowVars, ownVars
<1>8. ASSUME NEW d \in Devices, Apply(d) PROVE PublishedInv'
  <2>1. PICK e \in batch[d] : rows' = rows \/ (e.kind = "live" /\ Record(d, e.version))
    BY <1>8 DEF Apply, Tombstone, rowVars
  <2>2. UNCHANGED <<object, staged, pinned>>
    BY <1>8 DEF Apply, indexer, ownVars
  <2>3. CASE rows' = rows
    BY <2>2, <2>3 DEF PublishedInv
  <2>4. CASE e.kind = "live" /\ Record(d, e.version)
    <3>1. object[e.version] \in {"live", "gone"}
      BY <2>4 DEF BatchInv
    <3>2. rows'[d] = rows[d] \cup {e.version} /\ \A c \in Devices \ {d} : rows'[c] = rows[c]
      BY <2>4 DEF TypeOK, Record
    <3>. QED  BY <2>2, <3>1, <3>2 DEF PublishedInv
  <2>. QED  BY <2>1, <2>3, <2>4
<1>9. ASSUME NEW v \in Versions, PinBare(v) \/ Stamp(v) PROVE PublishedInv'
  <2>1. UNCHANGED <<pinned, rows, staged>>
    BY <1>9 DEF PinBare, Stamp, rowVars, ownVars
  <2>. QED  BY <1>0, <2>1 DEF PublishedInv
<1>10. CASE UNCHANGED vars
  BY <1>10 DEF PublishedInv, vars, indexer, rowVars, ownVars
<1>. QED  BY <1>1, <1>2, <1>3, <1>4, <1>5, <1>6, <1>7, <1>8, <1>9, <1>10 DEF Next

(* A promotion gives the path of v a winner and leaves the other paths     *)
(* theirs.                                                                 *)
LEMMA PromotionWins ==
  ASSUME TypeOK, NEW d \in Devices, NEW v \in Versions, NEW cur \in SUBSET Versions,
         NEW tombs \in SUBSET Versions, v \notin tombs,
         cur \ {v} = current[d] \ {v}, tombs \ {v} = dead[d] \ {v},
         current' = [current EXCEPT ![d] = Promoted(v, cur, tombs)],
         dead' = [dead EXCEPT ![d] = tombs]
  PROVE  /\ Winner(d, v)'
         /\ \A w \in Versions : PathOf[w] # PathOf[v] => (Winner(d, w)' <=> Winner(d, w))
         /\ \A w \in Versions : PathOf[w] = PathOf[v] /\ Winner(d, w)' => w = v
         /\ \A c \in Devices \ {d}, w \in Versions : Winner(c, w)' <=> Winner(c, w)
<1>1. /\ current'[d] = Promoted(v, cur, tombs) /\ dead'[d] = tombs
      /\ \A c \in Devices \ {d} : current'[c] = current[c] /\ dead'[c] = dead[c]
  BY DEF TypeOK
<1>. QED  BY <1>1 DEF Winner, Promoted

LEMMA WinnerStep ==
  ASSUME IInv, OrderInv, CursorInv, PassedInv, RemovedInv, WinnerInv, [Next]_vars
  PROVE  WinnerInv'
<1>. TypeOK /\ WriterInv /\ BatchInv
  BY DEF IInv
<1>. \A d \in Devices : Passed(d) \subseteq Versions
  BY DEF TypeOK, Passed
<1>1. ASSUME NEW v \in Versions, NEW kind \in {"bare", "live", "gone"}, Event(v, kind),
             UNCHANGED <<rows, current, dead, syncVars, removed>>
      PROVE  WinnerInv'
  <2>1. \A d \in Devices : Passed(d)' = Passed(d) \ {v}
    BY <1>1, PassedOfEvent
  <2>2. \A d \in Devices, w \in Versions : Winner(d, w)' <=> Winner(d, w)
    BY <1>1 DEF Winner
  <2>3. /\ \A w \in Versions \ {v} : earlier'[w] = earlier[w] \ {v}
        /\ \A w \in Versions \ {v} : object'[w] = object[w]
    BY <1>1, OrderOfEvent, EventEffect DEF Kinds
  <2>4. ASSUME NEW d \in Devices, NEW x \in Versions, PathOf[x] \notin removed, x \in rows[d]
        PROVE  \E w \in Versions : PathOf[w] = PathOf[x] /\ Winner(d, w)'
    BY <2>2, <2>4 DEF WinnerInv
  <2>5. ASSUME NEW d \in Devices, NEW x \in Versions, PathOf[x] \notin removed,
               Winner(d, x), x \in Passed(d)', NEW w \in Passed(d)',
               object'[w] = "live", PathOf[w] = PathOf[x]
        PROVE  w = x \/ w \in earlier'[x]
    <3>1. x \in Passed(d) \ {v} /\ w \in Passed(d) \ {v} /\ w \in Versions
      BY <2>1, <2>5
    <3>2. object[w] = "live" /\ earlier'[x] = earlier[x] \ {v}
      BY <2>3, <2>5, <3>1
    <3>. QED  BY <2>5, <3>1, <3>2 DEF WinnerInv
  <2>. QED  BY <1>1, <2>2, <2>4, <2>5 DEF WinnerInv
<1>2. ASSUME NEW d \in Devices, NEW v \in Versions, Put(d, v) PROVE WinnerInv'
  <2>1. /\ UNCHANGED <<object, earlier, removed, dead>>
        /\ \A c \in Devices : Passed(c)' = Passed(c)
        /\ rows'[d] = rows[d] \cup {v} /\ \A c \in Devices \ {d} : rows'[c] = rows[c]
    BY <1>2 DEF TypeOK, Put, Passed, indexer, syncVars, markVars, history
  <2>2. v \notin Passed(d)
    BY <1>2 DEF Put, WriterInv, PassedInv, Closed, Listed
  <2>3. CASE v \notin dead[d]
    <3>1. /\ Winner(d, v)'
          /\ \A w \in Versions : PathOf[w] # PathOf[v] => (Winner(d, w)' <=> Winner(d, w))
          /\ \A w \in Versions : PathOf[w] = PathOf[v] /\ Winner(d, w)' => w = v
          /\ \A c \in Devices \ {d}, w \in Versions : Winner(c, w)' <=> Winner(c, w)
      <4>1. current[d] \in SUBSET Versions /\ dead[d] \in SUBSET Versions
        BY DEF TypeOK
      <4>2. dead' = [dead EXCEPT ![d] = dead[d]]
        BY <2>1 DEF TypeOK
      <4>. QED  BY <1>2, <2>3, <4>1, <4>2, PromotionWins DEF Put
    <3>2. ASSUME NEW c \in Devices, NEW x \in Versions, PathOf[x] \notin removed, x \in rows'[c]
          PROVE  \E w \in Versions : PathOf[w] = PathOf[x] /\ Winner(c, w)'
      <4>1. CASE c = d /\ PathOf[x] = PathOf[v]
        BY <3>1, <4>1
      <4>2. CASE c # d \/ PathOf[x] # PathOf[v]
        <5>1. x \in rows[c]
          BY <2>1, <3>2, <4>2
        <5>2. PICK w \in Versions : PathOf[w] = PathOf[x] /\ Winner(c, w)
          BY <3>2, <5>1 DEF WinnerInv
        <5>. QED  BY <3>1, <4>2, <5>2
      <4>. QED  BY <4>1, <4>2
    <3>3. ASSUME NEW c \in Devices, NEW x \in Versions, Winner(c, x)', x \in Passed(c)
          PROVE  Winner(c, x)
      BY <2>2, <3>1, <3>3
    <3>. QED  BY <2>1, <3>2, <3>3 DEF WinnerInv
  <2>4. CASE v \in dead[d]
    <3>1. PathOf[v] \in removed
      BY <2>4 DEF RemovedInv
    <3>2. \A w \in Versions : PathOf[w] # PathOf[v] => (Winner(d, w)' <=> Winner(d, w))
      BY <1>2 DEF TypeOK, Put, Winner, Promoted
    <3>3. \A c \in Devices \ {d}, w \in Versions : Winner(c, w)' <=> Winner(c, w)
      BY <1>2 DEF TypeOK, Put, Winner
    <3>4. ASSUME NEW c \in Devices, NEW x \in Versions, PathOf[x] \notin removed, x \in rows'[c]
          PROVE  \E w \in Versions : PathOf[w] = PathOf[x] /\ Winner(c, w)'
      <4>1. x \in rows[c]
        BY <2>1, <3>1, <3>4
      <4>2. PICK w \in Versions : PathOf[w] = PathOf[x] /\ Winner(c, w)
        BY <3>4, <4>1 DEF WinnerInv
      <4>. QED  BY <3>1, <3>2, <3>3, <3>4, <4>2
    <3>. QED  BY <2>1, <3>1, <3>2, <3>3, <3>4 DEF WinnerInv
  <2>. QED  BY <2>3, <2>4
<1>3. ASSUME NEW d \in Devices, NEW v \in Versions, dead' = [dead EXCEPT ![d] = @ \cup {v}],
             UNCHANGED <<object, earlier, rows, current>>,
             \A c \in Devices : \A w \in Passed(c)' : w \in Passed(c) \/ w = v,
             removed \subseteq removed', PathOf[v] \in removed'
      PROVE  WinnerInv'
  <2>1. /\ \A c \in Devices, w \in Versions : Winner(c, w)' => Winner(c, w)
        /\ \A c \in Devices : \A w \in Versions \ {v} : Winner(c, w) => Winner(c, w)'
    BY <1>3 DEF TypeOK, Winner
  <2>2. ASSUME NEW c \in Devices, NEW x \in Versions, PathOf[x] \notin removed', x \in rows[c]
        PROVE  \E w \in Versions : PathOf[w] = PathOf[x] /\ Winner(c, w)'
    <3>1. PICK w \in Versions : PathOf[w] = PathOf[x] /\ Winner(c, w)
      BY <1>3, <2>2 DEF WinnerInv
    <3>. QED  BY <1>3, <2>1, <2>2, <3>1
  <2>3. ASSUME NEW c \in Devices, NEW x \in Versions, PathOf[x] \notin removed',
               Winner(c, x)', x \in Passed(c)', NEW w \in Passed(c)',
               object[w] = "live", PathOf[w] = PathOf[x]
        PROVE  w = x \/ w \in earlier[x]
    <3>1. x \in Passed(c) /\ w \in Passed(c) /\ PathOf[x] \notin removed
      BY <1>3, <2>3
    <3>. QED  BY <2>1, <2>3, <3>1 DEF WinnerInv
  <2>. QED  BY <1>3, <2>2, <2>3 DEF WinnerInv
<1>4. ASSUME NEW d \in Devices, NEW v \in Versions, Remove(d, v) PROVE WinnerInv'
  <2>1. \A c \in Devices : Passed(c)' = Passed(c)
    BY <1>4 DEF Remove, Passed, syncVars, markVars
  <2>. QED  BY <1>3, <1>4, <2>1 DEF Remove, indexer
<1>5. ASSUME UNCHANGED <<object, earlier, rows, current, dead, removed>>,
             \A c \in Devices : Passed(c)' \subseteq Passed(c)
      PROVE  WinnerInv'
  BY <1>5 DEF WinnerInv, Winner
<1>6. ASSUME NEW d \in Devices, Fetch(d) \/ SaveCursor(d) \/ Crash(d) \/ FailSync(d) PROVE WinnerInv'
  BY <1>5, <1>6, PassedShrinks DEF rowVars, history
<1>7. ASSUME NEW d \in Devices, Apply(d) PROVE WinnerInv'
  <2>1. PICK e \in batch[d] :
          /\ \A f \in batch[d] : e.rank <= f.rank
          /\ batch' = [batch EXCEPT ![d] = @ \ {e}]
          /\ \/ e.kind = "gone" /\ Tombstone(d, e.version)
             \/ e.kind = "bare" /\ UNCHANGED <<rowVars, missed>>
             \/ e.kind = "live" /\ Record(d, e.version)
    BY <1>7 DEF Apply
  <2>. DEFINE v == e.version
  <2>2. v \in Versions
    BY DEF TypeOK, Events
  <2>3. UNCHANGED <<indexer, markVars, removed>>
    BY <1>7 DEF Apply
  <2>4. /\ \A c \in Devices \ {d} : Passed(c)' = Passed(c)
        /\ Passed(d) \subseteq Passed(d)' /\ Passed(d)' \subseteq Passed(d) \cup {v}
        /\ v \notin Passed(d)
        /\ v \in Passed(d)' => object[v] = e.kind /\ earlier[v] \subseteq Passed(d)
    BY <2>1, <2>3, PassedOfApply
  <2>5. ASSUME v \in Passed(d)', NEW w \in Passed(d)', w # v PROVE w \in earlier[v]
    <3>1. w \in Passed(d) /\ w \in Listed /\ v \in Listed
      BY <2>1, <2>2, <2>4, <2>5 DEF PassedInv, Closed, Listed, TypeOK, Events
    <3>2. v \notin earlier[w]
      BY <2>4, <3>1 DEF PassedInv, Closed
    <3>. QED  BY <2>5, <3>1, <3>2 DEF OrderInv
  <2>. HIDE DEF v
  <2>6. CASE e.kind = "gone" /\ Tombstone(d, v)
    <3>1. PathOf[v] \in removed
      BY <2>6 DEF RemovedInv, v
    <3>2. dead' = [dead EXCEPT ![d] = @ \cup {v}] \/ dead' = dead
      BY <2>6 DEF Tombstone
    <3>3. UNCHANGED <<object, earlier, rows, current, removed>>
      BY <2>3, <2>6 DEF Tombstone, indexer
    <3>4. \A c \in Devices : \A w \in Passed(c)' : w \in Passed(c) \/ w = v
      BY <2>4
    <3>5. CASE dead' = dead
      BY <3>1, <3>3, <3>4, <3>5 DEF WinnerInv, Winner
    <3>. QED  BY <1>3, <2>2, <3>1, <3>2, <3>3, <3>4, <3>5
  <2>7. CASE e.kind = "bare" /\ UNCHANGED <<rowVars, missed>>
    <3>1. UNCHANGED <<object, earlier, rows, current, dead, removed>>
      BY <2>3, <2>7 DEF rowVars, indexer
    <3>2. ASSUME NEW c \in Devices, NEW x \in Versions, PathOf[x] \notin removed,
                 Winner(c, x), x \in Passed(c)', NEW w \in Passed(c)',
                 object[w] = "live", PathOf[w] = PathOf[x]
          PROVE  w = x \/ w \in earlier[x]
      <4>1. CASE c = d /\ x = v
        BY <2>5, <3>2, <4>1
      <4>2. CASE c # d \/ x # v
        <5>1. x \in Passed(c) /\ w \in Passed(c)
          BY <2>4, <2>7, <3>2, <4>2
        <5>. QED  BY <3>2, <5>1 DEF WinnerInv
      <4>. QED  BY <4>1, <4>2
    <3>. QED  BY <3>1, <3>2 DEF WinnerInv, Winner
  <2>8. CASE e.kind = "live" /\ Record(d, v)
    <3>1. UNCHANGED <<object, earlier, removed>>
      BY <2>3 DEF indexer
    <3>2. /\ Winner(d, v)'
          /\ \A w \in Versions : PathOf[w] # PathOf[v] => (Winner(d, w)' <=> Winner(d, w))
          /\ \A w \in Versions : PathOf[w] = PathOf[v] /\ Winner(d, w)' => w = v
          /\ \A c \in Devices \ {d}, w \in Versions : Winner(c, w)' <=> Winner(c, w)
      <4>1. /\ current[d] \ {v} \in SUBSET Versions /\ dead[d] \ {v} \in SUBSET Versions
        BY DEF TypeOK
      <4>2. /\ current' = [current EXCEPT ![d] = Promoted(v, current[d] \ {v}, dead[d] \ {v})]
            /\ dead' = [dead EXCEPT ![d] = dead[d] \ {v}]
        BY <2>8 DEF Record
      <4>3. /\ (current[d] \ {v}) \ {v} = current[d] \ {v}
            /\ (dead[d] \ {v}) \ {v} = dead[d] \ {v}
        OBVIOUS
      <4>. QED  BY <2>2, <4>1, <4>2, <4>3, PromotionWins
    <3>3. rows'[d] = rows[d] \cup {v} /\ \A c \in Devices \ {d} : rows'[c] = rows[c]
      BY <2>8 DEF TypeOK, Record
    <3>4. ASSUME NEW c \in Devices, NEW x \in Versions, PathOf[x] \notin removed, x \in rows'[c]
          PROVE  \E w \in Versions : PathOf[w] = PathOf[x] /\ Winner(c, w)'
      <4>1. CASE c = d /\ PathOf[x] = PathOf[v]
        BY <2>2, <3>2, <4>1
      <4>2. CASE c # d \/ PathOf[x] # PathOf[v]
        <5>1. x \in rows[c]
          BY <3>3, <3>4, <4>2
        <5>2. PICK w \in Versions : PathOf[w] = PathOf[x] /\ Winner(c, w)
          BY <3>4, <5>1 DEF WinnerInv
        <5>. QED  BY <3>2, <4>2, <5>2
      <4>. QED  BY <4>1, <4>2
    <3>5. ASSUME NEW c \in Devices, NEW x \in Versions, PathOf[x] \notin removed,
                 Winner(c, x)', x \in Passed(c)', NEW w \in Passed(c)',
                 object[w] = "live", PathOf[w] = PathOf[x]
          PROVE  w = x \/ w \in earlier[x]
      <4>1. CASE c = d /\ x = v
        BY <2>5, <3>5, <4>1
      <4>2. CASE c # d \/ x # v
        <5>1. Winner(c, x) /\ (c = d => PathOf[x] # PathOf[v])
          BY <3>2, <3>5, <4>2
        <5>2. x \in Passed(c) /\ w \in Passed(c)
          BY <2>4, <3>5, <4>2, <5>1
        <5>. QED  BY <3>5, <5>1, <5>2 DEF WinnerInv
      <4>. QED  BY <4>1, <4>2
    <3>. QED  BY <3>1, <3>4, <3>5 DEF WinnerInv
  <2>. QED  BY <2>1, <2>6, <2>7, <2>8 DEF v
<1>8. ASSUME UNCHANGED <<indexer, rows, current, dead, syncVars, markVars, removed>>
      PROVE  WinnerInv'
  BY <1>8 DEF WinnerInv, Winner, Passed, indexer, syncVars, markVars
<1>9. ASSUME NEW d \in Devices, Finalize(d) PROVE WinnerInv'
  BY <1>8, <1>9 DEF Finalize, history
<1>10. ASSUME NEW d \in Devices, NEW v \in Versions, FlushPin(d, v) PROVE WinnerInv'
  BY <1>1, <1>10 DEF FlushPin, rowVars, history
<1>11. ASSUME NEW d \in Devices, DeleteObject(d) PROVE WinnerInv'
  <2>1. removing[d] \in Versions
    BY <1>11 DEF TypeOK, DeleteObject
  <2>. QED  BY <1>1, <1>8, <1>11, <2>1 DEF DeleteObject, rowVars, history
<1>12. ASSUME NEW v \in Versions, PinBare(v) \/ Stamp(v) PROVE WinnerInv'
  BY <1>1, <1>12 DEF PinBare, Stamp, rowVars, history
<1>13. CASE UNCHANGED vars
  BY <1>8, <1>13 DEF vars, rowVars, history
<1>. QED  BY <1>2, <1>4, <1>6, <1>7, <1>9, <1>10, <1>11, <1>12, <1>13 DEF Next

LEMMA ConvInvariance == Spec => []ConvInv
<1>1. IInv /\ [Next]_vars => IInv'
  BY TypeStep, WriterStep, BatchStep, AppliedStep, OneWinnerStep DEF IInv
<1>2. ConvInv /\ [Next]_vars => ConvInv'
  <2> SUFFICES ASSUME ConvInv, [Next]_vars PROVE ConvInv'
    OBVIOUS
  <2>1. /\ IInv /\ TypeOK /\ BatchInv
        /\ OrderInv /\ CursorInv /\ PassedInv /\ RemovedInv /\ PublishedInv /\ WinnerInv
    BY DEF ConvInv, IInv
  <2>2. OrderInv' /\ CursorInv' /\ PassedInv'
    BY <2>1, OrderStep, CursorStep, PassedStep
  <2>3. RemovedInv' /\ PublishedInv' /\ WinnerInv'
    BY <2>1, RemovedStep, PublishedStep, WinnerStep
  <2>. QED  BY <1>1, <2>1, <2>2, <2>3 DEF ConvInv
<1>. QED  BY <1>2, InitConvInv, PTL DEF Spec

(* What two devices with nothing left to do show at a path is the same.    *)
LEMMA WinnerAgrees ==
  ASSUME ConvInv, NEW d \in Devices, NEW e \in Devices, CaughtUp(d), CaughtUp(e),
         staged[d] = {}, staged[e] = {},
         NEW v \in Versions, PathOf[v] \notin removed, Winner(d, v)
  PROVE  Winner(e, v)
<1>. /\ TypeOK /\ WriterInv /\ BatchInv /\ AppliedInv
     /\ OrderInv /\ RemovedInv /\ PublishedInv /\ WinnerInv
  BY DEF ConvInv, IInv
<1>1. ASSUME NEW c \in {d, e}, NEW w \in Versions, Winner(c, w), PathOf[w] \notin removed
      PROVE  /\ object[w] = "live" /\ w \in Listed /\ w \in Passed(d) /\ w \in Passed(e)
             /\ w \in rows[d] /\ w \in rows[e]
  <2>1. w \in rows[c] /\ w \notin staged[c]
    BY <1>1 DEF WriterInv, Winner
  <2>2. object[w] \in {"live", "gone"}
    <3>1. CASE Writer[w] = c
      BY <2>1, <3>1 DEF PublishedInv
    <3>2. CASE Writer[w] # c
      BY <2>1, <3>2 DEF WriterInv
    <3>. QED  BY <3>1, <3>2
  <2>3. object[w] = "live" /\ w \in Listed
    BY <1>1, <2>2 DEF RemovedInv, Listed
  <2>4. w \in cursor[d] /\ w \in cursor[e]
    BY <2>3 DEF CaughtUp, Behind
  <2>5. w \in Passed(d) /\ w \in Passed(e)
    BY <2>4 DEF BatchInv, Passed
  <2>. QED  BY <2>3, <2>5 DEF AppliedInv
<1>2. /\ object[v] = "live" /\ v \in Listed /\ v \in Passed(d) /\ v \in Passed(e)
      /\ v \in rows[e]
  BY <1>1
<1>3. PICK w \in Versions : PathOf[w] = PathOf[v] /\ Winner(e, w)
  BY <1>2 DEF WinnerInv
<1>4. object[w] = "live" /\ w \in Listed /\ w \in Passed(d) /\ w \in Passed(e)
  BY <1>1, <1>3
<1>5. w = v \/ w \in earlier[v]
  BY <1>2, <1>3, <1>4 DEF WinnerInv
<1>6. v = w \/ v \in earlier[w]
  BY <1>2, <1>3, <1>4 DEF WinnerInv
<1>7. w = v
  BY <1>2, <1>4, <1>5, <1>6 DEF OrderInv
<1>. QED  BY <1>3, <1>7

(* Sync brings the devices of a vault to one content per path: when two of *)
(* them have applied all that the indexer lists and flushed all they wrote *)
(* they show the same version at every path from which nothing was ever    *)
(* removed, whatever the order of the writes, flushes, syncs and crashes   *)
(* and however stale the events of a batch were when they were applied.    *)
THEOREM DevicesConverge == Spec => []Converged
<1>1. ConvInv => Converged
  BY WinnerAgrees DEF Converged
<1>. QED  BY <1>1, ConvInvariance, PTL

-----------------------------------------------------------------------------
(* The refinement: the names of the abstract state.                        *)
Published == {v \in Versions : object[v] \in {"live", "gone"}}
Withdrawn == {v \in Versions : object[v] = "gone"}

LEMMA AbstractPublish ==
  ASSUME TypeOK, NEW v \in Versions, Event(v, "live"), UNCHANGED rows
  PROVE  Abstract!Next
<1>1. /\ object'[v] = "live"
      /\ \A w \in Versions \ {v} : object'[w] = object[w]
  BY EventEffect DEF Kinds
<1>2. Published' = Published \cup {v} /\ Withdrawn' = Withdrawn \ {v}
  BY <1>1 DEF Published, Withdrawn
<1>3. Abstract!Publish(v)
  BY <1>2 DEF Abstract!Publish, Published, Withdrawn
<1>. QED  BY <1>3 DEF Abstract!Next

LEMMA AbstractStutter ==
  ASSUME UNCHANGED rows, Published' = Published, Withdrawn' = Withdrawn
  PROVE  UNCHANGED Abstract!vars
BY DEF Abstract!vars, Published, Withdrawn

LEMMA AbstractStep ==
  ASSUME IInv, [Next]_vars
  PROVE  [Abstract!Next]_(Abstract!vars)
<1>. TypeOK /\ WriterInv /\ BatchInv
  BY DEF IInv
<1>1. ASSUME NEW d \in Devices, NEW v \in Versions, Put(d, v) PROVE Abstract!Next
  <2>1. object[v] = "none"
    BY <1>1 DEF Put, WriterInv
  <2>2. \A e \in Devices : v \notin rows[e]
    BY <1>1, <2>1 DEF Put, WriterInv
  <2>3. Published' = Published /\ Withdrawn' = Withdrawn /\ v \notin Published
    BY <1>1, <2>1 DEF Put, indexer, Published, Withdrawn
  <2>4. Abstract!Write(d, v)
    BY <1>1, <2>2, <2>3 DEF Put, Abstract!Write, Published, Withdrawn
  <2>. QED  BY <2>4 DEF Abstract!Next
<1>2. ASSUME NEW d \in Devices, NEW v \in Versions, FlushPin(d, v) PROVE Abstract!Next
  BY <1>2, AbstractPublish DEF FlushPin, rowVars
<1>3. ASSUME NEW d \in Devices, DeleteObject(d) PROVE [Abstract!Next]_(Abstract!vars)
  <2>1. removing[d] \in Versions
    BY <1>3 DEF TypeOK, DeleteObject
  <2>2. CASE UNCHANGED <<indexer, markVars>>
    BY <1>3, <2>2, AbstractStutter DEF DeleteObject, rowVars, indexer, Published, Withdrawn
  <2>3. ASSUME NEW v \in Versions, object[v] = "live", Event(v, "gone")
        PROVE  Abstract!Next
    <3>1. /\ object'[v] = "gone"
          /\ \A w \in Versions \ {v} : object'[w] = object[w]
      BY <2>3, EventEffect DEF Kinds
    <3>2. v \in Published /\ Published' = Published /\ Withdrawn' = Withdrawn \cup {v}
      BY <2>3, <3>1 DEF Published, Withdrawn
    <3>3. rows' = rows
      BY <1>3 DEF DeleteObject, rowVars
    <3>4. Abstract!Withdraw(v)
      BY <3>2, <3>3 DEF Abstract!Withdraw, Published, Withdrawn
    <3>. QED  BY <3>4 DEF Abstract!Next
  <2>. QED  BY <1>3, <2>1, <2>2, <2>3 DEF DeleteObject
<1>4. ASSUME NEW d \in Devices, Apply(d) PROVE [Abstract!Next]_(Abstract!vars)
  <2>1. PICK e \in batch[d] :
          \/ Tombstone(d, e.version)
          \/ UNCHANGED <<rowVars, missed>>
          \/ e.kind = "live" /\ Record(d, e.version)
    BY <1>4 DEF Apply
  <2>2. e.version \in Versions
    BY DEF TypeOK, Events
  <2>3. Published' = Published /\ Withdrawn' = Withdrawn
    BY <1>4 DEF Apply, indexer, Published, Withdrawn
  <2>4. CASE Tombstone(d, e.version)
    BY <2>3, <2>4, AbstractStutter DEF Tombstone
  <2>5. CASE UNCHANGED <<rowVars, missed>>
    BY <2>3, <2>5, AbstractStutter DEF rowVars
  <2>6. CASE e.kind = "live" /\ Record(d, e.version)
    <3>1. e.version \in Published
      BY <2>2, <2>6 DEF BatchInv, Published
    <3>2. Abstract!Learn(d, e.version)
      BY <2>3, <2>6, <3>1 DEF Record, Abstract!Learn, Published, Withdrawn
    <3>. QED  BY <2>2, <3>2 DEF Abstract!Next
  <2>. QED  BY <2>1, <2>4, <2>5, <2>6
<1>5. ASSUME NEW v \in Versions, PinBare(v) PROVE UNCHANGED Abstract!vars
  <2>1. /\ object[v] = "none" /\ object'[v] = "bare"
        /\ \A w \in Versions \ {v} : object'[w] = object[w]
    BY <1>5, EventEffect DEF PinBare, Kinds
  <2>2. Published' = Published /\ Withdrawn' = Withdrawn
    BY <2>1 DEF Published, Withdrawn
  <2>. QED  BY <1>5, <2>2, AbstractStutter DEF PinBare, rowVars
<1>6. ASSUME NEW v \in Versions, Stamp(v) PROVE Abstract!Next
  BY <1>6, AbstractPublish DEF Stamp, rowVars
<1>7. CASE UNCHANGED <<object, rows>>
  BY <1>7, AbstractStutter DEF Published, Withdrawn
<1>. QED
  BY <1>1, <1>2, <1>3, <1>4, <1>5, <1>6, <1>7
  DEF Next, vars, Remove, Finalize, CutPass, Crash, FailSync, Fetch, SaveCursor, indexer, rowVars

(* Every step of the devices and of the indexer is one that Replication    *)
(* allows: nothing is known that nobody wrote or published, and nothing    *)
(* that is known is forgotten.                                             *)
THEOREM SyncReplicates == Spec => Abstract!Init /\ [][Abstract!Next]_(Abstract!vars)
<1>1. Init => Abstract!Init
  BY DEF Init, Abstract!Init
<1>2. IInv /\ [Next]_vars => [Abstract!Next]_(Abstract!vars)
  BY AbstractStep
<1>. QED  BY <1>1, <1>2, Invariance, PTL DEF Spec
=============================================================================
