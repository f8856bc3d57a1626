-------------------------- MODULE VaultFilesProofs --------------------------
(***************************************************************************)
(* Proofs about the staged buffers, the object keys and the pinned objects *)
(* of VaultFiles, on top of what VaultTableProofs says of the table.       *)
(*                                                                         *)
(* The argument.  A row is staged or keyed, never both, and only a keyed   *)
(* row is removed (KeyInv); a buffer is unlinked only after its row has    *)
(* got its key (UnlinksOnlyKeyed): so the bytes of a row without a key are *)
(* on disk, for any number of flushing processes (DiskInv).                *)
(*                                                                         *)
(* A flush works on a snapshot.  While a single process flushes, what it   *)
(* has left to do stays staged (FlushInv), so it marks and pins only rows  *)
(* that still wait for it.  With two processes neither holds: one that     *)
(* took its snapshot before the other finalized a row marks a durable row  *)
(* flushing, and pins anew an object that a Remove has deleted since.      *)
(***************************************************************************)
EXTENDS VaultTableProofs

(* A flush that is about to remove a buffer has committed the object key.  *)
UnlinksOnlyKeyed ==
  \A f \in Processes : flush[f].pc = "unlink" => flush[f].row \in keyed

(* What a flush still has to do is still staged: S is the set of staged    *)
(* rows, v the flush's locals.                                             *)
Covers(v, S) ==
  /\ v.batch \subseteq S /\ v.members \subseteq S
  /\ v.batch \cap v.members = {}
  /\ v.pc = "mark" => v.todo \subseteq S
  /\ v.pc = "finalize" => v.row \in S /\ v.row \notin v.batch /\ v.row \notin v.members

FlushInv == \A f \in Processes : Covers(flush[f], staged)

(* The locals of a flush after its next step.                              *)
FlushMove(f, w) ==
  /\ flush' = [flush EXCEPT ![f] = w]
  /\ w.pc = "unlink" => w.row \in keyed'
  /\ Covers(flush[f], staged) => Covers(w, staged')

LEMMA IdleFlushMoves ==
  ASSUME NEW f, flush' = [flush EXCEPT ![f] = NoFlush]
  PROVE  FlushMove(f, NoFlush)
BY DEF FlushMove, Covers, NoFlush

LEMMA FlushMoves ==
  ASSUME TypeInv, NEW f \in Processes,
         FlushStep(f) \/ CrashFlush(f) \/ \E p \in Paths : FlushPath(f, p)
  PROVE  \E w : FlushMove(f, w)
<1> DEFINE v == flush[f]
           n == rows
<1>1. v \in FlushRecords(n)
  BY DEF TypeInv, FlushLocals
<1>2. ASSUME NEW r, FailMember(f, r), UNCHANGED staged PROVE \E w : FlushMove(f, w)
  <2> DEFINE w == [v EXCEPT !.pc = "fail", !.todo = {r}, !.members = {}, !.row = NoRow]
  <2>1. flush' = [flush EXCEPT ![f] = w]
    BY <1>2 DEF FailMember
  <2> HIDE DEF v, n
  <2>2. w.pc = "fail" /\ w.members = {} /\ w.batch = v.batch
    BY <1>1 DEF FlushRecords
  <2> HIDE DEF w
  <2> QED BY <1>2, <2>1, <2>2 DEF FlushMove, Covers, v
<1>3. CASE Flush(f) \/ \E p \in Paths : FlushPath(f, p)
  <2>1. PICK S \in SUBSET staged : BeginFlush(f, S)
    <3>1. staged \cap Live \in SUBSET staged /\ \A p : {FindCurrentFile(p)} \cap staged \in SUBSET staged
      OBVIOUS
    <3> QED BY <1>3, <3>1 DEF Flush, FlushPath
  <2> DEFINE w == [NoFlush EXCEPT !.pc = "mark", !.todo = S, !.batch = S]
  <2>2. flush' = [flush EXCEPT ![f] = w] /\ UNCHANGED staged
    BY <2>1 DEF BeginFlush, diskVars
  <2>3. w.pc = "mark" /\ w.todo = S /\ w.batch = S /\ w.members = {}
    BY DEF NoFlush
  <2> HIDE DEF w
  <2> QED BY <2>2, <2>3 DEF FlushMove, Covers
<1>4. CASE MarkFlushing(f) \/ RecordFlushFailure(f)
  <2>1. PICK r \in v.todo, pc \in {"sdk", "mark", "pack", "fail"} :
          /\ flush' = [flush EXCEPT ![f] = [v EXCEPT !.todo = v.todo \ {r}, !.pc = pc]]
          /\ pc = "mark" => v.pc = "mark"
    <3>1. CASE MarkFlushing(f)
      <4>1. PICK r \in v.todo, pc \in {"sdk", "mark"} :
              flush' = [flush EXCEPT ![f] = [v EXCEPT !.todo = v.todo \ {r}, !.pc = pc]]
        BY <3>1, Zenon DEF MarkFlushing
      <4> QED BY <3>1, <4>1 DEF MarkFlushing, FlushAt
    <3>2. CASE RecordFlushFailure(f)
      <4>1. PICK r \in v.todo, pc \in {"pack", "fail"} :
              flush' = [flush EXCEPT ![f] = [v EXCEPT !.todo = v.todo \ {r}, !.pc = pc]]
        BY <3>2, Zenon DEF RecordFlushFailure
      <4> QED BY <4>1
    <3> QED BY <1>4, <3>1, <3>2
  <2>2. UNCHANGED staged
    BY <1>4 DEF MarkFlushing, RecordFlushFailure, diskVars
  <2> DEFINE w == [v EXCEPT !.todo = v.todo \ {r}, !.pc = pc]
  <2> HIDE DEF v
  <2>3. w.pc = pc /\ w.todo = v.todo \ {r} /\ w.batch = v.batch /\ w.members = v.members
    BY <1>1 DEF FlushRecords
  <2>4. flush' = [flush EXCEPT ![f] = w]
    BY <2>1
  <2> HIDE DEF w
  <2>5. Covers(v, staged) => Covers(w, staged')
    BY <2>1, <2>2, <2>3 DEF Covers
  <2> QED BY <2>1, <2>3, <2>4, <2>5 DEF FlushMove, v
<1>5. CASE EnsureSDK(f) \/ FlushReturn(f) \/ CrashFlush(f)
  <2> DEFINE w == [v EXCEPT !.pc = "pack"]
  <2>1. UNCHANGED staged /\ (flush' = [flush EXCEPT ![f] = NoFlush] \/ flush' = [flush EXCEPT ![f] = w])
    BY <1>5 DEF EnsureSDK, FlushReturn, CrashFlush, FlushTo, diskVars
  <2> HIDE DEF v
  <2>2. w.pc = "pack" /\ w.batch = v.batch /\ w.members = v.members
    BY <1>1 DEF FlushRecords
  <2> HIDE DEF w
  <2> QED BY <2>1, <2>2, IdleFlushMoves DEF FlushMove, Covers, v
<1>6. CASE UploadPackedGroup(f)
  <2> DEFINE to(g, pc, bad, good) ==
        flush' = [flush EXCEPT ![f] = [v EXCEPT !.batch = v.batch \ g, !.pc = pc,
                                                !.todo = bad, !.members = good]]
  <2>1. PICK g \in SUBSET v.batch :
          \/ to(g, "pack", {}, {})
          \/ \E r \in g : to(g, "fail", {r}, {})
          \/ to(g, "fail", g, {})
          \/ to(g, "pin", {}, g)
    BY <1>6, ZenonT(30) DEF UploadPackedGroup
  <2>2. UNCHANGED staged
    BY <1>6 DEF UploadPackedGroup, diskVars
  <2>3. PICK pc \in {"pack", "fail", "pin"}, bad, good \in SUBSET g : to(g, pc, bad, good)
    <3> HIDE DEF to, v
    <3>1. {} \in SUBSET g /\ g \in SUBSET g
      OBVIOUS
    <3> QED BY <2>1, <3>1, Zenon
  <2> DEFINE w == [v EXCEPT !.batch = v.batch \ g, !.pc = pc, !.todo = bad, !.members = good]
  <2>4. flush' = [flush EXCEPT ![f] = w]
    BY <2>3
  <2> HIDE DEF v, to
  <2>5. w.pc = pc /\ w.batch = v.batch \ g /\ w.members = good
    BY <1>1 DEF FlushRecords
  <2> HIDE DEF w
  <2>6. Covers(v, staged) => Covers(w, staged')
    BY <2>1, <2>2, <2>3, <2>5 DEF Covers
  <2> QED BY <2>3, <2>4, <2>5, <2>6 DEF FlushMove, v
<1>7. CASE PinObject(f)
  <2>1. UNCHANGED staged
    BY <1>7 DEF PinObject, diskVars
  <2>2. PICK r \in v.members :
          \/ flush' = [flush EXCEPT ![f] = [v EXCEPT !.pc = "finalize", !.row = r,
                                                     !.members = v.members \ {r}]]
          \/ FailMember(f, r)
    BY <1>7 DEF PinObject
  <2> DEFINE w == [v EXCEPT !.pc = "finalize", !.row = r, !.members = v.members \ {r}]
  <2>3. CASE FailMember(f, r)
    BY <1>2, <2>1, <2>3
  <2>4. CASE flush' = [flush EXCEPT ![f] = w]
    <3> HIDE DEF v
    <3>1. w.pc = "finalize" /\ w.row = r /\ w.members = v.members \ {r} /\ w.batch = v.batch
      BY <1>1 DEF FlushRecords
    <3> HIDE DEF w
    <3>2. Covers(v, staged) => Covers(w, staged')
      BY <2>1, <2>2, <3>1 DEF Covers
    <3> QED BY <2>4, <3>1, <3>2 DEF FlushMove, v
  <2> QED BY <2>2, <2>3, <2>4
<1>8. CASE FinalizeDurable(f)
  <2> DEFINE w == [v EXCEPT !.pc = "unlink"]
  <2>1. CASE FailMember(f, v.row) /\ UNCHANGED staged
    BY <1>2, <2>1
  <2>2. CASE /\ keyed' = keyed \cup {v.row} /\ staged' = staged \ {v.row}
             /\ flush' = [flush EXCEPT ![f] = w]
    <3>1. v.pc = "finalize"
      BY <1>8 DEF FinalizeDurable, FlushAt
    <3> HIDE DEF v
    <3>2. w.pc = "unlink" /\ w.row = v.row /\ w.members = v.members /\ w.batch = v.batch
      BY <1>1 DEF FlushRecords
    <3> HIDE DEF w
    <3>3. Covers(v, staged) => Covers(w, staged')
      BY <2>2, <3>1, <3>2 DEF Covers
    <3> QED BY <2>2, <3>2, <3>3 DEF FlushMove, v
  <2> QED BY <1>8, <2>1, <2>2 DEF FinalizeDurable, FlushTo
<1>9. CASE RemoveStagedBuffer(f)
  <2>1. PICK pc \in {"pack", "pin"} :
          flush' = [flush EXCEPT ![f] = [v EXCEPT !.row = NoRow, !.pc = pc]]
    BY <1>9, Zenon DEF RemoveStagedBuffer
  <2>2. UNCHANGED staged
    BY <1>9 DEF RemoveStagedBuffer
  <2> DEFINE w == [v EXCEPT !.row = NoRow, !.pc = pc]
  <2>3. flush' = [flush EXCEPT ![f] = w]
    BY <2>1
  <2> HIDE DEF v
  <2>4. w.pc = pc /\ w.members = v.members /\ w.batch = v.batch
    BY <1>1 DEF FlushRecords
  <2> HIDE DEF w
  <2> QED BY <2>2, <2>3, <2>4 DEF FlushMove, Covers, v
<1> QED BY <1>3, <1>4, <1>5, <1>6, <1>7, <1>8, <1>9 DEF FlushStep

-----------------------------------------------------------------------------
(* What a step does to keys, staged paths, buffers and statuses.           *)
StoreKept == UNCHANGED <<keyed, staged, buffers>>

Finalized(f) ==
  /\ keyed'  = keyed \cup {flush[f].row}
  /\ staged' = staged \ {flush[f].row}
  /\ UNCHANGED buffers

Unlinked(f) ==
  /\ flush[f].pc = "unlink"
  /\ buffers' = buffers \ {flush[f].row}
  /\ UNCHANGED <<keyed, staged>>

Waiting(r) == status[r] \in {"staged", "flushing"}

LEMMA OtherStore ==
  ASSUME OtherStep
  PROVE  StoreKept \/ \E f \in Processes : (FinalizeDurable(f) /\ Finalized(f)) \/ Unlinked(f)
<1>1. ASSUME NEW f \in Processes, FinalizeDurable(f) PROVE StoreKept \/ Finalized(f)
  BY <1>1 DEF FinalizeDurable, StoreKept, Finalized
<1>2. ASSUME NEW f \in Processes, RemoveStagedBuffer(f) PROVE StoreKept \/ Unlinked(f)
  BY <1>2 DEF RemoveStagedBuffer, FlushAt, StoreKept, Unlinked
<1>3. ASSUME NEW f \in Processes,
             \/ Flush(f) \/ MarkFlushing(f) \/ EnsureSDK(f) \/ UploadPackedGroup(f) \/ RecordFlushFailure(f)
             \/ PinObject(f) \/ FlushReturn(f) \/ CrashFlush(f) \/ \E p \in Paths : FlushPath(f, p)
      PROVE  StoreKept
  BY <1>3 DEF StoreKept, diskVars, Flush, FlushPath, BeginFlush, MarkFlushing, EnsureSDK, UploadPackedGroup,
     RecordFlushFailure, PinObject, FlushReturn, CrashFlush
<1>4. CASE (\E x \in Contents : Lose(x)) \/ FaultsStop \/ UNCHANGED vars
  BY <1>4 DEF StoreKept, diskVars, Lose, FaultsStop, vars
<1> QED BY <1>1, <1>2, <1>3, <1>4 DEF OtherStep, FlushStep

(* Only a flush that marks its snapshot makes a row wait.                  *)
LEMMA OtherStatus ==
  ASSUME TypeInv, OtherStep, NEW r \in 1..rows, Waiting(r)'
  PROVE  Waiting(r) \/ \E f \in Processes : flush[f].pc = "mark" /\ r \in flush[f].todo
<1>0. status \in [Rows -> Statuses] /\ r \in Rows
  BY MaxRowsAssumption DEF TypeInv, StoreType, TableType, Rows
<1>1. ASSUME NEW f \in Processes, MarkFlushing(f)
      PROVE  Waiting(r) \/ (flush[f].pc = "mark" /\ r \in flush[f].todo)
  <2>1. PICK q \in flush[f].todo : status' = [status EXCEPT ![q] = "flushing"] \/ UNCHANGED status
    BY <1>1 DEF MarkFlushing
  <2>2. flush[f].pc = "mark"
    BY <1>1 DEF MarkFlushing, FlushAt
  <2>3. r # q => status'[r] = status[r]
    BY <1>0, <2>1
  <2> QED BY <2>1, <2>2, <2>3 DEF Waiting
<1>2. ASSUME NEW f \in Processes, RecordFlushFailure(f) \/ FinalizeDurable(f)
      PROVE  Waiting(r)
  <2>1. \/ UNCHANGED status
        \/ \E q, t : t \in {"failed", "durable"} /\ status' = [status EXCEPT ![q] = t]
    BY <1>2 DEF RecordFlushFailure, FinalizeDurable
  <2>2. status'[r] \in {status[r], "failed", "durable"}
    BY <1>0, <2>1
  <2> QED BY <2>2 DEF Waiting
<1>3. CASE UNCHANGED status
  BY <1>3 DEF Waiting
<1>4. ASSUME NEW f \in Processes,
             \/ Flush(f) \/ EnsureSDK(f) \/ UploadPackedGroup(f) \/ RemoveStagedBuffer(f)
             \/ PinObject(f) \/ FlushReturn(f) \/ CrashFlush(f) \/ \E p \in Paths : FlushPath(f, p)
      PROVE  UNCHANGED status
  BY <1>4 DEF Flush, FlushPath, BeginFlush, EnsureSDK, UploadPackedGroup,
     RemoveStagedBuffer, PinObject, FlushReturn, CrashFlush
<1>5. CASE (\E x \in Contents : Lose(x)) \/ FaultsStop \/ UNCHANGED vars
  <2>1. UNCHANGED status
    BY <1>5 DEF Lose, FaultsStop, vars
  <2> QED BY <1>3, <2>1
<1> QED BY <1>1, <1>2, <1>3, <1>4, <1>5 DEF OtherStep, FlushStep

(* A client's step inserts a staged row with its buffer or a durable row   *)
(* with its key, or changes no more than one row's status.                 *)
LEMMA ClientStore ==
  ASSUME TypeInv, NEW c \in Clients, ClientStart(c) \/ ClientStep(c) \/ CrashClient(c)
  PROVE  \/ /\ rows' = rows + 1 /\ status' = [status EXCEPT ![rows + 1] = "staged"]
            /\ staged' = staged \cup {rows + 1} /\ buffers' = buffers \cup {rows + 1}
            /\ UNCHANGED keyed
         \/ /\ rows' = rows + 1 /\ status' = [status EXCEPT ![rows + 1] = "durable"]
            /\ keyed' = keyed \cup {rows + 1} /\ UNCHANGED <<staged, buffers>>
         \/ /\ StoreKept /\ UNCHANGED rows
            /\ UNCHANGED status \/ \E r, t : t \in {"failed", "durable"} /\ status' = [status EXCEPT ![r] = t]
<1>1. CASE \/ ClientStart(c) \/ StagedAdopt(c) \/ PutGaveUp(c) \/ VerifyObject(c) \/ ClearResolve(c)
           \/ Tombstone(c) \/ DeleteObject(c) \/ RestoreFetch(c) \/ RestorePin(c) \/ CrashClient(c)
  BY <1>1 DEF ClientStart, BuildPendingRecord, VerifyResolve, RemoveResolve, RestoreResolve, StagedAdopt,
     PutGaveUp, VerifyObject, ClearResolve, Tombstone, DeleteObject, RestoreFetch, RestorePin, CrashClient,
     StoreKept, rowVars, diskVars
<1>2. CASE MarkLost(c) \/ ClearLostStatus(c)
  <2>1. StoreKept /\ UNCHANGED rows
    BY <1>2 DEF MarkLost, ClearLostStatus, StoreKept, rowVars, diskVars
  <2>2. UNCHANGED status \/ \E r, t : t \in {"failed", "durable"} /\ status' = [status EXCEPT ![r] = t]
    BY <1>2 DEF MarkLost, ClearLostStatus
  <2> QED BY <2>1, <2>2
<1>3. CASE CommitFileRecord(c)
  BY <1>3 DEF CommitFileRecord, Insert, StoreKept, rowVars, diskVars
<1>4. CASE RestoreInsert(c)
  BY <1>4 DEF RestoreInsert, Insert, StoreKept, rowVars, diskVars
<1> QED BY <1>1, <1>2, <1>3, <1>4 DEF ClientStep

LEMMA ClientKeepsFlush ==
  ASSUME NEW c \in Clients, ClientStart(c) \/ ClientStep(c) \/ CrashClient(c)
  PROVE  UNCHANGED flush
BY DEF ClientStart, BuildPendingRecord, VerifyResolve, RemoveResolve, RestoreResolve, ClientStep,
   StagedAdopt, CommitFileRecord, PutGaveUp, VerifyObject, MarkLost, ClearResolve, ClearLostStatus,
   Tombstone, DeleteObject, RestoreFetch, RestorePin, RestoreInsert, CrashClient

(* Only a flush changes what flushes still have to do.                     *)
LEMMA OtherFlush ==
  ASSUME TypeInv, OtherStep
  PROVE  \/ UNCHANGED <<flush, keyed, staged, buffers>>
         \/ \E f \in Processes : \E w : FlushMove(f, w)
<1>1. CASE \E f \in Processes : FlushStep(f) \/ CrashFlush(f) \/ \E p \in Paths : FlushPath(f, p)
  BY <1>1, FlushMoves
<1>2. CASE (\E x \in Contents : Lose(x)) \/ FaultsStop \/ UNCHANGED vars
  BY <1>2 DEF diskVars, Lose, FaultsStop, vars
<1> QED BY <1>1, <1>2 DEF OtherStep

-----------------------------------------------------------------------------
(* Keys and buffers, for any number of flushing processes.                 *)
DiskInv == TableInv /\ KeyInv /\ UnlinksOnlyKeyed /\ AcceptedBytesKept

LEMMA DiskInit == Init => DiskInv
<1> SUFFICES ASSUME Init PROVE DiskInv
  OBVIOUS
<1>1. KeyInv
  BY IdleType DEF Init, KeyInv
<1>2. UnlinksOnlyKeyed
  BY IdleType DEF Init, UnlinksOnlyKeyed
<1>3. AcceptedBytesKept
  BY DEF Init, AcceptedBytesKept
<1> QED BY <1>1, <1>2, <1>3, TableInit DEF DiskInv

LEMMA NewRow ==
  ASSUME TypeInv
  PROVE  /\ rows + 1 \notin keyed \cup staged \cup buffers \cup deleted /\ rows + 1 \notin 1..rows
         /\ 1..(rows + 1) = (1..rows) \cup {rows + 1}
<1>1. rows \in Nat
  BY MaxRowsAssumption DEF TypeInv, TableType
<1>2. rows + 1 \notin 1..rows /\ 1..(rows + 1) = (1..rows) \cup {rows + 1}
  BY <1>1
<1> QED BY <1>2 DEF TypeInv, TableType, StoreType

LEMMA KeysOnlyGrow ==
  ASSUME [Next]_vars, TypeInv
  PROVE  keyed \subseteq keyed'
BY ClientStore, OtherStore, StepKinds DEF StoreKept, Finalized, Unlinked

LEMMA KeyStep ==
  ASSUME TableInv, KeyInv, [Next]_vars
  PROVE  KeyInv'
<1>0. TypeInv /\ RoomInv /\ AdoptInv
  BY DEF TableInv
<1>1. staged' \cap keyed' = {}
  <2>1. CASE \E c \in Clients : ClientStart(c) \/ ClientStep(c) \/ CrashClient(c)
    BY <1>0, <2>1, ClientStore, NewRow DEF StoreKept, KeyInv
  <2>2. CASE OtherStep
    BY <2>2, OtherStore DEF StoreKept, Finalized, Unlinked, KeyInv
  <2> QED BY <2>1, <2>2, StepKinds
<1>2. deleted' \subseteq keyed'
  <2>1. TableKept \/ \E c \in Clients : Tombstoned(c) \/ RowInserted(c)
    BY <1>0, TableStep
  <2>2. deleted' \subseteq deleted \/ \E c \in Clients : deleted' = deleted \cup {client[c].row} /\ client[c].row \in keyed
    BY <2>1 DEF TableKept, Tombstoned, RowInserted, KeyInv
  <2> QED BY <1>0, <2>2, KeysOnlyGrow DEF KeyInv
<1>3. \A r \in keyed : content'[r] = content[r]
  <2>1. TableKept \/ \E c \in Clients : Tombstoned(c) \/ RowInserted(c)
    BY <1>0, TableStep
  <2>2. keyed \subseteq 1..rows
    BY <1>0 DEF TypeInv, StoreType
  <2>3. ASSUME NEW c \in Clients, RowInserted(c) PROVE \A r \in 1..rows : content'[r] = content[r]
    BY <1>0, <2>3, TableAfterInsert
  <2> QED BY <2>1, <2>2, <2>3 DEF TableKept, Tombstoned, rowVars
<1>4. ASSUME NEW d \in Clients, client'[d].pc = "tombstone"
      PROVE  client'[d].row \in keyed' /\ client'[d].content = content'[client'[d].row]
  <2>1. CASE client'[d] = client[d]
    BY <1>0, <1>3, <1>4, <2>1, KeysOnlyGrow DEF KeyInv
  <2>2. ASSUME NEW w, ClientMove(d, w) PROVE client'[d].row \in keyed' /\ client'[d].content = content'[client'[d].row]
    <3>1. client'[d] = w
      BY <1>0, <2>2 DEF ClientMove, TypeInv, ClientLocals
    <3> QED BY <1>0, <1>3, <1>4, <2>2, <3>1, KeysOnlyGrow DEF ClientMove
  <2>3. ASSUME NEW c \in Clients, RowInserted(c) PROVE client'[d] = client[d]
    <3>1. client' = [client EXCEPT ![c] = Idle]
      BY <2>3 DEF RowInserted, Return
    <3>2. Idle.pc # "tombstone"
      <4>1. rows \in Nat
        BY <1>0, MaxRowsAssumption DEF TypeInv, TableType
      <4> QED BY <4>1, IdleType
    <3> QED BY <1>0, <1>4, <3>1, <3>2 DEF TypeInv, ClientLocals
  <2>4. ASSUME NEW c \in Clients, NEW w, ClientMove(c, w), c # d PROVE client'[d] = client[d]
    BY <1>0, <2>4 DEF ClientMove, TypeInv, ClientLocals
  <2>5. CASE OtherStep
    BY <2>1, <2>5, OtherSteps
  <2> QED BY <1>0, <2>1, <2>2, <2>3, <2>4, <2>5, ClientSteps, StepKinds
<1> QED BY <1>1, <1>2, <1>4 DEF KeyInv

LEMMA BytesStep ==
  ASSUME TypeInv, UnlinksOnlyKeyed, AcceptedBytesKept, [Next]_vars
  PROVE  UnlinksOnlyKeyed' /\ AcceptedBytesKept'
<1>1. ASSUME NEW c \in Clients, ClientStart(c) \/ ClientStep(c) \/ CrashClient(c)
      PROVE  UnlinksOnlyKeyed' /\ AcceptedBytesKept'
  <2>1. UnlinksOnlyKeyed'
    BY <1>1, ClientKeepsFlush, KeysOnlyGrow DEF UnlinksOnlyKeyed
  <2>2. AcceptedBytesKept'
    BY <1>1, ClientStore, NewRow DEF StoreKept, AcceptedBytesKept
  <2> QED BY <2>1, <2>2
<1>2. CASE OtherStep
  <2>1. UNCHANGED rows
    BY <1>2, OtherSteps DEF TableKept, rowVars
  <2>2. AcceptedBytesKept'
    BY <1>2, <2>1, OtherStore DEF StoreKept, Finalized, Unlinked, AcceptedBytesKept, UnlinksOnlyKeyed
  <2>3. ASSUME NEW f \in Processes, NEW w, FlushMove(f, w) PROVE UnlinksOnlyKeyed'
    <3>1. flush'[f] = w /\ \A g \in Processes \ {f} : flush'[g] = flush[g]
      BY <2>3 DEF FlushMove, TypeInv, FlushLocals
    <3> QED BY <2>3, <3>1, KeysOnlyGrow DEF FlushMove, UnlinksOnlyKeyed
  <2>4. UnlinksOnlyKeyed'
    BY <1>2, <2>3, OtherFlush DEF UnlinksOnlyKeyed
  <2> QED BY <2>2, <2>4
<1> QED BY <1>1, <1>2, StepKinds

LEMMA DiskInductive == DiskInv /\ [Next]_vars => DiskInv'
BY TableInductive, KeyStep, BytesStep DEF DiskInv, TableInv

(* A row is staged or has its object key, never both; Remove ends only a   *)
(* row with a key; a flush unlinks a buffer only after its row has its     *)
(* key.  So it is for every number of clients and of processes that flush  *)
(* one profile at once.                                                    *)
THEOREM DiskInvariant == Spec => []DiskInv
BY DiskInit, DiskInductive, PTL DEF Spec

(* An accepted Put is never lost between disk and indexer: until its row   *)
(* has an object key it names a buffer that is on disk, for every number   *)
(* of clients and of processes that flush the same profile at once.        *)
THEOREM BytesKept == Spec => []AcceptedBytesKept
<1>1. DiskInv => AcceptedBytesKept
  BY DEF DiskInv
<1> QED BY <1>1, DiskInvariant, PTL

-----------------------------------------------------------------------------
(* One process flushes.                                                    *)
OneProcess == \A f, g \in Processes : f = g

FlushingInv == DiskInv /\ FlushInv /\ WaitingRowIsFlushed /\ NoOrphanedObject

LEMMA FlushingInit == Init => FlushingInv
<1> SUFFICES ASSUME Init PROVE FlushingInv
  OBVIOUS
<1>1. FlushInv
  BY DEF Init, FlushInv, Covers, NoFlush
<1>2. WaitingRowIsFlushed /\ NoOrphanedObject
  BY DEF Init, WaitingRowIsFlushed, NoOrphanedObject
<1> QED BY <1>1, <1>2, DiskInit DEF FlushingInv

LEMMA FlushInvStep ==
  ASSUME OneProcess, TypeInv, FlushInv, [Next]_vars
  PROVE  FlushInv'
<1>1. ASSUME NEW c \in Clients, ClientStart(c) \/ ClientStep(c) \/ CrashClient(c)
      PROVE  FlushInv'
  <2>1. UNCHANGED flush /\ staged \subseteq staged'
    BY <1>1, ClientStore, ClientKeepsFlush DEF StoreKept
  <2> QED BY <2>1 DEF FlushInv, Covers
<1>2. CASE OtherStep
  <2>1. ASSUME NEW f \in Processes, NEW w, FlushMove(f, w) PROVE FlushInv'
    <3>1. flush'[f] = w /\ \A g \in Processes : g = f
      BY <2>1 DEF FlushMove, TypeInv, FlushLocals, OneProcess
    <3> QED BY <2>1, <3>1 DEF FlushMove, FlushInv
  <2> QED BY <1>2, <2>1, OtherFlush DEF FlushInv
<1> QED BY <1>1, <1>2, StepKinds

(* A staged row is live: only rows with a key are removed.                 *)
LEMMA StagedIsLive ==
  ASSUME TypeInv, KeyInv
  PROVE  staged \subseteq Live
BY DEF TypeInv, StoreType, KeyInv, Live

LEMMA WaitingStep ==
  ASSUME TypeInv, RoomInv, AdoptInv, KeyInv, KeyInv', TypeInv', FlushInv, WaitingRowIsFlushed, [Next]_vars
  PROVE  WaitingRowIsFlushed'
<1>1. SUFFICES ASSUME NEW r \in 1..rows', Waiting(r)' PROVE r \in staged'
  <2>1. staged' \subseteq Live'
    BY DEF TypeInv, StoreType, KeyInv, Live
  <2> QED BY <1>1, <2>1 DEF Waiting, WaitingRowIsFlushed
<1>2. \A q \in 1..rows : Waiting(q) => q \in staged
  BY DEF Waiting, WaitingRowIsFlushed
<1>3. rows \in Nat /\ status \in [Rows -> Statuses] /\ 1..rows \subseteq Rows /\ 1..rows' \subseteq Rows
  BY MaxRowsAssumption DEF TypeInv, StoreType, TableType, Rows
<1>4. ASSUME NEW c \in Clients, ClientStart(c) \/ ClientStep(c) \/ CrashClient(c)
      PROVE  r \in staged'
  <2>1. CASE /\ rows' = rows + 1 /\ status' = [status EXCEPT ![rows + 1] = "staged"]
             /\ staged' = staged \cup {rows + 1}
    <3>1. r \in 1..rows => Waiting(r)
      BY <1>1, <1>3, <2>1, NewRow DEF Waiting
    <3> QED BY <1>1, <1>2, <2>1, <3>1, NewRow
  <2>2. CASE /\ rows' = rows + 1 /\ status' = [status EXCEPT ![rows + 1] = "durable"]
             /\ UNCHANGED staged
    <3>1. r # rows + 1
      BY <1>1, <1>3, <2>2 DEF Waiting
    <3>2. r \in 1..rows /\ Waiting(r)
      BY <1>1, <1>3, <2>2, <3>1, NewRow DEF Waiting
    <3> QED BY <1>2, <2>2, <3>2
  <2>3. CASE /\ StoreKept /\ UNCHANGED rows
             /\ UNCHANGED status \/ \E q, t : t \in {"failed", "durable"} /\ status' = [status EXCEPT ![q] = t]
    <3>1. status'[r] \in {status[r], "failed", "durable"}
      BY <1>1, <1>3, <2>3
    <3>2. Waiting(r)
      BY <1>1, <3>1 DEF Waiting
    <3> QED BY <1>1, <1>2, <2>3, <3>2 DEF StoreKept
  <2> QED BY <1>4, <2>1, <2>2, <2>3, ClientStore
<1>5. CASE OtherStep
  <2>1. r \in 1..rows
    BY <1>1, <1>5, OtherSteps DEF TableKept, rowVars
  <2>2. r \in staged
    BY <1>1, <1>2, <1>5, <2>1, OtherStatus DEF FlushInv, Covers
  <2>3. ASSUME NEW f \in Processes, FinalizeDurable(f), r = flush[f].row, r \notin staged' PROVE FALSE
    <3>1. status' = [status EXCEPT ![r] = "durable"]
      BY <2>2, <2>3 DEF FinalizeDurable
    <3> QED BY <1>1, <1>3, <3>1 DEF Waiting
  <2>4. StoreKept \/ \E f \in Processes : (FinalizeDurable(f) /\ Finalized(f)) \/ Unlinked(f)
    BY <1>5, OtherStore
  <2> QED BY <2>2, <2>3, <2>4 DEF StoreKept, Finalized, Unlinked
<1> QED BY <1>4, <1>5, StepKinds

(* Where the object x is accounted for.                                    *)
Referenced(x) == \E r \in Live : content[r] = x /\ (r \in keyed \/ r \in staged)

Handled(x) == \E c \in Clients : client[c].pc \in {"delete", "insert"} /\ client[c].content = x

(* A reference is lost only when its row is removed.                       *)
LEMMA ReferencesKept ==
  ASSUME TableInv, [Next]_vars, NEW x, Referenced(x), UNCHANGED deleted
  PROVE  Referenced(x)'
<1>0. TypeInv /\ RoomInv /\ AdoptInv
  BY DEF TableInv
<1>1. \A r \in Live : r \in Live' /\ content'[r] = content[r]
  <2>1. CASE TableKept
    BY <2>1 DEF TableKept, rowVars, Live
  <2>2. ASSUME NEW c \in Clients, RowInserted(c) PROVE \A r \in Live : r \in Live' /\ content'[r] = content[r]
    <3>1. Live' = Live \cup {rows + 1} /\ \A r \in 1..rows : content'[r] = content[r]
      BY <1>0, <2>2, WinnersAfterInsert, TableAfterInsert
    <3> QED BY <3>1 DEF Live
  <2>3. ASSUME NEW c \in Clients, Tombstoned(c) PROVE \A r \in Live : r \in Live' /\ content'[r] = content[r]
    BY <2>3 DEF Tombstoned, rowVars, Live
  <2> QED BY <1>0, <2>1, <2>2, <2>3, TableStep
<1>2. keyed \cup staged \subseteq keyed' \cup staged'
  BY <1>0, ClientStore, OtherStore, StepKinds DEF StoreKept, Finalized, Unlinked
<1> QED BY <1>1, <1>2 DEF Referenced

LEMMA HandledKept ==
  ASSUME TypeInv, NEW x, Handled(x), NEW c \in Clients,
         \A d \in Clients \ {c} : client'[d] = client[d],
         client[c].pc \notin {"delete", "insert"}
  PROVE  Handled(x)'
BY DEF Handled

LEMMA OrphanStep ==
  ASSUME TableInv, KeyInv, FlushInv, NoOrphanedObject, [Next]_vars
  PROVE  NoOrphanedObject'
<1>0. TypeInv /\ RoomInv /\ AdoptInv
  BY DEF TableInv
<1>1. \A x \in pinned : Referenced(x) \/ Handled(x) \/ x \in leaked
  BY DEF NoOrphanedObject, Referenced, Handled
<1>2. SUFFICES ASSUME NEW x \in pinned' PROVE Referenced(x)' \/ Handled(x)' \/ x \in leaked'
  BY <1>2 DEF NoOrphanedObject, Referenced, Handled
<1>3. CASE OtherStep
  <2>1. TableKept /\ UNCHANGED client
    BY <1>3, OtherSteps
  <2>2. UNCHANGED leaked
    BY <1>3 DEF OtherStep, FlushStep, CrashFlush, FlushPath, Flush, BeginFlush, MarkFlushing, EnsureSDK,
       UploadPackedGroup, RecordFlushFailure, PinObject, FinalizeDurable, RemoveStagedBuffer,
       FlushReturn, Lose, FaultsStop, objVars, vars
  <2>3. x \in pinned \/ \E f \in Processes : \E r \in flush[f].members : x = content[r]
    BY <1>2, <1>3 DEF OtherStep, FlushStep, CrashFlush, FlushPath, Flush, BeginFlush, MarkFlushing, EnsureSDK,
       UploadPackedGroup, RecordFlushFailure, PinObject, FinalizeDurable, RemoveStagedBuffer,
       FlushReturn, Lose, FaultsStop, objVars, vars
  <2>4. (\E f \in Processes : \E r \in flush[f].members : x = content[r]) => Referenced(x)
    BY <1>0, StagedIsLive DEF FlushInv, Covers, Referenced
  <2>5. Handled(x) => Handled(x)'
    BY <2>1 DEF Handled
  <2>6. UNCHANGED deleted
    BY <2>1 DEF TableKept
  <2> QED BY <1>1, <2>2, <2>3, <2>4, <2>5, <2>6, ReferencesKept
<1>4. ASSUME NEW c \in Clients, ClientStart(c) \/ ClientStep(c) \/ CrashClient(c)
      PROVE  Referenced(x)' \/ Handled(x)' \/ x \in leaked'
  <2> DEFINE v == client[c]
  <2>1. /\ client \in [Clients -> ClientRecords(rows)]
        /\ \A d \in Clients \ {c} : client'[d] = client[d]
    <3>1. client \in [Clients -> ClientRecords(rows)]
      BY <1>0 DEF TypeInv, ClientLocals
    <3>2. \E w : client' = [client EXCEPT ![c] = w]
      BY <1>0, <1>4, ClientSteps DEF ClientMove, RowInserted, Return
    <3> QED BY <3>1, <3>2
  <2>2. v \in ClientShape(rows)
    BY <2>1 DEF ClientRecords
  (* The operation ends its clean-up or commit of v.content; the others go on. *)
  <2>3. ASSUME x \in pinned PROVE Referenced(x) \/ Handled(x)' \/ x \in leaked \/ (v.pc \in {"delete", "insert"} /\ v.content = x)
    BY <1>1, <2>1, <2>3 DEF Handled
  <2> DEFINE w == client'[c]
  <2>4. ASSUME w.pc \in {"delete", "insert"}, w.content = x PROVE Handled(x)'
    BY <2>4 DEF Handled
  <2>5. ASSUME NEW pc, Goto(c, pc) PROVE w.pc = pc /\ w.content = v.content
    <3>1. w = [v EXCEPT !.pc = pc]
      BY <2>1, <2>5 DEF Goto
    <3> HIDE DEF v, w
    <3> QED BY <2>2, <3>1 DEF ClientShape
  <2>6. CASE ClientStart(c)
    <3>1. v.pc = "idle" /\ UNCHANGED <<pinned, leaked, deleted>>
      BY <2>6 DEF ClientStart, BuildPendingRecord, VerifyResolve, RemoveResolve, RestoreResolve, At, objVars
    <3> QED BY <1>2, <2>3, <3>1, ReferencesKept
  <2>7. CASE \/ StagedAdopt(c) \/ CommitFileRecord(c) \/ PutGaveUp(c) \/ VerifyObject(c) \/ MarkLost(c)
             \/ ClearResolve(c) \/ ClearLostStatus(c) \/ RestoreFetch(c)
    <3>1. v.pc \notin {"delete", "insert"} /\ UNCHANGED <<pinned, leaked, deleted>>
      BY <2>7 DEF StagedAdopt, CommitFileRecord, PutGaveUp, VerifyObject, MarkLost, ClearResolve,
         ClearLostStatus, RestoreFetch, At, objVars
    <3> QED BY <1>2, <2>3, <3>1, ReferencesKept
  <2>8. CASE Tombstone(c)
    <3>1. v.pc = "tombstone" /\ UNCHANGED <<pinned, leaked, rows, content, keyed, staged>>
      BY <2>8 DEF Tombstone, At, objVars, rowVars, diskVars
    <3>2. v.content = content[v.row] /\ v.row \in keyed
      BY <3>1 DEF KeyInv
    <3>3. CASE UNCHANGED deleted
      BY <1>2, <2>3, <3>1, <3>3, ReferencesKept
    <3>4. CASE /\ deleted' = deleted \cup {v.row}
               /\ IF References(v.content) \ {v.row} = {} THEN Goto(c, "delete") ELSE Return(c)
      <4>1. Live' = Live \ {v.row}
        BY <3>1, <3>4 DEF Live
      <4>2. CASE x # v.content
        <5>1. Referenced(x) => Referenced(x)'
          BY <3>1, <3>2, <4>1, <4>2 DEF Referenced
        <5> QED BY <1>2, <2>3, <3>1, <4>2, <5>1
      <4>3. CASE x = v.content /\ References(v.content) \ {v.row} = {}
        BY <2>4, <2>5, <3>4, <4>3
      <4>4. CASE x = v.content /\ References(v.content) \ {v.row} # {}
        <5>1. Referenced(x)'
          BY <3>1, <4>1, <4>4 DEF Referenced, References
        <5> QED BY <5>1
      <4> QED BY <4>2, <4>3, <4>4
    <3> QED BY <2>8, <3>3, <3>4 DEF Tombstone
  <2>9. CASE DeleteObject(c)
    <3>1. /\ UNCHANGED deleted /\ leaked \subseteq leaked' /\ x \in pinned
          /\ x \in leaked' \/ x # v.content
      BY <1>2, <2>9 DEF DeleteObject
    <3> QED BY <2>3, <3>1, ReferencesKept
  <2>10. CASE RestorePin(c)
    <3>1. v.pc = "repin" /\ UNCHANGED <<deleted, leaked>>
      BY <2>10 DEF RestorePin, At
    <3>2. CASE UNCHANGED pinned
      BY <1>2, <2>3, <3>1, <3>2, ReferencesKept
    <3>3. CASE pinned' = pinned \cup {v.content} /\ Goto(c, "insert")
      BY <1>2, <2>3, <2>4, <2>5, <3>1, <3>3, ReferencesKept
    <3> QED BY <2>10, <3>2, <3>3 DEF RestorePin
  <2>11. CASE RestoreInsert(c)
    <3>1. v.pc = "insert" /\ UNCHANGED <<deleted, pinned>> /\ leaked \subseteq leaked'
      BY <2>11 DEF RestoreInsert, At
    <3>2. CASE leaked' = leaked \cup {v.content}
      BY <1>2, <2>3, <3>1, <3>2, ReferencesKept
    <3>3. CASE Insert(v.path, v.uuid, v.content, v.seq) /\ keyed' = keyed \cup {rows + 1}
      <4>1. v.seq \in Nat /\ v.current = FALSE /\ Return(c)
        BY <2>1, <2>2, <2>11, <3>1 DEF RestoreInsert, ClientShape, ClientRecords
      <4>2. RowInserted(c)
        BY <3>1, <3>3, <4>1 DEF RowInserted
      <4>3. rows + 1 \in Live' /\ content'[rows + 1] = v.content
        BY <1>0, <4>2, WinnersAfterInsert, TableAfterInsert
      <4>4. x = v.content => Referenced(x)'
        BY <3>3, <4>3 DEF Referenced
      <4> QED BY <1>2, <2>3, <3>1, <4>4, ReferencesKept
    <3> QED BY <2>11, <3>2, <3>3 DEF RestoreInsert
  <2>12. CASE CrashClient(c)
    <3>1. /\ UNCHANGED <<deleted, pinned>> /\ leaked \subseteq leaked'
          /\ v.pc \in {"delete", "insert"} => v.content \in leaked'
      BY <2>12 DEF CrashClient
    <3> QED BY <1>2, <2>3, <3>1, ReferencesKept
  <2> QED BY <1>4, <2>6, <2>7, <2>8, <2>9, <2>10, <2>11, <2>12 DEF ClientStep
<1> QED BY <1>3, <1>4, StepKinds

LEMMA FlushingInductive ==
  ASSUME OneProcess
  PROVE  FlushingInv /\ [Next]_vars => FlushingInv'
<1> SUFFICES ASSUME FlushingInv, [Next]_vars PROVE FlushingInv'
  OBVIOUS
<1>1. DiskInv /\ FlushInv /\ WaitingRowIsFlushed /\ NoOrphanedObject
  BY DEF FlushingInv
<1>2. TableInv /\ KeyInv /\ TypeInv /\ RoomInv /\ AdoptInv
  BY <1>1 DEF DiskInv, TableInv
<1>3. DiskInv'
  BY <1>1, DiskInductive
<1>4. TypeInv' /\ KeyInv'
  BY <1>3 DEF DiskInv, TableInv
<1>5. FlushInv'
  BY <1>1, <1>2, FlushInvStep
<1>6. WaitingRowIsFlushed' /\ NoOrphanedObject'
  BY <1>1, <1>2, <1>4, WaitingStep, OrphanStep
<1> QED BY <1>3, <1>5, <1>6 DEF FlushingInv

LEMMA FlushingInvariant ==
  ASSUME OneProcess
  PROVE  Spec => []FlushingInv
BY FlushingInit, FlushingInductive, PTL DEF Spec

(* While one process flushes, no row is stuck on staged or flushing: every *)
(* row that claims so is live and staged, and the next Flush picks it up,  *)
(* whatever failed or crashed in between (markFlushing, finalizeDurable,   *)
(* recordFlushFailure).                                                    *)
THEOREM WaitingRowsAreFlushed ==
  ASSUME OneProcess
  PROVE  Spec => []WaitingRowIsFlushed
<1>1. FlushingInv => WaitingRowIsFlushed
  BY DEF FlushingInv
<1> QED BY <1>1, FlushingInvariant, PTL

(* While one process flushes, Remove never leaves an object on the indexer *)
(* that no row references and no operation is about to reference or to     *)
(* delete, unless its clean-up failed or was cut short (vault_service.go,  *)
(* Remove and VersionRestore).                                             *)
THEOREM NoObjectIsOrphaned ==
  ASSUME OneProcess
  PROVE  Spec => []NoOrphanedObject
<1>1. FlushingInv => NoOrphanedObject
  BY DEF FlushingInv
<1> QED BY <1>1, FlushingInvariant, PTL

-----------------------------------------------------------------------------
(* What two defects amount to: each property below fails in the code, by   *)
(* the one step that the theorem's hypothesis rules out and by no other.   *)

(* The check that the UPDATE of clearLostStatus lacks.                     *)
ClearsOnlyKeyed == \A c \in Clients : ClearLostStatus(c) => client[c].row \in keyed

DurableInv == \A r \in 1..rows : status[r] = "durable" => r \in keyed

LEMMA DurableStep ==
  ASSUME TypeInv, TypeInv', DurableInv, [Next]_vars, ClearsOnlyKeyed
  PROVE  DurableInv'
<1>0. /\ rows \in Nat /\ status \in [Rows -> Statuses] /\ 1..rows \subseteq Rows
      /\ rows' = rows + 1 => rows + 1 \in Rows
  BY MaxRowsAssumption DEF TypeInv, StoreType, TableType, Rows
<1>1. keyed \subseteq keyed'
  BY KeysOnlyGrow
<1>2. ASSUME UNCHANGED rows, NEW q, NEW t, status' = [status EXCEPT ![q] = t],
             t = "durable" => q \in keyed'
      PROVE  DurableInv'
  <2>1. \A r \in 1..rows : status'[r] = status[r] \/ (r = q /\ status'[r] = t)
    BY <1>0, <1>2
  <2> QED BY <1>1, <1>2, <2>1 DEF DurableInv
<1>3. CASE UNCHANGED <<rows, status>>
  BY <1>1, <1>3 DEF DurableInv
<1>4. ASSUME rows' = rows + 1, NEW t, status' = [status EXCEPT ![rows + 1] = t],
             t = "durable" => rows + 1 \in keyed'
      PROVE  DurableInv'
  <2>1. status'[rows + 1] = t /\ \A r \in 1..rows : status'[r] = status[r]
    BY <1>0, <1>4, NewRow
  <2> QED BY <1>1, <1>4, <2>1, NewRow DEF DurableInv
<1>5. ASSUME NEW c \in Clients, ClientStart(c) \/ ClientStep(c) \/ CrashClient(c)
      PROVE  DurableInv'
  <2>1. CASE ClearLostStatus(c)
    <3>1. UNCHANGED <<rows, keyed>> /\ client[c].row \in keyed
      BY <2>1 DEF ClearLostStatus, ClearsOnlyKeyed, rowVars
    <3>2. status' = [status EXCEPT ![client[c].row] = "durable"] \/ UNCHANGED status
      BY <2>1 DEF ClearLostStatus
    <3> QED BY <1>2, <1>3, <3>1, <3>2
  <2>2. CASE MarkLost(c)
    <3>1. UNCHANGED rows
      BY <2>2 DEF MarkLost, rowVars
    <3>2. status' = [status EXCEPT ![client[c].row] = "failed"] \/ UNCHANGED status
      BY <2>2 DEF MarkLost
    <3> QED BY <1>2, <1>3, <3>1, <3>2
  <2>3. CASE CommitFileRecord(c)
    <3>1. \/ rows' = rows + 1 /\ status' = [status EXCEPT ![rows + 1] = "staged"]
          \/ UNCHANGED <<rows, status>>
      BY <2>3 DEF CommitFileRecord, Insert, rowVars
    <3> QED BY <1>3, <1>4, <3>1
  <2>4. CASE RestoreInsert(c)
    <3>1. \/ /\ rows' = rows + 1 /\ status' = [status EXCEPT ![rows + 1] = "durable"]
             /\ keyed' = keyed \cup {rows + 1}
          \/ UNCHANGED <<rows, status>>
      BY <2>4 DEF RestoreInsert, Insert, rowVars
    <3> QED BY <1>3, <1>4, <3>1
  <2>5. CASE \/ ClientStart(c) \/ StagedAdopt(c) \/ PutGaveUp(c) \/ VerifyObject(c) \/ ClearResolve(c)
             \/ Tombstone(c) \/ DeleteObject(c) \/ RestoreFetch(c) \/ RestorePin(c) \/ CrashClient(c)
    <3>1. UNCHANGED <<rows, status>>
      BY <2>5 DEF ClientStart, BuildPendingRecord, VerifyResolve, RemoveResolve, RestoreResolve,
         StagedAdopt, PutGaveUp, VerifyObject, ClearResolve, Tombstone, DeleteObject, RestoreFetch,
         RestorePin, CrashClient, rowVars
    <3> QED BY <1>3, <3>1
  <2> QED BY <1>5, <2>1, <2>2, <2>3, <2>4, <2>5 DEF ClientStep
<1>6. CASE OtherStep
  <2>1. UNCHANGED rows
    BY <1>6, OtherSteps DEF TableKept, rowVars
  <2>2. ASSUME NEW f \in Processes, MarkFlushing(f) \/ RecordFlushFailure(f)
        PROVE  DurableInv'
    <3>1. \/ UNCHANGED status
          \/ \E q, t : t \in {"flushing", "failed"} /\ status' = [status EXCEPT ![q] = t]
      BY <2>2 DEF MarkFlushing, RecordFlushFailure
    <3> QED BY <1>2, <1>3, <2>1, <3>1
  <2>3. ASSUME NEW f \in Processes, FinalizeDurable(f) PROVE DurableInv'
    <3>1. \/ UNCHANGED status
          \/ /\ status' = [status EXCEPT ![flush[f].row] = "durable"]
             /\ keyed' = keyed \cup {flush[f].row}
      BY <2>3 DEF FinalizeDurable
    <3> QED BY <1>2, <1>3, <2>1, <3>1
  <2>4. ASSUME NEW f \in Processes,
               \/ Flush(f) \/ EnsureSDK(f) \/ UploadPackedGroup(f) \/ RemoveStagedBuffer(f)
               \/ PinObject(f) \/ FlushReturn(f) \/ CrashFlush(f) \/ \E p \in Paths : FlushPath(f, p)
        PROVE  UNCHANGED status
    BY <2>4 DEF Flush, FlushPath, BeginFlush, EnsureSDK, UploadPackedGroup,
       RemoveStagedBuffer, PinObject, FlushReturn, CrashFlush
  <2>5. CASE (\E x \in Contents : Lose(x)) \/ FaultsStop \/ UNCHANGED vars
    <3>1. UNCHANGED status
      BY <2>5 DEF Lose, FaultsStop, vars
    <3> QED BY <1>3, <2>1, <3>1
  <2> QED BY <1>3, <1>6, <2>1, <2>2, <2>3, <2>4, <2>5 DEF OtherStep, FlushStep
<1> QED BY <1>5, <1>6, StepKinds

(* FileStatusDurable means what service.go:45 says, whatever fails or      *)
(* races, but for clearLostStatus (vault_service.go:986): if the row that  *)
(* it resolves anew after its indexer call had to have an object key, a    *)
(* durable row would always have one, with any number of clients and       *)
(* flushing processes.                                                     *)
THEOREM OnlyClearBreaksDurable == Spec /\ [][ClearsOnlyKeyed]_vars => []DurableHasObject
<1>1. Init => TableInv /\ DurableInv
  <2>1. Init => DurableInv
    BY DEF Init, DurableInv
  <2> QED BY <2>1, TableInit
<1>2. TableInv /\ DurableInv /\ [Next]_vars /\ [ClearsOnlyKeyed]_vars => (TableInv /\ DurableInv)'
  <2> SUFFICES ASSUME TableInv, DurableInv, [Next]_vars, [ClearsOnlyKeyed]_vars
               PROVE  TableInv' /\ DurableInv'
    OBVIOUS
  <2>1. TableInv' /\ TypeInv /\ TypeInv'
    BY TableInductive DEF TableInv
  <2>2. CASE ClearsOnlyKeyed
    BY <2>1, <2>2, DurableStep
  <2>3. CASE UNCHANGED vars
    BY <2>1, <2>3 DEF vars, rowVars, DurableInv
  <2> QED BY <2>1, <2>2, <2>3
<1>3. DurableInv => DurableHasObject
  BY DEF DurableInv, DurableHasObject, Live
<1> QED BY <1>1, <1>2, <1>3, PTL DEF Spec

(* The object x is referenced by a live row, or a flush or a restore has   *)
(* pinned it and is about to commit a row that references it.              *)
Needed(x) ==
  \/ References(x) # {}
  \/ \E f \in Processes : FlushAt(f, "finalize") /\ content[flush[f].row] = x
  \/ \E c \in Clients : At(c, "insert") /\ client[c].content = x

(* The second look that Remove does not take.                              *)
DeletesOnlyUnneeded ==
  \A c \in Clients : DeleteObject(c) => UNCHANGED pinned \/ ~Needed(client[c].content)

NeededInv == \A x \in Contents : Needed(x) => x \in pinned \cup lost

(* A flush is about to commit only what it has pinned.                     *)
LEMMA FinalizesPinned ==
  ASSUME TypeInv, NEW f \in Processes, flush'[f].pc = "finalize",
         FlushStep(f) \/ CrashFlush(f) \/ \E p \in Paths : FlushPath(f, p)
  PROVE  flush'[f].row \in 1..rows /\ content[flush'[f].row] \in pinned'
<1>0. flush \in [Processes -> FlushRecords(rows)] /\ flush[f] \in FlushRecords(rows)
  BY DEF TypeInv, FlushLocals
<1>1. ASSUME NEW pc, FlushTo(f, pc) PROVE pc = "finalize"
  BY <1>0, <1>1 DEF FlushTo, FlushRecords
<1>2. NoFlush.pc = "idle"
  BY DEF NoFlush
<1>3. ASSUME flush' = [flush EXCEPT ![f] = NoFlush] PROVE FALSE
  BY <1>0, <1>2, <1>3
<1>4. ASSUME NEW r, FailMember(f, r) PROVE FALSE
  BY <1>0, <1>4 DEF FailMember, FlushRecords
<1>5. ~Flush(f) /\ ~ \E p \in Paths : FlushPath(f, p)
  BY <1>0 DEF Flush, FlushPath, BeginFlush, NoFlush
<1>6. ~MarkFlushing(f) /\ ~RecordFlushFailure(f)
  <2>1. ASSUME NEW r, NEW pc \in {"sdk", "mark", "pack", "fail"},
               flush' = [flush EXCEPT ![f] = [@ EXCEPT !.todo = flush[f].todo \ {r}, !.pc = pc]]
        PROVE  FALSE
    BY <1>0, <2>1 DEF FlushRecords
  <2>2. ~MarkFlushing(f)
    <3> SUFFICES ASSUME MarkFlushing(f) PROVE FALSE
      OBVIOUS
    <3>1. PICK r \in flush[f].todo, pc \in {"sdk", "mark"} :
            flush' = [flush EXCEPT ![f] = [@ EXCEPT !.todo = flush[f].todo \ {r}, !.pc = pc]]
      BY Zenon DEF MarkFlushing
    <3> QED BY <2>1, <3>1
  <2>3. ~RecordFlushFailure(f)
    <3> SUFFICES ASSUME RecordFlushFailure(f) PROVE FALSE
      OBVIOUS
    <3>1. PICK r \in flush[f].todo, pc \in {"pack", "fail"} :
            flush' = [flush EXCEPT ![f] = [@ EXCEPT !.todo = flush[f].todo \ {r}, !.pc = pc]]
      BY Zenon DEF RecordFlushFailure
    <3> QED BY <2>1, <3>1
  <2> QED BY <2>2, <2>3
<1>7. ~EnsureSDK(f) /\ ~FlushReturn(f) /\ ~CrashFlush(f)
  BY <1>1, <1>3 DEF EnsureSDK, FlushReturn, CrashFlush
<1>8. ~UploadPackedGroup(f)
  <2>1. ASSUME NEW g, NEW pc \in {"pack", "fail", "pin"}, NEW bad, NEW good,
               flush' = [flush EXCEPT ![f] = [@ EXCEPT !.batch = flush[f].batch \ g, !.pc = pc,
                                                       !.todo = bad, !.members = good]]
        PROVE  FALSE
    BY <1>0, <2>1 DEF FlushRecords
  <2>2. UploadPackedGroup(f) =>
          \E g, bad, good : \E pc \in {"pack", "fail", "pin"} :
            flush' = [flush EXCEPT ![f] = [@ EXCEPT !.batch = flush[f].batch \ g, !.pc = pc,
                                                    !.todo = bad, !.members = good]]
    BY ZenonT(30) DEF UploadPackedGroup
  <2> QED BY <2>1, <2>2
<1>9. ~FinalizeDurable(f)
  BY <1>1, <1>4 DEF FinalizeDurable
<1>10. ~RemoveStagedBuffer(f)
  <2> SUFFICES ASSUME RemoveStagedBuffer(f) PROVE FALSE
    OBVIOUS
  <2>1. PICK pc \in {"pack", "pin"} : flush' = [flush EXCEPT ![f] = [@ EXCEPT !.row = NoRow, !.pc = pc]]
    BY Zenon DEF RemoveStagedBuffer
  <2> QED BY <1>0, <2>1 DEF FlushRecords
<1>11. CASE PinObject(f)
  <2>1. PICK r \in flush[f].members :
          /\ pinned' = pinned \cup {content[r]}
          /\ flush'  = [flush EXCEPT ![f] = [@ EXCEPT !.pc = "finalize", !.row = r,
                                                      !.members = flush[f].members \ {r}]]
    BY <1>4, <1>11 DEF PinObject
  <2>2. flush'[f].row = r /\ r \in 1..rows
    BY <1>0, <2>1 DEF FlushRecords
  <2> QED BY <2>1, <2>2
<1> QED BY <1>5, <1>6, <1>7, <1>8, <1>9, <1>10, <1>11 DEF FlushStep

(* What a client's step does to the objects and to what needs them.        *)
LEMMA ClientObjects ==
  ASSUME TypeInv, NEW c \in Clients, ClientStart(c) \/ ClientStep(c) \/ CrashClient(c)
  PROVE  /\ \/ pinned \cup lost \subseteq pinned' \cup lost'
            \/ DeleteObject(c) /\ pinned' = pinned \ {client[c].content} /\ lost' = lost
         /\ client'[c].pc = "insert" => client'[c].content \in pinned'
<1>0. rows \in Nat /\ client \in [Clients -> ClientRecords(rows)]
  BY MaxRowsAssumption DEF TypeInv, TableType, ClientLocals
<1>1. client[c] \in ClientShape(rows) /\ Idle.pc = "idle"
  BY <1>0, ClientFields, IdleType
<1>2. ASSUME Return(c) PROVE client'[c].pc # "insert"
  BY <1>0, <1>1, <1>2 DEF Return
<1>3. ASSUME NEW pc, Goto(c, pc) PROVE client'[c].pc = pc /\ client'[c].content = client[c].content
  BY <1>0, <1>1, <1>3 DEF Goto, ClientShape
<1>4. CASE ClientStart(c)
  <2>1. UNCHANGED <<pinned, lost>>
    BY <1>4 DEF ClientStart, BuildPendingRecord, VerifyResolve, RemoveResolve, RestoreResolve, objVars
  <2>2. ASSUME NEW p \in Paths, VerifyResolve(c, p) \/ RemoveResolve(c, p) PROVE client'[c].pc # "insert"
    BY <1>0, <2>2 DEF VerifyResolve, RemoveResolve, Idle
  <2>3. ASSUME NEW p \in Paths, NEW r \in Rows, RestoreResolve(c, p, r) PROVE client'[c].pc # "insert"
    BY <1>0, <2>3 DEF RestoreResolve, Idle
  <2>4. ASSUME NEW p \in Paths, NEW x \in Contents, BuildPendingRecord(c, p, x)
        PROVE  client'[c].pc # "insert"
    BY <1>0, <2>4 DEF BuildPendingRecord
  <2> QED BY <1>4, <2>1, <2>2, <2>3, <2>4 DEF ClientStart
<1>5. CASE StagedAdopt(c)
  <2>1. UNCHANGED <<pinned, lost>>
    BY <1>5 DEF StagedAdopt, objVars
  <2>2. \/ client' = [client EXCEPT ![c] = [@ EXCEPT !.pc = "commit"]]
        \/ client' = [client EXCEPT ![c] = [@ EXCEPT !.pc = "commit", !.current = FALSE,
                                              !.uuid = uuid[FindCurrentFile(client[c].path)]]]
    BY <1>5 DEF StagedAdopt, AdoptWinner, Goto
  <2>3. client'[c].pc = "commit"
    BY <1>0, <1>1, <2>2 DEF ClientShape
  <2> QED BY <2>1, <2>3
<1>6. CASE CommitFileRecord(c)
  <2>1. UNCHANGED <<pinned, lost>>
    BY <1>6 DEF CommitFileRecord, objVars
  <2>2. ASSUME NEW s, NEW t, NEW pc \in {"adopt", "gaveUp"},
               client' = [client EXCEPT ![c] = [@ EXCEPT !.seq = s, !.tries = t, !.pc = pc]]
        PROVE  client'[c].pc # "insert"
    BY <1>0, <1>1, <2>2 DEF ClientShape
  <2>3. Return(c) \/ \E s, t : \E pc \in {"adopt", "gaveUp"} :
          client' = [client EXCEPT ![c] = [@ EXCEPT !.seq = s, !.tries = t, !.pc = pc]]
    BY <1>6, ZenonT(30) DEF CommitFileRecord
  <2> QED BY <1>2, <2>1, <2>2, <2>3
<1>7. CASE ClearResolve(c)
  <2>1. UNCHANGED <<pinned, lost>>
    BY <1>7 DEF ClearResolve, objVars
  <2>2. \/ Return(c)
        \/ client' = [client EXCEPT ![c] = [@ EXCEPT !.pc = "clearWrite",
                                                     !.row = FindCurrentFile(client[c].path)]]
    BY <1>7 DEF ClearResolve
  <2>3. client'[c].pc # "insert"
    BY <1>0, <1>1, <1>2, <2>2 DEF ClientShape
  <2> QED BY <2>1, <2>3
<1>8. CASE \/ PutGaveUp(c) \/ MarkLost(c) \/ ClearLostStatus(c) \/ RestoreInsert(c) \/ CrashClient(c)
           \/ VerifyObject(c) \/ Tombstone(c) \/ RestoreFetch(c)
  <2>1. UNCHANGED <<pinned, lost>>
    BY <1>8 DEF PutGaveUp, MarkLost, ClearLostStatus, RestoreInsert, CrashClient, VerifyObject,
       Tombstone, RestoreFetch, objVars
  <2>2. Return(c) \/ Goto(c, "clear") \/ Goto(c, "markLost") \/ Goto(c, "delete") \/ Goto(c, "repin")
    BY <1>8 DEF PutGaveUp, MarkLost, ClearLostStatus, RestoreInsert, CrashClient, VerifyObject,
       Tombstone, RestoreFetch
  <2>3. client'[c].pc # "insert"
    BY <1>2, <1>3, <2>2
  <2> QED BY <2>1, <2>3
<1>9. CASE DeleteObject(c)
  <2>1. client'[c].pc # "insert"
    BY <1>2, <1>9 DEF DeleteObject
  <2> QED BY <1>9, <2>1 DEF DeleteObject
<1>10. CASE RestorePin(c)
  <2>1. CASE Return(c) /\ UNCHANGED <<pinned, lost>>
    BY <1>2, <2>1
  <2>2. CASE /\ pinned' = pinned \cup {client[c].content}
             /\ lost'   = lost \ {client[c].content}
             /\ Goto(c, "insert")
    BY <1>3, <2>2
  <2> QED BY <1>10, <2>1, <2>2 DEF RestorePin
<1> QED BY <1>4, <1>5, <1>6, <1>7, <1>8, <1>9, <1>10 DEF ClientStep

LEMMA OtherObjects ==
  ASSUME OtherStep
  PROVE  pinned \cup lost \subseteq pinned' \cup lost'
<1>1. ASSUME NEW f \in Processes,
             \/ Flush(f) \/ MarkFlushing(f) \/ EnsureSDK(f) \/ UploadPackedGroup(f) \/ RecordFlushFailure(f)
             \/ FinalizeDurable(f) \/ RemoveStagedBuffer(f) \/ FlushReturn(f) \/ CrashFlush(f)
             \/ \E p \in Paths : FlushPath(f, p)
      PROVE  UNCHANGED <<pinned, lost>>
  BY <1>1 DEF Flush, FlushPath, BeginFlush, MarkFlushing, EnsureSDK, UploadPackedGroup, RecordFlushFailure,
     FinalizeDurable, RemoveStagedBuffer, FlushReturn, CrashFlush, objVars
<1>2. ASSUME NEW f \in Processes, PinObject(f) PROVE pinned \cup lost \subseteq pinned' \cup lost'
  BY <1>2 DEF PinObject
<1>3. CASE (\E x \in Contents : Lose(x)) \/ FaultsStop \/ UNCHANGED vars
  BY <1>3 DEF Lose, FaultsStop, vars, objVars
<1> QED BY <1>1, <1>2, <1>3 DEF OtherStep, FlushStep

(* A row gets its object key from a restore or from a flush that pinned it. *)
LEMMA KeyedBy ==
  ASSUME TypeInv, [Next]_vars, NEW r \in keyed', r \notin keyed
  PROVE  \/ \E c \in Clients : At(c, "insert") /\ RowInserted(c) /\ r = rows + 1
         \/ \E f \in Processes : FlushAt(f, "finalize") /\ r = flush[f].row /\ UNCHANGED content
<1>1. ASSUME NEW c \in Clients, RestoreInsert(c)
      PROVE  At(c, "insert") /\ RowInserted(c) /\ r = rows + 1
  <2>1. Insert(client[c].path, client[c].uuid, client[c].content, client[c].seq) /\ r = rows + 1
    BY <1>1 DEF RestoreInsert
  <2>2. client[c] \in ClientRecords(rows) /\ client[c] \in ClientShape(rows)
    BY DEF TypeInv, ClientLocals, ClientRecords
  <2>3. At(c, "insert") /\ client[c].pc = "insert" /\ Return(c) /\ UNCHANGED deleted
    BY <1>1 DEF RestoreInsert, At
  <2>4. client[c].seq \in Nat /\ client[c].current = FALSE
    BY <2>2, <2>3 DEF ClientShape, ClientRecords
  <2> QED BY <2>1, <2>3, <2>4 DEF RowInserted
<1>2. ASSUME NEW c \in Clients,
             \/ ClientStart(c) \/ StagedAdopt(c) \/ CommitFileRecord(c) \/ PutGaveUp(c) \/ VerifyObject(c)
             \/ MarkLost(c) \/ ClearResolve(c) \/ ClearLostStatus(c) \/ Tombstone(c) \/ DeleteObject(c)
             \/ RestoreFetch(c) \/ RestorePin(c) \/ CrashClient(c)
      PROVE  UNCHANGED keyed
  BY <1>2 DEF ClientStart, BuildPendingRecord, VerifyResolve, RemoveResolve, RestoreResolve, StagedAdopt,
     CommitFileRecord, PutGaveUp, VerifyObject, MarkLost, ClearResolve, ClearLostStatus, Tombstone,
     DeleteObject, RestoreFetch, RestorePin, CrashClient
<1>3. CASE OtherStep
  <2>1. UNCHANGED content
    BY <1>3, OtherSteps DEF TableKept, rowVars
  <2>2. PICK f \in Processes : FinalizeDurable(f) /\ Finalized(f)
    BY <1>3, OtherStore DEF StoreKept, Unlinked
  <2> QED BY <2>1, <2>2 DEF FinalizeDurable, Finalized
<1> QED BY <1>1, <1>2, <1>3, StepKinds DEF ClientStep

LEMMA RowsKept ==
  ASSUME TypeInv, RoomInv, AdoptInv, [Next]_vars
  PROVE  deleted \subseteq deleted' /\ \A r \in 1..rows : content'[r] = content[r]
BY TableStep, TableAfterInsert DEF TableKept, Tombstoned, RowInserted, rowVars

(* An object comes to be needed only by being pinned.                      *)
LEMMA NeededFrom ==
  ASSUME TypeInv, RoomInv, AdoptInv, [Next]_vars, NEW x, Needed(x)'
  PROVE  Needed(x) \/ x \in pinned'
<1>1. ASSUME NEW r, r \in References(x)' PROVE Needed(x)
  <2>1. r \in keyed' /\ r \notin deleted' /\ content'[r] = x
    BY <1>1 DEF References, Live
  <2>2. CASE r \in keyed
    <3>1. r \in 1..rows
      BY <2>2 DEF TypeInv, StoreType
    <3>2. r \in References(x)
      BY <2>1, <2>2, <3>1, RowsKept DEF References, Live
    <3> QED BY <3>2 DEF Needed
  <2>3. ASSUME NEW c \in Clients, At(c, "insert"), RowInserted(c), r = rows + 1 PROVE Needed(x)
    BY <2>1, <2>3, TableAfterInsert DEF Needed
  <2>4. ASSUME NEW f \in Processes, FlushAt(f, "finalize"), r = flush[f].row, UNCHANGED content
        PROVE  Needed(x)
    BY <2>1, <2>4 DEF Needed
  <2> QED BY <2>1, <2>2, <2>3, <2>4, KeyedBy
<1>2. ASSUME NEW f \in Processes, flush'[f].pc = "finalize", content'[flush'[f].row] = x
      PROVE  Needed(x) \/ x \in pinned'
  <2>1. CASE flush'[f] = flush[f]
    <3>1. flush[f].row \in 1..rows
      BY <1>2, <2>1, MaxRowsAssumption DEF TypeInv, FlushLocals, FlushRecords, TableType, NoRow
    <3>2. content[flush[f].row] = x
      BY <1>2, <2>1, <3>1, RowsKept
    <3> QED BY <1>2, <2>1, <3>2 DEF Needed, FlushAt
  <2>2. ASSUME FlushStep(f) \/ CrashFlush(f) \/ \E p \in Paths : FlushPath(f, p)
        PROVE  x \in pinned'
    <3>1. flush'[f].row \in 1..rows /\ content[flush'[f].row] \in pinned'
      BY <1>2, <2>2, FinalizesPinned
    <3>2. \A r \in 1..rows : content'[r] = content[r]
      BY RowsKept
    <3> QED BY <1>2, <3>1, <3>2
  <2>3. ASSUME NEW g \in Processes, g # f,
               FlushStep(g) \/ CrashFlush(g) \/ \E p \in Paths : FlushPath(g, p)
        PROVE  flush'[f] = flush[f]
    <3>1. \E w : flush' = [flush EXCEPT ![g] = w]
      BY <2>3, FlushMoves DEF FlushMove
    <3> QED BY <2>3, <3>1 DEF TypeInv, FlushLocals
  <2>4. CASE (\E y \in Contents : Lose(y)) \/ FaultsStop \/ UNCHANGED vars
    BY <2>1, <2>4 DEF Lose, FaultsStop, vars
  <2> QED BY <2>1, <2>2, <2>3, <2>4, ClientKeepsFlush, StepKinds DEF OtherStep
<1>3. ASSUME NEW d \in Clients, client'[d].pc = "insert", client'[d].content = x
      PROVE  Needed(x) \/ x \in pinned'
  <2>1. CASE client'[d] = client[d]
    BY <1>3, <2>1 DEF Needed, At
  <2>2. CASE ClientStart(d) \/ ClientStep(d) \/ CrashClient(d)
    BY <1>3, <2>2, ClientObjects
  <2>3. ASSUME NEW c \in Clients, c # d, ClientStart(c) \/ ClientStep(c) \/ CrashClient(c)
        PROVE  client'[d] = client[d]
    <3>1. \E w : client' = [client EXCEPT ![c] = w]
      BY <2>3, ClientSteps DEF ClientMove, RowInserted, Return
    <3> QED BY <2>3, <3>1 DEF TypeInv, ClientLocals
  <2>4. CASE OtherStep
    BY <2>1, <2>4, OtherSteps
  <2> QED BY <2>1, <2>2, <2>3, <2>4, StepKinds
<1> QED BY <1>1, <1>2, <1>3 DEF Needed, FlushAt, At

LEMMA NeededStep ==
  ASSUME TypeInv, RoomInv, AdoptInv, NeededInv, [Next]_vars, DeletesOnlyUnneeded
  PROVE  NeededInv'
<1> SUFFICES ASSUME NEW x \in Contents, Needed(x)' PROVE x \in pinned' \cup lost'
  BY DEF NeededInv
<1>1. Needed(x) => x \in pinned \cup lost
  BY DEF NeededInv
<1>2. ASSUME NEW c \in Clients, DeleteObject(c), lost' = lost,
             pinned' = pinned \ {client[c].content}, Needed(x)
      PROVE  x \in pinned' \cup lost'
  <2>1. UNCHANGED pinned \/ ~Needed(client[c].content)
    BY <1>2 DEF DeletesOnlyUnneeded
  <2>2. ~Needed(client[c].content) => client[c].content # x
    BY <1>2
  <2> QED BY <1>1, <1>2, <2>1, <2>2
<1>3. ASSUME Needed(x) PROVE x \in pinned' \cup lost'
  <2>1. pinned \cup lost \subseteq pinned' \cup lost' => x \in pinned' \cup lost'
    BY <1>1, <1>3
  <2> QED BY <1>2, <1>3, <2>1, ClientObjects, OtherObjects, StepKinds
<1> QED BY <1>3, NeededFrom

(* Remove deletes an object only when no other path still references it    *)
(* (vault_service.go:1208), whatever fails or races, but for the time that *)
(* passes between its transaction and its indexer call (line 1222): if the *)
(* call looked again for rows that reference the object, and for flushes   *)
(* and restores that have pinned it, no live row would ever name an object *)
(* that the network has not lost and the indexer does not have, with any   *)
(* number of clients and flushing processes.                               *)
THEOREM OnlyLateDeleteLosesObjects == Spec /\ [][DeletesOnlyUnneeded]_vars => []ReferencedObjectStays
<1>1. Init => TableInv /\ NeededInv
  <2>1. ASSUME Init PROVE NeededInv
    <3>1. keyed = {} /\ \A f \in Processes : flush[f] = NoFlush
      BY <2>1 DEF Init
    <3>2. \A c \in Clients : client[c].pc = "idle"
      BY <2>1, IdleType DEF Init
    <3> QED BY <3>1, <3>2 DEF NeededInv, Needed, References, FlushAt, At, NoFlush
  <2> QED BY <2>1, TableInit
<1>2. TableInv /\ NeededInv /\ [Next]_vars /\ [DeletesOnlyUnneeded]_vars => (TableInv /\ NeededInv)'
  <2> SUFFICES ASSUME TableInv, NeededInv, [Next]_vars, [DeletesOnlyUnneeded]_vars
               PROVE  TableInv' /\ NeededInv'
    OBVIOUS
  <2>1. TableInv' /\ TypeInv /\ RoomInv /\ AdoptInv
    BY TableInductive DEF TableInv
  <2>2. CASE DeletesOnlyUnneeded
    BY <2>1, <2>2, NeededStep
  <2>3. CASE UNCHANGED vars
    BY <2>1, <2>3 DEF vars, rowVars, objVars, NeededInv, Needed, References, Live, FlushAt, At
  <2> QED BY <2>1, <2>2, <2>3
<1>3. TableInv /\ NeededInv => ReferencedObjectStays
  <2> SUFFICES ASSUME TableInv, NeededInv, NEW r \in Live \cap keyed PROVE content[r] \in pinned \cup lost
    BY DEF ReferencedObjectStays
  <2>1. r \in Rows /\ content[r] \in Contents
    BY MaxRowsAssumption DEF TableInv, TypeInv, TableType, Live, Rows
  <2>2. Needed(content[r])
    BY DEF Needed, References
  <2> QED BY <2>1, <2>2 DEF NeededInv
<1> QED BY <1>1, <1>2, <1>3, PTL DEF Spec
=============================================================================
