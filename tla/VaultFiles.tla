----------------------------- MODULE VaultFiles -----------------------------
(***************************************************************************)
(* The files table of one vault profile, the staged buffers on disk and    *)
(* the objects pinned on the Sia indexer (core/vault/upload_staging.go and *)
(* the Verify, Remove and VersionRestore operations of vault_service.go).  *)
(*                                                                         *)
(* Every SQLite statement or transaction, every indexer call and every     *)
(* file removal is one action: the single database connection serializes   *)
(* transactions, and nothing else in these operations is protected by a    *)
(* lock, except that flushes of one process exclude each other.            *)
(***************************************************************************)
EXTENDS Integers, FiniteSets

CONSTANTS Paths,      \* vault paths that are written
          RootPaths,  \* the ones in the root directory (DirectoryID = nil)
          Contents,   \* file contents; a Sia object is named by its content
          Clients,    \* callers of Put, Verify, Remove, VersionRestore
          Processes,  \* processes that flush (each has its own flush lock)
          MaxRows     \* bound: rows of the files table

ASSUME PathsAssumption   == RootPaths \subseteq Paths
ASSUME MaxRowsAssumption == MaxRows \in Nat
ASSUME ClientsAssumption == IsFiniteSet(Clients)
ASSUME NonEmptyAssumption == Paths # {} /\ Contents # {}

maxAdoptRetries == 4   \* commitFileRecord's bound on create conflicts

Rows  == 1..MaxRows
NoRow == 0
UUIDs == 1..(MaxRows + Cardinality(Clients))

Statuses == {"none", "staged", "flushing", "durable", "failed"}

VARIABLES
  rows,     \* how many rows have been inserted; ids are 1..rows
  path,     \* [row -> path]     Name and DirectoryID
  uuid,     \* [row -> uuid]     UUID, the identity versions share
  seq,      \* [row -> number]   Seq
  content,  \* [row -> content]  ContentDigest
  status,   \* [row -> status]   Status
  current,  \* rows with IsCurrent
  deleted,  \* rows with DeletedAt # nil
  keyed,    \* rows with ObjectKey # "" (then it is the object of their content)
  staged,   \* rows with StagedPath # ""
  buffers,  \* rows whose staged buffer is on disk
  pinned,   \* contents whose object the indexer has
  lost,     \* contents whose object the network lost
  leaked,   \* contents whose clean-up or commit failed after an indexer call
  client,   \* [client -> where its operation is, and the operation's locals]
  flush,    \* [process -> where its Flush or FlushPath is, and its locals]
  faulty    \* indexer, disk and database calls may still fail

rowVars  == <<rows, path, uuid, seq, content>>
diskVars == <<staged, buffers>>
objVars  == <<pinned, lost, leaked>>
vars == <<rowVars, status, current, deleted, keyed, diskVars, objVars, client, flush, faulty>>

Live == {r \in 1..rows : r \notin deleted}

(* findCurrentFile: the live current row of a path.                        *)
Winners(p) == {r \in current \cap Live : path[r] = p}

FindCurrentFile(p) ==
  IF Winners(p) = {} THEN NoRow ELSE CHOOSE r \in Winners(p) : \A q \in Winners(p) : r <= q

Largest(S) == CHOOSE m \in S : \A n \in S : n <= m

(* SELECT COALESCE(MAX(seq), 0) ... WHERE uuid = ?                         *)
MaxSeq(u) == Largest({0} \cup {seq[r] : r \in {q \in 1..rows : uuid[q] = u}})

Idle == [pc |-> "idle", path |-> CHOOSE p \in Paths : TRUE, row |-> NoRow,
         content |-> CHOOSE x \in Contents : TRUE, uuid |-> 0, seq |-> 0,
         current |-> FALSE, tries |-> 0]

NoFlush == [pc |-> "idle", todo |-> {}, batch |-> {}, members |-> {}, row |-> NoRow]

Init ==
  /\ rows    = 0
  /\ path    = [r \in Rows |-> CHOOSE p \in Paths : TRUE]
  /\ uuid    = [r \in Rows |-> 0]
  /\ seq     = [r \in Rows |-> 0]
  /\ content = [r \in Rows |-> CHOOSE x \in Contents : TRUE]
  /\ status  = [r \in Rows |-> "none"]
  /\ current = {} /\ deleted = {} /\ keyed = {}
  /\ staged  = {} /\ buffers = {}
  /\ pinned  = {} /\ lost = {} /\ leaked = {}
  /\ client  = [c \in Clients |-> Idle]
  /\ flush   = [f \in Processes |-> NoFlush]
  /\ faulty  = TRUE

At(c, pc)   == client[c].pc = pc
Goto(c, pc) == client' = [client EXCEPT ![c].pc = pc]
Return(c)   == client' = [client EXCEPT ![c] = Idle]

(* Bound: an operation that inserts a row starts only if there is room.    *)
Writing   == {c \in Clients : client[c].pc \in {"adopt", "commit", "fetch", "repin", "insert"}}
RoomForRow == rows + Cardinality(Writing) < MaxRows

-----------------------------------------------------------------------------
(* promoteCurrent: the inserted row becomes the path's only winner.        *)
PromoteWithoutDemote(p, r) == current' = current \cup {r}

PromoteCurrent(p, r) == current' = (current \ Winners(p)) \cup {r}

(* INSERT of row rows + 1 and its promotion, one transaction.              *)
Insert(p, u, x, s) ==
  /\ rows'    = rows + 1
  /\ path'    = [path EXCEPT ![rows + 1] = p]
  /\ uuid'    = [uuid EXCEPT ![rows + 1] = u]
  /\ seq'     = [seq EXCEPT ![rows + 1] = s]
  /\ content' = [content EXCEPT ![rows + 1] = x]
  /\ PromoteCurrent(p, rows + 1)

(* uuid.NewString: an identity nobody uses or is about to use.             *)
FreshUUID == CHOOSE u \in UUIDs :
  /\ \A r \in 1..rows : uuid[r] # u
  /\ \A c \in Clients : client[c].uuid # u

(* stage up to buildPendingRecord: the bytes are buffered, the path's      *)
(* identity is read, outside any transaction.                              *)
BuildPendingRecord(c, p, x) ==
  LET w == FindCurrentFile(p)
      u == IF w = NoRow THEN FreshUUID ELSE uuid[w]
  IN /\ At(c, "idle")
     /\ RoomForRow
     /\ client' = [client EXCEPT ![c] =
          [pc |-> "adopt", path |-> p, row |-> NoRow, content |-> x, uuid |-> u,
           seq |-> MaxSeq(u) + 1, current |-> w = NoRow, tries |-> 0]]
     /\ UNCHANGED <<rowVars, status, current, deleted, keyed, diskVars, objVars, flush, faulty>>

AdoptSlotOnly(c) ==
  LET p == client[c].path
      w == FindCurrentFile(p)
  IN /\ At(c, "adopt")
     /\ client' = [client EXCEPT ![c] =
          IF p \in RootPaths \/ w = NoRow THEN [@ EXCEPT !.pc = "commit"]
          ELSE [@ EXCEPT !.pc = "commit", !.current = FALSE]]
     /\ UNCHANGED <<rowVars, status, current, deleted, keyed, diskVars, objVars, flush, faulty>>

(* stagedAdopt looks for no winner of a path in the root directory, ...    *)
NothingToAdopt(c) == client[c].path \in RootPaths \/ FindCurrentFile(client[c].path) = NoRow

(* ... takes over the identity of any other path's present winner, ...     *)
AdoptWinner(c) ==
  /\ ~NothingToAdopt(c)
  /\ client' = [client EXCEPT ![c] = [@ EXCEPT !.pc = "commit", !.current = FALSE,
                                              !.uuid = uuid[FindCurrentFile(client[c].path)]]]

(* ... and takes a lookup that fails for one that found nobody.            *)
StagedAdopt(c) ==
  /\ At(c, "adopt")
  /\ \/ AdoptWinner(c)
     \/ (NothingToAdopt(c) \/ faulty) /\ Goto(c, "commit")
  /\ UNCHANGED <<rowVars, status, current, deleted, keyed, diskVars, objVars, flush, faulty>>

(* One attempt of commitFileRecord's loop.  A row inserted as current      *)
(* collides with the path's winner on idx_files_live_name_dir: the         *)
(* transaction rolls back and the loop adopts again, four times at most.   *)
CommitFileRecord(c) ==
  LET m == client[c]
      s == Largest({MaxSeq(m.uuid), m.seq}) + 1
      conflict == m.current /\ Winners(m.path) # {}
  IN /\ At(c, "commit")
     /\ \/ /\ ~conflict
           /\ Insert(m.path, m.uuid, m.content, s)
           /\ status'  = [status EXCEPT ![rows + 1] = "staged"]
           /\ staged'  = staged \cup {rows + 1}
           /\ buffers' = buffers \cup {rows + 1}
           /\ Return(c)
        \/ /\ conflict
           /\ client' = [client EXCEPT ![c] =
                [@ EXCEPT !.seq = s, !.tries = m.tries + 1,
                          !.pc = IF m.tries + 1 < maxAdoptRetries THEN "adopt" ELSE "gaveUp"]]
           /\ UNCHANGED <<rowVars, status, current, diskVars>>
        \/ /\ faulty              \* any other database error
           /\ Return(c)
           /\ UNCHANGED <<rowVars, status, current, diskVars>>
     /\ UNCHANGED <<deleted, keyed, objVars, flush, faulty>>

(* "failed to store file record after 4 attempts": the buffer is removed.  *)
PutGaveUp(c) ==
  /\ At(c, "gaveUp")
  /\ Return(c)
  /\ UNCHANGED <<rowVars, status, current, deleted, keyed, diskVars, objVars, flush, faulty>>

-----------------------------------------------------------------------------
(* Flush and FlushPath of one process, under its profile flush lock.       *)

FlushAt(f, pc) == flush[f].pc = pc
FlushTo(f, pc) == flush' = [flush EXCEPT ![f].pc = pc]

BeginFlush(f, S) ==
  /\ FlushAt(f, "idle")
  /\ S # {}
  /\ flush' = [flush EXCEPT ![f] = [NoFlush EXCEPT !.pc = "mark", !.todo = S, !.batch = S]]
  /\ UNCHANGED <<rowVars, status, current, deleted, keyed, diskVars, objVars, client, faulty>>

(* Flush: snapshot every live staged row (stagedRows).                     *)
Flush(f) == BeginFlush(f, staged \cap Live)

(* FlushPath: the path's current row, if it is still staged.               *)
FlushPath(f, p) == BeginFlush(f, {FindCurrentFile(p)} \cap staged)

(* markFlushing, one row at a time, best-effort.                           *)
MarkFlushing(f) ==
  /\ FlushAt(f, "mark")
  /\ \E r \in flush[f].todo :
       /\ \/ status' = [status EXCEPT ![r] = "flushing"]
          \/ faulty /\ UNCHANGED status
       /\ flush'  = [flush EXCEPT ![f] = [@ EXCEPT !.todo = flush[f].todo \ {r},
                       !.pc = IF flush[f].todo = {r} THEN "sdk" ELSE "mark"]]
  /\ UNCHANGED <<rowVars, current, deleted, keyed, diskVars, objVars, client, faulty>>

(* flushGroups: without an SDK it returns and the rows stay flushing.      *)
EnsureSDK(f) ==
  /\ FlushAt(f, "sdk")
  /\ \/ FlushTo(f, "pack")
     \/ faulty /\ flush' = [flush EXCEPT ![f] = NoFlush]
  /\ UNCHANGED <<rowVars, status, current, deleted, keyed, diskVars, objVars, client, faulty>>

(* uploadPackedGroup up to Finalize, for the next group prepareUploads     *)
(* made: no packed upload; a member's buffer is missing or not accepted    *)
(* (only that row is flagged); Finalize fails (all are); or all uploaded.  *)
UploadPackedGroup(f) ==
  /\ FlushAt(f, "pack")
  /\ \E g \in SUBSET flush[f].batch \ {{}} :
       LET to(pc, bad, good) ==
             flush' = [flush EXCEPT ![f] = [@ EXCEPT !.batch = flush[f].batch \ g, !.pc = pc,
                                                     !.todo = bad, !.members = good]]
       IN \/ faulty /\ to("pack", {}, {})
          \/ \E r \in g : (faulty \/ r \notin buffers) /\ to("fail", {r}, {})
          \/ g \subseteq buffers /\ faulty /\ to("fail", g, {})
          \/ g \subseteq buffers /\ to("pin", {}, g)
  /\ UNCHANGED <<rowVars, status, current, deleted, keyed, diskVars, objVars, client, faulty>>

RecordRawError(f) ==
  /\ FlushAt(f, "fail")
  /\ \E r \in flush[f].todo :
       /\ status' = [status EXCEPT ![r] = "error"]
       /\ flush'  = [flush EXCEPT ![f] = [@ EXCEPT !.todo = flush[f].todo \ {r},
                       !.pc = IF flush[f].todo = {r} THEN "pack" ELSE "fail"]]
  /\ UNCHANGED <<rowVars, current, deleted, keyed, diskVars, objVars, client, faulty>>

(* recordFlushFailure of each flagged row, best-effort, then on with the   *)
(* next group.                                                             *)
RecordFlushFailure(f) ==
  /\ FlushAt(f, "fail")
  /\ \E r \in flush[f].todo :
       /\ \/ status' = [status EXCEPT ![r] = "failed"]
          \/ faulty /\ UNCHANGED status
       /\ flush'  = [flush EXCEPT ![f] = [@ EXCEPT !.todo = flush[f].todo \ {r},
                       !.pc = IF flush[f].todo = {r} THEN "pack" ELSE "fail"]]
  /\ UNCHANGED <<rowVars, current, deleted, keyed, diskVars, objVars, client, faulty>>

FailMember(f, r) ==
  flush' = [flush EXCEPT ![f] = [@ EXCEPT !.pc = "fail", !.todo = {r}, !.members = {},
                                          !.row = NoRow]]

(* PinObject of the next member; after an error the later members are left. *)
PinObject(f) ==
  /\ FlushAt(f, "pin")
  /\ \E r \in flush[f].members :
       \/ /\ pinned' = pinned \cup {content[r]}
          /\ lost'   = lost \ {content[r]}
          /\ flush'  = [flush EXCEPT ![f] = [@ EXCEPT !.pc = "finalize", !.row = r,
                                                      !.members = flush[f].members \ {r}]]
       \/ faulty /\ FailMember(f, r) /\ UNCHANGED <<pinned, lost>>
  /\ UNCHANGED <<rowVars, status, current, deleted, keyed, diskVars, leaked, client, faulty>>

FinalizeUnlinkingFirst(f) ==
  LET r == flush[f].row IN
  /\ FlushAt(f, "finalize")
  /\ buffers' = buffers \ {r}
  /\ \/ /\ keyed'  = keyed \cup {r}
        /\ status' = [status EXCEPT ![r] = "durable"]
        /\ staged' = staged \ {r}
        /\ FlushTo(f, "unlink")
     \/ faulty /\ FailMember(f, r) /\ UNCHANGED <<keyed, status, staged>>
  /\ UNCHANGED <<rowVars, current, deleted, objVars, client, faulty>>

FinalizeKeepingStagedPath(f) ==
  LET r == flush[f].row IN
  /\ FlushAt(f, "finalize")
  /\ keyed'  = keyed \cup {r}
  /\ status' = [status EXCEPT ![r] = "durable"]
  /\ FlushTo(f, "unlink")
  /\ UNCHANGED <<rowVars, current, deleted, diskVars, objVars, client, faulty>>

FinalizeKeepingStatus(f) ==
  LET r == flush[f].row IN
  /\ FlushAt(f, "finalize")
  /\ keyed'  = keyed \cup {r}
  /\ staged' = staged \ {r}
  /\ FlushTo(f, "unlink")
  /\ UNCHANGED <<rowVars, status, current, deleted, buffers, objVars, client, faulty>>

(* finalizeDurable's UPDATE ...                                            *)
FinalizeDurable(f) ==
  LET r == flush[f].row IN
  /\ FlushAt(f, "finalize")
  /\ \/ /\ keyed'  = keyed \cup {r}
        /\ status' = [status EXCEPT ![r] = "durable"]
        /\ staged' = staged \ {r}
        /\ FlushTo(f, "unlink")
     \/ faulty /\ FailMember(f, r) /\ UNCHANGED <<keyed, status, staged>>
  /\ UNCHANGED <<rowVars, current, deleted, buffers, objVars, client, faulty>>

(* ... and its best-effort removal of the buffer.                          *)
RemoveStagedBuffer(f) ==
  /\ FlushAt(f, "unlink")
  /\ \/ buffers' = buffers \ {flush[f].row}
     \/ faulty /\ UNCHANGED buffers
  /\ flush' = [flush EXCEPT ![f] = [@ EXCEPT !.row = NoRow,
                 !.pc = IF flush[f].members = {} THEN "pack" ELSE "pin"]]
  /\ UNCHANGED <<rowVars, status, current, deleted, keyed, staged, objVars, client, faulty>>

FlushReturn(f) ==
  /\ FlushAt(f, "pack")
  /\ flush[f].batch = {}
  /\ flush' = [flush EXCEPT ![f] = NoFlush]
  /\ UNCHANGED <<rowVars, status, current, deleted, keyed, diskVars, objVars, client, faulty>>

-----------------------------------------------------------------------------
(* Verify (VerifyDeep steps through the same states).  A row without an    *)
(* object key is reported pending and nothing changes.                     *)
VerifyResolve(c, p) ==
  LET r == FindCurrentFile(p) IN
  /\ At(c, "idle")
  /\ r \in keyed
  /\ client' = [client EXCEPT ![c] = [Idle EXCEPT !.pc = "object", !.path = p, !.row = r,
                                                    !.content = content[r]]]
  /\ UNCHANGED <<rowVars, status, current, deleted, keyed, diskVars, objVars, flush, faulty>>

VerifyObject(c) ==
  /\ At(c, "object")
  /\ \/ client[c].content \in pinned /\ Goto(c, "clear")
     \/ client[c].content \notin pinned /\ Goto(c, "markLost")
     \/ faulty /\ Return(c)
  /\ UNCHANGED <<rowVars, status, current, deleted, keyed, diskVars, objVars, flush, faulty>>

(* FileStatusLost is FileStatusFailed (service.go:57).                     *)
MarkLost(c) ==
  /\ At(c, "markLost")
  /\ \/ status' = [status EXCEPT ![client[c].row] = "failed"]
     \/ faulty /\ UNCHANGED status
  /\ Return(c)
  /\ UNCHANGED <<rowVars, current, deleted, keyed, diskVars, objVars, flush, faulty>>

(* clearLostStatus looks the path up again ...                             *)
ClearResolve(c) ==
  LET r == FindCurrentFile(client[c].path) IN
  /\ At(c, "clear")
  /\ IF r = NoRow THEN Return(c)
     ELSE client' = [client EXCEPT ![c] = [@ EXCEPT !.pc = "clearWrite", !.row = r]]
  /\ UNCHANGED <<rowVars, status, current, deleted, keyed, diskVars, objVars, flush, faulty>>

(* ... and writes by row id.                                               *)
ClearLostStatus(c) ==
  /\ At(c, "clearWrite")
  /\ \/ status' = [status EXCEPT ![client[c].row] = "durable"]
     \/ faulty /\ UNCHANGED status
  /\ Return(c)
  /\ UNCHANGED <<rowVars, current, deleted, keyed, diskVars, objVars, flush, faulty>>

-----------------------------------------------------------------------------
(* Remove.  A staged row has no object key to parse: the call fails.       *)
RemoveResolve(c, p) ==
  LET r == FindCurrentFile(p) IN
  /\ At(c, "idle")
  /\ r \in keyed
  /\ client' = [client EXCEPT ![c] = [Idle EXCEPT !.pc = "tombstone", !.path = p, !.row = r,
                                                    !.content = content[r]]]
  /\ UNCHANGED <<rowVars, status, current, deleted, keyed, diskVars, objVars, flush, faulty>>

References(x) == {r \in Live \cap keyed : content[r] = x}

TombstoneCountingFirst(c) ==
  LET r == client[c].row IN
  /\ At(c, "tombstone")
  /\ deleted' = deleted \cup {r}
  /\ IF References(client[c].content) = {} THEN Goto(c, "delete") ELSE Return(c)
  /\ UNCHANGED <<rowVars, status, current, keyed, diskVars, objVars, flush, faulty>>

(* The transaction: tombstone, then count the live references.             *)
Tombstone(c) ==
  LET r == client[c].row IN
  /\ At(c, "tombstone")
  /\ \/ /\ deleted' = deleted \cup {r}
        /\ IF References(client[c].content) \ {r} = {} THEN Goto(c, "delete") ELSE Return(c)
     \/ faulty /\ Return(c) /\ UNCHANGED deleted
  /\ UNCHANGED <<rowVars, status, current, keyed, diskVars, objVars, flush, faulty>>

(* The indexer call, after the transaction, best-effort.                   *)
DeleteObject(c) ==
  LET x == client[c].content IN
  /\ At(c, "delete")
  /\ \/ pinned' = pinned \ {x} /\ UNCHANGED leaked
     \/ faulty /\ leaked' = leaked \cup {x} /\ UNCHANGED pinned
  /\ Return(c)
  /\ UNCHANGED <<rowVars, status, current, deleted, keyed, diskVars, lost, flush, faulty>>

-----------------------------------------------------------------------------
(* VersionRestore of version r of the file at p: its object is fetched,    *)
(* re-pinned with the new version's identity, and gets a new current row   *)
(* whose seq was computed before the indexer calls.                        *)
RestoreResolve(c, p, r) ==
  LET w == FindCurrentFile(p) IN
  /\ At(c, "idle")
  /\ RoomForRow
  /\ w # NoRow
  /\ r \in Live \cap keyed
  /\ uuid[r] = uuid[w]
  /\ client' = [client EXCEPT ![c] =
       [Idle EXCEPT !.pc = "fetch", !.path = p, !.row = r, !.content = content[r],
                    !.uuid = uuid[w], !.seq = MaxSeq(uuid[w]) + 1]]
  /\ UNCHANGED <<rowVars, status, current, deleted, keyed, diskVars, objVars, flush, faulty>>

RestoreFetch(c) ==
  /\ At(c, "fetch")
  /\ \/ client[c].content \in pinned /\ Goto(c, "repin")
     \/ (client[c].content \notin pinned \/ faulty) /\ Return(c)
  /\ UNCHANGED <<rowVars, status, current, deleted, keyed, diskVars, objVars, flush, faulty>>

RestorePin(c) ==
  /\ At(c, "repin")
  /\ \/ /\ pinned' = pinned \cup {client[c].content}
        /\ lost'   = lost \ {client[c].content}
        /\ Goto(c, "insert")
     \/ faulty /\ Return(c) /\ UNCHANGED <<pinned, lost>>
  /\ UNCHANGED <<rowVars, status, current, deleted, keyed, diskVars, leaked, flush, faulty>>

RestoreInsert(c) ==
  LET m == client[c] IN
  /\ At(c, "insert")
  /\ \/ /\ Insert(m.path, m.uuid, m.content, m.seq)
        /\ status' = [status EXCEPT ![rows + 1] = "durable"]
        /\ keyed'  = keyed \cup {rows + 1}
        /\ UNCHANGED leaked
     \/ /\ faulty
        /\ leaked' = leaked \cup {m.content}
        /\ UNCHANGED <<rowVars, status, current, keyed>>
  /\ Return(c)
  /\ UNCHANGED <<deleted, diskVars, pinned, lost, flush, faulty>>

-----------------------------------------------------------------------------
(* The environment: a process dies, the network loses an object, and at    *)
(* some point faults stop.                                                 *)

CrashClient(c) ==
  /\ faulty
  /\ ~At(c, "idle")
  /\ leaked' = leaked \cup {x \in {client[c].content} : client[c].pc \in {"delete", "insert"}}
  /\ Return(c)
  /\ UNCHANGED <<rowVars, status, current, deleted, keyed, diskVars, pinned, lost, flush, faulty>>

CrashFlush(f) ==
  /\ faulty
  /\ ~FlushAt(f, "idle")
  /\ flush' = [flush EXCEPT ![f] = NoFlush]
  /\ UNCHANGED <<rowVars, status, current, deleted, keyed, diskVars, objVars, client, faulty>>

Lose(x) ==
  /\ faulty
  /\ x \in pinned
  /\ pinned' = pinned \ {x}
  /\ lost'   = lost \cup {x}
  /\ UNCHANGED <<rowVars, status, current, deleted, keyed, diskVars, leaked, client, flush, faulty>>

FaultsStop ==
  /\ faulty
  /\ faulty' = FALSE
  /\ UNCHANGED <<rowVars, status, current, deleted, keyed, diskVars, objVars, client, flush>>

-----------------------------------------------------------------------------
ClientStart(c) ==
  \E p \in Paths :
    \/ \E x \in Contents : BuildPendingRecord(c, p, x)
    \/ VerifyResolve(c, p)
    \/ RemoveResolve(c, p)
    \/ \E r \in Rows : RestoreResolve(c, p, r)

ClientStep(c) ==
  \/ StagedAdopt(c) \/ CommitFileRecord(c) \/ PutGaveUp(c)
  \/ VerifyObject(c) \/ MarkLost(c) \/ ClearResolve(c) \/ ClearLostStatus(c)
  \/ Tombstone(c) \/ DeleteObject(c)
  \/ RestoreFetch(c) \/ RestorePin(c) \/ RestoreInsert(c)

FlushStep(f) ==
  \/ Flush(f) \/ MarkFlushing(f) \/ EnsureSDK(f) \/ UploadPackedGroup(f)
  \/ RecordFlushFailure(f) \/ PinObject(f) \/ FinalizeDurable(f)
  \/ RemoveStagedBuffer(f) \/ FlushReturn(f)

Next ==
  \/ \E c \in Clients : ClientStart(c) \/ ClientStep(c) \/ CrashClient(c)
  \/ \E f \in Processes : FlushStep(f) \/ CrashFlush(f) \/ \E p \in Paths : FlushPath(f, p)
  \/ \E x \in Contents : Lose(x)
  \/ FaultsStop

Spec == Init /\ [][Next]_vars

(* The upload loop keeps ticking and a running flush or operation gets on; *)
(* faults stop at some point.                                              *)
Fairness ==
  /\ \A f \in Processes : WF_vars(FlushStep(f))
  /\ \A c \in Clients : WF_vars(ClientStep(c))
  /\ WF_vars(FaultsStop)

FairSpec == Spec /\ Fairness

-----------------------------------------------------------------------------
(* Properties.                                                             *)

ClientPCs == {"idle", "adopt", "commit", "gaveUp", "object", "markLost", "clear",
              "clearWrite", "tombstone", "delete", "fetch", "repin", "insert"}
FlushPCs  == {"idle", "mark", "sdk", "pack", "fail", "pin", "finalize", "unlink"}

(* Rows, buffers, objects and the operations' locals keep their shape: no  *)
(* row has a status outside service.go's, no set names a row that was not  *)
(* inserted, and commitFileRecord stops after maxAdoptRetries attempts.    *)
TypeOK ==
  /\ rows    \in 0..MaxRows
  /\ path    \in [Rows -> Paths]
  /\ uuid    \in [Rows -> {0} \cup UUIDs]
  /\ seq     \in [Rows -> Nat]
  /\ content \in [Rows -> Contents]
  /\ status  \in [Rows -> Statuses]
  /\ current \subseteq 1..rows /\ deleted \subseteq 1..rows /\ keyed \subseteq 1..rows
  /\ staged  \subseteq 1..rows /\ buffers \subseteq 1..rows
  /\ pinned  \subseteq Contents /\ lost \subseteq Contents /\ leaked \subseteq Contents
  /\ client  \in [Clients -> [pc : ClientPCs, path : Paths, row : {NoRow} \cup Rows,
                              content : Contents, uuid : {0} \cup UUIDs, seq : Nat,
                              current : BOOLEAN, tries : 0..maxAdoptRetries]]
  /\ flush   \in [Processes -> [pc : FlushPCs, todo : SUBSET Rows, batch : SUBSET Rows,
                                members : SUBSET Rows, row : {NoRow} \cup Rows]]
  /\ faulty  \in BOOLEAN

(* An accepted Put is never lost between disk and indexer: a row without   *)
(* an object key still names its buffer and the buffer is still on disk,   *)
(* whatever failed or crashed during its flushes (upload_staging.go:600,   *)
(* "A failed row keeps its staged buffer").                                *)
AcceptedBytesKept ==
  \A r \in 1..rows : r \notin keyed => r \in staged /\ r \in buffers

(* A row that claims to be waiting or in progress is one the next Flush    *)
(* picks up: no status is stuck on staged or flushing for ever.            *)
WaitingRowIsFlushed ==
  \A r \in 1..rows : status[r] \in {"staged", "flushing"} => r \in staged \cap Live

(* The last committed write of a path is the one that a reader resolves:   *)
(* no conflict, adoption or late restore brings back an older version, and *)
(* findCurrentFile never has two rows to choose from.                      *)
LastWriteWins ==
  \A p \in Paths : \A w \in Winners(p) : \A r \in 1..rows : path[r] = p => r <= w

(* Concurrent first writes of a path converge on one identity              *)
(* (put_order_fts_test.go:430): two live rows of a path belong to          *)
(* different files only if a Remove ended a file at that path.             *)
OneIdentityPerPath ==
  \A r, q \in Live :
    path[r] = path[q] /\ uuid[r] # uuid[q] => \E d \in deleted : path[d] = path[r]

(* Remove never leaves an object that nobody references                    *)
(* (vault_service.go:1177): a pinned object is referenced, is about to be  *)
(* by a staged row or a running restore, is about to be deleted, or its    *)
(* clean-up failed or was cut short.                                       *)
NoOrphanedObject ==
  \A x \in pinned :
    \/ \E r \in Live : content[r] = x /\ (r \in keyed \/ r \in staged)
    \/ \E c \in Clients : client[c].pc \in {"delete", "insert"} /\ client[c].content = x
    \/ x \in leaked

(* Once faults stop, the upload loop makes every staged write durable.     *)
EventuallyFlushed == \A r \in Rows : (r \in staged) ~> (r \notin staged)

(* FileStatusDurable "is the rest state: the object is pinned and present" *)
(* (service.go:45): a durable row has an object.                           *)
DurableHasObject ==
  \A r \in Live : status[r] = "durable" => r \in keyed

(* Remove deletes an object "only when no other path still references it"  *)
(* (vault_service.go:1208): every row that names an object finds it on the *)
(* indexer, unless the network lost it.                                    *)
ReferencedObjectStays ==
  \A r \in Live \cap keyed : content[r] \in pinned \cup lost

(* Two concurrent Puts of one new path both succeed                        *)
(* (put_order_fts_test.go:426): the loser adopts the winner's identity     *)
(* before it runs out of attempts.                                         *)
ConcurrentPutSucceeds == \A c \in Clients : ~At(c, "gaveUp")
=============================================================================
