-------------------------- MODULE VaultTableProofs --------------------------
(***************************************************************************)
(* Proofs about the files table of VaultFiles, for every set of paths,     *)
(* contents and clients, any number of flushing processes and any size of  *)
(* the table.                                                              *)
(*                                                                         *)
(* The argument.  An operation changes only its own locals and does one of *)
(* three things to the table: nothing, a tombstone on the row it resolved, *)
(* or one new row (ClientSteps).  A new row is the only winner of its path *)
(* and has the largest id (WinnersAfterInsert), and a tombstone takes no   *)
(* winner back: so the winner is always the last write.  An operation that *)
(* is going to insert a row either claims the path's name, and then finds  *)
(* no winner there, or carries an identity it read from a version of the   *)
(* path (AdoptInv): so a second identity gets in only where a live version *)
(* has lost its winner, that is after a Remove (PathInv).                  *)
(*                                                                         *)
(* Largest and findCurrentFile choose an extreme of a set of numbers: that *)
(* there is one follows from the well-founded order of the naturals.  Rows *)
(* and identities are bounded, and RoomInv keeps every insertion inside    *)
(* the bound: an operation that will insert reserved its row.              *)
(***************************************************************************)
EXTENDS VaultFiles, FiniteSetTheorems, TLAPS

Below == {p \in Nat \X Nat : p[1] < p[2]}

LEMMA BelowIsWellFounded == IsWellFoundedOn(Below, Nat)
<1>1. OpToRel(<, Nat) = Below
  BY DEF OpToRel, Below
<1> QED BY <1>1, NatLessThanWellFounded

LEMMA LeastExists ==
  ASSUME NEW S \in SUBSET Nat, S # {}
  PROVE  \E m \in S : \A n \in S : m <= n
<1>1. PICK m \in S : \A n \in S : ~ (<<n, m>> \in Below)
  BY BelowIsWellFounded, WFMin
<1>2. \A n \in S : n < m => <<n, m>> \in Below
  BY DEF Below
<1>3. \A n \in S : ~ (n < m)
  BY <1>1, <1>2
<1> QED BY <1>3

(* Finitely many numbers have a largest one.                               *)
LEMMA LargestExists ==
  ASSUME NEW k \in Nat, NEW s, \A r \in 1..k : s[r] \in Nat, NEW Q
  PROVE  \E m \in {0} \cup {s[r] : r \in {q \in 1..k : q \in Q}} :
           \A n \in {0} \cup {s[r] : r \in {q \in 1..k : q \in Q}} : n <= m
<1> DEFINE T(b) == {0} \cup {s[r] : r \in {q \in 1..b : q \in Q}}
           Has(b) == \E m \in T(b) : \A n \in T(b) : n <= m
           Bad == {b \in 0..k : ~Has(b)}
<1>1. SUFFICES ASSUME Bad # {} PROVE FALSE
  <2>1. k \in 0..k
    OBVIOUS
  <2> QED BY <2>1
<1>2. PICK b \in Bad : \A a \in Bad : b <= a
  <2>1. Bad \in SUBSET Nat
    OBVIOUS
  <2> HIDE DEF Bad
  <2> QED BY <1>1, <2>1, LeastExists
<1>3. b # 0
  <2>1. T(0) = {0}
    OBVIOUS
  <2>2. Has(0)
    BY <2>1
  <2> QED BY <1>2, <2>2
<1>4. b - 1 \in 0..k /\ b \in 1..k
  BY <1>3
<1>5. PICK m \in T(b - 1) : \A n \in T(b - 1) : n <= m
  <2>1. b - 1 \notin Bad
    <3> HIDE DEF Bad
    <3> QED BY <1>2, <1>4
  <2>2. Has(b - 1)
    <3> HIDE DEF Has
    <3> QED BY <1>4, <2>1
  <2> QED BY <2>2
<1>6. T(b) = IF b \in Q THEN T(b - 1) \cup {s[b]} ELSE T(b - 1)
  <2>1. 1..b = (1..(b - 1)) \cup {b}
    BY <1>4
  <2> QED BY <2>1
<1>7. T(b - 1) \subseteq Nat
  BY <1>4
<1>8. s[b] \in Nat
  BY <1>4
<1>9. Has(b)
  <2> HIDE DEF T, Bad
  <2>1. CASE b \notin Q
    BY <2>1, <1>5, <1>6
  <2>2. CASE b \in Q /\ s[b] <= m
    <3>1. m \in T(b) /\ \A n \in T(b) : n <= m
      BY <2>2, <1>5, <1>6
    <3> QED BY <3>1
  <2>3. CASE b \in Q /\ ~(s[b] <= m)
    <3>1. s[b] \in T(b) /\ \A n \in T(b) : n <= s[b]
      BY <2>3, <1>5, <1>6, <1>7, <1>8
    <3> QED BY <3>1
  <2> QED BY <2>1, <2>2, <2>3
<1> QED BY <1>2, <1>9

LEMMA LargestIs ==
  ASSUME NEW S \in SUBSET Nat, NEW m \in S, \A n \in S : n <= m
  PROVE  Largest(S) = m
<1>1. Largest(S) \in S /\ \A n \in S : n <= Largest(S)
  BY DEF Largest
<1>2. m <= Largest(S) /\ Largest(S) <= m /\ m \in Nat /\ Largest(S) \in Nat
  BY <1>1
<1> HIDE DEF Largest
<1> QED BY <1>2

LEMMA MaxSeqType ==
  ASSUME rows \in Nat, \A r \in 1..rows : seq[r] \in Nat, NEW u
  PROVE  MaxSeq(u) \in Nat
<1> DEFINE Q == {q \in 1..rows : uuid[q] = u}
           S == {0} \cup {seq[r] : r \in {q \in 1..rows : q \in Q}}
<1>1. PICK m \in S : \A n \in S : n <= m
  <2> HIDE DEF Q
  <2> QED BY LargestExists
<1>2. MaxSeq(u) = Largest(S)
  <2>1. {q \in 1..rows : q \in Q} = {q \in 1..rows : uuid[q] = u}
    OBVIOUS
  <2> QED BY <2>1 DEF MaxSeq
<1>3. S \in SUBSET Nat
  OBVIOUS
<1> HIDE DEF S
<1> QED BY <1>1, <1>2, <1>3, LargestIs

LEMMA FindCurrentFinds ==
  ASSUME rows \in Nat, NEW p
  PROVE  /\ FindCurrentFile(p) \in {NoRow} \cup Winners(p)
         /\ FindCurrentFile(p) = NoRow <=> Winners(p) = {}
         /\ Winners(p) \subseteq 1..rows
<1>1. Winners(p) \in SUBSET Nat /\ Winners(p) \subseteq 1..rows
  BY DEF Winners, Live
<1>2. CASE Winners(p) = {}
  BY <1>1, <1>2 DEF FindCurrentFile
<1>3. CASE Winners(p) # {}
  <2>1. \E m \in Winners(p) : \A n \in Winners(p) : m <= n
    BY <1>1, <1>3, LeastExists
  <2>2. FindCurrentFile(p) \in Winners(p)
    BY <1>3, <2>1 DEF FindCurrentFile
  <2> QED BY <1>1, <1>3, <2>2 DEF NoRow
<1> QED BY <1>2, <1>3
-----------------------------------------------------------------------------
WritingPCs == {"adopt", "commit", "fetch", "repin", "insert"}

LEMMA WritingIsFinite ==
  /\ IsFiniteSet(Writing) /\ Cardinality(Writing) \in Nat
  /\ Cardinality(Clients) \in Nat
<1>1. Writing \subseteq Clients
  BY DEF Writing
<1>2. IsFiniteSet(Writing)
  BY <1>1, ClientsAssumption, FS_Subset
<1> QED BY <1>2, ClientsAssumption, FS_CardinalityType

(* There are more identities than rows and operations to use them.         *)
LEMMA FreshUUIDIsFresh ==
  ASSUME rows \in Nat, RoomForRow
  PROVE  /\ FreshUUID \in UUIDs
         /\ \A r \in 1..rows : uuid[r] # FreshUUID
         /\ \A c \in Clients : client[c].uuid # FreshUUID
<1> DEFINE A == {uuid[r] : r \in 1..rows}
           B == {client[c].uuid : c \in Clients}
           f == [r \in 1..rows |-> uuid[r]]
           g == [c \in Clients |-> client[c].uuid]
<1>1. /\ IsFiniteSet(1..rows) /\ Cardinality(1..rows) = rows
      /\ Cardinality(Clients) \in Nat /\ MaxRows \in Nat /\ rows < MaxRows
  <2>1. IsFiniteSet(1..rows) /\ Cardinality(1..rows) = IF 1 > rows THEN 0 ELSE rows - 1 + 1
    <3>1. 1 \in Int /\ rows \in Int
      OBVIOUS
    <3> QED BY <3>1, FS_Interval
  <2>2. Cardinality(Writing) \in Nat /\ rows + Cardinality(Writing) < MaxRows
    BY WritingIsFinite DEF RoomForRow
  <2>3. rows < MaxRows
    BY <2>2, MaxRowsAssumption
  <2>4. Cardinality(1..rows) = rows
    BY <2>1
  <2> QED BY <2>1, <2>3, <2>4, WritingIsFinite, MaxRowsAssumption
<1>2. IsFiniteSet(A) /\ Cardinality(A) <= rows /\ Cardinality(A) \in Nat
  <2>1. f \in Surjection(1..rows, A)
    BY DEF Surjection
  <2> HIDE DEF f, A
  <2>2. IsFiniteSet(A) /\ Cardinality(A) <= Cardinality(1..rows)
    BY <1>1, <2>1, FS_Surjection
  <2> QED BY <1>1, <2>2, FS_CardinalityType
<1>3. IsFiniteSet(B) /\ Cardinality(B) <= Cardinality(Clients) /\ Cardinality(B) \in Nat
  <2>1. g \in Surjection(Clients, B)
    BY DEF Surjection
  <2> HIDE DEF g, B
  <2>2. IsFiniteSet(B) /\ Cardinality(B) <= Cardinality(Clients)
    BY ClientsAssumption, <2>1, FS_Surjection
  <2> QED BY <2>2, FS_CardinalityType
<1>4. IsFiniteSet(A \cup B) /\ Cardinality(A \cup B) <= rows + Cardinality(Clients)
  <2> HIDE DEF A, B
  <2>1. /\ IsFiniteSet(A \cup B)
        /\ Cardinality(A \cup B) = Cardinality(A) + Cardinality(B) - Cardinality(A \cap B)
    BY <1>2, <1>3, FS_Union
  <2>2. Cardinality(A \cap B) \in Nat
    <3>1. A \cap B \in SUBSET A
      OBVIOUS
    <3>2. IsFiniteSet(A \cap B)
      BY <1>2, <3>1, FS_Subset
    <3> QED BY <3>2, FS_CardinalityType
  <2> QED BY <1>1, <1>2, <1>3, <2>1, <2>2
<1>5. Cardinality(UUIDs) = MaxRows + Cardinality(Clients)
  <2>1. 1 \in Int /\ MaxRows + Cardinality(Clients) \in Int
    BY <1>1
  <2> QED BY <1>1, <2>1, FS_Interval DEF UUIDs
<1>6. \E u \in UUIDs : u \notin A \cup B
  <2> HIDE DEF A, B
  <2>1. SUFFICES ASSUME UUIDs \in SUBSET (A \cup B) PROVE FALSE
    OBVIOUS
  <2>2. Cardinality(UUIDs) <= Cardinality(A \cup B)
    BY <1>4, <2>1, FS_Subset
  <2>3. Cardinality(A \cup B) \in Nat
    BY <1>4, FS_CardinalityType
  <2> QED BY <1>1, <1>4, <1>5, <2>2, <2>3
<1>7. \E u \in UUIDs : (\A r \in 1..rows : uuid[r] # u) /\ (\A c \in Clients : client[c].uuid # u)
  BY <1>6
<1> QED BY <1>7 DEF FreshUUID

-----------------------------------------------------------------------------
(* The locals of operations and flushes, which refer to inserted rows.  An *)
(* operation that writes a row by its id has one; a Put gives up after its *)
(* last attempt; a restored version never claims the path's name.          *)
ClientShape(n) == [pc : ClientPCs, path : Paths, row : 0..n,
                   content : Contents, uuid : {0} \cup UUIDs, seq : Nat,
                   current : BOOLEAN, tries : 0..maxAdoptRetries]

ClientRecords(n) ==
  {w \in ClientShape(n) :
     /\ w.pc \in {"object", "markLost", "clearWrite", "tombstone"} => w.row # NoRow
     /\ w.pc \in {"adopt", "commit"} => w.tries < maxAdoptRetries
     /\ w.pc \in {"fetch", "repin", "insert"} => ~w.current}

FlushRecords(n) == [pc : FlushPCs, todo : SUBSET (1..n), batch : SUBSET (1..n),
                    members : SUBSET (1..n), row : 0..n]

ClientLocals == client \in [Clients -> ClientRecords(rows)]

FlushLocals ==
  /\ flush \in [Processes -> FlushRecords(rows)]
  /\ \A f \in Processes : flush[f].pc \in {"finalize", "unlink"} => flush[f].row # NoRow

TableType ==
  /\ rows    \in 0..MaxRows
  /\ path    \in [Rows -> Paths]
  /\ uuid    \in [Rows -> {0} \cup UUIDs]
  /\ seq     \in [Rows -> Nat]
  /\ content \in [Rows -> Contents]
  /\ current \subseteq 1..rows /\ deleted \subseteq 1..rows

StoreType ==
  /\ status  \in [Rows -> Statuses]
  /\ keyed \subseteq 1..rows /\ staged  \subseteq 1..rows /\ buffers \subseteq 1..rows
  /\ pinned  \subseteq Contents /\ lost \subseteq Contents /\ leaked \subseteq Contents
  /\ faulty  \in BOOLEAN

TypeInv == TableType /\ StoreType /\ ClientLocals /\ FlushLocals

LEMMA TypeInvImpliesTypeOK == TypeInv => TypeOK
<1> SUFFICES ASSUME TypeInv PROVE TypeOK
  OBVIOUS
<1>1. 1..rows \subseteq Rows /\ 0..rows \subseteq {NoRow} \cup Rows
  BY MaxRowsAssumption DEF TypeInv, TableType, Rows, NoRow
<1>2. ClientShape(rows) \subseteq [pc : ClientPCs, path : Paths, row : {NoRow} \cup Rows,
                              content : Contents, uuid : {0} \cup UUIDs, seq : Nat,
                              current : BOOLEAN, tries : 0..maxAdoptRetries]
  BY <1>1 DEF ClientShape
<1>3. FlushRecords(rows) \subseteq [pc : FlushPCs, todo : SUBSET Rows, batch : SUBSET Rows,
                                members : SUBSET Rows, row : {NoRow} \cup Rows]
  BY <1>1 DEF FlushRecords
<1>4. ClientRecords(rows) \subseteq ClientShape(rows)
  BY DEF ClientRecords
<1> QED BY <1>2, <1>3, <1>4 DEF TypeInv, TypeOK, TableType, StoreType, ClientLocals, FlushLocals

LEMMA IdleType ==
  ASSUME NEW n \in Nat
  PROVE  /\ Idle \in ClientRecords(n) /\ NoFlush \in FlushRecords(n)
         /\ Idle \in ClientShape(n)
         /\ Idle.pc = "idle" /\ Idle.current = FALSE /\ NoFlush.pc = "idle"
<1>1. (CHOOSE p \in Paths : TRUE) \in Paths /\ (CHOOSE x \in Contents : TRUE) \in Contents
  BY NonEmptyAssumption
<1>2. Idle \in ClientShape(n) /\ Idle.pc = "idle" /\ Idle.current = FALSE
  BY <1>1 DEF Idle, ClientShape, ClientPCs, NoRow, maxAdoptRetries
<1>3. NoFlush \in FlushRecords(n) /\ NoFlush.pc = "idle"
  BY DEF NoFlush, FlushRecords, FlushPCs, NoRow
<1> QED BY <1>2, <1>3 DEF ClientRecords

-----------------------------------------------------------------------------
LEMMA FlushFields ==
  ASSUME NEW n \in Nat, flush \in [Processes -> FlushRecords(n)], NEW f \in Processes
  PROVE  /\ flush[f] \in FlushRecords(n) /\ flush[f].pc \in FlushPCs
         /\ flush[f].todo \in SUBSET (1..n) /\ flush[f].batch \in SUBSET (1..n)
         /\ flush[f].members \in SUBSET (1..n) /\ flush[f].row \in 0..n
BY DEF FlushRecords

(* Every step of a flush leaves its locals well-typed.                     *)
LEMMA FlushLocalsStep ==
  ASSUME TypeInv, NEW f \in Processes,
         FlushStep(f) \/ CrashFlush(f) \/ \E p \in Paths : FlushPath(f, p)
  PROVE  FlushLocals'
<1> DEFINE v == flush[f]
           n == rows
<1>a. n \in Nat
  BY MaxRowsAssumption DEF TypeInv, TableType
<1>b. UNCHANGED rows
  BY DEF FlushStep, CrashFlush, FlushPath, Flush, BeginFlush, MarkFlushing,
         EnsureSDK, UploadPackedGroup, RecordFlushFailure, PinObject, FinalizeDurable,
         RemoveStagedBuffer, FlushReturn, rowVars
<1>0. flush \in [Processes -> FlushRecords(n)]
  BY DEF TypeInv, FlushLocals
<1>1. /\ v \in FlushRecords(n) /\ v.pc \in FlushPCs
      /\ v.todo \in SUBSET (1..n) /\ v.batch \in SUBSET (1..n) /\ v.members \in SUBSET (1..n)
      /\ v.row \in 0..n
  BY <1>0, <1>a, FlushFields
<1>2. /\ {} \in SUBSET (1..n) /\ NoRow \in 0..n
      /\ NoFlush \in FlushRecords(n) /\ NoFlush.pc = "idle"
  <2>1. NoRow \in 0..n
    BY <1>a DEF NoRow
  <2>2. NoFlush \in FlushRecords(n) /\ NoFlush.pc = "idle"
    BY <1>a, IdleType
  <2> QED BY <2>1, <2>2
<1>3. staged \in SUBSET (1..n)
  BY DEF TypeInv, StoreType
<1>4. /\ "mark" \in FlushPCs /\ "sdk" \in FlushPCs /\ "pack" \in FlushPCs /\ "fail" \in FlushPCs
      /\ "pin" \in FlushPCs /\ "finalize" \in FlushPCs /\ "unlink" \in FlushPCs
  BY DEF FlushPCs
<1> HIDE DEF v, n
<1>5. ASSUME NEW w \in FlushRecords(n), flush' = [flush EXCEPT ![f] = w],
             w.pc \in {"finalize", "unlink"} => w.row # NoRow
      PROVE  FlushLocals'
  <2>1. flush' \in [Processes -> FlushRecords(n)] /\ flush'[f] = w
        /\ \A g \in Processes \ {f} : flush'[g] = flush[g]
    BY <1>0, <1>5
  <2>2. \A g \in Processes : flush'[g].pc \in {"finalize", "unlink"} => flush'[g].row # NoRow
    BY <1>5, <2>1 DEF TypeInv, FlushLocals
  <2>3. n = rows'
    BY <1>b DEF n
  <2> QED BY <2>1, <2>2, <2>3 DEF FlushLocals
<1>6. CASE Flush(f) \/ \E p \in Paths : FlushPath(f, p)
  <2>1. PICK S \in SUBSET (1..n) : BeginFlush(f, S)
    <3>1. staged \cap Live \in SUBSET (1..n) /\ \A p : {FindCurrentFile(p)} \cap staged \in SUBSET (1..n)
      BY <1>3
    <3> QED BY <1>6, <3>1 DEF Flush, FlushPath
  <2> DEFINE w == [NoFlush EXCEPT !.pc = "mark", !.todo = S, !.batch = S]
  <2>2. w \in FlushRecords(n) /\ w.pc = "mark"
    BY <1>1, <1>2 DEF FlushRecords, FlushPCs
  <2>3. flush' = [flush EXCEPT ![f] = w]
    BY <2>1 DEF BeginFlush
  <2> QED BY <1>5, <2>2, <2>3
<1>7. CASE MarkFlushing(f) \/ RecordFlushFailure(f)
  <2>1. PICK r \in v.todo, pc \in {"sdk", "mark", "pack", "fail"} :
          flush' = [flush EXCEPT ![f] = [v EXCEPT !.todo = v.todo \ {r}, !.pc = pc]]
    BY <1>7, Zenon DEF MarkFlushing, RecordFlushFailure, v
  <2> DEFINE w == [v EXCEPT !.todo = v.todo \ {r}, !.pc = pc]
  <2>2. w \in FlushRecords(n) /\ w.pc = pc
    <3>1. pc \in FlushPCs /\ v.todo \ {r} \in SUBSET (1..n)
      BY <1>1, <1>4
    <3> QED BY <1>1, <1>2, <3>1 DEF FlushRecords, FlushPCs
  <2> QED BY <1>5, <2>1, <2>2
<1>8. CASE EnsureSDK(f) \/ FlushReturn(f) \/ CrashFlush(f)
  <2>1. \/ flush' = [flush EXCEPT ![f] = NoFlush]
        \/ flush' = [flush EXCEPT ![f] = [v EXCEPT !.pc = "pack"]]
    BY <1>8 DEF EnsureSDK, FlushReturn, CrashFlush, FlushTo, v
  <2>2. [v EXCEPT !.pc = "pack"] \in FlushRecords(n) /\ [v EXCEPT !.pc = "pack"].pc = "pack"
    BY <1>1, <1>2 DEF FlushRecords, FlushPCs
  <2> QED BY <1>2, <1>5, <2>1, <2>2
<1>9. CASE UploadPackedGroup(f)
  <2>1. PICK g \in SUBSET v.batch, pc \in {"pack", "fail", "pin"},
             bad \in SUBSET v.batch, good \in SUBSET v.batch :
          flush' = [flush EXCEPT ![f] = [v EXCEPT !.batch = v.batch \ g, !.pc = pc,
                                                  !.todo = bad, !.members = good]]
    <3> DEFINE to(g, pc, bad, good) ==
          flush' = [flush EXCEPT ![f] = [v EXCEPT !.batch = v.batch \ g, !.pc = pc,
                                                  !.todo = bad, !.members = good]]
    <3>1. PICK g \in SUBSET v.batch :
            \/ to(g, "pack", {}, {})
            \/ \E r \in g : to(g, "fail", {r}, {})
            \/ to(g, "fail", g, {})
            \/ to(g, "pin", {}, g)
      BY <1>9, ZenonT(30) DEF UploadPackedGroup, v
    <3> HIDE DEF to
    <3>2. /\ {} \in SUBSET v.batch /\ g \in SUBSET v.batch
          /\ \A r \in g : {r} \in SUBSET v.batch
      BY <3>1
    <3>3. \E pc \in {"pack", "fail", "pin"}, bad \in SUBSET v.batch, good \in SUBSET v.batch :
            to(g, pc, bad, good)
      BY <3>1, <3>2, Zenon
    <3> QED BY <3>3 DEF to
  <2> DEFINE w == [v EXCEPT !.batch = v.batch \ g, !.pc = pc, !.todo = bad, !.members = good]
  <2>2. /\ v.batch \ g \in SUBSET (1..n) /\ bad \in SUBSET (1..n) /\ good \in SUBSET (1..n)
        /\ pc \in FlushPCs
    BY <1>1, <1>4
  <2>3. w \in FlushRecords(n) /\ w.pc = pc
    BY <1>1, <1>2, <2>2 DEF FlushRecords, FlushPCs
  <2> QED BY <1>5, <2>1, <2>3
<1>10. ASSUME NEW r \in 1..n, FailMember(f, r) PROVE FlushLocals'
  <2> DEFINE w == [v EXCEPT !.pc = "fail", !.todo = {r}, !.members = {}, !.row = NoRow]
  <2>1. "fail" \in FlushPCs /\ {r} \in SUBSET (1..n)
    BY <1>4
  <2>2. w \in FlushRecords(n) /\ w.pc = "fail"
    BY <1>1, <1>2, <2>1 DEF FlushRecords, FlushPCs
  <2> QED BY <1>5, <1>10, <2>2 DEF FailMember, v
<1>11. CASE PinObject(f)
  <2>1. PICK r \in v.members :
          \/ flush' = [flush EXCEPT ![f] = [v EXCEPT !.pc = "finalize", !.row = r,
                                                     !.members = v.members \ {r}]]
          \/ FailMember(f, r)
    BY <1>11 DEF PinObject, v
  <2> DEFINE w == [v EXCEPT !.pc = "finalize", !.row = r, !.members = v.members \ {r}]
  <2>2. r \in 1..n /\ r \in 0..n /\ r # NoRow /\ v.members \ {r} \in SUBSET (1..n)
    BY <1>a, <1>1 DEF NoRow
  <2>3. w \in FlushRecords(n) /\ w.row = r
    BY <1>1, <1>2, <2>2 DEF FlushRecords, FlushPCs
  <2> QED BY <1>5, <1>10, <2>1, <2>2, <2>3
<1>12. CASE FinalizeDurable(f)
  <2>1. v.row \in 1..n /\ v.row # NoRow
    BY <1>a, <1>1, <1>12 DEF FinalizeDurable, FlushAt, TypeInv, FlushLocals, NoRow, v
  <2> DEFINE w == [v EXCEPT !.pc = "unlink"]
  <2>2. w \in FlushRecords(n) /\ w.row = v.row
    BY <1>1, <1>2 DEF FlushRecords, FlushPCs
  <2>3. FailMember(f, v.row) \/ flush' = [flush EXCEPT ![f] = w]
    BY <1>12 DEF FinalizeDurable, FlushTo, v
  <2> QED BY <1>5, <1>10, <2>1, <2>2, <2>3
<1>13. CASE RemoveStagedBuffer(f)
  <2>1. PICK pc \in {"pack", "pin"} :
          flush' = [flush EXCEPT ![f] = [v EXCEPT !.row = NoRow, !.pc = pc]]
    BY <1>13, Zenon DEF RemoveStagedBuffer, v
  <2> DEFINE w == [v EXCEPT !.row = NoRow, !.pc = pc]
  <2>2. w \in FlushRecords(n) /\ w.pc = pc
    BY <1>1, <1>2 DEF FlushRecords, FlushPCs
  <2> QED BY <1>5, <2>1, <2>2
<1> QED BY <1>6, <1>7, <1>8, <1>9, <1>11, <1>12, <1>13 DEF FlushStep

-----------------------------------------------------------------------------
(* The locals of operations after a step of operation c.                   *)

(* The path's identity: some version of the path carries it.               *)
Adopted(p, u) == \E q \in 1..rows : path[q] = p /\ uuid[q] = u

(* An operation that will insert a non-current row has adopted the         *)
(* identity of a version of its path.                                      *)
AdoptInv ==
  \A c \in Writing : ~client[c].current => Adopted(client[c].path, client[c].uuid)

(* Rows and running operations fit into the table.                         *)
RoomInv == rows + Cardinality(Writing) <= MaxRows

(* A row is staged or has an object key, never both; only a row with a key *)
(* is removed, and Remove counts the references of that row's object.      *)
KeyInv ==
  /\ staged \cap keyed = {}
  /\ deleted \subseteq keyed
  /\ \A c \in Clients : client[c].pc = "tombstone" =>
       client[c].row \in keyed /\ client[c].content = content[client[c].row]

ClientMove(c, w) ==
  /\ w \in ClientRecords(rows)
  /\ client' = [client EXCEPT ![c] = w]
  /\ w.pc \in WritingPCs =>
       (c \in Writing \/ RoomForRow) /\ (w.current \/ Adopted(w.path, w.uuid))
  /\ w.pc = "tombstone" => w.row \in keyed /\ w.content = content[w.row]

LEMMA ClientFields ==
  ASSUME NEW n \in Nat, client \in [Clients -> ClientRecords(n)], NEW c \in Clients
  PROVE  /\ client[c] \in ClientShape(n) /\ client[c].pc \in ClientPCs
         /\ client[c].path \in Paths /\ client[c].row \in 0..n
         /\ client[c].content \in Contents /\ client[c].uuid \in {0} \cup UUIDs
         /\ client[c].seq \in Nat /\ client[c].current \in BOOLEAN
         /\ client[c].tries \in 0..maxAdoptRetries
         /\ c \in Writing <=> client[c].pc \in WritingPCs
<1>1. client[c] \in ClientShape(n)
  BY DEF ClientRecords
<1>2. c \in Writing <=> client[c].pc \in WritingPCs
  BY DEF Writing, WritingPCs
<1> QED BY <1>1, <1>2 DEF ClientShape

(* An operation returns, crashes or moves on with the locals it has.       *)
LEMMA ReturnMoves ==
  ASSUME TypeInv, NEW c \in Clients, Return(c)
  PROVE  ClientMove(c, Idle)
<1>1. rows \in Nat
  BY MaxRowsAssumption DEF TypeInv, TableType
<1>2. Idle \in ClientRecords(rows) /\ Idle.pc = "idle"
  BY <1>1, IdleType
<1> QED BY <1>2 DEF ClientMove, Return, WritingPCs

LEMMA GotoMoves ==
  ASSUME TypeInv, AdoptInv, NEW c \in Clients, NEW pc \in ClientPCs, Goto(c, pc),
         \/ pc \in {"clear", "delete"}
         \/ pc = "markLost" /\ client[c].row # NoRow
         \/ pc \in {"repin", "insert"} /\ client[c].pc \in {"fetch", "repin"}
  PROVE  \E w : ClientMove(c, w)
<1> DEFINE v == client[c]
           w == [v EXCEPT !.pc = pc]
<1>1. rows \in Nat /\ client \in [Clients -> ClientRecords(rows)]
  BY MaxRowsAssumption DEF TypeInv, TableType, ClientLocals
<1>2. v \in ClientShape(rows) /\ v \in ClientRecords(rows) /\ (c \in Writing <=> v.pc \in WritingPCs)
  BY <1>1, ClientFields
<1>0. client' = [client EXCEPT ![c] = w]
  BY DEF Goto
<1> HIDE DEF v
<1>3. w \in ClientShape(rows)
  BY <1>2 DEF ClientShape
<1>4. w.pc = pc /\ w.row = v.row /\ w.current = v.current /\ w.path = v.path /\ w.uuid = v.uuid
  BY <1>2 DEF ClientShape
<1> HIDE DEF w
<1>5. v.pc \in {"fetch", "repin"} => ~v.current
  BY <1>2 DEF ClientRecords
<1>6. w \in ClientRecords(rows)
  BY <1>3, <1>4, <1>5 DEF ClientRecords, v
<1>7. pc \in WritingPCs => c \in Writing /\ Adopted(v.path, v.uuid)
  BY <1>2, <1>5 DEF AdoptInv, v, WritingPCs
<1> QED BY <1>0, <1>4, <1>6, <1>7 DEF ClientMove

(* A path's winner is a version of the path.                               *)
LEMMA WinnerIsAdopted ==
  ASSUME TypeInv, NEW p, FindCurrentFile(p) # NoRow
  PROVE  /\ FindCurrentFile(p) \in 1..rows /\ path[FindCurrentFile(p)] = p
         /\ uuid[FindCurrentFile(p)] \in {0} \cup UUIDs
         /\ content[FindCurrentFile(p)] \in Contents
         /\ Adopted(p, uuid[FindCurrentFile(p)])
<1> DEFINE r == FindCurrentFile(p)
<1>1. rows \in Nat /\ 1..rows \subseteq Rows
  BY MaxRowsAssumption DEF TypeInv, TableType, Rows
<1>2. r \in Winners(p) /\ r \in 1..rows
  BY <1>1, FindCurrentFinds
<1>3. path[r] = p
  BY <1>2 DEF Winners
<1>4. uuid[r] \in {0} \cup UUIDs /\ content[r] \in Contents
  BY <1>1, <1>2 DEF TypeInv, TableType
<1> QED BY <1>2, <1>3, <1>4 DEF Adopted

LEMMA MaxSeqIsNat ==
  ASSUME TypeInv, NEW u
  PROVE  MaxSeq(u) \in Nat
<1>1. rows \in Nat /\ \A r \in 1..rows : seq[r] \in Nat
  BY MaxRowsAssumption DEF TypeInv, TableType, Rows
<1> QED BY <1>1, MaxSeqType

LEMMA LargestOfTwo ==
  ASSUME NEW a \in Nat, NEW b \in Nat
  PROVE  Largest({a, b}) \in Nat
<1> DEFINE S == {a, b}
<1>1. S \in SUBSET Nat
  OBVIOUS
<1>2. \E m \in S : \A n \in S : n <= m
  <2>1. CASE a <= b
    BY <2>1
  <2>2. CASE b <= a
    BY <2>2
  <2> QED BY <2>1, <2>2
<1> HIDE DEF S
<1>3. Largest(S) \in S
  BY <1>1, <1>2, LargestIs
<1> QED BY <1>1, <1>3 DEF S

LEMMA BuildPendingRecordMoves ==
  ASSUME TypeInv, NEW c \in Clients, NEW p \in Paths, NEW x \in Contents, BuildPendingRecord(c, p, x)
  PROVE  \E w : ClientMove(c, w)
<1> DEFINE r == FindCurrentFile(p)
           u == IF r = NoRow THEN FreshUUID ELSE uuid[r]
           w == [pc |-> "adopt", path |-> p, row |-> NoRow, content |-> x, uuid |-> u,
                 seq |-> MaxSeq(u) + 1, current |-> r = NoRow, tries |-> 0]
<1>1. client' = [client EXCEPT ![c] = w] /\ RoomForRow
  BY DEF BuildPendingRecord
<1>2. rows \in Nat
  BY MaxRowsAssumption DEF TypeInv, TableType
<1>3. u \in {0} \cup UUIDs /\ (r = NoRow \/ Adopted(p, u))
  BY <1>1, <1>2, FreshUUIDIsFresh, WinnerIsAdopted
<1> HIDE DEF u
<1>4. MaxSeq(u) + 1 \in Nat
  BY MaxSeqIsNat
<1>5. (r = NoRow) \in BOOLEAN /\ NoRow \in 0..rows /\ 0 \in 0..maxAdoptRetries /\ 0 < maxAdoptRetries
  BY <1>2 DEF NoRow, maxAdoptRetries
<1> HIDE DEF r
<1>6. w \in ClientShape(rows)
  BY <1>3, <1>4, <1>5 DEF ClientShape, ClientPCs
<1>7. w.pc = "adopt" /\ w.tries = 0 /\ w.current = (r = NoRow) /\ w.path = p /\ w.uuid = u
  OBVIOUS
<1> HIDE DEF w
<1>8. w \in ClientRecords(rows)
  BY <1>5, <1>6, <1>7 DEF ClientRecords
<1> QED BY <1>1, <1>3, <1>7, <1>8 DEF ClientMove

LEMMA VerifyOrRemoveResolveMoves ==
  ASSUME TypeInv, NEW c \in Clients, NEW p \in Paths, VerifyResolve(c, p) \/ RemoveResolve(c, p)
  PROVE  \E w : ClientMove(c, w)
<1> DEFINE r == FindCurrentFile(p)
<1>0. rows \in Nat
  BY MaxRowsAssumption DEF TypeInv, TableType
<1>1. r \in keyed /\ r \in 1..rows /\ r # NoRow /\ r \in 0..rows
  <2>1. r \in keyed
    BY DEF VerifyResolve, RemoveResolve
  <2>2. r \in 1..rows
    BY <2>1 DEF TypeInv, StoreType
  <2> QED BY <1>0, <2>1, <2>2 DEF NoRow
<1>2. content[r] \in Contents
  BY <1>1, WinnerIsAdopted
<1>3. PICK pc \in {"object", "tombstone"} :
        client' = [client EXCEPT ![c] = [Idle EXCEPT !.pc = pc, !.path = p, !.row = r,
                                                     !.content = content[r]]]
  BY Zenon DEF VerifyResolve, RemoveResolve
<1> DEFINE w == [Idle EXCEPT !.pc = pc, !.path = p, !.row = r, !.content = content[r]]
<1> HIDE DEF r
<1>4. w \in ClientShape(rows)
  BY <1>0, <1>1, <1>2, IdleType DEF ClientShape, ClientPCs
<1>5. w.pc = pc /\ w.row = r /\ w.content = content[r]
  BY <1>0, IdleType DEF ClientShape
<1> HIDE DEF w
<1>6. w \in ClientRecords(rows)
  BY <1>1, <1>4, <1>5 DEF ClientRecords
<1> QED BY <1>1, <1>3, <1>5, <1>6 DEF ClientMove, WritingPCs, w

LEMMA RestoreResolveMoves ==
  ASSUME TypeInv, NEW c \in Clients, NEW p \in Paths, NEW r \in Rows, RestoreResolve(c, p, r)
  PROVE  \E w : ClientMove(c, w)
<1> DEFINE q == FindCurrentFile(p)
           s == MaxSeq(uuid[q]) + 1
           w == [Idle EXCEPT !.pc = "fetch", !.path = p, !.row = r, !.content = content[r],
                             !.uuid = uuid[q], !.seq = s]
<1>0. rows \in Nat
  BY MaxRowsAssumption DEF TypeInv, TableType
<1>1. client' = [client EXCEPT ![c] = w] /\ RoomForRow /\ q # NoRow /\ r \in Live
  BY DEF RestoreResolve
<1>2. r \in 0..rows /\ content[r] \in Contents
  BY <1>0, <1>1 DEF Live, TypeInv, TableType
<1>3. uuid[q] \in {0} \cup UUIDs /\ Adopted(p, uuid[q]) /\ s \in Nat
  BY <1>1, WinnerIsAdopted, MaxSeqIsNat
<1> HIDE DEF q, s
<1>4. w \in ClientShape(rows)
  BY <1>0, <1>2, <1>3, IdleType DEF ClientShape, ClientPCs
<1>5. w.pc = "fetch" /\ w.path = p /\ w.uuid = uuid[q] /\ w.current = FALSE
  BY <1>0, IdleType DEF ClientShape
<1> HIDE DEF w
<1>6. w \in ClientRecords(rows)
  BY <1>4, <1>5 DEF ClientRecords
<1> QED BY <1>1, <1>3, <1>5, <1>6 DEF ClientMove

LEMMA StagedAdoptMoves ==
  ASSUME TypeInv, AdoptInv, NEW c \in Clients, StagedAdopt(c)
  PROVE  \E w : ClientMove(c, w)
<1> DEFINE v == client[c]
           q == FindCurrentFile(v.path)
<1>0. rows \in Nat /\ client \in [Clients -> ClientRecords(rows)]
  BY MaxRowsAssumption DEF TypeInv, TableType, ClientLocals
<1>1. /\ v \in ClientShape(rows) /\ v \in ClientRecords(rows) /\ v.pc = "adopt"
      /\ c \in Writing
  BY <1>0, ClientFields DEF StagedAdopt, At, WritingPCs
<1>2. v.tries < maxAdoptRetries /\ (v.current \/ Adopted(v.path, v.uuid))
  BY <1>1 DEF ClientRecords, AdoptInv
<1>3. CASE Goto(c, "commit")
  <2> DEFINE w == [v EXCEPT !.pc = "commit"]
  <2>1. client' = [client EXCEPT ![c] = w]
    BY <1>3 DEF Goto
  <2> HIDE DEF v
  <2>2. w \in ClientShape(rows)
    BY <1>1 DEF ClientShape, ClientPCs
  <2>3. /\ w.pc = "commit" /\ w.tries = v.tries /\ w.path = v.path /\ w.uuid = v.uuid
        /\ w.current = v.current
    BY <1>1 DEF ClientShape
  <2> HIDE DEF w
  <2>4. w \in ClientRecords(rows)
    BY <1>2, <2>2, <2>3 DEF ClientRecords
  <2> QED BY <1>1, <1>2, <2>1, <2>3, <2>4 DEF ClientMove
<1>4. CASE AdoptWinner(c)
  <2> DEFINE w == [v EXCEPT !.pc = "commit", !.current = FALSE, !.uuid = uuid[q]]
  <2>1. client' = [client EXCEPT ![c] = w]
    BY <1>4 DEF AdoptWinner
  <2>a. uuid[q] \in {0} \cup UUIDs /\ Adopted(v.path, uuid[q])
    BY <1>4, WinnerIsAdopted DEF AdoptWinner, NothingToAdopt
  <2> HIDE DEF v, q
  <2>2. w \in ClientShape(rows)
    BY <1>1, <2>a DEF ClientShape, ClientPCs
  <2>3. /\ w.pc = "commit" /\ w.tries = v.tries /\ w.path = v.path /\ w.uuid = uuid[q]
        /\ w.current = FALSE
    BY <1>1 DEF ClientShape
  <2> HIDE DEF w
  <2>4. w \in ClientRecords(rows)
    BY <1>2, <2>2, <2>3 DEF ClientRecords
  <2> QED BY <1>1, <2>a, <2>1, <2>3, <2>4 DEF ClientMove
<1> QED BY <1>3, <1>4 DEF StagedAdopt

(* A create conflict: try again, or give up.                               *)
LEMMA ConflictMoves ==
  ASSUME TypeInv, NEW c \in Clients, At(c, "commit"), NEW s \in Nat, client[c].current,
         client' = [client EXCEPT ![c] =
           [@ EXCEPT !.seq = s, !.tries = client[c].tries + 1,
                     !.pc = IF client[c].tries + 1 < maxAdoptRetries THEN "adopt" ELSE "gaveUp"]]
  PROVE  \E w : ClientMove(c, w)
<1> DEFINE v == client[c]
<1>0. rows \in Nat /\ client \in [Clients -> ClientRecords(rows)]
  BY MaxRowsAssumption DEF TypeInv, TableType, ClientLocals
<1>1. /\ v \in ClientShape(rows) /\ v \in ClientRecords(rows) /\ v.pc = "commit"
      /\ c \in Writing /\ v.tries \in 0..maxAdoptRetries
  BY <1>0, ClientFields DEF At, WritingPCs
<1>2. v.tries < maxAdoptRetries
  BY <1>1 DEF ClientRecords
<1>3. PICK t \in 0..maxAdoptRetries, pc \in {"adopt", "gaveUp"} :
        /\ client' = [client EXCEPT ![c] = [v EXCEPT !.seq = s, !.tries = t, !.pc = pc]]
        /\ pc = "adopt" => t < maxAdoptRetries
  <2>1. v.tries + 1 \in 0..maxAdoptRetries
    BY <1>1, <1>2 DEF maxAdoptRetries
  <2>2. CASE v.tries + 1 < maxAdoptRetries
    <3>1. client' = [client EXCEPT ![c] = [v EXCEPT !.seq = s, !.tries = v.tries + 1, !.pc = "adopt"]]
      BY <2>2
    <3> QED BY <2>1, <2>2, <3>1
  <2>3. CASE ~(v.tries + 1 < maxAdoptRetries)
    <3>1. client' = [client EXCEPT ![c] = [v EXCEPT !.seq = s, !.tries = v.tries + 1, !.pc = "gaveUp"]]
      BY <2>3
    <3> QED BY <2>1, <2>3, <3>1
  <2> QED BY <2>2, <2>3
<1> DEFINE w == [v EXCEPT !.seq = s, !.tries = t, !.pc = pc]
<1>4. v.current
  OBVIOUS
<1> HIDE DEF v
<1>5. w \in ClientShape(rows)
  BY <1>1 DEF ClientShape, ClientPCs
<1>6. w.pc = pc /\ w.tries = t /\ w.current = v.current
  BY <1>1 DEF ClientShape
<1> HIDE DEF w
<1>7. w \in ClientRecords(rows)
  BY <1>3, <1>5, <1>6 DEF ClientRecords
<1> QED BY <1>1, <1>3, <1>4, <1>6, <1>7 DEF ClientMove, w

LEMMA ClearResolveMoves ==
  ASSUME TypeInv, NEW c \in Clients, ClearResolve(c)
  PROVE  \E w : ClientMove(c, w)
<1> DEFINE v == client[c]
           r == FindCurrentFile(v.path)
           w == [v EXCEPT !.pc = "clearWrite", !.row = r]
<1>0. rows \in Nat /\ client \in [Clients -> ClientRecords(rows)]
  BY MaxRowsAssumption DEF TypeInv, TableType, ClientLocals
<1>1. CASE r = NoRow
  BY <1>1, ReturnMoves DEF ClearResolve
<1>2. CASE r # NoRow
  <2>1. client' = [client EXCEPT ![c] = w]
    BY <1>2 DEF ClearResolve
  <2>2. r \in 0..rows
    BY <1>2, WinnerIsAdopted
  <2>3. v \in ClientShape(rows)
    BY <1>0, ClientFields
  <2> HIDE DEF v, r
  <2>4. w \in ClientShape(rows)
    BY <2>2, <2>3 DEF ClientShape, ClientPCs
  <2>5. w.pc = "clearWrite" /\ w.row = r
    BY <2>3 DEF ClientShape
  <2> HIDE DEF w
  <2>6. w \in ClientRecords(rows)
    BY <1>2, <2>4, <2>5 DEF ClientRecords
  <2> QED BY <2>1, <2>5, <2>6 DEF ClientMove, WritingPCs
<1> QED BY <1>1, <1>2

-----------------------------------------------------------------------------
(* What a step does to the table: nothing, a tombstone, or one new row.    *)
TableKept == UNCHANGED <<rowVars, current, deleted>>

Tombstoned(c) ==
  /\ client[c].pc = "tombstone"
  /\ deleted' = deleted \cup {client[c].row}
  /\ UNCHANGED <<rowVars, current>>

(* A row that claims the path's name found no winner there.                *)
RowInserted(c) ==
  /\ client[c].pc \in {"commit", "insert"}
  /\ client[c].current => Winners(client[c].path) = {}
  /\ \E s \in Nat : Insert(client[c].path, client[c].uuid, client[c].content, s)
  /\ Return(c)
  /\ UNCHANGED deleted

LEMMA CommitFileRecordSteps ==
  ASSUME TypeInv, NEW c \in Clients, CommitFileRecord(c)
  PROVE  RowInserted(c) \/ ((\E w : ClientMove(c, w)) /\ TableKept)
<1> DEFINE m == client[c]
           s == Largest({MaxSeq(m.uuid), m.seq}) + 1
<1>0. rows \in Nat /\ client \in [Clients -> ClientRecords(rows)]
  BY MaxRowsAssumption DEF TypeInv, TableType, ClientLocals
<1>1. m.pc = "commit" /\ UNCHANGED deleted
  BY DEF CommitFileRecord, At
<1>2. s \in Nat
  <2>1. MaxSeq(m.uuid) \in Nat /\ m.seq \in Nat
    BY <1>0, ClientFields, MaxSeqIsNat
  <2>2. Largest({MaxSeq(m.uuid), m.seq}) \in Nat
    BY <2>1, LargestOfTwo
  <2> QED BY <2>2
<1> HIDE DEF s
<1>3. CASE /\ ~(m.current /\ Winners(m.path) # {})
           /\ Insert(m.path, m.uuid, m.content, s) /\ Return(c)
  BY <1>1, <1>2, <1>3 DEF RowInserted
<1>4. CASE /\ m.current
           /\ client' = [client EXCEPT ![c] =
                [@ EXCEPT !.seq = s, !.tries = m.tries + 1,
                          !.pc = IF m.tries + 1 < maxAdoptRetries THEN "adopt" ELSE "gaveUp"]]
           /\ UNCHANGED <<rowVars, current>>
  <2>1. \E w : ClientMove(c, w)
    BY <1>1, <1>2, <1>4, ConflictMoves DEF At
  <2> QED BY <1>1, <1>4, <2>1 DEF TableKept
<1>5. CASE Return(c) /\ UNCHANGED <<rowVars, current>>
  <2>1. \E w : ClientMove(c, w)
    BY <1>5, ReturnMoves
  <2> QED BY <1>1, <1>5, <2>1 DEF TableKept
<1> QED BY <1>3, <1>4, <1>5 DEF CommitFileRecord, s

LEMMA ClientSteps ==
  ASSUME TypeInv, AdoptInv, NEW c \in Clients, ClientStart(c) \/ ClientStep(c) \/ CrashClient(c)
  PROVE  \/ RowInserted(c)
         \/ (\E w : ClientMove(c, w)) /\ (TableKept \/ Tombstoned(c))
<1>0. rows \in Nat /\ client \in [Clients -> ClientRecords(rows)] /\ client[c] \in ClientRecords(rows)
  BY MaxRowsAssumption DEF TypeInv, TableType, ClientLocals
<1>1. CASE ClientStart(c)
  <2>1. \E w : ClientMove(c, w)
    BY <1>1, BuildPendingRecordMoves, VerifyOrRemoveResolveMoves, RestoreResolveMoves DEF ClientStart
  <2>2. TableKept
    BY <1>1 DEF ClientStart, BuildPendingRecord, VerifyResolve, RemoveResolve, RestoreResolve, TableKept
  <2> QED BY <2>1, <2>2
<1>2. CASE StagedAdopt(c)
  BY <1>2, StagedAdoptMoves DEF StagedAdopt, TableKept
<1>3. CASE CommitFileRecord(c)
  BY <1>3, CommitFileRecordSteps
<1>4. CASE PutGaveUp(c) \/ MarkLost(c) \/ ClearLostStatus(c) \/ DeleteObject(c) \/ CrashClient(c)
  <2>1. Return(c) /\ TableKept
    BY <1>4 DEF PutGaveUp, MarkLost, ClearLostStatus, DeleteObject, CrashClient, TableKept
  <2> QED BY <2>1, ReturnMoves
<1>5. CASE ClearResolve(c)
  BY <1>5, ClearResolveMoves DEF ClearResolve, TableKept
<1>6. CASE VerifyObject(c)
  <2>1. TableKept /\ (Goto(c, "clear") \/ Goto(c, "markLost") \/ Return(c))
    BY <1>6 DEF VerifyObject, TableKept
  <2>2. client[c].row # NoRow
    BY <1>0, <1>6 DEF VerifyObject, At, ClientRecords
  <2>3. "clear" \in ClientPCs /\ "markLost" \in ClientPCs
    BY DEF ClientPCs
  <2> QED BY <2>1, <2>2, <2>3, GotoMoves, ReturnMoves
<1>7. CASE Tombstone(c)
  <2>1. Tombstoned(c) \/ TableKept
    BY <1>7 DEF Tombstone, Tombstoned, TableKept, At
  <2>2. Goto(c, "delete") \/ Return(c)
    BY <1>7 DEF Tombstone
  <2>3. "delete" \in ClientPCs
    BY DEF ClientPCs
  <2> QED BY <2>1, <2>2, <2>3, GotoMoves, ReturnMoves
<1>8. CASE RestoreFetch(c) \/ RestorePin(c)
  <2>1. TableKept /\ (Goto(c, "repin") \/ Goto(c, "insert") \/ Return(c))
    BY <1>8 DEF RestoreFetch, RestorePin, TableKept
  <2>2. client[c].pc \in {"fetch", "repin"}
    BY <1>8 DEF RestoreFetch, RestorePin, At
  <2>3. "repin" \in ClientPCs /\ "insert" \in ClientPCs
    BY DEF ClientPCs
  <2> QED BY <2>1, <2>2, <2>3, GotoMoves, ReturnMoves
<1>9. CASE RestoreInsert(c)
  <2>1. client[c].pc = "insert" /\ ~client[c].current /\ client[c].seq \in Nat
    BY <1>0, <1>9, ClientFields DEF RestoreInsert, At, ClientRecords
  <2>2. Return(c) /\ UNCHANGED deleted
    BY <1>9 DEF RestoreInsert
  <2>3. \/ Insert(client[c].path, client[c].uuid, client[c].content, client[c].seq)
        \/ UNCHANGED <<rowVars, current>>
    BY <1>9 DEF RestoreInsert
  <2> QED BY <2>1, <2>2, <2>3, ReturnMoves DEF RowInserted, TableKept
<1> QED BY <1>1, <1>2, <1>3, <1>4, <1>5, <1>6, <1>7, <1>8, <1>9 DEF ClientStep

(* A flush, the network and time change neither the table nor operations.  *)
OtherStep ==
  \/ \E f \in Processes : FlushStep(f) \/ CrashFlush(f) \/ \E p \in Paths : FlushPath(f, p)
  \/ \E x \in Contents : Lose(x)
  \/ FaultsStop
  \/ UNCHANGED vars

LEMMA OtherSteps ==
  OtherStep => TableKept /\ UNCHANGED client
BY DEF OtherStep, TableKept, FlushStep, CrashFlush, FlushPath, Flush, BeginFlush, MarkFlushing, EnsureSDK,
       UploadPackedGroup, RecordFlushFailure, PinObject, FinalizeDurable, RemoveStagedBuffer,
       FlushReturn, Lose, FaultsStop, vars

LEMMA StepKinds ==
  [Next]_vars =>
    \/ \E c \in Clients : ClientStart(c) \/ ClientStep(c) \/ CrashClient(c)
    \/ OtherStep
BY DEF Next, OtherStep

-----------------------------------------------------------------------------
(* The type invariant and the room for rows, step by step.                 *)
LEMMA WritingAfter ==
  ASSUME NEW c \in Clients, NEW w, client' = [client EXCEPT ![c] = w],
         client \in [Clients -> ClientRecords(rows)]
  PROVE  Writing' = IF w.pc \in WritingPCs THEN Writing \cup {c} ELSE Writing \ {c}
<1>1. client'[c] = w /\ \A d \in Clients \ {c} : client'[d] = client[d]
  OBVIOUS
<1> QED BY <1>1 DEF Writing, WritingPCs

(* An operation that is going to insert a row has room for it.             *)
LEMMA WriterHasRoom ==
  ASSUME TypeInv, RoomInv, NEW c \in Clients, client[c].pc \in WritingPCs
  PROVE  /\ rows + 1 \in 1..MaxRows /\ rows + 1 \in Rows /\ rows + 1 \in Nat
         /\ Cardinality(Writing \ {c}) = Cardinality(Writing) - 1
<1>1. c \in Writing
  BY DEF Writing, WritingPCs
<1>2. Cardinality(Writing \ {c}) = Cardinality(Writing) - 1
  BY <1>1, WritingIsFinite, FS_RemoveElement
<1>3. Cardinality(Writing \ {c}) \in Nat
  <2>1. Writing \ {c} \in SUBSET Writing
    OBVIOUS
  <2> QED BY <2>1, WritingIsFinite, FS_Subset, FS_CardinalityType
<1>4. rows \in Nat /\ MaxRows \in Nat /\ Cardinality(Writing) \in Nat
  BY WritingIsFinite, MaxRowsAssumption DEF TypeInv, TableType
<1>5. rows + 1 \in 1..MaxRows
  BY <1>2, <1>3, <1>4 DEF RoomInv
<1> QED BY <1>2, <1>4, <1>5 DEF Rows

LEMMA RoomStep ==
  ASSUME TypeInv, RoomInv, NEW c \in Clients, NEW w, ClientMove(c, w),
         \/ rows' = rows
         \/ rows' = rows + 1 /\ client[c].pc \in WritingPCs /\ w.pc \notin WritingPCs
  PROVE  RoomInv'
<1>1. Writing' = IF w.pc \in WritingPCs THEN Writing \cup {c} ELSE Writing \ {c}
  BY WritingAfter DEF ClientMove, TypeInv, ClientLocals
<1>2. rows \in Nat /\ MaxRows \in Nat /\ Cardinality(Writing) \in Nat /\ IsFiniteSet(Writing)
  BY WritingIsFinite, MaxRowsAssumption DEF TypeInv, TableType
<1>3. c \in Writing <=> client[c].pc \in WritingPCs
  BY DEF Writing, WritingPCs
<1>4. CASE w.pc \in WritingPCs
  <2>1. rows' = rows /\ Writing' = Writing \cup {c} /\ (c \in Writing \/ RoomForRow)
    BY <1>1, <1>4 DEF ClientMove
  <2>2. CASE c \in Writing
    <3>1. Writing' = Writing
      BY <2>1, <2>2
    <3> QED BY <2>1, <3>1 DEF RoomInv
  <2>3. CASE c \notin Writing
    <3>1. Cardinality(Writing') = Cardinality(Writing) + 1
      BY <1>2, <2>1, <2>3, FS_AddElement
    <3> QED BY <1>2, <2>1, <2>3, <3>1 DEF RoomInv, RoomForRow
  <2> QED BY <2>2, <2>3
<1>5. CASE w.pc \notin WritingPCs
  <2>1. CASE c \in Writing
    <3>1. Cardinality(Writing') = Cardinality(Writing) - 1
      BY <1>1, <1>3, <1>5, <2>1, WriterHasRoom
    <3>2. rows' \in {rows, rows + 1}
      OBVIOUS
    <3> QED BY <1>2, <3>1, <3>2 DEF RoomInv
  <2>2. CASE c \notin Writing
    <3>1. Writing' = Writing /\ rows' = rows
      BY <1>1, <1>3, <1>5, <2>2
    <3> QED BY <3>1 DEF RoomInv
  <2> QED BY <2>1, <2>2
<1> QED BY <1>4, <1>5

LEMMA ClientLocalsAfter ==
  ASSUME TypeInv, NEW c \in Clients, NEW w, ClientMove(c, w), rows' \in {rows, rows + 1}
  PROVE  ClientLocals'
<1>1. rows \in Nat
  BY MaxRowsAssumption DEF TypeInv, TableType
<1>2. 0..rows \subseteq 0..rows'
  BY <1>1
<1>3. ClientRecords(rows) \subseteq ClientRecords(rows')
  <2>1. ClientShape(rows) \subseteq ClientShape(rows')
    BY <1>2 DEF ClientShape
  <2> QED BY <2>1 DEF ClientRecords
<1>4. client' \in [Clients -> ClientRecords(rows)]
  BY DEF ClientMove, TypeInv, ClientLocals
<1> QED BY <1>3, <1>4 DEF ClientLocals

LEMMA FlushLocalsKept ==
  ASSUME TypeInv, UNCHANGED flush, rows' \in {rows, rows + 1}
  PROVE  FlushLocals'
<1>1. rows \in Nat
  BY MaxRowsAssumption DEF TypeInv, TableType
<1>2. 0..rows \subseteq 0..rows' /\ 1..rows \subseteq 1..rows'
  BY <1>1
<1>3. FlushRecords(rows) \subseteq FlushRecords(rows')
  BY <1>2 DEF FlushRecords
<1> QED BY <1>3 DEF TypeInv, FlushLocals

LEMMA TableAfterInsert ==
  ASSUME TypeInv, RoomInv, NEW c \in Clients, RowInserted(c)
  PROVE  /\ TableType' /\ rows' = rows + 1 /\ rows + 1 \in Rows /\ rows \in Nat
         /\ path'[rows + 1] = client[c].path /\ uuid'[rows + 1] = client[c].uuid
         /\ content'[rows + 1] = client[c].content
         /\ \A r \in 1..rows : path'[r] = path[r] /\ uuid'[r] = uuid[r] /\ content'[r] = content[r]
         /\ current' = (current \ Winners(client[c].path)) \cup {rows + 1}
         /\ deleted' = deleted
         /\ 1..(rows + 1) = (1..rows) \cup {rows + 1} /\ rows + 1 \notin 1..rows
<1> DEFINE v == client[c]
<1>1. PICK s \in Nat : Insert(v.path, v.uuid, v.content, s)
  BY DEF RowInserted
<1>2. rows \in Nat /\ rows + 1 \in Rows /\ rows + 1 \in 0..MaxRows
  <2>1. v.pc \in WritingPCs
    BY DEF RowInserted, WritingPCs
  <2>2. rows \in Nat /\ MaxRows \in Nat
    BY MaxRowsAssumption DEF TypeInv, TableType
  <2>3. rows + 1 \in 1..MaxRows /\ rows + 1 \in Rows
    BY <2>1, WriterHasRoom
  <2> QED BY <2>2, <2>3
<1>3. v.path \in Paths /\ v.uuid \in {0} \cup UUIDs /\ v.content \in Contents
  BY <1>2, ClientFields DEF TypeInv, ClientLocals
<1>4. rows' = rows + 1 /\ UNCHANGED deleted
  BY <1>1 DEF Insert, RowInserted
<1>5. 1..(rows + 1) = (1..rows) \cup {rows + 1} /\ 1..rows \subseteq Rows /\ rows + 1 \notin 1..rows
  BY <1>2, MaxRowsAssumption DEF Rows, TypeInv, TableType
<1> HIDE DEF v
<1>6. /\ path' \in [Rows -> Paths] /\ uuid' \in [Rows -> {0} \cup UUIDs]
      /\ seq' \in [Rows -> Nat] /\ content' \in [Rows -> Contents]
  BY <1>1, <1>2, <1>3 DEF Insert, TypeInv, TableType
<1>7. current' = (current \ Winners(v.path)) \cup {rows + 1}
  BY <1>1 DEF Insert, PromoteCurrent
<1>8. current' \subseteq 1..rows' /\ deleted' \subseteq 1..rows'
  BY <1>4, <1>5, <1>7 DEF TypeInv, TableType
<1>9. TableType'
  BY <1>2, <1>4, <1>6, <1>8 DEF TableType
<1>10. /\ path'[rows + 1] = v.path /\ uuid'[rows + 1] = v.uuid /\ content'[rows + 1] = v.content
       /\ \A r \in 1..rows : path'[r] = path[r] /\ uuid'[r] = uuid[r] /\ content'[r] = content[r]
  <2>1. path \in [Rows -> Paths] /\ uuid \in [Rows -> {0} \cup UUIDs] /\ content \in [Rows -> Contents]
    BY DEF TypeInv, TableType
  <2>2. /\ path' = [path EXCEPT ![rows + 1] = v.path] /\ uuid' = [uuid EXCEPT ![rows + 1] = v.uuid]
        /\ content' = [content EXCEPT ![rows + 1] = v.content]
    BY <1>1 DEF Insert
  <2> QED BY <1>2, <1>5, <2>1, <2>2
<1> QED BY <1>2, <1>4, <1>5, <1>7, <1>9, <1>10 DEF v

LEMMA TableAfterTombstone ==
  ASSUME TypeInv, NEW c \in Clients, Tombstoned(c)
  PROVE  TableType' /\ client[c].row \in 1..rows
<1>1. client[c].row \in 0..rows /\ client[c].row # NoRow /\ rows \in Nat
  BY ClientFields, MaxRowsAssumption DEF Tombstoned, TypeInv, TableType, ClientLocals, ClientRecords
<1>2. client[c].row \in 1..rows
  BY <1>1 DEF NoRow
<1> QED BY <1>2 DEF Tombstoned, TypeInv, TableType, rowVars

LEMMA StoreTypeKept ==
  ASSUME TypeInv, rows' \in {rows, rows + 1}, NEW S \in SUBSET (1..rows'),
         \/ UNCHANGED status
         \/ \E r, t : t \in Statuses /\ status' = [status EXCEPT ![r] = t],
         keyed' \subseteq keyed \cup S, staged' \subseteq staged \cup S,
         buffers' \subseteq buffers \cup S,
         pinned' \subseteq Contents, lost' \subseteq Contents, leaked' \subseteq Contents,
         faulty' \in BOOLEAN
  PROVE  StoreType'
<1>1. rows \in Nat
  BY MaxRowsAssumption DEF TypeInv, TableType
<1>2. 1..rows \subseteq 1..rows'
  BY <1>1
<1>3. status' \in [Rows -> Statuses]
  BY DEF TypeInv, StoreType
<1> QED BY <1>2, <1>3 DEF TypeInv, StoreType

LEMMA StoreTypeOfClientSteps ==
  ASSUME TypeInv, NEW c \in Clients, ClientStart(c) \/ ClientStep(c) \/ CrashClient(c),
         rows' \in {rows, rows + 1}
  PROVE  StoreType'
<1> DEFINE v == client[c]
<1>0. /\ rows \in Nat /\ v.content \in Contents
      /\ {} \in SUBSET (1..rows') /\ (rows' = rows + 1 => {rows + 1} \in SUBSET (1..rows'))
  <2>1. rows \in Nat
    BY MaxRowsAssumption DEF TypeInv, TableType
  <2>2. v.content \in Contents
    BY <2>1, ClientFields DEF TypeInv, ClientLocals
  <2> QED BY <2>1, <2>2
<1>1. /\ {"staged", "durable", "failed"} \subseteq Statuses
      /\ pinned \subseteq Contents /\ lost \subseteq Contents /\ leaked \subseteq Contents /\ faulty \in BOOLEAN
  BY DEF Statuses, TypeInv, StoreType
<1> HIDE DEF v
<1>2. CASE \/ ClientStart(c) \/ StagedAdopt(c) \/ PutGaveUp(c) \/ VerifyObject(c) \/ ClearResolve(c)
           \/ Tombstone(c) \/ RestoreFetch(c)
  <2>1. UNCHANGED <<status, keyed, staged, buffers, pinned, lost, leaked, faulty>>
    BY <1>2 DEF ClientStart, BuildPendingRecord, VerifyResolve, RemoveResolve, RestoreResolve, StagedAdopt,
       PutGaveUp, VerifyObject, ClearResolve, Tombstone, RestoreFetch, diskVars, objVars
  <2> QED BY <1>0, <1>1, <2>1, StoreTypeKept
<1>3. CASE CommitFileRecord(c)
  <2>1. UNCHANGED <<keyed, pinned, lost, leaked, faulty>>
    BY <1>3 DEF CommitFileRecord, objVars
  <2>2. \/ UNCHANGED <<status, staged, buffers>>
        \/ /\ rows' = rows + 1 /\ status' = [status EXCEPT ![rows + 1] = "staged"]
           /\ staged' = staged \cup {rows + 1} /\ buffers' = buffers \cup {rows + 1}
    BY <1>3 DEF CommitFileRecord, diskVars, Insert
  <2> QED BY <1>0, <1>1, <2>1, <2>2, StoreTypeKept
<1>4. CASE MarkLost(c) \/ ClearLostStatus(c)
  <2>1. UNCHANGED <<keyed, staged, buffers, pinned, lost, leaked, faulty>>
    BY <1>4 DEF MarkLost, ClearLostStatus, diskVars, objVars
  <2>2. UNCHANGED status \/ \E r, t : t \in Statuses /\ status' = [status EXCEPT ![r] = t]
    BY <1>1, <1>4 DEF MarkLost, ClearLostStatus
  <2> QED BY <1>0, <1>1, <2>1, <2>2, StoreTypeKept
<1>5. CASE DeleteObject(c)
  <2>1. UNCHANGED <<status, keyed, staged, buffers, lost, faulty>>
    BY <1>5 DEF DeleteObject, diskVars
  <2>2. pinned' \subseteq Contents /\ leaked' \subseteq Contents
    BY <1>0, <1>1, <1>5 DEF DeleteObject, v
  <2> QED BY <1>0, <1>1, <2>1, <2>2, StoreTypeKept
<1>6. CASE RestorePin(c)
  <2>1. UNCHANGED <<status, keyed, staged, buffers, leaked, faulty>>
    BY <1>6 DEF RestorePin, diskVars
  <2>2. pinned' \subseteq Contents /\ lost' \subseteq Contents
    BY <1>0, <1>1, <1>6 DEF RestorePin, v
  <2> QED BY <1>0, <1>1, <2>1, <2>2, StoreTypeKept
<1>7. CASE RestoreInsert(c)
  <2>1. UNCHANGED <<staged, buffers, pinned, lost, faulty>>
    BY <1>7 DEF RestoreInsert, diskVars
  <2>2. \/ UNCHANGED <<status, keyed>>
        \/ /\ rows' = rows + 1 /\ status' = [status EXCEPT ![rows + 1] = "durable"]
           /\ keyed' = keyed \cup {rows + 1}
    BY <1>7 DEF RestoreInsert, Insert
  <2>3. leaked' \subseteq Contents
    BY <1>0, <1>1, <1>7 DEF RestoreInsert, v
  <2> QED BY <1>0, <1>1, <2>1, <2>2, <2>3, StoreTypeKept
<1>8. CASE CrashClient(c)
  <2>1. UNCHANGED <<status, keyed, staged, buffers, pinned, lost, faulty>>
    BY <1>8 DEF CrashClient, diskVars
  <2>2. leaked' \subseteq Contents
    BY <1>0, <1>1, <1>8 DEF CrashClient, v
  <2> QED BY <1>0, <1>1, <2>1, <2>2, StoreTypeKept
<1> QED BY <1>2, <1>3, <1>4, <1>5, <1>6, <1>7, <1>8 DEF ClientStep

LEMMA StoreTypeOfOtherSteps ==
  ASSUME TypeInv, OtherStep
  PROVE  StoreType'
<1>0. UNCHANGED rows
  BY OtherSteps DEF TableKept, rowVars
<1>1. /\ {"flushing", "durable", "failed"} \subseteq Statuses /\ {} \in SUBSET (1..rows')
      /\ pinned \subseteq Contents /\ lost \subseteq Contents /\ leaked \subseteq Contents /\ faulty \in BOOLEAN
  BY DEF Statuses, TypeInv, StoreType
<1>2. CASE \/ UNCHANGED vars
           \/ \E f \in Processes : \/ Flush(f) \/ EnsureSDK(f) \/ UploadPackedGroup(f) \/ FlushReturn(f)
                                   \/ CrashFlush(f) \/ \E p \in Paths : FlushPath(f, p)
  <2>1. UNCHANGED <<status, keyed, staged, buffers, pinned, lost, leaked, faulty>>
    BY <1>2 DEF Flush, FlushPath, BeginFlush, EnsureSDK, UploadPackedGroup, FlushReturn, CrashFlush,
       diskVars, objVars, vars
  <2> QED BY <1>0, <1>1, <2>1, StoreTypeKept
<1>3. ASSUME NEW f \in Processes, MarkFlushing(f) \/ RecordFlushFailure(f) PROVE StoreType'
  <2>1. UNCHANGED <<keyed, staged, buffers, pinned, lost, leaked, faulty>>
    BY <1>3 DEF MarkFlushing, RecordFlushFailure, diskVars, objVars
  <2>2. UNCHANGED status \/ \E r, t : t \in Statuses /\ status' = [status EXCEPT ![r] = t]
    BY <1>1, <1>3 DEF MarkFlushing, RecordFlushFailure
  <2> QED BY <1>0, <1>1, <2>1, <2>2, StoreTypeKept
<1>4. ASSUME NEW f \in Processes, PinObject(f) PROVE StoreType'
  <2>1. UNCHANGED <<status, keyed, staged, buffers, leaked, faulty>>
    BY <1>4 DEF PinObject, diskVars
  <2>2. \A r \in flush[f].members : content[r] \in Contents
    <3>1. flush[f].members \subseteq 1..rows /\ 1..rows \subseteq Rows
      BY MaxRowsAssumption DEF TypeInv, TableType, FlushLocals, FlushRecords, Rows
    <3> QED BY <3>1 DEF TypeInv, TableType
  <2>3. pinned' \subseteq Contents /\ lost' \subseteq Contents
    BY <1>1, <1>4, <2>2 DEF PinObject
  <2> QED BY <1>0, <1>1, <2>1, <2>3, StoreTypeKept
<1>5. ASSUME NEW f \in Processes, FinalizeDurable(f) PROVE StoreType'
  <2> DEFINE r == flush[f].row
  <2>1. UNCHANGED <<buffers, pinned, lost, leaked, faulty>>
    BY <1>5 DEF FinalizeDurable, objVars
  <2>2. {r} \in SUBSET (1..rows')
    <3>1. r \in 0..rows /\ r # NoRow
      BY <1>5 DEF FinalizeDurable, FlushAt, TypeInv, FlushLocals, FlushRecords
    <3>2. rows \in Nat
      BY MaxRowsAssumption DEF TypeInv, TableType
    <3> QED BY <1>0, <3>1, <3>2 DEF NoRow
  <2>3. keyed' \subseteq keyed \cup {r} /\ staged' \subseteq staged \cup {r}
    BY <1>5 DEF FinalizeDurable
  <2>4. UNCHANGED status \/ \E q, t : t \in Statuses /\ status' = [status EXCEPT ![q] = t]
    BY <1>1, <1>5 DEF FinalizeDurable
  <2> HIDE DEF r
  <2> QED BY <1>0, <1>1, <2>1, <2>2, <2>3, <2>4, StoreTypeKept
<1>6. ASSUME NEW f \in Processes, RemoveStagedBuffer(f) PROVE StoreType'
  <2>1. UNCHANGED <<status, keyed, staged, pinned, lost, leaked, faulty>> /\ buffers' \subseteq buffers
    BY <1>6 DEF RemoveStagedBuffer, objVars
  <2> QED BY <1>0, <1>1, <2>1, StoreTypeKept
<1>7. CASE (\E x \in Contents : Lose(x)) \/ FaultsStop
  <2>1. UNCHANGED <<status, keyed, staged, buffers, leaked>>
    BY <1>7 DEF Lose, FaultsStop, diskVars, objVars
  <2>2. pinned' \subseteq Contents /\ lost' \subseteq Contents /\ faulty' \in BOOLEAN
    BY <1>1, <1>7 DEF Lose, FaultsStop, objVars
  <2> QED BY <1>0, <1>1, <2>1, <2>2, StoreTypeKept
<1> QED BY <1>2, <1>3, <1>4, <1>5, <1>6, <1>7 DEF OtherStep, FlushStep

LEMMA FlushLocalsOfOtherSteps ==
  ASSUME TypeInv, OtherStep
  PROVE  FlushLocals'
<1>1. UNCHANGED rows
  BY OtherSteps DEF TableKept, rowVars
<1>2. CASE UNCHANGED flush
  BY <1>1, <1>2, FlushLocalsKept
<1>3. CASE \E f \in Processes : FlushStep(f) \/ CrashFlush(f) \/ \E p \in Paths : FlushPath(f, p)
  BY <1>3, FlushLocalsStep
<1> QED BY <1>2, <1>3 DEF OtherStep, Lose, FaultsStop, vars

LEMMA TypeInit == Init => TypeInv /\ RoomInv
<1> SUFFICES ASSUME Init PROVE TypeInv /\ RoomInv
  OBVIOUS
<1>1. (CHOOSE p \in Paths : TRUE) \in Paths /\ (CHOOSE x \in Contents : TRUE) \in Contents
  BY NonEmptyAssumption
<1>2. TableType
  BY <1>1, MaxRowsAssumption DEF Init, TableType
<1>3. StoreType
  BY DEF Init, StoreType, Statuses
<1>4. ClientLocals /\ FlushLocals
  BY IdleType DEF Init, ClientLocals, FlushLocals
<1>5. Writing = {}
  BY IdleType DEF Init, Writing
<1>6. RoomInv
  BY <1>5, FS_EmptySet, MaxRowsAssumption DEF Init, RoomInv
<1> QED BY <1>2, <1>3, <1>4, <1>6 DEF TypeInv

LEMMA TypeStep ==
  ASSUME TypeInv, RoomInv, AdoptInv, [Next]_vars
  PROVE  TypeInv' /\ RoomInv'
<1>1. ASSUME NEW c \in Clients, ClientStart(c) \/ ClientStep(c) \/ CrashClient(c)
      PROVE  TypeInv' /\ RoomInv'
  <2>1. UNCHANGED flush
    BY <1>1 DEF ClientStart, BuildPendingRecord, VerifyResolve, RemoveResolve, RestoreResolve, ClientStep,
       StagedAdopt, CommitFileRecord, PutGaveUp, VerifyObject, MarkLost, ClearResolve, ClearLostStatus,
       Tombstone, DeleteObject, RestoreFetch, RestorePin, RestoreInsert, CrashClient
  <2>2. CASE RowInserted(c)
    <3>1. TableType' /\ rows' = rows + 1
      BY <2>2, TableAfterInsert
    <3>2. ClientMove(c, Idle) /\ Idle.pc \notin WritingPCs /\ client[c].pc \in WritingPCs
      <4>1. rows \in Nat
        BY MaxRowsAssumption DEF TypeInv, TableType
      <4> QED BY <2>2, <4>1, IdleType, ReturnMoves DEF RowInserted, WritingPCs
    <3>3. ClientLocals' /\ RoomInv'
      BY <3>1, <3>2, ClientLocalsAfter, RoomStep
    <3> QED BY <1>1, <2>1, <3>1, <3>3, FlushLocalsKept, StoreTypeOfClientSteps DEF TypeInv
  <2>3. ASSUME NEW w, ClientMove(c, w), TableKept \/ Tombstoned(c) PROVE TypeInv' /\ RoomInv'
    <3>1. rows' = rows
      BY <2>3 DEF TableKept, Tombstoned, rowVars
    <3>2. TableType'
      BY <2>3, TableAfterTombstone DEF TableKept, rowVars, TypeInv, TableType
    <3> QED BY <1>1, <2>1, <2>3, <3>1, <3>2, FlushLocalsKept, StoreTypeOfClientSteps, ClientLocalsAfter,
               RoomStep DEF TypeInv
  <2> QED BY <1>1, <2>2, <2>3, ClientSteps
<1>2. CASE OtherStep
  <2>1. TableKept /\ UNCHANGED client
    BY <1>2, OtherSteps
  <2>2. TableType' /\ ClientLocals' /\ RoomInv'
    BY <2>1 DEF TableKept, rowVars, TypeInv, TableType, ClientLocals, RoomInv, Writing
  <2> QED BY <1>2, <2>2, StoreTypeOfOtherSteps, FlushLocalsOfOtherSteps DEF TypeInv
<1> QED BY <1>1, <1>2, StepKinds

-----------------------------------------------------------------------------
(* The current rows of the table, step by step.                            *)

(* A path without a current row but with a live version had a row removed. *)
PathInv ==
  \A r \in Live : Winners(path[r]) # {} \/ \E d \in deleted : path[d] = path[r]

TableInv ==
  TypeInv /\ RoomInv /\ AdoptInv /\ PathInv /\ LastWriteWins /\ OneIdentityPerPath

LEMMA AdoptStep ==
  ASSUME TypeInv, RoomInv, AdoptInv, [Next]_vars
  PROVE  AdoptInv'
<1>1. ASSUME NEW c \in Clients, RowInserted(c)
      PROVE  AdoptInv'
  <2>1. \A p, u : Adopted(p, u) => Adopted(p, u)'
    <3>1. /\ rows' = rows + 1 /\ rows \in Nat /\ 1..(rows + 1) = (1..rows) \cup {rows + 1}
          /\ \A r \in 1..rows : path'[r] = path[r] /\ uuid'[r] = uuid[r]
      BY <1>1, TableAfterInsert
    <3> QED BY <3>1 DEF Adopted
  <2>2. Idle.pc \notin WritingPCs /\ client' = [client EXCEPT ![c] = Idle]
    <3>1. rows \in Nat
      BY MaxRowsAssumption DEF TypeInv, TableType
    <3> QED BY <1>1, <3>1, IdleType DEF RowInserted, Return, WritingPCs
  <2>3. client'[c] = Idle /\ \A d \in Clients \ {c} : client'[d] = client[d]
    BY <2>2 DEF TypeInv, ClientLocals
  <2>4. Writing' \subseteq Writing \ {c}
    BY <2>2, <2>3 DEF Writing, WritingPCs
  <2> QED BY <2>1, <2>3, <2>4 DEF AdoptInv, Writing
<1>2. ASSUME NEW c \in Clients, NEW w, ClientMove(c, w), TableKept \/ Tombstoned(c)
      PROVE  AdoptInv'
  <2>1. \A p, u : Adopted(p, u) => Adopted(p, u)'
    BY <1>2 DEF Adopted, TableKept, Tombstoned, rowVars
  <2>2. client'[c] = w /\ \A d \in Clients \ {c} : client'[d] = client[d]
    BY <1>2 DEF ClientMove, TypeInv, ClientLocals
  <2>3. w.pc \in WritingPCs => w.current \/ Adopted(w.path, w.uuid)
    BY <1>2 DEF ClientMove
  <2>4. \A d \in Writing' : d \in Clients /\ (d = c => w.pc \in WritingPCs) /\ (d # c => d \in Writing)
    BY <2>2 DEF Writing, WritingPCs
  <2> QED BY <2>1, <2>2, <2>3, <2>4 DEF AdoptInv
<1>3. CASE OtherStep
  BY <1>3, OtherSteps DEF TableKept, rowVars, AdoptInv, Adopted, Writing
<1> QED BY <1>1, <1>2, <1>3, ClientSteps, StepKinds

LEMMA TableStep ==
  ASSUME TypeInv, RoomInv, AdoptInv, [Next]_vars
  PROVE  TableKept \/ \E c \in Clients : Tombstoned(c) \/ RowInserted(c)
BY ClientSteps, OtherSteps, StepKinds

(* After an insertion the new row is the only winner of its path, and the  *)
(* winners of the other paths are what they were.                          *)
LEMMA WinnersAfterInsert ==
  ASSUME TypeInv, RoomInv, NEW c \in Clients, RowInserted(c), NEW p
  PROVE  /\ Winners(p)' = IF p = client[c].path THEN {rows + 1} ELSE Winners(p)
         /\ Live' = Live \cup {rows + 1}
<1>1. /\ rows' = rows + 1 /\ rows \in Nat /\ path'[rows + 1] = client[c].path
      /\ \A r \in 1..rows : path'[r] = path[r]
      /\ current' = (current \ Winners(client[c].path)) \cup {rows + 1}
      /\ deleted' = deleted /\ 1..(rows + 1) = (1..rows) \cup {rows + 1} /\ rows + 1 \notin 1..rows
  BY TableAfterInsert
<1>2. deleted \subseteq 1..rows /\ current \subseteq 1..rows
  BY DEF TypeInv, TableType
<1>3. Live' = Live \cup {rows + 1}
  BY <1>1, <1>2 DEF Live
<1>4. current' \cap Live' = ((current \cap Live) \ Winners(client[c].path)) \cup {rows + 1}
  BY <1>1, <1>2, <1>3 DEF Live
<1>5. \A r \in current \cap Live : r # rows + 1 /\ path'[r] = path[r]
  BY <1>1, <1>2
<1>6. \A r \in current \cap Live : r \in Winners(client[c].path) <=> path[r] = client[c].path
  BY DEF Winners
<1> QED BY <1>1, <1>3, <1>4, <1>5, <1>6 DEF Winners

LEMMA PathInvStep ==
  ASSUME TypeInv, RoomInv, AdoptInv, PathInv, [Next]_vars
  PROVE  PathInv'
<1>1. CASE TableKept
  BY <1>1 DEF TableKept, rowVars, PathInv, Live, Winners
<1>2. ASSUME NEW c \in Clients, Tombstoned(c) PROVE PathInv'
  <2>1. deleted' = deleted \cup {client[c].row} /\ UNCHANGED <<rows, path, current>>
    BY <1>2 DEF Tombstoned, rowVars
  <2>2. Live' = Live \ {client[c].row}
    BY <2>1 DEF Live
  <2>3. \A p : Winners(p)' = Winners(p) \ {client[c].row}
    BY <2>1, <2>2 DEF Winners
  <2>4. ASSUME NEW r \in Live, NEW p, p = path[r], Winners(p)' = {}
        PROVE  \E d \in deleted' : path[d] = p
    <3>1. CASE Winners(p) = {}
      BY <2>1, <2>4, <3>1 DEF PathInv
    <3>2. CASE Winners(p) # {}
      <4>1. client[c].row \in Winners(p)
        BY <2>3, <2>4, <3>2
      <4> QED BY <2>1, <2>4, <4>1 DEF Winners
    <3> QED BY <3>1, <3>2
  <2>5. \A r \in Live' : path'[r] = path[r] /\ r \in Live
    BY <2>1, <2>2
  <2> QED BY <2>1, <2>4, <2>5 DEF PathInv
<1>3. ASSUME NEW c \in Clients, RowInserted(c) PROVE PathInv'
  <2>1. /\ path'[rows + 1] = client[c].path /\ \A q \in 1..rows : path'[q] = path[q]
        /\ deleted' = deleted
    BY <1>3, TableAfterInsert
  <2>2. deleted \subseteq 1..rows
    BY DEF TypeInv, TableType
  <2>3. ASSUME NEW r \in Live', NEW p, p = path'[r], Winners(p)' = {}
        PROVE  \E d \in deleted' : path'[d] = p
    <3>1. p # client[c].path /\ Winners(p) = {}
      <4>1. Winners(p)' = IF p = client[c].path THEN {rows + 1} ELSE Winners(p)
        BY <1>3, WinnersAfterInsert
      <4> QED BY <2>3, <4>1
    <3>2. r \in Live /\ p = path[r]
      BY <1>3, <2>1, <2>3, <3>1, WinnersAfterInsert DEF Live
    <3>3. \E d \in deleted : path[d] = p
      BY <3>1, <3>2 DEF PathInv
    <3> QED BY <2>1, <2>2, <3>3
  <2> QED BY <2>3 DEF PathInv
<1> QED BY <1>1, <1>2, <1>3, TableStep

LEMMA LastWriteWinsStep ==
  ASSUME TypeInv, RoomInv, AdoptInv, LastWriteWins, [Next]_vars
  PROVE  LastWriteWins'
<1>1. CASE TableKept
  BY <1>1 DEF TableKept, rowVars, LastWriteWins, Live, Winners
<1>2. ASSUME NEW c \in Clients, Tombstoned(c) PROVE LastWriteWins'
  <2>1. deleted' = deleted \cup {client[c].row} /\ UNCHANGED <<rows, path, current>>
    BY <1>2 DEF Tombstoned, rowVars
  <2>2. \A p : Winners(p)' \subseteq Winners(p)
    BY <2>1 DEF Winners, Live
  <2> QED BY <2>1, <2>2 DEF LastWriteWins
<1>3. ASSUME NEW c \in Clients, RowInserted(c) PROVE LastWriteWins'
  <2>1. SUFFICES ASSUME NEW p \in Paths, NEW w \in Winners(p)', NEW r \in 1..rows', path'[r] = p
                 PROVE  r <= w
    BY DEF LastWriteWins
  <2>2. /\ path'[rows + 1] = client[c].path /\ \A q \in 1..rows : path'[q] = path[q]
        /\ rows' = rows + 1 /\ rows \in Nat /\ 1..(rows + 1) = (1..rows) \cup {rows + 1}
    BY <1>3, TableAfterInsert
  <2>3. CASE p = client[c].path
    BY <1>3, <2>1, <2>2, <2>3, WinnersAfterInsert
  <2>4. CASE p # client[c].path
    <3>1. w \in Winners(p) /\ r \in 1..rows /\ path[r] = p
      BY <1>3, <2>1, <2>2, <2>4, WinnersAfterInsert
    <3> QED BY <3>1 DEF LastWriteWins
  <2> QED BY <2>3, <2>4
<1> QED BY <1>1, <1>2, <1>3, TableStep

(* The inserted row shares its identity with a version of its path, or     *)
(* nothing is live there, or a Remove ended a file there.                  *)
LEMMA InsertedIdentity ==
  ASSUME TypeInv, RoomInv, AdoptInv, PathInv, OneIdentityPerPath,
         NEW c \in Clients, RowInserted(c), NEW q \in Live, path[q] = client[c].path
  PROVE  uuid[q] = client[c].uuid \/ \E d \in deleted : path[d] = path[q]
<1>1. CASE client[c].current
  BY <1>1 DEF RowInserted, PathInv
<1>2. CASE ~client[c].current
  <2>1. Adopted(client[c].path, client[c].uuid)
    BY <1>2 DEF RowInserted, Writing, AdoptInv
  <2>2. PICK a \in 1..rows : path[a] = client[c].path /\ uuid[a] = client[c].uuid
    BY <2>1 DEF Adopted
  <2>3. CASE a \in deleted
    BY <2>2, <2>3
  <2>4. CASE a \notin deleted
    <3>1. a \in Live
      BY <2>4 DEF Live
    <3> QED BY <2>2, <3>1 DEF OneIdentityPerPath
  <2> QED BY <2>3, <2>4
<1> QED BY <1>1, <1>2

LEMMA OneIdentityStep ==
  ASSUME TypeInv, RoomInv, AdoptInv, PathInv, OneIdentityPerPath, [Next]_vars
  PROVE  OneIdentityPerPath'
<1>1. CASE TableKept
  BY <1>1 DEF TableKept, rowVars, OneIdentityPerPath, Live
<1>2. ASSUME NEW c \in Clients, Tombstoned(c) PROVE OneIdentityPerPath'
  BY <1>2 DEF Tombstoned, rowVars, OneIdentityPerPath, Live
<1>3. ASSUME NEW c \in Clients, RowInserted(c) PROVE OneIdentityPerPath'
  <2>1. /\ path'[rows + 1] = client[c].path /\ uuid'[rows + 1] = client[c].uuid
        /\ \A r \in 1..rows : path'[r] = path[r] /\ uuid'[r] = uuid[r]
        /\ deleted' = deleted /\ rows + 1 \notin 1..rows
    BY <1>3, TableAfterInsert
  <2>2. Live' = Live \cup {rows + 1} /\ Live \subseteq 1..rows /\ deleted \subseteq 1..rows
    BY <1>3, WinnersAfterInsert DEF Live, TypeInv, TableType
  <2>3. \A p : (\E d \in deleted : path[d] = p) => \E d \in deleted' : path'[d] = p
    BY <2>1, <2>2
  <2>4. \A q \in Live : path[q] = client[c].path =>
          uuid[q] = client[c].uuid \/ \E d \in deleted : path[d] = path[q]
    BY <1>3, InsertedIdentity
  <2>5. SUFFICES ASSUME NEW r \in Live', NEW q \in Live', path'[r] = path'[q], uuid'[r] # uuid'[q]
                 PROVE  \E d \in deleted' : path'[d] = path'[r]
    BY DEF OneIdentityPerPath
  <2>6. CASE r \in Live /\ q \in Live
    <3>1. /\ path'[r] = path[r] /\ path'[q] = path[q] /\ uuid'[r] = uuid[r] /\ uuid'[q] = uuid[q]
      BY <2>1, <2>2, <2>6
    <3> QED BY <2>3, <2>5, <2>6, <3>1 DEF OneIdentityPerPath
  <2>7. CASE r = rows + 1 /\ q \in Live
    <3>1. path'[q] = path[q] /\ uuid'[q] = uuid[q]
      BY <2>1, <2>2, <2>7
    <3> QED BY <2>1, <2>3, <2>4, <2>5, <2>7, <3>1
  <2>8. CASE q = rows + 1 /\ r \in Live
    <3>1. path'[r] = path[r] /\ uuid'[r] = uuid[r]
      BY <2>1, <2>2, <2>8
    <3> QED BY <2>1, <2>3, <2>4, <2>5, <2>8, <3>1
  <2> QED BY <2>2, <2>5, <2>6, <2>7, <2>8
<1> QED BY <1>1, <1>2, <1>3, TableStep

LEMMA TableInit == Init => TableInv
<1> SUFFICES ASSUME Init PROVE TableInv
  OBVIOUS
<1>1. TypeInv /\ RoomInv
  BY TypeInit
<1>2. Live = {} /\ Writing = {} /\ \A p : Winners(p) = {}
  <2>1. Live = {}
    BY DEF Init, Live
  <2>2. Writing = {}
    BY IdleType DEF Init, Writing
  <2>3. \A p : Winners(p) = {}
    BY <2>1 DEF Winners
  <2> QED BY <2>1, <2>2, <2>3
<1> QED BY <1>1, <1>2 DEF TableInv, AdoptInv, PathInv, LastWriteWins, OneIdentityPerPath

LEMMA TableInductive == TableInv /\ [Next]_vars => TableInv'
BY TypeStep, AdoptStep, PathInvStep, LastWriteWinsStep, OneIdentityStep DEF TableInv

(* The inductive invariant of the table holds in every reachable state.    *)
THEOREM TableInvariant == Spec => []TableInv
BY TableInit, TableInductive, PTL DEF Spec

(* The rows, the buffers, the objects and the locals of every operation    *)
(* and flush keep their shape: no set names a row that was not inserted,   *)
(* and commitFileRecord (upload_staging.go) stops after its last attempt.  *)
THEOREM TypeCorrect == Spec => []TypeOK
<1>1. TableInv => TypeOK
  BY TypeInvImpliesTypeOK DEF TableInv
<1> QED BY <1>1, TableInvariant, PTL

(* A reader resolves the last committed write of a path, and only one row  *)
(* is its winner: no create conflict, adoption by a concurrent Put or late *)
(* VersionRestore brings back an older version (findCurrentFile,           *)
(* promoteCurrent).                                                        *)
THEOREM LastWriteIsRead == Spec => []LastWriteWins
<1>1. TableInv => LastWriteWins
  BY DEF TableInv
<1> QED BY <1>1, TableInvariant, PTL

(* Concurrent Puts and restores of a path converge on one identity: two    *)
(* live versions of a path belong to different files only if Remove ended  *)
(* a file there (stagedAdopt, commitFileRecord).                           *)
THEOREM IdentityConverges == Spec => []OneIdentityPerPath
<1>1. TableInv => OneIdentityPerPath
  BY DEF TableInv
<1> QED BY <1>1, TableInvariant, PTL

-----------------------------------------------------------------------------
(* The retries of commitFileRecord.                                        *)
RemovedAt(p) == \E d \in deleted : path[d] = p

(* No lookup of stagedAdopt fails, its error swallowed                     *)
(* (upload_staging.go:375): a Put that has a winner to adopt adopts it.    *)
LookupsSucceed == \A c \in Clients : StagedAdopt(c) => AdoptWinner(c) \/ NothingToAdopt(c)

(* A Put outside the root directory that has lost a race finds the winner  *)
(* at its next adoption, and then inserts a non-current row, which         *)
(* collides with nothing.                                                  *)
RetryInv ==
  \A c \in Clients :
    client[c].pc \in {"adopt", "commit", "gaveUp"} /\ client[c].path \notin RootPaths =>
      \/ RemovedAt(client[c].path)
      \/ client[c].pc # "gaveUp" /\ client[c].tries = 0
      \/ client[c].pc = "adopt" /\ \E r \in 1..rows : path[r] = client[c].path
      \/ client[c].pc = "commit" /\ ~client[c].current

OnlyRootPutGivesUp ==
  \A c \in Clients :
    At(c, "gaveUp") => client[c].path \in RootPaths \/ \E d \in deleted : path[d] = client[c].path

(* Rows stay, and so do tombstones.                                        *)
LEMMA RowsStay ==
  ASSUME TableInv, [Next]_vars, NEW p
  PROVE  /\ RemovedAt(p) => RemovedAt(p)'
         /\ (\E r \in 1..rows : path[r] = p) => \E r \in 1..rows' : path'[r] = p
<1>1. deleted \subseteq 1..rows
  BY DEF TableInv, TypeInv, TableType
<1>2. TypeInv /\ RoomInv /\ AdoptInv
  BY DEF TableInv
<1>3. CASE TableKept
  BY <1>3 DEF TableKept, rowVars, RemovedAt
<1>4. ASSUME NEW c \in Clients, Tombstoned(c)
      PROVE  /\ RemovedAt(p) => RemovedAt(p)'
             /\ (\E r \in 1..rows : path[r] = p) => \E r \in 1..rows' : path'[r] = p
  BY <1>4 DEF Tombstoned, rowVars, RemovedAt
<1>5. ASSUME NEW c \in Clients, RowInserted(c)
      PROVE  /\ RemovedAt(p) => RemovedAt(p)'
             /\ (\E r \in 1..rows : path[r] = p) => \E r \in 1..rows' : path'[r] = p
  <2>1. /\ rows' = rows + 1 /\ deleted' = deleted /\ 1..(rows + 1) = (1..rows) \cup {rows + 1}
        /\ \A r \in 1..rows : path'[r] = path[r]
    BY <1>2, <1>5, TableAfterInsert
  <2> QED BY <1>1, <2>1 DEF RemovedAt
<1> QED BY <1>2, <1>3, <1>4, <1>5, TableStep

(* The steps into the loop of commitFileRecord and through it.             *)
LEMMA PutSteps ==
  ASSUME TableInv, NEW c \in Clients, ClientStart(c) \/ ClientStep(c) \/ CrashClient(c)
  PROVE  \/ client'[c].pc \notin {"adopt", "commit", "gaveUp"}
         \/ \E p \in Paths, x \in Contents : BuildPendingRecord(c, p, x)
         \/ StagedAdopt(c)
         \/ /\ At(c, "commit") /\ client[c].current /\ Winners(client[c].path) # {}
            /\ client' = [client EXCEPT ![c] =
                 [@ EXCEPT !.seq = Largest({MaxSeq(client[c].uuid), client[c].seq}) + 1,
                           !.tries = client[c].tries + 1,
                           !.pc = IF client[c].tries + 1 < maxAdoptRetries THEN "adopt" ELSE "gaveUp"]]
<1>0. rows \in Nat /\ client \in [Clients -> ClientRecords(rows)]
  BY MaxRowsAssumption DEF TableInv, TypeInv, TableType, ClientLocals
<1>1. client[c] \in ClientShape(rows)
  BY <1>0, ClientFields
<1>2. Idle.pc = "idle" /\ Idle \in ClientShape(rows)
  BY <1>0, IdleType DEF ClientRecords
<1>3. ASSUME Return(c) PROVE client'[c].pc \notin {"adopt", "commit", "gaveUp"}
  BY <1>0, <1>2, <1>3 DEF Return
<1>4. ASSUME NEW pc \in ClientPCs, pc \notin {"adopt", "commit", "gaveUp"}, Goto(c, pc)
      PROVE  client'[c].pc \notin {"adopt", "commit", "gaveUp"}
  BY <1>0, <1>1, <1>4 DEF Goto, ClientShape
<1>5. CASE ClientStart(c)
  <2>1. ASSUME NEW p \in Paths, VerifyResolve(c, p) \/ RemoveResolve(c, p)
        PROVE  client'[c].pc \notin {"adopt", "commit", "gaveUp"}
    BY <1>0, <2>1 DEF VerifyResolve, RemoveResolve, Idle
  <2>2. ASSUME NEW p \in Paths, NEW r \in Rows, RestoreResolve(c, p, r)
        PROVE  client'[c].pc \notin {"adopt", "commit", "gaveUp"}
    BY <1>0, <2>2 DEF RestoreResolve, Idle
  <2> QED BY <1>5, <2>1, <2>2 DEF ClientStart
<1>6. CASE CommitFileRecord(c)
  BY <1>3, <1>6 DEF CommitFileRecord
<1>7. CASE PutGaveUp(c) \/ MarkLost(c) \/ ClearLostStatus(c) \/ DeleteObject(c) \/ RestoreInsert(c)
           \/ CrashClient(c)
  BY <1>3, <1>7 DEF PutGaveUp, MarkLost, ClearLostStatus, DeleteObject, RestoreInsert, CrashClient
<1>8. CASE ClearResolve(c)
  <2>1. CASE Return(c)
    BY <1>3, <2>1
  <2>2. CASE client' = [client EXCEPT ![c] = [@ EXCEPT !.pc = "clearWrite",
                                                       !.row = FindCurrentFile(client[c].path)]]
    BY <1>0, <1>1, <2>2 DEF ClientShape
  <2> QED BY <1>8, <2>1, <2>2 DEF ClearResolve
<1>9. CASE VerifyObject(c) \/ Tombstone(c) \/ RestoreFetch(c) \/ RestorePin(c)
  <2>1. \/ Return(c) \/ Goto(c, "clear") \/ Goto(c, "markLost") \/ Goto(c, "delete")
        \/ Goto(c, "repin") \/ Goto(c, "insert")
    BY <1>9 DEF VerifyObject, Tombstone, RestoreFetch, RestorePin
  <2>2. {"clear", "markLost", "delete", "repin", "insert"} \subseteq ClientPCs
    BY DEF ClientPCs
  <2> QED BY <1>3, <1>4, <2>1, <2>2
<1> QED BY <1>5, <1>6, <1>7, <1>8, <1>9 DEF ClientStep

LEMMA RetryStep ==
  ASSUME TableInv, RetryInv, [Next]_vars, LookupsSucceed
  PROVE  RetryInv'
<1>0. rows \in Nat /\ client \in [Clients -> ClientRecords(rows)] /\ TypeInv
  BY MaxRowsAssumption DEF TableInv, TypeInv, TableType, ClientLocals
<1> DEFINE Fine(v, rem, here) ==
      v.pc \in {"adopt", "commit", "gaveUp"} /\ v.path \notin RootPaths =>
        \/ rem
        \/ v.pc # "gaveUp" /\ v.tries = 0
        \/ v.pc = "adopt" /\ here
        \/ v.pc = "commit" /\ ~v.current
    Here(p) == \E r \in 1..rows : path[r] = p
<1>1. \A c \in Clients : Fine(client[c], RemovedAt(client[c].path), Here(client[c].path))
  BY DEF RetryInv
<1>2. ASSUME NEW c \in Clients, client'[c] = client[c], NEW p, p = client'[c].path
      PROVE  Fine(client'[c], RemovedAt(p)', Here(p)')
  <2>1. (RemovedAt(p) => RemovedAt(p)') /\ (Here(p) => Here(p)')
    BY RowsStay
  <2>2. Fine(client[c], RemovedAt(p), Here(p))
    BY <1>1, <1>2
  <2> HIDE DEF Here
  <2> QED BY <1>2, <2>1, <2>2
<1>3. ASSUME NEW c \in Clients, ClientStart(c) \/ ClientStep(c) \/ CrashClient(c),
             NEW p, p = client'[c].path
      PROVE  Fine(client'[c], RemovedAt(p)', Here(p)')
  <2> DEFINE v == client[c]
  <2>0. v \in ClientShape(rows) /\ v.tries \in 0..maxAdoptRetries
    BY <1>0, ClientFields
  <2>1. CASE client'[c].pc \notin {"adopt", "commit", "gaveUp"}
    BY <2>1
  <2>2. CASE \E q \in Paths, x \in Contents : BuildPendingRecord(c, q, x)
    <3>1. client'[c].pc = "adopt" /\ client'[c].tries = 0
      BY <1>0, <2>2 DEF BuildPendingRecord
    <3> QED BY <3>1
  <2>3. CASE StagedAdopt(c)
    <3>1. v.pc = "adopt" /\ UNCHANGED <<rows, path, deleted>>
      BY <2>3 DEF StagedAdopt, At, rowVars
    <3>2. CASE NothingToAdopt(c)
      <4>1. client' = [client EXCEPT ![c] = [v EXCEPT !.pc = "commit"]]
        BY <2>3, <3>2 DEF StagedAdopt, AdoptWinner, Goto
      <4>2. /\ client'[c].pc = "commit" /\ client'[c].path = v.path
            /\ client'[c].tries = v.tries /\ client'[c].current = v.current
        BY <1>0, <2>0, <4>1 DEF ClientShape
      <4>3. ASSUME v.path \notin RootPaths, Here(v.path) PROVE RemovedAt(v.path)
        <5>1. Winners(v.path) = {}
          BY <1>0, <3>2, <4>3, FindCurrentFinds DEF NothingToAdopt
        <5>2. PICK r \in 1..rows : path[r] = v.path
          BY <4>3
        <5>3. CASE r \in Live
          BY <5>1, <5>2, <5>3 DEF TableInv, PathInv, RemovedAt
        <5> QED BY <5>2, <5>3 DEF Live, RemovedAt
      <4>4. Fine(v, RemovedAt(v.path), Here(v.path)) /\ v.path = p
        BY <1>1, <1>3, <4>2
      <4>5. RemovedAt(p) <=> RemovedAt(p)'
        BY <3>1 DEF RemovedAt
      <4> HIDE DEF v, Here
      <4> QED BY <3>1, <4>2, <4>3, <4>4, <4>5
    <3>3. CASE AdoptWinner(c)
      <4>1. client' = [client EXCEPT ![c] = [v EXCEPT !.pc = "commit", !.current = FALSE,
                                                      !.uuid = uuid[FindCurrentFile(v.path)]]]
        BY <3>3 DEF AdoptWinner
      <4>2. client'[c].pc = "commit" /\ client'[c].current = FALSE
        BY <1>0, <2>0, <4>1 DEF ClientShape
      <4> QED BY <4>2
    <3> QED BY <2>3, <3>2, <3>3 DEF LookupsSucceed
  <2>4. ASSUME NEW s, At(c, "commit"), v.current, Winners(v.path) # {},
               client' = [client EXCEPT ![c] =
                 [@ EXCEPT !.seq = s, !.tries = v.tries + 1,
                           !.pc = IF v.tries + 1 < maxAdoptRetries THEN "adopt" ELSE "gaveUp"]]
        PROVE  Fine(client'[c], RemovedAt(p)', Here(p)')
    <3>1. /\ client'[c].path = v.path
          /\ client'[c].pc = IF v.tries + 1 < maxAdoptRetries THEN "adopt" ELSE "gaveUp"
      BY <1>0, <2>0, <2>4 DEF ClientShape
    <3>2. Fine(v, RemovedAt(v.path), Here(v.path)) /\ v.pc = "commit"
      BY <1>1, <2>4 DEF At
    <3>3. CASE v.path \in RootPaths
      BY <3>1, <3>3
    <3>4. CASE RemovedAt(v.path)
      <4>1. RemovedAt(p)'
        BY <1>3, <3>1, <3>4, RowsStay
      <4> QED BY <4>1
    <3>5. CASE v.path \notin RootPaths /\ ~RemovedAt(v.path)
      <4>1. v.tries = 0
        BY <2>4, <3>2, <3>5
      <4>2. client'[c].pc = "adopt"
        BY <3>1, <4>1 DEF maxAdoptRetries
      <4>3. Here(v.path)
        BY <2>4 DEF Winners, Live
      <4>4. Here(p)'
        BY <1>3, <3>1, <4>3, RowsStay
      <4> QED BY <4>2, <4>4
    <3> QED BY <3>3, <3>4, <3>5
  <2> HIDE DEF Fine
  <2> QED BY <1>3, <2>1, <2>2, <2>3, <2>4, PutSteps
<1>4. ASSUME NEW c \in Clients, NEW p, p = client'[c].path
      PROVE  Fine(client'[c], RemovedAt(p)', Here(p)')
  <2> HIDE DEF Fine, Here
  <2>1. CASE OtherStep
    BY <1>2, <1>4, <2>1, OtherSteps
  <2>2. ASSUME NEW d \in Clients, ClientStart(d) \/ ClientStep(d) \/ CrashClient(d)
        PROVE  Fine(client'[c], RemovedAt(p)', Here(p)')
    <3>1. c # d => client'[c] = client[c]
      <4>1. RowInserted(d) \/ \E w : ClientMove(d, w)
        BY <1>0, <2>2, ClientSteps DEF TableInv
      <4> QED BY <1>0, <4>1 DEF RowInserted, Return, ClientMove
    <3> QED BY <1>2, <1>3, <1>4, <2>2, <3>1
  <2> QED BY <2>1, <2>2, StepKinds
<1>5. ASSUME NEW c \in Clients, NEW p, p = client'[c].path
      PROVE  (RemovedAt(p)' <=> RemovedAt(client[c].path)') /\ (Here(p)' <=> Here(client[c].path)')
  BY <1>5 DEF RemovedAt
<1> QED BY <1>4, <1>5 DEF RetryInv

(* Concurrent Puts of one path all succeed (put_order_fts_test.go:426), in *)
(* whatever order they look up, adopt and commit: one that was overtaken   *)
(* adopts the winner's identity after its first conflict.  As long as no   *)
(* lookup of stagedAdopt fails, a Put runs out of attempts only in the     *)
(* root directory, where it looks up no winner, or on a path from which a  *)
(* Remove took a version; every other call may fail.                       *)
THEOREM PutAdoptsInTime == Spec /\ [][LookupsSucceed]_vars => []OnlyRootPutGivesUp
<1>1. Init => RetryInv
  <2> SUFFICES ASSUME Init PROVE RetryInv
    OBVIOUS
  <2>1. \A c \in Clients : client[c].pc = "idle"
    BY IdleType DEF Init
  <2> QED BY <2>1 DEF RetryInv
<1>2. TableInv /\ RetryInv /\ [Next]_vars /\ [LookupsSucceed]_vars => (TableInv /\ RetryInv)'
  <2>1. CASE UNCHANGED vars
    BY <2>1, TableInductive DEF vars, rowVars, diskVars, objVars, RetryInv, RemovedAt
  <2> QED BY <2>1, TableInductive, RetryStep
<1>3. RetryInv => OnlyRootPutGivesUp
  BY DEF RetryInv, OnlyRootPutGivesUp, At, RemovedAt
<1> QED BY <1>1, <1>2, <1>3, TableInit, PTL DEF Spec
=============================================================================
