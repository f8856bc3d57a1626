------------------------ MODULE UploadPackingProofs ------------------------
(***************************************************************************)
(* The packing of UploadPacking is sound for every slab size, group limit  *)
(* and tolerated waste, and for any number of files of any sizes.          *)
(***************************************************************************)
EXTENDS UploadPacking, TLAPS

Group == [objects : SUBSET (1..Len(files)), total : Nat]

PackType ==
  /\ files \in Seq(Nat)
  /\ groups \in Seq(Group)

(* A group has a first file.                                               *)
Started ==
  \A g \in DOMAIN groups :
    \E i \in groups[g].objects : \A j \in groups[g].objects : i <= j

PInv == PackType /\ Started /\ EachFileOnce /\ BoundedGroups

-----------------------------------------------------------------------------
(* Arithmetic of slabs.                                                    *)
LEMMA TimesMonotone ==
  ASSUME NEW m \in Int, NEW n \in Int, NEW s \in Nat, m <= n
  PROVE  m * s <= n * s
<1>1. n * s = m * s + (n - m) * s
  OBVIOUS
<1>2. (n - m) * s >= 0
  OBVIOUS
<1> QED BY <1>1, <1>2

LEMMA Division ==
  ASSUME NEW x \in Nat, NEW s \in Nat, s > 0
  PROVE  x = s * (x \div s) + (x % s) /\ x % s \in 0..(s - 1) /\ x \div s \in Nat
OBVIOUS

LEMMA Multiple ==
  ASSUME NEW n \in Nat, NEW s \in Nat, s > 0
  PROVE  (n * s) % s = 0 /\ (n * s) \div s = n
<1>1. (s * n) \div s = n
  OBVIOUS
<1>2. n * s = s * n /\ n * s \in Nat
  OBVIOUS
<1>3. s * n = s * ((s * n) \div s) + ((s * n) % s) /\ (s * n) % s \in 0..(s - 1)
  <2>1. s * n \in Nat
    BY <1>2
  <2> QED BY <2>1, Division
<1> QED BY <1>1, <1>2, <1>3

(* Slabs(t) is the number of slabs that t bytes take, the last one padded. *)
LEMMA SlabsHold ==
  ASSUME NEW t \in Nat
  PROVE  /\ Slabs(t) \in Nat /\ Padding(t) \in Nat
         /\ Slabs(t) * SlabSize = t + Padding(t)
         /\ Padding(t) < SlabSize
<1> DEFINE q == t \div SlabSize
           r == t % SlabSize
<1>1. SlabSize \in Nat /\ SlabSize > 0
  BY PackingAssumption
<1>2. q \in Nat /\ r \in 0..(SlabSize - 1) /\ t = SlabSize * q + r
  BY <1>1
<1>3. CASE r = 0
  <2>1. Padding(t) = 0
    <3>1. Padding(t) = SlabSize % SlabSize
      BY <1>1, <1>3 DEF Padding
    <3> QED BY <3>1, <1>1
  <2>2. Slabs(t) = q
    BY <2>1, <1>1 DEF Slabs
  <2> HIDE DEF q, r
  <2> QED BY <2>1, <2>2, <1>1, <1>2, <1>3
<1>4. CASE r # 0
  <2>1. Padding(t) = SlabSize - r
    <3>1. SlabSize - r \in 0..(SlabSize - 1)
      BY <1>1, <1>2, <1>4
    <3>2. (SlabSize - r) % SlabSize = SlabSize - r
      BY <3>1, <1>1
    <3> QED BY <3>2 DEF Padding
  <2> HIDE DEF q, r
  <2>2. t + Padding(t) = SlabSize * (q + 1)
    BY <2>1, <1>1, <1>2
  <2>3. (SlabSize * (q + 1)) \div SlabSize = q + 1
    BY <1>1, <1>2
  <2>4. Slabs(t) = q + 1
    BY <2>2, <2>3 DEF Slabs
  <2> QED BY <2>1, <2>2, <2>4, <1>1, <1>2, <1>4
<1> QED BY <1>3, <1>4

LEMMA SlabsMonotone ==
  ASSUME NEW t \in Nat, NEW u \in Nat, t <= u
  PROVE  Slabs(t) <= Slabs(u)
<1>1. SlabSize \in Nat
  BY PackingAssumption
<1>2. SUFFICES ASSUME Slabs(u) <= Slabs(t) - 1 PROVE FALSE
  BY SlabsHold
<1>3. Slabs(u) * SlabSize <= (Slabs(t) - 1) * SlabSize
  <2>1. Slabs(u) \in Int /\ Slabs(t) - 1 \in Int
    BY SlabsHold
  <2> QED BY <1>1, <1>2, <2>1, TimesMonotone
<1>4. (Slabs(t) - 1) * SlabSize = Slabs(t) * SlabSize - SlabSize
  BY <1>1, SlabsHold
<1>5. u <= Slabs(u) * SlabSize /\ Slabs(t) * SlabSize < t + SlabSize
  BY <1>1, SlabsHold
<1> HIDE DEF Slabs
<1> QED BY <1>1, <1>3, <1>4, <1>5, SlabsHold

(* What fits the padding of the last slab needs no other slab.             *)
LEMMA PaddingIsFree ==
  ASSUME NEW t \in Nat, NEW size \in Nat, size <= Padding(t)
  PROVE  Slabs(t + size) = Slabs(t)
<1>1. SlabSize \in Nat /\ SlabSize > 0
  BY PackingAssumption
<1>2. t + size <= t + Padding(t) /\ t + Padding(t) \in Nat
  BY SlabsHold
<1>3. Slabs(t) <= Slabs(t + size) /\ Slabs(t + size) <= Slabs(t + Padding(t))
  BY <1>2, SlabsMonotone
<1>4. Slabs(t + Padding(t)) = Slabs(t)
  <2>1. t + Padding(t) = Slabs(t) * SlabSize /\ Slabs(t) \in Nat
    BY SlabsHold
  <2>2. (Slabs(t) * SlabSize) % SlabSize = 0 /\ (Slabs(t) * SlabSize) \div SlabSize = Slabs(t)
    BY <2>1, <1>1, Multiple
  <2>3. Padding(t + Padding(t)) = 0
    BY <2>1, <2>2, <1>1 DEF Padding
  <2> QED BY <2>1, <2>2, <2>3, <1>1, <1>2 DEF Slabs
<1> QED BY <1>3, <1>4, SlabsHold

-----------------------------------------------------------------------------
(* What a group accepts costs no slab, or stays within the limit.          *)
LEMMA AcceptedStaysBounded ==
  ASSUME NEW t \in Nat, NEW size \in Nat, Accepts(t, size)
  PROVE  Slabs(t + size) = Slabs(t) \/ Slabs(t + size) <= Slabs(MaxGroupSize)
<1>1. MaxGroupSize \in Nat /\ MaxGroupSize >= 1 /\ SlabSize \in Nat /\ SlabSize >= 1
  BY PackingAssumption
<1>2. CASE t + size <= MaxGroupSize
  BY <1>1, <1>2, SlabsMonotone
<1>3. CASE t + size > MaxGroupSize
  <2>1. size <= RemainingSpace(t)
    BY <1>1, <1>3 DEF Accepts
  <2>2. CASE t # 0
    <3>1. size <= Padding(t)
      BY <2>1, <2>2 DEF RemainingSpace
    <3> QED BY <3>1, PaddingIsFree
  <2>3. CASE t = 0
    <3>1. t + size <= SlabSize
      BY <2>1, <2>3, <1>1 DEF RemainingSpace
    <3>2. Slabs(t + size) <= Slabs(SlabSize)
      BY <3>1, <1>1, SlabsMonotone
    <3>3. Slabs(SlabSize) = 1
      <4>1. SlabSize % SlabSize = 0 /\ SlabSize \div SlabSize = 1
        <5>1. (1 * SlabSize) % SlabSize = 0 /\ (1 * SlabSize) \div SlabSize = 1
          BY <1>1, Multiple
        <5> QED BY <5>1, <1>1
      <4>2. Padding(SlabSize) = 0
        <5>1. Padding(SlabSize) = SlabSize % SlabSize
          BY <4>1, <1>1 DEF Padding
        <5> QED BY <5>1, <4>1
      <4> QED BY <4>1, <4>2, <1>1 DEF Slabs
    <3>4. Slabs(MaxGroupSize) >= 1
      <4>1. Slabs(MaxGroupSize) \in Nat
            /\ Slabs(MaxGroupSize) * SlabSize = MaxGroupSize + Padding(MaxGroupSize)
            /\ Padding(MaxGroupSize) \in Nat
        BY <1>1, SlabsHold
      <4>2. Slabs(MaxGroupSize) # 0
        <5> SUFFICES ASSUME Slabs(MaxGroupSize) = 0 PROVE FALSE
          OBVIOUS
        <5>1. 0 * SlabSize = 0
          BY <1>1
        <5> QED BY <4>1, <5>1, <1>1
      <4> QED BY <4>1, <4>2
    <3>5. Slabs(t + size) \in Nat /\ Slabs(MaxGroupSize) \in Nat
      <4>1. t + size \in Nat /\ MaxGroupSize \in Nat
        BY <1>1
      <4> QED BY <4>1, SlabsHold
    <3> QED BY <3>2, <3>3, <3>4, <3>5
  <2> QED BY <2>2, <2>3
<1> QED BY <1>1, <1>2, <1>3
-----------------------------------------------------------------------------
LEMMA FirstIs ==
  ASSUME NEW group, group.objects \subseteq Nat,
         NEW m \in group.objects, \A j \in group.objects : m <= j
  PROVE  First(group) = m
<1>1. First(group) \in group.objects /\ \A j \in group.objects : First(group) <= j
  BY DEF First
<1> QED BY <1>1

(* The two ways to place a file.                                           *)
NewGroup(size) ==
  groups' = Append(groups, [objects |-> {Len(files) + 1}, total |-> size])

Joins(g, size) ==
  groups' = [groups EXCEPT ![g] = [objects |-> @.objects \cup {Len(files) + 1},
                                   total   |-> @.total + size]]

LEMMA PlaceForms ==
  ASSUME NEW size \in Nat, Place(size)
  PROVE  /\ files' = Append(files, size)
         /\ NewGroup(size) \/ \E g \in DOMAIN groups : Accepts(groups[g].total, size) /\ Joins(g, size)
BY DEF Place, Fits, NewGroup, Joins

LEMMA FilesGrow ==
  ASSUME PackType, NEW size \in Nat, files' = Append(files, size)
  PROVE  /\ files' \in Seq(Nat) /\ Len(files) \in Nat /\ Len(files') = Len(files) + 1
         /\ \A k \in 1..Len(files) : files'[k] = files[k]
         /\ files'[Len(files) + 1] = size
BY DEF PackType

(* A file that no group accepts opens one.                                 *)
LEMMA NewGroupKeeps ==
  ASSUME PInv, NEW size \in Nat, files' = Append(files, size), NewGroup(size)
  PROVE  PInv'
<1> DEFINE n == Len(files)
           i == n + 1
           N == Len(groups) + 1
           G == [objects |-> {i}, total |-> size]
<1>1. /\ files' \in Seq(Nat) /\ n \in Nat /\ Len(files') = i
      /\ \A k \in 1..n : files'[k] = files[k]
      /\ files'[i] = size
  BY FilesGrow DEF PInv
<1>2. /\ groups \in Seq(Group) /\ Len(groups) \in Nat /\ DOMAIN groups = 1..Len(groups)
      /\ \A g \in DOMAIN groups : groups[g] \in Group
  BY DEF PInv, PackType
<1> DEFINE S == [objects : SUBSET (1..i), total : Nat]
<1>3. G \in S /\ groups \in Seq(S) /\ groups' = Append(groups, G)
  <2>1. \A g \in DOMAIN groups : groups[g] \in S
    BY <1>1, <1>2 DEF Group
  <2>2. G \in S
    BY <1>1
  <2> HIDE DEF S, G
  <2>3. groups \in Seq(S)
    BY <1>2, <2>1
  <2> USE DEF G
  <2>4. groups' = Append(groups, G)
    BY DEF NewGroup
  <2> QED BY <2>2, <2>3, <2>4
<1>4. /\ groups' \in Seq(S) /\ DOMAIN groups' = 1..N /\ Len(groups') = N
      /\ \A g \in DOMAIN groups : groups'[g] = groups[g]
      /\ groups'[N] = G
  <2> HIDE DEF S, G
  <2> QED BY <1>2, <1>3
<1>a. PackType'
  BY <1>1, <1>4 DEF PackType, Group
<1>5. Started'
  <2> SUFFICES ASSUME NEW g \in 1..N
               PROVE  \E j \in groups'[g].objects : \A k \in groups'[g].objects : j <= k
    BY <1>4 DEF Started
  <2>1. CASE g = N
    BY <2>1, <1>1, <1>4
  <2>2. CASE g # N
    <3>1. g \in DOMAIN groups /\ groups'[g] = groups[g]
      BY <2>2, <1>2, <1>4
    <3> QED BY <3>1 DEF PInv, Started
  <2> QED BY <2>1, <2>2
<1>6. \A g \in DOMAIN groups : i \notin groups[g].objects
  BY <1>1, <1>2 DEF Group
<1>7. EachFileOnce'
  <2> SUFFICES ASSUME NEW k \in 1..i
               PROVE  \E g \in DOMAIN groups' :
                        k \in groups'[g].objects
                        /\ \A h \in DOMAIN groups' : k \in groups'[h].objects => h = g
    BY <1>1 DEF EachFileOnce
  <2>1. CASE k = i
    <3>1. N \in DOMAIN groups' /\ k \in groups'[N].objects
      BY <2>1, <1>2, <1>4
    <3>2. \A h \in DOMAIN groups' : k \in groups'[h].objects => h = N
      BY <2>1, <1>2, <1>4, <1>6
    <3> QED BY <3>1, <3>2
  <2>2. CASE k # i
    <3>1. k \in DOMAIN files /\ k \notin G.objects
      BY <2>2, <1>1 DEF PInv, PackType
    <3>2. PICK g \in DOMAIN groups :
            k \in groups[g].objects /\ \A h \in DOMAIN groups : k \in groups[h].objects => h = g
      BY <3>1 DEF PInv, EachFileOnce
    <3>3. \A h \in DOMAIN groups' : k \in groups'[h].objects => h \in DOMAIN groups /\ k \in groups[h].objects
      BY <3>1, <1>2, <1>4
    <3>4. g \in DOMAIN groups' /\ k \in groups'[g].objects
      BY <3>2, <1>2, <1>4
    <3> QED BY <3>2, <3>3, <3>4
  <2> QED BY <2>1, <2>2
<1>8. BoundedGroups'
  <2> SUFFICES ASSUME NEW g \in 1..N
               PROVE  Slabs(groups'[g].total)
                        \in 0..Slabs(MaxGroupSize) \cup {Slabs(files'[First(groups'[g])])}
    BY <1>4 DEF BoundedGroups, First, Slabs, Padding
  <2>1. CASE g = N
    <3>1. First(G) = i
      <4>1. i \in G.objects /\ G.objects \subseteq Nat /\ \A j \in G.objects : i <= j
        BY <1>1
      <4> HIDE DEF i, G
      <4> QED BY <4>1, FirstIs
    <3> QED BY <2>1, <3>1, <1>1, <1>4
  <2>2. CASE g # N
    <3>1. g \in DOMAIN groups /\ groups'[g] = groups[g]
      BY <2>2, <1>2, <1>4
    <3>2. First(groups[g]) \in 1..n
      BY <3>1, <1>2 DEF PInv, Started, First, Group
    <3>3. files'[First(groups[g])] = files[First(groups[g])]
      BY <3>2, <1>1
    <3> QED BY <3>1, <3>3 DEF PInv, BoundedGroups
  <2> QED BY <2>1, <2>2
<1> QED BY <1>a, <1>5, <1>7, <1>8 DEF PInv

(* A file that a group accepts joins it.                                   *)
LEMMA JoinKeeps ==
  ASSUME PInv, NEW size \in Nat, files' = Append(files, size),
         NEW g0 \in DOMAIN groups, Accepts(groups[g0].total, size), Joins(g0, size)
  PROVE  PInv'
<1> DEFINE n == Len(files)
           i == n + 1
           t == groups[g0].total
           G == [objects |-> groups[g0].objects \cup {i}, total |-> t + size]
<1>1. /\ files' \in Seq(Nat) /\ n \in Nat /\ Len(files') = i
      /\ \A k \in 1..n : files'[k] = files[k]
  BY FilesGrow DEF PInv
<1>2. /\ groups \in Seq(Group) /\ t \in Nat
      /\ \A g \in DOMAIN groups : groups[g] \in Group
  <2>1. groups \in Seq(Group) /\ \A g \in DOMAIN groups : groups[g] \in Group
    BY DEF PInv, PackType
  <2>2. groups[g0] \in Group
    BY <2>1
  <2> QED BY <2>1, <2>2 DEF Group
<1>3. /\ groups' = [groups EXCEPT ![g0] = G] /\ DOMAIN groups' = DOMAIN groups
      /\ \A g \in DOMAIN groups : groups'[g] = IF g = g0 THEN G ELSE groups[g]
  BY DEF Joins
<1>4. PackType'
  <2>1. G \in Group' /\ \A g \in DOMAIN groups : groups[g] \in Group'
    BY <1>1, <1>2 DEF Group
  <2>2. groups' \in Seq(Group')
    <3>1. groups \in Seq(Group')
      BY <2>1, <1>2
    <3> QED BY <2>1, <3>1, <1>3
  <2> QED BY <1>1, <2>2 DEF PackType
<1>5. \A g \in DOMAIN groups : groups[g].objects \subseteq 1..n
  BY <1>2 DEF Group
<1>6. PICK m \in groups[g0].objects : \A j \in groups[g0].objects : m <= j
  BY DEF PInv, Started
<1>7. m \in 1..n /\ m \in G.objects /\ \A j \in G.objects : m <= j
  BY <1>1, <1>5, <1>6
<1>8. Started'
  BY <1>3, <1>7 DEF PInv, Started
<1>9. EachFileOnce'
  <2> SUFFICES ASSUME NEW k \in 1..i
               PROVE  \E g \in DOMAIN groups :
                        k \in groups'[g].objects
                        /\ \A h \in DOMAIN groups : k \in groups'[h].objects => h = g
    BY <1>1, <1>3 DEF EachFileOnce
  <2>1. CASE k = i
    BY <2>1, <1>1, <1>3, <1>5
  <2>2. CASE k # i
    <3>1. k \in DOMAIN files
      BY <2>2, <1>1 DEF PInv, PackType
    <3>2. PICK g \in DOMAIN groups :
            k \in groups[g].objects /\ \A h \in DOMAIN groups : k \in groups[h].objects => h = g
      BY <3>1 DEF PInv, EachFileOnce
    <3>3. \A h \in DOMAIN groups : k \in groups'[h].objects <=> k \in groups[h].objects
      BY <2>2, <1>3
    <3> QED BY <3>2, <3>3
  <2> QED BY <2>1, <2>2
<1>10. BoundedGroups'
  <2> SUFFICES ASSUME NEW g \in DOMAIN groups
               PROVE  Slabs(groups'[g].total)
                        \in 0..Slabs(MaxGroupSize) \cup {Slabs(files'[First(groups'[g])])}
    BY <1>3 DEF BoundedGroups, First, Slabs, Padding
  <2>1. CASE g = g0
    <3>1. First(groups[g0]) = m /\ First(G) = m
      <4>1. groups[g0].objects \subseteq Nat /\ G.objects \subseteq Nat
        BY <1>1, <1>5
      <4> QED BY <4>1, <1>6, <1>7, FirstIs
    <3>2. files'[m] = files[m]
      BY <1>1, <1>7
    <3>3. Slabs(t) \in 0..Slabs(MaxGroupSize) \cup {Slabs(files[m])}
      BY <3>1 DEF PInv, BoundedGroups
    <3>4. Slabs(t + size) = Slabs(t) \/ Slabs(t + size) <= Slabs(MaxGroupSize)
      BY <1>2, AcceptedStaysBounded
    <3>5. Slabs(t + size) \in Nat /\ Slabs(MaxGroupSize) \in Nat
      <4>1. t + size \in Nat /\ MaxGroupSize \in Nat
        BY <1>2, PackingAssumption
      <4> QED BY <4>1, SlabsHold
    <3>6. Slabs(t + size) \in 0..Slabs(MaxGroupSize) \cup {Slabs(files[m])}
      BY <3>3, <3>4, <3>5
    <3> QED BY <2>1, <3>1, <3>2, <3>6, <1>3
  <2>2. CASE g # g0
    <3>1. groups'[g] = groups[g]
      BY <2>2, <1>3
    <3>2. First(groups[g]) \in 1..n
      BY <1>5 DEF PInv, Started, First
    <3>3. files'[First(groups[g])] = files[First(groups[g])]
      BY <3>2, <1>1
    <3> QED BY <3>1, <3>3 DEF PInv, BoundedGroups
  <2> QED BY <2>1, <2>2
<1> QED BY <1>4, <1>8, <1>9, <1>10 DEF PInv

LEMMA EmptyPacking ==
  ASSUME files = <<>>, groups = <<>>
  PROVE  PInv
BY DEF PInv, PackType, Started, EachFileOnce, BoundedGroups

LEMMA PackingStep ==
  ASSUME PInv, [PackNext]_packVars
  PROVE  PInv'
<1>1. CASE HandOver
  BY <1>1 DEF HandOver, PInv, PackType, Started, EachFileOnce, BoundedGroups
<1>2. ASSUME NEW size \in Sizes, Place(size) PROVE PInv'
  <2>1. size \in Nat
    BY SizesAssumption
  <2>2. files' = Append(files, size)
    BY <1>2, <2>1, PlaceForms
  <2>3. CASE NewGroup(size)
    BY <2>1, <2>2, <2>3, NewGroupKeeps
  <2>4. ASSUME NEW g \in DOMAIN groups, Accepts(groups[g].total, size), Joins(g, size)
        PROVE  PInv'
    BY <2>1, <2>2, <2>4, JoinKeeps
  <2> QED BY <1>2, <2>1, <2>3, <2>4, PlaceForms
<1>3. CASE UNCHANGED packVars
  <2>1. files' = files /\ groups' = groups
    BY <1>3 DEF packVars
  <2>2. PackType' /\ Started'
    BY <2>1 DEF PInv, PackType, Group, Started
  <2>3. EachFileOnce'
    BY <2>1 DEF PInv, EachFileOnce
  <2>4. BoundedGroups'
    BY <2>1 DEF PInv, BoundedGroups, First, Slabs, Padding
  <2> QED BY <2>2, <2>3, <2>4 DEF PInv
<1> QED BY <1>1, <1>2, <1>3 DEF PackNext

(* Flush drops no staged file, packs none twice, and never lets a group    *)
(* take more slabs than the limit or than its first file needs             *)
(* (prepareUploads, tryAdd).                                               *)
THEOREM PackingSound == PackSpec => []PackingIsSound
<1>1. PackInit => PInv
  BY EmptyPacking DEF PackInit
<1>2. PInv /\ [PackNext]_packVars => PInv'
  BY PackingStep
<1>3. PInv => PackingIsSound
  BY DEF PInv, PackingIsSound
<1> QED BY <1>1, <1>2, <1>3, PTL DEF PackSpec
=============================================================================
