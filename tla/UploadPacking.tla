--------------------------- MODULE UploadPacking ---------------------------
(***************************************************************************)
(* core/vault/upload_staging.go: how Flush packs the staged files into the *)
(* groups of one packed upload each.  A file is its size; a share of       *)
(* padding (a float64 in the code) is a fraction.                          *)
(***************************************************************************)
EXTENDS Integers, Sequences

CONSTANTS SlabSize,     \* optimalSlabSize
          MaxGroupSize, \* DefaultMaxGroupSize
          WastePct,     \* DefaultUploadWastePct, in percent
          Sizes,        \* sizes a file may have
          MaxFiles      \* bound: files of one Flush

ASSUME PackingAssumption ==
  SlabSize \in Nat \ {0} /\ MaxGroupSize \in Nat \ {0} /\ WastePct \in 0..100
ASSUME SizesAssumption == Sizes \subseteq Nat /\ MaxFiles \in Nat

VARIABLES
  files, \* sequence of the sizes of the staged files, in the order of the query
  groups \* sequence of uploadGroups: [objects |-> files taken, total |-> totalSize]

packVars == <<files, groups>>

Smaller(p, q) == p.num * q.den < q.num * p.den

(* The padding of the last slab, and the share of it in the slabs used.    *)
Padding(total) == (SlabSize - (total % SlabSize)) % SlabSize

WasteShare(total) ==
  IF total = 0 THEN [num |-> 1, den |-> 1]
  ELSE [num |-> Padding(total), den |-> total + Padding(total)]

(* Mutant: full slabs are taken for an empty one.                          *)
RemainingSpaceOpen(total) == SlabSize - (total % SlabSize)

RemainingSpace(total) == IF total = 0 THEN SlabSize ELSE Padding(total)

(* tryAdd: the guard of its two ways to accept one more file.              *)
Accepts(total, size) ==
  LET tooLarge    == total + size > MaxGroupSize
      wellFilled  == Smaller(WasteShare(total), [num |-> WastePct, den |-> 100])
      fitsLast    == size <= RemainingSpace(total)
      lessWaste   == Smaller([num |-> Padding(total + size),
                              den |-> total + size + Padding(total + size)], WasteShare(total))
  IN  \/ ~tooLarge /\ ~wellFilled
      \/ fitsLast
      \/ ~tooLarge /\ lessWaste

(* prepareUploads takes the staged files one by one.  First fit: the first *)
(* group that accepts the file takes it, or a new one does.                *)
Fits(size) == {g \in DOMAIN groups : Accepts(groups[g].total, size)}

Place(size) ==
  LET i == Len(files) + 1 IN
  /\ i <= MaxFiles
  /\ files' = Append(files, size)
  /\ \/ /\ Fits(size) = {}
        /\ groups' = Append(groups, [objects |-> {i}, total |-> size])
     \/ \E g \in Fits(size) :
          /\ \A h \in Fits(size) : g <= h
          /\ groups' = [groups EXCEPT ![g] = [objects |-> @.objects \cup {i},
                                             total   |-> @.total + size]]

(* Flush hands the groups on; the next one starts anew.                    *)
HandOver ==
  /\ files # <<>>
  /\ files' = <<>> /\ groups' = <<>>

PackInit == files = <<>> /\ groups = <<>>

PackNext == HandOver \/ \E size \in Sizes : Place(size)

PackSpec == PackInit /\ [][PackNext]_packVars

-----------------------------------------------------------------------------
Slabs(total) == (total + Padding(total)) \div SlabSize

First(group) == CHOOSE i \in group.objects : \A j \in group.objects : i <= j

(* Every staged file is in one group and in one only.                      *)
EachFileOnce ==
  \A i \in DOMAIN files : \E g \in DOMAIN groups :
    i \in groups[g].objects /\ \A h \in DOMAIN groups : i \in groups[h].objects => h = g

(* A group never takes more slabs than the limit or than its first file.   *)
BoundedGroups ==
  \A g \in DOMAIN groups :
    Slabs(groups[g].total) \in 0..Slabs(MaxGroupSize) \cup {Slabs(files[First(groups[g])])}

(* However many files of whatever sizes are staged, none is dropped or     *)
(* packed twice, and no group grows beyond what an upload may take.        *)
PackingIsSound == EachFileOnce /\ BoundedGroups
=============================================================================
