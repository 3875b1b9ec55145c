------------------------- MODULE DirectBucketProofs -------------------------
(***************************************************************************)
(* Proofs about direct buckets, for every number of buckets, every stride  *)
(* and all records.                                                        *)
(***************************************************************************)
EXTENDS DirectBucket, SequenceTheorems, TLAPS

\* A stride that has room for the meta data: then max_size - sizeof(meta) does
\* not wrap.
LEMMA HeadRoomFacts ==
    ASSUME Stride >= 2, NEW n \in Nat
    PROVE  HeadRoom(n) <=> n + 2 <= Stride
<1>1. Stride - 2 \in 0 .. Wrap - 1 /\ Wrap \in Nat \ {0} /\ Stride \in Nat
  BY DirectAssumption
<1>2. (Stride - 2) % Wrap = Stride - 2
  BY <1>1
<1> QED
  BY <1>1, <1>2 DEF HeadRoom

\* The cells of a write, in order.
LEMMA StreamFacts ==
    ASSUME NEW r \in Rec
    PROVE  /\ Length[r] \in Nat \ {0}
           /\ HeadRoom(Length[r]) =>
                 /\ Len(Stream(r)) = Length[r] + 2
                 /\ Stream(r)[1] = Magic /\ Stream(r)[2] = LenCell(Length[r])
                 /\ \A k \in 1 .. Length[r] : Stream(r)[k + 2] = DataCell(r, k)
           /\ ~HeadRoom(Length[r]) =>
                 /\ Len(Stream(r)) = Length[r]
                 /\ \A k \in 1 .. Length[r] : Stream(r)[k] = DataCell(r, k)
<1> DEFINE n == Length[r]
           H == <<Magic, LenCell(n)>>
           D == Data(r)
           C == {Magic, LenCell(n)} \cup {DataCell(r, k) : k \in 1 .. n}
<1>1. n \in Nat \ {0}
  BY DirectAssumption
<1>2. /\ D \in Seq(C) /\ Len(D) = n /\ \A k \in 1 .. n : D[k] = DataCell(r, k)
  BY <1>1 DEF Data
<1>3. H \in Seq(C) /\ Len(H) = 2 /\ H[1] = Magic /\ H[2] = LenCell(n)
  OBVIOUS
<1> HIDE DEF H, D, C
<1>4. /\ Len(H \o D) = Len(H) + Len(D)
      /\ \A k \in 1 .. Len(H) + Len(D) :
            (H \o D)[k] = IF k <= Len(H) THEN H[k] ELSE D[k - Len(H)]
  BY <1>2, <1>3, ConcatProperties
<1>5. /\ Len(H \o D) = n + 2
      /\ \A k \in 1 .. n + 2 : (H \o D)[k] = IF k <= 2 THEN H[k] ELSE D[k - 2]
  BY <1>1, <1>2, <1>3, <1>4
<1>6. (H \o D)[1] = Magic /\ (H \o D)[2] = LenCell(n)
  BY <1>1, <1>3, <1>5
<1>7. ASSUME NEW k \in 1 .. n
      PROVE  (H \o D)[k + 2] = DataCell(r, k)
  <2>1. k + 2 \in 1 .. n + 2 /\ ~(k + 2 <= 2) /\ k + 2 - 2 = k
    BY <1>1
  <2> QED
    BY <1>2, <1>5, <2>1
<1> QED
  BY <1>1, <1>2, <1>5, <1>6, <1>7 DEF Stream, H, D

-----------------------------------------------------------------------------
(* Types, and the area of a bucket *)

\* What is written is a record of this build, and one that it does not refuse.
TargetInv ==
    /\ target[1] \in Bucket /\ target[2] \in build.recs /\ target[2] \in Rec
    /\ stage = "write" => HeadRoom(Length[target[2]]) \/ Compat

LEMMA StreamCells ==
    ASSUME Stride >= 2, NEW r \in Rec, NEW k \in 1 .. Len(Stream(r))
    PROVE  Stream(r)[k] \in Cell
<1>1. \A j \in 1 .. Length[r] : DataCell(r, j) \in Cell
  BY DEF Cell, Data
<1>2. Length[r] \in Nat
  BY StreamFacts
<1>3. CASE HeadRoom(Length[r])
  <2>1. Magic \in Cell /\ LenCell(Length[r]) \in Cell
    <3>1. Length[r] \in {Length[x] : x \in Rec} \cap 0 .. Stride - 2
      BY <1>2, <1>3, HeadRoomFacts, DirectAssumption
    <3> QED
      BY <3>1 DEF Cell
  <2>2. k = 1 \/ k = 2 \/ k - 2 \in 1 .. Length[r]
    BY <1>2, <1>3, StreamFacts
  <2>3. ASSUME k - 2 \in 1 .. Length[r]
        PROVE  Stream(r)[k] = DataCell(r, k - 2)
    <3>1. Stream(r)[(k - 2) + 2] = DataCell(r, k - 2)
      BY <1>3, <2>3, StreamFacts
    <3>2. (k - 2) + 2 = k
      BY <1>2, <1>3, StreamFacts
    <3> QED
      BY <3>1, <3>2
  <2> QED
    BY <1>1, <1>3, <2>1, <2>2, <2>3, StreamFacts
<1>4. CASE ~HeadRoom(Length[r])
  BY <1>1, <1>4, StreamFacts
<1> QED
  BY <1>3, <1>4

LEMMA DirectTypeStep ==
    ASSUME Stride >= 2
    PROVE  DirectTypeOK /\ TargetInv /\ [DirectNext]_directVars => DirectTypeOK' /\ TargetInv'
<1> SUFFICES ASSUME DirectTypeOK, TargetInv, [DirectNext]_directVars
             PROVE  DirectTypeOK' /\ TargetInv'
  OBVIOUS
<1> DEFINE n == Len(Stream(target[2]))
<1>t. /\ build \in Builds /\ dev \in [Cells -> Cell]
      /\ stage \in {"idle", "write"} /\ target \in Bucket \X Rec
      /\ pos \in 0 .. n /\ lost \in 0 .. pos /\ ok \in BOOLEAN
      /\ build.recs \subseteq Rec
  BY DirectAssumption DEF DirectTypeOK, Cell
<1>p. DirectTypeOK' <=>
        /\ build' \in Builds /\ dev' \in [Cells -> Cell]
        /\ stage' \in {"idle", "write"} /\ target' \in Bucket \X Rec
        /\ pos' \in 0 .. Len(Stream(target'[2])) /\ lost' \in 0 .. pos'
        /\ ok' \in BOOLEAN
  BY DEF DirectTypeOK, Cell
<1>l. \A r \in Rec : Len(Stream(r)) \in Nat
  BY StreamFacts
<1>n. n \in Nat /\ pos \in Nat
  BY <1>t, <1>l
<1> HIDE DEF n
<1>1. ASSUME NEW b \in Bucket, NEW r \in build.recs, WriteBegin(b, r)
      PROVE  DirectTypeOK' /\ TargetInv'
  <2>1. /\ stage' = "write" /\ target' = <<b, r>> /\ pos' = 0 /\ lost' = 0 /\ ok' = FALSE
        /\ UNCHANGED <<build, dev>> /\ (HeadRoom(Length[r]) \/ Compat)
    BY <1>1 DEF WriteBegin
  <2>2. target'[1] = b /\ target'[2] = r /\ r \in Rec /\ Compat' = Compat
    BY <1>t, <2>1 DEF Compat
  <2>3. pos' \in 0 .. Len(Stream(target'[2])) /\ lost' \in 0 .. pos'
    BY <1>l, <2>1, <2>2
  <2> QED
    BY <1>t, <1>p, <2>1, <2>2, <2>3 DEF TargetInv
<1>2. CASE WriteCell
  <2>1. Stream(target[2])[pos + 1] \in Cell
    <3>1. target[2] \in Rec /\ pos + 1 \in 1 .. Len(Stream(target[2]))
      BY <1>t, <1>n, <1>2 DEF WriteCell, n
    <3> QED
      BY <3>1, StreamCells
  <2>2. dev' \in [Cells -> Cell]
    BY <1>t, <1>2, <2>1 DEF WriteCell
  <2>3. /\ pos' \in 0 .. Len(Stream(target[2])) /\ lost' \in 0 .. pos'
        /\ UNCHANGED <<build, stage, target, ok>>
    BY <1>t, <1>n, <1>2 DEF WriteCell, n
  <2> QED
    BY <1>t, <1>p, <2>2, <2>3 DEF TargetInv, Compat
<1>z. CASE ZeroWrite
  <2>1. PICK m \in {2, n} :
          /\ pos' = m /\ lost' = lost + (m - pos) /\ pos < n
          /\ m = 2 => (HeadRoom(Length[target[2]]) /\ pos < 2) \/ m = n
          /\ UNCHANGED <<build, dev, stage, target, ok>>
    BY <1>z DEF ZeroWrite, n
  <2>2. HeadRoom(Length[target[2]]) => 2 <= n
    BY <1>t, StreamFacts DEF n
  <2>3. pos' \in 0 .. n /\ lost' \in 0 .. pos'
    BY <1>t, <1>n, <2>1, <2>2
  <2> QED
    BY <1>t, <1>p, <2>1, <2>3 DEF TargetInv, Compat, n
<1>3. CASE WriteEnd
  BY <1>t, <1>p, <1>3 DEF WriteEnd, TargetInv, Compat, n
<1>4. CASE (\E r \in build.recs : WriteReject(r)) \/ WriteFail
  BY <1>t, <1>p, <1>4 DEF WriteReject, WriteFail, TargetInv, Compat, n
<1>5. CASE UNCHANGED directVars
  BY <1>t, <1>p, <1>5 DEF directVars, TargetInv, Compat, n
<1> QED
  BY <1>1, <1>2, <1>z, <1>3, <1>4, <1>5 DEF DirectNext

LEMMA DirectTypeInit == DirectInit => DirectTypeOK /\ TargetInv
<1> SUFFICES ASSUME DirectInit PROVE DirectTypeOK /\ TargetInv
  OBVIOUS
<1>1. 0 \in Bucket /\ build.recs \subseteq Rec
  BY DirectAssumption DEF DirectInit, Bucket
<1>2. target \in Bucket \X Rec /\ target[1] \in Bucket /\ target[2] \in build.recs
  BY <1>1 DEF DirectInit
<1>3. pos \in 0 .. Len(Stream(target[2])) /\ lost \in 0 .. pos
  BY <1>1, <1>2, StreamFacts DEF DirectInit
<1> QED
  BY <1>1, <1>2, <1>3 DEF DirectInit, DirectTypeOK, TargetInv, Cell

\* Types of the direct buckets, for every stride that has room for the meta
\* data: a length that is written leaves room for itself.
THEOREM DirectTypeCorrect ==
    ASSUME Stride >= 2
    PROVE  DirectSpec => []DirectTypeOK
BY DirectTypeInit, DirectTypeStep, PTL DEF DirectSpec

\* A write reaches beyond its bucket only when a backward compatible build
\* writes a record that is larger than the bucket.
LEMMA StreamFits ==
    ASSUME Stride >= 2, DirectTypeOK, TargetInv, stage = "write",
           ~Compat \/ Length[target[2]] <= Stride
    PROVE  Len(Stream(target[2])) <= Stride
<1>1. target[2] \in Rec /\ Length[target[2]] \in Nat /\ Stride \in Nat
  BY StreamFacts, DirectAssumption DEF DirectTypeOK, TargetInv
<1>2. CASE HeadRoom(Length[target[2]])
  BY <1>1, <1>2, HeadRoomFacts, StreamFacts
<1>3. CASE ~HeadRoom(Length[target[2]])
  BY <1>1, <1>3, StreamFacts DEF TargetInv
<1> QED
  BY <1>2, <1>3

\* A write of a record that some build may be given changes a cell outside the
\* area of its bucket in two cases only.
Spill == Stride < 2 \/ (Compat /\ Length[target[2]] > Stride)

StaysInStrideUnlessSpill ==
    [][ \A c \in Cells : dev'[c] # dev[c] =>
            Spill \/ c \in Offset(target[1]) .. Offset(target[1]) + Stride - 1 ]_directVars

\* For every number of buckets, every stride, all builds and records, whether
\* writes are cut short or not: what StaysInStride asks of a write is broken
\* by two kinds of writes at most, those to a bucket with no room for the meta
\* data and those of a record larger than the bucket by a backward compatible
\* build.  The code tests for neither (backend_bucket_direct.c:125).
THEOREM StaysInStrideUnlessSpillHolds == DirectSpec => StaysInStrideUnlessSpill
<1> DEFINE Within ==
        \A c \in Cells : dev'[c] # dev[c] =>
            Spill \/ c \in Offset(target[1]) .. Offset(target[1]) + Stride - 1
<1>1. CASE Stride < 2
  <2>1. [DirectNext]_directVars => [Within]_directVars
    BY <1>1 DEF Spill
  <2> QED
    BY <2>1, PTL DEF DirectSpec, StaysInStrideUnlessSpill
<1>2. CASE ~(Stride < 2)
  <2>0. Stride >= 2
    BY <1>2, DirectAssumption
  <2>1. DirectTypeOK /\ TargetInv /\ [DirectNext]_directVars => [Within]_directVars
    <3> SUFFICES ASSUME DirectTypeOK, TargetInv, [DirectNext]_directVars, ~Spill
                 PROVE  Within
      OBVIOUS
    <3>1. CASE dev' = dev
      BY <3>1
    <3>2. CASE WriteCell
      <4> DEFINE o == Offset(target[1])
                 n == Len(Stream(target[2]))
      <4>1. /\ \A c \in Cells : dev'[c] # dev[c] => c = o + pos - lost
            /\ pos < n /\ stage = "write"
        BY <3>2 DEF WriteCell, DirectTypeOK
      <4>3. /\ o \in Int /\ pos \in Nat /\ Stride \in Nat /\ lost \in 0 .. pos
            /\ n \in Nat /\ Length[target[2]] \in Nat
        BY DirectAssumption, StreamFacts DEF Offset, DirectTypeOK, TargetInv, Bucket
      <4>2. n <= Stride
        BY <2>0, <4>1, <4>3, StreamFits DEF Spill
      <4> HIDE DEF o, n
      <4>4. o + pos - lost \in o .. o + Stride - 1
        BY <4>1, <4>2, <4>3
      <4> QED
        BY <4>1, <4>4 DEF o
    <3> QED
      BY <3>1, <3>2 DEF DirectNext, WriteBegin, WriteReject, ZeroWrite, WriteEnd, WriteFail, directVars
  <2>2. DirectInit => DirectTypeOK /\ TargetInv
    BY DirectTypeInit
  <2>3. DirectTypeOK /\ TargetInv /\ [DirectNext]_directVars => DirectTypeOK' /\ TargetInv'
    BY <2>0, DirectTypeStep
  <2> QED
    BY <2>1, <2>2, <2>3, PTL DEF DirectSpec, StaysInStrideUnlessSpill
<1> QED
  BY <1>1, <1>2

-----------------------------------------------------------------------------
(* Old record, none, or the new one *)

\* No backward compatible build is given a record that is larger than its
\* bucket; other builds refuse one that leaves no room for the meta data.
RecordsFit ==
    \A c \in Builds : \A r \in c.recs : c.compat => Length[r] <= Stride

\* A build has one layout of its variables, so its records have one length.
OneLength == \A c \in Builds : \A r, s \in c.recs : Length[r] = Length[s]

\* No write() returns 0 half way.
NoZeroWrites == \A c \in Builds : ~c.zero

L == Length[target[2]]
H == IF HeadRoom(L) THEN 2 ELSE 0
Writable == HeadRoom(L) \/ Compat

At(b, i) == dev[Offset(b) + i]

Headed(b) ==
    IF HeadRoom(L) THEN At(b, 0) = Magic /\ At(b, 1) = LenCell(L) ELSE Compat

Whole(b, x) == \A k \in 1 .. L : At(b, H + k - 1) = DataCell(x, k)

\* A cell of a record stands behind the header that a read needs to find it,
\* and at its place.
BucketInv(b) ==
    /\ HeadRoom(L) => /\ At(b, 0) \in {Blank, Alien, Magic}
                      /\ At(b, 1) \in {Blank, Alien, LenCell(L)}
    /\ \A k \in 1 .. L :
          \/ At(b, H + k - 1) \in {Blank, Alien}
          \/ Headed(b) /\ \E x \in build.recs : At(b, H + k - 1) = DataCell(x, k)

\* The cells that the write has passed are on the device.
WrittenInv ==
    stage = "write" =>
        \A i \in 1 .. pos : At(target[1], i - 1) = Stream(target[2])[i]

DirectInv ==
    /\ DirectTypeOK /\ TargetInv /\ WrittenInv /\ lost = 0
    /\ Writable => \A b \in Bucket : BucketInv(b)
    /\ ~Writable => stage = "idle" /\ \A c \in Cells : dev[c] \in {Blank, Alien}

\* What a read returns is the record that is there as a whole.
ReadOK ==
    \A b \in Bucket :
        /\ Read(b) \in build.recs \cup {Nothing}
        /\ \A x \in build.recs : Read(b) = x <=> Writable /\ Whole(b, x)

\* The areas of two buckets do not meet.
LEMMA LaterOffset ==
    ASSUME NEW a \in Bucket, NEW b \in Bucket, a < b
    PROVE  Offset(a) + Stride <= Offset(b)
<1> DEFINE d == b - a - 1
<1>1. a \in Nat /\ b \in Nat /\ d \in Nat /\ Stride \in Nat /\ b = a + 1 + d
  BY DirectAssumption DEF Bucket
<1> HIDE DEF d
<1>2. (a + 1 + d) * Stride = a * Stride + Stride + d * Stride /\ d * Stride >= 0
  BY <1>1
<1>3. a * Stride \in Nat /\ b * Stride \in Nat /\ d * Stride \in Nat
  BY <1>1
<1> QED
  BY <1>1, <1>2, <1>3 DEF Offset

LEMMA OffsetFacts ==
    ASSUME NEW a \in Bucket, NEW i \in 0 .. Stride - 1
    PROVE  /\ Offset(a) \in Nat /\ Offset(a) + i \in Cells
           /\ \A b \in Bucket : \A j \in 0 .. Stride - 1 :
                 Offset(a) + i = Offset(b) + j => a = b /\ i = j
<1>1. Stride \in Nat \ {0} /\ NB \in Nat \ {0} /\ Size \in Nat /\ Size >= NB * Stride
  BY DirectAssumption
<1>2. \A b \in Bucket : b \in Nat /\ b <= NB - 1 /\ Offset(b) \in Nat
  BY <1>1 DEF Bucket, Offset
<1>3. Offset(a) + Stride <= NB * Stride
  <2> DEFINE d == NB - a - 1
  <2>1. d \in Nat /\ NB = a + 1 + d /\ a \in Nat
    BY <1>1, <1>2
  <2> HIDE DEF d
  <2>2. (a + 1 + d) * Stride = a * Stride + Stride + d * Stride /\ d * Stride >= 0
    BY <1>1, <2>1
  <2> QED
    BY <1>1, <1>2, <2>1, <2>2 DEF Offset
<1>4. NB * Stride \in Nat
  BY <1>1
<1>5. Offset(a) + i \in Cells
  BY <1>1, <1>2, <1>3, <1>4 DEF Cells
<1>6. ASSUME NEW b \in Bucket, NEW j \in 0 .. Stride - 1,
             Offset(a) + i = Offset(b) + j
      PROVE  a = b /\ i = j
  <2>1. ~(a < b) /\ ~(b < a)
    BY <1>1, <1>2, <1>6, LaterOffset
  <2>2. a = b
    BY <1>2, <2>1
  <2> QED
    BY <1>2, <1>6, <2>2
<1> QED
  BY <1>2, <1>5, <1>6

LEMMA RecordAtFacts ==
    ASSUME NEW o \in Nat, NEW n \in Nat
    PROVE  /\ RecordAt(o, n) \in Rec \cup {Nothing}
           /\ \A x \in Rec : RecordAt(o, n) = x <=>
                 /\ Length[x] <= n
                 /\ \A k \in 1 .. Length[x] :
                       o + k - 1 \in Cells /\ dev[o + k - 1] = DataCell(x, k)
<1> DEFINE Image(r) ==
            /\ Length[r] <= n
            /\ \A i \in 1 .. Length[r] :
                  o + i - 1 \in Cells /\ dev[o + i - 1] = DataCell(r, i)
<1>1. RecordAt(o, n) = IF \E r \in Rec : Image(r) THEN CHOOSE r \in Rec : Image(r)
                                                  ELSE Nothing
  BY DEF RecordAt
<1>2. ASSUME NEW x \in Rec, NEW y \in Rec, Image(x), Image(y)
      PROVE  x = y
  <2>1. 1 \in 1 .. Length[x] /\ 1 \in 1 .. Length[y]
    BY DirectAssumption
  <2>2. DataCell(x, 1) = DataCell(y, 1)
    BY <1>2, <2>1
  <2> QED
    BY <2>2 DEF DataCell
<1>3. Nothing \notin Rec
  BY DirectAssumption
<1>4. \A x \in Rec : RecordAt(o, n) = x <=> Image(x)
  <2> HIDE DEF Image
  <2> QED
    BY <1>1, <1>2, <1>3
<1>5. RecordAt(o, n) \in Rec \cup {Nothing}
  <2> HIDE DEF Image
  <2> QED
    BY <1>1
<1> QED
  BY <1>4, <1>5

\* The sizes that the invariant is about.
LEMMA Sizes ==
    ASSUME Stride >= 2, RecordsFit, OneLength, DirectTypeOK, TargetInv
    PROVE  /\ L \in Nat \ {0} /\ H \in {0, 2} /\ Stride \in Nat
           /\ target[1] \in Bucket /\ target[2] \in Rec /\ pos \in Nat
           /\ \A x \in build.recs : x \in Rec /\ Length[x] = L
           /\ Writable => H + L <= Stride
           /\ Len(Stream(target[2])) = H + L
           /\ HeadRoom(L) <=> H = 2
<1>1. /\ target[2] \in Rec /\ build \in Builds /\ L \in Nat \ {0}
      /\ target[2] \in build.recs /\ build.recs \subseteq Rec /\ Stride \in Nat
      /\ target[1] \in Bucket
  BY StreamFacts, DirectAssumption DEF DirectTypeOK, TargetInv, L
<1>2. Len(Stream(target[2])) = H + L
  BY <1>1, StreamFacts DEF L, H
<1>3. Writable => H + L <= Stride
  <2>1. CASE HeadRoom(L)
    BY <1>1, <2>1, HeadRoomFacts DEF H
  <2>2. CASE ~HeadRoom(L)
    BY <1>1, <2>2 DEF H, L, Writable, Compat, RecordsFit
  <2> QED
    BY <2>1, <2>2
<1>4. pos \in Nat
  BY <1>1, <1>2 DEF DirectTypeOK, H
<1> QED
  BY <1>1, <1>2, <1>3, <1>4 DEF OneLength, L, H

LEMMA NoZeroWrite == NoZeroWrites /\ DirectTypeOK => ~ZeroWrite
BY DEF NoZeroWrites, DirectTypeOK, ZeroWrite

LEMMA ReadIsWhole ==
    ASSUME Stride >= 2, RecordsFit, OneLength, NoZeroWrites
    PROVE  DirectInv => ReadOK
<1> SUFFICES ASSUME DirectInv, NEW b \in Bucket
             PROVE  /\ Read(b) \in build.recs \cup {Nothing}
                    /\ \A x \in build.recs : Read(b) = x <=> Writable /\ Whole(b, x)
  BY DEF ReadOK
<1> DEFINE o == Offset(b)
<1>t. DirectTypeOK /\ TargetInv
  BY DEF DirectInv
<1>s. /\ L \in Nat \ {0} /\ H \in {0, 2} /\ Stride \in Nat
      /\ \A x \in build.recs : x \in Rec /\ Length[x] = L
      /\ Writable => H + L <= Stride
      /\ HeadRoom(L) <=> H = 2
  BY <1>t, Sizes
<1>n. Nothing \notin Rec
  BY DirectAssumption
<1>o. o \in Nat /\ \A i \in 0 .. Stride - 1 : o + i \in Cells
  <2>1. 0 \in 0 .. Stride - 1
    BY <1>s
  <2> QED
    BY <2>1, OffsetFacts
<1> HIDE DEF o
<1>d. Magic \notin {Blank, Alien} /\ \A x, k : DataCell(x, k) \notin {Blank, Alien, Magic}
  BY DEF Magic, Blank, Alien, DataCell
<1>e. \A x, y, k : DataCell(x, k) = DataCell(y, k) => x = y
  BY DEF DataCell
<1>1. CASE ~Writable
  <2>1. o \in Cells /\ dev[o] # Magic /\ ~Compat
    <3>1. 0 \in 0 .. Stride - 1 /\ o + 0 = o
      BY <1>s, <1>o
    <3> QED
      BY <1>1, <1>o, <1>d, <3>1 DEF DirectInv, Writable
  <2>2. Read(b) = Nothing
    BY <2>1 DEF Read, o
  <2> QED
    BY <1>1, <1>s, <1>n, <2>2
<1>2. CASE Writable
  <2>1. BucketInv(b)
    BY <1>2 DEF DirectInv
  <2>p. \A k \in 1 .. L : /\ H + k - 1 \in 0 .. Stride - 1
                          /\ (o + H) + k - 1 = o + (H + k - 1)
    BY <1>2, <1>s, <1>o
  <2>c. /\ \A k \in 1 .. L : (o + H) + k - 1 \in Cells
        /\ \A k \in 1 .. L : dev[(o + H) + k - 1] = At(b, H + k - 1)
    BY <1>o, <2>p DEF At, o
  \* A record found in this place is one of this build, and whole.
  <2>2. ASSUME NEW n \in Nat, L <= n
        PROVE  /\ RecordAt(o + H, n) \in build.recs \cup {Nothing}
               /\ \A x \in build.recs : RecordAt(o + H, n) = x <=> Whole(b, x)
    <3>1. o + H \in Nat
      BY <1>o, <1>s
    <3>2. RecordAt(o + H, n) \in Rec \cup {Nothing}
      BY <3>1, RecordAtFacts
    <3>3. \A x \in Rec : RecordAt(o + H, n) = x <=>
                 /\ Length[x] <= n
                 /\ \A k \in 1 .. Length[x] :
                       (o + H) + k - 1 \in Cells /\ dev[(o + H) + k - 1] = DataCell(x, k)
      BY <3>1, RecordAtFacts
    <3>4. ASSUME NEW x \in Rec, RecordAt(o + H, n) = x
          PROVE  x \in build.recs
      <4>1. 1 \in 1 .. Length[x] /\ 1 \in 1 .. L
        BY <1>s, DirectAssumption
      <4>2. At(b, H + 1 - 1) = DataCell(x, 1)
        BY <2>c, <3>3, <3>4, <4>1
      <4>3. \E y \in build.recs : At(b, H + 1 - 1) = DataCell(y, 1)
        BY <1>d, <2>1, <4>1, <4>2 DEF BucketInv
      <4> QED
        BY <1>e, <4>2, <4>3
    <3>5. ASSUME NEW x \in build.recs
          PROVE  RecordAt(o + H, n) = x <=> Whole(b, x)
      BY <1>s, <2>2, <2>c, <3>3 DEF Whole
    <3> QED
      BY <3>2, <3>4, <3>5
  <2>3. ASSUME NEW x \in build.recs, Whole(b, x)
        PROVE  Headed(b)
    <3>1. 1 \in 1 .. L
      BY <1>s
    <3> QED
      BY <1>d, <2>1, <2>3, <3>1 DEF BucketInv, Whole
  <2>4. CASE HeadRoom(L)
    <3>1. /\ H = 2 /\ o + 0 = o /\ 0 \in 0 .. Stride - 1 /\ 1 \in 0 .. Stride - 1
          /\ L \in 0 .. Stride
      BY <1>2, <1>s, <1>o, <2>4
    <3>2. /\ dev[o] \in {Blank, Alien, Magic} /\ dev[o + 1] \in {Blank, Alien, LenCell(L)}
          /\ Headed(b) <=> dev[o] = Magic /\ dev[o + 1] = LenCell(L)
      BY <2>1, <2>4, <3>1 DEF BucketInv, At, o, Headed
    <3>3. CASE dev[o] = Magic /\ dev[o + 1] = LenCell(L)
      <4>1. dev[o + 1][2] = L
        BY <3>3 DEF LenCell
      <4>2. Read(b) = RecordAt(o + 2, L)
        <5>1. o + 1 \in Cells
          BY <1>o, <3>1
        <5> QED
          BY <3>1, <3>3, <4>1, <5>1 DEF Read, o
      <4> QED
        BY <1>2, <1>s, <2>2, <3>1, <4>2
    <3>4. CASE dev[o] = Magic /\ dev[o + 1] # LenCell(L)
      <4>1. \A n : dev[o + 1] # LenCell(n)
        BY <3>2, <3>4 DEF Blank, Alien, LenCell
      <4>2. Read(b) = Nothing
        BY <3>4, <4>1 DEF Read, o
      <4> QED
        BY <1>n, <1>s, <2>3, <3>2, <3>4, <4>2
    <3>5. CASE dev[o] # Magic
      <4>1. RecordAt(o, Stride) = Nothing
        <5>1. \A x \in Rec : dev[o] # DataCell(x, 1)
          BY <1>d, <3>2, <3>5
        <5>2. ASSUME NEW x \in Rec PROVE RecordAt(o, Stride) # x
          <6>1. 1 \in 1 .. Length[x] /\ o + 1 - 1 = o
            BY <1>o, DirectAssumption
          <6> QED
            BY <1>s, <1>o, <5>1, <6>1, RecordAtFacts
        <5> QED
          BY <1>s, <1>o, <5>2, RecordAtFacts
      <4>2. Read(b) = Nothing
        BY <3>5, <4>1 DEF Read, o
      <4> QED
        BY <1>n, <1>s, <2>3, <3>2, <3>5, <4>2
    <3> QED
      BY <3>3, <3>4, <3>5
  <2>5. CASE ~HeadRoom(L)
    <3>1. H = 0 /\ Compat /\ o + 0 = o /\ 1 \in 1 .. L /\ H + 1 - 1 = 0 /\ L <= Stride
      BY <1>2, <1>s, <1>o, <2>5 DEF Writable
    <3>2. dev[o] = At(b, H + 1 - 1)
      BY <3>1 DEF At, o
    <3>3. dev[o] # Magic
      BY <1>d, <2>1, <3>1, <3>2 DEF BucketInv
    <3>4. Read(b) = RecordAt(o, Stride)
      BY <3>1, <3>3 DEF Read, o
    <3> QED
      BY <1>2, <1>s, <2>2, <3>1, <3>4
  <2> QED
    BY <2>4, <2>5
<1> QED
  BY <1>1, <1>2

\* What a written cell changes: itself.
LEMMA CellWritten ==
    ASSUME Stride >= 2, RecordsFit, OneLength, NoZeroWrites, DirectInv, WriteCell
    PROVE  /\ Writable /\ pos \in 0 .. H + L - 1 /\ stage = "write"
           /\ L' = L /\ H' = H /\ Compat' = Compat /\ pos' = pos + 1
           /\ UNCHANGED <<build, stage, target, lost, ok>>
           /\ \A b \in Bucket : \A j \in 0 .. Stride - 1 :
                 At(b, j)' = IF b = target[1] /\ j = pos
                             THEN Stream(target[2])[pos + 1] ELSE At(b, j)
           /\ HeadRoom(L) => /\ Stream(target[2])[1] = Magic
                             /\ Stream(target[2])[2] = LenCell(L)
           /\ \A k \in 1 .. L : Stream(target[2])[H + k] = DataCell(target[2], k)
<1>1. DirectTypeOK /\ TargetInv /\ stage = "write" /\ Writable
  BY DEF DirectInv, WriteCell
<1>2. /\ L \in Nat \ {0} /\ H \in {0, 2} /\ Stride \in Nat /\ pos \in Nat
      /\ target[1] \in Bucket /\ target[2] \in Rec /\ H + L <= Stride
      /\ Len(Stream(target[2])) = H + L /\ (HeadRoom(L) <=> H = 2)
  BY <1>1, Sizes
<1>3. pos \in 0 .. H + L - 1
  BY <1>2 DEF WriteCell
<1>4. /\ UNCHANGED <<build, stage, target, lost, ok>> /\ pos' = pos + 1
      /\ dev' = [dev EXCEPT ![Offset(target[1]) + pos] = Stream(target[2])[pos + 1]]
      /\ dev \in [Cells -> Cell]
  <2>1. lost = 0 /\ Offset(target[1]) \in Int
    BY <1>2, DirectAssumption DEF DirectInv, Offset, Bucket
  <2>2. Offset(target[1]) + pos - lost = Offset(target[1]) + pos
    BY <1>2, <2>1
  <2> QED
    BY <1>1, <2>2 DEF WriteCell, DirectTypeOK
<1>5. L' = L /\ H' = H /\ Compat' = Compat
  BY <1>4 DEF L, H, Compat
<1>6. ASSUME NEW b \in Bucket, NEW j \in 0 .. Stride - 1
      PROVE  At(b, j)' = IF b = target[1] /\ j = pos
                         THEN Stream(target[2])[pos + 1] ELSE At(b, j)
  <2>1. /\ Offset(b) + j \in Cells
        /\ Offset(b) + j = Offset(target[1]) + pos => b = target[1] /\ j = pos
    <3>1. pos \in 0 .. Stride - 1
      BY <1>2, <1>3
    <3> QED
      BY <1>2, <3>1, OffsetFacts
  <2>2. At(b, j)' = dev'[Offset(b) + j]
    BY DEF At
  <2> QED
    BY <1>4, <2>1, <2>2 DEF At
<1>7. HeadRoom(L) => Stream(target[2])[1] = Magic /\ Stream(target[2])[2] = LenCell(L)
  BY <1>2, StreamFacts DEF L
<1>8. ASSUME NEW k \in 1 .. L
      PROVE  Stream(target[2])[H + k] = DataCell(target[2], k)
  <2>1. CASE HeadRoom(L)
    <3>1. Stream(target[2])[k + 2] = DataCell(target[2], k)
      BY <1>2, <2>1, StreamFacts DEF L
    <3> QED
      BY <1>2, <2>1, <3>1
  <2>2. CASE ~HeadRoom(L)
    <3>1. Stream(target[2])[k] = DataCell(target[2], k)
      BY <1>2, <2>2, StreamFacts DEF L
    <3> QED
      BY <1>2, <2>2, <3>1
  <2> QED
    BY <2>1, <2>2
<1> QED
  BY <1>1, <1>3, <1>4, <1>5, <1>6, <1>7, <1>8

LEMMA DirectInvStep ==
    ASSUME Stride >= 2, RecordsFit, OneLength, NoZeroWrites
    PROVE  DirectInv /\ [DirectNext]_directVars => DirectInv'
<1> SUFFICES ASSUME DirectInv, [DirectNext]_directVars
             PROVE  DirectInv'
  OBVIOUS
<1>t. DirectTypeOK /\ TargetInv /\ DirectTypeOK' /\ TargetInv'
  BY DirectTypeStep DEF DirectInv
<1>s. /\ L \in Nat \ {0} /\ H \in {0, 2} /\ Stride \in Nat
      /\ target[1] \in Bucket /\ target[2] \in Rec /\ pos \in Nat
      /\ \A x \in build.recs : x \in Rec /\ Length[x] = L
      /\ Writable => H + L <= Stride
      /\ HeadRoom(L) <=> H = 2
  BY <1>t, Sizes
\* Steps that leave the device alone.
<1>1. ASSUME dev' = dev, build' = build, L' = L, lost' = 0, WrittenInv', stage' = "write" => Writable
      PROVE  DirectInv'
  <2>1. H' = H /\ Compat' = Compat /\ (Writable' <=> Writable)
    BY <1>1 DEF H, Compat, Writable
  <2>2. \A b \in Bucket : BucketInv(b) => BucketInv(b)'
    BY <1>1, <2>1 DEF BucketInv, Headed, At
  <2>3. stage' \in {"idle", "write"}
    BY <1>t DEF DirectTypeOK
  <2> QED
    BY <1>t, <1>1, <2>1, <2>2, <2>3 DEF DirectInv
<1>2. ASSUME NEW b \in Bucket, NEW r \in build.recs, WriteBegin(b, r)
      PROVE  DirectInv'
  <2>1. /\ target' = <<b, r>> /\ pos' = 0 /\ lost' = 0 /\ dev' = dev /\ build' = build
        /\ (HeadRoom(Length[r]) \/ Compat)
    BY <1>2 DEF WriteBegin
  <2>2. L' = L /\ Length[r] = L
    BY <1>s, <2>1 DEF L
  <2>3. WrittenInv'
    BY <2>1 DEF WrittenInv
  <2> QED
    BY <1>1, <2>1, <2>2, <2>3 DEF Writable
<1>3. CASE (\E r \in build.recs : WriteReject(r)) \/ WriteEnd \/ WriteFail
  <2>1. stage' = "idle" /\ UNCHANGED <<dev, build, target, lost>> /\ lost = 0
    BY <1>3 DEF WriteReject, WriteEnd, WriteFail, DirectInv
  <2> QED
    BY <1>1, <2>1 DEF WrittenInv, L
<1>4. CASE UNCHANGED directVars
  BY <1>1, <1>4 DEF directVars, WrittenInv, At, L, DirectInv
<1>5. CASE WriteCell
  <2>p. PICK t \in Bucket, r \in build.recs : t = target[1] /\ r = target[2]
    BY <1>s, <1>t DEF TargetInv
  <2>h. PICK h \in {0, 2} : h = H
    BY <1>s
  <2>1. /\ Writable /\ pos \in 0 .. H + L - 1 /\ stage = "write"
        /\ L' = L /\ H' = H /\ Compat' = Compat /\ pos' = pos + 1
        /\ UNCHANGED <<build, stage, target, lost, ok>> /\ lost = 0
    BY <1>5, CellWritten DEF DirectInv
  <2>2. \A b \in Bucket : \A j \in 0 .. Stride - 1 :
            At(b, j)' = IF b = t /\ j = pos THEN Stream(r)[pos + 1] ELSE At(b, j)
    BY <1>5, <2>p, CellWritten
  <2>3. /\ HeadRoom(L) => Stream(r)[1] = Magic /\ Stream(r)[2] = LenCell(L)
        /\ \A k \in 1 .. L : Stream(r)[H + k] = DataCell(r, k)
    BY <1>5, <2>p, CellWritten
  <2>w. \A i \in 1 .. pos : At(t, i - 1) = Stream(r)[i]
    BY <2>1, <2>p DEF DirectInv, WrittenInv
  <2>r. t \in Bucket /\ r \in build.recs /\ r \in Rec
    BY <1>s
  <2>4. WrittenInv'
    <3>1. ASSUME NEW i \in 1 .. pos + 1
          PROVE  At(t, i - 1)' = Stream(r)[i]
      <4>1. i - 1 \in 0 .. Stride - 1 /\ (i - 1 # pos => i \in 1 .. pos)
                 /\ (i - 1 = pos => i = pos + 1)
        BY <1>s, <2>1
      <4> QED
        BY <2>2, <2>w, <2>r, <4>1
    <3> QED
      BY <2>1, <2>p, <3>1 DEF WrittenInv, At
  <2>5. /\ Writable' /\ (HeadRoom(L') <=> HeadRoom(L))
        /\ \A k \in 1 .. L : H + k - 1 \in 0 .. Stride - 1
        /\ HeadRoom(L) => 0 \in 0 .. Stride - 1 /\ 1 \in 0 .. Stride - 1
    BY <1>s, <2>1 DEF Writable
  <2>6. Headed(t)' \/ (pos < H /\ ~Headed(t))
    <3>1. CASE ~HeadRoom(L)
      BY <2>1, <2>5, <3>1 DEF Headed, Writable
    <3>2. CASE HeadRoom(L)
      <4>h. H = 2
        BY <1>s, <3>2
      <4>1. Headed(t)' <=> At(t, 0)' = Magic /\ At(t, 1)' = LenCell(L)
        BY <2>1, <3>2 DEF Headed
      <4>2. Headed(t) <=> At(t, 0) = Magic /\ At(t, 1) = LenCell(L)
        BY <3>2 DEF Headed
      <4>3. At(t, 0)' = IF 0 = pos THEN Magic ELSE At(t, 0)
        BY <2>2, <2>3, <2>5, <2>r, <3>2
      <4>4. At(t, 1)' = IF 1 = pos THEN LenCell(L) ELSE At(t, 1)
        BY <2>2, <2>3, <2>5, <2>r, <3>2
      <4>5. CASE pos < H
        BY <4>1, <4>2, <4>3, <4>4, <4>5
      <4>6. CASE ~(pos < H)
        <5>1. 1 \in 1 .. pos /\ 2 \in 1 .. pos /\ 1 - 1 = 0 /\ 2 - 1 = 1
          BY <1>s, <4>h, <4>6
        <5>2. At(t, 0) = Magic /\ At(t, 1) = LenCell(L)
          BY <2>w, <2>3, <3>2, <5>1
        <5> QED
          BY <4>1, <4>3, <4>4, <5>2
      <4> QED
        BY <4>5, <4>6
    <3> QED
      BY <3>1, <3>2
  <2>7. ASSUME NEW b \in Bucket PROVE BucketInv(b)'
    <3>0. BucketInv(b)
      BY <2>1 DEF DirectInv
    <3>1. CASE b # t
      <4>1. \A j \in 0 .. Stride - 1 : At(b, j)' = At(b, j)
        BY <2>2, <3>1
      <4>2. Headed(b)' <=> Headed(b)
        BY <2>1, <2>5, <4>1 DEF Headed
      <4>3. BucketInv(b)' <=>
            /\ HeadRoom(L) => /\ At(b, 0)' \in {Blank, Alien, Magic}
                              /\ At(b, 1)' \in {Blank, Alien, LenCell(L)}
            /\ \A k \in 1 .. L :
                  \/ At(b, h + k - 1)' \in {Blank, Alien}
                  \/ Headed(b)' /\ \E x \in build.recs : At(b, h + k - 1)' = DataCell(x, k)
        BY <2>1, <2>h DEF BucketInv, At
      <4> QED
        BY <2>5, <2>h, <3>0, <4>1, <4>2, <4>3 DEF BucketInv
    <3>2. CASE b = t
      <4>1. HeadRoom(L) => /\ At(t, 0)' \in {Blank, Alien, Magic}
                           /\ At(t, 1)' \in {Blank, Alien, LenCell(L)}
        <5> SUFFICES ASSUME HeadRoom(L)
                     PROVE  /\ At(t, 0)' \in {Blank, Alien, Magic}
                            /\ At(t, 1)' \in {Blank, Alien, LenCell(L)}
          OBVIOUS
        <5>1. At(t, 0)' = IF 0 = pos THEN Magic ELSE At(t, 0)
          BY <2>2, <2>3, <2>5, <2>r
        <5>2. At(t, 1)' = IF 1 = pos THEN LenCell(L) ELSE At(t, 1)
          BY <2>2, <2>3, <2>5, <2>r
        <5> QED
          BY <3>0, <3>2, <5>1, <5>2 DEF BucketInv
      <4>2. ASSUME NEW k \in 1 .. L
            PROVE  \/ At(t, h + k - 1)' \in {Blank, Alien}
                   \/ Headed(t)' /\ \E x \in build.recs :
                                       At(t, h + k - 1)' = DataCell(x, k)
        <5>1. CASE H + k - 1 = pos
          <6>1. pos + 1 = H + k /\ ~(pos < H)
            BY <1>s, <5>1
          <6>2. At(t, h + k - 1)' = DataCell(r, k)
            BY <2>2, <2>3, <2>5, <2>h, <2>r, <5>1, <6>1
          <6> QED
            BY <2>6, <2>r, <6>1, <6>2
        <5>2. CASE H + k - 1 # pos
          <6>1. At(t, h + k - 1)' = At(t, H + k - 1)
            BY <2>2, <2>5, <2>h, <2>r, <5>2
          <6> QED
            BY <2>6, <3>0, <3>2, <6>1 DEF BucketInv
        <5> QED
          BY <5>1, <5>2
      <4>3. BucketInv(t)' <=>
            /\ HeadRoom(L) => /\ At(t, 0)' \in {Blank, Alien, Magic}
                              /\ At(t, 1)' \in {Blank, Alien, LenCell(L)}
            /\ \A k \in 1 .. L :
                  \/ At(t, h + k - 1)' \in {Blank, Alien}
                  \/ Headed(t)' /\ \E x \in build.recs : At(t, h + k - 1)' = DataCell(x, k)
        BY <2>1, <2>h DEF BucketInv, At
      <4> QED
        BY <3>2, <4>1, <4>2, <4>3
    <3> QED
      BY <3>1, <3>2
  <2> QED
    BY <1>t, <2>1, <2>4, <2>5, <2>7 DEF DirectInv
<1> QED
  BY <1>t, <1>2, <1>3, <1>4, <1>5, NoZeroWrite DEF DirectNext

LEMMA DirectInvInit ==
    ASSUME Stride >= 2, RecordsFit, OneLength, NoZeroWrites
    PROVE  DirectInit => DirectInv
<1> SUFFICES ASSUME DirectInit PROVE DirectInv
  OBVIOUS
<1>1. DirectTypeOK /\ TargetInv /\ stage = "idle"
  BY DirectTypeInit DEF DirectInit
<1>2. \A c \in Cells : dev[c] \in {Blank, Alien}
  BY DEF DirectInit
<1>s. /\ L \in Nat \ {0} /\ H \in {0, 2} /\ Stride \in Nat
      /\ Writable => H + L <= Stride
      /\ HeadRoom(L) <=> H = 2
  BY <1>1, Sizes
<1>3. ASSUME Writable, NEW b \in Bucket PROVE BucketInv(b)
  <2>1. \A j \in 0 .. Stride - 1 : At(b, j) \in {Blank, Alien}
    BY <1>2, OffsetFacts DEF At
  <2>2. /\ \A k \in 1 .. L : H + k - 1 \in 0 .. Stride - 1
        /\ 0 \in 0 .. Stride - 1 /\ 1 \in 0 .. Stride - 1
    BY <1>s, <1>3
  <2> QED
    BY <2>1, <2>2 DEF BucketInv
<1> QED
  BY <1>1, <1>2, <1>3 DEF DirectInv, WrittenInv, DirectInit

\* What a written cell does to the reads: the read of another bucket returns
\* what it did, and the read of this one too while the header is written; a
\* cell of the record leaves the new record or none.
LEMMA ReadsOfCellWritten ==
    ASSUME Stride >= 2, RecordsFit, OneLength, NoZeroWrites, DirectInv, ReadOK, ReadOK', WriteCell
    PROVE  \/ \A b \in Bucket : Read(b)' = Read(b)
           \/ /\ \A b \in Bucket \ {target[1]} : Read(b)' = Read(b)
              /\ \A b \in {target[1]} : Read(b)' \in {target[2], Nothing}
<1>t. DirectTypeOK /\ TargetInv /\ Nothing \notin Rec
  BY DirectAssumption DEF DirectInv
<1>s. /\ L \in Nat \ {0} /\ H \in {0, 2} /\ Stride \in Nat
      /\ \A x \in build.recs : x \in Rec
      /\ Writable => H + L <= Stride
  BY <1>t, Sizes
<1>h. PICK h \in {0, 2} : h = H
  BY <1>s
<1>p. PICK t \in Bucket, r \in build.recs : t = target[1] /\ r = target[2]
  BY <1>t DEF TargetInv
<1>1. /\ Writable /\ pos \in 0 .. H + L - 1
      /\ L' = L /\ H' = H /\ Compat' = Compat /\ UNCHANGED build
      /\ \A k \in 1 .. L : Stream(r)[H + k] = DataCell(r, k)
  BY <1>p, CellWritten
<1>2. \A b \in Bucket : \A j \in 0 .. Stride - 1 :
          At(b, j)' = IF b = t /\ j = pos THEN Stream(r)[pos + 1] ELSE At(b, j)
  BY <1>p, CellWritten
<1>3. Writable' /\ \A k \in 1 .. L : h + k - 1 \in 0 .. Stride - 1
  BY <1>h, <1>s, <1>1 DEF Writable
<1>4. \A b \in Bucket, x \in build.recs :
          Whole(b, x)' <=> \A k \in 1 .. L : At(b, h + k - 1)' = DataCell(x, k)
  BY <1>h, <1>1 DEF Whole, At
<1>5. ASSUME NEW b \in Bucket, \A k \in 1 .. L : At(b, h + k - 1)' = At(b, h + k - 1)
      PROVE  Read(b)' = Read(b)
  <2>1. \A x \in build.recs : Whole(b, x)' <=> Whole(b, x)
    BY <1>h, <1>4, <1>5 DEF Whole
  <2>2. /\ Read(b) \in build.recs \cup {Nothing}
        /\ \A x \in build.recs : Read(b) = x <=> Whole(b, x)
    BY <1>1 DEF ReadOK
  <2>3. /\ Read(b)' \in build.recs \cup {Nothing}
        /\ \A x \in build.recs : Read(b)' = x <=> Whole(b, x)'
    BY <1>1, <1>3 DEF ReadOK
  <2> QED
    BY <1>s, <1>t, <2>1, <2>2, <2>3
<1>6. \A b \in Bucket : b # t => Read(b)' = Read(b)
  BY <1>2, <1>3, <1>5
<1>7. CASE pos < H
  <2>1. \A k \in 1 .. L : At(t, h + k - 1)' = At(t, h + k - 1)
    <3>1. \A k \in 1 .. L : h + k - 1 # pos
      BY <1>h, <1>1, <1>7, <1>s
    <3> QED
      BY <1>2, <1>3, <3>1
  <2>2. Read(t)' = Read(t)
    BY <1>5, <2>1
  <2> QED
    BY <1>6, <2>2
<1>8. CASE ~(pos < H)
  <2> DEFINE k == pos - H + 1
  <2>1. k \in 1 .. L /\ h + k - 1 = pos /\ pos + 1 = H + k
    BY <1>h, <1>1, <1>8, <1>s
  <2>2. PICK m \in 1 .. L : m = k
    BY <2>1
  <2>3. At(t, h + m - 1)' = DataCell(r, m)
    BY <1>1, <1>2, <1>3, <2>1, <2>2
  <2>4. \A x \in build.recs : Whole(t, x)' => x = r
    BY <1>4, <2>3 DEF DataCell
  <2>5. Read(t)' \in {r, Nothing}
    BY <1>1, <2>4 DEF ReadOK
  <2> QED
    BY <1>6, <1>p, <2>5
<1> QED
  BY <1>7, <1>8

\* Direct buckets implement what a bucket promises, for every number of
\* buckets, every stride that has room for the meta data and all records of
\* one length for each build: a write that is cut off after any cell leaves
\* the old record, none, or the new one, a write that returned 0 leaves the
\* new one, and no write changes what another bucket reads.  It is so when
\* records fit and when write() does not return 0 half way.
THEOREM DirectImplementsBucketStore ==
    ASSUME Stride >= 2, RecordsFit, OneLength, NoZeroWrites
    PROVE  DirectSpec => ImplementsBucketStore
<1>1. DirectInit /\ DirectInv /\ ReadOK => Store!Init
  <2> SUFFICES ASSUME DirectInit, DirectInv, ReadOK PROVE Store!Init
    OBVIOUS
  <2>1. ASSUME NEW b \in Bucket PROVE Read(b) = Nothing
    <3>t. DirectTypeOK /\ TargetInv /\ L \in Nat \ {0} /\ H \in {0, 2} /\ Stride \in Nat
      BY Sizes DEF DirectInv
    <3>1. ASSUME NEW x \in build.recs, Writable, Whole(b, x) PROVE FALSE
      <4>1. At(b, H + 1 - 1) = DataCell(x, 1) /\ H + 1 - 1 \in 0 .. Stride - 1
        BY <3>t, <3>1, Sizes DEF Whole
      <4>2. At(b, H + 1 - 1) \in {Blank, Alien}
        BY <4>1, OffsetFacts DEF At, DirectInit
      <4> QED
        BY <4>1, <4>2 DEF Blank, Alien, DataCell
    <3> QED
      BY <3>1 DEF ReadOK
  <2>2. stage # "write" /\ ok = FALSE
    BY DEF DirectInit
  <2> QED
    BY <2>1, <2>2 DEF Store!Init
<1>2. DirectInv /\ DirectInv' /\ ReadOK /\ ReadOK' /\ [DirectNext]_directVars =>
          [Store!Next]_(Store!vars)
  <2> SUFFICES ASSUME DirectInv, DirectInv', ReadOK, ReadOK', [DirectNext]_directVars
               PROVE  [Store!Next]_(Store!vars)
    OBVIOUS
  <2>t. /\ DirectTypeOK /\ TargetInv /\ target \in Bucket \X Rec
        /\ target[1] \in Bucket /\ target[2] \in Rec /\ build.recs \subseteq Rec
        /\ stage \in {"idle", "write"}
    BY DirectAssumption DEF DirectInv, DirectTypeOK, TargetInv
  <2> DEFINE content == [b \in Bucket |-> Read(b)]
             wr == {w \in {target} : stage = "write"}
  <2>z. lost = 0 /\ lost' = 0 /\ ok \in BOOLEAN /\ ok' \in BOOLEAN
    BY DEF DirectInv, DirectTypeOK
  <2>r. ASSUME dev' = dev, build' = build PROVE content' = content
    BY <2>r DEF Read, RecordAt, Compat
  <2>w. (stage = "write" => wr = {target}) /\ (stage = "idle" => wr = {})
    OBVIOUS
  <2>v. (stage' = "write" => wr' = {target'}) /\ (stage' = "idle" => wr' = {})
    OBVIOUS
  <2>1. ASSUME NEW b \in Bucket, NEW r \in build.recs, WriteBegin(b, r)
        PROVE  Store!Next
    <3>1. /\ content' = content /\ stage = "idle" /\ stage' = "write" /\ target' = <<b, r>>
          /\ ok' = FALSE
      BY <2>1, <2>r DEF WriteBegin
    <3> HIDE DEF content, wr
    <3>2. wr = {} /\ wr' = {<<b, r>>} /\ r \in Rec
      BY <2>t, <2>w, <2>v, <3>1
    <3>3. Store!Begin(b, r)
      BY <3>1, <3>2 DEF Store!Begin, content, wr
    <3> QED
      BY <3>2, <3>3 DEF Store!Next
  <2>2. ASSUME NEW r \in build.recs, WriteReject(r)
        PROVE  Store!Next
    <3>1. content' = content /\ stage = "idle" /\ stage' = "idle" /\ ok' = FALSE
      BY <2>2, <2>r DEF WriteReject
    <3> HIDE DEF content, wr
    <3>2. wr = {} /\ wr' = wr
      BY <2>w, <2>v, <3>1
    <3>3. Store!Reject
      BY <3>1, <3>2 DEF Store!Reject, content, wr
    <3> QED
      BY <3>3 DEF Store!Next
  <2>3. CASE WriteCell
    <3>1. UNCHANGED <<stage, target, ok>> /\ stage = "write"
      BY <2>3 DEF WriteCell
    <3>2. wr' = wr /\ wr = {target}
      BY <3>1
    <3>3. CASE \A b \in Bucket : Read(b)' = Read(b)
      <4>1. content' = content
        BY <3>3
      <4> HIDE DEF content, wr
      <4> QED
        BY <2>z, <3>1, <3>2, <4>1 DEF Store!vars, content, wr
    <3>4. CASE /\ \A b \in Bucket \ {target[1]} : Read(b)' = Read(b)
               /\ \A b \in {target[1]} : Read(b)' \in {target[2], Nothing}
      <4>1. PICK t \in Bucket : t = target[1]
        BY <2>t
      <4>2. /\ \A b \in Bucket : b # t => Read(b)' = Read(b)
            /\ Read(t)' \in {target[2], Nothing}
        BY <3>4, <4>1
      <4>3. \/ content' = [content EXCEPT ![target[1]] = target[2]]
            \/ content' = [content EXCEPT ![target[1]] = Nothing]
        BY <4>1, <4>2
      <4> HIDE DEF content, wr
      <4>4. \/ \E w \in wr : content' = [content EXCEPT ![w[1]] = w[2]]
            \/ \E w \in wr : content' = [content EXCEPT ![w[1]] = Nothing]
        BY <3>2, <4>3
      <4>5. Store!Land \/ Store!Tear
        BY <2>z, <3>1, <3>2, <4>4 DEF Store!Land, Store!Tear, content, wr
      <4> QED
        BY <4>5 DEF Store!Next
    <3> QED
      BY <2>3, <3>3, <3>4, ReadsOfCellWritten
  <2>4. ASSUME WriteEnd \/ WriteFail
        PROVE  Store!Next
    <3>1. /\ content' = content /\ stage = "write" /\ stage' = "idle"
          /\ ok' = FALSE \/ WriteEnd
      BY <2>4, <2>r DEF WriteEnd, WriteFail
    <3>2. CASE WriteEnd
      <4>1. /\ L \in Nat \ {0} /\ H \in {0, 2} /\ pos = H + L /\ Writable
            /\ (HeadRoom(L) <=> H = 2)
        BY <2>t, <3>1, <3>2, Sizes DEF WriteEnd, DirectInv
      <4>2. ASSUME NEW k \in 1 .. L
            PROVE  At(target[1], H + k - 1) = DataCell(target[2], k)
        <5>1. H + k \in 1 .. pos
          BY <4>1
        <5>2. At(target[1], H + k - 1) = Stream(target[2])[H + k]
          <6>1. \A i \in 1 .. pos : At(target[1], i - 1) = Stream(target[2])[i]
            BY <3>1 DEF DirectInv, WrittenInv
          <6> QED
            BY <4>1, <5>1, <6>1
        <5>3. Stream(target[2])[H + k] = DataCell(target[2], k)
          <6>1. CASE HeadRoom(L)
            <7>1. Stream(target[2])[k + 2] = DataCell(target[2], k)
              BY <2>t, <6>1, StreamFacts DEF L
            <7> QED
              BY <4>1, <6>1, <7>1
          <6>2. CASE ~HeadRoom(L)
            <7>1. Stream(target[2])[k] = DataCell(target[2], k)
              BY <2>t, <6>2, StreamFacts DEF L
            <7> QED
              BY <4>1, <6>2, <7>1
          <6> QED
            BY <6>1, <6>2
        <5> QED
          BY <5>2, <5>3
      <4>3. Read(target[1]) = target[2]
        BY <2>t, <4>1, <4>2 DEF ReadOK, Whole, TargetInv
      <4>4. content[target[1]] = target[2] /\ ok' = TRUE
        BY <2>t, <3>2, <4>3 DEF WriteEnd
      <4> HIDE DEF content, wr
      <4>5. \E w \in wr : ok' \in {FALSE, content[w[1]] = w[2]}
        BY <2>w, <3>1, <4>4
      <4>6. Store!Return
        BY <2>v, <2>z, <3>1, <4>5 DEF Store!Return, content, wr
      <4> QED
        BY <4>6 DEF Store!Next
    <3>3. CASE ok' = FALSE
      <4> HIDE DEF content, wr
      <4>1. \E w \in wr : ok' \in {FALSE, content[w[1]] = w[2]}
        BY <2>w, <3>1, <3>3
      <4>2. Store!Return
        BY <2>v, <2>z, <3>1, <4>1 DEF Store!Return, content, wr
      <4> QED
        BY <4>2 DEF Store!Next
    <3> QED
      BY <3>1, <3>2, <3>3
  <2>5. CASE UNCHANGED directVars
    <3>1. content' = content /\ wr' = wr /\ ok' = ok
      BY <2>5, <2>r DEF directVars
    <3> QED
      BY <2>z, <3>1 DEF Store!vars
  <2> QED
    BY <2>t, <2>1, <2>2, <2>3, <2>4, <2>5, NoZeroWrite DEF DirectNext
<1> QED
  BY <1>1, <1>2, DirectInvInit, DirectInvStep, ReadIsWhole, PTL
     DEF DirectSpec, ImplementsBucketStore, Store!Spec
=============================================================================
