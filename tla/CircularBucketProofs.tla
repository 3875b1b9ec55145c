------------------------ MODULE CircularBucketProofs ------------------------
(***************************************************************************)
(* Proofs about a circular bucket, for every eraseblock and all records,   *)
(* with pages that are programmed entirely or torn.                        *)
(***************************************************************************)
EXTENDS CircularBucket, FiniteSetTheorems, TLAPS

\* The search of the last page that is not erased: everything behind it is
\* erased, and the page itself is not.
LEMMA UsedPagesFacts ==
    ASSUME NEW bl
    PROVE  /\ UsedPages(bl) \in 0 .. P
           /\ \A q \in Page : q > UsedPages(bl) => bl[q] = Erased
           /\ UsedPages(bl) > 0 => bl[UsedPages(bl)] # Erased
<1> DEFINE T == {q \in Page : bl[q] # Erased}
<1> DEFINE S == {p \in Page : \E q \in Page : q >= p /\ bl[q] # Erased}
<1>0. UsedPages(bl) = Cardinality(S) /\ P \in Nat
  BY CircularAssumption DEF UsedPages
<1>1. CASE T = {}
  <2>1. S = {} /\ \A q \in Page : bl[q] = Erased
    BY <1>1
  <2>2. UsedPages(bl) = 0
    BY <1>0, <2>1, FS_EmptySet
  <2> QED
    BY <1>0, <2>1, <2>2
<1>2. CASE T # {}
  <2> DEFINE D == {P - q : q \in T}
  <2> DEFINE R == {x \in Nat \X Nat : x[1] < x[2]}
  <2>1. D \subseteq Nat /\ D # {}
    BY <1>0, <1>2 DEF Page
  <2>2. IsWellFoundedOn(R, Nat)
    BY NatLessThanWellFounded DEF OpToRel
  <2> HIDE DEF R, D
  <2>3. PICK d \in D : \A e \in D : ~(<<e, d>> \in R)
    BY <2>1, <2>2, WFMin
  <2>4. \A e \in D : ~(e < d)
    BY <2>1, <2>3 DEF R
  <2>5. PICK m \in T : d = P - m
    BY DEF D
  <2>6. m \in Page /\ bl[m] # Erased /\ m \in Nat /\ m >= 1 /\ m <= P
    BY <1>0 DEF Page
  <2>7. \A q \in T : q <= m
    <3> SUFFICES ASSUME NEW q \in T PROVE q <= m
      OBVIOUS
    <3>1. P - q \in D
      BY DEF D
    <3>2. ~(P - q < P - m)
      BY <2>4, <2>5, <3>1
    <3> QED
      BY <1>0, <2>6, <3>2 DEF Page
  <2>8. S = 1 .. m
    <3>1. \A p \in S : p \in 1 .. m
      BY <1>0, <2>6, <2>7 DEF Page
    <3>2. \A p \in 1 .. m : p \in S
      BY <1>0, <2>6 DEF Page
    <3> QED
      BY <3>1, <3>2
  <2>9. Cardinality(1 .. m) = m
    BY <2>6, FS_Interval
  <2>10. UsedPages(bl) = m
    BY <1>0, <2>8, <2>9
  <2>11. \A q \in Page : q > m => bl[q] = Erased
    BY <1>0, <2>6, <2>7 DEF Page
  <2> QED
    BY <2>6, <2>10, <2>11, <1>0
<1> QED
  BY <1>1, <1>2

\* Pages of records, erased pages and torn ones differ, and a page tells its
\* record and its place in it.
LEMMA PageFacts ==
    /\ Erased # HalfPage
    /\ \A r, n : PageOf(r, n) # Erased /\ PageOf(r, n) # HalfPage
    /\ \A r, s, n, k : PageOf(r, n) = PageOf(s, k) => r = s /\ n = k
BY DEF Erased, HalfPage, PageOf

LEMMA MetaLengthFacts ==
    ASSUME NEW bl
    PROVE  /\ MetaLength(bl) \in {0} \cup {Pages[r] : r \in Record}
           /\ \A r \in Record : UsedPages(bl) > 0 /\
                             bl[UsedPages(bl)] = PageOf(r, Pages[r]) =>
                                MetaLength(bl) = Pages[r]
<1> DEFINE n == UsedPages(bl)
           owners == {r \in Record : n > 0 /\ bl[n] = PageOf(r, Pages[r])}
<1>1. MetaLength(bl) = IF owners = {} THEN 0
                                      ELSE Pages[CHOOSE r \in owners : TRUE]
  BY DEF MetaLength
<1>2. owners # {} => (CHOOSE r \in owners : TRUE) \in owners
  OBVIOUS
<1>3. owners \subseteq Record
  OBVIOUS
<1>4. ASSUME NEW r \in Record, n > 0, bl[n] = PageOf(r, Pages[r])
      PROVE  owners # {} /\ \A s \in owners : s = r
  BY <1>4, PageFacts
<1> HIDE DEF n, owners
<1>5. MetaLength(bl) \in {0} \cup {Pages[r] : r \in Record}
  BY <1>1, <1>2, <1>3
<1>6. ASSUME NEW r \in Record, n > 0, bl[n] = PageOf(r, Pages[r])
      PROVE  MetaLength(bl) = Pages[r]
  BY <1>1, <1>2, <1>4, <1>6
<1> QED
  BY <1>5, <1>6 DEF n

-----------------------------------------------------------------------------
(* Types, and programming of erased pages only *)

PageContent ==
    {Erased, HalfPage} \cup UNION {{PageOf(r, n) : n \in 1 .. Pages[r]} : r \in Record}

\* While a record is programmed, it lies between write_area less its length
\* and write_area.
ProgramInv ==
    /\ at \in {"erase", "program"} => Pages[rec] <= P /\ ~acked
    /\ at = "erase" => upto = 0 /\ wa = 0
    /\ at = "program" => wa - Pages[rec] <= upto /\ upto <= wa /\ Pages[rec] <= wa

\* What is behind write_area is erased, unless the next write erases first.
FreeInv ==
    /\ at = "program" => \A q \in Page : q > upto => block[q] = Erased
    /\ at \in {"created", "ready"} /\ wa # 0 =>
          \A q \in Page : q > wa => block[q] = Erased

LEMMA CircularTypeStep ==
    CircularTypeOK /\ ProgramInv /\ [CircularNext]_circularVars => CircularTypeOK' /\ ProgramInv'
<1> SUFFICES ASSUME CircularTypeOK, ProgramInv, [CircularNext]_circularVars
             PROVE  CircularTypeOK' /\ ProgramInv'
  OBVIOUS
<1>0. /\ P \in Nat \ {0} /\ \A r \in Record : Pages[r] \in Nat \ {0}
      /\ Pages[rec] \in Nat \ {0} /\ wa \in Nat /\ upto \in Nat
  BY CircularAssumption DEF CircularTypeOK
<1>c. /\ block \in [Page -> PageContent]
      /\ Erased \in PageContent /\ HalfPage \in PageContent
      /\ \A r \in Record : \A n \in 1 .. Pages[r] : PageOf(r, n) \in PageContent
  BY DEF CircularTypeOK, PageContent
<1>t. CircularTypeOK' <=>
        /\ block' \in [Page -> PageContent]
        /\ at' \in {"off", "created", "ready", "erase", "program"}
        /\ wa' \in 0 .. P /\ upto' \in 0 .. P
        /\ lwl' \in {0} \cup {Pages[r] : r \in Record}
        /\ rec' \in Record /\ acked' \in BOOLEAN
  BY DEF CircularTypeOK, PageContent
<1>1. CASE Create
  <2>1. /\ wa' \in 0 .. P /\ lwl' \in {0} \cup {Pages[r] : r \in Record}
    BY <1>1, UsedPagesFacts, MetaLengthFacts DEF Create
  <2> QED
    BY <1>1, <1>c, <1>t, <2>1 DEF Create, CircularTypeOK, ProgramInv
<1>2. CASE ReadBucket
  BY <1>0, <1>2, <1>c, <1>t DEF ReadBucket, CircularTypeOK, ProgramInv
<1>3. ASSUME NEW r \in Record, AppendBegin(r)
      PROVE  CircularTypeOK' /\ ProgramInv'
  <2>1. /\ at = "ready" /\ Pages[r] <= P /\ rec' = r /\ acked' = FALSE
        /\ upto' = WriteArea(Pages[r])
        /\ UNCHANGED <<block, lwl>>
        /\ upto' = 0 => at' = "erase" /\ wa' = 0
        /\ upto' # 0 => at' = "program" /\ wa' = upto' + Pages[r]
    BY <1>3 DEF AppendBegin
  <2>2. upto' = 0 \/ (upto' = wa /\ wa + Pages[r] < P)
    BY <1>0, <2>1 DEF WriteArea
  <2>3. /\ upto' \in 0 .. P /\ wa' \in 0 .. P
        /\ at' = "program" => wa' = upto' + Pages[r] /\ upto' \in Nat
    BY <1>0, <2>1, <2>2
  <2>4. CircularTypeOK'
    BY <1>c, <1>t, <2>1, <2>3 DEF CircularTypeOK
  <2>5. ProgramInv'
    BY <1>0, <2>1, <2>3 DEF ProgramInv
  <2> QED
    BY <2>4, <2>5
<1>4. ASSUME NEW r \in Record, AppendReject(r)
      PROVE  CircularTypeOK' /\ ProgramInv'
  BY <1>4, <1>c, <1>t DEF AppendReject, CircularTypeOK, ProgramInv
<1>5. CASE Erase
  BY <1>0, <1>5, <1>c, <1>t DEF Erase, CircularTypeOK, ProgramInv
<1>6. CASE EraseFail
  BY <1>6, <1>c, <1>t DEF EraseFail, CircularTypeOK, ProgramInv
<1>12. CASE ErasePart
  <2>1. block' \in [Page -> PageContent]
    <3>1. \E kept, half \in SUBSET Page :
             block' = [p \in Page |-> IF p \in half THEN HalfPage
                                      ELSE IF p \in kept THEN block[p] ELSE Erased]
      BY <1>12 DEF ErasePart
    <3> QED
      BY <1>c, <3>1
  <2> QED
    BY <1>12, <1>t, <2>1 DEF ErasePart, CircularTypeOK, ProgramInv
<1>7. CASE Program
  <2>1. upto + 1 - (wa - Pages[rec]) \in 1 .. Pages[rec]
    BY <1>0, <1>7 DEF Program, ProgramInv
  <2>2. block' \in [Page -> PageContent]
    BY <1>7, <1>c, <2>1 DEF Program, CircularTypeOK
  <2> QED
    BY <1>0, <1>7, <1>t, <2>2 DEF Program, CircularTypeOK, ProgramInv
<1>8. CASE ProgramFail
  <2>1. block' \in [Page -> PageContent]
    BY <1>8, <1>c DEF ProgramFail
  <2> QED
    BY <1>8, <1>t, <2>1 DEF ProgramFail, CircularTypeOK, ProgramInv
<1>9. CASE AppendEnd
  BY <1>9, <1>c, <1>t DEF AppendEnd, CircularTypeOK, ProgramInv
<1>10. CASE Close
  BY <1>10, <1>c, <1>t DEF Close, CircularTypeOK, ProgramInv
<1>11. CASE UNCHANGED circularVars
  BY <1>11, <1>c, <1>t DEF circularVars, CircularTypeOK, ProgramInv
<1> QED
  BY <1>1, <1>2, <1>3, <1>4, <1>5, <1>6, <1>7, <1>8, <1>9, <1>10, <1>11,
     <1>12
  DEF CircularNext

LEMMA CircularTypeInit == CircularInit => CircularTypeOK /\ ProgramInv /\ FreeInv
<1> SUFFICES ASSUME CircularInit PROVE CircularTypeOK /\ ProgramInv /\ FreeInv
  OBVIOUS
<1>1. block \in [Page -> PageContent]
  BY DEF CircularInit, PageContent
<1>2. ProgramInv /\ FreeInv
  BY DEF CircularInit, ProgramInv, FreeInv
<1>3. wa \in 0 .. P /\ upto \in 0 .. P
  BY CircularAssumption DEF CircularInit
<1> QED
  BY <1>1, <1>2, <1>3 DEF CircularInit, CircularTypeOK, PageContent

\* Types, for every size of the eraseblock and of the records: write_area and
\* the offset of a write never leave the eraseblock.
THEOREM CircularTypeCorrect == CircularSpec => []CircularTypeOK
BY CircularTypeInit, CircularTypeStep, PTL DEF CircularSpec

LEMMA FreeInvStep ==
    CircularTypeOK /\ ProgramInv /\ FreeInv /\ [CircularNext]_circularVars => FreeInv'
<1> SUFFICES ASSUME CircularTypeOK, ProgramInv, FreeInv, [CircularNext]_circularVars
             PROVE  FreeInv'
  OBVIOUS
<1>0. /\ P \in Nat \ {0} /\ \A r \in Record : Pages[r] \in Nat \ {0}
      /\ Pages[rec] \in Nat \ {0} /\ wa \in Nat /\ upto \in Nat
      /\ DOMAIN block = Page /\ \A q \in Page : q \in Nat
  BY CircularAssumption DEF CircularTypeOK, Page
<1>1. CASE Create
  BY <1>1, UsedPagesFacts DEF Create, FreeInv
<1>2. CASE ReadBucket
  BY <1>2 DEF ReadBucket, FreeInv
<1>3. ASSUME NEW r \in Record, AppendBegin(r)
      PROVE  FreeInv'
  BY <1>0, <1>3 DEF AppendBegin, WriteArea, FreeInv
<1>4. ASSUME NEW r \in Record, AppendReject(r)
      PROVE  FreeInv'
  BY <1>4 DEF AppendReject, FreeInv
<1>5. CASE Erase
  BY <1>5 DEF Erase, FreeInv
<1>6. CASE EraseFail \/ ErasePart
  BY <1>6 DEF EraseFail, ErasePart, FreeInv, ProgramInv
<1>7. CASE Program
  <2>1. /\ at' = "program" /\ upto' = upto + 1
        /\ \A q \in Page : q # upto + 1 => block'[q] = block[q]
    BY <1>0, <1>7 DEF Program
  <2> QED
    BY <1>0, <1>7, <2>1 DEF Program, FreeInv
<1>8. CASE ProgramFail
  <2>1. /\ \A q \in Page : q > wa => block'[q] = block[q]
        /\ at = "program" /\ wa' = wa /\ at' \in {"ready", "off"}
    BY <1>0, <1>8 DEF ProgramFail
  <2> QED
    BY <1>0, <2>1 DEF FreeInv, ProgramInv
<1>9. CASE AppendEnd
  BY <1>9 DEF AppendEnd, FreeInv
<1>10. CASE Close
  BY <1>10 DEF Close, FreeInv
<1>11. CASE UNCHANGED circularVars
  BY <1>11 DEF circularVars, FreeInv
<1> QED
  BY <1>1, <1>2, <1>3, <1>4, <1>5, <1>6, <1>7, <1>8, <1>9, <1>10, <1>11
  DEF CircularNext

\* For every eraseblock and all records, whatever writes and erases fail half
\* way and wherever a page is torn: only erased pages are programmed.
THEOREM ProgramsErasedPagesOnlyHolds == CircularSpec => ProgramsErasedPagesOnly
<1> DEFINE Kept == at = "program" =>
                      \A p \in Page : block'[p] = block[p] \/ block[p] = Erased
<1>1. CircularTypeOK /\ ProgramInv /\ FreeInv /\ [CircularNext]_circularVars => [Kept]_circularVars
  <2> SUFFICES ASSUME CircularTypeOK, ProgramInv, FreeInv, [CircularNext]_circularVars
               PROVE  Kept
    OBVIOUS
  <2>1. CASE at = "erase"
    BY <2>1
  <2>2. CASE Program \/ ProgramFail
    <3>1. /\ at = "program" /\ DOMAIN block = Page
          /\ \/ block' = block
             \/ \E c : upto < wa /\ block' = [block EXCEPT ![upto + 1] = c]
      BY <2>2 DEF Program, ProgramFail, CircularTypeOK
    <3>2. upto < wa => upto + 1 \in Page /\ block[upto + 1] = Erased
      BY <3>1, CircularAssumption DEF CircularTypeOK, FreeInv, Page
    <3> QED
      BY <3>1, <3>2
  <2>3. CASE block' = block
    BY <2>3
  <2> QED
    BY <2>1, <2>2, <2>3
    DEF CircularNext, Create, ReadBucket, AppendBegin, AppendReject, Erase, ErasePart, EraseFail,
        AppendEnd, Close, circularVars
<1> QED
  BY <1>1, CircularTypeInit, CircularTypeStep, FreeInvStep, PTL
  DEF CircularSpec, ProgramsErasedPagesOnly

-----------------------------------------------------------------------------
(* A write that returned 0 is read *)

\* The block ends, at page e, with the whole of record r.
EndsWith(bl, r, e) ==
    /\ e \in Page /\ Pages[r] <= e
    /\ \A q \in Page : q > e => bl[q] = Erased
    /\ \A n \in 1 .. Pages[r] : bl[e - Pages[r] + n] = PageOf(r, n)

\* The pages of the record in progress are in place, up to pos.
ImageInv ==
    /\ at = "program" => \A n \in 1 .. Pages[rec] :
          wa - Pages[rec] + n <= upto => block[wa - Pages[rec] + n] = PageOf(rec, n)
    /\ acked => \E e \in Page : EndsWith(block, rec, e)

\* Such a block is read as that record: its end is found, the meta data there
\* is its own, and no other record has an image of that length there.
LEMMA EndIsRead ==
    ASSUME NEW bl, NEW r \in Record, NEW e \in Page, EndsWith(bl, r, e)
    PROVE  Contents(bl) = r
<1>0. /\ P \in Nat \ {0} /\ Pages[r] \in Nat \ {0} /\ e \in Nat /\ e >= 1
      /\ e <= P /\ Pages[r] <= e
      /\ \A s \in Record : Pages[s] \in Nat \ {0}
  BY CircularAssumption DEF EndsWith, Page
<1>1. bl[e] = PageOf(r, Pages[r])
  <2>1. Pages[r] \in 1 .. Pages[r] /\ e - Pages[r] + Pages[r] = e
    BY <1>0
  <2> QED
    BY <2>1 DEF EndsWith
<1>2. UsedPages(bl) = e
  <2>1. bl[e] # Erased
    BY <1>1, PageFacts
  <2>2. ~(e > UsedPages(bl)) /\ UsedPages(bl) \in 0 .. P
    BY <2>1, UsedPagesFacts
  <2>3. ~(UsedPages(bl) > e)
    BY <1>0, <2>2, UsedPagesFacts DEF EndsWith, Page
  <2> QED
    BY <1>0, <2>2, <2>3
<1>3. MetaLength(bl) = Pages[r]
  BY <1>0, <1>1, <1>2, MetaLengthFacts
<1> DEFINE s == e - Pages[r] + 1
<1> DEFINE images == {x \in Record : /\ Pages[x] <= Pages[r] /\ s + Pages[x] - 1 <= P
                                  /\ \A n \in 1 .. Pages[x] :
                                        bl[s + n - 1] = PageOf(x, n)}
<1>4. Contents(bl) = RecordIn(bl, s, Pages[r])
  BY <1>0, <1>2, <1>3 DEF Contents, ReadRecord
<1>5. RecordIn(bl, s, Pages[r]) =
         IF images = {} THEN NoRecord ELSE CHOOSE x \in images : TRUE
  BY DEF RecordIn
<1>6. \A n \in 1 .. Pages[r] : s + n - 1 = e - Pages[r] + n
  BY <1>0
<1>7. r \in images
  BY <1>0, <1>6 DEF EndsWith
<1>8. ASSUME NEW x \in images
      PROVE  x = r
  <2>1. 1 \in 1 .. Pages[x] /\ 1 \in 1 .. Pages[r]
    BY <1>0
  <2>2. bl[s + 1 - 1] = PageOf(x, 1) /\ bl[s + 1 - 1] = PageOf(r, 1)
    BY <2>1, <1>7
  <2> QED
    BY <2>2, PageFacts
<1> HIDE DEF images
<1> QED
  BY <1>4, <1>5, <1>7, <1>8

LEMMA ImageInvStep ==
    CircularTypeOK /\ ProgramInv /\ FreeInv /\ ImageInv /\ [CircularNext]_circularVars => ImageInv'
<1> SUFFICES ASSUME CircularTypeOK, ProgramInv, FreeInv, ImageInv, [CircularNext]_circularVars
             PROVE  ImageInv'
  OBVIOUS
<1>0. /\ P \in Nat \ {0} /\ \A r \in Record : Pages[r] \in Nat \ {0}
      /\ rec \in Record /\ Pages[rec] \in Nat \ {0} /\ wa \in Nat /\ upto \in Nat
      /\ DOMAIN block = Page /\ wa <= P
  BY CircularAssumption DEF CircularTypeOK
<1>a. ASSUME UNCHANGED <<block, rec>>, at' # "program", acked' => acked
      PROVE  ImageInv'
  BY <1>a DEF ImageInv, EndsWith
<1>1. CASE Create \/ ReadBucket \/ EraseFail \/ Close
  BY <1>1, <1>a DEF Create, ReadBucket, EraseFail, Close
<1>2. ASSUME NEW r \in Record, AppendBegin(r)
      PROVE  ImageInv'
  <2>1. /\ rec' = r /\ acked' = FALSE
        /\ at' = "program" => wa' = upto' + Pages[r] /\ upto' = wa
    BY <1>2 DEF AppendBegin, WriteArea
  <2>2. at' = "program" =>
           \A n \in 1 .. Pages[r] : ~(wa' - Pages[r] + n <= upto')
    BY <1>0, <2>1
  <2> QED
    BY <2>1, <2>2 DEF ImageInv
<1>3. ASSUME NEW r \in Record, AppendReject(r)
      PROVE  ImageInv'
  BY <1>3 DEF AppendReject, ImageInv
<1>9. CASE ErasePart
  BY <1>9 DEF ErasePart, ImageInv, ProgramInv
<1>4. CASE Erase
  <2>1. /\ wa' = Pages[rec] /\ upto' = 0 /\ rec' = rec /\ ~acked'
    BY <1>4 DEF Erase, ProgramInv
  <2>2. \A n \in 1 .. Pages[rec] : ~(Pages[rec] - Pages[rec] + n <= 0)
    BY <1>0
  <2> QED
    BY <2>1, <2>2 DEF ImageInv
<1>5. CASE Program
  <2> DEFINE k == upto + 1 - (wa - Pages[rec])
  <2>1. /\ at = "program" /\ upto < wa /\ upto' = upto + 1
        /\ block' = [block EXCEPT ![upto + 1] = PageOf(rec, k)]
        /\ UNCHANGED <<at, wa, rec, acked>> /\ ~acked
    BY <1>5 DEF Program, ProgramInv
  <2>2. upto + 1 \in Page
    BY <1>0, <2>1 DEF Page
  <2>3. ASSUME NEW n \in 1 .. Pages[rec], wa - Pages[rec] + n <= upto + 1
        PROVE  block'[wa - Pages[rec] + n] = PageOf(rec, n)
    <3>1. CASE wa - Pages[rec] + n = upto + 1
      <4>1. k = n
        BY <1>0, <3>1
      <4>2. block'[upto + 1] = PageOf(rec, k)
        <5> HIDE DEF k
        <5> QED
          BY <1>0, <2>1, <2>2
      <4> HIDE DEF k
      <4> QED
        BY <3>1, <4>1, <4>2
    <3>2. CASE wa - Pages[rec] + n # upto + 1
      <4>1. wa - Pages[rec] + n <= upto /\ wa - Pages[rec] + n \in Page
        BY <1>0, <2>1, <2>3, <3>2 DEF ProgramInv, Page
      <4>2. block[wa - Pages[rec] + n] = PageOf(rec, n)
        BY <2>1, <4>1 DEF ImageInv
      <4> QED
        BY <1>0, <2>1, <3>2, <4>1, <4>2
    <3> QED
      BY <3>1, <3>2
  <2> QED
    BY <2>1, <2>3 DEF ImageInv
<1>6. CASE ProgramFail
  <2>1. at' # "program" /\ ~acked'
    BY <1>6 DEF ProgramFail, ProgramInv
  <2> QED
    BY <2>1 DEF ImageInv
<1>7. CASE AppendEnd
  <2>1. /\ at = "program" /\ upto = wa /\ at' = "ready"
        /\ UNCHANGED <<block, rec>>
    BY <1>7 DEF AppendEnd
  <2>2. wa \in Page /\ Pages[rec] <= wa
    BY <1>0, <2>1 DEF ProgramInv, Page
  <2>3. \A n \in 1 .. Pages[rec] : wa - Pages[rec] + n <= upto
    BY <1>0, <2>1
  <2>4. EndsWith(block, rec, wa)
    BY <2>1, <2>2, <2>3 DEF EndsWith, ImageInv, FreeInv
  <2> QED
    BY <2>1, <2>2, <2>4 DEF ImageInv
<1>8. CASE UNCHANGED circularVars
  BY <1>8 DEF circularVars, ImageInv
<1> QED
  BY <1>1, <1>2, <1>3, <1>4, <1>5, <1>6, <1>7, <1>8, <1>9 DEF CircularNext

\* For every eraseblock and all records: after a write that returned 0 the next
\* run finds its record, whatever pages earlier writes have left torn or half
\* written before it.
THEOREM AckedIsReadHolds == CircularSpec => []AckedIsRead
<1>1. CircularInit => ImageInv
  BY DEF CircularInit, ImageInv
<1>2. CircularTypeOK /\ ImageInv => AckedIsRead
  <2> SUFFICES ASSUME CircularTypeOK, ImageInv, acked
               PROVE  Contents(block) = rec
    BY DEF AckedIsRead
  <2>1. PICK e \in Page : EndsWith(block, rec, e)
    BY DEF ImageInv
  <2> QED
    BY <2>1, EndIsRead DEF CircularTypeOK
<1> QED
  BY <1>1, <1>2, CircularTypeInit, CircularTypeStep, FreeInvStep, ImageInvStep, PTL
  DEF CircularSpec

-----------------------------------------------------------------------------
(* Records of one page *)

\* Every record fits into one page, with its meta data.
OnePage == \A r \in Record : Pages[r] = 1

\* A circular bucket implements what a bucket promises where every record with
\* its meta data fits into one page, and pages are programmed and the block is
\* erased entirely or not at all: a write that is cut off leaves the old record,
\* none, or the new one.  Run circular_torn shows that records of two pages are
\* enough to break this; so is an erase that is cut off.
THEOREM OnePageImplementsBucketStore ==
    ASSUME OnePage, PageAtomic, EraseAtomic
    PROVE  CircularSpec => CircularIsBucketStore
<1> DEFINE content == [b \in {1} |-> Contents(block)]
           wr == {w \in {<<1, rec>>} : at \in {"erase", "program"}}
           Inv == CircularTypeOK /\ ProgramInv /\ FreeInv /\ ImageInv
<1>1. CircularInit => Promise!Init /\ Inv
  <2> SUFFICES ASSUME CircularInit PROVE Promise!Init /\ Inv
    OBVIOUS
  <2>1. Inv
    BY CircularTypeInit DEF CircularInit, ImageInv
  <2>2. UsedPages(block) = 0
    <3>1. UsedPages(block) \in 0 .. P /\ ~(UsedPages(block) > 0)
      BY UsedPagesFacts, CircularAssumption DEF CircularInit, Page
    <3> QED
      BY <3>1, CircularAssumption
  <2>3. Contents(block) = NoRecord
    BY <2>2 DEF Contents, ReadRecord
  <2>4. content \in [{1} -> {NoRecord}]
    BY <2>3
  <2>5. wr = {} /\ acked = FALSE
    BY DEF CircularInit
  <2> QED
    BY <2>1, <2>4, <2>5 DEF Promise!Init
<1>2. Inv /\ [CircularNext]_circularVars => [Promise!Next]_(Promise!vars)
  <2> SUFFICES ASSUME Inv, [CircularNext]_circularVars
               PROVE  [Promise!Next]_(Promise!vars)
    OBVIOUS
  <2>0. /\ P \in Nat \ {0} /\ rec \in Record /\ Pages[rec] = 1 /\ 1 \in 1 .. 1
        /\ wa \in Nat /\ upto \in Nat /\ wa <= P /\ DOMAIN block = Page
        /\ at \in {"off", "created", "ready", "erase", "program"}
    BY CircularAssumption DEF OnePage, CircularTypeOK
  <2>c. ASSUME block' = block PROVE content' = content
    BY <2>c
  <2>w. /\ at \in {"erase", "program"} => wr = {<<1, rec>>}
        /\ at \notin {"erase", "program"} => wr = {}
    OBVIOUS
  <2>v. /\ at' \in {"erase", "program"} => wr' = {<<1, rec'>>}
        /\ at' \notin {"erase", "program"} => wr' = {}
    OBVIOUS
  <2>1. CASE Create \/ ReadBucket \/ Close \/ UNCHANGED circularVars
    <3>1. content' = content /\ wr' = wr /\ acked' = acked
      BY <2>1, <2>c DEF Create, ReadBucket, Close, circularVars
    <3> QED
      BY <3>1 DEF Promise!vars
  <2>2. ASSUME NEW r \in Record, AppendBegin(r)
        PROVE  Promise!Next
    <3>1. /\ at = "ready" /\ at' \in {"erase", "program"} /\ rec' = r /\ acked' = FALSE
          /\ content' = content
      BY <2>2, <2>c DEF AppendBegin
    <3> HIDE DEF content, wr
    <3>2. wr = {} /\ wr' = {<<1, r>>}
      BY <2>w, <2>v, <3>1
    <3>3. Promise!Begin(1, r)
      BY <3>1, <3>2 DEF Promise!Begin, content, wr
    <3> QED
      BY <3>3 DEF Promise!Next
  <2>3. ASSUME NEW r \in Record, AppendReject(r)
        PROVE  Promise!Next
    <3>1. at = "ready" /\ at' = "ready" /\ acked' = FALSE /\ content' = content
      BY <2>3, <2>c DEF AppendReject
    <3> HIDE DEF content, wr
    <3>2. wr = {} /\ wr' = wr
      BY <2>w, <2>v, <3>1
    <3>3. Promise!Reject
      BY <3>1, <3>2 DEF Promise!Reject, content, wr
    <3> QED
      BY <3>3 DEF Promise!Next
  <2>4. CASE Erase
    <3>1. /\ at = "erase" /\ at' = "program" /\ UNCHANGED <<rec, acked>>
          /\ block' = [p \in Page |-> Erased]
      BY <2>4 DEF Erase
    <3>2. UsedPages([p \in Page |-> Erased]) = 0
      <4> DEFINE bl == [p \in Page |-> Erased]
      <4>1. \A q \in Page : bl[q] = Erased
        OBVIOUS
      <4> HIDE DEF bl
      <4>2. UsedPages(bl) \in 0 .. P /\ ~(UsedPages(bl) > 0)
        BY <2>0, <4>1, UsedPagesFacts DEF Page
      <4>3. UsedPages(bl) = 0
        BY <2>0, <4>2
      <4> QED
        BY <4>3 DEF bl
    <3>3. Contents(block)' = NoRecord
      BY <3>1, <3>2 DEF Contents, ReadRecord
    <3>4. content' = [content EXCEPT ![1] = NoRecord]
      BY <3>3
    <3> HIDE DEF content, wr
    <3>5. wr' = wr /\ wr = {<<1, rec>>}
      BY <2>w, <2>v, <3>1
    <3>6. \E w \in wr : content' = [content EXCEPT ![w[1]] = NoRecord]
      BY <3>4, <3>5
    <3>7. Promise!Tear
      BY <3>1, <3>5, <3>6 DEF Promise!Tear, content, wr
    <3> QED
      BY <3>7 DEF Promise!Next
  <2>5. CASE Program
    <3>1. /\ at = "program" /\ upto < wa /\ UNCHANGED <<rec, acked, at>>
          /\ block' = [block EXCEPT ![upto + 1] =
                         PageOf(rec, upto + 1 - (wa - Pages[rec]))]
      BY <2>5 DEF Program
    <3>2. upto + 1 - (wa - Pages[rec]) = 1 /\ upto + 1 \in Page
      BY <2>0, <3>1 DEF ProgramInv, Page
    <3>3. EndsWith(block', rec, upto + 1)
      <4>1. block'[upto + 1] = PageOf(rec, 1)
        BY <2>0, <3>1, <3>2
      <4>2. \A q \in Page : q > upto + 1 => block'[q] = Erased
        BY <2>0, <3>1, <3>2 DEF FreeInv, Page
      <4>3. \A n \in 1 .. Pages[rec] : n = 1 /\ upto + 1 - Pages[rec] + n = upto + 1
        BY <2>0
      <4> QED
        BY <2>0, <3>2, <4>1, <4>2, <4>3 DEF EndsWith
    <3>4. Contents(block') = rec
      BY <2>0, <3>2, <3>3, EndIsRead
    <3>5. content' = [content EXCEPT ![1] = rec]
      BY <3>4 DEF Contents
    <3> HIDE DEF content, wr
    <3>6. wr' = wr /\ wr = {<<1, rec>>}
      BY <2>w, <2>v, <3>1
    <3>7. \E w \in wr : content' = [content EXCEPT ![w[1]] = w[2]]
      BY <3>5, <3>6
    <3>8. Promise!Land
      BY <3>1, <3>6, <3>7 DEF Promise!Land, content, wr
    <3> QED
      BY <3>8 DEF Promise!Next
  <2>6. CASE EraseFail \/ ProgramFail
    <3>1. /\ at \in {"erase", "program"} /\ at' \in {"ready", "off"}
          /\ content' = content /\ acked' = FALSE
      <4>1. at \in {"erase", "program"} /\ at' \in {"ready", "off"} /\ acked' = acked
        BY <2>6 DEF EraseFail, ProgramFail
      <4>2. block' = block
        BY <2>6 DEF EraseFail, ProgramFail
      <4>3. acked = FALSE
        BY <4>1 DEF ProgramInv, CircularTypeOK
      <4> QED
        BY <2>c, <4>1, <4>2, <4>3
    <3> HIDE DEF content, wr
    <3>2. wr' = {} /\ \E w \in wr : acked' \in {FALSE, content[w[1]] = w[2]}
      BY <2>w, <2>v, <3>1
    <3>3. Promise!Return
      BY <3>1, <3>2 DEF Promise!Return, content, wr
    <3> QED
      BY <3>3 DEF Promise!Next
  <2>7. CASE AppendEnd
    <3>1. /\ at = "program" /\ upto = wa /\ at' = "ready" /\ acked' = TRUE
          /\ content' = content
      BY <2>7, <2>c DEF AppendEnd
    <3>2. wa \in Page
      BY <2>0, <3>1 DEF ProgramInv, Page
    <3>3. EndsWith(block, rec, wa)
      <4>1. \A n \in 1 .. Pages[rec] : wa - Pages[rec] + n <= upto
        BY <2>0, <3>1
      <4> QED
        BY <3>1, <3>2, <4>1 DEF EndsWith, ImageInv, FreeInv, ProgramInv
    <3>4. content[1] = rec
      BY <2>0, <3>2, <3>3, EndIsRead
    <3> HIDE DEF content, wr
    <3>5. wr' = {} /\ \E w \in wr : acked' \in {FALSE, content[w[1]] = w[2]}
      <4>1. wr' = {} /\ wr = {<<1, rec>>}
        BY <2>w, <2>v, <3>1
      <4>2. (content[1] = rec) = TRUE
        BY <3>4
      <4>3. acked' \in {FALSE, content[<<1, rec>>[1]] = <<1, rec>>[2]}
        BY <3>1, <4>2
      <4> QED
        BY <4>1, <4>3
    <3>6. Promise!Return
      BY <3>1, <3>5 DEF Promise!Return, content, wr
    <3> QED
      BY <3>6 DEF Promise!Next
  <2> QED
    BY <2>1, <2>2, <2>3, <2>4, <2>5, <2>6, <2>7 DEF CircularNext, ErasePart
<1>3. Inv /\ [CircularNext]_circularVars => Inv'
  BY CircularTypeStep, FreeInvStep, ImageInvStep
<1> HIDE DEF Inv
<1> QED
  BY <1>1, <1>2, <1>3, PTL DEF CircularSpec, CircularIsBucketStore, Promise!Spec
=============================================================================
