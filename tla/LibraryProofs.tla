---------------------------- MODULE LibraryProofs ----------------------------
(***************************************************************************)
(* Proofs about the parts that a run of the tool is made of: the buffers   *)
(* that a tree is flattened into (FdtBuffer), the lookup of a backend and  *)
(* the division of it into buckets (CdevFind), main (ToolMain), and the    *)
(* digests (Digest).  Each holds for every value of the constants that the *)
(* assumptions of its module allow.                                        *)
(***************************************************************************)
EXTENDS FdtBuffer, CdevFind, Digest, ToolMain, WellFoundedInduction, SequenceTheorems, TLAPS

-----------------------------------------------------------------------------
(* Recursion and induction, in a form with sets in the place of predicates *)

LEMMA NatSetInduction ==
    ASSUME NEW T, 0 \in T, \A n \in Nat : n \in T => n + 1 \in T
    PROVE  Nat \subseteq T
<1> DEFINE B == Nat \ T
           R == {x \in Nat \X Nat : x[1] < x[2]}
<1> SUFFICES ASSUME B # {} PROVE FALSE
  OBVIOUS
<1>1. IsWellFoundedOn(R, Nat)
  BY NatLessThanWellFounded DEF OpToRel
<1> HIDE DEF R
<1>2. PICK n \in B : \A m \in B : ~(<<m, n>> \in R)
  BY <1>1, WFMin
<1>3. n # 0 /\ n \in Nat
  OBVIOUS
<1>4. n - 1 \in Nat /\ (n - 1) + 1 = n /\ n - 1 < n
  BY <1>3
<1>5. n - 1 \in B
  BY <1>4
<1>6. <<n - 1, n>> \in R
  BY <1>3, <1>4 DEF R
<1> QED
  BY <1>2, <1>5, <1>6

LEMMA MinFacts ==
    ASSUME NEW I, I \subseteq Nat, I # {}
    PROVE  Min(I) \in I /\ \A i \in I : Min(I) <= i
<1> DEFINE R == {x \in Nat \X Nat : x[1] < x[2]}
<1>1. IsWellFoundedOn(R, Nat)
  BY NatLessThanWellFounded DEF OpToRel
<1>2. PICK n \in I : \A m \in I : ~(<<m, n>> \in R)
  <2> HIDE DEF R
  <2> QED
    BY <1>1, WFMin
<1>3. \A m \in I : ~(m < n)
  BY <1>2
<1>4. \A m \in I : n <= m
  BY <1>3
<1> QED
  BY <1>4 DEF Min

\* f is defined over 0 .. n by recursion: it begins with b, F is the step.
Recursive(f, n, S, b, F) ==
    /\ f \in [0 .. n -> S] /\ f[0] = b
    /\ \A k \in 1 .. n : f[k] = F[<<f[k - 1], k>>]

\* A recursion over 0 .. n that stays in S is well defined.
LEMMA RecursionExists ==
    ASSUME NEW n \in Nat, NEW S, NEW b \in S,
           NEW F \in [S \X (1 .. n) -> S]
    PROVE  \E f : Recursive(f, n, S, b, F)
<1> DEFINE Built(f, m) == /\ f \in [0 .. m -> S] /\ f[0] = b
                          /\ \A k \in 1 .. m : f[k] = F[<<f[k - 1], k>>]
           T == {m \in Nat : m <= n => \E f : Built(f, m)}
<1>1. 0 \in T
  <2> DEFINE f == [k \in 0 .. 0 |-> b]
  <2>1. Built(f, 0)
    OBVIOUS
  <2> HIDE DEF f, Built
  <2> QED
    BY <2>1
<1>2. ASSUME NEW m \in Nat, m \in T
      PROVE  m + 1 \in T
  <2> SUFFICES ASSUME m + 1 <= n PROVE \E f : Built(f, m + 1)
    OBVIOUS
  <2>1. PICK f : Built(f, m)
    BY <1>2
  <2> DEFINE g == [k \in 0 .. m + 1 |-> IF k = m + 1 THEN F[<<f[m], m + 1>>] ELSE f[k]]
  <2>2. f[m] \in S /\ F[<<f[m], m + 1>>] \in S
    BY <2>1
  <2>3. g \in [0 .. m + 1 -> S] /\ g[0] = b
    BY <2>1, <2>2
  <2>4. ASSUME NEW k \in 1 .. m + 1
        PROVE  g[k] = F[<<g[k - 1], k>>]
    <3>1. CASE k = m + 1
      <4>1. g[k] = F[<<f[m], m + 1>>] /\ k - 1 = m /\ g[m] = f[m]
        BY <3>1
      <4> HIDE DEF g
      <4> QED
        BY <3>1, <4>1
    <3>2. CASE k # m + 1
      <4>1. k \in 1 .. m /\ k - 1 \in 0 .. m
        BY <3>2
      <4>2. g[k] = f[k] /\ g[k - 1] = f[k - 1]
        BY <4>1
      <4> HIDE DEF g
      <4> QED
        BY <2>1, <4>1, <4>2
    <3> QED
      BY <3>1, <3>2
  <2> HIDE DEF g
  <2>5. Built(g, m + 1)
    BY <2>3, <2>4
  <2> HIDE DEF Built
  <2> QED
    BY <2>5
<1>3. n \in T
  <2> HIDE DEF T
  <2> QED
    BY <1>1, <1>2, NatSetInduction
<1>4. PICK f : Built(f, n)
  <2> HIDE DEF Built
  <2> QED
    BY <1>3
<1> QED
  BY <1>4 DEF Recursive

-----------------------------------------------------------------------------
(* FdtBuffer: of_flatten_dtb stays within its buffers *)

Buffer == [size : Nat, next : Nat]

\* dt_next_ofs rounds up to a multiple of four: it adds at most three bytes
\* and does not pass the end of a buffer whose size is such a multiple.
LEMMA NextOfs ==
    ASSUME NEW ofs \in Nat, NEW len \in Nat
    PROVE  /\ dt_next_ofs(ofs, len) \in Nat
           /\ ofs + len <= dt_next_ofs(ofs, len)
           /\ dt_next_ofs(ofs, len) <= ofs + len + 3
           /\ dt_next_ofs(ofs, len) % 4 = 0
           /\ \A size \in Nat : size % 4 = 0 /\ ofs + len <= size =>
                 dt_next_ofs(ofs, len) <= size
BY DEF dt_next_ofs

\* A buffer that has grown from BUFSIZE bytes.
Sized(b) == b \in Buffer /\ BUFSIZE <= b.size /\ b.size % 4 = 0

\* One doubling is enough: the buffer has room for what was asked for, and one
\* that has room is left where it is.
LEMMA GrownFits ==
    ASSUME NEW b, Sized(b), b.next <= b.size, NEW need \in Nat, need <= BUFSIZE
    PROVE  /\ Sized(Grown(b, need)) /\ Grown(b, need).next = b.next
           /\ b.next + need <= Grown(b, need).size
           /\ b.next + need <= b.size => Grown(b, need) = b
           /\ b.size <= Grown(b, need).size
<1> USE BufferAssumption DEF Buffer, Sized
<1>1. CASE b.size - b.next < need
  <2>1. Grown(b, need) = [b EXCEPT !.size = 2 * @]
    BY <1>1 DEF Grown
  <2>2. /\ Grown(b, need) \in Buffer /\ Grown(b, need).next = b.next
        /\ Grown(b, need).size = 2 * b.size
    BY <2>1
  <2> QED
    BY <1>1, <2>2
<1>2. CASE ~(b.size - b.next < need)
  BY <1>2 DEF Grown
<1> QED
  BY <1>1, <1>2

\* The same of the two calls of fdt_ensure_space.
LEMMA EnsureFits ==
    ASSUME NEW b, Sized(b), b.next <= b.size,
           NEW len \in Nat, len + Slack <= BUFSIZE
    PROVE  /\ Sized(EnsureDt(b, len)) /\ EnsureDt(b, len).next = b.next
           /\ b.next + Slack + len <= EnsureDt(b, len).size
           /\ b.next + Slack + len <= b.size => EnsureDt(b, len) = b
           /\ b.size <= EnsureDt(b, len).size /\ b.size <= EnsureStrings(b).size
           /\ Sized(EnsureStrings(b)) /\ EnsureStrings(b).next = b.next
           /\ b.next + Slack <= EnsureStrings(b).size
           /\ b.next + Slack <= b.size => EnsureStrings(b) = b
<1>1. /\ Slack + len \in Nat /\ Slack + len <= BUFSIZE
      /\ Slack \in Nat /\ Slack <= BUFSIZE
      /\ b.next \in Nat /\ b.next + (Slack + len) = b.next + Slack + len
  BY BufferAssumption DEF Sized, Buffer
<1> QED
  BY <1>1, GrownFits DEF EnsureDt, EnsureStrings

\* What is put into a buffer in which it fits leaves the next offset in it.
LEMMA PutFits ==
    ASSUME NEW b, Sized(b), NEW len \in Nat, b.next + len <= b.size
    PROVE  /\ Sized(Put(b, len)) /\ Put(b, len).size = b.size
           /\ Put(b, len).next <= b.size /\ b.next + len <= Put(b, len).next
           /\ Put(b, len).next <= b.next + len + 3
           /\ \A l \in 0 .. len : Fits(b, l)
<1>1. /\ b.next \in Nat /\ b.size \in Nat /\ b.size % 4 = 0
  BY DEF Sized, Buffer
<1>2. /\ dt_next_ofs(b.next, len) \in Nat
      /\ b.next + len <= dt_next_ofs(b.next, len)
      /\ dt_next_ofs(b.next, len) <= b.next + len + 3
      /\ dt_next_ofs(b.next, len) <= b.size
  BY <1>1, NextOfs
<1>3. /\ Put(b, len) \in Buffer /\ Put(b, len).size = b.size
      /\ Put(b, len).next = dt_next_ofs(b.next, len)
  BY <1>2 DEF Put, Sized, Buffer
<1>4. \A l \in 0 .. len : Fits(b, l)
  BY <1>1 DEF Fits
<1> QED
  BY <1>2, <1>3, <1>4 DEF Sized

\* While a tree is written there is room for one more tag, of four bytes: the
\* end of a node and FDT_END are written before room is made.
Roomy ==
    /\ dt \in Buffer /\ strings \in Buffer
    /\ stage \in {"walk", "end", "done", "mapped"}
    /\ stage \in {"walk", "end"} =>
          /\ Sized(dt) /\ dt.next + 4 <= dt.size
          /\ Sized(strings) /\ strings.next <= strings.size
    /\ WrittenWell
    /\ BUFSIZE <= dt.size /\ BUFSIZE <= strings.size
    /\ dt.size = BUFSIZE /\ strings.size = BUFSIZE => ~unended

\* The reserve map keeps its two entries, and there is room as long as nothing
\* long was met.
BufferInv ==
    /\ reserved \in Nat /\ reserved + 2 <= MaxReserve
    /\ long \in BOOLEAN /\ (~long => Roomy)

LEMMA BufferInvStep == BufferInv /\ [BufferNext]_bufferVars => BufferInv'
<1> SUFFICES ASSUME BufferInv, [BufferNext]_bufferVars
             PROVE  BufferInv'
  OBVIOUS
<1>r. /\ reserved' \in Nat /\ reserved' + 2 <= MaxReserve
      /\ long' \in BOOLEAN /\ (~long' => ~long \/ Again)
  <2>1. CASE Again
    <3>1. reserved' = 0 /\ long' = FALSE
      BY <2>1, Zenon DEF Again
    <3>2. reserved' \in Nat /\ reserved' + 2 <= MaxReserve
      BY <3>1, BufferAssumption
    <3> QED
      BY <2>1, <3>1, <3>2, Zenon
  <2>2. CASE AddReserveEntry
    BY <2>2, BufferAssumption DEF AddReserveEntry, BufferInv
  <2>3. ASSUME reserved' = reserved, long' = long \/ long' = TRUE
        PROVE  /\ reserved' \in Nat /\ reserved' + 2 <= MaxReserve
               /\ long' \in BOOLEAN /\ (~long' => ~long \/ Again)
    BY <2>3 DEF BufferInv
  <2>4. ASSUME NEW name \in NameLens, FlattenBegin(name)
        PROVE  reserved' = reserved /\ (long' = long \/ long' = TRUE)
    BY <2>4 DEF FlattenBegin, LongName, BufferInv
  <2>5. ASSUME NEW name \in NameLens, NEW len \in PropLens, FlattenProp(name, len)
        PROVE  reserved' = reserved /\ (long' = long \/ long' = TRUE)
    BY <2>5 DEF FlattenProp, LongName, LongValue, BufferInv
  <2>6. CASE FlattenEnd \/ FlattenDone \/ AddReserveMap \/ UNCHANGED bufferVars
    BY <2>3, <2>6 DEF FlattenEnd, FlattenDone, AddReserveMap, bufferVars
  <2> QED
    BY <2>1, <2>2, <2>3, <2>4, <2>5, <2>6 DEF BufferNext
<1> SUFFICES ASSUME ~long'
             PROVE  Roomy'
  BY <1>r DEF BufferInv
<1>i. ~Again => ~long /\ Roomy
  BY <1>r DEF BufferInv
<1>0. /\ Slack \in Nat /\ 20 <= Slack /\ Slack <= BUFSIZE /\ BUFSIZE \in Nat
      /\ \A l \in NameLens : l \in Nat
      /\ \A l \in PropLens : l \in Nat
      /\ 0 + Slack <= BUFSIZE /\ MaxName \in Nat
  BY BufferAssumption
<1>7. CASE Again
  <2>1. Sized(dt') /\ dt'.next + 4 <= dt'.size
    BY <1>7, BufferAssumption DEF Again, Sized, Buffer
  <2>2. Sized(strings') /\ strings'.next <= strings'.size
    BY <1>7, BufferAssumption DEF Again, Sized, Buffer
  <2>3. ~unended' /\ WrittenWell'
    BY <1>7, Zenon DEF Again, WrittenWell
  <2> QED
    BY <1>7, <2>1, <2>2, <2>3 DEF Again, Roomy, Sized
<1> SUFFICES ASSUME Roomy, ~long, ~Again
             PROVE  Roomy'
  BY <1>i, <1>7
<1>b. ASSUME stage \in {"walk", "end"}
      PROVE  /\ Sized(dt) /\ dt.next \in Nat /\ dt.size \in Nat
             /\ dt.next + 4 <= dt.size /\ dt.next <= dt.size
             /\ Sized(strings) /\ strings.next \in Nat /\ strings.size \in Nat
             /\ strings.next <= strings.size
             /\ BUFSIZE <= dt.size /\ BUFSIZE <= strings.size
             /\ dt.size = BUFSIZE /\ strings.size = BUFSIZE => ~unended
  BY <1>b DEF Roomy, Sized, Buffer
<1>s. ASSUME stage = "walk"
      PROVE  /\ Sized(EnsureStrings(strings))
             /\ EnsureStrings(strings).next = strings.next
             /\ strings.next + Slack <= EnsureStrings(strings).size
             /\ strings.next <= EnsureStrings(strings).size
             /\ strings.size <= EnsureStrings(strings).size
             /\ EnsureStrings(strings).size \in Nat
  <2>1. /\ Sized(EnsureStrings(strings))
        /\ strings.size <= EnsureStrings(strings).size
        /\ EnsureStrings(strings).next = strings.next
        /\ strings.next + Slack <= EnsureStrings(strings).size
    BY <1>0, <1>b, <1>s, EnsureFits
  <2> QED
    BY <2>1, <1>0, <1>b, <1>s DEF Sized, Buffer
<1>1. ASSUME NEW name \in NameLens, FlattenBegin(name)
      PROVE  Roomy'
  <2> DEFINE b == EnsureDt(dt, 0)
  <2>0. name + 12 <= Slack /\ name < MaxName
    <3>1. ~LongName(name)
      BY <1>1, Zenon DEF FlattenBegin
    <3> QED
      BY <3>1, <1>0 DEF LongName
  <2>1. /\ stage = "walk" /\ dt' = Put(b, 4 + name + 1)
        /\ strings' = EnsureStrings(strings)
        /\ over' = (over \/ ~Fits(b, 4 + name))
        /\ spoilt' = (spoilt \/ dt'.next < dt.next)
        /\ unended' = (unended \/ ~ZeroAt(b.next + 4 + name))
        /\ UNCHANGED <<stage, stale, reserved>>
    BY <1>1, <2>0 DEF FlattenBegin, lstrcpy, Written
  <2>2. /\ Sized(b) /\ b.next = dt.next /\ dt.next + Slack + 0 <= b.size
        /\ dt.size <= b.size
    BY <1>0, <1>b, <2>1, EnsureFits
  <2> HIDE DEF b
  <2>3. /\ 4 + name + 1 \in Nat /\ b.next + (4 + name + 1) <= b.size
        /\ b.next + (4 + name + 1) + 3 + 4 <= b.size
        /\ b.next \in Nat /\ b.size \in Nat
    BY <1>0, <1>b, <2>0, <2>1, <2>2 DEF Sized, Buffer
  <2>7. 4 + name \in 0 .. 4 + name + 1
    BY <1>0
  <2>4. /\ Sized(dt') /\ dt'.size = b.size
        /\ dt'.next <= b.next + (4 + name + 1) + 3
        /\ b.next + (4 + name + 1) <= dt'.next
        /\ Fits(b, 4 + name)
    BY <2>1, <2>2, <2>3, <2>7, PutFits
  <2>5. dt'.next + 4 <= dt'.size
    BY <2>3, <2>4, <1>0 DEF Sized, Buffer
  <2>8. ~(dt'.next < dt.next)
    BY <2>2, <2>3, <2>4, <1>0 DEF Sized, Buffer
  <2>6. ~over' /\ ~stale' /\ ~spoilt'
    BY <2>1, <2>4, <2>8, Zenon DEF Roomy, WrittenWell
  <2>9. dt'.size = BUFSIZE /\ strings'.size = BUFSIZE => ~unended'
    <3> SUFFICES ASSUME dt'.size = BUFSIZE, strings'.size = BUFSIZE
                 PROVE  ~unended'
      OBVIOUS
    <3>1. dt.size = BUFSIZE /\ strings.size = BUFSIZE
      BY <1>0, <1>b, <1>s, <2>1, <2>2, <2>3, <2>4
    <3>2. ~unended
      BY <1>b, <2>1, <3>1
    <3>3. ZeroAt(b.next + 4 + name)
      BY <1>0, <2>3, <2>4 DEF ZeroAt
    <3> QED
      BY <2>1, <3>2, <3>3, Zenon
  <2> QED
    BY <1>s, <2>1, <2>4, <2>5, <2>6, <2>9 DEF Roomy, WrittenWell, Sized
<1>2. ASSUME NEW name \in NameLens, NEW len \in PropLens, FlattenProp(name, len)
      PROVE  Roomy'
  <2> DEFINE b == EnsureDt(dt, len)
             s == EnsureStrings(strings)
  <2>2. /\ len \in Nat /\ name \in Nat /\ name + 12 <= Slack
        /\ len + Slack <= BUFSIZE /\ name < MaxName
    <3>1. ~LongName(name) /\ ~LongValue(len)
      BY <1>2, Zenon DEF FlattenProp
    <3> QED
      BY <3>1, <1>0 DEF LongName, LongValue
  <2>1. /\ stage = "walk" /\ stage' = stage /\ reserved' = reserved
        /\ dt' = Put(EnsureDt(b, 0), 12 + len)
        /\ strings' = [EnsureStrings(s) EXCEPT !.next = @ + name + 1]
        /\ over' = (over \/ ~Fits(EnsureDt(b, 0), 12 + len)
                         \/ ~Fits(EnsureStrings(s), name))
        /\ stale' = (stale \/ EnsureDt(b, 0).size # b.size)
        /\ spoilt' = (spoilt \/ EnsureStrings(s).next # EnsureStrings(s).next)
        /\ unended' = (unended \/ ~ZeroAt(EnsureStrings(s).next + name))
    BY <1>2, <2>2 DEF FlattenProp, dt_add_string, NameOfs, Written
  <2>3. /\ Sized(b) /\ b.next = dt.next /\ dt.next + Slack + len <= b.size
        /\ dt.size <= b.size
    BY <1>b, <2>1, <2>2, EnsureFits
  <2>4. /\ Sized(s) /\ s.next = strings.next /\ strings.next + Slack <= s.size
        /\ strings.size <= s.size
    BY <1>s, <2>1
  <2> HIDE DEF b, s
  <2>5. /\ b.next \in Nat /\ b.size \in Nat /\ s.next \in Nat /\ s.size \in Nat
    BY <2>3, <2>4 DEF Sized, Buffer
  <2>6. /\ b.next <= b.size /\ b.next + Slack + 0 <= b.size
        /\ 12 + len \in Nat /\ b.next + (12 + len) <= b.size
        /\ b.next + (12 + len) + 3 + 4 <= b.size
    BY <1>0, <2>2, <2>3, <2>5
  <2>7. /\ s.next <= s.size /\ s.next + Slack <= s.size
        /\ s.next + name + 1 <= s.size /\ s.next + (name + 1) <= s.size
    BY <1>0, <2>2, <2>4, <2>5
  <2>8. EnsureDt(b, 0) = b
    BY <1>0, <2>3, <2>6, EnsureFits
  <2>9. EnsureStrings(s) = s
    BY <1>0, <2>4, <2>7, EnsureFits
  <2>10. /\ Sized(dt') /\ dt'.size = b.size
         /\ dt'.next <= b.next + (12 + len) + 3
         /\ Fits(b, 12 + len)
    <3>1. 12 + len \in 0 .. 12 + len
      BY <2>2
    <3> QED
      BY <2>1, <2>3, <2>6, <2>8, <3>1, PutFits
  <2>11. dt'.next + 4 <= dt'.size
    BY <2>2, <2>5, <2>6, <2>10 DEF Sized, Buffer
  <2>12. Sized(strings') /\ strings'.next <= strings'.size /\ Fits(s, name)
    BY <2>1, <2>2, <2>4, <2>5, <2>7, <2>9 DEF Sized, Buffer, Fits
  <2>13. ~over' /\ ~stale' /\ ~spoilt'
    BY <2>1, <2>8, <2>9, <2>10, <2>12, Zenon DEF Roomy, WrittenWell
  <2>14. strings'.size = s.size
    BY <2>1, <2>4, <2>9 DEF Sized, Buffer
  <2>15. dt'.size = BUFSIZE /\ strings'.size = BUFSIZE => ~unended'
    <3> SUFFICES ASSUME dt'.size = BUFSIZE, strings'.size = BUFSIZE
                 PROVE  ~unended'
      OBVIOUS
    <3>1. dt.size = BUFSIZE /\ strings.size = BUFSIZE
      BY <1>0, <1>b, <2>1, <2>3, <2>4, <2>5, <2>10, <2>14
    <3>2. ~unended
      BY <1>b, <2>1, <3>1
    <3>3. ZeroAt(EnsureStrings(s).next + name)
      BY <1>0, <2>2, <2>5, <2>7, <2>9, <2>14 DEF ZeroAt
    <3> QED
      BY <2>1, <3>2, <3>3, Zenon
  <2> QED
    BY <2>1, <2>10, <2>11, <2>12, <2>13, <2>15 DEF Roomy, WrittenWell, Sized
<1>3. ASSUME FlattenEnd
      PROVE  Roomy'
  <2> DEFINE b == Put(dt, 4)
  <2>1. /\ stage = "walk" /\ dt' = EnsureDt(b, 0)
        /\ strings' = EnsureStrings(strings)
        /\ over' = (over \/ ~Fits(dt, 4))
        /\ stage' \in {"walk", "end"}
        /\ UNCHANGED <<stale, spoilt, unended, reserved>>
    BY <1>3 DEF FlattenEnd
  <2>2. Sized(b) /\ b.size = dt.size /\ b.next <= b.size /\ Fits(dt, 4)
    <3>1. 4 \in 0 .. 4
      OBVIOUS
    <3> QED
      BY <1>b, <2>1, <3>1, PutFits
  <2> HIDE DEF b
  <2>3. /\ Sized(dt') /\ dt'.next = b.next /\ b.next + Slack + 0 <= dt'.size
        /\ dt.size <= dt'.size
    BY <1>0, <2>1, <2>2, EnsureFits
  <2>4. dt'.next + 4 <= dt'.size
    BY <1>0, <2>3 DEF Sized, Buffer
  <2>5. ~over' /\ ~stale' /\ ~spoilt'
    BY <2>1, <2>2, Zenon DEF Roomy, WrittenWell
  <2>6. dt'.size \in Nat
    BY <2>3 DEF Sized, Buffer
  <2>7. dt'.size = BUFSIZE /\ strings'.size = BUFSIZE => ~unended'
    BY <1>0, <1>b, <1>s, <2>1, <2>3, <2>6
  <2> QED
    BY <1>s, <2>1, <2>3, <2>4, <2>5, <2>7 DEF Roomy, WrittenWell, Sized
<1>4. ASSUME FlattenDone
      PROVE  Roomy'
  <2> DEFINE b == Put(dt, 4)
             c == IF b.next <= b.size /\ b.size - b.next < strings.next
                  THEN [b EXCEPT !.size = b.next + strings.next] ELSE b
  <2>1. /\ stage = "end" /\ stage' = "done"
        /\ dt' = [c EXCEPT !.next = @ + strings.next]
        /\ over' = (over \/ ~Fits(dt, 4) \/ ~Fits(c, strings.next))
        /\ UNCHANGED <<strings, stale, spoilt, unended, reserved>>
    BY <1>4 DEF FlattenDone
  <2>2. b \in Buffer /\ Fits(dt, 4) /\ b.next <= b.size /\ b.size = dt.size
    <3>1. 4 \in 0 .. 4
      OBVIOUS
    <3> QED
      BY <1>b, <2>1, <3>1, PutFits DEF Sized
  <2> HIDE DEF b
  <2>3. strings.next \in Nat
    BY <1>b, <2>1
  <2>4. c \in Buffer /\ c.next + strings.next <= c.size /\ dt.size <= c.size
    BY <2>2, <2>3 DEF Buffer
  <2> HIDE DEF c
  <2>5. Fits(c, strings.next)
    BY <2>2, <2>4 DEF Fits, Buffer
  <2>6. dt' \in Buffer
    BY <2>1, <2>3, <2>4 DEF Buffer
  <2>7. ~over' /\ ~stale' /\ ~spoilt'
    BY <2>1, <2>2, <2>5, Zenon DEF Roomy, WrittenWell
  <2>8. dt'.size = c.size /\ c.size \in Nat
    BY <2>1, <2>4 DEF Buffer
  <2>9. /\ BUFSIZE <= dt'.size
        /\ dt'.size = BUFSIZE /\ strings'.size = BUFSIZE => ~unended'
    BY <1>0, <1>b, <2>1, <2>4, <2>8
  <2>10. BUFSIZE <= strings'.size /\ strings' \in Buffer
    BY <1>b, <2>1 DEF Sized
  <2> QED
    BY <2>1, <2>6, <2>7, <2>9, <2>10 DEF Roomy, WrittenWell
<1>5. CASE AddReserveEntry
  BY <1>5 DEF AddReserveEntry, Roomy, WrittenWell
<1>6. CASE AddReserveMap
  <2>1. ~(reserved + 2 > MaxReserve)
    BY BufferAssumption DEF BufferInv
  <2>2. ~over' /\ ~stale' /\ ~spoilt'
    BY <1>6, <2>1, Zenon DEF AddReserveMap, Roomy, WrittenWell
  <2> QED
    BY <1>6, <2>2 DEF AddReserveMap, Roomy, WrittenWell
<1>8. CASE UNCHANGED bufferVars
  BY <1>8 DEF bufferVars, Roomy, WrittenWell
<1> QED
  BY <1>1, <1>2, <1>3, <1>4, <1>5, <1>6, <1>8 DEF BufferNext

\* For every tree, every list of reserve entries and all sizes of the buffers:
\* as long as no name is longer than the 1024 bytes less 12 and no value longer
\* than the first BUFSIZE bytes less 1024, nothing is written past the end of a
\* buffer or over what was written, and the property to which a pointer is held
\* stays where it is (of_flatten_dtb, fdt_ensure_space); and as long as neither
\* buffer has grown, every name ends in a zero.
THEOREM StaysInBuffersHolds == BufferSpec => []StaysInBuffers
<1>1. BufferInit => BufferInv
  <2> SUFFICES ASSUME BufferInit PROVE BufferInv
    OBVIOUS
  <2>1. /\ dt = [size |-> BUFSIZE, next |-> Reserve]
        /\ strings = [size |-> BUFSIZE, next |-> 0]
        /\ stage = "walk" /\ reserved = 0 /\ long = FALSE
    BY Zenon DEF BufferInit
  <2>2. WrittenWell /\ ~unended
    BY Zenon DEF BufferInit, WrittenWell
  <2>3. /\ dt \in Buffer /\ Sized(dt) /\ dt.next + 4 <= dt.size
        /\ strings \in Buffer /\ Sized(strings) /\ strings.next <= strings.size
    BY <2>1, BufferAssumption DEF Sized, Buffer
  <2>4. Roomy
    BY <2>1, <2>2, <2>3 DEF Roomy, Sized
  <2>5. reserved \in Nat /\ reserved + 2 <= MaxReserve
    BY <2>1, BufferAssumption
  <2> QED
    BY <2>1, <2>4, <2>5, Zenon DEF BufferInv
<1>2. BufferInv => StaysInBuffers
  BY DEF BufferInv, Roomy, StaysInBuffers
<1> QED
  BY <1>1, <1>2, BufferInvStep, PTL DEF BufferSpec

-----------------------------------------------------------------------------
(* Buckets *)

Areas == [offset : Int, len : Int]

\* The buckets of a loop are at most three, their numbers are good and their
\* areas follow each other.
LEMMA BucketLoopFacts ==
    ASSUME NEW count \in Nat, NEW good, NEW base \in Int, NEW len \in Nat
    PROVE  LET list == BucketLoop(count, good, base, len) IN
           /\ list \in Seq(Areas) /\ Len(list) <= desired_buckets
           /\ \A i \in DOMAIN list :
                 \E k \in 0 .. count - 1 : k \in good /\ list[i] = Area(base + k * len, len)
           /\ \A i, j \in DOMAIN list : i < j =>
                 list[i].offset + list[i].len <= list[j].offset
<1> DEFINE S == Seq(Areas)
           Step(list, k) == IF k - 1 \in good /\ Len(list) < desired_buckets
                            THEN Append(list, Area(base + (k - 1) * len, len))
                            ELSE list
           F == [x \in S \X (1 .. count) |-> Step(x[1], x[2])]
<1>1. ASSUME NEW v \in S, NEW k \in 1 .. count
      PROVE  F[<<v, k>>] = Step(v, k) /\ Step(v, k) \in S
  <2>1. Area(base + (k - 1) * len, len) \in Areas
    BY DEF Area, Areas
  <2>2. Step(v, k) \in S
    BY <2>1
  <2> QED
    BY <2>2
<1>2. <<>> \in S
  OBVIOUS
<1> HIDE DEF S, F
<1>3. PICK f \in [0 .. count -> S] :
          f[0] = <<>> /\ \A k \in 1 .. count : f[k] = F[<<f[k - 1], k>>]
  <2> DEFINE b == <<>>
  <2>1. b \in S /\ F \in [S \X (1 .. count) -> S]
    BY <1>1, <1>2 DEF F
  <2> HIDE DEF Step, b
  <2>2. \E f : Recursive(f, count, S, b, F)
    BY <2>1, RecursionExists
  <2> QED
    BY <2>2 DEF b, Recursive
<1>4. ASSUME NEW k \in 1 .. count PROVE f[k] = Step(f[k - 1], k)
  <2> HIDE DEF Step
  <2>1. f[k - 1] \in S /\ f[k] = F[<<f[k - 1], k>>]
    BY <1>3
  <2> QED
    BY <1>1, <2>1
<1> DEFINE Upto == CHOOSE g : g = [k \in 0 .. count |->
                                     IF k = 0 THEN <<>> ELSE Step(g[k - 1], k)]
<1>5. f = [k \in 0 .. count |-> IF k = 0 THEN <<>> ELSE Step(f[k - 1], k)]
  <2> HIDE DEF Step
  <2>1. \A k \in 0 .. count : f[k] = IF k = 0 THEN <<>> ELSE Step(f[k - 1], k)
    BY <1>3, <1>4
  <2>2. f = [k \in 0 .. count |-> f[k]]
    BY <1>3
  <2> QED
    BY <2>1, <2>2
<1>6. Upto = [k \in 0 .. count |-> IF k = 0 THEN <<>> ELSE Step(Upto[k - 1], k)]
  <2> HIDE DEF Step
  <2> QED
    BY <1>5
<1>7. BucketLoop(count, good, base, len) = Upto[count]
  BY DEF BucketLoop
<1> HIDE DEF Upto
<1> DEFINE Fine(list, n) ==
             /\ list \in Seq(Areas) /\ Len(list) <= desired_buckets
             /\ \A i \in 1 .. Len(list) :
                   /\ \E k \in 0 .. n - 1 : k \in good /\ list[i] = Area(base + k * len, len)
                   /\ list[i].offset + list[i].len <= base + n * len
             /\ \A i, j \in 1 .. Len(list) : i < j =>
                   list[i].offset + list[i].len <= list[j].offset
           T == {n \in Nat : n <= count => Fine(Upto[n], n)}
<1>8. 0 \in T
  <2>1. Upto[0] = <<>>
    BY <1>6
  <2>2. Fine(<<>>, 0)
    <3>1. <<>> \in Seq(Areas) /\ Len(<<>>) = 0
      OBVIOUS
    <3> QED
      BY <3>1 DEF desired_buckets
  <2> HIDE DEF Fine
  <2>3. Fine(Upto[0], 0)
    BY <2>1, <2>2
  <2> QED
    BY <2>3
<1>9. ASSUME NEW n \in Nat, n \in T PROVE n + 1 \in T
  <2> SUFFICES ASSUME n + 1 <= count PROVE Fine(Upto[n + 1], n + 1)
    OBVIOUS
  <2> DEFINE old == Upto[n]
             new == Area(base + n * len, len)
  <2>1. Fine(old, n)
    <3>1. n <= count
      OBVIOUS
    <3> HIDE DEF Fine
    <3> QED
      BY <1>9, <3>1
  <2>2. Upto[n + 1] = Step(old, n + 1)
    <3>1. n + 1 \in 0 .. count /\ n + 1 # 0 /\ (n + 1) - 1 = n
      OBVIOUS
    <3> HIDE DEF Step
    <3> QED
      BY <1>6, <3>1
  <2>3. Upto[n + 1] = IF n \in good /\ Len(old) < desired_buckets
                      THEN Append(old, new) ELSE old
    <3>1. (n + 1) - 1 = n
      OBVIOUS
    <3> QED
      BY <2>2, <3>1
  <2> HIDE DEF old
  <2>4. n * len \in Int /\ (n + 1) * len \in Int /\ (n + 1) * len = n * len + len
    OBVIOUS
  <2>5. new \in Areas /\ new.offset = base + n * len /\ new.len = len
    BY <2>4 DEF Area, Areas
  <2>6. \A i \in 1 .. Len(old) :
           old[i] \in Areas /\ old[i].offset \in Int /\ old[i].len \in Int
    <3>1. old \in Seq(Areas)
      BY <2>1
    <3>2. \A i \in 1 .. Len(old) : old[i] \in Areas
      BY <3>1
    <3> QED
      BY <3>2 DEF Areas
  <2>7. \A i \in 1 .. Len(old) :
           /\ \E k \in 0 .. (n + 1) - 1 : k \in good /\ old[i] = Area(base + k * len, len)
           /\ old[i].offset + old[i].len <= base + (n + 1) * len
    <3> TAKE i \in 1 .. Len(old)
    <3>1. PICK k \in 0 .. n - 1 : k \in good /\ old[i] = Area(base + k * len, len)
      BY <2>1
    <3>2. k \in 0 .. (n + 1) - 1
      OBVIOUS
    <3>3. old[i].offset + old[i].len <= base + n * len
      BY <2>1
    <3>5. old[i].offset + old[i].len <= base + (n + 1) * len
      <4> DEFINE x == n * len
                 y == (n + 1) * len
      <4>1. x \in Int /\ y = x + len /\ old[i].offset + old[i].len <= base + x
        BY <2>4, <3>3
      <4> HIDE DEF x, y
      <4>2. old[i].offset + old[i].len <= base + y
        BY <2>6, <4>1
      <4> QED
        BY <4>2 DEF y
    <3> QED
      BY <3>1, <3>2, <3>5
  <2>8. CASE ~(n \in good /\ Len(old) < desired_buckets)
    <3> HIDE DEF new
    <3> QED
      BY <2>1, <2>3, <2>7, <2>8
  <2>9. CASE n \in good /\ Len(old) < desired_buckets
    <3> DEFINE l == Append(old, new)
    <3>1. /\ l \in Seq(Areas) /\ Len(l) = Len(old) + 1 /\ l[Len(old) + 1] = new
          /\ \A i \in 1 .. Len(old) : l[i] = old[i]
      <4> HIDE DEF new
      <4> QED
        BY <2>1, <2>5
    <3>0. Len(old) \in Nat
      BY <2>1
    <3>2. Len(l) <= desired_buckets
      BY <2>9, <3>0, <3>1 DEF desired_buckets
    <3>3. ASSUME NEW i \in 1 .. Len(l)
          PROVE  /\ \E k \in 0 .. (n + 1) - 1 : k \in good /\ l[i] = Area(base + k * len, len)
                 /\ l[i].offset + l[i].len <= base + (n + 1) * len
      <4>1. CASE i \in 1 .. Len(old)
        <5> HIDE DEF l
        <5> QED
          BY <2>7, <3>1, <4>1
      <4>2. CASE i = Len(old) + 1
        <5>1. l[i] = new
          BY <3>1, <4>2
        <5>2. n \in 0 .. (n + 1) - 1
          OBVIOUS
        <5>3. new.offset + new.len <= base + (n + 1) * len
          <6> HIDE DEF new
          <6> QED
            BY <2>4, <2>5
        <5> HIDE DEF l
        <5> QED
          BY <2>9, <5>1, <5>2, <5>3
      <4>3. i \in 1 .. Len(old) \/ i = Len(old) + 1
        BY <3>0, <3>1
      <4> QED
        BY <4>1, <4>2, <4>3
    <3>4. ASSUME NEW i \in 1 .. Len(l), NEW j \in 1 .. Len(l), i < j
          PROVE  l[i].offset + l[i].len <= l[j].offset
      <4>1. i \in 1 .. Len(old) /\ l[i] = old[i]
        BY <3>0, <3>1, <3>4
      <4>2. CASE j \in 1 .. Len(old)
        <5> HIDE DEF l
        <5> QED
          BY <2>1, <3>1, <3>4, <4>1, <4>2
      <4>3. CASE j = Len(old) + 1
        <5>1. l[j] = new /\ old[i].offset + old[i].len <= base + n * len
          BY <2>1, <3>1, <4>1, <4>3
        <5> HIDE DEF l, new
        <5> QED
          BY <2>5, <4>1, <5>1
      <4>4. j \in 1 .. Len(old) \/ j = Len(old) + 1
        BY <3>0, <3>1
      <4> QED
        BY <4>2, <4>3, <4>4
    <3>5. Upto[n + 1] = l
      BY <2>3, <2>9
    <3> HIDE DEF l, new
    <3> QED
      BY <3>1, <3>2, <3>3, <3>4, <3>5
  <2> QED
    BY <2>8, <2>9
<1>10. count \in T
  <2> HIDE DEF T
  <2> QED
    BY <1>8, <1>9, NatSetInduction
<1>11. Fine(Upto[count], count)
  BY <1>10
<1> DEFINE list == BucketLoop(count, good, base, len)
<1>12. Fine(list, count) /\ DOMAIN list = 1 .. Len(list)
  BY <1>7, <1>11
<1> HIDE DEF list
<1>13. /\ list \in Seq(Areas) /\ Len(list) <= desired_buckets
       /\ \A i \in DOMAIN list :
             \E k \in 0 .. count - 1 : k \in good /\ list[i] = Area(base + k * len, len)
       /\ \A i, j \in DOMAIN list : i < j =>
             list[i].offset + list[i].len <= list[j].offset
  BY <1>12
<1> QED
  BY <1>13 DEF list

-----------------------------------------------------------------------------
(* What udev answers *)

LEMMA CdevConstants ==
    CellMod \in Nat /\ CellMod > 0 /\ Sector \in Nat /\ Strides \subseteq Nat
BY CdevAssumption

\* Three strides fit into 32 bits.
StridesFit == \A stride \in Strides : desired_buckets * stride < CellMod

LEMMA ListFacts ==
    ASSUME NEW s, IsList(s)
    PROVE  /\ s \in Seq(Range(s)) /\ Len(s) \in Nat \ {0} /\ DOMAIN s = 1 .. Len(s)
           /\ \A k \in 1 .. Len(s) : s[k] \in Range(s)
BY DEF IsList

LEMMA MachineFacts ==
    ASSUME NEW m \in Machines
    PROVE  /\ Len(m.disks) \in Nat \ {0} /\ DOMAIN m.disks = 1 .. Len(m.disks)
           /\ Len(m.mtd) \in Nat \ {0} /\ DOMAIN m.mtd = 1 .. Len(m.mtd)
           /\ m.eeprom # NONE /\ m.eeprom.devtype = "eeprom"
           /\ \A k \in 1 .. Len(m.mtd) :
                 /\ m.mtd[k] # NONE /\ m.mtd[k].devtype = "mtd" /\ m.mtd[k].size \in Nat
                 /\ m.mtd[k].erasesize \in Nat \ {0}
                 /\ m.mtd[k].size % m.mtd[k].erasesize = 0
<1>1. IsMachine(m)
  BY CdevAssumption
<1>2. IsList(m.disks) /\ IsList(m.mtd)
  BY <1>1 DEF IsMachine
<1>3. \A k \in DOMAIN m.mtd :
         /\ m.mtd[k] # NONE /\ m.mtd[k].devtype = "mtd" /\ m.mtd[k].size \in Nat
         /\ m.mtd[k].erasesize \in Nat \ {0}
         /\ m.mtd[k].size % m.mtd[k].erasesize = 0
  BY <1>1 DEF IsMachine
<1>4. m.eeprom # NONE /\ m.eeprom.devtype = "eeprom"
  BY <1>1 DEF IsMachine
<1> QED
  BY <1>2, <1>3, <1>4, ListFacts

LEMMA DiskFacts ==
    ASSUME NEW m \in Machines, NEW k \in 1 .. Len(m.disks)
    PROVE  LET l == m.disks[k] IN
           /\ IsList(l) /\ Len(l) \in Nat \ {0} /\ DOMAIN l = 1 .. Len(l)
           /\ \A j \in 1 .. Len(l) :
                 /\ l[j] # NONE /\ l[j].devtype = IF j = 1 THEN "disk" ELSE "partition"
                 /\ l[j].medium = l[1].medium
                 /\ l[j].start \in Nat /\ l[j].size \in Nat
<1>1. k \in DOMAIN m.disks /\ IsMachine(m)
  BY CdevAssumption, MachineFacts
<1> DEFINE l == m.disks[k]
<1>2. /\ IsList(l)
      /\ \A j \in DOMAIN l :
            /\ l[j] # NONE /\ l[j].devtype = IF j = 1 THEN "disk" ELSE "partition"
            /\ l[j].medium = l[1].medium
            /\ l[j].start \in Nat /\ l[j].size \in Nat
  BY <1>1 DEF IsMachine
<1> HIDE DEF l
<1>3. /\ IsList(l) /\ Len(l) \in Nat \ {0} /\ DOMAIN l = 1 .. Len(l)
      /\ \A j \in 1 .. Len(l) :
            /\ l[j] # NONE /\ l[j].devtype = IF j = 1 THEN "disk" ELSE "partition"
            /\ l[j].medium = l[1].medium
            /\ l[j].start \in Nat /\ l[j].size \in Nat
  BY <1>2, ListFacts
<1> QED
  BY <1>3 DEF l

\* The disks of a machine and their partitions.
Blocks(m) ==
    UNION {{m.disks[k][j] : j \in 1 .. Len(m.disks[k])} : k \in 1 .. Len(m.disks)}

LEMMA BlockFacts ==
    ASSUME NEW m \in Machines, NEW d \in Blocks(m)
    PROVE  /\ d # NONE /\ d.devtype \in {"disk", "partition"}
           /\ d.start \in Nat /\ d.size \in Nat
           /\ \E k \in 1 .. Len(m.disks) : \E j \in 1 .. Len(m.disks[k]) :
                 d = m.disks[k][j] /\ (d.devtype = "disk" => j = 1)
<1>1. PICK k \in 1 .. Len(m.disks) : d \in {m.disks[k][j] : j \in 1 .. Len(m.disks[k])}
  BY DEF Blocks
<1> DEFINE l == m.disks[k]
<1>2. PICK j \in 1 .. Len(l) : d = l[j]
  BY <1>1
<1>3. /\ l[j] # NONE /\ l[j].devtype = IF j = 1 THEN "disk" ELSE "partition"
      /\ l[j].start \in Nat /\ l[j].size \in Nat
  BY DiskFacts
<1>4. d.devtype = "disk" => j = 1
  BY <1>2, <1>3
<1>5. d # NONE /\ d.devtype \in {"disk", "partition"} /\ d.start \in Nat /\ d.size \in Nat
  BY <1>2, <1>3
<1> QED
  BY <1>2, <1>4, <1>5

\* The index that SelectInSeq finds.
LEMMA FirstIndex ==
    ASSUME NEW n \in Nat, NEW I, I \subseteq 1 .. n
    PROVE  LET k == IF I # {} THEN Min(I) ELSE 0 IN
           /\ I = {} => k = 0
           /\ I # {} => k \in I /\ k # 0 /\ \A i \in I : k <= i
<1>1. CASE I = {}
  BY <1>1
<1>2. CASE I # {}
  <2>1. Min(I) \in I /\ \A i \in I : Min(I) <= i
    <3>1. I \subseteq Nat
      OBVIOUS
    <3> QED
      BY <1>2, <3>1, MinFacts
  <2> DEFINE k == Min(I)
  <2>2. (IF I # {} THEN Min(I) ELSE 0) = k
    BY <1>2
  <2> HIDE DEF k
  <2>3. k \in I /\ k # 0 /\ \A i \in I : k <= i
    BY <2>1 DEF k
  <2> QED
    BY <1>2, <2>2, <2>3
<1> QED
  BY <1>1, <1>2

LEMMA AllBlockFacts ==
    ASSUME NEW m \in Machines
    PROVE  AllBlock(m) \in Seq(Blocks(m))
<1> DEFINE n == Len(m.disks)
           S == Seq(Blocks(m))
           F == [x \in S \X (1 .. n) |-> x[1] \o m.disks[x[2]]]
<1>1. n \in Nat
  BY MachineFacts
<1>2. ASSUME NEW k \in 1 .. n PROVE m.disks[k] \in S
  <2> DEFINE l == m.disks[k]
  <2>1. IsList(l)
    BY DiskFacts
  <2>2. \A j \in 1 .. Len(l) : l[j] \in Blocks(m)
    BY DEF Blocks
  <2> HIDE DEF l
  <2>3. l \in Seq(Range(l)) /\ Len(l) \in Nat /\ DOMAIN l = 1 .. Len(l)
    BY <2>1, ListFacts
  <2>4. l \in Seq(Blocks(m))
    BY <2>2, <2>3
  <2> QED
    BY <2>4 DEF l
<1> HIDE DEF n
<1>3. F \in [S \X (1 .. n) -> S]
  <2>1. ASSUME NEW x \in S \X (1 .. n) PROVE x[1] \o m.disks[x[2]] \in S
    <3>1. x[1] \in S /\ m.disks[x[2]] \in S
      BY <1>2
    <3> QED
      BY <3>1
  <2> HIDE DEF S
  <2> QED
    BY <2>1
<1>4. ASSUME NEW v \in S, NEW k \in 1 .. n PROVE F[<<v, k>>] = v \o m.disks[k]
  <2> HIDE DEF S
  <2> QED
    OBVIOUS
<1> DEFINE b == <<>>
<1>5. b \in S
  OBVIOUS
<1> HIDE DEF S, F, b
<1>6. PICK f : Recursive(f, n, S, b, F)
  BY <1>1, <1>3, <1>5, RecursionExists
<1>7. f \in [0 .. n -> S]
  BY <1>6 DEF Recursive
<1>8. ASSUME NEW k \in 0 .. n
      PROVE  f[k] = IF k = 0 THEN <<>> ELSE f[k - 1] \o m.disks[k]
  <2>1. CASE k = 0
    BY <1>6, <2>1 DEF Recursive, b
  <2>2. CASE k # 0
    <3>1. k \in 1 .. n /\ k - 1 \in 0 .. n
      BY <1>1, <2>2
    <3>2. f[k] = F[<<f[k - 1], k>>] /\ f[k - 1] \in S
      BY <1>6, <1>7, <3>1 DEF Recursive
    <3> QED
      BY <1>4, <2>2, <3>1, <3>2
  <2> QED
    BY <2>1, <2>2
<1>9. f = [k \in 0 .. n |-> IF k = 0 THEN <<>> ELSE f[k - 1] \o m.disks[k]]
  <2>1. f = [k \in 0 .. n |-> f[k]]
    BY <1>7
  <2> QED
    BY <1>8, <2>1
<1> DEFINE Upto == CHOOSE g : g = [k \in 0 .. n |->
                                     IF k = 0 THEN <<>> ELSE g[k - 1] \o m.disks[k]]
<1>10. Upto = [k \in 0 .. n |-> IF k = 0 THEN <<>> ELSE Upto[k - 1] \o m.disks[k]]
  BY <1>9
<1>11. AllBlock(m) = Upto[n]
  BY DEF AllBlock, n
<1> HIDE DEF Upto
<1> DEFINE T == {k \in Nat : k <= n => Upto[k] \in S}
<1>12. 0 \in T
  <2>1. Upto[0] = <<>>
    BY <1>1, <1>10
  <2> QED
    BY <1>5, <2>1 DEF b
<1>13. ASSUME NEW k \in Nat, k \in T PROVE k + 1 \in T
  <2> SUFFICES ASSUME k + 1 <= n PROVE Upto[k + 1] \in S
    OBVIOUS
  <2>1. Upto[k] \in S
    BY <1>1, <1>13
  <2>2. k + 1 \in 0 .. n /\ k + 1 # 0 /\ (k + 1) - 1 = k /\ k + 1 \in 1 .. n
    BY <1>1
  <2>3. Upto[k + 1] = Upto[k] \o m.disks[k + 1]
    BY <1>10, <2>2
  <2>4. m.disks[k + 1] \in S
    BY <1>2, <2>2
  <2> QED
    BY <2>1, <2>3, <2>4 DEF S
<1>14. n \in T
  <2> HIDE DEF T
  <2> QED
    BY <1>1, <1>12, <1>13, NatSetInduction
<1> QED
  BY <1>1, <1>11, <1>14 DEF S

LEMMA ReadNumberFacts ==
    ASSUME NEW cells, NEW ofs, NEW size \in Nat,
           \A k \in 1 .. size : cells[ofs + k] \in Nat
    PROVE  ReadNumber(cells, ofs, size) \in Nat
<1> DEFINE F == [x \in Nat \X (1 .. size) |-> x[1] * CellMod + cells[ofs + x[2]]]
<1>1. ASSUME NEW v \in Nat, NEW k \in 1 .. size
      PROVE  v * CellMod + cells[ofs + k] \in Nat
  <2>1. cells[ofs + k] \in Nat /\ v * CellMod \in Nat
    BY CdevConstants
  <2> QED
    BY <2>1
<1>2. F \in [Nat \X (1 .. size) -> Nat]
  BY <1>1
<1>3. ASSUME NEW v \in Nat, NEW k \in 1 .. size
      PROVE  F[<<v, k>>] = v * CellMod + cells[ofs + k]
  OBVIOUS
<1> HIDE DEF F
<1>4. PICK f : Recursive(f, size, Nat, 0, F)
  BY <1>2, RecursionExists
<1>5. f \in [0 .. size -> Nat]
  BY <1>4 DEF Recursive
<1>6. ASSUME NEW k \in 0 .. size
      PROVE  f[k] = IF k = 0 THEN 0 ELSE f[k - 1] * CellMod + cells[ofs + k]
  <2>1. CASE k = 0
    BY <1>4, <2>1 DEF Recursive
  <2>2. CASE k # 0
    <3>1. k \in 1 .. size /\ k - 1 \in 0 .. size
      BY <2>2
    <3>2. f[k] = F[<<f[k - 1], k>>] /\ f[k - 1] \in Nat
      BY <1>4, <1>5, <3>1 DEF Recursive
    <3> QED
      BY <1>3, <2>2, <3>1, <3>2
  <2> QED
    BY <2>1, <2>2
<1>7. f = [k \in 0 .. size |-> IF k = 0 THEN 0 ELSE f[k - 1] * CellMod + cells[ofs + k]]
  <2>1. f = [k \in 0 .. size |-> f[k]]
    BY <1>5
  <2> QED
    BY <1>6, <2>1
<1> DEFINE Num == CHOOSE g : g = [k \in 0 .. size |->
                     IF k = 0 THEN 0 ELSE g[k - 1] * CellMod + cells[ofs + k]]
<1>8. Num = [k \in 0 .. size |-> IF k = 0 THEN 0 ELSE Num[k - 1] * CellMod + cells[ofs + k]]
  BY <1>7
<1>9. ReadNumber(cells, ofs, size) = Num[size]
  BY DEF ReadNumber
<1> HIDE DEF Num
<1> DEFINE T == {k \in Nat : k <= size => Num[k] \in Nat}
<1>10. 0 \in T
  BY <1>8
<1>11. ASSUME NEW k \in Nat, k \in T PROVE k + 1 \in T
  <2> SUFFICES ASSUME k + 1 <= size PROVE Num[k + 1] \in Nat
    OBVIOUS
  <2>1. Num[k] \in Nat
    BY <1>11
  <2>2. k + 1 \in 0 .. size /\ k + 1 # 0 /\ (k + 1) - 1 = k /\ k + 1 \in 1 .. size
    OBVIOUS
  <2>3. Num[k + 1] = Num[k] * CellMod + cells[ofs + (k + 1)]
    BY <1>8, <2>2
  <2> QED
    BY <1>1, <2>1, <2>2, <2>3
<1>12. size \in T
  <2> HIDE DEF T
  <2> QED
    BY <1>10, <1>11, NatSetInduction
<1> QED
  BY <1>9, <1>12

LEMMA PartitionNumbers ==
    ASSUME NEW n \in Nodes, n.reg # NONE
    PROVE  of_parse_partition(n)[1] \in Nat /\ of_parse_partition(n)[2] \in Nat
<1>1. IsBackend(n)
  BY CdevAssumption
<1> DEFINE a == n.reg.a_cells
           s == n.reg.s_cells
<1>2. /\ a \in Nat /\ s \in Nat
      /\ \A k \in 1 .. a + s : n.reg.cells[k] \in 0 .. CellMod - 1
  BY <1>1 DEF IsBackend
<1>3. \A k \in 1 .. a : 0 + k = k /\ n.reg.cells[0 + k] \in Nat
  <2> HIDE DEF a, s
  <2> QED
    BY <1>2, CdevConstants
<1>4. \A k \in 1 .. s : a + k \in 1 .. a + s /\ n.reg.cells[a + k] \in Nat
  <2> HIDE DEF a, s
  <2> QED
    BY <1>2, CdevConstants
<1>5. ReadNumber(n.reg.cells, 0, a) \in Nat /\ ReadNumber(n.reg.cells, a, s) \in Nat
  <2> HIDE DEF a, s
  <2> QED
    BY <1>2, <1>3, <1>4, ReadNumberFacts
<1> QED
  BY <1>5 DEF of_parse_partition

-----------------------------------------------------------------------------
(* Lookups *)

LEMMA FindByUuid ==
    ASSUME NEW m \in Machines, NEW uuid
    PROVE  LET r == of_find_device_by_uuid(m, uuid)
               all == AllBlock(m)
           IN  \/ \E k \in 1 .. Len(all) : all[k].uuid = uuid /\ r = all[k]
               \/ r = NONE /\ \A k \in 1 .. Len(all) : all[k].uuid # uuid
<1> DEFINE all == AllBlock(m)
           I == {i \in 1 .. Len(all) : all[i].uuid = uuid}
           k == IF I # {} THEN Min(I) ELSE 0
<1>1. of_find_device_by_uuid(m, uuid) = IF k = 0 THEN NONE ELSE all[k]
  BY DEF of_find_device_by_uuid, FirstOf, SelectInSeq
<1>2. Len(all) \in Nat
  BY AllBlockFacts
<1>3. (I = {} => k = 0) /\ (I # {} => k \in I /\ k # 0)
  <2>1. I \subseteq 1 .. Len(all)
    OBVIOUS
  <2> HIDE DEF I
  <2> QED
    BY <1>2, <2>1, FirstIndex
<1> HIDE DEF k, all
<1> QED
  BY <1>1, <1>3 DEF all

LEMMA FindByLabel ==
    ASSUME NEW m \in Machines, NEW name
    PROVE  LET r == device_find_mtd_partition(m, name) IN
           \/ \E k \in 1 .. Len(m.mtd) : m.mtd[k].label = name /\ r = m.mtd[k]
           \/ r = NONE /\ \A k \in 1 .. Len(m.mtd) : m.mtd[k].label # name
<1> DEFINE all == m.mtd
           I == {i \in 1 .. Len(all) : all[i].label = name}
           k == IF I # {} THEN Min(I) ELSE 0
<1>1. device_find_mtd_partition(m, name) = IF k = 0 THEN NONE ELSE all[k]
  BY DEF device_find_mtd_partition, FirstOf, SelectInSeq
<1>2. Len(all) \in Nat
  BY MachineFacts
<1>3. (I = {} => k = 0) /\ (I # {} => k \in I /\ k # 0)
  <2>1. I \subseteq 1 .. Len(all)
    OBVIOUS
  <2> HIDE DEF I
  <2> QED
    BY <1>2, <2>1, FirstIndex
<1> HIDE DEF k, all
<1> QED
  BY <1>1, <1>3 DEF all

LEMMA FindByGuid ==
    ASSUME NEW list, Len(list) \in Nat, NEW guid
    PROVE  LET r == FindTypeUuid(list, guid) IN
           \/ \E k \in 1 .. Len(list) : list[k].guid = guid /\ r = list[k]
           \/ r = NONE /\ \A k \in 1 .. Len(list) : list[k].guid # guid
<1> DEFINE I == {i \in 1 .. Len(list) : list[i].guid = guid}
           k == IF I # {} THEN Min(I) ELSE 0
<1>1. FindTypeUuid(list, guid) = IF k = 0 THEN NONE ELSE list[k]
  BY DEF FindTypeUuid, FirstOf, SelectInSeq
<1>3. (I = {} => k = 0) /\ (I # {} => k \in I /\ k # 0)
  <2>1. I \subseteq 1 .. Len(list)
    OBVIOUS
  <2> HIDE DEF I
  <2> QED
    BY <2>1, FirstIndex
<1> HIDE DEF k
<1> QED
  BY <1>1, <1>3

\* Below a disk are the disk and its partitions, below anything else is only
\* that.
LEMMA BelowFacts ==
    ASSUME NEW m \in Machines, NEW d
    PROVE  LET l == Below(m, d) IN
           /\ d.devtype # "disk" => l = <<d>>
           /\ d \in Blocks(m) /\ d.devtype = "disk" =>
                 \E k \in 1 .. Len(m.disks) : l = m.disks[k] /\ l[1] = d
           /\ d = m.disks[1][1] => l = m.disks[1]
<1> DEFINE all == m.disks
           I == {i \in 1 .. Len(all) : all[i][1] = d}
           k == IF I # {} THEN Min(I) ELSE 0
<1>1. CASE d.devtype # "disk"
  <2>1. 1 \in 1 .. Len(m.disks)
    BY MachineFacts
  <2>2. 1 \in 1 .. Len(m.disks[1]) /\ m.disks[1][1].devtype = "disk"
    BY <2>1, DiskFacts
  <2> QED
    BY <1>1, <2>2 DEF Below
<1>2. CASE d.devtype = "disk"
  <2>1. Below(m, d) = IF k = 0 THEN NONE ELSE all[k]
    BY <1>2 DEF Below, FirstOf, SelectInSeq
  <2>2. Len(all) \in Nat /\ 1 \in 1 .. Len(all)
    BY MachineFacts
  <2>3. (I = {} => k = 0) /\ (I # {} => k \in I /\ k # 0 /\ \A i \in I : k <= i)
    <3>1. I \subseteq 1 .. Len(all)
      OBVIOUS
    <3> HIDE DEF I
    <3> QED
      BY <2>2, <3>1, FirstIndex
  <2>4. ASSUME d \in Blocks(m)
        PROVE  \E j \in 1 .. Len(m.disks) : Below(m, d) = m.disks[j] /\ Below(m, d)[1] = d
    <3>1. PICK i \in 1 .. Len(m.disks) : m.disks[i][1] = d
      BY <1>2, <2>4, BlockFacts
    <3>2. I # {}
      BY <3>1
    <3> HIDE DEF k
    <3> QED
      BY <2>1, <2>3, <3>2
  <2>5. ASSUME d = m.disks[1][1] PROVE Below(m, d) = m.disks[1]
    <3>1. 1 \in I
      BY <2>2, <2>5
    <3>2. k \in 1 .. Len(all) /\ k <= 1 /\ k # 0
      <4> HIDE DEF k
      <4> QED
        BY <2>3, <3>1
    <3>3. k = 1
      <4> HIDE DEF k
      <4> QED
        BY <2>2, <3>2
    <3> HIDE DEF k
    <3> QED
      BY <2>1, <3>3
  <2> QED
    BY <1>2, <2>4, <2>5
<1> QED
  BY <1>1, <1>2

\* c denotes the bytes from o on of the device d.
CdevIs(c, d, o, s) ==
    c = [dev |-> d, offset |-> o, size |-> s, is_gpt |-> c.is_gpt, is_block_disk |-> FALSE]

\* d is a partition that holds all of the region.
Holds(d, o, s) ==
    /\ d.devtype = "partition" /\ s # 0
    /\ d.start * Sector <= o /\ o + s <= (d.start + d.size) * Sector

\* cdev_from_block_device finds a partition that holds the region, or the disk.
LEMMA FromBlock ==
    ASSUME NEW m, NEW d, NEW o, NEW s, NEW l, l = Below(m, d), Len(l) \in Nat
    PROVE  LET c == cdev_from_block_device(m, d, o, s) IN
           \/ \E k \in 1 .. Len(l) :
                 Holds(l[k], o, s) /\ CdevIs(c, l[k], o - l[k].start * Sector, s)
           \/ \E k \in 1 .. Len(l) :
                 l[k].devtype = "disk" /\ CdevIs(c, l[k], o, s) /\ c.is_gpt = l[k].gpt
           \/ /\ c = NONE
              /\ (\A k \in 1 .. Len(l) : l[k] # NONE) =>
                    \A k \in 1 .. Len(l) : l[k].devtype # "disk"
<1> DEFINE Inside(e) == /\ e.devtype = "partition"
                      /\ region_contains(e.start * Sector, (e.start + e.size) * Sector,
                                         o, o + s)
           P == {i \in 1 .. Len(l) : Inside(l[i])}
           p == IF P # {} THEN Min(P) ELSE 0
           D == {i \in 1 .. Len(l) : l[i].devtype = "disk"}
           q == IF D # {} THEN Min(D) ELSE 0
           part == IF s = 0 THEN NONE ELSE IF p = 0 THEN NONE ELSE l[p]
           whole == IF q = 0 THEN NONE ELSE l[q]
           c == cdev_from_block_device(m, d, o, s)
<1>1. c = IF part # NONE
          THEN [Cdev(part, o - part.start * Sector, s) EXCEPT !.is_gpt = part.gpt]
          ELSE IF whole # NONE THEN [Cdev(whole, o, s) EXCEPT !.is_gpt = whole.gpt]
          ELSE NONE
  BY DEF cdev_from_block_device, FirstOf, SelectInSeq
<1> HIDE DEF c
<1>2. (P = {} => p = 0) /\ (P # {} => p \in P /\ p # 0)
  <2>1. P \subseteq 1 .. Len(l)
    OBVIOUS
  <2> HIDE DEF P
  <2> QED
    BY <2>1, FirstIndex
<1>3. (D = {} => q = 0) /\ (D # {} => q \in D /\ q # 0)
  <2>1. D \subseteq 1 .. Len(l)
    OBVIOUS
  <2> HIDE DEF D
  <2> QED
    BY <2>1, FirstIndex
<1> HIDE DEF p, q
<1>4. CASE part # NONE
  <2>1. s # 0 /\ p # 0 /\ part = l[p]
    BY <1>4
  <2>2. p \in 1 .. Len(l) /\ Inside(l[p])
    BY <1>2, <2>1
  <2>3. Holds(l[p], o, s)
    BY <2>1, <2>2 DEF Holds, region_contains
  <2>4. c = [Cdev(l[p], o - l[p].start * Sector, s) EXCEPT !.is_gpt = l[p].gpt]
    BY <1>1, <1>4, <2>1
  <2>5. CdevIs(c, l[p], o - l[p].start * Sector, s)
    BY <2>4 DEF CdevIs, Cdev
  <2> QED
    BY <2>2, <2>3, <2>5 DEF c
<1>5. CASE part = NONE /\ whole # NONE
  <2>1. q # 0 /\ whole = l[q]
    BY <1>5
  <2>2. q \in 1 .. Len(l) /\ l[q].devtype = "disk"
    BY <1>3, <2>1
  <2>3. c = [Cdev(l[q], o, s) EXCEPT !.is_gpt = l[q].gpt]
    BY <1>1, <1>5, <2>1
  <2>4. CdevIs(c, l[q], o, s) /\ c.is_gpt = l[q].gpt
    BY <2>3 DEF CdevIs, Cdev
  <2> QED
    BY <2>2, <2>4 DEF c
<1>6. CASE part = NONE /\ whole = NONE
  <2>1. c = NONE
    BY <1>1, <1>6
  <2>2. ASSUME \A k \in 1 .. Len(l) : l[k] # NONE
        PROVE  \A k \in 1 .. Len(l) : l[k].devtype # "disk"
    <3>1. D = {}
      BY <1>3, <1>6, <2>2
    <3> QED
      BY <3>1
  <2> QED
    BY <2>1, <2>2 DEF c
<1> QED
  BY <1>4, <1>5, <1>6

\* What a lookup can find.
Found(m, c) ==
    \/ \E k \in 1 .. Len(m.mtd) : CdevIs(c, m.mtd[k], 0, m.mtd[k].size)
    \/ \E o \in Int, s \in Nat :
         \/ CdevIs(c, m.eeprom, o, s)
         \/ \E d \in Blocks(m) : CdevIs(c, d, o, s)

LEMMA DirectFacts ==
    ASSUME NEW m \in Machines, NEW n \in Nodes, n.direct # NONE
    PROVE  LET c == of_cdev_find(m, n)
               d == m.disks[1][1]
           IN  /\ n.direct = "mtd" => CdevIs(c, m.mtd[1], 0, m.mtd[1].size)
               /\ n.direct = "eeprom" => CdevIs(c, m.eeprom, 0, 0)
               /\ n.direct = "odd" => c = NONE
               /\ n.direct = "disk" =>
                     c = NONE \/ (c.is_block_disk /\ c.dev = d /\ c.is_gpt = d.gpt)
<1> DEFINE c == of_cdev_find(m, n)
<1>1. c = DirectDevice(m, n)
  BY DEF of_cdev_find
<1>2. 1 \in 1 .. Len(m.mtd) /\ 1 \in 1 .. Len(m.disks)
  BY MachineFacts
<1>3. m.mtd[1].devtype = "mtd" /\ m.eeprom.devtype = "eeprom"
  BY <1>2, MachineFacts
<1>4. CASE n.direct = "mtd"
  <2>1. c = Cdev(m.mtd[1], 0, m.mtd[1].size)
    BY <1>1, <1>3, <1>4
       DEF DirectDevice, of_find_device_by_node, udev_device_is_eeprom, udev_device_is_mtd,
           udev_parse_mtd
  <2> QED
    BY <1>4, <2>1 DEF CdevIs, Cdev
<1>5. CASE n.direct = "eeprom"
  <2>1. c = Cdev(m.eeprom, 0, 0)
    BY <1>1, <1>3, <1>5
       DEF DirectDevice, of_find_device_by_node, udev_device_is_eeprom, udev_parse_eeprom
  <2> QED
    BY <1>5, <2>1 DEF CdevIs, Cdev
<1>6. CASE n.direct = "odd"
  <2> DEFINE d == [devtype |-> "odd"]
             e == cdev_from_block_device(m, d, 0, 0)
             l == <<d>>
  <2>1. c = IF e # NONE THEN [e EXCEPT !.is_block_disk = TRUE] ELSE NONE
    BY <1>1, <1>6
       DEF DirectDevice, of_find_device_by_node, udev_device_is_eeprom, udev_device_is_mtd
  <2>2. Below(m, d) = l /\ Len(l) = 1 /\ l[1].devtype = "odd"
    BY DEF Below
  <2>3. \A k \in 1 .. Len(l) : l[k].devtype = "odd"
    BY <2>2
  <2>4. e = NONE
    <3> HIDE DEF l
    <3>1. l = Below(m, d) /\ Len(l) \in Nat
      BY <2>2
    <3> HIDE DEF d, e
    <3> QED
      BY <2>3, <3>1, FromBlock DEF Holds, e
  <2> QED
    BY <1>6, <2>1, <2>4
<1>7. CASE n.direct = "disk"
  <2> DEFINE d == m.disks[1][1]
             e == cdev_from_block_device(m, d, 0, 0)
             l == m.disks[1]
  <2>1. /\ Len(l) \in Nat /\ 1 \in 1 .. Len(l)
        /\ \A k \in 1 .. Len(l) : l[k].devtype = IF k = 1 THEN "disk" ELSE "partition"
    BY <1>2, DiskFacts
  <2>2. d.devtype = "disk"
    BY <2>1
  <2>3. c = IF e # NONE THEN [e EXCEPT !.is_block_disk = TRUE] ELSE NONE
    BY <1>1, <1>7, <2>2
       DEF DirectDevice, of_find_device_by_node, udev_device_is_eeprom, udev_device_is_mtd
  <2>4. Below(m, d) = l
    BY BelowFacts
  <2>5. e = NONE \/ (CdevIs(e, d, 0, 0) /\ e.is_gpt = d.gpt)
    <3> HIDE DEF l, d, e
    <3>1. \A k \in 1 .. Len(l) : l[k].devtype = "disk" => l[k] = d
      BY <2>1 DEF l, d
    <3>2. \/ \E k \in 1 .. Len(l) :
                Holds(l[k], 0, 0) /\ CdevIs(e, l[k], 0 - l[k].start * Sector, 0)
          \/ \E k \in 1 .. Len(l) :
                l[k].devtype = "disk" /\ CdevIs(e, l[k], 0, 0) /\ e.is_gpt = l[k].gpt
          \/ e = NONE
      <4>1. l = Below(m, d) /\ Len(l) \in Nat
        BY <2>1, <2>4
      <4> QED
        BY <4>1, FromBlock DEF e
    <3>3. \A k \in 1 .. Len(l) : ~Holds(l[k], 0, 0)
      BY DEF Holds
    <3>4. ASSUME NEW k \in 1 .. Len(l), l[k].devtype = "disk", CdevIs(e, l[k], 0, 0),
                 e.is_gpt = l[k].gpt
          PROVE  CdevIs(e, d, 0, 0) /\ e.is_gpt = d.gpt
      <4>1. l[k] = d
        BY <3>1, <3>4
      <4> QED
        BY <3>4, <4>1
    <3> QED
      BY <3>2, <3>3, <3>4
  <2>6. c = NONE \/ (c.is_block_disk /\ c.dev = d /\ c.is_gpt = d.gpt)
    <3> HIDE DEF d, e, c
    <3> QED
      BY <2>3, <2>5 DEF CdevIs
  <2> QED
    BY <1>7, <2>6
<1> QED
  BY <1>4, <1>5, <1>6, <1>7

LEMMA PartuuidFacts ==
    ASSUME NEW m \in Machines, NEW n \in Nodes, n.direct = NONE, n.partuuid # NONE
    PROVE  LET c == of_cdev_find(m, n)
               all == AllBlock(m)
           IN  \/ \E k \in 1 .. Len(all) :
                     all[k].uuid = n.partuuid /\ CdevIs(c, all[k], 0, all[k].size * Sector)
               \/ c = NONE /\ \A k \in 1 .. Len(all) : all[k].uuid # n.partuuid
<1> DEFINE c == of_cdev_find(m, n)
           all == AllBlock(m)
           d == of_find_device_by_uuid(m, n.partuuid)
<1>1. c = IF d = NONE THEN NONE ELSE Cdev(d, 0, d.size * Sector)
  BY DEF of_cdev_find, ByPartuuid
<1>2. \/ \E k \in 1 .. Len(all) : all[k].uuid = n.partuuid /\ d = all[k]
      \/ d = NONE /\ \A k \in 1 .. Len(all) : all[k].uuid # n.partuuid
  BY FindByUuid
<1>3. \A k \in 1 .. Len(all) : all[k] # NONE
  <2>1. \A k \in 1 .. Len(all) : all[k] \in Blocks(m)
    BY AllBlockFacts
  <2> HIDE DEF all
  <2> QED
    BY <2>1, BlockFacts
<1> HIDE DEF all, d, c
<1>4. ASSUME NEW k \in 1 .. Len(all), all[k].uuid = n.partuuid, d = all[k]
      PROVE  CdevIs(c, all[k], 0, all[k].size * Sector)
  <2>1. c = Cdev(d, 0, d.size * Sector)
    BY <1>1, <1>3, <1>4
  <2> QED
    BY <1>4, <2>1 DEF CdevIs, Cdev
<1>5. \/ \E k \in 1 .. Len(all) :
             all[k].uuid = n.partuuid /\ CdevIs(c, all[k], 0, all[k].size * Sector)
      \/ c = NONE /\ \A k \in 1 .. Len(all) : all[k].uuid # n.partuuid
  BY <1>1, <1>2, <1>4
<1> QED
  BY <1>5 DEF all, c

LEMMA ParentFacts ==
    ASSUME NEW m \in Machines, NEW n \in Nodes
    PROVE  LET d == ParentDevice(m, n)
               mtd == n.storage_uuid = NONE /\ n.parent = "mtd"
           IN  \/ d = NONE /\ ~mtd
               \/ d = m.mtd[1] /\ mtd
               \/ d = m.eeprom /\ ~mtd
               \/ d = [devtype |-> "odd"] /\ n.parent = "odd" /\ ~mtd
               \/ d \in Blocks(m) /\ ~mtd
                  /\ (n.storage_uuid # NONE => d.uuid = n.storage_uuid)
                  /\ (n.storage_uuid = NONE => d = m.disks[1][1])
<1> DEFINE d == ParentDevice(m, n)
           all == AllBlock(m)
<1>1. CASE n.storage_uuid # NONE
  <2>1. d = of_find_device_by_uuid(m, n.storage_uuid)
    BY <1>1 DEF ParentDevice
  <2>2. \/ \E k \in 1 .. Len(all) : all[k].uuid = n.storage_uuid /\ d = all[k]
        \/ d = NONE
    BY <2>1, FindByUuid
  <2>3. \A k \in 1 .. Len(all) : all[k] \in Blocks(m)
    BY AllBlockFacts
  <2> HIDE DEF d, all
  <2>4. d = NONE \/ (d \in Blocks(m) /\ d.uuid = n.storage_uuid)
    BY <2>2, <2>3
  <2> QED
    BY <1>1, <2>4 DEF d
<1>2. CASE n.storage_uuid = NONE
  <2>1. d = of_find_device_by_node(m, n.parent)
    BY <1>2 DEF ParentDevice
  <2>2. n.parent \in {"disk", "mtd", "eeprom", "odd", NONE}
    BY CdevAssumption DEF IsBackend
  <2>3. 1 \in 1 .. Len(m.disks)
    BY MachineFacts
  <2>4. m.disks[1][1] \in Blocks(m)
    <3>1. 1 \in 1 .. Len(m.disks[1])
      BY <2>3, DiskFacts
    <3> QED
      BY <2>3, <3>1 DEF Blocks
  <2>5. CASE n.parent = "disk"
    BY <1>2, <2>1, <2>4, <2>5 DEF of_find_device_by_node
  <2>6. CASE n.parent = "mtd"
    BY <1>2, <2>1, <2>6 DEF of_find_device_by_node
  <2>7. CASE n.parent = "eeprom"
    BY <1>2, <2>1, <2>7 DEF of_find_device_by_node
  <2>8. CASE n.parent = "odd"
    BY <1>2, <2>1, <2>8 DEF of_find_device_by_node
  <2>9. CASE n.parent \notin {"disk", "mtd", "eeprom", "odd"}
    BY <1>2, <2>1, <2>9 DEF of_find_device_by_node
  <2> QED
    BY <2>5, <2>6, <2>7, <2>8, <2>9
<1> QED
  BY <1>1, <1>2

LEMMA MtdFacts ==
    ASSUME NEW m \in Machines, NEW n \in Nodes, n.direct = NONE, n.partuuid = NONE,
           ParentDevice(m, n) = m.mtd[1]
    PROVE  LET c == of_cdev_find(m, n) IN
           \/ \E k \in 1 .. Len(m.mtd) :
                 m.mtd[k].label = n.label /\ CdevIs(c, m.mtd[k], 0, m.mtd[k].size)
           \/ c = NONE /\ (n.label = NONE \/ \A k \in 1 .. Len(m.mtd) : m.mtd[k].label # n.label)
<1> DEFINE c == of_cdev_find(m, n)
           d == device_find_mtd_partition(m, n.label)
<1>0. 1 \in 1 .. Len(m.mtd)
  BY MachineFacts
<1>1. m.mtd[1] # NONE /\ m.mtd[1].devtype = "mtd"
  BY <1>0, MachineFacts
<1>2. c = IF n.label = NONE \/ d = NONE THEN NONE ELSE Cdev(d, 0, d.size)
  BY <1>1 DEF of_cdev_find, of_find_mtd_device, udev_device_is_mtd, MtdPartition, udev_parse_mtd
<1>3. \/ \E k \in 1 .. Len(m.mtd) : m.mtd[k].label = n.label /\ d = m.mtd[k]
      \/ d = NONE /\ \A k \in 1 .. Len(m.mtd) : m.mtd[k].label # n.label
  BY FindByLabel
<1> HIDE DEF c, d
<1>4. ASSUME NEW k \in 1 .. Len(m.mtd), m.mtd[k].label = n.label, d = m.mtd[k],
             n.label # NONE
      PROVE  CdevIs(c, m.mtd[k], 0, m.mtd[k].size)
  <2>1. d # NONE
    BY <1>4, MachineFacts
  <2>2. c = Cdev(d, 0, d.size)
    BY <1>2, <1>4, <2>1
  <2> QED
    BY <1>4, <2>2 DEF CdevIs, Cdev
<1>5. \/ \E k \in 1 .. Len(m.mtd) :
             m.mtd[k].label = n.label /\ CdevIs(c, m.mtd[k], 0, m.mtd[k].size)
      \/ c = NONE /\ (n.label = NONE \/ \A k \in 1 .. Len(m.mtd) : m.mtd[k].label # n.label)
  BY <1>2, <1>3, <1>4
<1> QED
  BY <1>5 DEF c

LEMMA RegionFacts ==
    ASSUME NEW m \in Machines, NEW n \in Nodes, n.direct = NONE, n.partuuid = NONE,
           NEW d, d = ParentDevice(m, n), d = NONE \/ d.devtype # "mtd"
    PROVE  LET c == of_cdev_find(m, n)
               r == of_parse_partition(n)
           IN  \/ c = NONE /\ (d = NONE \/ n.reg = NONE \/ d.devtype \in {"odd", "partition"})
               \/ n.reg # NONE /\ d = m.eeprom /\ CdevIs(c, d, r[1], r[2])
               \/ n.reg # NONE /\ d \in Blocks(m) /\ d.devtype = "disk"
                  /\ CdevIs(c, d, r[1], r[2])
               \/ n.reg # NONE /\ d \in Blocks(m)
                  /\ \E e \in Blocks(m) :
                        /\ Holds(e, r[1], r[2]) /\ e.medium = d.medium
                        /\ CdevIs(c, e, r[1] - e.start * Sector, r[2])
<1> DEFINE c == of_cdev_find(m, n)
           r == of_parse_partition(n)
           o == r[1]
           s == r[2]
           e == cdev_from_block_device(m, d, o, s)
<1>1. CASE d = NONE
  BY <1>1 DEF of_cdev_find
<1>2. CASE d # NONE /\ n.reg = NONE
  BY <1>2 DEF of_cdev_find, of_find_mtd_device, udev_device_is_mtd
<1>3. CASE d # NONE /\ n.reg # NONE /\ d.devtype = "eeprom"
  <2>1. c = EepromPartition(d, n)
    BY <1>3 DEF of_cdev_find, of_find_mtd_device, udev_device_is_mtd, udev_device_is_eeprom
  <2>2. CdevIs(c, d, r[1], r[2])
    <3> HIDE DEF c, r
    <3>1. c = [Cdev(d, 0, 0) EXCEPT !.offset = r[1], !.size = r[2]]
      BY <2>1 DEF EepromPartition, udev_parse_eeprom, r
    <3> QED
      BY <3>1 DEF CdevIs, Cdev
  <2>3. d = m.eeprom
    <3>1. 1 \in 1 .. Len(m.mtd)
      BY MachineFacts
    <3>2. m.mtd[1].devtype = "mtd"
      BY <3>1, MachineFacts
    <3>3. d \in Blocks(m) => d.devtype # "eeprom"
      BY BlockFacts
    <3> QED
      BY <1>3, <3>2, <3>3, ParentFacts
  <2> QED
    BY <1>3, <2>2, <2>3
<1>4. CASE d # NONE /\ n.reg # NONE /\ d.devtype # "eeprom"
  <2>1. c = e
    BY <1>4 DEF of_cdev_find, of_find_mtd_device, udev_device_is_mtd, udev_device_is_eeprom
  <2>2. d = [devtype |-> "odd"] \/ d \in Blocks(m)
    <3>1. 1 \in 1 .. Len(m.mtd)
      BY MachineFacts
    <3>2. m.mtd[1].devtype = "mtd" /\ m.eeprom.devtype = "eeprom"
      BY <3>1, MachineFacts
    <3> QED
      BY <1>4, <3>2, ParentFacts
  <2> DEFINE l == Below(m, d)
  <2>3. ASSUME Len(l) \in Nat
        PROVE  \/ \E k \in 1 .. Len(l) :
                     Holds(l[k], o, s) /\ CdevIs(e, l[k], o - l[k].start * Sector, s)
               \/ \E k \in 1 .. Len(l) : l[k].devtype = "disk" /\ CdevIs(e, l[k], o, s)
               \/ /\ e = NONE
                  /\ (\A k \in 1 .. Len(l) : l[k] # NONE) =>
                        \A k \in 1 .. Len(l) : l[k].devtype # "disk"
    <3> HIDE DEF o, s, l
    <3>1. l = Below(m, d)
      BY DEF l
    <3> QED
      BY <2>3, <3>1, FromBlock
  <2> HIDE DEF c, r, o, s, e, l
  <2>4. CASE d.devtype # "disk"
    <3>1. l = <<d>>
      BY <2>4, BelowFacts DEF l
    <3>2. Len(l) = 1 /\ l[1] = d
      BY <3>1
    <3>3. (Holds(d, o, s) /\ CdevIs(e, d, o - d.start * Sector, s)) \/ e = NONE
      BY <2>3, <2>4, <3>2
    <3>4. CASE e = NONE
      <4>1. d.devtype \in {"odd", "partition"}
        <5>1. CASE d = [devtype |-> "odd"]
          BY <5>1
        <5>2. CASE d \in Blocks(m)
          BY <2>4, <5>2, BlockFacts
        <5> QED
          BY <2>2, <5>1, <5>2
      <4> QED
        BY <2>1, <3>4, <4>1 DEF c
    <3>5. CASE Holds(d, o, s) /\ CdevIs(e, d, o - d.start * Sector, s)
      <4>1. d \in Blocks(m)
        <5>1. d.devtype = "partition"
          BY <3>5 DEF Holds
        <5>2. CASE d = [devtype |-> "odd"]
          BY <5>1, <5>2
        <5> QED
          BY <2>2, <5>2
      <4> QED
        BY <1>4, <2>1, <3>5, <4>1 DEF c, o, s, r
    <3> QED
      BY <3>3, <3>4, <3>5
  <2>5. CASE d.devtype = "disk"
    <3>1. d \in Blocks(m)
      <4>1. CASE d = [devtype |-> "odd"]
        BY <2>5, <4>1
      <4> QED
        BY <2>2, <4>1
    <3>2. PICK i \in 1 .. Len(m.disks) : l = m.disks[i] /\ l[1] = d
      BY <2>5, <3>1, BelowFacts DEF l
    <3>3. /\ Len(l) \in Nat /\ 1 \in 1 .. Len(l)
          /\ \A k \in 1 .. Len(l) : /\ l[k] # NONE /\ l[k].medium = d.medium
                                     /\ l[k].devtype = IF k = 1 THEN "disk" ELSE "partition"
      <4> DEFINE q == m.disks[i]
      <4>1. /\ Len(q) \in Nat \ {0}
            /\ \A k \in 1 .. Len(q) : /\ q[k] # NONE /\ q[k].medium = q[1].medium
                                       /\ q[k].devtype = IF k = 1 THEN "disk" ELSE "partition"
        BY DiskFacts
      <4> HIDE DEF q
      <4>2. l = q
        BY <3>2 DEF q
      <4> QED
        BY <3>2, <4>1, <4>2
    <3>4. \A k \in 1 .. Len(l) : l[k] \in Blocks(m)
      BY <3>2 DEF Blocks
    <3>5. CASE \E k \in 1 .. Len(l) :
                 Holds(l[k], o, s) /\ CdevIs(e, l[k], o - l[k].start * Sector, s)
      <4>1. PICK k \in 1 .. Len(l) :
               Holds(l[k], o, s) /\ CdevIs(e, l[k], o - l[k].start * Sector, s)
        BY <3>5
      <4>2. l[k] \in Blocks(m) /\ l[k].medium = d.medium
        BY <3>3, <3>4
      <4> QED
        BY <1>4, <2>1, <3>1, <4>1, <4>2 DEF c, o, s, r
    <3>6. CASE \E k \in 1 .. Len(l) : l[k].devtype = "disk" /\ CdevIs(e, l[k], o, s)
      <4>1. PICK k \in 1 .. Len(l) : l[k].devtype = "disk" /\ CdevIs(e, l[k], o, s)
        BY <3>6
      <4>2. k = 1
        BY <3>3, <4>1
      <4>3. CdevIs(e, d, o, s)
        BY <3>2, <4>1, <4>2
      <4> QED
        BY <1>4, <2>1, <2>5, <3>1, <4>3 DEF c, o, s, r
    <3>7. \E k \in 1 .. Len(l) : l[k].devtype = "disk"
      BY <3>3
    <3> QED
      BY <2>3, <3>3, <3>5, <3>6, <3>7
  <2> QED
    BY <2>4, <2>5
<1> QED
  BY <1>1, <1>2, <1>3, <1>4

LEMMA GptFacts ==
    ASSUME NEW m \in Machines, NEW n \in Nodes, n.direct = "disk"
    PROVE  LET c == BackendCdev(m, n)
               l == m.disks[1]
           IN  \/ c = NONE
               \/ \E k \in 1 .. Len(l) :
                     l[k].guid = STATE_GUID /\ CdevIs(c, l[k], 0, l[k].size * Sector)
<1> DEFINE c == BackendCdev(m, n)
           l == m.disks[1]
           e == of_cdev_find(m, n)
           d == FindTypeUuid(l, STATE_GUID)
<1>1. e = NONE \/ (e.is_block_disk /\ e.dev = l[1])
  <2>1. n.direct # NONE
    BY CdevAssumption
  <2> QED
    BY <2>1, DirectFacts
<1>2. CASE e = NONE
  BY <1>2 DEF BackendCdev
<1>3. CASE e # NONE /\ e.is_block_disk /\ e.dev = l[1]
  <2>1. Below(m, e.dev) = l
    BY <1>3, BelowFacts
  <2>2. c = IF ~e.is_gpt \/ d = NONE THEN NONE ELSE Cdev(d, 0, d.size * Sector)
    BY <1>3, <2>1 DEF BackendCdev, cdev_find_child_by_gpt_typeuuid
  <2>3. 1 \in 1 .. Len(m.disks)
    BY MachineFacts
  <2>4. Len(l) \in Nat
    BY <2>3, DiskFacts
  <2>5. d = NONE \/ \E k \in 1 .. Len(l) : l[k].guid = STATE_GUID /\ d = l[k]
    <3> HIDE DEF l
    <3> QED
      BY <2>4, FindByGuid
  <2> HIDE DEF c, l, d, e
  <2>6. CASE c # NONE
    <3>1. d # NONE /\ c = Cdev(d, 0, d.size * Sector)
      BY <2>2, <2>6
    <3>2. PICK k \in 1 .. Len(l) : l[k].guid = STATE_GUID /\ d = l[k]
      BY <2>5, <3>1
    <3>3. CdevIs(c, l[k], 0, l[k].size * Sector)
      BY <3>1, <3>2 DEF CdevIs, Cdev
    <3> QED
      BY <3>2, <3>3 DEF c, l
  <2> QED
    BY <2>6 DEF c
<1> QED
  BY <1>1, <1>2, <1>3

\* Anything else than a disk is used as it was found.
LEMMA NotADisk ==
    ASSUME NEW m \in Machines, NEW n \in Nodes, n.direct # "disk"
    PROVE  BackendCdev(m, n) = of_cdev_find(m, n)
<1> DEFINE c == of_cdev_find(m, n)
<1> SUFFICES c = NONE \/ ~c.is_block_disk
  BY DEF BackendCdev
<1>1. ASSUME NEW d, NEW o, NEW s, CdevIs(c, d, o, s) PROVE ~c.is_block_disk
  <2> HIDE DEF c
  <2> QED
    BY <1>1 DEF CdevIs
<1>2. CASE n.direct # NONE
  <2>1. n.direct \in {"mtd", "eeprom", "odd"}
    BY <1>2, CdevAssumption DEF IsBackend
  <2>2. \/ CdevIs(c, m.mtd[1], 0, m.mtd[1].size)
        \/ CdevIs(c, m.eeprom, 0, 0)
        \/ c = NONE
    BY <1>2, <2>1, DirectFacts
  <2> HIDE DEF c
  <2> QED
    BY <1>1, <2>2
<1>3. CASE n.direct = NONE /\ n.partuuid # NONE
  BY <1>1, <1>3, PartuuidFacts
<1>4. CASE n.direct = NONE /\ n.partuuid = NONE
  <2> DEFINE d == ParentDevice(m, n)
  <2>1. CASE d = m.mtd[1]
    BY <1>1, <1>4, <2>1, MtdFacts
  <2>2. CASE d # m.mtd[1]
    <3>1. d = NONE \/ d.devtype # "mtd"
      <4>1. d \in Blocks(m) => d.devtype # "mtd"
        BY BlockFacts
      <4>2. m.eeprom.devtype # "mtd"
        BY MachineFacts
      <4>3. d = [devtype |-> "odd"] => d.devtype # "mtd"
        OBVIOUS
      <4> QED
        BY <2>2, <4>1, <4>2, <4>3, ParentFacts
    <3> QED
      BY <1>1, <1>4, <3>1, RegionFacts
  <2> QED
    BY <2>1, <2>2
<1> QED
  BY <1>2, <1>3, <1>4

LEMMA BackendFacts ==
    ASSUME NEW m \in Machines, NEW n \in Nodes, BackendCdev(m, n) # NONE
    PROVE  Found(m, BackendCdev(m, n))
<1> DEFINE c == BackendCdev(m, n)
<1>0. Sector \in Nat
  BY CdevConstants
<1>1. ASSUME NEW d \in Blocks(m), NEW o \in Int, NEW s \in Nat, CdevIs(c, d, o, s)
      PROVE  Found(m, c)
  <2> HIDE DEF c
  <2> QED
    BY <1>1 DEF Found
<1>2. ASSUME NEW k \in 1 .. Len(m.mtd), CdevIs(c, m.mtd[k], 0, m.mtd[k].size)
      PROVE  Found(m, c)
  <2> HIDE DEF c
  <2> QED
    BY <1>2 DEF Found
<1>3. ASSUME NEW o \in Int, NEW s \in Nat, CdevIs(c, m.eeprom, o, s)
      PROVE  Found(m, c)
  <2> HIDE DEF c
  <2> QED
    BY <1>3 DEF Found
<1>4. ASSUME NEW d \in Blocks(m), CdevIs(c, d, 0, d.size * Sector)
      PROVE  Found(m, c)
  <2>1. d.size * Sector \in Nat
    BY <1>0, BlockFacts
  <2> QED
    BY <1>1, <1>4, <2>1
<1>5. 1 \in 1 .. Len(m.mtd) /\ 1 \in 1 .. Len(m.disks)
  BY MachineFacts
<1>6. CASE n.direct = "disk"
  <2>1. PICK k \in 1 .. Len(m.disks[1]) :
           CdevIs(c, m.disks[1][k], 0, m.disks[1][k].size * Sector)
    BY <1>6, GptFacts
  <2>2. m.disks[1][k] \in Blocks(m)
    BY <1>5 DEF Blocks
  <2> QED
    BY <1>4, <2>1, <2>2
<1>7. CASE n.direct # "disk"
  <2>1. c = of_cdev_find(m, n)
    BY <1>7, NotADisk
  <2> HIDE DEF c
  <2>2. CASE n.direct # NONE
    <3>1. n.direct \in {"mtd", "eeprom", "odd"}
      BY <1>7, <2>2, CdevAssumption DEF IsBackend
    <3>2. \/ CdevIs(c, m.mtd[1], 0, m.mtd[1].size)
          \/ CdevIs(c, m.eeprom, 0, 0)
          \/ c = NONE
      BY <2>1, <2>2, <3>1, DirectFacts
    <3> QED
      BY <1>2, <1>3, <1>5, <3>2 DEF c
  <2>3. CASE n.direct = NONE /\ n.partuuid # NONE
    <3> DEFINE all == AllBlock(m)
    <3>1. PICK k \in 1 .. Len(all) : CdevIs(c, all[k], 0, all[k].size * Sector)
      <4>1. c # NONE
        BY DEF c
      <4>2. \/ \E k \in 1 .. Len(all) : CdevIs(c, all[k], 0, all[k].size * Sector)
            \/ c = NONE
        BY <2>1, <2>3, PartuuidFacts
      <4> QED
        BY <4>1, <4>2
    <3>2. all[k] \in Blocks(m)
      BY AllBlockFacts
    <3> QED
      BY <1>4, <3>1, <3>2 DEF c
  <2>4. CASE n.direct = NONE /\ n.partuuid = NONE
    <3> DEFINE d == ParentDevice(m, n)
               r == of_parse_partition(n)
    <3>1. CASE d = m.mtd[1]
      BY <1>2, <2>1, <2>4, <3>1, MtdFacts DEF c
    <3>2. CASE d # m.mtd[1]
      <4>1. d = NONE \/ d.devtype # "mtd"
        <5>1. d \in Blocks(m) => d.devtype # "mtd"
          BY BlockFacts
        <5>2. m.eeprom.devtype # "mtd"
          BY MachineFacts
        <5>3. d = [devtype |-> "odd"] => d.devtype # "mtd"
          OBVIOUS
        <5> QED
          BY <3>2, <5>1, <5>2, <5>3, ParentFacts
      <4>2. \/ n.reg # NONE /\ d = m.eeprom /\ CdevIs(c, d, r[1], r[2])
            \/ n.reg # NONE /\ d \in Blocks(m) /\ CdevIs(c, d, r[1], r[2])
            \/ n.reg # NONE /\ \E e \in Blocks(m) :
                    CdevIs(c, e, r[1] - e.start * Sector, r[2])
        <5> HIDE DEF d
        <5>1. d = ParentDevice(m, n) /\ c # NONE
          BY DEF d, c
        <5>2. \/ c = NONE
              \/ n.reg # NONE /\ d = m.eeprom /\ CdevIs(c, d, r[1], r[2])
              \/ n.reg # NONE /\ d \in Blocks(m) /\ CdevIs(c, d, r[1], r[2])
              \/ n.reg # NONE /\ \E e \in Blocks(m) :
                    CdevIs(c, e, r[1] - e.start * Sector, r[2])
          <6> HIDE DEF r
          <6>1. r = of_parse_partition(n)
            BY DEF r
          <6> QED
            BY <2>1, <2>4, <4>1, <5>1, <6>1, RegionFacts
        <5> QED
          BY <5>1, <5>2
      <4>3. n.reg # NONE => r[1] \in Nat /\ r[2] \in Nat
        BY PartitionNumbers
      <4>4. \A e \in Blocks(m) : n.reg # NONE => r[1] - e.start * Sector \in Int
        BY <1>0, <4>3, BlockFacts
      <4> HIDE DEF r, d
      <4> QED
        BY <1>1, <1>3, <4>2, <4>3, <4>4 DEF c
    <3> QED
      BY <3>1, <3>2
  <2> QED
    BY <2>2, <2>3, <2>4 DEF c
<1> QED
  BY <1>6, <1>7

-----------------------------------------------------------------------------
(* Buckets within the backend *)

\* A block that begins in an area of whole blocks lies in it.
LEMMA BlockMultiples ==
    ASSUME NEW size \in Nat, NEW es \in Nat, es > 0, size % es = 0,
           NEW k \in Nat, k * es < size
    PROVE  k * es + es <= size
<1> DEFINE q == size \div es
<1>1. q \in Nat /\ size = es * q
  <2>1. size = es * (size \div es) + (size % es)
    OBVIOUS
  <2> QED
    BY <2>1
<1> HIDE DEF q
<1>2. k < q
  <2> SUFFICES ASSUME k >= q PROVE FALSE
    BY <1>1
  <2>1. k * es >= q * es
    BY <1>1
  <2>2. q * es = size
    BY <1>1
  <2> QED
    BY <2>1, <2>2
<1>3. (k + 1) * es <= q * es
  BY <1>1, <1>2
<1>4. (k + 1) * es = k * es + es /\ q * es = size
  BY <1>1
<1> QED
  BY <1>3, <1>4

\* The buckets b divide what c denotes.
Divide(b, c) ==
    /\ b \in Seq(Areas) /\ Len(b) <= desired_buckets
    /\ \A i, j \in DOMAIN b : i < j => b[i].offset + b[i].len <= b[j].offset
    /\ c.size # 0 =>
          \A i \in DOMAIN b : /\ c.offset <= b[i].offset
                              /\ b[i].offset + b[i].len <= c.offset + c.size

LEMMA EmptyDivides ==
    ASSUME NEW c
    PROVE  Divide(<<>>, c)
BY DEF Divide, desired_buckets

LEMMA MtdDivides ==
    ASSUME NEW c, NEW failing, c.offset = 0, c.size = c.dev.size, c.dev.size \in Nat,
           c.dev.erasesize \in Nat \ {0}, c.dev.size % c.dev.erasesize = 0
    PROVE  Divide(mtd_buckets_init(c, failing), c)
<1> DEFINE es == c.dev.erasesize
           count == c.dev.size \div es + 1
           good == MtdBlocks(c) \ failing
           b == BucketLoop(count, good, 0, es)
<1>1. es \in Nat /\ es > 0 /\ c.dev.size \div es \in Nat /\ count \in Nat
  OBVIOUS
<1>2. /\ b \in Seq(Areas) /\ Len(b) <= desired_buckets
      /\ \A i \in DOMAIN b :
            \E k \in 0 .. count - 1 : k \in good /\ b[i] = Area(0 + k * es, es)
      /\ \A i, j \in DOMAIN b : i < j => b[i].offset + b[i].len <= b[j].offset
  <2> HIDE DEF count, good, es
  <2>1. 0 \in Int
    OBVIOUS
  <2> QED
    BY <1>1, <2>1, BucketLoopFacts
<1> HIDE DEF b
<1>3. ASSUME NEW i \in DOMAIN b
      PROVE  c.offset <= b[i].offset /\ b[i].offset + b[i].len <= c.offset + c.size
  <2>1. PICK k \in 0 .. count - 1 : k \in good /\ b[i] = Area(0 + k * es, es)
    BY <1>2
  <2>2. k \in Nat /\ k * es < c.dev.size
    BY <2>1 DEF MtdBlocks
  <2> HIDE DEF es
  <2>3. k * es + es <= c.dev.size
    BY <1>1, <2>2, BlockMultiples DEF es
  <2>4. k * es \in Nat
    BY <1>1, <2>2
  <2>5. b[i].offset = k * es /\ b[i].len = es
    BY <2>1, <2>4 DEF Area
  <2> QED
    BY <1>1, <2>3, <2>4, <2>5
<1>4. Divide(b, c)
  BY <1>2, <1>3 DEF Divide
<1>5. mtd_buckets_init(c, failing) = <<>> \/ mtd_buckets_init(c, failing) = b
  BY DEF mtd_buckets_init, b
<1> QED
  BY <1>4, <1>5, EmptyDivides

LEMMA FileDivides ==
    ASSUME NEW c, NEW failing, NEW stride \in Nat, desired_buckets * stride < CellMod,
           c.offset \in Int, c.size \in Nat
    PROVE  Divide(file_buckets_init(c, stride, failing), c)
<1> DEFINE good == (0 .. desired_buckets - 1) \ failing
           list == BucketLoop(desired_buckets, good, 0, stride)
           b == [i \in DOMAIN list |-> Area(c.offset + (list[i].offset % CellMod), stride)]
<1>0. 3 * stride < CellMod /\ CellMod \in Nat /\ CellMod > 0
  BY CdevConstants DEF desired_buckets
<1>4. /\ list \in Seq(Areas) /\ Len(list) <= desired_buckets
      /\ \A i \in DOMAIN list : \E k \in 0 .. desired_buckets - 1 :
            k \in good /\ list[i] = Area(0 + k * stride, stride)
      /\ \A i, j \in DOMAIN list : i < j => list[i].offset + list[i].len <= list[j].offset
  <2>1. desired_buckets \in Nat /\ 0 \in Int
    BY DEF desired_buckets
  <2> HIDE DEF good
  <2> QED
    BY <2>1, BucketLoopFacts
<1> HIDE DEF list, good
<1>5. ASSUME NEW i \in DOMAIN list
      PROVE  \E k \in 0 .. desired_buckets - 1 :
                /\ list[i].offset = k * stride /\ list[i].len = stride
                /\ list[i].offset % CellMod = k * stride
  <2>1. PICK k \in 0 .. desired_buckets - 1 : list[i] = Area(0 + k * stride, stride)
    BY <1>4
  <2>2. k = 0 \/ k = 1 \/ k = 2
    BY DEF desired_buckets
  <2>3. 0 + k * stride = k * stride /\ k * stride \in 0 .. CellMod - 1
    BY <1>0, <2>2
  <2> DEFINE x == k * stride
  <2>4. list[i].offset = x /\ list[i].len = stride
    BY <2>1, <2>3 DEF Area
  <2>5. x % CellMod = x
    <3>1. x \in 0 .. CellMod - 1
      BY <2>3
    <3> HIDE DEF x
    <3> QED
      BY <1>0, <3>1
  <2> QED
    BY <2>4, <2>5
<1>6. DOMAIN list = 1 .. Len(list) /\ Len(list) \in Nat
  BY <1>4
<1>7. ASSUME NEW i \in DOMAIN list
      PROVE  /\ list[i].offset \in Int
             /\ b[i] = Area(c.offset + list[i].offset, stride)
             /\ b[i].offset = c.offset + list[i].offset /\ b[i].len = stride
             /\ b[i] \in Areas
  <2>1. PICK k \in 0 .. desired_buckets - 1 :
                /\ list[i].offset = k * stride /\ list[i].len = stride
                /\ list[i].offset % CellMod = k * stride
    BY <1>5
  <2>2. list[i].offset \in Int /\ list[i].offset % CellMod = list[i].offset
    BY <2>1 DEF desired_buckets
  <2>3. b[i] = Area(c.offset + list[i].offset, stride)
    BY <2>2
  <2> QED
    BY <2>2, <2>3 DEF Area, Areas
<1>8. DOMAIN b = DOMAIN list
  OBVIOUS
<1> HIDE DEF b
<1>1. /\ b \in Seq(Areas) /\ Len(b) <= desired_buckets
      /\ \A i \in DOMAIN b : \E k \in 0 .. desired_buckets - 1 :
            b[i] = Area(c.offset + k * stride, stride)
      /\ \A i, j \in DOMAIN b : i < j => b[i].offset + b[i].len <= b[j].offset
  <2>1. b \in Seq(Areas) /\ Len(b) = Len(list)
    <3>1. b = [i \in 1 .. Len(list) |-> b[i]]
      BY <1>6, <1>8 DEF b
    <3>2. \A i \in 1 .. Len(list) : b[i] \in Areas
      BY <1>6, <1>7
    <3> QED
      BY <1>6, <3>1, <3>2
  <2>2. ASSUME NEW i \in DOMAIN b
        PROVE  \E k \in 0 .. desired_buckets - 1 : b[i] = Area(c.offset + k * stride, stride)
    <3>1. PICK k \in 0 .. desired_buckets - 1 : list[i].offset = k * stride
      BY <1>5, <1>8
    <3> QED
      BY <1>7, <1>8, <3>1
  <2>3. ASSUME NEW i \in DOMAIN b, NEW j \in DOMAIN b, i < j
        PROVE  b[i].offset + b[i].len <= b[j].offset
    <3>1. list[i].offset + list[i].len <= list[j].offset /\ list[i].len = stride
      BY <1>4, <1>5, <1>8, <2>3
    <3>2. /\ b[i].offset = c.offset + list[i].offset /\ b[i].len = stride
          /\ b[j].offset = c.offset + list[j].offset
          /\ list[i].offset \in Int /\ list[j].offset \in Int
      BY <1>7, <1>8
    <3> QED
      BY <3>1, <3>2
  <2> QED
    BY <1>4, <2>1, <2>2, <2>3
<1>2. CASE stride = 0 \/ ~RoomForCopies(c, stride)
  BY <1>2, EmptyDivides DEF file_buckets_init
<1>3. CASE stride # 0 /\ RoomForCopies(c, stride)
  <2>1. file_buckets_init(c, stride, failing) = b
    BY <1>3 DEF file_buckets_init, b, list, good
  <2>2. ASSUME NEW i \in DOMAIN b, c.size # 0
        PROVE  c.offset <= b[i].offset /\ b[i].offset + b[i].len <= c.offset + c.size
    <3>1. PICK k \in 0 .. desired_buckets - 1 : b[i] = Area(c.offset + k * stride, stride)
      BY <1>1
    <3>2. c.size >= 3 * stride
      <4>1. c.size >= (3 * stride) % CellMod
        BY <1>3, <2>2 DEF RoomForCopies, desired_buckets
      <4>2. (3 * stride) % CellMod = 3 * stride
        BY <1>0
      <4> QED
        BY <4>1, <4>2
    <3>3. b[i].offset = c.offset + k * stride /\ b[i].len = stride
      BY <3>1 DEF Area
    <3>4. k = 0 \/ k = 1 \/ k = 2
      BY DEF desired_buckets
    <3> QED
      BY <3>2, <3>3, <3>4
  <2>3. Divide(b, c)
    BY <1>1, <2>2 DEF Divide
  <2> QED
    BY <2>1, <2>3
<1> QED
  BY <1>2, <1>3

LEMMA StorageDivides ==
    ASSUME StridesFit, NEW m \in Machines, NEW c, Found(m, c), NEW stride \in Strides,
           NEW t, NEW failing
    PROVE  Divide(state_storage_init(c, stride, t, failing), c)
<1>1. stride \in Nat /\ desired_buckets * stride < CellMod
  BY CdevConstants DEF StridesFit
<1>2. CASE \E k \in 1 .. Len(m.mtd) : CdevIs(c, m.mtd[k], 0, m.mtd[k].size)
  <2>1. PICK k \in 1 .. Len(m.mtd) : CdevIs(c, m.mtd[k], 0, m.mtd[k].size)
    BY <1>2
  <2>2. c.dev = m.mtd[k] /\ c.offset = 0 /\ c.size = c.dev.size
    BY <2>1 DEF CdevIs
  <2>3. /\ c.dev.size \in Nat /\ c.dev.erasesize \in Nat \ {0}
        /\ c.dev.size % c.dev.erasesize = 0
    BY <2>2, MachineFacts
  <2>4. Divide(mtd_buckets_init(c, failing), c)
    BY <2>2, <2>3, MtdDivides
  <2>5. Divide(file_buckets_init(c, stride, failing), c)
    BY <1>1, <2>2, <2>3, FileDivides
  <2> QED
    BY <2>4, <2>5, EmptyDivides DEF state_storage_init
<1>3. CASE \E o \in Int, s \in Nat :
              \/ CdevIs(c, m.eeprom, o, s)
              \/ \E d \in Blocks(m) : CdevIs(c, d, o, s)
  <2>1. PICK o \in Int, s \in Nat :
              \/ CdevIs(c, m.eeprom, o, s)
              \/ \E d \in Blocks(m) : CdevIs(c, d, o, s)
    BY <1>3
  <2>2. c.offset = o /\ c.size = s
    BY <2>1 DEF CdevIs
  <2>3. c.dev.devtype # "mtd"
    <3>1. CASE CdevIs(c, m.eeprom, o, s)
      <4>1. c.dev = m.eeprom
        BY <3>1 DEF CdevIs
      <4> QED
        BY <4>1, MachineFacts
    <3>2. CASE \E d \in Blocks(m) : CdevIs(c, d, o, s)
      <4>1. PICK d \in Blocks(m) : CdevIs(c, d, o, s)
        BY <3>2
      <4>2. c.dev = d
        BY <4>1 DEF CdevIs
      <4> QED
        BY <4>2, BlockFacts
    <3> QED
      BY <2>1, <3>1, <3>2
  <2>4. state_storage_init(c, stride, t, failing) = file_buckets_init(c, stride, failing)
    BY <2>3 DEF state_storage_init
  <2> QED
    BY <1>1, <2>2, <2>4, FileDivides
<1> QED
  BY <1>2, <1>3 DEF Found

\* After a lookup cdev is its result.
LookupInv ==
    /\ step \in {"found", "ready", "failed"} =>
          machine \in Machines /\ node \in Nodes /\ cdev = BackendCdev(machine, node)
    /\ step \in {"found", "ready"} => cdev # NONE

LEMMA LookupInvHolds == CdevSpec => []LookupInv
<1>1. CdevInit => LookupInv
  BY DEF CdevInit, LookupInv
<1>2. ASSUME LookupInv, [CdevNext]_cdevVars
      PROVE  LookupInv'
  <2> USE <1>2
  <2>1. ASSUME NEW m \in Machines, NEW n \in Nodes, Lookup(m, n)
        PROVE  LookupInv'
    BY <2>1 DEF LookupInv, Lookup
  <2>2. ASSUME NEW stride \in Strides, NEW t, NEW failing \in Failures,
               MakeBuckets(stride, t, failing)
        PROVE  LookupInv'
    BY <2>2 DEF LookupInv, MakeBuckets
  <2>3. CASE Release_
    BY <2>3 DEF LookupInv, Release_
  <2>4. CASE UNCHANGED cdevVars
    BY <2>4 DEF LookupInv, cdevVars
  <2> QED
    BY <2>1, <2>2, <2>3, <2>4 DEF CdevNext
<1> QED
  BY <1>1, <1>2, PTL DEF CdevSpec

\* Buckets divide what was found.
CdevInv == LookupInv /\ (step = "ready" => buckets # <<>> /\ Divide(buckets, cdev))

LEMMA CdevInvHolds ==
    ASSUME StridesFit
    PROVE  CdevSpec => []CdevInv
<1>1. CdevInit => CdevInv
  BY DEF CdevInit, LookupInv, CdevInv
<1>2. ASSUME CdevInv, [CdevNext]_cdevVars
      PROVE  CdevInv'
  <2> USE <1>2
  <2>1. ASSUME NEW m \in Machines, NEW n \in Nodes, Lookup(m, n)
        PROVE  CdevInv'
    BY <2>1 DEF LookupInv, CdevInv, Lookup
  <2>2. ASSUME NEW stride \in Strides, NEW t, NEW failing \in Failures,
               MakeBuckets(stride, t, failing)
        PROVE  CdevInv'
    <3>1. /\ step = "found" /\ machine \in Machines /\ node \in Nodes
          /\ cdev = BackendCdev(machine, node) /\ cdev # NONE
      BY <2>2 DEF LookupInv, CdevInv, MakeBuckets
    <3>2. Divide(state_storage_init(cdev, stride, t, failing), cdev)
      BY <3>1, BackendFacts, StorageDivides
    <3>3. /\ buckets' = state_storage_init(cdev, stride, t, failing)
          /\ step' = (IF buckets' = <<>> THEN "failed" ELSE "ready")
          /\ UNCHANGED <<machine, node, cdev>>
      BY <2>2 DEF MakeBuckets
    <3>4. Divide(buckets', cdev')
      BY <3>2, <3>3
    <3> QED
      BY <3>1, <3>3, <3>4 DEF LookupInv, CdevInv
  <2>3. CASE Release_
    BY <2>3 DEF LookupInv, CdevInv, Release_
  <2>4. CASE UNCHANGED cdevVars
    BY <2>4 DEF LookupInv, CdevInv, cdevVars
  <2> QED
    BY <2>1, <2>2, <2>3, <2>4 DEF CdevNext
<1> QED
  BY <1>1, <1>2, PTL DEF CdevSpec

\* For all machines, nodes and failures, and for all strides of which three fit
\* into 32 bits: the buckets of a state, at least one and at most three, lie
\* apart from one another and within the region its backend describes
\* (state_storage_mtd_buckets_init, state_storage_file_buckets_init).
THEOREM BucketsWithinBackendHolds ==
    ASSUME StridesFit
    PROVE  CdevSpec => []BucketsWithinBackend
<1>1. CdevInv => BucketsWithinBackend
  <2> SUFFICES ASSUME CdevInv, step = "ready" PROVE BucketsWithinBackend
    BY DEF BucketsWithinBackend
  <2>1. buckets # <<>> /\ Divide(buckets, cdev)
    BY DEF CdevInv
  <2>2. Len(buckets) \in 1 .. desired_buckets
    <3>1. buckets \in Seq(Areas) /\ Len(buckets) <= 3
      BY <2>1 DEF Divide, desired_buckets
    <3> DEFINE n == Len(buckets)
    <3>2. n \in Nat \ {0} /\ n <= 3
      BY <2>1, <3>1, EmptySeq
    <3> HIDE DEF n
    <3>3. n \in 1 .. 3
      BY <3>2
    <3> QED
      BY <3>3 DEF n, desired_buckets
  <2> QED
    BY <2>1, <2>2 DEF Divide, BucketsWithinBackend
<1> QED
  BY <1>1, CdevInvHolds, PTL

-----------------------------------------------------------------------------
(* The lookup finds what is meant *)

\* The names in the device trees are used for what they are: a partuuid is that
\* of a partition, the uuid of a storage that of a disk's table (one of a
\* partition would be compared with offsets on the disk), only partitions have
\* a type, and parents are devices the code knows.
NamesAsMeant ==
    /\ \A m \in Machines, n \in Nodes : \A d \in Blocks(m) :
          /\ n.partuuid # NONE /\ d.uuid = n.partuuid => d.devtype = "partition"
          /\ n.storage_uuid # NONE /\ d.uuid = n.storage_uuid => d.devtype = "disk"
    /\ \A m \in Machines : \A d \in Blocks(m) :
          d.guid = STATE_GUID => d.devtype = "partition"
    /\ \A m \in Machines : \A k \in 1 .. Len(m.mtd) : m.mtd[k].label # NONE
    /\ \A n \in Nodes : n.parent # "odd"

\* A region is what the cells of reg stand for.
RegionsInCells ==
    \A n \in Nodes : n.reg # NONE => n.region = of_parse_partition(n)

\* NONE, that is NULL, is not a struct cdev.
NoneIsNoCdev == "dev" \notin DOMAIN NONE

AsMeant(m, n, c) ==
    /\ c # NONE => /\ OnMedium(c.dev, c.offset, c.size) \in Meant(m, n)
                   /\ c.dev.devtype = "partition" =>
                         0 <= c.offset /\ c.offset + c.size <= c.dev.size * Sector
    /\ c = NONE /\ n.direct # "disk" => Meant(m, n) = {}

Whole(d) == OnMedium(d, 0, IF d.devtype = "partition" THEN d.size * Sector ELSE d.size)

LEMMA DirectAsMeant ==
    ASSUME NamesAsMeant, NoneIsNoCdev, NEW m \in Machines, NEW n \in Nodes,
           n.direct # NONE
    PROVE  AsMeant(m, n, BackendCdev(m, n))
<1> DEFINE c == BackendCdev(m, n)
<1>0. n.direct \in {"disk", "mtd", "eeprom", "odd"}
  BY CdevAssumption DEF IsBackend
<1>1. CASE n.direct = "disk"
  <2> DEFINE l == m.disks[1]
  <2>1. Meant(m, n) = {Whole(l[k]) : k \in {j \in DOMAIN l : l[j].guid = STATE_GUID}}
    BY <1>1, CdevAssumption DEF Meant, Whole
  <2>2. 1 \in 1 .. Len(m.disks)
    BY MachineFacts
  <2>3. DOMAIN l = 1 .. Len(l)
    BY <2>2, DiskFacts
  <2>4. ASSUME c # NONE
        PROVE  /\ OnMedium(c.dev, c.offset, c.size) \in Meant(m, n)
               /\ 0 <= c.offset /\ c.offset + c.size <= c.dev.size * Sector
    <3>1. PICK k \in 1 .. Len(l) :
             l[k].guid = STATE_GUID /\ CdevIs(c, l[k], 0, l[k].size * Sector)
      BY <1>1, <2>4, GptFacts
    <3>2. l[k] \in Blocks(m)
      BY <2>2 DEF Blocks
    <3>3. l[k].devtype = "partition" /\ l[k].size \in Nat
      BY <3>1, <3>2, BlockFacts DEF NamesAsMeant
    <3> HIDE DEF c
    <3>4. c.dev = l[k] /\ c.offset = 0 /\ c.size = l[k].size * Sector
      BY <3>1 DEF CdevIs
    <3>5. l[k].size * Sector \in Nat
      BY <3>3, CdevConstants
    <3>6. OnMedium(c.dev, c.offset, c.size) = Whole(l[k])
      BY <3>3, <3>4 DEF Whole
    <3> HIDE DEF l
    <3> QED
      BY <2>1, <2>3, <3>1, <3>4, <3>5, <3>6
  <2> QED
    BY <1>1, <2>4 DEF AsMeant
<1>2. CASE n.direct # "disk"
  <2>1. c = of_cdev_find(m, n)
    BY <1>2, NotADisk
  <2> HIDE DEF c
  <2>2. ASSUME NEW d, NEW s, CdevIs(c, d, 0, s), Meant(m, n) = {OnMedium(d, 0, s)},
               d.devtype # "partition"
        PROVE  AsMeant(m, n, c)
    <3>1. c.dev = d /\ c.offset = 0 /\ c.size = s /\ "dev" \in DOMAIN c
      BY <2>2 DEF CdevIs
    <3>2. c # NONE
      BY <3>1 DEF NoneIsNoCdev
    <3> QED
      BY <2>2, <3>1, <3>2 DEF AsMeant
  <2>3. CASE n.direct = "mtd"
    <3>1. 1 \in 1 .. Len(m.mtd)
      BY MachineFacts
    <3>2. m.mtd[1].devtype = "mtd"
      BY <3>1, MachineFacts
    <3>3. Meant(m, n) = {OnMedium(m.mtd[1], 0, m.mtd[1].size)}
      BY <2>3, <3>2, CdevAssumption DEF Meant
    <3>4. CdevIs(c, m.mtd[1], 0, m.mtd[1].size)
      BY <2>1, <2>3, CdevAssumption, DirectFacts
    <3> QED
      BY <2>2, <3>2, <3>3, <3>4 DEF c
  <2>4. CASE n.direct = "eeprom"
    <3>1. Meant(m, n) = {OnMedium(m.eeprom, 0, 0)}
      BY <2>4, CdevAssumption DEF Meant
    <3>2. CdevIs(c, m.eeprom, 0, 0) /\ m.eeprom.devtype # "partition"
      BY <2>1, <2>4, CdevAssumption, DirectFacts, MachineFacts
    <3> QED
      BY <2>2, <3>1, <3>2 DEF c
  <2>5. CASE n.direct = "odd"
    <3>1. Meant(m, n) = {}
      BY <2>5, CdevAssumption DEF Meant
    <3>2. c = NONE
      BY <2>1, <2>5, CdevAssumption, DirectFacts
    <3> QED
      BY <3>1, <3>2 DEF AsMeant, c
  <2> QED
    BY <1>0, <1>2, <2>3, <2>4, <2>5
<1> QED
  BY <1>1, <1>2

LEMMA PartuuidAsMeant ==
    ASSUME NamesAsMeant, NoneIsNoCdev, NEW m \in Machines, NEW n \in Nodes,
           n.direct = NONE, n.partuuid # NONE
    PROVE  AsMeant(m, n, of_cdev_find(m, n))
<1> DEFINE c == of_cdev_find(m, n)
           all == AllBlock(m)
<1>1. Meant(m, n) = {Whole(all[k]) : k \in {j \in DOMAIN all : all[j].uuid = n.partuuid}}
  BY DEF Meant, Whole
<1>2. all \in Seq(Blocks(m)) /\ DOMAIN all = 1 .. Len(all)
  BY AllBlockFacts
<1>3. \/ \E k \in 1 .. Len(all) :
             all[k].uuid = n.partuuid /\ CdevIs(c, all[k], 0, all[k].size * Sector)
      \/ c = NONE /\ \A k \in 1 .. Len(all) : all[k].uuid # n.partuuid
  BY PartuuidFacts
<1> HIDE DEF c, all
<1>4. CASE c = NONE /\ \A k \in 1 .. Len(all) : all[k].uuid # n.partuuid
  <2>1. Meant(m, n) = {}
    BY <1>1, <1>2, <1>4
  <2> QED
    BY <1>4, <2>1 DEF AsMeant, c
<1>5. ASSUME NEW k \in 1 .. Len(all), all[k].uuid = n.partuuid,
             CdevIs(c, all[k], 0, all[k].size * Sector)
      PROVE  AsMeant(m, n, c)
  <2>1. c.dev = all[k] /\ c.offset = 0 /\ c.size = all[k].size * Sector /\ "dev" \in DOMAIN c
    BY <1>5 DEF CdevIs
  <2>2. c # NONE
    BY <2>1 DEF NoneIsNoCdev
  <2>3. all[k] \in Blocks(m)
    BY <1>2
  <2>4. all[k].devtype = "partition" /\ all[k].size \in Nat
    BY <1>5, <2>3, BlockFacts DEF NamesAsMeant
  <2>5. all[k].size * Sector \in Nat
    BY <2>4, CdevConstants
  <2>6. OnMedium(c.dev, c.offset, c.size) = Whole(all[k])
    BY <2>1, <2>4 DEF Whole
  <2>7. OnMedium(c.dev, c.offset, c.size) \in Meant(m, n)
    BY <1>1, <1>2, <1>5, <2>6
  <2> QED
    BY <2>1, <2>2, <2>5, <2>7 DEF AsMeant
<1> QED
  BY <1>3, <1>4, <1>5 DEF c

LEMMA MtdAsMeant ==
    ASSUME NamesAsMeant, NoneIsNoCdev, NEW m \in Machines, NEW n \in Nodes,
           n.direct = NONE, n.partuuid = NONE, n.storage_uuid = NONE, n.parent = "mtd"
    PROVE  AsMeant(m, n, of_cdev_find(m, n))
<1> DEFINE c == of_cdev_find(m, n)
           all == m.mtd
<1>1. Meant(m, n) = {Whole(all[k]) : k \in {j \in DOMAIN all : all[j].label = n.label}}
  BY DEF Meant, Whole
<1>2. DOMAIN all = 1 .. Len(all)
  BY MachineFacts
<1>3. ParentDevice(m, n) = m.mtd[1]
  BY DEF ParentDevice, of_find_device_by_node
<1>4. \/ \E k \in 1 .. Len(all) :
             all[k].label = n.label /\ CdevIs(c, all[k], 0, all[k].size)
      \/ c = NONE /\ (n.label = NONE \/ \A k \in 1 .. Len(all) : all[k].label # n.label)
  BY <1>3, MtdFacts
<1>5. \A k \in 1 .. Len(all) : all[k].label # NONE /\ all[k].devtype = "mtd"
  BY MachineFacts DEF NamesAsMeant
<1> HIDE DEF c, all
<1>6. CASE c = NONE /\ \A k \in 1 .. Len(all) : all[k].label # n.label
  <2>1. Meant(m, n) = {}
    BY <1>1, <1>2, <1>6
  <2> QED
    BY <1>6, <2>1 DEF AsMeant, c
<1>7. ASSUME NEW k \in 1 .. Len(all), all[k].label = n.label,
             CdevIs(c, all[k], 0, all[k].size)
      PROVE  AsMeant(m, n, c)
  <2>1. c.dev = all[k] /\ c.offset = 0 /\ c.size = all[k].size /\ "dev" \in DOMAIN c
    BY <1>7 DEF CdevIs
  <2>2. c # NONE
    BY <2>1 DEF NoneIsNoCdev
  <2>3. OnMedium(c.dev, c.offset, c.size) = Whole(all[k]) /\ c.dev.devtype = "mtd"
    BY <1>5, <2>1 DEF Whole
  <2>4. OnMedium(c.dev, c.offset, c.size) \in Meant(m, n)
    BY <1>1, <1>2, <1>7, <2>3
  <2> QED
    BY <2>2, <2>3, <2>4 DEF AsMeant
<1> QED
  BY <1>4, <1>5, <1>6, <1>7 DEF c

LEMMA RegionAsMeant ==
    ASSUME NamesAsMeant, RegionsInCells, NoneIsNoCdev, NEW m \in Machines, NEW n \in Nodes,
           n.direct = NONE, n.partuuid = NONE, ~(n.storage_uuid = NONE /\ n.parent = "mtd")
    PROVE  AsMeant(m, n, of_cdev_find(m, n))
<1> DEFINE c == of_cdev_find(m, n)
           d == ParentDevice(m, n)
           r == of_parse_partition(n)
<1>1. Meant(m, n) = {OnMedium(e, n.region[1], n.region[2]) :
                        e \in {x \in {d} : x # NONE /\ n.reg # NONE}}
  BY DEF Meant
<1>2. n.reg # NONE => n.region = r /\ r[1] \in Nat /\ r[2] \in Nat
  BY PartitionNumbers DEF RegionsInCells
<1>3. \/ d = NONE
      \/ d = m.eeprom /\ d.devtype = "eeprom"
      \/ d \in Blocks(m) /\ d.devtype = "disk"
  <2>1. 1 \in 1 .. Len(m.disks)
    BY MachineFacts
  <2>2. 1 \in 1 .. Len(m.disks[1]) /\ m.disks[1][1].devtype = "disk"
    BY <2>1, DiskFacts
  <2>3. n.parent # "odd"
    BY DEF NamesAsMeant
  <2>4. m.eeprom.devtype = "eeprom"
    BY MachineFacts
  <2>5. \/ d = NONE
        \/ d = m.eeprom
        \/ /\ d \in Blocks(m)
           /\ n.storage_uuid # NONE => d.uuid = n.storage_uuid
           /\ n.storage_uuid = NONE => d = m.disks[1][1]
    BY <2>3, ParentFacts
  <2> HIDE DEF d
  <2> QED
    BY <2>2, <2>4, <2>5 DEF NamesAsMeant
<1>4. \/ c = NONE /\ (d = NONE \/ n.reg = NONE)
      \/ n.reg # NONE /\ d # NONE /\ d.devtype # "partition" /\ CdevIs(c, d, r[1], r[2])
      \/ n.reg # NONE /\ d \in Blocks(m)
         /\ \E e \in Blocks(m) :
               /\ Holds(e, r[1], r[2]) /\ e.medium = d.medium
               /\ CdevIs(c, e, r[1] - e.start * Sector, r[2])
  <2> HIDE DEF c, d, r
  <2>1. d = ParentDevice(m, n) /\ c = of_cdev_find(m, n) /\ r = of_parse_partition(n)
    BY DEF c, d, r
  <2>2. d = NONE \/ d.devtype # "mtd"
    BY <1>3
  <2>3. \/ c = NONE /\ (d = NONE \/ n.reg = NONE \/ d.devtype \in {"odd", "partition"})
        \/ n.reg # NONE /\ d = m.eeprom /\ CdevIs(c, d, r[1], r[2])
        \/ n.reg # NONE /\ d \in Blocks(m) /\ d.devtype = "disk"
           /\ CdevIs(c, d, r[1], r[2])
        \/ n.reg # NONE /\ d \in Blocks(m)
           /\ \E e \in Blocks(m) :
                 /\ Holds(e, r[1], r[2]) /\ e.medium = d.medium
                 /\ CdevIs(c, e, r[1] - e.start * Sector, r[2])
    BY <2>1, <2>2, RegionFacts
  <2>4. m.eeprom # NONE /\ m.eeprom.devtype = "eeprom" /\ \A e \in Blocks(m) : e # NONE
    BY MachineFacts, BlockFacts
  <2> QED
    BY <1>3, <2>3, <2>4
<1> HIDE DEF c, d, r
<1>5. CASE c = NONE /\ (d = NONE \/ n.reg = NONE)
  <2>1. Meant(m, n) = {}
    BY <1>1, <1>5
  <2> QED
    BY <1>5, <2>1 DEF AsMeant, c
<1>6. CASE /\ n.reg # NONE /\ d # NONE /\ d.devtype # "partition"
           /\ CdevIs(c, d, r[1], r[2])
  <2>1. c.dev = d /\ c.offset = r[1] /\ c.size = r[2] /\ "dev" \in DOMAIN c
    BY <1>6 DEF CdevIs
  <2>2. c # NONE
    BY <2>1 DEF NoneIsNoCdev
  <2>3. OnMedium(c.dev, c.offset, c.size) \in Meant(m, n)
    BY <1>1, <1>2, <1>6, <2>1
  <2> QED
    BY <1>6, <2>1, <2>2, <2>3 DEF AsMeant, c
<1>7. ASSUME n.reg # NONE, d \in Blocks(m), NEW e \in Blocks(m),
             Holds(e, r[1], r[2]), e.medium = d.medium,
             CdevIs(c, e, r[1] - e.start * Sector, r[2])
      PROVE  AsMeant(m, n, c)
  <2>1. c.dev = e /\ c.offset = r[1] - e.start * Sector /\ c.size = r[2] /\ "dev" \in DOMAIN c
    BY <1>7 DEF CdevIs
  <2>2. c # NONE
    BY <2>1 DEF NoneIsNoCdev
  <2>3. d # NONE /\ d.devtype = "disk"
    <3>1. d.devtype # "eeprom" /\ d # NONE
      BY <1>7, BlockFacts
    <3> QED
      BY <1>3, <3>1
  <2>4. /\ e.start \in Nat /\ e.size \in Nat /\ e.devtype = "partition"
        /\ e.start * Sector <= r[1] /\ r[1] + r[2] <= (e.start + e.size) * Sector
    BY <1>7, BlockFacts DEF Holds
  <2> DEFINE a == e.start * Sector
             b == e.size * Sector
  <2>5. /\ a \in Nat /\ b \in Nat /\ a <= r[1] /\ r[1] + r[2] <= a + b
        /\ r[1] \in Nat /\ r[2] \in Nat
    <3>1. (e.start + e.size) * Sector = a + b /\ a \in Nat /\ b \in Nat
      BY <2>4, CdevConstants
    <3> QED
      BY <1>2, <1>7, <2>4, <3>1
  <2>6. c.offset = r[1] - a
    BY <2>1
  <2>7. OnMedium(c.dev, c.offset, c.size) = [medium |-> e.medium, len |-> r[2],
                                             first |-> c.offset + a]
    BY <2>1, <2>4 DEF OnMedium
  <2>8. OnMedium(d, r[1], r[2]) = [medium |-> d.medium, len |-> r[2], first |-> r[1] + 0]
    BY <2>3 DEF OnMedium
  <2>9. 0 <= c.offset /\ c.offset + c.size <= c.dev.size * Sector
    <3>1. c.dev.size * Sector = b
      BY <2>1
    <3> HIDE DEF a, b
    <3> QED
      BY <2>1, <2>5, <2>6, <3>1
  <2>10. c.offset + a = r[1] + 0
    <3> HIDE DEF a, b
    <3> QED
      BY <2>5, <2>6
  <2> HIDE DEF a, b
  <2>11. OnMedium(c.dev, c.offset, c.size) = OnMedium(d, r[1], r[2])
    BY <1>7, <2>7, <2>8, <2>10
  <2>12. OnMedium(d, r[1], r[2]) \in Meant(m, n)
    BY <1>1, <1>2, <1>7, <2>3
  <2> QED
    BY <2>2, <2>9, <2>11, <2>12 DEF AsMeant
<1> QED
  BY <1>4, <1>5, <1>6, <1>7 DEF c

\* For all machines and nodes whose names are used for what they are: a lookup
\* that succeeds denotes the very bytes that the node describes, within the
\* partition if one was taken, and one that fails had nothing to find
\* (of_cdev_find, cdev_find_child_by_gpt_typeuuid).
THEOREM ResolvesAsMeantHolds ==
    ASSUME NamesAsMeant, RegionsInCells, NoneIsNoCdev
    PROVE  CdevSpec => []ResolvesAsMeant
<1>1. ASSUME NEW m \in Machines, NEW n \in Nodes
      PROVE  AsMeant(m, n, BackendCdev(m, n))
  <2>1. CASE n.direct # NONE
    BY <2>1, DirectAsMeant
  <2>2. CASE n.direct = NONE
    <3>1. BackendCdev(m, n) = of_cdev_find(m, n)
      BY <2>2, NotADisk, CdevAssumption
    <3>2. AsMeant(m, n, of_cdev_find(m, n))
      BY <2>2, PartuuidAsMeant, MtdAsMeant, RegionAsMeant
    <3> QED
      BY <3>1, <3>2
  <2> QED
    BY <2>1, <2>2
<1>2. LookupInv => ResolvesAsMeant
  <2> SUFFICES ASSUME LookupInv PROVE ResolvesAsMeant
    OBVIOUS
  <2>1. step \in {"found", "ready", "failed"} => AsMeant(machine, node, cdev)
    BY <1>1 DEF LookupInv
  <2>2. step \in {"found", "ready"} => cdev # NONE
    BY DEF LookupInv
  <2> QED
    BY <2>1, <2>2 DEF AsMeant, ResolvesAsMeant
<1> QED
  BY <1>2, LookupInvHolds, PTL

-----------------------------------------------------------------------------
(* ToolMain: options, loads and saves, and the exit status *)

\* A value for every variable of every state.
IsValuation(f) ==
    /\ DOMAIN f = StateName /\ f = [st \in StateName |-> f[st]]
    /\ \A st \in StateName : f[st] = [v \in VarPath[st] |-> f[st][v]]

\* The -s in front of option p that mean variable v of state st.
SetsBefore(st, v, p) ==
    {i \in DOMAIN cmd.options :
        /\ i < p /\ ~cmd.options[i].get
        /\ Chosen(cmd.options[i].path) = [state |-> st, var |-> v]}

LastSet(s) == CHOOSE i \in s : \A j \in s : j <= i

\* What the options in front of option p make of what was loaded.
WantedBefore(st, v, p) ==
    IF SetsBefore(st, v, p) = {} THEN loaded[st][v]
    ELSE cmd.options[LastSet(SetsBefore(st, v, p))].val

AsWanted(p) ==
    \A st \in StateName : \A v \in VarPath[st] : mem[st][v] = WantedBefore(st, v, p)

\* The states in front of place p of the list.
Done(p) == {cmd.names[i] : i \in {j \in DOMAIN cmd.names : j < p}}

MainTypeInv ==
    /\ at \in {"idle", "load", "options", "save"}
    /\ at # "idle" => cmd \in CommandLine
    /\ cmd \in CommandLine \cup {NoCommand}
    /\ pos \in Nat \ {0}
    /\ IsValuation(mem) /\ IsValuation(disk) /\ IsValuation(before) /\ IsValuation(loaded)

\* A state that is not dirty is as it is stored.
LoadInv ==
    at = "load" =>
        /\ pos <= Len(cmd.names) + 1
        /\ disk = before
        /\ pos > 1 => mem = loaded
        /\ \A st \in StateName \ unsaved : loaded[st] = before[st]

OptionsInv ==
    at = "options" =>
        /\ pos <= Len(cmd.options) + 1
        /\ disk = before
        /\ AsWanted(pos)
        /\ \A st \in StateName \ unsaved : mem[st] = before[st]

\* While the states are saved, those in front have their new values and the
\* others their old ones.
SaveInv ==
    at = "save" =>
        /\ pos <= Len(cmd.names) + 1
        /\ AsWanted(Len(cmd.options) + 1)
        /\ Readonly => disk = before
        /\ ~Readonly => \A st \in Done(pos) : disk[st] = mem[st]
        /\ \A st \in StateName \ Done(pos) :
              /\ disk[st] = before[st]
              /\ st \notin unsaved => mem[st] = before[st]

MainInv ==
    MainTypeInv /\ LoadInv /\ OptionsInv /\ SaveInv /\ ExitStatusTellsStored

-----------------------------------------------------------------------------

LEMMA NamesFacts ==
    ASSUME cmd \in CommandLine
    PROVE  /\ Len(cmd.names) \in Nat \ {0} /\ DOMAIN cmd.names = 1 .. Len(cmd.names)
           /\ \A i \in 1 .. Len(cmd.names) : cmd.names[i] \in StateName
           /\ Head(cmd.names) \in StateName
           /\ Range(cmd.names) \subseteq StateName
           /\ Len(cmd.options) \in Nat /\ DOMAIN cmd.options = 1 .. Len(cmd.options)
<1>1. cmd.names \in Seq(StateName) /\ cmd.names # <<>>
  BY MainAssumption
<1> QED
  BY <1>1, MainAssumption DEF Range

\* An option means a variable of one of the states on the list.
LEMMA ChosenFacts ==
    ASSUME cmd \in CommandLine, NEW path
    PROVE  /\ Chosen(path).state \in StateName
           /\ Chosen(path) = [state |-> Chosen(path).state, var |-> Chosen(path).var]
BY NamesFacts DEF Chosen

\* Before the first option, and after an option that sets nothing here.
LEMMA NothingSet ==
    ASSUME NEW st \in StateName, NEW v \in VarPath[st]
    PROVE  cmd \in CommandLine => WantedBefore(st, v, 1) = loaded[st][v]
<1> SUFFICES ASSUME cmd \in CommandLine PROVE SetsBefore(st, v, 1) = {}
  BY DEF WantedBefore
<1> QED
  BY NamesFacts DEF SetsBefore

LEMMA OptionPassed ==
    ASSUME cmd \in CommandLine, NEW p \in DOMAIN cmd.options,
           NEW st \in StateName, NEW v \in VarPath[st]
    PROVE  IF /\ ~cmd.options[p].get
              /\ Chosen(cmd.options[p].path) = [state |-> st, var |-> v]
           THEN WantedBefore(st, v, p + 1) = cmd.options[p].val
           ELSE WantedBefore(st, v, p + 1) = WantedBefore(st, v, p)
<1> DEFINE S == SetsBefore(st, v, p)
           T == SetsBefore(st, v, p + 1)
           Sets(i) == /\ ~cmd.options[i].get
                      /\ Chosen(cmd.options[i].path) = [state |-> st, var |-> v]
<1>0. DOMAIN cmd.options \subseteq Nat
  BY NamesFacts
<1>1. \A i \in DOMAIN cmd.options : i < p + 1 <=> i < p \/ i = p
  BY <1>0
<1>2. /\ S = {i \in DOMAIN cmd.options : i < p /\ Sets(i)}
      /\ T = {i \in DOMAIN cmd.options : i < p + 1 /\ Sets(i)}
  BY DEF SetsBefore
<1> HIDE DEF Sets, S, T
<1>3. CASE Sets(p)
  <2>1. p \in T /\ \A j \in T : j <= p
    BY <1>0, <1>1, <1>2, <1>3
  <2>2. \A i \in T : (\A j \in T : j <= i) => i = p
    BY <1>0, <1>2, <2>1
  <2>3. LastSet(T) = p
    BY <2>1, <2>2 DEF LastSet
  <2> QED
    BY <1>3, <2>1, <2>3 DEF WantedBefore, T, Sets
<1>4. CASE ~Sets(p)
  <2>1. S = T
    BY <1>1, <1>2, <1>4
  <2> QED
    BY <1>4, <2>1 DEF WantedBefore, S, T, Sets
<1> QED
  BY <1>3, <1>4

\* All options together.
LEMMA AllWanted ==
    ASSUME cmd \in CommandLine, IsValuation(mem), AsWanted(Len(cmd.options) + 1),
           NEW st \in StateName
    PROVE  mem[st] = Wanted(st)
<1> DEFINE sets(v) == {i \in DOMAIN cmd.options :
                        /\ ~cmd.options[i].get
                        /\ Chosen(cmd.options[i].path) = [state |-> st, var |-> v]}
           n == Len(cmd.options) + 1
<1>1. \A i \in DOMAIN cmd.options : i < n
  BY NamesFacts
<1> HIDE DEF n
<1>2. \A v \in VarPath[st] : SetsBefore(st, v, n) = sets(v)
  BY <1>1 DEF SetsBefore
<1>3. Wanted(st) = [v \in VarPath[st] |->
                      IF sets(v) = {} THEN loaded[st][v]
                      ELSE cmd.options[LastSet(sets(v))].val]
  BY DEF Wanted, LastSet
<1>4. \A v \in VarPath[st] : mem[st][v] = IF sets(v) = {} THEN loaded[st][v]
                                          ELSE cmd.options[LastSet(sets(v))].val
  <2> HIDE DEF sets
  <2> QED
    BY <1>2 DEF AsWanted, WantedBefore, n
<1>5. mem[st] = [v \in VarPath[st] |-> mem[st][v]]
  BY DEF IsValuation
<1> HIDE DEF sets
<1> QED
  BY <1>3, <1>4, <1>5

-----------------------------------------------------------------------------

\* The first n states of the list have their new values, the others the old.
StoredUpTo(n) ==
    \A i \in DOMAIN cmd.names :
        disk[cmd.names[i]] = IF \E j \in 1 .. n : cmd.names[j] = cmd.names[i]
                             THEN Wanted(cmd.names[i]) ELSE before[cmd.names[i]]

LEMMA ExitFrom ==
    ASSUME NEW n \in 0 .. Len(cmd.names), StoredUpTo(n),
           Readonly => n = 0, status' = 0 /\ ~Readonly => n = Len(cmd.names),
           UNCHANGED <<cmd, disk, before, loaded>>
    PROVE  ExitStatusTellsStored'
<1>1. (Readonly' <=> Readonly) /\ \A st : Wanted(st)' = Wanted(st)
  BY DEF Readonly, Wanted, Chosen
<1>2. n \in 0 .. Len(cmd'.names)
  OBVIOUS
<1>3. \A i \in DOMAIN cmd'.names :
          disk'[cmd'.names[i]] = IF \E j \in 1 .. n : cmd'.names[j] = cmd'.names[i]
                                 THEN Wanted(cmd.names[i])' ELSE before'[cmd'.names[i]]
  BY <1>1 DEF StoredUpTo
<1> QED
  BY <1>1, <1>2, <1>3 DEF ExitStatusTellsStored

LEMMA MainInvInit == MainInit => MainInv
<1> SUFFICES ASSUME MainInit PROVE MainInv
  OBVIOUS
<1>1. disk = [st \in StateName |-> [v \in VarPath[st] |-> Start]]
  BY DEF MainInit, Defaults
<1>2. IsValuation(disk)
  BY <1>1 DEF IsValuation
<1>3. mem = disk /\ before = disk /\ loaded = disk
  BY DEF MainInit
<1> QED
  BY <1>2, <1>3 DEF MainInit, MainInv, MainTypeInv, LoadInv, OptionsInv, SaveInv,
                    ExitStatusTellsStored

\* What is wanted depends on the command line and on what was loaded only.
LEMMA WantedFrame ==
    ASSUME UNCHANGED <<cmd, loaded>>
    PROVE  /\ \A st, v, p : WantedBefore(st, v, p)' = WantedBefore(st, v, p)
           /\ Readonly' <=> Readonly
           /\ \A p : Done(p)' = Done(p)
BY DEF WantedBefore, SetsBefore, Chosen, Readonly, Done

LEMMA MainInvStep == MainInv /\ [MainNext]_mainVars => MainInv'
<1> SUFFICES ASSUME MainInv, [MainNext]_mainVars
             PROVE  MainInv'
  OBVIOUS
<1> USE DEF MainInv
<1>t. MainTypeInv
  OBVIOUS
<1>v. /\ pos \in Nat \ {0} /\ at \in {"idle", "load", "options", "save"}
      /\ IsValuation(mem) /\ IsValuation(disk) /\ IsValuation(before) /\ IsValuation(loaded)
  BY <1>t DEF MainTypeInv
<1>c. at # "idle" =>
        /\ cmd \in CommandLine
        /\ Len(cmd.names) \in Nat \ {0} /\ DOMAIN cmd.names = 1 .. Len(cmd.names)
        /\ \A i \in 1 .. Len(cmd.names) : cmd.names[i] \in StateName
        /\ Len(cmd.options) \in Nat /\ DOMAIN cmd.options = 1 .. Len(cmd.options)
  BY <1>t, NamesFacts DEF MainTypeInv
\* Leaving a loop with what is stored as it stands.
<1>q. ASSUME at # "idle", at' = "idle", pos' = 1,
             UNCHANGED <<cmd, mem, disk, before, loaded>>, ExitStatusTellsStored'
      PROVE  MainInv'
  <2>1. MainTypeInv'
    BY <1>q, <1>v, <1>t DEF MainTypeInv, IsValuation
  <2> QED
    BY <1>q, <2>1 DEF LoadInv, OptionsInv, SaveInv
\* Leaving before anything is saved.
<1>r. ASSUME at \in {"load", "options"}, Quit(1), UNCHANGED disk
      PROVE  MainInv'
  <2>1. /\ at' = "idle" /\ pos' = 1 /\ status' = 1
        /\ UNCHANGED <<cmd, mem, disk, before, loaded>>
    BY <1>r DEF Quit
  <2>2. disk = before
    BY <1>r DEF LoadInv, OptionsInv
  <2>3. StoredUpTo(0)
    BY <2>2 DEF StoredUpTo
  <2>4. 0 \in 0 .. Len(cmd.names)
    BY <1>c, <1>r
  <2>5. ExitStatusTellsStored'
    BY <2>1, <2>3, <2>4, ExitFrom
  <2> QED
    BY <1>q, <1>r, <2>1, <2>5
<1>1. ASSUME NEW c \in CommandLine, ParseOptions(c)
      PROVE  MainInv'
  <2>1. /\ at' = "load" /\ cmd' = c /\ pos' = 1 /\ before' = disk /\ loaded' = disk
        /\ UNCHANGED <<mem, disk>>
    BY <1>1 DEF ParseOptions
  <2>2. MainTypeInv'
    BY <1>v, <2>1 DEF MainTypeInv, IsValuation
  <2>3. Len(c.names) \in Nat
    BY MainAssumption
  <2> QED
    BY <2>1, <2>2, <2>3 DEF LoadInv, OptionsInv, SaveInv, ExitStatusTellsStored
<1>2. CASE LoadState
  <2> DEFINE st == cmd.names[pos]
  <2>1. /\ at = "load" /\ pos <= Len(cmd.names) /\ at' = at /\ pos' = pos + 1
        /\ UNCHANGED <<cmd, disk, before>> /\ mem' = loaded'
        /\ \/ loaded' = loaded /\ unsaved' = unsaved
           \/ loaded' = [loaded EXCEPT ![st] = Defaults(st)] /\ unsaved' = unsaved \cup {st}
    BY <1>2 DEF LoadState
  <2>2. st \in StateName
    BY <1>c, <1>v, <2>1
  <2> HIDE DEF st
  <2>3. \A x \in StateName \ {st} : loaded'[x] = loaded[x]
    BY <1>v, <2>1 DEF IsValuation
  <2>4. IsValuation(loaded')
    <3>1. CASE loaded' = loaded
      BY <1>v, <3>1
    <3>2. CASE loaded' = [loaded EXCEPT ![st] = Defaults(st)]
      <4>1. DOMAIN loaded' = StateName /\ loaded' = [x \in StateName |-> loaded'[x]]
        BY <1>v, <3>2 DEF IsValuation
      <4>2. loaded'[st] = [v \in VarPath[st] |-> Start]
        BY <1>v, <2>2, <3>2 DEF Defaults, IsValuation
      <4>3. loaded'[st] = [v \in VarPath[st] |-> loaded'[st][v]]
        BY <4>2
      <4> QED
        BY <1>v, <2>3, <4>1, <4>3 DEF IsValuation
    <3> QED
      BY <2>1, <3>1, <3>2
  <2>5. MainTypeInv'
    BY <1>v, <1>t, <2>1, <2>4 DEF MainTypeInv, IsValuation
  <2>6. LoadInv'
    <3>1. \A x \in StateName \ unsaved' : loaded'[x] = before[x]
      BY <2>1, <2>3 DEF LoadInv
    <3> QED
      BY <1>c, <1>v, <2>1, <3>1 DEF LoadInv
  <2> QED
    BY <2>1, <2>5, <2>6 DEF OptionsInv, SaveInv, ExitStatusTellsStored
<1>3. CASE NoSuchState
  BY <1>3, <1>r DEF NoSuchState
<1>4. CASE AllLoaded
  <2>1. /\ at = "load" /\ at' = "options" /\ pos' = 1 /\ pos > Len(cmd.names)
        /\ UNCHANGED <<cmd, mem, disk, unsaved, before, loaded, status>>
    BY <1>4 DEF AllLoaded
  <2>2. mem = loaded /\ disk = before
    BY <1>c, <1>v, <2>1 DEF LoadInv
  <2>3. \A st \in StateName : \A v \in VarPath[st] :
            mem[st][v] = WantedBefore(st, v, 1)
    BY <1>c, <2>1, <2>2, NothingSet
  <2>4. AsWanted(1)'
    BY <2>1, <2>3, WantedFrame DEF AsWanted
  <2>5. MainTypeInv'
    BY <1>t, <2>1 DEF MainTypeInv, IsValuation
  <2>6. OptionsInv'
    BY <1>c, <2>1, <2>2, <2>4 DEF OptionsInv, LoadInv
  <2> QED
    BY <2>1, <2>5, <2>6 DEF LoadInv, SaveInv, ExitStatusTellsStored
<1>5. CASE OptionDone
  <2> DEFINE c == Chosen(Option.path)
  <2>1. /\ at = "options" /\ pos <= Len(cmd.options) /\ pos' = pos + 1
        /\ UNCHANGED <<cmd, at, disk, before, loaded, status>>
        /\ Known(c)
        /\ \/ Option.get /\ UNCHANGED <<mem, unsaved>>
           \/ /\ ~Option.get
              /\ mem' = [mem EXCEPT ![c.state][c.var] = Option.val]
              /\ unsaved' = IF Option.val = mem[c.state][c.var]
                            THEN unsaved ELSE unsaved \cup {c.state}
    BY <1>5 DEF OptionDone
  <2>2. /\ c.state \in StateName /\ c.var \in VarPath[c.state]
        /\ c = [state |-> c.state, var |-> c.var]
    BY <1>c, <2>1, ChosenFacts DEF Known
  <2>3. pos \in DOMAIN cmd.options /\ Option = cmd.options[pos]
    <3>1. cmd.options[pos] = Option
      BY DEF Option
    <3>2. pos \in 1 .. Len(cmd.options)
      BY <1>c, <1>v, <2>1
    <3> QED
      BY <1>c, <2>1, <3>1, <3>2
  <2>p. /\ \A st \in StateName : \A v \in VarPath[st] :
              IF ~Option.get /\ c = [state |-> st, var |-> v]
              THEN WantedBefore(st, v, pos + 1) = Option.val
              ELSE WantedBefore(st, v, pos + 1) = WantedBefore(st, v, pos)
    <3>1. cmd \in CommandLine
      BY <1>c, <2>1
    <3> QED
      BY <2>3, <3>1, OptionPassed
  <2>a. AsWanted(pos)
    BY <2>1 DEF OptionsInv
  <2> HIDE DEF c
  <2>4. /\ IsValuation(mem')
        /\ \A st \in StateName : \A v \in VarPath[st] :
              mem'[st][v] = WantedBefore(st, v, pos + 1)
        /\ \A st \in StateName \ unsaved' : mem'[st] = before[st]
    <3>1. CASE Option.get
      BY <1>v, <2>1, <2>a, <2>p, <3>1 DEF AsWanted, OptionsInv
    <3>2. CASE ~Option.get
      <4> DEFINE s == c.state
                 x == c.var
      <4>1. mem' = [mem EXCEPT ![s] = [mem[s] EXCEPT ![x] = Option.val]]
        BY <2>1, <3>2
      <4>2. s \in StateName /\ x \in VarPath[s] /\ c = [state |-> s, var |-> x]
        BY <2>2
      <4>3. /\ DOMAIN mem = StateName /\ DOMAIN mem[s] = VarPath[s]
            /\ mem[s] = [v \in VarPath[s] |-> mem[s][v]]
        BY <1>v, <4>2 DEF IsValuation
      <4>u. unsaved' = IF Option.val = mem[s][x] THEN unsaved ELSE unsaved \cup {s}
        BY <2>1, <3>2
      <4> HIDE DEF s, x
      <4>4. /\ DOMAIN mem' = StateName /\ mem' = [y \in StateName |-> mem'[y]]
            /\ \A y \in StateName \ {s} : mem'[y] = mem[y]
            /\ mem'[s] = [mem[s] EXCEPT ![x] = Option.val]
        BY <1>v, <4>1, <4>2, <4>3 DEF IsValuation
      <4>5. /\ mem'[s] = [v \in VarPath[s] |-> mem'[s][v]]
            /\ \A v \in VarPath[s] : mem'[s][v] = IF v = x THEN Option.val ELSE mem[s][v]
        BY <4>2, <4>3, <4>4
      <4>6. IsValuation(mem')
        BY <1>v, <4>4, <4>5 DEF IsValuation
      <4>7. ASSUME NEW st \in StateName, NEW v \in VarPath[st]
            PROVE  mem'[st][v] = WantedBefore(st, v, pos + 1)
        <5>1. mem[st][v] = WantedBefore(st, v, pos)
          BY <2>a DEF AsWanted
        <5>2. CASE st = s /\ v = x
          BY <2>p, <3>2, <4>2, <4>5, <5>2
        <5>3. CASE ~(st = s /\ v = x)
          <6>1. c # [state |-> st, var |-> v]
            BY <4>2, <5>3
          <6> QED
            BY <2>p, <4>4, <4>5, <5>1, <5>3, <6>1
        <5> QED
          BY <5>2, <5>3
      <4>8. ASSUME NEW st \in StateName \ unsaved'
            PROVE  mem'[st] = before[st]
        <5>1. mem[st] = before[st]
          BY <2>1, <4>u DEF OptionsInv
        <5>2. CASE st # s
          BY <4>4, <5>1, <5>2
        <5>3. CASE st = s
          <6>1. Option.val = mem[s][x]
            BY <4>u, <5>3
          <6>2. \A v \in VarPath[s] : mem'[s][v] = mem[s][v]
            BY <4>5, <6>1
          <6>3. mem'[s] = mem[s]
            BY <4>3, <4>5, <6>2
          <6> QED
            BY <5>1, <5>3, <6>3
        <5> QED
          BY <5>2, <5>3
      <4> QED
        BY <4>6, <4>7, <4>8
    <3> QED
      BY <3>1, <3>2
  <2>5. AsWanted(pos)'
    BY <2>1, <2>4, WantedFrame DEF AsWanted
  <2>6. MainTypeInv'
    BY <1>t, <1>v, <2>1, <2>4 DEF MainTypeInv, IsValuation
  <2>7. OptionsInv'
    BY <1>c, <1>v, <2>1, <2>4, <2>5 DEF OptionsInv
  <2> QED
    BY <2>1, <2>6, <2>7 DEF LoadInv, SaveInv, ExitStatusTellsStored
<1>6. CASE OptionFails
  BY <1>6, <1>r DEF OptionFails
<1>7. CASE AllApplied
  <2>1. /\ at = "options" /\ at' = "save" /\ pos' = 1 /\ pos > Len(cmd.options)
        /\ UNCHANGED <<cmd, mem, disk, unsaved, before, loaded, status>>
    BY <1>7 DEF AllApplied
  <2>2. pos = Len(cmd.options) + 1 /\ disk = before
    BY <1>c, <1>v, <2>1 DEF OptionsInv
  <2>3. AsWanted(Len(cmd.options) + 1)'
    <3>1. \A st \in StateName : \A v \in VarPath[st] :
              mem[st][v] = WantedBefore(st, v, Len(cmd.options) + 1)
      BY <2>1, <2>2 DEF OptionsInv, AsWanted
    <3> QED
      BY <2>1, <3>1, WantedFrame DEF AsWanted
  <2>4. Done(1)' = {}
    <3>1. Done(1) = {}
      BY <1>c, <2>1 DEF Done
    <3> QED
      BY <2>1, <3>1, WantedFrame
  <2>5. MainTypeInv'
    BY <1>t, <2>1 DEF MainTypeInv, IsValuation
  <2>6. SaveInv'
    <3>1. Done(pos)' = {}
      BY <2>1, <2>4 DEF Done
    <3> QED
      BY <1>c, <2>1, <2>2, <2>3, <3>1 DEF SaveInv, OptionsInv
  <2> QED
    BY <2>1, <2>5, <2>6 DEF LoadInv, OptionsInv, ExitStatusTellsStored
<1>8. CASE SaveState
  <2> DEFINE s == cmd.names[pos]
  <2>1. /\ at = "save" /\ pos <= Len(cmd.names) /\ pos' = pos + 1
        /\ UNCHANGED <<cmd, at, mem, before, loaded, status>>
        /\ IF s \in unsaved
           THEN /\ disk' = IF Readonly THEN disk ELSE [disk EXCEPT ![s] = mem[s]]
                /\ unsaved' = unsaved \ {s}
           ELSE UNCHANGED <<disk, unsaved>>
    BY <1>8 DEF SaveState
  <2>2. s \in StateName
    BY <1>c, <1>v, <2>1
  <2>d. Done(pos + 1) = Done(pos) \cup {s}
    <3>1. \A j \in DOMAIN cmd.names : j < pos + 1 <=> j < pos \/ j = pos
      BY <1>c, <1>v, <2>1
    <3>2. pos \in DOMAIN cmd.names
      BY <1>c, <1>v, <2>1
    <3> QED
      BY <3>1, <3>2 DEF Done
  <2> HIDE DEF s
  <2>3. /\ IsValuation(disk')
        /\ \A st \in StateName \ {s} : disk'[st] = disk[st]
        /\ Readonly => disk' = disk
        /\ s \in unsaved /\ ~Readonly => disk'[s] = mem[s]
        /\ s \notin unsaved => disk'[s] = disk[s]
    <3>1. CASE s \notin unsaved \/ Readonly
      <4>1. disk' = disk
        BY <2>1, <3>1
      <4> QED
        BY <1>v, <3>1, <4>1
    <3>2. CASE s \in unsaved /\ ~Readonly
      <4>0. disk' = [disk EXCEPT ![s] = mem[s]]
        BY <2>1, <3>2
      <4>1. DOMAIN disk' = StateName /\ disk' = [x \in StateName |-> disk'[x]]
        BY <1>v, <4>0 DEF IsValuation
      <4>2. disk'[s] = mem[s] /\ \A st \in StateName \ {s} : disk'[st] = disk[st]
        BY <1>v, <2>2, <4>0 DEF IsValuation
      <4>3. IsValuation(disk')
        BY <1>v, <4>1, <4>2 DEF IsValuation
      <4> QED
        BY <3>2, <4>2, <4>3
    <3> QED
      BY <3>1, <3>2
  <2>4. MainTypeInv'
    BY <1>t, <1>v, <2>1, <2>3 DEF MainTypeInv, IsValuation
  <2>5. AsWanted(Len(cmd.options) + 1)'
    <3>1. \A st \in StateName : \A v \in VarPath[st] :
              mem[st][v] = WantedBefore(st, v, Len(cmd.options) + 1)
      BY <2>1 DEF SaveInv, AsWanted
    <3> QED
      BY <2>1, <3>1, WantedFrame DEF AsWanted
  <2>6. Done(pos)' = Done(pos) \cup {s} /\ Done(pos) \subseteq StateName
    BY <1>c, <2>1, <2>d DEF Done
  <2>7. Readonly \/ disk'[s] = mem[s]
    BY <2>1, <2>2, <2>3 DEF SaveInv
  <2>8. ASSUME ~Readonly, NEW st \in Done(pos)'
        PROVE  disk'[st] = mem[st]
    BY <2>1, <2>3, <2>6, <2>7, <2>8 DEF SaveInv
  <2>9. ASSUME NEW st \in StateName \ Done(pos)'
        PROVE  /\ disk'[st] = before[st]
               /\ st \notin unsaved' => mem[st] = before[st]
    <3>1. st # s /\ st \in StateName \ Done(pos) /\ (st \in unsaved' <=> st \in unsaved)
      BY <2>1, <2>6, <2>9
    <3> QED
      BY <2>1, <2>3, <3>1 DEF SaveInv
  <2>10. Readonly' <=> Readonly
    BY <2>1, WantedFrame
  <2>11. SaveInv'
    BY <1>c, <1>v, <2>1, <2>3, <2>5, <2>8, <2>9, <2>10 DEF SaveInv
  <2> QED
    BY <2>1, <2>4, <2>11 DEF LoadInv, OptionsInv, ExitStatusTellsStored
\* The states in front are stored as wanted, the others are as before.
<1>s. ASSUME at = "save", ~Readonly
      PROVE  StoredUpTo(pos - 1)
  <2> SUFFICES ASSUME NEW i \in DOMAIN cmd.names
               PROVE  disk[cmd.names[i]] =
                        IF \E j \in 1 .. pos - 1 : cmd.names[j] = cmd.names[i]
                        THEN Wanted(cmd.names[i]) ELSE before[cmd.names[i]]
    BY DEF StoredUpTo
  <2>1. cmd.names[i] \in StateName /\ cmd \in CommandLine
    BY <1>c, <1>s
  <2>2. mem[cmd.names[i]] = Wanted(cmd.names[i])
    BY <1>s, <1>v, <2>1, AllWanted DEF SaveInv
  <2>3. cmd.names[i] \in Done(pos) <=> \E j \in 1 .. pos - 1 : cmd.names[j] = cmd.names[i]
    <3>1. \A j : (j \in DOMAIN cmd.names /\ j < pos) <=> j \in 1 .. pos - 1
      BY <1>c, <1>s, <1>v DEF SaveInv
    <3> QED
      BY <3>1 DEF Done
  <2> QED
    BY <1>s, <2>1, <2>2, <2>3 DEF SaveInv
<1>9. CASE SaveFails
  <2>1. /\ at = "save" /\ pos <= Len(cmd.names) /\ ~Readonly
        /\ at' = "idle" /\ pos' = 1 /\ status' = 1
        /\ UNCHANGED <<cmd, mem, disk, before, loaded>>
    BY <1>9 DEF SaveFails, Quit
  <2>2. pos - 1 \in 0 .. Len(cmd.names)
    BY <1>c, <1>v, <2>1
  <2>3. ExitStatusTellsStored'
    BY <1>s, <2>1, <2>2, ExitFrom
  <2> QED
    BY <1>q, <2>1, <2>3
<1>10. CASE AllSaved
  <2>1. /\ at = "save" /\ pos > Len(cmd.names)
        /\ at' = "idle" /\ pos' = 1 /\ status' = 0
        /\ UNCHANGED <<cmd, mem, disk, before, loaded>>
    BY <1>10 DEF AllSaved, Quit
  <2>2. /\ pos - 1 \in 0 .. Len(cmd.names) /\ pos - 1 = Len(cmd.names)
        /\ 0 \in 0 .. Len(cmd.names)
    BY <1>c, <1>v, <2>1 DEF SaveInv
  <2>3. CASE ~Readonly
    <3>1. ExitStatusTellsStored'
      BY <1>s, <2>1, <2>2, <2>3, ExitFrom
    <3> QED
      BY <1>q, <2>1, <3>1
  <2>4. CASE Readonly
    <3>1. StoredUpTo(0)
      BY <2>1, <2>4 DEF SaveInv, StoredUpTo
    <3>2. ExitStatusTellsStored'
      BY <2>1, <2>2, <2>4, <3>1, ExitFrom
    <3> QED
      BY <1>q, <2>1, <3>2
  <2> QED
    BY <2>3, <2>4
<1>11. CASE UNCHANGED mainVars
  <2>1. UNCHANGED <<cmd, at, pos, mem, disk, unsaved, before, loaded, status>>
    BY <1>11 DEF mainVars
  <2>2. MainTypeInv'
    BY <1>t, <2>1 DEF MainTypeInv, IsValuation
  <2>f. /\ AsWanted(pos)' <=> AsWanted(pos)
        /\ AsWanted(Len(cmd.options) + 1)' <=> AsWanted(Len(cmd.options) + 1)
        /\ Done(pos)' = Done(pos) /\ (Readonly' <=> Readonly)
    BY <2>1, WantedFrame DEF AsWanted, Done
  <2>3. LoadInv' /\ OptionsInv' /\ SaveInv'
    BY <2>1, <2>f DEF LoadInv, OptionsInv, SaveInv
  <2>w. \A st : Wanted(st)' = Wanted(st)
    BY <2>1 DEF Wanted, Chosen
  <2>4. ExitStatusTellsStored'
    BY <2>1, <2>f, <2>w DEF ExitStatusTellsStored
  <2> QED
    BY <2>2, <2>3, <2>4
<1> QED
  BY <1>1, <1>2, <1>3, <1>4, <1>5, <1>6, <1>7, <1>8, <1>9, <1>10, <1>11 DEF MainNext

\* For all states, variables and command lines: status 0 says that everything
\* is stored that was set, status 1 that the first states of the list are stored
\* with all of their new values and the others are as before, wherever the run
\* ended.
THEOREM ExitStatusTellsStoredHolds == MainSpec => []ExitStatusTellsStored
<1>1. MainInv => ExitStatusTellsStored
  BY DEF MainInv
<1> QED
  BY <1>1, MainInvInit, MainInvStep, PTL DEF MainSpec

-----------------------------------------------------------------------------
(* Digest: sums do not depend on the pieces of a message *)

\* A block has room for the length and for a byte before it.
LEMMA SizeFacts == Block \in Nat \ {0} /\ LenBytes \in Nat \ {0} /\ LenBytes < Block
BY DigestAssumption

\* Quotient and remainder, in the form the steps below use.
LEMMA DivMod ==
    ASSUME NEW n \in Nat, NEW b \in Nat \ {0}
    PROVE  /\ n \div b \in Nat /\ n % b \in 0 .. b - 1
           /\ n = b * (n \div b) + (n % b)
OBVIOUS

\* They are the only ones.
LEMMA DivUnique ==
    ASSUME NEW q \in Nat, NEW r \in Nat, NEW b \in Nat \ {0}, r < b
    PROVE  (q * b + r) \div b = q /\ (q * b + r) % b = r
<1> DEFINE n == q * b + r
<1>1. n \in Nat
  OBVIOUS
<1>2. n \div b \in Nat /\ n % b \in 0 .. b - 1 /\ n = b * (n \div b) + (n % b)
  BY <1>1, DivMod
<1> DEFINE p == n \div b
           s == n % b
<1>3. p \in Nat /\ s \in 0 .. b - 1 /\ q * b + r = b * p + s
  BY <1>2
<1> HIDE DEF p, s, n
<1>4. (q - p) * b = s - r
  BY <1>3
<1>5. q - p = 0
  BY <1>3, <1>4
<1>6. q = p /\ s = r
  BY <1>3, <1>4, <1>5
<1> QED
  BY <1>6 DEF p, s, n

\* What a concatenation holds at its positions.
LEMMA Concat ==
    ASSUME NEW S, NEW s \in Seq(S), NEW t \in Seq(S)
    PROVE  /\ s \o t \in Seq(S) /\ Len(s \o t) = Len(s) + Len(t)
           /\ \A i \in 1 .. Len(s) : (s \o t)[i] = s[i]
           /\ \A i \in 1 .. Len(t) : (s \o t)[Len(s) + i] = t[i]
OBVIOUS

\* A position of the first part.
LEMMA ConcatLeft ==
    ASSUME NEW S, NEW s \in Seq(S), NEW t \in Seq(S), NEW i \in 1 .. Len(s)
    PROVE  (s \o t)[i] = s[i]
OBVIOUS

\* A position of the second part.
LEMMA ConcatRight ==
    ASSUME NEW S, NEW s \in Seq(S), NEW t \in Seq(S), NEW i \in 1 .. Len(t)
    PROVE  (s \o t)[Len(s) + i] = t[i]
OBVIOUS

\* A part of a sequence that lies within it.
LEMMA SubSeqIs ==
    ASSUME NEW S, NEW s \in Seq(S), NEW a \in Nat, NEW l \in Nat, a + l <= Len(s)
    PROVE  SubSeq(s, a + 1, a + l) = [i \in 1 .. l |-> s[a + i]]
OBVIOUS

\* The first q blocks of a message, and a context that has taken in all of it:
\* whole blocks are in the state, the rest is in the buffer.
Piece(m, k) == [i \in 1 .. Block |-> m[(k - 1) * Block + i]]
Cut(m, q) == [k \in 1 .. q |-> Piece(m, k)]

Took(c, m, q) ==
    /\ q \in Nat /\ q * Block <= Len(m) /\ Len(m) < q * Block + Block
    /\ c = [state |-> Cut(m, q), count |-> Len(m), buf |-> c.buf]
    /\ \A i \in 1 .. Len(m) - q * Block : c.buf[i] = m[q * Block + i]

\* Two stretches of a function that follow each other.
LEMMA Glue ==
    ASSUME NEW a \in Nat, NEW b \in Nat, NEW f
    PROVE  [k \in 1 .. a |-> f[k]] \o [k \in 1 .. b |-> f[a + k]] = [k \in 1 .. a + b |-> f[k]]
<1> DEFINE s == [k \in 1 .. a |-> f[k]]
           t == [k \in 1 .. b |-> f[a + k]]
           S == {f[k] : k \in 1 .. a + b}
           u == [k \in 1 .. a + b |-> f[k]]
<1>1. s \in [1 .. a -> S] /\ t \in [1 .. b -> S] /\ u \in [1 .. a + b -> S]
  OBVIOUS
<1>2. /\ \A k \in 1 .. a : s[k] = f[k]
      /\ \A k \in 1 .. b : t[k] = f[a + k]
      /\ \A k \in 1 .. a + b : u[k] = f[k]
  OBVIOUS
<1> HIDE DEF s, t, u, S
<1>3. s \in Seq(S) /\ Len(s) = a /\ t \in Seq(S) /\ Len(t) = b /\ u \in Seq(S) /\ Len(u) = a + b
  BY <1>1
<1> DEFINE v == s \o t
<1>4. /\ v \in Seq(S) /\ Len(v) = a + b
      /\ \A i \in 1 .. a : v[i] = s[i]
      /\ \A i \in 1 .. b : v[a + i] = t[i]
  <2>1. /\ v \in Seq(S) /\ Len(v) = Len(s) + Len(t)
        /\ \A i \in 1 .. Len(s) : v[i] = s[i]
        /\ \A i \in 1 .. Len(t) : v[Len(s) + i] = t[i]
    <3>1. s \in Seq(S) /\ t \in Seq(S)
      BY <1>3
    <3> QED
      BY <3>1, Concat
  <2> HIDE DEF v
  <2> QED
    BY <1>3, <2>1
<1> HIDE DEF v
<1>5. ASSUME NEW k \in 1 .. a + b PROVE v[k] = u[k]
  <2>1. CASE k <= a
    BY <1>2, <1>4, <2>1
  <2>2. CASE k > a
    <3>1. k - a \in 1 .. b /\ a + (k - a) = k
      BY <2>2
    <3>2. v[k] = t[k - a] /\ t[k - a] = f[k]
      BY <1>2, <1>4, <3>1
    <3> QED
      BY <1>2, <3>2
  <2> QED
    BY <2>1, <2>2
<1>6. v = u
  BY <1>3, <1>4, <1>5
<1> QED
  BY <1>6 DEF s, t, u, v

\* Positions of the last of k blocks.
LEMMA BlockEnds ==
    ASSUME NEW b \in Nat \ {0}, NEW k \in Nat, NEW n \in Nat, k * b <= n,
           NEW j \in 1 .. k, NEW i \in 1 .. b
    PROVE  (j - 1) * b + i \in 1 .. n /\ (j - 1) * b \in Nat /\ (j - 1) * b + b = j * b
<1>1. (j - 1) * b \in Nat
  OBVIOUS
<1>2. (j - 1) * b + b = j * b
  OBVIOUS
<1>3. j * b <= k * b
  <2>1. (k - j) * b >= 0
    OBVIOUS
  <2>2. (k - j) * b = k * b - j * b
    OBVIOUS
  <2>3. j * b \in Int /\ k * b \in Int
    OBVIOUS
  <2> QED
    BY <2>1, <2>2, <2>3
<1>4. j * b \in Int /\ k * b \in Int
  OBVIOUS
<1> QED
  BY <1>1, <1>2, <1>3, <1>4

\* The blocks of a message are those of every longer one.
LEMMA CutExtends ==
    ASSUME NEW V, NEW m \in Seq(V), NEW d \in Seq(V), NEW q \in Nat, q * Block <= Len(m)
    PROVE  Cut(m \o d, q) = Cut(m, q)
<1>1. Block \in Nat \ {0} /\ Len(m) \in Nat
  BY SizeFacts
<1>2. ASSUME NEW k \in 1 .. q, NEW i \in 1 .. Block
      PROVE  (m \o d)[(k - 1) * Block + i] = m[(k - 1) * Block + i]
  <2>1. (k - 1) * Block + i \in 1 .. Len(m)
    BY <1>1, BlockEnds
  <2> QED
    BY <2>1, ConcatLeft
<1>3. \A k \in 1 .. q : Piece(m \o d, k) = Piece(m, k)
  BY <1>2 DEF Piece
<1> QED
  BY <1>3 DEF Cut

\* An update that does not fill the buffer: nothing is transformed.
LEMMA UpdateShort ==
    ASSUME NEW V, NEW m \in Seq(V), NEW d \in Seq(V), NEW c, NEW q, Took(c, m, q),
           Len(m) - q * Block + Len(d) <= Block - 1
    PROVE  Took(DigestUpdate(c, d), m \o d, q)
<1> DEFINE w == m \o d
           r == Len(m) - q * Block
           g == Copied(c.buf, r, d)
<1>1. /\ Block \in Nat \ {0} /\ Len(m) \in Nat /\ Len(d) \in Nat /\ q \in Nat /\ q * Block \in Nat
      /\ q * Block <= Len(m) /\ Len(m) < q * Block + Block
      /\ r \in Nat /\ r < Block /\ q * Block + r = Len(m)
  <2>1. Block \in Nat \ {0} /\ Len(m) \in Nat /\ Len(d) \in Nat
    BY SizeFacts
  <2>2. q \in Nat /\ q * Block <= Len(m) /\ Len(m) < q * Block + Block
    BY DEF Took
  <2>3. q * Block \in Nat
    BY <2>1, <2>2
  <2> QED
    BY <2>1, <2>2, <2>3
<1>2. c.count = Len(m) /\ c.state = Cut(m, q) /\ c = [state |-> Cut(m, q), count |-> Len(m), buf |-> c.buf]
  BY DEF Took
<1>3. c.count % Block = r
  <2> HIDE DEF r
  <2>1. (q * Block + r) % Block = r
    BY <1>1, DivUnique
  <2> QED
    BY <1>1, <1>2, <2>1
<1>4. ~NeedsTransform(r, Len(d))
  BY <1>1 DEF NeedsTransform
<1>5. DigestUpdate(c, d) = [c EXCEPT !.count = @ + Len(d), !.buf = Copied(@, r, d)]
  BY <1>3, <1>4 DEF DigestUpdate
<1>6. DigestUpdate(c, d) = [state |-> Cut(m, q), count |-> Len(m) + Len(d), buf |-> g]
  BY <1>2, <1>5
<1>7. Len(w) = Len(m) + Len(d) /\ Cut(w, q) = Cut(m, q)
  BY <1>1, CutExtends, Concat
<1>8. ASSUME NEW i \in 1 .. Len(w) - q * Block PROVE g[i] = w[q * Block + i]
  <2>1. i \in 1 .. r + Len(d) /\ i \in 1 .. Block
    BY <1>1, <1>7
  <2>2. g[i] = IF i > r /\ i <= r + Len(d) THEN d[i - r] ELSE c.buf[i]
    <3> HIDE DEF r
    <3> QED
      BY <2>1 DEF Copied
  <2>3. CASE i <= r
    <3>1. i \in 1 .. r /\ q * Block + i \in 1 .. Len(m)
      BY <1>1, <2>1, <2>3
    <3>2. c.buf[i] = m[q * Block + i]
      BY <3>1 DEF Took
    <3> QED
      <4>1. w[q * Block + i] = m[q * Block + i]
        BY <3>1, ConcatLeft
      <4>2. g[i] = c.buf[i]
        <5> HIDE DEF g
        <5> QED
          BY <1>1, <2>1, <2>2, <2>3
      <4> QED
        BY <3>2, <4>1, <4>2
  <2>4. CASE i > r
    <3>1. i - r \in 1 .. Len(d) /\ q * Block + i = Len(m) + (i - r)
      BY <1>1, <2>1, <2>4
    <3>2. w[Len(m) + (i - r)] = d[i - r]
      BY <3>1, ConcatRight
    <3> QED
      BY <2>1, <2>2, <2>4, <3>1, <3>2
  <2> HIDE DEF g, w, r
  <2>5. i <= r \/ i > r
    BY <1>1, <2>1
  <2> QED
    BY <2>3, <2>4, <2>5
<1> HIDE DEF g, w, r
<1>9. q * Block <= Len(w) /\ Len(w) < q * Block + Block
  BY <1>1, <1>7
<1>10. Took([state |-> Cut(w, q), count |-> Len(w), buf |-> g], w, q)
  BY <1>1, <1>8, <1>9 DEF Took
<1> QED
  BY <1>6, <1>7, <1>10 DEF w

\* A block's worth of bytes of a message after the first y.
BytesFrom(m, y) == [i \in 1 .. Block |-> m[y + i]]

\* The last r bytes of a message, from y on, are in the buffer, and the data is
\* enough to fill it up.
Filling(m, d, y, buf, r) ==
    /\ y \in Nat /\ r \in Nat /\ Len(m) = y + r /\ r < Block /\ Block - r <= Len(d)
    /\ \A i \in 1 .. r : buf[i] = m[y + i]

\* Filling up the buffer makes the next Block bytes of the message.
LEMMA FilledUpFrom ==
    ASSUME NEW V, NEW m \in Seq(V), NEW d \in Seq(V), NEW y, NEW buf, NEW r, Filling(m, d, y, buf, r)
    PROVE  Copied(buf, r, SubSeq(d, 1, Block - r)) = BytesFrom(m \o d, y)
<1> DEFINE w == m \o d
           e == Block - r
           s == SubSeq(d, 1, e)
<1>0. /\ y \in Nat /\ r \in Nat /\ Len(m) = y + r /\ r < Block /\ Block - r <= Len(d)
      /\ \A i \in 1 .. r : buf[i] = m[y + i]
  BY DEF Filling
<1>1. Block \in Nat \ {0} /\ Len(m) \in Nat /\ Len(d) \in Nat /\ e \in Nat /\ e <= Len(d)
  BY <1>0, SizeFacts
<1>2. s = [i \in 1 .. e |-> d[0 + i]]
  <2> HIDE DEF e
  <2>1. SubSeq(d, 0 + 1, 0 + e) = [i \in 1 .. e |-> d[0 + i]]
    BY <1>1, SubSeqIs
  <2> QED
    BY <1>1, <2>1
<1>3. Len(s) = e /\ \A i \in 1 .. e : s[i] = d[i]
  <2> HIDE DEF s, e
  <2> QED
    BY <1>1, <1>2
<1>5. ASSUME NEW k \in 1 .. Block
      PROVE  (IF k > r /\ k <= r + Len(s) THEN s[k - r] ELSE buf[k]) = w[y + k]
  <2>1. CASE k <= r
    <3>1. k \in 1 .. r /\ y + k \in 1 .. Len(m) /\ ~(k > r)
      BY <1>0, <1>1, <2>1
    <3>2. w[y + k] = m[y + k]
      BY <3>1, ConcatLeft
    <3> QED
      BY <1>0, <3>1, <3>2
  <2>2. CASE k > r
    <3>1. k - r \in 1 .. e /\ k - r \in 1 .. Len(d) /\ y + k = Len(m) + (k - r)
      BY <1>0, <1>1, <2>2
    <3>2. w[Len(m) + (k - r)] = d[k - r]
      <4> DEFINE j == k - r
      <4>1. j \in 1 .. Len(d)
        BY <3>1
      <4> HIDE DEF j
      <4>2. w[Len(m) + j] = d[j]
        BY <4>1, ConcatRight
      <4> QED
        BY <4>2 DEF j
    <3>3. s[k - r] = d[k - r]
      BY <1>3, <3>1
    <3>4. k <= r + Len(s)
      BY <1>0, <1>1, <1>3
    <3> HIDE DEF s, w, e
    <3> QED
      BY <2>2, <3>1, <3>2, <3>3, <3>4
  <2>3. k <= r \/ k > r
    BY <1>0, <1>1
  <2> HIDE DEF s, w, e
  <2> QED
    BY <2>1, <2>2, <2>3
<1> HIDE DEF s, w
<1>6. Copied(buf, r, s) = [k \in 1 .. Block |-> w[y + k]]
  BY <1>5 DEF Copied
<1> QED
  BY <1>6 DEF s, w, BytesFrom

\* They are the next block of it.
LEMMA FilledUp ==
    ASSUME NEW V, NEW m \in Seq(V), NEW d \in Seq(V), NEW q \in Nat, NEW buf, NEW r,
           Filling(m, d, q * Block, buf, r)
    PROVE  Copied(buf, r, SubSeq(d, 1, Block - r)) = Piece(m \o d, q + 1)
<1> DEFINE y == q * Block
<1>1. ((q + 1) - 1) * Block = y
  BY SizeFacts
<1>2. Filling(m, d, y, buf, r)
  OBVIOUS
<1> HIDE DEF y
<1>3. Copied(buf, r, SubSeq(d, 1, Block - r)) = BytesFrom(m \o d, y)
  BY <1>2, FilledUpFrom
<1> QED
  BY <1>1, <1>3 DEF Piece, BytesFrom

\* Blocks that are taken from the data itself.
LEMMA TakenWhole ==
    ASSUME NEW V, NEW m \in Seq(V), NEW d \in Seq(V), NEW p \in Nat, NEW e \in Nat,
           p * Block \in Nat, Len(m) + e = p * Block, NEW t \in Nat, t = (Len(d) - e) \div Block,
           t * Block \in Nat, e + t * Block <= Len(d)
    PROVE  WholeBlocks(d, e) = [j \in 1 .. t |-> Piece(m \o d, p + j)]
<1> DEFINE w == m \o d
<1>1. Block \in Nat \ {0} /\ Len(m) \in Nat /\ Len(d) \in Nat
  BY SizeFacts
<1>2. ASSUME NEW j \in 1 .. t
      PROVE  SubSeq(d, e + (j - 1) * Block + 1, e + j * Block) = Piece(w, p + j)
  <2> DEFINE x == (j - 1) * Block
             y == p * Block
             z == t * Block
             a == e + x
  <2>1. x \in Nat /\ x + Block = j * Block /\ x + Block <= z
    <3>1. z \in Nat /\ z <= z /\ Block \in 1 .. Block
      BY <1>1
    <3> HIDE DEF z
    <3>2. x + Block \in 1 .. z /\ x \in Nat /\ x + Block = j * Block
      BY <1>1, <3>1, BlockEnds DEF z
    <3> QED
      BY <1>1, <3>1, <3>2
  <2>2. ((p + j) - 1) * Block = y + x /\ y \in Nat /\ z \in Nat
    BY <1>1
  <2>3. a \in Nat /\ a + Block <= Len(d) /\ e + j * Block = a + Block
    <3> HIDE DEF x
    <3>1. e + z <= Len(d)
      OBVIOUS
    <3> HIDE DEF z
    <3> QED
      BY <1>1, <2>1, <2>2, <3>1
  <2>4. SubSeq(d, a + 1, a + Block) = [i \in 1 .. Block |-> d[a + i]]
    <3> HIDE DEF a
    <3> QED
      BY <1>1, <2>3, SubSeqIs
  <2>5. ASSUME NEW i \in 1 .. Len(d) PROVE w[Len(m) + i] = d[i]
    BY ConcatRight
  <2> HIDE DEF w
  <2>6. ASSUME NEW i \in 1 .. Block PROVE d[a + i] = w[((p + j) - 1) * Block + i]
    <3>1. a + i \in 1 .. Len(d)
      <4> HIDE DEF a
      <4> QED
        BY <1>1, <2>3
    <3>2. w[Len(m) + (a + i)] = d[a + i]
      BY <2>5, <3>1
    <3>3. Len(m) + e = y
      OBVIOUS
    <3>4. Len(m) + (a + i) = (y + x) + i
      <4>1. x \in Nat /\ y \in Nat
        BY <2>1, <2>2
      <4> HIDE DEF x, y
      <4> QED
        BY <1>1, <3>3, <4>1
    <3> QED
      BY <2>2, <3>2, <3>4
  <2>7. [i \in 1 .. Block |-> d[a + i]] = Piece(w, p + j)
    BY <2>6 DEF Piece
  <2>8. e + (j - 1) * Block + 1 = a + 1
    OBVIOUS
  <2> QED
    BY <2>3, <2>4, <2>7, <2>8
<1> HIDE DEF w
<1> QED
  BY <1>2 DEF WholeBlocks, w

\* Blocks that follow the first q.
PiecesAfter(m, q, n) == [k \in 1 .. n |-> Piece(m, q + k)]

\* The first q blocks and the n that follow.
LEMMA CutGlue ==
    ASSUME NEW w, NEW q \in Nat, NEW n \in Nat
    PROVE  Cut(w, q) \o PiecesAfter(w, q, n) = Cut(w, q + n)
<1> DEFINE f == [k \in 1 .. q + n |-> Piece(w, k)]
<1>1. [k \in 1 .. q |-> f[k]] \o [k \in 1 .. n |-> f[q + k]] = [k \in 1 .. q + n |-> f[k]]
  <2> HIDE DEF f
  <2> QED
    BY Glue
<1>2. Cut(w, q) = [k \in 1 .. q |-> f[k]]
  BY DEF Cut
<1>3. PiecesAfter(w, q, n) = [k \in 1 .. n |-> f[q + k]]
  BY DEF PiecesAfter
<1>4. Cut(w, q + n) = [k \in 1 .. q + n |-> f[k]]
  BY DEF Cut
<1> QED
  BY <1>1, <1>2, <1>3, <1>4

\* The block that is filled up and those after it.
LEMMA NextGlue ==
    ASSUME NEW w, NEW q \in Nat, NEW n \in Nat
    PROVE  <<Piece(w, q + 1)>> \o PiecesAfter(w, q + 1, n) = PiecesAfter(w, q, 1 + n)
<1> DEFINE f == [k \in 1 .. 1 + n |-> Piece(w, q + k)]
<1>1. [k \in 1 .. 1 |-> f[k]] \o [k \in 1 .. n |-> f[1 + k]] = [k \in 1 .. 1 + n |-> f[k]]
  <2> HIDE DEF f
  <2> QED
    BY Glue
<1>2. <<Piece(w, q + 1)>> = [k \in 1 .. 1 |-> f[k]]
  <2>1. f[1] = Piece(w, q + 1)
    OBVIOUS
  <2> HIDE DEF f
  <2>2. DOMAIN <<Piece(w, q + 1)>> = 1 .. 1
    OBVIOUS
  <2> QED
    BY <2>1
<1>3. PiecesAfter(w, q + 1, n) = [k \in 1 .. n |-> f[1 + k]]
  <2>1. ASSUME NEW k \in 1 .. n PROVE f[1 + k] = Piece(w, (q + 1) + k)
    <3>1. 1 + k \in 1 .. 1 + n /\ q + (1 + k) = (q + 1) + k
      OBVIOUS
    <3> QED
      BY <3>1
  <2> HIDE DEF f
  <2> QED
    BY <2>1 DEF PiecesAfter
<1>4. PiecesAfter(w, q, 1 + n) = [k \in 1 .. 1 + n |-> f[k]]
  BY DEF PiecesAfter
<1> QED
  BY <1>1, <1>2, <1>3, <1>4

\* The numbers of a long update: h blocks are completed with e bytes, t whole
\* ones follow and s bytes are left.
LongUpdate(lm, ld, q, r, e, h, t, s) ==
    /\ q \in Nat /\ lm \in Nat /\ ld \in Nat /\ q * Block \in Nat
    /\ lm = q * Block + r /\ r \in Nat /\ r < Block
    /\ r = 0 => e = 0 /\ h = 0
    /\ r # 0 => e = Block - r /\ h = 1
    /\ e \in Nat /\ h \in {0, 1} /\ e <= ld
    /\ (q + h) * Block \in Nat /\ lm + e = (q + h) * Block
    /\ t = (ld - e) \div Block /\ t \in Nat /\ t * Block \in Nat
    /\ s \in Nat /\ s < Block /\ ld = (e + t * Block) + s
    /\ (q + h + t) * Block = (q + h) * Block + t * Block

\* An update that reaches the end of a block has these numbers.
LEMMA LongUpdateExists ==
    ASSUME NEW lm \in Nat, NEW ld \in Nat, NEW q \in Nat, q * Block <= lm, lm < q * Block + Block,
           lm - q * Block + ld > Block - 1
    PROVE  LET r == lm - q * Block
               e == IF r = 0 THEN 0 ELSE Block - r
               h == IF r = 0 THEN 0 ELSE 1
           IN  LongUpdate(lm, ld, q, r, e, h, (ld - e) \div Block, (ld - e) % Block)
<1> DEFINE y == q * Block
           r == lm - y
           e == IF r = 0 THEN 0 ELSE Block - r
           h == IF r = 0 THEN 0 ELSE 1
           t == (ld - e) \div Block
           s == (ld - e) % Block
           z == t * Block
<1>1. Block \in Nat \ {0} /\ y \in Nat
  <2>1. Block \in Nat \ {0}
    BY SizeFacts
  <2> QED
    BY <2>1
<1>2. (q + h) * Block = IF h = 0 THEN y ELSE y + Block
  BY <1>1
<1>3. y <= lm /\ lm < y + Block /\ lm - y + ld > Block - 1
  OBVIOUS
<1> HIDE DEF y
<1>4. /\ r \in Nat /\ r < Block /\ e \in Nat /\ e <= ld /\ h \in {0, 1} /\ lm = y + r /\ ld - e \in Nat
      /\ r = 0 => e = 0 /\ h = 0
      /\ r # 0 => e = Block - r /\ h = 1
  BY <1>1, <1>3
<1> HIDE DEF r, e, h
<1>5. (q + h) * Block \in Nat /\ lm + e = (q + h) * Block
  BY <1>1, <1>2, <1>4
<1>6. t \in Nat /\ s \in 0 .. Block - 1 /\ ld - e = Block * t + s
  BY <1>1, <1>4, DivMod
<1> HIDE DEF t, s
<1>7. z \in Nat /\ Block * t = z
  BY <1>1, <1>6
<1>8. (q + h + t) * Block = (q + h) * Block + z
  BY <1>1, <1>4, <1>6
<1> HIDE DEF z
<1>9. s \in Nat /\ s < Block /\ ld = (e + z) + s
  BY <1>1, <1>4, <1>6, <1>7
<1>10. LongUpdate(lm, ld, q, r, e, h, t, s)
  <2>1. t = (ld - e) \div Block
    BY DEF t
  <2>2. q * Block = y /\ t * Block = z
    BY DEF y, z
  <2> QED
    BY <1>1, <1>4, <1>5, <1>6, <1>7, <1>8, <1>9, <2>1, <2>2 DEF LongUpdate
<1> QED
  BY <1>10 DEF r, e, h, t, s, y

\* An update that reaches the end of a block: the buffer is filled up, whole
\* blocks are taken from the data, and the rest is what the buffer then starts
\* with, whatever else is left in it.
LEMMA UpdateLong ==
    ASSUME NEW V, NEW m \in Seq(V), NEW d \in Seq(V), NEW c, NEW q, Took(c, m, q),
           NEW r, NEW e, NEW h, NEW t, NEW s, LongUpdate(Len(m), Len(d), q, r, e, h, t, s),
           r + Len(d) > Block - 1
    PROVE  Took(DigestUpdate(c, d), m \o d, q + h + t)
<1> DEFINE w == m \o d
           head == IF r = 0 THEN <<>> ELSE <<Copied(c.buf, r, SubSeq(d, 1, Block - r))>>
           tail == WholeBlocks(d, e)
           done == e + t * Block
           left == SubSeq(d, done + 1, Len(d))
           g == Copied(c.buf, 0, left)
<1>1. Block \in Nat \ {0} /\ Len(m) \in Nat /\ Len(d) \in Nat
  BY SizeFacts
<1>2. c.count = Len(m) /\ c.state = Cut(m, q) /\ q * Block <= Len(m) /\ q \in Nat
  BY DEF Took
<1>0. q \in Nat /\ r \in Nat /\ r < Block /\ e \in Nat /\ h \in Nat /\ t \in Nat /\ s \in Nat /\ s < Block
  <2>1. h \in {0, 1} /\ r \in Nat /\ r < Block /\ e \in Nat /\ t \in Nat /\ s \in Nat /\ s < Block
    BY DEF LongUpdate
  <2> QED
    BY <1>2, <2>1
<1>3. c.count % Block = r
  <2>1. (q * Block + r) % Block = r
    BY <1>0, <1>1, DivUnique
  <2> QED
    BY <1>2, <2>1 DEF LongUpdate
<1>4. tail = PiecesAfter(w, q + h, t)
  <2>1. WholeBlocks(d, e) = [j \in 1 .. t |-> Piece(m \o d, (q + h) + j)]
    <3>1. q + h \in Nat /\ (q + h) * Block \in Nat /\ Len(m) + e = (q + h) * Block
      BY DEF LongUpdate
    <3>2. e \in Nat /\ t \in Nat /\ t = (Len(d) - e) \div Block /\ t * Block \in Nat
      BY DEF LongUpdate
    <3>3. e + t * Block <= Len(d)
      BY <1>1, <3>2 DEF LongUpdate
    <3> QED
      BY <3>1, <3>2, <3>3, TakenWhole
  <2> QED
    BY <2>1 DEF PiecesAfter
<1>5. Len(tail) = t
  <2>1. t \in Nat
    BY DEF LongUpdate
  <2> QED
    BY <1>4, <2>1 DEF PiecesAfter
<1>6. head \o tail = PiecesAfter(w, q, h + t)
  <2>1. CASE r = 0
    <3>1. h = 0 /\ t \in Nat /\ q \in Nat
      BY <2>1 DEF LongUpdate
    <3>2. tail = PiecesAfter(w, q, t) /\ h + t = t
      BY <1>4, <3>1
    <3>3. <<>> \o PiecesAfter(w, q, t) = PiecesAfter(w, q, t)
      <4> DEFINE u == PiecesAfter(w, q, t)
      <4> DEFINE S == {Piece(w, q + k) : k \in 1 .. t}
      <4>1. u \in [1 .. t -> S]
        BY DEF PiecesAfter
      <4> HIDE DEF u, S
      <4>2. <<>> \o u = u
        BY <1>0, <4>1
      <4> QED
        BY <4>2 DEF u
    <3> QED
      BY <2>1, <3>2, <3>3
  <2>2. CASE r # 0
    <3>1. h = 1 /\ t \in Nat /\ q \in Nat
      BY <2>2 DEF LongUpdate
    <3>2. Copied(c.buf, r, SubSeq(d, 1, Block - r)) = Piece(w, q + 1)
      <4>1. q * Block \in Nat /\ Len(m) = q * Block + r /\ r < Block /\ r \in Nat
        BY DEF LongUpdate
      <4>2. Block - r <= Len(d)
        <5>1. e = Block - r /\ e <= Len(d)
          BY <2>2, Zenon DEF LongUpdate
        <5> QED
          BY <5>1, Zenon
      <4>3. Len(m) - q * Block = r
        BY <1>1, <4>1
      <4>4. \A i \in 1 .. r : c.buf[i] = m[q * Block + i]
        BY <4>3 DEF Took
      <4> QED
        <5>1. Filling(m, d, q * Block, c.buf, r)
          BY <4>1, <4>2, <4>4, Zenon DEF Filling
        <5> QED
          BY <1>2, <5>1, FilledUp
    <3> QED
      BY <1>4, <2>2, <3>1, <3>2, NextGlue
  <2> QED
    BY <2>1, <2>2
<1>7. Cut(m, q) \o (head \o tail) = Cut(w, q + h + t)
  <2>1. Cut(m, q) = Cut(w, q)
    BY <1>2, CutExtends
  <2>2. h + t \in Nat /\ q + (h + t) = q + h + t
    BY <1>0
  <2>3. Cut(w, q) \o PiecesAfter(w, q, h + t) = Cut(w, q + (h + t))
    <3> HIDE DEF w
    <3> QED
      BY <1>2, <2>2, CutGlue
  <2> HIDE DEF w, head, tail
  <2> QED
    BY <1>6, <2>1, <2>2, <2>3
<1>8. DigestUpdate(c, d) = [state |-> Cut(w, q + h + t), count |-> Len(m) + Len(d), buf |-> g]
  <2>1. NeedsTransform(c.count % Block, Len(d))
    BY <1>3 DEF NeedsTransform
  <2>2. (IF r = 0 THEN 0 ELSE Block - r) = e
    BY DEF LongUpdate
  <2>3. (IF r = 0 THEN <<>> ELSE <<Copied(c.buf, r, SubSeq(d, 1, IF r = 0 THEN 0 ELSE Block - r))>>) = head
    OBVIOUS
  <2>4. DigestUpdate(c, d) = [state |-> Transform(c.state, head \o tail),
                              count |-> c.count + Len(d),
                              buf |-> Copied(c.buf, 0, SubSeq(d, (e + Len(tail) * Block) + 1, Len(d)))]
    <3> HIDE DEF tail, head
    <3> QED
      BY <1>3, <2>1, <2>2, <2>3 DEF DigestUpdate, tail
  <2> HIDE DEF head, tail, w
  <2> QED
    BY <1>2, <1>5, <1>7, <2>4 DEF Transform
<1>9. Len(w) = Len(m) + Len(d) /\ \A i \in 1 .. Len(d) : w[Len(m) + i] = d[i]
  <2>1. Len(w) = Len(m) + Len(d)
    OBVIOUS
  <2>2. ASSUME NEW i \in 1 .. Len(d) PROVE w[Len(m) + i] = d[i]
    BY ConcatRight
  <2> HIDE DEF w
  <2> QED
    BY <2>1, <2>2
<1>10. /\ done \in Nat /\ s \in Nat /\ Len(d) = done + s /\ s < Block
       /\ (q + h + t) * Block = Len(m) + done /\ q + h + t \in Nat
  <2>1. done \in Nat /\ s \in Nat /\ Len(d) = done + s /\ s < Block
    <3>1. t * Block \in Nat /\ Len(d) = (e + t * Block) + s
      BY DEF LongUpdate
    <3> QED
      BY <1>0, <3>1
  <2>2. (q + h + t) * Block = (q + h) * Block + t * Block /\ Len(m) + e = (q + h) * Block
        /\ (q + h) * Block \in Nat /\ t * Block \in Nat /\ e \in Nat
    BY DEF LongUpdate
  <2>3. (q + h + t) * Block = Len(m) + done
    BY <1>1, <2>2
  <2>4. q + h + t \in Nat
    BY <1>0
  <2> QED
    BY <2>1, <2>3, <2>4
<1>11. left = [i \in 1 .. s |-> d[done + i]]
  <2> HIDE DEF done
  <2> QED
    BY <1>1, <1>10, SubSeqIs
<1>12. Len(left) = s
  <2> HIDE DEF left, done
  <2> QED
    BY <1>10, <1>11
<1> HIDE DEF w, done, left
<1>13. ASSUME NEW i \in 1 .. s PROVE g[i] = w[(q + h + t) * Block + i]
  <2>1. i \in 1 .. Block /\ i > 0 /\ i <= 0 + s /\ i - 0 = i /\ done + i \in 1 .. Len(d)
        /\ Len(m) + (done + i) = (Len(m) + done) + i
    BY <1>1, <1>10
  <2>2. g[i] = left[i]
    BY <1>12, <2>1 DEF Copied
  <2>3. left[i] = d[done + i]
    BY <1>11
  <2>4. d[done + i] = w[(Len(m) + done) + i]
    BY <1>9, <2>1
  <2> QED
    BY <1>10, <2>2, <2>3, <2>4
<1> HIDE DEF g
<1>14. Took([state |-> Cut(w, q + h + t), count |-> Len(w), buf |-> g], w, q + h + t)
  <2> DEFINE Q == q + h + t
             y == Q * Block
  <2>1. y = Len(m) + done /\ Q \in Nat /\ \A i \in 1 .. s : g[i] = w[y + i]
    BY <1>10, <1>13
  <2> HIDE DEF y
  <2>2. y <= Len(w) /\ Len(w) < y + Block /\ Len(w) - y = s
    BY <1>1, <1>9, <1>10, <2>1
  <2>3. y = Q * Block
    BY DEF y
  <2> HIDE DEF Q
  <2>4. Took([state |-> Cut(w, Q), count |-> Len(w), buf |-> g], w, Q)
    BY <2>1, <2>2, <2>3 DEF Took
  <2> QED
    BY <2>4 DEF Q
<1> QED
  BY <1>8, <1>9, <1>14 DEF w

\* Whatever is fed is taken in.
LEMMA UpdateTook ==
    ASSUME NEW V, NEW m \in Seq(V), NEW d \in Seq(V), NEW c, \E q : Took(c, m, q)
    PROVE  \E q : Took(DigestUpdate(c, d), m \o d, q)
<1> PICK q : Took(c, m, q)
  OBVIOUS
<1>1. Block \in Nat \ {0} /\ Len(m) \in Nat /\ Len(d) \in Nat /\ q \in Nat /\ q * Block <= Len(m)
      /\ Len(m) < q * Block + Block /\ q * Block \in Nat
  <2>1. Block \in Nat \ {0} /\ Len(m) \in Nat /\ Len(d) \in Nat
    BY SizeFacts
  <2>2. q \in Nat /\ q * Block <= Len(m) /\ Len(m) < q * Block + Block
    BY DEF Took
  <2> QED
    BY <2>1, <2>2
<1>2. CASE Len(m) - q * Block + Len(d) <= Block - 1
  BY <1>2, UpdateShort
<1>3. CASE Len(m) - q * Block + Len(d) > Block - 1
  <2>1. \E r, e, h, t, s : LongUpdate(Len(m), Len(d), q, r, e, h, t, s) /\ r = Len(m) - q * Block
    BY <1>1, <1>3, LongUpdateExists
  <2> PICK r, e, h, t, s : LongUpdate(Len(m), Len(d), q, r, e, h, t, s) /\ r = Len(m) - q * Block
    BY <2>1
  <2>2. r + Len(d) > Block - 1
    BY <1>3
  <2> QED
    BY <2>2, UpdateLong
<1> QED
  BY <1>1, <1>2, <1>3

\* A context after digest_init has taken in nothing, whatever is in its buffer.
LEMMA FreshTook == ASSUME NEW c PROVE Took(Initialised(c), <<>>, 0)
<1>1. Block \in Nat \ {0}
  BY SizeFacts
<1>2. Cut(<<>>, 0) = <<>>
  BY DEF Cut
<1>3. Initialised(c) = [state |-> <<>>, count |-> 0, buf |-> Initialised(c).buf]
  BY DEF Initialised
<1>4. 0 * Block = 0 /\ Len(<<>>) = 0
  BY <1>1
<1> QED
  BY <1>1, <1>2, <1>3, <1>4 DEF Took

\* The same for data of another kind than the message.
LEMMA TookMore ==
    ASSUME NEW V, NEW W, NEW m \in Seq(V), NEW d \in Seq(W), NEW c, \E q : Took(c, m, q)
    PROVE  /\ \E q : Took(DigestUpdate(c, d), m \o d, q)
           /\ m \o d \in Seq(V \cup W) /\ Len(m \o d) = Len(m) + Len(d)
<1>1. m \in Seq(V \cup W) /\ d \in Seq(V \cup W)
  OBVIOUS
<1> QED
  BY <1>1, UpdateTook, Concat

\* The padding reaches up to the only end of a block that leaves room for the
\* first byte of it and for the length.
LEMMA PaddedIs ==
    ASSUME NEW n \in Nat, NEW q \in Nat, NEW r \in Nat, r < Block, n = q * Block + r
    PROVE  /\ PadLength(r) \in Nat \ {0}
           /\ PaddedLength(n) = n + PadLength(r) + LenBytes
           /\ \E g \in Nat : PaddedLength(n) = g * Block
<1> DEFINE P == PadLength(r)
           N == n + P + LenBytes
           I == n + 1 + LenBytes .. n + LenBytes + Block
           y == q * Block
           j == IF r < Block - LenBytes THEN 1 ELSE 2
           g == q + j
<1>1. Block \in Nat \ {0} /\ LenBytes \in Nat \ {0} /\ LenBytes < Block
  BY SizeFacts
<1>2. y \in Nat /\ g * Block = (IF j = 1 THEN y + Block ELSE y + 2 * Block)
  BY <1>1
<1>3. n = y + r
  OBVIOUS
<1> HIDE DEF y
<1>4. P \in Nat \ {0} /\ P <= Block /\ N = (IF j = 1 THEN y + Block ELSE y + 2 * Block)
  BY <1>1, <1>2, <1>3 DEF PadLength
<1>5. N = g * Block /\ g \in Nat
  BY <1>2, <1>4
<1> HIDE DEF P
<1>6. N \in I
  BY <1>1, <1>4
<1>7. N % Block = 0
  <2> HIDE DEF g, N
  <2>1. (g * Block + 0) % Block = 0
    BY <1>1, <1>5, DivUnique
  <2>2. g * Block + 0 = g * Block
    BY <1>1, <1>5
  <2> QED
    BY <1>5, <2>1, <2>2
<1>8. ASSUME NEW a \in I, a % Block = 0 PROVE a = N
  <2> HIDE DEF g
  <2> DEFINE x == a \div Block
  <2>1. a \in Nat /\ a < N + Block /\ N < a + Block
    BY <1>1, <1>4, <1>6
  <2> HIDE DEF N
  <2>2. x \in Nat /\ a = Block * x
    <3>1. x \in Nat /\ a = Block * x + (a % Block)
      BY <1>1, <2>1, DivMod
    <3> QED
      BY <1>1, <1>8, <3>1
  <2> HIDE DEF x
  <2>3. (x - g) * Block < Block /\ (g - x) * Block < Block
    <3>1. (x - g) * Block = Block * x - g * Block /\ (g - x) * Block = g * Block - Block * x
      BY <1>1, <1>5, <2>2
    <3> QED
      BY <1>1, <1>5, <2>1, <2>2, <3>1
  <2>4. x = g
    BY <1>1, <1>5, <2>2, <2>3
  <2> QED
    BY <1>1, <1>5, <2>2, <2>4
<1> HIDE DEF N
<1>9. PaddedLength(n) = N
  BY <1>6, <1>7, <1>8 DEF PaddedLength
<1> QED
  BY <1>4, <1>5, <1>9 DEF P, N

\* The padding of the code is that of the standard.
LEMMA PaddingIs ==
    ASSUME NEW V, NEW m \in Seq(V), NEW P \in Nat \ {0}
    PROVE  m \o <<Stop80>> \o [k \in 1 .. P - 1 |-> Zero] = m \o Padding(P)
<1> DEFINE S == V \cup {Stop80, Zero}
           a == <<Stop80>>
           z == [k \in 1 .. P - 1 |-> Zero]
           d == Padding(P)
<1>1. m \in Seq(S) /\ a \in Seq(S) /\ Len(a) = 1 /\ a[1] = Stop80
  OBVIOUS
<1>2. z \in [1 .. P - 1 -> S] /\ d \in [1 .. P -> S]
  BY DEF Padding
<1>3. /\ \A k \in 1 .. P - 1 : z[k] = Zero
      /\ \A k \in 1 .. P : d[k] = IF k = 1 THEN Stop80 ELSE Zero
  BY DEF Padding
<1> HIDE DEF S, a, z, d
<1>4. z \in Seq(S) /\ Len(z) = P - 1 /\ d \in Seq(S) /\ Len(d) = P
  BY <1>2
<1> DEFINE u == m \o a
           v == u \o z
           w == m \o d
<1>5. /\ u \in Seq(S) /\ Len(u) = Len(m) + 1
      /\ \A i \in 1 .. Len(m) : u[i] = m[i]
      /\ u[Len(m) + 1] = Stop80
  <2>1. m \in Seq(S) /\ a \in Seq(S)
    BY <1>1
  <2>2. /\ u \in Seq(S) /\ Len(u) = Len(m) + Len(a)
        /\ \A i \in 1 .. Len(m) : u[i] = m[i]
        /\ \A i \in 1 .. Len(a) : u[Len(m) + i] = a[i]
    BY <2>1, Concat
  <2> HIDE DEF u
  <2> QED
    BY <1>1, <2>2
<1> HIDE DEF u
<1>6. /\ v \in Seq(S) /\ Len(v) = Len(m) + P
      /\ \A i \in 1 .. Len(m) + 1 : v[i] = u[i]
      /\ \A i \in 1 .. P - 1 : v[Len(m) + 1 + i] = z[i]
  <2>1. /\ v \in Seq(S) /\ Len(v) = Len(u) + Len(z)
        /\ \A i \in 1 .. Len(u) : v[i] = u[i]
        /\ \A i \in 1 .. Len(z) : v[Len(u) + i] = z[i]
    <3>1. u \in Seq(S) /\ z \in Seq(S)
      BY <1>4, <1>5
    <3> QED
      BY <3>1, Concat
  <2> HIDE DEF v
  <2> QED
    BY <1>1, <1>4, <1>5, <2>1
<1>7. /\ w \in Seq(S) /\ Len(w) = Len(m) + P
      /\ \A i \in 1 .. Len(m) : w[i] = m[i]
      /\ \A i \in 1 .. P : w[Len(m) + i] = d[i]
  <2>1. /\ w \in Seq(S) /\ Len(w) = Len(m) + Len(d)
        /\ \A i \in 1 .. Len(m) : w[i] = m[i]
        /\ \A i \in 1 .. Len(d) : w[Len(m) + i] = d[i]
    <3>1. m \in Seq(S) /\ d \in Seq(S)
      BY <1>1, <1>4
    <3> QED
      BY <3>1, Concat
  <2> HIDE DEF w
  <2> QED
    BY <1>4, <2>1
<1> HIDE DEF v, w
<1>8. Len(m) \in Nat
  OBVIOUS
<1>9. ASSUME NEW i \in 1 .. Len(m) + P PROVE v[i] = w[i]
  <2>1. CASE i <= Len(m)
    BY <1>5, <1>6, <1>7, <1>8, <2>1
  <2>2. CASE i = Len(m) + 1
    <3>1. w[Len(m) + 1] = d[1] /\ d[1] = Stop80
      BY <1>3, <1>7
    <3>2. v[Len(m) + 1] = u[Len(m) + 1]
      BY <1>6, <1>8
    <3> QED
      BY <1>5, <2>2, <3>1, <3>2
  <2>3. CASE i > Len(m) + 1
    <3> DEFINE k == i - Len(m) - 1
    <3>1. k \in 1 .. P - 1 /\ i = Len(m) + 1 + k /\ k + 1 \in 1 .. P /\ i = Len(m) + (k + 1) /\ k + 1 # 1
      BY <1>8, <2>3
    <3> HIDE DEF k
    <3>2. v[i] = Zero
      BY <1>3, <1>6, <3>1
    <3>3. w[i] = d[k + 1] /\ d[k + 1] = Zero
      BY <1>3, <1>7, <3>1
    <3> QED
      BY <3>2, <3>3
  <2> QED
    BY <1>8, <2>1, <2>2, <2>3
<1>10. v = w
  BY <1>6, <1>7, <1>9
<1> QED
  BY <1>10 DEF v, u, w, a, z, d

\* A message that ends with a block is in the state as a whole.
LEMMA WholeTaken ==
    ASSUME NEW V, NEW w \in Seq(V), NEW c, NEW q, Took(c, w, q), NEW g \in Nat, Len(w) = g * Block
    PROVE  c.state = [k \in 1 .. Len(w) \div Block |-> SubSeq(w, (k - 1) * Block + 1, k * Block)]
<1> DEFINE y == g * Block
<1>1. Block \in Nat \ {0} /\ Len(w) \in Nat /\ Len(w) = y
  BY SizeFacts
<1>2. q \in Nat /\ q * Block <= Len(w) /\ Len(w) < q * Block + Block /\ c.state = Cut(w, q)
  BY DEF Took
<1>3. q = g
  <2>1. (g - q) * Block = g * Block - q * Block /\ g * Block \in Nat /\ q * Block \in Nat
    BY <1>1, <1>2
  <2>2. 0 <= (g - q) * Block /\ (g - q) * Block < Block
    <3> DEFINE x == (g - q) * Block
               u == q * Block
    <3>1. x = y - u /\ y \in Nat /\ u \in Nat /\ u <= Len(w) /\ Len(w) < u + Block
      BY <1>2, <2>1
    <3> HIDE DEF x, u, y
    <3>2. 0 <= x /\ x < Block
      BY <1>1, <3>1
    <3> QED
      BY <3>2 DEF x
  <2> QED
    BY <1>1, <1>2, <2>2
<1>4. Len(w) \div Block = g
  <2>1. (g * Block + 0) \div Block = g
    BY <1>1, DivUnique
  <2>2. g * Block + 0 = g * Block
    BY <1>1
  <2> QED
    BY <2>1, <2>2
<1>5. ASSUME NEW k \in 1 .. g
      PROVE  SubSeq(w, (k - 1) * Block + 1, k * Block) = Piece(w, k)
  <2> DEFINE x == (k - 1) * Block
  <2>1. x \in Nat /\ x + Block = k * Block /\ x + Block \in 1 .. Len(w)
    <3>1. g * Block <= Len(w) /\ Block \in 1 .. Block
      BY <1>1
    <3> QED
      BY <1>1, <3>1, BlockEnds
  <2> HIDE DEF x
  <2>2. SubSeq(w, x + 1, x + Block) = [i \in 1 .. Block |-> w[x + i]]
    BY <1>1, <2>1, SubSeqIs
  <2>3. Piece(w, k) = [i \in 1 .. Block |-> w[x + i]]
    BY DEF Piece, x
  <2> QED
    BY <2>1, <2>2, <2>3 DEF x
<1>6. Cut(w, g) = [k \in 1 .. g |-> SubSeq(w, (k - 1) * Block + 1, k * Block)]
  BY <1>5 DEF Cut
<1> QED
  BY <1>2, <1>3, <1>4, <1>6

\* digest_final returns the sum of what was taken in.
LEMMA FinalIs ==
    ASSUME NEW V, NEW m \in Seq(V), NEW c, \E q : Took(c, m, q)
    PROVE  DigestFinal(c) = Standard(m)
<1> PICK q : Took(c, m, q)
  OBVIOUS
<1> DEFINE n == Len(m)
           r == n - q * Block
           P == PadLength(r)
           d == Padding(P)
           f == LengthField(n)
           w == m \o d
           x == w \o f
           A == {Stop80, Zero}
           B == {BitLength(n, k) : k \in 1 .. LenBytes}
<1>1. Block \in Nat \ {0} /\ LenBytes \in Nat /\ n \in Nat
  BY SizeFacts
<1>2. q \in Nat /\ q * Block <= n /\ n < q * Block + Block /\ c.count = n
  BY DEF Took
<1>3. q * Block \in Nat
  BY <1>1, <1>2
<1>4. r \in Nat /\ r < Block /\ n = q * Block + r
  BY <1>1, <1>2, <1>3
<1> HIDE DEF r, n
<1>5. c.count % Block = r
  <2>1. (q * Block + r) % Block = r
    BY <1>1, <1>2, <1>4, DivUnique
  <2> QED
    BY <1>2, <1>4, <2>1
<1>6. /\ P \in Nat \ {0}
      /\ PaddedLength(n) = n + P + LenBytes
      /\ \E g \in Nat : PaddedLength(n) = g * Block
  BY <1>1, <1>2, <1>4, PaddedIs
<1> HIDE DEF P
<1>7. d \in Seq(A) /\ Len(d) = P
  <2>1. d \in [1 .. P -> A]
    BY DEF Padding
  <2> HIDE DEF d, A
  <2> QED
    BY <1>6, <2>1
<1>8. f \in Seq(B) /\ Len(f) = LenBytes
  <2>1. f \in [1 .. LenBytes -> B]
    BY DEF LengthField
  <2> HIDE DEF f, B
  <2> QED
    BY <1>1, <2>1
<1> HIDE DEF d, f, A, B
<1>9. (\E p : Took(DigestUpdate(c, d), w, p)) /\ w \in Seq(V \cup A) /\ Len(w) = n + P
  <2>1. d \in Seq(A) /\ \E p : Took(c, m, p)
    BY <1>7
  <2>2. \E p : Took(DigestUpdate(c, d), w, p)
    BY <2>1, TookMore
  <2>3. w \in Seq(V \cup A) /\ Len(w) = Len(m) + Len(d)
    BY <2>1, TookMore
  <2> QED
    BY <1>7, <2>2, <2>3 DEF n
<1> HIDE DEF w
<1>10. /\ \E p : Took(DigestUpdate(DigestUpdate(c, d), f), x, p)
       /\ x \in Seq((V \cup A) \cup B) /\ Len(x) = n + P + LenBytes
  <2> DEFINE T == V \cup A
             c2 == DigestUpdate(c, d)
  <2>1. w \in Seq(T) /\ f \in Seq(B) /\ \E p : Took(c2, w, p)
    BY <1>8, <1>9
  <2> HIDE DEF T, c2
  <2>2. \E p : Took(DigestUpdate(c2, f), x, p)
    BY <2>1, TookMore
  <2>3. x \in Seq(T \cup B) /\ Len(x) = Len(w) + Len(f)
    BY <2>1, TookMore
  <2> QED
    BY <1>8, <1>9, <2>2, <2>3 DEF T, c2
<1>11. DigestFinal(c) = SumOf(DigestUpdate(DigestUpdate(c, d), f).state)
  BY <1>2, <1>5 DEF DigestFinal, FinalContext, d, f, P
<1>12. w = m \o <<Stop80>> \o [k \in 1 .. PaddedLength(n) - LenBytes - n - 1 |-> Zero]
  <2>1. PaddedLength(n) - LenBytes - n - 1 = P - 1
    BY <1>1, <1>6
  <2> QED
    BY <1>6, <2>1, PaddingIs DEF w, d
<1>13. Standard(m) = SumOf([k \in 1 .. Len(x) \div Block |-> SubSeq(x, (k - 1) * Block + 1, k * Block)])
  BY <1>12 DEF Standard, x, f, n
<1> PICK g \in Nat : PaddedLength(n) = g * Block
  BY <1>6
<1> PICK p : Took(DigestUpdate(DigestUpdate(c, d), f), x, p)
  BY <1>10
<1>14. Len(x) = g * Block
  BY <1>6, <1>10
<1> HIDE DEF x
<1> QED
  BY <1>10, <1>11, <1>13, <1>14, WholeTaken

\* The sum is a sequence of bytes.
LEMMA StandardSeq ==
    ASSUME NEW m
    PROVE  \E W : Standard(m) \in Seq(W)
<1> PICK blocks : Standard(m) = SumOf(blocks)
  BY DEF Standard
<1> DEFINE W == {[sum |-> blocks, at |-> k] : k \in 1 .. SumBytes}
<1>1. SumOf(blocks) \in [1 .. SumBytes -> W]
  BY DEF SumOf
<1> HIDE DEF W
<1>2. SumOf(blocks) \in Seq(W)
  BY <1>1, DigestAssumption
<1> QED
  BY <1>2

\* What a digest with a key is fed for a message, and a context that has taken
\* a message in.
Input(k, m) == IF k = <<>> THEN m ELSE Pad("0x36", k) \o m

IsSeq(m) == \E V : m \in Seq(V)
Fed(c, k, m) == IsSeq(m) /\ \E q : Took(c, Input(k, m), q)

\* The pads of the HMAC are bytes.
LEMMA PadSeq ==
    ASSUME NEW byte, NEW k
    PROVE  IsSeq(Pad(byte, k))
<1> DEFINE p == Pad(byte, k)
           W == {Keyed(byte, IF i <= Len(k) THEN k[i] ELSE Byte(0)) : i \in 1 .. Block}
<1>1. p \in [1 .. Block -> W]
  BY DEF Pad
<1> HIDE DEF p, W
<1>2. p \in Seq(W)
  BY <1>1, SizeFacts
<1> QED
  BY <1>2 DEF IsSeq, p

\* Sequences are concatenated to sequences.
LEMMA ConcatSeq ==
    ASSUME NEW m, NEW d, IsSeq(m), IsSeq(d)
    PROVE  IsSeq(m \o d)
<1> PICK V : m \in Seq(V)
  BY DEF IsSeq
<1> PICK W : d \in Seq(W)
  BY DEF IsSeq
<1>1. m \in Seq(V \cup W) /\ d \in Seq(V \cup W)
  OBVIOUS
<1>2. m \o d \in Seq(V \cup W)
  BY <1>1, Concat
<1> QED
  BY <1>2 DEF IsSeq

\* Nothing to add, or nothing to add to.
LEMMA ConcatEmpty ==
    ASSUME NEW m, IsSeq(m)
    PROVE  <<>> \o m = m /\ m \o <<>> = m
BY DEF IsSeq

\* The first update after digest_init.
LEMMA FreshUpdate ==
    ASSUME NEW c, NEW d, IsSeq(d)
    PROVE  \E q : Took(DigestUpdate(Initialised(c), d), d, q)
<1> PICK V : d \in Seq(V)
  BY DEF IsSeq
<1>1. <<>> \in Seq(V) /\ \E q : Took(Initialised(c), <<>>, q)
  BY FreshTook
<1>2. \E q : Took(DigestUpdate(Initialised(c), d), <<>> \o d, q)
  BY <1>1, UpdateTook
<1> QED
  BY <1>2, ConcatEmpty

\* UpdateTook and TookMore, whatever the message and the data consist of.
LEMMA MoreTook ==
    ASSUME NEW c, NEW m, NEW d, IsSeq(m), IsSeq(d), \E q : Took(c, m, q)
    PROVE  \E q : Took(DigestUpdate(c, d), m \o d, q)
<1> PICK V : m \in Seq(V)
  BY DEF IsSeq
<1> PICK W : d \in Seq(W)
  BY DEF IsSeq
<1> QED
  BY TookMore

\* What is fed is a sequence of bytes.
LEMMA InputSeq ==
    ASSUME NEW k, NEW m, IsSeq(m)
    PROVE  IsSeq(Input(k, m))
BY PadSeq, ConcatSeq DEF Input

\* digest_init: with a key, the pad has been fed.
LEMMA FedBegin ==
    ASSUME NEW c, NEW k
    PROVE  Fed(Begin(c, k), k, <<>>)
<1>1. IsSeq(<<>>)
  <2>1. <<>> \in Seq({})
    OBVIOUS
  <2> QED
    BY <2>1 DEF IsSeq
<1>2. CASE k = <<>>
  BY <1>1, <1>2, FreshTook DEF Fed, Begin, Input
<1>3. CASE k # <<>>
  <2>1. IsSeq(Pad("0x36", k))
    BY PadSeq
  <2>2. \E q : Took(DigestUpdate(Initialised(c), Pad("0x36", k)), Pad("0x36", k), q)
    BY <2>1, FreshUpdate
  <2>3. Input(k, <<>>) = Pad("0x36", k)
    BY <1>3, <2>1, ConcatEmpty DEF Input
  <2> QED
    BY <1>1, <1>3, <2>2, <2>3 DEF Fed, Begin, HmacInit
<1> QED
  BY <1>2, <1>3

\* digest_update: pieces add up to the message.
LEMMA FedMore ==
    ASSUME NEW c, NEW k, NEW m, NEW d, Fed(c, k, m), IsSeq(d)
    PROVE  Fed(DigestUpdate(c, d), k, m \o d)
<1>1. IsSeq(m) /\ IsSeq(Input(k, m)) /\ \E q : Took(c, Input(k, m), q)
  BY InputSeq DEF Fed
<1>2. \E q : Took(DigestUpdate(c, d), Input(k, m) \o d, q)
  BY <1>1, MoreTook
<1>3. IsSeq(m \o d)
  BY <1>1, ConcatSeq
<1>4. Input(k, m) \o d = Input(k, m \o d)
  <2>1. CASE k = <<>>
    BY <2>1 DEF Input
  <2>2. CASE k # <<>>
    <3> DEFINE p == Pad("0x36", k)
    <3>1. IsSeq(p)
      BY PadSeq
    <3> HIDE DEF p
    <3>2. (p \o m) \o d = p \o (m \o d)
      <4> PICK U : p \in Seq(U)
        BY <3>1 DEF IsSeq
      <4> PICK V : m \in Seq(V)
        BY <1>1 DEF IsSeq
      <4> PICK W : d \in Seq(W)
        BY DEF IsSeq
      <4> DEFINE S == U \cup V \cup W
      <4>1. p \in Seq(S) /\ m \in Seq(S) /\ d \in Seq(S)
        OBVIOUS
      <4> HIDE DEF S
      <4> QED
        BY <4>1, ConcatAssociative
    <3> QED
      BY <2>2, <3>2 DEF Input, p
  <2> QED
    BY <2>1, <2>2
<1> QED
  BY <1>2, <1>3, <1>4 DEF Fed

\* digest_final: the sum, or the HMAC, of the message.
LEMMA FedFinish ==
    ASSUME NEW c, NEW k, NEW m, Fed(c, k, m)
    PROVE  Finish(c, k) = Expected(k, m)
<1> DEFINE i == Input(k, m)
<1>1. IsSeq(i) /\ \E q : Took(c, i, q)
  BY InputSeq DEF Fed
<1> HIDE DEF i
<1>2. DigestFinal(c) = Standard(i)
  <2> PICK V : i \in Seq(V)
    BY <1>1 DEF IsSeq
  <2> QED
    BY <1>1, FinalIs
<1>3. CASE k = <<>>
  BY <1>2, <1>3 DEF Finish, Expected, i, Input
<1>4. CASE k # <<>>
  <2> DEFINE p == Pad("0x5c", k)
             s == Standard(i)
             c2 == DigestUpdate(Initialised(Zeroed), p)
  <2>1. IsSeq(p) /\ IsSeq(s)
    BY PadSeq, StandardSeq DEF IsSeq
  <2> HIDE DEF p, s
  <2>2. \E q : Took(c2, p, q)
    BY <2>1, FreshUpdate
  <2> HIDE DEF c2
  <2>3. (\E q : Took(DigestUpdate(c2, s), p \o s, q)) /\ IsSeq(p \o s)
    BY <2>1, <2>2, MoreTook, ConcatSeq
  <2>4. DigestFinal(DigestUpdate(c2, s)) = Standard(p \o s)
    <3> PICK V : p \o s \in Seq(V)
      BY <2>3 DEF IsSeq
    <3> QED
      BY <2>3, FinalIs
  <2>5. Finish(c, k) = DigestFinal(DigestUpdate(c2, s))
    BY <1>2, <1>4 DEF Finish, HmacFinal, c2, p, s
  <2>6. Expected(k, m) = Standard(p \o s)
    BY <1>4 DEF Expected, p, s, i, Input
  <2> QED
    BY <2>4, <2>5, <2>6
<1> QED
  BY <1>3, <1>4

\* The pieces of a message are bytes.
LEMMA DataSeq ==
    ASSUME NEW n \in Chunks, NEW a
    PROVE  IsSeq([k \in 1 .. n |-> Data(a + k)]) /\ IsSeq([k \in 1 .. n |-> Data(k)])
<1> DEFINE s == [k \in 1 .. n |-> Data(a + k)]
           t == [k \in 1 .. n |-> Data(k)]
           S == {Data(a + k) : k \in 1 .. n}
           T == {Data(k) : k \in 1 .. n}
<1>1. n \in Nat
  BY DigestAssumption
<1>2. s \in [1 .. n -> S] /\ t \in [1 .. n -> T]
  OBVIOUS
<1> HIDE DEF s, t, S, T
<1>3. s \in Seq(S) /\ t \in Seq(T)
  BY <1>1, <1>2
<1> QED
  BY <1>3 DEF IsSeq, s, t

\* The key is the one that was given, as long as that one fits; while a message is
\* being fed, the context has taken it in and nothing is said of it yet.
DigestInv ==
    /\ FitsBlock(asked) => key = asked
    /\ busy => sum = <<>> /\ verdict = <<>> /\ Fed(ctx, key, message)
    /\ SumOfMessage

\* digest_final, digest_verify and digest_digest answer for the message that was
\* fed since digest_init, with the key that was given, if that fits a block,
\* whatever the size of a block, the pieces of the message, the lengths at which
\* padding and length fall into the last block or one more, and what an earlier
\* message left in the buffer.
THEOREM SumOfMessageHolds == DigestSpec => []SumOfMessage
<1>1. DigestInit => DigestInv
  <2>1. ASSUME DigestInit PROVE key = asked /\ sum = <<>> /\ verdict = <<>> /\ ~busy
    BY <2>1 DEF DigestInit
  <2> QED
    BY <2>1 DEF DigestInv, SumOfMessage
<1>2. DigestInv /\ [DigestNext]_digestVars => DigestInv'
  <2> SUFFICES ASSUME DigestInv, [DigestNext]_digestVars PROVE DigestInv'
    OBVIOUS
  <2>1. ASSUME NEW k \in Keys \cup {<<>>}, digest_init(k) PROVE DigestInv'
    <3>1. /\ FitsBlock(k) => key' = k
          /\ asked' = k /\ message' = <<>> /\ sum' = <<>> /\ verdict' = <<>>
      BY <2>1, Zenon DEF digest_init
    <3>2. Fed(ctx', key', message')
      BY <2>1, <3>1, FedBegin DEF digest_init
    <3> QED
      BY <3>1, <3>2, Zenon DEF DigestInv, SumOfMessage
  <2>7. ASSUME NEW k \in Keys \cup {<<>>}, KeyRefused(k) PROVE DigestInv'
    <3>1. asked' = k /\ ~FitsBlock(k) /\ ~busy'
      BY <2>7, Zenon DEF KeyRefused
    <3>2. ~FitsBlock(asked')
      BY <3>1
    <3> QED
      BY <3>1, <3>2, Zenon DEF DigestInv, SumOfMessage
  <2>2. ASSUME NEW n \in Chunks, digest_update(n) PROVE DigestInv'
    <3> DEFINE data == [k \in 1 .. n |-> Data(Len(message) + k)]
    <3>1. IsSeq(data)
      BY DataSeq
    <3>2. busy /\ sum = <<>> /\ verdict = <<>> /\ Fed(ctx, key, message) /\ (FitsBlock(asked) => key = asked)
      BY <2>2 DEF digest_update, DigestInv
    <3>3. ctx' = DigestUpdate(ctx, data) /\ message' = message \o data /\ UNCHANGED <<key, asked, sum, busy, verdict>>
      BY <2>2 DEF digest_update
    <3> HIDE DEF data
    <3>4. Fed(ctx', key', message')
      BY <3>1, <3>2, <3>3, FedMore
    <3> QED
      BY <3>2, <3>3, <3>4 DEF DigestInv, SumOfMessage
  <2>3. ASSUME NEW n \in Chunks, digest_generic_digest(n) PROVE DigestInv'
    <3> DEFINE data == [k \in 1 .. n |-> Data(k)]
    <3>1. IsSeq(data)
      BY DataSeq
    <3>2. sum' = Finish(DigestUpdate(Begin(ctx, key), data), key) /\ message' = data /\ ~busy' /\ verdict' = <<>>
          /\ key' = key /\ asked' = asked /\ (FitsBlock(asked) => key = asked)
      BY <2>3 DEF digest_generic_digest, DigestInv
    <3> HIDE DEF data
    <3>3. Fed(DigestUpdate(Begin(ctx, key), data), key, data)
      <4>1. Fed(DigestUpdate(Begin(ctx, key), data), key, <<>> \o data)
        BY <3>1, FedBegin, FedMore
      <4> QED
        BY <3>1, <4>1, ConcatEmpty
    <3>4. sum' = Expected(key', message')
      BY <3>2, <3>3, FedFinish
    <3> QED
      BY <3>2, <3>4 DEF DigestInv, SumOfMessage
  <2>4. ASSUME digest_final PROVE DigestInv'
    <3>1. busy /\ verdict = <<>> /\ Fed(ctx, key, message) /\ (FitsBlock(asked) => key = asked)
      BY <2>4 DEF digest_final, DigestInv
    <3>2. sum' = Expected(key, message)
      BY <2>4, <3>1, FedFinish DEF digest_final
    <3> QED
      BY <2>4, <3>1, <3>2 DEF digest_final, DigestInv, SumOfMessage
  <2>5. ASSUME NEW md, digest_generic_verify(md) PROVE DigestInv'
    <3>1. busy /\ sum = <<>> /\ Fed(ctx, key, message) /\ (FitsBlock(asked) => key = asked)
      BY <2>5 DEF digest_generic_verify, DigestInv
    <3>2. verdict' = <<md, IF md = Expected(key, message) THEN "OK" ELSE "EINVAL">>
      BY <2>5, <3>1, FedFinish DEF digest_generic_verify
    <3>3. ~busy' /\ UNCHANGED <<key, asked, message, sum>>
      BY <2>5 DEF digest_generic_verify
    <3>4. Expected(key', message') = Expected(key, message)
      BY <3>3
    <3>5. verdict'[2] = "OK" <=> verdict'[1] = Expected(key', message')
      <4> DEFINE E == Expected(key, message)
      <4> HIDE DEF E
      <4>1. verdict' = <<md, IF md = E THEN "OK" ELSE "EINVAL">> /\ Expected(key', message') = E
        BY <3>2, <3>4 DEF E
      <4> QED
        BY <4>1
    <3> QED
      BY <3>1, <3>3, <3>5 DEF DigestInv, SumOfMessage
  <2>6. CASE UNCHANGED digestVars
    BY <2>6 DEF digestVars, DigestInv, SumOfMessage
  <2> QED
    BY <2>1, <2>2, <2>3, <2>4, <2>5, <2>6, <2>7 DEF DigestNext
<1>3. DigestInv => SumOfMessage
  BY DEF DigestInv
<1> QED
  BY <1>1, <1>2, <1>3, PTL DEF DigestSpec
=============================================================================
