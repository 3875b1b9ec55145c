-------------------------- MODULE LinkedListProofs --------------------------
(***************************************************************************)
(* Proofs about LinkedList, for any number of lists and of entries: the    *)
(* pointers always represent the lists, and a loop that deletes entries    *)
(* comes past all of them.                                                 *)
(***************************************************************************)
EXTENDS LinkedList, FiniteSetTheorems, WellFoundedInduction, SequenceTheorems, TLAPS

\* The i-th cell of a ring; the head comes before the first and after the last.
At(h, s, i) == IF i \in 1 .. Len(s) THEN s[i] ELSE h

Chain(l, h, s) ==
    \A i \in 0 .. Len(s) : /\ l.next[At(h, s, i)] = At(h, s, i + 1)
                           /\ l.prev[At(h, s, i + 1)] = At(h, s, i)

\* An entry is in one list at most, and once.
Distinct(L) ==
    \A g, h \in Head_ : \A i \in 1 .. Len(L[g]), j \in 1 .. Len(L[h]) :
        L[g][i] = L[h][j] => g = h /\ i = j

Links == [next : [Cell -> Pointer], prev : [Cell -> Pointer]]

\* The pointers l represent the lists L.
Rep(l, L) ==
    /\ l \in Links
    /\ L \in [Head_ -> Seq(Entry)]
    /\ Distinct(L)
    /\ \A h \in Head_ : Chain(l, h, L[h])

\* An entry that is in no list.
Outside(e, L) == \A h \in Head_ : \A i \in 1 .. Len(L[h]) : L[h][i] # e

-----------------------------------------------------------------------------
(* Rings *)

LEMMA AtFacts ==
    ASSUME NEW L \in [Head_ -> Seq(Entry)], NEW h \in Head_
    PROVE  /\ Len(L[h]) \in Nat
           /\ At(h, L[h], 0) = h /\ At(h, L[h], Len(L[h]) + 1) = h
           /\ \A i \in 1 .. Len(L[h]) : At(h, L[h], i) = L[h][i] /\ L[h][i] \in Entry
           /\ \A i \in Nat : At(h, L[h], i) \in Cell
           /\ h \notin Entry
<1>1. L[h] \in Seq(Entry) /\ Len(L[h]) \in Nat
  OBVIOUS
<1>2. \A i \in 1 .. Len(L[h]) : L[h][i] \in Entry
  BY <1>1
<1> QED
  BY <1>1, <1>2, ListAssumption DEF At, Cell

\* No two places of the rings hold the same cell: counted from the head on,
\* and counted up to the head.
LEMMA PlacesDiffer ==
    ASSUME NEW L \in [Head_ -> Seq(Entry)], Distinct(L),
           NEW g \in Head_, NEW h \in Head_
    PROVE  /\ \A i \in 0 .. Len(L[g]), j \in 0 .. Len(L[h]) :
                  At(g, L[g], i) = At(h, L[h], j) => g = h /\ i = j
           /\ \A i \in 0 .. Len(L[g]), j \in 0 .. Len(L[h]) :
                  At(g, L[g], i + 1) = At(h, L[h], j + 1) => g = h /\ i = j
<1>1. /\ Len(L[g]) \in Nat /\ Len(L[h]) \in Nat
      /\ g \notin Entry /\ h \notin Entry
      /\ \A i \in 1 .. Len(L[g]) : L[g][i] \in Entry
      /\ \A i \in 1 .. Len(L[h]) : L[h][i] \in Entry
  BY AtFacts
<1> QED
  BY <1>1 DEF At, Distinct

LEMMA OutsideFacts ==
    ASSUME NEW L \in [Head_ -> Seq(Entry)], NEW e \in Entry, Outside(e, L), NEW h \in Head_
    PROVE  \A i \in Nat : At(h, L[h], i) # e
BY AtFacts DEF At, Outside

\* Chain of a list, with both neighbours in a form that is used often.
LEMMA ChainAt ==
    ASSUME NEW l, NEW L, Rep(l, L), NEW h \in Head_
    PROVE  /\ \A i \in 0 .. Len(L[h]) : l.next[At(h, L[h], i)] = At(h, L[h], i + 1)
           /\ \A i \in 0 .. Len(L[h]) : l.prev[At(h, L[h], i + 1)] = At(h, L[h], i)
           /\ \A i \in 1 .. Len(L[h]) + 1 : l.prev[At(h, L[h], i)] = At(h, L[h], i - 1)
<1>1. Len(L[h]) \in Nat
  BY AtFacts DEF Rep
<1>2. \A i \in 0 .. Len(L[h]) : /\ l.next[At(h, L[h], i)] = At(h, L[h], i + 1)
                                /\ l.prev[At(h, L[h], i + 1)] = At(h, L[h], i)
  BY Zenon DEF Rep, Chain
<1>3. ASSUME NEW i \in 1 .. Len(L[h]) + 1
      PROVE  l.prev[At(h, L[h], i)] = At(h, L[h], i - 1)
  <2>1. i - 1 \in 0 .. Len(L[h]) /\ (i - 1) + 1 = i
    BY <1>1
  <2> QED
    BY <1>2, <2>1, Zenon
<1> QED
  BY <1>2, <1>3

\* What __list_add and __list_del store.
LEMMA AddBetweenFacts ==
    ASSUME NEW l \in Links, NEW new \in Cell, NEW p \in Cell, NEW n \in Cell,
           new # p, new # n
    PROVE  LET r == ListAddBetween(l, new, p, n) IN
           /\ r \in Links
           /\ \A c \in Cell : r.next[c] = IF c = p THEN new
                                          ELSE IF c = new THEN n ELSE l.next[c]
           /\ \A c \in Cell : r.prev[c] = IF c = n THEN new
                                          ELSE IF c = new THEN p ELSE l.prev[c]
BY DEF ListAddBetween, Links, Pointer

LEMMA DelBetweenFacts ==
    ASSUME NEW l \in Links, NEW p \in Cell, NEW n \in Cell
    PROVE  LET r == ListDelBetween(l, p, n) IN
           /\ r \in Links
           /\ \A c \in Cell : r.next[c] = IF c = p THEN n ELSE l.next[c]
           /\ \A c \in Cell : r.prev[c] = IF c = n THEN p ELSE l.prev[c]
BY DEF ListDelBetween, Links, Pointer

-----------------------------------------------------------------------------
(* Insertion *)

\* t is s with e behind its first k entries.
Inserted(s, t, k, e) ==
    /\ Len(t) = Len(s) + 1
    /\ \A i \in 1 .. Len(t) : t[i] = IF i <= k THEN s[i]
                                     ELSE IF i = k + 1 THEN e ELSE s[i - 1]

LEMMA InsertedAt ==
    ASSUME NEW h, NEW s \in Seq(Entry), NEW t \in Seq(Entry), NEW k \in 0 .. Len(s), NEW e,
           Inserted(s, t, k, e)
    PROVE  /\ \A i \in 0 .. k : At(h, t, i) = At(h, s, i)
           /\ At(h, t, k + 1) = e
           /\ \A i \in k + 1 .. Len(s) + 1 : At(h, t, i + 1) = At(h, s, i)
<1>1. Len(s) \in Nat /\ Len(t) = Len(s) + 1
  BY DEF Inserted
<1> QED
  BY <1>1 DEF At, Inserted

LEMMA InsertRep ==
    ASSUME NEW l, NEW L, Rep(l, L), NEW h \in Head_, NEW e \in Entry, Outside(e, L),
           NEW k \in 0 .. Len(L[h]), NEW t \in Seq(Entry), Inserted(L[h], t, k, e)
    PROVE  Rep(ListAddBetween(l, e, At(h, L[h], k), At(h, L[h], k + 1)),
               [L EXCEPT ![h] = t])
<1> DEFINE p == At(h, L[h], k)
           n == At(h, L[h], k + 1)
           r == ListAddBetween(l, e, p, n)
           M == [L EXCEPT ![h] = t]
<1>1. /\ L \in [Head_ -> Seq(Entry)] /\ l \in Links /\ Distinct(L)
      /\ Len(L[h]) \in Nat /\ k \in Nat /\ k + 1 \in Nat
  BY AtFacts DEF Rep
<1>2. p \in Cell /\ n \in Cell /\ e \in Cell /\ e # p /\ e # n
  BY <1>1, AtFacts, OutsideFacts DEF Cell
<1>3. /\ r \in Links
      /\ \A c \in Cell : r.next[c] = IF c = p THEN e
                                     ELSE IF c = e THEN n ELSE l.next[c]
      /\ \A c \in Cell : r.prev[c] = IF c = n THEN e
                                     ELSE IF c = e THEN p ELSE l.prev[c]
  <2> HIDE DEF p, n
  <2> QED
    BY <1>1, <1>2, AddBetweenFacts
<1>4. M \in [Head_ -> Seq(Entry)] /\ M[h] = t /\ \A g \in Head_ \ {h} : M[g] = L[g]
  BY <1>1
<1>5. Distinct(M)
  <2>1. Len(t) = Len(L[h]) + 1
    BY DEF Inserted
  <2>2. \A i \in 1 .. Len(t) :
           t[i] = IF i <= k THEN L[h][i] ELSE IF i = k + 1 THEN e ELSE L[h][i - 1]
    BY DEF Inserted
  <2>3. \A g \in Head_ : Len(L[g]) \in Nat /\ \A i \in 1 .. Len(L[g]) : L[g][i] # e
    BY <1>1, AtFacts DEF Outside
  <2> HIDE DEF M
  <2> SUFFICES ASSUME NEW g \in Head_, NEW f \in Head_,
                      NEW i \in 1 .. Len(M[g]), NEW j \in 1 .. Len(M[f]),
                      M[g][i] = M[f][j]
               PROVE  g = f /\ i = j
    BY DEF Distinct
  <2>4. CASE g # h /\ f # h
    BY <1>1, <1>4, <2>4 DEF Distinct
  <2> DEFINE q(x) == IF x <= k THEN x ELSE x - 1
  <2>8. \A x \in 1 .. Len(t) : x # k + 1 => q(x) \in 1 .. Len(L[h]) /\ t[x] = L[h][q(x)]
    BY <1>1, <2>1, <2>2
  <2>9. t[k + 1] = e
    BY <1>1, <2>1, <2>2
  <2>5. CASE g = h /\ f # h
    <3>1. i \in 1 .. Len(t) /\ t[i] = L[f][j] /\ j \in 1 .. Len(L[f])
      BY <1>4, <2>5
    <3>2. i # k + 1
      BY <2>3, <2>9, <3>1
    <3>3. q(i) \in 1 .. Len(L[h]) /\ L[h][q(i)] = L[f][j]
      BY <2>8, <3>1, <3>2
    <3> QED
      BY <1>1, <2>5, <3>1, <3>3, Zenon DEF Distinct
  <2>6. CASE g # h /\ f = h
    <3>1. j \in 1 .. Len(t) /\ t[j] = L[g][i] /\ i \in 1 .. Len(L[g])
      BY <1>4, <2>6
    <3>2. j # k + 1
      BY <2>3, <2>9, <3>1
    <3>3. q(j) \in 1 .. Len(L[h]) /\ L[g][i] = L[h][q(j)]
      BY <2>8, <3>1, <3>2
    <3> QED
      BY <1>1, <2>6, <3>1, <3>3, Zenon DEF Distinct
  <2>7. CASE g = h /\ f = h
    <3>1. i \in 1 .. Len(t) /\ j \in 1 .. Len(t) /\ t[i] = t[j]
      BY <1>4, <2>7
    <3>2. (i = k + 1) <=> (j = k + 1)
      <4> HIDE DEF q
      <4> QED
        BY <2>3, <2>8, <2>9, <3>1
    <3>3. i # k + 1 => q(i) = q(j)
      <4> SUFFICES ASSUME i # k + 1 PROVE q(i) = q(j)
        OBVIOUS
      <4> HIDE DEF q
      <4>1. /\ q(i) \in 1 .. Len(L[h]) /\ q(j) \in 1 .. Len(L[h])
            /\ L[h][q(i)] = L[h][q(j)]
        <5>1. j # k + 1
          BY <3>2
        <5>2. q(i) \in 1 .. Len(L[h]) /\ t[i] = L[h][q(i)]
          BY <2>8, <3>1
        <5>3. q(j) \in 1 .. Len(L[h]) /\ t[j] = L[h][q(j)]
          BY <2>8, <3>1, <5>1
        <5> QED
          BY <3>1, <5>2, <5>3
      <4> QED
        BY <1>1, <4>1 DEF Distinct
    <3> QED
      BY <1>1, <2>1, <2>7, <3>1, <3>2, <3>3
  <2> QED
    BY <2>4, <2>5, <2>6, <2>7
<1>6. ASSUME NEW g \in Head_, g # h
      PROVE  Chain(r, g, M[g])
  <2>1. M[g] = L[g] /\ Len(L[g]) \in Nat
    BY <1>1, <1>4, <1>6, AtFacts
  <2> SUFFICES ASSUME NEW i \in 0 .. Len(L[g])
               PROVE  /\ r.next[At(g, L[g], i)] = At(g, L[g], i + 1)
                      /\ r.prev[At(g, L[g], i + 1)] = At(g, L[g], i)
    BY <2>1 DEF Chain
  <2>2. At(g, L[g], i) # p /\ At(g, L[g], i + 1) # n
    BY <1>1, <1>6, PlacesDiffer
  <2>3. /\ At(g, L[g], i) \in Cell /\ At(g, L[g], i + 1) \in Cell
        /\ At(g, L[g], i) # e /\ At(g, L[g], i + 1) # e
    BY <1>1, <2>1, AtFacts, OutsideFacts
  <2>4. /\ l.next[At(g, L[g], i)] = At(g, L[g], i + 1)
        /\ l.prev[At(g, L[g], i + 1)] = At(g, L[g], i)
    BY ChainAt
  <2> HIDE DEF r, p, n
  <2> QED
    BY <1>3, <2>2, <2>3, <2>4
<1>7. Chain(r, h, M[h])
  <2>1. /\ \A i \in 0 .. k : At(h, t, i) = At(h, L[h], i)
        /\ At(h, t, k + 1) = e
        /\ \A i \in k + 1 .. Len(L[h]) + 1 : At(h, t, i + 1) = At(h, L[h], i)
        /\ Len(t) = Len(L[h]) + 1
    <3>1. L[h] \in Seq(Entry)
      BY <1>1
    <3>2. Len(t) = Len(L[h]) + 1
      BY DEF Inserted
    <3> QED
      BY <3>1, <3>2, InsertedAt
  <2>2. ASSUME NEW i \in 0 .. Len(L[h]), i # k
        PROVE  /\ r.next[At(h, L[h], i)] = At(h, L[h], i + 1)
               /\ r.prev[At(h, L[h], i + 1)] = At(h, L[h], i)
    <3>1. At(h, L[h], i) # p /\ At(h, L[h], i + 1) # n
      BY <1>1, <2>2, PlacesDiffer
    <3>2. /\ At(h, L[h], i) \in Cell /\ At(h, L[h], i + 1) \in Cell
          /\ At(h, L[h], i) # e /\ At(h, L[h], i + 1) # e
      BY <1>1, AtFacts, OutsideFacts
    <3>3. /\ l.next[At(h, L[h], i)] = At(h, L[h], i + 1)
          /\ l.prev[At(h, L[h], i + 1)] = At(h, L[h], i)
      BY ChainAt
    <3> HIDE DEF r, p, n
    <3> QED
      BY <1>3, <3>1, <3>2, <3>3
  <2>3. r.next[p] = e /\ r.prev[n] = e /\ r.next[e] = n /\ r.prev[e] = p
    <3> HIDE DEF r, p, n
    <3> QED
      BY <1>2, <1>3
  <2> SUFFICES ASSUME NEW i \in 0 .. Len(t)
               PROVE  /\ r.next[At(h, t, i)] = At(h, t, i + 1)
                      /\ r.prev[At(h, t, i + 1)] = At(h, t, i)
    BY <1>4 DEF Chain
  <2>4. CASE i < k
    <3>1. At(h, t, i) = At(h, L[h], i) /\ At(h, t, i + 1) = At(h, L[h], i + 1)
      BY <1>1, <2>1, <2>4
    <3> HIDE DEF r
    <3> QED
      BY <1>1, <2>1, <2>2, <2>4, <3>1
  <2>5. CASE i = k
    BY <1>1, <2>1, <2>3, <2>5
  <2>6. CASE i = k + 1
    <3>1. At(h, t, i + 1) = n
      BY <1>1, <2>1, <2>6
    <3> QED
      BY <2>1, <2>3, <2>6, <3>1
  <2>7. CASE i > k + 1
    <3>1. /\ i - 1 \in 0 .. Len(L[h]) /\ i - 1 # k /\ (i - 1) + 1 = i
          /\ i - 1 \in k + 1 .. Len(L[h]) + 1 /\ i \in k + 1 .. Len(L[h]) + 1
      BY <1>1, <2>1, <2>7
    <3>2. At(h, t, i) = At(h, L[h], i - 1) /\ At(h, t, i + 1) = At(h, L[h], i)
      BY <2>1, <3>1
    <3> HIDE DEF r
    <3> QED
      BY <2>2, <3>1, <3>2
  <2> QED
    BY <1>1, <2>4, <2>5, <2>6, <2>7
<1> HIDE DEF r, M
<1>8. Rep(r, M)
  BY <1>3, <1>4, <1>5, <1>6, <1>7 DEF Rep
<1> QED
  BY <1>8 DEF r, M

-----------------------------------------------------------------------------
(* Removal *)

\* The pointers of an entry that is in no list do not matter.
LEMMA RepElsewhere ==
    ASSUME NEW l, NEW L, Rep(l, L), NEW e \in Entry, Outside(e, L), NEW r \in Links,
           \A c \in Cell \ {e} : r.next[c] = l.next[c] /\ r.prev[c] = l.prev[c]
    PROVE  Rep(r, L)
<1>1. L \in [Head_ -> Seq(Entry)] /\ Distinct(L)
  BY DEF Rep
<1>2. ASSUME NEW h \in Head_
      PROVE  Chain(r, h, L[h])
  <2>1. Len(L[h]) \in Nat
    BY <1>1, AtFacts
  <2> SUFFICES ASSUME NEW i \in 0 .. Len(L[h])
               PROVE  /\ r.next[At(h, L[h], i)] = At(h, L[h], i + 1)
                      /\ r.prev[At(h, L[h], i + 1)] = At(h, L[h], i)
    BY DEF Chain
  <2>2. At(h, L[h], i) \in Cell \ {e} /\ At(h, L[h], i + 1) \in Cell \ {e}
    BY <1>1, <2>1, AtFacts, OutsideFacts
  <2>3. /\ l.next[At(h, L[h], i)] = At(h, L[h], i + 1)
        /\ l.prev[At(h, L[h], i + 1)] = At(h, L[h], i)
    BY ChainAt
  <2> QED
    BY <2>2, <2>3
<1> QED
  BY <1>1, <1>2 DEF Rep

\* t is s without its k-th entry.
Removed(s, t, k) ==
    /\ Len(t) = Len(s) - 1
    /\ \A i \in 1 .. Len(t) : t[i] = IF i < k THEN s[i] ELSE s[i + 1]

LEMMA RemovedAt ==
    ASSUME NEW h, NEW s \in Seq(Entry), NEW t \in Seq(Entry), NEW k \in 1 .. Len(s),
           Removed(s, t, k)
    PROVE  /\ \A i \in 0 .. k - 1 : At(h, t, i) = At(h, s, i)
           /\ \A i \in k .. Len(s) : At(h, t, i) = At(h, s, i + 1)
<1>1. Len(s) \in Nat /\ Len(t) = Len(s) - 1
  BY DEF Removed
<1> QED
  BY <1>1 DEF At, Removed

LEMMA RemoveRep ==
    ASSUME NEW l, NEW L, Rep(l, L), NEW h \in Head_, NEW k \in 1 .. Len(L[h]),
           NEW t \in Seq(Entry), Removed(L[h], t, k)
    PROVE  /\ Rep(ListDelBetween(l, l.prev[L[h][k]], l.next[L[h][k]]), [L EXCEPT ![h] = t])
           /\ Outside(L[h][k], [L EXCEPT ![h] = t])
<1> DEFINE e == L[h][k]
           p == At(h, L[h], k - 1)
           n == At(h, L[h], k + 1)
           r == ListDelBetween(l, p, n)
           M == [L EXCEPT ![h] = t]
<1>1. /\ L \in [Head_ -> Seq(Entry)] /\ l \in Links /\ Distinct(L)
      /\ Len(L[h]) \in Nat /\ k \in Nat /\ k - 1 \in Nat /\ k + 1 \in Nat
  BY AtFacts DEF Rep
<1>2. p \in Cell /\ n \in Cell /\ e \in Entry /\ e = At(h, L[h], k)
  BY <1>1, AtFacts
<1>a. l.prev[e] = p /\ l.next[e] = n
  <2>1. k \in 0 .. Len(L[h]) /\ k \in 1 .. Len(L[h]) + 1
    BY <1>1
  <2> QED
    BY <1>2, <2>1, ChainAt
<1>3. /\ r \in Links
      /\ \A c \in Cell : r.next[c] = IF c = p THEN n ELSE l.next[c]
      /\ \A c \in Cell : r.prev[c] = IF c = n THEN p ELSE l.prev[c]
  <2> HIDE DEF p, n
  <2> QED
    BY <1>1, <1>2, DelBetweenFacts
<1>4. M \in [Head_ -> Seq(Entry)] /\ M[h] = t /\ \A g \in Head_ \ {h} : M[g] = L[g]
  BY <1>1
<1> DEFINE q(x) == IF x < k THEN x ELSE x + 1
<1>b. Len(t) = Len(L[h]) - 1
  BY DEF Removed
<1>c. \A x \in 1 .. Len(t) : /\ q(x) \in 1 .. Len(L[h]) /\ t[x] = L[h][q(x)]
                             /\ q(x) # k
  BY <1>1, <1>b DEF Removed
<1>d. \A x, y \in 1 .. Len(t) : q(x) = q(y) => x = y
  BY <1>1, <1>b
<1>5. Distinct(M)
  <2> HIDE DEF M, q
  <2> SUFFICES ASSUME NEW g \in Head_, NEW f \in Head_,
                      NEW i \in 1 .. Len(M[g]), NEW j \in 1 .. Len(M[f]),
                      M[g][i] = M[f][j]
               PROVE  g = f /\ i = j
    BY DEF Distinct
  <2>4. CASE g # h /\ f # h
    BY <1>1, <1>4, <2>4 DEF Distinct
  <2>5. CASE g = h /\ f # h
    <3>1. i \in 1 .. Len(t) /\ t[i] = L[f][j] /\ j \in 1 .. Len(L[f])
      BY <1>4, <2>5
    <3>2. q(i) \in 1 .. Len(L[h]) /\ L[h][q(i)] = L[f][j]
      BY <1>c, <3>1
    <3> QED
      BY <1>1, <2>5, <3>1, <3>2, Zenon DEF Distinct
  <2>6. CASE g # h /\ f = h
    <3>1. j \in 1 .. Len(t) /\ t[j] = L[g][i] /\ i \in 1 .. Len(L[g])
      BY <1>4, <2>6
    <3>2. q(j) \in 1 .. Len(L[h]) /\ L[g][i] = L[h][q(j)]
      BY <1>c, <3>1
    <3> QED
      BY <1>1, <2>6, <3>1, <3>2, Zenon DEF Distinct
  <2>7. CASE g = h /\ f = h
    <3>1. i \in 1 .. Len(t) /\ j \in 1 .. Len(t) /\ t[i] = t[j]
      BY <1>4, <2>7
    <3>2. q(i) \in 1 .. Len(L[h]) /\ t[i] = L[h][q(i)]
      BY <1>c, <3>1
    <3>3. q(j) \in 1 .. Len(L[h]) /\ t[j] = L[h][q(j)]
      BY <1>c, <3>1
    <3>4. L[h][q(i)] = L[h][q(j)]
      BY <3>1, <3>2, <3>3
    <3>5. q(i) = q(j)
      BY <1>1, <3>2, <3>3, <3>4 DEF Distinct
    <3> QED
      BY <1>d, <2>7, <3>1, <3>5
  <2> QED
    BY <2>4, <2>5, <2>6, <2>7
<1>6. ASSUME NEW g \in Head_, g # h
      PROVE  Chain(r, g, M[g])
  <2>1. M[g] = L[g] /\ Len(L[g]) \in Nat
    BY <1>1, <1>4, <1>6, AtFacts
  <2> SUFFICES ASSUME NEW i \in 0 .. Len(L[g])
               PROVE  /\ r.next[At(g, L[g], i)] = At(g, L[g], i + 1)
                      /\ r.prev[At(g, L[g], i + 1)] = At(g, L[g], i)
    BY <2>1 DEF Chain
  <2>2. At(g, L[g], i) # p /\ At(g, L[g], i + 1) # n
    <3>1. k - 1 \in 0 .. Len(L[h]) /\ k \in 0 .. Len(L[h])
      BY <1>1
    <3> QED
      BY <1>1, <1>6, <3>1, PlacesDiffer
  <2>3. At(g, L[g], i) \in Cell /\ At(g, L[g], i + 1) \in Cell
    BY <1>1, <2>1, AtFacts
  <2>4. /\ l.next[At(g, L[g], i)] = At(g, L[g], i + 1)
        /\ l.prev[At(g, L[g], i + 1)] = At(g, L[g], i)
    BY ChainAt
  <2> HIDE DEF r, p, n
  <2> QED
    BY <1>3, <2>2, <2>3, <2>4
<1>7. Chain(r, h, M[h])
  <2>1. /\ \A i \in 0 .. k - 1 : At(h, t, i) = At(h, L[h], i)
        /\ \A i \in k .. Len(L[h]) : At(h, t, i) = At(h, L[h], i + 1)
    <3>1. L[h] \in Seq(Entry)
      BY <1>1
    <3> QED
      BY <3>1, RemovedAt
  <2>2. ASSUME NEW i \in 0 .. Len(L[h])
        PROVE  /\ i # k - 1 => r.next[At(h, L[h], i)] = At(h, L[h], i + 1)
               /\ i # k => r.prev[At(h, L[h], i + 1)] = At(h, L[h], i)
    <3>0. k - 1 \in 0 .. Len(L[h]) /\ k \in 0 .. Len(L[h])
      BY <1>1
    <3>1. /\ i # k - 1 => At(h, L[h], i) # p
          /\ i # k => At(h, L[h], i + 1) # n
      BY <1>1, <3>0, PlacesDiffer
    <3>2. At(h, L[h], i) \in Cell /\ At(h, L[h], i + 1) \in Cell
      BY <1>1, AtFacts
    <3>3. /\ l.next[At(h, L[h], i)] = At(h, L[h], i + 1)
          /\ l.prev[At(h, L[h], i + 1)] = At(h, L[h], i)
      BY ChainAt
    <3> HIDE DEF r, p, n
    <3> QED
      BY <1>3, <3>1, <3>2, <3>3
  <2>3. r.next[p] = n /\ r.prev[n] = p
    <3> HIDE DEF r, p, n
    <3> QED
      BY <1>2, <1>3
  <2> SUFFICES ASSUME NEW i \in 0 .. Len(t)
               PROVE  /\ r.next[At(h, t, i)] = At(h, t, i + 1)
                      /\ r.prev[At(h, t, i + 1)] = At(h, t, i)
    BY <1>4 DEF Chain
  <2>4. CASE i < k - 1
    <3>1. At(h, t, i) = At(h, L[h], i) /\ At(h, t, i + 1) = At(h, L[h], i + 1)
      BY <1>1, <2>1, <2>4
    <3>2. i \in 0 .. Len(L[h]) /\ i # k - 1 /\ i # k
      BY <1>1, <1>b, <2>4
    <3> HIDE DEF r
    <3> QED
      BY <2>2, <3>1, <3>2
  <2>5. CASE i = k - 1
    <3>1. At(h, t, i) = p /\ At(h, t, i + 1) = n
      BY <1>1, <2>1, <2>5
    <3> QED
      BY <2>3, <3>1
  <2>6. CASE i > k - 1
    <3>1. At(h, t, i) = At(h, L[h], i + 1) /\ At(h, t, i + 1) = At(h, L[h], (i + 1) + 1)
      BY <1>1, <1>b, <2>1, <2>6
    <3>2. i + 1 \in 0 .. Len(L[h]) /\ i + 1 # k - 1 /\ i + 1 # k
      BY <1>1, <1>b, <2>6
    <3> HIDE DEF r
    <3> QED
      BY <2>2, <3>1, <3>2
  <2> QED
    BY <1>1, <1>b, <2>4, <2>5, <2>6
<1>8. Outside(e, M)
  <2> SUFFICES ASSUME NEW g \in Head_, NEW i \in 1 .. Len(M[g]), M[g][i] = e
               PROVE  FALSE
    BY DEF Outside
  <2>1. CASE g # h
    BY <1>1, <1>4, <2>1 DEF Distinct
  <2>2. CASE g = h
    <3>1. q(i) \in 1 .. Len(L[h]) /\ q(i) # k /\ L[h][q(i)] = e
      BY <1>4, <1>c, <2>2
    <3> HIDE DEF q
    <3> QED
      BY <1>1, <3>1 DEF Distinct
  <2> QED
    BY <2>1, <2>2
<1> HIDE DEF r, M, p, n, q
<1>9. Rep(r, M)
  BY <1>3, <1>4, <1>5, <1>6, <1>7 DEF Rep
<1> QED
  BY <1>8, <1>9, <1>a DEF r, M

-----------------------------------------------------------------------------
(* Splicing *)

LEMMA ConcatFacts ==
    ASSUME NEW s \in Seq(Entry), NEW t \in Seq(Entry)
    PROVE  /\ s \o t \in Seq(Entry) /\ Len(s \o t) = Len(s) + Len(t)
           /\ \A i \in 1 .. Len(s) : (s \o t)[i] = s[i]
           /\ \A i \in 1 .. Len(t) : (s \o t)[Len(s) + i] = t[i]
<1>1. /\ s \o t \in Seq(Entry) /\ Len(s \o t) = Len(s) + Len(t)
      /\ \A i \in 1 .. Len(s) + Len(t) :
            (s \o t)[i] = IF i <= Len(s) THEN s[i] ELSE t[i - Len(s)]
  BY ConcatProperties
<1>2. Len(s) \in Nat /\ Len(t) \in Nat
  OBVIOUS
<1>3. ASSUME NEW i \in 1 .. Len(t)
      PROVE  (s \o t)[Len(s) + i] = t[i]
  <2>1. /\ Len(s) + i \in 1 .. Len(s) + Len(t) /\ ~(Len(s) + i <= Len(s))
        /\ (Len(s) + i) - Len(s) = i
    BY <1>2
  <2> QED
    BY <1>1, <2>1
<1>4. ASSUME NEW i \in 1 .. Len(s)
      PROVE  (s \o t)[i] = s[i]
  BY <1>1, <1>2
<1> QED
  BY <1>1, <1>3, <1>4

LEMMA SpliceFacts ==
    ASSUME NEW l \in Links, NEW f \in Cell, NEW h \in Cell,
           NEW first \in Cell, NEW last \in Cell, NEW at \in Cell,
           first = l.next[f], last = l.prev[f], at = l.next[h],
           f \notin {h, first, last, at}, last # h, first # at
    PROVE  LET r == INIT_LIST_HEAD(ListSpliceNonempty(l, f, h), f) IN
           /\ r \in Links
           /\ \A c \in Cell : r.next[c] = IF c = f THEN f ELSE IF c = h THEN first
                                          ELSE IF c = last THEN at ELSE l.next[c]
           /\ \A c \in Cell : r.prev[c] = IF c = f THEN f ELSE IF c = first THEN h
                                          ELSE IF c = at THEN last ELSE l.prev[c]
BY DEF INIT_LIST_HEAD, ListSpliceNonempty, Links, Pointer

LEMMA SpliceRep ==
    ASSUME NEW l, NEW L, Rep(l, L), NEW f \in Head_, NEW h \in Head_, f # h, L[f] # <<>>
    PROVE  Rep(INIT_LIST_HEAD(ListSpliceNonempty(l, f, h), f),
               [L EXCEPT ![f] = <<>>, ![h] = L[f] \o L[h]])
<1> DEFINE s == L[f]
           t == L[h]
           u == s \o t
           m == Len(s)
           first == At(f, s, 1)
           last == At(f, s, m)
           at == At(h, t, 1)
           r == INIT_LIST_HEAD(ListSpliceNonempty(l, f, h), f)
           M == [L EXCEPT ![f] = <<>>, ![h] = L[f] \o L[h]]
<1>1. L \in [Head_ -> Seq(Entry)] /\ l \in Links /\ Distinct(L)
  BY DEF Rep
<1>2. /\ s \in Seq(Entry) /\ t \in Seq(Entry) /\ m \in Nat /\ m >= 1 /\ Len(t) \in Nat
  <2>1. s \in Seq(Entry) /\ t \in Seq(Entry)
    BY <1>1
  <2> QED
    BY <2>1, EmptySeq
<1>3. /\ u \in Seq(Entry) /\ Len(u) = m + Len(t)
      /\ \A i \in 1 .. m : u[i] = s[i]
      /\ \A i \in 1 .. Len(t) : u[m + i] = t[i]
  BY <1>2, ConcatFacts
<1>4. /\ At(h, u, 0) = h
      /\ \A i \in 1 .. m : At(h, u, i) = At(f, s, i)
      /\ \A i \in 1 .. Len(t) + 1 : At(h, u, m + i) = At(h, t, i)
  <2> HIDE DEF s, t, u, m
  <2> QED
    BY <1>2, <1>3 DEF At, m
<1>5. /\ M \in [Head_ -> Seq(Entry)] /\ M[f] = <<>> /\ M[h] = u
      /\ \A g \in Head_ \ {f, h} : M[g] = L[g]
  <2>1. <<>> \in Seq(Entry)
    BY EmptySeq
  <2> QED
    BY <1>1, <1>3, <2>1
<1>6. /\ first \in Cell /\ last \in Cell /\ at \in Cell /\ f \in Cell /\ h \in Cell
      /\ first = l.next[f] /\ last = l.prev[f] /\ at = l.next[h]
      /\ f \notin {h, first, last, at} /\ last # h /\ first # at
  <2>1. first \in Cell /\ last \in Cell /\ at \in Cell /\ f \in Cell /\ h \in Cell
    BY <1>1, <1>2, AtFacts DEF Cell
  <2>2. first = l.next[f] /\ at = l.next[h]
    <3>1. At(f, s, 0) = f /\ At(h, t, 0) = h
      BY <1>1, AtFacts
    <3>2. 0 \in 0 .. Len(L[f]) /\ 0 \in 0 .. Len(L[h])
      BY <1>2
    <3> QED
      BY <3>1, <3>2, ChainAt
  <2>3. last = l.prev[f]
    <3>1. At(f, s, m + 1) = f
      BY <1>1, AtFacts
    <3>2. m \in 0 .. Len(L[f])
      BY <1>2
    <3> QED
      BY <3>1, <3>2, ChainAt
  <2>4. /\ first \in Entry /\ last \in Entry /\ f \notin Entry /\ h \notin Entry
    <3>1. 1 \in 1 .. Len(L[f]) /\ m \in 1 .. Len(L[f])
      BY <1>2
    <3>2. f \notin Entry /\ h \notin Entry
      BY ListAssumption
    <3>3. \A i \in 1 .. Len(L[f]) : At(f, L[f], i) \in Entry
      BY <1>2 DEF At
    <3> QED
      BY <3>1, <3>2, <3>3
  <2>5. at \in Entry \/ at = h
    BY <1>1, <1>2, AtFacts DEF At
  <2>6. first # at
    <3>1. 0 \in 0 .. Len(L[f]) /\ 0 \in 0 .. Len(L[h])
      BY <1>2
    <3> QED
      BY <1>1, <3>1, PlacesDiffer
  <2> HIDE DEF first, last, at
  <2> QED
    BY <2>1, <2>2, <2>3, <2>4, <2>5, <2>6
<1>7. /\ r \in Links
      /\ \A c \in Cell : r.next[c] = IF c = f THEN f ELSE IF c = h THEN first
                                     ELSE IF c = last THEN at ELSE l.next[c]
      /\ \A c \in Cell : r.prev[c] = IF c = f THEN f ELSE IF c = first THEN h
                                     ELSE IF c = at THEN last ELSE l.prev[c]
  <2> HIDE DEF first, last, at
  <2> QED
    BY <1>1, <1>6, SpliceFacts
<1>8. Distinct(M)
  <2> DEFINE o(x) == IF x <= m THEN f ELSE h
             q(x) == IF x <= m THEN x ELSE x - m
  <2>1. \A x \in 1 .. Len(u) : /\ o(x) \in {f, h} /\ q(x) \in 1 .. Len(L[o(x)])
                               /\ u[x] = L[o(x)][q(x)]
    <3> SUFFICES ASSUME NEW x \in 1 .. Len(u)
                 PROVE  /\ o(x) \in {f, h} /\ q(x) \in 1 .. Len(L[o(x)])
                        /\ u[x] = L[o(x)][q(x)]
      OBVIOUS
    <3>1. CASE x <= m
      BY <1>2, <1>3, <3>1
    <3>2. CASE x > m
      <4>1. x - m \in 1 .. Len(t) /\ m + (x - m) = x
        <5> HIDE DEF u, m, t
        <5> QED
          BY <1>2, <1>3, <3>2
      <4>2. u[x] = t[x - m]
        BY <1>3, <4>1
      <4>3. ~(x <= m)
        BY <1>2, <3>2
      <4> QED
        BY <4>1, <4>2, <4>3
    <3> QED
      BY <1>2, <3>1, <3>2
  <2>2. \A x, y \in 1 .. Len(u) : o(x) = o(y) /\ q(x) = q(y) => x = y
    BY <1>2, <1>3
  <2> HIDE DEF M, o, q, u
  <2> SUFFICES ASSUME NEW g \in Head_, NEW d \in Head_,
                      NEW i \in 1 .. Len(M[g]), NEW j \in 1 .. Len(M[d]),
                      M[g][i] = M[d][j]
               PROVE  g = d /\ i = j
    BY DEF Distinct
  <2>3. g # f /\ d # f
    BY <1>5, EmptySeq
  <2>4. CASE g # h /\ d # h
    BY <1>1, <1>5, <2>3, <2>4 DEF Distinct
  <2>5. CASE g = h /\ d # h
    <3>1. /\ o(i) \in Head_ /\ o(i) # d /\ q(i) \in 1 .. Len(L[o(i)])
          /\ L[o(i)][q(i)] = L[d][j] /\ j \in 1 .. Len(L[d])
      BY <1>5, <2>1, <2>3, <2>5
    <3> QED
      BY <1>1, <3>1 DEF Distinct
  <2>6. CASE g # h /\ d = h
    <3>1. /\ o(j) \in Head_ /\ o(j) # g /\ q(j) \in 1 .. Len(L[o(j)])
          /\ L[g][i] = L[o(j)][q(j)] /\ i \in 1 .. Len(L[g])
      BY <1>5, <2>1, <2>3, <2>6
    <3> QED
      BY <1>1, <3>1 DEF Distinct
  <2>7. CASE g = h /\ d = h
    <3>1. i \in 1 .. Len(u) /\ j \in 1 .. Len(u) /\ u[i] = u[j]
      BY <1>5, <2>7
    <3>2. /\ o(i) \in Head_ /\ q(i) \in 1 .. Len(L[o(i)])
          /\ o(j) \in Head_ /\ q(j) \in 1 .. Len(L[o(j)])
          /\ L[o(i)][q(i)] = L[o(j)][q(j)]
      BY <2>1, <3>1
    <3>3. o(i) = o(j) /\ q(i) = q(j)
      BY <1>1, <3>2 DEF Distinct
    <3> QED
      BY <2>2, <2>7, <3>1, <3>3
  <2> QED
    BY <2>4, <2>5, <2>6, <2>7
<1>9. ASSUME NEW g \in Head_, g \notin {f, h}
      PROVE  Chain(r, g, M[g])
  <2>1. M[g] = L[g] /\ Len(L[g]) \in Nat
    BY <1>1, <1>5, <1>9, AtFacts
  <2> SUFFICES ASSUME NEW i \in 0 .. Len(L[g])
               PROVE  /\ r.next[At(g, L[g], i)] = At(g, L[g], i + 1)
                      /\ r.prev[At(g, L[g], i + 1)] = At(g, L[g], i)
    BY <2>1 DEF Chain
  <2>2. At(g, L[g], i) \notin {f, h, last} /\ At(g, L[g], i + 1) \notin {f, first, at}
    <3>1. /\ 0 \in 0 .. Len(L[f]) /\ m \in 0 .. Len(L[f]) /\ 0 \in 0 .. Len(L[h])
          /\ m + 1 = Len(L[f]) + 1
      BY <1>2
    <3>2. /\ At(f, s, 0) = f /\ At(h, t, 0) = h /\ At(f, s, m + 1) = f
      BY <1>1, AtFacts
    <3>3. At(g, L[g], i) # At(f, s, 0) /\ At(g, L[g], i) # At(h, t, 0)
      BY <1>1, <1>9, <3>1, PlacesDiffer
    <3>4. At(g, L[g], i) # last /\ At(g, L[g], i + 1) # At(f, s, m + 1)
      BY <1>1, <1>9, <3>1, PlacesDiffer
    <3>5. At(g, L[g], i + 1) # At(f, s, 0 + 1) /\ At(g, L[g], i + 1) # At(h, t, 0 + 1)
      BY <1>1, <1>9, <3>1, PlacesDiffer
    <3> QED
      BY <3>2, <3>3, <3>4, <3>5
  <2>3. At(g, L[g], i) \in Cell /\ At(g, L[g], i + 1) \in Cell
    BY <1>1, <2>1, AtFacts
  <2>4. /\ l.next[At(g, L[g], i)] = At(g, L[g], i + 1)
        /\ l.prev[At(g, L[g], i + 1)] = At(g, L[g], i)
    BY ChainAt
  <2> HIDE DEF r, first, last, at
  <2> QED
    BY <1>7, <2>2, <2>3, <2>4
<1>10. Chain(r, f, M[f])
  <2>1. r.next[f] = f /\ r.prev[f] = f
    <3> HIDE DEF r, first, last, at
    <3> QED
      BY <1>6, <1>7
  <2>2. Len(M[f]) = 0
    BY <1>5, EmptySeq
  <2>3. \A i \in 0 .. 1 : At(f, M[f], i) = f
    BY <2>2 DEF At
  <2> QED
    BY <2>1, <2>2, <2>3 DEF Chain
<1>11. Chain(r, h, M[h])
  <2> SUFFICES ASSUME NEW i \in 0 .. Len(u)
               PROVE  /\ r.next[At(h, u, i)] = At(h, u, i + 1)
                      /\ r.prev[At(h, u, i + 1)] = At(h, u, i)
    BY <1>5 DEF Chain
  <2>1. At(f, s, 0) = f /\ At(h, t, 0) = h /\ At(f, s, m + 1) = f
    BY <1>1, AtFacts
  <2>2. CASE i = 0
    <3>1. At(h, u, i) = h /\ At(h, u, i + 1) = first
      BY <1>2, <1>4, <2>2
    <3> HIDE DEF r, first, last, at
    <3> QED
      BY <1>6, <1>7, <3>1
  <2>3. CASE i \in 1 .. m - 1
    <3>1. At(h, u, i) = At(f, s, i) /\ At(h, u, i + 1) = At(f, s, i + 1)
      BY <1>2, <1>4, <2>3
    <3>2. i \in 0 .. Len(L[f]) /\ i # 0 /\ i # m /\ m \in 0 .. Len(L[f])
          /\ 0 \in 0 .. Len(L[f]) /\ 0 \in 0 .. Len(L[h])
      BY <1>2, <2>3
    <3>3. At(f, s, i) # At(f, s, 0) /\ At(f, s, i) # At(h, t, 0) /\ At(f, s, i) # last
      BY <1>1, <3>2, PlacesDiffer
    <3>4. /\ At(f, s, i + 1) # At(f, s, m + 1) /\ At(f, s, i + 1) # At(f, s, 0 + 1)
          /\ At(f, s, i + 1) # At(h, t, 0 + 1)
      BY <1>1, <3>2, PlacesDiffer
    <3>5. At(f, s, i) \in Cell /\ At(f, s, i + 1) \in Cell
      BY <1>1, <2>3, AtFacts
    <3>6. l.next[At(f, s, i)] = At(f, s, i + 1) /\ l.prev[At(f, s, i + 1)] = At(f, s, i)
      BY <3>2, ChainAt
    <3>7. At(f, s, i) \notin {f, h, last} /\ At(f, s, i + 1) \notin {f, first, at}
      BY <2>1, <3>3, <3>4
    <3> HIDE DEF r, first, last, at
    <3> QED
      BY <1>7, <3>1, <3>5, <3>6, <3>7
  <2>4. CASE i = m
    <3>1. At(h, u, i) = last /\ At(h, u, i + 1) = at
      BY <1>2, <1>4, <2>4
    <3> HIDE DEF r, first, last, at
    <3> QED
      BY <1>6, <1>7, <3>1
  <2>5. CASE i > m
    <3> DEFINE j == i - m
    <3>1. /\ j \in 1 .. Len(t) /\ i = m + j /\ i + 1 = m + (j + 1)
          /\ j + 1 \in 1 .. Len(t) + 1 /\ j \in 1 .. Len(t) + 1 /\ j \in Nat
      <4> HIDE DEF u, m, t
      <4> QED
        BY <1>2, <1>3, <2>5
    <3>0. At(h, u, i) = At(h, t, j) /\ At(h, u, i + 1) = At(h, t, j + 1)
      BY <1>4, <3>1
    <3> HIDE DEF j
    <3>2. j \in 0 .. Len(L[h]) /\ j # 0 /\ m \in 0 .. Len(L[f])
          /\ 0 \in 0 .. Len(L[f]) /\ 0 \in 0 .. Len(L[h])
      BY <1>2, <3>1
    <3>3. At(h, t, j) # At(f, s, 0) /\ At(h, t, j) # At(h, t, 0) /\ At(h, t, j) # last
      BY <1>1, <3>2, PlacesDiffer
    <3>4. /\ At(h, t, j + 1) # At(f, s, m + 1) /\ At(h, t, j + 1) # At(f, s, 0 + 1)
          /\ At(h, t, j + 1) # At(h, t, 0 + 1)
      BY <1>1, <3>2, PlacesDiffer
    <3>5. At(h, t, j) \in Cell /\ At(h, t, j + 1) \in Cell
      BY <1>1, <3>1, AtFacts
    <3>6. l.next[At(h, t, j)] = At(h, t, j + 1) /\ l.prev[At(h, t, j + 1)] = At(h, t, j)
      BY <3>2, ChainAt
    <3>7. At(h, t, j) \notin {f, h, last} /\ At(h, t, j + 1) \notin {f, first, at}
      BY <2>1, <3>3, <3>4
    <3> HIDE DEF r, first, last, at
    <3> QED
      BY <1>7, <3>0, <3>5, <3>6, <3>7
  <2> QED
    BY <1>2, <2>2, <2>3, <2>4, <2>5
<1> HIDE DEF r, M
<1>12. Rep(r, M)
  BY <1>5, <1>7, <1>8, <1>9, <1>10, <1>11 DEF Rep
<1> QED
  BY <1>12 DEF r, M

-----------------------------------------------------------------------------
(* The lists as sequences *)

\* The two parts of a sequence.
LEMMA Parts ==
    ASSUME NEW s \in Seq(Entry), NEW k \in 0 .. Len(s)
    PROVE  /\ SubSeq(s, 1, k) \in Seq(Entry) /\ Len(SubSeq(s, 1, k)) = k
           /\ \A i \in 1 .. k : SubSeq(s, 1, k)[i] = s[i]
           /\ SubSeq(s, k + 1, Len(s)) \in Seq(Entry)
           /\ Len(SubSeq(s, k + 1, Len(s))) = Len(s) - k
           /\ \A i \in 1 .. Len(s) - k : SubSeq(s, k + 1, Len(s))[i] = s[k + i]
<1> DEFINE a == SubSeq(s, 1, k)
           b == SubSeq(s, k + 1, Len(s))
<1>1. Len(s) \in Nat
  OBVIOUS
<1>2. /\ a \in Seq(Entry) /\ Len(a) = k /\ \A i \in 1 .. k : a[i] = s[i]
  <2>1. \A i \in 1 .. k : s[i] \in Entry
    BY <1>1
  <2> QED
    BY <1>1, <2>1, SubSeqProperties
<1>3. /\ b \in Seq(Entry) /\ Len(b) = Len(s) - k
      /\ \A i \in 1 .. Len(s) - k : b[i] = s[k + i]
  <2>1. \A i \in k + 1 .. Len(s) : s[i] \in Entry
    BY <1>1
  <2>2. /\ b \in Seq(Entry)
        /\ Len(b) = IF k + 1 <= Len(s) THEN Len(s) - (k + 1) + 1 ELSE 0
        /\ \A i \in 1 .. Len(s) - (k + 1) + 1 : b[i] = s[(k + 1) + i - 1]
    BY <1>1, <2>1, SubSeqProperties
  <2>3. Len(b) = Len(s) - k /\ Len(s) - (k + 1) + 1 = Len(s) - k
    BY <1>1, <2>2
  <2>4. \A i \in 1 .. Len(s) - k : (k + 1) + i - 1 = k + i
    BY <1>1
  <2> QED
    BY <2>2, <2>3, <2>4
<1> QED
  BY <1>2, <1>3

LEMMA InsertedSeqs ==
    ASSUME NEW s \in Seq(Entry), NEW e \in Entry
    PROVE  /\ <<e>> \o s \in Seq(Entry) /\ Inserted(s, <<e>> \o s, 0, e)
           /\ Append(s, e) \in Seq(Entry) /\ Inserted(s, Append(s, e), Len(s), e)
           /\ \A k \in 0 .. Len(s) : /\ InsertAt(s, k + 1, e) \in Seq(Entry)
                                     /\ Inserted(s, InsertAt(s, k + 1, e), k, e)
<1>1. Len(s) \in Nat /\ <<e>> \in Seq(Entry) /\ Len(<<e>>) = 1 /\ <<e>>[1] = e
  OBVIOUS
<1>2. <<e>> \o s \in Seq(Entry) /\ Inserted(s, <<e>> \o s, 0, e)
  <2> DEFINE t == <<e>> \o s
  <2>1. /\ t \in Seq(Entry) /\ Len(t) = 1 + Len(s) /\ t[1] = e
        /\ \A i \in 1 .. Len(s) : t[1 + i] = s[i]
    BY <1>1, ConcatFacts
  <2> HIDE DEF t
  <2>2. ASSUME NEW i \in 1 .. Len(t)
        PROVE  t[i] = IF i <= 0 THEN s[i] ELSE IF i = 0 + 1 THEN e ELSE s[i - 1]
    <3>1. CASE i = 1
      BY <2>1, <3>1
    <3>2. CASE i # 1
      <4>1. i - 1 \in 1 .. Len(s) /\ 1 + (i - 1) = i
        BY <1>1, <2>1, <3>2
      <4>2. t[i] = s[i - 1]
        BY <2>1, <4>1
      <4> QED
        BY <3>2, <4>2
    <3> QED
      BY <3>1, <3>2
  <2>3. Len(t) = Len(s) + 1
    BY <1>1, <2>1
  <2>4. Inserted(s, t, 0, e)
    BY <2>2, <2>3 DEF Inserted
  <2> QED
    BY <2>1, <2>4 DEF t
<1>3. Append(s, e) \in Seq(Entry) /\ Inserted(s, Append(s, e), Len(s), e)
  <2>1. /\ Append(s, e) \in Seq(Entry) /\ Len(Append(s, e)) = Len(s) + 1
        /\ \A i \in 1 .. Len(s) : Append(s, e)[i] = s[i]
        /\ Append(s, e)[Len(s) + 1] = e
    BY AppendProperties
  <2> QED
    BY <1>1, <2>1 DEF Inserted
<1>4. ASSUME NEW k \in 0 .. Len(s)
      PROVE  InsertAt(s, k + 1, e) \in Seq(Entry) /\ Inserted(s, InsertAt(s, k + 1, e), k, e)
  <2> DEFINE a == SubSeq(s, 1, k)
             b == SubSeq(s, k + 1, Len(s))
             t == (a \o <<e>>) \o b
  <2>0. InsertAt(s, k + 1, e) = t
    <3>1. (k + 1) - 1 = k
      BY <1>1
    <3> QED
      BY <3>1 DEF InsertAt
  <2>1. /\ a \in Seq(Entry) /\ Len(a) = k /\ \A i \in 1 .. k : a[i] = s[i]
    BY Parts
  <2>2. /\ b \in Seq(Entry) /\ Len(b) = Len(s) - k
        /\ \A i \in 1 .. Len(s) - k : b[i] = s[k + i]
    BY Parts
  <2> HIDE DEF a, b
  <2>3. /\ a \o <<e>> \in Seq(Entry) /\ Len(a \o <<e>>) = k + 1
        /\ \A i \in 1 .. k : (a \o <<e>>)[i] = s[i]
        /\ (a \o <<e>>)[k + 1] = e
    <3>1. /\ a \o <<e>> \in Seq(Entry) /\ Len(a \o <<e>>) = Len(a) + Len(<<e>>)
          /\ \A i \in 1 .. Len(a) : (a \o <<e>>)[i] = a[i]
          /\ \A i \in 1 .. Len(<<e>>) : (a \o <<e>>)[Len(a) + i] = <<e>>[i]
      BY <1>1, <2>1, ConcatFacts
    <3> QED
      BY <1>1, <2>1, <3>1
  <2>4. /\ t \in Seq(Entry) /\ Len(t) = (k + 1) + (Len(s) - k)
        /\ \A i \in 1 .. k + 1 : t[i] = (a \o <<e>>)[i]
        /\ \A i \in 1 .. Len(s) - k : t[(k + 1) + i] = b[i]
    <3> DEFINE c == a \o <<e>>
    <3> HIDE DEF c
    <3>1. c \in Seq(Entry) /\ Len(c) = k + 1
      BY <2>3 DEF c
    <3>2. /\ c \o b \in Seq(Entry) /\ Len(c \o b) = Len(c) + Len(b)
          /\ \A i \in 1 .. Len(c) : (c \o b)[i] = c[i]
          /\ \A i \in 1 .. Len(b) : (c \o b)[Len(c) + i] = b[i]
      BY <2>2, <3>1, ConcatFacts
    <3> QED
      BY <2>2, <3>1, <3>2 DEF c
  <2> HIDE DEF t
  <2>5. Len(t) = Len(s) + 1
    BY <1>1, <2>4
  <2>6. ASSUME NEW i \in 1 .. Len(t)
        PROVE  t[i] = IF i <= k THEN s[i] ELSE IF i = k + 1 THEN e ELSE s[i - 1]
    <3>1. CASE i <= k + 1
      BY <1>1, <2>3, <2>4, <2>5, <3>1
    <3>2. CASE i > k + 1
      <4>1. /\ i - (k + 1) \in 1 .. Len(s) - k /\ (k + 1) + (i - (k + 1)) = i
            /\ k + (i - (k + 1)) = i - 1 /\ ~(i <= k) /\ i # k + 1
        BY <1>1, <2>5, <3>2
      <4>2. t[i] = s[i - 1]
        BY <2>2, <2>4, <4>1
      <4> QED
        BY <4>1, <4>2
    <3> QED
      BY <1>1, <3>1, <3>2
  <2>7. Inserted(s, t, k, e)
    BY <2>5, <2>6 DEF Inserted
  <2> QED
    BY <2>0, <2>4, <2>7
<1> QED
  BY <1>2, <1>3, <1>4

LEMMA RemovedSeq ==
    ASSUME NEW s \in Seq(Entry), NEW k \in 1 .. Len(s)
    PROVE  RemoveAt(s, k) \in Seq(Entry) /\ Removed(s, RemoveAt(s, k), k)
<1> DEFINE a == SubSeq(s, 1, k - 1)
           b == SubSeq(s, k + 1, Len(s))
           t == a \o b
<1>1. /\ Len(s) \in Nat /\ k - 1 \in 0 .. Len(s) /\ k \in 0 .. Len(s)
  OBVIOUS
<1>3. RemoveAt(s, k) = t
  BY DEF RemoveAt
<1>4. /\ a \in Seq(Entry) /\ Len(a) = k - 1 /\ \A i \in 1 .. k - 1 : a[i] = s[i]
  BY <1>1, Parts
<1>5. /\ b \in Seq(Entry) /\ Len(b) = Len(s) - k
      /\ \A i \in 1 .. Len(s) - k : b[i] = s[k + i]
  BY <1>1, Parts
<1> HIDE DEF a, b
<1>6. /\ t \in Seq(Entry) /\ Len(t) = (k - 1) + (Len(s) - k)
      /\ \A i \in 1 .. k - 1 : t[i] = a[i]
      /\ \A i \in 1 .. Len(s) - k : t[(k - 1) + i] = b[i]
  <2>1. /\ a \o b \in Seq(Entry) /\ Len(a \o b) = Len(a) + Len(b)
        /\ \A i \in 1 .. Len(a) : (a \o b)[i] = a[i]
        /\ \A i \in 1 .. Len(b) : (a \o b)[Len(a) + i] = b[i]
    BY <1>4, <1>5, ConcatFacts
  <2> QED
    BY <1>4, <1>5, <2>1
<1> HIDE DEF t
<1>7. Len(t) = Len(s) - 1
  BY <1>1, <1>6
<1>8. ASSUME NEW i \in 1 .. Len(t)
      PROVE  t[i] = IF i < k THEN s[i] ELSE s[i + 1]
  <2>1. CASE i < k
    BY <1>1, <1>4, <1>6, <1>7, <2>1
  <2>2. CASE i >= k
    <3>1. /\ i - (k - 1) \in 1 .. Len(s) - k /\ (k - 1) + (i - (k - 1)) = i
          /\ k + (i - (k - 1)) = i + 1 /\ ~(i < k)
      <4>1. k \in Nat /\ i \in Nat /\ Len(s) \in Nat /\ i <= Len(s) - 1
        BY <1>1, <1>7
      <4> QED
        BY <4>1, <2>2
    <3>2. t[i] = b[i - (k - 1)]
      BY <1>6, <3>1
    <3>3. b[i - (k - 1)] = s[k + (i - (k - 1))]
      BY <1>5, <3>1
    <3> QED
      BY <3>1, <3>2, <3>3
  <2> QED
    BY <1>1, <2>1, <2>2
<1> QED
  BY <1>3, <1>6, <1>7, <1>8 DEF Removed

LEMMA WithoutSeq ==
    ASSUME NEW s \in Seq(Entry), NEW k \in 1 .. Len(s),
           \A j \in 1 .. Len(s) : s[j] = s[k] => j = k
    PROVE  Without(s, s[k]) \in Seq(Entry) /\ Removed(s, Without(s, s[k]), k)
<1>1. DOMAIN s = 1 .. Len(s)
  OBVIOUS
<1>2. (CHOOSE j \in DOMAIN s : s[j] = s[k]) = k
  BY <1>1
<1>3. Without(s, s[k]) = RemoveAt(s, k)
  BY <1>2 DEF Without
<1> QED
  BY <1>3, RemovedSeq

-----------------------------------------------------------------------------
(* list_add_sort *)

LEMMA NatSetInduction ==
    ASSUME NEW T, 0 \in T, \A n \in Nat : n \in T => n + 1 \in T
    PROVE  Nat \subseteq T
<1> DEFINE B == Nat \ T
           R == {x \in Nat \X Nat : x[1] < x[2]}
<1> SUFFICES ASSUME B # {} PROVE FALSE
  OBVIOUS
<1>1. IsWellFoundedOn(R, Nat)
  BY NatLessThanWellFounded DEF OpToRel
<1> HIDE DEF R
<1>2. PICK n \in B : \A m \in B : ~(<<m, n>> \in R)
  BY <1>1, WFMin
<1>3. n # 0 /\ n \in Nat
  OBVIOUS
<1>4. n - 1 \in Nat /\ (n - 1) + 1 = n /\ n - 1 < n
  BY <1>3
<1>5. n - 1 \in B
  BY <1>4
<1>6. <<n - 1, n>> \in R
  BY <1>3, <1>4 DEF R
<1> QED
  BY <1>2, <1>5, <1>6

LEMMA MinFacts ==
    ASSUME NEW I, I \subseteq Nat, I # {}
    PROVE  Min(I) \in I /\ \A i \in I : Min(I) <= i
<1> DEFINE R == {x \in Nat \X Nat : x[1] < x[2]}
<1>1. IsWellFoundedOn(R, Nat)
  BY NatLessThanWellFounded DEF OpToRel
<1>2. PICK n \in I : \A m \in I : ~(<<m, n>> \in R)
  <2> HIDE DEF R
  <2> QED
    BY <1>1, WFMin
<1>3. \A m \in I : ~(m < n)
  BY <1>2
<1>4. \A m \in I : n <= m
  BY <1>3
<1> QED
  BY <1>4 DEF Min

\* In a sorted list, the entries with a lower key are the first ones.
LEMMA LowerIsPrefix ==
    ASSUME NEW e \in Entry, NEW h \in Head_, lists[h] \in Seq(Entry), Sorted(h)
    PROVE  /\ Cardinality(Lower(e, h)) \in 0 .. Len(lists[h])
           /\ Lower(e, h) = 1 .. Cardinality(Lower(e, h))
<1> DEFINE s == lists[h]
           I == {i \in 1 .. Len(s) + 1 : i = Len(s) + 1 \/ ~(Key[s[i]] < Key[e])}
           m == Min(I) - 1
<1>1. Len(s) \in Nat /\ \A i \in 1 .. Len(s) : Key[s[i]] \in Nat
  BY ListAssumption
<1>2. Key[e] \in Nat
  BY ListAssumption
<1>3. Min(I) \in I /\ \A i \in I : Min(I) <= i
  <2>1. I \subseteq Nat /\ Len(s) + 1 \in I
    BY <1>1
  <2> HIDE DEF I
  <2> QED
    BY <2>1, MinFacts
<1>4. m \in 0 .. Len(s) /\ Min(I) = m + 1
  <2> DEFINE x == Min(I)
  <2>1. x \in 1 .. Len(s) + 1
    BY <1>3
  <2> HIDE DEF x
  <2> QED
    BY <1>1, <2>1 DEF x
<1>5. Lower(e, h) = 1 .. m
  <2> HIDE DEF m
  <2>1. ASSUME NEW i \in 1 .. m
        PROVE  i \in Lower(e, h)
    <3>1. i \in 1 .. Len(s) /\ ~(m + 1 <= i) /\ i # Len(s) + 1 /\ i \in 1 .. Len(s) + 1
      BY <1>1, <1>4
    <3>2. i \notin I
      <4> HIDE DEF I
      <4> QED
        BY <1>3, <1>4, <3>1
    <3> QED
      BY <3>1, <3>2 DEF Lower
  <2>2. ASSUME NEW i \in Lower(e, h)
        PROVE  i \in 1 .. m
    <3>1. i \in 1 .. Len(s) /\ Key[s[i]] < Key[e]
      BY DEF Lower
    <3>2. m + 1 \in I
      BY <1>3, <1>4
    <3>3. m + 1 = Len(s) + 1 \/ (m + 1 \in 1 .. Len(s) /\ ~(Key[s[m + 1]] < Key[e]))
      BY <1>1, <1>4, <3>2
    <3>4. CASE m + 1 = Len(s) + 1
      BY <1>1, <1>4, <3>1, <3>4
    <3>5. CASE m + 1 \in 1 .. Len(s) /\ ~(Key[s[m + 1]] < Key[e])
      <4>1. ~(m + 1 <= i)
        <5> SUFFICES ASSUME m + 1 <= i PROVE FALSE
          OBVIOUS
        <5>1. Key[s[m + 1]] <= Key[s[i]]
          <6>1. CASE m + 1 = i
            BY <1>1, <3>1, <6>1
          <6>2. CASE m + 1 < i
            BY <3>1, <3>5, <6>2 DEF Sorted
          <6> QED
            BY <1>1, <1>4, <3>1, <6>1, <6>2
        <5> QED
          BY <1>1, <1>2, <3>1, <3>5, <5>1
      <4> QED
        BY <1>1, <1>4, <3>1, <4>1
    <3> QED
      BY <3>3, <3>4, <3>5
  <2> QED
    BY <2>1, <2>2
<1>6. Cardinality(1 .. m) = m
  <2> HIDE DEF m
  <2>1. m \in Nat
    BY <1>1, <1>4
  <2>2. Cardinality(1 .. m) = IF 1 > m THEN 0 ELSE m - 1 + 1
    BY <2>1, FS_Interval
  <2> QED
    BY <2>1, <2>2
<1> HIDE DEF m
<1> QED
  BY <1>4, <1>5, <1>6

\* The loop of list_add_sort ends behind the entries with a lower key.
LEMMA InsertPosFacts ==
    ASSUME NEW e \in Entry, NEW h \in Head_, Rep(link, lists), NEW m \in 0 .. Len(lists[h]),
           Lower(e, h) = 1 .. m
    PROVE  InsertPos(link, e, h) = At(h, lists[h], m + 1)
<1> DEFINE s == lists[h]
           N == Len(s)
           Is(f) == f = [k \in 0 .. N |->
                          IF k = 0 THEN link.next[h]
                          ELSE IF f[k - 1] # h /\ Key[f[k - 1]] < Key[e]
                                 THEN link.next[f[k - 1]]
                                 ELSE f[k - 1]]
           W == [k \in 0 .. N |-> At(h, s, (IF k <= m THEN k ELSE m) + 1)]
           V == CHOOSE f : Is(f)
<1>1. /\ lists \in [Head_ -> Seq(Entry)] /\ N \in Nat /\ m \in Nat
      /\ \A i \in 1 .. N : At(h, s, i) = s[i] /\ s[i] \in Entry
      /\ At(h, s, 0) = h /\ At(h, s, N + 1) = h /\ h \notin Entry
  BY AtFacts DEF Rep
<1>2. \A i \in 0 .. N : link.next[At(h, s, i)] = At(h, s, i + 1)
  BY ChainAt
<1>3. \A i \in 1 .. N : Key[s[i]] < Key[e] <=> i <= m
  BY <1>1 DEF Lower
<1>4. ASSUME NEW k \in 1 .. N
      PROVE  W[k] = IF W[k - 1] # h /\ Key[W[k - 1]] < Key[e]
                      THEN link.next[W[k - 1]] ELSE W[k - 1]
  <2>0. k \in 0 .. N /\ k - 1 \in 0 .. N
    BY <1>1
  <2>1. CASE k <= m
    <3>1. W[k - 1] = At(h, s, k) /\ W[k] = At(h, s, k + 1)
      <4>1. k - 1 <= m /\ (k - 1) + 1 = k
        BY <1>1, <2>1
      <4> QED
        BY <2>0, <2>1, <4>1
    <3>2. At(h, s, k) # h /\ Key[At(h, s, k)] < Key[e]
      BY <1>1, <1>3, <2>1
    <3> HIDE DEF W
    <3> QED
      BY <1>2, <2>0, <3>1, <3>2
  <2>2. CASE ~(k <= m)
    <3>1. W[k - 1] = At(h, s, m + 1) /\ W[k] = At(h, s, m + 1)
      <4>1. (k - 1 <= m => k - 1 = m)
        BY <1>1, <2>2
      <4> QED
        BY <2>0, <2>2, <4>1
    <3>2. ~(At(h, s, m + 1) # h /\ Key[At(h, s, m + 1)] < Key[e])
      <4>1. CASE m = N
        BY <1>1, <4>1
      <4>2. CASE m + 1 \in 1 .. N
        <5>1. ~(m + 1 <= m)
          BY <1>1
        <5> QED
          BY <1>1, <1>3, <4>2, <5>1
      <4> QED
        BY <1>1, <4>1, <4>2
    <3> HIDE DEF W
    <3> QED
      BY <3>1, <3>2
  <2> QED
    BY <2>1, <2>2
<1>5. W[0] = link.next[h]
  <2>1. 0 \in 0 .. N /\ 0 <= m /\ 0 + 1 = 1
    BY <1>1
  <2>2. W[0] = At(h, s, 0 + 1)
    BY <2>1
  <2> HIDE DEF W
  <2> QED
    BY <1>1, <1>2, <2>1, <2>2
<1>6. Is(W)
  <2>1. W = [k \in 0 .. N |-> W[k]]
    OBVIOUS
  <2> HIDE DEF W, N
  <2>2. \A k \in 0 .. N : k = 0 \/ k \in 1 .. N
    BY <1>1
  <2>3. W = [k \in 0 .. N |->
               IF k = 0 THEN link.next[h]
               ELSE IF W[k - 1] # h /\ Key[W[k - 1]] < Key[e]
                      THEN link.next[W[k - 1]] ELSE W[k - 1]]
    BY <1>4, <1>5, <2>1, <2>2
  <2> QED
    BY <2>3
<1>7. Is(V)
  <2> HIDE DEF Is
  <2> QED
    BY <1>6
<1>8. InsertPos(link, e, h) = V[N]
  BY DEF InsertPos
<1> HIDE DEF V, W, N
<1>9. /\ V[0] = W[0]
      /\ \A k \in 1 .. N : V[k] = IF V[k - 1] # h /\ Key[V[k - 1]] < Key[e]
                                   THEN link.next[V[k - 1]] ELSE V[k - 1]
  <2>1. 0 \in 0 .. N /\ \A k \in 1 .. N : k \in 0 .. N /\ k # 0
    BY <1>1
  <2> QED
    BY <1>5, <1>7, <2>1
<1> HIDE DEF Is
<1> DEFINE T == {k \in Nat : k <= N => V[k] = W[k]}
<1>10. 0 \in T
  BY <1>9
<1>11. ASSUME NEW k \in Nat, k \in T
       PROVE  k + 1 \in T
  <2> SUFFICES ASSUME k + 1 <= N PROVE V[k + 1] = W[k + 1]
    OBVIOUS
  <2>1. k + 1 \in 1 .. N /\ (k + 1) - 1 = k /\ k <= N
    BY <1>1
  <2>2. V[k] = W[k]
    BY <1>11, <2>1
  <2>3. V[k + 1] = IF V[k] # h /\ Key[V[k]] < Key[e] THEN link.next[V[k]] ELSE V[k]
    BY <1>9, <2>1
  <2>4. W[k + 1] = IF W[k] # h /\ Key[W[k]] < Key[e] THEN link.next[W[k]] ELSE W[k]
    BY <1>4, <2>1
  <2> QED
    BY <2>2, <2>3, <2>4
<1>12. Nat \subseteq T
  <2> HIDE DEF T
  <2> QED
    BY <1>10, <1>11, NatSetInduction
<1>13. V[N] = W[N]
  BY <1>1, <1>12
<1>14. W[N] = At(h, s, m + 1)
  <2>1. N <= m => N = m
    BY <1>1 DEF N
  <2>2. N \in 0 .. N
    BY <1>1
  <2> QED
    BY <2>1, <2>2 DEF W
<1> QED
  BY <1>8, <1>13, <1>14

-----------------------------------------------------------------------------
(* The calls *)

LEMMA AddRep ==
    ASSUME NEW l, NEW L, Rep(l, L), NEW h \in Head_, NEW e \in Entry, Outside(e, L)
    PROVE  /\ Rep(list_add(l, e, h), [L EXCEPT ![h] = <<e>> \o @])
           /\ Rep(list_add_tail(l, e, h), [L EXCEPT ![h] = Append(@, e)])
<1>1. L[h] \in Seq(Entry) /\ Len(L[h]) \in Nat
  BY DEF Rep
<1>2. 0 \in 0 .. Len(L[h]) /\ Len(L[h]) \in 0 .. Len(L[h])
  BY <1>1
<1>3. At(h, L[h], 0) = h /\ At(h, L[h], Len(L[h]) + 1) = h
  BY AtFacts DEF Rep
<1>4. l.next[h] = At(h, L[h], 0 + 1) /\ l.prev[h] = At(h, L[h], Len(L[h]))
  BY <1>2, <1>3, ChainAt
<1>5. Rep(list_add(l, e, h), [L EXCEPT ![h] = <<e>> \o L[h]])
  <2>1. <<e>> \o L[h] \in Seq(Entry) /\ Inserted(L[h], <<e>> \o L[h], 0, e)
    BY <1>1, InsertedSeqs
  <2>2. Rep(ListAddBetween(l, e, At(h, L[h], 0), At(h, L[h], 0 + 1)),
            [L EXCEPT ![h] = <<e>> \o L[h]])
    BY <1>2, <2>1, InsertRep
  <2> QED
    BY <1>3, <1>4, <2>2 DEF list_add
<1>6. Rep(list_add_tail(l, e, h), [L EXCEPT ![h] = Append(L[h], e)])
  <2>1. Append(L[h], e) \in Seq(Entry) /\ Inserted(L[h], Append(L[h], e), Len(L[h]), e)
    BY <1>1, InsertedSeqs
  <2>2. Rep(ListAddBetween(l, e, At(h, L[h], Len(L[h])), At(h, L[h], Len(L[h]) + 1)),
            [L EXCEPT ![h] = Append(L[h], e)])
    BY <1>2, <2>1, InsertRep
  <2> QED
    BY <1>3, <1>4, <2>2 DEF list_add_tail
<1> QED
  BY <1>5, <1>6

LEMMA DelRep ==
    ASSUME NEW l, NEW L, Rep(l, L), NEW h \in Head_, NEW k \in 1 .. Len(L[h])
    PROVE  LET e == L[h][k]
               M == [L EXCEPT ![h] = Without(@, L[h][k])] IN
           /\ Rep(ListDelBetween(l, l.prev[e], l.next[e]), M)
           /\ Rep(list_del(l, e), M)
           /\ Rep(list_del_init(l, e), M)
           /\ e \in Entry /\ Outside(e, M)
           /\ Without(L[h], e) \in Seq(Entry) /\ Removed(L[h], Without(L[h], e), k)
<1> DEFINE e == L[h][k]
           t == Without(L[h], L[h][k])
           M == [L EXCEPT ![h] = t]
           d == ListDelBetween(l, l.prev[e], l.next[e])
<1>1. L \in [Head_ -> Seq(Entry)] /\ L[h] \in Seq(Entry) /\ Distinct(L)
  BY DEF Rep
<1>2. e \in Entry /\ e \in Cell
  BY <1>1 DEF Cell
<1>3. t \in Seq(Entry) /\ Removed(L[h], t, k)
  <2>1. \A j \in 1 .. Len(L[h]) : L[h][j] = L[h][k] => j = k
    BY <1>1 DEF Distinct
  <2> QED
    BY <1>1, <2>1, WithoutSeq
<1> HIDE DEF t
<1>4. Rep(d, M) /\ Outside(e, M)
  BY <1>3, RemoveRep
<1>5. d \in Links
  BY <1>4 DEF Rep
<1> HIDE DEF d, M, e
<1>6. Rep(list_del(l, e), M)
  <2> DEFINE r == [d EXCEPT !.next[e] = POISON, !.prev[e] = POISON]
  <2>1. r \in Links /\ \A c \in Cell \ {e} : r.next[c] = d.next[c] /\ r.prev[c] = d.prev[c]
    BY <1>2, <1>5 DEF Links, Pointer
  <2> HIDE DEF r
  <2>2. Rep(r, M)
    BY <1>2, <1>4, <2>1, RepElsewhere
  <2> QED
    BY <2>2 DEF list_del, r, d
<1>7. Rep(list_del_init(l, e), M)
  <2> DEFINE r == INIT_LIST_HEAD(d, e)
  <2>1. r \in Links /\ \A c \in Cell \ {e} : r.next[c] = d.next[c] /\ r.prev[c] = d.prev[c]
    BY <1>2, <1>5 DEF Links, Pointer, INIT_LIST_HEAD
  <2> HIDE DEF r
  <2>2. Rep(r, M)
    BY <1>2, <1>4, <2>1, RepElsewhere
  <2> QED
    BY <2>2 DEF list_del_init, r, d
<1> QED
  BY <1>2, <1>3, <1>4, <1>6, <1>7 DEF d, M, e, t

\* What list_replace stores: the new entry takes the place of the old one.
LEMMA ReplaceFacts ==
    ASSUME NEW l \in Links, NEW old \in Cell, NEW new \in Cell, old # new,
           NEW p \in Cell, NEW n \in Cell, p = l.prev[old], n = l.next[old],
           {p, n} \cap {old, new} = {}
    PROVE  LET r == list_replace(l, old, new) IN
           /\ r \in Links
           /\ \A c \in Cell : r.next[c] = IF c = p THEN new
                                          ELSE IF c = new THEN n ELSE l.next[c]
           /\ \A c \in Cell : r.prev[c] = IF c = n THEN new
                                          ELSE IF c = new THEN p ELSE l.prev[c]
BY DEF list_replace, Links, Pointer

LEMMA ReplaceRep ==
    ASSUME NEW l, NEW L, Rep(l, L), NEW h \in Head_, NEW k \in 1 .. Len(L[h]),
           NEW new \in Entry, Outside(new, L)
    PROVE  LET M == [L EXCEPT ![h] = [i \in 1 .. Len(@) |->
                                        IF @[i] = L[h][k] THEN new ELSE @[i]]] IN
           /\ Rep(list_replace(l, L[h][k], new), M)
           /\ Rep(list_replace_init(l, L[h][k], new), M)
<1> DEFINE old == L[h][k]
           s == L[h]
           t == Without(s, old)
           u == [i \in 1 .. Len(s) |-> IF s[i] = old THEN new ELSE s[i]]
           K == [L EXCEPT ![h] = t]
           M == [L EXCEPT ![h] = u]
           d == ListDelBetween(l, l.prev[old], l.next[old])
           p == At(h, s, k - 1)
           n == At(h, s, k + 1)
           a == ListAddBetween(d, new, p, n)
           r == list_replace(l, old, new)
<1>1. /\ L \in [Head_ -> Seq(Entry)] /\ s \in Seq(Entry) /\ Distinct(L) /\ l \in Links
      /\ Len(s) \in Nat /\ k \in 1 .. Len(s) /\ old \in Entry /\ old \in Cell /\ new \in Cell
      /\ old # new
  BY DEF Rep, Cell, Outside
<1>2. /\ Rep(d, K) /\ Outside(old, K) /\ t \in Seq(Entry) /\ Removed(s, t, k)
  BY DelRep
<1>3. Outside(new, K) /\ K[h] = t /\ d \in Links
  <2>1. K[h] = t /\ \A g \in Head_ \ {h} : K[g] = L[g]
    BY <1>1
  <2>2. \A i \in 1 .. Len(t) : t[i] # new
    <3> SUFFICES ASSUME NEW i \in 1 .. Len(t) PROVE t[i] # new
      OBVIOUS
    <3> HIDE DEF t
    <3>1. Len(t) = Len(s) - 1 /\ t[i] = IF i < k THEN s[i] ELSE s[i + 1]
      BY <1>2 DEF Removed
    <3>2. (i < k => i \in 1 .. Len(s)) /\ i + 1 \in 1 .. Len(s)
      BY <1>1, <3>1
    <3>3. \A j \in 1 .. Len(s) : s[j] # new
      BY DEF Outside
    <3> QED
      BY <3>1, <3>2, <3>3
  <2> HIDE DEF K, t
  <2> QED
    BY <1>2, <2>1, <2>2 DEF Outside, Rep
<1>4. u \in Seq(Entry) /\ Inserted(t, u, k - 1, new) /\ k - 1 \in 0 .. Len(t)
  <2>1. \A i \in 1 .. Len(s) : s[i] \in Entry /\ (s[i] = old <=> i = k)
    BY <1>1 DEF Distinct
  <2>2. u \in Seq(Entry) /\ Len(u) = Len(s)
    BY <1>1, <2>1
  <2>3. \A i \in 1 .. Len(s) : u[i] = IF i = k THEN new ELSE s[i]
    BY <2>1
  <2> HIDE DEF u, t
  <2>4. Len(t) = Len(s) - 1 /\ \A i \in 1 .. Len(t) : t[i] = IF i < k THEN s[i] ELSE s[i + 1]
    BY <1>2 DEF Removed
  <2>5. ASSUME NEW i \in 1 .. Len(u)
        PROVE  u[i] = IF i <= k - 1 THEN t[i] ELSE IF i = (k - 1) + 1 THEN new ELSE t[i - 1]
    <3>1. CASE i < k
      BY <1>1, <2>2, <2>3, <2>4, <3>1
    <3>2. CASE i = k
      BY <1>1, <2>2, <2>3, <3>2
    <3>3. CASE i > k
      <4>1. i - 1 \in 1 .. Len(t) /\ ~(i - 1 < k) /\ (i - 1) + 1 = i /\ i \in 1 .. Len(s)
        BY <1>1, <2>2, <2>4, <3>3
      <4>2. t[i - 1] = s[i]
        BY <2>4, <4>1
      <4>3. u[i] = s[i]
        BY <1>1, <2>3, <3>3, <4>1
      <4> QED
        BY <1>1, <3>3, <4>2, <4>3
    <3> QED
      BY <1>1, <2>2, <3>1, <3>2, <3>3
  <2>6. Len(u) = Len(t) + 1 /\ k - 1 \in 0 .. Len(t)
    BY <1>1, <2>2, <2>4
  <2> QED
    BY <2>2, <2>5, <2>6 DEF Inserted
<1>5. At(h, t, k - 1) = p /\ At(h, t, (k - 1) + 1) = n
  <2>1. /\ \A i \in 0 .. k - 1 : At(h, t, i) = At(h, s, i)
        /\ \A i \in k .. Len(s) : At(h, t, i) = At(h, s, i + 1)
    <3> HIDE DEF t, s
    <3> QED
      BY <1>1, <1>2, RemovedAt
  <2>2. k - 1 \in 0 .. k - 1 /\ (k - 1) + 1 = k /\ k \in k .. Len(s)
    BY <1>1
  <2> HIDE DEF t, s
  <2> QED
    BY <2>1, <2>2 DEF p, n
<1>6. Rep(a, M)
  <2>1. Rep(a, [K EXCEPT ![h] = u])
    <3> HIDE DEF K, d, t, u
    <3> QED
      BY <1>2, <1>3, <1>4, <1>5, InsertRep
  <2>2. [K EXCEPT ![h] = u] = M
    BY <1>1
  <2> QED
    BY <2>1, <2>2
<1>7. /\ p = l.prev[old] /\ n = l.next[old] /\ p \in Cell /\ n \in Cell
      /\ {p, n} \cap {old, new} = {}
  <2>1. old = At(h, s, k) /\ k \in 0 .. Len(s) /\ k \in 1 .. Len(s) + 1 /\ k - 1 \in Nat
        /\ k + 1 \in Nat /\ k - 1 \in 0 .. Len(s) /\ k # k - 1 /\ (k - 1) + 1 = k
    BY <1>1 DEF At
  <2>2. p = l.prev[old] /\ n = l.next[old]
    BY <2>1, ChainAt
  <2>3. p \in Cell /\ n \in Cell
    BY <1>1, <2>1, AtFacts
  <2>4. p # new /\ n # new
    BY <1>1, <2>1, OutsideFacts
  <2>5. p # old /\ n # old
    <3>1. At(h, s, k - 1) # At(h, s, k)
      BY <1>1, <2>1, PlacesDiffer
    <3>2. At(h, s, k + 1) # At(h, s, (k - 1) + 1)
      <4>1. \A i \in 0 .. Len(s), j \in 0 .. Len(s) :
               At(h, s, i + 1) = At(h, s, j + 1) => i = j
        BY <1>1, PlacesDiffer
      <4> QED
        BY <2>1, <4>1, Zenon
    <3> QED
      BY <2>1, <3>1, <3>2
  <2> QED
    BY <2>2, <2>3, <2>4, <2>5
<1>8. /\ r \in Links
      /\ \A c \in Cell \ {old} : r.next[c] = a.next[c] /\ r.prev[c] = a.prev[c]
  <2>0. l \in Links /\ p \in Cell /\ n \in Cell /\ new \in Cell
    BY <1>1, <1>7
  <2> HIDE DEF p, n, old
  <2>1. /\ r \in Links
        /\ \A c \in Cell : r.next[c] = IF c = p THEN new
                                       ELSE IF c = new THEN n ELSE l.next[c]
        /\ \A c \in Cell : r.prev[c] = IF c = n THEN new
                                       ELSE IF c = new THEN p ELSE l.prev[c]
    BY <1>1, <1>7, ReplaceFacts
  <2>2. /\ \A c \in Cell : d.next[c] = IF c = p THEN n ELSE l.next[c]
        /\ \A c \in Cell : d.prev[c] = IF c = n THEN p ELSE l.prev[c]
    <3>1. d = ListDelBetween(l, p, n)
      BY <1>7
    <3> DEFINE x == ListDelBetween(l, p, n)
    <3>2. /\ x \in Links
          /\ \A c \in Cell : x.next[c] = IF c = p THEN n ELSE l.next[c]
          /\ \A c \in Cell : x.prev[c] = IF c = n THEN p ELSE l.prev[c]
      <4> HIDE DEF d, a, r, K, M, t, u, s
      <4> QED
        BY <2>0 DEF ListDelBetween, Links, Pointer
    <3> HIDE DEF d, x
    <3>3. d = x
      BY <3>1 DEF x
    <3> QED
      BY <3>2, <3>3
  <2> HIDE DEF r, d
  <2>4. new # p /\ new # n
    BY <1>7
  <2>3. /\ \A c \in Cell : a.next[c] = IF c = p THEN new
                                       ELSE IF c = new THEN n ELSE d.next[c]
        /\ \A c \in Cell : a.prev[c] = IF c = n THEN new
                                       ELSE IF c = new THEN p ELSE d.prev[c]
    BY <1>3, <2>0, <2>4, AddBetweenFacts
  <2> HIDE DEF a
  <2> QED
    BY <2>1, <2>2, <2>3
<1>9. Outside(old, M)
  <2>1. Outside(old, K) /\ M[h] = u /\ \A g \in Head_ \ {h} : M[g] = K[g]
    BY <1>1, <1>2
  <2>2. \A i \in 1 .. Len(u) : u[i] # old
    BY <1>1
  <2> HIDE DEF M, K, u, old
  <2> QED
    BY <2>1, <2>2 DEF Outside
<1>10. Rep(r, M)
  <2> HIDE DEF r, a, M, old
  <2> QED
    BY <1>1, <1>6, <1>8, <1>9, RepElsewhere
<1>11. Rep(INIT_LIST_HEAD(r, old), M)
  <2> HIDE DEF r, M, old
  <2> DEFINE i == INIT_LIST_HEAD(r, old)
  <2>1. i \in Links /\ \A c \in Cell \ {old} : i.next[c] = r.next[c] /\ i.prev[c] = r.prev[c]
    BY <1>1, <1>8 DEF Links, Pointer, INIT_LIST_HEAD
  <2> HIDE DEF i
  <2>2. Rep(i, M)
    BY <1>1, <1>9, <1>10, <2>1, RepElsewhere
  <2> QED
    BY <2>2 DEF i
<1> QED
  BY <1>10, <1>11 DEF list_replace_init

\* A loop has the entries from its position on before it, in the list as well
\* as in what it set out to visit; b entries of the list are behind it.
LoopAt(b) ==
    LET s == lists[loop.head]
        left == Len(loop.todo) - Len(loop.seen)
    IN  /\ left \in Nat
        /\ Len(s) = b + left
        /\ loop.seen = SubSeq(loop.todo, 1, Len(loop.seen))
        /\ \A i \in 1 .. left : s[b + i] = loop.todo[Len(loop.seen) + i]
        /\ loop.pos = At(loop.head, s, b + 1)
        /\ left > 0 => loop.n = At(loop.head, s, b + 2)

Loops == [head : Head_, pos : Pointer, n : Pointer, todo : Seq(Entry), seen : Seq(Entry)]

LoopInv == loop # NoLoop => loop \in Loops /\ \E b \in Nat : LoopAt(b)

ListInv == Rep(link, lists) /\ LoopInv

LEMMA ListInvInit == ListInit => ListInv
<1> SUFFICES ASSUME ListInit PROVE ListInv
  OBVIOUS
<1>1. link \in Links
  BY DEF ListInit, Links, Pointer, Cell
<1>2. /\ lists \in [Head_ -> Seq(Entry)]
      /\ \A h \in Head_ : lists[h] = <<>> /\ Len(lists[h]) = 0
  BY EmptySeq DEF ListInit
<1>3. Distinct(lists)
  BY <1>2 DEF Distinct
<1>4. ASSUME NEW h \in Head_
      PROVE  Chain(link, h, lists[h])
  <2>1. \A i \in 0 .. 1 : At(h, lists[h], i) = h
    BY <1>2 DEF At
  <2>2. link.next[h] = h /\ link.prev[h] = h
    BY DEF ListInit, Cell
  <2> QED
    BY <1>2, <2>1, <2>2 DEF Chain
<1>5. Rep(link, lists)
  BY <1>1, <1>2, <1>3, <1>4 DEF Rep
<1> QED
  BY <1>5 DEF ListInit, ListInv, LoopInv

LEMMA RepStep ==
    ASSUME Rep(link, lists), LoopInv, ListNext
    PROVE  Rep(link', lists')
<1>0. lists \in [Head_ -> Seq(Entry)] /\ Distinct(lists) /\ link \in Links
  BY DEF Rep
<1>a. \A e \in Free : e \in Entry /\ Outside(e, lists)
  BY DEF Free, Members, Outside
<1>b. \A h \in Head_ : \A e \in Members(h) : \E k \in 1 .. Len(lists[h]) : e = lists[h][k]
  BY DEF Members
<1>1. ASSUME NEW e \in Entry, NEW h \in Head_, Add(e, h) \/ AddTail(e, h)
      PROVE  Rep(link', lists')
  <2>1. Outside(e, lists)
    BY <1>1, <1>a DEF Add, AddTail
  <2>2. /\ Rep(list_add(link, e, h), [lists EXCEPT ![h] = <<e>> \o @])
        /\ Rep(list_add_tail(link, e, h), [lists EXCEPT ![h] = Append(@, e)])
    BY <2>1, AddRep
  <2> QED
    BY <1>1, <2>2 DEF Add, AddTail
<1>2. ASSUME NEW e \in Entry, NEW h \in Head_, AddSort(e, h)
      PROVE  Rep(link', lists')
  <2> DEFINE m == Cardinality(Lower(e, h))
             s == lists[h]
             pos == At(h, s, m + 1)
  <2>1. Sorted(h) /\ s \in Seq(Entry) /\ Outside(e, lists)
    BY <1>0, <1>2, <1>a DEF AddSort
  <2>2. m \in 0 .. Len(s) /\ Lower(e, h) = 1 .. m /\ Len(s) \in Nat
    BY <2>1, LowerIsPrefix
  <2> HIDE DEF m
  <2>3. InsertPos(link, e, h) = pos
    BY <2>2, InsertPosFacts
  <2>4. link.prev[pos] = At(h, s, m)
    BY <2>2, ChainAt
  <2>5. link' = ListAddBetween(link, e, At(h, s, m), pos)
    BY <1>2, <2>3, <2>4 DEF AddSort, list_add_sort, list_add_tail
  <2>6. InsertAt(s, m + 1, e) \in Seq(Entry) /\ Inserted(s, InsertAt(s, m + 1, e), m, e)
    BY <2>1, <2>2, InsertedSeqs
  <2>7. lists' = [lists EXCEPT ![h] = InsertAt(s, m + 1, e)]
    BY <1>2 DEF AddSort, m
  <2>8. Rep(ListAddBetween(link, e, At(h, s, m), pos),
            [lists EXCEPT ![h] = InsertAt(s, m + 1, e)])
    BY <2>1, <2>2, <2>6, InsertRep
  <2> QED
    BY <2>5, <2>7, <2>8
<1>3. ASSUME NEW e \in Entry, NEW h \in Head_, Del(e, h)
      PROVE  Rep(link', lists')
  <2>1. PICK k \in 1 .. Len(lists[h]) : e = lists[h][k]
    BY <1>3, <1>b DEF Del
  <2>2. /\ Rep(list_del(link, e), [lists EXCEPT ![h] = Without(@, e)])
        /\ Rep(list_del_init(link, e), [lists EXCEPT ![h] = Without(@, e)])
    BY <2>1, DelRep
  <2> QED
    BY <1>3, <2>2 DEF Del
<1>4. ASSUME NEW e \in Entry, NEW new \in Entry, NEW h \in Head_, Replace(e, new, h)
      PROVE  Rep(link', lists')
  <2>1. PICK k \in 1 .. Len(lists[h]) : e = lists[h][k]
    BY <1>4, <1>b DEF Replace
  <2>2. Outside(new, lists)
    BY <1>4, <1>a DEF Replace
  <2> DEFINE M == [lists EXCEPT ![h] = [i \in 1 .. Len(@) |->
                                           IF @[i] = e THEN new ELSE @[i]]]
  <2>3. Rep(list_replace(link, e, new), M) /\ Rep(list_replace_init(link, e, new), M)
    BY <2>1, <2>2, ReplaceRep
  <2>4. lists' = M
    BY <1>4 DEF Replace
  <2> HIDE DEF M
  <2> QED
    BY <1>4, <2>3, <2>4 DEF Replace
<1>5. ASSUME NEW e \in Entry, NEW from \in Head_, NEW h \in Head_, Move(e, from, h)
      PROVE  Rep(link', lists')
  <2>1. PICK k \in 1 .. Len(lists[from]) : e = lists[from][k]
    BY <1>5, <1>b DEF Move
  <2> DEFINE gone == [lists EXCEPT ![from] = Without(@, e)]
             d == ListDelBetween(link, link.prev[e], link.next[e])
  <2>2. Rep(d, gone) /\ Outside(e, gone)
    BY <2>1, DelRep
  <2>3. \/ link' = list_add(d, e, h) /\ lists' = [gone EXCEPT ![h] = <<e>> \o @]
        \/ link' = list_add_tail(d, e, h) /\ lists' = [gone EXCEPT ![h] = Append(@, e)]
    BY <1>5 DEF Move, list_move, list_move_tail
  <2> HIDE DEF gone, d
  <2>4. /\ Rep(list_add(d, e, h), [gone EXCEPT ![h] = <<e>> \o @])
        /\ Rep(list_add_tail(d, e, h), [gone EXCEPT ![h] = Append(@, e)])
    BY <2>2, AddRep
  <2> QED
    BY <2>3, <2>4
<1>6. ASSUME NEW f \in Head_, NEW h \in Head_, Splice(f, h)
      PROVE  Rep(link', lists')
  <2>1. /\ f # h /\ link' = list_splice_init(link, f, h)
        /\ lists' = [lists EXCEPT ![f] = <<>>, ![h] = lists[f] \o lists[h]]
    BY <1>0, <1>6 DEF Splice
  <2>2. list_empty(link, f) <=> lists[f] = <<>>
    <3>1. /\ lists[f] \in Seq(Entry) /\ Len(lists[f]) \in Nat /\ At(f, lists[f], 0) = f
          /\ f \notin Entry
      BY <1>0, AtFacts
    <3>2. 0 \in 0 .. Len(lists[f])
      BY <3>1
    <3>3. link.next[f] = At(f, lists[f], 0 + 1)
      BY <3>1, <3>2, ChainAt
    <3>4. CASE lists[f] = <<>>
      BY <3>3, <3>4, EmptySeq DEF list_empty, At
    <3>5. CASE lists[f] # <<>>
      <4>1. 1 \in 1 .. Len(lists[f])
        BY <3>1, <3>5, EmptySeq
      <4>2. At(f, lists[f], 1) \in Entry
        BY <3>1, <4>1 DEF At
      <4> QED
        BY <3>1, <3>3, <3>5, <4>2 DEF list_empty
    <3> QED
      BY <3>4, <3>5
  <2>3. CASE lists[f] = <<>>
    <3>1. link' = link
      BY <2>1, <2>2, <2>3 DEF list_splice_init
    <3>2. <<>> \o lists[h] = lists[h]
      BY <1>0, ConcatEmptySeq
    <3>3. lists' = lists
      BY <1>0, <2>1, <2>3, <3>2
    <3> QED
      BY <3>1, <3>3
  <2>4. CASE lists[f] # <<>>
    <3>1. link' = INIT_LIST_HEAD(ListSpliceNonempty(link, f, h), f)
      BY <2>1, <2>2, <2>4 DEF list_splice_init
    <3>2. Rep(INIT_LIST_HEAD(ListSpliceNonempty(link, f, h), f),
              [lists EXCEPT ![f] = <<>>, ![h] = lists[f] \o lists[h]])
      BY <2>1, <2>4, SpliceRep
    <3> QED
      BY <2>1, <3>1, <3>2
  <2> QED
    BY <2>3, <2>4
<1>7. ASSUME NEW del \in BOOLEAN, LoopStep(del)
      PROVE  Rep(link', lists')
  <2>1. CASE ~del
    BY <1>7, <2>1 DEF LoopStep
  <2>2. CASE del
    <3> DEFINE h == loop.head
    <3>1. /\ link' = list_del(link, loop.pos)
          /\ lists' = [lists EXCEPT ![h] = Without(@, loop.pos)]
          /\ loop # NoLoop /\ loop.pos # h
      BY <1>7, <2>2 DEF LoopStep
    <3>2. PICK b \in Nat : LoopAt(b)
      BY <3>1 DEF LoopInv
    <3>3. h \in Head_ /\ loop.pos = At(h, lists[h], b + 1)
      BY <3>1, <3>2 DEF LoopInv, Loops, LoopAt
    <3>4. b + 1 \in 1 .. Len(lists[h]) /\ loop.pos = lists[h][b + 1]
      BY <3>1, <3>3 DEF At
    <3>5. Rep(list_del(link, lists[h][b + 1]),
              [lists EXCEPT ![h] = Without(@, lists[h][b + 1])])
      <4> HIDE DEF h
      <4> QED
        BY <3>3, <3>4, DelRep
    <3> QED
      BY <3>1, <3>4, <3>5
  <2> QED
    BY <2>1, <2>2
<1> QED
  BY <1>1, <1>2, <1>3, <1>4, <1>5, <1>6, <1>7 DEF ListNext, LoopBegin, LoopEnd

LEMMA LoopInvStep ==
    ASSUME Rep(link, lists), Rep(link', lists'), LoopInv, ListNext
    PROVE  LoopInv'
<1>0. lists \in [Head_ -> Seq(Entry)] /\ link \in Links
  BY DEF Rep
<1>1. CASE loop = NoLoop /\ UNCHANGED loop
  BY <1>1 DEF LoopInv, NoLoop
<1>2. CASE LoopEnd
  BY <1>2 DEF LoopEnd, LoopInv, NoLoop
<1>3. ASSUME NEW h \in Head_, LoopBegin(h)
      PROVE  LoopInv'
  <2> DEFINE s == lists[h]
  <2>1. /\ loop' = [head |-> h, pos |-> link.next[h], n |-> link.next[link.next[h]],
                    todo |-> s, seen |-> <<>>]
        /\ lists' = lists /\ link' = link
    BY <1>3 DEF LoopBegin
  <2>2. /\ s \in Seq(Entry) /\ Len(s) \in Nat /\ At(h, s, 0) = h
        /\ \A i \in Nat : At(h, s, i) \in Cell
    BY <1>0, AtFacts
  <2>3. 0 \in 0 .. Len(s) /\ (Len(s) > 0 => 1 \in 0 .. Len(s)) /\ 0 + 1 = 1 /\ 1 + 1 = 2
    BY <2>2
  <2>4. \A i \in 0 .. Len(s) : link.next[At(h, s, i)] = At(h, s, i + 1)
    BY ChainAt
  <2>5. link.next[h] = At(h, s, 1)
    BY <2>2, <2>3, <2>4
  <2>6. Len(s) > 0 => link.next[link.next[h]] = At(h, s, 2)
    BY <2>3, <2>4, <2>5
  <2>7. link.next[h] \in Cell /\ link.next[link.next[h]] \in Pointer
    BY <1>0, <2>2, <2>5 DEF Links
  <2>8. <<>> \in Seq(Entry) /\ Len(<<>>) = 0 /\ SubSeq(s, 1, 0) = <<>>
    BY EmptySeq, SubSeqEmpty
  <2> HIDE DEF s
  <2>9. loop' \in Loops
    BY <2>1, <2>2, <2>7, <2>8 DEF Loops, Pointer
  <2>10. loop'.head = h /\ loop'.todo = s /\ loop'.seen = <<>> /\ lists'[h] = s
         /\ loop'.pos = link.next[h] /\ loop'.n = link.next[link.next[h]]
    BY <2>1 DEF s
  <2>11. LoopAt(0)'
    <3>1. Len(s) - 0 = Len(s) /\ 0 + Len(s) = Len(s) /\ 0 + 1 = 1 /\ 0 + 2 = 2
          /\ \A i \in 1 .. Len(s) : 0 + i = i
      BY <2>2
    <3> QED
      BY <2>2, <2>5, <2>6, <2>8, <2>10, <3>1 DEF LoopAt
  <2> QED
    BY <2>9, <2>11 DEF LoopInv
<1>4. ASSUME NEW del \in BOOLEAN, LoopStep(del)
      PROVE  LoopInv'
  <2> DEFINE h == loop.head
             s == lists[h]
             t == loop.todo
             j == Len(loop.seen)
             left == Len(t) - j
  <2>1. loop # NoLoop /\ loop \in Loops /\ loop.pos # h
    BY <1>4 DEF LoopStep, LoopInv
  <2>2. PICK b \in Nat : LoopAt(b)
    BY <2>1 DEF LoopInv
  <2>3. h \in Head_ /\ t \in Seq(Entry) /\ loop.seen \in Seq(Entry) /\ loop.n \in Pointer
        /\ j \in Nat /\ Len(t) \in Nat /\ s \in Seq(Entry) /\ Len(s) \in Nat
    BY <1>0, <2>1 DEF Loops
  <2>4. /\ left \in Nat /\ Len(s) = b + left
        /\ loop.seen = SubSeq(t, 1, j)
        /\ \A i \in 1 .. left : s[b + i] = t[j + i]
        /\ loop.pos = At(h, s, b + 1)
        /\ left > 0 => loop.n = At(h, s, b + 2)
    BY <2>2 DEF LoopAt
  <2> HIDE DEF left, j, t, s, h
  <2>5. left > 0 /\ b + 1 \in 1 .. Len(s) /\ loop.pos = s[b + 1] /\ loop.pos = t[j + 1]
        /\ loop.pos \in Entry
    <3>1. b + 1 \in 1 .. Len(s) /\ loop.pos = s[b + 1]
      BY <2>1, <2>4 DEF At
    <3>2. left > 0 /\ 1 \in 1 .. left
      BY <2>3, <2>4, <3>1
    <3> QED
      BY <2>3, <2>4, <3>1, <3>2
  <2>6. loop.n = At(h, s, b + 2) /\ loop.n \in Cell
    <3>1. loop.n = At(h, s, b + 2) /\ b + 2 \in Nat
      BY <2>4, <2>5
    <3> QED
      BY <1>0, <2>3, <3>1, AtFacts DEF s
  <2>7. /\ loop' = [loop EXCEPT !.pos = loop.n, !.n = link'.next[loop.n],
                                !.seen = Append(@, loop.pos)]
    BY <1>4 DEF LoopStep, AdvanceSafe
  <2> DEFINE seen == Append(loop.seen, loop.pos)
  <2>8. /\ seen \in Seq(Entry) /\ Len(seen) = j + 1 /\ seen = SubSeq(t, 1, j + 1)
    <3>1. seen \in Seq(Entry) /\ Len(seen) = j + 1
      BY <2>3, <2>5, AppendProperties DEF j
    <3>2. j + 1 \in 1 .. Len(t)
      BY <2>3, <2>4, <2>5 DEF left
    <3>3. seen = SubSeq(t, 1, j + 1)
      <4>1. /\ SubSeq(t, 1, j + 1) \in Seq(Entry) /\ Len(SubSeq(t, 1, j + 1)) = j + 1
            /\ \A i \in 1 .. j + 1 : SubSeq(t, 1, j + 1)[i] = t[i]
        BY <2>3, <3>2, Parts
      <4>2. \A i \in 1 .. j : SubSeq(t, 1, j)[i] = t[i]
        BY <2>3, <3>2, Parts
      <4>3. \A i \in 1 .. j : seen[i] = loop.seen[i]
        BY <2>3, AppendProperties DEF j
      <4>4. seen[j + 1] = loop.pos
        BY <2>3, <2>5, AppendProperties DEF j
      <4> HIDE DEF seen
      <4>5. \A i \in 1 .. j + 1 : seen[i] = SubSeq(t, 1, j + 1)[i]
        BY <2>3, <2>4, <2>5, <4>1, <4>2, <4>3, <4>4
      <4> QED
        BY <3>1, <4>1, <4>5, SeqEqual
    <3> QED
      BY <3>1, <3>3
  <2> HIDE DEF seen
  <2>9. /\ loop'.head = h /\ loop'.todo = t /\ loop'.seen = seen
        /\ loop'.pos = loop.n /\ loop'.n = link'.next[loop.n]
    BY <2>1, <2>7 DEF Loops, h, t, seen
  <2>10. loop' \in Loops
    <3>1. link'.next[loop.n] \in Pointer
      BY <2>6 DEF Rep, Links
    <3>2. loop.n \in Pointer /\ h \in Head_ /\ t \in Seq(Entry) /\ seen \in Seq(Entry)
      BY <2>3, <2>8
    <3>3. loop' = [head |-> h, pos |-> loop.n, n |-> link'.next[loop.n],
                   todo |-> t, seen |-> seen]
      BY <2>1, <2>7 DEF Loops, h, t, seen
    <3> QED
      BY <3>1, <3>2, <3>3 DEF Loops
  <2> DEFINE s1 == lists'[h]
  <2>s. s1 \in Seq(Entry) /\ Len(s1) \in Nat
    BY <2>3 DEF Rep
  \* the list and the place after the step
  <2>11. PICK c \in Nat :
            /\ Len(s1) = c + (left - 1)
            /\ \A i \in 1 .. left - 1 : s1[c + i] = t[(j + 1) + i]
            /\ loop.n = At(h, s1, c + 1)
    <3>1. CASE ~del
      <4>1. s1 = s
        BY <1>4, <3>1 DEF LoopStep, s, h
      <4>2. /\ Len(s) = (b + 1) + (left - 1) /\ (b + 1) + 1 = b + 2
        BY <2>3, <2>4
      <4>3. ASSUME NEW i \in 1 .. left - 1
            PROVE  s[(b + 1) + i] = t[(j + 1) + i]
        <5>1. i + 1 \in 1 .. left /\ b + (i + 1) = (b + 1) + i /\ j + (i + 1) = (j + 1) + i
          BY <2>3, <2>4
        <5> QED
          BY <2>4, <5>1
      <4>4. b + 1 \in Nat
        OBVIOUS
      <4> HIDE DEF s1
      <4> WITNESS b + 1 \in Nat
      <4> QED
        BY <2>6, <4>1, <4>2, <4>3
    <3>2. CASE del
      <4>1. s1 = Without(s, loop.pos)
        BY <1>0, <1>4, <2>3, <3>2 DEF LoopStep, s, h
      <4>2. Removed(s, s1, b + 1)
        <5>1. Removed(s, Without(s, s[b + 1]), b + 1)
          BY <2>3, <2>5, DelRep DEF s
        <5> QED
          BY <2>5, <4>1, <5>1
      <4> HIDE DEF s1
      <4>3. /\ Len(s1) = Len(s) - 1
            /\ \A i \in 1 .. Len(s1) : s1[i] = IF i < b + 1 THEN s[i] ELSE s[i + 1]
        BY <4>2 DEF Removed
      <4>4. Len(s1) = b + (left - 1)
        BY <2>3, <2>4, <4>3
      <4>5. ASSUME NEW i \in 1 .. left - 1
            PROVE  s1[b + i] = t[(j + 1) + i]
        <5>1. /\ i + 1 \in 1 .. left /\ (b + i) + 1 = b + (i + 1) /\ j + (i + 1) = (j + 1) + i
              /\ b + i \in 1 .. Len(s1) /\ ~(b + i < b + 1)
          BY <2>3, <2>4, <4>4
        <5>2. s1[b + i] = s[b + (i + 1)]
          BY <4>3, <5>1
        <5> QED
          BY <2>4, <5>1, <5>2
      <4>6. loop.n = At(h, s1, b + 1)
        <5>1. b + 1 \in b + 1 .. Len(s) /\ (b + 1) + 1 = b + 2
          BY <2>3, <2>5
        <5>2. \A i \in b + 1 .. Len(s) : At(h, s1, i) = At(h, s, i + 1)
          BY <2>3, <2>5, <2>s, <4>2, RemovedAt DEF s1
        <5> QED
          BY <2>6, <5>1, <5>2
      <4> WITNESS b \in Nat
      <4> QED
        BY <4>4, <4>5, <4>6
    <3> QED
      BY <3>1, <3>2
  <2>12. left - 1 > 0 => link'.next[loop.n] = At(h, s1, c + 2)
    <3> SUFFICES ASSUME left - 1 > 0 PROVE link'.next[loop.n] = At(h, s1, c + 2)
      OBVIOUS
    <3>1. c + 1 \in 0 .. Len(s1) /\ (c + 1) + 1 = c + 2
      BY <2>s, <2>4, <2>11
    <3>2. \A i \in 0 .. Len(s1) : link'.next[At(h, s1, i)] = At(h, s1, i + 1)
      BY <2>3, ChainAt
    <3> QED
      BY <2>11, <3>1, <3>2
  <2>13. Len(t) - Len(seen) = left - 1 /\ left - 1 \in Nat
    BY <2>3, <2>4, <2>5, <2>8 DEF left
  <2>14. LoopAt(c)'
    <3> HIDE DEF s1
    <3>1. lists'[loop'.head] = s1
      BY <2>9 DEF s1
    <3> QED
      BY <2>8, <2>9, <2>11, <2>12, <2>13, <3>1 DEF LoopAt
  <2> QED
    BY <2>10, <2>14 DEF LoopInv
<1> QED
  BY <1>1, <1>2, <1>3, <1>4
  DEF ListNext, Idle, Add, AddTail, AddSort, Del, Replace, Move, Splice

-----------------------------------------------------------------------------
(* The theorems *)

LEMMA ListInvStep == ListInv /\ [ListNext]_listVars => ListInv'
<1> SUFFICES ASSUME ListInv, [ListNext]_listVars
             PROVE  ListInv'
  OBVIOUS
<1>1. CASE ListNext
  BY <1>1, RepStep, LoopInvStep DEF ListInv
<1>2. CASE UNCHANGED listVars
  BY <1>2 DEF listVars, ListInv, LoopInv, LoopAt
<1> QED
  BY <1>1, <1>2

LEMMA Turn ==
    ASSUME NEW n \in Nat
    PROVE  (n + 1) % (n + 1) = 0 /\ \A k \in 1 .. n : k % (n + 1) = k
OBVIOUS

LEMMA ListInvImplies == ListInv => Represents /\ LoopVisitsAll
<1> SUFFICES ASSUME ListInv PROVE Represents /\ LoopVisitsAll
  OBVIOUS
<1>0. /\ lists \in [Head_ -> Seq(Entry)] /\ link \in Links /\ Distinct(lists)
      /\ Rep(link, lists) /\ LoopInv
  BY DEF ListInv, Rep
<1>1. ListTypeOK
  <2>1. loop.pos \in Pointer /\ loop.n \in Pointer
    <3>1. CASE loop = NoLoop
      BY <3>1 DEF NoLoop, Pointer
    <3>2. CASE loop # NoLoop
      BY <1>0, <3>2 DEF LoopInv, Loops
    <3> QED
      BY <3>1, <3>2
  <2> QED
    BY <1>0, <2>1 DEF ListTypeOK, Links
<1>2. ASSUME NEW h \in Head_
      PROVE  LET r == Ring(h) IN
             /\ \A k \in 1 .. Len(r) :
                   LET follower == r[(k % Len(r)) + 1] IN
                   /\ link.next[r[k]] = follower
                   /\ link.prev[follower] = r[k]
                   /\ list_is_last(link, r[k], h) <=> k = Len(r)
             /\ list_empty(link, h) <=> lists[h] = <<>>
             /\ list_is_singular(link, h) <=> Len(lists[h]) = 1
  <2> DEFINE s == lists[h]
             n == Len(s)
             r == Ring(h)
  <2>1. /\ s \in Seq(Entry) /\ n \in Nat /\ h \notin Entry
        /\ \A i \in 1 .. n : At(h, s, i) \in Entry
        /\ At(h, s, 0) = h /\ At(h, s, n + 1) = h
    <3>1. s \in Seq(Entry) /\ n \in Nat /\ h \notin Entry
      BY <1>0, AtFacts
    <3> QED
      BY <3>1 DEF At
  <2>2. /\ \A i \in 0 .. n : link.next[At(h, s, i)] = At(h, s, i + 1)
        /\ \A i \in 0 .. n : link.prev[At(h, s, i + 1)] = At(h, s, i)
    BY <1>0, ChainAt
  <2>3. Len(r) = n + 1 /\ \A k \in 1 .. n + 1 : r[k] = At(h, s, k - 1)
    <3> DEFINE S == Cell
    <3>1. <<h>> \in Seq(S) /\ s \in Seq(S) /\ Len(<<h>>) = 1 /\ <<h>>[1] = h
      <4>1. h \in Cell /\ Entry \subseteq Cell
        BY DEF Cell
      <4>2. s \in Seq(Cell)
        BY <2>1, <4>1, SeqMonotonic
      <4> QED
        BY <4>1, <4>2
    <3>2. /\ Len(<<h>> \o s) = 1 + n
          /\ \A i \in 1 .. 1 + n : (<<h>> \o s)[i] = IF i <= 1 THEN h ELSE s[i - 1]
      <4>1. /\ Len(<<h>> \o s) = Len(<<h>>) + Len(s)
            /\ \A i \in 1 .. Len(<<h>>) + Len(s) :
                  (<<h>> \o s)[i] = IF i <= Len(<<h>>) THEN <<h>>[i] ELSE s[i - Len(<<h>>)]
        BY <3>1, ConcatProperties
      <4>2. \A i \in 1 .. 1 + n : i <= 1 => i = 1
        BY <2>1
      <4> QED
        BY <3>1, <4>1, <4>2
    <3>3. Len(r) = 1 + n /\ \A i \in 1 .. 1 + n : r[i] = IF i <= 1 THEN h ELSE s[i - 1]
      BY <3>2 DEF Ring
    <3> HIDE DEF r
    <3>4. ASSUME NEW k \in 1 .. n + 1
          PROVE  r[k] = At(h, s, k - 1)
      <4>1. CASE k = 1
        BY <2>1, <3>3, <4>1
      <4>2. CASE k # 1
        <5>1. k - 1 \in 1 .. n /\ ~(k <= 1) /\ k \in 1 .. 1 + n
          BY <2>1, <4>2
        <5>2. At(h, s, k - 1) = s[k - 1]
          BY <5>1 DEF At
        <5> QED
          BY <3>3, <5>1, <5>2
      <4> QED
        BY <4>1, <4>2
    <3> QED
      BY <2>1, <3>3, <3>4
  <2> HIDE DEF r
  <2>4. ASSUME NEW k \in 1 .. Len(r)
        PROVE  /\ link.next[r[k]] = r[(k % Len(r)) + 1]
               /\ link.prev[r[(k % Len(r)) + 1]] = r[k]
               /\ list_is_last(link, r[k], h) <=> k = Len(r)
    <3>1. k - 1 \in 0 .. n /\ (k - 1) + 1 = k /\ r[k] = At(h, s, k - 1)
      BY <2>1, <2>3
    <3>2. link.next[r[k]] = At(h, s, k) /\ link.prev[At(h, s, k)] = r[k]
      BY <2>2, <3>1
    <3>3. r[(k % Len(r)) + 1] = At(h, s, k)
      <4>1. CASE k = n + 1
        <5>1. k % Len(r) = 0
          <6> HIDE DEF n
          <6> QED
            BY <2>1, <2>3, <4>1, Turn
        <5>2. r[0 + 1] = h
          BY <2>1, <2>3
        <5> QED
          BY <2>1, <4>1, <5>1, <5>2
      <4>2. CASE k \in 1 .. n
        <5>1. k % Len(r) = k
          <6> HIDE DEF n
          <6> QED
            BY <2>1, <2>3, <4>2, Turn
        <5>2. k + 1 \in 1 .. n + 1 /\ (k + 1) - 1 = k
          BY <2>1, <4>2
        <5> QED
          BY <2>3, <5>1, <5>2
      <4>3. k = n + 1 \/ k \in 1 .. n
        <5> HIDE DEF n
        <5> QED
          BY <2>1, <2>3
      <4> QED
        BY <4>1, <4>2, <4>3
    <3>4. At(h, s, k) = h <=> k = Len(r)
      <4>1. CASE k = n + 1
        BY <2>1, <2>3, <4>1
      <4>2. CASE k \in 1 .. n
        BY <2>1, <2>3, <4>2
      <4> QED
        BY <2>1, <2>3, <4>1, <4>2
    <3> QED
      BY <3>2, <3>3, <3>4 DEF list_is_last
  <2>5. link.next[h] = At(h, s, 1) /\ link.prev[h] = At(h, s, n)
    <3>1. 0 \in 0 .. n /\ n \in 0 .. n /\ 0 + 1 = 1
      BY <2>1
    <3> QED
      BY <2>1, <2>2, <3>1
  <2>6. list_empty(link, h) <=> n = 0
    <3>1. n # 0 => At(h, s, 1) \in Entry
      BY <2>1
    <3>2. n = 0 => At(h, s, 1) = h
      BY <2>1
    <3> HIDE DEF s, n
    <3> QED
      BY <2>1, <2>5, <3>1, <3>2 DEF list_empty
  <2>7. n = 0 <=> s = <<>>
    BY <2>1, EmptySeq
  <2>8. list_is_singular(link, h) <=> n = 1
    <3>1. n > 0 => (At(h, s, 1) = At(h, s, n) <=> n = 1)
      <4> SUFFICES ASSUME n > 0 PROVE At(h, s, 1) = At(h, s, n) => n = 1
        OBVIOUS
      <4>1. 1 \in 0 .. n /\ n \in 0 .. n
        BY <2>1
      <4> QED
        BY <1>0, <4>1, PlacesDiffer
    <3> HIDE DEF n
    <3> QED
      BY <2>1, <2>5, <2>6, <3>1 DEF list_is_singular
  <2> QED
    BY <2>4, <2>6, <2>7, <2>8 DEF r
<1>3. LoopVisitsAll
  <2> SUFFICES ASSUME loop # NoLoop
               PROVE  /\ loop.pos \in Cell
                      /\ loop.seen = SubSeq(loop.todo, 1, Len(loop.seen))
                      /\ loop.pos = loop.head <=> loop.seen = loop.todo
    BY DEF LoopVisitsAll
  <2> DEFINE h == loop.head
             s == lists[h]
             left == Len(loop.todo) - Len(loop.seen)
  <2>1. loop \in Loops
    BY <1>0 DEF LoopInv
  <2>2. PICK b \in Nat : LoopAt(b)
    BY <1>0 DEF LoopInv
  <2>3. h \in Head_ /\ loop.todo \in Seq(Entry) /\ loop.seen \in Seq(Entry)
        /\ Len(loop.todo) \in Nat /\ Len(loop.seen) \in Nat
    BY <2>1 DEF Loops
  <2>4. /\ left \in Nat /\ Len(s) = b + left
        /\ loop.seen = SubSeq(loop.todo, 1, Len(loop.seen))
        /\ loop.pos = At(h, s, b + 1)
    BY <2>2 DEF LoopAt
  <2>5. /\ Len(s) \in Nat /\ h \notin Entry /\ At(h, s, Len(s) + 1) = h
        /\ \A i \in 1 .. Len(s) : At(h, s, i) = s[i] /\ s[i] \in Entry
        /\ \A i \in Nat : At(h, s, i) \in Cell
    <3> HIDE DEF h
    <3> QED
      BY <1>0, <2>3, AtFacts
  <2>9. left = Len(loop.todo) - Len(loop.seen)
    OBVIOUS
  <2> HIDE DEF h, s, left
  <2>6. loop.pos \in Cell
    <3>1. b + 1 \in Nat
      OBVIOUS
    <3> QED
      BY <2>4, <2>5, <3>1
  <2>7. CASE left = 0
    <3>1. loop.pos = h
      BY <2>4, <2>5, <2>7
    <3>2. Len(loop.seen) = Len(loop.todo)
      BY <2>3, <2>7, <2>9
    <3>3. SubSeq(loop.todo, 1, Len(loop.todo)) = loop.todo
      BY <2>3, SubSeqFull
    <3> QED
      BY <2>4, <2>6, <3>1, <3>2, <3>3 DEF h
  <2>8. CASE left # 0
    <3>1. b + 1 \in 1 .. Len(s)
      BY <2>4, <2>8
    <3>2. loop.pos # h
      BY <2>4, <2>5, <3>1
    <3>3. loop.seen # loop.todo
      BY <2>3, <2>8, <2>9
    <3> QED
      BY <2>4, <2>6, <3>2, <3>3 DEF h
  <2> QED
    BY <2>7, <2>8
<1> QED
  BY <1>1, <1>2, <1>3 DEF Represents

\* For any number of lists and entries and after any sequence of calls, the
\* pointers that list_add, list_add_tail, list_add_sort, list_del, list_replace,
\* list_move and list_splice_init leave behind form exactly the rings that the
\* callers expect.
THEOREM RepresentsHolds == ListSpec => []Represents
BY ListInvInit, ListInvStep, ListInvImplies, PTL DEF ListSpec

\* For lists of any length, list_for_each_entry_safe comes past every entry
\* once and in order, also when its body deletes some or all of them.
THEOREM LoopVisitsAllHolds == ListSpec => []LoopVisitsAll
BY ListInvInit, ListInvStep, ListInvImplies, PTL DEF ListSpec
=============================================================================
