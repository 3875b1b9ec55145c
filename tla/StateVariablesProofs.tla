------------------------ MODULE StateVariablesProofs ------------------------
(***************************************************************************)
(* Proofs about the variables of a state, for all device trees.            *)
(***************************************************************************)
EXTENDS StateVariables, WellFoundedInduction, SequenceTheorems, TLAPS

-----------------------------------------------------------------------------
(* Induction, in a form with sets in the place of predicates *)

LEMMA NatSetInduction ==
    ASSUME NEW T, 0 \in T, \A n \in Nat : n \in T => n + 1 \in T
    PROVE  Nat \subseteq T
<1> DEFINE B == Nat \ T
           R == {x \in Nat \X Nat : x[1] < x[2]}
<1> SUFFICES ASSUME B # {} PROVE FALSE
  OBVIOUS
<1>1. IsWellFoundedOn(R, Nat)
  BY NatLessThanWellFounded DEF OpToRel
<1> HIDE DEF R
<1>2. PICK n \in B : \A m \in B : ~(<<m, n>> \in R)
  BY <1>1, WFMin
<1>3. n # 0 /\ n \in Nat
  OBVIOUS
<1>4. n - 1 \in Nat /\ (n - 1) + 1 = n /\ n - 1 < n
  BY <1>3
<1>5. n - 1 \in B
  BY <1>4
<1>6. <<n - 1, n>> \in R
  BY <1>3, <1>4 DEF R
<1> QED
  BY <1>2, <1>5, <1>6

LEMMA MinFacts ==
    ASSUME NEW I, I \subseteq Nat, I # {}
    PROVE  Min(I) \in I /\ \A i \in I : Min(I) <= i
<1> DEFINE R == {x \in Nat \X Nat : x[1] < x[2]}
<1>1. IsWellFoundedOn(R, Nat)
  BY NatLessThanWellFounded DEF OpToRel
<1>2. PICK n \in I : \A m \in I : ~(<<m, n>> \in R)
  <2> HIDE DEF R
  <2> QED
    BY <1>1, WFMin
<1>3. \A m \in I : ~(m < n)
  BY <1>2
<1>4. \A m \in I : n <= m
  BY <1>3
<1> QED
  BY <1>4 DEF Min

LEMMA ConstantFacts ==
    /\ Base \in Nat /\ Base > 1 /\ Word \in Nat /\ Word > 0 /\ MacLen \in Nat
    /\ WordMod \in Nat /\ WordMod > 0 /\ WordMod % Base = 0
    /\ AddrMod \in Nat \ {0} /\ LenMod \in Nat \ {0}
    /\ NONE # BAD /\ NONE \notin Type
<1>1. /\ Base \in Nat \ {0, 1} /\ Word \in Nat \ {0} /\ MacLen \in Nat
      /\ WordMod \in Nat \ {0} /\ WordMod % Base = 0
      /\ AddrMod \in Nat \ {0} /\ LenMod \in Nat \ {0}
      /\ NONE # BAD /\ NONE \notin Type
  BY VariablesAssumption
<1> QED
  BY <1>1

-----------------------------------------------------------------------------
(* The list that is built from the nodes *)

\* What state_convert_node_variable makes of the nodes.
Created(s) ==
    {Import(NewVar(s.nodes[i]), s.nodes[i]) :
        i \in {j \in 1 .. Len(s.nodes) : ~IsGroup(s.nodes[j])}}

\* r is list with sv in front of what is at place at.
AddedAt(r, list, at, sv) ==
    /\ at \in 1 .. Len(list) + 1 /\ Len(r) = Len(list) + 1
    /\ \A j \in 1 .. Len(list) + 1 :
           r[j] = IF j < at THEN list[j] ELSE IF j = at THEN sv ELSE list[j - 1]

LEMMA InsertAtFacts ==
    ASSUME NEW G, NEW list \in Seq(G), NEW sv \in G, NEW at \in 1 .. Len(list) + 1
    PROVE  InsertAt(list, at, sv) \in Seq(G) /\ AddedAt(InsertAt(list, at, sv), list, at, sv)
<1> DEFINE a == SubSeq(list, 1, at - 1)
           c == SubSeq(list, at, Len(list))
           b == a \o <<sv>>
           r == b \o c
           N == Len(list)
<1>1. N \in Nat /\ at \in Nat /\ at - 1 \in 0 .. N /\ at - 1 \in Int /\ N \in Int
  OBVIOUS
<1>2. /\ \A k \in 1 .. at - 1 : list[k] \in G
      /\ \A k \in at .. N : list[k] \in G
  BY <1>1
<1>3. /\ a \in Seq(G) /\ Len(a) = at - 1 /\ \A i \in 1 .. at - 1 : a[i] = list[i]
  <2>1. /\ a \in Seq(G)
        /\ Len(a) = IF 1 <= at - 1 THEN (at - 1) - 1 + 1 ELSE 0
        /\ \A i \in 1 .. (at - 1) - 1 + 1 : a[i] = list[1 + i - 1]
    BY <1>1, <1>2, SubSeqProperties
  <2> HIDE DEF a
  <2>2. Len(a) = at - 1
    BY <1>1, <2>1
  <2>3. (at - 1) - 1 + 1 = at - 1 /\ \A i \in 1 .. at - 1 : 1 + i - 1 = i
    BY <1>1
  <2> QED
    BY <2>1, <2>2, <2>3
<1>4. /\ c \in Seq(G) /\ Len(c) = N - at + 1 /\ \A i \in 1 .. N - at + 1 : c[i] = list[at + i - 1]
  <2>1. /\ c \in Seq(G)
        /\ Len(c) = IF at <= N THEN N - at + 1 ELSE 0
        /\ \A i \in 1 .. N - at + 1 : c[i] = list[at + i - 1]
    BY <1>1, <1>2, SubSeqProperties
  <2> HIDE DEF c
  <2>2. Len(c) = N - at + 1
    BY <1>1, <2>1
  <2> QED
    BY <2>1, <2>2
<1> HIDE DEF a, c
<1>5. /\ b \in Seq(G) /\ Len(b) = at
      /\ \A i \in 1 .. at : b[i] = IF i < at THEN list[i] ELSE sv
  <2>1. <<sv>> \in Seq(G) /\ Len(<<sv>>) = 1 /\ <<sv>>[1] = sv
    OBVIOUS
  <2> DEFINE o == <<sv>>
  <2> HIDE DEF o
  <2>2. /\ a \o o \in Seq(G) /\ Len(a \o o) = Len(a) + Len(o)
        /\ \A i \in 1 .. Len(a) + Len(o) : (a \o o)[i] =
                     IF i <= Len(a) THEN a[i] ELSE o[i - Len(a)]
    BY <1>3, <2>1, ConcatProperties DEF o
  <2>3. Len(a) + Len(o) = at /\ Len(o) = 1 /\ o[1] = sv
    BY <1>1, <1>3, <2>1 DEF o
  <2>4. ASSUME NEW i \in 1 .. at
        PROVE  (a \o o)[i] = IF i < at THEN list[i] ELSE sv
    <3>1. CASE i < at
      <4>1. i <= Len(a) /\ i \in 1 .. at - 1
        BY <1>1, <1>3, <3>1
      <4> QED
        BY <1>3, <2>2, <2>3, <3>1, <4>1
    <3>2. CASE ~(i < at)
      <4>1. i = at /\ ~(i <= Len(a)) /\ i - Len(a) = 1
        BY <1>1, <1>3, <3>2
      <4> QED
        BY <2>2, <2>3, <3>2, <4>1
    <3> QED
      BY <3>1, <3>2
  <2> QED
    BY <2>2, <2>3, <2>4 DEF o
<1>6. InsertAt(list, at, sv) = r
  BY DEF InsertAt, a, c
<1> HIDE DEF b
<1>7. /\ r \in Seq(G) /\ Len(r) = Len(b) + Len(c)
      /\ \A i \in 1 .. Len(b) + Len(c) : r[i] =
                     IF i <= Len(b) THEN b[i] ELSE c[i - Len(b)]
  BY <1>4, <1>5, ConcatProperties
<1> HIDE DEF r
<1>8. Len(b) + Len(c) = N + 1
  BY <1>1, <1>4, <1>5
<1>9. ASSUME NEW j \in 1 .. N + 1
      PROVE  r[j] = IF j < at THEN list[j] ELSE IF j = at THEN sv ELSE list[j - 1]
  <2>1. CASE j <= at
    <3>1. r[j] = b[j] /\ j \in 1 .. at
      BY <1>1, <1>5, <1>7, <1>8, <2>1
    <3> QED
      BY <1>1, <1>5, <2>1, <3>1
  <2>2. CASE ~(j <= at)
    <3>1. ~(j <= Len(b)) /\ j - at \in 1 .. N - at + 1 /\ at + (j - at) - 1 = j - 1
      BY <1>1, <1>5, <2>2
    <3>2. r[j] = c[j - at]
      BY <1>5, <1>7, <1>8, <3>1
    <3>3. c[j - at] = list[j - 1]
      BY <1>4, <3>1
    <3>4. ~(j < at) /\ j # at
      BY <1>1, <2>2
    <3> QED
      BY <3>2, <3>3, <3>4
  <2> QED
    BY <2>1, <2>2
<1> QED
  BY <1>6, <1>7, <1>8, <1>9 DEF AddedAt

LEMMA AddVarPlace ==
    ASSUME NEW G, NEW list \in Seq(G), NEW sv \in G
    PROVE  \E at \in 1 .. Len(list) + 1 :
              /\ state_add_var(list, sv) \in Seq(G)
              /\ AddedAt(state_add_var(list, sv), list, at, sv)
<1> DEFINE I == {i \in 1 .. Len(list) : ~(list[i].start < sv.start)}
           at == SelectInSeq(list, LAMBDA x : ~(x.start < sv.start))
           i == IF at = 0 THEN Len(list) + 1 ELSE at
<1>1. Len(list) \in Nat
  OBVIOUS
<1>2. at = IF I # {} THEN Min(I) ELSE 0
  BY DEF SelectInSeq
<1>3. I # {} => Min(I) \in I
  <2>1. I \subseteq Nat
    BY <1>1
  <2> HIDE DEF I
  <2> QED
    BY <2>1, MinFacts
<1>4. i \in 1 .. Len(list) + 1
  <2> HIDE DEF at
  <2> QED
    BY <1>1, <1>2, <1>3
<1>5. state_add_var(list, sv) = InsertAt(list, i, sv)
  BY DEF state_add_var
<1> HIDE DEF i
<1> QED
  BY <1>4, <1>5, InsertAtFacts

\* The recursion over the nodes is well defined.
LEMMA AddedExists ==
    ASSUME NEW s, NEW n \in Nat
    PROVE  \E f : f = [k \in 0 .. n |->
                         IF k = 0 THEN <<>> ELSE AddNode(f[k - 1], s.nodes[k])]
<1> DEFINE Built(f, m) == f = [k \in 0 .. m |->
                                 IF k = 0 THEN <<>> ELSE AddNode(f[k - 1], s.nodes[k])]
           T == {m \in Nat : \E f : Built(f, m)}
<1>1. 0 \in T
  <2> DEFINE f == [k \in 0 .. 0 |-> <<>>]
  <2>1. \A k \in 0 .. 0 : k = 0
    OBVIOUS
  <2>2. Built(f, 0)
    BY <2>1
  <2> QED
    BY <2>2
<1>2. ASSUME NEW m \in Nat, m \in T
      PROVE  m + 1 \in T
  <2>1. PICK f : Built(f, m)
    BY <1>2
  <2> DEFINE g == [k \in 0 .. m + 1 |->
                     IF k = m + 1 THEN AddNode(f[m], s.nodes[m + 1]) ELSE f[k]]
  <2>2. ASSUME NEW k \in 0 .. m + 1
        PROVE  g[k] = IF k = 0 THEN <<>> ELSE AddNode(g[k - 1], s.nodes[k])
    <3>1. CASE k = m + 1
      <4>1. g[m] = f[m] /\ k # 0 /\ k - 1 = m
        BY <3>1
      <4>2. g[k] = AddNode(f[m], s.nodes[m + 1])
        BY <3>1
      <4> HIDE DEF g
      <4> QED
        BY <3>1, <4>1, <4>2
    <3>2. CASE k \in 1 .. m
      <4>1. g[k] = f[k] /\ g[k - 1] = f[k - 1] /\ k # 0 /\ k \in 0 .. m
        BY <3>2
      <4>2. f[k] = IF k = 0 THEN <<>> ELSE AddNode(f[k - 1], s.nodes[k])
        BY <2>1, <4>1
      <4> HIDE DEF g
      <4> QED
        BY <4>1, <4>2
    <3>3. CASE k = 0
      <4>1. g[k] = f[k] /\ k \in 0 .. m
        BY <3>3
      <4>2. f[k] = <<>>
        BY <2>1, <3>3, <4>1
      <4> QED
        BY <3>3, <4>1, <4>2
    <3> QED
      BY <3>1, <3>2, <3>3
  <2>3. Built(g, m + 1)
    <3>1. g = [k \in 0 .. m + 1 |-> g[k]]
      OBVIOUS
    <3> HIDE DEF g
    <3> QED
      BY <2>2, <3>1
  <2> HIDE DEF g, Built
  <2> QED
    BY <2>3
<1> HIDE DEF Built
<1>3. Nat \subseteq T
  BY <1>1, <1>2, NatSetInduction
<1> QED
  BY <1>3 DEF Built

VarFields == {"name", "type", "start", "size", "names", "text", "raw", "default"}

\* e is a variable of the node n.
VarOf(e, n) ==
    /\ DOMAIN e = VarFields /\ e.type \in Type
    /\ e.name = n.name /\ e.type = n.type /\ e.names = n.names
    /\ e.start = n.start /\ e.size = n.size /\ e.size = VarSize(n)

\* What is known of the nodes of an accepted state.
LEMMA NodeFacts ==
    ASSUME NEW s \in Schema, Accepted(s), NEW i \in 1 .. Len(s.nodes),
           ~IsGroup(s.nodes[i])
    PROVE  LET n == s.nodes[i]
               v == NewVar(n)
           IN  /\ ~CreateError(n) /\ i \in DOMAIN s.nodes
               /\ n.size = VarSize(n) /\ n.type \in Type /\ ~ImportError(v, n)
               /\ n.start \in Nat /\ n.size \in Nat /\ n.start + n.size < AddrMod
               /\ {n.value, n.default} \ {NONE, BAD} \subseteq Values(n.type)
               /\ n.type = "enum32" => DOMAIN n.names = 1 .. Len(n.names)
                                       /\ Len(n.names) \in 0 .. WordMod
               /\ VarOf(v, n) /\ v.default = ZeroDefault(n.type)
               /\ v.raw = Zeros(MemoryLen(n.type, n.size))
<1> DEFINE n == s.nodes[i]
           v == NewVar(n)
<1>1. IsStateNode(s)
  BY VariablesAssumption
<1>2. i \in DOMAIN s.nodes
  BY <1>1 DEF IsStateNode
<1>3. ~CreateError(n)
  BY <1>2 DEF Accepted
<1>4. n.size = VarSize(n) /\ n.type \in Type /\ ~ImportError(v, n)
      /\ (n.type = "enum32" => n.names # NONE)
  BY <1>3 DEF CreateError, EnumCreateError
<1>5. /\ n.start \in Nat /\ n.size \in Nat /\ n.start + n.size < AddrMod
      /\ n.type \in Type => {n.value, n.default} \ {NONE, BAD} \subseteq Values(n.type)
      /\ n.names # NONE => DOMAIN n.names = 1 .. Len(n.names) /\ Len(n.names) \in 0 .. WordMod
  BY <1>1, <1>2 DEF IsStateNode
<1>6. /\ DOMAIN v = VarFields /\ v.type = n.type /\ v.start = n.start
      /\ v.name = n.name /\ v.names = n.names
      /\ v.size = VarSize(n) /\ v.default = ZeroDefault(n.type)
      /\ v.raw = Zeros(MemoryLen(n.type, VarSize(n)))
  BY DEF NewVar, VarFields
<1> HIDE DEF v, n
<1>7. VarOf(v, n)
  BY <1>4, <1>6 DEF VarOf
<1> QED
  BY <1>2, <1>3, <1>4, <1>5, <1>6, <1>7 DEF v, n

LEMMA CreatedFacts ==
    ASSUME NEW s \in Schema, Accepted(s), NEW e \in Created(s)
    PROVE  /\ DOMAIN e = VarFields /\ e.type \in Type
           /\ e.start \in Nat /\ e.size \in Nat /\ e.start + e.size < AddrMod
           /\ \E i \in 1 .. Len(s.nodes) : ~IsGroup(s.nodes[i]) /\ VarOf(e, s.nodes[i])
<1>1. PICK i \in 1 .. Len(s.nodes) :
          /\ ~IsGroup(s.nodes[i]) /\ e = Import(NewVar(s.nodes[i]), s.nodes[i])
  BY DEF Created
<1> DEFINE n == s.nodes[i]
           v == NewVar(n)
<1>2. /\ n.start \in Nat /\ n.size \in Nat /\ n.start + n.size < AddrMod
      /\ VarOf(v, n)
  BY <1>1, NodeFacts
<1> HIDE DEF v, n
<1>3. e = v \/ e = [v EXCEPT !.default = ImportDefault(v, n),
                             !.raw = Encode(v, ImportValue(v, n))]
  BY <1>1 DEF Import, n, v
<1>4. VarOf(e, n)
  BY <1>2, <1>3 DEF VarOf, VarFields
<1> QED
  BY <1>1, <1>2, <1>4 DEF VarOf, n

\* list has a variable for each of the first m nodes that is not a group, and
\* no two of one name.
ListOf(s, m, list) ==
    /\ list \in Seq(Created(s))
    /\ \A i, j \in 1 .. Len(list) : list[i].name = list[j].name => i = j
    /\ \A i \in 1 .. Len(list) : \E q \in 1 .. m : list[i].name = s.nodes[q].name
    /\ \A q \in 1 .. m : ~IsGroup(s.nodes[q]) =>
           \E i \in 1 .. Len(list) : list[i].name = s.nodes[q].name

LEMMA AddedKeepsNames ==
    ASSUME NEW list, Len(list) \in Nat, NEW r, NEW at, NEW sv, AddedAt(r, list, at, sv),
           \A i, j \in 1 .. Len(list) : list[i].name = list[j].name => i = j,
           \A i \in 1 .. Len(list) : list[i].name # sv.name
    PROVE  \A i, j \in 1 .. Len(r) : r[i].name = r[j].name => i = j
<1> DEFINE N == Len(list)
           src(j) == IF j < at THEN j ELSE j - 1
<1>1. N \in Nat /\ at \in 1 .. N + 1 /\ at \in Nat /\ Len(r) = N + 1
  BY DEF AddedAt
<1>2. \A j \in 1 .. N + 1 : j # at => src(j) \in 1 .. N /\ r[j] = list[src(j)]
  BY <1>1 DEF AddedAt
<1>3. r[at] = sv
  BY <1>1 DEF AddedAt
<1>4. ASSUME NEW i \in 1 .. N + 1, NEW j \in 1 .. N + 1, r[i].name = r[j].name
      PROVE  i = j
  <2>1. CASE i = at /\ j # at
    BY <1>2, <1>3, <1>4, <2>1
  <2>2. CASE j = at /\ i # at
    BY <1>2, <1>3, <1>4, <2>2
  <2>3. CASE i # at /\ j # at
    <3>1. src(i) = src(j)
      <4> HIDE DEF src
      <4> QED
        BY <1>2, <1>4, <2>3
    <3> QED
      BY <1>1, <2>3, <3>1
  <2> QED
    BY <2>1, <2>2, <2>3
<1> QED
  BY <1>1, <1>4

LEMMA AddNodeKeepsList ==
    ASSUME NEW s \in Schema, Accepted(s), NEW m \in Nat, m + 1 <= Len(s.nodes),
           NEW list, ListOf(s, m, list)
    PROVE  ListOf(s, m + 1, AddNode(list, s.nodes[m + 1]))
<1> DEFINE n == s.nodes[m + 1]
           e == Import(NewVar(n), n)
           r == state_add_var(list, e)
<1>1. Len(s.nodes) \in Nat /\ m + 1 \in 1 .. Len(s.nodes)
      /\ (\A q \in 1 .. m : q \in 1 .. Len(s.nodes) /\ q # m + 1)
      /\ (\A q \in 1 .. m : q \in 1 .. m + 1) /\ m + 1 \in 1 .. m + 1
      /\ (\A q \in 1 .. m + 1 : q = m + 1 \/ q \in 1 .. m)
  BY VariablesAssumption DEF IsStateNode
<1>2. CASE IsGroup(n)
  <2>1. AddNode(list, n) = list
    BY <1>2 DEF AddNode
  <2> HIDE DEF n
  <2>2. ListOf(s, m + 1, list)
    BY <1>1, <1>2 DEF ListOf, n
  <2> QED
    BY <2>1, <2>2 DEF n
<1>3. CASE ~IsGroup(n)
  <2>1. AddNode(list, n) = r
    BY <1>3 DEF AddNode
  <2>2. e \in Created(s)
    BY <1>1, <1>3 DEF Created
  <2>3. e.name = n.name
    <3> DEFINE v == NewVar(n)
    <3>1. VarOf(v, n)
      BY <1>1, <1>3, NodeFacts
    <3>2. e = v \/ e = [v EXCEPT !.default = ImportDefault(v, n),
                                 !.raw = Encode(v, ImportValue(v, n))]
      BY DEF Import
    <3> HIDE DEF v, e, n
    <3> QED
      BY <3>1, <3>2 DEF VarOf, VarFields
  <2> HIDE DEF e
  <2>4. list \in Seq(Created(s)) /\ Len(list) \in Nat
    BY DEF ListOf
  <2>5. PICK at \in 1 .. Len(list) + 1 : r \in Seq(Created(s)) /\ AddedAt(r, list, at, e)
    BY <2>2, <2>4, AddVarPlace
  <2> HIDE DEF r
  <2>6. \A q \in 1 .. m : s.nodes[q].name # n.name
    <3>1. \A a, b \in 1 .. Len(s.nodes) : s.nodes[a].name = s.nodes[b].name => a = b
      BY VariablesAssumption DEF IsStateNode
    <3> QED
      BY <1>1, <3>1
  <2>7. \A i, j \in 1 .. Len(r) : r[i].name = r[j].name => i = j
    <3>1. \A i, j \in 1 .. Len(list) : list[i].name = list[j].name => i = j
      BY DEF ListOf
    <3>2. \A i \in 1 .. Len(list) : list[i].name # e.name
      BY <2>3, <2>6 DEF ListOf
    <3> QED
      BY <2>4, <2>5, <3>1, <3>2, AddedKeepsNames
  <2>8. /\ Len(r) = Len(list) + 1 /\ r[at] = e /\ at \in 1 .. Len(r)
        /\ \A j \in 1 .. Len(r) : j = at \/ \E i \in 1 .. Len(list) : r[j] = list[i]
        /\ \A i \in 1 .. Len(list) : \E j \in 1 .. Len(r) : r[j] = list[i]
    <3> DEFINE N == Len(list)
    <3>1. N \in Nat /\ at \in 1 .. N + 1 /\ Len(r) = N + 1
      BY <2>4, <2>5 DEF AddedAt
    <3>2. \A j \in 1 .. N + 1 :
             r[j] = IF j < at THEN list[j] ELSE IF j = at THEN e ELSE list[j - 1]
      BY <2>5 DEF AddedAt
    <3> HIDE DEF N
    <3>3. r[at] = e
      BY <3>1, <3>2
    <3>4. ASSUME NEW j \in 1 .. N + 1, j # at
          PROVE  \E i \in 1 .. N : r[j] = list[i]
      <4>1. CASE j < at
        <5>1. j \in 1 .. N /\ r[j] = list[j]
          BY <3>1, <3>2, <4>1
        <5> QED
          BY <5>1
      <4>2. CASE ~(j < at)
        <5>1. j - 1 \in 1 .. N /\ r[j] = list[j - 1]
          BY <3>1, <3>2, <3>4, <4>2
        <5> QED
          BY <5>1
      <4> QED
        BY <4>1, <4>2
    <3>5. ASSUME NEW i \in 1 .. N
          PROVE  \E j \in 1 .. N + 1 : r[j] = list[i]
      <4>1. CASE i < at
        <5>1. i \in 1 .. N + 1 /\ r[i] = list[i]
          BY <3>1, <3>2, <4>1
        <5> QED
          BY <5>1
      <4>2. CASE ~(i < at)
        <5>1. i + 1 \in 1 .. N + 1 /\ ~(i + 1 < at) /\ i + 1 # at /\ (i + 1) - 1 = i
          BY <3>1, <4>2
        <5>2. r[i + 1] = list[i]
          BY <3>2, <5>1
        <5> QED
          BY <5>1, <5>2
      <4> QED
        BY <4>1, <4>2
    <3> QED
      BY <3>1, <3>3, <3>4, <3>5 DEF N
  <2> HIDE DEF n
  <2>9. \A j \in 1 .. Len(r) : \E q \in 1 .. m + 1 : r[j].name = s.nodes[q].name
    <3>1. \A i \in 1 .. Len(list) : \E q \in 1 .. m : list[i].name = s.nodes[q].name
      BY DEF ListOf
    <3>2. e.name = s.nodes[m + 1].name
      BY <2>3 DEF n
    <3>3. ASSUME NEW j \in 1 .. Len(r)
          PROVE  \E q \in 1 .. m + 1 : r[j].name = s.nodes[q].name
      <4>1. CASE j = at
        BY <1>1, <2>8, <3>2, <4>1
      <4>2. CASE j # at
        <5>1. PICK i \in 1 .. Len(list) : r[j] = list[i]
          BY <2>8, <3>3, <4>2
        <5>2. PICK q \in 1 .. m : list[i].name = s.nodes[q].name
          BY <3>1
        <5> QED
          BY <1>1, <5>1, <5>2
      <4> QED
        BY <4>1, <4>2
    <3> QED
      BY <3>3
  <2>10. ASSUME NEW q \in 1 .. m + 1, ~IsGroup(s.nodes[q])
         PROVE  \E j \in 1 .. Len(r) : r[j].name = s.nodes[q].name
    <3>1. CASE q = m + 1
      <4>1. r[at].name = s.nodes[q].name
        BY <2>3, <2>8, <3>1 DEF n
      <4> QED
        BY <2>8, <4>1
    <3>2. CASE q \in 1 .. m
      <4>1. \E i \in 1 .. Len(list) : list[i].name = s.nodes[q].name
        BY <2>10, <3>2 DEF ListOf
      <4> QED
        BY <2>8, <4>1
    <3> QED
      BY <1>1, <3>1, <3>2
  <2>11. ListOf(s, m + 1, r)
    BY <2>5, <2>7, <2>9, <2>10 DEF ListOf
  <2> QED
    BY <2>1, <2>11 DEF n
<1> QED
  BY <1>2, <1>3

LEMMA VariablesList ==
    ASSUME NEW s \in Schema, Accepted(s)
    PROVE  ListOf(s, Len(s.nodes), Variables(s))
<1> DEFINE N == Len(s.nodes)
           Is(f) == f = [k \in 0 .. N |->
                           IF k = 0 THEN <<>> ELSE AddNode(f[k - 1], s.nodes[k])]
           V == CHOOSE f : Is(f)
<1>0. N \in Nat
  BY VariablesAssumption DEF IsStateNode
<1>1. Variables(s) = V[N]
  BY DEF Variables
<1>2. Is(V)
  <2>1. \E f : Is(f)
    BY <1>0, AddedExists
  <2> HIDE DEF Is
  <2> QED
    BY <2>1
<1> HIDE DEF V
<1>3. V[0] = <<>> /\ \A k \in 1 .. N : V[k] = AddNode(V[k - 1], s.nodes[k])
  <2> HIDE DEF N
  <2>2. V[0] = <<>>
    BY <1>2, <1>0
  <2>3. \A k \in 1 .. N : k \in 0 .. N /\ k # 0
    BY <1>0
  <2> QED
    BY <1>2, <2>2, <2>3
<1> HIDE DEF Is
<1> DEFINE T == {m \in Nat : m <= N => ListOf(s, m, V[m])}
<1>4. 0 \in T
  <2>1. ListOf(s, 0, <<>>)
    <3>1. <<>> \in Seq(Created(s)) /\ Len(<<>>) = 0 /\ 1 .. 0 = {}
      BY EmptySeq
    <3> QED
      BY <3>1 DEF ListOf
  <2> QED
    BY <1>3, <2>1
<1>5. ASSUME NEW m \in Nat, m \in T
      PROVE  m + 1 \in T
  <2> SUFFICES ASSUME m + 1 <= N PROVE ListOf(s, m + 1, V[m + 1])
    OBVIOUS
  <2>1. m + 1 \in 1 .. N /\ (m + 1) - 1 = m /\ m <= N
    BY <1>0
  <2>2. V[m + 1] = AddNode(V[m], s.nodes[m + 1]) /\ ListOf(s, m, V[m])
    BY <1>3, <1>5, <2>1
  <2>3. ListOf(s, m + 1, AddNode(V[m], s.nodes[m + 1]))
    BY <2>2, AddNodeKeepsList
  <2> QED
    BY <2>2, <2>3
<1>6. Nat \subseteq T
  BY <1>4, <1>5, NatSetInduction
<1> QED
  BY <1>0, <1>1, <1>6
-----------------------------------------------------------------------------
(* The check of neighbours *)

\* Each variable ends before the next ones begin.
Apart(list) ==
    /\ Len(list) \in Nat /\ DOMAIN list = 1 .. Len(list)
    /\ \A i \in DOMAIN list :
          /\ DOMAIN list[i] = VarFields /\ list[i].type \in Type
          /\ list[i].start \in Nat /\ list[i].size \in Nat
    /\ \A i, j \in DOMAIN list : i < j => list[i].start + list[i].size <= list[j].start

\* state_from_node compares a variable with the one in front of it only.
LEMMA NeighboursSuffice ==
    ASSUME NEW s \in Schema, Accepted(s)
    PROVE  Apart(Variables(s))
<1> DEFINE list == Variables(s)
           N == Len(list)
<1>1. list \in Seq(Created(s))
  BY VariablesList DEF ListOf
<1>2. N \in Nat /\ DOMAIN list = 1 .. N /\ \A i \in 1 .. N : list[i] \in Created(s)
  BY <1>1
<1>3. \A i \in 1 .. N : /\ DOMAIN list[i] = VarFields /\ list[i].type \in Type
                        /\ list[i].start \in Nat /\ list[i].size \in Nat
                        /\ list[i].start + list[i].size < AddrMod
  BY <1>2, CreatedFacts
<1>4. \A i \in 2 .. N : ~Conflict(list[i - 1], list[i])
  BY DEF Accepted
<1> HIDE DEF list
<1>5. ASSUME NEW i \in 1 .. N, i + 1 \in 1 .. N
      PROVE  list[i].start + list[i].size <= list[i + 1].start
  <2> DEFINE e == list[i].start + list[i].size
  <2>1. i + 1 \in 2 .. N /\ (i + 1) - 1 = i
    BY <1>2, <1>5
  <2>2. (e + AddrMod - 1) % AddrMod < list[i + 1].start
    BY <1>4, <2>1 DEF Conflict
  <2>3. e \in Nat /\ e < AddrMod /\ AddrMod \in Nat \ {0} /\ list[i + 1].start \in Nat
        /\ list[i + 1].start < AddrMod
    BY <1>3, <1>5, ConstantFacts
  <2> HIDE DEF e
  <2>4. CASE e = 0
    <3>1. (e + AddrMod - 1) % AddrMod = AddrMod - 1
      BY <2>3, <2>4
    <3> QED
      BY <2>2, <2>3, <3>1
  <2>5. CASE e # 0
    <3>1. e - 1 \in 0 .. AddrMod - 1 /\ e + AddrMod - 1 = (e - 1) + AddrMod
      BY <2>3, <2>5
    <3>2. ((e - 1) + AddrMod) % AddrMod = e - 1
      BY <2>3, <3>1
    <3>3. e - 1 < list[i + 1].start
      BY <2>2, <3>1, <3>2
    <3>4. e <= list[i + 1].start
      BY <2>3, <3>3
    <3> QED
      BY <3>4 DEF e
  <2> QED
    BY <2>4, <2>5 DEF e
<1> DEFINE Gap(d) == \A i, j \in 1 .. N :
                        j = i + 1 + d => list[i].start + list[i].size <= list[j].start
           T == {d \in Nat : Gap(d)}
<1>6. 0 \in T
  <2>1. Gap(0)
    BY <1>2, <1>5
  <2> QED
    BY <2>1
<1>7. ASSUME NEW d \in Nat, d \in T
      PROVE  Gap(d + 1)
  <2> SUFFICES ASSUME NEW i \in 1 .. N, NEW j \in 1 .. N, j = i + 1 + (d + 1)
               PROVE  list[i].start + list[i].size <= list[j].start
    OBVIOUS
  <2>1. j - 1 \in 1 .. N /\ j - 1 = i + 1 + d /\ (j - 1) + 1 \in 1 .. N /\ (j - 1) + 1 = j
    BY <1>2
  <2>2. list[i].start + list[i].size <= list[j - 1].start
    BY <1>7, <2>1
  <2>3. list[j - 1].start + list[j - 1].size <= list[j].start
    BY <1>5, <2>1
  <2> DEFINE a == list[i].start + list[i].size
             b == list[j - 1].start
             c == list[j - 1].size
             e == list[j].start
  <2>4. a \in Nat /\ b \in Nat /\ c \in Nat /\ e \in Nat
    <3>1. list[i].start \in Nat /\ list[i].size \in Nat /\ list[j].start \in Nat
      BY <1>3
    <3>2. list[j - 1].start \in Nat /\ list[j - 1].size \in Nat
      BY <1>3, <2>1
    <3>3. \A x, y \in Nat : x + y \in Nat
      OBVIOUS
    <3> QED
      BY <3>1, <3>2, <3>3
  <2>5. a <= b /\ b + c <= e
    BY <2>2, <2>3
  <2> HIDE DEF a, b, c, e
  <2>6. a <= e
    BY <2>4, <2>5
  <2> QED
    BY <2>6 DEF a, e
<1>8. Nat \subseteq T
  <2> HIDE DEF Gap
  <2>1. \A d \in Nat : d \in T => d + 1 \in T
    BY <1>7
  <2> HIDE DEF T
  <2> QED
    BY <1>6, <2>1, NatSetInduction
<1>9. ASSUME NEW i \in 1 .. N, NEW j \in 1 .. N, i < j
      PROVE  list[i].start + list[i].size <= list[j].start
  <2>1. j - i - 1 \in Nat /\ j = i + 1 + (j - i - 1)
    BY <1>2, <1>9
  <2> QED
    BY <1>8, <2>1
<1> QED
  BY <1>2, <1>3, <1>9 DEF Apart, list

\* Loading and setting change neither the place of a variable nor its size.
SameLayout(l, m) ==
    /\ Len(m) = Len(l) /\ DOMAIN m = DOMAIN l
    /\ \A i \in DOMAIN l :
          /\ DOMAIN m[i] = DOMAIN l[i] /\ m[i].type = l[i].type
          /\ m[i].start = l[i].start /\ m[i].size = l[i].size
          /\ m[i].name = l[i].name /\ m[i].names = l[i].names

LEMMA ApartKept ==
    ASSUME NEW l, NEW m, Apart(l), SameLayout(l, m)
    PROVE  Apart(m)
BY DEF Apart, SameLayout

LEMMA UnpackKeepsLayout ==
    ASSUME NEW l, NEW img, Apart(l)
    PROVE  SameLayout(l, backend_format_raw_unpack(l, img).list)
<1> DEFINE m == [i \in DOMAIN l |-> UnpackVar(l[i], img)]
<1>1. backend_format_raw_unpack(l, img).list = m
  BY DEF backend_format_raw_unpack
<1>2. Len(m) = Len(l) /\ DOMAIN m = DOMAIN l
  BY DEF Apart
<1>3. ASSUME NEW i \in DOMAIN l
      PROVE  /\ DOMAIN m[i] = DOMAIN l[i] /\ m[i].type = l[i].type
             /\ m[i].start = l[i].start /\ m[i].size = l[i].size
             /\ m[i].name = l[i].name /\ m[i].names = l[i].names
  <2>1. m[i] = UnpackVar(l[i], img)
    OBVIOUS
  <2>2. DOMAIN l[i] = VarFields
    BY <1>3 DEF Apart
  <2> HIDE DEF m
  <2> QED
    BY <2>1, <2>2 DEF UnpackVar, VarFields
<1> QED
  BY <1>1, <1>2, <1>3 DEF SameLayout

LEMMA ExceptKeepsLayout ==
    ASSUME NEW l, NEW k, NEW x, Apart(l),
           k \in DOMAIN l => /\ DOMAIN x = VarFields /\ x.type = l[k].type
                             /\ x.start = l[k].start /\ x.size = l[k].size
                             /\ x.name = l[k].name /\ x.names = l[k].names
    PROVE  SameLayout(l, [l EXCEPT ![k] = x])
<1> DEFINE m == [l EXCEPT ![k] = x]
<1>1. DOMAIN m = DOMAIN l /\ Len(m) = Len(l)
  BY DEF Apart
<1>2. \A i \in DOMAIN l : DOMAIN l[i] = VarFields
  BY DEF Apart
<1> QED
  BY <1>1, <1>2 DEF SameLayout

\* f[k] is what the import has made of base after the first k nodes.
Imports(f, base, img, junk, n) ==
    f = [k \in 0 .. n |-> IF k = 0 THEN base
                          ELSE ImportNode(f[k - 1], img.nodes[k], junk)]

LEMMA ImportedExists ==
    ASSUME NEW base, NEW img, NEW junk, NEW n \in Nat
    PROVE  \E f : Imports(f, base, img, junk, n)
<1> DEFINE Built(f, m) == f = [k \in 0 .. m |->
                                 IF k = 0 THEN base
                                 ELSE ImportNode(f[k - 1], img.nodes[k], junk)]
           T == {m \in Nat : \E f : Built(f, m)}
<1>1. 0 \in T
  <2> DEFINE f == [k \in 0 .. 0 |-> base]
  <2>1. \A k \in 0 .. 0 : k = 0
    OBVIOUS
  <2>2. Built(f, 0)
    BY <2>1
  <2> QED
    BY <2>2
<1>2. ASSUME NEW m \in Nat, m \in T
      PROVE  m + 1 \in T
  <2>1. PICK f : Built(f, m)
    BY <1>2
  <2> DEFINE g == [k \in 0 .. m + 1 |->
                     IF k = m + 1 THEN ImportNode(f[m], img.nodes[m + 1], junk) ELSE f[k]]
  <2>2. ASSUME NEW k \in 0 .. m + 1
        PROVE  g[k] = IF k = 0 THEN base ELSE ImportNode(g[k - 1], img.nodes[k], junk)
    <3>1. CASE k = m + 1
      <4>1. g[m] = f[m] /\ k # 0 /\ k - 1 = m
        BY <3>1
      <4>2. g[k] = ImportNode(f[m], img.nodes[m + 1], junk)
        BY <3>1
      <4> HIDE DEF g
      <4> QED
        BY <3>1, <4>1, <4>2
    <3>2. CASE k \in 1 .. m
      <4>1. g[k] = f[k] /\ g[k - 1] = f[k - 1] /\ k # 0 /\ k \in 0 .. m
        BY <3>2
      <4>2. f[k] = IF k = 0 THEN base ELSE ImportNode(f[k - 1], img.nodes[k], junk)
        BY <2>1, <4>1
      <4> HIDE DEF g
      <4> QED
        BY <4>1, <4>2
    <3>3. CASE k = 0
      <4>1. g[k] = f[k] /\ k \in 0 .. m
        BY <3>3
      <4>2. f[k] = base
        BY <2>1, <3>3, <4>1
      <4> QED
        BY <3>3, <4>1, <4>2
    <3> QED
      BY <3>1, <3>2, <3>3
  <2>3. Built(g, m + 1)
    <3>1. g = [k \in 0 .. m + 1 |-> g[k]]
      OBVIOUS
    <3> HIDE DEF g
    <3> QED
      BY <2>2, <3>1
  <2> HIDE DEF g, Built
  <2> QED
    BY <2>3
<1> HIDE DEF Built
<1>3. Nat \subseteq T
  BY <1>1, <1>2, NatSetInduction
<1> QED
  BY <1>3 DEF Built, Imports

LEMMA DanglingKeepsVar ==
    ASSUME NEW sv, NEW n, NEW junk, DOMAIN sv = VarFields
    PROVE  LET x == Dangling(sv, n, junk)
           IN  /\ DOMAIN x = VarFields /\ x.type = sv.type /\ x.start = sv.start
               /\ x.size = sv.size /\ x.name = sv.name /\ x.names = sv.names
               /\ x.text = sv.text /\ x.raw = sv.raw
               /\ sv.type # "string" => x = sv
<1>1. \/ Dangling(sv, n, junk) = sv
      \/ sv.type = "string" /\ Dangling(sv, n, junk) = [sv EXCEPT !.default = junk]
  BY DEF Dangling
<1> QED
  BY <1>1 DEF VarFields

LEMMA ImportKeepsVar ==
    ASSUME NEW sv, NEW n, NEW junk, DOMAIN sv = VarFields
    PROVE  LET x == Dangling(Import(sv, n), n, junk)
           IN  DOMAIN x = VarFields /\ x.type = sv.type /\ x.start = sv.start
               /\ x.size = sv.size /\ x.name = sv.name /\ x.names = sv.names
               /\ x.text = sv.text /\ x.raw = Import(sv, n).raw
<1> DEFINE y == Import(sv, n)
<1>1. y = sv \/ y = [sv EXCEPT !.default = ImportDefault(sv, n),
                               !.raw = Encode(sv, ImportValue(sv, n))]
  BY DEF Import
<1> HIDE DEF y
<1>2. /\ DOMAIN y = VarFields /\ y.type = sv.type /\ y.start = sv.start /\ y.size = sv.size
      /\ y.name = sv.name /\ y.names = sv.names /\ y.text = sv.text
  BY <1>1 DEF VarFields
<1> DEFINE x == Dangling(y, n, junk)
<1>3. /\ DOMAIN x = VarFields /\ x.type = y.type /\ x.start = y.start
      /\ x.size = y.size /\ x.name = y.name /\ x.names = y.names
      /\ x.text = y.text /\ x.raw = y.raw
  BY <1>2, DanglingKeepsVar
<1> HIDE DEF x
<1>4. /\ DOMAIN x = VarFields /\ x.type = sv.type /\ x.start = sv.start
      /\ x.size = sv.size /\ x.name = sv.name /\ x.names = sv.names
      /\ x.text = sv.text /\ x.raw = y.raw
  BY <1>2, <1>3
<1> QED
  BY <1>4 DEF x, y

LEMMA LayoutTrans ==
    ASSUME NEW a, NEW b, NEW c, SameLayout(a, b), SameLayout(b, c)
    PROVE  SameLayout(a, c)
BY DEF SameLayout

LEMMA ImportNodeKeepsLayout ==
    ASSUME NEW acc, NEW n, NEW junk, DOMAIN acc = {"ret", "list"}, Apart(acc.list)
    PROVE  LET x == ImportNode(acc, n, junk)
           IN  DOMAIN x = {"ret", "list"} /\ SameLayout(acc.list, x.list)
<1> DEFINE k == state_find_var(acc.list, n.name)
           m == [acc.list EXCEPT ![k] = Dangling(Import(acc.list[k], n), n, junk)]
           d == [acc.list EXCEPT ![k] = Dangling(acc.list[k], n, junk)]
           x == ImportNode(acc, n, junk)
<1>1. \/ x = acc
      \/ x = [acc EXCEPT !.ret = "EILSEQ", !.list = d]
      \/ x = [acc EXCEPT !.list = m]
  BY DEF ImportNode
<1>2. SameLayout(acc.list, acc.list)
  BY DEF SameLayout
<1> DEFINE y == Dangling(Import(acc.list[k], n), n, junk)
           z == Dangling(acc.list[k], n, junk)
<1> HIDE DEF k
<1>3. k \in DOMAIN acc.list => DOMAIN acc.list[k] = VarFields
  BY DEF Apart
<1>7. k \in DOMAIN acc.list =>
         /\ DOMAIN z = VarFields /\ z.type = acc.list[k].type
         /\ z.start = acc.list[k].start /\ z.size = acc.list[k].size
         /\ z.name = acc.list[k].name /\ z.names = acc.list[k].names
  <2> DEFINE v == acc.list[k]
  <2> HIDE DEF v
  <2>1. DOMAIN v = VarFields =>
           /\ DOMAIN Dangling(v, n, junk) = VarFields /\ Dangling(v, n, junk).type = v.type
           /\ Dangling(v, n, junk).start = v.start /\ Dangling(v, n, junk).size = v.size
           /\ Dangling(v, n, junk).name = v.name /\ Dangling(v, n, junk).names = v.names
    BY DanglingKeepsVar
  <2> QED
    BY <1>3, <2>1 DEF v
<1>4. k \in DOMAIN acc.list =>
         /\ DOMAIN y = VarFields /\ y.type = acc.list[k].type
         /\ y.start = acc.list[k].start /\ y.size = acc.list[k].size
         /\ y.name = acc.list[k].name /\ y.names = acc.list[k].names
  BY <1>3, ImportKeepsVar
<1> HIDE DEF y, z
<1>5. SameLayout(acc.list, [acc.list EXCEPT ![k] = y])
  BY <1>4, ExceptKeepsLayout
<1>6. SameLayout(acc.list, m)
  BY <1>5 DEF y
<1>8. SameLayout(acc.list, [acc.list EXCEPT ![k] = z])
  BY <1>7, ExceptKeepsLayout
<1>9. SameLayout(acc.list, d)
  BY <1>8 DEF z
<1> HIDE DEF m, d, x
<1> QED
  BY <1>1, <1>2, <1>6, <1>9 DEF x

LEMMA FromNodeKeepsLayout ==
    ASSUME NEW list, NEW img, NEW magic, NEW junk, Apart(list), Len(img.nodes) \in Nat
    PROVE  SameLayout(list, state_from_node(list, img, magic, junk).list)
<1> DEFINE N == Len(img.nodes)
           base == [ret |-> "OK", list |-> list]
           V == CHOOSE f : f = [k \in 0 .. N |->
                           IF k = 0 THEN base
                           ELSE ImportNode(f[k - 1], img.nodes[k], junk)]
<1>r. SameLayout(list, list)
  BY DEF SameLayout
<1>1. \/ state_from_node(list, img, magic, junk) = [ret |-> "EINVAL", list |-> list]
      \/ state_from_node(list, img, magic, junk) = V[N]
  BY DEF state_from_node
<1>2. V = CHOOSE f : Imports(f, base, img, junk, N)
  BY DEF Imports
<1> HIDE DEF base, V
<1>3. Imports(V, base, img, junk, N)
  <2>1. \E f : Imports(f, base, img, junk, N)
    BY ImportedExists
  <2> QED
    BY <1>2, <2>1
<1>4. /\ V[0] = base
      /\ \A k \in 1 .. N : V[k] = ImportNode(V[k - 1], img.nodes[k], junk)
  BY <1>3 DEF Imports
<1> DEFINE T == {m \in Nat : m <= N => /\ DOMAIN V[m] = {"ret", "list"}
                                       /\ SameLayout(list, V[m].list)}
<1>5. 0 \in T
  BY <1>4, <1>r DEF base
<1>6. ASSUME NEW m \in Nat, m \in T
      PROVE  m + 1 \in T
  <2> SUFFICES ASSUME m + 1 <= N
               PROVE  DOMAIN V[m + 1] = {"ret", "list"} /\ SameLayout(list, V[m + 1].list)
    OBVIOUS
  <2>1. m + 1 \in 1 .. N /\ (m + 1) - 1 = m /\ m <= N
    OBVIOUS
  <2>2. V[m + 1] = ImportNode(V[m], img.nodes[m + 1], junk)
    BY <1>4, <2>1
  <2>3. DOMAIN V[m] = {"ret", "list"} /\ SameLayout(list, V[m].list)
    BY <1>6, <2>1
  <2>4. Apart(V[m].list)
    BY <2>3, ApartKept
  <2>5. DOMAIN V[m + 1] = {"ret", "list"} /\ SameLayout(V[m].list, V[m + 1].list)
    BY <2>2, <2>3, <2>4, ImportNodeKeepsLayout
  <2> QED
    BY <2>3, <2>5, LayoutTrans
<1>7. Nat \subseteq T
  BY <1>5, <1>6, NatSetInduction
<1>8. SameLayout(list, V[N].list)
  BY <1>7
<1> QED
  BY <1>1, <1>8, <1>r

-----------------------------------------------------------------------------
(* A run of the tool *)

\* No two variables of a state overlap, at any point of a run; the nodes of a
\* stored tree are finitely many.
VarsInv ==
    /\ phase # "off" => schema \in Schema
    /\ Apart(svs)
    /\ fmt = "dtb" /\ image # NONE => Len(image.nodes) \in Nat

LEMMA EmptyApart == Apart(<<>>)
BY DEF Apart

LEMMA SetKeepsVar ==
    ASSUME NEW sv, NEW in, DOMAIN sv = VarFields, sv.type \in Type
    PROVE  LET x == SetValue(sv, in)
           IN  DOMAIN x = VarFields /\ x.type = sv.type /\ x.start = sv.start
               /\ x.size = sv.size /\ x.name = sv.name /\ x.names = sv.names
<1>1. \/ \E r : SetValue(sv, in) = [sv EXCEPT !.raw = r]
      \/ \E r, c : SetValue(sv, in) = [sv EXCEPT !.raw = r, !.text = c]
  BY DEF SetValue, Type
<1> QED
  BY <1>1 DEF VarFields

LEMMA VarsInitInv == VarsInit => VarsInv
BY EmptyApart DEF VarsInit, VarsInv

LEMMA CreateKeeps ==
    ASSUME VarsInv, NEW s \in Schema, state_new_from_node(s)
    PROVE  VarsInv'
BY NeighboursSuffice DEF VarsInv, state_new_from_node

LEMMA LoadSameLayout ==
    ASSUME VarsInv, state_do_load
    PROVE  SameLayout(svs, svs')
<1> USE DEF VarsInv
<1>r. SameLayout(svs, svs)
  BY DEF SameLayout
<1>1. CASE image = NONE /\ Loaded([ret |-> "EINVAL", list |-> svs])
  BY <1>1, <1>r DEF Loaded
<1>2. CASE Loaded(IF backend_format_raw_verify(image, schema.magic)
                    THEN backend_format_raw_unpack(svs, image)
                    ELSE [ret |-> "EINVAL", list |-> svs])
  <2>1. svs' = svs \/ svs' = backend_format_raw_unpack(svs, image).list
    BY <1>2 DEF Loaded
  <2> QED
    BY <1>r, <2>1, UnpackKeepsLayout
<1>3. ASSUME image # NONE, fmt = "dtb",
             NEW junk, Loaded(state_from_node(svs, image, schema.magic, junk))
      PROVE  SameLayout(svs, svs')
  BY <1>3, FromNodeKeepsLayout DEF Loaded
<1> QED
  BY <1>1, <1>2, <1>3 DEF state_do_load

LEMMA LoadKeeps ==
    ASSUME VarsInv, state_do_load
    PROVE  VarsInv'
<1>1. Apart(svs')
  BY LoadSameLayout, ApartKept DEF VarsInv
<1> QED
  BY <1>1 DEF VarsInv, state_do_load

LEMMA SetKeeps ==
    ASSUME VarsInv, NEW k \in Settable, NEW in, state_set_var(k, in)
    PROVE  VarsInv'
<1> USE DEF VarsInv
<1>1. k \in DOMAIN svs
  BY DEF Settable
<1>2. CASE svs' = svs
  BY <1>2 DEF state_set_var
<1>3. CASE svs' = [svs EXCEPT ![k] = SetValue(svs[k], in)]
  <2> DEFINE x == SetValue(svs[k], in)
  <2>1. /\ DOMAIN x = VarFields /\ x.type = svs[k].type
        /\ x.start = svs[k].start /\ x.size = svs[k].size
        /\ x.name = svs[k].name /\ x.names = svs[k].names
    BY <1>1, SetKeepsVar DEF Apart
  <2> HIDE DEF x
  <2>2. SameLayout(svs, [svs EXCEPT ![k] = x])
    BY <2>1, ExceptKeepsLayout
  <2>3. Apart(svs')
    BY <1>3, <2>2, ApartKept DEF x
  <2> QED
    BY <2>3 DEF state_set_var
<1> QED
  BY <1>2, <1>3 DEF state_set_var

LEMMA OffKeeps ==
    ASSUME VarsInv, Off, UNCHANGED <<fmt, image>>
    PROVE  VarsInv'
BY EmptyApart DEF VarsInv, Off

LEMMA SaveKeeps ==
    ASSUME VarsInv, state_save
    PROVE  VarsInv'
<1>1. ASSUME fmt = "dtb"
      PROVE  Len(image'.nodes) \in Nat
  <2>1. schema \in Schema
    BY DEF state_save, VarsInv
  <2>2. Len(schema.nodes) \in Nat /\ DOMAIN schema.nodes = 1 .. Len(schema.nodes)
    BY <2>1, VariablesAssumption DEF IsStateNode
  <2>3. DOMAIN image'.nodes = DOMAIN schema.nodes /\ Len(image'.nodes) = Len(schema.nodes)
    BY <1>1, <2>2 DEF state_save, state_backend_format_dtb_pack, state_to_node
  <2> QED
    BY <2>2, <2>3
<1> QED
  BY <1>1, EmptyApart DEF VarsInv, Off, state_save

LEMMA VarsInvHolds == VarsSpec => []VarsInv
<1>1. ASSUME VarsInv, [VarsNext]_stateVars
      PROVE  VarsInv'
  <2> USE <1>1
  <2>1. CASE UNCHANGED stateVars
    BY <2>1 DEF VarsInv, stateVars, run
  <2>2. ASSUME NEW s \in Schema, state_new_from_node(s)
        PROVE  VarsInv'
    BY <2>2, CreateKeeps
  <2>3. CASE state_do_load
    BY <2>3, LoadKeeps
  <2>4. ASSUME NEW k \in Settable, NEW in \in Input(svs[k].type), state_set_var(k, in)
        PROVE  VarsInv'
    BY <2>4, SetKeeps
  <2>5. ASSUME NEW k \in Settable, NEW in \in Input(svs[k].type), SetFails(k, in)
        PROVE  VarsInv'
    BY <2>5, OffKeeps DEF SetFails
  <2>6. CASE state_save
    BY <2>6, SaveKeeps
  <2>7. CASE Exit
    BY <2>7, OffKeeps DEF Exit
  <2> QED
    BY <2>1, <2>2, <2>3, <2>4, <2>5, <2>6, <2>7 DEF VarsNext
<1> QED
  BY <1>1, VarsInitInv, PTL DEF VarsSpec

\* For every set of device trees, in every run: no two variables of an
\* accepted state share a byte of the image, although state_from_node only
\* compares neighbours in the order of state_add_var.
THEOREM AcceptedDisjointHolds == VarsSpec => []AcceptedDisjoint
<1>1. ASSUME VarsInv
      PROVE  AcceptedDisjoint
  <2> SUFFICES ASSUME NEW i \in DOMAIN svs, NEW j \in DOMAIN svs, i # j
               PROVE  Occupies(svs[i]) \cap Occupies(svs[j]) = {}
    BY DEF AcceptedDisjoint
  <2>1. /\ svs[i].start \in Nat /\ svs[i].size \in Nat
        /\ svs[j].start \in Nat /\ svs[j].size \in Nat
    BY <1>1 DEF VarsInv, Apart
  <2>2. i \in Nat /\ j \in Nat
    BY <1>1 DEF VarsInv, Apart
  <2>3. \/ svs[i].start + svs[i].size <= svs[j].start
        \/ svs[j].start + svs[j].size <= svs[i].start
    BY <1>1, <2>2 DEF VarsInv, Apart
  <2> QED
    BY <2>1, <2>3 DEF Occupies
<1> QED
  BY <1>1, VarsInvHolds, PTL

-----------------------------------------------------------------------------
(* The bytes of a number *)

\* f[i] is what is left of n when i bytes have been taken.
Rests(f, n, m) ==
    f = [i \in 0 .. m |-> IF i = 0 THEN n ELSE f[i - 1] \div Base]

LEMMA RestsExist ==
    ASSUME NEW n, NEW m \in Nat
    PROVE  \E f : Rests(f, n, m)
<1> DEFINE T == {k \in Nat : \E f : Rests(f, n, k)}
<1>1. 0 \in T
  <2> DEFINE f == [i \in 0 .. 0 |-> n]
  <2>1. \A i \in 0 .. 0 : i = 0
    OBVIOUS
  <2>2. Rests(f, n, 0)
    BY <2>1 DEF Rests
  <2> QED
    BY <2>2
<1>2. ASSUME NEW k \in Nat, k \in T
      PROVE  k + 1 \in T
  <2>1. PICK f : Rests(f, n, k)
    BY <1>2
  <2> DEFINE g == [i \in 0 .. k + 1 |-> IF i = k + 1 THEN f[k] \div Base ELSE f[i]]
  <2>2. ASSUME NEW i \in 0 .. k + 1
        PROVE  g[i] = IF i = 0 THEN n ELSE g[i - 1] \div Base
    <3>1. CASE i = k + 1
      <4>1. g[k] = f[k] /\ i # 0 /\ i - 1 = k
        BY <3>1
      <4>2. g[i] = f[k] \div Base
        BY <3>1
      <4> HIDE DEF g
      <4> QED
        BY <3>1, <4>1, <4>2
    <3>2. CASE i \in 1 .. k
      <4>1. g[i] = f[i] /\ g[i - 1] = f[i - 1] /\ i # 0 /\ i \in 0 .. k
        BY <3>2
      <4>2. f[i] = IF i = 0 THEN n ELSE f[i - 1] \div Base
        BY <2>1, <4>1 DEF Rests
      <4> HIDE DEF g
      <4> QED
        BY <4>1, <4>2
    <3>3. CASE i = 0
      <4>1. g[i] = f[i] /\ i \in 0 .. k
        BY <3>3
      <4>2. f[i] = n
        BY <2>1, <3>3, <4>1 DEF Rests
      <4> QED
        BY <3>3, <4>1, <4>2
    <3> QED
      BY <3>1, <3>2, <3>3
  <2>3. Rests(g, n, k + 1)
    <3>1. g = [i \in 0 .. k + 1 |-> g[i]]
      OBVIOUS
    <3> HIDE DEF g
    <3> QED
      BY <2>2, <3>1 DEF Rests
  <2> HIDE DEF g
  <2> QED
    BY <2>3
<1>3. Nat \subseteq T
  BY <1>1, <1>2, NatSetInduction
<1> QED
  BY <1>3

LEMMA LittleEndianRests ==
    ASSUME NEW n
    PROVE  \E f : /\ f[0] = n /\ \A i \in 1 .. Word : f[i] = f[i - 1] \div Base
                  /\ LittleEndian(n) = [i \in 1 .. Word |-> f[i - 1] % Base]
<1> DEFINE V == CHOOSE f : f = [i \in 0 .. Word |-> IF i = 0 THEN n ELSE f[i - 1] \div Base]
<1>1. LittleEndian(n) = [i \in 1 .. Word |-> V[i - 1] % Base]
  BY DEF LittleEndian
<1>2. V = CHOOSE f : Rests(f, n, Word)
  BY DEF Rests
<1> HIDE DEF V
<1>3. Rests(V, n, Word)
  BY <1>2, RestsExist, ConstantFacts
<1>4. V[0] = n /\ \A i \in 1 .. Word : V[i] = V[i - 1] \div Base
  BY <1>3, ConstantFacts DEF Rests
<1> QED
  BY <1>1, <1>4

LEMMA DivModFacts ==
    ASSUME NEW n \in Nat
    PROVE  /\ n \div Base \in Nat /\ n % Base \in Byte
           /\ n = Base * (n \div Base) + (n % Base)
<1> DEFINE b == Base
<1>1. b \in Nat /\ b > 1
  BY ConstantFacts
<1> HIDE DEF b
<1>2. /\ n \div b \in Nat /\ n % b \in 0 .. b - 1
      /\ n = b * (n \div b) + (n % b)
  BY <1>1
<1> QED
  BY <1>2 DEF b, Byte

LEMMA DivModUnique ==
    ASSUME NEW q \in Nat, NEW r \in Byte
    PROVE  /\ Base * q + r \in Nat
           /\ (Base * q + r) \div Base = q /\ (Base * q + r) % Base = r
<1> DEFINE b == Base
<1>1. b \in Nat /\ b > 1 /\ r \in 0 .. b - 1
  BY ConstantFacts DEF Byte
<1> HIDE DEF b
<1>2. b * q \in Nat
  BY <1>1
<1>3. b * q + r \in Nat
  BY <1>1, <1>2
<1>4. (b * q + r) \div b = q /\ (b * q + r) % b = r
  BY <1>1, <1>2
<1> QED
  BY <1>3, <1>4 DEF b

LEMMA LowByteRange ==
    ASSUME NEW n \in 0 .. WordMod - 1, NEW r \in Byte
    PROVE  Base * (n \div Base) + r \in 0 .. WordMod - 1
<1> DEFINE b == Base
           m == WordMod
           q == n \div b
           k == m \div b
<1>1. b \in Nat /\ b > 1 /\ r \in 0 .. b - 1 /\ m \in Nat /\ m > 0 /\ m % b = 0
  BY ConstantFacts DEF Byte
<1>2. n \in Nat /\ n < m
  BY <1>1
<1>3. q \in Nat /\ n = b * q + (n % b) /\ n % b \in 0 .. b - 1
  BY <1>2, DivModFacts DEF Byte
<1>4. k \in Nat /\ m = b * k
  <2>1. k \in Nat /\ m = b * k + (m % b)
    BY <1>1, DivModFacts
  <2> HIDE DEF k, b, m
  <2>2. b * k \in Nat
    BY <1>1, <2>1
  <2> QED
    BY <1>1, <2>1, <2>2
<1> HIDE DEF b, m, q, k
<1>5. b * q \in Nat /\ b * q < b * k
  BY <1>1, <1>2, <1>3, <1>4
<1>6. q + 1 <= k
  <2> SUFFICES ASSUME k <= q PROVE FALSE
    BY <1>3, <1>4
  <2>1. q - k \in Nat /\ b * q = b * k + b * (q - k)
    BY <1>1, <1>3, <1>4
  <2>2. b * (q - k) \in Nat
    BY <1>1, <2>1
  <2>3. b * k \in Nat
    BY <1>1, <1>4
  <2> QED
    BY <1>5, <2>1, <2>2, <2>3
<1>7. b * q + b <= b * k
  <2>1. k - (q + 1) \in Nat /\ b * k = b * q + b + b * (k - (q + 1))
    BY <1>1, <1>3, <1>4, <1>6
  <2>2. b * (k - (q + 1)) \in Nat
    BY <1>1, <2>1
  <2> QED
    BY <1>1, <1>5, <2>1, <2>2
<1>8. b * q + r \in 0 .. m - 1
  BY <1>1, <1>4, <1>5, <1>7
<1> QED
  BY <1>8 DEF b, m, q

LEMMA LittleEndianBytes ==
    ASSUME NEW n \in Nat
    PROVE  LittleEndian(n) \in [1 .. Word -> Byte]
<1>1. PICK f : /\ f[0] = n /\ \A i \in 1 .. Word : f[i] = f[i - 1] \div Base
               /\ LittleEndian(n) = [i \in 1 .. Word |-> f[i - 1] % Base]
  BY LittleEndianRests
<1> DEFINE T == {k \in Nat : k <= Word => f[k] \in Nat}
<1>2. 0 \in T
  BY <1>1
<1>3. ASSUME NEW k \in Nat, k \in T
      PROVE  k + 1 \in T
  <2> SUFFICES ASSUME k + 1 <= Word PROVE f[k + 1] \in Nat
    OBVIOUS
  <2>1. k + 1 \in 1 .. Word /\ (k + 1) - 1 = k /\ k <= Word
    BY ConstantFacts
  <2>2. f[k + 1] = f[k] \div Base /\ f[k] \in Nat
    BY <1>1, <1>3, <2>1
  <2> QED
    BY <2>2, DivModFacts
<1>4. Nat \subseteq T
  BY <1>2, <1>3, NatSetInduction
<1>5. ASSUME NEW i \in 1 .. Word
      PROVE  f[i - 1] % Base \in Byte
  <2>1. i - 1 \in Nat /\ i - 1 <= Word
    BY ConstantFacts
  <2>2. f[i - 1] \in Nat
    BY <1>4, <2>1
  <2> QED
    BY <2>2, DivModFacts
<1> QED
  BY <1>1, <1>5

\* The upper bytes of a number are those of the number without its low byte.
LEMMA LittleEndianLow ==
    ASSUME NEW n \in Nat, NEW b \in Byte
    PROVE  LittleEndian(Base * (n \div Base) + b) =
               [i \in 1 .. Word |-> IF i = 1 THEN b ELSE LittleEndian(n)[i]]
<1> DEFINE m == Base * (n \div Base) + b
<1>1. PICK f : /\ f[0] = n /\ \A i \in 1 .. Word : f[i] = f[i - 1] \div Base
               /\ LittleEndian(n) = [i \in 1 .. Word |-> f[i - 1] % Base]
  BY LittleEndianRests
<1>2. n \div Base \in Nat
  BY DivModFacts
<1>3. m \in Nat /\ m \div Base = n \div Base /\ m % Base = b
  BY <1>2, DivModUnique
<1> HIDE DEF m
<1>4. PICK g : /\ g[0] = m /\ \A i \in 1 .. Word : g[i] = g[i - 1] \div Base
               /\ LittleEndian(m) = [i \in 1 .. Word |-> g[i - 1] % Base]
  BY LittleEndianRests
<1> DEFINE T == {k \in Nat : k + 1 <= Word => g[k + 1] = f[k + 1]}
<1>5. 0 \in T
  <2>1. 1 \in 1 .. Word /\ 1 - 1 = 0 /\ 0 + 1 = 1
    BY ConstantFacts
  <2>2. g[1] = m \div Base /\ f[1] = n \div Base
    BY <1>1, <1>4, <2>1
  <2> QED
    BY <1>3, <2>1, <2>2
<1>6. ASSUME NEW k \in Nat, k \in T
      PROVE  k + 1 \in T
  <2> SUFFICES ASSUME (k + 1) + 1 <= Word PROVE g[(k + 1) + 1] = f[(k + 1) + 1]
    OBVIOUS
  <2>1. (k + 1) + 1 \in 1 .. Word /\ ((k + 1) + 1) - 1 = k + 1 /\ k + 1 <= Word
    BY ConstantFacts
  <2>2. g[k + 1] = f[k + 1]
    BY <1>6, <2>1
  <2> QED
    BY <1>1, <1>4, <2>1, <2>2
<1>7. Nat \subseteq T
  BY <1>5, <1>6, NatSetInduction
<1>8. ASSUME NEW i \in 1 .. Word
      PROVE  g[i - 1] % Base = IF i = 1 THEN b ELSE LittleEndian(n)[i]
  <2>1. CASE i = 1
    <3>1. g[i - 1] = m
      BY <1>4, <2>1
    <3> QED
      BY <1>3, <2>1, <3>1
  <2>2. CASE i # 1
    <3>1. i - 2 \in Nat /\ (i - 2) + 1 = i - 1 /\ i - 1 <= Word
      BY <2>2, ConstantFacts
    <3>2. g[i - 1] = f[i - 1]
      BY <1>7, <3>1
    <3>3. LittleEndian(n)[i] = f[i - 1] % Base
      BY <1>1
    <3> QED
      BY <2>2, <3>2, <3>3
  <2> QED
    BY <2>1, <2>2
<1> QED
  BY <1>4, <1>8 DEF m

\* A number of one byte has no others.
LEMMA LittleEndianSmall ==
    ASSUME NEW n \in Nat, n < Base
    PROVE  \A i \in 2 .. Word : LittleEndian(n)[i] = 0
<1>1. PICK f : /\ f[0] = n /\ \A i \in 1 .. Word : f[i] = f[i - 1] \div Base
               /\ LittleEndian(n) = [i \in 1 .. Word |-> f[i - 1] % Base]
  BY LittleEndianRests
<1>2. n \div Base = 0 /\ 0 \div Base = 0 /\ 0 % Base = 0
  <2> DEFINE b == Base
  <2>1. b \in Nat /\ b > 1 /\ n < b
    BY ConstantFacts
  <2> HIDE DEF b
  <2>2. n \div b = 0 /\ 0 \div b = 0 /\ 0 % b = 0
    BY <2>1
  <2> QED
    BY <2>2 DEF b
<1> DEFINE T == {k \in Nat : k + 1 <= Word => f[k + 1] = 0}
<1>3. 0 \in T
  <2>1. 1 \in 1 .. Word /\ 1 - 1 = 0 /\ 0 + 1 = 1
    BY ConstantFacts
  <2>2. f[1] = n \div Base
    BY <1>1, <2>1
  <2> QED
    BY <1>2, <2>1, <2>2
<1>4. ASSUME NEW k \in Nat, k \in T
      PROVE  k + 1 \in T
  <2> SUFFICES ASSUME (k + 1) + 1 <= Word PROVE f[(k + 1) + 1] = 0
    OBVIOUS
  <2>1. (k + 1) + 1 \in 1 .. Word /\ ((k + 1) + 1) - 1 = k + 1 /\ k + 1 <= Word
    BY ConstantFacts
  <2>2. f[k + 1] = 0
    BY <1>4, <2>1
  <2> QED
    BY <1>1, <1>2, <2>1, <2>2
<1>5. Nat \subseteq T
  BY <1>3, <1>4, NatSetInduction
<1>6. ASSUME NEW i \in 2 .. Word
      PROVE  LittleEndian(n)[i] = 0
  <2>1. i - 2 \in Nat /\ (i - 2) + 1 = i - 1 /\ i - 1 <= Word /\ i \in 1 .. Word
    BY ConstantFacts
  <2>2. f[i - 1] = 0
    BY <1>5, <2>1
  <2>3. LittleEndian(n)[i] = f[i - 1] % Base
    BY <1>1, <2>1
  <2> QED
    BY <1>2, <2>2, <2>3
<1> QED
  BY <1>6

\* The bytes are those of some number.
IsWord(bytes) == \E n \in 0 .. WordMod - 1 : bytes = LittleEndian(n)

LEMMA NumOfWord ==
    ASSUME NEW raw, IsWord(raw)
    PROVE  Num(raw) \in 0 .. WordMod - 1 /\ LittleEndian(Num(raw)) = raw
<1>1. \E n \in 0 .. WordMod - 1 : LittleEndian(n) = raw
  BY DEF IsWord
<1> QED
  BY <1>1 DEF Num

\* Replacing the low byte of a number gives a number.
LEMMA WordWithLowByte ==
    ASSUME NEW raw, IsWord(raw), NEW b \in Byte
    PROVE  IsWord([i \in 1 .. Word |-> IF i = 1 THEN b ELSE raw[i]])
<1>1. PICK n \in 0 .. WordMod - 1 : raw = LittleEndian(n)
  BY DEF IsWord
<1>2. n \in Nat
  BY ConstantFacts
<1> DEFINE m == Base * (n \div Base) + b
<1>3. m \in 0 .. WordMod - 1
  BY LowByteRange
<1>4. LittleEndian(m) = [i \in 1 .. Word |-> IF i = 1 THEN b ELSE raw[i]]
  BY <1>1, <1>2, LittleEndianLow
<1> HIDE DEF m
<1> QED
  BY <1>3, <1>4 DEF IsWord
-----------------------------------------------------------------------------
(* The values of the variables *)

LEMMA ZerosFacts ==
    ASSUME NEW n \in Nat
    PROVE  Zeros(n) \in [1 .. n -> Byte]
<1>1. 0 \in Byte
  BY ConstantFacts DEF Byte
<1> QED
  BY <1>1 DEF Zeros

\* The memory of a variable has its length, and what the dtb format exports
\* is a number; so is every uint8, of which raw exports one byte.
GoodVar(f, v) ==
    /\ v.type \in Number => /\ v.raw \in [1 .. Word -> Byte]
                            /\ v.default \in 0 .. WordMod - 1
                            /\ f = "dtb" \/ v.type = "uint8" => IsWord(v.raw)
    /\ v.type = "mac" => /\ v.raw \in [1 .. MacLen -> Byte]
                         /\ v.default \in [1 .. MacLen -> Byte]
    /\ v.type = "string" /\ f = "raw" => v.raw \in [1 .. v.size -> Byte]

LEMMA NoneIsNoValue ==
    /\ NONE \notin 0 .. WordMod - 1 /\ NONE \notin [1 .. MacLen -> Byte]
    /\ BAD \notin 0 .. WordMod - 1 /\ BAD \notin [1 .. MacLen -> Byte]
<1>1. \A p \in {NONE, BAD} : p \notin Nat /\ p \notin Seq(Byte)
  BY VariablesAssumption
<1>2. 0 .. WordMod - 1 \subseteq Nat
  BY ConstantFacts
<1>3. [1 .. MacLen -> Byte] \subseteq Seq(Byte)
  BY ConstantFacts
<1> QED
  BY <1>1, <1>2, <1>3

LEMMA CreatedNumber ==
    ASSUME NEW s \in Schema, Accepted(s), NEW i \in 1 .. Len(s.nodes),
           ~IsGroup(s.nodes[i]), s.nodes[i].type \in Number
    PROVE  LET n == s.nodes[i]
               v == NewVar(n)
               x == ImportValue(v, n)
               d == ImportDefault(v, n)
               e == Import(v, n)
           IN  /\ x \in 0 .. WordMod - 1 /\ d \in 0 .. WordMod - 1
               /\ e.raw = LittleEndian(x) /\ e.default = d
<1> DEFINE n == s.nodes[i]
           v == NewVar(n)
           x == ImportValue(v, n)
           d == ImportDefault(v, n)
           e == Import(v, n)
<1>1. /\ {n.value, n.default} \ {NONE, BAD} \subseteq Values(n.type)
      /\ VarOf(v, n) /\ v.default = ZeroDefault(n.type)
  BY NodeFacts
<1>2. Values(n.type) = 0 .. WordMod - 1 /\ ZeroDefault(n.type) = 0
  BY DEF Values, ZeroDefault, Number
<1>n. n.type \in Number
  OBVIOUS
<1>3. 0 \in 0 .. WordMod - 1
  BY ConstantFacts
<1> HIDE DEF v, n
<1>4. d \in 0 .. WordMod - 1
  BY <1>1, <1>2, <1>3 DEF ImportDefault, Present
<1>5. x \in 0 .. WordMod - 1
  <2> HIDE DEF d
  <2>1. x = IF Present(n.value) THEN n.value ELSE d
    BY DEF ImportValue, d
  <2> QED
    BY <1>1, <1>2, <1>4, <2>1 DEF Present
<1>6. x # NONE
  BY <1>5, NoneIsNoValue
<1>7. e = [v EXCEPT !.default = d, !.raw = Encode(v, x)]
  BY <1>6 DEF Import
<1>8. Encode(v, x) = LittleEndian(x)
  BY <1>1, <1>n DEF Encode, VarOf, Number
<1>9. e.raw = LittleEndian(x) /\ e.default = d
  <2> HIDE DEF e, d, x
  <2> QED
    BY <1>1, <1>7, <1>8 DEF VarOf, VarFields
<1> QED
  BY <1>4, <1>5, <1>9 DEF v, n

LEMMA CreatedMac ==
    ASSUME NEW s \in Schema, Accepted(s), NEW i \in 1 .. Len(s.nodes),
           ~IsGroup(s.nodes[i]), s.nodes[i].type = "mac"
    PROVE  LET n == s.nodes[i]
               e == Import(NewVar(n), n)
           IN  e.raw \in [1 .. MacLen -> Byte] /\ e.default \in [1 .. MacLen -> Byte]
<1> DEFINE n == s.nodes[i]
           v == NewVar(n)
           x == ImportValue(v, n)
           d == ImportDefault(v, n)
           e == Import(v, n)
           S == [1 .. MacLen -> Byte]
<1>1. /\ {n.value, n.default} \ {NONE, BAD} \subseteq Values(n.type)
      /\ VarOf(v, n) /\ v.default = ZeroDefault(n.type)
  BY NodeFacts
<1>2. Values(n.type) = S /\ ZeroDefault(n.type) = Zeros(MacLen)
  BY DEF Values, ZeroDefault, Number
<1>3. Zeros(MacLen) \in S
  BY ZerosFacts, ConstantFacts
<1>s. n.type = "mac" /\ NONE \notin S
  BY NoneIsNoValue
<1> HIDE DEF v, n, S
<1>4. d \in S
  BY <1>1, <1>2, <1>3 DEF ImportDefault, Present
<1>5. x \in S
  <2> HIDE DEF d
  <2>1. x = IF Present(n.value) THEN n.value ELSE d
    BY DEF ImportValue, d
  <2> QED
    BY <1>1, <1>2, <1>4, <2>1 DEF Present
<1>6. x # NONE
  BY <1>5, <1>s
<1>7. e = [v EXCEPT !.default = d, !.raw = Encode(v, x)]
  BY <1>6 DEF Import
<1>8. Encode(v, x) = x
  BY <1>1, <1>s DEF Encode, VarOf, Number
<1>9. e.raw = x /\ e.default = d
  <2> HIDE DEF e, d, x
  <2> QED
    BY <1>1, <1>7, <1>8 DEF VarOf, VarFields
<1> QED
  BY <1>4, <1>5, <1>9 DEF v, n, S

LEMMA PaddedString ==
    ASSUME NEW x \in Seq(Byte), NEW size \in Nat, ~(Len(x) > size)
    PROVE  x \o Zeros(size - Len(x)) \in [1 .. size -> Byte]
<1> DEFINE z == Zeros(size - Len(x))
           y == x \o z
<1>1. Len(x) \in Nat /\ size - Len(x) \in Nat
  OBVIOUS
<1>2. z \in Seq(Byte) /\ Len(z) = size - Len(x)
  <2>1. z \in [1 .. size - Len(x) -> Byte]
    BY <1>1, ZerosFacts
  <2> HIDE DEF z
  <2> QED
    BY <1>1, <2>1
<1> HIDE DEF z
<1>3. y \in Seq(Byte) /\ Len(y) = Len(x) + Len(z)
  BY <1>2, ConcatProperties
<1> HIDE DEF y
<1>4. Len(y) = size
  BY <1>1, <1>2, <1>3
<1>5. y \in [1 .. size -> Byte]
  BY <1>3, <1>4
<1> QED
  BY <1>5 DEF y, z

LEMMA CreatedString ==
    ASSUME NEW s \in Schema, Accepted(s), NEW i \in 1 .. Len(s.nodes),
           ~IsGroup(s.nodes[i]), s.nodes[i].type = "string"
    PROVE  LET n == s.nodes[i]
               e == Import(NewVar(n), n)
           IN  e.raw \in [1 .. n.size -> Byte]
<1> DEFINE n == s.nodes[i]
           v == NewVar(n)
           x == ImportValue(v, n)
           d == ImportDefault(v, n)
           e == Import(v, n)
<1>1. /\ {n.value, n.default} \ {NONE, BAD} \subseteq Values(n.type)
      /\ VarOf(v, n) /\ v.default = ZeroDefault(n.type)
      /\ v.raw = Zeros(MemoryLen(n.type, n.size)) /\ n.size \in Nat
      /\ ~ImportError(v, n)
  BY NodeFacts
<1>2. /\ Values(n.type) = Seq(Byte) /\ ZeroDefault(n.type) = NONE
      /\ MemoryLen(n.type, n.size) = n.size
  BY DEF Values, ZeroDefault, Number, MemoryLen
<1>s. n.type = "string"
  OBVIOUS
<1> HIDE DEF v, n
<1>3. v.type = "string" /\ v.size = n.size /\ DOMAIN v = VarFields
  BY <1>1, <1>s DEF VarOf
<1>4. CASE x = NONE
  <2>1. e = v
    BY <1>4 DEF Import
  <2>2. e.raw = Zeros(n.size)
    BY <1>1, <1>2, <2>1
  <2>3. e.raw \in [1 .. n.size -> Byte]
    BY <1>1, <2>2, ZerosFacts
  <2> QED
    BY <2>3 DEF v, n
<1>5. CASE x # NONE
  <2>1. e = [v EXCEPT !.default = d, !.raw = Encode(v, x)]
    BY <1>5 DEF Import
  <2>2. Encode(v, x) = x \o Zeros(n.size - Len(x))
    BY <1>3 DEF Encode, Number, state_string_copy_to_raw
  <2>3. x \in Seq(Byte)
    <3>1. d = NONE \/ d \in Seq(Byte)
      BY <1>1, <1>2 DEF ImportDefault, Present
    <3>2. x = IF Present(n.value) THEN n.value ELSE d
      BY DEF ImportValue
    <3> HIDE DEF x, d
    <3> QED
      BY <1>1, <1>2, <1>5, <3>1, <3>2 DEF Present
  <2>4. ~(Len(x) > n.size)
    <3>1. ~StringImportError(v, n)
      BY <1>1, <1>3 DEF ImportError
    <3>2. \A y \in {d, x} \ {NONE} : ~(Len(y) > v.size)
      BY <3>1 DEF StringImportError
    <3> HIDE DEF x
    <3>3. x \in {d, x} \ {NONE}
      BY <1>5
    <3> QED
      BY <1>3, <3>2, <3>3
  <2> HIDE DEF x, d, e
  <2>5. e.raw = x \o Zeros(n.size - Len(x))
    BY <1>3, <2>1, <2>2 DEF VarFields
  <2>6. e.raw \in [1 .. n.size -> Byte]
    BY <1>1, <2>3, <2>4, <2>5, PaddedString
  <2> QED
    BY <2>6 DEF e, v, n
<1> QED
  BY <1>4, <1>5

LEMMA CreatedGood ==
    ASSUME NEW s \in Schema, Accepted(s), NEW e \in Created(s), NEW f
    PROVE  GoodVar(f, e)
<1>1. PICK i \in 1 .. Len(s.nodes) :
          /\ ~IsGroup(s.nodes[i]) /\ e = Import(NewVar(s.nodes[i]), s.nodes[i])
  BY DEF Created
<1> DEFINE n == s.nodes[i]
<1>2. VarOf(NewVar(n), n)
  BY <1>1, NodeFacts
<1>3. e.type = n.type /\ e.size = n.size
  <2> DEFINE v == NewVar(n)
  <2>1. e = v \/ e = [v EXCEPT !.default = ImportDefault(v, n),
                               !.raw = Encode(v, ImportValue(v, n))]
    BY <1>1 DEF Import
  <2> HIDE DEF v
  <2> QED
    BY <1>2, <2>1 DEF VarOf, VarFields, v
<1>4. ASSUME e.type \in Number
      PROVE  e.raw \in [1 .. Word -> Byte] /\ e.default \in 0 .. WordMod - 1 /\ IsWord(e.raw)
  <2>1. PICK x, d : /\ x \in 0 .. WordMod - 1 /\ d \in 0 .. WordMod - 1
                    /\ e.raw = LittleEndian(x) /\ e.default = d
    BY <1>1, <1>3, <1>4, CreatedNumber
  <2>2. x \in Nat
    BY <2>1, ConstantFacts
  <2> QED
    BY <2>1, <2>2, LittleEndianBytes DEF IsWord
<1>5. ASSUME e.type = "mac"
      PROVE  e.raw \in [1 .. MacLen -> Byte] /\ e.default \in [1 .. MacLen -> Byte]
  BY <1>1, <1>3, <1>5, CreatedMac
<1>6. ASSUME e.type = "string"
      PROVE  e.raw \in [1 .. e.size -> Byte]
  BY <1>1, <1>3, <1>6, CreatedString
<1> QED
  BY <1>4, <1>5, <1>6 DEF GoodVar

LEMMA GoodHasLength ==
    ASSUME NEW v, GoodVar("raw", v), v.type \in Type, v.size \in Nat
    PROVE  Len(v.raw) \in Nat
<1>1. \E n \in Nat : v.raw \in [1 .. n -> Byte]
  BY ConstantFacts DEF GoodVar, Type, Number
<1> QED
  BY <1>1

-----------------------------------------------------------------------------
(* An image that is too short *)

\* What a variable has that the image reaches.
LEMMA UnpackedVar ==
    ASSUME NEW sv, NEW img, DOMAIN sv = VarFields, sv.start \in Nat, sv.size \in Nat,
           Len(sv.raw) \in Nat, ~EndsBehind(sv, img)
    PROVE  SubSeq(UnpackVar(sv, img).raw, 1, sv.size) =
               [b \in 1 .. sv.size |-> img.data[sv.start + b]]
<1> DEFINE a == SubSeq(img.data, sv.start + 1, sv.start + sv.size)
           c == SubSeq(sv.raw, sv.size + 1, Len(sv.raw))
           S == {img.data[i] : i \in sv.start + 1 .. sv.start + sv.size}
                  \cup {sv.raw[i] : i \in sv.size + 1 .. Len(sv.raw)}
<1>1. UnpackVar(sv, img).raw = a \o c
  BY DEF UnpackVar, VarFields
<1>2. /\ sv.start + 1 \in Int /\ sv.start + sv.size \in Int
      /\ sv.size + 1 \in Int /\ Len(sv.raw) \in Int
  OBVIOUS
<1>3. \A i \in sv.start + 1 .. sv.start + sv.size : img.data[i] \in S
  OBVIOUS
<1>4. \A i \in sv.size + 1 .. Len(sv.raw) : sv.raw[i] \in S
  OBVIOUS
<1> HIDE DEF S
<1>5. /\ a \in Seq(S) /\ Len(a) = sv.size
      /\ \A i \in 1 .. sv.size : a[i] = img.data[sv.start + i]
  <2> DEFINE lo == sv.start + 1
             hi == sv.start + sv.size
  <2>1. lo \in Int /\ hi \in Int /\ \A i \in lo .. hi : img.data[i] \in S
    BY <1>2, <1>3
  <2> HIDE DEF lo, hi
  <2>2. /\ SubSeq(img.data, lo, hi) \in Seq(S)
        /\ Len(SubSeq(img.data, lo, hi)) = IF lo <= hi THEN hi - lo + 1 ELSE 0
        /\ \A i \in 1 .. hi - lo + 1 : SubSeq(img.data, lo, hi)[i] = img.data[lo + i - 1]
    BY <2>1, SubSeqProperties
  <2>3. /\ a \in Seq(S) /\ Len(a) = IF lo <= hi THEN hi - lo + 1 ELSE 0
        /\ \A i \in 1 .. hi - lo + 1 : a[i] = img.data[lo + i - 1]
    BY <2>2 DEF lo, hi
  <2> HIDE DEF a
  <2>4. hi - lo + 1 = sv.size /\ \A i \in 1 .. sv.size : lo + i - 1 = sv.start + i
    BY DEF lo, hi
  <2>5. Len(a) = sv.size
    BY <2>1, <2>3, <2>4
  <2> QED
    BY <2>3, <2>4, <2>5
<1>6. c \in Seq(S)
  BY <1>2, <1>4, SubSeqProperties
<1> HIDE DEF a, c
<1>7. \A i \in 1 .. sv.size : (a \o c)[i] = img.data[sv.start + i]
  <2>1. \A i \in 1 .. Len(a) + Len(c) : (a \o c)[i] =
            IF i <= Len(a) THEN a[i] ELSE c[i - Len(a)]
    BY <1>5, <1>6, ConcatProperties
  <2>2. Len(c) \in Nat
    BY <1>6
  <2> QED
    BY <1>5, <2>1, <2>2
<1> DEFINE r == a \o c
           t == SubSeq(r, 1, sv.size)
<1> HIDE DEF r
<1>8. \A i \in 1 .. sv.size : r[i] = img.data[sv.start + i]
  BY <1>7 DEF r
<1>9. \A i \in 1 .. sv.size : r[i] \in S
  BY <1>8, <1>5
<1>10. /\ t \in Seq(S)
       /\ Len(t) = IF 1 <= sv.size THEN sv.size - 1 + 1 ELSE 0
       /\ \A i \in 1 .. sv.size - 1 + 1 : t[i] = r[1 + i - 1]
  BY <1>9, SubSeqProperties
<1> HIDE DEF t
<1>11. Len(t) = sv.size /\ \A i \in 1 .. sv.size : t[i] = r[i]
  <2>1. sv.size - 1 + 1 = sv.size /\ \A i \in 1 .. sv.size : 1 + i - 1 = i
    OBVIOUS
  <2>2. Len(t) = sv.size
    BY <1>10
  <2> QED
    BY <1>10, <2>1, <2>2
<1>12. t = [b \in 1 .. sv.size |-> t[b]]
  BY <1>10, <1>11
<1>13. \A b \in 1 .. sv.size : t[b] = img.data[sv.start + b]
  BY <1>8, <1>11
<1>14. t = [b \in 1 .. sv.size |-> img.data[sv.start + b]]
  BY <1>12, <1>13
<1> QED
  BY <1>1, <1>14 DEF t, r

\* m has the data of the image up to some variable, and is l behind it.
LoadedPrefix(m, l, img) ==
    \E n \in 0 .. Len(m) - 1 : \A i \in DOMAIN m :
        IF i <= n
          THEN SubSeq(m[i].raw, 1, m[i].size) =
               [b \in 1 .. m[i].size |-> img.data[m[i].start + b]]
          ELSE m[i] = l[i]

LEMMA UnpackIsPrefix ==
    ASSUME NEW l, NEW img, Apart(l), img.data_len \in Nat,
           \A i \in DOMAIN l : Len(l[i].raw) \in Nat,
           NEW m, m = [i \in DOMAIN l |-> UnpackVar(l[i], img)],
           NEW j \in DOMAIN l, EndsBehind(l[j], img)
    PROVE  LoadedPrefix(m, l, img)
<1> DEFINE B == {i \in DOMAIN l : EndsBehind(l[i], img)}
           n == Min(B) - 1
<1>1. /\ Len(l) \in Nat /\ DOMAIN l = 1 .. Len(l) /\ DOMAIN m = DOMAIN l
      /\ Len(m) = Len(l)
  BY DEF Apart
<1>2. B \subseteq Nat /\ B # {}
  BY <1>1
<1>3. Min(B) \in B /\ \A i \in B : Min(B) <= i
  BY <1>2, MinFacts
<1> HIDE DEF B
<1>4. Min(B) \in DOMAIN l /\ EndsBehind(l[Min(B)], img)
  BY <1>3 DEF B
<1>5. n \in 0 .. Len(m) - 1 /\ Min(B) = n + 1
  BY <1>1, <1>4
<1> HIDE DEF n
<1>6. ASSUME NEW i \in DOMAIN m, i <= n
      PROVE  SubSeq(m[i].raw, 1, m[i].size) =
                 [b \in 1 .. m[i].size |-> img.data[m[i].start + b]]
  <2>1. i \in DOMAIN l /\ m[i] = UnpackVar(l[i], img)
    BY <1>1
  <2>2. /\ DOMAIN l[i] = VarFields /\ l[i].start \in Nat /\ l[i].size \in Nat
        /\ Len(l[i].raw) \in Nat
    BY <2>1 DEF Apart
  <2>3. ~EndsBehind(l[i], img)
    <3>1. i \notin B
      BY <1>1, <1>3, <1>5, <1>6
    <3> QED
      BY <2>1, <3>1 DEF B
  <2>4. m[i].size = l[i].size /\ m[i].start = l[i].start
    BY <2>1, <2>2 DEF UnpackVar, VarFields
  <2> DEFINE v == l[i]
  <2> HIDE DEF v
  <2>5. SubSeq(UnpackVar(v, img).raw, 1, v.size) =
            [b \in 1 .. v.size |-> img.data[v.start + b]]
    BY <2>2, <2>3, UnpackedVar DEF v
  <2> QED
    BY <2>1, <2>4, <2>5 DEF v
<1>7. ASSUME NEW i \in DOMAIN m, ~(i <= n)
      PROVE  m[i] = l[i]
  <2>1. i \in DOMAIN l /\ m[i] = UnpackVar(l[i], img) /\ i \in Nat
    BY <1>1
  <2> DEFINE h == Min(B)
  <2> HIDE DEF h
  <2>2. h \in DOMAIN l /\ EndsBehind(l[h], img) /\ (i = h \/ h < i)
    BY <1>1, <1>4, <1>5, <1>7, <2>1 DEF h
  <2>3. CASE i = h
    BY <2>1, <2>2, <2>3 DEF UnpackVar
  <2>4. CASE h < i
    <3>1. l[h].start + l[h].size <= l[i].start
      BY <2>1, <2>2, <2>4 DEF Apart
    <3>2. /\ l[h].start \in Nat /\ l[h].size \in Nat
          /\ l[i].start \in Nat /\ l[i].size \in Nat
      BY <2>1, <2>2 DEF Apart
    <3>3. EndsBehind(l[i], img)
      BY <2>2, <3>1, <3>2 DEF EndsBehind
    <3> QED
      BY <2>1, <3>3 DEF UnpackVar
  <2> QED
    BY <2>2, <2>3, <2>4
<1> QED
  BY <1>5, <1>6, <1>7 DEF LoadedPrefix

\* Every state that is accepted has a variable: the data of an image ends with
\* the last one (backend_format_raw_pack).
NoEmptyState == \A s \in Schema : Accepted(s) => Len(Variables(s)) > 0

\* What is loaded over are the variables as they were created, and the length
\* in the header of the image is a number.
PartialInv ==
    /\ VarsInv
    /\ phase # "off" => Len(svs) > 0
    /\ phase = "created" => svs = Variables(schema) /\ Accepted(schema)
    /\ fmt = "raw" /\ image # NONE => image.data_len \in Nat
    /\ PartialLoadIsPrefix

LEMMA LoadKeepsPartial ==
    ASSUME PartialInv, VarsInv', state_do_load
    PROVE  PartialInv'
<1>1. /\ phase = "created" /\ schema \in Schema /\ Accepted(schema)
      /\ svs = Variables(schema) /\ Apart(svs) /\ Len(svs) > 0
      /\ UNCHANGED <<fmt, schema, image, kept>> /\ phase' = "loaded"
  BY DEF PartialInv, VarsInv, state_do_load
<1>2. Len(svs') > 0
  <2>1. SameLayout(svs, svs')
    BY LoadSameLayout DEF PartialInv
  <2> QED
    BY <1>1, <2>1 DEF SameLayout
<1>3. ASSUME fmt = "raw", ret' = "ENOSPC"
      PROVE  /\ dirty'
             /\ LoadedPrefix(svs', svs, image)
  <2>1. /\ image # NONE
        /\ Loaded(backend_format_raw_unpack(svs, image))
    BY <1>3 DEF state_do_load, Loaded
  <2>2. /\ dirty' /\ svs' = [i \in DOMAIN svs |-> UnpackVar(svs[i], image)]
        /\ \E i \in DOMAIN svs : EndsBehind(svs[i], image)
    BY <1>3, <2>1 DEF Loaded, backend_format_raw_unpack
  <2>3. PICK j \in DOMAIN svs : EndsBehind(svs[j], image)
    BY <2>2
  <2>4. image.data_len \in Nat
    BY <1>3, <2>1 DEF PartialInv
  <2>5. ASSUME NEW i \in DOMAIN svs
        PROVE  Len(svs[i].raw) \in Nat
    <3>1. svs \in Seq(Created(schema))
      BY <1>1, VariablesList DEF ListOf
    <3>2. svs[i] \in Created(schema)
      BY <3>1, <2>5
    <3> QED
      <4>1. GoodVar("raw", svs[i])
        BY <1>1, <3>2, CreatedGood
      <4> QED
        BY <1>1, <4>1, GoodHasLength DEF Apart
  <2> QED
    BY <1>1, <2>2, <2>3, <2>4, <2>5, UnpackIsPrefix
<1>4. PartialLoadIsPrefix'
  BY <1>1, <1>3 DEF PartialLoadIsPrefix, LoadedPrefix
<1> QED
  BY <1>1, <1>2, <1>4 DEF PartialInv

LEMMA SaveKeepsPartial ==
    ASSUME PartialInv, VarsInv', state_save
    PROVE  PartialInv'
<1>1. phase # "off" /\ Apart(svs) /\ Len(svs) > 0
  BY DEF PartialInv, VarsInv, state_save
<1>2. ASSUME fmt = "raw"
      PROVE  image'.data_len \in Nat
  <2>1. Len(svs) \in DOMAIN svs
    BY <1>1 DEF Apart
  <2>2. DataSize(svs) = (svs[Len(svs)].start + svs[Len(svs)].size) % AddrMod
    BY DEF DataSize, Last
  <2>3. svs[Len(svs)].start + svs[Len(svs)].size \in Nat
    BY <1>1, <2>1 DEF Apart
  <2>4. AddrMod \in Nat \ {0} /\ LenMod \in Nat \ {0}
    BY VariablesAssumption
  <2>5. DataSize(svs) \in Nat
    BY <2>2, <2>3, <2>4
  <2>6. image'.data_len = DataSize(svs) % LenMod
    BY <1>2 DEF state_save, backend_format_raw_pack
  <2> QED
    BY <2>4, <2>5, <2>6
<1>3. phase' = "off" /\ fmt' = fmt
  BY DEF state_save, Off
<1> QED
  BY <1>2, <1>3 DEF PartialInv, PartialLoadIsPrefix

\* In every run of every state with a variable: an image that is too short is
\* loaded up to some variable, the rest keep their defaults, and the state is
\* dirty (backend_format_raw_unpack, state_do_load).
THEOREM PartialLoadIsPrefixHolds ==
    ASSUME NoEmptyState
    PROVE  VarsSpec => []PartialLoadIsPrefix
<1>1. VarsInit /\ VarsInv => PartialInv
  BY DEF VarsInit, PartialInv, PartialLoadIsPrefix
<1>2. ASSUME PartialInv, VarsInv', [VarsNext]_stateVars
      PROVE  PartialInv'
  <2> USE <1>2
  <2>1. CASE UNCHANGED stateVars
    BY <2>1 DEF PartialInv, PartialLoadIsPrefix, stateVars, run
  <2>2. ASSUME NEW s \in Schema, state_new_from_node(s)
        PROVE  PartialInv'
    BY <2>2 DEF PartialInv, PartialLoadIsPrefix, state_new_from_node, NoEmptyState
  <2>3. CASE state_do_load
    BY <2>3, LoadKeepsPartial
  <2>4. ASSUME NEW k \in Settable, NEW in \in Input(svs[k].type), state_set_var(k, in)
        PROVE  PartialInv'
    <3>1. svs' = svs \/ svs' = [svs EXCEPT ![k] = SetValue(svs[k], in)]
      BY <2>4 DEF state_set_var
    <3>2. Len(svs') = Len(svs)
      <4>1. Len(svs) \in Nat /\ DOMAIN svs = 1 .. Len(svs)
        BY DEF PartialInv, VarsInv, Apart
      <4>2. DOMAIN svs' = DOMAIN svs
        BY <3>1
      <4> QED
        BY <3>1, <4>1, <4>2
    <3> QED
      BY <2>4, <3>2 DEF PartialInv, PartialLoadIsPrefix, state_set_var
  <2>5. ASSUME NEW k \in Settable, NEW in \in Input(svs[k].type), SetFails(k, in)
        PROVE  PartialInv'
    BY <2>5 DEF PartialInv, PartialLoadIsPrefix, SetFails, Off
  <2>6. CASE state_save
    BY <2>6, SaveKeepsPartial
  <2>7. CASE Exit
    BY <2>7 DEF PartialInv, PartialLoadIsPrefix, Exit, Off
  <2> QED
    BY <2>1, <2>2, <2>3, <2>4, <2>5, <2>6, <2>7 DEF VarsNext
<1>3. PartialInv => PartialLoadIsPrefix
  BY DEF PartialInv
<1> QED
  BY <1>1, <1>2, <1>3, VarsInvHolds, PTL DEF VarsSpec

-----------------------------------------------------------------------------
(* The variables in a run *)

\* L are the variables of a run with the state node s.
StateOf(f, s, L) ==
    /\ s \in Schema /\ Accepted(s)
    /\ SameLayout(Variables(s), L)
    /\ \A i \in DOMAIN L : GoodVar(f, L[i])

LEMMA StateFacts ==
    ASSUME NEW f, NEW s, NEW L, StateOf(f, s, L)
    PROVE  /\ Apart(L) /\ Len(s.nodes) \in Nat /\ DOMAIN s.nodes = 1 .. Len(s.nodes)
           /\ \A i \in DOMAIN L :
                 \E q \in 1 .. Len(s.nodes) : ~IsGroup(s.nodes[q]) /\ VarOf(L[i], s.nodes[q])
           /\ \A i, j \in DOMAIN L : L[i].name = L[j].name => i = j
           /\ \A q \in 1 .. Len(s.nodes) : ~IsGroup(s.nodes[q]) =>
                 \E i \in DOMAIN L : L[i].name = s.nodes[q].name
           /\ \A i \in DOMAIN L : L[i].start + L[i].size < AddrMod
<1> DEFINE V == Variables(s)
<1>1. s \in Schema /\ Accepted(s) /\ SameLayout(V, L)
  BY DEF StateOf
<1>2. ListOf(s, Len(s.nodes), V) /\ Apart(V)
  BY <1>1, VariablesList, NeighboursSuffice
<1> HIDE DEF V
<1>3. Apart(L)
  BY <1>1, <1>2, ApartKept
<1>4. Len(s.nodes) \in Nat /\ DOMAIN s.nodes = 1 .. Len(s.nodes)
  BY <1>1, VariablesAssumption DEF IsStateNode
<1>5. /\ V \in Seq(Created(s)) /\ DOMAIN V = 1 .. Len(V) /\ DOMAIN L = DOMAIN V
      /\ \A i \in DOMAIN L : V[i] \in Created(s)
  BY <1>1, <1>2 DEF ListOf, SameLayout
<1>6. ASSUME NEW i \in DOMAIN L
      PROVE  /\ \E q \in 1 .. Len(s.nodes) : ~IsGroup(s.nodes[q]) /\ VarOf(L[i], s.nodes[q])
             /\ L[i].start + L[i].size < AddrMod
  <2>1. /\ V[i].start + V[i].size < AddrMod
        /\ \E q \in 1 .. Len(s.nodes) : ~IsGroup(s.nodes[q]) /\ VarOf(V[i], s.nodes[q])
    BY <1>1, <1>5, CreatedFacts
  <2>2. PICK q \in 1 .. Len(s.nodes) : ~IsGroup(s.nodes[q]) /\ VarOf(V[i], s.nodes[q])
    BY <2>1
  <2>3. /\ DOMAIN L[i] = DOMAIN V[i] /\ L[i].type = V[i].type
        /\ L[i].start = V[i].start /\ L[i].size = V[i].size
        /\ L[i].name = V[i].name /\ L[i].names = V[i].names
    BY <1>1, <1>5 DEF SameLayout
  <2>4. VarOf(L[i], s.nodes[q])
    BY <2>2, <2>3 DEF VarOf
  <2> QED
    BY <2>1, <2>2, <2>3, <2>4
<1>7. \A i \in DOMAIN L : L[i].name = V[i].name
  BY <1>1, <1>5 DEF SameLayout
<1>8. \A i, j \in DOMAIN L : L[i].name = L[j].name => i = j
  <2>1. \A i, j \in 1 .. Len(V) : V[i].name = V[j].name => i = j
    BY <1>2 DEF ListOf
  <2>2. ASSUME NEW i \in DOMAIN L, NEW j \in DOMAIN L, L[i].name = L[j].name
        PROVE  i = j
    <3>1. i \in 1 .. Len(V) /\ j \in 1 .. Len(V) /\ V[i].name = V[j].name
      BY <1>5, <1>7, <2>2
    <3> QED
      BY <2>1, <3>1
  <2> QED
    BY <2>2
<1>9. ASSUME NEW q \in 1 .. Len(s.nodes), ~IsGroup(s.nodes[q])
      PROVE  \E i \in DOMAIN L : L[i].name = s.nodes[q].name
  <2>1. PICK i \in 1 .. Len(V) : V[i].name = s.nodes[q].name
    BY <1>2, <1>9 DEF ListOf
  <2>2. i \in DOMAIN L /\ L[i].name = V[i].name
    BY <1>5, <1>7
  <2> QED
    BY <2>1, <2>2
<1> QED
  BY <1>3, <1>4, <1>6, <1>8, <1>9

\* The size of a variable in the image and its length in memory.
LEMMA MemoryOf ==
    ASSUME NEW f, NEW s, NEW L, StateOf(f, s, L), NEW i \in DOMAIN L
    PROVE  LET v == L[i]
               M == MemoryLen(v.type, v.size)
           IN  /\ DOMAIN v = VarFields /\ v.type \in Type
               /\ v.start \in Nat /\ v.size \in Nat /\ M \in Nat /\ v.size <= M
               /\ f = "raw" => v.raw \in [1 .. M -> Byte]
               /\ v.type # "uint8" => v.size = M
               /\ v.type = "uint8" => v.size = 1 /\ M = Word
<1> DEFINE v == L[i]
           M == MemoryLen(v.type, v.size)
<1>1. PICK q \in 1 .. Len(s.nodes) : ~IsGroup(s.nodes[q]) /\ VarOf(L[i], s.nodes[q])
  BY StateFacts
<1>2. /\ DOMAIN v = VarFields /\ v.type \in Type
      /\ v.start \in Nat /\ v.size \in Nat
  BY StateFacts DEF Apart
<1>3. v.size = VarSize(s.nodes[q]) /\ s.nodes[q].type = v.type /\ s.nodes[q].size = v.size
  BY <1>1 DEF VarOf
<1>4. GoodVar(f, v)
  BY DEF StateOf
<1> HIDE DEF v
<1>5. /\ v.type = "uint8" => v.size = 1 /\ M = Word
      /\ v.type \in {"uint32", "enum32"} => v.size = Word /\ M = Word
      /\ v.type = "mac" => v.size = MacLen /\ M = MacLen
      /\ v.type = "string" => M = v.size
  BY <1>3 DEF VarSize, MemoryLen, Number
<1>6. /\ v.type # "uint8" => v.size = M
      /\ M \in Nat /\ v.size <= M
  BY <1>2, <1>5, ConstantFacts DEF Type
<1>7. f = "raw" => v.raw \in [1 .. M -> Byte]
  BY <1>2, <1>4, <1>5 DEF GoodVar, Type, Number
<1> QED
  BY <1>2, <1>5, <1>6, <1>7 DEF v

-----------------------------------------------------------------------------
(* What raw packs is what it unpacks *)

\* The bytes of sv, the first ones from the image.
UnpackedBytes(sv, img, M) ==
    [b \in 1 .. M |-> IF b <= sv.size THEN img.data[sv.start + b] ELSE sv.raw[b]]

LEMMA UnpackedRaw ==
    ASSUME NEW sv, NEW img, NEW M \in Nat, DOMAIN sv = VarFields,
           sv.start \in Nat, sv.size \in Nat, sv.raw \in [1 .. M -> Byte], sv.size <= M,
           ~EndsBehind(sv, img)
    PROVE  UnpackVar(sv, img).raw = UnpackedBytes(sv, img, M)
<1> DEFINE size == sv.size
           start == sv.start
           a == SubSeq(img.data, start + 1, start + size)
           c == SubSeq(sv.raw, size + 1, M)
           G == {img.data[i] : i \in start + 1 .. start + size} \cup Byte
           r == a \o c
<1>1. Len(sv.raw) = M
  OBVIOUS
<1>2. UnpackVar(sv, img).raw = r
  BY <1>1 DEF UnpackVar, VarFields
<1>3. size \in Nat /\ start \in Nat /\ M \in Nat /\ size <= M
  OBVIOUS
<1>4. \A i \in start + 1 .. start + size : img.data[i] \in G
  OBVIOUS
<1>5. \A i \in size + 1 .. M : sv.raw[i] \in G
  <2>1. \A i \in size + 1 .. M : i \in 1 .. M
    BY <1>3
  <2>2. \A i \in 1 .. M : sv.raw[i] \in Byte
    OBVIOUS
  <2> QED
    BY <2>1, <2>2
<1> HIDE DEF G, size, start
<1>6. /\ a \in Seq(G) /\ Len(a) = size /\ \A i \in 1 .. size : a[i] = img.data[start + i]
  <2> DEFINE lo == start + 1
             hi == start + size
  <2>1. lo \in Int /\ hi \in Int /\ \A i \in lo .. hi : img.data[i] \in G
    BY <1>3, <1>4
  <2> HIDE DEF lo, hi
  <2>2. /\ SubSeq(img.data, lo, hi) \in Seq(G)
        /\ Len(SubSeq(img.data, lo, hi)) = IF lo <= hi THEN hi - lo + 1 ELSE 0
        /\ \A i \in 1 .. hi - lo + 1 : SubSeq(img.data, lo, hi)[i] = img.data[lo + i - 1]
    BY <2>1, SubSeqProperties
  <2>3. /\ a \in Seq(G) /\ Len(a) = IF lo <= hi THEN hi - lo + 1 ELSE 0
        /\ \A i \in 1 .. hi - lo + 1 : a[i] = img.data[lo + i - 1]
    BY <2>2 DEF lo, hi
  <2> HIDE DEF a
  <2>4. hi - lo + 1 = size /\ \A i \in 1 .. size : lo + i - 1 = start + i
    BY <1>3 DEF lo, hi
  <2>5. Len(a) = size
    BY <1>3, <2>1, <2>3, <2>4
  <2> QED
    BY <2>3, <2>4, <2>5
<1>7. /\ c \in Seq(G) /\ Len(c) = M - size
      /\ \A i \in 1 .. M - size : c[i] = sv.raw[size + i]
  <2> DEFINE lo == size + 1
             w == sv.raw
  <2>1. lo \in Int /\ M \in Int /\ \A i \in lo .. M : w[i] \in G
    BY <1>3, <1>5
  <2> HIDE DEF lo, w
  <2>2. /\ SubSeq(w, lo, M) \in Seq(G)
        /\ Len(SubSeq(w, lo, M)) = IF lo <= M THEN M - lo + 1 ELSE 0
        /\ \A i \in 1 .. M - lo + 1 : SubSeq(w, lo, M)[i] = w[lo + i - 1]
    BY <2>1, SubSeqProperties
  <2>3. /\ c \in Seq(G) /\ Len(c) = IF lo <= M THEN M - lo + 1 ELSE 0
        /\ \A i \in 1 .. M - lo + 1 : c[i] = w[lo + i - 1]
    BY <2>2 DEF lo, w
  <2> HIDE DEF c
  <2>4. M - lo + 1 = M - size /\ \A i \in 1 .. M - size : lo + i - 1 = size + i
    BY <1>3 DEF lo
  <2>5. Len(c) = M - size
    BY <1>3, <2>3 DEF lo
  <2> QED
    BY <2>3, <2>4, <2>5 DEF w
<1> HIDE DEF a, c
<1>8. /\ r \in Seq(G) /\ Len(r) = Len(a) + Len(c)
      /\ \A i \in 1 .. Len(a) + Len(c) : r[i] = IF i <= Len(a) THEN a[i] ELSE c[i - Len(a)]
  BY <1>6, <1>7, ConcatProperties
<1> HIDE DEF r
<1>9. Len(r) = M /\ Len(a) + Len(c) = M
  BY <1>3, <1>6, <1>7, <1>8
<1>10. ASSUME NEW b \in 1 .. M
       PROVE  r[b] = IF b <= size THEN img.data[start + b] ELSE sv.raw[b]
  <2>1. CASE b <= size
    <3>1. b \in 1 .. size
      BY <1>3, <2>1
    <3> QED
      BY <1>6, <1>8, <1>9, <2>1, <3>1
  <2>2. CASE ~(b <= size)
    <3>1. b - size \in 1 .. M - size /\ size + (b - size) = b
      BY <1>3, <2>2
    <3>2. r[b] = c[b - size]
      BY <1>6, <1>8, <1>9, <2>2
    <3> QED
      BY <1>7, <2>2, <3>1, <3>2
  <2> QED
    BY <2>1, <2>2
<1>11. r = [b \in 1 .. M |-> r[b]]
  BY <1>8, <1>9
<1>12. r = [b \in 1 .. M |-> IF b <= size THEN img.data[start + b] ELSE sv.raw[b]]
  BY <1>10, <1>11
<1> QED
  BY <1>2, <1>12 DEF UnpackedBytes, size, start

LEMMA PackedData ==
    ASSUME NEW s, NEW L, StateOf("raw", s, L), Len(L) > 0
    PROVE  /\ DataSize(L) \in Nat /\ RawData(L) \in [1 .. DataSize(L) -> Byte]
           /\ \A k \in DOMAIN L :
                 /\ L[k].start + L[k].size <= DataSize(L)
                 /\ \A b \in 1 .. L[k].size : RawData(L)[L[k].start + b] = L[k].raw[b]
<1> DEFINE N == Len(L)
           D == DataSize(L)
<1>1. Apart(L) /\ N \in Nat /\ N > 0 /\ DOMAIN L = 1 .. N /\ N \in DOMAIN L
  BY StateFacts DEF Apart
<1>2. \A k \in DOMAIN L : L[k].start \in Nat /\ L[k].size \in Nat
  BY <1>1 DEF Apart
<1>3. D = L[N].start + L[N].size
  <2> DEFINE e == L[N].start + L[N].size
  <2>1. D = e % AddrMod
    BY DEF DataSize, Last
  <2>2. e \in Nat /\ e < AddrMod /\ AddrMod \in Nat \ {0}
    <3>1. e < AddrMod
      BY <1>1, StateFacts
    <3>2. L[N].start \in Nat /\ L[N].size \in Nat
      BY <1>1, <1>2
    <3> QED
      BY <3>1, <3>2, ConstantFacts
  <2> HIDE DEF e
  <2>3. e % AddrMod = e
    BY <2>2
  <2> QED
    BY <2>1, <2>3 DEF e
<1>4. D \in Nat
  BY <1>1, <1>2, <1>3
<1> HIDE DEF D, N
<1>5. ASSUME NEW k \in DOMAIN L
      PROVE  L[k].start + L[k].size <= D
  <2>1. L[k].start \in Nat /\ L[k].size \in Nat /\ L[N].start \in Nat /\ L[N].size \in Nat
    BY <1>1, <1>2
  <2>2. k = N \/ L[k].start + L[k].size <= L[N].start
    BY <1>1 DEF Apart
  <2> QED
    BY <1>3, <2>1, <2>2
<1>6. ASSUME NEW k \in DOMAIN L, NEW i \in 1 .. D, Covers(L[k], i),
             NEW j \in DOMAIN L, Covers(L[j], i)
      PROVE  j = k
  <2>1. /\ L[k].start \in Nat /\ L[k].size \in Nat /\ L[j].start \in Nat /\ L[j].size \in Nat
        /\ k \in Nat /\ j \in Nat /\ i \in Nat
    BY <1>1, <1>2, <1>4
  <2>2. /\ k < j => L[k].start + L[k].size <= L[j].start
        /\ j < k => L[j].start + L[j].size <= L[k].start
    BY <1>1 DEF Apart
  <2>3. /\ L[k].start < i /\ i <= L[k].start + L[k].size
        /\ L[j].start < i /\ i <= L[j].start + L[j].size
    BY <1>6 DEF Covers
  <2>4. ~(k < j)
    BY <2>1, <2>2, <2>3
  <2>5. ~(j < k)
    BY <2>1, <2>2, <2>3
  <2> QED
    BY <2>1, <2>4, <2>5
<1> DEFINE by(i) == {k \in DOMAIN L : Covers(L[k], i)}
           Of(i) == L[CHOOSE k \in by(i) : \A l \in by(i) : l <= k]
           R == RawData(L)
<1>7. R = [i \in 1 .. D |-> IF by(i) = {} THEN 0 ELSE Of(i).raw[i - Of(i).start]]
  BY DEF RawData, D
<1>8. ASSUME NEW k \in DOMAIN L, NEW i \in 1 .. D, Covers(L[k], i)
      PROVE  R[i] = L[k].raw[i - L[k].start]
  <2>1. by(i) = {k}
    BY <1>6, <1>8
  <2>2. k <= k
    BY <1>1
  <2>3. (CHOOSE h \in by(i) : \A l \in by(i) : l <= h) = k
    <3> HIDE DEF by
    <3> QED
      BY <2>1, <2>2
  <2>4. Of(i) = L[k] /\ by(i) # {}
    BY <2>1, <2>3
  <2> HIDE DEF by, Of, R
  <2> QED
    BY <1>7, <2>4
<1>9. ASSUME NEW k \in DOMAIN L, NEW b \in 1 .. L[k].size
      PROVE  /\ L[k].raw[b] \in Byte
  <2>1. /\ L[k].raw \in [1 .. MemoryLen(L[k].type, L[k].size) -> Byte]
        /\ MemoryLen(L[k].type, L[k].size) \in Nat
        /\ L[k].size <= MemoryLen(L[k].type, L[k].size) /\ L[k].size \in Nat
    BY MemoryOf
  <2>2. b \in 1 .. MemoryLen(L[k].type, L[k].size)
    BY <2>1
  <2> QED
    BY <2>1, <2>2
<1>10. ASSUME NEW k \in DOMAIN L, NEW b \in 1 .. L[k].size
       PROVE  R[L[k].start + b] = L[k].raw[b]
  <2> DEFINE i == L[k].start + b
  <2>1. L[k].start \in Nat /\ L[k].size \in Nat /\ L[k].start + L[k].size <= D /\ b \in Nat
    BY <1>2, <1>5
  <2>2. i \in 1 .. D /\ Covers(L[k], i) /\ i - L[k].start = b
    BY <1>4, <2>1 DEF Covers
  <2> HIDE DEF i
  <2>3. R[i] = L[k].raw[i - L[k].start]
    BY <1>8, <2>2
  <2> QED
    BY <2>2, <2>3 DEF i
<1>11. ASSUME NEW i \in 1 .. D
       PROVE  R[i] \in Byte
  <2>1. CASE by(i) = {}
    <3>1. R[i] = 0
      <4> HIDE DEF by, Of, R
      <4> QED
        BY <1>7, <2>1
    <3> QED
      BY <3>1, ConstantFacts DEF Byte
  <2>2. CASE by(i) # {}
    <3>1. PICK k \in DOMAIN L : Covers(L[k], i)
      BY <2>2
    <3>2. R[i] = L[k].raw[i - L[k].start]
      BY <1>8, <3>1
    <3>3. i - L[k].start \in 1 .. L[k].size
      BY <1>2, <1>4, <3>1 DEF Covers
    <3> QED
      BY <1>9, <3>2, <3>3
  <2> QED
    BY <2>1, <2>2
<1>12. R \in [1 .. D -> Byte]
  <2>1. R = [i \in 1 .. D |-> R[i]]
    BY <1>7
  <2> HIDE DEF R
  <2> QED
    BY <1>11, <2>1
<1> QED
  BY <1>4, <1>5, <1>10, <1>12 DEF D

LEMMA UnpackedFields ==
    ASSUME NEW sv, NEW img, DOMAIN sv = VarFields
    PROVE  LET x == UnpackVar(sv, img)
           IN  DOMAIN x = VarFields /\ x.type = sv.type /\ x.size = sv.size
               /\ x.start = sv.start /\ x.name = sv.name /\ x.names = sv.names
               /\ x.default = sv.default /\ x.text = sv.text
BY DEF UnpackVar, VarFields

\* An image that a state has packed.
IsRawImage(img, t, L) ==
    /\ StateOf("raw", t, L) /\ Len(L) > 0
    /\ img = backend_format_raw_pack(L, t.magic)

LEMMA RawImageFacts ==
    ASSUME NEW img, NEW t, NEW L, IsRawImage(img, t, L)
    PROVE  /\ DataSize(L) \in Nat /\ img.data \in [1 .. DataSize(L) -> Byte]
           /\ Len(img.data) = DataSize(L)
           /\ img.data_crc = img.data /\ img.magic = t.magic
           /\ img.data_len \in Nat /\ img.data_len = DataSize(L) % LenMod
           /\ \A k \in DOMAIN L :
                 /\ L[k].start + L[k].size <= DataSize(L)
                 /\ \A b \in 1 .. L[k].size : img.data[L[k].start + b] = L[k].raw[b]
<1>1. /\ DataSize(L) \in Nat /\ RawData(L) \in [1 .. DataSize(L) -> Byte]
      /\ \A k \in DOMAIN L :
            /\ L[k].start + L[k].size <= DataSize(L)
            /\ \A b \in 1 .. L[k].size : RawData(L)[L[k].start + b] = L[k].raw[b]
  BY PackedData DEF IsRawImage
<1>2. /\ img.data = RawData(L) /\ img.data_crc = RawData(L) /\ img.magic = t.magic
      /\ img.data_len = DataSize(L) % LenMod
  BY DEF IsRawImage, backend_format_raw_pack
<1>3. img.data_len \in Nat
  BY <1>1, <1>2, ConstantFacts
<1>4. Len(img.data) = DataSize(L)
  BY <1>1, <1>2
<1> QED
  BY <1>1, <1>2, <1>3, <1>4

\* A variable that the data reaches is good after the load.
LEMMA UnpackedGood ==
    ASSUME NEW img, NEW t, NEW L, IsRawImage(img, t, L),
           img.data_len <= Len(img.data),
           NEW s, NEW l, StateOf("raw", s, l), NEW i \in DOMAIN l
    PROVE  GoodVar("raw", UnpackVar(l[i], img))
<1> DEFINE v == l[i]
           x == UnpackVar(v, img)
           M == MemoryLen(v.type, v.size)
           D == DataSize(L)
<1>1. GoodVar("raw", v)
  BY DEF StateOf
<1>2. CASE EndsBehind(v, img)
  <2>1. x = v
    BY <1>2 DEF UnpackVar
  <2> QED
    BY <1>1, <2>1
<1>3. CASE ~EndsBehind(v, img)
  <2>1. /\ DOMAIN v = VarFields /\ v.type \in Type
        /\ v.start \in Nat /\ v.size \in Nat /\ M \in Nat /\ v.size <= M
        /\ v.raw \in [1 .. M -> Byte]
        /\ v.type # "uint8" => v.size = M
        /\ v.type = "uint8" => v.size = 1 /\ M = Word
    BY MemoryOf
  <2> HIDE DEF M, v
  <2>2. x.raw = [b \in 1 .. M |-> IF b <= v.size THEN img.data[v.start + b] ELSE v.raw[b]]
    <3>1. DOMAIN v = VarFields /\ v.start \in Nat /\ v.size \in Nat /\ M \in Nat
          /\ v.raw \in [1 .. M -> Byte] /\ v.size <= M
      BY <2>1
    <3>2. ~EndsBehind(v, img)
      BY <1>3
    <3>3. x.raw = UnpackedBytes(v, img, M)
      BY <3>1, <3>2, UnpackedRaw
    <3> QED
      BY <3>3 DEF UnpackedBytes
  <2>3. x.type = v.type /\ x.size = v.size /\ x.default = v.default
    BY <2>1, UnpackedFields
  <2> HIDE DEF x
  <2>4. D \in Nat /\ img.data \in [1 .. D -> Byte] /\ img.data_len \in Nat /\ img.data_len <= D
    BY RawImageFacts
  <2> HIDE DEF D
  <2>5. v.start + v.size <= D
    BY <1>3, <2>1, <2>4 DEF EndsBehind
  <2>6. \A b \in 1 .. M : b <= v.size => img.data[v.start + b] \in Byte
    <3>1. \A b \in 1 .. M : b <= v.size => v.start + b \in 1 .. D
      BY <2>1, <2>4, <2>5
    <3> QED
      BY <2>4, <3>1
  <2>7. x.raw \in [1 .. M -> Byte]
    BY <2>1, <2>2, <2>6
  <2>8. ASSUME v.type = "uint8"
        PROVE  IsWord(x.raw)
    <3> DEFINE c == img.data[v.start + 1]
    <3>1. v.size = 1 /\ M = Word /\ 1 \in 1 .. M
      BY <2>1, <2>8, ConstantFacts
    <3>2. c \in Byte
      BY <2>6, <3>1
    <3>3. IsWord(v.raw)
      BY <1>1, <2>8 DEF GoodVar, Number, v
    <3> HIDE DEF c
    <3>4. IsWord([b \in 1 .. Word |-> IF b = 1 THEN c ELSE v.raw[b]])
      BY <3>2, <3>3, WordWithLowByte
    <3>5. \A b \in 1 .. M : (b <= v.size <=> b = 1)
      BY <2>1, <3>1
    <3>6. x.raw = [b \in 1 .. Word |-> IF b = 1 THEN c ELSE v.raw[b]]
      BY <2>2, <3>1, <3>5 DEF c
    <3> QED
      BY <3>4, <3>6
  <2>9. /\ v.type \in Number => M = Word
        /\ v.type = "mac" => M = MacLen
        /\ v.type = "string" => M = v.size
    BY DEF M, MemoryLen, Number
  <2>10. /\ v.type \in Number => v.default \in 0 .. WordMod - 1
         /\ v.type = "mac" => v.default \in [1 .. MacLen -> Byte]
    BY <1>1 DEF GoodVar, v
  <2>11. GoodVar("raw", x)
    BY <2>3, <2>7, <2>8, <2>9, <2>10 DEF GoodVar
  <2> QED
    BY <2>11 DEF x, v
<1> QED
  BY <1>2, <1>3

LEMMA RawLoadGood ==
    ASSUME NEW img, NEW t, NEW L, IsRawImage(img, t, L), NEW magic,
           backend_format_raw_verify(img, magic),
           NEW s, NEW l, StateOf("raw", s, l)
    PROVE  StateOf("raw", s, backend_format_raw_unpack(l, img).list)
<1> DEFINE m == [i \in DOMAIN l |-> UnpackVar(l[i], img)]
<1>1. backend_format_raw_unpack(l, img).list = m
  BY DEF backend_format_raw_unpack
<1>2. SameLayout(l, m)
  <2>1. SameLayout(l, backend_format_raw_unpack(l, img).list)
    BY StateFacts, UnpackKeepsLayout
  <2> QED
    BY <1>1, <2>1
<1>3. SameLayout(Variables(s), m)
  BY <1>2, LayoutTrans DEF StateOf
<1>4. img.data_len <= Len(img.data)
  BY DEF backend_format_raw_verify
<1>5. ASSUME NEW i \in DOMAIN m
      PROVE  GoodVar("raw", m[i])
  BY <1>4, UnpackedGood
<1> HIDE DEF m
<1> QED
  BY <1>1, <1>3, <1>5 DEF StateOf

LEMMA SameShow ==
    ASSUME NEW v, NEW w, v.type = w.type, v.names = w.names, v.raw = w.raw
    PROVE  Show(v) = Show(w)
BY DEF Show, EnumName

\* An image is accepted if its magic fits and data_len counts all of its data.
LEMMA RawVerified ==
    ASSUME NEW img, NEW t, NEW L, IsRawImage(img, t, L), NEW magic
    PROVE  /\ backend_format_raw_verify(img, magic) <=>
                  magic \in {0, img.magic} /\ Len(img.data) < LenMod
           /\ Len(img.data) < LenMod => img.data_len = Len(img.data)
<1> DEFINE D == DataSize(L)
           d == img.data
           len == img.data_len
<1>1. /\ D \in Nat /\ d \in [1 .. D -> Byte] /\ Len(d) = D /\ img.data_crc = d
      /\ len = D % LenMod
  BY RawImageFacts
<1>2. LenMod \in Nat \ {0}
  BY ConstantFacts
<1>3. backend_format_raw_verify(img, magic) <=>
          magic \in {0, img.magic} /\ len <= D /\ SubSeq(d, 1, len) = d
  BY <1>1 DEF backend_format_raw_verify
<1> HIDE DEF D, d, len
<1>4. CASE D < LenMod
  <2>1. len = D
    BY <1>1, <1>2, <1>4
  <2>2. SubSeq(d, 1, D) = d
    BY <1>1
  <2> QED
    BY <1>1, <1>3, <1>4, <2>1, <2>2 DEF d, len
<1>5. CASE ~(D < LenMod)
  <2>1. len \in Nat /\ len < D
    BY <1>1, <1>2, <1>5
  <2>2. Len(SubSeq(d, 1, len)) = len
    <3>1. d \in Seq(Byte)
      BY <1>1
    <3> QED
      BY <1>1, <2>1, <3>1
  <2>3. SubSeq(d, 1, len) # d
    BY <1>1, <2>1, <2>2
  <2> QED
    BY <1>1, <1>3, <1>5, <2>3 DEF d
<1> QED
  BY <1>4, <1>5

LEMMA RawLoadKept ==
    ASSUME NEW img, NEW t, NEW L, IsRawImage(img, t, L),
           img.data_len = Len(img.data),
           NEW s, NEW l, StateOf("raw", s, l),
           NEW i \in DOMAIN l, NEW k \in DOMAIN L,
           Layout(UnpackVar(l[i], img)) = Layout(L[k])
    PROVE  Show(UnpackVar(l[i], img)) =
               IF l[i].type = "uint8" /\ (Num(l[i].raw) >= Base \/ Show(L[k]) >= Base)
                 THEN Num([l[i].raw EXCEPT ![1] = LittleEndian(Show(L[k]))[1]])
                 ELSE Show(L[k])
<1> DEFINE v == l[i]
           w == L[k]
           x == UnpackVar(v, img)
           M == MemoryLen(v.type, v.size)
           D == DataSize(L)
<1>1. /\ DOMAIN v = VarFields /\ v.type \in Type
      /\ v.start \in Nat /\ v.size \in Nat /\ M \in Nat /\ v.size <= M
      /\ v.raw \in [1 .. M -> Byte]
      /\ v.type # "uint8" => v.size = M
      /\ v.type = "uint8" => v.size = 1 /\ M = Word
  BY MemoryOf
<1>2. /\ x.type = v.type /\ x.size = v.size /\ x.start = v.start
      /\ x.names = v.names /\ x.default = v.default
  BY <1>1, UnpackedFields
<1>3. x.type = w.type /\ x.names = w.names /\ x.start = w.start /\ x.size = w.size
  <2> HIDE DEF x, w
  <2>1. Layout(x) = Layout(w)
    BY DEF x, w, v
  <2> QED
    BY <2>1 DEF Layout
<1>4. /\ D \in Nat /\ Len(img.data) = D /\ w.start + w.size <= D
      /\ \A b \in 1 .. w.size : img.data[w.start + b] = w.raw[b]
  BY RawImageFacts
<1>5. w.raw \in [1 .. M -> Byte]
  <2>1. w.raw \in [1 .. MemoryLen(w.type, w.size) -> Byte]
    BY MemoryOf DEF IsRawImage
  <2> QED
    BY <1>2, <1>3, <2>1
<1>6. ~EndsBehind(v, img)
  BY <1>1, <1>2, <1>3, <1>4 DEF EndsBehind
<1>7. x.raw = [b \in 1 .. M |-> IF b <= v.size THEN img.data[v.start + b] ELSE v.raw[b]]
  <2> HIDE DEF v, M
  <2>1. DOMAIN v = VarFields /\ v.start \in Nat /\ v.size \in Nat /\ M \in Nat
        /\ v.raw \in [1 .. M -> Byte] /\ v.size <= M
    BY <1>1
  <2>2. x.raw = UnpackedBytes(v, img, M)
    BY <1>6, <2>1, UnpackedRaw
  <2> QED
    BY <2>2 DEF UnpackedBytes
<1>a. GoodVar("raw", v) /\ GoodVar("raw", w)
  BY DEF IsRawImage, StateOf
<1> HIDE DEF v, w, x, M, D
<1>b. ASSUME v.type = "uint8"
      PROVE  /\ Num(v.raw) \in Nat /\ LittleEndian(Num(v.raw)) = v.raw
             /\ Num(w.raw) \in Nat /\ LittleEndian(Num(w.raw)) = w.raw
             /\ Show(w) = Num(w.raw) /\ Show(x) = Num(x.raw)
  <2>1. IsWord(v.raw) /\ IsWord(w.raw)
    BY <1>2, <1>3, <1>a, <1>b DEF GoodVar, Number
  <2>2. Show(w) = Num(w.raw) /\ Show(x) = Num(x.raw)
    BY <1>2, <1>3, <1>b DEF Show
  <2> QED
    BY <2>1, <2>2, NumOfWord, ConstantFacts
<1> DEFINE Wide == v.type = "uint8" /\ (Num(v.raw) >= Base \/ Show(w) >= Base)
<1>8. ASSUME ~Wide, v.type = "uint8", NEW b \in 2 .. Word
      PROVE  v.raw[b] = 0 /\ w.raw[b] = 0
  <2> DEFINE m == Num(v.raw)
             n == Num(w.raw)
  <2>1. /\ m \in Nat /\ LittleEndian(m) = v.raw /\ m < Base
        /\ n \in Nat /\ LittleEndian(n) = w.raw /\ n < Base
    BY <1>8, <1>b, ConstantFacts
  <2> HIDE DEF m, n
  <2> QED
    BY <2>1, LittleEndianSmall
<1>c. CASE Wide
  <2>0. M = Word /\ v.size = 1 /\ w.size = 1
    BY <1>1, <1>2, <1>3, <1>c
  <2> HIDE DEF Wide
  <2>1. M = Word /\ v.size = 1 /\ w.size = 1 /\ 1 \in 1 .. w.size /\ 1 \in 1 .. M
    BY <2>0, ConstantFacts
  <2>2. img.data[v.start + 1] = w.raw[1]
    BY <1>2, <1>3, <1>4, <2>1
  <2>3. \A b \in 1 .. M : x.raw[b] = IF b = 1 THEN w.raw[1] ELSE v.raw[b]
    BY <1>7, <2>1, <2>2
  <2>4. x.raw = [b \in 1 .. M |-> x.raw[b]]
    BY <1>7
  <2>5. x.raw = [v.raw EXCEPT ![1] = w.raw[1]]
    BY <1>1, <2>1, <2>3, <2>4
  <2>6. LittleEndian(Show(w)) = w.raw /\ Show(x) = Num(x.raw)
    BY <1>b, <1>c DEF Wide
  <2>7. Show(x) = Num([v.raw EXCEPT ![1] = LittleEndian(Show(w))[1]])
    BY <2>5, <2>6
  <2> QED
    BY <1>c, <2>7 DEF v, w, x, Wide
<1>d. CASE ~Wide
  <2>9. ASSUME NEW b \in 1 .. M
        PROVE  x.raw[b] = w.raw[b]
    <3>1. CASE b <= v.size
      <4>1. b \in 1 .. w.size
        BY <1>1, <1>2, <1>3, <3>1
      <4>2. img.data[v.start + b] = w.raw[b]
        BY <1>2, <1>3, <1>4, <4>1
      <4> QED
        BY <1>7, <3>1, <4>2
    <3>2. CASE ~(b <= v.size)
      <4>1. v.type = "uint8"
        BY <1>1, <3>2
      <4>2. b \in 2 .. Word
        BY <1>1, <3>2, <4>1
      <4>3. x.raw[b] = v.raw[b]
        BY <1>7, <3>2
      <4> QED
        BY <1>8, <1>d, <4>1, <4>2, <4>3
    <3> QED
      BY <3>1, <3>2
  <2>10. x.raw = w.raw
    <3>1. x.raw = [b \in 1 .. M |-> x.raw[b]]
      BY <1>7
    <3>2. w.raw = [b \in 1 .. M |-> w.raw[b]]
      BY <1>5
    <3> QED
      BY <2>9, <3>1, <3>2
  <2>11. Show(x) = Show(w)
    BY <1>3, <2>10, SameShow
  <2> QED
    BY <1>d, <2>11 DEF v, w, x
<1> QED
  BY <1>c, <1>d

-----------------------------------------------------------------------------
(* What dtb exports is what it imports *)

LEMMA FindVarFacts ==
    ASSUME NEW list, Len(list) \in Nat, NEW name
    PROVE  LET k == state_find_var(list, name)
           IN  \/ k = 0 /\ \A i \in 1 .. Len(list) : list[i].name # name
               \/ k \in 1 .. Len(list) /\ list[k].name = name /\ k # 0
<1> DEFINE k == state_find_var(list, name)
           I == {i \in 1 .. Len(list) : list[i].name = name}
<1>1. k = IF I # {} THEN Min(I) ELSE 0
  BY DEF state_find_var, SelectInSeq
<1>2. I # {} => Min(I) \in I
  <2>1. I \subseteq Nat
    OBVIOUS
  <2> HIDE DEF I
  <2> QED
    BY <2>1, MinFacts
<1> HIDE DEF k
<1>3. CASE I = {}
  BY <1>1, <1>3 DEF k
<1>4. CASE I # {}
  <2>1. k \in I
    BY <1>1, <1>2, <1>4
  <2> QED
    BY <2>1 DEF k
<1> QED
  BY <1>3, <1>4

\* The properties of a node of a stored tree.
GoodNode(n) ==
    /\ n.type \in Type \cup {NONE}
    /\ n.type \in Number => /\ n.value \in 0 .. WordMod - 1
                            /\ n.default \in (0 .. WordMod - 1) \cup {NONE}
    /\ n.type = "mac" => /\ n.value \in [1 .. MacLen -> Byte]
                         /\ n.default \in [1 .. MacLen -> Byte] \cup {NONE}

LEMMA ImportedNode ==
    ASSUME NEW sv, NEW n, NEW junk, GoodVar("dtb", sv), DOMAIN sv = VarFields,
           GoodNode(n), sv.type = n.type, n.type \in Type
    PROVE  LET x == Dangling(Import(sv, n), n, junk)
           IN  /\ GoodVar("dtb", x)
               /\ Present(n.value) => x.raw = Encode(sv, n.value)
               /\ n.type # "string" => ~ImportError(sv, n)
<1> DEFINE y == Import(sv, n)
           x == Dangling(y, n, junk)
<1>1. x.type = sv.type /\ x.raw = y.raw
  BY ImportKeepsVar
<1>2. CASE n.type = "string"
  <2>1. x.type = "string"
    BY <1>1, <1>2
  <2>2. ASSUME Present(n.value)
        PROVE  y.raw = Encode(sv, n.value)
    <3>1. ImportValue(sv, n) = n.value /\ n.value # NONE
      BY <2>2 DEF ImportValue, Present
    <3>2. y = [sv EXCEPT !.default = ImportDefault(sv, n), !.raw = Encode(sv, n.value)]
      BY <3>1 DEF Import
    <3> HIDE DEF y
    <3> QED
      BY <3>2 DEF VarFields
  <2> HIDE DEF x, y
  <2>3. GoodVar("dtb", x)
    BY <2>1 DEF GoodVar, Number
  <2> QED
    BY <1>1, <1>2, <2>2, <2>3 DEF x, y
<1>3. ASSUME n.type # "string", NEW S, n.value \in S, n.default \in S \cup {NONE},
             NONE \notin S, BAD \notin S, sv.default \in S
      PROVE  /\ x.raw = Encode(sv, n.value) /\ x.default \in S /\ ~ImportError(sv, n)
  <2>1. Present(n.value) /\ n.value # NONE /\ n.default # BAD
    BY <1>3, ConstantFacts DEF Present
  <2>2. ImportValue(sv, n) = n.value
    BY <2>1 DEF ImportValue
  <2>3. ImportDefault(sv, n) \in S
    BY <1>3 DEF ImportDefault, Present
  <2>4. y = [sv EXCEPT !.default = ImportDefault(sv, n), !.raw = Encode(sv, n.value)]
    BY <2>1, <2>2 DEF Import
  <2>5. x = y
    <3>1. y.type = sv.type
      <4> HIDE DEF y
      <4> QED
        BY <2>4 DEF VarFields
    <3> HIDE DEF y
    <3> QED
      BY <1>3, <3>1 DEF Dangling, x
  <2> HIDE DEF x, y
  <2>6. x.raw = Encode(sv, n.value) /\ x.default \in S
    BY <2>3, <2>4, <2>5 DEF VarFields
  <2>7. ~ImportError(sv, n)
    <3>1. n.value # BAD
      BY <1>3
    <3> QED
      BY <1>3, <2>1, <3>1 DEF ImportError, EnumImportError
  <2> QED
    BY <2>6, <2>7
<1> HIDE DEF x
<1>4. CASE n.type \in Number
  <2> DEFINE S == 0 .. WordMod - 1
  <2>1. n.type # "string" /\ n.type # "mac"
    BY <1>4 DEF Number
  <2>2. n.value \in S /\ n.default \in S \cup {NONE} /\ sv.default \in S
    BY <1>4 DEF GoodNode, GoodVar
  <2>3. NONE \notin S /\ BAD \notin S
    BY NoneIsNoValue
  <2> HIDE DEF S
  <2>4. x.raw = Encode(sv, n.value) /\ x.default \in S /\ ~ImportError(sv, n)
    BY <1>3, <2>1, <2>2, <2>3
  <2>5. Encode(sv, n.value) = LittleEndian(n.value)
    BY <1>4 DEF Encode, Number
  <2>6. n.value \in Nat
    BY <2>2, ConstantFacts DEF S
  <2>7. LittleEndian(n.value) \in [1 .. Word -> Byte]
    BY <2>6, LittleEndianBytes
  <2>8. IsWord(LittleEndian(n.value))
    BY <2>2 DEF IsWord, S
  <2>9. GoodVar("dtb", x)
    BY <1>1, <2>1, <2>4, <2>5, <2>7, <2>8 DEF GoodVar, S
  <2> QED
    BY <2>4, <2>9 DEF x
<1>5. CASE n.type = "mac"
  <2> DEFINE S == [1 .. MacLen -> Byte]
  <2>1. n.type # "string" /\ n.type \notin Number
    BY <1>5 DEF Number
  <2>2. n.value \in S /\ n.default \in S \cup {NONE} /\ sv.default \in S
    BY <1>5 DEF GoodNode, GoodVar
  <2>3. NONE \notin S /\ BAD \notin S
    BY NoneIsNoValue
  <2> HIDE DEF S
  <2>4. x.raw = Encode(sv, n.value) /\ x.default \in S /\ ~ImportError(sv, n)
    BY <1>3, <2>1, <2>2, <2>3
  <2>5. Encode(sv, n.value) = n.value
    BY <1>5 DEF Encode, Number
  <2>6. GoodVar("dtb", x)
    BY <1>1, <2>1, <2>2, <2>4, <2>5 DEF GoodVar, S
  <2> QED
    BY <2>4, <2>6 DEF x
<1> QED
  BY <1>2, <1>4, <1>5 DEF Type, Number

\* An image that a state has packed.
IsDtbImage(img, t, L) ==
    /\ StateOf("dtb", t, L)
    /\ img = state_backend_format_dtb_pack(L, t)

LEMMA DtbImageFacts ==
    ASSUME NEW img, NEW t, NEW L, IsDtbImage(img, t, L)
    PROVE  /\ Len(img.nodes) = Len(t.nodes) /\ Len(t.nodes) \in Nat
           /\ DOMAIN img.nodes = 1 .. Len(t.nodes) /\ img.magic = t.magic
           /\ \A q \in 1 .. Len(t.nodes) :
                 /\ img.nodes[q].name = t.nodes[q].name
                 /\ IF IsGroup(t.nodes[q])
                      THEN img.nodes[q].type = NONE
                      ELSE \E k \in DOMAIN L :
                              /\ L[k].name = t.nodes[q].name
                              /\ t.nodes[q].type = L[k].type /\ L[k].type \in Type
                              /\ img.nodes[q] = Export(L[k], t.nodes[q])
<1>1. /\ Apart(L) /\ Len(t.nodes) \in Nat /\ DOMAIN t.nodes = 1 .. Len(t.nodes)
      /\ \A i \in DOMAIN L :
            \E q \in 1 .. Len(t.nodes) : ~IsGroup(t.nodes[q]) /\ VarOf(L[i], t.nodes[q])
      /\ \A i, j \in DOMAIN L : L[i].name = L[j].name => i = j
      /\ \A q \in 1 .. Len(t.nodes) : ~IsGroup(t.nodes[q]) =>
            \E i \in DOMAIN L : L[i].name = t.nodes[q].name
  BY StateFacts DEF IsDtbImage
<1> DEFINE at(q) == state_find_var(L, t.nodes[q].name)
<1>2. /\ img.magic = t.magic
      /\ img.nodes = [q \in DOMAIN t.nodes |->
              IF IsGroup(t.nodes[q]) THEN Group(t.nodes[q])
              ELSE Export(L[at(q)], t.nodes[q])]
  BY DEF IsDtbImage, state_backend_format_dtb_pack, state_to_node
<1>3. DOMAIN img.nodes = 1 .. Len(t.nodes) /\ Len(img.nodes) = Len(t.nodes)
  BY <1>1, <1>2
<1>4. ASSUME NEW q \in 1 .. Len(t.nodes), IsGroup(t.nodes[q])
      PROVE  img.nodes[q].name = t.nodes[q].name /\ img.nodes[q].type = NONE
  BY <1>1, <1>2, <1>4 DEF Group
<1>5. ASSUME NEW q \in 1 .. Len(t.nodes), ~IsGroup(t.nodes[q])
      PROVE  /\ img.nodes[q].name = t.nodes[q].name
             /\ \E k \in DOMAIN L : /\ L[k].name = t.nodes[q].name
                                    /\ t.nodes[q].type = L[k].type /\ L[k].type \in Type
                                    /\ img.nodes[q] = Export(L[k], t.nodes[q])
  <2> DEFINE k == at(q)
  <2>1. Len(L) \in Nat /\ DOMAIN L = 1 .. Len(L)
    BY <1>1 DEF Apart
  <2>2. k \in DOMAIN L /\ L[k].name = t.nodes[q].name
    <3>1. \E i \in 1 .. Len(L) : L[i].name = t.nodes[q].name
      BY <1>1, <1>5, <2>1
    <3>2. \/ k = 0 /\ \A i \in 1 .. Len(L) : L[i].name # t.nodes[q].name
          \/ k \in 1 .. Len(L) /\ L[k].name = t.nodes[q].name /\ k # 0
      BY <2>1, FindVarFacts
    <3> QED
      BY <2>1, <3>1, <3>2
  <2>3. img.nodes[q] = Export(L[k], t.nodes[q])
    BY <1>1, <1>2, <1>5
  <2> HIDE DEF at
  <2>4. img.nodes[q].name = t.nodes[q].name
    BY <2>3 DEF Export
  <2>5. t.nodes[q].type = L[k].type /\ L[k].type \in Type
    <3>1. PICK p \in 1 .. Len(t.nodes) : ~IsGroup(t.nodes[p]) /\ VarOf(L[k], t.nodes[p])
      BY <1>1, <2>2
    <3>2. t.nodes[p].name = t.nodes[q].name
      BY <2>2, <3>1 DEF VarOf
    <3>3. t \in Schema
      BY DEF IsDtbImage, StateOf
    <3>4. p = q
      BY <1>1, <3>2, <3>3, VariablesAssumption DEF IsStateNode
    <3> QED
      BY <3>1, <3>4 DEF VarOf
  <2> QED
    BY <2>2, <2>3, <2>4, <2>5
<1> QED
  BY <1>1, <1>2, <1>3, <1>4, <1>5

LEMMA ExportIsGood ==
    ASSUME NEW v, GoodVar("dtb", v), v.type \in Type, NEW n, n.type = v.type
    PROVE  LET x == Export(v, n)
           IN  /\ GoodNode(x) /\ x.type = v.type
               /\ v.type # "string" => Encode(v, x.value) = v.raw
<1> DEFINE x == Export(v, n)
<1>1. x.type = v.type /\ x.value = ExportValue(v) /\ x.default = ExportDefault(v)
  BY DEF Export
<1>2. x.default = NONE \/ x.default = v.default
  BY <1>1 DEF ExportDefault
<1> HIDE DEF x
<1>3. CASE v.type \in Number
  <2>1. IsWord(v.raw) /\ v.default \in 0 .. WordMod - 1
    BY <1>3 DEF GoodVar
  <2>2. x.value = Num(v.raw)
    BY <1>1, <1>3 DEF ExportValue, Number
  <2>3. Num(v.raw) \in 0 .. WordMod - 1 /\ LittleEndian(Num(v.raw)) = v.raw
    BY <2>1, NumOfWord
  <2>4. Encode(v, x.value) = LittleEndian(x.value)
    BY <1>3 DEF Encode, Number
  <2>5. v.type # "mac"
    BY <1>3 DEF Number
  <2>6. GoodNode(x)
    BY <1>1, <1>2, <1>3, <2>1, <2>2, <2>3, <2>5 DEF GoodNode
  <2> QED
    BY <1>1, <2>2, <2>3, <2>4, <2>6 DEF x
<1>4. CASE v.type = "mac"
  <2>1. v.raw \in [1 .. MacLen -> Byte] /\ v.default \in [1 .. MacLen -> Byte]
    BY <1>4 DEF GoodVar
  <2>2. x.value = v.raw
    BY <1>1, <1>4 DEF ExportValue, Number
  <2>3. Encode(v, x.value) = x.value
    BY <1>4 DEF Encode, Number
  <2>4. v.type \notin Number
    BY <1>4 DEF Number
  <2>5. GoodNode(x)
    BY <1>1, <1>2, <1>4, <2>1, <2>2, <2>4 DEF GoodNode
  <2> QED
    BY <1>1, <2>2, <2>3, <2>5 DEF x
<1>5. CASE v.type = "string"
  <2>1. GoodNode(x)
    BY <1>1, <1>5 DEF GoodNode, Number
  <2> QED
    BY <1>1, <1>5, <2>1 DEF x
<1> QED
  BY <1>3, <1>4, <1>5 DEF Type, Number

\* A variable of the name of a node has its type.
SameType(list, n) ==
    \A j \in DOMAIN list : list[j].name = n.name /\ n.type # NONE => list[j].type = n.type

LEMMA NodeOfImage ==
    ASSUME NEW img, NEW t, NEW L, IsDtbImage(img, t, L),
           NEW s, NEW l, StateOf("dtb", s, l), NEW q \in 1 .. Len(t.nodes)
    PROVE  GoodNode(img.nodes[q]) /\ SameType(l, img.nodes[q])
<1> DEFINE n == img.nodes[q]
<1>1. /\ Len(t.nodes) \in Nat /\ n.name = t.nodes[q].name
      /\ IF IsGroup(t.nodes[q])
           THEN n.type = NONE
           ELSE \E k \in DOMAIN L : /\ L[k].name = t.nodes[q].name
                                    /\ t.nodes[q].type = L[k].type /\ L[k].type \in Type
                                    /\ n = Export(L[k], t.nodes[q])
  BY DtbImageFacts
<1> HIDE DEF n
<1>2. CASE IsGroup(t.nodes[q])
  <2>1. n.type = NONE
    BY <1>1, <1>2
  <2>2. n.type \notin Number /\ n.type # "mac"
    BY <2>1, ConstantFacts DEF Type, Number
  <2>3. GoodNode(n)
    BY <2>1, <2>2 DEF GoodNode
  <2> QED
    BY <2>1, <2>3 DEF SameType, n
<1>3. CASE ~IsGroup(t.nodes[q])
  <2>1. PICK k \in DOMAIN L : /\ t.nodes[q].type = L[k].type /\ L[k].type \in Type
                              /\ n = Export(L[k], t.nodes[q])
    BY <1>1, <1>3
  <2>2. GoodVar("dtb", L[k])
    BY DEF IsDtbImage, StateOf
  <2>3. GoodNode(n) /\ n.type = t.nodes[q].type
    BY <2>1, <2>2, ExportIsGood
  <2>4. ASSUME NEW j \in DOMAIN l, l[j].name = n.name
        PROVE  l[j].type = n.type
    <3>1. PICK p \in 1 .. Len(s.nodes) : VarOf(l[j], s.nodes[p])
      BY StateFacts
    <3>2. s.nodes[p].name = t.nodes[q].name /\ l[j].type = s.nodes[p].type
      BY <1>1, <2>4, <3>1 DEF VarOf
    <3>3. s \in Schema /\ t \in Schema
      BY DEF IsDtbImage, StateOf
    <3>4. p \in DOMAIN s.nodes /\ q \in DOMAIN t.nodes
      BY <3>3, VariablesAssumption DEF IsStateNode
    <3>5. s.nodes[p].type = t.nodes[q].type
      BY <3>2, <3>3, <3>4, VariablesAssumption
    <3> QED
      BY <2>3, <3>2, <3>5
  <2> QED
    BY <2>3, <2>4 DEF SameType, n
<1> QED
  BY <1>2, <1>3

LEMMA SameEncode ==
    ASSUME NEW v, NEW w, NEW x, v.type = w.type, v.size = w.size
    PROVE  Encode(v, x) = Encode(w, x)
BY DEF Encode, state_string_copy_to_raw

\* No text of a string changes.
SameTexts(l, m) == \A j \in DOMAIN l : m[j].text = l[j].text

\* x is acc after the import of n: the state stays well formed, only a string
\* is an error, and else the variable of that name gets a value that is present
\* and no other one changes.
AfterImport(x, acc, s, n) ==
    /\ DOMAIN x = {"ret", "list"} /\ StateOf("dtb", s, x.list)
    /\ SameLayout(acc.list, x.list) /\ SameTexts(acc.list, x.list)
    /\ x.ret = acc.ret \/ (x.ret = "EILSEQ" /\ n.type = "string")
    /\ x.ret = "OK" =>
          /\ acc.ret = "OK"
          /\ \A j \in DOMAIN acc.list :
                IF n.type # NONE /\ acc.list[j].name = n.name
                  THEN Present(n.value) => x.list[j].raw = Encode(acc.list[j], n.value)
                  ELSE x.list[j].raw = acc.list[j].raw

LEMMA ImportNodeGood ==
    ASSUME NEW s, NEW acc, DOMAIN acc = {"ret", "list"}, StateOf("dtb", s, acc.list),
           NEW n, NEW junk, GoodNode(n), SameType(acc.list, n)
    PROVE  AfterImport(ImportNode(acc, n, junk), acc, s, n)
<1> DEFINE l == acc.list
           k == state_find_var(l, n.name)
           y == Dangling(Import(l[k], n), n, junk)
           z == Dangling(l[k], n, junk)
           m == [l EXCEPT ![k] = y]
           d == [l EXCEPT ![k] = z]
           x == ImportNode(acc, n, junk)
<1>1. /\ Apart(l) /\ Len(l) \in Nat /\ DOMAIN l = 1 .. Len(l)
      /\ \A i, j \in DOMAIN l : l[i].name = l[j].name => i = j
  BY StateFacts DEF Apart
<1>2. DOMAIN x = {"ret", "list"} /\ SameLayout(l, x.list)
  BY <1>1, ImportNodeKeepsLayout
<1>3. SameLayout(Variables(s), x.list) /\ DOMAIN x.list = DOMAIN l
  BY <1>2, LayoutTrans DEF StateOf, SameLayout
<1>4. \/ k = 0 /\ \A i \in 1 .. Len(l) : l[i].name # n.name
      \/ k \in 1 .. Len(l) /\ l[k].name = n.name /\ k # 0
  BY <1>1, FindVarFacts
<1>5. x = IF acc.ret # "OK" \/ n.type = NONE \/ k = 0 THEN acc
          ELSE IF ImportError(l[k], n) THEN [acc EXCEPT !.ret = "EILSEQ", !.list = d]
          ELSE [acc EXCEPT !.list = m]
  BY DEF ImportNode
<1>6. \A j \in DOMAIN l : GoodVar("dtb", l[j])
  BY DEF StateOf
<1>7. CASE acc.ret # "OK" \/ n.type = NONE \/ k = 0
  <2>1. x = acc
    BY <1>5, <1>7
  <2>2. acc.ret = "OK" => n.type = NONE \/ \A j \in DOMAIN l : l[j].name # n.name
    BY <1>1, <1>4, <1>7
  <2> HIDE DEF x, l, k, y, z, m, d
  <2>3. x.list = l /\ x.ret = acc.ret
    BY <2>1 DEF l
  <2>4. StateOf("dtb", s, x.list) /\ SameTexts(l, x.list)
    BY <2>1, <2>3 DEF SameTexts
  <2>5. x.ret = "OK" =>
          /\ acc.ret = "OK"
          /\ \A j \in DOMAIN l :
                IF n.type # NONE /\ l[j].name = n.name
                  THEN Present(n.value) => x.list[j].raw = Encode(l[j], n.value)
                  ELSE x.list[j].raw = l[j].raw
    BY <2>2, <2>3
  <2> QED
    BY <1>2, <2>3, <2>4, <2>5 DEF AfterImport, x, l
<1>8. CASE ~(acc.ret # "OK" \/ n.type = NONE \/ k = 0)
  <2>1. k \in DOMAIN l /\ l[k].name = n.name /\ n.type # NONE /\ n.type \in Type
    BY <1>1, <1>4, <1>8 DEF GoodNode
  <2>2. l[k].type = n.type /\ DOMAIN l[k] = VarFields
    BY <1>1, <2>1 DEF Apart, SameType
  <2>3. /\ GoodVar("dtb", y)
        /\ Present(n.value) => y.raw = Encode(l[k], n.value)
        /\ n.type # "string" => ~ImportError(l[k], n)
    <3> HIDE DEF l, k
    <3> QED
      BY <1>6, <2>1, <2>2, ImportedNode
  <2>6. /\ y.text = l[k].text /\ z.text = l[k].text /\ z.type = l[k].type
        /\ l[k].type # "string" => z = l[k]
    <3> DEFINE v == l[k]
    <3>1. DOMAIN v = VarFields
      BY <2>2
    <3> HIDE DEF v
    <3>2. Dangling(Import(v, n), n, junk).text = v.text
      BY <3>1, ImportKeepsVar
    <3>3. /\ Dangling(v, n, junk).text = v.text /\ Dangling(v, n, junk).type = v.type
          /\ v.type # "string" => Dangling(v, n, junk) = v
      BY <3>1, DanglingKeepsVar
    <3> QED
      BY <3>2, <3>3 DEF v
  <2>o. s \in Schema /\ Accepted(s)
    BY DEF StateOf
  <2> HIDE DEF x, l, k, y, z
  <2>7. GoodVar("dtb", z)
    <3>1. l[k].type = "string" => GoodVar("dtb", z)
      BY <2>6 DEF GoodVar, Number
    <3> QED
      BY <1>6, <2>1, <2>6, <3>1
  <2>4. CASE ImportError(l[k], n)
    <3>1. x = [acc EXCEPT !.ret = "EILSEQ", !.list = d]
      BY <1>5, <1>8, <2>4
    <3> HIDE DEF d
    <3>2. x.list = d /\ x.ret = "EILSEQ"
      BY <3>1
    <3>5. d[k] = z /\ \A j \in DOMAIN l : j # k => d[j] = l[j]
      BY <2>1 DEF d
    <3>6. \A j \in DOMAIN x.list : GoodVar("dtb", x.list[j])
      BY <1>3, <1>6, <2>7, <3>2, <3>5
    <3>3. StateOf("dtb", s, x.list)
      BY <1>3, <2>o, <3>6 DEF StateOf
    <3>7. SameTexts(l, x.list)
      BY <2>6, <3>2, <3>5 DEF SameTexts
    <3>4. n.type = "string"
      BY <2>3, <2>4
    <3> QED
      BY <1>2, <3>2, <3>3, <3>4, <3>7 DEF AfterImport, x, l
  <2>5. CASE ~ImportError(l[k], n)
    <3>1. x = [acc EXCEPT !.list = m]
      BY <1>5, <1>8, <2>5
    <3> HIDE DEF m
    <3>2. x.list = m /\ x.ret = acc.ret
      BY <3>1
    <3>3. m[k] = y /\ \A j \in DOMAIN l : j # k => m[j] = l[j]
      BY <2>1 DEF m
    <3>4. \A j \in DOMAIN l : GoodVar("dtb", m[j])
      BY <1>6, <2>3, <3>3
    <3>5. StateOf("dtb", s, x.list)
      <4>1. \A j \in DOMAIN x.list : GoodVar("dtb", x.list[j])
        BY <1>3, <3>2, <3>4
      <4> QED
        BY <1>3, <2>o, <4>1 DEF StateOf
    <3>7. SameTexts(l, x.list)
      BY <2>6, <3>2, <3>3 DEF SameTexts
    <3>6. ASSUME NEW j \in DOMAIN l
          PROVE  IF n.type # NONE /\ l[j].name = n.name
                   THEN Present(n.value) => x.list[j].raw = Encode(l[j], n.value)
                   ELSE x.list[j].raw = l[j].raw
      <4>1. CASE j = k
        BY <2>1, <2>3, <3>2, <3>3, <3>6, <4>1
      <4>2. CASE j # k
        <5>1. l[j].name # n.name
          BY <1>1, <2>1, <4>2
        <5> QED
          BY <3>2, <3>3, <4>2, <5>1
      <4> QED
        BY <4>1, <4>2
    <3> QED
      BY <1>2, <1>8, <3>2, <3>5, <3>6, <3>7 DEF AfterImport, x, l
  <2> QED
    BY <2>4, <2>5
<1> QED
  BY <1>7, <1>8

\* What the first m nodes of the image have made of the variables l.
ImportedUpTo(acc, s, l, img, m) ==
    /\ DOMAIN acc = {"ret", "list"} /\ StateOf("dtb", s, acc.list)
    /\ SameLayout(l, acc.list) /\ SameTexts(l, acc.list)
    /\ \/ acc.ret = "OK"
       \/ acc.ret = "EILSEQ" /\ \E q \in DOMAIN img.nodes : img.nodes[q].type = "string"
    /\ acc.ret = "OK" =>
          \A q \in 1 .. m : \A j \in DOMAIN l :
             /\ img.nodes[q].type # NONE /\ l[j].name = img.nodes[q].name
             /\ Present(img.nodes[q].value)
             => acc.list[j].raw = Encode(l[j], img.nodes[q].value)

LEMMA ImportedOneMore ==
    ASSUME NEW img, NEW t, NEW L, IsDtbImage(img, t, L),
           NEW s, NEW l, StateOf("dtb", s, l), NEW acc, NEW junk,
           NEW m \in Nat, m + 1 <= Len(t.nodes), ImportedUpTo(acc, s, l, img, m)
    PROVE  ImportedUpTo(ImportNode(acc, img.nodes[m + 1], junk), s, l, img, m + 1)
<1> DEFINE n == img.nodes[m + 1]
           x == ImportNode(acc, n, junk)
           a == acc.list
<1>1. Len(t.nodes) \in Nat /\ m + 1 \in 1 .. Len(t.nodes) /\ DOMAIN img.nodes = 1 .. Len(t.nodes)
  BY DtbImageFacts
<1>2. DOMAIN acc = {"ret", "list"} /\ StateOf("dtb", s, a) /\ SameLayout(l, a)
  BY DEF ImportedUpTo
<1>3. GoodNode(n) /\ SameType(a, n)
  <2> DEFINE q == m + 1
  <2> HIDE DEF q, a
  <2>1. q \in 1 .. Len(t.nodes)
    BY <1>1 DEF q
  <2>2. GoodNode(img.nodes[q]) /\ SameType(a, img.nodes[q])
    BY <1>2, <2>1, NodeOfImage
  <2> QED
    BY <2>2 DEF q
<1>4. /\ DOMAIN x = {"ret", "list"} /\ StateOf("dtb", s, x.list)
      /\ SameLayout(a, x.list) /\ SameTexts(a, x.list)
      /\ x.ret = acc.ret \/ (x.ret = "EILSEQ" /\ n.type = "string")
      /\ x.ret = "OK" =>
            /\ acc.ret = "OK"
            /\ \A j \in DOMAIN a :
                  IF n.type # NONE /\ a[j].name = n.name
                    THEN Present(n.value) => x.list[j].raw = Encode(a[j], n.value)
                    ELSE x.list[j].raw = a[j].raw
  <2> HIDE DEF n
  <2>1. AfterImport(x, acc, s, n)
    BY <1>2, <1>3, ImportNodeGood
  <2> HIDE DEF x
  <2> QED
    BY <2>1 DEF AfterImport
<1> HIDE DEF x
<1>5. SameLayout(l, x.list) /\ SameTexts(l, x.list)
  <2>1. DOMAIN a = DOMAIN l /\ SameTexts(l, a)
    BY DEF ImportedUpTo, SameLayout
  <2> HIDE DEF a
  <2> QED
    BY <1>2, <1>4, <2>1, LayoutTrans DEF SameTexts
<1>6. \/ x.ret = "OK"
      \/ x.ret = "EILSEQ" /\ \E q \in DOMAIN img.nodes : img.nodes[q].type = "string"
  BY <1>1, <1>4 DEF ImportedUpTo
<1>7. ASSUME x.ret = "OK", NEW q \in 1 .. m + 1, NEW j \in DOMAIN l,
             img.nodes[q].type # NONE, l[j].name = img.nodes[q].name,
             Present(img.nodes[q].value)
      PROVE  x.list[j].raw = Encode(l[j], img.nodes[q].value)
  <2>1. /\ j \in DOMAIN a /\ a[j].name = l[j].name /\ a[j].type = l[j].type
        /\ a[j].size = l[j].size
    BY <1>2 DEF SameLayout
  <2>2. IF n.type # NONE /\ a[j].name = n.name
          THEN Present(n.value) => x.list[j].raw = Encode(a[j], n.value)
          ELSE x.list[j].raw = a[j].raw
    BY <1>4, <1>7, <2>1
  <2>3. CASE q = m + 1
    <3>1. n.type # NONE /\ a[j].name = n.name /\ Present(n.value)
      BY <1>1, <1>7, <2>1, <2>3
    <3>3. Encode(a[j], n.value) = Encode(l[j], n.value)
      BY <2>1, SameEncode
    <3> QED
      BY <2>2, <2>3, <3>1, <3>3
  <2>4. CASE q # m + 1
    <3>1. q \in 1 .. m /\ q \in 1 .. Len(t.nodes)
      BY <1>1, <2>4
    <3>2. a[j].raw = Encode(l[j], img.nodes[q].value)
      BY <1>4, <1>7, <3>1 DEF ImportedUpTo
    <3>3. a[j].name # n.name
      <4>1. n.name = t.nodes[m + 1].name /\ img.nodes[q].name = t.nodes[q].name
        BY <1>1, <3>1, DtbImageFacts
      <4>2. t \in Schema
        BY DEF IsDtbImage, StateOf
      <4>3. t.nodes[m + 1].name # t.nodes[q].name
        BY <1>1, <2>4, <3>1, <4>2, VariablesAssumption DEF IsStateNode
      <4> QED
        BY <1>7, <2>1, <4>1, <4>3
    <3> QED
      BY <2>2, <3>2, <3>3
  <2> QED
    BY <2>3, <2>4
<1> HIDE DEF n
<1>8. ImportedUpTo(x, s, l, img, m + 1)
  BY <1>4, <1>5, <1>6, <1>7 DEF ImportedUpTo
<1> QED
  BY <1>8 DEF x, n

LEMMA DtbLoad ==
    ASSUME NEW img, NEW t, NEW L, IsDtbImage(img, t, L),
           NEW s, NEW l, StateOf("dtb", s, l), NEW magic, NEW junk
    PROVE  LET x == state_from_node(l, img, magic, junk)
           IN  IF magic # 0 /\ magic # img.magic
                 THEN x = [ret |-> "EINVAL", list |-> l]
                 ELSE ImportedUpTo(x, s, l, img, Len(t.nodes))
<1> DEFINE N == Len(img.nodes)
           base == [ret |-> "OK", list |-> l]
           V == CHOOSE f : f = [k \in 0 .. N |->
                           IF k = 0 THEN base
                           ELSE ImportNode(f[k - 1], img.nodes[k], junk)]
<1>0. N = Len(t.nodes) /\ N \in Nat
  BY DtbImageFacts
<1>1. state_from_node(l, img, magic, junk) =
          IF magic # 0 /\ magic # img.magic THEN [ret |-> "EINVAL", list |-> l] ELSE V[N]
  BY DEF state_from_node
<1>2. V = CHOOSE f : Imports(f, base, img, junk, N)
  BY DEF Imports
<1> HIDE DEF base, V
<1>3. Imports(V, base, img, junk, N)
  <2>1. \E f : Imports(f, base, img, junk, N)
    BY <1>0, ImportedExists
  <2> QED
    BY <1>2, <2>1
<1>4. /\ V[0] = base
      /\ \A k \in 1 .. N : V[k] = ImportNode(V[k - 1], img.nodes[k], junk)
  BY <1>0, <1>3 DEF Imports
<1> DEFINE T == {m \in Nat : m <= N => ImportedUpTo(V[m], s, l, img, m)}
<1>5. 0 \in T
  <2>1. DOMAIN base = {"ret", "list"} /\ base.ret = "OK" /\ base.list = l
    BY DEF base
  <2>2. SameLayout(l, l) /\ SameTexts(l, l)
    BY DEF SameLayout, SameTexts
  <2>3. 1 .. 0 = {}
    OBVIOUS
  <2>4. ImportedUpTo(base, s, l, img, 0)
    BY <2>1, <2>2, <2>3 DEF ImportedUpTo
  <2> QED
    BY <1>4, <2>4
<1>6. ASSUME NEW m \in Nat, m \in T
      PROVE  m + 1 \in T
  <2> SUFFICES ASSUME m + 1 <= N
               PROVE  ImportedUpTo(V[m + 1], s, l, img, m + 1)
    OBVIOUS
  <2>1. m + 1 \in 1 .. N /\ (m + 1) - 1 = m /\ m <= N
    BY <1>0
  <2>2. V[m + 1] = ImportNode(V[m], img.nodes[m + 1], junk)
    BY <1>4, <2>1
  <2>3. ImportedUpTo(V[m], s, l, img, m)
    BY <1>6, <2>1
  <2>4. m + 1 <= Len(t.nodes)
    BY <1>0
  <2>5. ImportedUpTo(ImportNode(V[m], img.nodes[m + 1], junk), s, l, img, m + 1)
    BY <2>3, <2>4, ImportedOneMore
  <2> QED
    BY <2>2, <2>5
<1>7. Nat \subseteq T
  BY <1>5, <1>6, NatSetInduction
<1>8. ImportedUpTo(V[N], s, l, img, N)
  BY <1>0, <1>7
<1> QED
  BY <1>0, <1>1, <1>8

\* A string has the text that the run has set.
TextOk(L) ==
    \A i \in DOMAIN L : L[i].text # NONE =>
        /\ L[i].type = "string" /\ L[i].text \in Seq(Byte)
        /\ L[i].raw = Encode(L[i], L[i].text)

LEMMA DtbLoadKept ==
    ASSUME NEW img, NEW t, NEW L, IsDtbImage(img, t, L), TextOk(L),
           NEW s, NEW l, StateOf("dtb", s, l),
           NEW acc, ImportedUpTo(acc, s, l, img, Len(t.nodes)), acc.ret = "OK",
           NEW i \in DOMAIN l, NEW k \in DOMAIN L, Layout(acc.list[i]) = Layout(L[k]),
           L[k].type = "string" => L[k].text # NONE
    PROVE  Show(acc.list[i]) = Show(L[k])
<1> DEFINE x == acc.list[i]
           w == L[k]
<1>1. x.name = w.name /\ x.type = w.type /\ x.names = w.names /\ x.size = w.size
  <2>1. Layout(x) = Layout(w)
    OBVIOUS
  <2> HIDE DEF x, w
  <2> QED
    BY <2>1 DEF Layout
<1>2. x.name = l[i].name /\ x.type = l[i].type /\ x.size = l[i].size
  BY DEF ImportedUpTo, SameLayout
<1>3. PICK q \in 1 .. Len(t.nodes) : ~IsGroup(t.nodes[q]) /\ VarOf(w, t.nodes[q])
  BY StateFacts DEF IsDtbImage
<1> DEFINE n == img.nodes[q]
<1>4. n.name = w.name /\ n = Export(w, t.nodes[q]) /\ t.nodes[q].type = w.type /\ w.type \in Type
      /\ q \in DOMAIN img.nodes
  <2>1. PICK h \in DOMAIN L : /\ L[h].name = t.nodes[q].name
                              /\ t.nodes[q].type = L[h].type /\ L[h].type \in Type
                              /\ n = Export(L[h], t.nodes[q])
    BY <1>3, DtbImageFacts
  <2>2. L[h].name = w.name
    BY <1>3, <2>1 DEF VarOf
  <2>3. h = k
    BY <2>2, StateFacts DEF IsDtbImage
  <2>4. n.name = t.nodes[q].name /\ q \in DOMAIN img.nodes
    BY DtbImageFacts
  <2> QED
    BY <2>1, <2>2, <2>3, <2>4
<1>5. GoodVar("dtb", w)
  BY DEF IsDtbImage, StateOf
<1>t. w.text # NONE => w.type = "string" /\ w.text \in Seq(Byte) /\ w.raw = Encode(w, w.text)
  BY DEF TextOk
<1>s. w.type = "string" => w.text # NONE
  OBVIOUS
<1> HIDE DEF x, w
<1>6. n.type = w.type /\ GoodNode(n) /\ (w.type # "string" => Encode(w, n.value) = w.raw)
  BY <1>4, <1>5, ExportIsGood
<1>7. Present(n.value) /\ Encode(w, n.value) = w.raw
  <2> DEFINE p == n.value
  <2>1. CASE w.type = "string"
    <3>1. p = w.text
      BY <1>4, <2>1 DEF Export, ExportValue, Number
    <3>2. w.text \in Seq(Byte) /\ w.raw = Encode(w, w.text)
      BY <1>s, <1>t, <2>1
    <3>3. NONE \notin Seq(Byte) /\ BAD \notin Seq(Byte)
      BY VariablesAssumption
    <3> HIDE DEF p
    <3>4. Present(p) /\ Encode(w, p) = w.raw
      BY <3>1, <3>2, <3>3 DEF Present
    <3> QED
      BY <3>4 DEF p
  <2>2. CASE w.type \in Number
    <3>1. p \in 0 .. WordMod - 1
      BY <1>6, <2>2 DEF GoodNode
    <3>2. w.type # "string"
      BY <2>2 DEF Number
    <3> QED
      BY <1>6, <3>1, <3>2, NoneIsNoValue DEF Present
  <2>3. CASE w.type = "mac"
    <3>1. p \in [1 .. MacLen -> Byte]
      BY <1>6, <2>3 DEF GoodNode
    <3> QED
      BY <1>6, <2>3, <3>1, NoneIsNoValue DEF Present
  <2> QED
    BY <1>4, <2>1, <2>2, <2>3 DEF Type, Number
<1>8. n.type # NONE
  BY <1>4, <1>6, ConstantFacts
<1>9. x.raw = Encode(l[i], n.value)
  <2>1. \A j \in DOMAIN l : n.type # NONE /\ l[j].name = n.name /\ Present(n.value) =>
            acc.list[j].raw = Encode(l[j], n.value)
    <3>1. \A p \in 1 .. Len(t.nodes) : \A j \in DOMAIN l :
              /\ img.nodes[p].type # NONE /\ l[j].name = img.nodes[p].name
              /\ Present(img.nodes[p].value)
              => acc.list[j].raw = Encode(l[j], img.nodes[p].value)
      BY DEF ImportedUpTo
    <3> QED
      BY <3>1
  <2>2. l[i].name = n.name
    BY <1>1, <1>2, <1>4
  <2> HIDE DEF n
  <2> QED
    BY <1>7, <1>8, <2>1, <2>2 DEF x
<1>10. Encode(l[i], n.value) = Encode(w, n.value)
  <2> DEFINE v == l[i]
             y == n.value
  <2>1. v.type = w.type /\ v.size = w.size
    BY <1>1, <1>2
  <2> HIDE DEF v, y
  <2>2. Encode(v, y) = Encode(w, y)
    BY <2>1, SameEncode
  <2> QED
    BY <2>2 DEF v, y
<1>11. Show(x) = Show(w)
  BY <1>1, <1>6, <1>7, <1>9, <1>10, SameShow
<1> QED
  BY <1>11 DEF x, w

-----------------------------------------------------------------------------
(* Setting a variable *)

LEMMA SetWord ==
    ASSUME NEW f, NEW s, NEW L, StateOf(f, s, L), NEW k \in DOMAIN L,
           NEW in \in Input(L[k].type), ~SetError(L[k], in), L[k].type \in Number
    PROVE  \E n \in 0 .. WordMod - 1 : SetValue(L[k], in) = [L[k] EXCEPT !.raw = LittleEndian(n)]
<1>1. CASE L[k].type \in {"uint8", "uint32"}
  <2>1. in.x \in Nat
    BY <1>1, InputAssumption
  <2>2. in.x % WordMod \in 0 .. WordMod - 1
    BY <2>1, ConstantFacts
  <2>3. SetValue(L[k], in) = [L[k] EXCEPT !.raw = LittleEndian(in.x % WordMod)]
    BY <1>1 DEF SetValue
  <2> QED
    BY <2>2, <2>3
<1>2. CASE L[k].type = "enum32"
  <2> DEFINE names == L[k].names
             I == {i \in 1 .. Len(names) : names[i] = in.x}
             e == EnumIndex(L[k], in.x)
  <2>1. DOMAIN names = 1 .. Len(names) /\ Len(names) \in 0 .. WordMod
    <3>1. PICK q \in 1 .. Len(s.nodes) : ~IsGroup(s.nodes[q]) /\ VarOf(L[k], s.nodes[q])
      BY StateFacts
    <3>2. names = s.nodes[q].names /\ s.nodes[q].type = "enum32"
      BY <1>2, <3>1 DEF VarOf
    <3>3. s.nodes[q].type = "enum32" => DOMAIN s.nodes[q].names = 1 .. Len(s.nodes[q].names)
                                        /\ Len(s.nodes[q].names) \in 0 .. WordMod
      BY <3>1, NodeFacts DEF StateOf
    <3> HIDE DEF names
    <3> QED
      BY <3>2, <3>3
  <2>2. in.x \in Range(names)
    BY <1>2 DEF SetError
  <2>3. I # {} /\ I \subseteq Nat
    BY <2>1, <2>2, ConstantFacts DEF Range
  <2>4. e = Min(I) - 1
    BY <2>3 DEF EnumIndex, SelectInSeq
  <2>5. Min(I) \in I
    <3> HIDE DEF I
    <3> QED
      BY <2>3, MinFacts
  <2> HIDE DEF e
  <2>6. e \in 0 .. WordMod - 1
    <3>1. Min(I) \in 1 .. Len(names)
      BY <2>5
    <3> DEFINE h == Min(I)
               N == Len(names)
    <3>2. h \in 1 .. N /\ N \in 0 .. WordMod /\ WordMod \in Nat /\ e = h - 1
      BY <2>1, <2>4, <3>1, ConstantFacts
    <3> HIDE DEF h, N
    <3> QED
      BY <3>2
  <2>7. SetValue(L[k], in) = [L[k] EXCEPT !.raw = LittleEndian(e)]
    BY <1>2 DEF SetValue, e
  <2> QED
    BY <2>6, <2>7
<1> QED
  BY <1>1, <1>2 DEF Number

LEMMA SetGood ==
    ASSUME NEW f, NEW s, NEW L, StateOf(f, s, L), NEW k \in DOMAIN L,
           NEW in \in Input(L[k].type), ~SetError(L[k], in)
    PROVE  GoodVar(f, SetValue(L[k], in))
<1> DEFINE v == L[k]
           x == SetValue(v, in)
<1>1. DOMAIN v = VarFields /\ v.type \in Type /\ v.size \in Nat
  BY MemoryOf
<1>2. GoodVar(f, v)
  BY DEF StateOf
<1>3. x.type = v.type /\ x.size = v.size /\ DOMAIN x = VarFields
  BY <1>1, SetKeepsVar
<1>4. CASE v.type \in Number
  <2>1. PICK n \in 0 .. WordMod - 1 : x = [v EXCEPT !.raw = LittleEndian(n)]
    BY <1>4, SetWord
  <2> HIDE DEF x, v
  <2>2. x.raw = LittleEndian(n) /\ x.default = v.default
    BY <1>1, <2>1 DEF VarFields
  <2>3. n \in Nat
    BY ConstantFacts
  <2>4. LittleEndian(n) \in [1 .. Word -> Byte] /\ IsWord(LittleEndian(n))
    BY <2>3, LittleEndianBytes DEF IsWord
  <2>5. v.type # "mac" /\ v.type # "string" /\ v.default \in 0 .. WordMod - 1
    BY <1>2, <1>4 DEF Number, GoodVar
  <2>6. GoodVar(f, x)
    BY <1>3, <2>2, <2>4, <2>5 DEF GoodVar
  <2> QED
    BY <2>6 DEF x, v
<1>5. CASE v.type = "mac"
  <2>1. x = [v EXCEPT !.raw = in.x] /\ in.x # BAD
    BY <1>5 DEF SetValue, SetError
  <2>2. in.x \in [1 .. MacLen -> Byte]
    BY <1>5, <2>1, InputAssumption DEF Values, Number
  <2> HIDE DEF x, v
  <2>3. x.raw = in.x /\ x.default = v.default
    BY <1>1, <2>1 DEF VarFields
  <2>4. v.type \notin Number /\ v.type # "string" /\ v.default \in [1 .. MacLen -> Byte]
    BY <1>2, <1>5 DEF Number, GoodVar
  <2>5. GoodVar(f, x)
    BY <1>3, <2>2, <2>3, <2>4 DEF GoodVar
  <2> QED
    BY <2>5 DEF x, v
<1>6. CASE v.type = "string"
  <2>1. x = [v EXCEPT !.raw = Encode(v, in.x), !.text = in.x] /\ ~(Len(in.x) > v.size)
    BY <1>6 DEF SetValue, SetError
  <2>2. in.x \in Seq(Byte)
    BY <1>6, InputAssumption DEF Values, Number
  <2> HIDE DEF x, v
  <2>3. Encode(v, in.x) = in.x \o Zeros(v.size - Len(in.x))
    BY <1>6 DEF Encode, Number, state_string_copy_to_raw
  <2>4. Encode(v, in.x) \in [1 .. v.size -> Byte]
    BY <1>1, <2>1, <2>2, <2>3, PaddedString
  <2>5. x.raw = Encode(v, in.x)
    BY <1>1, <2>1 DEF VarFields
  <2>6. v.type \notin Number /\ v.type # "mac"
    BY <1>6 DEF Number
  <2>7. GoodVar(f, x)
    BY <1>3, <2>4, <2>5, <2>6 DEF GoodVar
  <2> QED
    BY <2>7 DEF x, v
<1> QED
  BY <1>1, <1>4, <1>5, <1>6 DEF Type, Number

LEMMA SetKeepsState ==
    ASSUME NEW f, NEW s, NEW L, StateOf(f, s, L), NEW k \in DOMAIN L,
           NEW in \in Input(L[k].type), ~SetError(L[k], in)
    PROVE  StateOf(f, s, [L EXCEPT ![k] = SetValue(L[k], in)])
<1> DEFINE x == SetValue(L[k], in)
           m == [L EXCEPT ![k] = x]
<1>1. DOMAIN L[k] = VarFields /\ L[k].type \in Type
  BY MemoryOf
<1>2. /\ DOMAIN x = VarFields /\ x.type = L[k].type
      /\ x.start = L[k].start /\ x.size = L[k].size
      /\ x.name = L[k].name /\ x.names = L[k].names
  BY <1>1, SetKeepsVar
<1>3. GoodVar(f, x)
  BY SetGood
<1> HIDE DEF x
<1>4. SameLayout(L, m)
  BY <1>2, StateFacts, ExceptKeepsLayout
<1>5. SameLayout(Variables(s), m)
  BY <1>4, LayoutTrans DEF StateOf
<1>6. \A j \in DOMAIN m : GoodVar(f, m[j])
  BY <1>3 DEF StateOf
<1> HIDE DEF m
<1>7. StateOf(f, s, m)
  BY <1>5, <1>6 DEF StateOf
<1> QED
  BY <1>7 DEF m, x

LEMMA SetKeepsTexts ==
    ASSUME NEW f, NEW s, NEW L, StateOf(f, s, L), TextOk(L), NEW k \in DOMAIN L,
           NEW in \in Input(L[k].type)
    PROVE  TextOk([L EXCEPT ![k] = SetValue(L[k], in)])
<1> DEFINE v == L[k]
           x == SetValue(v, in)
           m == [L EXCEPT ![k] = x]
<1>1. DOMAIN v = VarFields /\ v.type \in Type
  BY MemoryOf
<1>2. x.type = v.type /\ x.size = v.size
  BY <1>1, SetKeepsVar
<1>3. CASE v.type = "string"
  <2>1. in.x \in Seq(Byte)
    BY <1>3, InputAssumption DEF Values, Number
  <2>2. x = [v EXCEPT !.raw = Encode(v, in.x), !.text = in.x]
    BY <1>3 DEF SetValue
  <2> HIDE DEF x, v
  <2>3. x.raw = Encode(v, in.x) /\ x.text = in.x
    BY <1>1, <2>2 DEF VarFields
  <2>4. Encode(x, in.x) = Encode(v, in.x)
    BY <1>2, SameEncode
  <2>5. x.type = "string" /\ x.text \in Seq(Byte) /\ x.raw = Encode(x, x.text)
    BY <1>2, <1>3, <2>1, <2>3, <2>4
  <2>6. \A j \in DOMAIN L : m[j] = IF j = k THEN x ELSE L[j]
    OBVIOUS
  <2>7. DOMAIN m = DOMAIN L
    OBVIOUS
  <2> HIDE DEF m
  <2>8. TextOk(m)
    BY <2>5, <2>6, <2>7 DEF TextOk
  <2> QED
    BY <2>8 DEF m, x, v
<1>4. CASE v.type # "string"
  <2>1. \E r : x = [v EXCEPT !.raw = r]
    BY <1>1, <1>4 DEF SetValue, Type
  <2>2. v.text = NONE
    BY <1>4 DEF TextOk
  <2> HIDE DEF x, v
  <2>3. x.text = NONE
    BY <1>1, <2>1, <2>2 DEF VarFields
  <2>6. \A j \in DOMAIN L : m[j] = IF j = k THEN x ELSE L[j]
    OBVIOUS
  <2>7. DOMAIN m = DOMAIN L
    OBVIOUS
  <2> HIDE DEF m
  <2>8. TextOk(m)
    BY <2>3, <2>6, <2>7 DEF TextOk
  <2> QED
    BY <2>8 DEF m, x, v
<1> QED
  BY <1>3, <1>4

-----------------------------------------------------------------------------
(* What was saved is loaded *)

\* The image and the history are those of the variables L of the state node t.
SavedBy(t, L) ==
    /\ fmt = "raw" => IsRawImage(image, t, L)
    /\ fmt = "dtb" => IsDtbImage(image, t, L)
    /\ TextOk(L)
    /\ kept = [k \in DOMAIN L |-> [var |-> Layout(L[k]), shown |-> Show(L[k]),
                                  set |-> L[k].text # NONE]]

\* Between load and save the variables are those of the state node, with
\* well-formed values, and the image is one that such variables were packed to.
KeptInv ==
    /\ fmt \in {"raw", "dtb"}
    /\ phase # "off" => StateOf(fmt, schema, svs) /\ Len(svs) > 0 /\ TextOk(svs)
    /\ phase = "created" => svs = Variables(schema) /\ \A i \in DOMAIN svs : svs[i].text = NONE
    /\ image # NONE => \E t, L : SavedBy(t, L)
    /\ LoadedAsSaved
    /\ CleanIsStored

\* v, created as c, shows what is stored.
ShowsStored(v, c) ==
    \A k \in DOMAIN kept :
        kept[k].var = Layout(v) /\ IsStored(k) => Show(v) = Restored(c, kept[k].shown)

\* What a load does with the variables that were created.
LoadedWell ==
    /\ StateOf(fmt, schema, svs') /\ SameTexts(svs, svs')
    /\ ret' = "EINVAL" <=> image = NONE \/ ~Readable
    /\ ret' = "EINVAL" => svs' = svs
    /\ ret' = "EILSEQ" =>
          fmt = "dtb" /\ \E q \in DOMAIN image.nodes : image.nodes[q].type = "string"
    /\ ret' \in {"OK", "ENOSPC"} => \A i \in DOMAIN svs' : ShowsStored(svs'[i], svs[i])
    /\ dirty' = (ret' # "OK")

LEMMA CreatedStateOf ==
    ASSUME NEW s \in Schema, Accepted(s), NEW f
    PROVE  /\ StateOf(f, s, Variables(s))
           /\ \A i \in DOMAIN Variables(s) : Variables(s)[i].text = NONE
<1> DEFINE V == Variables(s)
<1>1. V \in Seq(Created(s))
  BY VariablesList DEF ListOf
<1> HIDE DEF V
<1>2. \A i \in DOMAIN V : GoodVar(f, V[i])
  BY <1>1, CreatedGood
<1>3. SameLayout(V, V)
  BY DEF SameLayout
<1>4. \A e \in Created(s) : e.text = NONE
  <2>1. ASSUME NEW e \in Created(s)
        PROVE  e.text = NONE
    <3>1. PICK i \in 1 .. Len(s.nodes) : e = Import(NewVar(s.nodes[i]), s.nodes[i])
      BY <2>1 DEF Created
    <3> DEFINE n == s.nodes[i]
               v == NewVar(n)
    <3>2. DOMAIN v = VarFields /\ v.text = NONE
      BY DEF NewVar, VarFields
    <3> HIDE DEF v, n
    <3>3. e = v \/ e = [v EXCEPT !.default = ImportDefault(v, n),
                                 !.raw = Encode(v, ImportValue(v, n))]
      BY <3>1 DEF Import, v, n
    <3> QED
      BY <3>2, <3>3 DEF VarFields
  <2> QED
    BY <2>1
<1> QED
  BY <1>1, <1>2, <1>3, <1>4 DEF StateOf, V

LEMMA RawLoadStep ==
    ASSUME KeptInv, phase = "created", image # NONE, fmt = "raw",
           Loaded(IF backend_format_raw_verify(image, schema.magic)
                    THEN backend_format_raw_unpack(svs, image)
                    ELSE [ret |-> "EINVAL", list |-> svs])
    PROVE  LoadedWell
<1>1. StateOf("raw", schema, svs)
  BY DEF KeptInv
<1>2. PICK t, L : SavedBy(t, L)
  BY DEF KeptInv
<1>3. IsRawImage(image, t, L)
  BY <1>2 DEF SavedBy
<1>v. /\ backend_format_raw_verify(image, schema.magic) <=> Readable
      /\ Readable => image.data_len = Len(image.data)
  BY <1>3, RawVerified DEF Readable
<1> DEFINE r == backend_format_raw_unpack(svs, image)
<1>4. CASE backend_format_raw_verify(image, schema.magic)
  <2>1. svs' = r.list /\ ret' = r.ret /\ dirty' = (ret' # "OK")
    BY <1>4 DEF Loaded
  <2>2. StateOf("raw", schema, r.list)
    BY <1>1, <1>3, <1>4, RawLoadGood
  <2>3. r.ret \in {"OK", "ENOSPC"} /\ r.list = [i \in DOMAIN svs |-> UnpackVar(svs[i], image)]
    BY DEF backend_format_raw_unpack
  <2>t. \A i \in DOMAIN svs : DOMAIN svs[i] = VarFields
    BY <1>1, StateFacts DEF Apart
  <2> HIDE DEF r
  <2>5. SameTexts(svs, svs')
    BY <2>1, <2>3, <2>t, UnpackedFields DEF SameTexts
  <2>4. ASSUME NEW i \in DOMAIN svs'
        PROVE  ShowsStored(svs'[i], svs[i])
    <3>1. i \in DOMAIN svs /\ svs'[i] = UnpackVar(svs[i], image)
      BY <2>1, <2>3
    <3> DEFINE v == svs[i]
               x == UnpackVar(v, image)
    <3>3. ASSUME NEW k \in DOMAIN kept, kept[k].var = Layout(x)
          PROVE  Show(x) = Restored(v, kept[k].shown)
      <4>1. k \in DOMAIN L /\ kept[k].var = Layout(L[k]) /\ kept[k].shown = Show(L[k])
        BY <1>2 DEF SavedBy
      <4>2. Layout(x) = Layout(L[k])
        BY <3>3, <4>1
      <4>3. Show(x) = IF v.type = "uint8" /\ (Num(v.raw) >= Base \/ Show(L[k]) >= Base)
                        THEN Num([v.raw EXCEPT ![1] = LittleEndian(Show(L[k]))[1]])
                        ELSE Show(L[k])
        BY <1>1, <1>3, <1>4, <1>v, <3>1, <4>1, <4>2, RawLoadKept
      <4> HIDE DEF x, v
      <4> QED
        BY <4>1, <4>3 DEF Restored
    <3> HIDE DEF x, v
    <3>4. ShowsStored(x, v)
      BY <3>3 DEF ShowsStored
    <3> QED
      BY <3>1, <3>4 DEF x, v
  <2> QED
    BY <1>4, <1>v, <2>1, <2>2, <2>3, <2>4, <2>5 DEF LoadedWell
<1>5. CASE ~backend_format_raw_verify(image, schema.magic)
  <2>1. svs' = svs /\ ret' = "EINVAL" /\ dirty' = (ret' # "OK")
    BY <1>5 DEF Loaded
  <2>2. SameTexts(svs, svs')
    BY <2>1 DEF SameTexts
  <2> QED
    BY <1>1, <1>5, <1>v, <2>1, <2>2 DEF LoadedWell
<1> QED
  BY <1>4, <1>5

LEMMA DtbLoadStep ==
    ASSUME KeptInv, phase = "created", image # NONE, fmt = "dtb", NEW junk,
           Loaded(state_from_node(svs, image, schema.magic, junk))
    PROVE  LoadedWell
<1>1. StateOf("dtb", schema, svs)
  BY DEF KeptInv
<1>2. PICK t, L : SavedBy(t, L)
  BY DEF KeptInv
<1>3. IsDtbImage(image, t, L) /\ TextOk(L)
  BY <1>2 DEF SavedBy
<1>v. Readable <=> ~(schema.magic # 0 /\ schema.magic # image.magic)
  BY DEF Readable
<1> DEFINE r == state_from_node(svs, image, schema.magic, junk)
<1>4. svs' = r.list /\ ret' = r.ret /\ dirty' = (ret' # "OK")
  BY DEF Loaded
<1>5. IF schema.magic # 0 /\ schema.magic # image.magic
        THEN r = [ret |-> "EINVAL", list |-> svs]
        ELSE ImportedUpTo(r, schema, svs, image, Len(t.nodes))
  BY <1>1, <1>3, DtbLoad
<1> HIDE DEF r
<1>6. CASE schema.magic # 0 /\ schema.magic # image.magic
  <2>1. svs' = svs /\ ret' = "EINVAL"
    BY <1>4, <1>5, <1>6
  <2>2. SameTexts(svs, svs')
    BY <2>1 DEF SameTexts
  <2> QED
    BY <1>1, <1>4, <1>6, <1>v, <2>1, <2>2 DEF LoadedWell
<1>7. CASE ~(schema.magic # 0 /\ schema.magic # image.magic)
  <2>1. ImportedUpTo(r, schema, svs, image, Len(t.nodes))
    BY <1>5, <1>7
  <2>2. /\ StateOf("dtb", schema, svs') /\ DOMAIN svs' = DOMAIN svs
        /\ SameTexts(svs, svs')
    BY <1>4, <2>1 DEF ImportedUpTo, SameLayout
  <2>4. \/ ret' = "OK"
        \/ ret' = "EILSEQ" /\ \E q \in DOMAIN image.nodes : image.nodes[q].type = "string"
    BY <1>4, <2>1 DEF ImportedUpTo
  <2>5. ASSUME ret' = "OK", NEW i \in DOMAIN svs'
        PROVE  ShowsStored(svs'[i], svs[i])
    <3> DEFINE x == r.list[i]
               v == svs[i]
    <3>1. i \in DOMAIN svs /\ svs'[i] = x
      BY <1>4, <2>2
    <3>2. ASSUME NEW k \in DOMAIN kept, kept[k].var = Layout(x), IsStored(k)
          PROVE  Show(x) = Restored(v, kept[k].shown)
      <4>1. /\ k \in DOMAIN L /\ kept[k].var = Layout(L[k]) /\ kept[k].shown = Show(L[k])
            /\ kept[k].set = (L[k].text # NONE)
        BY <1>2 DEF SavedBy
      <4>2. Layout(x) = Layout(L[k])
        BY <3>2, <4>1
      <4>4. L[k].type = "string" => L[k].text # NONE
        <5>1. kept[k].var.type = L[k].type
          BY <4>1 DEF Layout
        <5>2. L[k].type = "string" => kept[k].set
          BY <3>2, <5>1 DEF IsStored
        <5> QED
          BY <4>1, <5>2
      <4>5. r.ret = "OK" /\ i \in DOMAIN svs /\ k \in DOMAIN L
        BY <1>4, <2>5, <3>1, <4>1
      <4>6. Layout(r.list[i]) = Layout(L[k])
        BY <4>2
      <4>3. Show(x) = Show(L[k])
        BY <1>1, <1>3, <2>1, <4>4, <4>5, <4>6, DtbLoadKept
      <4> QED
        BY <4>1, <4>3 DEF Restored
    <3> HIDE DEF x, v
    <3>3. ShowsStored(x, v)
      BY <3>2 DEF ShowsStored
    <3> QED
      BY <3>1, <3>3 DEF v
  <2> QED
    BY <1>4, <1>7, <1>v, <2>2, <2>4, <2>5 DEF LoadedWell
<1> QED
  BY <1>6, <1>7

LEMMA LoadKeepsKept ==
    ASSUME KeptInv, state_do_load
    PROVE  KeptInv'
<1>1. /\ phase = "created" /\ phase' = "loaded" /\ UNCHANGED <<fmt, schema, image, kept>>
      /\ StateOf(fmt, schema, svs) /\ Len(svs) > 0
      /\ svs = Variables(schema) /\ \A i \in DOMAIN svs : svs[i].text = NONE
  BY DEF KeptInv, state_do_load
<1>2. LoadedWell
  <2>1. CASE image = NONE /\ Loaded([ret |-> "EINVAL", list |-> svs])
    <3>1. svs' = svs /\ ret' = "EINVAL" /\ dirty' = (ret' # "OK")
      BY <2>1 DEF Loaded
    <3>2. SameTexts(svs, svs')
      BY <3>1 DEF SameTexts
    <3> QED
      BY <1>1, <2>1, <3>1, <3>2 DEF LoadedWell
  <2>2. CASE /\ image # NONE /\ fmt = "raw"
             /\ Loaded(IF backend_format_raw_verify(image, schema.magic)
                         THEN backend_format_raw_unpack(svs, image)
                         ELSE [ret |-> "EINVAL", list |-> svs])
    BY <1>1, <2>2, RawLoadStep
  <2>3. ASSUME image # NONE, fmt = "dtb",
               NEW junk, Loaded(state_from_node(svs, image, schema.magic, junk))
        PROVE  LoadedWell
    BY <1>1, <2>3, DtbLoadStep
  <2> QED
    BY <2>1, <2>2, <2>3 DEF state_do_load
<1>3. /\ Len(svs') > 0 /\ DOMAIN svs' = DOMAIN svs
      /\ \A i \in DOMAIN svs' : svs'[i].text = NONE
  <2>1. SameLayout(Variables(schema), svs')
    BY <1>2 DEF LoadedWell, StateOf
  <2>2. Len(svs') = Len(svs) /\ DOMAIN svs' = DOMAIN svs
    BY <1>1, <2>1 DEF SameLayout
  <2> QED
    BY <1>1, <1>2, <2>2 DEF LoadedWell, SameTexts
<1>4. TextOk(svs')
  BY <1>3 DEF TextOk
<1>5. Readable' = Readable /\ \A i : ShowsKept(i)' <=> ShowsStored(svs'[i], svs[i])
  BY <1>1 DEF Readable, ShowsKept, ShowsStored, IsStored, Restored
<1>6. LoadedAsSaved' /\ CleanIsStored'
  BY <1>1, <1>2, <1>5 DEF LoadedWell, LoadedAsSaved, CleanIsStored
<1>7. image' # NONE => \E t, L : SavedBy(t, L)'
  BY <1>1 DEF KeptInv, SavedBy
<1>8. StateOf(fmt', schema', svs') /\ fmt' \in {"raw", "dtb"}
  BY <1>1, <1>2 DEF LoadedWell, KeptInv
<1> QED
  BY <1>1, <1>3, <1>4, <1>6, <1>7, <1>8 DEF KeptInv

LEMMA SetKeepsKept ==
    ASSUME KeptInv, NEW k \in Settable, NEW in \in Input(svs[k].type), state_set_var(k, in)
    PROVE  KeptInv'
<1>1. /\ phase \in {"loaded", "changed"} /\ phase' = "changed"
      /\ UNCHANGED <<fmt, schema, ret, image, kept>>
      /\ StateOf(fmt, schema, svs) /\ Len(svs) > 0 /\ TextOk(svs) /\ k \in DOMAIN svs
  BY DEF KeptInv, state_set_var, Settable
<1>2. image' # NONE => \E t, L : SavedBy(t, L)'
  BY <1>1 DEF KeptInv, SavedBy
<1>3. LoadedAsSaved'
  BY <1>1 DEF LoadedAsSaved
<1>4. CASE UNCHANGED <<svs, dirty>>
  <2>2. \A i : ShowsKept(i)' <=> ShowsKept(i)
    BY <1>1, <1>4 DEF ShowsKept, IsStored, Restored
  <2>1. CleanIsStored'
    BY <1>1, <1>4, <2>2 DEF KeptInv, CleanIsStored
  <2> QED
    BY <1>1, <1>2, <1>3, <1>4, <2>1 DEF KeptInv
<1>5. CASE /\ ~SetError(svs[k], in)
           /\ svs' = [svs EXCEPT ![k] = SetValue(svs[k], in)]
           /\ dirty' = TRUE
  <2>1. StateOf(fmt, schema, svs') /\ TextOk(svs')
    BY <1>1, <1>5, SetKeepsState, SetKeepsTexts
  <2>2. Len(svs') > 0
    BY <1>1, <2>1 DEF StateOf, SameLayout
  <2>3. CleanIsStored'
    BY <1>5 DEF CleanIsStored
  <2> QED
    BY <1>1, <1>2, <1>3, <2>1, <2>2, <2>3 DEF KeptInv
<1> QED
  BY <1>4, <1>5 DEF state_set_var

LEMMA SaveKeepsKept ==
    ASSUME KeptInv, state_save
    PROVE  KeptInv'
<1>1. /\ phase # "off" /\ phase' = "off" /\ fmt' = fmt /\ fmt \in {"raw", "dtb"}
      /\ StateOf(fmt, schema, svs) /\ Len(svs) > 0 /\ TextOk(svs)
  BY DEF KeptInv, state_save, Off
<1>2. \E t, L : SavedBy(t, L)'
  <2>1. /\ fmt = "raw" => image' = backend_format_raw_pack(svs, schema.magic)
        /\ fmt = "dtb" => image' = state_backend_format_dtb_pack(svs, schema)
        /\ kept' = [k \in DOMAIN svs |-> [var |-> Layout(svs[k]), shown |-> Show(svs[k]),
                                         set |-> svs[k].text # NONE]]
    BY <1>1 DEF state_save
  <2>2. fmt = "raw" => IsRawImage(image', schema, svs)
    BY <1>1, <2>1 DEF IsRawImage
  <2>3. fmt = "dtb" => IsDtbImage(image', schema, svs)
    BY <1>1, <2>1 DEF IsDtbImage
  <2> QED
    BY <1>1, <2>1, <2>2, <2>3 DEF SavedBy
<1> QED
  BY <1>1, <1>2 DEF KeptInv, LoadedAsSaved, CleanIsStored

LEMMA KeptInvHolds ==
    ASSUME NoEmptyState
    PROVE  VarsSpec => []KeptInv
<1>1. VarsInit => KeptInv
  BY DEF VarsInit, KeptInv, LoadedAsSaved, CleanIsStored
<1>2. ASSUME KeptInv, [VarsNext]_stateVars
      PROVE  KeptInv'
  <2> USE <1>2
  <2>1. CASE UNCHANGED stateVars
    <3>1. image' # NONE => \E t, L : SavedBy(t, L)'
      BY <2>1 DEF KeptInv, SavedBy, stateVars, run
    <3>3. Readable' = Readable /\ \A i : ShowsKept(i)' <=> ShowsKept(i)
      BY <2>1 DEF Readable, ShowsKept, IsStored, Restored, stateVars, run
    <3>2. LoadedAsSaved' /\ CleanIsStored'
      BY <2>1, <3>3 DEF KeptInv, LoadedAsSaved, CleanIsStored, stateVars, run
    <3> QED
      BY <2>1, <3>1, <3>2 DEF KeptInv, stateVars, run
  <2>o. ASSUME phase' = "off", UNCHANGED <<fmt, image, kept>>
        PROVE  KeptInv'
    <3>1. image' # NONE => \E t, L : SavedBy(t, L)'
      BY <2>o DEF KeptInv, SavedBy
    <3> QED
      BY <2>o, <3>1 DEF KeptInv, LoadedAsSaved, CleanIsStored
  <2>2. ASSUME NEW s \in Schema, state_new_from_node(s)
        PROVE  KeptInv'
    <3>1. /\ Accepted(s) /\ phase' = "created" /\ schema' = s /\ svs' = Variables(s)
          /\ UNCHANGED <<fmt, image, kept>>
      BY <2>2 DEF state_new_from_node
    <3>2. /\ StateOf(fmt, s, Variables(s)) /\ Len(Variables(s)) > 0
          /\ \A i \in DOMAIN Variables(s) : Variables(s)[i].text = NONE
      BY <3>1, CreatedStateOf DEF NoEmptyState
    <3>4. TextOk(Variables(s))
      BY <3>2 DEF TextOk
    <3>3. image' # NONE => \E t, L : SavedBy(t, L)'
      BY <3>1 DEF KeptInv, SavedBy
    <3> QED
      BY <3>1, <3>2, <3>3, <3>4 DEF KeptInv, LoadedAsSaved, CleanIsStored
  <2>3. CASE state_do_load
    BY <2>3, LoadKeepsKept
  <2>4. ASSUME NEW k \in Settable, NEW in \in Input(svs[k].type), state_set_var(k, in)
        PROVE  KeptInv'
    BY <2>4, SetKeepsKept
  <2>5. ASSUME NEW k \in Settable, NEW in \in Input(svs[k].type), SetFails(k, in)
        PROVE  KeptInv'
    BY <2>5, <2>o DEF SetFails, Off
  <2>6. CASE state_save
    BY <2>6, SaveKeepsKept
  <2>7. CASE Exit
    BY <2>7, <2>o DEF Exit, Off
  <2> QED
    BY <2>1, <2>2, <2>3, <2>4, <2>5, <2>6, <2>7 DEF VarsNext
<1> QED
  BY <1>1, <1>2, PTL DEF VarsSpec

\* For all device trees, images and updates of the tree: a load refuses just
\* the images of another magic and those of more data than data_len counts,
\* fails otherwise only on the strings of a dtb image, and else every variable
\* that is still the same shows what was saved - an uint8 wider than a byte its
\* lowest byte, a string of the dtb format if it had been set (pack, verify and
\* unpack; state_to_node and state_from_node).
THEOREM LoadedAsSavedHolds ==
    ASSUME NoEmptyState
    PROVE  VarsSpec => []LoadedAsSaved
<1>1. KeptInv => LoadedAsSaved
  BY DEF KeptInv
<1> QED
  BY <1>1, KeptInvHolds, PTL

\* Under the same hypothesis: a run that leaves the state clean shows what is
\* stored, in the same sense, so that it may end without a save (state_set_var,
\* state_do_load).
THEOREM CleanIsStoredHolds ==
    ASSUME NoEmptyState
    PROVE  VarsSpec => []CleanIsStored
<1>1. KeptInv => CleanIsStored
  BY DEF KeptInv
<1> QED
  BY <1>1, KeptInvHolds, PTL
=============================================================================
