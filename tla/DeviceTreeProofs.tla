-------------------------- MODULE DeviceTreeProofs --------------------------
(***************************************************************************)
(* Proofs about the device tree library, for any number of nodes.          *)
(***************************************************************************)
EXTENDS DeviceTree, LibraryProofs, FiniteSetTheorems

Props == [name : AliasName \cup {"phandle", "status"},
          val : [path : Paths] \cup [u32 : Nat] \cup [status : {"disabled"}]]

NodeRec == [parent : NodeId \cup {NULL}, name : NodeName \cup {"/"},
            children : Seq(NodeId), props : Seq(Props), phandle : Nat]

IsForest(f) ==
    /\ f = [node |-> f.node, order |-> f.order]
    /\ Allocated(f) \subseteq NodeId /\ f.node \in [Allocated(f) -> NodeRec]
    /\ Roots(f) \subseteq NodeId /\ f.order \in [Roots(f) -> Seq(NodeId)]

\* The linear list of the tree at r: the root first, each node once, every
\* other node behind its parent.
Listed(f, r) ==
    LET o == f.order[r] IN
    /\ o # <<>> /\ o[1] = r
    /\ \A i, j \in 1 .. Len(o) : o[i] = o[j] => i = j
    /\ \A k \in 1 .. Len(o) : o[k] \in Allocated(f)
    /\ \A k \in 2 .. Len(o) : \E j \in 1 .. k - 1 : f.node[o[k]].parent = o[j]

\* The two lists of each node fit together, and every node is in its tree's.
Shaped(f) ==
    /\ IsForest(f)
    /\ Roots(f) = {n \in Allocated(f) : f.node[n].parent = NULL}
    /\ \A r \in Roots(f) : Listed(f, r)
    /\ \A n \in Allocated(f) :
          \E r \in Roots(f) : \E k \in 1 .. Len(f.order[r]) : f.order[r][k] = n
    /\ \A n \in Allocated(f) :
          LET c == f.node[n].children IN
          /\ \A i \in 1 .. Len(c) : c[i] \in Allocated(f) /\ f.node[c[i]].parent = n
          /\ f.node[n].parent # NULL =>
                LET s == f.node[f.node[n].parent].children IN
                \E i \in 1 .. Len(s) : s[i] = n

\* The properties of a node have different names, and its phandle is one.
Consistent(d) ==
    /\ \A i, j \in 1 .. Len(d.props) : d.props[i].name = d.props[j].name => i = j
    /\ d.phandle <= MaxHandle
    /\ d.phandle # 0 =>
          \E i \in 1 .. Len(d.props) : d.props[i] = Prop("phandle", HandleVal(d.phandle))

\* No two nodes of a tree have the same phandle.
HandlesDiffer(f) ==
    \A r \in Roots(f) :
        LET o == f.order[r] IN
        \A i, j \in 1 .. Len(o) :
            f.node[o[i]].phandle # 0 /\ f.node[o[i]].phandle = f.node[o[j]].phandle
                => i = j

\* In the linear list of the tree at r each subtree is in one piece.
InOnePiece(f, r) ==
    \A i, k \in 1 .. Len(f.order[r]) : \A j \in i .. k :
        f.order[r][k] \in Subtree(f, f.order[r][i]) =>
            f.order[r][j] \in Subtree(f, f.order[r][i])

ChildrenOnce(f, n) ==
    \A i, j \in 1 .. Len(f.node[n].children) :
        f.node[n].children[i] = f.node[n].children[j] => i = j

Neat(f) ==
    /\ \A r \in Roots(f) : InOnePiece(f, r)
    /\ \A n \in Allocated(f) : ChildrenOnce(f, n)

\* Everything that holds of the nodes and lists at all times.
Sound(f) ==
    /\ Shaped(f) /\ Neat(f) /\ HandlesDiffer(f)
    /\ \A n \in Allocated(f) : Consistent(f.node[n])

\* A tree that is root_node is there.
RootStands == root_node # NULL => root_node \in Roots(forest)

TreeInv == Sound(forest) /\ RootStands

-----------------------------------------------------------------------------
(* The way up *)

N == Cardinality(NodeId)

LEMMA NIsNat == N \in Nat
BY TreeAssumption, FS_CardinalityType DEF N

\* The parent of every node that has one is a node.
Climbable(f) == \A n \in Allocated(f) : Above(f, n) \in Allocated(f)

LEMMA WayUpFacts ==
    ASSUME NEW f, Climbable(f), NEW n \in Allocated(f)
    PROVE  /\ WayUp(f, n) \in [0 .. N -> Allocated(f)]
           /\ WayUp(f, n)[0] = n
           /\ \A k \in 1 .. N : WayUp(f, n)[k] = Above(f, WayUp(f, n)[k - 1])
<1> DEFINE S == Allocated(f)
           F == [x \in S \X (1 .. N) |-> Above(f, x[1])]
<1>1. ASSUME NEW v \in S, NEW k \in 1 .. N
      PROVE  F[<<v, k>>] = Above(f, v) /\ Above(f, v) \in S
  BY DEF Climbable
<1>2. n \in S /\ N \in Nat
  BY NIsNat
<1>3. F \in [S \X (1 .. N) -> S]
  BY <1>1
<1> HIDE DEF S, F
<1>4. PICK u : Recursive(u, N, S, n, F)
  BY <1>2, <1>3, RecursionExists
<1>5. u \in [0 .. N -> S] /\ u[0] = n /\ \A k \in 1 .. N : u[k] = F[<<u[k - 1], k>>]
  BY <1>4 DEF Recursive
<1>6. ASSUME NEW k \in 1 .. N PROVE u[k] = Above(f, u[k - 1])
  <2>1. u[k - 1] \in S
    BY <1>2, <1>5
  <2> QED
    BY <1>1, <1>5, <2>1
<1> DEFINE Up == CHOOSE g : g = [k \in 0 .. N |-> IF k = 0 THEN n ELSE Above(f, g[k - 1])]
<1>7. u = [k \in 0 .. N |-> IF k = 0 THEN n ELSE Above(f, u[k - 1])]
  <2>1. \A k \in 0 .. N : u[k] = IF k = 0 THEN n ELSE Above(f, u[k - 1])
    BY <1>2, <1>5, <1>6
  <2>2. u = [k \in 0 .. N |-> u[k]]
    BY <1>5
  <2> QED
    BY <2>1, <2>2
<1>8. Up = [k \in 0 .. N |-> IF k = 0 THEN n ELSE Above(f, Up[k - 1])]
  BY <1>7
<1>9. WayUp(f, n) = Up
  BY DEF WayUp, N
<1> HIDE DEF Up
<1>10. Up[0] = n /\ \A k \in 1 .. N : Up[k] = Above(f, Up[k - 1])
  BY <1>2, <1>8
<1> DEFINE T == {k \in Nat : k <= N => Up[k] \in S}
<1>11. 0 \in T
  BY <1>2, <1>10
<1>12. ASSUME NEW k \in Nat, k \in T PROVE k + 1 \in T
  <2> SUFFICES ASSUME k + 1 <= N PROVE Up[k + 1] \in S
    OBVIOUS
  <2>1. Up[k] \in S /\ k + 1 \in 1 .. N /\ (k + 1) - 1 = k
    BY <1>2, <1>12
  <2>2. Up[k + 1] = Above(f, Up[k])
    BY <1>10, <2>1
  <2> QED
    BY <1>1, <2>1, <2>2
<1>13. Nat \subseteq T
  <2> HIDE DEF T
  <2> QED
    BY <1>11, <1>12, NatSetInduction
<1>14. \A k \in 0 .. N : Up[k] \in S
  BY <1>2, <1>13
<1>15. Up \in [0 .. N -> S]
  BY <1>8, <1>14
<1> QED
  BY <1>9, <1>10, <1>15 DEF S

LEMMA NodeTypes ==
    ASSUME NEW f, Shaped(f)
    PROVE  /\ \A n \in Allocated(f) :
                 /\ n \in NodeId /\ n # NULL /\ f.node[n] \in NodeRec
                 /\ f.node[n].children \in Seq(NodeId) /\ f.node[n].props \in Seq(Props)
                 /\ f.node[n].phandle \in Nat
                 /\ f.node[n].parent # NULL => f.node[n].parent \in Allocated(f)
           /\ \A r \in Roots(f) :
                 /\ r \in Allocated(f) /\ f.node[r].parent = NULL
                 /\ f.order[r] \in Seq(NodeId) /\ Len(f.order[r]) \in Nat \ {0}
                 /\ f.order[r][1] = r
           /\ \A n \in Allocated(f) : f.node[n].parent = NULL => n \in Roots(f)
           /\ Climbable(f)
<1>1. IsForest(f)
  BY DEF Shaped
<1>2. ASSUME NEW n \in Allocated(f)
      PROVE  /\ n \in NodeId /\ n # NULL /\ f.node[n] \in NodeRec
             /\ f.node[n].children \in Seq(NodeId) /\ f.node[n].props \in Seq(Props)
             /\ f.node[n].phandle \in Nat
  <2>1. n \in NodeId /\ n # NULL
    BY <1>1, TreeAssumption DEF IsForest
  <2>2. f.node[n] \in NodeRec
    BY <1>1 DEF IsForest
  <2> DEFINE d == f.node[n]
  <2>3. d \in NodeRec
    BY <2>2
  <2> HIDE DEF d
  <2>4. d.children \in Seq(NodeId) /\ d.props \in Seq(Props) /\ d.phandle \in Nat
    BY <2>3 DEF NodeRec
  <2> QED
    BY <2>1, <2>2, <2>4 DEF d
<1>3. ASSUME NEW r \in Roots(f)
      PROVE  /\ r \in Allocated(f) /\ f.node[r].parent = NULL
             /\ f.order[r] \in Seq(NodeId) /\ Len(f.order[r]) \in Nat \ {0}
             /\ f.order[r][1] = r
  <2>1. r \in Allocated(f) /\ f.node[r].parent = NULL
    BY DEF Shaped
  <2>2. f.order[r] \in Seq(NodeId)
    BY <1>1 DEF IsForest
  <2>3. f.order[r] # <<>> /\ f.order[r][1] = r
    BY DEF Shaped, Listed
  <2> QED
    BY <2>1, <2>2, <2>3, EmptySeq
<1>4. ASSUME NEW n \in Allocated(f), f.node[n].parent # NULL
      PROVE  f.node[n].parent \in Allocated(f)
  <2>1. PICK r \in Roots(f) : \E k \in 1 .. Len(f.order[r]) : f.order[r][k] = n
    BY DEF Shaped
  <2>2. PICK k \in 1 .. Len(f.order[r]) : f.order[r][k] = n
    BY <2>1
  <2>3. Len(f.order[r]) \in Nat /\ f.order[r][1] = r /\ f.node[r].parent = NULL
    BY <1>3
  <2>4. k \in 2 .. Len(f.order[r])
    BY <1>4, <2>2, <2>3
  <2>5. Listed(f, r)
    BY DEF Shaped
  <2>6. PICK j \in 1 .. k - 1 : f.node[f.order[r][k]].parent = f.order[r][j]
    BY <2>4, <2>5 DEF Listed
  <2>7. j \in 1 .. Len(f.order[r])
    BY <2>3, <2>4
  <2>8. f.order[r][j] \in Allocated(f)
    BY <2>5, <2>7 DEF Listed
  <2> QED
    BY <2>2, <2>6, <2>8
<1>5. Climbable(f)
  BY <1>4 DEF Climbable, Above
<1>6. \A n \in Allocated(f) : f.node[n].parent = NULL => n \in Roots(f)
  BY DEF Shaped
<1> QED
  BY <1>2, <1>3, <1>4, <1>5, <1>6

\* A list of nodes that holds each once is not longer than there are nodes.
LEMMA ListBounded ==
    ASSUME NEW o \in Seq(NodeId), \A i, j \in 1 .. Len(o) : o[i] = o[j] => i = j
    PROVE  Len(o) <= N
<1>1. o \in [1 .. Len(o) -> NodeId] /\ Len(o) \in Nat
  OBVIOUS
<1>2. o \in Injection(1 .. Len(o), NodeId)
  BY <1>1 DEF Injection, IsInjective
<1>3. Cardinality(1 .. Len(o)) <= Cardinality(NodeId)
  <2> DEFINE S == 1 .. Len(o)
  <2>1. IsFiniteSet(NodeId)
    BY TreeAssumption
  <2>2. o \in Injection(S, NodeId)
    BY <1>2
  <2> HIDE DEF S
  <2>3. Cardinality(S) <= Cardinality(NodeId)
    BY <2>1, <2>2, FS_Injection
  <2> QED
    BY <2>3 DEF S
<1>4. Cardinality(1 .. Len(o)) = Len(o)
  <2>1. 1 \in Int /\ Len(o) \in Int
    BY <1>1
  <2>2. Cardinality(1 .. Len(o)) = IF 1 > Len(o) THEN 0 ELSE Len(o) - 1 + 1
    BY <2>1, FS_Interval
  <2> QED
    BY <1>1, <2>2
<1> QED
  BY <1>3, <1>4 DEF N

LEMMA OrderBounded ==
    ASSUME NEW f, Shaped(f), NEW r \in Roots(f)
    PROVE  Len(f.order[r]) <= N
<1> DEFINE o == f.order[r]
<1>1. o \in Seq(NodeId)
  BY NodeTypes
<1>2. \A i, j \in 1 .. Len(o) : o[i] = o[j] => i = j
  BY DEF Shaped, Listed
<1> HIDE DEF o
<1>3. Len(o) <= N
  BY <1>1, <1>2, ListBounded
<1> QED
  BY <1>3 DEF o

\* From a node of the list the way up stays in the list and ends at its root.
LEMMA WayToRoot ==
    ASSUME NEW f, Shaped(f), NEW r \in Roots(f), NEW k \in 1 .. Len(f.order[r])
    PROVE  LET up == WayUp(f, f.order[r][k]) IN
           /\ \A j \in 0 .. N : \E p \in 1 .. Len(f.order[r]) : up[j] = f.order[r][p]
           /\ up[N] = r
<1> DEFINE o == f.order[r]
           n == o[k]
           up == WayUp(f, n)
           T == {j \in Nat : j <= N =>
                    \E p \in 1 .. Len(o) : up[j] = o[p] /\ (p = 1 \/ p + j <= k)}
<1>1. Listed(f, r) /\ Len(o) \in Nat \ {0} /\ o[1] = r /\ f.node[r].parent = NULL
  BY NodeTypes DEF Shaped
<1>2. n \in Allocated(f)
  BY <1>1 DEF Listed
<1>3. /\ up[0] = n
      /\ \A j \in 1 .. N : up[j] = Above(f, up[j - 1])
  <2>1. Climbable(f)
    BY NodeTypes
  <2> QED
    BY <1>2, <2>1, WayUpFacts
<1>4. N \in Nat /\ Len(o) <= N
  BY NIsNat, OrderBounded
<1>5. \A p \in 2 .. Len(o) : \E q \in 1 .. p - 1 : f.node[o[p]].parent = o[q]
  BY <1>1 DEF Listed
<1>6. \A p \in 1 .. Len(o) : o[p] # NULL
  <2>1. \A p \in 1 .. Len(o) : o[p] \in Allocated(f)
    BY <1>1 DEF Listed
  <2> QED
    BY <2>1, NodeTypes
<1>7. n = o[k]
  OBVIOUS
<1> HIDE DEF o, n, up
<1>8. 0 \in T
  BY <1>3, <1>7 DEF o
<1>9. ASSUME NEW j \in Nat, j \in T PROVE j + 1 \in T
  <2> SUFFICES ASSUME j + 1 <= N
               PROVE  \E p \in 1 .. Len(o) :
                         up[j + 1] = o[p] /\ (p = 1 \/ p + (j + 1) <= k)
    OBVIOUS
  <2>1. PICK p \in 1 .. Len(o) : up[j] = o[p] /\ (p = 1 \/ p + j <= k)
    BY <1>4, <1>9
  <2>2. up[j + 1] = Above(f, o[p])
    <3>1. j + 1 \in 1 .. N /\ (j + 1) - 1 = j
      BY <1>4
    <3> QED
      BY <1>3, <2>1, <3>1
  <2>3. CASE p = 1
    <3>1. up[j + 1] = o[1]
      BY <1>1, <2>2, <2>3 DEF Above
    <3> QED
      BY <1>1, <3>1
  <2>4. CASE p # 1
    <3>1. p \in 2 .. Len(o)
      BY <1>1, <2>4
    <3>2. PICK q \in 1 .. p - 1 : f.node[o[p]].parent = o[q]
      BY <1>5, <3>1
    <3>3. q \in 1 .. Len(o)
      BY <1>1, <3>1
    <3>4. up[j + 1] = o[q]
      BY <1>6, <2>2, <3>2, <3>3 DEF Above
    <3>5. q + (j + 1) <= k
      BY <2>1, <2>4, <3>2
    <3> QED
      BY <3>3, <3>4, <3>5
  <2> QED
    BY <2>3, <2>4
<1>10. Nat \subseteq T
  <2> HIDE DEF T
  <2> QED
    BY <1>8, <1>9, NatSetInduction
<1>11. \A j \in 0 .. N : \E p \in 1 .. Len(o) : up[j] = o[p]
  BY <1>4, <1>10
<1>12. up[N] = r
  <2>1. PICK p \in 1 .. Len(o) : up[N] = o[p] /\ (p = 1 \/ p + N <= k)
    BY <1>4, <1>10
  <2>2. k \in 1 .. Len(o)
    BY DEF o
  <2>3. p = 1
    BY <1>1, <1>4, <2>1, <2>2
  <2> QED
    BY <1>1, <2>1, <2>3
<1> QED
  BY <1>11, <1>12 DEF o, n, up

LEMMA RootOf ==
    ASSUME NEW f, Shaped(f), NEW n \in Allocated(f)
    PROVE  LET r == of_find_root_node(f, n) IN
           /\ r \in Roots(f)
           /\ \E k \in 1 .. Len(f.order[r]) : f.order[r][k] = n
           /\ \A q \in Roots(f) : (\E k \in 1 .. Len(f.order[q]) : f.order[q][k] = n) => q = r
           /\ \A j \in 0 .. N : of_find_root_node(f, WayUp(f, n)[j]) = r
<1>1. ASSUME NEW m, NEW q \in Roots(f), \E k \in 1 .. Len(f.order[q]) : f.order[q][k] = m
      PROVE  of_find_root_node(f, m) = q
  <2>1. PICK k \in 1 .. Len(f.order[q]) : f.order[q][k] = m
    BY <1>1
  <2>2. WayUp(f, f.order[q][k])[N] = q
    BY WayToRoot
  <2> QED
    BY <2>1, <2>2 DEF of_find_root_node, N
<1>2. PICK r \in Roots(f) : \E k \in 1 .. Len(f.order[r]) : f.order[r][k] = n
  BY DEF Shaped
<1>3. of_find_root_node(f, n) = r
  BY <1>1, <1>2
<1>4. ASSUME NEW j \in 0 .. N PROVE of_find_root_node(f, WayUp(f, n)[j]) = r
  <2>1. PICK k \in 1 .. Len(f.order[r]) : f.order[r][k] = n
    BY <1>2
  <2>2. \E p \in 1 .. Len(f.order[r]) : WayUp(f, f.order[r][k])[j] = f.order[r][p]
    <3>1. \A i \in 0 .. N : \E p \in 1 .. Len(f.order[r]) :
             WayUp(f, f.order[r][k])[i] = f.order[r][p]
      BY WayToRoot
    <3> QED
      BY <3>1
  <2>3. PICK p \in 1 .. Len(f.order[r]) : f.order[r][p] = WayUp(f, n)[j]
    BY <2>1, <2>2
  <2> QED
    BY <1>1, <2>3
<1> QED
  BY <1>1, <1>2, <1>3, <1>4

\* The way up from a root stays at it.
LEMMA RootStays ==
    ASSUME NEW f, Shaped(f), NEW r \in Roots(f)
    PROVE  \A k \in 0 .. N : WayUp(f, r)[k] = r
<1> DEFINE up == WayUp(f, r)
           T == {k \in Nat : k <= N => up[k] = r}
<1>1. r \in Allocated(f) /\ f.node[r].parent = NULL /\ Climbable(f) /\ N \in Nat
  BY NodeTypes, NIsNat
<1>2. up[0] = r /\ \A k \in 1 .. N : up[k] = Above(f, up[k - 1])
  BY <1>1, WayUpFacts
<1> HIDE DEF up
<1>3. 0 \in T
  BY <1>2
<1>4. ASSUME NEW k \in Nat, k \in T PROVE k + 1 \in T
  <2> SUFFICES ASSUME k + 1 <= N PROVE up[k + 1] = r
    OBVIOUS
  <2>1. k + 1 \in 1 .. N /\ (k + 1) - 1 = k /\ up[k] = r
    BY <1>1, <1>4
  <2>2. up[k + 1] = Above(f, r)
    BY <1>2, <2>1
  <2> QED
    BY <1>1, <2>2 DEF Above
<1>5. Nat \subseteq T
  <2> HIDE DEF T
  <2> QED
    BY <1>3, <1>4, NatSetInduction
<1>6. \A k \in 0 .. N : up[k] = r
  BY <1>1, <1>5
<1> QED
  BY <1>6 DEF up

\* The way up from a node continues with the one from its parent.
LEMMA WayUpShift ==
    ASSUME NEW f, Shaped(f), NEW n \in Allocated(f), f.node[n].parent # NULL
    PROVE  \A k \in 0 .. N - 1 : WayUp(f, n)[k + 1] = WayUp(f, f.node[n].parent)[k]
<1> DEFINE p == f.node[n].parent
           a == WayUp(f, n)
           b == WayUp(f, p)
           T == {k \in Nat : k + 1 <= N => a[k + 1] = b[k]}
<1>1. p \in Allocated(f) /\ Climbable(f) /\ N \in Nat
  BY NodeTypes, NIsNat
<1>2. a[0] = n /\ \A k \in 1 .. N : a[k] = Above(f, a[k - 1])
  BY <1>1, WayUpFacts
<1>3. b[0] = p /\ \A k \in 1 .. N : b[k] = Above(f, b[k - 1])
  BY <1>1, WayUpFacts
<1>4. Above(f, n) = p
  BY DEF Above
<1> HIDE DEF a, b, p
<1>5. 0 \in T
  <2> SUFFICES ASSUME 0 + 1 <= N PROVE a[0 + 1] = b[0]
    OBVIOUS
  <2>1. 1 \in 1 .. N /\ 1 - 1 = 0 /\ 0 + 1 = 1
    BY <1>1
  <2>2. a[1] = Above(f, a[1 - 1])
    BY <1>2, <2>1
  <2> QED
    BY <1>2, <1>3, <1>4, <2>1, <2>2
<1>6. ASSUME NEW k \in Nat, k \in T PROVE k + 1 \in T
  <2> SUFFICES ASSUME (k + 1) + 1 <= N PROVE a[(k + 1) + 1] = b[k + 1]
    OBVIOUS
  <2>1. /\ k + 1 \in 1 .. N /\ (k + 1) - 1 = k
        /\ (k + 1) + 1 \in 1 .. N /\ ((k + 1) + 1) - 1 = k + 1
        /\ a[k + 1] = b[k]
    BY <1>1, <1>6
  <2>2. a[(k + 1) + 1] = Above(f, a[k + 1])
    BY <1>2, <2>1
  <2>3. b[k + 1] = Above(f, b[k])
    BY <1>3, <2>1
  <2> QED
    BY <2>1, <2>2, <2>3
<1>7. Nat \subseteq T
  <2> HIDE DEF T
  <2> QED
    BY <1>5, <1>6, NatSetInduction
<1>8. \A k \in 0 .. N - 1 : a[k + 1] = b[k]
  BY <1>1, <1>7
<1> QED
  BY <1>8 DEF a, b, p

\* What is below a node goes with it: with a parent its children, and with
\* every other node the parent.
LEMMA SubtreeFacts ==
    ASSUME NEW f, Shaped(f), NEW n \in Allocated(f)
    PROVE  LET gone == Subtree(f, n) IN
           /\ n \in gone /\ gone \subseteq Allocated(f)
           /\ \A m \in Allocated(f) :
                 f.node[m].parent # NULL /\ f.node[m].parent \in gone => m \in gone
           /\ \A m \in gone : m # n => f.node[m].parent # NULL /\ f.node[m].parent \in gone
           /\ \A m \in gone : of_find_root_node(f, m) = of_find_root_node(f, n)
           /\ \A r \in Roots(f) : r \in gone => r = n
<1> DEFINE gone == Subtree(f, n)
<1>1. N \in Nat /\ Climbable(f)
  BY NIsNat, NodeTypes
<1>2. \A m : m \in gone <=> m \in Allocated(f) /\ \E k \in 0 .. N : WayUp(f, m)[k] = n
  BY DEF Subtree, N
<1>3. \A m \in Allocated(f) : /\ WayUp(f, m)[0] = m
                              /\ \A k \in 1 .. N : WayUp(f, m)[k] = Above(f, WayUp(f, m)[k - 1])
  BY <1>1, WayUpFacts
<1> HIDE DEF gone
<1>4. n \in gone /\ gone \subseteq Allocated(f)
  <2>1. 0 \in 0 .. N
    BY <1>1
  <2> QED
    BY <1>2, <1>3, <2>1
<1>5. ASSUME NEW m \in Allocated(f), f.node[m].parent # NULL, f.node[m].parent \in gone
      PROVE  m \in gone
  <2> DEFINE p == f.node[m].parent
  <2>1. PICK k \in 0 .. N : WayUp(f, p)[k] = n
    BY <1>2, <1>5
  <2>2. p \in Allocated(f)
    BY <1>5, NodeTypes
  <2>3. CASE k \in 0 .. N - 1
    <3>1. WayUp(f, m)[k + 1] = n
      BY <1>5, <2>1, <2>3, WayUpShift
    <3>2. k + 1 \in 0 .. N
      BY <1>1, <2>3
    <3> QED
      BY <1>2, <3>1, <3>2
  <2>4. CASE k = N
    <3>1. CASE N = 0
      <4>1. WayUp(f, m)[N] = m /\ m \in Roots(f)
        BY <1>3, <3>1, RootOf DEF of_find_root_node, N
      <4> QED
        BY <1>5, <4>1, NodeTypes
    <3>2. CASE N # 0
      <4>1. 1 \in 0 .. N /\ 0 \in 0 .. N - 1 /\ 0 + 1 = 1
        BY <1>1, <3>2
      <4>2. WayUp(f, m)[1] = WayUp(f, p)[0]
        BY <1>5, <4>1, WayUpShift
      <4>3. WayUp(f, m)[1] = p
        BY <1>3, <2>2, <4>2
      <4>4. of_find_root_node(f, p) = of_find_root_node(f, m)
        BY <4>1, <4>3, RootOf
      <4>5. WayUp(f, m)[N] = n
        BY <2>1, <2>4, <4>4 DEF of_find_root_node, N
      <4>6. N \in 0 .. N
        BY <1>1
      <4> QED
        BY <1>2, <4>5, <4>6
    <3> QED
      BY <3>1, <3>2
  <2> QED
    BY <1>1, <2>3, <2>4
<1>6. ASSUME NEW m \in gone, m # n
      PROVE  f.node[m].parent # NULL /\ f.node[m].parent \in gone
  <2>1. m \in Allocated(f)
    BY <1>4
  <2>2. PICK k \in 0 .. N : WayUp(f, m)[k] = n
    BY <1>2
  <2>3. k # 0
    BY <1>3, <1>6, <2>1, <2>2
  <2>4. f.node[m].parent # NULL
    <3> SUFFICES ASSUME f.node[m].parent = NULL PROVE FALSE
      OBVIOUS
    <3>1. m \in Roots(f)
      BY <2>1, NodeTypes
    <3>2. WayUp(f, m)[k] = m
      BY <3>1, RootStays
    <3> QED
      BY <1>6, <2>2, <3>2
  <2>5. k - 1 \in 0 .. N - 1 /\ (k - 1) + 1 = k /\ k - 1 \in 0 .. N
    BY <1>1, <2>3
  <2>6. WayUp(f, f.node[m].parent)[k - 1] = n
    <3>1. WayUp(f, m)[(k - 1) + 1] = WayUp(f, f.node[m].parent)[k - 1]
      BY <2>1, <2>4, <2>5, WayUpShift
    <3> QED
      BY <2>2, <2>5, <3>1
  <2>7. f.node[m].parent \in Allocated(f)
    BY <2>1, <2>4, NodeTypes
  <2> QED
    BY <1>2, <2>4, <2>5, <2>6, <2>7
<1>7. ASSUME NEW m \in gone PROVE of_find_root_node(f, m) = of_find_root_node(f, n)
  <2>1. m \in Allocated(f)
    BY <1>4
  <2>2. PICK k \in 0 .. N : WayUp(f, m)[k] = n
    BY <1>2
  <2> QED
    BY <2>1, <2>2, RootOf
<1>8. ASSUME NEW r \in Roots(f), r \in gone PROVE r = n
  BY <1>6, <1>8, NodeTypes
<1>9. /\ n \in gone /\ gone \subseteq Allocated(f)
      /\ \A m \in Allocated(f) :
            f.node[m].parent # NULL /\ f.node[m].parent \in gone => m \in gone
      /\ \A m \in gone : m # n => f.node[m].parent # NULL /\ f.node[m].parent \in gone
      /\ \A m \in gone : of_find_root_node(f, m) = of_find_root_node(f, n)
      /\ \A r \in Roots(f) : r \in gone => r = n
  BY <1>4, <1>5, <1>6, <1>7, <1>8
<1> QED
  BY <1>9 DEF gone

\* All of a tree is in its linear list.
LEMMA SubtreeOfRoot ==
    ASSUME NEW f, Shaped(f), NEW r \in Roots(f)
    PROVE  /\ of_find_root_node(f, r) = r
           /\ \A m : m \in Subtree(f, r) <=> \E k \in 1 .. Len(f.order[r]) : f.order[r][k] = m
<1>0. r \in Allocated(f) /\ N \in Nat /\ N \in 0 .. N
  BY NodeTypes, NIsNat
<1>1. of_find_root_node(f, r) = r
  BY <1>0, RootStays DEF of_find_root_node, N
<1>2. ASSUME NEW m \in Subtree(f, r)
      PROVE  \E k \in 1 .. Len(f.order[r]) : f.order[r][k] = m
  <2>1. m \in Allocated(f) /\ of_find_root_node(f, m) = r
    BY <1>0, <1>1, SubtreeFacts
  <2> QED
    BY <2>1, RootOf
<1>3. ASSUME NEW k \in 1 .. Len(f.order[r]) PROVE f.order[r][k] \in Subtree(f, r)
  <2>1. f.order[r][k] \in Allocated(f)
    BY DEF Shaped, Listed
  <2>2. WayUp(f, f.order[r][k])[N] = r
    BY WayToRoot
  <2> QED
    BY <1>0, <2>1, <2>2 DEF Subtree, N
<1> QED
  BY <1>1, <1>2, <1>3

\* The nodes of S have the same parents in f and g, and these are in S.
SameAbove(f, g, S) ==
    /\ Climbable(f) /\ Climbable(g)
    /\ S \subseteq Allocated(f) /\ S \subseteq Allocated(g)
    /\ \A m \in S : g.node[m].parent = f.node[m].parent /\ Above(f, m) \in S

LEMMA SubtreeSame ==
    ASSUME NEW f, NEW g, NEW S, SameAbove(f, g, S), NEW z
    PROVE  \A m \in S : /\ m \in Subtree(g, z) <=> m \in Subtree(f, z)
                        /\ m \in Subtree(g, z) => z \in S
<1> TAKE m \in S
<1> DEFINE v == WayUp(f, m)
           w == WayUp(g, m)
           T == {k \in Nat : k <= N => w[k] = v[k] /\ v[k] \in S}
<1>0. m \in Allocated(f) /\ m \in Allocated(g) /\ Climbable(f) /\ Climbable(g)
  BY DEF SameAbove
<1>1. v[0] = m /\ \A k \in 1 .. N : v[k] = Above(f, v[k - 1])
  BY <1>0, WayUpFacts
<1>2. w[0] = m /\ \A k \in 1 .. N : w[k] = Above(g, w[k - 1])
  BY <1>0, WayUpFacts
<1>3. N \in Nat
  BY NIsNat
<1>4. \A x \in S : Above(g, x) = Above(f, x) /\ Above(f, x) \in S
  BY DEF Above, SameAbove
<1> HIDE DEF v, w
<1>5. 0 \in T
  BY <1>1, <1>2
<1>6. ASSUME NEW k \in Nat, k \in T PROVE k + 1 \in T
  <2> SUFFICES ASSUME k + 1 <= N PROVE w[k + 1] = v[k + 1] /\ v[k + 1] \in S
    OBVIOUS
  <2>1. w[k] = v[k] /\ v[k] \in S /\ k + 1 \in 1 .. N /\ (k + 1) - 1 = k
    BY <1>3, <1>6
  <2>2. v[k + 1] = Above(f, v[k]) /\ w[k + 1] = Above(g, w[k])
    BY <1>1, <1>2, <2>1
  <2> QED
    BY <1>4, <2>1, <2>2
<1>7. Nat \subseteq T
  <2> HIDE DEF T
  <2> QED
    BY <1>5, <1>6, NatSetInduction
<1>8. \A k \in 0 .. N : w[k] = v[k] /\ v[k] \in S
  BY <1>3, <1>7
<1>9. m \in Subtree(f, z) <=> \E k \in 0 .. N : v[k] = z
  BY <1>0 DEF Subtree, N, v
<1>10. m \in Subtree(g, z) <=> \E k \in 0 .. N : w[k] = z
  BY <1>0 DEF Subtree, N, w
<1> QED
  BY <1>8, <1>9, <1>10

-----------------------------------------------------------------------------
(* Sequences *)

LEMMA InsertFacts ==
    ASSUME NEW S, NEW s \in Seq(S), NEW i \in 1 .. Len(s) + 1, NEW e \in S
    PROVE  LET t == InsertAt(s, i, e) IN
           /\ t \in Seq(S) /\ Len(t) = Len(s) + 1
           /\ \A j \in 1 .. Len(t) :
                 t[j] = IF j < i THEN s[j] ELSE IF j = i THEN e ELSE s[j - 1]
<1> DEFINE a == SubSeq(s, 1, i - 1)
           b == SubSeq(s, i, Len(s))
<1>1. a \in Seq(S) /\ Len(a) = i - 1 /\ \A j \in 1 .. i - 1 : a[j] = s[j]
  OBVIOUS
<1>2. /\ b \in Seq(S) /\ Len(b) = Len(s) + 1 - i
      /\ \A j \in 1 .. Len(s) + 1 - i : b[j] = s[i + j - 1]
  OBVIOUS
<1>3. InsertAt(s, i, e) = (a \o <<e>>) \o b
  BY DEF InsertAt
<1> HIDE DEF a, b
<1> DEFINE c == a \o <<e>>
           t == c \o b
<1>4. /\ c \in Seq(S) /\ Len(c) = i
      /\ \A j \in 1 .. i - 1 : c[j] = s[j]
      /\ c[i] = e
  <2>1. c \in Seq(S) /\ Len(c) = Len(a) + 1
    BY <1>1
  <2>2. Len(c) = i
    BY <1>1, <2>1
  <2>3. \A j \in 1 .. Len(a) + 1 : c[j] = IF j <= Len(a) THEN a[j] ELSE e
    BY <1>1
  <2> HIDE DEF c
  <2> QED
    BY <1>1, <2>1, <2>2, <2>3
<1> HIDE DEF c
<1>5. /\ t \in Seq(S) /\ Len(t) = Len(s) + 1
      /\ \A j \in 1 .. i : t[j] = c[j]
      /\ \A j \in i + 1 .. Len(s) + 1 : t[j] = b[j - i] /\ j - i \in 1 .. Len(s) + 1 - i
  <2>0. c \in Seq(S) /\ b \in Seq(S)
    BY <1>2, <1>4
  <2>1. /\ t \in Seq(S) /\ Len(t) = Len(c) + Len(b)
        /\ \A j \in 1 .. Len(c) + Len(b) : t[j] = IF j <= Len(c) THEN c[j] ELSE b[j - Len(c)]
    BY <2>0
  <2>2. Len(s) \in Nat /\ Len(c) + Len(b) = Len(s) + 1
    BY <1>2, <1>4
  <2> HIDE DEF t
  <2>3. ASSUME NEW j \in 1 .. i PROVE t[j] = c[j]
    BY <1>4, <2>1, <2>2
  <2>4. ASSUME NEW j \in i + 1 .. Len(s) + 1
        PROVE  t[j] = b[j - i] /\ j - i \in 1 .. Len(s) + 1 - i
    BY <1>4, <2>1, <2>2
  <2> QED
    BY <2>1, <2>2, <2>3, <2>4
<1> HIDE DEF t
<1>6. \A j \in 1 .. Len(t) :
         t[j] = IF j < i THEN s[j] ELSE IF j = i THEN e ELSE s[j - 1]
  <2> TAKE j \in 1 .. Len(t)
  <2>1. CASE j <= i
    BY <1>4, <1>5, <2>1
  <2>2. CASE j > i
    <3>1. t[j] = b[j - i] /\ j - i \in 1 .. Len(s) + 1 - i
      BY <1>5, <2>2
    <3>2. b[j - i] = s[i + (j - i) - 1] /\ i + (j - i) - 1 = j - 1
      BY <1>2, <3>1
    <3> QED
      BY <2>2, <3>1, <3>2
  <2> QED
    BY <1>5, <2>1, <2>2
<1> QED
  BY <1>3, <1>5, <1>6 DEF c, t

LEMMA RemoveAtFacts ==
    ASSUME NEW S, NEW s \in Seq(S), NEW i \in 1 .. Len(s)
    PROVE  LET t == RemoveAt(s, i) IN
           /\ t \in Seq(S) /\ Len(t) = Len(s) - 1
           /\ \A j \in 1 .. Len(t) : t[j] = IF j < i THEN s[j] ELSE s[j + 1]
<1> DEFINE a == SubSeq(s, 1, i - 1)
           b == SubSeq(s, i + 1, Len(s))
<1>1. a \in Seq(S) /\ Len(a) = i - 1 /\ \A j \in 1 .. i - 1 : a[j] = s[j]
  OBVIOUS
<1>2. /\ b \in Seq(S) /\ Len(b) = Len(s) - i
      /\ \A j \in 1 .. Len(s) - i : b[j] = s[i + j]
  OBVIOUS
<1>3. RemoveAt(s, i) = a \o b
  BY DEF RemoveAt
<1> HIDE DEF a, b
<1> DEFINE t == a \o b
<1>4. /\ t \in Seq(S) /\ Len(t) = Len(a) + Len(b)
      /\ \A j \in 1 .. Len(a) + Len(b) : t[j] = IF j <= Len(a) THEN a[j] ELSE b[j - Len(a)]
  <2>1. a \in Seq(S) /\ b \in Seq(S)
    BY <1>1, <1>2
  <2> QED
    BY <2>1
<1>5. Len(s) \in Nat /\ Len(a) + Len(b) = Len(s) - 1
  BY <1>1, <1>2
<1> HIDE DEF t
<1>6. \A j \in 1 .. Len(t) : t[j] = IF j < i THEN s[j] ELSE s[j + 1]
  <2> TAKE j \in 1 .. Len(t)
  <2>1. CASE j < i
    BY <1>1, <1>4, <1>5, <2>1
  <2>2. CASE ~(j < i)
    <3>1. t[j] = b[j - Len(a)] /\ j - Len(a) \in 1 .. Len(s) - i
      BY <1>1, <1>4, <1>5, <2>2
    <3>2. b[j - Len(a)] = s[i + (j - Len(a))] /\ i + (j - Len(a)) = j + 1
      BY <1>1, <1>2, <3>1
    <3> QED
      BY <2>2, <3>1, <3>2
  <2> QED
    BY <2>1, <2>2
<1> QED
  BY <1>3, <1>4, <1>5, <1>6 DEF t

\* list_add puts the new node directly behind its parent.
LEMMA LinkFacts ==
    ASSUME NEW s \in Seq(NodeId), NEW i \in 1 .. Len(s), NEW new \in NodeId,
           \A j, k \in 1 .. Len(s) : s[j] = s[k] => j = k
    PROVE  LET t == LinkAfterParent(s, s[i], new) IN
           /\ t \in Seq(NodeId) /\ Len(t) = Len(s) + 1
           /\ \A j \in 1 .. Len(t) :
                 t[j] = IF j <= i THEN s[j] ELSE IF j = i + 1 THEN new ELSE s[j - 1]
<1> DEFINE I == {j \in 1 .. Len(s) : s[j] = s[i]}
           k == IF I # {} THEN Min(I) ELSE 0
<1>1. I = {i} /\ I \subseteq 1 .. Len(s) /\ Len(s) \in Nat
  OBVIOUS
<1>2. LinkAfterParent(s, s[i], new) = InsertAt(s, k + 1, new)
  BY DEF LinkAfterParent, SelectInSeq
<1> HIDE DEF I
<1>3. k = i
  BY <1>1, FirstIndex
<1> DEFINE t == InsertAt(s, i + 1, new)
<1>4. /\ t \in Seq(NodeId) /\ Len(t) = Len(s) + 1
      /\ \A j \in 1 .. Len(t) :
            t[j] = IF j < i + 1 THEN s[j] ELSE IF j = i + 1 THEN new ELSE s[j - 1]
  <2> DEFINE h == i + 1
  <2>1. h \in 1 .. Len(s) + 1
    OBVIOUS
  <2> HIDE DEF h
  <2>2. LET u == InsertAt(s, h, new) IN
        /\ u \in Seq(NodeId) /\ Len(u) = Len(s) + 1
        /\ \A j \in 1 .. Len(u) :
              u[j] = IF j < h THEN s[j] ELSE IF j = h THEN new ELSE s[j - 1]
    BY <2>1, InsertFacts
  <2> QED
    BY <2>2 DEF h
<1>5. LinkAfterParent(s, s[i], new) = t
  BY <1>2, <1>3
<1> HIDE DEF t, k
<1>6. \A j \in 1 .. Len(t) :
         t[j] = IF j <= i THEN s[j] ELSE IF j = i + 1 THEN new ELSE s[j - 1]
  <2>1. \A j \in 1 .. Len(t) : j < i + 1 <=> j <= i
    BY <1>4
  <2> QED
    BY <1>4, <2>1
<1> QED
  BY <1>4, <1>5, <1>6

\* t is what is left of the first k members of s: g tells where they were.
Left(t, s, k, gone, g) ==
    /\ g \in [1 .. Len(t) -> 1 .. k]
    /\ \A i \in 1 .. Len(t) : t[i] = s[g[i]] /\ s[g[i]] \notin gone
    /\ \A i, j \in 1 .. Len(t) : i < j => g[i] < g[j]
    /\ \A j \in 1 .. k : s[j] \notin gone => \E i \in 1 .. Len(t) : g[i] = j

LEMMA RestFacts ==
    ASSUME NEW S, NEW s \in Seq(S), NEW gone
    PROVE  LET t == Rest(s, gone) IN
           t \in Seq(S) /\ \E g : Left(t, s, Len(s), gone, g)
<1> DEFINE n == Len(s)
           Q == Seq(S)
           Step(v, k) == IF s[k] \in gone THEN v ELSE Append(v, s[k])
           F == [x \in Q \X (1 .. n) |-> Step(x[1], x[2])]
           b == <<>>
<1>0. n \in Nat /\ b \in Q /\ \A k \in 1 .. n : s[k] \in S
  OBVIOUS
<1>1. ASSUME NEW v \in Q, NEW k \in 1 .. n
      PROVE  F[<<v, k>>] = Step(v, k) /\ Step(v, k) \in Q
  <2>1. Step(v, k) \in Q
    BY <1>0
  <2> QED
    BY <2>1
<1>2. F \in [Q \X (1 .. n) -> Q]
  BY <1>1
<1> HIDE DEF F, Q, Step, n
<1>3. PICK u : Recursive(u, n, Q, b, F)
  <2> HIDE DEF b
  <2> QED
    BY <1>0, <1>2, RecursionExists
<1>4. u \in [0 .. n -> Q] /\ u[0] = b /\ \A k \in 1 .. n : u[k] = F[<<u[k - 1], k>>]
  BY <1>3 DEF Recursive
<1>5. ASSUME NEW k \in 1 .. n PROVE u[k] = Step(u[k - 1], k)
  <2>1. u[k - 1] \in Q
    BY <1>0, <1>4
  <2> QED
    BY <1>1, <1>4, <2>1
<1> DEFINE L == CHOOSE h : h = [k \in 0 .. n |-> IF k = 0 THEN <<>> ELSE Step(h[k - 1], k)]
<1>6. u = [k \in 0 .. n |-> IF k = 0 THEN <<>> ELSE Step(u[k - 1], k)]
  <2>1. \A k \in 0 .. n : u[k] = IF k = 0 THEN <<>> ELSE Step(u[k - 1], k)
    BY <1>0, <1>4, <1>5
  <2>2. u = [k \in 0 .. n |-> u[k]]
    BY <1>4
  <2> QED
    BY <2>1, <2>2
<1>7. L = [k \in 0 .. n |-> IF k = 0 THEN <<>> ELSE Step(L[k - 1], k)]
  BY <1>6
<1>8. Rest(s, gone) = L[n]
  BY DEF Rest, Step, n
<1> HIDE DEF L
<1>9. L[0] = <<>> /\ \A k \in 1 .. n : L[k] = Step(L[k - 1], k)
  BY <1>0, <1>7
<1> DEFINE T == {k \in Nat : k <= n => L[k] \in Q /\ \E g : Left(L[k], s, k, gone, g)}
<1>10. 0 \in T
  <2> DEFINE g == [i \in 1 .. 0 |-> 0]
             t == <<>>
  <2>1. Left(t, s, 0, gone, g)
    BY DEF Left
  <2> HIDE DEF g
  <2> QED
    BY <1>0, <1>9, <2>1
<1>11. ASSUME NEW k \in Nat, k \in T PROVE k + 1 \in T
  <2> SUFFICES ASSUME k + 1 <= n
               PROVE  L[k + 1] \in Q /\ \E g : Left(L[k + 1], s, k + 1, gone, g)
    OBVIOUS
  <2> DEFINE t == L[k]
  <2>1. t \in Q /\ k + 1 \in 1 .. n /\ (k + 1) - 1 = k
    BY <1>0, <1>11
  <2>2. L[k + 1] = Step(t, k + 1)
    BY <1>9, <2>1
  <2>3. PICK g : Left(t, s, k, gone, g)
    BY <1>0, <1>11
  <2> HIDE DEF t
  <2>4. Len(t) \in Nat
    BY <2>1 DEF Q
  <2>5. CASE s[k + 1] \in gone
    <3>1. L[k + 1] = t
      BY <2>2, <2>5 DEF Step
    <3>2. Left(t, s, k + 1, gone, g)
      BY <2>3, <2>4, <2>5 DEF Left
    <3> QED
      BY <2>1, <3>1, <3>2
  <2>6. CASE s[k + 1] \notin gone
    <3> DEFINE v == Append(t, s[k + 1])
               h == [i \in 1 .. Len(t) + 1 |-> IF i = Len(t) + 1 THEN k + 1 ELSE g[i]]
    <3>1. L[k + 1] = v
      BY <2>2, <2>6 DEF Step
    <3>2. /\ v \in Q /\ Len(v) = Len(t) + 1 /\ v[Len(t) + 1] = s[k + 1]
          /\ \A i \in 1 .. Len(t) : v[i] = t[i]
      BY <1>0, <2>1 DEF Q
    <3>3. /\ h \in [1 .. Len(t) + 1 -> 1 .. k + 1] /\ h[Len(t) + 1] = k + 1
          /\ \A i \in 1 .. Len(t) : h[i] = g[i] /\ g[i] \in 1 .. k
      <4>1. \A i \in 1 .. Len(t) : g[i] \in 1 .. k
        BY <2>3 DEF Left
      <4>2. \A i \in 1 .. Len(t) : h[i] = g[i] /\ i # Len(t) + 1
        BY <2>4
      <4>3. \A i \in 1 .. Len(t) + 1 : h[i] \in 1 .. k + 1
        <5> TAKE i \in 1 .. Len(t) + 1
        <5>1. i = Len(t) + 1 \/ i \in 1 .. Len(t)
          BY <2>4
        <5> QED
          BY <4>1, <5>1
      <4>4. Len(t) + 1 \in 1 .. Len(t) + 1
        BY <2>4
      <4> QED
        BY <4>1, <4>2, <4>3, <4>4
    <3> HIDE DEF v, h
    <3>4. \A i \in 1 .. Len(v) : v[i] = s[h[i]] /\ s[h[i]] \notin gone
      BY <2>3, <2>4, <2>6, <3>2, <3>3 DEF Left
    <3>5. ASSUME NEW i \in 1 .. Len(v), NEW j \in 1 .. Len(v), i < j PROVE h[i] < h[j]
      <4>1. i \in 1 .. Len(t) /\ h[i] = g[i] /\ g[i] \in 1 .. k
        BY <2>4, <3>2, <3>3, <3>5
      <4>2. CASE j = Len(t) + 1
        BY <3>3, <4>1, <4>2
      <4>3. CASE j \in 1 .. Len(t)
        BY <2>3, <3>3, <3>5, <4>1, <4>3 DEF Left
      <4> QED
        BY <2>4, <3>2, <4>2, <4>3
    <3>6. \A j \in 1 .. k + 1 : s[j] \notin gone => \E i \in 1 .. Len(v) : h[i] = j
      <4> SUFFICES ASSUME NEW j \in 1 .. k + 1, s[j] \notin gone
                   PROVE  \E i \in 1 .. Len(v) : h[i] = j
        OBVIOUS
      <4>1. CASE j = k + 1
        BY <2>4, <3>2, <3>3, <4>1
      <4>2. CASE j \in 1 .. k
        <5>1. PICK i \in 1 .. Len(t) : g[i] = j
          BY <2>3, <4>2 DEF Left
        <5>2. i \in 1 .. Len(v) /\ h[i] = j
          BY <2>4, <3>2, <3>3, <5>1
        <5> QED
          BY <5>2
      <4> QED
        BY <4>1, <4>2
    <3>7. Left(v, s, k + 1, gone, h)
      BY <3>2, <3>3, <3>4, <3>5, <3>6 DEF Left
    <3> QED
      BY <3>1, <3>2, <3>7
  <2> QED
    BY <2>5, <2>6
<1>12. Nat \subseteq T
  <2> HIDE DEF T
  <2> QED
    BY <1>10, <1>11, NatSetInduction
<1>13. L[n] \in Q /\ \E g : Left(L[n], s, n, gone, g)
  BY <1>0, <1>12
<1> QED
  BY <1>8, <1>13 DEF Q, n

\* t is what is left of s: the members that are not gone, in their order.
IsRest(t, s, gone) ==
    /\ \A i \in 1 .. Len(t) : t[i] \notin gone /\ \E j \in 1 .. Len(s) : t[i] = s[j]
    /\ \A j \in 1 .. Len(s) : s[j] \notin gone => \E i \in 1 .. Len(t) : t[i] = s[j]
    /\ \A i, j \in 1 .. Len(t) : t[i] = t[j] => i = j
    /\ s # <<>> /\ s[1] \notin gone => t # <<>> /\ t[1] = s[1]
    /\ \A i \in 1 .. Len(t) : \A j, k \in 1 .. Len(s) :
          t[i] = s[k] /\ j < k /\ s[j] \notin gone => \E h \in 1 .. i - 1 : t[h] = s[j]

LEMMA RestMembers ==
    ASSUME NEW S, NEW s \in Seq(S), NEW gone,
           \A i, j \in 1 .. Len(s) : s[i] = s[j] => i = j,
           NEW t, t = Rest(s, gone)
    PROVE  t \in Seq(S) /\ IsRest(t, s, gone)
<1>1. t \in Seq(S) /\ Len(t) \in Nat /\ Len(s) \in Nat
  BY RestFacts
<1>2. PICK g : Left(t, s, Len(s), gone, g)
  BY RestFacts
<1>3. \A i \in 1 .. Len(t) : g[i] \in 1 .. Len(s) /\ t[i] = s[g[i]] /\ s[g[i]] \notin gone
  BY <1>2 DEF Left
<1>4. \A i \in 1 .. Len(t) : t[i] \notin gone /\ \E j \in 1 .. Len(s) : t[i] = s[j]
  BY <1>3
<1>5. \A j \in 1 .. Len(s) : s[j] \notin gone => \E i \in 1 .. Len(t) : g[i] = j /\ t[i] = s[j]
  BY <1>2, <1>3 DEF Left
<1>6. \A i, j \in 1 .. Len(t) : i < j => g[i] < g[j]
  BY <1>2 DEF Left
<1>7. \A i, j \in 1 .. Len(t) : t[i] = t[j] => i = j
  <2> SUFFICES ASSUME NEW i \in 1 .. Len(t), NEW j \in 1 .. Len(t), t[i] = t[j]
               PROVE  i = j
    OBVIOUS
  <2>1. g[i] = g[j] /\ g[i] \in Nat
    BY <1>3
  <2> QED
    BY <1>1, <1>6, <2>1
<1>8. ASSUME s # <<>>, s[1] \notin gone PROVE t # <<>> /\ t[1] = s[1]
  <2>1. 1 \in 1 .. Len(s)
    BY <1>1, <1>8, EmptySeq
  <2>2. PICK i \in 1 .. Len(t) : g[i] = 1 /\ t[i] = s[1]
    BY <1>5, <1>8, <2>1
  <2>3. 1 \in 1 .. Len(t) /\ g[1] \in 1 .. Len(s)
    BY <1>1, <1>3, <2>2
  <2>4. i = 1
    BY <1>1, <1>6, <2>2, <2>3
  <2> QED
    BY <1>1, <2>2, <2>3, <2>4
<1>9. ASSUME NEW i \in 1 .. Len(t), NEW j \in 1 .. Len(s), NEW k \in 1 .. Len(s),
             t[i] = s[k], j < k, s[j] \notin gone
      PROVE  \E h \in 1 .. i - 1 : t[h] = s[j]
  <2>1. g[i] = k
    BY <1>3, <1>9
  <2>2. PICK h \in 1 .. Len(t) : g[h] = j /\ t[h] = s[j]
    BY <1>5, <1>9
  <2>3. h < i
    BY <1>1, <1>6, <1>9, <2>1, <2>2
  <2> QED
    BY <1>1, <2>2, <2>3
<1>10. /\ \A j \in 1 .. Len(s) : s[j] \notin gone => \E i \in 1 .. Len(t) : t[i] = s[j]
       /\ \A i \in 1 .. Len(t) : \A j, k \in 1 .. Len(s) :
             t[i] = s[k] /\ j < k /\ s[j] \notin gone =>
                \E h \in 1 .. i - 1 : t[h] = s[j]
  BY <1>5, <1>9
<1> QED
  BY <1>1, <1>4, <1>7, <1>8, <1>10 DEF IsRest

-----------------------------------------------------------------------------
(* of_new_node *)

LEMMA FreeIdFacts ==
    ASSUME NEW f, Shaped(f), NodeId # Allocated(f)
    PROVE  FreeId(f) \in NodeId \ Allocated(f)
<1> DEFINE I == NodeId \ Allocated(f)
<1>1. I \subseteq Nat /\ I # {}
  BY TreeAssumption DEF Shaped, IsForest
<1> HIDE DEF I
<1>2. Min(I) \in I
  BY <1>1, MinFacts
<1> QED
  BY <1>2 DEF I, FreeId

\* g is f with the new node n.
Extended(f, g, parent, name, n) ==
    /\ g = [node |-> g.node, order |-> g.order]
    /\ Allocated(g) = Allocated(f) \cup {n}
    /\ g.node \in [Allocated(g) -> NodeRec]
    /\ g.node[n] = [parent |-> parent, name |-> name, children |-> <<>>,
                    props |-> <<>>, phandle |-> 0]
    /\ \A m \in Allocated(f) :
          /\ g.node[m].parent = f.node[m].parent
          /\ g.node[m].name = f.node[m].name
          /\ g.node[m].props = f.node[m].props
          /\ g.node[m].phandle = f.node[m].phandle
          /\ g.node[m].children = IF m = parent THEN Append(f.node[m].children, n)
                                  ELSE f.node[m].children
    /\ parent = NULL =>
          g.order = [m \in Roots(f) \cup {n} |-> IF m = n THEN <<n>> ELSE f.order[m]]
    /\ parent # NULL =>
          g.order = [f.order EXCEPT ![of_find_root_node(f, parent)] =
                        LinkAfterParent(@, parent, n)]

LEMMA NewNodeNodes ==
    ASSUME NEW f, Shaped(f), NodeId # Allocated(f),
           NEW parent \in Allocated(f) \cup {NULL}, NEW name \in NodeName \cup {"/"},
           NEW g, g = of_new_node(f, parent, name), NEW n, n = FreeId(f)
    PROVE  Extended(f, g, parent, name, n)
<1> DEFINE A == Allocated(f)
           fresh == [parent |-> parent, name |-> name, children |-> <<>>,
                     props |-> <<>>, phandle |-> 0]
           table == [m \in A \cup {n} |-> IF m = n THEN fresh ELSE f.node[m]]
<1>1. n \in NodeId /\ n \notin A /\ A \subseteq NodeId /\ NULL \notin A
  BY FreeIdFacts, TreeAssumption DEF Shaped, IsForest
<1>2. fresh \in NodeRec
  <2>1. parent \in NodeId \cup {NULL} /\ <<>> \in Seq(NodeId) /\ <<>> \in Seq(Props)
    BY <1>1
  <2> QED
    BY <2>1 DEF NodeRec
<1>3. \A m \in A : f.node[m] \in NodeRec
  BY NodeTypes
<1>4. /\ table \in [A \cup {n} -> NodeRec] /\ table[n] = fresh
      /\ \A m \in A : table[m] = f.node[m] /\ m # n
  BY <1>1, <1>2, <1>3
<1>5. CASE parent = NULL
  <2>1. g = [node |-> table,
             order |-> [m \in Roots(f) \cup {n} |-> IF m = n THEN <<n>> ELSE f.order[m]]]
    BY <1>5 DEF of_new_node
  <2> HIDE DEF table, fresh
  <2>2. /\ g.node = table /\ g = [node |-> g.node, order |-> g.order]
        /\ g.order = [m \in Roots(f) \cup {n} |-> IF m = n THEN <<n>> ELSE f.order[m]]
    BY <2>1
  <2>3. Allocated(g) = A \cup {n}
    BY <1>4, <2>2 DEF Allocated
  <2>4. \A m \in A : m # parent /\ g.node[m] = f.node[m]
    BY <1>1, <1>4, <1>5, <2>2
  <2>5. g.node \in [A \cup {n} -> NodeRec] /\ g.node[n] = fresh
    BY <1>4, <2>2
  <2>6. \A m \in A :
           /\ g.node[m].parent = f.node[m].parent
           /\ g.node[m].name = f.node[m].name
           /\ g.node[m].props = f.node[m].props
           /\ g.node[m].phandle = f.node[m].phandle
           /\ g.node[m].children = IF m = parent THEN Append(f.node[m].children, n)
                                   ELSE f.node[m].children
    BY <2>4
  <2>7. parent # NULL =>
           g.order = [f.order EXCEPT ![of_find_root_node(f, parent)] =
                         LinkAfterParent(@, parent, n)]
    BY <1>5
  <2>8. g.node \in [Allocated(g) -> NodeRec]
    BY <2>3, <2>5
  <2>9. parent = NULL =>
           g.order = [m \in Roots(f) \cup {n} |-> IF m = n THEN <<n>> ELSE f.order[m]]
    BY <2>2
  <2>10. g = [node |-> g.node, order |-> g.order]
    BY <2>2
  <2> QED
    BY <2>3, <2>5, <2>6, <2>7, <2>8, <2>9, <2>10, Zenon DEF fresh, Extended
<1>6. CASE parent # NULL
  <2>1. g = [node |-> [table EXCEPT ![parent].children = Append(@, n)],
             order |-> [f.order EXCEPT ![of_find_root_node(f, parent)] =
                            LinkAfterParent(@, parent, n)]]
    BY <1>6 DEF of_new_node
  <2> HIDE DEF table
  <2>2. /\ g = [node |-> g.node, order |-> g.order]
        /\ g.node = [table EXCEPT ![parent].children = Append(@, n)]
        /\ g.order = [f.order EXCEPT ![of_find_root_node(f, parent)] =
                            LinkAfterParent(@, parent, n)]
    BY <2>1
  <2> HIDE DEF fresh
  <2>3. parent \in A /\ parent # n
    BY <1>1, <1>6
  <2> DEFINE old == f.node[parent]
             c == Append(old.children, n)
             new == [old EXCEPT !.children = c]
  <2>4. g.node = [table EXCEPT ![parent] = new]
    BY <1>4, <2>2, <2>3
  <2>5. old \in NodeRec
    BY <1>3, <2>3
  <2> HIDE DEF old
  <2>6. /\ new \in NodeRec /\ new.parent = old.parent /\ new.name = old.name
        /\ new.props = old.props /\ new.phandle = old.phandle
        /\ new.children = Append(old.children, n)
    <3>1. /\ old.parent \in NodeId \cup {NULL} /\ old.name \in NodeName \cup {"/"}
          /\ old.children \in Seq(NodeId) /\ old.props \in Seq(Props)
          /\ old.phandle \in Nat
          /\ old = [parent |-> old.parent, name |-> old.name, children |-> old.children,
                    props |-> old.props, phandle |-> old.phandle]
      BY <2>5 DEF NodeRec
    <3>2. Append(old.children, n) \in Seq(NodeId)
      BY <1>1, <3>1
    <3> HIDE DEF c
    <3>3. /\ new.parent = old.parent /\ new.name = old.name /\ new.children = c
          /\ new.props = old.props /\ new.phandle = old.phandle
      BY <2>5 DEF NodeRec
    <3>4. new \in NodeRec
      BY <2>5, <3>2 DEF NodeRec, c
    <3> QED
      BY <3>3, <3>4 DEF c
  <2> HIDE DEF new
  <2>7. /\ g.node \in [A \cup {n} -> NodeRec] /\ g.node[n] = fresh /\ g.node[parent] = new
        /\ \A m \in A : m # parent => g.node[m] = f.node[m]
    BY <1>1, <1>4, <2>3, <2>4, <2>6
  <2>8. Allocated(g) = A \cup {n}
    BY <2>7 DEF Allocated
  <2>9. \A m \in A :
           /\ g.node[m].parent = f.node[m].parent
           /\ g.node[m].name = f.node[m].name
           /\ g.node[m].props = f.node[m].props
           /\ g.node[m].phandle = f.node[m].phandle
           /\ g.node[m].children = IF m = parent THEN Append(f.node[m].children, n)
                                   ELSE f.node[m].children
    BY <2>6, <2>7 DEF old
  <2> QED
    BY <1>6, <2>2, <2>7, <2>8, <2>9 DEF fresh, Extended
<1> QED
  BY <1>5, <1>6

\* No two nodes of the tree at r have the same phandle.
HandlesDifferIn(f, r) ==
    \A i, j \in 1 .. Len(f.order[r]) :
        /\ f.node[f.order[r][i]].phandle # 0
        /\ f.node[f.order[r][i]].phandle = f.node[f.order[r][j]].phandle
        => i = j

\* The list of another tree stays as it is.
LEMMA NewNodeOtherTree ==
    ASSUME NEW f, Sound(f), NEW g, Allocated(f) \subseteq Allocated(g),
           \A m \in Allocated(f) : /\ g.node[m].parent = f.node[m].parent
                                   /\ g.node[m].phandle = f.node[m].phandle,
           NEW r \in Roots(f), g.order[r] = f.order[r]
    PROVE  Listed(g, r) /\ HandlesDifferIn(g, r)
<1> DEFINE o == f.order[r]
<1>1. Listed(f, r) /\ HandlesDifferIn(f, r)
  BY DEF Sound, Shaped, HandlesDiffer, HandlesDifferIn
<1>2. /\ o # <<>> /\ o[1] = r
      /\ \A i, j \in 1 .. Len(o) : o[i] = o[j] => i = j
      /\ \A k \in 1 .. Len(o) : o[k] \in Allocated(f)
      /\ \A k \in 2 .. Len(o) : \E j \in 1 .. k - 1 : f.node[o[k]].parent = o[j]
  BY <1>1 DEF Listed
<1>3. \A i, j \in 1 .. Len(o) :
         f.node[o[i]].phandle # 0 /\ f.node[o[i]].phandle = f.node[o[j]].phandle => i = j
  BY <1>1 DEF HandlesDifferIn
<1>4. Len(o) \in Nat
  BY NodeTypes DEF Sound
<1> HIDE DEF o
<1>5. \A k \in 1 .. Len(o) : /\ g.node[o[k]].parent = f.node[o[k]].parent
                             /\ g.node[o[k]].phandle = f.node[o[k]].phandle
  BY <1>2
<1>6. \A k \in 2 .. Len(o) : \E j \in 1 .. k - 1 : g.node[o[k]].parent = o[j]
  <2> TAKE k \in 2 .. Len(o)
  <2>1. k \in 1 .. Len(o)
    BY <1>4
  <2> QED
    BY <1>2, <1>5, <2>1
<1>7. \A i, j \in 1 .. Len(o) :
         g.node[o[i]].phandle # 0 /\ g.node[o[i]].phandle = g.node[o[j]].phandle => i = j
  BY <1>3, <1>5
<1>8. g.order[r] = o
  BY DEF o
<1>9. Listed(g, r)
  BY <1>2, <1>6, <1>8 DEF Listed
<1>10. HandlesDifferIn(g, r)
  BY <1>7, <1>8 DEF HandlesDifferIn
<1> QED
  BY <1>9, <1>10

LEMMA NewNodeNeat ==
    ASSUME NEW f, Shaped(f), Neat(f), NEW g, Shaped(g),
           NEW parent \in Allocated(f) \cup {NULL}, NEW name,
           NEW n \in NodeId \ Allocated(f), Extended(f, g, parent, name, n)
    PROVE  Neat(g)
<1> DEFINE A == Allocated(f)
<1>1. /\ Allocated(g) = A \cup {n} /\ NULL \notin A /\ n # NULL
      /\ \A m \in A : g.node[m].parent = f.node[m].parent
  BY TreeAssumption, NodeTypes DEF Extended
<1>2. g.node[n].parent = parent /\ g.node[n].children = <<>>
  BY DEF Extended
<1>3. Climbable(f) /\ Climbable(g)
  BY NodeTypes
<1>4. ASSUME NEW m \in A, NEW u
      PROVE  /\ m \in Subtree(g, u) <=> m \in Subtree(f, u)
             /\ m \in Subtree(g, u) => u \in A
  <2>1. \A x \in A : g.node[x].parent = f.node[x].parent /\ Above(f, x) \in A
    BY <1>1, <1>3 DEF Climbable
  <2>2. A \subseteq Allocated(f) /\ A \subseteq Allocated(g) /\ m \in A
    BY <1>1
  <2>3. SameAbove(f, g, A)
    BY <1>3, <2>1, <2>2 DEF SameAbove
  <2> HIDE DEF A
  <2> QED
    BY <2>2, <2>3, SubtreeSame
<1>5. n \in Subtree(g, n)
  BY <1>1, SubtreeFacts
<1>6. ASSUME NEW u \in A, parent # NULL
      PROVE  n \in Subtree(g, u) <=> parent \in Subtree(g, u)
  <2>1. u \in Allocated(g) /\ n \in Allocated(g) /\ u # n
    BY <1>1
  <2>2. /\ g.node[n].parent # NULL /\ g.node[n].parent \in Subtree(g, u) => n \in Subtree(g, u)
        /\ n \in Subtree(g, u) => g.node[n].parent \in Subtree(g, u)
    BY <2>1, SubtreeFacts
  <2> QED
    BY <1>2, <1>6, <2>2
<1>7. ASSUME NEW q \in Roots(f), g.order[q] = f.order[q]
      PROVE  InOnePiece(g, q)
  <2> DEFINE s == f.order[q]
  <2>1. \A k \in 1 .. Len(s) : s[k] \in A
    BY DEF Shaped, Listed
  <2>2. \A i, k \in 1 .. Len(s) : \A j \in i .. k :
           s[k] \in Subtree(f, s[i]) => s[j] \in Subtree(f, s[i])
    BY DEF Neat, InOnePiece
  <2>3. Len(s) \in Nat
    BY NodeTypes
  <2> HIDE DEF s
  <2>4. ASSUME NEW i \in 1 .. Len(s), NEW k \in 1 .. Len(s), NEW j \in i .. k,
               s[k] \in Subtree(g, s[i])
        PROVE  s[j] \in Subtree(g, s[i])
    <3>1. j \in 1 .. Len(s)
      BY <2>3
    <3> QED
      BY <1>4, <2>1, <2>2, <2>4, <3>1
  <2> QED
    BY <1>7, <2>4 DEF InOnePiece, s
<1>8. ASSUME parent = NULL, NEW q \in Roots(g) PROVE InOnePiece(g, q)
  <2>1. g.order = [m \in Roots(f) \cup {n} |-> IF m = n THEN <<n>> ELSE f.order[m]]
    BY <1>8 DEF Extended
  <2>2. Roots(g) = Roots(f) \cup {n}
    BY <2>1 DEF Roots
  <2>3. CASE q = n
    <3>1. g.order[q] = <<n>>
      BY <2>1, <2>2, <2>3
    <3>2. Len(<<n>>) = 1 /\ <<n>>[1] = n
      OBVIOUS
    <3> DEFINE t == <<n>>
    <3>3. \A i, k \in 1 .. 1 : \A j \in i .. k : j = 1 /\ i = 1
      OBVIOUS
    <3> QED
      BY <1>5, <3>1, <3>2, <3>3 DEF InOnePiece
  <2>4. CASE q # n
    <3>1. q \in Roots(f) /\ g.order[q] = f.order[q]
      BY <2>1, <2>2, <2>4
    <3> QED
      BY <1>7, <3>1
  <2> QED
    BY <2>3, <2>4
<1>9. ASSUME parent # NULL, NEW q \in Roots(g) PROVE InOnePiece(g, q)
  <2> DEFINE r == of_find_root_node(f, parent)
             s == f.order[r]
             t == LinkAfterParent(s, parent, n)
  <2>0. parent \in A
    BY <1>9
  <2>1. r \in Roots(f) /\ \E k \in 1 .. Len(s) : s[k] = parent
    BY <2>0, RootOf
  <2>2. g.order = [f.order EXCEPT ![r] = t]
    BY <1>9 DEF Extended
  <2>3. f.order \in [Roots(f) -> Seq(NodeId)]
    BY DEF Shaped, IsForest
  <2> HIDE DEF r, t
  <2>4. Roots(g) = Roots(f)
    BY <2>2 DEF Roots
  <2>5. CASE q # r
    <3>1. q \in Roots(f) /\ g.order[q] = f.order[q]
      BY <2>2, <2>3, <2>4, <2>5
    <3> QED
      BY <1>7, <3>1
  <2>6. CASE q = r
    <3>1. g.order[q] = t
      BY <2>1, <2>2, <2>3, <2>6
    <3>2. PICK a \in 1 .. Len(s) : s[a] = parent
      BY <2>1
    <3>3. s \in Seq(NodeId) /\ Len(s) \in Nat
      BY <2>1, NodeTypes
    <3>4. /\ \A i, j \in 1 .. Len(s) : s[i] = s[j] => i = j
          /\ \A k \in 1 .. Len(s) : s[k] \in A
      BY <2>1 DEF Shaped, Listed
    <3>5. \A i, k \in 1 .. Len(s) : \A j \in i .. k :
             s[k] \in Subtree(f, s[i]) => s[j] \in Subtree(f, s[i])
      BY <2>1 DEF Neat, InOnePiece
    <3> HIDE DEF s
    <3>6. /\ Len(t) = Len(s) + 1
          /\ \A j \in 1 .. Len(t) :
                t[j] = IF j <= a THEN s[j] ELSE IF j = a + 1 THEN n ELSE s[j - 1]
      BY <3>2, <3>3, <3>4, LinkFacts DEF t
    <3> HIDE DEF A
    <3> DEFINE W(x) == IF x <= a THEN x ELSE x - 1
    <3>7. \A x \in 1 .. Len(t) : W(x) \in 1 .. Len(s)
      BY <3>3, <3>6
    <3>8. ASSUME NEW x \in 1 .. Len(t), NEW u \in A
          PROVE  t[x] \in Subtree(g, u) <=> s[W(x)] \in Subtree(f, u)
      <4>1. CASE x = a + 1
        <5>1. t[x] = n /\ W(x) = a
          BY <3>6, <4>1
        <5> HIDE DEF W
        <5>2. n \in Subtree(g, u) <=> parent \in Subtree(g, u)
          BY <1>6, <1>9
        <5>3. parent \in Subtree(g, u) <=> parent \in Subtree(f, u)
          BY <1>4, <2>0
        <5> QED
          BY <3>2, <5>1, <5>2, <5>3
      <4>2. CASE x # a + 1
        <5>1. t[x] = s[W(x)] /\ W(x) \in 1 .. Len(s)
          BY <3>6, <3>7, <4>2
        <5> HIDE DEF W
        <5>2. s[W(x)] \in A
          BY <3>4, <5>1
        <5> QED
          BY <1>4, <5>1, <5>2
      <4> QED
        BY <4>1, <4>2
    <3>9. ASSUME NEW i \in 1 .. Len(t), NEW k \in 1 .. Len(t), NEW j \in i .. k,
                 t[k] \in Subtree(g, t[i])
          PROVE  t[j] \in Subtree(g, t[i])
      <4>1. j \in 1 .. Len(t)
        BY <3>3, <3>6
      <4>2. CASE i = a + 1
        <5>1. t[i] = n
          BY <3>6, <4>2
        <5>2. CASE k = i
          <6>1. j = i
            BY <5>2
          <6> QED
            BY <1>5, <5>1, <6>1
        <5>3. CASE k # i
          <6>1. t[k] = s[W(k)] /\ W(k) \in 1 .. Len(s)
            BY <3>6, <3>7, <4>2, <5>3
          <6> HIDE DEF W
          <6>2. t[k] \in A
            BY <3>4, <6>1
          <6>3. n \in A
            BY <1>4, <3>9, <5>1, <6>2
          <6> QED
            BY <6>3 DEF A
        <5> QED
          BY <5>2, <5>3
      <4>3. CASE i # a + 1
        <5> DEFINE u == t[i]
        <5>1. u = s[W(i)] /\ W(i) \in 1 .. Len(s)
          BY <3>6, <3>7, <4>3
        <5>2. W(j) \in W(i) .. W(k) /\ W(k) \in 1 .. Len(s)
          BY <3>2, <3>3, <3>6, <3>7, <4>1
        <5> HIDE DEF W
        <5>3. u \in A
          BY <3>4, <5>1
        <5> HIDE DEF u
        <5>4. s[W(k)] \in Subtree(f, u)
          BY <3>8, <3>9, <5>3 DEF u
        <5>5. s[W(j)] \in Subtree(f, u)
          BY <3>5, <5>1, <5>2, <5>4
        <5>6. t[j] \in Subtree(g, u)
          BY <3>8, <4>1, <5>3, <5>5
        <5> QED
          BY <5>6 DEF u
      <4> QED
        BY <4>2, <4>3
    <3> QED
      BY <3>1, <3>9 DEF InOnePiece
  <2> QED
    BY <2>5, <2>6
<1>10. ASSUME NEW m \in Allocated(g) PROVE ChildrenOnce(g, m)
  <2>1. CASE m = n
    BY <1>2, <2>1 DEF ChildrenOnce
  <2>2. CASE m \in A
    <3> DEFINE c == f.node[m].children
    <3>0. c \in Seq(NodeId) /\ Len(c) \in Nat
      BY <2>2, NodeTypes
    <3>1. /\ c \in Seq(NodeId) /\ Len(c) \in Nat
          /\ \A i \in 1 .. Len(c) : c[i] \in A
          /\ \A i, j \in 1 .. Len(c) : c[i] = c[j] => i = j
      <4>1. \A i \in 1 .. Len(c) : c[i] \in A
        BY <2>2 DEF Shaped
      <4>2. ChildrenOnce(f, m)
        BY <2>2 DEF Neat
      <4> QED
        BY <3>0, <4>1, <4>2 DEF ChildrenOnce
    <3>2. g.node[m].children = IF m = parent THEN Append(c, n) ELSE c
      BY <2>2 DEF Extended
    <3> HIDE DEF c
    <3> DEFINE d == Append(c, n)
    <3>3. /\ Len(d) = Len(c) + 1 /\ d[Len(c) + 1] = n
          /\ \A i \in 1 .. Len(c) : d[i] = c[i]
      BY <3>1
    <3> HIDE DEF d
    <3>4. \A i, j \in 1 .. Len(d) : d[i] = d[j] => i = j
      <4> SUFFICES ASSUME NEW i \in 1 .. Len(d), NEW j \in 1 .. Len(d), d[i] = d[j]
                   PROVE  i = j
        OBVIOUS
      <4>1. /\ i \in 1 .. Len(c) \/ i = Len(c) + 1
            /\ j \in 1 .. Len(c) \/ j = Len(c) + 1
        BY <3>1, <3>3
      <4>2. \A h \in 1 .. Len(c) : d[h] # n
        BY <3>1, <3>3
      <4> QED
        BY <3>1, <3>3, <4>1, <4>2
    <3> QED
      BY <3>1, <3>2, <3>4 DEF ChildrenOnce, d
  <2> QED
    BY <1>1, <2>1, <2>2
<1> QED
  BY <1>8, <1>9, <1>10 DEF Neat

LEMMA NewNodeSound ==
    ASSUME NEW f, Sound(f), NodeId # Allocated(f),
           NEW parent \in Allocated(f) \cup {NULL}, NEW name \in NodeName \cup {"/"}
    PROVE  LET g == of_new_node(f, parent, name) IN
           /\ Sound(g) /\ Roots(f) \subseteq Roots(g)
           /\ FreeId(f) \in NodeId \ Allocated(f)
           /\ Allocated(g) = Allocated(f) \cup {FreeId(f)}
<1> DEFINE g == of_new_node(f, parent, name)
           n == FreeId(f)
           A == Allocated(f)
<1>1. Shaped(f)
  BY DEF Sound
<1>2. n \in NodeId /\ n \notin A /\ A \subseteq NodeId /\ NULL \notin A /\ n # NULL
  <2>1. n \in NodeId \ A
    BY <1>1, FreeIdFacts
  <2>2. A \subseteq NodeId
    BY <1>1 DEF Shaped, IsForest
  <2> QED
    BY <2>1, <2>2, TreeAssumption
<1>a. g = of_new_node(f, parent, name) /\ n = FreeId(f)
  OBVIOUS
<1> HIDE DEF g, n
<1>b. Extended(f, g, parent, name, n)
  BY <1>1, <1>a, NewNodeNodes
<1>3. /\ g = [node |-> g.node, order |-> g.order]
      /\ Allocated(g) = A \cup {n}
      /\ g.node \in [Allocated(g) -> NodeRec]
      /\ g.node[n] = [parent |-> parent, name |-> name, children |-> <<>>,
                      props |-> <<>>, phandle |-> 0]
  BY <1>b DEF Extended
<1>4. \A m \in A :
         /\ g.node[m].parent = f.node[m].parent
         /\ g.node[m].props = f.node[m].props
         /\ g.node[m].phandle = f.node[m].phandle
         /\ g.node[m].children = IF m = parent THEN Append(f.node[m].children, n)
                                 ELSE f.node[m].children
  BY <1>b DEF Extended
<1>5. parent = NULL =>
         g.order = [m \in Roots(f) \cup {n} |-> IF m = n THEN <<n>> ELSE f.order[m]]
  BY <1>b DEF Extended
<1>6. parent # NULL =>
         g.order = [f.order EXCEPT ![of_find_root_node(f, parent)] =
                       LinkAfterParent(@, parent, n)]
  BY <1>b DEF Extended
<1>7. /\ g.node[n].parent = parent /\ g.node[n].children = <<>>
      /\ g.node[n].props = <<>> /\ g.node[n].phandle = 0
  BY <1>3
<1>8. ASSUME NEW m \in Allocated(g) PROVE Consistent(g.node[m])
  <2>1. CASE m = n
    BY <1>7, <2>1, TreeAssumption DEF Consistent
  <2>2. CASE m \in A
    <3>1. Consistent(f.node[m])
      BY <2>2 DEF Sound
    <3> QED
      BY <1>4, <2>2, <3>1 DEF Consistent
  <2> QED
    BY <1>3, <2>1, <2>2
<1>9. ASSUME NEW m \in Allocated(g)
      PROVE  LET c == g.node[m].children IN
             /\ \A i \in 1 .. Len(c) : c[i] \in Allocated(g) /\ g.node[c[i]].parent = m
             /\ g.node[m].parent # NULL =>
                   LET s == g.node[g.node[m].parent].children IN
                   \E i \in 1 .. Len(s) : s[i] = m
  <2>1. ASSUME NEW q \in A
        PROVE  /\ f.node[q].children \in Seq(NodeId)
               /\ \A i \in 1 .. Len(f.node[q].children) :
                     f.node[q].children[i] \in A /\ f.node[f.node[q].children[i]].parent = q
    BY <1>1, NodeTypes DEF Shaped
  <2>2. ASSUME NEW q \in A
        PROVE  /\ \A i \in 1 .. Len(f.node[q].children) :
                     /\ i \in 1 .. Len(g.node[q].children)
                     /\ g.node[q].children[i] = f.node[q].children[i]
               /\ \A i \in 1 .. Len(g.node[q].children) :
                     \/ i \in 1 .. Len(f.node[q].children)
                     \/ q = parent /\ g.node[q].children[i] = n
               /\ q = parent => \E i \in 1 .. Len(g.node[q].children) :
                                    g.node[q].children[i] = n
    <3> DEFINE s == f.node[q].children
    <3>1. s \in Seq(NodeId) /\ Len(s) \in Nat
      BY <2>1
    <3>2. g.node[q].children = IF q = parent THEN Append(s, n) ELSE s
      BY <1>4
    <3> HIDE DEF s
    <3>3. CASE q # parent
      BY <3>2, <3>3 DEF s
    <3>4. CASE q = parent
      <4> DEFINE t == Append(s, n)
      <4>1. /\ Len(t) = Len(s) + 1 /\ t[Len(s) + 1] = n
            /\ \A i \in 1 .. Len(s) : t[i] = s[i]
        BY <3>1
      <4>2. g.node[q].children = t
        BY <3>2, <3>4
      <4> HIDE DEF t
      <4>3. /\ \A i \in 1 .. Len(s) : i \in 1 .. Len(t) /\ t[i] = s[i]
            /\ \A i \in 1 .. Len(t) : i \in 1 .. Len(s) \/ t[i] = n
            /\ Len(t) \in 1 .. Len(t) /\ t[Len(t)] = n
        BY <3>1, <4>1
      <4> QED
        BY <3>4, <4>2, <4>3 DEF s
    <3> QED
      BY <3>3, <3>4
  <2>3. CASE m = n
    <3>1. g.node[m].children = <<>> /\ g.node[m].parent = parent
      BY <1>7, <2>3
    <3>2. parent # NULL => parent \in A
      OBVIOUS
    <3> QED
      BY <2>2, <2>3, <3>1, <3>2
  <2>4. CASE m \in A
    <3>1. ASSUME NEW i \in 1 .. Len(g.node[m].children)
          PROVE  /\ g.node[m].children[i] \in Allocated(g)
                 /\ g.node[g.node[m].children[i]].parent = m
      <4>1. CASE i \in 1 .. Len(f.node[m].children)
        <5> DEFINE x == f.node[m].children[i]
        <5>1. g.node[m].children[i] = x
          BY <2>2, <2>4, <4>1
        <5>2. x \in A /\ f.node[x].parent = m
          BY <2>1, <2>4, <4>1
        <5> HIDE DEF x
        <5> QED
          BY <1>3, <1>4, <5>1, <5>2
      <4>2. CASE m = parent /\ g.node[m].children[i] = n
        BY <1>3, <1>7, <4>2
      <4> QED
        BY <2>2, <2>4, <4>1, <4>2
    <3>2. ASSUME g.node[m].parent # NULL
          PROVE  \E i \in 1 .. Len(g.node[g.node[m].parent].children) :
                    g.node[g.node[m].parent].children[i] = m
      <4> DEFINE q == f.node[m].parent
      <4>1. g.node[m].parent = q /\ q # NULL
        BY <1>4, <2>4, <3>2
      <4>2. q \in A /\ \E i \in 1 .. Len(f.node[q].children) : f.node[q].children[i] = m
        BY <1>1, <2>4, <4>1, NodeTypes DEF Shaped
      <4> HIDE DEF q
      <4>3. PICK i \in 1 .. Len(f.node[q].children) : f.node[q].children[i] = m
        BY <4>2
      <4>4. i \in 1 .. Len(g.node[q].children) /\ g.node[q].children[i] = m
        BY <2>2, <4>2, <4>3
      <4> QED
        BY <4>1, <4>4
    <3> QED
      BY <3>1, <3>2
  <2> QED
    BY <1>3, <2>3, <2>4
<1>10. ASSUME NEW q \in Roots(f), g.order[q] = f.order[q]
       PROVE  Listed(g, q) /\ HandlesDifferIn(g, q)
  BY <1>3, <1>4, <1>10, NewNodeOtherTree
<1>11. /\ Roots(f) \subseteq Roots(g) /\ Roots(g) \subseteq NodeId
       /\ g.order \in [Roots(g) -> Seq(NodeId)]
       /\ Roots(g) = {m \in Allocated(g) : g.node[m].parent = NULL}
       /\ \A q \in Roots(g) : Listed(g, q) /\ HandlesDifferIn(g, q)
       /\ \A m \in Allocated(g) :
             \E q \in Roots(g) : \E k \in 1 .. Len(g.order[q]) : g.order[q][k] = m
  <2>0. /\ Roots(f) \subseteq A /\ n \notin Roots(f) /\ DOMAIN f.order = Roots(f)
        /\ Roots(f) = {m \in A : f.node[m].parent = NULL}
        /\ f.order \in [Roots(f) -> Seq(NodeId)]
    BY <1>1, <1>2 DEF Shaped, IsForest, Roots
  <2>00. \A m \in A : \E q \in Roots(f) : \E k \in 1 .. Len(f.order[q]) : f.order[q][k] = m
    BY <1>1 DEF Shaped
  <2>1. CASE parent = NULL
    <3>1. /\ Roots(g) = Roots(f) \cup {n} /\ g.order[n] = <<n>>
          /\ \A q \in Roots(f) : g.order[q] = f.order[q]
      BY <1>5, <2>0, <2>1 DEF Roots
    <3>2. g.order \in [Roots(g) -> Seq(NodeId)]
      <4>1. <<n>> \in Seq(NodeId)
        BY <1>2
      <4> QED
        BY <1>5, <2>0, <2>1, <3>1, <4>1
    <3>3. Roots(g) = {m \in Allocated(g) : g.node[m].parent = NULL}
      BY <1>3, <1>4, <1>7, <2>0, <2>1, <3>1
    <3>4. Listed(g, n) /\ HandlesDifferIn(g, n)
      <4>1. Len(<<n>>) = 1 /\ <<n>>[1] = n /\ <<n>> # <<>>
        OBVIOUS
      <4> DEFINE o == g.order[n]
      <4>2. Len(o) = 1 /\ o[1] = n /\ o # <<>>
        BY <3>1, <4>1
      <4> HIDE DEF o
      <4>3. n \in Allocated(g)
        BY <1>3
      <4>4. /\ \A i, j \in 1 .. Len(o) : i = j
            /\ \A k \in 1 .. Len(o) : o[k] = n
            /\ \A k \in 2 .. Len(o) : FALSE
        BY <4>2
      <4>5. Listed(g, n)
        BY <4>2, <4>3, <4>4 DEF Listed, o
      <4> QED
        BY <4>4, <4>5 DEF HandlesDifferIn, o
    <3>5. \A q \in Roots(g) : Listed(g, q) /\ HandlesDifferIn(g, q)
      BY <1>10, <3>1, <3>4
    <3>6. ASSUME NEW m \in Allocated(g)
          PROVE  \E q \in Roots(g) : \E k \in 1 .. Len(g.order[q]) : g.order[q][k] = m
      <4>1. CASE m = n
        <5>1. Len(g.order[n]) = 1 /\ g.order[n][1] = n
          BY <3>1
        <5>2. 1 \in 1 .. Len(g.order[n]) /\ n \in Roots(g)
          BY <3>1, <5>1
        <5> QED
          BY <4>1, <5>1, <5>2
      <4>2. CASE m \in A
        BY <2>00, <3>1, <4>2
      <4> QED
        BY <1>3, <4>1, <4>2
    <3> QED
      BY <1>2, <2>0, <3>1, <3>2, <3>3, <3>5, <3>6
  <2>2. CASE parent # NULL
    <3> DEFINE r == of_find_root_node(f, parent)
               o == f.order[r]
               t == LinkAfterParent(o, parent, n)
    <3>0. parent \in A
      BY <2>2
    <3>1. r \in Roots(f) /\ \E i \in 1 .. Len(o) : o[i] = parent
      BY <1>1, <3>0, RootOf
    <3>2. PICK i \in 1 .. Len(o) : o[i] = parent
      BY <3>1
    <3>3. g.order = [f.order EXCEPT ![r] = t]
      BY <1>6, <2>2, <3>1
    <3>4. /\ o \in Seq(NodeId) /\ Len(o) \in Nat /\ o # <<>> /\ o[1] = r
          /\ \A j, k \in 1 .. Len(o) : o[j] = o[k] => j = k
          /\ \A k \in 1 .. Len(o) : o[k] \in A
          /\ \A k \in 2 .. Len(o) : \E j \in 1 .. k - 1 : f.node[o[k]].parent = o[j]
      BY <1>1, <3>1, NodeTypes DEF Shaped, Listed
    <3>5. \A j, k \in 1 .. Len(o) :
             f.node[o[j]].phandle # 0 /\ f.node[o[j]].phandle = f.node[o[k]].phandle => j = k
      BY <3>1 DEF Sound, HandlesDiffer
    <3> HIDE DEF r, o
    <3>6. /\ t \in Seq(NodeId) /\ Len(t) = Len(o) + 1
          /\ \A j \in 1 .. Len(t) :
                t[j] = IF j <= i THEN o[j] ELSE IF j = i + 1 THEN n ELSE o[j - 1]
      BY <1>2, <3>2, <3>4, LinkFacts
    <3> HIDE DEF t
    <3>7. /\ Roots(g) = Roots(f) /\ g.order[r] = t
          /\ \A q \in Roots(f) : q # r => g.order[q] = f.order[q]
          /\ g.order \in [Roots(g) -> Seq(NodeId)]
      BY <2>0, <3>1, <3>3, <3>6 DEF Roots
    <3>8. Roots(g) = {m \in Allocated(g) : g.node[m].parent = NULL}
      BY <1>3, <1>4, <1>7, <2>0, <2>2, <3>7
    <3> DEFINE Was(j) == IF j <= i THEN j ELSE j - 1
    <3>9. \A j \in 1 .. Len(t) : j # i + 1 => Was(j) \in 1 .. Len(o) /\ t[j] = o[Was(j)]
      BY <3>4, <3>6
    <3>10. i + 1 \in 1 .. Len(t) /\ t[i + 1] = n
      BY <3>4, <3>6
    <3>11. \A j, k \in 1 .. Len(t) : j # i + 1 /\ k # i + 1 /\ Was(j) = Was(k) => j = k
      BY <3>4, <3>6
    <3>12. Listed(g, r)
      <4>1. t # <<>> /\ t[1] = r
        <5>1. 1 \in 1 .. Len(t) /\ 1 <= i
          BY <3>4, <3>6
        <5> QED
          BY <3>4, <3>6, <5>1
      <4>2. ASSUME NEW j \in 1 .. Len(t), NEW k \in 1 .. Len(t), t[j] = t[k] PROVE j = k
        <5>1. CASE j # i + 1 /\ k # i + 1
          <6>1. /\ Was(j) \in 1 .. Len(o) /\ t[j] = o[Was(j)]
                /\ Was(k) \in 1 .. Len(o) /\ t[k] = o[Was(k)]
            BY <3>9, <5>1
          <6> HIDE DEF Was
          <6>2. Was(j) = Was(k)
            BY <3>4, <4>2, <6>1
          <6> QED
            BY <3>11, <5>1, <6>2
        <5>2. CASE j = i + 1 \/ k = i + 1
          <6>1. \A h \in 1 .. Len(t) : h # i + 1 => t[h] # n
            <7> SUFFICES ASSUME NEW h \in 1 .. Len(t), h # i + 1 PROVE t[h] # n
              OBVIOUS
            <7>1. Was(h) \in 1 .. Len(o) /\ t[h] = o[Was(h)]
              BY <3>9
            <7> HIDE DEF Was
            <7> QED
              BY <1>2, <3>4, <7>1
          <6> QED
            BY <3>10, <4>2, <5>2, <6>1
        <5> QED
          BY <5>1, <5>2
      <4>3. \A k \in 1 .. Len(t) : t[k] \in Allocated(g)
        BY <1>3, <3>4, <3>9, <3>10
      <4>4. ASSUME NEW k \in 2 .. Len(t)
            PROVE  \E j \in 1 .. k - 1 : g.node[t[k]].parent = t[j]
        <5>0. Len(t) \in Nat /\ k \in 1 .. Len(t) /\ i \in 1 .. Len(o)
          BY <3>4, <3>6
        <5>1. CASE k = i + 1
          <6>1. i \in 1 .. k - 1 /\ i \in 1 .. Len(t) /\ t[i] = parent
            BY <3>2, <3>4, <3>6, <5>0, <5>1
          <6> QED
            BY <1>7, <3>10, <5>1, <6>1
        <5>2. CASE k # i + 1
          <6> DEFINE w == Was(k)
          <6>1. w \in 2 .. Len(o) /\ w <= k /\ t[k] = o[w]
            BY <3>4, <3>6, <3>9, <5>0, <5>2
          <6>2. k > i => w = k - 1
            BY <5>0
          <6>3. k <= i => w = k
            BY <5>0
          <6> HIDE DEF w
          <6>4. PICK v \in 1 .. w - 1 : f.node[o[w]].parent = o[v]
            BY <3>4, <6>1
          <6>5. w \in 1 .. Len(o) /\ v \in 1 .. Len(o) /\ o[w] \in A
            BY <3>4, <6>1
          <6>6. g.node[t[k]].parent = o[v]
            BY <1>4, <6>1, <6>4, <6>5
          <6>7. CASE v <= i
            <7>1. v \in 1 .. k - 1 /\ v \in 1 .. Len(t)
              BY <3>4, <3>6, <6>1, <6>4, <6>5
            <7>2. t[v] = o[v]
              BY <3>6, <6>7, <7>1
            <7> QED
              BY <6>6, <7>1, <7>2
          <6>8. CASE v > i
            <7>1. /\ v + 1 \in 1 .. k - 1 /\ v + 1 \in 1 .. Len(t) /\ (v + 1) - 1 = v
                  /\ ~(v + 1 <= i) /\ v + 1 # i + 1
              BY <3>4, <3>6, <5>0, <6>1, <6>2, <6>3, <6>4, <6>5, <6>8
            <7>2. t[v + 1] = o[v]
              BY <3>6, <7>1
            <7> QED
              BY <6>6, <7>1, <7>2
          <6> QED
            BY <5>0, <6>5, <6>7, <6>8
        <5> QED
          BY <5>1, <5>2
      <4> HIDE DEF Was
      <4> QED
        BY <3>7, <4>1, <4>2, <4>3, <4>4 DEF Listed
    <3>13. HandlesDifferIn(g, r)
      <4>1. ASSUME NEW j \in 1 .. Len(t), NEW k \in 1 .. Len(t),
                   g.node[t[j]].phandle # 0, g.node[t[j]].phandle = g.node[t[k]].phandle
            PROVE  j = k
        <5>1. j # i + 1 /\ k # i + 1
          BY <1>7, <3>10, <4>1
        <5>2. /\ Was(j) \in 1 .. Len(o) /\ t[j] = o[Was(j)]
              /\ Was(k) \in 1 .. Len(o) /\ t[k] = o[Was(k)]
          BY <3>9, <5>1
        <5> HIDE DEF Was
        <5>3. /\ g.node[t[j]].phandle = f.node[o[Was(j)]].phandle
              /\ g.node[t[k]].phandle = f.node[o[Was(k)]].phandle
          <6>1. o[Was(j)] \in A /\ o[Was(k)] \in A
            BY <3>4, <5>2
          <6> QED
            BY <1>4, <5>2, <6>1
        <5>4. Was(j) = Was(k)
          BY <3>5, <4>1, <5>2, <5>3
        <5> QED
          BY <3>11, <5>1, <5>4
      <4> QED
        BY <3>7, <4>1 DEF HandlesDifferIn
    <3>14. \A q \in Roots(g) : Listed(g, q) /\ HandlesDifferIn(g, q)
      BY <1>10, <3>7, <3>12, <3>13
    <3>15. ASSUME NEW m \in Allocated(g)
           PROVE  \E q \in Roots(g) : \E k \in 1 .. Len(g.order[q]) : g.order[q][k] = m
      <4>1. CASE m = n
        BY <3>1, <3>7, <3>10, <4>1
      <4>2. CASE m \in A
        <5>1. PICK q \in Roots(f) : \E k \in 1 .. Len(f.order[q]) : f.order[q][k] = m
          BY <2>00, <4>2
        <5>2. CASE q # r
          BY <3>7, <5>1, <5>2
        <5>3. CASE q = r
          <6>1. PICK k \in 1 .. Len(o) : o[k] = m
            BY <5>1, <5>3 DEF o
          <6>2. CASE k <= i
            <7>1. k \in 1 .. Len(t) /\ t[k] = m
              BY <3>4, <3>6, <6>1, <6>2
            <7> QED
              BY <3>1, <3>7, <7>1
          <6>3. CASE k > i
            <7>1. k + 1 \in 1 .. Len(t) /\ (k + 1) - 1 = k /\ ~(k + 1 <= i) /\ k + 1 # i + 1
              BY <3>4, <3>6, <6>3
            <7>2. t[k + 1] = m
              BY <3>6, <6>1, <7>1
            <7> QED
              BY <3>1, <3>7, <7>1, <7>2
          <6> QED
            BY <3>4, <6>2, <6>3
        <5> QED
          BY <5>2, <5>3
      <4> QED
        BY <1>3, <4>1, <4>2
    <3> QED
      BY <1>2, <2>0, <3>7, <3>8, <3>14, <3>15
  <2> QED
    BY <2>1, <2>2
<1>12. IsForest(g)
  BY <1>2, <1>3, <1>11 DEF IsForest
<1>13. Shaped(g)
  BY <1>9, <1>11, <1>12 DEF Shaped
<1>14. HandlesDiffer(g)
  BY <1>11 DEF HandlesDiffer, HandlesDifferIn
<1>15. Neat(g)
  <2>1. Neat(f)
    BY DEF Sound
  <2> QED
    BY <1>1, <1>2, <1>b, <1>13, <2>1, NewNodeNeat
<1>16. Sound(g)
  BY <1>8, <1>13, <1>14, <1>15 DEF Sound
<1> QED
  BY <1>2, <1>3, <1>11, <1>16 DEF g, n

-----------------------------------------------------------------------------
(* of_get_child_by_name and of_create_node *)

\* The index that SelectInSeq finds: the first that fits, or 0.
LEMMA ChildFacts ==
    ASSUME NEW f, Shaped(f), NEW n \in Allocated(f), NEW name
    PROVE  LET c == of_get_child_by_name(f, n, name)
               s == f.node[n].children
           IN
           /\ c = NULL => \A i \in 1 .. Len(s) : f.node[s[i]].name # name
           /\ c # NULL => /\ c \in Allocated(f) /\ f.node[c].name = name
                          /\ \E i \in 1 .. Len(s) : s[i] = c
<1> DEFINE s == f.node[n].children
           I == {i \in 1 .. Len(s) : f.node[s[i]].name = name}
           k == IF I # {} THEN Min(I) ELSE 0
           c == of_get_child_by_name(f, n, name)
<1>1. s \in Seq(NodeId) /\ Len(s) \in Nat /\ \A i \in 1 .. Len(s) : s[i] \in Allocated(f)
  <2>1. s \in Seq(NodeId)
    BY NodeTypes
  <2>2. \A i \in 1 .. Len(s) : s[i] \in Allocated(f)
    BY DEF Shaped
  <2> QED
    BY <2>1, <2>2
<1>2. c = IF k = 0 THEN NULL ELSE s[k]
  BY DEF of_get_child_by_name, SelectInSeq
<1>3. \A x \in Allocated(f) : x # NULL
  BY NodeTypes
<1>4. I \subseteq 1 .. Len(s)
  OBVIOUS
<1>5. (I = {} => k = 0) /\ (I # {} => k \in I /\ k # 0)
  <2> HIDE DEF I
  <2> QED
    BY <1>1, <1>4, FirstIndex
<1> HIDE DEF c, k, s
<1>6. CASE I = {}
  <2>1. c = NULL /\ \A i \in 1 .. Len(s) : f.node[s[i]].name # name
    BY <1>2, <1>5, <1>6
  <2> QED
    BY <2>1 DEF c, s
<1>7. CASE I # {}
  <2>1. k \in 1 .. Len(s) /\ f.node[s[k]].name = name /\ c = s[k]
    BY <1>2, <1>5, <1>7
  <2>2. s[k] \in Allocated(f) /\ s[k] # NULL
    BY <1>1, <1>3, <2>1
  <2> QED
    BY <2>1, <2>2 DEF c, s
<1> QED
  BY <1>6, <1>7

LEMMA MakeStepSound ==
    ASSUME NEW f, Sound(f), NEW dn \in Allocated(f), NEW name \in NodeName,
           NodeId # Allocated(f)
    PROVE  LET t == MakeStep([f |-> f, dn |-> dn], name) IN
           /\ t = [f |-> t.f, dn |-> t.dn]
           /\ Sound(t.f) /\ Roots(f) \subseteq Roots(t.f) /\ t.dn \in Allocated(t.f)
           /\ \E x : Allocated(t.f) \subseteq Allocated(f) \cup {x}
<1> DEFINE s == [f |-> f, dn |-> dn]
           c == of_get_child_by_name(f, dn, name)
           g == of_new_node(f, dn, name)
           t == MakeStep(s, name)
<1>1. s.f = f /\ s.dn = dn
  OBVIOUS
<1>2. t = IF c # NULL THEN [f |-> f, dn |-> c] ELSE [f |-> g, dn |-> FreeId(f)]
  BY <1>1 DEF MakeStep
<1>3. c # NULL => c \in Allocated(f)
  BY ChildFacts DEF Sound
<1>4. /\ Sound(g) /\ Roots(f) \subseteq Roots(g)
      /\ Allocated(g) = Allocated(f) \cup {FreeId(f)}
  BY NewNodeSound
<1> HIDE DEF t, c, g
<1>5. CASE c # NULL
  <2>1. t = [f |-> t.f, dn |-> t.dn] /\ t.f = f /\ t.dn = c
    BY <1>2, <1>5
  <2> QED
    BY <1>3, <1>5, <2>1 DEF t
<1>6. CASE c = NULL
  <2>1. t = [f |-> t.f, dn |-> t.dn] /\ t.f = g /\ t.dn = FreeId(f)
    BY <1>2, <1>6
  <2>2. Allocated(t.f) \subseteq Allocated(f) \cup {FreeId(f)} /\ t.dn \in Allocated(t.f)
    BY <1>4, <2>1
  <2> QED
    BY <1>4, <2>1, <2>2 DEF t
<1> QED
  BY <1>5, <1>6

Forests == [node : UNION {[D -> NodeRec] : D \in SUBSET NodeId},
            order : UNION {[D -> Seq(NodeId)] : D \in SUBSET NodeId}]

LEMMA ForestsAreASet ==
    ASSUME NEW f, IsForest(f)
    PROVE  f \in Forests
<1> DEFINE X == UNION {[D -> NodeRec] : D \in SUBSET NodeId}
           Y == UNION {[D -> Seq(NodeId)] : D \in SUBSET NodeId}
<1>1. f.node \in X /\ f.order \in Y
  BY DEF IsForest
<1>2. f = [node |-> f.node, order |-> f.order]
  BY DEF IsForest
<1> HIDE DEF X, Y
<1>3. f \in [node : X, order : Y]
  BY <1>1, <1>2
<1> QED
  BY <1>3 DEF Forests, X, Y

\* As many nodes are free as the path may need.
LEMMA FreeShrinks ==
    ASSUME NEW A, NEW B, NEW x, B \subseteq A \cup {x}, NEW k \in Nat,
           Cardinality(NodeId \ A) >= k + 1
    PROVE  Cardinality(NodeId \ B) >= k /\ NodeId # A
<1> DEFINE P == NodeId \ A
           Q == P \ {x}
           R == NodeId \ B
<1>1. IsFiniteSet(P) /\ IsFiniteSet(R) /\ Cardinality(P) \in Nat /\ Cardinality(R) \in Nat
  BY TreeAssumption, FS_Subset, FS_CardinalityType
<1>2. Q \subseteq R
  OBVIOUS
<1>3. Cardinality(Q) >= k /\ Cardinality(Q) \in Nat
  <2> HIDE DEF P
  <2>1. IsFiniteSet(Q) /\ Cardinality(Q) = IF x \in P THEN Cardinality(P) - 1 ELSE Cardinality(P)
    BY <1>1, FS_RemoveElement
  <2>2. Cardinality(P) >= k + 1
    BY DEF P
  <2>3. Cardinality(Q) \in Nat
    BY <2>1, FS_CardinalityType
  <2> QED
    BY <1>1, <2>1, <2>2, <2>3
<1>4. Cardinality(Q) <= Cardinality(R)
  <2> HIDE DEF Q, R
  <2> QED
    BY <1>1, <1>2, FS_Subset
<1>5. NodeId # A
  <2> SUFFICES ASSUME NodeId = A PROVE FALSE
    OBVIOUS
  <2>1. NodeId \ A = {}
    OBVIOUS
  <2>2. Cardinality(NodeId \ A) = 0
    BY <2>1, FS_EmptySet
  <2> QED
    BY <2>2
<1> HIDE DEF Q
<1> QED
  BY <1>1, <1>3, <1>4, <1>5

LEMMA CreateSound ==
    ASSUME NEW f, Sound(f), NEW from \in Allocated(f), NEW path \in Seq(NodeName),
           Cardinality(NodeId \ Allocated(f)) >= Len(path)
    PROVE  LET g == of_create_node(f, from, path) IN
           Sound(g) /\ Roots(f) \subseteq Roots(g)
<1> DEFINE n == Len(path)
           Free(s) == Cardinality(NodeId \ Allocated(s.f))
           Ok(s) == /\ Sound(s.f) /\ Roots(f) \subseteq Roots(s.f)
                    /\ s.dn \in Allocated(s.f)
           S == {s \in [f : Forests, dn : NodeId] : Ok(s)}
           b == [f |-> f, dn |-> from]
           Step(s, k) == MakeStep(s, path[k])
           F == [x \in S \X (1 .. n) |->
                    IF Step(x[1], x[2]) \in S THEN Step(x[1], x[2]) ELSE x[1]]
<1>1. n \in Nat /\ \A k \in 1 .. n : path[k] \in NodeName
  OBVIOUS
<1>2. ASSUME NEW g, NEW d \in Allocated(g), Sound(g), Roots(f) \subseteq Roots(g)
      PROVE  [f |-> g, dn |-> d] \in S
  <2>1. g \in Forests /\ d \in NodeId
    BY <1>2, ForestsAreASet DEF Sound, Shaped, IsForest
  <2> QED
    BY <1>2, <2>1
<1>3. b \in S /\ Free(b) >= n /\ Free(b) \in Nat
  <2>1. b \in S
    BY <1>2
  <2>2. IsFiniteSet(NodeId \ Allocated(f))
    BY TreeAssumption, FS_Subset
  <2> QED
    BY <2>1, <2>2, FS_CardinalityType
<1>4. ASSUME NEW s \in S, NEW k \in 1 .. n, NEW j \in Nat, Free(s) >= j + 1
      PROVE  Step(s, k) \in S /\ Free(Step(s, k)) >= j
  <2> DEFINE t == Step(s, k)
  <2>1. Ok(s) /\ s = [f |-> s.f, dn |-> s.dn]
    OBVIOUS
  <2>2. NodeId # Allocated(s.f)
    BY <1>4, FreeShrinks
  <2>3. /\ t = [f |-> t.f, dn |-> t.dn]
        /\ Sound(t.f) /\ Roots(s.f) \subseteq Roots(t.f) /\ t.dn \in Allocated(t.f)
        /\ \E x : Allocated(t.f) \subseteq Allocated(s.f) \cup {x}
    <3> DEFINE h == s.f
               dn == s.dn
    <3>1. Sound(h) /\ dn \in Allocated(h) /\ s = [f |-> h, dn |-> dn] /\ path[k] \in NodeName
      BY <1>1, <2>1
    <3>2. t = MakeStep([f |-> h, dn |-> dn], path[k])
      BY <3>1
    <3> HIDE DEF h, dn, t
    <3>3. /\ t = [f |-> t.f, dn |-> t.dn]
          /\ Sound(t.f) /\ Roots(h) \subseteq Roots(t.f) /\ t.dn \in Allocated(t.f)
          /\ \E x : Allocated(t.f) \subseteq Allocated(h) \cup {x}
      BY <2>2, <3>1, <3>2, MakeStepSound DEF h
    <3> QED
      BY <3>3 DEF h
  <2> HIDE DEF t
  <2>4. t \in S
    <3>1. Roots(f) \subseteq Roots(t.f)
      BY <2>1, <2>3
    <3> HIDE DEF S
    <3> QED
      BY <1>2, <2>3, <3>1
  <2>5. PICK x : Allocated(t.f) \subseteq Allocated(s.f) \cup {x}
    BY <2>3
  <2>6. Free(t) >= j
    BY <1>4, <2>5, FreeShrinks
  <2> QED
    BY <2>4, <2>6 DEF t
<1>5. ASSUME NEW s \in S, NEW k \in 1 .. n
      PROVE  /\ F[<<s, k>>] = IF Step(s, k) \in S THEN Step(s, k) ELSE s
             /\ F[<<s, k>>] \in S
  <2> HIDE DEF S, Step
  <2> QED
    OBVIOUS
<1>6. F \in [S \X (1 .. n) -> S]
  <2> HIDE DEF S, Step
  <2> QED
    OBVIOUS
<1> HIDE DEF n, S, F, b, Step, Ok, Free
<1>7. PICK u : Recursive(u, n, S, b, F)
  BY <1>1, <1>3, <1>6, RecursionExists
<1>8. u \in [0 .. n -> S] /\ u[0] = b /\ \A k \in 1 .. n : u[k] = F[<<u[k - 1], k>>]
  BY <1>7 DEF Recursive
\* Enough nodes stay free.
<1> DEFINE T == {k \in Nat : k <= n =>
                    /\ Free(u[k]) >= n - k
                    /\ k # 0 => u[k] = Step(u[k - 1], k)}
<1>9. 0 \in T
  BY <1>1, <1>3, <1>8
<1>10. ASSUME NEW k \in Nat, k \in T PROVE k + 1 \in T
  <2> SUFFICES ASSUME k + 1 <= n
               PROVE  Free(u[k + 1]) >= n - (k + 1) /\ u[k + 1] = Step(u[(k + 1) - 1], k + 1)
    OBVIOUS
  <2> DEFINE j == n - (k + 1)
  <2>1. /\ j \in Nat /\ n - k = j + 1 /\ (k + 1) - 1 = k
        /\ k + 1 \in 1 .. n /\ k \in 0 .. n /\ k <= n
    BY <1>1
  <2>2. Free(u[k]) >= j + 1 /\ u[k] \in S
    BY <1>8, <1>10, <2>1
  <2>3. u[k + 1] = F[<<u[k], k + 1>>]
    BY <1>8, <2>1
  <2> HIDE DEF j
  <2>4. Step(u[k], k + 1) \in S /\ Free(Step(u[k], k + 1)) >= j
    BY <1>4, <2>1, <2>2
  <2>5. u[k + 1] = Step(u[k], k + 1)
    BY <1>5, <2>1, <2>2, <2>3, <2>4
  <2> QED
    BY <2>1, <2>4, <2>5 DEF j
<1>11. Nat \subseteq T
  <2> HIDE DEF T
  <2> QED
    BY <1>9, <1>10, NatSetInduction
<1>12. \A k \in 1 .. n : u[k] = Step(u[k - 1], k)
  BY <1>1, <1>11
<1> DEFINE M == CHOOSE h : h = [k \in 0 .. n |-> IF k = 0 THEN b ELSE Step(h[k - 1], k)]
<1>13. u = [k \in 0 .. n |-> IF k = 0 THEN b ELSE Step(u[k - 1], k)]
  <2>1. \A k \in 0 .. n : u[k] = IF k = 0 THEN b ELSE Step(u[k - 1], k)
    BY <1>1, <1>8, <1>12
  <2>2. u = [k \in 0 .. n |-> u[k]]
    BY <1>8
  <2> QED
    BY <2>1, <2>2
<1>14. M = [k \in 0 .. n |-> IF k = 0 THEN b ELSE Step(M[k - 1], k)]
  BY <1>13
<1>15. of_create_node(f, from, path) = M[n].f
  BY DEF of_create_node, n, Step, b
<1> HIDE DEF M
<1>16. M[0] = b /\ \A k \in 1 .. n : M[k] = Step(M[k - 1], k)
  BY <1>1, <1>14
<1> DEFINE V == {k \in Nat : k <= n => M[k] \in S /\ Free(M[k]) >= n - k}
<1>17. 0 \in V
  BY <1>1, <1>3, <1>16
<1>18. ASSUME NEW k \in Nat, k \in V PROVE k + 1 \in V
  <2> SUFFICES ASSUME k + 1 <= n PROVE M[k + 1] \in S /\ Free(M[k + 1]) >= n - (k + 1)
    OBVIOUS
  <2> DEFINE j == n - (k + 1)
  <2>1. /\ j \in Nat /\ n - k = j + 1 /\ (k + 1) - 1 = k
        /\ k + 1 \in 1 .. n /\ k <= n
    BY <1>1
  <2>2. Free(M[k]) >= j + 1 /\ M[k] \in S
    BY <1>18, <2>1
  <2>3. M[k + 1] = Step(M[k], k + 1)
    BY <1>16, <2>1
  <2> HIDE DEF j
  <2>4. Step(M[k], k + 1) \in S /\ Free(Step(M[k], k + 1)) >= j
    BY <1>4, <2>1, <2>2
  <2> QED
    BY <2>3, <2>4 DEF j
<1>19. Nat \subseteq V
  <2> HIDE DEF V
  <2> QED
    BY <1>17, <1>18, NatSetInduction
<1>20. M[n] \in S
  BY <1>1, <1>19
<1>21. Sound(M[n].f) /\ Roots(f) \subseteq Roots(M[n].f)
  BY <1>20 DEF S, Ok
<1> QED
  BY <1>15, <1>21

-----------------------------------------------------------------------------
(* of_delete_node *)

\* g is f without n and what is below it.
Shrunk(f, g, n) ==
    LET left == Allocated(f) \ Subtree(f, n)
        p == f.node[n].parent
    IN
    /\ g = [node |-> g.node, order |-> g.order]
    /\ Allocated(g) = left /\ g.node \in [left -> NodeRec]
    /\ \A m \in left :
          /\ g.node[m].parent = f.node[m].parent
          /\ g.node[m].props = f.node[m].props
          /\ g.node[m].phandle = f.node[m].phandle
          /\ g.node[m].children = IF m = p THEN Rest(f.node[m].children, {n})
                                  ELSE f.node[m].children
    /\ g.order = [m \in Roots(f) \ Subtree(f, n) |->
                     IF m = of_find_root_node(f, n)
                     THEN Rest(f.order[of_find_root_node(f, n)], Subtree(f, n))
                     ELSE f.order[m]]

LEMMA DeleteNodes ==
    ASSUME NEW f, Shaped(f), NEW n \in Allocated(f), NEW g, g = of_delete_node(f, n)
    PROVE  Shrunk(f, g, n)
<1> DEFINE gone == Subtree(f, n)
           left == Allocated(f) \ gone
           p == f.node[n].parent
           r == of_find_root_node(f, n)
           table == [m \in left |->
                        IF m = p THEN [f.node[m] EXCEPT !.children = Rest(@, {n})]
                        ELSE f.node[m]]
           orders == [m \in Roots(f) \ gone |->
                         IF m = r THEN Rest(f.order[r], gone) ELSE f.order[m]]
<1>1. g = [node |-> table, order |-> orders]
  BY DEF of_delete_node
<1> HIDE DEF table, orders, gone, p, r
<1>2. g.node = table /\ g.order = orders /\ g = [node |-> g.node, order |-> g.order]
  BY <1>1
<1>3. ASSUME NEW m \in left
      PROVE  /\ table[m] \in NodeRec
             /\ table[m].parent = f.node[m].parent
             /\ table[m].props = f.node[m].props
             /\ table[m].phandle = f.node[m].phandle
             /\ table[m].children = IF m = p THEN Rest(f.node[m].children, {n})
                                    ELSE f.node[m].children
  <2>1. f.node[m] \in NodeRec
    BY NodeTypes
  <2>2. CASE m # p
    <3>1. table[m] = f.node[m]
      BY <2>2 DEF table
    <3> QED
      BY <2>1, <2>2, <3>1
  <2>3. CASE m = p
    <3> DEFINE old == f.node[m]
               c == Rest(old.children, {n})
               new == [old EXCEPT !.children = c]
    <3>1. table[m] = new
      BY <2>3 DEF table
    <3>2. old.children \in Seq(NodeId)
      BY NodeTypes
    <3>3. c \in Seq(NodeId)
      BY <3>2, RestFacts
    <3> HIDE DEF c, old
    <3>4. old \in NodeRec
      BY <2>1 DEF old
    <3>5. /\ new \in NodeRec /\ new.parent = old.parent /\ new.props = old.props
          /\ new.phandle = old.phandle /\ new.children = c
      BY <3>3, <3>4 DEF NodeRec
    <3> HIDE DEF new
    <3> QED
      BY <2>3, <3>1, <3>5 DEF c, old
  <2> QED
    BY <2>2, <2>3
<1>4. table \in [left -> NodeRec] /\ DOMAIN table = left
  <2>1. \A m \in left : table[m] \in NodeRec
    BY <1>3
  <2> QED
    BY <2>1 DEF table
<1>5. Allocated(g) = left
  BY <1>2, <1>4 DEF Allocated
<1>6. \A m \in left :
         /\ g.node[m].parent = f.node[m].parent
         /\ g.node[m].props = f.node[m].props
         /\ g.node[m].phandle = f.node[m].phandle
         /\ g.node[m].children = IF m = p THEN Rest(f.node[m].children, {n})
                                 ELSE f.node[m].children
  BY <1>2, <1>3
<1>7. g.node \in [left -> NodeRec]
  BY <1>2, <1>4
<1>8. g.order = [m \in Roots(f) \ gone |->
                    IF m = r THEN Rest(f.order[r], gone) ELSE f.order[m]]
  BY <1>2 DEF orders
<1> QED
  BY <1>2, <1>5, <1>6, <1>7, <1>8, Zenon DEF gone, p, r, Shrunk

LEMMA DeleteSound ==
    ASSUME NEW f, Sound(f), NEW n \in Allocated(f), NEW g, g = of_delete_node(f, n)
    PROVE  Sound(g) /\ Roots(f) \ {n} \subseteq Roots(g)
<1> DEFINE gone == Subtree(f, n)
           left == Allocated(f) \ gone
           p == f.node[n].parent
           r == of_find_root_node(f, n)
<1>1. Shaped(f)
  BY DEF Sound
<1>2. /\ n \in gone /\ gone \subseteq Allocated(f)
      /\ \A m \in Allocated(f) :
            f.node[m].parent # NULL /\ f.node[m].parent \in gone => m \in gone
      /\ \A m \in gone : m # n => f.node[m].parent # NULL /\ f.node[m].parent \in gone
      /\ \A m \in gone : of_find_root_node(f, m) = r
      /\ \A q \in Roots(f) : q \in gone => q = n
  BY <1>1, SubtreeFacts
<1>3. /\ g = [node |-> g.node, order |-> g.order]
      /\ Allocated(g) = left /\ g.node \in [left -> NodeRec]
      /\ \A m \in left :
            /\ g.node[m].parent = f.node[m].parent
            /\ g.node[m].props = f.node[m].props
            /\ g.node[m].phandle = f.node[m].phandle
            /\ g.node[m].children = IF m = p THEN Rest(f.node[m].children, {n})
                                    ELSE f.node[m].children
      /\ g.order = [m \in Roots(f) \ gone |->
                       IF m = r THEN Rest(f.order[r], gone) ELSE f.order[m]]
  <2>1. Shrunk(f, g, n)
    BY <1>1, DeleteNodes
  <2> QED
    BY <2>1, Zenon DEF Shrunk
<1>4. Roots(f) \subseteq Allocated(f) /\ Roots(f) = {m \in Allocated(f) : f.node[m].parent = NULL}
  BY <1>1 DEF Shaped
<1>5. n \in Roots(f) => \A m : m \in gone <=> \E k \in 1 .. Len(f.order[n]) : f.order[n][k] = m
  BY <1>1, SubtreeOfRoot
<1> HIDE DEF gone, p, r
<1>6. Roots(g) = Roots(f) \ gone
  BY <1>3 DEF Roots
<1>7. Roots(f) \ {n} \subseteq Roots(g)
  BY <1>2, <1>6
<1>8. \A m \in Allocated(g) : Consistent(g.node[m])
  <2> TAKE m \in Allocated(g)
  <2>1. m \in Allocated(f) /\ m \in left
    BY <1>3
  <2>2. Consistent(f.node[m])
    BY <2>1 DEF Sound
  <2>3. g.node[m].props = f.node[m].props /\ g.node[m].phandle = f.node[m].phandle
    BY <1>3, <2>1
  <2> QED
    BY <2>2, <2>3 DEF Consistent
<1>9. ASSUME NEW m \in left
      PROVE  LET s == f.node[m].children
                 c == g.node[m].children
             IN  /\ \A i \in 1 .. Len(c) : \E j \in 1 .. Len(s) : c[i] = s[j] /\ (m = p => s[j] # n)
                 /\ \A j \in 1 .. Len(s) : s[j] # n => \E i \in 1 .. Len(c) : c[i] = s[j]
  <2> DEFINE s == f.node[m].children
             c == g.node[m].children
             w == Rest(s, {n})
  <2>1. s \in Seq(NodeId)
    BY <1>1, NodeTypes
  <2>2. c = IF m = p THEN w ELSE s
    BY <1>3
  <2>3. PICK h : Left(w, s, Len(s), {n}, h)
    BY <2>1, RestFacts
  <2> HIDE DEF w, s, c
  <2>4. CASE m # p
    BY <2>2, <2>4 DEF s, c
  <2>5. CASE m = p
    <3>1. c = w
      BY <2>2, <2>5
    <3>2. \A i \in 1 .. Len(w) : h[i] \in 1 .. Len(s) /\ w[i] = s[h[i]] /\ s[h[i]] # n
      BY <2>3 DEF Left
    <3>3. \A j \in 1 .. Len(s) : s[j] # n => \E i \in 1 .. Len(w) : h[i] = j
      BY <2>3 DEF Left
    <3>4. \A i \in 1 .. Len(c) : \E j \in 1 .. Len(s) : c[i] = s[j] /\ (m = p => s[j] # n)
      BY <3>1, <3>2
    <3>5. \A j \in 1 .. Len(s) : s[j] # n => \E i \in 1 .. Len(c) : c[i] = s[j]
      BY <3>1, <3>2, <3>3
    <3> QED
      BY <3>4, <3>5 DEF s, c
  <2> QED
    BY <2>4, <2>5
<1>10. ASSUME NEW m \in Allocated(g)
       PROVE  LET c == g.node[m].children IN
              /\ \A i \in 1 .. Len(c) : c[i] \in Allocated(g) /\ g.node[c[i]].parent = m
              /\ g.node[m].parent # NULL =>
                    LET s == g.node[g.node[m].parent].children IN
                    \E i \in 1 .. Len(s) : s[i] = m
  <2>0. m \in left /\ m \in Allocated(f) /\ m \notin gone /\ m # NULL
    BY <1>1, <1>3, NodeTypes
  <2>1. ASSUME NEW i \in 1 .. Len(g.node[m].children)
        PROVE  /\ g.node[m].children[i] \in Allocated(g)
               /\ g.node[g.node[m].children[i]].parent = m
    <3>1. PICK j \in 1 .. Len(f.node[m].children) :
             /\ g.node[m].children[i] = f.node[m].children[j]
             /\ m = p => f.node[m].children[j] # n
      BY <1>9, <2>0
    <3> DEFINE x == f.node[m].children[j]
    <3>2. x \in Allocated(f) /\ f.node[x].parent = m
      BY <1>1, <2>0 DEF Shaped
    <3>3. g.node[m].children[i] = x /\ (m = p => x # n)
      BY <3>1
    <3> HIDE DEF x
    <3>4. x # n
      BY <3>2, <3>3 DEF p
    <3>5. x \notin gone
      BY <1>2, <2>0, <3>2, <3>4
    <3> QED
      BY <1>3, <3>2, <3>3, <3>5
  <2>2. ASSUME g.node[m].parent # NULL
        PROVE  \E i \in 1 .. Len(g.node[g.node[m].parent].children) :
                  g.node[g.node[m].parent].children[i] = m
    <3> DEFINE q == f.node[m].parent
    <3>1. g.node[m].parent = q /\ q # NULL
      BY <1>3, <2>0, <2>2
    <3>2. q \in Allocated(f)
      BY <1>1, <2>0, <3>1, NodeTypes
    <3>3. PICK j \in 1 .. Len(f.node[q].children) : f.node[q].children[j] = m
      BY <1>1, <2>0, <3>1 DEF Shaped
    <3>4. q \in left
      BY <1>2, <2>0, <3>1, <3>2
    <3>5. m # n
      BY <1>2, <2>0
    <3> HIDE DEF q
    <3>6. PICK i \in 1 .. Len(g.node[q].children) : g.node[q].children[i] = f.node[q].children[j]
      BY <1>9, <3>3, <3>4, <3>5
    <3> QED
      BY <3>1, <3>3, <3>6
  <2> QED
    BY <2>1, <2>2
<1>11. ASSUME NEW q \in Roots(g)
       PROVE  LET s == f.order[q]
                  t == g.order[q]
              IN  /\ t \in Seq(NodeId) /\ Len(s) \in Nat /\ Len(t) \in Nat
                  /\ IsRest(t, s, gone) /\ t # <<>> /\ t[1] = q
  <2> DEFINE s == f.order[q]
             t == g.order[q]
  <2>1. q \in Roots(f) /\ q \notin gone
    BY <1>6
  <2>2. s \in Seq(NodeId) /\ Len(s) \in Nat
    BY <1>1, <2>1, NodeTypes
  <2>3. /\ s # <<>> /\ s[1] = q
        /\ \A i, j \in 1 .. Len(s) : s[i] = s[j] => i = j
        /\ \A k \in 1 .. Len(s) : s[k] \in Allocated(f)
    BY <1>1, <2>1 DEF Shaped, Listed
  <2>4. CASE q = r
    <3>1. t = Rest(s, gone)
      BY <1>3, <2>1, <2>4
    <3> HIDE DEF s, t
    <3>2. t \in Seq(NodeId) /\ IsRest(t, s, gone)
      BY <2>2, <2>3, <3>1, RestMembers
    <3>3. t # <<>> /\ t[1] = q
      BY <2>1, <2>3, <3>2 DEF IsRest
    <3> QED
      BY <2>2, <3>2, <3>3 DEF s, t
  <2>5. CASE q # r
    <3>1. t = s
      BY <1>3, <2>1, <2>5
    <3>2. \A k \in 1 .. Len(s) : s[k] \notin gone
      <4> SUFFICES ASSUME NEW k \in 1 .. Len(s), s[k] \in gone PROVE FALSE
        OBVIOUS
      <4>1. of_find_root_node(f, s[k]) = r
        BY <1>2
      <4>2. of_find_root_node(f, s[k]) = q
        BY <1>1, <2>1, <2>3, RootOf
      <4> QED
        BY <2>5, <4>1, <4>2
    <3> HIDE DEF s, t
    <3>3. \A i \in 1 .. Len(t) : \A j, k \in 1 .. Len(s) :
             t[i] = s[k] /\ j < k /\ s[j] \notin gone => \E h \in 1 .. i - 1 : t[h] = s[j]
      <4> SUFFICES ASSUME NEW i \in 1 .. Len(t), NEW j \in 1 .. Len(s), NEW k \in 1 .. Len(s),
                          t[i] = s[k], j < k
                   PROVE  \E h \in 1 .. i - 1 : t[h] = s[j]
        OBVIOUS
      <4>1. i = k
        BY <2>3, <3>1
      <4>2. j \in 1 .. i - 1
        BY <2>2, <4>1
      <4> QED
        BY <3>1, <4>2
    <3>4. IsRest(t, s, gone)
      BY <2>3, <3>1, <3>2, <3>3 DEF IsRest
    <3> QED
      BY <2>2, <2>3, <3>1, <3>4 DEF s, t
  <2> QED
    BY <2>4, <2>5
<1>12. ASSUME NEW q \in Roots(g) PROVE Listed(g, q) /\ HandlesDifferIn(g, q)
  <2> DEFINE s == f.order[q]
             t == g.order[q]
  <2>1. /\ Len(s) \in Nat /\ Len(t) \in Nat
        /\ \A i \in 1 .. Len(t) : t[i] \notin gone /\ \E j \in 1 .. Len(s) : t[i] = s[j]
        /\ \A i, j \in 1 .. Len(t) : t[i] = t[j] => i = j
        /\ t # <<>> /\ t[1] = q
        /\ \A i \in 1 .. Len(t) : \A j, k \in 1 .. Len(s) :
              t[i] = s[k] /\ j < k /\ s[j] \notin gone => \E h \in 1 .. i - 1 : t[h] = s[j]
    BY <1>11 DEF IsRest
  <2>2. q \in Roots(f)
    BY <1>6
  <2>3. /\ s[1] = q
        /\ \A k \in 1 .. Len(s) : s[k] \in Allocated(f)
        /\ \A k \in 2 .. Len(s) : \E j \in 1 .. k - 1 : f.node[s[k]].parent = s[j]
    BY <1>1, <2>2 DEF Shaped, Listed
  <2>4. \A i, j \in 1 .. Len(s) :
           f.node[s[i]].phandle # 0 /\ f.node[s[i]].phandle = f.node[s[j]].phandle => i = j
    BY <2>2 DEF Sound, HandlesDiffer
  <2> HIDE DEF s, t
  <2>5. \A i \in 1 .. Len(t) : t[i] \in left
    BY <2>1, <2>3
  <2>6. ASSUME NEW k \in 2 .. Len(t)
        PROVE  \E h \in 1 .. k - 1 : g.node[t[k]].parent = t[h]
    <3>1. k \in 1 .. Len(t) /\ 1 \in 1 .. Len(t) /\ k # 1
      BY <2>1
    <3>2. PICK j \in 1 .. Len(s) : t[k] = s[j]
      BY <2>1, <3>1
    <3>3. j # 1
      BY <2>1, <2>3, <3>1, <3>2
    <3>4. j \in 2 .. Len(s)
      BY <2>1, <3>3
    <3>5. PICK v \in 1 .. j - 1 : f.node[s[j]].parent = s[v]
      BY <2>3, <3>4
    <3>6. v \in 1 .. Len(s) /\ v < j
      BY <2>1
    <3>7. s[v] \notin gone
      <4>1. s[v] # NULL /\ s[j] \in Allocated(f) /\ s[j] \notin gone
        BY <1>1, <2>1, <2>3, <3>1, <3>2, <3>6, NodeTypes
      <4> QED
        BY <1>2, <3>5, <4>1
    <3>8. \E h \in 1 .. k - 1 : t[h] = s[v]
      BY <2>1, <3>1, <3>2, <3>6, <3>7
    <3>9. g.node[t[k]].parent = s[v]
      BY <1>3, <2>5, <3>1, <3>2, <3>5
    <3> QED
      BY <3>8, <3>9
  <2>7. Listed(g, q)
    BY <1>3, <2>1, <2>5, <2>6 DEF Listed, t
  <2>8. ASSUME NEW i \in 1 .. Len(t), NEW j \in 1 .. Len(t),
               g.node[t[i]].phandle # 0, g.node[t[i]].phandle = g.node[t[j]].phandle
        PROVE  i = j
    <3>1. PICK a \in 1 .. Len(s) : t[i] = s[a]
      BY <2>1
    <3>2. PICK b \in 1 .. Len(s) : t[j] = s[b]
      BY <2>1
    <3>3. /\ g.node[t[i]].phandle = f.node[s[a]].phandle
          /\ g.node[t[j]].phandle = f.node[s[b]].phandle
      BY <1>3, <2>5, <3>1, <3>2
    <3>4. a = b
      BY <2>4, <2>8, <3>3
    <3> QED
      BY <2>1, <3>1, <3>2, <3>4
  <2>9. HandlesDifferIn(g, q)
    BY <2>8 DEF HandlesDifferIn, t
  <2> QED
    BY <2>7, <2>9
<1>13. ASSUME NEW m \in Allocated(g)
       PROVE  \E q \in Roots(g) : \E k \in 1 .. Len(g.order[q]) : g.order[q][k] = m
  <2>1. m \in Allocated(f) /\ m \notin gone
    BY <1>3
  <2> DEFINE q == of_find_root_node(f, m)
  <2>2. q \in Roots(f) /\ \E k \in 1 .. Len(f.order[q]) : f.order[q][k] = m
    BY <1>1, <2>1, RootOf
  <2> HIDE DEF q
  <2>3. q \in Roots(g)
    <3> SUFFICES ASSUME q \in gone PROVE FALSE
      BY <1>6, <2>2
    <3>1. q = n
      BY <1>2, <2>2
    <3> QED
      BY <1>5, <2>1, <2>2, <3>1
  <2>4. PICK k \in 1 .. Len(f.order[q]) : f.order[q][k] = m
    BY <2>2
  <2>5. IsRest(g.order[q], f.order[q], gone)
    BY <1>11, <2>3
  <2>6. \E i \in 1 .. Len(g.order[q]) : g.order[q][i] = f.order[q][k]
    BY <2>1, <2>4, <2>5 DEF IsRest
  <2> QED
    BY <2>3, <2>4, <2>6
<1>14. Roots(g) = {m \in Allocated(g) : g.node[m].parent = NULL}
  BY <1>3, <1>4, <1>6
<1>15. IsForest(g)
  <2>1. g.order \in [Roots(g) -> Seq(NodeId)]
    <3>1. \A q \in Roots(g) : g.order[q] \in Seq(NodeId)
      BY <1>11
    <3> QED
      BY <1>3, <1>6, <3>1
  <2>2. Allocated(f) \subseteq NodeId
    BY <1>1 DEF Shaped, IsForest
  <2>3. Roots(g) \subseteq NodeId /\ Allocated(g) \subseteq NodeId
    BY <1>3, <1>4, <1>6, <2>2
  <2> QED
    BY <1>3, <2>1, <2>3 DEF IsForest
<1>16. Shaped(g)
  BY <1>10, <1>12, <1>13, <1>14, <1>15 DEF Shaped
<1>17. HandlesDiffer(g)
  BY <1>12 DEF HandlesDiffer, HandlesDifferIn
<1>18. ASSUME NEW m \in left, NEW u
       PROVE  m \in Subtree(g, u) <=> m \in Subtree(f, u)
  <2>1. Climbable(f) /\ Climbable(g)
    BY <1>1, <1>16, NodeTypes
  <2>2. ASSUME NEW x \in left PROVE Above(f, x) \in left
    <3>1. f.node[x].parent # NULL => f.node[x].parent \in Allocated(f)
      BY <1>1, NodeTypes
    <3> QED
      BY <1>2, <3>1 DEF Above
  <2>3. \A x \in left : g.node[x].parent = f.node[x].parent /\ Above(f, x) \in left
    BY <1>3, <2>2
  <2>4. left \subseteq Allocated(f) /\ left \subseteq Allocated(g) /\ m \in left
    BY <1>3
  <2>5. SameAbove(f, g, left)
    BY <2>1, <2>3, <2>4 DEF SameAbove
  <2> HIDE DEF left
  <2> QED
    BY <2>4, <2>5, SubtreeSame
<1>19. ASSUME NEW q \in Roots(g) PROVE InOnePiece(g, q)
  <2> DEFINE s == f.order[q]
             t == g.order[q]
  <2>1. /\ Len(s) \in Nat /\ Len(t) \in Nat
        /\ \A i \in 1 .. Len(t) : t[i] \notin gone /\ \E j \in 1 .. Len(s) : t[i] = s[j]
        /\ \A i, j \in 1 .. Len(t) : t[i] = t[j] => i = j
        /\ \A i \in 1 .. Len(t) : \A j, k \in 1 .. Len(s) :
              t[i] = s[k] /\ j < k /\ s[j] \notin gone => \E h \in 1 .. i - 1 : t[h] = s[j]
    BY <1>11 DEF IsRest
  <2>2. /\ \A k \in 1 .. Len(s) : s[k] \in Allocated(f)
        /\ \A i, k \in 1 .. Len(s) : \A j \in i .. k :
              s[k] \in Subtree(f, s[i]) => s[j] \in Subtree(f, s[i])
    BY <1>1, <1>6 DEF Sound, Neat, InOnePiece, Shaped, Listed
  <2> HIDE DEF s, t
  <2>3. ASSUME NEW i \in 1 .. Len(t), NEW k \in 1 .. Len(t), i <= k,
               NEW a \in 1 .. Len(s), NEW b \in 1 .. Len(s), t[i] = s[a], t[k] = s[b]
        PROVE  a <= b
    <3> SUFFICES ASSUME b < a PROVE FALSE
      OBVIOUS
    <3>1. s[b] \notin gone
      BY <2>1, <2>3
    <3>2. PICK h \in 1 .. i - 1 : t[h] = s[b]
      BY <2>1, <2>3, <3>1
    <3>3. h \in 1 .. Len(t) /\ h # k
      BY <2>1, <2>3
    <3> QED
      BY <2>1, <2>3, <3>2, <3>3
  <2>4. ASSUME NEW i \in 1 .. Len(t), NEW k \in 1 .. Len(t), NEW j \in i .. k,
               t[k] \in Subtree(g, t[i])
        PROVE  t[j] \in Subtree(g, t[i])
    <3>1. j \in 1 .. Len(t) /\ i <= j /\ j <= k
      BY <2>1
    <3>2. PICK a \in 1 .. Len(s) : t[i] = s[a]
      BY <2>1
    <3>3. PICK b \in 1 .. Len(s) : t[k] = s[b]
      BY <2>1
    <3>4. PICK c \in 1 .. Len(s) : t[j] = s[c]
      BY <2>1, <3>1
    <3>5. a <= c /\ c <= b
      BY <2>3, <3>1, <3>2, <3>3, <3>4
    <3>6. t[k] \in left /\ t[j] \in left
      BY <2>1, <2>2, <3>1, <3>3, <3>4
    <3>7. s[b] \in Subtree(f, s[a])
      BY <1>18, <2>4, <3>2, <3>3, <3>6
    <3>8. s[c] \in Subtree(f, s[a])
      <4>1. c \in a .. b
        BY <3>5
      <4> QED
        BY <2>2, <3>7, <4>1
    <3> QED
      BY <1>18, <3>2, <3>4, <3>6, <3>8
  <2> QED
    BY <2>4 DEF InOnePiece, t
<1>20. ASSUME NEW m \in Allocated(g) PROVE ChildrenOnce(g, m)
  <2> DEFINE c == f.node[m].children
             d == Rest(c, {n})
  <2>1. m \in left /\ m \in Allocated(f)
    BY <1>3
  <2>2. c \in Seq(NodeId) /\ \A i, j \in 1 .. Len(c) : c[i] = c[j] => i = j
    BY <1>1, <2>1, NodeTypes DEF Sound, Neat, ChildrenOnce
  <2>3. g.node[m].children = IF m = p THEN d ELSE c
    BY <1>3, <2>1
  <2> HIDE DEF c
  <2>4. \A i, j \in 1 .. Len(d) : d[i] = d[j] => i = j
    <3>1. IsRest(d, c, {n})
      BY <2>2, RestMembers
    <3> HIDE DEF d
    <3> QED
      BY <3>1 DEF IsRest
  <2> HIDE DEF d
  <2> QED
    BY <2>2, <2>3, <2>4 DEF ChildrenOnce
<1>21. Neat(g)
  BY <1>19, <1>20 DEF Neat
<1> QED
  BY <1>7, <1>8, <1>16, <1>17, <1>21 DEF Sound

-----------------------------------------------------------------------------
(* Properties *)

\* g is f with other properties and another phandle at n.
Changed(f, g, n, props, phandle) ==
    /\ g = [node |-> g.node, order |-> f.order]
    /\ g.order = f.order
    /\ g.node \in [Allocated(f) -> NodeRec]
    /\ \A m \in Allocated(f) :
          /\ g.node[m].parent = f.node[m].parent
          /\ g.node[m].name = f.node[m].name
          /\ g.node[m].children = f.node[m].children
          /\ m # n => g.node[m] = f.node[m]
    /\ g.node[n].props = props /\ g.node[n].phandle = phandle

LEMMA ChangeProps ==
    ASSUME NEW f, IsForest(f), NEW n \in Allocated(f), NEW ps \in Seq(Props),
           NEW g, g = [f EXCEPT !.node[n].props = ps]
    PROVE  Changed(f, g, n, ps, f.node[n].phandle)
<1> DEFINE old == f.node[n]
           new == [old EXCEPT !.props = ps]
<1>1. /\ f = [node |-> f.node, order |-> f.order]
      /\ f.node \in [Allocated(f) -> NodeRec]
  BY DEF IsForest
<1>2. old \in NodeRec
  BY <1>1
<1>3. g = [f EXCEPT !.node = [f.node EXCEPT ![n] = new]]
  BY <1>1
<1> HIDE DEF old
<1>4. /\ new \in NodeRec /\ new.parent = old.parent /\ new.name = old.name
      /\ new.children = old.children /\ new.props = ps /\ new.phandle = old.phandle
  BY <1>2 DEF NodeRec
<1> HIDE DEF new
<1> DEFINE table == [f.node EXCEPT ![n] = new]
<1>5. /\ table \in [Allocated(f) -> NodeRec] /\ table[n] = new
      /\ \A m \in Allocated(f) : m # n => table[m] = f.node[m]
  BY <1>1, <1>4
<1> HIDE DEF table
<1>6. g = [node |-> table, order |-> f.order] /\ g.node = table /\ g.order = f.order
  BY <1>1, <1>3 DEF table
<1>7. \A m \in Allocated(f) :
         /\ table[m].parent = f.node[m].parent
         /\ table[m].name = f.node[m].name
         /\ table[m].children = f.node[m].children
  BY <1>4, <1>5 DEF old
<1> QED
  BY <1>4, <1>5, <1>6, <1>7 DEF Changed, old

LEMMA ChangePhandle ==
    ASSUME NEW f, IsForest(f), NEW n \in Allocated(f), NEW h \in Nat,
           NEW g, g = [f EXCEPT !.node[n].phandle = h]
    PROVE  Changed(f, g, n, f.node[n].props, h)
<1> DEFINE old == f.node[n]
           new == [old EXCEPT !.phandle = h]
<1>1. /\ f = [node |-> f.node, order |-> f.order]
      /\ f.node \in [Allocated(f) -> NodeRec]
  BY DEF IsForest
<1>2. old \in NodeRec
  BY <1>1
<1>3. g = [f EXCEPT !.node = [f.node EXCEPT ![n] = new]]
  BY <1>1
<1> HIDE DEF old
<1>4. /\ new \in NodeRec /\ new.parent = old.parent /\ new.name = old.name
      /\ new.children = old.children /\ new.props = old.props /\ new.phandle = h
  BY <1>2 DEF NodeRec
<1> HIDE DEF new
<1> DEFINE table == [f.node EXCEPT ![n] = new]
<1>5. /\ table \in [Allocated(f) -> NodeRec] /\ table[n] = new
      /\ \A m \in Allocated(f) : m # n => table[m] = f.node[m]
  BY <1>1, <1>4
<1> HIDE DEF table
<1>6. g = [node |-> table, order |-> f.order] /\ g.node = table /\ g.order = f.order
  BY <1>1, <1>3 DEF table
<1>7. \A m \in Allocated(f) :
         /\ table[m].parent = f.node[m].parent
         /\ table[m].name = f.node[m].name
         /\ table[m].children = f.node[m].children
  BY <1>4, <1>5 DEF old
<1> QED
  BY <1>4, <1>5, <1>6, <1>7 DEF Changed, old

LEMMA ChangeNothing ==
    ASSUME NEW f, IsForest(f), NEW n
    PROVE  Changed(f, f, n, f.node[n].props, f.node[n].phandle)
BY DEF IsForest, Changed

LEMMA ChangeTwice ==
    ASSUME NEW f, NEW g, NEW e, NEW n, NEW ps, NEW qs, NEW h, NEW i,
           Changed(f, g, n, ps, h), Changed(g, e, n, qs, i)
    PROVE  Changed(f, e, n, qs, i)
<1>1. Allocated(g) = Allocated(f)
  BY DEF Changed, Allocated
<1> QED
  BY <1>1 DEF Changed

LEMMA ChangedForest ==
    ASSUME NEW f, IsForest(f), NEW g, NEW n, NEW ps, NEW h, Changed(f, g, n, ps, h)
    PROVE  IsForest(g) /\ Allocated(g) = Allocated(f) /\ Roots(g) = Roots(f)
<1>1. Allocated(g) = Allocated(f) /\ Roots(g) = Roots(f)
  BY DEF Changed, Allocated, Roots
<1> QED
  BY <1>1 DEF Changed, IsForest

\* Other properties and a phandle that is new in its tree, if it is another.
LEMMA ChangeSound ==
    ASSUME NEW f, Sound(f), NEW n \in Allocated(f), NEW g, NEW ps, NEW h,
           Changed(f, g, n, ps, h), Consistent(g.node[n]),
           \/ h = f.node[n].phandle
           \/ LET o == f.order[of_find_root_node(f, n)] IN
              \A i \in 1 .. Len(o) : f.node[o[i]].phandle # h
    PROVE  Sound(g) /\ Allocated(g) = Allocated(f) /\ Roots(g) = Roots(f)
<1>1. Shaped(f) /\ IsForest(f)
  BY DEF Sound, Shaped
<1>2. IsForest(g) /\ Allocated(g) = Allocated(f) /\ Roots(g) = Roots(f)
  BY <1>1, ChangedForest
<1>3. /\ g.order = f.order /\ g.node[n].phandle = h
      /\ \A m \in Allocated(f) :
            /\ g.node[m].parent = f.node[m].parent
            /\ g.node[m].children = f.node[m].children
            /\ m # n => g.node[m] = f.node[m]
  BY DEF Changed
<1>4. \A m \in Allocated(g) : Consistent(g.node[m])
  BY <1>2, <1>3 DEF Sound
<1>5. ASSUME NEW r \in Roots(f) PROVE Listed(g, r)
  <2> DEFINE o == f.order[r]
  <2>1. /\ o # <<>> /\ o[1] = r
        /\ \A i, j \in 1 .. Len(o) : o[i] = o[j] => i = j
        /\ \A k \in 1 .. Len(o) : o[k] \in Allocated(f)
        /\ \A k \in 2 .. Len(o) : \E j \in 1 .. k - 1 : f.node[o[k]].parent = o[j]
    BY <1>1 DEF Shaped, Listed
  <2>2. Len(o) \in Nat /\ g.order[r] = o
    BY <1>1, <1>3, NodeTypes
  <2> HIDE DEF o
  <2>3. ASSUME NEW k \in 2 .. Len(o)
        PROVE  \E j \in 1 .. k - 1 : g.node[o[k]].parent = o[j]
    <3>1. k \in 1 .. Len(o)
      BY <2>2
    <3>2. g.node[o[k]].parent = f.node[o[k]].parent
      BY <1>3, <2>1, <3>1
    <3>3. PICK j \in 1 .. k - 1 : f.node[o[k]].parent = o[j]
      BY <2>1
    <3> QED
      BY <3>2, <3>3, Zenon
  <2>4. /\ \A k \in 1 .. Len(o) : o[k] \in Allocated(g)
        /\ \A k \in 2 .. Len(o) : \E j \in 1 .. k - 1 : g.node[o[k]].parent = o[j]
    BY <1>2, <2>1, <2>3, Zenon
  <2> QED
    BY <2>1, <2>2, <2>4 DEF Listed
<1>6. ASSUME NEW r \in Roots(f) PROVE HandlesDifferIn(g, r)
  <2> DEFINE o == f.order[r]
  <2>1. /\ \A k \in 1 .. Len(o) : o[k] \in Allocated(f)
        /\ \A i, j \in 1 .. Len(o) : o[i] = o[j] => i = j
    BY <1>1 DEF Shaped, Listed
  <2>2. \A i, j \in 1 .. Len(o) :
           f.node[o[i]].phandle # 0 /\ f.node[o[i]].phandle = f.node[o[j]].phandle => i = j
    BY DEF Sound, HandlesDiffer
  <2>3. \A k \in 1 .. Len(o) : o[k] # n => g.node[o[k]].phandle = f.node[o[k]].phandle
    BY <1>3, <2>1
  <2>4. (\E k \in 1 .. Len(o) : o[k] = n) => r = of_find_root_node(f, n)
    BY <1>1, RootOf
  <2> HIDE DEF o
  <2>5. ASSUME NEW i \in 1 .. Len(o), NEW j \in 1 .. Len(o),
               g.node[o[i]].phandle # 0, g.node[o[i]].phandle = g.node[o[j]].phandle
        PROVE  i = j
    <3>1. CASE h = f.node[n].phandle
      <4>1. \A k \in 1 .. Len(o) : g.node[o[k]].phandle = f.node[o[k]].phandle
        BY <1>3, <2>3, <3>1
      <4> QED
        BY <2>2, <2>5, <4>1
    <3>2. CASE h # f.node[n].phandle /\ o[i] # n /\ o[j] # n
      BY <2>2, <2>3, <2>5, <3>2
    <3>3. CASE h # f.node[n].phandle /\ (o[i] = n \/ o[j] = n)
      <4>1. r = of_find_root_node(f, n)
        BY <2>4, <3>3
      <4>2. \A k \in 1 .. Len(o) : f.node[o[k]].phandle # h
        BY <3>3, <4>1 DEF o
      <4>3. \A k \in 1 .. Len(o) : o[k] # n => g.node[o[k]].phandle # h
        BY <2>3, <4>2
      <4>4. \A k \in 1 .. Len(o) : o[k] = n => g.node[o[k]].phandle = h
        BY <1>3
      <4>5. o[i] = n /\ o[j] = n
        BY <2>5, <3>3, <4>3, <4>4
      <4> QED
        BY <2>1, <4>5
    <3> QED
      BY <3>1, <3>2, <3>3
  <2> QED
    BY <1>3, <2>5 DEF HandlesDifferIn, o
<1>7. \A m \in Allocated(g) :
         LET c == g.node[m].children IN
         /\ \A i \in 1 .. Len(c) : c[i] \in Allocated(g) /\ g.node[c[i]].parent = m
         /\ g.node[m].parent # NULL =>
               LET s == g.node[g.node[m].parent].children IN
               \E i \in 1 .. Len(s) : s[i] = m
  <2> TAKE m \in Allocated(g)
  <2> DEFINE c == f.node[m].children
             q == f.node[m].parent
             s == f.node[q].children
  <2>1. g.node[m].children = c /\ g.node[m].parent = q
    BY <1>2, <1>3
  <2>2. /\ \A i \in 1 .. Len(c) : c[i] \in Allocated(f) /\ f.node[c[i]].parent = m
        /\ q # NULL => \E i \in 1 .. Len(s) : s[i] = m
    BY <1>1, <1>2 DEF Shaped
  <2>3. q # NULL => q \in Allocated(f)
    BY <1>1, <1>2, NodeTypes
  <2>4. q # NULL => g.node[q].children = s
    BY <1>3, <2>3
  <2> HIDE DEF c, q, s
  <2>5. \A i \in 1 .. Len(c) : c[i] \in Allocated(g) /\ g.node[c[i]].parent = m
    BY <1>2, <1>3, <2>2
  <2> QED
    BY <2>1, <2>2, <2>4, <2>5
<1>8. \A m \in Allocated(g) :
         \E r \in Roots(g) : \E k \in 1 .. Len(g.order[r]) : g.order[r][k] = m
  <2>1. \A m \in Allocated(f) :
           \E r \in Roots(f) : \E k \in 1 .. Len(f.order[r]) : f.order[r][k] = m
    BY <1>1 DEF Shaped
  <2> QED
    BY <1>2, <1>3, <2>1
<1>9. Roots(g) = {m \in Allocated(g) : g.node[m].parent = NULL}
  <2>1. Roots(f) = {m \in Allocated(f) : f.node[m].parent = NULL}
    BY <1>1 DEF Shaped
  <2> QED
    BY <1>2, <1>3, <2>1
<1>10. Shaped(g)
  BY <1>2, <1>5, <1>7, <1>8, <1>9 DEF Shaped
<1>11. HandlesDiffer(g)
  BY <1>2, <1>6 DEF HandlesDiffer, HandlesDifferIn
<1>12. ASSUME NEW m \in Allocated(f), NEW u
       PROVE  m \in Subtree(g, u) <=> m \in Subtree(f, u)
  <2> DEFINE S == Allocated(f)
  <2>1. Climbable(f) /\ Climbable(g)
    BY <1>1, <1>10, NodeTypes
  <2>2. \A x \in S : g.node[x].parent = f.node[x].parent /\ Above(f, x) \in S
    BY <1>3, <2>1 DEF Climbable
  <2>3. S \subseteq Allocated(f) /\ S \subseteq Allocated(g) /\ m \in S
    BY <1>2
  <2>4. SameAbove(f, g, S)
    BY <2>1, <2>2, <2>3 DEF SameAbove
  <2> HIDE DEF S
  <2> QED
    BY <2>3, <2>4, SubtreeSame
<1>13. ASSUME NEW r \in Roots(g) PROVE InOnePiece(g, r)
  <2> DEFINE o == f.order[r]
  <2>1. /\ \A k \in 1 .. Len(o) : o[k] \in Allocated(f)
        /\ \A i, k \in 1 .. Len(o) : \A j \in i .. k :
              o[k] \in Subtree(f, o[i]) => o[j] \in Subtree(f, o[i])
    BY <1>1, <1>2 DEF Sound, Neat, InOnePiece, Shaped, Listed
  <2>2. g.order[r] = o /\ Len(o) \in Nat
    BY <1>1, <1>2, <1>3, NodeTypes
  <2> HIDE DEF o
  <2>3. ASSUME NEW i \in 1 .. Len(o), NEW k \in 1 .. Len(o), NEW j \in i .. k,
               o[k] \in Subtree(g, o[i])
        PROVE  o[j] \in Subtree(g, o[i])
    <3>1. j \in 1 .. Len(o)
      BY <2>2
    <3> QED
      BY <1>12, <2>1, <2>3, <3>1
  <2> QED
    BY <2>2, <2>3 DEF InOnePiece
<1>14. \A m \in Allocated(g) : ChildrenOnce(g, m)
  <2>1. \A m \in Allocated(f) : ChildrenOnce(f, m)
    BY DEF Sound, Neat
  <2> QED
    BY <1>2, <1>3, <2>1 DEF ChildrenOnce
<1>15. Neat(g)
  BY <1>13, <1>14 DEF Neat
<1> QED
  BY <1>2, <1>4, <1>10, <1>11, <1>15 DEF Sound

NamesDiffer(s) == \A i, j \in 1 .. Len(s) : s[i].name = s[j].name => i = j

\* ps has the properties of s but perhaps not the one of the name.
KeepsOthers(s, ps, name) ==
    \A i \in 1 .. Len(s) : s[i].name # name => \E j \in 1 .. Len(ps) : ps[j] = s[i]

LEMMA FindPropertyFacts ==
    ASSUME NEW f, NEW n, f.node[n].props \in Seq(Props), NEW name
    PROVE  LET k == of_find_property(f, n, name)
               s == f.node[n].props
           IN  /\ k = 0 => \A i \in 1 .. Len(s) : s[i].name # name
               /\ k # 0 => k \in 1 .. Len(s) /\ s[k].name = name
<1> DEFINE s == f.node[n].props
           I == {i \in 1 .. Len(s) : s[i].name = name}
           k == IF I # {} THEN Min(I) ELSE 0
<1>1. Len(s) \in Nat /\ I \subseteq 1 .. Len(s)
  OBVIOUS
<1>2. of_find_property(f, n, name) = k
  BY DEF of_find_property, SelectInSeq
<1> HIDE DEF s
<1>3. (I = {} => k = 0) /\ (I # {} => k \in I /\ k # 0)
  <2> HIDE DEF I
  <2> QED
    BY <1>1, FirstIndex
<1> HIDE DEF k
<1>4. /\ k = 0 => \A i \in 1 .. Len(s) : s[i].name # name
      /\ k # 0 => k \in 1 .. Len(s) /\ s[k].name = name
  BY <1>3
<1> QED
  BY <1>2, <1>4 DEF s

LEMMA DropFacts ==
    ASSUME NEW s \in Seq(Props), NamesDiffer(s), NEW name,
           NEW k \in 1 .. Len(s), s[k].name = name,
           NEW t, t = DropProperty(s, name)
    PROVE  /\ t \in Seq(Props) /\ NamesDiffer(t) /\ KeepsOthers(s, t, name)
           /\ \A i \in 1 .. Len(t) : t[i].name # name
<1> DEFINE I == {i \in 1 .. Len(s) : s[i].name = name}
           h == IF I # {} THEN Min(I) ELSE 0
<1>1. Len(s) \in Nat /\ I = {k} /\ I \subseteq 1 .. Len(s)
  BY DEF NamesDiffer
<1>2. t = RemoveAt(s, h)
  BY DEF DropProperty, SelectInSeq
<1> HIDE DEF I
<1>3. h = k
  BY <1>1, FirstIndex
<1> HIDE DEF h
<1>4. /\ t \in Seq(Props) /\ Len(t) = Len(s) - 1
      /\ \A j \in 1 .. Len(t) : t[j] = IF j < k THEN s[j] ELSE s[j + 1]
  BY <1>2, <1>3, RemoveAtFacts
<1> DEFINE Was(j) == IF j < k THEN j ELSE j + 1
<1>5. \A j \in 1 .. Len(t) : Was(j) \in 1 .. Len(s) /\ Was(j) # k /\ t[j] = s[Was(j)]
  BY <1>1, <1>4
<1>6. \A i, j \in 1 .. Len(t) : Was(i) = Was(j) => i = j
  BY <1>1, <1>4
<1>7. ASSUME NEW i \in 1 .. Len(s), s[i].name # name
      PROVE  \E j \in 1 .. Len(t) : t[j] = s[i]
  <2>1. i # k
    BY <1>7
  <2>2. CASE i < k
    BY <1>1, <1>4, <2>2
  <2>3. CASE i > k
    <3>1. i - 1 \in 1 .. Len(t) /\ ~(i - 1 < k) /\ (i - 1) + 1 = i
      BY <1>1, <1>4, <2>3
    <3>2. t[i - 1] = s[i]
      BY <1>4, <3>1
    <3> QED
      BY <3>1, <3>2
  <2> QED
    BY <1>1, <2>1, <2>2, <2>3
<1> HIDE DEF Was
<1>8. \A i \in 1 .. Len(t) : t[i].name # name
  BY <1>5 DEF NamesDiffer
<1>9. NamesDiffer(t)
  BY <1>5, <1>6 DEF NamesDiffer
<1> QED
  BY <1>4, <1>7, <1>8, <1>9 DEF KeepsOthers

LEMMA DeletePropertyChanged ==
    ASSUME NEW f, IsForest(f), NEW n \in Allocated(f), NEW name,
           NamesDiffer(f.node[n].props),
           NEW g, g = of_delete_property(f, n, name)
    PROVE  \E ps \in Seq(Props) :
              /\ Changed(f, g, n, ps, f.node[n].phandle)
              /\ NamesDiffer(ps) /\ KeepsOthers(f.node[n].props, ps, name)
              /\ \A i \in 1 .. Len(ps) : ps[i].name # name
<1> DEFINE s == f.node[n].props
           k == of_find_property(f, n, name)
<1>1. f.node[n] \in NodeRec
  BY DEF IsForest
<1>2. s \in Seq(Props)
  BY <1>1 DEF NodeRec
<1>3. NamesDiffer(s)
  OBVIOUS
<1>4. /\ k = 0 => \A i \in 1 .. Len(s) : s[i].name # name
      /\ k # 0 => k \in 1 .. Len(s) /\ s[k].name = name
  BY <1>2, FindPropertyFacts
<1>5. CASE k = 0
  <2>1. g = f
    BY <1>5 DEF of_delete_property
  <2>2. Changed(f, g, n, s, f.node[n].phandle)
    BY <2>1, ChangeNothing
  <2>3. KeepsOthers(s, s, name)
    BY DEF KeepsOthers
  <2> QED
    BY <1>2, <1>3, <1>4, <1>5, <2>2, <2>3
<1>6. CASE k # 0
  <2> DEFINE t == DropProperty(s, name)
  <2>1. g = [f EXCEPT !.node[n].props = t]
    BY <1>6 DEF of_delete_property
  <2>2. /\ t \in Seq(Props) /\ NamesDiffer(t) /\ KeepsOthers(s, t, name)
        /\ \A i \in 1 .. Len(t) : t[i].name # name
    <3> HIDE DEF s, k
    <3> QED
      BY <1>2, <1>3, <1>4, <1>6, DropFacts
  <2> HIDE DEF t
  <2>3. Changed(f, g, n, t, f.node[n].phandle)
    BY <2>1, <2>2, ChangeProps
  <2> QED
    BY <2>2, <2>3
<1> QED
  BY <1>5, <1>6

LEMMA SetPropertyChanged ==
    ASSUME NEW f, IsForest(f), NEW n \in Allocated(f), NEW name, NEW val,
           NamesDiffer(f.node[n].props), Prop(name, val) \in Props,
           NEW g, g = of_set_property(f, n, name, val)
    PROVE  \E ps \in Seq(Props) :
              /\ Changed(f, g, n, ps, f.node[n].phandle)
              /\ NamesDiffer(ps) /\ KeepsOthers(f.node[n].props, ps, name)
              /\ \E i \in 1 .. Len(ps) : ps[i] = Prop(name, val)
<1> DEFINE s == f.node[n].props
           e == of_delete_property(f, n, name)
           x == Prop(name, val)
<1>1. PICK qs \in Seq(Props) :
         /\ Changed(f, e, n, qs, f.node[n].phandle)
         /\ NamesDiffer(qs) /\ KeepsOthers(s, qs, name)
         /\ \A i \in 1 .. Len(qs) : qs[i].name # name
  BY DeletePropertyChanged
<1>2. IsForest(f)
  OBVIOUS
<1>3. IsForest(e) /\ n \in Allocated(e)
  BY <1>1, <1>2, ChangedForest
<1>4. e.node[n].props = qs /\ e.node[n].phandle = f.node[n].phandle
  BY <1>1 DEF Changed
<1> DEFINE ps == Append(qs, x)
<1>5. x.name = name /\ x \in Props
  BY DEF Prop
<1>6. g = of_new_property(e, n, name, val)
  BY DEF of_set_property
<1> HIDE DEF e
<1>7. g = [e EXCEPT !.node[n].props = ps]
  BY <1>4, <1>6 DEF of_new_property
<1> HIDE DEF x, s
<1>8. /\ ps \in Seq(Props) /\ Len(ps) = Len(qs) + 1 /\ ps[Len(qs) + 1] = x
      /\ \A i \in 1 .. Len(qs) : ps[i] = qs[i]
      /\ Len(qs) \in Nat
  BY <1>5
<1> HIDE DEF ps
<1>9. Changed(e, g, n, ps, f.node[n].phandle)
  BY <1>3, <1>4, <1>7, <1>8, ChangeProps
<1>10. Changed(f, g, n, ps, f.node[n].phandle)
  BY <1>1, <1>9, ChangeTwice
<1>11. NamesDiffer(ps)
  <2> SUFFICES ASSUME NEW i \in 1 .. Len(ps), NEW j \in 1 .. Len(ps), ps[i].name = ps[j].name
               PROVE  i = j
    BY DEF NamesDiffer
  <2>1. (i \in 1 .. Len(qs) \/ i = Len(qs) + 1) /\ (j \in 1 .. Len(qs) \/ j = Len(qs) + 1)
    BY <1>8
  <2>2. CASE i \in 1 .. Len(qs) /\ j \in 1 .. Len(qs)
    BY <1>1, <1>8, <2>2 DEF NamesDiffer
  <2>3. CASE i \in 1 .. Len(qs) /\ j = Len(qs) + 1
    BY <1>1, <1>5, <1>8, <2>3
  <2>4. CASE i = Len(qs) + 1 /\ j \in 1 .. Len(qs)
    BY <1>1, <1>5, <1>8, <2>4
  <2> QED
    BY <2>1, <2>2, <2>3, <2>4
<1>12. KeepsOthers(s, ps, name)
  <2> SUFFICES ASSUME NEW i \in 1 .. Len(s), s[i].name # name
               PROVE  \E j \in 1 .. Len(ps) : ps[j] = s[i]
    BY DEF KeepsOthers
  <2>1. PICK j \in 1 .. Len(qs) : qs[j] = s[i]
    BY <1>1 DEF KeepsOthers
  <2>2. j \in 1 .. Len(ps) /\ ps[j] = s[i]
    BY <1>8, <2>1
  <2> QED
    BY <2>2
<1>13. Len(qs) + 1 \in 1 .. Len(ps) /\ ps[Len(qs) + 1] = x
  BY <1>8
<1> QED
  BY <1>8, <1>10, <1>11, <1>12, <1>13 DEF x, s

LEMMA NamesDifferAtNode ==
    ASSUME NEW f, Sound(f), NEW n \in Allocated(f)
    PROVE  IsForest(f) /\ NamesDiffer(f.node[n].props)
<1>1. Consistent(f.node[n]) /\ IsForest(f)
  BY DEF Sound, Shaped
<1> QED
  BY <1>1 DEF Consistent, NamesDiffer

LEMMA EditSound ==
    ASSUME NEW f, Sound(f), NEW n \in Allocated(f), NEW name, name # "phandle",
           NEW g, NEW ps, Changed(f, g, n, ps, f.node[n].phandle),
           NamesDiffer(ps), KeepsOthers(f.node[n].props, ps, name)
    PROVE  Sound(g) /\ Roots(g) = Roots(f)
<1>1. Consistent(g.node[n])
  <2> DEFINE h == f.node[n].phandle
             s == f.node[n].props
  <2>1. Consistent(f.node[n])
    BY DEF Sound
  <2>2. /\ h <= MaxHandle
        /\ h # 0 => \E i \in 1 .. Len(s) : s[i] = Prop("phandle", HandleVal(h))
    BY <2>1 DEF Consistent
  <2>3. g.node[n].props = ps /\ g.node[n].phandle = h
    BY DEF Changed
  <2>4. h # 0 => \E i \in 1 .. Len(ps) : ps[i] = Prop("phandle", HandleVal(h))
    <3> SUFFICES ASSUME h # 0 PROVE \E i \in 1 .. Len(ps) : ps[i] = Prop("phandle", HandleVal(h))
      OBVIOUS
    <3>1. PICK i \in 1 .. Len(s) : s[i] = Prop("phandle", HandleVal(h))
      BY <2>2
    <3>2. s[i].name = "phandle"
      BY <3>1 DEF Prop
    <3> QED
      BY <3>1, <3>2 DEF KeepsOthers
  <2> HIDE DEF h
  <2> QED
    BY <2>2, <2>3, <2>4 DEF Consistent, NamesDiffer
<1> QED
  BY <1>1, ChangeSound

LEMMA SetPropertySound ==
    ASSUME NEW f, Sound(f), NEW n \in Allocated(f), NEW name, name # "phandle",
           NEW val, Prop(name, val) \in Props
    PROVE  LET g == of_set_property(f, n, name, val) IN Sound(g) /\ Roots(g) = Roots(f)
<1> DEFINE g == of_set_property(f, n, name, val)
<1>1. PICK ps \in Seq(Props) :
         /\ Changed(f, g, n, ps, f.node[n].phandle)
         /\ NamesDiffer(ps) /\ KeepsOthers(f.node[n].props, ps, name)
  BY NamesDifferAtNode, SetPropertyChanged
<1> HIDE DEF g
<1>2. Sound(g) /\ Roots(g) = Roots(f)
  BY <1>1, EditSound
<1> QED
  BY <1>2 DEF g

LEMMA DeletePropertySound ==
    ASSUME NEW f, Sound(f), NEW n \in Allocated(f), NEW name, name # "phandle"
    PROVE  LET g == of_delete_property(f, n, name) IN Sound(g) /\ Roots(g) = Roots(f)
<1> DEFINE g == of_delete_property(f, n, name)
<1>1. PICK ps \in Seq(Props) :
         /\ Changed(f, g, n, ps, f.node[n].phandle)
         /\ NamesDiffer(ps) /\ KeepsOthers(f.node[n].props, ps, name)
  BY NamesDifferAtNode, DeletePropertyChanged
<1> HIDE DEF g
<1>2. Sound(g) /\ Roots(g) = Roots(f)
  BY <1>1, EditSound
<1> QED
  BY <1>2 DEF g

-----------------------------------------------------------------------------
(* Phandles *)

LEMMA MaxFacts ==
    ASSUME NEW m \in Nat, NEW I, I \subseteq 0 .. m, I # {}
    PROVE  Max(I) \in I /\ \A i \in I : i <= Max(I)
<1> DEFINE J == {j \in 0 .. m : m - j \in I}
<1>1. J \subseteq Nat
  OBVIOUS
<1>2. J # {}
  <2>1. PICK i \in I : TRUE
    OBVIOUS
  <2>2. m - i \in 0 .. m /\ m - (m - i) = i
    OBVIOUS
  <2>3. m - i \in J
    BY <2>2
  <2> QED
    BY <2>3
<1>3. Min(J) \in J /\ \A j \in J : Min(J) <= j
  <2> HIDE DEF J
  <2> QED
    BY <1>1, <1>2, MinFacts
<1> DEFINE k == Min(J)
<1> HIDE DEF k
<1>4. k \in 0 .. m /\ m - k \in I /\ \A j \in J : k <= j
  BY <1>3 DEF k
<1>5. \A i \in I : m - k >= i
  <2> TAKE i \in I
  <2>1. m - i \in 0 .. m /\ m - (m - i) = i
    OBVIOUS
  <2>2. m - i \in J
    BY <2>1
  <2>3. k <= m - i
    BY <1>4, <2>2
  <2> QED
    BY <1>4, <2>3
<1>6. \E x \in I : \A y \in I : x >= y
  BY <1>4, <1>5
<1>7. Max(I) \in I /\ \A y \in I : Max(I) >= y
  BY <1>6 DEF Max
<1> QED
  BY <1>7

\* Behind the root there is the rest of the linear list.
LEMMA BehindRoot ==
    ASSUME NEW f, Shaped(f), NEW r \in Roots(f)
    PROVE  LET s == NodesBehind(f, r)
               o == f.order[r]
           IN  /\ s \in Seq(NodeId) /\ Len(s) = Len(o) - 1
               /\ \A i \in 1 .. Len(s) : s[i] = o[i + 1]
<1> DEFINE s == NodesBehind(f, r)
           o == f.order[r]
           I == {i \in 1 .. Len(o) : o[i] = r}
           k == IF I # {} THEN Min(I) ELSE 0
<1>1. o \in Seq(NodeId) /\ Len(o) \in Nat \ {0} /\ o[1] = r
  BY NodeTypes
<1>2. \A i, j \in 1 .. Len(o) : o[i] = o[j] => i = j
  BY DEF Shaped, Listed
<1>3. of_find_root_node(f, r) = r
  BY SubtreeOfRoot
<1>4. s = SubSeq(o, k + 1, Len(o))
  BY <1>3 DEF NodesBehind, Order, SelectInSeq
<1> HIDE DEF o, s
<1>5. I = {1} /\ I \subseteq 1 .. Len(o)
  BY <1>1, <1>2
<1> HIDE DEF I
<1>6. k = 1
  BY <1>1, <1>5, FirstIndex
<1> HIDE DEF k
<1>7. s = SubSeq(o, 2, Len(o))
  BY <1>4, <1>6
<1>8. SubSeq(o, 2, Len(o)) = [i \in 1 .. Len(o) - 1 |-> o[i + 1]]
  BY <1>1
<1>9. \A i \in 1 .. Len(o) - 1 : o[i + 1] \in NodeId
  BY <1>1
<1>10. s \in [1 .. Len(o) - 1 -> NodeId]
  BY <1>7, <1>8, <1>9, Zenon
<1>11. s \in Seq(NodeId) /\ Len(s) = Len(o) - 1
  BY <1>1, <1>10
<1>12. \A i \in 1 .. Len(s) : s[i] = o[i + 1]
  BY <1>7, <1>8, <1>11
<1> QED
  BY <1>11, <1>12 DEF o, s

LEMMA MaxPhandleFacts ==
    ASSUME NEW f, Sound(f), NEW r \in Roots(f)
    PROVE  LET h == of_get_tree_max_phandle(f, r)
               o == f.order[r]
           IN  h \in Nat /\ \A i \in 1 .. Len(o) : f.node[o[i]].phandle <= h
<1> DEFINE s == NodesBehind(f, r)
           o == f.order[r]
           I == {f.node[r].phandle} \cup {f.node[n].phandle : n \in Range(s)}
<1>1. Shaped(f)
  BY DEF Sound
<1>2. /\ s \in Seq(NodeId) /\ Len(s) = Len(o) - 1
      /\ \A i \in 1 .. Len(s) : s[i] = o[i + 1]
  BY <1>1, BehindRoot
<1>3. /\ Len(o) \in Nat \ {0} /\ o[1] = r
  BY <1>1, NodeTypes
<1>4. \A i \in 1 .. Len(o) : o[i] \in Allocated(f)
  BY <1>1 DEF Shaped, Listed
<1>5. \A n \in Allocated(f) : f.node[n].phandle \in 0 .. MaxHandle
  <2> TAKE n \in Allocated(f)
  <2>1. Consistent(f.node[n]) /\ f.node[n].phandle \in Nat
    BY <1>1, NodeTypes DEF Sound
  <2> QED
    BY <2>1, TreeAssumption DEF Consistent
<1>6. of_get_tree_max_phandle(f, r) = Max(I)
  BY DEF of_get_tree_max_phandle
<1> HIDE DEF s, o
<1>7. DOMAIN s = 1 .. Len(s)
  BY <1>2
<1>8. ASSUME NEW n \in Range(s) PROVE \E i \in 1 .. Len(o) : n = o[i]
  <2>1. PICK i \in 1 .. Len(s) : n = s[i]
    BY <1>7 DEF Range
  <2>2. i + 1 \in 1 .. Len(o) /\ n = o[i + 1]
    BY <1>2, <1>3, <2>1
  <2> QED
    BY <2>2
<1>9. I \subseteq 0 .. MaxHandle /\ I # {}
  <2>1. f.node[r].phandle \in 0 .. MaxHandle
    BY <1>3, <1>4, <1>5
  <2>2. \A n \in Range(s) : f.node[n].phandle \in 0 .. MaxHandle
    BY <1>4, <1>5, <1>8
  <2> QED
    BY <2>1, <2>2
<1>10. ASSUME NEW i \in 1 .. Len(o) PROVE f.node[o[i]].phandle \in I
  <2>1. CASE i = 1
    BY <1>3, <2>1
  <2>2. CASE i # 1
    <3>1. i - 1 \in 1 .. Len(s) /\ (i - 1) + 1 = i
      BY <1>2, <1>3, <2>2
    <3>2. s[i - 1] = o[i]
      BY <1>2, <3>1
    <3>3. o[i] \in Range(s)
      BY <1>7, <3>1, <3>2 DEF Range
    <3> QED
      BY <3>3
  <2> QED
    BY <2>1, <2>2
<1> HIDE DEF I
<1>11. Max(I) \in I /\ \A i \in I : i <= Max(I)
  BY <1>9, TreeAssumption, MaxFacts
<1> DEFINE h == Max(I)
<1> HIDE DEF h
<1>12. h \in I /\ \A i \in I : i <= h
  BY <1>11 DEF h
<1>13. h \in Nat
  BY <1>9, <1>12
<1>14. \A i \in 1 .. Len(o) : f.node[o[i]].phandle <= h
  BY <1>10, <1>12
<1> QED
  BY <1>6, <1>13, <1>14 DEF o, h

LEMMA CreatePhandleSound ==
    ASSUME NEW f, Sound(f), NEW n \in Allocated(f),
           of_get_tree_max_phandle(f, of_find_root_node(f, n)) < MaxHandle
    PROVE  LET g == of_node_create_phandle(f, n) IN Sound(g) /\ Roots(g) = Roots(f)
<1> DEFINE r == of_find_root_node(f, n)
           max == of_get_tree_max_phandle(f, r)
           p == max + 1
           e == [f EXCEPT !.node[n].phandle = p]
           g == of_node_create_phandle(f, n)
<1>1. Shaped(f) /\ IsForest(f)
  BY DEF Sound, Shaped
<1>2. r \in Roots(f)
  BY <1>1, RootOf
<1>3. max \in Nat /\ \A i \in 1 .. Len(f.order[r]) : f.node[f.order[r][i]].phandle <= max
  BY <1>2, MaxPhandleFacts
<1>4. CASE f.node[n].phandle # 0
  <2>1. g = f
    BY <1>4 DEF of_node_create_phandle
  <2> HIDE DEF g
  <2>2. Sound(g) /\ Roots(g) = Roots(f)
    BY <2>1
  <2> QED
    BY <2>2 DEF g
<1>5. CASE f.node[n].phandle = 0
  <2>1. p \in Nat /\ p # 0 /\ p <= MaxHandle
    BY <1>3, TreeAssumption
  <2>2. \A i \in 1 .. Len(f.order[r]) : f.node[f.order[r][i]].phandle # p
    <3> TAKE i \in 1 .. Len(f.order[r])
    <3>1. f.order[r][i] \in Allocated(f)
      BY <1>1, <1>2 DEF Shaped, Listed
    <3>2. f.node[f.order[r][i]].phandle \in Nat
      BY <1>1, <3>1, NodeTypes
    <3> QED
      BY <1>3, <3>2
  <2>3. g = of_set_property(e, n, "phandle", HandleVal(p))
    BY <1>5 DEF of_node_create_phandle
  <2> HIDE DEF p
  <2>4. Changed(f, e, n, f.node[n].props, p)
    BY <1>1, <2>1, ChangePhandle
  <2> HIDE DEF e, g
  <2>5. IsForest(e) /\ n \in Allocated(e)
    BY <1>1, <2>4, ChangedForest
  <2>6. e.node[n].props = f.node[n].props /\ e.node[n].phandle = p
    BY <2>4 DEF Changed
  <2>7. NamesDiffer(e.node[n].props)
    BY <2>6, NamesDifferAtNode
  <2>8. Prop("phandle", HandleVal(p)) \in Props
    BY <2>1 DEF Prop, HandleVal, Props
  <2>9. PICK ps \in Seq(Props) :
           /\ Changed(e, g, n, ps, e.node[n].phandle)
           /\ NamesDiffer(ps)
           /\ \E i \in 1 .. Len(ps) : ps[i] = Prop("phandle", HandleVal(p))
    BY <2>3, <2>5, <2>7, <2>8, SetPropertyChanged
  <2>10. Changed(f, g, n, ps, p)
    BY <2>4, <2>6, <2>9, ChangeTwice
  <2>11. g.node[n].props = ps /\ g.node[n].phandle = p
    BY <2>10 DEF Changed
  <2>12. Consistent(g.node[n])
    BY <2>1, <2>9, <2>11 DEF Consistent, NamesDiffer
  <2>13. Sound(g) /\ Roots(g) = Roots(f)
    BY <2>2, <2>10, <2>12, ChangeSound
  <2> QED
    BY <2>13 DEF g
<1> QED
  BY <1>4, <1>5

-----------------------------------------------------------------------------
(* The invariant *)

LEMMA EmptyForestSound == Sound(EmptyForest)
<1> DEFINE e == EmptyForest
<1>1. e.node = <<>> /\ e.order = <<>> /\ e = [node |-> e.node, order |-> e.order]
  BY DEF EmptyForest
<1>2. DOMAIN <<>> = {} /\ \A T : <<>> \in [{} -> T]
  OBVIOUS
<1> HIDE DEF e
<1>3. Allocated(e) = {} /\ Roots(e) = {}
  BY <1>1, <1>2 DEF Allocated, Roots
<1>4. IsForest(e)
  BY <1>1, <1>2, <1>3 DEF IsForest
<1>5. Shaped(e)
  BY <1>3, <1>4 DEF Shaped
<1>6. Sound(e)
  BY <1>3, <1>5 DEF Sound, HandlesDiffer, Neat
<1> QED
  BY <1>6 DEF e

\* A call that only changes the forest and keeps the roots.
LEMMA OnlyInv ==
    ASSUME TreeInv, NEW g, Only(g), Sound(g), Roots(forest) \subseteq Roots(g)
    PROVE  TreeInv'
<1>1. forest' = g /\ root_node' = root_node
  BY DEF Only
<1>2. Sound(forest')
  BY <1>1
<1>3. root_node' # NULL => root_node' \in Roots(forest')
  BY <1>1 DEF TreeInv, RootStands
<1> QED
  BY <1>2, <1>3 DEF TreeInv, RootStands

LEMMA TreeInvInductive == TreeInv /\ [TreeNext]_treeVars => TreeInv'
<1> SUFFICES ASSUME TreeInv, [TreeNext]_treeVars PROVE TreeInv'
  OBVIOUS
<1>1. Sound(forest) /\ Shaped(forest)
  BY DEF TreeInv, Sound
<1>2. CASE NewRoot
  <2> DEFINE g == of_new_node(forest, NULL, "/")
  <2>1. NodeId # Allocated(forest) /\ Only(g)
    BY <1>2 DEF NewRoot
  <2>2. Sound(g) /\ Roots(forest) \subseteq Roots(g)
    BY <1>1, <2>1, NewNodeSound
  <2> HIDE DEF g
  <2> QED
    BY <2>1, <2>2, OnlyInv
<1>3. ASSUME NEW n \in Allocated(forest), NEW name \in NodeName, NewNode(n, name)
      PROVE  TreeInv'
  <2> DEFINE g == of_new_node(forest, n, name)
  <2>1. NodeId # Allocated(forest) /\ Only(g)
    BY <1>3 DEF NewNode
  <2>2. Sound(g) /\ Roots(forest) \subseteq Roots(g)
    BY <1>1, <2>1, NewNodeSound
  <2> HIDE DEF g
  <2> QED
    BY <2>1, <2>2, OnlyInv
<1>4. ASSUME NEW n \in Allocated(forest), NEW name \in AliasName, DeleteProperty(n, name)
      PROVE  TreeInv'
  <2> DEFINE g == of_delete_property(forest, n, name)
  <2>1. Only(g) /\ name # "phandle"
    BY <1>4, TreeAssumption DEF DeleteProperty
  <2>2. Sound(g) /\ Roots(forest) \subseteq Roots(g)
    BY <1>1, <2>1, DeletePropertySound
  <2> HIDE DEF g
  <2> QED
    BY <2>1, <2>2, OnlyInv
<1>5. ASSUME NEW n \in Allocated(forest), NEW name \in AliasName, NEW p \in Paths,
             NEW create \in BOOLEAN, SetProperty(n, name, PathVal(p), create)
      PROVE  TreeInv'
  <2> DEFINE g == of_set_property(forest, n, name, PathVal(p))
  <2>1. Only(g) /\ name # "phandle"
    BY <1>5, TreeAssumption DEF SetProperty
  <2>2. Prop(name, PathVal(p)) \in Props
    BY DEF Prop, PathVal, Props
  <2>3. Sound(g) /\ Roots(forest) \subseteq Roots(g)
    BY <1>1, <2>1, <2>2, SetPropertySound
  <2> HIDE DEF g
  <2> QED
    BY <2>1, <2>3, OnlyInv
<1>6. ASSUME NEW n \in Allocated(forest), CreatePhandle(n)
      PROVE  TreeInv'
  <2> DEFINE g == of_node_create_phandle(forest, n)
  <2>1. Only(g) /\ of_get_tree_max_phandle(forest, of_find_root_node(forest, n)) < MaxHandle
    BY <1>6 DEF CreatePhandle
  <2>2. Sound(g) /\ Roots(forest) \subseteq Roots(g)
    BY <1>1, <2>1, CreatePhandleSound
  <2> HIDE DEF g
  <2> QED
    BY <2>1, <2>2, OnlyInv
<1>7. ASSUME NEW n \in Allocated(forest), Enable(n)
      PROVE  TreeInv'
  <2> DEFINE g == of_delete_property(forest, n, "status")
  <2>1. Only(g) /\ "status" # "phandle"
    BY <1>7 DEF Enable, of_device_enable
  <2>2. Sound(g) /\ Roots(forest) \subseteq Roots(g)
    BY <1>1, <2>1, DeletePropertySound
  <2> HIDE DEF g
  <2> QED
    BY <2>1, <2>2, OnlyInv
<1>8. ASSUME NEW n \in Allocated(forest), Disable(n)
      PROVE  TreeInv'
  <2> DEFINE v == StatusVal("disabled")
             g == of_set_property(forest, n, "status", v)
  <2>1. Only(g) /\ "status" # "phandle"
    BY <1>8 DEF Disable, of_device_disable
  <2>2. Prop("status", v) \in Props
    BY DEF Prop, StatusVal, Props
  <2> HIDE DEF v
  <2>3. Sound(g) /\ Roots(forest) \subseteq Roots(g)
    BY <1>1, <2>1, <2>2, SetPropertySound
  <2> HIDE DEF g
  <2> QED
    BY <2>1, <2>3, OnlyInv
<1>9. ASSUME NEW n \in Allocated(forest), DeleteNode(n)
      PROVE  TreeInv'
  <2>1. Sound(forest') /\ Roots(forest) \ {n} \subseteq Roots(forest')
    BY <1>1, <1>9, DeleteSound DEF DeleteNode
  <2>2. CASE n = root_node
    <3>1. root_node' = NULL
      BY <1>9, <2>2 DEF DeleteNode
    <3> QED
      BY <2>1, <3>1 DEF TreeInv, RootStands
  <2>3. CASE n # root_node
    <3>1. root_node' = root_node
      BY <1>9, <2>3 DEF DeleteNode
    <3> QED
      BY <2>1, <2>3, <3>1 DEF TreeInv, RootStands
  <2> QED
    BY <2>2, <2>3
<1>10. ASSUME NEW r \in Roots(forest), SetRoot(r)
       PROVE  TreeInv'
  <2>1. root_node' = r /\ forest' = forest
    BY <1>10 DEF SetRoot
  <2>2. r # NULL
    BY <1>1, NodeTypes
  <2> QED
    BY <1>1, <2>1, <2>2 DEF TreeInv, RootStands
<1>11. ASSUME NEW r \in Roots(forest), NEW p \in Paths, CreateNode(r, p)
       PROVE  TreeInv'
  <2> DEFINE g == of_create_node(forest, r, p)
  <2>1. Only(g) /\ Cardinality(NodeId \ Allocated(forest)) >= Len(p)
    BY <1>11 DEF CreateNode
  <2>2. p \in Seq(NodeName) /\ r \in Allocated(forest)
    BY <1>1, NodeTypes, TreeAssumption
  <2>3. Sound(g) /\ Roots(forest) \subseteq Roots(g)
    BY <1>1, <2>1, <2>2, CreateSound
  <2> HIDE DEF g
  <2> QED
    BY <2>1, <2>3, OnlyInv
<1>12. CASE Restart
  <2>1. Sound(forest')
    BY <1>12, EmptyForestSound DEF Restart
  <2> QED
    BY <1>12, <2>1 DEF Restart, TreeInv, RootStands
<1>13. CASE UNCHANGED treeVars
  BY <1>13 DEF treeVars, TreeInv, RootStands
<1>14. CASE Call
  BY <1>2, <1>3, <1>4, <1>5, <1>6, <1>7, <1>8, <1>9, <1>10, <1>11, <1>14 DEF Call
<1> QED
  BY <1>12, <1>13, <1>14 DEF TreeNext

\* The forest is sound and root_node is the root of a tree of it at all times.
THEOREM TreeInvHolds == TreeSpec => []TreeInv
<1>1. TreeInit => TreeInv
  BY EmptyForestSound DEF TreeInit, TreeInv, RootStands
<1> QED
  BY <1>1, TreeInvInductive, PTL DEF TreeSpec

-----------------------------------------------------------------------------
(* What the searches find *)

LEMMA PropertyFound ==
    ASSUME NEW f, Sound(f), NEW n \in Allocated(f), NEW i \in 1 .. Len(f.node[n].props),
           NEW name, f.node[n].props[i].name = name
    PROVE  /\ of_find_property(f, n, name) = i
           /\ of_get_property(f, n, name) = f.node[n].props[i].val
<1> DEFINE s == f.node[n].props
           k == of_find_property(f, n, name)
<1>1. s \in Seq(Props)
  BY NodeTypes DEF Sound
<1>2. NamesDiffer(s)
  BY NamesDifferAtNode
<1>3. /\ k = 0 => \A j \in 1 .. Len(s) : s[j].name # name
      /\ k # 0 => k \in 1 .. Len(s) /\ s[k].name = name
  BY <1>1, FindPropertyFacts
<1>4. k = i
  BY <1>2, <1>3 DEF NamesDiffer
<1> QED
  BY <1>4 DEF of_get_property

LEMMA PhandleFound ==
    ASSUME Sound(forest), root_node \in Roots(forest), NEW n \in Allocated(forest),
           of_find_root_node(forest, n) = root_node, n # root_node,
           forest.node[n].phandle # 0
    PROVE  of_find_node_by_phandle(forest, forest.node[n].phandle) = n
<1> DEFINE o == forest.order[root_node]
           s == NodesBehind(forest, root_node)
           h == forest.node[n].phandle
           I == {i \in 1 .. Len(s) : forest.node[s[i]].phandle = h}
           k == IF I # {} THEN Min(I) ELSE 0
<1>1. Shaped(forest)
  BY DEF Sound
<1>2. /\ s \in Seq(NodeId) /\ Len(s) = Len(o) - 1
      /\ \A i \in 1 .. Len(s) : s[i] = o[i + 1]
  BY <1>1, BehindRoot
<1>3. Len(o) \in Nat \ {0} /\ o[1] = root_node
  BY <1>1, NodeTypes
<1>4. PICK j \in 1 .. Len(o) : o[j] = n
  BY <1>1, RootOf
<1>5. \A i \in 1 .. Len(o) : forest.node[o[i]].phandle = h => i = j
  BY <1>4 DEF Sound, HandlesDiffer
<1>6. of_find_node_by_phandle(forest, h) = IF k = 0 THEN NULL ELSE s[k]
  BY DEF of_find_node_by_phandle, FirstBehind, SelectInSeq
<1> HIDE DEF s, o
<1>7. j - 1 \in 1 .. Len(s) /\ (j - 1) + 1 = j
  BY <1>2, <1>3, <1>4
<1>8. s[j - 1] = n
  BY <1>2, <1>4, <1>7
<1>9. ASSUME NEW i \in 1 .. Len(s), forest.node[s[i]].phandle = h PROVE i = j - 1
  <2>1. i + 1 \in 1 .. Len(o) /\ s[i] = o[i + 1]
    BY <1>2, <1>3
  <2>2. i + 1 = j
    BY <1>5, <1>9, <2>1
  <2> QED
    BY <2>2
<1>10. I = {j - 1} /\ I \subseteq 1 .. Len(s) /\ Len(s) \in Nat
  BY <1>2, <1>7, <1>8, <1>9
<1> HIDE DEF I
<1>11. k = j - 1 /\ k # 0
  BY <1>7, <1>10, FirstIndex
<1> HIDE DEF k
<1> QED
  BY <1>6, <1>8, <1>11

\* The phandle of a node is the one its property holds, no other node of the
\* tree has it, and of_find_node_by_phandle finds the node again
\* (of_node_create_phandle, of_get_tree_max_phandle), for any number of nodes.
THEOREM PhandlesUniqueHolds == TreeSpec => []PhandlesUnique
<1>1. TreeInv => PhandlesUnique
  <2> SUFFICES ASSUME TreeInv, NEW n \in Allocated(forest), forest.node[n].phandle # 0
               PROVE  /\ of_get_property(forest, n, "phandle") = HandleVal(forest.node[n].phandle)
                      /\ \A m \in Subtree(forest, of_find_root_node(forest, n)) :
                            forest.node[m].phandle = forest.node[n].phandle => m = n
                      /\ of_find_root_node(forest, n) = root_node /\ n # root_node =>
                            of_find_node_by_phandle(forest, forest.node[n].phandle) = n
    BY DEF PhandlesUnique
  <2> DEFINE h == forest.node[n].phandle
             r == of_find_root_node(forest, n)
             s == forest.node[n].props
  <2>1. Sound(forest) /\ Shaped(forest)
    BY DEF TreeInv, Sound
  <2>2. r \in Roots(forest) /\ \E k \in 1 .. Len(forest.order[r]) : forest.order[r][k] = n
    BY <2>1, RootOf
  <2>3. of_get_property(forest, n, "phandle") = HandleVal(h)
    <3>1. PICK i \in 1 .. Len(s) : s[i] = Prop("phandle", HandleVal(h))
      BY <2>1 DEF Sound, Consistent
    <3>2. s[i].name = "phandle" /\ s[i].val = HandleVal(h)
      BY <3>1 DEF Prop
    <3> QED
      BY <2>1, <3>2, PropertyFound
  <2>4. ASSUME NEW m \in Subtree(forest, r), forest.node[m].phandle = h PROVE m = n
    <3>1. PICK k \in 1 .. Len(forest.order[r]) : forest.order[r][k] = n
      BY <2>2
    <3>2. PICK j \in 1 .. Len(forest.order[r]) : forest.order[r][j] = m
      BY <2>1, <2>2, SubtreeOfRoot
    <3>3. j = k
      BY <2>1, <2>2, <2>4, <3>1, <3>2 DEF Sound, HandlesDiffer
    <3> QED
      BY <3>1, <3>2, <3>3
  <2>5. r = root_node /\ n # root_node => of_find_node_by_phandle(forest, h) = n
    BY <2>1, <2>2, PhandleFound
  <2> QED
    BY <2>3, <2>4, <2>5
<1> QED
  BY <1>1, TreeInvHolds, PTL

\* of_find_node_by_path_from stays on nodes, or ends in NULL.
LEMMA WalkFacts ==
    ASSUME NEW f, Shaped(f), NEW from \in Allocated(f), NEW path, Len(path) \in Nat
    PROVE  \E w \in [0 .. Len(path) -> Allocated(f) \cup {NULL}] :
              /\ w[0] = from
              /\ \A k \in 1 .. Len(path) : w[k] = StepDown(f, w[k - 1], path[k])
              /\ of_find_node_by_path_from(f, from, path) = w[Len(path)]
<1> DEFINE S == Allocated(f) \cup {NULL}
           d == Len(path)
           F == [x \in S \X (1 .. d) |-> StepDown(f, x[1], path[x[2]])]
<1>1. ASSUME NEW v \in S, NEW k \in 1 .. d
      PROVE  F[<<v, k>>] = StepDown(f, v, path[k]) /\ StepDown(f, v, path[k]) \in S
  <2>1. F[<<v, k>>] = StepDown(f, v, path[k])
    OBVIOUS
  <2>2. StepDown(f, v, path[k]) \in S
    BY ChildFacts DEF StepDown
  <2> QED
    BY <2>1, <2>2
<1>2. from \in S /\ d \in Nat
  OBVIOUS
<1>3. F \in [S \X (1 .. d) -> S]
  BY <1>1
<1> DEFINE At == CHOOSE g : g = [k \in 0 .. d |-> IF k = 0 THEN from
                                                ELSE StepDown(f, g[k - 1], path[k])]
<1>4. of_find_node_by_path_from(f, from, path) = At[d]
  BY DEF of_find_node_by_path_from
<1> HIDE DEF S, F, d
<1>5. PICK u : Recursive(u, d, S, from, F)
  BY <1>2, <1>3, RecursionExists
<1>6. u \in [0 .. d -> S] /\ u[0] = from /\ \A k \in 1 .. d : u[k] = F[<<u[k - 1], k>>]
  BY <1>5 DEF Recursive
<1>7. ASSUME NEW k \in 1 .. d PROVE u[k] = StepDown(f, u[k - 1], path[k])
  <2>1. u[k - 1] \in S
    BY <1>2, <1>6
  <2> QED
    BY <1>1, <1>6, <2>1
<1>8. u = [k \in 0 .. d |-> IF k = 0 THEN from ELSE StepDown(f, u[k - 1], path[k])]
  <2>1. \A k \in 0 .. d : u[k] = IF k = 0 THEN from ELSE StepDown(f, u[k - 1], path[k])
    BY <1>2, <1>6, <1>7
  <2>2. u = [k \in 0 .. d |-> u[k]]
    BY <1>6
  <2> QED
    BY <2>1, <2>2
<1>9. At = [k \in 0 .. d |-> IF k = 0 THEN from ELSE StepDown(f, At[k - 1], path[k])]
  BY <1>8
<1> HIDE DEF At
<1>10. At[0] = from /\ \A k \in 1 .. d : At[k] = StepDown(f, At[k - 1], path[k])
  BY <1>2, <1>9
<1> DEFINE T == {k \in Nat : k <= d => At[k] \in S}
<1>11. 0 \in T
  BY <1>2, <1>10
<1>12. ASSUME NEW k \in Nat, k \in T PROVE k + 1 \in T
  <2> SUFFICES ASSUME k + 1 <= d PROVE At[k + 1] \in S
    OBVIOUS
  <2>1. At[k] \in S /\ k + 1 \in 1 .. d /\ (k + 1) - 1 = k
    BY <1>2, <1>12
  <2>2. At[k + 1] = StepDown(f, At[k], path[k + 1])
    BY <1>10, <2>1
  <2> QED
    BY <1>1, <2>1, <2>2
<1>13. Nat \subseteq T
  <2> HIDE DEF T
  <2> QED
    BY <1>11, <1>12, NatSetInduction
<1>14. \A k \in 0 .. d : At[k] \in S
  BY <1>2, <1>13
<1>15. At \in [0 .. d -> S]
  BY <1>9, <1>14
<1> QED
  BY <1>4, <1>10, <1>15 DEF S, d

LEMMA DepthFacts ==
    ASSUME NEW f, Shaped(f), NEW n \in Allocated(f), NEW d, d = Depth(f, n),
           NEW up, up = WayUp(f, n)
    PROVE  /\ d \in 0 .. N /\ up[d] = of_find_root_node(f, n)
           /\ up \in [0 .. N -> Allocated(f)] /\ up[0] = n
           /\ \A k \in 0 .. d - 1 :
                 f.node[up[k]].parent # NULL /\ up[k + 1] = f.node[up[k]].parent
<1> DEFINE I == {k \in 0 .. N : f.node[up[k]].parent = NULL}
           r == of_find_root_node(f, n)
<1>1. /\ up \in [0 .. N -> Allocated(f)] /\ up[0] = n
      /\ \A k \in 1 .. N : up[k] = Above(f, up[k - 1])
  BY NodeTypes, WayUpFacts
<1>2. N \in Nat
  BY NIsNat
<1>3. r \in Roots(f) /\ \A j \in 0 .. N : of_find_root_node(f, up[j]) = r
  BY RootOf
<1>4. r = up[N] /\ f.node[r].parent = NULL
  BY <1>3, NodeTypes DEF of_find_root_node, N
<1>5. I \subseteq Nat /\ I # {}
  BY <1>2, <1>4
<1>6. d = Min(I)
  BY DEF Depth, N
<1>7. d \in I /\ \A k \in I : d <= k
  <2> HIDE DEF I
  <2> QED
    BY <1>5, <1>6, MinFacts
<1>8. d \in 0 .. N /\ f.node[up[d]].parent = NULL
  BY <1>7
<1>9. up[d] = r
  <2>1. up[d] \in Allocated(f)
    BY <1>1, <1>8
  <2>2. up[d] \in Roots(f)
    BY <1>8, <2>1, NodeTypes
  <2>3. of_find_root_node(f, up[d]) = up[d]
    BY <2>2, SubtreeOfRoot
  <2> QED
    BY <1>3, <1>8, <2>3
<1>10. ASSUME NEW k \in 0 .. d - 1
       PROVE  f.node[up[k]].parent # NULL /\ up[k + 1] = f.node[up[k]].parent
  <2>1. k \in 0 .. N /\ k + 1 \in 1 .. N /\ ~(d <= k) /\ (k + 1) - 1 = k
    BY <1>2, <1>8
  <2>2. f.node[up[k]].parent # NULL
    BY <1>7, <2>1
  <2>3. up[k + 1] = Above(f, up[k])
    BY <1>1, <2>1
  <2> QED
    BY <2>2, <2>3 DEF Above
<1> QED
  BY <1>1, <1>8, <1>9, <1>10

\* The full name of a node leads to it where siblings differ in name.
LEMMA FullNameLeadsBack ==
    ASSUME Shaped(forest), NEW r \in Roots(forest), SiblingsDiffer(r),
           NEW n \in Subtree(forest, r)
    PROVE  of_find_node_by_path_from(forest, r, full_name(forest, n)) = n
<1> DEFINE f == forest
           up == WayUp(f, n)
           d == Depth(f, n)
           path == full_name(f, n)
<1>1. n \in Allocated(f) /\ of_find_root_node(f, n) = r
  <2>1. r \in Allocated(f) /\ of_find_root_node(f, r) = r
    BY NodeTypes, SubtreeOfRoot
  <2> QED
    BY <2>1, SubtreeFacts
<1>2. /\ d \in 0 .. N /\ up[d] = r
      /\ up \in [0 .. N -> Allocated(f)] /\ up[0] = n
      /\ \A k \in 0 .. d - 1 :
            f.node[up[k]].parent # NULL /\ up[k + 1] = f.node[up[k]].parent
  BY <1>1, DepthFacts
<1>3. path = [k \in 1 .. d |-> f.node[up[d - k]].name]
  BY DEF full_name
<1>4. N \in Nat
  BY NIsNat
<1>5. \A j \in 0 .. N : up[j] \in Subtree(f, r)
  <2> TAKE j \in 0 .. N
  <2>1. up[j] \in Allocated(f)
    BY <1>2
  <2>2. of_find_root_node(f, up[j]) = r
    BY <1>1, RootOf
  <2>3. \E k \in 1 .. Len(f.order[r]) : f.order[r][k] = up[j]
    BY <2>1, <2>2, RootOf
  <2> QED
    BY <2>3, SubtreeOfRoot
<1> HIDE DEF up, d, path
<1>6. d \in Nat /\ Len(path) = d /\ \A k \in 1 .. d : path[k] = f.node[up[d - k]].name
  BY <1>2, <1>3, <1>4
<1>7. r \in Allocated(f)
  BY NodeTypes
<1>8. PICK w : /\ w[0] = r
               /\ \A k \in 1 .. d : w[k] = StepDown(f, w[k - 1], path[k])
               /\ of_find_node_by_path_from(f, r, path) = w[d]
  BY <1>6, <1>7, WalkFacts
<1> DEFINE T == {k \in Nat : k <= d => w[k] = up[d - k]}
<1>9. 0 \in T
  BY <1>2, <1>6, <1>8
<1>10. ASSUME NEW k \in Nat, k \in T PROVE k + 1 \in T
  <2> SUFFICES ASSUME k + 1 <= d PROVE w[k + 1] = up[d - (k + 1)]
    OBVIOUS
  <2> DEFINE j == d - (k + 1)
             u == up[j + 1]
             v == up[j]
             c == of_get_child_by_name(f, u, f.node[v].name)
             s == f.node[u].children
  <2>1. /\ j \in 0 .. d - 1 /\ j \in 0 .. N /\ j + 1 \in 0 .. N /\ j + 1 = d - k
        /\ k + 1 \in 1 .. d /\ (k + 1) - 1 = k
    BY <1>2, <1>4, <1>6
  <2>2. w[k] = u
    BY <1>6, <1>10, <2>1
  <2>3. path[k + 1] = f.node[v].name
    BY <1>6, <2>1
  <2> HIDE DEF j
  <2>4. f.node[v].parent # NULL /\ u = f.node[v].parent
    BY <1>2, <2>1
  <2>5. u \in Allocated(f) /\ v \in Allocated(f) /\ u \in Subtree(f, r)
    BY <1>2, <1>5, <2>1
  <2>6. u # NULL
    BY <2>4
  <2>7. w[k + 1] = c
    <3>1. w[k + 1] = StepDown(f, w[k], path[k + 1])
      BY <1>8, <2>1
    <3> QED
      BY <2>2, <2>3, <2>6, <3>1 DEF StepDown
  <2>8. PICK i \in 1 .. Len(s) : s[i] = v
    <3> DEFINE t == f.node[f.node[v].parent].children
    <3> HIDE DEF v
    <3>1. \E i \in 1 .. Len(t) : t[i] = v
      BY <2>4, <2>5 DEF Shaped
    <3>2. t = s
      BY <2>4
    <3> HIDE DEF s, t
    <3> QED
      BY <3>1, <3>2
  <2>9. /\ c = NULL => \A h \in 1 .. Len(s) : f.node[s[h]].name # f.node[v].name
        /\ c # NULL => /\ f.node[c].name = f.node[v].name
                       /\ \E h \in 1 .. Len(s) : s[h] = c
    BY <2>5, ChildFacts
  <2>10. s \in Seq(NodeId)
    BY <2>5, NodeTypes
  <2> HIDE DEF c, u, v
  <2>11. c # NULL
    BY <2>8, <2>9
  <2>12. DOMAIN s = 1 .. Len(s)
    BY <2>10
  <2>13. c \in Range(s) /\ v \in Range(s)
    BY <2>8, <2>9, <2>11, <2>12 DEF Range
  <2>14. c = v
    BY <2>5, <2>9, <2>11, <2>13 DEF SiblingsDiffer
  <2> QED
    BY <2>7, <2>14 DEF v, j
<1>11. Nat \subseteq T
  <2> HIDE DEF T
  <2> QED
    BY <1>9, <1>10, NatSetInduction
<1>12. w[d] = up[d - d]
  BY <1>6, <1>11
<1>13. d - d = 0
  BY <1>6
<1> QED
  BY <1>2, <1>8, <1>12, <1>13 DEF path

\* The alias of_alias_get finds for a node leads of_find_node_by_alias back to
\* it in a tree whose siblings differ in name, for any number of nodes.
THEOREM AliasLeadsBackHolds == TreeSpec => []AliasLeadsBack
<1>1. TreeInv => AliasLeadsBack
  <2> DEFINE a == of_find_node_by_path(forest, <<"aliases">>)
  <2> SUFFICES ASSUME TreeInv, root_node # NULL, SiblingsDiffer(root_node),
                      a # NULL, a = of_aliases,
                      NEW n \in Subtree(forest, root_node), of_alias_get(forest, n) # 0
               PROVE  of_find_node_by_alias(forest, root_node,
                          forest.node[a].props[of_alias_get(forest, n)].name) = n
    BY DEF AliasLeadsBack
  <2> DEFINE s == forest.node[a].props
             path == full_name(forest, n)
             k == of_alias_get(forest, n)
             I == {i \in 1 .. Len(s) : s[i].val = PathVal(path)}
  <2>1. Sound(forest) /\ Shaped(forest) /\ root_node \in Roots(forest)
    BY DEF TreeInv, Sound, RootStands
  <2>2. a = of_find_node_by_path_from(forest, root_node, <<"aliases">>)
    BY DEF of_find_node_by_path
  <2>3. a \in Allocated(forest)
    <3>1. root_node \in Allocated(forest) /\ Len(<<"aliases">>) = 1
      BY <2>1, NodeTypes
    <3>2. PICK w \in [0 .. 1 -> Allocated(forest) \cup {NULL}] :
             of_find_node_by_path_from(forest, root_node, <<"aliases">>) = w[1]
      BY <2>1, <3>1, WalkFacts
    <3> QED
      BY <2>2, <3>2
  <2>4. k = IF I # {} THEN Min(I) ELSE 0
    BY DEF of_alias_get, SelectInSeq
  <2>5. s \in Seq(Props)
    BY <2>1, <2>3, NodeTypes
  <2> HIDE DEF a, k
  <2>6. k \in 1 .. Len(s) /\ s[k].val = PathVal(path)
    <3>1. I \subseteq 1 .. Len(s) /\ Len(s) \in Nat
      BY <2>5
    <3>2. k # 0
      BY DEF k
    <3>3. k \in I
      <4> HIDE DEF I
      <4> QED
        BY <2>4, <3>1, <3>2, FirstIndex
    <3> QED
      BY <3>3
  <2> DEFINE name == s[k].name
  <2>7. /\ of_find_property(forest, a, name) = k
        /\ of_get_property(forest, a, name) = PathVal(path)
    BY <2>1, <2>3, <2>6, PropertyFound
  <2>8. k # 0
    BY DEF k
  <2> HIDE DEF name
  <2>9. of_find_node_by_alias(forest, root_node, name)
          = NodeAtValue(forest, root_node, PathVal(path))
    BY <2>2, <2>7, <2>8 DEF of_find_node_by_alias
  <2>10. IsPath(PathVal(path)) /\ PathVal(path).path = path
    BY DEF IsPath, PathVal
  <2>11. of_find_node_by_path_from(forest, root_node, path) = n
    BY <2>1, FullNameLeadsBack
  <2>12. NodeAtValue(forest, root_node, PathVal(path)) = n
    BY <2>10, <2>11 DEF NodeAtValue
  <2> QED
    BY <2>9, <2>12 DEF name, k
<1> QED
  BY <1>1, TreeInvHolds, PTL

-----------------------------------------------------------------------------
(* What the loops visit that continue from the node they found last *)

\* x is the first node of o behind position p that is at one of Q.
Hop(o, Q, p, x) ==
    \/ x = NULL /\ \A h \in Q : h <= p
    \/ \E q \in Q : q > p /\ x = o[q] /\ \A h \in Q : h > p => q <= h

\* Where a loop is after k steps: at position q of Q, all of Q before it
\* visited and nothing else; or through.
AtPosition(o, Q, u, k, q) ==
    /\ u[k] = o[q] /\ k < q
    /\ \A j \in 0 .. k - 1 : \E p \in Q : u[j] = o[p] /\ p < q
    /\ \A p \in Q : p < q => \E j \in 0 .. k - 1 : u[j] = o[p]

Through(o, Q, u, k) ==
    u[k] = NULL /\ \A p \in Q : \E j \in 0 .. k - 1 : u[j] = o[p]

Reached(o, Q, u, k) ==
    Through(o, Q, u, k) \/ \E q \in Q : AtPosition(o, Q, u, k, q)

Loop(o, Q, first, next) ==
    /\ o \in Seq(NodeId) /\ Len(o) <= N /\ Q \subseteq 1 .. Len(o)
    /\ \A i, j \in 1 .. Len(o) : o[i] = o[j] => i = j
    /\ \E a \in 0 .. Len(o) : Hop(o, Q, a, first) /\ \A q \in Q : q > a
    /\ \A q \in Q : Hop(o, Q, q, next[o[q]])

LEMMA ReachedStep ==
    ASSUME NEW o, NEW Q, Q \subseteq Nat, NEW u, NEW k \in Nat, NEW next,
           \A q \in Q : Hop(o, Q, q, next[o[q]]) /\ o[q] # NULL,
           u[k + 1] = Onward(next, u[k]), Reached(o, Q, u, k)
    PROVE  Reached(o, Q, u, k + 1)
<1>1. CASE Through(o, Q, u, k)
  <2>1. u[k + 1] = NULL
    BY <1>1 DEF Onward, Through
  <2>2. \A j \in 0 .. k - 1 : j \in 0 .. (k + 1) - 1
    OBVIOUS
  <2> QED
    BY <1>1, <2>1, <2>2 DEF Through, Reached
<1>2. ASSUME NEW q \in Q, AtPosition(o, Q, u, k, q) PROVE Reached(o, Q, u, k + 1)
  <2>1. u[k] = o[q] /\ u[k] # NULL /\ k < q /\ q \in Nat
    BY <1>2 DEF AtPosition
  <2>2. Hop(o, Q, q, u[k + 1])
    BY <2>1 DEF Onward
  <2>3. \A p \in Q : p < q => \E j \in 0 .. k - 1 : u[j] = o[p]
    BY <1>2 DEF AtPosition
  <2>4. \A p \in Q : p <= q => \E j \in 0 .. (k + 1) - 1 : u[j] = o[p]
    <3> SUFFICES ASSUME NEW p \in Q, p <= q
                 PROVE  \E j \in 0 .. (k + 1) - 1 : u[j] = o[p]
      OBVIOUS
    <3>1. CASE p = q
      <4>1. k \in 0 .. (k + 1) - 1
        OBVIOUS
      <4> QED
        BY <2>1, <3>1, <4>1
    <3>2. CASE p < q
      <4>1. PICK j \in 0 .. k - 1 : u[j] = o[p]
        BY <2>3, <3>2
      <4>2. j \in 0 .. (k + 1) - 1
        OBVIOUS
      <4> QED
        BY <4>1, <4>2
    <3> QED
      BY <2>1, <3>1, <3>2
  <2>5. CASE u[k + 1] = NULL /\ \A h \in Q : h <= q
    BY <2>4, <2>5 DEF Through, Reached
  <2>6. ASSUME NEW z \in Q, z > q, u[k + 1] = o[z], \A h \in Q : h > q => z <= h
        PROVE  Reached(o, Q, u, k + 1)
    <3>0. z \in Nat
      OBVIOUS
    <3>1. k + 1 < z
      BY <2>1, <2>6, <3>0
    <3>2. ASSUME NEW j \in 0 .. (k + 1) - 1 PROVE \E p \in Q : u[j] = o[p] /\ p < z
      <4>1. CASE j = k
        BY <2>1, <2>6, <4>1
      <4>2. CASE j \in 0 .. k - 1
        <5>1. PICK p \in Q : u[j] = o[p] /\ p < q
          BY <1>2, <4>2 DEF AtPosition
        <5>2. p \in Nat
          OBVIOUS
        <5>3. p < z
          BY <2>1, <2>6, <3>0, <5>1, <5>2
        <5> QED
          BY <5>1, <5>3
      <4> QED
        BY <4>1, <4>2
    <3>3. ASSUME NEW p \in Q, p < z PROVE \E j \in 0 .. (k + 1) - 1 : u[j] = o[p]
      <4>0. p \in Nat
        OBVIOUS
      <4>1. p <= q
        BY <2>1, <2>6, <3>0, <3>3, <4>0
      <4> QED
        BY <2>4, <4>1
    <3>4. AtPosition(o, Q, u, k + 1, z)
      BY <2>6, <3>1, <3>2, <3>3 DEF AtPosition
    <3> QED
      BY <3>4 DEF Reached
  <2> QED
    BY <2>2, <2>5, <2>6 DEF Hop
<1> QED
  BY <1>1, <1>2 DEF Reached

LEMMA LoopExists ==
    ASSUME NEW o, NEW Q, NEW first, NEW next, Loop(o, Q, first, next)
    PROVE  \E u : /\ u \in [0 .. N -> {NULL} \cup {o[q] : q \in Q}]
                  /\ u[0] = first
                  /\ \A k \in 1 .. N : u[k] = Onward(next, u[k - 1])
<1> DEFINE S == {NULL} \cup {o[q] : q \in Q}
           F == [x \in S \X (1 .. N) |-> Onward(next, x[1])]
<1>1. ASSUME NEW v \in S PROVE Onward(next, v) \in S
  <2>1. CASE v = NULL
    BY <2>1 DEF Onward
  <2>2. ASSUME NEW q \in Q, v = o[q], v # NULL PROVE Onward(next, v) \in S
    <3>1. Hop(o, Q, q, next[o[q]])
      BY DEF Loop
    <3> QED
      BY <2>2, <3>1 DEF Onward, Hop
  <2> QED
    BY <2>1, <2>2
<1>2. first \in S /\ N \in Nat
  BY NIsNat DEF Loop, Hop
<1> HIDE DEF S
<1>3. ASSUME NEW v \in S, NEW k \in 1 .. N PROVE F[<<v, k>>] = Onward(next, v)
  OBVIOUS
<1>4. F \in [S \X (1 .. N) -> S]
  BY <1>1
<1> HIDE DEF F
<1>5. PICK u : Recursive(u, N, S, first, F)
  BY <1>2, <1>4, RecursionExists
<1>6. u \in [0 .. N -> S] /\ u[0] = first /\ \A k \in 1 .. N : u[k] = F[<<u[k - 1], k>>]
  BY <1>5 DEF Recursive
<1>7. ASSUME NEW k \in 1 .. N PROVE u[k] = Onward(next, u[k - 1])
  <2>1. u[k - 1] \in S
    BY <1>2, <1>6
  <2> QED
    BY <1>3, <1>6, <2>1
<1> QED
  BY <1>6, <1>7 DEF S

LEMMA VisitsAll ==
    ASSUME NEW o, NEW Q, NEW first, NEW next, Loop(o, Q, first, next),
           NEW s, s = Visited(first, next)
    PROVE  All(s, {o[q] : q \in Q}) /\ Len(s) = Cardinality(Q)
<1> DEFINE At == CHOOSE g : g = [k \in 0 .. N |-> IF k = 0 THEN first ELSE Onward(next, g[k - 1])]
           end == {k \in 0 .. N : At[k] = NULL}
           m == Min(end \cup {N})
<1>0. /\ N \in Nat /\ Len(o) \in Nat /\ Len(o) <= N /\ Q \subseteq 1 .. Len(o) /\ Q \subseteq Nat
      /\ \A q \in Q : o[q] \in NodeId /\ o[q] # NULL
      /\ \A i, j \in 1 .. Len(o) : o[i] = o[j] => i = j
      /\ \A q \in Q : Hop(o, Q, q, next[o[q]])
  <2>1. N \in Nat /\ o \in Seq(NodeId) /\ Len(o) \in Nat
    BY NIsNat DEF Loop
  <2>2. Len(o) <= N /\ Q \subseteq 1 .. Len(o) /\ Q \subseteq Nat
    BY <2>1 DEF Loop
  <2>3. \A q \in Q : o[q] \in NodeId
    BY <2>1, <2>2
  <2>4. \A q \in Q : o[q] # NULL
    BY <2>3, TreeAssumption
  <2> QED
    BY <2>1, <2>2, <2>3, <2>4 DEF Loop
<1>1. At = [k \in 0 .. N |-> IF k = 0 THEN first ELSE Onward(next, At[k - 1])]
  <2>1. PICK u : /\ u \in [0 .. N -> {NULL} \cup {o[q] : q \in Q}]
                 /\ u[0] = first
                 /\ \A k \in 1 .. N : u[k] = Onward(next, u[k - 1])
    BY LoopExists
  <2>2. \A k \in 0 .. N : u[k] = IF k = 0 THEN first ELSE Onward(next, u[k - 1])
    BY <1>0, <2>1
  <2>3. u = [k \in 0 .. N |-> u[k]]
    BY <2>1
  <2>4. u = [k \in 0 .. N |-> IF k = 0 THEN first ELSE Onward(next, u[k - 1])]
    BY <2>2, <2>3
  <2> QED
    BY <2>4
<1>2. s = [k \in 1 .. m |-> At[k - 1]]
  BY DEF Visited, N
<1> HIDE DEF At
<1>3. At[0] = first /\ \A k \in 1 .. N : At[k] = Onward(next, At[k - 1])
  BY <1>0, <1>1
<1>4. Reached(o, Q, At, 0)
  <2>1. PICK a \in 0 .. Len(o) : Hop(o, Q, a, At[0]) /\ \A q \in Q : q > a
    BY <1>3 DEF Loop
  <2>2. CASE At[0] = NULL /\ \A h \in Q : h <= a
    <3>1. Q = {}
      BY <1>0, <2>1, <2>2
    <3> QED
      BY <2>2, <3>1 DEF Through, Reached
  <2>3. ASSUME NEW q \in Q, q > a, At[0] = o[q], \A h \in Q : h > a => q <= h
        PROVE  Reached(o, Q, At, 0)
    <3>1. q \in Nat /\ 0 < q
      BY <1>0, <2>3
    <3>2. ~ \E p \in Q : p < q
      BY <1>0, <2>1, <2>3, <3>1
    <3>3. 0 .. 0 - 1 = {}
      OBVIOUS
    <3>4. AtPosition(o, Q, At, 0, q)
      BY <2>3, <3>1, <3>2, <3>3 DEF AtPosition
    <3> QED
      BY <3>4 DEF Reached
  <2> QED
    BY <2>1, <2>2, <2>3 DEF Hop
<1>5. ASSUME NEW k \in 0 .. N PROVE Reached(o, Q, At, k)
  <2> DEFINE T == {j \in Nat : j <= N => Reached(o, Q, At, j)}
  <2>1. 0 \in T
    BY <1>4
  <2>2. ASSUME NEW j \in Nat, j \in T PROVE j + 1 \in T
    <3> SUFFICES ASSUME j + 1 <= N PROVE Reached(o, Q, At, j + 1)
      OBVIOUS
    <3>1. Reached(o, Q, At, j) /\ j + 1 \in 1 .. N /\ (j + 1) - 1 = j
      BY <1>0, <2>2
    <3>2. At[j + 1] = Onward(next, At[j])
      BY <1>3, <3>1
    <3> QED
      BY <1>0, <3>1, <3>2, ReachedStep
  <2>3. Nat \subseteq T
    <3> HIDE DEF T
    <3> QED
      BY <2>1, <2>2, NatSetInduction
  <2> QED
    BY <1>0, <2>3
<1>6. At[N] = NULL
  <2>1. Reached(o, Q, At, N)
    BY <1>0, <1>5
  <2>2. ASSUME NEW q \in Q PROVE ~AtPosition(o, Q, At, N, q)
    <3>1. q \in Nat /\ q <= N
      BY <1>0
    <3> QED
      BY <1>0, <3>1 DEF AtPosition
  <2> QED
    BY <2>1, <2>2 DEF Reached, Through
<1>7. m \in 0 .. N /\ At[m] = NULL /\ \A k \in 0 .. N : At[k] = NULL => m <= k
  <2>1. end \cup {N} = end /\ end \subseteq Nat /\ end # {}
    BY <1>0, <1>6
  <2>2. m = Min(end)
    BY <2>1
  <2>3. m \in end /\ \A i \in end : m <= i
    <3> HIDE DEF end, m
    <3> QED
      BY <2>1, <2>2, MinFacts
  <2> HIDE DEF m
  <2> QED
    BY <2>3
<1> HIDE DEF m, end
<1>8. ASSUME NEW k \in 0 .. m - 1 PROVE \E q \in Q : AtPosition(o, Q, At, k, q)
  <2>1. k \in 0 .. N /\ ~(m <= k)
    BY <1>0, <1>7
  <2> QED
    BY <1>5, <1>7, <2>1 DEF Reached, Through
<1>9. Through(o, Q, At, m)
  <2>1. ASSUME NEW q \in Q PROVE ~AtPosition(o, Q, At, m, q)
    BY <1>0, <1>7 DEF AtPosition
  <2> QED
    BY <1>5, <1>7, <2>1 DEF Reached
<1>10. ASSUME NEW i \in 0 .. m - 1, NEW j \in 0 .. m - 1, i < j PROVE At[i] # At[j]
  <2>1. PICK q \in Q : AtPosition(o, Q, At, j, q)
    BY <1>8
  <2>2. i \in 0 .. j - 1
    BY <1>0, <1>7, <1>10
  <2>3. PICK p \in Q : At[i] = o[p] /\ p < q
    BY <2>1, <2>2 DEF AtPosition
  <2>4. At[j] = o[q] /\ p # q
    BY <1>0, <2>1, <2>3 DEF AtPosition
  <2> QED
    BY <1>0, <2>3, <2>4
<1>11. ASSUME NEW i \in 0 .. m - 1, NEW j \in 0 .. m - 1, At[i] = At[j] PROVE i = j
  <2>1. i \in Nat /\ j \in Nat
    BY <1>0, <1>7
  <2>2. ~(i < j) /\ ~(j < i)
    BY <1>10, <1>11
  <2> QED
    BY <2>1, <2>2
<1>12. m \in Nat /\ DOMAIN s = 1 .. m /\ \A k \in 1 .. m : s[k] = At[k - 1] /\ k - 1 \in 0 .. m - 1
  BY <1>0, <1>2, <1>7
<1>13. IsInjective(s)
  <2> SUFFICES ASSUME NEW i \in 1 .. m, NEW j \in 1 .. m, s[i] = s[j] PROVE i = j
    BY <1>12 DEF IsInjective
  <2>1. i - 1 = j - 1
    BY <1>11, <1>12
  <2> QED
    BY <1>12, <2>1
<1>14. \A q \in Q : \E k \in 1 .. m : s[k] = o[q]
  <2> TAKE q \in Q
  <2>1. PICK j \in 0 .. m - 1 : At[j] = o[q]
    BY <1>9 DEF Through
  <2>2. j + 1 \in 1 .. m /\ (j + 1) - 1 = j
    BY <1>12
  <2> QED
    BY <1>12, <2>1, <2>2
<1>15. \A k \in 1 .. m : \E q \in Q : s[k] = o[q]
  <2> TAKE k \in 1 .. m
  <2>1. s[k] = At[k - 1] /\ k - 1 \in 0 .. m - 1
    BY <1>12
  <2>2. PICK q \in Q : AtPosition(o, Q, At, k - 1, q)
    BY <1>8, <2>1
  <2> QED
    BY <2>1, <2>2 DEF AtPosition
<1>16. Range(s) = {o[q] : q \in Q}
  <2>1. Range(s) = {s[k] : k \in 1 .. m}
    BY <1>12 DEF Range
  <2>2. \A x : x \in Range(s) <=> \E k \in 1 .. m : x = s[k]
    BY <2>1
  <2>3. \A x : x \in {o[q] : q \in Q} <=> \E q \in Q : x = o[q]
    OBVIOUS
  <2> QED
    BY <1>14, <1>15, <2>2, <2>3
<1>17. Len(s) = m
  BY <1>2, <1>12
<1>18. Cardinality(Q) = m
  <2> DEFINE g == [k \in 1 .. m |-> CHOOSE q \in Q : s[k] = o[q]]
  <2>1. ASSUME NEW k \in 1 .. m PROVE g[k] \in Q /\ o[g[k]] = s[k]
    BY <1>15
  <2>2. g \in [1 .. m -> Q]
    BY <2>1
  <2> HIDE DEF g
  <2>3. \A i, j \in 1 .. m : g[i] = g[j] => i = j
    <3>1. \A i, j \in 1 .. m : s[i] = s[j] => i = j
      BY <1>12, <1>13 DEF IsInjective
    <3> QED
      BY <2>1, <3>1
  <2>4. \A q \in Q : \E k \in 1 .. m : g[k] = q
    <3> TAKE q \in Q
    <3>1. PICK k \in 1 .. m : s[k] = o[q]
      BY <1>14
    <3>2. g[k] = q
      BY <1>0, <2>1, <3>1
    <3> QED
      BY <3>2
  <2>5. g \in Injection(1 .. m, Q)
    BY <2>2, <2>3 DEF Injection, IsInjective
  <2>6. g \in Surjection(1 .. m, Q)
    BY <2>2, <2>4 DEF Surjection
  <2>7. ExistsBijection(1 .. m, Q)
    BY <2>5, <2>6 DEF ExistsBijection, Bijection
  <2> QED
    BY <1>12, <2>7, FS_CountingElements
<1> QED
  BY <1>13, <1>16, <1>17, <1>18 DEF All
\* The position of an element in a list that holds it once.
LEMMA PositionOf ==
    ASSUME NEW o \in Seq(NodeId), \A i, j \in 1 .. Len(o) : o[i] = o[j] => i = j,
           NEW p \in 1 .. Len(o), NEW I, I = {i \in 1 .. Len(o) : o[i] = o[p]}
    PROVE  (IF I # {} THEN Min(I) ELSE 0) = p
<1> DEFINE k == IF I # {} THEN Min(I) ELSE 0
<1>1. I = {p} /\ I \subseteq 1 .. Len(o) /\ Len(o) \in Nat
  OBVIOUS
<1>2. k \in I
  BY <1>1, FirstIndex
<1> HIDE DEF k
<1>3. k = p
  BY <1>1, <1>2
<1> QED
  BY <1>3 DEF k

LEMMA BehindFacts ==
    ASSUME NEW o \in Seq(NodeId), NEW p \in 0 .. Len(o), NEW s, s = SubSeq(o, p + 1, Len(o))
    PROVE  Len(s) = Len(o) - p /\ \A i \in 1 .. Len(s) : s[i] = o[p + i]
<1>1. s = [i \in 1 .. Len(o) - p |-> o[p + i]]
  <2>1. Len(o) \in Nat /\ p \in Nat /\ p <= Len(o)
    OBVIOUS
  <2>2. (Len(o) - (p + 1)) + 1 = Len(o) - p
    BY <2>1
  <2>3. s = [i \in 1 .. Len(o) - p |-> o[(p + 1) + i - 1]]
    BY <2>1, <2>2
  <2>4. \A i \in 1 .. Len(o) - p : (p + 1) + i - 1 = p + i
    BY <2>1
  <2> QED
    BY <2>3, <2>4
<1> QED
  BY <1>1

\* I are the positions of Q in what is behind p.
Behind(o, Q, p, s, I) ==
    /\ o \in Seq(NodeId) /\ p \in 0 .. Len(o) /\ Q \subseteq 1 .. Len(o)
    /\ s = SubSeq(o, p + 1, Len(o))
    /\ I \subseteq 1 .. Len(s) /\ \A i \in 1 .. Len(s) : i \in I <=> p + i \in Q

LEMMA FirstHop ==
    ASSUME NEW o, NEW Q, NEW p, NEW s, NEW I, Behind(o, Q, p, s, I),
           NEW k, k = (IF I # {} THEN Min(I) ELSE 0)
    PROVE  Hop(o, Q, p, IF k = 0 THEN NULL ELSE s[k])
<1>1. /\ o \in Seq(NodeId) /\ p \in 0 .. Len(o) /\ Q \subseteq 1 .. Len(o)
      /\ s = SubSeq(o, p + 1, Len(o))
      /\ I \subseteq 1 .. Len(s) /\ \A i \in 1 .. Len(s) : i \in I <=> p + i \in Q
  BY DEF Behind
<1>2. Len(s) = Len(o) - p /\ Len(s) \in Nat /\ \A i \in 1 .. Len(s) : s[i] = o[p + i]
  BY <1>1, BehindFacts
<1>3. (I = {} => k = 0) /\ (I # {} => k \in I /\ k # 0 /\ \A i \in I : k <= i)
  BY <1>1, <1>2, FirstIndex
<1>4. ASSUME NEW h \in Q, h > p PROVE h - p \in I /\ p + (h - p) = h
  <2>1. h - p \in 1 .. Len(s) /\ p + (h - p) = h
    BY <1>1, <1>2, <1>4
  <2> QED
    BY <1>1, <1>4, <2>1
<1>5. CASE I = {}
  <2>1. ASSUME NEW h \in Q PROVE h <= p
    BY <1>1, <1>4, <1>5
  <2> QED
    BY <1>3, <1>5, <2>1 DEF Hop
<1>6. CASE I # {}
  <2>1. k \in I /\ k # 0 /\ k \in 1 .. Len(s)
    BY <1>1, <1>3, <1>6
  <2>2. p + k \in Q /\ p + k > p /\ s[k] = o[p + k]
    BY <1>1, <1>2, <2>1
  <2>3. ASSUME NEW h \in Q, h > p PROVE p + k <= h
    <3>1. k <= h - p
      BY <1>3, <1>4, <1>6, <2>3
    <3> QED
      BY <1>1, <2>1, <3>1
  <2> QED
    BY <2>1, <2>2, <2>3 DEF Hop
<1> QED
  BY <1>5, <1>6

LEMMA BehindNode ==
    ASSUME NEW f, Shaped(f), NEW r \in Roots(f), NEW p \in 1 .. Len(f.order[r])
    PROVE  NodesBehind(f, f.order[r][p]) = SubSeq(f.order[r], p + 1, Len(f.order[r]))
<1> DEFINE o == f.order[r]
<1>1. o \in Seq(NodeId) /\ \A i, j \in 1 .. Len(o) : o[i] = o[j] => i = j
  BY NodeTypes DEF Shaped, Listed
<1>2. o[p] \in Allocated(f)
  BY DEF Shaped, Listed
<1>3. of_find_root_node(f, o[p]) = r
  BY <1>2, RootOf
<1>4. Order(f, o[p]) = o
  BY <1>3 DEF Order
<1> DEFINE I == {i \in 1 .. Len(o) : o[i] = o[p]}
           k == IF I # {} THEN Min(I) ELSE 0
<1>5. NodesBehind(f, o[p]) = SubSeq(o, k + 1, Len(o))
  BY <1>4 DEF NodesBehind, SelectInSeq
<1> HIDE DEF o
<1>6. k = p
  <2>1. I = {i \in 1 .. Len(o) : o[i] = o[p]} /\ p \in 1 .. Len(o)
    BY DEF o
  <2> HIDE DEF I
  <2> QED
    BY <1>1, <2>1, PositionOf
<1> QED
  BY <1>5, <1>6 DEF o

\* The searches along the linear list find the first that is meant behind the
\* node they start from.
LEMMA NamedHop ==
    ASSUME NEW f, Shaped(f), NEW r \in Roots(f), NEW o, o = f.order[r],
           NEW p \in 1 .. Len(o), NEW name,
           NEW Q, Q = {q \in 2 .. Len(o) : f.node[o[q]].name = name}
    PROVE  Hop(o, Q, p, of_find_node_by_name(f, o[p], name))
<1> DEFINE s == NodesBehind(f, o[p])
           I == {i \in 1 .. Len(s) : f.node[s[i]].name = name}
           k == IF I # {} THEN Min(I) ELSE 0
<1>1. of_find_node_by_name(f, o[p], name) = IF k = 0 THEN NULL ELSE s[k]
  BY DEF of_find_node_by_name, FirstBehind, SelectInSeq
<1>2. o \in Seq(NodeId) /\ Q \subseteq 1 .. Len(o) /\ p \in 0 .. Len(o)
  BY NodeTypes
<1>3. s = SubSeq(o, p + 1, Len(o))
  BY BehindNode
<1> HIDE DEF s
<1>4. Len(s) = Len(o) - p /\ \A i \in 1 .. Len(s) : s[i] = o[p + i]
  BY <1>2, <1>3, BehindFacts
<1>5. \A i \in 1 .. Len(s) : p + i \in 2 .. Len(o)
  BY <1>2, <1>4
<1>6. \A i \in 1 .. Len(s) : i \in I <=> p + i \in Q
  BY <1>4, <1>5
<1>7. I \subseteq 1 .. Len(s)
  OBVIOUS
<1> HIDE DEF I
<1>8. k = IF I # {} THEN Min(I) ELSE 0
  OBVIOUS
<1> HIDE DEF k
<1>9. Behind(o, Q, p, s, I)
  BY <1>2, <1>3, <1>6, <1>7 DEF Behind
<1>10. Hop(o, Q, p, IF k = 0 THEN NULL ELSE s[k])
  BY <1>8, <1>9, FirstHop
<1> QED
  BY <1>1, <1>10

LEMMA HavingHop ==
    ASSUME NEW f, Shaped(f), NEW r \in Roots(f), NEW o, o = f.order[r],
           NEW p \in 1 .. Len(o), NEW name,
           NEW Q, Q = {q \in 2 .. Len(o) : of_find_property(f, o[q], name) # 0}
    PROVE  Hop(o, Q, p, of_find_node_with_property(f, o[p], name))
<1> DEFINE s == NodesBehind(f, o[p])
           I == {i \in 1 .. Len(s) : of_find_property(f, s[i], name) # 0}
           k == IF I # {} THEN Min(I) ELSE 0
<1>1. of_find_node_with_property(f, o[p], name) = IF k = 0 THEN NULL ELSE s[k]
  BY DEF of_find_node_with_property, FirstBehind, SelectInSeq
<1>2. o \in Seq(NodeId) /\ Q \subseteq 1 .. Len(o) /\ p \in 0 .. Len(o)
  BY NodeTypes
<1>3. s = SubSeq(o, p + 1, Len(o))
  BY BehindNode
<1> HIDE DEF s
<1>4. Len(s) = Len(o) - p /\ \A i \in 1 .. Len(s) : s[i] = o[p + i]
  BY <1>2, <1>3, BehindFacts
<1>5. \A i \in 1 .. Len(s) : p + i \in 2 .. Len(o)
  BY <1>2, <1>4
<1>6. \A i \in 1 .. Len(s) : i \in I <=> p + i \in Q
  BY <1>4, <1>5
<1>7. I \subseteq 1 .. Len(s)
  OBVIOUS
<1> HIDE DEF I
<1>8. k = IF I # {} THEN Min(I) ELSE 0
  OBVIOUS
<1> HIDE DEF k
<1>9. Behind(o, Q, p, s, I)
  BY <1>2, <1>3, <1>6, <1>7 DEF Behind
<1>10. Hop(o, Q, p, IF k = 0 THEN NULL ELSE s[k])
  BY <1>8, <1>9, FirstHop
<1> QED
  BY <1>1, <1>10

\* The walk over the children, from its begin (p = 0) or from the child at p.
LEMMA AvailableHop ==
    ASSUME NEW f, Sound(f), NEW n \in Allocated(f), NEW o, o = f.node[n].children,
           NEW p \in 0 .. Len(o), NEW prev, prev = IF p = 0 THEN NULL ELSE o[p],
           NEW Q, Q \subseteq 1 .. Len(o),
           \A q \in 1 .. Len(o) : q \in Q <=> of_device_is_available(f, o[q])
    PROVE  Hop(o, Q, p, of_get_next_available_child(f, n, prev))
<1> DEFINE J == {i \in 1 .. Len(o) : o[i] = prev}
           from == IF J # {} THEN Min(J) ELSE 0
           s == SubSeq(o, from + 1, Len(o))
           I == {i \in 1 .. Len(s) : of_device_is_available(f, s[i])}
           k == IF I # {} THEN Min(I) ELSE 0
<1>1. of_get_next_available_child(f, n, prev) = IF k = 0 THEN NULL ELSE s[k]
  BY DEF of_get_next_available_child, SelectInSeq
<1>2. /\ o \in Seq(NodeId) /\ Q \subseteq 1 .. Len(o)
      /\ \A i, j \in 1 .. Len(o) : o[i] = o[j] => i = j
  BY NodeTypes DEF Sound, Neat, ChildrenOnce
<1>3. from = p
  <2>1. CASE p = 0
    <3>1. \A i \in 1 .. Len(o) : o[i] # prev
      BY <1>2, <2>1, TreeAssumption
    <3> QED
      BY <2>1, <3>1
  <2>2. CASE p # 0
    <3>1. p \in 1 .. Len(o) /\ prev = o[p]
      BY <2>2
    <3>2. J = {p} /\ J \subseteq 1 .. Len(o) /\ Len(o) \in Nat
      BY <1>2, <3>1
    <3> HIDE DEF J
    <3>3. from \in J
      BY <3>2, FirstIndex
    <3> HIDE DEF from
    <3> QED
      BY <3>2, <3>3
  <2> QED
    BY <2>1, <2>2
<1> HIDE DEF from
<1>4. s = SubSeq(o, p + 1, Len(o))
  BY <1>3
<1> HIDE DEF s
<1>5. Len(s) = Len(o) - p /\ \A i \in 1 .. Len(s) : s[i] = o[p + i]
  BY <1>2, <1>4, BehindFacts
<1>6. \A i \in 1 .. Len(s) : p + i \in 1 .. Len(o)
  BY <1>2, <1>5
<1>7. \A i \in 1 .. Len(s) : i \in I <=> p + i \in Q
  BY <1>5, <1>6
<1>8. I \subseteq 1 .. Len(s)
  OBVIOUS
<1> HIDE DEF I
<1>9. k = IF I # {} THEN Min(I) ELSE 0
  OBVIOUS
<1> HIDE DEF k
<1>10. Behind(o, Q, p, s, I)
  BY <1>2, <1>4, <1>7, <1>8 DEF Behind
<1>11. Hop(o, Q, p, IF k = 0 THEN NULL ELSE s[k])
  BY <1>9, <1>10, FirstHop
<1> QED
  BY <1>1, <1>11
LEMMA HasProperty ==
    ASSUME Shaped(forest), NEW n \in Allocated(forest), NEW name
    PROVE  of_find_property(forest, n, name) # 0 <=> name \in PropNames(n)
<1> DEFINE s == forest.node[n].props
           k == of_find_property(forest, n, name)
<1>1. s \in Seq(Props) /\ DOMAIN s = 1 .. Len(s)
  BY NodeTypes
<1>2. /\ k = 0 => \A i \in 1 .. Len(s) : s[i].name # name
      /\ k # 0 => k \in 1 .. Len(s) /\ s[k].name = name
  BY <1>1, FindPropertyFacts
<1>3. name \in PropNames(n) <=> \E i \in 1 .. Len(s) : s[i].name = name
  BY <1>1 DEF PropNames
<1> HIDE DEF s, k
<1>4. k # 0 <=> name \in PropNames(n)
  BY <1>2, <1>3
<1> QED
  BY <1>4 DEF k

\* A search along o for what is at the positions of Q.
Seeks(o, Q, first, next) ==
    /\ Q \subseteq 2 .. Len(o) /\ Hop(o, Q, 1, first)
    /\ \A q \in Q : Hop(o, Q, q, next[o[q]])

LEMMA SearchesList ==
    ASSUME NEW f, Shaped(f), NEW r \in Roots(f), NEW o, o = f.order[r],
           NEW Q, NEW first, NEW next, Seeks(o, Q, first, next)
    PROVE  All(Visited(first, next), {o[q] : q \in Q})
<1>1. o \in Seq(NodeId) /\ Len(o) \in Nat \ {0}
  BY NodeTypes
<1>2. \A i, j \in 1 .. Len(o) : o[i] = o[j] => i = j
  BY DEF Shaped, Listed
<1>3. Len(o) <= N
  BY OrderBounded
<1>4. Q \subseteq 1 .. Len(o) /\ 1 \in 0 .. Len(o) /\ \A q \in Q : q > 1
  BY <1>1 DEF Seeks
<1>5. Loop(o, Q, first, next)
  BY <1>1, <1>2, <1>3, <1>4 DEF Loop, Seeks
<1> QED
  BY <1>5, VisitsAll

LEMMA BelowRoot ==
    ASSUME NEW f, Shaped(f), NEW r \in Roots(f), NEW o, o = f.order[r], NEW n
    PROVE  n \in Subtree(f, r) \ {r} <=> \E q \in 2 .. Len(o) : o[q] = n
<1>1. Len(o) \in Nat \ {0} /\ o[1] = r
  BY NodeTypes
<1>2. \A i, j \in 1 .. Len(o) : o[i] = o[j] => i = j
  BY DEF Shaped, Listed
<1>3. n \in Subtree(f, r) <=> \E k \in 1 .. Len(o) : o[k] = n
  BY SubtreeOfRoot
<1>4. ASSUME NEW q \in 2 .. Len(o), o[q] = n PROVE n \in Subtree(f, r) \ {r}
  BY <1>1, <1>2, <1>3, <1>4
<1>5. ASSUME n \in Subtree(f, r), n # r PROVE \E q \in 2 .. Len(o) : o[q] = n
  <2>1. PICK k \in 1 .. Len(o) : o[k] = n
    BY <1>3, <1>5
  <2>2. k \in 2 .. Len(o)
    BY <1>1, <1>5, <2>1
  <2> QED
    BY <2>1, <2>2
<1> QED
  BY <1>4, <1>5

LEMMA NamedAll ==
    ASSUME Shaped(forest), NEW r \in Roots(forest), NEW name
    PROVE  All(NamedVisited(r, name),
               {n \in Subtree(forest, r) \ {r} : forest.node[n].name = name})
<1> DEFINE o == forest.order[r]
           Q == {q \in 2 .. Len(o) : forest.node[o[q]].name = name}
           first == of_find_node_by_name(forest, r, name)
           next == [n \in Subtree(forest, r) |-> of_find_node_by_name(forest, n, name)]
           S == {n \in Subtree(forest, r) \ {r} : forest.node[n].name = name}
<1>1. Len(o) \in Nat \ {0} /\ o[1] = r /\ 1 \in 1 .. Len(o)
  BY NodeTypes
<1>2. ASSUME NEW p \in 1 .. Len(o) PROVE Hop(o, Q, p, of_find_node_by_name(forest, o[p], name))
  BY NamedHop
<1>3. Hop(o, Q, 1, first)
  BY <1>1, <1>2
<1>4. ASSUME NEW q \in Q PROVE Hop(o, Q, q, next[o[q]])
  <2>1. q \in 1 .. Len(o) /\ o[q] \in Subtree(forest, r)
    BY <1>1, SubtreeOfRoot
  <2>2. next[o[q]] = of_find_node_by_name(forest, o[q], name)
    BY <2>1
  <2> QED
    BY <1>2, <2>1, <2>2
<1>5. \A n : n \in Subtree(forest, r) \ {r} <=> \E q \in 2 .. Len(o) : o[q] = n
  BY BelowRoot
<1>6. S = {o[q] : q \in Q}
  <2>1. \A n : n \in S <=> \E q \in Q : n = o[q]
    BY <1>5
  <2>2. \A n : n \in {o[q] : q \in Q} <=> \E q \in Q : n = o[q]
    OBVIOUS
  <2> HIDE DEF S
  <2> QED
    BY <2>1, <2>2
<1>7. NamedVisited(r, name) = Visited(first, next)
  BY DEF NamedVisited
<1>8. Q \subseteq 2 .. Len(o)
  OBVIOUS
<1> HIDE DEF first, next, Q
<1>9. Seeks(o, Q, first, next)
  BY <1>3, <1>4, <1>8 DEF Seeks
<1>10. All(Visited(first, next), {o[q] : q \in Q})
  BY <1>9, SearchesList
<1> HIDE DEF S
<1> QED
  BY <1>6, <1>7, <1>10 DEF S

LEMMA HavingAll ==
    ASSUME Shaped(forest), NEW r \in Roots(forest), NEW name
    PROVE  All(HavingVisited(r, name),
               {n \in Subtree(forest, r) \ {r} : name \in PropNames(n)})
<1> DEFINE o == forest.order[r]
           Q == {q \in 2 .. Len(o) : of_find_property(forest, o[q], name) # 0}
           first == of_find_node_with_property(forest, r, name)
           next == [n \in Subtree(forest, r) |-> of_find_node_with_property(forest, n, name)]
           S == {n \in Subtree(forest, r) \ {r} : name \in PropNames(n)}
<1>1. Len(o) \in Nat \ {0} /\ o[1] = r /\ 1 \in 1 .. Len(o)
  BY NodeTypes
<1>2. ASSUME NEW p \in 1 .. Len(o)
      PROVE  Hop(o, Q, p, of_find_node_with_property(forest, o[p], name))
  BY HavingHop
<1>3. Hop(o, Q, 1, first)
  BY <1>1, <1>2
<1>4. ASSUME NEW q \in Q PROVE Hop(o, Q, q, next[o[q]])
  <2>1. q \in 1 .. Len(o) /\ o[q] \in Subtree(forest, r)
    BY <1>1, SubtreeOfRoot
  <2>2. next[o[q]] = of_find_node_with_property(forest, o[q], name)
    BY <2>1
  <2> QED
    BY <1>2, <2>1, <2>2
<1>5. \A n : n \in Subtree(forest, r) \ {r} <=> \E q \in 2 .. Len(o) : o[q] = n
  BY BelowRoot
<1>6. ASSUME NEW q \in 2 .. Len(o)
      PROVE  of_find_property(forest, o[q], name) # 0 <=> name \in PropNames(o[q])
  <2>1. q \in 1 .. Len(o)
    BY <1>1
  <2>2. o[q] \in Allocated(forest)
    BY <2>1 DEF Shaped, Listed
  <2> QED
    BY <2>2, HasProperty
<1>7. S = {o[q] : q \in Q}
  <2>1. \A n : n \in S <=> \E q \in Q : n = o[q]
    <3>1. ASSUME NEW n \in S PROVE \E q \in Q : n = o[q]
      <4>1. PICK q \in 2 .. Len(o) : o[q] = n
        BY <1>5, <3>1
      <4>2. name \in PropNames(o[q])
        BY <3>1, <4>1
      <4>3. q \in Q
        BY <1>6, <4>2
      <4> QED
        BY <4>1, <4>3
    <3>2. ASSUME NEW q \in Q PROVE o[q] \in S
      BY <1>5, <1>6
    <3> HIDE DEF S, Q, o
    <3> QED
      BY <3>1, <3>2
  <2>2. \A n : n \in {o[q] : q \in Q} <=> \E q \in Q : n = o[q]
    OBVIOUS
  <2> HIDE DEF S
  <2> QED
    BY <2>1, <2>2
<1>8. HavingVisited(r, name) = Visited(first, next)
  BY DEF HavingVisited
<1>9. Q \subseteq 2 .. Len(o)
  OBVIOUS
<1> HIDE DEF first, next, Q
<1>10. Seeks(o, Q, first, next)
  BY <1>3, <1>4, <1>9 DEF Seeks
<1>11. All(Visited(first, next), {o[q] : q \in Q})
  BY <1>10, SearchesList
<1> HIDE DEF S
<1> QED
  BY <1>7, <1>8, <1>11 DEF S
\* No status but "disabled" is written, so what has one is not available.
LEMMA AvailableMeans ==
    ASSUME Sound(forest), NEW n \in Allocated(forest)
    PROVE  of_device_is_available(forest, n) <=> "status" \notin PropNames(n)
<1> DEFINE s == forest.node[n].props
           k == of_find_property(forest, n, "status")
<1>1. Shaped(forest) /\ s \in Seq(Props)
  BY NodeTypes DEF Sound
<1>2. k # 0 <=> "status" \in PropNames(n)
  BY <1>1, HasProperty
<1>3. k # 0 => k \in 1 .. Len(s)
  BY <1>1, FindPropertyFacts
<1>4. ASSUME NEW p \in Props PROVE p.val \notin {StatusVal("okay"), StatusVal("ok")}
  <2>1. p.val \in [path : Paths] \cup [u32 : Nat] \cup [status : {"disabled"}]
    BY DEF Props
  <2>2. ASSUME NEW t \in {"okay", "ok"} PROVE p.val # StatusVal(t)
    <3>1. t # "disabled"
      OBVIOUS
    <3>2. CASE p.val \in [path : Paths]
      <4>1. DOMAIN p.val = {"path"} /\ DOMAIN StatusVal(t) = {"status"}
        BY <3>2 DEF StatusVal
      <4> QED
        BY <4>1
    <3>3. CASE p.val \in [u32 : Nat]
      <4>1. DOMAIN p.val = {"u32"} /\ DOMAIN StatusVal(t) = {"status"}
        BY <3>3 DEF StatusVal
      <4> QED
        BY <4>1
    <3>4. CASE p.val \in [status : {"disabled"}]
      <4>1. p.val.status = "disabled" /\ StatusVal(t).status = t
        BY <3>4 DEF StatusVal
      <4> QED
        BY <3>1, <4>1
    <3> QED
      BY <2>1, <3>2, <3>3, <3>4
  <2> QED
    BY <2>2
<1>5. k # 0 => of_get_property(forest, n, "status") \notin {StatusVal("okay"), StatusVal("ok")}
  <2>1. k # 0 => s[k] \in Props
    BY <1>1, <1>3
  <2>2. of_get_property(forest, n, "status") = s[k].val
    BY DEF of_get_property
  <2> HIDE DEF s, k
  <2> QED
    BY <1>4, <2>1, <2>2
<1> QED
  BY <1>2, <1>5 DEF of_device_is_available

LEMMA AvailableAll ==
    ASSUME Sound(forest), NEW r \in Roots(forest), NEW n \in Subtree(forest, r)
    PROVE  /\ Len(AvailableVisited(n)) = of_get_available_child_count(forest, n)
           /\ All(AvailableVisited(n),
                  {c \in Subtree(forest, r) \ {r} :
                      forest.node[c].parent = n /\ "status" \notin PropNames(c)})
<1> DEFINE o == forest.node[n].children
           Q == {q \in 1 .. Len(o) : of_device_is_available(forest, o[q])}
           first == of_get_next_available_child(forest, n, NULL)
           next == [c \in Range(o) |-> of_get_next_available_child(forest, n, c)]
           S == {c \in Subtree(forest, r) \ {r} :
                    forest.node[c].parent = n /\ "status" \notin PropNames(c)}
<1>1. Shaped(forest) /\ r \in Allocated(forest) /\ forest.node[r].parent = NULL
  BY NodeTypes DEF Sound
<1>2. n \in Allocated(forest) /\ n # NULL /\ o \in Seq(NodeId) /\ Len(o) \in Nat
  <2>1. n \in Allocated(forest)
    BY <1>1, SubtreeFacts
  <2> QED
    BY <1>1, <2>1, NodeTypes
<1>3. \A i, j \in 1 .. Len(o) : o[i] = o[j] => i = j
  BY <1>2 DEF Sound, Neat, ChildrenOnce
<1>4. Len(o) <= N
  BY <1>2, <1>3, ListBounded
<1>5. \A q \in 1 .. Len(o) : o[q] \in Allocated(forest) /\ forest.node[o[q]].parent = n
  BY <1>1, <1>2 DEF Shaped
<1>6. ASSUME NEW c \in Allocated(forest), forest.node[c].parent = n
      PROVE  \E q \in 1 .. Len(o) : o[q] = c
  BY <1>1, <1>2, <1>6 DEF Shaped
<1>7. \A q \in 1 .. Len(o) :
         o[q] \in Subtree(forest, r) \ {r} /\ (q \in Q <=> "status" \notin PropNames(o[q]))
  <2> TAKE q \in 1 .. Len(o)
  <2>1. o[q] \in Allocated(forest) /\ forest.node[o[q]].parent = n
    BY <1>5
  <2>2. o[q] \in Subtree(forest, r) /\ o[q] # r
    BY <1>1, <1>2, <2>1, SubtreeFacts
  <2>3. of_device_is_available(forest, o[q]) <=> "status" \notin PropNames(o[q])
    BY <2>1, AvailableMeans
  <2> QED
    BY <2>2, <2>3
<1>8. S = {o[q] : q \in Q}
  <2>1. ASSUME NEW c \in S PROVE \E q \in Q : c = o[q]
    <3>1. c \in Allocated(forest) /\ forest.node[c].parent = n /\ "status" \notin PropNames(c)
      BY <1>1, <2>1, SubtreeFacts
    <3>2. PICK q \in 1 .. Len(o) : o[q] = c
      BY <1>6, <3>1
    <3>3. q \in Q
      BY <1>7, <3>1, <3>2
    <3> QED
      BY <3>2, <3>3
  <2>2. ASSUME NEW q \in Q PROVE o[q] \in S
    <3>1. q \in 1 .. Len(o)
      OBVIOUS
    <3> QED
      BY <1>5, <1>7, <3>1
  <2> HIDE DEF S, Q, o
  <2> QED
    BY <2>1, <2>2
<1>9. Q \subseteq 1 .. Len(o) /\ \A q \in 1 .. Len(o) : q \in Q <=> of_device_is_available(forest, o[q])
  OBVIOUS
<1>10. AvailableVisited(n) = Visited(first, next)
  BY DEF AvailableVisited
<1>11. of_get_available_child_count(forest, n) = Cardinality(Q)
  BY DEF of_get_available_child_count
<1>12. ASSUME NEW c \in Range(o) PROVE next[c] = of_get_next_available_child(forest, n, c)
  OBVIOUS
<1> HIDE DEF Q, next, S
<1>13. Hop(o, Q, 0, first)
  <2>1. 0 \in 0 .. Len(o) /\ NULL = IF 0 = 0 THEN NULL ELSE o[0]
    BY <1>2
  <2> QED
    BY <1>2, <1>9, <2>1, AvailableHop
<1>14. ASSUME NEW q \in Q PROVE Hop(o, Q, q, next[o[q]])
  <2>1. q \in 1 .. Len(o) /\ q \in 0 .. Len(o) /\ q # 0
    BY <1>2, <1>9
  <2>2. o[q] \in Range(o)
    BY <1>2, <2>1 DEF Range
  <2>3. Hop(o, Q, q, of_get_next_available_child(forest, n, o[q]))
    BY <1>2, <1>9, <2>1, AvailableHop
  <2> QED
    BY <1>12, <2>2, <2>3
<1> HIDE DEF first, o
<1>15. Loop(o, Q, first, next)
  <2>1. 0 \in 0 .. Len(o) /\ \A q \in Q : q > 0
    BY <1>2, <1>9
  <2> QED
    BY <1>2, <1>3, <1>4, <1>9, <1>13, <1>14, <2>1 DEF Loop
<1>16. All(Visited(first, next), {o[q] : q \in Q}) /\ Len(Visited(first, next)) = Cardinality(Q)
  BY <1>15, VisitsAll
<1>17. Len(AvailableVisited(n)) = of_get_available_child_count(forest, n)
  BY <1>10, <1>11, <1>16
<1>18. All(AvailableVisited(n), S)
  BY <1>8, <1>10, <1>16
<1> QED
  BY <1>17, <1>18 DEF S
\* The linear list of each tree holds its nodes in preorder, each once, and the
\* searches that run along it, and the walk over the children of a node, visit
\* all that is meant, once, and end (of_new_node, of_delete_node,
\* of_find_node_by_name, of_find_node_with_property,
\* of_get_next_available_child), for any number of nodes and calls.
THEOREM OrderIsPreorderHolds == TreeSpec => []OrderIsPreorder
<1>1. ASSUME TreeInv, NEW r \in Roots(forest)
      PROVE  SearchesVisitAll(r)
  <2>1. Sound(forest) /\ Shaped(forest)
    BY <1>1 DEF TreeInv, Sound
  <2>2. \A name : All(NamedVisited(r, name),
               {n \in Subtree(forest, r) \ {r} : forest.node[n].name = name})
    BY <2>1, NamedAll
  <2>3. \A name : All(HavingVisited(r, name),
               {n \in Subtree(forest, r) \ {r} : name \in PropNames(n)})
    BY <2>1, HavingAll
  <2>4. \A n \in Subtree(forest, r) :
           /\ Len(AvailableVisited(n)) = of_get_available_child_count(forest, n)
           /\ All(AvailableVisited(n),
                  {c \in Subtree(forest, r) \ {r} :
                      forest.node[c].parent = n /\ "status" \notin PropNames(c)})
    BY <2>1, AvailableAll
  <2> QED
    BY <2>2, <2>3, <2>4 DEF SearchesVisitAll
<1>2. ASSUME TreeInv, NEW r \in Roots(forest), NEW o, o = forest.order[r]
      PROVE  /\ o[1] = r /\ IsInjective(o) /\ Range(o) = Subtree(forest, r)
             /\ \A k \in 2 .. Len(o) :
                   /\ Contains(forest.node[forest.node[o[k]].parent].children, o[k])
                   /\ \E j \in 1 .. k - 1 : o[j] = forest.node[o[k]].parent
             /\ \A i, k \in 1 .. Len(o) : \A j \in i .. k :
                   o[k] \in Subtree(forest, o[i]) => o[j] \in Subtree(forest, o[i])
  <2>1. Sound(forest) /\ Shaped(forest) /\ Listed(forest, r) /\ InOnePiece(forest, r)
    BY <1>2 DEF TreeInv, Sound, Neat, Shaped
  <2>2. o \in Seq(NodeId) /\ Len(o) \in Nat \ {0} /\ DOMAIN o = 1 .. Len(o) /\ o[1] = r
    BY <1>2, <2>1, NodeTypes
  <2>3. IsInjective(o)
    BY <1>2, <2>1, <2>2 DEF IsInjective, Listed
  <2>4. Range(o) = Subtree(forest, r)
    <3>1. \A m : m \in Subtree(forest, r) <=> \E k \in 1 .. Len(o) : o[k] = m
      BY <1>2, <2>1, SubtreeOfRoot
    <3>2. \A m : m \in Range(o) <=> \E k \in 1 .. Len(o) : o[k] = m
      BY <2>2 DEF Range
    <3> QED
      BY <3>1, <3>2
  <2>5. ASSUME NEW k \in 2 .. Len(o)
        PROVE  /\ Contains(forest.node[forest.node[o[k]].parent].children, o[k])
               /\ \E j \in 1 .. k - 1 : o[j] = forest.node[o[k]].parent
    <3>1. PICK j \in 1 .. k - 1 : forest.node[o[k]].parent = o[j]
      BY <1>2, <2>1 DEF Listed
    <3>2. k \in 1 .. Len(o) /\ j \in 1 .. Len(o)
      BY <2>2
    <3>3. o[k] \in Allocated(forest) /\ o[j] \in Allocated(forest)
      BY <1>2, <2>1, <3>2 DEF Listed
    <3>4. forest.node[o[k]].parent # NULL
      BY <2>1, <3>1, <3>3, NodeTypes
    <3>5. Contains(forest.node[forest.node[o[k]].parent].children, o[k])
      BY <2>1, <3>3, <3>4 DEF Shaped, Contains
    <3> QED
      BY <3>1, <3>5
  <2>6. \A i, k \in 1 .. Len(o) : \A j \in i .. k :
           o[k] \in Subtree(forest, o[i]) => o[j] \in Subtree(forest, o[i])
    BY <1>2, <2>1 DEF InOnePiece
  <2> QED
    BY <2>2, <2>3, <2>4, <2>5, <2>6
<1>3. TreeInv => OrderIsPreorder
  BY <1>1, <1>2 DEF OrderIsPreorder
<1> QED
  BY <1>3, TreeInvHolds, PTL

=============================================================================
