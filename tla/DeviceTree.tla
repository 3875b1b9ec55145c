----------------------------- MODULE DeviceTree -----------------------------
(***************************************************************************)
(* The device tree library (libdt.c): trees of nodes with properties,      *)
(* phandles, aliases, and the one tree that is root_node.  A node is in    *)
(* two lists: the children of its parent, and the linear list of its tree, *)
(* on which all searches run.  Identifiers of nodes stand for addresses:   *)
(* one that is freed may be given out again.  Module LinkedList shows that *)
(* the lists can be taken for sequences.                                   *)
(***************************************************************************)
EXTENDS Naturals, Sequences, SequencesExt, FiniteSetsExt

CONSTANTS
    NodeId,      \* addresses of nodes
    NodeName,    \* names of nodes, "aliases" among them
    AliasName,   \* names of properties; those of /aliases are the aliases
    NoAlias,     \* names that are none: "name", "linux,phandle", or with a number
                 \* behind them that is no int
    Paths,       \* the paths that properties hold and callers ask for
    MaxHandle,   \* bound on the phandles that are given out
    MaxTrees,    \* bound on the trees that exist at once
    MaxCalls,    \* bound on the calls of one process
    Described,   \* bound: names of the nodes whose properties are written
    NULL

ASSUME TreeAssumption ==
    /\ NodeId \subseteq Nat \ {0} /\ IsFiniteSet(NodeId) /\ NULL \notin NodeId
    /\ "phandle" \notin AliasName   \* that one is of_node_create_phandle's
    /\ Paths \subseteq Seq(NodeName) /\ Described \subseteq NodeName
    /\ MaxHandle \in Nat /\ MaxTrees \in Nat /\ MaxCalls \in Nat

VARIABLES
    forest,      \* the nodes that are allocated, and their lists
    root_node,
    of_aliases,
    aliases_lookup,
    calls        \* the calls so far

treeVars == <<forest, root_node, of_aliases, aliases_lookup, calls>>

-----------------------------------------------------------------------------
(* Values of properties: a path, a phandle, or a status *)

PathVal(p) == [path |-> p]
HandleVal(n) == [u32 |-> n]
StatusVal(s) == [status |-> s]
Prop(name, val) == [name |-> name, val |-> val]

\* of_find_property: the first of the name, or none.
of_find_property(f, n, name) ==
    SelectInSeq(f.node[n].props, LAMBDA p : p.name = name)

of_get_property(f, n, name) == f.node[n].props[of_find_property(f, n, name)].val

\* of_delete_property and of_new_property: the new one is the last.
DropProperty(s, name) == RemoveAt(s, SelectInSeq(s, LAMBDA p : p.name = name))

of_delete_property(f, n, name) ==
    IF of_find_property(f, n, name) = 0 THEN f
    ELSE [f EXCEPT !.node[n].props = DropProperty(@, name)]

of_new_property(f, n, name, val) ==
    [f EXCEPT !.node[n].props = Append(@, Prop(name, val))]

of_set_property(f, n, name, val) ==
    of_new_property(of_delete_property(f, n, name), n, name, val)

-----------------------------------------------------------------------------
(* Nodes *)

EmptyForest == [node |-> <<>>, order |-> <<>>]

Allocated(f) == DOMAIN f.node
FreeId(f) == Min(NodeId \ Allocated(f))
Roots(f) == DOMAIN f.order

\* of_find_root_node: up to the node that has no parent.
Above(f, n) == IF f.node[n].parent = NULL THEN n ELSE f.node[n].parent

WayUp(f, n) ==
    LET Up[k \in 0 .. Cardinality(NodeId)] ==
            IF k = 0 THEN n ELSE Above(f, Up[k - 1])
    IN  Up

of_find_root_node(f, n) == WayUp(f, n)[Cardinality(NodeId)]

\* node->full_name, as the sequence of names below the root.
Depth(f, n) ==
    Min({k \in 0 .. Cardinality(NodeId) : f.node[WayUp(f, n)[k]].parent = NULL})

full_name(f, n) ==
    [k \in 1 .. Depth(f, n) |-> f.node[WayUp(f, n)[Depth(f, n) - k]].name]

\* The linear list of the tree, beginning with its root.
Order(f, n) == f.order[of_find_root_node(f, n)]

\* Mutant of LinkAfterParent: list_add_tail.
LinkBeforeParent(s, parent, new) ==
    IF s[1] = parent THEN Append(s, new)
    ELSE InsertAt(s, SelectInSeq(s, LAMBDA x : x = parent), new)

\* list_add(&node->list, &parent->list)
LinkAfterParent(s, parent, new) ==
    InsertAt(s, SelectInSeq(s, LAMBDA x : x = parent) + 1, new)

of_new_node(f, parent, name) ==
    LET n == FreeId(f)
        fresh == [parent |-> parent, name |-> name, children |-> <<>>,
                  props |-> <<>>, phandle |-> 0]
        node == [m \in Allocated(f) \cup {n} |->
                    IF m = n THEN fresh ELSE f.node[m]]
    IN  IF parent = NULL
        THEN [node |-> node,
              order |-> [m \in Roots(f) \cup {n} |->
                            IF m = n THEN <<n>> ELSE f.order[m]]]
        ELSE [node |-> [node EXCEPT ![parent].children = Append(@, n)],
              order |-> [f.order EXCEPT ![of_find_root_node(f, parent)] =
                            LinkAfterParent(@, parent, n)]]

\* of_get_child_by_name: the first child of the name, or NULL.
of_get_child_by_name(f, n, name) ==
    LET c == f.node[n].children
        k == SelectInSeq(c, LAMBDA m : f.node[m].name = name)
    IN  IF k = 0 THEN NULL ELSE c[k]

\* of_find_node_by_path_from: one name of the path, and the whole of it.
StepDown(f, n, name) == IF n = NULL THEN NULL ELSE of_get_child_by_name(f, n, name)

of_find_node_by_path_from(f, from, path) ==
    LET At[k \in 0 .. Len(path)] ==
            IF k = 0 THEN from ELSE StepDown(f, At[k - 1], path[k])
    IN  At[Len(path)]

of_find_node_by_path(f, path) == of_find_node_by_path_from(f, root_node, path)

\* of_create_node: what is missing along the path is made.
MakeStep(s, name) ==
    LET c == of_get_child_by_name(s.f, s.dn, name) IN
    IF c # NULL THEN [f |-> s.f, dn |-> c]
    ELSE [f |-> of_new_node(s.f, s.dn, name), dn |-> FreeId(s.f)]

of_create_node(f, from, path) ==
    LET Made[k \in 0 .. Len(path)] ==
            IF k = 0 THEN [f |-> f, dn |-> from] ELSE MakeStep(Made[k - 1], path[k])
    IN  Made[Len(path)].f

\* The node and all below it.
Subtree(f, n) ==
    {m \in Allocated(f) : \E k \in 0 .. Cardinality(NodeId) : WayUp(f, m)[k] = n}

\* What is left of a list after list_del of the members of gone.
Rest(s, gone) ==
    LET Left[k \in 0 .. Len(s)] ==
            IF k = 0 THEN <<>>
            ELSE IF s[k] \in gone THEN Left[k - 1] ELSE Append(Left[k - 1], s[k])
    IN  Left[Len(s)]

\* of_delete_node: the properties, the children in turn, then the node itself
\* is taken out of both lists.
of_delete_node(f, n) ==
    LET gone == Subtree(f, n)
        p == f.node[n].parent
        r == of_find_root_node(f, n)
        node == [m \in Allocated(f) \ gone |->
                    IF m = p THEN [f.node[m] EXCEPT !.children = Rest(@, {n})]
                    ELSE f.node[m]]
    IN  [node |-> node,
         order |-> [m \in Roots(f) \ gone |->
                       IF m = r THEN Rest(f.order[r], gone) ELSE f.order[m]]]

-----------------------------------------------------------------------------
(* Availability *)

of_device_enable(f, n) == of_delete_property(f, n, "status")

of_device_disable(f, n) == of_set_property(f, n, "status", StatusVal("disabled"))

of_device_is_available(f, n) ==
    \/ of_find_property(f, n, "status") = 0
    \/ of_get_property(f, n, "status") \in {StatusVal("okay"), StatusVal("ok")}

\* of_get_next_available_child: the first one that is not disabled behind prev,
\* or of all children if prev is NULL.
of_get_next_available_child(f, n, prev) ==
    LET c == f.node[n].children
        s == SubSeq(c, SelectInSeq(c, LAMBDA x : x = prev) + 1, Len(c))
        k == SelectInSeq(s, LAMBDA x : of_device_is_available(f, x))
    IN  IF k = 0 THEN NULL ELSE s[k]

of_get_available_child_count(f, n) ==
    LET c == f.node[n].children IN
    Cardinality({k \in 1 .. Len(c) : of_device_is_available(f, c[k])})

-----------------------------------------------------------------------------
(* Searches *)

\* of_tree_for_each_node_from: the nodes behind n in the linear list, until
\* the list is back at the root.
NodesBehind(f, n) ==
    LET o == Order(f, n) IN SubSeq(o, SelectInSeq(o, LAMBDA x : x = n) + 1, Len(o))

FirstBehind(f, from, P(_)) ==
    LET s == NodesBehind(f, from)
        k == SelectInSeq(s, P)
    IN  IF k = 0 THEN NULL ELSE s[k]

of_find_node_by_name(f, from, name) ==
    FirstBehind(f, from, LAMBDA n : f.node[n].name = name)

of_find_node_with_property(f, from, name) ==
    FirstBehind(f, from, LAMBDA n : of_find_property(f, n, name) # 0)

of_find_node_by_phandle(f, handle) ==
    FirstBehind(f, root_node, LAMBDA n : f.node[n].phandle = handle)

\* Mutant of of_get_tree_max_phandle: without the node the loop starts from.
MaxBehindRoot(f, r) ==
    Max({0} \cup {f.node[n].phandle : n \in Range(NodesBehind(f, r))})

of_get_tree_max_phandle(f, r) ==
    Max({f.node[r].phandle} \cup {f.node[n].phandle : n \in Range(NodesBehind(f, r))})

of_node_create_phandle(f, n) ==
    LET p == of_get_tree_max_phandle(f, of_find_root_node(f, n)) + 1 IN
    IF f.node[n].phandle # 0 THEN f
    ELSE of_set_property([f EXCEPT !.node[n].phandle = p], n, "phandle",
                         HandleVal(p))

-----------------------------------------------------------------------------
(* Aliases *)

IsPath(v) == "path" \in DOMAIN v

\* of_find_node_by_path of the value of a property; a phandle does not begin
\* with a slash.
NodeAtValue(f, r, v) ==
    IF IsPath(v) THEN of_find_node_by_path_from(f, r, v.path) ELSE NULL

\* The entries that of_alias_scan adds for the properties of /aliases whose path
\* leads to a node.  They outlive that node.
ScannedAliases(f, r) ==
    LET a == of_find_node_by_path_from(f, r, <<"aliases">>) IN
    IF a = NULL THEN <<>>
    ELSE SelectSeq([k \in 1 .. Len(f.node[a].props) |->
                       LET p == f.node[a].props[k] IN
                       [alias |-> p.name,
                        np |-> IF p.name \in NoAlias \cup {"phandle"} THEN NULL
                               ELSE NodeAtValue(f, r, p.val)]],
                   LAMBDA e : e.np # NULL)

\* of_alias_scan: the table is made anew.  Without /aliases of_aliases becomes
\* NULL; without a root it keeps its old value.
of_alias_scan(f, r) ==
    /\ aliases_lookup' = IF r = NULL THEN <<>> ELSE ScannedAliases(f, r)
    /\ of_aliases' = IF r = NULL THEN of_aliases
                     ELSE of_find_node_by_path_from(f, r, <<"aliases">>)

\* Mutant of of_alias_get: the value only has to begin with the full name.
AliasGetPrefix(f, n) ==
    SelectInSeq(f.node[of_aliases].props,
                LAMBDA p : IsPath(p.val) /\ IsPrefix(full_name(f, n), p.val.path))

\* of_alias_get: the first property of of_aliases whose value is the full name.
of_alias_get(f, n) ==
    SelectInSeq(f.node[of_aliases].props,
                LAMBDA p : p.val = PathVal(full_name(f, n)))

of_find_node_by_alias(f, r, alias) ==
    LET a == of_find_node_by_path_from(f, r, <<"aliases">>) IN
    IF a = NULL \/ of_find_property(f, a, alias) = 0 THEN NULL
    ELSE NodeAtValue(f, r, of_get_property(f, a, alias))

-----------------------------------------------------------------------------
(* Calls *)

Only(f) == forest' = f /\ UNCHANGED <<root_node, of_aliases, aliases_lookup>>

NewRoot ==
    /\ NodeId # Allocated(forest)
    /\ Cardinality(Roots(forest)) < MaxTrees
    /\ Only(of_new_node(forest, NULL, "/"))

NewNode(parent, name) ==
    /\ NodeId # Allocated(forest)
    /\ Only(of_new_node(forest, parent, name))

CreateNode(r, path) ==
    /\ Cardinality(NodeId \ Allocated(forest)) >= Len(path)
    /\ Only(of_create_node(forest, r, path))

\* of_set_property; without create an absent property is -ENOENT.
SetProperty(n, name, val, create) ==
    /\ forest.node[n].name \in Described
    /\ create \/ of_find_property(forest, n, name) # 0
    /\ Only(of_set_property(forest, n, name, val))

DeleteProperty(n, name) ==
    /\ of_find_property(forest, n, name) # 0
    /\ Only(of_delete_property(forest, n, name))

CreatePhandle(n) ==
    /\ of_get_tree_max_phandle(forest, of_find_root_node(forest, n)) < MaxHandle
    /\ Only(of_node_create_phandle(forest, n))

\* of_device_enable and of_device_disable; bounded to the nodes whose other
\* properties stay.
Enable(n) ==
    /\ forest.node[n].name \notin Described
    /\ of_find_property(forest, n, "status") # 0
    /\ Only(of_device_enable(forest, n))

Disable(n) ==
    /\ forest.node[n].name \notin Described
    /\ Only(of_device_disable(forest, n))

\* of_set_root_node; -EBUSY while there is a root.
SetRoot(r) ==
    /\ root_node = NULL
    /\ root_node' = r /\ of_alias_scan(forest, r)
    /\ UNCHANGED forest

\* of_delete_node.  Deleting the root ends in of_set_root_node(NULL).
DeleteNode(n) ==
    /\ forest' = of_delete_node(forest, n)
    /\ IF n = root_node THEN root_node' = NULL /\ of_alias_scan(forest', NULL)
       ELSE UNCHANGED <<root_node, of_aliases, aliases_lookup>>

TreeInit ==
    /\ forest = EmptyForest
    /\ root_node = NULL /\ of_aliases = NULL /\ aliases_lookup = <<>> /\ calls = 0

Call ==
    \/ NewRoot
    \/ \E n \in Allocated(forest) :
        \/ \E name \in NodeName : NewNode(n, name)
        \/ \E name \in AliasName :
            \/ DeleteProperty(n, name)
            \/ \E p \in Paths, create \in BOOLEAN :
                 SetProperty(n, name, PathVal(p), create)
        \/ CreatePhandle(n) \/ Enable(n) \/ Disable(n)
        \/ DeleteNode(n)
    \/ \E r \in Roots(forest) :
        \/ SetRoot(r)
        \/ \E p \in Paths : CreateNode(r, p)

\* The process exits and another one begins.
Restart ==
    /\ forest' = EmptyForest /\ calls' = 0
    /\ root_node' = NULL /\ of_aliases' = NULL /\ aliases_lookup' = <<>>

TreeNext ==
    \/ calls < MaxCalls /\ calls' = calls + 1 /\ Call
    \/ Restart

TreeSpec == TreeInit /\ [][TreeNext]_treeVars

-----------------------------------------------------------------------------

PropNames(n) == {forest.node[n].props[k].name : k \in DOMAIN forest.node[n].props}

\* What a loop visits that continues from the node it found last, until there
\* is none.
Onward(next, n) == IF n = NULL THEN NULL ELSE next[n]

Visited(first, next) ==
    LET At[k \in 0 .. Cardinality(NodeId)] ==
            IF k = 0 THEN first ELSE Onward(next, At[k - 1])
        end == {k \in 0 .. Cardinality(NodeId) : At[k] = NULL}
    IN  [k \in 1 .. Min(end \cup {Cardinality(NodeId)}) |-> At[k - 1]]

All(s, S) == IsInjective(s) /\ Range(s) = S

\* A search by name visits each node of the name below the root once, one for
\* a property each node that has it, and a walk over the children each child
\* that is not disabled.
NamedVisited(r, name) ==
    Visited(of_find_node_by_name(forest, r, name),
            [n \in Subtree(forest, r) |-> of_find_node_by_name(forest, n, name)])

HavingVisited(r, name) ==
    Visited(of_find_node_with_property(forest, r, name),
            [n \in Subtree(forest, r) |-> of_find_node_with_property(forest, n, name)])

AvailableVisited(n) ==
    Visited(of_get_next_available_child(forest, n, NULL),
            [c \in Range(forest.node[n].children) |->
                of_get_next_available_child(forest, n, c)])

SearchesVisitAll(r) ==
    LET below == Subtree(forest, r) \ {r} IN
    /\ \A name \in NodeName :
          All(NamedVisited(r, name), {n \in below : forest.node[n].name = name})
    /\ \A name \in AliasName \cup {"status", "phandle"} :
          All(HavingVisited(r, name), {n \in below : name \in PropNames(n)})
    /\ \A n \in Subtree(forest, r) :
          /\ Len(AvailableVisited(n)) = of_get_available_child_count(forest, n)
          /\ All(AvailableVisited(n),
                 {c \in below : /\ forest.node[c].parent = n
                                /\ "status" \notin PropNames(c)})

\* Every tree's linear list holds its nodes, each once, the root first, every
\* other node behind its parent and with its whole subtree in one piece, also
\* after nodes were deleted and their memory was used again: a search that
\* continues from the node it found last misses nothing and ends.
OrderIsPreorder ==
    \A r \in Roots(forest) :
        LET o == forest.order[r] IN
        /\ SearchesVisitAll(r)
        /\ o[1] = r /\ IsInjective(o)
        /\ Range(o) = Subtree(forest, r)
        /\ \A k \in 2 .. Len(o) :
              /\ Contains(forest.node[forest.node[o[k]].parent].children, o[k])
              /\ \E j \in 1 .. k - 1 : o[j] = forest.node[o[k]].parent
        /\ \A i, k \in 1 .. Len(o) : \A j \in i .. k :
              o[k] \in Subtree(forest, o[i]) => o[j] \in Subtree(forest, o[i])

\* Phandles are unique within a tree, agree with the property of that name,
\* and lead back to their node, the root left aside, which no search returns.
PhandlesUnique ==
    \A n \in Allocated(forest) : forest.node[n].phandle # 0 =>
        /\ of_get_property(forest, n, "phandle") = HandleVal(forest.node[n].phandle)
        /\ \A m \in Subtree(forest, of_find_root_node(forest, n)) :
              forest.node[m].phandle = forest.node[n].phandle => m = n
        /\ of_find_root_node(forest, n) = root_node /\ n # root_node =>
              of_find_node_by_phandle(forest, forest.node[n].phandle) = n

\* In the tree at r no two children of a node have the same name.
SiblingsDiffer(r) ==
    \A n \in Subtree(forest, r) :
        \A c, d \in Range(forest.node[n].children) :
            forest.node[c].name = forest.node[d].name => c = d

\* The alias that of_alias_get finds for a node leads of_find_node_by_alias
\* back to that very node, in a tree whose siblings differ in name: the name
\* under which a state is registered is one under which it is found again.
\* (of_new_node does not ask for it; a path through the second of two siblings
\* of one name ends in the first.)
AliasLeadsBack ==
    LET a == of_find_node_by_path(forest, <<"aliases">>) IN
    root_node # NULL /\ SiblingsDiffer(root_node) /\ a # NULL /\ a = of_aliases =>
        \A n \in Subtree(forest, root_node) :
            LET k == of_alias_get(forest, n) IN
            k # 0 => of_find_node_by_alias(forest, root_node,
                                           forest.node[a].props[k].name) = n
=============================================================================
