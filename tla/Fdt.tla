-------------------------------- MODULE Fdt --------------------------------
(***************************************************************************)
(* Flattened device trees (fdt.c), the form in which trees are read from   *)
(* files and firmware and in which the dtb format stores a state.  A blob  *)
(* is the sequence of the tags of its structure block; an offset into the  *)
(* strings block is the name it leads to.  FdtBuffer is about the memory   *)
(* that a blob is built in.  A tree can also be read from the directories  *)
(* of the kernel (libdt.c), a file per property and a directory per node.  *)
(***************************************************************************)
EXTENDS DeviceTree

BeginNode(name) == [tag |-> "BEGIN_NODE", name |-> name]
EndNode == [tag |-> "END_NODE"]
PropTag(p) == [tag |-> "PROP", prop |-> p]
Nop == [tag |-> "NOP"]
End == [tag |-> "END"]

Concat(ss) == FoldLeft(LAMBDA a, b : a \o b, <<>>, ss)

\* __of_flatten_dtb: the node, its properties, its children, its end.
FlattenNode(f, r) ==
    LET Flat[k \in 0 .. Cardinality(NodeId), n \in Allocated(f)] ==
            <<BeginNode(f.node[n].name)>>
            \o [i \in 1 .. Len(f.node[n].props) |-> PropTag(f.node[n].props[i])]
            \o (IF k = 0 THEN <<>>
                ELSE Concat([i \in 1 .. Len(f.node[n].children) |->
                                Flat[k - 1, f.node[n].children[i]]]))
            \o <<EndNode>>
    IN  Flat[Cardinality(NodeId), r]

of_flatten_dtb(f, r) == Append(FlattenNode(f, r), End)

\* One round of the loop of of_unflatten_dtb.  u.f holds the new tree, whose
\* root is u.root, u.node is the node that is open, u.ret is "more" until the
\* loop ends.
BeginTag(u, t) ==
    IF u.node = NULL THEN [u EXCEPT !.node = u.root]
    ELSE [u EXCEPT !.f = of_new_node(u.f, u.node, t.name), !.node = FreeId(u.f)]

\* Mutant of EndTag: the node stays open.
EndTagStays(u) == IF u.node = NULL THEN [u EXCEPT !.ret = "EINVAL"] ELSE u

EndTag(u) ==
    IF u.node = NULL THEN [u EXCEPT !.ret = "EINVAL"]
    ELSE [u EXCEPT !.node = u.f.node[u.node].parent]

\* A phandle of four bytes is kept in the node too.
PropertyTag(u, t) ==
    LET f == of_new_property(u.f, u.node, t.prop.name, t.prop.val) IN
    [u EXCEPT !.f =
        IF t.prop.name = "phandle" /\ "u32" \in DOMAIN t.prop.val
        THEN [f EXCEPT !.node[u.node].phandle = t.prop.val.u32] ELSE f]

UnflattenTag(u, t) ==
    CASE u.ret # "more" -> u
      [] t.tag = "BEGIN_NODE" -> BeginTag(u, t)
      [] t.tag = "END_NODE" -> EndTag(u)
      [] t.tag = "PROP" -> PropertyTag(u, t)
      [] t.tag = "NOP" -> u
      [] t.tag = "END" -> [u EXCEPT !.ret = "tree"]
      [] OTHER -> [u EXCEPT !.ret = "EINVAL"]

\* of_unflatten_dtb of a blob whose header is in order.  A structure block that
\* ends before FDT_END is followed by bytes of the strings or by nothing.
of_unflatten_dtb(tags) ==
    LET f == of_new_node(EmptyForest, NULL, "/")
        u == FoldLeft(UnflattenTag,
                      [f |-> f, root |-> FreeId(EmptyForest), node |-> NULL,
                       ret |-> "more"],
                      tags)
    IN  IF u.ret = "more" THEN [u EXCEPT !.ret = "ESPIPE"] ELSE u

-----------------------------------------------------------------------------
(* The tree as directories *)

\* The directory of a node has an entry for every property and every child.
Entries_(f, n) == Len(f.node[n].props) + Len(f.node[n].children)

\* What scan_proc_dir meets: readdir has an order of its own, here from the last
\* child to the first property, and of the directory of node n the first reads[n]
\* entries can be read.  It ends at the first that can not; the error of a
\* directory in it is not looked at.
ReadDir(f, r, reads) ==
    LET Dir[k \in 0 .. Cardinality(NodeId), n \in Allocated(f)] ==
            LET files == [i \in DOMAIN f.node[n].props |-> <<PropTag(f.node[n].props[i])>>]
                dirs == IF k = 0 THEN <<>>
                        ELSE [i \in DOMAIN f.node[n].children |->
                                 LET c == f.node[n].children[i] IN
                                 <<BeginNode(f.node[c].name)>> \o Dir[k - 1, c]
                                 \o <<EndNode>>]
            IN  Concat(SubSeq(Reverse(files \o dirs), 1, reads[n]))
    IN  Dir[Cardinality(NodeId), r]

\* A directory begins or ends, or there is a file.
ScanEntry(u, t) ==
    CASE t.tag = "BEGIN_NODE" ->
            [u EXCEPT !.f = of_new_node(u.f, u.node, t.name), !.node = FreeId(u.f)]
      [] t.tag = "END_NODE" -> [u EXCEPT !.node = u.f.node[u.node].parent]
      [] t.tag = "PROP" ->
            LET f == of_new_property(u.f, u.node, t.prop.name, t.prop.val) IN
            [u EXCEPT !.f = IF t.prop.name = "phandle"
                            THEN [f EXCEPT !.node[u.node].phandle = t.prop.val.u32]
                            ELSE f]

scan_proc_dir(u, entries) == FoldLeft(ScanEntry, u, entries)

\* Without a blob: the directory in /sys, and if not all of its own entries can
\* be read the one in /proc, into the same root, which may fail as well.
of_read_proc_devicetree(f, r, sys, proc) ==
    LET root == [f |-> of_new_node(EmptyForest, NULL, "/"), root |-> FreeId(EmptyForest),
                 node |-> FreeId(EmptyForest), ret |-> "tree"]
        u == scan_proc_dir(root, ReadDir(f, r, sys))
    IN  IF sys[r] = Entries_(f, r) THEN u
        ELSE IF proc[r] = Entries_(f, r) THEN scan_proc_dir(u, ReadDir(f, r, proc))
        ELSE [root EXCEPT !.ret = "error"]

-----------------------------------------------------------------------------

\* A tree without the addresses of its nodes.
Shape(f, r) ==
    LET S[k \in 0 .. Cardinality(NodeId), n \in Allocated(f)] ==
            [name |-> f.node[n].name, props |-> f.node[n].props,
             phandle |-> f.node[n].phandle,
             children |-> IF k = 0 THEN <<>>
                          ELSE [i \in 1 .. Len(f.node[n].children) |->
                                   S[k - 1, f.node[n].children[i]]]]
    IN  S[Cardinality(NodeId), r]

SurvivesBlob(r) ==
    LET tags == of_flatten_dtb(forest, r)
        u == of_unflatten_dtb(Concat([k \in DOMAIN tags |-> <<Nop, tags[k]>>]))
    IN  /\ u.ret = "tree" /\ Shape(u.f, u.root) = Shape(forest, r)
        /\ \A k \in 1 .. Len(tags) - 1 :
              of_unflatten_dtb(SubSeq(tags, 1, k)).ret # "tree"

\* Directories have no two entries of one name.
IsDirectory(r) ==
    \A n \in Subtree(forest, r) : of_find_node_by_path_from(forest, r, full_name(forest, n)) = n

\* What is found at a path.
Found(f, r, path) ==
    LET n == of_find_node_by_path_from(f, r, path) IN
    IF n = NULL THEN [there |-> FALSE, props |-> {}, phandle |-> 0]
    ELSE [there |-> TRUE, props |-> Range(f.node[n].props), phandle |-> f.node[n].phandle]

Whole == [n \in Allocated(forest) |-> Entries_(forest, n)]

\* How much of each directory can be read: some of the root, or all but the last
\* entry of another one.  Bound: both scans together fit into NodeId.
Readings(r) ==
    LET below == Subtree(forest, r) \ {r}
        nodes(reads) == Len(SelectSeq(ReadDir(forest, r, reads),
                                      LAMBDA t : t.tag = "BEGIN_NODE"))
    IN  {reads \in {[Whole EXCEPT ![r] = done] : done \in 0 .. Whole[r]} :
            reads = Whole \/ nodes(reads) + Cardinality(below) < Cardinality(NodeId)}
        \cup {[Whole EXCEPT ![n] = @ - 1] : n \in {n \in below : Whole[n] > 0}}

\* What was not read is missing and nothing else: when all that is missing is
\* that the directory of the root was left, the second one makes up for it.
SurvivesDirectory(r) ==
    \A sys \in Readings(r) :
        LET u == of_read_proc_devicetree(forest, r, sys, Whole)
            was(path) == Found(forest, r, path)
            is(path) == Found(u.f, u.root, path)
        IN  IF \A n \in Subtree(forest, r) \ {r} : sys[n] = Whole[n]
            THEN \A n \in Subtree(forest, r) :
                    LET path == full_name(forest, n) IN is(path) = was(path)
            ELSE \A n \in Subtree(u.f, u.root) :
                    LET path == full_name(u.f, n) IN
                    was(path).there /\ is(path).props \subseteq was(path).props

\* Unflattening what was flattened gives the same tree, phandles and the order
\* of children and properties included, also with NOPs in between; a blob that
\* is cut off anywhere is refused, however many nodes it closes.  A tree that is
\* read from directories leads to the same values at every path, whatever order
\* they are read in, and also when the first directory could only be read in
\* part and the second one is read on top of it.  When a directory below it was
\* read in part, of which no error tells, nothing is at a path that was not.
FlattenUnflatten ==
    \A r \in Roots(forest) :
        SurvivesBlob(r) /\ (IsDirectory(r) => SurvivesDirectory(r))
=============================================================================
