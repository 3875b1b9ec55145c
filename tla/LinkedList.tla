----------------------------- MODULE LinkedList -----------------------------
(***************************************************************************)
(* The doubly linked lists of dt/list.h, on which everything else keeps    *)
(* its nodes, properties, variables, buckets and digests.  link holds the  *)
(* pointers of heads and entries; the operators below are the functions of *)
(* the header, assignment by assignment.  lists is what the callers        *)
(* believe the lists to be, as sequences.  A loop over a list may delete   *)
(* entries, as state_release, of_delete_node and of_alias_scan do.         *)
(***************************************************************************)
EXTENDS Naturals, Sequences, FiniteSets, SequencesExt

CONSTANTS
    Head_,      \* list heads
    Entry,      \* list entries
    Key,        \* what list_add_sort compares, for each entry
    POISON      \* LIST_POISON1 and LIST_POISON2

ASSUME ListAssumption ==
    /\ Head_ \cap Entry = {}
    /\ POISON \notin Head_ \cup Entry
    /\ Key \in [Entry -> Nat]

VARIABLES
    link,       \* the pointers next and prev of every head and entry
    lists,      \* history: what each list should hold
    loop        \* a loop list_for_each_entry_safe, or NoLoop

listVars == <<link, lists, loop>>

Cell == Head_ \cup Entry
Pointer == Cell \cup {POISON}

-----------------------------------------------------------------------------
(* The functions of the header *)

INIT_LIST_HEAD(l, c) == [l EXCEPT !.next[c] = c, !.prev[c] = c]

\* __list_add: insert new between two consecutive cells.
ListAddBetween(l, new, prev, next) ==
    LET a == [l EXCEPT !.prev[next] = new]
        b == [a EXCEPT !.next[new] = next, !.prev[new] = prev]
    IN  [b EXCEPT !.next[prev] = new]

list_add(l, new, head) == ListAddBetween(l, new, head, l.next[head])

list_add_tail(l, new, head) == ListAddBetween(l, new, l.prev[head], head)

\* Mutant of ListDelBetween: one direction is forgotten.
ListDelForward(l, prev, next) == [l EXCEPT !.next[prev] = next]

\* __list_del: the neighbours point to each other.
ListDelBetween(l, prev, next) ==
    LET a == [l EXCEPT !.prev[next] = prev] IN [a EXCEPT !.next[prev] = next]

list_del(l, e) ==
    [ListDelBetween(l, l.prev[e], l.next[e]) EXCEPT
        !.next[e] = POISON, !.prev[e] = POISON]

list_del_init(l, e) ==
    INIT_LIST_HEAD(ListDelBetween(l, l.prev[e], l.next[e]), e)

list_replace(l, old, new) ==
    LET a == [l EXCEPT !.next[new] = l.next[old]]
        b == [a EXCEPT !.prev[a.next[new]] = new]
        c == [b EXCEPT !.prev[new] = b.prev[old]]
    IN  [c EXCEPT !.next[c.prev[new]] = new]

list_replace_init(l, old, new) == INIT_LIST_HEAD(list_replace(l, old, new), old)

list_move(l, e, head) ==
    list_add(ListDelBetween(l, l.prev[e], l.next[e]), e, head)

list_move_tail(l, e, head) ==
    list_add_tail(ListDelBetween(l, l.prev[e], l.next[e]), e, head)

list_empty(l, head) == l.next[head] = head

list_is_last(l, e, head) == l.next[e] = head

list_is_singular(l, head) ==
    ~list_empty(l, head) /\ l.next[head] = l.prev[head]

\* __list_splice: the entries of list go between head and what follows it.
ListSpliceNonempty(l, list, head) ==
    LET first == l.next[list]
        last == l.prev[list]
        at == l.next[head]
        a == [l EXCEPT !.prev[first] = head]
        b == [a EXCEPT !.next[head] = first]
        c == [b EXCEPT !.next[last] = at]
    IN  [c EXCEPT !.prev[at] = last]

\* list_splice leaves the pointers of list as they are: only a list that is
\* not used any more may be spliced with it.
list_splice_init(l, list, head) ==
    IF list_empty(l, list) THEN l
    ELSE INIT_LIST_HEAD(ListSpliceNonempty(l, list, head), list)

\* Where list_add_sort stops: the first cell behind the head that is the head
\* again or an entry whose key is not below that of new.
InsertPos(l, new, head) ==
    LET Pos[k \in 0 .. Len(lists[head])] ==
            IF k = 0 THEN l.next[head]
            ELSE IF Pos[k - 1] # head /\ Key[Pos[k - 1]] < Key[new]
                   THEN l.next[Pos[k - 1]]
                   ELSE Pos[k - 1]
    IN  Pos[Len(lists[head])]

list_add_sort(l, new, head) == list_add_tail(l, new, InsertPos(l, new, head))

-----------------------------------------------------------------------------
(* Calls.  An entry is in one list at most; what a list held is replaced    *)
(* and moved within or between lists.                                       *)

NoLoop == [head |-> POISON, pos |-> POISON, n |-> POISON,
           todo |-> <<>>, seen |-> <<>>]

Members(h) == {lists[h][k] : k \in 1 .. Len(lists[h])}
Free == {e \in Entry : \A h \in Head_ : e \notin Members(h)}
Without(s, e) == RemoveAt(s, CHOOSE k \in DOMAIN s : s[k] = e)

Sorted(h) == \A j, k \in 1 .. Len(lists[h]) :
                j < k => Key[lists[h][j]] <= Key[lists[h][k]]

\* The places of the entries of a list that belong before e.
Lower(e, h) == {k \in 1 .. Len(lists[h]) : Key[lists[h][k]] < Key[e]}

Idle == loop = NoLoop /\ UNCHANGED loop

Add(e, h) ==
    /\ Idle /\ e \in Free
    /\ link' = list_add(link, e, h)
    /\ lists' = [lists EXCEPT ![h] = <<e>> \o @]

AddTail(e, h) ==
    /\ Idle /\ e \in Free
    /\ link' = list_add_tail(link, e, h)
    /\ lists' = [lists EXCEPT ![h] = Append(@, e)]

AddSort(e, h) ==
    /\ Idle /\ e \in Free /\ Sorted(h)
    /\ link' = list_add_sort(link, e, h)
    /\ lists' = [lists EXCEPT ![h] = InsertAt(@, Cardinality(Lower(e, h)) + 1, e)]

Del(e, h) ==
    /\ Idle /\ e \in Members(h)
    /\ \/ link' = list_del(link, e)
       \/ link' = list_del_init(link, e)
    /\ lists' = [lists EXCEPT ![h] = Without(@, e)]

Replace(e, new, h) ==
    /\ Idle /\ e \in Members(h) /\ new \in Free
    /\ \/ link' = list_replace(link, e, new)
       \/ link' = list_replace_init(link, e, new)
    /\ lists' = [lists EXCEPT ![h] =
                    [k \in 1 .. Len(@) |-> IF @[k] = e THEN new ELSE @[k]]]

Move(e, from, h) ==
    /\ Idle /\ e \in Members(from)
    /\ LET gone == [lists EXCEPT ![from] = Without(@, e)] IN
       \/ /\ link' = list_move(link, e, h)
          /\ lists' = [gone EXCEPT ![h] = <<e>> \o @]
       \/ /\ link' = list_move_tail(link, e, h)
          /\ lists' = [gone EXCEPT ![h] = Append(@, e)]

Splice(list, h) ==
    /\ Idle /\ list # h
    /\ link' = list_splice_init(link, list, h)
    /\ lists' = [lists EXCEPT ![list] = <<>>, ![h] = lists[list] \o @]

-----------------------------------------------------------------------------
(* list_for_each_entry_safe, whose body may delete the entry it is at.      *)

LoopBegin(h) ==
    /\ loop = NoLoop
    /\ loop' = [head |-> h, pos |-> link.next[h], n |-> link.next[link.next[h]],
                todo |-> lists[h], seen |-> <<>>]
    /\ UNCHANGED <<link, lists>>

\* Mutant of AdvanceSafe: list_for_each_entry reads next after the body.
AdvanceUnsafe(l) == <<l.next[loop.pos], loop.n>>

\* pos = n, n = n->next
AdvanceSafe(l) == <<loop.n, l.next[loop.n]>>

\* One body, with or without list_del, and the step to the next entry.
LoopStep(del) ==
    /\ loop # NoLoop /\ loop.pos # loop.head
    /\ LET h == loop.head
           l == IF del THEN list_del(link, loop.pos) ELSE link IN
       /\ link' = l
       /\ lists' = IF del THEN [lists EXCEPT ![h] = Without(@, loop.pos)]
                          ELSE lists
       /\ loop' = [loop EXCEPT !.pos = AdvanceSafe(l)[1], !.n = AdvanceSafe(l)[2],
                               !.seen = Append(@, loop.pos)]

LoopEnd ==
    /\ loop # NoLoop /\ loop.pos = loop.head
    /\ loop' = NoLoop
    /\ UNCHANGED <<link, lists>>

ListInit ==
    /\ link = [next |-> [c \in Cell |-> IF c \in Head_ THEN c ELSE POISON],
               prev |-> [c \in Cell |-> IF c \in Head_ THEN c ELSE POISON]]
    /\ lists = [h \in Head_ |-> <<>>]
    /\ loop = NoLoop

ListNext ==
    \/ \E h \in Head_ :
        \/ LoopBegin(h)
        \/ \E e \in Entry : Add(e, h) \/ AddTail(e, h) \/ AddSort(e, h) \/ Del(e, h)
        \/ \E e, new \in Entry : Replace(e, new, h)
        \/ \E from \in Head_ : Splice(from, h) \/ \E e \in Entry : Move(e, from, h)
    \/ \E del \in BOOLEAN : LoopStep(del)
    \/ LoopEnd

ListSpec == ListInit /\ [][ListNext]_listVars

-----------------------------------------------------------------------------

ListTypeOK ==
    /\ link \in [next : [Cell -> Pointer], prev : [Cell -> Pointer]]
    /\ lists \in [Head_ -> Seq(Entry)]
    /\ loop.pos \in Pointer /\ loop.n \in Pointer

\* The head followed by the entries, which next and prev go round.
Ring(h) == <<h>> \o lists[h]

\* After any sequence of calls next and prev go round exactly the entries a
\* list should hold, in opposite directions, and the tests of the header say
\* what they are named for: no call loses, duplicates or strands an entry, also
\* at the ends of a list, for a neighbour of itself, or between two lists.
Represents ==
    /\ ListTypeOK
    /\ \A h \in Head_ :
        LET r == Ring(h) IN
        /\ \A k \in 1 .. Len(r) :
              LET follower == r[(k % Len(r)) + 1] IN
              /\ link.next[r[k]] = follower
              /\ link.prev[follower] = r[k]
              /\ list_is_last(link, r[k], h) <=> k = Len(r)
        /\ list_empty(link, h) <=> lists[h] = <<>>
        /\ list_is_singular(link, h) <=> Len(lists[h]) = 1

\* A loop of the safe kind comes past every entry once and in order, whatever
\* its body deletes, and never follows the pointer of a deleted entry.
LoopVisitsAll ==
    loop # NoLoop =>
        /\ loop.pos \in Cell
        /\ loop.seen = SubSeq(loop.todo, 1, Len(loop.seen))
        /\ loop.pos = loop.head <=> loop.seen = loop.todo
=============================================================================
