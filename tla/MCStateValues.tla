-------------------------- MODULE MCStateValues --------------------------
(* Twelve device trees for StateVariables, with bytes of two bits, words    *)
(* and MAC addresses of two bytes: updates of one another that append or    *)
(* change variables, one whose variables end above the bits of data_len,    *)
(* one of another magic, and five that are refused.                         *)
EXTENDS StateVariables

Node(name, type, start, size, default) ==
    [name |-> name, type |-> type, leaf |-> TRUE, reg |-> TRUE, start |-> start,
     size |-> size, names |-> NONE, default |-> default, value |-> NONE]

A == Node("a", "uint8", 0, 1, 1)
AWide == Node("a", "uint8", 0, 1, 6)
B == Node("b", "uint32", 1, 2, NONE)
C == [Node("c", "enum32", 3, 2, 1) EXCEPT !.names = <<"p", "q">>]
CMore == [C EXCEPT !.names = <<"p", "q", "r">>]
M == Node("m", "mac", 3, 2, <<0, 2>>)
S == Node("s", "string", 5, 2, <<1>>)
G == [Node("g", NONE, 0, 0, NONE) EXCEPT !.leaf = FALSE]

Tree(nodes) == [magic |-> 1, nodes |-> nodes]

Trees ==
    { Tree(<<B, A>>),                               \* out of order
      Tree(<<A, B, CMore>>),                        \* appends an enum
      Tree(<<C, G, B, S>>),                         \* shorter enum, a string
      Tree(<<AWide, M>>),                           \* default does not fit
      [magic |-> 0, nodes |-> <<M, Node("e", "string", 5, 0, NONE)>>],
      [magic |-> 2, nodes |-> <<A>>],               \* somebody else's
      Tree(<<A, Node("w", "uint8", 8, 1, 2)>>),     \* ends above data_len
      Tree(<<B, Node("d", "uint8", 2, 1, 0)>>),     \* overlap
      Tree(<<Node("e", "string", 0, 0, NONE), A>>), \* size 0 at offset 0
      Tree(<<[A EXCEPT !.size = 2]>>),              \* size mismatch
      Tree(<<[C EXCEPT !.default = BAD]>>),         \* property too short
      Tree(<<S, Node("u", "uint64", 1, 2, NONE)>>) }   \* unknown type

\* By way of a definition without parameters, which TLC evaluates and puts into
\* normal form before its workers start.  Otherwise it enumerates Schema for the
\* actions of VarsNext as it is, and the workers share nodes whose fields one of
\* them sorts while another one reads them.
MCSchema == Trees

MCJunk == {<<1>>, <<2, 2, 2>>}

Plain(x) == [x |-> x, canonical |-> TRUE]

MCInput(type) ==
    CASE type \in {"uint8", "uint32"} -> {Plain(2), Plain(18), [x |-> 2, canonical |-> FALSE]}
      [] type = "enum32" -> {Plain("q"), Plain("r"), Plain("z")}
      [] type = "mac" -> {Plain(<<3, 1>>), Plain(BAD)}
      [] type = "string" -> {Plain(<<>>), Plain(<<2, 3>>), Plain(<<1, 1, 1>>)}
=============================================================================
