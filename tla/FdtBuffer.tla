----------------------------- MODULE FdtBuffer -----------------------------
(***************************************************************************)
(* The two buffers in which of_flatten_dtb builds a blob (fdt.c): the      *)
(* structure block and the strings.  Neither is ever tested while it is    *)
(* written; fdt_ensure_space doubles a buffer beforehand.  __of_flatten_dtb *)
(* also holds a pointer into the structure block while it adds a string,   *)
(* which may double, and so move, both buffers.  An offset that is taken   *)
(* below 0, to the end of the uint32_t, is a negative number here.         *)
(***************************************************************************)
EXTENDS Integers

CONSTANTS
    BUFSIZE,     \* first size of both buffers
    Slack,       \* the 1024 bytes that fdt_ensure_space keeps free
    Reserve,     \* header and reserve map in front of the structure block
    MaxName,     \* 1024, from which on lstrcpy takes no name
    ENOSPC,      \* the number of the error it returns instead, negated
    NameLens,    \* lengths of names of nodes and properties
    PropLens,    \* lengths of values
    MaxSize,     \* bound on the size of the structure block
    MaxReserve   \* OF_MAX_RESERVE_MAP

ASSUME BufferAssumption ==
    /\ BUFSIZE \in Nat /\ Slack \in Nat /\ Reserve \in Nat /\ MaxSize \in Nat
    /\ MaxName \in Nat /\ ENOSPC \in Nat
    /\ NameLens \subseteq Nat /\ PropLens \subseteq Nat
    /\ Reserve + Slack <= BUFSIZE /\ 20 <= Slack
    /\ Reserve % 4 = 0 /\ BUFSIZE % 4 = 0
    /\ MaxReserve \in Nat /\ 2 <= MaxReserve

VARIABLES
    dt,          \* the structure block: size and dt_nextofs
    strings,     \* the strings: size and str_nextofs
    depth,       \* nodes that are open
    stage,       \* what of_flatten_dtb is at, or what is done with the blob
    over,        \* history of the blob: a write went past the end of its buffer
    stale,       \* history: a pointer was used after its buffer had moved
    spoilt,      \* history: the offset went back, or a name has none
    unended,     \* history: no zero was behind a name, or it is left to chance
    long,        \* history: a name or a value was longer than allowed for
    reserved     \* of_reserve_map.num_entries

bufferVars ==
    <<dt, strings, depth, stage, over, stale, spoilt, unended, long, reserved>>

-----------------------------------------------------------------------------

\* dt_next_ofs: the next multiple of four.
dt_next_ofs(ofs, len) == ((ofs + len + 3) \div 4) * 4

\* The space left is an unsigned difference.
Grown(b, need) ==
    IF b.next <= b.size /\ b.size - b.next < need THEN [b EXCEPT !.size = 2 * @] ELSE b

\* Mutant of EnsureDt: without the size of the property.
EnsureDtSlackOnly(b, dtsize) == Grown(b, Slack)

\* fdt_ensure_space: each buffer is doubled at most once.
EnsureDt(b, dtsize) == Grown(b, Slack + dtsize)
EnsureStrings(s) == Grown(s, Slack)

Put(b, len) == [b EXCEPT !.next = dt_next_ofs(@, len)]
Fits(b, len) == 0 <= b.next /\ b.next + len <= b.size

\* lstrcpy: what it returns, and the bytes that it has written by then, which
\* are never followed by a zero.
lstrcpy(name) == IF name < MaxName THEN name ELSE 0 - ENOSPC
Written(name) == IF name < MaxName THEN name ELSE MaxName

\* Behind a name is the zero that the buffer was allocated with, as long as
\* the name ends in what was there before realloc.
ZeroAt(ofs) == ofs < BUFSIZE

\* dt_add_string gives an error as the offset of a name that is too long.
dt_add_string(s, name) ==
    IF name < MaxName THEN [s EXCEPT !.next = @ + name + 1] ELSE s
NameOfs(s, name) == IF name < MaxName THEN s.next ELSE 0 - ENOSPC

\* What 1024 bytes, less the tags around it, and one doubling make room for.
LongName(name) == name + 12 > Slack \/ name >= MaxName
LongValue(len) == len + Slack > BUFSIZE

\* Bounds: the tree is not followed any further once a write went wrong.
WrittenWell == ~over /\ ~stale /\ ~spoilt

\* __of_flatten_dtb begins a node: tag and name, whose length is not checked.
FlattenBegin(name) ==
    LET b == EnsureDt(dt, 0) IN
    /\ stage = "walk" /\ (depth = 0 => dt.next = Reserve)
    /\ dt.next + Slack < MaxSize /\ WrittenWell
    /\ dt' = Put(b, 4 + lstrcpy(name) + 1) /\ strings' = EnsureStrings(strings)
    /\ over' = (over \/ ~Fits(b, 4 + Written(name)))
    /\ spoilt' = (spoilt \/ dt'.next < dt.next)
    /\ unended' = (unended \/ ~ZeroAt(b.next + 4 + name))
    /\ long' = (long \/ LongName(name))
    /\ depth' = depth + 1
    /\ UNCHANGED <<stage, stale, reserved>>

\* One property: fp points into the structure block while dt_add_string makes
\* room once more; then the value is copied.
FlattenProp(name, len) ==
    LET b == EnsureDt(dt, len)
        s == EnsureStrings(strings)
        b2 == EnsureDt(b, 0)
        s2 == EnsureStrings(s)
    IN
    /\ stage = "walk" /\ depth > 0 /\ dt.next + Slack + len < MaxSize /\ WrittenWell
    /\ dt' = Put(b2, 12 + len) /\ strings' = dt_add_string(s2, name)
    /\ over' = (over \/ ~Fits(b2, 12 + len) \/ ~Fits(s2, Written(name)))
    /\ stale' = (stale \/ b2.size # b.size)
    /\ spoilt' = (spoilt \/ NameOfs(s2, name) # s2.next)
    /\ unended' = (unended \/ ~ZeroAt(s2.next + name))
    /\ long' = (long \/ LongName(name) \/ LongValue(len))
    /\ UNCHANGED <<depth, stage, reserved>>

\* The end of a node: room is made after its tag.
FlattenEnd ==
    LET b == Put(dt, 4) IN
    /\ stage = "walk" /\ depth > 0
    /\ dt' = EnsureDt(b, 0) /\ strings' = EnsureStrings(strings)
    /\ over' = (over \/ ~Fits(dt, 4))
    /\ depth' = depth - 1
    /\ stage' = IF depth = 1 THEN "end" ELSE "walk"
    /\ UNCHANGED <<stale, spoilt, unended, long, reserved>>

\* The rest of of_flatten_dtb: FDT_END, then the strings behind it, for which
\* the block is extended to the exact size when they do not fit.
FlattenDone ==
    LET b == Put(dt, 4)
        c == IF b.next <= b.size /\ b.size - b.next < strings.next
             THEN [b EXCEPT !.size = b.next + strings.next] ELSE b
    IN
    /\ stage = "end"
    /\ dt' = [c EXCEPT !.next = @ + strings.next]
    /\ over' = (over \/ ~Fits(dt, 4) \/ ~Fits(c, strings.next))
    /\ stage' = "done"
    /\ UNCHANGED <<strings, depth, stale, spoilt, unended, long, reserved>>

\* of_add_reserve_entry, which keeps an entry for the blob and one for the end.
AddReserveEntry ==
    /\ stage = "done" /\ reserved < MaxReserve - 2
    /\ reserved' = reserved + 1
    /\ UNCHANGED <<dt, strings, depth, stage, over, stale, spoilt, unended, long>>

\* fdt_add_reserve_map writes the entries, the blob itself and the end.
AddReserveMap ==
    /\ stage = "done"
    /\ over' = (over \/ reserved + 2 > MaxReserve)
    /\ stage' = "mapped"
    /\ UNCHANGED <<dt, strings, depth, stale, spoilt, unended, long, reserved>>

\* The blob is done with; of_clean_reserve_map; another one may be built.  What
\* a write past the end did to other memory is not followed.
Again ==
    /\ stage \in {"done", "mapped"}
    /\ dt' = [size |-> BUFSIZE, next |-> Reserve]
    /\ strings' = [size |-> BUFSIZE, next |-> 0]
    /\ depth' = 0 /\ stage' = "walk" /\ reserved' = 0
    /\ over' = FALSE /\ stale' = FALSE /\ spoilt' = FALSE /\ unended' = FALSE /\ long' = FALSE

BufferInit ==
    /\ dt = [size |-> BUFSIZE, next |-> Reserve]
    /\ strings = [size |-> BUFSIZE, next |-> 0]
    /\ depth = 0 /\ stage = "walk" /\ reserved = 0
    /\ over = FALSE /\ stale = FALSE /\ spoilt = FALSE /\ unended = FALSE /\ long = FALSE

BufferNext ==
    \/ \E name \in NameLens :
        \/ FlattenBegin(name)
        \/ \E len \in PropLens : FlattenProp(name, len)
    \/ FlattenEnd \/ FlattenDone \/ AddReserveEntry \/ AddReserveMap \/ Again

BufferSpec == BufferInit /\ [][BufferNext]_bufferVars

-----------------------------------------------------------------------------

\* However the tree looks, no write goes past the end of its buffer, no
\* pointer is used after the buffer it points into was moved and no output is
\* overwritten, although a buffer is doubled once only (fdt_ensure_space).
\* That is so as long as a name leaves 12 bytes of the 1024 and a value 1024 of
\* the first BUFSIZE, not of any name below 1024 and any value, as the comment of
\* fdt_ensure_space has it.  A name ends in a zero as long as neither buffer has
\* grown: memory that realloc has added is not cleared.
StaysInBuffers ==
    ~long => /\ WrittenWell
             /\ dt.size = BUFSIZE /\ strings.size = BUFSIZE => ~unended
=============================================================================
