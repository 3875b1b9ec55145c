--------------------------- MODULE CircularBucket ---------------------------
(***************************************************************************)
(* A circular bucket (backend_bucket_circular.c): one eraseblock of flash, *)
(* in which records are appended page by page until it is full, erased and *)
(* begun anew.  The last eight bytes of a record's last page hold a magic  *)
(* and the record's length; a run of the tool finds the last record by     *)
(* searching the pages backwards.  Lengths are in pages of writesize.      *)
(***************************************************************************)
EXTENDS Naturals, FiniteSets

CONSTANTS
    P,          \* pages of the eraseblock
    Record,     \* records
    Pages,      \* pages of each record with its meta data, rounded up
    PageAtomic, \* programming a page happens entirely or not at all
    EraseAtomic,\* so does an erase
    NoRecord    \* no valid record

ASSUME CircularAssumption ==
    /\ P \in Nat \ {0}
    /\ Pages \in [Record -> Nat \ {0}]
    /\ PageAtomic \in BOOLEAN /\ EraseAtomic \in BOOLEAN
    /\ NoRecord \notin Record

VARIABLES
    block,  \* the pages of the eraseblock
    at,     \* where the tool is; "off" between two runs
    wa,     \* circ->write_area: pages before the free ones
    lwl,    \* circ->last_written_length
    rec,    \* the record being written
    upto,   \* pages programmed, counted from the start of the block
    acked   \* the last write returned 0

circularVars == <<block, at, wa, lwl, rec, upto, acked>>

Page == 1 .. P

Erased == <<"blank">>
HalfPage == <<"junk">>   \* a page whose programming or erase was cut off
PageOf(r, i) == <<"page", r, i>>

-----------------------------------------------------------------------------
(* Opening and reading *)

\* The pages up to the last one that is not erased.
UsedButLast(bl) == Cardinality({p \in Page : \E q \in Page : q > p /\ bl[q] # Erased})

UsedPages(bl) == Cardinality({p \in Page : \E q \in Page : q >= p /\ bl[q] # Erased})

\* The length in the meta data of the last page in use, 0 without the magic.
MetaLength(bl) ==
    LET n == UsedPages(bl)
        owners == {r \in Record : n > 0 /\ bl[n] = PageOf(r, Pages[r])}
    IN  IF owners = {} THEN 0 ELSE Pages[CHOOSE r \in owners : TRUE]

\* The record of which the n pages from page s on are a valid image.
RecordIn(bl, s, n) ==
    LET images == {r \in Record : /\ Pages[r] <= n /\ s + Pages[r] - 1 <= P
                               /\ \A i \in 1 .. Pages[r] :
                                     bl[s + i - 1] = PageOf(r, i)}
    IN  IF images = {} THEN NoRecord ELSE CHOOSE r \in images : TRUE

FirstRecord(bl, area, len) == RecordIn(bl, 1, area)

\* What a read of a bucket with this write_area and last_written_length
\* returns.  Without a length the area is taken for the old format, which
\* starts at the beginning of the block.
ReadRecord(bl, area, len) ==
    IF area = 0 \/ len > area THEN NoRecord
    ELSE IF len = 0 THEN RecordIn(bl, 1, area)
    ELSE RecordIn(bl, area - len + 1, len)

\* state_backend_bucket_circular_init, when the bucket is created.
Create ==
    /\ at = "off"
    /\ at' = "created" /\ wa' = UsedPages(block) /\ lwl' = MetaLength(block)
    /\ UNCHANGED <<block, rec, upto, acked>>

\* state_backend_bucket_circular_read: after an old or an invalid length the
\* block is written from its beginning.
ReadBucket ==
    /\ at = "created"
    /\ at' = "ready"
    /\ wa' = IF lwl = 0 \/ lwl > wa THEN 0 ELSE wa
    /\ UNCHANGED <<block, lwl, rec, upto, acked>>

-----------------------------------------------------------------------------
(* Writing *)

\* Where a record of n pages goes: 0 is the beginning, after an erase.
WriteAreaToTheBrim(n) == IF wa + n > P + 1 THEN 0 ELSE wa

WriteArea(n) == IF wa + n >= P THEN 0 ELSE wa

AppendBegin(r) ==
    /\ at = "ready" /\ Pages[r] <= P
    /\ rec' = r /\ acked' = FALSE
    /\ upto' = WriteArea(Pages[r])
    /\ IF upto' = 0 THEN at' = "erase" /\ wa' = 0
                   ELSE at' = "program" /\ wa' = upto' + Pages[r]
    /\ UNCHANGED <<block, lwl>>

\* Larger than the eraseblock: -E2BIG.
AppendReject(r) ==
    /\ at = "ready" /\ Pages[r] > P
    /\ acked' = FALSE
    /\ UNCHANGED <<block, at, wa, lwl, rec, upto>>

\* The block is erased; write_area moves on before anything is programmed.
Erase ==
    /\ at = "erase"
    /\ block' = [p \in Page |-> Erased]
    /\ at' = "program" /\ wa' = Pages[rec]
    /\ UNCHANGED <<lwl, rec, upto, acked>>

\* It fails, or the machine stops, after the erase has reached some pages only:
\* others are as they were, or neither.
ErasePart ==
    /\ at = "erase" /\ ~EraseAtomic
    /\ \E kept \in SUBSET Page : \E half \in SUBSET kept :
          block' = [p \in Page |-> IF p \in half THEN HalfPage
                                   ELSE IF p \in kept THEN block[p] ELSE Erased]
    /\ at' \in {"ready", "off"}
    /\ UNCHANGED <<wa, lwl, rec, upto, acked>>

\* The same before it has reached any page.
EraseFail ==
    /\ at = "erase"
    /\ at' \in {"ready", "off"}
    /\ UNCHANGED <<block, wa, lwl, rec, upto, acked>>

\* The next page of the record is programmed.
Program ==
    /\ at = "program" /\ upto < wa
    /\ block' = [block EXCEPT
                    ![upto + 1] = PageOf(rec, upto + 1 - (wa - Pages[rec]))]
    /\ upto' = upto + 1
    /\ UNCHANGED <<at, wa, lwl, rec, acked>>

\* Programming fails, or the machine stops while a page is programmed.
ProgramFail ==
    /\ at = "program"
    /\ \/ UNCHANGED block
       \/ /\ ~PageAtomic /\ upto < wa
          /\ block' = [block EXCEPT ![upto + 1] = HalfPage]
    /\ at' \in {"ready", "off"}
    /\ UNCHANGED <<wa, lwl, rec, upto, acked>>

AppendEnd ==
    /\ at = "program" /\ upto = wa
    /\ at' = "ready" /\ acked' = TRUE
    /\ UNCHANGED <<block, wa, lwl, rec, upto>>

\* The run ends.
Close ==
    /\ at \in {"created", "ready"}
    /\ at' = "off"
    /\ UNCHANGED <<block, wa, lwl, rec, upto, acked>>

CircularInit ==
    /\ block = [p \in Page |-> Erased]
    /\ at = "off" /\ wa = 0 /\ lwl = 0 /\ rec \in Record /\ upto = 0 /\ acked = FALSE

CircularNext ==
    \/ Create \/ ReadBucket
    \/ \E r \in Record : AppendBegin(r) \/ AppendReject(r)
    \/ Erase \/ ErasePart \/ EraseFail \/ Program \/ ProgramFail \/ AppendEnd
    \/ Close

CircularSpec == CircularInit /\ [][CircularNext]_circularVars

-----------------------------------------------------------------------------

\* write_area never points behind the eraseblock.
CircularTypeOK ==
    /\ block \in [Page -> {Erased, HalfPage} \cup
                          UNION {{PageOf(r, i) : i \in 1 .. Pages[r]} : r \in Record}]
    /\ at \in {"off", "created", "ready", "erase", "program"}
    /\ wa \in 0 .. P /\ upto \in 0 .. P
    /\ lwl \in {0} \cup {Pages[r] : r \in Record}
    /\ rec \in Record /\ acked \in BOOLEAN

\* Flash can be programmed only after an erase: no page that is in use is
\* programmed again, not even after writes or erases that failed half way
\* (backend_bucket_circular.c:344, "The write operation may put arbitrary
\* amount of the data into the storage before failing. In this case we want to
\* start after that area").
ProgramsErasedPagesOnly ==
    [][ at = "program" =>
            \A p \in Page : block'[p] = block[p] \/ block[p] = Erased ]_circularVars

\* What the next run reads.
Contents(bl) == ReadRecord(bl, UsedPages(bl), MetaLength(bl))

\* After a write that returned 0 the next run reads that record, whatever was
\* torn, half erased, failed or left over in the block before it.
AckedIsRead == acked => Contents(block) = rec

Promise == INSTANCE BucketStore
    WITH Bucket <- {1}, Rec <- Record, Nothing <- NoRecord, ok <- acked,
         content <- [b \in {1} |-> Contents(block)],
         wr <- {w \in {<<1, rec>>} : at \in {"erase", "program"}}

\* A circular bucket reads back as the old record, none, or the new one while
\* a write is under way and after it was cut off, and as the new one after a
\* write that returned 0 (state.h:31, "reads the last successfully written data
\* from the backend storage").
CircularIsBucketStore == Promise!Spec
=============================================================================
