---------------------------- MODULE DirectBucket ----------------------------
(***************************************************************************)
(* Direct buckets (backend_bucket_direct.c): storage areas of Stride cells *)
(* each, one after the other on a device that needs no erase.  A write     *)
(* puts a header of magic and length in front of the record when there is  *)
(* room, then the record; it reaches the device cell by cell and can stop  *)
(* after any of them.  A cell is what the device writes atomically; magic  *)
(* and length are one cell each.                                           *)
(***************************************************************************)
EXTENDS Integers, Sequences

CONSTANTS
    NB,        \* number of buckets
    Stride,    \* max_size of a bucket, the distance between two of them
    Size,      \* cells of the device; those behind the buckets are not ours
    Rec,       \* records
    Length,    \* cells of each record
    Builds,    \* builds, with the records they are given to write, and whether
               \* write() may return 0 on them before everything is written
    Wrap,      \* the difference in the head room test is modulo this
    Nothing    \* no valid record

ASSUME DirectAssumption ==
    /\ NB \in Nat \ {0} /\ Stride \in Nat \ {0} /\ Size \in Nat
    /\ Size >= NB * Stride
    /\ Length \in [Rec -> Nat \ {0}]
    /\ \A c \in Builds : c.compat \in BOOLEAN /\ c.recs \subseteq Rec /\ c.zero \in BOOLEAN
    /\ Wrap \in Nat \ {0} /\ Wrap > Stride /\ Wrap > 2
    /\ Nothing \notin Rec

Bucket == 0 .. NB - 1

VARIABLES
    build,   \* never changes
    dev,     \* the device
    stage,   \* "idle" or "write"
    target,  \* bucket and record of the write in progress
    pos,     \* how many of its cells are done with
    lost,    \* how many of those did not reach the device
    ok       \* the last write returned 0

directVars == <<build, dev, stage, target, pos, lost, ok>>

Cells == 0 .. Size - 1

Blank == <<"blank">>
Alien == <<"alien">>
Magic == <<"magic">>
LenCell(n) == <<"length", n>>
DataCell(r, i) == <<"data", r, i>>

Compat == build.compat   \* CONFIG_STATE_BACKWARD_COMPATIBLE

Offset(b) == b * Stride

-----------------------------------------------------------------------------
(* Writing *)

\* len <= max_size - sizeof(meta), computed without a sign.
HeadRoom(n) == n <= (Stride - 2) % Wrap

Data(r) == [i \in 1 .. Length[r] |-> DataCell(r, i)]

StreamCountsMeta(r) ==
    IF HeadRoom(Length[r]) THEN <<Magic, LenCell(Length[r] + 2)>> \o Data(r)
                           ELSE Data(r)

\* The cells a write of record r puts on the device, in order.
Stream(r) ==
    IF HeadRoom(Length[r]) THEN <<Magic, LenCell(Length[r])>> \o Data(r)
                           ELSE Data(r)

WriteBegin(b, r) ==
    /\ stage = "idle"
    /\ HeadRoom(Length[r]) \/ Compat
    /\ stage' = "write" /\ target' = <<b, r>>
    /\ pos' = 0 /\ lost' = 0 /\ ok' = FALSE
    /\ UNCHANGED <<build, dev>>

\* Too little room for the header: -EINVAL, nothing is written.
WriteReject(r) ==
    /\ stage = "idle"
    /\ ~HeadRoom(Length[r]) /\ ~Compat
    /\ ok' = FALSE
    /\ UNCHANGED <<build, dev, stage, target, pos, lost>>

\* The next cell reaches the device, behind the one before.
WriteCell ==
    LET at == Offset(target[1]) + pos - lost IN
    /\ stage = "write" /\ pos < Len(Stream(target[2]))
    /\ at \in Cells
    /\ dev' = [dev EXCEPT ![at] = Stream(target[2])[pos + 1]]
    /\ pos' = pos + 1
    /\ UNCHANGED <<build, stage, target, lost, ok>>

\* write() returns 0.  write_full passes that on, and its callers take it for
\* success: the rest of the meta data, or of the record, is left out.
ZeroWrite ==
    LET n == Len(Stream(target[2]))
        to == IF HeadRoom(Length[target[2]]) /\ pos < 2 THEN 2 ELSE n
    IN
    /\ build.zero /\ stage = "write" /\ pos < n
    /\ pos' = to /\ lost' = lost + (to - pos)
    /\ UNCHANGED <<build, dev, stage, target, ok>>

WriteEndUnchecked ==
    /\ stage = "write"
    /\ stage' = "idle" /\ ok' = TRUE
    /\ UNCHANGED <<build, dev, target, pos, lost>>

\* Everything is written and flushed.
WriteEnd ==
    /\ stage = "write" /\ pos = Len(Stream(target[2]))
    /\ stage' = "idle" /\ ok' = TRUE
    /\ UNCHANGED <<build, dev, target, pos, lost>>

\* A seek, a write or the flush fails, or the machine stops.
WriteFail ==
    /\ stage = "write"
    /\ stage' = "idle" /\ ok' = FALSE
    /\ UNCHANGED <<build, dev, target, pos, lost>>

-----------------------------------------------------------------------------
(* Reading *)

\* The record of which the n cells from o on are a valid image: header and
\* crcs of the raw format.
RecordAt(o, n) ==
    LET Image(r) ==
            /\ Length[r] <= n
            /\ \A i \in 1 .. Length[r] :
                  o + i - 1 \in Cells /\ dev[o + i - 1] = DataCell(r, i)
    IN  IF \E r \in Rec : Image(r) THEN CHOOSE r \in Rec : Image(r)
                                   ELSE Nothing

\* The read of bucket b, verified.  A length that is no length, or larger
\* than the bucket, is refused; without the magic only a build that is
\* backward compatible reads on, from the start of the bucket.
Read(b) ==
    LET o == Offset(b)
    IN  IF dev[o] = Magic
        THEN IF o + 1 \in Cells /\ \E n \in 0 .. Stride : dev[o + 1] = LenCell(n)
             THEN RecordAt(o + 2, dev[o + 1][2])
             ELSE Nothing
        ELSE IF Compat THEN RecordAt(o, Stride) ELSE Nothing

-----------------------------------------------------------------------------

DirectInit ==
    /\ build \in Builds
    /\ \E c \in {Blank, Alien} : dev = [a \in Cells |-> c]
    /\ stage = "idle" /\ target \in {0} \X build.recs
    /\ pos = 0 /\ lost = 0 /\ ok = FALSE

DirectNext ==
    \/ \E b \in Bucket, r \in build.recs : WriteBegin(b, r)
    \/ \E r \in build.recs : WriteReject(r)
    \/ WriteCell \/ ZeroWrite \/ WriteEnd \/ WriteFail

DirectSpec == DirectInit /\ [][DirectNext]_directVars

\* Only cells of records, of their meta data and of the initial content.
Cell ==
    {Blank, Alien, Magic}
    \cup {LenCell(n) : n \in {Length[r] : r \in Rec} \cap 0 .. Stride - 2}
    \cup UNION {{Data(r)[i] : i \in DOMAIN Data(r)} : r \in Rec}

DirectTypeOK ==
    /\ build \in Builds
    /\ dev \in [Cells -> Cell]
    /\ stage \in {"idle", "write"}
    /\ target \in Bucket \X Rec
    /\ pos \in 0 .. Len(Stream(target[2])) /\ lost \in 0 .. pos
    /\ ok \in BOOLEAN

\* A write stays within the area of its bucket (backend_storage.c:32, "a
\* bucket corresponds to a storage area of @stridesize bytes"): it can damage
\* neither another copy nor what lies behind the buckets.  The code does not
\* see to that for a stride below the meta data, nor for a record above the
\* stride in a build that is backward compatible.
StaysInStride ==
    [][ \A c \in Cells : dev'[c] # dev[c] =>
            c \in Offset(target[1]) .. Offset(target[1]) + Stride - 1 ]_directVars

Store == INSTANCE BucketStore
    WITH content <- [b \in Bucket |-> Read(b)],
         wr <- {w \in {target} : stage = "write"},
         ok <- ok /\ lost = 0

\* A direct bucket reads back as the old record, none, or the new one while a
\* write is under way, and as the new one when the write has returned 0, also
\* when records of other lengths, with or without meta data, were there before
\* (state.h:31, "reads the last successfully written data").
ImplementsBucketStore == Store!Spec
=============================================================================
