--------------------------- MODULE MCDirectBucket ---------------------------
(***************************************************************************)
(* Records of one cell to four.  With a stride of four cells those of one  *)
(* and two leave head room for the meta data, the one of four just fits    *)
(* without it.                                                             *)
(***************************************************************************)
EXTENDS DirectBucket

CONSTANTS r1, r2, r3, r4

Lengths == [r \in Rec |-> CASE r = r1 -> 1 [] r = r2 -> 2 [] r = r3 -> 3 [] r = r4 -> 4]

Given(c, s, z) == [compat |-> c, recs |-> s, zero |-> z]

\* At most one of the records that a backward compatible build writes with
\* meta data is mixed with some that it writes without; where write() may return
\* 0, all are without.
MixedBuilds ==
    {Given(FALSE, Rec, FALSE), Given(TRUE, {r1, r2}, FALSE),
     Given(TRUE, {r2, r3, r4}, FALSE), Given(TRUE, {r3, r4}, TRUE)}

\* A record that is larger than a stride of three cells.
LargeRecordBuilds == {Given(TRUE, {r1, r4}, FALSE)}
=============================================================================
