---------------------------- MODULE BucketStore ----------------------------
(***************************************************************************)
(* What a bucket promises the redundant storage (struct                    *)
(* state_backend_storage_bucket, state.h): reading it returns the record   *)
(* of the last successful write; a write that is cut off leaves the old    *)
(* record, no record, or the new one, and touches no other bucket.  This   *)
(* is the medium that module StateStorage writes to.                       *)
(***************************************************************************)
CONSTANTS Bucket, Rec, Nothing

VARIABLES
    content,  \* what reading each bucket returns
    wr,       \* the write in progress: {<<bucket, record>>}, or {}
    ok        \* the last write returned 0

vars == <<content, wr, ok>>

Init == content \in [Bucket -> {Nothing}] /\ wr = {} /\ ok = FALSE

Begin(b, r) == wr = {} /\ wr' = {<<b, r>>} /\ ok' = FALSE /\ UNCHANGED content

\* A record that does not fit is refused before anything is written.
Reject == wr = {} /\ ok' = FALSE /\ UNCHANGED <<content, wr>>

\* The old record is lost.
Tear ==
    /\ \E w \in wr : content' = [content EXCEPT ![w[1]] = Nothing]
    /\ UNCHANGED <<wr, ok>>

\* The new record is complete.
Land ==
    /\ \E w \in wr : content' = [content EXCEPT ![w[1]] = w[2]]
    /\ UNCHANGED <<wr, ok>>

\* The write returns, or is cut off.
Return ==
    /\ \E w \in wr : ok' \in {FALSE, content[w[1]] = w[2]}
    /\ wr' = {} /\ UNCHANGED content

Next ==
    \/ \E b \in Bucket, r \in Rec : Begin(b, r)
    \/ Reject \/ Tear \/ Land \/ Return

Spec == Init /\ [][Next]_vars
=============================================================================
