--------------------------- MODULE StateStorage ---------------------------
(***************************************************************************)
(* The redundant storage of one barebox state: state_storage_read and      *)
(* state_storage_write (backend_storage.c), state_save and state_do_load   *)
(* (state.c), driven by successive runs of the barebox-state tool          *)
(* (barebox-state.c).  The device holds N buckets, each one copy of the    *)
(* state.  A run of the tool reads all buckets, takes the first valid one, *)
(* rewrites the others where they differ, may set variables, and saves by  *)
(* writing all buckets in order.  Writing a bucket is not atomic: between  *)
(* its first and last byte the bucket is torn.  A crash ends a run at any  *)
(* point; what the buckets hold survives.                                  *)
(*                                                                         *)
(* Runs follow one another: module ToolLock is about runs that overlap.    *)
(***************************************************************************)
EXTENDS Naturals

CONSTANTS
    N,          \* number of buckets on the device
    Value,      \* what the variables of a state can hold
    Default,    \* the defaults of the state's device tree node
    Garbled,    \* a mixture of two values that nobody ever set
    Faults,     \* which of FaultKind can happen
    Auth,       \* the raw format has an "algo": copies carry an HMAC
    Dtb,        \* the backend-type is "dtb", not "raw"
    KeepPrev,   \* the node has "keep-previous-content"
    RdonlyFd    \* buckets honour readonly when they open the device

Bucket == 1 .. N

\* crash: power loss; readerr: a bucket cannot be read; torn / clean: writing
\* a bucket fails after / before its old content is damaged.
FaultKind == {"crash", "readerr", "torn", "clean"}

ASSUME StorageAssumption ==
    /\ N \in Nat \ {0}
    /\ Default \in Value /\ Garbled \in Value /\ Default # Garbled
    /\ Faults \subseteq FaultKind
    /\ Auth \in BOOLEAN /\ Dtb \in BOOLEAN
    /\ KeepPrev \in BOOLEAN /\ RdonlyFd \in BOOLEAN

VARIABLES
    media,      \* what each bucket holds on the device
    pc,         \* where the tool is; "off" between two runs
    ro, force,  \* the run is readonly (no -s); -f: do not check the HMAC
    buf,        \* what the run has read from each bucket
    used,       \* bucket_used of state_storage_read, 0 for NULL
    wrong,      \* some bucket has wrong_magic set
    idx,        \* the bucket of the loop over the buckets
    written,    \* buckets_written of state_storage_write
    cur, dirty, \* the variables of the state in memory, and state->dirty
    live,       \* history: the values a load may still return
    durable,    \* history: the last save returned 0, or a load repaired
    skipped     \* history: a write failed and left the old content in place

process == <<pc, ro, force, buf, used, wrong, idx, written, cur, dirty>>
history == <<live, durable, skipped>>
vars == <<media, process, history>>

-----------------------------------------------------------------------------
(* The content of a bucket *)

Content == [kind : {"copy", "broken", "foreign"}, val : Value, mac : BOOLEAN]

\* No record that passes the checks: erased, never written, or torn.
Broken == [kind |-> "broken", val |-> Default, mac |-> FALSE]

\* Data of somebody else: neither our magic, nor all ones, nor zero.
Foreign == [kind |-> "foreign", val |-> Default, mac |-> FALSE]

Copy(v, m) == [kind |-> "copy", val |-> v, mac |-> m]

\* format->verify.  A copy written without its HMAC fails an authenticated
\* load only.
Verified(c, noauth) ==
    /\ c.kind = "copy"
    /\ Auth /\ ~noauth => c.mac

\* The first bucket in order with valid data.
FirstValid(m, noauth, b) ==
    /\ Verified(m[b], noauth)
    /\ \A a \in Bucket : a < b => ~Verified(m[a], noauth)

\* The bucket whose tree .verify of the dtb format leaves behind.
LastValid(m, noauth, b) ==
    /\ Verified(m[b], noauth)
    /\ \A a \in Bucket : a > b => ~Verified(m[a], noauth)

\* The bucket_used of a read.
FirstVerified(m, noauth, b) == FirstValid(m, noauth, b)

\* What a bucket holds once its write has begun.  The raw format's crcs
\* reject every mixture; the dtb format has none, and trees of one state
\* differ in their values only, so a prefix of the new over the old may parse.
Torn(old, new) ==
    {Broken} \cup
    {c \in {Copy(Garbled, FALSE)} :
        Dtb /\ old.kind = "copy" /\ old.val # new.val}

\* bucket_refresh rewrites a bucket whose buffer differs from the used one.
\* .verify has cut both lengths to header and data: the HMAC is not compared.
\* needs_refresh is never set: outside of barebox no read returns -EUCLEAN.
DiffersIfBroken(c, u) == c.kind # "copy"

DiffersIfReadable(c, u) == c.kind = "copy" /\ c.val # u.val

Differs(c, u) == c.kind # "copy" \/ c.val # u.val

\* What bucket_refresh writes: the used buffer up to that length.
Refreshed(u) == Copy(u.val, FALSE)

\* format->pack: header, data and, with an algo, the HMAC.
Pack(v) == Copy(v, Auth)

\* format->unpack of the raw format takes the used buffer.
UnpackRaw(v) == v = buf[used].val

\* That of the dtb format takes the tree that the last successful verify left
\* behind; a later bucket that does not unflatten drops that tree, and the
\* used buffer is parsed again.
UnpackDtb(v) ==
    \E l \in Bucket : /\ LastValid(buf, force, l)
                      /\ \/ v = buf[l].val
                         \/ l < N /\ v = buf[used].val

Unpack(v) == IF Dtb THEN UnpackDtb(v) ELSE UnpackRaw(v)

-----------------------------------------------------------------------------
(* One run of the tool *)

\* What a write that fails after it has damaged the bucket leaves there: a torn
\* record or, when the flush or the last byte fails, the whole new one.
AfterFailure(b, new) == {media[b], new}

\* Variables of a process that is not running.
Fresh ==
    /\ pc' = "off" /\ ro' = FALSE /\ force' = FALSE
    /\ buf' = [b \in Bucket |-> Broken]
    /\ used' = 0 /\ wrong' = FALSE /\ idx' = 1 /\ written' = 0
    /\ cur' = Default /\ dirty' = TRUE

\* Any device, also one that has been in use before, by this state and by
\* others.
Init ==
    /\ media \in [Bucket -> {Broken, Foreign}
                           \cup {Copy(v, Auth) : v \in Value \ {Garbled}}]
    /\ pc = "off" /\ ro = FALSE /\ force = FALSE
    /\ buf = [b \in Bucket |-> Broken]
    /\ used = 0 /\ wrong = FALSE /\ idx = 1 /\ written = 0
    /\ cur = Default /\ dirty = TRUE
    /\ live = {v \in Value : \E b \in Bucket : media[b] = Copy(v, Auth)}
    /\ durable = FALSE /\ skipped = FALSE

\* state_get: a new state with the defaults, marked dirty.
Start(r, f) ==
    /\ pc = "off"
    /\ pc' = "read" /\ ro' = r /\ force' = f
    /\ UNCHANGED <<media, buf, used, wrong, idx, written, cur, dirty, history>>

\* First loop of state_storage_read: read and verify every bucket.  A bucket
\* that cannot be read keeps an empty buffer.  Foreign content sets
\* wrong_magic, and so may a record of our own that has no meta data or is cut
\* off.  Without a valid bucket the load fails before any repair and the
\* defaults stay.
ReadBuckets ==
    /\ pc = "read"
    /\ \E errs \in SUBSET Bucket :
        /\ errs = {} \/ "readerr" \in Faults
        /\ buf' = [b \in Bucket |-> IF b \in errs THEN Broken ELSE media[b]]
        /\ wrong' \in {TRUE, \E b \in Bucket \ errs : media[b].kind = "foreign"}
    /\ \/ /\ \A b \in Bucket : ~Verified(buf'[b], force)
          /\ pc' = "idle" /\ used' = 0
       \/ /\ \E b \in Bucket : FirstVerified(buf', force, b) /\ used' = b
          /\ pc' = "refresh"
    /\ UNCHANGED <<media, ro, force, idx, written, cur, dirty, history>>

\* bucket_refresh finds the bucket equal to the used one.
RefreshSkip ==
    /\ pc = "refresh" /\ idx <= N
    /\ ~Differs(buf[idx], buf[used])
    /\ idx' = idx + 1
    /\ UNCHANGED <<media, pc, ro, force, buf, used, wrong, written, cur, dirty,
                   history>>

\* bucket_refresh starts to rewrite the bucket; readonly is not looked at,
\* only the descriptor of a direct bucket is opened accordingly.
RefreshBegin ==
    /\ pc = "refresh" /\ idx <= N
    /\ Differs(buf[idx], buf[used])
    /\ ~(ro /\ RdonlyFd)
    /\ \E c \in Torn(media[idx], Refreshed(buf[used])) :
          media' = [media EXCEPT ![idx] = c]
    /\ pc' = "refreshing"
    /\ UNCHANGED <<ro, force, buf, used, wrong, idx, written, cur, dirty,
                   history>>

\* The write of bucket_refresh returns 0.
RefreshEnd ==
    /\ pc = "refreshing"
    /\ media' = [media EXCEPT ![idx] = Refreshed(buf[used])]
    /\ pc' = "refresh" /\ idx' = idx + 1
    /\ UNCHANGED <<ro, force, buf, used, wrong, written, cur, dirty, history>>

\* The write of bucket_refresh fails; the caller goes on.
RefreshFail ==
    /\ \/ /\ pc = "refreshing" /\ "torn" \in Faults
          /\ \E c \in AfterFailure(idx, Refreshed(buf[used])) :
                media' = [media EXCEPT ![idx] = c]
          /\ UNCHANGED skipped
       \/ /\ pc = "refresh" /\ idx <= N
          /\ Differs(buf[idx], buf[used])
          /\ \/ ro /\ RdonlyFd /\ UNCHANGED skipped
             \/ "clean" \in Faults /\ skipped' = TRUE
          /\ UNCHANGED media
    /\ pc' = "refresh" /\ idx' = idx + 1
    /\ UNCHANGED <<ro, force, buf, used, wrong, written, cur, dirty, live,
                   durable>>

\* End of state_storage_read and of state_do_load.  Whoever sees the loaded
\* value relies on it from here on.  Unpacking fails on an image of other
\* variables (module StateVariables): the state holds what was unpacked so
\* far, is dirty, and the run goes on.
LoadEnd ==
    /\ pc = "refresh" /\ idx = N + 1
    /\ \/ \E v \in Value : Unpack(v) /\ cur' = v /\ dirty' = FALSE
       \/ cur' \in Value \ {Garbled} /\ dirty' = TRUE
    /\ pc' = "idle"
    /\ live' = IF ro THEN live ELSE {buf[used].val}
    /\ durable' = (durable \/ ~ro)
    /\ UNCHANGED <<media, ro, force, buf, used, wrong, idx, written, skipped>>

\* state_set_var: only a changed value makes the state dirty.
SetVar(v) ==
    /\ pc = "idle" /\ ~ro
    /\ v # cur
    /\ cur' = v /\ dirty' = TRUE
    /\ UNCHANGED <<media, pc, ro, force, buf, used, wrong, idx, written,
                   history>>

\* main leaves: nothing to save, a failed -s or -g, or a save that returns
\* before the first bucket (foreign content, or a readonly storage).
Exit ==
    /\ pc = "idle"
    /\ Fresh
    /\ UNCHANGED <<media, history>>

\* state_save up to the loop of state_storage_write.
MaySave == dirty /\ ~(KeepPrev /\ wrong) /\ ~ro

SaveBegin ==
    /\ pc = "idle" /\ MaySave
    /\ pc' = "save" /\ idx' = 1 /\ written' = 0
    /\ live' = live \cup {cur} /\ durable' = FALSE
    /\ UNCHANGED <<media, ro, force, buf, used, wrong, cur, dirty, skipped>>

\* bucket->write of the bucket idx starts.
WriteBegin ==
    /\ pc = "save" /\ idx <= N
    /\ \E c \in Torn(media[idx], Pack(cur)) :
          media' = [media EXCEPT ![idx] = c]
    /\ pc' = "writing"
    /\ UNCHANGED <<ro, force, buf, used, wrong, idx, written, cur, dirty,
                   history>>

\* bucket->write of the bucket idx returns 0.
WriteEnd ==
    /\ pc = "writing"
    /\ media' = [media EXCEPT ![idx] = Pack(cur)]
    /\ pc' = "save" /\ idx' = idx + 1 /\ written' = written + 1
    /\ UNCHANGED <<ro, force, buf, used, wrong, cur, dirty, history>>

WriteFailPastEnd ==
    /\ pc = "save" /\ idx <= N + 1 /\ "clean" \in Faults
    /\ pc' = "save" /\ idx' = idx + 1
    /\ UNCHANGED <<media, ro, force, buf, used, wrong, written, cur, dirty,
                   history>>

\* bucket->write of the bucket idx returns an error; the loop goes on.
WriteFail ==
    /\ \/ /\ pc = "writing" /\ "torn" \in Faults
          /\ \E c \in AfterFailure(idx, Pack(cur)) :
                media' = [media EXCEPT ![idx] = c]
          /\ UNCHANGED skipped
       \/ /\ pc = "save" /\ idx <= N /\ "clean" \in Faults
          /\ skipped' = TRUE /\ UNCHANGED media
    /\ pc' = "save" /\ idx' = idx + 1
    /\ UNCHANGED <<ro, force, buf, used, wrong, written, cur, dirty, live,
                   durable>>

SaveSucceedsAlways == TRUE

\* min_buckets_written is 1.
SaveSucceeds == written >= 1

\* state_storage_write and state_save return; main leaves.
SaveEnd ==
    /\ pc = "save" /\ idx = N + 1
    /\ Fresh
    /\ live' = IF SaveSucceeds THEN {cur} ELSE live
    /\ durable' = SaveSucceeds
    /\ UNCHANGED <<media, skipped>>

\* Power loss, or the tool is killed.
Crash ==
    /\ "crash" \in Faults /\ pc # "off"
    /\ Fresh
    /\ UNCHANGED <<media, history>>

Next ==
    \/ \E r \in BOOLEAN, f \in BOOLEAN : (f => Auth) /\ Start(r, f)
    \/ ReadBuckets
    \/ RefreshSkip \/ RefreshBegin \/ RefreshEnd \/ RefreshFail
    \/ LoadEnd
    \/ \E v \in Value \ {Garbled} : SetVar(v)
    \/ Exit
    \/ SaveBegin \/ WriteBegin \/ WriteEnd \/ WriteFail \/ SaveEnd
    \/ Crash

Spec == Init /\ [][Next]_vars

-----------------------------------------------------------------------------
(* Properties *)

\* The variables keep their types; loops over buckets stay within the list.
TypeOK ==
    /\ media \in [Bucket -> Content]
    /\ pc \in {"off", "read", "refresh", "refreshing", "idle", "save",
               "writing"}
    /\ ro \in BOOLEAN /\ force \in BOOLEAN /\ wrong \in BOOLEAN
    /\ buf \in [Bucket -> Content]
    /\ used \in 0 .. N
    /\ idx \in 1 .. N + 1
    /\ written \in 0 .. N
    /\ cur \in Value /\ dirty \in BOOLEAN
    /\ live \subseteq Value /\ durable \in BOOLEAN /\ skipped \in BOOLEAN
    /\ pc \in {"refresh", "refreshing"} => used \in Bucket
    /\ pc \in {"refreshing", "writing"} => idx \in Bucket
    /\ pc \in {"save", "writing"} => written < idx

\* A load returns the last saved value, or that of a save that was cut off
\* (backend_storage.c:61, "reading in the same sequence will always return the
\* latest written valid data first").
LatestFirst ==
    \A b \in Bucket : FirstValid(media, FALSE, b) => media[b].val \in live

\* That is so as long as no write of a bucket has failed without damage to what
\* it held: then no crash, no failing read and no other failing write makes a
\* load go back behind a save that returned 0, or behind a value that an
\* earlier load has returned and repaired.
NoRollback == ~skipped => LatestFirst

\* Once state_save has returned 0, or a load has completed its repair, the
\* next load finds exactly that value, up to the start of the next save,
\* whatever crashes, failing reads and damaging writes happen in between.
Durable ==
    durable /\ ~skipped =>
        \E b \in Bucket : /\ FirstValid(media, FALSE, b)
                          /\ live = {media[b].val}

\* No step of the tool, and no crash, takes the device from holding a valid
\* copy to holding none (backend_storage.c:36, "to make sure that we have
\* valid data on the storage device at any time").
Loadable == \E b \in Bucket : Verified(media[b], FALSE)

ValidDataAtAnyTime == [][Loadable => Loadable']_vars

\* Loading and repairing never change what the next load returns: the value
\* one run has seen is the value the next run sees, unless somebody saves.
Saving == pc \in {"save", "writing"}

RepairKeepsLoadable ==
    [][ ~Saving => \A b \in Bucket : FirstValid(media, FALSE, b) =>
          \E a \in Bucket : /\ FirstValid(media', FALSE, a)
                            /\ media'[a].val = media[b].val ]_vars

\* A save starts from buckets that all hold the value that was loaded
\* (backend_storage.c:46, "we already restored consistency which means all
\* buckets contain the same data").
ConsistentWhenLoaded ==
    pc = "idle" /\ used # 0 /\ ~ro =>
        \A b \in Bucket : media[b].kind = "copy" /\ media[b].val = buf[used].val

\* What the tool shows and starts to modify after a load is what is stored: a
\* run that is not dirty holds the value the next run will load
\* (backend_storage.c:137, "The first bucket which returns data that is
\* successfully verified against the data format is used").
ShowsWhatIsStored ==
    pc = "idle" /\ ~dirty =>
        \E b \in Bucket : FirstValid(media, FALSE, b) /\ media[b].val = cur

\* With the readonly option no step writes to the device (state.c:603, "with
\* this option set, there are no repairs done").  The code keeps to it for
\* direct buckets only.
ReadonlyKeepsMedia == [][ro => media' = media]_vars

\* With keep-previous-content no bucket of foreign data is overwritten
\* (state.c:67, "Found foreign content on backend, won't overwrite").  Only
\* state_save looks at that option, the repair of a load does not.
ForeignKept ==
    [][ KeepPrev => \A b \in Bucket :
            media[b].kind = "foreign" => media'[b] = media[b] ]_vars

-----------------------------------------------------------------------------
(* The abstract specification: the buckets together act as one register     *)
(* whose value is that of the first valid bucket.                           *)

Stored ==
    {v \in Value : \E b \in Bucket : /\ FirstValid(media, FALSE, b)
                                   /\ media[b].val = v}

Requested == {v \in {cur} : Saving}

Store == INSTANCE AtomicStore
            WITH stored <- Stored, req <- Requested, acked <- durable

\* A save takes effect at one instant: when the first bucket in order has been
\* rewritten.  Crashes before it leave the old value, crashes after it leave
\* the new one, and the repair of a later run changes neither.
ImplementsAtomicStore == Store!Spec
=============================================================================
