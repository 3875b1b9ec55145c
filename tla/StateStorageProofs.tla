------------------------ MODULE StateStorageProofs ------------------------
(***************************************************************************)
(* Proofs about StateStorage for every number of buckets and every set of  *)
(* values: that a state once saved can be loaded again, what a load returns*)
(* and repairs, and that the buckets together implement the one register of*)
(* AtomicStore.                                                            *)
(***************************************************************************)
EXTENDS StateStorage, WellFoundedInduction, TLAPS

\* The contents the tool writes are contents.
LEMMA ContentTypes ==
    /\ Broken \in Content /\ Foreign \in Content
    /\ \A v \in Value, m \in BOOLEAN : Copy(v, m) \in Content
    /\ \A v \in Value : Pack(v) \in Content
    /\ \A u \in Content : Refreshed(u) \in Content
    /\ \A old \in Content, new \in Content : Torn(old, new) \subseteq Content
<1>1. Broken \in Content /\ Foreign \in Content
  BY StorageAssumption, Zenon DEF Content, Broken, Foreign
<1>2. ASSUME NEW v \in Value, NEW m \in BOOLEAN
      PROVE  Copy(v, m) \in Content
  BY Zenon DEF Content, Copy
<1>3. \A v \in Value : Pack(v) \in Content
  BY <1>2, StorageAssumption, Zenon DEF Pack
<1>4. \A u \in Content : Refreshed(u) \in Content
  <2> SUFFICES ASSUME NEW u \in Content
               PROVE  Refreshed(u) \in Content
    OBVIOUS
  <2>1. u.val \in Value
    BY DEF Content
  <2> QED
    BY <1>2, <2>1, Zenon DEF Refreshed
<1>5. ASSUME NEW old \in Content, NEW new \in Content, NEW c \in Torn(old, new)
      PROVE  c \in Content
  <2>1. c = Broken \/ c = Copy(Garbled, FALSE)
    BY Zenon DEF Torn
  <2> QED
    BY <2>1, <1>1, <1>2, StorageAssumption, Zenon
<1> QED
  BY <1>1, <1>2, <1>3, <1>4, <1>5, Zenon

\* A process that is not running is well typed.
LEMMA FreshTypes ==
    ASSUME Fresh
    PROVE  /\ pc' = "off" /\ ro' \in BOOLEAN /\ force' \in BOOLEAN
           /\ wrong' \in BOOLEAN /\ buf' \in [Bucket -> Content]
           /\ used' \in 0 .. N /\ idx' \in 1 .. N + 1 /\ written' \in 0 .. N
           /\ cur' \in Value /\ dirty' \in BOOLEAN
<1>1. buf' \in [Bucket -> Content]
  BY ContentTypes DEF Fresh
<1>2. used' \in 0 .. N /\ idx' \in 1 .. N + 1 /\ written' \in 0 .. N
  BY StorageAssumption DEF Fresh
<1> QED
  BY <1>1, <1>2, StorageAssumption, Zenon DEF Fresh

\* Every step preserves the types: no loop leaves the list of buckets, no
\* write happens outside of it, every content is one the formats define.
LEMMA TypeStep == TypeOK /\ [Next]_vars => TypeOK'
<1> SUFFICES ASSUME TypeOK, [Next]_vars
             PROVE  TypeOK'
  OBVIOUS
<1> USE StorageAssumption DEF TypeOK, Bucket
<1>1. ASSUME NEW r \in BOOLEAN, NEW f \in BOOLEAN, Start(r, f)
      PROVE  TypeOK'
  BY <1>1 DEF Start, history
<1>2. CASE ReadBuckets
  <2>1. PICK errs \in SUBSET Bucket :
           buf' = [b \in Bucket |-> IF b \in errs THEN Broken ELSE media[b]]
    BY <1>2 DEF ReadBuckets
  <2>2. buf' \in [Bucket -> Content]
    BY <2>1, ContentTypes
  <2>3. wrong' \in BOOLEAN
    BY <1>2 DEF ReadBuckets
  <2>4. \/ pc' = "idle" /\ used' = 0
        \/ pc' = "refresh" /\ used' \in Bucket
    BY <1>2 DEF ReadBuckets
  <2> QED
    BY <1>2, <2>2, <2>3, <2>4 DEF ReadBuckets, history
<1>3. CASE RefreshSkip
  BY <1>3 DEF RefreshSkip, history
<1>4. CASE RefreshBegin
  <2>1. media' \in [Bucket -> Content]
    <3>1. PICK c \in Torn(media[idx], Refreshed(buf[used])) :
             media' = [media EXCEPT ![idx] = c]
      BY <1>4 DEF RefreshBegin
    <3>2. c \in Content
      BY <3>1, <1>4, ContentTypes DEF RefreshBegin
    <3> QED
      BY <3>1, <3>2
  <2> QED
    BY <1>4, <2>1 DEF RefreshBegin, history
<1>5. CASE RefreshEnd
  <2>1. Refreshed(buf[used]) \in Content
    BY <1>5, ContentTypes DEF RefreshEnd
  <2> QED
    BY <1>5, <2>1 DEF RefreshEnd, history
<1>6. CASE RefreshFail
  <2>1. skipped' \in BOOLEAN
    BY <1>6, Zenon DEF RefreshFail
  <2>2. /\ pc' = "refresh" /\ idx' = idx + 1 /\ idx' \in 1 .. N + 1
        /\ used \in Bucket
        /\ UNCHANGED <<ro, force, buf, used, wrong, written, cur, dirty, live,
                       durable>>
    BY <1>6 DEF RefreshFail
  <2>3. media' \in [Bucket -> Content]
    <3>1. CASE media' = media
      BY <3>1
    <3>2. CASE pc = "refreshing"
      <4>1. PICK c \in AfterFailure(idx, Refreshed(buf[used])) :
               media' = [media EXCEPT ![idx] = c]
        BY <1>6, <3>2 DEF RefreshFail
      <4>2. c \in Content
        BY <2>2, <3>2, <4>1, ContentTypes DEF AfterFailure
      <4> QED
        BY <4>1, <4>2
    <3> QED
      BY <1>6, <3>1, <3>2 DEF RefreshFail
  <2> QED
    BY <2>1, <2>2, <2>3
<1>7. CASE LoadEnd
  <2>1. buf[used].val \in Value /\ cur' \in Value /\ dirty' \in BOOLEAN
    BY <1>7 DEF LoadEnd, Content
  <2> QED
    BY <1>7, <2>1 DEF LoadEnd
<1>8. ASSUME NEW v \in Value \ {Garbled}, SetVar(v)
      PROVE  TypeOK'
  BY <1>8 DEF SetVar, history
<1>9. CASE Exit
  BY <1>9, FreshTypes DEF Exit, history
<1>10. CASE SaveBegin
  <2>1. live' \subseteq Value /\ durable' \in BOOLEAN
    BY <1>10, Zenon DEF SaveBegin
  <2>2. pc' = "save" /\ idx' = 1 /\ written' = 0
    BY <1>10 DEF SaveBegin
  <2>3. UNCHANGED <<media, ro, force, buf, used, wrong, cur, dirty, skipped>>
    BY <1>10 DEF SaveBegin
  <2> QED
    BY <2>1, <2>2, <2>3
<1>11. CASE WriteBegin
  <2>1. media' \in [Bucket -> Content]
    <3>1. PICK c \in Torn(media[idx], Pack(cur)) :
             media' = [media EXCEPT ![idx] = c]
      BY <1>11 DEF WriteBegin
    <3>2. c \in Content
      BY <3>1, <1>11, ContentTypes DEF WriteBegin
    <3> QED
      BY <3>1, <3>2
  <2> QED
    BY <1>11, <2>1 DEF WriteBegin, history
<1>12. CASE WriteEnd
  <2>1. Pack(cur) \in Content
    BY ContentTypes
  <2> QED
    BY <1>12, <2>1 DEF WriteEnd, history
<1>13. CASE WriteFail
  <2>1. skipped' \in BOOLEAN
    BY <1>13, Zenon DEF WriteFail
  <2>2. /\ pc' = "save" /\ idx' = idx + 1 /\ idx' \in 1 .. N + 1
        /\ written < idx'
        /\ UNCHANGED <<ro, force, buf, used, wrong, written, cur, dirty, live,
                       durable>>
    BY <1>13 DEF WriteFail
  <2>3. media' \in [Bucket -> Content]
    <3>1. CASE media' = media
      BY <3>1
    <3>2. CASE pc = "writing"
      <4>1. PICK c \in AfterFailure(idx, Pack(cur)) :
               media' = [media EXCEPT ![idx] = c]
        BY <1>13, <3>2 DEF WriteFail
      <4>2. c \in Content
        BY <3>2, <4>1, ContentTypes DEF AfterFailure
      <4> QED
        BY <4>1, <4>2
    <3> QED
      BY <1>13, <3>1, <3>2 DEF WriteFail
  <2> QED
    BY <2>1, <2>2, <2>3
<1>14. CASE SaveEnd
  BY <1>14, FreshTypes DEF SaveEnd, SaveSucceeds
<1>15. CASE Crash
  BY <1>15, FreshTypes DEF Crash, history
<1>16. CASE UNCHANGED vars
  BY <1>16 DEF vars, process, history
<1> QED
  BY <1>1, <1>2, <1>3, <1>4, <1>5, <1>6, <1>7, <1>8, <1>9, <1>10, <1>11,
     <1>12, <1>13, <1>14, <1>15, <1>16 DEF Next

LEMMA TypeInit == Init => TypeOK
<1> SUFFICES ASSUME Init
               PROVE  TypeOK
  OBVIOUS
<1>1. media \in [Bucket -> Content] /\ buf \in [Bucket -> Content]
  <2>1. {Broken, Foreign} \cup {Copy(v, Auth) : v \in Value \ {Garbled}}
           \subseteq Content
    BY ContentTypes, StorageAssumption, Zenon
  <2> QED
    BY <2>1, ContentTypes DEF Init
<1>2. used \in 0 .. N /\ idx \in 1 .. N + 1 /\ written \in 0 .. N
  BY StorageAssumption DEF Init
<1>3. pc = "off" /\ live \subseteq Value /\ cur \in Value
  BY StorageAssumption DEF Init
<1>4. /\ ro \in BOOLEAN /\ force \in BOOLEAN /\ wrong \in BOOLEAN
        /\ dirty \in BOOLEAN /\ durable \in BOOLEAN /\ skipped \in BOOLEAN
  BY DEF Init
<1> QED
  BY <1>1, <1>2, <1>3, <1>4 DEF TypeOK

\* Type correctness of the storage for every number of buckets, every set of
\* values and every combination of faults and options.
THEOREM TypeCorrect == Spec => []TypeOK
BY TypeInit, TypeStep, PTL DEF Spec

-----------------------------------------------------------------------------
(* No rollback, and durability, with crashes, failing reads and writes that *)
(* damage what they fail to write.                                          *)

IsCopy(b) == media[b].kind = "copy"

\* Every copy on the device holds a value that a load may return.
CopiesLive == \A b \in Bucket : IsCopy(b) => media[b].val \in live

\* While the buckets are repaired: the used one is intact, the ones behind the
\* loop hold its value if anything, the ones ahead are as they were read.
RepairInv ==
    pc \in {"refresh", "refreshing"} =>
        /\ IsCopy(used) /\ media[used] = buf[used]
        /\ pc = "refreshing" => idx # used
        /\ \A b \in Bucket :
              b < idx /\ ~ro /\ IsCopy(b) => media[b].val = buf[used].val
        /\ \A b \in Bucket :
              b > idx \/ (b = idx /\ pc = "refresh") =>
                  buf[b] \in {media[b], Broken}

\* While a save goes on, the buckets behind the loop hold its value if
\* anything, and at least one does once a write has been counted.
SaveInv ==
    Saving =>
        /\ cur \in live /\ ~durable
        /\ \A b \in Bucket : b < idx /\ IsCopy(b) => media[b].val = cur
        /\ written > 0 => \E b \in Bucket : b < idx /\ IsCopy(b)

\* A bucket that is being written is not valid.
TornInv == pc \in {"refreshing", "writing"} => ~IsCopy(idx)

\* The loops over the buckets start at the first one.
LoopInv == pc \in {"off", "read"} => idx = 1

DurableInv ==
    durable => /\ \E x \in Value : live = {x}
               /\ \E b \in Bucket : IsCopy(b)

\* All of it, until a write fails and leaves an old copy where it is.
Sound ==
    /\ LoopInv /\ CopiesLive
    /\ RepairInv /\ SaveInv /\ TornInv /\ DurableInv

StorageInv == TypeOK /\ (~skipped => Sound)

\* The raw format without an algo: a write that has begun leaves no copy.
LEMMA TornIsBroken ==
    ASSUME ~Dtb, NEW old, NEW new, NEW c \in Torn(old, new)
    PROVE  c = Broken /\ c.kind # "copy"
<1>1. c = Broken
  BY DEF Torn
<1> QED
  BY <1>1 DEF Broken

LEMMA StorageInvInit == Init => StorageInv
<1> SUFFICES ASSUME Init PROVE StorageInv
  OBVIOUS
<1>1. ASSUME NEW b \in Bucket, IsCopy(b)
      PROVE  media[b].val \in live
  <2>1. PICK v \in Value : media[b] = Copy(v, Auth)
    BY <1>1 DEF Init, IsCopy, Broken, Foreign
  <2> QED
    BY <2>1 DEF Init, Copy
<1>2. TypeOK
  BY TypeInit
<1>3. LoopInv /\ RepairInv /\ SaveInv /\ TornInv /\ DurableInv
  BY DEF Init, LoopInv, RepairInv, SaveInv, TornInv, DurableInv, Saving
<1> QED
  BY <1>1, <1>2, <1>3 DEF StorageInv, Sound, CopiesLive

LEMMA StorageInvStep ==
    ASSUME ~Dtb
    PROVE  StorageInv /\ [Next]_vars => StorageInv'
<1> SUFFICES ASSUME StorageInv, [Next]_vars
             PROVE  StorageInv'
  OBVIOUS
<1>0. TypeOK /\ TypeOK'
  BY TypeStep DEF StorageInv
<1> SUFFICES ASSUME ~skipped'
             PROVE  Sound'
  BY <1>0 DEF StorageInv
<1> USE <1>0 DEF IsCopy
<1>s. ~skipped
  BY DEF Next, Start, ReadBuckets, RefreshSkip, RefreshBegin, RefreshEnd,
         RefreshFail, LoadEnd, SetVar, Exit, SaveBegin, WriteBegin, WriteEnd,
         WriteFail, SaveEnd, Crash, vars, history, TypeOK
<1>p. Sound
  BY <1>s DEF StorageInv
<1>1. ASSUME NEW r \in BOOLEAN, NEW f \in BOOLEAN, Start(r, f)
      PROVE  Sound'
  BY <1>1, <1>p DEF Sound, Start, history, LoopInv, CopiesLive, RepairInv,
     SaveInv, TornInv, DurableInv, Saving
<1>2. CASE ReadBuckets
  <2>1. PICK errs \in SUBSET Bucket :
           buf' = [b \in Bucket |-> IF b \in errs THEN Broken ELSE media[b]]
    BY <1>2 DEF ReadBuckets
  <2>2. UNCHANGED <<media, ro, idx, cur, live, durable>> /\ pc = "read"
    BY <1>2 DEF ReadBuckets, history
  <2>3. CopiesLive' /\ DurableInv'
    BY <2>2, <1>p DEF Sound, CopiesLive, DurableInv
  <2>4. pc' \in {"idle", "refresh"}
    BY <1>2 DEF ReadBuckets
  <2>5. LoopInv' /\ SaveInv' /\ TornInv'
    BY <2>4 DEF LoopInv, SaveInv, TornInv, Saving
  <2>6. ASSUME pc' = "refresh"
        PROVE  used' \in Bucket /\ buf'[used'].kind = "copy"
    BY <1>2, <2>6 DEF ReadBuckets, FirstVerified, FirstValid, Verified
  <2>7. \A b \in Bucket : buf'[b] \in {media[b], Broken}
    BY <2>1
  <2>8. Broken.kind # "copy"
    BY DEF Broken
  <2>9. idx = 1
    BY <2>2, <1>p DEF Sound, LoopInv
  <2>10. RepairInv'
    BY <2>2, <2>4, <2>6, <2>7, <2>8, <2>9 DEF RepairInv, Bucket
  <2> QED
    BY <2>3, <2>5, <2>10 DEF Sound
<1>3. CASE RefreshSkip
  BY <1>3, <1>p DEF Sound, RefreshSkip, history, LoopInv, CopiesLive,
     RepairInv, SaveInv, TornInv, DurableInv, Saving, Differs, Broken, Bucket,
     TypeOK
<1>4. CASE RefreshBegin
  <2>1. /\ media' = [media EXCEPT ![idx] = Broken]
        /\ Broken.kind # "copy"
    BY <1>4, TornIsBroken DEF RefreshBegin
  <2>2. idx # used /\ idx \in Bucket /\ used \in Bucket
    BY <1>4, <1>p DEF Sound, RefreshBegin, RepairInv, Differs, TypeOK, Bucket
  <2>3. /\ pc = "refresh" /\ pc' = "refreshing"
        /\ UNCHANGED <<ro, buf, used, idx, cur, live, durable>>
    BY <1>4 DEF RefreshBegin, history
  <2> QED
    BY <2>1, <2>2, <2>3, <1>p DEF Sound, LoopInv, CopiesLive, RepairInv,
       SaveInv, TornInv, DurableInv, Saving, TypeOK, Bucket
<1>5. CASE RefreshEnd
  <2>1. /\ media' = [media EXCEPT ![idx] = Refreshed(buf[used])]
        /\ Refreshed(buf[used]).kind = "copy"
        /\ Refreshed(buf[used]).val = buf[used].val
    BY <1>5 DEF RefreshEnd, Refreshed, Copy
  <2>2. /\ pc = "refreshing" /\ pc' = "refresh" /\ idx' = idx + 1
        /\ UNCHANGED <<ro, buf, used, cur, live, durable>>
    BY <1>5 DEF RefreshEnd, history
  <2>3. idx # used /\ idx \in Bucket /\ used \in Bucket
    BY <2>2, <1>p DEF Sound, RepairInv, TypeOK
  <2> QED
    BY <2>1, <2>2, <2>3, <1>p DEF Sound, LoopInv, CopiesLive, RepairInv,
       SaveInv, TornInv, DurableInv, Saving, TypeOK, Bucket
<1>6. CASE RefreshFail
  <2>1. /\ pc \in {"refresh", "refreshing"} /\ pc' = "refresh" /\ idx' = idx + 1
        /\ UNCHANGED <<ro, buf, used, cur, live, durable>>
    BY <1>6 DEF RefreshFail
  <2>2. idx \in Bucket /\ used \in Bucket
    BY <1>6, <2>1 DEF RefreshFail, TypeOK, Bucket
  <2>3. CASE media' = media
    BY <1>6, <2>1, <2>2, <2>3, <1>p DEF RefreshFail, Sound, LoopInv,
       CopiesLive, RepairInv, SaveInv, TornInv, DurableInv, Saving, Bucket,
       TypeOK
  <2>4. CASE media' # media
    <3>1. pc = "refreshing"
      BY <1>6, <2>4 DEF RefreshFail
    <3>2. PICK c \in AfterFailure(idx, Refreshed(buf[used])) :
             media' = [media EXCEPT ![idx] = c]
      BY <1>6, <3>1 DEF RefreshFail
    <3>3. c = Refreshed(buf[used])
      BY <2>2, <2>4, <3>2 DEF AfterFailure, TypeOK
    <3>4. c.kind = "copy" /\ c.val = buf[used].val
      BY <3>3 DEF Refreshed, Copy
    <3> QED
      BY <2>1, <2>2, <3>1, <3>2, <3>4, <1>p DEF Sound, LoopInv, CopiesLive,
         RepairInv, SaveInv, TornInv, DurableInv, Saving, TypeOK, Bucket
  <2> QED
    BY <2>3, <2>4
<1>7. CASE LoadEnd
  <2>1. pc = "refresh" /\ idx = N + 1 /\ pc' = "idle" /\ media' = media
    BY <1>7 DEF LoadEnd
  <2>2. LoopInv' /\ RepairInv' /\ SaveInv' /\ TornInv'
    BY <2>1 DEF LoopInv, RepairInv, SaveInv, TornInv, Saving
  <2>3. used \in Bucket /\ IsCopy(used) /\ buf[used].val \in Value
    BY <2>1, <1>p DEF Sound, RepairInv, TypeOK, Content
  <2>4. CASE ro
    <3>1. live' = live /\ (durable' => durable)
      BY <1>7, <2>4 DEF LoadEnd
    <3> QED
      BY <2>1, <2>2, <3>1, <1>p DEF Sound, CopiesLive, DurableInv
  <2>5. CASE ~ro
    <3>1. live' = {buf[used].val}
      BY <1>7, <2>5 DEF LoadEnd
    <3>2. \A b \in Bucket : b < idx
      BY <2>1, StorageAssumption DEF Bucket
    <3>3. \A b \in Bucket : IsCopy(b) => media[b].val = buf[used].val
      BY <2>1, <2>5, <3>2, <1>p DEF Sound, RepairInv
    <3> QED
      BY <2>1, <2>2, <2>3, <3>1, <3>3 DEF Sound, CopiesLive, DurableInv
  <2> QED
    BY <2>4, <2>5
<1>8. ASSUME NEW v \in Value \ {Garbled}, SetVar(v)
      PROVE  Sound'
  BY <1>8, <1>p DEF Sound, SetVar, history, LoopInv, CopiesLive,
     RepairInv, SaveInv, TornInv, DurableInv, Saving
<1>9. CASE Exit
  BY <1>9, <1>p DEF Sound, Exit, Fresh, history, LoopInv, CopiesLive,
     RepairInv, SaveInv, TornInv, DurableInv, Saving
<1>10. CASE SaveBegin
  BY <1>10, <1>p DEF Sound, SaveBegin, LoopInv, CopiesLive,
     RepairInv, SaveInv, TornInv, DurableInv, Saving, Bucket
<1>11. CASE WriteBegin
  <2>1. /\ media' = [media EXCEPT ![idx] = Broken]
        /\ Broken.kind # "copy"
    BY <1>11, TornIsBroken DEF WriteBegin
  <2>2. /\ pc = "save" /\ pc' = "writing" /\ idx \in Bucket
        /\ UNCHANGED <<ro, buf, used, idx, written, cur, live, durable>>
    BY <1>11 DEF WriteBegin, history, TypeOK, Bucket
  <2> QED
    BY <2>1, <2>2, <1>p DEF Sound, LoopInv, CopiesLive, RepairInv,
       SaveInv, TornInv, DurableInv, Saving, TypeOK, Bucket
<1>12. CASE WriteEnd
  <2>1. /\ media' = [media EXCEPT ![idx] = Pack(cur)]
        /\ Pack(cur).kind = "copy" /\ Pack(cur).val = cur
    BY <1>12 DEF WriteEnd, Pack, Copy
  <2>2. /\ pc = "writing" /\ pc' = "save" /\ idx \in Bucket /\ idx' = idx + 1
        /\ UNCHANGED <<ro, buf, used, cur, live, durable>>
    BY <1>12 DEF WriteEnd, history, TypeOK
  <2> QED
    BY <2>1, <2>2, <1>p DEF Sound, LoopInv, CopiesLive, RepairInv,
       SaveInv, TornInv, DurableInv, Saving, TypeOK, Bucket
<1>13. CASE WriteFail
  <2>1. /\ pc \in {"save", "writing"} /\ pc' = "save" /\ idx' = idx + 1
        /\ UNCHANGED <<ro, buf, used, written, cur, live, durable>>
    BY <1>13 DEF WriteFail
  <2>2. idx \in Bucket
    BY <1>13, <2>1 DEF WriteFail, TypeOK, Bucket
  <2>3. CASE media' = media
    BY <1>13, <2>1, <2>2, <2>3, <1>p DEF WriteFail, Sound, LoopInv,
       CopiesLive, RepairInv, SaveInv, TornInv, DurableInv, Saving, Bucket,
       TypeOK
  <2>4. CASE media' # media
    <3>1. pc = "writing"
      BY <1>13, <2>4 DEF WriteFail
    <3>2. PICK c \in AfterFailure(idx, Pack(cur)) :
             media' = [media EXCEPT ![idx] = c]
      BY <1>13, <3>1 DEF WriteFail
    <3>3. c = Pack(cur)
      BY <2>2, <2>4, <3>2 DEF AfterFailure, TypeOK
    <3>4. c.kind = "copy" /\ c.val = cur
      BY <3>3 DEF Pack, Copy
    <3> QED
      BY <2>1, <2>2, <3>1, <3>2, <3>4, <1>p DEF Sound, LoopInv, CopiesLive,
         RepairInv, SaveInv, TornInv, DurableInv, Saving, TypeOK, Bucket
  <2> QED
    BY <2>3, <2>4
<1>14. CASE SaveEnd
  <2>1. pc = "save" /\ idx = N + 1 /\ media' = media
    BY <1>14 DEF SaveEnd
  <2>2. pc' = "off" /\ idx' = 1
    BY <1>14 DEF SaveEnd, Fresh
  <2>3. LoopInv' /\ RepairInv' /\ SaveInv' /\ TornInv'
    BY <2>2 DEF LoopInv, RepairInv, SaveInv, TornInv, Saving
  <2>4. CASE ~SaveSucceeds
    <3>1. live' = live /\ ~durable'
      BY <1>14, <2>4 DEF SaveEnd
    <3> QED
      BY <2>1, <2>3, <3>1, <1>p DEF Sound, CopiesLive, DurableInv
  <2>5. CASE SaveSucceeds
    <3>1. live' = {cur} /\ cur \in Value
      BY <1>14, <2>5 DEF SaveEnd, TypeOK
    <3>2. \A b \in Bucket : b < idx
      BY <2>1, StorageAssumption DEF Bucket
    <3>3. /\ \A b \in Bucket : IsCopy(b) => media[b].val = cur
          /\ \E b \in Bucket : IsCopy(b)
      BY <2>1, <2>5, <3>2, <1>p DEF Sound, SaveInv, Saving, SaveSucceeds, TypeOK
    <3> QED
      BY <2>1, <2>3, <3>1, <3>3 DEF Sound, CopiesLive, DurableInv
  <2> QED
    BY <2>4, <2>5
<1>15. CASE Crash
  BY <1>15, <1>p DEF Sound, Crash, Fresh, history, LoopInv, CopiesLive,
     RepairInv, SaveInv, TornInv, DurableInv, Saving
<1>16. CASE UNCHANGED vars
  BY <1>16, <1>p DEF Sound, vars, process, history, LoopInv, CopiesLive,
     RepairInv, SaveInv, TornInv, DurableInv, Saving
<1> QED
  BY <1>1, <1>2, <1>3, <1>4, <1>5, <1>6, <1>7, <1>8, <1>9, <1>10, <1>11,
     <1>12, <1>13, <1>14, <1>15, <1>16 DEF Next

\* The first valid bucket exists as soon as there is a valid one.
LEMMA FirstValidExists ==
    ASSUME NEW m, NEW na, NEW b \in Bucket, Verified(m[b], na)
    PROVE  \E a \in Bucket : FirstValid(m, na, a)
<1> DEFINE T == {a \in Bucket : Verified(m[a], na)}
<1> DEFINE R == {p \in Nat \X Nat : p[1] < p[2]}
<1>1. T \subseteq Nat /\ T # {}
  BY StorageAssumption DEF Bucket
<1>2. IsWellFoundedOn(R, Nat)
  BY NatLessThanWellFounded DEF OpToRel
<1> HIDE DEF R
<1>3. \E x \in T : \A y \in T : ~(<<y, x>> \in R)
  BY <1>1, <1>2, WFMin
<1>4. PICK x \in T : \A y \in T : ~(<<y, x>> \in R)
  BY <1>3
<1>5. \A y \in T : ~(y < x)
  BY <1>1, <1>4 DEF R
<1> QED
  BY <1>4, <1>5 DEF FirstValid

\* For every number of buckets: with the raw format, with or without an HMAC,
\* and until a write of a bucket fails without damage to what it held, no
\* crash, failing read or failing write makes a load return anything but the
\* last saved value or that of a save that was cut off.
THEOREM NoRollbackHolds ==
    ASSUME ~Dtb
    PROVE  Spec => []NoRollback
<1>1. StorageInv => NoRollback
  BY DEF StorageInv, Sound, CopiesLive, IsCopy, NoRollback, LatestFirst,
         FirstValid, Verified
<1> QED
  BY <1>1, StorageInvInit, StorageInvStep, PTL DEF Spec

\* Under the same conditions a value that state_save reported as saved, or
\* that a load has shown after its repair, is what the next load returns.
THEOREM DurableHolds ==
    ASSUME ~Auth, ~Dtb
    PROVE  Spec => []Durable
<1>1. StorageInv => Durable
  <2> SUFFICES ASSUME StorageInv, durable, ~skipped
               PROVE  \E b \in Bucket : /\ FirstValid(media, FALSE, b)
                                        /\ live = {media[b].val}
    BY DEF Durable
  <2>1. PICK x \in Value : live = {x}
    BY DEF StorageInv, Sound, DurableInv
  <2>2. PICK c \in Bucket : Verified(media[c], FALSE)
    BY DEF StorageInv, Sound, DurableInv, IsCopy, Verified
  <2>3. PICK b \in Bucket : FirstValid(media, FALSE, b)
    BY <2>2, FirstValidExists
  <2>4. media[b].val \in live
    BY <2>3 DEF StorageInv, Sound, CopiesLive, IsCopy, FirstValid, Verified
  <2> QED
    BY <2>1, <2>3, <2>4
<1> QED
  BY <1>1, StorageInvInit, StorageInvStep, PTL DEF Spec

-----------------------------------------------------------------------------
(* Valid data at any time, with crashes as the only fault. *)

\* With crashes as the only fault: every bucket behind a repair or a save is
\* a copy; a run that may save has either repaired all buckets or found none.
CrashInv ==
    /\ ~skipped
    /\ pc \in {"refresh", "refreshing"} /\ ~ro =>
          \A b \in Bucket : b < idx => IsCopy(b)
    /\ pc = "idle" /\ ~ro =>
          \A b \in Bucket : IsCopy(b) <=> used # 0
    /\ Saving =>
          /\ \A b \in Bucket : b < idx => IsCopy(b)
          /\ \A b \in Bucket :
                b > idx \/ (b = idx /\ pc = "save") => (IsCopy(b) <=> used # 0)

LEMMA CrashInvStep ==
    ASSUME ~Auth, ~Dtb, Faults \subseteq {"crash"}
    PROVE  StorageInv /\ CrashInv /\ [Next]_vars => CrashInv'
<1> SUFFICES ASSUME StorageInv, CrashInv, [Next]_vars
             PROVE  CrashInv'
  OBVIOUS
<1>0. TypeOK /\ TypeOK' /\ RepairInv
  BY TypeStep DEF StorageInv, Sound, CrashInv
<1> USE <1>0 DEF IsCopy, history
<1>1. ASSUME NEW r \in BOOLEAN, NEW f \in BOOLEAN, Start(r, f)
      PROVE  CrashInv'
  BY <1>1 DEF Start, CrashInv, Saving
<1>2. CASE ReadBuckets
  <2>1. buf' = media
    BY <1>2 DEF ReadBuckets, TypeOK
  <2>2. media' = media /\ idx' = idx /\ idx = 1 /\ ~skipped'
    BY <1>2 DEF ReadBuckets, StorageInv, Sound, LoopInv, CrashInv
  <2>3. CASE pc' = "idle"
    <3>1. used' = 0 /\ \A b \in Bucket : ~Verified(buf'[b], force)
      BY <1>2, <2>3 DEF ReadBuckets
    <3>2. \A b \in Bucket : media[b].kind # "copy"
      BY <3>1, <2>1 DEF Verified
    <3> QED
      BY <2>2, <2>3, <3>1, <3>2 DEF CrashInv, Saving
  <2>4. CASE pc' = "refresh"
    BY <2>2, <2>4 DEF CrashInv, Saving, Bucket
  <2> QED
    BY <1>2, <2>3, <2>4 DEF ReadBuckets
<1>3. CASE RefreshSkip
  BY <1>3 DEF RefreshSkip, CrashInv, RepairInv, Saving, Differs, Broken,
     Bucket, TypeOK
<1>4. CASE RefreshBegin
  <2>1. media' = [media EXCEPT ![idx] = Broken]
    BY <1>4, TornIsBroken DEF RefreshBegin
  <2> QED
    BY <1>4, <2>1 DEF RefreshBegin, CrashInv, Saving, TypeOK, Bucket
<1>5. CASE RefreshEnd
  <2>1. /\ media' = [media EXCEPT ![idx] = Refreshed(buf[used])]
        /\ Refreshed(buf[used]).kind = "copy"
    BY <1>5 DEF RefreshEnd, Refreshed, Copy
  <2> QED
    BY <1>5, <2>1 DEF RefreshEnd, CrashInv, Saving, TypeOK, Bucket
<1>6. CASE RefreshFail
  <2>1. ro /\ pc' = "refresh" /\ ro' = ro /\ ~skipped' /\ media' = media
    BY <1>6 DEF RefreshFail, CrashInv
  <2> QED
    BY <2>1 DEF CrashInv, Saving
<1>7. CASE LoadEnd
  <2>1. /\ pc = "refresh" /\ idx = N + 1 /\ pc' = "idle"
        /\ UNCHANGED <<media, ro, used, skipped>>
    BY <1>7 DEF LoadEnd
  <2>2. used # 0 /\ \A b \in Bucket : b < idx
    BY <2>1, StorageAssumption DEF TypeOK, Bucket
  <2> QED
    BY <2>1, <2>2 DEF CrashInv, Saving
<1>8. ASSUME NEW v \in Value \ {Garbled}, SetVar(v)
      PROVE  CrashInv'
  BY <1>8 DEF SetVar, CrashInv, Saving
<1>9. CASE Exit
  BY <1>9 DEF Exit, Fresh, CrashInv, Saving
<1>10. CASE SaveBegin
  BY <1>10 DEF SaveBegin, MaySave, CrashInv, Saving, Bucket
<1>11. CASE WriteBegin
  <2>1. media' = [media EXCEPT ![idx] = Broken]
    BY <1>11, TornIsBroken DEF WriteBegin
  <2> QED
    BY <1>11, <2>1 DEF WriteBegin, CrashInv, Saving, TypeOK, Bucket
<1>12. CASE WriteEnd
  <2>1. /\ media' = [media EXCEPT ![idx] = Pack(cur)]
        /\ Pack(cur).kind = "copy"
    BY <1>12 DEF WriteEnd, Pack, Copy
  <2> QED
    BY <1>12, <2>1 DEF WriteEnd, CrashInv, Saving, TypeOK, Bucket
<1>13. CASE WriteFail
  BY <1>13 DEF WriteFail
<1>14. CASE SaveEnd
  BY <1>14 DEF SaveEnd, Fresh, CrashInv, Saving
<1>15. CASE Crash
  BY <1>15 DEF Crash, Fresh, CrashInv, Saving
<1>16. CASE UNCHANGED vars
  BY <1>16 DEF vars, process, CrashInv, Saving
<1> QED
  BY <1>1, <1>2, <1>3, <1>4, <1>5, <1>6, <1>7, <1>8, <1>9, <1>10, <1>11,
     <1>12, <1>13, <1>14, <1>15, <1>16 DEF Next

\* The only steps that damage a bucket are the first of a repair and the first
\* of a write, and both leave a copy elsewhere.
LEMMA LoadableStep ==
    ASSUME ~Auth, ~Dtb, N >= 2, Faults \subseteq {"crash"}
    PROVE  StorageInv /\ CrashInv /\ [Next]_vars => (Loadable => Loadable')
<1> SUFFICES ASSUME StorageInv, CrashInv, [Next]_vars, Loadable
             PROVE  Loadable'
  OBVIOUS
<1>0. TypeOK /\ RepairInv
  BY DEF StorageInv, Sound, CrashInv
<1>1. (\E b \in Bucket : IsCopy(b)') => Loadable'
  BY DEF Loadable, Verified, IsCopy
<1>2. PICK c \in Bucket : IsCopy(c)
  BY DEF Loadable, Verified, IsCopy
<1>3. CASE media' = media
  BY <1>1, <1>2, <1>3 DEF IsCopy
<1>4. CASE RefreshBegin
  <2>1. media' = [media EXCEPT ![idx] = Broken]
    BY <1>4, TornIsBroken DEF RefreshBegin
  <2>2. idx # used /\ used \in Bucket /\ IsCopy(used)
    BY <1>4, <1>0 DEF RefreshBegin, RepairInv, Differs, IsCopy, TypeOK
  <2> QED
    BY <1>0, <1>1, <2>1, <2>2 DEF IsCopy, TypeOK
<1>5. CASE RefreshEnd
  <2>1. /\ media' = [media EXCEPT ![idx] = Refreshed(buf[used])]
        /\ Refreshed(buf[used]).kind = "copy"
    BY <1>5 DEF RefreshEnd, Refreshed, Copy
  <2> QED
    BY <1>0, <1>1, <1>5, <2>1 DEF RefreshEnd, IsCopy, TypeOK
<1>6. CASE WriteBegin
  <2>1. media' = [media EXCEPT ![idx] = Broken]
    BY <1>6, TornIsBroken DEF WriteBegin
  <2>2. pc = "save" /\ idx \in Bucket
    BY <1>0, <1>6 DEF WriteBegin, TypeOK, Bucket
  <2>3. \E b \in Bucket : b # idx /\ IsCopy(b)
    <3>1. CASE c # idx
      BY <1>2, <3>1
    <3>2. CASE c = idx
      <4>1. used # 0
        BY <1>2, <2>2, <3>2 DEF CrashInv, Saving
      <4>2. \A b \in Bucket : IsCopy(b)
        BY <2>2, <4>1, StorageAssumption DEF CrashInv, Saving, Bucket
      <4>3. \E b \in Bucket : b # idx
        BY <2>2, StorageAssumption DEF Bucket
      <4> QED
        BY <4>2, <4>3
    <3> QED
      BY <3>1, <3>2
  <2> QED
    BY <1>0, <1>1, <2>1, <2>3 DEF IsCopy, TypeOK
<1>7. CASE WriteEnd
  <2>1. /\ media' = [media EXCEPT ![idx] = Pack(cur)]
        /\ Pack(cur).kind = "copy"
    BY <1>7 DEF WriteEnd, Pack, Copy
  <2> QED
    BY <1>0, <1>1, <1>7, <2>1 DEF WriteEnd, IsCopy, TypeOK
<1> QED
  BY <1>3, <1>4, <1>5, <1>6, <1>7
  DEF Next, Start, ReadBuckets, RefreshSkip, RefreshFail, LoadEnd, SetVar,
      Exit, SaveBegin, WriteFail, SaveEnd, Crash, vars

\* For every number of buckets from two on: as long as crashes are the only
\* fault, a raw state without an algo that is once on the device can be loaded
\* at any later time.
THEOREM ValidDataAtAnyTimeHolds ==
    ASSUME ~Auth, ~Dtb, N >= 2, Faults \subseteq {"crash"}
    PROVE  Spec => ValidDataAtAnyTime
<1>1. Init => CrashInv
  BY DEF Init, CrashInv, Saving
<1> QED
  BY <1>1, StorageInvInit, StorageInvStep, CrashInvStep, LoadableStep, PTL
  DEF Spec, ValidDataAtAnyTime
-----------------------------------------------------------------------------
(* What a load returns and repairs, and that the buckets together implement *)
(* the one register of AtomicStore.                                         *)

Repairing == pc \in {"refresh", "refreshing"}

\* The contents that a write leaves behind: torn, refreshed or packed.
LEMMA WrittenContents ==
    /\ Broken.kind = "broken"
    /\ \A u : Refreshed(u).kind = "copy" /\ Refreshed(u).val = u.val
    /\ \A v : Pack(v).kind = "copy" /\ Pack(v).val = v
    /\ \A old, new : \A c \in Torn(old, new) : c.kind # "foreign"
<1>1. Broken.kind = "broken"
  BY DEF Broken
<1>2. \A u : Refreshed(u).kind = "copy" /\ Refreshed(u).val = u.val
  BY DEF Refreshed, Copy
<1>3. \A v : Pack(v).kind = "copy" /\ Pack(v).val = v
  BY DEF Pack, Copy
<1>4. ASSUME NEW old, NEW new, NEW c \in Torn(old, new)
      PROVE  c.kind # "foreign"
  <2>1. c = Broken \/ c = Copy(Garbled, FALSE)
    BY Zenon DEF Torn
  <2>2. Copy(Garbled, FALSE).kind = "copy"
    BY DEF Copy
  <2> QED
    BY <1>1, <2>1, <2>2
<1> QED
  BY <1>1, <1>2, <1>3, <1>4

-----------------------------------------------------------------------------
(* Consistency before a save: crashes and failing reads. *)

\* What a run that may write has repaired holds the loaded value.
ConsistentInv ==
    /\ ~skipped
    /\ Repairing /\ ~ro => \A b \in Bucket : b < idx => IsCopy(b)
    /\ ConsistentWhenLoaded

LEMMA ConsistentInvStep ==
    ASSUME ~Dtb, Faults \subseteq {"crash", "readerr"}
    PROVE  StorageInv /\ ConsistentInv /\ [Next]_vars => ConsistentInv'
<1> SUFFICES ASSUME StorageInv, ConsistentInv, [Next]_vars
             PROVE  ConsistentInv'
  OBVIOUS
<1>0. TypeOK /\ TypeOK' /\ RepairInv /\ LoopInv
  BY TypeStep DEF StorageInv, Sound, ConsistentInv
<1> USE <1>0 DEF IsCopy, Repairing, history
<1>1. ASSUME NEW r \in BOOLEAN, NEW f \in BOOLEAN, Start(r, f)
      PROVE  ConsistentInv'
  BY <1>1 DEF Start, ConsistentInv, ConsistentWhenLoaded
<1>2. CASE ReadBuckets
  <2>1. /\ idx' = 1 /\ ~skipped'
        /\ pc' = "refresh" \/ (pc' = "idle" /\ used' = 0)
    BY <1>2 DEF ReadBuckets, LoopInv, ConsistentInv
  <2> QED
    BY <2>1 DEF ConsistentInv, ConsistentWhenLoaded, Bucket
<1>3. CASE RefreshSkip
  BY <1>3 DEF RefreshSkip, ConsistentInv, ConsistentWhenLoaded, RepairInv,
     Differs, Broken, Bucket, TypeOK
<1>4. CASE RefreshBegin
  <2>1. media' = [media EXCEPT ![idx] = Broken]
    BY <1>4, TornIsBroken DEF RefreshBegin
  <2> QED
    BY <1>4, <2>1 DEF RefreshBegin, ConsistentInv, ConsistentWhenLoaded,
       TypeOK, Bucket
<1>5. CASE RefreshEnd
  BY <1>5, WrittenContents DEF RefreshEnd, ConsistentInv,
     ConsistentWhenLoaded, TypeOK, Bucket
<1>6. CASE RefreshFail
  <2>1. ro /\ pc' = "refresh" /\ ro' = ro /\ ~skipped'
    BY <1>6 DEF RefreshFail, ConsistentInv
  <2> QED
    BY <2>1 DEF ConsistentInv, ConsistentWhenLoaded
<1>7. CASE LoadEnd
  <2>1. /\ pc = "refresh" /\ idx = N + 1 /\ pc' = "idle"
        /\ UNCHANGED <<media, ro, buf, used, skipped>>
    BY <1>7 DEF LoadEnd
  <2>2. \A b \in Bucket : b < idx
    BY <2>1, StorageAssumption DEF Bucket
  <2>3. ~ro => \A b \in Bucket : IsCopy(b) /\ media[b].val = buf[used].val
    BY <2>1, <2>2 DEF ConsistentInv, RepairInv
  <2> QED
    BY <2>1, <2>3 DEF ConsistentInv, ConsistentWhenLoaded
<1>8. ASSUME NEW v \in Value \ {Garbled}, SetVar(v)
      PROVE  ConsistentInv'
  BY <1>8 DEF SetVar, ConsistentInv, ConsistentWhenLoaded
<1>9. ASSUME Fresh, UNCHANGED skipped
      PROVE  ConsistentInv'
  BY <1>9 DEF Fresh, ConsistentInv, ConsistentWhenLoaded
<1>10. ASSUME SaveBegin \/ WriteBegin \/ WriteEnd
       PROVE  ConsistentInv'
  BY <1>10 DEF SaveBegin, WriteBegin, WriteEnd, ConsistentInv,
     ConsistentWhenLoaded
<1>11. CASE WriteFail
  BY <1>11 DEF WriteFail
<1>12. CASE UNCHANGED vars
  BY <1>12 DEF vars, process, ConsistentInv, ConsistentWhenLoaded
<1> QED
  BY <1>1, <1>2, <1>3, <1>4, <1>5, <1>6, <1>7, <1>8, <1>9, <1>10, <1>11,
     <1>12 DEF Next, Exit, SaveEnd, Crash

\* With the raw format, with or without an HMAC, for every number of buckets:
\* although reads may fail and crashes may cut off any repair, a run that may
\* save and has loaded a value finds it in every bucket.
THEOREM ConsistentWhenLoadedHolds ==
    ASSUME ~Dtb, Faults \subseteq {"crash", "readerr"}
    PROVE  Spec => []ConsistentWhenLoaded
<1>1. Init => ConsistentInv
  BY DEF Init, ConsistentInv, ConsistentWhenLoaded, Repairing
<1>2. ConsistentInv => ConsistentWhenLoaded
  BY DEF ConsistentInv
<1> QED
  BY <1>1, <1>2, StorageInvInit, StorageInvStep, ConsistentInvStep, PTL
  DEF Spec

-----------------------------------------------------------------------------
(* What a load returns: every fault but a failing read. *)

\* The used bucket is intact and first: what is before it holds its value, if
\* anything.  What the loop has not come to is as it was read.
SeenInv ==
    /\ Repairing \/ (pc = "idle" /\ used # 0) =>
          /\ IsCopy(used) /\ media[used] = buf[used]
          /\ \A b \in Bucket :
                b < used /\ IsCopy(b) => media[b].val = buf[used].val
    /\ pc = "refreshing" => idx # used
    /\ Repairing => \A b \in Bucket :
          b > idx \/ (b = idx /\ pc = "refresh") => buf[b] = media[b]
    /\ pc = "idle" /\ ~dirty => used # 0 /\ cur = buf[used].val
    /\ pc \in {"off", "read"} => idx = 1 /\ dirty

LEMMA SeenInvStep ==
    ASSUME ~Auth, ~Dtb, "readerr" \notin Faults
    PROVE  TypeOK /\ SeenInv /\ [Next]_vars => SeenInv'
<1> SUFFICES ASSUME TypeOK, SeenInv, [Next]_vars
             PROVE  SeenInv'
  OBVIOUS
<1> USE DEF IsCopy, Repairing
<1>1. ASSUME NEW r \in BOOLEAN, NEW f \in BOOLEAN, Start(r, f)
      PROVE  SeenInv'
  BY <1>1 DEF Start, SeenInv
<1>2. CASE ReadBuckets
  <2>1. UNCHANGED <<media, idx, dirty>> /\ buf' = media /\ pc = "read"
    BY <1>2 DEF ReadBuckets, TypeOK
  <2>2. CASE pc' = "refresh"
    <3>1. used' \in Bucket /\ FirstValid(media, force, used')
      BY <1>2, <2>1, <2>2 DEF ReadBuckets, FirstVerified
    <3>2. /\ media[used'].kind = "copy"
          /\ \A b \in Bucket : b < used' => media[b].kind # "copy"
      BY <3>1 DEF FirstValid, Verified
    <3> QED
      BY <2>1, <2>2, <3>2 DEF SeenInv
  <2>3. CASE pc' = "idle" /\ used' = 0
    BY <2>1, <2>3 DEF SeenInv
  <2> QED
    BY <1>2, <2>2, <2>3 DEF ReadBuckets
<1>3. CASE RefreshSkip
  BY <1>3 DEF RefreshSkip, SeenInv, TypeOK, Bucket
<1>4. CASE RefreshBegin
  <2>1. media' = [media EXCEPT ![idx] = Broken]
    BY <1>4, TornIsBroken DEF RefreshBegin
  <2>2. idx # used /\ idx \in Bucket /\ used \in Bucket
    BY <1>4 DEF SeenInv, RefreshBegin, Differs, TypeOK, Bucket
  <2> QED
    BY <1>4, <2>1, <2>2, WrittenContents DEF RefreshBegin, SeenInv, TypeOK,
       Bucket
<1>5. CASE RefreshEnd
  <2>1. idx # used /\ idx \in Bucket /\ used \in Bucket
    BY <1>5 DEF SeenInv, RefreshEnd, TypeOK
  <2> QED
    BY <1>5, <2>1, WrittenContents DEF RefreshEnd, SeenInv, TypeOK, Bucket
<1>6. CASE RefreshFail
  <2>1. /\ pc \in {"refresh", "refreshing"} /\ pc' = "refresh" /\ idx' = idx + 1
        /\ UNCHANGED <<buf, used, dirty, cur>>
    BY <1>6 DEF RefreshFail
  <2>2. idx \in Bucket /\ used \in Bucket
    BY <1>6, <2>1 DEF RefreshFail, TypeOK, Bucket
  <2>3. CASE media' = media
    BY <2>1, <2>2, <2>3 DEF SeenInv, TypeOK, Bucket
  <2>4. CASE media' # media
    <3>1. pc = "refreshing"
      BY <1>6, <2>4 DEF RefreshFail
    <3>2. PICK c \in AfterFailure(idx, Refreshed(buf[used])) :
             media' = [media EXCEPT ![idx] = c]
      BY <1>6, <3>1 DEF RefreshFail
    <3>3. c = Refreshed(buf[used])
      BY <2>2, <2>4, <3>2 DEF AfterFailure, TypeOK
    <3> QED
      BY <2>1, <2>2, <3>1, <3>2, <3>3, WrittenContents DEF SeenInv, TypeOK,
         Bucket
  <2> QED
    BY <2>3, <2>4
<1>7. CASE LoadEnd
  BY <1>7 DEF LoadEnd, Unpack, UnpackRaw, SeenInv, TypeOK, Bucket
<1>8. ASSUME NEW v \in Value \ {Garbled}, SetVar(v)
      PROVE  SeenInv'
  BY <1>8 DEF SetVar, SeenInv
<1>9. CASE Fresh
  BY <1>9 DEF Fresh, SeenInv
<1>10. ASSUME SaveBegin \/ WriteBegin \/ WriteEnd \/ WriteFail
       PROVE  SeenInv'
  BY <1>10 DEF SaveBegin, WriteBegin, WriteEnd, WriteFail, SeenInv
<1>11. CASE UNCHANGED vars
  BY <1>11 DEF vars, process, SeenInv
<1> QED
  BY <1>1, <1>2, <1>3, <1>4, <1>5, <1>6, <1>7, <1>8, <1>9, <1>10, <1>11
  DEF Next, Exit, SaveEnd, Crash

LEMMA SeenInvInit == Init => SeenInv
BY DEF Init, SeenInv, Repairing

\* A copy before which there is no other value decides what a load returns.
LEMMA FirstHoldsValue ==
    ASSUME ~Auth, NEW m, NEW u \in Bucket, m[u].kind = "copy",
           \A b \in Bucket :
              b < u /\ m[b].kind = "copy" => m[b].val = m[u].val
    PROVE  /\ \E b \in Bucket : FirstValid(m, FALSE, b)
           /\ \A b \in Bucket : FirstValid(m, FALSE, b) => m[b].val = m[u].val
<1>1. Verified(m[u], FALSE)
  BY DEF Verified
<1>2. \E b \in Bucket : FirstValid(m, FALSE, b)
  BY <1>1, FirstValidExists
<1>3. ASSUME NEW b \in Bucket, FirstValid(m, FALSE, b)
      PROVE  m[b].val = m[u].val
  <2>1. ~(u < b)
    BY <1>1, <1>3 DEF FirstValid
  <2>2. b < u \/ b = u
    BY <2>1, StorageAssumption DEF Bucket
  <2> QED
    BY <1>3, <2>2 DEF FirstValid, Verified
<1> QED
  BY <1>2, <1>3

\* Without an algo, for every number of buckets, whatever crashes and failing
\* writes happen: as long as no read fails, a clean run shows the value that
\* the next run will load, also when it is readonly and repairs nothing.
THEOREM ShowsWhatIsStoredHolds ==
    ASSUME ~Auth, ~Dtb, "readerr" \notin Faults
    PROVE  Spec => []ShowsWhatIsStored
<1>1. TypeOK /\ SeenInv => ShowsWhatIsStored
  <2> SUFFICES ASSUME TypeOK, SeenInv, pc = "idle", ~dirty
               PROVE  \E b \in Bucket :
                         FirstValid(media, FALSE, b) /\ media[b].val = cur
    BY DEF ShowsWhatIsStored
  <2>1. used \in Bucket /\ cur = buf[used].val
    BY StorageAssumption DEF SeenInv, TypeOK, Bucket
  <2>2. /\ media[used].kind = "copy" /\ media[used].val = cur
        /\ \A b \in Bucket :
              b < used /\ media[b].kind = "copy" =>
                  media[b].val = media[used].val
    BY <2>1, StorageAssumption DEF SeenInv, IsCopy, Bucket
  <2>3. /\ \E b \in Bucket : FirstValid(media, FALSE, b)
        /\ \A b \in Bucket : FirstValid(media, FALSE, b) =>
              media[b].val = media[used].val
    BY <2>1, <2>2, FirstHoldsValue
  <2> QED
    BY <2>2, <2>3
<1> QED
  BY <1>1, TypeInit, TypeStep, SeenInvInit, SeenInvStep, PTL DEF Spec

\* A step of the repair, between the two states in which it can be cut off,
\* changes neither whether there is a value nor which one.
LEMMA RepairStep ==
    ASSUME ~Auth, ~Dtb, "readerr" \notin Faults,
           TypeOK, SeenInv, RefreshBegin \/ RefreshEnd \/ RefreshFail
    PROVE  /\ \E b \in Bucket : FirstValid(media, FALSE, b)
           /\ \E b \in Bucket : FirstValid(media', FALSE, b)
           /\ \A b \in Bucket : FirstValid(media, FALSE, b) =>
                 media[b].val = buf[used].val
           /\ \A b \in Bucket : FirstValid(media', FALSE, b) =>
                 media'[b].val = buf[used].val
<1>1. SeenInv'
  <2>1. [Next]_vars
    BY DEF Next
  <2> QED
    BY <2>1, SeenInvStep
<1>2. /\ Repairing /\ Repairing' /\ used \in Bucket
      /\ UNCHANGED <<buf, used>>
  BY DEF RefreshBegin, RefreshEnd, RefreshFail, Repairing, TypeOK
<1>3. /\ media[used].kind = "copy" /\ media[used] = buf[used]
      /\ \A b \in Bucket : b < used /\ media[b].kind = "copy" =>
                              media[b].val = media[used].val
  BY <1>2 DEF SeenInv, IsCopy
<1>4. /\ media'[used].kind = "copy" /\ media'[used] = buf[used]
      /\ \A b \in Bucket : b < used /\ media'[b].kind = "copy" =>
                              media'[b].val = media'[used].val
  BY <1>1, <1>2 DEF SeenInv, IsCopy
<1>5. /\ \E b \in Bucket : FirstValid(media, FALSE, b)
      /\ \A b \in Bucket : FirstValid(media, FALSE, b) =>
            media[b].val = media[used].val
  BY <1>2, <1>3, FirstHoldsValue
<1>6. /\ \E b \in Bucket : FirstValid(media', FALSE, b)
      /\ \A b \in Bucket : FirstValid(media', FALSE, b) =>
            media'[b].val = media'[used].val
  BY <1>2, <1>4, FirstHoldsValue
<1> QED
  BY <1>3, <1>4, <1>5, <1>6

\* Under the same conditions no load, no repair and no crash changes the value
\* that the next load returns; only a save does.
THEOREM RepairKeepsLoadableHolds ==
    ASSUME ~Auth, ~Dtb, "readerr" \notin Faults
    PROVE  Spec => RepairKeepsLoadable
<1> DEFINE Kept == \A b \in Bucket : FirstValid(media, FALSE, b) =>
                     \E a \in Bucket : /\ FirstValid(media', FALSE, a)
                                       /\ media'[a].val = media[b].val
<1>1. TypeOK /\ SeenInv /\ [Next]_vars => [~Saving => Kept]_vars
  <2> SUFFICES ASSUME TypeOK, SeenInv, [Next]_vars, ~Saving
               PROVE  Kept
    OBVIOUS
  <2>1. CASE media' = media
    BY <2>1
  <2>2. CASE RefreshBegin \/ RefreshEnd \/ RefreshFail
    BY <2>2, RepairStep
  <2> QED
    BY <2>1, <2>2
    DEF Next, Start, ReadBuckets, RefreshSkip, LoadEnd, SetVar,
        Exit, SaveBegin, WriteBegin, WriteEnd, WriteFail, SaveEnd, Crash,
        Saving, vars
<1> QED
  BY <1>1, TypeInit, TypeStep, SeenInvInit, SeenInvStep, PTL
  DEF Spec, RepairKeepsLoadable

-----------------------------------------------------------------------------
(* The refinement of AtomicStore, with crashes as the only fault. *)

\* While a save goes on, the buckets it has not come to still hold the value
\* that was loaded.
AheadInv ==
    Saving /\ used # 0 =>
        \A b \in Bucket : b > idx \/ (b = idx /\ pc = "save") =>
                             media[b].val = buf[used].val

RefineInv ==
    StorageInv /\ CrashInv /\ ConsistentInv /\ SeenInv /\ AheadInv

LEMMA AheadInvStep ==
    ASSUME ~Dtb
    PROVE  TypeOK /\ ConsistentInv /\ AheadInv /\ [Next]_vars => AheadInv'
<1> SUFFICES ASSUME TypeOK, ConsistentInv, AheadInv, [Next]_vars
             PROVE  AheadInv'
  OBVIOUS
<1>1. CASE SaveBegin
  BY <1>1 DEF SaveBegin, MaySave, ConsistentInv, ConsistentWhenLoaded,
     AheadInv, Saving
<1>2. CASE WriteBegin \/ WriteEnd \/ WriteFail
  <2>1. /\ UNCHANGED <<buf, used>> /\ pc \in {"save", "writing"}
        /\ \/ pc = "save" /\ pc' = "writing" /\ idx' = idx
           \/ pc' = "save" /\ idx' = idx + 1
    BY <1>2 DEF WriteBegin, WriteEnd, WriteFail
  <2>2. \A b \in Bucket : b > idx => media'[b] = media[b]
    <3>1. media' = media \/ \E c : media' = [media EXCEPT ![idx] = c]
      BY <1>2 DEF WriteBegin, WriteEnd, WriteFail
    <3>2. media \in [Bucket -> Content] /\ \A b \in Bucket : b > idx => b # idx
      BY DEF TypeOK, Bucket
    <3> QED
      BY <3>1, <3>2
  <2> QED
    BY <2>1, <2>2 DEF AheadInv, Saving, TypeOK, Bucket
<1>3. CASE UNCHANGED vars
  BY <1>3 DEF vars, process, AheadInv, Saving
<1>4. CASE pc' \in {"off", "read", "refresh", "refreshing", "idle"}
  BY <1>4 DEF AheadInv, Saving
<1> QED
  BY <1>1, <1>2, <1>3, <1>4
  DEF Next, Start, ReadBuckets, RefreshSkip, RefreshBegin, RefreshEnd,
      RefreshFail, LoadEnd, SetVar, Exit, SaveEnd, Crash, Fresh

LEMMA RefineInvStep ==
    ASSUME ~Auth, ~Dtb, Faults \subseteq {"crash"}
    PROVE  RefineInv /\ [Next]_vars => RefineInv'
BY StorageInvStep, CrashInvStep, ConsistentInvStep, SeenInvStep, AheadInvStep
DEF RefineInv, StorageInv

LEMMA RefineInvInit == Init => RefineInv
<1>1. Init => CrashInv /\ ConsistentInv /\ AheadInv
  BY DEF Init, CrashInv, ConsistentInv, ConsistentWhenLoaded, AheadInv,
         Repairing, Saving
<1> QED
  BY <1>1, StorageInvInit, SeenInvInit DEF RefineInv

\* The abstract register, as a function of the buckets.
StoredIn(m) ==
    {v \in Value : \E b \in Bucket : FirstValid(m, FALSE, b) /\ m[b].val = v}

LEMMA StoredIsFirst ==
    ASSUME ~Auth, NEW m \in [Bucket -> Content], NEW u \in Bucket,
           m[u].kind = "copy",
           \A b \in Bucket :
              b < u /\ m[b].kind = "copy" => m[b].val = m[u].val
    PROVE  StoredIn(m) = {m[u].val}
<1>1. /\ \E b \in Bucket : FirstValid(m, FALSE, b)
      /\ \A b \in Bucket : FirstValid(m, FALSE, b) => m[b].val = m[u].val
  BY FirstHoldsValue
<1>2. m[u].val \in Value
  BY DEF Content
<1> QED
  BY <1>1, <1>2 DEF StoredIn

LEMMA StoredNone ==
    ASSUME NEW m, \A b \in Bucket : m[b].kind # "copy"
    PROVE  StoredIn(m) = {}
BY DEF StoredIn, FirstValid, Verified

\* Every step of the tool is a step of the register or changes nothing of it.
LEMMA RefineStep ==
    ASSUME ~Auth, ~Dtb, N >= 2, Faults \subseteq {"crash"}
    PROVE  RefineInv /\ [Next]_vars => [Store!Next]_(Store!vars)
<1> SUFFICES ASSUME RefineInv, [Next]_vars
             PROVE  [Store!Next]_(Store!vars)
  OBVIOUS
<1>0. /\ TypeOK /\ TypeOK' /\ RepairInv /\ SaveInv /\ CrashInv /\ SeenInv
      /\ AheadInv
  BY TypeStep DEF RefineInv, StorageInv, Sound, CrashInv
<1>m. /\ media \in [Bucket -> Content] /\ media' \in [Bucket -> Content]
      /\ 1 \in Bucket /\ 2 \in Bucket
      /\ \A b \in Bucket : ~(b < 1) /\ (b < 2 => b = 1)
  BY <1>0, StorageAssumption DEF TypeOK, Bucket
<1>s. Stored = StoredIn(media) /\ Stored' = StoredIn(media')
  BY DEF Stored, StoredIn
<1>r. /\ Saving => Requested = {cur}
      /\ ~Saving => Requested = {}
      /\ Saving' => Requested' = {cur'}
      /\ ~Saving' => Requested' = {}
  BY DEF Requested
<1>e. ASSUME UNCHANGED <<Stored, Requested, durable>>
      PROVE  [Store!Next]_(Store!vars)
  BY <1>e DEF Store!vars
<1>w. Saving /\ idx > 1 => /\ media[1].kind = "copy" /\ media[1].val = cur
                           /\ Stored = {cur}
  BY <1>0, <1>m, <1>s, StoredIsFirst DEF SaveInv, CrashInv, IsCopy
<1>1. CASE UNCHANGED <<media, durable>> /\ ~Saving /\ ~Saving'
  BY <1>1, <1>e, <1>s, <1>r
<1>2. CASE RefreshBegin \/ RefreshEnd
  <2>1. ~Saving /\ ~Saving' /\ UNCHANGED durable
    BY <1>2 DEF RefreshBegin, RefreshEnd, Saving, history
  <2>2. Stored' = Stored
    <3>1. "readerr" \notin Faults
      OBVIOUS
    <3>2. /\ \E b \in Bucket : FirstValid(media, FALSE, b)
          /\ \E b \in Bucket : FirstValid(media', FALSE, b)
          /\ \A b \in Bucket : FirstValid(media, FALSE, b) =>
                media[b].val = buf[used].val
          /\ \A b \in Bucket : FirstValid(media', FALSE, b) =>
                media'[b].val = buf[used].val
      BY <1>0, <1>2, <3>1, RepairStep
    <3> QED
      BY <3>2, <1>s DEF StoredIn
  <2> QED
    BY <2>1, <2>2, <1>e, <1>r
<1>3. CASE LoadEnd
  <2>1. /\ ~Saving /\ ~Saving' /\ media' = media /\ pc = "refresh"
        /\ durable' = (durable \/ ~ro)
    BY <1>3 DEF LoadEnd, Saving
  <2>2. CASE durable' = durable
    BY <2>1, <2>2, <1>1
  <2>3. CASE durable' # durable
    <3>1. durable' = TRUE
      BY <2>1, <2>3, <1>0 DEF TypeOK
    <3>2. /\ used \in Bucket /\ media[used].kind = "copy"
          /\ \A b \in Bucket : b < used /\ media[b].kind = "copy" =>
                                  media[b].val = media[used].val
      BY <2>1, <1>0 DEF TypeOK, SeenInv, Repairing, IsCopy
    <3>3. Stored # {}
      BY <3>2, <1>m, <1>s, StoredIsFirst
    <3>4. Store!Load
      BY <2>1, <3>1, <3>3, <1>s, <1>r DEF Store!Load
    <3> QED
      BY <3>4 DEF Store!Next
  <2> QED
    BY <2>2, <2>3
<1>4. CASE SaveBegin
  <2>1. /\ ~Saving /\ Saving' /\ media' = media /\ cur' = cur
        /\ durable' = FALSE
    BY <1>4 DEF SaveBegin, Saving
  <2>2. Store!Request(cur) /\ cur \in Value
    BY <2>1, <1>0, <1>s, <1>r DEF Store!Request, TypeOK
  <2> QED
    BY <2>2 DEF Store!Next
<1>5. CASE WriteBegin
  <2>1. /\ media' = [media EXCEPT ![idx] = Broken]
        /\ Broken.kind # "copy"
    BY <1>5, TornIsBroken DEF WriteBegin
  <2>2. /\ Saving /\ Saving' /\ pc = "save" /\ idx \in Bucket
        /\ UNCHANGED <<cur, durable>>
    BY <1>5, <1>0 DEF WriteBegin, Saving, history, TypeOK, Bucket
  <2>3. CASE idx > 1
    <3>1. media'[1] = media[1]
      BY <2>1, <2>3, <1>m
    <3>2. Stored' = {cur}
      BY <2>2, <2>3, <3>1, <1>m, <1>s, <1>w, StoredIsFirst
    <3> QED
      BY <2>2, <2>3, <3>2, <1>e, <1>r, <1>w
  <2>4. CASE idx = 1 /\ used = 0
    <3>1. \A b \in Bucket : b > idx \/ b = idx
      BY <2>4, StorageAssumption DEF Bucket
    <3>2. \A b \in Bucket : media[b].kind # "copy"
      BY <2>2, <2>4, <3>1, <1>0 DEF CrashInv, IsCopy
    <3>3. \A b \in Bucket : media'[b].kind # "copy"
      BY <2>1, <3>2, <1>m
    <3>4. Stored = {} /\ Stored' = {}
      BY <3>2, <3>3, <1>s, StoredNone
    <3> QED
      BY <2>2, <3>4, <1>e, <1>r
  <2>5. CASE idx = 1 /\ used # 0
    <3>1. \A b \in Bucket : b > idx \/ b = idx
      BY <2>5, StorageAssumption DEF Bucket
    <3>2. \A b \in Bucket :
             media[b].kind = "copy" /\ media[b].val = buf[used].val
      BY <2>2, <2>5, <3>1, <1>0 DEF CrashInv, AheadInv, IsCopy
    <3>3. media'[2] = media[2] /\ media'[1] = Broken
      BY <2>1, <2>5, <1>m
    <3>4. Stored = {media[1].val}
      BY <3>2, <1>m, <1>s, StoredIsFirst
    <3>5. /\ media'[2].kind = "copy"
          /\ \A b \in Bucket : ~(b < 2 /\ media'[b].kind = "copy")
      BY <2>1, <3>2, <3>3, <1>m
    <3>6. Stored' = {media'[2].val}
      BY <3>5, <1>m, <1>s, StoredIsFirst
    <3> QED
      BY <2>2, <3>2, <3>3, <3>4, <3>6, <1>m, <1>e, <1>r
  <2> QED
    BY <2>2, <2>3, <2>4, <2>5, StorageAssumption DEF Bucket
<1>6. CASE WriteEnd
  <2>1. /\ media' = [media EXCEPT ![idx] = Pack(cur)]
        /\ Saving /\ Saving' /\ idx \in Bucket /\ UNCHANGED <<cur, durable>>
    BY <1>6, <1>0 DEF WriteEnd, Saving, history, TypeOK
  <2>2. media'[1].kind = "copy" /\ media'[1].val = cur
    <3>1. CASE idx = 1
      BY <2>1, <3>1, <1>m, WrittenContents
    <3>2. CASE idx > 1
      BY <2>1, <3>2, <1>m, <1>w
    <3> QED
      BY <2>1, <3>1, <3>2, StorageAssumption DEF Bucket
  <2>3. Stored' = {cur}
    BY <2>2, <1>m, <1>s, StoredIsFirst
  <2>4. Store!Apply
    BY <2>1, <2>3, <1>r DEF Store!Apply
  <2> QED
    BY <2>4 DEF Store!Next
<1>7. CASE SaveEnd
  <2>1. /\ Saving /\ ~Saving' /\ media' = media /\ idx > 1
        /\ durable' = SaveSucceeds
    BY <1>7, StorageAssumption DEF SaveEnd, Fresh, Saving
  <2>2. Stored = Requested
    BY <2>1, <1>r, <1>w
  <2>3. durable' \in {FALSE, Stored = Requested}
    <3>1. durable' \in BOOLEAN
      BY <1>0 DEF TypeOK
    <3> QED
      BY <2>2, <3>1, Zenon
  <2>4. Store!Return
    BY <2>1, <2>3, <1>r, <1>s DEF Store!Return
  <2> QED
    BY <2>4 DEF Store!Next
<1>8. CASE Crash
  <2>1. UNCHANGED <<media, durable>> /\ ~Saving'
    BY <1>8 DEF Crash, Fresh, Saving, history
  <2>2. CASE Saving
    <3>1. durable' = FALSE
      BY <2>1, <2>2, <1>0 DEF SaveInv, TypeOK
    <3>2. Store!Return
      BY <2>1, <2>2, <3>1, <1>r, <1>s DEF Store!Return
    <3> QED
      BY <3>2 DEF Store!Next
  <2> QED
    BY <2>1, <2>2, <1>1
<1>9. CASE WriteFail
  BY <1>9 DEF WriteFail
<1>10. CASE UNCHANGED vars
  BY <1>10, <1>e, <1>s, <1>r DEF vars, process, history, Saving
<1> QED
  BY <1>1, <1>2, <1>3, <1>4, <1>5, <1>6, <1>7, <1>8, <1>9, <1>10
  DEF Next, Start, ReadBuckets, RefreshSkip, RefreshFail, SetVar, Exit,
      Fresh, Saving, history

\* For every number of buckets from two on and every set of values: a raw state
\* without an algo, read, repaired and saved by a sequence of runs any of
\* which may be cut off at any point, behaves like one register that is
\* replaced as a whole.
THEOREM AtomicStoreImplemented ==
    ASSUME ~Auth, ~Dtb, N >= 2, Faults \subseteq {"crash"}
    PROVE  Spec => ImplementsAtomicStore
<1>1. Init => Store!Init
  <2> SUFFICES ASSUME Init PROVE Store!Init
    OBVIOUS
  <2>1. ASSUME NEW a \in Bucket, NEW b \in Bucket,
               FirstValid(media, FALSE, a), FirstValid(media, FALSE, b)
        PROVE  a = b
    <3>1. ~(a < b) /\ ~(b < a)
      BY <2>1 DEF FirstValid
    <3>2. a \in Nat /\ b \in Nat
      BY StorageAssumption DEF Bucket
    <3> QED
      BY <3>1, <3>2
  <2>2. Stored \in {{}} \cup {{v} : v \in Value}
    <3>1. CASE Stored = {}
      BY <3>1
    <3>2. CASE Stored # {}
      <4>1. PICK v \in Value, b \in Bucket :
               FirstValid(media, FALSE, b) /\ media[b].val = v
        BY <3>2 DEF Stored
      <4>2. Stored = {v}
        BY <2>1, <4>1 DEF Stored
      <4> QED
        BY <4>2
    <3> QED
      BY <3>1, <3>2
  <2> QED
    BY <2>2 DEF Init, Store!Init, Requested, Saving
<1> QED
  BY <1>1, RefineInvInit, RefineInvStep, RefineStep, PTL
  DEF Spec, ImplementsAtomicStore, Store!Spec
=============================================================================
