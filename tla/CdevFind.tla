------------------------------ MODULE CdevFind ------------------------------
(***************************************************************************)
(* From the backend of a state node to the buckets on a device:            *)
(* of_cdev_find with what it asks udev (libdt.c), the choice of a GPT      *)
(* partition in state_new_from_node (state.c), and state_storage_init,     *)
(* which divides the result into buckets (backend_storage.c).  Sizes are   *)
(* in bytes, as in the code; udev gives those of partitions in sectors.    *)
(*                                                                         *)
(* A machine is what udev knows: disks, each a sequence of a disk and its  *)
(* partitions in the order of enumeration, mtd devices, and an EEPROM.  A  *)
(* node is what of_cdev_find looks at of a backend node and its parents;   *)
(* region is what its author had in mind for reg, which the code only sees *)
(* as cells.                                                               *)
(***************************************************************************)
EXTENDS Integers, Sequences, SequencesExt, FiniteSetsExt

CONSTANTS
    Machines, Nodes,   \* the machines and backend nodes to look at
    Strides,           \* backend-stridesize; 0 when it is missing
    Failures,          \* sets of buckets, by number, whose creation can fail
    CellMod,           \* 2^32: values of a cell of reg and of a uint32_t
    Sector,            \* bytes per sector of udev's "start" and "size"
    STATE_GUID,        \* barebox_state_partition_guid
    NONE

desired_buckets == 3

IsList(s) == s \in Seq(Range(s)) /\ s # <<>>

\* What udev can know of a machine.  The first entry of each disk is the disk
\* itself, and an mtd device is a number of whole eraseblocks.
IsMachine(m) ==
    /\ IsList(m.disks) /\ IsList(m.mtd)
    /\ \A k \in DOMAIN m.disks :
          LET l == m.disks[k] IN
          /\ IsList(l)
          /\ \A j \in DOMAIN l :
                /\ l[j] # NONE /\ l[j].devtype = IF j = 1 THEN "disk" ELSE "partition"
                /\ l[j].medium = l[1].medium
                /\ l[j].start \in Nat /\ l[j].size \in Nat
    /\ \A k \in DOMAIN m.mtd :
          /\ m.mtd[k] # NONE /\ m.mtd[k].devtype = "mtd" /\ m.mtd[k].size \in Nat
          /\ m.mtd[k].erasesize \in Nat \ {0} /\ m.mtd[k].size % m.mtd[k].erasesize = 0
    /\ m.eeprom # NONE /\ m.eeprom.devtype = "eeprom"

\* What a node can say: it or its parent stands for some device or for none,
\* and reg has the cells it should have, each below 2^32.
IsBackend(n) ==
    /\ {n.direct, n.parent} \subseteq {"disk", "mtd", "eeprom", "odd", NONE}
    /\ n.reg # NONE =>
        /\ n.reg.a_cells \in Nat /\ n.reg.s_cells \in Nat
        /\ \A k \in 1 .. n.reg.a_cells + n.reg.s_cells :
              n.reg.cells[k] \in 0 .. CellMod - 1

ASSUME CdevAssumption ==
    /\ CellMod \in Nat \ {0} /\ Sector \in Nat /\ Strides \subseteq 0 .. CellMod - 1
    /\ NONE \notin {"disk", "mtd", "eeprom", "odd"}
    /\ \A m \in Machines : IsMachine(m)
    /\ \A n \in Nodes : IsBackend(n)

VARIABLES
    machine, node,     \* what is looked at
    cdev,              \* the result of the lookup
    buckets,           \* the buckets, as offset and length on cdev's device
    step               \* what state_new_from_node is at, or its error

cdevVars == <<machine, node, cdev, buckets, step>>

-----------------------------------------------------------------------------
(* What udev answers *)

FirstOf(s, P(_)) ==
    LET k == SelectInSeq(s, P) IN IF k = 0 THEN NONE ELSE s[k]

\* The disks one after another, each with its partitions.
AllBlock(m) ==
    LET Upto[k \in 0 .. Len(m.disks)] ==
            IF k = 0 THEN <<>> ELSE Upto[k - 1] \o m.disks[k]
    IN  Upto[Len(m.disks)]

\* of_find_device_by_uuid without a parent: the uuid of a disk's table or of a
\* partition, whichever comes first.
of_find_device_by_uuid(m, uuid) == FirstOf(AllBlock(m), LAMBDA d : d.uuid = uuid)

\* With a type uuid it looks below a disk for partitions of that type.
FindTypeUuid(list, guid) == FirstOf(list, LAMBDA d : d.guid = guid)

\* The block devices at and below a device, in the order of enumeration.
Below(m, d) ==
    IF d.devtype # "disk" THEN <<d>>
    ELSE FirstOf(m.disks, LAMBDA l : l[1] = d)

\* Mutant of region_contains: true if they have a byte in common.
region_overlaps(starta, enda, startb, endb) == starta < endb /\ startb < enda

\* True if A completely contains B
region_contains(starta, enda, startb, endb) == starta <= startb /\ enda >= endb

Cdev(d, offset, size) ==
    [dev |-> d, offset |-> offset, size |-> size, is_gpt |-> FALSE, is_block_disk |-> FALSE]

\* cdev_from_block_device: with a size, the first partition that contains the
\* region, else the first disk.
cdev_from_block_device(m, dev, offset, size) ==
    LET list == Below(m, dev)
        part == IF size = 0 THEN NONE
                ELSE FirstOf(list, LAMBDA d :
                        /\ d.devtype = "partition"
                        /\ region_contains(d.start * Sector,
                                           (d.start + d.size) * Sector,
                                           offset, offset + size))
        disk == FirstOf(list, LAMBDA d : d.devtype = "disk")
    IN  IF part # NONE
        THEN [Cdev(part, offset - part.start * Sector, size) EXCEPT !.is_gpt = part.gpt]
        ELSE IF disk # NONE THEN [Cdev(disk, offset, size) EXCEPT !.is_gpt = disk.gpt]
        ELSE NONE

-----------------------------------------------------------------------------
(* __of_cdev_find *)

\* The device whose of_path is that of the node, from the list that is made by
\* of_scan_udev_devices; kind is the device that the node stands for.
of_find_device_by_node(m, kind) ==
    CASE kind = "disk" -> m.disks[1][1]
      [] kind = "eeprom" -> m.eeprom
      [] kind = "mtd" -> m.mtd[1]
      [] kind = "odd" -> [devtype |-> "odd"]
      [] OTHER -> NONE

udev_device_is_mtd(d) == d.devtype = "mtd"
udev_device_is_eeprom(d) == d.devtype = "eeprom"

\* The whole device, with its size in bytes.
udev_parse_mtd(d) == Cdev(d, 0, d.size)

\* The path of the file in /sys; offset and size are for the caller to set.
udev_parse_eeprom(d) == Cdev(d, 0, 0)

\* The first mtd device at or below a device, and the first with a name.
of_find_mtd_device(m, d) == IF udev_device_is_mtd(d) THEN m.mtd[1] ELSE NONE
device_find_mtd_partition(m, name) == FirstOf(m.mtd, LAMBDA p : p.label = name)

\* The node is a device itself: EEPROM, mtd or disk, else an error, since going
\* on could find a sibling.
DirectDevice(m, n) ==
    LET d == of_find_device_by_node(m, n.direct)
        c == cdev_from_block_device(m, d, 0, 0)
    IN  IF udev_device_is_eeprom(d) THEN udev_parse_eeprom(d)
        ELSE IF udev_device_is_mtd(d) THEN udev_parse_mtd(d)
        ELSE IF c # NONE THEN [c EXCEPT !.is_block_disk = TRUE] ELSE NONE

\* A partition of "fixed-partitions" with a partuuid.
ByPartuuid(m, n) ==
    LET d == of_find_device_by_uuid(m, n.partuuid) IN
    IF d = NONE THEN NONE ELSE Cdev(d, 0, d.size * Sector)

\* The device of the parent: "barebox,storage-by-uuid", or its own device.
ParentDevice(m, n) ==
    IF n.storage_uuid # NONE THEN of_find_device_by_uuid(m, n.storage_uuid)
    ELSE of_find_device_by_node(m, n.parent)

\* The partition of the mtd device with the label, and nothing else.
MtdPartition(m, n) ==
    LET d == device_find_mtd_partition(m, n.label) IN
    IF n.label = NONE \/ d = NONE THEN NONE ELSE udev_parse_mtd(d)

\* of_read_number of size cells, behind the first at cells.
ReadNumber(cells, at, size) ==
    LET Number[k \in 0 .. size] ==
            IF k = 0 THEN 0 ELSE Number[k - 1] * CellMod + cells[at + k]
    IN  Number[size]

\* reg: offset and size, of as many cells as the parent says.
of_parse_partition(n) ==
    <<ReadNumber(n.reg.cells, 0, n.reg.a_cells),
      ReadNumber(n.reg.cells, n.reg.a_cells, n.reg.s_cells)>>

EepromPartition(d, n) ==
    LET r == of_parse_partition(n) IN
    [udev_parse_eeprom(d) EXCEPT !.offset = r[1], !.size = r[2]]

of_cdev_find(m, n) ==
    IF n.direct # NONE THEN DirectDevice(m, n)
    ELSE IF n.partuuid # NONE THEN ByPartuuid(m, n)
    ELSE LET d == ParentDevice(m, n) IN
         IF d = NONE THEN NONE
         ELSE IF of_find_mtd_device(m, d) # NONE THEN MtdPartition(m, n)
         ELSE IF n.reg = NONE THEN NONE
         ELSE IF udev_device_is_eeprom(d) THEN EepromPartition(d, n)
         ELSE LET r == of_parse_partition(n) IN cdev_from_block_device(m, d, r[1], r[2])

\* cdev_find_child_by_gpt_typeuuid
cdev_find_child_by_gpt_typeuuid(m, c) ==
    LET d == FindTypeUuid(Below(m, c.dev), STATE_GUID) IN
    IF ~c.is_gpt \/ d = NONE THEN NONE ELSE Cdev(d, 0, d.size * Sector)

\* The part of state_new_from_node that finds the device.
BackendCdev(m, n) ==
    LET c == of_cdev_find(m, n) IN
    IF c # NONE /\ c.is_block_disk THEN cdev_find_child_by_gpt_typeuuid(m, c) ELSE c

-----------------------------------------------------------------------------
(* state_storage_init *)

Area(offset, len) == [offset |-> offset, len |-> len]

\* The loops that create buckets, with numbers below count, a distance of len
\* apart: those that are not good are skipped, and three are enough.
BucketLoop(count, good, base, len) ==
    LET Upto[k \in 0 .. count] ==
            IF k = 0 THEN <<>>
            ELSE LET list == Upto[k - 1] IN
                 IF k - 1 \in good /\ Len(list) < desired_buckets
                 THEN Append(list, Area(base + (k - 1) * len, len))
                 ELSE list
    IN  Upto[count]

\* Blocks of the device from the offset of the state up to its end.
MtdBlocks(c) ==
    LET limit == IF c.offset + c.size = 0 \/ c.offset + c.size > c.dev.size
                 THEN c.dev.size ELSE c.offset + c.size
    IN  {k \in 0 .. c.dev.size \div c.dev.erasesize :
            c.offset <= k * c.dev.erasesize /\ k * c.dev.erasesize < limit}

\* state_storage_mtd_buckets_init: a bucket on each of the first three
\* eraseblocks whose creation succeeds.
mtd_buckets_init(c, failing) ==
    IF c.offset % c.dev.erasesize # 0 THEN <<>>
    ELSE BucketLoop(c.dev.size \div c.dev.erasesize + 1, MtdBlocks(c) \ failing,
                    0, c.dev.erasesize)

\* Mutant of RoomForCopies: room for one copy is enough.
RoomForOne(c, stride) == c.size = 0 \/ c.size >= stride

\* The test for room in front of the loop over direct buckets; no size is
\* infinite.  The product is one of uint32_t.
RoomForCopies(c, stride) == c.size = 0 \/ c.size >= (desired_buckets * stride) % CellMod

\* state_storage_file_buckets_init: three of them, one stride apart as far as
\* 32 bits go, less the ones that cannot be opened.
file_buckets_init(c, stride, failing) ==
    LET list == BucketLoop(desired_buckets, (0 .. desired_buckets - 1) \ failing, 0, stride)
    IN  IF stride = 0 \/ ~RoomForCopies(c, stride) THEN <<>>
        ELSE [k \in DOMAIN list |-> Area(c.offset + (list[k].offset % CellMod), stride)]

\* An mtd device that needs no erase has direct buckets, like everything else.
state_storage_init(c, stride, storagetype, failing) ==
    IF c.dev.devtype = "mtd" /\ c.dev.erase
    THEN IF storagetype \in {NONE, "circular", "noncircular"}
         THEN mtd_buckets_init(c, failing) ELSE <<>>
    ELSE file_buckets_init(c, stride, failing)

-----------------------------------------------------------------------------

CdevInit ==
    /\ machine = NONE /\ node = NONE /\ cdev = NONE /\ buckets = <<>>
    /\ step = "idle"

Lookup(m, n) ==
    /\ step = "idle"
    /\ machine' = m /\ node' = n /\ cdev' = BackendCdev(m, n)
    /\ step' = IF cdev' = NONE THEN "failed" ELSE "found"
    /\ UNCHANGED buckets

\* No bucket at all is -EIO.
MakeBuckets(stride, storagetype, failing) ==
    /\ step = "found"
    /\ buckets' = state_storage_init(cdev, stride, storagetype, failing)
    /\ step' = IF buckets' = <<>> THEN "failed" ELSE "ready"
    /\ UNCHANGED <<machine, node, cdev>>

\* state_release with state_storage_free.
Release_ ==
    /\ step \in {"failed", "ready"}
    /\ machine' = NONE /\ node' = NONE /\ cdev' = NONE /\ buckets' = <<>>
    /\ step' = "idle"

CdevNext ==
    \/ \E m \in Machines, n \in Nodes : Lookup(m, n)
    \/ \E stride \in Strides, t \in {NONE, "circular", "noncircular", "unknown"},
          failing \in Failures : MakeBuckets(stride, t, failing)
    \/ Release_

CdevSpec == CdevInit /\ [][CdevNext]_cdevVars

-----------------------------------------------------------------------------

\* Bytes of a device from offset on, as bytes of the medium it is part of.
OnMedium(d, offset, len) ==
    [medium |-> d.medium, len |-> len,
     first |-> offset + (IF d.devtype = "partition" THEN d.start * Sector
                         ELSE IF d.devtype = "mtd" THEN d.start ELSE 0)]

\* What the node says, whatever way it is looked up: the region of its reg on
\* the parent's medium, or the device or partition it names.
Meant(m, n) ==
    LET whole(d) == OnMedium(d, 0, IF d.devtype = "partition" THEN d.size * Sector
                                   ELSE d.size)
        all == AllBlock(m)
    IN  IF n.direct # NONE THEN
          CASE n.direct = "disk" ->
                 {whole(m.disks[1][k]) : k \in {j \in DOMAIN m.disks[1] :
                                                  m.disks[1][j].guid = STATE_GUID}}
            [] n.direct = "mtd" -> {whole(m.mtd[1])}
            [] n.direct = "eeprom" -> {OnMedium(m.eeprom, 0, 0)}
            [] OTHER -> {}
        ELSE IF n.partuuid # NONE THEN
          {whole(all[k]) : k \in {j \in DOMAIN all : all[j].uuid = n.partuuid}}
        ELSE IF n.storage_uuid = NONE /\ n.parent = "mtd" THEN
          {whole(m.mtd[k]) : k \in {j \in DOMAIN m.mtd : m.mtd[j].label = n.label}}
        ELSE
          {OnMedium(d, n.region[1], n.region[2]) :
              d \in {e \in {ParentDevice(m, n)} : e # NONE /\ n.reg # NONE}}

\* A lookup that succeeds denotes the very bytes that the node describes, be it
\* through a partition with the offset made relative or through the whole disk,
\* never those of a sibling, and a partition is taken only if it holds all of
\* them; one that fails had nothing to find.
ResolvesAsMeant ==
    /\ step \in {"found", "ready"} =>
          /\ OnMedium(cdev.dev, cdev.offset, cdev.size) \in Meant(machine, node)
          /\ cdev.dev.devtype = "partition" =>
                0 <= cdev.offset /\ cdev.offset + cdev.size <= cdev.dev.size * Sector
    /\ step = "failed" /\ cdev = NONE /\ node.direct # "disk" => Meant(machine, node) = {}

\* The buckets of a state, at least one and at most three, lie apart from one
\* another and within the region its backend describes (max_size of
\* state_storage_init), whichever of them could not be created, so that no save
\* can touch what is next to the backend.  Only a stride of which three exceed
\* 32 bits breaks it: the product in the test for room wraps.
BucketsWithinBackend ==
    step = "ready" =>
        /\ Len(buckets) \in 1 .. desired_buckets
        /\ \A i, j \in DOMAIN buckets : i < j =>
              buckets[i].offset + buckets[i].len <= buckets[j].offset
        /\ cdev.size # 0 =>
              \A i \in DOMAIN buckets :
                 /\ cdev.offset <= buckets[i].offset
                 /\ buckets[i].offset + buckets[i].len <= cdev.offset + cdev.size
=============================================================================
