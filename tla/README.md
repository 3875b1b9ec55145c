# Verification of barebox-state and its storage

dt-utils is the Linux side of the barebox bootloader's *state* framework: a
set of variables, described by a device tree node, that bootloader and Linux
share on an EEPROM, a block device or flash. `barebox-state` reads and changes
it. What makes it hard is that the medium can lose power in the middle of any
write, can fail to read or write in places, and is used by runs of the tool
that know nothing of one another. This directory holds TLA+ models of that
core, of the variables and formats on top of it and of the library below it,
TLC configurations for small instances, and proofs for all instances.

Source paths below are relative to the `src/` directory of the repository
unless they start with `test/`.

## 1. Inventory

| Component | Source | State | Operations |
|---|---|---|---|
| redundant storage | `barebox-state/backend_storage.c` | list of buckets, their buffers, `needs_refresh`, `wrong_magic`, `readonly` | `state_storage_read` (read all, verify, repair), `state_storage_write`, creation of buckets |
| direct bucket | `barebox-state/backend_bucket_direct.c` | an area of the device | `read`, `write` |
| circular bucket | `barebox-state/backend_bucket_circular.c` | an eraseblock, `write_area`, `last_written_length` | `create`/`init`, `read`, `write` |
| raw format | `barebox-state/backend_format_raw.c` | key and digest | `verify`, `pack`, `unpack` |
| dtb format | `barebox-state/backend_format_dtb.c` | the tree left by the last `verify` | `verify`, `pack`, `unpack` |
| state core | `barebox-state/state.c` | `dirty`, variables, `keep_prev_content` | `state_new_from_node`, `state_load`, `state_save`, conversion from and to nodes |
| variables | `barebox-state/state_variables.c` | typed values at offsets | create, set, get, export, import |
| the tool | `barebox-state.c` | states and changes of a command line | `state_get`, `state_set_var`, `main` |
| locking | `barebox-state.c`, `barebox-state/state.h` | lock file or locks of device nodes | `flock` |
| device tree library | `libdt.c` | tree of nodes, aliases | find, read, write properties, phandles |
| backend lookup | `libdt.c` | udev's view of devices | `of_cdev_find`, partitions |
| flat trees | `fdt.c` | buffers that grow | `of_unflatten_dtb`, `of_flatten_dtb` |
| lists | `dt/list.h` | links of heads and entries | add, delete, move, splice, loops |
| helpers | `dt/common.h` | none | `read_full`, `write_full`, ... |
| digests, crc | `crypto/`, `crc32.c` | context of a sum that is being computed, key | `init`, `update`, `final`, `verify` |
| base64, keystore | `base64.c`, `keystore-blob.c` | none that lasts | `decode_base64`, `keystore_get_secret` |
| dtblint, fdtdump | `dtblint*.c`, `fdtdump.c` | none | print |

How they interact. `main` takes the lock, calls `state_get` for every state
named with `-n`, which builds the state from its node, finds the device, makes
the buckets, and loads: `state_storage_read` reads every bucket
(`bucket->read`), has the format verify it, uses the first valid one, rewrites
all that differ (`bucket->write`), and the format unpacks the used buffer into
the variables. `-s` changes variables and sets `dirty`; a dirty state is packed
and written to all buckets in order. The buckets are the only state that
outlives a run.

What is hard: power loss between or within bucket writes, in a save or in a
repair; buckets that fail to read or to write, with or without damage; flash
that must be erased as a whole; a header that is new in front of data that is
old; runs at the same time, killed runs, locks taken one by one; images that
are loaded by the variables of a newer device tree; buffers that grow, widths
that end, and long sequences of calls on trees and lists. `PROJECT.json` lists
these hazards with the lines where they bite.

What makes it correct:

* storage: a load returns the last saved value or that of a save that was cut
  off; there is a valid copy at any time; loading and repairing change nothing;
* a bucket: reads back the last complete record, and a write that is cut off
  does no harm elsewhere;
* locking: no lost update, no half-seen run, everybody gets his turn;
* variables: accepted ones do not overlap, a load finds what was saved, also
  with the variables of an updated device tree, and a clean state is the one
  that is stored;
* library: lists and trees keep their shape under any sequence of calls;
  flattening and unflattening, writing and reading, encoding and decoding are
  inverse; a sum does not depend on how the message was cut up;
* lookup: a backend resolves to the bytes its node describes, its buckets lie
  within them and apart;
* the tool: an exit status of 0 means that everything asked for is stored.

## 2. Modules

| Module | What it is |
|---|---|
| `StateStorage` | successive runs of the tool on one state with `N` buckets |
| `AtomicStore` | what that promises: one register that is replaced atomically |
| `DirectBucket` | buckets on a device without erase, cell by cell |
| `CircularBucket` | a bucket in an eraseblock, page by page |
| `BucketStore` | what both promise, and what `StateStorage` builds on |
| `ToolLock` | runs of the tool at the same time |
| `StateVariables` | variables from node to image and back, over runs with changing device trees |
| `ToolMain` | one run of `main` on several states, from the options to the exit status |
| `CdevFind` | from a backend node to a device, and to buckets on it |
| `LinkedList` | the lists of `dt/list.h`, pointer by pointer |
| `DeviceTree` | nodes, properties, phandles and aliases of `libdt.c` |
| `OfProperty` | numbers, strings and phandle lists in the bytes of a property |
| `Fdt` | flat trees and trees in directories, over the trees of `DeviceTree` |
| `FdtBuffer` | growth of the two buffers of a flat tree, in bytes |
| `Digest` | sha1, sha2 and HMAC as they are fed, finished and reused |
| `Base64` | `decode_base64` digit by digit, called by `keystore_get_secret` |
| `StateStorageProofs`, `DirectBucketProofs`, `CircularBucketProofs`, `ToolLockProofs`, `StateVariablesProofs`, `LinkedListProofs`, `DeviceTreeProofs` | theorems about the module of that name |
| `LibraryProofs` | facts about recursion and minima that several proofs use; theorems about `FdtBuffer`, `CdevFind`, `ToolMain` and `Digest` |
| `MC...` | model values, small instances and symmetry for TLC; `MCParts` and `MCLibrary` put several modules that share no state into one run |

### StateStorage

`media[b]` is what bucket `b` holds: a copy (with its value, and whether the
HMAC is there), something broken (erased, torn), or foreign data. The other
variables are those of one process and are lost with it: `buf`, `used`,
`wrong`, `idx` and `written` are the locals of `state_storage_read` and
`state_storage_write`, `cur` and `dirty` the state in memory. `live`, `durable`
and `skipped` are history variables for the properties.

Actions follow the code: `Start` (`state_get`), `ReadBuckets` (first loop of
`state_storage_read`), `RefreshSkip`, `RefreshBegin`, `RefreshEnd`,
`RefreshFail` (`bucket_refresh`), `LoadEnd` (`unpack`, end of
`state_do_load`), `SetVar`, `Exit`, `SaveBegin` (`state_save` up to the loop),
`WriteBegin`, `WriteEnd`, `WriteFail`, `SaveEnd`, and `Crash`. Reading all
buckets is one step, since nobody else touches the device meanwhile
(`ToolLock` is about that); each write of a bucket has a beginning, after which
the bucket is torn, and an end. A write that fails leaves the bucket torn, or
with the whole new record when the flush or the last byte failed
(`AfterFailure`), or as it was. A run that only reads is readonly, as in `main`:
`ro` is the absence of `-s`. `Init` is any device: each bucket may hold a copy of
any value, something broken or foreign data. `wrong` is TRUE when foreign data was
read, and may be so for data of our own that looks like it (a record without meta
data, a torn one). `LoadEnd` has the unpack that fails as well, after which the
state holds part of the image, or its defaults, and is dirty; `StateVariables`
says which part.

The repair visits the bucket in use in its place of the list, while the code
visits it last; it equals itself, so nothing happens at either place.
`needs_refresh` is not there: it is set after `-EUCLEAN`, which only the
variant for barebox itself returns.

The constants say which faults can happen and which options the state has:
`Auth` (raw format with `algo`), `Dtb`, `KeepPrev`, and `RdonlyFd`, which is
TRUE for direct buckets (they open the device read-only for a readonly state)
and FALSE for circular ones (always `O_RDWR`).

### DirectBucket and CircularBucket

A direct bucket is `Stride` cells of a device; a cell is what the device writes
atomically, and magic and length of the meta data are one cell each. A record
is known by its cells: the crcs of the raw format accept a record only if all
of them are there. `Wrap` stands for the unsigned arithmetic of the head room
test. A circular bucket is `P` pages; the last page of a record carries its
meta data. `Create` is `..._circular_init`, which searches backwards for the
last page in use. Both modules let a write fail, and the machine stop, after
every cell or page; a page may also be left damaged (`PageAtomic = FALSE`), and
an erase may stop with some pages erased, some as they were and some neither
(`ErasePart`, unless `EraseAtomic`). In a build with `zero`, `write()` may return 0
at any point of a direct write, which `write_full` and its caller pass on as
success (`ZeroWrite`; `lost` counts the cells that are missing).

Both are compared with `BucketStore`: a bucket holds the old record, none, or
the new one while it is written, and the new one when the write has returned 0
with all of it written. That is the assumption `StateStorage` makes in `Torn`,
`WriteEnd` and `RefreshEnd`.

### ToolLock

Each run is a process of `main`: lock file, then for each named state open
(with the lock on the device node, if the build has it) and load, then the
changes, then the saves, then the exit, which drops all locks. Changes add one
to a counter, so an update that is overwritten is missed. Runs can fail to get
a state, fail to save, or be killed. A run of `LockMayFail` may fail to lock the
device node and goes on without (`OpenUnlocked`). A setup (build, device tree, command
lines) is chosen at the start and never changes.

### StateVariables and ToolMain

A state node is a sequence of records, one per node in the order in which
`state_convert_node_variable` finishes them. `state_new_from_node` creates the
variables in the sorted list (`state_add_var`) and applies the checks
(`CreateError`, `Conflict`); `state_do_load` verifies and unpacks the stored
image in the raw or the dtb format; `state_set_var` and `SetFails` are `-s`;
`state_save` packs. `image` survives a run, and the next run may have another
state node: `Schema` is the set of device trees that get installed. Values are
bytes in memory, so that widths and the order of bytes matter: a byte has
`Base` values, an `uint32_t` has `Word` bytes, `AddrMod` and `LenMod` are the
widths of offsets and of `data_len`. `kept` is a history variable: what the
variables showed when the image was saved. What of that a load must show again
is `Restored`: all of it, but for the upper bytes of an `uint8`; and `IsStored`
names the one thing that is not in an image, a string in the dtb format that the
run has not set. `LoadedAsSaved` and `CleanIsStored` are about that. Undefined behaviour is a choice: the
default string of a dtb image points into freed memory (`Dangling`, any of
`Junk`), an enum outside its names compares in any way (`Same`).

`ToolMain` follows `main` through the states of `-n` (`LoadState`,
`NoSuchState`), the options in their order (`OptionDone`, `OptionFails`, with
`Chosen` for the state a path is for) and the saves (`SaveState`, `SaveFails`)
to the exit status. A state's values are atomic here.

### CdevFind

`Machines` is what udev can know: disks with their partitions in the order of
enumeration, mtd devices with or without erase, an EEPROM. `of_cdev_find`
follows `__of_cdev_find` with its lookups; `Lookup` adds the choice of the
state partition of a GPT disk in `state_new_from_node`, `MakeBuckets` is
`state_storage_init` with the loops that create buckets, of which any may fail
(bad blocks, failing `open`). Strides have 32 bits, which is `CellMod` here, and so
has their product with the number of copies. The cells of `reg` are read with `of_read_number`;
`region` in a node of the model is what its author had in mind.

### LinkedList, DeviceTree, OfProperty

`LinkedList` keeps `next` and `prev` of every head and entry, and `POISON`
where `list_del` puts it. Besides the operations there is a loop in progress
(`LoopBegin`, `LoopStep`, `LoopEnd`) whose body may delete the entry it stands
on. `DeviceTree` keeps the forest that calls of the library can build, with
parents, children, properties, the linear list of all nodes (`forest.order`),
`root_node`, `of_aliases` and `aliases_lookup`; each operation that changes any
of them is an action, searches are operators, which `OrderIsPreorder` repeats
from the node they found last. An id of a deleted node may be used by the next
new one, as memory is. An entry of `aliases_lookup` stays when its
node is deleted, as in the code. The scan leaves out `name`, `phandle` and `linux,phandle`; the
numeric id at the end of an alias name is not split off, and an id below 0 cannot
be met, as the digits it is read from have no sign. `OfProperty` writes a list of
strings, of numbers or of phandles with arguments into the bytes of a property
and has all readers read it back; strings may also come without their last NUL,
as from a device tree somebody else has made.

### Fdt and FdtBuffer

`Fdt` flattens a tree into tags and folds tags back into a tree
(`UnflattenTag`), and reads a tree from directories (`scan_proc_dir`) in any
order of their entries, each of which may be readable in part only
(`of_read_proc_devicetree`): the error of the top directory leads to the second
scan, on the same root, that of a nested one is lost. It has no variables: its property is about every
tree `DeviceTree` reaches. Contents and lengths are separated: `FdtBuffer` has
the lengths only, and grows the buffers as `fdt_ensure_space` does. Names and
values have any length, also those from which on `lstrcpy` returns an error that
`__of_flatten_dtb` adds to its offset. `over`, `stale`, `spoilt` and `unended`
remember what went wrong with a blob, `long` that it had a name or value that the
1024 bytes and one doubling have no room for.

### Digest and Base64

A digest context holds how many bytes came and the bytes of the unfinished
block; `Transform` appends blocks to the sequence that stands for the
chaining value, so two sums are equal just when the same blocks went in.
`digest_init`, `digest_update`, `digest_final`, `digest_generic_verify` and
`digest_generic_digest` are calls in any order, HMAC runs on top of them. An init
clears the count but not the buffer (`Initialised`), so the bytes of a message
that was given up are still there. A key longer than a block is what
`digest_hmac_set_key` makes of it: the sum of the old key in memory that has been
freed, hence that sum or anything else (`Dangling`), or an error when there is no
old key (`KeyRefused`).
`Base64` decodes the text of an encoder, with invalid characters and line
breaks strewn in, into a buffer of given size; `GetBlob`, `GetPayload` and
`KeystoreReturns` are the steps of `keystore_get_secret`.

## 3. Runs

| Run | Expect | Shows |
|---|---|---|
| `storage_crash` | pass | With crashes at any point as the only fault: `ImplementsAtomicStore`, `ValidDataAtAnyTime`, `RepairKeepsLoadable`, `ConsistentWhenLoaded`, `ShowsWhatIsStored`. Direct buckets, raw format, keep-previous-content, from any device. |
| `storage_faults` | pass | With all faults: `NoRollback`, `Durable`, `TypeOK`. |
| `storage_unwritten` | violation of `LatestFirst` | A write of the first bucket that fails without damage is skipped, the save succeeds, and the next load goes back to the old value. |
| `storage_hmac` | violation of `ValidDataAtAnyTime` | Repaired copies have no HMAC. |
| `storage_dtb_tree` | violation of `ShowsWhatIsStored` | The dtb format unpacks another bucket than the one in use. |
| `storage_readonly` | violation of `ReadonlyKeepsMedia` | A readonly run repairs circular buckets. |
| `storage_foreign` | violation of `ForeignKept` | The repair overwrites foreign content beside a valid copy. |
| `parts` | pass | Direct buckets: `ImplementsBucketStore`, `DirectTypeOK`. Circular buckets: `ProgramsErasedPagesOnly`, `AckedIsRead`, `CircularTypeOK`. Overlapping runs: `NoLostUpdate`, `SeesWholeRuns`, `RunsTerminate`, `LockTypeOK`; a reader may go on without its lock. Variables: `AcceptedDisjoint`, `LoadedAsSaved`, `CleanIsStored`, `PartialLoadIsPrefix`, for both formats and device trees that change between runs. |
| `direct_large` | violation of `StaysInStride` | A record above the stride, in a backward compatible build. |
| `circular_torn` | violation of `CircularIsBucketStore` | After a torn record the oldest record of the block is read. |
| `lock_order` | violation of `Terminates` | Device locks in different orders, or twice on one node. |
| `library` | pass | Lists: `Represents`, `LoopVisitsAll`. Trees: `OrderIsPreorder`, `PhandlesUnique`, `AliasLeadsBack`. Flat trees: `FlattenUnflatten`, `StaysInBuffers`. Properties: `ValuesReadBack`, `PhandleArgsReadBack`. Lookup: `ResolvesAsMeant`, `BucketsWithinBackend`. Sums: `SumOfMessage`, `Base64ReadsBack`. The tool: `ExitStatusTellsStored`. |

`parts` and `library` explore one part per behaviour, chosen by `unit`; the
parts share no state, so their state spaces add up. Run one with `tlc -config Storage_crash.cfg MCStateStorage`; the module of each
run is in `PROJECT.json`.

### Bounds

* `N = 3` is the number the code asks for (`desired_buckets`). Values: the
  default, two others (old and new; interchangeable, hence the symmetry set) and
  `Garbled`, a mixture that nobody sets. Nothing bounds the number of runs,
  saves, crashes or faults: the state space is finite as it is. The
  violations with fewer faults need two buckets only.
* `parts`, direct buckets: two buckets of four cells and a cell behind them;
  records of one to four cells, so both sides of every length test occur. What
  follows the second bucket shows a spill as a third bucket would. Its builds mix
  at most one length with meta data with some without (`MixedBuilds`), and
  `write()` returns 0 in one of them, which writes without meta data only
  (section 4 says what happens beyond that).
* `parts`, circular buckets: five pages, records of one and two pages and one
  that is too large: several records fit between two erases and the block is
  filled exactly, and missed by one. `circular_torn` has eight pages and records
  of two, where pages and erases are atomic, so that only the missing page counts.
* `parts`, overlapping runs: three runs, two of them writing, two states. Two are
  needed for every conflict, the third observes.
* `parts`, variables: bytes of four values, words and MAC addresses of two bytes,
  offsets modulo 64 and lengths modulo 8. Twelve device trees: variables out of
  order, appended, changed names of an enum, a default that does not fit, another
  magic, data that ends above `data_len`, and five that are refused. Any
  sequence of runs over them is explored.
* `library`. Lists: two heads and three entries, two of them with equal keys. Trees: four nodes in up to two
  trees, seven calls after one another, which is enough to build a tree of
  depth three, give it phandles and aliases, delete part of it and build again.
  Flat trees: those trees. Buffers: `BUFSIZE = 64` with a slack of 24 for 1024,
  names of 0, 12 and 24 bytes, just within, and beyond, what is kept free,
  properties of 0, 3 and 40 bytes, flat trees up to 200 bytes, so that both
  buffers double more than once. Properties: up to three strings of up to two
  characters, up to three numbers at the edges of the widths, phandle lists
  with up to two arguments. Lookup: eight machines, some with partitions that hold one another and
  siblings of one size, and nodes whose region lies in, across, next to and around
  the partitions, with one and two cells. Sums:
  blocks of four bytes with one for the length, keys of one, four and five bytes,
  messages of up to ten bytes in all chunks. base64: all texts of up to four bytes out of three. The tool: two
  states, one with a variable whose name begins like the other, and up to two
  options.

### Fairness

Only `ToolLock` has a liveness property, `Terminates`, which is `RunsTerminate`
where it is one of several parts. `LockSpec` assumes weak fairness of the
steps a process takes by itself: the kernel runs every process that can run,
and a blocked `flock` returns when the lock is free. Three runs take a finite
number of steps, so nobody can be overtaken for ever and weak fairness
suffices. Failing and being killed are not fair: they may never happen.
Deadlock checking is on in the passing runs (`Finished` is the regular end).
In `lock_order` it is off, so that the wait for ever shows up as the violated
property.

## 4. What the models show to be wrong

Listed under `findings` with the line that promises otherwise. Each is the
expected violation of one run.

Storage:

1. *Rollback after a partial save* (`storage_unwritten`).
   `state_storage_write` is content with one written bucket. A bucket before
   it that kept its old copy, because erase or seek failed, is the first
   valid one at the next load, whose repair then erases the new value.
2. *HMAC lost in repair* (`storage_hmac`). `backend_format_raw_verify` shortens
   the buffer to header and data, so copies made by `bucket_refresh` fail every
   authenticated load, and `bucket_refresh` does not see the difference either.
3. *Another bucket's tree* (`storage_dtb_tree`). Verification of later buckets
   replaces the tree that `unpack` uses.
4. *Repair in a readonly run* (`storage_readonly`). `bucket_refresh` ignores
   `readonly`; a circular bucket is open for writing all the same.
5. *Foreign content overwritten* (`storage_foreign`). `keep-previous-content`
   holds for saves; the repair replaces what differs from the valid copy.

Buckets and locks:

6. *A record above the stride* (`direct_large`) is written over the next bucket
   by a backward compatible build, which tests for the room of the meta data only.
7. *Torn circular record taken for the old format* (`circular_torn`).
8. *Waiting for ever on device locks* (`lock_order`).

Where the code falls short of what one would expect in other places, the
properties and theorems name the exact limit, and hold up to it:

* *Torn dtb image*. A blob that is torn between two trees of the same shape
  unflattens, and the format has no checksum. `Torn` yields such a mixture
  (`Garbled`) for `Dtb`; `NoRollbackHolds` and its neighbours are about the raw
  format (`~Dtb`), contrary to state.c:92, which speaks of every formatter.
* *A stride below the meta data* makes the head room wrap around, so that every
  record passes the length test, in every build. `StaysInStrideUnlessSpillHolds`
  has it as the second of two ways out of a stride.
* *A short write*: `write_full` ends at a `write()` that returns 0, and the caller
  takes the count for success (common.h:332 promises an error).
  `ImplementsBucketStore` counts a write as acknowledged only with `lost = 0`.
* *Erase that stops half way*. The last record can be gone while an older one
  still stands in the same block and is read by the next run.
  `OnePageImplementsBucketStore` needs `EraseAtomic`.
* *Going on without the lock*. The result of `open_exclusive` is dropped
  (state.c:664), so a save can undo another run's. `LockMayFail` has a reader in
  the run; `NoLostUpdateHolds` needs `WritersLock`.
* *Data above 65535 bytes* is packed with a `data_len` that wraps; the save
  returns 0 and no load accepts the image (`Readable` in `LoadedAsSaved`).
* *An `uint8` with a default above 255* keeps its upper bytes when a raw image is
  loaded (`Restored`).
* *Strings in the dtb format*. The export takes `string->value`, which an import
  does not set: the save after a load drops the string (`IsStored`).
* *Strides of which three wrap 32 bits*: the test that the device is large enough
  passes, and buckets lie behind its end or on one another
  (`BucketsWithinBackendHolds` needs `StridesFit`).
* *Names of more than 1012 bytes, or values above `BUFSIZE - 1024`*, outgrow what
  `fdt_ensure_space` ensures, although its comment allows for both (`long` in
  `StaysInBuffers`).
* *Names without an end*. `lstrcpy` relies on zeroed memory, which `realloc` does
  not return (the last line of `StaysInBuffers`).
* *A last string without NUL* is counted, returned and read beyond, unless it is
  the first one (`UnendedAgree` in `ValuesReadBack`).
* *Alias of a deleted node*. `aliases_lookup` keeps it, and `of_alias_get_id`
  would give its id to the node that is created in its place.

Further limits of the code that the models have or that were met while writing
them:

* In a backward compatible build, two records of different lengths with meta
  data and one without violate `ImplementsBucketStore`: the one without, torn
  within its first cell, hides an old record that the next write of a magic
  makes valid again for a moment. So does a `write()` that returns 0 behind the
  meta data. `MixedBuilds` leaves both out.
* In the dtb format the default of a string points into a tree that is freed. An
  import that fails with -EILSEQ has already replaced it by a pointer into the
  new tree, which the model has.
* A zero-size string at offset 0 conflicts with every other variable. Sums of
  offset and size that wrap 2^32, and a name whose type changes between device
  trees (the dtb import trusts the stored type), are excluded by
  `VariablesAssumption`. A state without variables packs from the list head.
* `uint32` keeps the low 32 bits of what `strtoul` returns. An enum value that
  is not among the names is looked up outside of the array. Of two variables
  with the same name up to the `@`, only the first can be reached.
* A short image loads part of the variables (`PartialLoadIsPrefix`) although
  the tool announces to continue with defaults; a `-s` that fails drops the
  ones before it.
* `of_alias_scan` sets `of_aliases` to NULL when the root has no `/aliases`, and
  leaves it alone when there is no root, so that it may then point to a node
  that is gone. `of_find_node_by_phandle` never finds the root, and finds a node
  without a phandle for 0. `of_device_is_compatible` compares the length of the
  argument only. `of_prop_next_u32` reads its first number whatever the length
  is, and a last one of less than four bytes; nothing in the repository calls it.
* Two children of one name: a path that goes through the second of them ends in
  the first, so the alias of a node below does not lead back to it. `of_new_node`
  does not refuse such a name; `AliasLeadsBack` is about trees without it
  (`SiblingsDiffer`).
* `storage-by-uuid` that names a partition compares absolute with relative
  offsets. An EEPROM used directly has size 0, which bounds no bucket.
* `of_unflatten_dtb` takes an end of the blob with open nodes for success.
* Errors of `scan_proc_dir` below the top directory are ignored: the tree then
  lacks what follows in that directory, and the read returns it all the same.
* `digest_hmac_set_key` with a key longer than a block hashes its old, freed
  key and frees the sum it keeps (`Dangling` in the model). `SumOfMessage`
  speaks of sums under keys that fit a block: nothing in the repository says
  what the others should give. `digest_file_window` sums the start of a mapped
  file again and again.
* `keystore_get_secret` relies on a payload that is shorter than its blob to
  have a terminated text; a last base64 group without padding is dropped.
* With `keep-previous-content`, a foreign bucket that cannot be read once
  (`"readerr"`) is overwritten: `wrong_magic` is set only by a successful read.

## 5. What is proved

`StateStorageProofs` proves, for every number of buckets, every set of values
and every length of history:

* `TypeCorrect`: `Spec => []TypeOK`, without further assumptions: all faults,
  both formats, all options. It includes that no loop leaves the list of
  buckets.
* `NoRollbackHolds` for the raw format with or without HMAC (`~Dtb`) and
  `DurableHolds` for it without one (`~Auth`, `~Dtb`): the properties of
  `storage_faults`, under all faults. Both speak of
  the time before a write fails that leaves its old copy (`~skipped`):
  `storage_unwritten` shows what follows it.
* `ValidDataAtAnyTimeHolds`: the action property of `storage_crash`, for the
  raw format without an algo, at least two buckets, and crashes as the only
  fault. With one bucket it is false: the only copy is torn while it is written.

`NoRollback` is not inductive: it speaks of the first valid bucket, and a step
that tears it makes another one the first. The inductive invariant `StorageInv`
therefore says that *every* copy holds a live value (`CopiesLive`), and what
keeps that true when `live` shrinks to one value: in a repair the used bucket
is intact, buckets behind the loop hold its value if anything, those ahead are
as they were read (`RepairInv`); in a save, buckets behind the loop hold the
new value, and one does once a write is counted (`SaveInv`); the bucket being
written is not a copy (`TornInv`); loops start at the first bucket (`LoopInv`);
`durable` means one live value and some copy (`DurableInv`). All of it is
conditional on `~skipped`. That a first valid bucket exists when there is a
valid one is `FirstValidExists`, from the well-foundedness of `<` on the
naturals.

For `ValidDataAtAnyTime` the invariant `CrashInv` adds that with crashes as the
only fault a run that may save has found all buckets valid or none, so that
the one that is torn first leaves others. `StorageInv` and `CrashInv` were
checked with TLC before they were proved.

`StateStorageProofs` rests on `StorageAssumption` only.

The second part of `StateStorageProofs` builds on it, again for every number of
buckets and every set of values:

| Theorem | Hypotheses | Inductive invariant |
|---|---|---|
| `ConsistentWhenLoadedHolds` | raw format; crashes and failing reads | `ConsistentInv`: during a repair, all buckets behind the loop are copies; with `RepairInv` they hold the loaded value |
| `ShowsWhatIsStoredHolds` | raw, no algo, no failing read | `SeenInv`: the used bucket is intact, copies before it hold its value, and a clean run shows it |
| `RepairKeepsLoadableHolds` | raw, no algo, no failing read | `StorageInv` and `SeenInv` |
| `AtomicStoreImplemented` | raw, no algo, two buckets or more, crashes only | `RefineInv`: `StorageInv`, `CrashInv`, `ConsistentInv`, `SeenInv`, and during a save the buckets ahead of the loop hold the loaded value (`AheadInv`), so the register changes when the first write ends |

The hypotheses are needed. `storage_hmac` and `storage_dtb_tree` violate what is
proved for the raw format without an algo; a failing read makes a run show and
repair from a later bucket; a failing write leaves an old copy in front of newer ones (`storage_unwritten`).

The other components:

* `DirectBucketProofs`. `DirectTypeCorrect` for strides of two cells or more,
  which is the room the meta data takes. `StaysInStrideUnlessSpillHolds` without
  hypotheses, for every stride, build and record: the only writes that leave the
  area of their bucket are those of a record above the stride in a backward
  compatible build (`direct_large`), and those to a stride without room for the
  meta data. `DirectImplementsBucketStore` for writes that are
  neither (`Stride >= 2`, `RecordsFit`), if `write()` does not return 0
  (`NoZeroWrites`) and each build writes records of one length (`OneLength`), as a build with
  one device tree does: with two lengths, a torn write of the longer record can
  leave a mixture under the length of the shorter one. The invariant `DirectInv`
  describes the device cell by cell: a cell of a record is at its place, behind
  the header a read needs to find it (`BucketInv`), what the write has passed is
  on the device (`WrittenInv`), and a write in progress has passed the length
  test (`TargetInv`). From it `ReadIsWhole` derives that a read returns a record
  exactly if all of it is there.
* `CircularBucketProofs`. `CircularTypeCorrect`, `ProgramsErasedPagesOnlyHolds`
  and `AckedIsReadHolds` without hypotheses: any number of pages, any records.
  The invariants: a record that is programmed ends at `write_area` and the
  position is within it (`ProgramInv`), what is behind that position, and
  between writes behind `write_area`, is erased (`FreeInv`), the pages
  programmed so far are in place, and after a write that returned 0 all of them
  (`ImageInv`). `OnePageImplementsBucketStore` is the
  positive counterpart of `circular_torn`: if every record
  takes one page, a page is programmed entirely or not at all (`OnePage`,
  `PageAtomic`) and no erase stops half way (`EraseAtomic`), the bucket does implement
  `BucketStore`.
* `ToolLockProofs`, for any number of runs, states and device nodes, both kinds
  of locks and every order of `-n`. `LockTypeCorrect` has no hypothesis.
  `NoLostUpdateHolds` if no command line with `-s` names a state twice
  (the second save would overwrite the first, `NoStateTwice`) and no run with `-s`
  goes on without its lock (`WritersLock`; readers may);
  `SeesWholeRunsHolds` if all runs name all states (`AllStatesNamed`) and
  `WritersLock`. `HoldInv` says that whatever a run has locked it
  holds alone, `CopyInv` that its copies are what is stored until it changes
  them; `UpdateInv` and `WholeInv` add by how much a run with `-s` is ahead of
  what is stored.
* `StateVariablesProofs`, for all device trees. `AcceptedDisjointHolds`: the
  list is built in the order of the offsets, so `Accepted`, which compares
  neighbours only, keeps all pairs apart (`NeighboursSuffice`), and no load, set
  or import moves a variable (`SameLayout`). `PartialLoadIsPrefixHolds` for
  states with at least one variable (`NoEmptyState`; without one
  `backend_format_raw_pack` has no last variable to take the length from):
  since the variables end in the order of the list, those beyond the image are
  a tail of it.
  `LoadedAsSavedHolds` and `CleanIsStoredHolds`, for both formats, under the same
  hypothesis. They say exactly what a load restores (`Restored`): in the raw
  format one byte of an `uint8`, in the dtb format the strings that were set, and
  no image longer than `data_len` counts. `KeptInv` says
  that from load to save the variables are those of the state node, with
  well-formed values (`StateOf`), and that the image is one that such variables
  of some device tree were packed to (`SavedBy`): what was shown then is what an
  unpack makes of it now, type by type. That a number is the value of its bytes
  is proved from `WordMod = Base^Word` digit by digit.
* `LinkedListProofs`, for any number of heads and entries: `RepresentsHolds` and
  `LoopVisitsAllHolds`. `ListInv` says that the pointers of each head go round
  through the entries of its list in order, both ways, that an entry is in one
  list at most and once, and that a loop in progress has exactly the entries it
  has not seen yet from its position on, the one after it already taken in `n`.
  A splice or a cut is proved by giving the position of every cell in the new
  ring.
* `LibraryProofs`. `StaysInBuffersHolds` for all sizes of names, values and
  buffers, as long as the tree has had no name or value that the code does not
  provide for (`long`, a part of the property).
  `BucketsWithinBackendHolds` for all machines, failures to create a bucket and
  strides of which three fit into 32 bits (`StridesFit`): the buckets of `MakeBuckets` are those of a loop that divides the
  region (`Divide`, by induction over the loop). `ResolvesAsMeantHolds` for all
  machines and nodes of `CdevAssumption` that also use names for what they are
  (`NamesAsMeant`), whose `region` is what the cells of `reg` say
  (`RegionsInCells`), and a `NONE` that is not a device (`NoneIsNoCdev`). The
  invariant `CdevInv` carries the result of the lookup to the buckets.
  `ExitStatusTellsStoredHolds` for all states, variables and command lines:
  `OptionsInv` says that the copies have all options so far applied and nothing
  is stored yet, `SaveInv` that the states in front of the loop have their new
  values and the others their old ones.
  `SumOfMessageHolds` for all sizes of a block and of the length field, pieces of
  any length and all keys that fit a block, also after a key that does not and
  with the bytes of an abandoned message in the buffer: `Took` says of a context that the
  whole blocks of the message are in its state and the rest is at the start of
  the buffer, whatever an earlier block left behind it; every update keeps that
  (`UpdateShort`, `UpdateLong`), and the padding ends at the only end of a block
  that leaves room for it and the length (`PaddedIs`). `DigestInv` carries it from
  `digest_init` to `digest_final`, with the pad of the key in front for the HMAC.
* `DeviceTreeProofs`, for any number of nodes, names, paths and calls:
  `OrderIsPreorderHolds`, `PhandlesUniqueHolds` and `AliasLeadsBackHolds`, without hypotheses beyond `TreeAssumption`. None of them
  is inductive, since each speaks of one use of the two lists a node is in. The
  invariant `TreeInv` says what keeps the lists together: the linear list of a
  tree begins with its root and holds every node behind its parent, and the
  children of a node are those that have it for a parent (`Shaped`); subtrees are
  in one piece and no child is there twice (`Neat`); phandles of a tree differ
  (`HandlesDiffer`), are what the property says and properties differ in name
  (`Consistent`), and `root_node` is the root of one of them
  (`RootStands`). From it the way up from a node is shown to end at the root of
  its list (`WayToRoot`), which every other proof uses: that
  deleting a subtree leaves a list without gaps, that the way down along the full
  name is the way up reversed (`FullNameLeadsBack`), and that a search continued
  from what it found last makes a hop to the next position that is meant
  (`Hop`), and so visits them all (`VisitsAll`).

The inductive invariants of `StateStorage`, `DirectBucket`, `ToolMain`,
`LinkedList` and `DeviceTree`, and the part of `KeptInv` on the variables, were
also checked by TLC. The proofs rest on the named assumptions of the modules
(`StorageAssumption`, `DirectAssumption`, ...), which TLC evaluates in every run,
and on the hypotheses named above.

Induction over a sequence of nodes or a distance in a list appears in the proofs
as induction with a *set* of numbers (`NatSetInduction`, from the
well-foundedness of `<`), as the provers cannot instantiate a predicate
parameter. The recursion there is therefore written with recursive functions
over an interval, whose existence is proved (`AddedExists`, `ImportedExists`, and
for all others `RecursionExists`).

Model-checked only:

* `RunsTerminate`: liveness under fairness is out of the prover's reach, and so is
  ENABLED.
* `ImplementsBucketStore` for builds that mix records of several lengths;
  `DirectImplementsBucketStore` is about builds that do not.
* `FlattenUnflatten`, `ValuesReadBack`, `PhandleArgsReadBack`,
  `Base64ReadsBack`: what recursive definitions compute for every input.

## 6. What is not modelled

* crc32 and the rounds of the sha transforms: arithmetic over tables. The
  models use that a crc rejects what is damaged, and that equal sums come from
  equal blocks. The registry of digests and `digest_file` are left out too.
* dtblint with its pin tables (a third of the repository's lines), fdtdump:
  printing without state.
* `of_state_fixup` and the conversion it uses: `of_register_fixup` is a stub
  here, nothing calls it.
* `libdt.c`: searches by type, compatible string and match table (loops like
  those of `of_find_node_by_name`), printing of trees.
* reading udev attributes and files under `/sys`: their answers are inputs.
* hlists and the loops of `list.h` that no code uses.
* code under `__BAREBOX__`: not part of this build.
* usage and the text the tool prints.
* compositions: the variables of `StateVariables` over the buckets of
  `StateStorage` (there a value is atomic), and the pages of `CircularBucket`
  with the foreign flag of `StateStorage`.

## 7. Plan

All modules of the plan are written, and all properties of the passing runs but
those listed as model-checked only are proved. What is left, in order of what it would say about
the system:

1. `PhandleArgsReadBack` and the strings of `ValuesReadBack` for any number of
   entries, with `ParseFrom` and `StringStarts` written over an interval.
2. `FlattenUnflatten` for any tree: a statement about the tags of a subtree, by
   induction over its position in the linear list.
3. The compositions that section 6 leaves out.
