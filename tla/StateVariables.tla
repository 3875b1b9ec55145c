-------------------------- MODULE StateVariables --------------------------
(***************************************************************************)
(* The variables of a state: how they are created from the state's node of *)
(* the device tree (state_from_node, state_variables.c), set and shown by  *)
(* the tool (barebox-state.c), packed into and unpacked from a stored      *)
(* image by the raw and the dtb format.  What survives from run to run is  *)
(* the image.  Between two runs the device tree may be updated, so that an *)
(* image is loaded by a state whose variables are not those it was saved   *)
(* with.                                                                   *)
(*                                                                         *)
(* The nodes below a state node are listed in the order in which           *)
(* state_convert_node_variable finishes them, children before parents,     *)
(* with full names.  A crc stands for the bytes it was computed from, and  *)
(* a flattened tree for its nodes (module Fdt).  Copies, their repair and  *)
(* the HMAC are the subject of StateStorage.                               *)
(***************************************************************************)
EXTENDS Naturals, Sequences, FiniteSets, SequencesExt

CONSTANTS
    Base,       \* values of a byte
    Word,       \* bytes of an uint32_t
    WordMod,    \* 2^32: the values of an uint32_t
    MacLen,     \* bytes of a MAC address
    MaxString,  \* longest "string" variable
    AddrMod,    \* 2^32: offsets and sizes are unsigned int
    LenMod,     \* 2^16: data_len of the raw header is an uint16_t
    Schema,     \* the state nodes of the device trees that get installed
    Input(_),   \* what the user can give for a variable of some type
    Junk,       \* what freed memory can hold where a default string was
    NONE, BAD   \* a property that is absent, or of a wrong length

Type == {"uint8", "uint32", "enum32", "mac", "string"}
Number == {"uint8", "uint32", "enum32"}

Byte == 0 .. Base - 1

\* The values a property of a variable can have.
Values(type) ==
    CASE type \in Number -> 0 .. WordMod - 1
      [] type = "mac" -> [1 .. MacLen -> Byte]
      [] type = "string" -> Seq(Byte)

\* The nodes below a state node: different names, and registers below 2^32.
IsStateNode(s) ==
    /\ Len(s.nodes) \in Nat /\ DOMAIN s.nodes = 1 .. Len(s.nodes)
    /\ \A i, j \in DOMAIN s.nodes : s.nodes[i].name = s.nodes[j].name => i = j
    /\ \A i \in DOMAIN s.nodes :
          LET n == s.nodes[i] IN
          /\ n.start \in Nat /\ n.size \in Nat /\ n.start + n.size < AddrMod
          /\ n.type \in Type => {n.value, n.default} \ {NONE, BAD} \subseteq Values(n.type)
          /\ n.names # NONE => DOMAIN n.names = 1 .. Len(n.names) /\ Len(n.names) \in 0 .. WordMod

ASSUME VariablesAssumption ==
    /\ Base \in Nat \ {0, 1} /\ Word \in Nat \ {0} /\ MacLen \in Nat
    /\ WordMod = Base^Word /\ WordMod \in Nat \ {0} /\ WordMod % Base = 0
    /\ AddrMod \in Nat \ {0} /\ LenMod \in Nat \ {0}
    /\ NONE # BAD /\ NONE \notin Type
    /\ \A p \in {NONE, BAD} : p \notin Nat /\ p \notin Seq(Byte)
    /\ \A s \in Schema : IsStateNode(s)
    /\ \A s, t \in Schema : \A i \in DOMAIN s.nodes, j \in DOMAIN t.nodes :
           s.nodes[i].name = t.nodes[j].name => s.nodes[i].type = t.nodes[j].type

ASSUME InputAssumption ==
    /\ \A in \in Input("uint8") \cup Input("uint32") : in.x \in Nat
    /\ \A in \in Input("mac") : in.x # BAD => in.x \in Values("mac")
    /\ \A in \in Input("string") : in.x \in Values("string")

VARIABLES
    fmt,        \* backend-type of the state, the same in all device trees
    phase,      \* "off", or how far a run of the tool has come
    schema,     \* the state node of this run
    svs,        \* state->variables, in list order
    dirty, ret, \* state->dirty; what state_load returned
    image,      \* the stored copy, NONE before the first save
    kept        \* history: what the variables showed when it was saved, and
                \* which strings had been set in that run

run == <<phase, schema, svs, dirty, ret>>
stateVars == <<fmt, run, image, kept>>

-----------------------------------------------------------------------------
(* Values in memory: little endian, as on the machines the tool runs on *)

LittleEndian(n) ==
    LET Rest[i \in 0 .. Word] == IF i = 0 THEN n ELSE Rest[i - 1] \div Base
    IN  [i \in 1 .. Word |-> Rest[i - 1] % Base]

Num(bytes) == CHOOSE n \in 0 .. WordMod - 1 : LittleEndian(n) = bytes

Zeros(n) == [i \in 1 .. n |-> 0]

\* Bytes of the value in memory.  The raw pointer of an uint8 refers to the
\* first of the Word bytes of its value.
MemoryLen(type, size) ==
    CASE type \in Number -> Word
      [] type = "mac" -> MacLen
      [] type = "string" -> size

\* var.size as the create function of the type sets it.
VarSize(n) ==
    CASE n.type = "uint8" -> 1
      [] n.type \in {"uint32", "enum32"} -> Word
      [] n.type = "mac" -> MacLen
      [] n.type = "string" -> n.size

\* The rest of the variable is cleared.
state_string_copy_to_raw(sv, x) == x \o Zeros(sv.size - Len(x))

\* The value of a property as it is put into memory.
Encode(sv, x) ==
    CASE sv.type \in Number -> LittleEndian(x)
      [] sv.type = "mac" -> x
      [] sv.type = "string" -> state_string_copy_to_raw(sv, x)

\* A string ends at its first NUL or at the end of the variable.
StringOf(raw) ==
    LET end == SelectInSeq(raw, LAMBDA c : c = 0)
    IN IF end = 0 THEN raw ELSE SubSeq(raw, 1, end - 1)

\* An enum outside its names is read from outside of the array, NONE here.
EnumName(sv) ==
    IF Num(sv.raw) < Len(sv.names) THEN sv.names[Num(sv.raw) + 1] ELSE NONE

\* What "get" prints.
Show(sv) ==
    CASE sv.type \in {"uint8", "uint32"} -> Num(sv.raw)
      [] sv.type = "enum32" -> EnumName(sv)
      [] sv.type = "mac" -> sv.raw
      [] sv.type = "string" -> StringOf(sv.raw)

-----------------------------------------------------------------------------
(* Import: the properties of a node become a value *)

Present(p) == p \notin {NONE, BAD}

ImportDefault(sv, n) == IF Present(n.default) THEN n.default ELSE sv.default

ImportValue(sv, n) ==
    IF Present(n.value) THEN n.value ELSE ImportDefault(sv, n)

\* state_enum32_import, the only one to refuse a property of a wrong length.
EnumImportError(n) == BAD \in {n.value, n.default}

\* state_string_import: what is taken has to fit.
StringImportError(sv, n) ==
    \E x \in {ImportDefault(sv, n), ImportValue(sv, n)} \ {NONE} : Len(x) > sv.size

ImportError(sv, n) ==
    \/ sv.type = "enum32" /\ EnumImportError(n)
    \/ sv.type = "string" /\ StringImportError(sv, n)

Import(sv, n) ==
    IF ImportValue(sv, n) = NONE
      THEN sv
      ELSE [sv EXCEPT !.default = ImportDefault(sv, n),
                      !.raw = Encode(sv, ImportValue(sv, n))]

-----------------------------------------------------------------------------
(* Creation: state_from_node with create *)

ZeroDefault(type) ==
    CASE type \in Number -> 0
      [] type = "mac" -> Zeros(MacLen)
      [] type = "string" -> NONE

\* vtype->create: all memory is zero.
NewVar(n) ==
    [name |-> n.name, type |-> n.type, start |-> n.start, size |-> VarSize(n),
     names |-> n.names, text |-> NONE,
     raw |-> Zeros(MemoryLen(n.type, VarSize(n))),
     default |-> ZeroDefault(n.type)]

\* Parents may lack a type.
IsGroup(n) == n.type = NONE /\ ~n.leaf

\* state_enum32_create counts the names.
EnumCreateError(n) == n.names = NONE

\* state_string_create reads the size from reg before it is compared.
StringCreateError(n) == ~n.reg \/ n.size > MaxString

CreateError(n) ==
    \/ n.type \notin Type
    \/ n.type = "enum32" /\ EnumCreateError(n)
    \/ n.type = "string" /\ StringCreateError(n)
    \/ ~n.reg
    \/ n.size # VarSize(n)
    \/ ImportError(NewVar(n), n)

\* list_add_sort: before the first variable that does not start earlier.
state_add_var(list, sv) ==
    LET at == SelectInSeq(list, LAMBDA x : ~(x.start < sv.start))
    IN InsertAt(list, IF at = 0 THEN Len(list) + 1 ELSE at, sv)

AddNode(list, n) ==
    IF IsGroup(n) THEN list ELSE state_add_var(list, Import(NewVar(n), n))

Variables(s) ==
    LET Added[k \in 0 .. Len(s.nodes)] ==
            IF k = 0 THEN <<>> ELSE AddNode(Added[k - 1], s.nodes[k])
    IN  Added[Len(s.nodes)]

\* Mutant of Conflict: the last byte is not subtracted.
ConflictLate(last, sv) == ~((last.start + last.size) % AddrMod <= sv.start + 1)

\* Two neighbours of the list overlap; an unsigned comparison, in which a
\* variable of size 0 at offset 0 ends at 2^32 - 1.
Conflict(last, sv) ==
    ~((last.start + last.size + AddrMod - 1) % AddrMod < sv.start)

Accepted(s) ==
    /\ \A i \in DOMAIN s.nodes : IsGroup(s.nodes[i]) \/ ~CreateError(s.nodes[i])
    /\ LET list == Variables(s)
       IN \A i \in 2 .. Len(list) : ~Conflict(list[i - 1], list[i])

-----------------------------------------------------------------------------
(* The raw format *)

DataSize(list) == (Last(list).start + Last(list).size) % AddrMod

Covers(sv, i) == sv.start < i /\ i <= sv.start + sv.size

RawData(list) ==
    [i \in 1 .. DataSize(list) |->
        LET by == {k \in DOMAIN list : Covers(list[k], i)}
        IN IF by = {} THEN 0
           ELSE LET sv == list[CHOOSE k \in by : \A l \in by : l <= k]
                IN sv.raw[i - sv.start]]

backend_format_raw_pack(list, magic) ==
    [magic |-> magic, data_len |-> DataSize(list) % LenMod,
     data |-> RawData(list), data_crc |-> RawData(list)]

backend_format_raw_verify(img, magic) ==
    /\ magic = 0 \/ magic = img.magic
    /\ img.data_len <= Len(img.data)
    /\ SubSeq(img.data, 1, img.data_len) = img.data_crc

EndsBehind(sv, img) == sv.start + sv.size > img.data_len

\* Mutant of UnpackVar: the bytes from the start of the data.
UnpackVarStart(sv, img) ==
    IF EndsBehind(sv, img) THEN sv
    ELSE [sv EXCEPT !.raw = SubSeq(img.data, 1, sv.size)
                            \o SubSeq(sv.raw, sv.size + 1, Len(sv.raw))]

\* memcpy(sv->raw, data + sv->start, sv->size); the other bytes of an uint8
\* stay.
UnpackVar(sv, img) ==
    IF EndsBehind(sv, img) THEN sv
    ELSE [sv EXCEPT !.raw = SubSeq(img.data, sv.start + 1, sv.start + sv.size)
                            \o SubSeq(sv.raw, sv.size + 1, Len(sv.raw))]

backend_format_raw_unpack(list, img) ==
    [ret |-> IF \E i \in DOMAIN list : EndsBehind(list[i], img)
               THEN "ENOSPC" ELSE "OK",
     list |-> [i \in DOMAIN list |-> UnpackVar(list[i], img)]]

-----------------------------------------------------------------------------
(* The dtb format: state_to_node and state_from_node without create *)

\* state_find_var: the first of that name, 0 if there is none.
state_find_var(list, name) == SelectInSeq(list, LAMBDA sv : sv.name = name)

\* A default of zero is not exported.
ExportDefault(sv) == IF sv.default = ZeroDefault(sv.type) THEN NONE ELSE sv.default

\* A string is exported from string->value, which only a set gives a value.
ExportValue(sv) ==
    CASE sv.type \in Number -> Num(sv.raw)
      [] sv.type = "mac" -> sv.raw
      [] sv.type = "string" -> sv.text

\* state_*_export, for STATE_CONVERT_TO_NODE.
Export(sv, n) ==
    [name |-> n.name, type |-> n.type, leaf |-> n.leaf,
     default |-> ExportDefault(sv), value |-> ExportValue(sv)]

Group(n) == [name |-> n.name, type |-> NONE, leaf |-> FALSE,
             default |-> NONE, value |-> NONE]

state_to_node(list, s) ==
    [magic |-> s.magic,
     nodes |-> [i \in DOMAIN s.nodes |->
        IF IsGroup(s.nodes[i]) THEN Group(s.nodes[i])
        ELSE Export(list[state_find_var(list, s.nodes[i].name)], s.nodes[i])]]

\* The tree is flattened as it is.
state_backend_format_dtb_pack(list, s) == state_to_node(list, s)

\* The default of a string is a pointer into the stored tree, which is freed
\* after the import, be it that the string or its default is too long.
Dangling(sv, n, junk) ==
    IF sv.type = "string" /\ Present(n.default) THEN [sv EXCEPT !.default = junk] ELSE sv

\* One node of the stored tree; variables that are gone are ignored, the
\* first error ends the import.
ImportNode(acc, n, junk) ==
    LET k == state_find_var(acc.list, n.name)
    IN IF acc.ret # "OK" \/ n.type = NONE \/ k = 0 THEN acc
       ELSE IF ImportError(acc.list[k], n)
         THEN [acc EXCEPT !.ret = "EILSEQ", !.list[k] = Dangling(@, n, junk)]
       ELSE [acc EXCEPT !.list[k] = Dangling(Import(@, n), n, junk)]

state_from_node(list, img, magic, junk) ==
    LET Imported[k \in 0 .. Len(img.nodes)] ==
            IF k = 0 THEN [ret |-> "OK", list |-> list]
            ELSE ImportNode(Imported[k - 1], img.nodes[k], junk)
    IN  IF magic # 0 /\ magic # img.magic
          THEN [ret |-> "EINVAL", list |-> list]
          ELSE Imported[Len(img.nodes)]

-----------------------------------------------------------------------------
(* Setting a variable from the command line *)

\* state_set_var: is the text the one the variable has?  Any answer for an
\* enum that is read from outside of its names.
Same(sv, in) ==
    IF Show(sv) = NONE THEN BOOLEAN ELSE {in.canonical /\ in.x = Show(sv)}

SetError(sv, in) ==
    CASE sv.type = "uint8" -> in.x > Base - 1
      [] sv.type = "uint32" -> FALSE
      [] sv.type = "enum32" -> in.x \notin Range(sv.names)
      [] sv.type = "mac" -> in.x = BAD
      [] sv.type = "string" -> Len(in.x) > sv.size

\* __state_enum32_set: the first of that name.
EnumIndex(sv, x) == SelectInSeq(sv.names, LAMBDA nm : nm = x) - 1

\* __state_*_set; uint32 keeps the low 32 bits of what strtoul returns.
SetValue(sv, in) ==
    CASE sv.type \in {"uint8", "uint32"} ->
             [sv EXCEPT !.raw = LittleEndian(in.x % WordMod)]
      [] sv.type = "enum32" ->
             [sv EXCEPT !.raw = LittleEndian(EnumIndex(sv, in.x))]
      [] sv.type = "mac" -> [sv EXCEPT !.raw = in.x]
      [] sv.type = "string" -> [sv EXCEPT !.raw = Encode(sv, in.x), !.text = in.x]

-----------------------------------------------------------------------------
(* A run of the tool *)

VarsInit ==
    /\ fmt \in {"raw", "dtb"}
    /\ phase = "off" /\ schema = NONE /\ svs = <<>>
    /\ dirty = FALSE /\ ret = "OK"
    /\ image = NONE /\ kept = <<>>

Off == phase' = "off" /\ schema' = NONE /\ svs' = <<>> /\ dirty' = FALSE /\ ret' = "OK"

\* state_new_from_node; a node with an error ends the run.
state_new_from_node(s) ==
    /\ phase = "off"
    /\ Accepted(s)
    /\ phase' = "created" /\ schema' = s /\ svs' = Variables(s)
    /\ UNCHANGED <<fmt, dirty, ret, image, kept>>

\* state_do_load: dirty on any error.
Loaded(result) ==
    /\ svs' = result.list /\ ret' = result.ret
    /\ dirty' = (result.ret # "OK")

state_do_load ==
    /\ phase = "created"
    /\ \/ /\ image = NONE
          /\ Loaded([ret |-> "EINVAL", list |-> svs])
       \/ /\ image # NONE /\ fmt = "raw"
          /\ Loaded(IF backend_format_raw_verify(image, schema.magic)
                      THEN backend_format_raw_unpack(svs, image)
                      ELSE [ret |-> "EINVAL", list |-> svs])
       \/ /\ image # NONE /\ fmt = "dtb"
          /\ \E junk \in Junk :
                 Loaded(state_from_node(svs, image, schema.magic, junk))
    /\ phase' = "loaded"
    /\ UNCHANGED <<fmt, schema, image, kept>>

\* Mutant of state_set_var: the state is not marked dirty.
SetVarClean(k, in) ==
    /\ phase \in {"loaded", "changed"}
    /\ ~SetError(svs[k], in)
    /\ svs' = [svs EXCEPT ![k] = SetValue(@, in)]
    /\ phase' = "changed"
    /\ UNCHANGED <<fmt, schema, dirty, ret, image, kept>>

\* -s: a variable that has the text already is left alone.
state_set_var(k, in) ==
    /\ phase \in {"loaded", "changed"}
    /\ \/ /\ TRUE \in Same(svs[k], in)
          /\ UNCHANGED <<svs, dirty>>
       \/ /\ FALSE \in Same(svs[k], in)
          /\ ~SetError(svs[k], in)
          /\ svs' = [svs EXCEPT ![k] = SetValue(@, in)]
          /\ dirty' = TRUE
    /\ phase' = "changed"
    /\ UNCHANGED <<fmt, schema, ret, image, kept>>

\* A -s that fails ends the run; what was set before is not saved.
SetFails(k, in) ==
    /\ phase \in {"loaded", "changed"}
    /\ FALSE \in Same(svs[k], in)
    /\ SetError(svs[k], in)
    /\ Off
    /\ UNCHANGED <<fmt, image, kept>>

Settable == {k \in DOMAIN svs : state_find_var(svs, svs[k].name) = k}

\* What identifies a variable across device trees.
Layout(sv) == [name |-> sv.name, type |-> sv.type, start |-> sv.start,
               size |-> sv.size, names |-> sv.names]

\* state_save, when the state is dirty.
state_save ==
    /\ phase \in {"loaded", "changed"}
    /\ dirty
    /\ image' = IF fmt = "raw" THEN backend_format_raw_pack(svs, schema.magic)
                               ELSE state_backend_format_dtb_pack(svs, schema)
    /\ kept' = [k \in DOMAIN svs |-> [var |-> Layout(svs[k]), shown |-> Show(svs[k]),
                                     set |-> svs[k].text # NONE]]
    /\ Off
    /\ UNCHANGED fmt

\* The run ends without a save: nothing is dirty, the run is readonly, or it
\* is killed.
Exit ==
    /\ phase # "off"
    /\ Off
    /\ UNCHANGED <<fmt, image, kept>>

VarsNext ==
    \/ \E s \in Schema : state_new_from_node(s)
    \/ state_do_load
    \/ \E k \in Settable : \E in \in Input(svs[k].type) :
           state_set_var(k, in) \/ SetFails(k, in)
    \/ state_save
    \/ Exit

VarsSpec == VarsInit /\ [][VarsNext]_stateVars
-----------------------------------------------------------------------------
(* Properties *)

Occupies(sv) == (sv.start + 1) .. (sv.start + sv.size)

\* The check of neighbours in the sorted list is enough: whatever order the
\* nodes come in, no two variables of an accepted state share a byte of the
\* image (state_from_node, state_add_var).
AcceptedDisjoint ==
    \A i, j \in DOMAIN svs : i # j => Occupies(svs[i]) \cap Occupies(svs[j]) = {}

\* The image is this state's, and data_len counts all of its data.
Readable ==
    /\ schema.magic \in {0, image.magic}
    /\ fmt = "raw" => Len(image.data) < LenMod

\* What a variable shows after the load, of what it showed when it was saved:
\* just that.  Of an uint8 the raw format stores one byte, which is not all if
\* it was created from a default of more than a byte or showed more.
Restored(created, shown) ==
    IF fmt = "raw" /\ created.type = "uint8" /\ (Num(created.raw) >= Base \/ shown >= Base)
      THEN Num([created.raw EXCEPT ![1] = LittleEndian(shown)[1]])
      ELSE shown

\* The dtb format stores only those strings that the run has set.
IsStored(k) == fmt = "dtb" /\ kept[k].var.type = "string" => kept[k].set

ShowsKept(i) ==
    \A k \in DOMAIN kept :
        kept[k].var = Layout(svs[i]) /\ IsStored(k) =>
            Show(svs[i]) = Restored(Variables(schema)[i], kept[k].shown)

\* A load finds what the last save stored, also after an update of the device
\* tree (pack, verify and unpack of both formats).  It refuses exactly the
\* images of others and those of more data than data_len counts, and keeps the
\* defaults then; only a string can be an error behind that.  Else every
\* variable that is still the same shows what was stored.
LoadedAsSaved ==
    phase = "loaded" =>
        /\ ret = "EINVAL" <=> image = NONE \/ ~Readable
        /\ ret = "EINVAL" => svs = Variables(schema)
        /\ ret = "EILSEQ" =>
              fmt = "dtb" /\ \E q \in DOMAIN image.nodes : image.nodes[q].type = "string"
        /\ ret \in {"OK", "ENOSPC"} => \A i \in DOMAIN svs : ShowsKept(i)

\* A run in which nothing is dirty may end without a save: its variables
\* show what is stored (state_set_var, state_do_load).
CleanIsStored ==
    phase \in {"loaded", "changed"} /\ ~dirty => \A i \in DOMAIN svs : ShowsKept(i)

\* An image that is too short for the variables is loaded up to some variable:
\* the later ones have their defaults, the earlier ones are loaded, and the
\* state is dirty, so that the next save completes the image
\* (backend_format_raw_unpack, state_do_load).
PartialLoadIsPrefix ==
    phase = "loaded" /\ fmt = "raw" /\ ret = "ENOSPC" =>
        /\ dirty
        /\ \E n \in 0 .. Len(svs) - 1 : \A i \in DOMAIN svs :
               IF i <= n
                 THEN SubSeq(svs[i].raw, 1, svs[i].size) =
                      [b \in 1 .. svs[i].size |-> image.data[svs[i].start + b]]
                 ELSE svs[i] = Variables(schema)[i]
=============================================================================
