----------------------------- MODULE MCLibrary -----------------------------
(* The parts under the state code, one at a time: unit is the part that a    *)
(* behaviour is about, and all other parts stay as they began.  The parts    *)
(* share no state, so their state spaces add up instead of multiplying.      *)
EXTENDS LinkedList, Fdt, FdtBuffer, OfProperty, CdevFind, Digest, Base64, ToolMain

VARIABLE unit

Units == {"list", "tree", "buffer", "value", "cdev", "digest", "base64", "main"}

LibraryInit ==
    /\ unit \in Units
    /\ ListInit /\ TreeInit /\ BufferInit /\ ValueInit /\ CdevInit /\ DigestInit
    /\ Base64Init /\ MainInit

\* One step of the part that this behaviour is about.
LibraryNext ==
    /\ UNCHANGED unit
    /\ IF unit = "list" THEN ListNext ELSE UNCHANGED listVars
    /\ IF unit = "tree" THEN TreeNext ELSE UNCHANGED treeVars
    /\ IF unit = "buffer" THEN BufferNext ELSE UNCHANGED bufferVars
    /\ IF unit = "value" THEN ValueNext ELSE UNCHANGED valueVars
    /\ IF unit = "cdev" THEN CdevNext ELSE UNCHANGED cdevVars
    /\ IF unit = "digest" THEN DigestNext ELSE UNCHANGED digestVars
    /\ IF unit = "base64" THEN Base64Next ELSE UNCHANGED base64Vars
    /\ IF unit = "main" THEN MainNext ELSE UNCHANGED mainVars

LibrarySpec ==
    LibraryInit /\ [][LibraryNext]_<<unit, listVars, treeVars, bufferVars, valueVars,
                                    cdevVars, digestVars, base64Vars, mainVars>>

-----------------------------------------------------------------------------
(* Values of the constants *)

MCKey == [e \in Entry |-> IF e = 3 THEN 1 ELSE e]

MCPaths == {<<"s">>, <<"s", "s">>}

MCCells == [p \in Provider |-> p - 1]
MCStrings == {<<>>, <<"a">>, <<"b">>, <<"a", "b">>}

MCKeys == {<<Byte(7)>>, <<Byte(7), Byte(8), Byte(9), Byte(7)>>, [k \in 1 .. 5 |-> Byte(k)]}

MCPlain == UNION {[1 .. n -> {0, 97, 255}] : n \in 0 .. 4}

\* Two states; the first has a variable whose name begins like the second.
Get(p) == [get |-> TRUE, path |-> p, val |-> Start]
Set(p, v) == [get |-> FALSE, path |-> p, val |-> v]
MCVarPath == [s |-> {<<"x">>, <<"t", "x">>}, t |-> {<<"x">>}]
MCOptions == {Get(<<"x">>), Set(<<"x">>, 1), Set(<<"t", "x">>, 2),
              Set(<<"s", "t", "x">>, 1), Set(<<"t", "x">>, Wrong)}
MCCommandLine ==
    [names : {<<"s">>, <<"s", "t">>, <<"t", "s">>},
     options : UNION {[1 .. n -> MCOptions] : n \in 1 .. 2}]

\* Disks with and without partitions, mtd devices with and without erase.
Disk(medium, gpt) ==
    [devtype |-> "disk", medium |-> medium, start |-> 0, size |-> 24, gpt |-> gpt,
     uuid |-> <<medium, "table">>, guid |-> NONE]
Part(medium, start, size, uuid, guid) ==
    [devtype |-> "partition", medium |-> medium, start |-> start, size |-> size,
     gpt |-> FALSE, uuid |-> uuid, guid |-> guid]
Partitioned(medium, gpt) ==
    <<Disk(medium, gpt), Part(medium, 4, 4, <<medium, "p1">>, "other"),
      Part(medium, 8, 3, <<medium, "p2">>, STATE_GUID)>>
\* A partition that holds another one of its disk, and two of the same size.
Overlapping(medium) ==
    <<Disk(medium, TRUE), Part(medium, 8, 3, <<medium, "p2">>, STATE_GUID),
      Part(medium, 4, 7, <<medium, "p1">>, "other"),
      Part(medium, 1, 3, <<medium, "p3">>, "other")>>
Mtd(start, size, label, erase) ==
    [devtype |-> "mtd", medium |-> "flash", start |-> start, size |-> size,
     label |-> label, erase |-> erase, erasesize |-> 4]
Eeprom == [devtype |-> "eeprom", medium |-> "eeprom", start |-> 0, size |-> 32]
MCMachines ==
    {[disks |-> ds, eeprom |-> Eeprom,
      mtd |-> <<Mtd(0, 24, "whole", e), Mtd(8, 16, "state", e), Mtd(4, 4, "env", e)>>] :
        ds \in {<<<<Disk("sda", FALSE)>>, Partitioned("sdb", TRUE)>>,
                <<Partitioned("sda", TRUE), Partitioned("sdb", TRUE)>>,
                <<Overlapping("sda"), Overlapping("sdb")>>, <<Partitioned("sda", FALSE)>>},
        e \in BOOLEAN}

MCFailures == SUBSET (0 .. 3)

\* Regions, with an offset of one cell or, when it needs them, of two.
Regions == {<<o, s>> : o \in {0, 2, 8, 12, 16, 18}, s \in {2, 6, 8, 12}}
Reg(r) ==
    IF r[1] < CellMod THEN [a_cells |-> 1, s_cells |-> 1, cells |-> <<r[1], r[2]>>]
    ELSE [a_cells |-> 2, s_cells |-> 1,
          cells |-> <<r[1] \div CellMod, r[1] % CellMod, r[2]>>]
Blank == [direct |-> NONE, partuuid |-> NONE, storage_uuid |-> NONE, parent |-> NONE,
          label |-> NONE, region |-> NONE, reg |-> NONE]
MCNodes ==
    {[Blank EXCEPT !.direct = d] : d \in {"disk", "mtd", "eeprom", "odd"}} \cup
    {[Blank EXCEPT !.partuuid = <<m, "p2">>] : m \in {"sda", "sdb"}} \cup
    {[Blank EXCEPT !.storage_uuid = <<m, "table">>, !.region = r, !.reg = Reg(r)] :
        m \in {"sda", "sdb"}, r \in Regions} \cup
    {[Blank EXCEPT !.parent = p, !.region = r, !.reg = Reg(r)] :
        p \in {"disk", "eeprom", NONE}, r \in Regions} \cup
    {[Blank EXCEPT !.parent = p] : p \in {"disk", "eeprom", NONE}} \cup
    {[Blank EXCEPT !.parent = "mtd", !.label = l] :
        l \in {"state", "env", "absent", NONE}}
=============================================================================
