----------------------------- MODULE OfProperty -----------------------------
(***************************************************************************)
(* Values of properties (libdt.c): lists of strings, arrays of big endian  *)
(* numbers, and lists of phandles with arguments.  A value is a sequence   *)
(* of bytes or of cells; a caller writes one, and everything that reads it *)
(* must agree on what is in it.                                            *)
(***************************************************************************)
EXTENDS Integers, Sequences, SequencesExt, FiniteSetsExt

CONSTANTS
    Char,        \* characters other than NUL
    NUL,
    Base,        \* values of a byte
    Provider,    \* phandles that lead to a node
    Cells,       \* the "#...-cells" of those nodes
    MaxArgs,     \* MAX_PHANDLE_ARGS
    Strings,     \* bound: strings that are written
    Numbers,     \* bound: numbers that are written
    MaxList      \* bound on the length of lists

ASSUME PropertyAssumption ==
    /\ NUL \notin Char /\ Strings \subseteq Seq(Char)
    /\ Base \in Nat \ {0, 1} /\ Numbers \subseteq Nat
    /\ 0 \notin Provider /\ Cells \in [Provider -> Nat]
    /\ MaxArgs \in Nat /\ MaxList \in Nat

VARIABLES
    value,       \* the property
    wrote        \* history: how it was written, and what

valueVars == <<value, wrote>>

-----------------------------------------------------------------------------
(* Strings *)

\* of_property_write_strings: each with its NUL.
of_property_write_strings(ss) ==
    FoldLeft(LAMBDA b, s : b \o s \o <<NUL>>, <<>>, ss)

\* Errors of those that return a number.
ENODATA == -61
EILSEQ == -84

\* strlen of the string at p, and where the next one begins.  A last string
\* without a NUL runs on behind the value, where it is not followed: StringAt is
\* the part of it that is in the value.
StringEnd(b, p) == Min({k \in p .. Len(b) : b[k] = NUL} \cup {Len(b) + 1})
StringAt(b, p) == SubSeq(b, p, StringEnd(b, p) - 1)

\* Mutant of NextString: the NUL is not skipped.
NextStringShort(b, p) == IF StringEnd(b, p) = p THEN p + 1 ELSE StringEnd(b, p)

NextString(b, p) == StringEnd(b, p) + 1

\* strnlen(value, length) >= length
Unterminated(b) == StringEnd(b, 1) > Len(b)

of_property_read_string(b) == IF Unterminated(b) THEN <<"EILSEQ">> ELSE StringAt(b, 1)

\* The positions a loop over the strings comes to.
StringStarts(b) ==
    LET From[k \in 0 .. Len(b), p \in 1 .. Len(b) + 2] ==
            IF k = 0 \/ p > Len(b) THEN <<>>
            ELSE <<p>> \o From[k - 1, NextString(b, p)]
    IN  From[Len(b), 1]

\* index counts from 0.
of_property_read_string_index(b, index) ==
    LET ps == StringStarts(b) IN
    IF Unterminated(b) THEN <<"EILSEQ">>
    ELSE IF index < Len(ps) THEN StringAt(b, ps[index + 1]) ELSE <<"ENODATA">>

of_property_count_strings(b) ==
    IF Unterminated(b) THEN EILSEQ ELSE Len(StringStarts(b))

\* The one that looks at the end of every string it comes to.
of_property_match_string(b, s) ==
    LET ps == StringStarts(b)
        ends(p) == NextString(b, p) > Len(b) + 1
        k == SelectInSeq(ps, LAMBDA p : ends(p) \/ StringAt(b, p) = s)
    IN  IF k = 0 THEN ENODATA ELSE IF ends(ps[k]) THEN EILSEQ ELSE k - 1

\* for (s = of_prop_next_string(prop, NULL); s; s = of_prop_next_string(prop, s))
of_prop_next_string(b, p) == IF NextString(b, p) > Len(b) THEN 0 ELSE NextString(b, p)

\* of_device_is_compatible compares as many characters as it was asked for.
of_device_is_compatible(b, compat) ==
    \E k \in DOMAIN StringStarts(b) : IsPrefix(compat, StringAt(b, StringStarts(b)[k]))

-----------------------------------------------------------------------------
(* Numbers of width 1, 2, 4 or 8 *)

ToBytes(n, width) == [k \in 1 .. width |-> (n \div Base ^ (width - k)) % Base]

FromBytes(b, at, width) ==
    FoldLeft(LAMBDA acc, k : acc * Base + b[at + k], 0, [k \in 1 .. width |-> k])

\* of_property_write_u8_array and its relatives.
of_property_write_array(ns, width) ==
    FoldLeft(LAMBDA b, n : b \o ToBytes(n, width), <<>>, ns)

\* of_find_property_value_of_size: enough bytes for the last number asked for.
HasSize(b, len) == len <= Len(b)

EOVERFLOW == <<-1>>

of_property_read_array(b, width, sz) ==
    IF HasSize(b, sz * width)
    THEN [k \in 1 .. sz |-> FromBytes(b, (k - 1) * width, width)]
    ELSE EOVERFLOW

of_property_read_u32_index(b, index) ==
    IF HasSize(b, (index + 1) * 4) THEN FromBytes(b, index * 4, 4) ELSE -1

\* of_property_for_each_u32: of_prop_next_u32 takes the first number whatever
\* the length, and every other one that begins in the value.  One that does not
\* end in it has bytes from behind it, and is -1 here.
of_prop_next_u32(b) ==
    [k \in 1 .. Max({1, (Len(b) + 3) \div 4}) |->
        IF HasSize(b, k * 4) THEN FromBytes(b, (k - 1) * 4, 4) ELSE -1]

\* of_property_read_u64 and of_read_number put two cells together.
of_read_number(b) == FromBytes(b, 0, 4) * Base ^ 4 + FromBytes(b, 4, 4)

-----------------------------------------------------------------------------
(* Phandles with arguments.  A list is a sequence of cells.                 *)

\* An entry in the list, and one of a phandle 0.
Entry_(ph, args) == [ph |-> ph, args |-> args]
EncodeEntries(es) == FoldLeft(LAMBDA c, e : c \o <<e.ph>> \o e.args, <<>>, es)

\* Mutant of ArgCount: an empty entry has an argument.
ArgCountAlways(ph) == IF ph = 0 THEN 1 ELSE Cells[ph]

\* The number of cells behind the phandle.
ArgCount(ph) == IF ph = 0 THEN 0 ELSE Cells[ph]

\* __of_parse_phandle_with_args.  index is -1 to count the entries.
ParseFrom(list, index) ==
    LET Parse[k \in 0 .. Len(list), at \in 1 .. Len(list) + 1, cur \in 0 .. Len(list)] ==
            IF at > Len(list) \/ k = 0 THEN IF index < 0 THEN <<"count", cur>> ELSE <<"ENOENT">>
            ELSE LET ph == list[at]
                     n == ArgCount(ph)
                 IN  IF ph # 0 /\ ph \notin Provider THEN <<"EINVAL">>
                     ELSE IF at + n > Len(list) THEN <<"EINVAL">>
                     ELSE IF cur # index THEN Parse[k - 1, at + n + 1, cur + 1]
                     ELSE IF ph = 0 THEN <<"ENOENT">>
                     ELSE <<"args", ph, SubSeq(list, at + 1, at + Min({n, MaxArgs}))>>
    IN  Parse[Len(list), 1, 0]

of_parse_phandle_with_args(list, index) ==
    IF index < 0 THEN <<"EINVAL">> ELSE ParseFrom(list, index)

of_count_phandle_with_args(list) == ParseFrom(list, -1)

-----------------------------------------------------------------------------

Nothing == [how |-> "none", width |-> 0, what |-> <<>>]
ListsOf(S) == UNION {[1 .. n -> S] : n \in 1 .. MaxList}

\* A phandle that leads nowhere is not among the entries.
Entries ==
    {Entry_(0, <<>>)} \cup
    UNION {{Entry_(ph, [k \in 1 .. Cells[ph] |-> a]) : a \in {0, ph}} : ph \in Provider}

WriteStrings(ss) ==
    /\ wrote = Nothing
    /\ value' = of_property_write_strings(ss)
    /\ wrote' = [how |-> "strings", width |-> 1, what |-> ss]

\* The value comes from a blob and its last string has no NUL.
UnendedStrings(ss) ==
    /\ wrote = Nothing /\ Last(ss) # <<>>
    /\ value' = Front(of_property_write_strings(ss))
    /\ wrote' = [how |-> "unended", width |-> 1, what |-> ss]

WriteNumbers(ns, width) ==
    /\ wrote = Nothing
    /\ \A k \in DOMAIN ns : ns[k] < Base ^ width
    /\ value' = of_property_write_array(ns, width)
    /\ wrote' = [how |-> "numbers", width |-> width, what |-> ns]

WritePhandles(es) ==
    /\ wrote = Nothing
    /\ value' = EncodeEntries(es)
    /\ wrote' = [how |-> "phandles", width |-> 4, what |-> es]

Forget ==
    /\ wrote # Nothing
    /\ value' = <<>> /\ wrote' = Nothing

ValueInit == value = <<>> /\ wrote = Nothing

ValueNext ==
    \/ \E ss \in ListsOf(Strings) : WriteStrings(ss) \/ UnendedStrings(ss)
    \/ \E ns \in ListsOf(Numbers), width \in {1, 2, 4, 8} : WriteNumbers(ns, width)
    \/ \E es \in ListsOf(Entries) : WritePhandles(es)
    \/ Forget

ValueSpec == ValueInit /\ [][ValueNext]_valueVars

-----------------------------------------------------------------------------

StringsAgree(ss) ==
    /\ of_property_count_strings(value) = Len(ss)
    /\ of_property_read_string(value) = ss[1]
    /\ \A k \in DOMAIN ss :
          /\ of_property_read_string_index(value, k - 1) = ss[k]
          /\ of_property_match_string(value, ss[k]) =
                SelectInSeq(ss, LAMBDA s : s = ss[k]) - 1
          /\ of_device_is_compatible(value, ss[k])
          /\ of_prop_next_string(value, StringStarts(value)[k]) =
                IF k = Len(ss) THEN 0 ELSE StringStarts(value)[k + 1]
    /\ of_property_read_string_index(value, Len(ss)) = <<"ENODATA">>

\* The strings before the last one are still found, and the last one is not.
UnendedAgree(ss) ==
    LET whole == Front(ss) IN
    /\ whole = <<>> <=> of_property_read_string(value) = <<"EILSEQ">>
    /\ \A k \in DOMAIN whole :
          /\ of_property_read_string_index(value, k - 1) = ss[k]
          /\ of_property_match_string(value, ss[k]) =
                SelectInSeq(ss, LAMBDA s : s = ss[k]) - 1
    /\ Last(ss) \notin Range(whole) =>
          of_property_match_string(value, Last(ss)) = EILSEQ

NumbersAgree(ns, width) ==
    /\ of_property_read_array(value, width, Len(ns)) = ns
    /\ of_property_read_array(value, width, Len(ns) + 1) = EOVERFLOW
    /\ width = 4 => /\ of_prop_next_u32(value) = ns
                    /\ \A k \in DOMAIN ns :
                          of_property_read_u32_index(value, k - 1) = ns[k]
    /\ width = 8 => of_read_number(value) = ns[1]

\* What one function writes all others read back: the number of strings, each
\* of them by index and by name, and the walk from one to the next agree, empty
\* strings included; numbers keep their value at any width, and a value that
\* holds one number less than asked for is refused.  Of a value whose last string
\* has no NUL the strings before it are read as if it were not there, and the
\* search for it gives an error.
ValuesReadBack ==
    /\ wrote.how = "strings" => StringsAgree(wrote.what)
    /\ wrote.how = "unended" => UnendedAgree(wrote.what)
    /\ wrote.how = "numbers" => NumbersAgree(wrote.what, wrote.width)

\* Every entry of a list of phandles is found at its index whatever the
\* lengths of the entries before it, empty ones are counted but not returned,
\* and a list that ends within the arguments of its last entry is found out.
PhandleArgsReadBack ==
    wrote.how = "phandles" =>
        LET es == wrote.what
            cut == SubSeq(value, 1, Len(value) - 1)
        IN  /\ of_count_phandle_with_args(value) = <<"count", Len(es)>>
            /\ of_parse_phandle_with_args(value, Len(es)) = <<"ENOENT">>
            /\ \A k \in DOMAIN es :
                  of_parse_phandle_with_args(value, k - 1) =
                    IF es[k].ph = 0 THEN <<"ENOENT">>
                    ELSE <<"args", es[k].ph,
                           SubSeq(es[k].args, 1, Min({Len(es[k].args), MaxArgs}))>>
            /\ Last(es).args # <<>> =>
                  of_count_phandle_with_args(cut) = <<"EINVAL">>
=============================================================================
