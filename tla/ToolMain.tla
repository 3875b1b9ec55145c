----------------------------- MODULE ToolMain -----------------------------
(***************************************************************************)
(* main() of barebox-state.c: one command line with several -n, -g and -s  *)
(* options, worked through in order.  The states are loaded, the -g and -s *)
(* are applied to the state whose name is in front of the variable's name, *)
(* and at the end the dirty states are saved one after the other.  Any     *)
(* error ends the run with exit status 1.  A state is its variables here:  *)
(* how it is stored is the subject of StateStorage, what a set does to a   *)
(* variable that of StateVariables.                                        *)
(***************************************************************************)
EXTENDS Naturals, Sequences, SequencesExt

CONSTANTS
    StateName,      \* names of states
    VarPath,        \* state -> names of its variables, as sequences of parts
    Given,          \* values a -s can have
    Wrong,          \* a value that the type of the variable refuses
    Start,          \* the default of every variable
    CommandLine     \* command lines: names, whether a default, options

\* Without a -n the default name is put on the list.
ASSUME MainAssumption ==
    /\ DOMAIN VarPath = StateName
    /\ \A c \in CommandLine :
          /\ c.names \in Seq(StateName) /\ c.names # <<>>
          /\ DOMAIN c.options = 1 .. Len(c.options) /\ Len(c.options) \in Nat

VARIABLES
    cmd,        \* the command line of this run
    at,         \* "idle", "load", "options", "save"
    pos,        \* position in the list that is worked through
    mem, disk,  \* state -> variable -> value, in memory and as stored
    unsaved,    \* states with dirty set
    before,     \* history: what was stored when the run began,
    loaded,     \* history: and what the loads of the run returned
    status      \* exit status of the last run

mainVars == <<cmd, at, pos, mem, disk, unsaved, before, loaded, status>>

NoCommand == [names |-> <<>>, options |-> <<>>]

Defaults(st) == [v \in VarPath[st] |-> Start]

\* Without a -s the states are readonly.
Readonly == \A i \in DOMAIN cmd.options : cmd.options[i].get

MainInit ==
    /\ cmd = NoCommand /\ at = "idle" /\ pos = 1
    /\ disk = [st \in StateName |-> Defaults(st)]
    /\ mem = disk /\ before = disk /\ loaded = disk
    /\ unsaved = {} /\ status = 0

\* getopt_long is done: the lists of names and of options are filled.
ParseOptions(c) ==
    /\ at = "idle"
    /\ cmd' = c /\ at' = "load" /\ pos' = 1
    /\ before' = disk /\ loaded' = disk
    /\ UNCHANGED <<mem, disk, unsaved, status>>

\* out_unlock.  The process ends: nothing in memory survives.
Quit(code) ==
    /\ at' = "idle" /\ pos' = 1 /\ status' = code
    /\ unsaved' = {} /\ UNCHANGED <<cmd, mem, before, loaded>>

\* state_get of the next name.  A load that fails leaves the defaults, dirty.
LoadState ==
    /\ at = "load" /\ pos <= Len(cmd.names)
    /\ LET st == cmd.names[pos]
       IN \/ /\ loaded' = loaded
             /\ unsaved' = unsaved
          \/ /\ loaded' = [loaded EXCEPT ![st] = Defaults(st)]
             /\ unsaved' = unsaved \cup {st}
    /\ mem' = loaded'
    /\ pos' = pos + 1
    /\ UNCHANGED <<cmd, at, disk, before, status>>

NoSuchState ==
    /\ at = "load" /\ pos <= Len(cmd.names)
    /\ Quit(1)
    /\ UNCHANGED disk

AllLoaded ==
    /\ at = "load" /\ pos > Len(cmd.names)
    /\ at' = "options" /\ pos' = 1
    /\ UNCHANGED <<cmd, mem, disk, unsaved, before, loaded, status>>

\* The state and the variable an option means: the part in front of the
\* first dot is the name of a state, else all of it names a variable of the
\* first state.
Chosen(path) ==
    IF Len(path) > 1 /\ Head(path) \in Range(cmd.names)
      THEN [state |-> Head(path), var |-> Tail(path)]
      ELSE [state |-> Head(cmd.names), var |-> path]

Known(c) == c.var \in VarPath[c.state]

Option == cmd.options[pos]

\* -g of a variable that exists, or -s that succeeds: a value that the
\* variable has already leaves the state clean.
OptionDone ==
    /\ at = "options" /\ pos <= Len(cmd.options)
    /\ LET c == Chosen(Option.path)
       IN /\ Known(c)
          /\ \/ /\ Option.get
                /\ UNCHANGED <<mem, unsaved>>
             \/ /\ ~Option.get /\ Option.val # Wrong
                /\ mem' = [mem EXCEPT ![c.state][c.var] = Option.val]
                /\ unsaved' = IF Option.val = mem[c.state][c.var]
                                THEN unsaved ELSE unsaved \cup {c.state}
    /\ pos' = pos + 1
    /\ UNCHANGED <<cmd, at, disk, before, loaded, status>>

\* An unknown variable, or a value that does not fit its type.
OptionFails ==
    /\ at = "options" /\ pos <= Len(cmd.options)
    /\ \/ ~Known(Chosen(Option.path))
       \/ ~Option.get /\ Option.val = Wrong
    /\ Quit(1)
    /\ UNCHANGED disk

AllApplied ==
    /\ at = "options" /\ pos > Len(cmd.options)
    /\ at' = "save" /\ pos' = 1
    /\ UNCHANGED <<cmd, mem, disk, unsaved, before, loaded, status>>

\* Mutant of SaveState: the first dirty state ends the loop.
SaveFirstOnly ==
    /\ at = "save" /\ pos <= Len(cmd.names)
    /\ disk' = [disk EXCEPT ![cmd.names[pos]] = mem[cmd.names[pos]]]
    /\ Quit(0)

\* The next state of the list is saved if it is dirty; saving a readonly
\* state succeeds without writing.
SaveState ==
    /\ at = "save" /\ pos <= Len(cmd.names)
    /\ LET st == cmd.names[pos]
       IN IF st \in unsaved
            THEN /\ disk' = IF Readonly THEN disk ELSE [disk EXCEPT ![st] = mem[st]]
                 /\ unsaved' = unsaved \ {st}
            ELSE UNCHANGED <<disk, unsaved>>
    /\ pos' = pos + 1
    /\ UNCHANGED <<cmd, at, mem, before, loaded, status>>

SaveFails ==
    /\ at = "save" /\ pos <= Len(cmd.names)
    /\ cmd.names[pos] \in unsaved /\ ~Readonly
    /\ Quit(1)
    /\ UNCHANGED disk

AllSaved ==
    /\ at = "save" /\ pos > Len(cmd.names)
    /\ Quit(0)
    /\ UNCHANGED disk

MainNext ==
    \/ \E c \in CommandLine : ParseOptions(c)
    \/ LoadState \/ NoSuchState \/ AllLoaded
    \/ OptionDone \/ OptionFails \/ AllApplied
    \/ SaveState \/ SaveFails \/ AllSaved

MainSpec == MainInit /\ [][MainNext]_mainVars

-----------------------------------------------------------------------------
(* Properties *)

\* What all options of the command line make of the values that were loaded.
Wanted(st) ==
    [v \in VarPath[st] |->
        LET sets == {i \in DOMAIN cmd.options :
                        /\ ~cmd.options[i].get
                        /\ Chosen(cmd.options[i].path) = [state |-> st, var |-> v]}
        IN IF sets = {} THEN loaded[st][v]
           ELSE cmd.options[CHOOSE i \in sets : \A j \in sets : j <= i].val]

\* Exit status 0 of a run with a -s says that every -s of the command line is
\* stored, the last one where two set the same variable.  Status 1 says that
\* the states in the first places of the list are stored with all of their
\* new values and the others are as before: never a state with only some of
\* its new values.  A run without a -s stores nothing.
ExitStatusTellsStored ==
    at = "idle" /\ cmd # NoCommand =>
        \E n \in 0 .. Len(cmd.names) :
            /\ status = 0 /\ ~Readonly => n = Len(cmd.names)
            /\ Readonly => n = 0
            /\ \A i \in DOMAIN cmd.names :
                   LET st == cmd.names[i]
                   IN disk[st] = IF \E j \in 1 .. n : cmd.names[j] = st
                                   THEN Wanted(st) ELSE before[st]
=============================================================================
