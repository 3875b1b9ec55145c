------------------------------ MODULE ToolLock ------------------------------
(***************************************************************************)
(* Runs of barebox-state at the same time (main and state_get in           *)
(* barebox-state.c, state_new_from_node in state.c, open_exclusive in      *)
(* state.h).  A run takes locks, loads the states named with -n in the     *)
(* order of the command line, changes them and saves them in that order.   *)
(* The build decides what is locked: one lock file for the whole run, or,  *)
(* with CONFIG_LOCK_DEVICE_NODE, the device node of each state as it is    *)
(* loaded, until the process exits.  A change is modelled as adding one,   *)
(* so that a change that is overwritten is missed.  Build, device tree and *)
(* command lines together are a setup; it is chosen at the start.          *)
(***************************************************************************)
EXTENDS Naturals, Sequences

CONSTANTS
    Proc,        \* runs of the tool
    Writer,      \* those with -s; the others are readonly
    State, Dev,  \* states and the device nodes they are on
    Setups,      \* builds, device trees and command lines to look at
    MayDie,      \* runs that may be killed or fail to save
    LockMayFail  \* runs whose open or flock of a device node may fail

ASSUME LockAssumption ==
    /\ Writer \subseteq Proc /\ MayDie \subseteq Proc
    /\ LockMayFail \subseteq Proc
    /\ \A c \in Setups : /\ c.lockDevice \in BOOLEAN
                         /\ c.devOf \in [State -> Dev]
                         /\ c.names \in [Proc -> Seq(State)]

VARIABLES
    setup,   \* never changes
    pc,      \* where each run is
    i,       \* the state of its loop over state_list
    file,    \* who holds the lock file
    held,    \* who holds the lock of each device node
    mem,     \* each run's copy of the states
    store,   \* the states on their devices
    saves    \* history: how often each state was saved

lockVars == <<setup, pc, i, file, held, mem, store, saves>>

LockDevice == setup.lockDevice  \* CONFIG_LOCK_DEVICE_NODE
DevOf == setup.devOf            \* the device node of each state
Names == setup.names            \* the states each run names, in order

Goto(p, l) == pc' = [pc EXCEPT ![p] = l]

ReleaseNothing(p) == UNCHANGED <<file, held>>

\* The kernel drops the locks of descriptors that are closed.
Release(p) ==
    /\ file' = file \ {p}
    /\ held' = [d \in Dev |-> held[d] \ {p}]

-----------------------------------------------------------------------------

NoLock(p) ==
    /\ pc[p] = "start"
    /\ Goto(p, "open")
    /\ UNCHANGED <<setup, i, file, held, mem, store, saves>>

\* flock of the lock file; the build with device locks goes on without.
TakeLockFile(p) ==
    /\ pc[p] = "start"
    /\ LockDevice \/ file = {}
    /\ file' = IF LockDevice THEN file ELSE {p}
    /\ Goto(p, "open")
    /\ UNCHANGED <<setup, i, held, mem, store, saves>>

OpenWithoutLock(p) ==
    /\ pc[p] = "open" /\ i[p] <= Len(Names[p])
    /\ Goto(p, "load")
    /\ UNCHANGED <<setup, i, file, held, mem, store, saves>>

\* state_new_from_node opens the device node once more and locks that
\* descriptor.  flock treats descriptors of separate opens as strangers, those
\* of the same process too.
Open(p) ==
    LET d == DevOf[Names[p][i[p]]] IN
    /\ pc[p] = "open" /\ i[p] <= Len(Names[p])
    /\ LockDevice => held[d] = {}
    /\ held' = IF LockDevice THEN [held EXCEPT ![d] = {p}] ELSE held
    /\ Goto(p, "load")
    /\ UNCHANGED <<setup, i, file, mem, store, saves>>

\* open or flock fails.  The result of open_exclusive is ignored, and the run
\* goes on as if it held the lock.
OpenUnlocked(p) ==
    /\ p \in LockMayFail /\ LockDevice
    /\ pc[p] = "open" /\ i[p] <= Len(Names[p])
    /\ Goto(p, "load")
    /\ UNCHANGED <<setup, i, file, held, mem, store, saves>>

\* state_load of the state.
Load(p) ==
    LET s == Names[p][i[p]] IN
    /\ pc[p] = "load"
    /\ mem' = [mem EXCEPT ![p][s] = store[s]]
    /\ i' = [i EXCEPT ![p] = @ + 1]
    /\ Goto(p, "open")
    /\ UNCHANGED <<setup, file, held, store, saves>>

\* state_get fails: no such node, no device, no format.
OpenFail(p) ==
    /\ pc[p] \in {"open", "load"} /\ i[p] <= Len(Names[p])
    /\ Release(p)
    /\ Goto(p, "done")
    /\ UNCHANGED <<setup, i, mem, store, saves>>

ModifyGoesOn(p) ==
    /\ pc[p] = "open" /\ i[p] > Len(Names[p])
    /\ i' = [i EXCEPT ![p] = @ + 1]
    /\ Goto(p, "save")
    /\ UNCHANGED <<setup, file, held, mem, store, saves>>

\* All states are loaded: -s changes each of them, for a readonly run there is
\* nothing to save.
Modify(p) ==
    /\ pc[p] = "open" /\ i[p] > Len(Names[p])
    /\ mem' = IF p \in Writer THEN [mem EXCEPT ![p] = [s \in State |-> @[s] + 1]]
                              ELSE mem
    /\ i' = [i EXCEPT ![p] = IF p \in Writer THEN 1 ELSE @]
    /\ Goto(p, "save")
    /\ UNCHANGED <<setup, file, held, store, saves>>

\* state_save of the state; a run with -s has made it dirty.
Save(p) ==
    LET s == Names[p][i[p]] IN
    /\ pc[p] = "save" /\ i[p] <= Len(Names[p])
    /\ store' = [store EXCEPT ![s] = mem[p][s]]
    /\ saves' = [saves EXCEPT ![s] = @ + 1]
    /\ i' = [i EXCEPT ![p] = @ + 1]
    /\ UNCHANGED <<setup, pc, file, held, mem>>

\* A failed save ends the run; the states before it are saved.
SaveFail(p) ==
    /\ p \in MayDie
    /\ pc[p] = "save" /\ i[p] <= Len(Names[p])
    /\ Release(p)
    /\ Goto(p, "done")
    /\ UNCHANGED <<setup, i, mem, store, saves>>

\* out_unlock, and the exit that closes all descriptors.
ExitRun(p) ==
    /\ pc[p] = "save" /\ i[p] > Len(Names[p])
    /\ Release(p)
    /\ Goto(p, "done")
    /\ UNCHANGED <<setup, i, mem, store, saves>>

\* The run is killed; the kernel drops its locks.
Die(p) ==
    /\ p \in MayDie /\ pc[p] # "done"
    /\ Release(p)
    /\ Goto(p, "done")
    /\ UNCHANGED <<setup, i, mem, store, saves>>

LockInit ==
    /\ setup \in Setups
    /\ pc = [p \in Proc |-> "start"] /\ i = [p \in Proc |-> 1]
    /\ file = {} /\ held = [d \in Dev |-> {}]
    /\ mem = [p \in Proc |-> [s \in State |-> 0]]
    /\ store = [s \in State |-> 0] /\ saves = [s \in State |-> 0]

\* What a run does by itself, faults left aside.
Step(p) ==
    \/ TakeLockFile(p) \/ Open(p) \/ Load(p) \/ Modify(p) \/ Save(p) \/ ExitRun(p)

Finished == (\A p \in Proc : pc[p] = "done") /\ UNCHANGED lockVars

LockNext ==
    \/ \E p \in Proc : Step(p) \/ OpenUnlocked(p) \/ OpenFail(p) \/ SaveFail(p) \/ Die(p)
    \/ Finished

\* The kernel runs every process that can run.
LockSpec == LockInit /\ [][LockNext]_lockVars /\ \A p \in Proc : WF_lockVars(Step(p))

-----------------------------------------------------------------------------

\* The loops over state_list stay within the list.
LockTypeOK ==
    /\ setup \in Setups
    /\ pc \in [Proc -> {"start", "open", "load", "save", "done"}]
    /\ i \in [Proc -> Nat] /\ \A p \in Proc : i[p] \in 1 .. Len(Names[p]) + 1
    /\ file \subseteq Proc /\ held \in [Dev -> SUBSET Proc]
    /\ mem \in [Proc -> [State -> Nat]]
    /\ store \in [State -> Nat] /\ saves \in [State -> Nat]

\* No run overwrites what another has saved since it loaded: every save of a
\* state counts (NEWS:70, "locking the device node directly via flock() in the
\* barebox-state tool instead of writing a lock file to the /run directory").
NoLostUpdate == \A s \in State : store[s] = saves[s]

\* A run that got its locks sees all changes of another run or none, as if one
\* had finished before the other began, unless that other run was cut off
\* before its last save.
CutOff(p) == pc[p] = "done" /\ i[p] <= Len(Names[p])

SeesWholeRuns ==
    (\A q \in Writer : ~CutOff(q)) =>
        \A p \in Proc \ LockMayFail : pc[p] = "open" /\ i[p] > Len(Names[p]) =>
            \A s, t \in State : mem[p][s] = mem[p][t]

\* Every run comes to its end (barebox-state.c:445, "Multiple states are
\* allowed").
Terminates == \A p \in Proc : <>(pc[p] = "done")
=============================================================================
