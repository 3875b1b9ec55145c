--------------------------- MODULE ToolLockProofs ---------------------------
(***************************************************************************)
(* Proofs about runs of the tool at the same time, for every set of runs,  *)
(* states, device nodes and command lines, and for both kinds of locks.    *)
(***************************************************************************)
EXTENDS ToolLock, TLAPS

\* What a setup says.
LEMMA SetupFacts ==
    ASSUME setup \in Setups
    PROVE  /\ LockDevice \in BOOLEAN /\ DevOf \in [State -> Dev]
           /\ \A p \in Proc : /\ Len(Names[p]) \in Nat
                              /\ \A j \in 1 .. Len(Names[p]) :
                                    Names[p][j] \in State
BY LockAssumption DEF LockDevice, DevOf, Names

\* A run starts at the head of its list, and one that loads has not come to
\* its end.
LockTypeInv ==
    /\ LockTypeOK
    /\ \A p \in Proc : pc[p] = "start" => i[p] = 1
    /\ \A p \in Proc : pc[p] = "load" => i[p] <= Len(Names[p])

\* The setup never changes.
LEMMA SetupKept ==
    ASSUME [LockNext]_lockVars
    PROVE  setup' = setup /\ Names' = Names /\ DevOf' = DevOf
           /\ LockDevice' = LockDevice
<1>1. setup' = setup
  BY DEF LockNext, Step, TakeLockFile, Open, OpenUnlocked, Load, Modify, Save, ExitRun,
         OpenFail, SaveFail, Die, Finished, lockVars
<1> QED
  BY <1>1 DEF Names, DevOf, LockDevice

\* The run gets every lock that it asks for.
Sure(p) == LockDevice => p \notin LockMayFail

\* Runs with -s do.
WritersLock == \A p \in Writer : p \notin LockMayFail

\* The run ends, in one way or another: its locks are gone, what it has
\* saved stays.
Ends(p) == ExitRun(p) \/ OpenFail(p) \/ SaveFail(p) \/ Die(p)

LEMMA EndsFacts ==
    ASSUME NEW p \in Proc, Ends(p)
    PROVE  /\ file' = file \ {p} /\ held' = [d \in Dev |-> held[d] \ {p}]
           /\ pc' = [pc EXCEPT ![p] = "done"]
           /\ UNCHANGED <<i, mem, store, saves>>
BY DEF Ends, ExitRun, OpenFail, SaveFail, Die, Release, Goto

LEMMA LockTypeStep == LockTypeInv /\ [LockNext]_lockVars => LockTypeInv'
<1> SUFFICES ASSUME LockTypeInv, [LockNext]_lockVars
             PROVE  LockTypeInv'
  OBVIOUS
<1>0. /\ setup' = setup /\ Names' = Names /\ DevOf' = DevOf
      /\ LockDevice' = LockDevice
  BY SetupKept
<1>1. /\ LockDevice \in BOOLEAN /\ DevOf \in [State -> Dev]
      /\ \A p \in Proc : /\ Len(Names[p]) \in Nat
                         /\ \A j \in 1 .. Len(Names[p]) : Names[p][j] \in State
  BY SetupFacts DEF LockTypeInv, LockTypeOK
<1> USE <1>0, <1>1 DEF LockTypeInv, LockTypeOK, Goto
<1>2. ASSUME NEW p \in Proc,
             Step(p) \/ OpenUnlocked(p) \/ OpenFail(p) \/ SaveFail(p) \/ Die(p)
      PROVE  LockTypeInv'
  <2>1. CASE TakeLockFile(p)
    BY <2>1 DEF TakeLockFile
  <2>2. CASE Open(p)
    BY <2>2 DEF Open
  <2>7. CASE OpenUnlocked(p)
    BY <2>7 DEF OpenUnlocked
  <2>3. CASE Load(p)
    BY <2>3 DEF Load
  <2>4. CASE Modify(p)
    <3>1. mem' \in [Proc -> [State -> Nat]]
      <4>1. CASE p \in Writer
        <5>1. [s \in State |-> mem[p][s] + 1] \in [State -> Nat]
          OBVIOUS
        <5>2. mem' = [mem EXCEPT ![p] = [s \in State |-> mem[p][s] + 1]]
          BY <2>4, <4>1 DEF Modify
        <5> QED
          BY <5>1, <5>2
      <4> QED
        BY <2>4, <4>1 DEF Modify
    <3> QED
      BY <2>4, <3>1 DEF Modify
  <2>5. CASE Save(p)
    <3> DEFINE s == Names[p][i[p]]
    <3>1. /\ i[p] \in 1 .. Len(Names[p]) /\ i' = [i EXCEPT ![p] = @ + 1]
          /\ store' = [store EXCEPT ![s] = mem[p][s]]
          /\ saves' = [saves EXCEPT ![s] = @ + 1]
          /\ UNCHANGED <<pc, file, held, mem>> /\ pc[p] = "save"
      BY <2>5 DEF Save
    <3>2. s \in State /\ mem[p][s] \in Nat
      BY <3>1
    <3> HIDE DEF s
    <3>3. store' \in [State -> Nat] /\ saves' \in [State -> Nat]
      BY <3>1, <3>2
    <3>4. /\ i' \in [Proc -> Nat] /\ i'[p] = i[p] + 1
          /\ \A q \in Proc \ {p} : i'[q] = i[q]
      BY <3>1
    <3>5. i'[p] \in 1 .. Len(Names[p]) + 1
      BY <3>1, <3>4
    <3>6. \A q \in Proc : i'[q] \in 1 .. Len(Names[q]) + 1
      BY <3>4, <3>5
    <3>7. \A q \in Proc : /\ pc'[q] = "start" => i'[q] = 1
                          /\ pc'[q] = "load" => i'[q] <= Len(Names[q])
      BY <3>1, <3>4
    <3> QED
      BY <3>1, <3>3, <3>4, <3>6, <3>7
  <2>6. CASE Ends(p)
    <3>1. /\ file' = file \ {p} /\ held' = [d \in Dev |-> held[d] \ {p}]
          /\ pc' = [pc EXCEPT ![p] = "done"]
          /\ UNCHANGED <<i, mem, store, saves>>
      BY <2>6, EndsFacts
    <3>2. file' \subseteq Proc /\ held' \in [Dev -> SUBSET Proc]
      BY <3>1
    <3> QED
      BY <3>1, <3>2
  <2> QED
    BY <1>2, <2>1, <2>2, <2>3, <2>4, <2>5, <2>6, <2>7 DEF Step, Ends
<1>3. CASE UNCHANGED lockVars
  BY <1>3 DEF lockVars
<1> QED
  BY <1>2, <1>3 DEF LockNext, Finished

LEMMA LockTypeInit == LockInit => LockTypeInv
<1> SUFFICES ASSUME LockInit PROVE LockTypeInv
  OBVIOUS
<1>1. \A p \in Proc : Len(Names[p]) \in Nat
  BY SetupFacts DEF LockInit
<1> QED
  BY <1>1 DEF LockInit, LockTypeInv, LockTypeOK

\* Type correctness of overlapping runs.
THEOREM LockTypeCorrect == LockSpec => []LockTypeOK
<1>1. LockTypeInv => LockTypeOK
  BY DEF LockTypeInv
<1> QED
  BY <1>1, LockTypeInit, LockTypeStep, PTL DEF LockSpec

-----------------------------------------------------------------------------
(* What a run has loaded is its own until it ends. *)

\* The states of the list that the run has locked.
Locked(p, j) ==
    /\ Sure(p)
    /\ j \in 1 .. Len(Names[p])
    /\ \/ pc[p] = "open" /\ j < i[p]
       \/ pc[p] = "load" /\ j <= i[p]
       \/ pc[p] = "save"

\* The run holds the lock that protects state s, alone.
Mine(p, s) ==
    IF LockDevice THEN held[DevOf[s]] = {p} ELSE file = {p}

\* Whatever a run has locked it holds alone.
HoldInv ==
    /\ \A p \in Proc : ~LockDevice /\ pc[p] \in {"open", "load", "save"} =>
          file = {p}
    /\ \A p \in Proc, j \in Nat : Locked(p, j) => Mine(p, Names[p][j])

LEMMA HoldInvStep == LockTypeInv /\ HoldInv /\ [LockNext]_lockVars => HoldInv'
<1> SUFFICES ASSUME LockTypeInv, HoldInv, [LockNext]_lockVars
             PROVE  HoldInv'
  OBVIOUS
<1>0. /\ setup' = setup /\ Names' = Names /\ DevOf' = DevOf
      /\ LockDevice' = LockDevice
  BY SetupKept
<1>1. /\ LockDevice \in BOOLEAN /\ DevOf \in [State -> Dev]
      /\ \A p \in Proc : /\ Len(Names[p]) \in Nat
                         /\ \A j \in 1 .. Len(Names[p]) : Names[p][j] \in State
  BY SetupFacts DEF LockTypeInv, LockTypeOK
<1>2. /\ pc \in [Proc -> {"start", "open", "load", "save", "done"}]
      /\ i \in [Proc -> Nat]
      /\ \A p \in Proc : i[p] \in 1 .. Len(Names[p]) + 1
      /\ \A p \in Proc : pc[p] = "start" => i[p] = 1
      /\ file \subseteq Proc /\ held \in [Dev -> SUBSET Proc]
  BY DEF LockTypeInv, LockTypeOK
<1>3. ASSUME NEW p \in Proc, Step(p) \/ OpenUnlocked(p) \/ Ends(p)
      PROVE  HoldInv'
  <2> USE DEF Goto
  <2>1. CASE TakeLockFile(p)
    <3>1. /\ pc' = [pc EXCEPT ![p] = "open"] /\ UNCHANGED <<i, held>>
          /\ LockDevice => file' = file
          /\ ~LockDevice => file = {} /\ file' = {p}
      BY <2>1 DEF TakeLockFile
    <3>2. i[p] = 1
      BY <2>1, <1>2 DEF TakeLockFile
    <3>3. \A q \in Proc : ~LockDevice => pc[q] \notin {"open", "load", "save"}
      BY <3>1 DEF HoldInv
    <3> QED
      BY <1>0, <1>1, <1>2, <3>1, <3>2, <3>3 DEF HoldInv, Locked, Mine, Sure
  <2>2. CASE Open(p)
    <3> DEFINE d == DevOf[Names[p][i[p]]]
    <3>1. /\ pc[p] = "open" /\ pc' = [pc EXCEPT ![p] = "load"]
          /\ i[p] \in 1 .. Len(Names[p]) /\ UNCHANGED <<i, file>>
          /\ LockDevice => held[d] = {} /\ held' = [held EXCEPT ![d] = {p}]
          /\ ~LockDevice => held' = held
      BY <2>2, <1>2 DEF Open
    <3>2. d \in Dev
      BY <3>1, <1>1
    <3>3. ASSUME NEW q \in Proc, NEW j \in Nat, Locked(q, j)'
          PROVE  Mine(q, Names[q][j])'
      <4>1. Locked(q, j) \/ (q = p /\ j = i[p])
        BY <3>3, <3>1, <1>0, <1>2 DEF Locked, Sure
      <4>2. CASE Locked(q, j)
        <5>1. Mine(q, Names[q][j]) /\ DevOf[Names[q][j]] \in Dev
          BY <4>2, <1>1 DEF HoldInv, Locked
        <5> QED
          BY <5>1, <3>1, <3>2, <1>0, <1>2 DEF Mine
      <4>3. CASE q = p /\ j = i[p]
        BY <4>3, <3>1, <3>2, <1>0, <1>2 DEF Mine, HoldInv
      <4> QED
        BY <4>1, <4>2, <4>3
    <3>4. \A q \in Proc : ~LockDevice /\ pc'[q] \in {"open", "load", "save"} =>
             file' = {q}
      BY <3>1, <1>2 DEF HoldInv
    <3> QED
      BY <3>3, <3>4, <1>0 DEF HoldInv
  <2>3. CASE Load(p)
    <3>1. /\ pc[p] = "load" /\ pc' = [pc EXCEPT ![p] = "open"]
          /\ i' = [i EXCEPT ![p] = @ + 1] /\ UNCHANGED <<file, held>>
      BY <2>3 DEF Load
    <3> QED
      BY <3>1, <1>0, <1>1, <1>2 DEF HoldInv, Locked, Mine, Sure
  <2>4. CASE Modify(p)
    <3>1. /\ pc[p] = "open" /\ pc' = [pc EXCEPT ![p] = "save"]
          /\ i[p] > Len(Names[p]) /\ \A q \in Proc \ {p} : i'[q] = i[q]
          /\ UNCHANGED <<file, held>>
      BY <2>4, <1>2 DEF Modify
    <3> QED
      BY <3>1, <1>0, <1>1, <1>2 DEF HoldInv, Locked, Mine, Sure
  <2>5. CASE Save(p)
    <3>1. /\ pc[p] = "save" /\ \A q \in Proc \ {p} : i'[q] = i[q]
          /\ UNCHANGED <<pc, file, held>>
      BY <2>5, <1>2 DEF Save
    <3> QED
      BY <3>1, <1>0, <1>1, <1>2 DEF HoldInv, Locked, Mine, Sure
  <2>7. CASE OpenUnlocked(p)
    <3>1. /\ pc[p] = "open" /\ pc' = [pc EXCEPT ![p] = "load"] /\ ~Sure(p)
          /\ LockDevice /\ UNCHANGED <<i, file, held>>
      BY <2>7 DEF OpenUnlocked, Sure
    <3>2. \A q \in Proc, j \in Nat : Locked(q, j)' => Locked(q, j)
      BY <3>1, <1>0, <1>2 DEF Locked, Sure
    <3> QED
      BY <3>1, <3>2, <1>0, <1>2 DEF HoldInv, Mine
  <2>6. CASE Ends(p)
    <3>1. /\ file' = file \ {p} /\ held' = [d \in Dev |-> held[d] \ {p}]
          /\ pc' = [pc EXCEPT ![p] = "done"] /\ UNCHANGED i
      BY <2>6, EndsFacts
    <3>2. \A q \in Proc \ {p} : {q} \ {p} = {q}
      OBVIOUS
    <3>3. ASSUME NEW q \in Proc, NEW j \in Nat, Locked(q, j)'
          PROVE  Mine(q, Names[q][j])'
      <4>1. Locked(q, j) /\ q # p
        BY <3>3, <3>1, <1>0, <1>2 DEF Locked, Sure
      <4>2. Mine(q, Names[q][j]) /\ DevOf[Names[q][j]] \in Dev
        BY <4>1, <1>1 DEF HoldInv, Locked
      <4> QED
        BY <4>1, <4>2, <3>1, <3>2, <1>0, <1>2 DEF Mine
    <3>4. \A q \in Proc : ~LockDevice /\ pc'[q] \in {"open", "load", "save"} =>
             file' = {q}
      BY <3>1, <3>2, <1>2 DEF HoldInv
    <3> QED
      BY <3>3, <3>4, <1>0 DEF HoldInv
  <2> QED
    BY <1>3, <2>1, <2>2, <2>3, <2>4, <2>5, <2>6, <2>7 DEF Step, Ends
<1>4. CASE UNCHANGED lockVars
  BY <1>4, <1>0 DEF lockVars, HoldInv, Locked, Mine, Sure
<1> QED
  BY <1>3, <1>4 DEF LockNext, Finished, Ends

\* No two runs have locked one state.
LEMMA Exclusive ==
    ASSUME HoldInv, NEW p \in Proc, NEW q \in Proc, NEW j \in Nat, NEW k \in Nat,
           Locked(p, j), Locked(q, k), Names[p][j] = Names[q][k]
    PROVE  p = q
<1>1. Mine(p, Names[p][j]) /\ Mine(q, Names[p][j])
  BY DEF HoldInv
<1> QED
  BY <1>1 DEF Mine

\* Until a run that got its locks changes its copies they are what is stored,
\* and a run without -s saves nothing.
CopyInv ==
    /\ \A p \in Proc : Sure(p) /\ pc[p] \in {"open", "load"} =>
          \A j \in 1 .. Len(Names[p]) : j < i[p] =>
             mem[p][Names[p][j]] = store[Names[p][j]]
    /\ \A p \in Proc \ Writer : pc[p] = "save" => i[p] > Len(Names[p])

LockInv == LockTypeInv /\ HoldInv /\ CopyInv

\* What the invariants say of the state before a step, in one place.
LEMMA LockFacts ==
    ASSUME LockTypeInv
    PROVE  /\ pc \in [Proc -> {"start", "open", "load", "save", "done"}]
           /\ i \in [Proc -> Nat]
           /\ \A p \in Proc : /\ i[p] \in 1 .. Len(Names[p]) + 1
                              /\ pc[p] = "start" => i[p] = 1
                              /\ pc[p] = "load" => i[p] <= Len(Names[p])
                              /\ Len(Names[p]) \in Nat
                              /\ \A j \in 1 .. Len(Names[p]) :
                                    Names[p][j] \in State
           /\ mem \in [Proc -> [State -> Nat]]
           /\ store \in [State -> Nat] /\ saves \in [State -> Nat]
BY SetupFacts DEF LockTypeInv, LockTypeOK

LEMMA CopyInvStep ==
    ASSUME WritersLock
    PROVE  LockTypeInv /\ HoldInv /\ CopyInv /\ [LockNext]_lockVars => CopyInv'
<1> SUFFICES ASSUME LockTypeInv, HoldInv, CopyInv, [LockNext]_lockVars
             PROVE  CopyInv'
  OBVIOUS
<1>0. /\ Names' = Names /\ \A p \in Proc : Sure(p)' <=> Sure(p)
      /\ \A p \in Writer : Sure(p)
  BY SetupKept DEF Sure, WritersLock
<1>1. /\ pc \in [Proc -> {"start", "open", "load", "save", "done"}]
      /\ i \in [Proc -> Nat]
      /\ \A p \in Proc : /\ i[p] \in 1 .. Len(Names[p]) + 1
                         /\ pc[p] = "start" => i[p] = 1
                         /\ pc[p] = "load" => i[p] <= Len(Names[p])
                         /\ Len(Names[p]) \in Nat
                         /\ \A j \in 1 .. Len(Names[p]) : Names[p][j] \in State
      /\ mem \in [Proc -> [State -> Nat]]
      /\ store \in [State -> Nat] /\ saves \in [State -> Nat]
  BY LockFacts
<1>u. CopyInv' <=>
        /\ \A p \in Proc : Sure(p) /\ pc'[p] \in {"open", "load"} =>
              \A j \in 1 .. Len(Names[p]) : j < i'[p] =>
                 mem'[p][Names[p][j]] = store'[Names[p][j]]
        /\ \A p \in Proc \ Writer : pc'[p] = "save" => i'[p] > Len(Names[p])
  BY <1>0 DEF CopyInv
<1>2. ASSUME NEW p \in Proc, Step(p) \/ OpenUnlocked(p) \/ Ends(p)
      PROVE  CopyInv'
  <2> USE DEF Goto
  <2>1. CASE TakeLockFile(p)
    <3>1. /\ pc' = [pc EXCEPT ![p] = "open"] /\ i[p] = 1
          /\ UNCHANGED <<i, mem, store>>
      BY <2>1, <1>1 DEF TakeLockFile
    <3>2. \A j \in 1 .. Len(Names[p]) : ~(j < i'[p])
      BY <3>1, <1>1
    <3>3. pc'[p] = "open" /\ \A q \in Proc \ {p} : pc'[q] = pc[q]
      BY <3>1, <1>1
    <3>4. \A q \in Proc : Sure(q) /\ pc'[q] \in {"open", "load"} =>
             \A j \in 1 .. Len(Names[q]) : j < i'[q] =>
                mem'[q][Names[q][j]] = store'[Names[q][j]]
      BY <3>1, <3>2, <3>3 DEF CopyInv
    <3>5. \A q \in Proc \ Writer : pc'[q] = "save" => i'[q] > Len(Names[q])
      BY <3>1, <3>3 DEF CopyInv
    <3> QED
      BY <3>4, <3>5, <1>u
  <2>2. CASE Open(p)
    BY <2>2, <1>u, <1>1 DEF Open, CopyInv
  <2>7. CASE OpenUnlocked(p)
    BY <2>7, <1>u, <1>1 DEF OpenUnlocked, CopyInv
  <2>3. CASE Load(p)
    <3> DEFINE s == Names[p][i[p]]
    <3>1. /\ pc[p] = "load" /\ pc' = [pc EXCEPT ![p] = "open"]
          /\ i[p] \in 1 .. Len(Names[p]) /\ i' = [i EXCEPT ![p] = @ + 1]
          /\ mem' = [mem EXCEPT ![p][s] = store[s]] /\ store' = store
          /\ s \in State
      BY <2>3, <1>1 DEF Load
    <3>2. \A q \in Proc \ {p} : mem'[q] = mem[q] /\ i'[q] = i[q] /\ pc'[q] = pc[q]
      BY <3>1, <1>1
    <3>3. ASSUME Sure(p), NEW j \in 1 .. Len(Names[p]), j < i'[p]
          PROVE  mem'[p][Names[p][j]] = store[Names[p][j]]
      <4>1. j = i[p] \/ j < i[p]
        BY <3>1, <3>3, <1>1
      <4>2. mem'[p] = [mem[p] EXCEPT ![s] = store[s]]
        BY <3>1, <1>1
      <4>3. j < i[p] => mem[p][Names[p][j]] = store[Names[p][j]]
        BY <3>1, <3>3 DEF CopyInv
      <4>4. mem'[p][s] = store[s]
        BY <4>2, <3>1, <1>1
      <4>5. CASE Names[p][j] = s
        BY <4>4, <4>5
      <4>6. CASE Names[p][j] # s
        <5>1. mem'[p][Names[p][j]] = mem[p][Names[p][j]]
          BY <4>2, <4>6
        <5>2. j < i[p]
          BY <4>1, <4>6
        <5> QED
          BY <4>3, <5>1, <5>2
      <4> QED
        BY <4>5, <4>6
    <3>4. pc'[p] = "open" /\ \A q \in Proc : pc'[q] = "save" => pc[q] = "save"
      BY <3>1, <3>2, <1>1
    <3>5. ASSUME NEW q \in Proc, Sure(q), pc'[q] \in {"open", "load"},
                 NEW j \in 1 .. Len(Names[q]), j < i'[q]
          PROVE  mem'[q][Names[q][j]] = store[Names[q][j]]
      <4>1. CASE q = p
        BY <4>1, <3>3, <3>5
      <4>2. CASE q # p
        BY <4>2, <3>2, <3>5 DEF CopyInv
      <4> QED
        BY <4>1, <4>2
    <3>6. ASSUME NEW q \in Proc \ Writer, pc'[q] = "save"
          PROVE  i'[q] > Len(Names[q])
      BY <3>2, <3>4, <3>6 DEF CopyInv
    <3> QED
      BY <3>1, <3>5, <3>6, <1>0 DEF CopyInv
  <2>4. CASE Modify(p)
    <3>1. /\ pc' = [pc EXCEPT ![p] = "save"] /\ store' = store
          /\ i[p] > Len(Names[p]) /\ (p \notin Writer => i'[p] = i[p])
          /\ \A q \in Proc \ {p} : i'[q] = i[q] /\ mem'[q] = mem[q]
      BY <2>4, <1>1 DEF Modify
    <3> QED
      BY <3>1, <1>0, <1>1 DEF CopyInv
  <2>5. CASE Save(p)
    <3> DEFINE s == Names[p][i[p]]
    <3>1. /\ pc[p] = "save" /\ i[p] \in 1 .. Len(Names[p])
          /\ i' = [i EXCEPT ![p] = @ + 1]
          /\ store' = [store EXCEPT ![s] = mem[p][s]]
          /\ UNCHANGED <<pc, mem>> /\ s \in State
      BY <2>5, <1>1 DEF Save
    <3>2. p \in Writer
      BY <3>1, <1>1 DEF CopyInv
    <3>3. ASSUME NEW q \in Proc, Sure(q), pc[q] \in {"open", "load"},
                 NEW j \in 1 .. Len(Names[q]), j < i[q]
          PROVE  Names[q][j] # s
      <4>1. Locked(p, i[p]) /\ Locked(q, j) /\ p # q
        BY <3>1, <3>2, <3>3, <1>0, <1>1 DEF Locked
      <4>2. i[p] \in Nat /\ j \in Nat
        BY <1>1
      <4> QED
        BY <4>1, <4>2, Exclusive
    <3>4. \A q \in Proc : pc[q] \in {"open", "load"} => i'[q] = i[q]
      BY <3>1, <1>1
    <3>5. \A q \in Proc : Sure(q) /\ pc'[q] \in {"open", "load"} =>
             \A j \in 1 .. Len(Names[q]) : j < i'[q] =>
                mem'[q][Names[q][j]] = store'[Names[q][j]]
      BY <3>1, <3>3, <3>4, <1>1 DEF CopyInv
    <3>6. \A q \in Proc \ Writer : pc'[q] = "save" => i'[q] > Len(Names[q])
      BY <3>1, <3>2, <1>1 DEF CopyInv
    <3> QED
      BY <3>5, <3>6, <1>0 DEF CopyInv
  <2>6. CASE Ends(p)
    <3>1. /\ pc' = [pc EXCEPT ![p] = "done"] /\ UNCHANGED <<i, mem, store>>
      BY <2>6, EndsFacts
    <3> QED
      BY <3>1, <1>0, <1>1 DEF CopyInv
  <2> QED
    BY <1>2, <2>1, <2>2, <2>3, <2>4, <2>5, <2>6, <2>7 DEF Step, Ends
<1>3. CASE UNCHANGED lockVars
  BY <1>3, <1>0 DEF lockVars, CopyInv
<1> QED
  BY <1>2, <1>3 DEF LockNext, Finished, Ends

LEMMA LockInvInductive ==
    ASSUME WritersLock
    PROVE  /\ LockInit => LockInv
           /\ LockInv /\ [LockNext]_lockVars => LockInv'
<1>1. LockInit => HoldInv /\ CopyInv
  BY DEF LockInit, HoldInv, CopyInv, Locked
<1> QED
  BY <1>1, LockTypeInit, LockTypeStep, HoldInvStep, CopyInvStep DEF LockInv

-----------------------------------------------------------------------------
(* No update is lost. *)

\* No command line with -s names a state twice: each -n makes a state of its
\* own, and the second one would be saved over the first.
NoStateTwice ==
    \A c \in Setups, p \in Writer :
        \A j, k \in 1 .. Len(c.names[p]) :
            c.names[p][j] = c.names[p][k] => j = k

\* A run with -s is one change ahead of what is stored, for every state it has
\* still to save.
UpdateInv ==
    /\ \A p \in Writer : pc[p] = "save" =>
          \A j \in 1 .. Len(Names[p]) : j >= i[p] =>
             mem[p][Names[p][j]] = store[Names[p][j]] + 1
    /\ NoLostUpdate

LEMMA UpdateInvStep ==
    ASSUME NoStateTwice, WritersLock
    PROVE  LockInv /\ UpdateInv /\ [LockNext]_lockVars => UpdateInv'
<1> SUFFICES ASSUME LockInv, UpdateInv, [LockNext]_lockVars
             PROVE  UpdateInv'
  OBVIOUS
<1>0. /\ Names' = Names /\ Writer \subseteq Proc /\ HoldInv /\ CopyInv
      /\ \A p \in Writer : Sure(p)
  BY SetupKept, LockAssumption DEF LockInv, Sure, WritersLock
<1>1. /\ pc \in [Proc -> {"start", "open", "load", "save", "done"}]
      /\ i \in [Proc -> Nat]
      /\ \A p \in Proc : /\ i[p] \in 1 .. Len(Names[p]) + 1
                         /\ pc[p] = "start" => i[p] = 1
                         /\ pc[p] = "load" => i[p] <= Len(Names[p])
                         /\ Len(Names[p]) \in Nat
                         /\ \A j \in 1 .. Len(Names[p]) : Names[p][j] \in State
      /\ mem \in [Proc -> [State -> Nat]]
      /\ store \in [State -> Nat] /\ saves \in [State -> Nat]
  BY LockFacts DEF LockInv
<1>a. ASSUME NEW p \in Proc, pc'[p] # "save", UNCHANGED <<store, saves>>,
             \A q \in Proc \ {p} : /\ pc'[q] = pc[q] /\ i'[q] = i[q]
                                   /\ mem'[q] = mem[q]
      PROVE  UpdateInv'
  BY <1>a, <1>0 DEF UpdateInv, NoLostUpdate
<1>2. ASSUME NEW p \in Proc, Step(p) \/ OpenUnlocked(p) \/ Ends(p)
      PROVE  UpdateInv'
  <2> USE DEF Goto
  <2>1. CASE TakeLockFile(p) \/ Open(p) \/ OpenUnlocked(p)
    BY <2>1, <1>a, <1>1 DEF TakeLockFile, Open, OpenUnlocked
  <2>2. CASE Load(p)
    BY <2>2, <1>a, <1>1 DEF Load
  <2>3. CASE Modify(p)
    <3>1. /\ pc[p] = "open" /\ i[p] > Len(Names[p])
          /\ UNCHANGED <<store, saves>>
          /\ \A q \in Proc \ {p} : /\ pc'[q] = pc[q] /\ i'[q] = i[q]
                                   /\ mem'[q] = mem[q]
      BY <2>3, <1>1 DEF Modify
    <3>2. ASSUME p \in Writer, NEW j \in 1 .. Len(Names[p])
          PROVE  mem'[p][Names[p][j]] = store[Names[p][j]] + 1
      <4>1. mem'[p] = [s \in State |-> mem[p][s] + 1]
        BY <2>3, <3>2, <1>1 DEF Modify
      <4>2. mem[p][Names[p][j]] = store[Names[p][j]]
        BY <3>1, <3>2, <1>0, <1>1 DEF CopyInv
      <4> QED
        BY <4>1, <4>2, <1>1
    <3> QED
      BY <3>1, <3>2, <1>0 DEF UpdateInv, NoLostUpdate
  <2>4. CASE Save(p)
    <3> DEFINE s == Names[p][i[p]]
    <3>1. /\ pc[p] = "save" /\ i[p] \in 1 .. Len(Names[p])
          /\ i' = [i EXCEPT ![p] = @ + 1]
          /\ store' = [store EXCEPT ![s] = mem[p][s]]
          /\ saves' = [saves EXCEPT ![s] = @ + 1]
          /\ UNCHANGED <<pc, mem>> /\ s \in State
      BY <2>4, <1>1 DEF Save
    <3>2. p \in Writer /\ mem[p][s] = store[s] + 1
      BY <3>1, <1>0, <1>1 DEF CopyInv, UpdateInv
    <3>3. ASSUME NEW q \in Writer, pc[q] = "save",
                 NEW j \in 1 .. Len(Names[q]), j >= i'[q]
          PROVE  Names[q][j] # s /\ j >= i[q]
      <4>1. CASE q = p
        <5>1. j >= i[p] + 1 /\ i[p] \in Nat /\ j \in Nat
          BY <3>1, <3>3, <4>1, <1>0, <1>1
        <5>2. j # i[p] /\ j >= i[p]
          BY <5>1
        <5>3. setup \in Setups
          BY DEF LockInv, LockTypeInv, LockTypeOK
        <5>4. Names[p][j] # Names[p][i[p]]
          BY <3>1, <3>2, <3>3, <4>1, <5>2, <5>3 DEF NoStateTwice, Names
        <5> QED
          BY <4>1, <5>2, <5>4
      <4>2. CASE q # p
        <5>1. Locked(p, i[p]) /\ Locked(q, j) /\ i[p] \in Nat /\ j \in Nat
          BY <3>1, <3>2, <3>3, <1>0, <1>1 DEF Locked
        <5>2. i'[q] = i[q]
          BY <3>1, <4>2, <1>0, <1>1
        <5> QED
          BY <3>3, <4>2, <5>1, <5>2, <1>0, Exclusive
      <4> QED
        BY <4>1, <4>2
    <3>4. \A q \in Writer : pc'[q] = "save" =>
             \A j \in 1 .. Len(Names[q]) : j >= i'[q] =>
                mem'[q][Names[q][j]] = store'[Names[q][j]] + 1
      BY <3>1, <3>3, <1>0, <1>1 DEF UpdateInv
    <3>5. NoLostUpdate'
      <4>1. \A t \in State : store[t] = saves[t]
        BY DEF UpdateInv, NoLostUpdate
      <4> QED
        BY <4>1, <3>1, <3>2, <1>1 DEF NoLostUpdate
    <3> QED
      BY <3>4, <3>5, <1>0 DEF UpdateInv
  <2>5. CASE Ends(p)
    <3>1. /\ pc' = [pc EXCEPT ![p] = "done"] /\ UNCHANGED <<i, mem, store, saves>>
      BY <2>5, EndsFacts
    <3> QED
      BY <3>1, <1>a, <1>1
  <2> QED
    BY <1>2, <2>1, <2>2, <2>3, <2>4, <2>5 DEF Step, Ends
<1>3. CASE UNCHANGED lockVars
  BY <1>3, <1>0 DEF lockVars, UpdateInv, NoLostUpdate
<1> QED
  BY <1>2, <1>3 DEF LockNext, Finished, Ends

\* For every set of runs, states and device nodes, any order of -n, the lock
\* file and the device locks: as long as no run with -s names a state twice or
\* fails to get a lock, no run overwrites what another has saved since it
\* loaded, wherever runs fail or are killed.  Runs without -s may go on without
\* their locks.
THEOREM NoLostUpdateHolds ==
    ASSUME NoStateTwice, WritersLock
    PROVE  LockSpec => []NoLostUpdate
<1>1. LockInit => UpdateInv
  BY LockAssumption DEF LockInit, UpdateInv, NoLostUpdate
<1>2. UpdateInv => NoLostUpdate
  BY DEF UpdateInv
<1> QED
  BY <1>1, <1>2, LockInvInductive, UpdateInvStep, PTL DEF LockSpec

-----------------------------------------------------------------------------
(* Whole runs. *)

\* Every run names every state.
AllStatesNamed ==
    \A c \in Setups, p \in Proc, s \in State :
        \E j \in 1 .. Len(c.names[p]) : c.names[p][j] = s

NoneCutOff == \A q \in Writer : ~CutOff(q)

\* Unless somebody saves, all states are at the same change; who saves has
\* changed all of its copies alike, and those before its loop are stored.
WholeInv ==
    NoneCutOff =>
        /\ (\A q \in Writer : pc[q] # "save") =>
              \A s, t \in State : store[s] = store[t]
        /\ \A q \in Writer : pc[q] = "save" =>
              /\ \A s, t \in State : mem[q][s] = mem[q][t]
              /\ \A j \in 1 .. Len(Names[q]) : j < i[q] =>
                    store[Names[q][j]] = mem[q][Names[q][j]]

\* A run that is cut off stays cut off.
LEMMA CutOffStays ==
    ASSUME LockTypeInv, [LockNext]_lockVars, NoneCutOff'
    PROVE  NoneCutOff
<1>0. Names' = Names /\ Writer \subseteq Proc
  BY SetupKept, LockAssumption
<1>1. ASSUME NEW q \in Writer, CutOff(q)
      PROVE  CutOff(q)'
  <2>1. pc \in [Proc -> {"start", "open", "load", "save", "done"}]
        /\ i \in [Proc -> Nat]
    BY LockFacts
  <2>2. pc[q] = "done" /\ q \in Proc
    BY <1>0, <1>1 DEF CutOff
  <2>3. pc'[q] = "done" /\ i'[q] = i[q]
    BY <2>1, <2>2 DEF LockNext, Step, TakeLockFile, Open, OpenUnlocked, Load, Modify, Save,
       ExitRun, OpenFail, SaveFail, Die, Finished, Goto, lockVars
  <2> QED
    BY <1>0, <1>1, <2>3 DEF CutOff
<1> QED
  BY <1>1 DEF NoneCutOff

\* A run that has loaded all of its states.
Full(p) == pc[p] = "save" \/ (pc[p] = "open" /\ i[p] > Len(Names[p]))

\* Only one run at a time has loaded all states.
LEMMA FullAlone ==
    ASSUME AllStatesNamed, LockTypeInv, HoldInv, NEW s \in State,
           NEW p \in Proc, NEW q \in Proc, Full(p), Full(q), Sure(p), Sure(q)
    PROVE  p = q
<1>1. setup \in Setups /\ i \in [Proc -> Nat]
      /\ Len(Names[p]) \in Nat /\ Len(Names[q]) \in Nat
  BY LockFacts DEF LockTypeInv, LockTypeOK
<1>2. PICK j \in 1 .. Len(Names[p]) : Names[p][j] = s
  BY <1>1 DEF AllStatesNamed, Names
<1>3. PICK k \in 1 .. Len(Names[q]) : Names[q][k] = s
  BY <1>1 DEF AllStatesNamed, Names
<1>4. Locked(p, j) /\ Locked(q, k) /\ j \in Nat /\ k \in Nat
  BY <1>1 DEF Full, Locked
<1> QED
  BY <1>2, <1>3, <1>4, Exclusive

LEMMA WholeInvStep ==
    ASSUME AllStatesNamed, WritersLock
    PROVE  LockInv /\ WholeInv /\ [LockNext]_lockVars => WholeInv'
<1> SUFFICES ASSUME LockInv, WholeInv, [LockNext]_lockVars, NoneCutOff'
             PROVE  WholeInv'
  BY DEF WholeInv
<1>0. /\ Names' = Names /\ Writer \subseteq Proc
      /\ LockTypeInv /\ HoldInv /\ CopyInv /\ setup \in Setups
      /\ \A p \in Writer : Sure(p)
  BY SetupKept, LockAssumption DEF LockInv, LockTypeInv, LockTypeOK, Sure, WritersLock
<1>1. /\ pc \in [Proc -> {"start", "open", "load", "save", "done"}]
      /\ i \in [Proc -> Nat]
      /\ \A p \in Proc : /\ i[p] \in 1 .. Len(Names[p]) + 1
                         /\ pc[p] = "start" => i[p] = 1
                         /\ pc[p] = "load" => i[p] <= Len(Names[p])
                         /\ Len(Names[p]) \in Nat
                         /\ \A j \in 1 .. Len(Names[p]) : Names[p][j] \in State
      /\ mem \in [Proc -> [State -> Nat]]
      /\ store \in [State -> Nat] /\ saves \in [State -> Nat]
  BY <1>0, LockFacts
<1>2. /\ (\A q \in Writer : pc[q] # "save") =>
            \A s, t \in State : store[s] = store[t]
      /\ \A q \in Writer : pc[q] = "save" =>
            /\ \A s, t \in State : mem[q][s] = mem[q][t]
            /\ \A j \in 1 .. Len(Names[q]) : j < i[q] =>
                  store[Names[q][j]] = mem[q][Names[q][j]]
  BY <1>0, CutOffStays DEF WholeInv
<1>3. \A p \in Proc, s \in State : \E j \in 1 .. Len(Names[p]) : Names[p][j] = s
  BY <1>0 DEF AllStatesNamed, Names
<1>a. ASSUME store' = store,
             \A q \in Writer : pc'[q] = "save" <=> pc[q] = "save",
             \A q \in Writer : pc[q] = "save" =>
                i'[q] = i[q] /\ mem'[q] = mem[q]
      PROVE  WholeInv'
  BY <1>a, <1>0, <1>2 DEF WholeInv
<1>4. ASSUME NEW p \in Proc, Step(p) \/ OpenUnlocked(p) \/ Ends(p)
      PROVE  WholeInv'
  <2> USE DEF Goto
  <2>1. CASE TakeLockFile(p) \/ Open(p) \/ OpenUnlocked(p)
    BY <2>1, <1>a, <1>0, <1>1 DEF TakeLockFile, Open, OpenUnlocked
  <2>2. CASE Load(p)
    BY <2>2, <1>a, <1>0, <1>1 DEF Load
  <2>3. CASE Modify(p) /\ p \notin Writer
    BY <2>3, <1>a, <1>0, <1>1 DEF Modify
  <2>4. CASE Modify(p) /\ p \in Writer
    <3>1. /\ Full(p) /\ pc[p] = "open" /\ i[p] > Len(Names[p])
          /\ store' = store /\ i'[p] = 1
          /\ pc' = [pc EXCEPT ![p] = "save"]
          /\ mem'[p] = [s \in State |-> mem[p][s] + 1]
      BY <2>4, <1>1 DEF Modify, Full
    <3>2. ASSUME NEW s \in State, NEW t \in State
          PROVE  mem'[p][s] = mem'[p][t]
      <4>1. \A q \in Writer : pc[q] # "save"
        BY <2>4, <3>1, <1>0, FullAlone DEF Full
      <4>2. store[s] = store[t]
        BY <4>1, <1>2
      <4>3. \A u \in State : mem[p][u] = store[u]
        <5> SUFFICES ASSUME NEW u \in State PROVE mem[p][u] = store[u]
          OBVIOUS
        <5>1. PICK j \in 1 .. Len(Names[p]) : Names[p][j] = u
          BY <1>3
        <5>2. j < i[p]
          BY <3>1, <1>1
        <5> QED
          BY <2>4, <3>1, <5>1, <5>2, <1>0 DEF CopyInv
      <4> QED
        BY <3>1, <4>2, <4>3, <1>1
    <3>3. \A q \in Writer \ {p} : pc'[q] = "save" => State = {}
      <4> SUFFICES ASSUME NEW q \in Writer \ {p}, pc'[q] = "save",
                          NEW s \in State
                   PROVE  FALSE
        OBVIOUS
      <4>1. Full(q) /\ q \in Proc
        BY <3>1, <1>0, <1>1 DEF Full
      <4> QED
        BY <2>4, <3>1, <4>1, <1>0, FullAlone
    <3>4. \A j \in 1 .. Len(Names[p]) : ~(j < i'[p])
      BY <3>1
    <3>5. pc'[p] = "save"
      BY <3>1, <1>1
    <3>6. ASSUME NEW q \in Writer \ {p}, pc'[q] = "save",
                 NEW j \in 1 .. Len(Names[q])
          PROVE  FALSE
      BY <3>3, <3>6, <1>0, <1>1
    <3> QED
      BY <2>4, <3>2, <3>3, <3>4, <3>5, <3>6, <1>0 DEF WholeInv
  <2>5. CASE Save(p)
    <3> DEFINE s == Names[p][i[p]]
    <3>1. /\ pc[p] = "save" /\ i[p] \in 1 .. Len(Names[p])
          /\ i' = [i EXCEPT ![p] = @ + 1]
          /\ store' = [store EXCEPT ![s] = mem[p][s]]
          /\ UNCHANGED <<pc, mem>> /\ s \in State
      BY <2>5, <1>1 DEF Save
    <3>2. p \in Writer
      BY <3>1, <1>0, <1>1 DEF CopyInv
    <3>3. \A q \in Writer : pc[q] = "save" => q = p
      BY <3>1, <3>2, <1>0, FullAlone DEF Full
    <3>4. ASSUME NEW j \in 1 .. Len(Names[p]), j < i'[p]
          PROVE  store'[Names[p][j]] = mem[p][Names[p][j]]
      <4>1. j < i[p] \/ j = i[p]
        BY <3>1, <3>4, <1>1
      <4>2. j < i[p] => store[Names[p][j]] = mem[p][Names[p][j]]
        BY <3>1, <3>2, <1>2
      <4> QED
        BY <4>1, <4>2, <3>1, <1>1
    <3> QED
      BY <3>1, <3>2, <3>3, <3>4, <1>0, <1>2 DEF WholeInv
  <2>6. CASE Ends(p)
    <3>1. /\ pc' = [pc EXCEPT ![p] = "done"] /\ UNCHANGED <<i, mem, store>>
      BY <2>6, EndsFacts
    <3>2. CASE pc[p] # "save" \/ p \notin Writer
      BY <3>1, <3>2, <1>a, <1>0, <1>1
    <3>3. CASE pc[p] = "save" /\ p \in Writer
      <4>1. i[p] > Len(Names[p])
        <5>1. ~CutOff(p)'
          BY <3>3 DEF NoneCutOff
        <5> QED
          BY <5>1, <3>1, <1>0, <1>1 DEF CutOff
      <4>2. ASSUME NEW u \in State, NEW t \in State
            PROVE  store[u] = store[t]
        <5>1. PICK j \in 1 .. Len(Names[p]) : Names[p][j] = u
          BY <1>3
        <5>2. PICK k \in 1 .. Len(Names[p]) : Names[p][k] = t
          BY <1>3
        <5>3. j < i[p] /\ k < i[p]
          BY <4>1, <1>1
        <5>4. store[u] = mem[p][u] /\ store[t] = mem[p][t]
          BY <3>3, <5>1, <5>2, <5>3, <1>2
        <5> QED
          BY <3>3, <5>4, <1>2
      <4>3. \A q \in Writer : pc'[q] = "save" =>
               pc[q] = "save" /\ i'[q] = i[q] /\ mem'[q] = mem[q]
        BY <3>1, <1>0, <1>1
      <4> QED
        BY <3>1, <4>2, <4>3, <1>0, <1>2 DEF WholeInv
    <3> QED
      BY <3>2, <3>3
  <2> QED
    BY <1>4, <2>1, <2>2, <2>3, <2>4, <2>5, <2>6 DEF Step, Ends
<1>5. CASE UNCHANGED lockVars
  BY <1>5, <1>a DEF lockVars
<1> QED
  BY <1>4, <1>5 DEF LockNext, Finished, Ends

\* Where every run names every state, in any order and with either kind of
\* locks, and those with -s get their locks: a run that got its locks sees all
\* changes of another run or none of them, unless a run with -s was cut off
\* before its last save.
THEOREM SeesWholeRunsHolds ==
    ASSUME AllStatesNamed, WritersLock
    PROVE  LockSpec => []SeesWholeRuns
<1>1. LockInit => WholeInv
  BY LockAssumption DEF LockInit, WholeInv
<1>2. LockInv /\ WholeInv => SeesWholeRuns
  <2> SUFFICES ASSUME LockInv, WholeInv, NoneCutOff,
                      NEW p \in Proc \ LockMayFail, pc[p] = "open",
                      i[p] > Len(Names[p]),
                      NEW s \in State, NEW t \in State
               PROVE  mem[p][s] = mem[p][t]
    BY DEF SeesWholeRuns, NoneCutOff
  <2>0. /\ LockTypeInv /\ HoldInv /\ CopyInv /\ setup \in Setups
        /\ Writer \subseteq Proc /\ Full(p) /\ p \in Proc
        /\ Sure(p) /\ \A q \in Writer : Sure(q)
    BY LockAssumption DEF LockInv, LockTypeInv, LockTypeOK, Full, Sure, WritersLock
  <2>1. \A q \in Writer : pc[q] # "save"
    BY <2>0, FullAlone DEF Full
  <2>2. store[s] = store[t]
    BY <2>1 DEF WholeInv
  <2>3. \A u \in State : mem[p][u] = store[u]
    <3> SUFFICES ASSUME NEW u \in State PROVE mem[p][u] = store[u]
      OBVIOUS
    <3>1. PICK j \in 1 .. Len(Names[p]) : Names[p][j] = u
      BY <2>0 DEF AllStatesNamed, Names
    <3>2. j < i[p]
      BY <2>0, LockFacts
    <3> QED
      BY <2>0, <3>1, <3>2 DEF CopyInv
  <2> QED
    BY <2>2, <2>3
<1> QED
  BY <1>1, <1>2, LockInvInductive, WholeInvStep, PTL DEF LockSpec
=============================================================================
