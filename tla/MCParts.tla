------------------------------ MODULE MCParts ------------------------------
(* The parts around the storage, one at a time: unit is the part that a      *)
(* behaviour is about, and all other parts stay as they began.  The parts    *)
(* share no state, so their state spaces add up instead of multiplying.      *)
EXTENDS MCDirectBucket, MCCircularBucket, MCToolLock, MCStateValues

VARIABLE unit

Units == {"direct", "circular", "lock", "values"}

PartsInit ==
    /\ unit \in Units
    /\ DirectInit /\ CircularInit /\ LockInit /\ VarsInit
    \* What does not work begins in one way only.
    /\ unit # "direct" => /\ ~Compat /\ target = <<0, r1>>
                          /\ dev = [a \in Cells |-> Blank]
    /\ unit # "circular" => rec = c1
    /\ unit # "lock" => setup.lockDevice
    /\ unit # "values" => fmt = "raw"

\* One step of the part that this behaviour is about.
PartsNext ==
    /\ UNCHANGED unit
    /\ IF unit = "direct" THEN DirectNext ELSE UNCHANGED directVars
    /\ IF unit = "circular" THEN CircularNext ELSE UNCHANGED circularVars
    /\ IF unit = "lock" THEN LockNext ELSE UNCHANGED lockVars
    /\ IF unit = "values" THEN VarsNext ELSE UNCHANGED stateVars

PartsVars == <<unit, directVars, circularVars, lockVars, stateVars>>

\* The kernel runs every process that can run, as in LockSpec.
PartsSpec ==
    /\ PartsInit /\ [][PartsNext]_PartsVars
    /\ \A p \in Proc : WF_lockVars(unit = "lock" /\ Step(p))

-----------------------------------------------------------------------------

\* Every run of ToolLock comes to its end, where it is the part at work.
RunsTerminate == unit = "lock" => Terminates
=============================================================================
