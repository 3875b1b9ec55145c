---------------------------- MODULE AtomicStore ----------------------------
(***************************************************************************)
(* What the redundant storage promises its users: one register that is     *)
(* replaced as a whole.  A save takes effect at one instant or not at all, *)
(* a save that is reported as successful has taken effect, a crash or a    *)
(* load changes nothing.                                                   *)
(***************************************************************************)
CONSTANT Value

VARIABLES
    stored,   \* the value a load returns: {v}, or {} when there is none
    req,      \* the save in progress: {v}, or {}
    acked     \* somebody was told that the register holds stored

vars == <<stored, req, acked>>

Init ==
    /\ stored \in {{}} \cup {{v} : v \in Value}
    /\ req = {} /\ acked = FALSE

\* A save is requested.
Request(v) ==
    /\ req = {} /\ req' = {v}
    /\ acked' = FALSE /\ UNCHANGED stored

\* It takes effect.
Apply == req # {} /\ stored' = req /\ UNCHANGED <<req, acked>>

\* It returns, successfully only after it took effect, or is cut off.
Return ==
    /\ req # {} /\ req' = {}
    /\ acked' \in {FALSE, stored = req}
    /\ UNCHANGED stored

\* A load returns the value.
Load ==
    /\ req = {} /\ stored # {}
    /\ acked' = TRUE
    /\ UNCHANGED <<stored, req>>

Next == (\E v \in Value : Request(v)) \/ Apply \/ Return \/ Load

Spec == Init /\ [][Next]_vars
=============================================================================
