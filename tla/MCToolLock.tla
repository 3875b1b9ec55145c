----------------------------- MODULE MCToolLock -----------------------------
EXTENDS ToolLock

CONSTANTS s1, s2, d1, d2, p1, p2, p3

\* Two states on two device nodes, or on one (two partitions of an EEPROM).
TwoDevices == [s \in {s1, s2} |-> IF s = s1 THEN d1 ELSE d2]
OneDevice == [s \in {s1, s2} |-> d1]

\* All runs name the states in one order, or one of them in the other.
SameOrder == [p \in Proc |-> <<s1, s2>>]
MixedOrder == [p \in Proc |-> IF p = p1 THEN <<s2, s1>> ELSE <<s1, s2>>]

Setup(l, v, n) == [lockDevice |-> l, devOf |-> v, names |-> n]

\* The lock file with any command lines; device locks taken in one order.
Sound == {Setup(FALSE, OneDevice, MixedOrder), Setup(TRUE, TwoDevices, SameOrder)}

\* Device locks taken in different orders, and twice on one node.
Circular == {Setup(TRUE, TwoDevices, MixedOrder), Setup(TRUE, OneDevice, SameOrder)}
=============================================================================
