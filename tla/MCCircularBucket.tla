-------------------------- MODULE MCCircularBucket --------------------------
EXTENDS CircularBucket

CONSTANTS c1, c2, c3, P1, P2, P3

\* Pages of three records.
RecPages == [r \in {c1, c2, c3} |-> CASE r = c1 -> P1 [] r = c2 -> P2 [] r = c3 -> P3]
=============================================================================
