----------------------------- MODULE MCNodeQueue -----------------------------
\* Values for the constants of NodeQueue.
EXTENDS NodeQueue

MCBackOff == [f \in 0 .. 0 |-> 1]
====
