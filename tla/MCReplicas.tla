----------------------------- MODULE MCReplicas -----------------------------
\* Replicas for TLC.
EXTENDS Replicas
CONSTANTS c1, c2, m1, m2

OneWriter == [m \in Models |-> {c1}]
=============================================================================
