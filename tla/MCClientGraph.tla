--------------------------- MODULE MCClientGraph ---------------------------
\* ClientGraph for TLC.
EXTENDS ClientGraph, TLC
CONSTANTS r, a, b, x

Symmetric == Permutations({a, b})
=============================================================================
