---------------------------- MODULE MCSessions ----------------------------
\* Sessions for TLC.
EXTENDS Sessions
CONSTANTS c1, c2
=============================================================================
