---------------------------- MODULE MCSynthetic ----------------------------
\* SyntheticTransport for TLC.
EXTENDS SyntheticTransport
=============================================================================
