---------------------------- MODULE MCDriverApp ----------------------------
EXTENDS DriverApp, TLC

\* Bound: orders that are neither cancelled nor failed.
UnderWay == \A o \in Orders : status[o] \notin {"CANCELLED", "FAILED"}
=============================================================================
