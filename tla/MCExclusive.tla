------------------------------ MODULE MCExclusive ----------------------------
EXTENDS ExclusiveDrivers
=============================================================================
