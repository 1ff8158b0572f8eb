-------------------------------- MODULE MCKeys -------------------------------
EXTENDS KeyDrivers
=============================================================================
