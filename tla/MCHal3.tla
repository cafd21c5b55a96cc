-------------------------------- MODULE MCHal3 --------------------------------
EXTENDS Hal3
=============================================================================
