-------------------------------- MODULE MCIpi --------------------------------
EXTENDS Ipi
=============================================================================
