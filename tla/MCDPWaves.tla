------------------------------ MODULE MCDPWaves ------------------------------
EXTENDS DPWaves

CONSTANT c1

=============================================================================
