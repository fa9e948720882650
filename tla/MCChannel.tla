------------------------------ MODULE MCChannel -------------------------------
EXTENDS Channel, TLC

=============================================================================
