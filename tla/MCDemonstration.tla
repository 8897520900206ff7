--------------------------- MODULE MCDemonstration ---------------------------
EXTENDS Demonstration
=============================================================================
