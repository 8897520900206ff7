-------------------------- MODULE MCChangeHistory --------------------------
EXTENDS ChangeHistory
=============================================================================
