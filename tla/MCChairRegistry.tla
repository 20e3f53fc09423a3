-------------------------- MODULE MCChairRegistry ---------------------------
EXTENDS ChairRegistry
=============================================================================
