-------------------------- MODULE MCChairDispatch ---------------------------
EXTENDS ChairDispatch
=============================================================================
