-------------------------- MODULE MCTaskDispatch ---------------------------
EXTENDS TaskDispatch
=============================================================================
