------------------------ MODULE MCRuntimeSupervisor ------------------------
EXTENDS RuntimeSupervisor
=============================================================================
