------------------------------ MODULE MCLogQueue ------------------------------
EXTENDS LogQueue

MCHandlers == 1..3
=============================================================================
