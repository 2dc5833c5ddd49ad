----------------------------- MODULE MCMkdirLock -----------------------------
EXTENDS MkdirLock
=============================================================================
