----------------------------- MODULE MCExecution -----------------------------
EXTENDS Execution
=============================================================================
