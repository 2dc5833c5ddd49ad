----------------------------- MODULE MCFixProof -----------------------------
EXTENDS FixProof
=============================================================================
