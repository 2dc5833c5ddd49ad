----------------------------- MODULE MCCloseout -----------------------------
(* Small instances of Closeout; the cfg files choose the constants.        *)
EXTENDS Closeout
=============================================================================
