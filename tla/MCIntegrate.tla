----------------------------- MODULE MCIntegrate -----------------------------
(* Small instances of Integrate; the cfg files choose the constants.       *)
EXTENDS Integrate
=============================================================================
