---------------------------- MODULE MCSessions ----------------------------
(* Two runs, the second of them concurrent, on a project that may have a   *)
(* past, and one file.                                                     *)
EXTENDS Sessions

MCRuns       == {1, 2}
MCConcurrent == {2}
MCPast       == 0
MCFiles      == {1}
=============================================================================
