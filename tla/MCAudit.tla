------------------------------ MODULE MCAudit -------------------------------
(* Three directories: 1 critical, 2 normal, 3 low.                           *)
EXTENDS Audit

MCTier == <<0, 1, 2>>

MCTrees ==
  {[files |-> 1..6, excluded |-> {6}, dir |-> <<2, 2, 3, 1, 3, 3>>, size |-> <<4, 4, 4, 4, None, 4>>],
   [files |-> 1..5, excluded |-> {}, dir |-> <<3, 2, 2, 2, 3>>, size |-> <<2, 9, 2, 2, 4>>]}

(* More files than the threshold is large mode.                              *)
MCCaps ==
  {[threshold |-> 3, firstPass |-> n, maxFiles |-> 2, maxBytes |-> 6, defaultFiles |-> 3, defaultBytes |-> 8]
     : n \in {0, 1, 2}}
  \cup {[threshold |-> 9, firstPass |-> 1, maxFiles |-> 0, maxBytes |-> None, defaultFiles |-> 2, defaultBytes |-> 6]}

Quiet ==
  [changed |-> FALSE, contentChanged |-> FALSE, commits |-> 0, historyScore |-> 0, fixes |-> 0,
   recentFixes |-> 0, reverts |-> 0, sink |-> None, risk |-> None, outcome |-> FALSE, stale |-> FALSE,
   reopened |-> FALSE, variant |-> FALSE, failing |-> FALSE, issue |-> None, project |-> None,
   critical |-> FALSE, test |-> FALSE]

Sourced(p) == [kind |-> "active_incident", severity |-> "high", confidence |-> p, users |-> 100, occurrences |-> 0]

MCSignals ==
  {[f \in 1..6 |-> [Quiet EXCEPT !.sink = IF f \in {1, 5} THEN "LIVE" ELSE "COLD", !.changed = f = 5,
                                 !.stale = f = 3]],
   [f \in 1..6 |-> [Quiet EXCEPT !.commits = 3, !.historyScore = 9, !.fixes = f % 3, !.failing = f = 3,
                                 !.critical = f < 3, !.issue = IF f = 2 THEN 3 ELSE None]],
   [f \in 1..6 |-> [Quiet EXCEPT !.contentChanged = f \in {2, 4}, !.risk = IF f = 5 THEN 4 ELSE None,
                                 !.reverts = IF f = 3 THEN 1 ELSE 0,
                                 !.project = IF f = 5 THEN Sourced(60) ELSE IF f = 1 THEN Sourced(90) ELSE None]]}

MCLimits == [targets |-> 4, glob |-> 2, batches |-> 2, files |-> 3]

MCHead == [f \in 1..6 |-> IF f = 6 THEN None ELSE f]
Recorded(c, b) == [catalog |-> c, blob |-> b]
MCIndexes ==
  {[status |-> "unknown", size |-> 0, catalog |-> "v2", records |-> [f \in {} |-> None]],
   [status |-> "exact", size |-> 3, catalog |-> "v2",
    records |-> [f \in 1..4 |-> IF f = 1 THEN Recorded("v1", 1) ELSE IF f = 2 THEN Recorded("v2", 7)
                                ELSE Recorded("v2", f)]]}

Event(kind, bug, severity, category, file, value) ==
  [event |-> kind, batch |-> None, bug |-> bug, severity |-> severity, category |-> category,
   file |-> file, value |-> value, codes |-> {}]
MCLedgers ==
  {<<Event("near_miss", 3, "low", None, 1, None), Event("referee_vote", 1, None, None, None, "CONFIRMED"),
     [Event("confirmed", 1, "high", 2, 1, None) EXCEPT !.codes = {"live_sink"}], Event("repro_status", 1, None, None, None, "confirmed"),
     Event("quarantine", 2, "low", Architectural, 2, None), Event("flaky_test", None, None, None, 5, None)>>}
MCPrior == [highRisk |-> [f \in {1, 2} |-> f], stale |-> {3}]
=============================================================================
