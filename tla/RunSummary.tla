---------------------------- MODULE RunSummary -----------------------------
(* The reduction of a run to run-summary.json (bench/scorer/run_summary.py,  *)
(* priority_summary.py) and of several runs to a session                     *)
(* (session_summary.py).  Bugs, files, tests and categories are numbers in   *)
(* the order of their names; the architectural category is 0.                *)
EXTENDS Priority

CONSTANTS FollowUpCap   \* FOLLOW_UP_CAP

Kinds == {"fix_committed", "quarantine", "confirmed"}     \* FINDING_EVENTS
Severities == {"critical", "high", "medium", "low"}
VoteSeverities == {"critical", "high"}
ReproStatuses == {"none", "unreproduced", "confirmed", "failed"}
Architectural == 0
MinClusterSize == 2

Of(events, kinds) == Select(events, LAMBDA e : e.event \in kinds)
About(events, kinds, bug) ==
  Select(events, LAMBDA e : e.event \in kinds /\ e.bug # None /\ e.bug = bug)
Mapped(s, Op(_)) == [i \in DOMAIN s |-> Op(s[i])]
Count(s, Test(_)) == Cardinality({i \in DOMAIN s : Test(s[i])})

-----------------------------------------------------------------------------
(* Coverage: a batch counts when the list of the plan, the ledger and the    *)
(* verification of the snapshots agree on it.  A run without a plan has None.*)
LedgerCovered(events) == {e.batch : e \in ToSet(Of(events, {"batch_covered"}))}

(* Mutant: the list and the ledger are believed.                             *)
CoveredTwoSurfaces(recon, ledger, verified) == ToSet(recon.covered) \cap ledger

CoveredIds(recon, ledger, verified) == ToSet(recon.covered) \cap ledger \cap verified

Coverage(recon, ledger, verified) ==
  IF recon = None THEN [covered |-> 0, total |-> 0]
  ELSE [covered |-> Cardinality(CoveredIds(recon, ledger, verified) \cap Ids(recon)),
        total |-> Cardinality(Ids(recon))]

DeriveStatus(stub, covered) ==
  IF ~ stub THEN "complete" ELSE IF covered > 0 THEN "partial" ELSE "stalled"

AuditProgress(coverage) ==
  IF coverage.total > 0 /\ coverage.covered >= coverage.total THEN "complete"
  ELSE IF coverage.covered > 0 THEN "partial" ELSE "not_started"

-----------------------------------------------------------------------------
(* Findings.                                                                 *)
MajorityGate(verdicts) ==
  LET confirmed == Count(verdicts, LAMBDA v : v = "CONFIRMED")
  IN [confirmed |-> confirmed, total |-> Len(verdicts), eligible |-> 2 * confirmed > Len(verdicts)]

VotesFor(events, bug) == Mapped(About(events, {"referee_vote"}, bug), LAMBDA e : e.value)

(* The last status that is one; a finding without a bug id has none.         *)
ReproFor(events, bug) ==
  LET known == Select(About(events, {"repro_status"}, bug), LAMBDA e : e.value \in ReproStatuses)
  IN IF known = <<>> THEN "none" ELSE Last(known).value

VoteSplit(events, e) ==
  LET votes == VotesFor(events, e.bug)
  IN IF e.bug # None /\ e.severity \in VoteSeverities /\ votes # <<>> THEN MajorityGate(votes) ELSE None

Finding(events, e) ==
  [bug |-> e.bug, severity |-> e.severity, category |-> e.category, file |-> e.file,
   fixed |-> e.event = "fix_committed", repro |-> ReproFor(events, e.bug), split |-> VoteSplit(events, e)]

BugsOf(events, kind) ==
  Mapped(Select(Of(events, {kind}), LAMBDA e : e.bug # None), LAMBDA e : e.bug)

Counts(findings) ==
  [s \in Severities \cup {"architectural"} |->
     Count(findings, LAMBDA f : IF s = "architectural" THEN f.category # None /\ f.category = Architectural
                                ELSE f.severity = s)]

(* Clusters of at least two by category: the largest first, then by name;    *)
(* each is represented by its least bug.                                     *)
ClustersOf(size, bugs, files) ==
  LET ranked == Ranked({c \in DOMAIN size : size[c] >= MinClusterSize},
                  LAMBDA a, b : size[a] > size[b] \/ (size[a] = size[b] /\ a < b))
      least(S) == IF S = {} THEN None ELSE Min(S)
  IN [n \in DOMAIN ranked |->
        [cluster |-> ranked[n], size |-> size[ranked[n]],
         representative |-> least(bugs[ranked[n]]), files |-> files[ranked[n]]]]

BuildClusters(members) ==
  LET of(c) == {i \in DOMAIN members : members[i].category = c}
      categories == {members[i].category : i \in DOMAIN members} \ {None}
  IN ClustersOf([c \in categories |-> Cardinality(of(c))],
                [c \in categories |-> {members[i].bug : i \in of(c)} \ {None}],
                [c \in categories |-> {members[i].file : i \in of(c)} \ {None}])

-----------------------------------------------------------------------------
(* Follow-up.  prior: highRisk, a function from files to scores, and stale.  *)
Entry(kind, ref, detail) == [kind |-> kind, ref |-> ref, detail |-> detail]

UncoveredEntries(recon, ledger, verified) ==
  IF recon = None THEN <<>>
  ELSE Mapped(InOrder(Ids(recon) \ CoveredIds(recon, ledger, verified)),
              LAMBDA id : Entry("uncovered_batch", id, BatchOf(recon, id).tier))

HighRiskEntries(prior) ==
  Mapped(Ranked(DOMAIN prior.highRisk,
                LAMBDA f, g : \/ prior.highRisk[f] > prior.highRisk[g]
                              \/ prior.highRisk[f] = prior.highRisk[g] /\ f < g),
         LAMBDA f : Entry("high_risk_file", f, prior.highRisk[f]))

StaleEntries(prior) == Mapped(InOrder(prior.stale), LAMBDA f : Entry("stale_file", f, None))

QuarantinedEntries(events) ==
  LET held == Select(Of(events, {"quarantine"}), LAMBDA e : e.bug # None)
  IN Mapped(Sorted(held, [i \in DOMAIN held |-> <<held[i].bug>>]), LAMBDA e : Entry("quarantined", e.bug, e.file))

FollowUp(events, recon, prior, ledger, verified) ==
  LET all == UncoveredEntries(recon, ledger, verified) \o HighRiskEntries(prior)
             \o StaleEntries(prior) \o QuarantinedEntries(events)
  IN SubSeq(all, 1, AtMost(FollowUpCap, Len(all)))

Flaky(events) == Mapped(Of(events, {"flaky_test"}), LAMBDA e : [file |-> e.file])

NearMisses(events, recall) ==
  IF recall THEN Mapped(Of(events, {"near_miss"}),
                        LAMBDA e : [bug |-> e.bug, severity |-> e.severity, file |-> e.file])
  ELSE <<>>

ReduceRun(events, recon, stub, prior, recall, verified) ==
  LET ledger == LedgerCovered(events)
      coverage == Coverage(recon, ledger, verified)
      findings == Mapped(Of(events, Kinds), LAMBDA e : Finding(events, e))
  IN [status |-> DeriveStatus(stub, coverage.covered),
      progress |-> AuditProgress(coverage),
      coverage |-> coverage,
      counts |-> Counts(findings),
      fixed |-> BugsOf(events, "fix_committed"),
      quarantined |-> BugsOf(events, "quarantine"),
      confirmedUnfixed |-> BugsOf(events, "confirmed"),
      findings |-> findings,
      clusters |-> BuildClusters(Of(events, Kinds)),
      followUp |-> FollowUp(events, recon, prior, ledger, verified),
      flaky |-> Flaky(events),
      nearMisses |-> NearMisses(events, recall)]

(* Without Python nothing is verified: the size of the plan is all that grep *)
(* may report.                                                               *)
ReduceDegraded(covered, total, stub) ==
  LET coverage == [covered |-> covered, total |-> total]
  IN [status |-> DeriveStatus(stub, covered), progress |-> AuditProgress(coverage),
      coverage |-> coverage, counts |-> Counts(<<>>), fixed |-> <<>>, quarantined |-> <<>>,
      confirmedUnfixed |-> <<>>, findings |-> <<>>, clusters |-> <<>>, followUp |-> <<>>,
      flaky |-> <<>>, nearMisses |-> <<>>]

DegradedSummary(recon, stub) == ReduceDegraded(0, recon.batchCount, stub)

(* What became of a prioritised file, by the reason codes of the events      *)
(* about it and the coverage of its batch.                                   *)
TargetOutcome(events, recon, verified, file, codes) ==
  LET about == Select(events, LAMBDA e : e.file = file)
      coded(kinds) == UNION {e.codes : e \in ToSet(Of(about, kinds))}
      confirmed == coded(Kinds)
      rejected == coded({"false_positive"})
      investigated == \/ BatchWith(recon, file) \cap verified # {}
                      \/ confirmed \cup rejected # {}
  IN CASE confirmed \cap codes # {} -> "confirmed"
       [] confirmed \cap codes = {} /\ rejected \cap codes # {} -> "rejected"
       [] OTHER -> IF ~ investigated THEN "not_reviewed"
                   ELSE IF Of(about, Kinds \cup {"false_positive"}) # <<>> THEN "unattributed"
                   ELSE "no_finding"

-----------------------------------------------------------------------------
(* Sessions.                                                                 *)
MergeTotals(summaries) ==
  [s \in Severities \cup {"architectural"} |->
     Folded(LAMBDA total, summary : total + summary.counts[s], 0, summaries)]

(* Mutant: the clusters of the runs are merged, not their findings.          *)
MergeClustersOfRuns(summaries) == FlattenSeq(Mapped(summaries, LAMBDA summary : summary.clusters))

MergeClusters(summaries) ==
  BuildClusters(FlattenSeq(Mapped(summaries, LAMBDA summary : summary.findings)))

(* The first entry of a kind and a reference is kept.                        *)
MergeFollowUp(summaries) ==
  Folded(LAMBDA merged, e :
             IF \E k \in ToSet(merged) : k.kind = e.kind /\ k.ref = e.ref THEN merged ELSE Append(merged, e),
           <<>>, FlattenSeq(Mapped(summaries, LAMBDA summary : summary.followUp)))

WorstStatus(statuses) ==
  IF statuses = {} THEN "no_runs"
  ELSE IF Cardinality(statuses) = 1 /\ statuses # {"partial"} THEN CHOOSE s \in statuses : TRUE
  ELSE "partial"

MergeSummaries(summaries) ==
  LET statuses == Mapped(summaries, LAMBDA summary : summary.status)
  IN [totals |-> MergeTotals(summaries),
      clusters |-> MergeClusters(summaries),
      followUp |-> MergeFollowUp(summaries),
      runs |-> statuses,
      worst |-> WorstStatus(ToSet(statuses))]
=============================================================================
