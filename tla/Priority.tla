------------------------------ MODULE Priority ------------------------------
(* The ranking of files by local evidence (build_priority_context) and the   *)
(* order and admission of a plan's batches under it (reprioritize_recon),    *)
(* bench/scorer/priority_context.py, with the freshness of audited files     *)
(* that _priority_context.py computes for it.                                *)
(*                                                                           *)
(* The evidence of a file is a record of signals; what is only displayed     *)
(* (summaries, sources, evidence payloads, attribution codes) is left out.   *)
EXTENDS ReconPlan, FiniteSetsExt

CONSTANTS
  MaxPromotionBatches,  \* HARD_MAX_PROMOTION_BATCHES
  MaxPromotionFiles     \* the 1 000 files of a promotion budget

MustFocus == 0
High == 1
Elevated == 2
Normal == 3

When(condition, S) == IF condition THEN S ELSE {}
AtMost(cap, n) == IF n > cap THEN cap ELSE n
AtLeast(low, n) == IF n < low THEN low ELSE n

(* Python's round of n / d, to even at a tie.                                *)
Round(n, d) ==
  LET q == n \div d   r == n % d
  IN IF 2 * r < d \/ (2 * r = d /\ q % 2 = 0) THEN q ELSE q + 1

Cap == [impact |-> 30, active |-> 25, change |-> 15, reach |-> 15, recurrence |-> 10, stale |-> 5]
Categories == DOMAIN Cap

(* A piece of evidence: its code, its points in one category, and the lane   *)
(* it puts the file in.                                                      *)
Evidence(code, category, points, lane) ==
  [code |-> code, category |-> category, points |-> points, lane |-> lane]

Changes(s) ==
  When(s.changed, {Evidence("changed_since_last_run", "change", 10, Elevated)})
  \cup When(s.contentChanged, {Evidence("content_changed_since_audit", "change", 15, High)})

(* The score of the history file comes in quarters.                          *)
History(s) ==
  When(s.commits > 0,
       {Evidence("git_history", "change", AtLeast(1, AtMost(4, s.historyScore)), Elevated)})
  \cup When(s.fixes > 0,
       {Evidence("fix_history", "recurrence", AtMost(10, 2 + 2 * s.fixes),
                 IF s.fixes >= 2 THEN High ELSE Elevated)})

Repairs(s) ==
  When(s.recentFixes > 0,
       {Evidence("fix_history", "recurrence", AtMost(10, 2 + 2 * AtMost(10, s.recentFixes)), Normal)})
  \cup When(s.reverts > 0,
       {Evidence("revert_history", "change", AtMost(10, 5 + 2 * AtMost(5, s.reverts)), High)})

Exposure(s) ==
  CASE s.sink = "LIVE" -> {Evidence("live_sink", "reach", 15, High)}
    [] s.sink = "MAYBE" -> {Evidence("maybe_sink", "reach", 8, Elevated)}
    [] s.sink = "COLD" -> {Evidence("cold_sink", "reach", 2, Elevated)}
    [] OTHER -> {}

(* The decayed risk comes in thirds; only a recorded outcome may promote.    *)
PriorRuns(s) ==
  When(s.risk # None,
       {Evidence("prior_bug_history", "recurrence", AtMost(10, AtLeast(1, s.risk)),
                 IF s.outcome THEN High ELSE Elevated)})
  \cup When(s.stale, {Evidence("stale_audit", "stale", 5, Elevated)})
  \cup When(s.reopened, {Evidence("reopened_conclusion", "active", 25, MustFocus)})
  \cup When(s.variant, {Evidence("variant_match", "recurrence", 10, MustFocus)})

Baseline(s) == When(s.failing, {Evidence("baseline_failure", "active", 25, MustFocus)})

PriorityPoints == [p \in 0..4 |-> <<25, 20, 14, 8, 4>>[p + 1]]

Issues(s) ==
  When(s.issue # None,
       {Evidence("local_bug_issue", "active", PriorityPoints[s.issue],
                 IF s.issue <= 2 THEN High ELSE Elevated)})

SeverityPoints(severity) ==
  CASE severity = "critical" -> 25 [] severity = "high" -> 20 [] severity = "medium" -> 12 [] OTHER -> 6

Impact(p) ==
  AtMost(30, (CASE p.users >= 1000 -> 20 [] p.users >= 100 -> 15 [] p.users > 0 -> 8 [] OTHER -> 0)
           + (CASE p.occurrences >= 1000 -> 10 [] p.occurrences >= 100 -> 6
                [] p.occurrences > 0 -> 3 [] OTHER -> 0))

ProjectLane(p) ==
  CASE p.kind \in {"active_incident", "release_blocker"} /\ p.severity \in {"critical", "high"}
         /\ p.confidence >= 70 -> MustFocus
    [] p.kind \in {"active_incident", "release_blocker"}
         /\ p.severity \in {"critical", "high", "medium"} -> High
    [] p.kind = "project_priority" /\ p.severity \in {"critical", "high"} -> High
    [] p.severity = "medium" -> Elevated
    [] OTHER -> Normal

Project(s) ==
  IF s.project = None THEN {}
  ELSE LET p == s.project
           category == IF p.kind = "project_priority" THEN "impact" ELSE "active"
           points == AtLeast(1, Round(SeverityPoints(p.severity) * p.confidence, 100))
       IN {Evidence(p.kind, category, points, ProjectLane(p))}
          \cup When(Impact(p) > 0, {Evidence("user_impact", "impact", Impact(p), Normal)})

(* What depends on other files: a configured glob that matches too many is   *)
(* dropped, a change without any changed test costs every changed file.      *)
Configured(signals, maxGlobMatches, f) ==
  When(signals[f].critical
         /\ Cardinality({g \in DOMAIN signals : signals[g].critical}) <= maxGlobMatches,
       {Evidence("critical_path", "impact", 30, High)})
  \cup When(signals[f].changed
         /\ ~ \E g \in DOMAIN signals : signals[g].changed /\ signals[g].test,
       {Evidence("runtime_without_test_change", "change", 2, Normal)})

Reasons(signals, maxGlobMatches, f) ==
  LET s == signals[f]
  IN Changes(s) \cup History(s) \cup Repairs(s) \cup Exposure(s) \cup PriorRuns(s) \cup Baseline(s)
     \cup Issues(s) \cup Project(s) \cup Configured(signals, maxGlobMatches, f)

(* A changed file with a live sink is in the strongest lane.                 *)
Lane(signals, maxGlobMatches, f) ==
  Min({Normal} \cup {r.lane : r \in Reasons(signals, maxGlobMatches, f)}
      \cup When((signals[f].changed \/ signals[f].contentChanged) /\ signals[f].sink = "LIVE",
                {MustFocus}))

(* The sum of the amounts f[x] is the number of their units.                 *)
Total(f, S) == Cardinality(UNION {{x} \X (1..f[x]) : x \in S})

(* The strongest piece of evidence of every code, summed up to the cap of    *)
(* its category.                                                             *)
Score(reasons) ==
  LET best(c) == {r \in reasons : /\ r.category = c
                                  /\ \A o \in reasons : o.code = r.code => o.points <= r.points}
      codes(c) == {r.code : r \in best(c)}
      points(c) == Total([k \in codes(c) |-> (CHOOSE r \in best(c) : r.code = k).points], codes(c))
  IN Total([c \in Categories |-> AtMost(Cap[c], points(c))], Categories)

(* limits: targets, glob, batches, files.                                    *)
BuildContext(signals, limits) ==
  LET reasons == [f \in DOMAIN signals |-> Reasons(signals, limits.glob, f)]
      target == [f \in DOMAIN signals |->
                   [file |-> f, lane |-> Lane(signals, limits.glob, f), score |-> Score(reasons[f])]]
      ranked == Ranked({target[f] : f \in {g \in DOMAIN signals : reasons[g] # {}}},
                  LAMBDA a, b : \/ a.lane < b.lane
                                \/ a.lane = b.lane /\ a.score > b.score
                                \/ a.lane = b.lane /\ a.score = b.score /\ a.file < b.file)
      visible == SubSeq(ranked, 1, AtMost(limits.targets, Len(ranked)))
      promotable == Select(visible, LAMBDA t : t.lane <= High)
  IN [degraded |-> FALSE,
      targets |-> visible,
      promotions |-> [i \in DOMAIN promotable |-> promotable[i].file],
      maxBatches |-> AtMost(MaxPromotionBatches, limits.batches),
      maxFiles |-> AtMost(MaxPromotionFiles, limits.files)]

Degraded == [degraded |-> TRUE, targets |-> <<>>, promotions |-> <<>>, maxBatches |-> 0, maxFiles |-> 0]

-----------------------------------------------------------------------------
(* Freshness.  marker: what this run's preflight saw of the audit index      *)
(* (status, size, catalog, candidates); shared: the membership file and the  *)
(* index as they are now (status, size, catalog, and for every recorded file *)
(* its catalog and blob); head and dirty: the blobs of the run's commit and  *)
(* the paths the worktree has changed since.                                 *)
BoundMembership(marker, shared) ==
  /\ marker.status = "exact"
  /\ shared.status = "exact"
  /\ shared.catalog = marker.catalog
  /\ shared.size = marker.size

Fingerprints(marker, shared) ==
  {f \in DOMAIN shared.records : shared.records[f].catalog = marker.catalog}

Fresh(marker, shared, head, dirty) ==
  LET known == Fingerprints(marker, shared)
  IN IF ~ BoundMembership(marker, shared) \/ \E f \in known : head[f] = None
     THEN {}
     ELSE {f \in marker.candidates \cap known :
             shared.records[f].blob = head[f] /\ f \notin dirty}

-----------------------------------------------------------------------------
(* Order and admission.  A recon that is refused is None.                    *)

Precedes(k, l) == \E i \in DOMAIN k : k[i] < l[i] /\ \A j \in 1..(i - 1) : k[j] = l[j]

(* Python's stable sort, key giving the key of each place.                   *)
Sorted(s, key) ==
  LET place == Ranked(DOMAIN s,
                 LAMBDA i, j : Precedes(Append(key[i], i), Append(key[j], j)))
  IN [n \in DOMAIN s |-> s[place[n]]]

AllFresh(batch, fresh) == ToSet(batch.files) \subseteq fresh

Deferring(recon, admitted) ==
  LET defer(batch) == [batch EXCEPT !.deferred = batch.id \notin admitted]
  IN [recon EXCEPT !.batches = [i \in DOMAIN recon.batches |-> defer(recon.batches[i])]]

(* An admission belongs to the run: once kept it is only checked and used.   *)
FrozenFits(recon) ==
  LET base == recon.admission.base   extra == recon.admission.promoted
  IN /\ ToSet(base \o extra) \subseteq Ids(recon)
     /\ IsInjective(base \o extra)
     /\ Len(base) <= recon.budget
     /\ Len(extra) <= MaxPromotionBatches
     /\ Cardinality(FilesOf(recon, ToSet(extra))) <= MaxPromotionFiles
     /\ ToSet(recon.covered) \subseteq ToSet(base \o extra)

(* The ids taken in their order while both budgets last; one that does not   *)
(* fit is passed over.                                                       *)
Extension(recon, ids, maxBatches, maxFiles) ==
  LET take(acc, id) ==
        IF \/ id \in ToSet(acc.ids)
           \/ Len(acc.ids) >= maxBatches
           \/ acc.files + Len(BatchOf(recon, id).files) > maxFiles
        THEN acc
        ELSE [ids |-> Append(acc.ids, id), files |-> acc.files + Len(BatchOf(recon, id).files)]
  IN Folded(take, [ids |-> <<>>, files |-> 0], ids).ids

(* Mutant: covered work does not use up the budget.                          *)
BaseFrontierAnew(recon, order) ==
  LET more == Select(order, LAMBDA id : id \notin ToSet(recon.covered))
  IN recon.covered \o SubSeq(more, 1, AtMost(recon.budget, Len(more)))

(* Covered work first, then the order, up to the budget.                     *)
BaseFrontier(recon, order) ==
  LET more == Select(order, LAMBDA id : id \notin ToSet(recon.covered))
  IN recon.covered \o SubSeq(more, 1, AtMost(recon.budget - Len(recon.covered), Len(more)))

Admit(recon, eligible, maxBatches, maxFiles) ==
  IF ~ recon.large THEN recon
  ELSE IF Len(recon.covered) > recon.budget THEN None
  ELSE LET order == [i \in DOMAIN recon.batches |-> recon.batches[i].id]
           base == BaseFrontier(recon, order)
           others == Select(order, LAMBDA id : id \in eligible \ ToSet(base))
           extra == Extension(recon, others, maxBatches, maxFiles)
       IN [Deferring(recon, ToSet(base \o extra)) EXCEPT
             !.admission = [base |-> base, promoted |-> extra]]

BatchWith(recon, f) == {id \in Ids(recon) : f \in ToSet(BatchOf(recon, id).files)}

Ranks(context, batch) ==
  LET found == {t \in ToSet(context.targets) : t.file \in ToSet(batch.files)}
  IN [lane |-> Min({99} \cup {t.lane : t \in found}),
      score |-> Max({0} \cup {t.score : t \in found})]

(* In large mode a fresh batch goes last unless it holds a promotion.        *)
OrderLarge(recon, context, fresh) ==
  LET eligible == UNION {BatchWith(recon, f) : f \in ToSet(context.promotions)}
      hard(batch) == batch.id \in eligible
      key(batch) == <<IF AllFresh(batch, fresh) /\ ~ hard(batch) THEN 1 ELSE 0,
                      IF hard(batch) \/ batch.tier = 0 THEN 0 ELSE 1,
                      Ranks(context, batch).lane,
                      - Ranks(context, batch).score,
                      batch.tier>>
      ordered == Sorted(recon.batches, [i \in DOMAIN recon.batches |-> key(recon.batches[i])])
      raised == [i \in DOMAIN ordered |->
                   [ordered[i] EXCEPT !.tier = IF hard(ordered[i]) THEN 0 ELSE @]]
  IN Admit([recon EXCEPT !.batches = raised], eligible, context.maxBatches, context.maxFiles)

(* In small mode only a deferred batch nobody covered can be promoted.       *)
OrderSmall(recon, context) ==
  LET waiting(id) == BatchOf(recon, id).deferred /\ id \notin ToSet(recon.covered)
      holders == FlattenSeq([i \in DOMAIN context.promotions |->
                   SetToSeq(BatchWith(recon, context.promotions[i]))])
      promoted == ToSet(Extension(recon, Select(holders, waiting),
                                  context.maxBatches, context.maxFiles))
      group(batch) == IF batch.id \in promoted THEN 1 ELSE IF batch.tier = 0 THEN 0 ELSE 2
      key(batch) == <<group(batch),
                      IF group(batch) = 2 THEN batch.tier ELSE 0,
                      Ranks(context, batch).lane,
                      - Ranks(context, batch).score>>
      ordered == Sorted(recon.batches, [i \in DOMAIN recon.batches |-> key(recon.batches[i])])
      admit(batch) == IF batch.id \in promoted
                      THEN [batch EXCEPT !.tier = 0, !.deferred = FALSE] ELSE batch
  IN [recon EXCEPT !.batches = [i \in DOMAIN ordered |-> admit(ordered[i])]]

(* Mutant: every application admits again.                                   *)
ReprioritizeAnew(recon, context, fresh) ==
  LET settled == [recon EXCEPT !.batches =
                    Sorted(@, [i \in DOMAIN @ |-> <<IF AllFresh(@[i], fresh) THEN 1 ELSE 0>>])]
  IN IF context.degraded \/ context.targets = <<>>
     THEN IF recon.large THEN Admit(settled, {}, 0, 0) ELSE recon
     ELSE IF recon.large THEN OrderLarge(recon, context, fresh) ELSE OrderSmall(recon, context)

Reprioritize(recon, context, fresh) ==
  LET settled == [recon EXCEPT !.batches =
                    Sorted(@, [i \in DOMAIN @ |-> <<IF AllFresh(@[i], fresh) THEN 1 ELSE 0>>])]
  IN IF recon.large /\ recon.admission # None
     THEN IF FrozenFits(recon)
          THEN Deferring(recon, ToSet(recon.admission.base \o recon.admission.promoted))
          ELSE None
     ELSE IF context.degraded \/ context.targets = <<>>
     THEN IF recon.large THEN Admit(settled, {}, 0, 0) ELSE recon
     ELSE IF recon.large THEN OrderLarge(recon, context, fresh) ELSE OrderSmall(recon, context)

(* The receipt of an application: which batches it promoted, and what became *)
(* of the candidates.                                                        *)
Application(before, after, context) ==
  LET promoted == IF after.admission # None THEN ToSet(after.admission.promoted)
                  ELSE {id \in Ids(after) : BatchOf(before, id).deferred
                                            /\ ~ BatchOf(after, id).deferred}
      inBudget(id) == IF after.admission # None THEN id \in ToSet(after.admission.base)
                      ELSE ~ BatchOf(before, id).deferred
      held == {f \in ToSet(context.promotions) : \E id \in BatchWith(before, f) : inBudget(id)}
  IN [promoted |-> promoted,
      added |-> Cardinality(FilesOf(after, promoted)),
      inBudget |-> held,
      skipped |-> {f \in ToSet(context.promotions) \ held :
                     BatchWith(before, f) \cap promoted = {}}]
=============================================================================
