------------------------------- MODULE Audit --------------------------------
(***************************************************************************)
(* The plan of a run from its seed to its summary: recon-plan.sh cuts the  *)
(* files into batches, priority-context.sh ranks them once, `apply' of     *)
(* _priority_context.py reorders and admits batches and is called again    *)
(* after every interruption, mark-batch-covered.sh records reviewed        *)
(* batches, and the summary counts them.  Any call may be killed between   *)
(* two writes.  SKILL.md has one coordinator that makes one call at a time *)
(* and reviews the batches that are not deferred.                          *)
(***************************************************************************)
EXTENDS RunSummary

CONSTANTS
  Trees, CapChoices,    \* trees and caps a run may start with
  SignalChoices,        \* evidence, from files to signals
  Limits,               \* the configured targets, glob, batches and files
  Indexes, HeadBlob,       \* audit indexes, and the blobs of the run's commit
  Ledgers, Prior,       \* what hunters write to the ledger; prior-coverage.json
  MaxKills,             \* bound: calls killed
  MaxWork               \* bound: edits of a file and runs of others

Batches == [id : Nat, tier : Int, files : Seq(Int), deferred : BOOLEAN]
Admissions == [base : Seq(Nat), promoted : Seq(Nat)]
Plans == [batches : Seq(Batches), filesInScope : Nat, batchCount : Nat, large : BOOLEAN,
          budget : Nat \cup {None}, covered : Seq(Nat), admission : Admissions \cup {None}]
Contexts == [degraded : BOOLEAN, targets : Seq([file : Int, lane : Int, score : Int]),
             promotions : Seq(Int), maxBatches : Nat, maxFiles : Nat]
Applications == [promoted : SUBSET Nat, added : Nat, inBudget : SUBSET Int, skipped : SUBSET Int]
Calls == [step : STRING, before : Plans] \cup [step : STRING, batch : Nat]
LedgerEvents == [event : STRING, batch : Nat \cup {None}, bug : Int \cup {None}, severity : STRING \cup {None},
                 category : Int \cup {None}, file : Int \cup {None}, value : STRING \cup {None},
                 codes : SUBSET STRING]

(* A run starts with a file to review; the caps and limits are numbers     *)
(* (recon-plan.sh and _config_int see to it), and so is what is counted.   *)
ASSUME AuditAssumption ==
  /\ MaxKills \in Nat /\ MaxWork \in Nat
  /\ MaxPromotionBatches \in Nat /\ MaxPromotionFiles \in Nat
  /\ \A t \in Trees : /\ IsFiniteSet(t.files) /\ t.files \subseteq Int /\ InScope(t) # {}
                       /\ \A f \in InScope(t) : /\ t.dir[f] \in Int /\ Tier[t.dir[f]] \in Int
                                                /\ t.size[f] \in Int \cup {None}
  /\ \A c \in CapChoices : c.firstPass \in Nat
  /\ \A s \in SignalChoices : \A f \in DOMAIN s :
       /\ {s[f].historyScore, s[f].fixes, s[f].recentFixes, s[f].reverts} \subseteq Int
       /\ s[f].risk \in Int \cup {None} /\ s[f].issue \in 0..4 \cup {None}
       /\ s[f].project # None => s[f].project.confidence \in Int
  /\ Ledgers \subseteq Seq(LedgerEvents)
  /\ IsFiniteSet(DOMAIN Prior.highRisk) /\ IsFiniteSet(Prior.stale) /\ FollowUpCap \in Nat
  /\ Limits \in [targets : Nat, glob : Nat, batches : Nat, files : Nat]
  /\ None \notin Int \cup Plans \cup Admissions \cup Contexts \cup Applications \cup Calls

VARIABLES
  tree, caps,   \* the files, and the caps of the configuration
  plan,         \* the plan as it was seeded
  signals,      \* the evidence there is
  findings,     \* the events of hunters and referees
  recon,        \* recon.json
  context,      \* priority-context.json
  application,  \* priority-application.json
  marker,       \* audit_membership of prior-coverage.json
  shared,       \* the audit index and its membership file
  dirty,        \* files the worktree has changed
  snaps,        \* batches with all their lines in audit-snapshots.jsonl
  events,       \* batch_covered events of the ledger
  call,         \* the running call
  kills, work

inputs == <<tree, caps, plan, signals, findings, marker>>
world == <<shared, dirty, work>>
surfaces == <<snaps, events>>
vars == <<inputs, recon, context, application, world, surfaces, call, kills>>

Init ==
  /\ tree \in Trees /\ caps \in CapChoices
  /\ plan \in {BuildPlan(tree, caps), ShellPlan(tree, caps)}   \* with and without python3
  /\ signals \in SignalChoices /\ findings \in Ledgers
  /\ recon = plan
  /\ context = None /\ application = None
  /\ shared \in Indexes
  /\ marker = [status |-> shared.status, size |-> shared.size, catalog |-> shared.catalog,
               candidates |-> {f \in DOMAIN shared.records : shared.records[f].catalog = shared.catalog}]
  /\ dirty = {} /\ snaps = {} /\ events = {}
  /\ call = None /\ kills = 0 /\ work = 0

Known == {f \in InScope(tree) : f \in DOMAIN signals}

-----------------------------------------------------------------------------
(* priority-context.sh: the collector answers or degrades.                 *)
BuildPriority ==
  /\ call = None /\ context = None
  /\ context' \in {BuildContext([f \in Known |-> signals[f]], Limits), Degraded}
  /\ UNCHANGED <<inputs, recon, application, world, surfaces, call, kills>>

Calling(step) == call # None /\ call.step = step

(* apply: refused without a trace, or the plan is replaced, ...            *)
ApplyRecon ==
  LET fresh == Fresh(marker, shared, HeadBlob, dirty)
      after == Reprioritize(recon, context, fresh)
  IN /\ call = None /\ context # None
     /\ after # None
     /\ recon' = after
     /\ call' = [step |-> "receipt", before |-> recon]
     /\ UNCHANGED <<inputs, context, application, world, surfaces, kills>>

(* ... then the receipt is written, or fails and the plan is put back.     *)
ApplyReceipt ==
  /\ Calling("receipt")
  /\ application' = Application(call.before, recon, context)
  /\ call' = None
  /\ UNCHANGED <<inputs, recon, context, world, surfaces, kills>>

ApplyRollback ==
  /\ Calling("receipt") /\ kills < MaxKills /\ kills' = kills + 1
  /\ recon' = call.before
  /\ call' = None
  /\ UNCHANGED <<inputs, context, application, world, surfaces>>

-----------------------------------------------------------------------------
(* _checkpoint of a reviewed batch (Checkpoint has it in detail).          *)
(* prompts/context-build.md reviews them in the order of recon.json.       *)
Open == Select(recon.batches, LAMBDA batch : ~ batch.deferred /\ batch.id \notin ToSet(recon.covered))

CoverSnapshots ==
  /\ call = None /\ Open # <<>> /\ ValidateReconPlan(recon)
  /\ LET id == Open[1].id
     IN /\ id \in events => id \in snaps
        /\ \/ snaps' = snaps \cup {id} /\ UNCHANGED kills
           \/ /\ id \notin snaps      \* a line is lost to a torn one
              /\ kills < MaxKills /\ kills' = kills + 1 /\ UNCHANGED snaps
        /\ call' = [step |-> IF id \in events THEN "list" ELSE "event", batch |-> id]
  /\ UNCHANGED <<inputs, recon, context, application, world, events>>

CoverEvent ==
  /\ Calling("event")
  /\ events' = events \cup {call.batch}
  /\ call' = [call EXCEPT !.step = "list"]
  /\ UNCHANGED <<inputs, recon, context, application, world, snaps, kills>>

CoverList ==
  /\ Calling("list")
  /\ recon' = [recon EXCEPT !.covered = Append(@, call.batch)]
  /\ call' = None
  /\ UNCHANGED <<inputs, context, application, world, surfaces, kills>>

Kill ==
  /\ call # None /\ kills < MaxKills
  /\ kills' = kills + 1 /\ call' = None
  /\ UNCHANGED <<inputs, recon, context, application, world, surfaces>>

(* Edits in the worktree; another run persists its audit of everything.    *)
Edit ==
  /\ work < MaxWork /\ work' = work + 1
  /\ \E f \in InScope(tree) \ dirty : dirty' = dirty \cup {f}
  /\ UNCHANGED <<inputs, recon, context, application, shared, surfaces, call, kills>>

OtherRunPersists ==
  /\ work < MaxWork /\ work' = work + 1
  /\ shared' = [shared EXCEPT !.size = @ + 1]
  /\ UNCHANGED <<inputs, recon, context, application, dirty, surfaces, call, kills>>

Next ==
  \/ BuildPriority \/ ApplyRecon \/ ApplyReceipt \/ ApplyRollback
  \/ CoverSnapshots \/ CoverEvent \/ CoverList \/ Kill \/ Edit \/ OtherRunPersists

Spec == Init /\ [][Next]_vars

-----------------------------------------------------------------------------
(* verify_run_coverage: one claimed batch without its snapshots and nothing*)
(* is verified.                                                            *)
Claimed == ToSet(recon.covered) \cap events
Verified == IF Claimed \subseteq snaps THEN Claimed ELSE {}

CoverageEvent(id) ==
  [event |-> "batch_covered", batch |-> id, bug |-> None, severity |-> None, category |-> None,
   file |-> None, value |-> None, codes |-> {}]
Ledger == findings \o Mapped(InOrder(events), CoverageEvent)

Summary(stub) == ReduceRun(Ledger, recon, stub, Prior, FALSE, Verified)

Admitted == {id \in Ids(recon) : ~ BatchOf(recon, id).deferred}

(* Both planners cut the same batches.  However the plan is reordered,     *)
(* admitted, interrupted and put back, its batches stay a partition of the *)
(* files in scope that the checkpoint accepts, and work is only deferred   *)
(* in large mode.                                                          *)
ScopeIsFrozen ==
  /\ BuildPlan(tree, caps) = ShellPlan(tree, caps)
  /\ ValidateReconPlan(recon)
  /\ FilesOf(recon, Ids(recon)) = InScope(tree)
  /\ \A id \in Ids(recon) : ToSet(BatchOf(recon, id).files) = ToSet(BatchOf(plan, id).files)
  /\ ~ recon.large => Admitted = Ids(recon)

(* A resume continues with the admission of the run: between two calls no  *)
(* context and no state of the index makes `apply' refuse the plan, and    *)
(* once an admission is kept it is the answer.                             *)
Resumable ==
  call = None =>
    \A c \in {Degraded} \cup ({context} \ {None}) : \A fresh \in {{}, InScope(tree)} :
      LET after == Reprioritize(recon, c, fresh)
      IN /\ after # None
         /\ recon.admission # None => after.admission = recon.admission

(* A run never works on more batches than its budget and one extension,    *)
(* however often it is resumed, and no batch is left out once it is        *)
(* covered; only a file with strong evidence of its own extends the        *)
(* budget, and the receipt names the batches that were admitted for that.  *)
AdmissionIsJustified ==
  /\ recon.large =>
       /\ Cardinality(Admitted \cup ToSet(recon.covered)) <= recon.budget + MaxPromotionBatches
       /\ recon.admission # None => ToSet(recon.covered) \subseteq Admitted
  /\ recon.admission # None =>
       /\ \A id \in ToSet(recon.admission.promoted) :
            \E f \in ToSet(BatchOf(recon, id).files) \cap Known :
              Lane([g \in Known |-> signals[g]], Limits.glob, f) <= High
       /\ Cardinality(FilesOf(recon, ToSet(recon.admission.promoted))) <= Limits.files
       /\ application # None => application.promoted = ToSet(recon.admission.promoted)

(* What a summary counts was reviewed, the degraded one included: every    *)
(* counted batch has its lines, its event and its place in the list,       *)
(* "complete" means that all files of the tree in scope are in such        *)
(* batches, a prioritised file is reported as reviewed for such a batch or *)
(* for an event of its own, and whatever is not counted is handed on, up   *)
(* to the cap.                                                             *)
CoverageIsEarned ==
  LET full == Summary(TRUE)
      done == snaps \cap events \cap ToSet(recon.covered)
      left == {e.ref : e \in {x \in ToSet(full.followUp) : x.kind = "uncovered_batch"}}
      spoken == {e.file : e \in ToSet(findings)}
  IN /\ \A s \in {full, DegradedSummary(recon, TRUE)} :
          /\ s.coverage.covered <= Cardinality(done)
          /\ s.progress = "complete" => InScope(tree) \subseteq FilesOf(recon, done)
     /\ context # None => \A t \in ToSet(context.targets) :
          TargetOutcome(Ledger, recon, Verified, t.file, {"live_sink"}) # "not_reviewed" =>
            t.file \in FilesOf(recon, done) \cup spoken
     /\ Cardinality(left) = AtMost(FollowUpCap, full.coverage.total - full.coverage.covered)

(* Two runs make the same session in either order, and two findings of a   *)
(* category in two runs are a cluster of the session.                      *)
SessionIsOrderFree ==
  LET a == Summary(TRUE)
      b == ReduceRun(findings, None, FALSE, Prior, TRUE, {})
      ab == MergeSummaries(<<a, b>>)
      ba == MergeSummaries(<<b, a>>)
  IN /\ ab.clusters = ba.clusters /\ ab.totals = ba.totals /\ ab.worst = ba.worst
     /\ \A e \in ToSet(Of(findings, Kinds)) :
          e.category # None => e.category \in {c.cluster : c \in ToSet(ab.clusters)}
=============================================================================
