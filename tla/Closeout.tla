------------------------------ MODULE Closeout ------------------------------
(***************************************************************************)
(* The end of one Bugsweep run: finalize.sh writes the artifacts and hands *)
(* over to closeout.sh, which lands or records the run, removes its exact  *)
(* worktree and branch, and writes a terminal receipt.  Both scripts keep  *)
(* their progress in files of the run directory through                    *)
(* _terminal_lifecycle.py, and each may be killed after any durable write  *)
(* and started again.                                                      *)
(*                                                                         *)
(* One step of this module is one durable effect of a script (an atomic    *)
(* file replacement, one git command) together with the reads that decide  *)
(* it.  A script that dies returns to "idle"; one that dies or is killed   *)
(* leaves every file and ref as it is.                                     *)
(*                                                                         *)
(* Commits of the run branch are numbered: commit 0 is BUGSWEEP_ORIG_HEAD  *)
(* and the target branch contains the commits up to `landed'.              *)
(***************************************************************************)
EXTENDS Integers

CONSTANTS
  Findings,        \* keys of the findings a run-summary may list
  MaxTip,          \* bound: fix commits on the run branch
  UserSwitches,    \* the user may check out another branch in the main working tree
  UserRewinds,     \* the user may reset the target branch
  SecondWriter,    \* someone else may commit on the run branch at any time
  None             \* nothing recorded

ASSUME CloseoutAssumption ==
  /\ MaxTip \in Nat
  /\ UserSwitches \in BOOLEAN
  /\ UserRewinds \in BOOLEAN
  /\ SecondWriter \in BOOLEAN
  /\ None \notin 0 .. MaxTip /\ None \notin {"landed", "recorded"}
  /\ None \notin [outcome : {"landed", "recorded"}, tip : 0 .. MaxTip]
  /\ None \notin [tip : 0 .. MaxTip, sha : 0 .. MaxTip]

VARIABLES
  pc,         \* next step of the running script, "idle" when none runs
  outcome,    \* second argument of the running closeout.sh
  mode,       \* how it will delete the branch: git branch -d or -D
  marker,     \* stage in closeout-marker.json
  receipt,    \* outcome in terminal-receipt.json
  absence,    \* absence-observation.json exists
  auth,       \* cleanup-authorization.json
  block,      \* state of this run's file under closeout-blocked/
  closed,     \* closeout events in ledger.jsonl
  lease,      \* the run's lease is held
  branch,     \* tip of the run branch
  worktree,   \* the owned linked worktree exists
  dirty,      \* its checkout has changes that are not committed
  head,       \* what the main working tree has checked out
  landed,     \* newest commit of the run that the target contains
  given,      \* linked: BUGSWEEP_WORKTREE is set in state.env, otherwise the run works
              \* in place; fixed, open and degraded: what the ledger says of its findings
  summarised, \* run-summary.json exists
  gated,      \* source tip in integrate-results.json
  bundle,     \* tip in recovery.bundle
  review,     \* tip and bundle digest in deletion-review.json
  tracked,    \* findings with a verified tracker readback
  escrowed    \* bundles with a verified tracker readback

scriptVars   == <<pc, outcome, mode>>
runVars      == <<marker, receipt, absence, auth, block, closed, lease>>
gitVars      == <<branch, worktree, dirty, head, landed>>
evidenceVars == <<given, summarised, gated, bundle, review, tracked, escrowed>>
vars == <<scriptVars, runVars, gitVars, evidenceVars>>

-----------------------------------------------------------------------------
(* STAGES in their order; NO_MARKER: closeout-marker.json does not exist.  *)
NO_MARKER            == 0
PENDING_FINALIZATION == 1
PENDING_CLOSEOUT     == 2
READY_FOR_CLEANUP    == 3
WORKTREE_REMOVED     == 4
BRANCH_REMOVED       == 5
RECEIPT_PENDING      == 6
COMPLETED_LANDED     == 7
COMPLETED_RECORDED   == 8

Stages   == NO_MARKER .. COMPLETED_RECORDED
Terminal == {COMPLETED_LANDED, COMPLETED_RECORDED}
Outcomes == {"landed", "recorded"}
Tips     == 0 .. MaxTip
Labels   == {"idle", "killed", "f_block", "f_artifacts", "f_restore", "f_pending", "f_advance",
             "c_init", "c_summary", "c_absent", "c_authority", "c_verify", "c_authorize",
             "c_ready", "c_worktree", "c_wt_mark", "c_branch", "c_br_mark", "c_readback",
             "c_pending", "c_observe", "c_receipt", "c_complete", "c_unblock", "c_ledger",
             "r_unblock", "r_ledger"}

TerminalOf(o) == IF o = "landed" THEN COMPLETED_LANDED ELSE COMPLETED_RECORDED

Larger(a, b) == IF a >= b THEN a ELSE b

(* The checkout in which the run's commits are made.                       *)
CheckoutExists == IF given.linked THEN worktree ELSE head = "run"

Contained == branch <= landed

(* What `git branch -d' compares with: the branch has no upstream, so it   *)
(* is the HEAD of the main working tree, which may have left the target.   *)
HeadContains == CASE head = "target" -> landed
                  [] head = "run"    -> branch
                  [] OTHER           -> 0

Deletable == head # "run" /\ (mode = "-D" \/ branch <= HeadContains)

(* verify_tracker_receipts: every required key, and at least one receipt.  *)
TrackerReadback(keys) == keys \subseteq tracked /\ tracked # {}

(* Mutant: the receipt of an older gate run is accepted.                   *)
LandedEvidenceAnyTip == /\ gated # None
                        /\ gated <= landed
                        /\ given.linked => worktree

(* verify_landed_evidence: the gate receipt is for the exact tip, the      *)
(* gated target is in the target's history, and the sources of the run's   *)
(* checkout can be captured and compared.                                  *)
LandedEvidence == /\ gated = branch
                  /\ gated <= landed
                  /\ given.linked => worktree

(* Mutant: the bundle is not compared with the branch tip.                 *)
RecoveryReviewStaleBundle == /\ bundle # None
                             /\ review = [tip |-> branch, sha |-> bundle]
                             /\ bundle \in escrowed

(* verify_recovery_review: bundle, fresh review and tracker agree on the   *)
(* exact tip.  The digest of a bundle stands for the tip it contains.      *)
RecoveryReview == /\ bundle = branch
                  /\ review = [tip |-> branch, sha |-> bundle]
                  /\ bundle \in escrowed

(* reconcile_closeout on a terminal marker.                                *)
Reconciled == /\ marker \in Terminal
              /\ receipt = marker
              /\ absence
              /\ ~worktree

(* read_run_status reports verified_completed (exit code 0).               *)
Verified == Reconciled /\ block = "none"

(* reconcile_closeout raises and read_run_status reports an invalid run.   *)
Invalid == \/ marker = NO_MARKER
           \/ marker \in Terminal /\ ~Reconciled
           \/ marker \notin Terminal /\ receipt # NO_MARKER

(* advance_closeout: the same stage again, or exactly the next one.        *)
CanAdvance(s) == \/ marker = s
                 \/ /\ marker # NO_MARKER
                    /\ s = marker + 1
                    /\ s <= RECEIPT_PENDING

Advance(s, next) ==
  IF CanAdvance(s) THEN marker' = s /\ pc' = next
                   ELSE marker' = marker /\ pc' = "idle"

-----------------------------------------------------------------------------
Init ==
  /\ pc = "idle" /\ outcome = "recorded" /\ mode = "-d"
  /\ marker = NO_MARKER /\ receipt = NO_MARKER /\ absence = FALSE
  /\ auth = None /\ block = "none" /\ closed = 0 /\ lease = TRUE
  /\ \E linked, degraded \in BOOLEAN, fixed, open \in SUBSET Findings :
       /\ fixed \cap open = {}
       /\ degraded => fixed = {} /\ open = {}   \* summarize.sh lists nothing then
       /\ given = [linked |-> linked, fixed |-> fixed, open |-> open, degraded |-> degraded]
       /\ worktree = linked
       /\ head = IF linked THEN "target" ELSE "run"
  /\ branch = 0 /\ dirty = FALSE /\ landed = 0
  /\ summarised = FALSE /\ gated = None /\ bundle = None /\ review = None
  /\ tracked = {} /\ escrowed = {}

-----------------------------------------------------------------------------
(* The coordinator between two scripts, and the user.                      *)

WriterMayAct == (pc = "idle" \/ SecondWriter) /\ branch # None /\ CheckoutExists

(* An edit that is not committed, or one that is taken back.               *)
Edit ==
  /\ WriterMayAct
  /\ dirty' = ~dirty
  /\ UNCHANGED <<scriptVars, runVars, evidenceVars, branch, worktree, head, landed>>

CommitFix ==
  /\ WriterMayAct
  /\ branch < MaxTip
  /\ branch' = branch + 1
  /\ dirty' = FALSE
  /\ UNCHANGED <<scriptVars, runVars, evidenceVars, worktree, head, landed>>

(* integrate.sh on the exact branch: the gate passes on the combined tree, *)
(* the target moves to it, and integrate-results.json names the tip.       *)
Integrate ==
  /\ pc = "idle" /\ branch # None
  /\ ~(dirty /\ ~given.linked)
  /\ gated' = branch
  /\ landed' = Larger(landed, branch)
  /\ head' = "target"
  /\ UNCHANGED <<scriptVars, runVars, branch, worktree, dirty,
                 given, summarised, bundle, review, tracked, escrowed>>

(* bugsweep-cleanup.sh <branch>: merge without a landing receipt, then     *)
(* delete the contained branch unless its worktree is dirty.               *)
CleanupBranch ==
  /\ pc = "idle" /\ branch # None
  /\ ~(dirty /\ ~given.linked)
  /\ landed' = Larger(landed, branch)
  /\ head' = "target"
  /\ IF worktree /\ dirty THEN UNCHANGED <<branch, worktree>>
                          ELSE branch' = None /\ worktree' = FALSE
  /\ UNCHANGED <<scriptVars, runVars, evidenceVars, dirty>>

WriteBundle ==
  /\ pc = "idle" /\ branch # None
  /\ bundle' = branch
  /\ UNCHANGED <<scriptVars, runVars, gitVars,
                 given, summarised, gated, review, tracked, escrowed>>

ReviewDeletion ==
  /\ pc = "idle" /\ branch # None /\ bundle # None
  /\ review' = [tip |-> branch, sha |-> bundle]
  /\ UNCHANGED <<scriptVars, runVars, gitVars,
                 given, summarised, gated, bundle, tracked, escrowed>>

TrackBundle ==
  /\ pc = "idle" /\ bundle # None
  /\ escrowed' = escrowed \cup {bundle}
  /\ UNCHANGED <<scriptVars, runVars, gitVars,
                 given, summarised, gated, bundle, review, tracked>>

TrackFinding(f) ==
  /\ pc = "idle"
  /\ tracked' = tracked \cup {f}
  /\ UNCHANGED <<scriptVars, runVars, gitVars,
                 given, summarised, gated, bundle, review, escrowed>>

(* The main working tree belongs to the user, who may leave the target for *)
(* a branch without the run's commits, or come back to it.                 *)
SwitchHead ==
  /\ UserSwitches
  /\ ~(dirty /\ head = "run")
  /\ head' = IF head = "target" THEN "other" ELSE "target"
  /\ UNCHANGED <<scriptVars, runVars, evidenceVars,
                 branch, worktree, dirty, landed>>

RewindTarget ==
  /\ UserRewinds
  /\ landed > 0
  /\ landed' = landed - 1
  /\ UNCHANGED <<scriptVars, runVars, evidenceVars,
                 branch, worktree, dirty, head>>

-----------------------------------------------------------------------------
(* finalize.sh                                                             *)

(* initialize_closeout(PENDING_FINALIZATION): keeps a marker that exists.  *)
StartFinalize ==
  /\ pc = "idle"
  /\ marker' = Larger(marker, PENDING_FINALIZATION)
  /\ pc' = "f_block"
  /\ UNCHANGED <<outcome, mode, receipt, absence, auth, block, closed, lease,
                 gitVars, evidenceVars>>

FinalizeBlock ==
  /\ pc = "f_block"
  /\ block' = "FINALIZING"
  /\ pc' = "f_artifacts"
  /\ UNCHANGED <<outcome, mode, marker, receipt, absence, auth, closed, lease,
                 gitVars, evidenceVars>>

FinalizeArtifacts ==
  /\ pc = "f_artifacts"
  /\ summarised' = TRUE
  /\ pc' = "f_restore"
  /\ UNCHANGED <<outcome, mode, runVars, gitVars,
                 given, gated, bundle, review, tracked, escrowed>>

(* In place, the user's branch is checked out again; a failure is only     *)
(* logged, and changes that are not committed can make it fail.            *)
FinalizeRestore ==
  /\ pc = "f_restore"
  /\ head' \in (IF given.linked THEN {head} ELSE IF dirty THEN {head, "target"} ELSE {"target"})
  /\ pc' = "f_pending"
  /\ UNCHANGED <<outcome, mode, runVars, branch, worktree, dirty, landed,
                 evidenceVars>>

FinalizePending ==
  /\ pc = "f_pending"
  /\ block' = "PENDING_CLOSEOUT"
  /\ pc' = "f_advance"
  /\ UNCHANGED <<outcome, mode, marker, receipt, absence, auth, closed, lease,
                 gitVars, evidenceVars>>

(* Dies, with the block file left behind, when closeout is further on.     *)
FinalizeAdvance ==
  /\ pc = "f_advance"
  /\ Advance(PENDING_CLOSEOUT, "idle")
  /\ UNCHANGED <<outcome, mode, receipt, absence, auth, block, closed, lease,
                 gitVars, evidenceVars>>

-----------------------------------------------------------------------------
(* closeout.sh <RUN_DIR> <outcome>                                         *)

(* Mutant: the block file is not written first.                            *)
StartCloseoutUnblocked(o) ==
  /\ pc = "idle"
  /\ outcome' = o
  /\ pc' = "c_init"
  /\ UNCHANGED <<mode, runVars, gitVars, evidenceVars>>

StartCloseout(o) ==
  /\ pc = "idle"
  /\ outcome' = o
  /\ block' = "INCOMPLETE_CLEANUP"
  /\ pc' = "c_init"
  /\ UNCHANGED <<mode, marker, receipt, absence, auth, closed, lease,
                 gitVars, evidenceVars>>

(* initialize_closeout(PENDING_CLOSEOUT): an existing marker must not be   *)
(* behind it, so a run whose finalize was interrupted is refused.          *)
CloseoutInit ==
  /\ pc = "c_init"
  /\ IF marker = PENDING_FINALIZATION
       THEN pc' = "idle" /\ marker' = marker
       ELSE pc' = "c_summary" /\ marker' = Larger(marker, PENDING_CLOSEOUT)
  /\ UNCHANGED <<outcome, mode, receipt, absence, auth, block, closed, lease,
                 gitVars, evidenceVars>>

(* The summary must exist and validate; then a terminal run only repeats   *)
(* the bookkeeping, and the others go by whether the branch exists.        *)
CheckSummary ==
  /\ pc = "c_summary"
  /\ pc' = CASE ~summarised                                     -> "idle"
             [] summarised /\ Reconciled                        ->
                  IF marker = TerminalOf(outcome) THEN "r_unblock" ELSE "idle"
             [] summarised /\ ~Reconciled /\ branch = None      -> "c_absent"
             [] OTHER                                           -> "c_verify"
  /\ UNCHANGED <<outcome, mode, runVars, gitVars, evidenceVars>>

ReplayUnblock ==
  /\ pc = "r_unblock"
  /\ block' = "none"
  /\ pc' = "r_ledger"
  /\ UNCHANGED <<outcome, mode, marker, receipt, absence, auth, closed, lease,
                 gitVars, evidenceVars>>

(* Mutant: the replayed tail appends without looking.                      *)
ReplayLedgerAppends ==
  /\ pc = "r_ledger"
  /\ closed' = closed + 1
  /\ pc' = "idle"
  /\ UNCHANGED <<outcome, mode, marker, receipt, absence, auth, block, lease,
                 gitVars, evidenceVars>>

ReplayLedger ==
  /\ pc = "r_ledger"
  /\ closed' = Larger(closed, 1)
  /\ pc' = "idle"
  /\ UNCHANGED <<outcome, mode, marker, receipt, absence, auth, block, lease,
                 gitVars, evidenceVars>>

(* Mutant: the replay stops one stage too early.                           *)
ReplayAbsenceStopsEarly ==
  /\ pc = "c_absent"
  /\ IF worktree THEN pc' = "idle" /\ marker' = marker
     ELSE IF marker < WORKTREE_REMOVED THEN pc' = pc /\ marker' = marker + 1
     ELSE pc' = "c_authority" /\ marker' = marker
  /\ UNCHANGED <<outcome, mode, receipt, absence, auth, block, closed, lease,
                 gitVars, evidenceVars>>

(* recover_absent_resources: one atomic marker replacement per stage.      *)
ReplayAbsence ==
  /\ pc = "c_absent"
  /\ IF worktree THEN pc' = "idle" /\ marker' = marker
     ELSE IF marker < BRANCH_REMOVED THEN pc' = pc /\ marker' = marker + 1
     ELSE pc' = "c_authority" /\ marker' = marker
  /\ UNCHANGED <<outcome, mode, receipt, absence, auth, block, closed, lease,
                 gitVars, evidenceVars>>

(* Mutant: the outcome on record is not compared with the argument.        *)
CheckAuthorityAnyOutcome ==
  /\ pc = "c_authority"
  /\ pc' = IF auth # None /\ (outcome = "landed" => auth.tip <= landed)
           THEN "c_readback" ELSE "idle"
  /\ UNCHANGED <<outcome, mode, runVars, gitVars, evidenceVars>>

(* The branch may only be missing because this closeout was authorised to  *)
(* remove it, and a landed tip must still be in the target.                *)
CheckAuthority ==
  /\ pc = "c_authority"
  /\ pc' = IF /\ auth # None
              /\ auth.outcome = outcome
              /\ outcome = "landed" => auth.tip <= landed
           THEN "c_readback" ELSE "idle"
  /\ UNCHANGED <<outcome, mode, runVars, gitVars, evidenceVars>>

(* What closeout.sh demands before it may touch a resource.  `git branch   *)
(* -D' is only reached with a verified recovery review.                    *)
CheckoutClean == ~(worktree /\ dirty)

MayLand ==
  /\ outcome = "landed" /\ CheckoutClean
  /\ given.fixed # {} /\ ~given.degraded
  /\ given.open # {} => TrackerReadback(given.open)
  /\ LandedEvidence /\ Contained

(* Mutant: a contained branch needs no tracker receipts.                   *)
MayRecordUntracked ==
  /\ outcome = "recorded" /\ CheckoutClean /\ ~given.degraded
  /\ \/ Contained /\ given.fixed = {}
     \/ ~Contained /\ TrackerReadback(given.open \cup given.fixed) /\ RecoveryReview

MayRecord ==
  /\ outcome = "recorded" /\ CheckoutClean /\ ~given.degraded
  /\ \/ Contained /\ given.fixed = {} /\ (given.open # {} => TrackerReadback(given.open))
     \/ ~Contained /\ TrackerReadback(given.open \cup given.fixed) /\ RecoveryReview

(* The paths that go through the tracker announce it in the block file.    *)
AsksTracker ==
  /\ CheckoutClean /\ ~given.degraded
  /\ IF outcome = "landed" THEN given.fixed # {} /\ given.open # {}
                           ELSE Contained => given.fixed = {} /\ given.open # {}

(* Only the recorded paths set the block file back once the tracker has    *)
(* answered.  A demand that is not met ends the script.                    *)
Verify ==
  /\ pc = "c_verify"
  /\ IF MayLand \/ MayRecord
       THEN pc' = "c_authorize" /\ mode' = (IF Contained THEN "-d" ELSE "-D")
       ELSE pc' = "idle" /\ mode' = mode
  /\ block' = IF AsksTracker /\ ~MayRecord THEN "INCOMPLETE_TRACKER" ELSE block
  /\ UNCHANGED <<outcome, marker, receipt, absence, auth, closed, lease,
                 gitVars, evidenceVars>>

(* authorize_cleanup reads the tip again.                                  *)
Authorize ==
  /\ pc = "c_authorize"
  /\ auth' = [outcome |-> outcome, tip |-> branch]
  /\ pc' = "c_ready"
  /\ UNCHANGED <<outcome, mode, marker, receipt, absence, block, closed, lease,
                 gitVars, evidenceVars>>

MarkReady ==
  /\ pc = "c_ready"
  /\ Advance(READY_FOR_CLEANUP, "c_worktree")
  /\ UNCHANGED <<outcome, mode, receipt, absence, auth, block, closed, lease,
                 gitVars, evidenceVars>>

(* git worktree remove refuses a dirty checkout.                           *)
RemoveWorktree ==
  /\ pc = "c_worktree"
  /\ IF CheckoutClean THEN pc' = "c_wt_mark" /\ worktree' = FALSE
                      ELSE pc' = "idle" /\ worktree' = worktree
  /\ UNCHANGED <<outcome, mode, runVars, branch, dirty, head, landed, evidenceVars>>

MarkWorktreeRemoved ==
  /\ pc = "c_wt_mark"
  /\ Advance(WORKTREE_REMOVED, "c_branch")
  /\ UNCHANGED <<outcome, mode, receipt, absence, auth, block, closed, lease,
                 gitVars, evidenceVars>>

DeleteBranch ==
  /\ pc = "c_branch"
  /\ IF Deletable THEN pc' = "c_br_mark" /\ branch' = None
                  ELSE pc' = "idle" /\ branch' = branch
  /\ UNCHANGED <<outcome, mode, runVars, worktree, dirty, head, landed, evidenceVars>>

MarkBranchRemoved ==
  /\ pc = "c_br_mark"
  /\ Advance(BRANCH_REMOVED, "c_readback")
  /\ UNCHANGED <<outcome, mode, receipt, absence, auth, block, closed, lease,
                 gitVars, evidenceVars>>

(* Both resources are read back; releasing the lease is best effort.       *)
Readback ==
  /\ pc = "c_readback"
  /\ IF branch = None /\ ~worktree
       THEN pc' = "c_pending" /\ lease' \in {FALSE, lease}
       ELSE pc' = "idle" /\ lease' = lease
  /\ UNCHANGED <<outcome, mode, marker, receipt, absence, auth, block, closed,
                 gitVars, evidenceVars>>

MarkReceiptPending ==
  /\ pc = "c_pending"
  /\ Advance(RECEIPT_PENDING, "c_observe")
  /\ UNCHANGED <<outcome, mode, receipt, absence, auth, block, closed, lease,
                 gitVars, evidenceVars>>

(* Mutant: the observation is not persisted.                               *)
ObserveAbsenceUnrecorded ==
  /\ pc = "c_observe"
  /\ pc' = IF worktree THEN "idle" ELSE "c_receipt"
  /\ UNCHANGED <<outcome, mode, runVars, gitVars, evidenceVars>>

ObserveAbsence ==
  /\ pc = "c_observe"
  /\ IF worktree THEN pc' = "idle" /\ absence' = absence
                 ELSE pc' = "c_receipt" /\ absence' = TRUE
  /\ UNCHANGED <<outcome, mode, marker, receipt, auth, block, closed, lease,
                 gitVars, evidenceVars>>

(* write_terminal_receipt replaces two files, first the receipt ...        *)
WriteReceipt ==
  /\ pc = "c_receipt"
  /\ IF /\ marker = RECEIPT_PENDING
        /\ receipt \in {NO_MARKER, TerminalOf(outcome)}
       THEN pc' = "c_complete" /\ receipt' = TerminalOf(outcome)
       ELSE pc' = "idle" /\ receipt' = receipt
  /\ UNCHANGED <<outcome, mode, marker, absence, auth, block, closed, lease,
                 gitVars, evidenceVars>>

(* Mutant: the default state is not replaced for a landed run.             *)
CompleteRecorded ==
  /\ pc = "c_complete"
  /\ marker' = COMPLETED_RECORDED
  /\ pc' = "c_unblock"
  /\ UNCHANGED <<outcome, mode, receipt, absence, auth, block, closed, lease,
                 gitVars, evidenceVars>>

(* ... and then the marker.                                                *)
Complete ==
  /\ pc = "c_complete"
  /\ marker' = TerminalOf(outcome)
  /\ pc' = "c_unblock"
  /\ UNCHANGED <<outcome, mode, receipt, absence, auth, block, closed, lease,
                 gitVars, evidenceVars>>

Unblock ==
  /\ pc = "c_unblock"
  /\ block' = "none"
  /\ pc' = "c_ledger"
  /\ UNCHANGED <<outcome, mode, marker, receipt, absence, auth, closed, lease,
                 gitVars, evidenceVars>>

AppendLedger ==
  /\ pc = "c_ledger"
  /\ closed' = closed + 1
  /\ pc' = "idle"
  /\ UNCHANGED <<outcome, mode, marker, receipt, absence, auth, block, lease,
                 gitVars, evidenceVars>>

-----------------------------------------------------------------------------
(* A script is killed between two durable effects; nothing it wrote is     *)
(* undone, and nothing runs until the coordinator notices.                 *)
Crash ==
  /\ pc \notin {"idle", "killed"}
  /\ pc' = "killed"
  /\ UNCHANGED <<outcome, mode, runVars, gitVars, evidenceVars>>

Notice ==
  /\ pc = "killed"
  /\ pc' = "idle"
  /\ UNCHANGED <<outcome, mode, runVars, gitVars, evidenceVars>>

Finalize ==
  \/ FinalizeBlock \/ FinalizeArtifacts \/ FinalizeRestore \/ FinalizePending
  \/ FinalizeAdvance

Close ==
  \/ CloseoutInit \/ CheckSummary \/ ReplayUnblock \/ ReplayLedger
  \/ ReplayAbsence \/ CheckAuthority \/ Verify \/ Authorize \/ MarkReady
  \/ RemoveWorktree \/ MarkWorktreeRemoved \/ DeleteBranch \/ MarkBranchRemoved
  \/ Readback \/ MarkReceiptPending \/ ObserveAbsence \/ WriteReceipt
  \/ Complete \/ Unblock \/ AppendLedger

Coordinator ==
  \/ Edit \/ CommitFix \/ Integrate \/ CleanupBranch
  \/ WriteBundle \/ ReviewDeletion \/ TrackBundle
  \/ \E f \in Findings : TrackFinding(f)

User == SwitchHead \/ RewindTarget

Next ==
  \/ StartFinalize \/ Finalize
  \/ \E o \in Outcomes : StartCloseout(o)
  \/ Close
  \/ Coordinator \/ User \/ Crash \/ Notice

Spec == Init /\ [][Next]_vars

-----------------------------------------------------------------------------
(* Properties                                                              *)

(* Every variable stays in its range.                                      *)
TypeOK ==
  /\ pc \in Labels /\ outcome \in Outcomes /\ mode \in {"-d", "-D"}
  /\ marker \in Stages /\ receipt \in Terminal \cup {NO_MARKER}
  /\ absence \in BOOLEAN /\ lease \in BOOLEAN
  /\ auth \in [outcome : Outcomes, tip : Tips] \cup {None}
  /\ block \in {"none", "FINALIZING", "PENDING_CLOSEOUT", "INCOMPLETE_CLEANUP", "INCOMPLETE_TRACKER"}
  /\ closed \in Nat
  /\ branch \in Tips \cup {None} /\ worktree \in BOOLEAN /\ dirty \in BOOLEAN
  /\ head \in {"target", "other", "run"} /\ landed \in Tips
  /\ given \in [linked : BOOLEAN, fixed : SUBSET Findings, open : SUBSET Findings, degraded : BOOLEAN]
  /\ summarised \in BOOLEAN
  /\ gated \in Tips \cup {None} /\ bundle \in Tips \cup {None}
  /\ review \in [tip : Tips, sha : Tips] \cup {None}
  /\ tracked \subseteq Findings /\ escrowed \subseteq Tips

(* run-status answers verified_completed only for a run whose branch and   *)
(* worktree are gone and whose removal was authorised for that outcome,    *)
(* whatever crashed in between and whatever was retried with which         *)
(* argument (read_run_status, README "exact branch/worktree absence").     *)
VerifiedIsEarned ==
  Verified => /\ branch = None /\ ~worktree
              /\ auth # None
              /\ marker = TerminalOf(auth.outcome)

(* From the first durable trace of a closeout to its terminal receipt the  *)
(* run has a file under closeout-blocked/, so preflight cuts no new branch *)
(* (tracker-closeout.md: the marker is removed only after both readbacks). *)
BlockedWhileIncomplete ==
  marker \in PENDING_CLOSEOUT .. RECEIPT_PENDING => block # "none"

(* The receipt is last: it exists only over a persisted observation that   *)
(* both resources are absent, and a terminal marker agrees with it.        *)
ReceiptIsLast ==
  /\ receipt # NO_MARKER => absence /\ marker >= RECEIPT_PENDING
  /\ absence => branch = None /\ ~worktree
  /\ marker \in Terminal => receipt = marker

(* However often the tail is replayed, the ledger gets one closeout event. *)
ClosedOnce == closed <= 1

(* closeout.sh never drops a commit: when it deletes the branch, the tip   *)
(* is in the target or the user's HEAD, or in a bundle that the tracker    *)
(* returned and whose deletion was reviewed (README: "unique unlanded work *)
(* needs verified recovery escrow before deletion").                       *)
NoLostWork ==
  [][pc = "c_branch" /\ branch # None /\ branch' = None
       => \/ Contained
          \/ branch <= HeadContains
          \/ /\ bundle = branch /\ bundle \in escrowed
             /\ review = [tip |-> branch, sha |-> bundle]]_vars

(* What a landed closeout deletes is the tip the integration gate passed.  *)
LandedIsGated ==
  [][pc = "c_branch" /\ outcome = "landed" /\ branch # None /\ branch' = None
       => gated = branch]_vars

(* No run loses its resources while an actionable finding is unrecorded.   *)
TrackedBeforeRemoval ==
  [][(pc \in {"c_worktree", "c_branch"} /\ <<branch, worktree>>' # <<branch, worktree>>)
       => ~given.degraded /\ given.open \subseteq tracked]_vars

(* The marker only moves forward, and a terminal one stays (the scripts    *)
(* re-initialise and re-advance it on every retry).                        *)
MarkerMonotone == [][marker' >= marker /\ (marker \in Terminal => marker' = marker)]_vars

(* Once the branch is gone, no retry can complete the run under another    *)
(* outcome than the one on record at the deletion.                         *)
OutcomeIsSettled ==
  [][branch = None /\ auth # None => auth' = auth /\ (marker' \in Terminal => marker' = TerminalOf(auth.outcome))]_vars

(* The run keeps the promise of module CloseoutPromise.                    *)
Promise == INSTANCE CloseoutPromise WITH
  held     <- branch # None \/ worktree,
  decision <- IF auth = None THEN None ELSE auth.outcome,
  verdict  <- IF marker = COMPLETED_LANDED THEN "landed"
              ELSE IF marker = COMPLETED_RECORDED THEN "recorded" ELSE None

KeepsPromise == Promise!Spec

(* The user has taken the tip of a landed run out of the target again.     *)
Rewound == /\ auth # None
           /\ auth.outcome = "landed" /\ auth.tip > landed

(* A closeout that has deleted its branch can always be completed: at      *)
(* whichever write it was killed, a retry with the outcome on record does  *)
(* not stop before the run is verified, unless what it landed was taken    *)
(* back.                                                                   *)
RetryIsOpen ==
  [][Close /\ pc' = "idle" /\ branch = None /\ auth # None /\ outcome = auth.outcome /\ ~Rewound
       => Verified']_vars
=============================================================================
