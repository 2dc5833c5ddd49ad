------------------------------ MODULE Integrate ------------------------------
(***************************************************************************)
(* integrate.sh lands an ordered list of branches on one target.  Each is  *)
(* merged on a detached HEAD, the quality gate runs on the merge commit,   *)
(* and only then is the target ref moved to it by compare-and-swap; the    *)
(* first failure stops the rest.  Meanwhile other writers move the target  *)
(* and the branches, and the script may be killed.                         *)
(*                                                                         *)
(* Branches are numbered in the order of the arguments, and a commit is    *)
(* the set of changes it contains: change <<b, n>> is the n-th commit of   *)
(* branch b, and b = 0 stands for the commits of other writers.  One step  *)
(* is one git command, gate run or file that changes something, with the   *)
(* reads before it.                                                        *)
(***************************************************************************)
EXTENDS Naturals, Sequences

CONSTANTS
  N,             \* number of branches to integrate
  MaxCommits,    \* bound: commits on each branch
  MaxMoves,      \* bound: commits of other writers on the target
  MaxAttempts,   \* bound: invocations of the script
  DeleteMerged,  \* --delete-merged
  None           \* no results published

ASSUME IntegrateAssumption ==
  /\ N \in Nat /\ MaxCommits \in Nat \ {0} /\ MaxMoves \in Nat /\ MaxAttempts \in Nat
  /\ DeleteMerged \in BOOLEAN

VARIABLES
  pc,        \* next step of the script, "idle" when it does not run
  attempt,   \* number of the invocation (ATTEMPT_ID)
  i,         \* index of the branch in hand
  tip,       \* target tip that integrate_one resolved
  source,    \* source_tip of the branch in hand
  code,      \* outcome of integrate_one
  stop,      \* STOP
  rows,      \* RESULT_* arrays
  target,    \* commit of the target ref
  src,       \* number of commits on each branch
  branches,  \* branches that exist
  attached,  \* HEAD is the target branch, else it is detached ...
  commit,    \* ... at this commit
  tree,      \* what index and working tree hold of the commits
  dirt,      \* uncommitted changes besides
  receipts,  \* verified integration-suite receipts
  results    \* integrate-results.json

scriptVars == <<pc, attempt, i, tip, source, code, stop, rows>>
refVars    == <<target, src, branches>>
treeVars   == <<attached, commit, tree, dirt>>
fileVars   == <<receipts, results>>
vars == <<scriptVars, refVars, treeVars, fileVars>>

-----------------------------------------------------------------------------
Branches == 1 .. N
Changes  == (0 .. N) \X (1 .. MaxCommits + MaxMoves)
Commits  == SUBSET Changes
Landing  == {"merged", "already_contained"}
Failures == {"authority_invalid", "conflict", "gate_failed", "gate_dirtied_tree", "update_failed"}
Labels   == {"idle", "top", "resolve", "gate_tip", "check_tip", "reattach", "detach", "merge",
             "gate", "cas", "attach", "record", "delete", "branch_d", "write",
             "publish"}

Content(b, n) == {b} \X (1 .. n)

HeadTip == IF attached THEN target ELSE commit

(* tree_is_clean: index and files equal HEAD, which another writer may     *)
(* have moved if it is the target branch.                                  *)
Clean == ~dirt /\ tree = HeadTip

(* git checkout <target>: brings the tree along if it matches HEAD, and    *)
(* may refuse when it is not clean.                                        *)
CheckoutTarget ==
  /\ \/ attached' = TRUE /\ tree' = IF tree = HeadTip THEN target ELSE tree
     \/ ~Clean /\ UNCHANGED <<attached, tree>>
  /\ UNCHANGED <<commit, dirt>>

Init ==
  /\ pc = "idle" /\ attempt = 0 /\ i = 1 /\ tip = {} /\ source = 0
  /\ code = "merged" /\ stop = FALSE /\ rows = <<>>
  /\ src = [b \in Branches |-> 1] /\ branches = Branches
  /\ \E before \in SUBSET Branches : target = UNION {Content(b, 1) : b \in before}
  /\ attached = TRUE /\ commit = {} /\ tree = target /\ dirt = FALSE
  /\ receipts = {} /\ results = None

-----------------------------------------------------------------------------
(* The preconditions, and the checkout of the target's tip.                *)
Start ==
  /\ pc = "idle" /\ attempt < MaxAttempts
  /\ Clean /\ branches = Branches
  /\ attempt' = attempt + 1 /\ i' = 1 /\ stop' = FALSE /\ rows' = <<>>
  /\ pc' = "top"
  /\ attached' = FALSE /\ commit' = target /\ tree' = target
  /\ UNCHANGED <<tip, source, code, refVars, dirt, fileVars>>

AddRow(c) ==
  /\ rows' = Append(rows, [code |-> c, source |-> source', target |-> target])
  /\ i' = i + 1

(* After a stop the remaining branches are only listed.                    *)
Skip ==
  /\ pc = "top" /\ i <= N /\ stop
  /\ source' = src[i] /\ AddRow("skipped_after_stop")
  /\ UNCHANGED <<pc, attempt, tip, code, stop, refVars, treeVars, fileVars>>

RefuseDirt ==
  /\ pc = "top" /\ i <= N /\ ~stop /\ ~Clean
  /\ CheckoutTarget
  /\ source' = src[i] /\ AddRow("gate_dirtied_tree")
  /\ stop' = TRUE
  /\ UNCHANGED <<pc, attempt, tip, code, refVars, fileVars>>

Take ==
  /\ pc = "top" /\ i <= N /\ ~stop /\ Clean
  /\ source' = src[i]
  /\ pc' = "resolve"
  /\ UNCHANGED <<attempt, i, tip, code, stop, rows, refVars, treeVars, fileVars>>

-----------------------------------------------------------------------------
(* integrate_one                                                           *)

Return(c) == code' = c /\ pc' = "record"

Resolve ==
  /\ pc = "resolve"
  /\ tip' = target
  /\ \/ Return("authority_invalid")
     \/ /\ pc' = IF Content(i, source) \subseteq target THEN "gate_tip" ELSE "detach"
        /\ code' = code
  /\ UNCHANGED <<attempt, i, source, stop, rows, refVars, treeVars, fileVars>>

(* run_quality_gate: it may fail, pass and leave its receipt, and dirty    *)
(* the tree; a dirty tree outweighs the verdict.                           *)
Gate(sha, next) ==
  \E verdict \in {"verified", "failed"}, d \in BOOLEAN :
    /\ dirt' = d
    /\ receipts' = IF verdict = "verified"
                   THEN receipts \cup {[attempt |-> attempt, branch |-> i, sha |-> sha]}
                   ELSE receipts
    /\ IF d \/ tree # HeadTip THEN Return("gate_dirtied_tree")
       ELSE IF verdict = "failed" THEN Return("gate_failed")
       ELSE pc' = next /\ code' = code

(* A branch that the target contains is gated again for its receipt.       *)
GateTip ==
  /\ pc = "gate_tip"
  /\ Gate(tip, "check_tip")
  /\ UNCHANGED <<attempt, i, tip, source, stop, rows, refVars, attached, commit, tree, results>>

CheckTip ==
  /\ pc = "check_tip"
  /\ IF HeadTip = tip /\ target = tip THEN pc' = "reattach" /\ code' = code
                                      ELSE Return("update_failed")
  /\ UNCHANGED <<attempt, i, tip, source, stop, rows, refVars, treeVars, fileVars>>

(* git symbolic-ref: HEAD becomes the target, index and files stay.        *)
Reattach ==
  /\ pc = "reattach"
  /\ attached' = TRUE
  /\ Return("already_contained")
  /\ UNCHANGED <<attempt, i, tip, source, stop, rows, refVars, commit, tree, dirt, fileVars>>

(* A tree that is not clean any more may refuse the checkout or keep its   *)
(* changes.                                                                *)
Detach ==
  /\ pc = "detach"
  /\ \/ /\ pc' = "merge" /\ code' = code
        /\ attached' = FALSE /\ commit' = tip
        /\ tree' = (IF tree = HeadTip THEN tip ELSE tree) /\ dirt' = dirt
     \/ Return("gate_failed") /\ CheckoutTarget
  /\ UNCHANGED <<attempt, i, tip, source, stop, rows, refVars, fileVars>>

Merge ==
  /\ pc = "merge"
  /\ \/ /\ Clean
        /\ pc' = "gate" /\ code' = code
        /\ commit' = tip \cup Content(i, source) /\ tree' = commit'
        /\ UNCHANGED <<attached, dirt>>
     \/ Return("conflict") /\ CheckoutTarget
  /\ UNCHANGED <<attempt, i, tip, source, stop, rows, refVars, fileVars>>

(* Mutant: the branch is gated, not what it is merged into.                *)
GateMergeAlone ==
  /\ pc = "gate"
  /\ Gate(Content(i, source), "cas")
  /\ IF pc' = "cas" THEN UNCHANGED <<attached, tree>>
     ELSE \/ attached' = TRUE /\ tree' = target
          \/ dirt' /\ UNCHANGED <<attached, tree>>
  /\ UNCHANGED <<attempt, i, tip, source, stop, rows, refVars, commit, results>>

GateMerge ==
  /\ pc = "gate"
  /\ Gate(commit, "cas")
  /\ IF pc' = "cas" THEN UNCHANGED <<attached, tree>>
     ELSE \/ attached' = TRUE /\ tree' = target
          \/ dirt' /\ UNCHANGED <<attached, tree>>
  /\ UNCHANGED <<attempt, i, tip, source, stop, rows, refVars, commit, results>>

(* Mutant: update-ref without the old value.                               *)
CasBlind ==
  /\ pc = "cas"
  /\ target' = commit /\ pc' = "attach"
  /\ UNCHANGED <<attempt, i, tip, source, code, stop, rows, src, branches, treeVars, fileVars>>

(* git update-ref <target> <merge> <tip>                                   *)
Cas ==
  /\ pc = "cas"
  /\ IF target = tip
       THEN target' = commit /\ pc' = "attach" /\ code' = code /\ UNCHANGED treeVars
       ELSE target' = target /\ Return("update_failed") /\ CheckoutTarget
  /\ UNCHANGED <<attempt, i, tip, source, stop, rows, src, branches, fileVars>>

Attach ==
  /\ pc = "attach"
  /\ CheckoutTarget
  /\ Return("merged")
  /\ UNCHANGED <<attempt, i, tip, source, stop, rows, refVars, fileVars>>

(* The caller reads the target again for the row.                          *)
Record ==
  /\ pc = "record"
  /\ source' = source /\ AddRow(code)
  /\ stop' = (code \notin Landing)
  /\ pc' = "top"
  /\ UNCHANGED <<attempt, tip, code, refVars, treeVars, fileVars>>

-----------------------------------------------------------------------------
(* The second loop, of --delete-merged, starts from the first branch.      *)
Finish ==
  /\ pc = "top" /\ i > N
  /\ i' = 1
  /\ pc' = IF DeleteMerged THEN "delete" ELSE "write"
  /\ UNCHANGED <<attempt, tip, source, code, stop, rows, refVars, treeVars, fileVars>>

(* A landed branch is deleted if the target contains its ref by now.       *)
CheckContained ==
  /\ pc = "delete"
  /\ IF i > N THEN pc' = "write" /\ i' = i
     ELSE IF rows[i].code \in Landing /\ Content(i, src[i]) \subseteq target
       THEN pc' = "branch_d" /\ i' = i
       ELSE pc' = pc /\ i' = i + 1
  /\ UNCHANGED <<attempt, tip, source, code, stop, rows, refVars, treeVars, fileVars>>

(* Mutant: git branch -D                                                   *)
DeleteForced ==
  /\ pc = "branch_d"
  /\ branches' \in {branches, branches \ {i}}
  /\ i' = i + 1 /\ pc' = "delete"
  /\ UNCHANGED <<attempt, tip, source, code, stop, rows, target, src, treeVars, fileVars>>

(* git branch -d compares the branch with HEAD, wherever HEAD is, and may  *)
(* refuse for other reasons.                                               *)
Delete ==
  /\ pc = "branch_d"
  /\ \/ branches' = branches
     \/ Content(i, src[i]) \subseteq HeadTip /\ branches' = branches \ {i}
  /\ i' = i + 1 /\ pc' = "delete"
  /\ UNCHANGED <<attempt, tip, source, code, stop, rows, target, src, treeVars, fileVars>>

(* Mutant: any receipt of the branch will do.                              *)
BoundAnyTip(b) == rows[b].code \in Landing =>
                    \E r \in receipts : r.attempt = attempt /\ r.branch = b

Bound(b) == rows[b].code \in Landing =>
              [attempt |-> attempt, branch |-> b, sha |-> rows[b].target] \in receipts

(* write_results_json: every passed row needs the receipt of its branch    *)
(* and target tip, else the script dies without results.                   *)
WriteResults ==
  /\ pc = "write"
  /\ pc' = IF \A b \in Branches : Bound(b) THEN "publish" ELSE "idle"
  /\ UNCHANGED <<attempt, i, tip, source, code, stop, rows, refVars, treeVars, fileVars>>

Publish ==
  /\ pc = "publish"
  /\ results' = [attempt |-> attempt, rows |-> rows]
  /\ pc' = "idle"
  /\ UNCHANGED <<attempt, i, tip, source, code, stop, rows, refVars, treeVars, receipts>>

-----------------------------------------------------------------------------
(* Other writers, the user and the kernel.                                 *)

MoveTarget ==
  /\ \E n \in 1 .. MaxMoves :
       /\ <<0, n>> \notin target
       /\ \A m \in 1 .. n - 1 : <<0, m>> \in target
       /\ target' = target \cup {<<0, n>>}
  /\ UNCHANGED <<scriptVars, src, branches, treeVars, fileVars>>

MoveSource(b) ==
  /\ b \in branches /\ src[b] < MaxCommits
  /\ src' = [src EXCEPT ![b] = @ + 1]
  /\ UNCHANGED <<scriptVars, target, branches, treeVars, fileVars>>

(* The user checks out the target and removes what the gate left.          *)
Tidy ==
  /\ pc = "idle"
  /\ attached' = TRUE /\ tree' = target /\ dirt' = FALSE
  /\ UNCHANGED <<scriptVars, refVars, commit, fileVars>>

Kill ==
  /\ pc # "idle"
  /\ pc' = "idle"
  /\ UNCHANGED <<attempt, i, tip, source, code, stop, rows, refVars, treeVars, fileVars>>

IntegrateOne ==
  \/ Resolve \/ GateTip \/ CheckTip \/ Reattach \/ Detach \/ Merge \/ GateMerge
  \/ Cas \/ Attach

Script ==
  \/ Start \/ Skip \/ RefuseDirt \/ Take \/ IntegrateOne \/ Record
  \/ Finish \/ CheckContained \/ Delete \/ WriteResults \/ Publish

Next ==
  \/ Script
  \/ MoveTarget \/ Tidy \/ Kill
  \/ \E b \in Branches : MoveSource(b)

Spec == Init /\ [][Next]_vars

-----------------------------------------------------------------------------
(* Properties                                                              *)

Row == [code : Landing \cup Failures \cup {"skipped_after_stop"},
        source : 0 .. MaxCommits, target : Commits]

(* Every variable stays in its range.                                      *)
TypeOK ==
  /\ pc \in Labels /\ attempt \in 0 .. MaxAttempts /\ i \in 1 .. N + 1
  /\ tip \in Commits /\ source \in 0 .. MaxCommits
  /\ code \in Landing \cup Failures /\ stop \in BOOLEAN /\ rows \in Seq(Row)
  /\ target \in Commits /\ src \in [Branches -> 1 .. MaxCommits]
  /\ branches \subseteq Branches
  /\ attached \in BOOLEAN /\ commit \in Commits /\ tree \in Commits /\ dirt \in BOOLEAN
  /\ receipts \subseteq [attempt : 1 .. MaxAttempts, branch : Branches, sha : Commits]
  /\ results = None \/ results \in [attempt : 1 .. MaxAttempts, rows : Seq(Row)]

(* The target only gains commits, whoever else moves it while the gate     *)
(* runs ("the target branch ref only ever moves FORWARD").                 *)
OnlyForward == [][target \subseteq target']_vars

(* What the script lands is a tree whose gate passed in this attempt,      *)
(* exactly as it was gated ("onto a commit that already PASSED").          *)
LandsGated ==
  [][pc # "idle" /\ (\E c \in target' \ target : c[1] # 0)
       => [attempt |-> attempt, branch |-> i, sha |-> target'] \in receipts]_vars

(* A published result that says landed can be checked: the target still    *)
(* contains the source tip, and a receipt names branch and target tip.     *)
ResultsHold ==
  results # None => \A b \in Branches :
    LET r == results.rows[b] IN
    r.code \in Landing =>
      /\ Content(b, r.source) \subseteq r.target
      /\ r.target \subseteq target
      /\ [attempt |-> results.attempt, branch |-> b, sha |-> r.target] \in receipts

(* --delete-merged deletes no commit that the target lacks, although the   *)
(* branch may move after it was merged and after it was checked, and HEAD  *)
(* may be detached at a merge that never landed.                           *)
DeletesContained ==
  [][\A b \in branches \ branches' : Content(b, src[b]) \subseteq target]_vars

(* Behind the first failure every branch is only listed, so the caller can *)
(* reorder the rest ("preserves that branch and every remaining branch").  *)
StopsAtFirst ==
  \A j, k \in DOMAIN rows :
    j < k /\ rows[j].code \notin Landing => rows[k].code = "skipped_after_stop"
=============================================================================
