-------------------------- MODULE IntegrateProofs ---------------------------
(***************************************************************************)
(* The safety of integrate.sh for any number of branches, commits, moves   *)
(* of the target and invocations.                                          *)
(***************************************************************************)
EXTENDS Integrate, TLAPS

InHand == {"resolve", "gate_tip", "check_tip", "reattach", "detach", "merge",
           "gate", "cas", "attach", "record"}

(* The index, the stop flag and the rows go together.                      *)
Counting ==
  /\ pc # "idle" => attempt >= 1
  /\ pc \in InHand => i <= N /\ ~stop
  /\ pc \in InHand \cup {"top"} => Len(rows) = i - 1
  /\ pc \in {"delete", "branch_d", "write", "publish"} => Len(rows) = N
  /\ pc = "branch_d" => i <= N

Receipt(a, b, sha) == [attempt |-> a, branch |-> b, sha |-> sha] \in receipts

(* What each stage of integrate_one has established about tip and merge.   *)
Merging ==
  /\ pc \in {"gate_tip", "check_tip", "reattach"} => Content(i, source) \subseteq tip
  /\ pc \in InHand \ {"resolve"} => tip \subseteq target
  /\ pc \in {"gate", "cas"} => tip \subseteq commit /\ Content(i, source) \subseteq commit
  /\ pc = "cas" => Receipt(attempt, i, commit)
  /\ pc = "attach" \/ (pc = "record" /\ code \in Landing) => Content(i, source) \subseteq target

RowsHold ==
  \A j \in DOMAIN rows : rows[j].code \in Landing =>
    Content(j, rows[j].source) \subseteq rows[j].target /\ rows[j].target \subseteq target

(* HEAD's commit is on the target, or a merge of the branch that failed.   *)
HeadIsNear ==
  /\ pc \in {"resolve", "gate_tip", "check_tip", "reattach", "detach", "merge", "attach"}
     \/ (pc = "record" /\ code \in Landing) => commit \subseteq target
  /\ pc \in {"gate", "cas", "record"} => commit \subseteq target \cup Content(i, MaxCommits)
  /\ pc \in {"top", "delete", "branch_d", "write", "publish"} =>
       \/ commit \subseteq target
       \/ \E j \in DOMAIN rows : /\ rows[j].code \notin Landing
                                 /\ commit \subseteq target \cup Content(j, MaxCommits)
  /\ pc = "branch_d" => rows[i].code \in Landing

(* While the loop goes on, every branch so far has landed.                 *)
StopKnows == ~stop => \A j \in DOMAIN rows : rows[j].code \in Landing

(* The results of a run that is about to publish can be checked.           *)
Checked == pc = "publish" => \A b \in Branches : Bound(b)

IInv == TypeOK /\ Counting /\ Merging /\ HeadIsNear /\ RowsHold /\ StopKnows /\ StopsAtFirst
        /\ Checked /\ ResultsHold

-----------------------------------------------------------------------------
LEMMA ContentIsCommit ==
  \A b \in Branches, n \in 0 .. MaxCommits : Content(b, n) \in Commits
BY IntegrateAssumption DEF Content, Commits, Changes, Branches

LEMMA InitInv == Init => IInv
<1> SUFFICES ASSUME Init PROVE IInv
  OBVIOUS
<1> USE IntegrateAssumption
<1>1. pc = "idle" /\ rows = <<>> /\ results = None /\ i = 1 /\ attempt = 0 /\ source = 0
  BY DEF Init
<1>2. target \in Commits
  <2> PICK before \in SUBSET Branches : target = UNION {Content(b, 1) : b \in before}
    BY DEF Init
  <2> QED
    BY ContentIsCommit DEF Commits
<1>3. attached \in BOOLEAN /\ stop \in BOOLEAN /\ dirt \in BOOLEAN
  BY Zenon DEF Init
<1>4. TypeOK
  BY <1>1, <1>2, <1>3 DEF Init, TypeOK, Labels, Landing, Failures, Commits, Branches
<1> QED
  BY <1>1, <1>4 DEF IInv, Counting, Merging, HeadIsNear, RowsHold, StopKnows, StopsAtFirst, Checked, ResultsHold,
     InHand

-----------------------------------------------------------------------------
(* The target moves by Cas, onto what was built from it, and by others.    *)
LEMMA TargetGrows == IInv /\ [Next]_vars => target \subseteq target'
<1> SUFFICES ASSUME IInv, [Next]_vars PROVE target \subseteq target'
  OBVIOUS
<1>1. CASE Cas
  BY <1>1 DEF Cas, IInv, Merging
<1>2. CASE MoveTarget
  BY <1>2 DEF MoveTarget
<1>3. CASE UNCHANGED target
  BY <1>3
<1> QED
  BY <1>1, <1>2, <1>3 DEF Next, Script, IntegrateOne, vars, refVars, Start, Skip, RefuseDirt, Take,
     Resolve, GateTip, CheckTip, Reattach, Detach, Merge, GateMerge, Attach, Record, Finish, CheckContained, Delete,
     WriteResults, Publish, Tidy, Kill, MoveSource

LEMMA TypePreserved == TypeOK /\ Counting /\ [Next]_vars => TypeOK'
<1> SUFFICES ASSUME TypeOK, Counting, [Next]_vars PROVE TypeOK'
  OBVIOUS
<1> USE IntegrateAssumption
<1> USE DEF TypeOK, Labels, Landing, Failures, scriptVars, refVars, treeVars, fileVars
<1>1. CASE Start
  <2>1. rows' \in Seq(Row) /\ attempt' \in 0 .. MaxAttempts /\ i' \in 1 .. N + 1
    BY <1>1 DEF Start
  <2>2. attached' \in BOOLEAN /\ stop' \in BOOLEAN /\ dirt' \in BOOLEAN
    BY <1>1 DEF Start
  <2> QED
    BY <2>1, <2>2, <1>1 DEF Start
<1>2. ASSUME NEW c \in Landing \cup Failures \cup {"skipped_after_stop"}, AddRow(c), source' \in 0 .. MaxCommits,
             i <= N
      PROVE  rows' \in Seq(Row) /\ i' \in 1 .. N + 1
  BY <1>2 DEF AddRow, Row
<1>3. CASE Skip
  BY <1>2, <1>3 DEF Skip, Branches
<1>16. CASE RefuseDirt
  <2>1. attached' \in BOOLEAN /\ tree' \in Commits
    BY <1>16 DEF RefuseDirt, CheckoutTarget
  <2> QED
    BY <2>1, <1>2, <1>16 DEF RefuseDirt, CheckoutTarget, Branches
<1>17. CASE Take
  BY <1>17 DEF Take, Branches
<1>4. CASE Resolve \/ CheckTip \/ Reattach
  BY <1>4 DEF Resolve, CheckTip, Reattach, Return
<1>5. ASSUME NEW sha \in Commits, NEW next \in Labels, Gate(sha, next), pc \in InHand
      PROVE  dirt' \in BOOLEAN /\ pc' \in Labels /\ code' \in Landing \cup Failures
             /\ receipts' \subseteq [attempt : 1 .. MaxAttempts, branch : Branches, sha : Commits]
  BY <1>5 DEF Gate, Return, Counting, InHand, Branches
<1>6. CASE GateTip
  BY <1>5, <1>6 DEF GateTip, InHand
<1>7. CASE GateMerge
  <2>1. attached' \in BOOLEAN /\ tree' \in Commits
    BY <1>7 DEF GateMerge
  <2> QED
    BY <2>1, <1>5, <1>7 DEF GateMerge, InHand
<1>8. CASE Detach
  BY <1>8 DEF Detach, Return, CheckoutTarget
<1>9. CASE Merge
  <2>1. Content(i, source) \in Commits
    BY <1>9, ContentIsCommit DEF Merge, Counting, InHand, Branches
  <2>2. tip \cup Content(i, source) \in Commits
    BY <2>1 DEF Commits
  <2> QED
    BY <2>2, <1>9 DEF Merge, Return, CheckoutTarget
<1>10. CASE Cas \/ Attach
  BY <1>10 DEF Cas, Attach, Return, CheckoutTarget
<1>11. CASE Record
  BY <1>2, <1>11 DEF Record, Counting, InHand
<1>12. CASE Finish \/ CheckContained \/ Delete \/ WriteResults \/ Publish
  BY <1>12 DEF Finish, CheckContained, Delete, WriteResults, Publish, Counting
<1>13. CASE MoveTarget
  <2>1. ASSUME NEW n \in 1 .. MaxMoves PROVE <<0, n>> \in Changes
    BY DEF Changes
  <2> QED
    BY <2>1, <1>13 DEF MoveTarget, Commits
<1>14. CASE Tidy \/ Kill \/ \E b \in Branches : MoveSource(b)
  <2>1. CASE Tidy
    BY <2>1 DEF Tidy
  <2>2. CASE Kill
    BY <2>2 DEF Kill
  <2>3. CASE \E b \in Branches : MoveSource(b)
    <3>1. src' \in [Branches -> 1 .. MaxCommits]
      BY <2>3 DEF MoveSource
    <3> QED
      BY <3>1, <2>3 DEF MoveSource
  <2> QED
    BY <1>14, <2>1, <2>2, <2>3
<1>15. CASE UNCHANGED vars
  BY <1>15 DEF vars
<1> QED
  BY <1>1, <1>3, <1>4, <1>6, <1>7, <1>8, <1>9, <1>10, <1>11, <1>12, <1>13, <1>14, <1>15, <1>16, <1>17
     DEF Next, Script, IntegrateOne

LEMMA CountingPreserved == TypeOK /\ Counting /\ [Next]_vars => Counting'
<1> SUFFICES ASSUME TypeOK, Counting, [Next]_vars PROVE Counting'
  OBVIOUS
<1> USE IntegrateAssumption DEF Counting, InHand, TypeOK, Labels, Return
<1>1. CASE Start
  BY <1>1 DEF Start
<1>2. CASE Skip \/ RefuseDirt \/ Record
  BY <1>2 DEF Skip, RefuseDirt, Record, AddRow
<1>3. CASE Take \/ Resolve \/ CheckTip \/ Reattach \/ Detach \/ Merge \/ Cas \/ Attach
  BY <1>3 DEF Take, Resolve, CheckTip, Reattach, Detach, Merge, Cas, Attach
<1>4. CASE GateTip \/ GateMerge
  BY <1>4 DEF GateTip, GateMerge, Gate
<1>5. CASE Finish \/ CheckContained \/ Delete \/ WriteResults \/ Publish
  BY <1>5 DEF Finish, CheckContained, Delete, WriteResults, Publish
<1>6. CASE UNCHANGED scriptVars \/ Kill
  BY <1>6 DEF Kill, scriptVars
<1> QED
  BY <1>1, <1>2, <1>3, <1>4, <1>5, <1>6
     DEF Next, Script, IntegrateOne, vars, MoveTarget, MoveSource, Tidy

LEMMA MergingPreserved == IInv /\ [Next]_vars => Merging'
<1> SUFFICES ASSUME IInv, [Next]_vars PROVE Merging'
  OBVIOUS
<1> USE TargetGrows DEF IInv, Merging, Receipt, InHand, Return, Landing, Failures, scriptVars, treeVars, refVars
<1>1. CASE Start \/ Skip \/ RefuseDirt \/ Take \/ Record
  BY <1>1 DEF Start, Skip, RefuseDirt, Take, Record
<1>2. CASE Resolve
  BY <1>2 DEF Resolve
<1>3. CASE CheckTip \/ Reattach
  BY <1>3 DEF CheckTip, Reattach
<1>4. CASE Detach
  BY <1>4 DEF Detach
<1>5. CASE Merge
  BY <1>5 DEF Merge
<1>6. CASE GateTip
  BY <1>6 DEF GateTip, Gate
<1>7. CASE GateMerge
  BY <1>7 DEF GateMerge, Gate
<1>8. CASE Cas
  BY <1>8 DEF Cas
<1>9. CASE Attach
  BY <1>9 DEF Attach
<1>10. CASE Finish \/ CheckContained \/ Delete \/ WriteResults \/ Publish \/ Kill
  BY <1>10 DEF Finish, CheckContained, Delete, WriteResults, Publish, Kill
<1>11. CASE UNCHANGED <<scriptVars, commit, receipts>>
  BY <1>11
<1> QED
  BY <1>1, <1>2, <1>3, <1>4, <1>5, <1>6, <1>7, <1>8, <1>9, <1>10, <1>11
     DEF Next, Script, IntegrateOne, vars, fileVars, MoveTarget, MoveSource, Tidy

LEMMA ContentOfTwo ==
  ASSUME NEW b \in Branches, NEW c \in Branches, NEW n \in Nat, NEW k \in Nat
  PROVE  /\ n <= k => Content(b, n) \subseteq Content(b, k)
         /\ b # c => Content(b, n) \cap Content(c, k) = {}
BY DEF Content

LEMMA HeadPreserved == IInv /\ [Next]_vars => HeadIsNear'
<1> SUFFICES ASSUME IInv, [Next]_vars PROVE HeadIsNear'
  OBVIOUS
<1> USE TargetGrows DEF IInv, HeadIsNear, Return, Landing, Failures, scriptVars, treeVars, refVars, fileVars
<1>1. CASE Start
  BY <1>1 DEF Start
<1>2. ASSUME NEW c, AddRow(c), commit' = commit, target' = target, pc \in {"top", "record"},
             c \notin Landing \/ commit \subseteq target, pc = "record" => code = c,
             pc' = "top"
      PROVE  HeadIsNear'
  <2>1. rows \in Seq(Row) /\ Len(rows) = i - 1 /\ i \in Nat
    BY <1>2, IntegrateAssumption DEF Counting, TypeOK, InHand
  <2>2. rows' = Append(rows, [code |-> c, source |-> source', target |-> target])
    BY <1>2 DEF AddRow
  <2>3. DOMAIN rows' = DOMAIN rows \cup {i} /\ DOMAIN rows = 1 .. i - 1
    BY <2>1, <2>2
  <2>4. \A j \in DOMAIN rows : rows'[j] = rows[j]
    BY <2>1, <2>2
  <2>5. rows'[i].code = c
    BY <2>1, <2>2, <2>3
  <2>6. \/ commit \subseteq target
        \/ c \notin Landing /\ commit \subseteq target \cup Content(i, MaxCommits)
        \/ \E j \in DOMAIN rows : /\ rows[j].code \notin Landing
                                  /\ commit \subseteq target \cup Content(j, MaxCommits)
    BY <1>2
  <2> QED
    BY <2>3, <2>4, <2>5, <2>6, <1>2
<1>3. CASE Skip \/ RefuseDirt
  <2>1. PICK c \in {"skipped_after_stop", "gate_dirtied_tree"} : AddRow(c)
    BY <1>3 DEF Skip, RefuseDirt
  <2> QED
    BY <1>2, <1>3, <2>1 DEF Skip, RefuseDirt, CheckoutTarget
<1>4. CASE Record
  BY <1>2, <1>4 DEF Record
<1>5. CASE Take
  BY <1>5 DEF Take, StopKnows
<1>6. CASE Resolve \/ CheckTip \/ Reattach
  BY <1>6 DEF Resolve, CheckTip, Reattach
<1>7. CASE Detach
  BY <1>7 DEF Detach, CheckoutTarget, Merging, InHand
<1>8. CASE Merge
  <2>1. Content(i, source) \subseteq Content(i, MaxCommits)
    BY <1>8, ContentOfTwo, IntegrateAssumption DEF Merge, Counting, InHand, TypeOK, Branches
  <2> QED
    BY <2>1, <1>8 DEF Merge, CheckoutTarget, Merging, InHand
<1>9. CASE GateTip
  BY <1>9 DEF GateTip, Gate
<1>10. CASE GateMerge
  BY <1>10 DEF GateMerge, Gate
<1>11. CASE Cas
  BY <1>11 DEF Cas, CheckoutTarget
<1>12. CASE Attach
  BY <1>12 DEF Attach, CheckoutTarget
<1>13. CASE Finish \/ CheckContained \/ Delete \/ WriteResults \/ Publish \/ Kill
  BY <1>13 DEF Finish, CheckContained, Delete, WriteResults, Publish, Kill
<1>14. CASE UNCHANGED <<scriptVars, commit>>
  BY <1>14
<1> QED
  BY <1>1, <1>3, <1>4, <1>5, <1>6, <1>7, <1>8, <1>9, <1>10, <1>11, <1>12, <1>13, <1>14
     DEF Next, Script, IntegrateOne, vars, MoveTarget, MoveSource, Tidy

(* A row is added by the loop, in three places, and the rows are dropped   *)
(* by the next invocation.                                                 *)
LEMMA RowsPreserved == IInv /\ [Next]_vars => RowsHold' /\ StopKnows' /\ StopsAtFirst'
<1> SUFFICES ASSUME IInv, [Next]_vars PROVE RowsHold' /\ StopKnows' /\ StopsAtFirst'
  OBVIOUS
<1> USE TargetGrows DEF IInv, RowsHold, StopKnows, StopsAtFirst
<1>1. CASE Start
  BY <1>1 DEF Start
<1>2. ASSUME NEW c \in {"skipped_after_stop"} \cup Failures \cup Landing, AddRow(c),
             pc \in InHand \cup {"top"}, target' = target,
             c \in Landing => pc = "record" /\ code = c /\ source' = source,
             stop => c = "skipped_after_stop",
             ~stop' => ~stop /\ c \in Landing
      PROVE  RowsHold' /\ StopKnows' /\ StopsAtFirst'
  <2>1. rows \in Seq(Row) /\ Len(rows) = i - 1
    BY <1>2 DEF Counting, TypeOK
  <2>2. rows' = Append(rows, [code |-> c, source |-> source', target |-> target])
    BY <1>2 DEF AddRow
  <2>3. DOMAIN rows' = DOMAIN rows \cup {i} /\ DOMAIN rows = 1 .. i - 1 /\ i \in Nat
    BY <2>1, <2>2, IntegrateAssumption DEF TypeOK
  <2>4. \A j \in DOMAIN rows : rows'[j] = rows[j]
    BY <2>1, <2>2
  <2>5. rows'[i] = [code |-> c, source |-> source', target |-> target]
    BY <2>1, <2>2, <2>3
  <2>6. RowsHold'
    BY <2>3, <2>4, <2>5, <1>2 DEF Merging
  <2>7. StopKnows'
    BY <2>3, <2>4, <2>5, <1>2
  <2>8. StopsAtFirst'
    BY <2>3, <2>4, <2>5, <1>2
  <2> QED
    BY <2>6, <2>7, <2>8
<1>3. CASE Skip \/ RefuseDirt
  BY <1>2, <1>3 DEF Skip, RefuseDirt, Landing, Failures, InHand, refVars
<1>4. CASE Record
  BY <1>2, <1>4 DEF Record, Counting, Landing, Failures, InHand, refVars, TypeOK
<1>5. CASE UNCHANGED <<stop, rows>>
  BY <1>5
<1> QED
  BY <1>1, <1>3, <1>4, <1>5
     DEF Next, Script, IntegrateOne, vars, scriptVars, Take, Resolve, GateTip, CheckTip, Reattach,
         Detach, Merge, GateMerge, Cas, Attach, Finish, CheckContained, Delete, WriteResults, Publish, MoveTarget,
         MoveSource, Tidy, Kill

LEMMA ReceiptsGrow == [Next]_vars => receipts \subseteq receipts'
BY DEF Next, Script, IntegrateOne, vars, scriptVars, fileVars, Gate, Start, Skip, RefuseDirt, Take,
       Resolve, GateTip, CheckTip, Reattach, Detach, Merge, GateMerge, Cas, Attach, Record, Finish,
       CheckContained, Delete, WriteResults, Publish, MoveTarget, MoveSource, Tidy, Kill

LEMMA ResultsPreserved == IInv /\ [Next]_vars => Checked' /\ ResultsHold'
<1> SUFFICES ASSUME IInv, [Next]_vars PROVE Checked' /\ ResultsHold'
  OBVIOUS
<1> USE ReceiptsGrow, TargetGrows DEF IInv
<1>1. CASE WriteResults
  BY <1>1 DEF WriteResults, Checked, Bound, ResultsHold, refVars, fileVars
<1>2. CASE Publish
  <2>1. DOMAIN rows = Branches
    BY <1>2, IntegrateAssumption DEF Publish, Counting, TypeOK, Branches
  <2> QED
    BY <2>1, <1>2 DEF Publish, Checked, Bound, RowsHold, ResultsHold, refVars
<1>3. CASE UNCHANGED results /\ pc' # "publish"
  BY <1>3 DEF Checked, ResultsHold
<1>4. CASE UNCHANGED <<results, pc, attempt, rows>>
  BY <1>4 DEF Checked, Bound, ResultsHold
<1>5. CASE GateTip \/ GateMerge
  BY <1>3, <1>5 DEF GateTip, GateMerge, Gate, Return
<1> QED
  BY <1>1, <1>2, <1>3, <1>4, <1>5
     DEF Next, Script, IntegrateOne, vars, scriptVars, fileVars, Return, Start, Skip, RefuseDirt, Take,
         Resolve, CheckTip, Reattach, Detach, Merge, Cas, Attach, Record, Finish,
         CheckContained, Delete, MoveTarget, MoveSource, Tidy, Kill

LEMMA Inductive == Spec => []IInv
<1>1. IInv /\ [Next]_vars => IInv'
  BY TypePreserved, CountingPreserved, MergingPreserved, HeadPreserved, RowsPreserved, ResultsPreserved DEF IInv
<1> QED
  BY <1>1, InitInv, PTL DEF Spec

-----------------------------------------------------------------------------
(* Every variable stays in its range.                                      *)
THEOREM TypeCorrect == Spec => []TypeOK
<1>1. IInv => TypeOK
  BY DEF IInv
<1> QED
  BY <1>1, Inductive, PTL

(* The target only gains commits, for any interleaving with its writers.   *)
THEOREM Forward == Spec => OnlyForward
<1>1. IInv /\ [Next]_vars => [target \subseteq target']_vars
  BY TargetGrows
<1> QED
  BY <1>1, Inductive, PTL DEF Spec, OnlyForward

(* What the script lands passed the gate in this attempt, as it is.        *)
THEOREM Gated == Spec => LandsGated
<1> DEFINE Landed == pc # "idle" /\ (\E c \in target' \ target : c[1] # 0)
           HasReceipt == [attempt |-> attempt, branch |-> i, sha |-> target'] \in receipts
<1>1. ASSUME IInv, Next, Landed PROVE HasReceipt
  <2>1. CASE Cas
    BY <1>1, <2>1 DEF Cas, IInv, Merging, Receipt
  <2>2. ~MoveTarget
    BY <1>1 DEF MoveTarget
  <2>3. CASE UNCHANGED target
    BY <1>1, <2>3
  <2> QED
    BY <1>1, <2>1, <2>2, <2>3 DEF Next, Script, IntegrateOne, refVars, Start, Skip, RefuseDirt, Take,
       Resolve, GateTip, CheckTip, Reattach, Detach, Merge, GateMerge, Attach, Record, Finish, CheckContained, Delete,
       WriteResults, Publish, Tidy, Kill, MoveSource
<1>2. IInv /\ [Next]_vars => [Landed => HasReceipt]_vars
  BY <1>1
<1> QED
  BY <1>2, Inductive, PTL DEF Spec, LandsGated

(* A published landing can be checked against the target and a receipt.    *)
THEOREM ResultsSound == Spec => []ResultsHold
<1>1. IInv => ResultsHold
  BY DEF IInv
<1> QED
  BY <1>1, Inductive, PTL

(* Behind the first failure every branch is only listed.                   *)
THEOREM StopSound == Spec => []StopsAtFirst
<1>1. IInv => StopsAtFirst
  BY DEF IInv
<1> QED
  BY <1>1, Inductive, PTL

(* --delete-merged deletes no commit that the target lacks: what HEAD may  *)
(* hold besides the target is of a branch that did not land.               *)
THEOREM DeleteSound == Spec => DeletesContained
<1> DEFINE Kept == \A b \in branches \ branches' : Content(b, src[b]) \subseteq target
<1>1. ASSUME IInv, Next PROVE Kept
  <2>1. CASE UNCHANGED branches
    BY <2>1
  <2>2. CASE Delete
    <3> SUFFICES ASSUME i \in branches \ branches' PROVE Content(i, src[i]) \subseteq target
      BY <2>2 DEF Delete
    <3>1. Content(i, src[i]) \subseteq HeadTip
      BY <2>2 DEF Delete
    <3>2. i \in Branches /\ src[i] \in Nat /\ MaxCommits \in Nat
      BY <1>1, IntegrateAssumption DEF IInv, TypeOK
    <3>3. \A j \in DOMAIN rows : rows[j].code \notin Landing =>
            Content(i, src[i]) \cap Content(j, MaxCommits) = {}
      <4>1. DOMAIN rows = Branches
        BY <1>1, <2>2, IntegrateAssumption DEF IInv, Counting, TypeOK, Delete, Branches
      <4> QED
        BY <4>1, <3>2, <1>1, <2>2, ContentOfTwo DEF IInv, HeadIsNear, Delete
    <3> QED
      BY <1>1, <2>2, <3>1, <3>3 DEF IInv, HeadIsNear, HeadTip, Delete
  <2> QED
    BY <1>1, <2>1, <2>2 DEF Next, Script, IntegrateOne, refVars, Start, Skip, RefuseDirt, Take,
       Resolve, GateTip, CheckTip, Reattach, Detach, Merge, GateMerge, Cas, Attach, Record, Finish,
       CheckContained, WriteResults, Publish, Tidy, Kill, MoveSource, MoveTarget
<1>2. IInv /\ [Next]_vars => [Kept]_vars
  BY <1>1
<1> QED
  BY <1>2, Inductive, PTL DEF Spec, DeletesContained
=============================================================================
