--------------------------- MODULE CloseoutProofs ---------------------------
(***************************************************************************)
(* Proofs about module Closeout, for every value of its constants: any     *)
(* number of commits and findings, with or without a linked worktree, and  *)
(* with kills at every step as often as one likes.                         *)
(*                                                                         *)
(* What run-status reports follows from facts about the files alone        *)
(* (Durable); that the scripts keep those facts needs to know, at each     *)
(* step, what the earlier steps of the same script established (Control).  *)
(***************************************************************************)
EXTENDS Closeout, TLAPS

(* The steps after which both resources have been seen to be absent.       *)
Tail == {"c_authority", "c_readback", "c_pending", "c_observe", "c_receipt",
         "c_complete", "c_unblock", "c_ledger"}

(* What holds between two steps of a running script.                       *)
Control ==
  /\ pc \notin {"idle", "killed", "f_block", "c_ledger", "r_ledger"} => block # "none"
  /\ pc \in {"c_verify", "c_authorize", "c_ready", "c_worktree", "c_wt_mark", "c_branch"}
       => branch # None
  /\ pc \in Tail \cup {"c_br_mark", "c_absent"} => branch = None
  /\ pc \in Tail \cup {"c_wt_mark", "c_branch", "c_br_mark"} => ~worktree
  /\ pc \in (Tail \ {"c_authority"}) \cup
            {"c_ready", "c_worktree", "c_wt_mark", "c_branch", "c_br_mark"}
       => auth # None /\ auth.outcome = outcome
  /\ pc \in {"c_observe", "c_receipt", "c_complete"} => marker = RECEIPT_PENDING
  /\ pc \in {"c_receipt", "c_complete"} => absence
  /\ pc = "c_complete" => receipt = TerminalOf(outcome)
  /\ pc \in {"c_unblock", "c_ledger", "r_unblock", "r_ledger"} => marker \in Terminal
  /\ pc \in {"c_unblock", "c_ledger"} => closed = 0

(* What holds of the files and refs whether or not a script runs.          *)
Durable ==
  /\ marker >= WORKTREE_REMOVED => ~worktree
  /\ marker >= BRANCH_REMOVED => branch = None
  /\ absence => branch = None /\ ~worktree
  /\ receipt # NO_MARKER => /\ absence
                            /\ marker >= RECEIPT_PENDING
                            /\ auth # None
                            /\ receipt = TerminalOf(auth.outcome)
  /\ marker \in Terminal => receipt = marker
  /\ closed <= 1
  /\ closed # 0 => marker \in Terminal
  /\ marker \in PENDING_CLOSEOUT .. RECEIPT_PENDING => block # "none"

IInv == TypeOK /\ Control /\ Durable

USE DEF NO_MARKER, PENDING_FINALIZATION, PENDING_CLOSEOUT, READY_FOR_CLEANUP,
        WORKTREE_REMOVED, BRANCH_REMOVED, RECEIPT_PENDING, COMPLETED_LANDED,
        COMPLETED_RECORDED, Stages, Terminal, Outcomes, Tips, Labels, TerminalOf,
        Larger

LEMMA InitInv == Init => IInv
<1> SUFFICES ASSUME Init PROVE IInv
  OBVIOUS
<1> USE CloseoutAssumption DEF Init
<1>1. TypeOK
  <2>1. given \in [linked : BOOLEAN, fixed : SUBSET Findings, open : SUBSET Findings, degraded : BOOLEAN]
    OBVIOUS
  <2>2. worktree \in BOOLEAN /\ head \in {"target", "run"}
    OBVIOUS
  <2>3. landed \in Tips /\ branch \in Tips /\ receipt = NO_MARKER /\ closed \in Nat
    OBVIOUS
  <2>4. auth = None /\ gated = None /\ bundle = None /\ review = None
    OBVIOUS
  <2>5. tracked \subseteq Findings /\ escrowed \subseteq Tips
    OBVIOUS
  <2>6. /\ pc = "idle" /\ outcome = "recorded" /\ mode = "-d" /\ marker = NO_MARKER
        /\ block = "none"
    OBVIOUS
  <2>7. /\ absence \in BOOLEAN /\ lease \in BOOLEAN
        /\ dirty \in BOOLEAN /\ summarised \in BOOLEAN
    BY Zenon
  <2> HIDE DEF Init
  <2> QED
    BY <2>1, <2>2, <2>3, <2>4, <2>5, <2>6, <2>7 DEF TypeOK
<1>2. Control /\ Durable
  BY DEF Control, Durable, Tail
<1> QED
  BY <1>1, <1>2 DEF IInv

LEMMA TypePreserved == TypeOK /\ Control /\ [Next]_vars => TypeOK'
<1> SUFFICES ASSUME TypeOK, Control, [Next]_vars PROVE TypeOK'
  OBVIOUS
<1> USE CloseoutAssumption DEF TypeOK, Control, Tail, vars, scriptVars, runVars, gitVars, evidenceVars
<1>1. CASE Edit
  BY <1>1 DEF Edit, WriterMayAct
<1>2. CASE CommitFix
  <2>1. branch \in Nat /\ branch' = branch + 1 /\ branch < MaxTip /\ dirty' = FALSE
    BY <1>2 DEF CommitFix, WriterMayAct
  <2>2. UNCHANGED <<scriptVars, runVars, evidenceVars, worktree, head, landed>>
    BY <1>2 DEF CommitFix
  <2>3. branch' \in Tips
    BY <2>1
  <2>4. dirty' \in BOOLEAN
    BY <2>1, Zenon
  <2> QED
    BY <2>2, <2>3, <2>4
<1>3. CASE Integrate
  BY <1>3 DEF Integrate
<1>4. CASE CleanupBranch
  <2>1. /\ branch' \in Tips \cup {None} /\ worktree' \in BOOLEAN
        /\ landed' \in Tips /\ head' = "target"
    BY <1>4 DEF CleanupBranch
  <2>2. UNCHANGED <<scriptVars, runVars, evidenceVars, dirty>>
    BY <1>4 DEF CleanupBranch
  <2> QED
    BY <2>1, <2>2
<1>5. CASE WriteBundle
  BY <1>5 DEF WriteBundle
<1>6. CASE ReviewDeletion
  BY <1>6 DEF ReviewDeletion
<1>7. CASE TrackBundle
  <2>1. escrowed' \subseteq Tips
    BY <1>7 DEF TrackBundle
  <2>2. UNCHANGED <<scriptVars, runVars, gitVars,
                    given, summarised, gated, bundle, review, tracked>>
    BY <1>7 DEF TrackBundle
  <2> QED
    BY <2>1, <2>2
<1>8. CASE SwitchHead
  BY <1>8 DEF SwitchHead
<1>9. CASE RewindTarget
  BY <1>9 DEF RewindTarget
<1>10. CASE StartFinalize
  BY <1>10 DEF StartFinalize
<1>11. CASE FinalizeBlock
  BY <1>11 DEF FinalizeBlock
<1>12. CASE FinalizeArtifacts
  BY <1>12 DEF FinalizeArtifacts
<1>13. CASE FinalizeRestore
  BY <1>13 DEF FinalizeRestore
<1>14. CASE FinalizePending
  BY <1>14 DEF FinalizePending
<1>15. CASE FinalizeAdvance
  BY <1>15 DEF FinalizeAdvance, Advance, CanAdvance
<1>16. CASE CloseoutInit
  BY <1>16 DEF CloseoutInit
<1>17. CASE CheckSummary
  BY <1>17 DEF CheckSummary, Reconciled
<1>18. CASE ReplayUnblock
  BY <1>18 DEF ReplayUnblock
<1>19. CASE ReplayLedger
  BY <1>19 DEF ReplayLedger
<1>20. CASE ReplayAbsence
  BY <1>20 DEF ReplayAbsence
<1>21. CASE CheckAuthority
  BY <1>21 DEF CheckAuthority
<1>22. CASE Verify
  BY <1>22 DEF Verify, CheckoutClean
<1>23. CASE Authorize
  BY <1>23 DEF Authorize
<1>24. CASE MarkReady
  BY <1>24 DEF MarkReady, Advance, CanAdvance
<1>25. CASE RemoveWorktree
  <2>1. pc' \in Labels /\ worktree' \in BOOLEAN
    BY <1>25 DEF RemoveWorktree
  <2>2. UNCHANGED <<outcome, mode, runVars, branch, dirty, head, landed, evidenceVars>>
    BY <1>25 DEF RemoveWorktree
  <2> QED
    BY <2>1, <2>2
<1>26. CASE MarkWorktreeRemoved
  BY <1>26 DEF MarkWorktreeRemoved, Advance, CanAdvance
<1>27. CASE DeleteBranch
  BY <1>27 DEF DeleteBranch
<1>28. CASE MarkBranchRemoved
  BY <1>28 DEF MarkBranchRemoved, Advance, CanAdvance
<1>29. CASE Readback
  <2>1. pc' \in Labels /\ lease' \in BOOLEAN
    BY <1>29 DEF Readback
  <2>2. UNCHANGED <<outcome, mode, marker, receipt, absence, auth, block, closed,
                    gitVars, evidenceVars>>
    BY <1>29 DEF Readback
  <2> QED
    BY <2>1, <2>2
<1>30. CASE MarkReceiptPending
  BY <1>30 DEF MarkReceiptPending, Advance, CanAdvance
<1>31. CASE ObserveAbsence
  BY <1>31 DEF ObserveAbsence
<1>32. CASE WriteReceipt
  BY <1>32 DEF WriteReceipt
<1>33. CASE Complete
  BY <1>33 DEF Complete
<1>34. CASE Unblock
  BY <1>34 DEF Unblock
<1>35. CASE AppendLedger
  BY <1>35 DEF AppendLedger
<1>36. CASE Crash
  BY <1>36 DEF Crash
<1>37. CASE Notice
  BY <1>37 DEF Notice
<1>38. ASSUME NEW f \in Findings, TrackFinding(f) PROVE TypeOK'
  BY <1>38 DEF TrackFinding
<1>39. ASSUME NEW o \in Outcomes, StartCloseout(o) PROVE TypeOK'
  BY <1>39 DEF StartCloseout
<1>40. CASE UNCHANGED vars
  BY <1>40
<1>41. QED
  BY <1>1, <1>2, <1>3, <1>4, <1>5, <1>6, <1>7, <1>8, <1>9, <1>10, <1>11,
     <1>12, <1>13, <1>14, <1>15, <1>16, <1>17, <1>18, <1>19, <1>20, <1>21,
     <1>22, <1>23, <1>24, <1>25, <1>26, <1>27, <1>28, <1>29, <1>30, <1>31,
     <1>32, <1>33, <1>34, <1>35, <1>36, <1>37, <1>38, <1>39, <1>40
     DEF Next, Finalize, Close, Coordinator, User

LEMMA ControlPreserved == IInv /\ TypeOK' /\ [Next]_vars => Control'
<1> SUFFICES ASSUME IInv, TypeOK', [Next]_vars PROVE Control'
  OBVIOUS
<1> USE CloseoutAssumption DEF IInv, TypeOK, Control, Durable, Tail, vars, scriptVars, runVars, gitVars, evidenceVars
<1>1. CASE Edit
  BY <1>1 DEF Edit, WriterMayAct
<1>2. CASE CommitFix
  BY <1>2 DEF CommitFix, WriterMayAct
<1>3. CASE Integrate
  BY <1>3 DEF Integrate
<1>4. CASE CleanupBranch
  BY <1>4 DEF CleanupBranch
<1>5. CASE WriteBundle
  BY <1>5 DEF WriteBundle
<1>6. CASE ReviewDeletion
  BY <1>6 DEF ReviewDeletion
<1>7. CASE TrackBundle
  BY <1>7 DEF TrackBundle
<1>8. CASE SwitchHead
  BY <1>8 DEF SwitchHead
<1>9. CASE RewindTarget
  BY <1>9 DEF RewindTarget
<1>10. CASE StartFinalize
  BY <1>10 DEF StartFinalize
<1>11. CASE FinalizeBlock
  BY <1>11 DEF FinalizeBlock
<1>12. CASE FinalizeArtifacts
  BY <1>12 DEF FinalizeArtifacts
<1>13. CASE FinalizeRestore
  BY <1>13 DEF FinalizeRestore
<1>14. CASE FinalizePending
  BY <1>14 DEF FinalizePending
<1>15. CASE FinalizeAdvance
  BY <1>15 DEF FinalizeAdvance, Advance, CanAdvance
<1>16. CASE CloseoutInit
  BY <1>16 DEF CloseoutInit
<1>17. CASE CheckSummary
  BY <1>17 DEF CheckSummary, Reconciled
<1>18. CASE ReplayUnblock
  BY <1>18 DEF ReplayUnblock
<1>19. CASE ReplayLedger
  BY <1>19 DEF ReplayLedger
<1>20. CASE ReplayAbsence
  BY <1>20 DEF ReplayAbsence
<1>21. CASE CheckAuthority
  BY <1>21 DEF CheckAuthority
<1>22. CASE Verify
  BY <1>22 DEF Verify, CheckoutClean
<1>23. CASE Authorize
  BY <1>23 DEF Authorize
<1>24. CASE MarkReady
  BY <1>24 DEF MarkReady, Advance, CanAdvance
<1>25. CASE RemoveWorktree
  BY <1>25 DEF RemoveWorktree, CheckoutClean
<1>26. CASE MarkWorktreeRemoved
  BY <1>26 DEF MarkWorktreeRemoved, Advance, CanAdvance
<1>27. CASE DeleteBranch
  BY <1>27 DEF DeleteBranch
<1>28. CASE MarkBranchRemoved
  BY <1>28 DEF MarkBranchRemoved, Advance, CanAdvance
<1>29. CASE Readback
  BY <1>29 DEF Readback
<1>30. CASE MarkReceiptPending
  BY <1>30 DEF MarkReceiptPending, Advance, CanAdvance
<1>31. CASE ObserveAbsence
  BY <1>31 DEF ObserveAbsence
<1>32. CASE WriteReceipt
  BY <1>32 DEF WriteReceipt
<1>33. CASE Complete
  BY <1>33 DEF Complete
<1>34. CASE Unblock
  BY <1>34 DEF Unblock
<1>35. CASE AppendLedger
  BY <1>35 DEF AppendLedger
<1>36. CASE Crash
  BY <1>36 DEF Crash
<1>37. CASE Notice
  BY <1>37 DEF Notice
<1>38. ASSUME NEW f \in Findings, TrackFinding(f) PROVE Control'
  BY <1>38 DEF TrackFinding
<1>39. ASSUME NEW o \in Outcomes, StartCloseout(o) PROVE Control'
  BY <1>39 DEF StartCloseout
<1>40. CASE UNCHANGED vars
  BY <1>40
<1>41. QED
  BY <1>1, <1>2, <1>3, <1>4, <1>5, <1>6, <1>7, <1>8, <1>9, <1>10, <1>11,
     <1>12, <1>13, <1>14, <1>15, <1>16, <1>17, <1>18, <1>19, <1>20, <1>21,
     <1>22, <1>23, <1>24, <1>25, <1>26, <1>27, <1>28, <1>29, <1>30, <1>31,
     <1>32, <1>33, <1>34, <1>35, <1>36, <1>37, <1>38, <1>39, <1>40
     DEF Next, Finalize, Close, Coordinator, User

LEMMA DurablePreserved == IInv /\ TypeOK' /\ [Next]_vars => Durable'
<1> SUFFICES ASSUME IInv, TypeOK', [Next]_vars PROVE Durable'
  OBVIOUS
<1> USE CloseoutAssumption DEF IInv, TypeOK, Control, Durable, Tail, vars, scriptVars, runVars, gitVars, evidenceVars
<1>1. CASE Edit
  BY <1>1 DEF Edit, WriterMayAct
<1>2. CASE CommitFix
  BY <1>2 DEF CommitFix, WriterMayAct
<1>3. CASE Integrate
  BY <1>3 DEF Integrate
<1>4. CASE CleanupBranch
  BY <1>4 DEF CleanupBranch
<1>5. CASE WriteBundle
  BY <1>5 DEF WriteBundle
<1>6. CASE ReviewDeletion
  BY <1>6 DEF ReviewDeletion
<1>7. CASE TrackBundle
  BY <1>7 DEF TrackBundle
<1>8. CASE SwitchHead
  BY <1>8 DEF SwitchHead
<1>9. CASE RewindTarget
  BY <1>9 DEF RewindTarget
<1>10. CASE StartFinalize
  BY <1>10 DEF StartFinalize
<1>11. CASE FinalizeBlock
  BY <1>11 DEF FinalizeBlock
<1>12. CASE FinalizeArtifacts
  BY <1>12 DEF FinalizeArtifacts
<1>13. CASE FinalizeRestore
  BY <1>13 DEF FinalizeRestore
<1>14. CASE FinalizePending
  BY <1>14 DEF FinalizePending
<1>15. CASE FinalizeAdvance
  BY <1>15 DEF FinalizeAdvance, Advance, CanAdvance
<1>16. CASE CloseoutInit
  BY <1>16 DEF CloseoutInit
<1>17. CASE CheckSummary
  BY <1>17 DEF CheckSummary, Reconciled
<1>18. CASE ReplayUnblock
  BY <1>18 DEF ReplayUnblock
<1>19. CASE ReplayLedger
  BY <1>19 DEF ReplayLedger
<1>20. CASE ReplayAbsence
  BY <1>20 DEF ReplayAbsence
<1>21. CASE CheckAuthority
  BY <1>21 DEF CheckAuthority
<1>22. CASE Verify
  BY <1>22 DEF Verify, CheckoutClean
<1>23. CASE Authorize
  BY <1>23 DEF Authorize
<1>24. CASE MarkReady
  BY <1>24 DEF MarkReady, Advance, CanAdvance
<1>25. CASE RemoveWorktree
  BY <1>25 DEF RemoveWorktree, CheckoutClean
<1>26. CASE MarkWorktreeRemoved
  BY <1>26 DEF MarkWorktreeRemoved, Advance, CanAdvance
<1>27. CASE DeleteBranch
  BY <1>27 DEF DeleteBranch
<1>28. CASE MarkBranchRemoved
  BY <1>28 DEF MarkBranchRemoved, Advance, CanAdvance
<1>29. CASE Readback
  BY <1>29 DEF Readback
<1>30. CASE MarkReceiptPending
  BY <1>30 DEF MarkReceiptPending, Advance, CanAdvance
<1>31. CASE ObserveAbsence
  BY <1>31 DEF ObserveAbsence
<1>32. CASE WriteReceipt
  BY <1>32 DEF WriteReceipt
<1>33. CASE Complete
  BY <1>33 DEF Complete
<1>34. CASE Unblock
  BY <1>34 DEF Unblock
<1>35. CASE AppendLedger
  BY <1>35 DEF AppendLedger
<1>36. CASE Crash
  BY <1>36 DEF Crash
<1>37. CASE Notice
  BY <1>37 DEF Notice
<1>38. ASSUME NEW f \in Findings, TrackFinding(f) PROVE Durable'
  BY <1>38 DEF TrackFinding
<1>39. ASSUME NEW o \in Outcomes, StartCloseout(o) PROVE Durable'
  BY <1>39 DEF StartCloseout
<1>40. CASE UNCHANGED vars
  BY <1>40
<1>41. QED
  BY <1>1, <1>2, <1>3, <1>4, <1>5, <1>6, <1>7, <1>8, <1>9, <1>10, <1>11,
     <1>12, <1>13, <1>14, <1>15, <1>16, <1>17, <1>18, <1>19, <1>20, <1>21,
     <1>22, <1>23, <1>24, <1>25, <1>26, <1>27, <1>28, <1>29, <1>30, <1>31,
     <1>32, <1>33, <1>34, <1>35, <1>36, <1>37, <1>38, <1>39, <1>40
     DEF Next, Finalize, Close, Coordinator, User

-----------------------------------------------------------------------------
LEMMA Inductive == Spec => []IInv
<1>1. IInv /\ [Next]_vars => IInv'
  BY TypePreserved, ControlPreserved, DurablePreserved DEF IInv
<1> QED
  BY <1>1, InitInv, PTL DEF Spec

(* Every variable stays in its range: in particular the marker is always   *)
(* one of the stages _terminal_lifecycle.py accepts.                       *)
THEOREM TypeCorrect == Spec => []TypeOK
<1>1. IInv => TypeOK
  BY DEF IInv
<1> QED
  BY <1>1, Inductive, PTL

(* run-status never answers verified_completed for a run whose resources   *)
(* exist, or whose removal was authorised for another outcome.             *)
THEOREM VerifiedSound == Spec => []VerifiedIsEarned
<1>1. IInv => VerifiedIsEarned
  BY DEF IInv, TypeOK, Durable, VerifiedIsEarned, Verified, Reconciled
<1> QED
  BY <1>1, Inductive, PTL

(* Preflight finds a file under closeout-blocked/ from the first durable   *)
(* trace of a closeout until the terminal receipt.                         *)
THEOREM BlockSound == Spec => []BlockedWhileIncomplete
<1>1. IInv => BlockedWhileIncomplete
  BY DEF IInv, Durable, BlockedWhileIncomplete
<1> QED
  BY <1>1, Inductive, PTL

(* No receipt before the recorded observation that both resources are      *)
(* absent, and no terminal marker without its receipt.                     *)
THEOREM ReceiptSound == Spec => []ReceiptIsLast
<1>1. IInv => ReceiptIsLast
  BY DEF IInv, Durable, ReceiptIsLast
<1> QED
  BY <1>1, Inductive, PTL

(* The replay of the tail never appends a second closeout event.           *)
THEOREM LedgerSound == Spec => []ClosedOnce
<1>1. IInv => ClosedOnce
  BY DEF IInv, Durable, ClosedOnce
<1> QED
  BY <1>1, Inductive, PTL

-----------------------------------------------------------------------------
(* What Verify established is still true when the resources are removed.   *)

Removal == {"c_authorize", "c_ready", "c_worktree", "c_wt_mark", "c_branch"}

Recorded == pc \in Removal => ~given.degraded /\ given.open \subseteq tracked

Exact == pc \in Removal => /\ mode = "-D" => RecoveryReview
                           /\ outcome = "landed" => gated = branch

LEMMA RecordedPreserved == IInv /\ Recorded /\ [Next]_vars => Recorded'
<1> SUFFICES ASSUME IInv, Recorded, [Next]_vars PROVE Recorded'
  OBVIOUS
<1> USE CloseoutAssumption DEF IInv, TypeOK, Recorded, Removal, vars, scriptVars, runVars, gitVars, evidenceVars
<1>1. CASE Edit
  BY <1>1 DEF Edit, WriterMayAct
<1>2. CASE CommitFix
  BY <1>2 DEF CommitFix, WriterMayAct
<1>3. CASE Integrate
  BY <1>3 DEF Integrate
<1>4. CASE CleanupBranch
  BY <1>4 DEF CleanupBranch
<1>5. CASE WriteBundle
  BY <1>5 DEF WriteBundle
<1>6. CASE ReviewDeletion
  BY <1>6 DEF ReviewDeletion
<1>7. CASE TrackBundle
  BY <1>7 DEF TrackBundle
<1>8. CASE SwitchHead
  BY <1>8 DEF SwitchHead
<1>9. CASE RewindTarget
  BY <1>9 DEF RewindTarget
<1>10. CASE StartFinalize
  BY <1>10 DEF StartFinalize
<1>11. CASE FinalizeBlock
  BY <1>11 DEF FinalizeBlock
<1>12. CASE FinalizeArtifacts
  BY <1>12 DEF FinalizeArtifacts
<1>13. CASE FinalizeRestore
  BY <1>13 DEF FinalizeRestore
<1>14. CASE FinalizePending
  BY <1>14 DEF FinalizePending
<1>15. CASE FinalizeAdvance
  BY <1>15 DEF FinalizeAdvance, Advance, CanAdvance
<1>16. CASE CloseoutInit
  BY <1>16 DEF CloseoutInit
<1>17. CASE CheckSummary
  BY <1>17 DEF CheckSummary, Reconciled
<1>18. CASE ReplayUnblock
  BY <1>18 DEF ReplayUnblock
<1>19. CASE ReplayLedger
  BY <1>19 DEF ReplayLedger
<1>20. CASE ReplayAbsence
  BY <1>20 DEF ReplayAbsence
<1>21. CASE CheckAuthority
  BY <1>21 DEF CheckAuthority
<1>22. CASE Verify
  <2>1. MayLand \/ MayRecord => ~given.degraded /\ given.open \subseteq tracked
    BY DEF MayLand, MayRecord, TrackerReadback
  <2>2. UNCHANGED <<given, tracked>> /\ (~(MayLand \/ MayRecord) => pc' = "idle")
    BY <1>22 DEF Verify
  <2> QED
    BY <2>1, <2>2
<1>23. CASE Authorize
  BY <1>23 DEF Authorize
<1>24. CASE MarkReady
  BY <1>24 DEF MarkReady, Advance, CanAdvance
<1>25. CASE RemoveWorktree
  BY <1>25 DEF RemoveWorktree, CheckoutClean
<1>26. CASE MarkWorktreeRemoved
  BY <1>26 DEF MarkWorktreeRemoved, Advance, CanAdvance
<1>27. CASE DeleteBranch
  BY <1>27 DEF DeleteBranch
<1>28. CASE MarkBranchRemoved
  BY <1>28 DEF MarkBranchRemoved, Advance, CanAdvance
<1>29. CASE Readback
  BY <1>29 DEF Readback
<1>30. CASE MarkReceiptPending
  BY <1>30 DEF MarkReceiptPending, Advance, CanAdvance
<1>31. CASE ObserveAbsence
  BY <1>31 DEF ObserveAbsence
<1>32. CASE WriteReceipt
  BY <1>32 DEF WriteReceipt
<1>33. CASE Complete
  BY <1>33 DEF Complete
<1>34. CASE Unblock
  BY <1>34 DEF Unblock
<1>35. CASE AppendLedger
  BY <1>35 DEF AppendLedger
<1>36. CASE Crash
  BY <1>36 DEF Crash
<1>37. CASE Notice
  BY <1>37 DEF Notice
<1>38. ASSUME NEW f \in Findings, TrackFinding(f) PROVE Recorded'
  BY <1>38 DEF TrackFinding
<1>39. ASSUME NEW o \in Outcomes, StartCloseout(o) PROVE Recorded'
  BY <1>39 DEF StartCloseout
<1>40. CASE UNCHANGED vars
  BY <1>40
<1>41. QED
  BY <1>1, <1>2, <1>3, <1>4, <1>5, <1>6, <1>7, <1>8, <1>9, <1>10, <1>11,
     <1>12, <1>13, <1>14, <1>15, <1>16, <1>17, <1>18, <1>19, <1>20, <1>21, <1>22,
     <1>23, <1>24, <1>25, <1>26, <1>27, <1>28, <1>29, <1>30, <1>31, <1>32, <1>33,
     <1>34, <1>35, <1>36, <1>37, <1>38, <1>39, <1>40
     DEF Next, Finalize, Close, Coordinator, User

LEMMA ExactPreserved ==
  ASSUME SecondWriter = FALSE PROVE IInv /\ Exact /\ [Next]_vars => Exact'
<1> SUFFICES ASSUME IInv, Exact, [Next]_vars PROVE Exact'
  OBVIOUS
<1> USE CloseoutAssumption DEF IInv, TypeOK, Exact, Removal, RecoveryReview, vars, scriptVars, runVars, gitVars, evidenceVars
<1>1. CASE Edit
  BY <1>1 DEF Edit, WriterMayAct
<1>2. CASE CommitFix
  BY <1>2 DEF CommitFix, WriterMayAct
<1>3. CASE Integrate
  BY <1>3 DEF Integrate
<1>4. CASE CleanupBranch
  BY <1>4 DEF CleanupBranch
<1>5. CASE WriteBundle
  BY <1>5 DEF WriteBundle
<1>6. CASE ReviewDeletion
  BY <1>6 DEF ReviewDeletion
<1>7. CASE TrackBundle
  BY <1>7 DEF TrackBundle
<1>8. CASE SwitchHead
  BY <1>8 DEF SwitchHead
<1>9. CASE RewindTarget
  BY <1>9 DEF RewindTarget
<1>10. CASE StartFinalize
  BY <1>10 DEF StartFinalize
<1>11. CASE FinalizeBlock
  BY <1>11 DEF FinalizeBlock
<1>12. CASE FinalizeArtifacts
  BY <1>12 DEF FinalizeArtifacts
<1>13. CASE FinalizeRestore
  BY <1>13 DEF FinalizeRestore
<1>14. CASE FinalizePending
  BY <1>14 DEF FinalizePending
<1>15. CASE FinalizeAdvance
  BY <1>15 DEF FinalizeAdvance, Advance, CanAdvance
<1>16. CASE CloseoutInit
  BY <1>16 DEF CloseoutInit
<1>17. CASE CheckSummary
  BY <1>17 DEF CheckSummary, Reconciled
<1>18. CASE ReplayUnblock
  BY <1>18 DEF ReplayUnblock
<1>19. CASE ReplayLedger
  BY <1>19 DEF ReplayLedger
<1>20. CASE ReplayAbsence
  BY <1>20 DEF ReplayAbsence
<1>21. CASE CheckAuthority
  BY <1>21 DEF CheckAuthority
<1>22. CASE Verify
  <2>1. MayLand => outcome = "landed" /\ gated = branch /\ Contained
    BY DEF MayLand, LandedEvidence
  <2>2. MayRecord => outcome = "recorded" /\ (Contained \/ RecoveryReview)
    BY DEF MayRecord
  <2>3. /\ UNCHANGED <<outcome, gitVars, evidenceVars>>
        /\ MayLand \/ MayRecord \/ pc' = "idle"
        /\ Contained /\ (MayLand \/ MayRecord) => mode' = "-d"
    BY <1>22 DEF Verify
  <2> QED
    BY <2>1, <2>2, <2>3
<1>23. CASE Authorize
  BY <1>23 DEF Authorize
<1>24. CASE MarkReady
  BY <1>24 DEF MarkReady, Advance, CanAdvance
<1>25. CASE RemoveWorktree
  BY <1>25 DEF RemoveWorktree, CheckoutClean
<1>26. CASE MarkWorktreeRemoved
  BY <1>26 DEF MarkWorktreeRemoved, Advance, CanAdvance
<1>27. CASE DeleteBranch
  BY <1>27 DEF DeleteBranch
<1>28. CASE MarkBranchRemoved
  BY <1>28 DEF MarkBranchRemoved, Advance, CanAdvance
<1>29. CASE Readback
  BY <1>29 DEF Readback
<1>30. CASE MarkReceiptPending
  BY <1>30 DEF MarkReceiptPending, Advance, CanAdvance
<1>31. CASE ObserveAbsence
  BY <1>31 DEF ObserveAbsence
<1>32. CASE WriteReceipt
  BY <1>32 DEF WriteReceipt
<1>33. CASE Complete
  BY <1>33 DEF Complete
<1>34. CASE Unblock
  BY <1>34 DEF Unblock
<1>35. CASE AppendLedger
  BY <1>35 DEF AppendLedger
<1>36. CASE Crash
  BY <1>36 DEF Crash
<1>37. CASE Notice
  BY <1>37 DEF Notice
<1>38. ASSUME NEW f \in Findings, TrackFinding(f) PROVE Exact'
  BY <1>38 DEF TrackFinding
<1>39. ASSUME NEW o \in Outcomes, StartCloseout(o) PROVE Exact'
  BY <1>39 DEF StartCloseout
<1>40. CASE UNCHANGED vars
  BY <1>40
<1>41. QED
  BY <1>1, <1>2, <1>3, <1>4, <1>5, <1>6, <1>7, <1>8, <1>9, <1>10, <1>11,
     <1>12, <1>13, <1>14, <1>15, <1>16, <1>17, <1>18, <1>19, <1>20, <1>21, <1>22,
     <1>23, <1>24, <1>25, <1>26, <1>27, <1>28, <1>29, <1>30, <1>31, <1>32, <1>33,
     <1>34, <1>35, <1>36, <1>37, <1>38, <1>39, <1>40
     DEF Next, Finalize, Close, Coordinator, User

(* No closeout removes a branch or worktree while an actionable finding of *)
(* the run has no verified tracker receipt.                                *)
THEOREM TrackedSound == Spec => TrackedBeforeRemoval
<1>1. Init => Recorded
  BY DEF Init, Recorded, Removal
<1>2. Spec => []Recorded
  BY <1>1, RecordedPreserved, Inductive, PTL DEF Spec
<1>3. Recorded =>
        [(pc \in {"c_worktree", "c_branch"} /\ <<branch, worktree>>' # <<branch, worktree>>)
           => ~given.degraded /\ given.open \subseteq tracked]_vars
  BY DEF Recorded, Removal
<1> QED
  BY <1>2, <1>3, PTL DEF TrackedBeforeRemoval

(* closeout.sh never drops a commit, when nobody else commits on the run   *)
(* branch while it works: the assumption the code makes and does not       *)
(* check; without it the commit is lost.                                   *)
THEOREM WorkIsSafe == ASSUME SecondWriter = FALSE PROVE Spec => NoLostWork
<1>1. Init => Exact
  BY DEF Init, Exact, Removal
<1>2. Spec => []Exact
  BY <1>1, ExactPreserved, Inductive, PTL DEF Spec
<1>3. IInv /\ Exact /\ [Next]_vars =>
        [pc = "c_branch" /\ branch # None /\ branch' = None
           => \/ Contained
              \/ branch <= HeadContains
              \/ /\ bundle = branch /\ bundle \in escrowed
                 /\ review = [tip |-> branch, sha |-> bundle]]_vars
  <2> SUFFICES ASSUME IInv, Exact, Next, pc = "c_branch", branch # None, branch' = None
               PROVE  branch <= HeadContains \/ RecoveryReview
    BY DEF RecoveryReview
  <2>1. DeleteBranch
    <3>1. CleanupBranch => pc = "idle"
      BY DEF CleanupBranch
    <3>2. CommitFix => branch' # None
      BY CloseoutAssumption DEF CommitFix, WriterMayAct, IInv, TypeOK
    <3>3. ASSUME NEW o \in Outcomes, StartCloseout(o) PROVE FALSE
      BY <3>3 DEF StartCloseout
    <3>4. ASSUME NEW f \in Findings, TrackFinding(f) PROVE FALSE
      BY <3>4 DEF TrackFinding
    <3>5. Close => DeleteBranch
      BY DEF Close, CloseoutInit, CheckSummary, ReplayUnblock, ReplayLedger, ReplayAbsence,
             CheckAuthority, Verify, Authorize, MarkReady, RemoveWorktree,
             MarkWorktreeRemoved, MarkBranchRemoved, Readback, MarkReceiptPending,
             ObserveAbsence, WriteReceipt, Complete, Unblock, AppendLedger
    <3>6. ~(Finalize \/ StartFinalize)
      BY DEF Finalize, StartFinalize, FinalizeBlock, FinalizeArtifacts, FinalizeRestore,
             FinalizePending, FinalizeAdvance
    <3>7. Coordinator \/ User \/ Crash \/ Notice =>
            CleanupBranch \/ CommitFix \/ UNCHANGED branch
      BY <3>4 DEF Coordinator, User, Edit, Integrate, WriteBundle, ReviewDeletion, TrackBundle,
             TrackFinding, SwitchHead, RewindTarget, Crash, Notice, gitVars
    <3> QED
      BY <3>1, <3>2, <3>3, <3>5, <3>6, <3>7 DEF Next
  <2> QED
    BY <2>1 DEF DeleteBranch, Deletable, Exact, Removal
<1> QED
  BY <1>2, <1>3, Inductive, PTL DEF Spec, NoLostWork

(* What a landed closeout deletes is the tip the gate passed, under the    *)
(* same assumption.                                                        *)
THEOREM GateIsExact == ASSUME SecondWriter = FALSE PROVE Spec => LandedIsGated
<1>1. Init => Exact
  BY DEF Init, Exact, Removal
<1>2. Spec => []Exact
  BY <1>1, ExactPreserved, Inductive, PTL DEF Spec
<1>3. Exact => [pc = "c_branch" /\ outcome = "landed" /\ branch # None /\ branch' = None
                  => gated = branch]_vars
  BY DEF Exact, Removal
<1> QED
  BY <1>2, <1>3, PTL DEF LandedIsGated

-----------------------------------------------------------------------------
(* Which steps write the marker, the authorization and the two resources.  *)

Advances == \/ StartFinalize \/ FinalizeAdvance \/ CloseoutInit \/ ReplayAbsence
            \/ MarkReady \/ MarkWorktreeRemoved \/ MarkBranchRemoved
            \/ MarkReceiptPending \/ Complete

LEMMA WhoWrites ==
  [Next]_vars => /\ UNCHANGED marker \/ Advances
                 /\ UNCHANGED auth \/ Authorize
                 /\ UNCHANGED <<branch, worktree>>
                      \/ CommitFix \/ CleanupBranch \/ RemoveWorktree \/ DeleteBranch
<1> SUFFICES ASSUME [Next]_vars
             PROVE  /\ UNCHANGED marker \/ Advances
                    /\ UNCHANGED auth \/ Authorize
                    /\ UNCHANGED <<branch, worktree>>
                         \/ CommitFix \/ CleanupBranch \/ RemoveWorktree \/ DeleteBranch
  OBVIOUS
<1> USE DEF vars, scriptVars, runVars, gitVars, evidenceVars
<1>1. CASE Coordinator
  BY <1>1 DEF Coordinator, Edit, CommitFix, Integrate, CleanupBranch, WriteBundle,
              ReviewDeletion, TrackBundle, TrackFinding
<1>2. CASE User \/ Crash \/ Notice
  BY <1>2 DEF User, SwitchHead, RewindTarget, Crash, Notice
<1>3. CASE StartFinalize \/ Finalize
  BY <1>3 DEF Advances, StartFinalize, Finalize, FinalizeBlock, FinalizeArtifacts,
              FinalizeRestore, FinalizePending, FinalizeAdvance
<1>4. CASE Close
  BY <1>4 DEF Advances, Close, CloseoutInit, CheckSummary, ReplayUnblock, ReplayLedger,
              ReplayAbsence, CheckAuthority, Verify, Authorize, MarkReady, RemoveWorktree,
              MarkWorktreeRemoved, DeleteBranch, MarkBranchRemoved, Readback,
              MarkReceiptPending, ObserveAbsence, WriteReceipt, Complete, Unblock,
              AppendLedger
<1>5. ASSUME NEW o \in Outcomes, StartCloseout(o) PROVE UNCHANGED <<marker, auth, branch, worktree>>
  BY <1>5 DEF StartCloseout
<1>6. CASE UNCHANGED vars
  BY <1>6
<1> QED
  BY <1>1, <1>2, <1>3, <1>4, <1>5, <1>6 DEF Next

LEMMA MarkerStep ==
  IInv /\ [Next]_vars => marker' >= marker /\ (marker \in Terminal => marker' = marker)
<1> SUFFICES ASSUME IInv, Advances
             PROVE  marker' >= marker /\ (marker \in Terminal => marker' = marker)
  BY WhoWrites DEF IInv, TypeOK
<1> QED
  BY DEF Advances, StartFinalize, FinalizeAdvance, CloseoutInit, ReplayAbsence, MarkReady,
         MarkWorktreeRemoved, MarkBranchRemoved, MarkReceiptPending, Complete, Advance,
         CanAdvance, IInv, TypeOK, Control

LEMMA OutcomeStep ==
  IInv /\ IInv' /\ [Next]_vars /\ branch = None /\ auth # None
    => auth' = auth /\ (marker' \in Terminal => marker' = TerminalOf(auth.outcome))
<1> SUFFICES ASSUME IInv, IInv', [Next]_vars, branch = None, auth # None
             PROVE  auth' = auth /\ (marker' \in Terminal => marker' = TerminalOf(auth.outcome))
  OBVIOUS
<1>1. auth' = auth
  BY WhoWrites DEF Authorize, IInv, Control
<1> QED
  BY <1>1 DEF IInv, TypeOK, Durable

(* The marker only moves forward and a terminal one stays.                 *)
THEOREM MarkerSound == Spec => MarkerMonotone
  BY MarkerStep, Inductive, PTL DEF Spec, MarkerMonotone

(* Once the branch is gone, no retry completes the run under another       *)
(* outcome than the one on record.                                         *)
THEOREM OutcomeSound == Spec => OutcomeIsSettled
<1>1. Spec => []IInv /\ [][Next]_vars
  BY Inductive, PTL DEF Spec
<1> QED
  BY <1>1, OutcomeStep, PTL DEF OutcomeIsSettled

(* The scripts, killed and retried at will, implement CloseoutPromise.     *)
THEOREM Implements == Spec => KeepsPromise
<1> USE CloseoutAssumption DEF Promise!vars, Promise!Next
<1>1. Init => Promise!Init
  BY DEF Init, Promise!Init
<1>2. IInv /\ IInv' /\ [Next]_vars => [Promise!Next]_(Promise!vars)
  <2> SUFFICES ASSUME IInv, IInv', [Next]_vars
               PROVE  [Promise!Next]_(Promise!vars)
    OBVIOUS
  <2>1. CASE Authorize
    <3>1. branch # None /\ auth' # None /\ auth'.outcome = outcome /\ outcome \in Outcomes
      BY <2>1 DEF Authorize, IInv, TypeOK, Control
    <3>2. UNCHANGED <<branch, worktree, marker>>
      BY <2>1 DEF Authorize, gitVars
    <3>3. Promise!Decide(outcome)
      BY <3>1, <3>2 DEF Promise!Decide
    <3> QED
      BY <3>1, <3>3
  <2>2. CASE Complete
    <3>1. /\ branch = None /\ ~worktree /\ marker = RECEIPT_PENDING
          /\ auth # None /\ auth.outcome = outcome /\ outcome \in Outcomes
      BY <2>2 DEF Complete, IInv, TypeOK, Control, Tail
    <3>2. marker' = TerminalOf(outcome) /\ UNCHANGED <<branch, worktree, auth>>
      BY <2>2 DEF Complete, gitVars
    <3> QED
      BY <3>1, <3>2 DEF Promise!Conclude
  <2>3. CASE ~Authorize /\ ~Complete
    <3>1. UNCHANGED auth
      BY <2>3, WhoWrites
    <3>2. marker \in Terminal \/ marker' \in Terminal => UNCHANGED marker
      BY <2>3, WhoWrites, MarkerStep
         DEF Advances, StartFinalize, FinalizeAdvance, CloseoutInit, ReplayAbsence, MarkReady,
             MarkWorktreeRemoved, MarkBranchRemoved, MarkReceiptPending, Advance, CanAdvance,
             IInv, TypeOK
    <3>3. branch # None \/ worktree \/ UNCHANGED <<branch, worktree>>
      BY WhoWrites DEF CommitFix, CleanupBranch, WriterMayAct, RemoveWorktree, DeleteBranch,
                       IInv, Control
    <3>4. UNCHANGED <<branch # None \/ worktree>> \/ Promise!Release
      BY <3>1, <3>2, <3>3 DEF Promise!Release
    <3> QED
      BY <3>1, <3>2, <3>4
  <2> QED
    BY <2>1, <2>2, <2>3
<1>3. Spec => []IInv /\ [][Next]_vars
  BY Inductive, PTL DEF Spec
<1> QED
  BY <1>1, <1>2, <1>3, PTL DEF Spec, KeepsPromise, Promise!Spec
-----------------------------------------------------------------------------
(* What a retry finds.  A removal was authorised over a summary and a      *)
(* marker that stay, the worktree goes before the branch, and a script     *)
(* that has come past the branch has the marker its next stage follows.    *)
Held == /\ auth # None => summarised /\ marker >= PENDING_CLOSEOUT
        /\ branch = None => ~worktree

Paced ==
  /\ pc \in Removal \cup {"c_wt_mark", "c_br_mark", "c_verify"}
       => summarised /\ marker >= PENDING_CLOSEOUT
  /\ pc = "c_summary" => marker >= PENDING_CLOSEOUT
  /\ pc \in {"c_branch", "c_br_mark"} => marker = WORKTREE_REMOVED
  /\ pc = "c_absent" => marker <= RECEIPT_PENDING
  /\ pc \in {"c_authority", "c_readback", "c_pending"} => marker \in {BRANCH_REMOVED, RECEIPT_PENDING}
  /\ pc \in {"c_ledger", "r_ledger"} => block = "none"

LEMMA PacedPreserved == IInv /\ Held /\ Paced /\ [Next]_vars => Held' /\ Paced'
<1> SUFFICES ASSUME IInv, Held, Paced, [Next]_vars PROVE Held' /\ Paced'
  OBVIOUS
<1>1. /\ marker \in Stages /\ branch \in Tips \cup {None} /\ worktree \in BOOLEAN
      /\ pc \in Tail \cup {"c_wt_mark", "c_branch", "c_br_mark"} => ~worktree
      /\ pc \in Removal => branch # None
      /\ pc \in {"c_observe", "c_receipt", "c_complete"} => marker = RECEIPT_PENDING
      /\ marker \in Terminal => receipt = marker /\ absence /\ branch = None /\ ~worktree
  BY DEF IInv, TypeOK, Control, Durable, Removal, Tail
<1> USE CloseoutAssumption DEF Held, Paced, Tail, Removal, vars, scriptVars, runVars, gitVars, evidenceVars
<1>2. CASE Edit
  BY <1>1, <1>2 DEF Edit, WriterMayAct
<1>3. CASE CommitFix
  BY <1>1, <1>3 DEF CommitFix, WriterMayAct
<1>4. CASE Integrate
  BY <1>1, <1>4 DEF Integrate
<1>5. CASE CleanupBranch
  BY <1>1, <1>5 DEF CleanupBranch
<1>6. CASE WriteBundle
  BY <1>1, <1>6 DEF WriteBundle
<1>7. CASE ReviewDeletion
  BY <1>1, <1>7 DEF ReviewDeletion
<1>8. CASE TrackBundle
  BY <1>1, <1>8 DEF TrackBundle
<1>9. CASE SwitchHead
  BY <1>1, <1>9 DEF SwitchHead
<1>10. CASE RewindTarget
  BY <1>1, <1>10 DEF RewindTarget
<1>11. CASE StartFinalize
  BY <1>1, <1>11 DEF StartFinalize
<1>12. CASE FinalizeBlock
  BY <1>1, <1>12 DEF FinalizeBlock
<1>13. CASE FinalizeArtifacts
  BY <1>1, <1>13 DEF FinalizeArtifacts
<1>14. CASE FinalizeRestore
  BY <1>1, <1>14 DEF FinalizeRestore
<1>15. CASE FinalizePending
  BY <1>1, <1>15 DEF FinalizePending
<1>16. CASE FinalizeAdvance
  BY <1>1, <1>16 DEF FinalizeAdvance, Advance, CanAdvance
<1>17. CASE CloseoutInit
  BY <1>1, <1>17 DEF CloseoutInit
<1>18. CASE CheckSummary
  BY <1>1, <1>18 DEF CheckSummary, Reconciled
<1>19. CASE ReplayUnblock
  BY <1>1, <1>19 DEF ReplayUnblock
<1>20. CASE ReplayLedger
  BY <1>1, <1>20 DEF ReplayLedger
<1>21. CASE ReplayAbsence
  BY <1>1, <1>21 DEF ReplayAbsence
<1>22. CASE CheckAuthority
  BY <1>1, <1>22 DEF CheckAuthority
<1>23. CASE Verify
  BY <1>1, <1>23 DEF Verify, CheckoutClean
<1>24. CASE Authorize
  BY <1>1, <1>24 DEF Authorize
<1>25. CASE MarkReady
  BY <1>1, <1>25 DEF MarkReady, Advance, CanAdvance
<1>26. CASE RemoveWorktree
  BY <1>1, <1>26 DEF RemoveWorktree
<1>27. CASE MarkWorktreeRemoved
  BY <1>1, <1>27 DEF MarkWorktreeRemoved, Advance, CanAdvance
<1>28. CASE DeleteBranch
  BY <1>1, <1>28 DEF DeleteBranch
<1>29. CASE MarkBranchRemoved
  BY <1>1, <1>29 DEF MarkBranchRemoved, Advance, CanAdvance
<1>30. CASE Readback
  BY <1>1, <1>30 DEF Readback
<1>31. CASE MarkReceiptPending
  BY <1>1, <1>31 DEF MarkReceiptPending, Advance, CanAdvance
<1>32. CASE ObserveAbsence
  BY <1>1, <1>32 DEF ObserveAbsence
<1>33. CASE WriteReceipt
  BY <1>1, <1>33 DEF WriteReceipt
<1>34. CASE Complete
  BY <1>1, <1>34 DEF Complete
<1>35. CASE Unblock
  BY <1>1, <1>35 DEF Unblock
<1>36. CASE AppendLedger
  BY <1>1, <1>36 DEF AppendLedger
<1>37. CASE Crash
  BY <1>1, <1>37 DEF Crash
<1>38. CASE Notice
  BY <1>1, <1>38 DEF Notice
<1>39. ASSUME NEW f \in Findings, TrackFinding(f) PROVE Held' /\ Paced'
  BY <1>1, <1>39 DEF TrackFinding
<1>40. ASSUME NEW o \in Outcomes, StartCloseout(o) PROVE Held' /\ Paced'
  BY <1>1, <1>40 DEF StartCloseout
<1>41. CASE UNCHANGED vars
  BY <1>1, <1>41
<1> QED
  BY <1>2, <1>3, <1>4, <1>5, <1>6, <1>7, <1>8, <1>9, <1>10, <1>11, <1>12,
     <1>13, <1>14, <1>15, <1>16, <1>17, <1>18, <1>19, <1>20, <1>21, <1>22, <1>23,
     <1>24, <1>25, <1>26, <1>27, <1>28, <1>29, <1>30, <1>31, <1>32, <1>33, <1>34,
     <1>35, <1>36, <1>37, <1>38, <1>39, <1>40, <1>41
     DEF Next, Finalize, Close, Coordinator, User

(* Once the branch is gone a retry with the outcome on record only stops   *)
(* at the end, over a run that is verified: every other way back to "idle" *)
(* is closed by what the interrupted closeout left behind.                 *)
LEMMA RetryStep ==
  ASSUME IInv, Held, Paced, Close, pc' = "idle", branch = None, auth # None, outcome = auth.outcome, ~Rewound
  PROVE  Verified'
<1>1. /\ marker \in Stages /\ summarised /\ marker >= PENDING_CLOSEOUT /\ ~worktree
      /\ outcome \in Outcomes
  BY DEF IInv, TypeOK, Held
<1>2. CASE ReplayLedger \/ AppendLedger
  <2>1. pc \in {"r_ledger", "c_ledger"}
    BY <1>2 DEF ReplayLedger, AppendLedger
  <2>2. marker \in Terminal /\ block = "none" /\ receipt = marker /\ absence
    BY <2>1 DEF IInv, Control, Durable, Paced
  <2>3. UNCHANGED <<marker, block, receipt, absence, worktree>>
    BY <1>2 DEF ReplayLedger, AppendLedger, gitVars
  <2> QED
    BY <1>1, <2>2, <2>3 DEF Verified, Reconciled
<1>3. ~CloseoutInit
  BY <1>1 DEF CloseoutInit
<1>4. ~CheckSummary
  <2>1. Reconciled => marker = TerminalOf(outcome)
    BY DEF Reconciled, IInv, Durable
  <2> QED
    BY <1>1, <2>1 DEF CheckSummary
<1>5. ~ReplayAbsence
  BY <1>1 DEF ReplayAbsence
<1>6. ~CheckAuthority
  BY DEF CheckAuthority, Rewound, IInv, TypeOK
<1>7. ~(Verify \/ MarkReady \/ RemoveWorktree \/ MarkWorktreeRemoved \/ DeleteBranch)
  BY DEF IInv, Control, Paced, Verify, MarkReady, RemoveWorktree, MarkWorktreeRemoved, DeleteBranch, Advance, CanAdvance
<1>8. ~(MarkBranchRemoved \/ MarkReceiptPending)
  BY DEF Paced, MarkBranchRemoved, MarkReceiptPending, Advance, CanAdvance
<1>9. ~(Readback \/ ObserveAbsence)
  BY <1>1 DEF Readback, ObserveAbsence
<1>10. ~WriteReceipt
  BY DEF WriteReceipt, IInv, Control, Durable, TypeOK
<1>11. ~(ReplayUnblock \/ Authorize \/ Complete \/ Unblock)
  BY DEF ReplayUnblock, Authorize, Complete, Unblock
<1> QED
  BY <1>2, <1>3, <1>4, <1>5, <1>6, <1>7, <1>8, <1>9, <1>10, <1>11 DEF Close

(* A closeout that has deleted its branch can always be completed: no      *)
(* retry with the outcome on record stops before the run is verified,      *)
(* wherever the closeouts before it were killed, with or without a second  *)
(* writer, unless what it landed was taken out of the target again.        *)
THEOREM RetrySound == Spec => RetryIsOpen
<1>1. Init => Held /\ Paced
  BY CloseoutAssumption DEF Init, Held, Paced, Removal
<1>2. Spec => [](IInv /\ Held /\ Paced)
  BY <1>1, PacedPreserved, Inductive, PTL DEF Spec
<1>3. IInv /\ Held /\ Paced =>
        [Close /\ pc' = "idle" /\ branch = None /\ auth # None /\ outcome = auth.outcome /\ ~Rewound
           => Verified']_vars
  BY RetryStep
<1> QED
  BY <1>2, <1>3, PTL DEF RetryIsOpen

=============================================================================
