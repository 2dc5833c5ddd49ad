--------------------------- MODULE ExecutionProofs ---------------------------
(***************************************************************************)
(* One execution of a command, for any number of interrupts: what a        *)
(* receipt that counts rests on, what is left behind and when there is no  *)
(* receipt.                                                                *)
(***************************************************************************)
EXTENDS Execution, TLAPS

Labels ==
  {"validate", "unavailable", "admit", "argv", "launch", "create", "inspect", "verify", "start",
   "wait", "remove", "finally", "import", "write", "cleanup", "done", "raised"}

Typed ==
  /\ policy \in {"none", "native", "docker", "proxied"} /\ pc \in Labels
  /\ tree \in Trees /\ engine \in {"pinned", "other"} /\ late \in BOOLEAN
  /\ box \in {"none", "requested", "created", "running", "exited", "removed"}
  /\ shape \in Asked \cup Ambient \cup {None} /\ code \in {None, "zero", "one"}
  /\ interrupts \in 0..MaxInterrupts /\ refusals \in Nat

Flags ==
  /\ attempted \in BOOLEAN /\ created \in BOOLEAN /\ readback \in BOOLEAN
  /\ verified \in BOOLEAN /\ removed \in BOOLEAN /\ raising \in BOOLEAN

Reported ==
  /\ process \in {"none", "running", "reaped"}
  /\ exit \in Codes \cup {None} /\ termination \in Terminations /\ reason \in Reasons \cup {None}
  /\ imported \in Imports /\ receipt \in Receipts \cup {None}

(* Only a policy that was accepted twice gets past the argument vector.    *)
Early == {"validate", "unavailable", "admit", "argv"}
Begun == {"launch", "create", "inspect", "verify", "start", "wait", "remove", "finally", "import",
          "write", "cleanup"}

Admitted ==
  /\ pc \in {"unavailable", "admit", "argv"} => policy # "none"
  /\ pc \in Begun => policy \in {"native", "docker"}
  /\ policy \in {"none", "proxied"} => box = "none" /\ (receipt # None => ~receipt.docker)

(* A verified container is as asked; the comparison misses no difference.  *)
AsAsked ==
  /\ pc \in Early \cup {"launch", "create", "inspect", "verify"} => ~verified
  /\ verified => shape = None

(* The daemon is asked for a container before there is one.                *)
Asking ==
  /\ Docker /\ box # "none" => attempted
  /\ pc \in Early \cup {"launch", "create"} => ~attempted /\ box = "none"
  /\ pc \in {"inspect", "verify", "start"} /\ Docker => attempted

(* A container found removed is gone for good, and only then is an output  *)
(* trusted.                                                                *)
Removing ==
  /\ pc \in Early \cup {"launch", "create", "inspect", "verify", "start", "wait", "remove"} =>
       ~(Docker /\ removed)
  /\ Docker /\ removed => box = "removed"
  /\ imported = "trusted_side" => removed /\ pc \in {"write", "cleanup", "done", "raised"}

(* A container that was asked for is removed, or a refusal is on record.   *)
Refused ==
  /\ pc \in Early \cup {"launch", "create", "inspect", "verify", "start", "wait", "remove"} =>
       refusals = 0
  /\ refusals > 0 => reason # None \/ (~removed /\ pc # "finally")
  /\ pc \in {"import", "write", "cleanup"} /\ Docker /\ attempted => removed \/ refusals > 0
  /\ Over /\ Docker /\ attempted => removed \/ refusals > 0 \/ interrupts > 0

(* The code of the command is set once, when it ends.                      *)
Coded ==
  /\ pc \in Early \cup {"launch", "create", "inspect", "verify", "start"} =>
       code = None /\ box \in {"none", "created"}
  /\ code # None => box \in {"exited", "removed"}
  /\ exit = "zero" => code = "zero" /\ box \in {"exited", "removed"}

Written ==
  /\ receipt # None => pc \in {"cleanup", "done", "raised"}
  /\ pc = "cleanup" => receipt # None
  /\ raising => tree = "changed"

IInv ==
  /\ Typed /\ Flags /\ Reported
  /\ Admitted /\ AsAsked /\ Asking /\ Removing /\ Refused /\ Coded /\ Written
  /\ EligibleIsEarned /\ ReceiptUnlessDisturbed

-----------------------------------------------------------------------------
(* Nothing has been asked for, run or written.                             *)
LEMMA InitInv == Init => IInv
<1> SUFFICES ASSUME Init PROVE IInv
  OBVIOUS
<1> USE ExecutionAssumption DEF Init
<1>1. Typed /\ Flags
  <2>1. tree \in Trees /\ pc \in Labels
    BY DEF Trees, Labels
  <2>2. interrupts \in 0..MaxInterrupts /\ refusals \in Nat
    OBVIOUS
  <2> QED BY <2>1, <2>2 DEF Typed, Flags
<1>2. Reported
  BY DEF Reported, Terminations, Imports
<1>3. Admitted /\ AsAsked /\ Asking /\ Removing
  BY DEF Admitted, AsAsked, Asking, Removing, Begun, Docker
<1>4. Refused /\ Coded /\ Written /\ EligibleIsEarned /\ ReceiptUnlessDisturbed
  BY DEF Refused, Coded, Codes, Written, EligibleIsEarned, ReceiptUnlessDisturbed, Over
<1> QED BY <1>1, <1>2, <1>3, <1>4 DEF IInv

(* The receipt of a refusal is a receipt.                                  *)
LEMMA UnavailableReceipt ==
  ASSUME NEW why \in Reasons
  PROVE  [termination |-> "backend_unavailable", reason |-> why, exit |-> None,
          docker |-> FALSE, network |-> "unsupported", verified |-> FALSE,
          imported |-> "not_run"] \in Receipts
BY DEF Receipts, Terminations, Imports

(* One lemma per step; what it may disturb is named part by part.  Up to   *)
(* the argument vector there is no container and no verification.          *)
LEMMA ValidateInv == IInv /\ Validate => IInv'
<1> SUFFICES ASSUME IInv, Validate PROVE IInv'
  OBVIOUS
<1> USE ExecutionAssumption DEF IInv, Validate, Unavailable, Raise, Goto, Accepts, SourceHolds,
   EngineHolds, MountInventory, world, daemon, checks, outcome, files
<1>1. Typed'
  BY DEF Typed, Trees, Labels, Asked, Ambient
<1>2. Flags'
  BY DEF Flags
<1>3. Reported'
  <2>1. receipt' = receipt \/ receipt' \in Receipts
    BY UnavailableReceipt DEF Reasons
  <2> QED BY <2>1 DEF Reported
<1>4. Admitted'
  BY DEF Admitted, Typed, Begun, Docker, Labels, ProfileFields, NormalizedFields
<1>5. AsAsked'
  BY DEF AsAsked, Typed, Early, Asked, Ambient, Compared
<1>6. Asking'
  BY DEF Asking, Early, Docker
<1>7. Removing'
  BY DEF Removing, Asking, Flags, Early, Docker
<1>8. Refused'
  BY DEF Refused, Typed, Asking, Removing, Reasons, Over, Early, Docker
<1>9. Coded'
  BY DEF Coded, Early, Codes
<1>10. Written'
  BY DEF Written, Typed, Trees
<1>11. EligibleIsEarned'
  BY DEF EligibleIsEarned, Written, Eligible, Docker
<1>12. ReceiptUnlessDisturbed'
  BY DEF ReceiptUnlessDisturbed, Written, Typed, Trees, Undisturbed, EngineHolds
<1> QED BY <1>1, <1>2, <1>3, <1>4, <1>5, <1>6, <1>7, <1>8, <1>9, <1>10, <1>11, <1>12

LEMMA AdmitInv == IInv /\ Admit => IInv'
<1> SUFFICES ASSUME IInv, Admit PROVE IInv'
  OBVIOUS
<1> USE ExecutionAssumption DEF IInv, Admit, Unavailable, Goto, world, daemon, checks, outcome,
   files
<1>1. Typed'
  BY DEF Typed, Trees, Labels, Asked, Ambient
<1>2. Flags'
  BY DEF Flags
<1>3. Reported'
  <2>1. receipt' = receipt \/ receipt' \in Receipts
    BY UnavailableReceipt DEF Reasons
  <2> QED BY <2>1 DEF Reported
<1>4. Admitted'
  BY DEF Admitted, Typed, Begun, Docker, Labels, ProfileFields, NormalizedFields
<1>5. AsAsked'
  BY DEF AsAsked, Typed, Early, Asked, Ambient, Compared
<1>6. Asking'
  BY DEF Asking, Early, Docker
<1>7. Removing'
  BY DEF Removing, Asking, Flags, Early, Docker
<1>8. Refused'
  BY DEF Refused, Typed, Asking, Removing, Reasons, Over, Early, Docker
<1>9. Coded'
  BY DEF Coded, Early, Codes
<1>10. Written'
  BY DEF Written, Typed, Trees
<1>11. EligibleIsEarned'
  BY DEF EligibleIsEarned, Written, Eligible, Docker
<1>12. ReceiptUnlessDisturbed'
  BY DEF ReceiptUnlessDisturbed, Written, Typed, Trees, Undisturbed, EngineHolds
<1> QED BY <1>1, <1>2, <1>3, <1>4, <1>5, <1>6, <1>7, <1>8, <1>9, <1>10, <1>11, <1>12

LEMMA BuildArgvInv == IInv /\ BuildArgv => IInv'
<1> SUFFICES ASSUME IInv, BuildArgv PROVE IInv'
  OBVIOUS
<1> USE ExecutionAssumption DEF IInv, BuildArgv, Raise, Goto, Accepts, EngineHolds, SourceHolds,
   world, daemon, checks, outcome, files
<1>1. receipt = None /\ receipt' = None
  BY DEF Written
<1>2. Typed'
  BY DEF Typed, Trees, Labels, Asked, Ambient
<1>3. Flags'
  BY DEF Flags
<1>4. Reported'
  BY DEF Reported, Terminations, Reasons, Codes, Imports, Receipts
<1>5. Admitted'
  BY DEF Admitted, Typed, Begun, Docker, Labels, ProfileFields, NormalizedFields
<1>6. AsAsked'
  BY DEF AsAsked, Typed, Early, Asked, Ambient, Compared
<1>7. Asking'
  BY DEF Asking, Early, Docker
<1>8. Removing'
  BY DEF Removing, Asking, Flags, Early, Docker
<1>9. Refused'
  BY DEF Refused, Typed, Asking, Removing, Reasons, Over, Early, Docker
<1>10. Coded'
  BY DEF Coded, Early, Codes
<1>11. Written'
  BY DEF Written, Typed, Trees
<1>12. EligibleIsEarned'
  BY <1>1 DEF EligibleIsEarned
<1>13. ReceiptUnlessDisturbed'
  BY DEF ReceiptUnlessDisturbed, Written, Typed, Trees, Undisturbed, EngineHolds
<1> QED BY <1>2, <1>3, <1>4, <1>5, <1>6, <1>7, <1>8, <1>9, <1>10, <1>11, <1>12, <1>13

LEMMA LaunchInv == IInv /\ Launch => IInv'
<1> SUFFICES ASSUME IInv, Launch PROVE IInv'
  OBVIOUS
<1> USE ExecutionAssumption DEF IInv, Launch, Fail, Goto, EngineHolds, world, daemon, checks,
   outcome, files
<1>1. receipt = None /\ receipt' = None
  BY DEF Written
<1>2. Typed'
  BY DEF Typed, Trees, Labels, Asked, Ambient
<1>3. Flags'
  BY DEF Flags
<1>4. Reported'
  BY DEF Reported, Terminations, Reasons, Codes, Imports, Receipts
<1>5. Admitted'
  BY DEF Admitted, Typed, Begun, Docker, Labels, ProfileFields, NormalizedFields
<1>6. AsAsked'
  BY DEF AsAsked, Typed, Early, Asked, Ambient, Compared
<1>7. Asking'
  BY DEF Asking, Early, Docker
<1>8. Removing'
  BY DEF Removing, Asking, Flags, Early, Docker
<1>9. Refused'
  BY DEF Refused, Typed, Asking, Removing, Reasons, Over, Early, Docker
<1>10. Coded'
  BY DEF Coded, Early, Codes
<1>11. Written'
  BY DEF Written, Typed, Trees
<1>12. EligibleIsEarned'
  BY <1>1 DEF EligibleIsEarned
<1>13. ReceiptUnlessDisturbed'
  BY DEF ReceiptUnlessDisturbed, Written, Typed, Trees, Undisturbed, EngineHolds
<1> QED BY <1>2, <1>3, <1>4, <1>5, <1>6, <1>7, <1>8, <1>9, <1>10, <1>11, <1>12, <1>13

(* From here a container may exist: it has been asked for.                 *)
LEMMA CreateInv == IInv /\ Create => IInv'
<1> SUFFICES ASSUME IInv, Create PROVE IInv'
  OBVIOUS
<1> USE ExecutionAssumption DEF IInv, Create, PastDeadline, Fail, Goto, EngineHolds, Made,
   IsContainerId, world, daemon, checks, outcome, files
<1>1. receipt = None /\ receipt' = None
  BY DEF Written
<1>2. Typed'
  BY DEF Typed, Trees, Labels, Asked, Ambient
<1>3. Flags'
  BY DEF Flags
<1>4. Reported'
  BY DEF Reported, Terminations, Reasons, Codes, Imports, Receipts
<1>5. Admitted'
  BY DEF Admitted, Typed, Begun, Docker, Labels, ProfileFields, NormalizedFields
<1>6. AsAsked'
  BY DEF AsAsked, Typed, Early, Asked, Ambient, Compared
<1>7. Asking'
  BY DEF Asking, Early, Docker
<1>8. Removing'
  BY DEF Removing, Asking, Flags, Early, Docker
<1>9. Refused'
  BY DEF Refused, Typed, Asking, Removing, Reasons, Over, Early, Docker
<1>10. Coded'
  BY DEF Coded, Early, Codes
<1>11. Written'
  BY DEF Written, Typed, Trees
<1>12. EligibleIsEarned'
  BY <1>1 DEF EligibleIsEarned
<1>13. ReceiptUnlessDisturbed'
  BY DEF ReceiptUnlessDisturbed, Written, Typed, Trees, Undisturbed, EngineHolds
<1> QED BY <1>2, <1>3, <1>4, <1>5, <1>6, <1>7, <1>8, <1>9, <1>10, <1>11, <1>12, <1>13

LEMMA InspectInv == IInv /\ Inspect => IInv'
<1> SUFFICES ASSUME IInv, Inspect PROVE IInv'
  OBVIOUS
<1> USE ExecutionAssumption DEF IInv, Inspect, PastDeadline, Fail, Goto, EngineHolds, world,
   daemon, checks, outcome, files
<1>1. receipt = None /\ receipt' = None
  BY DEF Written
<1>2. Typed'
  BY DEF Typed, Trees, Labels, Asked, Ambient
<1>3. Flags'
  BY DEF Flags
<1>4. Reported'
  BY DEF Reported, Terminations, Reasons, Codes, Imports, Receipts
<1>5. Admitted'
  BY DEF Admitted, Typed, Begun, Docker, Labels, ProfileFields, NormalizedFields
<1>6. AsAsked'
  BY DEF AsAsked, Typed, Early, Asked, Ambient, Compared
<1>7. Asking'
  BY DEF Asking, Early, Docker
<1>8. Removing'
  BY DEF Removing, Asking, Flags, Early, Docker
<1>9. Refused'
  BY DEF Refused, Typed, Asking, Removing, Reasons, Over, Early, Docker
<1>10. Coded'
  BY DEF Coded, Early, Codes
<1>11. Written'
  BY DEF Written, Typed, Trees
<1>12. EligibleIsEarned'
  BY <1>1 DEF EligibleIsEarned
<1>13. ReceiptUnlessDisturbed'
  BY DEF ReceiptUnlessDisturbed, Written, Typed, Trees, Undisturbed, EngineHolds
<1> QED BY <1>2, <1>3, <1>4, <1>5, <1>6, <1>7, <1>8, <1>9, <1>10, <1>11, <1>12, <1>13

(* A verified container differs in nothing: every difference is compared.  *)
LEMMA VerifyInv == IInv /\ Verify => IInv'
<1> SUFFICES ASSUME IInv, Verify PROVE IInv'
  OBVIOUS
<1> USE ExecutionAssumption DEF IInv, Verify, Fail, Goto, AsRequested, SourceHolds,
   MountInventory, world, daemon, checks, outcome, files
<1>1. receipt = None /\ receipt' = None
  BY DEF Written
<1>2. Typed'
  BY DEF Typed, Trees, Labels, Asked, Ambient
<1>3. Flags'
  BY DEF Flags
<1>4. Reported'
  BY DEF Reported, Terminations, Reasons, Codes, Imports, Receipts
<1>5. Admitted'
  BY DEF Admitted, Typed, Begun, Docker, Labels, ProfileFields, NormalizedFields
<1>6. AsAsked'
  BY DEF AsAsked, Typed, Early, Asked, Ambient, Compared
<1>7. Asking'
  BY DEF Asking, Early, Docker
<1>8. Removing'
  BY DEF Removing, Asking, Flags, Early, Docker
<1>9. Refused'
  BY DEF Refused, Typed, Asking, Removing, Reasons, Over, Early, Docker
<1>10. Coded'
  BY DEF Coded, Early, Codes
<1>11. Written'
  BY DEF Written, Typed, Trees
<1>12. EligibleIsEarned'
  BY <1>1 DEF EligibleIsEarned
<1>13. ReceiptUnlessDisturbed'
  BY DEF ReceiptUnlessDisturbed, Written, Typed, Trees, Undisturbed, EngineHolds
<1> QED BY <1>2, <1>3, <1>4, <1>5, <1>6, <1>7, <1>8, <1>9, <1>10, <1>11, <1>12, <1>13

LEMMA StartInv == IInv /\ Start => IInv'
<1> SUFFICES ASSUME IInv, Start PROVE IInv'
  OBVIOUS
<1> USE ExecutionAssumption DEF IInv, Start, Fail, Goto, EngineHolds, world, daemon, checks,
   outcome, files
<1>1. receipt = None /\ receipt' = None
  BY DEF Written
<1>2. Typed'
  BY DEF Typed, Trees, Labels, Asked, Ambient
<1>3. Flags'
  BY DEF Flags
<1>4. Reported'
  BY DEF Reported, Terminations, Reasons, Codes, Imports, Receipts
<1>5. Admitted'
  BY DEF Admitted, Typed, Begun, Docker, Labels, ProfileFields, NormalizedFields
<1>6. AsAsked'
  BY DEF AsAsked, Typed, Early, Asked, Ambient, Compared
<1>7. Asking'
  BY DEF Asking, Early, Docker
<1>8. Removing'
  BY DEF Removing, Asking, Flags, Early, Docker
<1>9. Refused'
  BY DEF Refused, Typed, Asking, Removing, Reasons, Over, Early, Docker
<1>10. Coded'
  BY DEF Coded, Early, Codes
<1>11. Written'
  BY DEF Written, Typed, Trees
<1>12. EligibleIsEarned'
  BY <1>1 DEF EligibleIsEarned
<1>13. ReceiptUnlessDisturbed'
  BY DEF ReceiptUnlessDisturbed, Written, Typed, Trees, Undisturbed, EngineHolds
<1> QED BY <1>2, <1>3, <1>4, <1>5, <1>6, <1>7, <1>8, <1>9, <1>10, <1>11, <1>12, <1>13

(* A code is the command's own only when the command has ended.            *)
LEMMA WaitInv == IInv /\ (Wait \/ ClientEnds) => IInv'
<1> SUFFICES ASSUME IInv, Wait \/ ClientEnds PROVE IInv'
  OBVIOUS
<1> USE ExecutionAssumption DEF IInv, Wait, ClientEnds, Reap, Goto, world, daemon, checks,
   outcome, files
<1>1. receipt = None /\ receipt' = None
  BY DEF Written
<1>2. Typed'
  BY DEF Typed, Trees, Labels, Asked, Ambient
<1>3. Flags'
  BY DEF Flags
<1>4. Reported'
  <2>1. exit' \in Codes \cup {None} /\ process' = "reaped"
    BY DEF Typed, Codes
  <2>2. termination' \in Terminations /\ reason' \in Reasons \cup {None}
    BY DEF Reported, Terminations, Reasons
  <2> QED BY <2>1, <2>2 DEF Reported
<1>5. Admitted'
  BY DEF Admitted, Typed, Begun, Docker, Labels, ProfileFields, NormalizedFields
<1>6. AsAsked'
  BY DEF AsAsked, Typed, Early, Asked, Ambient, Compared
<1>7. Asking'
  BY DEF Asking, Early, Docker
<1>8. Removing'
  BY DEF Removing, Asking, Flags, Early, Docker
<1>9. Refused'
  BY DEF Refused, Typed, Asking, Removing, Reasons, Over, Early, Docker
<1>10. Coded'
  BY DEF Coded, Early, Codes
<1>11. Written'
  BY DEF Written, Typed, Trees
<1>12. EligibleIsEarned'
  BY <1>1 DEF EligibleIsEarned
<1>13. ReceiptUnlessDisturbed'
  BY DEF ReceiptUnlessDisturbed, Written, Typed, Trees, Undisturbed, EngineHolds
<1> QED BY <1>2, <1>3, <1>4, <1>5, <1>6, <1>7, <1>8, <1>9, <1>10, <1>11, <1>12, <1>13

(* A removal that fails leaves a reason, or an outcome nobody trusts.      *)
LEMMA RemoveInv == IInv /\ Remove => IInv'
<1> SUFFICES ASSUME IInv, Remove PROVE IInv'
  OBVIOUS
<1> USE ExecutionAssumption DEF IInv, Remove, RemoveOwned, Goto, Present, EngineHolds, world,
   daemon, checks, outcome, files
<1>1. receipt = None /\ receipt' = None
  BY DEF Written
<1>2. Typed'
  BY DEF Typed, Trees, Labels, Asked, Ambient
<1>3. Flags'
  BY DEF Flags
<1>4. Reported'
  BY DEF Reported, Terminations, Reasons, Codes, Imports, Receipts
<1>5. Admitted'
  BY DEF Admitted, Typed, Begun, Docker, Labels, ProfileFields, NormalizedFields
<1>6. AsAsked'
  BY DEF AsAsked, Typed, Early, Asked, Ambient, Compared
<1>7. Asking'
  BY DEF Asking, Early, Docker
<1>8. Removing'
  BY DEF Removing, Asking, Flags, Early, Docker
<1>9. Refused'
  BY DEF Refused, Typed, Asking, Removing, Reasons, Over, Early, Docker
<1>10. Coded'
  BY DEF Coded, Early, Codes
<1>11. Written'
  BY DEF Written, Typed, Trees
<1>12. EligibleIsEarned'
  BY <1>1 DEF EligibleIsEarned
<1>13. ReceiptUnlessDisturbed'
  BY DEF ReceiptUnlessDisturbed, Written, Typed, Trees, Undisturbed, EngineHolds
<1> QED BY <1>2, <1>3, <1>4, <1>5, <1>6, <1>7, <1>8, <1>9, <1>10, <1>11, <1>12, <1>13

LEMMA FinallyInv == IInv /\ Finally => IInv'
<1> SUFFICES ASSUME IInv, Finally PROVE IInv'
  OBVIOUS
<1> USE ExecutionAssumption DEF IInv, Finally, RemoveOwned, Goto, Present, EngineHolds, world,
   daemon, checks, outcome, files
<1>1. receipt = None /\ receipt' = None
  BY DEF Written
<1>2. Typed'
  BY DEF Typed, Trees, Labels, Asked, Ambient
<1>3. Flags'
  BY DEF Flags
<1>4. Reported'
  BY DEF Reported, Terminations, Reasons, Codes, Imports, Receipts
<1>5. Admitted'
  BY DEF Admitted, Typed, Begun, Docker, Labels, ProfileFields, NormalizedFields
<1>6. AsAsked'
  BY DEF AsAsked, Typed, Early, Asked, Ambient, Compared
<1>7. Asking'
  BY DEF Asking, Early, Docker
<1>8. Removing'
  BY DEF Removing, Asking, Flags, Early, Docker
<1>9. Refused'
  BY DEF Refused, Typed, Asking, Removing, Reasons, Over, Early, Docker
<1>10. Coded'
  BY DEF Coded, Early, Codes
<1>11. Written'
  BY DEF Written, Typed, Trees
<1>12. EligibleIsEarned'
  BY <1>1 DEF EligibleIsEarned
<1>13. ReceiptUnlessDisturbed'
  BY DEF ReceiptUnlessDisturbed, Written, Typed, Trees, Undisturbed, EngineHolds
<1> QED BY <1>2, <1>3, <1>4, <1>5, <1>6, <1>7, <1>8, <1>9, <1>10, <1>11, <1>12, <1>13

LEMMA ImportInv == IInv /\ Import => IInv'
<1> SUFFICES ASSUME IInv, Import PROVE IInv'
  OBVIOUS
<1> USE ExecutionAssumption DEF IInv, Import, Goto, world, daemon, checks, outcome, files
<1>1. receipt = None /\ receipt' = None
  BY DEF Written
<1>2. Typed'
  BY DEF Typed, Trees, Labels, Asked, Ambient
<1>3. Flags'
  BY DEF Flags
<1>4. Reported'
  BY DEF Reported, Terminations, Reasons, Codes, Imports, Receipts
<1>5. Admitted'
  BY DEF Admitted, Typed, Begun, Docker, Labels, ProfileFields, NormalizedFields
<1>6. AsAsked'
  BY DEF AsAsked, Typed, Early, Asked, Ambient, Compared
<1>7. Asking'
  BY DEF Asking, Early, Docker
<1>8. Removing'
  BY DEF Removing, Asking, Flags, Early, Docker
<1>9. Refused'
  BY DEF Refused, Typed, Asking, Removing, Reasons, Over, Early, Docker
<1>10. Coded'
  BY DEF Coded, Early, Codes
<1>11. Written'
  BY DEF Written, Typed, Trees
<1>12. EligibleIsEarned'
  BY <1>1 DEF EligibleIsEarned
<1>13. ReceiptUnlessDisturbed'
  BY DEF ReceiptUnlessDisturbed, Written, Typed, Trees, Undisturbed, EngineHolds
<1> QED BY <1>2, <1>3, <1>4, <1>5, <1>6, <1>7, <1>8, <1>9, <1>10, <1>11, <1>12, <1>13

(* What WriteReceipt writes.                                               *)
NewReceipt ==
  [termination |-> termination, reason |-> reason, exit |-> exit, docker |-> Docker,
   network |-> IF verified THEN "verified_denied" ELSE "unverified",
   verified |-> verified, imported |-> imported]

LEMMA ReceiptTyped == Reported /\ Flags => NewReceipt \in Receipts /\ NewReceipt # None
<1> SUFFICES ASSUME Reported, Flags PROVE NewReceipt \in Receipts
  BY ExecutionAssumption
<1>1. Docker \in BOOLEAN
  BY DEF Docker
<1>2. (IF verified THEN "verified_denied" ELSE "unverified")
        \in {"unsupported", "unverified", "verified_denied"}
  OBVIOUS
<1> QED BY <1>1, <1>2 DEF Reported, Flags, NewReceipt, Receipts

(* The receipt says what the variables say at this moment.                 *)
LEMMA WriteInv == IInv /\ WriteReceipt => IInv'
<1> SUFFICES ASSUME IInv, WriteReceipt PROVE IInv'
  OBVIOUS
<1> USE ExecutionAssumption DEF IInv, WriteReceipt, Raise, Goto, world, daemon, checks, outcome,
   files
<1>1. Typed'
  BY DEF Typed, Trees, Labels, Asked, Ambient
<1>2. Flags'
  BY DEF Flags
<1>3. Reported'
  <2>1. CASE UNCHANGED <<outcome, receipt>>
    BY <2>1 DEF Reported
  <2>2. CASE UNCHANGED outcome /\ receipt' = NewReceipt
    BY <2>2, ReceiptTyped DEF Reported
  <2> QED BY <2>1, <2>2 DEF NewReceipt
<1>4. Admitted'
  BY DEF Admitted, Typed, Begun, Docker, Labels, ProfileFields, NormalizedFields
<1>5. AsAsked'
  BY DEF AsAsked, Typed, Early, Asked, Ambient, Compared
<1>6. Asking'
  BY DEF Asking, Early, Docker
<1>7. Removing'
  BY DEF Removing, Asking, Flags, Early, Docker
<1>8. Refused'
  BY DEF Refused, Typed, Asking, Removing, Reasons, Over, Early, Docker
<1>9. Coded'
  BY DEF Coded, Early, Codes
<1>10. Written'
  <2>1. CASE pc' = "raised" /\ UNCHANGED <<tree, raising, receipt>>
    BY <2>1 DEF Written
  <2>2. CASE pc' = "cleanup" /\ receipt' = NewReceipt /\ UNCHANGED <<tree, raising>>
    BY <2>2, ReceiptTyped DEF Written
  <2> QED BY <2>1, <2>2 DEF NewReceipt
<1>11. EligibleIsEarned'
  <2>1. CASE receipt' = receipt
    BY <2>1 DEF EligibleIsEarned, Written
  <2>2. CASE receipt' = NewReceipt
    <3> SUFFICES ASSUME Eligible(NewReceipt)
                 PROVE  /\ policy = "docker" /\ shape = None /\ box = "removed" /\ refusals = 0
                        /\ exit = "zero" => code = "zero"
      BY <2>2 DEF EligibleIsEarned, NewReceipt
    <3>1. Docker /\ verified /\ imported = "trusted_side" /\ reason = None
      BY DEF Eligible, NewReceipt
    <3>2. policy = "docker"
      BY <3>1 DEF Docker, Admitted, Begun
    <3>3. shape = None
      BY <3>1 DEF AsAsked
    <3>4. box = "removed" /\ refusals = 0
      BY <3>1 DEF Removing, Refused, Typed
    <3>5. exit = "zero" => code = "zero"
      BY DEF Coded
    <3> QED BY <3>2, <3>3, <3>4, <3>5
  <2> QED BY <2>1, <2>2 DEF NewReceipt
<1>12. ReceiptUnlessDisturbed'
  BY DEF ReceiptUnlessDisturbed, Written, Typed, Trees, Undisturbed, EngineHolds
<1> QED BY <1>1, <1>2, <1>3, <1>4, <1>5, <1>6, <1>7, <1>8, <1>9, <1>10, <1>11, <1>12

LEMMA ScratchInv == IInv /\ RemoveScratch => IInv'
<1> SUFFICES ASSUME IInv, RemoveScratch PROVE IInv'
  OBVIOUS
<1> USE ExecutionAssumption DEF IInv, RemoveScratch, Raise, Goto, world, daemon, checks, outcome,
   files
<1>1. Typed'
  BY DEF Typed, Trees, Labels, Asked, Ambient
<1>2. Flags'
  BY DEF Flags
<1>3. Reported'
  BY DEF Reported, Terminations, Reasons, Codes, Imports, Receipts
<1>4. Admitted'
  BY DEF Admitted, Typed, Begun, Docker, Labels, ProfileFields, NormalizedFields
<1>5. AsAsked'
  BY DEF AsAsked, Typed, Early, Asked, Ambient, Compared
<1>6. Asking'
  BY DEF Asking, Early, Docker
<1>7. Removing'
  BY DEF Removing, Asking, Flags, Early, Docker
<1>8. Refused'
  BY DEF Refused, Typed, Asking, Removing, Reasons, Over, Early, Docker
<1>9. Coded'
  BY DEF Coded, Early, Codes
<1>10. Written'
  BY DEF Written, Typed, Trees
<1>11. EligibleIsEarned'
  BY DEF EligibleIsEarned, Written, Eligible, Docker
<1>12. ReceiptUnlessDisturbed'
  BY DEF ReceiptUnlessDisturbed, Written, Typed, Trees, Undisturbed, EngineHolds
<1> QED BY <1>1, <1>2, <1>3, <1>4, <1>5, <1>6, <1>7, <1>8, <1>9, <1>10, <1>11, <1>12

(* An interrupt is counted, and a container asked for is still known.      *)
LEMMA InterruptInv == IInv /\ Interrupt => IInv'
<1> SUFFICES ASSUME IInv, Interrupt PROVE IInv'
  OBVIOUS
<1> USE ExecutionAssumption DEF IInv, Interrupt, Raise, Goto, Made, world, daemon, checks,
   outcome, files
<1>1. Typed'
  BY DEF Typed, Trees, Labels, Asked, Ambient
<1>2. Flags'
  BY DEF Flags
<1>3. Reported'
  BY DEF Reported, Terminations, Reasons, Codes, Imports, Receipts
<1>4. Admitted'
  BY DEF Admitted, Typed, Begun, Docker, Labels, ProfileFields, NormalizedFields
<1>5. AsAsked'
  BY DEF AsAsked, Typed, Early, Asked, Ambient, Compared
<1>6. Asking'
  <2>1. attempted \/ pc = "create" => attempted'
    OBVIOUS
  <2>2. pc \notin Early \/ UNCHANGED <<box, attempted>>
    BY DEF Early
  <2>3. pc' \in {"remove", "finally", "raised"} /\ UNCHANGED policy
    OBVIOUS
  <2>4. pc # "create" => box' = box \/ policy = "native"
    OBVIOUS
  <2> QED BY <2>1, <2>3, <2>4 DEF Asking, Early, Docker
<1>7. Removing'
  BY DEF Removing, Asking, Flags, Early, Docker
<1>8. Refused'
  BY DEF Refused, Typed, Asking, Removing, Reasons, Over, Early, Docker
<1>9. Coded'
  BY DEF Coded, Early, Codes
<1>10. Written'
  BY DEF Written, Typed, Trees
<1>11. EligibleIsEarned'
  BY DEF EligibleIsEarned, Written, Eligible, Docker
<1>12. ReceiptUnlessDisturbed'
  BY DEF ReceiptUnlessDisturbed, Written, Typed, Trees, Undisturbed, EngineHolds
<1> QED BY <1>1, <1>2, <1>3, <1>4, <1>5, <1>6, <1>7, <1>8, <1>9, <1>10, <1>11, <1>12

(* The daemon, the command, the clock and the files.                       *)
LEMMA WorldInv == IInv /\ (CommandExits \/ CreateLands \/ Clock \/ Change \/ UNCHANGED vars) => IInv'
<1> SUFFICES ASSUME IInv, CommandExits \/ CreateLands \/ Clock \/ Change \/ UNCHANGED vars PROVE IInv'
  OBVIOUS
<1> USE ExecutionAssumption DEF IInv, CommandExits, CreateLands, Clock, Change, vars, world,
   daemon, checks, outcome, files
<1>1. Typed'
  <2>1. tree' \in Trees /\ engine' \in {"pinned", "other"} /\ late' \in BOOLEAN
    BY DEF Typed, Trees
  <2>2. /\ box' \in {"none", "requested", "created", "running", "exited", "removed"}
        /\ code' \in {None, "zero", "one"}
    BY DEF Typed
  <2> QED BY <2>1, <2>2 DEF Typed
<1>2. Flags'
  BY DEF Flags
<1>3. Reported'
  BY DEF Reported, Terminations, Reasons, Codes, Imports, Receipts
<1>4. Admitted'
  BY DEF Admitted, Typed, Begun, Docker, Labels, ProfileFields, NormalizedFields
<1>5. AsAsked'
  BY DEF AsAsked, Typed, Early, Asked, Ambient, Compared
<1>6. Asking'
  BY DEF Asking, Early, Docker
<1>7. Removing'
  BY DEF Removing, Asking, Flags, Early, Docker
<1>8. Refused'
  BY DEF Refused, Typed, Asking, Removing, Reasons, Over, Early, Docker
<1>9. Coded'
  BY DEF Coded, Early, Codes
<1>10. Written'
  BY DEF Written, Typed, Trees
<1>11. EligibleIsEarned'
  BY DEF EligibleIsEarned, Written, Eligible, Docker
<1>12. ReceiptUnlessDisturbed'
  BY DEF ReceiptUnlessDisturbed, Written, Typed, Trees, Undisturbed, EngineHolds
<1> QED BY <1>1, <1>2, <1>3, <1>4, <1>5, <1>6, <1>7, <1>8, <1>9, <1>10, <1>11, <1>12

THEOREM Invariant == Spec => []IInv
<1>1. IInv /\ [Next]_vars => IInv'
  BY ValidateInv, AdmitInv, BuildArgvInv, LaunchInv, CreateInv, InspectInv, VerifyInv, StartInv,
     WaitInv,
     RemoveInv, FinallyInv, ImportInv, WriteInv, ScratchInv, InterruptInv, WorldInv
     DEF Next, Step
<1> QED BY InitInv, <1>1, PTL DEF Spec

-----------------------------------------------------------------------------
(* Every variable that decides about the outcome stays in its range.       *)
THEOREM TypeCorrect == Spec => [](Typed /\ Flags /\ Reported)
BY Invariant, PTL DEF IInv

(* A receipt that counts as evidence is of a container that was as asked,  *)
(* that is gone, at the first attempt, and whose code zero is the          *)
(* command's own (EligibleIsEarned).                                       *)
THEOREM EligibleSound == Spec => []EligibleIsEarned
BY Invariant, PTL DEF IInv

(* A container outlives the call only when the engine refused to remove it *)
(* or the coordinator was interrupted (LeftBehind).                        *)
THEOREM RemovalSound == Spec => []LeftBehind
<1>1. IInv => LeftBehind
  BY DEF IInv, LeftBehind, Asking, Removing, Refused, Present
<1> QED BY Invariant, <1>1, PTL

(* Without a change, an interrupt, an unreadable identifier or a proxy no  *)
(* call ends without a receipt (ReceiptUnlessDisturbed).                   *)
THEOREM ReceiptSound == Spec => []ReceiptUnlessDisturbed
BY Invariant, PTL DEF IInv
=============================================================================
