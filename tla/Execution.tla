----------------------------- MODULE Execution -----------------------------
(***************************************************************************)
(* run_command of _execution.py: one command of the target is run in a     *)
(* container that is created, read back, compared with the policy, started,*)
(* removed and only then trusted for its outputs; one receipt says what    *)
(* happened and validate_execution_receipt says what a receipt is worth.   *)
(* The source tree and the engine's file may change at any time, the       *)
(* daemon may refuse, answer late or finish a request whose client is      *)
(* gone, the deadline may pass and the coordinator be interrupted.         *)
(***************************************************************************)
EXTENDS Naturals

CONSTANTS
  None,
  MaxInterrupts   \* bound: KeyboardInterrupts of the coordinator

(* What a receipt may say.                                                 *)
Terminations == {"exited", "timeout", "cancelled", "backend_unavailable"}
Reasons ==
  {"required_untrusted_backend_not_configured", "engine_unavailable", "deadline_already_expired",
   "backend_launch_failed", "backend_readback_rejected", "backend_removal_failed",
   "deadline_exceeded", "coordinator_cancelled", "stdout_stderr_limit_exceeded",
   "output_import_rejected"}
Codes == {"zero", "one", "killed", "client_error", "file_size"}
Imports == {"not_run", "rejected", "trusted_side"}

Receipts ==
  [termination : Terminations, reason : Reasons \cup {None}, exit : Codes \cup {None},
   docker : BOOLEAN, network : {"unsupported", "unverified", "verified_denied"},
   verified : BOOLEAN, imported : Imports]

ASSUME ExecutionAssumption == MaxInterrupts \in Nat /\ None \notin Reasons \cup Codes \cup Receipts

VARIABLES
  policy,      \* "none", "native", "docker", or "proxied" (docker behind the proxy)
  pc,          \* where run_command is
  tree,        \* the target: "bound" by the manifest, "touched" (content as bound), "changed"
  engine,      \* the engine's file: "pinned" by its digest, or "other"
  late,        \* the deadline has passed
  box,         \* the container; of a native run, its process
  shape,       \* what the container has differently from the request, if anything
  code,        \* exit code of the command itself
  noise,       \* the scratch directory holds what was not declared
  interrupts,
  inventory,   \* tree when the mount inventory was taken
  attempted, created, id, readback, verified, removed, process, exit, raising,
  termination, reason, imported,
  receipt, scratch,
  refusals     \* history: removals that failed

world == <<tree, engine, late, interrupts>>
daemon == <<box, shape, code, noise>>
checks == <<inventory, attempted, created, id, readback, verified>>
outcome == <<process, exit, termination, reason, imported>>
files == <<receipt, scratch>>
vars == <<policy, pc, world, daemon, checks, removed, raising, outcome, files, refusals>>

Docker == policy \in {"docker", "proxied"}
Present == box \in {"created", "running", "exited"}

(* What build_backend_argv asks the engine for, what a daemon can add to   *)
(* it, and what _verify_analysis_inspect compares.                         *)
Asked == {"name", "label", "network", "ipc", "cap_drop", "security_opt", "pids", "memory", "swap",
          "cpus", "user", "read_only", "tmpfs", "source_mount", "scratch_mount", "workdir",
          "entrypoint", "arguments", "environment", "image"}
Ambient == {"cap_add", "privileged", "devices", "ports", "extra_mount", "extra_network"}

Compared ==
  {"name", "label", "image", "user", "workdir", "entrypoint", "arguments", "environment"} \cup
  {"network", "ipc", "privileged", "read_only", "pids", "memory", "swap", "cpus"} \cup
  {"cap_drop", "cap_add", "security_opt", "devices", "ports", "tmpfs"} \cup
  {"source_mount", "scratch_mount", "extra_mount", "extra_network"}

(* _validate_benchmark_profile takes exactly these fields and returns two  *)
(* more.                                                                   *)
ProfileFields == {"host", "proxy_receipt", "internal_network", "egress_network", "proxy",
                  "upstream", "analysis", "client", "arms", "limits"}
NormalizedFields == ProfileFields \cup {"proxy_image_id", "proxy_policy"}

Init ==
  /\ policy \in {"none", "native", "docker", "proxied"}
  /\ pc = "validate"
  /\ tree \in {"bound", "changed"} /\ engine \in {"pinned", "other"} /\ late = FALSE
  /\ box = "none" /\ shape = None /\ code = None /\ noise = FALSE /\ interrupts = 0
  /\ inventory = None /\ attempted = FALSE /\ created = FALSE /\ id = None
  /\ readback = FALSE /\ verified = FALSE
  /\ removed = FALSE /\ raising = FALSE
  /\ process = "none" /\ exit = None /\ termination = "exited" /\ reason = None
  /\ imported = "not_run"
  /\ receipt = None /\ scratch = "none" /\ refusals = 0

-----------------------------------------------------------------------------
Goto(l) == pc' = l

Raise == Goto("raised") /\ UNCHANGED <<raising, outcome, files>>

(* _unavailable_receipt                                                    *)
Unavailable(why) ==
  /\ receipt' = [termination |-> "backend_unavailable", reason |-> why, exit |-> None,
                 docker |-> FALSE, network |-> "unsupported", verified |-> FALSE,
                 imported |-> "not_run"]
  /\ Goto("done")
  /\ UNCHANGED <<raising, outcome, scratch>>

(* The files under the target as the bound manifest has them, and the      *)
(* engine's as its digest has it; a mount inventory tells more, it knows   *)
(* the file that was written with the same bytes again.                    *)
Trees == {"bound", "touched", "changed"}
SourceHolds == tree \in {"bound", "touched"}
EngineHolds == engine = "pinned"
MountInventory == tree

(* _validate_policy, _verify_source_identity and _engine_identity, with    *)
(* the fields of the profile that is given.                                *)
Accepts(fields) == SourceHolds /\ (policy = "proxied" => fields = ProfileFields)

Validate ==
  /\ pc = "validate"
  /\ \/ policy = "none" /\ Unavailable("required_untrusted_backend_not_configured")
        /\ UNCHANGED inventory
     \/ policy # "none" /\ ~Accepts(ProfileFields) /\ Raise /\ UNCHANGED inventory
     \/ /\ policy # "none" /\ Accepts(ProfileFields)
        /\ inventory' = IF Docker THEN MountInventory ELSE None
        /\ Goto(IF EngineHolds THEN "admit" ELSE "unavailable")
        /\ UNCHANGED <<raising, outcome, files>>
  /\ removed' = (policy = "native")
  /\ UNCHANGED <<policy, world, daemon, attempted, created, id, readback, verified, refusals>>

Admit ==
  /\ \/ pc = "unavailable" /\ Unavailable("engine_unavailable")
     \/ pc = "admit" /\ late /\ Unavailable("deadline_already_expired")
     \/ /\ pc = "admit" /\ ~late
        /\ scratch' = "present" /\ Goto("argv")
        /\ UNCHANGED <<raising, outcome, receipt>>
  /\ UNCHANGED <<policy, world, daemon, checks, removed, refusals>>

(* build_backend_argv validates the normalized policy once more.           *)
BuildArgv ==
  /\ pc = "argv"
  /\ IF Accepts(NormalizedFields) /\ EngineHolds
       THEN Goto("launch") /\ UNCHANGED <<raising, outcome, files>>
       ELSE Raise
  /\ UNCHANGED <<policy, world, daemon, checks, removed, refusals>>

(* Mutant: a rejected readback is not caught.                              *)
FailUncaught(isRejected) ==
  /\ raising' = isRejected
  /\ termination' = "backend_unavailable" /\ reason' = "backend_launch_failed"
  /\ Goto("finally") /\ UNCHANGED <<process, exit, imported, files>>

(* The handlers of run_command.                                            *)
Fail(isRejected) ==
  /\ termination' = "backend_unavailable"
  /\ reason' = IF isRejected THEN "backend_readback_rejected" ELSE "backend_launch_failed"
  /\ Goto("finally") /\ UNCHANGED <<raising, process, exit, imported, files>>

PastDeadline ==
  /\ late
  /\ termination' = "timeout" /\ reason' = "deadline_exceeded"
  /\ Goto("finally") /\ UNCHANGED <<raising, process, exit, imported, files>>

Launch ==
  /\ pc = "launch"
  /\ IF EngineHolds
       THEN Goto(IF Docker THEN "create" ELSE "start") /\ UNCHANGED <<raising, outcome, files>>
       ELSE Fail(FALSE)
  /\ UNCHANGED <<policy, world, daemon, checks, removed, refusals>>

(* The container is made as asked, or differs in one respect.              *)
Made(b) == box' = b /\ shape' \in Asked \cup Ambient \cup {None} /\ UNCHANGED <<code, noise>>

IsContainerId(i) == i = "good"

(* docker create: an identifier, which may be unreadable; a failure; or no *)
(* answer in time, with the request still under way.                       *)
Create ==
  /\ pc = "create"
  /\ attempted' = TRUE
  /\ \/ PastDeadline /\ UNCHANGED <<daemon, created, id>>
     \/ /\ ~late /\ EngineHolds /\ Made("created")
        /\ created' = TRUE /\ id' \in {"good", "bad", "unreadable"}
        /\ IF IsContainerId(id') THEN Goto("inspect") /\ UNCHANGED <<raising, outcome, files>>
                                  ELSE Fail(FALSE)
     \/ ~late /\ (\E b \in {"requested", "created"} : Made(b)) /\ Fail(FALSE)
        /\ UNCHANGED <<created, id>>
     \/ ~late /\ Fail(FALSE) /\ UNCHANGED <<daemon, created, id>>
  /\ UNCHANGED <<policy, world, inventory, readback, verified, removed, refusals>>

Inspect ==
  /\ pc = "inspect"
  /\ \/ PastDeadline /\ UNCHANGED readback
     \/ ~late /\ Fail(FALSE) /\ UNCHANGED readback
     \/ /\ ~late /\ EngineHolds
        /\ readback' = TRUE /\ Goto("verify") /\ UNCHANGED <<raising, outcome, files>>
  /\ UNCHANGED <<policy, world, daemon, inventory, attempted, created, id, verified, removed,
                 refusals>>

AsRequested == shape \notin Compared

(* verify_backend_readback, _verify_source_identity, whose ValueError no   *)
(* handler takes, and the comparison of the mount inventory.               *)
Verify ==
  /\ pc = "verify"
  /\ \/ ~AsRequested /\ Fail(TRUE) /\ UNCHANGED verified
     \/ /\ AsRequested /\ ~SourceHolds
        /\ raising' = TRUE /\ Goto("finally") /\ UNCHANGED <<verified, outcome, files>>
     \/ /\ AsRequested /\ SourceHolds /\ MountInventory # inventory
        /\ Fail(TRUE) /\ UNCHANGED verified
     \/ /\ AsRequested /\ SourceHolds /\ MountInventory = inventory
        /\ verified' = TRUE /\ Goto("start") /\ UNCHANGED <<raising, outcome, files>>
  /\ UNCHANGED <<policy, world, daemon, inventory, attempted, created, id, readback, removed,
                 refusals>>

(* docker start --attach, or the command itself.                           *)
Start ==
  /\ pc = "start"
  /\ \/ ~EngineHolds /\ Fail(FALSE) /\ UNCHANGED box
     \/ /\ EngineHolds
        /\ process' = "running" /\ box' = "running" /\ Goto("wait")
        /\ UNCHANGED <<raising, exit, termination, reason, imported, files>>
  /\ UNCHANGED <<policy, world, shape, code, noise, checks, removed, refusals>>

(* The client is reaped, with the code of the command when it has ended,   *)
(* killed at the deadline, or with its own when it loses the daemon or its *)
(* output exceeds the limit.  A native command dies with it, a container   *)
(* runs on.                                                                *)
Reap(status) ==
  /\ process' = "reaped" /\ exit' = status /\ Goto("remove")
  /\ box' = IF policy = "native" THEN "exited" ELSE box
  /\ UNCHANGED <<policy, world, shape, code, noise, checks, removed, raising, imported, files,
                 refusals>>

(* Mutant: the deadline does not end the wait.                             *)
WaitForClient == pc = "wait" /\ box = "exited" /\ Reap(code) /\ UNCHANGED <<termination, reason>>

Wait ==
  /\ pc = "wait"
  /\ \/ box = "exited" /\ Reap(code) /\ UNCHANGED <<termination, reason>>
     \/ late /\ (\E s \in {"killed", code} \ {None} : Reap(s))
        /\ termination' = "timeout" /\ reason' = "deadline_exceeded"

ClientEnds ==
  /\ pc = "wait" /\ box = "running"
  /\ \/ Docker /\ Reap("client_error")
     \/ Reap("file_size")
  /\ UNCHANGED <<termination, reason>>

(* Mutant: the answer of the daemon is not read.                           *)
RemoveOwnedTrusting ==
  /\ Present /\ EngineHolds
  /\ removed' = TRUE /\ box' \in {box, "removed"}
  /\ UNCHANGED refusals

(* _remove_owned_container: what it can inspect and own is removed, unless *)
(* the daemon fails.                                                       *)
RemoveOwned ==
  \/ Present /\ EngineHolds /\ removed' = TRUE /\ box' = "removed" /\ UNCHANGED refusals
  \/ removed' = FALSE /\ refusals' = refusals + 1 /\ UNCHANGED box

Remove ==
  /\ pc = "remove"
  /\ IF created THEN /\ RemoveOwned
                     /\ reason' = IF removed' THEN reason ELSE "backend_removal_failed"
                ELSE UNCHANGED <<removed, box, refusals, reason>>
  /\ Goto("finally")
  /\ UNCHANGED <<policy, world, shape, code, noise, checks, raising, process, exit, termination,
                 imported, files>>

(* Mutant: only a container known to be created is removed.                *)
FinallyOnlyCreated ==
  /\ pc = "finally"
  /\ IF created /\ ~removed THEN RemoveOwned ELSE UNCHANGED <<removed, box, refusals>>
  /\ Goto(IF raising THEN "raised" ELSE "import")
  /\ UNCHANGED <<policy, world, shape, code, noise, checks, raising, outcome, files>>

Finally ==
  /\ pc = "finally"
  /\ IF attempted /\ ~removed THEN RemoveOwned ELSE UNCHANGED <<removed, box, refusals>>
  /\ Goto(IF raising THEN "raised" ELSE "import")
  /\ UNCHANGED <<policy, world, shape, code, noise, checks, raising, outcome, files>>

(* _import_outputs: an unexpected entry, or a copy that fails, rejects all.*)
Import ==
  /\ pc = "import"
  /\ LET limited == IF termination = "exited" /\ exit = "file_size"
                      THEN "stdout_stderr_limit_exceeded" ELSE reason
     IN  IF process # "none" /\ removed
           THEN \/ ~noise /\ imported' = "trusted_side" /\ reason' = limited
                \/ imported' = "rejected" /\ reason' = "output_import_rejected"
           ELSE imported' = (IF process = "none" THEN "not_run" ELSE "rejected") /\ reason' = limited
  /\ Goto("write")
  /\ UNCHANGED <<policy, world, daemon, checks, removed, raising, process, exit, termination,
                 files, refusals>>

(* The receipt of a container whose identifier was never read refers to an *)
(* unbound local and is not written.                                       *)
WriteReceipt ==
  /\ pc = "write"
  /\ IF created /\ id = "unreadable"
       THEN Raise
       ELSE /\ receipt' = [termination |-> termination, reason |-> reason, exit |-> exit,
                           docker |-> Docker,
                           network |-> IF verified THEN "verified_denied" ELSE "unverified",
                           verified |-> verified, imported |-> imported]
            /\ Goto("cleanup") /\ UNCHANGED <<raising, outcome, scratch>>
  /\ UNCHANGED <<policy, world, daemon, checks, removed, refusals>>

RemoveScratch ==
  /\ pc = "cleanup"
  /\ \/ scratch' = "gone" /\ Goto("done") /\ UNCHANGED <<raising, outcome, receipt>>
     \/ Raise
  /\ UNCHANGED <<policy, world, daemon, checks, removed, refusals>>

Step == Validate \/ Admit \/ BuildArgv \/ Launch \/ Create \/ Inspect \/ Verify \/ Start \/ Wait
        \/ Remove \/ Finally \/ Import \/ WriteReceipt \/ RemoveScratch

(* KeyboardInterrupt: inside the try the process is killed and the         *)
(* container removed, elsewhere the exception leaves run_command.          *)
Interrupt ==
  /\ interrupts < MaxInterrupts /\ interrupts' = interrupts + 1
  /\ \/ /\ pc \in {"launch", "create", "inspect", "verify", "start", "wait", "remove"}
        /\ termination' = "cancelled" /\ reason' = "coordinator_cancelled"
        /\ process' = (IF process = "none" THEN "none" ELSE "reaped")
        /\ exit' = (IF process = "running" THEN "killed" ELSE exit)
        /\ attempted' = (attempted \/ pc = "create")
        /\ IF pc = "create" THEN \E b \in {"none", "requested", "created"} : Made(b)
           ELSE /\ box' = IF policy = "native" /\ box = "running" THEN "exited" ELSE box
                /\ UNCHANGED <<shape, code, noise>>
        /\ Goto(IF pc = "wait" THEN "remove" ELSE "finally")
        /\ UNCHANGED <<raising, imported, files>>
     \/ /\ pc \in {"argv", "finally", "import", "write", "cleanup"}
        /\ Raise /\ UNCHANGED <<daemon, attempted>>
  /\ UNCHANGED <<policy, tree, engine, late, inventory, created, id, readback, verified, removed,
                 refusals>>

(* The daemon, the command and the rest of the host.                       *)
CommandExits ==
  /\ box = "running"
  /\ box' = "exited" /\ code' \in {"zero", "one"} /\ noise' \in BOOLEAN
  /\ UNCHANGED <<policy, pc, world, shape, checks, removed, raising, outcome, files, refusals>>

CreateLands ==
  /\ box = "requested"
  /\ box' = "created"
  /\ UNCHANGED <<policy, pc, world, shape, code, noise, checks, removed, raising, outcome, files,
                 refusals>>

Clock ==
  /\ ~late /\ late' = TRUE
  /\ UNCHANGED <<policy, pc, tree, engine, interrupts, daemon, checks, removed, raising, outcome,
                 files, refusals>>

Change ==
  /\ \/ tree # "changed" /\ tree' \in {"touched", "changed"} /\ UNCHANGED engine
     \/ engine' = "other" /\ UNCHANGED tree
  /\ UNCHANGED <<policy, pc, late, interrupts, daemon, checks, removed, raising, outcome, files,
                 refusals>>

Next == Step \/ Interrupt \/ ClientEnds \/ CommandExits \/ CreateLands \/ Clock \/ Change

Spec == Init /\ [][Next]_vars

(* run_command goes on, its calls answer or time out, and time passes.     *)
FairSpec == Spec /\ WF_vars(Step) /\ WF_vars(Clock)

-----------------------------------------------------------------------------
Over == pc \in {"done", "raised"}

(* validate_execution_receipt, for required_network "denied".              *)
Eligible(r) ==
  /\ r.termination = "exited" /\ r.exit # None /\ r.reason = None
  /\ r.docker /\ r.verified /\ r.network = "verified_denied" /\ r.imported = "trusted_side"

(* A receipt that counts as evidence is of a container that was as asked,  *)
(* that is gone, at the first attempt, and whose code zero is the command's   *)
(* own, although client, daemon and command end separately.                *)
EligibleIsEarned ==
  receipt # None /\ Eligible(receipt) =>
    /\ policy = "docker" /\ shape = None /\ box = "removed" /\ refusals = 0
    /\ receipt.exit = "zero" => code = "zero"

(* A container outlives the call only when the engine refused to remove    *)
(* it, when its creation landed after the attempt, or when the coordinator *)
(* was interrupted.                                                        *)
LeftBehind ==
  Over /\ Docker /\ Present => refusals > 0 \/ interrupts > 0

(* Only a change of the tree or the engine, an interrupt, an identifier    *)
(* that cannot be read, or a policy with a proxy makes the call end        *)
(* without a receipt.                                                      *)
Undisturbed == tree = "bound" /\ EngineHolds /\ interrupts = 0 /\ id # "unreadable"
ReceiptUnlessDisturbed == pc = "raised" /\ Undisturbed /\ policy # "proxied" => receipt # None

(* The docstring of run_command: "Execute one argv under trusted external  *)
(* policy and write one immutable receipt".                                *)
WritesReceipt == pc = "raised" /\ Undisturbed => receipt # None

(* Every call ends, whatever the daemon and the command do.                *)
Ends == <>Over
=============================================================================
