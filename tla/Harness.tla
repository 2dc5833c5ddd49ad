------------------------------ MODULE Harness -------------------------------
(***************************************************************************)
(* The managed campaign of the benchmark (harness.py): for every row of    *)
(* the frozen order one proxy is started, one slot of pipeline stages is   *)
(* run against it, the proxy is stopped, its usage sealed and one receipt  *)
(* written.  Starting and stopping may fail half-way, the source may       *)
(* change and the coordinator be interrupted anywhere.                     *)
(***************************************************************************)
EXTENDS Proxy, Sequences

CONSTANTS
  Order,      \* the frozen rows: [block |-> stages, context |-> "off", "cold" or "warm"]
  Stale,      \* rows whose proxy receipt may be there from an earlier campaign
  Sessions    \* bound: native session identities a host may report

Usages == [turns : Nat, charged : Nat]

ASSUME HarnessAssumption ==
  /\ Order \in Seq([block : Seq({"hunter", "skeptic", "referee", "synthesis"}),
                    context : {"off", "cold", "warm"}])
  /\ None \notin Usages /\ Sessions # {}

VARIABLES
  row,        \* ordinal of the row being run
  pc,         \* where invoke_all_managed is
  stage,      \* stages of the block that have ended
  halt,       \* halt_reason is set
  interrupted,
  attempted, started, stopped, doubt,   \* of this row; doubt is cleanup_pending
  box, net, file,                       \* containers, networks and proxy receipts per row
  sealed,     \* usage sealed by proxy.sh stop
  source,     \* the source tree: "frozen" or "other"
  seen,       \* native sessions of the completed stages
  lifecycles, \* lifecycle of the stages run, the context build included
  result,     \* lifecycle of the receipt in hand
  receipts, pending,   \* receipts written, ordinals listed as cleanup pending
  story       \* history: what really happened in each stage of this row

marks == <<attempted, started, stopped, doubt>>
resources == <<box, net, file, sealed>>
slot == <<stage, seen, lifecycles, story>>
ledger == <<receipts, pending>>
vars == <<proxyVars, row, pc, slot, halt, interrupted, marks, resources, source, result, ledger>>

Rows == 1..Len(Order)
Block == Order[row].block
Cold == Order[row].context = "cold"
Goto(l) == pc' = l

Init ==
  /\ caps \in {p \in Policies : LoadPolicy(p)} /\ Idle(FALSE)
  /\ row = 1 /\ pc = "row" /\ stage = 0 /\ halt = FALSE /\ interrupted = FALSE
  /\ attempted = FALSE /\ started = FALSE /\ stopped = FALSE /\ doubt = FALSE
  /\ box = {} /\ net = {} /\ file \in {f \in [Rows -> {"none", "stale"}] : \A k \in Rows \ Stale : f[k] = "none"} /\ sealed = None
  /\ source = "frozen" /\ seen = {} /\ lifecycles = <<>> /\ story = <<>>
  /\ result = "error" /\ receipts = <<>> /\ pending = {}

-----------------------------------------------------------------------------
(* The head of the loop: a halted campaign only writes error receipts.     *)
BeginRow ==
  /\ pc = "row" /\ row <= Len(Order)
  /\ Goto(IF halt THEN "finally" ELSE "manifest")
  /\ UNCHANGED <<proxyVars, row, slot, halt, interrupted, marks, resources, source, result, ledger>>

(* The source as scheduled, and a root, a secret, a cap and a template.    *)
Manifest ==
  /\ pc = "manifest"
  /\ (source = "frozen" /\ Goto("start")) \/ Goto("finally")
  /\ UNCHANGED <<proxyVars, row, slot, halt, interrupted, marks, resources, source, result, ledger>>

(* What proxy.sh start leaves: networks, then the container, then the      *)
(* receipt.  A receipt of an earlier campaign makes it fail.               *)
Makes(parts, wrote) ==
  /\ parts \in {"nothing", "networks", "container"}
  /\ wrote \in (IF parts = "container" /\ file[row] = "none" THEN {"none", "torn", "whole"} ELSE {file[row]})
  /\ net' = IF parts = "nothing" THEN net ELSE net \cup {row}
  /\ box' = IF parts = "container" THEN box \cup {row} ELSE box
  /\ file' = [file EXCEPT ![row] = wrote]
  /\ IF parts = "container"
       THEN /\ up' = TRUE /\ at' = [r \in Requests |-> "idle"] /\ size' = [r \in Requests |-> 0]
            /\ gone' = Requests /\ budget' = Empty /\ events' = {}
            /\ paid' = [r \in Requests |-> None]
       ELSE UNCHANGED <<up, at, size, gone, budget, events, paid>>
  /\ UNCHANGED <<caps, sealed>>

Start ==
  /\ pc = "start"
  /\ attempted' = TRUE
  /\ \E parts \in {"nothing", "networks", "container"}, wrote \in {"none", "stale", "torn", "whole"} :
       /\ Makes(parts, wrote)
       /\ \/ wrote = "whole" /\ started' = TRUE /\ Goto("profile")
          \/ wrote # "whole" /\ started' = FALSE /\ Goto("finally")
  /\ UNCHANGED <<row, slot, halt, interrupted, stopped, doubt, source, result, ledger>>

(* From the proxy receipt to the profile, and the checks of invoke_slot    *)
(* before its first stage; a warm context is validated on the way.         *)
Profile ==
  /\ pc = "profile"
  /\ \/ Goto("finally")
     \/ source = "frozen" /\ Goto("stage")
  /\ UNCHANGED <<proxyVars, row, slot, halt, interrupted, marks, resources, source, result, ledger>>

(* A stage is a container on the internal network; its requests come and   *)
(* go with it.                                                             *)
Total == Len(Block) + (IF Cold THEN 1 ELSE 0)

RunStage ==
  /\ pc = "stage" /\ stage < Total
  /\ gone' = {r \in Requests : at[r] # "idle"}
  /\ Goto("running")
  /\ UNCHANGED <<caps, up, at, size, budget, events, paid>>
  /\ UNCHANGED <<row, slot, halt, interrupted, marks, resources, source, result, ledger>>

(* What one execution gives: run_command raises, exits with a code, and    *)
(* the response names a session and claims.  "other" claims are not those  *)
(* of the Hunter.  run_command raising is an execution that failed.        *)
Outcomes ==
  LET first == CHOOSE s \in Sessions : TRUE IN
  [exec : {"skip", "failed"}, session : {None}, text : {None}, prompt : {TRUE}] \cup
  [exec : {"ok"}, session : Sessions, text : {"claims"}, prompt : {TRUE}] \cup
  [exec : {"ok"}, session : {first}, text : {"claims"}, prompt : {FALSE}] \cup
  [exec : {"ok"}, session : {first}, text : {"other", "garbled"}, prompt : {TRUE}]

IsContext == Cold /\ stage = 0
IsHunter == stage = (IF Cold THEN 1 ELSE 0)

(* Mutant: a stage may go on in the session of an earlier one.             *)
VerifiedAnySession(o) ==
  /\ o.exec = "ok" /\ o.text # "garbled"
  /\ ~IsContext => (IsHunter \/ o.text = "claims")

(* parse_candidates, validate_stage_candidates, parse_context and the      *)
(* sessions that were seen.                                                *)
Verified(o) ==
  /\ o.exec = "ok" /\ o.text # "garbled"
  /\ ~IsContext => (IsHunter \/ o.text = "claims") /\ o.session \notin seen

Completes(o) ==
  /\ Verified(o) /\ source = "frozen" /\ o.prompt
  /\ \A i \in DOMAIN lifecycles : lifecycles[i] = "completed"

EndStage ==
  /\ pc = "running"
  /\ \E o \in Outcomes :
       LET l == IF Completes(o) THEN "completed" ELSE "error" IN
       /\ lifecycles' = Append(lifecycles, l)
       /\ seen' = IF l = "completed" THEN seen \cup {o.session} ELSE seen
       /\ story' = Append(story, [outcome |-> o, source |-> source])
       /\ Goto(IF IsContext /\ l # "completed" THEN "post" ELSE "stage")
  /\ stage' = stage + 1
  /\ gone' = Requests
  /\ UNCHANGED <<caps, up, at, size, budget, events, paid>>
  /\ UNCHANGED <<row, halt, interrupted, marks, resources, source, result, ledger>>

(* The end of invoke_slot.                                                 *)
Finish ==
  LET last == story[Len(story)].outcome IN
  IF /\ Len(story) = Total /\ last.exec = "ok" /\ last.prompt /\ source = "frozen"
     /\ \A i \in DOMAIN lifecycles : lifecycles[i] = "completed"
    THEN "completed"
  ELSE IF last.exec = "skip" THEN "skipped" ELSE "error"

Post ==
  /\ (pc = "stage" /\ stage = Total) \/ pc = "post"
  /\ result' = Finish
  /\ Goto("finally")
  /\ UNCHANGED <<proxyVars, row, slot, halt, interrupted, marks, resources, source, ledger>>

-----------------------------------------------------------------------------
(* The finally block: proxy.sh stop when a receipt names what it owns.     *)
Finally ==
  /\ pc = "finally"
  /\ doubt' = (attempted /\ file[row] = "none")
  /\ Goto(IF attempted /\ file[row] # "none" THEN "seal" ELSE "evidence")
  /\ UNCHANGED <<proxyVars, row, slot, halt, interrupted, attempted, started, stopped, resources,
                 source, result, ledger>>

(* record_usage copies the events while the proxy still serves.            *)
Usage == [turns |-> Cardinality({e \in events : Counted(e)}),
          charged |-> LET counted == {e \in events : Counted(e)}
                      IN Sum([e \in counted |-> e.charged], counted)]

Seal ==
  /\ pc = "seal"
  /\ \/ /\ file[row] = "whole" /\ row \in box
        /\ sealed' = Usage /\ Goto("remove") /\ UNCHANGED doubt
     \/ /\ doubt' = TRUE /\ Goto("evidence") /\ UNCHANGED sealed
  /\ UNCHANGED <<proxyVars, row, slot, halt, interrupted, attempted, started, stopped, box, net, file,
                 source, result, ledger>>

Remove ==
  /\ pc = "remove"
  /\ \E left \in {"all", "networks", "nothing"} :
       /\ box' = IF left = "all" THEN box ELSE box \ {row}
       /\ net' = IF left = "nothing" THEN net \ {row} ELSE net
       /\ up' = (left = "all")
       /\ stopped' = (left = "nothing") /\ doubt' = (left # "nothing")
  /\ Goto("evidence")
  /\ UNCHANGED <<caps, at, size, gone, budget, events, paid>>
  /\ UNCHANGED <<row, slot, halt, interrupted, attempted, started, file, sealed, source, result, ledger>>

(* _post_stop_limit_evidence: a proxy receipt that cannot be read raises   *)
(* doubt.                                                                  *)
Evidence ==
  /\ pc = "evidence"
  /\ \/ started /\ doubt' = TRUE
     \/ UNCHANGED doubt
  /\ Goto("write")
  /\ UNCHANGED <<proxyVars, row, slot, halt, interrupted, attempted, started, stopped, resources,
                 source, result, ledger>>

(* The variables of the loop body start again, and with the container the  *)
(* state of the proxy is gone.                                             *)
NextRow ==
  /\ row' = row + 1 /\ Goto("row")
  /\ stage' = 0 /\ seen' = {} /\ lifecycles' = <<>> /\ story' = <<>>
  /\ attempted' = FALSE /\ started' = FALSE /\ stopped' = FALSE /\ doubt' = FALSE
  /\ result' = "error" /\ sealed' = None
  /\ IF row \in box THEN UNCHANGED proxyVars
     ELSE /\ up' = FALSE /\ at' = [r \in Requests |-> "idle"] /\ size' = [r \in Requests |-> 0]
          /\ gone' = {} /\ budget' = Empty /\ events' = {}
          /\ paid' = [r \in Requests |-> None] /\ UNCHANGED caps

Write ==
  /\ pc = "write"
  /\ receipts' = Append(receipts, result)
  /\ pending' = IF doubt THEN pending \cup {row} ELSE pending
  /\ halt' = (halt \/ doubt)
  /\ NextRow
  /\ UNCHANGED <<interrupted, box, net, file, source>>

Publish ==
  /\ pc = "row" /\ row > Len(Order)
  /\ Goto("done")
  /\ UNCHANGED <<proxyVars, row, slot, halt, interrupted, marks, resources, source, result, ledger>>

-----------------------------------------------------------------------------
(* KeyboardInterrupt inside the try block leaves the row with its error    *)
(* receipt and halts; in the finally block it leaves the loop.             *)
InTry == {"manifest", "profile", "stage", "running", "post"}
InFinally == {"finally", "seal", "remove", "evidence", "write"}

(* Mutant: an interrupted start is taken for one that was not attempted.   *)
InterruptForgetful ==
  /\ ~interrupted /\ interrupted' = TRUE /\ halt' = TRUE
  /\ \/ /\ pc \in InTry /\ gone' = Requests
        /\ UNCHANGED <<caps, up, at, size, budget, events, paid, attempted, resources>>
     \/ /\ pc = "start" /\ UNCHANGED attempted
        /\ \E parts \in {"nothing", "networks", "container"},
              wrote \in {"none", "stale", "torn", "whole"} : Makes(parts, wrote)
  /\ Goto("finally")
  /\ UNCHANGED <<row, slot, started, stopped, doubt, source, result, ledger>>

Interrupt ==
  /\ ~interrupted /\ interrupted' = TRUE /\ halt' = TRUE
  /\ \/ /\ pc \in InTry /\ gone' = Requests
        /\ UNCHANGED <<caps, up, at, size, budget, events, paid, attempted, resources>>
     \/ /\ pc = "start" /\ attempted' = TRUE
        /\ \E parts \in {"nothing", "networks", "container"},
              wrote \in {"none", "stale", "torn", "whole"} : Makes(parts, wrote)
  /\ Goto("finally")
  /\ UNCHANGED <<row, slot, started, stopped, doubt, source, result, ledger>>

InterruptCleanup ==
  /\ ~interrupted /\ interrupted' = TRUE
  /\ pc \in InFinally \cup {"row"}
  /\ Goto("aborted")
  /\ UNCHANGED <<proxyVars, row, slot, halt, marks, resources, source, result, ledger>>

(* Another program writes the source.  Nothing reads it in the finally     *)
(* block, and that it is put back between two manifests is left out.       *)
ChangeSource ==
  /\ pc \in InTry \cup {"row", "start"}
  /\ source = "frozen" /\ source' = "other"
  /\ UNCHANGED <<proxyVars, row, pc, slot, halt, interrupted, marks, resources, result, ledger>>

Harness == <<row, pc, slot, halt, interrupted, marks, resources, source, result, ledger>>

Requesting(r) ==
  /\ Handle(r) \/ HangUp(r)
  /\ UNCHANGED Harness

Step == BeginRow \/ Manifest \/ Start \/ Profile \/ RunStage \/ EndStage \/ Post
        \/ Finally \/ Seal \/ Remove \/ Evidence \/ Write \/ Publish

Next ==
  \/ Step \/ Interrupt \/ InterruptCleanup \/ ChangeSource
  \/ \E r \in Requests : Requesting(r)

(* The coordinator goes on; a stage ends at its deadline.                  *)
Spec == Init /\ [][Next]_vars /\ WF_vars(Step)

-----------------------------------------------------------------------------
(* bench/README.md:106-108, "starts and stops one proxy per ordinal ...    *)
(* and stops starting work when owned cleanup remains uncertain": wherever *)
(* starting, stopping or the coordinator failed before, there is never a   *)
(* second proxy, and a campaign that reports leaves nothing behind that    *)
(* its coordinator-receipt.json does not list as pending.                  *)
LeftoversAreListed ==
  /\ Cardinality(box) <= 1 /\ Cardinality(net) <= 1
  /\ pc = "done" => box \cup net \subseteq pending /\ Len(receipts) = Len(Order)

(* invoke_slot: a completed slot ran every stage of its block, each in a   *)
(* session of its own, over the Hunter's claims, the scheduled source and  *)
(* a verified prompt, and was not interrupted.                             *)
CompletedIsEarned ==
  (pc \in InFinally /\ result = "completed") =>
     /\ Len(story) = Total
     /\ \A i \in DOMAIN story :
          /\ story[i].source = "frozen" /\ story[i].outcome.exec = "ok" /\ story[i].outcome.prompt
          /\ (i > (IF Cold THEN 2 ELSE 1)) => story[i].outcome.text = "claims"
     /\ \A i, j \in DOMAIN story : story[i].outcome.session = story[j].outcome.session => i = j

(* bench/README.md:85, "turn/token/spend caps": no cap is passed by what   *)
(* was really sent, but for the part of a single answer that costs more    *)
(* than its reservation.  The budget is exact although a request whose     *)
(* client hung up is settled twice, and what is sealed may miss requests   *)
(* that were charged but never has more of them than the budget.           *)
AccountsAgree ==
  /\ CapsHold /\ BudgetIsExact
  /\ sealed # None => sealed.turns <= budget.turns /\ sealed.charged <= budget.settled
=============================================================================
