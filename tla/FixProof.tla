------------------------------ MODULE FixProof ------------------------------
(***************************************************************************)
(* The executable proof of one fix: _prepare_execution.py freezes what is  *)
(* to be run, run_checks.sh runs the suite (_run_checks of _proof.py),     *)
(* repro.sh runs the regression test before the fix, after it and on the   *)
(* final tree (_run_repro), and closeout.sh lands a fix on what they left  *)
(* in the run directory.  The coordinator calls them in any order and is   *)
(* killed at any point; the tree changes under every call.                 *)
(***************************************************************************)
EXTENDS Integers, FiniteSets

CONSTANTS
  None,
  MaxEdits      \* bound: changes of the tree

ASSUME FixProofAssumption == MaxEdits \in Nat

VARIABLES
  tree,         \* the files of the target
  plan,         \* check-plan.json: its source map
  baseline,     \* baseline.json: the results of the suite
  suite,        \* check-results-verify.json
  pre,          \* repro-requests/BUG/pre.json: its source map
  post,         \* the last repro-requests/BUG/post-*.json
  prestate,     \* proofs/BUG.prestate.json
  proof,        \* proofs/BUG.json
  reverified,   \* fix_reverified events with their receipts, by final source: their number
  call,         \* the running call of repro.sh or run_checks.sh
  edits

prepared == <<plan, pre, post>>
results == <<baseline, suite, prestate, proof, reverified>>
proofVars == <<tree, prepared, results, call, edits>>

-----------------------------------------------------------------------------
(* The target: the file with the bug, which a change may fix or not, the   *)
(* rest of the source and the regression test, which is absent, or tests   *)
(* for the bug, or passes always.  A source map is a tree.                 *)
Files == {"src", "lib", "test"}
Trees == [src : {"buggy", "tried", "fixed"}, lib : {"old", "new", "broken"}, test : {"none", "real", "weak"}]

Reviewed == [src |-> "buggy", lib |-> "old", test |-> "none"]
Intended == {"src"}

Outcome(t) ==
  CASE t.test = "none" -> "missing"
    [] t.test = "weak" -> "pass"
    [] OTHER -> IF t.src = "fixed" THEN "pass" ELSE "failure"

(* What the suite reports, test by test.                                   *)
Results(t) ==
  [n \in {"unit"} \cup (IF t.test = "none" THEN {} ELSE {"regression"}) |->
    IF n = "regression" THEN Outcome(t) ELSE IF t.lib = "broken" THEN "failure" ELSE "pass"]

Passing(results_) == {n \in DOMAIN results_ : results_[n] = "pass"}

(* compare_check_results                                                   *)
Regressions(old, new) ==
  {n \in DOMAIN new : new[n] = "failure" /\ ~(n \in DOMAIN old /\ old[n] = "failure")} \cup
  (Passing(old) \ Passing(new))

ProofInit ==
  /\ tree = Reviewed /\ edits = 0
  /\ plan = None /\ baseline = None /\ suite = None
  /\ pre = None /\ post = None /\ prestate = None /\ proof = None
  /\ reverified = [t \in {} |-> 0] /\ call = None

-----------------------------------------------------------------------------
(* _prepare_execution.py                                                   *)
RefreshChecks ==
  /\ call = None /\ plan' = tree
  /\ UNCHANGED <<tree, pre, post, results, call, edits>>

(* The request is written once, for the reviewed source plus the test.     *)
SameButTest(s, t) == \A f \in Files \ {"test"} : s[f] = t[f]

ReproPre ==
  /\ call = None /\ pre = None
  /\ tree.test # "none" /\ SameButTest(Reviewed, tree)
  /\ pre' = tree
  /\ UNCHANGED <<tree, plan, post, results, call, edits>>

ReproPost ==
  /\ call = None /\ pre # None /\ suite # None
  /\ post' = [sources |-> tree, suite |-> suite]
  /\ UNCHANGED <<tree, plan, pre, results, call, edits>>

-----------------------------------------------------------------------------
(* The execution was of these sources, and they are still there.           *)
Trusted(sources) == tree = sources

(* _check_record is called with the sources of the plan, and a changed     *)
(* tree or plan is an error of the check, not a refusal.                   *)
BeginChecks(phase) ==
  /\ call = None /\ plan # None
  /\ call' = [phase |-> phase, sources |-> tree, suite |-> None,
              outcome |-> IF plan = tree THEN Results(tree) ELSE None]
  /\ UNCHANGED <<tree, prepared, results, edits>>

SuiteReceipt(regressions) ==
  LET error == call.outcome = None \/ ~Trusted(call.sources)
  IN  [sources |-> call.sources, results |-> call.outcome, error |-> error,
       regressions |-> IF error THEN {} ELSE regressions]

EndBaseline ==
  /\ call # None /\ call.phase = "baseline"
  /\ baseline' = SuiteReceipt({})
  /\ call' = None
  /\ UNCHANGED <<tree, prepared, suite, prestate, proof, reverified, edits>>

(* Without a baseline nothing is persisted; with a failed one all is error.*)
EndVerify ==
  /\ call # None /\ call.phase = "verify"
  /\ suite' = IF baseline = None THEN suite
              ELSE IF baseline.error THEN [SuiteReceipt({}) EXCEPT !.error = TRUE]
              ELSE SuiteReceipt(IF call.outcome = None THEN {}
                                ELSE Regressions(baseline.results, call.outcome))
  /\ call' = None
  /\ UNCHANGED <<tree, prepared, baseline, prestate, proof, reverified, edits>>

(* Mutant: a passing suite of any sources.                                 *)
SuiteCompleteElsewhere(receipt, sources) ==
  /\ receipt # None /\ ~receipt.error
  /\ Passing(receipt.results) = DOMAIN receipt.results
  /\ receipt.regressions = {}

(* validate_suite_receipt                                                  *)
SuiteComplete(receipt, sources) ==
  /\ receipt # None /\ ~receipt.error /\ receipt.sources = sources
  /\ Passing(receipt.results) = DOMAIN receipt.results
  /\ receipt.regressions = {}

-----------------------------------------------------------------------------
Error == [status |-> "proof_error", before |-> None, after |-> None, suite |-> None]

(* fail of _run_repro: what is recorded stays, except before the fix.      *)
Fail(phase) == proof' = IF phase # "pre" /\ proof # None THEN proof ELSE Error

Refused(phase) ==
  /\ Fail(phase)
  /\ UNCHANGED <<tree, prepared, baseline, suite, prestate, reverified, call, edits>>

(* _validate_post_request: the test is the one that was red.               *)
PostRequest(request) == prestate # None /\ request.sources.test = prestate.sources.test

MayRecord(phase) == phase = "post" => proof = None

BeginRepro(phase, request) ==
  IF /\ phase # "pre" => PostRequest(request)
     /\ MayRecord(phase)
     /\ Trusted(request.sources)
    THEN /\ call' = [phase |-> phase, sources |-> request.sources, suite |-> request.suite,
                     outcome |-> Outcome(tree)]
         /\ UNCHANGED <<tree, prepared, results, edits>>
    ELSE Refused(phase)

ReproCall ==
  /\ call = None
  /\ \/ pre # None /\ BeginRepro("pre", [sources |-> pre, suite |-> None])
     \/ post # None /\ \E phase \in {"post", "reverify"} : BeginRepro(phase, post)
     \/ \E phase \in {"pre", "post", "reverify"} : Refused(phase)   \* a malformed request

(* The state before the fix is kept even if it is not the expected red.    *)
EndPre ==
  /\ call # None /\ call.phase = "pre"
  /\ IF Trusted(call.sources)
       THEN /\ prestate' = [sources |-> call.sources, outcome |-> call.outcome]
            /\ IF call.outcome = "failure" THEN UNCHANGED proof ELSE Fail("pre")
       ELSE Fail("pre") /\ UNCHANGED prestate
  /\ call' = None
  /\ UNCHANGED <<tree, prepared, baseline, suite, reverified, edits>>

(* Mutant: any set of files may change between red and green.              *)
OnlyIntendedAny(s, t) == s # t

OnlyIntended(s, t) == {f \in Files : s[f] # t[f]} = Intended

(* validate_fix_proof                                                      *)
FixProven(before, after) ==
  /\ before.outcome = "failure" /\ after.outcome = "pass"
  /\ before.sources.test = after.sources.test
  /\ OnlyIntended(before.sources, after.sources)
  /\ SameButTest(Reviewed, before.sources)

EndPost ==
  /\ call # None /\ call.phase = "post"
  /\ LET after == [sources |-> call.sources, outcome |-> call.outcome]
     IN  proof' = IF Trusted(call.sources) /\ SuiteComplete(call.suite, call.sources)
                    THEN [status |-> IF FixProven(prestate, after) THEN "verified" ELSE "proof_error",
                          before |-> prestate, after |-> after, suite |-> call.suite]
                    ELSE IF proof # None THEN proof ELSE Error
  /\ call' = None
  /\ UNCHANGED <<tree, prepared, baseline, suite, prestate, reverified, edits>>

Count(t) == IF t \in DOMAIN reverified THEN reverified[t] ELSE 0

(* validate_fix_reverification: the proof holds and its test is green.     *)
Reproven(original, after) ==
  /\ original.status = "verified" /\ after.outcome = "pass"
  /\ after.sources.test = original.after.sources.test

(* The receipt and its ledger event; more than two are as good as two.     *)
AppendReverified(sources) ==
  reverified' = [t \in DOMAIN reverified \cup {sources} |->
                  IF t # sources THEN reverified[t] ELSE IF Count(t) = 0 THEN 1 ELSE 2]

EndReverify ==
  /\ call # None /\ call.phase = "reverify"
  /\ IF Trusted(call.sources) /\ SuiteComplete(call.suite, call.sources) /\ proof # None
       THEN /\ IF Reproven(proof, call) THEN AppendReverified(call.sources) ELSE UNCHANGED reverified
            /\ UNCHANGED proof
       ELSE Fail("reverify") /\ UNCHANGED reverified
  /\ call' = None
  /\ UNCHANGED <<tree, prepared, baseline, suite, prestate, edits>>

-----------------------------------------------------------------------------
KillCall ==
  /\ call # None /\ call' = None
  /\ UNCHANGED <<tree, prepared, results, edits>>

Edit ==
  /\ edits < MaxEdits /\ edits' = edits + 1
  /\ \E f \in Files, t \in Trees : tree' = [tree EXCEPT ![f] = t[f]] /\ tree' # tree
  /\ UNCHANGED <<prepared, results, call>>

ProofNext ==
  \/ RefreshChecks \/ ReproPre \/ ReproPost
  \/ (\E phase \in {"baseline", "verify"} : BeginChecks(phase)) \/ EndBaseline \/ EndVerify
  \/ ReproCall \/ EndPre \/ EndPost \/ EndReverify
  \/ KillCall \/ Edit

ProofSpec == ProofInit /\ [][ProofNext]_proofVars

-----------------------------------------------------------------------------
(* verify_landed_evidence of closeout.sh: the proof, the suite and exactly *)
(* one revalidation of the sources that are there.                         *)
Landable ==
  /\ SuiteComplete(suite, tree)
  /\ proof # None /\ proof.status = "verified"
  /\ Count(tree) = 1

(* A verified proof is of one test, red on the reviewed source and green   *)
(* once only the intended files have changed, with a suite that passes on  *)
(* exactly that tree, whatever was edited, killed or repeated in between.  *)
ProofIsRedToGreen ==
  proof # None /\ proof.status = "verified" =>
    LET b == proof.before.sources  a == proof.after.sources
    IN  /\ Outcome(b) = "failure" /\ Outcome(a) = "pass" /\ b.test = "real"
        /\ \A f \in Files : b[f] # a[f] <=> f \in Intended
        /\ Passing(Results(a)) = DOMAIN Results(a)
        /\ b.src = Reviewed.src /\ b.lib = Reviewed.lib

(* What closeout.sh lands has the fix, its test and a passing suite at the *)
(* moment it looks, although every receipt is of an earlier one.           *)
LandableIsFixed ==
  Landable => /\ Outcome(tree) = "pass" /\ tree.test = "real" /\ tree.src = "fixed"
              /\ tree.lib # "broken"
=============================================================================
