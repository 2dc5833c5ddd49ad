------------------------------- MODULE Review -------------------------------
(***************************************************************************)
(* _review_evidence.py: a finding is assessed by separate executions of a  *)
(* native host that are not told of each other.  The coordinator freezes   *)
(* the candidate and its source, writes a request for every assessment,    *)
(* runs it and records the verdict, each under the lock of the bug, until  *)
(* it reveals the verdicts; closeout.sh asks whether they suffice.         *)
(* The kernel frees the lock of a killed process.  Evidence is created     *)
(* once and never replaced: a kill inside a write leaves a torn file that  *)
(* stays, and one between two writes leaves an execution without a record. *)
(***************************************************************************)
EXTENDS Integers, FiniteSets

CONSTANTS
  None, Torn,
  Bugs,
  Sources,      \* contents of the target
  Sessions,     \* session ids the host may report
  MaxVotes,     \* the largest required_votes
  MaxRequests,  \* bound: requests written
  MaxKills,     \* bound: processes killed
  MaxEdits      \* bound: changes of the target

Roles == {"skeptic", "referee"}
Verdicts == {"CONFIRMED", "NOT_CONFIRMED"}

(* What a request asks for, and what the host may say.                     *)
Orders == [bug : Bugs, role : Roles, source : Sources]
Answers == [session : Sessions, verdict : Verdicts]

ASSUME ReviewAssumption ==
  /\ MaxVotes \in 1..5 /\ MaxRequests \in Nat /\ MaxKills \in Nat /\ MaxEdits \in Nat
  /\ None # Torn /\ {None, Torn} \cap (Sources \cup Orders \cup Answers) = {}

VARIABLES
  tree, digests,  \* the target, and source-digests.json
  candidate,      \* bug -> source of candidate.json
  archive,        \* bug -> sources archived for it
  executions,     \* the directories for executions exist
  request,        \* request file: bug, role and source
  output,         \* output directory of an execution, with what the host said
  record,         \* the recorded verdict
  revealed,       \* bugs with prior-verdicts-revealed.json
  call,           \* bug -> the process that holds its lock
  kills, edits

evidence == <<candidate, archive, request, output, record, revealed>>
vars == <<tree, digests, evidence, executions, call, kills, edits>>

(* Every request has a fresh execution id; they are numbered as they come. *)
Requests == 1..MaxRequests

Init ==
  /\ tree \in Sources /\ digests = tree
  /\ candidate = [b \in Bugs |-> None] /\ archive = [b \in Bugs |-> {}]
  /\ executions = FALSE /\ revealed = {}
  /\ request = [r \in Requests |-> None]
  /\ output = [r \in Requests |-> None] /\ record = [r \in Requests |-> None]
  /\ call = [b \in Bugs |-> None]
  /\ kills = 0 /\ edits = 0

Enter(b, process) == call[b] = None /\ call' = [call EXCEPT ![b] = process]
Leave(b) == call' = [call EXCEPT ![b] = None]
Doing(b, step) == call[b] # None /\ call[b].step = step
GoOn(b, step) == call' = [call EXCEPT ![b].step = step]

-----------------------------------------------------------------------------
(* prepare_review, under the lock of the bug.  Its writes only depend on   *)
(* each other and on the target, so that a call is one step that gets all  *)
(* the way or stops behind one of them: killed, or because the target has  *)
(* changed by the time _prepare_archive copies it.                         *)
MayPrepare(b) ==
  /\ call[b] = None /\ b \notin revealed
  /\ tree = digests
  /\ candidate[b] \in {None, digests}

FreezeCandidate(b) == candidate' = [candidate EXCEPT ![b] = digests]
PrepareArchive(b) == archive' = [archive EXCEPT ![b] = @ \cup {digests}]

WriteRequest(b, role) ==
  /\ MayPrepare(b)
  /\ FreezeCandidate(b) /\ PrepareArchive(b)
  /\ \E r \in Requests :
       /\ request[r] = None /\ \A q \in 1..(r - 1) : request[q] # None
       /\ request' = [request EXCEPT ![r] = [bug |-> b, role |-> role, source |-> digests]]
  /\ UNCHANGED <<tree, digests, output, record, revealed, executions, call, kills, edits>>

StopPreparing(b) ==
  /\ MayPrepare(b)
  /\ FreezeCandidate(b)
  /\ PrepareArchive(b) \/ UNCHANGED archive
  /\ UNCHANGED <<tree, digests, request, output, record, revealed, executions, call, kills, edits>>

(* A kill inside _write_once: the file exists and nobody can read it.  A   *)
(* torn request is one nobody runs.                                        *)
TearCandidate(b) ==
  /\ MayPrepare(b) /\ candidate[b] = None
  /\ candidate' = [candidate EXCEPT ![b] = Torn]
  /\ kills < MaxKills /\ kills' = kills + 1
  /\ UNCHANGED <<tree, digests, archive, request, output, record, revealed, executions, call, edits>>

-----------------------------------------------------------------------------
(* run_review: the output directory must be new and its parent must exist. *)
(* Nothing in the scripts makes the parent.                                *)
EnterRun(r) ==
  /\ request[r] # None
  /\ request[r].bug \notin revealed
  /\ request[r].source \in archive[request[r].bug]
  /\ executions /\ output[r] = None
  /\ Enter(request[r].bug, [step |-> "execute", request |-> r])
  /\ UNCHANGED <<tree, digests, evidence, executions, kills, edits>>

(* run_command: the host reports a session and a verdict, or the execution *)
(* or its validation fails.                                                *)
Execute(b) ==
  /\ Doing(b, "execute")
  /\ \/ \E answer \in Answers :
          /\ output' = [output EXCEPT ![call[b].request] = answer]
          /\ GoOn(b, "record")
     \/ output' = [output EXCEPT ![call[b].request] = Torn] /\ Leave(b)
  /\ UNCHANGED <<tree, digests, candidate, archive, request, record, revealed, executions, kills, edits>>

RecordVerdict(b) ==
  /\ Doing(b, "record")
  /\ record' = [record EXCEPT ![call[b].request] = output[call[b].request]]
  /\ Leave(b)
  /\ UNCHANGED <<tree, digests, candidate, archive, request, output, revealed, executions, kills, edits>>

(* Mutant: without the lock.                                               *)
RevealUnlocked(b) ==
  /\ b \notin revealed
  /\ revealed' = revealed \cup {b}
  /\ UNCHANGED <<tree, digests, candidate, archive, request, output, record, executions, call, kills, edits>>

(* reveal_prior_verdicts                                                   *)
Reveal(b) ==
  /\ call[b] = None
  /\ b \notin revealed
  /\ revealed' = revealed \cup {b}
  /\ UNCHANGED <<tree, digests, candidate, archive, request, output, record, executions, call, kills, edits>>

-----------------------------------------------------------------------------
(* A kill between two writes; an execution that has begun leaves its       *)
(* output directory.                                                       *)
Abandoned(b) ==
  IF Doing(b, "execute") THEN [output EXCEPT ![call[b].request] = Torn] ELSE output

Kill(b) ==
  /\ call[b] # None /\ kills < MaxKills
  /\ kills' = kills + 1
  /\ output' = Abandoned(b)
  /\ Leave(b)
  /\ UNCHANGED <<tree, digests, candidate, archive, request, record, revealed, executions, edits>>

TearRecord(b) ==
  /\ Doing(b, "record")
  /\ record' = [record EXCEPT ![call[b].request] = Torn]
  /\ Leave(b)
  /\ kills < MaxKills /\ kills' = kills + 1
  /\ UNCHANGED <<tree, digests, candidate, archive, request, output, revealed, executions, edits>>

(* Fixes and other edits of the target, and refresh_checks after them.     *)
Edit ==
  /\ edits < MaxEdits /\ edits' = edits + 1
  /\ tree' \in Sources \ {tree}
  /\ UNCHANGED <<digests, evidence, executions, call, kills>>

RefreshDigests ==
  /\ digests # tree /\ digests' = tree
  /\ UNCHANGED <<tree, evidence, executions, call, kills, edits>>

(* Somebody makes the directories for the executions.                      *)
MakeExecutions ==
  /\ ~ executions /\ executions' = TRUE
  /\ UNCHANGED <<tree, digests, evidence, call, kills, edits>>

Next ==
  \/ \E b \in Bugs : \/ \E role \in Roles : WriteRequest(b, role)
                     \/ StopPreparing(b) \/ TearCandidate(b)
                     \/ Execute(b) \/ RecordVerdict(b) \/ Reveal(b) \/ Kill(b) \/ TearRecord(b)
  \/ \E r \in Requests : EnterRun(r)
  \/ Edit \/ RefreshDigests \/ MakeExecutions

Spec == Init /\ [][Next]_vars

-----------------------------------------------------------------------------
(* validate_review_set.                                                    *)
Recorded(b, roles) ==
  {r \in Requests : record[r] # None /\ request[r].bug = b /\ request[r].role \in roles}

AllRecorded == UNION {Recorded(b, Roles) : b \in Bugs}

Readable(rs) == \A r \in rs : record[r] # Torn

Confirmed(rs) == {r \in rs : record[r].verdict = "CONFIRMED"}

(* A session counts for one record of one bug only.                        *)
Unshared(b) ==
  LET own == Recorded(b, {"referee"})
      others == AllRecorded \ own
  IN /\ \A r, q \in own : r # q => record[r].session # record[q].session
     /\ \A r \in own, q \in others : record[r].session # record[q].session

(* Mutant: half of the votes suffice.                                      *)
EligibleByHalf(b, source, votes) ==
  LET own == Recorded(b, {"referee"})
  IN /\ Readable(AllRecorded) /\ Unshared(b)
     /\ \A r \in own : request[r].source = source
     /\ Cardinality(own) = votes
     /\ Cardinality(Confirmed(own)) >= votes \div 2

Eligible(b, source, votes) ==
  LET own == Recorded(b, {"referee"})
  IN /\ Readable(AllRecorded) /\ Unshared(b)
     /\ \A r \in own : request[r].source = source
     /\ Cardinality(own) = votes
     /\ Cardinality(Confirmed(own)) > votes \div 2

Credited == {b \in Bugs : \E source \in Sources, votes \in 1..MaxVotes : Eligible(b, source, votes)}

(* A finding is eligible only on as many finished executions as votes, of  *)
(* one source, that of its frozen candidate, in sessions of their own, and *)
(* with more of them for it than not, whatever was killed or edited; and   *)
(* no session of the host counts for two findings, whatever order the two  *)
(* were reviewed in.                                                       *)
ReviewIsEarned ==
  /\ \A b \in Bugs, source \in Sources, votes \in 1..MaxVotes : Eligible(b, source, votes) =>
       LET ran == {r \in Requests : /\ output[r] \notin {None, Torn} /\ record[r] = output[r]
                                    /\ request[r].bug = b /\ request[r].role = "referee"}
       IN /\ candidate[b] = source /\ source \in archive[b] /\ \A r \in ran : request[r].source = source
          /\ Cardinality({output[r].session : r \in ran}) = votes
          /\ 2 * Cardinality({r \in ran : output[r].verdict = "CONFIRMED"}) > votes
  /\ \A b, c \in Credited : b # c =>
       \A r \in Recorded(b, {"referee"}), q \in Recorded(c, {"referee"}) :
         record[r].session # record[q].session

(* Once the verdicts are revealed no assessment of the bug is recorded any *)
(* more, be it one that began before: a first assessment is a blind one.   *)
RevealFreezes ==
  [][\A b \in revealed : \A r \in Requests :
       request[r] # None /\ request[r].bug = b => record'[r] = record[r]]_vars
=============================================================================
