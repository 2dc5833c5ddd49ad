--------------------------- MODULE EvidenceProofs ---------------------------
(***************************************************************************)
(* The evidence a run leaves behind: the coverage of its batches, for any  *)
(* batches, commits and number of kills, and the proof of a fix, for any   *)
(* number of edits, kills and repeated calls in any order.                 *)
(***************************************************************************)
EXTENDS Checkpoint, FixProof, FiniteSetTheorems, TLAPS

(* What the process relies on at each step.                                *)
Working == pc \in {"snapshots", "event", "recon"}

Scoped ==
  /\ \A r \in snaps : /\ r.file \in FilesOf[r.batch]
                      /\ Tracked(r.batch, r.head)
                      /\ r.blob = BlobAt[r.head][r.file]
  /\ read = covered \/ pc = "idle"
  /\ todo \subseteq FilesOf[batch]

Bound ==
  /\ pc \in {"head", "clean"} => Existing(batch) = {} /\ todo = FilesOf[batch]
  /\ Working \/ pc = "repair" => commit \in Commits /\ Tracked(batch, commit)
  /\ pc = "clean" => commit \in Commits
  /\ Working \/ pc \in {"head", "clean"} => batch \notin covered
  /\ Working \/ pc = "repair" => \A r \in Existing(batch) : r.head = commit

Counted ==
  /\ \A b \in Batches : events[b] <= 1
  /\ pc \in {"event", "repair"} => events[batch] = 0
  /\ pc \in {"head", "clean", "snapshots"} => (hadEvent <=> events[batch] > 0)

Ordered ==
  /\ pc = "snapshots" /\ batch \notin lost => FilesOf[batch] \ todo \subseteq Recorded(batch)
  /\ pc \in {"event", "recon"} /\ batch \notin lost => FilesOf[batch] \subseteq Recorded(batch)
  /\ pc = "recon" /\ batch \notin lost => events[batch] > 0
  /\ \A b \in covered \ lost : events[b] > 0 /\ FilesOf[b] \subseteq Recorded(b)

IInv == TypeOK /\ Scoped /\ Bound /\ Counted /\ OneCommit /\ Ordered

-----------------------------------------------------------------------------
LEMMA InitInv == Init => IInv
<1> SUFFICES ASSUME Init PROVE IInv
  OBVIOUS
<1> USE CheckpointAssumption DEF Init
<1>1. /\ pc = "idle" /\ snaps = {} /\ covered = {} /\ events = [b \in Batches |-> 0]
      /\ todo = {} /\ batch \in Batches
  BY Zenon
<1>2. hadEvent \in BOOLEAN
  BY Zenon
<1>3. TypeOK
  BY <1>1, <1>2 DEF TypeOK
<1> QED
  BY <1>1, <1>3 DEF IInv, Scoped, Bound, Counted, OneCommit, Ordered, Working, Existing

(* The reads and the choice of a commit.                                   *)
LEMMA StartPreserves ==
  ASSUME IInv, NEW b \in Batches, Start(b) PROVE IInv'
<1> USE CheckpointAssumption DEF Begin, files, repo, Existing
<1>1. /\ UNCHANGED <<snaps, events, torn, covered, lost, head, dirty, kills>>
      /\ batch' = b /\ read' = covered /\ todo' = FilesOf[b] \ Recorded(b)
      /\ hadEvent' = (events[b] > 0)
  BY DEF Start, StartFresh, StartAgain, StartCovered
<1>2. /\ pc' \in {"head", "snapshots", "repair"} /\ commit' \in Commits \cup {NoCommit}
      /\ pc' = "head" => Existing(b) = {}
      /\ pc' # "repair" => b \notin covered
      /\ pc' = "repair" => events[b] = 0
      /\ pc' # "head" => \E r \in Existing(b) : commit' = r.head
  BY DEF Start, StartFresh, StartAgain, StartCovered, Heads, IInv, TypeOK, Lines
<1>3. TypeOK'
  BY <1>1, <1>2 DEF IInv, TypeOK
<1>4. Scoped' /\ OneCommit'
  BY <1>1 DEF IInv, Scoped, OneCommit, Tracked
<1>5. Bound'
  <2>1. pc' = "head" => todo' = FilesOf[b]
    BY <1>1, <1>2 DEF Recorded
  <2>2. pc' # "head" => /\ commit' \in Commits /\ Tracked(b, commit')
                        /\ \A r \in Existing(b) : r.head = commit'
    BY <1>2 DEF IInv, TypeOK, Lines, Scoped, OneCommit
  <2> QED
    BY <1>1, <1>2, <2>1, <2>2 DEF Bound, Tracked, Working
<1>6. Counted'
  BY <1>1, <1>2 DEF IInv, TypeOK, Counted
<1>7. Ordered'
  BY <1>1, <1>2 DEF IInv, TypeOK, Ordered, Recorded
<1> QED
  BY <1>3, <1>4, <1>5, <1>6, <1>7 DEF IInv

LEMMA ResolveHeadPreserves == ASSUME IInv, ResolveHead PROVE IInv'
<1> USE CheckpointAssumption DEF ResolveHead, files, repo, IInv
<1>1. TypeOK'
  BY DEF TypeOK
<1> QED
  BY <1>1 DEF TypeOK, Scoped, Bound, Counted, OneCommit, Ordered, Working, Existing, Recorded, Tracked

LEMMA RequireCleanPreserves == ASSUME IInv, RequireClean PROVE IInv'
<1> USE CheckpointAssumption DEF RequireClean, files, repo, locals, IInv
<1>1. TypeOK'
  BY DEF TypeOK
<1>3. Scoped' /\ Bound' /\ Counted' /\ OneCommit'
  BY <1>1 DEF TypeOK, Scoped, Bound, Counted, OneCommit, Working, Existing, Tracked
<1>4. Ordered'
  <2>1. FilesOf[batch] \ todo = {}
    BY DEF Bound
  <2> QED
    BY <2>1 DEF Ordered, Recorded, Existing
<1> QED
  BY <1>1, <1>3, <1>4

(* One more line of the batch, of the commit of the others, unless it goes *)
(* into a torn one.                                                        *)
LEMMA AppendSnapshotPreserves == ASSUME IInv, AppendSnapshot PROVE IInv'
<1> USE CheckpointAssumption DEF IInv, Appended, repo
<1>1. PICK f \in todo :
        /\ todo' = todo \ {f}
        /\ snaps' = IF "snapshots" \in torn THEN snaps ELSE snaps \cup {Line(batch, f, commit)}
  BY DEF AppendSnapshot
<1>2. /\ UNCHANGED <<events, covered, head, dirty, pc, batch, commit, hadEvent, read, kills>>
      /\ torn' = torn \ {"snapshots"} /\ pc = "snapshots"
      /\ lost' = IF "snapshots" \in torn THEN lost \cup {batch} ELSE lost
  BY DEF AppendSnapshot
<1>3. commit \in Commits /\ Tracked(batch, commit) /\ f \in FilesOf[batch] /\ f \in Paths
  BY <1>1, <1>2 DEF Bound, Scoped, Working, TypeOK
<1>4. Line(batch, f, commit) \in Lines
  <2>1. BlobAt[commit][f] \in Blobs \ {NoBlob}
    BY <1>3 DEF Blobs, Tracked
  <2> QED
    BY <1>3, <2>1 DEF Line, Lines, TypeOK
<1>5. TypeOK'
  BY <1>1, <1>2, <1>4 DEF TypeOK
<1>6. snaps \subseteq snaps' /\ \A r \in snaps' : r \in snaps \/ r = Line(batch, f, commit)
  BY <1>1
<1>7. Scoped'
  BY <1>1, <1>2, <1>3, <1>6 DEF Scoped, Line, Tracked
<1>8. Bound'
  BY <1>1, <1>2, <1>3, <1>6 DEF Bound, Line, Tracked, Working, Existing
<1>9. Counted'
  BY <1>2 DEF Counted
<1>10. OneCommit'
  BY <1>2, <1>6 DEF OneCommit, Bound, Working, Existing, Line
<1>11. Ordered'
  <2>1. \A b \in Batches : Recorded(b) \subseteq Recorded(b)'
    BY <1>6 DEF Recorded, Existing
  <2>2. batch \notin lost' => f \in Recorded(batch)'
    <3> DEFINE r == Line(batch, f, commit)
    <3>1. r.file = f /\ r.batch = batch
      BY DEF Line
    <3>2. batch \notin lost' => r \in snaps'
      BY <1>1, <1>2
    <3> QED
      BY <1>2, <3>1, <3>2 DEF Recorded, Existing
  <2>3. lost \subseteq lost'
    BY <1>2
  <2>4. \A b \in covered' \ lost' : events'[b] > 0 /\ FilesOf[b] \subseteq Recorded(b)'
    BY <1>2, <2>1, <2>3 DEF Ordered, TypeOK
  <2>5. pc' = "snapshots" /\ batch' \notin lost' => FilesOf[batch'] \ todo' \subseteq Recorded(batch)'
    BY <1>1, <1>2, <2>1, <2>2, <2>3 DEF Ordered, TypeOK
  <2> QED
    BY <1>2, <2>4, <2>5 DEF Ordered
<1> QED
  BY <1>5, <1>7, <1>8, <1>9, <1>10, <1>11

LEMMA SnapshotsDonePreserves == ASSUME IInv, SnapshotsDone PROVE IInv'
<1> USE CheckpointAssumption DEF SnapshotsDone, files, repo, locals, IInv
<1>1. TypeOK'
  BY DEF TypeOK
<1>2. Scoped' /\ Bound' /\ OneCommit'
  BY DEF Scoped, Bound, OneCommit, Working, Existing, Tracked
<1>3. events[batch] \in Nat /\ events[batch] <= 1
  BY DEF TypeOK, Counted
<1>4. Counted'
  BY <1>3 DEF Counted
<1>5. Ordered'
  BY <1>3 DEF Ordered, Counted, Recorded, Existing
<1> QED
  BY <1>1, <1>2, <1>4, <1>5

LEMMA AppendEventPreserves == ASSUME IInv, AppendEvent PROVE IInv'
<1> USE CheckpointAssumption DEF AppendEvent, Appended, repo, locals, IInv
<1>1. TypeOK'
  BY DEF TypeOK
<1>2. Scoped' /\ Bound' /\ OneCommit'
  BY DEF Scoped, Bound, OneCommit, Working, Existing, Tracked
<1>3. events[batch] = 0 /\ events \in [Batches -> Nat] /\ batch \in Batches
  BY DEF TypeOK, Counted
<1>4. Counted'
  BY <1>3 DEF Counted
<1>5. \A b \in Batches : events'[b] >= events[b] /\ events'[b] \in Nat
  BY <1>3
<1>6. batch \notin lost' => events'[batch] > 0
  BY <1>3
<1>7. \A b \in covered' \ lost' : events'[b] > 0 /\ FilesOf[b] \subseteq Recorded(b)'
  BY <1>3, <1>5 DEF Ordered, Recorded, Existing, TypeOK
<1>8. Ordered'
  BY <1>6, <1>7 DEF Ordered, Recorded, Existing
<1> QED
  BY <1>1, <1>2, <1>4, <1>8

LEMMA ReplaceReconPreserves == ASSUME IInv, ReplaceRecon PROVE IInv'
<1> USE CheckpointAssumption DEF ReplaceRecon, repo, locals, IInv
<1>1. TypeOK'
  BY DEF TypeOK
<1>2. Scoped' /\ Bound' /\ OneCommit' /\ Counted'
  BY DEF Scoped, Bound, OneCommit, Counted, Working, Existing, Tracked
<1>3. covered' = covered \cup {batch}
  BY DEF Scoped
<1>4. Ordered'
  BY <1>3 DEF Ordered, Recorded, Existing
<1> QED
  BY <1>1, <1>2, <1>4

(* A step that ends the process or leaves it and the files alone.          *)
LEMMA OtherPreserves ==
  ASSUME IInv, Refuse \/ Kill \/ Work \/ (\E s \in Surfaces : Tear(s)) PROVE IInv'
<1> USE CheckpointAssumption DEF IInv
<1>1. /\ UNCHANGED <<snaps, events, covered, batch, commit, todo, hadEvent, read>>
      /\ pc' = pc \/ pc' = "idle"
      /\ lost \subseteq lost'
      /\ pc' = pc => lost' = lost
  BY DEF Refuse, Quit, Kill, Work, Tear, files, repo, locals
<1>2. TypeOK'
  BY <1>1 DEF TypeOK, Refuse, Quit, Kill, Work, Tear, files, repo, locals
<1>3. Scoped' /\ Bound' /\ OneCommit' /\ Counted'
  BY <1>1 DEF Scoped, Bound, OneCommit, Counted, Working, Existing, Tracked
<1>4. Ordered'
  BY <1>1 DEF Ordered, Recorded, Existing
<1> QED
  BY <1>2, <1>3, <1>4

THEOREM Safety == Spec => []IInv
<1>1. IInv /\ [Next]_vars => IInv'
  <2> SUFFICES ASSUME IInv, [Next]_vars PROVE IInv'
    OBVIOUS
  <2>1. CASE Next
    BY <2>1, StartPreserves, ResolveHeadPreserves, RequireCleanPreserves, AppendSnapshotPreserves,
       SnapshotsDonePreserves, AppendEventPreserves, ReplaceReconPreserves, OtherPreserves
       DEF Next, Step
  <2>2. CASE UNCHANGED vars
    BY <2>2 DEF vars, files, repo, locals, IInv, TypeOK, Scoped, Bound, Counted, OneCommit, Ordered,
                Working, Existing, Recorded, Tracked
  <2> QED
    BY <2>1, <2>2
<1> QED
  BY <1>1, InitInv, PTL DEF Spec

(* Every variable of _checkpoint and of its files stays in its range; no   *)
(* line ever names an object that is not tracked at its commit.            *)
THEOREM TypeCorrect == Spec => []TypeOK
<1>1. IInv => TypeOK
  BY DEF IInv
<1> QED
  BY <1>1, Safety, PTL

(* The lines of a batch are of one commit, however HEAD moves between a    *)
(* killed attempt and its retries.                                         *)
THEOREM Single == Spec => []OneCommit
<1>1. IInv => OneCommit
  BY DEF IInv
<1> QED
  BY <1>1, Safety, PTL

(* A batch is counted at most once in the ledger, over any retries.        *)
THEOREM Once == Spec => []EventOnce
<1>1. IInv => EventOnce
  BY DEF IInv, Counted, EventOnce
<1> QED
  BY <1>1, Safety, PTL

(* A batch in the covered list has its event and its lines, of one commit  *)
(* and exact, unless a line of it was glued to a torn one.                 *)
THEOREM Durable == Spec => []CoveredIsDurable
<1>1. IInv => CoveredIsDurable
  <2> SUFFICES ASSUME IInv, NEW b \in covered \ lost
               PROVE  events[b] > 0 /\ Complete(b) /\ Exact(b)
    BY DEF CoveredIsDurable
  <2> USE CheckpointAssumption DEF IInv
  <2>1. b \in Batches /\ events[b] > 0 /\ FilesOf[b] \subseteq Recorded(b)
    BY DEF Ordered, TypeOK
  <2>2. Complete(b)
    BY <2>1 DEF Complete, Recorded, Existing, Scoped
  <2>3. PICK r \in Existing(b) : TRUE
    <3>1. FilesOf[b] # {}
      BY <2>1
    <3> QED
      BY <2>1, <3>1 DEF Recorded
  <2>4. Heads(b) = {r.head}
    BY <2>3 DEF Heads, Existing, OneCommit
  <2>5. Cardinality(Heads(b)) = 1
    BY <2>4, FS_Singleton
  <2>6. \A q \in Existing(b) : q.blob = BlobAt[q.head][q.file]
    BY DEF Existing, Scoped
  <2> QED
    BY <2>1, <2>2, <2>5, <2>6 DEF Exact
<1> QED
  BY <1>1, Safety, PTL

-----------------------------------------------------------------------------
(* The commit of the lines of a batch, as the refinement mapping reads it. *)
Audited == [b \in Batches |-> IF Existing(b) = {} THEN NoCommit
                                                ELSE CHOOSE c \in Heads(b) : TRUE]
Done == {b \in Claimed : Complete(b)}

LEMMA OneHead ==
  ASSUME OneCommit, NEW b \in Batches, NEW r \in Existing(b)
  PROVE  Audited[b] = r.head /\ Existing(b) # {}
<1>1. Heads(b) = {r.head}
  BY DEF Heads, Existing, OneCommit
<1> QED
  BY <1>1 DEF Audited

(* A line is written: the batch is bound by its first, and not done yet.   *)
LEMMA LineMaps ==
  ASSUME IInv, IInv', AppendSnapshot
  PROVE  [\E b \in Batches : \E c \in Commits : Promise!Bind(b, c)]_<<Audited, Done>>
<1> USE DEF IInv
<1>1. /\ batch \in Batches /\ commit \in Commits /\ batch \notin covered
      /\ UNCHANGED <<events, covered, batch>>
  BY DEF AppendSnapshot, TypeOK, Bound, Working
<1>2. snaps' = snaps \/ \E f \in todo : snaps' = snaps \cup {Line(batch, f, commit)}
  BY DEF AppendSnapshot
<1>3. CASE snaps' = snaps
  BY <1>1, <1>3 DEF Audited, Done, Claimed, Complete, Recorded, Existing, Heads
<1>4. ASSUME NEW f \in todo, snaps' = snaps \cup {Line(batch, f, commit)}
      PROVE  [\E b \in Batches : \E c \in Commits : Promise!Bind(b, c)]_<<Audited, Done>>
  <2> DEFINE r == Line(batch, f, commit)
  <2>8. r.batch = batch /\ r.head = commit /\ r \in snaps' /\ \A q \in snaps' : q \in snaps \/ q = r
    BY <1>4 DEF Line
  <2> HIDE DEF r
  <2>1. r \in Existing(batch)'
    BY <1>1, <2>8 DEF Existing
  <2>2. \A b \in Batches \ {batch} : Existing(b)' = Existing(b)
    <3>1. snaps \subseteq snaps'
      BY <1>4
    <3> QED
      BY <2>8, <3>1 DEF Existing
  <2>3. Done' = Done
    BY <1>1, <2>2 DEF Done, Claimed, Complete, Recorded, TypeOK
  <2>4. Audited'[batch] = commit
    <3>1. Heads(batch)' = {commit} /\ Existing(batch)' # {}
      BY <1>1, <2>8, <2>1 DEF Heads, Existing, OneCommit
    <3> QED
      BY <1>1, <3>1 DEF Audited
  <2>5. \A b \in Batches \ {batch} : Audited'[b] = Audited[b]
    BY <2>2 DEF Audited, Heads
  <2>6. CASE Existing(batch) = {}
    <3>1. Audited[batch] = NoCommit
      BY <1>1, <2>6 DEF Audited
    <3>2. Audited' = [Audited EXCEPT ![batch] = commit]
      <4>1. /\ Audited = [b \in Batches |-> Audited[b]]
            /\ Audited' = [b \in Batches |-> Audited'[b]]
        BY DEF Audited
      <4> QED
        BY <1>1, <2>4, <2>5, <4>1
    <3> QED
      BY <1>1, <2>3, <3>1, <3>2 DEF Promise!Bind, Audited, Done
  <2>7. CASE Existing(batch) # {}
    <3>1. PICK q \in Existing(batch) : TRUE
      BY <2>7
    <3>2. q.head = commit
      BY <2>8, <3>1, <1>4 DEF OneCommit, Existing
    <3>3. Audited[batch] = commit
      BY <1>1, <3>1, <3>2, OneHead
    <3>4. Audited' = Audited
      <4>1. /\ Audited = [b \in Batches |-> Audited[b]]
            /\ Audited' = [b \in Batches |-> Audited'[b]]
        BY DEF Audited
      <4> QED
        BY <1>1, <2>4, <2>5, <3>3, <4>1
    <3> QED
      BY <2>3, <3>4
  <2> QED
    BY <2>6, <2>7
<1> QED
  BY <1>2, <1>3, <1>4

(* The event or the list is written: at most this batch becomes done, and  *)
(* only with all its lines.                                                *)
LEMMA CountMaps ==
  ASSUME IInv, IInv', AppendEvent \/ ReplaceRecon
  PROVE  [\E b \in Batches : Promise!Finish(b)]_<<Audited, Done>>
<1> USE CheckpointAssumption DEF IInv
<1>1. batch \in Batches /\ UNCHANGED snaps
  BY DEF AppendEvent, ReplaceRecon, TypeOK
<1>2. Audited' = Audited /\ \A b \in Batches : Complete(b)' = Complete(b)
  BY <1>1 DEF Audited, Complete, Recorded, Existing, Heads
<1>3. \A b \in Batches \ {batch} : b \in Claimed' <=> b \in Claimed
  BY DEF AppendEvent, ReplaceRecon, TypeOK, Scoped, Claimed, repo, locals
<1>4. batch \in Claimed => batch \in Claimed'
  BY DEF AppendEvent, ReplaceRecon, TypeOK, Scoped, Claimed, Counted, repo, locals
<1>5. Claimed \subseteq Batches /\ Claimed' \subseteq Batches
  BY DEF Claimed, TypeOK
<1>6. Done' = Done \/ (Done' = Done \cup {batch} /\ batch \notin Done /\ Complete(batch))
  BY <1>2, <1>3, <1>4, <1>5 DEF Done
<1>7. ASSUME Complete(batch) PROVE Audited[batch] # NoCommit
  <2>1. PICK f \in FilesOf[batch] : f \in Recorded(batch)
    BY <1>1, <1>7 DEF Complete
  <2>2. PICK r \in Existing(batch) : r.file = f
    BY <2>1 DEF Recorded
  <2>3. r.head \in Commits
    BY <2>2 DEF Existing, TypeOK, Lines
  <2> QED
    BY <1>1, <2>2, <2>3, OneHead
<1> QED
  BY <1>1, <1>2, <1>6, <1>7 DEF Promise!Finish, Audited, Done

(* The three files implement Coverage: a batch is bound once to one commit *)
(* and counted once after that, whatever is killed, committed or edited.   *)
THEOREM Implements == Spec => KeepsCoverage
<1>1. Init => Promise!Init
  <2> SUFFICES ASSUME Init PROVE Audited = [b \in Batches |-> NoCommit] /\ Done = {}
    BY DEF Promise!Init, Audited, Done
  <2>1. snaps = {} /\ covered = {}
    BY Zenon DEF Init
  <2> QED
    BY <2>1 DEF Audited, Done, Claimed, Existing
<1>2. IInv /\ IInv' /\ [Next]_vars => [Promise!Next]_<<Audited, Done>>
  <2> SUFFICES ASSUME IInv, IInv', [Next]_vars PROVE [Promise!Next]_<<Audited, Done>>
    OBVIOUS
  <2>1. CASE AppendSnapshot
    BY <2>1, LineMaps DEF Promise!Next
  <2>2. CASE AppendEvent \/ ReplaceRecon
    BY <2>2, CountMaps DEF Promise!Next
  <2>3. CASE UNCHANGED <<snaps, events, covered>>
    BY <2>3 DEF Audited, Done, Claimed, Complete, Recorded, Existing, Heads
  <2>4. CASE \E b \in Batches : Start(b)
    BY <2>3, <2>4 DEF Start, StartFresh, StartAgain, StartCovered, files
  <2>5. CASE ResolveHead \/ RequireClean \/ Refuse \/ SnapshotsDone \/ Kill \/ Work
    BY <2>3, <2>5 DEF ResolveHead, RequireClean, Refuse, Quit, SnapshotsDone, Kill, Work, files
  <2>6. CASE \E s \in Surfaces : Tear(s)
    BY <2>3, <2>6 DEF Tear
  <2>7. CASE UNCHANGED vars
    BY <2>3, <2>7 DEF vars, files
  <2> QED
    BY <2>1, <2>2, <2>4, <2>5, <2>6, <2>7 DEF Next, Step
<1> QED
  BY <1>1, <1>2, Safety, PTL DEF Spec, KeepsCoverage, Promise!Spec, Audited, Done
-----------------------------------------------------------------------------
(* The proof of a fix (module FixProof).                                   *)
(* A receipt of the suite says what the suite reports on its sources.      *)
SuiteHolds(receipt) ==
  receipt # None /\ ~receipt.error => receipt.results = Results(receipt.sources)

(* A call has run on the tree it was begun with.                           *)
CallHolds ==
  call # None =>
    /\ call.phase \in {"baseline", "verify", "pre", "post", "reverify"}
    /\ call.sources \in Trees
    /\ call.phase \in {"baseline", "verify"} => call.outcome \in {None, Results(call.sources)}
    /\ call.phase \in {"pre", "post", "reverify"} =>
         call.outcome = Outcome(call.sources) /\ SuiteHolds(call.suite)
    /\ call.phase = "post" => prestate # None

PrestateHolds ==
  prestate # None => prestate.sources \in Trees /\ prestate.outcome = Outcome(prestate.sources)

(* What has been revalidated is green with the test that was red.          *)
ReverifiedHolds ==
  \A t \in DOMAIN reverified : t \in Trees /\ t.test = "real" /\ Outcome(t) = "pass"

ProofInv ==
  /\ tree \in Trees
  /\ SuiteHolds(suite) /\ (post # None => SuiteHolds(post.suite))
  /\ CallHolds /\ PrestateHolds /\ ReverifiedHolds
  /\ ProofIsRedToGreen

-----------------------------------------------------------------------------
LEMMA RealTest ==
  ASSUME NEW t \in Trees
  PROVE  /\ Outcome(t) = "failure" => t.test = "real"
         /\ t.test = "real" /\ Outcome(t) = "pass" => t.src = "fixed"
BY DEF Trees, Outcome

LEMMA PassingSuite ==
  ASSUME NEW t \in Trees, Passing(Results(t)) = DOMAIN Results(t)
  PROVE  t.lib # "broken"
<1>1. "unit" \in DOMAIN Results(t) /\ Results(t)["unit"] = IF t.lib = "broken" THEN "failure" ELSE "pass"
  BY DEF Results
<1>2. Results(t)["unit"] = "pass"
  BY <1>1 DEF Passing
<1> QED BY <1>1, <1>2

LEMMA ProofInitInv == ProofInit => ProofInv
BY DEF ProofInit, ProofInv, SuiteHolds, CallHolds, PrestateHolds, ReverifiedHolds, ProofIsRedToGreen,
       Trees, Reviewed

(* Preparing, editing and killing write no result.                         *)
LEMMA OtherInv ==
  ASSUME ProofInv, RefreshChecks \/ ReproPre \/ ReproPost \/ KillCall \/ Edit \/ UNCHANGED proofVars
  PROVE  ProofInv'
<1> USE DEF ProofInv, RefreshChecks, ReproPre, ReproPost, KillCall, Edit, proofVars, prepared, results
<1>1. tree' \in Trees
  BY DEF Trees
<1>2. SuiteHolds(suite)' /\ (post # None => SuiteHolds(post.suite))'
  BY DEF SuiteHolds
<1>3. CallHolds'
  BY DEF CallHolds, SuiteHolds
<1>4. PrestateHolds' /\ ReverifiedHolds' /\ ProofIsRedToGreen'
  BY DEF PrestateHolds, ReverifiedHolds, ProofIsRedToGreen
<1> QED BY <1>1, <1>2, <1>3, <1>4

(* The suite: what is written is what was run, or an error.                *)
LEMMA ChecksInv ==
  ASSUME ProofInv, (\E phase \in {"baseline", "verify"} : BeginChecks(phase)) \/ EndBaseline \/ EndVerify
  PROVE  ProofInv'
<1> USE DEF ProofInv, BeginChecks, EndBaseline, EndVerify, prepared, results
<1>1. UNCHANGED <<tree, post, prestate, proof, reverified>>
  OBVIOUS
<1>2. SuiteHolds(suite)'
  <2>1. CASE suite' = suite
    BY <2>1 DEF SuiteHolds
  <2>2. CASE EndVerify /\ suite' = [SuiteReceipt({}) EXCEPT !.error = TRUE]
    <3>1. suite'.error = TRUE
      BY <2>2 DEF SuiteReceipt
    <3> QED BY <3>1 DEF SuiteHolds
  <2>3. ASSUME NEW regressions, EndVerify, suite' = SuiteReceipt(regressions)
        PROVE  SuiteHolds(suite)'
    <3>1. suite'.sources = call.sources /\ suite'.results = call.outcome
      BY <2>3 DEF SuiteReceipt
    <3>2. call.outcome = None => suite'.error = TRUE
      <4> HAVE call.outcome = None
      <4>1. suite' = [sources |-> call.sources, results |-> call.outcome, error |-> TRUE, regressions |-> {}]
        BY <2>3 DEF SuiteReceipt
      <4> QED BY <4>1
    <3>3. call.outcome \in {None, Results(call.sources)}
      BY <2>3 DEF CallHolds
    <3> QED BY <3>1, <3>2, <3>3 DEF SuiteHolds
  <2>4. CASE EndVerify
    BY <2>1, <2>2, <2>3, <2>4
  <2> QED BY <2>1, <2>4
<1>3. CallHolds'
  BY DEF CallHolds
<1>4. (post # None => SuiteHolds(post.suite))'
  BY <1>1 DEF SuiteHolds
<1>5. PrestateHolds' /\ ReverifiedHolds' /\ ProofIsRedToGreen'
  BY <1>1 DEF PrestateHolds, ReverifiedHolds, ProofIsRedToGreen
<1> QED BY <1>1, <1>2, <1>3, <1>4, <1>5

LEMMA RefusedInv ==
  ASSUME ProofInv, NEW phase, Fail(phase), UNCHANGED <<tree, post, suite, prestate, reverified>>,
         call' = call \/ call' = None
  PROVE  ProofInv'
<1> USE DEF ProofInv
<1>1. SuiteHolds(suite)' /\ (post # None => SuiteHolds(post.suite))'
  BY DEF SuiteHolds
<1>2. CallHolds' /\ PrestateHolds' /\ ReverifiedHolds'
  BY DEF CallHolds, SuiteHolds, PrestateHolds, ReverifiedHolds
<1>3. ProofIsRedToGreen'
  BY DEF ProofIsRedToGreen, Fail, Error
<1> QED BY <1>1, <1>2, <1>3

LEMMA BeginInv ==
  ASSUME ProofInv, ReproCall
  PROVE  ProofInv'
<1>1. CASE \E phase \in {"pre", "post", "reverify"} : Refused(phase)
  BY <1>1, RefusedInv DEF Refused, prepared
<1>2. ASSUME NEW phase \in {"pre", "post", "reverify"}, NEW request, BeginRepro(phase, request),
             SuiteHolds(request.suite)
      PROVE  ProofInv'
  <2>1. CASE Refused(phase)
    BY <2>1, RefusedInv DEF Refused, prepared
  <2>2. CASE ~ Refused(phase)
    <3>1. /\ phase # "pre" => prestate # None
          /\ tree = request.sources
          /\ call' = [phase |-> phase, sources |-> request.sources, suite |-> request.suite,
                      outcome |-> Outcome(tree)]
          /\ UNCHANGED <<tree, post, suite, prestate, proof, reverified>>
      BY <1>2, <2>2 DEF BeginRepro, PostRequest, Trusted, prepared, results
    <3>2. CallHolds'
      BY <1>2, <3>1 DEF ProofInv, CallHolds, SuiteHolds
    <3>3. SuiteHolds(suite)' /\ (post # None => SuiteHolds(post.suite))'
      BY <3>1 DEF ProofInv, SuiteHolds
    <3>4. PrestateHolds' /\ ReverifiedHolds' /\ ProofIsRedToGreen'
      BY <3>1 DEF ProofInv, PrestateHolds, ReverifiedHolds, ProofIsRedToGreen
    <3> QED BY <3>1, <3>2, <3>3, <3>4 DEF ProofInv
  <2> QED BY <2>1, <2>2
<1>3. CASE pre # None /\ BeginRepro("pre", [sources |-> pre, suite |-> None])
  BY <1>2, <1>3 DEF SuiteHolds
<1>4. CASE post # None /\ \E phase \in {"post", "reverify"} : BeginRepro(phase, post)
  BY <1>2, <1>4 DEF ProofInv
<1> QED BY <1>1, <1>3, <1>4 DEF ReproCall

LEMMA EndPreInv ==
  ASSUME ProofInv, EndPre
  PROVE  ProofInv'
<1>1. CASE Fail("pre") /\ UNCHANGED prestate
  BY <1>1, RefusedInv DEF EndPre, prepared
<1>2. CASE ~ (Fail("pre") /\ UNCHANGED prestate)
  <2>1. /\ call # None /\ call.phase = "pre"
        /\ prestate' = [sources |-> call.sources, outcome |-> call.outcome]
        /\ proof' = proof \/ Fail("pre")
        /\ call' = None /\ UNCHANGED <<tree, post, suite, reverified>>
    BY <1>2 DEF EndPre, prepared
  <2>2. PrestateHolds'
    BY <2>1 DEF ProofInv, CallHolds, PrestateHolds
  <2>3. ProofIsRedToGreen'
    BY <2>1 DEF ProofInv, ProofIsRedToGreen, Fail, Error
  <2>4. SuiteHolds(suite)' /\ (post # None => SuiteHolds(post.suite))' /\ CallHolds' /\ ReverifiedHolds'
    BY <2>1 DEF ProofInv, SuiteHolds, CallHolds, ReverifiedHolds
  <2> QED BY <2>1, <2>2, <2>3, <2>4 DEF ProofInv
<1> QED BY <1>1, <1>2

LEMMA EndPostInv ==
  ASSUME ProofInv, EndPost
  PROVE  ProofInv'
<1> DEFINE after == [sources |-> call.sources, outcome |-> call.outcome]
<1>1. /\ call # None /\ call.phase = "post" /\ prestate # None
      /\ call' = None /\ UNCHANGED <<tree, post, suite, prestate, reverified>>
  BY DEF EndPost, prepared, ProofInv, CallHolds
<1>2. ProofIsRedToGreen'
  <2>1. CASE /\ SuiteComplete(call.suite, call.sources)
             /\ FixProven(prestate, after)
             /\ proof' = [status |-> "verified", before |-> prestate, after |-> after, suite |-> call.suite]
    <3> DEFINE s == prestate.sources
               t == call.sources
    <3>1. s \in Trees /\ t \in Trees
      BY <1>1 DEF ProofInv, PrestateHolds, CallHolds
    <3>2. Outcome(s) = "failure" /\ Outcome(t) = "pass" /\ s.test = "real"
      BY <1>1, <2>1, <3>1, RealTest DEF FixProven, ProofInv, PrestateHolds, CallHolds
    <3>3. s.src = Reviewed.src /\ s.lib = Reviewed.lib
      BY <2>1 DEF FixProven, SameButTest, Files
    <3>4. \A f \in Files : s[f] # t[f] <=> f \in Intended
      BY <2>1 DEF FixProven, OnlyIntended
    <3>5. Passing(Results(t)) = DOMAIN Results(t)
      BY <1>1, <2>1 DEF ProofInv, CallHolds, SuiteComplete, SuiteHolds
    <3>6. proof'.before.sources = s /\ proof'.after.sources = t
      BY <2>1
    <3> HIDE DEF s, t
    <3> QED BY <3>2, <3>3, <3>4, <3>5, <3>6 DEF ProofIsRedToGreen
  <2>2. CASE proof' = proof
    BY <2>2 DEF ProofInv, ProofIsRedToGreen
  <2>3. CASE proof'.status = "proof_error"
    BY <2>3 DEF ProofIsRedToGreen
  <2> QED BY <2>1, <2>2, <2>3 DEF EndPost, Error
<1>3. SuiteHolds(suite)' /\ (post # None => SuiteHolds(post.suite))'
  BY <1>1 DEF ProofInv, SuiteHolds
<1>4. CallHolds' /\ PrestateHolds' /\ ReverifiedHolds'
  BY <1>1 DEF ProofInv, CallHolds, PrestateHolds, ReverifiedHolds
<1> QED BY <1>1, <1>2, <1>3, <1>4 DEF ProofInv

LEMMA EndReverifyInv ==
  ASSUME ProofInv, EndReverify
  PROVE  ProofInv'
<1>1. /\ call # None /\ call.phase = "reverify" /\ call' = None
      /\ UNCHANGED <<tree, post, suite, prestate>>
  BY DEF EndReverify, prepared
<1>2. CASE Fail("reverify") /\ UNCHANGED reverified
  BY <1>1, <1>2, RefusedInv
<1>3. CASE /\ proof # None /\ proof' = proof
           /\ IF Reproven(proof, call) THEN AppendReverified(call.sources) ELSE UNCHANGED reverified
  <2>1. ReverifiedHolds'
    <3>1. CASE UNCHANGED reverified
      BY <3>1 DEF ProofInv, ReverifiedHolds
    <3>2. CASE Reproven(proof, call) /\ AppendReverified(call.sources)
      <4>1. proof.after.sources.test = "real"
        BY <1>3, <3>2 DEF ProofInv, ProofIsRedToGreen, Reproven, Files, Intended
      <4>2. call.sources \in Trees /\ call.sources.test = "real" /\ Outcome(call.sources) = "pass"
        BY <1>1, <3>2, <4>1 DEF ProofInv, CallHolds, Reproven
      <4>3. DOMAIN reverified' = DOMAIN reverified \cup {call.sources}
        BY <3>2 DEF AppendReverified
      <4> QED BY <4>2, <4>3 DEF ProofInv, ReverifiedHolds
    <3> QED BY <1>3, <3>1, <3>2
  <2>2. SuiteHolds(suite)' /\ (post # None => SuiteHolds(post.suite))'
    BY <1>1 DEF ProofInv, SuiteHolds
  <2>3. CallHolds' /\ PrestateHolds' /\ ProofIsRedToGreen'
    BY <1>1, <1>3 DEF ProofInv, CallHolds, PrestateHolds, ProofIsRedToGreen
  <2> QED BY <1>1, <2>1, <2>2, <2>3 DEF ProofInv
<1> QED BY <1>2, <1>3 DEF EndReverify

THEOREM ProofInductive == ProofSpec => []ProofInv
<1>1. ProofInv /\ [ProofNext]_proofVars => ProofInv'
  BY OtherInv, ChecksInv, BeginInv, EndPreInv, EndPostInv, EndReverifyInv DEF ProofNext
<1> QED BY ProofInitInv, <1>1, PTL DEF ProofSpec

-----------------------------------------------------------------------------
(* A verified proof is of one test, red on the reviewed source and green   *)
(* once only the intended files have changed (ProofIsRedToGreen): the call *)
(* compares what it ran with the state it kept before the fix, and both    *)
(* were run on the sources they name.                                      *)
THEOREM RedToGreen == ProofSpec => []ProofIsRedToGreen
BY ProofInductive, PTL DEF ProofInv

(* What closeout.sh lands has the fix, its test and a passing suite at the *)
(* moment it looks (LandableIsFixed): each receipt names the sources it is *)
(* of, and they are compared with the tree.                                *)
THEOREM LandableSound == ProofSpec => []LandableIsFixed
<1>1. ProofInv => LandableIsFixed
  <2> SUFFICES ASSUME ProofInv, Landable
               PROVE  Outcome(tree) = "pass" /\ tree.test = "real" /\ tree.src = "fixed" /\ tree.lib # "broken"
    BY DEF LandableIsFixed
  <2>1. tree \in DOMAIN reverified
    BY DEF Landable, Count
  <2>2. tree \in Trees /\ tree.test = "real" /\ Outcome(tree) = "pass"
    BY <2>1 DEF ProofInv, ReverifiedHolds
  <2>3. Passing(Results(tree)) = DOMAIN Results(tree)
    BY DEF ProofInv, Landable, SuiteComplete, SuiteHolds
  <2> QED BY <2>2, <2>3, RealTest, PassingSuite
<1> QED BY ProofInductive, <1>1, PTL
=============================================================================
