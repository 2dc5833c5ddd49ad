----------------------------- MODULE Checkpoint -----------------------------
(***************************************************************************)
(* _mark_batch_covered.py: a fully reviewed batch is recorded in three     *)
(* files, each appended or replaced after the last: one line per file of   *)
(* the batch in audit-snapshots.jsonl, one event in ledger.jsonl, and the  *)
(* list `covered' of recon.json.  The process may be killed between any    *)
(* two writes or inside an append, which leaves a line without its end:    *)
(* readers drop it, and the next append continues it, so that neither the  *)
(* torn line nor the one written behind it can ever be parsed.             *)
(* HEAD and the working tree change at any time.  SKILL.md has one         *)
(* coordinator that checkpoints one batch at a time.                       *)
(***************************************************************************)
EXTENDS Naturals, FiniteSets

CONSTANTS
  Batches, Paths,
  FilesOf,    \* batches[].files of recon.json
  Commits, NoCommit,
  BlobAt,     \* git ls-tree: the object of a path at a commit
  NoBlob,     \* the path is not tracked there
  MaxKills    \* bound: processes killed

ASSUME CheckpointAssumption ==
  /\ FilesOf \in [Batches -> (SUBSET Paths) \ {{}}]
  /\ NoCommit \notin Commits
  /\ MaxKills \in Nat

VARIABLES
  snaps,      \* parseable lines of audit-snapshots.jsonl
  events,     \* parseable batch_covered events of ledger.jsonl, per batch
  torn,       \* files that end inside a line
  covered,    \* recon.json covered
  head, dirty,\* HEAD, and the tracked paths that differ from it
  pc, batch, commit, todo, hadEvent, read,  \* _checkpoint and its locals
  kills,
  lost        \* history: batches a line of which was glued to a torn one

files == <<snaps, events, torn, covered, lost>>
repo == <<head, dirty>>
locals == <<batch, commit, todo, hadEvent, read>>
vars == <<files, repo, locals, pc, kills>>

Surfaces == {"snapshots", "ledger"}
Line(b, f, c) == [batch |-> b, file |-> f, head |-> c, blob |-> BlobAt[c][f]]
Blobs == UNION {{BlobAt[c][f] : f \in Paths} : c \in Commits}
Lines == [batch : Batches, file : Paths, head : Commits, blob : Blobs \ {NoBlob}]

Init ==
  /\ snaps = {} /\ events = [b \in Batches |-> 0] /\ torn = {} /\ covered = {} /\ lost = {}
  /\ head \in Commits /\ dirty = {}
  /\ pc = "idle" /\ batch \in Batches /\ commit = NoCommit /\ todo = {} /\ hadEvent = FALSE
  /\ read = {}
  /\ kills = 0

(* _snapshot_records                                                       *)
Existing(b) == {r \in snaps : r.batch = b}
Recorded(b) == {r.file : r \in Existing(b)}
Heads(b) == {r.head : r \in Existing(b)}
Complete(b) == Recorded(b) = FilesOf[b]

(* _verify_or_prepare_snapshots with records: one commit, its objects.     *)
Exact(b) == Cardinality(Heads(b)) = 1 /\ \A r \in Existing(b) : r.blob = BlobAt[r.head][r.file]

(* _blob_oids refuses a path that is not tracked at the commit.            *)
Tracked(b, c) == \A f \in FilesOf[b] : BlobAt[c][f] # NoBlob

-----------------------------------------------------------------------------
Begin(b) ==
  /\ pc = "idle"
  /\ batch' = b /\ read' = covered /\ todo' = FilesOf[b] \ Recorded(b)
  /\ hadEvent' = (events[b] > 0)

Quit == pc' = "idle" /\ UNCHANGED <<files, repo, locals, kills>>

(* A batch without a record gets the commit HEAD names.                    *)
StartFresh(b) ==
  /\ Begin(b)
  /\ b \notin covered /\ Existing(b) = {}
  /\ pc' = "head" /\ commit' = NoCommit
  /\ UNCHANGED <<files, repo, kills>>

(* Mutant: a retry wants all records to be there.                          *)
StartAgainComplete(b) ==
  /\ Begin(b)
  /\ b \notin covered /\ Existing(b) # {} /\ Exact(b) /\ Complete(b)
  /\ commit' \in Heads(b)
  /\ pc' = "snapshots"
  /\ UNCHANGED <<files, repo, kills>>

(* A retry keeps the commit of the records it finds; with an event but     *)
(* without all records it refuses.                                         *)
StartAgain(b) ==
  /\ Begin(b)
  /\ b \notin covered /\ Existing(b) # {} /\ Exact(b)
  /\ events[b] > 0 => Complete(b)
  /\ commit' \in Heads(b)
  /\ pc' = "snapshots"
  /\ UNCHANGED <<files, repo, kills>>

(* A covered batch is only verified, and its event repaired.               *)
StartCovered(b) ==
  /\ Begin(b)
  /\ b \in covered /\ Complete(b) /\ Exact(b)
  /\ events[b] = 0
  /\ commit' \in Heads(b)
  /\ pc' = "repair"
  /\ UNCHANGED <<files, repo, kills>>

ResolveHead ==
  /\ pc = "head"
  /\ commit' = head
  /\ pc' = "clean"
  /\ UNCHANGED <<files, repo, batch, todo, hadEvent, read, kills>>

(* _require_head_clean compares with the HEAD of now.                      *)
RequireClean ==
  /\ pc = "clean"
  /\ FilesOf[batch] \cap dirty = {} /\ Tracked(batch, commit) /\ ~hadEvent
  /\ pc' = "snapshots"
  /\ UNCHANGED <<files, repo, locals, kills>>

Refuse ==
  /\ pc = "clean"
  /\ FilesOf[batch] \cap dirty # {} \/ ~Tracked(batch, commit) \/ hadEvent
  /\ Quit

(* _append_jsonl: one write per line.                                      *)
Appended(surface) ==
  /\ torn' = torn \ {surface}
  /\ lost' = IF surface \in torn THEN lost \cup {batch} ELSE lost

AppendSnapshot ==
  /\ pc = "snapshots"
  /\ \E f \in todo :
       /\ todo' = todo \ {f}
       /\ snaps' = IF "snapshots" \in torn THEN snaps ELSE snaps \cup {Line(batch, f, commit)}
  /\ Appended("snapshots")
  /\ UNCHANGED <<events, covered, repo, pc, batch, commit, hadEvent, read, kills>>

(* Mutant: the list is replaced before the event is written.               *)
SnapshotsDoneToRecon ==
  /\ pc = "snapshots" /\ todo = {}
  /\ pc' = "recon"
  /\ UNCHANGED <<files, repo, locals, kills>>

SnapshotsDone ==
  /\ pc = "snapshots" /\ todo = {}
  /\ pc' = IF hadEvent THEN "recon" ELSE "event"
  /\ UNCHANGED <<files, repo, locals, kills>>

AppendEvent ==
  /\ pc \in {"event", "repair"}
  /\ events' = IF "ledger" \in torn THEN events ELSE [events EXCEPT ![batch] = @ + 1]
  /\ Appended("ledger")
  /\ pc' = IF pc = "event" THEN "recon" ELSE "idle"
  /\ UNCHANGED <<snaps, covered, repo, locals, kills>>

(* Mutant: the list is replaced by the one batch.                          *)
ReplaceReconOnly ==
  /\ pc = "recon"
  /\ covered' = {batch}
  /\ pc' = "idle"
  /\ UNCHANGED <<snaps, events, torn, lost, repo, locals, kills>>

(* _atomic_json: the list as read at the start, with the batch.            *)
ReplaceRecon ==
  /\ pc = "recon"
  /\ covered' = read \cup {batch}
  /\ pc' = "idle"
  /\ UNCHANGED <<snaps, events, torn, lost, repo, locals, kills>>

Kill ==
  /\ pc # "idle" /\ kills < MaxKills
  /\ kills' = kills + 1
  /\ pc' = "idle"
  /\ UNCHANGED <<files, repo, locals>>

(* ... inside the write of a line.                                         *)
Tear(surface) ==
  /\ kills < MaxKills
  /\ \/ surface = "snapshots" /\ pc = "snapshots" /\ todo # {}
     \/ surface = "ledger" /\ pc \in {"event", "repair"}
  /\ kills' = kills + 1
  /\ pc' = "idle"
  /\ torn' = torn \cup {surface}
  /\ lost' = IF surface \in torn THEN lost \cup {batch} ELSE lost
  /\ UNCHANGED <<snaps, events, covered, repo, locals>>

(* Commits, checkouts and edits.                                           *)
Work ==
  /\ head' \in Commits /\ dirty' \in SUBSET Paths
  /\ UNCHANGED <<files, locals, pc, kills>>

Start(b) == StartFresh(b) \/ StartAgain(b) \/ StartCovered(b)

Step == ResolveHead \/ RequireClean \/ Refuse \/ AppendSnapshot \/ SnapshotsDone \/ AppendEvent
        \/ ReplaceRecon

Next ==
  \/ \E b \in Batches : Start(b)
  \/ Step \/ Kill \/ Work
  \/ \E s \in Surfaces : Tear(s)

Spec == Init /\ [][Next]_vars

(* A started process runs on, and the coordinator comes back to each       *)
(* batch; kills and work in the repository are nobody's duty.              *)
FairSpec == Spec /\ WF_vars(Step) /\ \A b \in Batches : SF_vars(Start(b))

-----------------------------------------------------------------------------
TypeOK ==
  /\ snaps \subseteq Lines /\ events \in [Batches -> Nat] /\ torn \subseteq Surfaces
  /\ covered \subseteq Batches /\ lost \subseteq Batches /\ read \subseteq Batches
  /\ head \in Commits /\ dirty \subseteq Paths
  /\ pc \in {"idle", "head", "clean", "snapshots", "event", "recon", "repair"}
  /\ batch \in Batches /\ commit \in Commits \cup {NoCommit} /\ todo \subseteq Paths
  /\ hadEvent \in BOOLEAN /\ kills \in 0..MaxKills

(* verify_run_coverage                                                     *)
Claimed == {b \in covered : events[b] > 0}

(* A batch in `covered' has its event and all its lines, of one commit, on *)
(* disk: the list is the last write of a checkpoint, however often one was *)
(* killed before it.  Only a batch a line of which went into a torn line   *)
(* is excepted (_checkpoint).                                              *)
CoveredIsDurable ==
  \A b \in covered \ lost : events[b] > 0 /\ Complete(b) /\ Exact(b)

(* The same without the exception, as the comment of _checkpoint has it.   *)
CoveredHasSurfaces == \A b \in covered : events[b] > 0 /\ Complete(b)

(* However HEAD moves between an attempt and its retry, the lines of a     *)
(* batch are of one commit (_verify_or_prepare_snapshots).                 *)
OneCommit == \A r, q \in snaps : r.batch = q.batch => r.head = q.head

(* A retry does not count a batch twice in the ledger.                     *)
EventOnce == \A b \in Batches : events[b] <= 1

(* When the working tree comes to rest on commits with all paths, a batch  *)
(* that is retried is covered in the end, wherever its attempts were       *)
(* killed, unless one of its lines was lost.                               *)
Rest == dirty = {} /\ \A b \in Batches : Tracked(b, head)
RetryCovers == <>[]Rest => \A b \in Batches : <>(b \in covered \/ b \in lost)

(* The three files implement the promise: a batch is bound by its first    *)
(* line and done when the three agree.                                     *)
Promise == INSTANCE Coverage WITH
  audited <- [b \in Batches |-> IF Existing(b) = {} THEN NoCommit ELSE CHOOSE c \in Heads(b) : TRUE],
  done <- {b \in Claimed : Complete(b)}
KeepsCoverage == Promise!Spec
=============================================================================
