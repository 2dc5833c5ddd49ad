------------------------------ MODULE MkdirLock ------------------------------
(***************************************************************************)
(* bugsweep_lock_acquire and bugsweep_lock_release of common.sh: a lock is *)
(* a directory, its holder the number in the file `pid', and a waiter that *)
(* finds a dead holder takes the lock over in place behind a second file,  *)
(* `takeover'.  One step is one file-system call; the shell may be killed  *)
(* between any two, and a redirection killed half-way leaves an empty      *)
(* file.  An empty file is otherwise read like one that has just been      *)
(* written by a live process, so a completed redirection is one step.      *)
(***************************************************************************)
EXTENDS Naturals, FiniteSets

CONSTANTS
  Shells,       \* shells; a pid is not used again
  Tries,       \* rmdir attempts of a release (3 in the code)
  MaxCrashes,  \* bound: shells that are killed
  NoFile,      \* the file does not exist
  Empty        \* the file has no content

ASSUME LockAssumption ==
  /\ Tries \in Nat /\ MaxCrashes \in Nat
  /\ NoFile \notin Shells /\ Empty \notin Shells /\ NoFile # Empty

VARIABLES
  call,      \* next call of each shell
  seen,    \* holder_pid, as each shell read it
  tries,   \* rmdir attempts left in a release
  dir,     \* the lock directory exists
  pid,     \* content of <lock>/pid
  marker,  \* content of <lock>/takeover
  dead     \* shells that were killed

procVars == <<call, seen, tries>>
lockVars == <<procVars, dir, pid, marker, dead>>

Calls == {"out", "mkdir", "write_pid", "look", "judge", "judge_marker", "rm_orphan", "claim",
          "reread", "adopt", "verify", "unmark", "unclaim", "wait", "in",
          "rm_pid", "rmdir", "clear_pid", "clear_marker"}

LockInit ==
  /\ call = [p \in Shells |-> "out"]
  /\ seen = [p \in Shells |-> NoFile]
  /\ tries = [p \in Shells |-> 0]
  /\ dir = FALSE /\ pid = NoFile /\ marker = NoFile /\ dead = {}

Goto(p, l) == call' = [call EXCEPT ![p] = l]

At(p, l) == call[p] = l /\ p \notin dead

-----------------------------------------------------------------------------
(* bugsweep_lock_acquire                                                   *)

Acquire(p) ==
  /\ At(p, "out")
  /\ Goto(p, "mkdir")
  /\ UNCHANGED <<seen, tries, dir, pid, marker, dead>>

Mkdir(p) ==
  /\ At(p, "mkdir")
  /\ dir' = TRUE
  /\ Goto(p, IF dir THEN "look" ELSE "write_pid")
  /\ UNCHANGED <<seen, tries, pid, marker, dead>>

WritePid(p) ==
  /\ At(p, "write_pid")
  /\ pid' = IF dir THEN p ELSE pid
  /\ Goto(p, "in")
  /\ UNCHANGED <<seen, tries, dir, marker, dead>>

(* A missing or unreadable pid is waited for.                              *)
Look(p) ==
  /\ At(p, "look")
  /\ seen' = [seen EXCEPT ![p] = pid]
  /\ Goto(p, IF pid \in Shells THEN "judge" ELSE "wait")
  /\ UNCHANGED <<tries, dir, pid, marker, dead>>

(* kill -0 holder_pid, then whether a claimant exists.                     *)
Judge(p) ==
  /\ At(p, "judge")
  /\ Goto(p, IF seen[p] \notin dead THEN "wait"
           ELSE IF marker # NoFile THEN "judge_marker" ELSE "claim")
  /\ UNCHANGED <<seen, tries, dir, pid, marker, dead>>

(* Mutant: an orphaned marker is never cleared.                            *)
JudgeMarkerWaits(p) ==
  /\ At(p, "judge_marker")
  /\ Goto(p, "wait")
  /\ UNCHANGED <<seen, tries, dir, pid, marker, dead>>

JudgeMarker(p) ==
  /\ At(p, "judge_marker")
  /\ Goto(p, IF marker \in dead THEN "rm_orphan" ELSE "wait")
  /\ UNCHANGED <<seen, tries, dir, pid, marker, dead>>

RemoveOrphan(p) ==
  /\ At(p, "rm_orphan")
  /\ marker' = NoFile
  /\ Goto(p, "wait")
  /\ UNCHANGED <<seen, tries, dir, pid, dead>>

(* noclobber: the claim fails when the marker exists.                      *)
Claim(p) ==
  /\ At(p, "claim")
  /\ IF dir /\ marker = NoFile THEN marker' = p /\ Goto(p, "reread")
                               ELSE marker' = marker /\ Goto(p, "wait")
  /\ UNCHANGED <<seen, tries, dir, pid, dead>>

(* Mutant: the pid is not compared under the marker.                       *)
RereadTrusting(p) ==
  /\ At(p, "reread")
  /\ Goto(p, "adopt")
  /\ UNCHANGED <<seen, tries, dir, pid, marker, dead>>

Reread(p) ==
  /\ At(p, "reread")
  /\ Goto(p, IF pid = seen[p] THEN "adopt" ELSE "unclaim")
  /\ UNCHANGED <<seen, tries, dir, pid, marker, dead>>

Adopt(p) ==
  /\ At(p, "adopt")
  /\ pid' = IF dir THEN p ELSE pid
  /\ Goto(p, "verify")
  /\ UNCHANGED <<seen, tries, dir, marker, dead>>

Verify(p) ==
  /\ At(p, "verify")
  /\ Goto(p, IF pid = p THEN "unmark" ELSE "wait")
  /\ UNCHANGED <<seen, tries, dir, pid, marker, dead>>

Unmark(p) ==
  /\ At(p, "unmark")
  /\ marker' = NoFile
  /\ Goto(p, "in")
  /\ UNCHANGED <<seen, tries, dir, pid, dead>>

Unclaim(p) ==
  /\ At(p, "unclaim")
  /\ marker' = NoFile
  /\ Goto(p, "wait")
  /\ UNCHANGED <<seen, tries, dir, pid, dead>>

(* Sleep and try again, or give up.                                        *)
Wait(p) ==
  /\ At(p, "wait")
  /\ \E l \in {"mkdir", "out"} : Goto(p, l)
  /\ UNCHANGED <<seen, tries, dir, pid, marker, dead>>

-----------------------------------------------------------------------------
(* bugsweep_lock_release                                                   *)

RemovePid(p) ==
  /\ At(p, "in")
  /\ pid' = NoFile
  /\ tries' = [tries EXCEPT ![p] = Tries]
  /\ Goto(p, "rmdir")
  /\ UNCHANGED <<seen, dir, marker, dead>>

Rmdir(p) ==
  /\ At(p, "rmdir")
  /\ IF dir /\ pid = NoFile /\ marker = NoFile
       THEN dir' = FALSE /\ Goto(p, "out")
       ELSE dir' = dir /\ Goto(p, IF tries[p] > 0 THEN "clear_pid" ELSE "out")
  /\ UNCHANGED <<seen, tries, pid, marker, dead>>

ClearPid(p) ==
  /\ At(p, "clear_pid")
  /\ pid' = NoFile
  /\ Goto(p, "clear_marker")
  /\ UNCHANGED <<seen, tries, dir, marker, dead>>

(* Mutant: only the pid is cleared.                                        *)
ClearMarkerKept(p) ==
  /\ At(p, "clear_marker")
  /\ tries' = [tries EXCEPT ![p] = @ - 1]
  /\ Goto(p, "rmdir")
  /\ UNCHANGED <<seen, dir, pid, marker, dead>>

ClearMarker(p) ==
  /\ At(p, "clear_marker")
  /\ marker' = NoFile
  /\ tries' = [tries EXCEPT ![p] = @ - 1]
  /\ Goto(p, "rmdir")
  /\ UNCHANGED <<seen, dir, pid, dead>>

-----------------------------------------------------------------------------
(* A redirection in progress has opened its file, or not yet.              *)
Crash(p) ==
  /\ p \notin dead /\ call[p] # "out"
  /\ Cardinality(dead) < MaxCrashes
  /\ dead' = dead \cup {p}
  /\ pid' \in {pid} \cup (IF call[p] \in {"write_pid", "adopt"} /\ dir THEN {Empty} ELSE {})
  /\ marker' \in {marker} \cup (IF call[p] = "claim" /\ dir /\ marker = NoFile THEN {Empty} ELSE {})
  /\ UNCHANGED <<procVars, dir>>

Takeover(p) ==
  \/ Look(p) \/ Judge(p) \/ JudgeMarker(p) \/ RemoveOrphan(p) \/ Claim(p) \/ Reread(p)
  \/ Adopt(p) \/ Verify(p) \/ Unmark(p) \/ Unclaim(p)

Release(p) == RemovePid(p) \/ Rmdir(p) \/ ClearPid(p) \/ ClearMarker(p)

Step(p) == Acquire(p) \/ Mkdir(p) \/ WritePid(p) \/ Takeover(p) \/ Wait(p) \/ Release(p)

LockNext == \E p \in Shells : Step(p) \/ Crash(p)

LockSpec == LockInit /\ [][LockNext]_lockVars

(* A live shell goes on, and asks for the lock again.                      *)
FairLockSpec == LockSpec /\ \A p \in Shells : WF_lockVars(Step(p))

-----------------------------------------------------------------------------
(* Properties                                                              *)

(* Every variable stays in its range; in particular a release counts down  *)
(* to zero attempts and not below.                                         *)
LockTypeOK ==
  /\ call \in [Shells -> Calls]
  /\ seen \in [Shells -> Shells \cup {NoFile, Empty}]
  /\ tries \in [Shells -> 0 .. Tries]
  /\ dir \in BOOLEAN
  /\ pid \in Shells \cup {NoFile, Empty}
  /\ marker \in Shells \cup {NoFile, Empty}
  /\ dead \subseteq Shells

Holders == {p \in Shells \ dead : call[p] = "in"}

(* At most one live shell is between a successful acquire and its release, *)
(* although waiters take the lock of a dead holder over ("Reclaim must be  *)
(* SINGLE-WINNER").                                                        *)
MutualExclusion == \A p, q \in Holders : p = q

(* Whoever holds the lock is named by it until it releases ("Nothing a     *)
(* live holder owns can ever be adopted or destroyed").                    *)
HolderIsNamed == \A p \in Holders : dir /\ pid = p

(* A release gives the directory up, though late claimants may put their   *)
(* marker into it ("so release still converges").                          *)
ReleaseFrees == [][\A p \in Shells : call[p] = "rmdir" /\ call'[p] = "out" => ~dir']_lockVars

(* When the holder is killed, the shells that go on asking for the lock    *)
(* take it over, also from a claimant that was killed in turn; a marker    *)
(* that was never written out is waited for ("fails CLOSED").              *)
Recovers == (dir /\ pid \in dead /\ marker # Empty) ~> (pid \notin dead \/ marker = Empty)
=============================================================================
