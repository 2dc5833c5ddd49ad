----------------------------- MODULE Sessions -----------------------------
(***************************************************************************)
(* What the runs of one project share under .bugsweep/state: the leases by *)
(* which preflight.sh tells a live sibling from an abandoned run, the      *)
(* ordinal of meta.json, and the append-only audit log with the index that *)
(* a later run primes from it (state.sh, preflight.sh, finalize.sh).       *)
(*                                                                         *)
(* Each of the three has a mkdir lock (module MkdirLock), here its holder: *)
(* an operation that finds the lock held may wait or time out, and a kill  *)
(* lets the next caller break it.  Each operation has its own way of going *)
(* on without the lock, and that is what the properties are about.         *)
(***************************************************************************)
EXTENDS Integers, Sequences, FiniteSets, FiniteSetsExt

CONSTANTS
  Runs,       \* the runs in worktree mode, numbered in the order of their identities
  Concurrent, \* those of them started with --concurrent
  Files,      \* the audited files, numbered in path order
  Past,       \* a run of an earlier day, whose traces are still there
  MaxFaults,  \* how many kills, failed commands and repeated finalizes happen in all
  None

Procs  == Runs \X {"main", "guard"}
Leases == [named : BOOLEAN, old : BOOLEAN]

ASSUME SessionsAssumption ==
  /\ Runs \subseteq Nat /\ Past \in Nat \ Runs /\ Files \subseteq Nat /\ Concurrent \subseteq Runs
  /\ IsFiniteSet(Runs) /\ IsFiniteSet(Files)
  /\ MaxFaults \in Nat
  /\ None \notin Procs /\ None \notin Leases

VARIABLES
  pc,          \* where the run's main process is
  guard,       \* where the run's heartbeat (guard.sh) is
  leaseLock, metaLock, indexLock,   \* who holds leases.lock, meta.lock, audit-index.lock
  lease,       \* the lease file: does it name its run, is it past the grace window?
  listed,      \* the leases preflight has read, and whether it could reclaim first
  lost,        \* history: the abandoned runs at the start of the listing
  forced,      \* history: the runs whose lease was removed without the lock
  mapped,      \* runs that have a state.env
  branches,    \* runs whose branch and worktree exist
  blocks,      \* runs that have a closeout-blocked file
  runs,        \* the counter of meta.json
  ordinal,     \* the ordinal a run's persist is working with
  reserved,    \* history: every reservation of an ordinal
  log,         \* audit-log.jsonl
  todo,        \* files whose audit record a persist has still to append
  scan,        \* what a prime has read
  index,       \* audit-index.json
  membership,  \* audit-membership.json
  faults       \* the kills, failed commands and repetitions so far

leaseVars  == <<leaseLock, lease, guard, forced>>
startVars  == <<listed, lost, mapped, branches, blocks>>
metaVars   == <<metaLock, runs, ordinal, reserved>>
auditVars  == <<indexLock, log, todo, scan, index, membership>>
vars == <<pc, leaseVars, startVars, metaVars, auditVars, faults>>

---------------------------------------------------------------------------
Main(r)  == <<r, "main">>
Guard(r) == <<r, "guard">>

NamedLease == [named |-> TRUE, old |-> FALSE]

Lapsed(q)    == lease[q] # None /\ lease[q].old
Abandoned(q) == pc[q] = "dead" /\ (lease[q] = None \/ Lapsed(q))

Entry(f, r, n) == [file |-> f, run |-> r, ordinal |-> n]

Fault   == faults < MaxFaults /\ faults' = faults + 1
NoFault == UNCHANGED faults

Go(r, from, to) == pc[r] = from /\ pc' = [pc EXCEPT ![r] = to]

(* A log record against the latest record of its file so far: a larger     *)
(* ordinal replaces it, the same ordinal of another run makes the whole    *)
(* stream ambiguous and leaves the smaller identity as representative.     *)
Fold(acc, e) ==
  LET earlier == {b \in acc.records : b.file = e.file}
      newer   == \A b \in earlier : e.ordinal > b.ordinal
      tied    == \E b \in earlier : e.ordinal = b.ordinal /\ e.run # b.run
      smaller == tied /\ \E b \in earlier : e.run < b.run
  IN  [records |-> IF newer \/ smaller THEN (acc.records \ earlier) \cup {e} ELSE acc.records,
       exact   |-> acc.exact /\ ~tied]

audit_index_records(locked) ==
  LET folded[n \in 0..Len(log)] == IF n = 0 THEN [records |-> {}, exact |-> locked]
                                   ELSE Fold(folded[n - 1], log[n])
  IN  folded[Len(log)]

NoList == [leased |-> {}, reclaimed |-> FALSE]
NoScan == [size |-> 0, records |-> {}, exact |-> FALSE]

---------------------------------------------------------------------------
PastLogs == {s \in [1..Cardinality(Files) -> {Entry(f, Past, 1) : f \in Files}] :
               \A i, j \in DOMAIN s : i < j => s[i].file < s[j].file}

(* The first day has nothing; on a later one an earlier run has left a     *)
(* record for each file although the write of meta.json failed, which      *)
(* persist survives.                                                       *)
Init ==
  /\ pc = [r \in Runs |-> "idle"] /\ guard = [r \in Runs |-> "none"]
  /\ leaseLock = None /\ metaLock = None /\ indexLock = None
  /\ lease = [r \in Runs |-> None] /\ forced = {}
  /\ listed = [r \in Runs |-> NoList]
  /\ lost = [r \in Runs |-> {}]
  /\ mapped = {} /\ branches = {} /\ blocks = {}
  /\ ordinal = [r \in Runs |-> 0]
  /\ \/ log = <<>> /\ reserved = {}
     \/ /\ log \in PastLogs
        /\ reserved = {[run |-> Past, nth |-> 1, ordinal |-> 1, saved |-> FALSE]}
  /\ runs = 0
  /\ todo = [r \in Runs |-> {}] /\ scan = [r \in Runs |-> NoScan]
  /\ index = NoScan /\ membership = NoScan
  /\ faults = 0

---------------------------------------------------------------------------
(* Leases.  p works on leases.lock: it takes it, or gives up because       *)
(* another process has held it for the whole of its polling.               *)
TakeLeases(p) == leaseLock = None /\ leaseLock' = p
LeasesBusy(p) == leaseLock \notin {None, p} /\ UNCHANGED leaseLock
DropLeases(p) == leaseLock = p /\ leaseLock' = None

(* Mutant: a lease that names its run is taken for a live one.             *)
ReclaimEmptyOnly ==
  [q \in Runs |-> IF Lapsed(q) /\ ~lease[q].named THEN None ELSE lease[q]]

_lease_reclaim_stale == [q \in Runs |-> IF Lapsed(q) THEN None ELSE lease[q]]

(* A prior run that is closing out refuses every new one.                  *)
CheckBlocks(r) ==
  /\ Go(r, "idle", IF blocks # {} THEN "refused" ELSE "list")
  /\ lost' = [lost EXCEPT ![r] = {q \in Runs : Abandoned(q)}]
  /\ UNCHANGED <<leaseVars, listed, mapped, branches, blocks, metaVars, auditVars, faults>>

ListTake(r) ==
  /\ Go(r, "list", "reclaim") /\ TakeLeases(Main(r))
  /\ UNCHANGED <<lease, guard, forced, startVars, metaVars, auditVars, faults>>

ListReclaim(r) ==
  /\ Go(r, "reclaim", "read_leases") /\ DropLeases(Main(r))
  /\ lease' = _lease_reclaim_stale
  /\ listed' = [listed EXCEPT ![r] = [leased |-> {}, reclaimed |-> TRUE]]
  /\ UNCHANGED <<guard, forced, lost, mapped, branches, blocks, metaVars, auditVars, faults>>

ListBusy(r) ==
  /\ Go(r, "list", "read_leases") /\ LeasesBusy(Main(r))
  /\ UNCHANGED <<lease, guard, forced, startVars, metaVars, auditVars, faults>>

(* A lease file without a run_dir is skipped.                              *)
lease_list(r) ==
  /\ Go(r, "read_leases", "admit")
  /\ listed' = [listed EXCEPT ![r] = [leased |-> {q \in Runs : lease[q] # None /\ lease[q].named},
                                      reclaimed |-> @.reclaimed]]
  /\ UNCHANGED <<leaseVars, lost, mapped, branches, blocks, metaVars, auditVars, faults>>

(* Every run that has a state.env and a branch stops this one, unless this *)
(* one is concurrent and that one was listed as leased.                    *)
Admitted(r) ==
  \A q \in mapped \cap branches : r \in Concurrent /\ q \in listed[r].leased

Admit(r) ==
  /\ Go(r, "admit", IF Admitted(r) THEN "map" ELSE "refused")
  /\ listed' = [listed EXCEPT ![r] = NoList] /\ lost' = [lost EXCEPT ![r] = {}]
  /\ UNCHANGED <<leaseVars, mapped, branches, blocks, metaVars, auditVars, faults>>

WriteStateEnv(r) ==
  /\ Go(r, "map", "acquire")
  /\ mapped' = mapped \cup {r}
  /\ UNCHANGED <<leaseVars, listed, lost, branches, blocks, metaVars, auditVars, faults>>

AcquireTake(r) ==
  /\ Go(r, "acquire", "write_lease") /\ TakeLeases(Main(r))
  /\ UNCHANGED <<lease, guard, forced, startVars, metaVars, auditVars, faults>>

lease_acquire(r) ==
  /\ Go(r, "write_lease", "add") /\ DropLeases(Main(r))
  /\ lease' = [_lease_reclaim_stale EXCEPT ![r] = NamedLease]
  /\ UNCHANGED <<guard, forced, startVars, metaVars, auditVars, faults>>

AcquireBusy(r) ==
  /\ Go(r, "acquire", "add") /\ LeasesBusy(Main(r))
  /\ lease' = [lease EXCEPT ![r] = NamedLease]
  /\ UNCHANGED <<guard, forced, startVars, metaVars, auditVars, faults>>

(* git worktree add, and what preflight undoes when it fails.              *)
WorktreeAdd(r) ==
  /\ \/ Go(r, "add", "prime") /\ branches' = branches \cup {r} /\ NoFault
     \/ Go(r, "add", "undo") /\ UNCHANGED branches /\ Fault
  /\ UNCHANGED <<leaseVars, listed, lost, mapped, blocks, metaVars, auditVars>>

RemoveRunDir(r) ==
  /\ Go(r, "remove_run_dir", "refused")
  /\ mapped' = mapped \ {r}
  /\ UNCHANGED <<leaseVars, listed, lost, branches, blocks, metaVars, auditVars, faults>>

(* lease-release, after a failed start and at the end of the closeout.     *)
After(r) == IF pc[r] \in {"undo", "undo_rm"} THEN "remove_run_dir" ELSE "unblock"

ReleaseTake(r) ==
  /\ Go(r, "undo", "undo_rm") \/ Go(r, "release", "release_rm")
  /\ TakeLeases(Main(r))
  /\ UNCHANGED <<lease, guard, forced, startVars, metaVars, auditVars, faults>>

lease_release(r) ==
  /\ \E at \in {"undo_rm", "release_rm"} : Go(r, at, After(r))
  /\ DropLeases(Main(r))
  /\ lease' = [lease EXCEPT ![r] = None]
  /\ UNCHANGED <<guard, forced, startVars, metaVars, auditVars, faults>>

ReleaseBusy(r) ==
  /\ \E at \in {"undo", "release"} : Go(r, at, After(r))
  /\ LeasesBusy(Main(r))
  /\ lease' = [lease EXCEPT ![r] = None] /\ forced' = forced \cup {r}
  /\ UNCHANGED <<guard, startVars, metaVars, auditVars, faults>>

(* The heartbeat: a look without the lock, a second one under it, and a    *)
(* touch, which creates the file when it is not there.  It is started by   *)
(* the hunt and may still be out when the run is closed.                   *)
GuardGo(r, from, to) == guard[r] = from /\ guard' = [guard EXCEPT ![r] = to]

TouchStart(r) ==
  /\ pc[r] = "hunt" /\ lease[r] # None /\ GuardGo(r, "none", "wait")
  /\ UNCHANGED <<pc, leaseLock, lease, forced, startVars, metaVars, auditVars, faults>>

TouchTake(r) ==
  /\ GuardGo(r, "wait", "look") /\ TakeLeases(Guard(r))
  /\ UNCHANGED <<pc, lease, forced, startVars, metaVars, auditVars, faults>>

TouchBusy(r) ==
  /\ GuardGo(r, "wait", "none") /\ LeasesBusy(Guard(r))
  /\ UNCHANGED <<pc, lease, forced, startVars, metaVars, auditVars, faults>>

TouchGoesOn(r) == GuardGo(r, "look", "touch") /\ UNCHANGED leaseLock

(* Mutant: the lease is not looked for again under the lock.               *)
TouchLookOnce(r) ==
  /\ TouchGoesOn(r)
  /\ UNCHANGED <<pc, lease, forced, startVars, metaVars, auditVars, faults>>

TouchLook(r) ==
  /\ \/ lease[r] # None /\ TouchGoesOn(r)
     \/ lease[r] = None /\ GuardGo(r, "look", "none") /\ DropLeases(Guard(r))
  /\ UNCHANGED <<pc, lease, forced, startVars, metaVars, auditVars, faults>>

lease_touch(r) ==
  /\ GuardGo(r, "touch", "none") /\ DropLeases(Guard(r))
  /\ lease' = [lease EXCEPT ![r] = [named |-> @ # None /\ @.named, old |-> FALSE]]
  /\ UNCHANGED <<pc, forced, startVars, metaVars, auditVars, faults>>

(* The grace window passes without a heartbeat; the recorded process ended *)
(* with preflight.  Only a start looks at the age of a lease, so it is not *)
(* followed any more when no start is left.                                *)
Starting == {"idle", "list", "reclaim", "read_leases", "admit", "map", "acquire", "write_lease"}

Lapse(r) ==
  /\ \E q \in Runs : pc[q] \in Starting
  /\ lease[r] # None /\ ~lease[r].old
  /\ lease' = [lease EXCEPT ![r] = [named |-> @.named, old |-> TRUE]]
  /\ UNCHANGED <<pc, leaseLock, guard, forced, startVars, metaVars, auditVars, faults>>

---------------------------------------------------------------------------
(* Prime: the log is opened, read to its end, looked at again, and what it *)
(* says is published twice, if the lock is held.                           *)
Holds(r) == indexLock = Main(r)

TakeIndex(r, from, to) ==
  /\ Go(r, from, to)
  /\ \/ indexLock = None /\ indexLock' = Main(r)
     \/ indexLock # None /\ UNCHANGED indexLock

PrimeTake(r) ==
  /\ TakeIndex(r, "prime", "open")
  /\ UNCHANGED <<leaseVars, startVars, metaVars, log, todo, scan, index, membership, faults>>

PrimeOpen(r) ==
  /\ Go(r, "open", IF log = <<>> THEN "member" ELSE "read")
  /\ scan' = [scan EXCEPT ![r] = [size |-> Len(log), records |-> {}, exact |-> FALSE]]
  /\ UNCHANGED <<leaseVars, startVars, metaVars, indexLock, log, todo, index, membership, faults>>

PrimeRead(r) ==
  /\ Go(r, "read", "stat")
  /\ LET found == audit_index_records(Holds(r)) IN
     scan' = [scan EXCEPT ![r] = [size |-> @.size, records |-> found.records, exact |-> found.exact]]
  /\ UNCHANGED <<leaseVars, startVars, metaVars, indexLock, log, todo, index, membership, faults>>

(* Mutant: the log is not looked at again.                                 *)
PrimeStatSkipped(r) ==
  /\ Go(r, "stat", "publish")
  /\ UNCHANGED <<leaseVars, startVars, metaVars, auditVars, faults>>

PrimeStat(r) ==
  /\ Go(r, "stat", "publish")
  /\ scan' = [scan EXCEPT ![r].exact = @ /\ Len(log) = scan[r].size]
  /\ UNCHANGED <<leaseVars, startVars, metaVars, indexLock, log, todo, index, membership, faults>>

PrimePublish(r) ==
  /\ Go(r, "publish", "member")
  /\ \/ Holds(r) /\ index' = scan[r] /\ UNCHANGED scan /\ NoFault
     \/ Holds(r) /\ scan' = [scan EXCEPT ![r].exact = FALSE] /\ UNCHANGED index /\ Fault
     \/ ~Holds(r) /\ UNCHANGED <<index, scan>> /\ NoFault
  /\ UNCHANGED <<leaseVars, startVars, metaVars, indexLock, log, todo, membership>>

PrimeMember(r) ==
  /\ Go(r, "member", "hunt")
  /\ \/ Holds(r) /\ membership' = scan[r] /\ indexLock' = None /\ NoFault
     \/ Holds(r) /\ UNCHANGED membership /\ indexLock' = None /\ Fault
     \/ ~Holds(r) /\ UNCHANGED <<membership, indexLock>> /\ NoFault
  /\ scan' = [scan EXCEPT ![r] = NoScan]
  /\ UNCHANGED <<leaseVars, startVars, metaVars, log, todo, index>>

---------------------------------------------------------------------------
(* Finalize claims its closeout first and then persists: an ordinal under  *)
(* meta.lock, and one record for each file whose coverage is verified.     *)
Reservations(r) == {s \in reserved : s.run = r}

StartFinalize(r) ==
  /\ Go(r, "hunt", "meta")
  /\ blocks' = blocks \cup {r}
  /\ UNCHANGED <<leaseVars, listed, lost, mapped, branches, metaVars, auditVars, faults>>

FinalizeAgain(r) ==
  /\ Go(r, "closing", "meta") /\ Fault
  /\ UNCHANGED <<leaseVars, startVars, metaVars, auditVars>>

Reserve(r, n, saved) ==
  reserved' = reserved \cup
    {[run |-> r, nth |-> Cardinality(Reservations(r)) + 1, ordinal |-> n, saved |-> saved]}

(* Mutant: the counter is read before the lock is taken.                   *)
MetaTakeReadsFirst(r) ==
  /\ \/ pc[r] = "meta" /\ ordinal[r] = 0 /\ ordinal' = [ordinal EXCEPT ![r] = runs + 1]
        /\ UNCHANGED <<pc, metaLock>>
     \/ ordinal[r] # 0 /\ Go(r, "meta", "save") /\ UNCHANGED ordinal
        /\ metaLock = None /\ metaLock' = Main(r)
  /\ UNCHANGED <<leaseVars, startVars, runs, reserved, auditVars, faults>>

(* Only a holder of the lock writes the counter, so taking the lock and    *)
(* reading is one step.                                                    *)
MetaTake(r) ==
  /\ Go(r, "meta", "save")
  /\ metaLock = None /\ metaLock' = Main(r)
  /\ ordinal' = [ordinal EXCEPT ![r] = runs + 1]
  /\ UNCHANGED <<leaseVars, startVars, runs, reserved, auditVars, faults>>

(* The lock is not had in time: the ordinal is read all the same, nothing  *)
(* is written, and the run's ledger tells.                                 *)
MetaBusy(r) ==
  /\ Go(r, "meta", "harvest") /\ metaLock # None
  /\ ordinal' = [ordinal EXCEPT ![r] = runs + 1]
  /\ Reserve(r, runs + 1, FALSE)
  /\ UNCHANGED <<leaseVars, startVars, metaLock, runs, auditVars, faults>>

(* Both ways of writing meta.json may fail, and persist goes on.           *)
MetaSave(r) ==
  /\ Go(r, "save", "harvest")
  /\ \/ Reserve(r, ordinal[r], TRUE) /\ runs' = ordinal[r] /\ NoFault
     \/ Reserve(r, ordinal[r], FALSE) /\ UNCHANGED runs /\ Fault
  /\ metaLock' = None
  /\ UNCHANGED <<leaseVars, startVars, ordinal, auditVars>>

HarvestTake(r) ==
  /\ TakeIndex(r, "harvest", "append")
  /\ \E covered \in SUBSET Files : todo' = [todo EXCEPT ![r] = covered]
  /\ UNCHANGED <<leaseVars, startVars, metaVars, log, scan, index, membership, faults>>

(* One write for each record; a write that fails ends the harvest.         *)
Append1(r) ==
  /\ pc[r] = "append" /\ todo[r] # {}
  /\ LET f == Min(todo[r]) IN
       \/ /\ log' = Append(log, Entry(f, r, ordinal[r]))
          /\ todo' = [todo EXCEPT ![r] = @ \ {f}] /\ NoFault
       \/ todo' = [todo EXCEPT ![r] = {}] /\ UNCHANGED log /\ Fault
  /\ UNCHANGED <<pc, leaseVars, startVars, metaVars, indexLock, scan, index, membership>>

HarvestEnd(r) ==
  /\ todo[r] = {} /\ Go(r, "append", "closing")
  /\ indexLock' = IF Holds(r) THEN None ELSE indexLock
  /\ ordinal' = [ordinal EXCEPT ![r] = 0]
  /\ UNCHANGED <<leaseVars, startVars, metaLock, runs, reserved, log, todo, scan, faults,
                 index, membership>>

(* The closeout (module Closeout) removes the branch and worktree, then    *)
(* the lease, then the file that keeps new runs out.                       *)
RemoveBranch(r) ==
  /\ Go(r, "closing", "release")
  /\ branches' = branches \ {r}
  /\ UNCHANGED <<leaseVars, listed, lost, mapped, blocks, metaVars, auditVars, faults>>

Unblock(r) ==
  /\ Go(r, "unblock", "done")
  /\ blocks' = blocks \ {r}
  /\ UNCHANGED <<leaseVars, listed, lost, mapped, branches, metaVars, auditVars, faults>>

---------------------------------------------------------------------------
(* A kill ends the run's processes; the locks they held are broken by the  *)
(* next caller.  Somebody may close the run out later.                     *)
Kill(r) ==
  /\ Fault
  /\ pc[r] \notin {"idle", "refused", "done", "dead"}
  /\ pc' = [pc EXCEPT ![r] = "dead"] /\ guard' = [guard EXCEPT ![r] = "none"]
  /\ leaseLock' = IF leaseLock \in {Main(r), Guard(r)} THEN None ELSE leaseLock
  /\ metaLock'  = IF metaLock = Main(r) THEN None ELSE metaLock
  /\ indexLock' = IF indexLock = Main(r) THEN None ELSE indexLock
  /\ todo' = [todo EXCEPT ![r] = {}] /\ scan' = [scan EXCEPT ![r] = NoScan]
  /\ ordinal' = [ordinal EXCEPT ![r] = 0]
  /\ listed' = [listed EXCEPT ![r] = NoList] /\ lost' = [lost EXCEPT ![r] = {}]
  /\ UNCHANGED <<lease, forced, mapped, branches, blocks, runs, reserved, log, index, membership>>

Resume(r) ==
  /\ \/ r \in branches
        /\ Go(r, "dead", "meta") /\ blocks' = blocks \cup {r}
     \/ r \in blocks \ branches /\ Go(r, "dead", "release") /\ UNCHANGED blocks
  /\ UNCHANGED <<leaseVars, listed, lost, mapped, branches, metaVars, auditVars, faults>>

Preflight(r) ==
  \/ CheckBlocks(r) \/ ListTake(r) \/ ListReclaim(r) \/ ListBusy(r) \/ lease_list(r) \/ Admit(r)
  \/ WriteStateEnv(r) \/ AcquireTake(r) \/ lease_acquire(r) \/ AcquireBusy(r)
  \/ WorktreeAdd(r) \/ RemoveRunDir(r)
prime(r) ==
  \/ PrimeTake(r) \/ PrimeOpen(r) \/ PrimeRead(r) \/ PrimeStat(r)
  \/ PrimePublish(r) \/ PrimeMember(r)
persist(r) ==
  \/ StartFinalize(r) \/ FinalizeAgain(r) \/ MetaTake(r) \/ MetaBusy(r) \/ MetaSave(r)
  \/ HarvestTake(r) \/ Append1(r) \/ HarvestEnd(r)
CloseOut(r) ==
  \/ RemoveBranch(r) \/ ReleaseTake(r) \/ lease_release(r) \/ ReleaseBusy(r) \/ Unblock(r)
Heartbeat(r) ==
  \/ TouchStart(r) \/ TouchTake(r) \/ TouchBusy(r) \/ TouchLook(r) \/ lease_touch(r)

Next ==
  \E r \in Runs : \/ Preflight(r) \/ prime(r) \/ persist(r) \/ CloseOut(r)
                  \/ Heartbeat(r) \/ Lapse(r) \/ Kill(r) \/ Resume(r)

Spec == Init /\ [][Next]_vars

---------------------------------------------------------------------------
Labels == Starting \cup
  {"add", "undo", "undo_rm", "remove_run_dir", "refused", "prime", "open", "read", "stat", "publish",
   "member", "hunt", "meta", "save", "harvest", "append", "closing", "release", "release_rm",
   "unblock", "done", "dead"}

(* The types of the variables, but for the records of log, scan, index and *)
(* membership, which ExactIsLatest is about.                               *)
TypeOK ==
  /\ pc \in [Runs -> Labels] /\ guard \in [Runs -> {"none", "wait", "look", "touch"}]
  /\ leaseLock \in Procs \cup {None}
  /\ metaLock \in Procs \cup {None} /\ indexLock \in Procs \cup {None}
  /\ lease \in [Runs -> Leases \cup {None}]
  /\ listed \in [Runs -> [leased : SUBSET Runs, reclaimed : BOOLEAN]]
  /\ lost \in [Runs -> SUBSET Runs]
  /\ mapped \subseteq Runs /\ branches \subseteq Runs
  /\ blocks \subseteq Runs /\ forced \subseteq Runs
  /\ runs \in Nat /\ ordinal \in [Runs -> Nat]
  /\ todo \in [Runs -> SUBSET Files]
  /\ faults \in 0..MaxFaults

(* The counter of meta.json counts every reservation that was saved, once, *)
(* however persists interleave, time out and are killed: no two runs whose *)
(* ordinals were saved have the same (_reserve_run_ordinal: "five          *)
(* concurrent finalizes yield runs == prior + 5, never less").             *)
OrdinalsCount ==
  /\ runs = Cardinality({s \in reserved : s.saved})
  /\ \A s, t \in reserved : s.saved /\ t.saved /\ s.ordinal = t.ordinal => s = t

(* An index or membership file that calls itself exact holds, for each     *)
(* file of the part of the log it names, the record of the largest ordinal *)
(* and no record of another run has that ordinal, although a persist that  *)
(* could not get the lock appends while a prime reads (audit_index_records *)
(* in prime, persist).                                                     *)
ExactIsLatest ==
  \A p \in {index, membership} : p.exact =>
    LET prefix == {log[i] : i \in 1..p.size}
        rivals(f) == {e \in prefix : e.file = f}
    IN  /\ p.size <= Len(log)
        /\ {e.file : e \in p.records} = {e.file : e \in prefix}
        /\ \A e \in p.records : /\ e \in prefix
                                /\ \A o \in rivals(e.file) : o.ordinal < e.ordinal \/ o.run = e.run

(* A run whose lease is released has none, except an empty one that its    *)
(* own heartbeat made while the release went on without the lock           *)
(* (lease_touch: a heartbeat must never resurrect a lease).                *)
ReleasedIsGone ==
  \A r \in Runs : pc[r] \in {"refused", "done"} /\ lease[r] # None =>
    r \in forced /\ ~lease[r].named

(* A run that was killed and whose lease had lapsed before a start began   *)
(* to list is not passed over by that start, if the listing had the lock:  *)
(* it is closed out first (preflight.sh: "Detect any state-mapped branch   *)
(* whose lease is no longer live and stop").                               *)
AbandonedStops ==
  [][\A r \in Runs :
       (pc[r] = "admit" /\ pc'[r] = "map" /\ listed[r].reclaimed) =>
         \A q \in lost[r] \cap mapped \cap branches : pc[q] # "dead"]_vars

=============================================================================
