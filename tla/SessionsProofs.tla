--------------------------- MODULE SessionsProofs ---------------------------
(***************************************************************************)
(* Cross-run state: ordinals, leases and admission for any number of runs, *)
(* of files and of faults, and the mkdir lock that guards each of them.    *)
(***************************************************************************)
EXTENDS Sessions, MkdirLock, FiniteSetTheorems, WellFoundedInduction, TLAPS

(* Type correctness in two parts: what decides about leases, and the rest. *)
Beats == {"none", "wait", "look", "touch"}

Typed ==
  /\ pc \in [Runs -> Labels] /\ guard \in [Runs -> Beats]
  /\ lease \in [Runs -> Leases \cup {None}]
  /\ listed \in [Runs -> [leased : SUBSET Runs, reclaimed : BOOLEAN]]
  /\ lost \in [Runs -> SUBSET Runs]

Placed ==
  /\ leaseLock \in Procs \cup {None} /\ metaLock \in Procs \cup {None} /\ indexLock \in Procs \cup {None}
  /\ mapped \subseteq Runs /\ branches \subseteq Runs
  /\ blocks \subseteq Runs /\ forced \subseteq Runs
  /\ todo \in [Runs -> SUBSET Files]
  /\ faults \in 0..MaxFaults

(* A run about to save its ordinal has the lock since it read the counter. *)
Saved == {s \in reserved : s.saved}

Counter ==
  /\ runs \in Nat /\ ordinal \in [Runs -> Nat]
  /\ IsFiniteSet(Saved) /\ runs = Cardinality(Saved)
  /\ \A s \in Saved : s.ordinal \in 1..runs
  /\ \A s, t \in Saved : s.ordinal = t.ordinal => s = t
  /\ \A r \in Runs : pc[r] = "save" => metaLock = Main(r) /\ ordinal[r] = runs + 1

(* Who works between taking leases.lock and dropping it.                   *)
Locked ==
  /\ \A r \in Runs : pc[r] \in {"reclaim", "write_lease", "undo_rm", "release_rm"} => leaseLock = Main(r)
  /\ \A r \in Runs : guard[r] \in {"look", "touch"} => leaseLock = Guard(r)

(* Between its look and its touch a heartbeat loses its lease only to a    *)
(* release without the lock.                                               *)
Leased ==
  /\ \A r \in Runs : pc[r] \in Starting => lease[r] = None /\ guard[r] = "none"
  /\ \A r \in Runs : guard[r] = "touch" => lease[r] # None \/ r \in forced
  /\ \A r \in Runs : pc[r] \in {"remove_run_dir", "unblock", "refused", "done"} =>
                       (lease[r] # None => r \in forced /\ ~lease[r].named)

(* An abandoned run has no heartbeat any more, even if somebody closes it  *)
(* out: its lease is never renewed, and after a reclaim it has none.       *)
Leaving == {"dead", "meta", "save", "harvest", "append", "closing", "release", "release_rm", "unblock", "done"}

Forsaken ==
  /\ \A r \in Runs : pc[r] = "dead" => guard[r] = "none"
  /\ \A r \in Runs : \A q \in lost[r] :
       guard[q] = "none" /\ pc[q] \in Leaving /\ (lease[q] = None \/ lease[q].old)
  /\ \A r \in Runs : listed[r].reclaimed =>
       pc[r] \in {"read_leases", "admit"} /\ \A q \in lost[r] : lease[q] = None
  /\ \A r \in Runs : listed[r].reclaimed /\ pc[r] = "admit" => listed[r].leased \cap lost[r] = {}

IInv == Typed /\ Placed /\ Counter /\ Locked /\ Leased /\ Forsaken

-----------------------------------------------------------------------------
LEMMA InitInv == Init => IInv
<1> SUFFICES ASSUME Init PROVE IInv
  OBVIOUS
<1> USE SessionsAssumption DEF Procs, Init
<1>1. Typed /\ Locked /\ Leased /\ Forsaken
  BY DEF Typed, Locked, Leased, Forsaken, Labels, Starting, Beats, NoList
<1>2. \A s \in reserved : ~s.saved
  OBVIOUS
<1>3. Saved = {}
  BY <1>2 DEF Saved
<1>4. IsFiniteSet({}) /\ Cardinality({}) = 0
  BY FS_EmptySet
<1>5. Counter
  BY <1>3, <1>4 DEF Counter
<1>6. Placed
  BY DEF Placed
<1> QED
  BY <1>1, <1>5, <1>6 DEF IInv

-----------------------------------------------------------------------------
(* A prime leaves everything but the audit files alone.                    *)
Priming == {"prime", "open", "read", "stat", "publish", "member", "hunt"}

LEMMA PrimeFrame ==
  ASSUME NEW r \in Runs, prime(r)
  PROVE  /\ UNCHANGED <<leaseVars, startVars, metaVars>>
         /\ \E from, to \in Priming : Go(r, from, to)
<1>1. CASE PrimeTake(r)
  BY <1>1, Zenon DEF PrimeTake, TakeIndex, Priming
<1>2. CASE PrimeOpen(r)
  <2>1. CASE log = <<>>
    BY <1>2, <2>1, Zenon DEF PrimeOpen, Priming
  <2>2. CASE log # <<>>
    BY <1>2, <2>2, Zenon DEF PrimeOpen, Priming
  <2> QED
    BY <2>1, <2>2
<1>3. CASE PrimeRead(r)
  BY <1>3, Zenon DEF PrimeRead, Priming
<1>4. CASE PrimeStat(r)
  BY <1>4, Zenon DEF PrimeStat, Priming
<1>5. CASE PrimePublish(r)
  BY <1>5, Zenon DEF PrimePublish, Priming
<1>6. CASE PrimeMember(r)
  BY <1>6, Zenon DEF PrimeMember, Priming
<1> QED
  BY <1>1, <1>2, <1>3, <1>4, <1>5, <1>6 DEF prime

-----------------------------------------------------------------------------
(* Typing.                                                                 *)
LEMMA TypedPreserved == Typed /\ [Next]_vars => Typed'
<1> SUFFICES ASSUME Typed, NEW r \in Runs,
                    \/ Preflight(r) \/ prime(r) \/ persist(r) \/ CloseOut(r)
                    \/ Heartbeat(r) \/ Lapse(r) \/ Kill(r) \/ Resume(r)
             PROVE  Typed'
  BY DEF Next, vars, leaseVars, startVars, Typed
<1> USE DEF Typed, Labels, Starting, Beats, Leases, NamedLease, NoList, Go, GuardGo, TakeLeases,
        LeasesBusy, DropLeases, leaseVars, startVars
<1>1. CASE ListTake(r) \/ ListBusy(r) \/ WriteStateEnv(r) \/ AcquireTake(r) \/ RemoveRunDir(r)
  BY <1>1 DEF ListTake, ListBusy, WriteStateEnv, AcquireTake, RemoveRunDir
<1>13. CASE CheckBlocks(r)
  BY <1>13 DEF CheckBlocks
<1>14. CASE Admit(r)
  BY <1>14 DEF Admit
<1>15. CASE WorktreeAdd(r)
  BY <1>15 DEF WorktreeAdd
<1>2. CASE ListReclaim(r)
  BY <1>2 DEF ListReclaim, _lease_reclaim_stale
<1>9. CASE lease_list(r)
  BY <1>9 DEF lease_list
<1>10. CASE lease_acquire(r)
  BY <1>10 DEF lease_acquire, _lease_reclaim_stale
<1>16. CASE AcquireBusy(r)
  BY <1>16 DEF AcquireBusy
<1>11. CASE prime(r)
  <2>1. PICK from \in Priming, to \in Priming : Go(r, from, to)
    BY <1>11, PrimeFrame
  <2>2. UNCHANGED <<guard, lease, listed, lost>>
    BY <1>11, PrimeFrame
  <2> QED
    BY <2>1, <2>2 DEF Priming
<1>3. CASE persist(r)
  BY <1>3 DEF persist, StartFinalize, FinalizeAgain, MetaTake, MetaBusy, MetaSave, HarvestTake, Append1,
              HarvestEnd, TakeIndex
<1>4. CASE CloseOut(r)
  BY <1>4 DEF CloseOut, RemoveBranch, ReleaseTake, lease_release, ReleaseBusy, Unblock, After
<1>5. CASE TouchStart(r) \/ TouchTake(r) \/ TouchBusy(r) \/ TouchLook(r)
  BY <1>5 DEF TouchStart, TouchTake, TouchBusy, TouchLook, TouchGoesOn
<1>12. CASE lease_touch(r)
  <2>1. [named |-> lease[r] # None /\ lease[r].named, old |-> FALSE] \in Leases
    OBVIOUS
  <2> QED
    BY <1>12, <2>1 DEF lease_touch
<1>6. CASE Lapse(r)
  BY <1>6 DEF Lapse
<1>7. CASE Kill(r)
  BY <1>7 DEF Kill
<1>8. CASE Resume(r)
  BY <1>8 DEF Resume
<1> QED
  BY <1>1, <1>2, <1>3, <1>4, <1>5, <1>6, <1>7, <1>8, <1>9, <1>10, <1>11, <1>12, <1>13, <1>14,
     <1>15, <1>16 DEF Preflight, Heartbeat

LEMMA PlacedPreserved == Placed /\ Typed /\ [Next]_vars => Placed'
<1> SUFFICES ASSUME Placed, Typed, NEW r \in Runs,
                    \/ Preflight(r) \/ prime(r) \/ persist(r) \/ CloseOut(r)
                    \/ Heartbeat(r) \/ Lapse(r) \/ Kill(r) \/ Resume(r)
             PROVE  Placed'
  BY DEF Next, vars, leaseVars, startVars, metaVars, auditVars, Placed
<1> USE SessionsAssumption DEF Placed, Procs, Main, Guard, TakeLeases, LeasesBusy, DropLeases, TakeIndex, Fault, NoFault,
        leaseVars, startVars, metaVars, auditVars
<1>1. CASE CheckBlocks(r) \/ ListTake(r) \/ ListReclaim(r) \/ ListBusy(r) \/ lease_list(r) \/ Admit(r)
  BY <1>1 DEF CheckBlocks, ListTake, ListReclaim, ListBusy, lease_list, Admit
<1>2. CASE WriteStateEnv(r)
  BY <1>2 DEF WriteStateEnv
<1>3. CASE AcquireTake(r)
  BY <1>3 DEF AcquireTake
<1>4. CASE lease_acquire(r)
  BY <1>4 DEF lease_acquire
<1>5. CASE AcquireBusy(r)
  BY <1>5 DEF AcquireBusy
<1>6. CASE WorktreeAdd(r)
  <2>1. UNCHANGED <<leaseLock, metaLock, indexLock, mapped, blocks, forced, todo>>
    BY <1>6 DEF WorktreeAdd
  <2>2. branches' \subseteq Runs
    BY <1>6 DEF WorktreeAdd
  <2>3. faults' = faults \/ Fault
    BY <1>6, Zenon DEF WorktreeAdd
  <2>4. faults' \in 0..MaxFaults
    BY <2>3
  <2> QED
    BY <2>1, <2>2, <2>4
<1>7. CASE RemoveRunDir(r)
  BY <1>7 DEF RemoveRunDir
<1>8. CASE PrimeTake(r)
  BY <1>8 DEF PrimeTake
<1>9. CASE PrimeOpen(r)
  BY <1>9 DEF PrimeOpen
<1>10. CASE PrimeMember(r)
  BY <1>10 DEF PrimeMember, Holds
<1>11. CASE StartFinalize(r)
  BY <1>11 DEF StartFinalize
<1>12. CASE FinalizeAgain(r)
  BY <1>12 DEF FinalizeAgain
<1>13. CASE MetaTake(r)
  BY <1>13 DEF MetaTake
<1>14. CASE MetaBusy(r)
  BY <1>14 DEF MetaBusy
<1>15. CASE MetaSave(r)
  <2>1. UNCHANGED <<leaseLock, indexLock, mapped, branches, blocks, forced, todo>>
    BY <1>15 DEF MetaSave
  <2>2. metaLock' = None
    BY <1>15 DEF MetaSave
  <2>3. faults' = faults \/ Fault
    BY <1>15, Zenon DEF MetaSave
  <2>4. faults' \in 0..MaxFaults
    BY <2>3
  <2> QED
    BY <2>1, <2>2, <2>4
<1>16. CASE HarvestTake(r)
  BY <1>16 DEF HarvestTake
<1>17. CASE HarvestEnd(r)
  BY <1>17 DEF HarvestEnd, Holds
<1>18. CASE Append1(r)
  BY <1>18 DEF Append1
<1>19. CASE RemoveBranch(r)
  BY <1>19 DEF RemoveBranch
<1>20. CASE ReleaseTake(r)
  BY <1>20 DEF ReleaseTake
<1>21. CASE lease_release(r)
  BY <1>21 DEF lease_release
<1>22. CASE ReleaseBusy(r)
  BY <1>22 DEF ReleaseBusy
<1>23. CASE Unblock(r)
  BY <1>23 DEF Unblock
<1>24. CASE TouchStart(r)
  BY <1>24 DEF TouchStart
<1>25. CASE TouchTake(r)
  BY <1>25 DEF TouchTake
<1>26. CASE TouchBusy(r)
  BY <1>26 DEF TouchBusy
<1>27. CASE TouchLook(r)
  BY <1>27 DEF TouchLook, TouchGoesOn
<1>28. CASE lease_touch(r)
  BY <1>28 DEF lease_touch
<1>29. CASE Lapse(r) \/ Kill(r) \/ Resume(r)
  BY <1>29 DEF Lapse, Kill, Resume
<1>30. CASE PrimeRead(r) \/ PrimeStat(r) \/ PrimePublish(r)
  <2>1. UNCHANGED <<leaseLock, metaLock, indexLock, mapped, branches, blocks, forced, todo>>
    BY <1>30, Zenon DEF PrimeRead, PrimeStat, PrimePublish
  <2>2. UNCHANGED faults \/ Fault
    BY <1>30, Zenon DEF PrimeRead, PrimeStat, PrimePublish
  <2> QED
    BY <2>1, <2>2
<1> QED
  BY <1>1, <1>2, <1>3, <1>4, <1>5, <1>6, <1>7, <1>8, <1>9, <1>10, <1>11, <1>12, <1>13, <1>14, <1>15, <1>16,
     <1>17, <1>18, <1>19, <1>20, <1>21, <1>22, <1>23, <1>24, <1>25, <1>26, <1>27, <1>28, <1>29, <1>30
  DEF Preflight, prime, persist, CloseOut, Heartbeat

-----------------------------------------------------------------------------
(* The counter.                                                            *)
LEMMA CounterFrame ==
  ASSUME Counter, UNCHANGED <<runs, ordinal, reserved, metaLock>>,
         \A q \in Runs : pc'[q] = "save" => pc[q] = "save"
  PROVE  Counter'
BY DEF Counter, Saved

LEMMA CounterPreserved == Typed /\ Counter /\ [Next]_vars => Counter'
<1> USE SessionsAssumption DEF Procs, Go, metaVars
<1> SUFFICES ASSUME Typed, Counter, NEW r \in Runs,
                    \/ Preflight(r) \/ prime(r) \/ persist(r) \/ CloseOut(r)
                    \/ Heartbeat(r) \/ Lapse(r) \/ Kill(r) \/ Resume(r)
             PROVE  Counter'
  BY CounterFrame DEF Next, vars
<1>0. pc \in [Runs -> Labels]
  BY DEF Typed
<1>1. CASE Preflight(r)
  BY <1>0, <1>1, CounterFrame
     DEF Preflight, CheckBlocks, ListTake, ListReclaim, ListBusy, lease_list, Admit, WriteStateEnv,
         AcquireTake, lease_acquire, AcquireBusy, WorktreeAdd, RemoveRunDir
<1>2. CASE prime(r)
  <2>1. PICK from \in Priming, to \in Priming : Go(r, from, to)
    BY <1>2, PrimeFrame
  <2>2. UNCHANGED metaVars
    BY <1>2, PrimeFrame
  <2> QED
    BY <1>0, <2>1, <2>2, CounterFrame DEF Priming
<1>3. CASE StartFinalize(r) \/ FinalizeAgain(r) \/ HarvestTake(r) \/ Append1(r)
  BY <1>0, <1>3, CounterFrame DEF StartFinalize, FinalizeAgain, HarvestTake, Append1, TakeIndex
<1>4. CASE MetaTake(r)
  <2>1. /\ metaLock = None /\ metaLock' = Main(r) /\ ordinal' = [ordinal EXCEPT ![r] = runs + 1]
        /\ UNCHANGED <<runs, reserved>> /\ pc' = [pc EXCEPT ![r] = "save"]
    BY <1>4 DEF MetaTake
  <2>2. \A q \in Runs : pc[q] # "save"
    BY <2>1 DEF Counter, Main
  <2>3. Saved' = Saved
    BY <2>1 DEF Saved
  <2> QED
    BY <1>0, <2>1, <2>2, <2>3 DEF Counter
<1>5. CASE MetaBusy(r)
  <2>1. Saved' = Saved
    BY <1>5 DEF MetaBusy, Reserve, Saved
  <2> QED
    BY <1>0, <1>5, <2>1 DEF MetaBusy, Counter
<1>6. CASE MetaSave(r)
  <2>1. pc[r] = "save" /\ metaLock = Main(r) /\ ordinal[r] = runs + 1
    BY <1>6 DEF MetaSave, Counter
  <2>2. \A q \in Runs : pc'[q] # "save"
    <3> SUFFICES ASSUME NEW q \in Runs, pc'[q] = "save" PROVE FALSE
      OBVIOUS
    <3>1. q # r /\ pc[q] = "save"
      BY <1>0, <1>6 DEF MetaSave
    <3> QED
      BY <2>1, <3>1 DEF Counter, Main
  <2>3. CASE Reserve(r, ordinal[r], TRUE) /\ runs' = ordinal[r]
    <3> DEFINE e == [run |-> r, nth |-> Cardinality(Reservations(r)) + 1, ordinal |-> ordinal[r], saved |-> TRUE]
    <3>1. Saved' = Saved \cup {e}
      BY <2>3 DEF Reserve, Saved
    <3>2. e \notin Saved /\ e.ordinal = runs + 1
      BY <2>1 DEF Counter
    <3>3. IsFiniteSet(Saved') /\ Cardinality(Saved') = Cardinality(Saved) + 1
      BY <3>1, <3>2, FS_AddElement DEF Counter
    <3>4. runs' = runs + 1 /\ ordinal' = ordinal
      BY <1>6, <2>1, <2>3 DEF MetaSave
    <3>5. \A s \in Saved' : s.ordinal \in 1..runs'
      BY <3>1, <3>2, <3>4 DEF Counter
    <3>6. \A s, t \in Saved' : s.ordinal = t.ordinal => s = t
      <4> HIDE DEF e
      <4> SUFFICES ASSUME NEW s \in Saved', NEW t \in Saved', s.ordinal = t.ordinal PROVE s = t
        OBVIOUS
      <4>1. s \in Saved => s.ordinal # runs + 1
        BY DEF Counter
      <4>2. t \in Saved => t.ordinal # runs + 1
        BY DEF Counter
      <4> QED
        BY <3>1, <3>2, <4>1, <4>2 DEF Counter
    <3> HIDE DEF e
    <3> QED
      BY <2>2, <3>3, <3>4, <3>5, <3>6 DEF Counter
  <2>4. CASE Reserve(r, ordinal[r], FALSE) /\ UNCHANGED runs
    <3>1. Saved' = Saved
      BY <2>4 DEF Reserve, Saved
    <3>2. ordinal' = ordinal
      BY <1>6 DEF MetaSave
    <3> QED
      BY <2>2, <2>4, <3>1, <3>2 DEF Counter
  <2> QED
    BY <1>6, <2>3, <2>4 DEF MetaSave
<1>7. CASE HarvestEnd(r)
  BY <1>0, <1>7 DEF HarvestEnd, Counter, Saved
<1>8. CASE CloseOut(r)
  BY <1>0, <1>8, CounterFrame
     DEF CloseOut, RemoveBranch, ReleaseTake, lease_release, ReleaseBusy, Unblock, After
<1>9. CASE Heartbeat(r)
  BY <1>9, CounterFrame
     DEF Heartbeat, TouchStart, TouchTake, TouchBusy, TouchLook, TouchGoesOn, lease_touch
<1>10. CASE Lapse(r)
  BY <1>10, CounterFrame DEF Lapse
<1>11. CASE Kill(r)
  BY <1>0, <1>11 DEF Kill, Counter, Saved, Main
<1>12. CASE Resume(r)
  BY <1>0, <1>12, CounterFrame DEF Resume
<1> QED
  BY <1>1, <1>2, <1>3, <1>4, <1>5, <1>6, <1>7, <1>8, <1>9, <1>10, <1>11, <1>12 DEF persist

-----------------------------------------------------------------------------
(* The leases.                                                             *)
LeaseInv == Typed /\ Locked /\ Leased /\ Forsaken

LEMMA PreflightKeeps ==
  ASSUME LeaseInv, NEW r \in Runs, Preflight(r) PROVE Locked' /\ Leased' /\ Forsaken'
<1> USE SessionsAssumption DEF Procs, LeaseInv, Typed, Labels, Starting, Beats, Leases, Locked, Leased, Forsaken, Leaving,
        NamedLease, NoList, Go, GuardGo, TakeLeases, LeasesBusy, DropLeases, leaseVars, startVars, Main, Guard
<1>1. CASE CheckBlocks(r)
  BY <1>1 DEF CheckBlocks, Abandoned, Lapsed
<1>2. CASE ListTake(r)
  BY <1>2 DEF ListTake
<1>3. CASE ListReclaim(r)
  BY <1>3 DEF ListReclaim, _lease_reclaim_stale, Lapsed
<1>4. CASE ListBusy(r)
  BY <1>4 DEF ListBusy
<1>5. CASE lease_list(r)
  <2> DEFINE found == {q \in Runs : lease[q] # None /\ lease[q].named}
  <2>1. /\ pc[r] = "read_leases" /\ pc' = [pc EXCEPT ![r] = "admit"]
        /\ listed' = [listed EXCEPT ![r] = [leased |-> found, reclaimed |-> @.reclaimed]]
        /\ UNCHANGED <<leaseLock, lease, guard, forced, lost>>
    BY <1>5 DEF lease_list
  <2>2. listed[r].reclaimed => found \cap lost[r] = {}
    OBVIOUS
  <2>3. listed'[r].reclaimed = listed[r].reclaimed /\ listed'[r].leased = found
    BY <2>1
  <2>4. \A q \in Runs : q # r => listed'[q] = listed[q] /\ pc'[q] = pc[q]
    BY <2>1
  <2> HIDE DEF found
  <2>5. Locked' /\ Leased'
    BY <2>1, <2>4
  <2> QED
    BY <2>1, <2>2, <2>3, <2>4, <2>5
<1>6. CASE Admit(r)
  BY <1>6 DEF Admit
<1>7. CASE WriteStateEnv(r)
  BY <1>7 DEF WriteStateEnv
<1>8. CASE AcquireTake(r)
  BY <1>8 DEF AcquireTake
<1>9. CASE lease_acquire(r)
  BY <1>9 DEF lease_acquire, _lease_reclaim_stale, Lapsed
<1>10. CASE AcquireBusy(r)
  BY <1>10 DEF AcquireBusy
<1>11. CASE WorktreeAdd(r)
  BY <1>11 DEF WorktreeAdd
<1>12. CASE RemoveRunDir(r)
  BY <1>12 DEF RemoveRunDir
<1> QED
  BY <1>1, <1>2, <1>3, <1>4, <1>5, <1>6, <1>7, <1>8, <1>9, <1>10, <1>11, <1>12 DEF Preflight

LEMMA PersistKeeps ==
  ASSUME LeaseInv, NEW r \in Runs, persist(r) PROVE Locked' /\ Leased' /\ Forsaken'
<1> USE SessionsAssumption DEF Procs, LeaseInv, Typed, Labels, Starting, Beats, Leases, Locked, Leased, Forsaken, Leaving,
        NamedLease, NoList, Go, GuardGo, TakeLeases, LeasesBusy, DropLeases, leaseVars, startVars, Main, Guard
<1>1. CASE StartFinalize(r)
  BY <1>1 DEF StartFinalize
<1>2. CASE FinalizeAgain(r)
  BY <1>2 DEF FinalizeAgain
<1>3. CASE MetaTake(r)
  BY <1>3 DEF MetaTake
<1>4. CASE MetaBusy(r)
  BY <1>4 DEF MetaBusy
<1>5. CASE MetaSave(r)
  BY <1>5 DEF MetaSave
<1>6. CASE HarvestTake(r)
  BY <1>6 DEF HarvestTake, TakeIndex
<1>7. CASE Append1(r)
  BY <1>7 DEF Append1
<1>8. CASE HarvestEnd(r)
  BY <1>8 DEF HarvestEnd
<1> QED
  BY <1>1, <1>2, <1>3, <1>4, <1>5, <1>6, <1>7, <1>8 DEF persist

LEMMA CloseOutKeeps ==
  ASSUME LeaseInv, NEW r \in Runs, CloseOut(r) PROVE Locked' /\ Leased' /\ Forsaken'
<1> USE SessionsAssumption DEF Procs, LeaseInv, Typed, Labels, Starting, Beats, Leases, Locked, Leased, Forsaken, Leaving,
        NamedLease, NoList, Go, GuardGo, TakeLeases, LeasesBusy, DropLeases, leaseVars, startVars, Main, Guard
<1>1. CASE RemoveBranch(r)
  BY <1>1 DEF RemoveBranch
<1>2. CASE ReleaseTake(r)
  BY <1>2 DEF ReleaseTake
<1>3. CASE lease_release(r)
  BY <1>3 DEF lease_release, After
<1>4. CASE ReleaseBusy(r)
  BY <1>4 DEF ReleaseBusy, After
<1>5. CASE Unblock(r)
  BY <1>5 DEF Unblock
<1> QED
  BY <1>1, <1>2, <1>3, <1>4, <1>5 DEF CloseOut

LEMMA HeartbeatKeeps ==
  ASSUME LeaseInv, NEW r \in Runs, Heartbeat(r) PROVE Locked' /\ Leased' /\ Forsaken'
<1> USE SessionsAssumption DEF Procs, LeaseInv, Typed, Labels, Starting, Beats, Leases, Locked, Leased, Forsaken, Leaving,
        NamedLease, NoList, Go, GuardGo, TakeLeases, LeasesBusy, DropLeases, leaseVars, startVars, Main, Guard
<1>1. CASE TouchStart(r)
  BY <1>1 DEF TouchStart
<1>2. CASE TouchTake(r)
  BY <1>2 DEF TouchTake
<1>3. CASE TouchBusy(r)
  BY <1>3 DEF TouchBusy
<1>4. CASE TouchLook(r)
  BY <1>4 DEF TouchLook, TouchGoesOn
<1>5. CASE lease_touch(r)
  BY <1>5 DEF lease_touch
<1> QED
  BY <1>1, <1>2, <1>3, <1>4, <1>5 DEF Heartbeat

LEMMA LeasePreserved == LeaseInv /\ [Next]_vars => Locked' /\ Leased' /\ Forsaken'
<1> SUFFICES ASSUME LeaseInv, [Next]_vars PROVE Locked' /\ Leased' /\ Forsaken'
  OBVIOUS
<1>1. CASE UNCHANGED vars
  BY <1>1 DEF vars, leaseVars, startVars, LeaseInv, Locked, Leased, Forsaken
<1>2. ASSUME NEW r \in Runs, prime(r) PROVE Locked' /\ Leased' /\ Forsaken'
  <2>1. PICK from \in Priming, to \in Priming : Go(r, from, to)
    BY <1>2, PrimeFrame
  <2>2. UNCHANGED <<leaseLock, lease, guard, forced, listed, lost>>
    BY <1>2, PrimeFrame DEF leaseVars, startVars
  <2> QED
    BY <2>1, <2>2 DEF Go, Priming, LeaseInv, Typed, Locked, Leased, Forsaken, Starting, Leaving
<1>3. ASSUME NEW r \in Runs, Lapse(r) PROVE Locked' /\ Leased' /\ Forsaken'
  <2>1. /\ UNCHANGED <<pc, guard, leaseLock, forced, listed, lost>>
        /\ lease[r] # None /\ lease' = [lease EXCEPT ![r] = [named |-> lease[r].named, old |-> TRUE]]
    BY <1>3 DEF Lapse, startVars
  <2>2. \A q \in Runs : q # r => lease'[q] = lease[q]
    BY <2>1 DEF LeaseInv, Typed
  <2>3. lease'[r].named = lease[r].named /\ lease'[r].old
    BY <2>1 DEF LeaseInv, Typed
  <2>4. pc[r] \notin Starting
    BY <2>1 DEF LeaseInv, Leased
  <2>5. lease'[r] # None
    <3>1. lease[r] \in Leases
      BY <2>1 DEF LeaseInv, Typed
    <3>2. [named |-> lease[r].named, old |-> TRUE] \in Leases
      BY <3>1 DEF Leases
    <3> QED
      BY <2>1, <3>2, SessionsAssumption DEF LeaseInv, Typed
  <2>6. Locked' /\ Leased'
    BY <2>1, <2>2, <2>3, <2>4, <2>5 DEF LeaseInv, Typed, Locked, Leased, Starting
  <2>7. Forsaken'
    BY <2>1, <2>2, <2>3, <2>5 DEF LeaseInv, Typed, Forsaken
  <2> QED
    BY <2>6, <2>7
<1>4. ASSUME NEW r \in Runs, Kill(r) PROVE Locked' /\ Leased' /\ Forsaken'
  BY <1>4 DEF Kill, LeaseInv, Typed, Starting, Leaving, Main, Guard, NoList, Locked, Leased, Forsaken
<1>5. ASSUME NEW r \in Runs, Resume(r) PROVE Locked' /\ Leased' /\ Forsaken'
  BY <1>5 DEF Resume, Go, LeaseInv, Typed, Starting, Leaving, Locked, Leased, Forsaken, leaseVars
<1> QED
  BY <1>1, <1>2, <1>3, <1>4, <1>5, PreflightKeeps, PersistKeeps, CloseOutKeeps, HeartbeatKeeps DEF Next

LEMMA Inductive == Spec => []IInv
<1>1. IInv /\ [Next]_vars => IInv'
  BY TypedPreserved, PlacedPreserved, CounterPreserved, LeasePreserved DEF IInv, LeaseInv
<1> QED
  BY InitInv, <1>1, PTL DEF Spec

(* Nothing else lets a start pass.                                         *)
LEMMA OnlyAdmit ==
  ASSUME Typed, Next, NEW r \in Runs, pc[r] = "admit", pc'[r] = "map" PROVE Admitted(r)
<1> USE DEF Typed, Go
<1> PICK x \in Runs : \/ Preflight(x) \/ prime(x) \/ persist(x) \/ CloseOut(x)
                      \/ Heartbeat(x) \/ Lapse(x) \/ Kill(x) \/ Resume(x)
  BY DEF Next
<1>1. CASE Preflight(x)
  BY <1>1 DEF Preflight, CheckBlocks, ListTake, ListReclaim, ListBusy, lease_list, Admit, WriteStateEnv,
              AcquireTake, lease_acquire, AcquireBusy, WorktreeAdd, RemoveRunDir
<1>2. CASE prime(x)
  BY <1>2, PrimeFrame DEF Priming
<1>3. CASE persist(x)
  BY <1>3 DEF persist, StartFinalize, FinalizeAgain, MetaTake, MetaBusy, MetaSave, HarvestTake, Append1,
              HarvestEnd, TakeIndex
<1>4. CASE CloseOut(x)
  BY <1>4 DEF CloseOut, RemoveBranch, ReleaseTake, lease_release, ReleaseBusy, Unblock, After
<1>5. CASE Heartbeat(x) \/ Lapse(x)
  BY <1>5 DEF Heartbeat, TouchStart, TouchTake, TouchBusy, TouchLook, TouchGoesOn, lease_touch, Lapse
<1>6. CASE Kill(x) \/ Resume(x)
  BY <1>6 DEF Kill, Resume
<1> QED
  BY <1>1, <1>2, <1>3, <1>4, <1>5, <1>6

-----------------------------------------------------------------------------
(* The variables keep their types, for any number of runs, files and       *)
(* faults.                                                                 *)
THEOREM TypeCorrect == Spec => []TypeOK
<1>1. IInv => TypeOK
  BY DEF IInv, Typed, Placed, Counter, TypeOK, Beats
<1> QED
  BY Inductive, <1>1, PTL

(* The counter of meta.json counts the saved reservations, and no two of   *)
(* them have the same ordinal, for any number of runs, time-outs and kills *)
(* (_reserve_run_ordinal).                                                 *)
THEOREM OrdinalsSound == Spec => []OrdinalsCount
<1>1. IInv => OrdinalsCount
  BY DEF IInv, Counter, Saved, OrdinalsCount
<1> QED
  BY Inductive, <1>1, PTL

(* A released lease is gone, but for an empty one made while the release   *)
(* went on without the lock (lease_touch, lease_release).                  *)
THEOREM ReleaseSound == Spec => []ReleasedIsGone
<1>1. IInv => ReleasedIsGone
  BY DEF IInv, Leased, ReleasedIsGone
<1> QED
  BY Inductive, <1>1, PTL

(* A start that listed under the lock does not pass over a run that was    *)
(* abandoned before, for any number of runs (preflight.sh, lease_list).    *)
THEOREM AbandonedSound == Spec => AbandonedStops
<1>1. IInv /\ [Next]_vars =>
        [\A r \in Runs :
           (pc[r] = "admit" /\ pc'[r] = "map" /\ listed[r].reclaimed) =>
             \A q \in lost[r] \cap mapped \cap branches : pc[q] # "dead"]_vars
  <2> SUFFICES ASSUME IInv, Next, NEW r \in Runs,
                      pc[r] = "admit", pc'[r] = "map", listed[r].reclaimed,
                      NEW q \in lost[r] \cap mapped \cap branches
               PROVE  FALSE
    OBVIOUS
  <2>1. Admitted(r)
    BY OnlyAdmit DEF IInv
  <2>2. q \in listed[r].leased
    BY <2>1 DEF Admitted
  <2> QED
    BY <2>2 DEF IInv, Forsaken
<1> QED
  BY Inductive, <1>1, PTL DEF Spec, AbandonedStops

-----------------------------------------------------------------------------
(* The index.  Every nonempty set of natural numbers has a least element,  *)
(* by which what a fold over the log gives is proved for each of its       *)
(* prefixes.                                                               *)
LEMMA Least == \A T \in SUBSET Nat : T # {} => \E m \in T : \A n \in T : m <= n
<1> SUFFICES ASSUME NEW T \in SUBSET Nat, T # {} PROVE \E m \in T : \A n \in T : m <= n
  OBVIOUS
<1>1. IsWellFoundedOn(OpToRel(<, Nat), Nat)
  BY NatLessThanWellFounded
<1>2. PICK m \in T : \A n \in T : ~(<<n, m>> \in OpToRel(<, Nat))
  BY <1>1, WFMin
<1>3. \A n \in T : ~(n < m)
  <2> TAKE n \in T
  <2>1. n \in Nat /\ m \in Nat
    OBVIOUS
  <2> QED
    BY <1>2, <2>1 DEF OpToRel
<1> QED
  BY <1>3

Entries == [file : Files, run : Runs \cup {Past}, ordinal : Nat]
Base(locked) == [records |-> {}, exact |-> locked]

(* f holds the fold of each prefix of s up to n.                           *)
Folds(f, s, b, n) == f = [k \in 0..n |-> IF k = 0 THEN b ELSE Fold(f[k - 1], s[k])]

LEMMA FoldExists == \A s, b : \A n \in Nat : \E f : Folds(f, s, b, n)
<1> TAKE s, b
<1> DEFINE bad == {n \in Nat : ~\E f : Folds(f, s, b, n)}
<1>1. 0 \notin bad
  <2> DEFINE f == [k \in 0..0 |-> b]
  <2>1. Folds(f, s, b, 0)
    BY DEF Folds
  <2> QED
    BY <2>1
<1>2. ASSUME NEW n \in Nat, n + 1 \in bad PROVE n \in bad
  <2> SUFFICES ASSUME NEW f, Folds(f, s, b, n) PROVE FALSE
    OBVIOUS
  <2> DEFINE g == [k \in 0..(n + 1) |-> IF k = n + 1 THEN Fold(f[n], s[n + 1]) ELSE f[k]]
             h == [k \in 0..(n + 1) |-> IF k = 0 THEN b ELSE Fold(g[k - 1], s[k])]
  <2>1. ASSUME NEW k \in 0..(n + 1) PROVE g[k] = IF k = 0 THEN b ELSE Fold(g[k - 1], s[k])
    <3>1. CASE k = n + 1
      <4>1. g[k] = Fold(f[n], s[n + 1]) /\ g[k - 1] = f[n] /\ k # 0
        BY <3>1
      <4> QED
        BY <3>1, <4>1
    <3>2. CASE k # n + 1
      <4>1. k \in 0..n /\ g[k] = f[k] /\ (k # 0 => k - 1 \in 0..n /\ g[k - 1] = f[k - 1])
        BY <3>2
      <4>2. f[k] = IF k = 0 THEN b ELSE Fold(f[k - 1], s[k])
        BY <4>1 DEF Folds
      <4> QED
        BY <4>1, <4>2
    <3> QED
      BY <3>1, <3>2
  <2>2. g = h
    BY <2>1
  <2>3. Folds(g, s, b, n + 1)
    BY <2>2 DEF Folds
  <2> QED
    BY <1>2, <2>3
<1>3. bad = {}
  <2> SUFFICES ASSUME bad # {} PROVE FALSE
    OBVIOUS
  <2>1. PICK m \in bad : \A n \in bad : m <= n
    <3> HIDE DEF bad
    <3>1. bad \in SUBSET Nat
      BY DEF bad
    <3> QED
      BY <3>1, Least
  <2>2. m \in Nat /\ m # 0
    BY <1>1
  <2> HIDE DEF bad
  <2>3. m - 1 \in Nat /\ m - 1 \notin bad /\ (m - 1) + 1 \in bad
    BY <2>1, <2>2
  <2> QED
    BY <1>2, <2>3
<1> QED
  BY <1>3

(* What a fold of the first n records of s says of them.                   *)
Sums(acc, s, n) ==
  /\ acc.records \subseteq {s[i] : i \in 1..n}
  /\ \A i \in 1..n : \E b \in acc.records : b.file = s[i].file /\ s[i].ordinal <= b.ordinal
  /\ \A b, c \in acc.records : b.file = c.file => b = c
  /\ acc.exact => \A b \in acc.records : \A i \in 1..n :
                    s[i].file = b.file /\ s[i].ordinal = b.ordinal => s[i].run = b.run

LEMMA FoldStep ==
  ASSUME NEW s \in Seq(Entries), NEW n \in Nat, n + 1 <= Len(s), NEW acc, Sums(acc, s, n)
  PROVE  Sums(Fold(acc, s[n + 1]), s, n + 1)
<1> DEFINE e == s[n + 1]
           earlier == {b \in acc.records : b.file = e.file}
           newer == \A b \in earlier : e.ordinal > b.ordinal
           tied == \E b \in earlier : e.ordinal = b.ordinal /\ e.run # b.run
           smaller == tied /\ \E b \in earlier : e.run < b.run
           new == Fold(acc, e)
<1>1. /\ new.records = IF newer \/ smaller THEN (acc.records \ earlier) \cup {e} ELSE acc.records
      /\ new.exact = (acc.exact /\ ~tied)
  BY DEF Fold
<1>2. \A i \in 1..(n + 1) : s[i] \in Entries /\ s[i].ordinal \in Nat
  <2>1. \A i \in 1..Len(s) : s[i] \in Entries
    OBVIOUS
  <2>2. 1..(n + 1) \subseteq 1..Len(s)
    OBVIOUS
  <2>3. \A x \in Entries : x.ordinal \in Nat
    BY DEF Entries
  <2> QED
    BY <2>1, <2>2, <2>3
<1>3. e = s[n + 1] /\ n + 1 \in 1..(n + 1) /\ \A i \in 1..(n + 1) : i = n + 1 \/ i \in 1..n
  OBVIOUS
<1>4. \A b \in acc.records : b \in Entries /\ b.ordinal \in Nat /\ b \in {s[i] : i \in 1..(n + 1)}
  <2> TAKE b \in acc.records
  <2>1. PICK i \in 1..n : b = s[i]
    BY DEF Sums
  <2>2. i \in 1..(n + 1)
    OBVIOUS
  <2> QED
    BY <1>2, <2>1, <2>2
<1>5. \A i \in 1..n : s[i].file = e.file => \E b \in earlier : s[i].ordinal <= b.ordinal
  BY DEF Sums
<1>6. \A b, c \in earlier : b = c
  BY DEF Sums
<1>7. CASE newer \/ smaller
  <2>1. new.records = (acc.records \ earlier) \cup {e}
    BY <1>1, <1>7
  <2>2. \A b \in earlier : b.ordinal <= e.ordinal
    BY <1>2, <1>4, <1>6, <1>7
  <2> HIDE DEF new, newer, smaller, tied
  <2>3. new.records \subseteq {s[i] : i \in 1..(n + 1)}
    BY <1>3, <1>4, <2>1
  <2>4. ASSUME NEW i \in 1..(n + 1)
        PROVE  \E b \in new.records : b.file = s[i].file /\ s[i].ordinal <= b.ordinal
    <3>1. CASE s[i].file = e.file
      <4>1. s[i].ordinal <= e.ordinal
        BY <1>2, <1>3, <1>4, <1>5, <2>2, <3>1
      <4> QED
        BY <2>1, <3>1, <4>1
    <3>2. CASE s[i].file # e.file
      <4>1. i \in 1..n
        BY <1>3, <3>2
      <4>2. PICK b \in acc.records : b.file = s[i].file /\ s[i].ordinal <= b.ordinal
        BY <4>1 DEF Sums
      <4> QED
        BY <2>1, <3>2, <4>2
    <3> QED
      BY <3>1, <3>2
  <2>5. \A b, c \in new.records : b.file = c.file => b = c
    BY <2>1 DEF Sums
  <2>6. ASSUME new.exact, NEW b \in new.records, NEW i \in 1..(n + 1),
               s[i].file = b.file, s[i].ordinal = b.ordinal
        PROVE  s[i].run = b.run
    <3>1. acc.exact /\ ~tied
      BY <1>1, <2>6
    <3>2. newer
      BY <1>7, <3>1 DEF smaller
    <3>3. CASE b = e
      <4>1. i \notin 1..n
        BY <1>2, <1>4, <1>5, <2>6, <3>2, <3>3 DEF newer
      <4> QED
        BY <1>3, <3>3, <4>1
    <3>4. CASE b # e
      <4>1. b \in acc.records /\ b.file # e.file
        BY <2>1, <3>4
      <4>2. i \in 1..n
        BY <1>3, <2>6, <4>1
      <4> QED
        BY <2>6, <3>1, <4>1, <4>2 DEF Sums
    <3> QED
      BY <3>3, <3>4
  <2> QED
    BY <2>3, <2>4, <2>5, <2>6 DEF Sums, new
<1>8. CASE ~(newer \/ smaller)
  <2>1. new.records = acc.records
    BY <1>1, <1>8
  <2>2. PICK b \in earlier : ~(e.ordinal > b.ordinal)
    BY <1>8
  <2>3. b \in acc.records /\ b.file = e.file /\ e.ordinal <= b.ordinal
    BY <1>2, <1>3, <1>4, <2>2
  <2>4. new.exact => acc.exact /\ (e.ordinal = b.ordinal => e.run = b.run)
    BY <1>1, <2>2
  <2> HIDE DEF new, newer, smaller, tied
  <2>5. new.records \subseteq {s[i] : i \in 1..(n + 1)}
    BY <1>4, <2>1
  <2>6. \A i \in 1..(n + 1) : \E c \in new.records : c.file = s[i].file /\ s[i].ordinal <= c.ordinal
    BY <1>3, <2>1, <2>3 DEF Sums
  <2>7. \A c, d \in new.records : c.file = d.file => c = d
    BY <2>1 DEF Sums
  <2>8. ASSUME new.exact, NEW c \in new.records, NEW i \in 1..(n + 1),
               s[i].file = c.file, s[i].ordinal = c.ordinal
        PROVE  s[i].run = c.run
    <3>1. CASE i = n + 1
      <4>1. c = b
        BY <1>6, <2>1, <2>2, <2>8, <3>1
      <4> QED
        BY <2>4, <2>8, <3>1, <4>1
    <3>2. CASE i # n + 1
      BY <1>3, <2>1, <2>4, <2>8, <3>2 DEF Sums
    <3> QED
      BY <3>1, <3>2
  <2> QED
    BY <2>5, <2>6, <2>7, <2>8 DEF Sums, new
<1> QED
  BY <1>7, <1>8

LEMMA FoldSums ==
  ASSUME NEW s \in Seq(Entries), NEW locked \in BOOLEAN, NEW f, Folds(f, s, Base(locked), Len(s))
  PROVE  Sums(f[Len(s)], s, Len(s)) /\ f[Len(s)].exact \in BOOLEAN
<1> DEFINE good(n) == Sums(f[n], s, n) /\ f[n].exact \in BOOLEAN
           bad == {n \in Nat : n <= Len(s) /\ ~good(n)}
<1>1. 0 \notin bad
  <2>1. f[0] = Base(locked)
    BY DEF Folds
  <2> QED
    BY <2>1 DEF Sums, Base
<1>2. ASSUME NEW n \in Nat, n + 1 \in bad PROVE n \in bad
  <2> SUFFICES ASSUME n \notin bad PROVE FALSE
    OBVIOUS
  <2>1. n + 1 <= Len(s) /\ Sums(f[n], s, n) /\ f[n].exact \in BOOLEAN
    BY <1>2
  <2>2. f[n + 1] = Fold(f[n], s[n + 1])
    BY <2>1 DEF Folds
  <2>3. Sums(f[n + 1], s, n + 1)
    BY <2>1, <2>2, FoldStep
  <2>4. f[n + 1].exact \in BOOLEAN
    <3> DEFINE e == s[n + 1]
               tied == \E b \in {c \in f[n].records : c.file = e.file} : e.ordinal = b.ordinal /\ e.run # b.run
    <3>1. f[n + 1].exact = (f[n].exact /\ ~tied)
      BY <2>2 DEF Fold
    <3> QED
      BY <2>1, <3>1
  <2> QED
    BY <1>2, <2>1, <2>3, <2>4
<1>3. bad = {}
  <2> SUFFICES ASSUME bad # {} PROVE FALSE
    OBVIOUS
  <2>1. PICK m \in bad : \A n \in bad : m <= n
    <3> HIDE DEF bad
    <3>1. bad \in SUBSET Nat
      BY DEF bad
    <3> QED
      BY <3>1, Least
  <2>2. m \in Nat /\ m # 0
    BY <1>1
  <2> HIDE DEF bad
  <2>3. m - 1 \in Nat /\ m - 1 \notin bad /\ (m - 1) + 1 \in bad
    BY <2>1, <2>2
  <2> QED
    BY <1>2, <2>3
<1> QED
  BY <1>3
LEMMA FoldedIs ==
  ASSUME log \in Seq(Entries), NEW locked \in BOOLEAN
  PROVE  \E f : Folds(f, log, Base(locked), Len(log)) /\ audit_index_records(locked) = f[Len(log)]
<1> DEFINE g == CHOOSE f : Folds(f, log, Base(locked), Len(log))
<1>1. Folds(g, log, Base(locked), Len(log))
  <2>1. \E f : Folds(f, log, Base(locked), Len(log))
    <3>1. Len(log) \in Nat
      OBVIOUS
    <3> QED
      BY <3>1, FoldExists
  <2> QED
    BY <2>1
<1>2. audit_index_records(locked) = g[Len(log)]
  BY DEF audit_index_records, Folds, Base
<1> QED
  BY <1>1, <1>2

(* What an index that covers the first n records of s says of them.        *)
LatestOf(s, p, n) ==
  LET prefix == {s[i] : i \in 1..n} IN
  /\ {e.file : e \in p.records} = {e.file : e \in prefix}
  /\ \A e \in p.records :
       /\ e \in prefix
       /\ \A o \in {b \in prefix : b.file = e.file} : o.ordinal < e.ordinal \/ o.run = e.run

Exact(s, p) == p.exact => p.size <= Len(s) /\ LatestOf(s, p, p.size)

LEMMA SumsLatest ==
  ASSUME NEW s \in Seq(Entries), NEW n \in 0..Len(s), NEW p, Sums(p, s, n), p.exact
  PROVE  LatestOf(s, p, n)
<1> DEFINE prefix == {s[i] : i \in 1..n}
<1>1. \A e \in prefix : e \in Entries /\ e.ordinal \in Nat
  <2>1. \A i \in 1..n : s[i] \in Entries
    OBVIOUS
  <2> QED
    BY <2>1 DEF Entries
<1>2. \A e \in p.records : e \in prefix
  BY DEF Sums
<1>3. \A o \in prefix : \E b \in p.records : b.file = o.file /\ o.ordinal <= b.ordinal
  BY DEF Sums
<1>4. \A b, c \in p.records : b.file = c.file => b = c
  BY DEF Sums
<1>5. \A e \in p.records : \A o \in prefix : o.file = e.file /\ o.ordinal = e.ordinal => o.run = e.run
  BY DEF Sums
<1> HIDE DEF prefix
<1>6. {e.file : e \in p.records} = {e.file : e \in prefix}
  BY <1>2, <1>3
<1>7. \A e \in p.records : \A o \in {b \in prefix : b.file = e.file} : o.ordinal < e.ordinal \/ o.run = e.run
  <2> TAKE e \in p.records
  <2> TAKE o \in {b \in prefix : b.file = e.file}
  <2>1. o.ordinal <= e.ordinal
    BY <1>3, <1>4
  <2>2. o.ordinal \in Nat /\ e.ordinal \in Nat
    BY <1>1, <1>2
  <2> QED
    BY <1>5, <2>1, <2>2
<1> QED
  BY <1>2, <1>6, <1>7 DEF LatestOf, prefix

(* What a prime has read is the latest record of each file, if it is exact.*)
LEMMA ReadIsLatest ==
  ASSUME log \in Seq(Entries), NEW locked \in BOOLEAN
  PROVE  LET found == audit_index_records(locked) IN
         /\ found.records \subseteq Entries
         /\ found.exact \in BOOLEAN
         /\ found.exact => LatestOf(log, found, Len(log))
<1>1. PICK f : Folds(f, log, Base(locked), Len(log)) /\ audit_index_records(locked) = f[Len(log)]
  BY FoldedIs
<1>2. Sums(f[Len(log)], log, Len(log)) /\ f[Len(log)].exact \in BOOLEAN
  BY <1>1, FoldSums
<1>3. f[Len(log)].records \subseteq Entries
  <2>1. \A i \in 1..Len(log) : log[i] \in Entries
    OBVIOUS
  <2> QED
    BY <1>2, <2>1 DEF Sums
<1>4. Len(log) \in 0..Len(log)
  OBVIOUS
<1> QED
  BY <1>1, <1>2, <1>3, <1>4, SumsLatest

-----------------------------------------------------------------------------
(* The log only grows, and what is said of its beginning stays true.       *)
Grows(s, t) == t \in Seq(Entries) /\ Len(s) <= Len(t) /\ \A i \in 1..Len(s) : t[i] = s[i]

LEMMA LatestGrows ==
  ASSUME NEW s \in Seq(Entries), NEW t, Grows(s, t), NEW n \in 0..Len(s), NEW p, LatestOf(s, p, n)
  PROVE  LatestOf(t, p, n)
<1>1. {s[i] : i \in 1..n} = {t[i] : i \in 1..n}
  <2>1. \A i \in 1..n : t[i] = s[i]
    BY DEF Grows
  <2> QED
    BY <2>1
<1> QED
  BY <1>1 DEF LatestOf

LEMMA ExactGrows ==
  ASSUME NEW s \in Seq(Entries), NEW t, Grows(s, t), NEW p, p.size \in Nat, Exact(s, p)
  PROVE  Exact(t, p)
<1> SUFFICES ASSUME p.exact PROVE p.size <= Len(t) /\ LatestOf(t, p, p.size)
  BY DEF Exact
<1>1. p.size \in 0..Len(s) /\ LatestOf(s, p, p.size)
  BY DEF Exact
<1>2. p.size <= Len(t)
  BY <1>1 DEF Grows
<1> QED
  BY <1>1, <1>2, LatestGrows
-----------------------------------------------------------------------------
(* The scan of a prime at each of its steps, and the two files published   *)
(* from scans.  Between the reading and the second look at the log's size  *)
(* an exact scan describes some prefix at least as long as the size it     *)
(* noted; the second look shows that it is that size.                      *)
Scans == [size : Nat, records : SUBSET Entries, exact : BOOLEAN]
Scanned == {"stat", "publish", "member"}

ScanSound(s, at, c) ==
  /\ c \in Scans /\ c.size <= Len(s)
  /\ at \notin Scanned => ~c.exact
  /\ at = "stat" /\ c.exact => \E n \in c.size..Len(s) : LatestOf(s, c, n)
  /\ at \in {"publish", "member"} => Exact(s, c)

FileSound(s, p) == p \in Scans /\ Exact(s, p)

Logged ==
  /\ log \in Seq(Entries)
  /\ scan \in [Runs -> Scans]
  /\ \A r \in Runs : ScanSound(log, pc[r], scan[r])
  /\ FileSound(log, index) /\ FileSound(log, membership)

LEMMA NoScanSound ==
  ASSUME NEW s \in Seq(Entries)
  PROVE  /\ \A at : at \notin Scanned => ScanSound(s, at, NoScan)
         /\ FileSound(s, NoScan) /\ NoScan \in Scans
  BY DEF ScanSound, FileSound, NoScan, Scans, Scanned, Exact

LEMMA ScanGrows ==
  ASSUME NEW s \in Seq(Entries), NEW t, Grows(s, t), NEW at, NEW c, ScanSound(s, at, c)
  PROVE  ScanSound(t, at, c)
<1>1. c \in Scans /\ c.size \in Nat /\ c.size <= Len(t) /\ Len(s) <= Len(t)
  BY DEF ScanSound, Scans, Grows
<1>2. at = "stat" /\ c.exact => \E n \in c.size..Len(t) : LatestOf(t, c, n)
  <2> SUFFICES ASSUME at = "stat", c.exact PROVE \E n \in c.size..Len(t) : LatestOf(t, c, n)
    OBVIOUS
  <2>1. PICK n \in c.size..Len(s) : LatestOf(s, c, n)
    BY DEF ScanSound
  <2>2. n \in 0..Len(s) /\ n \in c.size..Len(t)
    BY <1>1 DEF Grows
  <2> QED
    BY <2>1, <2>2, LatestGrows
<1>3. at \in {"publish", "member"} => Exact(t, c)
  BY <1>1, ExactGrows DEF ScanSound
<1> QED
  BY <1>1, <1>2, <1>3 DEF ScanSound

LEMMA FileGrows ==
  ASSUME NEW s \in Seq(Entries), NEW t, Grows(s, t), NEW p, FileSound(s, p)
  PROVE  FileSound(t, p)
<1>1. p.size \in Nat
  BY DEF FileSound, Scans
<1> QED
  BY <1>1, ExactGrows DEF FileSound

LEMMA LoggedInit == Init => Logged
<1> SUFFICES ASSUME Init PROVE Logged
  OBVIOUS
<1>1. log \in Seq(Entries)
  <2>1. CASE log = <<>>
    BY <2>1
  <2>2. CASE log \in PastLogs
    <3>1. {Entry(f, Past, 1) : f \in Files} \subseteq Entries
      BY DEF Entry, Entries
    <3>2. Cardinality(Files) \in Nat
      BY FS_CardinalityType, SessionsAssumption
    <3>3. log \in [1..Cardinality(Files) -> Entries]
      BY <2>2, <3>1 DEF PastLogs
    <3> QED
      BY <3>2, <3>3
  <2> QED
    BY <2>1, <2>2 DEF Init
<1>2. scan = [r \in Runs |-> NoScan] /\ index = NoScan /\ membership = NoScan
  BY DEF Init
<1>3. \A r \in Runs : pc[r] \notin Scanned
  BY DEF Init, Scanned
<1> QED
  BY <1>1, <1>2, <1>3, NoScanSound DEF Logged

(* Everything but a prime's own steps and a kill.                          *)
LEMMA LoggedFrame ==
  ASSUME Logged, Grows(log, log'), UNCHANGED <<scan, index, membership>>,
         \A r \in Runs : pc'[r] = pc[r] \/ {pc[r], pc'[r]} \cap Scanned = {}
  PROVE  Logged'
<1>1. log \in Seq(Entries) /\ log' \in Seq(Entries)
  BY DEF Logged, Grows
<1>2. ASSUME NEW r \in Runs PROVE ScanSound(log', pc'[r], scan'[r])
  <2>1. ScanSound(log', pc[r], scan[r])
    BY <1>1, ScanGrows DEF Logged
  <2> QED
    BY <2>1 DEF ScanSound, Scanned
<1>3. FileSound(log', index') /\ FileSound(log', membership')
  BY <1>1, FileGrows DEF Logged
<1> QED
  BY <1>1, <1>2, <1>3 DEF Logged

(* A step of one run's scan.                                               *)
LEMMA LoggedScan ==
  ASSUME Logged, Typed, UNCHANGED log, NEW r \in Runs,
         pc' = [pc EXCEPT ![r] = pc'[r]], scan' = [scan EXCEPT ![r] = scan'[r]],
         ScanSound(log, pc'[r], scan'[r]),
         index' = index \/ FileSound(log, index'), membership' = membership \/ FileSound(log, membership')
  PROVE  Logged'
<1>1. scan'[r] \in Scans
  BY DEF ScanSound
<1>2. \A q \in Runs : q # r => scan'[q] = scan[q] /\ pc'[q] = pc[q]
  BY DEF Logged, Typed
<1>3. scan' \in [Runs -> Scans]
  BY <1>1 DEF Logged
<1>4. \A q \in Runs : ScanSound(log', pc'[q], scan'[q])
  BY <1>2 DEF Logged
<1> QED
  BY <1>3, <1>4 DEF Logged
LEMMA PrimeLogged ==
  ASSUME Logged, Typed, NEW r \in Runs, prime(r)
  PROVE  Logged'
<1>1. /\ pc \in [Runs -> Labels] /\ scan \in [Runs -> Scans] /\ log \in Seq(Entries)
      /\ Len(log) \in Nat /\ ScanSound(log, pc[r], scan[r])
      /\ scan[r] = [size |-> scan[r].size, records |-> scan[r].records, exact |-> scan[r].exact]
      /\ scan[r].size \in Nat /\ scan[r].records \subseteq Entries /\ scan[r].exact \in BOOLEAN
  BY DEF Typed, Logged, Scans
<1>2. UNCHANGED log /\ pc' = [pc EXCEPT ![r] = pc'[r]]
  <2>1. UNCHANGED log
    BY DEF prime, PrimeTake, PrimeOpen, PrimeRead, PrimeStat, PrimePublish, PrimeMember
  <2>2. \E from, to \in Priming : Go(r, from, to)
    BY PrimeFrame
  <2> QED
    BY <1>1, <2>1, <2>2 DEF Go
<1>3. CASE PrimeTake(r)
  <2>1. pc[r] \notin Scanned /\ pc'[r] \notin Scanned /\ UNCHANGED <<scan, index, membership>>
    BY <1>1, <1>3 DEF PrimeTake, TakeIndex, Go, Scanned
  <2>2. Grows(log, log')
    BY <1>1, <1>2 DEF Grows
  <2>3. \A q \in Runs : pc'[q] = pc[q] \/ {pc[q], pc'[q]} \cap Scanned = {}
    BY <1>1, <1>2, <2>1
  <2> QED
    BY <2>1, <2>2, <2>3, LoggedFrame
<1>4. CASE PrimeOpen(r)
  <2>1. UNCHANGED <<index, membership>> /\ scan' = [scan EXCEPT ![r] = scan'[r]]
    BY <1>1, <1>4 DEF PrimeOpen
  <2>2. scan'[r] = [size |-> Len(log), records |-> {}, exact |-> FALSE]
    BY <1>1, <1>4 DEF PrimeOpen
  <2>3. pc'[r] \in {"read", "member"}
    BY <1>1, <1>4 DEF PrimeOpen, Go
  <2>4. ScanSound(log, pc'[r], scan'[r])
    BY <1>1, <2>2, <2>3 DEF ScanSound, Scans, Exact
  <2> QED
    BY <1>2, <2>1, <2>4, LoggedScan
<1>5. CASE PrimeRead(r)
  <2> DEFINE found == audit_index_records(Holds(r))
  <2>1. UNCHANGED <<index, membership>> /\ scan' = [scan EXCEPT ![r] = scan'[r]]
    BY <1>1, <1>5 DEF PrimeRead
  <2>2. scan'[r] = [size |-> scan[r].size, records |-> found.records, exact |-> found.exact]
    BY <1>1, <1>5 DEF PrimeRead
  <2>3. pc'[r] = "stat" /\ pc[r] = "read"
    BY <1>1, <1>5 DEF PrimeRead, Go
  <2>4. Holds(r) \in BOOLEAN
    BY DEF Holds
  <2>5. /\ found.records \subseteq Entries /\ found.exact \in BOOLEAN
        /\ found.exact => LatestOf(log, found, Len(log))
    BY <1>1, <2>4, ReadIsLatest
  <2> HIDE DEF found
  <2>6. scan'[r].exact => LatestOf(log, scan'[r], Len(log))
    <3>1. scan'[r].exact = found.exact /\ scan'[r].records = found.records
      BY <2>2
    <3>2. \A c, d : c.records = d.records /\ LatestOf(log, d, Len(log)) => LatestOf(log, c, Len(log))
      BY DEF LatestOf
    <3> QED
      BY <2>5, <3>1, <3>2
  <2>7. scan[r].size <= Len(log)
    BY <1>1 DEF ScanSound
  <2>8. scan'[r] \in Scans /\ scan'[r].size <= Len(log)
    BY <1>1, <2>2, <2>5, <2>7 DEF Scans
  <2>9. Len(log) \in scan'[r].size..Len(log)
    BY <1>1, <2>2, <2>7
  <2>10. ScanSound(log, pc'[r], scan'[r])
    BY <2>3, <2>6, <2>8, <2>9 DEF ScanSound, Scanned
  <2> QED
    BY <1>2, <2>1, <2>10, LoggedScan
<1>6. CASE PrimeStat(r)
  <2>1. UNCHANGED <<index, membership>> /\ scan' = [scan EXCEPT ![r] = scan'[r]]
    BY <1>1, <1>6 DEF PrimeStat
  <2>2. /\ scan'[r].size = scan[r].size /\ scan'[r].records = scan[r].records
        /\ scan'[r].exact = (scan[r].exact /\ Len(log) = scan[r].size) /\ scan'[r] \in Scans
    <3>1. scan'[r] = [scan[r] EXCEPT !.exact = @ /\ Len(log) = scan[r].size]
      BY <1>1, <1>6 DEF PrimeStat
    <3> QED
      BY <1>1, <3>1 DEF Scans
  <2>3. pc'[r] = "publish" /\ pc[r] = "stat"
    BY <1>1, <1>6 DEF PrimeStat, Go
  <2>4. ASSUME scan'[r].exact PROVE LatestOf(log, scan'[r], scan'[r].size)
    <3>1. scan[r].exact /\ Len(log) = scan[r].size
      BY <2>2, <2>4
    <3>2. PICK n \in scan[r].size..Len(log) : LatestOf(log, scan[r], n)
      BY <1>1, <2>3, <3>1 DEF ScanSound
    <3>3. n = scan[r].size
      BY <1>1, <3>1
    <3> QED
      BY <2>2, <3>2, <3>3 DEF LatestOf
  <2>5. scan'[r].size <= Len(log)
    BY <1>1, <2>2 DEF ScanSound
  <2>6. ScanSound(log, pc'[r], scan'[r])
    BY <2>2, <2>3, <2>4, <2>5 DEF ScanSound, Scanned, Exact
  <2> QED
    BY <1>2, <2>1, <2>6, LoggedScan
<1>7. CASE PrimePublish(r)
  <2>1. pc'[r] = "member" /\ pc[r] = "publish"
    BY <1>1, <1>7 DEF PrimePublish, Go
  <2>2. FileSound(log, scan[r])
    BY <1>1, <2>1 DEF ScanSound, FileSound
  <2>3. UNCHANGED membership /\ (index' = index \/ FileSound(log, index'))
    BY <1>7, <2>2 DEF PrimePublish
  <2>4. scan' = scan \/ scan' = [scan EXCEPT ![r].exact = FALSE]
    BY <1>7 DEF PrimePublish
  <2>5. scan' = [scan EXCEPT ![r] = scan'[r]]
    BY <1>1, <2>4
  <2>6. scan'[r] = scan[r] \/ scan'[r] = [scan[r] EXCEPT !.exact = FALSE]
    BY <1>1, <2>4
  <2>7. scan'[r] = scan[r] \/ (scan'[r] \in Scans /\ scan'[r].size = scan[r].size /\ ~scan'[r].exact)
    BY <1>1, <2>6 DEF Scans
  <2>8. ScanSound(log, pc'[r], scan'[r])
    BY <1>1, <2>1, <2>7 DEF ScanSound, Exact, Scanned
  <2> QED
    BY <1>2, <2>3, <2>5, <2>8, LoggedScan
<1>8. CASE PrimeMember(r)
  <2>1. pc'[r] = "hunt" /\ pc[r] = "member"
    BY <1>1, <1>8 DEF PrimeMember, Go
  <2>2. FileSound(log, scan[r])
    BY <1>1, <2>1 DEF ScanSound, FileSound
  <2>3. UNCHANGED index /\ (membership' = membership \/ FileSound(log, membership'))
    BY <1>8, <2>2 DEF PrimeMember
  <2>4. scan' = [scan EXCEPT ![r] = scan'[r]] /\ scan'[r] = NoScan
    BY <1>1, <1>8 DEF PrimeMember
  <2>5. ScanSound(log, pc'[r], scan'[r])
    BY <1>1, <2>1, <2>4, NoScanSound DEF Scanned
  <2> QED
    BY <1>2, <2>3, <2>4, <2>5, LoggedScan
<1> QED
  BY <1>3, <1>4, <1>5, <1>6, <1>7, <1>8 DEF prime
LEMMA AppendGrows ==
  ASSUME Logged, Counter, Placed, NEW r \in Runs, Append1(r)
  PROVE  Grows(log, log')
<1>1. log \in Seq(Entries) /\ Grows(log, log)
  BY DEF Logged, Grows
<1>2. CASE UNCHANGED log
  BY <1>1, <1>2
<1>3. CASE log' = Append(log, Entry(Min(todo[r]), r, ordinal[r]))
  <2>1. todo[r] \subseteq Files /\ todo[r] \subseteq Nat /\ todo[r] # {}
    BY SessionsAssumption DEF Placed, Append1
  <2>2. \E m \in todo[r] : \A n \in todo[r] : m <= n
    BY <2>1, Least
  <2>3. Min(todo[r]) \in Files
    BY <2>1, <2>2 DEF Min
  <2>4. Entry(Min(todo[r]), r, ordinal[r]) \in Entries
    BY <2>3 DEF Entry, Entries, Counter
  <2> HIDE DEF Entries
  <2> QED
    BY <1>1, <1>3, <2>4 DEF Grows
<1> QED
  BY <1>2, <1>3 DEF Append1

(* Every other step leaves the audit files as they are, and a run that     *)
(* makes it is not in the middle of a scan.                                *)
LEMMA OtherFrame ==
  ASSUME Typed, NEW r \in Runs,
         Preflight(r) \/ persist(r) \/ CloseOut(r) \/ Heartbeat(r) \/ Lapse(r) \/ Resume(r)
  PROVE  /\ UNCHANGED <<scan, index, membership>>
         /\ UNCHANGED log \/ Append1(r)
         /\ \A q \in Runs : pc'[q] = pc[q] \/ {pc[q], pc'[q]} \cap Scanned = {}
<1> DEFINE Quiet == \A q \in Runs : pc'[q] = pc[q] \/ {pc[q], pc'[q]} \cap Scanned = {}
<1>1. \A from, to : Go(r, from, to) /\ from \notin Scanned /\ to \notin Scanned => Quiet
  BY DEF Go, Typed
<1>2. UNCHANGED pc => Quiet
  OBVIOUS
<1>3. Preflight(r) => Quiet /\ UNCHANGED <<scan, index, membership, log>>
  <2>1. Preflight(r) => UNCHANGED <<scan, index, membership, log>>
    BY DEF Preflight, CheckBlocks, ListTake, ListReclaim, ListBusy, lease_list, Admit, WriteStateEnv,
           AcquireTake, lease_acquire, AcquireBusy, WorktreeAdd, RemoveRunDir, auditVars
  <2>2. Preflight(r) => \E from, to : Go(r, from, to) /\ from \notin Scanned /\ to \notin Scanned
    BY DEF Preflight, CheckBlocks, ListTake, ListReclaim, ListBusy, lease_list, Admit, WriteStateEnv,
           AcquireTake, lease_acquire, AcquireBusy, WorktreeAdd, RemoveRunDir, Scanned
  <2> HIDE DEF Quiet
  <2> QED
    BY <1>1, <2>1, <2>2
<1>4. persist(r) => Quiet /\ UNCHANGED <<scan, index, membership>> /\ (UNCHANGED log \/ Append1(r))
  <2>1. persist(r) => UNCHANGED <<scan, index, membership>> /\ (UNCHANGED log \/ Append1(r))
    BY DEF persist, StartFinalize, FinalizeAgain, MetaTake, MetaBusy, MetaSave, HarvestTake, Append1,
           HarvestEnd, auditVars
  <2>2. persist(r) => UNCHANGED pc \/ \E from, to : Go(r, from, to) /\ from \notin Scanned /\ to \notin Scanned
    <3> DEFINE Moves == \E from, to : Go(r, from, to) /\ from \notin Scanned /\ to \notin Scanned
    <3>1. StartFinalize(r) \/ FinalizeAgain(r) => Moves
      BY DEF StartFinalize, FinalizeAgain, Scanned
    <3>4. MetaTake(r) => Moves
      BY DEF MetaTake, Scanned
    <3>5. MetaBusy(r) \/ MetaSave(r) => Moves
      <4>1. MetaBusy(r) => Go(r, "meta", "harvest")
        BY DEF MetaBusy
      <4>2. MetaSave(r) => Go(r, "save", "harvest")
        BY DEF MetaSave
      <4> QED
        BY <4>1, <4>2 DEF Scanned
    <3>2. HarvestTake(r) \/ HarvestEnd(r) => Moves
      BY DEF HarvestTake, HarvestEnd, TakeIndex, Scanned
    <3>3. Append1(r) => UNCHANGED pc
      BY DEF Append1
    <3> QED
      BY <3>1, <3>2, <3>3, <3>4, <3>5 DEF persist
  <2> HIDE DEF Quiet
  <2> QED
    BY <1>1, <1>2, <2>1, <2>2
<1>5. CloseOut(r) => Quiet /\ UNCHANGED <<scan, index, membership, log>>
  <2>1. CloseOut(r) => UNCHANGED <<scan, index, membership, log>>
    BY DEF CloseOut, RemoveBranch, ReleaseTake, lease_release, ReleaseBusy, Unblock, auditVars
  <2>2. CloseOut(r) => \E from, to : Go(r, from, to) /\ from \notin Scanned /\ to \notin Scanned
    BY DEF CloseOut, RemoveBranch, ReleaseTake, lease_release, ReleaseBusy, Unblock, After, Scanned
  <2> HIDE DEF Quiet
  <2> QED
    BY <1>1, <2>1, <2>2
<1>6. Heartbeat(r) \/ Lapse(r) => Quiet /\ UNCHANGED <<scan, index, membership, log>>
  BY <1>2 DEF Heartbeat, TouchStart, TouchTake, TouchBusy, TouchLook, lease_touch, Lapse, auditVars
<1>7. Resume(r) => Quiet /\ UNCHANGED <<scan, index, membership, log>>
  <2>1. Resume(r) => UNCHANGED <<scan, index, membership, log>>
    BY DEF Resume, auditVars
  <2>2. Resume(r) => \E from, to : Go(r, from, to) /\ from \notin Scanned /\ to \notin Scanned
    BY DEF Resume, Scanned
  <2> HIDE DEF Quiet
  <2> QED
    BY <1>1, <2>1, <2>2
<1> HIDE DEF Quiet
<1>8. Quiet /\ UNCHANGED <<scan, index, membership>> /\ (UNCHANGED log \/ Append1(r))
  BY <1>3, <1>4, <1>5, <1>6, <1>7
<1> QED
  BY <1>8 DEF Quiet

LEMMA LoggedPreserved == Logged /\ IInv /\ [Next]_vars => Logged'
<1> SUFFICES ASSUME Logged, IInv, [Next]_vars PROVE Logged'
  OBVIOUS
<1>1. log \in Seq(Entries) /\ Grows(log, log) /\ Typed /\ Counter /\ Placed
  BY DEF Logged, Grows, IInv
<1>2. CASE UNCHANGED vars
  <2>1. UNCHANGED <<pc, log, scan, index, membership>>
    BY <1>2 DEF vars, auditVars
  <2> QED
    BY <1>1, <2>1, LoggedFrame
<1>3. ASSUME NEW r \in Runs,
             Preflight(r) \/ persist(r) \/ CloseOut(r) \/ Heartbeat(r) \/ Lapse(r) \/ Resume(r)
      PROVE  Logged'
  <2>1. /\ UNCHANGED <<scan, index, membership>>
        /\ UNCHANGED log \/ Append1(r)
        /\ \A q \in Runs : pc'[q] = pc[q] \/ {pc[q], pc'[q]} \cap Scanned = {}
    BY <1>1, <1>3, OtherFrame
  <2>2. Grows(log, log')
    BY <1>1, <2>1, AppendGrows
  <2> QED
    BY <2>1, <2>2, LoggedFrame
<1>4. ASSUME NEW r \in Runs, prime(r) PROVE Logged'
  BY <1>1, <1>4, PrimeLogged
<1>5. ASSUME NEW r \in Runs, Kill(r) PROVE Logged'
  <2>1. UNCHANGED <<log, index, membership>>
    BY <1>5 DEF Kill
  <2>2. pc' = [pc EXCEPT ![r] = "dead"] /\ scan' = [scan EXCEPT ![r] = NoScan]
    BY <1>5 DEF Kill
  <2>3. pc'[r] = "dead" /\ scan'[r] = NoScan
    BY <1>1, <2>2 DEF Typed, Logged
  <2>4. ScanSound(log, pc'[r], scan'[r])
    BY <1>1, <2>3, NoScanSound DEF Scanned
  <2> QED
    BY <1>1, <2>1, <2>2, <2>3, <2>4, LoggedScan
<1> QED
  BY <1>2, <1>3, <1>4, <1>5 DEF Next

(* ExactIsLatest: an index or a membership file that calls itself exact    *)
(* holds the latest record of every file of the log it describes, whatever *)
(* the runs, the files and the interleaving of primes with appends that    *)
(* went on without audit-index.lock (audit_index_records).                 *)
THEOREM ExactSound == Spec => []ExactIsLatest
<1>1. Logged => ExactIsLatest
  <2>1. ASSUME NEW p, Exact(log, p), p.exact
        PROVE  LET prefix == {log[i] : i \in 1..p.size}
                   rivals(f) == {e \in prefix : e.file = f}
               IN  /\ p.size <= Len(log)
                   /\ {e.file : e \in p.records} = {e.file : e \in prefix}
                   /\ \A e \in p.records : /\ e \in prefix
                                           /\ \A o \in rivals(e.file) : o.ordinal < e.ordinal \/ o.run = e.run
    BY <2>1 DEF Exact, LatestOf
  <2> QED
    BY <2>1 DEF Logged, FileSound, ExactIsLatest
<1>2. Spec => [](Logged /\ IInv)
  <2>1. Logged /\ IInv /\ [Next]_vars => Logged'
    BY LoggedPreserved
  <2>2. Spec => []IInv
    BY Inductive
  <2> QED
    BY <2>1, <2>2, LoggedInit, PTL DEF Spec
<1> QED
  BY <1>1, <1>2, PTL
-----------------------------------------------------------------------------
(* The lock: mutual exclusion for any number of shells, of which one may   *)
(* be killed at any point.  With four shells and a second kill it is lost, *)
(* so the assumption on MaxCrashes is needed.                              *)
Live(p, L) == p \in Shells \ dead /\ call[p] \in L

(* The shells that own the directory.                                      *)
Owns(p) == Live(p, {"write_pid", "verify", "unmark", "in", "rmdir", "clear_pid", "clear_marker"})

OneOwner == \A p, q \in Shells : Owns(p) /\ Owns(q) => p = q

(* What an owner can rely on, and that a pid that names a live shell names *)
(* an owner.                                                               *)
OwnerIsSafe ==
  /\ \A p \in Shells : Owns(p) => dir /\ pid \notin dead
  /\ \A p \in Shells : Live(p, {"verify", "unmark", "in"}) => pid = p
  /\ \A p \in Shells : Live(p, {"write_pid", "rmdir", "clear_pid", "clear_marker"}) => pid = NoFile
  /\ pid \in Shells \ dead => Owns(pid)
  /\ ~dir => pid = NoFile /\ marker = NoFile

(* A shell works on a takeover only after a kill, and is at the point of   *)
(* adopting the lock only while it owns the marker and nobody the lock.    *)
TakeoverIsSafe ==
  /\ \A p \in Shells : Live(p, {"judge_marker", "claim", "reread", "adopt", "verify", "unmark", "unclaim"})
                        => dead # {}
  /\ \A p \in Shells : Live(p, {"claim", "reread", "adopt"}) => seen[p] \in dead
  /\ \A p \in Shells : Live(p, {"reread"}) => marker = p \/ pid \notin dead
  /\ \A p \in Shells : Live(p, {"unclaim"}) => pid \notin dead
  /\ \A p \in Shells : Live(p, {"adopt"}) =>
       marker = p /\ pid \in dead /\ dir /\ \A q \in Shells : ~Owns(q)
  /\ \A p \in Shells : ~Live(p, {"rm_orphan"})
  /\ marker \notin dead /\ (dead = {} => marker = NoFile)

OneDead == \A p, q \in dead : p = q

(* A release that clears the directory has an attempt left.                *)
Counting == \A p \in Shells : call[p] \in {"clear_pid", "clear_marker"} => tries[p] > 0

LockInv == LockTypeOK /\ Counting /\ OneDead /\ OneOwner /\ OwnerIsSafe /\ TakeoverIsSafe

-----------------------------------------------------------------------------
LEMMA LockInitInv == LockInit => LockInv
<1> SUFFICES ASSUME LockInit PROVE LockInv
  OBVIOUS
<1> USE LockAssumption DEF LockInit
<1>1. dir \in BOOLEAN /\ ~dir /\ dead = {} /\ pid = NoFile /\ marker = NoFile
  BY Zenon
<1>2. \A p \in Shells : call[p] = "out"
  OBVIOUS
<1>3. LockTypeOK
  BY <1>1 DEF LockTypeOK, Calls
<1> QED
  BY <1>1, <1>2, <1>3
     DEF LockInv, Counting, OneDead, OneOwner, OwnerIsSafe, TakeoverIsSafe, Owns, Live

LEMMA TypePreserved == LockTypeOK /\ Counting /\ [LockNext]_lockVars => LockTypeOK' /\ Counting'
<1> USE DEF LockTypeOK, Calls, Counting
<1> SUFFICES ASSUME LockTypeOK, Counting, NEW p \in Shells, Step(p) \/ Crash(p)
             PROVE  LockTypeOK' /\ Counting'
  BY DEF LockNext, lockVars, procVars
<1> USE LockAssumption DEF Goto, At
<1>1. CASE Look(p)
  BY <1>1 DEF Look
<1>2. CASE Judge(p)
  BY <1>2 DEF Judge
<1>3. CASE JudgeMarker(p)
  BY <1>3 DEF JudgeMarker
<1>4. CASE RemoveOrphan(p)
  BY <1>4 DEF RemoveOrphan
<1>5. CASE Claim(p)
  BY <1>5 DEF Claim
<1>6. CASE Reread(p)
  BY <1>6 DEF Reread
<1>7. CASE Adopt(p)
  BY <1>7 DEF Adopt
<1>8. CASE Verify(p)
  BY <1>8 DEF Verify
<1>9. CASE Unmark(p)
  BY <1>9 DEF Unmark
<1>10. CASE Unclaim(p)
  BY <1>10 DEF Unclaim
<1>11. CASE RemovePid(p)
  BY <1>11 DEF RemovePid
<1>12. CASE Rmdir(p)
  BY <1>12 DEF Rmdir
<1>13. CASE ClearPid(p)
  BY <1>13 DEF ClearPid
<1>14. CASE ClearMarker(p)
  BY <1>14 DEF ClearMarker
<1>15. CASE Acquire(p)
  BY <1>15 DEF Acquire
<1>16. CASE Mkdir(p)
  BY <1>16 DEF Mkdir
<1>17. CASE WritePid(p)
  BY <1>17 DEF WritePid
<1>18. CASE Wait(p)
  <2>1. PICK l \in {"mkdir", "out"} : Goto(p, l)
    BY <1>18 DEF Wait
  <2>2. UNCHANGED <<seen, tries, dir, pid, marker, dead>>
    BY <1>18 DEF Wait
  <2>3. call' \in [Shells -> Calls]
    BY <2>1
  <2>4. \A q \in Shells : call'[q] \in {"clear_pid", "clear_marker"} => call'[q] = call[q]
    BY <2>1
  <2> QED
    BY <2>2, <2>3, <2>4
<1>19. CASE Crash(p)
  BY <1>19 DEF Crash, procVars
<1> QED
  BY <1>1, <1>2, <1>3, <1>4, <1>5, <1>6, <1>7, <1>8, <1>9, <1>10, <1>11, <1>12, <1>13, <1>14, <1>15, <1>16, <1>17, <1>18, <1>19 DEF Step, Takeover, Release

(* The step of one shell; the kill is a lemma of its own.                  *)
LEMMA StepPreserves ==
  ASSUME LockInv, LockTypeOK', Counting', NEW p \in Shells, Step(p) PROVE LockInv'
<1> USE LockAssumption DEF LockInv, LockTypeOK, Calls, Goto, At, OneDead, OneOwner, OwnerIsSafe,
        TakeoverIsSafe, Owns, Live
<1>1. CASE Acquire(p)
  BY <1>1 DEF Acquire
<1>2. CASE Mkdir(p)
  BY <1>2 DEF Mkdir
<1>3. CASE WritePid(p)
  BY <1>3 DEF WritePid
<1>4. CASE Look(p)
  BY <1>4 DEF Look
<1>5. CASE Judge(p)
  BY <1>5 DEF Judge
<1>6. CASE JudgeMarker(p)
  BY <1>6 DEF JudgeMarker
<1>7. CASE RemoveOrphan(p)
  BY <1>7 DEF RemoveOrphan
<1>8. CASE Claim(p)
  BY <1>8 DEF Claim
<1>9. CASE Reread(p)
  BY <1>9 DEF Reread
<1>10. CASE Adopt(p)
  BY <1>10 DEF Adopt
<1>11. CASE Verify(p)
  BY <1>11 DEF Verify
<1>12. CASE Unmark(p)
  BY <1>12 DEF Unmark
<1>13. CASE Unclaim(p)
  BY <1>13 DEF Unclaim
<1>14. CASE Wait(p)
  BY <1>14 DEF Wait
<1>15. CASE RemovePid(p)
  BY <1>15 DEF RemovePid
<1>16. CASE Rmdir(p)
  BY <1>16 DEF Rmdir
<1>17. CASE ClearPid(p)
  BY <1>17 DEF ClearPid
<1>18. CASE ClearMarker(p)
  BY <1>18 DEF ClearMarker
<1> QED
  BY <1>1, <1>2, <1>3, <1>4, <1>5, <1>6, <1>7, <1>8, <1>9,
     <1>10, <1>11, <1>12, <1>13, <1>14, <1>15, <1>16, <1>17, <1>18 DEF Step, Takeover, Release

LEMMA CrashPreserves ==
  ASSUME MaxCrashes = 1, LockInv, LockTypeOK', Counting', NEW p \in Shells, Crash(p) PROVE LockInv'
<1>1. dead = {}
  <2> SUFFICES ASSUME NEW d \in dead PROVE FALSE
    OBVIOUS
  <2>1. dead = {d}
    BY DEF LockInv, OneDead
  <2>2. Cardinality({d}) = 1
    BY FS_Singleton
  <2> QED
    BY <2>1, <2>2 DEF Crash
<1>2. dead' = {p} /\ UNCHANGED <<call, seen, dir>>
  BY <1>1 DEF Crash, procVars
<1>3. \A q \in Shells : ~Live(q, {"judge_marker", "claim", "reread", "adopt", "verify", "unmark", "unclaim", "rm_orphan"})
  BY <1>1 DEF LockInv, TakeoverIsSafe, Live
<1>4. marker' = marker /\ marker' \notin dead'
  BY <1>1, <1>2, <1>3, LockAssumption DEF Crash, Live, LockInv, TakeoverIsSafe
<1>5. p \notin dead /\ (pid' = pid \/ (pid' = Empty /\ dir /\ Owns(p)))
  BY <1>1, <1>2, <1>3, LockAssumption DEF Crash, Live, Owns
<1>6. \A q \in Shells : Owns(q)' => q # p /\ Owns(q)
  BY <1>1, <1>2 DEF Owns, Live
<1>7. OneDead' /\ OneOwner'
  BY <1>2, <1>6 DEF OneDead, OneOwner, LockInv
<1>8. OwnerIsSafe'
  <2> USE <1>1, <1>2, <1>5, <1>6, LockAssumption DEF LockInv, OneOwner, OwnerIsSafe
  <2>1. \A q \in Shells : Owns(q)' => dir' /\ pid' \notin dead' /\ pid' = pid
    BY DEF LockTypeOK
  <2>2. \A q \in Shells : Live(q, {"verify", "unmark", "in"})' => pid' = q
    BY <2>1 DEF Owns, Live
  <2>3. \A q \in Shells : Live(q, {"write_pid", "rmdir", "clear_pid", "clear_marker"})' => pid' = NoFile
    BY <2>1 DEF Owns, Live
  <2>4. pid' \in Shells \ dead' => Owns(pid)'
    BY DEF Owns, Live
  <2>5. ~dir' => pid' = NoFile /\ marker' = NoFile
    BY <1>4
  <2> QED
    BY <2>1, <2>2, <2>3, <2>4, <2>5
<1>9. TakeoverIsSafe'
  BY <1>2, <1>3, <1>4, <1>1 DEF TakeoverIsSafe, Live
<1> QED
  BY <1>7, <1>8, <1>9 DEF LockInv

LEMMA LockInductive == ASSUME MaxCrashes = 1 PROVE LockSpec => []LockInv
<1>1. LockInv /\ UNCHANGED lockVars => LockInv'
  BY DEF lockVars, procVars, LockInv, LockTypeOK, Counting, OneDead, OneOwner, OwnerIsSafe, TakeoverIsSafe, Owns, Live
<1>2. LockInv /\ LockNext => LockInv'
  BY TypePreserved, StepPreserves, CrashPreserves DEF LockNext, LockInv
<1> QED
  BY <1>1, <1>2, LockInitInv, PTL DEF LockSpec

(* Every variable stays in its range, for any number of kills.             *)
THEOREM LockTypeCorrect == LockSpec => []LockTypeOK
<1>1. LockInit => LockTypeOK /\ Counting
  BY LockInitInv DEF LockInv
<1> QED
  BY <1>1, TypePreserved, PTL DEF LockSpec

(* With at most one kill, at most one live shell holds the lock.           *)
THEOREM Exclusion == ASSUME MaxCrashes = 1 PROVE LockSpec => []MutualExclusion
<1>1. LockInv => MutualExclusion
  BY DEF LockInv, OneOwner, Owns, Live, MutualExclusion, Holders
<1> QED
  BY <1>1, LockInductive, PTL

(* With at most one kill, the pid file names whoever holds the lock.       *)
THEOREM Named == ASSUME MaxCrashes = 1 PROVE LockSpec => []HolderIsNamed
<1>1. LockInv => HolderIsNamed
  BY DEF LockInv, OwnerIsSafe, Owns, Live, HolderIsNamed, Holders
<1> QED
  BY <1>1, LockInductive, PTL
=============================================================================
