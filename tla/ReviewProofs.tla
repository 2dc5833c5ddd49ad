---------------------------- MODULE ReviewProofs ----------------------------
(***************************************************************************)
(* Review evidence for any number of findings, sources, sessions, requests,*)
(* kills and edits: what a reveal ends and what an eligible set of votes   *)
(* rests on.                                                               *)
(***************************************************************************)
EXTENDS Review, FiniteSetTheorems, TLAPS

Calls == [step : {"execute", "record"}, request : Requests]

Typed ==
  /\ tree \in Sources /\ digests \in Sources
  /\ candidate \in [Bugs -> Sources \cup {None, Torn}]
  /\ archive \in [Bugs -> SUBSET Sources]
  /\ revealed \subseteq Bugs
  /\ request \in [Requests -> Orders \cup {None}]
  /\ output \in [Requests -> Answers \cup {None, Torn}]
  /\ record \in [Requests -> Answers \cup {None, Torn}]
  /\ call \in [Bugs -> Calls \cup {None}]

(* A request was written for a candidate that never changes again.         *)
Frozen ==
  \A r \in Requests : request[r] # None =>
    candidate[request[r].bug] = request[r].source /\ request[r].source \in archive[request[r].bug]

(* What is recorded is what came out of the execution of a request.        *)
Ran ==
  \A r \in Requests : /\ output[r] # None => request[r] # None
                      /\ output[r] = None => record[r] = None
                      /\ record[r] \in {None, Torn, output[r]}

(* The call that holds the lock of a bug executes a request for it whose   *)
(* verdict is open, and the bug is not revealed.                           *)
Working ==
  \A b \in Bugs : call[b] # None =>
    LET r == call[b].request
    IN  /\ b \notin revealed
        /\ request[r] # None /\ request[r].bug = b
        /\ record[r] = None
        /\ output[r] \in IF call[b].step = "execute" THEN {None} ELSE Answers

IInv == Typed /\ Frozen /\ Ran /\ Working

-----------------------------------------------------------------------------
LEMMA InitInv == Init => IInv
BY ReviewAssumption DEF Init, IInv, Typed, Frozen, Ran, Working

(* Only the call of a bug works on a request for it.                       *)
LEMMA OwnRequest ==
  ASSUME IInv, NEW b \in Bugs, call[b] # None, NEW c \in Bugs, call[c] # None, b # c
  PROVE  call[b].request # call[c].request
BY DEF IInv, Working

LEMMA RequestInv ==
  ASSUME IInv, NEW b \in Bugs, NEW role \in Roles, WriteRequest(b, role)
  PROVE  IInv'
<1> USE ReviewAssumption DEF IInv, WriteRequest, MayPrepare, FreezeCandidate, PrepareArchive
<1>1. PICK r \in Requests :
        request[r] = None /\ request' = [request EXCEPT ![r] = [bug |-> b, role |-> role, source |-> digests]]
  OBVIOUS
<1>2. \A q \in Requests : q # r => request'[q] = request[q]
  BY <1>1 DEF Typed
<1>3. request'[r] = [bug |-> b, role |-> role, source |-> digests] /\ request'[r] # None
  BY <1>1 DEF Typed, Orders
<1>4. Typed'
  BY <1>1 DEF Typed, Orders
<1>5. Frozen'
  BY <1>1, <1>2, <1>3 DEF Typed, Frozen
<1>6. Ran'
  BY <1>2, <1>3 DEF Ran
<1>7. Working'
  BY <1>1, <1>2 DEF Working, Typed, Calls
<1> QED BY <1>4, <1>5, <1>6, <1>7

LEMMA StopInv ==
  ASSUME IInv, NEW b \in Bugs, StopPreparing(b) \/ TearCandidate(b)
  PROVE  IInv'
<1> USE DEF IInv, StopPreparing, TearCandidate, MayPrepare, FreezeCandidate, PrepareArchive
<1>1. Typed'
  BY DEF Typed
<1>2. Frozen'
  BY ReviewAssumption DEF Typed, Frozen, Orders
<1>3. Ran' /\ Working'
  BY DEF Ran, Working
<1> QED BY <1>1, <1>2, <1>3

LEMMA EnterInv ==
  ASSUME IInv, NEW r \in Requests, EnterRun(r)
  PROVE  IInv'
<1> USE DEF IInv, EnterRun
<1> DEFINE b == request[r].bug
<1>1. b \in Bugs /\ call' = [call EXCEPT ![b] = [step |-> "execute", request |-> r]]
  BY DEF Typed, Orders, Enter
<1> UNCHANGED <<tree, digests, candidate, archive, request, output, record, revealed>>
  BY DEF evidence
<1> HIDE DEF b
<1>2. Typed'
  BY <1>1 DEF Typed, Calls
<1>3. Frozen' /\ Ran'
  BY DEF Frozen, Ran
<1>4. \A c \in Bugs : c # b => call'[c] = call[c]
  BY <1>1 DEF Typed
<1>5. call'[b].request = r /\ call'[b].step = "execute"
  BY <1>1 DEF Typed
<1>6. b \notin revealed /\ request[r] # None /\ request[r].bug = b /\ output[r] = None /\ record[r] = None
  BY DEF b, Ran
<1>7. Working'
  BY <1>4, <1>5, <1>6 DEF Working
<1> QED BY <1>2, <1>3, <1>7

LEMMA ExecuteInv ==
  ASSUME IInv, NEW b \in Bugs, Execute(b) \/ Kill(b)
  PROVE  IInv'
<1> USE DEF IInv, Doing, Leave, GoOn
<1> DEFINE r == call[b].request
<1>1. call[b] # None /\ call[b] \in Calls /\ r \in Requests /\ record[r] = None /\ request[r] # None
  BY DEF Execute, Kill, Working, Typed, Calls
<1>2. /\ \A c \in Bugs : c # b => call'[c] = call[c]
      /\ \A q \in Requests : q # r => output'[q] = output[q]
      /\ UNCHANGED <<candidate, archive, request, record, revealed>>
  BY <1>1 DEF Execute, Kill, Abandoned, Typed
<1>3. \/ call'[b] = None /\ output'[r] \in {output[r], Torn}
      \/ /\ call'[b] = [step |-> "record", request |-> r]
         /\ output'[r] \in Answers
  BY <1>1 DEF Execute, Kill, Abandoned, Typed, Calls
<1>4. Typed'
  BY <1>1 DEF Execute, Kill, Abandoned, Typed, Calls
<1>5. Frozen'
  BY <1>2 DEF Frozen
<1>6. Ran'
  BY <1>1, <1>2, <1>3, ReviewAssumption DEF Ran
<1>7. Working'
  <2> SUFFICES ASSUME NEW c \in Bugs, call'[c] # None PROVE Working!(c)'
    BY DEF Working
  <2>1. CASE c = b
    BY <1>1, <1>2, <1>3, <2>1 DEF Working
  <2>2. CASE c # b
    BY <1>1, <1>2, <2>2, OwnRequest DEF Working, Typed, Calls
  <2> QED BY <2>1, <2>2
<1> QED BY <1>4, <1>5, <1>6, <1>7

LEMMA RecordInv ==
  ASSUME IInv, NEW b \in Bugs, RecordVerdict(b) \/ TearRecord(b)
  PROVE  IInv'
<1> USE DEF IInv, RecordVerdict, TearRecord, Doing, Leave
<1> DEFINE r == call[b].request
<1>1. call[b] # None /\ r \in Requests /\ output[r] \in Answers
  BY DEF Working, Typed, Calls
<1>2. /\ \A c \in Bugs : c # b => call'[c] = call[c]
      /\ \A q \in Requests : q # r => record'[q] = record[q]
      /\ call'[b] = None /\ record'[r] \in {output[r], Torn}
      /\ UNCHANGED <<candidate, archive, request, output, revealed>>
  BY <1>1 DEF Typed
<1>3. Typed'
  BY <1>1 DEF Typed
<1>4. Frozen'
  BY <1>2 DEF Frozen
<1>5. Ran'
  BY <1>1, <1>2, ReviewAssumption DEF Ran
<1>6. Working'
  BY <1>1, <1>2, OwnRequest DEF Working, Typed, Calls
<1> QED BY <1>3, <1>4, <1>5, <1>6

LEMMA OtherInv ==
  ASSUME IInv, \/ \E b \in Bugs : Reveal(b)
               \/ Edit \/ RefreshDigests \/ MakeExecutions \/ UNCHANGED vars
  PROVE  IInv'
<1> USE DEF IInv, Reveal, Edit, RefreshDigests, MakeExecutions, vars, evidence
<1>1. Typed'
  BY DEF Typed
<1>2. Frozen' /\ Ran'
  BY DEF Frozen, Ran
<1>3. Working'
  BY DEF Working
<1> QED BY <1>1, <1>2, <1>3

THEOREM Invariant == Spec => []IInv
<1>1. IInv /\ [Next]_vars => IInv'
  BY RequestInv, StopInv, EnterInv, ExecuteInv, RecordInv, OtherInv DEF Next
<1> QED BY InitInv, <1>1, PTL DEF Spec

-----------------------------------------------------------------------------
(* Once the verdicts are revealed no assessment of the bug is recorded any *)
(* more, be it one that began before (RevealFreezes): the two actions that *)
(* write a record do so for the call that has the lock of a bug, and the   *)
(* bug of such a call is not revealed.                                     *)
THEOREM RevealSound == Spec => RevealFreezes
<1>1. IInv /\ [Next]_vars =>
        [\A b \in revealed : \A r \in Requests :
           request[r] # None /\ request[r].bug = b => record'[r] = record[r]]_vars
  <2> SUFFICES ASSUME IInv, Next, NEW b \in revealed, NEW r \in Requests,
                      request[r] # None, request[r].bug = b
               PROVE  record'[r] = record[r]
    BY DEF vars
  <2>1. CASE \E c \in Bugs : RecordVerdict(c) \/ TearRecord(c)
    <3>1. PICK c \in Bugs : RecordVerdict(c) \/ TearRecord(c)
      BY <2>1
    <3>2. c # b /\ request[call[c].request].bug = c
      BY <3>1 DEF IInv, Working, RecordVerdict, TearRecord, Doing
    <3> QED BY <3>1, <3>2 DEF IInv, Typed, RecordVerdict, TearRecord
  <2>2. CASE record' = record
    BY <2>2
  <2> QED
    BY <2>1, <2>2 DEF Next, WriteRequest, StopPreparing, TearCandidate, Execute, Reveal, Kill,
       EnterRun, Edit, RefreshDigests, MakeExecutions, evidence
<1> QED BY Invariant, <1>1, PTL DEF Spec, RevealFreezes

-----------------------------------------------------------------------------
(* As many values as members that differ in them.                          *)
LEMMA DistinctValues ==
  ASSUME NEW S, IsFiniteSet(S), NEW f, \A x, y \in S : x # y => f[x] # f[y]
  PROVE  Cardinality({f[x] : x \in S}) = Cardinality(S)
<1> DEFINE T == {f[x] : x \in S}
           g == [x \in S |-> f[x]]
<1>1. g \in Bijection(S, T)
  BY DEF Bijection, Injection, Surjection, IsInjective
<1> QED BY <1>1, FS_Bijection DEF ExistsBijection

LEMMA MoreThanHalf ==
  ASSUME NEW n \in Nat, NEW m \in Nat, n > m \div 2
  PROVE  2 * n > m
OBVIOUS

(* A finding is eligible only on executions of its own (ReviewIsEarned).   *)
THEOREM EarnedSound == Spec => []ReviewIsEarned
<1>1. ASSUME IInv, NEW b \in Bugs, NEW source \in Sources, NEW votes \in 1..MaxVotes,
             Eligible(b, source, votes)
      PROVE  LET ran == {r \in Requests : /\ output[r] \notin {None, Torn} /\ record[r] = output[r]
                                          /\ request[r].bug = b /\ request[r].role = "referee"}
             IN /\ candidate[b] = source /\ source \in archive[b] /\ \A r \in ran : request[r].source = source
                /\ Cardinality({output[r].session : r \in ran}) = votes
                /\ 2 * Cardinality({r \in ran : output[r].verdict = "CONFIRMED"}) > votes
  <2> DEFINE own == Recorded(b, {"referee"})
             ran == {r \in Requests : /\ output[r] \notin {None, Torn} /\ record[r] = output[r]
                                      /\ request[r].bug = b /\ request[r].role = "referee"}
             session == [r \in ran |-> output[r].session]
  <2>1. votes \in Nat /\ votes # 0
    BY <1>1, ReviewAssumption
  <2>2. own \subseteq AllRecorded
    BY DEF Recorded, AllRecorded, Roles
  <2>3. \A r \in own : record[r] \notin {None, Torn} /\ record[r] = output[r]
    BY <1>1, <2>2 DEF Eligible, Readable, Recorded, IInv, Ran
  <2>4. own = ran
    BY <2>3 DEF Recorded
  <2>5. IsFiniteSet(ran)
    <3>1. IsFiniteSet(Requests)
      BY FS_Interval, ReviewAssumption DEF Requests
    <3>2. ran \in SUBSET Requests
      OBVIOUS
    <3> HIDE DEF ran
    <3> QED BY <3>1, <3>2, FS_Subset
  <2>6. Cardinality(ran) = votes /\ \A r \in ran : request[r].source = source
    BY <1>1, <2>4 DEF Eligible
  <2>7. PICK r \in ran : TRUE
    BY <2>1, <2>6, FS_EmptySet
  <2>8. candidate[b] = source /\ source \in archive[b]
    BY <1>1, <2>6, <2>7 DEF IInv, Ran, Frozen
  <2>9. Cardinality({output[q].session : q \in ran}) = votes
    <3>1. \A q, p \in ran : q # p => session[q] # session[p]
      BY <1>1, <2>3, <2>4 DEF Eligible, Unshared
    <3>2. {session[q] : q \in ran} = {output[q].session : q \in ran}
      OBVIOUS
    <3> HIDE DEF session, ran
    <3>3. Cardinality({session[q] : q \in ran}) = Cardinality(ran)
      BY <3>1, <2>5, DistinctValues
    <3> QED BY <3>2, <3>3, <2>6
  <2>10. 2 * Cardinality({q \in ran : output[q].verdict = "CONFIRMED"}) > votes
    <3>1. Confirmed(own) = {q \in ran : output[q].verdict = "CONFIRMED"}
      BY <2>3, <2>4 DEF Confirmed
    <3>2. Cardinality(Confirmed(own)) > votes \div 2
      BY <1>1 DEF Eligible
    <3>3. Cardinality(Confirmed(own)) \in Nat
      <4>1. Confirmed(own) \in SUBSET ran
        BY <2>4 DEF Confirmed
      <4> HIDE DEF ran, own
      <4> QED BY <4>1, <2>5, FS_Subset, FS_CardinalityType
    <3> QED BY <3>1, <3>2, <3>3, <2>1, MoreThanHalf
  <2> QED BY <2>6, <2>8, <2>9, <2>10
<1>2. ASSUME NEW b \in Credited, NEW c \in Credited, b # c,
             NEW r \in Recorded(b, {"referee"}), NEW q \in Recorded(c, {"referee"})
      PROVE  record[r].session # record[q].session
  <2>1. Unshared(b)
    BY <1>2 DEF Credited, Eligible
  <2>2. q \in AllRecorded \ Recorded(b, {"referee"})
    BY <1>2 DEF Credited, Recorded, AllRecorded, Roles
  <2> QED BY <1>2, <2>1, <2>2 DEF Unshared
<1>3. IInv => ReviewIsEarned
  BY <1>1, <1>2 DEF ReviewIsEarned
<1> QED BY Invariant, <1>3, PTL
=============================================================================
