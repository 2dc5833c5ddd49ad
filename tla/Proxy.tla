------------------------------- MODULE Proxy --------------------------------
(***************************************************************************)
(* The provider proxy of the benchmark (provider_proxy.py): one thread per *)
(* request, a budget under one lock, and the usage events it prints.  A    *)
(* request reserves before it goes upstream and settles afterwards; its    *)
(* client may hang up at any moment.                                       *)
(***************************************************************************)
EXTENDS Integers, FiniteSets, FiniteSetsExt

CONSTANTS
  None,
  Requests,   \* bound: the requests one proxy is sent
  Policies,   \* the policies an operator may have approved
  Bodies,     \* sizes of a request, in bytes
  Answers     \* what an upstream answers: usage in tokens, and whether the status is an error

Limits == Nat \cup {None}
Bills == [charge : Nat, in : Nat, out : Nat]

ASSUME ProxyAssumption ==
  /\ IsFiniteSet(Requests) /\ Bodies \subseteq Nat
  /\ Policies \subseteq
       [turns : Limits, inflight : Nat, requestBytes : Nat, input : Limits, output : Limits,
        spend : Limits, reservation : Limits, rated : BOOLEAN]
  /\ Answers \subseteq [in : Nat, out : Nat, failed : BOOLEAN]
  /\ None \notin Nat \cup Answers \cup Bills

VARIABLES
  caps,     \* the policy of the proxy
  up,       \* the proxy serves
  at,       \* where the handler of each request is
  size,     \* the bytes of each admitted request
  gone,     \* requests whose client has hung up
  budget,   \* class Budget
  events,   \* usage events printed so far
  paid      \* history: what each request cost when it was settled first

proxyVars == <<caps, up, at, size, gone, budget, events, paid>>

(* load_policy: rates are one unit of money per token, or absent.          *)
LoadPolicy(p) ==
  /\ p.requestBytes >= 1 /\ p.inflight \in 1..32
  /\ p.input # None => p.requestBytes <= p.input
  /\ IF p.spend = None THEN p.reservation = None
     ELSE p.reservation # None /\ p.reservation \in 1..p.spend

(* The sum of the amounts f[x] is the number of their units.               *)
Units(f, S) == UNION {{x} \X (1..f[x]) : x \in S}
Sum(f, S) == Cardinality(Units(f, S))

Empty == [turns |-> 0, inflight |-> 0, reserved |-> 0, settled |-> 0,
          inReserved |-> 0, inSettled |-> 0, outReserved |-> 0, outSettled |-> 0]

Idle(serving) ==
  /\ up = serving
  /\ at = [r \in Requests |-> "idle"] /\ size = [r \in Requests |-> 0]
  /\ gone = {} /\ budget = Empty /\ events = {}
  /\ paid = [r \in Requests |-> None]

-----------------------------------------------------------------------------
(* normalize_request: the output cap of the request is replaced by that of *)
(* the policy, so that every request reserves the whole of it; without one *)
(* nothing is counted against output tokens.                               *)
Normalizes(b) == b <= caps.requestBytes

OutReservation == IF caps.output # None THEN caps.output ELSE 0

Reservation == IF caps.reservation = None THEN 0 ELSE caps.reservation

(* Budget.admit *)
Admits(inRes, outRes) ==
  /\ caps.turns # None => budget.turns < caps.turns
  /\ budget.inflight < caps.inflight
  /\ caps.spend # None => budget.settled + budget.reserved + Reservation <= caps.spend
  /\ caps.input # None => budget.inSettled + budget.inReserved + inRes <= caps.input
  /\ caps.output # None => budget.outSettled + budget.outReserved + outRes <= caps.output

Cost(answer) == IF answer = None \/ ~caps.rated THEN None ELSE answer.in + answer.out

(* An answer with an error status, like no answer at all, is uncertain.    *)
Charged(answer) ==
  IF Cost(answer) = None \/ answer.failed THEN Reservation ELSE Max({Reservation, Cost(answer)})

(* Mutant: an uncertain request gives its tokens back.                     *)
SettledForgiving(r, answer) ==
  [budget EXCEPT !.inflight = @ - 1,
     !.reserved = @ - Reservation, !.settled = @ + Charged(answer),
     !.inReserved = @ - size[r], !.inSettled = @ + (IF answer = None THEN 0 ELSE answer.in),
     !.outReserved = @ - OutReservation,
     !.outSettled = @ + (IF answer = None THEN 0 ELSE answer.out)]

(* Budget.settle *)
Settled(r, answer) ==
  [budget EXCEPT !.inflight = @ - 1,
     !.reserved = @ - Reservation, !.settled = @ + Charged(answer),
     !.inReserved = @ - size[r], !.inSettled = @ + (IF answer = None THEN size[r] ELSE answer.in),
     !.outReserved = @ - OutReservation,
     !.outSettled = @ + (IF answer = None THEN OutReservation ELSE answer.out)]

Bill(r, answer) ==
  [charge |-> Charged(answer),
   in |-> IF answer = None THEN size[r] ELSE answer.in,
   out |-> IF answer = None THEN OutReservation ELSE answer.out]

-----------------------------------------------------------------------------
(* do_POST, up to the request that goes upstream.                          *)
Receive(r) ==
  /\ up /\ at[r] = "idle" /\ r \notin gone
  /\ \E b \in Bodies :
       /\ Normalizes(b) /\ Admits(b, OutReservation)
       /\ size' = [size EXCEPT ![r] = b]
       /\ budget' = [budget EXCEPT !.turns = @ + 1, !.inflight = @ + 1,
                       !.reserved = @ + Reservation, !.inReserved = @ + b,
                       !.outReserved = @ + OutReservation]
  /\ at' = [at EXCEPT ![r] = "sent"]
  /\ UNCHANGED <<caps, up, gone, events, paid>>

(* _reject, of a request that is not admitted.                             *)
Refuse(r) ==
  /\ up /\ at[r] = "idle" /\ r \notin gone
  /\ \E b \in Bodies : ~(Normalizes(b) /\ Admits(b, OutReservation))
  /\ at' = [at EXCEPT ![r] = "over"]
  /\ events' = events \cup {[request |-> r, status |-> "rejected"]}
  /\ UNCHANGED <<caps, up, size, gone, budget, paid>>

(* The answer is settled before it is passed on.                           *)
Answer(r) ==
  /\ up /\ at[r] = "sent"
  /\ \E answer \in Answers :
       /\ answer.in <= size[r] /\ (caps.output # None => answer.out <= caps.output)
       /\ budget' = Settled(r, answer)
       /\ paid' = [paid EXCEPT ![r] = Bill(r, answer)]
  /\ at' = [at EXCEPT ![r] = "answered"]
  /\ UNCHANGED <<caps, up, size, gone, events>>

Deliver(r) ==
  /\ up /\ at[r] = "answered" /\ r \notin gone
  /\ at' = [at EXCEPT ![r] = "over"]
  /\ events' = events \cup {[request |-> r, status |-> "forwarded", charged |-> paid[r].charge]}
  /\ UNCHANGED <<caps, up, size, gone, budget, paid>>

(* Passing the answer on fails because the client is gone.  The handler    *)
(* settles a second time, and its own answer fails like the first, so that *)
(* it ends before it prints an event.                                      *)
DeliverFails(r) ==
  /\ up /\ at[r] = "answered" /\ r \in gone
  /\ budget' = Settled(r, None)
  /\ at' = [at EXCEPT ![r] = "over"]
  /\ UNCHANGED <<caps, up, size, gone, events, paid>>

(* The upstream cannot be reached, times out or answers too much.          *)
UpstreamFails(r) ==
  /\ up /\ at[r] = "sent"
  /\ budget' = Settled(r, None)
  /\ paid' = [paid EXCEPT ![r] = Bill(r, None)]
  /\ at' = [at EXCEPT ![r] = "over"]
  /\ events' = IF r \in gone THEN events
               ELSE events \cup {[request |-> r, status |-> "rejected"],
                                 [request |-> r, status |-> "upstream_error", charged |-> Reservation]}
  /\ UNCHANGED <<caps, up, size, gone>>

Handle(r) ==
  Receive(r) \/ Refuse(r) \/ Answer(r) \/ Deliver(r) \/ DeliverFails(r) \/ UpstreamFails(r)

(* A client that hangs up; proxy.sh starting and killing the proxy.        *)
HangUp(r) ==
  /\ up /\ r \notin gone /\ at[r] \in {"sent", "answered"}
  /\ gone' = gone \cup {r}
  /\ UNCHANGED <<caps, up, at, size, budget, events, paid>>

-----------------------------------------------------------------------------
Sent == {r \in Requests : at[r] = "sent"}
Billed == {r \in Requests : paid[r] # None}
Counted(e) == e.status \in {"forwarded", "upstream_error"}

(* Budget, provider_proxy.py:151-189: what the budget holds, reserved and  *)
(* settled together, is exactly what the requests in flight may cost and   *)
(* the others did cost, although a request whose client hung up is settled *)
(* twice.                                                                  *)
BudgetIsExact ==
  /\ budget.reserved + budget.settled =
       Reservation * Cardinality(Sent) + Sum([r \in Billed |-> paid[r].charge], Billed)
  /\ budget.inReserved + budget.inSettled =
       Sum(size, Sent) + Sum([r \in Billed |-> paid[r].in], Billed)
  /\ budget.outReserved + budget.outSettled =
       OutReservation * Cardinality(Sent) + Sum([r \in Billed |-> paid[r].out], Billed)

(* No cap is passed by what was really sent.                               *)
CapsHold ==
  /\ caps.turns # None => Cardinality(Sent \cup Billed) <= caps.turns
  /\ caps.input # None => Sum(size, Sent) + Sum([r \in Billed |-> paid[r].in], Billed) <= caps.input
  /\ caps.spend # None =>
       Reservation * Cardinality(Sent) + Reservation * Cardinality(Billed) <= caps.spend
=============================================================================
