---------------------------- MODULE HarnessProofs ----------------------------
(***************************************************************************)
(* The safety of the managed campaign and of its proxy, for any order of   *)
(* rows, policies, request sizes and answers and any number of requests.   *)
(***************************************************************************)
EXTENDS Harness, FiniteSetTheorems, TLAPS

(* The proxy.  The bill of a request is final once it is settled; what is  *)
(* reserved is never more than what the requests in flight reserved.       *)
Events ==
  [request : Requests, status : {"rejected"}] \cup
  [request : Requests, status : {"forwarded", "upstream_error"}, charged : Nat]

ProxyTyped ==
  /\ caps \in Policies /\ LoadPolicy(caps) /\ up \in BOOLEAN /\ gone \subseteq Requests
  /\ at \in [Requests -> {"idle", "sent", "answered", "over"}]
  /\ size \in [Requests -> Nat]
  /\ budget \in [turns : Nat, inflight : Int, reserved : Int, settled : Int, inReserved : Int,
                 inSettled : Int, outReserved : Int, outSettled : Int]
  /\ paid \in [Requests -> Bills \cup {None}]
  /\ events \subseteq Events

Books ==
  /\ \A r \in Requests : /\ paid[r] # None => at[r] \in {"answered", "over"}
                         /\ at[r] = "answered" => paid[r] # None
                         /\ paid[r] # None => paid[r].charge >= Reservation
  /\ budget.turns = Cardinality(Sent \cup Billed)
  /\ budget.reserved <= Reservation * Cardinality(Sent)

(* An event that counts is the only one of its request and says no more    *)
(* than its bill.                                                          *)
Printed ==
  \A e \in events : Counted(e) =>
    /\ at[e.request] = "over" /\ paid[e.request] # None
    /\ e.charged <= paid[e.request].charge
    /\ \A f \in events : Counted(f) /\ f.request = e.request => f = e

ProxyInv == ProxyTyped /\ Books /\ Printed /\ BudgetIsExact /\ CapsHold

(* The coordinator.  Whatever is left of an earlier row has halted the     *)
(* campaign and is listed; what is there of this row was attempted.        *)
Ready == {"row", "manifest", "start"}

Rowed ==
  /\ row \in Nat \ {0} /\ receipts \in Seq({"completed", "skipped", "error"})
  /\ Len(receipts) = row - 1 /\ row <= Len(Order) + 1
  /\ pc \notin {"row", "done", "aborted"} => row <= Len(Order)
  /\ pc = "done" => row > Len(Order)
  /\ result \in {"completed", "skipped", "error"}

Things == box \cup net

Owned ==
  /\ Things \subseteq 1..row
  /\ \A j, k \in Things : j = k
  /\ Things \ {row} \subseteq pending
  /\ Things \ {row} # {} => halt
  /\ halt => pc \notin InTry \cup {"start"}
  /\ pc \in Ready \cup {"done"} => row \notin Things
  /\ row \in Things => attempted
  /\ attempted \in BOOLEAN /\ doubt \in BOOLEAN /\ halt \in BOOLEAN
  /\ pc \in {"evidence", "write"} /\ row \in Things => doubt

(* The stages of this row.                                                 *)
Kept == {i \in DOMAIN lifecycles : lifecycles[i] = "completed"}

Staged ==
  /\ stage \in Nat /\ lifecycles \in Seq({"completed", "error"})
  /\ story \in Seq([outcome : Outcomes, source : {"frozen", "other"}])
  /\ Len(lifecycles) = stage /\ Len(story) = stage
  /\ source \in {"frozen", "other"}
  /\ seen = {story[i].outcome.session : i \in Kept}
  /\ \A i \in Kept :
       /\ story[i].source = "frozen" /\ story[i].outcome.exec = "ok" /\ story[i].outcome.prompt
       /\ (i > (IF Cold THEN 2 ELSE 1)) => story[i].outcome.text = "claims"
  /\ \A i, j \in Kept : story[i].outcome.session = story[j].outcome.session => i = j

Earned ==
  /\ pc \in Ready \cup InTry => result = "error"
  /\ result = "completed" => Len(story) = Total /\ Kept = DOMAIN story

(* What is sealed was in the budget.                                       *)
SealHolds ==
  /\ sealed \in Usages \cup {None}
  /\ sealed # None =>
       /\ pc \in {"remove", "evidence", "write", "aborted"}
       /\ sealed.turns <= budget.turns /\ sealed.charged <= budget.settled

IInv == ProxyInv /\ Rowed /\ Owned /\ Staged /\ Earned /\ SealHolds

-----------------------------------------------------------------------------
Amounts(f, S) == \A x \in S : f[x] \in Nat

(* Sums of finitely many natural numbers, counted in units.                *)
LEMMA UnitsFinite ==
  ASSUME NEW S, IsFiniteSet(S), NEW f, Amounts(f, S)
  PROVE  IsFiniteSet(Units(f, S))
<1> DEFINE column == [x \in S |-> {x} \X (1..f[x])]
           columns == {{x} \X (1..f[x]) : x \in S}
<1>1. column \in Surjection(S, columns)
  BY DEF Surjection
<1>2. IsFiniteSet(columns)
  <2> HIDE DEF column, columns
  <2> QED BY <1>1, FS_Surjection
<1>3. ASSUME NEW c \in columns PROVE IsFiniteSet(c)
  <2>1. PICK x \in S : c = {x} \X (1..f[x])
    OBVIOUS
  <2>2. f[x] \in Int
    BY DEF Amounts
  <2>3. IsFiniteSet(1..f[x])
    BY <2>2, FS_Interval
  <2>4. IsFiniteSet({x})
    BY FS_Singleton
  <2> QED
    BY <2>1, <2>3, <2>4, FS_Product
<1>4. IsFiniteSet(UNION columns)
  <2> HIDE DEF column, columns
  <2> QED BY <1>2, <1>3, FS_UNION
<1> QED
  BY <1>4 DEF Units

LEMMA SumNat ==
  ASSUME NEW S, IsFiniteSet(S), NEW f, Amounts(f, S)
  PROVE  Sum(f, S) \in Nat
BY UnitsFinite, FS_CardinalityType DEF Sum

LEMMA SumEmpty == \A f : Sum(f, {}) = 0
<1> SUFFICES ASSUME NEW f PROVE Sum(f, {}) = 0
  OBVIOUS
<1>1. Units(f, {}) = {}
  BY DEF Units
<1> QED
  BY <1>1, FS_EmptySet DEF Sum

LEMMA SumSame ==
  ASSUME NEW S, NEW f, NEW g, \A x \in S : f[x] = g[x]
  PROVE  Sum(f, S) = Sum(g, S)
<1>1. Units(f, S) = Units(g, S)
  BY DEF Units
<1> QED
  BY <1>1 DEF Sum

LEMMA SumAdd ==
  ASSUME NEW S, IsFiniteSet(S), NEW f, NEW x, x \notin S, Amounts(f, S \cup {x})
  PROVE  Sum(f, S \cup {x}) = Sum(f, S) + f[x]
<1> DEFINE column == {x} \X (1..f[x])
<1>1. Units(f, S \cup {x}) = Units(f, S) \cup column
  BY DEF Units
<1>2. Units(f, S) \cap column = {}
  BY DEF Units
<1>3. IsFiniteSet(column) /\ Cardinality(column) = f[x]
  <2>1. f[x] \in Nat
    BY DEF Amounts
  <2>2. IsFiniteSet(1..f[x]) /\ Cardinality(1..f[x]) = f[x]
    BY <2>1, FS_Interval
  <2>3. IsFiniteSet({x}) /\ Cardinality({x}) = 1
    BY FS_Singleton
  <2>4. IsFiniteSet(column) /\ Cardinality(column) = Cardinality({x}) * Cardinality(1..f[x])
    BY <2>2, <2>3, FS_Product
  <2> HIDE DEF column
  <2>5. 1 * f[x] = f[x]
    BY <2>1
  <2> QED
    BY <2>2, <2>3, <2>4, <2>5
<1>4. IsFiniteSet(Units(f, S)) /\ Cardinality(Units(f, S)) \in Nat
  BY UnitsFinite, FS_CardinalityType DEF Amounts
<1>5. Cardinality(Units(f, S) \cap column) = 0
  BY <1>2, FS_EmptySet
<1> HIDE DEF column
<1>6. Cardinality(Units(f, S) \cup column)
        = Cardinality(Units(f, S)) + Cardinality(column) - Cardinality(Units(f, S) \cap column)
  BY <1>3, <1>4, FS_Union
<1>7. f[x] \in Nat
  BY DEF Amounts
<1>8. Cardinality(Units(f, S) \cup column) = Cardinality(Units(f, S)) + f[x]
  BY <1>3, <1>4, <1>5, <1>6, <1>7
<1> QED
  BY <1>1, <1>8 DEF Sum

(* A sum is at most another one whose amounts it goes into one by one.     *)
LEMMA SumInjective ==
  ASSUME NEW S, NEW T, IsFiniteSet(T), NEW f, NEW g, NEW h \in [S -> T],
         Amounts(f, S), Amounts(g, T),
         \A x, y \in S : h[x] = h[y] => x = y,
         \A x \in S : f[x] <= g[h[x]]
  PROVE  Sum(f, S) <= Sum(g, T)
<1> DEFINE moved == [u \in Units(f, S) |-> <<h[u[1]], u[2]>>]
<1>1. ASSUME NEW u \in Units(f, S) PROVE u[1] \in S /\ u = <<u[1], u[2]>> /\ u[2] \in 1..f[u[1]]
  BY DEF Units
<1>2. moved \in [Units(f, S) -> Units(g, T)]
  <2>1. ASSUME NEW u \in Units(f, S) PROVE <<h[u[1]], u[2]>> \in Units(g, T)
    <3>1. h[u[1]] \in T /\ u[2] \in 1..g[h[u[1]]]
      BY <1>1 DEF Amounts
    <3> QED
      BY <3>1 DEF Units
  <2> QED
    BY <2>1
<1>3. moved \in Injection(Units(f, S), Units(g, T))
  <2>1. ASSUME NEW u \in Units(f, S), NEW v \in Units(f, S), moved[u] = moved[v] PROVE u = v
    BY <1>1, <2>1
  <2> QED
    BY <1>2, <2>1 DEF Injection, IsInjective
<1> HIDE DEF moved
<1>4. IsFiniteSet(Units(g, T))
  BY UnitsFinite
<1> QED
  BY <1>3, <1>4, FS_Injection DEF Sum

(* ... and at least its least amount times their number.                   *)
LEMMA SumBelow ==
  ASSUME NEW S, IsFiniteSet(S), NEW f, Amounts(f, S), NEW n \in Nat, \A x \in S : n <= f[x]
  PROVE  n * Cardinality(S) <= Sum(f, S)
<1>1. S \X (1..n) \in SUBSET Units(f, S)
  BY DEF Units, Amounts
<1>2. IsFiniteSet(1..n) /\ Cardinality(1..n) = n
  BY FS_Interval
<1>3. Cardinality(S \X (1..n)) = Cardinality(S) * n
  BY <1>2, FS_Product
<1>4. Cardinality(S \X (1..n)) <= Cardinality(Units(f, S))
  BY <1>1, UnitsFinite, FS_Subset
<1>5. Cardinality(S) \in Nat
  BY FS_CardinalityType
<1>6. Cardinality(S) * n = n * Cardinality(S)
  BY <1>5
<1> QED
  BY <1>3, <1>4, <1>6 DEF Sum

(* One more amount.                                                        *)
LEMMA SumExtend ==
  ASSUME NEW S, IsFiniteSet(S), NEW x, x \notin S, NEW f, NEW g,
         \A y \in S : f[y] \in Nat /\ g[y] = f[y], g[x] \in Nat
  PROVE  Sum(g, S \cup {x}) = Sum(f, S) + g[x]
<1>1. Amounts(g, S \cup {x})
  BY DEF Amounts
<1>2. \A y \in S : g[y] = f[y]
  OBVIOUS
<1>3. Sum(g, S) = Sum(f, S)
  BY <1>2, SumSame
<1>4. Sum(g, S \cup {x}) = Sum(g, S) + g[x]
  BY <1>1, SumAdd
<1> QED
  BY <1>3, <1>4

-----------------------------------------------------------------------------
(* The numbers of the proxy.                                               *)
LEMMA MaxOfTwo ==
  ASSUME NEW a \in Int, NEW b \in Int
  PROVE  Max({a, b}) \in {a, b} /\ Max({a, b}) >= a /\ Max({a, b}) >= b
<1>1. \E x \in {a, b} : \A y \in {a, b} : x >= y
  <2>1. CASE a >= b
    BY <2>1
  <2>2. CASE b >= a
    BY <2>2
  <2> QED
    BY <2>1, <2>2
<1> QED
  BY <1>1 DEF Max

LEMMA PolicyNumbers ==
  ASSUME ProxyTyped
  PROVE  /\ Reservation \in Nat /\ OutReservation \in Nat
         /\ caps.turns \in Limits /\ caps.input \in Limits /\ caps.spend \in Limits
         /\ None \notin Nat
BY ProxyAssumption DEF ProxyTyped, Reservation, OutReservation, Limits

LEMMA ChargedNumber ==
  ASSUME ProxyTyped, NEW answer \in Answers \cup {None}
  PROVE  /\ Charged(answer) \in Nat /\ Charged(answer) >= Reservation
         /\ Charged(None) = Reservation
<1>1. Charged(None) = Reservation
  BY DEF Charged, Cost
<1>2. Reservation \in Nat
  BY PolicyNumbers
<1>3. CASE Cost(answer) = None \/ answer.failed
  BY <1>1, <1>2, <1>3 DEF Charged
<1>4. CASE ~(Cost(answer) = None \/ answer.failed)
  <2>1. Charged(answer) = Max({Reservation, Cost(answer)})
    BY <1>4 DEF Charged
  <2>2. answer \in Answers /\ Cost(answer) = answer.in + answer.out
    BY <1>4 DEF Cost
  <2>3. Cost(answer) \in Nat
    BY <2>2, ProxyAssumption
  <2>4. /\ Max({Reservation, Cost(answer)}) \in {Reservation, Cost(answer)}
        /\ Max({Reservation, Cost(answer)}) >= Reservation
    BY <1>2, <2>3, MaxOfTwo
  <2> QED
    BY <1>1, <1>2, <2>1, <2>3, <2>4
<1> QED
  BY <1>3, <1>4

Budgets == [turns : Nat, inflight : Int, reserved : Int, settled : Int, inReserved : Int,
            inSettled : Int, outReserved : Int, outSettled : Int]

(* What an answer, or None, is billed for its tokens.                      *)
LEMMA BillNumbers ==
  ASSUME ProxyTyped, NEW r \in Requests, NEW answer \in Answers \cup {None}
  PROVE  /\ Bill(r, answer) \in Bills
         /\ Bill(r, answer).charge = Charged(answer)
         /\ Bill(r, None).in = size[r] /\ Bill(r, None).out = OutReservation
         /\ Bill(r, answer) # None
<1>1. size[r] \in Nat
  BY DEF ProxyTyped
<1>2. Charged(answer) \in Nat /\ OutReservation \in Nat
  BY ChargedNumber, PolicyNumbers
<1>3. answer # None => answer.in \in Nat /\ answer.out \in Nat
  BY ProxyAssumption
<1>4. Bill(r, answer) \in Bills
  <2>1. CASE answer = None
    BY <1>1, <1>2, <2>1 DEF Bill, Bills
  <2>2. CASE answer # None
    BY <1>1, <1>2, <1>3, <2>2 DEF Bill, Bills
  <2> QED
    BY <2>1, <2>2
<1> QED
  BY <1>4, ProxyAssumption DEF Bill

(* A budget that is changed.                                               *)
LEMMA BudgetChange ==
  ASSUME NEW b \in Budgets, NEW d, NEW f \in Int, NEW R \in Int, NEW S \in Int,
         NEW iR \in Int, NEW iS \in Int, NEW oR \in Int, NEW oS \in Int,
         d = [b EXCEPT !.inflight = f, !.reserved = R, !.settled = S, !.inReserved = iR,
                !.inSettled = iS, !.outReserved = oR, !.outSettled = oS]
  PROVE  d \in Budgets /\ d.turns = b.turns
BY DEF Budgets

LEMMA SettledNumbers ==
  ASSUME ProxyTyped, NEW r \in Requests, NEW answer \in Answers \cup {None}
  PROVE  LET b == Settled(r, answer) IN
         /\ b \in Budgets /\ b.turns = budget.turns
         /\ b.reserved = budget.reserved - Reservation
         /\ b.settled = budget.settled + Bill(r, answer).charge
         /\ b.inReserved = budget.inReserved - size[r]
         /\ b.inSettled = budget.inSettled + Bill(r, answer).in
         /\ b.outReserved = budget.outReserved - OutReservation
         /\ b.outSettled = budget.outSettled + Bill(r, answer).out
<1>1. budget \in Budgets /\ size[r] \in Nat
  BY DEF ProxyTyped, Budgets
<1>2. Reservation \in Nat /\ OutReservation \in Nat /\ Charged(answer) \in Nat
  BY PolicyNumbers, ChargedNumber
<1>3. Bill(r, answer) \in Bills
  BY BillNumbers
<1>4. /\ Bill(r, answer).charge = Charged(answer)
      /\ Bill(r, answer).in = IF answer = None THEN size[r] ELSE answer.in
      /\ Bill(r, answer).out = IF answer = None THEN OutReservation ELSE answer.out
  BY DEF Bill
<1>5. /\ Bill(r, answer).charge \in Int /\ Bill(r, answer).in \in Int /\ Bill(r, answer).out \in Int
  BY <1>3 DEF Bills
<1> DEFINE b == Settled(r, answer)
<1>6. /\ b = [budget EXCEPT !.inflight = b.inflight, !.reserved = b.reserved,
                !.settled = b.settled, !.inReserved = b.inReserved, !.inSettled = b.inSettled,
                !.outReserved = b.outReserved, !.outSettled = b.outSettled]
      /\ b.inflight = budget.inflight - 1
      /\ b.reserved = budget.reserved - Reservation
      /\ b.settled = budget.settled + Charged(answer)
      /\ b.inReserved = budget.inReserved - size[r]
      /\ b.inSettled = budget.inSettled + (IF answer = None THEN size[r] ELSE answer.in)
      /\ b.outReserved = budget.outReserved - OutReservation
      /\ b.outSettled = budget.outSettled + (IF answer = None THEN OutReservation ELSE answer.out)
  BY <1>1 DEF Settled, Budgets
<1>7. /\ b.inflight \in Int /\ b.reserved \in Int /\ b.settled \in Int
      /\ b.inReserved \in Int /\ b.inSettled \in Int
      /\ b.outReserved \in Int /\ b.outSettled \in Int
  BY <1>1, <1>2, <1>4, <1>5, <1>6 DEF Budgets
<1>8. b \in Budgets /\ b.turns = budget.turns
  <2> HIDE DEF b
  <2> QED
    BY <1>1, <1>6, <1>7, BudgetChange
<1> QED
  BY <1>4, <1>6, <1>8

(* The sets and sums of the account.                                       *)
Held == Reservation * Cardinality(Sent)
HeldOut == OutReservation * Cardinality(Sent)
HeldIn == Sum(size, Sent)
Spent == Sum([r \in Billed |-> paid[r].charge], Billed)
SpentIn == Sum([r \in Billed |-> paid[r].in], Billed)
SpentOut == Sum([r \in Billed |-> paid[r].out], Billed)

LEMMA AccountNumbers ==
  ASSUME ProxyTyped
  PROVE  /\ IsFiniteSet(Sent) /\ IsFiniteSet(Billed)
         /\ Cardinality(Sent) \in Nat /\ Cardinality(Billed) \in Nat
         /\ Held \in Nat /\ HeldOut \in Nat /\ HeldIn \in Nat
         /\ Spent \in Nat /\ SpentIn \in Nat /\ SpentOut \in Nat
<1>1. IsFiniteSet(Sent) /\ IsFiniteSet(Billed)
  <2>1. Sent \in SUBSET Requests /\ Billed \in SUBSET Requests
    BY DEF Sent, Billed
  <2> QED
    BY <2>1, FS_Subset, ProxyAssumption
<1>2. Amounts(size, Sent)
  BY DEF Amounts, ProxyTyped, Sent
<1>3. \A r \in Billed : paid[r] \in Bills
  BY DEF ProxyTyped, Billed
<1>4. /\ Amounts([r \in Billed |-> paid[r].charge], Billed)
      /\ Amounts([r \in Billed |-> paid[r].in], Billed)
      /\ Amounts([r \in Billed |-> paid[r].out], Billed)
  BY <1>3 DEF Amounts, Bills
<1>5. HeldIn \in Nat /\ Spent \in Nat /\ SpentIn \in Nat /\ SpentOut \in Nat
  BY <1>1, <1>2, <1>4, SumNat DEF HeldIn, Spent, SpentIn, SpentOut
<1>6. Cardinality(Sent) \in Nat /\ Cardinality(Billed) \in Nat
  BY <1>1, FS_CardinalityType
<1>7. Held \in Nat /\ HeldOut \in Nat
  BY <1>6, PolicyNumbers DEF Held, HeldOut
<1> QED
  BY <1>1, <1>5, <1>6, <1>7

(* What bills amount to.                                                   *)
Charges(p, S) == Sum([q \in S |-> p[q].charge], S)
Ins(p, S) == Sum([q \in S |-> p[q].in], S)
Outs(p, S) == Sum([q \in S |-> p[q].out], S)

(* One more bill.                                                          *)
LEMMA BillsExtend ==
  \A B, r, p, n : \A b \in Bills :
    /\ IsFiniteSet(B) /\ r \notin B
    /\ \A q \in B : p[q] \in Bills /\ n[q] = p[q]
    /\ n[r] = b
    => /\ Charges(n, B \cup {r}) = Charges(p, B) + b.charge
       /\ Ins(n, B \cup {r}) = Ins(p, B) + b.in
       /\ Outs(n, B \cup {r}) = Outs(p, B) + b.out
<1> TAKE B, r, p, n
<1> TAKE b \in Bills
<1>1. SUFFICES ASSUME IsFiniteSet(B), r \notin B,
                      \A q \in B : p[q] \in Bills /\ n[q] = p[q], n[r] = b
      PROVE  /\ Charges(n, B \cup {r}) = Charges(p, B) + b.charge
             /\ Ins(n, B \cup {r}) = Ins(p, B) + b.in
             /\ Outs(n, B \cup {r}) = Outs(p, B) + b.out
  OBVIOUS
<1>0. IsFiniteSet(B) /\ r \notin B
  BY <1>1
<1>2. b.charge \in Nat /\ b.in \in Nat /\ b.out \in Nat
  BY DEF Bills
<1>3. \A q \in B : p[q].charge \in Nat /\ p[q].in \in Nat /\ p[q].out \in Nat
  BY <1>1 DEF Bills
<1>4. Sum([q \in B \cup {r} |-> n[q].charge], B \cup {r}) = Sum([q \in B |-> p[q].charge], B) + b.charge
  <2>1. ASSUME NEW f, NEW g, f = [q \in B |-> p[q].charge], g = [q \in B \cup {r} |-> n[q].charge]
        PROVE  Sum(g, B \cup {r}) = Sum(f, B) + b.charge
    <3>1. \A q \in B : f[q] \in Nat /\ g[q] = f[q]
      BY <1>1, <1>3, <2>1
    <3>2. g[r] = b.charge /\ g[r] \in Nat
      BY <1>1, <1>2, <2>1
    <3>3. g[r] \in Nat
      BY <3>2
    <3>4. Sum(g, B \cup {r}) = Sum(f, B) + g[r]
      BY <1>0, <3>1, <3>3, SumExtend
    <3> QED
      BY <3>2, <3>4
  <2> QED
    BY <2>1
<1>5. Sum([q \in B \cup {r} |-> n[q].in], B \cup {r}) = Sum([q \in B |-> p[q].in], B) + b.in
  <2>1. ASSUME NEW f, NEW g, f = [q \in B |-> p[q].in], g = [q \in B \cup {r} |-> n[q].in]
        PROVE  Sum(g, B \cup {r}) = Sum(f, B) + b.in
    <3>1. \A q \in B : f[q] \in Nat /\ g[q] = f[q]
      BY <1>1, <1>3, <2>1
    <3>2. g[r] = b.in /\ g[r] \in Nat
      BY <1>1, <1>2, <2>1
    <3>3. g[r] \in Nat
      BY <3>2
    <3>4. Sum(g, B \cup {r}) = Sum(f, B) + g[r]
      BY <1>0, <3>1, <3>3, SumExtend
    <3> QED
      BY <3>2, <3>4
  <2> QED
    BY <2>1
<1>6. Sum([q \in B \cup {r} |-> n[q].out], B \cup {r}) = Sum([q \in B |-> p[q].out], B) + b.out
  <2>1. ASSUME NEW f, NEW g, f = [q \in B |-> p[q].out], g = [q \in B \cup {r} |-> n[q].out]
        PROVE  Sum(g, B \cup {r}) = Sum(f, B) + b.out
    <3>1. \A q \in B : f[q] \in Nat /\ g[q] = f[q]
      BY <1>1, <1>3, <2>1
    <3>2. g[r] = b.out /\ g[r] \in Nat
      BY <1>1, <1>2, <2>1
    <3>3. g[r] \in Nat
      BY <3>2
    <3>4. Sum(g, B \cup {r}) = Sum(f, B) + g[r]
      BY <1>0, <3>1, <3>3, SumExtend
    <3> QED
      BY <3>2, <3>4
  <2> QED
    BY <2>1
<1> QED
  BY <1>4, <1>5, <1>6 DEF Charges, Ins, Outs

LEMMA Billing ==
  ASSUME ProxyTyped, NEW r \in Requests \ Billed, NEW b \in Bills, paid' = [paid EXCEPT ![r] = b]
  PROVE  /\ Billed' = Billed \cup {r}
         /\ Cardinality(Billed') = Cardinality(Billed) + 1
         /\ Spent' = Spent + b.charge /\ SpentIn' = SpentIn + b.in /\ SpentOut' = SpentOut + b.out
<1>1. Billed' = Billed \cup {r}
  BY ProxyAssumption DEF Billed, ProxyTyped
<1>2. IsFiniteSet(Billed) /\ r \notin Billed
  BY AccountNumbers
<1>4. \A q \in Billed : paid[q] \in Bills /\ paid'[q] = paid[q]
  BY DEF Billed, ProxyTyped
<1>5. paid'[r] = b
  BY DEF ProxyTyped
<1>6. /\ Charges(paid', Billed \cup {r}) = Charges(paid, Billed) + b.charge
      /\ Ins(paid', Billed \cup {r}) = Ins(paid, Billed) + b.in
      /\ Outs(paid', Billed \cup {r}) = Outs(paid, Billed) + b.out
  <2>1. \A n : (\A x \in Billed : paid[x] \in Bills /\ n[x] = paid[x]) /\ n[r] = b
          => /\ Charges(n, Billed \cup {r}) = Charges(paid, Billed) + b.charge
             /\ Ins(n, Billed \cup {r}) = Ins(paid, Billed) + b.in
             /\ Outs(n, Billed \cup {r}) = Outs(paid, Billed) + b.out
    BY <1>2, BillsExtend
  <2> QED
    BY <1>4, <1>5, <2>1
<1>10. Cardinality(Billed') = Cardinality(Billed) + 1
  BY <1>1, <1>2, FS_AddElement
<1> QED
  BY <1>1, <1>6, <1>10 DEF Charges, Ins, Outs, Spent, SpentIn, SpentOut
-----------------------------------------------------------------------------
(* The proxy keeps its books.                                              *)
LEMMA ExactNow ==
  BudgetIsExact <=>
    /\ budget.reserved + budget.settled = Held + Spent
    /\ budget.inReserved + budget.inSettled = HeldIn + SpentIn
    /\ budget.outReserved + budget.outSettled = HeldOut + SpentOut
BY DEF BudgetIsExact, Held, HeldIn, HeldOut, Spent, SpentIn, SpentOut

LEMMA ExactNext ==
  ASSUME budget'.reserved + budget'.settled = Held' + Spent',
         budget'.inReserved + budget'.inSettled = HeldIn' + SpentIn',
         budget'.outReserved + budget'.outSettled = HeldOut' + SpentOut'
  PROVE  BudgetIsExact'
BY DEF BudgetIsExact, Held, HeldIn, HeldOut, Spent, SpentIn, SpentOut

LEMMA CapsNow ==
  CapsHold <=>
    /\ caps.turns # None => Cardinality(Sent \cup Billed) <= caps.turns
    /\ caps.input # None => HeldIn + SpentIn <= caps.input
    /\ caps.spend # None => Held + Reservation * Cardinality(Billed) <= caps.spend
BY DEF CapsHold, Held, HeldIn, SpentIn

LEMMA CapsNext ==
  ASSUME UNCHANGED caps,
         caps.turns # None => Cardinality((Sent \cup Billed)') <= caps.turns,
         caps.input # None => HeldIn' + SpentIn' <= caps.input,
         caps.spend # None => Held' + Reservation' * Cardinality(Billed') <= caps.spend
  PROVE  CapsHold'
BY DEF CapsHold, Held, HeldIn, SpentIn

(* Only what is sent and billed, and the policy, is in the account.        *)
LEMMA SameHeld ==
  ASSUME UNCHANGED <<caps, size>>, Sent' = Sent
  PROVE  Held' = Held /\ HeldIn' = HeldIn /\ HeldOut' = HeldOut
BY DEF Held, HeldIn, HeldOut, Reservation, OutReservation

LEMMA SameSpent ==
  ASSUME UNCHANGED paid
  PROVE  Billed' = Billed /\ Spent' = Spent /\ SpentIn' = SpentIn /\ SpentOut' = SpentOut
BY DEF Billed, Spent, SpentIn, SpentOut

LEMMA SamePolicy ==
  ASSUME UNCHANGED caps
  PROVE  Reservation' = Reservation /\ OutReservation' = OutReservation
BY DEF Reservation, OutReservation

ProxyData == <<caps, at, size, budget, events, paid>>

LEMMA ProxyStutter ==
  ASSUME ProxyInv, UNCHANGED ProxyData, up' \in BOOLEAN, gone' \subseteq Requests
  PROVE  ProxyInv'
<1>1. UNCHANGED <<Sent, Billed, Reservation, OutReservation>>
  BY DEF ProxyData, Sent, Billed, Reservation, OutReservation
<1>2. ProxyTyped' /\ Books' /\ Printed'
  BY <1>1 DEF ProxyInv, ProxyData, ProxyTyped, LoadPolicy, Books, Printed, Counted
<1>3. BudgetIsExact' /\ CapsHold'
  BY <1>1 DEF ProxyInv, ProxyData, BudgetIsExact, CapsHold
<1> QED
  BY <1>2, <1>3 DEF ProxyInv

(* A proxy that has just been started.                                     *)
Blank == /\ at = [r \in Requests |-> "idle"] /\ size = [r \in Requests |-> 0]
         /\ budget = Empty /\ events = {} /\ paid = [r \in Requests |-> None]

LEMMA BlankHolds ==
  ASSUME Blank, caps \in Policies, LoadPolicy(caps), up \in BOOLEAN, gone \subseteq Requests
  PROVE  ProxyInv
<1>1. ProxyTyped
  BY DEF Blank, ProxyTyped, Empty
<1>2. Sent = {} /\ Billed = {} /\ Sent \cup Billed = {}
  BY DEF Blank, Sent, Billed
<1>3. Cardinality({}) = 0 /\ (\A f : Sum(f, {}) = 0)
  BY FS_EmptySet, SumEmpty
<1>4. Reservation \in Nat /\ OutReservation \in Nat /\ Reservation * 0 = 0 /\ OutReservation * 0 = 0
  BY <1>1, PolicyNumbers
<1>5. /\ caps.turns # None => caps.turns \in Nat
      /\ caps.input # None => caps.input \in Nat
      /\ caps.spend # None => caps.spend \in Nat
  BY <1>1, PolicyNumbers DEF Limits
<1>6. Books /\ Printed
  BY <1>2, <1>3, <1>4 DEF Books, Printed, Blank, Empty
<1>7. BudgetIsExact
  BY <1>2, <1>3, <1>4 DEF BudgetIsExact, Blank, Empty
<1>8. CapsHold
  BY <1>2, <1>3, <1>4, <1>5 DEF CapsHold
<1> QED
  BY <1>1, <1>6, <1>7, <1>8 DEF ProxyInv

LEMMA ReceiveInv == ASSUME ProxyInv, NEW r \in Requests, Receive(r) PROVE ProxyInv'
<1>0. ProxyTyped /\ Books /\ Printed /\ BudgetIsExact /\ CapsHold
  BY DEF ProxyInv
<1>1. PICK b \in Bodies :
        /\ Admits(b, OutReservation)
        /\ size' = [size EXCEPT ![r] = b]
        /\ budget' = [budget EXCEPT !.turns = @ + 1, !.inflight = @ + 1,
                        !.reserved = @ + Reservation, !.inReserved = @ + b,
                        !.outReserved = @ + OutReservation]
  BY DEF Receive
<1>2. /\ UNCHANGED <<caps, up, gone, events, paid>>
      /\ at' = [at EXCEPT ![r] = "sent"] /\ at[r] = "idle"
  BY DEF Receive
<1>3. b \in Nat /\ Reservation \in Nat /\ OutReservation \in Nat /\ budget \in Budgets
  BY <1>0, PolicyNumbers, ProxyAssumption DEF ProxyTyped, Budgets
<1>4. /\ budget' \in Budgets
      /\ budget'.turns = budget.turns + 1
      /\ budget'.reserved = budget.reserved + Reservation /\ budget'.settled = budget.settled
      /\ budget'.inReserved = budget.inReserved + b /\ budget'.inSettled = budget.inSettled
      /\ budget'.outReserved = budget.outReserved + OutReservation
      /\ budget'.outSettled = budget.outSettled
  <2> DEFINE d == budget'
  <2>1. /\ d = [budget EXCEPT !.turns = d.turns, !.inflight = d.inflight, !.reserved = d.reserved,
                  !.inReserved = d.inReserved, !.outReserved = d.outReserved]
        /\ d.turns = budget.turns + 1 /\ d.inflight = budget.inflight + 1
        /\ d.reserved = budget.reserved + Reservation /\ d.settled = budget.settled
        /\ d.inReserved = budget.inReserved + b /\ d.inSettled = budget.inSettled
        /\ d.outReserved = budget.outReserved + OutReservation
        /\ d.outSettled = budget.outSettled
    BY <1>1, <1>3 DEF Budgets
  <2>2. /\ d.turns \in Nat /\ d.inflight \in Int /\ d.reserved \in Int
        /\ d.inReserved \in Int /\ d.outReserved \in Int
    BY <1>3, <2>1 DEF Budgets
  <2>3. d \in Budgets
    <3> HIDE DEF d
    <3> QED BY <1>3, <2>1, <2>2 DEF Budgets
  <2> QED
    BY <2>1, <2>3
<1>5. ProxyTyped'
  BY <1>0, <1>1, <1>2, <1>3, <1>4 DEF ProxyTyped, Budgets, LoadPolicy
<1>6. Sent' = Sent \cup {r} /\ r \notin Sent /\ r \notin Billed
  BY <1>0, <1>2 DEF Sent, Billed, ProxyTyped, Books
<1>7. Cardinality(Sent') = Cardinality(Sent) + 1
  BY <1>0, <1>6, AccountNumbers, FS_AddElement
<1>8. Cardinality((Sent \cup Billed)') = Cardinality(Sent \cup Billed) + 1
  <2>1. (Sent \cup Billed)' = (Sent \cup Billed) \cup {r} /\ r \notin Sent \cup Billed
    BY <1>2, <1>6, SameSpent
  <2>2. IsFiniteSet(Sent \cup Billed)
    BY <1>0, AccountNumbers, FS_Union
  <2> QED
    BY <2>1, <2>2, FS_AddElement
<1>9. HeldIn' = HeldIn + b
  <2>1. \A y \in Sent : size[y] \in Nat /\ size'[y] = size[y]
    BY <1>0, <1>1, <1>6 DEF Sent, ProxyTyped
  <2>2. size'[r] = b
    BY <1>0, <1>1 DEF ProxyTyped
  <2>3. \A g : (\A y \in Sent : size[y] \in Nat /\ g[y] = size[y]) /\ g[r] \in Nat
               => Sum(g, Sent \cup {r}) = Sum(size, Sent) + g[r]
    BY <1>0, <1>6, AccountNumbers, SumExtend
  <2> QED
    BY <1>3, <1>6, <2>1, <2>2, <2>3 DEF HeldIn
<1>10. /\ Billed' = Billed /\ Spent' = Spent /\ SpentIn' = SpentIn /\ SpentOut' = SpentOut
       /\ Reservation' = Reservation /\ OutReservation' = OutReservation
  BY <1>2, SameSpent, SamePolicy
<1>11. /\ Cardinality(Sent) \in Nat /\ Cardinality(Billed) \in Nat
       /\ Held \in Nat /\ HeldIn \in Nat /\ HeldOut \in Nat
       /\ Spent \in Nat /\ SpentIn \in Nat /\ SpentOut \in Nat
  BY <1>0, AccountNumbers
<1>12. Held' = Held + Reservation /\ HeldOut' = HeldOut + OutReservation
  BY <1>3, <1>7, <1>10, <1>11 DEF Held, HeldOut
<1>13. Books'
  <2>1. budget'.turns = Cardinality((Sent \cup Billed)')
    BY <1>0, <1>4, <1>8 DEF Books
  <2>2. budget'.reserved <= Held'
    BY <1>0, <1>3, <1>4, <1>11, <1>12 DEF Books, Budgets, Held
  <2>3. \A q \in Requests : /\ paid'[q] # None => at'[q] \in {"answered", "over"}
                            /\ at'[q] = "answered" => paid'[q] # None
                            /\ paid'[q] # None => paid'[q].charge >= Reservation'
    BY <1>0, <1>2, <1>10 DEF Books, ProxyTyped
  <2> QED
    BY <2>1, <2>2, <2>3 DEF Books, Held
<1>14. Printed'
  BY <1>0, <1>2 DEF Printed, ProxyTyped, Events, Counted
<1>15. BudgetIsExact'
  <2>1. /\ budget.reserved \in Int /\ budget.settled \in Int /\ budget.inReserved \in Int
        /\ budget.inSettled \in Int /\ budget.outReserved \in Int /\ budget.outSettled \in Int
    BY <1>3 DEF Budgets
  <2>2. /\ budget.reserved + budget.settled = Held + Spent
        /\ budget.inReserved + budget.inSettled = HeldIn + SpentIn
        /\ budget.outReserved + budget.outSettled = HeldOut + SpentOut
    BY <1>0, ExactNow
  <2>3. budget'.reserved + budget'.settled = Held' + Spent'
    BY <1>3, <1>4, <1>10, <1>11, <1>12, <2>1, <2>2
  <2>4. budget'.inReserved + budget'.inSettled = HeldIn' + SpentIn'
    BY <1>3, <1>4, <1>9, <1>10, <1>11, <2>1, <2>2
  <2>5. budget'.outReserved + budget'.outSettled = HeldOut' + SpentOut'
    BY <1>3, <1>4, <1>10, <1>11, <1>12, <2>1, <2>2
  <2> QED
    BY <2>3, <2>4, <2>5, ExactNext
<1>16. CapsHold'
  <2>1. caps.turns # None => Cardinality((Sent \cup Billed)') <= caps.turns
    BY <1>0, <1>1, <1>3, <1>8, PolicyNumbers DEF Admits, Books, Budgets, Limits
  <2>2. caps.input # None => HeldIn' + SpentIn' <= caps.input
    BY <1>0, <1>1, <1>3, <1>9, <1>10, <1>11, ExactNow, PolicyNumbers DEF Admits, Budgets, Limits
  <2>3. Reservation * Cardinality(Billed) <= Spent
    <3>1. \A q \in Billed : paid[q] \in Bills
      BY <1>0 DEF ProxyTyped, Billed
    <3>2. /\ Amounts([q \in Billed |-> paid[q].charge], Billed)
          /\ \A q \in Billed : Reservation <= [p \in Billed |-> paid[p].charge][q]
      BY <1>0, <1>3, <3>1 DEF Amounts, Bills, Books, Billed
    <3> QED
      BY <1>0, <1>3, <3>2, AccountNumbers, SumBelow DEF Spent
  <2>4. caps.spend # None => Held' + Reservation' * Cardinality(Billed') <= caps.spend
    <3>1. Reservation * Cardinality(Billed) \in Nat
      BY <1>3, <1>11
    <3> QED
      BY <1>0, <1>1, <1>3, <1>10, <1>11, <1>12, <2>3, <3>1, ExactNow, PolicyNumbers
         DEF Admits, Budgets, Limits
  <2> QED
    BY <1>2, <2>1, <2>2, <2>4, CapsNext
<1> QED
  BY <1>5, <1>13, <1>14, <1>15, <1>16 DEF ProxyInv

LEMMA RefuseInv == ASSUME ProxyInv, NEW r \in Requests, Refuse(r) PROVE ProxyInv'
<1>0. ProxyTyped /\ Books /\ Printed /\ BudgetIsExact /\ CapsHold
  BY DEF ProxyInv
<1>1. /\ UNCHANGED <<caps, up, size, gone, budget, paid>>
      /\ at' = [at EXCEPT ![r] = "over"] /\ at[r] = "idle"
      /\ events' = events \cup {[request |-> r, status |-> "rejected"]}
  BY DEF Refuse
<1>2. /\ Sent' = Sent /\ Billed' = Billed
      /\ Reservation' = Reservation /\ OutReservation' = OutReservation
  BY <1>0, <1>1, SameSpent, SamePolicy DEF Sent, ProxyTyped
<1>3. ProxyTyped'
  BY <1>0, <1>1 DEF ProxyTyped, LoadPolicy, Events
<1>4. Books'
  BY <1>0, <1>1, <1>2 DEF Books, ProxyTyped
<1>5. Printed'
  BY <1>0, <1>1 DEF Printed, ProxyTyped, Events, Counted
<1>6. BudgetIsExact' /\ CapsHold'
  BY <1>0, <1>1, <1>2 DEF BudgetIsExact, CapsHold
<1> QED
  BY <1>3, <1>4, <1>5, <1>6 DEF ProxyInv

(* A request leaves those in flight.                                       *)
LEMMA Leaves ==
  ASSUME ProxyTyped, NEW r \in Sent, UNCHANGED <<caps, size>>, Sent' = Sent \ {r}
  PROVE  /\ Held' = Held - Reservation /\ HeldIn' = HeldIn - size[r]
         /\ HeldOut' = HeldOut - OutReservation
<1>1. /\ IsFiniteSet(Sent) /\ Cardinality(Sent) \in Nat /\ HeldIn \in Nat
      /\ Reservation \in Nat /\ OutReservation \in Nat
  BY AccountNumbers, PolicyNumbers
<1>2. Cardinality(Sent \ {r}) = Cardinality(Sent) - 1 /\ IsFiniteSet(Sent \ {r})
  BY <1>1, FS_RemoveElement
<1>3. Held' = Held - Reservation /\ HeldOut' = HeldOut - OutReservation
  BY <1>1, <1>2, SamePolicy DEF Held, HeldOut
<1>4. HeldIn' = HeldIn - size[r]
  <2>1. Amounts(size, Sent) /\ Amounts(size, Sent \ {r}) /\ size[r] \in Nat
    BY DEF Amounts, ProxyTyped, Sent
  <2>2. (Sent \ {r}) \cup {r} = Sent /\ r \notin Sent \ {r}
    OBVIOUS
  <2>3. Sum(size, (Sent \ {r}) \cup {r}) = Sum(size, Sent \ {r}) + size[r]
    BY <1>2, <2>1, <2>2, SumAdd
  <2>4. Sum(size, Sent \ {r}) \in Nat
    BY <1>2, <2>1, SumNat
  <2> QED
    BY <1>1, <2>1, <2>2, <2>3, <2>4 DEF HeldIn
<1> QED
  BY <1>3, <1>4

(* A request is settled for the first time: by its answer, or by None.     *)
LEMMA SettleInv ==
  ASSUME ProxyInv, NEW r \in Requests, at[r] = "sent", NEW answer \in Answers \cup {None},
         Bill(r, answer).in <= size[r], UNCHANGED <<caps, size>>,
         NEW l \in {"answered", "over"}, at' = [at EXCEPT ![r] = l],
         budget' = Settled(r, answer), paid' = [paid EXCEPT ![r] = Bill(r, answer)]
  PROVE  /\ budget' \in Budgets /\ paid' \in [Requests -> Bills \cup {None}]
         /\ Books' /\ BudgetIsExact' /\ CapsHold'
<1>0. ProxyTyped /\ Books /\ Printed /\ BudgetIsExact /\ CapsHold
  BY DEF ProxyInv
<1> DEFINE b == Bill(r, answer)
<1>1. b \in Bills /\ b # None /\ b.charge >= Reservation
  BY <1>0, BillNumbers, ChargedNumber
<1>2. /\ budget' \in Budgets /\ budget'.turns = budget.turns
      /\ budget'.reserved = budget.reserved - Reservation
      /\ budget'.settled = budget.settled + b.charge
      /\ budget'.inReserved = budget.inReserved - size[r]
      /\ budget'.inSettled = budget.inSettled + b.in
      /\ budget'.outReserved = budget.outReserved - OutReservation
      /\ budget'.outSettled = budget.outSettled + b.out
  BY <1>0, SettledNumbers
<1>3. paid' \in [Requests -> Bills \cup {None}]
  BY <1>0, <1>1 DEF ProxyTyped
<1>4. Sent' = Sent \ {r} /\ r \in Sent /\ r \notin Billed
  BY <1>0 DEF Sent, Billed, ProxyTyped, Books
<1> HIDE DEF b
<1>5. /\ Billed' = Billed \cup {r} /\ Cardinality(Billed') = Cardinality(Billed) + 1
      /\ Spent' = Spent + b.charge /\ SpentIn' = SpentIn + b.in /\ SpentOut' = SpentOut + b.out
  BY <1>0, <1>1, <1>4, Billing DEF b
<1>6. /\ Held' = Held - Reservation /\ HeldIn' = HeldIn - size[r]
      /\ HeldOut' = HeldOut - OutReservation
  BY <1>0, <1>4, Leaves
<1>7. /\ Held \in Nat /\ HeldIn \in Nat /\ HeldOut \in Nat
      /\ Spent \in Nat /\ SpentIn \in Nat /\ SpentOut \in Nat
      /\ Cardinality(Billed) \in Nat /\ Reservation \in Nat /\ OutReservation \in Nat
      /\ size[r] \in Nat /\ b.charge \in Nat /\ b.in \in Nat /\ b.out \in Nat
      /\ budget.reserved \in Int /\ budget.settled \in Int /\ budget.inReserved \in Int
      /\ budget.inSettled \in Int /\ budget.outReserved \in Int /\ budget.outSettled \in Int
  BY <1>0, <1>1, AccountNumbers, PolicyNumbers DEF ProxyTyped, Bills
<1>8. (Sent \cup Billed)' = Sent \cup Billed
  BY <1>4, <1>5
<1>9. Reservation' = Reservation
  BY SamePolicy
<1>10. Books'
  <2>1. budget'.turns = Cardinality((Sent \cup Billed)')
    BY <1>0, <1>2, <1>8 DEF Books
  <2>2. budget'.reserved <= Held'
    BY <1>0, <1>2, <1>6, <1>7 DEF Books, Held
  <2>3. \A q \in Requests : /\ paid'[q] # None => at'[q] \in {"answered", "over"}
                            /\ at'[q] = "answered" => paid'[q] # None
                            /\ paid'[q] # None => paid'[q].charge >= Reservation'
    BY <1>0, <1>1, <1>9 DEF Books, ProxyTyped, b
  <2> QED
    BY <2>1, <2>2, <2>3 DEF Books, Held
<1>11. BudgetIsExact'
  <2>1. /\ budget.reserved + budget.settled = Held + Spent
        /\ budget.inReserved + budget.inSettled = HeldIn + SpentIn
        /\ budget.outReserved + budget.outSettled = HeldOut + SpentOut
    BY <1>0, ExactNow
  <2>2. (budget.reserved - Reservation) + (budget.settled + b.charge)
          = (Held - Reservation) + (Spent + b.charge)
    BY <1>7, <2>1
  <2>3. (budget.inReserved - size[r]) + (budget.inSettled + b.in)
          = (HeldIn - size[r]) + (SpentIn + b.in)
    BY <1>7, <2>1
  <2>4. (budget.outReserved - OutReservation) + (budget.outSettled + b.out)
          = (HeldOut - OutReservation) + (SpentOut + b.out)
    BY <1>7, <2>1
  <2>5. /\ budget'.reserved + budget'.settled = Held' + Spent'
        /\ budget'.inReserved + budget'.inSettled = HeldIn' + SpentIn'
        /\ budget'.outReserved + budget'.outSettled = HeldOut' + SpentOut'
    BY <1>2, <1>5, <1>6, <2>2, <2>3, <2>4
  <2> QED
    BY <2>5, ExactNext
<1>12. CapsHold'
  <2>1. /\ caps.turns # None => Cardinality((Sent \cup Billed)') <= caps.turns
        /\ caps.input # None => caps.input \in Nat
        /\ caps.spend # None => caps.spend \in Nat
    BY <1>0, <1>8, CapsNow, PolicyNumbers DEF Limits
  <2>2. caps.input # None => HeldIn' + SpentIn' <= caps.input
    BY <1>0, <1>5, <1>6, <1>7, <2>1, CapsNow DEF b
  <2>3. Reservation' * Cardinality(Billed') = Reservation * Cardinality(Billed) + Reservation
    BY <1>5, <1>7, <1>9
  <2>4. Reservation * Cardinality(Billed) \in Nat
    BY <1>7
  <2>5. caps.spend # None => Held' + Reservation' * Cardinality(Billed') <= caps.spend
    BY <1>0, <1>6, <1>7, <2>1, <2>3, <2>4, CapsNow
  <2> QED
    BY <2>1, <2>2, <2>5, CapsNext
<1> QED
  BY <1>2, <1>3, <1>10, <1>11, <1>12

LEMMA AnswerInv == ASSUME ProxyInv, NEW r \in Requests, Answer(r) PROVE ProxyInv'
<1>0. ProxyTyped /\ Books /\ Printed
  BY DEF ProxyInv
<1>1. PICK answer \in Answers :
        /\ answer.in <= size[r] /\ budget' = Settled(r, answer)
        /\ paid' = [paid EXCEPT ![r] = Bill(r, answer)]
  BY DEF Answer
<1>2. /\ UNCHANGED <<caps, up, size, gone, events>>
      /\ at' = [at EXCEPT ![r] = "answered"] /\ at[r] = "sent"
  BY DEF Answer
<1>3. Bill(r, answer).in <= size[r]
  BY <1>1, ProxyAssumption DEF Bill
<1>4. /\ budget' \in Budgets /\ paid' \in [Requests -> Bills \cup {None}]
      /\ Books' /\ BudgetIsExact' /\ CapsHold'
  BY <1>1, <1>2, <1>3, SettleInv
<1>5. ProxyTyped'
  BY <1>0, <1>2, <1>4 DEF ProxyTyped, LoadPolicy, Budgets
<1>6. Printed'
  <2>1. \A e \in events : Counted(e) => e.request # r /\ e.request \in Requests
    BY <1>0, <1>2 DEF Printed, ProxyTyped, Events, Counted
  <2>2. \A q \in Requests \ {r} : at'[q] = at[q] /\ paid'[q] = paid[q]
    BY <1>0, <1>1, <1>2 DEF ProxyTyped
  <2> QED
    BY <1>0, <1>2, <2>1, <2>2 DEF Printed, Counted
<1> QED
  BY <1>4, <1>5, <1>6 DEF ProxyInv

LEMMA DeliverInv == ASSUME ProxyInv, NEW r \in Requests, Deliver(r) PROVE ProxyInv'
<1>0. ProxyTyped /\ Books /\ Printed /\ BudgetIsExact /\ CapsHold
  BY DEF ProxyInv
<1>1. /\ UNCHANGED <<caps, up, size, gone, budget, paid>>
      /\ at' = [at EXCEPT ![r] = "over"] /\ at[r] = "answered"
      /\ events' = events \cup {[request |-> r, status |-> "forwarded", charged |-> paid[r].charge]}
  BY DEF Deliver
<1>2. /\ Sent' = Sent /\ Billed' = Billed
      /\ Reservation' = Reservation /\ OutReservation' = OutReservation
  BY <1>0, <1>1, SameSpent, SamePolicy DEF Sent, ProxyTyped
<1>3. paid[r] \in Bills /\ paid[r].charge \in Nat /\ paid[r] # None
  BY <1>0, <1>1 DEF ProxyTyped, Books, Bills
<1>4. ProxyTyped'
  BY <1>0, <1>1, <1>3 DEF ProxyTyped, LoadPolicy, Events
<1>5. Books'
  BY <1>0, <1>1, <1>2 DEF Books, ProxyTyped
<1>6. Printed'
  <2>1. \A e \in events : Counted(e) => e.request # r /\ e.request \in Requests
    BY <1>0, <1>1 DEF Printed, ProxyTyped, Events, Counted
  <2> DEFINE new == [request |-> r, status |-> "forwarded", charged |-> paid[r].charge]
  <2>2. new.request = r /\ new.charged <= paid[r].charge /\ Counted(new)
    BY <1>3 DEF Counted
  <2>3. at'[r] = "over" /\ \A q \in Requests \ {r} : at'[q] = at[q]
    BY <1>0, <1>1 DEF ProxyTyped
  <2>4. events' = events \cup {new}
    BY <1>1
  <2> HIDE DEF new
  <2> QED
    BY <1>0, <1>1, <1>3, <2>1, <2>2, <2>3, <2>4 DEF Printed
<1>7. BudgetIsExact' /\ CapsHold'
  BY <1>0, <1>1, <1>2 DEF BudgetIsExact, CapsHold
<1> QED
  BY <1>4, <1>5, <1>6, <1>7 DEF ProxyInv

LEMMA DeliverFailsInv == ASSUME ProxyInv, NEW r \in Requests, DeliverFails(r) PROVE ProxyInv'
<1>0. ProxyTyped /\ Books /\ Printed /\ BudgetIsExact /\ CapsHold
  BY DEF ProxyInv
<1>1. /\ UNCHANGED <<caps, up, size, gone, paid, events>> /\ budget' = Settled(r, None)
      /\ at' = [at EXCEPT ![r] = "over"] /\ at[r] = "answered"
  BY DEF DeliverFails
<1>2. /\ Sent' = Sent /\ Billed' = Billed
      /\ Reservation' = Reservation /\ OutReservation' = OutReservation
  BY <1>0, <1>1, SameSpent, SamePolicy DEF Sent, ProxyTyped
<1>3. /\ budget' \in Budgets /\ budget'.turns = budget.turns
      /\ budget'.reserved = budget.reserved - Reservation
      /\ budget'.settled = budget.settled + Reservation
      /\ budget'.inReserved = budget.inReserved - size[r]
      /\ budget'.inSettled = budget.inSettled + size[r]
      /\ budget'.outReserved = budget.outReserved - OutReservation
      /\ budget'.outSettled = budget.outSettled + OutReservation
  BY <1>0, <1>1, SettledNumbers, BillNumbers, ChargedNumber
<1>4. /\ budget.reserved \in Int /\ budget.settled \in Int /\ budget.inReserved \in Int
      /\ budget.inSettled \in Int /\ budget.outReserved \in Int /\ budget.outSettled \in Int
      /\ Reservation \in Nat /\ OutReservation \in Nat /\ size[r] \in Nat
      /\ Reservation * Cardinality(Sent) \in Int
  BY <1>0, AccountNumbers, PolicyNumbers DEF ProxyTyped
<1>5. ProxyTyped'
  BY <1>0, <1>1, <1>3 DEF ProxyTyped, LoadPolicy, Budgets
<1>6. Books'
  <2>1. budget'.turns = Cardinality((Sent \cup Billed)')
    BY <1>0, <1>2, <1>3 DEF Books
  <2>2. budget'.reserved <= Reservation' * Cardinality(Sent')
    BY <1>0, <1>2, <1>3, <1>4 DEF Books
  <2> QED
    BY <1>0, <1>1, <1>2, <2>1, <2>2 DEF Books, ProxyTyped
<1>7. Printed'
  BY <1>0, <1>1 DEF Printed, ProxyTyped, Counted
<1>8. BudgetIsExact'
  <2>1. /\ budget'.reserved + budget'.settled = budget.reserved + budget.settled
        /\ budget'.inReserved + budget'.inSettled = budget.inReserved + budget.inSettled
        /\ budget'.outReserved + budget'.outSettled = budget.outReserved + budget.outSettled
    BY <1>3, <1>4
  <2> QED
    BY <1>0, <1>1, <1>2, <2>1, ExactNow, ExactNext, SameHeld, SameSpent
<1>9. CapsHold'
  BY <1>0, <1>1, <1>2 DEF CapsHold
<1> QED
  BY <1>5, <1>6, <1>7, <1>8, <1>9 DEF ProxyInv

LEMMA UpstreamFailsInv == ASSUME ProxyInv, NEW r \in Requests, UpstreamFails(r) PROVE ProxyInv'
<1>0. ProxyTyped /\ Books /\ Printed
  BY DEF ProxyInv
<1> DEFINE rejected == [request |-> r, status |-> "rejected"]
           failed == [request |-> r, status |-> "upstream_error", charged |-> Reservation]
<1>1. /\ UNCHANGED <<caps, up, size, gone>> /\ budget' = Settled(r, None)
      /\ paid' = [paid EXCEPT ![r] = Bill(r, None)]
      /\ at' = [at EXCEPT ![r] = "over"] /\ at[r] = "sent"
      /\ events' = events \/ events' = events \cup {rejected, failed}
  BY DEF UpstreamFails
<1>2. /\ Bill(r, None).in = size[r] /\ size[r] \in Nat /\ Bill(r, None).charge = Reservation
      /\ Bill(r, None) # None /\ Reservation \in Nat
  BY <1>0, BillNumbers, ChargedNumber, PolicyNumbers DEF ProxyTyped
<1>3. /\ budget' \in Budgets /\ paid' \in [Requests -> Bills \cup {None}]
      /\ Books' /\ BudgetIsExact' /\ CapsHold'
  <2>1. None \in Answers \cup {None} /\ Bill(r, None).in <= size[r]
    BY <1>2
  <2>2. "over" \in {"answered", "over"}
    OBVIOUS
  <2> QED
    BY <1>1, <2>1, <2>2, SettleInv
<1>4. events' \subseteq Events
  BY <1>0, <1>1, <1>2 DEF ProxyTyped, Events
<1>5. ProxyTyped'
  BY <1>0, <1>1, <1>3, <1>4 DEF ProxyTyped, LoadPolicy, Budgets
<1>6. Printed'
  <2>1. \A e \in events : Counted(e) => e.request # r /\ e.request \in Requests
    BY <1>0, <1>1 DEF Printed, ProxyTyped, Events, Counted
  <2>2. /\ failed.request = r /\ failed.charged <= Bill(r, None).charge /\ Counted(failed)
        /\ ~Counted(rejected)
    BY <1>2 DEF Counted
  <2>3. /\ at'[r] = "over" /\ paid'[r] = Bill(r, None)
        /\ \A q \in Requests \ {r} : at'[q] = at[q] /\ paid'[q] = paid[q]
    BY <1>0, <1>1 DEF ProxyTyped
  <2> HIDE DEF rejected, failed
  <2>4. ASSUME NEW e \in events', Counted(e) PROVE e \in events \/ e = failed
    BY <1>1, <2>2, <2>4
  <2> QED
    BY <1>0, <1>2, <2>1, <2>2, <2>3, <2>4 DEF Printed
<1> QED
  BY <1>3, <1>5, <1>6 DEF ProxyInv

LEMMA HangUpInv == ASSUME ProxyInv, NEW r \in Requests, HangUp(r) PROVE ProxyInv'
BY ProxyStutter DEF HangUp, ProxyData, ProxyInv, ProxyTyped

LEMMA HandleInv == ASSUME ProxyInv, NEW r \in Requests, Handle(r) PROVE ProxyInv'
BY ReceiveInv, RefuseInv, AnswerInv, DeliverInv, DeliverFailsInv, UpstreamFailsInv DEF Handle

-----------------------------------------------------------------------------
(* What the coordinator leaves alone.                                      *)
LEMMA BlankNext ==
  (Blank /\ caps \in Policies /\ LoadPolicy(caps) /\ up \in BOOLEAN /\ gone \subseteq Requests
   => ProxyInv)'
<1>1. Blank /\ caps \in Policies /\ LoadPolicy(caps) /\ up \in BOOLEAN /\ gone \subseteq Requests
      => ProxyInv
  BY BlankHolds
<1> QED
  BY <1>1, PTL

LEMMA StagedFrame == ASSUME Staged, UNCHANGED <<row, slot, source>> PROVE Staged'
<1>1. UNCHANGED <<stage, seen, lifecycles, story, source, Kept, Cold>>
  BY DEF slot, Kept, Cold
<1> QED
  BY <1>1 DEF Staged

LEMMA EarnedFrame ==
  ASSUME Earned, UNCHANGED <<row, slot, result>>, pc' \in Ready \cup InTry => result = "error"
  PROVE  Earned'
<1>1. UNCHANGED <<story, result, Kept, Total>>
  BY DEF slot, Kept, Total, Block, Cold
<1> QED
  BY <1>1 DEF Earned

LEMMA SealFrame ==
  ASSUME SealHolds, UNCHANGED <<sealed, budget>>,
         sealed # None => pc' \in {"remove", "evidence", "write", "aborted"}
  PROVE  SealHolds'
BY DEF SealHolds

LEMMA ProxyFrame == ASSUME ProxyInv, UNCHANGED proxyVars PROVE ProxyInv'
BY ProxyStutter DEF proxyVars, ProxyData, ProxyInv, ProxyTyped

LEMMA BeginRowInv == ASSUME IInv, BeginRow PROVE IInv'
<1>0. ProxyInv /\ Rowed /\ Owned /\ Staged /\ Earned /\ SealHolds
  BY DEF IInv
<1>1. ProxyInv'
  BY <1>0, ProxyFrame DEF BeginRow
<1>2. Rowed'
  BY <1>0 DEF Rowed, BeginRow, Goto, marks, resources, ledger, InTry, InFinally
<1>3. Owned'
  BY <1>0 DEF Owned, Things, Ready, InTry, InFinally, BeginRow, Goto, marks, resources, ledger
<1>4. Staged'
  BY <1>0, StagedFrame DEF BeginRow
<1>5. Earned'
  BY <1>0, EarnedFrame DEF Earned, Ready, InTry, InFinally, BeginRow, Goto
<1>6. SealHolds'
  BY <1>0, SealFrame DEF SealHolds, InFinally, proxyVars, BeginRow, Goto, marks, resources, ledger
<1> QED
  BY <1>1, <1>2, <1>3, <1>4, <1>5, <1>6 DEF IInv

LEMMA ManifestInv == ASSUME IInv, Manifest PROVE IInv'
<1>0. ProxyInv /\ Rowed /\ Owned /\ Staged /\ Earned /\ SealHolds
  BY DEF IInv
<1>1. ProxyInv'
  BY <1>0, ProxyFrame DEF Manifest
<1>2. Rowed'
  BY <1>0 DEF Rowed, Manifest, Goto, marks, resources, ledger, InTry, InFinally
<1>3. Owned'
  BY <1>0 DEF Owned, Things, Ready, InTry, InFinally, Manifest, Goto, marks, resources, ledger
<1>4. Staged'
  BY <1>0, StagedFrame DEF Manifest
<1>5. Earned'
  BY <1>0, EarnedFrame DEF Earned, Ready, InTry, InFinally, Manifest, Goto
<1>6. SealHolds'
  BY <1>0, SealFrame DEF SealHolds, InFinally, proxyVars, Manifest, Goto, marks, resources, ledger
<1> QED
  BY <1>1, <1>2, <1>3, <1>4, <1>5, <1>6 DEF IInv

LEMMA ProfileInv == ASSUME IInv, Profile PROVE IInv'
<1>0. ProxyInv /\ Rowed /\ Owned /\ Staged /\ Earned /\ SealHolds
  BY DEF IInv
<1>1. ProxyInv'
  BY <1>0, ProxyFrame DEF Profile
<1>2. Rowed'
  BY <1>0 DEF Rowed, Profile, Goto, marks, resources, ledger, InTry, InFinally
<1>3. Owned'
  BY <1>0 DEF Owned, Things, Ready, InTry, InFinally, Profile, Goto, marks, resources, ledger
<1>4. Staged'
  BY <1>0, StagedFrame DEF Profile
<1>5. Earned'
  BY <1>0, EarnedFrame DEF Earned, Ready, InTry, InFinally, Profile, Goto
<1>6. SealHolds'
  BY <1>0, SealFrame DEF SealHolds, InFinally, proxyVars, Profile, Goto, marks, resources, ledger
<1> QED
  BY <1>1, <1>2, <1>3, <1>4, <1>5, <1>6 DEF IInv

LEMMA PublishInv == ASSUME IInv, Publish PROVE IInv'
<1>0. ProxyInv /\ Rowed /\ Owned /\ Staged /\ Earned /\ SealHolds
  BY DEF IInv
<1>1. ProxyInv'
  BY <1>0, ProxyFrame DEF Publish
<1>2. Rowed'
  BY <1>0 DEF Rowed, Publish, Goto, marks, resources, ledger, InTry, InFinally
<1>3. Owned'
  BY <1>0 DEF Owned, Things, Ready, InTry, InFinally, Publish, Goto, marks, resources, ledger
<1>4. Staged'
  BY <1>0, StagedFrame DEF Publish
<1>5. Earned'
  BY <1>0, EarnedFrame DEF Earned, Ready, InTry, InFinally, Publish, Goto
<1>6. SealHolds'
  BY <1>0, SealFrame DEF SealHolds, InFinally, proxyVars, Publish, Goto, marks, resources, ledger
<1> QED
  BY <1>1, <1>2, <1>3, <1>4, <1>5, <1>6 DEF IInv

LEMMA InterruptCleanupInv == ASSUME IInv, InterruptCleanup PROVE IInv'
<1>0. ProxyInv /\ Rowed /\ Owned /\ Staged /\ Earned /\ SealHolds
  BY DEF IInv
<1>1. ProxyInv'
  BY <1>0, ProxyFrame DEF InterruptCleanup
<1>2. Rowed'
  BY <1>0 DEF Rowed, InterruptCleanup, Goto, marks, resources, ledger, InTry, InFinally
<1>3. Owned'
  BY <1>0 DEF Owned, Things, Ready, InTry, InFinally, InterruptCleanup, Goto, marks, resources, ledger
<1>4. Staged'
  BY <1>0, StagedFrame DEF InterruptCleanup
<1>5. Earned'
  BY <1>0, EarnedFrame DEF Earned, Ready, InTry, InFinally, InterruptCleanup, Goto
<1>6. SealHolds'
  BY <1>0, SealFrame DEF SealHolds, InFinally, proxyVars, InterruptCleanup, Goto, marks, resources, ledger
<1> QED
  BY <1>1, <1>2, <1>3, <1>4, <1>5, <1>6 DEF IInv

LEMMA FinallyInv == ASSUME IInv, Finally PROVE IInv'
<1>0. ProxyInv /\ Rowed /\ Owned /\ Staged /\ Earned /\ SealHolds
  BY DEF IInv
<1>1. ProxyInv'
  BY <1>0, ProxyFrame DEF Finally
<1>2. Rowed'
  BY <1>0 DEF Rowed, Finally, Goto, marks, resources, ledger, InTry, InFinally
<1>3. Owned'
  BY <1>0 DEF Owned, Things, Ready, InTry, InFinally, Finally, Goto, marks, resources, ledger
<1>4. Staged'
  BY <1>0, StagedFrame DEF Finally
<1>5. Earned'
  BY <1>0, EarnedFrame DEF Earned, Ready, InTry, InFinally, Finally, Goto
<1>6. SealHolds'
  BY <1>0, SealFrame DEF SealHolds, InFinally, proxyVars, Finally, Goto, marks, resources, ledger
<1> QED
  BY <1>1, <1>2, <1>3, <1>4, <1>5, <1>6 DEF IInv

LEMMA EvidenceInv == ASSUME IInv, Evidence PROVE IInv'
<1>0. ProxyInv /\ Rowed /\ Owned /\ Staged /\ Earned /\ SealHolds
  BY DEF IInv
<1>1. ProxyInv'
  BY <1>0, ProxyFrame DEF Evidence
<1>2. Rowed'
  BY <1>0 DEF Rowed, Evidence, Goto, marks, resources, ledger, InTry, InFinally
<1>3. Owned'
  BY <1>0 DEF Owned, Things, Ready, InTry, InFinally, Evidence, Goto, marks, resources, ledger
<1>4. Staged'
  BY <1>0, StagedFrame DEF Evidence
<1>5. Earned'
  BY <1>0, EarnedFrame DEF Earned, Ready, InTry, InFinally, Evidence, Goto
<1>6. SealHolds'
  BY <1>0, SealFrame DEF SealHolds, InFinally, proxyVars, Evidence, Goto, marks, resources, ledger
<1> QED
  BY <1>1, <1>2, <1>3, <1>4, <1>5, <1>6 DEF IInv

LEMMA StartBlank ==
  ASSUME ProxyInv, UNCHANGED caps, Blank', up' \in BOOLEAN, gone' \subseteq Requests
  PROVE  ProxyInv'
<1>1. (caps \in Policies)' /\ LoadPolicy(caps)'
  BY DEF ProxyInv, ProxyTyped, LoadPolicy
<1> QED
  BY <1>1, BlankNext

(* What a start leaves of its row.                                         *)
LEMMA MakesInv ==
  ASSUME ProxyInv, Owned, pc = "start", UNCHANGED row,
         NEW parts, NEW wrote, Makes(parts, wrote)
  PROVE  /\ ProxyInv' /\ sealed' = sealed
         /\ Things = {} /\ Things' \subseteq {row} /\ halt = FALSE
<1>1. ProxyInv'
  <2>1. CASE parts = "container"
    <3>1. UNCHANGED caps /\ Blank' /\ up' \in BOOLEAN /\ gone' \subseteq Requests
      BY <2>1 DEF Makes, Blank
    <3> QED
      BY <3>1, StartBlank
  <2>2. CASE parts # "container"
    BY <2>2, ProxyFrame DEF Makes, proxyVars
  <2> QED
    BY <2>1, <2>2
<1>2. ~halt /\ row \notin Things /\ Things \ {row} = {} /\ halt \in BOOLEAN
  BY DEF Owned, Ready
<1>3. sealed' = sealed /\ net' \subseteq net \cup {row} /\ box' \subseteq box \cup {row}
  BY DEF Makes
<1>4. Things' \subseteq Things \cup {row}
  BY <1>3 DEF Things
<1> QED
  BY <1>1, <1>2, <1>3, <1>4

LEMMA StartInv == ASSUME IInv, Start PROVE IInv'
<1>0. ProxyInv /\ Rowed /\ Owned /\ Staged /\ Earned /\ SealHolds
  BY DEF IInv
<1>1. /\ ProxyInv' /\ sealed' = sealed /\ Things = {} /\ Things' \subseteq {row}
      /\ halt = FALSE /\ pc' \in {"profile", "finally"}
  BY <1>0, MakesInv DEF Start, Goto
<1>2. Rowed'
  BY <1>0 DEF Rowed, Start, Goto, ledger
<1>3. Owned'
  <2>1. /\ halt' = FALSE /\ attempted' = TRUE /\ row' = row /\ row \in Nat \ {0}
        /\ doubt' \in BOOLEAN
    BY <1>0, <1>1 DEF Owned, Rowed, Start
  <2>2. Things' \subseteq 1..row /\ (\A j, k \in Things' : j = k) /\ Things' \ {row} = {}
    BY <1>1, <2>1
  <2> QED
    BY <1>1, <2>1, <2>2 DEF Owned, Ready
<1>4. Staged'
  BY <1>0, StagedFrame DEF Start
<1>5. Earned'
  BY <1>0, EarnedFrame DEF Earned, Ready, InTry, Start
<1>6. SealHolds'
  BY <1>0, <1>1 DEF SealHolds, Start
<1> QED
  BY <1>1, <1>2, <1>3, <1>4, <1>5, <1>6 DEF IInv

LEMMA InterruptInv == ASSUME IInv, Interrupt PROVE IInv'
<1>0. ProxyInv /\ Rowed /\ Owned /\ Staged /\ Earned /\ SealHolds
  BY DEF IInv
<1>1. /\ pc \in InTry \cup {"start"} /\ pc' = "finally" /\ halt' = TRUE
      /\ UNCHANGED <<row, slot, doubt, source, result, ledger>>
  BY DEF Interrupt, Goto
<1>2. ProxyInv' /\ sealed = None /\ sealed' = sealed
  <2>1. CASE pc \in InTry /\ UNCHANGED <<caps, up, at, size, budget, events, paid, resources>>
             /\ gone' = Requests
    BY <1>0, <2>1, ProxyStutter DEF ProxyData, ProxyInv, ProxyTyped, SealHolds, InTry, resources
  <2>2. CASE pc = "start" /\ \E parts, wrote : Makes(parts, wrote)
    BY <1>0, <1>1, <2>2, MakesInv DEF SealHolds
  <2> QED
    BY <2>1, <2>2 DEF Interrupt
<1>3. Rowed'
  BY <1>0, <1>1 DEF Rowed, InTry, ledger
<1>4. Owned'
  <2>1. CASE pc \in InTry /\ UNCHANGED <<attempted, resources>>
    BY <1>0, <1>1, <2>1 DEF Owned, Things, Ready, InTry, ledger, resources
  <2>2. CASE pc = "start" /\ attempted' = TRUE /\ \E parts, wrote : Makes(parts, wrote)
    <3>1. Things = {} /\ Things' \subseteq {row}
      BY <1>0, <1>1, <2>2, MakesInv
    <3> QED
      BY <1>0, <1>1, <2>2, <3>1 DEF Owned, Rowed, Ready, InTry, ledger
  <2> QED
    BY <2>1, <2>2 DEF Interrupt
<1>5. Staged'
  BY <1>0, <1>1, StagedFrame
<1>6. Earned'
  BY <1>0, <1>1, EarnedFrame DEF Ready, InTry
<1>7. SealHolds'
  BY <1>0, <1>2 DEF SealHolds
<1> QED
  BY <1>2, <1>3, <1>4, <1>5, <1>6, <1>7 DEF IInv

LEMMA RunStageInv == ASSUME IInv, RunStage PROVE IInv'
<1>0. ProxyInv /\ Rowed /\ Owned /\ Staged /\ Earned /\ SealHolds
  BY DEF IInv
<1>1. ProxyInv'
  BY <1>0, ProxyStutter DEF RunStage, ProxyData, ProxyInv, ProxyTyped
<1>2. Rowed'
  BY <1>0 DEF Rowed, RunStage, Goto, ledger
<1>3. Owned'
  BY <1>0 DEF Owned, Things, Ready, InTry, RunStage, Goto, marks, resources, ledger
<1>4. Staged'
  BY <1>0, StagedFrame DEF RunStage
<1>5. Earned'
  BY <1>0, EarnedFrame DEF Earned, Ready, InTry, RunStage, Goto
<1>6. SealHolds'
  BY <1>0 DEF SealHolds, RunStage, resources
<1> QED
  BY <1>1, <1>2, <1>3, <1>4, <1>5, <1>6 DEF IInv

LEMMA ChangeSourceInv == ASSUME IInv, ChangeSource PROVE IInv'
<1>0. ProxyInv /\ Rowed /\ Owned /\ Staged /\ Earned /\ SealHolds
  BY DEF IInv
<1>1. ProxyInv'
  BY <1>0, ProxyFrame DEF ChangeSource
<1>2. Rowed'
  BY <1>0 DEF Rowed, ChangeSource, ledger
<1>3. Owned'
  BY <1>0 DEF Owned, Things, Ready, InTry, ChangeSource, marks, resources, ledger
<1>4. Staged'
  <2>1. UNCHANGED <<stage, seen, lifecycles, story, Kept, Cold>> /\ source' \in {"frozen", "other"}
    BY DEF ChangeSource, slot, Kept, Cold
  <2> QED
    BY <1>0, <2>1 DEF Staged
<1>5. Earned'
  BY <1>0, EarnedFrame DEF Earned, ChangeSource
<1>6. SealHolds'
  BY <1>0 DEF SealHolds, ChangeSource, resources, proxyVars
<1> QED
  BY <1>1, <1>2, <1>3, <1>4, <1>5, <1>6 DEF IInv

LEMMA PostInv == ASSUME IInv, Post PROVE IInv'
<1>0. ProxyInv /\ Rowed /\ Owned /\ Staged /\ Earned /\ SealHolds
  BY DEF IInv
<1>1. ProxyInv'
  BY <1>0, ProxyFrame DEF Post
<1>2. result' \in {"completed", "skipped", "error"} /\ pc' = "finally" /\ pc \in {"stage", "post"}
  BY DEF Post, Finish, Goto
<1>3. Rowed'
  BY <1>0, <1>2 DEF Rowed, Post, ledger
<1>4. Owned'
  BY <1>0, <1>2 DEF Owned, Things, Ready, InTry, Post, marks, resources, ledger
<1>5. Staged'
  BY <1>0, StagedFrame DEF Post
<1>6. Earned'
  <2>1. UNCHANGED <<story, Kept, Total, lifecycles>> /\ result' = Finish
    BY DEF Post, slot, Kept, Total, Block, Cold
  <2>2. Finish = "completed" => Len(story) = Total /\ Kept = DOMAIN lifecycles
    BY DEF Finish, Kept
  <2>3. DOMAIN lifecycles = DOMAIN story
    BY <1>0 DEF Staged
  <2> QED
    BY <1>2, <2>1, <2>2, <2>3 DEF Earned, Ready, InTry
<1>7. SealHolds'
  BY <1>0, <1>2, SealFrame DEF SealHolds, Post, resources, proxyVars
<1> QED
  BY <1>1, <1>3, <1>4, <1>5, <1>6, <1>7 DEF IInv

LEMMA RemoveInv == ASSUME IInv, Remove PROVE IInv'
<1>0. ProxyInv /\ Rowed /\ Owned /\ Staged /\ Earned /\ SealHolds
  BY DEF IInv
<1>1. ProxyInv'
  BY <1>0, ProxyStutter DEF Remove, ProxyData, ProxyInv, ProxyTyped
<1>2. Rowed'
  BY <1>0 DEF Rowed, Remove, Goto, ledger
<1>3. Owned'
  <2>1. Things' \subseteq Things /\ (row \in Things' => doubt') /\ doubt' \in BOOLEAN
    BY DEF Things, Remove
  <2> QED
    BY <1>0, <2>1 DEF Owned, Ready, InTry, Remove, Goto, ledger
<1>4. Staged'
  BY <1>0, StagedFrame DEF Remove
<1>5. Earned'
  BY <1>0, EarnedFrame DEF Earned, Ready, InTry, Remove, Goto
<1>6. SealHolds'
  BY <1>0, SealFrame DEF Remove, Goto
<1> QED
  BY <1>1, <1>2, <1>3, <1>4, <1>5, <1>6 DEF IInv

LEMMA WriteInv == ASSUME IInv, Write PROVE IInv'
<1>0. ProxyInv /\ Rowed /\ Owned /\ Staged /\ Earned /\ SealHolds
  BY DEF IInv
<1>1. ProxyInv'
  <2>1. CASE row \in box
    BY <1>0, <2>1, ProxyFrame DEF Write, NextRow
  <2>2. CASE row \notin box
    <3>1. UNCHANGED caps /\ Blank' /\ up' \in BOOLEAN /\ gone' \subseteq Requests
      BY <2>2 DEF Write, NextRow, Blank
    <3> QED
      BY <1>0, <3>1, StartBlank
  <2> QED
    BY <2>1, <2>2
<1>2. Rowed'
  BY <1>0, HarnessAssumption DEF Rowed, Write, NextRow, Goto
<1>3. Owned'
  <2>1. /\ Things' = Things /\ Things \subseteq 1..row /\ row \in Nat /\ row' = row + 1
        /\ row \in Things => doubt
    BY <1>0 DEF Owned, Rowed, Things, Write, NextRow
  <2>2. row' \notin Things' /\ Things' \subseteq 1..row'
    BY <2>1
  <2>3. Things' \subseteq pending' /\ (Things' # {} => halt') /\ halt' \in BOOLEAN
    BY <1>0, <2>1 DEF Owned, Write
  <2> QED
    BY <1>0, <2>1, <2>2, <2>3 DEF Owned, Ready, InTry, Write, NextRow, Goto
<1>4. Staged'
  <2>1. stage' = 0 /\ lifecycles' = <<>> /\ story' = <<>> /\ seen' = {} /\ source' = source
    BY DEF Write, NextRow
  <2>2. Kept' = {}
    BY <2>1 DEF Kept
  <2> QED
    BY <1>0, <2>1, <2>2 DEF Staged
<1>5. Earned'
  BY DEF Earned, Write, NextRow
<1>6. SealHolds'
  BY DEF SealHolds, Write, NextRow
<1> QED
  BY <1>1, <1>2, <1>3, <1>4, <1>5, <1>6 DEF IInv

(* One more stage.                                                         *)
LEMMA EndStageInv == ASSUME IInv, EndStage PROVE IInv'
<1>0. ProxyInv /\ Rowed /\ Owned /\ Staged /\ Earned /\ SealHolds
  BY DEF IInv
<1>1. ProxyInv'
  BY <1>0, ProxyStutter DEF EndStage, ProxyData, ProxyInv, ProxyTyped
<1>2. Rowed'
  BY <1>0 DEF Rowed, EndStage, Goto, ledger
<1>3. Owned'
  BY <1>0 DEF Owned, Things, Ready, InTry, EndStage, Goto, marks, resources, ledger
<1>4. Staged'
  <2>1. PICK o \in Outcomes :
          LET l == IF Completes(o) THEN "completed" ELSE "error" IN
          /\ lifecycles' = Append(lifecycles, l)
          /\ seen' = IF l = "completed" THEN seen \cup {o.session} ELSE seen
          /\ story' = Append(story, [outcome |-> o, source |-> source])
    BY DEF EndStage
  <2>2. /\ stage' = stage + 1 /\ stage \in Nat /\ source' = source /\ Cold' = Cold
        /\ Len(lifecycles) = stage /\ Len(story) = stage
    BY <1>0 DEF EndStage, Staged, Cold
  <2> DEFINE l == IF Completes(o) THEN "completed" ELSE "error"
             told == [outcome |-> o, source |-> source]
             n == stage + 1
  <2>3. /\ lifecycles' \in Seq({"completed", "error"}) /\ Len(lifecycles') = stage'
        /\ DOMAIN lifecycles' = 1..n /\ DOMAIN lifecycles = 1..stage
        /\ lifecycles'[n] = l
        /\ \A i \in 1..stage : lifecycles'[i] = lifecycles[i]
    BY <1>0, <2>1, <2>2 DEF Staged
  <2>4. /\ story' \in Seq([outcome : Outcomes, source : {"frozen", "other"}])
        /\ Len(story') = stage'
        /\ story'[n] = told
        /\ \A i \in 1..stage : story'[i] = story[i]
    <3>1. told \in [outcome : Outcomes, source : {"frozen", "other"}]
      BY <1>0 DEF Staged
    <3> HIDE DEF told
    <3>2. story' = Append(story, told)
      BY <2>1 DEF told
    <3> QED
      BY <1>0, <2>2, <3>1, <3>2 DEF Staged
  <2>5. /\ stage' \in Nat /\ lifecycles' \in Seq({"completed", "error"})
        /\ story' \in Seq([outcome : Outcomes, source : {"frozen", "other"}])
        /\ Len(lifecycles') = stage' /\ Len(story') = stage'
        /\ source' \in {"frozen", "other"}
    BY <1>0, <2>2, <2>3, <2>4 DEF Staged
  <2>6. CASE ~Completes(o)
    <3>1. Kept' = Kept /\ seen' = seen /\ Kept \subseteq 1..stage
      BY <2>1, <2>2, <2>3, <2>6 DEF Kept
    <3>2. {story'[i].outcome.session : i \in Kept} = {story[i].outcome.session : i \in Kept}
      BY <2>4, <3>1
    <3>3. \A i \in Kept : story'[i] = story[i]
      BY <2>4, <3>1
    <3>4. seen' = {story'[i].outcome.session : i \in Kept'}
      BY <1>0, <3>1, <3>2 DEF Staged
    <3>5. \A i \in Kept' :
            /\ story'[i].source = "frozen" /\ story'[i].outcome.exec = "ok" /\ story'[i].outcome.prompt
            /\ (i > (IF Cold' THEN 2 ELSE 1)) => story'[i].outcome.text = "claims"
      BY <1>0, <2>2, <3>1, <3>3 DEF Staged
    <3>6. ASSUME NEW i \in Kept', NEW j \in Kept',
                 story'[i].outcome.session = story'[j].outcome.session
          PROVE  i = j
      <4>1. i \in Kept /\ j \in Kept
        BY <3>1
      <4>2. story[i].outcome.session = story[j].outcome.session
        BY <3>3, <3>6, <4>1
      <4> QED
        BY <1>0, <4>1, <4>2 DEF Staged
    <3> QED
      BY <2>5, <3>4, <3>5, <3>6 DEF Staged
  <2>7. CASE Completes(o)
    <3>1. Kept' = 1..n /\ Kept = 1..stage /\ seen' = seen \cup {o.session}
      BY <2>1, <2>2, <2>3, <2>7 DEF Kept, Completes
    <3>2. {story'[i].outcome.session : i \in 1..n}
            = {story[i].outcome.session : i \in 1..stage} \cup {o.session}
      BY <2>2, <2>4
    <3>3. /\ source = "frozen" /\ o.exec = "ok" /\ o.prompt
          /\ n > (IF Cold THEN 2 ELSE 1) => o.text = "claims"
          /\ stage # 0 => o.session \notin seen
      BY <2>2, <2>7 DEF Completes, Verified, IsContext, IsHunter
    <3>4. \A i \in 1..n : i \in 1..stage \/ i = n
      BY <2>2
    <3>5. \A i \in 1..stage : story[i].outcome.session \in seen
      BY <1>0, <3>1 DEF Staged
    <3>6. \A i \in 1..n :
            /\ story'[i].source = "frozen" /\ story'[i].outcome.exec = "ok" /\ story'[i].outcome.prompt
            /\ (i > (IF Cold' THEN 2 ELSE 1)) => story'[i].outcome.text = "claims"
      BY <1>0, <2>2, <2>4, <3>1, <3>3, <3>4 DEF Staged
    <3>7. \A i, j \in 1..n : story'[i].outcome.session = story'[j].outcome.session => i = j
      <4>1. \A i, j \in 1..stage :
              story'[i].outcome.session = story'[j].outcome.session => i = j
        BY <1>0, <2>4, <3>1 DEF Staged
      <4>2. \A i \in 1..stage : story'[i].outcome.session # story'[n].outcome.session
        BY <2>2, <2>4, <3>3, <3>5
      <4> QED
        BY <3>4, <4>1, <4>2
    <3>8. seen' = {story'[i].outcome.session : i \in Kept'}
      BY <1>0, <3>1, <3>2 DEF Staged
    <3> QED
      BY <2>5, <3>1, <3>6, <3>7, <3>8 DEF Staged
  <2> QED
    BY <2>6, <2>7
<1>5. Earned'
  <2>1. result = "error" /\ result' = result
    BY <1>0 DEF Earned, EndStage, InTry
  <2> QED
    BY <2>1 DEF Earned
<1>6. SealHolds'
  BY <1>0 DEF SealHolds, EndStage, resources
<1> QED
  BY <1>1, <1>2, <1>3, <1>4, <1>5, <1>6 DEF IInv

-----------------------------------------------------------------------------
(* What is sealed: counted events go one by one into the bills.            *)
LEMMA EventsBilled ==
  ASSUME ProxyInv
  PROVE  LET counted == {e \in events : Counted(e)} IN
         /\ IsFiniteSet(counted) /\ Cardinality(counted) <= Cardinality(Billed)
         /\ Amounts([e \in counted |-> e.charged], counted)
         /\ Sum([e \in counted |-> e.charged], counted) <= Spent
<1> DEFINE counted == {e \in events : Counted(e)}
           h == [e \in counted |-> e.request]
           f == [e \in counted |-> e.charged]
           g == [r \in Billed |-> paid[r].charge]
<1>1. \A e \in counted : /\ e.request \in Billed /\ e.charged \in Nat
                         /\ e.charged <= paid[e.request].charge
  BY DEF ProxyInv, ProxyTyped, Printed, Events, Counted, Billed
<1>2. \A d, e \in counted : d.request = e.request => d = e
  BY DEF ProxyInv, Printed
<1>3. IsFiniteSet(Billed) /\ ProxyTyped
  BY AccountNumbers DEF ProxyInv
<1>4. h \in Injection(counted, Billed)
  BY <1>1, <1>2 DEF Injection, IsInjective
<1>5. IsFiniteSet(counted) /\ Cardinality(counted) <= Cardinality(Billed)
  <2> HIDE DEF h, counted
  <2> QED BY <1>3, <1>4, FS_Injection
<1>6. Amounts(f, counted)
  BY <1>1 DEF Amounts
<1>7. Amounts(g, Billed)
  BY <1>3 DEF Amounts, ProxyTyped, Billed, Bills
<1>8. h \in [counted -> Billed] /\ (\A x, y \in counted : h[x] = h[y] => x = y)
  BY <1>1, <1>2
<1>9. \A x \in counted : f[x] <= g[h[x]]
  BY <1>1
<1>10. Sum(f, counted) <= Sum(g, Billed)
  <2> HIDE DEF h, counted, f, g
  <2> QED BY <1>3, <1>6, <1>7, <1>8, <1>9, SumInjective
<1> QED
  BY <1>5, <1>6, <1>10 DEF Spent

LEMMA UsageBounded ==
  ASSUME ProxyInv
  PROVE  Usage \in Usages /\ Usage.turns <= budget.turns /\ Usage.charged <= budget.settled
<1> DEFINE counted == {e \in events : Counted(e)}
<1>0. ProxyTyped /\ Books /\ BudgetIsExact
  BY DEF ProxyInv
<1>1. /\ IsFiniteSet(counted) /\ Cardinality(counted) <= Cardinality(Billed)
      /\ Amounts([e \in counted |-> e.charged], counted)
      /\ Sum([e \in counted |-> e.charged], counted) <= Spent
  BY EventsBilled
<1>2. /\ Cardinality(counted) \in Nat
      /\ Sum([e \in counted |-> e.charged], counted) \in Nat
  <2> HIDE DEF counted
  <2> QED BY <1>1, SumNat, FS_CardinalityType
<1>3. Usage.turns = Cardinality(counted) /\ Usage.charged = Sum([e \in counted |-> e.charged], counted)
      /\ Usage = [turns |-> Cardinality(counted),
                  charged |-> Sum([e \in counted |-> e.charged], counted)]
  BY DEF Usage
<1> HIDE DEF counted
<1>4. Cardinality(Billed) <= budget.turns /\ budget.turns \in Nat /\ Cardinality(Billed) \in Nat
  <2>1. IsFiniteSet(Sent \cup Billed) /\ Billed \in SUBSET (Sent \cup Billed)
    BY <1>0, AccountNumbers, FS_Union
  <2>2. Cardinality(Billed) <= Cardinality(Sent \cup Billed)
    BY <2>1, FS_Subset
  <2> QED
    BY <1>0, <2>2, AccountNumbers DEF Books, ProxyTyped
<1>5. Spent <= budget.settled /\ Spent \in Nat /\ budget.settled \in Int
  <2>1. /\ Spent \in Nat /\ Held \in Nat /\ budget.reserved <= Held
        /\ budget.reserved \in Int /\ budget.settled \in Int
        /\ budget.reserved + budget.settled = Held + Spent
    BY <1>0, AccountNumbers, ExactNow DEF Books, Held, ProxyTyped
  <2> QED
    BY <2>1
<1> QED
  BY <1>1, <1>2, <1>3, <1>4, <1>5 DEF Usages

LEMMA SealInv == ASSUME IInv, Seal PROVE IInv'
<1>0. ProxyInv /\ Rowed /\ Owned /\ Staged /\ Earned /\ SealHolds
  BY DEF IInv
<1>1. ProxyInv'
  BY <1>0, ProxyFrame DEF Seal
<1>2. Rowed'
  BY <1>0 DEF Rowed, Seal, Goto, ledger
<1>3. Owned'
  BY <1>0 DEF Owned, Things, Ready, InTry, Seal, Goto, ledger
<1>4. Staged'
  BY <1>0, StagedFrame DEF Seal
<1>5. Earned'
  BY <1>0, EarnedFrame DEF Earned, Ready, InTry, Seal, Goto
<1>6. SealHolds'
  <2>1. budget' = budget /\ sealed = None /\ pc' \in {"remove", "evidence"}
    BY <1>0 DEF Seal, proxyVars, SealHolds, Goto
  <2>2. sealed' = Usage \/ sealed' = sealed
    BY DEF Seal
  <2> QED
    BY <1>0, <2>1, <2>2, UsageBounded DEF SealHolds
<1> QED
  BY <1>1, <1>2, <1>3, <1>4, <1>5, <1>6 DEF IInv

(* The budget only grows while a proxy serves.                             *)
LEMMA RequestingInv == ASSUME IInv, NEW r \in Requests, Requesting(r) PROVE IInv'
<1>0. ProxyInv /\ Rowed /\ Owned /\ Staged /\ Earned /\ SealHolds /\ ProxyTyped
  BY DEF IInv, ProxyInv
<1>1. ProxyInv'
  BY <1>0, HandleInv, HangUpInv DEF Requesting
<1>2. UNCHANGED <<row, pc, slot, halt, marks, resources, source, result, ledger>>
  BY DEF Requesting, Harness
<1>3. Rowed' /\ Owned'
  BY <1>0, <1>2 DEF Rowed, Owned, Things, marks, resources, ledger
<1>4. Staged'
  BY <1>0, <1>2, StagedFrame
<1>5. Earned'
  BY <1>0, <1>2, EarnedFrame DEF Earned
<1>6. SealHolds'
  <2>1. ASSUME NEW answer \in Answers \cup {None}
        PROVE  /\ Settled(r, answer).turns = budget.turns
               /\ Settled(r, answer).settled >= budget.settled
    <3>1. Bill(r, answer).charge \in Nat /\ budget.settled \in Int
      BY <1>0, BillNumbers DEF Bills, ProxyTyped
    <3> QED
      BY <1>0, <3>1, SettledNumbers
  <2>2. budget.turns \in Nat /\ budget.settled \in Int /\ budget \in Budgets
    BY <1>0 DEF ProxyTyped, Budgets
  <2>3. budget'.turns >= budget.turns /\ budget'.settled >= budget.settled
    <3>1. CASE budget' = budget
      BY <2>2, <3>1
    <3>2. CASE \E answer \in Answers \cup {None} : budget' = Settled(r, answer)
      BY <2>1, <2>2, <3>2
    <3>3. CASE Receive(r)
      <4>1. PICK b \in Bodies :
              budget' = [budget EXCEPT !.turns = @ + 1, !.inflight = @ + 1,
                           !.reserved = @ + Reservation, !.inReserved = @ + b,
                           !.outReserved = @ + OutReservation]
        BY <3>3 DEF Receive
      <4>2. budget'.turns = budget.turns + 1 /\ budget'.settled = budget.settled
        BY <2>2, <4>1 DEF Budgets
      <4> QED
        BY <2>2, <4>2
    <3> QED
      BY <3>1, <3>2, <3>3
         DEF Requesting, Handle, HangUp, Refuse, Answer, Deliver, DeliverFails, UpstreamFails
  <2>4. budget'.turns \in Nat /\ budget'.settled \in Int
    BY <1>1 DEF ProxyInv, ProxyTyped
  <2> QED
    BY <1>0, <1>2, <2>2, <2>3, <2>4, HarnessAssumption DEF SealHolds, resources, Usages
<1> QED
  BY <1>1, <1>3, <1>4, <1>5, <1>6 DEF IInv

-----------------------------------------------------------------------------
LEMMA InitInv == Init => IInv
<1> SUFFICES ASSUME Init PROVE IInv
  OBVIOUS
<1>1. ProxyInv
  BY BlankHolds DEF Init, Idle, Blank
<1>2. Rowed
  BY HarnessAssumption DEF Init, Rowed
<1>3. Owned
  BY DEF Init, Owned, Things, InTry
<1>4. Staged
  <2>1. Kept = {}
    BY DEF Init, Kept
  <2> QED
    BY <2>1 DEF Init, Staged
<1>5. Earned
  BY DEF Init, Earned
<1>6. SealHolds
  BY DEF Init, SealHolds
<1> QED
  BY <1>1, <1>2, <1>3, <1>4, <1>5, <1>6 DEF IInv

LEMMA StutterInv == ASSUME IInv, UNCHANGED vars PROVE IInv'
<1>1. UNCHANGED <<proxyVars, row, pc, slot, halt, marks, resources, source, result, ledger>>
  BY DEF vars
<1>2. ProxyInv'
  BY <1>1, ProxyFrame DEF IInv
<1>3. Rowed' /\ Owned'
  BY <1>1 DEF IInv, Rowed, Owned, Things, marks, resources, ledger
<1>4. Staged' /\ Earned'
  BY <1>1, StagedFrame, EarnedFrame DEF IInv, Earned
<1>5. SealHolds'
  BY <1>1 DEF IInv, SealHolds, resources, proxyVars
<1> QED
  BY <1>2, <1>3, <1>4, <1>5 DEF IInv

(* Every step of the campaign, of the proxy and of what disturbs them      *)
(* keeps the inductive invariant.                                          *)
THEOREM Inductive == Spec => []IInv
<1>1. IInv /\ [Next]_vars => IInv'
  <2> SUFFICES ASSUME IInv, [Next]_vars PROVE IInv'
    OBVIOUS
  <2>1. CASE Step
    BY <2>1, BeginRowInv, ManifestInv, StartInv, ProfileInv, RunStageInv, EndStageInv, PostInv,
       FinallyInv, SealInv, RemoveInv, EvidenceInv, WriteInv, PublishInv DEF Step
  <2>2. CASE Interrupt \/ InterruptCleanup \/ ChangeSource
    BY <2>2, InterruptInv, InterruptCleanupInv, ChangeSourceInv
  <2>3. CASE \E r \in Requests : Requesting(r)
    BY <2>3, RequestingInv
  <2>4. CASE UNCHANGED vars
    BY <2>4, StutterInv
  <2> QED
    BY <2>1, <2>2, <2>3, <2>4 DEF Next
<1> QED
  BY InitInv, <1>1, PTL DEF Spec

(* AccountsAgree, harness.py and provider_proxy.py: the caps hold, the     *)
(* budget is exact, and what is sealed was in it, for every policy, size   *)
(* and answer.                                                             *)
THEOREM AccountsAlwaysAgree == Spec => []AccountsAgree
<1>1. IInv => AccountsAgree
  BY DEF IInv, ProxyInv, SealHolds, AccountsAgree
<1> QED
  BY Inductive, <1>1, PTL

(* LeftoversAreListed, harness.py: never two proxies, and a campaign that  *)
(* reports has listed whatever it leaves, for every order of rows.         *)
THEOREM LeftoversAlwaysListed == Spec => []LeftoversAreListed
<1>1. ASSUME IInv PROVE LeftoversAreListed
  <2>1. ASSUME NEW S \in SUBSET Things PROVE Cardinality(S) <= 1
    <3>1. CASE S = {}
      BY <3>1, FS_EmptySet
    <3>2. CASE S # {}
      <4>1. PICK x \in S : S = {x}
        BY <1>1, <3>2 DEF IInv, Owned
      <4> QED
        BY <4>1, FS_Singleton
    <3> QED
      BY <3>1, <3>2
  <2>2. Cardinality(box) <= 1 /\ Cardinality(net) <= 1
    BY <2>1 DEF Things
  <2>3. pc = "done" => box \cup net \subseteq pending
    BY <1>1 DEF IInv, Owned, Things
  <2>4. pc = "done" => Len(receipts) = Len(Order)
    BY <1>1, HarnessAssumption DEF IInv, Rowed
  <2> QED
    BY <2>2, <2>3, <2>4 DEF LeftoversAreListed
<1> QED
  BY Inductive, <1>1, PTL

(* CompletedIsEarned, invoke_slot in harness.py: a completed slot ran all  *)
(* of its stages, each in a session of its own, for every block and        *)
(* whatever a host answers.                                                *)
THEOREM CompletedAlwaysEarned == Spec => []CompletedIsEarned
<1>1. ASSUME IInv PROVE CompletedIsEarned
  BY <1>1 DEF IInv, Staged, Earned, CompletedIsEarned
<1> QED
  BY Inductive, <1>1, PTL
=============================================================================
