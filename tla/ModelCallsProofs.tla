-------------------------- MODULE ModelCallsProofs --------------------------
(***************************************************************************)
(* What ModelCalls.tla promises for every number of callers, projects and  *)
(* calls, all costs and all faults.                                        *)
(***************************************************************************)
EXTENDS ModelCalls, FiniteSetTheorems, TLAPS

LEMMA Amounts ==
  /\ BilledTo \in [Caller -> Project]
  /\ PrimaryCost \cup OllamaCost \cup {0} \subseteq Nat
  /\ Dollar \in Nat \ {0}
  /\ MaxCalls \in Nat /\ MaxDays \in Nat /\ MaxFaults \in Nat
  BY ModelCallsAssumption

-----------------------------------------------------------------------------
(* Sums *)

Units(f, S) == UNION {{x} \X (1..f[x]) : x \in S}

\* A sum over a finite set is a number, and what it counts out finite.
LEMMA SumIsFinite ==
  ASSUME NEW S, IsFiniteSet(S), NEW f, \A x \in S : f[x] \in Nat
  PROVE  IsFiniteSet(Units(f, S)) /\ SumOver(f, S) \in Nat
<1> DEFINE piece == [x \in S |-> {x} \X (1..f[x])]
           Pieces == {{x} \X (1..f[x]) : x \in S}
<1>1. piece \in Surjection(S, Pieces)
  BY DEF Surjection
<1>2. IsFiniteSet(Pieces)
  BY <1>1, FS_Surjection
<1>3. \A x \in S : IsFiniteSet({x} \X (1..f[x]))
  <2> TAKE x \in S
  <2>1. IsFiniteSet({x})
    BY FS_Singleton
  <2>2. 1 \in Int /\ f[x] \in Int
    OBVIOUS
  <2>3. IsFiniteSet(1..f[x])
    BY <2>2, FS_Interval
  <2> QED
    BY <2>1, <2>3, FS_Product
<1>4. IsFiniteSet(UNION Pieces)
  BY <1>2, <1>3, FS_UNION
<1> QED
  BY <1>4, FS_CardinalityType DEF Units, SumOver

\* Only the values on S count.
LEMMA SumOfSame ==
  ASSUME NEW S, NEW f, NEW g, \A x \in S : g[x] = f[x]
  PROVE  SumOver(g, S) = SumOver(f, S)
<1>1. {{x} \X (1..g[x]) : x \in S} = {{x} \X (1..f[x]) : x \in S}
  OBVIOUS
<1> QED
  BY <1>1 DEF SumOver

\* The sum is one of its terms and the sum of the others.
LEMMA SumWithout ==
  ASSUME NEW S, IsFiniteSet(S), NEW f, \A x \in S : f[x] \in Nat, NEW y \in S
  PROVE  SumOver(f, S) = SumOver(f, S \ {y}) + f[y]
<1> DEFINE own == {y} \X (1..f[y])
           rest == Units(f, S \ {y})
<1>1. IsFiniteSet(S \ {y}) /\ IsFiniteSet(rest)
  BY FS_RemoveElement, SumIsFinite
<1>2. IsFiniteSet(own) /\ Cardinality(own) = f[y]
  <2>1. IsFiniteSet({y}) /\ Cardinality({y}) = 1
    BY FS_Singleton
  <2>2. IsFiniteSet(1..f[y]) /\ Cardinality(1..f[y]) = f[y]
    BY FS_Interval
  <2> QED
    BY <2>1, <2>2, FS_Product
<1>3. Units(f, S) = rest \cup own /\ rest \cap own = {}
  BY DEF Units
<1>4. Cardinality(rest \cup own) = Cardinality(rest) + Cardinality(own)
  <2>1. Cardinality(rest \cup own)
          = Cardinality(rest) + Cardinality(own) - Cardinality(rest \cap own)
    BY <1>1, <1>2, FS_Union
  <2>2. Cardinality(rest \cap own) = 0
    BY <1>3, FS_EmptySet
  <2>3. Cardinality(rest) \in Nat
    BY <1>1, FS_CardinalityType
  <2> QED
    BY <1>2, <2>1, <2>2, <2>3
<1> QED
  BY <1>2, <1>3, <1>4 DEF SumOver, Units

\* Changing one term changes the sum by as much.
LEMMA SumWithOneChanged ==
  ASSUME NEW S, IsFiniteSet(S), NEW y \in S, NEW f, \A x \in S : f[x] \in Nat,
         NEW g, \A x \in S \ {y} : g[x] = f[x], g[y] \in Nat
  PROVE  /\ SumOver(f, S) \in Nat /\ SumOver(g, S) \in Nat
         /\ SumOver(g, S) + f[y] = SumOver(f, S) + g[y]
<1>1. \A x \in S : g[x] \in Nat
  OBVIOUS
<1>2. SumOver(g, S \ {y}) = SumOver(f, S \ {y})
  BY SumOfSame
<1>3. SumOver(f, S) = SumOver(f, S \ {y}) + f[y] /\ SumOver(g, S) = SumOver(g, S \ {y}) + g[y]
  BY <1>1, SumWithout
<1>4. SumOver(f, S \ {y}) \in Nat
  <2>1. IsFiniteSet(S \ {y})
    BY FS_RemoveElement
  <2> QED
    BY <2>1, SumIsFinite
<1>5. f[y] \in Nat /\ g[y] \in Nat
  OBVIOUS
<1> HIDE DEF SumOver
<1> QED
  BY <1>2, <1>3, <1>4, <1>5

\* Larger terms make a larger sum.
LEMMA SumGrows ==
  ASSUME NEW S, IsFiniteSet(S), NEW f, NEW g,
         \A x \in S : f[x] \in Nat /\ g[x] \in Nat /\ f[x] <= g[x]
  PROVE  SumOver(f, S) \in Nat /\ SumOver(g, S) \in Nat /\ SumOver(f, S) <= SumOver(g, S)
<1>1. Units(f, S) \subseteq Units(g, S)
  BY DEF Units
<1>2. IsFiniteSet(Units(g, S)) /\ SumOver(g, S) \in Nat /\ SumOver(f, S) \in Nat
  BY SumIsFinite
<1>3. Cardinality(Units(f, S)) <= Cardinality(Units(g, S))
  BY <1>1, <1>2, FS_Subset
<1> QED
  BY <1>2, <1>3 DEF SumOver, Units

\* A sum of nothing.
LEMMA SumOfZeros ==
  ASSUME NEW S, NEW f, \A x \in S : f[x] = 0
  PROVE  SumOver(f, S) = 0
<1>1. Units(f, S) = {}
  BY DEF Units
<1> QED
  BY <1>1, FS_EmptySet DEF SumOver, Units

-----------------------------------------------------------------------------
(* Calls *)

\* A cost is recorded for a model that has answered, and what follows the
\* insertion of its row finds it inserted. TypeOK and AnswersArePaid are not
\* inductive without it.
PaidOnTheWay ==
  \A c \in Caller :
    /\ point[c] \in {"fallback", "insert"} => source[c] \in answered[c]
    /\ point[c] \in {"total", "project", "answered"} => source[c] \in rows[c]
    /\ rows[c] \subseteq answered[c]

\* Today is part of the month.
DayWithinMonth == \A p \in Project : today[p] <= spent[p]

CallInv == TypeOK /\ PaidOnTheWay /\ DayWithinMonth

LEMMA CallInvInit == Init => CallInv
  BY Amounts DEF Init, CallInv, TypeOK, PaidOnTheWay, DayWithinMonth, AtRest, Waiting, Model

LEMMA AskKeeps ==
  ASSUME CallInv, NEW c \in Caller, Ask(c), faults' \in 0..MaxFaults
  PROVE  CallInv'
<1> USE DEF CallInv, TypeOK, PaidOnTheWay, DayWithinMonth, Ask, Goto, AtRest, Waiting, Model,
            ledger, metrics
<1>1. TypeOK'
  BY Amounts
<1>2. PaidOnTheWay'
  OBVIOUS
<1>3. DayWithinMonth'
  OBVIOUS
<1> QED
  BY <1>1, <1>2, <1>3

\* Faults are counted up to their bound.
LEMMA FaultKeeps == TypeOK /\ (Fault \/ UNCHANGED faults) => faults' \in 0..MaxFaults
  BY Amounts DEF TypeOK, Fault

LEMMA CallKeeps ==
  ASSUME CallInv, NEW c \in Caller, Call(c)
  PROVE  CallInv'
<1> USE DEF CallInv, TypeOK, PaidOnTheWay, DayWithinMonth, Goto, AtRest, Waiting, Model, call,
            ledger, metrics
<1>t. \A p \in Project : spent[p] \in Nat /\ today[p] \in Nat
  OBVIOUS
<1>b. bill[c] \in Nat /\ BilledTo[c] \in Project
  BY Amounts
<1>1. CASE Primary(c)
  <2>1. CASE \E cost \in PrimaryCost : Answers(c, "primary", cost) /\ Goto(c, "insert")
    BY <2>1 DEF Answers
  <2>2. CASE Throw(c) /\ UNCHANGED <<call, ledger, metrics, days, faults>>
    BY <2>2 DEF Throw
  <2> QED
    BY <1>1, <2>1, <2>2 DEF Primary
<1>2. CASE Ollama(c)
  <2>1. CASE /\ \E cost \in OllamaCost : Answers(c, "ollama", cost)
             /\ Goto(c, IF HasBus THEN "fallback" ELSE "insert")
    BY <2>1 DEF Answers
  <2>2. CASE Goto(c, "failed") /\ UNCHANGED <<call, ledger, metrics, days, faults>>
    BY <2>2
  <2> QED
    BY <1>2, <2>1, <2>2 DEF Ollama
<1>3. CASE CountFallback(c)
  <2>1. faults' \in 0..MaxFaults
    BY <1>3, FaultKeeps DEF CountFallback
  <2> QED
    BY <1>3, <2>1 DEF CountFallback, Throw
<1>4. CASE InsertRow(c)
  <2>1. faults' \in 0..MaxFaults
    BY <1>4, FaultKeeps DEF InsertRow
  <2>2. CASE /\ spent' = [spent EXCEPT ![BilledTo[c]] = @ + bill[c]]
             /\ today' = [today EXCEPT ![BilledTo[c]] = @ + bill[c]]
             /\ rows' = [rows EXCEPT ![c] = @ \cup {source[c]}]
             /\ Goto(c, IF HasBus THEN "total" ELSE "answered")
    <3>1. /\ spent' \in [Project -> Nat] /\ today' \in [Project -> Nat]
          /\ \A p \in Project : today'[p] <= spent'[p]
      BY <1>b, <1>t, <2>2
    <3>2. source[c] \in answered[c] /\ source[c] \in Model
      BY <1>4 DEF InsertRow
    <3> QED
      BY <1>4, <2>1, <2>2, <3>1, <3>2 DEF InsertRow
  <2>3. CASE Throw(c) /\ UNCHANGED <<ledger, rows>>
    BY <1>4, <2>1, <2>3 DEF InsertRow, Throw
  <2> QED
    BY <1>4, <2>2, <2>3 DEF InsertRow
<1>5. CASE CountTotal(c)
  <2>1. faults' \in 0..MaxFaults /\ total' \in Nat
    BY <1>5, <1>b, FaultKeeps DEF CountTotal
  <2> QED
    BY <1>5, <2>1 DEF CountTotal, Throw
<1>6. CASE CountProject(c)
  <2>1. faults' \in 0..MaxFaults
    BY <1>6, FaultKeeps DEF CountProject
  <2>2. counted' \in [Project -> Nat]
    BY <1>6, <1>b DEF CountProject
  <2> QED
    BY <1>6, <2>1, <2>2 DEF CountProject, Throw
<1> QED
  BY <1>1, <1>2, <1>3, <1>4, <1>5, <1>6 DEF Call

LEMMA MidnightKeeps == CallInv /\ Midnight => CallInv'
  BY Amounts DEF CallInv, TypeOK, PaidOnTheWay, DayWithinMonth, Midnight, call, metrics

LEMMA EvictKeeps == CallInv /\ Evict => CallInv'
  BY DEF CallInv, TypeOK, PaidOnTheWay, DayWithinMonth, Evict, call, ledger

LEMMA CallInvStays == CallInv /\ UNCHANGED mvars => CallInv'
  BY DEF CallInv, TypeOK, PaidOnTheWay, DayWithinMonth, mvars, call, ledger, metrics

LEMMA CallInvPays == CallInv => TypeOK /\ AnswersArePaid
  BY DEF CallInv, AnswersArePaid, PaidOnTheWay

LEMMA CallInvStep == CallInv /\ [Next]_mvars => CallInv'
<1> SUFFICES ASSUME CallInv, [Next]_mvars PROVE CallInv'
  OBVIOUS
<1>1. ASSUME NEW c \in Caller, Ask(c), UNCHANGED faults PROVE CallInv'
  <2>1. faults' \in 0..MaxFaults
    BY <1>1 DEF CallInv, TypeOK
  <2> QED
    BY <1>1, <2>1, AskKeeps
<1> QED
  BY <1>1, CallKeeps, EvictKeeps, CallInvStays DEF Next

LEMMA CallInvAlways == Spec => []CallInv
  BY CallInvInit, CallInvStep, PTL DEF Spec

-----------------------------------------------------------------------------
(* The metrics and the ledger *)

\* Of the bill of a call, what is in the ledger and not in the project's counter,
\* not in the total, and in the total but not in the project's counter.
Uncounted == [c \in Caller |-> IF point[c] \in {"total", "project"} THEN bill[c] ELSE 0]
Untotalled == [c \in Caller |-> IF point[c] = "total" THEN bill[c] ELSE 0]
Halfway == [c \in Caller |-> IF point[c] = "project" THEN bill[c] ELSE 0]

\* The metrics are behind the ledger by the bills on their way from one to the
\* other at least. MetricsLagLedger is not inductive without them.
Behind ==
  /\ \A p \in Project : counted[p] + SumOver(Uncounted, CallersOf(p)) <= spent[p]
  /\ total + SumOver(Untotalled, Caller) <= SumOver(spent, Project)
  /\ SumOver(counted, Project) + SumOver(Halfway, Caller) <= total + evicted

LEMMA FiniteParties ==
  /\ IsFiniteSet(Caller) /\ IsFiniteSet(Project)
  /\ \A p \in Project : IsFiniteSet(CallersOf(p))
<1>1. IsFiniteSet(Caller) /\ IsFiniteSet(Project)
  BY ModelCallsAssumption
<1>2. \A p \in Project : CallersOf(p) \in SUBSET Caller
  BY DEF CallersOf
<1> QED
  BY <1>1, <1>2, FS_Subset

LEMMA BillsOnTheWay ==
  ASSUME CallInv
  PROVE  \A c \in Caller : /\ Uncounted[c] \in Nat /\ Untotalled[c] \in Nat /\ Halfway[c] \in Nat
                           /\ bill[c] \in Nat
<1>1. \A c \in Caller : bill[c] \in Nat
  BY Amounts DEF CallInv, TypeOK
<1> QED
  BY <1>1 DEF Uncounted, Untotalled, Halfway

LEMMA SumsOfBills ==
  ASSUME CallInv
  PROVE  /\ \A p \in Project : SumOver(Uncounted, CallersOf(p)) \in Nat
         /\ SumOver(Untotalled, Caller) \in Nat /\ SumOver(Halfway, Caller) \in Nat
         /\ SumOver(spent, Project) \in Nat /\ SumOver(counted, Project) \in Nat
<1>1. \A p \in Project : SumOver(Uncounted, CallersOf(p)) \in Nat
  <2> TAKE p \in Project
  <2>1. \A c \in CallersOf(p) : Uncounted[c] \in Nat
    BY BillsOnTheWay DEF CallersOf
  <2> QED
    BY <2>1, FiniteParties, SumIsFinite
<1>2. SumOver(Untotalled, Caller) \in Nat /\ SumOver(Halfway, Caller) \in Nat
  BY BillsOnTheWay, FiniteParties, SumIsFinite
<1>3. SumOver(spent, Project) \in Nat /\ SumOver(counted, Project) \in Nat
  <2>1. \A p \in Project : counted[p] \in Nat /\ spent[p] \in Nat
    BY DEF CallInv, TypeOK
  <2> QED
    BY <2>1, FiniteParties, SumIsFinite
<1> QED
  BY <1>1, <1>2, <1>3

\* Raising one project's amount raises the sum over the projects by as much.
LEMMA OneProjectRaised ==
  ASSUME NEW f \in [Project -> Nat], NEW g \in [Project -> Nat], NEW b \in Project, NEW k \in Nat,
         \A p \in Project : g[p] = IF p = b THEN f[p] + k ELSE f[p]
  PROVE  SumOver(f, Project) \in Nat /\ SumOver(g, Project) = SumOver(f, Project) + k
<1>1. /\ SumOver(f, Project) \in Nat /\ SumOver(g, Project) \in Nat
      /\ SumOver(g, Project) + f[b] = SumOver(f, Project) + g[b]
  BY FiniteParties, SumWithOneChanged
<1>2. f[b] \in Nat /\ g[b] = f[b] + k
  OBVIOUS
<1> QED
  BY <1>1, <1>2

\* A step of one call that puts ds into the ledger, dt into the total and dc into
\* its project's counter, and no more into one than its bill allows.
LEMMA BehindKept ==
  ASSUME CallInv, CallInv', Behind, NEW c \in Caller,
         \A d \in Caller \ {c} : point'[d] = point[d] /\ bill'[d] = bill[d],
         NEW ds \in Nat, NEW dt \in Nat, NEW dc \in Nat,
         \A p \in Project : spent'[p] = IF p = BilledTo[c] THEN spent[p] + ds ELSE spent[p],
         \A p \in Project : counted'[p] = IF p = BilledTo[c] THEN counted[p] + dc ELSE counted[p],
         total' = total + dt, evicted' = evicted,
         Uncounted'[c] + dc <= Uncounted[c] + ds,
         Untotalled'[c] + dt <= Untotalled[c] + ds,
         Halfway'[c] + dc <= Halfway[c] + dt
  PROVE  Behind'
<1>t. /\ spent \in [Project -> Nat] /\ spent' \in [Project -> Nat]
      /\ counted \in [Project -> Nat] /\ counted' \in [Project -> Nat]
      /\ total \in Nat /\ evicted \in Nat /\ BilledTo[c] \in Project
  BY Amounts DEF CallInv, TypeOK
<1>f. \A d \in Caller \ {c} : /\ Uncounted'[d] = Uncounted[d] /\ Untotalled'[d] = Untotalled[d]
                              /\ Halfway'[d] = Halfway[d]
  BY DEF Uncounted, Untotalled, Halfway
<1>n. /\ \A d \in Caller : Uncounted[d] \in Nat /\ Untotalled[d] \in Nat /\ Halfway[d] \in Nat
      /\ Uncounted'[c] \in Nat /\ Untotalled'[c] \in Nat /\ Halfway'[c] \in Nat
  <2>1. \A d \in Caller : bill'[d] \in Nat
    BY Amounts DEF CallInv, TypeOK
  <2> QED
    BY <2>1, BillsOnTheWay DEF Uncounted, Untotalled, Halfway
<1>1. ASSUME NEW p \in Project
      PROVE  counted'[p] + SumOver(Uncounted', CallersOf(p)) <= spent'[p]
  <2>0. /\ counted[p] + SumOver(Uncounted, CallersOf(p)) <= spent[p]
        /\ counted[p] \in Nat /\ spent[p] \in Nat
    BY <1>t DEF Behind
  <2>1. CASE p = BilledTo[c]
    <3>1. c \in CallersOf(p) /\ CallersOf(p) \subseteq Caller /\ IsFiniteSet(CallersOf(p))
      BY <2>1, FiniteParties DEF CallersOf
    <3>2. /\ \A x \in CallersOf(p) : Uncounted[x] \in Nat
          /\ \A x \in CallersOf(p) \ {c} : Uncounted'[x] = Uncounted[x]
      BY <1>f, <1>n, <3>1
    <3>3. /\ SumOver(Uncounted, CallersOf(p)) \in Nat /\ SumOver(Uncounted', CallersOf(p)) \in Nat
          /\ SumOver(Uncounted', CallersOf(p)) + Uncounted[c]
               = SumOver(Uncounted, CallersOf(p)) + Uncounted'[c]
      BY <1>n, <3>1, <3>2, SumWithOneChanged
    <3>4. spent'[p] = spent[p] + ds /\ counted'[p] = counted[p] + dc
      BY <2>1
    <3> QED
      BY <1>n, <2>0, <3>3, <3>4
  <2>2. CASE p # BilledTo[c]
    <3>1. \A x \in CallersOf(p) : Uncounted'[x] = Uncounted[x]
      BY <1>f, <2>2 DEF CallersOf
    <3>2. SumOver(Uncounted', CallersOf(p)) = SumOver(Uncounted, CallersOf(p))
      BY <3>1, SumOfSame
    <3> QED
      BY <2>0, <2>2, <3>2
  <2> QED
    BY <2>1, <2>2
<1>2. total' + SumOver(Untotalled', Caller) <= SumOver(spent', Project)
  <2>1. SumOver(spent, Project) \in Nat /\ SumOver(spent', Project) = SumOver(spent, Project) + ds
    BY <1>t, OneProjectRaised
  <2>2. /\ SumOver(Untotalled, Caller) \in Nat /\ SumOver(Untotalled', Caller) \in Nat
        /\ SumOver(Untotalled', Caller) + Untotalled[c] = SumOver(Untotalled, Caller) + Untotalled'[c]
    BY <1>f, <1>n, FiniteParties, SumWithOneChanged
  <2>3. total + SumOver(Untotalled, Caller) <= SumOver(spent, Project)
    BY DEF Behind
  <2> QED
    BY <1>t, <1>n, <2>1, <2>2, <2>3
<1>3. SumOver(counted', Project) + SumOver(Halfway', Caller) <= total' + evicted'
  <2>1. SumOver(counted, Project) \in Nat /\ SumOver(counted', Project) = SumOver(counted, Project) + dc
    BY <1>t, OneProjectRaised
  <2>2. /\ SumOver(Halfway, Caller) \in Nat /\ SumOver(Halfway', Caller) \in Nat
        /\ SumOver(Halfway', Caller) + Halfway[c] = SumOver(Halfway, Caller) + Halfway'[c]
    BY <1>f, <1>n, FiniteParties, SumWithOneChanged
  <2>3. SumOver(counted, Project) + SumOver(Halfway, Caller) <= total + evicted
    BY DEF Behind
  <2> QED
    BY <1>t, <1>n, <2>1, <2>2, <2>3
<1> QED
  BY <1>1, <1>2, <1>3 DEF Behind

\* A step of a call that does not touch the ledger or the metrics, and puts no
\* bill on its way.
LEMMA BehindStays ==
  ASSUME CallInv, CallInv', Behind, NEW c \in Caller, UNCHANGED <<ledger, metrics>>,
         \A d \in Caller \ {c} : point'[d] = point[d] /\ bill'[d] = bill[d],
         point'[c] \notin {"total", "project"}
  PROVE  Behind'
<1>1. Uncounted'[c] = 0 /\ Untotalled'[c] = 0 /\ Halfway'[c] = 0
  BY DEF Uncounted, Untotalled, Halfway
<1>2. Uncounted[c] \in Nat /\ Untotalled[c] \in Nat /\ Halfway[c] \in Nat
  BY BillsOnTheWay
<1>3. /\ spent \in [Project -> Nat] /\ counted \in [Project -> Nat] /\ total \in Nat
      /\ spent' = spent /\ counted' = counted /\ total' = total /\ evicted' = evicted
  BY DEF CallInv, TypeOK, ledger, metrics
<1>4. /\ \A p \in Project : spent'[p] = IF p = BilledTo[c] THEN spent[p] + 0 ELSE spent[p]
      /\ \A p \in Project : counted'[p] = IF p = BilledTo[c] THEN counted[p] + 0 ELSE counted[p]
      /\ total' = total + 0 /\ evicted' = evicted
  BY <1>3
<1>5. /\ Uncounted'[c] + 0 <= Uncounted[c] + 0 /\ Untotalled'[c] + 0 <= Untotalled[c] + 0
      /\ Halfway'[c] + 0 <= Halfway[c] + 0
  BY <1>1, <1>2
<1> QED
  BY <1>4, <1>5, 0 \in Nat, BehindKept

LEMMA CallKeepsBehind ==
  ASSUME CallInv, Behind, NEW c \in Caller, Call(c)
  PROVE  Behind'
<1>i. CallInv'
  BY CallKeeps
<1>t. /\ point \in [Caller -> AtRest \cup Waiting] /\ bill \in [Caller -> Nat]
      /\ spent \in [Project -> Nat] /\ counted \in [Project -> Nat] /\ total \in Nat
      /\ bill[c] \in Nat /\ BilledTo[c] \in Project
  BY Amounts DEF CallInv, TypeOK
<1>1. CASE Primary(c) \/ Ollama(c) \/ CountFallback(c)
  <2>1. /\ UNCHANGED <<ledger, metrics>>
        /\ \A d \in Caller \ {c} : point'[d] = point[d] /\ bill'[d] = bill[d]
        /\ point'[c] \notin {"total", "project"}
    BY <1>1, <1>t DEF Primary, Ollama, CountFallback, Answers, Throw, Goto, call, ledger, metrics
  <2> QED
    BY <1>i, <2>1, BehindStays
<1>2. CASE InsertRow(c)
  <2>1. \A d \in Caller \ {c} : point'[d] = point[d] /\ bill'[d] = bill[d]
    BY <1>2, <1>t DEF InsertRow, Goto, Throw
  <2>2. CASE Goto(c, IF HasBus THEN "total" ELSE "answered")
             /\ spent' = [spent EXCEPT ![BilledTo[c]] = @ + bill[c]]
    <3>1. /\ Uncounted'[c] + 0 <= Uncounted[c] + bill[c]
          /\ Untotalled'[c] + 0 <= Untotalled[c] + bill[c]
          /\ Halfway'[c] + 0 <= Halfway[c] + 0
      BY <1>2, <1>t, <2>2 DEF InsertRow, Goto, Uncounted, Untotalled, Halfway
    <3>2. /\ \A p \in Project : spent'[p] = IF p = BilledTo[c] THEN spent[p] + bill[c] ELSE spent[p]
          /\ \A p \in Project :
               counted'[p] = IF p = BilledTo[c] THEN counted[p] + 0 ELSE counted[p]
          /\ total' = total + 0 /\ evicted' = evicted
      BY <1>2, <1>t, <2>2 DEF InsertRow, metrics
    <3> QED
      BY <1>i, <1>t, <2>1, <3>1, <3>2, 0 \in Nat, BehindKept
  <2>3. CASE Throw(c) /\ UNCHANGED <<ledger, rows>>
    <3>1. UNCHANGED <<ledger, metrics>> /\ point'[c] \notin {"total", "project"}
      BY <1>2, <1>t, <2>3 DEF InsertRow, Throw, Goto
    <3> QED
      BY <1>i, <2>1, <3>1, BehindStays
  <2> QED
    BY <1>2, <2>2, <2>3 DEF InsertRow
<1>3. CASE CountTotal(c)
  <2>1. \A d \in Caller \ {c} : point'[d] = point[d] /\ bill'[d] = bill[d]
    BY <1>3, <1>t DEF CountTotal, Goto, Throw, call
  <2>2. CASE Goto(c, "project") /\ total' = total + bill[c]
    <3>1. /\ Uncounted'[c] + 0 <= Uncounted[c] + 0
          /\ Untotalled'[c] + bill[c] <= Untotalled[c] + 0
          /\ Halfway'[c] + 0 <= Halfway[c] + bill[c]
      BY <1>3, <1>t, <2>2 DEF CountTotal, Goto, Uncounted, Untotalled, Halfway, call
    <3>2. /\ \A p \in Project : spent'[p] = IF p = BilledTo[c] THEN spent[p] + 0 ELSE spent[p]
          /\ \A p \in Project :
               counted'[p] = IF p = BilledTo[c] THEN counted[p] + 0 ELSE counted[p]
          /\ evicted' = evicted
      BY <1>3, <1>t DEF CountTotal, ledger
    <3> QED
      BY <1>i, <1>t, <2>1, <2>2, <3>1, <3>2, 0 \in Nat, BehindKept
  <2>3. CASE Throw(c) /\ UNCHANGED total
    <3>1. UNCHANGED <<ledger, metrics>> /\ point'[c] \notin {"total", "project"}
      BY <1>3, <1>t, <2>3 DEF CountTotal, Throw, Goto, metrics
    <3> QED
      BY <1>i, <2>1, <3>1, BehindStays
  <2> QED
    BY <1>3, <2>2, <2>3 DEF CountTotal
<1>4. CASE CountProject(c)
  <2>1. \A d \in Caller \ {c} : point'[d] = point[d] /\ bill'[d] = bill[d]
    BY <1>4, <1>t DEF CountProject, Goto, Throw, call
  <2>2. CASE Goto(c, "answered") /\ counted' = [counted EXCEPT ![BilledTo[c]] = @ + bill[c]]
    <3>1. /\ Uncounted'[c] + bill[c] <= Uncounted[c] + 0
          /\ Untotalled'[c] + 0 <= Untotalled[c] + 0
          /\ Halfway'[c] + bill[c] <= Halfway[c] + 0
      BY <1>4, <1>t, <2>2 DEF CountProject, Goto, Uncounted, Untotalled, Halfway, call
    <3>2. /\ \A p \in Project : spent'[p] = IF p = BilledTo[c] THEN spent[p] + 0 ELSE spent[p]
          /\ \A p \in Project :
               counted'[p] = IF p = BilledTo[c] THEN counted[p] + bill[c] ELSE counted[p]
          /\ total' = total + 0 /\ evicted' = evicted
      BY <1>4, <1>t, <2>2 DEF CountProject, ledger
    <3> QED
      BY <1>i, <1>t, <2>1, <3>1, <3>2, 0 \in Nat, BehindKept
  <2>3. CASE Throw(c) /\ UNCHANGED counted
    <3>1. UNCHANGED <<ledger, metrics>> /\ point'[c] \notin {"total", "project"}
      BY <1>4, <1>t, <2>3 DEF CountProject, Throw, Goto, metrics
    <3> QED
      BY <1>i, <2>1, <3>1, BehindStays
  <2> QED
    BY <1>4, <2>2, <2>3 DEF CountProject
<1> QED
  BY <1>1, <1>2, <1>3, <1>4 DEF Call

LEMMA AskKeepsBehind ==
  ASSUME CallInv, CallInv', Behind, NEW c \in Caller, Ask(c)
  PROVE  Behind'
<1>1. /\ UNCHANGED <<ledger, metrics>>
      /\ \A d \in Caller \ {c} : point'[d] = point[d] /\ bill'[d] = bill[d]
      /\ point'[c] \notin {"total", "project"}
  BY DEF Ask, Goto, CallInv, TypeOK
<1> QED
  BY <1>1, BehindStays

\* An evicted counter shows less, and what is missing from the total is remembered.
LEMMA EvictKeepsBehind ==
  ASSUME CallInv, Behind, Evict
  PROVE  Behind'
<1>t. /\ counted \in [Project -> Nat] /\ spent \in [Project -> Nat]
      /\ total \in Nat /\ evicted \in Nat
  BY DEF CallInv, TypeOK
<1>u. /\ UNCHANGED <<point, bill, spent>>
      /\ Uncounted' = Uncounted /\ Untotalled' = Untotalled /\ Halfway' = Halfway
  BY DEF Evict, call, ledger, Uncounted, Untotalled, Halfway
<1>s. /\ \A p \in Project : SumOver(Uncounted, CallersOf(p)) \in Nat
      /\ SumOver(Untotalled, Caller) \in Nat /\ SumOver(Halfway, Caller) \in Nat
      /\ SumOver(spent, Project) \in Nat /\ SumOver(counted, Project) \in Nat
  BY SumsOfBills
<1>1. CASE total' = 0 /\ evicted' = evicted + total /\ UNCHANGED counted
  <2>1. /\ \A p \in Project : counted[p] + SumOver(Uncounted, CallersOf(p)) <= spent[p]
        /\ total + SumOver(Untotalled, Caller) <= SumOver(spent, Project)
        /\ SumOver(counted, Project) + SumOver(Halfway, Caller) <= total + evicted
    BY DEF Behind
  <2> QED
    BY <1>t, <1>u, <1>s, <1>1, <2>1 DEF Behind
<1>2. ASSUME NEW p \in Project, counted' = [counted EXCEPT ![p] = 0], UNCHANGED <<total, evicted>>
      PROVE  Behind'
  <2>1. ASSUME NEW q \in Project
        PROVE  counted'[q] + SumOver(Uncounted', CallersOf(q)) <= spent'[q]
    <3>1. counted'[q] \in Nat /\ counted'[q] <= counted[q] /\ counted[q] \in Nat /\ spent[q] \in Nat
      BY <1>t, <1>2
    <3>2. counted[q] + SumOver(Uncounted, CallersOf(q)) <= spent[q]
      BY DEF Behind
    <3>3. counted'[q] + SumOver(Uncounted, CallersOf(q)) <= spent[q]
      BY <1>s, <3>1, <3>2
    <3> QED
      BY <1>u, <3>3
  <2>2. SumOver(counted', Project) \in Nat /\ SumOver(counted', Project) <= SumOver(counted, Project)
    <3>1. \A q \in Project \ {p} : counted'[q] = counted[q]
      BY <1>t, <1>2
    <3>2. counted'[p] = 0 /\ counted[p] \in Nat
      BY <1>t, <1>2
    <3>3. /\ SumOver(counted', Project) \in Nat
          /\ SumOver(counted', Project) + counted[p] = SumOver(counted, Project) + counted'[p]
      BY <1>t, <3>1, <3>2, FiniteParties, SumWithOneChanged
    <3> QED
      BY <1>s, <3>2, <3>3
  <2>3. SumOver(counted', Project) + SumOver(Halfway', Caller) <= total' + evicted'
    <3>1. SumOver(counted, Project) + SumOver(Halfway, Caller) <= total + evicted
      BY DEF Behind
    <3>2. SumOver(counted', Project) + SumOver(Halfway, Caller) <= total + evicted
      BY <1>t, <1>s, <2>2, <3>1
    <3> QED
      BY <1>u, <1>2, <3>2
  <2>4. total' + SumOver(Untotalled', Caller) <= SumOver(spent', Project)
    BY <1>u, <1>2 DEF Behind
  <2> QED
    BY <2>1, <2>3, <2>4 DEF Behind
<1> QED
  BY <1>1, <1>2 DEF Evict

LEMMA BehindStep == CallInv /\ Behind /\ [Next]_mvars => Behind'
<1> SUFFICES ASSUME CallInv, Behind, [Next]_mvars PROVE Behind'
  OBVIOUS
<1>1. CallInv'
  BY CallInvStep
<1>2. CASE UNCHANGED mvars
  <2>1. UNCHANGED <<point, bill, spent, counted, total, evicted>>
    BY <1>2 DEF mvars, call, ledger, metrics
  <2> QED
    BY <2>1 DEF Behind, Uncounted, Untotalled, Halfway
<1>3. ASSUME NEW c \in Caller, Ask(c) PROVE Behind'
  BY <1>1, <1>3, AskKeepsBehind
<1>4. ASSUME NEW c \in Caller, Call(c) PROVE Behind'
  BY <1>4, CallKeepsBehind
<1> QED
  BY <1>2, <1>3, <1>4, EvictKeepsBehind DEF Next

LEMMA BehindInit == Init => Behind
<1> SUFFICES ASSUME Init PROVE Behind
  OBVIOUS
<1>1. /\ \A c \in Caller : Uncounted[c] = 0 /\ Untotalled[c] = 0 /\ Halfway[c] = 0
      /\ \A p \in Project : counted[p] = 0 /\ spent[p] = 0
      /\ total = 0 /\ evicted = 0
  BY DEF Init, Uncounted, Untotalled, Halfway
<1>2. \A p \in Project : SumOver(Uncounted, CallersOf(p)) = 0
  <2> TAKE p \in Project
  <2>1. \A c \in CallersOf(p) : Uncounted[c] = 0
    BY <1>1 DEF CallersOf
  <2> QED
    BY <2>1, SumOfZeros
<1>3. /\ SumOver(Untotalled, Caller) = 0 /\ SumOver(Halfway, Caller) = 0
      /\ SumOver(counted, Project) = 0 /\ SumOver(spent, Project) = 0
  BY <1>1, SumOfZeros
<1> QED
  BY <1>1, <1>2, <1>3 DEF Behind

LEMMA BehindLags == CallInv /\ Behind => MetricsLagLedger
<1> SUFFICES ASSUME CallInv, Behind PROVE MetricsLagLedger
  OBVIOUS
<1>1. /\ total \in Nat /\ evicted \in Nat
      /\ \A p \in Project : counted[p] \in Nat /\ spent[p] \in Nat
  BY DEF CallInv, TypeOK
<1> QED
  BY <1>1, SumsOfBills DEF Behind, MetricsLagLedger

\* The ledger, the counters and the locals of every call keep their types.
\* (ModelClient, TokenEconomics)
THEOREM TypesKept == Spec => []TypeOK
  BY CallInvAlways, CallInvPays, PTL

\* However calls interleave and fail, an answer that a caller gets is in the
\* ledger under the model that gave it, and no model is in it that gave none.
\* (generateOrchestratorResponse, recordCost)
THEOREM PaidAnswers == Spec => []AnswersArePaid
  BY CallInvAlways, CallInvPays, PTL

\* However the recordings of different callers interleave and fail, a project's
\* counter never shows more than its ledger, nor the total more than all the
\* ledgers, nor the projects' counters together more than the total and what
\* Redis has evicted of it. Any counter may be evicted at any time.
\* (recordCost, INCRBY after INSERT)
THEOREM MetricsBehindLedger == Spec => []MetricsLagLedger
<1>1. Spec => []Behind
  BY BehindInit, BehindStep, CallInvAlways, PTL DEF Spec
<1> QED
  BY <1>1, BehindLags, CallInvAlways, PTL
=============================================================================
