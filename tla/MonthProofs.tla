---------------------------- MODULE MonthProofs ----------------------------
(***************************************************************************)
(* Proofs about a month of the budget, for any number of months.  First    *)
(* the sums BudgetView takes over the records and assignments, for any     *)
(* envelopes, records, amounts and goals.  Then the screen that shows the  *)
(* month and moves its money, MoveDesk, for any number of keys and         *)
(* requests.                                                               *)
(*                                                                         *)
(* The screen's argument: one request at most is without an answer         *)
(* (CallInv), it is the open form's (FormInv), a form has at most one key  *)
(* that has moved money or still may (OnceInv), and what was sent under    *)
(* the form's key is what it still says (IntentInv).  What is owed to a    *)
(* month is in its figures, or the screen knows why not (FreshInv).        *)
(***************************************************************************)
EXTENDS BudgetView, MoveDesk, FiniteSetTheorems, TLAPS

Pure == INSTANCE PureProofs WITH None <- NoMonth

-----------------------------------------------------------------------------
(* Sums, of which PureProofs speaks through its own instances. *)

LEMMA SameSum ==
  ASSUME NEW f, NEW D PROVE SumFunctionOnSet(f, D) = Pure!SumFunctionOnSet(f, D)
BY DEF SumFunctionOnSet, FoldFunctionOnSet, MapThenFoldSet,
       Pure!SumFunctionOnSet, Pure!FoldFunctionOnSet, Pure!MapThenFoldSet

LEMMA SameFinite == ASSUME NEW D PROVE IsFiniteSet(D) = Pure!IsFiniteSet(D)
BY DEF IsFiniteSet, Pure!IsFiniteSet

LEMMA SumIsInt ==
  ASSUME NEW D, IsFiniteSet(D), NEW f, \A x \in D : f[x] \in Int
  PROVE  SumFunctionOnSet(f, D) \in Int
BY SameFinite, SameSum, Pure!SumIsInt

LEMMA SumAgrees ==
  ASSUME NEW D, IsFiniteSet(D), NEW f, NEW g, \A x \in D : f[x] = g[x]
  PROVE  SumFunctionOnSet(f, D) = SumFunctionOnSet(g, D)
<1>1. Pure!IsFiniteSet(D)
  BY SameFinite
<1> QED BY <1>1, SameSum, Pure!SumAgrees

LEMMA SumSplits ==
  ASSUME NEW D, IsFiniteSet(D), NEW f, \A x \in D : f[x] \in Int, NEW x \in D
  PROVE  SumFunctionOnSet(f, D) = f[x] + SumFunctionOnSet(f, D \ {x})
<1>1. Pure!IsFiniteSet(D)
  BY SameFinite
<1> QED BY <1>1, SameSum, Pure!SumSplits

LEMMA SumOfParts ==
  ASSUME NEW D, IsFiniteSet(D), NEW f, \A x \in D : f[x] \in Int, NEW P \in SUBSET D
  PROVE  SumFunctionOnSet(f, D) = SumFunctionOnSet(f, P) + SumFunctionOnSet(f, D \ P)
<1>1. Pure!IsFiniteSet(D)
  BY SameFinite
<1> QED BY <1>1, SameSum, Pure!SumOfParts

LEMMA SumAdds ==
  ASSUME NEW D, IsFiniteSet(D), NEW f, NEW g, NEW h,
         \A x \in D : f[x] \in Int /\ g[x] \in Int /\ h[x] = f[x] + g[x]
  PROVE  SumFunctionOnSet(h, D) = SumFunctionOnSet(f, D) + SumFunctionOnSet(g, D)
<1>1. Pure!IsFiniteSet(D)
  BY SameFinite
<1> QED BY <1>1, SameSum, Pure!SumAdds

-----------------------------------------------------------------------------
(* What is stored *)

Typed ==
  /\ assigned \in [Categories -> [Months -> Int]]
  /\ records \in [Ids -> Record \union {Absent}]
  /\ goal \in Goals

LEMMA InitTyped == Init => Typed
BY DEF Init, Typed

LEMMA NextTyped == Typed /\ [Next]_vars => Typed'
<1> SUFFICES ASSUME Typed, [Next]_vars PROVE Typed'
  OBVIOUS
<1>1. ASSUME NEW from \in Categories \union {Pool}, NEW to \in Categories \union {Pool},
             NEW m \in Months, NEW x \in Given, Move(from, to, m, x)
      PROVE  Typed'
  <2>1. x \in Int
    BY ViewAssumption
  <2>2. \A c \in Categories : [assigned[c] EXCEPT
            ![m] = @ + (IF c = to THEN x ELSE IF c = from THEN -x ELSE 0)] \in [Months -> Int]
    BY <2>1 DEF Typed
  <2> QED BY <1>1, <2>2 DEF Move, Typed
<1>2. ASSUME NEW i \in Ids, Drop(i) PROVE Typed'
  BY <1>2 DEF Drop, Typed
<1>3. ASSUME NEW i \in Ids, NEW r \in Record, Keep(i, r) PROVE Typed'
  BY <1>3 DEF Keep, Typed
<1>4. CASE UNCHANGED vars
  BY <1>4 DEF vars, Typed
<1> QED BY <1>1, <1>2, <1>3, <1>4 DEF Next

LEMMA FiniteMonths == Months \subseteq Int /\ \A M \in SUBSET Months : IsFiniteSet(M)
<1>1. 1 \in Int /\ Last \in Int
  BY ViewAssumption
<1>2. IsFiniteSet(Months)
  BY <1>1, FS_Interval DEF Months
<1>3. Months \subseteq Int
  BY <1>1 DEF Months
<1> QED BY <1>2, <1>3, FS_Subset

LEMMA SpentIsInt == ASSUME Typed, NEW c, NEW M PROVE Spent(c, M) \in Int
<1>1. \A i \in Filed(c, M) : records[i].amount \in Int
  BY ViewAssumption DEF Filed, Typed, Record
<1>2. IsFiniteSet(Filed(c, M))
  BY ViewAssumption, FS_Subset DEF Filed
<1> DEFINE f == [i \in Filed(c, M) |-> records[i].amount]
<1>3. SumFunctionOnSet(f, Filed(c, M)) \in Int
  BY <1>1, <1>2, SumIsInt
<1> QED BY <1>3 DEF Spent, SumFunction

LEMMA LaidIsInt ==
  ASSUME NEW a \in [Months -> Int], NEW M \in SUBSET Months PROVE Laid(a, M) \in Int
BY FiniteMonths, SumIsInt DEF Laid

\* What one month is given more, the sums over it hold more.
LEMMA LaidOnce ==
  ASSUME NEW f \in [Months -> Int], NEW g \in [Months -> Int], NEW M \in SUBSET Months,
         NEW k \in Months, \A l \in Months \ {k} : g[l] = f[l]
  PROVE  /\ k \in M => Laid(g, M) = Laid(f, M) + (g[k] - f[k])
         /\ k \notin M => Laid(g, M) = Laid(f, M)
<1>1. IsFiniteSet(M) /\ IsFiniteSet(M \ {k})
  BY FiniteMonths
<1>2. SumFunctionOnSet(f, M \ {k}) \in Int
  BY <1>1, SumIsInt
<1>3. CASE k \in M
  <2>1. SumFunctionOnSet(g, M) = g[k] + SumFunctionOnSet(g, M \ {k})
    BY <1>1, <1>3, SumSplits
  <2>2. SumFunctionOnSet(f, M) = f[k] + SumFunctionOnSet(f, M \ {k})
    BY <1>1, <1>3, SumSplits
  <2>3. SumFunctionOnSet(g, M \ {k}) = SumFunctionOnSet(f, M \ {k})
    BY <1>1, SumAgrees
  <2>4. f[k] \in Int /\ g[k] \in Int
    OBVIOUS
  <2> QED BY <1>2, <1>3, <2>1, <2>2, <2>3, <2>4 DEF Laid
<1>4. CASE k \notin M
  BY <1>1, <1>4, SumAgrees DEF Laid
<1> QED BY <1>3, <1>4

-----------------------------------------------------------------------------
(* All the money *)

\* What a category is assigned is assigned up to a month or after it.
LEMMA LaidInTime ==
  ASSUME NEW a \in [Months -> Int], NEW m \in Months
  PROVE  /\ Upto(m) \in SUBSET Months /\ After(m) \in SUBSET Months
         /\ Laid(a, Months) = Laid(a, Upto(m)) + Laid(a, After(m))
<1>1. Months = 1..Last /\ Last \in Nat /\ m \in 1..Last
  BY ViewAssumption DEF Months
<1>2. /\ Upto(m) \in SUBSET Months /\ After(m) \in SUBSET Months
      /\ After(m) = Months \ Upto(m)
  BY <1>1 DEF Upto, After
<1>3. Laid(a, Months) = Laid(a, Upto(m)) + Laid(a, Months \ Upto(m))
  BY <1>2, FiniteMonths, SumOfParts DEF Laid
<1> QED BY <1>2, <1>3

\* Whatever is assigned and recorded in whatever month, in every month what the envelopes hold,
\* what is ready to assign and what later months were assigned are together the money there is.
THEOREM NoMoneyIsLost == Spec => []MoneyHasAJob
<1>1. Typed => MoneyHasAJob
  <2> SUFFICES ASSUME Typed, NEW m \in Months
      PROVE  ReadyToAssign + SumFunction([c \in Categories |-> Available(assigned[c], c, m)])
                           + SumFunction([c \in Categories |-> Laid(assigned[c], After(m))])
               = Spent(Pool, Months) + SumFunction([c \in Categories |-> Spent(c, Upto(m))])
    BY DEF MoneyHasAJob
  <2> DEFINE laid == [c \in Categories |-> Laid(assigned[c], Months)]
             ahead == [c \in Categories |-> Laid(assigned[c], After(m))]
             spent == [c \in Categories |-> Spent(c, Upto(m))]
             held == [c \in Categories |-> Available(assigned[c], c, m)]
             both == [c \in Categories |-> held[c] + ahead[c]]
  <2>1. \A c \in Categories :
          /\ laid[c] \in Int /\ spent[c] \in Int /\ held[c] \in Int /\ ahead[c] \in Int
          /\ both[c] = laid[c] + spent[c] /\ both[c] = held[c] + ahead[c]
    <3> SUFFICES ASSUME NEW c \in Categories
        PROVE  /\ laid[c] \in Int /\ spent[c] \in Int /\ held[c] \in Int /\ ahead[c] \in Int
               /\ both[c] = laid[c] + spent[c] /\ both[c] = held[c] + ahead[c]
      OBVIOUS
    <3>1. assigned[c] \in [Months -> Int]
      BY DEF Typed
    <3>2. /\ Laid(assigned[c], Months) = Laid(assigned[c], Upto(m)) + Laid(assigned[c], After(m))
          /\ Laid(assigned[c], Months) \in Int
          /\ Laid(assigned[c], Upto(m)) \in Int /\ Laid(assigned[c], After(m)) \in Int
      BY <3>1, LaidInTime, LaidIsInt
    <3>3. Spent(c, Upto(m)) \in Int
      BY SpentIsInt
    <3> QED BY <3>2, <3>3 DEF Available
  <2>2. /\ DOMAIN laid = Categories /\ DOMAIN spent = Categories /\ DOMAIN held = Categories
        /\ DOMAIN ahead = Categories /\ DOMAIN both = Categories /\ IsFiniteSet(Categories)
    BY ViewAssumption
  <2>3. ReadyToAssign = Spent(Pool, Months) - SumFunction(laid)
    BY DEF ReadyToAssign
  <2> HIDE DEF laid, spent, held, ahead, both
  <2>4. SumFunction(both) = SumFunction(laid) + SumFunction(spent)
    BY <2>1, <2>2, SumAdds DEF SumFunction
  <2>5. SumFunction(both) = SumFunction(held) + SumFunction(ahead)
    BY <2>1, <2>2, SumAdds DEF SumFunction
  <2>6. /\ SumFunction(laid) \in Int /\ SumFunction(spent) \in Int
        /\ SumFunction(held) \in Int /\ SumFunction(ahead) \in Int
    BY <2>1, <2>2, SumIsInt DEF SumFunction
  <2>7. Spent(Pool, Months) \in Int
    BY SpentIsInt
  <2>8. (Spent(Pool, Months) - SumFunction(laid)) + SumFunction(held) + SumFunction(ahead)
          = Spent(Pool, Months) + SumFunction(spent)
    BY <2>4, <2>5, <2>6, <2>7
  <2> QED BY <2>3, <2>8 DEF spent, held, ahead
<1> QED BY <1>1, InitTyped, NextTyped, PTL DEF Spec

-----------------------------------------------------------------------------
(* Months that are over *)

\* A write dated after m: of what is dated up to m nothing is given, spent or taken back.
LaterThan(m) ==
  /\ \A c \in Categories, k \in 1..m : assigned'[c][k] = assigned[c][k]
  /\ \A i \in Ids : records'[i] # records[i] =>
       \A r \in {records[i], records'[i]} : r # Absent => r.month > m

LEMMA SpentBefore ==
  ASSUME NEW m \in Months, LaterThan(m), NEW c, NEW M \in SUBSET (1..m)
  PROVE  Spent(c, M)' = Spent(c, M)
<1>1. \A k \in M : ~(k > m)
  BY FiniteMonths
<1>2. \A i \in Ids : records'[i] = records[i] \/ \A r \in {records[i], records'[i]} :
                      r = Absent \/ r.month \notin M
  BY <1>1 DEF LaterThan
<1>3. Filed(c, M)' = Filed(c, M) /\ \A i \in Filed(c, M) : records'[i] = records[i]
  BY <1>2 DEF Filed
<1>4. [i \in Filed(c, M) |-> records[i].amount]' = [i \in Filed(c, M) |-> records[i].amount]
  BY <1>3
<1>5. SumFunction([i \in Filed(c, M) |-> records[i].amount])'
        = SumFunction([i \in Filed(c, M) |-> records[i].amount])
  BY <1>4
<1> QED BY <1>5 DEF Spent

LEMMA LaidBefore ==
  ASSUME NEW m \in Months, LaterThan(m), NEW c \in Categories, NEW M \in SUBSET (1..m)
  PROVE  Laid(assigned'[c], M) = Laid(assigned[c], M)
<1>1. 1..m \subseteq Months
  BY ViewAssumption DEF Months
<1>2. IsFiniteSet(M) /\ \A k \in M : assigned'[c][k] = assigned[c][k]
  BY <1>1, FiniteMonths DEF LaterThan
<1> QED BY <1>2, SumAgrees DEF Laid

\* The goal a month shows has begun, so all the month's own numbers are sums up to that month.
LEMMA RowBefore ==
  ASSUME NEW m \in Months, LaterThan(m), goal' = goal, NEW c \in Categories, Typed
  PROVE  OfTheMonth(c, m)' = OfTheMonth(c, m)
<1> DEFINE g == goal[c]
           a == assigned[c]
<1>1. Months \subseteq Int /\ Months = 1..Last /\ m \in 1..m
  BY FiniteMonths, ViewAssumption DEF Months
<1>2. g.start \in Months /\ g' = g
  BY GoalsAreRows DEF Typed
<1>3. /\ Upto(m) \in SUBSET (1..m) /\ {m} \in SUBSET (1..m)
      /\ Before(g.start) \in SUBSET (1..m) \/ ~(g.start <= m)
      /\ SinceStart(g, m) \in SUBSET (1..m)
  BY <1>1, <1>2 DEF Upto, Before, SinceStart
<1>4. /\ a'[m] = a[m] /\ Spent(c, {m})' = Spent(c, {m})
      /\ Available(a, c, m)' = Available(a, c, m)
  <2>1. a'[m] = a[m]
    BY <1>1 DEF LaterThan
  <2>2. Spent(c, {m})' = Spent(c, {m})
    BY <1>3, SpentBefore
  <2>3. Spent(c, Upto(m))' = Spent(c, Upto(m)) /\ Laid(a', Upto(m)) = Laid(a, Upto(m))
    BY <1>3, SpentBefore, LaidBefore
  <2> QED BY <2>1, <2>2, <2>3 DEF Available
<1>5. g.start <= m => CarriedIn(a, c, g)' = CarriedIn(a, c, g) /\ Saved(a, c, g, m)' = Saved(a, c, g, m)
  <2> SUFFICES ASSUME g.start <= m
               PROVE  CarriedIn(a, c, g)' = CarriedIn(a, c, g) /\ Saved(a, c, g, m)' = Saved(a, c, g, m)
    OBVIOUS
  <2>1. /\ Spent(c, Before(g.start))' = Spent(c, Before(g.start))
        /\ Laid(a', Before(g.start)) = Laid(a, Before(g.start))
        /\ Laid(a', SinceStart(g, m)) = Laid(a, SinceStart(g, m))
    BY <1>3, SpentBefore, LaidBefore
  <2>2. CarriedIn(a, c, g)' = CarriedIn(a, c, g)
    BY <1>2, <2>1 DEF CarriedIn
  <2> QED BY <1>2, <2>1, <2>2 DEF Saved
<1> HIDE DEF a, g
<1>6. g.start <= m => Answer(a, c, g, m)' = Answer(a, c, g, m)
  BY <1>2, <1>4, <1>5 DEF Answer, RefillTo, Contribute, Accumulate, ByDate, CarriedOver
<1>7. Shown(g, m)' = Shown(g, m) /\ (Shown(g, m) => g.start <= m)
  BY <1>2 DEF Shown
<1> QED BY <1>4, <1>6, <1>7 DEF OfTheMonth, a, g

\* No write dated in one month changes a number that is an earlier month's own, whatever the
\* goals; Ready to Assign and what is available over all time are of every month.
THEOREM ThePastStands == Spec => PastKeepsItsNumbers
<1> DEFINE Kept == \A m \in Months :
       (/\ \A c \in Categories, k \in 1..m : assigned'[c][k] = assigned[c][k]
        /\ \A i \in Ids : records'[i] # records[i] =>
             \A r \in {records[i], records'[i]} : r # Absent => r.month > m)
       => \A c \in Categories : OfTheMonth(c, m)' = OfTheMonth(c, m)
<1>1. ASSUME Typed, Next PROVE Kept
  <2>1. goal' = goal
    BY <1>1 DEF Next, Move, Keep, Drop
  <2> QED BY <1>1, <2>1, RowBefore DEF LaterThan
<1>2. Typed /\ [Next]_vars => [Kept]_vars
  BY <1>1
<1> QED BY <1>2, InitTyped, NextTyped, PTL DEF Spec, PastKeepsItsNumbers

-----------------------------------------------------------------------------
(* Goals by a date *)

LEMMA Quotient ==
  ASSUME NEW q \in Nat, NEW p \in Nat \ {0}, NEW r \in 0..(p - 1)
  PROVE  (q * p + r) \div p = q /\ (q * p + r) % p = r
<1> DEFINE a == q * p + r
           Q == a \div p
           R == a % p
<1>1. a \in Nat
  BY SMT
<1> HIDE DEF a
<1>2. Q \in Nat /\ R \in Nat /\ R < p /\ a = Q * p + R
  BY <1>1, SMT
<1> HIDE DEF Q, R
<1>3. (Q - q) * p = r - R
  BY <1>2, SMT DEF a
<1>4. Q = q
  <2>1. Q - q >= 1 => (Q - q) * p >= p
    BY <1>2, SMT
  <2>2. Q - q <= -1 => (Q - q) * p <= -p
    BY <1>2, SMT
  <2> QED BY <1>2, <1>3, <2>1, <2>2, SMT
<1>5. R = r
  BY <1>2, <1>4, SMT DEF a
<1> QED BY <1>4, <1>5 DEF a, Q, R

\* What is left of x after j of n even shares of it.
LeftAfter(x, n, j) == (x \div n) * (n - j) + (IF x % n < n - j THEN x % n ELSE n - j)

\* The next share is the rest divided by the months left, rounded down; and the rest shrinks by it.
LEMMA SharesAreEven ==
  ASSUME NEW x \in Nat, NEW n \in Nat \ {0}, NEW j \in 0..(n - 1)
  PROVE  /\ LeftAfter(x, n, 0) = x
         /\ LeftAfter(x, n, j) \in Nat
         /\ LeftAfter(x, n, j) \div (n - j) = EvenShare(x, n, j + 1)
         /\ EvenShare(x, n, j + 1) \in Nat
         /\ LeftAfter(x, n, j + 1) = LeftAfter(x, n, j) - EvenShare(x, n, j + 1)
<1> DEFINE q == x \div n
           r == x % n
           p == n - j
<1>1. q \in Nat /\ r \in Nat /\ r < n /\ x = q * n + r
  BY SMT
<1>2. p \in Nat \ {0} /\ n - (j + 1) = p - 1 /\ n - 0 = n
  BY SMT
<1> HIDE DEF q, r, p
<1>3. LeftAfter(x, n, 0) = x
  BY <1>1, <1>2 DEF LeftAfter, q, r
<1>4. CASE r < p
  <2>1. LeftAfter(x, n, j) = q * p + r
    BY <1>4 DEF LeftAfter, q, r, p
  <2>2. LeftAfter(x, n, j) \div p = q
    <3>1. r \in 0..(p - 1)
      BY <1>1, <1>2, <1>4
    <3>2. (q * p + r) \div p = q
      BY <1>1, <1>2, <3>1, Quotient
    <3> QED BY <2>1, <3>2
  <2>3. EvenShare(x, n, j + 1) = q
    <3>1. ~(j + 1 > n - r)
      BY <1>1, <1>4 DEF p
    <3> QED BY <1>1, <3>1 DEF EvenShare, q, r
  <2>4. LeftAfter(x, n, j + 1) = q * (p - 1) + r
    BY <1>1, <1>2, <1>4 DEF LeftAfter, q, r
  <2>5. q * p \in Nat /\ q * (p - 1) = q * p - q
    BY <1>1, <1>2, SMT
  <2>6. LeftAfter(x, n, j + 1) = LeftAfter(x, n, j) - EvenShare(x, n, j + 1)
    BY <1>1, <2>1, <2>3, <2>4, <2>5
  <2> QED BY <1>1, <1>3, <2>1, <2>2, <2>3, <2>5, <2>6 DEF p
<1>5. CASE ~(r < p)
  <2>1. LeftAfter(x, n, j) = q * p + p
    BY <1>5 DEF LeftAfter, q, r, p
  <2>2. q * p + p = (q + 1) * p + 0 /\ q + 1 \in Nat /\ 0 \in 0..(p - 1)
    BY <1>1, <1>2, SMT
  <2>3. LeftAfter(x, n, j) \div p = q + 1
    <3>1. ((q + 1) * p + 0) \div p = q + 1
      BY <1>2, <2>2, Quotient
    <3>2. LeftAfter(x, n, j) = (q + 1) * p + 0
      BY <2>1, <2>2
    <3> QED BY <3>1, <3>2
  <2>4. EvenShare(x, n, j + 1) = q + 1
    <3>1. j + 1 > n - r
      BY <1>1, <1>5 DEF p
    <3> QED BY <1>1, <3>1 DEF EvenShare, q, r
  <2>5. LeftAfter(x, n, j + 1) = q * (p - 1) + (p - 1)
    <3>1. ~(r < p - 1)
      BY <1>1, <1>2, <1>5
    <3> QED BY <1>2, <3>1 DEF LeftAfter, q, r
  <2>6. q * p \in Nat /\ q * (p - 1) = q * p - q
    BY <1>1, <1>2, SMT
  <2>7. LeftAfter(x, n, j + 1) = LeftAfter(x, n, j) - EvenShare(x, n, j + 1)
    BY <1>1, <1>2, <2>1, <2>4, <2>5, <2>6
  <2> QED BY <1>1, <1>2, <1>3, <2>1, <2>3, <2>4, <2>6, <2>7 DEF p
<1> QED BY <1>4, <1>5

\* A month is given what its goal needs of it.
Give(a, c, k) == [a EXCEPT ![k] = @ + Answer(a, c, goal[c], k).needed]

\* What counts as given to a month: to its first month, what was carried in as well.
LaidIn(a, c, g, k) == a[k] + IF k = g.start THEN CarriedIn(a, c, g) ELSE 0
\* What is missing at the start of a month.
Missing(a, c, g, k) == AtLeastZero(g.amount - (Saved(a, c, g, k) - LaidIn(a, c, g, k)))

ByDateGoal(c) == c \in Categories /\ goal[c].kind = "BY_DATE"

LEMMA GoalFacts ==
  ASSUME Typed, NEW c, ByDateGoal(c)
  PROVE  LET g == goal[c] IN
         /\ g.amount \in Nat /\ g.start \in Int /\ g.due \in Int
         /\ 1 <= g.start /\ g.start <= g.due /\ g.due <= Last /\ Last \in Int
         /\ \A k \in g.start..g.due :
              /\ k \in Months /\ k \in Int
              /\ Before(g.start) \in SUBSET Months /\ SinceStart(g, k) \in SUBSET Months
              /\ k \notin Before(g.start) /\ k \in SinceStart(g, k)
              /\ MonthsLeft(k, g.due) = g.due - k + 1
<1> DEFINE g == goal[c]
<1>1. /\ g.amount \in Nat /\ g.start \in Months /\ g.due \in g.start..Last /\ Last \in Nat
      /\ g.kind = "BY_DATE"
  BY GoalsAreRows, ViewAssumption DEF Typed, ByDateGoal
<1> HIDE DEF g
<1>2. g.start \in Int /\ 1 <= g.start /\ g.due \in Int /\ g.start <= g.due /\ g.due <= Last
  BY <1>1 DEF Months
<1>3. ASSUME NEW k \in g.start..g.due
      PROVE  /\ k \in Months /\ k \in Int
             /\ Before(g.start) \in SUBSET Months /\ SinceStart(g, k) \in SUBSET Months
             /\ k \notin Before(g.start) /\ k \in SinceStart(g, k)
             /\ MonthsLeft(k, g.due) = g.due - k + 1
  <2>1. k \in Int /\ g.start <= k /\ k <= g.due
    BY <1>2, <1>3
  <2>2. k \in Months /\ Before(g.start) \in SUBSET Months /\ SinceStart(g, k) \in SUBSET Months
    BY <1>1, <1>2, <2>1 DEF Months, Before, SinceStart
  <2>3. k \notin Before(g.start) /\ k \in SinceStart(g, k)
    BY <1>2, <2>1 DEF Before, SinceStart
  <2>4. MonthsLeft(k, g.due) = g.due - k + 1
    BY <1>2, <2>1 DEF MonthsLeft
  <2> QED BY <2>1, <2>2, <2>3, <2>4
<1> QED BY <1>1, <1>2, <1>3 DEF g

LEMMA Zeros == ASSUME NEW x \in Int PROVE AtLeastZero(x) \in Nat
BY DEF AtLeastZero

\* What a goal by a date answers, and what giving it what it needs leaves for the month after.
LEMMA GivenMonth ==
  ASSUME Typed, NEW c, ByDateGoal(c), NEW a \in [Months -> Int], NEW k \in goal[c].start..goal[c].due
  PROVE  LET g == goal[c]
             asked == Missing(a, c, g, k) \div (g.due - k + 1)
             needed == AtLeastZero(asked - LaidIn(a, c, g, k))
             b == Give(a, c, k)
         IN  /\ Answer(a, c, g, k).monthTarget = asked /\ Answer(a, c, g, k).needed = needed
             /\ Answer(a, c, g, k).progress = Saved(a, c, g, k)
             /\ Answer(a, c, g, k).remaining = AtLeastZero(g.amount - Saved(a, c, g, k))
             /\ asked \in Nat /\ needed \in Nat /\ Missing(a, c, g, k) \in Nat
             /\ Saved(a, c, g, k) \in Int /\ LaidIn(a, c, g, k) \in Int
             /\ b \in [Months -> Int] /\ \A l \in Months \ {k} : b[l] = a[l]
             /\ Saved(b, c, g, k) = Saved(a, c, g, k) + needed
             /\ k < g.due => Missing(b, c, g, k + 1) = AtLeastZero(g.amount - (Saved(a, c, g, k) + needed))
<1> DEFINE g == goal[c]
           asked == Missing(a, c, g, k) \div (g.due - k + 1)
           needed == AtLeastZero(asked - LaidIn(a, c, g, k))
           b == Give(a, c, k)
<1>1. /\ g.amount \in Nat /\ g.start \in Int /\ g.due \in Int
      /\ k \in Months /\ k \in Int /\ g.start <= k /\ k <= g.due
      /\ Before(g.start) \in SUBSET Months /\ SinceStart(g, k) \in SUBSET Months
      /\ k \notin Before(g.start) /\ k \in SinceStart(g, k)
      /\ MonthsLeft(k, g.due) = g.due - k + 1 /\ g.kind = "BY_DATE"
      /\ k < g.due => k + 1 \in Months /\ SinceStart(g, k + 1) \in SUBSET Months
  <2>1. k \in Int /\ g.start <= k /\ k <= g.due
    BY GoalFacts
  <2>2. k < g.due => k + 1 \in g.start..g.due
    BY <2>1, GoalFacts
  <2> QED BY <2>1, <2>2, GoalFacts DEF ByDateGoal
<1> HIDE DEF g
<1>2. CarriedIn(a, c, g) \in Int
  BY <1>1, LaidIsInt, SpentIsInt DEF CarriedIn
<1>3. Saved(a, c, g, k) \in Int /\ LaidIn(a, c, g, k) \in Int
  BY <1>1, <1>2, LaidIsInt DEF Saved, LaidIn
<1>4. Missing(a, c, g, k) \in Nat
  BY <1>1, <1>3, Zeros DEF Missing
<1>5. asked \in Nat
  <2>1. g.due - k + 1 \in Nat \ {0}
    BY <1>1
  <2> QED BY <1>4, <2>1, SMT
<1>6. needed \in Nat
  BY <1>3, <1>5, Zeros
<1>7. /\ Answer(a, c, g, k).monthTarget = asked /\ Answer(a, c, g, k).needed = needed
      /\ Answer(a, c, g, k).progress = Saved(a, c, g, k)
      /\ Answer(a, c, g, k).remaining = AtLeastZero(g.amount - Saved(a, c, g, k))
  <2>1. Answer(a, c, g, k) = ByDate(a, c, g, k)
    BY <1>1 DEF Answer
  <2>2. ByDate(a, c, g, k) =
          [monthTarget |-> asked, needed |-> needed, progress |-> Saved(a, c, g, k),
           remaining |-> AtLeastZero(g.amount - Saved(a, c, g, k))]
    BY <1>1 DEF ByDate, Asks, Missing, LaidIn
  <2> QED BY <2>1, <2>2
<1> HIDE DEF asked, needed
<1>8. b = [a EXCEPT ![k] = @ + needed]
  BY <1>7 DEF Give, g
<1> HIDE DEF b
<1>9. b \in [Months -> Int] /\ \A l \in Months \ {k} : b[l] = a[l]
  BY <1>1, <1>6, <1>8
<1>10. \A M \in SUBSET Months : /\ k \in M => Laid(b, M) = Laid(a, M) + needed
                                /\ k \notin M => Laid(b, M) = Laid(a, M)
  <2> SUFFICES ASSUME NEW M \in SUBSET Months
               PROVE  /\ k \in M => Laid(b, M) = Laid(a, M) + needed
                      /\ k \notin M => Laid(b, M) = Laid(a, M)
    OBVIOUS
  <2>1. needed \in Int /\ k \in Months /\ b[k] - a[k] = needed
    BY <1>1, <1>6, <1>8
  <2> QED BY <1>9, <2>1, LaidOnce
<1>11. CarriedIn(b, c, g) = CarriedIn(a, c, g)
  <2>1. Laid(b, Before(g.start)) = Laid(a, Before(g.start))
    BY <1>1, <1>10
  <2>2. Laid(a, Before(g.start)) \in Int
    BY <1>1, LaidIsInt
  <2> QED BY <2>1, <2>2 DEF CarriedIn
<1>12. Saved(b, c, g, k) = Saved(a, c, g, k) + needed
  <2>1. Laid(b, SinceStart(g, k)) = Laid(a, SinceStart(g, k)) + needed
    BY <1>1, <1>10
  <2>2. Laid(a, SinceStart(g, k)) \in Int
    BY <1>1, LaidIsInt
  <2> QED BY <1>2, <1>6, <1>11, <2>1, <2>2 DEF Saved
<1>13. ASSUME k < g.due
       PROVE  Missing(b, c, g, k + 1) = AtLeastZero(g.amount - (Saved(a, c, g, k) + needed))
  <2>1. SinceStart(g, k + 1) \ {k + 1} = SinceStart(g, k) /\ k + 1 \in SinceStart(g, k + 1)
    BY <1>1 DEF SinceStart
  <2>2. Laid(b, SinceStart(g, k + 1)) = b[k + 1] + Laid(b, SinceStart(g, k))
    <3> DEFINE M == SinceStart(g, k + 1)
    <3>1. IsFiniteSet(M) /\ \A l \in M : b[l] \in Int
      BY <1>1, <1>9, <1>13, FiniteMonths
    <3> HIDE DEF M
    <3>2. k + 1 \in M /\ M \ {k + 1} = SinceStart(g, k)
      BY <2>1 DEF M
    <3>3. SumFunctionOnSet(b, M) = b[k + 1] + SumFunctionOnSet(b, M \ {k + 1})
      BY <3>1, <3>2, SumSplits
    <3> QED BY <3>2, <3>3 DEF Laid, M
  <2>3. b[k + 1] \in Int /\ Laid(b, SinceStart(g, k)) \in Int /\ CarriedIn(b, c, g) \in Int
    BY <1>1, <1>2, <1>9, <1>11, <1>13, LaidIsInt
  <2>4. LaidIn(b, c, g, k + 1) = b[k + 1]
    BY <1>1, <2>3 DEF LaidIn
  <2>5. Saved(b, c, g, k + 1) - LaidIn(b, c, g, k + 1) = Saved(b, c, g, k)
    BY <2>2, <2>3, <2>4, SMTT(40) DEF Saved
  <2> QED BY <1>12, <2>5 DEF Missing
<1> QED BY <1>3, <1>4, <1>5, <1>6, <1>7, <1>9, <1>12, <1>13 DEF g, asked, needed, b

\* The months from m on, each given what it needs, are there to be chosen: one month at a time.
Solves(f, c, m, last) ==
  f = [k \in (m - 1)..last |-> IF k = m - 1 THEN assigned[c]
                              ELSE [f[k - 1] EXCEPT ![k] = @ + Answer(f[k - 1], c, goal[c], k).needed]]

LEMMA FollowedSolves ==
  ASSUME NEW c, NEW m \in Int, Last \in Int, m <= Last
  PROVE  Solves(Followed(c, m), c, m, Last)
<1> DEFINE Reaches == {n \in Nat : \E f : Solves(f, c, m, m - 1 + n)}
<1>1. 0 \in Reaches
  <2>1. (m - 1)..(m - 1 + 0) = {m - 1}
    OBVIOUS
  <2>2. Solves([k \in {m - 1} |-> assigned[c]], c, m, m - 1 + 0)
    BY <2>1 DEF Solves
  <2> QED BY <2>2
<1>2. ASSUME NEW n \in Reaches PROVE n + 1 \in Reaches
  <2> DEFINE last == m - 1 + n
             Next1(f, k) == IF k = m - 1 THEN assigned[c]
                            ELSE [f[k - 1] EXCEPT ![k] = @ + Answer(f[k - 1], c, goal[c], k).needed]
  <2>1. PICK f : Solves(f, c, m, last)
    OBVIOUS
  <2>2. f = [k \in (m - 1)..last |-> Next1(f, k)]
    BY <2>1 DEF Solves
  <2> HIDE DEF Next1
  <2> DEFINE h == [k \in (m - 1)..(last + 1) |-> Next1(f, k)]
  <2>3. \A k \in (m - 1)..last : h[k] = f[k]
    BY <2>2
  <2>4. \A k \in (m - 1)..(last + 1) : Next1(h, k) = Next1(f, k)
    <3> SUFFICES ASSUME NEW k \in (m - 1)..(last + 1) PROVE Next1(h, k) = Next1(f, k)
      OBVIOUS
    <3>1. CASE k = m - 1
      BY <3>1 DEF Next1
    <3>2. CASE k # m - 1
      <4>1. k - 1 \in (m - 1)..last
        BY <3>2
      <4>2. h[k - 1] = f[k - 1]
        BY <2>3, <4>1
      <4> HIDE DEF h
      <4> QED BY <3>2, <4>2 DEF Next1
    <3> QED BY <3>1, <3>2
  <2>5. h = [k \in (m - 1)..(last + 1) |-> Next1(h, k)]
    <3> DEFINE u == [k \in (m - 1)..(last + 1) |-> Next1(h, k)]
    <3>1. \A k \in (m - 1)..(last + 1) : h[k] = u[k]
      BY <2>4
    <3>2. h = [k \in (m - 1)..(last + 1) |-> h[k]] /\ u = [k \in (m - 1)..(last + 1) |-> u[k]]
      OBVIOUS
    <3> HIDE DEF h, u
    <3>3. h = u
      BY <3>1, <3>2
    <3> QED BY <3>3 DEF u
  <2> HIDE DEF h
  <2>6. last + 1 = m - 1 + (n + 1)
    OBVIOUS
  <2>7. Solves(h, c, m, m - 1 + (n + 1))
    BY <2>5, <2>6 DEF Solves, Next1
  <2> QED BY <2>7
<1> HIDE DEF Reaches
<1>3. Reaches = Nat
  <2>1. Reaches \in SUBSET Nat
    BY DEF Reaches
  <2> QED BY <1>1, <1>2, <2>1, Pure!NatSets
<1>4. Last - m + 1 \in Reaches /\ m - 1 + (Last - m + 1) = Last
  BY <1>3
<1>5. \E f : Solves(f, c, m, Last)
  BY <1>4 DEF Reaches
<1> QED BY <1>5 DEF Solves, Followed

\* Nothing given before m; every month from there is given what its goal needs, and its row
\* of assignments keeps its type.
LEMMA FollowedUnfolds ==
  ASSUME Typed, NEW c, ByDateGoal(c), NEW m \in goal[c].start..goal[c].due
  PROVE  LET given == Followed(c, m) IN
         /\ given[m - 1] = assigned[c]
         /\ \A k \in m..goal[c].due : /\ given[k] = Give(given[k - 1], c, k)
                                     /\ given[k - 1] \in [Months -> Int]
<1> DEFINE given == Followed(c, m)
           due == goal[c].due
           Good == {n \in Nat : m + n <= due => given[m - 1 + n] \in [Months -> Int]}
<1>1. /\ m \in Int /\ Last \in Int /\ due \in Int /\ m <= due /\ due <= Last
      /\ m..due \subseteq goal[c].start..due
  BY GoalFacts
<1>2. Solves(given, c, m, Last)
  BY <1>1, FollowedSolves
<1> HIDE DEF given
<1>3. given[m - 1] = assigned[c]
  BY <1>1, <1>2 DEF Solves
<1>4. ASSUME NEW k \in m..due PROVE given[k] = Give(given[k - 1], c, k)
  <2>1. k \in (m - 1)..Last /\ k # m - 1
    BY <1>1
  <2> QED BY <1>2, <2>1 DEF Solves, Give
<1>5. 0 \in Good
  <2>1. assigned[c] \in [Months -> Int]
    BY DEF Typed, ByDateGoal
  <2> QED BY <1>1, <1>3, <2>1
<1>6. ASSUME NEW n \in Good PROVE n + 1 \in Good
  <2> SUFFICES ASSUME m + (n + 1) <= due PROVE given[m - 1 + (n + 1)] \in [Months -> Int]
    OBVIOUS
  <2> DEFINE k == m + n
  <2>1. k \in m..due /\ k - 1 = m - 1 + n /\ k = m - 1 + (n + 1)
    BY <1>1
  <2>2. given[k - 1] \in [Months -> Int]
    BY <1>1, <2>1
  <2>3. given[k] = Give(given[k - 1], c, k) /\ k \in goal[c].start..due
    BY <1>1, <1>4, <2>1
  <2>4. Give(given[k - 1], c, k) \in [Months -> Int]
    BY <2>2, <2>3, GivenMonth
  <2> QED BY <2>1, <2>3, <2>4
<1> HIDE DEF Good
<1>7. Good = Nat
  <2>1. Good \in SUBSET Nat
    BY DEF Good
  <2> QED BY <1>5, <1>6, <2>1, Pure!NatSets
<1>8. ASSUME NEW k \in m..due PROVE given[k - 1] \in [Months -> Int]
  <2>1. k - m \in Good /\ m - 1 + (k - m) = k - 1 /\ m + (k - m) <= due
    BY <1>1, <1>7
  <2> QED BY <2>1 DEF Good
<1> QED BY <1>3, <1>4, <1>8 DEF given

\* In the month it is due the goal asks for all that is missing, and once that is given nothing
\* remains, whatever the months before were given.
LEMMA DueIsMet ==
  ASSUME Typed, NEW c, ByDateGoal(c), NEW m \in goal[c].start..goal[c].due
  PROVE  Answer(Followed(c, m)[goal[c].due], c, goal[c], goal[c].due).remaining = 0
<1> DEFINE g == goal[c]
           k == g.due
           b == Followed(c, m)[k - 1]
           d == Followed(c, m)[k]
           laid == LaidIn(b, c, g, k)
           asked == Missing(b, c, g, k) \div (g.due - k + 1)
           needed == AtLeastZero(asked - laid)
<1>1. /\ k \in Int /\ m \in Int /\ g.start <= m /\ m <= k /\ k \in g.start..g.due /\ k \in m..g.due
      /\ g.amount \in Int
  <2>1. /\ g.amount \in Nat /\ g.start \in Int /\ g.due \in Int
    BY GoalFacts
  <2> QED BY <2>1
<1>2. d = Give(b, c, k) /\ b \in [Months -> Int]
  BY <1>1, FollowedUnfolds
<1>3. /\ asked \in Nat /\ needed \in Nat /\ Missing(b, c, g, k) \in Nat
      /\ Saved(b, c, g, k) \in Int /\ laid \in Int
      /\ d \in [Months -> Int] /\ Saved(d, c, g, k) = Saved(b, c, g, k) + needed
  <2> HIDE DEF b, d
  <2>1. k \in goal[c].start..goal[c].due
    BY <1>1
  <2> HIDE DEF k
  <2>2. /\ asked \in Nat /\ needed \in Nat /\ Missing(b, c, g, k) \in Nat
        /\ Saved(b, c, g, k) \in Int /\ laid \in Int
        /\ Give(b, c, k) \in [Months -> Int]
        /\ Saved(Give(b, c, k), c, g, k) = Saved(b, c, g, k) + needed
    BY <1>2, <2>1, GivenMonth
  <2> QED BY <1>2, <2>2
<1>4. Answer(d, c, g, k).remaining = AtLeastZero(g.amount - Saved(d, c, g, k))
  BY <1>1, <1>3, GivenMonth
<1>5. asked = Missing(b, c, g, k)
  <2>1. g.due - k + 1 = 1
    BY <1>1
  <2>2. \A x \in Nat : x \div 1 = x
    BY SMT
  <2> QED BY <1>3, <2>1, <2>2
<1> HIDE DEF g, k, b, d, laid, asked, needed
<1>6. Missing(b, c, g, k) >= g.amount - (Saved(b, c, g, k) - laid)
  BY <1>1, <1>3 DEF Missing, AtLeastZero, laid
<1>7. needed >= asked - laid
  BY <1>3 DEF needed, AtLeastZero
<1>8. ~(g.amount - Saved(d, c, g, k) > 0)
  BY <1>1, <1>3, <1>5, <1>6, <1>7
<1>9. Answer(d, c, g, k).remaining = 0
  BY <1>4, <1>8 DEF AtLeastZero
<1> QED BY <1>9 DEF g, k, d

\* With nothing set aside ahead, every month is asked for its even share of what was missing.
LEMMA SharesAsked ==
  ASSUME Typed, NEW c, ByDateGoal(c), NEW m \in goal[c].start..goal[c].due,
         Answer(assigned[c], c, goal[c], m).needed # 0,
         \A k \in (m + 1)..goal[c].due : assigned[c][k] = 0,
         NEW k \in m..goal[c].due
  PROVE  Answer(Followed(c, m)[k - 1], c, goal[c], k).monthTarget
           = EvenShare(Missing(assigned[c], c, goal[c], m), goal[c].due - m + 1, k - m + 1)
<1> DEFINE g == goal[c]
           due == g.due
           n == due - m + 1
           a == assigned[c]
           x == Missing(a, c, g, m)
           given == Followed(c, m)
           Good == {j \in Nat : m + j <= due =>
                      /\ Missing(given[m + j - 1], c, g, m + j) = LeftAfter(x, n, j)
                      /\ j > 0 => LaidIn(given[m + j - 1], c, g, m + j) = 0
                      /\ \A l \in (m + j)..due : given[m + j - 1][l] = a[l]}
<1>1. /\ m \in Int /\ due \in Int /\ g.start \in Int /\ g.start <= m /\ m <= due /\ n \in Nat \ {0}
      /\ g.amount \in Nat /\ m..due \subseteq g.start..due /\ m..due \subseteq Months
  <2>1. g.amount \in Nat /\ g.start \in Int /\ g.due \in Int
    BY GoalFacts
  <2>2. m..due \subseteq g.start..due
    BY <2>1
  <2>3. m..due \subseteq Months
    BY <2>2, GoalFacts
  <2> QED BY <2>1, <2>2, <2>3
<1>2. /\ given[m - 1] = a
      /\ \A l \in m..due : given[l] = Give(given[l - 1], c, l) /\ given[l - 1] \in [Months -> Int]
  BY FollowedUnfolds
<1>3. x \in Nat
  <2>1. a \in [Months -> Int]
    BY DEF Typed, ByDateGoal
  <2> QED BY <2>1, GivenMonth
<1> HIDE DEF given
<1> DEFINE Share(l) == Missing(given[l - 1], c, g, l) \div (due - l + 1)
           Laid0(l) == LaidIn(given[l - 1], c, g, l)
           Had(l) == Saved(given[l - 1], c, g, l)
           Needed(l) == AtLeastZero(Share(l) - Laid0(l))
<1>4. ASSUME NEW l \in m..due
      PROVE  /\ Answer(given[l - 1], c, g, l).monthTarget = Share(l)
             /\ Answer(given[l - 1], c, g, l).needed = Needed(l)
             /\ Share(l) \in Nat /\ Laid0(l) \in Int /\ Had(l) \in Int
             /\ \A i \in Months \ {l} : given[l][i] = given[l - 1][i]
             /\ l < due => Missing(given[l], c, g, l + 1) = AtLeastZero(g.amount - (Had(l) + Needed(l)))
  <2>1. l \in g.start..due /\ given[l - 1] \in [Months -> Int] /\ given[l] = Give(given[l - 1], c, l)
    BY <1>1, <1>2
  <2> QED BY <2>1, GivenMonth
<1> HIDE DEF Share, Laid0, Had, Needed
<1>5. 0 \in Good
  <2>1. m + 0 - 1 = m - 1 /\ m + 0 = m
    BY <1>1
  <2>2. LeftAfter(x, n, 0) = x
    BY <1>1, <1>3, SharesAreEven
  <2> QED BY <1>2, <2>1, <2>2
<1>6. ASSUME NEW j \in Good PROVE j + 1 \in Good
  <2> DEFINE l == m + j
  <2> SUFFICES ASSUME m + (j + 1) <= due
               PROVE  /\ Missing(given[m + (j + 1) - 1], c, g, m + (j + 1)) = LeftAfter(x, n, j + 1)
                      /\ LaidIn(given[m + (j + 1) - 1], c, g, m + (j + 1)) = 0
                      /\ \A i \in (m + (j + 1))..due : given[m + (j + 1) - 1][i] = a[i]
    OBVIOUS
  <2>1. /\ l \in m..due /\ l < due /\ m + (j + 1) - 1 = l /\ m + (j + 1) = l + 1 /\ m + j - 1 = l - 1
        /\ j \in 0..(n - 1) /\ due - l + 1 = n - j /\ l \in Int
    BY <1>1
  <2>2. /\ Missing(given[l - 1], c, g, l) = LeftAfter(x, n, j)
        /\ j > 0 => Laid0(l) = 0
        /\ \A i \in l..due : given[l - 1][i] = a[i]
    BY <1>1, <2>1 DEF Laid0
  <2> HIDE DEF l, n, x, Good
  <2>3. Share(l) = EvenShare(x, n, j + 1)
    BY <1>1, <1>3, <2>1, <2>2, SharesAreEven DEF Share
  <2>4. Had(l) + Needed(l) = (Had(l) - Laid0(l)) + Share(l)
    <3>1. Needed(l) = Share(l) - Laid0(l)
      <4>1. CASE j = 0
        <5>1. l = m
          BY <1>1, <4>1 DEF l
        <5>2. Needed(l) # 0
          BY <1>2, <1>4, <2>1, <5>1
        <5> QED BY <1>4, <2>1, <5>2 DEF Needed, AtLeastZero
      <4>2. CASE j > 0
        BY <1>4, <2>1, <2>2, <4>2 DEF Needed, AtLeastZero
      <4> QED BY <2>1, <4>1, <4>2
    <3> QED BY <1>4, <2>1, <3>1
  <2>5. Missing(given[l], c, g, l + 1) = LeftAfter(x, n, j + 1)
    <3>1. PICK y \in Int : y = g.amount - (Had(l) - Laid0(l))
      BY <1>1, <1>4, <2>1
    <3>2. AtLeastZero(y) = LeftAfter(x, n, j)
      BY <2>2, <3>1 DEF Missing, Had, Laid0
    <3>3. g.amount - (Had(l) + Needed(l)) = y - Share(l)
      BY <1>1, <1>4, <2>1, <2>4, <3>1
    <3>4. /\ LeftAfter(x, n, j) \in Nat /\ Share(l) \in Nat
          /\ LeftAfter(x, n, j + 1) = LeftAfter(x, n, j) - Share(l)
      <4>1. x \in Nat /\ n \in Nat \ {0} /\ j \in 0..(n - 1)
        BY <1>1, <1>3, <2>1
      <4>2. /\ LeftAfter(x, n, j) \in Nat /\ EvenShare(x, n, j + 1) \in Nat
            /\ LeftAfter(x, n, j + 1) = LeftAfter(x, n, j) - EvenShare(x, n, j + 1)
        BY <4>1, SharesAreEven
      <4> QED BY <2>3, <4>2
    <3>5. LeftAfter(x, n, j + 1) \in Nat
      <4>1. CASE j + 1 <= n - 1
        <5>1. j + 1 \in 0..(n - 1)
          BY <1>1, <2>1, <4>1
        <5> QED BY <1>1, <1>3, <5>1, SharesAreEven
      <4>2. CASE j + 1 = n
        <5>1. n - (j + 1) = 0 /\ x \div n \in Nat /\ x % n \in Nat
          BY <1>1, <1>3, <2>1, <4>2, SMT
        <5>2. (x \div n) * 0 = 0
          BY <5>1, SMT
        <5> QED BY <5>1, <5>2 DEF LeftAfter
      <4> QED BY <1>1, <2>1, <4>1, <4>2
    <3>6. AtLeastZero(y - Share(l)) = LeftAfter(x, n, j + 1)
      BY <3>2, <3>4, <3>5 DEF AtLeastZero
    <3> QED BY <1>4, <2>1, <3>3, <3>6
  <2>6. \A i \in (l + 1)..due : given[l][i] = a[i]
    <3> SUFFICES ASSUME NEW i \in (l + 1)..due PROVE given[l][i] = a[i]
      OBVIOUS
    <3>1. i \in Months \ {l} /\ i \in l..due
      BY <1>1, <2>1
    <3> QED BY <1>4, <2>1, <2>2, <3>1
  <2>7. LaidIn(given[l], c, g, l + 1) = 0
    <3>1. l + 1 \in (m + 1)..due /\ l + 1 \in (l + 1)..due /\ l + 1 # g.start
      BY <1>1, <2>1
    <3>2. given[l][l + 1] = 0
      BY <2>6, <3>1
    <3> QED BY <3>1, <3>2 DEF LaidIn
  <2> QED BY <2>1, <2>5, <2>6, <2>7
<1> HIDE DEF Good, n, x
<1>7. Good = Nat
  <2>1. Good \in SUBSET Nat
    BY DEF Good
  <2> QED BY <1>5, <1>6, <2>1, Pure!NatSets
<1>8. PICK j \in Nat : j = k - m
  BY <1>1
<1>9. k = m + j /\ m + j <= due /\ k - m + 1 = j + 1 /\ due - k + 1 = n - j /\ j \in 0..(n - 1)
  BY <1>1, <1>8 DEF n
<1>10. Missing(given[k - 1], c, g, k) = LeftAfter(x, n, j)
  BY <1>7, <1>9 DEF Good
<1>11. Share(k) = EvenShare(x, n, j + 1)
  BY <1>1, <1>3, <1>9, <1>10, SharesAreEven DEF Share
<1> QED BY <1>4, <1>9, <1>11 DEF given, n, x

\* Whoever gives every month, from whatever month on, what a goal by a date asks of it has the
\* amount in the month it is due; and with nothing ahead the months share the rest evenly.
THEOREM SavedWhenDue == Spec => []SavesEvenly
<1>1. ASSUME Typed, NEW c \in Categories, goal[c].kind = "BY_DATE",
             NEW m \in goal[c].start..goal[c].due
      PROVE  LET g == goal[c]
                 given == Followed(c, m)
                 n == g.due - m + 1
                 first == Answer(assigned[c], c, g, m)
                 rest == AtLeastZero(g.amount - first.progress + first.monthTarget - first.needed)
                 ahead == first.needed = 0 \/ \E k \in (m + 1)..g.due : assigned[c][k] # 0
             IN /\ Answer(given[g.due], c, g, g.due).remaining = 0
                /\ ~ahead => \A k \in m..g.due :
                     Answer(given[k - 1], c, g, k).monthTarget = EvenShare(rest, n, k - m + 1)
  <2> DEFINE g == goal[c]
             a == assigned[c]
             first == Answer(a, c, g, m)
             rest == AtLeastZero(g.amount - first.progress + first.monthTarget - first.needed)
  <2>1. ByDateGoal(c)
    BY <1>1 DEF ByDateGoal
  <2>2. Answer(Followed(c, m)[g.due], c, g, g.due).remaining = 0
    BY <1>1, <2>1, DueIsMet
  <2>3. ASSUME first.needed # 0 PROVE rest = Missing(a, c, g, m)
    <3> DEFINE asked == Missing(a, c, g, m) \div (g.due - m + 1)
    <3>1. a \in [Months -> Int] /\ g.amount \in Int
      <4>1. g.amount \in Nat
        BY <1>1, <2>1, GoalFacts
      <4> QED BY <1>1, <4>1 DEF Typed
    <3>2. /\ first.monthTarget = asked /\ asked \in Nat
          /\ first.needed = AtLeastZero(asked - LaidIn(a, c, g, m))
          /\ first.progress = Saved(a, c, g, m)
          /\ Saved(a, c, g, m) \in Int /\ LaidIn(a, c, g, m) \in Int
      BY <1>1, <2>1, <3>1, GivenMonth
    <3> HIDE DEF asked, first, a, g
    <3>3. first.needed = asked - LaidIn(a, c, g, m)
      BY <2>3, <3>2 DEF AtLeastZero
    <3>4. g.amount - first.progress + first.monthTarget - first.needed
            = g.amount - (Saved(a, c, g, m) - LaidIn(a, c, g, m))
      BY <3>1, <3>2, <3>3
    <3> QED BY <3>4 DEF Missing
  <2>4. ASSUME first.needed # 0, \A k \in (m + 1)..g.due : a[k] = 0, NEW k \in m..g.due
        PROVE  Answer(Followed(c, m)[k - 1], c, g, k).monthTarget = EvenShare(rest, g.due - m + 1, k - m + 1)
    <3>1. rest = Missing(a, c, g, m)
      BY <2>3, <2>4
    <3> HIDE DEF rest
    <3> QED BY <1>1, <2>1, <2>4, <3>1, SharesAsked
  <2> QED BY <2>2, <2>4
<1>2. Typed => SavesEvenly
  <2> SUFFICES ASSUME Typed PROVE SavesEvenly
    OBVIOUS
  <2> QED BY <1>1 DEF SavesEvenly
<1> QED BY <1>2, InitTyped, NextTyped, PTL DEF Spec

-----------------------------------------------------------------------------
(* The screen *)

(* One request at most is without an answer, and while there is one the     *)
(* screen is saving and no answer's handler waits.                          *)
CallInv ==
  /\ \A k \in Keys : calls[k] \in {0, 1}
  /\ \A k, l \in Keys : calls[k] > 0 /\ calls[l] > 0 => k = l
  /\ \A k \in Keys : calls[k] > 0 => pending /\ "answer" \notin waits /\ k \in wire
  /\ "answer" \in waits => pending

(* A key is minted before it is sent, sent before it is decided, and of the *)
(* form that is named by a key no later than itself.                        *)
KeyInv ==
  /\ moving.open => moving.key \in 1..minted
  /\ sent \in 0..minted
  /\ \A k \in wire : k <= minted
  /\ sent # 0 => sent \in wire
  /\ \A k \in 1..minted : formOf[k] \in 1..k
  /\ \A k \in Keys : k > minted => sentAs[k] = {}
  /\ \A k \in Keys : decided[k] # "none" => k \in wire

(* The open form is the one whose request is under way or was lost.         *)
FormInv ==
  moving.open => /\ \A k \in Keys : calls[k] > 0 => moving.key = k
                 /\ sent # 0 => moving.key = sent

(* A key that has moved money, or still may; one that was answered an error *)
(* for the move it made is not counted.                                     *)
Live(k) == \/ k \in wire /\ decided[k] # "refused" /\ k \notin misheard
           \/ moving.open /\ moving.key = k

OnceInv == \A k, l \in 1..minted : formOf[k] = formOf[l] /\ Live(k) /\ Live(l) => k = l

(* What the open form was sent as is what it still says, and it is either   *)
(* without an answer or lost.                                               *)
IntentInv ==
  /\ \A k \in Keys : \A i, j \in sentAs[k] : i = j
  /\ moving.open /\ sentAs[moving.key] # {} =>
       /\ sentAs[moving.key] = {moving.intent}
       /\ calls[moving.key] > 0 \/ sent = moving.key

DeskInv == TypeOK /\ CallInv /\ KeyInv /\ FormInv /\ OnceInv /\ IntentInv

LEMMA DeskStarts ==
  ASSUME MaxKey \in Nat, MaxSends \in Nat, DeskInit
  PROVE  DeskInv
<1> USE DEF DeskInit, Keys, NoForm, None
<1>1. TypeOK
  <2>1. /\ shown \in [Visited -> [known : BOOLEAN, saw : SUBSET Keys]]
        /\ onScreen \in [month : Visited \cup {None}, saw : SUBSET Keys]
        /\ behind \in [Visited -> BOOLEAN]
        /\ fetch \in [st : {"none", "asked", "read"}, saw : SUBSET Keys]
        /\ waits \subseteq {"answer", "discard"}
    BY DEF Asked, Unread, Nothing
  <2>2. /\ calls \in [Keys -> 0..MaxSends] /\ sends \in 0..MaxSends
        /\ sentAs \in [Keys -> SUBSET Intents]
        /\ decided \in [Keys -> {"none", "applied", "refused"}]
        /\ formOf \in [Keys -> 0..MaxKey] /\ minted \in 0..MaxKey
        /\ owed \in [Visited -> SUBSET Keys]
        /\ astray \subseteq Visited /\ misheard \subseteq Keys
    OBVIOUS
  <2> QED BY <2>1, <2>2 DEF TypeOK
<1>2. CallInv /\ KeyInv /\ FormInv
  BY DEF CallInv, KeyInv, FormInv
<1>3. OnceInv
  BY DEF OnceInv
<1>4. IntentInv
  BY DEF IntentInv
<1> QED BY <1>1, <1>2, <1>3, <1>4 DEF DeskInv

(* A re-reading: joined, or begun anew. *)
LEMMA RereadsTyped ==
  ASSUME TypeOK, Rereads
  PROVE  /\ fetch' \in [st : {"none", "asked", "read"}, saw : SUBSET Keys]
         /\ behind' \in [Visited -> BOOLEAN]
         /\ UNCHANGED <<shown, onScreen>>
<1>1. Restarted \in [st : {"none", "asked", "read"}, saw : SUBSET Keys]
  BY DEF Restarted, TypeOK, Asked
<1>2. behind' = [behind EXCEPT ![month] = behind[month] /\ shown[month].known]
  BY DEF Rereads
<1>3. shown[month].known \in BOOLEAN /\ behind \in [Visited -> BOOLEAN]
  BY DEF TypeOK
<1>4. behind' \in [Visited -> BOOLEAN]
  BY <1>2, <1>3
<1> QED BY <1>1, <1>4 DEF Rereads

(* Readings land, fail and begin: what waited is let go. *)
Reads == FetchReads \/ Focus \/ FetchLands \/ FetchFails

LEMMA ReadsKeep == ASSUME DeskInv, Reads PROVE DeskInv'
<1> USE DEF DeskInv, screen, network
<1>1. /\ UNCHANGED <<month, moving, failure, sent, minted, formOf, sentAs, calls, sends, wire, decided, owed, misheard>>
      /\ \/ UNCHANGED <<waits, pending, settling>>
         \/ Released
  BY DEF Reads, FetchReads, Focus, FetchLands, FetchFails
<1>2. Applied \in SUBSET Keys
  BY DEF Applied, Keys
<1>3. TypeOK'
  <2>1. /\ shown' \in [Visited -> [known : BOOLEAN, saw : SUBSET Keys]]
        /\ onScreen' \in [month : Visited \cup {None}, saw : SUBSET Keys]
        /\ behind' \in [Visited -> BOOLEAN]
        /\ fetch' \in [st : {"none", "asked", "read"}, saw : SUBSET Keys]
        /\ astray' \subseteq Visited
    <3> USE DEF TypeOK, Keys
    <3>1. CASE FetchReads
      BY <3>1, <1>2 DEF FetchReads
    <3>2. CASE Focus
      BY <3>2, RereadsTyped DEF Focus
    <3>3. CASE FetchLands
      <4>1. /\ shown' = [shown EXCEPT ![month] = [known |-> TRUE, saw |-> fetch.saw]]
            /\ onScreen' = [month |-> month, saw |-> fetch.saw]
            /\ behind' = [behind EXCEPT ![month] = FALSE]
            /\ fetch' = NotAsked /\ astray' \in {astray, astray \ {month}}
        BY <3>3 DEF FetchLands
      <4>2. month \in Visited /\ fetch.saw \subseteq Keys
        OBVIOUS
      <4> QED BY <4>1, <4>2 DEF NotAsked
    <3>4. CASE FetchFails
      BY <3>4 DEF FetchFails, NotAsked
    <3> QED BY <3>1, <3>2, <3>3, <3>4 DEF Reads
  <2> QED BY <1>1, <2>1 DEF TypeOK, Released
<1>4. CallInv'
  BY <1>1 DEF CallInv, Released, Keys, TypeOK
<1>5. KeyInv' /\ FormInv' /\ OnceInv' /\ IntentInv'
  BY <1>1 DEF KeyInv, FormInv, OnceInv, Live, IntentInv, Keys
<1> QED BY <1>3, <1>4, <1>5

LEMMA OpenMoveKeeps ==
  ASSUME MaxKey \in Nat, DeskInv, OpenMove PROVE DeskInv'
<1> USE DEF DeskInv
<1>1. /\ ~pending /\ sent = 0
      /\ minted \in 0..MaxKey /\ minted + 1 \in Keys /\ minted' = minted + 1
      /\ moving' = [month |-> month, key |-> minted + 1, intent |-> "first", open |-> TRUE]
      /\ formOf' = [formOf EXCEPT ![minted + 1] = minted + 1]
      /\ failure' = "none"
      /\ UNCHANGED <<month, sent, pending, settling, shown, onScreen, behind, fetch, waits,
                     sentAs, calls, sends, wire, decided, owed, astray, misheard>>
  BY DEF OpenMove, Frozen, Outstanding, None, TypeOK, cache,
         network, Keys
<1>2. TypeOK'
  BY <1>1 DEF TypeOK, Forms, Intents, Keys
<1>3. CallInv'
  BY <1>1 DEF CallInv, Keys
<1>4. /\ \A k \in 1..minted : formOf'[k] = formOf[k] /\ formOf'[k] \in 1..k
      /\ formOf'[minted + 1] = minted + 1
  BY <1>1 DEF KeyInv, Keys, TypeOK
<1>5. KeyInv'
  <2>1. \A k \in 1..minted' : formOf'[k] \in 1..k
    BY <1>1, <1>4
  <2>2. moving'.key \in 1..minted' /\ sent' \in 0..minted'
    BY <1>1
  <2>3. \A k \in wire' : k <= minted'
    BY <1>1 DEF KeyInv, TypeOK, Keys
  <2>4. \A k \in Keys : k > minted' => sentAs'[k] = {}
    BY <1>1 DEF KeyInv, Keys
  <2> QED BY <1>1, <2>1, <2>2, <2>3, <2>4 DEF KeyInv
<1>6. FormInv'
  BY <1>1 DEF FormInv, CallInv, Keys
<1>7. OnceInv'
  <2>1. \A k \in 1..minted : Live(k)' => Live(k)
    BY <1>1 DEF Live
  <2> QED BY <1>1, <1>4, <2>1 DEF OnceInv
<1>8. IntentInv'
  BY <1>1 DEF IntentInv, KeyInv, Keys
<1> QED BY <1>2, <1>3, <1>5, <1>6, <1>7, <1>8

LEMMA EditMoveKeeps ==
  ASSUME MaxKey \in Nat, DeskInv, EditMove PROVE DeskInv'
<1> USE DEF DeskInv
<1>1. /\ moving.open /\ ~pending /\ sent = 0
      /\ moving' = [moving EXCEPT !.intent = "changed"]
      /\ UNCHANGED <<month, failure, sent, pending, settling, minted, formOf, shown, onScreen,
                     behind, fetch, waits, sentAs, calls, sends, wire, decided, owed, astray,
                     misheard>>
  BY DEF EditMove, Locked, Outstanding, None, cache, network
<1>2. moving \in Forms
  BY <1>1 DEF TypeOK, NoForm
<1>3. moving'.open /\ moving'.key = moving.key /\ moving' \in Forms
  BY <1>1, <1>2 DEF Forms, Intents
<1>4. TypeOK'
  BY <1>1, <1>3 DEF TypeOK
<1>5. moving.key \in Keys /\ moving.key # 0 /\ calls[moving.key] = 0
  BY <1>1, <1>2 DEF Forms, CallInv, Keys
<1>6. CallInv' /\ KeyInv' /\ FormInv'
  BY <1>1, <1>3 DEF CallInv, KeyInv, FormInv, Keys
<1>7. OnceInv'
  BY <1>1, <1>3 DEF OnceInv, Live
<1>8. IntentInv'
  BY <1>1, <1>3, <1>5 DEF IntentInv, Keys
<1> QED BY <1>4, <1>6, <1>7, <1>8

(* A request is sent while none is without an answer: for the open form, or *)
(* for the one that was lost, which is still open if any is.                *)
LEMMA SendKeeps ==
  ASSUME MaxKey \in Nat, MaxSends \in Nat, DeskInv, ~pending,
         NEW key \in 1..minted, NEW intent \in Intents,
         \/ key = sent /\ sentAs[key] = {intent}
         \/ moving.open /\ moving.key = key /\ intent = moving.intent /\ sentAs[key] = {},
         Send(key, intent)
  PROVE  DeskInv'
<1> USE DEF DeskInv
<1>1. /\ sends < MaxSends /\ sends' = sends + 1
      /\ sentAs' = [sentAs EXCEPT ![key] = @ \cup {intent}]
      /\ calls' = [calls EXCEPT ![key] = @ + 1]
      /\ wire' = wire \cup {key}
      /\ pending' = TRUE
      /\ UNCHANGED <<month, moving, failure, sent, settling, minted, formOf, decided,
                     shown, onScreen, behind, fetch, waits, owed, astray, misheard>>
  BY DEF Send, cache
<1>2. key \in Keys /\ minted \in 0..MaxKey /\ 1..minted \subseteq Keys
  BY DEF TypeOK, Keys
<1>3. \A k \in Keys : calls[k] = 0
  BY DEF CallInv
<1>4. "answer" \notin waits
  BY DEF CallInv
<1>5. /\ calls'[key] = 1 /\ sentAs'[key] = {intent}
      /\ \A k \in Keys \ {key} : calls'[k] = 0 /\ sentAs'[k] = sentAs[k]
  BY <1>1, <1>2, <1>3 DEF TypeOK, Keys
<1>6. TypeOK'
  <2>1. calls' \in [Keys -> 0..MaxSends]
    BY <1>1, <1>2, <1>3 DEF TypeOK, Keys
  <2>2. sentAs' \in [Keys -> SUBSET Intents]
    BY <1>1, <1>2 DEF TypeOK, Keys
  <2>3. sends' \in 0..MaxSends /\ wire' \subseteq Keys
    BY <1>1, <1>2 DEF TypeOK
  <2> QED BY <1>1, <2>1, <2>2, <2>3 DEF TypeOK
<1>7. CallInv'
  BY <1>1, <1>2, <1>4, <1>5 DEF CallInv
<1>8. KeyInv'
  BY <1>1, <1>2, <1>5 DEF KeyInv, Keys
<1>9. FormInv'
  BY <1>1, <1>2, <1>5 DEF FormInv
<1>10. OnceInv'
  <2>1. \A k \in 1..minted : Live(k)' => Live(k)
    BY <1>1 DEF Live, KeyInv
  <2> QED BY <1>1, <2>1 DEF OnceInv
<1>11. IntentInv'
  <2>1. moving.open => moving.key = key /\ moving.intent = intent
    BY <1>2 DEF FormInv, IntentInv
  <2> QED BY <1>1, <1>2, <1>5, <2>1 DEF IntentInv
<1> QED BY <1>6, <1>7, <1>8, <1>9, <1>10, <1>11

LEMMA CommitMoveKeeps ==
  ASSUME MaxKey \in Nat, MaxSends \in Nat, DeskInv, CommitMove PROVE DeskInv'
<1>1. /\ moving.open /\ ~pending /\ sent = 0
      /\ Send(moving.key, moving.intent)
  BY DEF CommitMove, Frozen, Outstanding, None
<1>2. moving.key \in 1..minted /\ moving.intent \in Intents
  <2>1. moving.key \in 1..minted
    BY <1>1 DEF DeskInv, KeyInv
  <2>2. moving \in Forms
    BY <1>1 DEF DeskInv, TypeOK, NoForm
  <2> QED BY <2>1, <2>2 DEF Forms
<1>3. sentAs[moving.key] = {}
  BY <1>1, <1>2 DEF DeskInv, IntentInv, CallInv, KeyInv, TypeOK, Keys
<1> QED BY <1>1, <1>2, <1>3, SendKeeps

LEMMA RetryKeeps ==
  ASSUME MaxKey \in Nat, MaxSends \in Nat, RetriesOnce, DeskInv, Retry PROVE DeskInv'
<1>1. /\ ~pending /\ sent # 0
      /\ \E intent \in sentAs[sent] : Send(sent, intent)
  BY DEF Retry, Outstanding, None
<1>2. PICK intent \in sentAs[sent] : Send(sent, intent)
  BY <1>1
<1>3. sent \in 1..minted /\ sent \in Keys
  BY <1>1 DEF DeskInv, KeyInv, TypeOK, Keys
<1>4. intent \in Intents /\ sentAs[sent] = {intent}
  BY <1>3 DEF DeskInv, IntentInv, TypeOK, Keys
<1> QED BY <1>1, <1>2, <1>3, <1>4, SendKeeps

(* A re-reading that something waits for. *)
LEMMA RereadTyped ==
  ASSUME TypeOK, NEW waiter \in {"answer", "discard"}, Reread(waiter)
  PROVE  /\ fetch' \in [st : {"none", "asked", "read"}, saw : SUBSET Keys]
         /\ waits' = waits \cup {waiter} /\ waits' \subseteq {"answer", "discard"}
         /\ behind' \in [Visited -> BOOLEAN]
         /\ UNCHANGED <<shown, onScreen>>
BY RereadsTyped DEF Reread, TypeOK

LEMMA OwesTyped ==
  ASSUME TypeOK, NEW key, Owes(key)
  PROVE  owed' \in [Visited -> SUBSET Keys]
BY DEF Owes, TypeOK, Applied

(* The steps that close the form, or leave it, and may forget a lost move:  *)
(* no key is sent, minted or taken off the wire.                            *)
Lets ==
  /\ moving' \in {moving, NoForm}
  /\ sent' \in {sent, 0}
  /\ sent' = 0 => sent = 0 \/ moving' = NoForm
  /\ \/ waits' = {} /\ pending' = (pending /\ "answer" \notin waits)
     \/ waits' \in {waits, waits \cup {"discard"}} /\ pending' = pending
  /\ UNCHANGED <<minted, formOf, sentAs, calls, wire, decided, misheard>>

LEMMA LetsKeep ==
  ASSUME MaxKey \in Nat, DeskInv, TypeOK', Lets PROVE DeskInv'
<1> USE DEF DeskInv, Lets
<1>1. CallInv'
  <2>1. pending /\ "answer" \notin waits => pending' /\ "answer" \notin waits'
    <3>1. CASE waits' = {} /\ pending' = (pending /\ "answer" \notin waits)
      BY <3>1
    <3>2. CASE waits' \in {waits, waits \cup {"discard"}} /\ pending' = pending
      BY <3>2
    <3> QED BY <3>1, <3>2
  <2>2. "answer" \in waits' => pending'
    BY DEF CallInv
  <2> QED BY <2>1, <2>2 DEF CallInv
<1>2. moving'.open => moving' = moving
  BY DEF NoForm
<1>3. KeyInv' /\ FormInv'
  BY <1>2 DEF KeyInv, FormInv, TypeOK
<1>4. OnceInv'
  BY <1>2 DEF OnceInv, Live
<1>5. IntentInv'
  <2>1. moving'.open => sent' = sent
    BY <1>2 DEF NoForm
  <2> QED BY <1>2, <2>1 DEF IntentInv
<1> QED BY <1>1, <1>3, <1>4, <1>5

LEMMA DismissKeeps ==
  ASSUME MaxKey \in Nat, DeskInv, Dismiss PROVE DeskInv'
<1> USE DEF DeskInv
<1>1. /\ failure' = "none"
      /\ UNCHANGED <<month, moving, sent, minted, formOf, sentAs, calls, sends, wire, decided,
                     owed, misheard>>
  BY DEF Dismiss, network
<1>2. /\ shown' \in [Visited -> [known : BOOLEAN, saw : SUBSET Keys]]
      /\ onScreen' \in [month : Visited \cup {None}, saw : SUBSET Keys]
      /\ behind' \in [Visited -> BOOLEAN]
      /\ fetch' \in [st : {"none", "asked", "read"}, saw : SUBSET Keys]
      /\ astray' \subseteq Visited
      /\ settling' \in BOOLEAN /\ pending' \in BOOLEAN
      /\ \/ waits' = {} /\ pending' = (pending /\ "answer" \notin waits)
         \/ waits' = waits /\ pending' = pending
  <2>1. CASE BannerOffers(failure) = "refresh"
    <3>1. /\ shown' = [m \in Visited |-> Unread]
          /\ behind' = [m \in Visited |-> FALSE]
          /\ fetch' = Asked /\ onScreen' = onScreen
          /\ waits' = {}
          /\ pending' = (pending /\ "answer" \notin waits)
          /\ settling' = (settling /\ "discard" \notin waits)
          /\ astray' = astray \cup ({onScreen.month} \ {None})
      BY <2>1 DEF Dismiss, Released
    <3>2. Unread \in [known : BOOLEAN, saw : SUBSET Keys]
      BY DEF Unread
    <3>3. Asked \in [st : {"none", "asked", "read"}, saw : SUBSET Keys]
      BY DEF Asked
    <3>4. onScreen.month \in Visited \cup {None} /\ astray \subseteq Visited
      BY DEF TypeOK
    <3>5. astray' \subseteq Visited
      BY <3>1, <3>4
    <3> QED BY <3>1, <3>2, <3>3, <3>5 DEF TypeOK
  <2>2. CASE BannerOffers(failure) # "refresh"
    <3>1. UNCHANGED <<shown, onScreen, behind, fetch, waits, pending, settling, astray>>
      BY <2>2 DEF Dismiss, cache
    <3> QED BY <3>1 DEF TypeOK
  <2> QED BY <2>1, <2>2
<1>3. TypeOK'
  BY <1>1, <1>2 DEF TypeOK
<1> QED BY <1>1, <1>2, <1>3, LetsKeep DEF Lets

LEMMA DropOrderKeeps ==
  ASSUME MaxKey \in Nat, DeskInv, DropOrder PROVE DeskInv'
<1> USE DEF DeskInv
<1>1. /\ UNCHANGED <<month, moving, failure, sent, pending, settling, minted, formOf, shown, onScreen,
                     fetch, waits, sentAs, calls, sends, wire, decided, owed, misheard>>
      /\ behind' = [behind EXCEPT ![month] = FALSE]
      /\ astray' \in {astray, astray \cup {month}}
  BY DEF DropOrder, screen, network
<1>2. TypeOK'
  BY <1>1 DEF TypeOK
<1> QED BY <1>1, <1>2, LetsKeep DEF Lets

LEMMA DiscardKeeps ==
  ASSUME MaxKey \in Nat, DeskInv, Discard PROVE DeskInv'
<1> USE DEF DeskInv
<1>1. /\ moving' = NoForm /\ failure' = "none" /\ sent' = 0
      /\ UNCHANGED <<month, pending, minted, formOf, sentAs, calls, sends, wire, decided, astray,
                     misheard>>
  BY DEF Discard, network, None
<1>2. /\ shown' \in [Visited -> [known : BOOLEAN, saw : SUBSET Keys]]
      /\ onScreen' \in [month : Visited \cup {None}, saw : SUBSET Keys]
      /\ behind' \in [Visited -> BOOLEAN]
      /\ fetch' \in [st : {"none", "asked", "read"}, saw : SUBSET Keys]
      /\ waits' \subseteq {"answer", "discard"} /\ waits' \in {waits, waits \cup {"discard"}}
      /\ settling' \in BOOLEAN
      /\ owed' \in [Visited -> SUBSET Keys]
  <2>1. CASE Outstanding
    BY <2>1, RereadTyped, OwesTyped DEF Discard, TypeOK
  <2>2. CASE ~Outstanding
    BY <2>2 DEF Discard, TypeOK, cache
  <2> QED BY <2>1, <2>2
<1>3. TypeOK'
  BY <1>1, <1>2 DEF TypeOK, None
<1> QED BY <1>1, <1>2, <1>3, LetsKeep DEF Lets

LEMMA TurnKeeps ==
  ASSUME MaxKey \in Nat, DeskInv, NEW next \in Visited,
         GoToMonth(next) \/ BrowserHistory(next)
  PROVE  DeskInv'
<1> USE DEF DeskInv
<1>1. /\ Turn(next)
      /\ moving' = NoForm /\ sent' \in {sent, 0}
      /\ failure' \in {failure, "none"}
      /\ settling' \in BOOLEAN
      /\ owed' = owed \/ Owes(sent)
  BY DEF GoToMonth, BrowserHistory, None, TypeOK
<1>2. /\ month' = next /\ waits' = {}
      /\ pending' = (pending /\ "answer" \notin waits)
      /\ UNCHANGED <<shown, minted, formOf, sentAs, calls, sends, wire, decided, astray, misheard>>
  BY <1>1 DEF Turn, network
<1>3. /\ behind' \in [Visited -> BOOLEAN]
      /\ fetch' \in [st : {"none", "asked", "read"}, saw : SUBSET Keys]
      /\ onScreen' \in [month : Visited \cup {None}, saw : SUBSET Keys]
  <2>1. behind' = [behind EXCEPT ![next] = behind[next] /\ shown[next].known]
    BY <1>1 DEF Turn
  <2>2. behind \in [Visited -> BOOLEAN] /\ shown[next].known \in BOOLEAN
    BY DEF TypeOK
  <2>3. onScreen' = onScreen \/ onScreen' = [month |-> next, saw |-> shown[next].saw]
    BY <1>1 DEF Turn
  <2>4. onScreen' \in [month : Visited \cup {None}, saw : SUBSET Keys]
    BY <2>3 DEF TypeOK
  <2>5. fetch' = Asked
    BY <1>1 DEF Turn
  <2> QED BY <2>1, <2>2, <2>4, <2>5 DEF Asked
<1>4. owed' \in [Visited -> SUBSET Keys]
  BY <1>1, OwesTyped DEF TypeOK
<1>5. TypeOK'
  BY <1>1, <1>2, <1>3, <1>4 DEF TypeOK, None
<1> QED BY <1>1, <1>2, <1>5, LetsKeep DEF Lets

LEMMA SettlesElsewhereKeeps ==
  ASSUME MaxKey \in Nat, MaxSends \in Nat, DeskInv,
         NEW kind \in FailureKinds \cup {"none"}, SettlesElsewhere(kind)
  PROVE  DeskInv'
<1> USE DEF DeskInv
<1>1. /\ sends < MaxSends /\ sends' = sends + 1 /\ failure' \in {failure, kind}
      /\ UNCHANGED <<month, moving, sent, pending, settling, minted, formOf, waits,
                     sentAs, calls, wire, decided, owed, astray, misheard>>
  BY DEF SettlesElsewhere
<1>2. /\ fetch' \in [st : {"none", "asked", "read"}, saw : SUBSET Keys]
      /\ behind' \in [Visited -> BOOLEAN]
      /\ UNCHANGED <<shown, onScreen>>
  BY RereadsTyped DEF SettlesElsewhere
<1>3. TypeOK'
  BY <1>1, <1>2 DEF TypeOK
<1> QED BY <1>1, <1>3, LetsKeep DEF Lets

LEMMA DecideKeeps ==
  ASSUME MaxKey \in Nat, DeskInv, NEW key \in Keys, NEW outcome \in {"applied", "refused"},
         Decide(key, outcome)
  PROVE  DeskInv'
<1> USE DEF DeskInv
<1>1. /\ key \in wire /\ decided[key] = "none"
      /\ decided' = [decided EXCEPT ![key] = outcome]
      /\ UNCHANGED <<month, moving, failure, sent, pending, settling, minted, formOf, shown, onScreen,
                     behind, fetch, waits, sentAs, calls, sends, wire, owed, astray, misheard>>
  BY DEF Decide, screen, cache
<1>2. /\ decided'[key] = outcome
      /\ \A k \in Keys \ {key} : decided'[k] = decided[k]
  BY <1>1 DEF TypeOK, Keys
<1>3. TypeOK'
  BY <1>1 DEF TypeOK
<1>4. CallInv' /\ FormInv' /\ IntentInv'
  BY <1>1 DEF CallInv, FormInv, IntentInv
<1>5. KeyInv'
  BY <1>1, <1>2 DEF KeyInv
<1>6. OnceInv'
  <2>1. \A k \in 1..minted : Live(k)' => Live(k)
    BY <1>1, <1>2 DEF Live, Keys, TypeOK
  <2> QED BY <1>1, <2>1 DEF OnceInv
<1> QED BY <1>3, <1>4, <1>5, <1>6

(* A request is answered: it was the only one, and the form's, if one is    *)
(* open.                                                                    *)
LEMMA AnsweredAlone ==
  ASSUME MaxKey \in Nat, MaxSends \in Nat, DeskInv, NEW key \in Keys, calls[key] > 0, Answered(key)
  PROVE  /\ \A k \in Keys : calls'[k] = 0
         /\ calls' \in [Keys -> 0..MaxSends]
         /\ pending /\ "answer" \notin waits /\ key \in wire
         /\ moving.open => moving.key = key
         /\ key \in 1..minted /\ calls[key] = 1
<1> USE DEF DeskInv
<1>1. calls[key] = 1 /\ \A k \in Keys \ {key} : calls[k] = 0
  BY DEF CallInv
<1>2. calls' = [calls EXCEPT ![key] = calls[key] - 1]
  BY DEF Answered
<1>3. calls \in [Keys -> 0..MaxSends]
  BY DEF TypeOK, Keys
<1>4. \A k \in Keys : calls'[k] = 0
  BY <1>1, <1>2, <1>3
<1>6. calls' \in [Keys -> 0..MaxSends]
  BY <1>1, <1>2, <1>3
<1>7. pending /\ "answer" \notin waits /\ key \in wire
  BY DEF CallInv
<1>8. moving.open => moving.key = key
  BY DEF FormInv
<1>9. key \in 1..minted
  BY <1>7 DEF KeyInv, Keys, TypeOK
<1> QED BY <1>1, <1>4, <1>6, <1>7, <1>8, <1>9

LEMMA SucceedsKeeps ==
  ASSUME MaxKey \in Nat, MaxSends \in Nat, DeskInv, NEW key \in Keys, Succeeds(key)
  PROVE  DeskInv'
<1> USE DEF DeskInv
<1>1. /\ calls[key] > 0 /\ Answered(key)
      /\ moving' = NoForm /\ failure' = "none" /\ sent' = 0
      /\ Reread("answer") /\ Owes(key)
      /\ UNCHANGED <<month, pending, settling, minted, formOf, sentAs, sends, wire, decided, astray,
                     misheard>>
  BY DEF Succeeds, None
<1>2. /\ \A k \in Keys : calls'[k] = 0
      /\ calls' \in [Keys -> 0..MaxSends] /\ pending
  BY <1>1, AnsweredAlone
<1>3. /\ fetch' \in [st : {"none", "asked", "read"}, saw : SUBSET Keys]
      /\ waits' \subseteq {"answer", "discard"}
      /\ behind' \in [Visited -> BOOLEAN]
      /\ UNCHANGED <<shown, onScreen>>
  BY <1>1, RereadTyped
<1>4. owed' \in [Visited -> SUBSET Keys]
  BY <1>1, OwesTyped
<1>5. TypeOK'
  BY <1>1, <1>2, <1>3, <1>4 DEF TypeOK, Keys, None
<1>6. ~moving'.open
  BY <1>1 DEF NoForm
<1>7. CallInv'
  BY <1>1, <1>2 DEF CallInv
<1>8. KeyInv' /\ FormInv' /\ IntentInv'
  BY <1>1, <1>6 DEF KeyInv, FormInv, IntentInv, TypeOK
<1>9. OnceInv'
  BY <1>1, <1>6 DEF OnceInv, Live
<1> QED BY <1>5, <1>7, <1>8, <1>9

(* A request fails: what is sent next under the form is sent as the same    *)
(* thing, under its key if nobody knows what became of it, under a new one  *)
(* if the server says that nothing was done, or does not say that it was.   *)
LEMMA FailsKeep ==
  ASSUME MaxKey \in Nat, MaxSends \in Nat, DeskInv, NEW key \in Keys, NEW kind \in FailureKinds,
         Fails(key, kind), wire' \in {wire, wire \ {key}},
         misheard' \subseteq Keys, misheard \subseteq misheard',
         kind # "network" => \/ decided[key] = "refused" \/ wire' = wire \ {key}
                             \/ key \in misheard',
         wire' # wire => decided[key] = "none" /\ kind # "network"
  PROVE  DeskInv'
<1> USE DEF DeskInv
<1>1. /\ calls[key] > 0 /\ Answered(key) /\ failure' = kind
      /\ sent' = IF kind = "network" THEN key ELSE 0
      /\ UNCHANGED <<month, settling, sentAs, sends, decided, owed, astray>>
  BY DEF Fails, None, KeepsTheKey
<1>2. /\ \A k \in Keys : calls'[k] = 0
      /\ calls' \in [Keys -> 0..MaxSends]
      /\ pending /\ "answer" \notin waits /\ key \in wire
      /\ moving.open => moving.key = key
      /\ key \in 1..minted
  BY <1>1, AnsweredAlone
<1>3. \/ /\ moving.open /\ kind # "network" /\ minted < MaxKey
         /\ moving' = [moving EXCEPT !.key = minted + 1]
         /\ minted' = minted + 1
         /\ formOf' = [formOf EXCEPT ![minted + 1] = formOf[key]]
      \/ /\ moving' \in {moving, NoForm}
         /\ moving'.open => moving' = moving /\ kind = "network"
         /\ UNCHANGED <<minted, formOf>>
  <2>1. CASE Reminted(kind)
    BY <1>2, <2>1 DEF Fails, Reminted, KeepsTheKey
  <2>2. CASE ~Reminted(kind)
    <3>1. /\ moving' = IF KeepsThePopoverOpen(kind) THEN moving ELSE NoForm
          /\ UNCHANGED <<minted, formOf>>
      BY <2>2 DEF Fails
    <3>2. moving'.open => moving' = moving /\ kind = "network"
      BY <2>2, <3>1 DEF Reminted, KeepsTheKey, NoForm
    <3> QED BY <3>1, <3>2
  <2> QED BY <2>1, <2>2
<1>4. /\ fetch' \in [st : {"none", "asked", "read"}, saw : SUBSET Keys]
      /\ waits' \subseteq {"answer", "discard"}
      /\ behind' \in [Visited -> BOOLEAN]
      /\ UNCHANGED <<shown, onScreen>>
      /\ pending' \in BOOLEAN
      /\ "answer" \in waits' => pending'
  <2>1. CASE RereadsTheMonth(kind)
    BY <1>2, <2>1, RereadTyped DEF Fails, TypeOK
  <2>2. CASE ~RereadsTheMonth(kind)
    BY <1>2, <2>2 DEF Fails, TypeOK, cache
  <2> QED BY <2>1, <2>2
<1>5. /\ minted \in 0..MaxKey /\ minted' \in 0..MaxKey /\ minted <= minted'
      /\ 1..minted' \subseteq Keys
  <2>1. minted \in 0..MaxKey /\ minted' \in 0..MaxKey /\ minted <= minted'
    BY <1>3 DEF TypeOK
  <2> QED BY <2>1 DEF Keys
<1>6. formOf' \in [Keys -> 0..MaxKey] /\ \A k \in 1..minted : formOf'[k] = formOf[k]
  <2>1. formOf \in [Keys -> 0..MaxKey] /\ formOf[key] \in 0..MaxKey
    BY DEF TypeOK
  <2>2. CASE minted < MaxKey /\ formOf' = [formOf EXCEPT ![minted + 1] = formOf[key]]
    <3>1. formOf' \in [Keys -> 0..MaxKey]
      BY <2>1, <2>2
    <3>2. \A k \in 1..minted : k \in Keys /\ k # minted + 1
      BY <1>5
    <3> QED BY <2>1, <2>2, <3>1, <3>2
  <2>3. CASE formOf' = formOf
    BY <2>1, <2>3
  <2> QED BY <1>3, <2>2, <2>3
<1>7. \/ /\ moving.open /\ moving'.open /\ kind # "network" /\ minted' = minted + 1
         /\ moving' \in Forms
         /\ moving'.key = minted + 1 /\ moving'.intent = moving.intent
         /\ formOf'[minted + 1] = formOf[key]
      \/ moving' = moving /\ minted' = minted /\ (moving.open => kind = "network")
      \/ moving' = NoForm /\ ~moving'.open /\ minted' = minted
  <2>1. CASE /\ moving.open /\ kind # "network" /\ minted < MaxKey
             /\ moving' = [moving EXCEPT !.key = minted + 1] /\ minted' = minted + 1
             /\ formOf' = [formOf EXCEPT ![minted + 1] = formOf[key]]
    <3>1. moving \in Forms /\ minted + 1 \in Keys
      BY <2>1, <1>5 DEF TypeOK, NoForm
    <3>2. /\ moving' \in Forms
          /\ moving'.open /\ moving'.key = minted + 1 /\ moving'.intent = moving.intent
      BY <2>1, <3>1 DEF Forms, Keys
    <3>3. formOf'[minted + 1] = formOf[key]
      BY <2>1, <3>1 DEF TypeOK, Keys
    <3> QED BY <2>1, <3>2, <3>3
  <2>2. CASE /\ moving' \in {moving, NoForm}
             /\ moving'.open => moving' = moving /\ kind = "network"
             /\ UNCHANGED <<minted, formOf>>
    BY <2>2 DEF NoForm
  <2> QED BY <1>3, <2>1, <2>2
<1>8. moving' \in Forms \cup {NoForm}
  BY <1>7 DEF TypeOK
<1>9. TypeOK'
  BY <1>1, <1>2, <1>4, <1>5, <1>6, <1>8 DEF TypeOK, Keys, None
<1>10. CallInv'
  BY <1>2, <1>4 DEF CallInv
<1>11. (kind = "network" => sent' = key /\ wire' = wire) /\ (kind # "network" => sent' = 0)
  BY <1>1
<1>12. KeyInv'
  <2>1. moving'.open => moving'.key \in 1..minted'
    BY <1>2, <1>5, <1>7
  <2>2. sent' \in 0..minted' /\ (sent' # 0 => sent' \in wire')
    BY <1>2, <1>5, <1>11
  <2>3. \A k \in wire' : k <= minted'
    BY <1>5 DEF KeyInv, Keys, TypeOK
  <2>4. \A k \in 1..minted' : formOf'[k] \in 1..k
    <3>1. formOf[key] \in 1..key
      BY <1>2 DEF KeyInv
    <3>2. \A k \in 1..minted : formOf'[k] \in 1..k
      BY <1>6 DEF KeyInv
    <3> QED BY <1>2, <1>5, <1>7, <3>1, <3>2
  <2>5. \A k \in Keys : k > minted' => sentAs'[k] = {}
    BY <1>1, <1>5 DEF KeyInv, Keys
  <2>6. \A k \in Keys : decided'[k] # "none" => k \in wire'
    BY <1>1 DEF KeyInv
  <2> QED BY <2>1, <2>2, <2>3, <2>4, <2>5, <2>6 DEF KeyInv
<1>13. FormInv'
  <2>1. \A k \in Keys : ~(calls'[k] > 0)
    BY <1>2
  <2>2. CASE kind # "network"
    BY <1>11, <2>1, <2>2 DEF FormInv
  <2>3. CASE kind = "network"
    <3>1. sent' = key /\ (moving'.open => moving'.key = key)
      BY <1>2, <1>7, <1>11, <2>3
    <3> QED BY <2>1, <3>1 DEF FormInv
  <2> QED BY <2>2, <2>3
<1>14. OnceInv'
  <2>1. \A k \in 1..minted : Live(k)' => Live(k)
    BY <1>1, <1>2, <1>5, <1>7 DEF Live
  <2>2. CASE minted' = minted
    BY <1>6, <2>1, <2>2 DEF OnceInv
  <2>3. CASE /\ moving.open /\ minted' = minted + 1 /\ kind # "network"
             /\ moving'.key = minted + 1 /\ formOf'[minted + 1] = formOf[key]
    <3>1. ~Live(key)' /\ Live(key)
      BY <1>1, <1>2, <1>5, <2>3 DEF Live
    <3>2. \A k \in 1..minted : formOf'[k] = formOf[key] => ~Live(k)'
      BY <1>2, <1>6, <2>1, <3>1 DEF OnceInv
    <3> QED BY <1>2, <1>5, <1>6, <2>1, <2>3, <3>2 DEF OnceInv
  <2> QED BY <1>7, <2>2, <2>3
<1>15. IntentInv'
  <2>1. \A k \in Keys : \A i, j \in sentAs'[k] : i = j
    BY <1>1 DEF IntentInv
  <2>2. CASE moving'.key = minted + 1 /\ minted' = minted + 1
    <3>1. sentAs'[minted + 1] = {}
      BY <1>1, <1>5, <2>2 DEF KeyInv, Keys
    <3> QED BY <2>1, <2>2, <3>1 DEF IntentInv
  <2>3. CASE moving' = moving /\ moving.open /\ kind = "network"
    <3>1. moving.key = key /\ sentAs' = sentAs /\ sent' = key
      BY <1>1, <1>2, <1>11, <2>3
    <3> QED BY <2>1, <2>3, <3>1 DEF IntentInv
  <2>4. CASE ~moving'.open
    BY <2>1, <2>4 DEF IntentInv
  <2> QED BY <1>7, <2>2, <2>3, <2>4
<1> QED BY <1>9, <1>10, <1>12, <1>13, <1>14, <1>15

LEMMA EndsKeeps ==
  ASSUME MaxKey \in Nat, MaxSends \in Nat, DeskInv, NEW key \in Keys, Ends(key)
  PROVE  DeskInv'
<1>1. CASE Succeeds(key)
  BY <1>1, SucceedsKeeps
<1>2. CASE Refused(key)
  <2>1. PICK kind \in {"other", "conflict"} : Fails(key, kind)
    BY <1>2 DEF Refused
  <2>2. /\ decided[key] = "refused" /\ wire' = wire /\ kind \in FailureKinds
        /\ misheard' = misheard /\ misheard \subseteq Keys
    BY <1>2 DEF Refused, FailureKinds, DeskInv, TypeOK
  <2> QED BY <2>1, <2>2, FailsKeep
<1>3. CASE Breaks(key)
  <2>1. PICK kind \in {"other", "budget"} : Fails(key, kind)
    BY <1>3 DEF Breaks
  <2>2. calls[key] = 1
    BY <2>1, AnsweredAlone DEF Fails
  <2>3. /\ decided[key] = "none" /\ wire' = wire \ {key} /\ kind \in FailureKinds
        /\ misheard' = misheard /\ misheard \subseteq Keys /\ kind # "network"
    BY <1>3, <2>2 DEF Breaks, FailureKinds, DeskInv, TypeOK
  <2> QED BY <2>1, <2>3, FailsKeep
<1>4. CASE Lost(key)
  <2>1. /\ Fails(key, "network") /\ wire' = wire /\ "network" \in FailureKinds
        /\ misheard' = misheard /\ misheard \subseteq Keys
    BY <1>4 DEF Lost, FailureKinds, DeskInv, TypeOK
  <2> QED BY <2>1, FailsKeep
<1>5. CASE Mishears(key)
  <2>1. /\ Fails(key, "other") /\ wire' = wire /\ "other" \in FailureKinds
        /\ misheard' = misheard \cup {key} /\ misheard \subseteq Keys
    BY <1>5 DEF Mishears, FailureKinds, DeskInv, TypeOK
  <2> QED BY <2>1, FailsKeep
<1> QED BY <1>1, <1>2, <1>3, <1>4, <1>5 DEF Ends

LEMMA DeskKeeps ==
  ASSUME MaxKey \in Nat, MaxSends \in Nat, RetriesOnce, DeskInv, [DeskNext]_deskVars
  PROVE  DeskInv'
<1>1. CASE UNCHANGED deskVars
  <2>1. /\ UNCHANGED <<month, moving, failure, sent, pending, settling, minted, formOf>>
        /\ UNCHANGED <<shown, onScreen, behind, fetch, waits, sentAs, calls, sends, wire, decided, owed>>
        /\ UNCHANGED <<astray, misheard>>
    BY <1>1 DEF deskVars, screen, cache, network
  <2>2. TypeOK'
    BY <2>1 DEF DeskInv, TypeOK
  <2> QED BY <2>1, <2>2, LetsKeep DEF Lets
<1>2. CASE FetchReads \/ FetchLands \/ FetchFails \/ Focus
  BY <1>2, ReadsKeep DEF Reads
<1>3. CASE OpenMove
  BY <1>3, OpenMoveKeeps
<1>4. CASE EditMove
  BY <1>4, EditMoveKeeps
<1>5. CASE CommitMove
  BY <1>5, CommitMoveKeeps
<1>6. CASE Retry
  BY <1>6, RetryKeeps
<1>7. CASE Dismiss
  BY <1>7, DismissKeeps
<1>8. CASE Discard
  BY <1>8, DiscardKeeps
<1>9. CASE \E m \in Visited : GoToMonth(m) \/ BrowserHistory(m)
  BY <1>9, TurnKeeps
<1>10. CASE \E kind \in FailureKinds \cup {"none"} : SettlesElsewhere(kind)
  BY <1>10, SettlesElsewhereKeeps
<1>11. ASSUME NEW k \in Keys, \E o \in {"applied", "refused"} : Decide(k, o)
       PROVE  DeskInv'
  BY <1>11, DecideKeeps
<1>12. ASSUME NEW k \in Keys, Ends(k) PROVE DeskInv'
  BY <1>12, EndsKeeps
<1>13. CASE DropOrder
  BY <1>13, DropOrderKeeps
<1> QED BY <1>1, <1>2, <1>3, <1>4, <1>5, <1>6, <1>7, <1>8, <1>9, <1>10, <1>11, <1>12, <1>13
        DEF DeskNext, Keys

-----------------------------------------------------------------------------
THEOREM DeskTypesHold ==
  ASSUME MaxKey \in Nat, MaxSends \in Nat, RetriesOnce
  PROVE  DeskSpec => []TypeOK
<1>1. DeskInit => DeskInv
  BY DeskStarts
<1>2. DeskInv /\ [DeskNext]_deskVars => DeskInv'
  BY DeskKeeps
<1>3. DeskInv => TypeOK
  BY DEF DeskInv
<1> QED BY <1>1, <1>2, <1>3, PTL DEF DeskSpec

(* NoDoubleMove: one opening of the form moves money once.  A key that has  *)
(* moved money is live for ever, and a form has one live key at a time.     *)
THEOREM OneMovePerForm ==
  ASSUME MaxKey \in Nat, MaxSends \in Nat, RetriesOnce
  PROVE  DeskSpec => []NoDoubleMove
<1>1. DeskInit => DeskInv
  BY DeskStarts
<1>2. DeskInv /\ [DeskNext]_deskVars => DeskInv'
  BY DeskKeeps
<1>3. DeskInv => NoDoubleMove
  <2> SUFFICES ASSUME DeskInv, NEW k \in Applied \ misheard, NEW l \in Applied \ misheard,
                      formOf[k] = formOf[l]
               PROVE  k = l
    BY DEF NoDoubleMove
  <2>1. \A j \in Applied \ misheard : j \in 1..minted /\ Live(j)
    BY DEF DeskInv, KeyInv, Live, Applied, Keys, TypeOK
  <2> QED BY <2>1 DEF DeskInv, OnceInv
<1> QED BY <1>1, <1>2, <1>3, PTL DEF DeskSpec

(* OneIntentPerKey: what was typed stands still from the moment it is sent  *)
(* until the request is answered or given up, and another key is minted     *)
(* before anything else can be sent.                                        *)
THEOREM OneIntentUnderAKey ==
  ASSUME MaxKey \in Nat, MaxSends \in Nat, RetriesOnce
  PROVE  DeskSpec => []OneIntentPerKey
<1>1. DeskInit => DeskInv
  BY DeskStarts
<1>2. DeskInv /\ [DeskNext]_deskVars => DeskInv'
  BY DeskKeeps
<1>3. DeskInv => OneIntentPerKey
  <2> SUFFICES ASSUME DeskInv, NEW k \in Keys
               PROVE  Cardinality(sentAs[k]) <= 1
    BY DEF OneIntentPerKey
  <2>1. \A i, j \in sentAs[k] : i = j
    BY DEF DeskInv, IntentInv, Keys
  <2>2. CASE sentAs[k] = {}
    <3>1. Cardinality({}) = 0
      BY FS_EmptySet
    <3> QED BY <2>2, <3>1
  <2>3. CASE sentAs[k] # {}
    <3>1. PICK i : sentAs[k] = {i}
      BY <2>1, <2>3
    <3>2. Cardinality({i}) = 1
      BY FS_Singleton
    <3> QED BY <3>1, <3>2
  <2> QED BY <2>2, <2>3
<1> QED BY <1>1, <1>2, <1>3, PTL DEF DeskSpec

-----------------------------------------------------------------------------
(* The figures a form is opened on, for a reader who stays on a month until *)
(* a write of it has settled.                                               *)

HereInv == Unsettled => Here

Answering == pending /\ "answer" \in waits
Discarding == settling /\ "discard" \in waits

(* What is owed to a month is in its figures, unless the last reading of it *)
(* failed, which the screen knows, or one that saving waits for is under    *)
(* way, or the month went astray; and a reading under way that has been     *)
(* made holds it.                                                           *)
UpToDate(m) ==
  \/ owed[m] \subseteq shown[m].saw
  \/ behind[m]
  \/ m = month /\ fetch # NotAsked /\ (Answering \/ Discarding)
  \/ m \in astray

(* The figures on the screen are the month's own where those are known, and *)
(* figures that no query holds any more are those of a month gone astray.   *)
ScreenInv ==
  /\ shown[month].known => Here /\ onScreen.saw = shown[month].saw
  /\ onScreen.month \in Visited => shown[onScreen.month].known \/ onScreen.month \in astray

FreshInv ==
  /\ \A m \in Visited : owed[m] \subseteq Applied
  /\ fetch.st = "read" => month \in astray \/ owed[month] \subseteq fetch.saw
  /\ fetch.st = "none" => fetch = NotAsked
  /\ \A m \in Visited : shown[m].known => UpToDate(m)
  /\ ScreenInv

FreshAll == DeskInv /\ HereInv /\ FreshInv

LEMMA FreshInit ==
  ASSUME MaxKey \in Nat, MaxSends \in Nat, DeskInit PROVE FreshAll
<1>1. HereInv
  BY DEF DeskInit, HereInv, Unsettled, Outstanding, None
<1>2. FreshInv
  <2>1. \A m \in Visited : ~shown[m].known /\ owed[m] = {}
    BY DEF DeskInit, Unread
  <2>2. fetch = Asked /\ month \in Visited
    BY DEF DeskInit
  <2>3. onScreen.month \notin Visited
    BY MoveDeskAssumption DEF DeskInit, Nothing, None
  <2> QED BY <2>1, <2>2, <2>3 DEF FreshInv, ScreenInv, Asked
<1> QED BY <1>1, <1>2, DeskStarts DEF FreshAll

(* A re-reading is begun anew but where no query holds the figures: a month *)
(* used then has gone astray.                                               *)
LEMMA ReadAnew ==
  ASSUME FreshAll, Rereads
  PROVE  /\ UNCHANGED <<shown, onScreen>> /\ fetch' # NotAsked
         /\ \A m \in Visited : shown[m].known => behind'[m] = behind[m]
         /\ fetch' = Asked \/ (fetch' = fetch /\ ~shown[month].known)
<1>1. Asked # NotAsked
  BY DEF Asked, NotAsked
<1>2. fetch' = Restarted /\ UNCHANGED <<shown, onScreen>>
  BY DEF Rereads
<1>3. behind' = [behind EXCEPT ![month] = behind[month] /\ shown[month].known]
  BY DEF Rereads
<1>4. \A m \in Visited : shown[m].known => behind'[m] = behind[m]
  BY <1>3 DEF FreshAll, DeskInv, TypeOK
<1> QED BY <1>1, <1>2, <1>4 DEF Restarted

LEMMA AskedIsNew ==
  /\ Asked # NotAsked /\ Asked.st = "asked"
  /\ NotAsked.st = "none"
BY DEF Asked, NotAsked

(* A reading begins that nothing waits for. *)
LEMMA AgainFresh ==
  ASSUME FreshAll, Rereads,
         UNCHANGED <<month, sent, pending, settling, waits, owed, astray>>, Applied' = Applied
  PROVE  HereInv' /\ FreshInv'
<1> USE DEF FreshAll
<1>1. /\ UNCHANGED <<shown, onScreen>> /\ fetch' # NotAsked
      /\ \A m \in Visited : shown[m].known => behind'[m] = behind[m]
      /\ fetch' = Asked \/ fetch' = fetch
  BY ReadAnew
<1>2. HereInv'
  BY <1>1 DEF HereInv, Here, Unsettled, Outstanding
<1>3. \A m \in Visited : shown'[m].known => UpToDate(m)'
  BY <1>1 DEF FreshInv, UpToDate, Answering, Discarding
<1> QED BY <1>1, <1>2, <1>3, AskedIsNew DEF FreshInv, ScreenInv, Here

LEMMA ReadsFresh == ASSUME FreshAll, Reads PROVE HereInv' /\ FreshInv'
<1> USE DEF FreshAll, DeskInv
<1>1. month \in Visited /\ shown \in [Visited -> [known : BOOLEAN, saw : SUBSET Keys]]
      /\ behind \in [Visited -> BOOLEAN]
  BY DEF TypeOK
<1>2. month' = month /\ owed' = owed /\ Applied' = Applied /\ sent' = sent
  BY DEF Reads, FetchReads, Focus, FetchLands, FetchFails, screen,
         network, Applied
<1>3. CASE FetchReads
  <2>1. /\ fetch.st = "asked" /\ fetch' = [st |-> "read", saw |-> Applied]
        /\ UNCHANGED <<shown, onScreen, behind, waits, pending, settling, astray>>
    BY <1>3 DEF FetchReads, screen
  <2>2. fetch # NotAsked /\ fetch' # NotAsked
    BY <2>1 DEF NotAsked
  <2>3. HereInv'
    BY <1>2, <2>1 DEF HereInv, Unsettled, Outstanding, Here
  <2>4. \A m \in Visited : shown'[m].known => UpToDate(m)'
    BY <1>2, <2>1, <2>2 DEF FreshInv, UpToDate, Answering, Discarding
  <2>5. ScreenInv'
    BY <1>2, <2>1 DEF FreshInv, ScreenInv, Here
  <2> QED BY <1>1, <1>2, <2>1, <2>3, <2>4, <2>5 DEF FreshInv
<1>4. CASE Focus
  BY <1>2, <1>4, AgainFresh DEF Focus, screen
<1>5. CASE FetchLands
  <2>1. /\ fetch.st = "read" /\ fetch' = NotAsked
        /\ shown' = [shown EXCEPT ![month] = [known |-> TRUE, saw |-> fetch.saw]]
        /\ onScreen' = [month |-> month, saw |-> fetch.saw]
        /\ behind' = [behind EXCEPT ![month] = FALSE]
        /\ astray' = IF owed[month] \subseteq fetch.saw THEN astray \ {month} ELSE astray
    BY <1>5 DEF FetchLands
  <2>2. /\ shown'[month].known /\ shown'[month].saw = fetch.saw
        /\ \A m \in Visited \ {month} : shown'[m] = shown[m] /\ behind'[m] = behind[m]
    BY <1>1, <2>1
  <2>3. HereInv' /\ ScreenInv'
    BY <1>2, <2>1, <2>2 DEF HereInv, ScreenInv, Here
  <2>4. \A m \in Visited : shown'[m].known => UpToDate(m)'
    <3> TAKE m \in Visited
    <3>1. CASE m = month
      BY <1>2, <2>1, <2>2, <3>1 DEF FreshInv, UpToDate
    <3>2. CASE m # month
      BY <1>2, <2>1, <2>2, <3>2 DEF FreshInv, UpToDate
    <3> QED BY <3>1, <3>2
  <2> QED BY <1>2, <2>1, <2>3, <2>4, AskedIsNew DEF FreshInv
<1>6. CASE FetchFails
  <2>1. /\ fetch' = NotAsked /\ UNCHANGED <<shown, onScreen, astray>>
        /\ behind' = [behind EXCEPT ![month] = TRUE]
        /\ (pending' => pending) /\ (settling' => settling)
    BY <1>6 DEF FetchFails, Released
  <2>2. /\ behind'[month]
        /\ \A m \in Visited \ {month} : behind'[m] = behind[m]
    BY <1>1, <2>1
  <2>3. HereInv' /\ ScreenInv'
    BY <1>2, <1>6, <2>1 DEF FreshInv, HereInv, ScreenInv, Here, Unsettled, Outstanding
  <2>4. \A m \in Visited : shown'[m].known => UpToDate(m)'
    BY <1>2, <2>1, <2>2 DEF FreshInv, UpToDate
  <2> QED BY <1>2, <2>1, <2>3, <2>4, AskedIsNew DEF FreshInv
<1> QED BY <1>3, <1>4, <1>5, <1>6 DEF Reads

(* The steps that leave the figures and the readings alone. *)
LEMMA StillFresh ==
  ASSUME FreshAll, UNCHANGED <<month, shown, onScreen, behind, fetch, waits, owed, astray>>,
         Applied \subseteq Applied',
         Unsettled' => Unsettled \/ Here,
         Answering => Answering', Discarding => Discarding'
  PROVE  HereInv' /\ FreshInv'
<1> USE DEF FreshAll
<1>1. HereInv'
  BY DEF HereInv, Here
<1>2. \A m \in Visited : shown'[m].known => UpToDate(m)'
  BY DEF FreshInv, UpToDate
<1>3. ScreenInv'
  BY DEF FreshInv, ScreenInv, Here
<1> QED BY <1>1, <1>2, <1>3 DEF FreshInv

(* A reading begins that something waits for, or one is joined. *)
LEMMA AskedFresh ==
  ASSUME FreshAll, Here, Rereads, UNCHANGED <<month, astray>>,
         Applied' = Applied,
         owed' = owed \/ \E key : Owes(key), Answering' \/ Discarding'
  PROVE  HereInv' /\ FreshInv'
<1> USE DEF FreshAll, DeskInv
<1>1. /\ UNCHANGED <<shown, onScreen>> /\ fetch' # NotAsked
      /\ \A m \in Visited : shown[m].known => behind'[m] = behind[m]
      /\ fetch' = Asked \/ (fetch' = fetch /\ ~shown[month].known)
  BY ReadAnew
<1>2. HereInv'
  BY <1>1 DEF HereInv, Here
<1>3. /\ \A m \in Visited : owed'[m] \subseteq Applied
      /\ \A m \in Visited : m # month => owed'[m] = owed[m]
  <2>1. CASE owed' = owed
    BY <2>1 DEF FreshInv
  <2>2. CASE \E key : Owes(key)
    BY <2>2 DEF FreshInv, Owes, TypeOK
  <2> QED BY <2>1, <2>2
<1>4. \A m \in Visited : shown'[m].known => UpToDate(m)'
  BY <1>1, <1>3 DEF FreshInv, UpToDate
<1>5. ~shown[month].known => month \in astray
  BY DEF FreshInv, ScreenInv, Here, TypeOK
<1>6. fetch'.st = "read" => month \in astray
  BY <1>1, <1>5, AskedIsNew
<1>7. fetch'.st = "none" => fetch' = NotAsked
  BY <1>1, AskedIsNew DEF FreshInv
<1>8. ScreenInv'
  BY <1>1 DEF FreshInv, ScreenInv, Here
<1> QED BY <1>2, <1>3, <1>4, <1>6, <1>7, <1>8 DEF FreshInv

LEMMA DismissFresh == ASSUME FreshAll, Dismiss PROVE HereInv' /\ FreshInv'
<1> USE DEF FreshAll, DeskInv
<1>1. /\ UNCHANGED <<month, sent, decided, owed, onScreen>>
      /\ Applied' = Applied
  BY DEF Dismiss, network, cache, Applied
<1>2. CASE BannerOffers(failure) = "refresh"
  <2>1. /\ fetch' = Asked
        /\ shown' = [m \in Visited |-> Unread]
        /\ astray' = astray \cup ({onScreen.month} \ {None})
        /\ pending' => pending
        /\ settling' => settling
    BY <1>2 DEF Dismiss, Released
  <2>2. \A m \in Visited : ~shown'[m].known
    BY <2>1 DEF Unread
  <2>3. HereInv'
    BY <1>1, <2>1 DEF HereInv, Here, Unsettled, Outstanding
  <2>4. month \in Visited
    BY DEF TypeOK
  <2>5. onScreen.month \in Visited => onScreen.month \in astray'
    BY <2>1, MoveDeskAssumption DEF None
  <2>6. ScreenInv'
    BY <1>1, <2>2, <2>4, <2>5 DEF ScreenInv
  <2> QED BY <1>1, <2>1, <2>2, <2>3, <2>6, AskedIsNew DEF FreshInv
<1>3. CASE BannerOffers(failure) # "refresh"
  <2>1. UNCHANGED <<shown, behind, fetch, waits, pending, settling, astray>>
    BY <1>3 DEF Dismiss, cache
  <2> QED BY <1>1, <2>1, StillFresh DEF Unsettled, Outstanding, Answering, Discarding
<1> QED BY <1>2, <1>3

LEMMA DropOrderFresh == ASSUME FreshAll, DropOrder PROVE HereInv' /\ FreshInv'
<1> USE DEF FreshAll, DeskInv
<1>1. /\ UNCHANGED <<month, sent, pending, settling, shown, onScreen, fetch, waits, owed>>
      /\ Applied' = Applied
      /\ behind' = [behind EXCEPT ![month] = FALSE]
      /\ astray' = IF behind[month] THEN astray \cup {month} ELSE astray
  BY DEF DropOrder, screen, network, Applied
<1>2. \A m \in Visited \ {month} : behind'[m] = behind[m]
  BY <1>1 DEF TypeOK
<1>3. HereInv'
  BY <1>1 DEF HereInv, Here, Unsettled, Outstanding
<1>4. \A m \in Visited : shown'[m].known => UpToDate(m)'
  BY <1>1, <1>2 DEF FreshInv, UpToDate, Answering, Discarding
<1>5. ScreenInv'
  BY <1>1 DEF FreshInv, ScreenInv, Here
<1> QED BY <1>1, <1>3, <1>4, <1>5 DEF FreshInv

LEMMA DiscardFresh == ASSUME FreshAll, Discard PROVE HereInv' /\ FreshInv'
<1> USE DEF FreshAll, DeskInv
<1>1. /\ UNCHANGED <<month, pending, decided, astray>> /\ sent' = None
      /\ Applied' = Applied
  BY DEF Discard, network, Applied
<1>2. CASE Outstanding
  <2>1. Reread("discard") /\ settling' = TRUE /\ Owes(sent)
    BY <1>2 DEF Discard
  <2>2. Here
    BY <1>2 DEF Unsettled, HereInv
  <2>3. Rereads /\ Discarding'
    BY <2>1 DEF Discarding, Reread
  <2> QED BY <1>1, <2>1, <2>2, <2>3, AskedFresh
<1>3. CASE ~Outstanding
  <2>1. UNCHANGED <<settling, shown, onScreen, behind, fetch, waits, owed>>
    BY <1>3 DEF Discard, cache
  <2> QED BY <1>1, <2>1, StillFresh DEF Unsettled, Outstanding, Answering, Discarding
<1> QED BY <1>2, <1>3

LEMMA TurnFresh ==
  ASSUME StaysPut, FreshAll, NEW next \in Visited,
         GoToMonth(next) \/ BrowserHistory(next)
  PROVE  HereInv' /\ FreshInv'
<1> USE DEF FreshAll, DeskInv
<1>1. /\ next # month /\ Turn(next)
      /\ ~pending /\ ~settling /\ sent = None
      /\ ~settling' /\ sent' = None /\ owed' = owed
  BY DEF GoToMonth, BrowserHistory, Unsettled, Outstanding
<1>2. /\ month' = next /\ fetch' = Asked /\ ~pending'
      /\ UNCHANGED <<shown, astray>> /\ Applied' = Applied
      /\ onScreen' = IF shown[next].known THEN [month |-> next, saw |-> shown[next].saw]
                                         ELSE onScreen
      /\ \A m \in Visited : shown[m].known => behind'[m] = behind[m]
  BY <1>1 DEF Turn, network, Applied, TypeOK
<1>3. HereInv'
  BY <1>1, <1>2 DEF HereInv, Unsettled, Outstanding
<1>4. \A m \in Visited : shown'[m].known => UpToDate(m)'
  BY <1>1, <1>2 DEF FreshInv, UpToDate, Answering, Discarding
<1>5. ScreenInv'
  BY <1>2 DEF FreshInv, ScreenInv, Here
<1> QED BY <1>1, <1>2, <1>3, <1>4, <1>5, AskedIsNew DEF FreshInv

LEMMA AnswerFresh ==
  ASSUME MaxKey \in Nat, MaxSends \in Nat, FreshAll, NEW key \in Keys, Ends(key)
  PROVE  HereInv' /\ FreshInv'
<1> USE DEF FreshAll, DeskInv
<1>1. calls[key] > 0
  BY DEF Ends, Succeeds, Refused, Breaks, Mishears, Lost, Fails
<1>2. pending /\ "answer" \notin waits
  BY <1>1 DEF CallInv
<1>3. Unsettled /\ Here
  BY <1>2 DEF Unsettled, HereInv
<1>4. UNCHANGED <<month, settling, decided, astray>> /\ Applied' = Applied
  BY DEF Ends, Succeeds, Refused, Breaks, Mishears, Lost, Fails, Applied
<1>5. CASE Succeeds(key)
  <2>1. Rereads /\ Owes(key) /\ Answering'
    BY <1>2, <1>5 DEF Succeeds, Reread, Answering
  <2> QED BY <1>3, <1>4, <2>1, AskedFresh
<1>6. ASSUME NEW kind, Fails(key, kind) PROVE HereInv' /\ FreshInv'
  <2>1. CASE RereadsTheMonth(kind)
    <3>1. Rereads /\ owed' = owed /\ Answering'
      BY <1>2, <1>6, <2>1 DEF Fails, Reread, Answering
    <3> QED BY <1>3, <1>4, <3>1, AskedFresh
  <2>2. CASE ~RereadsTheMonth(kind)
    <3>1. UNCHANGED <<shown, onScreen, behind, fetch, waits, owed>>
      BY <1>6, <2>2 DEF Fails, cache
    <3> QED BY <1>2, <1>3, <1>4, <3>1, StillFresh DEF Answering, Discarding
  <2> QED BY <2>1, <2>2
<1> QED BY <1>5, <1>6 DEF Ends, Refused, Breaks, Mishears, Lost

LEMMA FreshNext ==
  ASSUME MaxKey \in Nat, MaxSends \in Nat, RetriesOnce, StaysPut,
         FreshAll, [DeskNext]_deskVars
  PROVE  FreshAll'
<1> SUFFICES HereInv' /\ FreshInv'
  BY DeskKeeps DEF FreshAll
<1> USE DEF Unsettled, Outstanding, Answering, Discarding, Applied
<1>1. CASE UNCHANGED deskVars
  BY <1>1, StillFresh DEF deskVars, screen, cache, network
<1>2. CASE FetchReads \/ FetchLands \/ FetchFails \/ Focus
  BY <1>2, ReadsFresh DEF Reads
<1>3. CASE OpenMove
  BY <1>3, StillFresh DEF OpenMove, cache, network
<1>4. CASE EditMove
  BY <1>4, StillFresh DEF EditMove, cache, network
<1>5. ASSUME CommitMove \/ Retry PROVE HereInv' /\ FreshInv'
  <2>1. Here
    BY <1>5 DEF CommitMove, Retry, Frozen, FreshAll, HereInv
  <2>2. \E key, intent : Send(key, intent)
    BY <1>5 DEF CommitMove, Retry
  <2> QED BY <2>1, <2>2, StillFresh DEF Send, cache
<1>6. CASE Dismiss
  BY <1>6, DismissFresh
<1>7. CASE Discard
  BY <1>7, DiscardFresh
<1>8. CASE \E m \in Visited : GoToMonth(m) \/ BrowserHistory(m)
  BY <1>8, TurnFresh
<1>9. CASE \E kind \in FailureKinds \cup {"none"} : SettlesElsewhere(kind)
  BY <1>9, AgainFresh DEF SettlesElsewhere
<1>10. ASSUME NEW k \in Keys, NEW o, Decide(k, o) PROVE HereInv' /\ FreshInv'
  <2>1. \A j \in Keys : decided[j] = "applied" => decided'[j] = "applied"
    BY <1>10 DEF Decide, FreshAll, DeskInv, TypeOK
  <2> QED BY <1>10, <2>1, StillFresh DEF Decide, screen, cache
<1>11. ASSUME NEW k \in Keys, Ends(k) PROVE HereInv' /\ FreshInv'
  BY <1>11, AnswerFresh
<1>12. CASE DropOrder
  BY <1>12, DropOrderFresh
<1> QED BY <1>1, <1>2, <1>3, <1>4, <1>5, <1>6, <1>7, <1>8, <1>9, <1>10, <1>11, <1>12
        DEF DeskNext, Keys

(* FreshOpen: the figures a form is opened on hold every move of that month *)
(* the reader was told of, or threw away not knowing what became of it,     *)
(* unless a drag or a refresh took away the error of a failed reading.      *)
THEOREM OpensOnFreshFigures ==
  ASSUME MaxKey \in Nat, MaxSends \in Nat, RetriesOnce, StaysPut
  PROVE  DeskSpec => FreshOpen
<1> DEFINE Opens == ~moving.open /\ moving'.open /\ month \notin astray
                      => owed[month] \subseteq onScreen.saw
<1>1. DeskInit => FreshAll
  BY FreshInit
<1>2. FreshAll /\ [DeskNext]_deskVars => FreshAll'
  BY FreshNext
<1>3. FreshAll /\ [DeskNext]_deskVars => [Opens]_deskVars
  <2> SUFFICES ASSUME FreshAll, DeskNext, ~moving.open, moving'.open, month \notin astray
               PROVE  owed[month] \subseteq onScreen.saw
    OBVIOUS
  <2>1. OpenMove
    <3> USE DEF screen, NoForm
    <3>1. ~FetchReads /\ ~FetchLands /\ ~FetchFails /\ ~Focus
      BY DEF FetchReads, FetchLands, FetchFails, Focus
    <3>2. ~EditMove /\ ~CommitMove /\ ~Dismiss /\ ~Discard /\ ~DropOrder
      BY DEF EditMove, CommitMove, Dismiss, Discard, DropOrder
    <3>3. ~Retry
      BY DEF Retry, Send
    <3>4. \A m \in Visited : ~GoToMonth(m) /\ ~BrowserHistory(m)
      BY DEF GoToMonth, BrowserHistory
    <3>5. \A kind : ~SettlesElsewhere(kind)
      BY DEF SettlesElsewhere
    <3>6. \A k, o : ~Decide(k, o)
      BY DEF Decide
    <3>7. \A k, kind : ~Fails(k, kind)
      BY DEF Fails, Reminted
    <3>8. \A k : ~Ends(k)
      BY <3>7 DEF Ends, Succeeds, Refused, Breaks, Mishears, Lost
    <3> QED BY <3>1, <3>2, <3>3, <3>4, <3>5, <3>6, <3>8 DEF DeskNext
  <2>2. /\ month \in Visited /\ Here /\ ~behind[month] /\ ~pending /\ ~settling
    BY <2>1 DEF OpenMove, Frozen, FreshAll, DeskInv, TypeOK
  <2>3. shown[month].known /\ onScreen.saw = shown[month].saw
    BY <2>2 DEF FreshAll, FreshInv, ScreenInv, Here
  <2> QED BY <2>2, <2>3 DEF FreshAll, FreshInv, UpToDate, Answering, Discarding
<1> QED BY <1>1, <1>2, <1>3, PTL DEF DeskSpec, FreshOpen
=============================================================================
