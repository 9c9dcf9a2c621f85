----------------------------- MODULE PureProofs -----------------------------
(***************************************************************************)
(* Proofs about what is computed and never changes: sums over finite sets, *)
(* which balances are made of; what packages/types promises its callers;   *)
(* and that the rows of a copied budget fit together.                      *)
(***************************************************************************)
EXTENDS Calendar, Amounts, BudgetCopy, FiniteSetsExt, FiniteSetTheorems, TLAPS

-----------------------------------------------------------------------------
(* Sums over finite sets.  SumFunctionOnSet is defined by choosing a function that solves  *)
(* its recursive equation on the subsets of the set; that there is one, and that any two   *)
(* agree, is proved by induction stated over sets: the least number, or a smallest subset, *)
(* outside a set of good ones would be good.                                               *)

LEMMA NatSets == ASSUME NEW T \in SUBSET Nat, 0 \in T, \A n \in T : n + 1 \in T PROVE T = Nat
<1>1. SUFFICES ASSUME Nat \ T # {} PROVE FALSE
  OBVIOUS
<1>2. PICK n \in Nat \ T : \A m \in Nat \ T : ~(<<m, n>> \in OpToRel(<, Nat))
  BY <1>1, NatLessThanWellFounded, WFMin
<1>3. \A m \in Nat \ T : ~(m < n)
  BY <1>2 DEF OpToRel
<1>4. n # 0 /\ n - 1 \in Nat /\ n - 1 < n /\ (n - 1) + 1 = n
  OBVIOUS
<1> QED BY <1>2, <1>3, <1>4

\* A family of subsets of a finite set that has each set whose smaller neighbours it has, has all.
LEMMA SubsetFamilies ==
  ASSUME NEW D, IsFiniteSet(D), NEW F \in SUBSET (SUBSET D),
         \A T \in SUBSET D : (\A x \in T : T \ {x} \in F) => T \in F
  PROVE  F = SUBSET D
<1> DEFINE Small == {n \in Nat : \A T \in SUBSET D : Cardinality(T) <= n => T \in F}
<1>0. \A T \in SUBSET D : IsFiniteSet(T) /\ Cardinality(T) \in Nat
  BY FS_Subset, FS_CardinalityType
<1>1. 0 \in Small
  <2>1. \A T \in SUBSET D : Cardinality(T) <= 0 => T = {}
    BY <1>0, FS_EmptySet
  <2>2. {} \in F
    OBVIOUS
  <2> QED BY <2>1, <2>2
<1>2. ASSUME NEW n \in Small PROVE n + 1 \in Small
  <2>1. SUFFICES ASSUME NEW T \in SUBSET D, Cardinality(T) <= n + 1 PROVE T \in F
    OBVIOUS
  <2>2. \A x \in T : Cardinality(T \ {x}) = Cardinality(T) - 1 /\ T \ {x} \in SUBSET D
    BY <1>0, FS_RemoveElement
  <2>3. \A x \in T : T \ {x} \in F
    BY <1>0, <2>1, <2>2
  <2> QED BY <2>3
<1> HIDE DEF Small
<1>3. Small \in SUBSET Nat
  BY DEF Small
<1>4. Small = Nat
  BY <1>1, <1>2, <1>3, NatSets
<1>5. \A T \in SUBSET D : T \in F
  BY <1>0, <1>4 DEF Small
<1> QED BY <1>5

Rest(S) == S \ {CHOOSE x \in S : TRUE}
Solves(s, f, D) == s = [T \in SUBSET D |-> IF T = {} THEN 0 ELSE f[CHOOSE x \in T : TRUE] + s[Rest(T)]]

LEMMA SumIsChosen == ASSUME NEW f, NEW D PROVE SumFunctionOnSet(f, D) = (CHOOSE s : Solves(s, f, D))[D]
BY DEF SumFunctionOnSet, FoldFunctionOnSet, MapThenFoldSet, Solves, Rest

LEMMA Solvable == ASSUME NEW f, NEW D, IsFiniteSet(D) PROVE \E s : Solves(s, f, D)
<1> DEFINE Level(n) == {T \in SUBSET D : Cardinality(T) <= n}
           Upto(s, n) == s = [T \in Level(n) |-> IF T = {} THEN 0 ELSE f[CHOOSE x \in T : TRUE] + s[Rest(T)]]
           Good == {n \in Nat : \E s : Upto(s, n)}
<1>0. \A T \in SUBSET D : IsFiniteSet(T) /\ Cardinality(T) \in Nat
  BY FS_Subset, FS_CardinalityType
<1>1. 0 \in Good
  <2>1. Level(0) = {{}}
    BY <1>0, FS_EmptySet
  <2>2. Upto([T \in {{}} |-> 0], 0)
    BY <2>1
  <2> QED BY <2>2
<1>2. ASSUME NEW n \in Good PROVE n + 1 \in Good
  <2>1. PICK s : Upto(s, n)
    OBVIOUS
  <2> DEFINE t == [T \in Level(n + 1) |-> IF T = {} THEN 0 ELSE f[CHOOSE x \in T : TRUE] + s[Rest(T)]]
  <2>2. \A T \in Level(n) : T \in Level(n + 1)
    BY <1>0
  <2>3. \A T \in Level(n) : t[T] = s[T]
    BY <2>1, <2>2
  <2>4. \A T \in Level(n + 1) : T # {} => Rest(T) \in Level(n)
    <3>1. SUFFICES ASSUME NEW T \in Level(n + 1), T # {} PROVE Rest(T) \in Level(n)
      OBVIOUS
    <3>2. (CHOOSE x \in T : TRUE) \in T
      BY <3>1
    <3>3. Cardinality(Rest(T)) = Cardinality(T) - 1
      BY <1>0, <3>2, FS_RemoveElement DEF Rest
    <3> QED BY <1>0, <3>3 DEF Rest
  <2>5. \A T \in Level(n + 1) : T # {} => t[Rest(T)] = s[Rest(T)]
    BY <2>3, <2>4
  <2>6. Upto(t, n + 1)
    <3> DEFINE u == [T \in Level(n + 1) |-> IF T = {} THEN 0 ELSE f[CHOOSE x \in T : TRUE] + t[Rest(T)]]
    <3>0. \A T \in Level(n + 1) : t[T] = IF T = {} THEN 0 ELSE f[CHOOSE x \in T : TRUE] + s[Rest(T)]
      OBVIOUS
    <3>1. \A T \in Level(n + 1) : u[T] = t[T]
      <4>1. SUFFICES ASSUME NEW T \in Level(n + 1) PROVE u[T] = t[T]
        OBVIOUS
      <4> HIDE DEF t
      <4>2. u[T] = IF T = {} THEN 0 ELSE f[CHOOSE x \in T : TRUE] + t[Rest(T)]
        OBVIOUS
      <4> QED BY <2>5, <3>0, <4>2
    <3>2. t = [T \in Level(n + 1) |-> t[T]] /\ u = [T \in Level(n + 1) |-> u[T]]
      OBVIOUS
    <3> HIDE DEF t, u
    <3>3. u = t
      BY <3>1, <3>2
    <3> QED BY <3>3 DEF u
  <2> HIDE DEF Upto, t
  <2> QED BY <2>6
<1> HIDE DEF Good
<1>3. Good = Nat
  BY <1>1, <1>2, NatSets DEF Good
<1>4. Cardinality(D) \in Good
  BY <1>0, <1>3
<1>5. Level(Cardinality(D)) = SUBSET D
  BY <1>0, FS_Subset
<1> QED BY <1>4, <1>5 DEF Good, Solves

\* Two solutions agree wherever the functions do.
LEMMA SolutionsAgree ==
  ASSUME NEW D, IsFiniteSet(D), NEW E, D \subseteq E, NEW f, NEW g, \A x \in D : f[x] = g[x],
         NEW s, Solves(s, f, D), NEW t, Solves(t, g, E)
  PROVE  s[D] = t[D]
<1> DEFINE F == {T \in SUBSET D : s[T] = t[T]}
<1>1. \A T \in SUBSET D : /\ s[T] = IF T = {} THEN 0 ELSE f[CHOOSE x \in T : TRUE] + s[Rest(T)]
                          /\ t[T] = IF T = {} THEN 0 ELSE g[CHOOSE x \in T : TRUE] + t[Rest(T)]
  BY DEF Solves
<1>2. ASSUME NEW T \in SUBSET D, \A x \in T : T \ {x} \in F PROVE T \in F
  <2>1. CASE T = {}
    BY <1>1, <2>1
  <2>2. CASE T # {}
    <3>1. (CHOOSE x \in T : TRUE) \in T
      BY <2>2
    <3>2. Rest(T) \in F
      BY <1>2, <3>1 DEF Rest
    <3> QED BY <1>1, <2>2, <3>1, <3>2
  <2> QED BY <2>1, <2>2
<1>3. F = SUBSET D
  <2> HIDE DEF F
  <2>1. F \in SUBSET (SUBSET D)
    BY DEF F
  <2> QED BY <1>2, <2>1, SubsetFamilies
<1> QED BY <1>3

LEMMA SumSolves ==
  ASSUME NEW f, NEW D, IsFiniteSet(D)
  PROVE  \E s : Solves(s, f, D) /\ SumFunctionOnSet(f, D) = s[D]
BY Solvable, SumIsChosen

LEMMA SumAgrees ==
  ASSUME NEW D, IsFiniteSet(D), NEW f, NEW g, \A x \in D : f[x] = g[x]
  PROVE  SumFunctionOnSet(f, D) = SumFunctionOnSet(g, D)
<1>1. PICK s : Solves(s, f, D) /\ SumFunctionOnSet(f, D) = s[D]
  BY SumSolves
<1>2. PICK t : Solves(t, g, D) /\ SumFunctionOnSet(g, D) = t[D]
  BY SumSolves
<1> QED BY <1>1, <1>2, SolutionsAgree

LEMMA SumOfNone == ASSUME NEW f PROVE SumFunctionOnSet(f, {}) = 0
<1>1. IsFiniteSet({})
  BY FS_EmptySet
<1>2. PICK s : Solves(s, f, {}) /\ SumFunctionOnSet(f, {}) = s[{}]
  BY <1>1, SumSolves
<1> QED BY <1>2 DEF Solves

LEMMA SumOfRest ==
  ASSUME NEW f, NEW D, IsFiniteSet(D), D # {}
  PROVE  SumFunctionOnSet(f, D) = f[CHOOSE x \in D : TRUE] + SumFunctionOnSet(f, Rest(D))
<1>1. PICK s : Solves(s, f, D) /\ SumFunctionOnSet(f, D) = s[D]
  BY SumSolves
<1>2. Rest(D) \subseteq D /\ IsFiniteSet(Rest(D))
  BY FS_Subset DEF Rest
<1>3. PICK t : Solves(t, f, Rest(D)) /\ SumFunctionOnSet(f, Rest(D)) = t[Rest(D)]
  BY <1>2, SumSolves
<1>4. t[Rest(D)] = s[Rest(D)]
  BY <1>1, <1>2, <1>3, SolutionsAgree
<1>5. s[D] = f[CHOOSE x \in D : TRUE] + s[Rest(D)]
  BY <1>1 DEF Solves
<1> QED BY <1>1, <1>3, <1>4, <1>5

LEMMA SumIsInt ==
  ASSUME NEW f, NEW D, IsFiniteSet(D), \A x \in D : f[x] \in Int
  PROVE  SumFunctionOnSet(f, D) \in Int
<1> DEFINE F == {T \in SUBSET D : SumFunctionOnSet(f, T) \in Int}
<1>1. ASSUME NEW T \in SUBSET D, \A x \in T : T \ {x} \in F PROVE T \in F
  <2>1. CASE T = {}
    BY <2>1, SumOfNone
  <2>2. CASE T # {}
    <3>1. (CHOOSE x \in T : TRUE) \in T
      BY <2>2
    <3>2. Rest(T) \in F
      BY <1>1, <3>1 DEF Rest
    <3>3. IsFiniteSet(T)
      BY FS_Subset
    <3>4. SumFunctionOnSet(f, T) = f[CHOOSE x \in T : TRUE] + SumFunctionOnSet(f, Rest(T))
      BY <2>2, <3>3, SumOfRest
    <3> QED BY <3>1, <3>2, <3>4
  <2> QED BY <2>1, <2>2
<1> HIDE DEF F
<1>2. F \in SUBSET (SUBSET D)
  BY DEF F
<1>3. F = SUBSET D
  BY <1>1, <1>2, SubsetFamilies
<1> QED BY <1>3 DEF F

LEMMA SumSplits ==
  ASSUME NEW f, NEW D, IsFiniteSet(D), \A x \in D : f[x] \in Int, NEW x \in D
  PROVE  SumFunctionOnSet(f, D) = f[x] + SumFunctionOnSet(f, D \ {x})
<1> DEFINE Sum(T) == SumFunctionOnSet(f, T)
           F == {T \in SUBSET D : \A y \in T : Sum(T) = f[y] + Sum(T \ {y})}
<1>0. \A T \in SUBSET D : IsFiniteSet(T) /\ Sum(T) \in Int
  BY FS_Subset, SumIsInt
<1>1. ASSUME NEW T \in SUBSET D, \A y \in T : T \ {y} \in F PROVE T \in F
  <2>1. SUFFICES ASSUME NEW y \in T PROVE Sum(T) = f[y] + Sum(T \ {y})
    OBVIOUS
  <2> DEFINE c == CHOOSE z \in T : TRUE
  <2>2. c \in T
    BY <2>1
  <2>3. Sum(T) = f[c] + Sum(T \ {c})
    BY <1>0, <2>1, SumOfRest DEF Rest
  <2> HIDE DEF c
  <2>4. CASE c = y
    BY <2>3, <2>4
  <2>5. CASE c # y
    <3>1. y \in T \ {c} /\ c \in T \ {y} /\ (T \ {c}) \ {y} = (T \ {y}) \ {c}
      BY <2>2, <2>5
    <3>2. T \ {c} \in F /\ T \ {y} \in F
      BY <1>1, <2>2
    <3>3. Sum(T \ {c}) = f[y] + Sum((T \ {c}) \ {y})
      BY <3>1, <3>2
    <3>4. Sum(T \ {y}) = f[c] + Sum((T \ {y}) \ {c})
      BY <3>1, <3>2
    <3>5. f[c] \in Int /\ f[y] \in Int /\ Sum((T \ {c}) \ {y}) \in Int
      BY <1>0, <2>2
    <3>6. Sum((T \ {c}) \ {y}) = Sum((T \ {y}) \ {c})
      BY <3>1
    <3> HIDE DEF Sum
    <3>7. Sum(T) = f[c] + (f[y] + Sum((T \ {c}) \ {y}))
      BY <2>3, <3>3
    <3>8. Sum(T \ {y}) = f[c] + Sum((T \ {c}) \ {y})
      BY <3>4, <3>6
    <3> QED BY <3>5, <3>7, <3>8
  <2> QED BY <2>4, <2>5
<1>2. F = SUBSET D
  <2> HIDE DEF F
  <2>1. F \in SUBSET (SUBSET D)
    BY DEF F
  <2> QED BY <1>1, <2>1, SubsetFamilies
<1> QED BY <1>2

\* A sum over a set is the sum over a part of it and over the rest.
LEMMA SumOfParts ==
  ASSUME NEW D, IsFiniteSet(D), NEW f, \A x \in D : f[x] \in Int, NEW P \in SUBSET D
  PROVE  SumFunctionOnSet(f, D) = SumFunctionOnSet(f, P) + SumFunctionOnSet(f, D \ P)
<1> DEFINE Sum(T) == SumFunctionOnSet(f, T)
           Q == D \ P
           F == {T \in SUBSET Q : Sum(P \cup T) = Sum(P) + Sum(T)}
<1>0. \A T \in SUBSET D : Sum(T) \in Int /\ IsFiniteSet(T)
  BY FS_Subset, SumIsInt
<1>1. ASSUME NEW T \in SUBSET Q, \A x \in T : T \ {x} \in F PROVE T \in F
  <2>1. CASE T = {}
    <3>1. P \cup T = P /\ Sum(T) = 0
      BY <2>1, SumOfNone
    <3> QED BY <1>0, <3>1
  <2>2. CASE T # {}
    <3>1. PICK x \in T : TRUE
      BY <2>2
    <3>2. /\ T \in SUBSET D /\ P \cup T \in SUBSET D
          /\ (P \cup T) \ {x} = P \cup (T \ {x}) /\ x \in P \cup T
          /\ T \ {x} \in SUBSET D /\ f[x] \in Int
      OBVIOUS
    <3>3. Sum(T) = f[x] + Sum(T \ {x})
      BY <1>0, <3>2, SumSplits
    <3>4. Sum(P \cup T) = f[x] + Sum(P \cup (T \ {x}))
      <4>1. IsFiniteSet(P \cup T)
        BY <1>0, <3>2
      <4>2. Sum(P \cup T) = f[x] + Sum((P \cup T) \ {x})
        BY <3>2, <4>1, SumSplits
      <4> QED BY <3>2, <4>2
    <3>5. Sum(P \cup (T \ {x})) = Sum(P) + Sum(T \ {x})
      BY <1>1
    <3>6. Sum(P) \in Int /\ Sum(T \ {x}) \in Int
      BY <1>0, <3>2
    <3> HIDE DEF Sum
    <3>7. Sum(P \cup T) = Sum(P) + Sum(T)
      BY <3>2, <3>3, <3>4, <3>5, <3>6
    <3> QED BY <3>7
  <2> QED BY <2>1, <2>2
<1>2. F = SUBSET Q
  <2> HIDE DEF F
  <2>1. F \in SUBSET (SUBSET Q) /\ IsFiniteSet(Q)
    BY <1>0 DEF F
  <2> QED BY <1>1, <2>1, SubsetFamilies
<1>3. Q \in F /\ P \cup Q = D
  BY <1>2
<1> QED BY <1>3

\* The sum of sums.
LEMMA SumAdds ==
  ASSUME NEW D, IsFiniteSet(D), NEW f, NEW g, NEW h,
         \A x \in D : f[x] \in Int /\ g[x] \in Int /\ h[x] = f[x] + g[x]
  PROVE  SumFunctionOnSet(h, D) = SumFunctionOnSet(f, D) + SumFunctionOnSet(g, D)
<1> DEFINE Sum(s, T) == SumFunctionOnSet(s, T)
           F == {T \in SUBSET D : Sum(h, T) = Sum(f, T) + Sum(g, T)}
<1>0. \A T \in SUBSET D : Sum(f, T) \in Int /\ Sum(g, T) \in Int
  BY FS_Subset, SumIsInt
<1>1. ASSUME NEW T \in SUBSET D, \A x \in T : T \ {x} \in F PROVE T \in F
  <2>1. CASE T = {}
    BY <2>1, SumOfNone
  <2>2. CASE T # {}
    <3> DEFINE x == CHOOSE y \in T : TRUE
    <3>1. x \in T
      BY <2>2
    <3>2. IsFiniteSet(T)
      BY FS_Subset
    <3>3. \A s : Sum(s, T) = s[x] + Sum(s, T \ {x})
      BY <2>2, <3>2, SumOfRest DEF Rest
    <3> HIDE DEF x, Sum
    <3>4. Sum(h, T \ {x}) = Sum(f, T \ {x}) + Sum(g, T \ {x}) /\ T \ {x} \in SUBSET D
      BY <1>1, <3>1
    <3>5. f[x] \in Int /\ g[x] \in Int /\ h[x] = f[x] + g[x]
      BY <3>1
    <3> QED BY <1>0, <3>3, <3>4, <3>5
  <2> QED BY <2>1, <2>2
<1>2. F = SUBSET D
  <2> HIDE DEF F
  <2>1. F \in SUBSET (SUBSET D)
    BY DEF F
  <2> QED BY <1>1, <2>1, SubsetFamilies
<1> QED BY <1>2

\* The largest of finitely many numbers.
LEMMA FiniteMax ==
  ASSUME NEW D \in SUBSET Int, IsFiniteSet(D), D # {}
  PROVE  \E x \in D : \A y \in D : y <= x
<1> DEFINE F == {T \in SUBSET D : T # {} => \E x \in T : \A y \in T : y <= x}
<1>1. ASSUME NEW T \in SUBSET D, \A y \in T : T \ {y} \in F PROVE T \in F
  <2>1. SUFFICES ASSUME NEW z \in T PROVE \E x \in T : \A y \in T : y <= x
    OBVIOUS
  <2>2. CASE T \ {z} = {}
    BY <2>2
  <2>3. CASE T \ {z} # {}
    <3>1. PICK x \in T \ {z} : \A y \in T \ {z} : y <= x
      BY <1>1, <2>3
    <3> QED BY <3>1
  <2> QED BY <2>2, <2>3
<1>2. F = SUBSET D
  <2> HIDE DEF F
  <2>1. F \in SUBSET (SUBSET D)
    BY DEF F
  <2> QED BY <1>1, <2>1, SubsetFamilies
<1> QED BY <1>2

\* Of finitely many holders of a number somebody has the largest.
LEMMA SomeoneHasMost ==
  ASSUME NEW S, IsFiniteSet(S), S # {}, NEW f \in [S -> Int]
  PROVE  \E p \in S : \A q \in S : f[q] <= f[p]
<1>1. {f[p] : p \in S} \in SUBSET Int /\ {f[p] : p \in S} # {}
  OBVIOUS
<1>2. IsFiniteSet({f[p] : p \in S})
  <2>1. f \in Surjection(S, {f[p] : p \in S})
    BY DEF Surjection
  <2> QED BY <2>1, FS_Surjection
<1>3. PICK x \in {f[p] : p \in S} : \A y \in {f[p] : p \in S} : y <= x
  BY <1>1, <1>2, FiniteMax
<1> QED BY <1>3

-----------------------------------------------------------------------------
(* Months, days and amounts: what packages/types promises, for every month and for every   *)
(* zone that turns its clocks at most once near the start of the month, by any offsets, at *)
(* any moment; and what becomes of an amount on its way to a decimal and back, and of one  *)
(* that has to be rounded.                                                                 *)

(* The years and the places in a year of any month, and that they make one. *)
Years == 1000..9999
Places == 1..12

LEMMA IsCalendarMonth ==
  ASSUME NEW y \in Years, NEW n \in Places
  PROVE  [year |-> y, index |-> n] \in CalendarMonth
BY DEF CalendarMonth, Years, Places

(* The helpers step to the neighbouring month and back, and every month an endpoint takes
   has both neighbours ("an endpoint cannot accept a value that throws two calls later"). *)
THEOREM MonthsAreAdjacent ==
  ASSUME NEW m \in AskedMonth
  PROVE  /\ nextCalendarMonth(m) \in CalendarMonth /\ previousCalendarMonth(m) \in CalendarMonth
         /\ monthIndex(nextCalendarMonth(m)) = monthIndex(m) + 1
         /\ monthIndex(previousCalendarMonth(m)) = monthIndex(m) - 1
         /\ previousCalendarMonth(nextCalendarMonth(m)) = m
         /\ nextCalendarMonth(previousCalendarMonth(m)) = m
<1>1. m.year \in 1900..2999 /\ m.index \in 1..12 /\ m = [year |-> m.year, index |-> m.index]
  BY SMT DEF AskedMonth
<1>2. /\ nextCalendarMonth(m) \in CalendarMonth /\ monthIndex(nextCalendarMonth(m)) = monthIndex(m) + 1
      /\ previousCalendarMonth(nextCalendarMonth(m)) = m
  <2>1. CASE m.index = 12
    <3>1. nextCalendarMonth(m) = [year |-> m.year + 1, index |-> 1]
      BY <2>1 DEF nextCalendarMonth
    <3>2. m.year + 1 \in Years /\ 1 \in Places
      BY <1>1, <2>1, SMTT(20) DEF Years, Places
    <3>r. [year |-> m.year + 1, index |-> 1] \in CalendarMonth
      BY <3>2, IsCalendarMonth, Zenon
    <3>3. nextCalendarMonth(m) \in CalendarMonth
      BY <3>1, <3>r, Zenon
    <3>4. monthIndex(nextCalendarMonth(m)) = (m.year + 1) * 12 + (1)
      BY <3>1 DEF monthIndex
    <3>5. monthIndex(nextCalendarMonth(m)) = monthIndex(m) + 1
      BY <1>1, <2>1, <3>4, SMT DEF monthIndex
    <3>6. previousCalendarMonth(nextCalendarMonth(m)) = [year |-> (m.year + 1) - 1, index |-> 12]
      BY <1>1, <3>1, <2>1, SMT DEF previousCalendarMonth
    <3>7. (m.year + 1) - 1 = m.year /\ 12 = m.index
      BY <1>1, <2>1, SMT
    <3> QED BY <1>1, <3>3, <3>5, <3>6, <3>7
  <2>2. CASE m.index # 12
    <3>1. nextCalendarMonth(m) = [year |-> m.year, index |-> m.index + 1]
      BY <2>2 DEF nextCalendarMonth
    <3>2. m.year \in Years /\ m.index + 1 \in Places
      BY <1>1, <2>2, SMT DEF Years, Places
    <3>r. [year |-> m.year, index |-> m.index + 1] \in CalendarMonth
      BY <3>2, IsCalendarMonth, Zenon
    <3>3. nextCalendarMonth(m) \in CalendarMonth
      BY <3>1, <3>r, Zenon
    <3>4. monthIndex(nextCalendarMonth(m)) = (m.year) * 12 + (m.index + 1)
      BY <3>1 DEF monthIndex
    <3>5. monthIndex(nextCalendarMonth(m)) = monthIndex(m) + 1
      BY <1>1, <2>2, <3>4, SMTT(30) DEF monthIndex
    <3>6. previousCalendarMonth(nextCalendarMonth(m)) = [year |-> m.year, index |-> (m.index + 1) - 1]
      BY <1>1, <3>1, <2>2, SMT DEF previousCalendarMonth
    <3>7. m.year = m.year /\ (m.index + 1) - 1 = m.index
      BY <1>1, <2>2, SMT
    <3> QED BY <1>1, <3>3, <3>5, <3>6, <3>7
  <2> QED BY <2>1, <2>2
<1>3. /\ previousCalendarMonth(m) \in CalendarMonth /\ monthIndex(previousCalendarMonth(m)) = monthIndex(m) - 1
      /\ nextCalendarMonth(previousCalendarMonth(m)) = m
  <2>1. CASE m.index = 1
    <3>1. previousCalendarMonth(m) = [year |-> m.year - 1, index |-> 12]
      BY <2>1 DEF previousCalendarMonth
    <3>2. m.year - 1 \in Years /\ 12 \in Places
      BY <1>1, <2>1, SMT DEF Years, Places
    <3>r. [year |-> m.year - 1, index |-> 12] \in CalendarMonth
      BY <3>2, IsCalendarMonth, Zenon
    <3>3. previousCalendarMonth(m) \in CalendarMonth
      BY <3>1, <3>r, Zenon
    <3>4. monthIndex(previousCalendarMonth(m)) = (m.year - 1) * 12 + (12)
      BY <3>1 DEF monthIndex
    <3>5. monthIndex(previousCalendarMonth(m)) = monthIndex(m) - 1
      BY <1>1, <2>1, <3>4, SMT DEF monthIndex
    <3>6. nextCalendarMonth(previousCalendarMonth(m)) = [year |-> (m.year - 1) + 1, index |-> 1]
      BY <1>1, <3>1, <2>1, SMT DEF nextCalendarMonth
    <3>7. (m.year - 1) + 1 = m.year /\ 1 = m.index
      BY <1>1, <2>1, SMT
    <3> QED BY <1>1, <3>3, <3>5, <3>6, <3>7
  <2>2. CASE m.index # 1
    <3>1. previousCalendarMonth(m) = [year |-> m.year, index |-> m.index - 1]
      BY <2>2 DEF previousCalendarMonth
    <3>2. m.year \in Years /\ m.index - 1 \in Places
      BY <1>1, <2>2, SMT DEF Years, Places
    <3>r. [year |-> m.year, index |-> m.index - 1] \in CalendarMonth
      BY <3>2, IsCalendarMonth, Zenon
    <3>3. previousCalendarMonth(m) \in CalendarMonth
      BY <3>1, <3>r, Zenon
    <3>4. monthIndex(previousCalendarMonth(m)) = (m.year) * 12 + (m.index - 1)
      BY <3>1 DEF monthIndex
    <3>5. monthIndex(previousCalendarMonth(m)) = monthIndex(m) - 1
      BY <1>1, <2>2, <3>4, SMTT(30) DEF monthIndex
    <3>6. nextCalendarMonth(previousCalendarMonth(m)) = [year |-> m.year, index |-> (m.index - 1) + 1]
      BY <1>1, <3>1, <2>2, SMT DEF nextCalendarMonth
    <3>7. m.year = m.year /\ (m.index - 1) + 1 = m.index
      BY <1>1, <2>2, SMT
    <3> QED BY <1>1, <3>3, <3>5, <3>6, <3>7
  <2> QED BY <2>1, <2>2
<1> QED BY <1>2, <1>3

(* A stored day comes back as the day it was stored for. *)
THEOREM StoredDaysRoundTrip ==
  ASSUME NEW d \in Int
  PROVE  IsStoredDate(toDbDate(d)) /\ calendarDateOf(toDbDate(d)) = d
  BY SMT DEF IsStoredDate, toDbDate, calendarDateOf, DAY_MS

LEMMA DayIsPositive == DAY_MS \in Nat \ {0}
  BY SMT DEF DAY_MS

-----------------------------------------------------------------------------
LEMMA TurningIs ==
  ASSUME NEW at \in Int, NEW before \in Offset, NEW after \in Offset
  PROVE  /\ before \in Int /\ after \in Int
         /\ \A i \in Int : Turning(before, at, after)[i] = IF i < at THEN before ELSE after
  BY DayIsPositive DEF Turning, Offset

(* The candidates of a turning zone are no others than the two its offsets give, and each
   offset that can matter is sampled: the change is within a day of the month's start, or
   one of the two offsets has nothing to say there. *)
LEMMA CandidatesAre ==
  ASSUME NEW wanted \in Int, NEW at \in Int, NEW before \in Offset, NEW after \in Offset
  PROVE  LET C == Candidates(wanted, Turning(before, at, after)) IN
           /\ C \subseteq {wanted - before, wanted - after}
           /\ C # {}
           /\ wanted - before < at => wanted - before \in C
           /\ at <= wanted - after => wanted - after \in C
           /\ at <= wanted - before /\ wanted - after < at => wanted - before \in C
<1> DEFINE zone == Turning(before, at, after)
           C == Candidates(wanted, zone)
<1>1. \A i \in Int : zone[i] = IF i < at THEN before ELSE after
  BY TurningIs
<1>2. C = {wanted - zone[wanted - DAY_MS], wanted - zone[wanted], wanted - zone[wanted + DAY_MS]}
  BY DayIsPositive DEF Candidates
<1> HIDE DEF zone
<1>3. /\ zone[wanted - DAY_MS] = IF wanted - DAY_MS < at THEN before ELSE after
      /\ zone[wanted] = IF wanted < at THEN before ELSE after
      /\ zone[wanted + DAY_MS] = IF wanted + DAY_MS < at THEN before ELSE after
  BY <1>1, DayIsPositive
<1> HIDE DEF C
<1>4. C \subseteq {wanted - before, wanted - after} /\ C # {}
  BY <1>2, <1>3
<1>5. wanted - before < at => wanted - DAY_MS < at
  BY DayIsPositive DEF Offset
<1>6. at <= wanted - after => ~(wanted + DAY_MS < at)
  BY DayIsPositive DEF Offset
<1>7. at <= wanted - before /\ wanted - after < at => wanted - DAY_MS < at
  BY DayIsPositive DEF Offset
<1> QED BY <1>2, <1>3, <1>4, <1>5, <1>6, <1>7 DEF C, zone

LEMMA LeastOfIs ==
  ASSUME NEW S, NEW x \in Int, NEW y \in Int, S \subseteq {x, y}, S # {}
  PROVE  LeastOf(S) \in S /\ \A j \in S : LeastOf(S) <= j
<1>1. S = {x} \/ S = {y} \/ S = {x, y}
  OBVIOUS
<1>2. \E i \in S : \A j \in S : i <= j
  <2>1. CASE S = {x}
    BY <2>1
  <2>2. CASE S = {y}
    BY <2>2
  <2>3. CASE S = {x, y}
    <3>1. x <= y \/ y <= x
      OBVIOUS
    <3> QED BY <2>3, <3>1
  <2> QED BY <1>1, <2>1, <2>2, <2>3
<1> QED BY <1>2 DEF LeastOf

LEMMA GreatestOfIs ==
  ASSUME NEW S, NEW x \in Int, NEW y \in Int, S \subseteq {x, y}, S # {}
  PROVE  GreatestOf(S) \in S /\ \A j \in S : j <= GreatestOf(S)
<1>1. S = {x} \/ S = {y} \/ S = {x, y}
  OBVIOUS
<1>2. \E i \in S : \A j \in S : j <= i
  <2>1. CASE S = {x}
    BY <2>1
  <2>2. CASE S = {y}
    BY <2>2
  <2>3. CASE S = {x, y}
    <3>1. x <= y \/ y <= x
      OBVIOUS
    <3> QED BY <2>3, <3>1
  <2> QED BY <1>1, <2>1, <2>2, <2>3
<1> QED BY <1>2 DEF GreatestOf

(* The instant a month begins is the first at which the clocks of its zone have come to it,
   whether they show its midnight once, twice or not at all, as long as they do not jump from
   before it to after it: what hidden_at is compared with is never late nor early. *)
THEOREM MonthBeginsAtTheFirstInstant ==
  ASSUME NEW wanted \in Int, NEW at \in Int, NEW before \in Offset, NEW after \in Offset,
         ~JumpsOver(wanted, before, at, after)
  PROVE  IsFirstInstant(monthStartInstant(wanted, Turning(before, at, after)), wanted,
                        Turning(before, at, after))
<1> DEFINE zone == Turning(before, at, after)
           C == Candidates(wanted, zone)
           R == RealOnes(wanted, zone)
           start == monthStartInstant(wanted, zone)
           early == wanted - before
           late == wanted - after
<1>1. before \in Int /\ after \in Int /\ \A i \in Int : zone[i] = IF i < at THEN before ELSE after
  BY TurningIs
<1>2. /\ C \subseteq {early, late} /\ C # {}
      /\ early < at => early \in C
      /\ at <= late => late \in C
      /\ at <= early /\ late < at => early \in C
  BY CandidatesAre
<1>3. \A i \in Int : i \in R <=> i \in C /\ wanted - zone[i] = i
  BY DEF RealOnes
<1>4. R \subseteq C
  BY DEF RealOnes
<1>5. start = IF R # {} THEN LeastOf(R) ELSE GreatestOf(C)
  BY DEF monthStartInstant
<1>6. R # {} => LeastOf(R) \in R /\ \A j \in R : LeastOf(R) <= j
  BY <1>1, <1>2, <1>4, LeastOfIs
<1>7. GreatestOf(C) \in C /\ \A j \in C : j <= GreatestOf(C)
  BY <1>1, <1>2, GreatestOfIs
<1> HIDE DEF zone, C, R, start
<1>8. early < at => early \in R
  <2>1. SUFFICES ASSUME early < at PROVE early \in R
    OBVIOUS
  <2>2. early \in Int /\ zone[early] = before /\ early \in C
    BY <1>1, <1>2, <2>1
  <2> QED BY <1>3, <2>2
<1>9. at <= late => late \in R
  <2>1. SUFFICES ASSUME at <= late PROVE late \in R
    OBVIOUS
  <2>2. late \in Int /\ ~(late < at)
    BY <1>1, <2>1
  <2>3. zone[late] = after /\ late \in C
    BY <1>1, <1>2, <2>1, <2>2
  <2> QED BY <1>3, <2>2, <2>3
<1>10. \A i \in R : i \in Int /\ ((i = early /\ i < at) \/ (i = late /\ at <= i))
  <2>1. SUFFICES ASSUME NEW i \in R PROVE i \in Int /\ ((i = early /\ i < at) \/ (i = late /\ at <= i))
    OBVIOUS
  <2>2. i \in Int
    BY <1>1, <1>2, <1>4
  <2>3. wanted - zone[i] = i
    BY <1>3, <2>2
  <2>4. CASE i < at
    <3>1. zone[i] = before
      BY <1>1, <2>2, <2>4
    <3>2. i = wanted - before
      BY <1>1, <2>2, <2>3, <3>1
    <3> QED BY <2>2, <2>4, <3>2
  <2>5. CASE ~(i < at)
    <3>1. zone[i] = after
      BY <1>1, <2>2, <2>5
    <3>2. i = wanted - after
      BY <1>1, <2>2, <2>3, <3>1
    <3> QED BY <2>2, <2>5, <3>2
  <2> QED BY <2>2, <2>4, <2>5
<1>11. R # {} => start \in R /\ \A j \in R : start <= j
  BY <1>5, <1>6
<1>12. CASE early < at
  <2>1. early \in R /\ start \in R /\ start <= early
    BY <1>8, <1>11, <1>12
  <2>2. start = early
    BY <1>1, <1>10, <1>12, <2>1
  <2> QED BY <1>1, <1>12, <2>2 DEF IsFirstInstant, Local, zone, start
<1>13. CASE at <= early /\ at <= late
  <2>1. start \in R
    BY <1>9, <1>11, <1>13
  <2>2. start = late
    BY <1>1, <1>10, <1>13, <2>1
  <2> QED BY <1>1, <1>13, <2>2 DEF IsFirstInstant, Local, zone, start
<1>14. CASE at <= early /\ late < at
  <2>1. early = at
    BY <1>1, <1>14 DEF JumpsOver
  <2>2. R = {}
    BY <1>1, <1>10, <1>14
  <2>3. early \in C /\ start \in C /\ early <= start
    BY <1>2, <1>5, <1>7, <1>14, <2>2
  <2>4. start = early
    BY <1>1, <1>2, <1>14, <2>3
  <2> QED BY <1>1, <1>14, <2>1, <2>4 DEF IsFirstInstant, Local, zone, start
<1> QED BY <1>1, <1>12, <1>13, <1>14

(* Nothing that happened on an earlier day is counted into the month, and where the clocks
   are not turned back nothing that happens in it is left out: the bound for timestamps and
   the bound for days mean the same. *)
THEOREM BoundsAgree ==
  ASSUME NEW day \in Int, NEW at \in Int, NEW before \in Offset, NEW after \in Offset,
         ~JumpsOver(toDbDate(day), before, at, after), NEW i \in Int
  PROVE  LET zone == Turning(before, at, after)
             start == monthStartInstant(toDbDate(day), zone)
         IN  /\ i < start => calendarDateIn(i, zone) < day
             /\ before <= after /\ start <= i => calendarDateIn(i, zone) >= day
<1> DEFINE zone == Turning(before, at, after)
           wanted == toDbDate(day)
           start == monthStartInstant(wanted, zone)
<1>1. before \in Int /\ after \in Int /\ \A j \in Int : zone[j] = IF j < at THEN before ELSE after
  BY TurningIs
<1>2. wanted \in Int
  BY DayIsPositive DEF toDbDate
<1>3. IsFirstInstant(start, wanted, zone)
  BY <1>2, MonthBeginsAtTheFirstInstant
<1> HIDE DEF zone, start, wanted
<1>4. start \in Int /\ Local(zone, start) >= wanted /\ \A j \in Int : j < start => Local(zone, j) < wanted
  BY <1>3 DEF IsFirstInstant
<1>5. \A j \in Int : Local(zone, j) \in Int
  BY <1>1 DEF Local
<1>6. \A t \in Int : (t < wanted => t \div DAY_MS < day) /\ (t >= wanted => t \div DAY_MS >= day)
  BY SMT DEF wanted, toDbDate, DAY_MS
<1>7. i < start => calendarDateIn(i, zone) < day
  BY <1>4, <1>5, <1>6 DEF calendarDateIn
<1>8. before <= after /\ start <= i => Local(zone, start) <= Local(zone, i)
  BY <1>1, <1>4 DEF Local
<1>9. before <= after /\ start <= i => calendarDateIn(i, zone) >= day
  BY <1>2, <1>4, <1>5, <1>6, <1>8 DEF calendarDateIn
<1> QED BY <1>7, <1>9 DEF zone, start, wanted

-----------------------------------------------------------------------------
LEMMA Division ==
  ASSUME NEW a \in Nat, NEW b \in Nat \ {0}
  PROVE  /\ a \div b \in Nat /\ a % b \in Nat /\ a % b < b
         /\ a = (a \div b) * b + (a % b)
  BY SMT

(* An amount of any size and sign comes back from its decimal as it was. *)
THEOREM DecimalsRoundTrip ==
  ASSUME NEW v \in Int, NEW scale \in Nat \ {0}
  PROVE  /\ ~HasTooManyDigits(toDecimalString(v, scale), scale)
         /\ parseDecimalString(toDecimalString(v, scale), scale) = v
<1> DEFINE a == Abs(v)
           t == toDecimalString(v, scale)
<1>1. a \in Nat /\ v = IF v < 0 THEN -a ELSE a
  BY DEF Abs
<1> HIDE DEF a
<1>2. t.negative = (v < 0) /\ t.whole = a \div scale /\ t.fraction = a % scale /\ t.scale = scale
  BY DEF toDecimalString, a
<1> HIDE DEF t
<1>3. a \div scale \in Nat /\ a % scale \in Nat /\ a = (a \div scale) * scale + (a % scale)
  BY <1>1, Division
<1>4. scale \div scale = 1
  BY SMT
<1>5. t.whole * scale + t.fraction * (scale \div t.scale) = a
  BY <1>1, <1>2, <1>3, <1>4
<1>6. parseDecimalString(t, scale) = IF v < 0 THEN -a ELSE a
  BY <1>2, <1>5 DEF parseDecimalString
<1>7. ~(scale > scale)
  OBVIOUS
<1> QED BY <1>1, <1>2, <1>6, <1>7 DEF HasTooManyDigits, t

(* A quotient is rounded to the nearest amount, a half away from zero, whatever the signs. *)
THEOREM RoundsToTheNearest ==
  ASSUME NEW n \in Int, NEW d \in Int, d # 0
  PROVE  IsNearest(rounded(n, d), n, d)
<1> DEFINE top == Abs(n)
           bottom == Abs(d)
           q == top \div bottom
           rest == top % bottom
           up == IF rest * 2 >= bottom THEN q + 1 ELSE q
<1>1. top \in Nat /\ bottom \in Nat \ {0}
  BY DEF Abs
<1>2. q \in Nat /\ rest \in Nat /\ rest < bottom /\ top = q * bottom + rest
  BY <1>1, Division
<1>3. rounded(n, d) = IF (n < 0) # (d < 0) THEN -up ELSE up
  BY DEF rounded
<1>4. (n = top \/ n = -top) /\ (d = bottom \/ d = -bottom)
  BY DEF Abs
<1>5. (n < 0 => n = -top) /\ (~(n < 0) => n = top) /\ (d < 0 => d = -bottom) /\ (~(d < 0) => d = bottom)
  BY DEF Abs
<1> HIDE DEF top, bottom, q, rest
<1>6. up \in Nat /\ up * bottom \in Nat
      /\ \/ up * bottom - top = -rest /\ rest * 2 < bottom
         \/ up * bottom - top = bottom - rest /\ rest * 2 >= bottom
  <2>1. (q + 1) * bottom = q * bottom + bottom /\ q * bottom \in Nat
    BY <1>1, <1>2, SMT
  <2>2. CASE rest * 2 >= bottom
    BY <1>1, <1>2, <2>1, <2>2
  <2>3. CASE ~(rest * 2 >= bottom)
    BY <1>1, <1>2, <2>1, <2>3
  <2> QED BY <2>2, <2>3
<1> HIDE DEF up
<1>7. rounded(n, d) * d - n = up * bottom - top \/ rounded(n, d) * d - n = -(up * bottom - top)
  <2>1. (-up) * bottom = -(up * bottom) /\ up * (-bottom) = -(up * bottom) /\ (-up) * (-bottom) = up * bottom
    BY <1>1, <1>6, SMT
  <2>2. CASE n < 0 /\ d < 0
    BY <1>1, <1>3, <1>5, <1>6, <2>1, <2>2
  <2>3. CASE n < 0 /\ ~(d < 0)
    BY <1>1, <1>3, <1>5, <1>6, <2>1, <2>3
  <2>4. CASE ~(n < 0) /\ d < 0
    BY <1>1, <1>3, <1>5, <1>6, <2>1, <2>4
  <2>5. CASE ~(n < 0) /\ ~(d < 0)
    BY <1>1, <1>3, <1>5, <1>6, <2>1, <2>5
  <2> QED BY <2>2, <2>3, <2>4, <2>5
<1>8. rounded(n, d) * d = up * bottom \/ rounded(n, d) * d = -(up * bottom)
  <2>1. (-up) * bottom = -(up * bottom) /\ up * (-bottom) = -(up * bottom) /\ (-up) * (-bottom) = up * bottom
    BY <1>1, <1>6, SMT
  <2> QED BY <1>1, <1>3, <1>4, <1>6, <2>1
<1>9. \A i \in Int : Abs(i) = IF i < 0 THEN -i ELSE i
  BY DEF Abs
<1>10. 2 * Abs(rounded(n, d) * d - n) <= Abs(d)
  BY <1>1, <1>2, <1>6, <1>7, <1>9 DEF bottom
<1>11. 2 * Abs(rounded(n, d) * d - n) = Abs(d) => Abs(rounded(n, d) * d) > Abs(n)
  <2>1. SUFFICES ASSUME 2 * Abs(rounded(n, d) * d - n) = bottom PROVE Abs(rounded(n, d) * d) > top
    BY DEF bottom, top
  <2>2. Abs(rounded(n, d) * d - n) = up * bottom - top \/ Abs(rounded(n, d) * d - n) = -(up * bottom - top)
    BY <1>1, <1>6, <1>7, <1>9
  <2>3. up * bottom - top = bottom - rest
    BY <1>1, <1>2, <1>6, <2>1, <2>2
  <2>4. up * bottom > top
    BY <1>1, <1>2, <1>6, <2>3
  <2>5. Abs(rounded(n, d) * d) = up * bottom
    BY <1>6, <1>8, <1>9
  <2> QED BY <2>4, <2>5
<1> QED BY <1>10, <1>11 DEF IsNearest

-----------------------------------------------------------------------------
(* The rows of a copied budget fit together, whatever the template holds and in whatever   *)
(* order the database hands back what it has written.                                      *)

-----------------------------------------------------------------------------
(* Places *)

LEMMA PlaceIsNat ==
  ASSUME NEW S, Ordered(S), NEW x \in S
  PROVE  /\ Place(S, x) \in Nat
         /\ IsFiniteSet({y \in S : y.order < x.order})
<1>1. {y \in S : y.order < x.order} \in SUBSET S /\ IsFiniteSet(S)
  BY DEF Ordered
<1>2. IsFiniteSet({y \in S : y.order < x.order})
  BY <1>1, FS_Subset
<1> QED BY <1>2, FS_CardinalityType DEF Place

LEMMA PlaceGrows ==
  ASSUME NEW S, Ordered(S), NEW x \in S, NEW y \in S, x.order < y.order
  PROVE  Place(S, x) < Place(S, y)
<1> DEFINE A == {z \in S : z.order < x.order}
           B == {z \in S : z.order < y.order}
<1>1. x.order \in Int /\ y.order \in Int /\ \A z \in S : z.order \in Int
  BY DEF Ordered
<1>2. A \in SUBSET B
  BY <1>1
<1>3. x \in B /\ x \notin A
  BY <1>1
<1>4. IsFiniteSet(B) /\ Cardinality(A) \in Nat /\ Cardinality(B) \in Nat
  BY PlaceIsNat DEF Place
<1> HIDE DEF A, B
<1>5. Cardinality(A) <= Cardinality(B) /\ (Cardinality(B) = Cardinality(A) => B = A)
  BY <1>2, <1>4, FS_Subset
<1>6. Cardinality(A) < Cardinality(B)
  BY <1>3, <1>4, <1>5
<1> QED BY <1>6 DEF Place, A, B

LEMMA PlaceIsOrder ==
  ASSUME NEW S, Ordered(S), NEW x \in S, NEW y \in S
  PROVE  /\ Place(S, x) < Place(S, y) <=> x.order < y.order
         /\ Place(S, x) = Place(S, y) => x = y
<1>1. x.order \in Int /\ y.order \in Int /\ (x.order = y.order => x = y)
  BY DEF Ordered
<1>2. Place(S, x) \in Nat /\ Place(S, y) \in Nat
  BY PlaceIsNat
<1>3. x.order < y.order => Place(S, x) < Place(S, y)
  BY PlaceGrows
<1>4. y.order < x.order => Place(S, y) < Place(S, x)
  BY PlaceGrows
<1> QED BY <1>1, <1>2, <1>3, <1>4

(* Sorting finds, at the place of a row, the id that was made for it. *)
LEMMA SortedByPlace ==
  ASSUME NEW S, Ordered(S), NEW m \in [Nat -> Int],
         \A k, n \in Nat : k < n => m[k] < m[n],
         NEW x \in S
  PROVE  Nth({m[Place(S, y)] : y \in S}, Place(S, x)) = m[Place(S, x)]
<1> DEFINE ids == {m[Place(S, y)] : y \in S}
           Below(i) == {j \in ids : j < i}
<1>1. \A y \in S : Place(S, y) \in Nat
  BY PlaceIsNat
<1>2. \A k, n \in Nat : m[k] < m[n] <=> k < n
  <2>1. SUFFICES ASSUME NEW k \in Nat, NEW n \in Nat, m[k] < m[n] PROVE k < n
    OBVIOUS
  <2>2. m[k] \in Int /\ m[n] \in Int
    OBVIOUS
  <2>3. CASE k < n
    BY <2>3
  <2>4. CASE k = n
    BY <2>1, <2>2, <2>4
  <2>5. CASE n < k
    <3>1. m[n] < m[k]
      BY <2>5
    <3> QED BY <2>1, <2>2, <3>1
  <2> QED BY <2>3, <2>4, <2>5
<1>3. \A y \in S : Cardinality(Below(m[Place(S, y)])) = Place(S, y)
  <2>1. SUFFICES ASSUME NEW y \in S PROVE Cardinality(Below(m[Place(S, y)])) = Place(S, y)
    OBVIOUS
  <2> DEFINE A == {z \in S : z.order < y.order}
             B == Below(m[Place(S, y)])
             f == [z \in A |-> m[Place(S, z)]]
  <2>2. \A z \in S : z \in A <=> m[Place(S, z)] < m[Place(S, y)]
    BY <1>1, <1>2, PlaceIsOrder
  <2>3. f \in [A -> B]
    BY <2>2
  <2>4. \A z, w \in A : f[z] = f[w] => z = w
    <3>1. SUFFICES ASSUME NEW z \in A, NEW w \in A, m[Place(S, z)] = m[Place(S, w)] PROVE z = w
      OBVIOUS
    <3>2. Place(S, z) \in Nat /\ Place(S, w) \in Nat /\ m[Place(S, z)] \in Int
      BY <1>1
    <3>3. Place(S, z) = Place(S, w)
      BY <1>2, <3>1, <3>2
    <3> QED BY <3>3, PlaceIsOrder
  <2>5. \A i \in B : \E z \in A : f[z] = i
    BY <2>2
  <2>6. f \in Bijection(A, B)
    BY <2>3, <2>4, <2>5 DEF Bijection, Injection, Surjection, IsInjective
  <2>7. ExistsBijection(A, B) /\ IsFiniteSet(A)
    BY <2>6, PlaceIsNat DEF ExistsBijection
  <2> HIDE DEF A, B
  <2>8. Cardinality(B) = Cardinality(A)
    BY <2>7, FS_Bijection
  <2> QED BY <2>8 DEF A, B, Place
<1>4. m[Place(S, x)] \in ids
  OBVIOUS
<1>5. \A i \in ids : Cardinality(Below(i)) = Place(S, x) => i = m[Place(S, x)]
  BY <1>3
<1>6. Nth(ids, Place(S, x)) = CHOOSE i \in ids : Cardinality(Below(i)) = Place(S, x)
  BY DEF Nth
<1> HIDE DEF ids, Below
<1>7. (CHOOSE i \in ids : Cardinality(Below(i)) = Place(S, x)) = m[Place(S, x)]
  BY <1>3, <1>4, <1>5
<1> QED BY <1>6, <1>7 DEF ids

-----------------------------------------------------------------------------
(* Rows found again *)

LEMMA CopiesAre ==
  ASSUME NEW book, IsTemplate(book), NEW minted, IsMint(minted), NEW a \in Accounts(book)
  PROVE  CopyOf(book, minted, a) = minted.account[Place(Accounts(book), a)]
<1> DEFINE S == Accounts(book)
<1>1. {row.id : row \in WrittenAccounts(book, minted)} = {minted.account[Place(S, y)] : y \in S}
  <2>1. \A y \in S : [id |-> minted.account[Place(S, y)], of |-> y.id] \in WrittenAccounts(book, minted)
    BY DEF WrittenAccounts
  <2>2. \A row \in WrittenAccounts(book, minted) : \E y \in S : row.id = minted.account[Place(S, y)]
    BY DEF WrittenAccounts
  <2>3. \A y \in S : \E row \in WrittenAccounts(book, minted) : row.id = minted.account[Place(S, y)]
    BY <2>1
  <2> QED BY <2>2, <2>3
<1>2. Ordered(S) /\ minted.account \in [Nat -> Int]
      /\ \A k, n \in Nat : k < n => minted.account[k] < minted.account[n]
  BY DEF IsTemplate, IsMint
<1>3. Nth({minted.account[Place(S, y)] : y \in S}, Place(S, a)) = minted.account[Place(S, a)]
  BY <1>2, SortedByPlace
<1> QED BY <1>1, <1>3 DEF CopyOf

(* Ids of accounts ascend, so no two rows share one. *)
LEMMA MintIsInjective ==
  ASSUME NEW minted, IsMint(minted), NEW k \in Nat, NEW n \in Nat,
         minted.account[k] = minted.account[n]
  PROVE  k = n
<1>1. minted.account[k] \in Int /\ minted.account[n] \in Int
  BY DEF IsMint
<1>2. /\ k < n => minted.account[k] < minted.account[n]
      /\ n < k => minted.account[n] < minted.account[k]
  BY DEF IsMint
<1> QED BY <1>1, <1>2

LEMMA GroupsAre ==
  ASSUME NEW book, IsTemplate(book), NEW minted, NEW g \in Groups(book)
  PROVE  GroupAt(book, minted, Place(Groups(book), g)) = minted.group[Place(Groups(book), g)]
<1> DEFINE S == Groups(book)
           RowOf(h) == [id |-> minted.group[Place(S, h)], order |-> Place(S, h), of |-> h.id]
<1>1. RowOf(g) \in WrittenGroups(book, minted) /\ RowOf(g).order = Place(S, g)
  BY DEF WrittenGroups
<1>2. \A row \in WrittenGroups(book, minted) : row.order = Place(S, g) => row = RowOf(g)
  <2>1. SUFFICES ASSUME NEW h \in S, Place(S, h) = Place(S, g) PROVE RowOf(h) = RowOf(g)
    BY DEF WrittenGroups
  <2>2. h = g
    BY <2>1, PlaceIsOrder DEF IsTemplate
  <2> QED BY <2>2
<1> HIDE DEF RowOf
<1>3. (CHOOSE row \in WrittenGroups(book, minted) : row.order = Place(S, g)) = RowOf(g)
  BY <1>1, <1>2
<1>4. GroupAt(book, minted, Place(S, g)) =
        (CHOOSE row \in WrittenGroups(book, minted) : row.order = Place(S, g)).id
  BY DEF GroupAt
<1>5. RowOf(g).id = minted.group[Place(S, g)]
  BY DEF RowOf
<1> QED BY <1>3, <1>4, <1>5

(* The group and the order of a category row name its category. *)
LEMMA PlacedApart ==
  ASSUME NEW book, IsTemplate(book), NEW p \in Placed(book), NEW q \in Placed(book),
         Place(Groups(book), p[1]) = Place(Groups(book), q[1]), PlaceIn(book, p) = PlaceIn(book, q)
  PROVE  p = q
<1>1. /\ p[1] \in Groups(book) /\ p[2] \in Categories(book, p[1]) /\ p = <<p[1], p[2]>>
      /\ q[1] \in Groups(book) /\ q[2] \in Categories(book, q[1]) /\ q = <<q[1], q[2]>>
  BY DEF Placed
<1>2. Ordered(Groups(book)) /\ Ordered(Categories(book, p[1]))
  BY <1>1 DEF IsTemplate
<1>3. p[1] = q[1]
  BY <1>1, <1>2, PlaceIsOrder
<1>4. p[2] = q[2]
  BY <1>1, <1>2, <1>3, PlaceIsOrder DEF PlaceIn
<1> QED BY <1>1, <1>3, <1>4

LEMMA PlacesAreNat ==
  ASSUME NEW book, IsTemplate(book), NEW p \in Placed(book)
  PROVE  Place(Groups(book), p[1]) \in Nat /\ PlaceIn(book, p) \in Nat
<1>1. p[1] \in Groups(book) /\ p[2] \in Categories(book, p[1])
  BY DEF Placed
<1> QED BY <1>1, PlaceIsNat DEF IsTemplate, PlaceIn

LEMMA CategoriesAre ==
  ASSUME NEW book, IsTemplate(book), NEW minted, IsMint(minted), NEW p \in Placed(book)
  PROVE  LET g == Place(Groups(book), p[1])
             c == PlaceIn(book, p)
         IN  CategoryAt(book, minted, GroupAt(book, minted, g), c) = minted.category[<<g, c>>]
<1> DEFINE At(q) == Place(Groups(book), q[1])
           RowOf(q) == [id |-> minted.category[<<At(q), PlaceIn(book, q)>>],
                        group |-> GroupAt(book, minted, At(q)), order |-> PlaceIn(book, q),
                        of |-> q[2].id, default |-> DefaultIn(book, minted, q[2])]
           Mine(row) == row.group = GroupAt(book, minted, At(p)) /\ row.order = PlaceIn(book, p)
<1>0. WrittenCategories(book, minted) = {RowOf(q) : q \in Placed(book)}
  BY DEF WrittenCategories
<1>1. RowOf(p) \in WrittenCategories(book, minted) /\ Mine(RowOf(p))
  BY <1>0
<1>2. \A row \in WrittenCategories(book, minted) : Mine(row) => row = RowOf(p)
  <2>1. SUFFICES ASSUME NEW q \in Placed(book), GroupAt(book, minted, At(q)) = GroupAt(book, minted, At(p)),
                        PlaceIn(book, q) = PlaceIn(book, p)
                 PROVE  RowOf(q) = RowOf(p)
    <3>1. \A q \in Placed(book) : Mine(RowOf(q)) =>
            GroupAt(book, minted, At(q)) = GroupAt(book, minted, At(p)) /\ PlaceIn(book, q) = PlaceIn(book, p)
      OBVIOUS
    <3> HIDE DEF RowOf, Mine
    <3> QED BY <1>0, <3>1
  <2>2. q[1] \in Groups(book) /\ p[1] \in Groups(book)
    BY DEF Placed
  <2>3. minted.group[At(q)] = minted.group[At(p)]
    BY <2>1, <2>2, GroupsAre
  <2>4. At(q) = At(p)
    BY <2>3, PlacesAreNat DEF IsMint
  <2>5. q = p
    BY <2>1, <2>4, PlacedApart
  <2> QED BY <2>5
<1> HIDE DEF RowOf
<1>3. (CHOOSE row \in WrittenCategories(book, minted) : Mine(row)) = RowOf(p)
  BY <1>1, <1>2
<1>4. CategoryAt(book, minted, GroupAt(book, minted, At(p)), PlaceIn(book, p)) =
        (CHOOSE row \in WrittenCategories(book, minted) : Mine(row)).id
  BY DEF CategoryAt
<1>5. RowOf(p).id = minted.category[<<At(p), PlaceIn(book, p)>>]
  BY DEF RowOf
<1> QED BY <1>3, <1>4, <1>5

-----------------------------------------------------------------------------
(* The copy fits together *)

(* Accounts come back by their ids alone, in any order; sorted, each stands where the account
   it was written from stands (writeCopy). *)
THEOREM AccountsAreMatched ==
  ASSUME NEW book, IsTemplate(book), NEW minted, IsMint(minted)
  PROVE  AccountsMatch(book, minted)
<1>1. SUFFICES ASSUME NEW a \in Accounts(book), NEW b \in Accounts(book)
               PROVE  minted.account[Place(Accounts(book), b)] = CopyOf(book, minted, a) <=> b.id = a.id
  BY DEF AccountsMatch, WrittenAccounts
<1>2. CopyOf(book, minted, a) = minted.account[Place(Accounts(book), a)]
  BY CopiesAre
<1>3. Place(Accounts(book), a) \in Nat /\ Place(Accounts(book), b) \in Nat
  BY PlaceIsNat DEF IsTemplate
<1>4. Place(Accounts(book), b) = Place(Accounts(book), a) => b = a
  BY PlaceIsOrder DEF IsTemplate
<1>5. b.id = a.id => b = a
  BY DEF IsTemplate, Identified, Accounts
<1> QED BY <1>2, <1>3, <1>4, <1>5, MintIsInjective

LEMMA OriginalIs ==
  ASSUME NEW book, IsTemplate(book), NEW p \in Placed(book), NEW c \in book.categories, p[2].id = c.id
  PROVE  p[2] = c
<1>1. p[2] \in book.categories
  BY DEF Placed
<1> QED BY <1>1 DEF IsTemplate, Identified

(* Every copied category stands in the copy of its group, and its default account is the copy
   of the one its original names, or none where that is not among the accounts read. *)
THEOREM CategoriesFollow ==
  ASSUME NEW book, IsTemplate(book), NEW minted, IsMint(minted)
  PROVE  CategoriesHang(book, minted)
<1>1. SUFFICES ASSUME NEW p \in Placed(book), NEW c \in book.categories, p[2].id = c.id
               PROVE  /\ \E group \in WrittenGroups(book, minted) :
                           /\ group.id = GroupAt(book, minted, Place(Groups(book), p[1]))
                           /\ group.of = c.group
                      /\ \A d : d \in DefaultIn(book, minted, p[2]) <=>
                           \E account \in WrittenAccounts(book, minted) :
                             account.id = d /\ account.of = c.default
  <2> DEFINE Row(p) == [id |-> minted.category[<<Place(Groups(book), p[1]), PlaceIn(book, p)>>],
                        group |-> GroupAt(book, minted, Place(Groups(book), p[1])),
                        order |-> PlaceIn(book, p), of |-> p[2].id,
                        default |-> DefaultIn(book, minted, p[2])]
  <2>1. WrittenCategories(book, minted) = {Row(p) : p \in Placed(book)}
    BY DEF WrittenCategories
  <2>2. \A p \in Placed(book) :
          /\ Row(p).group = GroupAt(book, minted, Place(Groups(book), p[1]))
          /\ Row(p).of = p[2].id
          /\ Row(p).default = DefaultIn(book, minted, p[2])
    OBVIOUS
  <2>3. \A p \in Placed(book), c \in book.categories : p[2].id = c.id =>
          DefaultIn(book, minted, p[2]) =
            {account.id : account \in {r \in WrittenAccounts(book, minted) : r.of = c.default}}
    BY <1>1
  <2>4. \A p \in Placed(book), c \in book.categories : p[2].id = c.id =>
          \E group \in WrittenGroups(book, minted) :
            group.id = Row(p).group /\ group.of = c.group
    BY <1>1, <2>2
  <2> HIDE DEF Row
  <2> QED BY <2>1, <2>2, <2>3, <2>4 DEF CategoriesHang
<1>2. p[2] = c
  BY <1>1, OriginalIs
<1>3. p[1] \in Groups(book) /\ c.group = p[1].id
  BY <1>2 DEF Placed, Categories
<1>4. \E group \in WrittenGroups(book, minted) :
        group.id = GroupAt(book, minted, Place(Groups(book), p[1])) /\ group.of = c.group
  <2> DEFINE row == [id |-> minted.group[Place(Groups(book), p[1])],
                     order |-> Place(Groups(book), p[1]), of |-> p[1].id]
  <2>1. row \in WrittenGroups(book, minted)
    BY <1>3 DEF WrittenGroups
  <2>2. row.id = GroupAt(book, minted, Place(Groups(book), p[1])) /\ row.of = c.group
    BY <1>3, GroupsAre
  <2> QED BY <2>1, <2>2
<1>5. SUFFICES ASSUME NEW d
               PROVE  d \in DefaultIn(book, minted, c) <=>
                        \E account \in WrittenAccounts(book, minted) :
                          account.id = d /\ account.of = c.default
  BY <1>2, <1>4
<1>6. \A a \in Accounts(book) : CopyOf(book, minted, a) = minted.account[Place(Accounts(book), a)]
  BY CopiesAre
<1>7. d \in DefaultIn(book, minted, c) <=>
        \E a \in Accounts(book) : a.id = c.default /\ d = CopyOf(book, minted, a)
  BY DEF DefaultIn
<1>8. (\E account \in WrittenAccounts(book, minted) : account.id = d /\ account.of = c.default) <=>
        \E a \in Accounts(book) : minted.account[Place(Accounts(book), a)] = d /\ a.id = c.default
  <2> DEFINE Row(a) == [id |-> minted.account[Place(Accounts(book), a)], of |-> a.id]
  <2>1. WrittenAccounts(book, minted) = {Row(a) : a \in Accounts(book)}
    BY DEF WrittenAccounts
  <2>2. \A a \in Accounts(book) : Row(a).id = minted.account[Place(Accounts(book), a)] /\ Row(a).of = a.id
    OBVIOUS
  <2> HIDE DEF Row
  <2> QED BY <2>1, <2>2
<1> QED BY <1>6, <1>7, <1>8

(* Every copied goal hangs on the copy of its category, alone there, and is not due before the
   month it starts in. *)
THEOREM GoalsFollow ==
  ASSUME NEW book, IsTemplate(book), NEW minted, IsMint(minted),
         NEW copy, copy.month \in Int
  PROVE  GoalsHang(book, minted, copy)
<1> DEFINE Copied == GoalsCopied(book, copy)
           G(p) == Place(Groups(book), p[1])
           Row(q) == [category |-> CategoryAt(book, minted, GroupAt(book, minted, G(q[1])), PlaceIn(book, q[1])),
                      of |-> q[2], start |-> copy.month, due |-> q[2].due]
<1>1. WrittenGoals(book, minted, copy) = {Row(q) : q \in Copied}
  BY DEF WrittenGoals
<1>2. \A q \in Copied : /\ q[1] \in Placed(book) /\ q[2] \in book.goals
                        /\ q = <<q[1], q[2]>>
                        /\ q[2] \in Live(Goals(book, q[1][2]), copy.month)
  BY DEF GoalsCopied
<1>3. \A q \in Copied : /\ q[2].category = q[1][2].id
                        /\ q[2] \in Running(Goals(book, q[1][2]), copy.month)
                        /\ q[2].due # None => copy.month <= q[2].due
  BY <1>2 DEF Live, Running, Goals
<1>4. \A q \in Copied : Row(q).category = minted.category[<<G(q[1]), PlaceIn(book, q[1])>>]
  BY <1>2, CategoriesAre
<1>5. \A q \in Copied : \E row \in WrittenCategories(book, minted) :
        row.id = Row(q).category /\ row.of = Row(q).of.category
  <2>1. SUFFICES ASSUME NEW q \in Copied
                 PROVE  \E row \in WrittenCategories(book, minted) :
                          row.id = Row(q).category /\ row.of = q[2].category
    OBVIOUS
  <2> DEFINE p == q[1]
             row == [id |-> minted.category[<<G(p), PlaceIn(book, p)>>],
                     group |-> GroupAt(book, minted, G(p)), order |-> PlaceIn(book, p),
                     of |-> p[2].id, default |-> DefaultIn(book, minted, p[2])]
  <2>2. p \in Placed(book)
    BY <1>2
  <2>3. row \in WrittenCategories(book, minted)
    BY <2>2 DEF WrittenCategories
  <2>4. row.id = Row(q).category /\ row.of = q[2].category
    BY <1>3, <1>4
  <2> QED BY <2>3, <2>4
<1>6. ASSUME NEW q \in Copied, NEW r \in Copied, Row(q).category = Row(r).category
      PROVE  q = r
  <2>1. q[1] \in Placed(book) /\ r[1] \in Placed(book)
    BY <1>2
  <2>2. minted.category[<<G(q[1]), PlaceIn(book, q[1])>>] = minted.category[<<G(r[1]), PlaceIn(book, r[1])>>]
    BY <1>4, <1>6
  <2>3. G(q[1]) = G(r[1]) /\ PlaceIn(book, q[1]) = PlaceIn(book, r[1])
    BY <2>1, <2>2, PlacesAreNat DEF IsMint
  <2>4. q[1] = r[1]
    BY <2>1, <2>3, PlacedApart
  <2>5. q[2].start <= r[2].start /\ r[2].start <= q[2].start
    BY <1>2, <1>3, <2>4 DEF Live
  <2>6. q[2].start \in Int /\ r[2].start \in Int /\ q[2] \in book.goals /\ r[2] \in book.goals
    BY <1>2 DEF IsTemplate
  <2>7. q[2].start = r[2].start /\ q[2].category = r[2].category
    BY <1>3, <2>4, <2>5, <2>6
  <2>8. q[2] = r[2]
    BY <2>6, <2>7 DEF IsTemplate
  <2> QED BY <1>2, <2>4, <2>8
<1>7. \A q \in Copied : Row(q).due # None => Row(q).start <= Row(q).due
  BY <1>3
<1> HIDE DEF Row, Copied
<1> QED BY <1>1, <1>5, <1>6, <1>7 DEF GoalsHang
=============================================================================
