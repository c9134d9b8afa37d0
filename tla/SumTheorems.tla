---------------------------- MODULE SumTheorems ----------------------------
(***************************************************************************)
(* What sums over finite sets do.  MapThenSumSet is the community modules' *)
(* recursive function over the subsets of a set; here are its equations    *)
(* for a summand given as a function.  Induction is by a least             *)
(* counterexample, so that nothing takes an operator as a parameter.       *)
(***************************************************************************)
EXTENDS Integers, FiniteSetsExt, FiniteSetTheorems, WellFoundedInduction, TLAPS

Sum(f, S) == MapThenSumSet(LAMBDA i : f[i], S)

(* The element a sum takes first, and the recursion it solves. *)
First(s) == CHOOSE i \in s : TRUE

Solves(g, f, S) ==
    g = [s \in SUBSET S |-> IF s = {} THEN 0 ELSE f[First(s)] + g[s \ {First(s)}]]

-----------------------------------------------------------------------------
(* A set of numbers that is not empty has a least member. *)
LEMMA LeastMember ==
    ASSUME NEW T, T \subseteq Nat, T # {}
    PROVE  \E n \in T : \A m \in T : n <= m
<1> DEFINE R == {p \in Nat \X Nat : p[1] < p[2]}
<1>1. IsWellFoundedOn(R, Nat)
  BY NatLessThanWellFounded DEF OpToRel
<1>2. \A m, n \in Nat : m < n => <<m, n>> \in R
  OBVIOUS
<1> HIDE DEF R
<1>3. PICK n \in T : \A m \in T : ~(<<m, n>> \in R)
  BY <1>1, WFMin
<1>4. ASSUME NEW m \in T PROVE n <= m
  <2>1. m \in Nat /\ n \in Nat /\ ~(m < n)
    BY <1>2, <1>3
  <2>2. QED
    BY <2>1
<1>5. QED
  BY <1>4

(* Induction over the sizes of finite sets: a family of finite sets that   *)
(* is not empty has a member of least size.                                *)
LEMMA SmallestMember ==
    ASSUME NEW F, F # {}, \A s \in F : IsFiniteSet(s)
    PROVE  \E s \in F : \A t \in F : Cardinality(s) <= Cardinality(t)
<1> DEFINE T == {Cardinality(s) : s \in F}
<1>1. T \subseteq Nat /\ T # {}
  BY FS_CardinalityType
<1> HIDE DEF T
<1>2. PICK n \in T : \A m \in T : n <= m
  BY <1>1, LeastMember
<1>3. QED
  BY <1>2 DEF T

(* The element taken first is a member. *)
LEMMA FirstIn == \A s : s # {} => First(s) \in s
  BY DEF First

(* Taking an element away makes a finite set smaller. *)
LEMMA Smaller ==
    ASSUME NEW s, NEW i \in s, IsFiniteSet(s)
    PROVE  /\ IsFiniteSet(s \ {i})
           /\ Cardinality(s \ {i}) = Cardinality(s) - 1
           /\ Cardinality(s) \in Nat /\ Cardinality(s \ {i}) \in Nat
  BY FS_RemoveElement, FS_CardinalityType

(* Two solutions agree wherever both are defined. *)
LEMMA SolutionsAgree ==
    ASSUME NEW f, NEW g, NEW h, NEW S, NEW T, IsFiniteSet(S),
           Solves(g, f, S), Solves(h, f, T)
    PROVE  \A s \in SUBSET (S \cap T) : g[s] = h[s]
<1> DEFINE F == {s \in SUBSET (S \cap T) : g[s] # h[s]}
<1> SUFFICES ASSUME F # {} PROVE FALSE
  OBVIOUS
<1>1. \A s \in F : IsFiniteSet(s)
  BY FS_Subset
<1>2. PICK s \in F : \A t \in F : Cardinality(s) <= Cardinality(t)
  <2> HIDE DEF F
  <2>1. QED
    BY <1>1, SmallestMember
<1>3. s # {}
  BY DEF Solves
<1> DEFINE t == s \ {First(s)}
<1>4. First(s) \in s /\ IsFiniteSet(s)
  BY <1>1, <1>3, FirstIn
<1>5. Cardinality(t) < Cardinality(s) /\ Cardinality(t) \in Nat /\ Cardinality(s) \in Nat
  BY <1>4, Smaller, SMTT(40)
<1>6. t \notin F
  <2> HIDE DEF F, t
  <2>1. QED
    BY <1>2, <1>5
<1>7. g[t] = h[t] /\ t \in SUBSET S /\ t \in SUBSET T
  BY <1>6
<1>8. g[s] = f[First(s)] + g[t] /\ h[s] = f[First(s)] + h[t]
  BY <1>3 DEF Solves
<1>9. QED
  BY <1>7, <1>8

(* The recursion solved on the subsets of at most n elements. *)
Upto(S, n) == {s \in SUBSET S : Cardinality(s) <= n}

SolvesUpto(g, f, S, n) ==
    /\ g = [s \in Upto(S, n) |-> g[s]]
    /\ \A s \in Upto(S, n) :
          g[s] = IF s = {} THEN 0 ELSE f[First(s)] + g[s \ {First(s)}]

(* There is a solution on the subsets of every size, by induction on the size. *)
LEMMA SolutionUpto ==
    ASSUME NEW f, NEW S, IsFiniteSet(S)
    PROVE  \A n \in Nat : \E g : SolvesUpto(g, f, S, n)
<1> DEFINE T == {n \in Nat : ~\E g : SolvesUpto(g, f, S, n)}
<1> SUFFICES ASSUME T # {} PROVE FALSE
  OBVIOUS
<1>1. PICK n \in T : \A m \in T : n <= m
  BY LeastMember
<1>2. \A s \in SUBSET S : IsFiniteSet(s) /\ Cardinality(s) \in Nat
  BY FS_Subset, FS_CardinalityType
<1>3. n # 0
  <2> SUFFICES ASSUME n = 0 PROVE \E g : SolvesUpto(g, f, S, n)
    OBVIOUS
  <2> DEFINE g == [s \in Upto(S, 0) |-> 0]
  <2>1. \A s \in Upto(S, 0) : s = {}
    BY <1>2, FS_EmptySet DEF Upto
  <2>2. SolvesUpto(g, f, S, 0)
    BY <2>1 DEF SolvesUpto
  <2>3. QED
    BY <2>2
<1>4. PICK g : SolvesUpto(g, f, S, n - 1)
  BY <1>1, <1>3
<1> DEFINE h == [s \in Upto(S, n) |->
                   IF s = {} THEN 0 ELSE f[First(s)] + g[s \ {First(s)}]]
<1>5. ASSUME NEW s \in Upto(S, n - 1)
      PROVE  s \in Upto(S, n) /\ h[s] = g[s]
  <2>1. s \in Upto(S, n)
    BY <1>2 DEF Upto
  <2>2. g[s] = IF s = {} THEN 0 ELSE f[First(s)] + g[s \ {First(s)}]
    BY <1>4 DEF SolvesUpto
  <2>3. QED
    BY <2>1, <2>2
<1>6. \A s \in Upto(S, n) : s # {} => s \ {First(s)} \in Upto(S, n - 1)
  BY <1>2, FirstIn, Smaller DEF Upto
<1>7. SolvesUpto(h, f, S, n)
  BY <1>5, <1>6 DEF SolvesUpto
<1>8. QED
  BY <1>7

(* So the recursion has a solution on all the subsets of a finite set. *)
LEMMA SolutionExists ==
    ASSUME NEW f, NEW S, IsFiniteSet(S)
    PROVE  \E g : Solves(g, f, S)
<1> DEFINE n == Cardinality(S)
<1>1. n \in Nat
  BY FS_CardinalityType
<1>2. PICK g : SolvesUpto(g, f, S, n)
  BY <1>1, SolutionUpto
<1>3. Upto(S, n) = SUBSET S
  BY <1>1, FS_Subset, FS_CardinalityType DEF Upto
<1>4. Solves(g, f, S)
  BY <1>2, <1>3 DEF SolvesUpto, Solves
<1>5. QED
  BY <1>4

(* A sum is what any solution gives. *)
LEMMA SumSolves ==
    ASSUME NEW f, NEW S, IsFiniteSet(S), NEW g, Solves(g, f, S)
    PROVE  Sum(f, S) = g[S]
<1> DEFINE h == CHOOSE iter : iter = [s \in SUBSET S |->
                   IF s = {} THEN 0
                   ELSE f[CHOOSE i \in s : TRUE] + iter[s \ {CHOOSE i \in s : TRUE}]]
<1>1. Sum(f, S) = h[S]
  BY Zenon DEF Sum, MapThenSumSet, MapThenFoldSet
<1>2. \E iter : iter = [s \in SUBSET S |->
                   IF s = {} THEN 0
                   ELSE f[CHOOSE i \in s : TRUE] + iter[s \ {CHOOSE i \in s : TRUE}]]
  BY Zenon DEF Solves, First
<1>3. h = [s \in SUBSET S |->
             IF s = {} THEN 0
             ELSE f[CHOOSE i \in s : TRUE] + h[s \ {CHOOSE i \in s : TRUE}]]
  BY Zenon, <1>2
<1> HIDE DEF h
<1>4. Solves(h, f, S)
  BY Zenon, <1>3 DEF Solves, First
<1>5. QED
  BY <1>1, <1>4, SolutionsAgree

-----------------------------------------------------------------------------
(* The recursion equations of a sum. *)
LEMMA SumStep ==
    ASSUME NEW f, NEW S, IsFiniteSet(S)
    PROVE  /\ S = {} => Sum(f, S) = 0
           /\ S # {} => Sum(f, S) = f[First(S)] + Sum(f, S \ {First(S)})
<1>1. PICK g : Solves(g, f, S)
  BY SolutionExists
<1>2. Sum(f, S) = g[S]
  BY <1>1, SumSolves
<1>3. CASE S = {}
  BY <1>1, <1>2, <1>3 DEF Solves
<1>4. CASE S # {}
  <2> DEFINE T == S \ {First(S)}
  <2>1. IsFiniteSet(T) /\ T \subseteq S
    BY FS_Subset
  <2> HIDE DEF T
  <2>2. PICK h : Solves(h, f, T)
    BY <2>1, SolutionExists
  <2>3. Sum(f, T) = h[T]
    BY <2>1, <2>2, SumSolves
  <2>4. h[T] = g[T]
    <3>1. T \in SUBSET (T \cap S)
      BY <2>1
    <3>2. QED
      BY <1>1, <2>1, <2>2, <3>1, SolutionsAgree
  <2>5. g[S] = f[First(S)] + g[T]
    BY <1>1, <1>4 DEF Solves, T
  <2>6. QED
    BY <1>2, <1>4, <2>3, <2>4, <2>5 DEF T
<1>5. QED
  BY <1>3, <1>4

(* A sum of natural numbers is one. *)
LEMMA SumNat ==
    ASSUME NEW f, NEW S, IsFiniteSet(S), \A i \in S : f[i] \in Nat
    PROVE  Sum(f, S) \in Nat
<1> DEFINE F == {s \in SUBSET S : Sum(f, s) \notin Nat}
<1> SUFFICES ASSUME F # {} PROVE FALSE
  OBVIOUS
<1>1. \A s \in F : IsFiniteSet(s) /\ s \subseteq S
  BY FS_Subset
<1>2. \A s \in SUBSET S : s \notin F => Sum(f, s) \in Nat
  OBVIOUS
<1>3. \A s \in F : Sum(f, s) \notin Nat
  OBVIOUS
<1> HIDE DEF F
<1>4. PICK s \in F : \A t \in F : Cardinality(s) <= Cardinality(t)
  BY <1>1, SmallestMember
<1>5. s # {}
  <2>1. s = {} => Sum(f, s) = 0
    BY <1>1, SumStep
  <2>2. QED
    BY <1>3, <2>1
<1> DEFINE t == s \ {First(s)}
<1>6. First(s) \in s
  BY <1>5, FirstIn
<1>7. t \notin F
  <2>1. Cardinality(t) = Cardinality(s) - 1 /\ Cardinality(s) \in Nat
    BY <1>1, <1>6, Smaller
  <2> HIDE DEF t
  <2>2. QED
    BY <1>4, <2>1
<1>8. Sum(f, t) \in Nat
  BY <1>1, <1>2, <1>7
<1>9. Sum(f, s) = f[First(s)] + Sum(f, t)
  BY <1>1, <1>5, SumStep
<1>10. Sum(f, s) \in Nat
  BY <1>1, <1>6, <1>8, <1>9
<1>11. QED
  BY <1>3, <1>10

(* Summands that are no greater make a sum that is no greater, term by     *)
(* term up to an allowance.                                                *)
LEMMA SumLeq ==
    ASSUME NEW f, NEW g, NEW h, NEW S, IsFiniteSet(S),
           \A i \in S : /\ f[i] \in Nat /\ g[i] \in Nat /\ h[i] \in Nat
                        /\ f[i] <= g[i] + h[i]
    PROVE  Sum(f, S) <= Sum(g, S) + Sum(h, S)
<1> DEFINE F == {s \in SUBSET S : ~(Sum(f, s) <= Sum(g, s) + Sum(h, s))}
<1> SUFFICES ASSUME F # {} PROVE FALSE
  OBVIOUS
<1>1. \A s \in F : IsFiniteSet(s) /\ s \subseteq S
  BY FS_Subset
<1>2. \A s \in SUBSET S : s \notin F => Sum(f, s) <= Sum(g, s) + Sum(h, s)
  OBVIOUS
<1>3. \A s \in F : ~(Sum(f, s) <= Sum(g, s) + Sum(h, s))
  OBVIOUS
<1> HIDE DEF F
<1>4. PICK s \in F : \A t \in F : Cardinality(s) <= Cardinality(t)
  BY <1>1, SmallestMember
<1>5. s # {}
  <2>1. CASE s = {}
    <3>1. Sum(f, s) = 0 /\ Sum(g, s) = 0 /\ Sum(h, s) = 0
      BY <1>1, <2>1, SumStep
    <3>2. QED
      BY <1>3, <3>1
  <2>2. QED
    BY <2>1
<1> DEFINE t == s \ {First(s)}
<1>6. First(s) \in s /\ First(s) \in S
  BY <1>1, <1>5, FirstIn
<1>7. t \notin F /\ IsFiniteSet(t)
  <2>1. Cardinality(t) = Cardinality(s) - 1 /\ Cardinality(s) \in Nat /\ IsFiniteSet(t)
    BY <1>1, <1>6, Smaller
  <2> HIDE DEF t
  <2>2. QED
    BY <1>4, <2>1
<1>8. t \subseteq S
  BY <1>1
<1>9. Sum(f, t) <= Sum(g, t) + Sum(h, t)
  BY <1>2, <1>7, <1>8
<1>10. Sum(f, t) \in Nat
  BY <1>7, <1>8, SumNat
<1>11. Sum(g, t) \in Nat
  BY <1>7, <1>8, SumNat
<1>12. Sum(h, t) \in Nat
  BY <1>7, <1>8, SumNat
<1>13. /\ Sum(f, s) = f[First(s)] + Sum(f, t) /\ Sum(g, s) = g[First(s)] + Sum(g, t)
       /\ Sum(h, s) = h[First(s)] + Sum(h, t)
  BY <1>1, <1>5, SumStep
<1>14. QED
  <2> HIDE DEF t
  <2>1. QED
    BY <1>3, <1>6, <1>9, <1>10, <1>11, <1>12, <1>13

(* Only the summands count. *)
LEMMA SumSame ==
    ASSUME NEW f, NEW g, NEW S, IsFiniteSet(S), \A i \in S : f[i] = g[i]
    PROVE  Sum(f, S) = Sum(g, S)
<1>1. PICK h : Solves(h, f, S)
  BY SolutionExists
<1>2. \A s \in SUBSET S : s # {} => f[First(s)] = g[First(s)]
  BY FirstIn
<1>3. Solves(h, g, S)
  BY <1>1, <1>2, Zenon DEF Solves
<1>4. QED
  BY <1>1, <1>3, SumSolves

(* Any member may be taken out of a sum. *)
LEMMA SumRemove ==
    ASSUME NEW f, NEW S, IsFiniteSet(S), \A i \in S : f[i] \in Nat, NEW a \in S
    PROVE  Sum(f, S) = f[a] + Sum(f, S \ {a})
<1> DEFINE Taken(s) == \A i \in s : Sum(f, s) = f[i] + Sum(f, s \ {i})
           F == {s \in SUBSET S : ~Taken(s)}
<1> SUFFICES ASSUME F # {} PROVE FALSE
  OBVIOUS
<1>1. \A s \in F : IsFiniteSet(s) /\ s \subseteq S /\ ~Taken(s)
  BY FS_Subset
<1>2. \A s \in SUBSET S : s \notin F => Taken(s)
  OBVIOUS
<1> HIDE DEF F
<1>3. PICK s \in F : \A t \in F : Cardinality(s) <= Cardinality(t)
  BY <1>1, SmallestMember
<1>4. ASSUME NEW i \in s PROVE Taken(s \ {i})
  <2>1. Cardinality(s \ {i}) = Cardinality(s) - 1 /\ Cardinality(s) \in Nat
    BY <1>1, Smaller
  <2>2. s \ {i} \notin F
    BY <1>3, <2>1
  <2>3. QED
    BY <1>1, <1>2, <2>2
<1>5. ASSUME NEW i \in s PROVE Sum(f, s) = f[i] + Sum(f, s \ {i})
  <2> DEFINE c == First(s)
  <2>1. c \in s
    BY FirstIn
  <2>2. Sum(f, s) = f[c] + Sum(f, s \ {c})
    BY <1>1, SumStep
  <2> HIDE DEF c
  <2>3. CASE i = c
    BY <2>2, <2>3
  <2>4. CASE i # c
    <3>1. Sum(f, s \ {c}) = f[i] + Sum(f, (s \ {c}) \ {i})
      BY <1>4, <2>1, <2>4
    <3>2. Sum(f, s \ {i}) = f[c] + Sum(f, (s \ {i}) \ {c})
      BY <1>4, <2>1, <2>4
    <3>3. (s \ {c}) \ {i} = (s \ {i}) \ {c}
      OBVIOUS
    <3> DEFINE u == (s \ {i}) \ {c}
    <3>4. IsFiniteSet(u) /\ \A j \in u : f[j] \in Nat
      BY <1>1, FS_Subset
    <3>5. Sum(f, u) \in Nat
      <4> HIDE DEF u
      <4>1. QED
        BY <3>4, SumNat
    <3>6. f[i] \in Nat /\ f[c] \in Nat
      BY <1>1, <2>1
    <3> HIDE DEF u
    <3>7. Sum(f, s \ {c}) = f[i] + Sum(f, u) /\ Sum(f, s \ {i}) = f[c] + Sum(f, u)
      BY <3>1, <3>2, <3>3 DEF u
    <3>8. QED
      BY <2>2, <3>5, <3>6, <3>7
  <2>5. QED
    BY <2>3, <2>4
<1>6. QED
  BY <1>1, <1>5

(* A new member adds its summand. *)
LEMMA SumAdd ==
    ASSUME NEW f, NEW S, IsFiniteSet(S), NEW a, a \notin S,
           \A i \in S \cup {a} : f[i] \in Nat
    PROVE  Sum(f, S \cup {a}) = f[a] + Sum(f, S)
<1>1. IsFiniteSet(S \cup {a}) /\ (S \cup {a}) \ {a} = S
  BY FS_AddElement
<1>2. QED
  BY <1>1, SumRemove

(* Fewer members make no greater sum. *)
LEMMA SumSubset ==
    ASSUME NEW f, NEW S, IsFiniteSet(S), \A i \in S : f[i] \in Nat, NEW T \in SUBSET S
    PROVE  IsFiniteSet(T) /\ Sum(f, T) <= Sum(f, S)
<1> DEFINE F == {s \in SUBSET S : T \subseteq s /\ ~(Sum(f, T) <= Sum(f, s))}
<1>1. IsFiniteSet(T)
  BY FS_Subset
<1>2. Sum(f, T) \in Nat
  BY <1>1, SumNat
<1> SUFFICES ASSUME F # {} PROVE FALSE
  BY <1>1
<1>3. \A s \in F : IsFiniteSet(s) /\ s \subseteq S /\ T \subseteq s /\ ~(Sum(f, T) <= Sum(f, s))
  BY FS_Subset
<1>4. \A s \in SUBSET S : T \subseteq s /\ s \notin F => Sum(f, T) <= Sum(f, s)
  OBVIOUS
<1> HIDE DEF F
<1>5. PICK s \in F : \A t \in F : Cardinality(s) <= Cardinality(t)
  BY <1>3, SmallestMember
<1>6. s # T
  BY <1>2, <1>3
<1>7. PICK a \in s : a \notin T
  BY <1>3, <1>6
<1> DEFINE t == s \ {a}
<1>8. t \in SUBSET S /\ T \subseteq t
  BY <1>3, <1>7
<1>9. t \notin F /\ IsFiniteSet(t)
  <2>1. Cardinality(t) = Cardinality(s) - 1 /\ Cardinality(s) \in Nat /\ IsFiniteSet(t)
    BY <1>3, Smaller
  <2> HIDE DEF t
  <2>2. QED
    BY <1>5, <2>1
<1>10. Sum(f, s) = f[a] + Sum(f, t)
  BY <1>3, SumRemove
<1>11. Sum(f, t) \in Nat
  BY <1>8, <1>9, SumNat
<1>12. Sum(f, T) <= Sum(f, t)
  BY <1>4, <1>8, <1>9
<1>13. f[a] \in Nat
  BY <1>3
<1>14. QED
  <2> HIDE DEF t
  <2>1. QED
    BY <1>2, <1>3, <1>10, <1>11, <1>12, <1>13

(* What is summed once may be summed as something greater elsewhere. *)
LEMMA SumInto ==
    ASSUME NEW f, NEW g, NEW S, NEW T, IsFiniteSet(S), IsFiniteSet(T),
           \A i \in S : f[i] \in Nat, \A i \in T : g[i] \in Nat,
           \A i \in S : f[i] = 0 \/ (i \in T /\ f[i] <= g[i])
    PROVE  Sum(f, S) <= Sum(g, T)
<1> DEFINE Into(s, t) == \A i \in s : f[i] = 0 \/ (i \in t /\ f[i] <= g[i])
           Ok(s) == \A t \in SUBSET T : Into(s, t) => Sum(f, s) <= Sum(g, t)
           F == {s \in SUBSET S : ~Ok(s)}
<1> SUFFICES ASSUME F # {} PROVE FALSE
  OBVIOUS
<1>1. \A s \in F : IsFiniteSet(s) /\ s \subseteq S /\ ~Ok(s)
  BY FS_Subset
<1>2. \A s \in SUBSET S : s \notin F => Ok(s)
  OBVIOUS
<1> HIDE DEF F
<1>3. PICK s \in F : \A t \in F : Cardinality(s) <= Cardinality(t)
  BY <1>1, SmallestMember
<1>4. PICK t \in SUBSET T : Into(s, t) /\ ~(Sum(f, s) <= Sum(g, t))
  BY <1>1
<1>5. IsFiniteSet(t) /\ \A i \in t : g[i] \in Nat
  BY FS_Subset
<1>6. Sum(g, t) \in Nat
  BY <1>5, SumNat
<1>7. s # {}
  <2>1. s = {} => Sum(f, s) = 0
    BY <1>1, SumStep
  <2>2. QED
    BY <1>4, <1>6, <2>1
<1> DEFINE a == First(s)
           u == s \ {a}
<1>8. a \in s /\ f[a] \in Nat
  BY <1>1, <1>7, FirstIn
<1>9. Sum(f, s) = f[a] + Sum(f, u)
  BY <1>1, <1>7, SumStep
<1> HIDE DEF a
<1>10. IsFiniteSet(u) /\ u \subseteq S /\ Ok(u)
  <2>1. Cardinality(u) = Cardinality(s) - 1 /\ Cardinality(s) \in Nat /\ IsFiniteSet(u)
    BY <1>1, <1>8, Smaller
  <2>2. u \notin F
    BY <1>3, <2>1
  <2>3. QED
    BY <1>1, <1>2, <2>1, <2>2
<1>11. Sum(f, u) \in Nat
  <2> HIDE DEF u
  <2>1. QED
    BY <1>10, SumNat
<1>12. CASE f[a] = 0
  <2>1. Into(u, t)
    BY <1>4
  <2>2. Sum(f, u) <= Sum(g, t)
    BY <1>10, <2>1
  <2>3. QED
    BY <1>4, <1>6, <1>9, <1>11, <1>12, <2>2
<1>13. CASE a \in t /\ f[a] <= g[a]
  <2>1. Into(u, t \ {a})
    BY <1>4
  <2>2. t \ {a} \in SUBSET T
    OBVIOUS
  <2>3. Sum(f, u) <= Sum(g, t \ {a})
    BY <1>10, <2>1, <2>2
  <2>4. Sum(g, t) = g[a] + Sum(g, t \ {a})
    BY <1>5, <1>13, SumRemove
  <2>5. IsFiniteSet(t \ {a}) /\ \A i \in t \ {a} : g[i] \in Nat
    BY <1>5, FS_Subset
  <2>6. Sum(g, t \ {a}) \in Nat
    BY <2>5, SumNat
  <2>7. g[a] \in Nat
    BY <1>5, <1>13
  <2> HIDE DEF u
  <2>8. QED
    BY <1>4, <1>8, <1>9, <1>11, <1>13, <2>3, <2>4, <2>6, <2>7
<1>14. QED
  BY <1>4, <1>8, <1>12, <1>13

(* The sum over two sets that have nothing in common. *)
LEMMA SumUnion ==
    ASSUME NEW f, NEW S, NEW T, IsFiniteSet(S), IsFiniteSet(T), S \cap T = {},
           \A i \in S \cup T : f[i] \in Nat
    PROVE  Sum(f, S \cup T) = Sum(f, S) + Sum(f, T)
<1> DEFINE Ok(s) == Sum(f, s \cup T) = Sum(f, s) + Sum(f, T)
           F == {s \in SUBSET S : ~Ok(s)}
<1> SUFFICES ASSUME F # {} PROVE FALSE
  OBVIOUS
<1>1. \A s \in F : IsFiniteSet(s) /\ s \subseteq S /\ ~Ok(s)
  BY FS_Subset
<1>2. \A s \in SUBSET S : s \notin F => Ok(s)
  OBVIOUS
<1> HIDE DEF F
<1>3. PICK s \in F : \A t \in F : Cardinality(s) <= Cardinality(t)
  BY <1>1, SmallestMember
<1>4. Sum(f, T) \in Nat
  BY SumNat
<1>5. s # {}
  <2>1. CASE s = {}
    <3>1. Sum(f, s) = 0
      BY <1>1, <2>1, SumStep
    <3>2. s \cup T = T
      BY <2>1
    <3>3. Sum(f, s \cup T) = Sum(f, T)
      BY <3>2
    <3>4. Ok(s)
      BY <1>4, <3>1, <3>3
    <3>5. QED
      BY <1>1, <3>4
  <2>2. QED
    BY <2>1
<1>6. PICK a \in s : TRUE
  BY <1>5
<1> DEFINE u == s \ {a}
<1>7. Ok(u) /\ IsFiniteSet(u)
  <2>1. Cardinality(u) = Cardinality(s) - 1 /\ Cardinality(s) \in Nat /\ IsFiniteSet(u)
    BY <1>1, Smaller
  <2>2. u \notin F
    BY <1>3, <2>1
  <2>3. QED
    BY <1>1, <1>2, <2>1, <2>2
<1>8. Sum(f, s) = f[a] + Sum(f, u)
  <2>1. IsFiniteSet(s) /\ \A i \in s : f[i] \in Nat
    BY <1>1
  <2>2. QED
    BY <2>1, SumRemove
<1>9. Sum(f, s \cup T) = f[a] + Sum(f, u \cup T)
  <2>1. IsFiniteSet(s \cup T) /\ a \in s \cup T /\ \A i \in s \cup T : f[i] \in Nat
    BY <1>1, FS_Union
  <2>2. (s \cup T) \ {a} = u \cup T
    BY <1>1
  <2> DEFINE V == s \cup T
  <2> HIDE DEF V
  <2>3. Sum(f, V) = f[a] + Sum(f, V \ {a})
    BY <2>1, SumRemove DEF V
  <2>4. QED
    BY <2>2, <2>3 DEF V
<1>10. Sum(f, u) \in Nat /\ f[a] \in Nat
  <2>1. \A i \in u : f[i] \in Nat
    BY <1>1
  <2>2. Sum(f, u) \in Nat
    BY <1>7, <2>1, SumNat
  <2>3. QED
    BY <1>1, <2>2
<1>11. Ok(s)
  <2> HIDE DEF u
  <2>1. QED
    BY <1>4, <1>7, <1>8, <1>9, <1>10
<1>12. QED
  BY <1>1, <1>11

(* Summands that are no greater, and what any one of them lacks.          *)
LEMMA SumLess ==
    ASSUME NEW f, NEW g, NEW S, IsFiniteSet(S),
           \A i \in S : f[i] \in Nat /\ g[i] \in Nat /\ f[i] <= g[i]
    PROVE  /\ Sum(f, S) \in Nat /\ Sum(g, S) \in Nat /\ Sum(f, S) <= Sum(g, S)
           /\ \A a \in S : Sum(f, S) + g[a] <= Sum(g, S) + f[a]
<1> DEFINE z == [i \in S |-> 0]
<1>1. \A T \in SUBSET S : Sum(f, T) <= Sum(g, T) /\ Sum(f, T) \in Nat /\ Sum(g, T) \in Nat
  <2> SUFFICES ASSUME NEW T \in SUBSET S
               PROVE  Sum(f, T) <= Sum(g, T) /\ Sum(f, T) \in Nat /\ Sum(g, T) \in Nat
    OBVIOUS
  <2>1. IsFiniteSet(T)
    BY FS_Subset
  <2>2. Sum(z, T) = 0
    <3> DEFINE F == {s \in SUBSET T : Sum(z, s) # 0}
    <3> SUFFICES ASSUME F # {} PROVE FALSE
      OBVIOUS
    <3>1. \A s \in F : IsFiniteSet(s) /\ s \subseteq T
      BY <2>1, FS_Subset
    <3>2. \A s \in SUBSET T : s \notin F => Sum(z, s) = 0
      OBVIOUS
    <3>3. \A s \in F : Sum(z, s) # 0
      OBVIOUS
    <3> HIDE DEF F
    <3>4. PICK s \in F : \A t \in F : Cardinality(s) <= Cardinality(t)
      BY <3>1, SmallestMember
    <3>5. s # {}
      BY <3>1, <3>3, SumStep
    <3>6. First(s) \in s /\ First(s) \in S
      BY <3>1, <3>5, FirstIn
    <3>7. IsFiniteSet(s \ {First(s)}) /\ Cardinality(s \ {First(s)}) < Cardinality(s)
          /\ Cardinality(s \ {First(s)}) \in Nat /\ Cardinality(s) \in Nat
      <4>1. IsFiniteSet(s)
        BY <3>1
      <4>2. /\ IsFiniteSet(s \ {First(s)})
            /\ Cardinality(s \ {First(s)}) = Cardinality(s) - 1
            /\ Cardinality(s) \in Nat /\ Cardinality(s \ {First(s)}) \in Nat
        BY <3>6, <4>1, Smaller
      <4>3. QED
        BY <4>2
    <3>8. s \ {First(s)} \notin F
      BY <3>4, <3>7
    <3>9. Sum(z, s \ {First(s)}) = 0
      BY <3>1, <3>2, <3>8
    <3>10. Sum(z, s) = z[First(s)] + Sum(z, s \ {First(s)})
      BY <3>1, <3>5, SumStep
    <3>11. z[First(s)] = 0
      BY <3>6
    <3> HIDE DEF z
    <3>12. QED
      BY <3>3, <3>9, <3>10, <3>11
  <2>3. \A i \in T : z[i] = 0 /\ z[i] \in Nat
    OBVIOUS
  <2> HIDE DEF z
  <2>4. Sum(f, T) <= Sum(g, T) + Sum(z, T)
    BY <2>1, <2>3, SumLeq
  <2>5. Sum(f, T) \in Nat /\ Sum(g, T) \in Nat
    BY <2>1, SumNat
  <2>6. QED
    BY <2>2, <2>4, <2>5
<1>2. ASSUME NEW a \in S PROVE Sum(f, S) + g[a] <= Sum(g, S) + f[a]
  <2>1. Sum(f, S) = f[a] + Sum(f, S \ {a}) /\ Sum(g, S) = g[a] + Sum(g, S \ {a})
    BY SumRemove
  <2>2. /\ Sum(f, S \ {a}) <= Sum(g, S \ {a})
        /\ Sum(f, S \ {a}) \in Nat /\ Sum(g, S \ {a}) \in Nat
    BY <1>1
  <2>3. QED
    BY <2>1, <2>2
<1>3. QED
  BY <1>1, <1>2
=============================================================================
