---------------------------- MODULE FoldTheorems ----------------------------
(***************************************************************************)
(* Lemmas of the sums and folds that the models take from the community    *)
(* modules.  They are proved by least counterexample: what fails for some  *)
(* finite set fails for one of least cardinality.                          *)
(***************************************************************************)
EXTENDS Integers, Functions, FiniteSetTheorems, WellFoundedInduction, TLAPS

\* A nonempty set of naturals has a least member.
LEMMA LeastExists ==
  ASSUME NEW S, S \subseteq Nat, S # {}
  PROVE  \E m \in S : \A n \in S : m <= n
<1>1. PICK m \in S : \A n \in S : ~ (<<n, m>> \in OpToRel(<, Nat))
  BY ONLY S \subseteq Nat, S # {}, NatLessThanWellFounded, WFMin
<1>2. \A n \in S : ~ (n < m)
  BY <1>1 DEF OpToRel
<1> QED
  BY <1>2

\* Among finite sets there is one with the least number of elements.
LEMMA SmallestExists ==
  ASSUME NEW C, C # {}, \A s \in C : IsFiniteSet(s)
  PROVE  \E s \in C : \A t \in C : Cardinality(s) <= Cardinality(t)
<1> DEFINE sizes == {Cardinality(s) : s \in C}
<1>1. sizes \subseteq Nat /\ sizes # {}
  BY FS_CardinalityType
<1>2. PICK m \in sizes : \A n \in sizes : m <= n
  BY ONLY <1>1, LeastExists
<1> QED
  BY <1>2

\* The step every proof below takes: a set but one of its elements is smaller.
LEMMA Smaller ==
  ASSUME NEW s, IsFiniteSet(s), NEW x \in s
  PROVE  /\ IsFiniteSet(s \ {x}) /\ Cardinality(s \ {x}) < Cardinality(s)
         /\ Cardinality(s \ {x}) = Cardinality(s) - 1
         /\ Cardinality(s) \in Nat /\ Cardinality(s \ {x}) \in Nat
<1>1. IsFiniteSet(s \ {x}) /\ Cardinality(s \ {x}) = Cardinality(s) - 1
  BY FS_RemoveElement
<1>2. Cardinality(s) \in Nat /\ Cardinality(s \ {x}) \in Nat
  BY <1>1, FS_CardinalityType
<1> QED
  BY <1>1, <1>2

\* Where something fails for a finite set, it fails for one that it does not fail
\* for without one of its elements.
LEMMA MinimalExists ==
  ASSUME NEW C, C # {}, \A s \in C : IsFiniteSet(s)
  PROVE  \E s \in C : IsFiniteSet(s) /\ \A x \in s : s \ {x} \notin C
<1>1. PICK s \in C : \A t \in C : Cardinality(s) <= Cardinality(t)
  BY SmallestExists
<1>2. ASSUME NEW x \in s, s \ {x} \in C PROVE FALSE
  <2>1. Cardinality(s) <= Cardinality(s \ {x})
    BY <1>1, <1>2
  <2>2. /\ Cardinality(s \ {x}) < Cardinality(s)
        /\ Cardinality(s) \in Nat /\ Cardinality(s \ {x}) \in Nat
    BY <1>2, Smaller
  <2> QED
    BY <2>1, <2>2
<1> QED
  BY <1>1, <1>2

-----------------------------------------------------------------------------
(* Sums of the values of a function over a finite set of its arguments.     *)

Pick(s) == CHOOSE x \in s : TRUE

\* it is the recursion of SumFunctionOnSet over the subsets in C.
Sums(it, f, C) == it = [s \in C |-> IF s = {} THEN 0 ELSE f[Pick(s)] + it[s \ {Pick(s)}]]
Iter(f, D) == CHOOSE it : Sums(it, f, SUBSET D)

LEMMA Picked == \A s : s # {} => Pick(s) \in s
  BY DEF Pick

LEMMA SumIs == ASSUME NEW f, NEW D PROVE SumFunctionOnSet(f, D) = Iter(f, D)[D]
  BY DEF SumFunctionOnSet, FoldFunctionOnSet, MapThenFoldSet, Iter, Sums, Pick

UpTo(D, n) == {s \in SUBSET D : Cardinality(s) <= n}

LEMMA SumsUpTo ==
  ASSUME NEW f, NEW D, IsFiniteSet(D), NEW n \in Nat
  PROVE  \E it : Sums(it, f, UpTo(D, n))
<1> DEFINE bad == {m \in Nat : ~ \E it : Sums(it, f, UpTo(D, m))}
<1> SUFFICES ASSUME bad # {} PROVE FALSE
  OBVIOUS
<1>1. PICK m \in bad : \A k \in bad : m <= k
  BY LeastExists
<1> HIDE DEF bad
<1>2. m \in Nat /\ ~ \E it : Sums(it, f, UpTo(D, m))
  BY DEF bad
<1>3. \A s \in SUBSET D : IsFiniteSet(s) /\ Cardinality(s) \in Nat
  BY FS_Subset, FS_CardinalityType
<1>4. CASE m = 0
<2> DEFINE it == [s \in UpTo(D, 0) |-> 0]
<2>1. \A s \in UpTo(D, 0) : s = {}
  BY <1>3, FS_EmptySet DEF UpTo
<2>2. Sums(it, f, UpTo(D, 0))
  BY <2>1 DEF Sums
<2> QED
  BY <1>2, <1>4, <2>2
<1>5. CASE m # 0
<2>1. m - 1 \in Nat /\ m - 1 \notin bad
  BY <1>1, <1>2, <1>5
<2>2. PICK prev : Sums(prev, f, UpTo(D, m - 1))
  BY <2>1 DEF bad
<2> DEFINE it == [s \in UpTo(D, m) |-> IF s = {} THEN 0 ELSE f[Pick(s)] + prev[s \ {Pick(s)}]]
<2>3. ASSUME NEW s \in UpTo(D, m), s # {}
      PROVE  s \ {Pick(s)} \in UpTo(D, m) /\ it[s \ {Pick(s)}] = prev[s \ {Pick(s)}]
<3>1. s \ {Pick(s)} \in UpTo(D, m - 1)
  BY <1>2, <1>3, <2>3, Picked, Smaller DEF UpTo
<3>2. s \ {Pick(s)} \in UpTo(D, m)
  BY <1>2, <1>3, <3>1 DEF UpTo
<3> QED
  BY <2>2, <3>1, <3>2 DEF Sums
<2>4. Sums(it, f, UpTo(D, m))
  BY <2>3 DEF Sums
<2> QED
  BY <1>2, <2>4
<1> QED
  BY <1>4, <1>5

\* The recursion has a solution, so what is chosen is one.
LEMMA IterSums ==
  ASSUME NEW f, NEW D, IsFiniteSet(D)
  PROVE  Sums(Iter(f, D), f, SUBSET D)
<1>1. UpTo(D, Cardinality(D)) = SUBSET D /\ Cardinality(D) \in Nat
  BY FS_Subset, FS_CardinalityType DEF UpTo
<1>2. PICK it : Sums(it, f, UpTo(D, Cardinality(D)))
  BY <1>1, SumsUpTo
<1>3. Sums(it, f, SUBSET D)
  BY <1>1, <1>2
<1> QED
  BY <1>3 DEF Iter

\* One step of it.
LEMMA SumsStep ==
  ASSUME NEW f, NEW D, IsFiniteSet(D)
  PROVE  /\ Iter(f, D)[{}] = 0
         /\ \A s \in SUBSET D : s # {} => Iter(f, D)[s] = f[Pick(s)] + Iter(f, D)[s \ {Pick(s)}]
<1>1. Sums(Iter(f, D), f, SUBSET D)
  BY IterSums
<1> QED
  BY <1>1 DEF Sums

\* A sum looks at the values over its own arguments only.
LEMMA IterAgrees ==
  ASSUME NEW f, NEW D, IsFiniteSet(D), NEW g, NEW E, IsFiniteSet(E)
  PROVE  \A s \in SUBSET D : (s \in SUBSET E /\ \A x \in s : f[x] = g[x]) => Iter(f, D)[s] = Iter(g, E)[s]
<1> DEFINE bad == {s \in SUBSET D : /\ s \in SUBSET E /\ \A x \in s : f[x] = g[x]
                                    /\ Iter(f, D)[s] # Iter(g, E)[s]}
<1> SUFFICES ASSUME bad # {} PROVE FALSE
  OBVIOUS
<1>1. \A s \in bad : IsFiniteSet(s)
  BY FS_Subset
<1>2. PICK s \in bad : IsFiniteSet(s) /\ \A x \in s : s \ {x} \notin bad
  <2> HIDE DEF bad
  <2> QED
    BY <1>1, MinimalExists
<1>3. /\ s \in SUBSET D /\ s \in SUBSET E /\ IsFiniteSet(s)
      /\ \A x \in s : f[x] = g[x]
      /\ Iter(f, D)[s] # Iter(g, E)[s]
  BY <1>1, <1>2
<1>4. s # {}
  <2>1. Iter(f, D)[{}] = 0 /\ Iter(g, E)[{}] = 0
    BY SumsStep
  <2> QED
    BY ONLY <1>3, <2>1
<1>5. Pick(s) \in s
  BY <1>4, Picked
<1>6. s \ {Pick(s)} \notin bad
  BY ONLY <1>2, <1>3, <1>5
<1>7. Iter(f, D)[s \ {Pick(s)}] = Iter(g, E)[s \ {Pick(s)}]
  BY <1>3, <1>6
<1> QED
  BY <1>3, <1>4, <1>5, <1>7, SumsStep

LEMMA IterType ==
  ASSUME NEW f, NEW D, IsFiniteSet(D), \A x \in D : f[x] \in Nat
  PROVE  \A s \in SUBSET D : Iter(f, D)[s] \in Nat
<1> DEFINE bad == {s \in SUBSET D : Iter(f, D)[s] \notin Nat}
<1> SUFFICES ASSUME bad # {} PROVE FALSE
  OBVIOUS
<1>1. \A s \in bad : IsFiniteSet(s)
  BY FS_Subset
<1>2. PICK s \in bad : IsFiniteSet(s) /\ \A x \in s : s \ {x} \notin bad
  <2> HIDE DEF bad
  <2> QED
    BY <1>1, MinimalExists
<1>3. s \in SUBSET D /\ IsFiniteSet(s) /\ Iter(f, D)[s] \notin Nat
  BY <1>1, <1>2
<1>4. s # {}
  <2>1. Iter(f, D)[{}] = 0
    BY SumsStep
  <2> QED
    BY ONLY <1>3, <2>1
<1>5. Pick(s) \in s
  BY <1>4, Picked
<1>6. s \ {Pick(s)} \notin bad
  BY ONLY <1>2, <1>3, <1>5
<1>7. Iter(f, D)[s \ {Pick(s)}] \in Nat /\ f[Pick(s)] \in Nat
  BY <1>3, <1>5, <1>6
<1>8. Iter(f, D)[s] = f[Pick(s)] + Iter(f, D)[s \ {Pick(s)}]
  BY <1>3, <1>4, SumsStep
<1> QED
  BY ONLY <1>3, <1>7, <1>8

\* Any argument may be taken first, not only the one that is picked.
LEMMA IterTakes ==
  ASSUME NEW f, NEW D, IsFiniteSet(D), \A x \in D : f[x] \in Nat
  PROVE  \A s \in SUBSET D : \A x \in s : Iter(f, D)[s] = f[x] + Iter(f, D)[s \ {x}]
<1> DEFINE bad == {s \in SUBSET D : \E x \in s : Iter(f, D)[s] # f[x] + Iter(f, D)[s \ {x}]}
<1> SUFFICES ASSUME bad # {} PROVE FALSE
  OBVIOUS
<1>1. \A s \in bad : IsFiniteSet(s)
  BY FS_Subset
<1>2. PICK s \in bad : IsFiniteSet(s) /\ \A x \in s : s \ {x} \notin bad
  <2> HIDE DEF bad
  <2> QED
    BY <1>1, MinimalExists
<1>3. s \in SUBSET D /\ IsFiniteSet(s)
  BY <1>1, <1>2
<1>4. PICK x \in s : Iter(f, D)[s] # f[x] + Iter(f, D)[s \ {x}]
  BY <1>2
<1>5. PICK y : y = Pick(s) /\ y \in s
  BY <1>4, Picked
<1>6. Iter(f, D)[s] = f[y] + Iter(f, D)[s \ {y}]
  BY <1>3, <1>5, SumsStep
<1>7. s \ {y} \notin bad
  BY ONLY <1>2, <1>3, <1>5
<1>8. x # y
  BY <1>4, <1>6
<1>9. Iter(f, D)[s \ {y}] = f[x] + Iter(f, D)[(s \ {y}) \ {x}]
  BY <1>3, <1>4, <1>7, <1>8
\* The two orders meet in s without x and y.
<1>10. s \ {x} \notin bad
  BY ONLY <1>2, <1>3, <1>4
<1>11. Iter(f, D)[s \ {x}] = f[y] + Iter(f, D)[(s \ {x}) \ {y}]
  BY <1>3, <1>5, <1>8, <1>10
<1>12. (s \ {y}) \ {x} = (s \ {x}) \ {y}
  OBVIOUS
<1>13. f[x] \in Nat /\ f[y] \in Nat /\ Iter(f, D)[(s \ {x}) \ {y}] \in Nat
  BY <1>3, <1>4, <1>5, IterType
<1>14. PICK rest \in Nat : rest = Iter(f, D)[(s \ {x}) \ {y}]
  BY <1>13
<1>15. Iter(f, D)[s] = f[y] + (f[x] + rest) /\ Iter(f, D)[s \ {x}] = f[y] + rest
  BY ONLY <1>6, <1>9, <1>11, <1>12, <1>14
<1>16. f[y] + (f[x] + rest) = f[x] + (f[y] + rest)
  BY ONLY <1>13, <1>14
<1> QED
  BY ONLY <1>4, <1>15, <1>16

-----------------------------------------------------------------------------
(* What the models' proofs cite.                                            *)

LEMMA SumType ==
  ASSUME NEW f, NEW D, IsFiniteSet(D), \A x \in D : f[x] \in Nat
  PROVE  SumFunctionOnSet(f, D) \in Nat
  BY IterType, SumIs

LEMMA SumOfNone == ASSUME NEW f PROVE SumFunctionOnSet(f, {}) = 0
  BY SumsStep, SumIs, FS_EmptySet

LEMMA SumAgrees ==
  ASSUME NEW f, NEW g, NEW D, IsFiniteSet(D), \A x \in D : f[x] = g[x]
  PROVE  SumFunctionOnSet(f, D) = SumFunctionOnSet(g, D)
  BY IterAgrees, SumIs

LEMMA SumTakes ==
  ASSUME NEW f, NEW D, IsFiniteSet(D), \A y \in D : f[y] \in Nat, NEW x \in D
  PROVE  SumFunctionOnSet(f, D) = f[x] + SumFunctionOnSet(f, D \ {x})
<1>1. Iter(f, D)[D] = f[x] + Iter(f, D)[D \ {x}]
  BY IterTakes
<1>2. IsFiniteSet(D \ {x})
  BY Smaller
<1>3. Iter(f, D)[D \ {x}] = Iter(f, D \ {x})[D \ {x}]
  BY <1>2, IterAgrees
<1> QED
  BY <1>1, <1>3, SumIs

\* A sum of values that are at most m.
LEMMA SumBound ==
  ASSUME NEW f, NEW D, IsFiniteSet(D), NEW m \in Nat, \A x \in D : f[x] \in Nat /\ f[x] <= m
  PROVE  SumFunctionOnSet(f, D) <= Cardinality(D) * m
<1> DEFINE bad == {s \in SUBSET D : ~ (SumFunctionOnSet(f, s) <= Cardinality(s) * m)}
<1> SUFFICES ASSUME bad # {} PROVE FALSE
  OBVIOUS
<1>1. \A s \in bad : IsFiniteSet(s)
  BY FS_Subset
<1>2. PICK s \in bad : IsFiniteSet(s) /\ \A x \in s : s \ {x} \notin bad
  <2> HIDE DEF bad
  <2> QED
    BY <1>1, MinimalExists
<1>3. s \in SUBSET D /\ IsFiniteSet(s) /\ ~ (SumFunctionOnSet(f, s) <= Cardinality(s) * m)
  BY <1>1, <1>2
<1>4. s # {}
  BY <1>3, SumOfNone, FS_EmptySet
<1>5. PICK x : x \in s
  BY <1>4
<1>6. s \ {x} \notin bad
  BY ONLY <1>2, <1>3, <1>5
<1>7. SumFunctionOnSet(f, s \ {x}) <= Cardinality(s \ {x}) * m
  BY <1>3, <1>6
<1>8. SumFunctionOnSet(f, s) = f[x] + SumFunctionOnSet(f, s \ {x})
  BY <1>3, <1>5, SumTakes
<1>9. /\ Cardinality(s) \in Nat /\ Cardinality(s \ {x}) = Cardinality(s) - 1
      /\ SumFunctionOnSet(f, s \ {x}) \in Nat /\ f[x] \in Nat /\ f[x] <= m
  BY <1>3, <1>5, Smaller, SumType
<1>10. (Cardinality(s) - 1) * m + m = Cardinality(s) * m
  BY <1>9
<1>11. Cardinality(s) * m \in Nat /\ (Cardinality(s) - 1) * m \in Int
  BY <1>9
<1> QED
  BY <1>3, <1>7, <1>8, <1>9, <1>10, <1>11

\* How the sum of a function changes: with one value more, with one replaced.
LEMMA SumPut ==
  ASSUME NEW f, NEW g, IsFiniteSet(DOMAIN f), NEW k, k \notin DOMAIN f, DOMAIN g = DOMAIN f \cup {k},
         \A x \in DOMAIN f : g[x] = f[x] /\ f[x] \in Nat, g[k] \in Nat
  PROVE  SumFunction(g) = SumFunction(f) + g[k] /\ SumFunction(f) \in Nat
<1>1. IsFiniteSet(DOMAIN g) /\ \A y \in DOMAIN g : g[y] \in Nat
  BY FS_AddElement
<1>2. SumFunctionOnSet(g, DOMAIN g) = g[k] + SumFunctionOnSet(g, DOMAIN g \ {k})
  BY <1>1, SumTakes
<1>3. DOMAIN g \ {k} = DOMAIN f
  OBVIOUS
<1>4. SumFunctionOnSet(g, DOMAIN f) = SumFunctionOnSet(f, DOMAIN f)
  BY SumAgrees
<1>5. SumFunctionOnSet(f, DOMAIN f) \in Nat
  BY SumType
<1> QED
  BY <1>2, <1>3, <1>4, <1>5 DEF SumFunction

LEMMA SumUpdate ==
  ASSUME NEW f, NEW g, IsFiniteSet(DOMAIN f), NEW k \in DOMAIN f, DOMAIN g = DOMAIN f,
         \A x \in DOMAIN f : f[x] \in Nat, \A x \in DOMAIN f \ {k} : g[x] = f[x], g[k] \in Nat
  PROVE  /\ SumFunction(g) = SumFunction(f) - f[k] + g[k]
         /\ SumFunction(f) \in Nat /\ SumFunction(g) \in Nat /\ f[k] <= SumFunction(f)
<1>1. \A y \in DOMAIN g : g[y] \in Nat
  OBVIOUS
<1>2. /\ SumFunctionOnSet(f, DOMAIN f) = f[k] + SumFunctionOnSet(f, DOMAIN f \ {k})
      /\ SumFunctionOnSet(g, DOMAIN f) = g[k] + SumFunctionOnSet(g, DOMAIN f \ {k})
  BY <1>1, SumTakes
<1>3. IsFiniteSet(DOMAIN f \ {k})
  BY Smaller
<1>4. SumFunctionOnSet(g, DOMAIN f \ {k}) = SumFunctionOnSet(f, DOMAIN f \ {k})
  BY <1>3, SumAgrees
<1>5. SumFunctionOnSet(f, DOMAIN f \ {k}) \in Nat
  BY <1>3, SumType
<1> QED
  BY <1>2, <1>4, <1>5 DEF SumFunction

\* The sum over two sets is the sum of their sums.
LEMMA SumJoins ==
  ASSUME NEW f, NEW S, NEW T, IsFiniteSet(S), IsFiniteSet(T), S \cap T = {}, \A x \in S \cup T : f[x] \in Nat
  PROVE  /\ SumFunctionOnSet(f, S \cup T) = SumFunctionOnSet(f, S) + SumFunctionOnSet(f, T)
         /\ SumFunctionOnSet(f, S) \in Nat /\ SumFunctionOnSet(f, T) \in Nat
<1> DEFINE bad == {t \in SUBSET T : SumFunctionOnSet(f, S \cup t) # SumFunctionOnSet(f, S) + SumFunctionOnSet(f, t)}
<1>0. SumFunctionOnSet(f, S) \in Nat /\ SumFunctionOnSet(f, T) \in Nat
  BY SumType
<1> SUFFICES ASSUME bad # {} PROVE FALSE
  BY <1>0
<1>1. \A t \in bad : IsFiniteSet(t)
  BY FS_Subset
<1>2. PICK t \in bad : IsFiniteSet(t) /\ \A x \in t : t \ {x} \notin bad
  <2> HIDE DEF bad
  <2> QED
    BY <1>1, MinimalExists
<1>3. /\ t \in SUBSET T /\ IsFiniteSet(t)
      /\ SumFunctionOnSet(f, S \cup t) # SumFunctionOnSet(f, S) + SumFunctionOnSet(f, t)
  BY <1>1, <1>2
<1>4. t # {}
  <2>1. S \cup {} = S
    OBVIOUS
  <2> QED
    BY <1>0, <1>3, <2>1, SumOfNone
<1>5. PICK x : x \in t
  BY <1>4
<1>6. t \ {x} \notin bad
  BY ONLY <1>2, <1>3, <1>5
<1>7. SumFunctionOnSet(f, S \cup (t \ {x})) = SumFunctionOnSet(f, S) + SumFunctionOnSet(f, t \ {x})
  BY <1>3, <1>6
<1>8. SumFunctionOnSet(f, t) = f[x] + SumFunctionOnSet(f, t \ {x})
  BY <1>3, <1>5, SumTakes
<1>9. (S \cup t) \ {x} = S \cup (t \ {x}) /\ x \in S \cup t /\ IsFiniteSet(S \cup t)
  BY <1>3, <1>5, FS_Union
<1>10. SumFunctionOnSet(f, S \cup t) = f[x] + SumFunctionOnSet(f, S \cup (t \ {x}))
  <2>1. \A y \in S \cup t : f[y] \in Nat
    BY <1>3
  <2>2. SumFunctionOnSet(f, S \cup t) = f[x] + SumFunctionOnSet(f, (S \cup t) \ {x})
    BY <1>9, <2>1, SumTakes
  <2> QED
    BY <1>9, <2>2
<1>11. IsFiniteSet(t \ {x}) /\ f[x] \in Nat /\ \A y \in t \ {x} : f[y] \in Nat
  BY <1>3, <1>5, Smaller
<1>12. SumFunctionOnSet(f, t \ {x}) \in Nat
  BY <1>11, SumType
<1>13. PICK a, b, c \in Nat : a = f[x] /\ b = SumFunctionOnSet(f, S) /\ c = SumFunctionOnSet(f, t \ {x})
  BY <1>0, <1>11, <1>12
<1> QED
  BY ONLY <1>3, <1>7, <1>8, <1>10, <1>13

\* A part sums to no more than the whole.
LEMMA SumPart ==
  ASSUME NEW f, NEW D, IsFiniteSet(D), NEW S, S \subseteq D, \A x \in D : f[x] \in Nat
  PROVE  /\ SumFunctionOnSet(f, S) <= SumFunctionOnSet(f, D)
         /\ SumFunctionOnSet(f, S) \in Nat /\ SumFunctionOnSet(f, D) \in Nat
<1>1. IsFiniteSet(S) /\ IsFiniteSet(D \ S) /\ S \cup (D \ S) = D /\ S \cap (D \ S) = {}
  BY FS_Subset
<1>2. \A x \in S \cup (D \ S) : f[x] \in Nat
  OBVIOUS
<1>3. PICK rest : rest = D \ S
  OBVIOUS
<1>4. /\ SumFunctionOnSet(f, D) = SumFunctionOnSet(f, S) + SumFunctionOnSet(f, rest)
      /\ SumFunctionOnSet(f, S) \in Nat /\ SumFunctionOnSet(f, rest) \in Nat
  <2>1. IsFiniteSet(rest) /\ S \cup rest = D /\ S \cap rest = {}
    BY <1>1, <1>3
  <2>2. \A x \in S \cup rest : f[x] \in Nat
    BY <2>1
  <2>3. /\ SumFunctionOnSet(f, S \cup rest) = SumFunctionOnSet(f, S) + SumFunctionOnSet(f, rest)
        /\ SumFunctionOnSet(f, S) \in Nat /\ SumFunctionOnSet(f, rest) \in Nat
    BY <1>1, <2>1, <2>2, SumJoins
  <2> QED
    BY <2>1, <2>3
<1> QED
  BY <1>4

\* A sum of equal values.
LEMMA SumConstant ==
  ASSUME NEW f, NEW D, IsFiniteSet(D), NEW m \in Nat, \A x \in D : f[x] = m
  PROVE  SumFunctionOnSet(f, D) = Cardinality(D) * m /\ Cardinality(D) \in Nat
<1> DEFINE bad == {s \in SUBSET D : SumFunctionOnSet(f, s) # Cardinality(s) * m}
<1>0. Cardinality(D) \in Nat
  BY FS_CardinalityType
<1> SUFFICES ASSUME bad # {} PROVE FALSE
  BY <1>0
<1>1. \A s \in bad : IsFiniteSet(s)
  BY FS_Subset
<1>2. PICK s \in bad : IsFiniteSet(s) /\ \A x \in s : s \ {x} \notin bad
  <2> HIDE DEF bad
  <2> QED
    BY <1>1, MinimalExists
<1>3. s \in SUBSET D /\ IsFiniteSet(s) /\ SumFunctionOnSet(f, s) # Cardinality(s) * m
  BY <1>1, <1>2
<1>4. s # {}
  <2>1. SumFunctionOnSet(f, {}) = 0 /\ Cardinality({}) * m = 0
    BY SumOfNone, FS_EmptySet
  <2> QED
    BY <1>3, <2>1
<1>5. PICK x : x \in s
  BY <1>4
<1>6. s \ {x} \notin bad
  BY ONLY <1>2, <1>3, <1>5
<1>7. SumFunctionOnSet(f, s \ {x}) = Cardinality(s \ {x}) * m
  BY <1>3, <1>6
<1>8. SumFunctionOnSet(f, s) = f[x] + SumFunctionOnSet(f, s \ {x}) /\ f[x] = m
  BY <1>3, <1>5, SumTakes
<1>9. PICK n \in Nat : n = Cardinality(s \ {x}) /\ Cardinality(s) = n + 1
  <2>1. Cardinality(s \ {x}) = Cardinality(s) - 1 /\ Cardinality(s) \in Nat /\ Cardinality(s \ {x}) \in Nat
    BY <1>3, <1>5, Smaller
  <2> QED
    BY <2>1
<1>10. (n + 1) * m = m + n * m
  OBVIOUS
<1> QED
  BY ONLY <1>3, <1>7, <1>8, <1>9, <1>10

\* A sum of values and of multiples.
LEMMA SumLinear ==
  ASSUME NEW f, NEW g, NEW h, NEW D, IsFiniteSet(D), NEW k \in Nat,
         \A x \in D : f[x] \in Nat /\ g[x] \in Nat /\ h[x] = f[x] + k * g[x]
  PROVE  /\ SumFunctionOnSet(h, D) = SumFunctionOnSet(f, D) + k * SumFunctionOnSet(g, D)
         /\ SumFunctionOnSet(f, D) \in Nat /\ SumFunctionOnSet(g, D) \in Nat
<1> DEFINE bad == {s \in SUBSET D : SumFunctionOnSet(h, s) # SumFunctionOnSet(f, s) + k * SumFunctionOnSet(g, s)}
<1>0. SumFunctionOnSet(f, D) \in Nat /\ SumFunctionOnSet(g, D) \in Nat
  BY SumType
<1> SUFFICES ASSUME bad # {} PROVE FALSE
  BY <1>0
<1>1. \A s \in bad : IsFiniteSet(s)
  BY FS_Subset
<1>2. PICK s \in bad : IsFiniteSet(s) /\ \A x \in s : s \ {x} \notin bad
  <2> HIDE DEF bad
  <2> QED
    BY <1>1, MinimalExists
<1>3. /\ s \in SUBSET D /\ IsFiniteSet(s)
      /\ SumFunctionOnSet(h, s) # SumFunctionOnSet(f, s) + k * SumFunctionOnSet(g, s)
  BY <1>1, <1>2
<1>4. s # {}
  <2>1. /\ SumFunctionOnSet(h, {}) = 0 /\ SumFunctionOnSet(f, {}) = 0 /\ SumFunctionOnSet(g, {}) = 0
        /\ k * 0 = 0
    BY SumOfNone
  <2> QED
    BY <1>3, <2>1
<1>5. PICK x : x \in s
  BY <1>4
<1>6. s \ {x} \notin bad
  BY ONLY <1>2, <1>3, <1>5
<1>7. SumFunctionOnSet(h, s \ {x}) = SumFunctionOnSet(f, s \ {x}) + k * SumFunctionOnSet(g, s \ {x})
  BY <1>3, <1>6
<1>8. \A y \in s : f[y] \in Nat /\ g[y] \in Nat /\ h[y] \in Nat /\ h[y] = f[y] + k * g[y]
  BY <1>3
<1>9. /\ SumFunctionOnSet(h, s) = h[x] + SumFunctionOnSet(h, s \ {x})
      /\ SumFunctionOnSet(f, s) = f[x] + SumFunctionOnSet(f, s \ {x})
      /\ SumFunctionOnSet(g, s) = g[x] + SumFunctionOnSet(g, s \ {x})
  BY <1>3, <1>5, <1>8, SumTakes
<1>10. IsFiniteSet(s \ {x})
  BY <1>3, <1>5, Smaller
<1>11. SumFunctionOnSet(f, s \ {x}) \in Nat /\ SumFunctionOnSet(g, s \ {x}) \in Nat
  BY <1>8, <1>10, SumType
<1>12. PICK a, b, c, d \in Nat :
         a = f[x] /\ b = g[x] /\ c = SumFunctionOnSet(f, s \ {x}) /\ d = SumFunctionOnSet(g, s \ {x})
  BY <1>5, <1>8, <1>11
<1>13. k * (b + d) = k * b + k * d /\ k * b \in Nat /\ k * d \in Nat
  OBVIOUS
<1>14. h[x] = a + k * b
  BY <1>5, <1>8, <1>12
<1> QED
  BY ONLY <1>3, <1>7, <1>9, <1>12, <1>13, <1>14

\* A finite set has an element with the greatest value.
LEMMA GreatestExists ==
  ASSUME NEW f, NEW S, IsFiniteSet(S), S # {}, \A x \in S : f[x] \in Nat
  PROVE  \E m \in S : \A n \in S : f[n] <= f[m]
<1> DEFINE bad == {s \in SUBSET S : s # {} /\ ~ \E m \in s : \A n \in s : f[n] <= f[m]}
<1> SUFFICES ASSUME bad # {} PROVE FALSE
  OBVIOUS
<1>1. \A s \in bad : IsFiniteSet(s)
  BY FS_Subset
<1>2. PICK s \in bad : IsFiniteSet(s) /\ \A x \in s : s \ {x} \notin bad
  <2> HIDE DEF bad
  <2> QED
    BY <1>1, MinimalExists
<1>3. s \in SUBSET S /\ s # {} /\ ~ \E m \in s : \A n \in s : f[n] <= f[m]
  BY <1>2
<1>4. PICK x : x \in s
  BY <1>3
<1>5. s \ {x} = {} \/ \E m \in s \ {x} : \A n \in s \ {x} : f[n] <= f[m]
  BY <1>2, <1>3, <1>4
<1>6. \A y \in s : f[y] \in Nat
  BY <1>3
<1>7. CASE s \ {x} = {}
  BY <1>3, <1>4, <1>6, <1>7
<1>8. CASE \E m \in s \ {x} : \A n \in s \ {x} : f[n] <= f[m]
  <2>1. PICK m \in s \ {x} : \A n \in s \ {x} : f[n] <= f[m]
    BY <1>8
  <2>2. CASE f[x] <= f[m]
    <3>1. \A n \in s : f[n] <= f[m]
      BY <2>1, <2>2
    <3> QED
      BY <1>3, <2>1, <3>1
  <2>3. CASE f[m] <= f[x]
    <3>1. \A n \in s : f[n] <= f[x]
      BY <1>4, <1>6, <2>1, <2>3
    <3> QED
      BY <1>3, <1>4, <3>1
  <2> QED
    BY <1>4, <1>6, <2>1, <2>2, <2>3
<1> QED
  BY <1>5, <1>7, <1>8

-----------------------------------------------------------------------------
(* Folds of a sequence from the left, as FoldLeft takes them: the recursion   *)
(* is over the sets of positions, and takes the last one off.                 *)

LastOf(s) == CHOOSE x \in s : \A y \in s : x >= y

LEMMA LastExists ==
  ASSUME NEW s, s \subseteq Int, IsFiniteSet(s), s # {}
  PROVE  LastOf(s) \in s /\ \A y \in s : LastOf(s) >= y
<1> DEFINE bad == {t \in SUBSET s : t # {} /\ ~ \E x \in t : \A y \in t : x >= y}
<1>1. bad = {}
  <2> SUFFICES ASSUME bad # {} PROVE FALSE
    OBVIOUS
  <2>1. \A t \in bad : IsFiniteSet(t)
    BY FS_Subset
  <2>2. PICK t \in bad : IsFiniteSet(t) /\ \A x \in t : t \ {x} \notin bad
    <3> HIDE DEF bad
    <3> QED
      BY <2>1, MinimalExists
  <2>3. PICK x : x \in t /\ x \in Int /\ t \subseteq Int
    BY <2>2
  <2>4. t \ {x} = {} \/ \E m \in t \ {x} : \A y \in t \ {x} : m >= y
    BY <2>2, <2>3
  <2> QED
    BY <2>2, <2>3, <2>4
<1>2. \E x \in s : \A y \in s : x >= y
  BY <1>1
<1> QED
  BY <1>2 DEF LastOf

\* Of a prefix of the positions the last is taken off, and a shorter prefix is left.
LEMMA LastOfPrefix ==
  ASSUME NEW n \in Nat \ {0}
  PROVE  LastOf(1 .. n) = n /\ (1 .. n) \ {n} = 1 .. n - 1 /\ 1 .. n # {}
<1>1. 1 .. n # {} /\ 1 .. n \subseteq Int /\ IsFiniteSet(1 .. n)
<2>1. 1 \in Int /\ n \in Int /\ 1 \in 1 .. n
  OBVIOUS
<2>2. IsFiniteSet(1 .. n)
  BY ONLY <2>1, FS_Interval
<2> QED
  BY <2>1, <2>2
<1>2. LastOf(1 .. n) \in 1 .. n /\ \A y \in 1 .. n : LastOf(1 .. n) >= y
  BY <1>1, LastExists
<1> QED
  BY <1>2

\* it is the fold, over the sets in C, of a step that is a function of what is
\* folded so far and the position.
Folds(it, base, step, C) ==
  it = [s \in C |-> IF s = {} THEN base ELSE step[<<it[s \ {LastOf(s)}], LastOf(s)>>]]

LEMMA FoldsUpTo ==
  ASSUME NEW V, NEW base \in V, NEW D, D \subseteq Int, IsFiniteSet(D), NEW step \in [V \X D -> V],
         NEW n \in Nat
  PROVE  \E it \in [UpTo(D, n) -> V] : Folds(it, base, step, UpTo(D, n))
<1> DEFINE bad == {m \in Nat : ~ \E it \in [UpTo(D, m) -> V] : Folds(it, base, step, UpTo(D, m))}
<1> SUFFICES ASSUME bad # {} PROVE FALSE
  OBVIOUS
<1>1. PICK m \in bad : \A k \in bad : m <= k
  BY LeastExists
<1> HIDE DEF bad
<1>2. m \in Nat /\ ~ \E it \in [UpTo(D, m) -> V] : Folds(it, base, step, UpTo(D, m))
  BY DEF bad
<1>3. \A s \in SUBSET D : IsFiniteSet(s) /\ Cardinality(s) \in Nat
  BY FS_Subset, FS_CardinalityType
<1>4. CASE m = 0
<2> DEFINE it == [s \in UpTo(D, 0) |-> base]
<2>1. \A s \in UpTo(D, 0) : s = {}
  BY <1>3, FS_EmptySet DEF UpTo
<2>2. Folds(it, base, step, UpTo(D, 0)) /\ it \in [UpTo(D, 0) -> V]
  BY <2>1 DEF Folds
<2> QED
  BY <1>2, <1>4, <2>2
<1>5. CASE m # 0
<2>1. m - 1 \in Nat /\ m - 1 \notin bad
  BY <1>1, <1>2, <1>5
<2>2. PICK prev \in [UpTo(D, m - 1) -> V] : Folds(prev, base, step, UpTo(D, m - 1))
  BY <2>1 DEF bad
<2> DEFINE it == [s \in UpTo(D, m) |-> IF s = {} THEN base ELSE step[<<prev[s \ {LastOf(s)}], LastOf(s)>>]]
<2>3. ASSUME NEW s \in UpTo(D, m), s # {}
      PROVE  /\ s \ {LastOf(s)} \in UpTo(D, m - 1) /\ s \ {LastOf(s)} \in UpTo(D, m)
             /\ LastOf(s) \in D /\ prev[s \ {LastOf(s)}] \in V
<3>1. LastOf(s) \in s /\ s \subseteq D
  BY <1>3, <2>3, LastExists DEF UpTo
<3>2. s \ {LastOf(s)} \in UpTo(D, m - 1)
  <4>1. IsFiniteSet(s) /\ Cardinality(s) <= m
    BY <1>3, <2>3 DEF UpTo
  <4>2. /\ Cardinality(s \ {LastOf(s)}) = Cardinality(s) - 1
        /\ Cardinality(s) \in Nat /\ Cardinality(s \ {LastOf(s)}) \in Nat
    BY <3>1, <4>1, Smaller
  <4>3. Cardinality(s \ {LastOf(s)}) <= m - 1
    BY ONLY <1>2, <4>1, <4>2
  <4>4. s \ {LastOf(s)} \in SUBSET D
    BY ONLY <3>1
  <4> QED
    BY ONLY <4>3, <4>4 DEF UpTo
<3>3. s \ {LastOf(s)} \in UpTo(D, m)
  BY <1>2, <1>3, <3>2 DEF UpTo
<3> QED
  BY <3>1, <3>2, <3>3
<2>4. ASSUME NEW s \in UpTo(D, m), s # {}
      PROVE  it[s \ {LastOf(s)}] = prev[s \ {LastOf(s)}]
<3>1. PICK r : r = s \ {LastOf(s)} /\ r \in UpTo(D, m - 1) /\ r \in UpTo(D, m)
  BY <2>3, <2>4
<3>2. prev[r] = IF r = {} THEN base ELSE step[<<prev[r \ {LastOf(r)}], LastOf(r)>>]
  BY ONLY <2>2, <3>1 DEF Folds
<3> QED
  BY <3>1, <3>2
<2>5. it \in [UpTo(D, m) -> V]
<3>1. ASSUME NEW s \in UpTo(D, m) PROVE it[s] \in V
  BY <2>3
<3> QED
  BY <3>1
<2>6. Folds(it, base, step, UpTo(D, m))
  BY <2>4 DEF Folds
<2> HIDE DEF it
<2> QED
  BY <1>2, <2>5, <2>6
<1> QED
  BY <1>4, <1>5

\* A fold whose step keeps what is folded in a set has a solution there.
LEMMA FoldExists ==
  ASSUME NEW V, NEW base \in V, NEW D, D \subseteq Int, IsFiniteSet(D), NEW step \in [V \X D -> V]
  PROVE  \E it \in [SUBSET D -> V] : Folds(it, base, step, SUBSET D)
<1>1. UpTo(D, Cardinality(D)) = SUBSET D /\ Cardinality(D) \in Nat
  BY FS_Subset, FS_CardinalityType DEF UpTo
<1>2. PICK n \in Nat : UpTo(D, n) = SUBSET D
  BY <1>1
<1>3. \E it \in [UpTo(D, n) -> V] : Folds(it, base, step, UpTo(D, n))
  BY FoldsUpTo
<1> QED
  BY <1>2, <1>3
=============================================================================
