---------------------------- MODULE SetSumsProofs ----------------------------
(***************************************************************************)
(* Facts about sums over finite sets, for any set and any weight, and the  *)
(* two induction principles they need.                                     *)
(*                                                                         *)
(* The principles take the property as a set, not as an operator, so that  *)
(* a proof can give them a set by name.  They come of the least element of *)
(* a well-founded ordering.                                                *)
(***************************************************************************)
EXTENDS SetSums, FiniteSetTheorems, WellFoundedInduction, TLAPS

-----------------------------------------------------------------------------
\* Induction over the naturals, for the set G of the good ones.
LEMMA NaturalsBySteps ==
  ASSUME NEW G, 0 \in G, \A n \in Nat : n \in G => n + 1 \in G
  PROVE  Nat \subseteq G
<1> DEFINE R == {ss \in Nat \X Nat : ss[1] < ss[2]}
<1> SUFFICES ASSUME Nat \ G # {} PROVE FALSE
  OBVIOUS
<1>1. IsWellFoundedOn(R, Nat)
  BY NatLessThanWellFounded DEF OpToRel
<1>2. PICK n \in Nat \ G : \A m \in Nat \ G : <<m, n>> \notin R
  <2> HIDE DEF R
  <2> QED BY <1>1, WFMin
<1>3. n - 1 \in Nat /\ n - 1 + 1 = n
  BY <1>2
<1>4. n - 1 \notin G /\ <<n - 1, n>> \in R
  BY <1>2, <1>3
<1> QED BY <1>2, <1>3, <1>4

\* A set of n + 1 elements is not empty, and n are left without one of them.
LEMMA OneElementLess ==
  ASSUME NEW T, IsFiniteSet(T), NEW n \in Nat, Cardinality(T) = n + 1
  PROVE  T # {} /\ \A x \in T : Cardinality(T \ {x}) = n
<1>1. Cardinality({}) = 0
  BY FS_EmptySet, Zenon
<1>2. T # {}
  BY <1>1
<1>3. ASSUME NEW x \in T PROVE Cardinality(T \ {x}) = n
  <2>1. Cardinality(T \ {x}) = Cardinality(T) - 1
    BY FS_RemoveElement, Zenon
  <2> QED BY <2>1
<1> QED BY <1>2, <1>3

\* Induction over a finite set, one element at a time.
LEMMA SetsByElements ==
  ASSUME NEW S, IsFiniteSet(S), NEW G, {} \in G,
         \A T \in SUBSET S, x \in S : T \in G /\ x \notin T => T \cup {x} \in G
  PROVE  S \in G
<1> DEFINE D == {n \in Nat : \A T \in SUBSET S : Cardinality(T) = n => T \in G}
<1>1. \A T \in SUBSET S : IsFiniteSet(T) /\ Cardinality(T) \in Nat
  BY FS_Subset, FS_CardinalityType
<1>2. 0 \in D
  BY <1>1, FS_EmptySet
<1>3. ASSUME NEW n \in Nat, n \in D PROVE n + 1 \in D
  <2> SUFFICES ASSUME NEW T \in SUBSET S, Cardinality(T) = n + 1 PROVE T \in G
    OBVIOUS
  <2>1. T # {} /\ \A x \in T : Cardinality(T \ {x}) = n
    BY <1>1, OneElementLess, Zenon
  <2>2. PICK x \in T : TRUE
    BY <2>1
  <2>3. Cardinality(T \ {x}) = n
    BY <2>1, <2>2
  <2>4. T \ {x} \in G
    BY <1>3, <2>3
  <2>5. T = (T \ {x}) \cup {x}
    BY <2>2
  <2> QED BY <2>4, <2>5
<1>4. Nat \subseteq D
  <2> HIDE DEF D
  <2> QED BY <1>2, <1>3, NaturalsBySteps
<1> QED BY <1>1, <1>4

-----------------------------------------------------------------------------
\* The element a fold takes next, and the equation of its recursive function,
\* on the sets in D.
Taken(s) == CHOOSE x \in s : TRUE
IsFold(g, weight, D) ==
  g = [s \in D |-> IF s = {} THEN 0 ELSE weight[Taken(s)] + g[s \ {Taken(s)}]]

LEMMA TotalIsFold ==
  ASSUME NEW weight, NEW S
  PROVE  Total(weight, S) = (CHOOSE g : IsFold(g, weight, SUBSET S))[S]
BY DEF Total, MapThenSumSet, MapThenFoldSet, IsFold, Taken

\* Taking an element of a finite set leaves a smaller one.
LEMMA TakenIsLess ==
  ASSUME NEW S, IsFiniteSet(S), NEW s \in SUBSET S, s # {}
  PROVE  /\ Taken(s) \in s /\ s \ {Taken(s)} \in SUBSET S
         /\ IsFiniteSet(s) /\ Cardinality(s) \in Nat
         /\ Cardinality(s \ {Taken(s)}) = Cardinality(s) - 1
<1>1. Taken(s) \in s
  BY DEF Taken
<1>2. IsFiniteSet(s)
  BY FS_Subset
<1> QED BY <1>1, <1>2, FS_CardinalityType, FS_RemoveElement

\* The function a fold recurses by exists, since a set has finitely many
\* elements to take.
LEMMA FoldExists ==
  ASSUME NEW weight, NEW S, IsFiniteSet(S)
  PROVE  \E g : IsFold(g, weight, SUBSET S)
<1> DEFINE D(n) == {s \in SUBSET S : Cardinality(s) <= n}
           G == {n \in Nat : \E g : IsFold(g, weight, D(n))}
<1>1. \A s \in SUBSET S : IsFiniteSet(s) /\ Cardinality(s) \in Nat
  BY FS_Subset, FS_CardinalityType
<1>2. 0 \in G
  <2>1. \A s \in D(0) : s = {}
    BY <1>1, FS_EmptySet
  <2>2. IsFold([s \in D(0) |-> 0], weight, D(0))
    BY <2>1 DEF IsFold
  <2> QED BY <2>2
<1>3. ASSUME NEW n \in Nat, n \in G PROVE n + 1 \in G
  <2>1. PICK g : IsFold(g, weight, D(n))
    BY <1>3
  <2> DEFINE h == [s \in D(n + 1) |-> IF s = {} THEN 0 ELSE weight[Taken(s)] + g[s \ {Taken(s)}]]
  <2>2. ASSUME NEW s \in D(n + 1), s # {} PROVE h[s \ {Taken(s)}] = g[s \ {Taken(s)}]
    <3>1. s \ {Taken(s)} \in D(n) /\ s \ {Taken(s)} \in D(n + 1)
      BY <1>1, <2>2, TakenIsLess
    <3> QED BY <2>1, <3>1 DEF IsFold
  <2>3. h = [s \in D(n + 1) |-> IF s = {} THEN 0 ELSE weight[Taken(s)] + h[s \ {Taken(s)}]]
    <3>1. \A s \in D(n + 1) : h[s] = IF s = {} THEN 0 ELSE weight[Taken(s)] + h[s \ {Taken(s)}]
      BY <2>2
    <3> QED BY <3>1
  <2>4. IsFold(h, weight, D(n + 1))
    <3> HIDE DEF h, D
    <3> QED BY <2>3 DEF IsFold
  <2>5. \E f : IsFold(f, weight, D(n + 1))
    <3> HIDE DEF h, D
    <3> QED BY <2>4, Zenon
  <2> HIDE DEF D, h
  <2> QED BY <2>5
<1>4. Nat \subseteq G
  <2> HIDE DEF G
  <2> QED BY <1>2, <1>3, NaturalsBySteps
<1>5. Cardinality(S) \in Nat /\ \A s \in SUBSET S : Cardinality(s) <= Cardinality(S)
  BY FS_CardinalityType, FS_Subset
<1>6. D(Cardinality(S)) = SUBSET S
  BY <1>5
<1> QED BY <1>4, <1>5, <1>6

\* Two such functions agree on the sets both know.
LEMMA FoldsAgree ==
  ASSUME NEW weight, NEW S, IsFiniteSet(S), NEW T, T \in SUBSET S
  PROVE  \A g, h : IsFold(g, weight, SUBSET S) /\ IsFold(h, weight, SUBSET T) => g[T] = h[T]
<1> SUFFICES ASSUME NEW g, NEW h, IsFold(g, weight, SUBSET S), IsFold(h, weight, SUBSET T)
             PROVE  g[T] = h[T]
  OBVIOUS
<1> DEFINE G == {n \in Nat : \A s \in SUBSET T : Cardinality(s) = n => g[s] = h[s]}
<1>1. \A s \in SUBSET T : IsFiniteSet(s) /\ Cardinality(s) \in Nat
  BY FS_Subset, FS_CardinalityType
<1>2. \A s \in SUBSET T : /\ g[s] = IF s = {} THEN 0 ELSE weight[Taken(s)] + g[s \ {Taken(s)}]
                          /\ h[s] = IF s = {} THEN 0 ELSE weight[Taken(s)] + h[s \ {Taken(s)}]
  BY DEF IsFold
<1>3. 0 \in G
  BY <1>1, <1>2, FS_EmptySet
<1>4. ASSUME NEW n \in Nat, n \in G PROVE n + 1 \in G
  <2> SUFFICES ASSUME NEW s \in SUBSET T, Cardinality(s) = n + 1 PROVE g[s] = h[s]
    OBVIOUS
  <2>1. s # {} /\ \A x \in s : Cardinality(s \ {x}) = n
    BY <1>1, OneElementLess, Zenon
  <2>2. s \ {Taken(s)} \in SUBSET T /\ Cardinality(s \ {Taken(s)}) = n
    BY <2>1 DEF Taken
  <2>3. g[s \ {Taken(s)}] = h[s \ {Taken(s)}]
    BY <1>4, <2>2
  <2> QED BY <1>2, <2>1, <2>3
<1>5. Nat \subseteq G
  <2> HIDE DEF G
  <2> QED BY <1>3, <1>4, NaturalsBySteps
<1> QED BY <1>1, <1>5

-----------------------------------------------------------------------------
\* The sum over no rows.
LEMMA TotalOfNone == ASSUME NEW weight PROVE Total(weight, {}) = 0
<1>1. \E g : IsFold(g, weight, SUBSET {})
  BY FoldExists, FS_EmptySet
<1>2. IsFold(CHOOSE g : IsFold(g, weight, SUBSET {}), weight, SUBSET {})
  BY <1>1
<1> DEFINE f == CHOOSE g : IsFold(g, weight, SUBSET {})
<1>3. f[{}] = 0
  <2> HIDE DEF f
  <2> USE <1>2
  <2>1. IsFold(f, weight, SUBSET {})
    BY <1>2 DEF f
  <2> QED BY <2>1 DEF IsFold
<1> QED BY <1>3, TotalIsFold

\* The sum over some rows takes one of them off.
LEMMA TotalTakes ==
  ASSUME NEW weight, NEW S, IsFiniteSet(S), S # {}
  PROVE  Total(weight, S) = weight[Taken(S)] + Total(weight, S \ {Taken(S)})
<1> DEFINE T == S \ {Taken(S)}
           f == CHOOSE g : IsFold(g, weight, SUBSET S)
           e == CHOOSE g : IsFold(g, weight, SUBSET T)
<1>1. T \in SUBSET S /\ IsFiniteSet(T)
  <2>1. T \in SUBSET S
    OBVIOUS
  <2> QED BY <2>1, FS_Subset, Zenon
<1>2. Total(weight, S) = f[S] /\ Total(weight, T) = e[T]
  BY TotalIsFold
<1>3. IsFold(f, weight, SUBSET S)
  BY FoldExists
<1>4. IsFold(e, weight, SUBSET T)
  BY <1>1, FoldExists
<1> HIDE DEF f, e
<1>5. f[S] = weight[Taken(S)] + f[T]
  BY <1>3 DEF IsFold
<1>6. f[T] = e[T]
  <2> HIDE DEF T
  <2>1. \A g, h : IsFold(g, weight, SUBSET S) /\ IsFold(h, weight, SUBSET T) => g[T] = h[T]
    BY <1>1, FoldsAgree
  <2>2. IsFold(f, weight, SUBSET S) /\ IsFold(e, weight, SUBSET T)
    BY <1>3, <1>4
  <2> QED BY <2>1, <2>2
<1> QED BY <1>2, <1>5, <1>6

\* A sum of integers is an integer.
LEMMA TotalIsInt ==
  ASSUME NEW weight, NEW S, IsFiniteSet(S), \A x \in S : weight[x] \in Int
  PROVE  Total(weight, S) \in Int
<1> DEFINE G == {n \in Nat : \A T \in SUBSET S : Cardinality(T) = n => Total(weight, T) \in Int}
<1>1. \A T \in SUBSET S : IsFiniteSet(T) /\ Cardinality(T) \in Nat
  BY FS_Subset, FS_CardinalityType
<1>2. 0 \in G
  BY <1>1, FS_EmptySet, TotalOfNone
<1>3. ASSUME NEW n \in Nat, n \in G PROVE n + 1 \in G
  <2> SUFFICES ASSUME NEW T \in SUBSET S, Cardinality(T) = n + 1 PROVE Total(weight, T) \in Int
    OBVIOUS
  <2>1. IsFiniteSet(T) /\ T # {}
    BY <1>1, OneElementLess, Zenon
  <2>2. /\ Taken(T) \in T /\ T \ {Taken(T)} \in SUBSET S
        /\ Cardinality(T \ {Taken(T)}) = n
    BY <2>1, TakenIsLess
  <2>3. Total(weight, T \ {Taken(T)}) \in Int
    BY <1>3, <2>2
  <2>4. Total(weight, T) = weight[Taken(T)] + Total(weight, T \ {Taken(T)})
    BY <1>1, <2>1, TotalTakes
  <2> QED BY <2>2, <2>3, <2>4
<1>4. Nat \subseteq G
  <2> HIDE DEF G
  <2> QED BY <1>2, <1>3, NaturalsBySteps
<1> QED BY <1>1, <1>4

\* One more row adds its weight, whichever row the fold takes first.
LEMMA TotalAdds ==
  ASSUME NEW weight, NEW S, IsFiniteSet(S), NEW x, x \notin S, weight[x] \in Int,
         \A y \in S : weight[y] \in Int
  PROVE  Total(weight, S \cup {x}) = Total(weight, S) + weight[x]
<1> DEFINE A == S \cup {x}
           G == {n \in Nat : \A T \in SUBSET A, z \in A :
                   Cardinality(T) = n /\ z \notin T =>
                     Total(weight, T \cup {z}) = Total(weight, T) + weight[z]}
<1>0. IsFiniteSet(A)
  BY FS_AddElement
<1>1. \A T \in SUBSET A : IsFiniteSet(T) /\ Cardinality(T) \in Nat /\ Total(weight, T) \in Int
  BY <1>0, FS_Subset, FS_CardinalityType, TotalIsInt
<1>2. ASSUME NEW z \in A, NEW T \in SUBSET A, z \notin T, Taken(T \cup {z}) = z
      PROVE  Total(weight, T \cup {z}) = Total(weight, T) + weight[z]
  <2>1. (T \cup {z}) \ {z} = T /\ T \cup {z} # {} /\ IsFiniteSet(T \cup {z})
    BY <1>1, <1>2
  <2>2. Total(weight, T \cup {z}) = weight[z] + Total(weight, T)
    BY <1>2, <2>1, TotalTakes
  <2> QED BY <1>1, <2>2
<1>3. 0 \in G
  <2> SUFFICES ASSUME NEW z \in A PROVE Total(weight, {} \cup {z}) = Total(weight, {}) + weight[z]
    BY <1>1, FS_EmptySet
  <2>1. Taken({} \cup {z}) = z
    BY DEF Taken
  <2> QED BY <1>2, <2>1
<1>4. ASSUME NEW n \in Nat, n \in G PROVE n + 1 \in G
  <2> SUFFICES ASSUME NEW T \in SUBSET A, NEW z \in A, Cardinality(T) = n + 1, z \notin T
               PROVE  Total(weight, T \cup {z}) = Total(weight, T) + weight[z]
    OBVIOUS
  <2> DEFINE y == Taken(T \cup {z})
             U == T \ {y}
  <2>1. y \in T \cup {z}
    BY DEF Taken
  <2>2. CASE y = z
    BY <1>2, <2>2
  <2>3. CASE y # z
    <3>1. y \in T /\ U \in SUBSET A /\ y \in A
      BY <2>1, <2>3
    <3>2. Cardinality(U) = n
      BY <1>1, <3>1, OneElementLess, Zenon
    <3>3. /\ T \cup {z} # {} /\ IsFiniteSet(T \cup {z})
          /\ (T \cup {z}) \ {y} = U \cup {z} /\ U \cup {y} = T
          /\ z \notin U /\ y \notin U
      BY <1>1, <2>3, <3>1
    <3> HIDE DEF U
    <3>4. Total(weight, T \cup {z}) = weight[y] + Total(weight, U \cup {z})
      BY <3>3, TotalTakes
    <3>5. Total(weight, U \cup {z}) = Total(weight, U) + weight[z]
      BY <1>4, <3>1, <3>2, <3>3
    <3>6. Total(weight, U \cup {y}) = Total(weight, U) + weight[y]
      BY <1>4, <3>1, <3>2, <3>3
    <3>7. Total(weight, U) \in Int /\ weight[z] \in Int /\ weight[y] \in Int
      BY <1>1, <3>1
    <3>8. Total(weight, T \cup {z}) = weight[y] + (Total(weight, U) + weight[z])
      BY <3>4, <3>5
    <3>9. Total(weight, T) = Total(weight, U) + weight[y]
      BY <3>3, <3>6
    <3> QED BY <3>7, <3>8, <3>9
  <2> QED BY <2>2, <2>3
<1>5. Nat \subseteq G
  <2> HIDE DEF G
  <2> QED BY <1>3, <1>4, NaturalsBySteps
<1> QED BY <1>1, <1>5

\* Only the weights of the rows that are summed matter.
LEMMA TotalSees ==
  ASSUME NEW v, NEW w, NEW S, IsFiniteSet(S), \A x \in S : v[x] \in Int /\ v[x] = w[x]
  PROVE  Total(v, S) = Total(w, S)
<1> DEFINE G == {T \in SUBSET S : Total(v, T) = Total(w, T)}
<1>1. {} \in G
  BY TotalOfNone
<1>2. ASSUME NEW T \in SUBSET S, NEW x \in S, T \in G, x \notin T PROVE T \cup {x} \in G
  <2>1. IsFiniteSet(T)
    BY FS_Subset
  <2>2. Total(v, T \cup {x}) = Total(v, T) + v[x]
    BY <1>2, <2>1, TotalAdds
  <2>3. Total(w, T \cup {x}) = Total(w, T) + w[x]
    BY <1>2, <2>1, TotalAdds
  <2> QED BY <1>2, <2>2, <2>3
<1>3. S \in G
  <2> HIDE DEF G
  <2> QED BY <1>1, <1>2, SetsByElements
<1> QED BY <1>3

\* One row less takes its weight off.
LEMMA TotalDrops ==
  ASSUME NEW weight, NEW S, IsFiniteSet(S), NEW x \in S, \A y \in S : weight[y] \in Int
  PROVE  Total(weight, S \ {x}) = Total(weight, S) - weight[x]
<1>0. S \ {x} \in SUBSET S /\ x \notin S \ {x} /\ S = (S \ {x}) \cup {x}
  OBVIOUS
<1>1. IsFiniteSet(S \ {x}) /\ x \notin S \ {x} /\ S = (S \ {x}) \cup {x}
  BY <1>0, FS_Subset, Zenon
<1>2. Total(weight, (S \ {x}) \cup {x}) = Total(weight, S \ {x}) + weight[x]
  BY <1>1, TotalAdds
<1>3. Total(weight, S \ {x}) \in Int
  BY <1>1, TotalIsInt
<1>4. weight[x] \in Int
  OBVIOUS
<1>5. Total(weight, S) = Total(weight, S \ {x}) + weight[x]
  BY <1>1, <1>2, Zenon
<1> QED BY <1>3, <1>4, <1>5

\* A sum of naturals is one.
LEMMA TotalIsNat ==
  ASSUME NEW weight, NEW S, IsFiniteSet(S), \A x \in S : weight[x] \in Nat
  PROVE  Total(weight, S) \in Nat
<1> DEFINE G == {T \in SUBSET S : Total(weight, T) \in Nat}
<1>1. {} \in G
  BY TotalOfNone
<1>2. ASSUME NEW T \in SUBSET S, NEW x \in S, T \in G, x \notin T PROVE T \cup {x} \in G
  <2>1. IsFiniteSet(T)
    BY FS_Subset
  <2>2. Total(weight, T \cup {x}) = Total(weight, T) + weight[x]
    BY <1>2, <2>1, TotalAdds
  <2> QED BY <1>2, <2>2
<1>3. S \in G
  <2> HIDE DEF G
  <2> QED BY <1>1, <1>2, SetsByElements
<1> QED BY <1>3

\* The sums of two disjoint sets of rows add up.
LEMMA TotalUnites ==
  ASSUME NEW weight, NEW S, IsFiniteSet(S), NEW T, IsFiniteSet(T), S \cap T = {},
         \A x \in S \cup T : weight[x] \in Int
  PROVE  Total(weight, S \cup T) = Total(weight, S) + Total(weight, T)
<1> DEFINE G == {U \in SUBSET T : Total(weight, S \cup U) = Total(weight, S) + Total(weight, U)}
<1>0. Total(weight, S) \in Int
  BY TotalIsInt
<1>1. {} \in G
  <2>1. S \cup {} = S
    OBVIOUS
  <2> QED BY <1>0, <2>1, TotalOfNone
<1>2. ASSUME NEW U \in SUBSET T, NEW x \in T, U \in G, x \notin U PROVE U \cup {x} \in G
  <2>0. IsFiniteSet(U)
    BY FS_Subset, Zenon
  <2>1. IsFiniteSet(U) /\ IsFiniteSet(S \cup U) /\ x \notin S \cup U
    BY <1>2, <2>0, FS_Union, Zenon
  <2>2. Total(weight, U \cup {x}) = Total(weight, U) + weight[x]
    BY <1>2, <2>1, TotalAdds
  <2>3. Total(weight, (S \cup U) \cup {x}) = Total(weight, S \cup U) + weight[x]
    BY <1>2, <2>1, TotalAdds
  <2>4. S \cup (U \cup {x}) = (S \cup U) \cup {x}
    OBVIOUS
  <2>5. Total(weight, U) \in Int /\ weight[x] \in Int
    BY <2>1, TotalIsInt
  <2>6. Total(weight, S \cup U) = Total(weight, S) + Total(weight, U)
    BY <1>2
  <2>7. Total(weight, S \cup (U \cup {x})) = Total(weight, S \cup U) + weight[x]
    BY <2>3, <2>4, Zenon
  <2>8. Total(weight, S \cup (U \cup {x})) = Total(weight, S) + Total(weight, U \cup {x})
    BY <1>0, <2>2, <2>5, <2>6, <2>7
  <2> QED BY <2>8
<1>3. T \in G
  <2> HIDE DEF G
  <2> QED BY <1>1, <1>2, SetsByElements
<1> QED BY <1>3

\* Naturals over fewer rows come to no more.
LEMMA TotalGrows ==
  ASSUME NEW weight, NEW T, IsFiniteSet(T), NEW S \in SUBSET T, \A x \in T : weight[x] \in Nat
  PROVE  Total(weight, S) <= Total(weight, T)
<1>0. S \cap (T \ S) = {} /\ S \cup (T \ S) = T /\ T \ S \in SUBSET T
  OBVIOUS
<1>1. IsFiniteSet(S) /\ IsFiniteSet(T \ S)
  BY <1>0, FS_Subset, Zenon
<1>2. Total(weight, S \cup (T \ S)) = Total(weight, S) + Total(weight, T \ S)
  BY <1>0, <1>1, TotalUnites
<1>3. Total(weight, S) \in Nat /\ Total(weight, T \ S) \in Nat
  BY <1>0, <1>1, TotalIsNat
<1>4. Total(weight, T) = Total(weight, S) + Total(weight, T \ S)
  BY <1>0, <1>2, Zenon
<1> QED BY <1>3, <1>4
=============================================================================
