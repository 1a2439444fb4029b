---------------------------- MODULE FoldTheorems -----------------------------
(***************************************************************************)
(* Folds over finite sets.  FoldFunctionOnSet and FoldSet are recursive    *)
(* functions on the subsets of a set; the lemmas say what these functions  *)
(* are, by minimal counterexample in the order of strict inclusion.        *)
(***************************************************************************)
EXTENDS FiniteSetsExt, FiniteSetTheorems, WellFoundedInduction, TLAPS

\* A set of subsets of a finite set that is not empty has a minimal element.
LEMMA MinimalSubset ==
    ASSUME NEW S, IsFiniteSet(S), NEW T, T \subseteq SUBSET S, T # {}
    PROVE  \E A \in T : \A B \in T : ~ (B \subseteq A /\ B # A)
<1>1. IsWellFoundedOn(StrictSubsetOrdering(S), SUBSET S)
  BY FS_StrictSubsetOrderingWellFounded, FS_FiniteSubsetsOfFinite
<1>2. PICK A \in T : \A B \in T : ~ (<<B, A>> \in StrictSubsetOrdering(S))
  BY <1>1, WFMin
<1>3. \A B \in T : B \subseteq A /\ B # A => <<B, A>> \in StrictSubsetOrdering(S)
  BY DEF StrictSubsetOrdering
<1>4. \A B \in T : ~ (B \subseteq A /\ B # A) BY <1>2, <1>3
<1>5. QED BY <1>4

\* The element that a fold takes next.
Pick(s) == CHOOSE x \in s : TRUE

\* It is an element.
LEMMA PickIn == \A s : s # {} => Pick(s) \in s
BY DEF Pick

\* g is the fold of F from base over the subsets of S.
IsFold(g, F, base, S) ==
    g = [s \in SUBSET S |-> IF s = {} THEN base ELSE F[<<Pick(s), g[s \ {Pick(s)}]>>]]

\* The fold over a smaller set agrees with that over a larger one.
LEMMA FoldUnique ==
    ASSUME NEW S, IsFiniteSet(S), NEW F, NEW base, NEW A \in SUBSET S, NEW B \in SUBSET A,
           NEW g, IsFold(g, F, base, A), NEW h, IsFold(h, F, base, B)
    PROVE  g[B] = h[B]
<1> DEFINE T == {t \in SUBSET B : g[t] # h[t]}
<1>1. ASSUME T # {} PROVE FALSE
  <2>1. T \subseteq SUBSET S OBVIOUS
  <2> HIDE DEF T
  <2>2. PICK t \in T : \A u \in T : ~ (u \subseteq t /\ u # t)
    BY <1>1, <2>1, MinimalSubset
  <2> USE DEF T
  <2>3. t # {} BY <2>2 DEF IsFold
  <2>4. t \ {Pick(t)} \notin T BY <2>2, <2>3, PickIn
  <2>5. g[t \ {Pick(t)}] = h[t \ {Pick(t)}] BY <2>4
  <2>6. QED BY <2>3, <2>5 DEF IsFold
<1>2. QED BY <1>1

\* Every operation has a fold over a finite set.
LEMMA FoldExists ==
    ASSUME NEW S, IsFiniteSet(S), NEW F, NEW base
    PROVE  \E g : IsFold(g, F, base, S)
<1> DEFINE T == {A \in SUBSET S : ~ \E g : IsFold(g, F, base, A)}
<1> DEFINE G(A) == CHOOSE g : IsFold(g, F, base, A)
<1>1. ASSUME T # {} PROVE FALSE
  <2>1. T \subseteq SUBSET S OBVIOUS
  <2> HIDE DEF T
  <2>2. PICK A \in T : \A B \in T : ~ (B \subseteq A /\ B # A)
    BY <1>1, <2>1, MinimalSubset
  <2> USE DEF T
  <2>3. \A B \in SUBSET A : B # A => IsFold(G(B), F, base, B)
    BY <2>2
  <2> HIDE DEF G
  <2> DEFINE g == [s \in SUBSET A |->
                     IF s = {} THEN base
                     ELSE F[<<Pick(s), G(s \ {Pick(s)})[s \ {Pick(s)}]>>]]
  <2>4. ASSUME NEW u \in SUBSET A, u # A PROVE g[u] = G(u)[u]
    <3>1. CASE u = {} BY <2>3, <2>4, <3>1 DEF IsFold
    <3>2. CASE u # {}
      <4> DEFINE v == u \ {Pick(u)}
      <4>1. v \in SUBSET u /\ v # u /\ v \in SUBSET A /\ v # A
        BY <2>4, <3>2, PickIn
      <4>2. G(u)[v] = G(v)[v]
        <5>1. IsFold(G(u), F, base, u) /\ IsFold(G(v), F, base, v) BY <2>3, <2>4, <4>1
        <5>2. u \in SUBSET S BY <2>2
        <5> HIDE DEF v
        <5>3. QED BY <4>1, <5>1, <5>2, FoldUnique
      <4>3. G(u)[u] = F[<<Pick(u), G(u)[v]>>] BY <2>3, <2>4, <3>2 DEF IsFold
      <4>4. g[u] = F[<<Pick(u), G(v)[v]>>] BY <2>4, <3>2
      <4>5. QED BY <4>2, <4>3, <4>4
    <3>3. QED BY <3>1, <3>2
  <2>5. IsFold(g, F, base, A)
    <3>1. ASSUME NEW s \in SUBSET A, s # {}
          PROVE  g[s] = F[<<Pick(s), g[s \ {Pick(s)}]>>]
      <4>1. s \ {Pick(s)} \in SUBSET A /\ s \ {Pick(s)} # A BY <3>1, PickIn
      <4>2. g[s \ {Pick(s)}] = G(s \ {Pick(s)})[s \ {Pick(s)}] BY <2>4, <4>1
      <4>3. g[s] = F[<<Pick(s), G(s \ {Pick(s)})[s \ {Pick(s)}]>>] BY <3>1
      <4>4. QED BY <4>2, <4>3
    <3>2. g[{}] = base OBVIOUS
    <3>3. g = [s \in SUBSET A |-> g[s]] OBVIOUS
    <3> HIDE DEF g
    <3>4. g = [s \in SUBSET A |-> IF s = {} THEN base ELSE F[<<Pick(s), g[s \ {Pick(s)}]>>]]
      BY <3>1, <3>2, <3>3
    <3>5. QED BY <3>4 DEF IsFold
  <2>6. QED BY <2>2, <2>5
<1>2. S \notin T BY <1>1
<1>3. QED BY <1>2

-----------------------------------------------------------------------------
\* Sums.

\* The function that a sum is the value of.
IsSum(g, f, A) ==
    g = [s \in SUBSET A |-> IF s = {} THEN 0 ELSE f[Pick(s)] + g[s \ {Pick(s)}]]

Adding(f, S) == [p \in S \X Int |-> f[p[1]] + p[2]]

\* A sum of integers is an integer, and the sum is a fold.
LEMMA SumTyped ==
    ASSUME NEW S, IsFiniteSet(S), NEW f, \A x \in S : f[x] \in Int, NEW A \in SUBSET S, NEW g,
           IsSum(g, f, A)
    PROVE  g \in [SUBSET A -> Int] /\ IsFold(g, Adding(f, S), 0, A)
<1> DEFINE T == {t \in SUBSET A : g[t] \notin Int}
<1>1. ASSUME T # {} PROVE FALSE
  <2>1. T \subseteq SUBSET S OBVIOUS
  <2> HIDE DEF T
  <2>2. PICK t \in T : \A u \in T : ~ (u \subseteq t /\ u # t)
    BY <1>1, <2>1, MinimalSubset
  <2> USE DEF T
  <2>3. t # {} BY <2>2 DEF IsSum
  <2>4. t \ {Pick(t)} \notin T BY <2>2, <2>3, PickIn
  <2>5. g[t \ {Pick(t)}] \in Int /\ f[Pick(t)] \in Int BY <2>3, <2>4, PickIn
  <2>6. g[t] = f[Pick(t)] + g[t \ {Pick(t)}] BY <2>3 DEF IsSum
  <2>7. QED BY <2>5, <2>6
<1>2. \A t \in SUBSET A : g[t] \in Int BY <1>1
<1>3. g \in [SUBSET A -> Int] BY <1>2 DEF IsSum
<1>4. ASSUME NEW s \in SUBSET A, s # {}
      PROVE  g[s] = Adding(f, S)[<<Pick(s), g[s \ {Pick(s)}]>>]
  <2>1. Pick(s) \in S /\ g[s \ {Pick(s)}] \in Int BY <1>2, <1>4, PickIn
  <2>2. Adding(f, S)[<<Pick(s), g[s \ {Pick(s)}]>>] = f[Pick(s)] + g[s \ {Pick(s)}]
    BY <2>1 DEF Adding
  <2>3. QED BY <1>4, <2>2 DEF IsSum
<1>5. g[{}] = 0 BY DEF IsSum
<1>6. g = [s \in SUBSET A |-> IF s = {} THEN 0 ELSE Adding(f, S)[<<Pick(s), g[s \ {Pick(s)}]>>]]
  BY <1>3, <1>4, <1>5
<1>7. QED BY <1>3, <1>6 DEF IsFold

\* Every function to the integers has a sum over a finite set.
LEMMA SumExists ==
    ASSUME NEW S, IsFiniteSet(S), NEW f, \A x \in S : f[x] \in Int
    PROVE  \E g : IsSum(g, f, S)
<1>1. PICK g : IsFold(g, Adding(f, S), 0, S) BY FoldExists
<1> DEFINE T == {t \in SUBSET S : g[t] \notin Int}
<1>2. \A s \in SUBSET S : s # {} => g[s] = Adding(f, S)[<<Pick(s), g[s \ {Pick(s)}]>>]
  BY <1>1 DEF IsFold
<1>3. g[{}] = 0 BY <1>1 DEF IsFold
<1>4. ASSUME NEW s \in SUBSET S, s # {}, g[s \ {Pick(s)}] \in Int
      PROVE  g[s] = f[Pick(s)] + g[s \ {Pick(s)}] /\ g[s] \in Int
  <2>1. Pick(s) \in S /\ f[Pick(s)] \in Int BY <1>4, PickIn
  <2>2. Adding(f, S)[<<Pick(s), g[s \ {Pick(s)}]>>] = f[Pick(s)] + g[s \ {Pick(s)}]
    BY <1>4, <2>1 DEF Adding
  <2>3. g[s] = f[Pick(s)] + g[s \ {Pick(s)}] BY <1>2, <1>4, <2>2
  <2>4. QED BY <1>4, <2>1, <2>3
<1>5. ASSUME T # {} PROVE FALSE
  <2>1. T \subseteq SUBSET S OBVIOUS
  <2> HIDE DEF T
  <2>2. PICK t \in T : \A u \in T : ~ (u \subseteq t /\ u # t)
    BY <1>5, <2>1, MinimalSubset
  <2> USE DEF T
  <2>3. t # {}
    <3>1. g[t] \notin Int BY <2>2
    <3>2. QED BY <1>3, <3>1
  <2>4. t \ {Pick(t)} \notin T BY <2>2, <2>3, PickIn
  <2>5. QED BY <1>4, <2>3, <2>4
<1>6. \A s \in SUBSET S : s # {} => g[s] = f[Pick(s)] + g[s \ {Pick(s)}]
  BY <1>4, <1>5
<1>7. g = [s \in SUBSET S |-> IF s = {} THEN 0 ELSE f[Pick(s)] + g[s \ {Pick(s)}]]
  <2>1. g = [s \in SUBSET S |-> g[s]] BY <1>1 DEF IsFold
  <2>2. QED BY <1>3, <1>6, <2>1
<1>8. QED BY <1>7 DEF IsSum

\* SumFunctionOnSet is that sum.
LEMMA SumIs ==
    ASSUME NEW S, NEW f
    PROVE  SumFunctionOnSet(f, S) = (CHOOSE g : IsSum(g, f, S))[S]
BY DEF SumFunctionOnSet, FoldFunctionOnSet, MapThenFoldSet, IsSum, Pick

\* A sum takes one element after the other.
LEMMA SumStep ==
    ASSUME NEW S, IsFiniteSet(S), NEW f, \A x \in S : f[x] \in Int
    PROVE  /\ SumFunctionOnSet(f, S) \in Int
           /\ SumFunctionOnSet(f, {}) = 0
           /\ S # {} => SumFunctionOnSet(f, S)
                           = f[Pick(S)] + SumFunctionOnSet(f, S \ {Pick(S)})
<1> DEFINE G(A) == CHOOSE g : IsSum(g, f, A)
<1>1. ASSUME NEW A \in SUBSET S
      PROVE  /\ SumFunctionOnSet(f, A) = G(A)[A]
             /\ IsSum(G(A), f, A)
             /\ G(A) \in [SUBSET A -> Int]
             /\ IsFold(G(A), Adding(f, S), 0, A)
  <2>1. IsFiniteSet(A) BY <1>1, FS_Subset
  <2>2. IsSum(G(A), f, A) BY <1>1, <2>1, SumExists
  <2>3. SumFunctionOnSet(f, A) = G(A)[A] BY SumIs
  <2> HIDE DEF G
  <2>4. QED BY <1>1, <2>2, <2>3, SumTyped
<1> HIDE DEF G
<1>2. SumFunctionOnSet(f, S) \in Int
  <2>1. S \in SUBSET S OBVIOUS
  <2>2. SumFunctionOnSet(f, S) = G(S)[S] /\ G(S) \in [SUBSET S -> Int] BY <1>1, <2>1
  <2>3. QED BY <2>1, <2>2
<1>3. SumFunctionOnSet(f, {}) = 0 BY <1>1 DEF IsSum
<1>4. ASSUME S # {}
      PROVE  SumFunctionOnSet(f, S) = f[Pick(S)] + SumFunctionOnSet(f, S \ {Pick(S)})
  <2> DEFINE B == S \ {Pick(S)}
  <2>1. B \in SUBSET S OBVIOUS
  <2>2. G(S)[S] = f[Pick(S)] + G(S)[B] BY <1>1, <1>4 DEF IsSum
  <2>3. G(S)[B] = G(B)[B]
    <3> HIDE DEF B
    <3>1. S \in SUBSET S OBVIOUS
    <3>2. IsFold(G(S), Adding(f, S), 0, S) /\ IsFold(G(B), Adding(f, S), 0, B)
      BY <1>1, <2>1, <3>1
    <3>3. QED BY <2>1, <3>1, <3>2, FoldUnique
  <2>4. QED BY <1>1, <2>1, <2>2, <2>3
<1>5. QED BY <1>2, <1>3, <1>4

\* The order does not matter: an element more adds its value.
THEOREM SumAdds ==
    ASSUME NEW S, IsFiniteSet(S), NEW f, \A x \in S : f[x] \in Int, NEW x \in S
    PROVE  SumFunctionOnSet(f, S) = f[x] + SumFunctionOnSet(f, S \ {x})
<1> DEFINE Q(A) == SumFunctionOnSet(f, A)
<1> DEFINE T == {A \in SUBSET S : \E y \in A : Q(A) # f[y] + Q(A \ {y})}
<1>1. ASSUME NEW A \in SUBSET S
      PROVE  Q(A) \in Int /\ (A # {} => Q(A) = f[Pick(A)] + Q(A \ {Pick(A)}))
  <2>1. IsFiniteSet(A) BY FS_Subset
  <2>2. QED BY <2>1, SumStep
<1> HIDE DEF Q
<1>2. ASSUME T # {} PROVE FALSE
  <2>1. T \subseteq SUBSET S OBVIOUS
  <2> HIDE DEF T
  <2>2. PICK A \in T : \A B \in T : ~ (B \subseteq A /\ B # A)
    BY <1>2, <2>1, MinimalSubset
  <2> USE DEF T
  <2>3. PICK y \in A : Q(A) # f[y] + Q(A \ {y}) BY <2>2
  <2> DEFINE z == Pick(A)
  <2>4. z \in A BY <2>3, PickIn
  <2>5. Q(A) = f[z] + Q(A \ {z}) BY <1>1, <2>3
  <2>6. z # y BY <2>3, <2>5
  <2> HIDE DEF z
  <2>7. A \ {z} \notin T /\ A \ {y} \notin T BY <2>2, <2>3, <2>4
  <2>8. Q(A \ {z}) = f[y] + Q((A \ {z}) \ {y}) BY <2>3, <2>6, <2>7
  <2>9. Q(A \ {y}) = f[z] + Q((A \ {y}) \ {z}) BY <2>4, <2>6, <2>7
  <2>10. (A \ {z}) \ {y} = (A \ {y}) \ {z} OBVIOUS
  <2>11. Q((A \ {z}) \ {y}) \in Int /\ f[y] \in Int /\ f[z] \in Int
    BY <1>1, <2>3, <2>4
  <2>12. Q(A) = f[z] + (f[y] + Q((A \ {z}) \ {y})) BY <2>5, <2>8
  <2>13. f[y] + Q(A \ {y}) = f[y] + (f[z] + Q((A \ {z}) \ {y})) BY <2>9, <2>10
  <2> DEFINE q == Q((A \ {z}) \ {y})
  <2> HIDE DEF T
  <2>14. f[z] + (f[y] + q) = f[y] + (f[z] + q)
    <3>1. q \in Int /\ f[y] \in Int /\ f[z] \in Int BY <2>11
    <3> HIDE DEF q
    <3>2. QED BY <3>1
  <2>15. QED BY <2>3, <2>12, <2>13, <2>14
<1>3. S \notin T BY <1>2
<1>4. QED BY <1>3 DEF Q

\* Of numbers that are not negative, more have a larger sum.
THEOREM SumGrows ==
    ASSUME NEW S, IsFiniteSet(S), NEW f, \A x \in S : f[x] \in Nat, NEW A \in SUBSET S
    PROVE  /\ SumFunctionOnSet(f, A) \in Int /\ SumFunctionOnSet(f, S) \in Int
           /\ SumFunctionOnSet(f, A) <= SumFunctionOnSet(f, S)
<1> DEFINE Q(B) == SumFunctionOnSet(f, B)
<1> DEFINE T == {B \in SUBSET S : A \subseteq B /\ ~ (Q(A) <= Q(B))}
<1>1. ASSUME NEW B \in SUBSET S
      PROVE  Q(B) \in Int /\ \A x \in B : Q(B) = f[x] + Q(B \ {x})
  <2>1. IsFiniteSet(B) BY FS_Subset
  <2>2. \A x \in B : f[x] \in Int OBVIOUS
  <2>3. QED BY <2>1, <2>2, SumStep, SumAdds
<1> HIDE DEF Q
<1>2. ASSUME T # {} PROVE FALSE
  <2>1. T \subseteq SUBSET S OBVIOUS
  <2> HIDE DEF T
  <2>2. PICK B \in T : \A C \in T : ~ (C \subseteq B /\ C # B)
    BY <1>2, <2>1, MinimalSubset
  <2> USE DEF T
  <2>3. B # A BY <1>1, <2>2
  <2>4. PICK x \in B : x \notin A BY <2>2, <2>3
  <2>5. B \ {x} \notin T BY <2>2, <2>4
  <2>6. Q(A) <= Q(B \ {x}) BY <2>2, <2>4, <2>5
  <2>7. Q(B) = f[x] + Q(B \ {x}) BY <1>1, <2>2, <2>4
  <2>8. Q(A) \in Int /\ Q(B \ {x}) \in Int /\ f[x] \in Nat BY <1>1, <2>2, <2>4
  <2>9. Q(A) <= Q(B) BY <2>6, <2>7, <2>8
  <2>10. QED BY <2>2, <2>9
<1>3. S \notin T BY <1>2
<1>4. QED BY <1>1, <1>3 DEF Q
\* A sum is made of the values on the set and of nothing else.
THEOREM SumAgrees ==
    ASSUME NEW S, IsFiniteSet(S), NEW f, \A x \in S : f[x] \in Int,
           NEW h, \A x \in S : h[x] = f[x]
    PROVE  SumFunctionOnSet(h, S) = SumFunctionOnSet(f, S)
<1> DEFINE Q(g, B) == SumFunctionOnSet(g, B)
<1> DEFINE T == {B \in SUBSET S : Q(h, B) # Q(f, B)}
<1>1. ASSUME NEW B \in SUBSET S
      PROVE  /\ \A x \in B : Q(f, B) = f[x] + Q(f, B \ {x})
             /\ \A x \in B : Q(h, B) = h[x] + Q(h, B \ {x})
  <2>1. IsFiniteSet(B) BY FS_Subset
  <2>2. \A x \in B : f[x] \in Int OBVIOUS
  <2>3. \A x \in B : h[x] \in Int OBVIOUS
  <2>4. \A x \in B : Q(f, B) = f[x] + Q(f, B \ {x}) BY <2>1, <2>2, SumAdds
  <2>5. \A x \in B : Q(h, B) = h[x] + Q(h, B \ {x}) BY <2>1, <2>3, SumAdds
  <2>6. QED BY <2>4, <2>5
<1>2. Q(h, {}) = Q(f, {})
  <2>1. IsFiniteSet({}) BY FS_EmptySet
  <2>2. Q(f, {}) = 0 /\ Q(h, {}) = 0 BY <2>1, SumStep
  <2>3. QED BY <2>2
<1> HIDE DEF Q
<1>3. ASSUME T # {} PROVE FALSE
  <2>1. T \subseteq SUBSET S OBVIOUS
  <2> HIDE DEF T
  <2>2. PICK B \in T : \A C \in T : ~ (C \subseteq B /\ C # B)
    BY <1>3, <2>1, MinimalSubset
  <2> USE DEF T
  <2>3. B # {} BY <1>2, <2>2
  <2>4. PICK x \in B : TRUE BY <2>3
  <2>5. B \ {x} \notin T BY <2>2, <2>4
  <2>6. Q(h, B \ {x}) = Q(f, B \ {x}) BY <2>2, <2>5
  <2>7. Q(f, B) = f[x] + Q(f, B \ {x}) /\ Q(h, B) = h[x] + Q(h, B \ {x}) BY <1>1, <2>2, <2>4
  <2>8. Q(h, B) = Q(f, B) BY <2>2, <2>4, <2>6, <2>7
  <2>9. QED BY <2>2, <2>8
<1>4. S \notin T BY <1>3
<1>5. QED BY <1>4 DEF Q

\* The sum over two sets that have nothing in common.
THEOREM SumSplits ==
    ASSUME NEW A, NEW B, IsFiniteSet(A), IsFiniteSet(B), A \cap B = {},
           NEW f, \A x \in A \cup B : f[x] \in Int
    PROVE  SumFunctionOnSet(f, A \cup B) = SumFunctionOnSet(f, A) + SumFunctionOnSet(f, B)
<1> DEFINE Q(C) == SumFunctionOnSet(f, C)
<1> DEFINE T == {C \in SUBSET B : Q(A \cup C) # Q(A) + Q(C)}
<1>1. ASSUME NEW C \in SUBSET (A \cup B)
      PROVE  Q(C) \in Int /\ \A x \in C : Q(C) = f[x] + Q(C \ {x})
  <2>1. IsFiniteSet(A \cup B) BY FS_Union
  <2>2. IsFiniteSet(C) BY <2>1, FS_Subset
  <2>3. \A x \in C : f[x] \in Int OBVIOUS
  <2>4. Q(C) \in Int BY <2>2, <2>3, SumStep
  <2>5. \A x \in C : Q(C) = f[x] + Q(C \ {x}) BY <2>2, <2>3, SumAdds
  <2>6. QED BY <2>4, <2>5
<1>2. Q({}) = 0
  <2>1. IsFiniteSet({}) BY FS_EmptySet
  <2>2. QED BY <2>1, SumStep
<1> HIDE DEF Q
<1>3. ASSUME T # {} PROVE FALSE
  <2>1. T \subseteq SUBSET B OBVIOUS
  <2> HIDE DEF T
  <2>2. PICK C \in T : \A D \in T : ~ (D \subseteq C /\ D # C)
    BY <1>3, <2>1, MinimalSubset
  <2> USE DEF T
  <2>3. Q(A) \in Int BY <1>1
  <2>4. C # {}
    <3>1. Q(A) = Q(A) + 0 BY <2>3
    <3>2. A \cup {} = A OBVIOUS
    <3>3. QED BY <1>2, <2>2, <3>1, <3>2
  <2>5. PICK x \in C : TRUE BY <2>4
  <2> DEFINE D == C \ {x}
  <2>6. D \notin T /\ D \in SUBSET B BY <2>2, <2>5
  <2>7. Q(A \cup D) = Q(A) + Q(D) BY <2>6
  <2>8. (A \cup C) \ {x} = A \cup D /\ A \cup C \in SUBSET (A \cup B) /\ x \in A \cup C
    BY <2>2, <2>5
  <2>9. Q(A \cup C) = f[x] + Q(A \cup D) BY <1>1, <2>8
  <2>10. Q(C) = f[x] + Q(D) BY <1>1, <2>2, <2>5
  <2>11. Q(D) \in Int /\ f[x] \in Int BY <1>1, <2>2, <2>5
  <2> HIDE DEF D, T
  <2>12. Q(A \cup C) = Q(A) + Q(C) BY <2>3, <2>7, <2>9, <2>10, <2>11
  <2> USE DEF T
  <2>13. QED BY <2>2, <2>12
<1>4. B \notin T BY <1>3
<1>5. QED BY <1>4 DEF Q
=============================================================================
