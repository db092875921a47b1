---------------------------- MODULE SumTheorems ----------------------------
(***************************************************************************)
(* Facts about the sum of a function over a finite set, the operator the   *)
(* models use wherever a contract keeps a total beside its parts (locked   *)
(* stake and its queue, a token balance and what is owed from it, voting   *)
(* power and its delegations).                                             *)
(*                                                                         *)
(* SumFunctionOnSet is a fold that picks its elements by CHOOSE.  Each     *)
(* proof takes a smallest subset that refutes the claim, which exists      *)
(* because strict inclusion is well founded on the subsets of a finite     *)
(* set, and removes one element from it.                                   *)
(***************************************************************************)
EXTENDS Functions, FiniteSetTheorems, TLAPS

\* The element of s that the fold of SumFunctionOnSet takes next.
NextOf(s) == CHOOSE x \in s : TRUE

\* g tabulates the sums of f over the subsets of S.
IsTable(f, S, g) ==
    g = [s \in SUBSET S |->
            IF s = {} THEN 0 ELSE f[NextOf(s)] + g[s \ {NextOf(s)}]]

Table(f, S) == CHOOSE g : IsTable(f, S, g)

\* A non-empty family of subsets of a finite set has a minimal member.
LEMMA MinimalMember ==
    ASSUME NEW S, IsFiniteSet(S), NEW F, F \subseteq SUBSET S, F # {}
    PROVE  \E T \in F : \A U \in F : U \subseteq T => U = T
<1>1. IsWellFoundedOn(StrictSubsetOrdering(S), FiniteSubsetsOf(S))
  BY FS_StrictSubsetOrderingWellFounded
<1>2. F \subseteq FiniteSubsetsOf(S)
  BY FS_FiniteSubsetsOfFinite
<1>3. \E T \in F : \A U \in F : ~(<<U, T>> \in StrictSubsetOrdering(S))
  BY <1>1, <1>2, WFMin
<1>. QED
  BY <1>3 DEF StrictSubsetOrdering

\* The fold reads its result off a table of the sums over the subsets.
LEMMA SumIsTable ==
    ASSUME NEW f, NEW S
    PROVE  SumFunctionOnSet(f, S) = Table(f, S)[S]
  BY DEF SumFunctionOnSet, FoldFunctionOnSet, MapThenFoldSet, Table, IsTable, NextOf

\* Two tables agree wherever both are defined.
LEMMA TablesAgree ==
    ASSUME NEW f, NEW S, NEW T, IsFiniteSet(T), T \subseteq S,
           NEW g, NEW h, IsTable(f, S, g), IsTable(f, T, h)
    PROVE  \A s \in SUBSET T : g[s] = h[s]
<1>. DEFINE Bad == {s \in SUBSET T : g[s] # h[s]}
<1>1. SUFFICES ASSUME Bad # {} PROVE FALSE
  OBVIOUS
<1>2. PICK s \in Bad : \A u \in Bad : u \subseteq s => u = s
  <2>1. Bad \subseteq SUBSET T
    OBVIOUS
  <2>. HIDE DEF Bad
  <2>. QED
    BY <1>1, <2>1, MinimalMember
<1>3. s \subseteq S /\ s \subseteq T /\ g[s] # h[s]
  BY <1>2
<1>4. s # {}
  BY <1>3 DEF IsTable
<1>5. NextOf(s) \in s
  BY <1>4 DEF NextOf
<1>6. g[s \ {NextOf(s)}] = h[s \ {NextOf(s)}]
  BY <1>2, <1>3, <1>5
<1>7. g[s] = f[NextOf(s)] + g[s \ {NextOf(s)}]
  BY <1>3, <1>4 DEF IsTable
<1>8. h[s] = f[NextOf(s)] + h[s \ {NextOf(s)}]
  BY <1>3, <1>4 DEF IsTable
<1>. QED
  BY <1>3, <1>6, <1>7, <1>8

\* A finite set has a table, so the recursion of the fold is well founded.
LEMMA TableExists ==
    ASSUME NEW f, NEW S, IsFiniteSet(S)
    PROVE  IsTable(f, S, Table(f, S))
<1>. DEFINE Bad == {T \in SUBSET S : ~ \E g : IsTable(f, T, g)}
<1>1. SUFFICES ASSUME Bad # {} PROVE FALSE
  BY DEF Table
<1>2. PICK T \in Bad : \A U \in Bad : U \subseteq T => U = T
  <2>1. Bad \subseteq SUBSET S
    OBVIOUS
  <2>. HIDE DEF Bad
  <2>. QED
    BY <1>1, <2>1, MinimalMember
<1>3. T \subseteq S /\ ~ \E g : IsTable(f, T, g)
  BY <1>2
<1>4. ASSUME NEW U, U \subseteq T, U # T
      PROVE  IsTable(f, U, Table(f, U))
  BY <1>2, <1>3, <1>4 DEF Table
<1>. DEFINE rest(s) == s \ {NextOf(s)}
            h == [s \in SUBSET T |->
                    IF s = {} THEN 0
                    ELSE f[NextOf(s)] + Table(f, rest(s))[rest(s)]]
<1>5. ASSUME NEW s \in SUBSET T, s # {}
      PROVE  rest(s) \subseteq T /\ rest(s) # T /\ rest(s) # s
  BY <1>5 DEF NextOf
<1>6. ASSUME NEW s \in SUBSET T, s # {}
      PROVE  Table(f, rest(s))[rest(s)] = h[rest(s)]
  <2>. DEFINE r == rest(s)
              q == rest(r)
  <2>1. r \subseteq T /\ r # T
    BY <1>5, <1>6
  <2>2. IsTable(f, r, Table(f, r))
    BY <1>4, <2>1
  <2>3. CASE r = {}
    <3>1. Table(f, r)[r] = 0
      BY <2>2, <2>3 DEF IsTable
    <3>. QED
      BY <2>1, <2>3, <3>1
  <2>4. CASE r # {}
    <3>1. q \subseteq r /\ q \subseteq T /\ q # T
      BY <1>5, <2>1, <2>4
    <3>2. IsTable(f, q, Table(f, q)) /\ IsFiniteSet(q)
      BY <1>3, <1>4, <3>1, FS_Subset
    <3>3. Table(f, r)[q] = Table(f, q)[q]
      BY <2>2, <3>1, <3>2, TablesAgree
    <3>4. Table(f, r)[r] = f[NextOf(r)] + Table(f, r)[q]
      BY <2>2, <2>4 DEF IsTable
    <3>5. h[r] = f[NextOf(r)] + Table(f, q)[q]
      BY <2>1, <2>4
    <3>. QED
      BY <3>3, <3>4, <3>5
  <2>. QED
    BY <2>3, <2>4
<1>7. IsTable(f, T, h)
  <2>1. \A s \in SUBSET T : s # {} => h[s] = f[NextOf(s)] + h[rest(s)]
    BY <1>6
  <2>2. {} \in SUBSET T => h[{}] = 0
    OBVIOUS
  <2>. QED
    BY <2>1, <2>2 DEF IsTable
<1>. QED
  BY <1>3, <1>7

-----------------------------------------------------------------------------

\* The empty sum is zero.
THEOREM SumEmpty == ASSUME NEW f PROVE SumFunctionOnSet(f, {}) = 0
<1>1. IsTable(f, {}, Table(f, {}))
  BY TableExists, FS_EmptySet
<1>. QED
  BY <1>1, SumIsTable DEF IsTable

\* The fold takes NextOf(S) first.
LEMMA SumUnfold ==
    ASSUME NEW f, NEW S, IsFiniteSet(S), S # {}
    PROVE  /\ NextOf(S) \in S
           /\ SumFunctionOnSet(f, S) =
                 f[NextOf(S)] + SumFunctionOnSet(f, S \ {NextOf(S)})
<1>. DEFINE r == S \ {NextOf(S)}
<1>1. NextOf(S) \in S
  BY DEF NextOf
<1>2. IsFiniteSet(r) /\ r \subseteq S
  BY FS_RemoveElement
<1>3. IsTable(f, S, Table(f, S)) /\ IsTable(f, r, Table(f, r))
  BY <1>2, TableExists
<1>4. Table(f, S)[r] = Table(f, r)[r]
  BY <1>2, <1>3, TablesAgree
<1>5. Table(f, S)[S] = f[NextOf(S)] + Table(f, S)[r]
  BY <1>3 DEF IsTable
<1>. QED
  BY <1>1, <1>4, <1>5, SumIsTable

\* A sum of integers is an integer.
THEOREM SumType ==
    ASSUME NEW S, IsFiniteSet(S), NEW f, \A x \in S : f[x] \in Int
    PROVE  SumFunctionOnSet(f, S) \in Int
<1>. DEFINE Bad == {T \in SUBSET S : SumFunctionOnSet(f, T) \notin Int}
<1>1. SUFFICES ASSUME Bad # {} PROVE FALSE
  OBVIOUS
<1>2. PICK T \in Bad : \A U \in Bad : U \subseteq T => U = T
  <2>1. Bad \subseteq SUBSET S
    OBVIOUS
  <2>. HIDE DEF Bad
  <2>. QED
    BY <1>1, <2>1, MinimalMember
<1>3. T \subseteq S /\ SumFunctionOnSet(f, T) \notin Int /\ IsFiniteSet(T)
  BY <1>2, FS_Subset
<1>4. T # {}
  BY <1>3, SumEmpty
<1>5. NextOf(T) \in T /\ SumFunctionOnSet(f, T) =
             f[NextOf(T)] + SumFunctionOnSet(f, T \ {NextOf(T)})
  BY <1>3, <1>4, SumUnfold
<1>6. SumFunctionOnSet(f, T \ {NextOf(T)}) \in Int
  BY <1>2, <1>3, <1>5
<1>. QED
  BY <1>3, <1>5, <1>6

\* The order in which the fold visits the elements does not matter.
THEOREM SumRemove ==
    ASSUME NEW S, IsFiniteSet(S), NEW f, \A x \in S : f[x] \in Int,
           NEW y \in S
    PROVE  SumFunctionOnSet(f, S) = f[y] + SumFunctionOnSet(f, S \ {y})
<1>. DEFINE Sum(T) == SumFunctionOnSet(f, T)
            Bad == {T \in SUBSET S : \E x \in T : Sum(T) # f[x] + Sum(T \ {x})}
<1>1. SUFFICES ASSUME Bad # {} PROVE FALSE
  OBVIOUS
<1>2. PICK T \in Bad : \A U \in Bad : U \subseteq T => U = T
  <2>1. Bad \subseteq SUBSET S
    OBVIOUS
  <2>. HIDE DEF Bad
  <2>. QED
    BY <1>1, <2>1, MinimalMember
<1>3. PICK x \in T : Sum(T) # f[x] + Sum(T \ {x})
  BY <1>2
<1>. DEFINE n == NextOf(T)
<1>4. T \subseteq S /\ IsFiniteSet(T) /\ T # {}
  BY <1>2, <1>3, FS_Subset
<1>5. n \in T /\ Sum(T) = f[n] + Sum(T \ {n})
  BY <1>4, SumUnfold
<1>6. n # x
  BY <1>3, <1>5
<1>7. Sum(T \ {n}) = f[x] + Sum((T \ {n}) \ {x})
  BY <1>2, <1>3, <1>4, <1>5, <1>6
<1>8. Sum(T \ {x}) = f[n] + Sum((T \ {x}) \ {n})
  BY <1>2, <1>3, <1>4, <1>5, <1>6
<1>9. Sum((T \ {n}) \ {x}) = Sum((T \ {x}) \ {n})
  <2>1. (T \ {n}) \ {x} = (T \ {x}) \ {n}
    OBVIOUS
  <2>. QED
    BY <2>1
<1>10. Sum((T \ {n}) \ {x}) \in Int /\ f[x] \in Int /\ f[n] \in Int
  <2>1. IsFiniteSet((T \ {n}) \ {x}) /\ (T \ {n}) \ {x} \subseteq S
    BY <1>4, FS_Subset
  <2>. QED
    BY <1>3, <1>4, <1>5, <2>1, SumType
<1>. DEFINE rest == Sum((T \ {n}) \ {x})
            total == Sum(T)
            less == Sum(T \ {x})
<1>11. total = f[n] + (f[x] + rest)
  BY <1>5, <1>7
<1>12. less = f[n] + rest
  BY <1>8, <1>9
<1>13. total # f[x] + less
  BY <1>3
<1>14. rest \in Int
  BY <1>10
<1>. HIDE DEF rest, total, less, n
<1>. QED
  BY <1>10, <1>11, <1>12, <1>13, <1>14

\* A new element adds its value to the sum.
THEOREM SumAdd ==
    ASSUME NEW S, IsFiniteSet(S), NEW y, y \notin S,
           NEW f, \A x \in S \cup {y} : f[x] \in Int
    PROVE  SumFunctionOnSet(f, S \cup {y}) = f[y] + SumFunctionOnSet(f, S)
<1>1. (S \cup {y}) \ {y} = S /\ IsFiniteSet(S \cup {y})
  BY FS_AddElement
<1>. QED
  BY <1>1, SumRemove

\* Functions that agree on a set have the same sum over it.
THEOREM SumCongruence ==
    ASSUME NEW S, IsFiniteSet(S), NEW f, NEW g, \A x \in S : f[x] = g[x]
    PROVE  SumFunctionOnSet(f, S) = SumFunctionOnSet(g, S)
<1>. DEFINE Bad == {T \in SUBSET S :
                      SumFunctionOnSet(f, T) # SumFunctionOnSet(g, T)}
<1>1. SUFFICES ASSUME Bad # {} PROVE FALSE
  OBVIOUS
<1>2. PICK T \in Bad : \A U \in Bad : U \subseteq T => U = T
  <2>1. Bad \subseteq SUBSET S
    OBVIOUS
  <2>. HIDE DEF Bad
  <2>. QED
    BY <1>1, <2>1, MinimalMember
<1>3. /\ T \subseteq S /\ IsFiniteSet(T)
      /\ SumFunctionOnSet(f, T) # SumFunctionOnSet(g, T)
  BY <1>2, FS_Subset
<1>4. T # {}
  BY <1>3, SumEmpty
<1>5. /\ NextOf(T) \in T
      /\ SumFunctionOnSet(f, T) =
            f[NextOf(T)] + SumFunctionOnSet(f, T \ {NextOf(T)})
      /\ SumFunctionOnSet(g, T) =
            g[NextOf(T)] + SumFunctionOnSet(g, T \ {NextOf(T)})
  BY <1>3, <1>4, SumUnfold
<1>6. SumFunctionOnSet(f, T \ {NextOf(T)}) = SumFunctionOnSet(g, T \ {NextOf(T)})
  BY <1>2, <1>3, <1>5
<1>. QED
  BY <1>3, <1>5, <1>6

\* One summand changes.
THEOREM SumUpdate ==
    ASSUME NEW S, IsFiniteSet(S), NEW y \in S,
           NEW f, \A x \in S : f[x] \in Int,
           NEW g, g[y] \in Int, \A x \in S \ {y} : g[x] = f[x]
    PROVE  SumFunctionOnSet(g, S) = SumFunctionOnSet(f, S) + g[y] - f[y]
<1>. DEFINE R == S \ {y}
<1>1. IsFiniteSet(R) /\ R \subseteq S
  BY FS_RemoveElement
<1>2. SumFunctionOnSet(g, R) = SumFunctionOnSet(f, R)
  BY <1>1, SumCongruence
<1>3. SumFunctionOnSet(f, S) = f[y] + SumFunctionOnSet(f, R)
  BY SumRemove
<1>4. SumFunctionOnSet(g, S) = g[y] + SumFunctionOnSet(g, R)
  <2>1. \A x \in S : g[x] \in Int
    OBVIOUS
  <2>. QED
    BY <2>1, SumRemove
<1>5. SumFunctionOnSet(f, R) \in Int /\ f[y] \in Int
  BY <1>1, SumType
<1>. QED
  BY <1>2, <1>3, <1>4, <1>5

\* A sum of larger values is larger.
THEOREM SumMonotonic ==
    ASSUME NEW S, IsFiniteSet(S), NEW f, \A x \in S : f[x] \in Int,
           NEW g, \A x \in S : g[x] \in Int, \A x \in S : f[x] <= g[x]
    PROVE  SumFunctionOnSet(f, S) <= SumFunctionOnSet(g, S)
<1>. DEFINE Bad == {T \in SUBSET S :
                      ~(SumFunctionOnSet(f, T) <= SumFunctionOnSet(g, T))}
<1>1. SUFFICES ASSUME Bad # {} PROVE FALSE
  OBVIOUS
<1>2. PICK T \in Bad : \A U \in Bad : U \subseteq T => U = T
  <2>1. Bad \subseteq SUBSET S
    OBVIOUS
  <2>. HIDE DEF Bad
  <2>. QED
    BY <1>1, <2>1, MinimalMember
<1>3. /\ T \subseteq S /\ IsFiniteSet(T)
      /\ ~(SumFunctionOnSet(f, T) <= SumFunctionOnSet(g, T))
  BY <1>2, FS_Subset
<1>4. T # {}
  BY <1>3, SumEmpty
<1>. DEFINE n == NextOf(T)
            R == T \ {n}
<1>5. /\ n \in T
      /\ SumFunctionOnSet(f, T) = f[n] + SumFunctionOnSet(f, R)
      /\ SumFunctionOnSet(g, T) = g[n] + SumFunctionOnSet(g, R)
  BY <1>3, <1>4, SumUnfold
<1>6. SumFunctionOnSet(f, R) <= SumFunctionOnSet(g, R)
  BY <1>2, <1>3, <1>5
<1>7. IsFiniteSet(R) /\ R \subseteq S
  BY <1>3, FS_Subset
<1>8. /\ SumFunctionOnSet(f, R) \in Int /\ SumFunctionOnSet(g, R) \in Int
      /\ f[n] \in Int /\ g[n] \in Int /\ f[n] <= g[n]
  BY <1>3, <1>5, <1>7, SumType
<1>. HIDE DEF n, R
<1>. QED
  BY <1>3, <1>5, <1>6, <1>8

\* A sum of zeros is zero.
THEOREM SumZero ==
    ASSUME NEW S, IsFiniteSet(S), NEW f, \A x \in S : f[x] = 0
    PROVE  SumFunctionOnSet(f, S) = 0
<1>. DEFINE Bad == {T \in SUBSET S : SumFunctionOnSet(f, T) # 0}
<1>1. SUFFICES ASSUME Bad # {} PROVE FALSE
  OBVIOUS
<1>2. PICK T \in Bad : \A U \in Bad : U \subseteq T => U = T
  <2>1. Bad \subseteq SUBSET S
    OBVIOUS
  <2>. HIDE DEF Bad
  <2>. QED
    BY <1>1, <2>1, MinimalMember
<1>3. T \subseteq S /\ IsFiniteSet(T) /\ SumFunctionOnSet(f, T) # 0
  BY <1>2, FS_Subset
<1>4. T # {}
  BY <1>3, SumEmpty
<1>5. /\ NextOf(T) \in T
      /\ SumFunctionOnSet(f, T) =
            f[NextOf(T)] + SumFunctionOnSet(f, T \ {NextOf(T)})
  BY <1>3, <1>4, SumUnfold
<1>6. SumFunctionOnSet(f, T \ {NextOf(T)}) = 0
  BY <1>2, <1>3, <1>5
<1>. QED
  BY <1>3, <1>5, <1>6

\* A sum of naturals is a natural.
THEOREM SumNat ==
    ASSUME NEW S, IsFiniteSet(S), NEW f, \A x \in S : f[x] \in Nat
    PROVE  SumFunctionOnSet(f, S) \in Nat
<1>. DEFINE zero == [x \in S |-> 0]
<1>1. SumFunctionOnSet(zero, S) <= SumFunctionOnSet(f, S)
  <2>1. /\ \A x \in S : zero[x] \in Int /\ f[x] \in Int
        /\ \A x \in S : zero[x] <= f[x]
    OBVIOUS
  <2>. HIDE DEF zero
  <2>. QED
    BY <2>1, SumMonotonic
<1>2. SumFunctionOnSet(zero, S) = 0
  <2>1. \A x \in S : zero[x] = 0
    OBVIOUS
  <2>. HIDE DEF zero
  <2>. QED
    BY <2>1, SumZero
<1>3. SumFunctionOnSet(f, S) \in Int
  BY SumType
<1>. QED
  BY <1>1, <1>2, <1>3

\* The sum over two disjoint sets.
THEOREM SumDisjoint ==
    ASSUME NEW S, IsFiniteSet(S), NEW T, IsFiniteSet(T), S \cap T = {},
           NEW f, \A x \in S \cup T : f[x] \in Int
    PROVE  SumFunctionOnSet(f, S \cup T) =
              SumFunctionOnSet(f, S) + SumFunctionOnSet(f, T)
<1>. DEFINE Sum(U) == SumFunctionOnSet(f, U)
            Bad == {U \in SUBSET T : Sum(S \cup U) # Sum(S) + Sum(U)}
<1>1. SUFFICES ASSUME Bad # {} PROVE FALSE
  OBVIOUS
<1>2. PICK U \in Bad : \A V \in Bad : V \subseteq U => V = U
  <2>1. Bad \subseteq SUBSET T
    OBVIOUS
  <2>. HIDE DEF Bad
  <2>. QED
    BY <1>1, <2>1, MinimalMember
<1>3. U \subseteq T /\ Sum(S \cup U) # Sum(S) + Sum(U)
  BY <1>2
<1>4. IsFiniteSet(U) /\ IsFiniteSet(S \cup U)
  BY <1>3, FS_Subset, FS_Union
<1>5. U # {}
  <2>1. Sum({}) = 0 /\ Sum(S) \in Int
    BY SumEmpty, SumType
  <2>2. Sum(S \cup {}) = Sum(S)
    <3>1. S \cup {} = S
      OBVIOUS
    <3>. QED
      BY <3>1
  <2>3. Sum(S \cup {}) = Sum(S) + Sum({})
    BY <2>1, <2>2
  <2>. QED
    BY <1>3, <2>3
<1>6. PICK y : y \in U
  BY <1>5
<1>7. Sum(U) = f[y] + Sum(U \ {y})
  BY <1>3, <1>4, <1>6, SumRemove
<1>8. Sum(S \cup U) = f[y] + Sum((S \cup U) \ {y})
  BY <1>3, <1>4, <1>6, SumRemove
<1>9. Sum((S \cup U) \ {y}) = Sum(S \cup (U \ {y}))
  <2>1. (S \cup U) \ {y} = S \cup (U \ {y})
    BY <1>3, <1>6
  <2>. QED
    BY <2>1
<1>10. Sum(S \cup (U \ {y})) = Sum(S) + Sum(U \ {y})
  BY <1>2, <1>3, <1>6
<1>11. Sum(S) \in Int /\ Sum(U \ {y}) \in Int /\ f[y] \in Int
  BY <1>3, <1>4, <1>6, FS_RemoveElement, SumType
<1>. DEFINE both == Sum(S \cup U)
            old == Sum(S)
            new == Sum(U)
            rest == Sum(U \ {y})
<1>12. new = f[y] + rest
  BY <1>7
<1>13. both = f[y] + (old + rest)
  BY <1>8, <1>9, <1>10
<1>14. both # old + new
  BY <1>3
<1>15. old \in Int /\ rest \in Int
  BY <1>11
<1>. HIDE DEF both, old, new, rest
<1>. QED
  BY <1>11, <1>12, <1>13, <1>14, <1>15

\* Summing along an enumeration without repetitions.
THEOREM SumReindex ==
    ASSUME NEW A, IsFiniteSet(A), NEW B, NEW at, at \in Bijection(A, B),
           NEW f, \A b \in B : f[b] \in Int,
           NEW g, \A n \in A : g[n] = f[at[n]]
    PROVE  SumFunctionOnSet(g, A) = SumFunctionOnSet(f, B)
<1>0. /\ at \in [A -> B]
      /\ \A m, n \in A : at[m] = at[n] => m = n
      /\ \A b \in B : \E n \in A : at[n] = b
  BY DEF Bijection, Injection, IsInjective, Surjection
<1>. DEFINE Img(U) == {at[n] : n \in U}
            Bad == {U \in SUBSET A :
                      SumFunctionOnSet(g, U) # SumFunctionOnSet(f, Img(U))}
<1>1. SUFFICES ASSUME Bad # {} PROVE FALSE
  <2>1. Img(A) = B
    BY <1>0
  <2>. QED
    BY <2>1
<1>2. PICK U \in Bad : \A V \in Bad : V \subseteq U => V = U
  <2>1. Bad \subseteq SUBSET A
    OBVIOUS
  <2>. HIDE DEF Bad
  <2>. QED
    BY <1>1, <2>1, MinimalMember
<1>3. /\ U \subseteq A /\ IsFiniteSet(U)
      /\ SumFunctionOnSet(g, U) # SumFunctionOnSet(f, Img(U))
  BY <1>2, FS_Subset
<1>4. U # {}
  <2>1. Img({}) = {}
    OBVIOUS
  <2>. HIDE DEF Img
  <2>. QED
    BY <1>3, <2>1, SumEmpty
<1>5. PICK n : n \in U
  BY <1>4
<1>6. SumFunctionOnSet(g, U) = g[n] + SumFunctionOnSet(g, U \ {n})
  BY <1>0, <1>3, <1>5, SumRemove
<1>7. IsFiniteSet(Img(U)) /\ Img(U) \subseteq B /\ at[n] \in Img(U)
  <2>1. IsFiniteSet(Img(U))
    <3>. DEFINE h == [x \in U |-> at[x]]
    <3>1. h \in Surjection(U, Img(U))
      BY DEF Surjection
    <3>. QED
      BY <1>3, <3>1, FS_Surjection
  <2>. QED
    BY <1>0, <1>3, <1>5, <2>1
<1>8. SumFunctionOnSet(f, Img(U)) = f[at[n]] + SumFunctionOnSet(f, Img(U) \ {at[n]})
  BY <1>7, SumRemove
<1>9. Img(U) \ {at[n]} = Img(U \ {n})
  BY <1>0, <1>3, <1>5
<1>10. SumFunctionOnSet(g, U \ {n}) = SumFunctionOnSet(f, Img(U \ {n}))
  BY <1>2, <1>3, <1>5
<1>. HIDE DEF Img
<1>. QED
  BY <1>3, <1>5, <1>6, <1>8, <1>9, <1>10

\* A function that is zero but for one element sums to its value there.
THEOREM SumPoint ==
    ASSUME NEW S, IsFiniteSet(S), NEW y \in S,
           NEW f, f[y] \in Int, \A x \in S \ {y} : f[x] = 0
    PROVE  SumFunctionOnSet(f, S) = f[y]
<1>1. IsFiniteSet(S \ {y})
  BY FS_RemoveElement
<1>2. SumFunctionOnSet(f, S \ {y}) = 0
  BY <1>1, SumZero
<1>3. \A x \in S : f[x] \in Int
  OBVIOUS
<1>4. SumFunctionOnSet(f, S) = f[y] + SumFunctionOnSet(f, S \ {y})
  BY <1>3, SumRemove
<1>. QED
  BY <1>2, <1>4

\* A constant factor comes out of a sum.
THEOREM SumScale ==
    ASSUME NEW S, IsFiniteSet(S), NEW c \in Int,
           NEW f, \A x \in S : f[x] \in Int,
           NEW g, \A x \in S : g[x] = c * f[x]
    PROVE  SumFunctionOnSet(g, S) = c * SumFunctionOnSet(f, S)
<1>. DEFINE Bad == {T \in SUBSET S :
                      SumFunctionOnSet(g, T) # c * SumFunctionOnSet(f, T)}
<1>1. SUFFICES ASSUME Bad # {} PROVE FALSE
  OBVIOUS
<1>2. PICK T \in Bad : \A U \in Bad : U \subseteq T => U = T
  <2>1. Bad \subseteq SUBSET S
    OBVIOUS
  <2>. HIDE DEF Bad
  <2>. QED
    BY <1>1, <2>1, MinimalMember
<1>3. /\ T \subseteq S /\ IsFiniteSet(T)
      /\ SumFunctionOnSet(g, T) # c * SumFunctionOnSet(f, T)
  BY <1>2, FS_Subset
<1>4. T # {}
  <2>1. c * 0 = 0
    OBVIOUS
  <2>. QED
    BY <1>3, <2>1, SumEmpty
<1>. DEFINE y == NextOf(T)
            a == SumFunctionOnSet(f, T \ {y})
            b == SumFunctionOnSet(g, T \ {y})
<1>5. /\ y \in T
      /\ SumFunctionOnSet(f, T) = f[y] + a
      /\ SumFunctionOnSet(g, T) = g[y] + b
  BY <1>3, <1>4, SumUnfold
<1>6. b = c * a
  BY <1>2, <1>3, <1>5
<1>7. a \in Int /\ f[y] \in Int /\ g[y] = c * f[y]
  BY <1>3, <1>5, FS_RemoveElement, SumType
<1>. HIDE DEF a, b, y
<1>8. \A u, v \in Int : c * (u + v) = c * u + c * v
  OBVIOUS
<1>9. c * (f[y] + a) = c * f[y] + c * a
  BY <1>7, <1>8
<1>. QED
  BY <1>3, <1>5, <1>6, <1>7, <1>9

\* The part of T that h sends to a.
Fibre(T, h, a) == {i \in T : h[i] = a}

\* Summing group by group: h says which group an element is in.
THEOREM SumPartition ==
    ASSUME NEW I, IsFiniteSet(I), NEW A, IsFiniteSet(A), NEW h, h \in [I -> A],
           NEW f, \A i \in I : f[i] \in Int,
           NEW g, \A a \in A : g[a] = SumFunctionOnSet(f, Fibre(I, h, a))
    PROVE  SumFunctionOnSet(g, A) = SumFunctionOnSet(f, I)
<1>. DEFINE By(T) == [a \in A |-> SumFunctionOnSet(f, Fibre(T, h, a))]
            Bad == {T \in SUBSET I :
                      SumFunctionOnSet(By(T), A) # SumFunctionOnSet(f, T)}
<1>0. SumFunctionOnSet(g, A) = SumFunctionOnSet(By(I), A)
  <2>1. \A a \in A : g[a] = By(I)[a]
    OBVIOUS
  <2>. HIDE DEF By
  <2>. QED
    BY <2>1, SumCongruence
<1>1. SUFFICES ASSUME Bad # {} PROVE FALSE
  BY <1>0
<1>2. PICK T \in Bad : \A U \in Bad : U \subseteq T => U = T
  <2>1. Bad \subseteq SUBSET I
    OBVIOUS
  <2>. HIDE DEF Bad
  <2>. QED
    BY <1>1, <2>1, MinimalMember
<1>3. /\ T \subseteq I /\ IsFiniteSet(T)
      /\ SumFunctionOnSet(By(T), A) # SumFunctionOnSet(f, T)
  BY <1>2, FS_Subset
<1>4. ASSUME NEW U \in SUBSET I, NEW a \in A
      PROVE  /\ By(U)[a] \in Int
             /\ IsFiniteSet(Fibre(U, h, a))
             /\ Fibre(U, h, a) \subseteq I
  <2>1. IsFiniteSet(Fibre(U, h, a)) /\ Fibre(U, h, a) \subseteq I
    BY FS_Subset DEF Fibre
  <2>. QED
    BY <2>1, SumType
<1>5. T # {}
  <2>1. \A a \in A : By({})[a] = 0
    BY SumEmpty DEF Fibre
  <2>2. SumFunctionOnSet(By({}), A) = 0
    <3>. HIDE DEF By
    <3>. QED
      BY <2>1, SumZero
  <2>. QED
    BY <1>3, <2>2, SumEmpty
<1>6. PICK i : i \in T
  BY <1>5
<1>. DEFINE R == T \ {i}
            o == By(T)
            n == By(R)
<1>7. h[i] \in A /\ f[i] \in Int /\ R \subseteq I /\ IsFiniteSet(R)
  BY <1>3, <1>6, FS_RemoveElement
<1>8. SumFunctionOnSet(f, T) = f[i] + SumFunctionOnSet(f, R)
  BY <1>3, <1>6, SumRemove
<1>9. SumFunctionOnSet(n, A) = SumFunctionOnSet(f, R)
  BY <1>2, <1>3, <1>6
<1>10. o[h[i]] = f[i] + n[h[i]]
  <2>1. /\ i \in Fibre(T, h, h[i])
        /\ Fibre(T, h, h[i]) \ {i} = Fibre(R, h, h[i])
    BY <1>6 DEF Fibre
  <2>2. IsFiniteSet(Fibre(T, h, h[i])) /\ Fibre(T, h, h[i]) \subseteq I
    BY <1>3, <1>4, <1>7
  <2>3. \A x \in Fibre(T, h, h[i]) : f[x] \in Int
    BY <2>2
  <2>4. SumFunctionOnSet(f, Fibre(T, h, h[i])) =
           f[i] + SumFunctionOnSet(f, Fibre(T, h, h[i]) \ {i})
    <3>. DEFINE F == Fibre(T, h, h[i])
    <3>1. IsFiniteSet(F) /\ i \in F /\ \A x \in F : f[x] \in Int
      BY <2>1, <2>2, <2>3
    <3>. HIDE DEF F
    <3>2. SumFunctionOnSet(f, F) = f[i] + SumFunctionOnSet(f, F \ {i})
      BY <3>1, SumRemove
    <3>. QED
      BY <3>2 DEF F
  <2>5. SumFunctionOnSet(f, Fibre(T, h, h[i]) \ {i}) =
           SumFunctionOnSet(f, Fibre(R, h, h[i]))
    BY <2>1
  <2>. QED
    BY <1>7, <2>4, <2>5
<1>11. \A a \in A \ {h[i]} : o[a] = n[a]
  <2>1. ASSUME NEW a \in A \ {h[i]}
        PROVE  Fibre(T, h, a) = Fibre(R, h, a)
    BY DEF Fibre
  <2>. QED
    BY <2>1
<1>12. \A a \in A : o[a] \in Int /\ n[a] \in Int
  BY <1>3, <1>4, <1>7
<1>13. SumFunctionOnSet(f, R) \in Int
  BY <1>7, SumType
<1>14. SumFunctionOnSet(o, A) # SumFunctionOnSet(f, T)
  BY <1>3
<1>. HIDE DEF o, n, R
<1>15. SumFunctionOnSet(o, A) = SumFunctionOnSet(n, A) + o[h[i]] - n[h[i]]
  BY <1>7, <1>11, <1>12, SumUpdate
<1>. QED
  BY <1>7, <1>8, <1>9, <1>10, <1>12, <1>13, <1>14, <1>15

\* The sum of the sums of two functions.
THEOREM SumPlus ==
    ASSUME NEW S, IsFiniteSet(S), NEW f, \A x \in S : f[x] \in Int,
           NEW g, \A x \in S : g[x] \in Int, NEW h, \A x \in S : h[x] = f[x] + g[x]
    PROVE  SumFunctionOnSet(h, S) = SumFunctionOnSet(f, S) + SumFunctionOnSet(g, S)
<1>. DEFINE Bad == {T \in SUBSET S : SumFunctionOnSet(h, T) #
                       SumFunctionOnSet(f, T) + SumFunctionOnSet(g, T)}
<1>1. SUFFICES ASSUME Bad # {} PROVE FALSE
  OBVIOUS
<1>2. PICK T \in Bad : \A U \in Bad : U \subseteq T => U = T
  <2>1. Bad \subseteq SUBSET S
    OBVIOUS
  <2>. HIDE DEF Bad
  <2>. QED
    BY <1>1, <2>1, MinimalMember
<1>3. /\ T \subseteq S /\ IsFiniteSet(T)
      /\ SumFunctionOnSet(h, T) # SumFunctionOnSet(f, T) + SumFunctionOnSet(g, T)
  BY <1>2, FS_Subset
<1>4. T # {}
  <2>1. /\ SumFunctionOnSet(f, {}) = 0 /\ SumFunctionOnSet(g, {}) = 0
        /\ SumFunctionOnSet(h, {}) = 0
    BY SumEmpty
  <2>2. 0 = 0 + 0
    OBVIOUS
  <2>. QED
    BY <1>3, <2>1, <2>2
<1>. DEFINE n == NextOf(T)
            a == SumFunctionOnSet(f, T \ {n})
            b == SumFunctionOnSet(g, T \ {n})
            c == SumFunctionOnSet(h, T \ {n})
<1>5. /\ n \in T
      /\ SumFunctionOnSet(f, T) = f[n] + a
      /\ SumFunctionOnSet(g, T) = g[n] + b
      /\ SumFunctionOnSet(h, T) = h[n] + c
  BY <1>3, <1>4, SumUnfold
<1>6. c = a + b
  BY <1>2, <1>3, <1>5
<1>7. IsFiniteSet(T \ {n}) /\ T \ {n} \subseteq S
  BY <1>3, FS_Subset
<1>8. /\ a \in Int /\ b \in Int /\ f[n] \in Int /\ g[n] \in Int
      /\ h[n] = f[n] + g[n]
  BY <1>3, <1>5, <1>7, SumType
<1>. HIDE DEF n, a, b, c
<1>. QED
  BY <1>3, <1>5, <1>6, <1>8

\* The sums of column y over the rows in U.
ColumnSums(m, U, T) == [y \in T |-> SumFunctionOnSet([x \in U |-> m[x][y]], U)]

\* A table summed row by row and column by column.
THEOREM SumSwap ==
    ASSUME NEW S, IsFiniteSet(S), NEW T, IsFiniteSet(T),
           NEW m, \A x \in S, y \in T : m[x][y] \in Int,
           NEW rows, \A x \in S : rows[x] = SumFunctionOnSet(m[x], T)
    PROVE  SumFunctionOnSet(rows, S) = SumFunctionOnSet(ColumnSums(m, S, T), T)
<1>. DEFINE Bad == {U \in SUBSET S : SumFunctionOnSet(rows, U) #
                       SumFunctionOnSet(ColumnSums(m, U, T), T)}
<1>1. SUFFICES ASSUME Bad # {} PROVE FALSE
  OBVIOUS
<1>2. PICK U \in Bad : \A V \in Bad : V \subseteq U => V = U
  <2>1. Bad \subseteq SUBSET S
    OBVIOUS
  <2>. HIDE DEF Bad
  <2>. QED
    BY <1>1, <2>1, MinimalMember
<1>3. /\ U \subseteq S /\ IsFiniteSet(U)
      /\ SumFunctionOnSet(rows, U) # SumFunctionOnSet(ColumnSums(m, U, T), T)
  BY <1>2, FS_Subset
<1>4. U # {}
  <2>1. \A y \in T : ColumnSums(m, {}, T)[y] = 0
    BY SumEmpty DEF ColumnSums
  <2>2. SumFunctionOnSet(ColumnSums(m, {}, T), T) = 0
    BY <2>1, SumZero
  <2>. QED
    BY <1>3, <2>2, SumEmpty
<1>5. PICK x : x \in U
  BY <1>4
<1>. DEFINE R == U \ {x}
            f == m[x]
            g == ColumnSums(m, R, T)
            h == ColumnSums(m, U, T)
<1>6. R \subseteq S /\ IsFiniteSet(R) /\ x \notin R /\ U = R \cup {x} /\ x \in S
  BY <1>3, <1>5, FS_RemoveElement
<1>7. ASSUME NEW y \in T
      PROVE  f[y] \in Int /\ g[y] \in Int /\ h[y] = f[y] + g[y]
  <2>. DEFINE p == [z \in R |-> m[z][y]]
              q == [z \in U |-> m[z][y]]
  <2>1. /\ g[y] = SumFunctionOnSet(p, R) /\ h[y] = SumFunctionOnSet(q, U)
        /\ \A z \in R : p[z] \in Int /\ p[z] = q[z]
        /\ \A z \in U : q[z] \in Int
        /\ q[x] = f[y] /\ f[y] \in Int
    BY <1>3, <1>5, <1>6 DEF ColumnSums
  <2>. HIDE DEF p, q, f, g, h
  <2>2. SumFunctionOnSet(q, U) = q[x] + SumFunctionOnSet(q, U \ {x})
    <3>1. IsFiniteSet(U) /\ x \in U
      BY <1>3, <1>5
    <3>2. \A z \in U : q[z] \in Int
      BY <2>1
    <3>. QED
      BY <3>1, <3>2, SumRemove
  <2>3. SumFunctionOnSet(p, R) = SumFunctionOnSet(q, R)
    BY <1>6, <2>1, SumCongruence
  <2>4. SumFunctionOnSet(p, R) \in Int
    BY <1>6, <2>1, SumType
  <2>. QED
    BY <2>1, <2>2, <2>3, <2>4
<1>8. \A y \in T : f[y] \in Int /\ g[y] \in Int /\ h[y] = f[y] + g[y]
  BY <1>7
<1>9. /\ rows[x] = SumFunctionOnSet(f, T)
      /\ SumFunctionOnSet(rows, U) # SumFunctionOnSet(h, T)
  BY <1>3, <1>6
<1>10. SumFunctionOnSet(rows, R) = SumFunctionOnSet(g, T)
  BY <1>2, <1>3, <1>5
<1>11. \A z \in U : rows[z] \in Int
  BY <1>3, SumType
<1>12. SumFunctionOnSet(rows, U) = rows[x] + SumFunctionOnSet(rows, U \ {x})
  BY <1>3, <1>5, <1>11, SumRemove
<1>. HIDE DEF f, g, h
<1>13. SumFunctionOnSet(h, T) = SumFunctionOnSet(f, T) + SumFunctionOnSet(g, T)
  BY <1>8, SumPlus
<1>. QED
  BY <1>9, <1>10, <1>12, <1>13

=============================================================================
