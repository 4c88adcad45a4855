-------------------------------- MODULE Sums --------------------------------
(***************************************************************************)
(* What the proofs need to know of SumFunctionOnSet: the sum does not      *)
(* depend on the order in which its terms are chosen.  The community       *)
(* module defines it by recursion over sets, so the facts are proved by    *)
(* induction, as a search for a smallest counterexample.                   *)
(***************************************************************************)
EXTENDS Integers, Sequences, Functions, FiniteSetTheorems, SequenceTheorems,
        WellFoundedInduction, TLAPS

Some(T) == CHOOSE x \in T : TRUE

\* g has the partial sums of f over the subsets of S.
IsSum(g, f, S) ==
  g = [T \in SUBSET S |-> IF T = {} THEN 0 ELSE f[Some(T)] + g[T \ {Some(T)}]]

\* Among the sets of Bad there is one that has no other one in it.
LEMMA Smallest ==
  ASSUME NEW S, IsFiniteSet(S), NEW Bad \in SUBSET SUBSET S, Bad # {}
  PROVE  \E T \in Bad : \A U \in SUBSET T : U # T => U \notin Bad
<1>1. FiniteSubsetsOf(S) = SUBSET S
  BY FS_FiniteSubsetsOfFinite
<1>2. IsWellFoundedOn(StrictSubsetOrdering(S), SUBSET S)
  BY <1>1, FS_StrictSubsetOrderingWellFounded
<1>3. PICK T \in Bad : \A U \in Bad : ~ (<<U, T>> \in StrictSubsetOrdering(S))
  BY <1>2, WFMin
<1>4. ASSUME NEW U \in SUBSET T, U # T, U \in Bad PROVE FALSE
  <2>1. <<U, T>> \in StrictSubsetOrdering(S)
    BY <1>4 DEF StrictSubsetOrdering
  <2> QED BY <1>3, <1>4, <2>1
<1> QED BY <1>4

\* The element that CHOOSE takes.
LEMMA SomeIn == ASSUME NEW T, T # {} PROVE Some(T) \in T
BY DEF Some

\* A sum is read off the table of partial sums that its definition takes.
LEMMA SumDefined ==
  ASSUME NEW f, NEW S
  PROVE  SumFunctionOnSet(f, S) = (CHOOSE g : IsSum(g, f, S))[S]
BY DEF SumFunctionOnSet, FoldFunctionOnSet, MapThenFoldSet, IsSum, Some

\* The table takes one element and adds up the rest.
LEMMA SumUnfolds ==
  ASSUME NEW g, NEW f, NEW S, IsSum(g, f, S), NEW T \in SUBSET S
  PROVE  g[T] = IF T = {} THEN 0 ELSE f[Some(T)] + g[T \ {Some(T)}]
<1> DEFINE h == [U \in SUBSET S |-> IF U = {} THEN 0
                                    ELSE f[Some(U)] + g[U \ {Some(U)}]]
<1>1. g = h
  BY DEF IsSum
<1>2. h[T] = IF T = {} THEN 0 ELSE f[Some(T)] + g[T \ {Some(T)}]
  OBVIOUS
<1> QED BY <1>1, <1>2

\* Two tables of partial sums of one function agree.
LEMMA SumsAgree ==
  ASSUME NEW f, NEW S, NEW g, IsSum(g, f, S), NEW T, NEW h, IsSum(h, f, T),
         IsFiniteSet(S), NEW W \in SUBSET S, W \in SUBSET T
  PROVE  g[W] = h[W]
<1> DEFINE Bad == {U \in SUBSET W : g[U] # h[U]}
<1>1. SUFFICES ASSUME Bad # {} PROVE FALSE
  OBVIOUS
<1>2. IsFiniteSet(W)
  BY FS_Subset
<1>b. Bad \in SUBSET SUBSET W
  OBVIOUS
<1> HIDE DEF Bad
<1>3. PICK U \in Bad : \A V \in SUBSET U : V # U => V \notin Bad
  BY <1>1, <1>2, <1>b, Smallest
<1> USE DEF Bad
<1>4. U \in SUBSET S /\ U \in SUBSET T
  OBVIOUS
<1>5. /\ g[U] = IF U = {} THEN 0 ELSE f[Some(U)] + g[U \ {Some(U)}]
      /\ h[U] = IF U = {} THEN 0 ELSE f[Some(U)] + h[U \ {Some(U)}]
  BY <1>4, SumUnfolds
<1>6. CASE U = {}
  BY <1>5, <1>6
<1>7. CASE U # {}
  <2>1. Some(U) \in U
    BY <1>7, SomeIn
  <2>2. U \ {Some(U)} \in SUBSET U /\ U \ {Some(U)} # U
    BY <2>1
  <2>3. U \ {Some(U)} \notin Bad /\ U \ {Some(U)} \in SUBSET W
    BY <1>3, <2>2
  <2>4. g[U \ {Some(U)}] = h[U \ {Some(U)}]
    BY <2>3
  <2> QED BY <1>5, <1>7, <2>4
<1> QED BY <1>6, <1>7

\* There is a table of partial sums.
LEMMA SumsExist ==
  ASSUME NEW f, NEW S, IsFiniteSet(S)
  PROVE  \E g : IsSum(g, f, S)
<1> DEFINE Bad == {T \in SUBSET S : ~ \E g : IsSum(g, f, T)}
           sum(T) == (CHOOSE g : IsSum(g, f, T))[T]
<1>1. SUFFICES ASSUME Bad # {} PROVE FALSE
  OBVIOUS
<1>b. Bad \in SUBSET SUBSET S
  OBVIOUS
<1> HIDE DEF Bad
<1>2. PICK T \in Bad : \A U \in SUBSET T : U # T => U \notin Bad
  BY <1>1, <1>b, Smallest
<1> USE DEF Bad
<1>3. IsFiniteSet(T) /\ T \in SUBSET S
  BY FS_Subset
<1>4. ASSUME NEW U \in SUBSET T, U # T
      PROVE  IsSum(CHOOSE g : IsSum(g, f, U), f, U)
  <2>1. \E g : IsSum(g, f, U)
    BY <1>2, <1>3, <1>4
  <2> QED BY <2>1
<1> HIDE DEF sum, Bad
<1> DEFINE h == [U \in SUBSET T |-> IF U = {} THEN 0
                                    ELSE f[Some(U)] + sum(U \ {Some(U)})]
<1>5. ASSUME NEW U \in SUBSET T, U # T PROVE h[U] = sum(U)
  <2>1. PICK g : g = (CHOOSE k : IsSum(k, f, U))
    OBVIOUS
  <2>2. IsSum(g, f, U) /\ sum(U) = g[U] /\ U \in SUBSET U
    BY <1>4, <1>5, <2>1 DEF sum
  <2>3. g[U] = IF U = {} THEN 0 ELSE f[Some(U)] + g[U \ {Some(U)}]
    BY <2>2, SumUnfolds
  <2>4. h[U] = IF U = {} THEN 0 ELSE f[Some(U)] + sum(U \ {Some(U)})
    OBVIOUS
  <2>5. CASE U = {}
    BY <2>2, <2>3, <2>4, <2>5
  <2>6. CASE U # {}
    <3> DEFINE V == U \ {Some(U)}
    <3>1. V \in SUBSET U /\ V \in SUBSET T /\ V # T
      BY <2>6, SomeIn
    <3> HIDE DEF V
    <3>2. PICK k : k = (CHOOSE m : IsSum(m, f, V))
      OBVIOUS
    <3>3. IsSum(k, f, V) /\ sum(V) = k[V] /\ V \in SUBSET V
      BY <1>4, <3>1, <3>2 DEF sum
    <3>4. IsFiniteSet(U)
      BY <1>3, FS_Subset
    <3>5. g[V] = k[V]
      BY <2>2, <3>1, <3>3, <3>4, SumsAgree
    <3> QED BY <2>2, <2>3, <2>4, <2>6, <3>3, <3>5 DEF V
  <2> QED BY <2>5, <2>6
<1>6. \A U \in SUBSET T : U # {} =>
        U \ {Some(U)} \in SUBSET T /\ U \ {Some(U)} # T
  BY SomeIn
<1>7. \A U \in SUBSET T : U # {} => h[U \ {Some(U)}] = sum(U \ {Some(U)})
  BY <1>5, <1>6
<1>8. h = [U \in SUBSET T |-> IF U = {} THEN 0 ELSE f[Some(U)] + h[U \ {Some(U)}]]
  BY <1>7
<1>9. \E g : IsSum(g, f, T)
  <2>1. IsSum(h, f, T)
    BY <1>8 DEF IsSum
  <2> HIDE DEF h
  <2> QED BY <2>1
<1> QED BY <1>2, <1>9 DEF Bad

\* A sum over nothing.
LEMMA SumEmpty == ASSUME NEW f PROVE SumFunctionOnSet(f, {}) = 0
<1>1. IsFiniteSet({})
  BY FS_EmptySet
<1>2. PICK g : g = (CHOOSE k : IsSum(k, f, {}))
  OBVIOUS
<1>3. IsSum(g, f, {}) /\ {} \in SUBSET {}
  BY <1>1, <1>2, SumsExist
<1>4. g[{}] = 0
  BY <1>3, SumUnfolds
<1> QED BY <1>2, <1>4, SumDefined

\* The sum begins with the element that CHOOSE picks.
LEMMA SumStep ==
  ASSUME NEW f, NEW S, IsFiniteSet(S), S # {}
  PROVE  SumFunctionOnSet(f, S) = f[Some(S)] + SumFunctionOnSet(f, S \ {Some(S)})
<1> DEFINE V == S \ {Some(S)}
<1>1. PICK g : g = (CHOOSE k : IsSum(k, f, S))
  OBVIOUS
<1>2. PICK h : h = (CHOOSE k : IsSum(k, f, V))
  OBVIOUS
<1>3. IsFiniteSet(V) /\ V \in SUBSET S /\ V \in SUBSET V /\ S \in SUBSET S
  BY FS_Subset
<1> HIDE DEF V
<1>4. IsSum(g, f, S) /\ IsSum(h, f, V)
  BY <1>1, <1>2, <1>3, SumsExist
<1>5. g[V] = h[V]
  BY <1>3, <1>4, SumsAgree
<1>6. g[S] = f[Some(S)] + g[V]
  BY <1>3, <1>4, SumUnfolds DEF V
<1>7. SumFunctionOnSet(f, S) = g[S] /\ SumFunctionOnSet(f, V) = h[V]
  BY <1>1, <1>2, SumDefined
<1> QED BY <1>5, <1>6, <1>7 DEF V

-----------------------------------------------------------------------------

\* Terms that are equal give sums that are.
LEMMA SumEqual ==
  ASSUME NEW S, IsFiniteSet(S), NEW f, NEW g, \A x \in S : f[x] = g[x]
  PROVE  SumFunctionOnSet(f, S) = SumFunctionOnSet(g, S)
<1> DEFINE Bad == {T \in SUBSET S : SumFunctionOnSet(f, T) # SumFunctionOnSet(g, T)}
<1>1. SUFFICES ASSUME Bad # {} PROVE FALSE
  OBVIOUS
<1>2. Bad \in SUBSET SUBSET S
  OBVIOUS
<1> HIDE DEF Bad
<1>3. PICK T \in Bad : \A U \in SUBSET T : U # T => U \notin Bad
  BY <1>1, <1>2, Smallest
<1>4. T \in SUBSET S /\ IsFiniteSet(T)
  BY <1>2, FS_Subset
<1>5. CASE T = {}
  BY <1>5, SumEmpty DEF Bad
<1>6. CASE T # {}
  <2>1. Some(T) \in T
    BY <1>6, SomeIn
  <2> DEFINE U == T \ {Some(T)}
  <2>2. U \in SUBSET T /\ U # T
    BY <2>1
  <2>3. /\ SumFunctionOnSet(f, T) = f[Some(T)] + SumFunctionOnSet(f, U)
        /\ SumFunctionOnSet(g, T) = g[Some(T)] + SumFunctionOnSet(g, U)
    BY <1>4, <1>6, SumStep
  <2>4. SumFunctionOnSet(f, U) = SumFunctionOnSet(g, U)
    BY <1>3, <1>4, <2>2 DEF Bad
  <2> QED BY <1>4, <2>1, <2>3, <2>4 DEF Bad
<1> QED BY <1>5, <1>6

\* A sum of integers.
LEMMA SumInt ==
  ASSUME NEW S, IsFiniteSet(S), NEW f, \A x \in S : f[x] \in Int
  PROVE  SumFunctionOnSet(f, S) \in Int
<1> DEFINE Bad == {T \in SUBSET S : SumFunctionOnSet(f, T) \notin Int}
<1>1. SUFFICES ASSUME Bad # {} PROVE FALSE
  OBVIOUS
<1>2. Bad \in SUBSET SUBSET S
  OBVIOUS
<1> HIDE DEF Bad
<1>3. PICK T \in Bad : \A U \in SUBSET T : U # T => U \notin Bad
  BY <1>1, <1>2, Smallest
<1>4. T \in SUBSET S /\ IsFiniteSet(T)
  BY <1>2, FS_Subset
<1>5. CASE T = {}
  BY <1>5, SumEmpty DEF Bad
<1>6. CASE T # {}
  <2>1. Some(T) \in T /\ f[Some(T)] \in Int
    BY <1>4, <1>6, SomeIn
  <2> DEFINE U == T \ {Some(T)}
  <2>2. U \in SUBSET T /\ U # T
    BY <2>1
  <2>3. SumFunctionOnSet(f, T) = f[Some(T)] + SumFunctionOnSet(f, U)
    BY <1>4, <1>6, SumStep
  <2>4. SumFunctionOnSet(f, U) \in Int
    BY <1>3, <1>4, <2>2 DEF Bad
  <2> QED BY <2>1, <2>3, <2>4 DEF Bad
<1> QED BY <1>5, <1>6

\* The sum may begin with any element.
LEMMA SumRemove ==
  ASSUME NEW S, IsFiniteSet(S), NEW f, \A y \in S : f[y] \in Int, NEW x \in S
  PROVE  SumFunctionOnSet(f, S) = f[x] + SumFunctionOnSet(f, S \ {x})
<1> DEFINE sum(T) == SumFunctionOnSet(f, T)
           Bad == {T \in SUBSET S : \E y \in T : sum(T) # f[y] + sum(T \ {y})}
<1>1. SUFFICES ASSUME Bad # {} PROVE FALSE
  OBVIOUS
<1>2. Bad \in SUBSET SUBSET S
  OBVIOUS
<1> HIDE DEF Bad
<1>3. PICK T \in Bad : \A U \in SUBSET T : U # T => U \notin Bad
  BY <1>1, <1>2, Smallest
<1>4. PICK y \in T : sum(T) # f[y] + sum(T \ {y})
  BY DEF Bad
<1>5. T \in SUBSET S /\ IsFiniteSet(T)
  BY <1>2, FS_Subset
<1>6. PICK z : z = Some(T)
  OBVIOUS
<1>7. z \in T /\ sum(T) = f[z] + sum(T \ {z})
  BY <1>5, <1>6, SomeIn, SumStep
<1>8. ASSUME NEW V \in SUBSET T PROVE sum(V) \in Int
  <2>1. IsFiniteSet(V) /\ \A v \in V : f[v] \in Int
    BY <1>5, FS_Subset
  <2> QED BY <2>1, SumInt
<1> HIDE DEF sum
<1>9. y # z
  BY <1>4, <1>7
<1>10. f[y] \in Int /\ f[z] \in Int
  BY <1>5, <1>7
<1>11. /\ sum(T \ {z}) = f[y] + sum((T \ {z}) \ {y})
       /\ sum(T \ {y}) = f[z] + sum((T \ {y}) \ {z})
  <2>1. T \ {z} \notin Bad /\ T \ {y} \notin Bad
    BY <1>3, <1>7
  <2>2. y \in T \ {z} /\ z \in T \ {y}
    BY <1>7, <1>9
  <2> QED BY <1>5, <2>1, <2>2 DEF Bad
<1>12. (T \ {z}) \ {y} = (T \ {y}) \ {z}
  OBVIOUS
<1>13. PICK W \in SUBSET T : W = (T \ {y}) \ {z}
  OBVIOUS
<1>14. sum(W) \in Int
  BY <1>8
<1>15. sum(T \ {z}) = f[y] + sum(W) /\ sum(T \ {y}) = f[z] + sum(W)
  BY <1>11, <1>12, <1>13
<1> QED BY <1>4, <1>7, <1>10, <1>14, <1>15

\* One element more.
LEMMA SumAdd ==
  ASSUME NEW S, IsFiniteSet(S), NEW f, NEW x, x \notin S,
         \A y \in S \cup {x} : f[y] \in Int
  PROVE  SumFunctionOnSet(f, S \cup {x}) = f[x] + SumFunctionOnSet(f, S)
<1>1. IsFiniteSet(S \cup {x})
  BY FS_AddElement
<1>2. (S \cup {x}) \ {x} = S
  OBVIOUS
<1>3. SumFunctionOnSet(f, S \cup {x}) = f[x] + SumFunctionOnSet(f, (S \cup {x}) \ {x})
  BY <1>1, SumRemove
<1> QED BY <1>2, <1>3

\* Sums of terms that are added up.
LEMMA SumPlus ==
  ASSUME NEW S, IsFiniteSet(S), NEW f, NEW g, NEW h,
         \A x \in S : f[x] \in Int /\ g[x] \in Int /\ h[x] = f[x] + g[x]
  PROVE  SumFunctionOnSet(h, S) = SumFunctionOnSet(f, S) + SumFunctionOnSet(g, S)
<1> DEFINE Bad == {T \in SUBSET S :
                     SumFunctionOnSet(h, T) #
                       SumFunctionOnSet(f, T) + SumFunctionOnSet(g, T)}
<1>1. SUFFICES ASSUME Bad # {} PROVE FALSE
  OBVIOUS
<1>2. Bad \in SUBSET SUBSET S
  OBVIOUS
<1> HIDE DEF Bad
<1>3. PICK T \in Bad : \A U \in SUBSET T : U # T => U \notin Bad
  BY <1>1, <1>2, Smallest
<1>4. T \in SUBSET S /\ IsFiniteSet(T)
  BY <1>2, FS_Subset
<1>5. CASE T = {}
  BY <1>5, SumEmpty DEF Bad
<1>6. CASE T # {}
  <2>1. PICK x \in T : x = Some(T)
    BY <1>6, SomeIn
  <2> DEFINE U == T \ {Some(T)}
  <2>2. U \in SUBSET T /\ U # T /\ U \in SUBSET S
    BY <1>4, <2>1
  <2>3. /\ SumFunctionOnSet(f, T) = f[x] + SumFunctionOnSet(f, U)
        /\ SumFunctionOnSet(g, T) = g[x] + SumFunctionOnSet(g, U)
        /\ SumFunctionOnSet(h, T) = h[x] + SumFunctionOnSet(h, U)
    BY <1>4, <1>6, <2>1, SumStep
  <2> HIDE DEF U
  <2>4. SumFunctionOnSet(h, U) = SumFunctionOnSet(f, U) + SumFunctionOnSet(g, U)
    BY <1>3, <1>4, <2>2 DEF Bad
  <2>5. SumFunctionOnSet(f, U) \in Int /\ SumFunctionOnSet(g, U) \in Int
    <3>1. IsFiniteSet(U)
      BY <1>4, <2>2, FS_Subset
    <3>2. \A y \in U : f[y] \in Int /\ g[y] \in Int
      BY <2>2
    <3> QED BY <3>1, <3>2, SumInt
  <2>6. f[x] \in Int /\ g[x] \in Int /\ h[x] = f[x] + g[x]
    BY <1>4
  <2> QED BY <2>3, <2>4, <2>5, <2>6 DEF Bad
<1> QED BY <1>5, <1>6

\* Sums over two sets that have nothing in common.
LEMMA SumUnion ==
  ASSUME NEW S, IsFiniteSet(S), NEW T, IsFiniteSet(T), S \cap T = {},
         NEW f, \A x \in S \cup T : f[x] \in Int
  PROVE  SumFunctionOnSet(f, S \cup T)
           = SumFunctionOnSet(f, S) + SumFunctionOnSet(f, T)
<1> DEFINE sum(U) == SumFunctionOnSet(f, U)
           Bad == {U \in SUBSET T : sum(S \cup U) # sum(S) + sum(U)}
<1>1. SUFFICES ASSUME Bad # {} PROVE FALSE
  OBVIOUS
<1>2. Bad \in SUBSET SUBSET T
  OBVIOUS
<1>a. sum(S) \in Int
  BY SumInt
<1> HIDE DEF Bad
<1>3. PICK U \in Bad : \A V \in SUBSET U : V # U => V \notin Bad
  BY <1>1, <1>2, Smallest
<1>4. U \in SUBSET T /\ IsFiniteSet(U)
  BY <1>2, FS_Subset
<1>5. CASE U = {}
  <2>1. S \cup U = S /\ sum(U) = 0
    BY <1>5, SumEmpty
  <2> QED BY <1>a, <2>1 DEF Bad
<1>6. CASE U # {}
  <2>1. PICK x \in U : TRUE
    BY <1>6
  <2> DEFINE V == U \ {x}
  <2>2. V \in SUBSET U /\ V # U /\ V \in SUBSET T /\ IsFiniteSet(V) /\ x \notin S \cup V
    BY <1>4, FS_Subset
  <2>3. S \cup U = (S \cup V) \cup {x}
    OBVIOUS
  <2> HIDE DEF V
  <2>4. IsFiniteSet(S \cup V)
    BY <2>2, FS_Union
  <2>5. \A y \in (S \cup V) \cup {x} : f[y] \in Int
    BY <1>4, <2>2
  <2>6. sum(S \cup U) = f[x] + sum(S \cup V)
    BY <2>2, <2>3, <2>4, <2>5, SumAdd
  <2>7. sum(U) = f[x] + sum(V)
    BY <1>4, SumRemove DEF V
  <2>8. sum(V) \in Int
    BY <2>2, SumInt
  <2> HIDE DEF sum
  <2>9. sum(S \cup V) = sum(S) + sum(V)
    BY <1>3, <2>2 DEF Bad
  <2>10. f[x] \in Int
    BY <1>4
  <2> QED BY <1>a, <2>6, <2>7, <2>8, <2>9, <2>10 DEF Bad
<1> QED BY <1>5, <1>6

\* A sum of natural numbers.
LEMMA SumNat ==
  ASSUME NEW S, IsFiniteSet(S), NEW f, \A x \in S : f[x] \in Nat
  PROVE  SumFunctionOnSet(f, S) \in Nat
<1> DEFINE Bad == {T \in SUBSET S : SumFunctionOnSet(f, T) \notin Nat}
<1>1. SUFFICES ASSUME Bad # {} PROVE FALSE
  OBVIOUS
<1>2. Bad \in SUBSET SUBSET S
  OBVIOUS
<1> HIDE DEF Bad
<1>3. PICK T \in Bad : \A U \in SUBSET T : U # T => U \notin Bad
  BY <1>1, <1>2, Smallest
<1>4. T \in SUBSET S /\ IsFiniteSet(T)
  BY <1>2, FS_Subset
<1>5. CASE T = {}
  BY <1>5, SumEmpty DEF Bad
<1>6. CASE T # {}
  <2>1. Some(T) \in T /\ f[Some(T)] \in Nat
    BY <1>4, <1>6, SomeIn
  <2> DEFINE U == T \ {Some(T)}
  <2>2. U \in SUBSET T /\ U # T
    BY <2>1
  <2>3. SumFunctionOnSet(f, T) = f[Some(T)] + SumFunctionOnSet(f, U)
    BY <1>4, <1>6, SumStep
  <2>4. SumFunctionOnSet(f, U) \in Nat
    BY <1>3, <1>4, <2>2 DEF Bad
  <2> QED BY <2>1, <2>3, <2>4 DEF Bad
<1> QED BY <1>5, <1>6

\* Fewer terms, none of them negative, do not give more.
LEMMA SumFewer ==
  ASSUME NEW S, IsFiniteSet(S), NEW T \in SUBSET S, NEW f, \A x \in S : f[x] \in Nat
  PROVE  SumFunctionOnSet(f, T) <= SumFunctionOnSet(f, S)
<1> DEFINE U == S \ T
<1>1. IsFiniteSet(T) /\ IsFiniteSet(U) /\ T \cap U = {} /\ T \cup U = S
  BY FS_Subset
<1>2. /\ \A x \in T : f[x] \in Nat
      /\ \A x \in U : f[x] \in Nat
      /\ \A x \in T \cup U : f[x] \in Int
  OBVIOUS
<1> HIDE DEF U
<1>3. SumFunctionOnSet(f, T) \in Nat /\ SumFunctionOnSet(f, U) \in Nat
  BY <1>1, <1>2, SumNat
<1>4. SumFunctionOnSet(f, S) = SumFunctionOnSet(f, T) + SumFunctionOnSet(f, U)
  BY <1>1, <1>2, SumUnion
<1> QED BY <1>3, <1>4

-----------------------------------------------------------------------------

\* The sum of terms that are only named differently.
LEMMA SumReindex ==
  ASSUME NEW S, IsFiniteSet(S), NEW f, NEW g, NEW b,
         \A x \in S : f[x] \in Int /\ g[b[x]] = f[x],
         \A x, y \in S : b[x] = b[y] => x = y
  PROVE  SumFunctionOnSet(g, {b[x] : x \in S}) = SumFunctionOnSet(f, S)
<1> DEFINE image(T) == {b[x] : x \in T}
           Bad == {T \in SUBSET S :
                     SumFunctionOnSet(g, image(T)) # SumFunctionOnSet(f, T)}
<1>1. SUFFICES ASSUME Bad # {} PROVE FALSE
  OBVIOUS
<1>2. Bad \in SUBSET SUBSET S
  OBVIOUS
<1> HIDE DEF Bad
<1>3. PICK T \in Bad : \A U \in SUBSET T : U # T => U \notin Bad
  BY <1>1, <1>2, Smallest
<1>4. T \in SUBSET S /\ IsFiniteSet(T)
  BY <1>2, FS_Subset
<1>5. CASE T = {}
  <2>1. image(T) = {}
    BY <1>5
  <2> HIDE DEF image
  <2> QED BY <1>5, <2>1, SumEmpty DEF Bad
<1>6. CASE T # {}
  <2>1. PICK y : y \in T
    BY <1>6
  <2> DEFINE U == T \ {y}
  <2>2. U \in SUBSET T /\ U # T /\ IsFiniteSet(U)
    BY <1>4, <2>1, FS_Subset
  <2>3. SumFunctionOnSet(f, T) = f[y] + SumFunctionOnSet(f, U)
    BY <1>4, <2>1, SumRemove
  <2>4. SumFunctionOnSet(g, image(U)) = SumFunctionOnSet(f, U)
    BY <1>3, <1>4, <2>2 DEF Bad
  <2>5. image(T) = image(U) \cup {b[y]} /\ b[y] \notin image(U)
    BY <1>4, <2>1
  <2>6. IsFiniteSet(image(U))
    <3> DEFINE m == [x \in U |-> b[x]]
    <3>1. m \in Surjection(U, image(U))
      BY DEF Surjection
    <3> HIDE DEF m, image, U
    <3> QED BY <2>2, <3>1, FS_Surjection
  <2>7. \A z \in image(U) \cup {b[y]} : g[z] \in Int
    BY <1>4, <2>1
  <2> HIDE DEF image, U
  <2>8. SumFunctionOnSet(g, image(T)) = g[b[y]] + SumFunctionOnSet(g, image(U))
    BY <2>5, <2>6, <2>7, SumAdd
  <2> QED BY <1>4, <2>1, <2>3, <2>4, <2>8 DEF Bad
<1> QED BY <1>5, <1>6

\* The positions up to n whose successors are in T.
Before(T, n) == {i \in 1..n : i + 1 \in T}

\* f is a number at the positions T, and g is f moved down by one.
Shifted(f, g, T, n) ==
  /\ T \in SUBSET (1..(n + 1))
  /\ \A i \in T : f[i] \in Int
  /\ \A i \in 1..n : i + 1 \in T => g[i] = f[i + 1]

\* A sum over positions, of which the first is taken off and the others
\* move up by one.
LEMMA SumTail ==
  ASSUME NEW n \in Nat, NEW f, NEW g, NEW T, Shifted(f, g, T, n)
  PROVE  SumFunctionOnSet(f, T)
           = (IF 1 \in T THEN f[1] ELSE 0) + SumFunctionOnSet(g, Before(T, n))
<1> DEFINE S == Before(T, n)
           b == [i \in S |-> i + 1]
           rest == {b[i] : i \in S}
<1>1. IsFiniteSet(T) /\ IsFiniteSet(S)
  <2>1. n + 1 \in Int /\ S \in SUBSET (1..n) /\ T \in SUBSET (1..(n + 1))
    BY DEF Shifted, Before
  <2>2. IsFiniteSet(1..(n + 1)) /\ IsFiniteSet(1..n)
    BY <2>1, FS_Interval
  <2> QED BY <2>1, <2>2, FS_Subset
<1>2. rest = T \ {1}
  <2>1. ASSUME NEW k \in T, k # 1 PROVE k \in rest
    <3>1. k - 1 \in S /\ b[k - 1] = k
      BY <2>1 DEF Shifted, Before
    <3> HIDE DEF S, b
    <3> QED BY <3>1
  <2>2. \A i \in S : b[i] \in T \ {1}
    BY DEF Before
  <2> HIDE DEF S, b
  <2> QED BY <2>1, <2>2
<1>3. \A i \in S : g[i] \in Int /\ f[b[i]] = g[i]
  BY DEF Shifted, Before
<1>4. \A i, j \in S : b[i] = b[j] => i = j
  BY DEF Before
<1>a. \A i \in T : f[i] \in Int
  BY DEF Shifted
<1> HIDE DEF S, b, rest
<1>5. SumFunctionOnSet(f, rest) = SumFunctionOnSet(g, S)
  BY <1>1, <1>3, <1>4, SumReindex DEF rest
<1>6. CASE 1 \in T
  <2>1. SumFunctionOnSet(f, T) = f[1] + SumFunctionOnSet(f, T \ {1})
    BY <1>1, <1>6, <1>a, SumRemove
  <2> QED BY <1>2, <1>5, <1>6, <2>1 DEF S
<1>7. CASE 1 \notin T
  <2>1. T \ {1} = T
    BY <1>7
  <2>2. SumFunctionOnSet(g, S) \in Int
    BY <1>1, <1>3, SumInt
  <2> QED BY <1>2, <1>5, <1>7, <2>1, <2>2 DEF S
<1> QED BY <1>6, <1>7

-----------------------------------------------------------------------------
(***************************************************************************)
(* Sums over the lines of a list, of which a loop takes off the first.     *)
(***************************************************************************)
\* The lines of a list without its first.
LEMMA TailLines ==
  ASSUME NEW R, NEW s \in Seq(R), s # << >>
  PROVE  \E n \in Nat :
           /\ DOMAIN s = 1..(n + 1) /\ DOMAIN Tail(s) = 1..n
           /\ Head(s) = s[1]
           /\ \A i \in 1..n : Tail(s)[i] = s[i + 1]
           /\ \A i \in DOMAIN s : s[i] \in R
           /\ Tail(s) \in Seq(R)
<1>1. PICK n : n = Len(s) - 1
  OBVIOUS
<1>2. /\ Len(s) \in Nat /\ Len(s) # 0
      /\ DOMAIN s = 1..Len(s)
      /\ Tail(s) \in Seq(R) /\ Len(Tail(s)) = Len(s) - 1
      /\ DOMAIN Tail(s) = 1..Len(Tail(s))
      /\ \A i \in 1..Len(Tail(s)) : Tail(s)[i] = s[i + 1]
  BY LenProperties, HeadTailProperties, EmptySeq
<1>3. n \in Nat /\ Len(s) = n + 1 /\ Len(Tail(s)) = n
  BY <1>1, <1>2
<1> QED BY <1>2, <1>3, ElementOfSeq

\* The positions of a list are finitely many.
LEMMA FewLines == ASSUME NEW R, NEW s \in Seq(R) PROVE IsFiniteSet(DOMAIN s)
<1>1. DOMAIN s = 1..Len(s) /\ Len(s) \in Int
  BY LenProperties
<1> QED BY <1>1, FS_Interval

\* How many pieces of product p the lines are for.
Pieces(lines, p) ==
  SumFunctionOnSet([i \in DOMAIN lines |-> lines[i].quantity],
                   {i \in DOMAIN lines : lines[i].product = p})

\* No lines, no pieces.
LEMMA PiecesNone == ASSUME NEW p PROVE Pieces(<< >>, p) = 0
<1>1. {i \in DOMAIN << >> : << >>[i].product = p} = {}
  OBVIOUS
<1> QED BY <1>1, SumEmpty DEF Pieces

\* Pieces are counted in natural numbers.
LEMMA PiecesNat ==
  ASSUME NEW R, NEW lines \in Seq(R), NEW p,
         \A i \in DOMAIN lines : lines[i].quantity \in Nat
  PROVE  Pieces(lines, p) \in Nat
<1> DEFINE f == [i \in DOMAIN lines |-> lines[i].quantity]
           T == {i \in DOMAIN lines : lines[i].product = p}
<1>1. IsFiniteSet(T) /\ \A i \in T : f[i] \in Nat
  BY FewLines, FS_Subset
<1> HIDE DEF f, T
<1>2. SumFunctionOnSet(f, T) \in Nat
  BY <1>1, SumNat
<1> QED BY <1>2 DEF Pieces, f, T

\* The pieces of the first line and of the rest.
LEMMA PiecesTail ==
  ASSUME NEW R, NEW lines \in Seq(R), lines # << >>, NEW p,
         \A i \in DOMAIN lines : lines[i].quantity \in Nat
  PROVE  Pieces(lines, p)
           = (IF Head(lines).product = p THEN Head(lines).quantity ELSE 0)
               + Pieces(Tail(lines), p)
<1>1. PICK n \in Nat :
        /\ DOMAIN lines = 1..(n + 1) /\ DOMAIN Tail(lines) = 1..n
        /\ Head(lines) = lines[1]
        /\ \A i \in 1..n : Tail(lines)[i] = lines[i + 1]
  BY TailLines
<1> DEFINE f == [i \in 1..(n + 1) |-> lines[i].quantity]
           g == [i \in 1..n |-> Tail(lines)[i].quantity]
           T == {i \in 1..(n + 1) : lines[i].product = p}
<1>2. Shifted(f, g, T, n)
  BY <1>1 DEF Shifted
<1>3. /\ 1 \in T <=> Head(lines).product = p
      /\ f[1] = Head(lines).quantity
      /\ Before(T, n) = {i \in 1..n : Tail(lines)[i].product = p}
  BY <1>1 DEF Before
<1>4. Pieces(lines, p) = SumFunctionOnSet(f, T)
  BY <1>1 DEF Pieces
<1>5. Pieces(Tail(lines), p)
        = SumFunctionOnSet(g, {i \in 1..n : Tail(lines)[i].product = p})
  BY <1>1 DEF Pieces
<1> HIDE DEF f, g, T
<1>6. SumFunctionOnSet(f, T)
        = (IF 1 \in T THEN f[1] ELSE 0) + SumFunctionOnSet(g, Before(T, n))
  BY <1>2, SumTail
<1> QED BY <1>3, <1>4, <1>5, <1>6
\* The positions T of row r.
Placed(r, T) == {<<r, j>> : j \in T}

\* A sum to which the terms of the positions T of one more row are added.
LEMMA SumGrows ==
  ASSUME NEW S, IsFiniteSet(S), NEW T, IsFiniteSet(T), NEW r,
         \A j \in T : <<r, j>> \notin S,
         NEW f, NEW g, NEW w,
         \A x \in S : f[x] \in Int /\ g[x] = f[x],
         \A j \in T : w[j] \in Int /\ g[<<r, j>>] = w[j]
  PROVE  /\ IsFiniteSet(S \cup Placed(r, T))
         /\ SumFunctionOnSet(g, S \cup Placed(r, T))
              = SumFunctionOnSet(f, S) + SumFunctionOnSet(w, T)
<1> DEFINE b == [j \in T |-> <<r, j>>]
           U == {b[j] : j \in T}
<1>1. U = Placed(r, T)
  BY DEF Placed
<1>2. /\ \A j \in T : w[j] \in Int /\ g[b[j]] = w[j]
      /\ \A i, j \in T : b[i] = b[j] => i = j
  OBVIOUS
<1>3. U \cap S = {} /\ \A x \in U : g[x] \in Int
  OBVIOUS
<1>4. IsFiniteSet(U)
  <2>1. b \in Surjection(T, U)
    BY DEF Surjection
  <2> HIDE DEF b, U
  <2> QED BY <2>1, FS_Surjection
<1> HIDE DEF b
<1>5. SumFunctionOnSet(g, U) = SumFunctionOnSet(w, T)
  BY <1>2, SumReindex
<1> HIDE DEF U
<1>6. \A x \in S \cup U : g[x] \in Int
  BY <1>3
<1>7. SumFunctionOnSet(g, S \cup U) = SumFunctionOnSet(g, S) + SumFunctionOnSet(g, U)
  BY <1>3, <1>4, <1>6, SumUnion
<1>8. SumFunctionOnSet(g, S) = SumFunctionOnSet(f, S)
  BY SumEqual
<1>9. IsFiniteSet(S \cup U)
  BY <1>4, FS_Union
<1> QED BY <1>1, <1>5, <1>7, <1>8, <1>9

=============================================================================
