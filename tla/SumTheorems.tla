---------------------------- MODULE SumTheorems ----------------------------
(***************************************************************************)
(* Laws of SumFunctionOnSet, the sum of a function's values over a finite  *)
(* set.  The community module defines it by a recursive function whose     *)
(* elements are taken in an order nobody knows; the laws say that neither  *)
(* the recursion nor the order matters.  Induction is over the finite      *)
(* subsets of a set, stated with a set of subsets where a textbook has a   *)
(* predicate, and proved from the well-foundedness of their inclusion.     *)
(***************************************************************************)
EXTENDS Functions, FiniteSetTheorems, TLAPS

\* A set of subsets of S that has each subset whose strict subsets it has is the
\* set of all of them.
LEMMA SubsetInduction ==
  ASSUME NEW S, IsFiniteSet(S), NEW P \in SUBSET (SUBSET S),
         \A T \in SUBSET S : (\A U \in SUBSET T : U # T => U \in P) => T \in P
  PROVE  P = SUBSET S
<1> DEFINE D == (SUBSET S) \ P
<1>1. SUFFICES ASSUME D # {} PROVE FALSE
  OBVIOUS
<1>2. IsWellFoundedOn(StrictSubsetOrdering(S), SUBSET S)
  BY FS_StrictSubsetOrderingWellFounded, FS_FiniteSubsetsOfFinite
<1>3. D \subseteq SUBSET S
  OBVIOUS
<1> HIDE DEF D
<1>4. PICK T \in D : \A U \in D : <<U, T>> \notin StrictSubsetOrdering(S)
  BY <1>1, <1>2, <1>3, WFMin
<1>5. ASSUME NEW U \in SUBSET T, U # T PROVE U \in P
  <2>1. U \in SUBSET S /\ T \in SUBSET S
    BY <1>3
  <2>2. <<U, T>> \in StrictSubsetOrdering(S)
    BY <1>5, <2>1 DEF StrictSubsetOrdering
  <2> QED
    BY <1>4, <2>1, <2>2 DEF D
<1>6. T \in SUBSET S /\ T \notin P
  BY <1>4 DEF D
<1>7. \A U \in SUBSET T : U # T => U \in P
  BY <1>5
<1> QED
  BY <1>6, <1>7

-----------------------------------------------------------------------------
(* The recursion.                                                          *)

First(s) == CHOOSE x \in s : TRUE

Unrolled(f, g, s) == IF s = {} THEN 0 ELSE f[First(s)] + g[s \ {First(s)}]

\* g is what the recursive definition asks for over the subsets of S.
Solves(f, S, g) == g = [s \in SUBSET S |-> Unrolled(f, g, s)]

Solution(f, S) == CHOOSE g : Solves(f, S, g)

LEMMA SumIsSolution ==
  ASSUME NEW f, NEW S
  PROVE  SumFunctionOnSet(f, S) = Solution(f, S)[S]
BY DEF SumFunctionOnSet, FoldFunctionOnSet, MapThenFoldSet, Solution, Solves, Unrolled, First

LEMMA FirstIsMember == ASSUME NEW s, s # {} PROVE First(s) \in s
BY DEF First

\* Solutions over different sets agree on the subsets they share.
LEMMA SolutionsAgree ==
  ASSUME NEW f, NEW S, NEW T, IsFiniteSet(S), NEW g, NEW h,
         Solves(f, S, g), Solves(f, T, h),
         NEW s \in SUBSET S, s \in SUBSET T
  PROVE  g[s] = h[s]
<1> DEFINE P == {u \in SUBSET s : g[u] = h[u]}
<1>1. IsFiniteSet(s)
  BY FS_Subset
<1>2. ASSUME NEW u \in SUBSET s, \A v \in SUBSET u : v # u => v \in P
      PROVE  u \in P
  <2>1. g[u] = Unrolled(f, g, u) /\ h[u] = Unrolled(f, h, u)
    BY DEF Solves
  <2>2. CASE u = {}
    BY <2>1, <2>2 DEF Unrolled
  <2>3. CASE u # {}
    <3>1. u \ {First(u)} \in SUBSET u /\ u \ {First(u)} # u
      BY <2>3, FirstIsMember
    <3>2. g[u \ {First(u)}] = h[u \ {First(u)}]
      BY <1>2, <3>1
    <3> QED
      BY <2>1, <3>2 DEF Unrolled
  <2> QED
    BY <2>2, <2>3
<1>3. P = SUBSET s
  <2>1. P \in SUBSET (SUBSET s)
    OBVIOUS
  <2> HIDE DEF P
  <2> QED
    BY <1>1, <1>2, <2>1, SubsetInduction
<1> QED
  BY <1>3

\* There is a solution over a set when there is one over each strict subset.
LEMMA SolutionExtends ==
  ASSUME NEW f, NEW S, IsFiniteSet(S),
         \A T \in SUBSET S : T # S => Solves(f, T, Solution(f, T))
  PROVE  Solves(f, S, Solution(f, S))
<1> DEFINE below(T) == Solution(f, T)[T]
           g == [s \in SUBSET S |-> IF s = {} THEN 0
                                    ELSE f[First(s)] + below(s \ {First(s)})]
<1>1. ASSUME NEW s \in SUBSET S, s # S PROVE g[s] = below(s)
  <2>1. Solves(f, s, Solution(f, s))
    BY <1>1
  <2>2. below(s) = Unrolled(f, Solution(f, s), s)
    BY <2>1 DEF Solves
  <2>3. CASE s = {}
    BY <2>2, <2>3 DEF Unrolled
  <2>4. CASE s # {}
    <3> DEFINE r == s \ {First(s)}
    <3>1. r \in SUBSET S /\ r # S /\ r \in SUBSET s
      BY <1>1, <2>4, FirstIsMember
    <3>2. IsFiniteSet(s)
      BY FS_Subset
    <3>3. Solves(f, r, Solution(f, r))
      BY <3>1
    <3>4. Solution(f, s)[r] = below(r)
      <4> HIDE DEF r
      <4>1. r \in SUBSET r
        OBVIOUS
      <4> QED
        BY <4>1, <2>1, <3>1, <3>2, <3>3, SolutionsAgree
    <3> QED
      BY <2>2, <2>4, <3>4 DEF Unrolled
  <2> QED
    BY <2>3, <2>4
<1>2. ASSUME NEW s \in SUBSET S PROVE g[s] = Unrolled(f, g, s)
  <2>1. CASE s = {}
    BY <2>1 DEF Unrolled
  <2>2. CASE s # {}
    <3>1. s \ {First(s)} \in SUBSET S /\ s \ {First(s)} # S
      BY <2>2, FirstIsMember
    <3>2. g[s \ {First(s)}] = below(s \ {First(s)})
      BY <1>1, <3>1
    <3> QED
      BY <2>2, <3>2 DEF Unrolled
  <2> QED
    BY <2>1, <2>2
<1>3. Solves(f, S, g)
  BY <1>2 DEF Solves
<1> HIDE DEF g
<1> QED
  BY <1>3 DEF Solution

LEMMA SolutionExists ==
  ASSUME NEW f, NEW S, IsFiniteSet(S)
  PROVE  Solves(f, S, Solution(f, S))
<1> DEFINE P == {T \in SUBSET S : Solves(f, T, Solution(f, T))}
<1>1. ASSUME NEW T \in SUBSET S, \A U \in SUBSET T : U # T => U \in P
      PROVE  T \in P
  <2>1. IsFiniteSet(T)
    BY FS_Subset
  <2>2. \A U \in SUBSET T : U # T => Solves(f, U, Solution(f, U))
    BY <1>1
  <2> QED
    BY <2>1, <2>2, SolutionExtends
<1>2. P \in SUBSET (SUBSET S)
  OBVIOUS
<1>3. P = SUBSET S
  <2> HIDE DEF P
  <2> QED
    BY <1>1, <1>2, SubsetInduction
<1> QED
  BY <1>3

\* The sum over a set is what the definition says, taken one element at a time.
LEMMA SumUnrolled ==
  ASSUME NEW f, NEW S, IsFiniteSet(S)
  PROVE  SumFunctionOnSet(f, S) =
           IF S = {} THEN 0 ELSE f[First(S)] + SumFunctionOnSet(f, S \ {First(S)})
<1> DEFINE R == S \ {First(S)}
<1>1. Solves(f, S, Solution(f, S))
  BY SolutionExists
<1>2. IsFiniteSet(R) /\ R \in SUBSET S
  BY FS_Subset
<1>3. Solves(f, R, Solution(f, R))
  BY <1>2, SolutionExists
<1>4. Solution(f, S)[R] = Solution(f, R)[R]
  BY <1>1, <1>2, <1>3, SolutionsAgree
<1>5. Solution(f, S)[S] = Unrolled(f, Solution(f, S), S)
  BY <1>1 DEF Solves
<1> QED
  BY <1>4, <1>5, SumIsSolution DEF Unrolled

-----------------------------------------------------------------------------
(* The laws.                                                               *)

\* Nothing adds up to nothing.
LEMMA SumEmpty == ASSUME NEW f PROVE SumFunctionOnSet(f, {}) = 0
BY SumUnrolled, FS_EmptySet

\* Numbers add up to a number.
LEMMA SumType ==
  ASSUME NEW f, NEW S, IsFiniteSet(S), \A x \in S : f[x] \in Nat
  PROVE  SumFunctionOnSet(f, S) \in Nat
<1> DEFINE P == {T \in SUBSET S : SumFunctionOnSet(f, T) \in Nat}
<1>1. ASSUME NEW T \in SUBSET S, \A U \in SUBSET T : U # T => U \in P
      PROVE  T \in P
  <2>1. CASE T = {}
    BY <2>1, SumEmpty
  <2>2. CASE T # {}
    <3>1. First(T) \in T
      BY <2>2, FirstIsMember
    <3>2. SumFunctionOnSet(f, T \ {First(T)}) \in Nat
      BY <1>1, <3>1
    <3>3. IsFiniteSet(T)
      BY FS_Subset
    <3>4. SumFunctionOnSet(f, T) = f[First(T)] + SumFunctionOnSet(f, T \ {First(T)})
      BY <2>2, <3>3, SumUnrolled
    <3> QED
      BY <3>1, <3>2, <3>4
  <2> QED
    BY <2>1, <2>2
<1>2. P = SUBSET S
  <2>1. P \in SUBSET (SUBSET S)
    OBVIOUS
  <2> HIDE DEF P
  <2> QED
    BY <1>1, <2>1, SubsetInduction
<1> QED
  BY <1>2

\* Any element may be taken first.
LEMMA SumRemove ==
  ASSUME NEW f, NEW S, IsFiniteSet(S), \A x \in S : f[x] \in Nat, NEW x \in S
  PROVE  SumFunctionOnSet(f, S) = f[x] + SumFunctionOnSet(f, S \ {x})
<1> DEFINE P == {T \in SUBSET S : \A y \in T :
                   SumFunctionOnSet(f, T) = f[y] + SumFunctionOnSet(f, T \ {y})}
<1>1. ASSUME NEW T \in SUBSET S, \A U \in SUBSET T : U # T => U \in P
      PROVE  T \in P
  <2> SUFFICES ASSUME NEW y \in T
               PROVE  SumFunctionOnSet(f, T) = f[y] + SumFunctionOnSet(f, T \ {y})
    OBVIOUS
  <2> DEFINE z == First(T)
  <2>1. z \in T
    BY FirstIsMember
  <2>2. IsFiniteSet(T)
    BY FS_Subset
  <2>3. SumFunctionOnSet(f, T) = f[z] + SumFunctionOnSet(f, T \ {z})
    BY <2>1, <2>2, SumUnrolled
  <2> HIDE DEF z
  <2>4. CASE y = z
    BY <2>3, <2>4
  <2>5. CASE y # z
    <3> DEFINE R == (T \ {z}) \ {y}
    <3>1. SumFunctionOnSet(f, T \ {z}) = f[y] + SumFunctionOnSet(f, R)
      <4>1. T \ {z} \in P /\ y \in T \ {z}
        BY <1>1, <2>1, <2>5
      <4> QED
        BY <4>1
    <3>2. SumFunctionOnSet(f, T \ {y}) = f[z] + SumFunctionOnSet(f, R)
      <4>1. T \ {y} \in P /\ z \in T \ {y} /\ (T \ {y}) \ {z} = R
        BY <1>1, <2>1, <2>5
      <4>2. \A v \in T \ {y} :
              SumFunctionOnSet(f, T \ {y}) = f[v] + SumFunctionOnSet(f, (T \ {y}) \ {v})
        BY <4>1
      <4> QED
        BY <4>1, <4>2
    <3>3. IsFiniteSet(R) /\ R \in SUBSET S
      BY FS_Subset
    <3>4. SumFunctionOnSet(f, R) \in Nat /\ f[y] \in Nat /\ f[z] \in Nat
      BY <2>1, <3>3, SumType
    <3> HIDE DEF R
    <3> QED
      BY <2>3, <3>1, <3>2, <3>4
  <2> QED
    BY <2>4, <2>5
<1>2. P = SUBSET S
  <2>1. P \in SUBSET (SUBSET S)
    OBVIOUS
  <2> HIDE DEF P
  <2> QED
    BY <1>1, <2>1, SubsetInduction
<1>3. S \in P
  BY <1>2
<1> QED
  BY <1>3

\* A new element adds its value.
LEMMA SumAdd ==
  ASSUME NEW f, NEW S, IsFiniteSet(S), NEW x, x \notin S,
         \A y \in S \cup {x} : f[y] \in Nat
  PROVE  SumFunctionOnSet(f, S \cup {x}) = SumFunctionOnSet(f, S) + f[x]
<1>1. IsFiniteSet(S \cup {x})
  BY FS_AddElement
<1>2. (S \cup {x}) \ {x} = S /\ x \in S \cup {x}
  OBVIOUS
<1>3. SumFunctionOnSet(f, S \cup {x}) = f[x] + SumFunctionOnSet(f, (S \cup {x}) \ {x})
  BY <1>1, <1>2, SumRemove
<1>4. SumFunctionOnSet(f, S \cup {x}) = f[x] + SumFunctionOnSet(f, S)
  BY <1>2, <1>3
<1>5. SumFunctionOnSet(f, S) \in Nat /\ f[x] \in Nat
  BY SumType
<1> QED
  BY <1>4, <1>5

\* Smaller values add up to no more.
LEMMA SumPointwise ==
  ASSUME NEW f, NEW g, NEW S, IsFiniteSet(S),
         \A x \in S : f[x] \in Nat /\ g[x] \in Nat /\ f[x] <= g[x]
  PROVE  SumFunctionOnSet(f, S) <= SumFunctionOnSet(g, S)
<1> DEFINE P == {T \in SUBSET S : SumFunctionOnSet(f, T) <= SumFunctionOnSet(g, T)}
<1>1. ASSUME NEW T \in SUBSET S, \A U \in SUBSET T : U # T => U \in P
      PROVE  T \in P
  <2>1. CASE T = {}
    BY <2>1, SumEmpty
  <2>2. CASE T # {}
    <3> DEFINE z == First(T)
               R == T \ {z}
    <3>1. z \in T
      BY <2>2, FirstIsMember
    <3> HIDE DEF z
    <3>2. IsFiniteSet(T) /\ IsFiniteSet(R)
      BY FS_Subset
    <3>3. SumFunctionOnSet(f, R) <= SumFunctionOnSet(g, R)
      BY <1>1, <3>1
    <3>4. SumFunctionOnSet(f, R) \in Nat /\ SumFunctionOnSet(g, R) \in Nat
      BY <3>2, SumType
    <3>5. /\ SumFunctionOnSet(f, T) = f[z] + SumFunctionOnSet(f, R)
          /\ SumFunctionOnSet(g, T) = g[z] + SumFunctionOnSet(g, R)
      BY <3>1, <3>2, SumRemove
    <3> HIDE DEF R
    <3> QED
      BY <3>1, <3>3, <3>4, <3>5
  <2> QED
    BY <2>1, <2>2
<1>2. P = SUBSET S
  <2>1. P \in SUBSET (SUBSET S)
    OBVIOUS
  <2> HIDE DEF P
  <2> QED
    BY <1>1, <2>1, SubsetInduction
<1> QED
  BY <1>2

\* The same values add up to the same.
LEMMA SumSame ==
  ASSUME NEW f, NEW g, NEW S, IsFiniteSet(S),
         \A x \in S : f[x] \in Nat /\ f[x] = g[x]
  PROVE  SumFunctionOnSet(f, S) = SumFunctionOnSet(g, S)
<1>1. SumFunctionOnSet(f, S) <= SumFunctionOnSet(g, S)
  BY SumPointwise
<1>2. SumFunctionOnSet(g, S) <= SumFunctionOnSet(f, S)
  BY SumPointwise
<1>3. SumFunctionOnSet(f, S) \in Nat /\ SumFunctionOnSet(g, S) \in Nat
  BY SumType
<1> QED
  BY <1>1, <1>2, <1>3

\* Fewer elements add up to no more.
LEMMA SumSubset ==
  ASSUME NEW f, NEW S, IsFiniteSet(S), \A x \in S : f[x] \in Nat,
         NEW T \in SUBSET S
  PROVE  SumFunctionOnSet(f, T) <= SumFunctionOnSet(f, S)
<1> DEFINE P == {U \in SUBSET S :
                   SumFunctionOnSet(f, U \cap T) <= SumFunctionOnSet(f, U)}
<1>1. ASSUME NEW U \in SUBSET S, \A V \in SUBSET U : V # U => V \in P
      PROVE  U \in P
  <2>1. CASE U \subseteq T
    <3>1. U \cap T = U /\ IsFiniteSet(U)
      BY <2>1, FS_Subset
    <3>2. SumFunctionOnSet(f, U) \in Nat
      BY <3>1, SumType
    <3> QED
      BY <3>1, <3>2
  <2>2. CASE ~(U \subseteq T)
    <3>1. PICK z \in U : z \notin T
      BY <2>2
    <3> DEFINE R == U \ {z}
    <3>2. R \cap T = U \cap T /\ R \in P
      BY <1>1, <3>1
    <3>3. IsFiniteSet(U) /\ IsFiniteSet(R) /\ IsFiniteSet(U \cap T)
      BY FS_Subset
    <3>4. SumFunctionOnSet(f, U) = f[z] + SumFunctionOnSet(f, R)
      BY <3>1, <3>3, SumRemove
    <3>5. /\ SumFunctionOnSet(f, R) \in Nat /\ SumFunctionOnSet(f, U \cap T) \in Nat
          /\ f[z] \in Nat
      BY <3>1, <3>3, SumType
    <3>6. SumFunctionOnSet(f, U \cap T) <= SumFunctionOnSet(f, R)
      BY <3>2
    <3> HIDE DEF R
    <3> QED
      BY <3>4, <3>5, <3>6
  <2> QED
    BY <2>1, <2>2
<1>2. P = SUBSET S
  <2>1. P \in SUBSET (SUBSET S)
    OBVIOUS
  <2> HIDE DEF P
  <2> QED
    BY <1>1, <2>1, SubsetInduction
<1>3. S \cap T = T /\ S \in P
  BY <1>2
<1> QED
  BY <1>3

\* What changes at one element is the sum's change.
LEMMA SumOneChanges ==
  ASSUME NEW f, NEW g, NEW S, IsFiniteSet(S), NEW x \in S,
         \A y \in S : f[y] \in Nat /\ g[y] \in Nat,
         \A y \in S : y # x => f[y] = g[y]
  PROVE  SumFunctionOnSet(g, S) = SumFunctionOnSet(f, S) - f[x] + g[x]
<1>1. IsFiniteSet(S \ {x})
  BY FS_Subset
<1>2. SumFunctionOnSet(f, S \ {x}) = SumFunctionOnSet(g, S \ {x})
  BY <1>1, SumSame
<1>3. /\ SumFunctionOnSet(f, S) = f[x] + SumFunctionOnSet(f, S \ {x})
      /\ SumFunctionOnSet(g, S) = g[x] + SumFunctionOnSet(g, S \ {x})
  BY SumRemove
<1>4. SumFunctionOnSet(f, S \ {x}) \in Nat
  BY <1>1, SumType
<1> QED
  BY <1>2, <1>3, <1>4

=============================================================================
