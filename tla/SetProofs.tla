------------------------------ MODULE SetProofs ------------------------------
(***************************************************************************)
(* What the proofs of several modules need of finite sets.                 *)
(*                                                                         *)
(* What SumFunctionOnSet and SumFunction of the community modules compute: *)
(* the sum of a function over a finite set, in whatever order its elements *)
(* are chosen; accounts and positions are such sums.  What the elements of *)
(* a finite set in a strict total order are, one after the other, and how  *)
(* many numbers of a set precede one of them.                              *)
(*                                                                         *)
(* The inductions are over subsets of a finite set and over an interval:   *)
(* the library's theorem that a well-founded relation has minimal          *)
(* elements, applied to the set of counterexamples.                        *)
(***************************************************************************)
EXTENDS Integers, Sequences, FiniteSets, Functions, FiniteSetTheorems, SequenceTheorems, WellFoundedInduction, TLAPS

(* A set of subsets of a finite set that has every subset whose strict      *)
(* subsets it has is the set of all subsets.                                *)
LEMMA SubsetInduction ==
  ASSUME NEW S, IsFiniteSet(S), NEW Good \in SUBSET (SUBSET S),
         \A T \in SUBSET S : (\A U \in SUBSET T : U # T => U \in Good) => T \in Good
  PROVE  Good = SUBSET S
<1> DEFINE Bad == (SUBSET S) \ Good
<1> SUFFICES ASSUME Bad # {} PROVE FALSE
  OBVIOUS
<1>1. IsWellFoundedOn(StrictSubsetOrdering(S), SUBSET S)
  <2>1. IsWellFoundedOn(StrictSubsetOrdering(S), FiniteSubsetsOf(S))
    BY FS_StrictSubsetOrderingWellFounded
  <2>2. FiniteSubsetsOf(S) = SUBSET S
    BY FS_FiniteSubsetsOfFinite
  <2> QED
    BY <2>1, <2>2
<1>2. Bad \subseteq SUBSET S
  OBVIOUS
<1> HIDE DEF Bad
<1>3. PICK T \in Bad : \A U \in Bad : <<U, T>> \notin StrictSubsetOrdering(S)
  BY <1>1, <1>2, WFMin
<1> USE DEF Bad
<1>4. ASSUME NEW U \in SUBSET T, U # T PROVE U \in Good
  BY <1>3, <1>4 DEF StrictSubsetOrdering
<1> QED
  BY <1>3, <1>4

(* Induction over an interval.                                              *)
LEMMA IntervalInduction ==
  ASSUME NEW N \in Nat, NEW Good \in SUBSET (0..N), 0 \in Good,
         \A n \in 1..N : n - 1 \in Good => n \in Good
  PROVE  \A n \in 0..N : n \in Good
<1> DEFINE Sets == {T \in SUBSET (0..N) : \A k \in T : 0..k \subseteq T => k \in Good}
<1>1. ASSUME NEW T \in SUBSET (0..N), \A U \in SUBSET T : U # T => U \in Sets
      PROVE  T \in Sets
  <2>1. ASSUME NEW k \in T, 0..k \subseteq T PROVE k \in Good
    <3>1. CASE k = 0
      BY <3>1
    <3>2. CASE k # 0
      <4> DEFINE U == 0..(k - 1)
      <4>1. k \in 1..N /\ k - 1 \in U /\ k \notin U
        BY <3>2
      <4>2. U \subseteq T /\ U # T
        BY <2>1, <4>1
      <4>3. U \in Sets
        BY <1>1, <4>2
      <4>4. k - 1 \in Good
        BY <4>1, <4>3
      <4> QED
        BY <4>1, <4>4
    <3> QED
      BY <3>1, <3>2
  <2> QED
    BY <2>1
<1> HIDE DEF Sets
<1>2. IsFiniteSet(0..N)
  BY FS_Interval
<1>3. Sets \in SUBSET (SUBSET (0..N))
  BY DEF Sets
<1>4. Sets = SUBSET (0..N)
  BY <1>1, <1>2, <1>3, SubsetInduction
<1>5. 0..N \in Sets
  BY <1>4
<1>6. \A k \in 0..N : 0..k \subseteq 0..N
  OBVIOUS
<1> QED
  BY <1>5, <1>6 DEF Sets

-----------------------------------------------------------------------------
(* The recursive definition behind the sum. *)

First(T) == CHOOSE x \in T : TRUE

IsSum(f, S, g) ==
  g = [T \in SUBSET S |-> IF T = {} THEN 0 ELSE f[First(T)] + g[T \ {First(T)}]]

(* A sum over a set picks an element and goes on.                           *)
LEMMA SumIsChosen ==
  ASSUME NEW f, NEW S
  PROVE  SumFunctionOnSet(f, S) = (CHOOSE g : IsSum(f, S, g))[S]
BY DEF SumFunctionOnSet, FoldFunctionOnSet, MapThenFoldSet, IsSum, First

(* The element picked is one of the set.                                    *)
LEMMA FirstIn ==
  ASSUME NEW T, T # {}
  PROVE  First(T) \in T
BY DEF First

(* Any two solutions agree where both are defined.                          *)
LEMMA SumsAgree ==
  ASSUME NEW f, NEW S, NEW R, IsFiniteSet(S), NEW g, NEW h, IsSum(f, S, g), IsSum(f, R, h),
         NEW T \in SUBSET S, T \in SUBSET R
  PROVE  g[T] = h[T]
<1> DEFINE Good == {U \in SUBSET T : g[U] = h[U]}
<1>1. IsFiniteSet(T)
  BY FS_Subset
<1>2. ASSUME NEW U \in SUBSET T, \A V \in SUBSET U : V # U => V \in Good
      PROVE  U \in Good
  <2>1. U \in SUBSET S /\ U \in SUBSET R
    OBVIOUS
  <2>2. /\ g[U] = IF U = {} THEN 0 ELSE f[First(U)] + g[U \ {First(U)}]
        /\ h[U] = IF U = {} THEN 0 ELSE f[First(U)] + h[U \ {First(U)}]
    BY <2>1 DEF IsSum
  <2>3. U # {} => g[U \ {First(U)}] = h[U \ {First(U)}]
    <3>1. U # {} => U \ {First(U)} \in SUBSET U /\ U \ {First(U)} # U
      BY FirstIn
    <3> QED
      BY <1>2, <3>1
  <2> QED
    BY <2>2, <2>3
<1> HIDE DEF Good
<1>3. Good \in SUBSET (SUBSET T)
  BY DEF Good
<1>4. Good = SUBSET T
  BY <1>1, <1>2, <1>3, SubsetInduction
<1> QED
  BY <1>4 DEF Good

(* The definition has a solution on every finite set.                       *)
LEMMA SumExists ==
  ASSUME NEW f, NEW S, IsFiniteSet(S)
  PROVE  \E g : IsSum(f, S, g)
<1> DEFINE Good == {T \in SUBSET S : \E g : IsSum(f, T, g)}
<1>1. ASSUME NEW T \in SUBSET S, \A U \in SUBSET T : U # T => U \in Good
      PROVE  T \in Good
  <2> DEFINE h(U) == CHOOSE g : IsSum(f, U, g)
             G == [U \in SUBSET T |->
                     IF U = {} THEN 0 ELSE f[First(U)] + h(U \ {First(U)})[U \ {First(U)}]]
  <2>1. ASSUME NEW U \in SUBSET T, U # T
        PROVE  IsSum(f, U, h(U))
    BY <1>1, <2>1
  <2>2. ASSUME NEW V \in SUBSET T, V # T
        PROVE  G[V] = h(V)[V]
    <3>1. IsSum(f, V, h(V))
      BY <2>1, <2>2
    <3>2. h(V)[V] = IF V = {} THEN 0 ELSE f[First(V)] + h(V)[V \ {First(V)}]
      BY <3>1 DEF IsSum
    <3>3. ASSUME V # {} PROVE h(V)[V \ {First(V)}] = h(V \ {First(V)})[V \ {First(V)}]
      <4> DEFINE W == V \ {First(V)}
      <4>1. W \in SUBSET V /\ W # V /\ W # T /\ W \in SUBSET T
        BY <2>2, <3>3, FirstIn
      <4>2. IsSum(f, W, h(W)) /\ IsFiniteSet(V)
        BY <2>1, <4>1, FS_Subset
      <4> HIDE DEF W, h
      <4>3. h(V)[W] = h(W)[W]
        BY <3>1, <4>1, <4>2, SumsAgree
      <4> QED
        BY <4>3 DEF W
    <3> HIDE DEF h
    <3> QED
      BY <3>2, <3>3
  <2>3. G = [U \in SUBSET T |-> IF U = {} THEN 0 ELSE f[First(U)] + G[U \ {First(U)}]]
    <3>1. ASSUME NEW U \in SUBSET T, U # {}
          PROVE  U \ {First(U)} \in SUBSET T /\ U \ {First(U)} # T
      BY <3>1, FirstIn
    <3>2. ASSUME NEW U \in SUBSET T, U # {}
          PROVE  G[U \ {First(U)}] = h(U \ {First(U)})[U \ {First(U)}]
      BY <2>2, <3>1, <3>2
    <3> HIDE DEF h
    <3> QED
      BY <3>2
  <2> QED
    BY <2>3 DEF IsSum
<1> HIDE DEF Good
<1>2. Good \in SUBSET (SUBSET S)
  BY DEF Good
<1>3. Good = SUBSET S
  BY <1>1, <1>2, SubsetInduction
<1> QED
  BY <1>3 DEF Good

(* So the sum satisfies its definition.                                     *)
LEMMA SumUnfolds ==
  ASSUME NEW f, NEW S, IsFiniteSet(S)
  PROVE  SumFunctionOnSet(f, S) =
           IF S = {} THEN 0 ELSE f[First(S)] + SumFunctionOnSet(f, S \ {First(S)})
<1> DEFINE g == CHOOSE g : IsSum(f, S, g)
           R == S \ {First(S)}
           h == CHOOSE h : IsSum(f, R, h)
<1>1. IsSum(f, S, g) /\ SumFunctionOnSet(f, S) = g[S]
  BY SumExists, SumIsChosen
<1>2. R \in SUBSET S /\ IsFiniteSet(R)
  BY FS_Subset
<1>3. IsSum(f, R, h) /\ SumFunctionOnSet(f, R) = h[R]
  BY <1>2, SumExists, SumIsChosen
<1> HIDE DEF g, h, R
<1>4. g[R] = h[R]
  BY <1>1, <1>2, <1>3, SumsAgree
<1>5. g[S] = IF S = {} THEN 0 ELSE f[First(S)] + g[R]
  BY <1>1 DEF IsSum, R
<1> QED
  BY <1>1, <1>3, <1>4, <1>5 DEF R

-----------------------------------------------------------------------------
(* What the models' proofs use of it. *)

(* The sum over nothing.                                                    *)
LEMMA SumEmpty ==
  ASSUME NEW f
  PROVE  SumFunctionOnSet(f, {}) = 0
BY SumUnfolds, FS_EmptySet

(* Any element may be taken out first, not only the chosen one.             *)
LEMMA SumTakes ==
  ASSUME NEW f, NEW S, IsFiniteSet(S), \A x \in S : f[x] \in Int
  PROVE  /\ SumFunctionOnSet(f, S) \in Int
         /\ \A x \in S : SumFunctionOnSet(f, S) = f[x] + SumFunctionOnSet(f, S \ {x})
<1> DEFINE Taken(T, x) == SumFunctionOnSet(f, T) = f[x] + SumFunctionOnSet(f, T \ {x})
           Good == {T \in SUBSET S : SumFunctionOnSet(f, T) \in Int /\ \A x \in T : Taken(T, x)}
<1>1. ASSUME NEW T \in SUBSET S, \A U \in SUBSET T : U # T => U \in Good
      PROVE  T \in Good
  <2>1. CASE T = {}
    BY <2>1, SumEmpty
  <2>2. CASE T # {}
    <3> DEFINE y == First(T)
    <3>1. y \in T /\ f[y] \in Int
      BY <2>2, FirstIn
    <3> HIDE DEF y
    <3>2. T \ {y} \in Good
      BY <1>1, <3>1
    <3>3. SumFunctionOnSet(f, T) = f[y] + SumFunctionOnSet(f, T \ {y})
      BY <2>2, SumUnfolds, FS_Subset DEF y
    <3>4. SumFunctionOnSet(f, T) \in Int
      BY <3>1, <3>2, <3>3
    <3>5. ASSUME NEW x \in T, x # y
          PROVE  Taken(T, x)
      <4>1. T \ {x} \in Good /\ x \in T \ {y} /\ y \in T \ {x} /\ f[x] \in Int
        BY <1>1, <3>1, <3>5
      <4>2. (T \ {y}) \ {x} = (T \ {x}) \ {y} /\ (T \ {x}) \ {y} \in Good
        BY <1>1, <3>1, <3>5
      <4>3. SumFunctionOnSet(f, T \ {y}) = f[x] + SumFunctionOnSet(f, (T \ {x}) \ {y})
        BY <3>2, <4>1, <4>2
      <4>4. SumFunctionOnSet(f, T \ {x}) = f[y] + SumFunctionOnSet(f, (T \ {x}) \ {y})
        BY <4>1
      <4>5. SumFunctionOnSet(f, (T \ {x}) \ {y}) \in Int
        BY <4>2
      <4> QED
        BY <3>1, <3>3, <4>1, <4>3, <4>4, <4>5
    <3> QED
      BY <3>3, <3>4, <3>5
  <2> QED
    BY <2>1, <2>2
<1> HIDE DEF Good
<1>2. Good \in SUBSET (SUBSET S)
  BY DEF Good
<1>3. Good = SUBSET S
  BY <1>1, <1>2, SubsetInduction
<1> QED
  BY <1>3 DEF Good

(* One more element adds its number.                                        *)
LEMMA SumAdds ==
  ASSUME NEW f, NEW S, IsFiniteSet(S), \A x \in S : f[x] \in Int,
         NEW y, y \notin S, f[y] \in Int
  PROVE  SumFunctionOnSet(f, S \cup {y}) = f[y] + SumFunctionOnSet(f, S)
<1>1. IsFiniteSet(S \cup {y}) /\ (S \cup {y}) \ {y} = S
  BY FS_AddElement
<1> QED
  BY <1>1, SumTakes

(* It depends on nothing but the values on the set.                         *)
LEMMA SumSame ==
  ASSUME NEW f, NEW g, NEW S, IsFiniteSet(S), \A x \in S : f[x] \in Int /\ g[x] = f[x]
  PROVE  SumFunctionOnSet(g, S) = SumFunctionOnSet(f, S)
<1> DEFINE Good == {T \in SUBSET S : SumFunctionOnSet(g, T) = SumFunctionOnSet(f, T)}
<1>1. ASSUME NEW T \in SUBSET S, \A U \in SUBSET T : U # T => U \in Good
      PROVE  T \in Good
  <2>1. IsFiniteSet(T)
    BY FS_Subset
  <2>2. CASE T = {}
    BY <2>2, SumEmpty
  <2>3. ASSUME NEW x \in T
        PROVE  T \in Good
    <3>1. T \ {x} \in Good
      BY <1>1
    <3>2. /\ SumFunctionOnSet(f, T) = f[x] + SumFunctionOnSet(f, T \ {x})
          /\ SumFunctionOnSet(g, T) = g[x] + SumFunctionOnSet(g, T \ {x})
      BY <2>1, SumTakes
    <3> QED
      BY <3>1, <3>2
  <2> QED
    BY <2>2, <2>3
<1> HIDE DEF Good
<1>2. Good \in SUBSET (SUBSET S)
  BY DEF Good
<1>3. Good = SUBSET S
  BY <1>1, <1>2, SubsetInduction
<1> QED
  BY <1>3 DEF Good

(* A sum of zeros.                                                          *)
LEMMA SumOfZeros ==
  ASSUME NEW f, NEW S, IsFiniteSet(S), \A x \in S : f[x] = 0
  PROVE  SumFunctionOnSet(f, S) = 0
<1> DEFINE Good == {T \in SUBSET S : SumFunctionOnSet(f, T) = 0}
<1>1. ASSUME NEW T \in SUBSET S, \A U \in SUBSET T : U # T => U \in Good
      PROVE  T \in Good
  <2>1. CASE T = {}
    BY <2>1, SumEmpty
  <2>2. ASSUME NEW x \in T
        PROVE  T \in Good
    <3>1. T \ {x} \in Good
      BY <1>1
    <3>2. SumFunctionOnSet(f, T) = f[x] + SumFunctionOnSet(f, T \ {x})
      BY SumTakes, FS_Subset
    <3> QED
      BY <3>1, <3>2
  <2> QED
    BY <2>1, <2>2
<1> HIDE DEF Good
<1>2. Good \in SUBSET (SUBSET S)
  BY DEF Good
<1>3. Good = SUBSET S
  BY <1>1, <1>2, SubsetInduction
<1> QED
  BY <1>3 DEF Good

(* A change at one place changes the sum by as much.                        *)
LEMMA SumMoves ==
  ASSUME NEW f, NEW g, NEW S, IsFiniteSet(S), \A y \in S : f[y] \in Int, NEW x \in S,
         g[x] \in Int, \A y \in S : y # x => g[y] = f[y]
  PROVE  SumFunctionOnSet(g, S) = SumFunctionOnSet(f, S) + (g[x] - f[x])
<1> DEFINE R == S \ {x}
<1>1. IsFiniteSet(R) /\ \A y \in R : f[y] \in Int /\ g[y] = f[y]
  BY FS_Subset
<1>2. SumFunctionOnSet(g, R) = SumFunctionOnSet(f, R) /\ SumFunctionOnSet(f, R) \in Int
  <2> HIDE DEF R
  <2> QED
    BY <1>1, SumSame, SumTakes
<1>3. \A y \in S : g[y] \in Int
  OBVIOUS
<1>4. /\ SumFunctionOnSet(f, S) = f[x] + SumFunctionOnSet(f, R)
      /\ SumFunctionOnSet(g, S) = g[x] + SumFunctionOnSet(g, R)
  BY <1>3, SumTakes
<1>5. f[x] \in Int /\ g[x] \in Int
  OBVIOUS
<1> HIDE DEF R
<1> QED
  BY <1>2, <1>4, <1>5

(* A sum of larger terms is no smaller.                                     *)
LEMMA SumGrows ==
  ASSUME NEW f, NEW g, NEW S, IsFiniteSet(S),
         \A x \in S : f[x] \in Int /\ g[x] \in Int /\ f[x] <= g[x]
  PROVE  SumFunctionOnSet(f, S) <= SumFunctionOnSet(g, S)
<1> DEFINE Good == {T \in SUBSET S : SumFunctionOnSet(f, T) <= SumFunctionOnSet(g, T)}
<1>1. ASSUME NEW T \in SUBSET S, \A U \in SUBSET T : U # T => U \in Good
      PROVE  T \in Good
  <2>1. IsFiniteSet(T)
    BY FS_Subset
  <2>2. CASE T = {}
    BY <2>2, SumEmpty
  <2>3. ASSUME NEW x \in T
        PROVE  T \in Good
    <3> DEFINE R == T \ {x}
    <3>1. SumFunctionOnSet(f, R) <= SumFunctionOnSet(g, R)
      BY <1>1
    <3>2. /\ SumFunctionOnSet(f, T) = f[x] + SumFunctionOnSet(f, R)
          /\ SumFunctionOnSet(g, T) = g[x] + SumFunctionOnSet(g, R)
      BY <2>1, SumTakes
    <3>3. IsFiniteSet(R) /\ (\A y \in R : f[y] \in Int /\ g[y] \in Int)
      BY <2>1, FS_Subset
    <3> HIDE DEF R
    <3>4. SumFunctionOnSet(f, R) \in Int /\ SumFunctionOnSet(g, R) \in Int
      BY <3>3, SumTakes
    <3>5. f[x] \in Int /\ g[x] \in Int /\ f[x] <= g[x]
      OBVIOUS
    <3>6. SumFunctionOnSet(f, T) <= SumFunctionOnSet(g, T)
      BY <3>1, <3>2, <3>4, <3>5
    <3> QED
      BY <3>6
  <2> QED
    BY <2>2, <2>3
<1> HIDE DEF Good
<1>2. Good \in SUBSET (SUBSET S)
  BY DEF Good
<1>3. Good = SUBSET S
  BY <1>1, <1>2, SubsetInduction
<1> QED
  BY <1>3 DEF Good

(* A sum over a part is the sum over the whole of what is zero elsewhere.   *)
LEMMA SumWithin ==
  ASSUME NEW f, NEW h, NEW S, IsFiniteSet(S), NEW P \in SUBSET S,
         \A x \in P : f[x] \in Int /\ h[x] = f[x], \A x \in S \ P : h[x] = 0
  PROVE  SumFunctionOnSet(f, P) = SumFunctionOnSet(h, S)
<1> DEFINE Good == {T \in SUBSET S : SumFunctionOnSet(f, T \cap P) = SumFunctionOnSet(h, T)}
<1>1. ASSUME NEW T \in SUBSET S, \A U \in SUBSET T : U # T => U \in Good
      PROVE  T \in Good
  <2>1. IsFiniteSet(T) /\ IsFiniteSet(T \cap P) /\ \A x \in T : h[x] \in Int
    BY FS_Subset
  <2>2. CASE T = {}
    <3>1. T \cap P = {}
      BY <2>2
    <3> QED
      BY <2>2, <3>1, SumEmpty
  <2>3. ASSUME NEW x \in T
        PROVE  T \in Good
    <3> DEFINE R == T \ {x}
    <3>1. SumFunctionOnSet(f, R \cap P) = SumFunctionOnSet(h, R)
      BY <1>1
    <3>2. SumFunctionOnSet(h, T) = h[x] + SumFunctionOnSet(h, R) /\ SumFunctionOnSet(h, R) \in Int
      BY <2>1, SumTakes, FS_Subset
    <3>3. CASE x \in P
      <4>1. R \cap P = (T \cap P) \ {x} /\ x \in T \cap P /\ \A y \in T \cap P : f[y] \in Int
        BY <3>3
      <4>2. SumFunctionOnSet(f, T \cap P) = f[x] + SumFunctionOnSet(f, (T \cap P) \ {x})
        BY <2>1, <4>1, SumTakes
      <4>3. h[x] = f[x]
        BY <3>3
      <4> HIDE DEF R
      <4>4. SumFunctionOnSet(f, T \cap P) = SumFunctionOnSet(h, T)
        BY <3>1, <3>2, <4>1, <4>2, <4>3
      <4> QED
        BY <4>4
    <3>4. CASE x \notin P
      <4>1. R \cap P = T \cap P /\ h[x] = 0
        BY <3>4
      <4> HIDE DEF R
      <4>2. SumFunctionOnSet(f, T \cap P) = SumFunctionOnSet(h, R)
        BY <3>1, <4>1, Zenon
      <4>3. SumFunctionOnSet(h, T) = 0 + SumFunctionOnSet(h, R)
        BY <3>2, <4>1, Zenon
      <4>4. SumFunctionOnSet(f, T \cap P) = SumFunctionOnSet(h, T)
        BY <3>2, <4>2, <4>3
      <4> QED
        BY <4>4
    <3> QED
      BY <3>3, <3>4
  <2> QED
    BY <2>2, <2>3
<1> HIDE DEF Good
<1>2. Good \in SUBSET (SUBSET S)
  BY DEF Good
<1>3. Good = SUBSET S
  BY <1>1, <1>2, SubsetInduction
<1>4. S \in Good /\ S \cap P = P
  BY <1>3
<1> QED
  BY <1>4 DEF Good

(* A sum of natural numbers is one.                                         *)
LEMMA SumIsNat ==
  ASSUME NEW f, NEW S, IsFiniteSet(S), \A x \in S : f[x] \in Nat
  PROVE  SumFunctionOnSet(f, S) \in Nat
<1> DEFINE z == [x \in S |-> 0]
<1>1. \A x \in S : z[x] = 0 /\ z[x] \in Int /\ f[x] \in Int /\ z[x] <= f[x]
  OBVIOUS
<1> HIDE DEF z
<1>2. SumFunctionOnSet(z, S) = 0 /\ SumFunctionOnSet(z, S) <= SumFunctionOnSet(f, S)
      /\ SumFunctionOnSet(f, S) \in Int
  BY <1>1, SumOfZeros, SumGrows, SumTakes
<1> QED
  BY <1>2

-----------------------------------------------------------------------------
(* Sequences. *)

(* A function on 1..n is a sequence.                                        *)
LEMMA FunctionIsSeq ==
  ASSUME NEW S, NEW n \in Nat, NEW e \in [1..n -> S]
  PROVE  e \in Seq(S) /\ Len(e) = n /\ DOMAIN e = 1..n
BY SeqDef, LenProperties

(* Two lists of writes in a row.                                            *)
LEMMA TwoWrites ==
  ASSUME NEW a, NEW b
  PROVE  <<>> \o <<b>> = <<b>> /\ <<a>> \o <<b>> = <<a, b>>
<1> DEFINE S == {a, b}
<1>1. <<>> \in Seq(S) /\ <<a>> \in Seq(S) /\ <<b>> \in Seq(S) /\ <<a, b>> \in Seq(S)
  OBVIOUS
<1> HIDE DEF S
<1>2. Len(<<a, b>>) = 2 /\ Len(<<a>>) = 1 /\ Len(<<b>>) = 1 /\ Len(<<>>) = 0
  OBVIOUS
<1>3. /\ <<a>> \o <<b>> \in Seq(S) /\ Len(<<a>> \o <<b>>) = 2
      /\ \A i \in 1..2 : (<<a>> \o <<b>>)[i] = IF i <= 1 THEN <<a>>[i] ELSE <<b>>[i - 1]
  BY <1>1, <1>2, ConcatProperties
<1>4. \A i \in 1..2 : (<<a>> \o <<b>>)[i] = <<a, b>>[i]
  BY <1>3
<1>5. <<a>> \o <<b>> = <<a, b>>
  BY <1>1, <1>2, <1>3, <1>4, SeqEqual
<1> QED
  BY <1>1, <1>5, ConcatEmptySeq

-----------------------------------------------------------------------------
(* Finite sets in an order.                                                 *)

\* R is a strict total order of the finite set S.
Ordered(S, R) ==
  /\ IsFiniteSet(S)
  /\ \A x, y \in S : x # y => <<x, y>> \in R \/ <<y, x>> \in R
  /\ \A x, y \in S : <<x, y>> \in R => <<y, x>> \notin R
  /\ \A x, y, z \in S : <<x, y>> \in R /\ <<y, z>> \in R => <<x, z>> \in R

\* The elements before x.
Below(S, R, x) == {q \in S : <<q, x>> \in R}

\* The elements of S in this order.
Ranked(S, R) == [i \in 1..Cardinality(S) |-> CHOOSE r \in S : Cardinality(Below(S, R, r)) = i - 1]

(* A part of it is in the same order, ...                                   *)
LEMMA OrderedPart ==
  ASSUME NEW S, NEW R, Ordered(S, R), NEW T \in SUBSET S
  PROVE  Ordered(T, R)
<1>1. IsFiniteSet(T)
  BY FS_Subset DEF Ordered
<1> QED
  BY <1>1 DEF Ordered

(* ... and has a last element.                                              *)
LEMMA LastExists ==
  ASSUME NEW S, NEW R, Ordered(S, R), S # {}
  PROVE  \E m \in S : \A x \in S : x = m \/ <<x, m>> \in R
<1> DEFINE Good == {T \in SUBSET S : T = {} \/ \E m \in T : \A x \in T : x = m \/ <<x, m>> \in R}
<1>1. ASSUME NEW T \in SUBSET S, \A U \in SUBSET T : U # T => U \in Good
      PROVE  T \in Good
  <2>1. CASE T = {}
    BY <2>1
  <2>2. ASSUME NEW x \in T PROVE T \in Good
    <3>1. T \ {x} \in Good
      BY <1>1
    <3>2. CASE T \ {x} = {}
      BY <3>2
    <3>3. ASSUME NEW m \in T \ {x}, \A y \in T \ {x} : y = m \/ <<y, m>> \in R PROVE T \in Good
      <4>1. CASE <<x, m>> \in R
        BY <3>3, <4>1
      <4>2. CASE <<m, x>> \in R
        <5>1. \A y \in T : y = x \/ <<y, x>> \in R
          BY <3>3, <4>2 DEF Ordered
        <5> QED
          BY <5>1
      <4> QED
        BY <3>3, <4>1, <4>2 DEF Ordered
    <3> QED
      BY <3>1, <3>2, <3>3
  <2> QED
    BY <2>1, <2>2
<1> HIDE DEF Good
<1>2. Good \in SUBSET (SUBSET S) /\ IsFiniteSet(S)
  BY DEF Good, Ordered
<1>3. Good = SUBSET S
  BY <1>1, <1>2, SubsetInduction
<1> QED
  BY <1>3 DEF Good

(* For each number below its size it has an element with that many below.   *)
LEMMA RankIsHit ==
  ASSUME NEW S, NEW R, Ordered(S, R), NEW i \in 1..Cardinality(S)
  PROVE  \E x \in S : Cardinality(Below(S, R, x)) = i - 1
<1> DEFINE Hit(T) == \A k \in 1..Cardinality(T) : \E x \in T : Cardinality(Below(T, R, x)) = k - 1
           Good == {T \in SUBSET S : Hit(T)}
<1>1. ASSUME NEW T \in SUBSET S, \A U \in SUBSET T : U # T => U \in Good
      PROVE  T \in Good
  <2> SUFFICES ASSUME NEW k \in 1..Cardinality(T) PROVE \E x \in T : Cardinality(Below(T, R, x)) = k - 1
    OBVIOUS
  <2>1. Ordered(T, R) /\ IsFiniteSet(T)
    BY OrderedPart DEF Ordered
  <2>2. T # {} /\ Cardinality(T) \in Nat
    BY <2>1, FS_EmptySet, FS_CardinalityType
  <2>3. PICK m \in T : \A x \in T : x = m \/ <<x, m>> \in R
    BY <2>1, <2>2, LastExists
  <2> DEFINE U == T \ {m}
  <2>4. Cardinality(U) = Cardinality(T) - 1 /\ U \in SUBSET T /\ U # T
    BY <2>1, FS_RemoveElement
  <2>5. CASE k = Cardinality(T)
    <3>1. Below(T, R, m) = U
      BY <2>1, <2>3 DEF Below, Ordered
    <3> QED
      BY <2>4, <2>5, <3>1
  <2>6. CASE k # Cardinality(T)
    <3> HIDE DEF U
    <3>1. k \in 1..Cardinality(U)
      BY <2>2, <2>4, <2>6
    <3>2. PICK x \in U : Cardinality(Below(U, R, x)) = k - 1
      <4>1. U \in Good
        BY <1>1, <2>4
      <4> QED
        BY <3>1, <4>1
    <3>3. Below(T, R, x) = Below(U, R, x)
      BY <2>1, <2>3, <3>2 DEF Below, Ordered, U
    <3> QED
      BY <2>4, <3>2, <3>3
  <2> QED
    BY <2>5, <2>6
<1> HIDE DEF Good
<1>2. Good \in SUBSET (SUBSET S) /\ IsFiniteSet(S)
  BY DEF Good, Ordered
<1>3. Good = SUBSET S
  BY <1>1, <1>2, SubsetInduction
<1> QED
  BY <1>3 DEF Good

(* Of two elements the one before has fewer below.                          *)
LEMMA RankIsStrict ==
  ASSUME NEW S, NEW R, Ordered(S, R), NEW x \in S, NEW y \in S, <<x, y>> \in R
  PROVE  /\ Cardinality(Below(S, R, x)) \in Nat /\ Cardinality(Below(S, R, y)) \in Nat
         /\ Cardinality(Below(S, R, x)) < Cardinality(Below(S, R, y))
<1> DEFINE A == Below(S, R, x)
           B == Below(S, R, y)
<1>1. A \in SUBSET B /\ x \in B /\ x \notin A /\ B \in SUBSET S
  BY DEF Below, Ordered
<1>2. IsFiniteSet(B)
  BY <1>1, FS_Subset DEF Ordered
<1>3. IsFiniteSet(A) /\ Cardinality(A) <= Cardinality(B) /\ Cardinality(A) # Cardinality(B)
  BY <1>1, <1>2, FS_Subset
<1> HIDE DEF A, B
<1>4. Cardinality(A) \in Nat /\ Cardinality(B) \in Nat
  BY <1>2, <1>3, FS_CardinalityType
<1> QED
  BY <1>3, <1>4 DEF A, B

(* The elements in their order.                                             *)
LEMMA RankedIs ==
  ASSUME NEW S, NEW R, Ordered(S, R)
  PROVE  /\ Ranked(S, R) \in Seq(S) /\ Len(Ranked(S, R)) = Cardinality(S) /\ Cardinality(S) \in Nat
         /\ DOMAIN Ranked(S, R) = 1..Cardinality(S)
         /\ \A x \in S : \E i \in 1..Cardinality(S) : Ranked(S, R)[i] = x
         /\ \A i \in 1..Cardinality(S) : Ranked(S, R)[i] \in S
         /\ \A i, j \in 1..Cardinality(S) : i < j => <<Ranked(S, R)[i], Ranked(S, R)[j]>> \in R
<1> DEFINE N == Cardinality(S)
           s == Ranked(S, R)
<1>1. N \in Nat /\ IsFiniteSet(S)
  BY FS_CardinalityType DEF Ordered
<1>2. ASSUME NEW i \in 1..N PROVE s[i] \in S /\ Cardinality(Below(S, R, s[i])) = i - 1
  <2>1. \E x \in S : Cardinality(Below(S, R, x)) = i - 1
    BY RankIsHit
  <2> QED
    BY <2>1 DEF Ranked
<1>3. DOMAIN s = 1..N /\ s = [i \in 1..N |-> s[i]]
  BY DEF Ranked
<1> HIDE DEF N, s
<1>4. s \in Seq(S) /\ Len(s) = N
  BY <1>1, <1>2, <1>3, LenProperties
<1>5. ASSUME NEW i \in 1..N, NEW j \in 1..N, i < j PROVE <<s[i], s[j]>> \in R
  <2>1. i - 1 # j - 1 /\ i - 1 < j - 1
    BY <1>1, <1>5
  <2>2. s[i] # s[j]
    BY <1>2, <2>1
  <2>3. <<s[j], s[i]>> \notin R
    <3>1. ASSUME <<s[j], s[i]>> \in R PROVE j - 1 < i - 1
      BY <1>2, <3>1, RankIsStrict
    <3> QED
      BY <1>1, <1>5, <3>1
  <2> QED
    BY <1>2, <2>2, <2>3 DEF Ordered
<1>6. ASSUME NEW x \in S PROVE \E i \in 1..N : s[i] = x
  <2> DEFINE A == Below(S, R, x)
  <2>1. A \in SUBSET S /\ x \notin A
    BY DEF Below, Ordered
  <2>2. IsFiniteSet(A) /\ Cardinality(A) \in Nat /\ Cardinality(A) <= N /\ Cardinality(A) # N
    BY <1>1, <2>1, FS_Subset, FS_CardinalityType DEF N
  <2> DEFINE i == Cardinality(A) + 1
  <2>3. i \in 1..N /\ i - 1 = Cardinality(A)
    BY <1>1, <2>2
  <2> HIDE DEF i
  <2>4. s[i] \in S /\ Cardinality(Below(S, R, s[i])) = Cardinality(Below(S, R, x))
    BY <1>2, <2>3
  <2>5. <<s[i], x>> \notin R
    <3>1. ASSUME <<s[i], x>> \in R PROVE FALSE
      BY <2>4, <3>1, RankIsStrict
    <3> QED BY <3>1
  <2>6. <<x, s[i]>> \notin R
    <3>1. ASSUME <<x, s[i]>> \in R PROVE FALSE
      BY <2>4, <3>1, RankIsStrict
    <3> QED BY <3>1
  <2> QED
    BY <2>3, <2>4, <2>5, <2>6 DEF Ordered
<1> QED
  BY <1>1, <1>2, <1>3, <1>4, <1>5, <1>6 DEF N, s

-----------------------------------------------------------------------------
(* Finitely many numbers. *)

\* Numbers in their order.
Smaller == {p \in Nat \X Nat : p[1] < p[2]}

(* Finitely many numbers are in order, ...                                  *)
LEMMA NumbersOrdered ==
  ASSUME NEW T, IsFiniteSet(T), T \subseteq Nat
  PROVE  Ordered(T, Smaller)
<1>1. \A x, y \in T : x \in Nat /\ y \in Nat /\ (<<x, y>> \in Smaller <=> x < y)
  BY DEF Smaller
<1> QED
  BY <1>1 DEF Ordered

(* ... each number up to theirs is the rank of one, ...                     *)
LEMMA NumberOfRank ==
  ASSUME NEW T, IsFiniteSet(T), T \subseteq Nat, NEW k \in 1..Cardinality(T)
  PROVE  \E d \in T : Cardinality({e \in T : e <= d}) = k
<1>1. PICK d \in T : Cardinality(Below(T, Smaller, d)) = k - 1
  BY NumbersOrdered, RankIsHit
<1> DEFINE A == Below(T, Smaller, d)
<1>2. \A x \in T : x \in Nat /\ (x <= d <=> x < d \/ x = d) /\ (<<x, d>> \in Smaller <=> x < d)
  BY DEF Smaller
<1>3. A \subseteq T /\ d \notin A /\ {e \in T : e <= d} = A \cup {d}
  <2>1. A = {x \in T : x < d}
    BY <1>2 DEF Below
  <2> HIDE DEF A
  <2>2. d \in Nat /\ d \notin A /\ A \subseteq T
    BY <1>2, <2>1
  <2>3. ASSUME NEW x PROVE x \in {e \in T : e <= d} <=> x \in A \cup {d}
    BY <1>2, <2>1
  <2> QED
    BY <2>2, <2>3
<1>4. IsFiniteSet(A)
  BY <1>3, FS_Subset
<1> HIDE DEF A
<1>5. Cardinality(A \cup {d}) = Cardinality(A) + 1
  BY <1>3, <1>4, FS_AddElement
<1>6. k \in Nat /\ Cardinality(A) = k - 1
  <2>1. Cardinality(T) \in Nat
    BY FS_CardinalityType
  <2> QED
    BY <1>1, <2>1 DEF A
<1> QED
  BY <1>3, <1>5, <1>6

(* ... and one that follows another by h ranks comes before what more than  *)
(* h others precede.                                                        *)
LEMMA RankedBefore ==
  ASSUME NEW T, IsFiniteSet(T), T \subseteq Nat, NEW h \in Nat,
         NEW D \in SUBSET T, Cardinality(D) > h,
         NEW r \in T, NEW t \in T, \A d \in D : r <= d /\ d < t,
         NEW e \in T, Cardinality({b \in T : b <= e}) = Cardinality({b \in T : b <= r}) + h
  PROVE  e < t
<1> SUFFICES ASSUME t <= e PROVE FALSE
  OBVIOUS
<1> DEFINE A == {b \in T : b <= r}
           E == {b \in T : b <= e}
<1>1. IsFiniteSet(A) /\ IsFiniteSet(E) /\ IsFiniteSet(D)
  BY FS_Subset
<1>2. Cardinality(A) \in Nat /\ Cardinality(E) \in Nat /\ Cardinality(D) \in Nat
  BY <1>1, FS_CardinalityType
<1>3. D # {}
  BY <1>1, <1>2, FS_EmptySet
<1>4. r < t /\ A \cap D \subseteq {r} /\ t \notin A \cup D /\ (A \cup D) \cup {t} \subseteq E
  <2>1. r \in Nat /\ t \in Nat /\ e \in Nat /\ \A x \in T : x \in Nat
    OBVIOUS
  <2>2. r < t
    <3>1. PICK d \in D : r <= d /\ d < t
      BY <1>3
    <3> QED
      BY <2>1, <3>1
  <2>3. ASSUME NEW x \in A \cap D PROVE x = r
    BY <2>1
  <2>4. t \notin A \cup D
    BY <2>1, <2>2
  <2>5. ASSUME NEW x \in (A \cup D) \cup {t} PROVE x \in E
    BY <2>1, <2>2
  <2> HIDE DEF A, E
  <2> QED
    BY <2>2, <2>3, <2>4, <2>5
<1>5. E \in SUBSET T /\ Cardinality(E) = Cardinality(A) + h
  OBVIOUS
<1> HIDE DEF A, E
<1>6. /\ IsFiniteSet(A \cup D) /\ Cardinality(A \cup D) = Cardinality(A) + Cardinality(D) - Cardinality(A \cap D)
  BY <1>1, FS_Union
<1>7. Cardinality(A \cap D) \in Nat /\ Cardinality(A \cap D) <= 1
  <2>1. IsFiniteSet({r}) /\ Cardinality({r}) = 1
    BY FS_Singleton
  <2>2. A \cap D \in SUBSET {r}
    BY <1>4
  <2> HIDE <1>4
  <2> QED
    BY <2>1, <2>2, FS_Subset, FS_CardinalityType
<1>8. Cardinality((A \cup D) \cup {t}) = Cardinality(A \cup D) + 1
  BY <1>4, <1>6, FS_AddElement
<1>9. Cardinality((A \cup D) \cup {t}) <= Cardinality(E)
  BY <1>1, <1>4, FS_Subset
<1> QED
  BY <1>2, <1>5, <1>6, <1>7, <1>8, <1>9

\* The last of a set of numbers.
Latest(T) == CHOOSE n \in T : \A m \in T : n >= m

\* A finite set of numbers.
Numbers(T) == IsFiniteSet(T) /\ T \subseteq Int

(* A part of it is one, ...                                                 *)
LEMMA NumbersPart ==
  ASSUME NEW T, Numbers(T), NEW U \in SUBSET T
  PROVE  Numbers(U)
BY FS_Subset DEF Numbers

(* ... and has a latest.                                                    *)
LEMMA LatestIn ==
  ASSUME NEW T, T # {}, Numbers(T)
  PROVE  Latest(T) \in T
<1> USE DEF Numbers
<1> DEFINE Good == {U \in SUBSET T : U = {} \/ \E n \in U : \A m \in U : n >= m}
<1>1. ASSUME NEW U \in SUBSET T, \A V \in SUBSET U : V # U => V \in Good
      PROVE  U \in Good
  <2>1. ASSUME NEW x \in U PROVE U \in Good
    <3>1. U \ {x} \in Good
      BY <1>1
    <3>2. CASE U \ {x} = {}
      <4>1. \A m \in U : x >= m
        BY <3>2
      <4> QED
        BY <4>1
    <3>3. ASSUME NEW n \in U \ {x}, \A m \in U \ {x} : n >= m PROVE U \in Good
      <4>1. CASE n >= x
        <5>1. \A m \in U : n >= m
          BY <3>3, <4>1
        <5> QED
          BY <5>1
      <4>2. CASE ~(n >= x)
        <5>1. ASSUME NEW m \in U PROVE x >= m
          <6>1. n \in Int /\ x \in Int /\ m \in Int
            OBVIOUS
          <6>2. m = x \/ n >= m
            BY <3>3
          <6> QED
            BY <4>2, <6>1, <6>2
        <5> QED
          BY <5>1
      <4> QED
        BY <4>1, <4>2
    <3> QED
      BY <3>1, <3>2, <3>3
  <2> QED
    BY <2>1
<1> HIDE DEF Good
<1>2. Good \in SUBSET (SUBSET T)
  BY DEF Good
<1>3. Good = SUBSET T
  BY <1>1, <1>2, SubsetInduction
<1> QED
  BY <1>3 DEF Good, Latest

(* The latest of the first n is n.                                          *)
LEMMA LatestOfFirst ==
  ASSUME NEW n \in Nat, n # 0
  PROVE  Latest(1..n) = n /\ (1..n) \ {n} = 1..(n - 1)
<1>1. n \in 1..n /\ \A m \in 1..n : n >= m
  OBVIOUS
<1>2. \A x \in 1..n : (\A m \in 1..n : x >= m) => x = n
  OBVIOUS
<1> QED
  BY <1>1, <1>2 DEF Latest

(* A product of more is more.                                               *)
LEMMA ProductGrows ==
  ASSUME NEW a \in Nat, NEW b \in Nat, NEW c \in Nat, a <= b
  PROVE  a * c <= b * c
<1> DEFINE d == b - a
<1>1. d \in Nat /\ b = a + d
  OBVIOUS
<1> HIDE DEF d
<1>2. b * c = a * c + d * c /\ d * c \in Nat /\ a * c \in Nat
  BY <1>1
<1> HIDE <1>1
<1> QED
  BY <1>2

=============================================================================
