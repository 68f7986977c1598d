-------------------------- MODULE ComponentLemmas --------------------------
(***************************************************************************)
(* Facts about the operators the state machines are built from: sequences, *)
(* finite sets and sums, the operations of the order book, each of which   *)
(* preserves BookInv, and the tests of the risk checker.                   *)
(***************************************************************************)
EXTENDS OrderBook, RiskChecker, SequenceTheorems, FunctionTheorems,
        FiniteSetTheorems, WellFoundedInduction, TLAPS

-----------------------------------------------------------------------------
(***************************************************************************)
(* Sequences, finite sets and sums.                                        *)
(***************************************************************************)

\* A sequence without its element i: what is before i stays, the rest moves up.
LEMMA RemoveAtProperties ==
  ASSUME NEW S, NEW s \in Seq(S), NEW i \in 1..Len(s)
  PROVE  /\ RemoveAt(s, i) \in Seq(S)
         /\ Len(RemoveAt(s, i)) = Len(s) - 1
         /\ \A j \in 1..Len(s) - 1 :
               RemoveAt(s, i)[j] = IF j < i THEN s[j] ELSE s[j + 1]
<1> DEFINE u == SubSeq(s, 1, i - 1)
           v == SubSeq(s, i + 1, Len(s))
<1>1. Len(s) \in Nat /\ \A j \in 1..Len(s) : s[j] \in S
  BY LenProperties, ElementOfSeq
<1>2. /\ u \in Seq(S)
      /\ Len(u) = i - 1
      /\ \A j \in 1..i - 1 : u[j] = s[j]
  BY <1>1, SubSeqProperties
<1>3. /\ v \in Seq(S)
      /\ Len(v) = Len(s) - i
      /\ \A j \in 1..Len(s) - i : v[j] = s[i + j]
  BY <1>1, SubSeqProperties
<1>4. /\ u \o v \in Seq(S)
      /\ Len(u \o v) = Len(u) + Len(v)
      /\ \A j \in 1..Len(u) + Len(v) :
            (u \o v)[j] = IF j =< Len(u) THEN u[j] ELSE v[j - Len(u)]
  <2> HIDE DEF u, v
  <2> QED BY Zenon, <1>2, <1>3, ConcatProperties
<1>5. RemoveAt(s, i) = u \o v
  BY DEF RemoveAt
<1> HIDE DEF u, v
<1>6. ASSUME NEW j \in 1..Len(s) - 1
      PROVE  (u \o v)[j] = IF j < i THEN s[j] ELSE s[j + 1]
  <2>1. CASE j < i
    BY <2>1, <1>1, <1>2, <1>3, <1>4
  <2>2. CASE ~(j < i)
    <3>1. (u \o v)[j] = v[j - (i - 1)]
      BY <2>2, <1>1, <1>2, <1>3, <1>4
    <3>2. v[j - (i - 1)] = s[i + (j - (i - 1))]
      BY <2>2, <1>1, <1>3
    <3>3. i + (j - (i - 1)) = j + 1
      BY <1>1
    <3> QED BY <2>2, <3>1, <3>2, <3>3
  <2> QED BY Zenon, <2>1, <2>2
<1> QED
  BY <1>1, <1>2, <1>3, <1>4, <1>5, <1>6
\* The key of map::begin() of an ascending map: a set of naturals that is not
\* empty has a least element.
LEMMA NatHasMin ==
  ASSUME NEW T \in SUBSET Nat, T # {}
  PROVE  \E x \in T : \A y \in T : x =< y
<1> DEFINE R == {ss \in Nat \X Nat : ss[1] < ss[2]}
<1>1. IsWellFoundedOn(R, Nat)
  <2>1. R = OpToRel(<, Nat)
    BY DEF OpToRel
  <2> QED BY Zenon, <2>1, NatLessThanWellFounded
<1> HIDE DEF R
<1>2. PICK x \in T : \A y \in T : ~ (<< y, x >> \in R)
  BY Zenon, <1>1, WFMin
<1>3. \A y, z \in Nat : y < z => << y, z >> \in R
  BY DEF R
<1>4. ASSUME NEW y \in T
      PROVE  x =< y
  <2>1. x \in Nat /\ y \in Nat /\ ~(y < x)
    BY Zenon, <1>2, <1>3
  <2> QED BY <2>1
<1> QED
  BY <1>4

-----------------------------------------------------------------------------
(***************************************************************************)
(* Sums over finite sets.                                                  *)
(***************************************************************************)

\* Induction over the subsets of a finite set: G is the set of those for which
\* the claim holds.
LEMMA SubsetInduction ==
  ASSUME NEW S, IsFiniteSet(S), NEW G,
         \A T \in SUBSET S : (\A U \in SUBSET T : U # T => U \in G) => T \in G
  PROVE  S \in G
<1> DEFINE Bad == {n \in Nat : \E T \in SUBSET S : Cardinality(T) = n /\ T \notin G}
<1> SUFFICES ASSUME S \notin G
             PROVE  FALSE
  OBVIOUS
<1>1. \A T \in SUBSET S : IsFiniteSet(T) /\ Cardinality(T) \in Nat
  BY Zenon, FS_Subset, FS_CardinalityType
<1>2. Bad # {}
  BY <1>1
<1>3. PICK n \in Bad : \A m \in Bad : n =< m
  BY Zenon, <1>2, NatHasMin
<1>4. PICK T \in SUBSET S : Cardinality(T) = n /\ T \notin G
  OBVIOUS
<1>5. PICK U \in SUBSET T : U # T /\ U \notin G
  BY <1>4
<1>6. Cardinality(U) =< Cardinality(T) /\ Cardinality(U) # Cardinality(T)
  BY <1>1, <1>5, FS_Subset
<1>7. U \in SUBSET S /\ Cardinality(U) \in Bad
  BY <1>1, <1>5
<1> QED
  BY <1>1, <1>3, <1>4, <1>6, <1>7

\* g is the function on the subsets of S by which a sum over S is computed.
IsIter(f, S, g) ==
    g = [T \in SUBSET S |->
            IF T = {} THEN 0
            ELSE f[CHOOSE x \in T : TRUE] + g[T \ {CHOOSE x \in T : TRUE}]]

\* There is at most one.
LEMMA IterUnique ==
  ASSUME NEW f, NEW S, IsFiniteSet(S), NEW g, IsIter(f, S, g), NEW h, IsIter(f, S, h)
  PROVE  g = h
<1> DEFINE c(T) == CHOOSE x \in T : TRUE
           G == {T \in SUBSET S : \A U \in SUBSET T : g[U] = h[U]}
<1>1. \A T \in SUBSET S :
         /\ g[T] = IF T = {} THEN 0 ELSE f[c(T)] + g[T \ {c(T)}]
         /\ h[T] = IF T = {} THEN 0 ELSE f[c(T)] + h[T \ {c(T)}]
  BY DEF IsIter
<1>2. \A T \in SUBSET S : T # {} => c(T) \in T
  OBVIOUS
<1> HIDE DEF c
<1>3. ASSUME NEW T \in SUBSET S, \A U \in SUBSET T : U # T => U \in G
      PROVE  T \in G
  <2>1. \A U \in SUBSET T : U # T => g[U] = h[U]
    BY <1>3
  <2>2. T # {} => T \ {c(T)} \in SUBSET T /\ T \ {c(T)} # T
    BY <1>2
  <2>3. g[T] = h[T]
    BY Zenon, <1>1, <2>1, <2>2
  <2> QED BY <2>1, <2>3
<1>4. S \in G
  <2> HIDE DEF G
  <2> QED BY <1>3, SubsetInduction
<1>5. DOMAIN g = SUBSET S /\ DOMAIN h = SUBSET S
      /\ g = [T \in SUBSET S |-> g[T]] /\ h = [T \in SUBSET S |-> h[T]]
  BY DEF IsIter
<1> QED
  BY <1>4, <1>5

\* What computes the sum over S computes those over its subsets.
LEMMA IterRestricts ==
  ASSUME NEW f, NEW S, NEW g, IsIter(f, S, g), NEW T \in SUBSET S
  PROVE  IsIter(f, T, [U \in SUBSET T |-> g[U]])
<1> DEFINE c(U) == CHOOSE x \in U : TRUE
           r == [U \in SUBSET T |-> g[U]]
<1>1. \A U \in SUBSET S : g[U] = IF U = {} THEN 0 ELSE f[c(U)] + g[U \ {c(U)}]
  BY DEF IsIter
<1>2. \A U \in SUBSET T : U \in SUBSET S /\ U \ {c(U)} \in SUBSET T
  OBVIOUS
<1> SUFFICES r = [U \in SUBSET T |-> IF U = {} THEN 0 ELSE f[c(U)] + r[U \ {c(U)}]]
  BY DEF IsIter
<1> HIDE DEF c
<1> QED
  BY <1>1, <1>2

\* There is one for every finite set.
LEMMA IterExists ==
  ASSUME NEW f, NEW S, IsFiniteSet(S)
  PROVE  \E g : IsIter(f, S, g)
<1> DEFINE c(T) == CHOOSE x \in T : TRUE
           Iter(T) == CHOOSE g : IsIter(f, T, g)
           G == {T \in SUBSET S : \E g : IsIter(f, T, g)}
<1>1. \A T \in SUBSET S : IsFiniteSet(T)
  BY FS_Subset
<1>2. \A T \in G : IsIter(f, T, Iter(T))
  OBVIOUS
<1>3. ASSUME NEW T \in G, NEW U \in SUBSET T
      PROVE  Iter(T)[U] = Iter(U)[U]
  <2>1. IsIter(f, U, [V \in SUBSET U |-> Iter(T)[V]])
    BY Zenon, <1>2, IterRestricts
  <2>2. IsIter(f, U, Iter(U))
    BY <2>1
  <2>3. [V \in SUBSET U |-> Iter(T)[V]] = Iter(U)
    <3> HIDE DEF Iter
    <3> QED BY Zenon, <1>1, <2>1, <2>2, IterUnique
  <2> QED BY Zenon, <2>3
<1>4. \A T \in SUBSET S : T # {} => c(T) \in T
  OBVIOUS
<1> HIDE DEF c, Iter
<1>5. ASSUME NEW T \in SUBSET S, \A U \in SUBSET T : U # T => U \in G
      PROVE  T \in G
  <2> DEFINE g == [U \in SUBSET T |->
                     IF U = {} THEN 0 ELSE f[c(U)] + Iter(U \ {c(U)})[U \ {c(U)}]]
  <2>1. \A U \in SUBSET T : U # {} =>
           /\ U \ {c(U)} \in SUBSET T /\ U \ {c(U)} # T /\ U \ {c(U)} \in G
    BY <1>4, <1>5
  <2>2. ASSUME NEW U \in SUBSET T, U # T
        PROVE  g[U] = Iter(U)[U]
    <3>1. U \in G /\ IsIter(f, U, Iter(U))
      BY <1>2, <1>5, <2>2
    <3>2. Iter(U)[U] = IF U = {} THEN 0 ELSE f[c(U)] + Iter(U)[U \ {c(U)}]
      BY <3>1 DEF IsIter, c
    <3>3. Iter(U)[U \ {c(U)}] = Iter(U \ {c(U)})[U \ {c(U)}]
      BY <1>3, <3>1
    <3> QED BY <3>2, <3>3
  <2>3. g = [U \in SUBSET T |-> IF U = {} THEN 0 ELSE f[c(U)] + g[U \ {c(U)}]]
    <3>1. \A U \in SUBSET T : U # {} =>
             g[U \ {c(U)}] = Iter(U \ {c(U)})[U \ {c(U)}]
      BY Zenon, <2>1, <2>2
    <3> QED BY Zenon, <3>1
  <2> QED
    BY Zenon, <2>3 DEF IsIter, c
<1>6. S \in G
  <2> HIDE DEF G
  <2> QED BY <1>5, SubsetInduction
<1> QED
  BY <1>6

\* The sum over a finite set is computed by such a function.
LEMMA SumIter ==
  ASSUME NEW f, NEW S, IsFiniteSet(S)
  PROVE  \E g : IsIter(f, S, g) /\ \A T \in SUBSET S : SumOver(f, T) = g[T]
<1> DEFINE Iter(T) == CHOOSE g : IsIter(f, T, g)
<1>1. \A T \in SUBSET S : IsFiniteSet(T)
  BY FS_Subset
<1>2. ASSUME NEW T \in SUBSET S
      PROVE  IsIter(f, T, Iter(T)) /\ SumOver(f, T) = Iter(T)[T]
  <2>1. SumOver(f, T) = Iter(T)[T]
    BY DEF SumOver, MapThenSumSet, MapThenFoldSet, IsIter
  <2> QED BY <1>1, <2>1, IterExists
<1> HIDE DEF Iter
<1>3. ASSUME NEW T \in SUBSET S
      PROVE  Iter(S)[T] = Iter(T)[T]
  <2>1. IsIter(f, T, [U \in SUBSET T |-> Iter(S)[U]])
    BY Zenon, <1>2, IterRestricts
  <2>2. [U \in SUBSET T |-> Iter(S)[U]] = Iter(T)
    BY Zenon, <1>1, <1>2, <2>1, IterUnique
  <2> QED BY <2>2
<1> QED
  BY <1>2, <1>3

\* The sum over the empty set, and a first element of another.
LEMMA SumUnfolds ==
  ASSUME NEW f, NEW S, IsFiniteSet(S)
  PROVE  /\ SumOver(f, {}) = 0
         /\ S # {} => \E x \in S : SumOver(f, S) = f[x] + SumOver(f, S \ {x})
<1> DEFINE c == CHOOSE x \in S : TRUE
<1>1. PICK g : IsIter(f, S, g) /\ \A T \in SUBSET S : SumOver(f, T) = g[T]
  BY SumIter
<1>2. g[{}] = 0 /\ (S # {} => g[S] = f[c] + g[S \ {c}])
  BY <1>1 DEF IsIter
<1>3. S # {} => c \in S
  OBVIOUS
<1> HIDE DEF c
<1> QED
  BY Zenon, <1>1, <1>2, <1>3

\* A sum of integers is an integer, and one of naturals is a natural.
LEMMA SumType ==
  ASSUME NEW f, NEW S, IsFiniteSet(S), NEW N \in {Nat, Int}, \A x \in S : f[x] \in N
  PROVE  SumOver(f, S) \in N
<1> DEFINE G == {T \in SUBSET S : SumOver(f, T) \in N}
<1>1. ASSUME NEW T \in SUBSET S, \A U \in SUBSET T : U # T => U \in G
      PROVE  T \in G
  <2>1. IsFiniteSet(T)
    BY FS_Subset
  <2>2. CASE T = {}
    BY <2>1, <2>2, SumUnfolds
  <2>3. CASE T # {}
    <3>1. PICK x \in T : SumOver(f, T) = f[x] + SumOver(f, T \ {x})
      BY <2>1, <2>3, SumUnfolds
    <3>2. SumOver(f, T \ {x}) \in N /\ f[x] \in N
      BY <1>1
    <3> QED BY <3>1, <3>2
  <2> QED BY <2>2, <2>3
<1>2. S \in G
  <2> HIDE DEF G
  <2> QED BY <1>1, SubsetInduction
<1> QED
  BY <1>2

\* Any element may come first.
LEMMA SumRemove ==
  ASSUME NEW f, NEW S, IsFiniteSet(S), \A x \in S : f[x] \in Int, NEW e \in S
  PROVE  SumOver(f, S) = f[e] + SumOver(f, S \ {e})
<1> DEFINE G == {T \in SUBSET S : \A y \in T : SumOver(f, T) = f[y] + SumOver(f, T \ {y})}
<1>1. \A T \in SUBSET S : IsFiniteSet(T)
  BY FS_Subset
<1>2. \A T \in SUBSET S : SumOver(f, T) \in Int
  BY <1>1, SumType
<1>3. ASSUME NEW T \in SUBSET S, \A U \in SUBSET T : U # T => U \in G
      PROVE  T \in G
  <2> SUFFICES ASSUME NEW y \in T
               PROVE  SumOver(f, T) = f[y] + SumOver(f, T \ {y})
    OBVIOUS
  <2>1. PICK x \in T : SumOver(f, T) = f[x] + SumOver(f, T \ {x})
    BY <1>1, SumUnfolds
  <2>2. CASE x # y
    <3>1. T \ {x} \in G /\ T \ {y} \in G
      BY <1>3
    <3>2. SumOver(f, T \ {x}) = f[y] + SumOver(f, (T \ {x}) \ {y})
      BY <2>2, <3>1
    <3>3. SumOver(f, T \ {y}) = f[x] + SumOver(f, (T \ {y}) \ {x})
      BY <2>2, <3>1
    <3>4. (T \ {x}) \ {y} = (T \ {y}) \ {x}
      OBVIOUS
    <3>5. SumOver(f, (T \ {x}) \ {y}) \in Int /\ f[x] \in Int /\ f[y] \in Int
      BY <1>2
    <3> DEFINE rest == SumOver(f, (T \ {x}) \ {y})
    <3>6. SumOver(f, T) = f[x] + (f[y] + rest) /\ SumOver(f, T \ {y}) = f[x] + rest
      BY <2>1, <3>2, <3>3, <3>4, Zenon
    <3>7. rest \in Int
      BY <3>5
    <3> HIDE DEF rest
    <3> QED BY <3>5, <3>6, <3>7
  <2> QED BY <2>1, <2>2
<1>4. S \in G
  <2> HIDE DEF G
  <2> QED BY <1>3, SubsetInduction
<1> QED
  BY <1>4

\* An element more.
LEMMA SumAdd ==
  ASSUME NEW f, NEW S, IsFiniteSet(S), NEW e, e \notin S, f[e] \in Int,
         \A x \in S : f[x] \in Int
  PROVE  SumOver(f, S \cup {e}) = f[e] + SumOver(f, S)
<1>1. IsFiniteSet(S \cup {e}) /\ (S \cup {e}) \ {e} = S
  BY FS_AddElement
<1> QED
  BY <1>1, SumRemove

\* Only the values on the set matter.
LEMMA SumSame ==
  ASSUME NEW f, NEW g, NEW S, IsFiniteSet(S), \A x \in S : f[x] \in Int,
         \A x \in S : f[x] = g[x]
  PROVE  SumOver(f, S) = SumOver(g, S)
<1> DEFINE G == {T \in SUBSET S : SumOver(f, T) = SumOver(g, T)}
<1>1. ASSUME NEW T \in SUBSET S, \A U \in SUBSET T : U # T => U \in G
      PROVE  T \in G
  <2>1. IsFiniteSet(T)
    BY FS_Subset
  <2>2. CASE T = {}
    BY <2>1, <2>2, SumUnfolds
  <2>3. CASE T # {}
    <3>1. PICK x \in T : TRUE
      BY <2>3
    <3>2. SumOver(f, T) = f[x] + SumOver(f, T \ {x})
      BY <2>1, SumRemove
    <3>3. SumOver(g, T) = g[x] + SumOver(g, T \ {x})
      BY <2>1, SumRemove
    <3>4. SumOver(f, T \ {x}) = SumOver(g, T \ {x})
      BY <1>1
    <3> QED BY <3>2, <3>3, <3>4
  <2> QED BY <2>2, <2>3
<1>2. S \in G
  <2> HIDE DEF G
  <2> QED BY <1>1, SubsetInduction
<1> QED
  BY <1>2

\* One value is changed.
LEMMA SumChange ==
  ASSUME NEW f, NEW g, NEW S, IsFiniteSet(S), NEW e \in S, \A x \in S : f[x] \in Int,
         g[e] \in Int, \A x \in S \ {e} : g[x] = f[x]
  PROVE  SumOver(g, S) = SumOver(f, S) + (g[e] - f[e])
<1>1. IsFiniteSet(S \ {e})
  BY FS_RemoveElement
<1>2. SumOver(f, S) = f[e] + SumOver(f, S \ {e})
  BY SumRemove
<1>3. SumOver(g, S) = g[e] + SumOver(g, S \ {e})
  BY SumRemove
<1>4. SumOver(f, S \ {e}) = SumOver(g, S \ {e}) /\ SumOver(f, S \ {e}) \in Int
  BY <1>1, SumSame, SumType
<1> QED
  BY <1>2, <1>3, <1>4

\* All values are zero.
LEMMA SumZero ==
  ASSUME NEW f, NEW S, IsFiniteSet(S), \A x \in S : f[x] = 0
  PROVE  SumOver(f, S) = 0
<1> DEFINE G == {T \in SUBSET S : SumOver(f, T) = 0}
<1>1. ASSUME NEW T \in SUBSET S, \A U \in SUBSET T : U # T => U \in G
      PROVE  T \in G
  <2>1. IsFiniteSet(T)
    BY FS_Subset
  <2>2. CASE T = {}
    BY <2>1, <2>2, SumUnfolds
  <2>3. CASE T # {}
    <3>1. PICK x \in T : SumOver(f, T) = f[x] + SumOver(f, T \ {x})
      BY <2>1, <2>3, SumUnfolds
    <3> QED BY <1>1, <3>1
  <2> QED BY <2>2, <2>3
<1>2. S \in G
  <2> HIDE DEF G
  <2> QED BY <1>1, SubsetInduction
<1> QED
  BY <1>2

\* The sum over two sets that have no element in common.
LEMMA SumUnion ==
  ASSUME NEW f, NEW S, NEW T, IsFiniteSet(S), IsFiniteSet(T), S \cap T = {},
         \A x \in S \cup T : f[x] \in Int
  PROVE  SumOver(f, S \cup T) = SumOver(f, S) + SumOver(f, T)
<1> DEFINE G == {U \in SUBSET S : SumOver(f, U \cup T) = SumOver(f, U) + SumOver(f, T)}
<1>0. SumOver(f, T) \in Int
  BY SumType
<1>1. ASSUME NEW U \in SUBSET S, \A V \in SUBSET U : V # U => V \in G
      PROVE  U \in G
  <2>1. IsFiniteSet(U) /\ IsFiniteSet(U \cup T)
    BY Zenon, FS_Subset, FS_Union
  <2>2. CASE U = {}
    <3>1. U \cup T = T /\ SumOver(f, U) = 0
      BY <2>1, <2>2, SumUnfolds
    <3>2. 0 + SumOver(f, T) = SumOver(f, T)
      BY <1>0
    <3>3. SumOver(f, U \cup T) = SumOver(f, U) + SumOver(f, T)
      BY <3>1, <3>2, Zenon
    <3> QED BY <3>3
  <2>3. CASE U # {}
    <3>1. PICK x \in U : TRUE
      BY <2>3
    <3> DEFINE a == SumOver(f, U \ {x})
    <3>2. SumOver(f, U) = f[x] + a /\ a \in Int
      <4>1. IsFiniteSet(U \ {x}) /\ \A y \in U : f[y] \in Int
        BY <2>1, FS_RemoveElement
      <4>2. SumOver(f, U) = f[x] + a
        BY <2>1, <4>1, SumRemove
      <4>3. a \in Int
        BY <4>1, SumType
      <4> QED BY <4>2, <4>3
    <3>3. SumOver(f, U \cup T) = f[x] + SumOver(f, (U \cup T) \ {x})
      BY <2>1, SumRemove
    <3>4. (U \cup T) \ {x} = (U \ {x}) \cup T
      OBVIOUS
    <3>5. SumOver(f, (U \ {x}) \cup T) = a + SumOver(f, T)
      BY <1>1
    <3>6. SumOver(f, U \cup T) = f[x] + (a + SumOver(f, T)) /\ f[x] \in Int
      BY <3>3, <3>4, <3>5
    <3> HIDE DEF a
    <3>7. SumOver(f, U \cup T) = SumOver(f, U) + SumOver(f, T)
      BY <1>0, <3>2, <3>6
    <3> QED BY <3>7
  <2> QED BY <2>2, <2>3
<1>2. S \in G
  <2> HIDE DEF G
  <2> QED BY <1>1, SubsetInduction
<1> QED
  BY <1>2

\* Renaming the elements leaves a sum as it is.
LEMMA SumRenamed ==
  ASSUME NEW f, NEW g, NEW S, NEW T, IsFiniteSet(S), \A y \in T : g[y] \in Int,
         NEW h \in [S -> T], \A x, y \in S : h[x] = h[y] => x = y,
         \A y \in T : \E x \in S : h[x] = y,
         \A x \in S : f[x] = g[h[x]]
  PROVE  SumOver(f, S) = SumOver(g, T)
<1> DEFINE Img(U) == {y \in T : \E x \in U : h[x] = y}
           G == {U \in SUBSET S : IsFiniteSet(Img(U)) /\ SumOver(f, U) = SumOver(g, Img(U))}
<1>1. ASSUME NEW U \in SUBSET S, \A V \in SUBSET U : V # U => V \in G
      PROVE  U \in G
  <2>1. IsFiniteSet(U)
    BY FS_Subset
  <2>2. CASE U = {}
    <3>1. Img(U) = {}
      BY <2>2
    <3>2. SumOver(f, U) = 0 /\ SumOver(g, {}) = 0 /\ IsFiniteSet({})
      BY <2>1, <2>2, SumUnfolds, FS_EmptySet
    <3> QED BY Zenon, <3>1, <3>2
  <2>3. CASE U # {}
    <3>1. PICK x \in U : TRUE
      BY <2>3
    <3> DEFINE rest == Img(U \ {x})
    <3>2. IsFiniteSet(rest) /\ SumOver(f, U \ {x}) = SumOver(g, rest)
      BY <1>1
    <3>3. Img(U) = rest \cup {h[x]} /\ h[x] \notin rest /\ h[x] \in T /\ rest \subseteq T
      OBVIOUS
    <3>4. \A y \in U : f[y] \in Int
      OBVIOUS
    <3>5. SumOver(f, U) = f[x] + SumOver(f, U \ {x})
      BY <2>1, <3>4, SumRemove
    <3> HIDE DEF rest
    <3>6. SumOver(g, rest \cup {h[x]}) = g[h[x]] + SumOver(g, rest)
      BY <3>2, <3>3, SumAdd
    <3>7. IsFiniteSet(rest \cup {h[x]})
      BY <3>2, FS_AddElement
    <3>8. SumOver(f, U) = SumOver(g, rest \cup {h[x]})
      BY <3>2, <3>5, <3>6, Zenon
    <3> QED BY <3>3, <3>7, <3>8
  <2> QED BY <2>2, <2>3
<1>2. S \in G
  <2> HIDE DEF G
  <2> QED BY <1>1, SubsetInduction
<1>3. Img(S) = T
  OBVIOUS
<1> QED
  BY <1>2, <1>3

\* A sum taken group by group, the group of x being key[x].
LEMMA SumGrouped ==
  ASSUME NEW f, NEW S, NEW K, IsFiniteSet(S), IsFiniteSet(K), \A x \in S : f[x] \in Int,
         NEW key \in [S -> K], NEW g,
         \A k \in K : g[k] = SumOver(f, {x \in S : key[x] = k})
  PROVE  SumOver(f, S) = SumOver(g, K)
<1> DEFINE In(L) == {x \in S : key[x] \in L}
           G == {L \in SUBSET K : SumOver(f, In(L)) = SumOver(g, L)}
<1>1. \A T \in SUBSET S : IsFiniteSet(T) /\ SumOver(f, T) \in Int
  BY FS_Subset, SumType
<1>2. \A k \in K : g[k] \in Int
  BY Zenon, <1>1
<1>3. ASSUME NEW L \in SUBSET K, \A M \in SUBSET L : M # L => M \in G
      PROVE  L \in G
  <2>1. IsFiniteSet(L)
    BY FS_Subset
  <2>2. CASE L = {}
    <3>1. In(L) = {}
      BY <2>2
    <3>2. SumOver(f, {}) = 0 /\ SumOver(g, L) = 0
      BY <2>1, <2>2, SumUnfolds
    <3> QED BY <3>1, <3>2
  <2>3. CASE L # {}
    <3>1. PICK k \in L : TRUE
      BY <2>3
    <3> DEFINE A == {x \in S : key[x] = k}
               B == In(L \ {k})
    <3>2. In(L) = A \cup B /\ A \cap B = {} /\ A \subseteq S /\ B \subseteq S
      OBVIOUS
    <3>3. SumOver(f, B) = SumOver(g, L \ {k})
      BY <1>3
    <3>4. g[k] = SumOver(f, A)
      OBVIOUS
    <3>5. SumOver(g, L) = g[k] + SumOver(g, L \ {k})
      BY <1>2, <2>1, SumRemove
    <3> HIDE DEF A, B
    <3>6. SumOver(f, A \cup B) = SumOver(f, A) + SumOver(f, B)
      BY <1>1, <3>2, SumUnion
    <3>7. SumOver(f, A \cup B) = SumOver(g, L)
      BY <3>3, <3>4, <3>5, <3>6, Zenon
    <3> QED BY <3>2, <3>7
  <2> QED BY <2>2, <2>3
<1>4. K \in G
  <2> HIDE DEF G
  <2> QED BY <1>3, SubsetInduction
<1>5. In(K) = S
  OBVIOUS
<1> QED
  BY <1>4, <1>5

\* A sum over 1..n+1 with its last term taken out.
LEMMA SumLast ==
  ASSUME NEW n \in Nat, NEW f, NEW g, \A i \in 1..n+1 : g[i] \in Int,
         \A i \in 1..n : g[i] = f[i]
  PROVE  SumOver(g, 1..n+1) = SumOver(f, 1..n) + g[n+1]
<1>1. IsFiniteSet(1..n) /\ n + 1 \notin 1..n /\ 1..n+1 = (1..n) \cup {n + 1}
  BY FS_Interval
<1>2. SumOver(g, (1..n) \cup {n + 1}) = g[n+1] + SumOver(g, 1..n)
  BY Zenon, <1>1, SumAdd
<1>3. SumOver(g, 1..n) = SumOver(f, 1..n) /\ SumOver(g, 1..n) \in Int
  <2>1. \A i \in 1..n : g[i] \in Int
    OBVIOUS
  <2> QED BY <1>1, <2>1, SumSame, SumType
<1>4. SumOver(g, 1..n+1) = g[n+1] + SumOver(f, 1..n) /\ SumOver(f, 1..n) \in Int
  BY <1>1, <1>2, <1>3, Zenon
<1>5. g[n+1] \in Int
  OBVIOUS
<1> QED
  BY <1>4, <1>5

\* A sum over 1..n+1 with its first term taken out, the others moving up.
LEMMA SumFirst ==
  ASSUME NEW n \in Nat, NEW f, NEW g, \A i \in 1..n+1 : f[i] \in Int,
         \A i \in 1..n : g[i] = f[i + 1]
  PROVE  SumOver(f, 1..n+1) = f[1] + SumOver(g, 1..n)
<1> DEFINE S == 1..n
           U == 1..n+1
           T == U \ {1}
           h == [i \in 1..n |-> i + 1]
<1>1. IsFiniteSet(S) /\ IsFiniteSet(U) /\ 1 \in U /\ \A i \in U : f[i] \in Int
  BY FS_Interval
<1>2. SumOver(f, U) = f[1] + SumOver(f, T)
  <2> HIDE DEF U
  <2> QED BY <1>1, SumRemove
<1>3. /\ h \in [S -> T] /\ \A i, j \in S : h[i] = h[j] => i = j
      /\ \A i \in S : g[i] = f[h[i]]
      /\ \A i \in T : f[i] \in Int
  OBVIOUS
<1>4. ASSUME NEW j \in T
      PROVE  \E i \in S : h[i] = j
  <2>1. j - 1 \in S /\ h[j - 1] = j
    OBVIOUS
  <2> QED BY <2>1
<1> HIDE DEF S, T, U, h
<1>5. SumOver(g, S) = SumOver(f, T)
  BY <1>1, <1>3, <1>4, SumRenamed
<1> QED
  BY <1>2, <1>5, Zenon DEF S, U

-----------------------------------------------------------------------------
(***************************************************************************)
(* The order book.                                                         *)
(***************************************************************************)

\* A constant sequence is a sequence.
LEMMA NewBookSequences ==
  /\ [i \in 1..PoolSize |-> EmptyOrder] \in Seq(Order)
  /\ Len([i \in 1..PoolSize |-> EmptyOrder]) = PoolSize
  /\ [i \in 1..PoolSize |-> i] \in Seq(Nat)
  /\ Len([i \in 1..PoolSize |-> i]) = PoolSize
<1>1. EmptyOrder \in Order
  BY DEF EmptyOrder, NewOrder, Order, Side, OrderType, OrderStatus
<1> QED
  BY <1>1, PoolSizeAssumption

\* The types of what an operation reads from a book.
LEMMA ViewTypes ==
  ASSUME NEW b, BookTypeOK(b)
  PROVE  /\ capacity(b.pool) \in Nat
         /\ \A ptr \in Slots(b) : ptr \in Nat /\ Deref(b, ptr) \in Order
         /\ b.pool.free_list \in Seq(Nat)
         /\ \A id \in LiveIds(b) : /\ id \in Nat
                                   /\ SideOf(b, id) \in Side
                                   /\ PriceOf(b, id) \in Int
                                   /\ PtrOf(b, id) \in Nat
         /\ \A side \in Side : \A p \in LevelPrices(b, side) :
               /\ p \in Int
               /\ Depth(b, side, p) \in Nat
               /\ \A i \in 1..Depth(b, side, p) : Node(b, side, p, i) \in Nat
<1>1. b.pool \in [storage : Seq(Order), free_list : Seq(Nat)]
  BY DEF BookTypeOK
<1>2. capacity(b.pool) \in Nat
  BY <1>1, LenProperties DEF capacity
<1>3. \A ptr \in Slots(b) : ptr \in Nat /\ Deref(b, ptr) \in Order
  BY <1>1, <1>2, ElementOfSeq DEF Slots, capacity, Deref
<1>4. ASSUME NEW id \in LiveIds(b)
      PROVE  /\ id \in Nat
             /\ SideOf(b, id) \in Side
             /\ PriceOf(b, id) \in Int
             /\ PtrOf(b, id) \in Nat
  <2>1. id \in Nat /\ b.lookup[id] \in [side : Side, price : Int, iterator : Nat]
    BY DEF BookTypeOK, LiveIds
  <2> QED BY <2>1 DEF SideOf, PriceOf, PtrOf
<1>5. ASSUME NEW side \in Side, NEW p \in LevelPrices(b, side)
      PROVE  /\ p \in Int
             /\ Depth(b, side, p) \in Nat
             /\ \A i \in 1..Depth(b, side, p) : Node(b, side, p, i) \in Nat
  <2> DEFINE q == b.levels[side][p]
  <2>1. p \in Int /\ q \in Seq(Nat)
    BY DEF BookTypeOK, LevelPrices
  <2> HIDE DEF q
  <2>2. Len(q) \in Nat /\ \A i \in 1..Len(q) : q[i] \in Nat
    BY <2>1, LenProperties, ElementOfSeq
  <2> QED BY <2>1, <2>2 DEF q, Depth, Node
<1> QED
  BY <1>1, <1>2, <1>3, <1>4, <1>5

\* A new book satisfies the invariant.
LEMMA NewBookInv == BookInv(NewBook)
<1> DEFINE b == NewBook
<1>1. b.pool.storage \in Seq(Order) /\ b.pool.free_list \in Seq(Nat)
      /\ Len(b.pool.storage) = PoolSize /\ Len(b.pool.free_list) = PoolSize
  BY Zenon, NewBookSequences DEF NewBook, NewPool
<1>2. LiveIds(b) = {} /\ \A side \in Side : LevelPrices(b, side) = {}
  BY DEF NewBook, LiveIds, LevelPrices
<1>3. BookTypeOK(b)
  <2>1. b.pool \in [storage : Seq(Order), free_list : Seq(Nat)]
    BY Zenon, <1>1 DEF NewBook, NewPool
  <2>2. b = [levels |-> b.levels, lookup |-> b.lookup, pool |-> b.pool,
             next_order_id |-> b.next_order_id]
    BY DEF NewBook
  <2>3. DOMAIN b.levels = Side /\ b.next_order_id \in Nat \ {0}
    BY DEF NewBook
  <2> HIDE DEF b
  <2> QED BY <1>2, <2>1, <2>2, <2>3 DEF BookTypeOK, LiveIds, LevelPrices
<1>4. FreeListSound(b)
  BY Zenon, <1>1, PoolSizeAssumption DEF FreeListSound, NewBook, NewPool, Slots, capacity
<1>5. \A ptr \in Slots(b) : IsFree(b, ptr)
  BY Zenon, <1>1, PoolSizeAssumption DEF IsFree, NewBook, NewPool, Slots, capacity
<1> HIDE DEF b
<1>6. QueuedIsIndexed(b) /\ IndexedIsQueued(b) /\ NoEmptyLevel(b) /\ QueueInArrivalOrder(b)
  BY <1>2 DEF QueuedIsIndexed, IndexedIsQueued, NoEmptyLevel, QueueInArrivalOrder
<1>7. PoolPartitioned(b)
  BY <1>2, <1>5 DEF PoolPartitioned
<1> QED
  BY <1>3, <1>4, <1>6, <1>7 DEF BookInv, b

-----------------------------------------------------------------------------

\* Every live order sits in a slot of the pool, and no two share one.
LEMMA LiveSlots ==
  ASSUME NEW b, BookInv(b)
  PROVE  /\ \A id \in LiveIds(b) :
               /\ PtrOf(b, id) \in Slots(b)
               /\ Deref(b, PtrOf(b, id)).id = id
               /\ Deref(b, PtrOf(b, id)).side = SideOf(b, id)
               /\ Deref(b, PtrOf(b, id)).price = PriceOf(b, id)
         /\ \A i, j \in LiveIds(b) : PtrOf(b, i) = PtrOf(b, j) => i = j
<1>1. ASSUME NEW id \in LiveIds(b)
      PROVE  /\ PtrOf(b, id) \in Slots(b)
             /\ Deref(b, PtrOf(b, id)).id = id
             /\ Deref(b, PtrOf(b, id)).side = SideOf(b, id)
             /\ Deref(b, PtrOf(b, id)).price = PriceOf(b, id)
  <2>1. SideOf(b, id) \in Side
    BY ViewTypes DEF BookInv
  <2> QED BY <2>1 DEF BookInv, IndexedIsQueued, QueuedIsIndexed, OrderOf
<1> QED
  BY <1>1

\* A write through a pointer changes that object and nothing else.
LEMMA WriteOrderFacts ==
  ASSUME NEW b, BookTypeOK(b), NEW ptr \in Slots(b), NEW order \in Order
  PROVE  LET c == WriteOrder(b, ptr, order)
         IN  /\ BookTypeOK(c)
             /\ c.levels = b.levels
             /\ c.lookup = b.lookup
             /\ c.next_order_id = b.next_order_id
             /\ c.pool.free_list = b.pool.free_list
             /\ Slots(c) = Slots(b)
             /\ \A q \in Slots(b) : Deref(c, q) = IF q = ptr THEN order ELSE Deref(b, q)
<1> DEFINE c == WriteOrder(b, ptr, order)
           st == [b.pool.storage EXCEPT ![ptr] = order]
<1>1. b.pool \in [storage : Seq(Order), free_list : Seq(Nat)]
  BY DEF BookTypeOK
<1>2. c.pool = [storage |-> st, free_list |-> b.pool.free_list]
  BY Zenon, <1>1 DEF WriteOrder, Write, BookTypeOK
<1>3. c = [levels |-> b.levels, lookup |-> b.lookup, pool |-> c.pool,
           next_order_id |-> b.next_order_id]
  BY <1>1 DEF WriteOrder, BookTypeOK
<1>4. /\ st \in Seq(Order)
      /\ Len(st) = Len(b.pool.storage)
      /\ \A q \in 1..Len(b.pool.storage) : st[q] = IF q = ptr THEN order ELSE b.pool.storage[q]
  BY <1>1, ExceptSeq DEF Slots, capacity
<1> HIDE DEF c, st
<1>5. /\ c.levels = b.levels
      /\ c.lookup = b.lookup
      /\ c.next_order_id = b.next_order_id
      /\ c.pool.free_list = b.pool.free_list
  BY <1>2, <1>3
<1>6. c.pool \in [storage : Seq(Order), free_list : Seq(Nat)]
  BY <1>1, <1>2, <1>4
<1>7. BookTypeOK(c)
  BY <1>3, <1>5, <1>6 DEF BookTypeOK
<1>8. /\ Slots(c) = Slots(b)
      /\ \A q \in Slots(b) : Deref(c, q) = IF q = ptr THEN order ELSE Deref(b, q)
  BY <1>2, <1>4 DEF Slots, capacity, Deref
<1> QED
  BY <1>5, <1>7, <1>8 DEF c

\* A write that keeps an order's ID, side and price preserves the invariant.
LEMMA WriteOrderInv ==
  ASSUME NEW b, BookInv(b), NEW ptr \in Slots(b), NEW order \in Order,
         order.id = Deref(b, ptr).id,
         order.side = Deref(b, ptr).side,
         order.price = Deref(b, ptr).price
  PROVE  BookInv(WriteOrder(b, ptr, order))
<1> DEFINE c == WriteOrder(b, ptr, order)
<1>1. /\ BookTypeOK(c)
      /\ c.levels = b.levels
      /\ c.lookup = b.lookup
      /\ c.next_order_id = b.next_order_id
      /\ c.pool.free_list = b.pool.free_list
      /\ Slots(c) = Slots(b)
      /\ \A q \in Slots(b) : Deref(c, q) = IF q = ptr THEN order ELSE Deref(b, q)
  BY WriteOrderFacts DEF BookInv
<1> HIDE DEF c
<1>2. \A q \in Slots(b) : /\ Deref(c, q).id = Deref(b, q).id
                         /\ Deref(c, q).side = Deref(b, q).side
                         /\ Deref(c, q).price = Deref(b, q).price
  BY <1>1
<1>3. /\ LiveIds(c) = LiveIds(b)
      /\ \A id : SideOf(c, id) = SideOf(b, id) /\ PriceOf(c, id) = PriceOf(b, id)
               /\ PtrOf(c, id) = PtrOf(b, id)
      /\ \A side : LevelPrices(c, side) = LevelPrices(b, side)
      /\ \A side, p : Depth(c, side, p) = Depth(b, side, p)
      /\ \A side, p, i : Node(c, side, p, i) = Node(b, side, p, i)
      /\ \A q : IsFree(c, q) <=> IsFree(b, q)
  BY <1>1 DEF LiveIds, SideOf, PriceOf, PtrOf, LevelPrices, Depth, Node, IsFree
<1>4. QueuedIsIndexed(c)
  BY <1>1, <1>2, <1>3 DEF BookInv, QueuedIsIndexed
<1>5. IndexedIsQueued(c)
  <2>1. \A id \in LiveIds(b) : PtrOf(b, id) \in Slots(b)
    BY LiveSlots
  <2> QED BY <1>1, <1>2, <1>3, <2>1 DEF BookInv, IndexedIsQueued, OrderOf
<1>6. NoEmptyLevel(c)
  BY <1>3 DEF BookInv, NoEmptyLevel
<1>7. QueueInArrivalOrder(c)
  <2>1. \A side \in Side : \A p \in LevelPrices(b, side) : \A i \in 1..Depth(b, side, p) :
            Node(b, side, p, i) \in Slots(b)
    BY DEF BookInv, QueuedIsIndexed
  <2> QED BY <1>2, <1>3, <2>1 DEF BookInv, QueueInArrivalOrder
<1>8. FreeListSound(c) /\ PoolPartitioned(c)
  BY <1>1, <1>3 DEF BookInv, FreeListSound, PoolPartitioned
<1> QED
  BY <1>1, <1>4, <1>5, <1>6, <1>7, <1>8 DEF BookInv, c

-----------------------------------------------------------------------------

\* acquire() hands out a slot that no live order holds.
LEMMA AcquireFacts ==
  ASSUME NEW b, BookInv(b)
  PROVE  LET ptr  == acquired(b.pool)
             pool == acquire(b.pool, EmptyOrder)
         IN  /\ ptr \in Nat
             /\ \A id \in LiveIds(b) : PtrOf(b, id) # ptr
             /\ pool \in [storage : Seq(Order), free_list : Seq(Nat)]
             /\ ptr \in 1..capacity(pool)
             /\ 1..capacity(pool) = Slots(b) \cup {ptr}
             /\ \A q \in Slots(b) : pool.storage[q] = Deref(b, q)
             /\ Len(pool.free_list) =< Len(b.pool.free_list)
             /\ \A i \in 1..Len(pool.free_list) :
                    pool.free_list[i] = b.pool.free_list[i] /\ pool.free_list[i] # ptr
             /\ \A i \in 1..Len(b.pool.free_list) :
                    i \in 1..Len(pool.free_list) \/ b.pool.free_list[i] = ptr
<1> DEFINE ptr  == acquired(b.pool)
           pool == acquire(b.pool, EmptyOrder)
           free == b.pool.free_list
           st   == b.pool.storage
<1>1. b.pool \in [storage : Seq(Order), free_list : Seq(Nat)]
  BY DEF BookInv, BookTypeOK
<1>2. /\ st \in Seq(Order) /\ Len(st) \in Nat
      /\ free \in Seq(Nat) /\ Len(free) \in Nat
      /\ b.pool = [storage |-> st, free_list |-> free]
  BY <1>1, LenProperties
<1>3. EmptyOrder \in Order
  BY DEF EmptyOrder, NewOrder, Order, Side, OrderType, OrderStatus
<1>4. \A id \in LiveIds(b) : PtrOf(b, id) \in Slots(b)
  BY LiveSlots
<1>5. Slots(b) = 1..Len(st) /\ \A q : Deref(b, q) = st[q]
  BY DEF Slots, capacity, Deref
<1>6. /\ \A i \in 1..Len(free) : free[i] \in Slots(b)
      /\ \A i, j \in 1..Len(free) : free[i] = free[j] => i = j
      /\ \A i \in 1..Len(free) : \A id \in LiveIds(b) : PtrOf(b, id) # free[i]
  BY DEF BookInv, FreeListSound, PoolPartitioned, IsFree
<1>a. ptr = IF free = << >> THEN Len(st) + 1 ELSE Last(free)
  BY DEF acquired, capacity
<1>b. pool = IF free = << >> THEN [storage |-> Append(st, EmptyOrder), free_list |-> free]
                             ELSE [storage |-> st, free_list |-> Front(free)]
  <2>1. acquire(b.pool, EmptyOrder) =
            IF b.pool.free_list = << >>
            THEN [b.pool EXCEPT !.storage = Append(b.pool.storage, EmptyOrder)]
            ELSE [b.pool EXCEPT !.free_list = Front(b.pool.free_list)]
    BY DEF acquire
  <2>2. \A u : [b.pool EXCEPT !.storage = u] = [storage |-> u, free_list |-> b.pool.free_list]
    BY <1>1
  <2>3. \A u : [b.pool EXCEPT !.free_list = u] = [storage |-> b.pool.storage, free_list |-> u]
    BY <1>1
  <2> QED BY <2>1, <2>2, <2>3
<1>c. capacity(pool) = Len(pool.storage)
  BY DEF capacity
<1> HIDE DEF ptr, pool, free, st
<1>7. CASE free = << >>
  <2>1. ptr = Len(st) + 1 /\ pool = [storage |-> Append(st, EmptyOrder), free_list |-> free]
    BY <1>7, <1>a, <1>b
  <2>2. /\ Append(st, EmptyOrder) \in Seq(Order)
        /\ Len(Append(st, EmptyOrder)) = Len(st) + 1
        /\ \A q \in 1..Len(st) : Append(st, EmptyOrder)[q] = st[q]
    BY <1>2, <1>3, AppendProperties
  <2>3. Len(free) = 0
    BY <1>7
  <2>4. pool.storage = Append(st, EmptyOrder) /\ pool.free_list = free
    BY <2>1
  <2> QED BY <1>2, <1>4, <1>5, <1>c, <2>1, <2>2, <2>3, <2>4 DEF ptr, pool, free
<1>8. CASE free # << >>
  <2>1. ptr = Last(free) /\ pool = [storage |-> st, free_list |-> Front(free)]
    BY <1>8, <1>a, <1>b
  <2>2. Len(free) > 0
    BY <1>2, <1>8
  <2>3. Last(free) = free[Len(free)]
    BY DEF Last
  <2>4. /\ Front(free) \in Seq(Nat)
        /\ Len(Front(free)) = Len(free) - 1
        /\ \A i \in 1..Len(free) - 1 : Front(free)[i] = free[i]
    <3>1. \A i \in 1..Len(free) - 1 : free[i] \in Nat
      BY <1>2, ElementOfSeq
    <3> DEFINE n == Len(free) - 1
               f == SubSeq(free, 1, n)
    <3>2. /\ f \in Seq(Nat)
          /\ Len(f) = IF 1 =< n THEN n - 1 + 1 ELSE 0
          /\ \A i \in 1..n - 1 + 1 : f[i] = free[1 + i - 1]
      BY <1>2, <3>1, SubSeqProperties
    <3>3. Front(free) = f
      BY DEF Front
    <3> HIDE DEF f
    <3> QED BY <1>2, <2>2, <3>2, <3>3
  <2>5. pool.storage = st /\ pool.free_list = Front(free)
    BY <2>1
  <2>6. ptr \in Slots(b) /\ \A id \in LiveIds(b) : PtrOf(b, id) # ptr
    BY <1>2, <1>6, <2>1, <2>2, <2>3
  <2>7. pool \in [storage : Seq(Order), free_list : Seq(Nat)]
    BY <1>2, <2>1, <2>4
  <2>8. /\ Len(pool.free_list) =< Len(free)
        /\ \A i \in 1..Len(pool.free_list) :
              pool.free_list[i] = free[i] /\ pool.free_list[i] # ptr
        /\ \A i \in 1..Len(free) : i \in 1..Len(pool.free_list) \/ free[i] = ptr
    <3>1. Len(pool.free_list) = Len(free) - 1 /\ Len(free) \in Nat
      BY <1>2, <2>4, <2>5
    <3>2. \A i \in 1..Len(free) - 1 : pool.free_list[i] = free[i]
      BY <2>4, <2>5
    <3>3. \A i \in 1..Len(free) - 1 : free[i] # free[Len(free)]
      BY <1>6, <2>2, <3>1
    <3>4. ptr = free[Len(free)]
      BY SMTT(30), <2>1, <2>3
    <3> HIDE DEF ptr, pool, free
    <3> QED BY <2>2, <3>1, <3>2, <3>3, <3>4
  <2> QED BY <1>2, <1>5, <1>c, <2>5, <2>6, <2>7, <2>8 DEF ptr, pool, free
<1> QED
  BY <1>7, <1>8

\* How c compares with book b when an order was added: it is at the back of its
\* level, in a slot that was free, and all else is as it was.
Added(b, c, side, type, price, quantity) ==
    LET id  == b.next_order_id
        new == acquired(b.pool)
        n   == IF price \in LevelPrices(b, side) THEN Depth(b, side, price) ELSE 0
    IN  /\ BookTypeOK(c)
        /\ c.next_order_id = id + 1
        /\ Slots(c) = Slots(b) \cup {new}
        /\ Deref(c, new) = NewOrder(id, side, type, price, quantity)
        /\ \A q \in Slots(b) : q # new => Deref(c, q) = Deref(b, q)
        /\ LiveIds(c) = LiveIds(b) \cup {id}
        /\ SideOf(c, id) = side /\ PriceOf(c, id) = price /\ PtrOf(c, id) = new
        /\ \A i \in LiveIds(b) : i # id => /\ SideOf(c, i) = SideOf(b, i)
                                          /\ PriceOf(c, i) = PriceOf(b, i)
                                          /\ PtrOf(c, i) = PtrOf(b, i)
        /\ \A s \in Side : LevelPrices(c, s) =
               IF s = side THEN LevelPrices(b, s) \cup {price} ELSE LevelPrices(b, s)
        /\ \A s \in Side : \A p \in LevelPrices(b, s) :
               s # side \/ p # price =>
                   /\ Depth(c, s, p) = Depth(b, s, p)
                   /\ \A i : Node(c, s, p, i) = Node(b, s, p, i)
        /\ Depth(c, side, price) = n + 1
        /\ Node(c, side, price, n + 1) = new
        /\ \A i \in 1..n : Node(c, side, price, i) = Node(b, side, price, i)
        /\ c.pool.free_list = acquire(b.pool, EmptyOrder).free_list

\* What add_order does to everything an operation reads from a book.
LEMMA AddOrderFacts ==
  ASSUME NEW b, BookInv(b), NEW side \in Side, NEW type \in OrderType,
         NEW price \in Int, NEW quantity \in Nat
  PROVE  Added(b, add_order(b, side, type, price, quantity), side, type, price, quantity)
<1> DEFINE c    == add_order(b, side, type, price, quantity)
           id   == b.next_order_id
           new  == acquired(b.pool)
           n    == IF price \in LevelPrices(b, side) THEN Depth(b, side, price) ELSE 0
           pool == acquire(b.pool, EmptyOrder)
           o    == NewOrder(id, side, type, price, quantity)
           st   == [pool.storage EXCEPT ![new] = o]
           loc  == [side |-> side, price |-> price, iterator |-> new]
           old  == IF price \in DOMAIN b.levels[side] THEN b.levels[side][price] ELSE << >>
           q    == Append(old, new)
<1>1. /\ pool \in [storage : Seq(Order), free_list : Seq(Nat)]
      /\ new \in Nat /\ new \in 1..Len(pool.storage)
      /\ 1..Len(pool.storage) = Slots(b) \cup {new}
      /\ \A x \in Slots(b) : pool.storage[x] = Deref(b, x)
  BY AcquireFacts DEF capacity
<1>2. id \in Nat \ {0} /\ DOMAIN b.levels = Side
  BY DEF BookInv, BookTypeOK
<1>3. o \in Order
  BY <1>2 DEF NewOrder, Order, OrderStatus
<1>4. /\ c.levels = [b.levels EXCEPT ![side] = PushBack(b.levels[side], price, new)]
      /\ c.lookup = [i \in LiveIds(b) \cup {id} |-> IF i = id THEN loc ELSE b.lookup[i]]
      /\ c.pool = Write(pool, new, o)
      /\ c.next_order_id = id + 1
      /\ c = [levels |-> c.levels, lookup |-> c.lookup, pool |-> c.pool,
              next_order_id |-> c.next_order_id]
  BY DEF add_order, LiveIds
<1>5. c.pool = [storage |-> st, free_list |-> pool.free_list]
  <2> HIDE DEF pool, new, o, c
  <2>1. Write(pool, new, o) = [pool EXCEPT !.storage = [pool.storage EXCEPT ![new] = o]]
    BY DEF Write
  <2> QED BY Zenon, <1>1, <1>4, <2>1
<1> HIDE DEF c, id, new, pool, o
<1>6. /\ st \in Seq(Order)
      /\ Len(st) = Len(pool.storage)
      /\ \A x \in 1..Len(pool.storage) : st[x] = IF x = new THEN o ELSE pool.storage[x]
  BY <1>1, <1>3, ExceptSeq
<1> HIDE DEF st
<1>7. /\ c.pool \in [storage : Seq(Order), free_list : Seq(Nat)]
      /\ c.pool.free_list = pool.free_list
      /\ c.pool.storage = st
  BY <1>1, <1>5, <1>6
<1>8. /\ Slots(c) = Slots(b) \cup {new}
      /\ Deref(c, new) = o
      /\ \A x \in Slots(b) : x # new => Deref(c, x) = Deref(b, x)
  <2>1. Slots(c) = 1..Len(st) /\ \A x : Deref(c, x) = st[x]
    BY <1>7 DEF Slots, capacity, Deref
  <2> QED BY <1>1, <1>6, <2>1
<1>9. /\ LiveIds(c) = LiveIds(b) \cup {id}
      /\ c.lookup[id] = loc
      /\ \A i \in LiveIds(b) : i # id => c.lookup[i] = b.lookup[i]
  BY <1>4 DEF LiveIds
<1>10. /\ SideOf(c, id) = side /\ PriceOf(c, id) = price /\ PtrOf(c, id) = new
       /\ \A i \in LiveIds(b) : i # id => /\ SideOf(c, i) = SideOf(b, i)
                                         /\ PriceOf(c, i) = PriceOf(b, i)
                                         /\ PtrOf(c, i) = PtrOf(b, i)
  BY <1>9 DEF SideOf, PriceOf, PtrOf
<1>11. /\ DOMAIN c.levels = Side
       /\ \A s \in Side : s # side => c.levels[s] = b.levels[s]
       /\ c.levels[side] = [p \in LevelPrices(b, side) \cup {price} |->
                               IF p = price THEN q ELSE b.levels[side][p]]
  BY <1>2, <1>4 DEF PushBack, LevelPrices
<1>12. /\ old \in Seq(Nat)
       /\ Len(old) = n
       /\ \A i \in 1..n : old[i] = Node(b, side, price, i)
  BY DEF BookInv, BookTypeOK, LevelPrices, Depth, Node
<1> HIDE DEF old, n
<1>13. /\ q \in Seq(Nat)
       /\ Len(q) = n + 1
       /\ q[n + 1] = new
       /\ \A i \in 1..n : q[i] = Node(b, side, price, i)
  BY <1>1, <1>12, AppendProperties, LenProperties
<1> HIDE DEF q
<1>14. \A s \in Side : LevelPrices(c, s) =
           IF s = side THEN LevelPrices(b, s) \cup {price} ELSE LevelPrices(b, s)
  BY Zenon, <1>11 DEF LevelPrices
<1>15. /\ c.levels[side][price] = q
       /\ \A s \in Side : \A p \in LevelPrices(b, s) :
              s # side \/ p # price => c.levels[s][p] = b.levels[s][p]
  BY <1>11
<1>16. \A s \in Side : \A p \in LevelPrices(b, s) :
           s # side \/ p # price =>
               /\ Depth(c, s, p) = Depth(b, s, p)
               /\ \A i : Node(c, s, p, i) = Node(b, s, p, i)
  BY <1>15 DEF Depth, Node
<1>17. /\ Depth(c, side, price) = n + 1
       /\ Node(c, side, price, n + 1) = new
       /\ \A i \in 1..n : Node(c, side, price, i) = Node(b, side, price, i)
  <2>1. Depth(c, side, price) = Len(q) /\ \A i : Node(c, side, price, i) = q[i]
    BY <1>15 DEF Depth, Node
  <2> QED BY <1>13, <2>1
<1>18. BookTypeOK(c)
  <2>1. \A i \in DOMAIN c.lookup :
            i \in Nat /\ c.lookup[i] \in [side : Side, price : Int, iterator : Nat]
    BY <1>1, <1>2, <1>9 DEF BookInv, BookTypeOK, LiveIds
  <2>2. ASSUME NEW s \in Side, NEW p \in DOMAIN c.levels[s]
        PROVE  p \in Int /\ c.levels[s][p] \in Seq(Nat)
    <3>1. p \in LevelPrices(b, s) \/ (s = side /\ p = price)
      BY Zenon, <1>14 DEF LevelPrices
    <3>2. CASE s = side /\ p = price
      BY <3>2, <1>13, <1>15
    <3>3. CASE p \in LevelPrices(b, s) /\ (s # side \/ p # price)
      <4>1. c.levels[s][p] = b.levels[s][p]
        BY <3>3, <1>15
      <4> QED BY <3>3, <4>1 DEF BookInv, BookTypeOK, LevelPrices
    <3> QED BY <3>1, <3>2, <3>3
  <2>3. c.next_order_id \in Nat \ {0}
    BY <1>2, <1>4
  <2> QED BY Zenon, <1>4, <1>7, <1>11, <2>1, <2>2, <2>3 DEF BookTypeOK
<1> QED
  BY SMTT(30), <1>4, <1>7, <1>8, <1>9, <1>10, <1>14, <1>16, <1>17, <1>18
     DEF Added, c, id, new, n, pool, o

\* add_order preserves the invariant: the new order has the greatest ID, so it
\* belongs at the back of its level, and its slot was free.
LEMMA AddOrderInv ==
  ASSUME NEW b, BookInv(b), NEW side \in Side, NEW type \in OrderType,
         NEW price \in Int, NEW quantity \in Nat
  PROVE  BookInv(add_order(b, side, type, price, quantity))
<1> DEFINE c    == add_order(b, side, type, price, quantity)
           id   == b.next_order_id
           new  == acquired(b.pool)
           pool == acquire(b.pool, EmptyOrder)
           o    == NewOrder(id, side, type, price, quantity)
           n    == IF price \in LevelPrices(b, side) THEN Depth(b, side, price) ELSE 0
<1>0. Added(b, c, side, type, price, quantity)
  BY AddOrderFacts
<1>1. /\ BookTypeOK(c)
      /\ c.next_order_id = id + 1
      /\ Slots(c) = Slots(b) \cup {new}
      /\ Deref(c, new) = o
      /\ \A q \in Slots(b) : q # new => Deref(c, q) = Deref(b, q)
  BY SMTT(30), <1>0 DEF Added
<1>2. /\ LiveIds(c) = LiveIds(b) \cup {id}
      /\ SideOf(c, id) = side /\ PriceOf(c, id) = price /\ PtrOf(c, id) = new
      /\ \A i \in LiveIds(b) : i # id => /\ SideOf(c, i) = SideOf(b, i)
                                        /\ PriceOf(c, i) = PriceOf(b, i)
                                        /\ PtrOf(c, i) = PtrOf(b, i)
  BY SMTT(30), <1>0 DEF Added
<1>3. /\ \A s \in Side : LevelPrices(c, s) =
             IF s = side THEN LevelPrices(b, s) \cup {price} ELSE LevelPrices(b, s)
      /\ \A s \in Side : \A p \in LevelPrices(b, s) :
             s # side \/ p # price =>
                 /\ Depth(c, s, p) = Depth(b, s, p)
                 /\ \A i : Node(c, s, p, i) = Node(b, s, p, i)
  BY SMTT(30), <1>0 DEF Added
<1>4. /\ Depth(c, side, price) = n + 1
      /\ Node(c, side, price, n + 1) = new
      /\ \A i \in 1..n : Node(c, side, price, i) = Node(b, side, price, i)
  BY SMTT(30), <1>0 DEF Added
<1>5. c.pool.free_list = pool.free_list
  BY SMTT(30), <1>0 DEF Added
<1>6. /\ \A i \in LiveIds(b) : PtrOf(b, i) # new
      /\ Len(pool.free_list) =< Len(b.pool.free_list)
      /\ \A i \in 1..Len(pool.free_list) :
            pool.free_list[i] = b.pool.free_list[i] /\ pool.free_list[i] # new
      /\ \A i \in 1..Len(b.pool.free_list) :
            i \in 1..Len(pool.free_list) \/ b.pool.free_list[i] = new
      /\ Len(pool.free_list) \in Nat
  BY Zenon, AcquireFacts, LenProperties
<1>7. /\ id \in Nat /\ id \notin LiveIds(b)
      /\ \A i \in LiveIds(b) : i \in Nat /\ i < id
  BY ViewTypes DEF BookInv, BookTypeOK, IndexedIsQueued
<1>8. o.id = id /\ o.side = side /\ o.price = price
  BY DEF NewOrder
<1>9. /\ n \in Nat
      /\ price \in LevelPrices(b, side) => n = Depth(b, side, price)
      /\ price \notin LevelPrices(b, side) => n = 0
  BY ViewTypes DEF BookInv
<1> HIDE DEF c, id, new, pool, o, n
<1>10. \A s \in Side : \A p \in LevelPrices(b, s) : \A i \in 1..Depth(b, s, p) :
           LET ptr == Node(b, s, p, i)
           IN  /\ ptr \in Slots(b) /\ ptr # new
               /\ Deref(c, ptr) = Deref(b, ptr)
               /\ Deref(b, ptr).id \in LiveIds(b)
  <2> SUFFICES ASSUME NEW s \in Side, NEW p \in LevelPrices(b, s), NEW i \in 1..Depth(b, s, p)
               PROVE  LET ptr == Node(b, s, p, i)
                      IN  /\ ptr \in Slots(b) /\ ptr # new
                          /\ Deref(c, ptr) = Deref(b, ptr)
                          /\ Deref(b, ptr).id \in LiveIds(b)
    OBVIOUS
  <2>1. LET ptr == Node(b, s, p, i)
        IN  ptr \in Slots(b) /\ Deref(b, ptr).id \in LiveIds(b) /\ PtrOf(b, Deref(b, ptr).id) = ptr
    BY DEF BookInv, QueuedIsIndexed
  <2> QED BY <1>1, <1>6, <2>1
\* A node of c is the new one or a node of b.
<1>11. ASSUME NEW s \in Side, NEW p \in LevelPrices(c, s), NEW i \in 1..Depth(c, s, p)
       PROVE  \/ s = side /\ p = price /\ i = n + 1 /\ Node(c, s, p, i) = new
              \/ /\ p \in LevelPrices(b, s) /\ i \in 1..Depth(b, s, p)
                 /\ Node(c, s, p, i) = Node(b, s, p, i)
                 /\ s = side /\ p = price => i =< n
  <2>1. CASE s = side /\ p = price
    <3>1. i \in 1..n + 1
      BY <2>1, <1>4
    <3>2. CASE i = n + 1
      BY <2>1, <3>2, <1>4
    <3>3. CASE i # n + 1
      BY <2>1, <3>1, <3>3, <1>4, <1>9
    <3> QED BY <3>2, <3>3
  <2>2. CASE s # side \/ p # price
    BY <2>2, <1>3
  <2> QED BY <2>1, <2>2
<1>12. QueuedIsIndexed(c)
  <2> SUFFICES ASSUME NEW s \in Side, NEW p \in LevelPrices(c, s), NEW i \in 1..Depth(c, s, p),
                      NEW ptr, ptr = Node(c, s, p, i), NEW k, k = Deref(c, ptr).id
               PROVE  /\ ptr \in Slots(c)
                      /\ Deref(c, ptr).side = s /\ Deref(c, ptr).price = p
                      /\ k \in LiveIds(c)
                      /\ SideOf(c, k) = s /\ PriceOf(c, k) = p /\ PtrOf(c, k) = ptr
    BY DEF QueuedIsIndexed
  <2>1. CASE s = side /\ p = price /\ ptr = new
    BY <2>1, <1>1, <1>2, <1>8
  <2>2. CASE /\ p \in LevelPrices(b, s) /\ i \in 1..Depth(b, s, p)
             /\ ptr = Node(b, s, p, i)
    <3>1. LET q == Node(b, s, p, i)
              j == Deref(b, q).id
          IN  /\ q \in Slots(b)
              /\ Deref(b, q).side = s /\ Deref(b, q).price = p
              /\ j \in LiveIds(b)
              /\ SideOf(b, j) = s /\ PriceOf(b, j) = p /\ PtrOf(b, j) = q
      BY <2>2 DEF BookInv, QueuedIsIndexed
    <3>2. Deref(c, Node(b, s, p, i)) = Deref(b, Node(b, s, p, i))
      BY <2>2, <1>10
    <3> QED BY SMTT(30), <2>2, <3>1, <3>2, <1>1, <1>2, <1>7
  <2> QED BY <2>1, <2>2, <1>11
<1>13. IndexedIsQueued(c)
  <2> SUFFICES ASSUME NEW k \in LiveIds(c)
               PROVE  /\ k < c.next_order_id
                      /\ PriceOf(c, k) \in LevelPrices(c, SideOf(c, k))
                      /\ \E i \in 1..Depth(c, SideOf(c, k), PriceOf(c, k)) :
                             Node(c, SideOf(c, k), PriceOf(c, k), i) = PtrOf(c, k)
                      /\ Deref(c, PtrOf(c, k)).id = k
    BY DEF IndexedIsQueued, OrderOf
  <2>1. CASE k = id
    BY SMTT(30), <2>1, <1>1, <1>2, <1>3, <1>4, <1>7, <1>8, <1>9
  <2>2. CASE k \in LiveIds(b)
    <3> DEFINE s == SideOf(b, k)
               p == PriceOf(b, k)
    <3>1. s \in Side /\ p \in LevelPrices(b, s) /\ Depth(b, s, p) \in Nat
      BY <2>2, ViewTypes DEF BookInv, IndexedIsQueued
    <3>2. PICK i \in 1..Depth(b, s, p) : Node(b, s, p, i) = PtrOf(b, k)
      BY <2>2 DEF BookInv, IndexedIsQueued
    <3>3. SideOf(c, k) = s /\ PriceOf(c, k) = p /\ PtrOf(c, k) = PtrOf(b, k)
      BY <2>2, <1>2, <1>7
    <3> HIDE DEF s, p
    <3>4. p \in LevelPrices(c, s)
      BY <1>3, <3>1
    <3>5. i \in 1..Depth(c, s, p) /\ Node(c, s, p, i) = Node(b, s, p, i)
      <4>1. CASE s = side /\ p = price
        BY <4>1, <3>1, <1>4, <1>9
      <4>2. CASE s # side \/ p # price
        BY <4>2, <3>1, <1>3
      <4> QED BY <4>1, <4>2
    <3>6. PtrOf(b, k) \in Slots(b) /\ Deref(b, PtrOf(b, k)).id = k
      BY <2>2, LiveSlots
    <3>7. Deref(c, PtrOf(b, k)) = Deref(b, PtrOf(b, k))
      BY <2>2, <3>6, <1>1, <1>6
    <3>8. k < c.next_order_id
      BY <2>2, <1>1, <1>7
    <3> QED BY SMTT(30), <3>2, <3>3, <3>4, <3>5, <3>6, <3>7, <3>8
  <2> QED BY <2>1, <2>2, <1>2
<1>14. NoEmptyLevel(c)
  <2> SUFFICES ASSUME NEW s \in Side, NEW p \in LevelPrices(c, s)
               PROVE  Depth(c, s, p) > 0
    BY DEF NoEmptyLevel
  <2>1. CASE s = side /\ p = price
    BY <2>1, <1>4, <1>9
  <2>2. CASE s # side \/ p # price
    BY <2>2, <1>3 DEF BookInv, NoEmptyLevel
  <2> QED BY <2>1, <2>2
<1>15. QueueInArrivalOrder(c)
  <2> SUFFICES ASSUME NEW s \in Side, NEW p \in LevelPrices(c, s),
                      NEW i \in 1..Depth(c, s, p), NEW j \in 1..Depth(c, s, p), i < j
               PROVE  Deref(c, Node(c, s, p, i)).id < Deref(c, Node(c, s, p, j)).id
    BY DEF QueueInArrivalOrder
  <2>1. /\ p \in LevelPrices(b, s) /\ i \in 1..Depth(b, s, p)
        /\ Node(c, s, p, i) = Node(b, s, p, i)
    <3>1. ~(s = side /\ p = price /\ i = n + 1)
      BY <1>4, <1>9
    <3> QED BY <3>1, <1>11
  <2>2. /\ Deref(c, Node(b, s, p, i)) = Deref(b, Node(b, s, p, i))
        /\ Deref(b, Node(b, s, p, i)).id \in LiveIds(b)
    BY <2>1, <1>10
  <2>3. CASE Node(c, s, p, j) = new
    BY SMTT(30), <2>1, <2>2, <2>3, <1>1, <1>7, <1>8
  <2>4. CASE j \in 1..Depth(b, s, p) /\ Node(c, s, p, j) = Node(b, s, p, j)
    <3>1. Deref(c, Node(b, s, p, j)) = Deref(b, Node(b, s, p, j))
      BY <2>1, <2>4, <1>10
    <3>2. Deref(b, Node(b, s, p, i)).id < Deref(b, Node(b, s, p, j)).id
      BY SMTT(30), <2>1, <2>4 DEF BookInv, QueueInArrivalOrder
    <3> QED BY <2>1, <2>2, <2>4, <3>1, <3>2
  <2> QED BY <2>3, <2>4, <1>11
<1>16. FreeListSound(c)
  <2>1. \A i \in 1..Len(pool.free_list) : i \in 1..Len(b.pool.free_list)
    BY <1>6, LenProperties, ViewTypes DEF BookInv
  <2>2. /\ \A i \in 1..Len(b.pool.free_list) : b.pool.free_list[i] \in Slots(b)
        /\ \A i, j \in 1..Len(b.pool.free_list) :
              b.pool.free_list[i] = b.pool.free_list[j] => i = j
    BY DEF BookInv, FreeListSound
  <2> QED BY SMTT(30), <1>1, <1>5, <1>6, <2>1, <2>2 DEF FreeListSound
<1>17. PoolPartitioned(c)
  <2>1. \A i \in 1..Len(pool.free_list) : i \in 1..Len(b.pool.free_list)
    BY <1>6, LenProperties, ViewTypes DEF BookInv
  <2>2. \A q : IsFree(c, q) <=> IsFree(b, q) /\ q # new
    BY <1>5, <1>6, <2>1 DEF IsFree
  <2>3. \A q \in Slots(b) : IsFree(b, q) <=> \A i \in LiveIds(b) : PtrOf(b, i) # q
    BY SMTT(30) DEF BookInv, PoolPartitioned
  <2> QED BY SMTT(30), <1>1, <1>2, <1>7, <2>2, <2>3 DEF PoolPartitioned
<1> QED
  BY SMTT(30), <1>1, <1>12, <1>13, <1>14, <1>15, <1>16, <1>17 DEF BookInv, c

-----------------------------------------------------------------------------

\* Taking an order off the book: its node k leaves its level, the level goes
\* with its last node, and the slot goes to the back of the free list.
LEMMA UnlinkFacts ==
  ASSUME NEW b, BookInv(b), NEW id \in LiveIds(b)
  PROVE  LET c == Unlink(b, id, PtrOf(b, id))
             s0 == SideOf(b, id)
             p0 == PriceOf(b, id)
             d == Depth(b, s0, p0)
         IN  \E k \in 1..d :
             /\ Node(b, s0, p0, k) = PtrOf(b, id)
             /\ BookTypeOK(c)
             /\ c.next_order_id = b.next_order_id
             /\ Slots(c) = Slots(b)
             /\ \A q : Deref(c, q) = Deref(b, q)
             /\ LiveIds(c) = LiveIds(b) \ {id}
             /\ \A i \in LiveIds(c) : /\ SideOf(c, i) = SideOf(b, i)
                                     /\ PriceOf(c, i) = PriceOf(b, i)
                                     /\ PtrOf(c, i) = PtrOf(b, i)
             /\ \A s \in Side : LevelPrices(c, s) =
                    IF s = s0 /\ d = 1 THEN LevelPrices(b, s) \ {p0} ELSE LevelPrices(b, s)
             /\ \A s \in Side : \A p \in LevelPrices(b, s) :
                    s # s0 \/ p # p0 => /\ Depth(c, s, p) = Depth(b, s, p)
                                        /\ \A i : Node(c, s, p, i) = Node(b, s, p, i)
             /\ d > 1 => /\ Depth(c, s0, p0) = d - 1
                         /\ \A j \in 1..d - 1 :
                               Node(c, s0, p0, j) =
                                   IF j < k THEN Node(b, s0, p0, j) ELSE Node(b, s0, p0, j + 1)
             /\ c.pool.free_list = Append(b.pool.free_list, PtrOf(b, id))
<1> DEFINE ptr == PtrOf(b, id)
           c   == Unlink(b, id, ptr)
           s0  == SideOf(b, id)
           p0  == PriceOf(b, id)
           map == b.levels[s0]
           lvl == map[p0]
           d   == Depth(b, s0, p0)
           k   == CHOOSE i \in DOMAIN lvl : lvl[i] = ptr
           q   == RemoveAt(lvl, k)
           er  == [map EXCEPT ![p0] = q]
           new == cleanup_price_level(er, p0)
<1>1. /\ s0 \in Side /\ p0 \in Int /\ ptr \in Nat /\ p0 \in LevelPrices(b, s0)
      /\ d \in Nat
      /\ \E i \in 1..d : Node(b, s0, p0, i) = ptr
  BY ViewTypes DEF BookInv, IndexedIsQueued
<1>2. DOMAIN b.levels = Side /\ p0 \in DOMAIN map /\ lvl \in Seq(Nat) /\ d = Len(lvl)
      /\ \A i : Node(b, s0, p0, i) = lvl[i]
  BY <1>1 DEF BookInv, BookTypeOK, LevelPrices, Depth, Node
<1>3. b.pool \in [storage : Seq(Order), free_list : Seq(Nat)]
  BY SMTT(30) DEF BookInv, BookTypeOK
<1>4. /\ c.levels = [b.levels EXCEPT ![s0] = new]
      /\ c.lookup = Restrict(b.lookup, LiveIds(b) \ {id})
      /\ c.pool = release(b.pool, ptr)
      /\ c.next_order_id = b.next_order_id
      /\ c = [levels |-> c.levels, lookup |-> c.lookup, pool |-> c.pool,
              next_order_id |-> c.next_order_id]
  <2> DEFINE ls == [b.levels EXCEPT ![s0] = new]
             lk == Restrict(b.lookup, LiveIds(b) \ {id})
             pl == release(b.pool, ptr)
  <2>1. c = [levels |-> ls, lookup |-> lk, pool |-> pl, next_order_id |-> b.next_order_id]
    BY Zenon DEF Unlink, LiveIds, SideOf, PriceOf, PtrOf, Erase
  <2> HIDE DEF c, ls, lk, pl
  <2>2. /\ c.levels = ls /\ c.lookup = lk /\ c.pool = pl
        /\ c.next_order_id = b.next_order_id
    BY <2>1
  <2> QED BY <2>1, <2>2 DEF ls, lk, pl
<1> HIDE DEF c, new
<1>5. c.pool = [storage |-> b.pool.storage, free_list |-> Append(b.pool.free_list, ptr)]
  <2>1. release(b.pool, ptr) = [b.pool EXCEPT !.free_list = Append(b.pool.free_list, ptr)]
    BY DEF release
  <2>2. \A u : [b.pool EXCEPT !.free_list = u] = [storage |-> b.pool.storage, free_list |-> u]
    BY <1>3
  <2> QED BY SMTT(30), <1>4, <2>1, <2>2
<1>6. /\ c.pool \in [storage : Seq(Order), free_list : Seq(Nat)]
      /\ c.pool.free_list = Append(b.pool.free_list, ptr)
      /\ c.pool.storage = b.pool.storage
  <2> HIDE DEF ptr
  <2>1. Append(b.pool.free_list, ptr) \in Seq(Nat)
    BY Zenon, <1>1, <1>3, AppendProperties
  <2> QED BY SMTT(30), <1>3, <1>5, <2>1
<1>7. Slots(c) = Slots(b) /\ \A x : Deref(c, x) = Deref(b, x)
  BY <1>6 DEF Slots, capacity, Deref
<1>8. /\ LiveIds(c) = LiveIds(b) \ {id}
      /\ \A i \in LiveIds(c) : c.lookup[i] = b.lookup[i]
  BY <1>4 DEF LiveIds, Restrict
<1>9. \A i \in LiveIds(c) : /\ SideOf(c, i) = SideOf(b, i)
                           /\ PriceOf(c, i) = PriceOf(b, i)
                           /\ PtrOf(c, i) = PtrOf(b, i)
  BY <1>8 DEF SideOf, PriceOf, PtrOf
<1>10. k \in 1..d /\ lvl[k] = ptr
  <2> HIDE DEF lvl, d, ptr
  <2> QED BY <1>1, <1>2
<1>11. /\ q \in Seq(Nat)
       /\ Len(q) = d - 1
       /\ \A j \in 1..d - 1 : q[j] = IF j < k THEN lvl[j] ELSE lvl[j + 1]
  <2> HIDE DEF lvl, k, d
  <2>1. k \in 1..Len(lvl)
    BY <1>2, <1>10
  <2>2. /\ q \in Seq(Nat)
        /\ Len(q) = Len(lvl) - 1
        /\ \A j \in 1..Len(lvl) - 1 : q[j] = IF j < k THEN lvl[j] ELSE lvl[j + 1]
    <3>1. lvl \in Seq(Nat)
      BY <1>2
    <3> QED BY <2>1, <3>1, RemoveAtProperties
  <2> HIDE DEF q
  <2> QED BY <1>2, <2>2
<1> HIDE DEF q, k
<1>12. q = << >> <=> d = 1
  <2> HIDE DEF d
  <2> QED BY <1>1, <1>11
<1>13. /\ DOMAIN er = LevelPrices(b, s0)
       /\ er[p0] = q
       /\ \A p \in LevelPrices(b, s0) : p # p0 => er[p] = map[p]
  BY <1>1 DEF LevelPrices
<1> HIDE DEF er
<1>14. new = IF d = 1 THEN Restrict(er, LevelPrices(b, s0) \ {p0}) ELSE er
  <2> HIDE DEF d
  <2> QED BY <1>1, <1>12, <1>13 DEF new, cleanup_price_level
<1>15. /\ DOMAIN new = IF d = 1 THEN LevelPrices(b, s0) \ {p0} ELSE LevelPrices(b, s0)
       /\ d # 1 => new[p0] = q
       /\ \A p \in LevelPrices(b, s0) : p # p0 => new[p] = map[p]
  <2> HIDE DEF d, map
  <2>1. CASE d = 1
    BY <1>13, <1>14, <2>1 DEF Restrict
  <2>2. CASE d # 1
    BY <1>13, <1>14, <2>2
  <2> QED BY <2>1, <2>2
<1>16. /\ DOMAIN c.levels = Side
       /\ c.levels[s0] = new
       /\ \A s \in Side : s # s0 => c.levels[s] = b.levels[s]
  BY <1>1, <1>2, <1>4
<1>17. \A s \in Side : LevelPrices(c, s) =
           IF s = s0 /\ d = 1 THEN LevelPrices(b, s) \ {p0} ELSE LevelPrices(b, s)
  <2> HIDE DEF d, s0, p0
  <2>1. \A s \in Side : LevelPrices(c, s) = IF s = s0 THEN DOMAIN new ELSE LevelPrices(b, s)
    BY Zenon, <1>16 DEF LevelPrices
  <2> QED BY Zenon, <1>15, <2>1
<1>18. \A s \in Side : \A p \in LevelPrices(b, s) :
           s # s0 \/ p # p0 => c.levels[s][p] = b.levels[s][p]
  <2> HIDE DEF d, s0, p0
  <2> QED BY <1>15, <1>16
<1>19. \A s \in Side : \A p \in LevelPrices(b, s) :
           s # s0 \/ p # p0 => /\ Depth(c, s, p) = Depth(b, s, p)
                               /\ \A i : Node(c, s, p, i) = Node(b, s, p, i)
  <2> HIDE DEF s0, p0
  <2> QED BY <1>18 DEF Depth, Node
<1>20. d > 1 => /\ Depth(c, s0, p0) = d - 1
                /\ \A j \in 1..d - 1 :
                      Node(c, s0, p0, j) =
                          IF j < k THEN Node(b, s0, p0, j) ELSE Node(b, s0, p0, j + 1)
  <2> HIDE DEF d, s0, p0, lvl
  <2> SUFFICES ASSUME d > 1
               PROVE  /\ Depth(c, s0, p0) = d - 1
                      /\ \A j \in 1..d - 1 :
                            Node(c, s0, p0, j) =
                                IF j < k THEN Node(b, s0, p0, j) ELSE Node(b, s0, p0, j + 1)
    OBVIOUS
  <2>1. c.levels[s0][p0] = q
    BY <1>1, <1>15, <1>16
  <2>2. Depth(c, s0, p0) = Len(q) /\ \A j : Node(c, s0, p0, j) = q[j]
    BY <2>1 DEF Depth, Node
  <2>3. \A j \in 1..d - 1 : q[j] = IF j < k THEN Node(b, s0, p0, j) ELSE Node(b, s0, p0, j + 1)
    BY Zenon, <1>2, <1>11
  <2> QED BY <1>11, <2>2, <2>3
<1>21. BookTypeOK(c)
  <2> HIDE DEF d, s0, p0, lvl
  <2>1. \A i \in DOMAIN c.lookup :
            i \in Nat /\ c.lookup[i] \in [side : Side, price : Int, iterator : Nat]
    BY <1>8 DEF BookInv, BookTypeOK, LiveIds
  <2>2. ASSUME NEW s \in Side, NEW p \in DOMAIN c.levels[s]
        PROVE  p \in Int /\ c.levels[s][p] \in Seq(Nat)
    <3>1. p \in LevelPrices(b, s) /\ ~(s = s0 /\ p = p0 /\ d = 1)
      <4>1. p \in LevelPrices(c, s)
        BY DEF LevelPrices
      <4> QED BY <4>1, <1>17
    <3>2. CASE s = s0 /\ p = p0
      BY SMTT(30), <3>1, <3>2, <1>1, <1>11, <1>15, <1>16
    <3>3. CASE s # s0 \/ p # p0
      <4>1. c.levels[s][p] = b.levels[s][p]
        BY <3>1, <3>3, <1>18
      <4> QED BY <3>1, <4>1 DEF BookInv, BookTypeOK, LevelPrices
    <3> QED BY <3>2, <3>3
  <2>3. c.next_order_id \in Nat \ {0}
    BY <1>4 DEF BookInv, BookTypeOK
  <2> QED BY Zenon, <1>4, <1>6, <1>16, <2>1, <2>2, <2>3 DEF BookTypeOK
<1>22. Node(b, s0, p0, k) = ptr
  BY SMTT(30), <1>2, <1>10
<1> HIDE DEF d, s0, p0, ptr
<1> QED
  BY SMTT(30), <1>4, <1>6, <1>7, <1>8, <1>9, <1>10, <1>17, <1>19, <1>20, <1>21, <1>22
     DEF c, d, s0, p0, ptr

\* Taking an order off the book preserves the invariant.  No other node holds
\* its pointer, since the IDs of a level ascend strictly.
LEMMA UnlinkInv ==
  ASSUME NEW b, BookInv(b), NEW id \in LiveIds(b)
  PROVE  BookInv(Unlink(b, id, PtrOf(b, id)))
<1> DEFINE ptr == PtrOf(b, id)
           c   == Unlink(b, id, ptr)
           s0  == SideOf(b, id)
           p0  == PriceOf(b, id)
           d   == Depth(b, s0, p0)
<1>1. s0 \in Side /\ p0 \in LevelPrices(b, s0) /\ d \in Nat /\ ptr \in Slots(b)
  BY SMTT(30), ViewTypes, LiveSlots DEF BookInv, IndexedIsQueued
<1>2. PICK k \in 1..d :
        /\ Node(b, s0, p0, k) = ptr
        /\ BookTypeOK(c)
        /\ c.next_order_id = b.next_order_id
        /\ Slots(c) = Slots(b)
        /\ \A q : Deref(c, q) = Deref(b, q)
        /\ LiveIds(c) = LiveIds(b) \ {id}
        /\ \A i \in LiveIds(c) : /\ SideOf(c, i) = SideOf(b, i)
                                /\ PriceOf(c, i) = PriceOf(b, i)
                                /\ PtrOf(c, i) = PtrOf(b, i)
        /\ \A s \in Side : LevelPrices(c, s) =
               IF s = s0 /\ d = 1 THEN LevelPrices(b, s) \ {p0} ELSE LevelPrices(b, s)
        /\ \A s \in Side : \A p \in LevelPrices(b, s) :
               s # s0 \/ p # p0 => /\ Depth(c, s, p) = Depth(b, s, p)
                                   /\ \A i : Node(c, s, p, i) = Node(b, s, p, i)
        /\ d > 1 => /\ Depth(c, s0, p0) = d - 1
                    /\ \A j \in 1..d - 1 :
                          Node(c, s0, p0, j) =
                              IF j < k THEN Node(b, s0, p0, j) ELSE Node(b, s0, p0, j + 1)
        /\ c.pool.free_list = Append(b.pool.free_list, ptr)
  BY UnlinkFacts
<1> HIDE DEF c, s0, p0, d, ptr
<1>3. d = Depth(b, s0, p0) /\ s0 = SideOf(b, id) /\ p0 = PriceOf(b, id) /\ ptr = PtrOf(b, id)
  BY SMTT(30) DEF d, s0, p0, ptr
<1>4. \A s \in Side : \A p \in LevelPrices(b, s) :
          /\ Depth(b, s, p) \in Nat
          /\ \A i \in 1..Depth(b, s, p) :
                /\ Node(b, s, p, i) \in Slots(b)
                /\ Deref(b, Node(b, s, p, i)).id \in Nat
  BY ViewTypes DEF BookInv, QueuedIsIndexed
\* The place in b of node i of a level of c.
<1> DEFINE Was(s, p, i) == IF s = s0 /\ p = p0 /\ i >= k THEN i + 1 ELSE i
<1>5. ASSUME NEW s \in Side, NEW p \in LevelPrices(c, s)
      PROVE  /\ p \in LevelPrices(b, s)
             /\ s = s0 /\ p = p0 => d > 1
  BY <1>1, <1>2, <1>3
<1>6. ASSUME NEW s \in Side, NEW p \in LevelPrices(c, s), NEW i \in 1..Depth(c, s, p)
      PROVE  /\ Was(s, p, i) \in 1..Depth(b, s, p)
             /\ Node(c, s, p, i) = Node(b, s, p, Was(s, p, i))
             /\ s = s0 /\ p = p0 => Was(s, p, i) # k
  <2>1. CASE s = s0 /\ p = p0
    <3>1. d > 1
      BY <2>1, <1>5
    <3>2. i \in 1..d - 1 /\ Node(c, s0, p0, i) =
              IF i < k THEN Node(b, s0, p0, i) ELSE Node(b, s0, p0, i + 1)
      BY <2>1, <3>1, <1>2
    <3>3. CASE i < k
      BY SMTT(30), <2>1, <3>2, <3>3, <1>1, <1>3
    <3>4. CASE ~(i < k)
      BY SMTT(30), <2>1, <3>2, <3>4, <1>1, <1>3
    <3> QED BY <3>3, <3>4
  <2>2. CASE s # s0 \/ p # p0
    BY <2>2, <1>2, <1>5
  <2> QED BY <2>1, <2>2
\* No node of c is the order taken off.
<1>7. ASSUME NEW s \in Side, NEW p \in LevelPrices(c, s), NEW i \in 1..Depth(c, s, p)
      PROVE  Deref(b, Node(c, s, p, i)).id # id
  <2> DEFINE w == Was(s, p, i)
  <2>1. p \in LevelPrices(b, s) /\ w \in 1..Depth(b, s, p) /\ Node(c, s, p, i) = Node(b, s, p, w)
        /\ (s = s0 /\ p = p0 => w # k)
    BY <1>5, <1>6
  <2> HIDE DEF w
  <2> SUFFICES ASSUME Deref(b, Node(b, s, p, w)).id = id
               PROVE  FALSE
    BY <2>1
  <2>2. s = s0 /\ p = p0
    BY <1>3, <2>1 DEF BookInv, QueuedIsIndexed
  <2>3. w \in 1..d /\ w # k
    BY <1>3, <2>1, <2>2
  <2>4. Deref(b, Node(b, s0, p0, k)).id = id
    BY <1>2, <1>3, LiveSlots
  <2>5. \A i1, i2 \in 1..d : i1 < i2 =>
            Deref(b, Node(b, s0, p0, i1)).id < Deref(b, Node(b, s0, p0, i2)).id
    BY <1>1, <1>3 DEF BookInv, QueueInArrivalOrder
  <2>6. Deref(b, Node(b, s0, p0, w)).id = id
    BY <2>2
  <2>7. w < k \/ k < w
    BY <1>1, <2>3
  <2>8. id \in Nat
    BY ViewTypes DEF BookInv
  <2> QED BY SMTT(30), <2>3, <2>4, <2>5, <2>6, <2>7, <2>8
<1>8. QueuedIsIndexed(c)
  <2> SUFFICES ASSUME NEW s \in Side, NEW p \in LevelPrices(c, s), NEW i \in 1..Depth(c, s, p)
               PROVE  LET q == Node(c, s, p, i)
                          j == Deref(c, q).id
                      IN  /\ q \in Slots(c)
                          /\ Deref(c, q).side = s /\ Deref(c, q).price = p
                          /\ j \in LiveIds(c)
                          /\ SideOf(c, j) = s /\ PriceOf(c, j) = p /\ PtrOf(c, j) = q
    BY DEF QueuedIsIndexed
  <2> DEFINE w == Was(s, p, i)
  <2>1. p \in LevelPrices(b, s) /\ w \in 1..Depth(b, s, p) /\ Node(c, s, p, i) = Node(b, s, p, w)
    BY <1>5, <1>6
  <2> HIDE DEF w
  <2>2. LET q == Node(b, s, p, w)
            j == Deref(b, q).id
        IN  /\ q \in Slots(b)
            /\ Deref(b, q).side = s /\ Deref(b, q).price = p
            /\ j \in LiveIds(b)
            /\ SideOf(b, j) = s /\ PriceOf(b, j) = p /\ PtrOf(b, j) = q
    BY <2>1 DEF BookInv, QueuedIsIndexed
  <2>3. Deref(b, Node(b, s, p, w)).id # id
    BY <1>7, <2>1
  <2> QED BY SMTT(30), <1>2, <2>1, <2>2, <2>3
<1>9. IndexedIsQueued(c)
  <2> SUFFICES ASSUME NEW j \in LiveIds(c)
               PROVE  /\ j < c.next_order_id
                      /\ PriceOf(c, j) \in LevelPrices(c, SideOf(c, j))
                      /\ \E i \in 1..Depth(c, SideOf(c, j), PriceOf(c, j)) :
                             Node(c, SideOf(c, j), PriceOf(c, j), i) = PtrOf(c, j)
                      /\ Deref(c, PtrOf(c, j)).id = j
    BY DEF IndexedIsQueued, OrderOf
  <2> DEFINE s == SideOf(b, j)
             p == PriceOf(b, j)
  <2>1. j \in LiveIds(b) /\ j # id
        /\ SideOf(c, j) = s /\ PriceOf(c, j) = p /\ PtrOf(c, j) = PtrOf(b, j)
    BY <1>2
  <2>2. s \in Side /\ p \in LevelPrices(b, s) /\ Depth(b, s, p) \in Nat
    BY <2>1, ViewTypes DEF BookInv, IndexedIsQueued
  <2>3. PICK i \in 1..Depth(b, s, p) : Node(b, s, p, i) = PtrOf(b, j)
    BY <2>1 DEF BookInv, IndexedIsQueued
  <2>4. PtrOf(b, j) # ptr /\ Deref(b, PtrOf(b, j)).id = j
    BY SMTT(30), <2>1, <1>3, LiveSlots
  <2>5. j < c.next_order_id
    BY <1>2, <2>1 DEF BookInv, IndexedIsQueued
  <2> HIDE DEF s, p
  <2>6. p \in LevelPrices(c, s) /\ \E m \in 1..Depth(c, s, p) : Node(c, s, p, m) = PtrOf(b, j)
    <3>1. CASE s = s0 /\ p = p0
      <4>1. i \in 1..d /\ i # k /\ Node(b, s0, p0, i) = PtrOf(b, j)
        BY <3>1, <2>3, <2>4, <1>2, <1>3
      <4>2. d > 1
        BY <4>1, <1>1
      <4>3. /\ Depth(c, s0, p0) = d - 1
            /\ \A m \in 1..d - 1 :
                  Node(c, s0, p0, m) =
                      IF m < k THEN Node(b, s0, p0, m) ELSE Node(b, s0, p0, m + 1)
        BY <4>2, <1>2
      <4>4. CASE i < k
        <5>1. i \in 1..d - 1 /\ Node(c, s0, p0, i) = Node(b, s0, p0, i)
          BY SMTT(30), <4>1, <4>3, <4>4, <1>1
        <5> QED BY SMTT(30), <3>1, <4>1, <4>2, <4>3, <5>1, <1>1, <1>2
      <4>5. CASE ~(i < k)
        <5>1. i - 1 \in 1..d - 1 /\ ~(i - 1 < k) /\ (i - 1) + 1 = i
          BY <4>1, <4>5, <1>1
        <5>2. Node(c, s0, p0, i - 1) = Node(b, s0, p0, (i - 1) + 1)
          BY <4>3, <5>1
        <5> QED BY SMTT(30), <3>1, <4>1, <4>2, <4>3, <5>1, <5>2, <1>1, <1>2
      <4> QED BY <4>4, <4>5
    <3>2. CASE s # s0 \/ p # p0
      BY <3>2, <2>2, <2>3, <1>2
    <3> QED BY <3>1, <3>2
  <2> QED BY SMTT(30), <1>2, <2>1, <2>4, <2>5, <2>6
<1>10. NoEmptyLevel(c)
  <2> SUFFICES ASSUME NEW s \in Side, NEW p \in LevelPrices(c, s)
               PROVE  Depth(c, s, p) > 0
    BY DEF NoEmptyLevel
  <2>1. CASE s = s0 /\ p = p0
    BY SMTT(30), <2>1, <1>1, <1>2, <1>5
  <2>2. CASE s # s0 \/ p # p0
    BY SMTT(30), <2>2, <1>2, <1>5 DEF BookInv, NoEmptyLevel
  <2> QED BY <2>1, <2>2
<1>11. QueueInArrivalOrder(c)
  <2> SUFFICES ASSUME NEW s \in Side, NEW p \in LevelPrices(c, s),
                      NEW i \in 1..Depth(c, s, p), NEW j \in 1..Depth(c, s, p), i < j
               PROVE  Deref(c, Node(c, s, p, i)).id < Deref(c, Node(c, s, p, j)).id
    BY DEF QueueInArrivalOrder
  <2>1. Was(s, p, i) < Was(s, p, j)
    BY <1>1
  <2>2. /\ Was(s, p, i) \in 1..Depth(b, s, p) /\ Node(c, s, p, i) = Node(b, s, p, Was(s, p, i))
        /\ Was(s, p, j) \in 1..Depth(b, s, p) /\ Node(c, s, p, j) = Node(b, s, p, Was(s, p, j))
        /\ p \in LevelPrices(b, s)
    BY <1>5, <1>6
  <2> HIDE DEF Was
  <2>3. Deref(b, Node(b, s, p, Was(s, p, i))).id < Deref(b, Node(b, s, p, Was(s, p, j))).id
    BY SMTT(30), <2>1, <2>2 DEF BookInv, QueueInArrivalOrder
  <2> QED BY <1>2, <2>2, <2>3
<1>12. LET free == b.pool.free_list
       IN  /\ free \in Seq(Nat) /\ Len(free) \in Nat /\ ptr \in Nat
           /\ Len(c.pool.free_list) = Len(free) + 1
           /\ c.pool.free_list[Len(free) + 1] = ptr
           /\ \A i \in 1..Len(free) : c.pool.free_list[i] = free[i]
  <2> DEFINE free == b.pool.free_list
  <2>1. free \in Seq(Nat) /\ ptr \in Nat
    BY <1>1, ViewTypes DEF BookInv
  <2>2. c.pool.free_list = Append(free, ptr)
    BY <1>2
  <2> HIDE DEF free
  <2>3. /\ Len(free) \in Nat
        /\ Len(Append(free, ptr)) = Len(free) + 1
        /\ Append(free, ptr)[Len(free) + 1] = ptr
        /\ \A i \in 1..Len(free) : Append(free, ptr)[i] = free[i]
    BY SMTT(30), <2>1, AppendProperties, LenProperties
  <2> QED BY <2>1, <2>2, <2>3 DEF free
<1>13. \A i \in 1..Len(b.pool.free_list) : b.pool.free_list[i] # ptr
  BY SMTT(30), <1>1, <1>3 DEF BookInv, PoolPartitioned, IsFree
<1>14. FreeListSound(c)
  <2>1. /\ \A i \in 1..Len(b.pool.free_list) : b.pool.free_list[i] \in Slots(b)
        /\ \A i, j \in 1..Len(b.pool.free_list) :
              b.pool.free_list[i] = b.pool.free_list[j] => i = j
    BY SMTT(30) DEF BookInv, FreeListSound
  <2> DEFINE f == b.pool.free_list
             g == c.pool.free_list
  <2>2. /\ Len(f) \in Nat /\ Len(g) = Len(f) + 1 /\ g[Len(f) + 1] = ptr
        /\ \A i \in 1..Len(f) : g[i] = f[i] /\ f[i] # ptr /\ f[i] \in Slots(b)
        /\ \A i, j \in 1..Len(f) : f[i] = f[j] => i = j
    BY <1>12, <1>13, <2>1
  <2> HIDE DEF f, g
  <2>3. \A i \in 1..Len(g) : g[i] \in Slots(b)
    BY <1>1, <2>2
  <2>4. \A i, j \in 1..Len(g) : g[i] = g[j] => i = j
    BY <2>2
  <2> QED BY SMTT(30), <1>2, <2>3, <2>4 DEF FreeListSound, g
<1>15. PoolPartitioned(c)
  <2>1. \A q : IsFree(c, q) <=> IsFree(b, q) \/ q = ptr
    <3> DEFINE f == b.pool.free_list
               g == c.pool.free_list
    <3>1. /\ Len(f) \in Nat /\ Len(g) = Len(f) + 1 /\ g[Len(f) + 1] = ptr
          /\ \A i \in 1..Len(f) : g[i] = f[i]
      BY SMTT(30), <1>12
    <3> HIDE DEF f, g
    <3>2. \A q : (\E i \in 1..Len(g) : g[i] = q) <=> (\E i \in 1..Len(f) : f[i] = q) \/ q = ptr
      BY <3>1
    <3> QED BY SMTT(30), <3>2 DEF IsFree, f, g
  <2>2. \A q \in Slots(b) : IsFree(b, q) <=> \A i \in LiveIds(b) : PtrOf(b, i) # q
    BY DEF BookInv, PoolPartitioned
  <2>3. \A i \in LiveIds(b) : i # id => PtrOf(b, i) # ptr
    BY <1>3, LiveSlots
  <2> QED BY SMTT(30), <1>2, <1>3, <2>1, <2>2, <2>3 DEF PoolPartitioned
<1> QED
  BY SMTT(30), <1>2, <1>8, <1>9, <1>10, <1>11, <1>14, <1>15 DEF BookInv, c, ptr

-----------------------------------------------------------------------------

\* The public operations preserve the invariant.
LEMMA CancelOrderInv ==
  ASSUME NEW b, BookInv(b), NEW id
  PROVE  BookInv(cancel_order(b, id))
<1>1. CASE id \notin LiveIds(b)
  BY <1>1 DEF cancel_order
<1>2. CASE id \in LiveIds(b)
  <2> DEFINE ptr == PtrOf(b, id)
             o   == [OrderOf(b, id) EXCEPT !.status = "Cancelled"]
             c   == WriteOrder(b, ptr, o)
  <2>1. ptr \in Slots(b) /\ Deref(b, ptr) \in Order
    BY <1>2, LiveSlots, ViewTypes DEF BookInv
  <2>2. /\ o \in Order
        /\ o.id = Deref(b, ptr).id
        /\ o.side = Deref(b, ptr).side
        /\ o.price = Deref(b, ptr).price
    BY <2>1 DEF OrderOf, Order, OrderStatus
  <2> HIDE DEF o
  <2>3. BookInv(c)
    BY <2>1, <2>2, WriteOrderInv
  <2>4. c.lookup = b.lookup
    BY <2>1, <2>2, WriteOrderFacts DEF BookInv
  <2> HIDE DEF c
  <2>5. LiveIds(c) = LiveIds(b) /\ PtrOf(c, id) = ptr
    BY <2>4 DEF LiveIds, PtrOf
  <2>6. BookInv(Unlink(c, id, PtrOf(c, id)))
    BY <1>2, <2>3, <2>5, UnlinkInv
  <2> QED BY <1>2, <2>5, <2>6 DEF cancel_order, c, o
<1> QED
  BY <1>1, <1>2

\* next_order_id() uses up an ID and nothing else.
LEMMA NextOrderIdInv ==
  ASSUME NEW b, BookInv(b)
  PROVE  BookInv(next_order_id(b))
<1> DEFINE c == next_order_id(b)
<1>1. /\ b = [levels |-> b.levels, lookup |-> b.lookup, pool |-> b.pool,
              next_order_id |-> b.next_order_id]
      /\ b.next_order_id \in Nat \ {0}
  BY DEF BookInv, BookTypeOK
<1>2. c = [levels |-> b.levels, lookup |-> b.lookup, pool |-> b.pool,
           next_order_id |-> b.next_order_id + 1]
  BY <1>1 DEF next_order_id
<1> HIDE DEF c
<1>3. /\ c.levels = b.levels /\ c.lookup = b.lookup /\ c.pool = b.pool
      /\ c.next_order_id = b.next_order_id + 1
  BY <1>2
<1>4. BookTypeOK(c)
  <2>1. c.next_order_id \in Nat \ {0}
    BY <1>1, <1>3
  <2> QED BY <1>2, <1>3, <2>1 DEF BookInv, BookTypeOK
<1>5. /\ LiveIds(c) = LiveIds(b) /\ Slots(c) = Slots(b)
      /\ \A id : SideOf(c, id) = SideOf(b, id) /\ PriceOf(c, id) = PriceOf(b, id)
               /\ PtrOf(c, id) = PtrOf(b, id)
      /\ \A side : LevelPrices(c, side) = LevelPrices(b, side)
      /\ \A side, p : Depth(c, side, p) = Depth(b, side, p)
      /\ \A side, p, i : Node(c, side, p, i) = Node(b, side, p, i)
      /\ \A q : Deref(c, q) = Deref(b, q) /\ (IsFree(c, q) <=> IsFree(b, q))
  BY <1>3 DEF LiveIds, Slots, SideOf, PriceOf, PtrOf, LevelPrices, Depth, Node, Deref, IsFree
<1>6. QueuedIsIndexed(c)
  BY <1>5 DEF BookInv, QueuedIsIndexed
<1>7. IndexedIsQueued(c)
  <2>1. \A id \in LiveIds(b) : id \in Nat
    BY ViewTypes DEF BookInv
  <2> QED BY <1>1, <1>3, <1>5, <2>1 DEF BookInv, IndexedIsQueued, OrderOf
<1>8. NoEmptyLevel(c) /\ QueueInArrivalOrder(c)
  BY SMTT(30), <1>5 DEF BookInv, NoEmptyLevel, QueueInArrivalOrder
<1>9. FreeListSound(c) /\ PoolPartitioned(c)
  BY Zenon, <1>3, <1>5 DEF BookInv, FreeListSound, PoolPartitioned
<1> QED
  BY <1>4, <1>6, <1>7, <1>8, <1>9 DEF BookInv, c

\* reduce_order cancels an order or writes through one pointer; the book stays sound.
LEMMA ReduceOrderInv ==
  ASSUME NEW b, BookInv(b), NEW id, NEW new_quantity \in Nat
  PROVE  BookInv(reduce_order(b, id, new_quantity))
<1> DEFINE live == id \in LiveIds(b) /\ new_quantity < OrderOf(b, id).remaining_qty
           o    == [OrderOf(b, id) EXCEPT !.remaining_qty = new_quantity]
<1>1. CASE ~live
  BY <1>1 DEF reduce_order
<1>2. CASE live /\ new_quantity = 0
  BY <1>2, CancelOrderInv DEF reduce_order
<1>3. CASE live /\ new_quantity # 0
  <2>1. PtrOf(b, id) \in Slots(b) /\ Deref(b, PtrOf(b, id)) \in Order
    BY <1>3, LiveSlots, ViewTypes DEF BookInv
  <2>2. /\ o \in Order
        /\ o.id = Deref(b, PtrOf(b, id)).id
        /\ o.side = Deref(b, PtrOf(b, id)).side
        /\ o.price = Deref(b, PtrOf(b, id)).price
    BY <2>1 DEF OrderOf, Order
  <2> HIDE DEF o
  <2>3. BookInv(WriteOrder(b, PtrOf(b, id), o))
    BY <2>1, <2>2, WriteOrderInv
  <2> QED BY <1>3, <2>3 DEF reduce_order, o
<1> QED
  BY <1>1, <1>2, <1>3

\* remove_order through the pointer of a live order.
LEMMA RemoveOrderInv ==
  ASSUME NEW b, BookInv(b), NEW id \in LiveIds(b)
  PROVE  BookInv(remove_order(b, PtrOf(b, id)))
<1>1. Deref(b, PtrOf(b, id)).id = id
  BY LiveSlots
<1>2. remove_order(b, PtrOf(b, id)) = Unlink(b, id, PtrOf(b, id))
  BY <1>1 DEF remove_order
<1> QED
  BY <1>2, UnlinkInv

-----------------------------------------------------------------------------
(***************************************************************************)
(* The live orders of a book, through LiveIds, PtrOf and OrderOf: levels,  *)
(* index and pool come in through BookInv and the lemmas above only.       *)
(***************************************************************************)

\* A write through the pointer of a live order that keeps its ID, side and
\* price, as the match loop makes them: only this order changes.
LEMMA WriteLive ==
  ASSUME NEW b, BookInv(b), NEW id \in LiveIds(b), NEW o \in Order,
         o.id = OrderOf(b, id).id, o.side = OrderOf(b, id).side,
         o.price = OrderOf(b, id).price
  PROVE  LET c == WriteOrder(b, PtrOf(b, id), o)
         IN  /\ BookInv(c)
             /\ LiveIds(c) = LiveIds(b)
             /\ c.next_order_id = b.next_order_id
             /\ \A i \in LiveIds(b) : /\ PtrOf(c, i) = PtrOf(b, i)
                                     /\ OrderOf(c, i) = IF i = id THEN o ELSE OrderOf(b, i)
<1> DEFINE ptr == PtrOf(b, id)
           c   == WriteOrder(b, ptr, o)
<1>1. /\ \A i \in LiveIds(b) : PtrOf(b, i) \in Slots(b)
      /\ \A i \in LiveIds(b) : PtrOf(b, i) = ptr => i = id
  BY LiveSlots
<1>2. BookInv(c)
  BY <1>1, WriteOrderInv DEF OrderOf
<1>3. /\ c.lookup = b.lookup
      /\ c.next_order_id = b.next_order_id
      /\ \A q \in Slots(b) : Deref(c, q) = IF q = ptr THEN o ELSE Deref(b, q)
  BY <1>1, WriteOrderFacts DEF BookInv
<1> HIDE DEF c
<1>4. LiveIds(c) = LiveIds(b) /\ \A i : PtrOf(c, i) = PtrOf(b, i)
  BY <1>3 DEF LiveIds, PtrOf
<1>5. \A i \in LiveIds(b) : OrderOf(c, i) = IF i = id THEN o ELSE OrderOf(b, i)
  BY <1>1, <1>3, <1>4 DEF OrderOf
<1> QED
  BY <1>2, <1>3, <1>4, <1>5 DEF c

\* Taking a live order off the book leaves the others as they are.
LEMMA UnlinkLive ==
  ASSUME NEW b, BookInv(b), NEW id \in LiveIds(b)
  PROVE  LET c == Unlink(b, id, PtrOf(b, id))
         IN  /\ BookInv(c)
             /\ LiveIds(c) = LiveIds(b) \ {id}
             /\ c.next_order_id = b.next_order_id
             /\ \A i \in LiveIds(c) : /\ PtrOf(c, i) = PtrOf(b, i)
                                     /\ OrderOf(c, i) = OrderOf(b, i)
<1> DEFINE c == Unlink(b, id, PtrOf(b, id))
<1>1. BookInv(c)
  BY UnlinkInv
<1>2. /\ c.next_order_id = b.next_order_id
      /\ \A q : Deref(c, q) = Deref(b, q)
      /\ LiveIds(c) = LiveIds(b) \ {id}
      /\ \A i \in LiveIds(c) : PtrOf(c, i) = PtrOf(b, i)
  BY UnlinkFacts
<1> HIDE DEF c
<1>3. \A i \in LiveIds(c) : OrderOf(c, i) = OrderOf(b, i)
  BY <1>2 DEF OrderOf
<1> QED
  BY <1>1, <1>2, <1>3 DEF c

\* remove_order through the pointer of a live order.
LEMMA RemoveLive ==
  ASSUME NEW b, BookInv(b), NEW id \in LiveIds(b)
  PROVE  remove_order(b, PtrOf(b, id)) = Unlink(b, id, PtrOf(b, id))
<1>1. Deref(b, PtrOf(b, id)).id = id
  BY LiveSlots
<1> QED
  BY <1>1 DEF remove_order

\* add_order adds one live order, at the pointer the pool hands out.
LEMMA AddLive ==
  ASSUME NEW b, BookInv(b), NEW side \in Side, NEW type \in OrderType,
         NEW price \in Int, NEW quantity \in Nat
  PROVE  LET c  == add_order(b, side, type, price, quantity)
             id == b.next_order_id
         IN  /\ BookInv(c)
             /\ id \in Nat \ {0}
             /\ id \notin LiveIds(b)
             /\ LiveIds(c) = LiveIds(b) \cup {id}
             /\ c.next_order_id = id + 1
             /\ PtrOf(c, id) = acquired(b.pool)
             /\ OrderOf(c, id) = NewOrder(id, side, type, price, quantity)
             /\ \A i \in LiveIds(b) : /\ PtrOf(c, i) = PtrOf(b, i)
                                     /\ OrderOf(c, i) = OrderOf(b, i)
<1> DEFINE c   == add_order(b, side, type, price, quantity)
           id  == b.next_order_id
           new == acquired(b.pool)
<1>1. id \in Nat \ {0} /\ id \notin LiveIds(b)
  BY ViewTypes DEF BookInv, BookTypeOK, IndexedIsQueued
<1>2. \A i \in LiveIds(b) : PtrOf(b, i) \in Slots(b) /\ PtrOf(b, i) # new
  BY LiveSlots, AcquireFacts
<1>3. BookInv(c)
  BY AddOrderInv
<1>0. Added(b, c, side, type, price, quantity)
  BY AddOrderFacts
<1>4. /\ c.next_order_id = id + 1
      /\ Deref(c, new) = NewOrder(id, side, type, price, quantity)
      /\ \A q \in Slots(b) : q # new => Deref(c, q) = Deref(b, q)
      /\ LiveIds(c) = LiveIds(b) \cup {id}
      /\ PtrOf(c, id) = new
      /\ \A i \in LiveIds(b) : i # id => PtrOf(c, i) = PtrOf(b, i)
  <2> HIDE DEF c
  <2>1. /\ c.next_order_id = id + 1
        /\ Deref(c, new) = NewOrder(id, side, type, price, quantity)
    BY Zenon, <1>0 DEF Added
  <2>2. \A q \in Slots(b) : q # new => Deref(c, q) = Deref(b, q)
    BY Zenon, <1>0 DEF Added
  <2>3. LiveIds(c) = LiveIds(b) \cup {id} /\ PtrOf(c, id) = new
    BY Zenon, <1>0 DEF Added
  <2>4. \A i \in LiveIds(b) : i # id => PtrOf(c, i) = PtrOf(b, i)
    BY Zenon, <1>0 DEF Added
  <2> HIDE DEF id, new
  <2> QED BY <2>1, <2>2, <2>3, <2>4
<1> HIDE DEF c, id, new
<1>5. \A i \in LiveIds(b) : PtrOf(c, i) = PtrOf(b, i) /\ OrderOf(c, i) = OrderOf(b, i)
  BY <1>1, <1>2, <1>4 DEF OrderOf
<1>6. OrderOf(c, id) = NewOrder(id, side, type, price, quantity)
  BY <1>4 DEF OrderOf
<1> QED
  BY <1>1, <1>3, <1>4, <1>5, <1>6 DEF c, id, new

\* The key of map::begin() of a descending map: a set of integers that is
\* bounded and not empty has a greatest element.
LEMMA IntHasMax ==
  ASSUME NEW T \in SUBSET Int, T # {}, NEW m \in Int, \A x \in T : x =< m
  PROVE  \E x \in T : \A y \in T : y =< x
<1> DEFINE U == {m - x : x \in T}
<1>1. U \in SUBSET Nat /\ U # {}
  <2>1. \A x \in T : m - x \in Nat
    OBVIOUS
  <2> QED BY Zenon, <2>1
<1>2. PICK u \in U : \A v \in U : u =< v
  <2> HIDE DEF U
  <2> QED BY <1>1, NatHasMin
<1>3. PICK x \in T : u = m - x
  OBVIOUS
<1>4. \A y \in T : m - x =< m - y
  BY Zenon, <1>2, <1>3
<1>5. \A y \in T : y =< x
  BY <1>4
<1> QED BY Zenon, <1>5

\* A live order is an object of the pool that carries its ID.
LEMMA LiveOrder ==
  ASSUME NEW b, BookInv(b), NEW id \in LiveIds(b)
  PROVE  /\ OrderOf(b, id) \in Order
         /\ OrderOf(b, id).id = id
         /\ PtrOf(b, id) \in Slots(b)
<1>1. PtrOf(b, id) \in Slots(b) /\ OrderOf(b, id).id = id
  BY LiveSlots DEF OrderOf
<1>2. \A ptr \in Slots(b) : Deref(b, ptr) \in Order
  BY ViewTypes DEF BookInv
<1> QED
  BY <1>1, <1>2 DEF OrderOf

\* The order at the front of a level is live, of that side and that price.
LEMMA QueueFront ==
  ASSUME NEW b, BookInv(b), NEW side \in Side, NEW p \in LevelPrices(b, side)
  PROVE  LET ptr == Node(b, side, p, 1)
             id  == Deref(b, ptr).id
         IN  /\ Depth(b, side, p) > 0
             /\ ptr \in Slots(b)
             /\ id \in LiveIds(b)
             /\ PtrOf(b, id) = ptr
             /\ OrderOf(b, id).side = side /\ OrderOf(b, id).price = p
<1>1. Depth(b, side, p) \in Nat /\ Depth(b, side, p) > 0
  BY ViewTypes DEF BookInv, NoEmptyLevel
<1>2. 1 \in 1..Depth(b, side, p)
  BY <1>1
<1>3. QueuedIsIndexed(b)
  BY DEF BookInv
<1> QED
  BY <1>1, <1>2, <1>3 DEF QueuedIsIndexed, OrderOf

\* The front of the best level has price-time priority over every other live
\* order of its side: levels are compared by price, and a level is queued in
\* order of arrival.
LEMMA FrontHasPriority ==
  ASSUME NEW b, BookInv(b), NEW side \in Side, NEW p \in LevelPrices(b, side),
         IsBestLevel(b, side, p), NEW i \in LiveIds(b), OrderOf(b, i).side = side,
         i # Deref(b, Node(b, side, p, 1)).id
  PROVE  LET q == OrderOf(b, i).price
         IN  \/ Better(side, p, q)
             \/ p = q /\ Deref(b, Node(b, side, p, 1)).id < i
<1> DEFINE q == OrderOf(b, i).price
<1>1. SideOf(b, i) = side /\ PriceOf(b, i) = q
  BY LiveSlots DEF OrderOf
<1>2. q \in LevelPrices(b, side) /\ OrderOf(b, i).id = i
  BY <1>1 DEF BookInv, IndexedIsQueued
<1>3. PICK k \in 1..Depth(b, side, q) : Node(b, side, q, k) = PtrOf(b, i)
  BY <1>1 DEF BookInv, IndexedIsQueued
<1>4. p \in Int /\ q \in Int /\ Depth(b, side, q) \in Nat
  BY <1>2, ViewTypes DEF BookInv
<1>5. ~Better(side, q, p)
  BY <1>2 DEF IsBestLevel
<1>6. Deref(b, Node(b, side, q, k)).id = i
  BY <1>2, <1>3 DEF OrderOf
<1> HIDE DEF q
<1>7. CASE p = q
  <2>1. k # 1
    BY <1>6, <1>7
  <2>2. 1 \in 1..Depth(b, side, q) /\ 1 < k
    BY <1>3, <1>4, <2>1
  <2>3. Deref(b, Node(b, side, q, 1)).id < Deref(b, Node(b, side, q, k)).id
    BY <1>2, <1>3, <2>2 DEF BookInv, QueueInArrivalOrder
  <2> QED BY <1>6, <1>7, <2>3 DEF q
<1>8. CASE p # q
  <2>1. Better(side, p, q)
    BY <1>4, <1>5, <1>8 DEF Better
  <2> QED BY <2>1 DEF q
<1> QED
  BY <1>7, <1>8

-----------------------------------------------------------------------------
(***************************************************************************)
(* The risk checker.                                                       *)
(***************************************************************************)

\* A part of check returns a reason, and returns None only when the order
\* passes all its tests.
LEMMA FailureReason ==
  ASSUME NEW r, NEW order, NEW from \in 1..7, NEW to \in 1..7
  PROVE  /\ FirstFailure(r, order, from, to) \in RejectReason
         /\ FirstFailure(r, order, from, to) = "None" =>
               \A i \in from..to : ~Fails(r, order, Tests[i])
<1> DEFINE failed == {i \in from..to : Fails(r, order, Tests[i])}
<1>1. FirstFailure(r, order, from, to) = IF failed = {} THEN "None" ELSE Tests[Min(failed)]
  BY DEF FirstFailure
<1>2. \A i \in 1..7 : Tests[i] \in RejectReason \ {"None"}
  BY DEF Tests, RejectReason
<1>3. failed \in SUBSET (1..7) /\ failed \in SUBSET Nat
  OBVIOUS
<1>4. failed = {} => \A i \in from..to : ~Fails(r, order, Tests[i])
  OBVIOUS
<1> HIDE DEF failed
<1>5. failed # {} => Min(failed) \in failed
  <2>1. failed # {} => \E x \in failed : \A y \in failed : x =< y
    BY <1>3, NatHasMin
  <2> QED BY <2>1, Zenon DEF Min
<1>6. "None" \in RejectReason
  BY DEF RejectReason
<1> QED
  BY Zenon, <1>1, <1>2, <1>3, <1>4, <1>5, <1>6

\* check returns one of the reasons, and "None" only if no test fails.
LEMMA CheckResult ==
  ASSUME NEW r, NEW order
  PROVE  /\ check(r, order) \in RejectReason
         /\ check(r, order) = "None" =>
               \A test \in RejectReason \ {"None"} : ~Fails(r, order, test)
<1>1. check(r, order) = FirstFailure(r, order, 1, 7)
  BY DEF check, Tests
<1>2. \A test \in RejectReason \ {"None"} : \E i \in 1..7 : Tests[i] = test
  BY DEF Tests, RejectReason
<1> QED
  BY <1>1, <1>2, FailureReason

\* record_pass and record_reject keep the type of the statistics, and count
\* a check and, with a reason, a rejection.
LEMMA RecordedType ==
  ASSUME NEW s \in RiskStats, NEW reason \in RejectReason
  PROVE  /\ Recorded(s, reason) \in RiskStats
         /\ Recorded(s, reason).total_checks = s.total_checks + 1
         /\ Recorded(s, reason).total_rejections =
               s.total_rejections + (IF reason = "None" THEN 0 ELSE 1)
<1>1. /\ s.total_checks + 1 \in Nat
      /\ s.total_passes + 1 \in Nat
      /\ s.total_rejections + 1 \in Nat
      /\ s.by_reason[reason] + 1 \in Nat
  BY DEF RiskStats
<1>2. [s.by_reason EXCEPT ![reason] = s.by_reason[reason] + 1] \in [RejectReason -> Nat]
  BY <1>1 DEF RiskStats
<1>3. CASE reason = "None"
  <2>1. Recorded(s, reason) = [s EXCEPT !.total_checks = s.total_checks + 1,
                                        !.total_passes = s.total_passes + 1]
    BY <1>3 DEF Recorded
  <2>2. Recorded(s, reason) \in RiskStats
    BY Zenon, <1>1, <2>1 DEF RiskStats
  <2>3. /\ Recorded(s, reason).total_checks = s.total_checks + 1
        /\ Recorded(s, reason).total_rejections = s.total_rejections
    BY <2>1 DEF RiskStats
  <2>4. s.total_rejections \in Nat
    BY DEF RiskStats
  <2> QED BY <1>3, <2>2, <2>3, <2>4
<1>4. CASE reason # "None"
  <2> DEFINE n == [s.by_reason EXCEPT ![reason] = s.by_reason[reason] + 1]
  <2>1. Recorded(s, reason) = [s EXCEPT !.total_checks = s.total_checks + 1,
                                        !.total_rejections = s.total_rejections + 1,
                                        !.by_reason = n]
    BY Zenon, <1>4 DEF Recorded
  <2> HIDE DEF n
  <2>2. n \in [RejectReason -> Nat]
    BY <1>2 DEF n
  <2>3. Recorded(s, reason) \in RiskStats
    BY Zenon, <1>1, <2>1, <2>2 DEF RiskStats
  <2> QED BY <1>4, <2>1, <2>3 DEF RiskStats
<1> QED BY <1>3, <1>4

\* record_pass and record_reject keep the type of the statistics, also when
\* some of their increments are lost.
LEMMA RecordedStats ==
  ASSUME NEW s \in RiskStats, NEW reason \in RejectReason, NEW lost
  PROVE  [field \in DOMAIN s |-> IF field \in lost THEN s[field] ELSE Recorded(s, reason)[field]]
            \in RiskStats
<1> DEFINE u == Recorded(s, reason)
           w == [field \in DOMAIN s |-> IF field \in lost THEN s[field] ELSE u[field]]
<1>1. /\ s.total_checks \in Nat /\ s.total_passes \in Nat /\ s.total_rejections \in Nat
      /\ s.by_reason \in [RejectReason -> Nat]
      /\ DOMAIN s = {"total_checks", "total_passes", "total_rejections", "by_reason"}
  BY DEF RiskStats
<1>2. /\ u.total_checks \in Nat /\ u.total_passes \in Nat /\ u.total_rejections \in Nat
      /\ u.by_reason \in [RejectReason -> Nat]
  BY RecordedType DEF RiskStats
<1> HIDE DEF u
<1>3. /\ w["total_checks"] \in Nat /\ w["total_passes"] \in Nat /\ w["total_rejections"] \in Nat
      /\ w["by_reason"] \in [RejectReason -> Nat]
  BY <1>1, <1>2
<1>4. w = [total_checks |-> w["total_checks"], total_passes |-> w["total_passes"],
           total_rejections |-> w["total_rejections"], by_reason |-> w["by_reason"]]
  BY <1>1
<1> HIDE DEF w
<1>5. w \in RiskStats
  BY <1>3, <1>4 DEF RiskStats
<1> QED
  BY <1>5 DEF w, u
=============================================================================
