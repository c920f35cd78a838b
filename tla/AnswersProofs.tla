---------------------------- MODULE AnswersProofs ----------------------------
(***************************************************************************)
(* Proofs about Answers, for any form, any submission and any number of    *)
(* responses: sums, the rows that a submission leaves, and what they add   *)
(* to the tallies and to what is read back.                                *)
(***************************************************************************)
EXTENDS Answers, FiniteSetTheorems, WellFoundedInduction, TLAPS

(***************************************************************************)
(* Induction.  The set of what has the property stands in for it.          *)
(***************************************************************************)
LEMMA Counting ==
    ASSUME NEW Good, 0 \in Good, \A n \in Nat : n \in Good => n + 1 \in Good
    PROVE  Nat \subseteq Good
<1> DEFINE R == {p \in Nat \X Nat : p[1] < p[2]}
           Bad == Nat \ Good
<1> SUFFICES ASSUME Bad # {} PROVE FALSE
  OBVIOUS
<1>1. IsWellFoundedOn(R, Nat)
  BY NatLessThanWellFounded DEF OpToRel
<1>2. PICK n \in Bad : \A k \in Bad : ~ (<<k, n>> \in R)
  <2>1. Bad \subseteq Nat
    OBVIOUS
  <2> HIDE DEF R, Bad
  <2> QED BY <1>1, <2>1, WFMin
<1>3. n - 1 \in Nat /\ (n - 1) + 1 = n
  OBVIOUS
<1>4. n - 1 \in Bad
  BY <1>3
<1>5. <<n - 1, n>> \in R
  BY <1>3
<1> QED BY <1>2, <1>4, <1>5

LEMMA NonEmpty ==
    ASSUME NEW S, NEW n \in Nat, Cardinality(S) = n + 1
    PROVE  S # {}
<1>1. n + 1 # 0
  OBVIOUS
<1>2. Cardinality({}) = 0
  BY FS_EmptySet
<1> QED BY <1>1, <1>2

LEMMA OneLess ==
    ASSUME NEW S, IsFiniteSet(S), NEW n \in Nat, Cardinality(S) = n + 1, NEW x \in S
    PROVE  IsFiniteSet(S \ {x}) /\ Cardinality(S \ {x}) = n
<1>1. Cardinality(S \ {x}) = Cardinality(S) - 1 /\ IsFiniteSet(S \ {x})
  BY FS_RemoveElement
<1> QED BY <1>1

\* A property that the empty set has, and that stays when an element is added.
LEMMA Growing ==
    ASSUME NEW S, IsFiniteSet(S), NEW Good, {} \in Good,
           \A T \in SUBSET S : \A x \in S \ T : T \in Good => T \cup {x} \in Good
    PROVE  S \in Good
<1> DEFINE Sizes == {n \in Nat : \A T \in SUBSET S : Cardinality(T) = n => T \in Good}
<1>1. \A T \in SUBSET S : IsFiniteSet(T) /\ Cardinality(T) \in Nat
  BY FS_Subset, FS_CardinalityType
<1>2. 0 \in Sizes
  BY <1>1, FS_EmptySet
<1>3. ASSUME NEW n \in Nat, n \in Sizes PROVE n + 1 \in Sizes
  <2> SUFFICES ASSUME NEW T \in SUBSET S, Cardinality(T) = n + 1 PROVE T \in Good
    OBVIOUS
  <2>1. T # {}
    BY NonEmpty
  <2>2. PICK x \in T : TRUE
    BY <2>1
  <2>3. Cardinality(T \ {x}) = n /\ T \ {x} \in SUBSET S
    BY <1>1, OneLess
  <2>4. T \ {x} \in Good
    BY <1>3, <2>3
  <2>5. (T \ {x}) \cup {x} \in Good
    BY <2>3, <2>4
  <2>6. (T \ {x}) \cup {x} = T
    OBVIOUS
  <2> QED BY <2>5, <2>6
<1>4. Nat \subseteq Sizes
  <2> HIDE DEF Sizes
  <2> QED BY <1>2, <1>3, Counting
<1> QED BY <1>1, <1>4

(***************************************************************************)
(* Sums.  The fold of the library is a recursive function; that there is   *)
(* such a function, and only one, comes first.                             *)
(***************************************************************************)
SumOn(f, S) == SumFunctionOnSet(f, S)
Folding(f, S, iter) ==
    iter = [s \in SUBSET S |->
              IF s = {} THEN 0
              ELSE LET x == CHOOSE x \in s : TRUE IN f[x] + iter[s \ {x}]]

LEMMA SumChoice ==
    ASSUME NEW f, NEW S
    PROVE  SumOn(f, S) = (CHOOSE iter : Folding(f, S, iter))[S]
BY DEF SumOn, SumFunctionOnSet, FoldFunctionOnSet, MapThenFoldSet, Folding

\* A fold of the subsets with at most n elements.
Partial(f, S, n, iter) ==
    LET small == {s \in SUBSET S : Cardinality(s) <= n} IN
    iter = [s \in small |->
              IF s = {} THEN 0
              ELSE LET x == CHOOSE x \in s : TRUE IN f[x] + iter[s \ {x}]]

LEMMA FoldExists ==
    ASSUME NEW f, NEW S, IsFiniteSet(S)
    PROVE  \E iter : Folding(f, S, iter)
<1> DEFINE Sizes == {n \in Nat : \E iter : Partial(f, S, n, iter)}
           Pick(s) == CHOOSE x \in s : TRUE
<1>1. \A s \in SUBSET S : IsFiniteSet(s) /\ Cardinality(s) \in Nat
  BY FS_Subset, FS_CardinalityType
<1>2. \A s \in SUBSET S : s # {} =>
          Pick(s) \in s /\ s \ {Pick(s)} \in SUBSET S
          /\ Cardinality(s \ {Pick(s)}) = Cardinality(s) - 1
  BY <1>1, FS_RemoveElement
<1>3. 0 \in Sizes
  <2> DEFINE iter == [s \in {s \in SUBSET S : Cardinality(s) <= 0} |-> 0]
  <2>1. \A s \in SUBSET S : Cardinality(s) <= 0 => s = {}
    BY <1>1, FS_EmptySet
  <2>2. Partial(f, S, 0, iter)
    BY <2>1 DEF Partial
  <2> QED BY <2>2
<1>4. ASSUME NEW n \in Nat, n \in Sizes PROVE n + 1 \in Sizes
  <2>1. PICK old : Partial(f, S, n, old)
    BY <1>4
  <2> DEFINE new == [s \in {s \in SUBSET S : Cardinality(s) <= n + 1} |->
                       IF s = {} THEN 0 ELSE f[Pick(s)] + old[s \ {Pick(s)}]]
  <2>2. ASSUME NEW s \in SUBSET S, Cardinality(s) <= n PROVE new[s] = old[s]
    <3>1. s \in {t \in SUBSET S : Cardinality(t) <= n + 1}
      BY <1>1, <2>2
    <3>2. new[s] = IF s = {} THEN 0 ELSE f[Pick(s)] + old[s \ {Pick(s)}]
      BY <3>1
    <3>3. old[s] = IF s = {} THEN 0 ELSE f[Pick(s)] + old[s \ {Pick(s)}]
      BY <2>1, <2>2 DEF Partial
    <3> QED BY <3>2, <3>3
  <2>3. ASSUME NEW s \in SUBSET S, Cardinality(s) <= n + 1, s # {}
        PROVE  new[s \ {Pick(s)}] = old[s \ {Pick(s)}]
    <3>1. Cardinality(s \ {Pick(s)}) <= n /\ s \ {Pick(s)} \in SUBSET S
      BY <1>1, <1>2, <2>3
    <3> HIDE DEF new, Pick
    <3> QED BY <2>2, <3>1
  <2>4. new = [s \in {s \in SUBSET S : Cardinality(s) <= n + 1} |->
                 IF s = {} THEN 0 ELSE f[Pick(s)] + new[s \ {Pick(s)}]]
    <3> DEFINE small == {s \in SUBSET S : Cardinality(s) <= n + 1}
               value(s) == IF s = {} THEN 0 ELSE f[Pick(s)] + old[s \ {Pick(s)}]
               other(s) == IF s = {} THEN 0 ELSE f[Pick(s)] + new[s \ {Pick(s)}]
    <3>1. \A s \in small : value(s) = other(s)
      <4> HIDE DEF new, Pick
      <4> QED BY <2>3
    <3>2. new = [s \in small |-> value(s)]
      OBVIOUS
    <3>3. [s \in small |-> value(s)] = [s \in small |-> other(s)]
      <4> HIDE DEF small, value, other
      <4> QED BY <3>1
    <3> QED BY <3>2, <3>3
  <2>5. Partial(f, S, n + 1, new)
    <3> HIDE DEF new
    <3> QED BY <2>4 DEF Partial
  <2> QED BY <2>5
<1>5. Cardinality(S) \in Sizes
  <2> HIDE DEF Sizes
  <2> QED BY <1>1, <1>3, <1>4, Counting
<1>6. PICK iter : Partial(f, S, Cardinality(S), iter)
  BY <1>5
<1>7. {s \in SUBSET S : Cardinality(s) <= Cardinality(S)} = SUBSET S
  BY FS_Subset
<1> QED BY <1>6, <1>7 DEF Partial, Folding

LEMMA FoldUnique ==
    ASSUME NEW f, NEW S, NEW T \in SUBSET S, IsFiniteSet(T),
           NEW g, Folding(f, S, g), NEW h, Folding(f, T, h)
    PROVE  g[T] = h[T]
<1> DEFINE Pick(s) == CHOOSE x \in s : TRUE
           Sizes == {n \in Nat : \A s \in SUBSET T : Cardinality(s) = n => g[s] = h[s]}
<1>1. \A s \in SUBSET T : IsFiniteSet(s) /\ Cardinality(s) \in Nat
  BY FS_Subset, FS_CardinalityType
<1>2. \A s \in SUBSET T :
          /\ g[s] = IF s = {} THEN 0 ELSE f[Pick(s)] + g[s \ {Pick(s)}]
          /\ h[s] = IF s = {} THEN 0 ELSE f[Pick(s)] + h[s \ {Pick(s)}]
  BY DEF Folding
<1>3. 0 \in Sizes
  BY <1>1, <1>2, FS_EmptySet
<1>4. ASSUME NEW n \in Nat, n \in Sizes PROVE n + 1 \in Sizes
  <2> SUFFICES ASSUME NEW s \in SUBSET T, Cardinality(s) = n + 1 PROVE g[s] = h[s]
    OBVIOUS
  <2>1. s # {}
    BY NonEmpty
  <2>2. Pick(s) \in s
    BY <2>1
  <2>3. s \ {Pick(s)} \in SUBSET T /\ Cardinality(s \ {Pick(s)}) = n
    <3> HIDE DEF Pick
    <3> QED BY <1>1, <2>2, OneLess
  <2>4. g[s \ {Pick(s)}] = h[s \ {Pick(s)}]
    BY <1>4, <2>3
  <2> QED BY <1>2, <2>1, <2>4
<1>5. Cardinality(T) \in Sizes
  <2> HIDE DEF Sizes
  <2> QED BY <1>1, <1>3, <1>4, Counting
<1> QED BY <1>5

\* What the definition of the fold says.
LEMMA SumDef ==
    ASSUME NEW f, NEW S, IsFiniteSet(S)
    PROVE  SumOn(f, S) = IF S = {} THEN 0
                         ELSE LET x == CHOOSE x \in S : TRUE IN f[x] + SumOn(f, S \ {x})
<1> DEFINE g == CHOOSE iter : Folding(f, S, iter)
           x == CHOOSE x \in S : TRUE
           T == S \ {x}
           h == CHOOSE iter : Folding(f, T, iter)
<1>1. Folding(f, S, g)
  BY FoldExists
<1>2. T \in SUBSET S /\ IsFiniteSet(T)
  BY FS_RemoveElement
<1>3. Folding(f, T, h)
  BY <1>2, FoldExists
<1>4. SumOn(f, S) = g[S] /\ SumOn(f, T) = h[T]
  BY SumChoice
<1>5. g[S] = IF S = {} THEN 0 ELSE f[x] + g[T]
  <2> HIDE DEF g
  <2> QED BY <1>1 DEF Folding
<1>6. g[T] = h[T]
  <2> HIDE DEF g, h, T
  <2> QED BY <1>1, <1>2, <1>3, FoldUnique
<1> QED BY <1>4, <1>5, <1>6

LEMMA SumEmpty == \A f : SumOn(f, {}) = 0
BY SumDef, FS_EmptySet

LEMMA SumInt ==
    ASSUME NEW f, NEW S, IsFiniteSet(S), \A s \in S : f[s] \in Int
    PROVE  SumOn(f, S) \in Int
<1> DEFINE Sizes == {n \in Nat : \A T \in SUBSET S : Cardinality(T) = n => SumOn(f, T) \in Int}
<1>1. \A T \in SUBSET S : IsFiniteSet(T) /\ Cardinality(T) \in Nat
  BY FS_Subset, FS_CardinalityType
<1>2. 0 \in Sizes
  BY <1>1, FS_EmptySet, SumEmpty
<1>3. ASSUME NEW n \in Nat, n \in Sizes PROVE n + 1 \in Sizes
  <2> SUFFICES ASSUME NEW T \in SUBSET S, Cardinality(T) = n + 1 PROVE SumOn(f, T) \in Int
    OBVIOUS
  <2> DEFINE c == CHOOSE c \in T : TRUE
  <2>1. c \in T /\ T # {}
    BY NonEmpty
  <2>2. SumOn(f, T) = f[c] + SumOn(f, T \ {c})
    BY <1>1, <2>1, SumDef
  <2> HIDE DEF c
  <2>3. T \ {c} \in SUBSET S /\ Cardinality(T \ {c}) = n
    BY <1>1, <2>1, OneLess
  <2>4. f[c] \in Int /\ SumOn(f, T \ {c}) \in Int
    BY <1>3, <2>1, <2>3
  <2> QED BY <2>2, <2>4
<1>4. Cardinality(S) \in Sizes
  <2> HIDE DEF Sizes
  <2> QED BY <1>1, <1>2, <1>3, Counting
<1> QED BY <1>4

\* Any element can be taken out first.
LEMMA SumTake ==
    ASSUME NEW f, NEW S, IsFiniteSet(S), \A s \in S : f[s] \in Int
    PROVE  \A x \in S : SumOn(f, S) = f[x] + SumOn(f, S \ {x})
<1> DEFINE Fine(T) == \A x \in T : SumOn(f, T) = f[x] + SumOn(f, T \ {x})
           Sizes == {n \in Nat : \A T \in SUBSET S : Cardinality(T) = n => Fine(T)}
<1>1. \A T \in SUBSET S : IsFiniteSet(T) /\ Cardinality(T) \in Nat
  BY FS_Subset, FS_CardinalityType
<1>2. \A T \in SUBSET S : SumOn(f, T) \in Int
  BY <1>1, SumInt
<1>3. 0 \in Sizes
  BY <1>1, FS_EmptySet
<1>4. ASSUME NEW n \in Nat, n \in Sizes PROVE n + 1 \in Sizes
  <2> SUFFICES ASSUME NEW T \in SUBSET S, Cardinality(T) = n + 1 PROVE Fine(T)
    OBVIOUS
  <2> DEFINE c == CHOOSE c \in T : TRUE
  <2>1. c \in T /\ T # {}
    BY NonEmpty
  <2>2. SumOn(f, T) = f[c] + SumOn(f, T \ {c})
    BY <1>1, <2>1, SumDef
  <2> HIDE DEF c
  <2>3. ASSUME NEW x \in T, x # c PROVE SumOn(f, T) = f[x] + SumOn(f, T \ {x})
    <3> DEFINE rest == SumOn(f, (T \ {c}) \ {x})
    <3>1. SumOn(f, T \ {c}) = f[x] + rest
      <4>1. T \ {c} \in SUBSET S /\ Cardinality(T \ {c}) = n /\ x \in T \ {c}
        BY <1>1, <2>1, <2>3, OneLess
      <4> QED BY <1>4, <4>1
    <3>2. SumOn(f, T \ {x}) = f[c] + rest
      <4>1. T \ {x} \in SUBSET S /\ Cardinality(T \ {x}) = n /\ c \in T \ {x}
        BY <1>1, <2>1, <2>3, OneLess
      <4>2. (T \ {c}) \ {x} = (T \ {x}) \ {c}
        OBVIOUS
      <4> QED BY <1>4, <4>1, <4>2
    <3>3. rest \in Int /\ f[x] \in Int /\ f[c] \in Int
      <4>1. (T \ {c}) \ {x} \in SUBSET S
        OBVIOUS
      <4> QED BY <1>2, <2>1, <4>1
    <3> HIDE DEF rest
    <3> QED BY <2>2, <3>1, <3>2, <3>3
  <2> QED BY <2>2, <2>3
<1>5. Cardinality(S) \in Sizes
  <2> HIDE DEF Sizes
  <2> QED BY <1>1, <1>3, <1>4, Counting
<1> QED BY <1>5

LEMMA SumAdd ==
    ASSUME NEW f, NEW S, IsFiniteSet(S), NEW x, x \notin S, \A s \in S \cup {x} : f[s] \in Int
    PROVE  SumOn(f, S \cup {x}) = f[x] + SumOn(f, S) /\ SumOn(f, S) \in Int
<1>1. IsFiniteSet(S \cup {x}) /\ (S \cup {x}) \ {x} = S /\ x \in S \cup {x}
  BY FS_AddElement
<1>2. SumOn(f, S \cup {x}) = f[x] + SumOn(f, (S \cup {x}) \ {x})
  BY <1>1, SumTake
<1> QED BY <1>1, <1>2, SumInt

LEMMA SumEqual ==
    ASSUME NEW f, NEW g, NEW S, IsFiniteSet(S),
           \A s \in S : f[s] \in Int /\ g[s] = f[s]
    PROVE  SumOn(g, S) = SumOn(f, S)
<1> DEFINE Good == {T \in SUBSET S : SumOn(g, T) = SumOn(f, T)}
<1>1. {} \in Good
  BY SumEmpty
<1>2. ASSUME NEW T \in SUBSET S, NEW x \in S \ T, T \in Good PROVE T \cup {x} \in Good
  <2>1. IsFiniteSet(T)
    BY FS_Subset
  <2>2. SumOn(f, T \cup {x}) = f[x] + SumOn(f, T) /\ SumOn(g, T \cup {x}) = g[x] + SumOn(g, T)
    BY <2>1, SumAdd
  <2> QED BY <1>2, <2>2
<1>3. S \in Good
  <2> HIDE DEF Good
  <2> QED BY <1>1, <1>2, Growing
<1> QED BY <1>3

LEMMA SumPlus ==
    ASSUME NEW f, NEW g, NEW h, NEW S, IsFiniteSet(S),
           \A s \in S : f[s] \in Int /\ g[s] \in Int /\ h[s] = f[s] + g[s]
    PROVE  SumOn(h, S) = SumOn(f, S) + SumOn(g, S)
<1> DEFINE Good == {T \in SUBSET S : SumOn(h, T) = SumOn(f, T) + SumOn(g, T)}
<1>1. {} \in Good
  BY SumEmpty
<1>2. ASSUME NEW T \in SUBSET S, NEW x \in S \ T, T \in Good PROVE T \cup {x} \in Good
  <2>1. IsFiniteSet(T)
    BY FS_Subset
  <2>2. /\ SumOn(f, T \cup {x}) = f[x] + SumOn(f, T) /\ SumOn(f, T) \in Int
        /\ SumOn(g, T \cup {x}) = g[x] + SumOn(g, T) /\ SumOn(g, T) \in Int
    BY <2>1, SumAdd
  <2>3. SumOn(h, T \cup {x}) = h[x] + SumOn(h, T)
    <3>1. \A s \in T \cup {x} : h[s] \in Int
      OBVIOUS
    <3> QED BY <2>1, <3>1, SumAdd
  <2> QED BY <1>2, <2>2, <2>3
<1>3. S \in Good
  <2> HIDE DEF Good
  <2> QED BY <1>1, <1>2, Growing
<1> QED BY <1>3

LEMMA SumOrder ==
    ASSUME NEW f, NEW g, NEW S, IsFiniteSet(S),
           \A s \in S : f[s] \in Int /\ g[s] \in Int /\ f[s] <= g[s]
    PROVE  SumOn(f, S) <= SumOn(g, S)
<1> DEFINE Good == {T \in SUBSET S : SumOn(f, T) <= SumOn(g, T)}
<1>1. {} \in Good
  BY SumEmpty
<1>2. ASSUME NEW T \in SUBSET S, NEW x \in S \ T, T \in Good PROVE T \cup {x} \in Good
  <2>1. IsFiniteSet(T)
    BY FS_Subset
  <2>2. /\ SumOn(f, T \cup {x}) = f[x] + SumOn(f, T) /\ SumOn(f, T) \in Int
        /\ SumOn(g, T \cup {x}) = g[x] + SumOn(g, T) /\ SumOn(g, T) \in Int
    BY <2>1, SumAdd
  <2> QED BY <1>2, <2>2
<1>3. S \in Good
  <2> HIDE DEF Good
  <2> QED BY <1>1, <1>2, Growing
<1> QED BY <1>3

LEMMA SumZero ==
    ASSUME NEW f, NEW S, IsFiniteSet(S), \A s \in S : f[s] = 0
    PROVE  SumOn(f, S) = 0
<1> DEFINE Good == {T \in SUBSET S : SumOn(f, T) = 0}
<1>1. {} \in Good
  BY SumEmpty
<1>2. ASSUME NEW T \in SUBSET S, NEW x \in S \ T, T \in Good PROVE T \cup {x} \in Good
  <2>1. IsFiniteSet(T)
    BY FS_Subset
  <2>2. SumOn(f, T \cup {x}) = f[x] + SumOn(f, T)
    BY <2>1, SumAdd
  <2> QED BY <1>2, <2>2
<1>3. S \in Good
  <2> HIDE DEF Good
  <2> QED BY <1>1, <1>2, Growing
<1> QED BY <1>3

LEMMA SumNat ==
    ASSUME NEW f, NEW S, IsFiniteSet(S), \A s \in S : f[s] \in Nat
    PROVE  SumOn(f, S) \in Nat
<1> DEFINE none == [s \in S |-> 0]
<1>1. SumOn(none, S) = 0
  BY SumZero
<1>2. SumOn(none, S) <= SumOn(f, S)
  BY SumOrder
<1>3. SumOn(f, S) \in Int
  BY SumInt
<1> QED BY <1>1, <1>2, <1>3

\* One element is worth something.
LEMMA SumOne ==
    ASSUME NEW f, NEW S, IsFiniteSet(S), NEW x \in S, f[x] \in Int, \A s \in S \ {x} : f[s] = 0
    PROVE  SumOn(f, S) = f[x]
<1>1. SumOn(f, S) = f[x] + SumOn(f, S \ {x})
  BY SumTake
<1>2. SumOn(f, S \ {x}) = 0
  BY FS_RemoveElement, SumZero
<1> QED BY <1>1, <1>2

\* What is worth nothing can be left out.
LEMMA SumDrop ==
    ASSUME NEW f, NEW S, IsFiniteSet(S), NEW T \in SUBSET S,
           \A s \in S : f[s] \in Int, \A s \in S \ T : f[s] = 0
    PROVE  SumOn(f, S) = SumOn(f, T)
<1> DEFINE Good == {U \in SUBSET (S \ T) : SumOn(f, T \cup U) = SumOn(f, T)}
<1>1. {} \in Good
  OBVIOUS
<1>2. ASSUME NEW U \in SUBSET (S \ T), NEW x \in (S \ T) \ U, U \in Good
      PROVE  U \cup {x} \in Good
  <2>1. T \cup U \in SUBSET S /\ IsFiniteSet(T \cup U) /\ x \notin T \cup U
    BY FS_Subset
  <2>2. /\ SumOn(f, (T \cup U) \cup {x}) = f[x] + SumOn(f, T \cup U)
        /\ SumOn(f, T \cup U) \in Int
    BY <2>1, SumAdd
  <2>3. (T \cup U) \cup {x} = T \cup (U \cup {x})
    OBVIOUS
  <2>4. f[x] = 0
    OBVIOUS
  <2> QED BY <1>2, <2>2, <2>3, <2>4
<1>3. S \ T \in Good
  <2>1. IsFiniteSet(S \ T)
    BY FS_Difference
  <2> HIDE DEF Good
  <2> QED BY <1>1, <1>2, <2>1, Growing
<1>4. T \cup (S \ T) = S
  OBVIOUS
<1> QED BY <1>3, <1>4

\* A sum over what the elements are mapped to, if no two are mapped to the same.
LEMMA SumMoved ==
    ASSUME NEW f, NEW p, NEW g, NEW S, IsFiniteSet(S),
           \A s, t \in S : p[s] = p[t] => s = t,
           \A s \in S : f[p[s]] \in Int /\ g[s] = f[p[s]]
    PROVE  SumOn(g, S) = SumOn(f, {p[s] : s \in S})
<1> DEFINE Moved(T) == {p[s] : s \in T}
           Good == {T \in SUBSET S : IsFiniteSet(Moved(T)) /\ SumOn(g, T) = SumOn(f, Moved(T))}
<1>1. {} \in Good
  <2>1. Moved({}) = {}
    OBVIOUS
  <2> HIDE DEF Moved
  <2> QED BY <2>1, SumEmpty, FS_EmptySet
<1>2. ASSUME NEW T \in SUBSET S, NEW x \in S \ T, T \in Good PROVE T \cup {x} \in Good
  <2>1. IsFiniteSet(T) /\ IsFiniteSet(Moved(T)) /\ SumOn(g, T) = SumOn(f, Moved(T))
    BY <1>2, FS_Subset
  <2>2. SumOn(g, T \cup {x}) = g[x] + SumOn(g, T)
    BY <2>1, SumAdd
  <2>3. Moved(T \cup {x}) = Moved(T) \cup {p[x]} /\ p[x] \notin Moved(T)
    OBVIOUS
  <2>4. \A y \in Moved(T) \cup {p[x]} : f[y] \in Int
    OBVIOUS
  <2>5. g[x] = f[p[x]]
    OBVIOUS
  <2> HIDE DEF Moved
  <2>6. SumOn(f, Moved(T) \cup {p[x]}) = f[p[x]] + SumOn(f, Moved(T))
    BY <2>1, <2>3, <2>4, SumAdd
  <2>7. IsFiniteSet(Moved(T) \cup {p[x]})
    BY <2>1, FS_AddElement
  <2> QED BY <2>1, <2>2, <2>3, <2>5, <2>6, <2>7
<1>3. S \in Good
  <2> HIDE DEF Good
  <2> QED BY <1>1, <1>2, Growing
<1> QED BY <1>3

LEMMA SumOnes ==
    ASSUME NEW f, NEW S, IsFiniteSet(S), \A s \in S : f[s] = 1
    PROVE  SumOn(f, S) = Cardinality(S)
<1> DEFINE Good == {T \in SUBSET S : SumOn(f, T) = Cardinality(T)}
<1>1. {} \in Good
  BY SumEmpty, FS_EmptySet
<1>2. ASSUME NEW T \in SUBSET S, NEW x \in S \ T, T \in Good PROVE T \cup {x} \in Good
  <2>1. IsFiniteSet(T)
    BY FS_Subset
  <2>2. SumOn(f, T \cup {x}) = f[x] + SumOn(f, T)
    BY <2>1, SumAdd
  <2>3. Cardinality(T \cup {x}) = Cardinality(T) + 1 /\ Cardinality(T) \in Nat
    BY <2>1, FS_AddElement, FS_CardinalityType
  <2> QED BY <1>2, <2>2, <2>3
<1>3. S \in Good
  <2> HIDE DEF Good
  <2> QED BY <1>1, <1>2, Growing
<1> QED BY <1>3

LEMMA SumOfFirst ==
    ASSUME NEW n \in Nat, NEW f, \A i \in 1..n : f[i] = i
    PROVE  2 * SumOn(f, 1..n) = n * (n + 1)
<1> DEFINE Good == {m \in Nat : m <= n => 2 * SumOn(f, 1..m) = m * (m + 1)}
<1>1. 0 \in Good
  <2>1. 1..0 = {}
    OBVIOUS
  <2> QED BY <2>1, SumEmpty
<1>2. ASSUME NEW m \in Nat, m \in Good PROVE m + 1 \in Good
  <2> SUFFICES ASSUME m + 1 <= n PROVE 2 * SumOn(f, 1..(m + 1)) = (m + 1) * ((m + 1) + 1)
    OBVIOUS
  <2>1. IsFiniteSet(1..m) /\ m + 1 \notin 1..m /\ 1..(m + 1) = (1..m) \cup {m + 1}
    BY FS_Interval
  <2>2. \A i \in (1..m) \cup {m + 1} : f[i] = i /\ f[i] \in Int
    OBVIOUS
  <2>3. SumOn(f, (1..m) \cup {m + 1}) = f[m + 1] + SumOn(f, 1..m) /\ SumOn(f, 1..m) \in Int
    BY <2>1, <2>2, SumAdd
  <2>4. 2 * SumOn(f, 1..m) = m * (m + 1)
    BY <1>2
  <2>5. f[m + 1] = m + 1
    BY <2>2
  <2>6. \A s \in Int : 2 * s = m * (m + 1) => 2 * ((m + 1) + s) = (m + 1) * ((m + 1) + 1)
    OBVIOUS
  <2> QED BY <2>1, <2>3, <2>4, <2>5, <2>6
<1>3. n \in Good
  <2> HIDE DEF Good
  <2> QED BY <1>1, <1>2, Counting
<1> QED BY <1>3

(***************************************************************************)
(* Bags of responses.                                                      *)
(***************************************************************************)
IsFiniteBag(B) == IsABag(B) /\ IsFiniteSet(DOMAIN B)

\* What the responses are worth together.
Worth(B, w) == SumOn([r \in DOMAIN B |-> B[r] * w[r]], DOMAIN B)

LEMMA OneMore ==
    ASSUME NEW B, IsFiniteBag(B), NEW x
    PROVE  LET C == B (+) SetToBag({x}) IN
           /\ IsFiniteBag(C) /\ DOMAIN C = DOMAIN B \cup {x}
           /\ C[x] = IF x \in DOMAIN B THEN B[x] + 1 ELSE 1
           /\ \A r \in DOMAIN B \ {x} : C[r] = B[r]
<1> DEFINE C == B (+) SetToBag({x})
<1>1. C = [e \in DOMAIN B \cup {x} |-> (IF e \in DOMAIN B THEN B[e] ELSE 0)
                                        + (IF e \in {x} THEN 1 ELSE 0)]
  BY DEF (+), SetToBag
<1>2. \A e \in DOMAIN B : B[e] \in Nat /\ B[e] > 0
  BY DEF IsFiniteBag, IsABag
<1>3. C \in [DOMAIN B \cup {x} -> {n \in Nat : n > 0}]
  <2> DEFINE copies(e) == (IF e \in DOMAIN B THEN B[e] ELSE 0) + (IF e \in {x} THEN 1 ELSE 0)
  <2>1. \A e \in DOMAIN B \cup {x} : copies(e) \in {n \in Nat : n > 0}
    BY <1>2
  <2>2. C = [e \in DOMAIN B \cup {x} |-> copies(e)]
    BY <1>1
  <2> HIDE DEF C, copies
  <2> QED BY <2>1, <2>2
<1>4. IsFiniteSet(DOMAIN B \cup {x})
  BY FS_AddElement DEF IsFiniteBag
<1>5. C[x] = IF x \in DOMAIN B THEN B[x] + 1 ELSE 1
  BY <1>1, <1>2
<1>6. \A r \in DOMAIN B \ {x} : C[r] = B[r]
  BY <1>1, <1>2
<1> HIDE DEF C
<1> QED BY <1>3, <1>4, <1>5, <1>6 DEF IsFiniteBag, IsABag, C

\* A response more is worth as much more.
LEMMA WorthMore ==
    ASSUME NEW B, IsFiniteBag(B), NEW x, NEW w, \A r \in DOMAIN B \cup {x} : w[r] \in Int
    PROVE  Worth(B (+) SetToBag({x}), w) = Worth(B, w) + w[x] /\ Worth(B, w) \in Int
<1> DEFINE C == B (+) SetToBag({x})
           f == [r \in DOMAIN B |-> B[r] * w[r]]
           g == [r \in DOMAIN C |-> C[r] * w[r]]
           rest == DOMAIN B \ {x}
<1>1. /\ IsFiniteBag(C) /\ DOMAIN C = DOMAIN B \cup {x}
      /\ C[x] = IF x \in DOMAIN B THEN B[x] + 1 ELSE 1
      /\ \A r \in rest : C[r] = B[r]
  BY OneMore
<1>2. Worth(C, w) = SumOn(g, DOMAIN C) /\ Worth(B, w) = SumOn(f, DOMAIN B)
  BY DEF Worth
<1>3. \A r \in DOMAIN B : B[r] \in Int /\ f[r] = B[r] * w[r] /\ f[r] \in Int
  BY DEF IsFiniteBag, IsABag
<1> HIDE DEF C
<1>4. \A r \in DOMAIN C : C[r] \in Int /\ g[r] = C[r] * w[r] /\ g[r] \in Int
  BY <1>1 DEF IsFiniteBag, IsABag
<1>5. \A r \in rest : g[r] = f[r]
  BY <1>1, <1>3, <1>4
<1>6. IsFiniteSet(DOMAIN C) /\ IsFiniteSet(DOMAIN B) /\ IsFiniteSet(rest)
  BY <1>1, FS_RemoveElement DEF IsFiniteBag
<1> HIDE DEF f, g
<1>7. SumOn(g, DOMAIN C) = g[x] + SumOn(g, rest)
  <2>1. DOMAIN C \ {x} = rest /\ x \in DOMAIN C
    BY <1>1
  <2> QED BY <1>4, <1>6, <2>1, SumTake
<1>8. SumOn(g, rest) = SumOn(f, rest) /\ SumOn(f, rest) \in Int
  <2>1. \A r \in rest : f[r] \in Int /\ g[r] = f[r]
    BY <1>3, <1>5
  <2> HIDE DEF rest
  <2> QED BY <1>6, <2>1, SumEqual, SumInt
<1>9. SumOn(f, DOMAIN B) \in Int
  BY <1>3, <1>6, SumInt
<1>10. CASE x \in DOMAIN B
  <2>1. SumOn(f, DOMAIN B) = f[x] + SumOn(f, rest)
    BY <1>3, <1>6, <1>10, SumTake
  <2>2. g[x] = (B[x] + 1) * w[x] /\ f[x] = B[x] * w[x] /\ B[x] \in Int /\ w[x] \in Int
    BY <1>1, <1>3, <1>4, <1>10
  <2>3. \A b, v \in Int : (b + 1) * v = b * v + v /\ b * v \in Int
    OBVIOUS
  <2>4. g[x] = f[x] + w[x] /\ f[x] \in Int
    BY <2>2, <2>3
  <2> QED BY <1>2, <1>7, <1>8, <1>9, <2>1, <2>2, <2>4 DEF C
<1>11. CASE x \notin DOMAIN B
  <2>1. rest = DOMAIN B
    BY <1>11
  <2>2. g[x] = 1 * w[x] /\ w[x] \in Int
    BY <1>1, <1>4, <1>11
  <2> QED BY <1>2, <1>7, <1>8, <1>9, <2>1, <2>2 DEF C
<1> QED BY <1>10, <1>11

(***************************************************************************)
(* The rows of a submission.                                               *)
(***************************************************************************)
Flattening(ss, n, g) ==
    g = [i \in 1..n |-> IF i = 1 THEN ss[i] ELSE g[i - 1] \o ss[i]]

LEMMA FlattenExists ==
    ASSUME NEW ss, NEW n \in Nat
    PROVE  \E g : Flattening(ss, n, g)
<1> DEFINE Good == {m \in Nat : \E g : Flattening(ss, m, g)}
<1>1. 0 \in Good
  <2>1. Flattening(ss, 0, [i \in 1..0 |-> 0])
    BY DEF Flattening
  <2> QED BY <2>1
<1>2. ASSUME NEW m \in Nat, m \in Good PROVE m + 1 \in Good
  <2>1. PICK old : Flattening(ss, m, old)
    BY <1>2
  <2> DEFINE value(i) == IF i = 1 THEN ss[i] ELSE old[i - 1] \o ss[i]
             new == [i \in 1..(m + 1) |-> value(i)]
             other(i) == IF i = 1 THEN ss[i] ELSE new[i - 1] \o ss[i]
  <2>2. \A i \in 1..m : i \in 1..(m + 1) /\ old[i] = value(i)
    <3>1. old = [i \in 1..m |-> value(i)]
      BY <2>1 DEF Flattening
    <3>2. \A i \in 1..m : [j \in 1..m |-> value(j)][i] = value(i)
      OBVIOUS
    <3> HIDE DEF value
    <3> QED BY <3>1, <3>2
  <2>3. \A i \in 1..m : new[i] = old[i]
    BY <2>2
  <2>4. \A i \in 1..(m + 1) : i # 1 => i - 1 \in 1..m
    OBVIOUS
  <2>5. \A i \in 1..(m + 1) : value(i) = other(i)
    <3> HIDE DEF new
    <3> QED BY <2>3, <2>4
  <2>6. new = [i \in 1..(m + 1) |-> other(i)]
    <3>1. [i \in 1..(m + 1) |-> value(i)] = [i \in 1..(m + 1) |-> other(i)]
      <4> HIDE DEF value, other
      <4> QED BY <2>5
    <3> QED BY <3>1
  <2>7. Flattening(ss, m + 1, new)
    <3> HIDE DEF new
    <3> QED BY <2>6 DEF Flattening
  <2> QED BY <2>7
<1>3. n \in Good
  <2> HIDE DEF Good
  <2> QED BY <1>1, <1>2, Counting
<1> QED BY <1>3

\* All elements of the first m sequences, and no others.
Joined(R, ss, s, m) ==
    /\ s \in Seq(R)
    /\ \A i \in DOMAIN s : \E j \in 1..m : \E k \in DOMAIN ss[j] : s[i] = ss[j][k]
    /\ \A j \in 1..m : \A k \in DOMAIN ss[j] : \E i \in DOMAIN s : s[i] = ss[j][k]

LEMMA FlattenFacts ==
    ASSUME NEW R, NEW ss \in Seq(Seq(R))
    PROVE  /\ FlattenSeq(ss) \in Seq(R)
           /\ \A i \in DOMAIN FlattenSeq(ss) : \E j \in DOMAIN ss : \E k \in DOMAIN ss[j] :
                 FlattenSeq(ss)[i] = ss[j][k]
           /\ \A j \in DOMAIN ss : \A k \in DOMAIN ss[j] : \E i \in DOMAIN FlattenSeq(ss) :
                 FlattenSeq(ss)[i] = ss[j][k]
<1> DEFINE n == Len(ss)
           g == CHOOSE g : Flattening(ss, n, g)
<1>1. n \in Nat /\ DOMAIN ss = 1..n /\ \A i \in 1..n : ss[i] \in Seq(R)
  OBVIOUS
<1>2. Flattening(ss, n, g)
  BY <1>1, FlattenExists
<1>3. \A i \in 1..n : g[i] = IF i = 1 THEN ss[i] ELSE g[i - 1] \o ss[i]
  <2> HIDE DEF g, n
  <2> QED BY <1>2 DEF Flattening
<1>4. FlattenSeq(ss) = IF n = 0 THEN ss ELSE g[n]
  BY DEF FlattenSeq, Flattening
<1> HIDE DEF g
<1> DEFINE Good == {m \in Nat : m < n => Joined(R, ss, g[m + 1], m + 1)}
<1>5. 0 \in Good
  <2> SUFFICES ASSUME 0 < n PROVE Joined(R, ss, g[1], 1)
    OBVIOUS
  <2>1. g[1] = ss[1] /\ ss[1] \in Seq(R) /\ 1..1 = {1}
    BY <1>1, <1>3
  <2> QED BY <2>1 DEF Joined
<1>6. ASSUME NEW m \in Nat, m \in Good PROVE m + 1 \in Good
  <2>0. (m + 1) + 1 = m + 2
    OBVIOUS
  <2> SUFFICES ASSUME m + 1 < n PROVE Joined(R, ss, g[m + 2], m + 2)
    BY <2>0
  <2> DEFINE s == g[m + 1]
             t == ss[m + 2]
  <2>1. m + 1 \in 1..n /\ m + 2 \in 1..n
    BY <1>1
  <2>2. Joined(R, ss, s, m + 1) /\ t \in Seq(R)
    <3>1. m < n
      BY <1>1
    <3>2. t \in Seq(R)
      BY <1>1, <2>1
    <3> QED BY <1>6, <3>1, <3>2
  <2>3. g[m + 2] = s \o t
    <3>1. m + 2 # 1 /\ (m + 2) - 1 = m + 1
      OBVIOUS
    <3> QED BY <1>3, <2>1, <3>1
  <2> HIDE DEF s, t
  <2>4. /\ s \o t \in Seq(R) /\ Len(s \o t) = Len(s) + Len(t)
        /\ \A i \in 1..Len(s) : (s \o t)[i] = s[i]
        /\ \A i \in 1..Len(t) : (s \o t)[Len(s) + i] = t[i]
        /\ DOMAIN s = 1..Len(s) /\ DOMAIN t = 1..Len(t) /\ Len(s) \in Nat /\ Len(t) \in Nat
        /\ DOMAIN (s \o t) = 1..Len(s \o t)
    BY <2>2 DEF Joined
  <2>5. ASSUME NEW i \in DOMAIN (s \o t)
        PROVE  \E j \in 1..(m + 2) : \E k \in DOMAIN ss[j] : (s \o t)[i] = ss[j][k]
    <3>1. CASE i <= Len(s)
      <4>1. i \in DOMAIN s /\ (s \o t)[i] = s[i]
        BY <2>4, <3>1
      <4>2. PICK j \in 1..(m + 1) : \E k \in DOMAIN ss[j] : s[i] = ss[j][k]
        BY <2>2, <4>1 DEF Joined
      <4>3. j \in 1..(m + 2)
        OBVIOUS
      <4> QED BY <4>1, <4>2, <4>3
    <3>2. CASE ~ (i <= Len(s))
      <4>1. i - Len(s) \in 1..Len(t) /\ Len(s) + (i - Len(s)) = i
        BY <2>4, <3>2
      <4>2. (s \o t)[Len(s) + (i - Len(s))] = t[i - Len(s)]
        BY <2>4, <4>1
      <4>3. i - Len(s) \in DOMAIN ss[m + 2] /\ (s \o t)[i] = ss[m + 2][i - Len(s)]
        BY <2>4, <4>1, <4>2 DEF t
      <4>4. m + 2 \in 1..(m + 2)
        OBVIOUS
      <4> QED BY <4>3, <4>4
    <3> QED BY <3>1, <3>2
  <2>6. ASSUME NEW j \in 1..(m + 2), NEW k \in DOMAIN ss[j]
        PROVE  \E i \in DOMAIN (s \o t) : (s \o t)[i] = ss[j][k]
    <3>1. CASE j = m + 2
      <4>1. k \in 1..Len(t) /\ ss[j][k] = t[k]
        BY <2>4, <3>1 DEF t
      <4>2. (s \o t)[Len(s) + k] = t[k] /\ Len(s) + k \in DOMAIN (s \o t)
        BY <2>4, <4>1
      <4> QED BY <4>1, <4>2
    <3>2. CASE j # m + 2
      <4>1. j \in 1..(m + 1)
        BY <3>2
      <4>2. PICK i \in DOMAIN s : s[i] = ss[j][k]
        BY <2>2, <4>1 DEF Joined
      <4>3. i \in DOMAIN (s \o t) /\ (s \o t)[i] = s[i]
        BY <2>4
      <4> QED BY <4>2, <4>3
    <3> QED BY <3>1, <3>2
  <2>7. s \o t \in Seq(R)
    BY <2>4
  <2> HIDE DEF Good
  <2>8. Joined(R, ss, s \o t, m + 2)
    BY ONLY <2>5, <2>6, <2>7 DEF Joined
  <2> QED BY ONLY <2>3, <2>8
<1>7. \A m \in Nat : m \in Good
  <2> HIDE DEF Good
  <2> QED BY <1>5, <1>6, Counting
<1>8. CASE n = 0
  <2>1. FlattenSeq(ss) = ss /\ DOMAIN ss = {} /\ ss = <<>>
    BY <1>1, <1>4, <1>8
  <2> QED BY <2>1
<1>9. CASE n # 0
  <2>1. n - 1 \in Nat /\ (n - 1) + 1 = n
    BY <1>1, <1>9
  <2>2. n - 1 \in Good
    BY <1>7, <2>1
  <2>3. Joined(R, ss, g[n], n)
    BY <1>1, <2>1, <2>2
  <2>4. FlattenSeq(ss) = g[n] /\ DOMAIN ss = 1..n
    BY <1>1, <1>4, <1>9
  <2> HIDE DEF n, Good
  <2>5. Joined(R, ss, FlattenSeq(ss), n)
    BY ONLY <2>3, <2>4
  <2>6. FlattenSeq(ss) \in Seq(R)
    BY ONLY <2>5 DEF Joined
  <2>7. \A i \in DOMAIN FlattenSeq(ss) : \E j \in DOMAIN ss : \E k \in DOMAIN ss[j] :
           FlattenSeq(ss)[i] = ss[j][k]
    BY ONLY <2>4, <2>5, Zenon DEF Joined
  <2>8. \A j \in DOMAIN ss : \A k \in DOMAIN ss[j] : \E i \in DOMAIN FlattenSeq(ss) :
           FlattenSeq(ss)[i] = ss[j][k]
    BY ONLY <2>4, <2>5, Zenon DEF Joined
  <2> QED BY ONLY <2>6, <2>7, <2>8
<1> QED BY <1>8, <1>9

LEMMA Member == ASSUME NEW R, NEW s \in Seq(R), NEW j \in DOMAIN s PROVE s[j] \in R
OBVIOUS

Row == [question : Nat, option : Nat, rank : Nat]

LEMMA RowsOfType ==
    ASSUME NEW q \in Questions, NEW a \in [question : Nat, options : Seq(Nat), value : STRING]
    PROVE  RowsOf(q, a) \in Seq(Row)
<1>1. /\ a.question \in Nat /\ a.options \in Seq(Nat) /\ DOMAIN a.options = 1..Len(a.options)
      /\ Len(a.options) \in Nat
  OBVIOUS
<1>2. CASE q.type \in ChoiceTypes
  <2> DEFINE row(i) == [question |-> a.question, option |-> a.options[i],
                        rank |-> IF q.type = "ranking" THEN i ELSE 0]
  <2>1. \A i \in 1..Len(a.options) : row(i) \in Row
    BY <1>1 DEF Row
  <2>2. RowsOf(q, a) = [i \in 1..Len(a.options) |-> row(i)]
    BY <1>1, <1>2 DEF RowsOf
  <2> HIDE DEF row
  <2> QED BY <1>1, <2>1, <2>2
<1>3. CASE q.type \notin ChoiceTypes
  <2>1. [question |-> a.question, option |-> NoOption, rank |-> 0] \in Row
    BY <1>1 DEF Row, NoOption
  <2> QED BY <1>3, <2>1 DEF RowsOf
<1> QED BY <1>2, <1>3

\* The rows of an accepted submission are those of its answers.
LEMMA RowsOfAccepted ==
    ASSUME NEW form \in Seq(Questions), NEW answers \in Submissions, Accepted(form, answers)
    PROVE  LET rows == RowsOfAll(form, answers)
               Part(j) == RowsOf(form[answers[j].question], answers[j]) IN
           /\ rows \in Seq(Row)
           /\ \A i \in DOMAIN rows : \E j \in DOMAIN answers : \E k \in DOMAIN Part(j) :
                 rows[i] = Part(j)[k]
           /\ \A j \in DOMAIN answers : \A k \in DOMAIN Part(j) : \E i \in DOMAIN rows :
                 rows[i] = Part(j)[k]
<1> DEFINE Part(j) == RowsOf(form[answers[j].question], answers[j])
           parts == [j \in DOMAIN answers |-> Part(j)]
<1>1. \A j \in DOMAIN answers : Part(j) \in Seq(Row)
  <2> TAKE j \in DOMAIN answers
  <2>1. answers[j] \in [question : Nat, options : Seq(Nat), value : STRING]
    BY Member DEF Submissions
  <2>2. form[answers[j].question] \in Questions
    BY DEF Accepted
  <2> QED BY <2>1, <2>2, RowsOfType
<1>2. DOMAIN answers = 1..Len(answers) /\ Len(answers) \in Nat
  BY DEF Submissions
<1>3. parts \in Seq(Seq(Row)) /\ DOMAIN parts = DOMAIN answers
      /\ \A j \in DOMAIN answers : parts[j] = Part(j)
  <2> HIDE DEF Part
  <2> QED BY <1>1, <1>2
<1>4. RowsOfAll(form, answers) = FlattenSeq(parts)
  BY DEF RowsOfAll
<1> DEFINE rows == RowsOfAll(form, answers)
<1> HIDE DEF parts
<1>5. /\ rows \in Seq(Row)
      /\ \A i \in DOMAIN rows : \E j \in DOMAIN parts : \E k \in DOMAIN parts[j] :
            rows[i] = parts[j][k]
      /\ \A j \in DOMAIN parts : \A k \in DOMAIN parts[j] : \E i \in DOMAIN rows :
            rows[i] = parts[j][k]
  BY <1>3, <1>4, FlattenFacts
<1> HIDE DEF rows, Part
<1>6. \A i \in DOMAIN rows : \E j \in DOMAIN answers : \E k \in DOMAIN Part(j) :
         rows[i] = Part(j)[k]
  BY <1>3, <1>5
<1>7. \A j \in DOMAIN answers : \A k \in DOMAIN Part(j) : \E i \in DOMAIN rows :
         rows[i] = Part(j)[k]
  BY <1>3, <1>5
<1> QED BY <1>5, <1>6, <1>7 DEF rows, Part

\* No option is at two places of a permutation.
LEMMA PermutationInjective ==
    ASSUME NEW s \in Seq(Nat), NEW n \in Nat, IsPermutation(s, n)
    PROVE  \A i, j \in 1..n : s[i] = s[j] => i = j
<1>1. s \in [1..n -> 1..n] /\ \A o \in 1..n : \E i \in 1..n : s[i] = o
  <2>1. Len(s) = n /\ DOMAIN s = 1..n /\ ToSet(s) = 1..n
    BY DEF IsPermutation
  <2>2. {s[i] : i \in 1..n} = 1..n
    BY <2>1 DEF ToSet
  <2> QED BY <2>1, <2>2
<1>2. s \in Surjection(1..n, 1..n)
  BY <1>1 DEF Surjection
<1>3. IsFiniteSet(1..n)
  BY FS_Interval
<1>4. s \in Injection(1..n, 1..n)
  BY <1>2, <1>3, FS_SurjSameCardinalityImpliesInj
<1> QED BY <1>4 DEF Injection, IsInjective

(***************************************************************************)
(* What can be said of the rows of any accepted submission: they are about *)
(* the questions and options of the form, and alike if they are about the  *)
(* same option; a ranking gives every option a place; a required question  *)
(* has a row, and a question with one choice no two different ones.        *)
(***************************************************************************)
Ranked(rows, q, k) ==
    \E s \in Seq(Nat) :
        /\ IsPermutation(s, k)
        /\ \A i \in 1..k : \E n \in RowsFor(rows, q, s[i]) : rows[n].rank = i

Tidy(form, rows) ==
    /\ rows \in Seq(Row)
    /\ \A i \in DOMAIN rows :
          /\ rows[i].question \in DOMAIN form
          /\ form[rows[i].question].type \in ChoiceTypes =>
                rows[i].option \in DOMAIN form[rows[i].question].options
    /\ \A i, j \in DOMAIN rows :
          rows[i].question = rows[j].question /\ rows[i].option = rows[j].option
              => rows[i] = rows[j]
    /\ \A q \in DOMAIN form :
          /\ form[q].type = "ranking" /\ RowsAbout(rows, q) # {} =>
                Ranked(rows, q, Len(form[q].options))
          /\ form[q].required => RowsAbout(rows, q) # {}
          /\ form[q].type \in {"single_choice", "yes_no"} =>
                \A i, j \in RowsAbout(rows, q) : rows[i].option = rows[j].option

\* The rows of a submission that validateAnswers lets through.
THEOREM AcceptedTidy ==
    ASSUME NEW form \in Seq(Questions), NEW answers \in Submissions, Accepted(form, answers)
    PROVE  Tidy(form, RowsOfAll(form, answers))
<1> DEFINE rows == RowsOfAll(form, answers)
           asked(j) == form[answers[j].question]
           Part(j) == RowsOf(asked(j), answers[j])
<1>1. /\ rows \in Seq(Row)
      /\ \A i \in DOMAIN rows : \E j \in DOMAIN answers : \E k \in DOMAIN Part(j) :
            rows[i] = Part(j)[k]
      /\ \A j \in DOMAIN answers : \A k \in DOMAIN Part(j) : \E i \in DOMAIN rows :
            rows[i] = Part(j)[k]
  BY RowsOfAccepted
<1>2. ASSUME NEW j \in DOMAIN answers
      PROVE  /\ answers[j].question \in DOMAIN form /\ asked(j) \in Questions
             /\ answers[j].question \in Nat /\ answers[j].options \in Seq(Nat)
             /\ ValidAnswer(asked(j), answers[j])
             /\ asked(j).options \in Seq([label : BOOLEAN, image : BOOLEAN])
  <2>1. answers[j] \in [question : Nat, options : Seq(Nat), value : STRING]
    BY Member DEF Submissions
  <2>2. answers[j].question \in DOMAIN form /\ ValidAnswer(asked(j), answers[j])
    BY DEF Accepted
  <2>3. asked(j) \in Questions
    BY <2>2
  <2> QED BY <2>1, <2>2, <2>3 DEF Questions
\* What the k-th row of an answer is.
<1>3. ASSUME NEW j \in DOMAIN answers, NEW k \in DOMAIN Part(j)
      PROVE  /\ Part(j)[k].question = answers[j].question
             /\ asked(j).type \in ChoiceTypes =>
                   /\ k \in DOMAIN answers[j].options
                   /\ Part(j)[k].option = answers[j].options[k]
                   /\ Part(j)[k].option \in DOMAIN asked(j).options
                   /\ Part(j)[k].rank = IF asked(j).type = "ranking" THEN k ELSE 0
             /\ asked(j).type \notin ChoiceTypes => k = 1
  <2>1. CASE asked(j).type \in ChoiceTypes
    <3>1. /\ DOMAIN Part(j) = DOMAIN answers[j].options
          /\ Part(j)[k] = [question |-> answers[j].question, option |-> answers[j].options[k],
                           rank |-> IF asked(j).type = "ranking" THEN k ELSE 0]
      BY <2>1 DEF RowsOf
    <3>2. answers[j].options[k] \in DOMAIN asked(j).options
      <4>1. ToSet(answers[j].options) \subseteq DOMAIN asked(j).options
        BY <1>2, <2>1 DEF ValidAnswer
      <4> QED BY <3>1, <4>1 DEF ToSet
    <3> HIDE DEF Part, asked
    <3> QED BY <2>1, <3>1, <3>2
  <2>2. CASE asked(j).type \notin ChoiceTypes
    <3>1. Part(j) = <<>> \/ Part(j) = <<[question |-> answers[j].question, option |-> NoOption,
                                         rank |-> 0]>>
      BY <2>2 DEF RowsOf
    <3> HIDE DEF Part, asked
    <3> QED BY <2>2, <3>1
  <2> QED BY <2>1, <2>2
<1>4. \A j, l \in DOMAIN answers : answers[j].question = answers[l].question => j = l
  BY DEF Accepted
<1> HIDE DEF rows, Part
<1>5. ASSUME NEW i \in DOMAIN rows
      PROVE  /\ rows[i].question \in DOMAIN form
             /\ form[rows[i].question].type \in ChoiceTypes =>
                   rows[i].option \in DOMAIN form[rows[i].question].options
  <2>1. PICK j \in DOMAIN answers : \E k \in DOMAIN Part(j) : rows[i] = Part(j)[k]
    BY <1>1
  <2>2. PICK k \in DOMAIN Part(j) : rows[i] = Part(j)[k]
    BY <2>1
  <2>3. rows[i].question = answers[j].question
    BY <1>3, <2>2
  <2> QED BY <1>2, <1>3, <2>2, <2>3
<1>6. ASSUME NEW i \in DOMAIN rows, NEW n \in DOMAIN rows,
             rows[i].question = rows[n].question, rows[i].option = rows[n].option
      PROVE  rows[i] = rows[n]
  <2>1. PICK j \in DOMAIN answers : \E k \in DOMAIN Part(j) : rows[i] = Part(j)[k]
    BY <1>1
  <2>2. PICK k \in DOMAIN Part(j) : rows[i] = Part(j)[k]
    BY <2>1
  <2>3. PICK l \in DOMAIN answers : \E k2 \in DOMAIN Part(l) : rows[n] = Part(l)[k2]
    BY <1>1
  <2>4. PICK k2 \in DOMAIN Part(l) : rows[n] = Part(l)[k2]
    BY <2>3
  <2>5. j = l
    BY <1>3, <1>4, <1>6, <2>2, <2>4
  <2>6. CASE asked(j).type \notin ChoiceTypes
    BY <1>3, <2>2, <2>4, <2>5, <2>6
  <2>7. CASE asked(j).type = "ranking"
    <3>1. asked(j).type \in ChoiceTypes
      BY <2>7 DEF ChoiceTypes
    <3>2. /\ k \in DOMAIN answers[j].options /\ k2 \in DOMAIN answers[j].options
          /\ answers[j].options[k] = answers[j].options[k2]
      BY <1>3, <1>6, <2>2, <2>4, <2>5, <3>1
    <3>3. IsPermutation(answers[j].options, Len(asked(j).options))
      <4>1. answers[j].options # <<>>
        BY <3>2
      <4> QED BY <1>2, <2>7, <3>1, <4>1 DEF ValidAnswer
    <3>4. Len(answers[j].options) = Len(asked(j).options) /\ Len(asked(j).options) \in Nat
      BY <1>2, <3>3 DEF IsPermutation
    <3>5. k = k2
      <4>1. DOMAIN answers[j].options = 1..Len(asked(j).options)
        BY <1>2, <3>4
      <4> QED BY <1>2, <3>2, <3>3, <3>4, <4>1, PermutationInjective
    <3> QED BY <2>2, <2>4, <2>5, <3>5
  <2>8. CASE asked(j).type \in ChoiceTypes /\ asked(j).type # "ranking"
    <3>1. Part(j)[k].rank = 0 /\ Part(j)[k2].rank = 0
      BY <1>3, <2>5, <2>8
    <3>2. rows[i] \in Row /\ rows[n] \in Row
      BY <1>1
    <3> QED BY <1>6, <2>2, <2>4, <2>5, <3>1, <3>2 DEF Row
  <2> QED BY <2>6, <2>7, <2>8
<1>7. ASSUME NEW q \in DOMAIN form, NEW i \in RowsAbout(rows, q)
      PROVE  \E j \in DOMAIN answers : /\ answers[j].question = q
                                       /\ \E k \in DOMAIN Part(j) : rows[i] = Part(j)[k]
  <2>1. i \in DOMAIN rows /\ rows[i].question = q
    BY DEF RowsAbout
  <2>2. PICK j \in DOMAIN answers : \E k \in DOMAIN Part(j) : rows[i] = Part(j)[k]
    BY <1>1, <2>1
  <2> QED BY <1>3, <2>1, <2>2
<1>8. ASSUME NEW j \in DOMAIN answers, asked(j).type \in ChoiceTypes
      PROVE  DOMAIN Part(j) = DOMAIN answers[j].options
  BY <1>8 DEF Part, RowsOf
<1>9. ASSUME NEW q \in DOMAIN form, form[q].type = "ranking", RowsAbout(rows, q) # {}
      PROVE  Ranked(rows, q, Len(form[q].options))
  <2>1. PICK i \in RowsAbout(rows, q) : TRUE
    BY <1>9
  <2>2. PICK j \in DOMAIN answers : /\ answers[j].question = q
                                    /\ \E k \in DOMAIN Part(j) : rows[i] = Part(j)[k]
    BY <1>7
  <2> DEFINE s == answers[j].options
             n == Len(form[q].options)
  <2>3. asked(j) = form[q] /\ asked(j).type \in ChoiceTypes
    BY <1>9, <2>2 DEF ChoiceTypes
  <2>4. DOMAIN Part(j) = DOMAIN s /\ s \in Seq(Nat) /\ n \in Nat
    BY <1>2, <1>8, <2>3
  <2>5. IsPermutation(s, n)
    <3>1. s # <<>>
      BY <2>2, <2>4
    <3> QED BY <1>2, <1>9, <2>3, <3>1 DEF ValidAnswer
  <2>6. DOMAIN Part(j) = 1..n
    BY <2>4, <2>5 DEF IsPermutation
  <2>7. ASSUME NEW k \in 1..n PROVE \E m \in RowsFor(rows, q, s[k]) : rows[m].rank = k
    <3>1. PICK m \in DOMAIN rows : rows[m] = Part(j)[k]
      BY <1>1, <2>6
    <3>2. rows[m].question = q /\ rows[m].option = s[k] /\ rows[m].rank = k
      BY <1>3, <1>9, <2>2, <2>3, <2>6, <3>1
    <3> QED BY <3>2 DEF RowsFor
  <2> HIDE DEF s, n
  <2>8. Ranked(rows, q, n)
    BY <2>4, <2>5, <2>7 DEF Ranked
  <2> QED BY <2>8 DEF n
<1>10. ASSUME NEW q \in DOMAIN form, form[q].required
       PROVE  RowsAbout(rows, q) # {}
  <2>1. PICK j \in DOMAIN answers : answers[j].question = q
    BY <1>10 DEF Accepted
  <2>2. 1 \in DOMAIN Part(j)
    <3>1. CASE asked(j).type \in ChoiceTypes
      <4>1. answers[j].options # <<>> /\ answers[j].options \in Seq(Nat)
        BY <1>2, <1>10, <2>1, <3>1 DEF ValidAnswer
      <4>2. 1 \in DOMAIN answers[j].options
        BY <4>1
      <4> QED BY <1>8, <3>1, <4>2
    <3>2. CASE asked(j).type \notin ChoiceTypes
      <4>1. answers[j].value # "empty"
        BY <1>2, <1>10, <2>1, <3>2 DEF ValidAnswer
      <4>2. Part(j) = <<[question |-> answers[j].question, option |-> NoOption, rank |-> 0]>>
        BY <3>2, <4>1 DEF Part, RowsOf
      <4> QED BY <4>2
    <3> QED BY <3>1, <3>2
  <2>3. PICK m \in DOMAIN rows : rows[m] = Part(j)[1]
    BY <1>1, <2>2
  <2>4. rows[m].question = q
    BY <1>3, <2>1, <2>2, <2>3
  <2> QED BY <2>4 DEF RowsAbout
<1>11. ASSUME NEW q \in DOMAIN form, form[q].type \in {"single_choice", "yes_no"},
              NEW i \in RowsAbout(rows, q), NEW n \in RowsAbout(rows, q)
       PROVE  rows[i].option = rows[n].option
  <2>1. PICK j \in DOMAIN answers : /\ answers[j].question = q
                                    /\ \E k \in DOMAIN Part(j) : rows[i] = Part(j)[k]
    BY <1>7
  <2>2. PICK k \in DOMAIN Part(j) : rows[i] = Part(j)[k]
    BY <2>1
  <2>3. PICK l \in DOMAIN answers : /\ answers[l].question = q
                                    /\ \E k2 \in DOMAIN Part(l) : rows[n] = Part(l)[k2]
    BY <1>7
  <2>4. PICK k2 \in DOMAIN Part(l) : rows[n] = Part(l)[k2]
    BY <2>3
  <2>5. j = l
    BY <1>4, <2>1, <2>3
  <2>6. asked(j).type \in ChoiceTypes /\ asked(j).type \notin {"multi_choice", "ranking"}
    BY <1>11, <2>1 DEF ChoiceTypes
  <2>7. Len(answers[j].options) <= 1 /\ answers[j].options \in Seq(Nat)
    BY <1>2, <2>6 DEF ValidAnswer
  <2>8. k \in DOMAIN answers[j].options /\ k2 \in DOMAIN answers[j].options
    BY <1>3, <2>2, <2>4, <2>5, <2>6
  <2>9. k = k2
    BY <2>7, <2>8
  <2> QED BY <2>2, <2>4, <2>5, <2>9
<1>12. Tidy(form, rows)
  BY <1>1, <1>5, <1>6, <1>9, <1>10, <1>11 DEF Tidy
<1> QED BY <1>12 DEF rows

(***************************************************************************)
(* What the readings count over all responses, and what one response more  *)
(* adds to it.                                                             *)
(***************************************************************************)
Copies(B, q, o) == Total(B, LAMBDA r : Cardinality(RowsFor(r, q, o)))
RanksIn(r, q, o) == SumFunction([i \in RowsFor(r, q, o) |-> r[i].rank])
RankTotal(B, q, o) == Total(B, LAMBDA r : RanksIn(r, q, o))
RowTotal(B, q) == Total(B, LAMBDA r : Cardinality(RowsAbout(r, q)))

LEMMA SumFunctionIs == \A f : SumFunction(f) = SumOn(f, DOMAIN f)
BY DEF SumFunction, SumOn

LEMMA RowSets ==
    ASSUME NEW r \in Seq(Row), NEW q, NEW o
    PROVE  /\ IsFiniteSet(RowsFor(r, q, o)) /\ Cardinality(RowsFor(r, q, o)) \in Nat
           /\ IsFiniteSet(RowsAbout(r, q)) /\ Cardinality(RowsAbout(r, q)) \in Nat
           /\ RowsFor(r, q, o) \subseteq RowsAbout(r, q)
           /\ RanksIn(r, q, o) \in Nat
<1>1. IsFiniteSet(DOMAIN r)
  <2>1. DOMAIN r = 1..Len(r) /\ Len(r) \in Int
    OBVIOUS
  <2> QED BY <2>1, FS_Interval
<1>2. /\ RowsFor(r, q, o) \in SUBSET DOMAIN r /\ RowsAbout(r, q) \in SUBSET DOMAIN r
      /\ RowsFor(r, q, o) \subseteq RowsAbout(r, q)
  BY DEF RowsFor, RowsAbout
<1>3. /\ IsFiniteSet(RowsFor(r, q, o)) /\ Cardinality(RowsFor(r, q, o)) \in Nat
      /\ IsFiniteSet(RowsAbout(r, q)) /\ Cardinality(RowsAbout(r, q)) \in Nat
  BY <1>1, <1>2, FS_Subset, FS_CardinalityType
<1>4. RanksIn(r, q, o) \in Nat
  <2> DEFINE f == [i \in RowsFor(r, q, o) |-> r[i].rank]
  <2>1. \A i \in RowsFor(r, q, o) : r[i] \in Row
    BY <1>2, Member
  <2>2. \A i \in RowsFor(r, q, o) : f[i] \in Nat
    BY <2>1 DEF Row
  <2>3. RanksIn(r, q, o) = SumOn(f, RowsFor(r, q, o))
    BY SumFunctionIs DEF RanksIn
  <2> HIDE DEF f
  <2> QED BY <1>3, <2>2, <2>3, SumNat
<1> QED BY <1>2, <1>3, <1>4

\* A total by the worth of each response.
LEMMA WorthNat ==
    ASSUME NEW B, IsFiniteBag(B), NEW w, \A r \in DOMAIN B : w[r] \in Nat
    PROVE  Worth(B, w) \in Nat
<1> DEFINE f == [r \in DOMAIN B |-> B[r] * w[r]]
<1>1. \A r \in DOMAIN B : B[r] \in Nat
  BY DEF IsFiniteBag, IsABag
<1>2. \A r \in DOMAIN B : f[r] \in Nat
  BY <1>1
<1> HIDE DEF f
<1>3. SumOn(f, DOMAIN B) \in Nat
  BY <1>2, SumNat DEF IsFiniteBag
<1> QED BY <1>3 DEF Worth, f

LEMMA WorthSame ==
    ASSUME NEW B, NEW v, NEW w, \A r \in DOMAIN B : v[r] = w[r]
    PROVE  Worth(B, v) = Worth(B, w)
<1>1. [r \in DOMAIN B |-> B[r] * v[r]] = [r \in DOMAIN B |-> B[r] * w[r]]
  OBVIOUS
<1> QED BY <1>1 DEF Worth

CopiesOf(S, q, o) == [r \in S |-> Cardinality(RowsFor(r, q, o))]
RanksOf(S, q, o) == [r \in S |-> RanksIn(r, q, o)]
RowCounts(S, q) == [r \in S |-> Cardinality(RowsAbout(r, q))]
AnswersOf(S, q) == [r \in S |-> IF RowsAbout(r, q) = {} THEN 0 ELSE 1]

LEMMA TotalsAreWorth ==
    ASSUME NEW B, NEW S, DOMAIN B \subseteq S, NEW q, NEW o
    PROVE  /\ Copies(B, q, o) = Worth(B, CopiesOf(S, q, o))
           /\ RankTotal(B, q, o) = Worth(B, RanksOf(S, q, o))
           /\ RowTotal(B, q) = Worth(B, RowCounts(S, q))
           /\ Answered(B, q) = Worth(B, AnswersOf(S, q))
<1>1. Copies(B, q, o) = Worth(B, CopiesOf(S, q, o))
  <2> DEFINE f == [r \in DOMAIN B |-> B[r] * Cardinality(RowsFor(r, q, o))]
  <2>1. f = [r \in DOMAIN B |-> B[r] * CopiesOf(S, q, o)[r]]
    BY DEF CopiesOf
  <2>2. Copies(B, q, o) = SumFunction(f)
    BY DEF Copies, Total, BagToSet
  <2> QED BY <2>1, <2>2, SumFunctionIs DEF Worth
<1>2. RankTotal(B, q, o) = Worth(B, RanksOf(S, q, o))
  <2> DEFINE f == [r \in DOMAIN B |-> B[r] * RanksIn(r, q, o)]
  <2>1. f = [r \in DOMAIN B |-> B[r] * RanksOf(S, q, o)[r]]
    BY DEF RanksOf
  <2>2. RankTotal(B, q, o) = SumFunction(f)
    BY DEF RankTotal, Total, BagToSet
  <2> QED BY <2>1, <2>2, SumFunctionIs DEF Worth
<1>3. RowTotal(B, q) = Worth(B, RowCounts(S, q))
  <2> DEFINE f == [r \in DOMAIN B |-> B[r] * Cardinality(RowsAbout(r, q))]
  <2>1. f = [r \in DOMAIN B |-> B[r] * RowCounts(S, q)[r]]
    BY DEF RowCounts
  <2>2. RowTotal(B, q) = SumFunction(f)
    BY DEF RowTotal, Total, BagToSet
  <2> QED BY <2>1, <2>2, SumFunctionIs DEF Worth
<1>4. Answered(B, q) = Worth(B, AnswersOf(S, q))
  <2> DEFINE f == [r \in DOMAIN B |-> B[r] * (IF RowsAbout(r, q) = {} THEN 0 ELSE 1)]
  <2>1. f = [r \in DOMAIN B |-> B[r] * AnswersOf(S, q)[r]]
    BY DEF AnswersOf
  <2>2. Answered(B, q) = SumFunction(f)
    BY DEF Answered, Total, BagToSet
  <2> QED BY <2>1, <2>2, SumFunctionIs DEF Worth
<1> QED BY <1>1, <1>2, <1>3, <1>4

LEMMA TotalsMore ==
    ASSUME NEW B, IsFiniteBag(B), DOMAIN B \subseteq Seq(Row), NEW x \in Seq(Row), NEW q, NEW o
    PROVE  LET C == B (+) SetToBag({x}) IN
           /\ Copies(C, q, o) = Copies(B, q, o) + Cardinality(RowsFor(x, q, o))
           /\ RankTotal(C, q, o) = RankTotal(B, q, o) + RanksIn(x, q, o)
           /\ RowTotal(C, q) = RowTotal(B, q) + Cardinality(RowsAbout(x, q))
           /\ Answered(C, q) = Answered(B, q) + (IF RowsAbout(x, q) = {} THEN 0 ELSE 1)
<1> DEFINE C == B (+) SetToBag({x})
           S == DOMAIN B \cup {x}
<1>1. DOMAIN C = S /\ DOMAIN B \subseteq S /\ x \in S /\ S \subseteq Seq(Row)
  BY OneMore
<1>2. /\ CopiesOf(S, q, o)[x] = Cardinality(RowsFor(x, q, o))
      /\ RanksOf(S, q, o)[x] = RanksIn(x, q, o)
      /\ RowCounts(S, q)[x] = Cardinality(RowsAbout(x, q))
      /\ AnswersOf(S, q)[x] = IF RowsAbout(x, q) = {} THEN 0 ELSE 1
  BY <1>1 DEF CopiesOf, RanksOf, RowCounts, AnswersOf
<1>3. \A r \in S : /\ CopiesOf(S, q, o)[r] \in Int /\ RanksOf(S, q, o)[r] \in Int
                   /\ RowCounts(S, q)[r] \in Int /\ AnswersOf(S, q)[r] \in Int
  <2> TAKE r \in S
  <2>1. /\ Cardinality(RowsFor(r, q, o)) \in Int /\ RanksIn(r, q, o) \in Int
        /\ Cardinality(RowsAbout(r, q)) \in Int
    BY <1>1, RowSets
  <2> QED BY <2>1 DEF CopiesOf, RanksOf, RowCounts, AnswersOf
<1> HIDE DEF C, S
<1>4. /\ Copies(B, q, o) = Worth(B, CopiesOf(S, q, o))
      /\ RankTotal(B, q, o) = Worth(B, RanksOf(S, q, o))
      /\ RowTotal(B, q) = Worth(B, RowCounts(S, q))
      /\ Answered(B, q) = Worth(B, AnswersOf(S, q))
  BY <1>1, TotalsAreWorth
<1>5. /\ Copies(C, q, o) = Worth(C, CopiesOf(S, q, o))
      /\ RankTotal(C, q, o) = Worth(C, RanksOf(S, q, o))
      /\ RowTotal(C, q) = Worth(C, RowCounts(S, q))
      /\ Answered(C, q) = Worth(C, AnswersOf(S, q))
  BY <1>1, TotalsAreWorth
<1>6. /\ Worth(C, CopiesOf(S, q, o)) = Worth(B, CopiesOf(S, q, o)) + CopiesOf(S, q, o)[x]
      /\ Worth(C, RanksOf(S, q, o)) = Worth(B, RanksOf(S, q, o)) + RanksOf(S, q, o)[x]
      /\ Worth(C, RowCounts(S, q)) = Worth(B, RowCounts(S, q)) + RowCounts(S, q)[x]
      /\ Worth(C, AnswersOf(S, q)) = Worth(B, AnswersOf(S, q)) + AnswersOf(S, q)[x]
  BY <1>3, WorthMore DEF C, S
<1> QED BY <1>2, <1>4, <1>5, <1>6 DEF C

LEMMA TotalsNat ==
    ASSUME NEW B, IsFiniteBag(B), DOMAIN B \subseteq Seq(Row), NEW q, NEW o
    PROVE  /\ Copies(B, q, o) \in Nat /\ RankTotal(B, q, o) \in Nat
           /\ RowTotal(B, q) \in Nat /\ Answered(B, q) \in Nat
<1> DEFINE S == DOMAIN B
<1>1. \A r \in S : /\ CopiesOf(S, q, o)[r] \in Nat /\ RanksOf(S, q, o)[r] \in Nat
                   /\ RowCounts(S, q)[r] \in Nat /\ AnswersOf(S, q)[r] \in Nat
  <2> TAKE r \in S
  <2>1. /\ Cardinality(RowsFor(r, q, o)) \in Nat /\ RanksIn(r, q, o) \in Nat
        /\ Cardinality(RowsAbout(r, q)) \in Nat
    BY RowSets
  <2> QED BY <2>1 DEF CopiesOf, RanksOf, RowCounts, AnswersOf
<1> QED BY <1>1, TotalsAreWorth, WorthNat

LEMMA TotalsStart ==
    ASSUME NEW q, NEW o
    PROVE  /\ IsFiniteBag(EmptyBag) /\ DOMAIN EmptyBag = {}
           /\ Copies(EmptyBag, q, o) = 0 /\ RankTotal(EmptyBag, q, o) = 0
           /\ RowTotal(EmptyBag, q) = 0 /\ Answered(EmptyBag, q) = 0
           /\ SumFunction(EmptyBag) = 0
<1>1. DOMAIN EmptyBag = {} /\ EmptyBag \in [{} -> {n \in Nat : n > 0}]
  BY DEF EmptyBag, SetToBag
<1>2. \A w : Worth(EmptyBag, w) = 0
  BY <1>1, SumEmpty DEF Worth
<1>3. IsFiniteBag(EmptyBag)
  BY <1>1, FS_EmptySet DEF IsFiniteBag, IsABag
<1>4. DOMAIN EmptyBag \subseteq {}
  BY <1>1
<1> QED BY <1>1, <1>2, <1>3, <1>4, TotalsAreWorth, SumFunctionIs, SumEmpty

(***************************************************************************)
(* What a submission adds to the tallies.                                  *)
(***************************************************************************)
Named(rows, q, o) == IF RowsFor(rows, q, o) = {} THEN 0 ELSE 1
RankGiven(rows, q, o) ==
    IF RowsFor(rows, q, o) = {} THEN 0 ELSE rows[CHOOSE i \in RowsFor(rows, q, o) : TRUE].rank

TallyOf(form, tally) ==
    /\ tally = [q \in DOMAIN form |-> tally[q]]
    /\ \A q \in DOMAIN form :
          /\ tally[q] \in [DOMAIN form[q].options -> [count : Nat, rank_sum : Nat]]

LEMMA AddedTypes ==
    ASSUME NEW rows \in Seq(Row), NEW q, NEW o
    PROVE  Named(rows, q, o) \in Nat /\ RankGiven(rows, q, o) \in Nat
<1>1. CASE RowsFor(rows, q, o) = {}
  BY <1>1 DEF Named, RankGiven
<1>2. CASE RowsFor(rows, q, o) # {}
  <2> DEFINE i == CHOOSE i \in RowsFor(rows, q, o) : TRUE
  <2>1. i \in DOMAIN rows
    BY <1>2 DEF RowsFor
  <2>2. rows[i] \in Row
    BY <2>1, Member
  <2> HIDE DEF i
  <2> QED BY <1>2, <2>2 DEF Named, RankGiven, Row, i
<1> QED BY <1>1, <1>2

LEMMA Increment ==
    ASSUME NEW form, NEW tally, TallyOf(form, tally), NEW rows \in Seq(Row)
    PROVE  LET new == IncrementMany(tally, rows) IN
           /\ TallyOf(form, new)
           /\ \A q \in DOMAIN form : \A o \in DOMAIN form[q].options :
                 /\ new[q][o].count = tally[q][o].count + Named(rows, q, o)
                 /\ new[q][o].rank_sum = tally[q][o].rank_sum + RankGiven(rows, q, o)
<1> DEFINE value(q, o) ==
              LET named == RowsFor(rows, q, o) IN
              IF named = {} THEN tally[q][o]
              ELSE [count |-> tally[q][o].count + 1,
                    rank_sum |-> tally[q][o].rank_sum + rows[CHOOSE i \in named : TRUE].rank]
           new == IncrementMany(tally, rows)
<1>1. new = [q \in DOMAIN tally |-> [o \in DOMAIN tally[q] |-> value(q, o)]]
  BY DEF IncrementMany
<1>2. ASSUME NEW q \in DOMAIN form, NEW o \in DOMAIN form[q].options
      PROVE  /\ value(q, o).count = tally[q][o].count + Named(rows, q, o)
             /\ value(q, o).rank_sum = tally[q][o].rank_sum + RankGiven(rows, q, o)
             /\ value(q, o) \in [count : Nat, rank_sum : Nat]
  <2>1. tally[q] \in [DOMAIN form[q].options -> [count : Nat, rank_sum : Nat]]
    BY DEF TallyOf
  <2>2. tally[q][o] \in [count : Nat, rank_sum : Nat]
    BY <2>1
  <2>3. Named(rows, q, o) \in Nat /\ RankGiven(rows, q, o) \in Nat
    BY AddedTypes
  <2>4. CASE RowsFor(rows, q, o) = {}
    BY <2>2, <2>4 DEF Named, RankGiven
  <2>5. CASE RowsFor(rows, q, o) # {}
    <3>1. value(q, o) = [count |-> tally[q][o].count + 1,
                         rank_sum |-> tally[q][o].rank_sum + RankGiven(rows, q, o)]
      BY <2>5 DEF RankGiven
    <3>2. Named(rows, q, o) = 1
      BY <2>5 DEF Named
    <3> HIDE DEF value
    <3> QED BY <2>2, <2>3, <3>1, <3>2
  <2> QED BY <2>4, <2>5
<1>3. \A q \in DOMAIN form : DOMAIN tally[q] = DOMAIN form[q].options /\ q \in DOMAIN tally
  BY DEF TallyOf
<1>4. DOMAIN tally = DOMAIN form
  BY DEF TallyOf
<1> HIDE DEF value, new
<1>5. \A q \in DOMAIN form : new[q] = [o \in DOMAIN form[q].options |-> value(q, o)]
  BY <1>1, <1>3
<1>6. \A q \in DOMAIN form : new[q] \in [DOMAIN form[q].options -> [count : Nat, rank_sum : Nat]]
  BY <1>2, <1>5
<1>7. new = [q \in DOMAIN form |-> new[q]]
  BY <1>1, <1>4
<1>8. \A q \in DOMAIN form : \A o \in DOMAIN form[q].options : new[q][o] = value(q, o)
  BY <1>5
<1>9. TallyOf(form, new)
  BY <1>6, <1>7 DEF TallyOf
<1> QED BY <1>2, <1>8, <1>9 DEF new

LEMMA SeededTally ==
    ASSUME NEW form
    PROVE  /\ TallyOf(form, Seeded(form))
           /\ \A q \in DOMAIN form : \A o \in DOMAIN form[q].options :
                 Seeded(form)[q][o].count = 0 /\ Seeded(form)[q][o].rank_sum = 0
<1> DEFINE zero == [count |-> 0, rank_sum |-> 0]
           new == Seeded(form)
<1>1. new = [q \in DOMAIN form |-> [o \in DOMAIN form[q].options |-> zero]]
  BY DEF Seeded
<1>2. zero \in [count : Nat, rank_sum : Nat] /\ zero.count = 0 /\ zero.rank_sum = 0
  OBVIOUS
<1> HIDE DEF zero, new
<1>3. \A q \in DOMAIN form : new[q] = [o \in DOMAIN form[q].options |-> zero]
  BY <1>1
<1>4. \A q \in DOMAIN form : new[q] \in [DOMAIN form[q].options -> [count : Nat, rank_sum : Nat]]
  BY <1>2, <1>3
<1>5. new = [q \in DOMAIN form |-> new[q]]
  BY <1>1
<1>6. \A q \in DOMAIN form : \A o \in DOMAIN form[q].options : new[q][o] = zero
  BY <1>3
<1>7. TallyOf(form, new)
  BY <1>4, <1>5 DEF TallyOf
<1> QED BY <1>2, <1>6, <1>7 DEF new

\* A response that names no option twice has one row for an option at most.
LEMMA OneRowEach ==
    ASSUME NEW form, NEW rows, Tidy(form, rows), IsInjective(rows), NEW q, NEW o
    PROVE  /\ Cardinality(RowsFor(rows, q, o)) = Named(rows, q, o)
           /\ RanksIn(rows, q, o) = RankGiven(rows, q, o)
<1> DEFINE S == RowsFor(rows, q, o)
           f == [i \in S |-> rows[i].rank]
<1>1. RanksIn(rows, q, o) = SumOn(f, S)
  BY SumFunctionIs DEF RanksIn
<1>2. CASE S = {}
  BY <1>1, <1>2, SumEmpty, FS_EmptySet DEF Named, RankGiven
<1>3. CASE S # {}
  <2> DEFINE i == CHOOSE i \in S : TRUE
  <2>1. i \in S
    BY <1>3
  <2>2. \A j \in S : j \in DOMAIN rows /\ rows[j].question = q /\ rows[j].option = o
    BY DEF RowsFor
  <2>3. \A j \in S : j = i
    BY <2>1, <2>2 DEF Tidy, IsInjective
  <2>4. S = {i}
    BY <2>1, <2>3
  <2>5. f[i] = rows[i].rank /\ f[i] \in Nat
    <3>1. rows \in Seq(Row) /\ i \in DOMAIN rows
      BY <2>1, <2>2 DEF Tidy
    <3>2. rows[i] \in Row
      BY <3>1, Member
    <3> QED BY <2>1, <3>2 DEF Row
  <2>6. RankGiven(rows, q, o) = rows[i].rank /\ Named(rows, q, o) = 1
    BY <1>3 DEF RankGiven, Named
  <2> HIDE DEF S, i, f
  <2>7. SumOn(f, S) = f[i] /\ Cardinality(S) = 1
    <3>1. IsFiniteSet(S) /\ Cardinality(S) = 1 /\ S \ {i} = {}
      BY <2>4, FS_Singleton
    <3>2. \A j \in S \ {i} : f[j] = 0
      BY <3>1
    <3> QED BY <2>1, <2>5, <3>1, <3>2, SumOne
  <2> QED BY <1>1, <2>5, <2>6, <2>7 DEF S
<1> QED BY <1>2, <1>3

(***************************************************************************)
(* Sums over the options of a question.                                    *)
(***************************************************************************)
OptionsOf(form, q) == DOMAIN form[q].options
NamedIn(form, rows, q) == [o \in OptionsOf(form, q) |-> Named(rows, q, o)]
RanksGiven(form, rows, q) == [o \in OptionsOf(form, q) |-> RankGiven(rows, q, o)]

LEMMA OptionsFinite ==
    ASSUME NEW form \in Seq(Questions), NEW q \in DOMAIN form
    PROVE  /\ IsFiniteSet(OptionsOf(form, q)) /\ OptionsOf(form, q) = 1..Len(form[q].options)
           /\ Len(form[q].options) \in Nat
<1>1. form[q] \in Questions
  BY Member
<1>2. form[q].options \in Seq([label : BOOLEAN, image : BOOLEAN])
  BY <1>1 DEF Questions
<1>3. OptionsOf(form, q) = 1..Len(form[q].options) /\ Len(form[q].options) \in Nat
  BY <1>2 DEF OptionsOf
<1> QED BY <1>3, FS_Interval

\* A response that names no option twice names as many as it has rows.
LEMMA NamedRows ==
    ASSUME NEW form \in Seq(Questions), NEW rows, Tidy(form, rows), IsInjective(rows),
           NEW q \in DOMAIN form, form[q].type \in ChoiceTypes
    PROVE  SumOn(NamedIn(form, rows, q), OptionsOf(form, q)) = Cardinality(RowsAbout(rows, q))
<1> DEFINE S == RowsAbout(rows, q)
           p == [i \in S |-> rows[i].option]
           f == NamedIn(form, rows, q)
           g == [i \in S |-> 1]
           named == {p[i] : i \in S}
<1>1. IsFiniteSet(S) /\ Cardinality(S) \in Nat /\ rows \in Seq(Row)
  BY RowSets DEF Tidy
<1>2. \A i \in S : i \in DOMAIN rows /\ rows[i].question = q /\ p[i] = rows[i].option
  BY DEF RowsAbout
<1>3. ASSUME NEW i \in S, NEW j \in S, p[i] = p[j] PROVE i = j
  <2>1. i \in DOMAIN rows /\ j \in DOMAIN rows /\ rows[i].question = rows[j].question
        /\ rows[i].option = rows[j].option
    BY <1>2, <1>3
  <2>2. rows[i] = rows[j]
    BY <2>1 DEF Tidy
  <2> QED BY <2>1, <2>2 DEF IsInjective
<1>4. \A i \in S : p[i] \in OptionsOf(form, q)
  BY <1>2 DEF Tidy, OptionsOf
<1>5. \A i \in S : f[p[i]] = 1
  <2> TAKE i \in S
  <2>1. i \in RowsFor(rows, q, p[i])
    BY <1>2 DEF RowsFor
  <2>2. f[p[i]] = Named(rows, q, p[i])
    BY <1>4 DEF NamedIn
  <2> QED BY <2>1, <2>2 DEF Named
<1>6. \A o \in OptionsOf(form, q) \ named : f[o] = 0
  <2> TAKE o \in OptionsOf(form, q) \ named
  <2>1. RowsFor(rows, q, o) = {}
    <3> SUFFICES ASSUME NEW i \in RowsFor(rows, q, o) PROVE FALSE
      OBVIOUS
    <3>1. i \in S /\ p[i] = o
      BY DEF RowsFor, RowsAbout
    <3> QED BY <3>1
  <2> QED BY <2>1 DEF NamedIn, Named
<1>7. \A o \in OptionsOf(form, q) : f[o] \in Int
  BY DEF NamedIn, Named
<1>8. \A i \in S : g[i] = 1
  OBVIOUS
<1> HIDE DEF p, f, g
<1>9. named \in SUBSET OptionsOf(form, q) /\ IsFiniteSet(OptionsOf(form, q))
  BY <1>4, OptionsFinite
<1>10. SumOn(g, S) = SumOn(f, named)
  BY <1>1, <1>3, <1>5, <1>8, SumMoved
<1>11. SumOn(f, OptionsOf(form, q)) = SumOn(f, named)
  <2> HIDE DEF named
  <2> QED BY <1>6, <1>7, <1>9, SumDrop
<1>12. SumOn(g, S) = Cardinality(S)
  BY <1>1, <1>8, SumOnes
<1> QED BY <1>10, <1>11, <1>12 DEF f

\* A required question with one choice has one option named.
LEMMA NamedOnce ==
    ASSUME NEW form \in Seq(Questions), NEW rows, Tidy(form, rows),
           NEW q \in DOMAIN form, form[q].type \in {"single_choice", "yes_no"}, form[q].required
    PROVE  SumOn(NamedIn(form, rows, q), OptionsOf(form, q)) = 1
<1> DEFINE f == NamedIn(form, rows, q)
<1>1. PICK i \in RowsAbout(rows, q) : TRUE
  BY DEF Tidy
<1> DEFINE o == rows[i].option
<1>2. i \in DOMAIN rows /\ rows[i].question = q
  BY DEF RowsAbout
<1>3. o \in OptionsOf(form, q)
  <2>1. form[q].type \in ChoiceTypes
    BY DEF ChoiceTypes
  <2> QED BY <1>2, <2>1 DEF Tidy, OptionsOf
<1>4. f[o] = 1
  <2>1. i \in RowsFor(rows, q, o)
    BY <1>2 DEF RowsFor
  <2> QED BY <1>3, <2>1 DEF NamedIn, Named
<1>5. \A u \in OptionsOf(form, q) \ {o} : f[u] = 0
  <2> TAKE u \in OptionsOf(form, q) \ {o}
  <2>1. RowsFor(rows, q, u) = {}
    <3> SUFFICES ASSUME NEW j \in RowsFor(rows, q, u) PROVE FALSE
      OBVIOUS
    <3>1. j \in RowsAbout(rows, q) /\ rows[j].option = u
      BY DEF RowsFor, RowsAbout
    <3> QED BY <3>1 DEF Tidy
  <2> QED BY <2>1 DEF NamedIn, Named
<1>6. IsFiniteSet(OptionsOf(form, q))
  BY OptionsFinite
<1> HIDE DEF f, o
<1>7. SumOn(f, OptionsOf(form, q)) = f[o]
  BY <1>3, <1>4, <1>5, <1>6, SumOne
<1> QED BY <1>4, <1>7 DEF f

\* A ranking names every option and gives the places 1 to k.
LEMMA RankedSum ==
    ASSUME NEW form \in Seq(Questions), NEW rows, Tidy(form, rows),
           NEW q \in DOMAIN form, form[q].type = "ranking"
    PROVE  LET k == Len(form[q].options)
               given == IF RowsAbout(rows, q) = {} THEN 0 ELSE 1 IN
           /\ \A o \in OptionsOf(form, q) : Named(rows, q, o) = given
           /\ 2 * SumOn(RanksGiven(form, rows, q), OptionsOf(form, q)) = given * (k * (k + 1))
<1> DEFINE k == Len(form[q].options)
           f == RanksGiven(form, rows, q)
<1>1. IsFiniteSet(OptionsOf(form, q)) /\ OptionsOf(form, q) = 1..k /\ k \in Nat
  BY OptionsFinite
<1>2. CASE RowsAbout(rows, q) = {}
  <2>1. \A o \in OptionsOf(form, q) : RowsFor(rows, q, o) = {}
    BY <1>2 DEF RowsFor, RowsAbout
  <2>2. \A o \in OptionsOf(form, q) : Named(rows, q, o) = 0 /\ f[o] = 0
    BY <2>1 DEF RanksGiven, Named, RankGiven
  <2> HIDE DEF f
  <2>3. SumOn(f, OptionsOf(form, q)) = 0
    BY <1>1, <2>2, SumZero
  <2>4. 0 * (k * (k + 1)) = 0
    BY <1>1
  <2> QED BY <1>2, <2>2, <2>3, <2>4 DEF f
<1>3. CASE RowsAbout(rows, q) # {}
  <2>1. Ranked(rows, q, k)
    BY <1>3 DEF Tidy
  <2>2. PICK s \in Seq(Nat) : /\ IsPermutation(s, k)
                              /\ \A i \in 1..k : \E n \in RowsFor(rows, q, s[i]) : rows[n].rank = i
    BY <2>1 DEF Ranked
  <2>3. {s[i] : i \in 1..k} = 1..k
    <3>1. DOMAIN s = 1..k /\ ToSet(s) = 1..k
      BY <2>2 DEF IsPermutation
    <3> QED BY <3>1 DEF ToSet
  <2>4. \A i \in 1..k : RowsFor(rows, q, s[i]) # {} /\ RankGiven(rows, q, s[i]) = i
    <3> TAKE i \in 1..k
    <3>1. PICK n \in RowsFor(rows, q, s[i]) : rows[n].rank = i
      BY <2>2
    <3> DEFINE m == CHOOSE m \in RowsFor(rows, q, s[i]) : TRUE
    <3>2. m \in RowsFor(rows, q, s[i])
      BY <3>1
    <3>3. rows[m] = rows[n]
      BY <3>2 DEF Tidy, RowsFor
    <3> QED BY <3>1, <3>3 DEF RankGiven
  <2>5. \A o \in OptionsOf(form, q) : Named(rows, q, o) = 1
    <3> TAKE o \in OptionsOf(form, q)
    <3>1. PICK i \in 1..k : s[i] = o
      BY <1>1, <2>3
    <3> QED BY <2>4, <3>1 DEF Named
  <2>6. \A i \in 1..k : f[s[i]] = i
    <3> TAKE i \in 1..k
    <3>1. s[i] \in OptionsOf(form, q)
      BY <1>1, <2>3
    <3> QED BY <2>4, <3>1 DEF RanksGiven
  <2> DEFINE g == [i \in 1..k |-> i]
  <2>7. \A i \in 1..k : g[i] = i
    OBVIOUS
  <2> HIDE DEF f, g, k
  <2>8. \A i, j \in 1..k : s[i] = s[j] => i = j
    BY <1>1, <2>2, PermutationInjective
  <2>9. SumOn(g, 1..k) = SumOn(f, {s[i] : i \in 1..k})
    <3>1. \A i \in 1..k : f[s[i]] \in Int /\ g[i] = f[s[i]]
      BY <1>1, <2>6, <2>7
    <3> DEFINE places == 1..k
    <3>2. IsFiniteSet(places)
      BY <1>1
    <3>3. \A i, j \in places : s[i] = s[j] => i = j
      BY <2>8
    <3>4. \A i \in places : f[s[i]] \in Int /\ g[i] = f[s[i]]
      BY <3>1
    <3> HIDE DEF places
    <3>5. SumOn(g, places) = SumOn(f, {s[i] : i \in places})
      BY <3>2, <3>3, <3>4, SumMoved
    <3> QED BY <3>5 DEF places
  <2>10. 2 * SumOn(g, 1..k) = k * (k + 1)
    BY <1>1, <2>7, SumOfFirst
  <2>11. 2 * SumOn(f, OptionsOf(form, q)) = 1 * (k * (k + 1))
    <3>1. SumOn(f, OptionsOf(form, q)) = SumOn(g, 1..k)
      BY <1>1, <2>3, <2>9
    <3>2. 1 * (k * (k + 1)) = k * (k + 1)
      BY <1>1
    <3> QED BY <2>10, <3>1, <3>2
  <2> QED BY <1>3, <2>5, <2>11 DEF f, k
<1> QED BY <1>2, <1>3

(***************************************************************************)
(* What the tables hold of a poll: the responses and, in agreement with    *)
(* them, the tallies and the count.  It holds of a poll without responses, *)
(* and stays with every response more.                                     *)
(***************************************************************************)
CountsOf(form, tally, q) == [o \in OptionsOf(form, q) |-> tally[q][o].count]
RankSumsOf(form, tally, q) == [o \in OptionsOf(form, q) |-> tally[q][o].rank_sum]
CountSum(form, tally, q) == SumOn(CountsOf(form, tally, q), OptionsOf(form, q))
RankSum(form, tally, q) == SumOn(RankSumsOf(form, tally, q), OptionsOf(form, q))

\* No response names an option twice.
Plain(responses) == \A r \in DOMAIN responses : IsInjective(r)

Held(form, responses) ==
    IsFiniteBag(responses) /\ \A r \in DOMAIN responses : Tidy(form, r)

CountKept(responses, count) == count \in Nat /\ SumFunction(responses) = count

RepairKept(form, responses, tally) ==
    Plain(responses) =>
        \A q \in DOMAIN form : \A o \in OptionsOf(form, q) :
            /\ tally[q][o].count = Copies(responses, q, o)
            /\ tally[q][o].rank_sum = RankTotal(responses, q, o)

RankingKept(form, responses, tally) ==
    \A q \in DOMAIN form : form[q].type = "ranking" =>
        LET k == Len(form[q].options) IN
        /\ \A o \in OptionsOf(form, q) : tally[q][o].count = Answered(responses, q)
        /\ 2 * RankSum(form, tally, q) = Answered(responses, q) * (k * (k + 1))

RowsKept(form, responses, tally) ==
    Plain(responses) =>
        \A q \in DOMAIN form : form[q].type \in ChoiceTypes =>
            CountSum(form, tally, q) = RowTotal(responses, q)

ChoiceKept(form, tally, count) ==
    \A q \in DOMAIN form : form[q].type \in {"single_choice", "yes_no"} /\ form[q].required =>
        CountSum(form, tally, q) = count

Kept(form, responses, tally, count) ==
    /\ Held(form, responses)
    /\ TallyOf(form, tally)
    /\ CountKept(responses, count)
    /\ RepairKept(form, responses, tally)
    /\ RankingKept(form, responses, tally)
    /\ RowsKept(form, responses, tally)
    /\ ChoiceKept(form, tally, count)

LEMMA SumsOverOptions ==
    ASSUME NEW form \in Seq(Questions), NEW tally, TallyOf(form, tally), NEW q \in DOMAIN form
    PROVE  /\ \A o \in OptionsOf(form, q) :
                 /\ tally[q][o].count \in Nat /\ tally[q][o].rank_sum \in Nat
                 /\ CountsOf(form, tally, q)[o] = tally[q][o].count
                 /\ RankSumsOf(form, tally, q)[o] = tally[q][o].rank_sum
           /\ CountSum(form, tally, q) \in Nat /\ RankSum(form, tally, q) \in Nat
<1>1. ASSUME NEW o \in OptionsOf(form, q)
      PROVE  tally[q][o].count \in Nat /\ tally[q][o].rank_sum \in Nat
  <2>1. tally[q] \in [OptionsOf(form, q) -> [count : Nat, rank_sum : Nat]]
    BY DEF TallyOf, OptionsOf
  <2>2. tally[q][o] \in [count : Nat, rank_sum : Nat]
    BY <2>1
  <2> QED BY <2>2
<1>2. \A o \in OptionsOf(form, q) :
         /\ CountsOf(form, tally, q)[o] = tally[q][o].count
         /\ RankSumsOf(form, tally, q)[o] = tally[q][o].rank_sum
  BY DEF CountsOf, RankSumsOf
<1>3. IsFiniteSet(OptionsOf(form, q))
  BY OptionsFinite
<1>4. CountSum(form, tally, q) \in Nat
  BY <1>1, <1>2, <1>3, SumNat DEF CountSum
<1>5. RankSum(form, tally, q) \in Nat
  BY <1>1, <1>2, <1>3, SumNat DEF RankSum
<1> QED BY <1>1, <1>2, <1>4, <1>5

LEMMA KeptStart ==
    ASSUME NEW form \in Seq(Questions)
    PROVE  Kept(form, EmptyBag, Seeded(form), 0)
<1> DEFINE tally == Seeded(form)
<1>1. DOMAIN EmptyBag = {} /\ IsFiniteBag(EmptyBag) /\ SumFunction(EmptyBag) = 0
  BY TotalsStart
<1>2. TallyOf(form, tally)
  BY SeededTally
<1>3. \A q \in DOMAIN form : \A o \in OptionsOf(form, q) :
         tally[q][o].count = 0 /\ tally[q][o].rank_sum = 0
  BY SeededTally DEF OptionsOf
<1> HIDE DEF tally
<1>4. ASSUME NEW q \in DOMAIN form
      PROVE  CountSum(form, tally, q) = 0 /\ RankSum(form, tally, q) = 0
  <2>1. IsFiniteSet(OptionsOf(form, q))
    BY OptionsFinite
  <2>2. \A o \in OptionsOf(form, q) :
           CountsOf(form, tally, q)[o] = 0 /\ RankSumsOf(form, tally, q)[o] = 0
    BY <1>2, <1>3, SumsOverOptions
  <2>3. CountSum(form, tally, q) = 0
    BY <2>1, <2>2, SumZero DEF CountSum
  <2>4. RankSum(form, tally, q) = 0
    BY <2>1, <2>2, SumZero DEF RankSum
  <2> QED BY <2>3, <2>4
<1>5. Held(form, EmptyBag) /\ CountKept(EmptyBag, 0)
  BY <1>1 DEF Held, CountKept
<1>6. RepairKept(form, EmptyBag, tally)
  BY <1>3, TotalsStart DEF RepairKept
<1>7. RankingKept(form, EmptyBag, tally)
  <2> SUFFICES ASSUME NEW q \in DOMAIN form
               PROVE  /\ \A o \in OptionsOf(form, q) : tally[q][o].count = Answered(EmptyBag, q)
                      /\ 2 * RankSum(form, tally, q)
                            = Answered(EmptyBag, q)
                                * (Len(form[q].options) * (Len(form[q].options) + 1))
    BY DEF RankingKept
  <2>1. Answered(EmptyBag, q) = 0
    BY TotalsStart
  <2>2. Len(form[q].options) \in Nat
    BY OptionsFinite
  <2>3. \A n \in Nat : 0 * (n * (n + 1)) = 0
    OBVIOUS
  <2> QED BY <1>3, <1>4, <2>1, <2>2, <2>3
<1>8. RowsKept(form, EmptyBag, tally)
  BY <1>4, TotalsStart DEF RowsKept
<1>9. ChoiceKept(form, tally, 0)
  BY <1>4 DEF ChoiceKept
<1> QED BY <1>2, <1>5, <1>6, <1>7, <1>8, <1>9 DEF Kept, tally

\* A response more (insertAnswers, incrementMany and the count, in one transaction).
THEOREM KeptMore ==
    ASSUME NEW form \in Seq(Questions), NEW responses, NEW tally, NEW count,
           Kept(form, responses, tally, count), NEW rows, Tidy(form, rows)
    PROVE  Kept(form, responses (+) SetToBag({rows}), IncrementMany(tally, rows), count + 1)
<1> DEFINE more == responses (+) SetToBag({rows})
           new == IncrementMany(tally, rows)
<1>1. /\ Held(form, responses) /\ TallyOf(form, tally) /\ CountKept(responses, count)
      /\ IsFiniteBag(responses)
  BY DEF Kept, Held
<1>2. rows \in Seq(Row) /\ DOMAIN responses \subseteq Seq(Row)
  BY <1>1 DEF Held, Tidy
<1>3. IsFiniteBag(more) /\ DOMAIN more = DOMAIN responses \cup {rows}
  BY <1>1, OneMore
<1>4. /\ TallyOf(form, new)
      /\ \A q \in DOMAIN form : \A o \in OptionsOf(form, q) :
            /\ new[q][o].count = tally[q][o].count + Named(rows, q, o)
            /\ new[q][o].rank_sum = tally[q][o].rank_sum + RankGiven(rows, q, o)
  BY <1>1, <1>2, Increment DEF OptionsOf
<1>5. \A q, o : /\ Copies(more, q, o) = Copies(responses, q, o) + Cardinality(RowsFor(rows, q, o))
                /\ RankTotal(more, q, o) = RankTotal(responses, q, o) + RanksIn(rows, q, o)
                /\ RowTotal(more, q) = RowTotal(responses, q) + Cardinality(RowsAbout(rows, q))
                /\ Answered(more, q)
                      = Answered(responses, q) + (IF RowsAbout(rows, q) = {} THEN 0 ELSE 1)
  BY <1>1, <1>2, TotalsMore
<1>6. Held(form, more)
  BY <1>1, <1>3 DEF Held
<1>7. Plain(more) => Plain(responses) /\ IsInjective(rows)
  BY <1>3 DEF Plain
<1>8. CountKept(more, count + 1)
  <2> DEFINE ones == [r \in DOMAIN responses \cup {rows} |-> 1]
  <2>1. \A B : IsFiniteBag(B) /\ DOMAIN B \subseteq DOMAIN responses \cup {rows} =>
           SumFunction(B) = Worth(B, ones)
    <3> SUFFICES ASSUME NEW B, IsFiniteBag(B), DOMAIN B \subseteq DOMAIN responses \cup {rows}
                 PROVE  SumFunction(B) = Worth(B, ones)
      OBVIOUS
    <3>1. \A r \in DOMAIN B : B[r] \in Int /\ B[r] * ones[r] = B[r]
      BY DEF IsFiniteBag, IsABag
    <3> DEFINE f == [r \in DOMAIN B |-> B[r] * ones[r]]
    <3>2. \A r \in DOMAIN B : f[r] = B[r]
      BY <3>1
    <3> HIDE DEF f
    <3>3. SumOn(f, DOMAIN B) = SumOn(B, DOMAIN B)
      BY <3>1, <3>2, SumEqual DEF IsFiniteBag
    <3> QED BY <3>3, SumFunctionIs DEF Worth, f
  <2>2. \A r \in DOMAIN responses \cup {rows} : ones[r] = 1
    OBVIOUS
  <2> HIDE DEF ones, more
  <2>3. /\ \A r \in DOMAIN responses \cup {rows} : ones[r] \in Int
        /\ ones[rows] = 1
    BY <2>2
  <2>4. Worth(more, ones) = Worth(responses, ones) + ones[rows]
    BY <1>1, <2>3, WorthMore DEF more
  <2> QED BY <1>1, <1>3, <2>1, <2>3, <2>4 DEF CountKept
<1> HIDE DEF more, new
<1>9. RepairKept(form, more, new)
  <2> SUFFICES ASSUME Plain(more), NEW q \in DOMAIN form, NEW o \in OptionsOf(form, q)
               PROVE  /\ new[q][o].count = Copies(more, q, o)
                      /\ new[q][o].rank_sum = RankTotal(more, q, o)
    BY DEF RepairKept
  <2>1. tally[q][o].count = Copies(responses, q, o)
        /\ tally[q][o].rank_sum = RankTotal(responses, q, o)
    BY <1>7 DEF Kept, RepairKept
  <2>2. /\ Cardinality(RowsFor(rows, q, o)) = Named(rows, q, o)
        /\ RanksIn(rows, q, o) = RankGiven(rows, q, o)
    BY <1>7, OneRowEach
  <2> QED BY <1>4, <1>5, <2>1, <2>2
<1>10. ASSUME NEW q \in DOMAIN form
       PROVE  /\ CountSum(form, new, q)
                    = CountSum(form, tally, q) + SumOn(NamedIn(form, rows, q), OptionsOf(form, q))
              /\ RankSum(form, new, q)
                    = RankSum(form, tally, q) + SumOn(RanksGiven(form, rows, q), OptionsOf(form, q))
  <2>1. IsFiniteSet(OptionsOf(form, q))
    BY OptionsFinite
  <2>2. \A o \in OptionsOf(form, q) :
           /\ NamedIn(form, rows, q)[o] = Named(rows, q, o)
           /\ RanksGiven(form, rows, q)[o] = RankGiven(rows, q, o)
           /\ Named(rows, q, o) \in Nat /\ RankGiven(rows, q, o) \in Nat
    BY <1>2, AddedTypes DEF NamedIn, RanksGiven
  <2>3. \A o \in OptionsOf(form, q) :
           /\ tally[q][o].count \in Nat /\ tally[q][o].rank_sum \in Nat
           /\ CountsOf(form, tally, q)[o] = tally[q][o].count
           /\ RankSumsOf(form, tally, q)[o] = tally[q][o].rank_sum
           /\ CountsOf(form, new, q)[o] = new[q][o].count
           /\ RankSumsOf(form, new, q)[o] = new[q][o].rank_sum
    BY <1>1, <1>4, SumsOverOptions
  <2>4. SumOn(CountsOf(form, new, q), OptionsOf(form, q))
           = SumOn(CountsOf(form, tally, q), OptionsOf(form, q))
               + SumOn(NamedIn(form, rows, q), OptionsOf(form, q))
    <3>1. \A o \in OptionsOf(form, q) :
             /\ CountsOf(form, tally, q)[o] \in Int /\ NamedIn(form, rows, q)[o] \in Int
             /\ CountsOf(form, new, q)[o]
                   = CountsOf(form, tally, q)[o] + NamedIn(form, rows, q)[o]
      BY <1>4, <2>2, <2>3
    <3> QED BY <2>1, <3>1, SumPlus
  <2>5. SumOn(RankSumsOf(form, new, q), OptionsOf(form, q))
           = SumOn(RankSumsOf(form, tally, q), OptionsOf(form, q))
               + SumOn(RanksGiven(form, rows, q), OptionsOf(form, q))
    <3>1. \A o \in OptionsOf(form, q) :
             /\ RankSumsOf(form, tally, q)[o] \in Int /\ RanksGiven(form, rows, q)[o] \in Int
             /\ RankSumsOf(form, new, q)[o]
                   = RankSumsOf(form, tally, q)[o] + RanksGiven(form, rows, q)[o]
      BY <1>4, <2>2, <2>3
    <3> QED BY <2>1, <3>1, SumPlus
  <2> QED BY <2>4, <2>5 DEF CountSum, RankSum
<1>11. RankingKept(form, more, new)
  <2> SUFFICES ASSUME NEW q \in DOMAIN form, form[q].type = "ranking"
               PROVE  /\ \A o \in OptionsOf(form, q) : new[q][o].count = Answered(more, q)
                      /\ 2 * RankSum(form, new, q)
                            = Answered(more, q) * (Len(form[q].options) * (Len(form[q].options) + 1))
    BY DEF RankingKept
  <2> DEFINE k == Len(form[q].options)
             given == IF RowsAbout(rows, q) = {} THEN 0 ELSE 1
             old == Answered(responses, q)
             ranks == SumOn(RanksGiven(form, rows, q), OptionsOf(form, q))
  <2>1. /\ \A o \in OptionsOf(form, q) : tally[q][o].count = old
        /\ 2 * RankSum(form, tally, q) = old * (k * (k + 1))
    BY DEF Kept, RankingKept
  <2>2. /\ \A o \in OptionsOf(form, q) : Named(rows, q, o) = given
        /\ 2 * ranks = given * (k * (k + 1))
    BY RankedSum
  <2>3. Answered(more, q) = old + given
    BY <1>5
  <2>4. RankSum(form, new, q) = RankSum(form, tally, q) + ranks
    BY <1>10
  <2>5. k \in Nat /\ old \in Nat /\ given \in Nat /\ RankSum(form, tally, q) \in Nat
    BY <1>1, <1>2, OptionsFinite, TotalsNat, SumsOverOptions
  <2>6. ranks \in Int
    <3>1. \A o \in OptionsOf(form, q) : RanksGiven(form, rows, q)[o] \in Int
      BY <1>2, AddedTypes DEF RanksGiven
    <3> QED BY <3>1, OptionsFinite, SumInt
  <2> HIDE DEF k, given, old, ranks
  <2>7. \A o \in OptionsOf(form, q) : new[q][o].count = Answered(more, q)
    BY <1>4, <2>1, <2>2, <2>3
  <2>8. \A a, b, t, u, v \in Int : 2 * a = t * v /\ 2 * b = u * v => 2 * (a + b) = (t + u) * v
    OBVIOUS
  <2> DEFINE v == k * (k + 1)
             sum == RankSum(form, tally, q)
  <2>9. v \in Int
    BY <2>5
  <2>10. 2 * sum = old * v /\ 2 * ranks = given * v
    BY <2>1, <2>2
  <2>11. sum \in Int /\ old \in Int /\ given \in Int
    BY <2>5
  <2> HIDE DEF v, sum
  <2>12. 2 * (sum + ranks) = (old + given) * v
    BY <2>6, <2>8, <2>9, <2>10, <2>11
  <2>13. 2 * RankSum(form, new, q) = Answered(more, q) * (k * (k + 1))
    BY <2>3, <2>4, <2>12 DEF v, sum
  <2> QED BY <2>7, <2>13 DEF k
<1>12. RowsKept(form, more, new)
  <2> SUFFICES ASSUME Plain(more), NEW q \in DOMAIN form, form[q].type \in ChoiceTypes
               PROVE  CountSum(form, new, q) = RowTotal(more, q)
    BY DEF RowsKept
  <2>1. CountSum(form, tally, q) = RowTotal(responses, q)
    BY <1>7 DEF Kept, RowsKept
  <2>2. SumOn(NamedIn(form, rows, q), OptionsOf(form, q)) = Cardinality(RowsAbout(rows, q))
    BY <1>7, NamedRows
  <2> QED BY <1>5, <1>10, <2>1, <2>2
<1>13. ChoiceKept(form, new, count + 1)
  <2> SUFFICES ASSUME NEW q \in DOMAIN form, form[q].type \in {"single_choice", "yes_no"},
                      form[q].required
               PROVE  CountSum(form, new, q) = count + 1
    BY DEF ChoiceKept
  <2>1. CountSum(form, tally, q) = count
    BY DEF Kept, ChoiceKept
  <2>2. SumOn(NamedIn(form, rows, q), OptionsOf(form, q)) = 1
    BY NamedOnce
  <2> QED BY <1>10, <2>1, <2>2
<1>14. Kept(form, more, new, count + 1)
  BY <1>4, <1>6, <1>8, <1>9, <1>11, <1>12, <1>13 DEF Kept
<1> QED BY <1>14 DEF more, new
=============================================================================
