------------------------------- MODULE SumProofs -------------------------------
(* Sums over finite sets, SumFunctionOnSet(f, S) of the community modules: what *)
(* the proofs about counts use of them.  The induction is over the subsets of a *)
(* finite set, by a minimal counterexample.  At the end, the same for how many  *)
(* elements of a sequence are in a set.                                         *)
EXTENDS FiniteSetsExt, FiniteSetTheorems, WellFoundedInduction, SequenceTheorems, TLAPS

LEMMA SmallestSubset ==
    ASSUME NEW S, IsFiniteSet(S), NEW B \in SUBSET SUBSET S, B # {}
    PROVE  \E T \in B : \A U \in B : U \subseteq T => U = T
<1> DEFINE F == FiniteSubsetsOf(S)
           R == StrictSubsetOrdering(S)
<1>1. B \subseteq F
  BY FS_Subset DEF FiniteSubsetsOf
<1>2. IsWellFoundedOn(R, F)
  BY FS_StrictSubsetOrderingWellFounded
<1>3. PICK T \in B : \A U \in B : ~(<<U, T>> \in R)
  <2> HIDE DEF R, F
  <2> QED
    BY <1>1, <1>2, WFMin
<1>4. \A U \in B : U \subseteq T => U = T
  BY <1>3 DEF StrictSubsetOrdering
<1> QED
  BY <1>4

-----------------------------------------------------------------------------
(* The function that the fold is defined by *)

First(s) == CHOOSE x \in s : TRUE
Rest(s)  == s \ {First(s)}

\* iter is the sum of f over every subset of S.
SumsUp(f, S, iter) ==
    iter = [s \in SUBSET S |-> IF s = {} THEN 0 ELSE f[First(s)] + iter[Rest(s)]]

SumOver(f, S) == CHOOSE iter : SumsUp(f, S, iter)

LEMMA SumIs ==
    ASSUME NEW f, NEW S
    PROVE  SumFunctionOnSet(f, S) = SumOver(f, S)[S]
BY DEF SumFunctionOnSet, FoldFunctionOnSet, MapThenFoldSet, SumOver, SumsUp, First, Rest

LEMMA RestIsLess ==
    ASSUME NEW s, s # {}
    PROVE  /\ First(s) \in s /\ First(s) \notin Rest(s)
           /\ Rest(s) \subseteq s /\ Rest(s) # s
BY DEF First, Rest

\* What iter says of one set.
LEMMA SumsUpAt ==
    ASSUME NEW f, NEW S, NEW iter, SumsUp(f, S, iter), NEW s \in SUBSET S
    PROVE  iter[s] = IF s = {} THEN 0 ELSE f[First(s)] + iter[Rest(s)]
BY DEF SumsUp

LEMMA SumsUpUnique ==
    ASSUME NEW f, NEW S, NEW T, IsFiniteSet(S),
           NEW i, SumsUp(f, S, i), NEW j, SumsUp(f, T, j),
           NEW s, s \subseteq S, s \subseteq T
    PROVE  i[s] = j[s]
<1> DEFINE B == {u \in SUBSET s : i[u] # j[u]}
<1> SUFFICES ASSUME B # {} PROVE FALSE
  OBVIOUS
<1>1. IsFiniteSet(s)
  BY FS_Subset
<1>2. PICK u \in B : \A v \in B : v \subseteq u => v = u
  <2>1. B \in SUBSET SUBSET s
    OBVIOUS
  <2> HIDE DEF B
  <2> QED
    BY <1>1, <2>1, SmallestSubset
<1>3. u \subseteq s /\ u \in SUBSET S /\ u \in SUBSET T /\ i[u] # j[u]
  BY <1>2
<1>4. /\ i[u] = IF u = {} THEN 0 ELSE f[First(u)] + i[Rest(u)]
      /\ j[u] = IF u = {} THEN 0 ELSE f[First(u)] + j[Rest(u)]
  BY <1>3, SumsUpAt
<1>5. u # {}
  BY <1>3, <1>4
<1>6. Rest(u) \subseteq u /\ Rest(u) # u
  BY <1>5, RestIsLess
<1>7. i[Rest(u)] = j[Rest(u)]
  BY <1>2, <1>3, <1>6
<1> QED
  BY <1>3, <1>4, <1>7

LEMMA SumsUpExists ==
    ASSUME NEW f, NEW S, IsFiniteSet(S)
    PROVE  SumsUp(f, S, SumOver(f, S))
<1> DEFINE P(s) == \E iter : SumsUp(f, s, iter)
           B == {s \in SUBSET S : ~P(s)}
<1>1. SUFFICES \A s \in SUBSET S : P(s)
  BY <1>1 DEF SumOver
<1> SUFFICES ASSUME B # {} PROVE FALSE
  OBVIOUS
<1>2. PICK s \in B : \A t \in B : t \subseteq s => t = s
  <2>1. B \in SUBSET SUBSET S
    OBVIOUS
  <2> HIDE DEF B
  <2> QED
    BY <2>1, SmallestSubset
<1>3. s \in SUBSET S /\ ~P(s) /\ \A t \in SUBSET s : t # s => P(t)
  BY <1>2
<1>4. \A t \in SUBSET s : t # s => SumsUp(f, t, SumOver(f, t))
  BY <1>3 DEF SumOver
<1> DEFINE g == [t \in SUBSET s |-> SumOver(f, t)[t]]
           h == [t \in SUBSET s |-> IF t = {} THEN 0 ELSE f[First(t)] + g[Rest(t)]]
<1> HIDE DEF P, B
<1>5. ASSUME NEW t \in SUBSET s, t # s
      PROVE  h[t] = g[t]
  <2>1. SumsUp(f, t, SumOver(f, t))
    BY <1>4, <1>5
  <2>2. g[t] = IF t = {} THEN 0 ELSE f[First(t)] + SumOver(f, t)[Rest(t)]
    BY <2>1, SumsUpAt
  <2>3. CASE t = {}
    BY <2>2, <2>3
  <2>4. CASE t # {}
    <3>1. Rest(t) \subseteq t /\ Rest(t) # t
      BY <2>4, RestIsLess
    <3>2. Rest(t) \in SUBSET s /\ Rest(t) # s
      BY <3>1, <1>5
    <3>3. SumsUp(f, Rest(t), SumOver(f, Rest(t)))
      BY <3>2, <1>4
    <3>4. IsFiniteSet(t)
      BY <1>3, FS_Subset
    <3>5. SumOver(f, t)[Rest(t)] = SumOver(f, Rest(t))[Rest(t)]
      BY <2>1, <3>1, <3>3, <3>4, SumsUpUnique
    <3>6. g[Rest(t)] = SumOver(f, Rest(t))[Rest(t)]
      BY <3>2
    <3>7. h[t] = f[First(t)] + g[Rest(t)]
      BY <2>4
    <3> QED
      BY <2>2, <2>4, <3>5, <3>6, <3>7
  <2> QED
    BY <2>3, <2>4
<1>6. ASSUME NEW t \in SUBSET s
      PROVE  h[t] = IF t = {} THEN 0 ELSE f[First(t)] + h[Rest(t)]
  <2>1. CASE t = {}
    BY <2>1
  <2>2. CASE t # {}
    <3>1. Rest(t) \in SUBSET s /\ Rest(t) # s
      BY <2>2, RestIsLess
    <3>2. h[Rest(t)] = g[Rest(t)]
      BY <3>1, <1>5
    <3>3. h[t] = f[First(t)] + g[Rest(t)]
      BY <2>2
    <3> QED
      BY <2>2, <3>2, <3>3
  <2> QED
    BY <2>1, <2>2
<1>7. h = [t \in SUBSET s |-> h[t]]
  OBVIOUS
<1>8. SumsUp(f, s, h)
  <2> HIDE DEF h, g
  <2> QED
    BY <1>6, <1>7 DEF SumsUp
<1> QED
  BY <1>3, <1>8 DEF P

-----------------------------------------------------------------------------
(* The sums themselves *)

LEMMA SumNone ==
    ASSUME NEW f
    PROVE  SumFunctionOnSet(f, {}) = 0
<1>1. SumsUp(f, {}, SumOver(f, {}))
  BY SumsUpExists, FS_EmptySet
<1> QED
  BY <1>1, SumsUpAt, SumIs

LEMMA SumFirst ==
    ASSUME NEW f, NEW S, IsFiniteSet(S), S # {}
    PROVE  SumFunctionOnSet(f, S) = f[First(S)] + SumFunctionOnSet(f, Rest(S))
<1>1. Rest(S) \subseteq S
  BY RestIsLess
<1>2. IsFiniteSet(Rest(S))
  BY <1>1, FS_Subset
<1>3. SumsUp(f, S, SumOver(f, S)) /\ SumsUp(f, Rest(S), SumOver(f, Rest(S)))
  BY <1>2, SumsUpExists
<1>4. SumOver(f, S)[Rest(S)] = SumOver(f, Rest(S))[Rest(S)]
  BY <1>1, <1>3, SumsUpUnique
<1>5. SumOver(f, S)[S] = f[First(S)] + SumOver(f, S)[Rest(S)]
  BY <1>3, SumsUpAt
<1> QED
  BY <1>4, <1>5, SumIs

LEMMA SumInt ==
    ASSUME NEW f, NEW S, IsFiniteSet(S), \A x \in S : f[x] \in Int
    PROVE  SumFunctionOnSet(f, S) \in Int
<1> DEFINE B == {s \in SUBSET S : SumFunctionOnSet(f, s) \notin Int}
<1> SUFFICES ASSUME B # {} PROVE FALSE
  OBVIOUS
<1>1. PICK s \in B : \A t \in B : t \subseteq s => t = s
  <2>1. B \in SUBSET SUBSET S
    OBVIOUS
  <2> HIDE DEF B
  <2> QED
    BY <2>1, SmallestSubset
<1>2. s \in SUBSET S /\ SumFunctionOnSet(f, s) \notin Int /\ IsFiniteSet(s)
  BY <1>1, FS_Subset
<1>3. s # {}
  BY <1>2, SumNone
<1>4. First(s) \in s /\ Rest(s) \subseteq s /\ Rest(s) # s
  BY <1>3, RestIsLess
<1>5. SumFunctionOnSet(f, Rest(s)) \in Int
  BY <1>1, <1>2, <1>4
<1>6. f[First(s)] \in Int
  BY <1>2, <1>4
<1>7. SumFunctionOnSet(f, s) = f[First(s)] + SumFunctionOnSet(f, Rest(s))
  BY <1>2, <1>3, SumFirst
<1> QED
  BY <1>2, <1>5, <1>6, <1>7

\* Any element can be taken out of the sum.
LEMMA SumSplit ==
    ASSUME NEW f, NEW S, IsFiniteSet(S), \A x \in S : f[x] \in Int, NEW x \in S
    PROVE  /\ SumFunctionOnSet(f, S) = f[x] + SumFunctionOnSet(f, S \ {x})
           /\ SumFunctionOnSet(f, S) \in Int /\ SumFunctionOnSet(f, S \ {x}) \in Int
<1> DEFINE P(s) == \A y \in s : SumFunctionOnSet(f, s) = f[y] + SumFunctionOnSet(f, s \ {y})
           B == {s \in SUBSET S : ~P(s)}
<1>1. ASSUME B # {} PROVE FALSE
  <2>1. PICK s \in B : \A t \in B : t \subseteq s => t = s
    <3>1. B \in SUBSET SUBSET S
      OBVIOUS
    <3> HIDE DEF B
    <3> QED
      BY <1>1, <3>1, SmallestSubset
  <2>2. s \in SUBSET S /\ ~P(s) /\ IsFiniteSet(s)
    BY <2>1, FS_Subset
  <2>3. PICK y \in s : SumFunctionOnSet(f, s) # f[y] + SumFunctionOnSet(f, s \ {y})
    BY <2>2
  <2>4. First(s) \in s /\ Rest(s) \subseteq s /\ Rest(s) # s
    BY <2>3, RestIsLess
  <2>5. SumFunctionOnSet(f, s) = f[First(s)] + SumFunctionOnSet(f, Rest(s))
    BY <2>2, <2>3, SumFirst
  <2>6. y # First(s)
    BY <2>3, <2>5 DEF Rest
  <2>7. P(Rest(s)) /\ P(s \ {y})
    <3>1. Rest(s) \in SUBSET S /\ Rest(s) \notin B
      BY <2>1, <2>2, <2>4
    <3>2. s \ {y} \in SUBSET S /\ s \ {y} \subseteq s /\ s \ {y} # s
      BY <2>2, <2>3
    <3>3. s \ {y} \notin B
      BY <2>1, <3>2
    <3> QED
      BY <3>1, <3>2, <3>3
  <2>8. y \in Rest(s) /\ First(s) \in s \ {y} /\ Rest(s) \ {y} = (s \ {y}) \ {First(s)}
    BY <2>4, <2>6 DEF Rest
  <2>9. /\ SumFunctionOnSet(f, Rest(s)) = f[y] + SumFunctionOnSet(f, Rest(s) \ {y})
        /\ SumFunctionOnSet(f, s \ {y}) = f[First(s)] + SumFunctionOnSet(f, (s \ {y}) \ {First(s)})
    BY <2>7, <2>8
  <2>10. SumFunctionOnSet(f, Rest(s) \ {y}) \in Int
    <3>1. Rest(s) \ {y} \in SUBSET S
      BY <2>2, <2>4
    <3>2. IsFiniteSet(Rest(s) \ {y}) /\ \A z \in Rest(s) \ {y} : f[z] \in Int
      BY <3>1, FS_Subset
    <3> QED
      BY <3>2, SumInt
  <2>11. f[y] \in Int /\ f[First(s)] \in Int
    BY <2>2, <2>4
  <2>12. SumFunctionOnSet(f, (s \ {y}) \ {First(s)}) = SumFunctionOnSet(f, Rest(s) \ {y})
    BY <2>8
  <2>13. SumFunctionOnSet(f, s) = f[First(s)] + (f[y] + SumFunctionOnSet(f, Rest(s) \ {y}))
    BY <2>5, <2>9
  <2>14. SumFunctionOnSet(f, s \ {y}) = f[First(s)] + SumFunctionOnSet(f, Rest(s) \ {y})
    BY <2>9, <2>12
  <2> QED
    BY <2>3, <2>10, <2>11, <2>13, <2>14
<1>2. SumFunctionOnSet(f, S) = f[x] + SumFunctionOnSet(f, S \ {x})
  BY <1>1
<1>3. IsFiniteSet(S \ {x})
  BY FS_Subset
<1> QED
  BY <1>2, <1>3, SumInt

\* A new element adds its value.
LEMMA SumAdd ==
    ASSUME NEW f, NEW S, IsFiniteSet(S), \A x \in S : f[x] \in Int,
           NEW x, x \notin S, f[x] \in Int
    PROVE  /\ SumFunctionOnSet(f, S \cup {x}) = SumFunctionOnSet(f, S) + f[x]
           /\ SumFunctionOnSet(f, S) \in Int
<1>1. (S \cup {x}) \ {x} = S /\ IsFiniteSet(S \cup {x})
  BY FS_AddElement
<1>2. \A y \in S \cup {x} : f[y] \in Int
  OBVIOUS
<1>3. SumFunctionOnSet(f, S \cup {x}) = f[x] + SumFunctionOnSet(f, (S \cup {x}) \ {x})
  BY <1>1, <1>2, SumSplit
<1>4. SumFunctionOnSet(f, (S \cup {x}) \ {x}) = SumFunctionOnSet(f, S)
  BY <1>1
<1>5. SumFunctionOnSet(f, S) \in Int
  BY SumInt
<1> QED
  BY <1>3, <1>4, <1>5

\* Only the values on the set matter.
LEMMA SumSame ==
    ASSUME NEW f, NEW g, NEW S, IsFiniteSet(S), \A x \in S : g[x] = f[x]
    PROVE  SumFunctionOnSet(g, S) = SumFunctionOnSet(f, S)
<1> DEFINE B == {s \in SUBSET S : SumFunctionOnSet(g, s) # SumFunctionOnSet(f, s)}
<1> SUFFICES ASSUME B # {} PROVE FALSE
  OBVIOUS
<1>1. PICK s \in B : \A t \in B : t \subseteq s => t = s
  <2>1. B \in SUBSET SUBSET S
    OBVIOUS
  <2> HIDE DEF B
  <2> QED
    BY <2>1, SmallestSubset
<1>2. s \in SUBSET S /\ SumFunctionOnSet(g, s) # SumFunctionOnSet(f, s) /\ IsFiniteSet(s)
  BY <1>1, FS_Subset
<1>3. s # {}
  BY <1>2, SumNone
<1>4. First(s) \in s /\ Rest(s) \subseteq s /\ Rest(s) # s
  BY <1>3, RestIsLess
<1>5. SumFunctionOnSet(g, Rest(s)) = SumFunctionOnSet(f, Rest(s))
  BY <1>1, <1>2, <1>4
<1>6. g[First(s)] = f[First(s)]
  BY <1>2, <1>4
<1> QED
  BY <1>2, <1>3, <1>5, <1>6, SumFirst

\* One value changes.
LEMMA SumChange ==
    ASSUME NEW f, NEW g, NEW S, IsFiniteSet(S), NEW x \in S,
           \A y \in S : f[y] \in Int, g[x] \in Int,
           \A y \in S \ {x} : g[y] = f[y]
    PROVE  /\ SumFunctionOnSet(g, S) = SumFunctionOnSet(f, S) - f[x] + g[x]
           /\ SumFunctionOnSet(f, S) \in Int
<1>1. IsFiniteSet(S \ {x})
  BY FS_Subset
<1>2. SumFunctionOnSet(g, S \ {x}) = SumFunctionOnSet(f, S \ {x})
  BY <1>1, SumSame
<1>3. \A y \in S : g[y] \in Int
  OBVIOUS
<1>4. SumFunctionOnSet(f, S) = f[x] + SumFunctionOnSet(f, S \ {x})
  BY SumSplit
<1>5. SumFunctionOnSet(g, S) = g[x] + SumFunctionOnSet(g, S \ {x})
  BY <1>3, SumSplit
<1>6. SumFunctionOnSet(f, S \ {x}) \in Int /\ SumFunctionOnSet(f, S) \in Int
  BY <1>1, SumInt
<1> QED
  BY <1>2, <1>4, <1>5, <1>6

LEMMA SumZero ==
    ASSUME NEW f, NEW S, IsFiniteSet(S), \A x \in S : f[x] = 0
    PROVE  SumFunctionOnSet(f, S) = 0
<1> DEFINE B == {s \in SUBSET S : SumFunctionOnSet(f, s) # 0}
<1> SUFFICES ASSUME B # {} PROVE FALSE
  OBVIOUS
<1>1. PICK s \in B : \A t \in B : t \subseteq s => t = s
  <2>1. B \in SUBSET SUBSET S
    OBVIOUS
  <2> HIDE DEF B
  <2> QED
    BY <2>1, SmallestSubset
<1>2. s \in SUBSET S /\ SumFunctionOnSet(f, s) # 0 /\ IsFiniteSet(s)
  BY <1>1, FS_Subset
<1>3. s # {}
  BY <1>2, SumNone
<1>4. First(s) \in s /\ Rest(s) \subseteq s /\ Rest(s) # s
  BY <1>3, RestIsLess
<1>5. SumFunctionOnSet(f, Rest(s)) = 0
  BY <1>1, <1>2, <1>4
<1>6. f[First(s)] = 0
  BY <1>2, <1>4
<1> QED
  BY <1>2, <1>3, <1>5, <1>6, SumFirst

\* A part of the set has no more than all of it.
LEMMA SumPart ==
    ASSUME NEW f, NEW S, IsFiniteSet(S), \A x \in S : f[x] \in Nat, NEW T \in SUBSET S
    PROVE  /\ SumFunctionOnSet(f, T) <= SumFunctionOnSet(f, S)
           /\ SumFunctionOnSet(f, T) \in Nat /\ SumFunctionOnSet(f, S) \in Nat
<1> DEFINE P(s) == \A t \in SUBSET s :
                      0 <= SumFunctionOnSet(f, t) /\ SumFunctionOnSet(f, t) <= SumFunctionOnSet(f, s)
           B == {s \in SUBSET S : ~P(s)}
<1>0. \A s \in SUBSET S : IsFiniteSet(s) /\ SumFunctionOnSet(f, s) \in Int
  <2> TAKE s \in SUBSET S
  <2>1. IsFiniteSet(s) /\ \A x \in s : f[x] \in Int
    BY FS_Subset
  <2> QED
    BY <2>1, SumInt
<1>1. ASSUME B # {} PROVE FALSE
  <2>1. PICK s \in B : \A t \in B : t \subseteq s => t = s
    <3>1. B \in SUBSET SUBSET S
      OBVIOUS
    <3> HIDE DEF B
    <3> QED
      BY <1>1, <3>1, SmallestSubset
  <2>2. s \in SUBSET S /\ ~P(s)
    BY <2>1
  <2>3. PICK t \in SUBSET s :
          ~(0 <= SumFunctionOnSet(f, t) /\ SumFunctionOnSet(f, t) <= SumFunctionOnSet(f, s))
    BY <2>2
  <2>4. /\ SumFunctionOnSet(f, s) \in Int /\ IsFiniteSet(s)
        /\ SumFunctionOnSet(f, t) \in Int /\ IsFiniteSet(t)
    BY <1>0, <2>2, <2>3
  <2>5. s # {}
    <3>1. ASSUME s = {} PROVE SumFunctionOnSet(f, t) = 0 /\ SumFunctionOnSet(f, s) = 0
      <4>1. t = {}
        BY <3>1
      <4> QED
        BY <3>1, <4>1, SumNone
    <3> QED
      BY <2>3, <3>1
  <2>6. ASSUME NEW x \in s
        PROVE  /\ P(s \ {x}) /\ f[x] \in Nat
               /\ SumFunctionOnSet(f, s) = f[x] + SumFunctionOnSet(f, s \ {x})
               /\ SumFunctionOnSet(f, s \ {x}) \in Int
    <3>1. s \ {x} \in SUBSET S /\ s \ {x} \subseteq s /\ s \ {x} # s
      BY <2>2, <2>6
    <3>2. s \ {x} \notin B
      BY <2>1, <3>1
    <3>3. \A y \in s : f[y] \in Int
      BY <2>2
    <3>4. f[x] \in Nat
      BY <2>2, <2>6
    <3>5. SumFunctionOnSet(f, s) = f[x] + SumFunctionOnSet(f, s \ {x})
      BY <2>4, <2>6, <3>3, SumSplit
    <3>6. P(s \ {x})
      BY <3>1, <3>2
    <3> QED
      BY <1>0, <3>1, <3>4, <3>5, <3>6
  <2>7. CASE t = s
    <3>1. PICK x \in s : TRUE
      BY <2>5
    <3>2. 0 <= SumFunctionOnSet(f, s \ {x})
      BY <2>6
    <3> QED
      BY <2>3, <2>4, <2>6, <2>7, <3>2
  <2>8. CASE t # s
    <3>1. PICK x \in s : x \notin t
      BY <2>3, <2>8
    <3>2. t \in SUBSET (s \ {x})
      BY <2>3, <3>1
    <3>3. 0 <= SumFunctionOnSet(f, t) /\ SumFunctionOnSet(f, t) <= SumFunctionOnSet(f, s \ {x})
      BY <2>6, <3>2
    <3>4. /\ f[x] \in Nat /\ SumFunctionOnSet(f, s \ {x}) \in Int
          /\ SumFunctionOnSet(f, s) = f[x] + SumFunctionOnSet(f, s \ {x})
      BY <2>6
    <3> QED
      BY <2>3, <2>4, <3>3, <3>4
  <2> QED
    BY <2>7, <2>8
<1>2. P(S)
  BY <1>1
<1> QED
  BY <1>0, <1>2

-----------------------------------------------------------------------------
(* How many elements of a sequence are in a set *)

PlacesIn(q, V) == {n \in DOMAIN q : q[n] \in V}

NumberIn(q, V) == Cardinality(PlacesIn(q, V))

LEMMA NumberType ==
    ASSUME NEW S, NEW q \in Seq(S), NEW V
    PROVE  /\ IsFiniteSet(PlacesIn(q, V))
           /\ NumberIn(q, V) = Cardinality(PlacesIn(q, V))
           /\ NumberIn(q, V) \in Nat /\ NumberIn(q, V) <= Len(q)
<1>1. NumberIn(q, V) = Cardinality(PlacesIn(q, V))
  BY DEF NumberIn
<1>2. DOMAIN q = 1..Len(q) /\ Len(q) \in Nat
  BY LenProperties
<1>3. IsFiniteSet(DOMAIN q)
  BY <1>2, FS_Interval
<1>4. PlacesIn(q, V) \in SUBSET DOMAIN q
  BY DEF PlacesIn
<1>5. IsFiniteSet(PlacesIn(q, V))
  BY <1>3, <1>4, FS_Subset
<1>6. Cardinality(PlacesIn(q, V)) <= Cardinality(1..Len(q))
  BY <1>2, <1>3, <1>4, FS_Subset
<1>7. Cardinality(1..Len(q)) = Len(q)
  BY <1>2, FS_Interval
<1> QED
  BY <1>1, <1>5, <1>6, <1>7, FS_CardinalityType

LEMMA NumberNone ==
    ASSUME NEW V
    PROVE  NumberIn(<<>>, V) = 0
<1>1. PlacesIn(<<>>, V) = {}
  BY DEF PlacesIn
<1>2. <<>> \in Seq({})
  OBVIOUS
<1> QED
  BY <1>1, <1>2, NumberType, FS_EmptySet

One(b) == IF b THEN 1 ELSE 0

LEMMA NumberAppend ==
    ASSUME NEW S, NEW q \in Seq(S), NEW e \in S, NEW V
    PROVE  NumberIn(Append(q, e), V) = NumberIn(q, V) + One(e \in V)
<1> DEFINE a == Append(q, e)
           n == Len(q) + 1
<1>1. /\ a \in Seq(S) /\ Len(q) \in Nat
      /\ DOMAIN a = 1..n /\ DOMAIN q = 1..Len(q)
      /\ a[n] = e /\ \A i \in 1..Len(q) : a[i] = q[i]
  BY AppendProperties, LenProperties
<1> HIDE DEF a
<1>2. PlacesIn(a, V) = IF e \in V THEN PlacesIn(q, V) \cup {n} ELSE PlacesIn(q, V)
  BY <1>1 DEF PlacesIn
<1>3. n \notin PlacesIn(q, V)
  BY <1>1 DEF PlacesIn
<1>4. /\ NumberIn(a, V) = Cardinality(PlacesIn(a, V))
      /\ NumberIn(q, V) = Cardinality(PlacesIn(q, V))
      /\ NumberIn(q, V) \in Nat
      /\ IsFiniteSet(PlacesIn(q, V))
  BY <1>1, NumberType
<1>5. Cardinality(PlacesIn(q, V) \cup {n}) = Cardinality(PlacesIn(q, V)) + 1
  BY <1>3, <1>4, FS_AddElement
<1>6. NumberIn(a, V) = NumberIn(q, V) + One(e \in V)
  <2>1. CASE e \in V
    BY <1>2, <1>4, <1>5, <2>1 DEF One
  <2>2. CASE e \notin V
    BY <1>2, <1>4, <2>2 DEF One
  <2> QED
    BY <2>1, <2>2
<1> QED
  BY <1>6 DEF a

LEMMA NumberTail ==
    ASSUME NEW S, NEW q \in Seq(S), q # <<>>, NEW V
    PROVE  NumberIn(q, V) = NumberIn(Tail(q), V) + One(Head(q) \in V)
<1> DEFINE t == Tail(q)
           A == PlacesIn(q, V) \ {1}
           B == PlacesIn(t, V)
           f == [n \in A |-> n - 1]
<1>1. /\ t \in Seq(S) /\ Len(q) \in Nat \ {0} /\ Len(t) = Len(q) - 1
      /\ DOMAIN q = 1..Len(q) /\ DOMAIN t = 1..Len(q) - 1
      /\ Head(q) = q[1] /\ \A i \in 1..Len(q) - 1 : t[i] = q[i + 1]
  BY HeadTailProperties, LenProperties, EmptySeq
<1> HIDE DEF t
<1>2. /\ IsFiniteSet(PlacesIn(q, V)) /\ IsFiniteSet(B)
      /\ NumberIn(q, V) = Cardinality(PlacesIn(q, V))
      /\ NumberIn(t, V) = Cardinality(B)
      /\ NumberIn(q, V) \in Nat /\ NumberIn(t, V) \in Nat
  BY <1>1, NumberType
<1>3. f \in Bijection(A, B)
  <2>1. \A n \in A : n \in 2..Len(q) /\ n - 1 \in B
    BY <1>1 DEF PlacesIn
  <2>2. \A n \in B : n \in 1..Len(q) - 1 /\ n + 1 \in A
    BY <1>1 DEF PlacesIn
  <2>3. f \in [A -> B]
    BY <2>1
  <2>4. \A m, n \in A : f[m] = f[n] => m = n
    BY <2>1, <1>1
  <2>5. \A n \in B : f[n + 1] = n
    BY <2>2, <1>1
  <2> HIDE DEF A, B, f
  <2>6. f \in Injection(A, B)
    BY <2>3, <2>4 DEF Injection, IsInjective
  <2>7. f \in Surjection(A, B)
    BY <2>2, <2>3, <2>5 DEF Surjection
  <2> QED
    BY <2>6, <2>7 DEF Bijection
<1>4. /\ IsFiniteSet(A)
      /\ Cardinality(A) = Cardinality(PlacesIn(q, V)) - One(1 \in PlacesIn(q, V))
  BY <1>2, FS_RemoveElement, FS_CardinalityType DEF One
<1>5. Cardinality(B) = Cardinality(A)
  <2> HIDE DEF A, B, f
  <2>1. ExistsBijection(A, B)
    BY <1>3 DEF ExistsBijection
  <2> QED
    BY <1>4, <2>1, FS_Bijection
<1>6. 1 \in PlacesIn(q, V) <=> Head(q) \in V
  BY <1>1 DEF PlacesIn
<1>7. One(1 \in PlacesIn(q, V)) = One(Head(q) \in V)
  BY <1>6 DEF One
<1>8. One(Head(q) \in V) \in Nat
  BY DEF One
<1> HIDE DEF A, B, f
<1>9. NumberIn(q, V) = NumberIn(t, V) + One(Head(q) \in V)
  BY <1>2, <1>4, <1>5, <1>7, <1>8
<1> QED
  BY <1>9 DEF t
=============================================================================
