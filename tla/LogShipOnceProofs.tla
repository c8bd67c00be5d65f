------------------------- MODULE LogShipOnceProofs -------------------------
(* AtMostOnce of LogShip, for any number of doit threads, records,         *)
(* connections and files.                                                  *)
EXTENDS LogShipProofs

-----------------------------------------------------------------------------
(* Sequences in which no record comes twice *)

LEMMA OnceEmpty == IsInjective(<<>>)
BY DEF IsInjective

LEMMA OnceSingle ==
    ASSUME NEW r PROVE IsInjective(<<r>>)
BY DEF IsInjective

\* Two sequences, one after the other.
LEMMA OnceCat ==
    ASSUME NEW S, NEW s \in Seq(S), NEW t \in Seq(S)
    PROVE  IsInjective(Cat(s, t)) <=> IsInjective(s) /\ IsInjective(t) /\ Apart(s, t)
<1> DEFINE u == s \o t
<1>1. /\ Len(s) \in Nat /\ Len(t) \in Nat /\ Len(u) = Len(s) + Len(t)
      /\ DOMAIN s = 1..Len(s) /\ DOMAIN t = 1..Len(t) /\ DOMAIN u = 1..Len(u)
  OBVIOUS
<1>2. /\ \A i \in 1..Len(s) : i \in 1..Len(u) /\ u[i] = s[i]
      /\ \A j \in 1..Len(t) : Len(s) + j \in 1..Len(u) /\ u[Len(s) + j] = t[j]
  OBVIOUS
<1>3. Cat(s, t) = u
  BY DEF Cat
<1> HIDE DEF u
<1>4. ASSUME IsInjective(u) PROVE IsInjective(s) /\ IsInjective(t) /\ Apart(s, t)
  <2>1. IsInjective(s)
    BY <1>1, <1>2, <1>4 DEF IsInjective
  <2>2. IsInjective(t)
    <3> SUFFICES ASSUME NEW i \in 1..Len(t), NEW j \in 1..Len(t), t[i] = t[j]
                 PROVE  i = j
      BY <1>1 DEF IsInjective
    <3>1. Len(s) + i = Len(s) + j
      BY <1>1, <1>2, <1>4 DEF IsInjective
    <3> QED
      BY <1>1, <3>1
  <2>3. Apart(s, t)
    <3> SUFFICES ASSUME NEW i \in 1..Len(s), NEW j \in 1..Len(t), s[i] = t[j]
                 PROVE  FALSE
      BY <1>1 DEF Apart, Range
    <3>1. i = Len(s) + j
      BY <1>1, <1>2, <1>4 DEF IsInjective
    <3> QED
      BY <1>1, <3>1
  <2> QED
    BY <2>1, <2>2, <2>3
<1>5. ASSUME IsInjective(s), IsInjective(t), Apart(s, t) PROVE IsInjective(u)
  <2>1. \A i \in 1..Len(u) : i \in 1..Len(s) \/ \E k \in 1..Len(t) : i = Len(s) + k
    <3> SUFFICES ASSUME NEW i \in 1..Len(u), i \notin 1..Len(s)
                 PROVE  \E k \in 1..Len(t) : i = Len(s) + k
      OBVIOUS
    <3>1. i - Len(s) \in 1..Len(t) /\ i = Len(s) + (i - Len(s))
      BY <1>1
    <3> QED
      BY <3>1
  <2>2. \A i \in 1..Len(s), k \in 1..Len(t) : u[i] # u[Len(s) + k]
    BY <1>1, <1>2, <1>5 DEF Apart, Range
  <2>3. \A i, j \in 1..Len(s) : u[i] = u[j] => i = j
    BY <1>1, <1>2, <1>5 DEF IsInjective
  <2>4. \A i, j \in 1..Len(t) : u[Len(s) + i] = u[Len(s) + j] => i = j
    BY <1>1, <1>2, <1>5 DEF IsInjective
  <2> SUFFICES ASSUME NEW i \in 1..Len(u), NEW j \in 1..Len(u), u[i] = u[j] PROVE i = j
    BY <1>1 DEF IsInjective
  <2>5. CASE i \in 1..Len(s) /\ j \in 1..Len(s)
    BY <2>3, <2>5
  <2>6. CASE \E k \in 1..Len(t) : i = Len(s) + k
    <3>1. PICK k \in 1..Len(t) : i = Len(s) + k
      BY <2>6
    <3>2. PICK l \in 1..Len(t) : j = Len(s) + l
      BY <2>1, <2>2, <3>1
    <3> QED
      BY <2>4, <3>1, <3>2
  <2>7. CASE i \in 1..Len(s) /\ \E k \in 1..Len(t) : j = Len(s) + k
    BY <2>2, <2>7
  <2> QED
    BY <2>1, <2>5, <2>6, <2>7
<1> QED
  BY <1>3, <1>4, <1>5

\* The record that is taken out is not among the others.
LEMMA OnceRemoveAt ==
    ASSUME NEW S, NEW s \in Seq(S), NEW i \in DOMAIN s, IsInjective(s)
    PROVE  IsInjective(RemoveAt(s, i)) /\ s[i] \notin Range(RemoveAt(s, i))
<1>1. i \in 1..Len(s) /\ s[i] \in S /\ Len(s) \in Nat
  BY LenProperties, ElementOfSeq
<1> DEFINE a == SubSeq(s, 1, i - 1)
           b == SubSeq(s, i + 1, Len(s))
           t == <<s[i]>>
           u == SubSeq(s, i, Len(s))
<1>2. a \in Seq(S) /\ u \in Seq(S) /\ s = Cat(a, u)
  <2>1. i - 1 \in 0..Len(s) /\ (i - 1) + 1 = i
    BY <1>1
  <2> QED
    BY <2>1, RangeCut, CutIsCat
<1>3. u = Cat(t, b)
  <2>1. Len(s) \in i..Len(s)
    BY <1>1
  <2> QED
    BY <1>1, <2>1, SubSeqRecursiveFirst DEF Cat
<1>4. b \in Seq(S) /\ t \in Seq(S) /\ Range(t) = {s[i]}
  BY <1>1, RangeCut, RangeSingle
<1>5. RemoveAt(s, i) = Cat(a, b)
  BY DEF RemoveAt, Cat
<1> HIDE DEF a, b, t, u
<1>6. IsInjective(a) /\ IsInjective(u) /\ Apart(a, u)
  BY <1>2, OnceCat
<1>7. IsInjective(b) /\ Apart(t, b)
  BY <1>3, <1>4, <1>6, OnceCat
<1>8. /\ Range(u) = Range(t) \cup Range(b)
      /\ Range(RemoveAt(s, i)) = Range(a) \cup Range(b)
  BY <1>2, <1>3, <1>4, <1>5, RangeCat
<1>9. Apart(a, b) /\ s[i] \notin Range(a) /\ s[i] \notin Range(b)
  BY <1>4, <1>6, <1>7, <1>8 DEF Apart
<1>10. IsInjective(RemoveAt(s, i))
  BY <1>2, <1>4, <1>5, <1>6, <1>7, <1>9, OnceCat
<1> QED
  BY <1>8, <1>9, <1>10

-----------------------------------------------------------------------------
(* Connections and files *)

AllOnce(f) ==
    \A c \in DOMAIN f : IsInjective(f[c]) /\ \A d \in DOMAIN f \ {c} : Apart(f[c], f[d])

\* Nothing of s has arrived.
New(f, s) == ArrivedIn(f) \cap Range(s) = {}

\* The newest connection or file gets what has not arrived.
LEMMA OnceGrows ==
    ASSUME NEW S, NEW f \in Seq(Seq(S)), f # <<>>, AllOnce(f),
           NEW rs \in Seq(S), IsInjective(rs), New(f, rs)
    PROVE  AllOnce(Grown(f, rs)) /\ ArrivedIn(Grown(f, rs)) = ArrivedIn(f) \cup Range(rs)
<1>1. Len(f) \in 1..Len(f) /\ f[Len(f)] \in Seq(S) /\ DOMAIN f = 1..Len(f)
  OBVIOUS
<1> DEFINE b == Cat(f[Len(f)], rs)
           g == Grown(f, rs)
           n == Len(f)
<1>2. b \in Seq(S) /\ Range(b) = Range(f[n]) \cup Range(rs)
  BY <1>1, RangeCat
<1>3. \A c \in 1..n : Apart(f[c], rs)
  BY <1>1 DEF New, ArrivedIn, Apart
<1>4. IsInjective(b)
  BY <1>1, <1>3, OnceCat DEF AllOnce
<1>5. g = [f EXCEPT ![n] = b]
  BY DEF Grown
<1> HIDE DEF b, g
<1>6. DOMAIN g = 1..n /\ g[n] = b /\ \A c \in 1..n : c # n => g[c] = f[c]
  BY <1>1, <1>5
<1>7. \A c \in 1..n : c # n => Apart(f[c], b) /\ Apart(b, f[c])
  <2>1. \A c \in 1..n : c # n => Apart(f[c], f[n])
    BY <1>1 DEF AllOnce
  <2> QED
    BY <1>2, <1>3, <2>1 DEF Apart
<1>8. AllOnce(g)
  <2> SUFFICES ASSUME NEW c \in 1..n
               PROVE  IsInjective(g[c]) /\ \A d \in (1..n) \ {c} : Apart(g[c], g[d])
    BY <1>6 DEF AllOnce
  <2>1. IsInjective(g[c])
    BY <1>1, <1>4, <1>6 DEF AllOnce
  <2>2. ASSUME NEW d \in (1..n) \ {c} PROVE Apart(g[c], g[d])
    <3>1. CASE c = n
      BY <1>6, <1>7, <2>2, <3>1
    <3>2. CASE d = n
      BY <1>6, <1>7, <2>2, <3>2
    <3>3. CASE c # n /\ d # n
      BY <1>1, <1>6, <2>2, <3>3 DEF AllOnce
    <3> QED
      BY <3>1, <3>2, <3>3
  <2> QED
    BY <2>1, <2>2
<1> QED
  BY <1>8, ArrivedGrows DEF g

LEMMA OnceStays ==
    ASSUME NEW S, NEW f \in Seq(Seq(S)), NEW n \in Nat, AllOnce(f)
    PROVE  AllOnce(Cat(f, Empties(n)))
<1> DEFINE e == Empties(n)
           g == f \o e
<1>1. e \in Seq(Seq(S)) /\ Len(e) = n /\ \A c \in 1..n : e[c] = <<>>
  <2>1. <<>> \in Seq(S)
    OBVIOUS
  <2> QED
    BY <2>1 DEF Empties
<1> HIDE DEF e
<1>2. /\ Len(g) = Len(f) + n /\ Len(f) \in Nat
      /\ DOMAIN g = 1..Len(g) /\ DOMAIN f = 1..Len(f)
  <2>1. g \in Seq(Seq(S)) /\ Len(g) = Len(f) + n
    BY <1>1, ConcatProperties
  <2> HIDE DEF g
  <2> QED
    BY <2>1, LenProperties
<1>3. \A c \in 1..Len(f) : g[c] = f[c]
  BY <1>1
<1>4. \A c \in 1..n : g[Len(f) + c] = <<>>
  BY <1>1
<1> HIDE DEF g
<1>5. \A c \in 1..Len(g) : c \in 1..Len(f) \/ g[c] = <<>>
  <2> SUFFICES ASSUME NEW c \in 1..Len(g), c \notin 1..Len(f) PROVE g[c] = <<>>
    OBVIOUS
  <2>1. c - Len(f) \in 1..n /\ Len(f) + (c - Len(f)) = c
    BY <1>2
  <2> QED
    BY <1>4, <2>1
<1>6. \A s : Apart(s, <<>>) /\ Apart(<<>>, s)
  BY RangeEmpty DEF Apart
<1>7. AllOnce(g)
  <2> SUFFICES ASSUME NEW c \in 1..Len(g)
               PROVE  IsInjective(g[c]) /\ \A d \in (1..Len(g)) \ {c} : Apart(g[c], g[d])
    BY <1>2 DEF AllOnce
  <2>1. IsInjective(g[c])
    BY <1>2, <1>3, <1>5, OnceEmpty DEF AllOnce
  <2>2. ASSUME NEW d \in (1..Len(g)) \ {c} PROVE Apart(g[c], g[d])
    <3>1. CASE g[c] = <<>> \/ g[d] = <<>>
      BY <1>6, <3>1
    <3>2. CASE c \in 1..Len(f) /\ d \in 1..Len(f)
      BY <1>2, <1>3, <2>2, <3>2 DEF AllOnce
    <3> QED
      BY <1>5, <2>2, <3>1, <3>2
  <2> QED
    BY <2>1, <2>2
<1> QED
  BY <1>7 DEF g, e, Cat

-----------------------------------------------------------------------------
(* Each action keeps the records on their way apart *)

\* AtMostOnce, with what has arrived as one set.
WayOnce ==
    /\ AllOnce(far) /\ IsInjective(wire) /\ IsInjective(hand) /\ IsInjective(data)
    /\ New(far, wire) /\ New(far, hand) /\ New(far, data)
    /\ Apart(wire, hand) /\ Apart(wire, data) /\ Apart(hand, data)

LEMMA OnceIs == AtMostOnce <=> WayOnce
<1>1. \A s : New(far, s) <=> \A c \in DOMAIN far : Apart(far[c], s)
  BY DEF New, ArrivedIn, Apart
<1>2. \A s, t : Apart(s, t) <=> Apart(t, s)
  BY DEF Apart
<1> QED
  BY <1>1, <1>2 DEF AtMostOnce, WayOnce, AllOnce

LEMMA OnceOfPush ==
    ASSUME ShipInv, WayOnce, NEW w \in Writers, Push(w) PROVE WayOnce'
<1> DEFINE r == held[w]
           t == <<r>>
<1>1. /\ r \in Records /\ data \in Seq(Records) /\ r # None
      /\ data' = Append(data, r) /\ UNCHANGED <<hand, wire, far>>
  BY DEF Push, ShipInv, TypeOK, thrVars, farVars
<1>2. t \in Seq(Records) /\ Range(t) = {r} /\ IsInjective(t)
  BY <1>1, RangeSingle, OnceSingle
<1>3. data' = Cat(data, t)
  BY <1>1, AppendIsConcat DEF Cat
<1>4. r \notin Places
  BY <1>1 DEF ShipInv, StampsUnique
<1> HIDE DEF r, t
<1>5. Range(data') = Range(data) \cup {r}
  BY <1>1, <1>2, <1>3, RangeCat
<1>6. /\ r \notin Range(data) /\ r \notin Range(wire) /\ r \notin Range(hand)
      /\ r \notin ArrivedIn(far)
  BY <1>4, ArrivedIs DEF Places
<1>7. Apart(data, t)
  BY <1>2, <1>6 DEF Apart
<1>8. IsInjective(data')
  BY <1>1, <1>2, <1>3, <1>7, OnceCat DEF WayOnce
<1>9. New(far, data') /\ Apart(wire, data') /\ Apart(hand, data')
  BY <1>5, <1>6 DEF WayOnce, New, Apart
<1> QED
  BY <1>1, <1>8, <1>9 DEF WayOnce

LEMMA OnceOfPop ==
    ASSUME ShipInv, WayOnce, Pop PROVE WayOnce'
<1>1. data \in Seq(Records) /\ Len(data) \in Nat /\ UNCHANGED <<wire, far>>
  BY DEF Pop, ShipInv, TypeOK, farVars
<1>2. PICK n \in 1..Len(data) :
          hand' = SubSeq(data, 1, n) /\ data' = SubSeq(data, n + 1, Len(data))
  BY DEF Pop
<1>3. n \in 0..Len(data)
  BY <1>1, <1>2
<1>4. /\ hand' \in Seq(Records) /\ data' \in Seq(Records) /\ data = Cat(hand', data')
      /\ Range(data) = Range(hand') \cup Range(data')
  BY <1>1, <1>2, <1>3, RangeCut, CutIsCat
<1>5. IsInjective(hand') /\ IsInjective(data') /\ Apart(hand', data')
  BY <1>4, OnceCat DEF WayOnce
<1>6. New(far, hand') /\ New(far, data') /\ Apart(wire, hand') /\ Apart(wire, data')
  BY <1>4 DEF WayOnce, New, Apart
<1> QED
  BY <1>1, <1>5, <1>6 DEF WayOnce

\* The records rs, which were nowhere else, are taken.
LEMMA OnceOfTaken ==
    ASSUME TypeOK, WayOnce, NEW rs \in Seq(Records), Taken(rs) \/ UNCHANGED wire,
           IsInjective(rs), Apart(wire, rs), New(far, rs), far' = far,
           Range(data') \subseteq Range(data), IsInjective(data'), Apart(rs, data'),
           hand' = <<>>
    PROVE  WayOnce'
<1>1. wire \in Seq(Records)
  BY DEF TypeOK
<1>2. wire' = wire \/ wire' = Cat(wire, rs)
  BY DEF Taken, Cat
<1>3. Range(wire') \subseteq Range(wire) \cup Range(rs) /\ IsInjective(wire')
  <2>1. Range(Cat(wire, rs)) = Range(wire) \cup Range(rs)
    BY <1>1, RangeCat
  <2>2. IsInjective(Cat(wire, rs))
    BY <1>1, OnceCat DEF WayOnce
  <2>3. IsInjective(wire)
    BY DEF WayOnce
  <2> QED
    BY <1>2, <2>1, <2>2, <2>3
<1>4. Range(hand') = {} /\ IsInjective(hand')
  BY RangeEmpty, OnceEmpty
<1>5. New(far, wire') /\ New(far, hand') /\ New(far, data')
  BY <1>3, <1>4 DEF WayOnce, New
<1>6. Apart(wire', hand') /\ Apart(wire', data') /\ Apart(hand', data')
  BY <1>3, <1>4 DEF WayOnce, Apart
<1> QED
  BY <1>3, <1>4, <1>5, <1>6 DEF WayOnce

LEMMA OnceOfSend ==
    ASSUME ShipInv, WayOnce, Send \/ Resend PROVE WayOnce'
<1>1. UNCHANGED <<data, far>> /\ hand \in Seq(Records)
  BY DEF Send, Resend, ShipInv, TypeOK
<1>2. CASE (Taken(hand) \/ UNCHANGED wire) /\ hand' = <<>>
  BY <1>1, <1>2, OnceOfTaken DEF ShipInv, WayOnce
<1>3. CASE UNCHANGED <<hand, wire>>
  BY <1>1, <1>3 DEF WayOnce
<1> QED
  BY <1>2, <1>3 DEF Send, Resend

LEMMA OnceOfDrainSend ==
    ASSUME ShipInv, WayOnce, DrainSend PROVE WayOnce'
<1> DEFINE rs == <<Head(data)>>
<1>1. /\ data \in Seq(Records) /\ data # <<>> /\ data' = Tail(data) /\ far' = far
      /\ hand' = hand /\ hand = <<>> /\ (Taken(rs) \/ UNCHANGED wire)
  BY DEF DrainSend, ShipInv, TypeOK, thrVars
<1>2. /\ Head(data) \in Records /\ data' \in Seq(Records) /\ data = Cat(rs, data')
      /\ Range(data) = {Head(data)} \cup Range(data')
  BY <1>1, RangeTail, HeadIsCat
<1>3. rs \in Seq(Records) /\ Range(rs) = {Head(data)}
  BY <1>2, RangeSingle
<1> HIDE DEF rs
<1>4. IsInjective(rs) /\ IsInjective(data') /\ Apart(rs, data')
  BY <1>2, <1>3, OnceCat DEF WayOnce
<1>5. Apart(wire, rs) /\ New(far, rs)
  BY <1>2, <1>3 DEF WayOnce, Apart, New
<1> QED
  BY <1>1, <1>2, <1>3, <1>4, <1>5, OnceOfTaken DEF ShipInv

LEMMA OnceOfDrainLine ==
    ASSUME ShipInv, WayOnce, DrainLine PROVE WayOnce'
<1> DEFINE rs == <<Head(data)>>
<1>1. /\ data \in Seq(Records) /\ data # <<>> /\ data' = Tail(data) /\ UNCHANGED <<wire, far>>
      /\ hand \in Seq(Records) /\ hand' = Append(hand, Head(data))
  BY DEF DrainLine, ShipInv, TypeOK, farVars
<1>2. /\ Head(data) \in Records /\ data' \in Seq(Records) /\ data = Cat(rs, data')
      /\ Range(data) = {Head(data)} \cup Range(data')
  BY <1>1, RangeTail, HeadIsCat
<1>3. rs \in Seq(Records) /\ Range(rs) = {Head(data)} /\ hand' = Cat(hand, rs)
  BY <1>1, <1>2, RangeSingle, AppendIsConcat DEF Cat
<1> HIDE DEF rs
<1>4. IsInjective(rs) /\ IsInjective(data') /\ Apart(rs, data')
  BY <1>2, <1>3, OnceCat DEF WayOnce
<1>5. Apart(hand, rs)
  BY <1>2, <1>3 DEF WayOnce, Apart
<1>6. IsInjective(hand') /\ Range(hand') = Range(hand) \cup Range(rs)
  <2>1. Range(Cat(hand, rs)) = Range(hand) \cup Range(rs)
    BY <1>1, <1>3, RangeCat
  <2>2. IsInjective(hand)
    BY DEF WayOnce
  <2>3. IsInjective(Cat(hand, rs))
    BY <1>1, <1>3, <1>4, <1>5, <2>2, OnceCat
  <2> QED
    BY <1>3, <2>1, <2>3
<1>7. New(far, hand') /\ New(far, data')
  BY <1>2, <1>3, <1>6 DEF WayOnce, New
<1>8. Apart(wire, hand') /\ Apart(wire, data') /\ Apart(hand', data')
  BY <1>2, <1>3, <1>4, <1>6 DEF WayOnce, Apart
<1> QED
  BY <1>1, <1>4, <1>6, <1>7, <1>8 DEF WayOnce

\* The newest connection or file gets rs, which is nowhere else any more.
LEMMA OnceOfBringing ==
    ASSUME NEW f \in Seq(Seq(Records)), f # <<>>, AllOnce(f),
           NEW rs \in Seq(Records), IsInjective(rs), New(f, rs), far' = Grown(f, rs),
           IsInjective(wire'), IsInjective(hand'), IsInjective(data'),
           Apart(wire', hand'), Apart(wire', data'), Apart(hand', data'),
           New(f, wire'), New(f, hand'), New(f, data'),
           Apart(rs, wire'), Apart(rs, hand'), Apart(rs, data')
    PROVE  WayOnce'
<1>1. AllOnce(far') /\ ArrivedIn(far') = ArrivedIn(f) \cup Range(rs)
  BY OnceGrows
<1>2. New(far', wire') /\ New(far', hand') /\ New(far', data')
  BY <1>1 DEF New, Apart
<1> QED
  BY <1>1, <1>2 DEF WayOnce

LEMMA OnceOfReconnect ==
    ASSUME ShipInv, WayOnce, Reconnect PROVE WayOnce'
<1>1. UNCHANGED <<data, wire>> /\ far \in Seq(Seq(Records))
  BY DEF Reconnect, ShipInv, TypeOK
<1>2. CASE far' = Append(far, <<>>) /\ hand' = hand
  <2>1. far' = Cat(far, Empties(1))
    <3>1. Empties(1) = << <<>> >>
      BY DEF Empties
    <3>2. <<>> \in Seq(Records)
      OBVIOUS
    <3> QED
      BY <1>1, <1>2, <3>1, <3>2, AppendIsConcat DEF Cat
  <2>2. AllOnce(far') /\ ArrivedIn(far') = ArrivedIn(far)
    BY <1>1, <2>1, OnceStays, ArrivedStays DEF WayOnce
  <2> QED
    BY <1>1, <1>2, <2>2 DEF WayOnce, New
<1>3. CASE far' = far /\ hand' = hand
  BY <1>1, <1>3 DEF WayOnce
<1>4. CASE far' = far /\ hand' = <<>>
  <2>1. Range(hand') = {} /\ IsInjective(hand')
    BY <1>4, RangeEmpty, OnceEmpty
  <2>2. New(far, hand') /\ Apart(wire, hand') /\ Apart(hand', data)
    BY <2>1 DEF New, Apart
  <2> QED
    BY <1>1, <1>4, <2>1, <2>2 DEF WayOnce
<1> QED
  BY <1>2, <1>3, <1>4 DEF Reconnect

LEMMA OnceOfWrite ==
    ASSUME ShipInv, WayOnce, Write PROVE WayOnce'
<1>1. /\ UNCHANGED <<data, wire>> /\ hand' = <<>>
      /\ hand \in Seq(Records) /\ far \in Seq(Seq(Records))
  BY DEF Write, ShipInv, TypeOK
<1>2. PICK n \in 0..2 :
        /\ n \in (IF fd THEN {0, 1} ELSE {1, 2})
        /\ LET files == far \o [i \in 1..n |-> <<>>]
           IN  \/ far' = [files EXCEPT ![Len(files)] = @ \o hand] /\ broken' = broken
               \/ far' = files /\ broken' = TRUE
  BY DEF Write
<1> DEFINE files == Cat(far, Empties(n))
<1>3. n \in Nat
  BY <1>2
<1>4. far' = Grown(files, hand) \/ far' = files
  BY <1>2 DEF Cat, Empties, Grown
<1>5. files \in Seq(Seq(Records)) /\ files # <<>> /\ ArrivedIn(files) = ArrivedIn(far)
  <2>1. far # <<>> \/ n # 0
    BY <1>2 DEF ShipInv, TypeOK
  <2> QED
    BY <1>1, <1>3, <2>1, ArrivedStays
<1>6. AllOnce(files)
  BY <1>1, <1>3, OnceStays DEF WayOnce
<1> HIDE DEF files
<1>7. /\ Range(hand') = {} /\ IsInjective(hand') /\ IsInjective(wire') /\ IsInjective(data')
      /\ IsInjective(hand)
  BY <1>1, RangeEmpty, OnceEmpty DEF WayOnce
<1>8. /\ New(files, wire') /\ New(files, hand') /\ New(files, data') /\ New(files, hand)
      /\ Apart(wire', hand') /\ Apart(wire', data') /\ Apart(hand', data')
      /\ Apart(hand, wire') /\ Apart(hand, hand') /\ Apart(hand, data')
  BY <1>1, <1>5, <1>7 DEF WayOnce, New, Apart
<1>9. CASE far' = files
  BY <1>6, <1>7, <1>8, <1>9 DEF WayOnce
<1>10. CASE far' = Grown(files, hand)
  BY <1>1, <1>5, <1>6, <1>7, <1>8, <1>10, OnceOfBringing
<1> QED
  BY <1>4, <1>9, <1>10

LEMMA OnceOfDrainEnd ==
    ASSUME ShipInv, WayOnce, DrainEnd PROVE WayOnce'
<1>1. UNCHANGED <<data, wire>> /\ hand' = <<>> /\ hand \in Seq(Records)
  BY DEF DrainEnd, ShipInv, TypeOK
<1>2. /\ Range(hand') = {} /\ IsInjective(hand') /\ IsInjective(wire') /\ IsInjective(data')
      /\ IsInjective(hand)
  BY <1>1, RangeEmpty, OnceEmpty DEF WayOnce
<1>3. /\ New(far, wire') /\ New(far, hand') /\ New(far, data') /\ New(far, hand)
      /\ Apart(wire', hand') /\ Apart(wire', data') /\ Apart(hand', data')
      /\ Apart(hand, wire') /\ Apart(hand, hand') /\ Apart(hand, data')
  BY <1>1, <1>2 DEF WayOnce, New, Apart
<1>4. CASE kind = "file" /\ fd /\ far' = [far EXCEPT ![Len(far)] = @ \o hand]
  <2>1. far \in Seq(Seq(Records)) /\ far # <<>> /\ far' = Grown(far, hand) /\ AllOnce(far)
    BY <1>4 DEF Grown, Cat, ShipInv, TypeOK, WayOnce
  <2> QED
    BY <1>1, <1>2, <1>3, <2>1, OnceOfBringing
<1>5. CASE far' = far
  BY <1>2, <1>3, <1>5 DEF WayOnce
<1> QED
  BY <1>4, <1>5 DEF DrainEnd

LEMMA OnceOfDeliver ==
    ASSUME ShipInv, WayOnce, Deliver PROVE WayOnce'
<1>1. UNCHANGED <<data, hand>> /\ wire \in Seq(Records) /\ far \in Seq(Seq(Records))
  BY DEF Deliver, ShipInv, TypeOK, thrVars
<1>2. PICK i \in DOMAIN wire :
          /\ far' = [far EXCEPT ![Len(far)] = Append(@, wire[i])]
          /\ wire' = RemoveAt(wire, i)
  BY DEF Deliver
<1>3. /\ wire[i] \in Records /\ wire' \in Seq(Records)
      /\ Range(wire) = Range(wire') \cup {wire[i]}
  BY <1>1, <1>2, RangeRemoveAt
<1>4. far # <<>>
  <2>1. wire # <<>>
    BY <1>1, <1>2
  <2> QED
    BY <2>1 DEF ShipInv, TypeOK
<1> DEFINE rs == <<wire[i]>>
           last == far[Len(far)]
<1>5. rs \in Seq(Records) /\ Range(rs) = {wire[i]} /\ IsInjective(rs)
  BY <1>3, RangeSingle, OnceSingle
<1>6. far' = Grown(far, rs)
  <2>1. last \in Seq(Records)
    BY <1>1, <1>4
  <2>2. Append(last, wire[i]) = Cat(last, rs)
    BY <1>3, <2>1, AppendIsConcat DEF Cat
  <2> QED
    BY <1>2, <2>2 DEF Grown
<1>7. IsInjective(wire') /\ wire[i] \notin Range(wire')
  BY <1>1, <1>2, OnceRemoveAt DEF WayOnce
<1> HIDE DEF rs
<1>8. /\ New(far, rs) /\ New(far, wire') /\ New(far, hand') /\ New(far, data')
      /\ Apart(rs, wire') /\ Apart(rs, hand') /\ Apart(rs, data')
      /\ Apart(wire', hand') /\ Apart(wire', data') /\ Apart(hand', data')
  BY <1>1, <1>3, <1>5, <1>7 DEF WayOnce, New, Apart
<1>9. AllOnce(far) /\ IsInjective(hand') /\ IsInjective(data')
  BY <1>1 DEF WayOnce
<1> QED
  BY <1>1, <1>4, <1>5, <1>6, <1>7, <1>8, <1>9, OnceOfBringing

LEMMA OnceOfBreak ==
    ASSUME ShipInv, WayOnce, Break PROVE WayOnce'
<1>1. /\ UNCHANGED <<data, hand>> /\ wire' = <<>>
      /\ wire \in Seq(Records) /\ far \in Seq(Seq(Records)) /\ far # <<>>
  BY DEF Break, ShipInv, TypeOK, thrVars
<1>2. PICK n \in 0..Len(wire) : far' = [far EXCEPT ![Len(far)] = @ \o SubSeq(wire, 1, n)]
  BY DEF Break
<1> DEFINE rs == SubSeq(wire, 1, n)
           rest == SubSeq(wire, n + 1, Len(wire))
<1>3. /\ rs \in Seq(Records) /\ rest \in Seq(Records)
      /\ Range(rs) \subseteq Range(wire) /\ wire = Cat(rs, rest)
  BY <1>1, <1>2, RangeCut, CutIsCat
<1>4. far' = Grown(far, rs)
  BY <1>2 DEF Grown, Cat
<1> HIDE DEF rs, rest
<1>5. IsInjective(rs)
  BY <1>3, OnceCat DEF WayOnce
<1>6. Range(wire') = {} /\ IsInjective(wire')
  BY <1>1, RangeEmpty, OnceEmpty
<1>7. /\ New(far, rs) /\ New(far, wire') /\ New(far, hand') /\ New(far, data')
      /\ Apart(rs, wire') /\ Apart(rs, hand') /\ Apart(rs, data')
      /\ Apart(wire', hand') /\ Apart(wire', data') /\ Apart(hand', data')
  BY <1>1, <1>3, <1>6 DEF WayOnce, New, Apart
<1>8. AllOnce(far) /\ IsInjective(hand') /\ IsInjective(data')
  BY <1>1 DEF WayOnce
<1> QED
  BY <1>1, <1>3, <1>4, <1>5, <1>6, <1>7, <1>8, OnceOfBringing

LEMMA OnceOfExpire ==
    ASSUME ShipInv, WayOnce, Expire PROVE WayOnce'
<1>1. UNCHANGED <<data, hand, far>> /\ wire \in Seq(Records)
  BY DEF Expire, ShipInv, TypeOK, thrVars
<1>2. PICK i \in DOMAIN wire : wire' = RemoveAt(wire, i)
  BY DEF Expire
<1>3. IsInjective(wire') /\ Range(wire') \subseteq Range(wire)
  BY <1>1, <1>2, RangeRemoveAt, OnceRemoveAt DEF WayOnce
<1>4. New(far, wire') /\ Apart(wire', hand) /\ Apart(wire', data)
  BY <1>3 DEF WayOnce, New, Apart
<1> QED
  BY <1>1, <1>3, <1>4 DEF WayOnce

LEMMA OnceOfGone ==
    ASSUME WayOnce, Gone, far' = far PROVE WayOnce'
<1>1. data' = <<>> /\ hand' = <<>> /\ (wire' = <<>> \/ wire' = wire)
  BY DEF Gone
<1>2. /\ Range(data') = {} /\ Range(hand') = {} /\ Range(wire') \subseteq Range(wire)
      /\ IsInjective(data') /\ IsInjective(hand') /\ IsInjective(wire')
  BY <1>1, RangeEmpty, OnceEmpty DEF WayOnce
<1>3. /\ New(far, wire') /\ New(far, hand') /\ New(far, data')
      /\ Apart(wire', hand') /\ Apart(wire', data') /\ Apart(hand', data')
  BY <1>2 DEF WayOnce, New, Apart
<1> QED
  BY <1>2, <1>3 DEF WayOnce

LEMMA OnceNext ==
    ASSUME ShipInv, WayOnce, [Next]_vars PROVE WayOnce'
<1> USE DEF thrVars, farVars, history
<1>1. ASSUME NEW w \in Writers, Push(w) PROVE WayOnce'
  BY <1>1, OnceOfPush
<1>2. CASE (\E w \in Writers : PushCrash(w)) \/ WriteCrash \/ Kill
  <2>1. Gone /\ far' = far
    BY <1>2 DEF PushCrash, WriteCrash, Kill
  <2> QED
    BY <2>1, OnceOfGone
<1>3. CASE \/ \E w \in Writers : Stamp(w)
           \/ Rotate \/ Drain \/ Stop \/ Free \/ UNCHANGED vars
  <2>1. UNCHANGED <<data, hand, wire, far>>
    BY <1>3 DEF Stamp, Rotate, Drain, Stop, Free, vars
  <2> QED
    BY <2>1 DEF WayOnce
<1>4. CASE Pop \/ Send \/ Reconnect \/ Resend \/ Write
  BY <1>4, OnceOfPop, OnceOfSend, OnceOfReconnect, OnceOfWrite
<1>5. CASE DrainSend \/ DrainLine \/ DrainEnd
  BY <1>5, OnceOfDrainSend, OnceOfDrainLine, OnceOfDrainEnd
<1>6. CASE Deliver \/ Break \/ Expire
  BY <1>6, OnceOfDeliver, OnceOfBreak, OnceOfExpire
<1> QED
  BY <1>1, <1>2, <1>3, <1>4, <1>5, <1>6 DEF Next, ThreadStep

\* A record is in one place, once: over all reconnections, second sendings,
\* drains and broken connections no record of sendLog or writeLog arrives twice,
\* and none is passed on that was put back or kept.
THEOREM NothingTwice == Spec => []AtMostOnce
<1>1. Init => ShipInv /\ WayOnce
  <2> SUFFICES ASSUME Init PROVE ShipInv /\ WayOnce
    OBVIOUS
  <2>1. /\ wire = <<>> /\ hand = <<>> /\ data = <<>>
        /\ far = <<>> \/ far = << <<>> >>
    BY DEF Init
  <2>2. \A c \in DOMAIN far : far[c] = <<>>
    BY <2>1
  <2>3. AllOnce(far)
    BY <2>2, RangeEmpty, OnceEmpty DEF AllOnce, Apart
  <2>4. \A s, f : New(f, <<>>) /\ Apart(s, <<>>)
    BY RangeEmpty DEF New, Apart
  <2> QED
    BY <2>1, <2>3, <2>4, InitShip, OnceEmpty DEF WayOnce
<1>2. ShipInv /\ WayOnce /\ [Next]_vars => ShipInv' /\ WayOnce'
  BY NextShip, OnceNext
<1> QED
  BY <1>1, <1>2, OnceIs, PTL DEF Spec
=============================================================================
