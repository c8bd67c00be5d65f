--------------------------- MODULE LogShipProofs ---------------------------
(* Theorems about LogShip, for any number of doit threads, records,        *)
(* connections and files, and any capacity of librdkafka's queue.          *)
EXTENDS LogShip, SequenceTheorems, TLAPS

-----------------------------------------------------------------------------
(* What is in a sequence after the operations the threads use *)

LEMMA RangeEmpty == Range(<<>>) = {}
BY DEF Range

LEMMA RangeSingle ==
    ASSUME NEW S, NEW x \in S
    PROVE  <<x>> \in Seq(S) /\ Range(<<x>>) = {x}
BY DEF Range

\* A name for the concatenation, which the provers would otherwise take apart.
Cat(s, t) == s \o t

LEMMA RangeCat ==
    ASSUME NEW S, NEW s \in Seq(S), NEW t \in Seq(S)
    PROVE  Cat(s, t) \in Seq(S) /\ Range(Cat(s, t)) = Range(s) \cup Range(t)
<1>1. Range(s \o t) = Range(s) \cup Range(t)
  BY RangeConcatenation
<1>2. s \o t \in Seq(S)
  BY ConcatProperties
<1> QED
  BY <1>1, <1>2 DEF Cat

LEMMA RangeAppend ==
    ASSUME NEW S, NEW s \in Seq(S), NEW x \in S
    PROVE  Append(s, x) \in Seq(S) /\ Range(Append(s, x)) = Range(s) \cup {x}
<1> DEFINE t == <<x>>
           u == Append(s, x)
<1>1. u = Cat(s, t)
  BY AppendIsConcat DEF Cat
<1>2. t \in Seq(S) /\ Range(t) = {x}
  BY RangeSingle
<1> HIDE DEF t, u
<1>3. u \in Seq(S) /\ Range(u) = Range(s) \cup Range(t)
  BY <1>1, <1>2, RangeCat
<1> QED
  BY <1>2, <1>3 DEF u

\* A sequence cut in two.
LEMMA RangeCut ==
    ASSUME NEW S, NEW s \in Seq(S), NEW n \in 0..Len(s)
    PROVE  /\ SubSeq(s, 1, n) \in Seq(S) /\ SubSeq(s, n + 1, Len(s)) \in Seq(S)
           /\ Range(s) = Range(SubSeq(s, 1, n)) \cup Range(SubSeq(s, n + 1, Len(s)))
<1>1. Len(s) \in Nat /\ \A i \in 1..Len(s) : s[i] \in S
  BY LenProperties, ElementOfSeq
<1>2. SubSeq(s, 1, n) \in Seq(S) /\ SubSeq(s, n + 1, Len(s)) \in Seq(S)
  BY <1>1, SubSeqProperties
<1>3. SubSeq(s, 1, n) \o SubSeq(s, n + 1, Len(s)) = SubSeq(s, 1, Len(s))
  <2>1. 1 \in 1..Len(s) + 1 /\ n \in 1 - 1..Len(s) /\ Len(s) \in n..Len(s)
    BY <1>1
  <2> QED
    BY <2>1, ConcatAdjacentSubSeq
<1>4. SubSeq(s, 1, Len(s)) = s
  BY SubSeqFull
<1> DEFINE a == SubSeq(s, 1, n)
           b == SubSeq(s, n + 1, Len(s))
<1>5. a \in Seq(S) /\ b \in Seq(S) /\ s = Cat(a, b)
  BY <1>2, <1>3, <1>4 DEF Cat
<1> HIDE DEF a, b
<1>6. Range(s) = Range(a) \cup Range(b)
  BY <1>5, RangeCat
<1> QED
  BY <1>5, <1>6 DEF a, b

LEMMA RangeTail ==
    ASSUME NEW S, NEW s \in Seq(S), s # <<>>
    PROVE  Head(s) \in S /\ Tail(s) \in Seq(S) /\ Range(s) = {Head(s)} \cup Range(Tail(s))
<1>1. Len(s) \in Nat \ {0}
  BY EmptySeq
<1>2. 1 \in 0..Len(s) /\ 1 \in 1..Len(s)
  BY <1>1
<1>3. SubSeq(s, 1, 1) = <<s[1]>> /\ s[1] \in S
  <2>1. SubSeq(s, 1, 1) = <<s[1]>> \o SubSeq(s, 2, 1)
    BY <1>2, SubSeqRecursiveFirst
  <2>2. SubSeq(s, 2, 1) = <<>> /\ s[1] \in S
    BY <1>2, SubSeqEmpty, ElementOfSeq
  <2>3. <<s[1]>> \in Seq(S)
    BY <2>2, RangeSingle
  <2> QED
    BY <2>1, <2>2, <2>3, ConcatEmptySeq
<1>4. Head(s) = s[1] /\ Tail(s) = SubSeq(s, 2, Len(s)) /\ Tail(s) \in Seq(S)
  BY TailIsSubSeq, HeadTailProperties
<1>5. Range(s) = Range(SubSeq(s, 1, 1)) \cup Range(SubSeq(s, 1 + 1, Len(s)))
  BY <1>2, RangeCut
<1>6. Range(<<s[1]>>) = {s[1]}
  BY <1>3, RangeSingle
<1>7. Range(SubSeq(s, 1, 1)) = {s[1]}
  BY <1>3, <1>6
<1>8. Range(SubSeq(s, 1 + 1, Len(s))) = Range(Tail(s))
  <2>1. \A k : k = 2 => SubSeq(s, k, Len(s)) = Tail(s)
    BY <1>4
  <2>2. SubSeq(s, 1 + 1, Len(s)) = Tail(s)
    BY <2>1
  <2> QED
    BY <2>2
<1> DEFINE a == Range(SubSeq(s, 1, 1))
           b == Range(SubSeq(s, 1 + 1, Len(s)))
<1> HIDE DEF a, b
<1>9. Range(s) = a \cup b
  BY <1>5 DEF a, b
<1>10. a = {Head(s)} /\ b = Range(Tail(s))
  BY <1>4, <1>7, <1>8 DEF a, b
<1> QED
  BY <1>3, <1>4, <1>9, <1>10

LEMMA RangeRemoveAt ==
    ASSUME NEW S, NEW s \in Seq(S), NEW i \in DOMAIN s
    PROVE  /\ s[i] \in S /\ RemoveAt(s, i) \in Seq(S)
           /\ Range(s) = Range(RemoveAt(s, i)) \cup {s[i]}
<1>1. i \in 1..Len(s) /\ s[i] \in S /\ Len(s) \in Nat
  BY LenProperties, ElementOfSeq
<1> DEFINE a == SubSeq(s, 1, i - 1)
           b == SubSeq(s, i + 1, Len(s))
<1>2. /\ a \in Seq(S) /\ SubSeq(s, i, Len(s)) \in Seq(S)
      /\ Range(s) = Range(a) \cup Range(SubSeq(s, i, Len(s)))
  <2>1. i - 1 \in 0..Len(s) /\ (i - 1) + 1 = i
    BY <1>1
  <2> QED
    BY <2>1, RangeCut
<1>3. SubSeq(s, i, Len(s)) = <<s[i]>> \o b
  <2>1. Len(s) \in i..Len(s)
    BY <1>1
  <2> QED
    BY <1>1, <2>1, SubSeqRecursiveFirst
<1>4. b \in Seq(S)
  BY <1>1, RangeCut
<1> DEFINE t == <<s[i]>>
           u == SubSeq(s, i, Len(s))
           v == RemoveAt(s, i)
<1>5. t \in Seq(S) /\ Range(t) = {s[i]} /\ u = Cat(t, b) /\ v = Cat(a, b)
  BY <1>1, <1>3, RangeSingle DEF RemoveAt, Cat
<1> HIDE DEF a, b, t, u, v
<1>6. Range(u) = Range(t) \cup Range(b)
  BY <1>4, <1>5, RangeCat
<1>7. v \in Seq(S) /\ Range(v) = Range(a) \cup Range(b)
  BY <1>2, <1>4, <1>5, RangeCat
<1>8. Range(s) = Range(a) \cup Range(u)
  BY <1>2 DEF u
<1> QED
  BY <1>1, <1>5, <1>6, <1>7, <1>8 DEF v

-----------------------------------------------------------------------------
(* What has arrived, over all connections or files *)

ArrivedIn(f) == UNION {Range(f[c]) : c \in DOMAIN f}

LEMMA ArrivedIs == Arrived = ArrivedIn(far)
BY DEF Arrived, ArrivedIn

\* The last connection brings some more.
Grown(f, rs) == [f EXCEPT ![Len(f)] = Cat(f[Len(f)], rs)]

LEMMA ArrivedGrows ==
    ASSUME NEW S, NEW f \in Seq(Seq(S)), f # <<>>, NEW rs \in Seq(S)
    PROVE  /\ Grown(f, rs) \in Seq(Seq(S)) /\ Grown(f, rs) # <<>>
           /\ ArrivedIn(Grown(f, rs)) = ArrivedIn(f) \cup Range(rs)
<1> DEFINE g == Grown(f, rs)
<1>1. Len(f) \in 1..Len(f) /\ f[Len(f)] \in Seq(S)
  OBVIOUS
<1> DEFINE b == Cat(f[Len(f)], rs)
<1>2. b \in Seq(S) /\ Range(b) = Range(f[Len(f)]) \cup Range(rs)
  BY <1>1, RangeCat
<1> HIDE DEF b
<1>3. g = [f EXCEPT ![Len(f)] = b]
  BY DEF b, Grown
<1> HIDE DEF g
<1>4. /\ g \in Seq(Seq(S)) /\ g # <<>> /\ DOMAIN g = 1..Len(f) /\ DOMAIN f = 1..Len(f)
      /\ g[Len(f)] = b
      /\ \A c \in 1..Len(f) : c # Len(f) => g[c] = f[c]
  BY <1>1, <1>2, <1>3
<1>5. \A c \in 1..Len(f) : Range(g[c]) \subseteq ArrivedIn(f) \cup Range(rs)
  BY <1>1, <1>2, <1>4 DEF ArrivedIn
<1>6. \A c \in 1..Len(f) : Range(f[c]) \subseteq ArrivedIn(g)
  BY <1>1, <1>2, <1>4 DEF ArrivedIn
<1>7. Range(rs) \subseteq ArrivedIn(g)
  BY <1>1, <1>2, <1>4 DEF ArrivedIn
<1>8. ArrivedIn(g) \subseteq ArrivedIn(f) \cup Range(rs)
  <2> SUFFICES ASSUME NEW x \in ArrivedIn(g) PROVE x \in ArrivedIn(f) \cup Range(rs)
    OBVIOUS
  <2>1. PICK c \in DOMAIN g : x \in Range(g[c])
    BY DEF ArrivedIn
  <2>2. DOMAIN g = 1..Len(f)
    BY <1>4
  <2> QED
    BY <1>5, <2>1, <2>2
<1>9. ArrivedIn(f) \subseteq ArrivedIn(g)
  BY <1>4, <1>6 DEF ArrivedIn
<1> QED
  BY <1>4, <1>7, <1>8, <1>9 DEF g

Empties(n) == [i \in 1..n |-> <<>>]

\* New connections bring nothing yet.
LEMMA ArrivedStays ==
    ASSUME NEW S, NEW f \in Seq(Seq(S)), NEW n \in Nat
    PROVE  /\ Cat(f, Empties(n)) \in Seq(Seq(S))
           /\ f # <<>> \/ n # 0 => Cat(f, Empties(n)) # <<>>
           /\ ArrivedIn(Cat(f, Empties(n))) = ArrivedIn(f)
<1> DEFINE e == Empties(n)
           g == f \o e
<1>1. e \in Seq(Seq(S)) /\ Len(e) = n
  <2>1. <<>> \in Seq(S)
    OBVIOUS
  <2> QED
    BY <2>1 DEF Empties
<1>2. g \in Seq(Seq(S)) /\ Len(g) = Len(f) + n
  <2> HIDE DEF e
  <2> QED
    BY <1>1, ConcatProperties
<1>3. /\ \A c \in 1..Len(f) : g[c] = f[c]
      /\ \A c \in 1..Len(g) : c > Len(f) => g[c] = <<>>
  <2>1. \A c \in 1..Len(e) : g[c + Len(f)] = e[c] /\ e[c] = <<>>
    BY <1>1 DEF Empties
  <2>2. ASSUME NEW c \in 1..Len(g), c > Len(f) PROVE g[c] = <<>>
    <3>1. c - Len(f) \in 1..Len(e) /\ (c - Len(f)) + Len(f) = c
      BY <1>1, <1>2, <2>2
    <3> QED
      BY <2>1, <3>1
  <2>3. \A c \in 1..Len(f) : g[c] = f[c]
    BY <1>1
  <2> QED
    BY <2>2, <2>3
<1>4. DOMAIN f = 1..Len(f) /\ DOMAIN g = 1..Len(g) /\ Len(f) \in Nat
  BY <1>2
<1> HIDE DEF e, g
<1>5. \A c \in 1..Len(g) : c <= Len(f) \/ c > Len(f)
  BY <1>2, <1>4
<1>6. 1..Len(f) \subseteq 1..Len(g)
  BY <1>2, <1>4
<1>7. ASSUME NEW c \in 1..Len(g) PROVE Range(g[c]) \subseteq ArrivedIn(f)
  BY <1>3, <1>4, <1>5, RangeEmpty DEF ArrivedIn
<1>8. ASSUME NEW c \in 1..Len(f) PROVE Range(f[c]) \subseteq ArrivedIn(g)
  BY <1>3, <1>4, <1>6 DEF ArrivedIn
<1>9. f # <<>> \/ n # 0 => g # <<>>
  BY <1>2, <1>4
<1>10. ArrivedIn(g) \subseteq ArrivedIn(f)
  BY <1>4, <1>7 DEF ArrivedIn
<1>11. ArrivedIn(f) \subseteq ArrivedIn(g)
  BY <1>4, <1>8 DEF ArrivedIn
<1>12. Cat(f, Empties(n)) = g
  BY DEF Cat, g, e
<1> QED
  BY <1>2, <1>9, <1>10, <1>11, <1>12

-----------------------------------------------------------------------------
(* What each action does to the records that are on their way *)

Failed == broken \/ (kind = "file" /\ ~run_flag)

\* A step that gives no record: what it drops, it may drop.
MovesOn ==
    /\ Places' \subseteq Places /\ Arrived \subseteq Arrived'
    /\ given' = given /\ late' = late
    /\ Failed => Failed'
    /\ Failed' \/ Places \ Places' \subseteq late

\* send() or produce() takes a message.
LEMMA TakenWire ==
    ASSUME TypeOK, NEW rs \in Seq(Records), Taken(rs)
    PROVE  /\ wire' \in Seq(Records)
           /\ Range(wire') \subseteq Range(wire) \cup Range(rs)
           /\ Range(wire) \subseteq Range(wire')
           /\ Range(rs) \subseteq Range(wire') \/ (kind = "flume" /\ ~live)
           /\ fd /\ far # <<>>
<1>1. wire \in Seq(Records)
  BY DEF TypeOK
<1>2. \/ wire' = Cat(wire, rs)
      \/ wire' = wire /\ kind = "flume" /\ ~live
  BY DEF Taken, Cat
<1>3. fd /\ far # <<>>
  BY DEF Taken, TypeOK
<1>4. CASE wire' = Cat(wire, rs)
  BY <1>1, <1>3, <1>4, RangeCat
<1>5. CASE wire' = wire /\ kind = "flume" /\ ~live
  BY <1>1, <1>3, <1>5
<1> QED
  BY <1>2, <1>4, <1>5

\* The last connection or file gets some records.
LEMMA Brings ==
    ASSUME TypeOK, far # <<>>, NEW rs \in Seq(Records), far' = Grown(far, rs)
    PROVE  /\ far' \in Seq(Seq(Records)) /\ far' # <<>>
           /\ Arrived' = Arrived \cup Range(rs)
<1>1. far \in Seq(Seq(Records))
  BY DEF TypeOK
<1>2. Arrived' = ArrivedIn(Grown(far, rs))
  BY DEF Arrived, ArrivedIn
<1> QED
  BY <1>1, <1>2, ArrivedGrows, ArrivedIs

\* What has arrived stays when the connections do.
LEMMA ArrivedKept == far' = far => Arrived' = Arrived
BY DEF Arrived

LEMMA PopEffect ==
    ASSUME ShipInv, Pop PROVE TypeOK' /\ MovesOn
<1>1. data \in Seq(Records) /\ Len(data) \in Nat
  BY DEF ShipInv, TypeOK
<1>2. PICK n \in 1..Len(data) :
          hand' = SubSeq(data, 1, n) /\ data' = SubSeq(data, n + 1, Len(data))
  BY DEF Pop
<1>3. n \in 0..Len(data)
  BY <1>1, <1>2
<1>4. /\ SubSeq(data, 1, n) \in Seq(Records) /\ SubSeq(data, n + 1, Len(data)) \in Seq(Records)
      /\ Range(data) = Range(SubSeq(data, 1, n)) \cup Range(SubSeq(data, n + 1, Len(data)))
  BY <1>1, <1>3, RangeCut
<1>5. /\ hand' \in Seq(Records) /\ data' \in Seq(Records)
      /\ Range(data) = Range(hand') \cup Range(data')
  BY <1>2, <1>4
<1>6. hand = <<>> /\ thread' = "send" /\ UNCHANGED <<kind, run_flag, wire, far, given, late, broken>>
  BY DEF Pop, Running, ShipInv, TypeOK, farVars, history
<1>7. TypeOK'
  BY <1>5, <1>6 DEF ShipInv, TypeOK, Pop, farVars, history
<1>8. Arrived' = Arrived
  BY <1>6, ArrivedKept
<1>9. Places = Places'
  BY <1>5, <1>6, <1>8, RangeEmpty DEF Places
<1>10. MovesOn
  BY <1>6, <1>8, <1>9 DEF MovesOn, Failed
<1> QED
  BY <1>7, <1>10

LEMMA SendEffect ==
    ASSUME ShipInv, Send PROVE TypeOK' /\ MovesOn
<1>1. hand \in Seq(Records) /\ UNCHANGED <<kind, run_flag, data, far, given, late>>
  BY DEF Send, ShipInv, TypeOK
<1>2. Arrived' = Arrived
  BY <1>1, ArrivedKept
<1>3. CASE Taken(hand) /\ hand' = <<>> /\ thread' = "loop" /\ broken' = broken
  <2>1. /\ wire' \in Seq(Records)
        /\ Range(wire') \subseteq Range(wire) \cup Range(hand)
        /\ Range(wire) \subseteq Range(wire')
        /\ Range(hand) \subseteq Range(wire') \/ (kind = "flume" /\ ~live)
        /\ fd /\ far # <<>>
    BY <1>1, <1>3, TakenWire DEF ShipInv
  <2>2. TypeOK'
    BY <1>1, <1>3, <2>1 DEF ShipInv, TypeOK, Send
  <2>3. kind = "flume" /\ ~live => Failed'
    BY <1>3 DEF ShipInv, CleanEnd, Failed
  <2>4. Places' \subseteq Places /\ (Failed' \/ Places \subseteq Places')
    BY <1>1, <1>2, <1>3, <2>1, <2>3, RangeEmpty DEF Places
  <2> QED
    BY <1>1, <1>2, <1>3, <2>2, <2>4 DEF MovesOn, Failed
<1>4. CASE thread' = "connect" /\ broken' = TRUE /\ UNCHANGED <<hand, wire>>
  <2>1. TypeOK'
    BY <1>1, <1>4 DEF ShipInv, TypeOK, Send
  <2>2. Places' = Places
    BY <1>1, <1>2, <1>4 DEF Places
  <2> QED
    BY <1>1, <1>2, <1>4, <2>1, <2>2 DEF MovesOn, Failed
<1> QED
  BY <1>3, <1>4 DEF Send

LEMMA ReconnectEffect ==
    ASSUME ShipInv, Reconnect PROVE TypeOK' /\ MovesOn
<1>1. UNCHANGED <<kind, run_flag, data, wire, given, late, broken>> /\ broken
  BY DEF Reconnect, ShipInv, CleanEnd, history
<1>2. CASE far' = Append(far, <<>>) /\ UNCHANGED hand
           /\ fd' = TRUE /\ live' = TRUE /\ thread' = "resend"
  <2> DEFINE g == Append(far, <<>>)
             one == 1
  <2>1. g = Cat(far, Empties(one))
    <3>1. Empties(1) = << <<>> >>
      BY DEF Empties
    <3>2. far \in Seq(Seq(Records)) /\ <<>> \in Seq(Records)
      BY DEF ShipInv, TypeOK
    <3> QED
      BY <3>1, <3>2, AppendIsConcat DEF Cat
  <2>2. far \in Seq(Seq(Records)) /\ one \in Nat /\ one # 0 /\ far' = g
    BY <1>2 DEF ShipInv, TypeOK
  <2> HIDE DEF g, one
  <2>3. far' \in Seq(Seq(Records)) /\ far' # <<>> /\ ArrivedIn(g) = ArrivedIn(far)
    BY <2>1, <2>2, ArrivedStays
  <2>4. Arrived' = ArrivedIn(g)
    BY <2>2 DEF Arrived, ArrivedIn
  <2>5. Arrived' = Arrived
    BY <2>3, <2>4, ArrivedIs
  <2>6. Places' = Places
    BY <1>1, <1>2, <2>5 DEF Places
  <2>7. TypeOK'
    BY <1>1, <1>2, <2>3 DEF ShipInv, TypeOK, Reconnect, history
  <2> QED
    BY <1>1, <2>5, <2>6, <2>7 DEF MovesOn, Failed
<1>3. CASE thread' = "resend" /\ UNCHANGED <<fd, live, far, hand>>
  <2>1. Arrived' = Arrived /\ Places' = Places
    BY <1>1, <1>3, ArrivedKept DEF Places
  <2>2. TypeOK'
    BY <1>1, <1>3 DEF ShipInv, TypeOK, Reconnect, history
  <2> QED
    BY <1>1, <2>1, <2>2 DEF MovesOn, Failed
<1>4. CASE /\ fd' = FALSE /\ live' = FALSE /\ thread' = "loop" /\ hand' = <<>>
           /\ kind = "flume" /\ UNCHANGED far
  <2>1. Arrived' = Arrived /\ Places' \subseteq Places
    BY <1>1, <1>4, ArrivedKept, RangeEmpty DEF Places
  <2>2. UNCHANGED <<clock, held, drained, main>>
    BY DEF Reconnect
  <2>3. TypeOK'
    <3>1. /\ hand' \in Seq(Records) /\ kind' # "kafka"
          /\ far' = far /\ wire' = wire /\ fd' = FALSE /\ live' = FALSE
      BY <1>1, <1>4
    <3>2. far' \in Seq(Seq(Records)) /\ (fd' \/ live' \/ wire' # <<>> => far' # <<>>)
      BY <3>1 DEF ShipInv, TypeOK
    <3> QED
      BY <1>1, <1>4, <2>2, <3>1, <3>2 DEF ShipInv, TypeOK
  <2> QED
    BY <1>1, <2>1, <2>3 DEF MovesOn, Failed
<1> QED
  BY <1>2, <1>3, <1>4 DEF Reconnect

LEMMA ResendEffect ==
    ASSUME ShipInv, Resend PROVE TypeOK' /\ MovesOn
<1>1. /\ UNCHANGED <<kind, run_flag, data, far, given, late, broken>> /\ broken
      /\ hand' = <<>> /\ hand \in Seq(Records)
  BY DEF Resend, ShipInv, TypeOK, CleanEnd, history
<1>2. Arrived' = Arrived
  BY <1>1, ArrivedKept
<1>3. /\ wire' \in Seq(Records) /\ (wire' # <<>> => far # <<>>)
      /\ Range(wire') \subseteq Range(wire) \cup Range(hand)
  <2>1. CASE Taken(hand)
    BY <1>1, <2>1, TakenWire DEF ShipInv
  <2>2. CASE wire' = wire
    BY <2>2 DEF ShipInv, TypeOK
  <2> QED
    BY <2>1, <2>2 DEF Resend
<1>4. TypeOK'
  BY <1>1, <1>3 DEF ShipInv, TypeOK, Resend, history
<1>5. Places' \subseteq Places
  BY <1>1, <1>2, <1>3, RangeEmpty DEF Places
<1> QED
  BY <1>1, <1>2, <1>4, <1>5 DEF MovesOn, Failed

LEMMA WriteEffect ==
    ASSUME ShipInv, Write PROVE TypeOK' /\ MovesOn
<1>1. /\ UNCHANGED <<kind, run_flag, data, wire, given, late>>
      /\ hand' = <<>> /\ hand \in Seq(Records) /\ far \in Seq(Seq(Records))
  BY DEF Write, ShipInv, TypeOK
<1>2. PICK n \in 0..2 :
        /\ n \in (IF fd THEN {0, 1} ELSE {1, 2})
        /\ LET files == far \o [i \in 1..n |-> <<>>]
           IN  \/ far' = [files EXCEPT ![Len(files)] = @ \o hand] /\ broken' = broken
               \/ far' = files /\ broken' = TRUE
  BY DEF Write
<1> DEFINE files == Cat(far, Empties(n))
<1>0. n \in Nat
  BY <1>2
<1>3. \/ far' = Grown(files, hand) /\ broken' = broken
      \/ far' = files /\ broken' = TRUE
  BY <1>2 DEF Cat, Empties, Grown
<1>4. files \in Seq(Seq(Records)) /\ ArrivedIn(files) = ArrivedIn(far)
  BY <1>0, <1>1, ArrivedStays
<1>5. files # <<>>
  <2>1. far # <<>> \/ n # 0
    BY <1>2 DEF ShipInv, TypeOK
  <2> QED
    BY <1>0, <1>1, <2>1, ArrivedStays
<1> HIDE DEF files
<1>6. /\ far' \in Seq(Seq(Records)) /\ far' # <<>>
      /\ ArrivedIn(far) \subseteq ArrivedIn(far')
      /\ ArrivedIn(far') \subseteq ArrivedIn(far) \cup Range(hand)
      /\ Range(hand) \subseteq ArrivedIn(far') \/ broken'
  <2>1. CASE far' = files /\ broken' = TRUE
    BY <1>4, <1>5, <2>1
  <2>2. CASE far' = Grown(files, hand) /\ broken' = broken
    <3>1. /\ Grown(files, hand) \in Seq(Seq(Records)) /\ Grown(files, hand) # <<>>
          /\ ArrivedIn(Grown(files, hand)) = ArrivedIn(files) \cup Range(hand)
      BY <1>1, <1>4, <1>5, ArrivedGrows
    <3> QED
      BY <1>4, <2>2, <3>1
  <2> QED
    BY <1>3, <2>1, <2>2
<1>7. ArrivedIn(far) = Arrived /\ ArrivedIn(far') = Arrived'
  BY DEF Arrived, ArrivedIn
<1>8. broken' \in BOOLEAN /\ (broken => broken')
  BY <1>3 DEF ShipInv, TypeOK
<1>9. TypeOK'
  BY <1>1, <1>6, <1>8 DEF ShipInv, TypeOK, Write
<1>10. Places' \subseteq Places /\ (broken' \/ Places \subseteq Places')
  BY <1>1, <1>6, <1>7, RangeEmpty DEF Places
<1> QED
  BY <1>1, <1>6, <1>7, <1>8, <1>9, <1>10 DEF MovesOn, Failed

LEMMA DrainSendEffect ==
    ASSUME ShipInv, DrainSend PROVE TypeOK' /\ MovesOn
<1>1. /\ UNCHANGED <<kind, run_flag, hand, far, given, late>>
      /\ data \in Seq(Records) /\ data # <<>> /\ data' = Tail(data)
  BY DEF DrainSend, ShipInv, TypeOK, thrVars
<1>2. Head(data) \in Records /\ data' \in Seq(Records) /\ Range(data) = {Head(data)} \cup Range(data')
  BY <1>1, RangeTail
<1>3. Arrived' = Arrived
  BY <1>1, ArrivedKept
<1> DEFINE rs == <<Head(data)>>
<1>4. rs \in Seq(Records) /\ Range(rs) = {Head(data)}
  BY <1>2, RangeSingle
<1>5. CASE Taken(rs) /\ broken' = broken
  <2> HIDE DEF rs
  <2>1. /\ wire' \in Seq(Records)
        /\ Range(wire') \subseteq Range(wire) \cup Range(rs)
        /\ Range(wire) \subseteq Range(wire')
        /\ Range(rs) \subseteq Range(wire') \/ (kind = "flume" /\ ~live)
        /\ fd /\ far # <<>>
    BY <1>4, <1>5, TakenWire DEF ShipInv
  <2>2. TypeOK'
    BY <1>1, <1>2, <1>5, <2>1 DEF ShipInv, TypeOK, DrainSend, thrVars
  <2>3. kind = "flume" /\ ~live => Failed'
    BY <1>5 DEF ShipInv, CleanEnd, Failed
  <2>4. Places' \subseteq Places /\ (Failed' \/ Places \subseteq Places')
    BY <1>1, <1>2, <1>3, <1>4, <2>1, <2>3 DEF Places
  <2> QED
    BY <1>1, <1>3, <1>5, <2>2, <2>4 DEF MovesOn, Failed
<1>6. CASE broken' = TRUE /\ wire' = wire
  <2>1. TypeOK'
    BY <1>1, <1>2, <1>6 DEF ShipInv, TypeOK, DrainSend, thrVars
  <2>2. Places' \subseteq Places
    BY <1>1, <1>2, <1>3, <1>6 DEF Places
  <2> QED
    BY <1>1, <1>3, <1>6, <2>1, <2>2 DEF MovesOn, Failed
<1> QED
  BY <1>5, <1>6 DEF DrainSend

LEMMA DrainLineEffect ==
    ASSUME ShipInv, DrainLine PROVE TypeOK' /\ MovesOn
<1>1. /\ UNCHANGED <<kind, run_flag, wire, far, given, late, broken>>
      /\ data \in Seq(Records) /\ hand \in Seq(Records) /\ data # <<>>
      /\ data' = Tail(data) /\ hand' = Append(hand, Head(data))
  BY DEF DrainLine, ShipInv, TypeOK, farVars, history
<1>2. Head(data) \in Records /\ data' \in Seq(Records) /\ Range(data) = {Head(data)} \cup Range(data')
  BY <1>1, RangeTail
<1>3. hand' \in Seq(Records) /\ Range(hand') = Range(hand) \cup {Head(data)}
  BY <1>1, <1>2, RangeAppend
<1>4. Arrived' = Arrived
  BY <1>1, ArrivedKept
<1>5. Places' = Places
  BY <1>1, <1>2, <1>3, <1>4 DEF Places
<1>6. TypeOK'
  BY <1>1, <1>2, <1>3 DEF ShipInv, TypeOK, DrainLine, farVars, history
<1> QED
  BY <1>1, <1>4, <1>5, <1>6 DEF MovesOn, Failed

LEMMA DrainEndEffect ==
    ASSUME ShipInv, DrainEnd PROVE TypeOK' /\ MovesOn
<1>1. /\ UNCHANGED <<kind, run_flag, data, wire, given, late, broken>>
      /\ hand' = <<>> /\ hand \in Seq(Records) /\ ~run_flag
  BY DEF DrainEnd, ShipInv, TypeOK, CleanEnd, history
<1>2. CASE kind = "file" /\ fd /\ far' = [far EXCEPT ![Len(far)] = @ \o hand]
  <2>1. far' = Grown(far, hand) /\ far # <<>>
    BY <1>2 DEF Grown, Cat, ShipInv, TypeOK
  <2>2. far' \in Seq(Seq(Records)) /\ far' # <<>> /\ Arrived' = Arrived \cup Range(hand)
    BY <1>1, <2>1, Brings DEF ShipInv
  <2>3. TypeOK'
    BY <1>1, <2>2 DEF ShipInv, TypeOK, DrainEnd, history
  <2>4. Places' \subseteq Places
    BY <1>1, <2>2, RangeEmpty DEF Places
  <2> QED
    BY <1>1, <1>2, <2>2, <2>3, <2>4 DEF MovesOn, Failed
<1>3. CASE far' = far
  <2>1. Arrived' = Arrived /\ Places' \subseteq Places
    BY <1>1, <1>3, ArrivedKept, RangeEmpty DEF Places
  <2>2. TypeOK'
    BY <1>1, <1>3 DEF ShipInv, TypeOK, DrainEnd, history
  <2>3. kind # "file" => Places = Places'
    BY <1>1, <1>3, <2>1 DEF Places, DrainEnd, ShipInv, TypeOK, CleanEnd
  <2> QED
    BY <1>1, <2>1, <2>2, <2>3 DEF MovesOn, Failed
<1> QED
  BY <1>2, <1>3 DEF DrainEnd

LEMMA DeliverEffect ==
    ASSUME ShipInv, Deliver PROVE TypeOK' /\ MovesOn
<1>1. /\ UNCHANGED <<kind, run_flag, data, hand, given, late, broken>>
      /\ wire \in Seq(Records) /\ far \in Seq(Seq(Records))
  BY DEF Deliver, ShipInv, TypeOK, thrVars, history
<1>2. PICK i \in DOMAIN wire :
          /\ far' = [far EXCEPT ![Len(far)] = Append(@, wire[i])]
          /\ wire' = RemoveAt(wire, i)
  BY DEF Deliver
<1>3. /\ wire[i] \in Records /\ wire' \in Seq(Records)
      /\ Range(wire) = Range(wire') \cup {wire[i]}
  BY <1>1, <1>2, RangeRemoveAt
<1>4. far # <<>>
  <2>1. wire # <<>>
    BY <1>1, <1>2
  <2> QED
    BY <2>1 DEF ShipInv, TypeOK
<1> DEFINE rs == <<wire[i]>>
           last == far[Len(far)]
<1>5. rs \in Seq(Records) /\ Range(rs) = {wire[i]}
  BY <1>3, RangeSingle
<1>6. far' = Grown(far, rs)
  <2>1. last \in Seq(Records)
    BY <1>1, <1>4
  <2>2. Append(last, wire[i]) = Cat(last, rs)
    BY <1>3, <2>1, AppendIsConcat DEF Cat
  <2> QED
    BY <1>2, <2>2 DEF Grown
<1> HIDE DEF rs
<1>7. far' \in Seq(Seq(Records)) /\ far' # <<>> /\ Arrived' = Arrived \cup Range(rs)
  BY <1>4, <1>5, <1>6, Brings DEF ShipInv
<1>8. TypeOK'
  BY <1>1, <1>3, <1>7 DEF ShipInv, TypeOK, Deliver, thrVars, history
<1>9. Places' = Places
  BY <1>1, <1>3, <1>5, <1>7 DEF Places
<1> QED
  BY <1>1, <1>7, <1>8, <1>9 DEF MovesOn, Failed

LEMMA BreakEffect ==
    ASSUME ShipInv, Break PROVE TypeOK' /\ MovesOn
<1>1. /\ UNCHANGED <<kind, run_flag, data, hand, given, late>>
      /\ broken' = TRUE /\ wire' = <<>> /\ far # <<>> /\ wire \in Seq(Records)
  BY DEF Break, ShipInv, TypeOK, thrVars
<1>2. PICK n \in 0..Len(wire) : far' = [far EXCEPT ![Len(far)] = @ \o SubSeq(wire, 1, n)]
  BY DEF Break
<1> DEFINE rs == SubSeq(wire, 1, n)
<1>3. rs \in Seq(Records) /\ Range(rs) \subseteq Range(wire)
  BY <1>1, <1>2, RangeCut
<1>4. far' = Grown(far, rs)
  BY <1>2 DEF Grown, Cat
<1> HIDE DEF rs
<1>5. far' \in Seq(Seq(Records)) /\ far' # <<>> /\ Arrived' = Arrived \cup Range(rs)
  BY <1>1, <1>3, <1>4, Brings DEF ShipInv
<1>6. TypeOK'
  <2>1. UNCHANGED <<clock, held, thread, drained, fd, main>> /\ live' = FALSE
    BY DEF Break, thrVars
  <2>2. wire' \in Seq(Records) /\ broken' \in BOOLEAN
    BY <1>1
  <2> QED
    BY <1>1, <1>5, <2>1, <2>2 DEF ShipInv, TypeOK
<1>7. Places' \subseteq Places
  BY <1>1, <1>3, <1>5, RangeEmpty DEF Places
<1> QED
  BY <1>1, <1>5, <1>6, <1>7 DEF MovesOn, Failed

LEMMA ExpireEffect ==
    ASSUME ShipInv, Expire PROVE TypeOK' /\ MovesOn
<1>1. /\ UNCHANGED <<kind, run_flag, data, hand, far, fd, live, given, late>>
      /\ broken' = TRUE /\ wire \in Seq(Records)
  BY DEF Expire, ShipInv, TypeOK, thrVars
<1>2. PICK i \in DOMAIN wire : wire' = RemoveAt(wire, i)
  BY DEF Expire
<1>3. wire' \in Seq(Records) /\ Range(wire') \subseteq Range(wire) /\ wire # <<>>
  BY <1>1, <1>2, RangeRemoveAt
<1>4. Arrived' = Arrived
  BY <1>1, ArrivedKept
<1>5. TypeOK'
  BY <1>1, <1>3 DEF ShipInv, TypeOK, Expire, thrVars
<1>6. Places' \subseteq Places
  BY <1>1, <1>3, <1>4 DEF Places
<1> QED
  BY <1>1, <1>4, <1>5, <1>6 DEF MovesOn, Failed

\* The process ends, and with it what was in its memory.
LEMMA GoneEffect ==
    ASSUME ShipInv, (\E w \in Writers : PushCrash(w)) \/ WriteCrash \/ Kill
    PROVE  TypeOK' /\ MovesOn
<1>1. /\ UNCHANGED <<kind, run_flag, clock, held, thread, drained, fd, live, far, given, late>>
      /\ Gone /\ (broken' = broken \/ broken' = TRUE)
  BY DEF PushCrash, WriteCrash, Kill, history
<1>2. /\ data' = <<>> /\ hand' = <<>> /\ main' = "gone"
      /\ (kind = "kafka" /\ wire' = <<>>) \/ (kind # "kafka" /\ wire' = wire)
  BY <1>1 DEF Gone
<1>3. Arrived' = Arrived
  BY <1>1, ArrivedKept
<1>4. TypeOK'
  <2>1. wire' \in Seq(Records) /\ (wire' # <<>> => wire # <<>>)
    <3>1. CASE wire' = <<>>
      BY <3>1
    <3>2. CASE wire' = wire
      BY <3>2 DEF ShipInv, TypeOK
    <3> QED
      BY <1>2, <3>1, <3>2
  <2>2. data' \in Seq(Records) /\ hand' \in Seq(Records) /\ ~(hand' # <<>>)
    BY <1>2
  <2>3. far' \in Seq(Seq(Records)) /\ (fd' \/ live' \/ wire' # <<>> => far' # <<>>)
    BY <1>1, <2>1 DEF ShipInv, TypeOK
  <2>4. broken' \in BOOLEAN
    BY <1>1 DEF ShipInv, TypeOK
  <2> QED
    BY <1>1, <1>2, <2>1, <2>2, <2>3, <2>4 DEF ShipInv, TypeOK
<1>5. Places' \subseteq Places
  BY <1>1, <1>2, <1>3, RangeEmpty DEF Places
<1>6. Failed' \/ Places \ Places' \subseteq late
  <2>1. CASE broken'
    BY <2>1 DEF Failed
  <2>2. CASE ~broken'
    <3>1. Kill /\ ~broken /\ main = "freed"
      BY <2>2 DEF PushCrash, WriteCrash, Kill, history, ShipInv, CleanEnd, TypeOK
    <3>2. thread = "exited" /\ ~run_flag /\ hand = <<>> /\ (kind = "kafka" => wire = <<>>)
      BY <3>1 DEF ShipInv, CleanEnd, TypeOK
    <3>3. CASE kind = "file"
      BY <1>1, <3>2, <3>3 DEF Failed
    <3>4. CASE kind # "file"
      <4>1. Range(data) \subseteq late
        BY <3>1, <3>2, <3>4 DEF ShipInv, CleanEnd
      <4>2. wire' = wire
        BY <1>2, <3>2
      <4> QED
        BY <1>1, <1>3, <3>2, <4>1, <4>2, RangeEmpty DEF Places
    <3> QED
      BY <3>3, <3>4
  <2> QED
    BY <2>1, <2>2
<1> QED
  BY <1>1, <1>3, <1>4, <1>5, <1>6 DEF MovesOn, Failed

\* The steps that touch no record on its way.
LEMMA StillEffect ==
    ASSUME ShipInv, \/ \E w \in Writers : Stamp(w)
                    \/ Rotate \/ Drain \/ Stop \/ Free \/ UNCHANGED vars
    PROVE  TypeOK' /\ MovesOn
<1> USE DEF thrVars, farVars, history
<1>1. UNCHANGED <<kind, data, hand, wire, far, given, late, broken>> /\ (run_flag' => run_flag)
  BY DEF Stamp, Rotate, Drain, Stop, Free, vars, ShipInv, TypeOK
<1>2. Arrived' = Arrived /\ Places' = Places
  BY <1>1, ArrivedKept DEF Places
<1>3. MovesOn
  BY <1>1, <1>2 DEF MovesOn, Failed
<1>4. /\ kind' \in {"flume", "kafka", "file"}
      /\ data' \in Seq(Records) /\ hand' \in Seq(Records) /\ wire' \in Seq(Records)
      /\ far' \in Seq(Seq(Records)) /\ given' \subseteq Records /\ late' \subseteq given'
      /\ broken' \in BOOLEAN
  BY <1>1 DEF ShipInv, TypeOK
<1>5. fd' \/ live' \/ wire' # <<>> => far' # <<>>
  BY <1>1 DEF Stamp, Rotate, Drain, Stop, Free, vars, ShipInv, TypeOK
<1>6. hand' # <<>> => \/ thread' \in {"send", "connect", "resend"}
                      \/ thread' = "drain" /\ kind' = "file"
  BY <1>1 DEF Stamp, Rotate, Drain, Stop, Free, vars, ShipInv, TypeOK
<1>7. run_flag' \in BOOLEAN /\ fd' \in BOOLEAN /\ live' \in BOOLEAN /\ (kind' = "kafka" => fd')
  BY <1>1 DEF Stamp, Rotate, Drain, Stop, Free, vars, ShipInv, TypeOK
<1>8. /\ drained' \in Nat /\ main' \in {"waiting", "freed", "gone"}
      /\ thread' \in {"none", "loop", "send", "connect", "resend", "drain", "exited"}
  BY <1>1 DEF Stamp, Rotate, Drain, Stop, Free, vars, ShipInv, TypeOK
<1>9. clock' \in 0..MaxRecords /\ held' \in [Writers -> Records \cup {None}]
  <2>1. ASSUME NEW w \in Writers, Stamp(w)
        PROVE  clock' \in 0..MaxRecords /\ held' \in [Writers -> Records \cup {None}]
    <3>1. [by |-> w, at |-> clock + 1] \in Records /\ clock' \in 0..MaxRecords
      BY <2>1, LogAssumption DEF Stamp, Records, ShipInv, TypeOK
    <3> QED
      BY <2>1, <3>1 DEF Stamp, ShipInv, TypeOK
  <2>2. CASE UNCHANGED <<clock, held>>
    BY <2>2 DEF ShipInv, TypeOK
  <2> QED
    BY <2>1, <2>2 DEF Rotate, Drain, Stop, Free, vars
<1>10. TypeOK'
  BY <1>4, <1>5, <1>6, <1>7, <1>8, <1>9 DEF TypeOK
<1> QED
  BY <1>3, <1>10

LEMMA PushEffect ==
    ASSUME ShipInv, NEW w \in Writers, Push(w)
    PROVE  /\ TypeOK' /\ held[w] \in Records
           /\ Places' = Places \cup {held[w]} /\ Arrived' = Arrived
           /\ UNCHANGED <<kind, run_flag, broken>>
<1>1. held[w] \in Records /\ data \in Seq(Records)
  BY DEF Push, ShipInv, TypeOK
<1>2. data' \in Seq(Records) /\ Range(data') = Range(data) \cup {held[w]}
  BY <1>1, RangeAppend DEF Push
<1>3. Arrived' = Arrived
  BY ArrivedKept DEF Push, farVars
<1>4. Places' = Places \cup {held[w]}
  BY <1>2, <1>3 DEF Places, Push, thrVars, farVars
<1>5. held' \in [Writers -> Records \cup {None}]
  BY DEF Push, ShipInv, TypeOK
<1>6. given' \subseteq Records /\ late' \subseteq given'
  BY <1>1 DEF Push, ShipInv, TypeOK
<1>7. TypeOK'
  BY <1>2, <1>5, <1>6 DEF Push, ShipInv, TypeOK, thrVars, farVars
<1> QED
  BY <1>1, <1>3, <1>4, <1>7 DEF Push

-----------------------------------------------------------------------------
(* The invariant is inductive *)

LEMMA InitShip == Init => ShipInv
<1> SUFFICES ASSUME Init PROVE ShipInv
  OBVIOUS
<1>1. far = << <<>> >> \/ (far = <<>> /\ ~fd)
  BY DEF Init
<1>2. far \in Seq(Seq(Records)) /\ (fd \/ live \/ wire # <<>> => far # <<>>)
  <2>1. <<>> \in Seq(Records)
    OBVIOUS
  <2> QED
    BY <1>1, <2>1 DEF Init
<1>3. TypeOK
  <2>1. held \in [Writers -> Records \cup {None}] /\ clock \in 0..MaxRecords
    BY LogAssumption DEF Init
  <2>2. /\ data = <<>> /\ hand = <<>> /\ wire = <<>> /\ ~(hand # <<>>)
        /\ given = {} /\ late = {} /\ drained = 0 /\ main = "waiting"
    BY DEF Init
  <2>3. data \in Seq(Records) /\ hand \in Seq(Records) /\ wire \in Seq(Records)
    BY <2>2
  <2>4. fd \in BOOLEAN /\ live \in BOOLEAN /\ broken \in BOOLEAN /\ run_flag \in BOOLEAN
    BY DEF Init
  <2>5. /\ kind \in {"flume", "kafka", "file"} /\ thread \in {"loop", "none"}
        /\ (kind = "kafka" => fd)
    BY DEF Init
  <2> QED
    BY <1>2, <2>1, <2>2, <2>3, <2>4, <2>5 DEF TypeOK
<1>4. Arrived = {}
  <2>1. Range(<<>>) = {}
    BY RangeEmpty
  <2> QED
    BY <1>1, <2>1 DEF Arrived
<1>5. StampsUnique
  BY <1>4, RangeEmpty DEF Init, StampsUnique, Places
<1>6. CleanEnd
  BY DEF Init, CleanEnd
<1> QED
  BY <1>3, <1>5, <1>6 DEF ShipInv

\* Every step either gives a record or moves some on.
LEMMA NextMoves ==
    ASSUME ShipInv, [Next]_vars
    PROVE  TypeOK' /\ (MovesOn \/ \E w \in Writers : Push(w))
<1>1. ASSUME NEW w \in Writers, Push(w) PROVE TypeOK'
  BY <1>1, PushEffect
<1>2. CASE (\E w \in Writers : PushCrash(w)) \/ WriteCrash \/ Kill
  BY <1>2, GoneEffect
<1>3. CASE \/ \E w \in Writers : Stamp(w)
           \/ Rotate \/ Drain \/ Stop \/ Free \/ UNCHANGED vars
  BY <1>3, StillEffect
<1>4. CASE Pop \/ Send \/ Reconnect \/ Resend \/ Write
  BY <1>4, PopEffect, SendEffect, ReconnectEffect, ResendEffect, WriteEffect
<1>5. CASE DrainSend \/ DrainLine \/ DrainEnd
  BY <1>5, DrainSendEffect, DrainLineEffect, DrainEndEffect
<1>6. CASE Deliver \/ Break \/ Expire
  BY <1>6, DeliverEffect, BreakEffect, ExpireEffect
<1> QED
  BY <1>1, <1>2, <1>3, <1>4, <1>5, <1>6 DEF Next, ThreadStep

\* Only Stamp takes a stamp, only Stamp and Push touch what is held.
LEMMA ClockAndHeld ==
    ASSUME [Next]_vars
    PROVE  \/ UNCHANGED <<clock, held>>
           \/ \E w \in Writers : Stamp(w) \/ Push(w)
BY DEF Next, ThreadStep, vars, thrVars, farVars, history, PushCrash, Pop, Send, Reconnect,
       Resend, Rotate, Write, WriteCrash, Drain, DrainSend, DrainLine, DrainEnd, Deliver,
       Break, Expire, Stop, Free, Kill

LEMMA StampsNext ==
    ASSUME ShipInv, [Next]_vars PROVE StampsUnique'
<1>1. CASE MovesOn /\ UNCHANGED <<clock, held>>
  BY <1>1 DEF MovesOn, ShipInv, StampsUnique
<1>2. ASSUME NEW w \in Writers, Stamp(w) PROVE StampsUnique'
  <2>1. MovesOn
    BY <1>2, StillEffect
  <2>2. /\ clock' = clock + 1 /\ clock \in Nat
        /\ \A v \in Writers : held'[v] = IF v = w THEN [by |-> w, at |-> clock + 1] ELSE held[v]
    BY <1>2 DEF Stamp, ShipInv, TypeOK
  <2>3. Places' \subseteq given'
    BY <2>1 DEF MovesOn, ShipInv, StampsUnique
  <2>4. \A r \in given' : r.at <= clock'
    <3>1. given' = given /\ \A r \in given : r.at \in Nat /\ r.at <= clock
      BY <2>1 DEF MovesOn, ShipInv, StampsUnique, TypeOK, Records
    <3> QED
      BY <2>2, <3>1
  <2>5. ASSUME NEW v \in Writers, held'[v] # None
        PROVE  held'[v].by = v /\ held'[v].at <= clock' /\ held'[v] \notin given'
    <3>1. CASE v = w
      <4>1. held'[v] = [by |-> w, at |-> clock + 1]
        BY <2>2, <3>1
      <4>2. \A r \in given : r.at # clock + 1
        BY <2>2 DEF ShipInv, StampsUnique, TypeOK, Records
      <4>3. held'[v] \notin given
        BY <4>1, <4>2
      <4> QED
        BY <2>1, <2>2, <3>1, <4>1, <4>3 DEF MovesOn
    <3>2. CASE v # w
      <4>1. held'[v] = held[v]
        BY <2>2, <3>2
      <4>2. held[v] \in Records
        BY <2>5, <4>1 DEF ShipInv, TypeOK
      <4>3. held[v].at \in Nat
        BY <4>2 DEF Records
      <4>4. held[v].by = v /\ held[v].at <= clock /\ held[v] \notin given
        BY <2>5, <4>1 DEF ShipInv, StampsUnique
      <4> QED
        BY <2>1, <2>2, <4>1, <4>3, <4>4 DEF MovesOn
    <3> QED
      BY <3>1, <3>2
  <2> QED
    BY <2>3, <2>4, <2>5 DEF StampsUnique
<1>3. ASSUME NEW w \in Writers, Push(w) PROVE StampsUnique'
  <2>1. held[w] \in Records /\ Places' = Places \cup {held[w]}
    BY <1>3, PushEffect
  <2>2. /\ given' = given \cup {held[w]} /\ clock' = clock /\ held[w] # None
        /\ \A v \in Writers : held'[v] = IF v = w THEN None ELSE held[v]
    BY <1>3 DEF Push, ShipInv, TypeOK
  <2>3. Places' \subseteq given' /\ \A r \in given' : r.at <= clock'
    BY <2>1, <2>2 DEF ShipInv, StampsUnique
  <2>4. ASSUME NEW v \in Writers, held'[v] # None
        PROVE  held'[v].by = v /\ held'[v].at <= clock' /\ held'[v] \notin given'
    <3>1. v # w /\ held'[v] = held[v]
      BY <2>2, <2>4
    <3>2. held[v].by = v /\ held[w].by = w /\ held[v].at <= clock /\ held[v] \notin given
      BY <2>2, <2>4, <3>1 DEF ShipInv, StampsUnique
    <3> QED
      BY <2>2, <3>1, <3>2
  <2> QED
    BY <2>3, <2>4 DEF StampsUnique
<1> QED
  BY <1>1, <1>2, <1>3, ClockAndHeld, NextMoves

LEMMA CleanNext ==
    ASSUME ShipInv, [Next]_vars PROVE CleanEnd'
<1> USE DEF thrVars, farVars, history
<1>1. ASSUME NEW w \in Writers, Stamp(w) PROVE CleanEnd'
  BY <1>1 DEF Stamp, ShipInv, TypeOK, CleanEnd
<1>2. ASSUME NEW w \in Writers, Push(w) PROVE CleanEnd'
  <2>1. held[w] \in Records /\ data \in Seq(Records)
    BY <1>2 DEF Push, ShipInv, TypeOK
  <2>2. Range(data') = Range(data) \cup {held[w]}
    BY <1>2, <2>1, RangeAppend DEF Push
  <2>3. thread = "exited" => late' = late \cup {held[w]}
    BY <1>2 DEF Push
  <2>4. UNCHANGED <<kind, run_flag, thread, wire, fd, live, main, broken>>
    BY <1>2 DEF Push
  <2>5. thread' = "exited" /\ kind' # "file" /\ ~broken' => Range(data') \subseteq late'
    BY <2>2, <2>3, <2>4 DEF ShipInv, CleanEnd
  <2> QED
    BY <2>4, <2>5 DEF ShipInv, CleanEnd
<1>3. CASE (\E w \in Writers : PushCrash(w)) \/ WriteCrash
  <2>1. /\ UNCHANGED <<kind, run_flag, thread, fd, live>>
        /\ broken' = TRUE /\ main' = "gone"
    BY <1>3 DEF PushCrash, WriteCrash, Gone
  <2> QED
    BY <2>1 DEF ShipInv, CleanEnd
<1>4. CASE Kill
  <2>1. UNCHANGED <<kind, run_flag, thread, fd, live, broken, late>> /\ main' = "gone" /\ data' = <<>>
    BY <1>4 DEF Kill, Gone
  <2>2. broken \/ thread = "exited"
    BY <1>4 DEF Kill, ShipInv, CleanEnd
  <2>3. Range(data') = {}
    BY <2>1, RangeEmpty
  <2> QED
    BY <2>1, <2>2, <2>3 DEF ShipInv, CleanEnd
<1>5. CASE Pop
  BY <1>5 DEF Pop, Running, ShipInv, TypeOK, CleanEnd
<1>6. CASE Send
  BY <1>6 DEF Send, Refused, ShipInv, TypeOK, CleanEnd
<1>7. CASE Reconnect
  BY <1>7 DEF Reconnect, ShipInv, TypeOK, CleanEnd
<1>8. CASE Resend
  BY <1>8 DEF Resend, ShipInv, TypeOK, CleanEnd
<1>9. CASE Rotate
  BY <1>9 DEF Rotate, Running, ShipInv, TypeOK, CleanEnd
<1>10. CASE Write
  <2>1. /\ thread' = "loop" /\ kind = "file" /\ UNCHANGED <<kind, run_flag, wire, main>>
        /\ thread = "send" /\ main # "gone"
    BY <1>10 DEF Write
  <2> QED
    BY <2>1 DEF ShipInv, TypeOK, CleanEnd
<1>11. CASE Drain
  BY <1>11 DEF Drain, ShipInv, TypeOK, CleanEnd
<1>12. CASE DrainSend
  <2>1. /\ UNCHANGED <<kind, run_flag, thread, fd, live, main>> /\ thread = "drain"
        /\ (broken' = broken \/ broken' = TRUE) /\ main # "gone"
    BY <1>12 DEF DrainSend
  <2> QED
    BY <2>1 DEF ShipInv, TypeOK, CleanEnd
<1>13. CASE DrainLine
  BY <1>13 DEF DrainLine, ShipInv, TypeOK, CleanEnd
<1>14. CASE DrainEnd
  <2>1. /\ UNCHANGED <<kind, run_flag, data, fd, live, wire, main, late, broken>>
        /\ thread = "drain" /\ thread' = "exited" /\ main # "gone"
        /\ (kind # "file" => data = <<>>)
    BY <1>14 DEF DrainEnd
  <2>2. kind' # "file" => Range(data') = {}
    BY <2>1, RangeEmpty
  <2> QED
    BY <2>1, <2>2 DEF ShipInv, TypeOK, CleanEnd
<1>15. CASE Deliver
  <2>1. UNCHANGED <<kind, run_flag, data, thread, fd, live, main, late, broken>>
    BY <1>15 DEF Deliver
  <2>2. wire # <<>>
    BY <1>15 DEF Deliver, ShipInv, TypeOK
  <2> QED
    BY <2>1, <2>2 DEF ShipInv, CleanEnd
<1>16. CASE Break
  <2>1. /\ UNCHANGED <<kind, run_flag, thread, main>> /\ kind = "flume" /\ broken' = TRUE
    BY <1>16 DEF Break
  <2> QED
    BY <2>1 DEF ShipInv, CleanEnd
<1>17. CASE Expire
  <2>1. /\ UNCHANGED <<kind, run_flag, thread, main>> /\ broken' = TRUE
    BY <1>17 DEF Expire
  <2>2. wire # <<>>
    BY <1>17 DEF Expire, ShipInv, TypeOK
  <2> QED
    BY <2>1, <2>2 DEF ShipInv, CleanEnd, Expire
<1>18. CASE Stop
  BY <1>18 DEF Stop, ShipInv, TypeOK, CleanEnd
<1>19. CASE Free
  BY <1>19 DEF Free, ShipInv, TypeOK, CleanEnd
<1>20. CASE UNCHANGED vars
  BY <1>20 DEF vars, ShipInv, CleanEnd
<1> QED
  BY <1>1, <1>2, <1>3, <1>4, <1>5, <1>6, <1>7, <1>8, <1>9, <1>10, <1>11, <1>12, <1>13,
     <1>14, <1>15, <1>16, <1>17, <1>18, <1>19, <1>20 DEF Next, ThreadStep

LEMMA NextShip == ShipInv /\ [Next]_vars => ShipInv'
BY NextMoves, StampsNext, CleanNext DEF ShipInv

\* The variables have their types: in particular no record is in the hand of a
\* thread that goes on to the next one, and nothing is on its way where there
\* is no connection or file yet.
THEOREM TypeCorrect == Spec => []TypeOK
<1>1. Init => ShipInv
  BY InitShip
<1>2. ShipInv /\ [Next]_vars => ShipInv'
  BY NextShip
<1>3. ShipInv => TypeOK
  BY DEF ShipInv
<1> QED
  BY <1>1, <1>2, <1>3, PTL DEF Spec

-----------------------------------------------------------------------------
(* LogShip implements LogChannel *)

\* A record that is pushed is given to the channel.
LEMMA PushGives ==
    ASSUME ShipInv, NEW w \in Writers, Push(w)
    PROVE  held[w] \in Records /\ Channel!Give(held[w])
<1>1. /\ held[w] \in Records /\ Places' = Places \cup {held[w]} /\ Arrived' = Arrived
      /\ UNCHANGED <<kind, run_flag, broken>>
  BY PushEffect
<1>2. held[w] \notin given
  BY DEF Push, ShipInv, StampsUnique
<1>3. given' = given \cup {held[w]} /\ late' \in {late, late \cup {held[w]}}
  BY DEF Push
<1>4. given' \ Places' = given \ Places
  BY <1>1, <1>2, <1>3
<1> QED
  BY <1>1, <1>2, <1>3, <1>4 DEF Channel!Give

\* What moves records on settles those that arrive and those that are dropped.
LEMMA MovesSettle ==
    ASSUME ShipInv, MovesOn, broken' \in BOOLEAN
    PROVE  Channel!Next
<1> DEFINE A == Arrived' \ Arrived
           L == Places \ Places'
<1>1. /\ Places' \subseteq Places /\ Arrived \subseteq Arrived'
      /\ given' = given /\ late' = late /\ (Failed => Failed')
      /\ Failed' \/ L \subseteq late
  BY DEF MovesOn
<1>2. Places \subseteq given
  BY DEF ShipInv, StampsUnique
<1>3. Arrived \subseteq Places /\ Arrived' \subseteq Places'
  BY DEF Places
<1>4. A \in SUBSET Channel!OnTheWay /\ L \in SUBSET (Channel!OnTheWay \ A)
  BY <1>1, <1>2, <1>3 DEF Channel!OnTheWay
<1>5. Arrived' = Arrived \cup A /\ given' \ Places' = (given \ Places) \cup L
  BY <1>1, <1>2
<1>6. Channel!Settle(A, L)
  BY <1>1, <1>5 DEF Channel!Settle, Failed
<1> QED
  BY <1>4, <1>6 DEF Channel!Next

\* The queue, the thread that empties it and what is beyond keep the promise of
\* LogChannel: what arrived or was lost stays so, a record is lost only if
\* something failed or if it was pushed after the thread had ended.
THEOREM PromiseKept == Spec => KeepsPromise
<1>1. Init => ShipInv /\ Channel!Init
  <2> SUFFICES ASSUME Init PROVE ShipInv /\ Channel!Init
    OBVIOUS
  <2>1. ShipInv
    BY InitShip
  <2>2. given = {} /\ late = {} /\ Arrived = {}
    BY <2>1 DEF Init, ShipInv, StampsUnique, Places
  <2>3. (broken \/ (kind = "file" /\ ~run_flag)) \in BOOLEAN
    OBVIOUS
  <2> QED
    BY <2>1, <2>2, <2>3 DEF Channel!Init
<1>2. ShipInv /\ [Next]_vars => ShipInv'
  BY NextShip
<1>3. ShipInv /\ [Next]_vars => [Channel!Next]_(Channel!channel)
  <2> SUFFICES ASSUME ShipInv, [Next]_vars PROVE Channel!Next
    OBVIOUS
  <2>1. ASSUME NEW w \in Writers, Push(w) PROVE Channel!Next
    BY <2>1, PushGives DEF Channel!Next
  <2>2. broken' \in BOOLEAN
    BY NextMoves DEF TypeOK
  <2> QED
    BY <2>1, <2>2, NextMoves, MovesSettle
<1> QED
  BY <1>1, <1>2, <1>3, PTL DEF Spec, KeepsPromise, Channel!Spec

-----------------------------------------------------------------------------
(* The lines threadLog leaves *)

LEMMA CountNext ==
    ASSUME ShipInv, LineCount, [Next]_vars PROVE LineCount'
<1> USE DEF thrVars, farVars, history
<1>1. ASSUME NEW w \in Writers, Push(w) PROVE LineCount'
  BY <1>1 DEF Push, LineCount
<1>2. CASE (\E w \in Writers : PushCrash(w)) \/ WriteCrash \/ Kill
  BY <1>2 DEF PushCrash, WriteCrash, Kill, Gone, LineCount, ShipInv, CleanEnd
<1>3. CASE \/ \E w \in Writers : Stamp(w)
           \/ Rotate \/ Deliver \/ Break \/ Expire \/ Stop \/ Free \/ UNCHANGED vars
  <2>1. UNCHANGED <<kind, thread, drained, hand, data>>
    BY <1>3 DEF Stamp, Rotate, Deliver, Break, Expire, Stop, Free, vars
  <2> QED
    BY <2>1 DEF LineCount
<1>4. CASE Pop \/ Send \/ Reconnect \/ Resend \/ Write
  BY <1>4 DEF Pop, Running, Send, Reconnect, Resend, Write, LineCount
<1>5. CASE Drain
  <2>1. /\ hand = <<>> /\ drained = 0 /\ Len(data) \in Nat
        /\ UNCHANGED <<kind, hand, data, drained>> /\ thread' = "drain"
    BY <1>5 DEF Drain, LineCount, ShipInv, TypeOK
  <2>2. Len(hand) = 0
    BY <2>1
  <2> QED
    BY <2>1, <2>2 DEF LineCount
<1>6. CASE DrainSend \/ DrainEnd
  BY <1>6 DEF DrainSend, DrainEnd, LineCount
<1>7. CASE DrainLine
  <2>1. /\ data \in Seq(Records) /\ hand \in Seq(Records) /\ drained \in Nat
        /\ drained < Len(data) /\ drained = Len(hand)
        /\ data' = Tail(data) /\ hand' = Append(hand, Head(data))
        /\ drained' = drained + 1 /\ UNCHANGED <<kind, thread>> /\ thread = "drain"
    BY <1>7 DEF DrainLine, LineCount, ShipInv, TypeOK
  <2>2. Len(data') = Len(data) - 1 /\ Len(data) \in Nat \ {0} /\ Len(hand') = Len(hand) + 1
    BY <2>1
  <2> QED
    BY <2>1, <2>2 DEF LineCount
<1> QED
  BY <1>1, <1>2, <1>3, <1>4, <1>5, <1>6, <1>7 DEF Next, ThreadStep

\* threadLog's drain loop leaves as many lines in the queue as it writes, or one
\* less, however many there were.
THEOREM HalfStays == Spec => []HalfIsLeft
<1>1. Init => ShipInv /\ LineCount
  BY InitShip DEF Init, LineCount
<1>2. ShipInv /\ LineCount /\ [Next]_vars => ShipInv' /\ LineCount'
  BY NextShip, CountNext
<1>3. ShipInv /\ LineCount => HalfIsLeft
  <2> SUFFICES ASSUME ShipInv, LineCount, thread = "drain", kind = "file", drained >= Len(data)
               PROVE  Len(hand) - Len(data) \in {0, 1}
    BY DEF HalfIsLeft
  <2>1. drained = Len(hand) /\ drained <= Len(data) + 1 /\ drained \in Nat /\ Len(data) \in Nat
    BY DEF LineCount, ShipInv, TypeOK
  <2> QED
    BY <2>1
<1> QED
  BY <1>1, <1>2, <1>3, PTL DEF Spec

-----------------------------------------------------------------------------
(* The order of the records of one thread *)

LEMMA SortedEmpty == Sorted(<<>>)
BY DEF Sorted

LEMMA SortedSingle ==
    ASSUME NEW r PROVE Sorted(<<r>>)
BY DEF Sorted

\* Two sequences, one after the other.
LEMMA SortedCat ==
    ASSUME NEW S, NEW s \in Seq(S), NEW t \in Seq(S)
    PROVE  Sorted(Cat(s, t)) <=> Sorted(s) /\ Sorted(t) /\ Before(s, t)
<1> DEFINE u == s \o t
<1>1. /\ Len(s) \in Nat /\ Len(t) \in Nat /\ Len(u) = Len(s) + Len(t)
      /\ DOMAIN s = 1..Len(s) /\ DOMAIN t = 1..Len(t) /\ DOMAIN u = 1..Len(u)
  OBVIOUS
<1>2. /\ \A i \in 1..Len(s) : i \in 1..Len(u) /\ u[i] = s[i]
      /\ \A j \in 1..Len(t) : Len(s) + j \in 1..Len(u) /\ u[Len(s) + j] = t[j]
  OBVIOUS
<1>3. Cat(s, t) = u
  BY DEF Cat
<1> HIDE DEF u
<1>4. ASSUME Sorted(u) PROVE Sorted(s) /\ Sorted(t) /\ Before(s, t)
  <2>1. Sorted(s)
    BY <1>1, <1>2, <1>4 DEF Sorted
  <2>2. Sorted(t)
    <3> SUFFICES ASSUME NEW i \in 1..Len(t), NEW j \in 1..Len(t), i < j, t[i].by = t[j].by
                 PROVE  t[i].at < t[j].at
      BY <1>1 DEF Sorted
    <3>1. Len(s) + i < Len(s) + j
      BY <1>1
    <3> QED
      BY <1>1, <1>2, <1>4, <3>1 DEF Sorted
  <2>3. Before(s, t)
    <3> SUFFICES ASSUME NEW i \in 1..Len(s), NEW j \in 1..Len(t), s[i].by = t[j].by
                 PROVE  s[i].at < t[j].at
      BY <1>1 DEF Before, Range
    <3>1. i < Len(s) + j
      BY <1>1
    <3> QED
      BY <1>1, <1>2, <1>4, <3>1 DEF Sorted
  <2> QED
    BY <2>1, <2>2, <2>3
<1>5. ASSUME Sorted(s), Sorted(t), Before(s, t) PROVE Sorted(u)
  <2> SUFFICES ASSUME NEW i \in 1..Len(u), NEW j \in 1..Len(u), i < j, u[i].by = u[j].by
               PROVE  u[i].at < u[j].at
    BY <1>1 DEF Sorted
  <2>1. CASE j <= Len(s)
    <3>1. i \in 1..Len(s) /\ j \in 1..Len(s)
      BY <1>1, <2>1
    <3> QED
      BY <1>1, <1>2, <1>5, <3>1 DEF Sorted
  <2>2. CASE i > Len(s)
    <3>1. /\ i - Len(s) \in 1..Len(t) /\ j - Len(s) \in 1..Len(t) /\ i - Len(s) < j - Len(s)
          /\ Len(s) + (i - Len(s)) = i /\ Len(s) + (j - Len(s)) = j
      BY <1>1, <2>2
    <3>2. u[i] = t[i - Len(s)] /\ u[j] = t[j - Len(s)]
      BY <1>2, <3>1
    <3> QED
      BY <1>1, <1>5, <3>1, <3>2 DEF Sorted
  <2>3. CASE i <= Len(s) /\ j > Len(s)
    <3>1. i \in 1..Len(s) /\ j - Len(s) \in 1..Len(t) /\ Len(s) + (j - Len(s)) = j
      BY <1>1, <2>3
    <3>2. u[i] = s[i] /\ u[j] = t[j - Len(s)]
      BY <1>2, <3>1
    <3>3. u[i] \in Range(s) /\ u[j] \in Range(t)
      BY <1>1, <3>1, <3>2 DEF Range
    <3> QED
      BY <1>5, <3>3 DEF Before
  <2> QED
    BY <1>1, <2>1, <2>2, <2>3
<1> QED
  BY <1>3, <1>4, <1>5

\* A sequence is its two parts, its head and its tail.
LEMMA CutIsCat ==
    ASSUME NEW S, NEW s \in Seq(S), NEW n \in 0..Len(s)
    PROVE  s = Cat(SubSeq(s, 1, n), SubSeq(s, n + 1, Len(s)))
<1>1. Len(s) \in Nat
  BY LenProperties
<1>2. 1 \in 1..Len(s) + 1 /\ n \in 1 - 1..Len(s) /\ Len(s) \in n..Len(s)
  BY <1>1
<1>3. SubSeq(s, 1, n) \o SubSeq(s, n + 1, Len(s)) = SubSeq(s, 1, Len(s))
  BY <1>2, ConcatAdjacentSubSeq
<1> QED
  BY <1>3, SubSeqFull DEF Cat

LEMMA HeadIsCat ==
    ASSUME NEW S, NEW s \in Seq(S), s # <<>>
    PROVE  s = Cat(<<Head(s)>>, Tail(s))
<1> DEFINE t == <<Head(s)>> \o Tail(s)
<1>1. Len(s) \in Nat \ {0} /\ Len(t) = Len(s) /\ t \in Seq(S)
  OBVIOUS
<1>2. \A i \in 1..Len(s) : s[i] = t[i]
  OBVIOUS
<1> QED
  BY <1>1, <1>2, SeqEqual DEF Cat

AllSorted(f) == \A c \in DOMAIN f : Sorted(f[c])

\* The newest connection or file stays sorted when it gets what belongs behind.
LEMMA SortedGrows ==
    ASSUME NEW S, NEW f \in Seq(Seq(S)), f # <<>>, AllSorted(f),
           NEW rs \in Seq(S), Sorted(rs), Before(Newest(f), rs)
    PROVE  /\ AllSorted(Grown(f, rs))
           /\ Range(Newest(Grown(f, rs))) = Range(Newest(f)) \cup Range(rs)
<1>1. /\ Len(f) \in 1..Len(f) /\ f[Len(f)] \in Seq(S) /\ DOMAIN f = 1..Len(f)
      /\ Newest(f) = f[Len(f)]
  BY DEF Newest
<1> DEFINE b == Cat(f[Len(f)], rs)
           g == Grown(f, rs)
<1>2. b \in Seq(S) /\ Range(b) = Range(f[Len(f)]) \cup Range(rs)
  BY <1>1, RangeCat
<1>3. Sorted(b)
  BY <1>1, SortedCat DEF AllSorted
<1>4. g = [f EXCEPT ![Len(f)] = b]
  BY DEF Grown
<1> HIDE DEF b, g
<1>5. /\ DOMAIN g = 1..Len(f) /\ g # <<>> /\ Len(g) = Len(f) /\ g[Len(f)] = b
      /\ \A c \in 1..Len(f) : c # Len(f) => g[c] = f[c]
  <2>1. g \in Seq(Seq(S)) /\ g # <<>>
    BY ArrivedGrows DEF g
  <2>2. /\ DOMAIN g = 1..Len(f) /\ g[Len(f)] = b
        /\ \A c \in 1..Len(f) : c # Len(f) => g[c] = f[c]
    BY <1>1, <1>4
  <2>3. Len(g) = Len(f)
    BY <2>1, <2>2, LenProperties
  <2> QED
    BY <2>1, <2>2, <2>3
<1>6. AllSorted(g)
  BY <1>1, <1>3, <1>5 DEF AllSorted
<1>7. Newest(g) = b
  BY <1>5 DEF Newest
<1> QED
  BY <1>1, <1>2, <1>6, <1>7 DEF g

LEMMA SortedStays ==
    ASSUME NEW S, NEW f \in Seq(Seq(S)), NEW n \in Nat, AllSorted(f)
    PROVE  /\ AllSorted(Cat(f, Empties(n)))
           /\ Range(Newest(Cat(f, Empties(n)))) \subseteq Range(Newest(f))
<1> DEFINE e == Empties(n)
           g == f \o e
<1>1. e \in Seq(Seq(S)) /\ Len(e) = n /\ \A c \in 1..n : e[c] = <<>>
  <2>1. <<>> \in Seq(S)
    OBVIOUS
  <2> QED
    BY <2>1 DEF Empties
<1> HIDE DEF e
<1>2. /\ g \in Seq(Seq(S)) /\ Len(g) = Len(f) + n /\ Len(f) \in Nat
      /\ DOMAIN g = 1..Len(g) /\ DOMAIN f = 1..Len(f)
  <2>1. g \in Seq(Seq(S)) /\ Len(g) = Len(f) + n
    BY <1>1, ConcatProperties
  <2> HIDE DEF g
  <2> QED
    BY <2>1, LenProperties
<1>3. \A c \in 1..Len(f) : g[c] = f[c]
  BY <1>1
<1>4. \A c \in 1..n : g[Len(f) + c] = <<>>
  BY <1>1
<1> HIDE DEF g
<1>5. AllSorted(g)
  <2> SUFFICES ASSUME NEW c \in 1..Len(g) PROVE Sorted(g[c])
    BY <1>2 DEF AllSorted
  <2>1. CASE c <= Len(f)
    <3>1. c \in 1..Len(f)
      BY <1>2, <2>1
    <3> QED
      BY <1>2, <1>3, <3>1 DEF AllSorted
  <2>2. CASE c > Len(f)
    <3>1. c - Len(f) \in 1..n /\ Len(f) + (c - Len(f)) = c
      BY <1>2, <2>2
    <3> QED
      BY <1>4, <3>1, SortedEmpty
  <2> QED
    BY <1>2, <2>1, <2>2
<1>6. Range(Newest(g)) \subseteq Range(Newest(f))
  <2>1. CASE n = 0
    <3>1. Len(g) = Len(f)
      BY <1>2, <2>1
    <3>2. g = f
      BY <1>2, <1>3, <3>1, SeqEqual
    <3> QED
      BY <3>2
  <2>2. CASE n # 0
    <3>1. n \in 1..n /\ Len(g) = Len(f) + n /\ g # <<>>
      BY <1>2, <2>2
    <3>2. Newest(g) = <<>>
      BY <1>4, <3>1 DEF Newest
    <3> QED
      BY <3>2, RangeEmpty
  <2> QED
    BY <2>1, <2>2
<1>7. Cat(f, Empties(n)) = g
  BY DEF g, e, Cat
<1> QED
  BY <1>5, <1>6, <1>7

\* What a thread stamps next comes after all it has given.
LEMMA HeldIsLast ==
    ASSUME ShipInv, InOrder, [Next]_vars
    PROVE  \A w \in Writers : \A r \in given' :
              held'[w] # None /\ r.by = w => r.at < held'[w].at
<1> SUFFICES ASSUME NEW w \in Writers, NEW r \in given', held'[w] # None, r.by = w
             PROVE  r.at < held'[w].at
  OBVIOUS
<1>1. \A v \in Writers : \A q \in given : held[v] # None /\ q.by = v => q.at < held[v].at
  BY DEF InOrder
<1>2. ASSUME NEW v \in Writers, Push(v) PROVE r.at < held'[w].at
  <2>1. /\ held' = [held EXCEPT ![v] = None] /\ given' = given \cup {held[v]}
        /\ held \in [Writers -> Records \cup {None}] /\ held[v] # None
    BY <1>2 DEF Push, ShipInv, TypeOK
  <2>2. v # w /\ held'[w] = held[w]
    BY <2>1
  <2>3. held[v].by = v
    BY <2>1 DEF ShipInv, StampsUnique
  <2>4. r \in given
    BY <2>1, <2>2, <2>3
  <2> QED
    BY <1>1, <2>2, <2>4
<1>3. ASSUME NEW v \in Writers, Stamp(v) PROVE r.at < held'[w].at
  <2>1. /\ held' = [held EXCEPT ![v] = [by |-> v, at |-> clock + 1]] /\ given' = given
        /\ held \in [Writers -> Records \cup {None}] /\ clock \in Nat
    BY <1>3 DEF Stamp, history, ShipInv, TypeOK
  <2>2. CASE v = w
    <3>1. held'[w].at = clock + 1
      BY <2>1, <2>2
    <3>2. r.at \in Nat /\ r.at <= clock
      BY <2>1 DEF ShipInv, StampsUnique, TypeOK, Records
    <3> QED
      BY <2>1, <3>1, <3>2
  <2>3. CASE v # w
    BY <1>1, <2>1, <2>3
  <2> QED
    BY <2>2, <2>3
<1>4. CASE UNCHANGED <<clock, held>> /\ MovesOn
  BY <1>1, <1>4 DEF MovesOn
<1> QED
  BY <1>2, <1>3, <1>4, ClockAndHeld, NextMoves

\* The part of InOrder that is about the records on their way.
WayInOrder ==
    /\ AllSorted(far) /\ Sorted(wire) /\ Sorted(hand) /\ Sorted(data)
    /\ Before(Newest(far), wire) /\ Before(Newest(far), hand) /\ Before(Newest(far), data)
    /\ Before(wire, hand) /\ Before(wire, data) /\ Before(hand, data)

\* To drop records, or to move them up, keeps the order.
LEMMA BeforeLess ==
    ASSUME NEW s, NEW t, NEW u, NEW v, Before(s, t),
           Range(u) \subseteq Range(s), Range(v) \subseteq Range(t)
    PROVE  Before(u, v)
BY DEF Before

LEMMA WayOfPush ==
    ASSUME ShipInv, InOrder, WayInOrder, NEW w \in Writers, Push(w) PROVE WayInOrder'
<1> DEFINE r == held[w]
           t == <<r>>
<1>1. /\ r \in Records /\ data \in Seq(Records) /\ r # None
      /\ data' = Append(data, r) /\ UNCHANGED <<hand, wire, far>>
  BY DEF Push, ShipInv, TypeOK, thrVars, farVars
<1>2. t \in Seq(Records) /\ Range(t) = {r} /\ Sorted(t) /\ r.by = w
  BY <1>1, RangeSingle, SortedSingle DEF ShipInv, StampsUnique
<1>3. data' = Cat(data, t)
  BY <1>1, AppendIsConcat DEF Cat
<1>4. \A q \in Places : q.by = w => q.at < r.at
  BY <1>1 DEF ShipInv, StampsUnique, InOrder
<1> HIDE DEF r, t
<1>5. Range(data') = Range(data) \cup {r}
  BY <1>1, <1>2, <1>3, RangeCat
<1>6. \A s : Range(s) \subseteq Places => Before(s, t)
  BY <1>2, <1>4 DEF Before
<1>7. \A s : Range(s) \subseteq Places /\ Before(s, data) => Before(s, data')
  BY <1>2, <1>4, <1>5 DEF Before
<1>8. /\ Range(data) \subseteq Places /\ Range(wire) \subseteq Places
      /\ Range(hand) \subseteq Places /\ Range(Newest(far)) \subseteq Places
  <2>1. Range(Newest(far)) \subseteq Arrived
    <3>1. far \in Seq(Seq(Records))
      BY DEF ShipInv, TypeOK
    <3>2. far = <<>> \/ Len(far) \in DOMAIN far
      BY <3>1
    <3> QED
      BY <3>2, RangeEmpty DEF Newest, Arrived
  <2> QED
    BY <2>1 DEF Places
<1>9. Sorted(data')
  BY <1>1, <1>2, <1>3, <1>6, <1>8, SortedCat DEF WayInOrder
<1> QED
  BY <1>1, <1>7, <1>8, <1>9 DEF WayInOrder

LEMMA WayOfPop ==
    ASSUME ShipInv, WayInOrder, Pop PROVE WayInOrder'
<1>1. data \in Seq(Records) /\ Len(data) \in Nat /\ UNCHANGED <<wire, far>>
  BY DEF Pop, ShipInv, TypeOK, farVars
<1>2. PICK n \in 1..Len(data) :
          hand' = SubSeq(data, 1, n) /\ data' = SubSeq(data, n + 1, Len(data))
  BY DEF Pop
<1>3. n \in 0..Len(data)
  BY <1>1, <1>2
<1>4. /\ hand' \in Seq(Records) /\ data' \in Seq(Records) /\ data = Cat(hand', data')
      /\ Range(data) = Range(hand') \cup Range(data')
  BY <1>1, <1>2, <1>3, RangeCut, CutIsCat
<1>5. Sorted(hand') /\ Sorted(data') /\ Before(hand', data')
  BY <1>4, SortedCat DEF WayInOrder
<1>6. /\ Before(Newest(far), hand') /\ Before(Newest(far), data')
      /\ Before(wire, hand') /\ Before(wire, data')
  BY <1>4, BeforeLess DEF WayInOrder
<1> QED
  BY <1>1, <1>5, <1>6 DEF WayInOrder

\* The records rs, the first of those behind the wire, are taken.
LEMMA WayOfTaken ==
    ASSUME TypeOK, WayInOrder, NEW rs \in Seq(Records), Taken(rs) \/ UNCHANGED wire,
           Sorted(rs), Before(wire, rs), Before(Newest(far), rs), far' = far,
           Range(data') \subseteq Range(data), Sorted(data'), Before(rs, data'), hand' = <<>>
    PROVE  WayInOrder'
<1>1. wire \in Seq(Records)
  BY DEF TypeOK
<1>2. wire' = wire \/ wire' = Cat(wire, rs)
  BY DEF Taken, Cat
<1>3. Range(wire') \subseteq Range(wire) \cup Range(rs) /\ Sorted(wire')
  <2>1. Range(Cat(wire, rs)) = Range(wire) \cup Range(rs)
    BY <1>1, RangeCat
  <2>2. Sorted(wire)
    BY DEF WayInOrder
  <2>3. Sorted(Cat(wire, rs))
    BY <1>1, <2>2, SortedCat
  <2> QED
    BY <1>2, <2>1, <2>2, <2>3
<1>4. Range(hand') = {} /\ Sorted(hand')
  BY RangeEmpty, SortedEmpty
<1>5. Before(wire', hand') /\ Before(hand', data') /\ Before(Newest(far), hand')
  BY <1>4 DEF Before
<1>6. Before(Newest(far), wire') /\ Before(wire', data') /\ Before(Newest(far), data')
  BY <1>3 DEF Before, WayInOrder
<1> QED
  BY <1>3, <1>4, <1>5, <1>6 DEF WayInOrder

LEMMA WayOfSend ==
    ASSUME ShipInv, WayInOrder, Send \/ Resend PROVE WayInOrder'
<1>1. UNCHANGED <<data, far>> /\ hand \in Seq(Records)
  BY DEF Send, Resend, ShipInv, TypeOK
<1>2. CASE (Taken(hand) \/ UNCHANGED wire) /\ hand' = <<>>
  BY <1>1, <1>2, WayOfTaken DEF ShipInv, WayInOrder
<1>3. CASE UNCHANGED <<hand, wire>>
  BY <1>1, <1>3 DEF WayInOrder
<1> QED
  BY <1>2, <1>3 DEF Send, Resend

LEMMA WayOfDrainSend ==
    ASSUME ShipInv, WayInOrder, DrainSend PROVE WayInOrder'
<1> DEFINE rs == <<Head(data)>>
<1>1. /\ data \in Seq(Records) /\ data # <<>> /\ data' = Tail(data) /\ far' = far
      /\ hand' = hand /\ hand = <<>> /\ (Taken(rs) \/ UNCHANGED wire)
  BY DEF DrainSend, ShipInv, TypeOK, thrVars
<1>2. /\ Head(data) \in Records /\ data' \in Seq(Records) /\ data = Cat(rs, data')
      /\ Range(data) = {Head(data)} \cup Range(data')
  BY <1>1, RangeTail, HeadIsCat
<1>3. rs \in Seq(Records) /\ Range(rs) = {Head(data)}
  BY <1>2, RangeSingle
<1> HIDE DEF rs
<1>4. Sorted(rs) /\ Sorted(data') /\ Before(rs, data')
  BY <1>2, <1>3, SortedCat DEF WayInOrder
<1>5. Before(wire, rs) /\ Before(Newest(far), rs)
  BY <1>2, <1>3, BeforeLess DEF WayInOrder
<1> QED
  BY <1>1, <1>2, <1>3, <1>4, <1>5, WayOfTaken DEF ShipInv

LEMMA WayOfDrainLine ==
    ASSUME ShipInv, WayInOrder, DrainLine PROVE WayInOrder'
<1> DEFINE rs == <<Head(data)>>
<1>1. /\ data \in Seq(Records) /\ data # <<>> /\ data' = Tail(data) /\ UNCHANGED <<wire, far>>
      /\ hand \in Seq(Records) /\ hand' = Append(hand, Head(data))
  BY DEF DrainLine, ShipInv, TypeOK, farVars
<1>2. /\ Head(data) \in Records /\ data' \in Seq(Records) /\ data = Cat(rs, data')
      /\ Range(data) = {Head(data)} \cup Range(data')
  BY <1>1, RangeTail, HeadIsCat
<1>3. rs \in Seq(Records) /\ Range(rs) = {Head(data)} /\ hand' = Cat(hand, rs)
  BY <1>1, <1>2, RangeSingle, AppendIsConcat DEF Cat
<1> HIDE DEF rs
<1>4. Sorted(rs) /\ Sorted(data') /\ Before(rs, data')
  BY <1>2, <1>3, SortedCat DEF WayInOrder
<1>5. Before(wire, rs) /\ Before(Newest(far), rs) /\ Before(hand, rs)
  BY <1>2, <1>3, BeforeLess DEF WayInOrder
<1>6. Range(hand') = Range(hand) \cup Range(rs) /\ Sorted(hand')
  <2>1. Range(Cat(hand, rs)) = Range(hand) \cup Range(rs)
    BY <1>1, <1>3, RangeCat
  <2>2. Sorted(hand)
    BY DEF WayInOrder
  <2>3. Sorted(Cat(hand, rs))
    BY <1>1, <1>3, <1>4, <1>5, <2>2, SortedCat
  <2> QED
    BY <1>3, <2>1, <2>3
<1>7. Before(Newest(far), hand') /\ Before(wire, hand') /\ Before(hand', data')
  BY <1>2, <1>4, <1>5, <1>6 DEF Before, WayInOrder
<1>8. Before(Newest(far), data') /\ Before(wire, data')
  BY <1>2, BeforeLess DEF WayInOrder
<1> QED
  BY <1>1, <1>4, <1>6, <1>7, <1>8 DEF WayInOrder

\* The newest connection or file gets rs, which is no longer behind it.
LEMMA WayOfBringing ==
    ASSUME NEW f \in Seq(Seq(Records)), f # <<>>, AllSorted(f),
           NEW rs \in Seq(Records), Sorted(rs), Before(Newest(f), rs), far' = Grown(f, rs),
           Sorted(wire'), Sorted(hand'), Sorted(data'),
           Before(wire', hand'), Before(wire', data'), Before(hand', data'),
           Before(Newest(f), wire'), Before(Newest(f), hand'), Before(Newest(f), data'),
           Before(rs, wire'), Before(rs, hand'), Before(rs, data')
    PROVE  WayInOrder'
<1>1. /\ AllSorted(Grown(f, rs))
      /\ Range(Newest(Grown(f, rs))) = Range(Newest(f)) \cup Range(rs)
  BY SortedGrows
<1>2. AllSorted(far') /\ Range(Newest(far')) = Range(Newest(f)) \cup Range(rs)
  BY <1>1
<1>3. /\ Before(Newest(far'), wire') /\ Before(Newest(far'), hand')
      /\ Before(Newest(far'), data')
  BY <1>2 DEF Before
<1> QED
  BY <1>2, <1>3 DEF WayInOrder

\* New connections or files, as yet empty.
LEMMA WayOfOpening ==
    ASSUME ShipInv, WayInOrder, NEW n \in Nat
    PROVE  /\ AllSorted(Cat(far, Empties(n)))
           /\ \A s : Before(Newest(far), s) => Before(Newest(Cat(far, Empties(n))), s)
<1>1. far \in Seq(Seq(Records)) /\ AllSorted(far)
  BY DEF ShipInv, TypeOK, WayInOrder
<1>2. /\ AllSorted(Cat(far, Empties(n)))
      /\ Range(Newest(Cat(far, Empties(n)))) \subseteq Range(Newest(far))
  BY <1>1, SortedStays
<1> QED
  BY <1>2 DEF Before

LEMMA WayOfReconnect ==
    ASSUME ShipInv, WayInOrder, Reconnect PROVE WayInOrder'
<1>1. UNCHANGED <<data, wire>>
  BY DEF Reconnect
<1>2. CASE far' = Append(far, <<>>) /\ hand' = hand
  <2>1. far' = Cat(far, Empties(1))
    <3>1. Empties(1) = << <<>> >>
      BY DEF Empties
    <3>2. far \in Seq(Seq(Records)) /\ <<>> \in Seq(Records)
      BY DEF ShipInv, TypeOK
    <3> QED
      BY <1>2, <3>1, <3>2, AppendIsConcat DEF Cat
  <2>2. AllSorted(far') /\ \A s : Before(Newest(far), s) => Before(Newest(far'), s)
    BY <2>1, WayOfOpening
  <2> QED
    BY <1>1, <1>2, <2>2 DEF WayInOrder
<1>3. CASE far' = far /\ hand' = hand
  BY <1>1, <1>3 DEF WayInOrder
<1>4. CASE far' = far /\ hand' = <<>>
  <2>1. Range(hand') = {} /\ Sorted(hand')
    BY <1>4, RangeEmpty, SortedEmpty
  <2>2. Before(Newest(far), hand') /\ Before(wire, hand') /\ Before(hand', data)
    BY <2>1 DEF Before
  <2> QED
    BY <1>1, <1>4, <2>1, <2>2 DEF WayInOrder
<1> QED
  BY <1>2, <1>3, <1>4 DEF Reconnect

LEMMA WayOfWrite ==
    ASSUME ShipInv, InOrder, WayInOrder, Write PROVE WayInOrder'
<1>1. /\ UNCHANGED <<data, wire>> /\ wire = <<>> /\ hand' = <<>>
      /\ hand \in Seq(Records) /\ far \in Seq(Seq(Records))
  BY DEF Write, ShipInv, TypeOK, InOrder
<1>2. PICK n \in 0..2 :
        /\ n \in (IF fd THEN {0, 1} ELSE {1, 2})
        /\ LET files == far \o [i \in 1..n |-> <<>>]
           IN  \/ far' = [files EXCEPT ![Len(files)] = @ \o hand] /\ broken' = broken
               \/ far' = files /\ broken' = TRUE
  BY DEF Write
<1> DEFINE files == Cat(far, Empties(n))
<1>3. n \in Nat
  BY <1>2
<1>4. far' = Grown(files, hand) \/ far' = files
  BY <1>2 DEF Cat, Empties, Grown
<1>5. files \in Seq(Seq(Records)) /\ files # <<>>
  <2>1. far # <<>> \/ n # 0
    BY <1>2 DEF ShipInv, TypeOK
  <2> QED
    BY <1>1, <1>3, <2>1, ArrivedStays
<1>6. AllSorted(files) /\ \A s : Before(Newest(far), s) => Before(Newest(files), s)
  BY <1>3, WayOfOpening
<1> HIDE DEF files
<1>7. /\ Range(hand') = {} /\ Range(wire') = {} /\ Range(wire) = {}
      /\ Sorted(hand') /\ Sorted(wire') /\ Sorted(data')
  BY <1>1, RangeEmpty, SortedEmpty DEF WayInOrder
<1>8. /\ Before(wire', hand') /\ Before(wire', data') /\ Before(hand', data')
      /\ Before(hand, wire') /\ Before(hand, hand')
      /\ Before(Newest(files), wire') /\ Before(Newest(files), hand')
  BY <1>7 DEF Before
<1>9. /\ Before(Newest(files), hand) /\ Before(Newest(files), data') /\ Before(hand, data')
      /\ Sorted(hand)
  BY <1>1, <1>6 DEF WayInOrder
<1>10. CASE far' = files
  BY <1>6, <1>7, <1>8, <1>9, <1>10 DEF WayInOrder
<1>11. CASE far' = Grown(files, hand)
  BY <1>1, <1>5, <1>6, <1>7, <1>8, <1>9, <1>11, WayOfBringing
<1> QED
  BY <1>4, <1>10, <1>11

LEMMA WayOfDrainEnd ==
    ASSUME ShipInv, InOrder, WayInOrder, DrainEnd PROVE WayInOrder'
<1>1. UNCHANGED <<data, wire>> /\ hand' = <<>> /\ hand \in Seq(Records)
  BY DEF DrainEnd, ShipInv, TypeOK
<1>2. Range(hand') = {} /\ Sorted(hand') /\ Sorted(wire') /\ Sorted(data') /\ Sorted(hand)
  BY <1>1, RangeEmpty, SortedEmpty DEF WayInOrder
<1>3. /\ Before(wire', hand') /\ Before(hand', data') /\ Before(hand, hand')
      /\ Before(Newest(far), hand')
  BY <1>2 DEF Before
<1>4. /\ Before(wire', data') /\ Before(hand, data') /\ Before(Newest(far), hand)
      /\ Before(Newest(far), wire') /\ Before(Newest(far), data')
  BY <1>1 DEF WayInOrder
<1>5. CASE kind = "file" /\ fd /\ far' = [far EXCEPT ![Len(far)] = @ \o hand]
  <2>1. far \in Seq(Seq(Records)) /\ far # <<>> /\ far' = Grown(far, hand) /\ AllSorted(far)
    BY <1>5 DEF Grown, Cat, ShipInv, TypeOK, WayInOrder
  <2>2. Before(hand, wire')
    <3>1. Range(wire') = {}
      BY <1>1, <1>5, RangeEmpty DEF InOrder
    <3> QED
      BY <3>1 DEF Before
  <2> QED
    BY <1>1, <1>2, <1>3, <1>4, <2>1, <2>2, WayOfBringing
<1>6. CASE far' = far
  BY <1>2, <1>3, <1>4, <1>6 DEF WayInOrder
<1> QED
  BY <1>5, <1>6 DEF DrainEnd

LEMMA WayOfDeliver ==
    ASSUME ShipInv, WayInOrder, kind = "flume", Deliver PROVE WayInOrder'
<1>1. UNCHANGED <<data, hand>> /\ wire \in Seq(Records) /\ far \in Seq(Seq(Records))
  BY DEF Deliver, ShipInv, TypeOK, thrVars
<1>2. /\ 1 \in DOMAIN wire
      /\ far' = [far EXCEPT ![Len(far)] = Append(@, wire[1])]
      /\ wire' = RemoveAt(wire, 1)
  BY DEF Deliver
<1>3. wire # <<>> /\ far # <<>>
  <2>1. wire # <<>>
    BY <1>1, <1>2
  <2> QED
    BY <2>1 DEF ShipInv, TypeOK
<1> DEFINE rs == <<Head(wire)>>
           last == far[Len(far)]
<1>4. /\ Head(wire) = wire[1] /\ Head(wire) \in Records /\ Tail(wire) \in Seq(Records)
      /\ wire = Cat(rs, Tail(wire)) /\ Range(wire) = {Head(wire)} \cup Range(Tail(wire))
  BY <1>1, <1>3, RangeTail, HeadIsCat
<1>5. rs \in Seq(Records) /\ Range(rs) = {Head(wire)}
  BY <1>4, RangeSingle
<1>6. wire' = Tail(wire)
  <2>1. SubSeq(wire, 1, 0) = <<>> /\ Tail(wire) = SubSeq(wire, 2, Len(wire))
    BY <1>1, <1>3, SubSeqEmpty, TailIsSubSeq
  <2>2. wire' = SubSeq(wire, 1, 0) \o SubSeq(wire, 2, Len(wire))
    BY <1>2 DEF RemoveAt
  <2> QED
    BY <1>4, <2>1, <2>2, ConcatEmptySeq
<1>7. far' = Grown(far, rs)
  <2>1. last \in Seq(Records)
    BY <1>1, <1>3
  <2>2. Append(last, Head(wire)) = Cat(last, rs)
    BY <1>4, <2>1, AppendIsConcat DEF Cat
  <2> QED
    BY <1>2, <1>4, <2>2 DEF Grown
<1> HIDE DEF rs
<1>8. Sorted(rs) /\ Sorted(wire') /\ Before(rs, wire')
  BY <1>4, <1>5, <1>6, SortedCat DEF WayInOrder
<1>9. /\ Before(wire', hand') /\ Before(wire', data') /\ Before(Newest(far), wire')
      /\ Before(rs, hand') /\ Before(rs, data') /\ Before(Newest(far), rs)
  BY <1>1, <1>4, <1>5, <1>6 DEF Before, WayInOrder
<1>10. /\ AllSorted(far) /\ Sorted(hand') /\ Sorted(data') /\ Before(hand', data')
       /\ Before(Newest(far), hand') /\ Before(Newest(far), data')
  BY <1>1 DEF WayInOrder
<1> QED
  BY <1>1, <1>3, <1>5, <1>7, <1>8, <1>9, <1>10, WayOfBringing

LEMMA WayOfBreak ==
    ASSUME ShipInv, WayInOrder, Break PROVE WayInOrder'
<1>1. /\ UNCHANGED <<data, hand>> /\ wire' = <<>>
      /\ wire \in Seq(Records) /\ far \in Seq(Seq(Records)) /\ far # <<>>
  BY DEF Break, ShipInv, TypeOK, thrVars
<1>2. PICK n \in 0..Len(wire) : far' = [far EXCEPT ![Len(far)] = @ \o SubSeq(wire, 1, n)]
  BY DEF Break
<1> DEFINE rs == SubSeq(wire, 1, n)
           rest == SubSeq(wire, n + 1, Len(wire))
<1>3. /\ rs \in Seq(Records) /\ rest \in Seq(Records)
      /\ Range(rs) \subseteq Range(wire) /\ wire = Cat(rs, rest)
  BY <1>1, <1>2, RangeCut, CutIsCat
<1>4. far' = Grown(far, rs)
  BY <1>2 DEF Grown, Cat
<1> HIDE DEF rs, rest
<1>5. Sorted(rs)
  BY <1>3, SortedCat DEF WayInOrder
<1>6. Range(wire') = {} /\ Sorted(wire')
  BY <1>1, RangeEmpty, SortedEmpty
<1>7. /\ Before(wire', hand') /\ Before(wire', data')
      /\ Before(Newest(far), wire') /\ Before(rs, wire')
  BY <1>6 DEF Before
<1>8. /\ AllSorted(far) /\ Sorted(hand') /\ Sorted(data') /\ Before(hand', data')
      /\ Before(Newest(far), hand') /\ Before(Newest(far), data')
  BY <1>1 DEF WayInOrder
<1>9. Before(rs, hand') /\ Before(rs, data') /\ Before(Newest(far), rs)
  BY <1>1, <1>3, BeforeLess DEF WayInOrder
<1> QED
  BY <1>1, <1>3, <1>4, <1>5, <1>6, <1>7, <1>8, <1>9, WayOfBringing

LEMMA WayOfGone ==
    ASSUME WayInOrder, Gone, far' = far PROVE WayInOrder'
<1>1. data' = <<>> /\ hand' = <<>> /\ (wire' = <<>> \/ wire' = wire)
  BY DEF Gone
<1>2. /\ Range(data') = {} /\ Range(hand') = {} /\ Range(wire') \subseteq Range(wire)
      /\ Sorted(data') /\ Sorted(hand') /\ Sorted(wire')
  BY <1>1, RangeEmpty, SortedEmpty DEF WayInOrder
<1>3. /\ Before(wire', hand') /\ Before(wire', data') /\ Before(hand', data')
      /\ Before(Newest(far), hand') /\ Before(Newest(far), data')
  BY <1>2 DEF Before
<1>4. Before(Newest(far), wire')
  BY <1>2 DEF Before, WayInOrder
<1> QED
  BY <1>2, <1>3, <1>4 DEF WayInOrder

LEMMA OrderNext ==
    ASSUME ShipInv, InOrder, [Next]_vars PROVE InOrder'
<1> USE DEF thrVars, farVars, history
<1>1. kind' = kind
  BY DEF Next, ThreadStep, vars, Stamp, Push, PushCrash, Pop, Send, Reconnect, Resend,
         Rotate, Write, WriteCrash, Drain, DrainSend, DrainLine, DrainEnd, Deliver, Break,
         Expire, Stop, Free, Kill
<1>2. kind' = "file" => wire' = <<>>
  <2> SUFFICES ASSUME kind = "file" PROVE wire' = <<>>
    BY <1>1
  <2>1. wire = <<>>
    BY DEF InOrder
  <2> QED
    BY <2>1 DEF Next, ThreadStep, vars, Stamp, Push, PushCrash, Pop, Send, Reconnect, Resend,
         Rotate, Write, WriteCrash, Drain, DrainSend, DrainLine, DrainEnd, Deliver, Break,
         Expire, Stop, Free, Kill, Gone, Taken, Refused, ShipInv, TypeOK
<1>3. \A w \in Writers : \A r \in given' :
          held'[w] # None /\ r.by = w => r.at < held'[w].at
  BY HeldIsLast
<1>4. ASSUME kind # "kafka" PROVE WayInOrder'
  <2>1. WayInOrder
    BY <1>4 DEF InOrder, WayInOrder, AllSorted
  <2>2. ASSUME NEW w \in Writers, Push(w) PROVE WayInOrder'
    BY <2>1, <2>2, WayOfPush
  <2>3. CASE (\E w \in Writers : PushCrash(w)) \/ WriteCrash \/ Kill
    <3>1. Gone /\ far' = far
      BY <2>3 DEF PushCrash, WriteCrash, Kill
    <3> QED
      BY <2>1, <3>1, WayOfGone
  <2>4. CASE \/ \E w \in Writers : Stamp(w)
             \/ Rotate \/ Drain \/ Stop \/ Free \/ UNCHANGED vars
    <3>1. UNCHANGED <<data, hand, wire, far>>
      BY <2>4 DEF Stamp, Rotate, Drain, Stop, Free, vars
    <3> QED
      BY <2>1, <3>1 DEF WayInOrder
  <2>5. CASE Pop \/ Send \/ Reconnect \/ Resend \/ Write
    BY <2>1, <2>5, WayOfPop, WayOfSend, WayOfReconnect, WayOfWrite
  <2>6. CASE DrainSend \/ DrainLine \/ DrainEnd
    BY <2>1, <2>6, WayOfDrainSend, WayOfDrainLine, WayOfDrainEnd
  <2>7. CASE Break
    BY <2>1, <2>7, WayOfBreak
  <2>8. CASE Deliver
    <3>1. kind = "flume"
      <4>1. wire # <<>>
        BY <2>8 DEF Deliver, ShipInv, TypeOK
      <4> QED
        BY <1>4, <4>1 DEF InOrder, ShipInv, TypeOK
    <3> QED
      BY <2>1, <2>8, <3>1, WayOfDeliver
  <2>9. ~Expire
    BY <1>4 DEF Expire
  <2> QED
    BY <2>2, <2>3, <2>4, <2>5, <2>6, <2>7, <2>8, <2>9 DEF Next, ThreadStep
<1>5. kind' # "kafka" => WayInOrder'
  BY <1>1, <1>4
<1> QED
  BY <1>2, <1>3, <1>5 DEF InOrder, WayInOrder, AllSorted

\* The records of one doit thread arrive in the order of their stamps, in every
\* connection to the flume server and in every file, whatever was sent again.
THEOREM OrderKept == Spec => []WriterOrder
<1>1. Init => ShipInv /\ InOrder
  <2> SUFFICES ASSUME Init PROVE ShipInv /\ InOrder
    OBVIOUS
  <2>1. ShipInv
    BY InitShip
  <2>2. /\ wire = <<>> /\ hand = <<>> /\ data = <<>> /\ given = {}
        /\ far = <<>> \/ far = << <<>> >>
    BY DEF Init
  <2>3. Newest(far) = <<>> /\ \A c \in DOMAIN far : far[c] = <<>>
    BY <2>2 DEF Newest
  <2>4. \A s, t : Range(s) = {} => Before(s, t)
    BY DEF Before
  <2> QED
    BY <2>1, <2>2, <2>3, <2>4, RangeEmpty, SortedEmpty DEF InOrder
<1>2. ShipInv /\ InOrder /\ [Next]_vars => ShipInv' /\ InOrder'
  BY NextShip, OrderNext
<1>3. InOrder => WriterOrder
  BY DEF InOrder, WriterOrder
<1> QED
  BY <1>1, <1>2, <1>3, PTL DEF Spec
=============================================================================
