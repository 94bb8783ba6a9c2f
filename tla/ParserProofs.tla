------------------------------ MODULE ParserProofs -------------------------------
(* Theorems about the message parsers, for every set of streams that follow  *)
(* the grammars of their protocols, and every way of cutting them.           *)
EXTENDS Parsers, FiniteSetTheorems, NaturalsInduction, WellFoundedInduction, TLAPS

-------------------------------------------------------------------------------
(* Streams: where units and messages lie.                                  *)

\* A non-empty set of naturals has a least element.
LEMMA LeastNumber ==
    ASSUME NEW T, T \subseteq Nat, T # {}
    PROVE  \E x \in T : \A y \in T : x <= y
  <1>1. PICK x \in T : \A y \in T : ~(<<y, x>> \in OpToRel(<, Nat))
    BY NatLessThanWellFounded, WFMin
  <1>2. \A y \in T : ~(y < x)
    BY <1>1 DEF OpToRel
  <1> QED BY <1>2

\* A unit of a stream has a position, a length and a message.
LEMMA UnitTypes ==
    ASSUME NEW w \in Wires, NEW u \in UnitsOf(w)
    PROVE  /\ u.at \in Nat /\ u.len \in Nat /\ u.len > 0 /\ u.n \in Nat /\ u.msg \in Nat
           /\ u.inner \subseteq Nat
  <1>1. w.units \in Seq(Unit)
    BY WireAssumption
  <1>2. PICK i \in DOMAIN w.units : u = w.units[i]
    BY DEF UnitsOf, Range
  <1>3. u \in Unit
    BY <1>1, <1>2
  <1> QED BY <1>3 DEF Unit

\* No two units overlap: the later one begins where the earlier one has ended.
LEMMA UnitsInOrder ==
    ASSUME NEW w \in Wires, NEW i \in DOMAIN w.units, NEW j \in DOMAIN w.units, i < j
    PROVE  w.units[i].at + w.units[i].len <= w.units[j].at
  <1> DEFINE U == w.units
  <1> DEFINE Bad == {b \in 1 .. Len(U) :
                        \E a \in 1 .. Len(U) : a < b /\ ~(U[a].at + U[a].len <= U[b].at)}
  <1>1. U \in Seq(Unit) /\ \A a \in 2 .. Len(U) : U[a].at = U[a - 1].at + U[a - 1].len
    BY WireAssumption DEF Follows
  <1>2. Len(U) \in Nat /\ DOMAIN U = 1 .. Len(U)
    BY <1>1
  <1>3. \A a \in 1 .. Len(U) : U[a].at \in Nat /\ U[a].len \in Nat /\ U[a].len > 0
    <2> TAKE a \in 1 .. Len(U)
    <2>1. U[a] \in Unit
      BY <1>1, <1>2
    <2> QED BY <2>1 DEF Unit
  <1> HIDE DEF U
  <1>4. ASSUME Bad # {} PROVE FALSE
    <2> Bad \subseteq Nat
      BY <1>2
    <2>1. PICK b \in Bad : \A c \in Bad : b <= c
      BY <1>4, LeastNumber
    <2>2. PICK a \in 1 .. Len(U) : a < b /\ ~(U[a].at + U[a].len <= U[b].at)
      OBVIOUS
    <2>3. b \in 2 .. Len(U) /\ b - 1 \in 1 .. Len(U) /\ b - 1 \notin Bad
      BY <1>2, <2>1, <2>2
    <2>4. U[b].at = U[b - 1].at + U[b - 1].len
      BY <1>1, <2>3
    <2>5. CASE a = b - 1
      BY <1>3, <2>2, <2>3, <2>4, <2>5
    <2>6. CASE a # b - 1
      <3>1. a < b - 1
        BY <1>2, <2>2, <2>3, <2>6
      <3>2. U[a].at + U[a].len <= U[b - 1].at
        BY <1>2, <1>3, <2>2, <2>3, <3>1
      <3>3. a \in 1 .. Len(U) /\ b \in 1 .. Len(U) /\ b - 1 \in 1 .. Len(U)
        BY <2>3
      <3>4. /\ U[a].at \in Nat /\ U[a].len \in Nat /\ U[b].at \in Nat
            /\ U[b - 1].at \in Nat /\ U[b - 1].len \in Nat
        BY <1>3, <3>3
      <3> QED BY <2>2, <2>4, <3>2, <3>4
    <2> QED BY <2>5, <2>6
  <1> QED BY <1>2, <1>4 DEF U

\* Units cover the stream without holes, and a position tells the unit.
LEMMA UnitPositions ==
    ASSUME NEW w \in Wires
    PROVE  /\ TotalOf(w) \in Nat
           /\ \E u \in UnitsOf(w) : u.at = 0
           /\ \A u \in UnitsOf(w) :
                 /\ u.at + u.len <= TotalOf(w)
                 /\ u.at + u.len = TotalOf(w) \/ \E v \in UnitsOf(w) : v.at = u.at + u.len
           /\ \A u, v \in UnitsOf(w) : /\ u.at = v.at => u = v
                                       /\ u.at < v.at => u.at + u.len <= v.at
  <1> DEFINE U == w.units
  <1>1. /\ U \in Seq(Unit) /\ U # <<>> /\ U[1].at = 0
        /\ \A a \in 2 .. Len(U) : U[a].at = U[a - 1].at + U[a - 1].len
    BY WireAssumption DEF Follows
  <1>2. Len(U) \in Nat /\ Len(U) # 0 /\ DOMAIN U = 1 .. Len(U)
    BY <1>1
  <1>3. \A a \in 1 .. Len(U) : U[a].at \in Nat /\ U[a].len \in Nat /\ U[a].len > 0
    <2> TAKE a \in 1 .. Len(U)
    <2>1. U[a] \in Unit
      BY <1>1, <1>2
    <2> QED BY <2>1 DEF Unit
  <1>4. \A i, j \in 1 .. Len(U) : i < j => U[i].at + U[i].len <= U[j].at
    BY <1>2, UnitsInOrder
  <1>5. TotalOf(w) = U[Len(U)].at + U[Len(U)].len
    BY DEF TotalOf
  <1>6. \A u : u \in UnitsOf(w) <=> \E i \in 1 .. Len(U) : u = U[i]
    BY <1>2 DEF UnitsOf, Range
  <1> HIDE DEF U
  <1>7. TotalOf(w) \in Nat /\ \E u \in UnitsOf(w) : u.at = 0
    <2>1. U[1] \in UnitsOf(w)
      BY <1>2, <1>6
    <2>2. Len(U) \in 1 .. Len(U)
      BY <1>2
    <2> QED BY <1>1, <1>3, <1>5, <2>1, <2>2
  <1>8. ASSUME NEW u \in UnitsOf(w)
        PROVE  /\ u.at + u.len <= TotalOf(w)
               /\ u.at + u.len = TotalOf(w) \/ \E v \in UnitsOf(w) : v.at = u.at + u.len
    <2>1. PICK i \in 1 .. Len(U) : u = U[i]
      BY <1>6
    <2>2. CASE i = Len(U)
      BY <1>3, <1>5, <2>1, <2>2
    <2>3. CASE i # Len(U)
      <3>1. i + 1 \in 2 .. Len(U) /\ i + 1 \in 1 .. Len(U) /\ i = (i + 1) - 1 /\ i < Len(U)
        <4>1. Len(U) \in Nat
          BY <1>2
        <4>2. i \in 1 .. Len(U) /\ i # Len(U)
          BY <2>3
        <4> QED BY <4>1, <4>2
      <3>2. U[i + 1].at = U[(i + 1) - 1].at + U[(i + 1) - 1].len
        BY <1>1, <3>1
      <3>4. U[i + 1] \in UnitsOf(w) /\ U[i + 1].at = u.at + u.len
        BY <1>6, <2>1, <3>1, <3>2
      <3>3. U[i].at + U[i].len <= U[Len(U)].at
        BY <1>2, <1>4, <3>1
      <3> QED BY <1>2, <1>3, <1>5, <2>1, <3>3, <3>4
    <2> QED BY <2>2, <2>3
  <1>9. ASSUME NEW u \in UnitsOf(w), NEW v \in UnitsOf(w)
        PROVE  (u.at = v.at => u = v) /\ (u.at < v.at => u.at + u.len <= v.at)
    <2>1. PICK i \in 1 .. Len(U) : u = U[i]
      BY <1>6
    <2>2. PICK j \in 1 .. Len(U) : v = U[j]
      BY <1>6
    <2>3. CASE i = j
      BY <1>3, <2>1, <2>2, <2>3
    <2>4. CASE i < j
      BY <1>3, <1>4, <2>1, <2>2, <2>4
    <2>5. CASE j < i
      BY <1>3, <1>4, <2>1, <2>2, <2>5
    <2> QED BY <1>2, <2>3, <2>4, <2>5
  <1> QED BY <1>7, <1>8, <1>9

\* A message reaches from its first unit to the end of its last one.
LEMMA MessageBounds ==
    ASSUME NEW w \in Wires, NEW k \in DOMAIN MessagesOf(w)
    PROVE  \E f, l \in UnitsOf(w) :
              /\ f.msg = k /\ l.msg = k /\ MessagesOf(w)[k] = <<f.at, l.at + l.len>>
              /\ \A u \in UnitsOf(w) : u.msg = k => f.at <= u.at /\ u.at <= l.at
  <1> DEFINE own == {u \in UnitsOf(w) : u.msg = k}
             f == CHOOSE u \in own : \A v \in own : u.at <= v.at
             l == CHOOSE u \in own : \A v \in own : v.at <= u.at
  <1>1. k \in {u.msg : u \in UnitsOf(w)} \ {0} /\ MessagesOf(w)[k] = <<f.at, l.at + l.len>>
    BY DEF MessagesOf
  <1>2. own # {}
    BY <1>1
  <1>3. \A u \in own : u.at \in Nat /\ u.at <= TotalOf(w)
    BY UnitTypes, UnitPositions
  <1>4. TotalOf(w) \in Nat
    BY UnitPositions
  <1>5. \E u \in own : \A v \in own : u.at <= v.at
    <2> DEFINE T == {u.at : u \in own}
    <2>1. T \subseteq Nat /\ T # {}
      BY <1>2, <1>3
    <2> HIDE DEF T
    <2>2. PICK x \in T : \A y \in T : x <= y
      BY <2>1, LeastNumber
    <2> QED BY <2>2 DEF T
  <1>6. \E u \in own : \A v \in own : v.at <= u.at
    <2> DEFINE T == {TotalOf(w) - u.at : u \in own}
    <2>1. T \subseteq Nat /\ T # {}
      BY <1>2, <1>3, <1>4
    <2> HIDE DEF T
    <2>2. PICK x \in T : \A y \in T : x <= y
      BY <2>1, LeastNumber
    <2>3. PICK u \in own : x = TotalOf(w) - u.at
      BY DEF T
    <2>4. ASSUME NEW v \in own PROVE v.at <= u.at
      <3>1. TotalOf(w) - u.at <= TotalOf(w) - v.at
        BY <2>2, <2>3 DEF T
      <3> QED BY <3>1, <1>3, <1>4
    <2> QED BY <2>4
  <1>7. f \in own /\ \A v \in own : f.at <= v.at
    BY <1>5
  <1>8. l \in own /\ \A v \in own : v.at <= l.at
    BY <1>6
  <1> HIDE DEF f, l
  <1> QED BY <1>1, <1>7, <1>8

\* The stream that is followed: where message k begins, and where it ends.
Begins(k) == Messages[k][1]
Ends(k)   == Messages[k][2]

\* What the proofs use of the units of the stream.
UnitFacts ==
    /\ Total \in Nat
    /\ \A u \in Units :
          /\ u.at \in Nat /\ u.len \in Nat /\ u.len > 0 /\ u.n \in Nat /\ u.msg \in Nat
          /\ u.at + u.len <= Total
          /\ u.at + u.len = Total \/ \E v \in Units : v.at = u.at + u.len
          /\ UnitAt(u.at) = u
    /\ \A u, v \in Units : /\ u.at = v.at => u = v
                           /\ u.at < v.at => u.at + u.len <= v.at
    /\ \E u \in Units : u.at = 0

\* What the proofs use of its messages: they are intervals one after the other, and
\* the units in such an interval are those of the message.
MessageFacts ==
    /\ \A k \in DOMAIN Messages :
          /\ k \in Nat /\ k > 0
          /\ Messages[k] = <<Begins(k), Ends(k)>>
          /\ Begins(k) \in Nat /\ Ends(k) \in Nat /\ Begins(k) < Ends(k) /\ Ends(k) <= Total
          /\ \A j \in 1 .. k : j \in DOMAIN Messages
          /\ \E u \in Units : u.at = Begins(k) /\ u.msg = k
          /\ \E u \in Units : u.at + u.len = Ends(k) /\ u.msg = k
    /\ \A u \in Units : u.msg # 0 => /\ u.msg \in DOMAIN Messages
                                     /\ Begins(u.msg) <= u.at
                                     /\ u.at + u.len <= Ends(u.msg)
    /\ \A u \in Units, k \in DOMAIN Messages :
          /\ u.at < Begins(k) => u.at + u.len <= Begins(k)
          /\ u.at < Ends(k) => u.at + u.len <= Ends(k)
          /\ Begins(k) <= u.at /\ u.at < Ends(k) => u.msg = k
    /\ \A j, k \in DOMAIN Messages : j < k => Ends(j) <= Begins(k)

\* Every stream has these.
LEMMA StreamFacts ==
    ASSUME wire \in Wires
    PROVE  UnitFacts /\ MessageFacts
  <1>1. UnitFacts
    <2>1. ASSUME NEW u \in Units PROVE UnitAt(u.at) = u
      BY UnitPositions DEF UnitAt, Units
    <2>2. Total \in Nat /\ \E u \in Units : u.at = 0
      BY UnitPositions DEF Total, Units
    <2>3. ASSUME NEW u \in Units
          PROVE  u.at \in Nat /\ u.len \in Nat /\ u.len > 0 /\ u.n \in Nat /\ u.msg \in Nat
      BY UnitTypes DEF Units
    <2>4. ASSUME NEW u \in Units
          PROVE  /\ u.at + u.len <= Total
                 /\ u.at + u.len = Total \/ \E v \in Units : v.at = u.at + u.len
      BY UnitPositions DEF Units, Total
    <2>5. ASSUME NEW u \in Units, NEW v \in Units
          PROVE  (u.at = v.at => u = v) /\ (u.at < v.at => u.at + u.len <= v.at)
      BY UnitPositions DEF Units
    <2> QED BY <2>1, <2>2, <2>3, <2>4, <2>5 DEF UnitFacts
  <1>2. DOMAIN Messages = {u.msg : u \in Units} \ {0}
    BY DEF Messages, MessagesOf, Units
  <1>3. ASSUME NEW k \in DOMAIN Messages
        PROVE  /\ k \in Nat /\ k > 0
               /\ \A j \in 1 .. k : j \in DOMAIN Messages
               /\ \A u \in Units : Begins(k) <= u.at /\ u.at < Ends(k) => u.msg = k
               /\ \E f, l \in Units :
                     /\ f.msg = k /\ l.msg = k
                     /\ Messages[k] = <<f.at, l.at + l.len>>
                     /\ Begins(k) = f.at /\ Ends(k) = l.at + l.len
                     /\ \A u \in Units : u.msg = k => f.at <= u.at /\ u.at <= l.at
    <2>1. k \in Nat /\ k > 0
      BY <1>1, <1>2 DEF UnitFacts
    <2>2. PICK f \in Units, l \in Units :
              /\ f.msg = k /\ l.msg = k /\ Messages[k] = <<f.at, l.at + l.len>>
              /\ \A u \in Units : u.msg = k => f.at <= u.at /\ u.at <= l.at
      BY MessageBounds DEF Messages, Units
    <2>3. Begins(k) = f.at /\ Ends(k) = l.at + l.len
      BY <2>2 DEF Begins, Ends
    <2>4. \A j \in 1 .. k : j \in DOMAIN Messages
      BY WireAssumption DEF Messages
    <2>5. ASSUME NEW u \in Units, Begins(k) <= u.at, u.at < Ends(k) PROVE u.msg = k
      <3>1. u.at \in Nat /\ Begins(k) \in Nat /\ Ends(k) \in Nat
        BY <1>1, <2>3 DEF UnitFacts
      <3>2. u.at \in Begins(k) .. Ends(k) - 1
        BY <2>5, <3>1
      <3> QED BY <3>2, WireAssumption DEF Messages, Units, Begins, Ends
    <2> QED BY <2>1, <2>2, <2>3, <2>4, <2>5
  <1>4. ASSUME NEW u \in Units, u.msg # 0
        PROVE  u.msg \in DOMAIN Messages /\ Begins(u.msg) <= u.at /\ u.at + u.len <= Ends(u.msg)
    <2>1. u.msg \in DOMAIN Messages
      BY <1>2, <1>4
    <2>2. PICK f \in Units, l \in Units :
              /\ Begins(u.msg) = f.at /\ Ends(u.msg) = l.at + l.len
              /\ f.at <= u.at /\ u.at <= l.at
      BY <1>3, <2>1
    <2> QED BY <1>1, <2>1, <2>2 DEF UnitFacts
  <1>5. ASSUME NEW j \in DOMAIN Messages, NEW k \in DOMAIN Messages, j < k
        PROVE  Ends(j) <= Begins(k)
    <2>1. PICK l \in Units : l.msg = j /\ Ends(j) = l.at + l.len
      BY <1>3
    <2>2. PICK f \in Units : f.msg = k /\ Begins(k) = f.at
      BY <1>3
    <2>3. l.at # f.at
      BY <1>1, <1>3, <1>5, <2>1, <2>2 DEF UnitFacts
    <2>4. ~(f.at < l.at)
      <3>1. \A u, v \in Units : u.at < v.at /\ v.msg # 0 => u.msg <= v.msg
        BY WireAssumption DEF Units
      <3> QED BY <1>3, <1>5, <2>1, <2>2, <3>1
    <2> QED BY <1>1, <2>1, <2>2, <2>3, <2>4 DEF UnitFacts
  <1>6. ASSUME NEW u \in Units, NEW k \in DOMAIN Messages
        PROVE  /\ u.at < Begins(k) => u.at + u.len <= Begins(k)
               /\ u.at < Ends(k) => u.at + u.len <= Ends(k)
    <2>1. PICK f \in Units, l \in Units : Begins(k) = f.at /\ Ends(k) = l.at + l.len
      BY <1>3
    <2> QED BY <1>1, <2>1 DEF UnitFacts
  <1>7. ASSUME NEW k \in DOMAIN Messages
        PROVE  /\ Begins(k) \in Nat /\ Ends(k) \in Nat /\ Begins(k) < Ends(k) /\ Ends(k) <= Total
               /\ Messages[k] = <<Begins(k), Ends(k)>>
               /\ \E u \in Units : u.at = Begins(k) /\ u.msg = k
               /\ \E u \in Units : u.at + u.len = Ends(k) /\ u.msg = k
    <2>1. PICK f \in Units, l \in Units :
              /\ f.msg = k /\ l.msg = k
              /\ Messages[k] = <<f.at, l.at + l.len>>
              /\ Begins(k) = f.at /\ Ends(k) = l.at + l.len /\ f.at <= l.at
      BY <1>3
    <2> QED BY <1>1, <2>1 DEF UnitFacts
  <1>8. MessageFacts
    BY <1>3, <1>4, <1>5, <1>6, <1>7 DEF MessageFacts
  <1> QED BY <1>1, <1>8

-------------------------------------------------------------------------------
(* The inductive invariant.                                                *)

Flags == FirstLines \cup {"ignore", "length", "chunked", "close"}
MessageRecords ==
    [there : BOOLEAN, start : Nat, end : Nat, n : Nat, received : Nat, flags : SUBSET Flags]

Types ==
    /\ sent \in Nat /\ base \in Nat /\ offset \in Nat
    /\ base <= offset /\ offset <= sent /\ sent <= Total
    /\ m \in MessageRecords /\ (~m.there => m = NoMessage)
    /\ parsing \in BOOLEAN /\ (parsing => m.there)
    /\ shipped \in Seq(Nat \X Nat)
    /\ skipInput \in BOOLEAN /\ (skipInput => wire.proto = "thrift")

\* A unit begins at o, unless this is the end of the stream.
AtUnit(o) == o = Total \/ \E u \in Units : u.at = o

\* The message that is next, or that is being read.
Current == Len(shipped) + 1

\* The messages that were handed on lie before the buffer, the others in it or
\* behind.
Handed == \A i \in 1 .. Len(shipped) : i \in DOMAIN Messages /\ shipped[i] = Messages[i]
Parted ==
    /\ \A k \in DOMAIN Messages : k >= Current => base <= Begins(k)
    /\ ~skipInput => AtUnit(base) /\ \A k \in DOMAIN Messages : k < Current => Ends(k) <= base

\* Within the current message, after its first unit, and not yet at its end.
Inside ==
    /\ Current \in DOMAIN Messages
    /\ Begins(Current) < offset /\ offset < Ends(Current)
    /\ AtUnit(offset)

\* When Parse has returned, no unread message is there as a whole.
Exhausted ==
    ~parsing =>
        IF wire.proto # "http"
        THEN \A k \in DOMAIN Messages : k >= Current => sent < Ends(k)
        ELSE m.there /\ Current \in DOMAIN Messages =>
                \/ sent < Ends(Current)
                \/ OpenEnded(Current) /\ sent <= Ends(Current)

\* redis: how many bulks are missing.
Remaining(o) == {u \in ValuesOf(wire, Current) : u.at >= o}
RedisPlace ==
    /\ state = "start"
    /\ \/ offset = base /\ m.n = 0
       \/ /\ Inside /\ base = Begins(Current)
          /\ \A u \in Units : u.at = offset => u.what # "data"
          /\ m.n > 0 /\ m.n = Cardinality(Remaining(offset))

\* mysql: which packets have been passed.
MysqlPlace ==
    \/ state = "start" /\ offset = base /\ m.flags = {} /\ m.end = 0
    \/ /\ state = "message" /\ offset = base /\ m.start = base
       /\ \E u \in Units : /\ u.at = base /\ m.n = u.len /\ u.what # "count"
                           /\ "ignore" \in m.flags <=> u.msg = 0
    \/ /\ Inside /\ base = Begins(Current) /\ m.start = base /\ m.flags = {} /\ m.end = 0
       /\ \E u \in Units : u.at = base /\ u.what = "count"
       /\ \/ state = "fields"
             /\ \A u \in Units : u.msg = Current /\ u.what = "eof" => u.at >= offset
          \/ state = "rows"
             /\ \E u \in Units : u.msg = Current /\ u.what = "eof" /\ u.at < offset

\* mysql: when Parse has returned, the packet at the head of the buffer is cut.
MysqlWaits ==
    ~parsing =>
        base = sent \/ (state = "message" /\ sent < base + m.n) \/ state \in {"fields", "rows"}

\* pgsql: outside of the rows only messages that are not handed on are passed over.
PgsqlPlace ==
    \/ /\ state = "start" /\ AtUnit(offset) /\ m.n = 0
       /\ \A k \in DOMAIN Messages : k >= Current => offset <= Begins(k)
    \/ state = "data" /\ Inside /\ m.start = Begins(Current) /\ m.there

\* thrift: a suspended direction has been followed up to the packet just ignored.
ThriftPlace ==
    IF CaptureReply
    THEN /\ ~skipInput
         /\ \/ state = "start" /\ offset = base
            \/ /\ state = "field" /\ Inside /\ base = Begins(Current)
               /\ \A u \in Units : u.at = offset => u.what \in {"field", "stop"}
    ELSE /\ state = "start" /\ offset = base
         /\ IF skipInput
            THEN /\ base = sent /\ ~parsing /\ m = NoMessage
                 /\ Len(shipped) \in DOMAIN Messages
                 /\ Begins(Len(shipped)) < sent /\ sent <= Ends(Len(shipped))
            ELSE /\ Current \in DOMAIN Messages
                 /\ base = Begins(Current) /\ sent <= Ends(Current)

\* http: the flags are those of the headers before offset.
Passed(kind) == \E u \in Units : u.msg = Current /\ u.what = kind /\ u.at < offset
HeadersRead ==
    /\ \A kind \in FirstLines : kind \in m.flags <=> In(wire, Current, kind)
    /\ "refused" \notin m.flags
    /\ \A kind \in {"chunked", "close"} : kind \in m.flags <=> Passed(kind)
    /\ "length" \in m.flags <=> Passed("content-length")
    /\ "length" \notin m.flags => m.n = 0
    /\ \A u \in Units :
          u.msg = Current /\ u.what = "content-length" /\ u.at < offset => m.n = u.n
    /\ m.received = 0

InBody ==
    IF "length" \in m.flags
    THEN \E u \in Units :
            /\ u.msg = Current /\ u.at + u.len = Ends(Current) /\ u.len = m.n
            /\ offset = u.at + m.received /\ m.received < m.n
    ELSE /\ OpenEnded(Current)
         /\ IF "close" \in m.flags THEN Ends(Current) = Total
            ELSE offset = Ends(Current) /\ m.n = 0 /\ m.received = 0

InChunk ==
    \E u \in Units : /\ u.msg = Current /\ u.what = "chunk" /\ u.len = m.n + 2
                     /\ offset = u.at + m.received /\ m.received <= m.n

HttpPlace ==
    /\ m.there => m.start = base
    /\ \/ state = "start" /\ offset = base /\ m.n = 0 /\ m.received = 0 /\ m.flags = {}
       \/ /\ m.there /\ Current \in DOMAIN Messages /\ base = Begins(Current)
          /\ base < offset
          /\ \/ /\ state = "headers" /\ Inside /\ HeadersRead
                /\ \A u \in Units : u.at = offset => u.what \in Headers \cup {"folded", "end"}
             \/ state = "body" /\ InBody
             \/ /\ state = "chunk-start" /\ Inside
                /\ \A u \in Units : u.at = offset => u.what = "size"
             \/ state = "chunk" /\ InChunk
             \/ /\ state = "final" /\ Inside
                /\ \A u \in Units : u.at = offset => u.what \in {"trailer", "final"}

Place ==
    /\ wire.proto = "redis" => RedisPlace
    /\ wire.proto = "mysql" => MysqlPlace /\ MysqlWaits
    /\ wire.proto = "pgsql" => PgsqlPlace
    /\ wire.proto = "thrift" => ThriftPlace
    /\ wire.proto = "http" => HttpPlace

Live == ended = "" /\ Types /\ Handed /\ Parted /\ Place /\ Exhausted
Settled == ended # "" /\ ShippedAsSent /\ KeepsItsPlace /\ FinShipsBegun

ParserInv == wire \in Wires /\ (Misread \/ Live \/ Settled)

-------------------------------------------------------------------------------
(* What the steps of all parsers have in common.                           *)

\* A stream does not change while it is followed.
LEMMA SameStream ==
    ASSUME wire' = wire
    PROVE  /\ Units' = Units /\ Total' = Total /\ Messages' = Messages
           /\ Misread' = Misread /\ CaptureReply' = CaptureReply
           /\ \A k : Begins(k)' = Begins(k) /\ Ends(k)' = Ends(k)
  <1>1. Units' = Units /\ Total' = Total /\ Messages' = Messages
    BY DEF Units, Total, Messages
  <1>2. \A k : Begins(k)' = Begins(k) /\ Ends(k)' = Ends(k)
    BY <1>1 DEF Begins, Ends
  <1>3. CaptureReply' = CaptureReply
    BY <1>1 DEF CaptureReply, Has
  <1>4. Misread' = Misread
    BY <1>1 DEF Misread, EmptyMultiBulk, NestedMultiBulk, LongResponse, WideResponse,
                FailedResponse, CountsBeyond, OtherBody, Has, RowsInterrupted
  <1> QED BY <1>1, <1>2, <1>3, <1>4

\* A message that is new, or that is gone, has the right type.
LEMMA MessageTypes ==
    /\ NoMessage \in MessageRecords /\ ~NoMessage.there
    /\ NoMessage.n = 0 /\ NoMessage.flags = {} /\ NoMessage.end = 0 /\ NoMessage.received = 0
    /\ \A b \in Nat : LET x == NewMessage(b) IN
          /\ x \in MessageRecords /\ x.there /\ x.start = b
          /\ x.n = 0 /\ x.flags = {} /\ x.end = 0 /\ x.received = 0
  BY DEF NoMessage, NewMessage, MessageRecords

\* A message with another number, another start, or other flags.
LEMMA MessageUpdates ==
    ASSUME NEW x \in MessageRecords, NEW v \in Nat
    PROVE  LET y == [x EXCEPT !.n = v] IN
           /\ y \in MessageRecords /\ y.there = x.there /\ y.n = v
           /\ y.start = x.start /\ y.flags = x.flags /\ y.received = x.received
  BY DEF MessageRecords

LEMMA StartUpdates ==
    ASSUME NEW x \in MessageRecords, NEW v \in Nat
    PROVE  LET y == [x EXCEPT !.start = v] IN
           y \in MessageRecords /\ y.there = x.there /\ y.n = x.n /\ y.start = v
  BY DEF MessageRecords

LEMMA FlagsUpdates ==
    ASSUME NEW x \in MessageRecords, NEW F \in SUBSET Flags
    PROVE  LET y == [x EXCEPT !.flags = F] IN
           /\ y \in MessageRecords /\ y.there = x.there /\ y.n = x.n /\ y.start = x.start
           /\ y.flags = F /\ y.received = x.received
  BY DEF MessageRecords

\* Steps that leave the buffer where it is keep what was handed on.
LEMMA KeptBase ==
    ASSUME Handed, Parted, wire' = wire, base' = base, shipped' = shipped, skipInput' = skipInput
    PROVE  Handed' /\ Parted'
  <1>1. /\ Units' = Units /\ Total' = Total /\ Messages' = Messages
        /\ \A k : Begins(k)' = Begins(k) /\ Ends(k)' = Ends(k)
    BY SameStream
  <1>2. Handed'
    BY <1>1 DEF Handed
  <1>3. Parted'
    BY <1>1 DEF Parted, Current, AtUnit
  <1> QED BY <1>2, <1>3

\* The current message is handed on as it is on the wire, and the buffer cut after it.
LEMMA ShipCurrent ==
    ASSUME wire \in Wires, Types, Handed, Parted, ~skipInput, skipInput' = skipInput,
           Current \in DOMAIN Messages, Ends(Current) <= sent, NEW more \in BOOLEAN,
           Ship(Begins(Current), Ends(Current), TRUE, more)
    PROVE  /\ Types' /\ Handed' /\ Parted' /\ wire' = wire /\ ended' = ended /\ sent' = sent
           /\ state' = "start" /\ offset' = base' /\ base' = Ends(Current)
           /\ m' = NoMessage \/ (m' = NewMessage(base') /\ more)
           /\ more => Exhausted' /\ (parsing' \/ base' = sent')
  <1>1. UnitFacts /\ MessageFacts
    BY StreamFacts
  <1>2. /\ wire' = wire /\ ended' = ended /\ sent' = sent /\ state' = "start"
        /\ base' = Ends(Current) /\ offset' = base' /\ parsing' = (more /\ Ends(Current) < sent)
        /\ shipped' = Append(shipped, <<Begins(Current), Ends(Current)>>)
        /\ m' = IF more /\ Ends(Current) < sent THEN NewMessage(Ends(Current)) ELSE NoMessage
    BY DEF Ship
  <1>3. /\ Units' = Units /\ Total' = Total /\ Messages' = Messages
        /\ \A k : Begins(k)' = Begins(k) /\ Ends(k)' = Ends(k)
    BY <1>2, SameStream
  <1>4. /\ Begins(Current) \in Nat /\ Ends(Current) \in Nat /\ Ends(Current) <= Total
        /\ Messages[Current] = <<Begins(Current), Ends(Current)>>
    BY <1>1 DEF MessageFacts
  <1>5. /\ shipped \in Seq(Nat \X Nat) /\ Len(shipped) \in Nat /\ Current = Len(shipped) + 1
        /\ sent \in Nat /\ sent <= Total
    BY DEF Types, Current
  <1>6. /\ shipped' \in Seq(Nat \X Nat) /\ Len(shipped') = Current
        /\ \A i \in 1 .. Len(shipped) : shipped'[i] = shipped[i]
        /\ shipped'[Current] = Messages[Current]
    BY <1>2, <1>4, <1>5
  <1>7. Types'
    <2>1. m' \in MessageRecords /\ (~m'.there => m' = NoMessage) /\ (parsing' => m'.there)
      BY <1>2, <1>4, MessageTypes
    <2>2. sent' \in Nat /\ base' \in Nat /\ offset' \in Nat /\ base' <= offset'
          /\ offset' <= sent' /\ sent' <= Total' /\ parsing' \in BOOLEAN
      BY <1>2, <1>3, <1>4, <1>5
    <2> QED BY <1>2, <1>6, <2>1, <2>2 DEF Types
  <1>8. Handed'
    <2> SUFFICES ASSUME NEW i \in 1 .. Len(shipped')
                 PROVE  i \in DOMAIN Messages /\ shipped'[i] = Messages[i]
      BY <1>3 DEF Handed
    <2>1. CASE i = Current
      BY <1>6, <2>1
    <2>2. CASE i # Current
      <3>1. i \in 1 .. Len(shipped)
        BY <1>5, <1>6, <2>2
      <3> QED BY <1>6, <3>1 DEF Handed
    <2> QED BY <2>1, <2>2
  <1>9. AtUnit(base')
    <2>1. PICK u \in Units : u.msg = Current /\ u.at + u.len = Ends(Current)
      BY <1>1 DEF MessageFacts
    <2> QED BY <1>1, <1>2, <2>1 DEF AtUnit, UnitFacts
  <1>10. ASSUME NEW k \in DOMAIN Messages
         PROVE  (k > Current => base' <= Begins(k)) /\ (k <= Current => Ends(k) <= base')
    <2>1. k \in Nat /\ Ends(k) \in Nat /\ Begins(k) \in Nat /\ Begins(k) < Ends(k)
      BY <1>1 DEF MessageFacts
    <2>2. CASE k = Current
      BY <1>2, <1>4, <1>5, <2>2
    <2>3. CASE k > Current
      BY <1>1, <1>2, <1>5, <2>1, <2>3 DEF MessageFacts
    <2>4. CASE k < Current
      <3>1. Ends(k) <= Begins(Current)
        BY <1>1, <2>4 DEF MessageFacts
      <3>2. Begins(Current) < Ends(Current)
        BY <1>1 DEF MessageFacts
      <3> QED BY <1>2, <1>4, <1>5, <2>1, <2>4, <3>1, <3>2
    <2> QED BY <1>5, <2>1, <2>2, <2>3, <2>4
  <1>11. Parted'
    <2>1. Current' = Current + 1
      BY <1>6 DEF Current
    <2>2. AtUnit(base)'
      BY <1>3, <1>9 DEF AtUnit
    <2>3. \A k \in DOMAIN Messages : k \in Nat
      BY <1>1 DEF MessageFacts
    <2> QED BY <1>3, <1>5, <1>10, <2>1, <2>2, <2>3 DEF Parted
  <1>12. ASSUME more PROVE Exhausted' /\ (parsing' \/ base' = sent')
    <2>1. CASE parsing'
      BY <2>1 DEF Exhausted
    <2>2. CASE ~parsing'
      <3>1. m' = NoMessage /\ sent = Ends(Current)
        <4>1. ~(Ends(Current) < sent)
          BY <1>2, <1>12, <2>2
        <4> QED BY <1>2, <1>4, <1>5, <4>1
      <3>2. ASSUME NEW k \in DOMAIN Messages, k >= Current + 1 PROVE sent < Ends(k)
        <4>1. base' <= Begins(k) /\ Begins(k) < Ends(k) /\ Begins(k) \in Nat /\ Ends(k) \in Nat
          BY <1>1, <1>5, <1>10, <3>2 DEF MessageFacts
        <4> QED BY <1>2, <1>5, <3>1, <4>1
      <3>3. Current' = Current + 1 /\ ~m'.there
        BY <1>6, <3>1, MessageTypes DEF Current
      <3>4. Exhausted'
        BY <1>2, <1>3, <3>2, <3>3 DEF Exhausted
      <3> QED BY <1>2, <3>1, <3>4
    <2> QED BY <2>1, <2>2
  <1> QED BY <1>2, <1>7, <1>8, <1>11, <1>12

\* Messages that are of no interest are cut off the buffer.
LEMMA ShipNothing ==
    ASSUME wire \in Wires, Types, Handed, Parted, ~skipInput, skipInput' = skipInput,
           NEW from, NEW end \in Nat, base <= end, end <= sent, AtUnit(end),
           \A k \in DOMAIN Messages : k >= Current => end <= Begins(k),
           Ship(from, end, FALSE, TRUE)
    PROVE  /\ Types' /\ Handed' /\ Parted' /\ wire' = wire /\ ended' = ended /\ sent' = sent
           /\ state' = "start" /\ offset' = base'
           /\ m' = NoMessage \/ m' = NewMessage(base')
           /\ Exhausted' /\ (parsing' \/ base' = sent')
  <1>1. UnitFacts /\ MessageFacts
    BY StreamFacts
  <1>2. /\ wire' = wire /\ ended' = ended /\ sent' = sent /\ state' = "start"
        /\ base' = end /\ offset' = end /\ parsing' = (end < sent) /\ shipped' = shipped
        /\ m' = IF end < sent THEN NewMessage(end) ELSE NoMessage
    BY DEF Ship
  <1>3. /\ Units' = Units /\ Total' = Total /\ Messages' = Messages
        /\ \A k : Begins(k)' = Begins(k) /\ Ends(k)' = Ends(k)
    BY <1>2, SameStream
  <1>4. Current' = Current
    BY <1>2 DEF Current
  <1>5. sent \in Nat /\ sent <= Total /\ base \in Nat /\ Current \in Nat
    BY DEF Types, Current
  <1>6. \A k \in DOMAIN Messages : /\ Begins(k) \in Nat /\ Ends(k) \in Nat
                                   /\ Begins(k) < Ends(k) /\ k \in Nat
    BY <1>1 DEF MessageFacts
  <1>7. Types'
    <2>1. m' \in MessageRecords /\ (~m'.there => m' = NoMessage) /\ (parsing' => m'.there)
      BY <1>2, MessageTypes
    <2>2. sent' \in Nat /\ base' \in Nat /\ offset' \in Nat /\ base' <= offset'
          /\ offset' <= sent' /\ sent' <= Total' /\ parsing' \in BOOLEAN
      BY <1>2, <1>3, <1>5
    <2> QED BY <1>2, <2>1, <2>2 DEF Types
  <1>8. Handed'
    BY <1>2, <1>3 DEF Handed
  <1>9. Parted'
    <2>1. AtUnit(base)'
      BY <1>2, <1>3 DEF AtUnit
    <2>2. ASSUME NEW k \in DOMAIN Messages, k < Current PROVE Ends(k) <= end
      BY <1>5, <1>6, <2>2 DEF Parted
    <2> QED BY <1>2, <1>3, <1>4, <2>1, <2>2 DEF Parted
  <1>10. Exhausted'
    <2>1. CASE parsing'
      BY <2>1 DEF Exhausted
    <2>2. CASE ~parsing'
      <3>1. ~(end < sent)
        BY <1>2, <2>2
      <3>2. m' = NoMessage /\ sent = end
        BY <1>2, <1>5, <3>1
      <3>3. ASSUME NEW k \in DOMAIN Messages, k >= Current PROVE sent < Ends(k)
        BY <1>5, <1>6, <3>2, <3>3
      <3> QED BY <1>2, <1>3, <1>4, <3>2, <3>3, MessageTypes DEF Exhausted
    <2> QED BY <2>1, <2>2
  <1>11. parsing' \/ base' = sent'
    <2>1. ~(end < sent) => base' = sent'
      BY <1>2, <1>5
    <2> QED BY <1>2, <2>1
  <1> QED BY <1>2, <1>7, <1>8, <1>9, <1>10, <1>11

\* The unit at the place of the parser, and what is known of it.
LEMMA UnitHere ==
    ASSUME wire \in Wires, Types, AtUnit(offset), offset < sent
    PROVE  /\ Here \in Units /\ Here.at = offset /\ offset + Here.len <= Total
           /\ AtUnit(offset + Here.len) /\ \A u \in Units : u.at = offset => u = Here
  <1>1. UnitFacts
    BY StreamFacts
  <1>2. PICK u \in Units : u.at = offset
    BY DEF AtUnit, Types
  <1>3. Here = u
    BY <1>1, <1>2 DEF Here, UnitFacts
  <1> QED BY <1>1, <1>2, <1>3 DEF UnitFacts, AtUnit

\* A unit that the parser finds outside of a message opens the current one, if it is
\* part of any.
LEMMA OpensHere ==
    ASSUME wire \in Wires, Types, Handed, Parted, ~skipInput, NEW u \in Units, u.at = offset, u.msg # 0,
           \A k \in DOMAIN Messages : k >= Current => offset <= Begins(k)
    PROVE  u.msg = Current /\ Current \in DOMAIN Messages /\ Begins(Current) = offset
           /\ Opens(wire, u)
  <1>1. UnitFacts /\ MessageFacts
    BY StreamFacts
  <1>2. /\ u.msg \in DOMAIN Messages /\ Begins(u.msg) <= u.at /\ u.at + u.len <= Ends(u.msg)
        /\ u.at \in Nat /\ u.len \in Nat /\ u.len > 0 /\ u.msg \in Nat
        /\ Ends(u.msg) \in Nat /\ Begins(u.msg) \in Nat
    BY <1>1 DEF UnitFacts, MessageFacts
  <1>3. Current \in Nat /\ Current > 0 /\ base \in Nat /\ base <= offset
    BY DEF Current, Types
  <1>4. u.msg >= Current
    BY <1>2, <1>3 DEF Parted
  <1>5. Begins(u.msg) = offset
    BY <1>2, <1>4
  <1>6. Current \in DOMAIN Messages
    BY <1>1, <1>2, <1>3, <1>4 DEF MessageFacts
  <1>7. ~(Current < u.msg)
    <2>1. Current < u.msg => /\ Ends(Current) <= Begins(u.msg) /\ Begins(Current) < Ends(Current)
                             /\ Begins(Current) \in Nat /\ Ends(Current) \in Nat
      BY <1>1, <1>2, <1>6 DEF MessageFacts
    <2> QED BY <1>2, <1>3, <1>5, <1>6, <2>1
  <1>8. u.msg = Current
    BY <1>2, <1>3, <1>4, <1>7
  <1>9. Opens(wire, u)
    BY <1>5 DEF Opens, Begins, Messages
  <1> QED BY <1>5, <1>6, <1>8, <1>9

\* A unit that is not complete lies before the end of every message that is not
\* handed on.
LEMMA NotThere ==
    ASSUME wire \in Wires, NEW u \in Units, NEW k \in DOMAIN Messages,
           sent \in Nat, sent < u.at + u.len, u.at < Ends(k)
    PROVE  sent < Ends(k)
  BY StreamFacts DEF UnitFacts, MessageFacts

\* The closing unit of the current message, and one that is followed by another.
LEMMA ClosingUnit ==
    ASSUME wire \in Wires, NEW u \in Units, u.msg # 0
    PROVE  /\ Closes(wire, u) <=> u.at + u.len = Ends(u.msg)
           /\ Opens(wire, u) <=> u.at = Begins(u.msg)
           /\ ~Closes(wire, u) => /\ u.at + u.len < Ends(u.msg)
                                  /\ \E v \in Units : v.at = u.at + u.len /\ v.msg = u.msg
  <1>1. UnitFacts /\ MessageFacts
    BY StreamFacts
  <1>2. Closes(wire, u) <=> u.at + u.len = Ends(u.msg)
    BY DEF Closes, Ends, Messages
  <1>3. Opens(wire, u) <=> u.at = Begins(u.msg)
    BY DEF Opens, Begins, Messages
  <1>4. /\ u.msg \in DOMAIN Messages /\ Begins(u.msg) <= u.at /\ u.at + u.len <= Ends(u.msg)
        /\ u.at \in Nat /\ u.len \in Nat /\ u.len > 0 /\ Ends(u.msg) \in Nat
        /\ Begins(u.msg) \in Nat /\ Ends(u.msg) <= Total /\ Total \in Nat
    BY <1>1 DEF UnitFacts, MessageFacts
  <1>5. ASSUME ~Closes(wire, u)
        PROVE  /\ u.at + u.len < Ends(u.msg)
               /\ \E v \in Units : v.at = u.at + u.len /\ v.msg = u.msg
    <2>1. u.at + u.len < Ends(u.msg)
      BY <1>2, <1>4, <1>5
    <2>2. PICK v \in Units : v.at = u.at + u.len
      BY <1>1, <1>4, <2>1 DEF UnitFacts
    <2>3. Begins(u.msg) <= v.at /\ v.at < Ends(u.msg)
      BY <1>4, <2>1, <2>2
    <2>4. v.msg = u.msg
      BY <1>1, <1>4, <2>3 DEF MessageFacts
    <2> QED BY <2>1, <2>2, <2>4
  <1> QED BY <1>2, <1>3, <1>5

\* A step that stays in the buffer: types and the messages handed on are kept.
LEMMA StayInBuffer ==
    ASSUME wire \in Wires, Types, Handed, Parted, skipInput' = skipInput,
           wire' = wire, sent' = sent, base' = base, shipped' = shipped,
           offset' \in Nat, offset <= offset', offset' <= sent,
           m' \in MessageRecords, m'.there, parsing' \in BOOLEAN
    PROVE  /\ Types' /\ Handed' /\ Parted' /\ Current' = Current
           /\ parsing' => Exhausted'
           /\ /\ wire.proto # "http"
              /\ \A k \in DOMAIN Messages : k >= Current => sent < Ends(k)
              => Exhausted'
  <1>1. /\ Total' = Total /\ Messages' = Messages
        /\ \A k : Begins(k)' = Begins(k) /\ Ends(k)' = Ends(k)
    BY SameStream
  <1>2. Types'
    <2>1. sent' \in Nat /\ base' \in Nat /\ offset' \in Nat
          /\ base' <= offset' /\ offset' <= sent' /\ sent' <= Total'
      BY <1>1 DEF Types
    <2> QED BY <2>1 DEF Types
  <1>3. Handed' /\ Parted'
    BY KeptBase
  <1>4. Current' = Current
    BY DEF Current
  <1>5. parsing' => Exhausted'
    BY DEF Exhausted
  <1>6. ASSUME wire.proto # "http", \A k \in DOMAIN Messages : k >= Current => sent < Ends(k)
        PROVE  Exhausted'
    BY <1>1, <1>4, <1>6 DEF Exhausted
  <1> QED BY <1>2, <1>3, <1>4, <1>5, <1>6

\* A parser that waits with a message, and one that moves on.
LEMMA Waits ==
    ASSUME wire \in Wires, Types, Handed, Parted, skipInput' = skipInput,
           NEW o \in Nat, offset <= o, o <= sent, NEW s, NEW msg \in MessageRecords, msg.there,
           Wait(o, s, msg)
    PROVE  /\ Types' /\ Handed' /\ Parted' /\ Current' = Current
           /\ wire' = wire /\ sent' = sent /\ base' = base /\ ended' = ended
           /\ shipped' = shipped /\ offset' = o /\ state' = s /\ m' = msg /\ ~parsing'
           /\ /\ wire.proto # "http"
              /\ \A k \in DOMAIN Messages : k >= Current => sent < Ends(k)
              => Exhausted'
  <1>1. /\ wire' = wire /\ sent' = sent /\ base' = base /\ ended' = ended
        /\ shipped' = shipped /\ offset' = o /\ state' = s /\ m' = msg /\ ~parsing'
        /\ parsing' \in BOOLEAN
    BY DEF Wait
  <1> QED BY <1>1, StayInBuffer

LEMMA Advances ==
    ASSUME wire \in Wires, Types, Handed, Parted, skipInput' = skipInput, parsing,
           NEW len \in Nat, offset + len <= sent, NEW s, NEW msg \in MessageRecords, msg.there,
           Advance(len, s, msg)
    PROVE  /\ Types' /\ Handed' /\ Parted' /\ Current' = Current /\ Exhausted' /\ parsing'
           /\ wire' = wire /\ sent' = sent /\ base' = base /\ ended' = ended
           /\ shipped' = shipped /\ offset' = offset + len /\ state' = s /\ m' = msg
  <1>1. /\ wire' = wire /\ sent' = sent /\ base' = base /\ ended' = ended
        /\ shipped' = shipped /\ offset' = offset + len /\ state' = s /\ m' = msg
        /\ parsing' = parsing
    BY DEF Advance
  <1>2. offset' \in Nat /\ offset <= offset' /\ offset' <= sent /\ parsing' \in BOOLEAN
    BY <1>1 DEF Types
  <1> QED BY <1>1, <1>2, StayInBuffer

\* A message of which a unit is not there, and all that follow it, are not there.
LEMMA CurrentNotThere ==
    ASSUME wire \in Wires, Types, NEW u \in Units, u.msg = Current, sent < u.at + u.len
    PROVE  \A k \in DOMAIN Messages : k >= Current => sent < Ends(k)
  <1>1. UnitFacts /\ MessageFacts
    BY StreamFacts
  <1>2. Current \in Nat /\ Current # 0 /\ sent \in Nat
    BY DEF Current, Types
  <1>3. /\ Current \in DOMAIN Messages /\ sent < Ends(Current) /\ Ends(Current) \in Nat
    BY <1>1, <1>2 DEF UnitFacts, MessageFacts
  <1>4. ASSUME NEW k \in DOMAIN Messages, k > Current PROVE Ends(Current) < Ends(k)
    <2>1. Ends(Current) <= Begins(k) /\ Begins(k) < Ends(k) /\ Begins(k) \in Nat /\ Ends(k) \in Nat
      BY <1>1, <1>3, <1>4 DEF MessageFacts
    <2> QED BY <1>3, <2>1
  <1>5. \A k \in DOMAIN Messages : k \in Nat /\ Ends(k) \in Nat
    BY <1>1 DEF MessageFacts
  <1> QED BY <1>2, <1>3, <1>4, <1>5

\* The same where the buffer ends before the end of the current message.
LEMMA CurrentNotComplete ==
    ASSUME wire \in Wires, Types, Current \in DOMAIN Messages, sent < Ends(Current)
    PROVE  \A k \in DOMAIN Messages : k >= Current => sent < Ends(k)
  <1>1. UnitFacts /\ MessageFacts
    BY StreamFacts
  <1>2. PICK u \in Units : u.at + u.len = Ends(Current) /\ u.msg = Current
    BY <1>1 DEF MessageFacts
  <1> QED BY <1>2, CurrentNotThere

\* A stream that is no longer followed has shipped what it had.
LEMMA StreamEnds ==
    ASSUME wire \in Wires, Types, Handed, NEW why, why # "", why # "fin", EndStream(why),
           KeepsItsPlace'
    PROVE  Settled'
  <1>1. wire' = wire /\ ended' = why /\ shipped' = shipped
    BY DEF EndStream
  <1>2. Messages' = Messages
    BY <1>1, SameStream
  <1>3. ShippedAsSent'
    BY <1>1, <1>2 DEF ShippedAsSent, Handed
  <1> QED BY <1>1, <1>3 DEF Settled, FinShipsBegun

\* A parser that stands at the beginning of a unit is lost only if this is a unit that
\* makes no sense there.
LEMMA NotAstray ==
    ASSUME wire \in Wires, Types, AtUnit(offset), Lost
    PROVE  /\ offset < sent /\ state \notin {"message", "body", "chunk"}
           /\ Here \in Units /\ Here.at = offset /\ Strange(Here.what)
  <1>1. Avail > 0 /\ sent \in Nat /\ offset \in Nat /\ sent <= Total /\ Total \in Nat
    BY StreamFacts DEF Lost, Types, UnitFacts
  <1>2. offset < sent
    BY <1>1 DEF Avail
  <1>3. Here \in Units /\ Here.at = offset
    BY <1>2, UnitHere
  <1> QED BY <1>2, <1>3 DEF Lost

\* Nothing of the messages that are left is in the buffer.
LEMMA AllToCome ==
    ASSUME wire \in Wires, Types, \A k \in DOMAIN Messages : k >= Current => sent <= Begins(k)
    PROVE  \A k \in DOMAIN Messages : k >= Current => sent < Ends(k)
  <1>1. \A k \in DOMAIN Messages : /\ Begins(k) < Ends(k)
                                   /\ Begins(k) \in Nat /\ Ends(k) \in Nat
    BY StreamFacts DEF MessageFacts
  <1>2. sent \in Nat
    BY DEF Types
  <1> QED BY <1>1, <1>2

\* A parser that waits where it stands keeps its place.
LEMMA WaitsHere ==
    ASSUME wire \in Wires, Live, parsing, WaitHere, skipInput' = skipInput,
           \/ Exhausted'
           \/ /\ wire.proto # "http"
              /\ \A k \in DOMAIN Messages : k >= Current => sent < Ends(k),
           wire.proto = "mysql" => MysqlWaits'
    PROVE  Live'
  <1>1. /\ Types /\ Handed /\ Parted /\ Place /\ ended = "" /\ m \in MessageRecords /\ m.there
        /\ offset \in Nat
    BY DEF Live, Types
  <1>2. offset <= offset /\ offset <= sent /\ Wait(offset, state, m)
    <2>1. offset \in Nat /\ sent \in Nat /\ offset <= sent
      BY <1>1 DEF Types
    <2>2. Wait(offset, state, m)
      BY DEF WaitHere
    <2> QED BY <2>1, <2>2
  <1>3. /\ Types' /\ Handed' /\ Parted' /\ Current' = Current /\ Exhausted' /\ ~parsing'
        /\ wire' = wire /\ sent' = sent /\ base' = base /\ ended' = ended /\ shipped' = shipped
        /\ offset' = offset /\ state' = state /\ m' = m
    BY <1>1, <1>2, Waits
  <1>4. /\ Units' = Units /\ Total' = Total /\ Messages' = Messages
        /\ CaptureReply' = CaptureReply
        /\ \A k : Begins(k)' = Begins(k) /\ Ends(k)' = Ends(k)
    BY <1>3, SameStream
  <1>5. Inside' = Inside
    BY <1>3, <1>4 DEF Inside, AtUnit
  <1>6. Remaining(offset)' = Remaining(offset)
    BY <1>3 DEF Remaining
  <1>7. RedisPlace => RedisPlace'
    BY <1>3, <1>4, <1>5, <1>6 DEF RedisPlace
  <1>8. MysqlPlace => MysqlPlace'
    BY <1>3, <1>4, <1>5 DEF MysqlPlace
  <1>9. PgsqlPlace => PgsqlPlace'
    BY <1>3, <1>4, <1>5 DEF PgsqlPlace, AtUnit
  <1>10. ThriftPlace => ThriftPlace'
    BY <1>3, <1>4, <1>5 DEF ThriftPlace
  <1>11. HttpPlace => HttpPlace'
    <2>1. HeadersRead => HeadersRead'
      BY <1>3, <1>4 DEF HeadersRead, Passed
    <2>2. InBody => InBody'
      BY <1>3, <1>4 DEF InBody, OpenEnded
    <2>3. InChunk => InChunk'
      BY <1>3, <1>4 DEF InChunk
    <2> QED BY <1>3, <1>4, <1>5, <2>1, <2>2, <2>3 DEF HttpPlace
  <1>12. Place'
    BY <1>1, <1>3, <1>7, <1>8, <1>9, <1>10, <1>11 DEF Place
  <1> QED BY <1>1, <1>3, <1>12 DEF Live

-------------------------------------------------------------------------------
(* redis.                                                                  *)

\* A stream has finitely many units.
LEMMA FiniteUnits ==
    ASSUME wire \in Wires
    PROVE  IsFiniteSet(Units)
  <1> DEFINE U == wire.units
  <1>1. U \in Seq(Unit)
    BY WireAssumption
  <1>2. Len(U) \in Nat /\ DOMAIN U = 1 .. Len(U)
    BY <1>1
  <1>3. Units = {U[i] : i \in 1 .. Len(U)}
    BY <1>2 DEF Units, UnitsOf, Range
  <1> HIDE DEF U
  <1> DEFINE f == [i \in 1 .. Len(U) |-> U[i]]
  <1>4. f \in Surjection(1 .. Len(U), Units)
    BY <1>3 DEF Surjection
  <1>5. IsFiniteSet(1 .. Len(U))
    BY <1>2, FS_Interval
  <1> QED BY <1>4, <1>5, FS_Surjection

\* What the grammar says of the stream that is followed, in the absence of messages
\* that are misread: a "*" opens its message and tells the number of its values.
LEMMA RedisUnits ==
    ASSUME wire \in Wires, ~Misread, wire.proto = "redis"
    PROVE  \A u \in Units :
              /\ u.msg # 0 /\ u.what \in Lines \cup {"*", "$", "data", "inline"}
              /\ u.what = "*" => /\ u.n > 0 /\ u.at = Begins(u.msg)
                                 /\ Cardinality(ValuesOf(wire, u.msg)) = u.n
              /\ u.what = "$" => /\ DataOf(u) \in Units /\ DataOf(u).at = u.at + u.len
                                 /\ DataOf(u).msg = u.msg /\ DataOf(u).what = "data"
                                 /\ DataOf(u).len = u.n + 2 /\ DataOf(u).n <= u.n
                                 /\ u.at = Begins(u.msg) =>
                                       DataOf(u).at + DataOf(u).len = Ends(u.msg)
              /\ u.what = "data" => \E v \in Units : u.at = v.at + v.len /\ v.what = "$"
              /\ u.what \in Lines /\ u.at = Begins(u.msg) => u.at + u.len = Ends(u.msg)
              /\ u.what = "inline" => u.at = Begins(u.msg)
  <1>1. UnitFacts /\ MessageFacts
    BY StreamFacts
  <1>2. RedisStream(wire) /\ Units = UnitsOf(wire)
    BY RedisGrammar DEF Units
  <1> SUFFICES ASSUME NEW u \in Units
               PROVE  /\ u.msg # 0 /\ u.what \in Lines \cup {"*", "$", "data", "inline"}
                      /\ u.what = "*" => /\ u.n > 0 /\ u.at = Begins(u.msg)
                                         /\ Cardinality(ValuesOf(wire, u.msg)) = u.n
                      /\ u.what = "$" => /\ DataOf(u) \in Units /\ DataOf(u).at = u.at + u.len
                                         /\ DataOf(u).msg = u.msg /\ DataOf(u).what = "data"
                                         /\ DataOf(u).len = u.n + 2 /\ DataOf(u).n <= u.n
                                         /\ u.at = Begins(u.msg) =>
                                               DataOf(u).at + DataOf(u).len = Ends(u.msg)
                      /\ u.what = "data" => \E v \in Units : u.at = v.at + v.len /\ v.what = "$"
                      /\ u.what \in Lines /\ u.at = Begins(u.msg) => u.at + u.len = Ends(u.msg)
                      /\ u.what = "inline" => u.at = Begins(u.msg)
    OBVIOUS
  <1>3. u.msg # 0 /\ u.what \in Lines \cup {"*", "$", "data", "inline"}
    BY <1>2 DEF RedisStream
  <1>4. ASSUME u.what = "*"
        PROVE  u.n > 0 /\ u.at = Begins(u.msg) /\ Cardinality(ValuesOf(wire, u.msg)) = u.n
    <2>1. u.n # 0 /\ u.n \in Nat
      BY <1>1, <1>4 DEF Misread, EmptyMultiBulk, UnitFacts
    <2>2. \A v \in Units : v.what = "*" => v.at = Begins(v.msg)
      BY <1>2, ClosingUnit DEF Misread, NestedMultiBulk, RedisStream
    <2>3. \A v \in Units : v.msg = u.msg /\ v.what = "*" => v = u
      BY <1>1, <1>4, <2>2 DEF UnitFacts
    <2> QED BY <1>2, <1>4, <2>1, <2>2, <2>3 DEF RedisStream
  <1>5. ASSUME u.what = "$"
        PROVE  /\ DataOf(u) \in Units /\ DataOf(u).at = u.at + u.len
               /\ DataOf(u).msg = u.msg /\ DataOf(u).what = "data"
               /\ DataOf(u).len = u.n + 2 /\ DataOf(u).n <= u.n
               /\ u.at = Begins(u.msg) => DataOf(u).at + DataOf(u).len = Ends(u.msg)
    <2>1. PICK v \in Units : /\ v.at = u.at + u.len /\ v.msg = u.msg /\ v.what = "data"
                             /\ v.len = u.n + 2 /\ v.n <= u.n
                             /\ Opens(wire, u) => Closes(wire, v)
      BY <1>2, <1>5 DEF RedisStream, Follows
    <2>2. DataOf(u) = v
      BY <1>1, <2>1 DEF DataOf, UnitFacts
    <2> QED BY <1>3, <2>1, <2>2, ClosingUnit
  <1>6. u.what = "data" => \E v \in Units : u.at = v.at + v.len /\ v.what = "$"
    BY <1>2 DEF RedisStream, Follows
  <1>7. u.what \in Lines /\ u.at = Begins(u.msg) => u.at + u.len = Ends(u.msg)
    BY <1>2, <1>3, ClosingUnit DEF RedisStream
  <1>8. u.what = "inline" => u.at = Begins(u.msg)
    BY <1>2, <1>3, ClosingUnit DEF RedisStream
  <1> QED BY <1>3, <1>4, <1>5, <1>6, <1>7, <1>8

\* The unit where the parser stands is part of the current message.
LEMMA RedisHere ==
    ASSUME wire \in Wires, ~Misread, wire.proto = "redis", Types, Handed, Parted, RedisPlace,
           offset < sent
    PROVE  /\ Here \in Units /\ Here.at = offset /\ Here.msg = Current
           /\ Current \in DOMAIN Messages /\ base = Begins(Current) /\ Here.what # "data"
           /\ \/ offset = base /\ m.n = 0
              \/ base < offset /\ m.n > 0 /\ m.n = Cardinality(Remaining(offset))
  <1>1. UnitFacts /\ MessageFacts
    BY StreamFacts
  <1>2. ~skipInput
    BY DEF Types
  <1>3. AtUnit(offset)
    BY <1>2 DEF RedisPlace, Parted, Inside
  <1>4. Here \in Units /\ Here.at = offset
    BY <1>3, UnitHere
  <1>5. Here.msg # 0
    BY <1>4, RedisUnits
  <1>6. CASE offset = base /\ m.n = 0
    <2>1. Here.msg = Current /\ Current \in DOMAIN Messages /\ Begins(Current) = offset
      BY <1>2, <1>4, <1>5, <1>6, OpensHere DEF Parted
    <2>2. ASSUME Here.what = "data" PROVE FALSE
      <3>1. PICK v \in Units : Here.at = v.at + v.len /\ v.what = "$"
        BY <1>4, <2>2, RedisUnits
      <3>2. DataOf(v) = Here
        BY <1>1, <1>4, <3>1 DEF DataOf, UnitFacts
      <3>3. v.msg = Here.msg
        BY <3>1, <3>2, RedisUnits
      <3>4. v.at \in Nat /\ v.len \in Nat /\ v.len > 0 /\ Begins(v.msg) <= v.at
        BY <1>1, <1>5, <3>1, <3>3 DEF UnitFacts, MessageFacts
      <3> QED BY <1>4, <2>1, <3>1, <3>3, <3>4
    <2> QED BY <1>4, <1>6, <2>1, <2>2
  <1>7. CASE ~(offset = base /\ m.n = 0)
    <2>1. /\ Inside /\ base = Begins(Current) /\ m.n > 0 /\ m.n = Cardinality(Remaining(offset))
          /\ \A u \in Units : u.at = offset => u.what # "data"
      BY <1>7 DEF RedisPlace
    <2>2. /\ Current \in DOMAIN Messages /\ base < offset
          /\ Begins(Current) <= Here.at /\ Here.at < Ends(Current)
      BY <1>4, <2>1 DEF Inside, Types
    <2>3. Here.msg = Current
      BY <1>1, <1>4, <2>2 DEF MessageFacts
    <2> QED BY <1>4, <2>1, <2>2, <2>3
  <1> QED BY <1>6, <1>7

\* Every value that is read completes the message, or leaves one less to read.
LEMMA RedisAddValue ==
    ASSUME wire \in Wires, ~Misread, wire.proto = "redis", Live, parsing, offset < sent,
           NEW len \in Nat,
           \/ Here.what \in Lines /\ len = Here.len
           \/ Here.what = "$" /\ len = Here.len + DataOf(Here).len,
           offset + len <= sent, AddValue(len), skipInput' = skipInput
    PROVE  Live'
  <1> DEFINE h == Here
             last == IF h.what = "$" THEN DataOf(h) ELSE h
             e == offset + len
  <1>1. UnitFacts /\ MessageFacts
    BY StreamFacts
  <1>2. Types /\ Handed /\ Parted /\ RedisPlace /\ ended = "" /\ ~skipInput /\ m.there
    BY DEF Live, Place, Types
  <1>3. /\ h \in Units /\ h.at = offset /\ h.msg = Current
        /\ Current \in DOMAIN Messages /\ base = Begins(Current) /\ h.what # "data"
        /\ \/ offset = base /\ m.n = 0
           \/ base < offset /\ m.n > 0 /\ m.n = Cardinality(Remaining(offset))
    BY <1>2, RedisHere
  <1>4. /\ last \in Units /\ last.msg = Current /\ e = last.at + last.len /\ last.what # "$"
        /\ h.at = Begins(Current) => e = Ends(Current)
        /\ e > offset /\ len \in Nat /\ e \in Nat /\ e <= Ends(Current)
    <2>1. CASE h.what = "$"
      <3>1. /\ last \in Units /\ last.at = h.at + h.len /\ last.msg = h.msg /\ last.what = "data"
            /\ h.at = Begins(h.msg) => last.at + last.len = Ends(h.msg)
        BY <1>3, <2>1, RedisUnits
      <3>2. /\ last.at \in Nat /\ last.len \in Nat /\ h.len \in Nat /\ h.len > 0 /\ h.at \in Nat
        BY <1>1, <1>3, <3>1 DEF UnitFacts
      <3>3. len = h.len + last.len
        BY <2>1 DEF Lines
      <3>4. last.msg # 0
        BY <3>1, RedisUnits
      <3>5. last.at + last.len <= Ends(last.msg)
        BY <1>1, <3>1, <3>4 DEF MessageFacts
      <3> HIDE DEF last
      <3> QED BY <1>3, <3>1, <3>2, <3>3, <3>5
    <2>2. CASE h.what # "$"
      <3>1. h.what \in Lines /\ len = h.len /\ last = h
        BY <2>2
      <3>2. h.at = Begins(h.msg) => h.at + h.len = Ends(h.msg)
        BY <1>3, <3>1, RedisUnits
      <3>3. h.at \in Nat /\ h.len \in Nat /\ h.len > 0
        BY <1>1, <1>3 DEF UnitFacts
      <3>4. h.at + h.len <= Ends(h.msg)
        BY <1>1, <1>3, RedisUnits DEF MessageFacts
      <3> QED BY <1>3, <2>2, <3>1, <3>2, <3>3, <3>4
    <2> QED BY <2>1, <2>2
  <1> /\ Ends(Current) \in Nat /\ Begins(Current) \in Nat /\ offset \in Nat /\ sent \in Nat
      /\ base \in Nat /\ m.n \in Nat
    BY <1>1, <1>2, <1>3 DEF MessageFacts, Types, MessageRecords
  <1>0. h.what = "$" => last.at = h.at + h.len /\ last.what = "data"
    BY <1>3, RedisUnits
  <1>12. h.what # "$" => last = h
    OBVIOUS
  <1>13. (h.what \in Lines \cup {"$"}) /\ e = offset + len
    OBVIOUS
  <1> HIDE DEF h, last, e
  <1>5. Remaining(e) = Remaining(offset) \ {h} /\ h \in Remaining(offset)
    <2>1. h \in Remaining(offset)
      BY <1>1, <1>3, <1>13 DEF Remaining, ValuesOf, Units, UnitFacts
    <2>2. ASSUME NEW u \in Remaining(offset), u # h PROVE u \in Remaining(e)
      <3>1. /\ u \in Units /\ u.at >= offset /\ u.msg = Current /\ u.what \in Lines \cup {"$"}
        BY DEF Remaining, ValuesOf, Units
      <3>2. h.at + h.len <= u.at
        BY <1>1, <1>3, <2>2, <3>1 DEF UnitFacts
      <3>3. ASSUME h.what = "$" PROVE u.at >= e
        <4>1. last.at = h.at + h.len /\ last.what = "data"
          BY <1>0, <3>3
        <4>2. u # last
          BY <3>1, <4>1 DEF Lines
        <4>3. u.at # last.at
          BY <1>1, <1>4, <3>1, <4>2 DEF UnitFacts
        <4> QED BY <1>1, <1>4, <3>1, <3>2, <4>1, <4>3 DEF UnitFacts
      <3>4. ASSUME h.what # "$" PROVE u.at >= e
        BY <1>3, <1>4, <1>12, <3>2, <3>4
      <3>5. u.at >= e
        BY <3>3, <3>4
      <3> QED BY <3>5 DEF Remaining
    <2>3. ASSUME NEW u \in Remaining(e) PROVE u \in Remaining(offset) /\ u # h
      <3>1. u \in Units /\ u.at >= e /\ u.at \in Nat
        BY <1>1 DEF Remaining, ValuesOf, Units, UnitFacts
      <3>2. u.at >= offset /\ u.at # h.at
        BY <1>3, <1>4, <3>1
      <3> QED BY <3>2 DEF Remaining
    <2> QED BY <2>1, <2>2, <2>3
  <1>6. IsFiniteSet(Remaining(offset))
    <2>1. Remaining(offset) \subseteq Units
      BY DEF Remaining, ValuesOf, Units
    <2> QED BY <2>1, FiniteUnits, FS_Subset
  <1>7. /\ Cardinality(Remaining(e)) = Cardinality(Remaining(offset)) - 1
        /\ IsFiniteSet(Remaining(e)) /\ Cardinality(Remaining(offset)) \in Nat
    BY <1>5, <1>6, FS_RemoveElement, FS_CardinalityType
  <1>8. \A u \in Units : u.at = e => u.what # "data"
    <2> SUFFICES ASSUME NEW u \in Units, u.at = e, u.what = "data" PROVE FALSE
      OBVIOUS
    <2>1. PICK v \in Units : u.at = v.at + v.len /\ v.what = "$"
      BY RedisUnits
    <2>2. v.at = last.at
      BY <1>1, <1>4, <2>1 DEF UnitFacts
    <2> QED BY <1>1, <1>4, <2>1, <2>2 DEF UnitFacts
  <1>9. AtUnit(e)
    BY <1>1, <1>4 DEF UnitFacts, AtUnit
  <1>10. CASE m.n > 1
    <2> DEFINE m1 == [m EXCEPT !.n = m.n - 1]
    <2>0. Advance(len, state, m1)
      BY <1>10, Zenon DEF AddValue
    <2>2. m1 \in MessageRecords /\ m1.there /\ m1.n = m.n - 1
      <3>1. m.n - 1 \in Nat /\ m \in MessageRecords
        <4>1. m \in MessageRecords
          BY <1>2 DEF Types
        <4> QED BY <1>10, <4>1
      <3> QED BY <1>2, <3>1, MessageUpdates, Zenon
    <2> HIDE DEF m1
    <2>1. base < offset /\ m.n = Cardinality(Remaining(offset)) /\ state = "start"
      <3>1. state = "start"
        BY <1>2 DEF RedisPlace
      <3> QED BY <1>3, <1>10, <3>1
    <2>3. /\ Types' /\ Handed' /\ Parted' /\ Current' = Current /\ Exhausted'
          /\ wire' = wire /\ base' = base /\ ended' = ended
          /\ offset' = e /\ state' = "start" /\ m'.n = m.n - 1
      BY <1>2, <1>4, <1>13, <2>0, <2>1, <2>2, Advances
    <2>4. /\ Units' = Units /\ Total' = Total /\ Messages' = Messages
          /\ \A k : Begins(k)' = Begins(k) /\ Ends(k)' = Ends(k)
      BY <2>3, SameStream
    <2>5. m.n - 1 > 0 /\ m.n - 1 = Cardinality(Remaining(e))
      BY <1>7, <1>10, <2>1
    <2>6. Remaining(e) # {}
      BY <1>7, <2>5, FS_EmptySet
    <2>7. e < Ends(Current)
      <3>1. PICK u \in Units : u.msg = Current /\ u.at >= e
        BY <2>6 DEF Remaining, ValuesOf, Units
      <3>2. u.at \in Nat /\ u.len \in Nat /\ u.len > 0 /\ u.at + u.len <= Ends(Current)
            /\ Ends(Current) \in Nat
        BY <1>1, <1>3, <3>1, RedisUnits DEF UnitFacts, MessageFacts
      <3> QED BY <1>4, <3>1, <3>2
    <2>8. Inside'
      <3>1. Begins(Current) < e
        BY <1>3, <1>4, <2>1
      <3> QED BY <1>3, <1>9, <2>3, <2>4, <2>7, <3>1 DEF Inside, AtUnit
    <2>9. Remaining(offset)' = Remaining(e)
      BY <2>3 DEF Remaining
    <2>10. RedisPlace'
      BY <1>3, <1>8, <2>3, <2>4, <2>5, <2>8, <2>9 DEF RedisPlace
    <2> QED BY <1>2, <2>3, <2>10 DEF Live, Place
  <1>11. CASE ~(m.n > 1)
    <2>1. e = Ends(Current)
      <3>1. CASE offset = base /\ m.n = 0
        BY <1>3, <1>4, <3>1
      <3>2. CASE ~(offset = base /\ m.n = 0)
        <4>1. base < offset /\ m.n = 1 /\ m.n = Cardinality(Remaining(offset))
          BY <1>3, <1>11, <3>2
        <4>2. Remaining(e) = {}
          BY <1>7, <4>1, FS_EmptySet
        <4>3. ASSUME e < Ends(Current) PROVE FALSE
          <5>1. PICK v \in Units : v.at = e /\ v.msg = Current
            <6>1. last.at + last.len # Ends(last.msg)
              BY <1>4, <4>3
            <6> QED BY <1>4, <6>1, ClosingUnit, RedisUnits
          <5>2. v.what \notin {"*", "inline"}
            <6>1. v.at # Begins(v.msg)
              BY <1>3, <1>4, <4>1, <5>1
            <6> QED BY <5>1, <6>1, RedisUnits
          <5>3. v.what \in Lines \cup {"$"}
            BY <1>8, <5>1, <5>2, RedisUnits
          <5>4. v.at >= e
            BY <1>4, <5>1
          <5>5. v \in Remaining(e)
            BY <5>1, <5>3, <5>4 DEF Remaining, ValuesOf, Units
          <5> QED BY <4>2, <5>5
        <4>4. Ends(Current) \in Nat
          BY <1>1, <1>3 DEF MessageFacts
        <4> QED BY <1>4, <4>3, <4>4
      <3> QED BY <3>1, <3>2
    <2>2. Ship(Begins(Current), Ends(Current), TRUE, TRUE)
      BY <1>3, <1>11, <1>13, <2>1 DEF AddValue
    <2>3. /\ Types' /\ Handed' /\ Parted' /\ wire' = wire /\ ended' = ended /\ Exhausted'
          /\ state' = "start" /\ offset' = base'
          /\ m' = NoMessage \/ m' = NewMessage(base')
      BY <1>2, <1>3, <1>13, <2>1, <2>2, ShipCurrent
    <2>4. m'.n = 0
      BY <2>3, MessageTypes DEF Types
    <2> QED BY <1>2, <2>3, <2>4 DEF Live, Place, RedisPlace
  <1> QED BY <1>10, <1>11

\* Every step of the parser of redis keeps the invariant.
LEMMA RedisKeeps ==
    ASSUME wire \in Wires, ~Misread, wire.proto = "redis", Live, RedisStep,
           skipInput' = skipInput
    PROVE  Live' \/ Settled'
  <1>1. UnitFacts /\ MessageFacts
    BY StreamFacts
  <1>2. /\ Types /\ Handed /\ Parted /\ RedisPlace /\ ended = "" /\ m \in MessageRecords
    BY DEF Live, Place, Types
  <1> sent \in Nat /\ offset \in Nat /\ base \in Nat /\ offset <= sent
    BY DEF Live, Types
  <1>3. parsing
    BY DEF RedisStep, BulkNotFound, LineNotFound, Unexpected, MultiBulk, Value, Bulk, EndOfData,
           AtWork
  <1>4. m.there
    BY <1>2, <1>3 DEF Types
  <1>5. ASSUME WaitHere, \A k \in DOMAIN Messages : k >= Current => sent < Ends(k) PROVE Live'
    BY <1>3, <1>5, WaitsHere
  <1>6. CASE offset < sent
    <2> DEFINE h == Here
    <2>1. /\ h \in Units /\ h.at = offset /\ h.msg = Current
          /\ Current \in DOMAIN Messages /\ base = Begins(Current) /\ h.what # "data"
          /\ \/ offset = base /\ m.n = 0
             \/ base < offset /\ m.n > 0 /\ m.n = Cardinality(Remaining(offset))
      BY <1>2, <1>6, RedisHere
    <2>2. h.len \in Nat /\ h.len > 0 /\ h.n \in Nat
      BY <1>1, <2>1 DEF UnitFacts
    <2>3. CASE BulkNotFound
      <3>1. h.what = "$" /\ WaitHere
            /\ (sent < h.at + h.len \/ sent < DataOf(h).at + DataOf(h).n + 2)
        BY <2>1, <2>2, <2>3 DEF BulkNotFound, LineFound
      <3>2. /\ DataOf(h) \in Units /\ DataOf(h).at = h.at + h.len /\ DataOf(h).msg = Current
            /\ DataOf(h).len = h.n + 2 /\ DataOf(h).n <= h.n
            /\ DataOf(h).len \in Nat /\ DataOf(h).n \in Nat
        BY <1>1, <2>1, <3>1, RedisUnits DEF UnitFacts
      <3>3. sent < DataOf(h).at + DataOf(h).len
        <4> HIDE DEF h
        <4> QED BY <2>1, <2>2, <3>1, <3>2
      <3>4. \A k \in DOMAIN Messages : k >= Current => sent < Ends(k)
        BY <1>2, <3>2, <3>3, CurrentNotThere
      <3> QED BY <1>5, <3>1, <3>4
    <2>4. CASE LineNotFound
      <3>1. WaitHere /\ sent < h.at + h.len
        BY <2>1, <2>2, <2>4 DEF LineNotFound, LineFound
      <3>2. \A k \in DOMAIN Messages : k >= Current => sent < Ends(k)
        BY <1>2, <2>1, <3>1, CurrentNotThere
      <3> QED BY <1>5, <3>1, <3>2
    <2>5. CASE MultiBulk
      <3> DEFINE m1 == [m EXCEPT !.n = h.n]
      <3>1. h.what = "*" /\ LineFound(h) /\ Advance(h.len, state, m1)
        BY <2>5, Zenon DEF MultiBulk
      <3>2. m1 \in MessageRecords /\ m1.there /\ m1.n = h.n
        BY <1>2, <1>4, <2>2, MessageUpdates, Zenon
      <3>3. offset + h.len <= sent
        BY <2>1, <2>2, <3>1 DEF LineFound
      <3>4. /\ h.n > 0 /\ offset = Begins(Current)
            /\ Cardinality(ValuesOf(wire, Current)) = h.n
        BY <2>1, <3>1, RedisUnits
      <3> HIDE DEF m1, h
      <3>5. /\ Types' /\ Handed' /\ Parted' /\ Current' = Current /\ Exhausted'
            /\ wire' = wire /\ base' = base /\ ended' = ended
            /\ offset' = offset + h.len /\ state' = state /\ m' = m1
        BY <1>2, <1>3, <2>2, <3>1, <3>2, <3>3, Advances
      <3>6. /\ Units' = Units /\ Total' = Total /\ Messages' = Messages
            /\ \A k : Begins(k)' = Begins(k) /\ Ends(k)' = Ends(k)
        BY <3>5, SameStream
      <3>7. ASSUME NEW u \in ValuesOf(wire, Current)
            PROVE  u \in Units /\ u.msg = Current /\ u.at >= offset + h.len
        <4>1. u \in Units /\ u.msg = Current /\ u.what # "*"
          BY DEF ValuesOf, Units, Lines
        <4>2. u.at >= Begins(Current) /\ u.at \in Nat
          BY <1>1, <4>1, RedisUnits DEF UnitFacts, MessageFacts
        <4>3. u.at # h.at
          BY <1>1, <2>1, <3>1, <4>1 DEF UnitFacts
        <4> QED BY <1>1, <2>1, <2>2, <3>4, <4>1, <4>2, <4>3 DEF UnitFacts
      <3>8. Remaining(offset)' = ValuesOf(wire, Current)
        BY <3>5, <3>7 DEF Remaining
      <3>9. ValuesOf(wire, Current) # {}
        BY <3>4, FS_EmptySet
      <3>10. offset + h.len < Ends(Current)
        <4>1. PICK u \in Units : u.msg = Current /\ u.at >= offset + h.len
          BY <3>7, <3>9
        <4>2. u.at \in Nat /\ u.len \in Nat /\ u.len > 0 /\ u.at + u.len <= Ends(Current)
              /\ Ends(Current) \in Nat
          BY <1>1, <2>1, <4>1, RedisUnits DEF UnitFacts, MessageFacts
        <4> QED BY <2>2, <4>1, <4>2
      <3>11. AtUnit(offset + h.len)
        BY <1>1, <2>1 DEF AtUnit, UnitFacts
      <3>12. Begins(Current) < offset + h.len
        BY <2>2, <3>4
      <3>13. Inside'
        BY <2>1, <3>5, <3>6, <3>10, <3>11, <3>12 DEF Inside, AtUnit
      <3>14. ASSUME NEW u \in Units, u.at = offset + h.len, u.what = "data" PROVE FALSE
        <4>1. PICK v \in Units : u.at = v.at + v.len /\ v.what = "$"
          BY <3>14, RedisUnits
        <4>2. v.at = h.at
          BY <1>1, <2>1, <3>14, <4>1 DEF UnitFacts
        <4> QED BY <1>1, <2>1, <3>1, <4>1, <4>2 DEF UnitFacts
      <3>15. state = "start"
        BY <1>2 DEF RedisPlace
      <3>16. RedisPlace'
        BY <2>1, <3>2, <3>4, <3>5, <3>6, <3>8, <3>13, <3>14, <3>15 DEF RedisPlace
      <3> QED BY <1>2, <3>5, <3>16 DEF Live, Place
    <2>6. CASE Value
      <3>1. h.what \in Lines /\ LineFound(h) /\ AddValue(h.len)
        BY <2>6 DEF Value
      <3>2. offset + h.len <= sent
        BY <2>1, <2>2, <3>1 DEF LineFound
      <3> QED BY <1>3, <1>6, <2>2, <3>1, <3>2, RedisAddValue
    <2>7. CASE Bulk
      <3>1. /\ h.what = "$" /\ sent >= DataOf(h).at + DataOf(h).n + 2
            /\ IF DataOf(h).n = h.n THEN AddValue(h.len + DataOf(h).len)
                                    ELSE EndStream("rejected")
        BY <2>7 DEF Bulk
      <3>2. /\ DataOf(h) \in Units /\ DataOf(h).at = h.at + h.len /\ DataOf(h).what = "data"
            /\ DataOf(h).len = h.n + 2 /\ DataOf(h).n <= h.n
            /\ DataOf(h).len \in Nat /\ DataOf(h).n \in Nat
        BY <1>1, <2>1, <3>1, RedisUnits DEF UnitFacts
      <3>3. CASE DataOf(h).n = h.n
        <4> DEFINE len == h.len + DataOf(h).len
        <4>1. len \in Nat /\ offset + len <= sent /\ AddValue(len)
          BY <2>1, <2>2, <3>1, <3>2, <3>3
        <4>2. Here.what = "$" /\ len = Here.len + DataOf(Here).len
          BY <3>1
        <4> HIDE DEF len, h
        <4> QED BY <1>3, <1>6, <4>1, <4>2, RedisAddValue
      <3>4. CASE DataOf(h).n # h.n
        <4>1. EndStream("rejected") /\ DataOf(h).n + 2 < DataOf(h).len
          BY <2>2, <3>1, <3>2, <3>4
        <4>2. wire' = wire /\ ended' = "rejected"
          BY <4>1 DEF EndStream
        <4>3. KeepsItsPlace'
          <5>1. Units' = Units
            BY <4>2, SameStream
          <5> QED BY <3>2, <4>1, <4>2, <5>1 DEF KeepsItsPlace
        <4> QED BY <1>2, <4>1, <4>3, StreamEnds
      <3> QED BY <3>3, <3>4
    <2>8. ~EndOfData("redis")
      BY <1>6 DEF EndOfData, Avail
    <2>9. CASE Unexpected
      <3>1. h.what = "inline" /\ EndStream("rejected")
        BY <2>9 DEF Unexpected
      <3>2. wire' = wire /\ offset' = offset /\ ended' = "rejected"
        BY <3>1 DEF EndStream
      <3>3. Units' = Units
        BY <3>2, SameStream
      <3>4. KeepsItsPlace'
        BY <2>1, <3>1, <3>2, <3>3 DEF KeepsItsPlace
      <3> QED BY <1>2, <3>1, <3>4, StreamEnds
    <2> QED BY <2>3, <2>4, <2>5, <2>6, <2>7, <2>8, <2>9 DEF RedisStep
  <1>7. CASE ~(offset < sent)
    <2>1. offset = sent
      BY <1>7
    <2>2. WaitHere
      BY <2>1 DEF RedisStep, BulkNotFound, LineNotFound, Unexpected, MultiBulk, Value, Bulk,
                        EndOfData, Avail
    <2>3. \A k \in DOMAIN Messages : k >= Current => sent < Ends(k)
      <3>1. CASE Inside
        BY <1>2, <2>1, <3>1, CurrentNotComplete DEF Inside
      <3>2. CASE ~Inside
        <4>1. offset = base
          BY <1>2, <3>2 DEF RedisPlace
        <4>2. \A k \in DOMAIN Messages : k >= Current => base <= Begins(k)
          BY <1>2 DEF Parted
        <4> QED BY <1>2, <2>1, <4>1, <4>2, AllToCome
      <3> QED BY <3>1, <3>2
    <2> QED BY <1>5, <2>2, <2>3
  <1> QED BY <1>6, <1>7

-------------------------------------------------------------------------------
(* mysql.                                                                  *)

\* What the grammar says of a packet where a message begins, in the absence of
\* responses that are misread.
LEMMA MysqlUnits ==
    ASSUME wire \in Wires, ~Misread, wire.proto = "mysql", NEW u \in Units
    PROVE  /\ u.len >= 5 /\ (u.what = "err" => u.n = 13)
           /\ u.msg = 0 => u.n = 0
           /\ u.msg # 0 /\ u.at = Begins(u.msg) /\ u.what # "err" => u.n <= u.len
           /\ u.msg = 0 => u.what \notin {"count", "query", "ok", "eof", "err"}
           /\ u.msg # 0 /\ u.at = Begins(u.msg) =>
                 \/ u.what \in {"query", "ok", "eof", "err"} /\ u.at + u.len = Ends(u.msg)
                 \/ u.what = "count" /\ u.len = 5
  <1>1. MysqlStream(wire) /\ Units = UnitsOf(wire)
    BY MysqlGrammar DEF Units
  <1>2. /\ u.len >= 5 /\ (u.msg = 0 => u.what \notin {"count", "query", "ok", "eof", "err"})
        /\ (u.what = "err" => u.n = 13) /\ (u.msg = 0 => u.n = 0)
    BY <1>1 DEF MysqlStream
  <1>4. u.len \in Nat /\ u.n \in Nat
    BY StreamFacts DEF UnitFacts
  <1>5. u.what = "count" => u.len = 5
    BY <1>2, <1>4 DEF Misread, WideResponse
  <1>6. ASSUME u.msg # 0, u.at = Begins(u.msg), u.what # "err" PROVE u.n <= u.len
    <2>1. Opens(wire, u)
      BY <1>6, ClosingUnit
    <2>2. CASE u.what \in {"ok", "eof"}
      BY <1>4, <2>1, <2>2 DEF Misread, CountsBeyond
    <2>3. CASE u.what \notin {"ok", "eof"}
      <3>1. u.n = 0
        BY <1>1, <1>6, <2>3 DEF MysqlStream
      <3> QED BY <1>4, <3>1
    <2> QED BY <2>2, <2>3
  <1>3. ASSUME u.msg # 0, u.at = Begins(u.msg)
        PROVE  \/ u.what \in {"query", "ok", "eof", "err"} /\ u.at + u.len = Ends(u.msg)
               \/ u.what = "count" /\ u.len = 5
    <2>1. Opens(wire, u) /\ (Closes(wire, u) => u.at + u.len = Ends(u.msg))
      BY <1>3, ClosingUnit
    <2> QED BY <1>1, <1>5, <2>1 DEF MysqlStream
  <1> QED BY <1>2, <1>3, <1>6

\* The packets of a response with rows: fields up to e, rows up to f, the last one.
LEMMA MysqlResponse ==
    ASSUME wire \in Wires, ~Misread, wire.proto = "mysql", NEW c \in Units, c.msg # 0,
           c.at = Begins(c.msg), c.what = "count"
    PROVE  \E e, f \in Units :
              /\ e.what = "eof" /\ f.what = "eof" /\ e.msg = c.msg /\ f.msg = c.msg
              /\ c.at < e.at /\ e.at < f.at /\ f.at + f.len = Ends(c.msg)
              /\ \A v \in Units : /\ c.at < v.at /\ v.at < e.at => v.what = "field"
                                  /\ e.at < v.at /\ v.at < f.at => v.what = "row"
  <1>1. UnitFacts /\ MessageFacts
    BY StreamFacts
  <1>2. MysqlStream(wire) /\ Units = UnitsOf(wire)
    BY MysqlGrammar DEF Units
  <1>3. Opens(wire, c)
    BY ClosingUnit
  <1>4. PICK e \in Units, f \in Units :
            /\ c.at < e.at /\ e.at < f.at /\ f.msg = c.msg /\ Closes(wire, f)
            /\ e.what = "eof" /\ f.what \in {"eof", "err"}
            /\ \A v \in Units : /\ c.at < v.at /\ v.at < e.at => v.what = "field"
                                /\ e.at < v.at /\ v.at < f.at => v.what = "row"
    BY <1>2, <1>3 DEF MysqlStream
  <1>5. f.at + f.len = Ends(c.msg)
    BY <1>4, ClosingUnit
  <1>6. /\ c.msg \in DOMAIN Messages /\ e.at \in Nat /\ f.at \in Nat /\ f.len \in Nat
        /\ c.at \in Nat /\ f.len > 0
    BY <1>1, <1>4 DEF UnitFacts, MessageFacts
  <1>7. Begins(c.msg) <= e.at /\ e.at < Ends(c.msg)
    BY <1>4, <1>5, <1>6
  <1>8. e.msg = c.msg
    BY <1>1, <1>6, <1>7 DEF MessageFacts
  <1>9. f.what = "eof"
    <2>1. f.at # Begins(f.msg)
      BY <1>4, <1>6
    <2>2. ~Opens(wire, f)
      BY <1>4, <2>1, ClosingUnit
    <2> QED BY <1>4, <2>2 DEF Misread, FailedResponse
  <1> QED BY <1>4, <1>5, <1>8, <1>9

\* Where the parser stands within such a response.
LEMMA MysqlHere ==
    ASSUME wire \in Wires, ~Misread, wire.proto = "mysql", Types, MysqlPlace, offset < sent,
           state \in {"fields", "rows"}
    PROVE  /\ Here \in Units /\ Here.at = offset /\ Here.msg = Current
           /\ Current \in DOMAIN Messages /\ base = Begins(Current) /\ m.start = base
           /\ base < offset /\ m.flags = {} /\ m.end = 0
           /\ \E c \in Units : c.at = base /\ c.what = "count"
           /\ \E f \in Units :
                 /\ f.what = "eof" /\ f.msg = Current /\ f.at + f.len = Ends(Current)
                 /\ state = "fields" =>
                       /\ Here.at < f.at /\ Here.what \in {"field", "eof"}
                       /\ \A u \in Units : u.msg = Current /\ u.what = "eof" => u.at >= offset
                 /\ state = "rows" =>
                       /\ Here.what = "eof" => Here = f
                       /\ Here.what # "eof" => Here.at < f.at /\ Here.what = "row"
                       /\ \E u \in Units : u.msg = Current /\ u.what = "eof" /\ u.at < offset
  <1>1. UnitFacts /\ MessageFacts
    BY StreamFacts
  <1> sent \in Nat /\ offset \in Nat /\ base \in Nat
    BY DEF Types
  <1>2. /\ Inside /\ base = Begins(Current) /\ m.start = base /\ m.flags = {} /\ m.end = 0
        /\ \E c \in Units : c.at = base /\ c.what = "count"
        /\ \/ state = "fields"
              /\ \A u \in Units : u.msg = Current /\ u.what = "eof" => u.at >= offset
           \/ state = "rows"
              /\ \E u \in Units : u.msg = Current /\ u.what = "eof" /\ u.at < offset
    BY DEF MysqlPlace
  <1>3. Current \in DOMAIN Messages /\ base < offset /\ offset < Ends(Current) /\ AtUnit(offset)
    BY <1>2 DEF Inside
  <1>4. Here \in Units /\ Here.at = offset
    BY <1>3, UnitHere
  <1>5. Begins(Current) <= Here.at /\ Here.at < Ends(Current)
    BY <1>2, <1>3, <1>4
  <1>6. Here.msg = Current
    BY <1>1, <1>3, <1>4, <1>5 DEF MessageFacts
  <1>7. PICK c \in Units : c.at = base /\ c.what = "count"
    BY <1>2
  <1>8. c.msg = Current /\ Current # 0
    BY <1>1, <1>2, <1>3, <1>7 DEF MessageFacts
  <1>9. PICK e \in Units, f \in Units :
            /\ e.what = "eof" /\ f.what = "eof" /\ e.msg = Current /\ f.msg = Current
            /\ base < e.at /\ e.at < f.at /\ f.at + f.len = Ends(Current)
            /\ \A v \in Units : /\ base < v.at /\ v.at < e.at => v.what = "field"
                                /\ e.at < v.at /\ v.at < f.at => v.what = "row"
    BY <1>2, <1>7, <1>8, MysqlResponse
  <1>10. e.at \in Nat /\ f.at \in Nat /\ f.len \in Nat /\ f.len > 0
    BY <1>1, <1>9 DEF UnitFacts
  <1>11. Here.at <= f.at
    <2>1. ~(f.at < Here.at)
      BY <1>1, <1>3, <1>4, <1>9, <1>10 DEF UnitFacts
    <2> QED BY <1>4, <1>10, <2>1
  <1>12. CASE state = "fields"
    <2>1. \A u \in Units : u.msg = Current /\ u.what = "eof" => u.at >= offset
      BY <1>2, <1>12
    <2>2. Here.at < f.at
      BY <1>4, <1>9, <1>10, <2>1
    <2>3. Here.what \in {"field", "eof"}
      <3>1. offset <= e.at
        BY <1>9, <2>1
      <3>2. e.at = Here.at => e = Here
        BY <1>1, <1>4, <1>9 DEF UnitFacts
      <3> QED BY <1>3, <1>4, <1>9, <1>10, <3>1, <3>2
    <2> QED BY <1>2, <1>3, <1>4, <1>6, <1>9, <1>12, <2>1, <2>2, <2>3
  <1>13. CASE state = "rows"
    <2>1. PICK z \in Units : z.msg = Current /\ z.what = "eof" /\ z.at < offset
      BY <1>2, <1>13
    <2>2. z.at \in Nat /\ Begins(Current) <= z.at
      BY <1>1, <1>8, <2>1 DEF UnitFacts, MessageFacts
    <2>3. z.at # base
      BY <1>1, <1>7, <2>1 DEF UnitFacts
    <2>4. ~(z.at < e.at)
      BY <1>2, <1>9, <2>1, <2>2, <2>3
    <2>5. e.at < Here.at
      BY <1>4, <1>10, <2>1, <2>2, <2>4
    <2>6. Here.at < f.at => Here.what = "row"
      BY <1>4, <1>9, <2>5
    <2>7. Here.at = f.at => Here = f
      BY <1>1, <1>4, <1>9 DEF UnitFacts
    <2>8. (Here.what = "eof" => Here = f) /\ (Here.what # "eof" => Here.at < f.at /\ Here.what = "row")
      BY <1>4, <1>9, <1>10, <1>11, <2>6, <2>7
    <2> QED BY <1>2, <1>3, <1>4, <1>6, <1>9, <1>13, <2>1, <2>8
  <1> QED BY <1>12, <1>13

\* The parser is still within the current message after a unit that is not its last.
LEMMA StaysInside ==
    ASSUME wire \in Wires, Types, wire' = wire, Current' = Current, NEW u \in Units,
           u.msg = Current, offset' = u.at + u.len, NEW v \in Units, v.msg = Current, u.at < v.at
    PROVE  Inside'
  <1>1. UnitFacts /\ MessageFacts
    BY StreamFacts
  <1>2. /\ Units' = Units /\ Total' = Total /\ Messages' = Messages
        /\ \A k : Begins(k)' = Begins(k) /\ Ends(k)' = Ends(k)
    BY SameStream
  <1>3. Current # 0
    BY DEF Current, Types
  <1>4. /\ Current \in DOMAIN Messages /\ Begins(Current) <= u.at /\ v.at + v.len <= Ends(Current)
        /\ u.at \in Nat /\ u.len \in Nat /\ u.len > 0 /\ v.at \in Nat /\ v.len \in Nat /\ v.len > 0
        /\ u.at + u.len <= v.at
        /\ Begins(Current) \in Nat /\ Ends(Current) \in Nat
    BY <1>1, <1>3 DEF UnitFacts, MessageFacts
  <1>5. Begins(Current) < offset' /\ offset' < Ends(Current)
    BY <1>4
  <1>6. AtUnit(offset)'
    BY <1>1, <1>2 DEF UnitFacts, AtUnit
  <1> QED BY <1>2, <1>4, <1>5, <1>6 DEF Inside

\* Every step of the parser of mysql keeps the invariant.
LEMMA MysqlKeeps ==
    ASSUME wire \in Wires, ~Misread, wire.proto = "mysql", Live, MysqlStep,
           skipInput' = skipInput
    PROVE  Live' \/ Settled'
  <1>1. UnitFacts /\ MessageFacts
    BY StreamFacts
  <1>2. Types /\ Handed /\ Parted /\ MysqlPlace /\ ended = "" /\ m \in MessageRecords
    BY DEF Live, Place, Types
  <1>0. ~skipInput
    BY DEF Live, Types
  <1> sent \in Nat /\ offset \in Nat /\ base \in Nat /\ offset <= sent /\ sent <= Total
    BY DEF Live, Types
  <1>3. parsing
    BY DEF MysqlStep, MysqlTooShort, MysqlStart, MysqlEatMessage, MysqlEatFields, MysqlEatRow,
           MysqlEatLastRow, EndOfData, AtWork
  <1>4. m.there
    BY <1>2, <1>3 DEF Types
  <1>5. ASSUME WaitHere, \A k \in DOMAIN Messages : k >= Current => sent < Ends(k),
               \/ base = sent \/ state \in {"fields", "rows"}
               \/ state = "message" /\ sent < base + m.n
        PROVE  Live'
    <2>1. MysqlWaits'
      BY <1>5 DEF WaitHere, Wait, MysqlWaits
    <2> QED BY <1>3, <1>5, <2>1, WaitsHere
  <1>6. \A k \in DOMAIN Messages : k >= Current => base <= Begins(k)
    BY <1>2 DEF Parted
  <1>7. AtUnit(base)
    BY <1>0, <1>2 DEF Parted
  <1>8. ASSUME Types', Handed', Parted', Exhausted', wire' = wire, ended' = ended, MysqlPlace',
               parsing' \/ base' = sent'
        PROVE  Live'
    <2>1. MysqlWaits'
      BY <1>8 DEF MysqlWaits
    <2> QED BY <1>2, <1>8, <2>1 DEF Live, Place
  <1>9. ASSUME Types', Handed', Parted', Exhausted', wire' = wire, ended' = ended,
               state' = "start", offset' = base', m' = NoMessage \/ m' = NewMessage(base'),
               parsing' \/ base' = sent'
        PROVE  Live'
    <2>1. base' \in Nat
      BY <1>9 DEF Types
    <2>2. m'.flags = {} /\ m'.end = 0
      BY <1>9, <2>1, MessageTypes
    <2> QED BY <1>8, <1>9, <2>2 DEF MysqlPlace
  <1>10. CASE MysqlTooShort
    <2>1. EndStream("rejected") /\ state = "start" /\ sent - offset < 5
      BY <1>10 DEF MysqlTooShort, Avail
    <2>2. offset = base
      BY <1>2, <2>1 DEF MysqlPlace
    <2>3. KeepsItsPlace'
      BY <2>1, <2>2 DEF KeepsItsPlace, EndStream
    <2> QED BY <1>2, <2>1, <2>3, StreamEnds
  <1>11. CASE MysqlStart
    <2> DEFINE h == Here
               m1 == [m EXCEPT !.start = offset, !.n = h.len]
               m2 == [m1 EXCEPT !.flags = {"ignore"}]
    <2>1. /\ state = "start" /\ offset + 5 <= sent
      BY <1>11 DEF MysqlStart, Avail
    <2>2. IF h.what = "count" /\ h.len = 5 THEN Advance(5, "fields", m1)
          ELSE Advance(0, "message", IF h.what \in {"query", "ok", "eof", "err"} THEN m1 ELSE m2)
      BY <1>11, Zenon DEF MysqlStart
    <2>3. offset = base /\ m.flags = {} /\ m.end = 0
      BY <1>2, <2>1 DEF MysqlPlace
    <2>4. h \in Units /\ h.at = offset /\ AtUnit(offset + h.len)
      <3>1. offset < sent
        BY <2>1
      <3> QED BY <1>2, <1>7, <2>3, <3>1, UnitHere
    <2>5. h.len \in Nat /\ h.len >= 5 /\ h.msg \in Nat
      BY <1>1, <2>4, MysqlUnits DEF UnitFacts
    <2>6. /\ m1 \in MessageRecords /\ m1.there /\ m1.start = offset /\ m1.n = h.len
          /\ m1.flags = m.flags /\ m1.end = m.end
      <3>1. h.len \in Nat /\ offset \in Nat
        BY <2>5
      <3> HIDE DEF h
      <3> QED BY <1>2, <1>4, <3>1 DEF MessageRecords
    <2>7. /\ m2 \in MessageRecords /\ m2.there /\ m2.start = offset /\ m2.n = h.len
          /\ m2.flags = {"ignore"}
      <3>1. m1 \in MessageRecords
        BY <2>6
      <3>2. {"ignore"} \in SUBSET Flags
        BY Zenon DEF Flags
      <3> HIDE DEF m1, h
      <3>3. /\ m2 \in MessageRecords /\ m2.there = m1.there /\ m2.n = m1.n
            /\ m2.start = m1.start /\ m2.flags = {"ignore"}
        BY <3>1, <3>2, FlagsUpdates
      <3> HIDE DEF m2
      <3> QED BY <2>6, <3>3
    <2> HIDE DEF m1, m2, h
    <2>8. h.msg # 0 => h.msg = Current /\ Current \in DOMAIN Messages /\ Begins(Current) = offset
      BY <1>0, <1>2, <1>6, <2>3, <2>4, OpensHere
    <2>9. CASE h.what = "count"
      <3>1. h.msg # 0
        BY <2>4, <2>9, MysqlUnits
      <3>2. h.msg = Current /\ Begins(Current) = offset /\ h.len = 5
        BY <2>4, <2>8, <2>9, <3>1, MysqlUnits
      <3>3. /\ Types' /\ Handed' /\ Parted' /\ Current' = Current /\ Exhausted' /\ parsing'
            /\ wire' = wire /\ base' = base /\ ended' = ended
            /\ offset' = offset + 5 /\ state' = "fields" /\ m' = m1
        BY <1>2, <1>3, <2>1, <2>2, <2>6, <2>9, <3>2, Advances
      <3>4. PICK e \in Units : e.msg = Current /\ h.at < e.at
        BY <2>4, <2>9, <3>1, <3>2, MysqlResponse
      <3>5. Inside'
        BY <1>2, <2>4, <3>2, <3>3, <3>4, StaysInside
      <3>6. /\ Units' = Units /\ \A k : Begins(k)' = Begins(k)
        BY <3>3, SameStream
      <3>7. ASSUME NEW u \in Units, u.msg = Current, u.what = "eof" PROVE u.at >= offset + 5
        <4>1. u.msg # 0 /\ u # h
          BY <2>9, <3>1, <3>2, <3>7
        <4>2. u.at \in Nat /\ offset <= u.at /\ u.at # h.at
          BY <1>1, <2>4, <3>2, <3>7, <4>1 DEF UnitFacts, MessageFacts
        <4> QED BY <1>1, <2>4, <3>2, <4>2 DEF UnitFacts
      <3>8. MysqlPlace'
        BY <2>3, <2>4, <2>6, <2>9, <3>2, <3>3, <3>5, <3>6, <3>7 DEF MysqlPlace
      <3> QED BY <1>8, <3>3, <3>8
    <2>10. CASE h.what # "count"
      <3> DEFINE m3 == IF h.what \in {"query", "ok", "eof", "err"} THEN m1 ELSE m2
      <3>1. Advance(0, "message", m3)
        BY <2>2, <2>10
      <3>2. m3 \in MessageRecords /\ m3.there /\ m3.start = offset /\ m3.n = h.len
        BY <2>6, <2>7
      <3>3. "ignore" \in m3.flags <=> h.msg = 0
        <4>1. CASE h.what \in {"query", "ok", "eof", "err"}
          BY <2>3, <2>4, <2>6, <4>1, MysqlUnits
        <4>2. CASE h.what \notin {"query", "ok", "eof", "err"}
          <5>1. h.msg = 0
            BY <2>4, <2>8, <2>10, <4>2, MysqlUnits
          <5> QED BY <2>7, <4>2, <5>1
        <4> QED BY <4>1, <4>2
      <3> HIDE DEF m3
      <3>4. offset + 0 <= sent
        BY <2>1
      <3>5. /\ Types' /\ Handed' /\ Parted' /\ Exhausted' /\ parsing' /\ wire' = wire /\ base' = base
            /\ ended' = ended /\ offset' = offset + 0 /\ state' = "message" /\ m' = m3
        BY <1>2, <1>3, <3>1, <3>2, <3>4, Advances
      <3>6. Units' = Units /\ offset' = base'
        BY <2>3, <3>5, SameStream
      <3>7. MysqlPlace'
        BY <2>3, <2>4, <2>10, <3>2, <3>3, <3>5, <3>6 DEF MysqlPlace
      <3> QED BY <1>8, <3>5, <3>7
    <2> QED BY <2>9, <2>10
  <1>12. CASE MysqlEatMessage
    <2>0. m.n \in Nat
      BY <1>2 DEF MessageRecords
    <2>1. /\ state = "message" /\ offset < sent
          /\ IF Avail < m.n THEN WaitHere
             ELSE IF sent - m.start < UnitAt(m.start).n THEN MysqlCountsMissing
             ELSE Ship(m.start, offset + m.n, "ignore" \notin m.flags, TRUE)
      <3>1. /\ state = "message" /\ Avail > 0
            /\ IF Avail < m.n THEN WaitHere
               ELSE IF sent - m.start < UnitAt(m.start).n THEN MysqlCountsMissing
               ELSE Ship(m.start, offset + m.n, "ignore" \notin m.flags, TRUE)
        BY <1>12, Zenon DEF MysqlEatMessage
      <3>2. offset < sent
        BY <3>1 DEF Avail
      <3> QED BY <3>1, <3>2, Zenon
    <2>2. PICK u \in Units : /\ u.at = base /\ m.n = u.len /\ u.what # "count"
                             /\ "ignore" \in m.flags <=> u.msg = 0
                             /\ offset = base /\ m.start = base
      BY <1>2, <2>1 DEF MysqlPlace
    <2>3. u.len \in Nat /\ u.len > 0 /\ u.n \in Nat /\ UnitAt(m.start) = u
      BY <1>1, <2>2 DEF UnitFacts
    <2>7. u.msg # 0 => u.msg = Current /\ Current \in DOMAIN Messages /\ Begins(Current) = offset
      BY <1>0, <1>2, <1>6, <2>2, OpensHere
    <2>8. u.what # "err" => u.n <= u.len
      <3>1. CASE u.msg = 0
        BY <2>3, <3>1, MysqlUnits
      <3>2. CASE u.msg # 0
        BY <2>2, <2>7, <3>2, MysqlUnits
      <3> QED BY <3>1, <3>2
    <2>9. CASE sent >= offset + m.n /\ sent - m.start < u.n
      <3>1. ~(Avail < m.n)
        BY <2>0, <2>9 DEF Avail
      <3>2. MysqlCountsMissing
        BY <2>1, <2>3, <2>9, <3>1, Zenon
      <3>3. u.what = "err" /\ u.n = 13
        <4>1. u.len <= sent - m.start
          BY <2>2, <2>3, <2>9
        <4>2. ~(u.n <= u.len)
          BY <2>2, <2>3, <2>9, <4>1
        <4> QED BY <2>8, <4>2, MysqlUnits
      <3>4. EndStream("panicked")
        BY <2>3, <3>2, <3>3 DEF MysqlCountsMissing
      <3>5. wire' = wire /\ base' = base /\ sent' = sent /\ ended' = "panicked"
        BY <3>4 DEF EndStream
      <3>6. Units' = Units
        BY <3>5, SameStream
      <3>7. sent - base < 13
        BY <2>2, <2>9, <3>3
      <3>8. KeepsItsPlace'
        BY <2>2, <3>3, <3>5, <3>6, <3>7 DEF KeepsItsPlace
      <3> QED BY <1>2, <3>4, <3>8, StreamEnds
    <2>10. ASSUME sent >= offset + m.n, ~(sent - m.start < u.n)
           PROVE  Ship(m.start, offset + m.n, "ignore" \notin m.flags, TRUE)
      <3>1. ~(Avail < m.n)
        BY <2>0, <2>10 DEF Avail
      <3> QED BY <2>1, <2>3, <2>10, <3>1, Zenon
    <2>4. CASE ~(sent >= offset + m.n)
      <3>0. WaitHere
        <4>1. Avail < m.n
          BY <2>0, <2>4 DEF Avail
        <4> QED BY <2>1, <4>1, Zenon
      <3>1. sent < u.at + u.len /\ sent < base + m.n /\ WaitHere
        BY <2>2, <2>3, <2>4, <3>0
      <3>2. ASSUME NEW k \in DOMAIN Messages, k >= Current PROVE sent < Ends(k)
        <4>1. base <= Begins(k) /\ Begins(k) < Ends(k) /\ Begins(k) \in Nat /\ Ends(k) \in Nat
          BY <1>1, <1>6, <3>2 DEF MessageFacts
        <4>2. u.at < Ends(k)
          BY <2>2, <4>1
        <4> QED BY <3>1, <4>2, NotThere
      <3> QED BY <1>5, <2>1, <3>1, <3>2
    <2>5. CASE sent >= offset + m.n /\ ~(sent - m.start < u.n) /\ u.msg = 0
      <3> DEFINE end == offset + m.n
      <3>1. Ship(m.start, end, FALSE, TRUE)
        BY <2>2, <2>5, <2>10
      <3>2. end \in Nat /\ base <= end /\ end <= sent /\ end = u.at + u.len
        BY <2>2, <2>3, <2>5
      <3> HIDE DEF end
      <3>3. AtUnit(end)
        BY <1>1, <3>2 DEF UnitFacts, AtUnit
      <3>4. ASSUME NEW k \in DOMAIN Messages, k >= Current PROVE end <= Begins(k)
        <4>1. /\ base <= Begins(k) /\ Begins(k) < Ends(k) /\ Begins(k) \in Nat /\ Ends(k) \in Nat
              /\ k # 0
          BY <1>1, <1>6, <3>4 DEF MessageFacts
        <4>2. u.at # Begins(k)
          BY <1>1, <2>5, <4>1 DEF MessageFacts
        <4>3. u.at < Begins(k)
          BY <2>2, <4>1, <4>2
        <4> QED BY <1>1, <3>2, <4>3 DEF MessageFacts
      <3>5. /\ Types' /\ Handed' /\ Parted' /\ wire' = wire /\ ended' = ended /\ Exhausted'
            /\ state' = "start" /\ offset' = base'
            /\ m' = NoMessage \/ m' = NewMessage(base')
            /\ parsing' \/ base' = sent'
        BY <1>0, <1>2, <3>1, <3>2, <3>3, <3>4, ShipNothing
      <3> QED BY <1>9, <3>5
    <2>6. CASE sent >= offset + m.n /\ ~(sent - m.start < u.n) /\ u.msg # 0
      <3>1. u.msg = Current /\ Current \in DOMAIN Messages /\ Begins(Current) = offset
        BY <2>6, <2>7
      <3>2. offset + m.n = Ends(Current)
        BY <2>2, <2>6, <3>1, MysqlUnits
      <3>3. Ship(m.start, offset + m.n, TRUE, TRUE)
        BY <2>2, <2>6, <2>10
      <3>4. Ship(Begins(Current), Ends(Current), TRUE, TRUE) /\ Ends(Current) <= sent
        <4>1. Ends(Current) \in Nat
          BY <1>1, <3>1 DEF MessageFacts
        <4> QED BY <2>2, <2>6, <3>1, <3>2, <3>3, <4>1
      <3>5. /\ Types' /\ Handed' /\ Parted' /\ wire' = wire /\ ended' = ended /\ Exhausted'
            /\ state' = "start" /\ offset' = base'
            /\ m' = NoMessage \/ m' = NewMessage(base')
            /\ parsing' \/ base' = sent'
        BY <1>0, <1>2, <3>1, <3>4, ShipCurrent
      <3> QED BY <1>9, <3>5
    <2> QED BY <2>4, <2>5, <2>6, <2>9
  <1>13. ASSUME state \in {"fields", "rows"}, offset < sent,
                MysqlEatFields \/ MysqlEatRow \/ MysqlEatLastRow
         PROVE  Live'
    <2> DEFINE h == Here
    <2>1. /\ h \in Units /\ h.at = offset /\ h.msg = Current
          /\ Current \in DOMAIN Messages /\ base = Begins(Current) /\ m.start = base
          /\ base < offset /\ m.flags = {} /\ m.end = 0
          /\ \E c \in Units : c.at = base /\ c.what = "count"
      BY <1>2, <1>13, MysqlHere
    <2>2. PICK f \in Units :
              /\ f.what = "eof" /\ f.msg = Current /\ f.at + f.len = Ends(Current)
              /\ state = "fields" =>
                    /\ h.at < f.at
                    /\ \A u \in Units : u.msg = Current /\ u.what = "eof" => u.at >= offset
              /\ state = "rows" =>
                    /\ h.what = "eof" => h = f
                    /\ h.what # "eof" => h.at < f.at /\ h.what = "row"
                    /\ \E u \in Units : u.msg = Current /\ u.what = "eof" /\ u.at < offset
      BY <1>2, <1>13, MysqlHere
    <2>3. h.len \in Nat /\ h.len >= 5
      BY <1>1, <2>1, MysqlUnits DEF UnitFacts
    <2>4. CASE Avail < 4 \/ Avail < h.len
      <3>1. WaitHere
        <4>1. ~MysqlEatLastRow
          <5>1. MysqlEatLastRow => Avail >= 4 /\ Avail >= h.len
            BY Zenon DEF MysqlEatLastRow
          <5>2. ~(Avail >= 4 /\ Avail >= h.len)
            BY <2>3, <2>4 DEF Avail
          <5> QED BY <5>1, <5>2
        <4> QED BY <1>13, <2>4, <4>1 DEF MysqlEatFields, MysqlEatRow
      <3>2. sent < h.at + h.len
        <4> HIDE DEF h
        <4> QED BY <2>1, <2>3, <2>4 DEF Avail
      <3>3. \A k \in DOMAIN Messages : k >= Current => sent < Ends(k)
        BY <1>2, <2>1, <3>2, CurrentNotThere
      <3> QED BY <1>5, <1>13, <3>1, <3>3
    <2>5. CASE ~(Avail < 4 \/ Avail < h.len) /\ MysqlEatFields
      <3>1. /\ state = "fields"
            /\ Advance(h.len, IF h.what = "eof" THEN "rows" ELSE "fields", m)
        BY <2>5 DEF MysqlEatFields
      <3>2. offset + h.len <= sent
        BY <2>3, <2>5 DEF Avail
      <3> HIDE DEF h
      <3>3. /\ Types' /\ Handed' /\ Parted' /\ Current' = Current /\ Exhausted' /\ parsing'
            /\ wire' = wire /\ base' = base /\ ended' = ended /\ offset' = offset + h.len
            /\ state' = (IF h.what = "eof" THEN "rows" ELSE "fields") /\ m' = m
        BY <1>2, <1>3, <1>4, <2>3, <3>1, <3>2, Advances
      <3>4. Inside'
        BY <1>2, <2>1, <2>2, <3>1, <3>3, StaysInside
      <3>5. Units' = Units /\ \A k : Begins(k)' = Begins(k)
        BY <3>3, SameStream
      <3>6. CASE h.what = "eof"
        <4>1. h.at < offset'
          BY <2>1, <2>3, <3>3
        <4> QED BY <1>8, <2>1, <3>3, <3>4, <3>5, <3>6, <4>1 DEF MysqlPlace
      <3>7. CASE h.what # "eof"
        <4>1. ASSUME NEW u \in Units, u.msg = Current, u.what = "eof" PROVE u.at >= offset'
          <5>1. u.at >= offset /\ u.at # h.at /\ u.at \in Nat
            BY <1>1, <2>1, <2>2, <3>1, <3>7, <4>1 DEF UnitFacts
          <5>2. u.at > h.at
            BY <2>1, <5>1
          <5> QED BY <1>1, <2>1, <3>3, <5>2 DEF UnitFacts
        <4> QED BY <1>8, <2>1, <3>3, <3>4, <3>5, <3>7, <4>1 DEF MysqlPlace
      <3> QED BY <3>6, <3>7
    <2>6. CASE ~(Avail < 4 \/ Avail < h.len) /\ MysqlEatRow
      <3>1. /\ state = "rows" /\ h.what # "eof"
            /\ Advance(h.len, "rows",
                   IF m.end = 0 /\ (offset + h.len) - base > MaxPayload
                   THEN [m EXCEPT !.end = offset + h.len] ELSE m)
        BY <2>6, Zenon DEF MysqlEatRow
      <3>2. offset + h.len <= sent
        BY <2>3, <2>6 DEF Avail
      <3>3. h.what = "row" /\ h.at < f.at
        BY <2>2, <3>1
      <3>4. ~((offset + h.len) - base > MaxPayload)
        <4>1. ~(h.at + h.len - Messages[h.msg][1] > MaxPayload)
          BY <2>1, <3>3 DEF Misread, LongResponse
        <4>2. Messages[h.msg][1] = base
          BY <2>1 DEF Begins
        <4>3. MaxPayload \in Nat
          BY MysqlMessagesAssumption
        <4> HIDE DEF h
        <4> QED BY <2>1, <2>3, <4>1, <4>2, <4>3
      <3>5. Advance(h.len, "rows", m)
        BY <3>1, <3>4, Zenon
      <3> HIDE DEF h
      <3>6. /\ Types' /\ Handed' /\ Parted' /\ Current' = Current /\ Exhausted' /\ parsing'
            /\ wire' = wire /\ base' = base /\ ended' = ended /\ offset' = offset + h.len
            /\ state' = "rows" /\ m' = m
        BY <1>2, <1>3, <1>4, <2>3, <3>2, <3>5, Advances
      <3>7. Inside'
        BY <1>2, <2>1, <2>2, <3>3, <3>6, StaysInside
      <3>8. Units' = Units /\ \A k : Begins(k)' = Begins(k)
        BY <3>6, SameStream
      <3>9. PICK z \in Units : z.msg = Current /\ z.what = "eof" /\ z.at < offset
        BY <2>2, <3>1
      <3>10. z.at < offset'
        BY <1>1, <2>3, <3>6, <3>9 DEF UnitFacts
      <3> QED BY <1>8, <2>1, <3>6, <3>7, <3>8, <3>9, <3>10 DEF MysqlPlace
    <2>7. CASE ~(Avail < 4 \/ Avail < h.len) /\ MysqlEatLastRow
      <3>1. /\ state = "rows" /\ h.what = "eof"
            /\ Ship(m.start, IF m.end = 0 THEN offset + h.len ELSE m.end, TRUE, TRUE)
        BY <2>7 DEF MysqlEatLastRow
      <3>2. h.at + h.len = Ends(Current)
        BY <2>2, <3>1
      <3>3. Ends(Current) <= sent
        BY <2>1, <2>3, <2>7, <3>2 DEF Avail
      <3>4. Ship(Begins(Current), Ends(Current), TRUE, TRUE)
        BY <2>1, <3>1, <3>2
      <3>5. /\ Types' /\ Handed' /\ Parted' /\ wire' = wire /\ ended' = ended /\ Exhausted'
            /\ state' = "start" /\ offset' = base'
            /\ m' = NoMessage \/ m' = NewMessage(base')
            /\ parsing' \/ base' = sent'
        BY <1>0, <1>2, <2>1, <3>3, <3>4, ShipCurrent
      <3> QED BY <1>9, <3>5
    <2> QED BY <1>13, <2>4, <2>5, <2>6, <2>7
  <1>14. CASE EndOfData("mysql")
    <2>1. offset = sent /\ WaitHere
      BY <1>14 DEF EndOfData, Avail
    <2>2. \A k \in DOMAIN Messages : k >= Current => sent < Ends(k)
      <3>1. CASE Inside
        BY <1>2, <2>1, <3>1, CurrentNotComplete DEF Inside
      <3>2. CASE ~Inside
        <4>1. offset = base
          BY <1>2, <3>2 DEF MysqlPlace
        <4> QED BY <1>2, <1>6, <2>1, <4>1, AllToCome
      <3> QED BY <3>1, <3>2
    <2>3. base = sent \/ state \in {"fields", "rows"}
      BY <1>2, <2>1 DEF MysqlPlace
    <2> QED BY <1>5, <2>1, <2>2, <2>3
  <1>15. CASE MysqlEatFields \/ MysqlEatRow \/ MysqlEatLastRow
    <2>1. state \in {"fields", "rows"} /\ offset < sent
      <3>1. state \in {"fields", "rows"}
        BY <1>15 DEF MysqlEatFields, MysqlEatRow, MysqlEatLastRow
      <3>2. Avail > 0 \/ Avail >= 4
        BY <1>15, Zenon DEF MysqlEatFields, MysqlEatRow, MysqlEatLastRow
      <3> QED BY <3>1, <3>2 DEF Avail
    <2> QED BY <1>13, <1>15, <2>1
  <1> QED BY <1>10, <1>11, <1>12, <1>14, <1>15 DEF MysqlStep

-------------------------------------------------------------------------------
(* pgsql.                                                                  *)

\* A unit outside of the messages is passed over without reaching the next one.
LEMMA PassOver ==
    ASSUME wire \in Wires, NEW u \in Units, u.msg = 0, u.at = offset, offset \in Nat,
           \A k \in DOMAIN Messages : k >= Current => offset <= Begins(k)
    PROVE  \A k \in DOMAIN Messages : k >= Current => u.at + u.len <= Begins(k)
  <1> SUFFICES ASSUME NEW k \in DOMAIN Messages, k >= Current
               PROVE  u.at + u.len <= Begins(k)
    OBVIOUS
  <1>1. UnitFacts /\ MessageFacts
    BY StreamFacts
  <1>2. k # 0 /\ offset <= Begins(k) /\ Begins(k) \in Nat /\ Begins(k) < Ends(k) /\ Ends(k) \in Nat
    BY <1>1 DEF MessageFacts
  <1>3. u.at # Begins(k)
    BY <1>1, <1>2 DEF MessageFacts
  <1>4. u.at < Begins(k)
    BY <1>2, <1>3
  <1> QED BY <1>1, <1>4 DEF MessageFacts

\* What the grammar says of the stream that is followed, unless the rows of a response
\* are interrupted.
LEMMA PgsqlUnits ==
    ASSUME wire \in Wires, ~Misread, wire.proto = "pgsql", NEW u \in Units
    PROVE  /\ u.what # "sslreply" => u.len >= 5
           /\ u.what = "sslreply" => u.len = 1
           /\ u.what \in Special => u.len >= 8
           /\ u.msg = 0 => u.what \in Special \cup {"sslreply", "Z", "D", "other"}
           /\ u.msg # 0 /\ u.at = Begins(u.msg) =>
                 \/ u.what \in {"Q", "I", "E", "C"} /\ u.at + u.len = Ends(u.msg)
                 \/ u.what = "T" /\ \E v \in Units : v.msg = u.msg /\ u.at < v.at
           /\ u.msg # 0 /\ u.at # Begins(u.msg) =>
                 \/ u.what = "C" /\ u.at + u.len = Ends(u.msg)
                 \/ u.what = "D" /\ \E v \in Units : v.msg = u.msg /\ u.at < v.at
  <1>1. UnitFacts
    BY StreamFacts
  <1>2. PgsqlStream(wire) /\ Units = UnitsOf(wire)
    BY PgsqlGrammar DEF Units
  <1>3. /\ u.what # "sslreply" => u.len >= 5
        /\ u.what = "sslreply" => u.len = 1
        /\ u.what \in Special => u.len >= 8
        /\ u.msg = 0 => u.what \in Special \cup {"sslreply", "Z", "D", "other"}
    BY <1>2 DEF PgsqlStream
  <1>4. ASSUME u.msg # 0, ~Closes(wire, u) PROVE \E v \in Units : v.msg = u.msg /\ u.at < v.at
    <2>1. PICK v \in Units : v.at = u.at + u.len /\ v.msg = u.msg
      BY <1>4, ClosingUnit
    <2> QED BY <1>1, <2>1 DEF UnitFacts
  <1>5. ASSUME u.msg # 0, u.at = Begins(u.msg)
        PROVE  \/ u.what \in {"Q", "I", "E", "C"} /\ u.at + u.len = Ends(u.msg)
               \/ u.what = "T" /\ \E v \in Units : v.msg = u.msg /\ u.at < v.at
    <2>1. Opens(wire, u) /\ (Closes(wire, u) => u.at + u.len = Ends(u.msg))
      BY <1>5, ClosingUnit
    <2>2. \/ u.what \in {"Q", "I", "E", "C"} /\ Closes(wire, u)
          \/ u.what = "T" /\ ~Closes(wire, u)
      BY <1>2, <2>1 DEF PgsqlStream
    <2> QED BY <1>4, <1>5, <2>1, <2>2
  <1>6. ASSUME u.msg # 0, u.at # Begins(u.msg)
        PROVE  \/ u.what = "C" /\ u.at + u.len = Ends(u.msg)
               \/ u.what = "D" /\ \E v \in Units : v.msg = u.msg /\ u.at < v.at
    <2>1. ~Opens(wire, u) /\ (Closes(wire, u) => u.at + u.len = Ends(u.msg))
      BY <1>6, ClosingUnit
    <2>2. u.what \notin {"other", "E"}
      BY <1>6, <2>1 DEF Misread, RowsInterrupted
    <2>3. /\ u.what \in {"D", "C", "E", "other"}
          /\ u.what = "C" => Closes(wire, u)
          /\ u.what = "D" => ~Closes(wire, u)
      BY <1>2, <1>6, <2>1 DEF PgsqlStream
    <2> QED BY <1>4, <1>6, <2>1, <2>2, <2>3
  <1> QED BY <1>3, <1>5, <1>6

\* Where the parser stands, if there is something to read.
LEMMA PgsqlHere ==
    ASSUME wire \in Wires, ~Misread, wire.proto = "pgsql", Types, Handed, Parted, PgsqlPlace,
           offset < sent
    PROVE  /\ Here \in Units /\ Here.at = offset /\ AtUnit(offset + Here.len)
           /\ Here.len \in Nat /\ Here.len > 0
           /\ state = "start" =>
                 /\ m.n = 0
                 /\ \A k \in DOMAIN Messages : k >= Current => offset <= Begins(k)
                 /\ Here.msg # 0 =>
                       /\ Here.msg = Current /\ Current \in DOMAIN Messages
                       /\ Begins(Current) = offset
                       /\ \/ Here.what \in {"Q", "I", "E", "C"} /\ offset + Here.len = Ends(Current)
                          \/ /\ Here.what = "T"
                             /\ \E v \in Units : v.msg = Current /\ offset < v.at
                 /\ Here.msg = 0 =>
                       /\ Here.what \in Special \cup {"sslreply", "Z", "D", "other"}
                       /\ \A k \in DOMAIN Messages :
                             k >= Current => offset + Here.len <= Begins(k)
           /\ state = "data" =>
                 /\ Here.msg = Current /\ Current \in DOMAIN Messages
                 /\ m.start = Begins(Current)
                 /\ \/ Here.what = "C" /\ offset + Here.len = Ends(Current)
                    \/ /\ Here.what = "D"
                       /\ \E v \in Units : v.msg = Current /\ offset < v.at
  <1>1. UnitFacts /\ MessageFacts
    BY StreamFacts
  <1> sent \in Nat /\ offset \in Nat /\ base \in Nat
    BY DEF Types
  <1>2. ~skipInput
    BY DEF Types
  <1>3. AtUnit(offset)
    BY DEF PgsqlPlace, Inside
  <1>4. Here \in Units /\ Here.at = offset /\ AtUnit(offset + Here.len)
    BY <1>3, UnitHere
  <1>5. Here.len \in Nat /\ Here.len > 0
    BY <1>1, <1>4 DEF UnitFacts
  <1>6. CASE state = "start"
    <2>1. m.n = 0 /\ \A k \in DOMAIN Messages : k >= Current => offset <= Begins(k)
      BY <1>6 DEF PgsqlPlace
    <2>2. CASE Here.msg # 0
      <3>1. Here.msg = Current /\ Current \in DOMAIN Messages /\ Begins(Current) = offset
        BY <1>2, <1>4, <2>1, <2>2, OpensHere
      <3> QED BY <1>4, <1>5, <1>6, <2>1, <2>2, <3>1, PgsqlUnits
    <2>3. CASE Here.msg = 0
      <3>1. \A k \in DOMAIN Messages : k >= Current => offset + Here.len <= Begins(k)
        BY <1>4, <2>1, <2>3, PassOver
      <3> QED BY <1>4, <1>5, <1>6, <2>1, <2>3, <3>1, PgsqlUnits
    <2> QED BY <2>2, <2>3
  <1>7. CASE state = "data"
    <2>1. /\ Current \in DOMAIN Messages /\ Begins(Current) < offset /\ offset < Ends(Current)
          /\ m.start = Begins(Current)
      BY <1>7 DEF PgsqlPlace, Inside
    <2>2. Begins(Current) \in Nat /\ Current # 0
      BY <1>1, <2>1 DEF MessageFacts
    <2>3. Begins(Current) <= Here.at /\ Here.at < Ends(Current) /\ Here.at # Begins(Current)
      BY <1>4, <2>1, <2>2
    <2>4. Here.msg = Current
      BY <1>1, <1>4, <2>1, <2>3 DEF MessageFacts
    <2> QED BY <1>4, <1>5, <1>7, <2>1, <2>2, <2>3, <2>4, PgsqlUnits
  <1>8. CASE state \notin {"start", "data"}
    BY <1>4, <1>5, <1>8
  <1> QED BY <1>6, <1>7, <1>8

\* Every step of the parser of pgsql keeps the invariant.
LEMMA PgsqlKeeps ==
    ASSUME wire \in Wires, ~Misread, wire.proto = "pgsql", Live, PgsqlStep,
           skipInput' = skipInput
    PROVE  Live'
  <1> DEFINE h == Here
  <1>1. UnitFacts /\ MessageFacts
    BY StreamFacts
  <1>2. Types /\ Handed /\ Parted /\ PgsqlPlace /\ ended = "" /\ m \in MessageRecords
    BY DEF Live, Place, Types
  <1>0. ~skipInput
    BY DEF Live, Types
  <1> sent \in Nat /\ offset \in Nat /\ base \in Nat /\ offset <= sent /\ sent <= Total
      /\ base <= offset
    BY DEF Live, Types
  <1>3. parsing
    BY DEF PgsqlStep, PgsqlTooShort, PgsqlSpecial, PgsqlSSLReply, PgsqlMessage,
           PgsqlRowDescription, PgsqlIgnored, PgsqlRow, PgsqlRowsEnd, PgsqlSkip,
           EndOfData, AtWork
  <1>4. m.there
    BY <1>2, <1>3 DEF Types
  <1>5. ASSUME WaitHere, \A k \in DOMAIN Messages : k >= Current => sent < Ends(k) PROVE Live'
    BY <1>3, <1>5, WaitsHere
  <1>6. ASSUME Types', Handed', Parted', Exhausted', wire' = wire, ended' = ended, PgsqlPlace'
        PROVE  Live'
    BY <1>2, <1>6 DEF Live, Place
  <1>7. ASSUME Types', Handed', Parted', Exhausted', wire' = wire, ended' = ended,
               state' = "start", offset' = base', m' = NoMessage \/ m' = NewMessage(base')
        PROVE  Live'
    <2>1. base' \in Nat
      BY <1>7 DEF Types
    <2>2. m'.n = 0
      BY <1>7, <2>1, MessageTypes
    <2>3. ~skipInput'
      BY <1>0
    <2>4. AtUnit(base)' /\ \A k \in DOMAIN Messages' : k >= Current' => base' <= Begins(k)'
      BY <1>7, <2>3 DEF Parted
    <2>5. AtUnit(offset)'
      BY <1>7, <2>4 DEF AtUnit
    <2> QED BY <1>6, <1>7, <2>2, <2>4, <2>5 DEF PgsqlPlace
  \* Nothing to read.
  <1>8. CASE offset = sent
    <2>1. WaitHere
      <3>1. Avail \in 1 .. 4 \/ Avail >= 5 \/ EndOfData("pgsql")
        BY Zenon DEF PgsqlStep, PgsqlTooShort, PgsqlSpecial, PgsqlSSLReply, PgsqlMessage,
           PgsqlRowDescription, PgsqlIgnored, PgsqlRow, PgsqlRowsEnd, PgsqlSkip
      <3>2. ~(Avail \in 1 .. 4) /\ ~(Avail >= 5)
        BY <1>8 DEF Avail
      <3> QED BY <3>1, <3>2 DEF EndOfData
    <2>2. \A k \in DOMAIN Messages : k >= Current => sent < Ends(k)
      <3>1. CASE Inside
        BY <1>2, <1>8, <3>1, CurrentNotComplete DEF Inside
      <3>2. CASE ~Inside
        <4>1. \A k \in DOMAIN Messages : k >= Current => sent <= Begins(k)
          BY <1>2, <1>8, <3>2 DEF PgsqlPlace
        <4> QED BY <1>2, <4>1, AllToCome
      <3> QED BY <3>1, <3>2
    <2> QED BY <1>5, <2>1, <2>2
  <1>9. ASSUME offset < sent
        PROVE  /\ h \in Units /\ h.at = offset /\ AtUnit(offset + h.len)
               /\ h.len \in Nat /\ h.len > 0
    BY <1>2, <1>9, PgsqlHere
  \* In the start state: a unit that is not there, one that is passed over, one that
  \* is cut off, and a message.
  <1>10. ASSUME state = "start", offset < sent
         PROVE  /\ m.n = 0 /\ \A k \in DOMAIN Messages : k >= Current => offset <= Begins(k)
                /\ h.msg # 0 =>
                      /\ h.msg = Current /\ Current \in DOMAIN Messages /\ Begins(Current) = offset
                      /\ \/ h.what \in {"Q", "I", "E", "C"} /\ offset + h.len = Ends(Current)
                         \/ h.what = "T" /\ \E v \in Units : v.msg = Current /\ offset < v.at
                /\ h.msg = 0 =>
                      /\ h.what \in Special \cup {"sslreply", "Z", "D", "other"}
                      /\ \A k \in DOMAIN Messages : k >= Current => offset + h.len <= Begins(k)
    BY <1>2, <1>10, PgsqlHere
  <1> HIDE DEF h
  <1>11. ASSUME state = "start", offset < sent, sent < offset + h.len
         PROVE  \A k \in DOMAIN Messages : k >= Current => sent < Ends(k)
    <2> SUFFICES ASSUME NEW k \in DOMAIN Messages, k >= Current PROVE sent < Ends(k)
      OBVIOUS
    <2>1. offset <= Begins(k) /\ Begins(k) < Ends(k) /\ Begins(k) \in Nat /\ Ends(k) \in Nat
      BY <1>1, <1>10, <1>11 DEF MessageFacts
    <2>2. h \in Units /\ h.at = offset /\ h.at < Ends(k)
      BY <1>9, <1>11, <2>1
    <2> QED BY <1>11, <2>2, NotThere
  <1>12. ASSUME state = "start", offset < sent, h.msg = 0, offset + h.len <= sent,
                Advance(h.len, state, m)
         PROVE  Live'
    <2>1. h.len \in Nat /\ AtUnit(offset + h.len)
      BY <1>9, <1>12
    <2>2. /\ Types' /\ Handed' /\ Parted' /\ Current' = Current /\ Exhausted'
          /\ wire' = wire /\ base' = base /\ ended' = ended
          /\ offset' = offset + h.len /\ state' = state /\ m' = m
      BY <1>2, <1>3, <1>4, <1>12, <2>1, Advances
    <2>3. /\ Units' = Units /\ Total' = Total /\ Messages' = Messages
          /\ \A k : Begins(k)' = Begins(k) /\ Ends(k)' = Ends(k)
      BY <2>2, SameStream
    <2>4. AtUnit(offset)'
      BY <2>1, <2>2, <2>3 DEF AtUnit
    <2>5. PgsqlPlace'
      BY <1>10, <1>12, <2>2, <2>3, <2>4 DEF PgsqlPlace
    <2> QED BY <1>6, <2>2, <2>5
  <1>13. ASSUME state = "start", offset < sent, h.msg = 0, offset + h.len <= sent,
                Ship(offset, offset + h.len, FALSE, TRUE)
         PROVE  Live'
    <2> DEFINE end == offset + h.len
    <2>1. end \in Nat /\ base <= end /\ end <= sent /\ AtUnit(end)
      BY <1>9, <1>13
    <2>2. \A k \in DOMAIN Messages : k >= Current => end <= Begins(k)
      BY <1>10, <1>13
    <2>3. Ship(offset, end, FALSE, TRUE)
      BY <1>13
    <2> HIDE DEF end
    <2>4. /\ Types' /\ Handed' /\ Parted' /\ wire' = wire /\ ended' = ended /\ Exhausted'
          /\ state' = "start" /\ offset' = base'
          /\ m' = NoMessage \/ m' = NewMessage(base')
      BY <1>0, <1>2, <2>1, <2>2, <2>3, ShipNothing
    <2> QED BY <1>7, <2>4
  <1>14. ASSUME NEW from, offset + h.len <= sent, Current \in DOMAIN Messages,
                from = Begins(Current), offset + h.len = Ends(Current),
                Ship(from, offset + h.len, TRUE, TRUE)
         PROVE  Live'
    <2>1. Ship(Begins(Current), Ends(Current), TRUE, TRUE) /\ Ends(Current) <= sent
      BY <1>14
    <2>2. /\ Types' /\ Handed' /\ Parted' /\ wire' = wire /\ ended' = ended /\ Exhausted'
          /\ state' = "start" /\ offset' = base'
          /\ m' = NoMessage \/ m' = NewMessage(base')
      BY <1>0, <1>2, <1>14, <2>1, ShipCurrent
    <2> QED BY <1>7, <2>2
  <1>15. ASSUME state = "start", offset < sent, sent < offset + h.len,
                Wait(offset, state, [m EXCEPT !.start = offset])
         PROVE  Live'
    <2> DEFINE m1 == [m EXCEPT !.start = offset]
    <2>1. m1 \in MessageRecords /\ m1.there /\ m1.n = m.n
      BY <1>2, <1>4, StartUpdates, Zenon
    <2>2. Wait(offset, state, m1)
      BY <1>15
    <2> HIDE DEF m1
    <2>3. offset <= offset /\ offset <= sent
      OBVIOUS
    <2>4. /\ Types' /\ Handed' /\ Parted' /\ Current' = Current /\ Exhausted'
          /\ wire' = wire /\ base' = base /\ ended' = ended
          /\ offset' = offset /\ state' = state /\ m' = m1
      BY <1>2, <1>11, <1>15, <2>1, <2>2, <2>3, Waits
    <2>5. /\ Units' = Units /\ Total' = Total /\ Messages' = Messages
          /\ \A k : Begins(k)' = Begins(k) /\ Ends(k)' = Ends(k)
      BY <2>4, SameStream
    <2>6. PgsqlPlace'
      BY <1>2, <1>15, <2>1, <2>4, <2>5 DEF PgsqlPlace, AtUnit
    <2> QED BY <1>6, <2>4, <2>6
  \* The same in the data state.
  <1>16. ASSUME state = "data", offset < sent
         PROVE  /\ h.msg = Current /\ Current \in DOMAIN Messages /\ m.start = Begins(Current)
                /\ \/ h.what = "C" /\ offset + h.len = Ends(Current)
                   \/ h.what = "D" /\ \E v \in Units : v.msg = Current /\ offset < v.at
    BY <1>2, <1>16, PgsqlHere DEF h
  <1>17. ASSUME state = "data", offset < sent, sent < offset + h.len
         PROVE  \A k \in DOMAIN Messages : k >= Current => sent < Ends(k)
    BY <1>2, <1>9, <1>16, <1>17, CurrentNotThere
  <1>18. ASSUME NEW m1 \in MessageRecords, m1.there, m1.start = Begins(Current),
                Advance(h.len, "data", m1), offset < sent, offset + h.len <= sent,
                h.msg = Current, NEW v \in Units, v.msg = Current, offset < v.at
         PROVE  Live'
    <2>1. h.len \in Nat /\ h \in Units /\ h.at = offset
      BY <1>9, <1>18
    <2>2. /\ Types' /\ Handed' /\ Parted' /\ Current' = Current /\ Exhausted'
          /\ wire' = wire /\ base' = base /\ ended' = ended
          /\ offset' = offset + h.len /\ state' = "data" /\ m' = m1
      BY <1>2, <1>3, <1>18, <2>1, Advances
    <2>3. \A k : Begins(k)' = Begins(k)
      BY <2>2, SameStream
    <2>4. Inside'
      BY <1>2, <1>18, <2>1, <2>2, StaysInside
    <2>5. PgsqlPlace'
      BY <1>18, <2>2, <2>3, <2>4 DEF PgsqlPlace
    <2> QED BY <1>6, <2>2, <2>5
  <1>19. CASE offset < sent
    <2>0. h \in Units /\ h.at = offset /\ h.len \in Nat /\ h.len > 0
      BY <1>9, <1>19
    <2>1. CASE PgsqlTooShort
      <3>1. WaitHere /\ sent < offset + 5 /\ state \in {"start", "data"}
        BY <2>1 DEF PgsqlTooShort, Avail
      <3>2. CASE state = "start"
        <4>1. ASSUME NEW k \in DOMAIN Messages, k >= Current PROVE sent < Ends(k)
          <5>1. /\ offset <= Begins(k) /\ Begins(k) \in Nat /\ Ends(k) \in Nat /\ k # 0
            BY <1>1, <1>10, <1>19, <3>2, <4>1 DEF MessageFacts
          <5>2. PICK u \in Units : u.at = Begins(k) /\ u.msg = k
            BY <1>1 DEF MessageFacts
          <5>3. u.at + u.len <= Ends(k) /\ u.len \in Nat
            BY <1>1, <5>1, <5>2 DEF MessageFacts, UnitFacts
          <5>4. u.len >= 5
            BY <5>1, <5>2, PgsqlUnits
          <5> QED BY <3>1, <5>1, <5>2, <5>3, <5>4
        <4> QED BY <1>5, <3>1, <4>1
      <3>3. CASE state = "data"
        <4>1. h.what # "sslreply"
          BY <1>16, <1>19, <3>3
        <4>2. h.len >= 5
          BY <2>0, <4>1, PgsqlUnits
        <4>3. sent < offset + h.len
          BY <2>0, <3>1, <4>2
        <4> QED BY <1>5, <1>17, <1>19, <3>1, <3>3, <4>3
      <3> QED BY <3>1, <3>2, <3>3
    <2>2. CASE PgsqlSpecial
      <3>1. /\ state = "start" /\ h.what \in Special
            /\ IF Avail < 8 \/ Avail < h.len THEN WaitHere
               ELSE IF h.what = "ssl" THEN Ship(offset, offset + h.len, FALSE, TRUE)
               ELSE Advance(h.len, state, m)
        BY <2>2, Zenon DEF PgsqlSpecial, h
      <3>2. h.msg = 0
        BY <1>10, <1>19, <3>1 DEF Special
      <3>3. h.len >= 8
        BY <2>0, <3>1, PgsqlUnits
      <3>4. CASE Avail < 8 \/ Avail < h.len
        <4>1. WaitHere
          BY <3>1, <3>4, Zenon
        <4>2. sent < offset + h.len
          BY <2>0, <3>3, <3>4 DEF Avail
        <4> QED BY <1>5, <1>11, <1>19, <3>1, <4>1, <4>2
      <3>5. CASE ~(Avail < 8 \/ Avail < h.len)
        <4>1. offset + h.len <= sent
          BY <2>0, <3>5 DEF Avail
        <4>2. Ship(offset, offset + h.len, FALSE, TRUE) \/ Advance(h.len, state, m)
          BY <3>1, <3>5, Zenon
        <4> QED BY <1>12, <1>13, <1>19, <3>1, <3>2, <4>1, <4>2
      <3> QED BY <3>4, <3>5
    <2>3. CASE PgsqlSSLReply
      <3>1. state = "start" /\ h.what = "sslreply" /\ Ship(offset, offset + 1, FALSE, TRUE)
        BY <2>3, Zenon DEF PgsqlSSLReply, h
      <3>2. h.msg = 0
        BY <1>10, <1>19, <3>1
      <3>3. h.len = 1
        BY <2>0, <3>1, PgsqlUnits
      <3>4. offset + h.len <= sent /\ Ship(offset, offset + h.len, FALSE, TRUE)
        <4>1. offset + h.len <= sent
          BY <1>19, <3>3
        <4>2. Ship(offset, offset + h.len, FALSE, TRUE)
          BY <3>1, <3>3, Zenon
        <4> QED BY <4>1, <4>2
      <3> QED BY <1>13, <1>19, <3>1, <3>2, <3>4
    <2>4. CASE PgsqlMessage
      <3>1. /\ state = "start" /\ h.what \in {"Q", "I", "E", "C", "Z"}
            /\ IF Avail >= h.len THEN Ship(offset, offset + h.len, h.what # "Z", TRUE)
               ELSE Wait(offset, state, [m EXCEPT !.start = offset])
        BY <2>4, Zenon DEF PgsqlMessage, h
      <3>2. CASE ~(Avail >= h.len)
        <4>1. Wait(offset, state, [m EXCEPT !.start = offset])
          BY <3>1, <3>2, Zenon
        <4>2. sent < offset + h.len
          BY <2>0, <3>2 DEF Avail
        <4> QED BY <1>15, <1>19, <3>1, <4>1, <4>2, Zenon
      <3>3. CASE Avail >= h.len
        <4>1. Ship(offset, offset + h.len, h.what # "Z", TRUE)
          BY <3>1, <3>3, Zenon
        <4>2. offset + h.len <= sent
          BY <2>0, <3>3 DEF Avail
        <4>3. CASE h.what = "Z"
          <5>1. h.msg = 0
            BY <1>10, <1>19, <3>1, <4>3
          <5>2. Ship(offset, offset + h.len, FALSE, TRUE)
            BY <4>1, <4>3 DEF Ship
          <5> QED BY <1>13, <1>19, <3>1, <4>2, <5>1, <5>2
        <4>4. CASE h.what # "Z"
          <5>1. h.msg # 0
            BY <1>10, <1>19, <3>1, <4>4 DEF Special
          <5>2. Current \in DOMAIN Messages /\ Begins(Current) = offset /\ offset + h.len = Ends(Current)
            BY <1>10, <1>19, <3>1, <5>1
          <5>3. Ship(offset, offset + h.len, TRUE, TRUE)
            BY <4>1, <4>4 DEF Ship
          <5> QED BY <1>14, <4>2, <5>2, <5>3
        <4> QED BY <4>3, <4>4
      <3> QED BY <3>2, <3>3
    <2>5. CASE PgsqlRowDescription
      <3> DEFINE m1 == [m EXCEPT !.start = offset]
      <3>1. /\ state = "start" /\ h.what = "T"
            /\ IF Avail >= h.len THEN Advance(h.len, "data", m1) ELSE Wait(offset, state, m1)
        BY <2>5, Zenon DEF PgsqlRowDescription, h
      <3>2. CASE ~(Avail >= h.len)
        <4>1. Wait(offset, state, [m EXCEPT !.start = offset])
          BY <3>1, <3>2, Zenon
        <4>2. sent < offset + h.len
          BY <2>0, <3>2 DEF Avail
        <4> QED BY <1>15, <1>19, <3>1, <4>1, <4>2, Zenon
      <3>3. CASE Avail >= h.len
        <4>1. m1 \in MessageRecords /\ m1.there /\ m1.start = offset
          BY <1>2, <1>4, StartUpdates, Zenon
        <4>2. Advance(h.len, "data", m1)
          BY <3>1, <3>3, Zenon
        <4> HIDE DEF m1
        <4>3. offset + h.len <= sent
          BY <2>0, <3>3 DEF Avail
        <4>4. h.msg # 0
          BY <1>10, <1>19, <3>1 DEF Special
        <4>5. h.msg = Current /\ Begins(Current) = offset
              /\ \E v \in Units : v.msg = Current /\ offset < v.at
          BY <1>10, <1>19, <3>1, <4>4
        <4> QED BY <1>18, <1>19, <4>1, <4>2, <4>3, <4>5
      <3> QED BY <3>2, <3>3
    <2>6. CASE PgsqlIgnored
      <3>1. /\ state = "start" /\ h.what \in {"D", "other"}
            /\ IF Avail >= h.len THEN Advance(h.len, state, m) ELSE WaitHere
        BY <2>6, Zenon DEF PgsqlIgnored, h
      <3>2. h.msg = 0
        BY <1>10, <1>19, <3>1
      <3>3. CASE ~(Avail >= h.len)
        <4>1. WaitHere
          BY <3>1, <3>3, Zenon
        <4>2. sent < offset + h.len
          BY <2>0, <3>3 DEF Avail
        <4> QED BY <1>5, <1>11, <1>19, <3>1, <4>1, <4>2
      <3>4. CASE Avail >= h.len
        <4>1. Advance(h.len, state, m)
          BY <3>1, <3>4, Zenon
        <4>2. offset + h.len <= sent
          BY <2>0, <3>4 DEF Avail
        <4> QED BY <1>12, <1>19, <3>1, <3>2, <4>1, <4>2
      <3> QED BY <3>3, <3>4
    <2>7. CASE PgsqlRow
      <3> DEFINE m1 == [m EXCEPT !.n = m.n + 1]
      <3>1. /\ state = "data" /\ h.what = "D"
            /\ IF Avail >= h.len THEN Advance(h.len, state, m1) ELSE WaitHere
        BY <2>7, Zenon DEF PgsqlRow, pgsqlRowsParser, h
      <3>2. CASE ~(Avail >= h.len)
        <4>1. WaitHere
          BY <3>1, <3>2, Zenon
        <4>2. sent < offset + h.len
          BY <2>0, <3>2 DEF Avail
        <4> QED BY <1>5, <1>17, <1>19, <3>1, <4>1, <4>2
      <3>3. CASE Avail >= h.len
        <4>1. m.n \in Nat
          BY <1>2 DEF MessageRecords
        <4>2. m.n + 1 \in Nat
          BY <4>1
        <4>3. m1 \in MessageRecords /\ m1.there /\ m1.start = m.start
          BY <1>2, <1>4, <4>2, MessageUpdates, Zenon
        <4>4. Advance(h.len, "data", m1)
          BY <3>1, <3>3, Zenon
        <4> HIDE DEF m1
        <4>5. offset + h.len <= sent
          BY <2>0, <3>3 DEF Avail
        <4>6. h.msg = Current /\ m.start = Begins(Current)
              /\ \E v \in Units : v.msg = Current /\ offset < v.at
          BY <1>16, <1>19, <3>1
        <4> QED BY <1>18, <1>19, <4>3, <4>4, <4>5, <4>6
      <3> QED BY <3>2, <3>3
    <2>8. CASE PgsqlRowsEnd
      <3>1. /\ state = "data" /\ h.what = "C"
            /\ IF Avail >= h.len THEN Ship(m.start, offset + h.len, TRUE, TRUE) ELSE WaitHere
        BY <2>8, Zenon DEF PgsqlRowsEnd, h
      <3>2. CASE ~(Avail >= h.len)
        <4>1. WaitHere
          BY <3>1, <3>2, Zenon
        <4>2. sent < offset + h.len
          BY <2>0, <3>2 DEF Avail
        <4> QED BY <1>5, <1>17, <1>19, <3>1, <4>1, <4>2
      <3>3. CASE Avail >= h.len
        <4>1. Ship(m.start, offset + h.len, TRUE, TRUE)
          BY <3>1, <3>3, Zenon
        <4>2. offset + h.len <= sent
          BY <2>0, <3>3 DEF Avail
        <4>3. Current \in DOMAIN Messages /\ m.start = Begins(Current)
              /\ offset + h.len = Ends(Current)
          BY <1>16, <1>19, <3>1
        <4> QED BY <1>14, <4>1, <4>2, <4>3
      <3> QED BY <3>2, <3>3
    <2>9. ~PgsqlSkip
      BY <1>16, <1>19 DEF PgsqlSkip, h
    <2>10. ~EndOfData("pgsql")
      BY <1>19 DEF EndOfData, Avail
    <2> QED BY <2>1, <2>2, <2>3, <2>4, <2>5, <2>6, <2>7, <2>8, <2>9, <2>10 DEF PgsqlStep
  <1> QED BY <1>8, <1>19

\* A gap hands on the rows that were read, a part of the current message.
LEMMA PgsqlGap ==
    ASSUME wire \in Wires, ~Misread, Live, PgsqlGapInStream
    PROVE  Settled'
  <1>1. UnitFacts /\ MessageFacts
    BY StreamFacts
  <1>2. /\ Types /\ Handed /\ PgsqlPlace /\ wire.proto = "pgsql"
        /\ wire' = wire /\ ended' = "gap" /\ m \in MessageRecords
        /\ shipped' = IF m.there /\ m.n > 0 THEN Append(shipped, <<m.start, offset>>) ELSE shipped
    BY DEF Live, Place, PgsqlGapInStream, Types
  <1>3. Messages' = Messages
    BY <1>2, SameStream
  <1>4. shipped \in Seq(Nat \X Nat) /\ Len(shipped) \in Nat /\ offset \in Nat /\ m.start \in Nat
    BY <1>2 DEF Types, MessageRecords
  <1>5. ShippedAsSent'
    <2>1. CASE m.there /\ m.n > 0
      <3>1. Inside /\ m.start = Begins(Current)
        BY <1>2, <2>1 DEF PgsqlPlace
      <3>2. /\ Current \in DOMAIN Messages /\ offset < Ends(Current)
        BY <3>1 DEF Inside
      <3>3. /\ Len(shipped') = Current /\ Current = Len(shipped) + 1
            /\ \A i \in 1 .. Len(shipped) : shipped'[i] = shipped[i]
            /\ shipped'[Current] = <<m.start, offset>>
        BY <1>2, <1>4, <2>1 DEF Current
      <3>4. ASSUME NEW i \in 1 .. Len(shipped')
            PROVE  /\ i \in DOMAIN Messages /\ shipped'[i][1] = Messages[i][1]
                   /\ \/ shipped'[i][2] = Messages[i][2]
                      \/ i = Len(shipped') /\ shipped'[i][2] < Messages[i][2]
        <4>1. CASE i = Current
          BY <3>1, <3>2, <3>3, <4>1 DEF Begins, Ends
        <4>2. CASE i # Current
          <5>1. i \in 1 .. Len(shipped)
            BY <1>4, <3>3, <4>2
          <5> QED BY <1>2, <3>3, <5>1 DEF Handed
        <4> QED BY <4>1, <4>2
      <3> QED BY <1>2, <1>3, <3>4 DEF ShippedAsSent
    <2>2. CASE ~(m.there /\ m.n > 0)
      BY <1>2, <1>3, <2>2 DEF ShippedAsSent, Handed
    <2> QED BY <2>1, <2>2
  <1>6. KeepsItsPlace'
    BY <1>2 DEF KeepsItsPlace
  <1> QED BY <1>2, <1>5, <1>6 DEF Settled, FinShipsBegun

-------------------------------------------------------------------------------
(* thrift.                                                                 *)

\* What the grammar says: what follows a unit, and where a message ends.
LEMMA ThriftUnits ==
    ASSUME wire \in Wires, wire.proto = "thrift", NEW u \in Units
    PROVE  /\ u.msg # 0
           /\ u.at = Begins(u.msg) => u.what \in {"frame", "begin", "reply"}
           /\ u.what = "frame" => \E v \in Units :
                 v.at = u.at + u.len /\ v.msg = u.msg /\ v.what \in {"begin", "reply"}
           /\ u.what \in {"begin", "field"} => \E v \in Units :
                 v.at = u.at + u.len /\ v.msg = u.msg /\ v.what \in {"field", "stop"}
           /\ u.what = "stop" => u.len = 1 /\ u.at + u.len = Ends(u.msg)
           /\ u.what = "reply" => ~CaptureReply /\ \A v \in Units : v.what # "begin"
  <1>1. ThriftStream(wire) /\ Units = UnitsOf(wire)
    BY ThriftGrammar DEF Units
  <1>2. u.msg # 0
    BY <1>1 DEF ThriftStream
  <1>3. /\ u.at = Begins(u.msg) => Opens(wire, u)
        /\ Closes(wire, u) => u.at + u.len = Ends(u.msg)
        /\ ~Closes(wire, u) => \E v \in Units : v.at = u.at + u.len /\ v.msg = u.msg
    BY <1>2, ClosingUnit
  <1>4. \A kinds : GoesOn(wire, u, kinds) => \E v \in Units :
            v.at = u.at + u.len /\ v.msg = u.msg /\ v.what \in kinds
    BY <1>1, <1>3 DEF GoesOn, Follows
  <1>5. /\ Opens(wire, u) => u.what \in {"frame", "begin", "reply"}
        /\ u.what = "frame" => GoesOn(wire, u, {"begin", "reply"})
        /\ u.what \in {"begin", "field"} => GoesOn(wire, u, {"field", "stop"})
        /\ u.what = "stop" => u.len = 1 /\ Closes(wire, u)
        /\ u.what = "reply" => \A v \in Units : v.what # "begin"
    BY <1>1 DEF ThriftStream
  <1>6. u.what = "reply" => ~CaptureReply
    BY DEF CaptureReply, Has
  <1> QED BY <1>2, <1>3, <1>4, <1>5, <1>6

\* In the start state a message begins, with a frame or without.
LEMMA ThriftHere ==
    ASSUME wire \in Wires, wire.proto = "thrift", Types, Handed, Parted, ThriftPlace, parsing,
           state = "start", offset < sent
    PROVE  /\ ~skipInput /\ Current \in DOMAIN Messages /\ Begins(Current) = offset
           /\ base = offset
           /\ Begin \in Units /\ Begin.msg = Current /\ Begin.what \in {"begin", "reply"}
           /\ offset <= Begin.at
  <1>1. UnitFacts /\ MessageFacts
    BY StreamFacts
  <1> sent \in Nat /\ offset \in Nat /\ base \in Nat
    BY DEF Types
  <1>2. ~skipInput /\ offset = base
    BY DEF ThriftPlace
  <1>3. /\ AtUnit(base) /\ \A k \in DOMAIN Messages : k >= Current => base <= Begins(k)
    BY <1>2 DEF Parted
  <1>4. Here \in Units /\ Here.at = offset
    BY <1>2, <1>3, UnitHere
  <1>5. Here.msg # 0
    BY <1>4, ThriftUnits
  <1>6. Here.msg = Current /\ Current \in DOMAIN Messages /\ Begins(Current) = offset
    BY <1>2, <1>3, <1>4, <1>5, OpensHere
  <1>7. Here.what \in {"frame", "begin", "reply"}
    BY <1>4, <1>6, ThriftUnits
  <1>8. CASE Here.what = "frame"
    <2>1. PICK v \in Units : v.at = offset + Here.len /\ v.msg = Current /\ v.what \in {"begin", "reply"}
      BY <1>4, <1>6, <1>8, ThriftUnits
    <2>2. Begin = v
      BY <1>1, <1>8, <2>1 DEF Begin, UnitFacts
    <2>3. offset <= v.at
      BY <1>1, <1>4, <2>1 DEF UnitFacts
    <2> QED BY <1>2, <1>6, <2>1, <2>2, <2>3
  <1>9. CASE Here.what # "frame"
    <2>1. Begin = Here
      BY <1>9 DEF Begin
    <2>2. offset <= Here.at
      BY <1>4
    <2> QED BY <1>2, <1>4, <1>6, <1>7, <1>9, <2>1, <2>2
  <1> QED BY <1>8, <1>9

\* Among the fields.
LEMMA ThriftFieldHere ==
    ASSUME wire \in Wires, wire.proto = "thrift", Types, ThriftPlace, state = "field",
           offset < sent
    PROVE  /\ CaptureReply /\ ~skipInput
           /\ Here \in Units /\ Here.at = offset /\ Here.msg = Current
           /\ Current \in DOMAIN Messages /\ base = Begins(Current)
           /\ Here.what \in {"field", "stop"}
  <1>1. UnitFacts /\ MessageFacts
    BY StreamFacts
  <1> sent \in Nat /\ offset \in Nat /\ base \in Nat
    BY DEF Types
  <1>2. /\ CaptureReply /\ ~skipInput /\ Inside /\ base = Begins(Current)
        /\ \A u \in Units : u.at = offset => u.what \in {"field", "stop"}
    BY DEF ThriftPlace
  <1>3. /\ Current \in DOMAIN Messages /\ Begins(Current) < offset /\ offset < Ends(Current)
        /\ AtUnit(offset)
    BY <1>2 DEF Inside
  <1>4. Here \in Units /\ Here.at = offset
    BY <1>3, UnitHere
  <1>5. Begins(Current) <= Here.at /\ Here.at < Ends(Current)
    BY <1>2, <1>3, <1>4
  <1>6. Here.msg = Current
    BY <1>1, <1>3, <1>4, <1>5 DEF MessageFacts
  <1> QED BY <1>2, <1>3, <1>4, <1>6

\* A reply is handed on as a whole when its beginning is there; the rest of what is in
\* the buffer belongs to it.
LEMMA ThriftReplyKeeps ==
    ASSUME wire \in Wires, wire.proto = "thrift", Live, ~CaptureReply, ~skipInput,
           Current \in DOMAIN Messages, Begins(Current) < sent, sent <= Ends(Current),
           shipped' = Append(shipped, Messages[Current]), base' = sent, offset' = sent,
           state' = "start", m' = NoMessage, ~parsing', parsing' \in BOOLEAN, skipInput' = TRUE,
           wire' = wire, sent' = sent, ended' = ended
    PROVE  Live'
  <1>1. UnitFacts /\ MessageFacts
    BY StreamFacts
  <1>2. Types /\ Handed /\ Parted /\ ended = ""
    BY DEF Live
  <1> sent \in Nat /\ sent <= Total /\ shipped \in Seq(Nat \X Nat)
    BY <1>2, Zenon DEF Types
  <1> Len(shipped) \in Nat /\ Current = Len(shipped) + 1
    BY DEF Current
  <1>3. /\ Units' = Units /\ Total' = Total /\ Messages' = Messages
        /\ CaptureReply' = CaptureReply
        /\ \A k : Begins(k)' = Begins(k) /\ Ends(k)' = Ends(k)
    BY SameStream
  <1>4. Messages[Current] \in Nat \X Nat
    <2>1. /\ Messages[Current] = <<Begins(Current), Ends(Current)>>
          /\ Begins(Current) \in Nat /\ Ends(Current) \in Nat
      BY <1>1 DEF MessageFacts
    <2> QED BY <2>1
  <1>5. /\ shipped' \in Seq(Nat \X Nat) /\ Len(shipped') = Current
        /\ \A i \in 1 .. Len(shipped) : shipped'[i] = shipped[i]
        /\ shipped'[Current] = Messages[Current]
    BY <1>4
  <1>6. ASSUME NEW k \in DOMAIN Messages, k >= Current + 1
        PROVE  sent <= Begins(k) /\ sent < Ends(k)
    <2>1. /\ Ends(Current) <= Begins(k) /\ Begins(k) < Ends(k)
          /\ Ends(Current) \in Nat /\ Begins(k) \in Nat /\ Ends(k) \in Nat
      BY <1>1, <1>6 DEF MessageFacts
    <2> QED BY <2>1
  <1>7. Current' = Current + 1
    BY <1>5 DEF Current
  <1>8. Types'
    <2>1. sent' \in Nat /\ base' \in Nat /\ offset' \in Nat
          /\ base' <= offset' /\ offset' <= sent' /\ sent' <= Total'
      BY <1>3
    <2>2. m' \in MessageRecords /\ (~m'.there => m' = NoMessage)
      BY MessageTypes
    <2> QED BY <1>5, <2>1, <2>2 DEF Types
  <1>9. Handed'
    <2> SUFFICES ASSUME NEW i \in 1 .. Len(shipped')
                 PROVE  i \in DOMAIN Messages /\ shipped'[i] = Messages[i]
      BY <1>3 DEF Handed
    <2>1. CASE i = Current
      BY <1>5, <2>1
    <2>2. CASE i # Current
      <3>1. i \in 1 .. Len(shipped)
        BY <1>5, <2>2
      <3> QED BY <1>2, <1>5, <3>1 DEF Handed
    <2> QED BY <2>1, <2>2
  <1>10. Parted'
    BY <1>3, <1>6, <1>7 DEF Parted
  <1>11. Exhausted'
    BY <1>3, <1>6, <1>7 DEF Exhausted
  <1>12. ThriftPlace'
    BY <1>3, <1>5 DEF ThriftPlace
  <1> QED BY <1>2, <1>8, <1>9, <1>10, <1>11, <1>12 DEF Live, Place

\* Every step of the parser of thrift keeps the invariant.
LEMMA ThriftKeeps ==
    ASSUME wire \in Wires, ~Misread, wire.proto = "thrift", Live, ThriftStep
    PROVE  Live' \/ Settled'
  <1>1. UnitFacts /\ MessageFacts
    BY StreamFacts
  <1>2. Types /\ Handed /\ Parted /\ ThriftPlace /\ ended = "" /\ m \in MessageRecords
    BY DEF Live, Place, Types
  <1> sent \in Nat /\ offset \in Nat /\ base \in Nat /\ offset <= sent /\ sent <= Total
    BY DEF Live, Types
  <1>3. parsing
    BY DEF ThriftStep, ThriftBegin, ThriftReply, ThriftRefuses, ThriftField, ThriftStructPanic,
           ThriftStop, ThriftEndOfData, EndOfData, AtWork
  <1>4. m.there
    BY <1>2, <1>3 DEF Types
  <1>5. ASSUME WaitHere, skipInput' = skipInput,
               \A k \in DOMAIN Messages : k >= Current => sent < Ends(k)
        PROVE  Live'
    BY <1>3, <1>5, WaitsHere
  <1>6. ASSUME Types', Handed', Parted', Exhausted', wire' = wire, ended' = ended, ThriftPlace'
        PROVE  Live'
    BY <1>2, <1>6 DEF Live, Place
  \* To the next field.
  <1>7. ASSUME NEW u \in Units, u.msg = Current, u.what \in {"begin", "field"}, CaptureReply,
               ~skipInput, skipInput' = skipInput, base = Begins(Current),
               NEW len \in Nat, offset + len = u.at + u.len, offset + len <= sent,
               Advance(len, "field", m)
        PROVE  Live'
    <2>1. /\ Types' /\ Handed' /\ Parted' /\ Current' = Current /\ Exhausted'
          /\ wire' = wire /\ base' = base /\ ended' = ended
          /\ offset' = offset + len /\ state' = "field" /\ m' = m
      BY <1>2, <1>3, <1>4, <1>7, Advances
    <2>2. /\ Units' = Units /\ CaptureReply' = CaptureReply
          /\ \A k : Begins(k)' = Begins(k)
      BY <2>1, SameStream
    <2>3. PICK v \in Units : v.at = u.at + u.len /\ v.msg = Current /\ v.what \in {"field", "stop"}
      BY <1>7, ThriftUnits
    <2>4. u.at < v.at
      BY <1>1, <2>3 DEF UnitFacts
    <2>5. Inside'
      BY <1>2, <1>7, <2>1, <2>3, <2>4, StaysInside
    <2>6. \A w \in Units : w.at = offset' => w.what \in {"field", "stop"}
      BY <1>1, <1>7, <2>1, <2>3 DEF UnitFacts
    <2>7. ThriftPlace'
      BY <1>7, <2>1, <2>2, <2>5, <2>6 DEF ThriftPlace
    <2> QED BY <1>6, <2>1, <2>7
  <1>8. CASE ThriftBegin
    <2>1. state = "start" /\ Avail > 0 /\ Begin.what # "reply" /\ skipInput' = skipInput
          /\ IF BeginRead THEN Advance(Begin.at + Begin.len - offset, "field", m) ELSE WaitHere
      BY <1>8 DEF ThriftBegin
    <2>2. offset < sent
      BY <2>1 DEF Avail
    <2>3. /\ ~skipInput /\ Current \in DOMAIN Messages /\ Begins(Current) = offset
          /\ base = offset
          /\ Begin \in Units /\ Begin.msg = Current /\ Begin.what \in {"begin", "reply"}
          /\ offset <= Begin.at
      BY <1>2, <1>3, <2>1, <2>2, ThriftHere
    <2> DEFINE b == Begin
    <2>4. b.what = "begin" /\ b.at \in Nat /\ b.len \in Nat
      BY <1>1, <2>1, <2>3 DEF UnitFacts
    <2>5. CaptureReply
      BY <2>3, <2>4, ThriftUnits DEF CaptureReply, Has
    <2>6. CASE BeginRead
      <3> DEFINE len == b.at + b.len - offset
      <3>1. Advance(len, "field", m)
        BY <2>1, <2>6, Zenon
      <3>2. b.at + b.len <= sent
        BY <2>4, <2>6 DEF BeginRead
      <3> b \in Units /\ b.msg = Current /\ offset <= b.at
        BY <2>3
      <3> HIDE DEF b
      <3>3. len \in Nat /\ offset + len = b.at + b.len /\ offset + len <= sent
        BY <2>4, <3>2
      <3> HIDE DEF len
      <3>4. b.what \in {"begin", "field"} /\ base = Begins(Current)
        BY <2>3, <2>4
      <3> QED BY <1>7, <2>1, <2>3, <2>5, <3>1, <3>3, <3>4
    <2>7. CASE ~BeginRead
      <3>1. sent < b.at + b.len
        BY <2>4, <2>7 DEF BeginRead
      <3>2. WaitHere /\ \A k \in DOMAIN Messages : k >= Current => sent < Ends(k)
        BY <1>2, <2>1, <2>3, <2>7, <3>1, CurrentNotThere
      <3> QED BY <1>5, <2>1, <3>2
    <2> QED BY <2>6, <2>7
  <1>9. CASE ThriftReply
    <2>1. state = "start" /\ Avail > 0 /\ Begin.what = "reply"
      BY <1>9 DEF ThriftReply
    <2>2. offset < sent
      BY <2>1 DEF Avail
    <2>3. /\ ~skipInput /\ Current \in DOMAIN Messages /\ Begins(Current) = offset
          /\ base = offset /\ Begin \in Units /\ Begin.msg = Current
      BY <1>2, <1>3, <2>1, <2>2, ThriftHere
    <2>4. ~CaptureReply
      BY <2>1, <2>3, ThriftUnits
    <2>5. sent <= Ends(Current) /\ Begins(Current) < sent
      BY <1>2, <2>2, <2>3, <2>4 DEF ThriftPlace
    <2>6. CASE BeginRead
      <3>1. /\ shipped' = Append(shipped, Messages[Current]) /\ base' = sent /\ offset' = sent
            /\ state' = "start" /\ m' = NoMessage /\ ~parsing' /\ parsing' \in BOOLEAN
            /\ skipInput' = TRUE /\ wire' = wire /\ sent' = sent /\ ended' = ended
        BY <1>9, <2>3, <2>6 DEF ThriftReply
      <3> QED BY <2>3, <2>4, <2>5, <3>1, ThriftReplyKeeps
    <2>7. CASE ~BeginRead
      <3>1. WaitHere /\ skipInput' = skipInput
        BY <1>9, <2>7 DEF ThriftReply
      <3>2. Begin.at \in Nat /\ Begin.len \in Nat
        BY <1>1, <2>3 DEF UnitFacts
      <3>3. sent < Begin.at + Begin.len
        BY <2>7, <3>2 DEF BeginRead
      <3>4. \A k \in DOMAIN Messages : k >= Current => sent < Ends(k)
        BY <1>2, <2>3, <3>3, CurrentNotThere
      <3> QED BY <1>5, <3>1, <3>4
    <2> QED BY <2>6, <2>7
  <1>10. ASSUME ThriftRefuses \/ ThriftField \/ ThriftStructPanic \/ ThriftStop PROVE Live' \/ Settled'
    <2> DEFINE h == Here
    <2>1. state = "field" /\ offset < sent /\ skipInput' = skipInput
      <3>1. state = "field" /\ Avail > 0 /\ skipInput' = skipInput
        BY <1>10 DEF ThriftRefuses, ThriftField, ThriftStructPanic, ThriftStop
      <3> QED BY <3>1 DEF Avail
    <2>2. /\ CaptureReply /\ ~skipInput /\ h \in Units /\ h.at = offset /\ h.msg = Current
          /\ Current \in DOMAIN Messages /\ base = Begins(Current)
          /\ h.what \in {"field", "stop"}
      BY <1>2, <2>1, ThriftFieldHere
    <2>3. h.len \in Nat /\ h.len > 0
      BY <1>1, <2>2 DEF UnitFacts
    <2>4. CASE ThriftField
      <3>1. /\ h.what = "field"
            /\ IF Avail >= h.len THEN Advance(h.len, "field", m) ELSE WaitHere
        BY <2>1, <2>4 DEF ThriftField, ValueComplete
      <3>2. CASE Avail >= h.len
        <4>1. offset + h.len <= sent /\ offset + h.len = h.at + h.len
          BY <2>2, <2>3, <3>2 DEF Avail
        <4>2. Advance(h.len, "field", m)
          BY <3>1, <3>2, Zenon
        <4> HIDE DEF h
        <4> QED BY <1>7, <2>1, <2>2, <2>3, <3>1, <4>1, <4>2
      <3>3. CASE ~(Avail >= h.len)
        <4>1. sent < h.at + h.len
          BY <2>2, <2>3, <3>3 DEF Avail
        <4>2. WaitHere
          BY <3>1, <3>3, Zenon
        <4>3. \A k \in DOMAIN Messages : k >= Current => sent < Ends(k)
          BY <1>2, <2>2, <4>1, CurrentNotThere
        <4> QED BY <1>5, <2>1, <4>2, <4>3
      <3> QED BY <3>2, <3>3
    <2>5. CASE ThriftStructPanic
      <3>1. sent - h.at \in h.inner /\ EndStream("panicked")
        BY <2>2, <2>5 DEF ThriftStructPanic, Avail
      <3>2. wire' = wire /\ sent' = sent /\ ended' = "panicked"
        BY <3>1 DEF EndStream
      <3>3. Units' = Units
        BY <3>2, SameStream
      <3>4. KeepsItsPlace'
        BY <2>2, <3>1, <3>2, <3>3 DEF KeepsItsPlace
      <3> QED BY <1>2, <3>1, <3>4, StreamEnds
    <2>6. CASE ThriftStop
      <3>1. h.what = "stop" /\ Ship(base, offset + 1, TRUE, TRUE)
        BY <2>6 DEF ThriftStop
      <3>2. offset + 1 = Ends(Current)
        BY <2>2, <3>1, ThriftUnits
      <3>3. Ship(Begins(Current), Ends(Current), TRUE, TRUE) /\ Ends(Current) <= sent
        <4>1. Ship(Begins(Current), Ends(Current), TRUE, TRUE)
          BY <2>2, <3>1, <3>2, Zenon
        <4>2. offset + 1 <= sent
          BY <2>1
        <4> QED BY <3>2, <4>1, <4>2
      <3>4. /\ Types' /\ Handed' /\ Parted' /\ wire' = wire /\ ended' = ended /\ Exhausted'
            /\ state' = "start" /\ offset' = base'
        BY <1>2, <2>1, <2>2, <3>3, ShipCurrent
      <3>5. CaptureReply' = CaptureReply
        BY <3>4, SameStream
      <3>6. ThriftPlace'
        BY <2>1, <2>2, <3>4, <3>5 DEF ThriftPlace
      <3> QED BY <1>6, <3>4, <3>6
    <2>7. CASE ThriftRefuses
      <3>1. h.n > 0 /\ sent - h.at >= h.n /\ EndStream("rejected")
        BY <2>2, <2>7 DEF ThriftRefuses, Refused, Avail
      <3>2. wire' = wire /\ sent' = sent /\ ended' = "rejected"
        BY <3>1 DEF EndStream
      <3>3. Units' = Units
        BY <3>2, SameStream
      <3>4. KeepsItsPlace'
        BY <2>2, <3>1, <3>2, <3>3 DEF KeepsItsPlace
      <3> QED BY <1>2, <3>1, <3>4, StreamEnds
    <2> QED BY <1>10, <2>4, <2>5, <2>6, <2>7
  <1>11. CASE ThriftEndOfData
    <2>1. offset = sent /\ WaitHere /\ skipInput' = skipInput
      <3>1. Avail = 0 /\ WaitHere /\ skipInput' = skipInput
        BY <1>11 DEF ThriftEndOfData, EndOfData
      <3> QED BY <3>1 DEF Avail
    <2>2. \A k \in DOMAIN Messages : k >= Current => sent < Ends(k)
      <3>1. CASE Inside
        BY <1>2, <2>1, <3>1, CurrentNotComplete DEF Inside
      <3>2. CASE ~Inside
        <4>1. offset = base
          BY <1>2, <3>2 DEF ThriftPlace
        <4>2. \A k \in DOMAIN Messages : k >= Current => base <= Begins(k)
          BY <1>2 DEF Parted
        <4> QED BY <1>2, <2>1, <4>1, <4>2, AllToCome
      <3> QED BY <3>1, <3>2
    <2> QED BY <1>5, <2>1, <2>2
  <1> QED BY <1>8, <1>9, <1>10, <1>11 DEF ThriftStep

\* A packet that is ignored belongs to the reply that was handed on last.
LEMMA ThriftSkipKeeps ==
    ASSUME wire \in Wires, Live, NEW len \in Nat, len > 0, ThriftSkip(len)
    PROVE  Live'
  <1> DEFINE L == Len(shipped)
  <1>1. UnitFacts /\ MessageFacts
    BY StreamFacts
  <1>2. /\ wire.proto = "thrift" /\ ended = "" /\ skipInput /\ skipInput' = skipInput
        /\ wire' = wire /\ state' = state /\ m' = m /\ parsing' = parsing /\ ended' = ended
        /\ shipped' = shipped /\ ThriftSendable(len) /\ base' = sent' /\ offset' = sent'
    BY DEF ThriftSkip
  <1>0. sent' = sent + len /\ base' = sent + len /\ offset' = sent + len /\ sent + len <= Total
    BY DEF ThriftSkip
  <1>3. Types /\ Handed /\ Parted /\ ThriftPlace
    BY <1>2 DEF Live, Place
  <1>4. /\ ~CaptureReply /\ state = "start" /\ ~parsing /\ m = NoMessage
        /\ L \in DOMAIN Messages /\ Begins(L) < sent /\ sent <= Ends(L)
    BY <1>2, <1>3 DEF ThriftPlace
  <1>5. sent \in Nat /\ L \in Nat /\ Current = L + 1
    BY <1>3 DEF Types, Current
  <1>6. PICK k \in DOMAIN Messages : Begins(k) < sent /\ sent + len <= Ends(k)
    <2>1. PICK k \in DOMAIN Messages : Begins(k) <= sent /\ sent + len <= Ends(k) /\ Begins(k) # sent
      BY <1>2, <1>4 DEF ThriftSendable, Begins, Ends
    <2>2. Begins(k) \in Nat
      BY <1>1 DEF MessageFacts
    <2>3. Begins(k) < sent
      BY <1>5, <2>1, <2>2
    <2> QED BY <2>1, <2>3
  <1> HIDE DEF L
  <1>7. k = L
    <2>1. /\ k \in Nat /\ Begins(k) \in Nat /\ Ends(k) \in Nat /\ Begins(L) \in Nat
          /\ Ends(L) \in Nat
          /\ k < L => Ends(k) <= Begins(L)
          /\ L < k => Ends(L) <= Begins(k)
      BY <1>1, <1>4 DEF MessageFacts
    <2> QED BY <1>4, <1>5, <1>6, <2>1
  <1>8. ASSUME NEW j \in DOMAIN Messages, j >= Current
        PROVE  sent + len <= Begins(j) /\ sent + len < Ends(j)
    <2>1. /\ Ends(L) \in Nat /\ Begins(j) \in Nat /\ Ends(j) \in Nat /\ Begins(j) < Ends(j)
          /\ j \in Nat
          /\ L < j => Ends(L) <= Begins(j)
      BY <1>1, <1>4 DEF MessageFacts
    <2> QED BY <1>5, <1>6, <1>7, <1>8, <2>1
  <1>9. /\ Units' = Units /\ Total' = Total /\ Messages' = Messages
        /\ CaptureReply' = CaptureReply /\ Current' = Current
        /\ \A j : Begins(j)' = Begins(j) /\ Ends(j)' = Ends(j)
    BY <1>2, SameStream DEF Current
  <1>10. Types'
    <2>1. sent' \in Nat /\ base' \in Nat /\ offset' \in Nat
          /\ base' <= offset' /\ offset' <= sent' /\ sent' <= Total'
      <3>1. Total' = Total /\ Total \in Nat
        BY <1>1, <1>9 DEF UnitFacts
      <3> QED BY <1>0, <1>5, <3>1
    <2>2. /\ m' \in MessageRecords /\ (~m'.there => m' = NoMessage)
          /\ parsing' \in BOOLEAN /\ (parsing' => m'.there)
          /\ shipped' \in Seq(Nat \X Nat)
      BY <1>2, <1>3 DEF Types
    <2>3. skipInput' \in BOOLEAN /\ (skipInput' => wire'.proto = "thrift")
      BY <1>2, <1>3 DEF Types
    <2> QED BY <2>1, <2>2, <2>3 DEF Types
  <1>11. Handed'
    BY <1>2, <1>3, <1>9 DEF Handed
  <1>12. Parted'
    <2>1. \A j \in DOMAIN Messages : j >= Current => base' <= Begins(j)
      BY <1>0, <1>8
    <2>2. skipInput'
      BY <1>2
    <2> QED BY <1>9, <2>1, <2>2 DEF Parted
  <1>13. Exhausted'
    <2>1. \A j \in DOMAIN Messages : j >= Current => sent' < Ends(j)
      BY <1>0, <1>8
    <2> QED BY <1>2, <1>9, <2>1 DEF Exhausted
  <1>14. ThriftPlace'
    <2>1. Begins(L) < sent' /\ sent' <= Ends(L)
      <3>1. Begins(L) \in Nat /\ Ends(L) \in Nat
        BY <1>1, <1>4 DEF MessageFacts
      <3>2. Begins(L) < sent
        BY <1>4
      <3> QED BY <1>0, <1>5, <1>6, <1>7, <3>1, <3>2
    <2> QED BY <1>2, <1>4, <1>9, <2>1 DEF ThriftPlace, L
  <1> QED BY <1>2, <1>10, <1>11, <1>12, <1>13, <1>14 DEF Live, Place

\* The direction is taken up again where the next reply begins.
LEMMA ThriftResumeKeeps ==
    ASSUME wire \in Wires, Live, ThriftResume
    PROVE  Live'
  <1> DEFINE L == Len(shipped)
  <1>1. UnitFacts /\ MessageFacts
    BY StreamFacts
  <1>2. /\ wire.proto = "thrift" /\ ended = "" /\ skipInput /\ skipInput' = FALSE
        /\ sent' = sent /\ base' = base /\ offset' = offset
        /\ wire' = wire /\ state' = state /\ m' = m /\ parsing' = parsing /\ ended' = ended
        /\ shipped' = shipped
    BY DEF ThriftResume, wireVars
  <1>3. Types /\ Handed /\ Parted /\ ThriftPlace /\ Exhausted
    BY <1>2 DEF Live, Place
  <1>4. /\ ~CaptureReply /\ state = "start" /\ offset = base /\ base = sent
        /\ L \in DOMAIN Messages /\ Begins(L) < sent /\ sent <= Ends(L)
    BY <1>2, <1>3 DEF ThriftPlace
  <1>5. sent \in Nat /\ L \in Nat /\ Current = L + 1
    BY <1>3 DEF Types, Current
  <1>6. PICK k \in DOMAIN Messages : Begins(k) = sent
    BY DEF ThriftResume, Begins
  <1> HIDE DEF L
  <1>7. /\ k \in Nat /\ Begins(k) \in Nat /\ Ends(k) \in Nat /\ Begins(L) \in Nat
        /\ Ends(L) \in Nat /\ Begins(k) < Ends(k)
    BY <1>1, <1>4 DEF MessageFacts
  <1>8. L < k
    <2>1. k < L => Ends(k) <= Begins(L)
      BY <1>1, <1>4 DEF MessageFacts
    <2> QED BY <1>4, <1>5, <1>6, <1>7, <2>1
  <1>9. Current \in 1 .. k
    BY <1>5, <1>7, <1>8
  <1>10. Current \in DOMAIN Messages
    BY <1>1, <1>9 DEF MessageFacts
  <1>11. k = Current
    <2>1. /\ Begins(Current) \in Nat /\ Ends(Current) \in Nat /\ Begins(Current) < Ends(Current)
          /\ L < Current => Ends(L) <= Begins(Current)
          /\ Current < k => Ends(Current) <= Begins(k)
      BY <1>1, <1>4, <1>10 DEF MessageFacts
    <2> QED BY <1>4, <1>5, <1>6, <1>7, <1>8, <2>1
  <1>12. /\ Units' = Units /\ Total' = Total /\ Messages' = Messages
         /\ CaptureReply' = CaptureReply /\ Current' = Current
         /\ \A j : Begins(j)' = Begins(j) /\ Ends(j)' = Ends(j)
    BY <1>2, SameStream DEF Current
  <1>13. Types'
    BY <1>2, <1>3, <1>12 DEF Types
  <1>14. Handed'
    BY <1>2, <1>3, <1>12 DEF Handed
  <1>15. Parted'
    <2>1. \A j \in DOMAIN Messages : j >= Current => base <= Begins(j)
      BY <1>3 DEF Parted
    <2>2. AtUnit(base)
      BY <1>1, <1>4, <1>6 DEF MessageFacts, AtUnit
    <2>3. ASSUME NEW j \in DOMAIN Messages, j < Current PROVE Ends(j) <= base
      BY <1>1, <1>4, <1>6, <1>11, <2>3 DEF MessageFacts
    <2> QED BY <1>2, <1>12, <2>1, <2>2, <2>3 DEF Parted, AtUnit
  <1>16. Exhausted'
    BY <1>2, <1>3, <1>12 DEF Exhausted
  <1>17. ThriftPlace'
    <2>1. Begins(Current) = base /\ sent <= Ends(Current)
      BY <1>4, <1>6, <1>7, <1>11
    <2> QED BY <1>2, <1>4, <1>10, <1>12, <2>1 DEF ThriftPlace
  <1> QED BY <1>2, <1>13, <1>14, <1>15, <1>16, <1>17 DEF Live, Place

-------------------------------------------------------------------------------
(* Packets, and the first state.                                           *)

\* A packet that is appended moves no parser.
LEMMA AppendKeeps ==
    ASSUME wire \in Wires, Live, NEW len \in Nat, len > 0, ~skipInput, skipInput' = skipInput,
           wire.proto = "thrift" => ThriftSendable(len), AppendPacket(len)
    PROVE  Live'
  <1>1. UnitFacts /\ MessageFacts
    BY StreamFacts
  <1>2. /\ ~skipInput /\ skipInput' = skipInput /\ ~parsing
        /\ (wire.proto = "thrift" => ThriftSendable(len))
        /\ m' = IF m.there THEN m ELSE NewMessage(base)
        /\ parsing' = TRUE /\ wire' = wire /\ base' = base /\ offset' = offset
        /\ state' = state /\ ended' = ended /\ shipped' = shipped
    BY DEF AppendPacket
  <1>0. /\ sent + len <= Total /\ sent' = sent + len /\ base' = base /\ offset' = offset
    BY DEF AppendPacket
  <1>3. Types /\ Handed /\ Parted /\ Place /\ Exhausted
    BY DEF Live
  <1>4. /\ Units' = Units /\ Total' = Total /\ Messages' = Messages
        /\ CaptureReply' = CaptureReply /\ Current' = Current
        /\ \A j : Begins(j)' = Begins(j) /\ Ends(j)' = Ends(j)
    BY <1>2, SameStream DEF Current
  <1>5. sent \in Nat /\ base \in Nat /\ offset \in Nat /\ base <= offset /\ offset <= sent
    BY <1>3 DEF Types
  <1>7. /\ m' \in MessageRecords /\ m'.there /\ (m.there => m' = m)
        /\ ~m.there => /\ m'.start = base /\ m.n = 0
                       /\ m'.n = 0 /\ m'.received = 0 /\ m'.flags = {} /\ m'.end = 0
    <2>1. CASE m.there
      BY <1>2, <1>3, <2>1 DEF Types
    <2>2. CASE ~m.there
      <3>1. m = NoMessage /\ m' = NewMessage(base)
        BY <1>2, <1>3, <2>2 DEF Types
      <3> QED BY <1>5, <2>2, <3>1, MessageTypes
    <2> QED BY <2>1, <2>2
  <1>8. Types'
    <2>1. sent' \in Nat /\ base' \in Nat /\ offset' \in Nat
          /\ base' <= offset' /\ offset' <= sent' /\ sent' <= Total'
      <3>1. Total' = Total /\ Total \in Nat
        BY <1>1, <1>4 DEF UnitFacts
      <3> QED BY <1>0, <1>5, <3>1
    <2>2. parsing' \in BOOLEAN /\ shipped' \in Seq(Nat \X Nat)
          /\ skipInput' \in BOOLEAN /\ (skipInput' => wire'.proto = "thrift")
      BY <1>2, <1>3 DEF Types
    <2> QED BY <1>7, <2>1, <2>2 DEF Types
  <1>9. Handed' /\ Parted'
    BY <1>2, <1>3, KeptBase
  <1>10. Exhausted'
    BY <1>2 DEF Exhausted
  <1>11. Inside' = Inside /\ Remaining(offset)' = Remaining(offset)
    BY <1>2, <1>4 DEF Inside, AtUnit, Remaining
  <1>12. RedisPlace => RedisPlace'
    BY <1>2, <1>4, <1>7, <1>11 DEF RedisPlace
  <1>13. MysqlPlace => MysqlPlace'
    <2>1. \A u \in Units : u.len > 0 /\ u.len \in Nat
      BY <1>1 DEF UnitFacts
    <2> SUFFICES ASSUME MysqlPlace PROVE MysqlPlace'
      OBVIOUS
    <2>2. /\ wire' = wire /\ base' = base /\ offset' = offset /\ state' = state
          /\ Units' = Units /\ Current' = Current /\ \A j : Begins(j)' = Begins(j)
          /\ Inside' = Inside
      BY <1>2, <1>4, <1>11
    <2>3. CASE m.there
      <3>1. m' = m
        BY <1>7, <2>3
      <3> QED BY <2>2, <3>1 DEF MysqlPlace
    <2>4. CASE ~m.there
      <3>1. m.n = 0 /\ m'.start = base /\ m'.flags = {} /\ m'.end = 0
        BY <1>7, <2>4
      <3>2. ~(\E u \in Units : m.n = u.len)
        BY <2>1, <3>1
      <3> QED BY <2>2, <3>1, <3>2 DEF MysqlPlace
    <2> QED BY <2>3, <2>4
  <1>14. PgsqlPlace => PgsqlPlace'
    BY <1>2, <1>4, <1>7, <1>11 DEF PgsqlPlace, AtUnit
  <1>15. HttpPlace => HttpPlace'
    <2>1. HeadersRead /\ m.there => HeadersRead'
      BY <1>2, <1>4, <1>7 DEF HeadersRead, Passed
    <2>2. InBody /\ m.there => InBody'
      BY <1>2, <1>4, <1>7 DEF InBody, OpenEnded
    <2>3. InChunk /\ m.there => InChunk'
      BY <1>2, <1>4, <1>7 DEF InChunk
    <2> QED BY <1>2, <1>4, <1>7, <1>11, <2>1, <2>2, <2>3 DEF HttpPlace
  <1>16. ASSUME wire.proto = "thrift" PROVE ThriftPlace'
    <2>0. ThriftPlace
      BY <1>3, <1>16 DEF Place
    <2>1. CASE CaptureReply
      BY <1>2, <1>4, <1>11, <2>0, <2>1 DEF ThriftPlace
    <2>2. CASE ~CaptureReply
      <3>1. /\ state = "start" /\ offset = base /\ Current \in DOMAIN Messages
            /\ base = Begins(Current) /\ sent <= Ends(Current)
        BY <1>2, <2>0, <2>2 DEF ThriftPlace
      <3>2. PICK k \in DOMAIN Messages : Begins(k) <= sent /\ sent + len <= Ends(k)
        BY <1>2, <1>16, <2>2 DEF ThriftSendable, Begins, Ends
      <3>3. sent < Ends(Current)
        <4>1. \A j \in DOMAIN Messages : j >= Current => sent < Ends(j)
          BY <1>2, <1>3, <1>16 DEF Exhausted
        <4>2. Current \in Nat
          BY <1>1, <3>1 DEF MessageFacts
        <4>3. Current >= Current
          BY <4>2
        <4> QED BY <3>1, <4>1, <4>3
      <3>4. /\ k \in Nat /\ Ends(k) \in Nat /\ Begins(k) \in Nat /\ Current \in Nat
            /\ Ends(Current) \in Nat
            /\ k < Current => Ends(k) <= Begins(Current)
            /\ Current < k => Ends(Current) <= Begins(k)
        BY <1>1, <3>1 DEF MessageFacts
      <3>5. k = Current
        BY <1>5, <3>1, <3>2, <3>3, <3>4
      <3>6. sent' <= Ends(Current)
        BY <1>0, <3>2, <3>5
      <3> QED BY <1>2, <1>4, <2>2, <3>1, <3>6 DEF ThriftPlace
    <2> QED BY <2>1, <2>2
  <1>17. MysqlWaits'
    BY <1>2 DEF MysqlWaits
  <1>18. Place'
    BY <1>2, <1>3, <1>17, <1>12, <1>13, <1>14, <1>15, <1>16 DEF Place
  <1>19. ended' = ""
    BY <1>2 DEF Live
  <1> QED BY <1>8, <1>9, <1>10, <1>18, <1>19 DEF Live

\* A buffer that overflows begins with something that is not there as a whole, and
\* that need not fit into it.
LEMMA OverflowKeeps ==
    ASSUME wire \in Wires, ~Misread, Live, NEW len \in 1 .. MaxPacket, ~skipInput,
           AppendOverflows(len)
    PROVE  Settled'
  <1>1. UnitFacts /\ MessageFacts
    BY StreamFacts
  <1>2. /\ ~parsing /\ wire' = wire /\ base' = base /\ shipped' = shipped /\ ended' = "overflow"
    BY DEF AppendOverflows
  <1>3. Types /\ Handed /\ Parted /\ Place /\ Exhausted
    BY DEF Live
  <1>4. /\ Units' = Units /\ Messages' = Messages
    BY <1>2, SameStream
  <1>5. /\ sent \in Nat /\ base \in Nat /\ sent <= Total /\ Total \in Nat
        /\ MaxPacket \in Nat /\ MaxData \in Nat /\ MaxPacket <= MaxData /\ len \in Nat
    BY <1>1, <1>3, WireAssumption DEF Types, UnitFacts
  <1>6. base < sent /\ sent - base > MaxData - MaxPacket
    <2>1. sent + len - base > MaxData
      BY Zenon DEF AppendOverflows
    <2>2. len <= MaxPacket
      BY <1>5
    <2> QED BY <1>5, <2>1, <2>2
  <1>7. PICK u \in Units : u.at = base
    BY <1>3, <1>5, <1>6 DEF Parted, AtUnit
  <1>8. u.len \in Nat /\ u.len > 0
    BY <1>1 DEF UnitFacts
  <1>9. ASSUME wire.proto \in {"redis", "mysql", "thrift"}, u.msg # 0
        PROVE  Messages[u.msg][2] - base > MaxData - MaxPacket
    <2>1. /\ u.msg \in DOMAIN Messages /\ u.at + u.len <= Ends(u.msg) /\ Ends(u.msg) \in Nat
          /\ u.msg \in Nat
      BY <1>1, <1>9 DEF UnitFacts, MessageFacts
    <2>2. Current \in Nat
      BY <1>3 DEF Types, Current
    <2>3. u.msg >= Current
      BY <1>3, <1>5, <1>7, <1>8, <2>1, <2>2 DEF Parted
    <2>4. sent < Ends(u.msg)
      BY <1>2, <1>3, <1>9, <2>1, <2>3 DEF Exhausted
    <2>5. Messages[u.msg][2] = Ends(u.msg)
      BY DEF Ends
    <2> QED BY <1>5, <1>6, <2>1, <2>4, <2>5
  <1>10. ASSUME wire.proto \in {"redis", "mysql", "thrift"}, u.msg = 0
         PROVE  u.at + u.len - base > MaxData - MaxPacket
    <2>1. wire.proto = "mysql"
      BY <1>10, RedisUnits, ThriftUnits
    <2>2. MysqlPlace /\ MysqlWaits
      BY <1>3, <2>1 DEF Place
    <2>3. ~(state \in {"fields", "rows"})
      <3>1. ASSUME state \in {"fields", "rows"} PROVE \E c \in Units : c.at = base /\ c.what = "count"
        BY <2>2, <3>1 DEF MysqlPlace
      <3>2. u.what # "count"
        BY <1>10, <2>1, MysqlUnits
      <3> QED BY <1>1, <1>7, <3>1, <3>2 DEF UnitFacts
    <2>4. state = "message" /\ sent < base + m.n
      BY <1>2, <1>5, <1>6, <2>2, <2>3 DEF MysqlWaits
    <2>5. PICK v \in Units : v.at = base /\ m.n = v.len
      BY <2>2, <2>4 DEF MysqlPlace
    <2>6. v = u
      BY <1>1, <1>7, <2>5 DEF UnitFacts
    <2> QED BY <1>5, <1>6, <1>7, <1>8, <2>4, <2>5, <2>6
  <1>11. wire.proto \in {"redis", "mysql", "thrift"} => TooLong'
    <2> DEFINE e == IF u.msg = 0 THEN u.at + u.len ELSE Messages[u.msg][2]
    <2>1. ASSUME wire.proto \in {"redis", "mysql", "thrift"} PROVE e - base > MaxData - MaxPacket
      <3>1. CASE u.msg = 0
        <4>1. u.at + u.len - base > MaxData - MaxPacket
          BY <1>10, <2>1, <3>1
        <4>2. e = u.at + u.len
          BY <3>1, Zenon
        <4> HIDE DEF e
        <4> QED BY <1>5, <1>7, <1>8, <4>1, <4>2
      <3>2. CASE u.msg # 0
        <4>1. Messages[u.msg][2] - base > MaxData - MaxPacket
          BY <1>9, <2>1, <3>2
        <4>2. e = Messages[u.msg][2]
          BY <3>2, Zenon
        <4> HIDE DEF e
        <4> QED BY <4>1, <4>2
      <3> QED BY <3>1, <3>2
    <2>2. base' = base /\ Units' = Units /\ Messages' = Messages
      BY <1>2, <1>4
    <2> QED BY <1>7, <2>1, <2>2 DEF TooLong
  <1>12. KeepsItsPlace'
    <2>1. wire.proto \in {"redis", "mysql", "http", "pgsql", "thrift"}
      BY WireAssumption
    <2> QED BY <1>2, <1>11, <2>1 DEF KeepsItsPlace
  <1>13. ShippedAsSent'
    BY <1>2, <1>3, <1>4 DEF ShippedAsSent, Handed
  <1> QED BY <1>2, <1>12, <1>13 DEF Settled, FinShipsBegun

LEMMA ParseKeeps ==
    ASSUME wire \in Wires, ~Misread, Live, NEW len \in 1 .. MaxPacket, Parse(len)
    PROVE  Live' \/ Settled'
  <1>1. len \in Nat /\ len > 0
    BY WireAssumption
  <1>2. /\ ~skipInput /\ skipInput' = skipInput /\ (wire.proto = "thrift" => ThriftSendable(len))
        /\ AppendPacket(len) \/ AppendOverflows(len)
    BY DEF Parse
  <1> QED BY <1>1, <1>2, AppendKeeps, OverflowKeeps

\* The invariant holds before the first packet.
LEMMA ParserStart ==
    ASSUME Init
    PROVE  ParserInv
  <1>1. /\ wire \in Wires /\ sent = 0 /\ base = 0 /\ offset = 0 /\ state = "start"
        /\ m = NoMessage /\ ended = "" /\ shipped = <<>>
    BY DEF Init, WireInit
  <1>0. parsing = FALSE /\ skipInput = FALSE
    BY DEF Init, WireInit
  <1>2. UnitFacts /\ MessageFacts
    BY <1>1, StreamFacts
  <1>3. Current = 1 /\ Len(shipped) = 0 /\ shipped \in Seq(Nat \X Nat)
    <2>1. shipped = <<>>
      BY <1>1
    <2> QED BY <2>1 DEF Current
  <1>4. Types
    <2>1. sent \in Nat /\ base \in Nat /\ offset \in Nat
          /\ base <= offset /\ offset <= sent /\ sent <= Total
      <3>1. sent = 0 /\ base = 0 /\ offset = 0
        BY <1>1
      <3>2. Total \in Nat
        BY <1>2 DEF UnitFacts
      <3> QED BY <3>1, <3>2
    <2> QED BY <1>0, <1>1, <1>3, <2>1, MessageTypes DEF Types
  <1>5. Handed
    BY <1>3 DEF Handed
  <1>6. AtUnit(0)
    BY <1>2 DEF UnitFacts, AtUnit
  <1>7. ASSUME NEW k \in DOMAIN Messages
        PROVE  0 <= Begins(k) /\ ~(k < 1) /\ 0 < Ends(k)
    BY <1>2 DEF MessageFacts
  <1>8. Parted
    BY <1>0, <1>1, <1>3, <1>6, <1>7 DEF Parted
  <1>9. Exhausted
    BY <1>0, <1>1, <1>7, MessageTypes DEF Exhausted
  <1>10. RedisPlace /\ MysqlPlace /\ PgsqlPlace /\ HttpPlace
    BY <1>1, <1>6, <1>7, MessageTypes DEF RedisPlace, MysqlPlace, PgsqlPlace, HttpPlace
  <1>13. MysqlWaits
    BY <1>1 DEF MysqlWaits
  <1>11. ASSUME wire.proto = "thrift" PROVE ThriftPlace
    <2>1. PICK u \in Units : u.at = 0
      BY <1>2 DEF UnitFacts
    <2>2. u.msg # 0
      BY <1>1, <1>11, ThriftUnits
    <2>3. \A k \in DOMAIN Messages : k >= Current => offset <= Begins(k)
      BY <1>1, <1>7
    <2>4. Current \in DOMAIN Messages /\ Begins(Current) = offset
      BY <1>0, <1>1, <1>4, <1>5, <1>8, <2>1, <2>2, <2>3, OpensHere
    <2>5. sent <= Ends(Current)
      <3>1. sent = 0 /\ 0 < Ends(Current) /\ Ends(Current) \in Nat
        BY <1>1, <1>2, <1>7, <2>4 DEF MessageFacts
      <3> QED BY <3>1
    <2> QED BY <1>0, <1>1, <2>4, <2>5 DEF ThriftPlace
  <1>12. Live
    BY <1>1, <1>4, <1>5, <1>8, <1>9, <1>10, <1>11, <1>13 DEF Live, Place
  <1> QED BY <1>1, <1>12 DEF ParserInv

-------------------------------------------------------------------------------
(* http.                                                                   *)

\* The unit that follows u in its message is one of these kinds.
GoesTo(u, kinds) ==
    \E v \in Units : v.at = u.at + u.len /\ v.msg = u.msg /\ v.what \in kinds

\* What the grammar says of the stream that is followed, which has no folded line.
LEMMA HttpUnits ==
    ASSUME wire \in Wires, ~Misread, wire.proto = "http", NEW u \in Units
    PROVE  /\ u.msg # 0 /\ (u.what \in FirstLines <=> u.at = Begins(u.msg))
           /\ u.what # "folded"
           /\ u.what \in FirstLines \cup Headers => GoesTo(u, Headers \cup {"end"})
           /\ u.what = "content-length" => \A v \in Units :
                 v.msg = u.msg /\ v.what = "content-length" => v = u
           /\ u.what = "end" =>
                 /\ u.len = 2
                 /\ \A v \in Units : v.msg = u.msg /\ v.what \in Headers => v.at < u.at
           /\ u.what = "body" => u.at + u.len = Ends(u.msg)
           /\ u.what = "size" /\ u.n = 0 => GoesTo(u, {"trailer", "final"})
           /\ u.what = "size" /\ u.n # 0 => \E v \in Units :
                 /\ v.at = u.at + u.len /\ v.msg = u.msg /\ v.what = "chunk"
                 /\ v.len = u.n + 2
           /\ u.what = "chunk" => GoesTo(u, {"size"})
           /\ u.what = "trailer" => GoesTo(u, {"trailer", "final"})
           /\ u.what = "final" => u.len = 2 /\ u.at + u.len = Ends(u.msg)
  <1>1. HttpStream(wire) /\ Units = UnitsOf(wire)
    BY HttpGrammar DEF Units
  <1>2. u.msg # 0 /\ (u.what \in FirstLines <=> Opens(wire, u))
    BY <1>1 DEF HttpStream
  <1>3. /\ u.at = Begins(u.msg) <=> Opens(wire, u)
        /\ Closes(wire, u) => u.at + u.len = Ends(u.msg)
        /\ ~Closes(wire, u) => \E v \in Units : v.at = u.at + u.len /\ v.msg = u.msg
    BY <1>2, ClosingUnit
  <1>4. \A kinds : GoesOn(wire, u, kinds) => GoesTo(u, kinds)
    BY <1>1, <1>3 DEF GoesOn, Follows, GoesTo
  <1>5. \A v \in Units : v.what # "folded"
    BY DEF Misread, Has
  <1>6. ASSUME u.what \in FirstLines \cup Headers PROVE GoesTo(u, Headers \cup {"end"})
    <2>1. GoesOn(wire, u, Headers \cup {"folded", "end"})
      BY <1>1, <1>6 DEF HttpStream
    <2>2. GoesTo(u, Headers \cup {"folded", "end"})
      BY <1>4, <2>1
    <2> QED BY <1>5, <2>2 DEF GoesTo
  <1>7. /\ u.what = "content-length" => \A v \in Units :
              v.msg = u.msg /\ v.what = "content-length" => v = u
        /\ u.what = "end" =>
              /\ u.len = 2
              /\ \A v \in Units : v.msg = u.msg /\ v.what \in Headers => v.at < u.at
        /\ u.what = "body" => Closes(wire, u)
        /\ u.what = "chunk" => GoesOn(wire, u, {"size"})
        /\ u.what = "trailer" => GoesOn(wire, u, {"trailer", "final"})
        /\ u.what = "final" => u.len = 2 /\ Closes(wire, u)
    BY <1>1 DEF HttpStream
  <1>8. /\ u.what = "size" /\ u.n = 0 => GoesOn(wire, u, {"trailer", "final"})
        /\ u.what = "size" /\ u.n # 0 =>
              /\ GoesOn(wire, u, {"chunk"})
              /\ \A v \in Units : v.at = u.at + u.len => v.len = u.n + 2
    BY <1>1 DEF HttpStream, Follows
  <1>9. u.what = "size" /\ u.n # 0 => \E v \in Units :
            v.at = u.at + u.len /\ v.msg = u.msg /\ v.what = "chunk" /\ v.len = u.n + 2
    <2> SUFFICES ASSUME u.what = "size", u.n # 0
                 PROVE  \E v \in Units : /\ v.at = u.at + u.len /\ v.msg = u.msg
                                         /\ v.what = "chunk" /\ v.len = u.n + 2
      OBVIOUS
    <2>1. GoesTo(u, {"chunk"})
      BY <1>4, <1>8
    <2> QED BY <1>8, <2>1 DEF GoesTo
  <1>10. /\ u.what = "size" /\ u.n = 0 => GoesTo(u, {"trailer", "final"})
         /\ u.what = "chunk" => GoesTo(u, {"size"})
         /\ u.what = "trailer" => GoesTo(u, {"trailer", "final"})
    BY <1>4, <1>7, <1>8
  <1>11. /\ u.what = "body" => u.at + u.len = Ends(u.msg)
         /\ u.what = "final" => u.len = 2 /\ u.at + u.len = Ends(u.msg)
    BY <1>3, <1>7
  <1>12. u.what \in FirstLines <=> u.at = Begins(u.msg)
    BY <1>2, <1>3
  <1> QED BY <1>2, <1>5, <1>6, <1>7, <1>9, <1>10, <1>11, <1>12

\* What follows the headers: nothing, chunks, a body of known length, or a body that
\* is not delimited.
LEMMA HttpBodyOf ==
    ASSUME wire \in Wires, ~Misread, wire.proto = "http", NEW u \in Units, u.what = "end"
    PROVE  LET has(kind) == In(wire, u.msg, kind) IN
           /\ has("no-content") => u.at + u.len = Ends(u.msg)
           /\ ~has("no-content") /\ has("chunked") => GoesTo(u, {"size"})
           /\ ~has("no-content") /\ ~has("chunked") =>
                 /\ \A c \in Units : c.msg = u.msg /\ c.what = "content-length" =>
                       /\ c.n = 0 => u.at + u.len = Ends(u.msg)
                       /\ c.n # 0 => \E v \in Units :
                             /\ v.at = u.at + u.len /\ v.msg = u.msg /\ v.len = c.n
                             /\ v.at + v.len = Ends(u.msg)
                 /\ ~has("content-length") /\ has("response") /\ has("close") =>
                       Ends(u.msg) = Total
                 /\ ~has("content-length") /\ ~(has("response") /\ has("close")) =>
                       u.at + u.len = Ends(u.msg)
  <1> DEFINE has(kind) == In(wire, u.msg, kind)
  <1>1. HttpStream(wire) /\ Units = UnitsOf(wire)
    BY HttpGrammar DEF Units
  <1>2. u.msg # 0
    BY HttpUnits
  <1>3. /\ Closes(wire, u) => u.at + u.len = Ends(u.msg)
        /\ ~Closes(wire, u) => \E v \in Units : v.at = u.at + u.len /\ v.msg = u.msg
    BY <1>2, ClosingUnit
  <1>4. \A kinds : GoesOn(wire, u, kinds) => GoesTo(u, kinds)
    BY <1>1, <1>3 DEF GoesOn, Follows, GoesTo
  <1>5. IF has("no-content") THEN Closes(wire, u)
        ELSE IF has("chunked") THEN GoesOn(wire, u, {"size"})
        ELSE IF has("content-length")
        THEN \A c \in Units : c.msg = u.msg /\ c.what = "content-length" =>
                IF c.n = 0 THEN Closes(wire, u)
                ELSE /\ GoesOn(wire, u, {"body"})
                     /\ \A v \in Units : v.at = u.at + u.len => v.len = c.n
        ELSE IF has("response") /\ has("close")
        THEN Ends(u.msg) = Total
        ELSE Closes(wire, u)
    <2>1. BodyOf(wire, u)
      BY DEF Misread, OtherBody
    <2> QED BY <1>1, <2>1 DEF BodyOf, Follows, Ends, Messages, Total
  <1> HIDE DEF has
  <1>6. has("no-content") => u.at + u.len = Ends(u.msg)
    BY <1>3, <1>5
  <1>7. ~has("no-content") /\ has("chunked") => GoesTo(u, {"size"})
    BY <1>4, <1>5
  <1>8. ASSUME ~has("no-content"), ~has("chunked"), NEW c \in Units, c.msg = u.msg,
               c.what = "content-length"
        PROVE  /\ c.n = 0 => u.at + u.len = Ends(u.msg)
               /\ c.n # 0 => \E v \in Units :
                     /\ v.at = u.at + u.len /\ v.msg = u.msg /\ v.len = c.n
                     /\ v.at + v.len = Ends(u.msg)
    <2>1. has("content-length")
      BY <1>1, <1>8 DEF has, In
    <2>2. /\ c.n = 0 => Closes(wire, u)
          /\ c.n # 0 => /\ GoesOn(wire, u, {"body"})
                        /\ \A v \in Units : v.at = u.at + u.len => v.len = c.n
      BY <1>5, <1>8, <2>1
    <2>3. ASSUME c.n # 0
          PROVE  \E v \in Units : /\ v.at = u.at + u.len /\ v.msg = u.msg /\ v.len = c.n
                                  /\ v.at + v.len = Ends(u.msg)
      <3>1. PICK v \in Units : v.at = u.at + u.len /\ v.msg = u.msg /\ v.what = "body"
        BY <1>4, <2>2, <2>3 DEF GoesTo
      <3>2. v.at + v.len = Ends(u.msg)
        BY <3>1, HttpUnits
      <3> QED BY <2>2, <2>3, <3>1, <3>2
    <2> QED BY <1>3, <2>2, <2>3
  <1>9. ASSUME ~has("no-content"), ~has("chunked"), ~has("content-length")
        PROVE  /\ has("response") /\ has("close") => Ends(u.msg) = Total
               /\ ~(has("response") /\ has("close")) => u.at + u.len = Ends(u.msg)
    BY <1>3, <1>5, <1>9
  <1> QED BY <1>6, <1>7, <1>8, <1>9 DEF has

\* The unit where the parser stands, outside of bodies and chunks, is part of the
\* current message.
LEMMA HttpHere ==
    ASSUME wire \in Wires, ~Misread, wire.proto = "http", Live, offset < sent,
           state \notin {"body", "chunk"}
    PROVE  /\ Here \in Units /\ Here.at = offset /\ Here.msg = Current
           /\ Current \in DOMAIN Messages /\ base = Begins(Current)
           /\ state = "start" => offset = base /\ Here.what \in FirstLines
           /\ state # "start" => Inside /\ base < offset
           /\ \A u \in Units : u.at = offset => u = Here
  <1>1. UnitFacts /\ MessageFacts
    BY StreamFacts
  <1>2. Types /\ Handed /\ Parted /\ HttpPlace
    BY DEF Live, Place
  <1>3. ~skipInput
    BY <1>2 DEF Types
  <1>4. \/ state = "start" /\ offset = base
        \/ Inside /\ base = Begins(Current) /\ base < offset /\ state # "start"
    BY <1>2 DEF HttpPlace
  <1>5. AtUnit(offset)
    BY <1>2, <1>3, <1>4 DEF Parted, Inside
  <1>6. Here \in Units /\ Here.at = offset /\ \A u \in Units : u.at = offset => u = Here
    BY <1>2, <1>5, UnitHere
  <1>7. Here.msg # 0 /\ (Here.what \in FirstLines <=> Here.at = Begins(Here.msg))
    BY <1>6, HttpUnits
  <1>8. CASE state = "start"
    <2>1. offset = base
      BY <1>4, <1>8
    <2>2. Here.msg = Current /\ Current \in DOMAIN Messages /\ Begins(Current) = offset
      BY <1>2, <1>3, <1>6, <1>7, <2>1, OpensHere DEF Parted
    <2> QED BY <1>6, <1>7, <1>8, <2>1, <2>2
  <1>9. CASE state # "start"
    <2>1. Inside /\ base = Begins(Current) /\ base < offset
      BY <1>4, <1>9
    <2>2. /\ Current \in DOMAIN Messages
          /\ Begins(Current) < offset /\ offset < Ends(Current)
      BY <2>1 DEF Inside
    <2>3. Begins(Current) <= Here.at /\ Here.at < Ends(Current)
      <3>1. Begins(Current) \in Nat /\ Here.at \in Nat
        BY <1>1, <1>6, <2>2 DEF UnitFacts, MessageFacts
      <3> QED BY <1>6, <2>2, <3>1
    <2>4. Here.msg = Current
      BY <1>1, <1>6, <2>2, <2>3 DEF MessageFacts
    <2> QED BY <1>6, <1>9, <2>1, <2>2, <2>4
  <1> QED BY <1>8, <1>9

\* When http waits, the current message is not there as a whole, or has no end.
LEMMA HttpExhausted ==
    ASSUME wire.proto = "http", wire' = wire, sent' = sent, Current' = Current,
           Current \in DOMAIN Messages =>
              sent < Ends(Current) \/ (OpenEnded(Current) /\ sent <= Ends(Current))
    PROVE  Exhausted'
  <1>1. /\ Messages' = Messages
        /\ \A k : Begins(k)' = Begins(k) /\ Ends(k)' = Ends(k)
    BY SameStream
  <1>2. Ends(Current)' = Ends(Current)
    BY <1>1
  <1>3. OpenEnded(Current)' = OpenEnded(Current)
    BY DEF OpenEnded
  <1>4. (Current \in DOMAIN Messages)' = (Current \in DOMAIN Messages)
    BY <1>1
  <1> QED BY <1>2, <1>3, <1>4 DEF Exhausted

LEMMA HttpWaitsHere ==
    ASSUME wire \in Wires, wire.proto = "http", Live, parsing, WaitHere, skipInput' = skipInput,
           Current \in DOMAIN Messages =>
              sent < Ends(Current) \/ (OpenEnded(Current) /\ sent <= Ends(Current))
    PROVE  Live'
  <1>1. wire' = wire /\ sent' = sent /\ Current' = Current
    BY DEF WaitHere, Wait, Current
  <1>2. Exhausted'
    BY <1>1, HttpExhausted
  <1> QED BY <1>2, WaitsHere

\* A message that is complete is handed on, and the rest of the packet left alone.
LEMMA HttpShips ==
    ASSUME wire \in Wires, wire.proto = "http", Live, skipInput' = skipInput,
           Current \in DOMAIN Messages, Ends(Current) <= sent,
           Ship(Begins(Current), Ends(Current), TRUE, FALSE)
    PROVE  Live'
  <1>1. Types /\ Handed /\ Parted /\ ended = "" /\ ~skipInput
    BY DEF Live, Types
  <1>2. /\ Types' /\ Handed' /\ Parted' /\ wire' = wire /\ ended' = ended
        /\ state' = "start" /\ offset' = base' /\ m' = NoMessage
    BY <1>1, ShipCurrent
  <1>3. /\ ~m'.there /\ m'.n = 0 /\ m'.received = 0 /\ m'.flags = {}
    BY <1>2, MessageTypes
  <1>4. Exhausted'
    BY <1>2, <1>3 DEF Exhausted
  <1>5. HttpPlace'
    BY <1>2, <1>3 DEF HttpPlace
  <1> QED BY <1>1, <1>2, <1>4, <1>5 DEF Live, Place

\* The first line.
LEMMA HttpStartKeeps ==
    ASSUME wire \in Wires, ~Misread, wire.proto = "http", Live, HttpStart,
           skipInput' = skipInput
    PROVE  Live' \/ Settled'
  <1> DEFINE h == Here
             m1 == [m EXCEPT !.flags = {h.what}]
  <1>1. UnitFacts /\ MessageFacts
    BY StreamFacts
  <1>2. Types /\ Handed /\ Parted /\ HttpPlace /\ ended = "" /\ m \in MessageRecords
    BY DEF Live, Place, Types
  <1>0. parsing /\ m.there /\ state = "start"
    BY <1>2 DEF HttpStart, AtWork, Types
  <1>4. /\ offset \in Nat /\ sent \in Nat /\ offset <= sent
    BY <1>2 DEF Types
  <1>5. offset < sent
    <2>1. Avail > 0
      BY DEF HttpStart
    <2> QED BY <1>4, <2>1 DEF Avail
  <1>6. /\ h \in Units /\ h.at = offset /\ h.msg = Current
        /\ Current \in DOMAIN Messages /\ base = Begins(Current) /\ offset = base
        /\ h.what \in FirstLines
    BY <1>0, <1>5, HttpHere
  <1>3. parsing /\ m.there /\ state = "start" /\ h.what \in FirstLines
    BY <1>0, <1>6
  <1>7. \/ LineComplete /\ h.what \in FirstLines \ {"refused"} /\ Advance(h.len, "headers", m1)
        \/ /\ LineComplete /\ h.what \notin FirstLines \ {"refused"}
           /\ EndStream("rejected") \/ EndStream("panicked")
        \/ ~LineComplete /\ WaitHere
    BY Zenon DEF HttpStart
  <1>8. m.start = base /\ m.n = 0 /\ m.received = 0
    BY <1>2, <1>3 DEF HttpPlace
  <1>9. /\ m1 \in MessageRecords /\ m1.there /\ m1.n = 0 /\ m1.start = base
        /\ m1.flags = {h.what} /\ m1.received = 0
    <2>1. {h.what} \in SUBSET Flags
      BY <1>3 DEF Flags
    <2>2. /\ m1 \in MessageRecords /\ m1.there = m.there /\ m1.n = m.n /\ m1.start = m.start
          /\ m1.flags = {h.what} /\ m1.received = m.received
      BY <1>2, <2>1, FlagsUpdates, Zenon
    <2> HIDE DEF m1
    <2> QED BY <1>3, <1>8, <2>2
  <1>10. h.len \in Nat /\ h.len > 0 /\ h.at + h.len <= Ends(Current) /\ Ends(Current) \in Nat
    BY <1>1, <1>6, HttpUnits DEF UnitFacts, MessageFacts
  <1>11. LineComplete <=> offset + h.len <= sent
    BY <1>4, <1>10 DEF LineComplete, Avail
  <1> HIDE DEF h, m1
  <1>12. CASE ~LineComplete
    <2>1. sent < Ends(Current)
      BY <1>4, <1>6, <1>10, <1>11, <1>12
    <2> QED BY <1>3, <1>7, <1>12, <2>1, HttpWaitsHere
  <1>14. CASE h.what = "refused" /\ LineComplete
    <2>1. EndStream("rejected") \/ EndStream("panicked")
      BY <1>7, <1>14, Zenon
    <2>2. /\ wire' = wire /\ base' = base /\ ended' \in {"rejected", "panicked"}
      BY <2>1 DEF EndStream
    <2>3. Units' = Units
      BY <2>2, SameStream
    <2>4. KeepsItsPlace'
      BY <1>6, <1>14, <2>2, <2>3 DEF KeepsItsPlace
    <2> QED BY <1>2, <2>1, <2>4, StreamEnds
  <1>13. CASE LineComplete /\ h.what # "refused"
    <2>1. offset + h.len <= sent
      BY <1>11, <1>13
    <2>2. /\ Types' /\ Handed' /\ Parted' /\ Current' = Current /\ Exhausted'
          /\ wire' = wire /\ base' = base /\ ended' = ended
          /\ offset' = offset + h.len /\ state' = "headers" /\ m' = m1
      <3>1. Advance(h.len, "headers", m1)
        BY <1>3, <1>7, <1>13, Zenon
      <3> QED BY <1>2, <1>3, <1>9, <1>10, <2>1, <3>1, Advances
    <2>3. /\ Units' = Units /\ Messages' = Messages
          /\ \A k : Begins(k)' = Begins(k) /\ Ends(k)' = Ends(k)
      BY <2>2, SameStream
    <2>4. PICK v \in Units : /\ v.at = h.at + h.len /\ v.msg = h.msg
                             /\ v.what \in Headers \cup {"end"}
      BY <1>3, <1>6, HttpUnits DEF GoesTo, h
    <2>5. h.at < v.at
      BY <1>4, <1>6, <1>10, <2>4
    <2>6. Inside'
      BY <1>2, <1>6, <2>2, <2>4, <2>5, StaysInside
    <2>7. ASSUME NEW u \in Units, u.msg = Current, u.at < offset + h.len PROVE u = h
      <3>1. Begins(Current) <= u.at /\ u.at \in Nat
        BY <1>1, <1>6, <2>7, HttpUnits DEF MessageFacts, UnitFacts
      <3>2. ~(h.at < u.at)
        BY <1>1, <1>4, <1>6, <1>10, <2>7, <3>1 DEF UnitFacts
      <3>3. u.at = h.at
        BY <1>4, <1>6, <3>1, <3>2
      <3> QED BY <1>1, <1>6, <3>3 DEF UnitFacts
    <2>8. \A u \in Units : u.msg = Current /\ u.what \in FirstLines => u = h
      <3> SUFFICES ASSUME NEW u \in Units, u.msg = Current, u.what \in FirstLines PROVE u = h
        OBVIOUS
      <3>1. u.at = h.at
        BY <1>6, HttpUnits
      <3> QED BY <1>1, <1>6, <3>1 DEF UnitFacts
    <2>9. HeadersRead'
      <3>1. ASSUME NEW kind \in FirstLines PROVE kind \in m1.flags <=> In(wire, Current, kind)
        BY <1>3, <1>6, <1>9, <2>8 DEF In, Units, h
      <3>2. ASSUME NEW u \in Units, u.msg = Current, u.at < offset + h.len
            PROVE  u.what \notin {"chunked", "close", "content-length"}
        BY <1>3, <2>7, <3>2 DEF FirstLines, h
      <3>3. /\ "chunked" \notin m1.flags /\ "close" \notin m1.flags /\ "length" \notin m1.flags
            /\ "refused" \notin m1.flags
        BY <1>3, <1>9, <1>13 DEF FirstLines, h
      <3> QED BY <1>9, <2>2, <2>3, <3>1, <3>2, <3>3 DEF HeadersRead, Passed
    <2>10. \A u \in Units : u.at = offset' => u.what \in Headers \cup {"folded", "end"}
      BY <1>1, <1>6, <2>2, <2>4 DEF UnitFacts
    <2>11. base < offset'
      BY <1>4, <1>6, <1>10, <2>2
    <2>12. HttpPlace'
      BY <1>6, <1>9, <2>2, <2>3, <2>6, <2>9, <2>10, <2>11 DEF HttpPlace
    <2> QED BY <1>2, <2>2, <2>12 DEF Live, Place
  <1> QED BY <1>12, <1>13, <1>14

\* What a header line tells the message.
LEMMA NotedUpdates ==
    ASSUME m \in MessageRecords, NEW u, u.n \in Nat, u.what \in Headers
    PROVE  LET y == Noted(u) IN
           /\ y \in MessageRecords /\ y.there = m.there /\ y.start = m.start
           /\ y.received = m.received
           /\ u.what = "content-length" => y.n = u.n /\ y.flags = m.flags \cup {"length"}
           /\ u.what # "content-length" => y.n = m.n
           /\ u.what \in {"chunked", "close"} => y.flags = m.flags \cup {u.what}
           /\ u.what = "header" => y.flags = m.flags
  <1>1. CASE u.what = "content-length"
    <2>1. Noted(u) = [m EXCEPT !.n = u.n, !.flags = @ \cup {"length"}]
      BY <1>1 DEF Noted
    <2> QED BY <1>1, <2>1 DEF MessageRecords, Flags
  <1>2. CASE u.what \in {"chunked", "close"}
    <2>1. Noted(u) = [m EXCEPT !.flags = @ \cup {u.what}]
      BY <1>2 DEF Noted
    <2> QED BY <1>2, <2>1 DEF MessageRecords, Flags
  <1>3. CASE u.what = "header"
    <2>1. Noted(u) = m
      BY <1>3 DEF Noted
    <2> QED BY <1>3, <2>1
  <1> QED BY <1>1, <1>2, <1>3 DEF Headers

\* A header line.
LEMMA HttpHeaderKeeps ==
    ASSUME wire \in Wires, ~Misread, wire.proto = "http", Live, HttpHeader,
           skipInput' = skipInput
    PROVE  Live'
  <1> DEFINE h == Here
             m1 == Noted(h)
  <1>1. UnitFacts /\ MessageFacts
    BY StreamFacts
  <1>2. Types /\ Handed /\ Parted /\ HttpPlace /\ ended = "" /\ m \in MessageRecords
    BY DEF Live, Place, Types
  <1>3. parsing /\ m.there /\ state = "headers" /\ h.what \notin {"end", "folded"}
    BY <1>2 DEF HttpHeader, AtWork, Types
  <1>4. /\ offset \in Nat /\ sent \in Nat /\ offset <= sent
    BY <1>2 DEF Types
  <1>5. offset < sent
    <2>1. Avail > 0
      BY DEF HttpHeader
    <2> QED BY <1>4, <2>1 DEF Avail
  <1>6. /\ h \in Units /\ h.at = offset /\ h.msg = Current
        /\ Current \in DOMAIN Messages /\ base = Begins(Current) /\ base < offset
    BY <1>3, <1>5, HttpHere
  <1>7. \/ LineComplete /\ Advance(h.len, state, m1)
        \/ ~LineComplete /\ WaitHere
    BY Zenon DEF HttpHeader
  <1>8. /\ m.start = base /\ HeadersRead
        /\ \A u \in Units : u.at = offset => u.what \in Headers \cup {"folded", "end"}
    BY <1>2, <1>3 DEF HttpPlace
  <1>9. h.what \in Headers /\ h.n \in Nat
    BY <1>1, <1>3, <1>6, <1>8 DEF UnitFacts
  <1>10. h.len \in Nat /\ h.len > 0 /\ h.at + h.len <= Ends(Current) /\ Ends(Current) \in Nat
    BY <1>1, <1>6, HttpUnits DEF UnitFacts, MessageFacts
  <1>11. LineComplete <=> offset + h.len <= sent
    BY <1>4, <1>10 DEF LineComplete, Avail
  <1>14. /\ m1 \in MessageRecords /\ m1.there = m.there /\ m1.start = m.start
         /\ m1.received = m.received
         /\ h.what = "content-length" => m1.n = h.n /\ m1.flags = m.flags \cup {"length"}
         /\ h.what # "content-length" => m1.n = m.n
         /\ h.what \in {"chunked", "close"} => m1.flags = m.flags \cup {h.what}
         /\ h.what = "header" => m1.flags = m.flags
    BY <1>2, <1>9, NotedUpdates, Zenon
  <1> HIDE DEF h, m1
  <1>12. CASE ~LineComplete
    <2>1. sent < Ends(Current)
      BY <1>4, <1>6, <1>10, <1>11, <1>12
    <2> QED BY <1>3, <1>7, <1>12, <2>1, HttpWaitsHere
  <1>13. CASE LineComplete
    <2>1. offset + h.len <= sent /\ m1.there
      BY <1>3, <1>11, <1>13, <1>14
    <2>2. /\ Types' /\ Handed' /\ Parted' /\ Current' = Current /\ Exhausted'
          /\ wire' = wire /\ base' = base /\ ended' = ended
          /\ offset' = offset + h.len /\ state' = state /\ m' = m1
      BY <1>2, <1>3, <1>7, <1>10, <1>13, <1>14, <2>1, Advances
    <2>3. /\ Units' = Units /\ Messages' = Messages
          /\ \A k : Begins(k)' = Begins(k) /\ Ends(k)' = Ends(k)
      BY <2>2, SameStream
    <2>4. PICK v \in Units : /\ v.at = h.at + h.len /\ v.msg = h.msg
                             /\ v.what \in Headers \cup {"end"}
      BY <1>9, <1>6, HttpUnits DEF GoesTo
    <2>5. h.at < v.at
      BY <1>4, <1>6, <1>10, <2>4
    <2>6. Inside'
      BY <1>2, <1>6, <2>2, <2>4, <2>5, StaysInside
    <2>7. ASSUME NEW u \in Units PROVE u.at < offset + h.len <=> (u.at < offset \/ u = h)
      <3>1. u.at \in Nat /\ (h.at < u.at => h.at + h.len <= u.at) /\ (u.at = h.at => u = h)
        BY <1>1, <1>6 DEF UnitFacts
      <3> QED BY <1>4, <1>6, <1>10, <3>1
    <2>8. \A kind : Passed(kind)' <=> Passed(kind) \/ h.what = kind
      BY <1>6, <2>2, <2>3, <2>7 DEF Passed
    <2>9. HeadersRead'
      <3>1. ASSUME NEW kind \in FirstLines PROVE kind \in m1.flags <=> In(wire, Current, kind)
        <4>1. kind \in m1.flags <=> kind \in m.flags
          BY <1>9, <1>14 DEF FirstLines, Headers
        <4> QED BY <1>8, <4>1 DEF HeadersRead
      <3>2. ASSUME NEW kind \in {"chunked", "close"} PROVE kind \in m1.flags <=> Passed(kind)'
        <4>1. kind \in m1.flags <=> kind \in m.flags \/ h.what = kind
          BY <1>9, <1>14 DEF Headers
        <4> QED BY <1>8, <2>8, <4>1 DEF HeadersRead
      <3>3. "length" \in m1.flags <=> "length" \in m.flags \/ h.what = "content-length"
        BY <1>9, <1>14 DEF Headers
      <3>4. "length" \in m1.flags <=> Passed("content-length")'
        BY <1>8, <2>8, <3>3 DEF HeadersRead
      <3>5. "length" \notin m1.flags => m1.n = 0
        BY <1>8, <1>14, <3>3 DEF HeadersRead
      <3>6. ASSUME NEW u \in Units, u.msg = Current, u.what = "content-length",
                   u.at < offset + h.len
            PROVE  m1.n = u.n
        <4>1. CASE h.what = "content-length"
          <5>1. u = h
            BY <1>6, <3>6, <4>1, HttpUnits
          <5> QED BY <1>14, <4>1, <5>1
        <4>2. CASE h.what # "content-length"
          <5>1. u.at < offset
            BY <2>7, <3>6, <4>2
          <5> QED BY <1>8, <1>14, <3>6, <4>2, <5>1 DEF HeadersRead
        <4> QED BY <4>1, <4>2
      <3>7. m1.received = 0
        BY <1>8, <1>14 DEF HeadersRead
      <3>8. "refused" \notin m1.flags
        <4>1. "refused" \in m1.flags <=> "refused" \in m.flags
          BY <1>9, <1>14 DEF Headers
        <4> QED BY <1>8, <4>1 DEF HeadersRead
      <3> QED BY <2>2, <2>3, <3>1, <3>2, <3>4, <3>5, <3>6, <3>7, <3>8 DEF HeadersRead
    <2>10. \A u \in Units : u.at = offset' => u.what \in Headers \cup {"folded", "end"}
      BY <1>1, <1>6, <2>2, <2>4 DEF UnitFacts
    <2>11. base < offset'
      <3>1. offset' = offset + h.len /\ base \in Nat /\ base < offset
        BY <1>2, <1>6, <2>2 DEF Types
      <3> QED BY <1>4, <1>10, <3>1
    <2>12. HttpPlace'
      BY <1>3, <1>6, <1>8, <1>14, <2>2, <2>3, <2>6, <2>9, <2>10, <2>11 DEF HttpPlace
    <2> QED BY <1>2, <2>2, <2>12 DEF Live, Place
  <1> QED BY <1>12, <1>13

\* The empty line after the headers: all headers have been read, and the body ends as
\* the parser concludes from them.
LEMMA HttpEndOfHeadersKeeps ==
    ASSUME wire \in Wires, ~Misread, wire.proto = "http", Live, HttpEndOfHeaders,
           skipInput' = skipInput
    PROVE  Live'
  <1> DEFINE h == Here
             has(kind) == In(wire, Current, kind)
  <1>1. UnitFacts /\ MessageFacts
    BY StreamFacts
  <1>2. Types /\ Handed /\ Parted /\ HttpPlace /\ ended = "" /\ m \in MessageRecords
    BY DEF Live, Place, Types
  <1>3. parsing /\ m.there /\ state = "headers" /\ h.what = "end"
    BY <1>2 DEF HttpEndOfHeaders, AtWork, Types
  <1>4. /\ offset \in Nat /\ sent \in Nat /\ offset <= sent /\ base \in Nat
    BY <1>2 DEF Types
  <1>5. offset < sent
    <2>1. Avail > 0
      BY DEF HttpEndOfHeaders
    <2> QED BY <1>4, <2>1 DEF Avail
  <1>6. /\ h \in Units /\ h.at = offset /\ h.msg = Current
        /\ Current \in DOMAIN Messages /\ base = Begins(Current) /\ base < offset
    BY <1>3, <1>5, HttpHere
  <1>7. \/ Avail < 2 /\ WaitHere
        \/ ~(Avail < 2) /\ "no-content" \in m.flags /\ Ship(m.start, offset + 2, TRUE, FALSE)
        \/ /\ ~(Avail < 2) /\ "no-content" \notin m.flags /\ "chunked" \in m.flags
           /\ Advance(2, "chunk-start", m)
        \/ /\ ~(Avail < 2) /\ "no-content" \notin m.flags /\ "chunked" \notin m.flags
           /\ m.n = 0 /\ ("request" \in m.flags \/ "length" \in m.flags)
           /\ Ship(m.start, offset + 2, TRUE, FALSE)
        \/ /\ ~(Avail < 2) /\ "no-content" \notin m.flags /\ "chunked" \notin m.flags
           /\ ~(m.n = 0 /\ ("request" \in m.flags \/ "length" \in m.flags))
           /\ Advance(2, "body", m)
    BY Zenon DEF HttpEndOfHeaders
  <1>8. m.start = base /\ HeadersRead
    BY <1>2, <1>3 DEF HttpPlace
  <1>9. /\ h.len = 2 /\ h.at + h.len <= Ends(Current) /\ Ends(Current) \in Nat
        /\ \A v \in Units : v.msg = Current /\ v.what \in Headers => v.at < offset
    BY <1>1, <1>3, <1>6, HttpUnits DEF MessageFacts
  <1>10. \A kind \in {"chunked", "close", "content-length"} : Passed(kind) <=> has(kind)
    BY <1>9 DEF Passed, In, Units, Headers
  <1>11. /\ "no-content" \in m.flags <=> has("no-content")
         /\ "request" \in m.flags <=> has("request")
         /\ "response" \in m.flags <=> has("response")
         /\ "chunked" \in m.flags <=> has("chunked")
         /\ "close" \in m.flags <=> has("close")
         /\ "length" \in m.flags <=> has("content-length")
         /\ "length" \notin m.flags => m.n = 0
         /\ \A u \in Units : u.msg = Current /\ u.what = "content-length" => m.n = u.n
         /\ m.received = 0
    BY <1>8, <1>9, <1>10 DEF HeadersRead, FirstLines, Headers
  <1>12. /\ has("no-content") => h.at + h.len = Ends(Current)
         /\ ~has("no-content") /\ has("chunked") => GoesTo(h, {"size"})
         /\ ~has("no-content") /\ ~has("chunked") =>
               /\ \A c \in Units : c.msg = Current /\ c.what = "content-length" =>
                     /\ c.n = 0 => h.at + h.len = Ends(Current)
                     /\ c.n # 0 => \E v \in Units :
                           /\ v.at = h.at + h.len /\ v.msg = Current /\ v.len = c.n
                           /\ v.at + v.len = Ends(Current)
               /\ ~has("content-length") /\ has("response") /\ has("close") =>
                     Ends(Current) = Total
               /\ ~has("content-length") /\ ~(has("response") /\ has("close")) =>
                     h.at + h.len = Ends(Current)
    BY <1>3, <1>6, HttpBodyOf
  <1>13. /\ has("request") \/ has("response") \/ has("no-content")
         /\ ~(has("request") /\ has("response"))
    <2>1. PICK f \in Units : f.at = Begins(Current) /\ f.msg = Current
      BY <1>1, <1>6 DEF MessageFacts
    <2>2. f.what \in FirstLines
      BY <2>1, HttpUnits
    <2>3. ASSUME NEW u \in Units, u.msg = Current, u.what \in FirstLines PROVE u = f
      BY <1>1, <2>1, <2>3, HttpUnits DEF UnitFacts
    <2>4. f.what # "refused"
      <3>1. ~In(wire, Current, "refused")
        BY <1>8 DEF HeadersRead, FirstLines
      <3> QED BY <2>1, <3>1 DEF In, Units
    <2> QED BY <2>1, <2>2, <2>3, <2>4 DEF FirstLines, In, Units
  <1>14. OpenEnded(Current) <=> has("response") /\ ~has("content-length") /\ ~has("chunked")
    BY DEF OpenEnded
  <1>15. has("content-length") => \E c \in Units : c.msg = Current /\ c.what = "content-length"
    BY DEF In, Units
  <1> HIDE DEF h, has
  <1>16. CASE Avail < 2
    <2>1. sent < Ends(Current)
      BY <1>4, <1>6, <1>9, <1>16 DEF Avail
    <2> QED BY <1>3, <1>7, <1>16, <2>1, HttpWaitsHere
  <1>17. CASE ~(Avail < 2)
    <2>0. offset + 2 <= sent /\ 2 \in Nat
      BY <1>4, <1>17 DEF Avail
    <2>1. ASSUME offset + 2 = Ends(Current), Ship(m.start, offset + 2, TRUE, FALSE)
          PROVE  Live'
      <3>1. Ends(Current) <= sent
        BY <2>0, <2>1
      <3>2. Ship(Begins(Current), Ends(Current), TRUE, FALSE)
        BY <1>6, <1>8, <2>1
      <3> QED BY <1>6, <3>1, <3>2, HttpShips
    <2>2. CASE has("no-content")
      BY <1>6, <1>7, <1>9, <1>11, <1>12, <1>17, <2>1, <2>2
    <2>3. ASSUME NEW s, Advance(2, s, m)
          PROVE  /\ Types' /\ Handed' /\ Parted' /\ Current' = Current /\ Exhausted'
                 /\ wire' = wire /\ base' = base /\ ended' = ended
                 /\ offset' = offset + 2 /\ state' = s /\ m' = m
                 /\ Units' = Units /\ Messages' = Messages /\ Total' = Total
                 /\ \A k : Begins(k)' = Begins(k) /\ Ends(k)' = Ends(k)
                 /\ base < offset'
      <3>1. /\ Types' /\ Handed' /\ Parted' /\ Current' = Current /\ Exhausted'
            /\ wire' = wire /\ base' = base /\ ended' = ended
            /\ offset' = offset + 2 /\ state' = s /\ m' = m
        BY <1>2, <1>3, <2>0, <2>3, Advances
      <3>2. /\ Units' = Units /\ Messages' = Messages /\ Total' = Total
            /\ \A k : Begins(k)' = Begins(k) /\ Ends(k)' = Ends(k)
        BY <3>1, SameStream
      <3>3. base < offset'
        <4>1. offset' = offset + 2
          BY <3>1
        <4> QED BY <1>4, <1>6, <4>1
      <3> QED BY <3>1, <3>2, <3>3
    <2>4. CASE ~has("no-content") /\ has("chunked")
      <3>1. Advance(2, "chunk-start", m)
        BY <1>7, <1>11, <1>17, <2>4
      <3>2. PICK v \in Units : v.at = h.at + h.len /\ v.msg = h.msg /\ v.what = "size"
        BY <1>12, <2>4 DEF GoesTo
      <3>3. /\ Types' /\ Handed' /\ Parted' /\ Current' = Current /\ Exhausted'
            /\ wire' = wire /\ base' = base /\ ended' = ended
            /\ offset' = offset + 2 /\ state' = "chunk-start" /\ m' = m
            /\ Units' = Units /\ Messages' = Messages
            /\ \A k : Begins(k)' = Begins(k)
            /\ base < offset'
        BY <2>3, <3>1
      <3>4. h.at < v.at /\ offset' = h.at + h.len
        BY <1>4, <1>6, <1>9, <3>2, <3>3
      <3>5. Inside'
        BY <1>2, <1>6, <3>2, <3>3, <3>4, StaysInside
      <3>6. \A u \in Units : u.at = offset' => u.what = "size"
        BY <1>1, <3>2, <3>4 DEF UnitFacts
      <3>7. HttpPlace'
        BY <1>3, <1>6, <1>8, <3>3, <3>5, <3>6 DEF HttpPlace
      <3> QED BY <1>2, <3>3, <3>7 DEF Live, Place
    <2>5. CASE ~has("no-content") /\ ~has("chunked")
      <3>1. CASE m.n = 0 /\ (has("request") \/ has("content-length"))
        <4>1. h.at + h.len = Ends(Current)
          BY <1>11, <1>12, <1>13, <1>15, <2>5, <3>1
        <4>2. Ship(m.start, offset + 2, TRUE, FALSE)
          BY <1>7, <1>11, <1>17, <2>5, <3>1
        <4> QED BY <1>6, <1>9, <2>1, <4>1, <4>2
      <3>2. CASE ~(m.n = 0 /\ (has("request") \/ has("content-length")))
        <4>1. Advance(2, "body", m)
          BY <1>7, <1>11, <1>17, <2>5, <3>2
        <4>2. /\ Types' /\ Handed' /\ Parted' /\ Current' = Current /\ Exhausted'
              /\ wire' = wire /\ base' = base /\ ended' = ended
              /\ offset' = offset + 2 /\ state' = "body" /\ m' = m
              /\ Units' = Units /\ Messages' = Messages /\ Total' = Total
              /\ \A k : Begins(k)' = Begins(k) /\ Ends(k)' = Ends(k)
              /\ base < offset'
          BY <2>3, <4>1
        <4>3. CASE has("content-length")
          <5>1. PICK c \in Units : c.msg = Current /\ c.what = "content-length"
            BY <1>15, <4>3
          <5>2. m.n = c.n /\ c.n # 0
            BY <1>11, <3>2, <4>3, <5>1
          <5>3. PICK v \in Units : /\ v.at = h.at + h.len /\ v.msg = Current /\ v.len = c.n
                                   /\ v.at + v.len = Ends(Current)
            BY <1>12, <2>5, <5>1, <5>2
          <5>4. v.at \in Nat /\ v.len \in Nat /\ v.len > 0
            BY <1>1, <5>3 DEF UnitFacts
          <5>5. offset' = v.at + m.received /\ m.received < m.n /\ v.len = m.n
            <6>1. m.received = 0 /\ offset' = offset + 2
              BY <1>11, <4>2
            <6> QED BY <1>6, <1>9, <5>2, <5>3, <5>4, <6>1
          <5>6. InBody'
            BY <1>11, <4>2, <4>3, <5>3, <5>5 DEF InBody
          <5>7. HttpPlace'
            BY <1>3, <1>6, <1>8, <4>2, <5>6 DEF HttpPlace
          <5> QED BY <1>2, <4>2, <5>7 DEF Live, Place
        <4>4. CASE ~has("content-length")
          <5>1. m.n = 0 /\ has("response")
            BY <1>11, <1>13, <2>5, <3>2, <4>4
          <5>2. OpenEnded(Current)
            BY <1>14, <2>5, <4>4, <5>1
          <5>3. OpenEnded(Current)'
            BY <4>2, <5>2 DEF OpenEnded
          <5>4. IF has("close") THEN Ends(Current) = Total ELSE offset + 2 = Ends(Current)
            BY <1>6, <1>9, <1>12, <2>5, <4>4, <5>1
          <5>5. InBody'
            BY <1>11, <4>2, <4>4, <5>1, <5>3, <5>4 DEF InBody
          <5>6. HttpPlace'
            BY <1>3, <1>6, <1>8, <4>2, <5>5 DEF HttpPlace
          <5> QED BY <1>2, <4>2, <5>6 DEF Live, Place
        <4> QED BY <4>3, <4>4
      <3> QED BY <3>1, <3>2
    <2> QED BY <2>2, <2>4, <2>5
  <1> QED BY <1>16, <1>17

\* A message that has received more, of a length that is known or not.
LEMMA ReceivedUpdates ==
    ASSUME NEW x \in MessageRecords, NEW v \in Nat
    PROVE  LET y == [x EXCEPT !.received = v] IN
           /\ y \in MessageRecords /\ y.there = x.there /\ y.n = x.n /\ y.start = x.start
           /\ y.flags = x.flags /\ y.received = v
  BY DEF MessageRecords

LEMMA LengthUpdates ==
    ASSUME NEW x \in MessageRecords, NEW v \in Nat, NEW w \in Nat
    PROVE  LET y == [x EXCEPT !.received = v, !.n = w] IN
           /\ y \in MessageRecords /\ y.there = x.there /\ y.n = w /\ y.start = x.start
           /\ y.flags = x.flags /\ y.received = v
  BY DEF MessageRecords

LEMMA ChunkUpdates ==
    ASSUME NEW x \in MessageRecords, NEW v \in Nat
    PROVE  LET y == [x EXCEPT !.n = v, !.received = 0] IN
           /\ y \in MessageRecords /\ y.there = x.there /\ y.n = v /\ y.start = x.start
           /\ y.flags = x.flags /\ y.received = 0
  BY DEF MessageRecords

\* A body: with a length, up to the end of the connection, or of a response that tells
\* neither.
LEMMA HttpBodyKeeps ==
    ASSUME wire \in Wires, ~Misread, wire.proto = "http", Live, HttpBody,
           skipInput' = skipInput
    PROVE  Live'
  <1>1. UnitFacts /\ MessageFacts
    BY StreamFacts
  <1>2. Types /\ Handed /\ Parted /\ HttpPlace /\ ended = "" /\ m \in MessageRecords
    BY DEF Live, Place, Types
  <1>3. parsing /\ m.there /\ state = "body"
    BY <1>2 DEF HttpBody, AtWork, Types
  <1>4. /\ offset \in Nat /\ sent \in Nat /\ offset <= sent /\ base \in Nat /\ sent <= Total
    BY <1>2 DEF Types
  <1>5. offset < sent /\ Avail = sent - offset /\ Avail \in Nat
    <2>1. Avail > 0
      BY DEF HttpBody
    <2> QED BY <1>4, <2>1 DEF Avail
  <1>6. m.n \in Nat /\ m.received \in Nat
    BY <1>2 DEF MessageRecords
  <1>7. /\ m.start = base /\ Current \in DOMAIN Messages /\ base = Begins(Current)
        /\ base < offset /\ InBody
    BY <1>2, <1>3 DEF HttpPlace
  <1>8. Ends(Current) \in Nat /\ Ends(Current) <= Total /\ Total \in Nat
    BY <1>1, <1>7 DEF MessageFacts, UnitFacts
  <1>9. CASE "close" \in m.flags /\ "length" \notin m.flags
    <2> DEFINE m1 == [m EXCEPT !.received = @ + Avail, !.n = @ + Avail]
    <2>1. Wait(sent, state, m1)
      BY <1>9, Zenon DEF HttpBody
    <2>2. /\ m1 \in MessageRecords /\ m1.there = m.there /\ m1.start = m.start
          /\ m1.flags = m.flags
      <3> DEFINE r == m.received + Avail
                 n == m.n + Avail
      <3>1. r \in Nat /\ n \in Nat
        BY <1>5, <1>6
      <3>2. m1 = [m EXCEPT !.received = r, !.n = n]
        OBVIOUS
      <3> HIDE DEF m1, r, n
      <3>3. LET y == [m EXCEPT !.received = r, !.n = n] IN
            /\ y \in MessageRecords /\ y.there = m.there /\ y.n = n /\ y.start = m.start
            /\ y.flags = m.flags /\ y.received = r
        BY <1>2, <3>1, LengthUpdates
      <3> QED BY <3>2, <3>3, Zenon
    <2> HIDE DEF m1
    <2>3. m1.there /\ sent <= sent
      BY <1>3, <1>4, <2>2
    <2>4. /\ Types' /\ Handed' /\ Parted' /\ Current' = Current
          /\ wire' = wire /\ sent' = sent /\ base' = base /\ ended' = ended
          /\ offset' = sent /\ state' = state /\ m' = m1
      BY <1>2, <1>4, <2>1, <2>2, <2>3, Waits
    <2>5. /\ Units' = Units /\ Messages' = Messages /\ Total' = Total
          /\ \A k : Begins(k)' = Begins(k) /\ Ends(k)' = Ends(k)
      BY <2>4, SameStream
    <2>6. OpenEnded(Current) /\ Ends(Current) = Total
      BY <1>7, <1>9 DEF InBody
    <2>7. Exhausted'
      <3>1. sent <= Ends(Current)
        BY <1>4, <2>6
      <3> QED BY <2>4, <2>6, <3>1, HttpExhausted
    <2>8. OpenEnded(Current)'
      BY <2>4, <2>6 DEF OpenEnded
    <2>9. InBody'
      BY <1>9, <2>2, <2>4, <2>5, <2>6, <2>8 DEF InBody
    <2>10. base < offset'
      <3>1. offset' = sent
        BY <2>4
      <3> QED BY <1>4, <1>5, <1>7, <3>1
    <2>11. HttpPlace'
      BY <1>3, <1>7, <2>2, <2>3, <2>4, <2>5, <2>9, <2>10 DEF HttpPlace
    <2> QED BY <1>2, <2>4, <2>7, <2>11 DEF Live, Place
  <1>10. CASE "length" \in m.flags
    <2> DEFINE m1 == [m EXCEPT !.received = @ + Avail]
    <2>1. \/ Avail >= m.n - m.received /\ Ship(m.start, offset + m.n - m.received, TRUE, FALSE)
          \/ ~(Avail >= m.n - m.received) /\ Wait(sent, state, m1)
      BY <1>10, Zenon DEF HttpBody
    <2>2. PICK u \in Units :
              /\ u.msg = Current /\ u.at + u.len = Ends(Current) /\ u.len = m.n
              /\ offset = u.at + m.received /\ m.received < m.n
      BY <1>7, <1>10 DEF InBody
    <2>3. u.at \in Nat
      BY <1>1 DEF UnitFacts
    <2>4. CASE Avail >= m.n - m.received
      <3>1. offset + m.n - m.received = Ends(Current) /\ Ends(Current) <= sent
        BY <1>4, <1>5, <1>6, <1>8, <2>2, <2>3, <2>4
      <3>2. Ship(m.start, offset + m.n - m.received, TRUE, FALSE)
        BY <2>1, <2>4
      <3>3. Ship(Begins(Current), Ends(Current), TRUE, FALSE)
        BY <1>7, <3>1, <3>2
      <3> QED BY <1>7, <3>1, <3>3, HttpShips
    <2>5. CASE ~(Avail >= m.n - m.received)
      <3>1. Wait(sent, state, m1)
        BY <2>1, <2>5
      <3>2. /\ m1 \in MessageRecords /\ m1.there = m.there /\ m1.start = m.start
            /\ m1.flags = m.flags /\ m1.n = m.n /\ m1.received = m.received + Avail
        <4>1. m.received + Avail \in Nat
          BY <1>5, <1>6
        <4>2. m1 = [m EXCEPT !.received = m.received + Avail]
          BY <1>2 DEF MessageRecords
        <4> HIDE DEF m1
        <4> QED BY <1>2, <4>1, <4>2, ReceivedUpdates, Zenon
      <3> HIDE DEF m1
      <3>3. m1.there /\ sent <= sent
        BY <1>3, <1>4, <3>2
      <3>4. /\ Types' /\ Handed' /\ Parted' /\ Current' = Current
            /\ wire' = wire /\ sent' = sent /\ base' = base /\ ended' = ended
            /\ offset' = sent /\ state' = state /\ m' = m1
        BY <1>2, <1>4, <3>1, <3>2, <3>3, Waits
      <3>5. /\ Units' = Units /\ Messages' = Messages /\ Total' = Total
            /\ \A k : Begins(k)' = Begins(k) /\ Ends(k)' = Ends(k)
        BY <3>4, SameStream
      <3>6. sent < Ends(Current) /\ sent = u.at + m1.received /\ m1.received < m1.n
        <4>1. m1.n = m.n /\ m1.received = m.received + Avail
          BY <3>2
        <4> QED BY <1>4, <1>5, <1>6, <1>8, <2>2, <2>3, <2>5, <4>1
      <3>7. Exhausted'
        BY <3>4, <3>6, HttpExhausted
      <3>8. InBody'
        BY <1>10, <2>2, <3>2, <3>4, <3>5, <3>6 DEF InBody
      <3>9. base < offset'
        <4>1. offset' = sent
          BY <3>4
        <4> QED BY <1>4, <1>5, <1>7, <4>1
      <3>10. HttpPlace'
        BY <1>3, <1>7, <3>2, <3>3, <3>4, <3>5, <3>8, <3>9 DEF HttpPlace
      <3> QED BY <1>2, <3>4, <3>7, <3>10 DEF Live, Place
    <2> QED BY <2>4, <2>5
  <1>11. CASE "close" \notin m.flags /\ "length" \notin m.flags
    <2>1. offset = Ends(Current) /\ m.n = 0 /\ m.received = 0
      BY <1>7, <1>11 DEF InBody
    <2>2. Avail >= m.n - m.received /\ offset + m.n - m.received = Ends(Current)
          /\ Ends(Current) <= sent
      BY <1>4, <1>5, <2>1
    <2>3. Ship(m.start, offset + m.n - m.received, TRUE, FALSE)
      BY <1>11, <2>2, Zenon DEF HttpBody
    <2>4. Ship(Begins(Current), Ends(Current), TRUE, FALSE)
      BY <1>7, <2>2, <2>3
    <2> QED BY <1>7, <2>2, <2>4, HttpShips
  <1> QED BY <1>9, <1>10, <1>11

\* At least two bytes follow the last chunk.
LEMMA HttpFinalBytes ==
    ASSUME wire \in Wires, ~Misread, wire.proto = "http", NEW v \in Units,
           v.what \in {"trailer", "final"}
    PROVE  v.at + 2 <= Ends(v.msg) /\ (v.what = "final" => v.at + 2 = Ends(v.msg))
  <1>1. UnitFacts /\ MessageFacts
    BY StreamFacts
  <1>2. CASE v.what = "final"
    <2>1. v.len = 2 /\ v.at + v.len = Ends(v.msg) /\ v.at \in Nat
      BY <1>1, <1>2, HttpUnits DEF UnitFacts
    <2> QED BY <2>1
  <1>3. CASE v.what = "trailer"
    <2>1. PICK x \in Units : x.at = v.at + v.len /\ x.msg = v.msg
      BY <1>3, HttpUnits DEF GoesTo
    <2>2. x.msg # 0
      BY HttpUnits
    <2>3. /\ v.at \in Nat /\ v.len \in Nat /\ v.len > 0 /\ x.len \in Nat /\ x.len > 0
          /\ x.at + x.len <= Ends(v.msg)
      BY <1>1, <2>1, <2>2 DEF UnitFacts, MessageFacts
    <2>4. Ends(v.msg) \in Nat
      BY <1>1, <2>1, <2>2 DEF MessageFacts
    <2> QED BY <1>3, <2>1, <2>3, <2>4
  <1> QED BY <1>2, <1>3

\* A trailer is taken for garbage.
LEMMA HttpRejects ==
    ASSUME wire \in Wires, wire.proto = "http", Live, NEW v \in Units, v.what = "trailer",
           EndStream("rejected")
    PROVE  Settled'
  <1>1. wire' = wire
    BY DEF EndStream
  <1>2. Units' = Units
    BY <1>1, SameStream
  <1>3. KeepsItsPlace'
    BY <1>1, <1>2 DEF KeepsItsPlace, Has
  <1> QED BY <1>3, StreamEnds DEF Live

\* The size of a chunk.
LEMMA HttpChunkStartKeeps ==
    ASSUME wire \in Wires, ~Misread, wire.proto = "http", Live, state_body_chunked_start,
           skipInput' = skipInput
    PROVE  Live' \/ Settled'
  <1> DEFINE h == Here
             m1 == [m EXCEPT !.n = h.n, !.received = 0]
  <1>1. UnitFacts /\ MessageFacts
    BY StreamFacts
  <1>2. Types /\ Handed /\ Parted /\ HttpPlace /\ ended = "" /\ m \in MessageRecords
    BY DEF Live, Place, Types
  <1>3. parsing /\ m.there /\ state = "chunk-start"
    BY <1>2 DEF state_body_chunked_start, AtWork, Types
  <1>4. /\ offset \in Nat /\ sent \in Nat /\ offset <= sent /\ base \in Nat
    BY <1>2 DEF Types
  <1>5. offset < sent
    <2>1. Avail > 0
      BY DEF state_body_chunked_start
    <2> QED BY <1>4, <2>1 DEF Avail
  <1>6. /\ h \in Units /\ h.at = offset /\ h.msg = Current
        /\ Current \in DOMAIN Messages /\ base = Begins(Current) /\ base < offset
    BY <1>3, <1>5, HttpHere
  <1>8. m.start = base /\ h.what = "size"
    BY <1>2, <1>3, <1>6 DEF HttpPlace
  <1>7. \/ ~LineComplete /\ WaitHere
        \/ LineComplete /\ h.n > 0 /\ Advance(h.len, "chunk", m1)
        \/ /\ LineComplete /\ ~(h.n > 0) /\ Avail < h.len + 2
           /\ Wait(offset + h.len, "final", m)
        \/ /\ LineComplete /\ ~(h.n > 0) /\ ~(Avail < h.len + 2)
           /\ UnitAt(offset + h.len).what # "final" /\ EndStream("rejected")
        \/ /\ LineComplete /\ ~(h.n > 0) /\ ~(Avail < h.len + 2)
           /\ UnitAt(offset + h.len).what = "final"
           /\ Ship(m.start, offset + h.len + 2, TRUE, FALSE)
    BY <1>8, Zenon DEF state_body_chunked_start
  <1>9. /\ h.len \in Nat /\ h.len > 0 /\ h.n \in Nat /\ h.at + h.len <= Ends(Current)
        /\ Ends(Current) \in Nat
    BY <1>1, <1>6, HttpUnits DEF UnitFacts, MessageFacts
  <1>10. LineComplete <=> offset + h.len <= sent
    BY <1>4, <1>9 DEF LineComplete, Avail
  <1>11. /\ m1 \in MessageRecords /\ m1.there /\ m1.n = h.n /\ m1.start = base
         /\ m1.received = 0
    <2>1. /\ m1 \in MessageRecords /\ m1.there = m.there /\ m1.n = h.n /\ m1.start = m.start
          /\ m1.received = 0
      BY <1>2, <1>9, ChunkUpdates
    <2> HIDE DEF m1
    <2> QED BY <1>3, <1>8, <2>1
  <1> HIDE DEF h, m1
  <1>12. CASE ~LineComplete
    <2>1. sent < Ends(Current)
      BY <1>4, <1>6, <1>9, <1>10, <1>12
    <2> QED BY <1>3, <1>7, <1>12, <2>1, HttpWaitsHere
  <1>13. CASE LineComplete /\ h.n > 0
    <2>1. offset + h.len <= sent
      BY <1>10, <1>13
    <2>2. /\ Types' /\ Handed' /\ Parted' /\ Current' = Current /\ Exhausted'
          /\ wire' = wire /\ base' = base /\ ended' = ended
          /\ offset' = offset + h.len /\ state' = "chunk" /\ m' = m1
      BY <1>2, <1>3, <1>7, <1>9, <1>11, <1>13, <2>1, Advances
    <2>3. /\ Units' = Units /\ Messages' = Messages
          /\ \A k : Begins(k)' = Begins(k) /\ Ends(k)' = Ends(k)
      BY <2>2, SameStream
    <2>4. PICK v \in Units : /\ v.at = h.at + h.len /\ v.msg = h.msg /\ v.what = "chunk"
                             /\ v.len = h.n + 2
      BY <1>6, <1>8, <1>13, HttpUnits
    <2>5. offset' = v.at + m1.received /\ m1.received <= m1.n
      <3>1. offset' = offset + h.len /\ v.at = offset + h.len
        BY <1>6, <2>2, <2>4
      <3> QED BY <1>4, <1>9, <1>11, <3>1
    <2>6. InChunk'
      BY <1>6, <1>11, <2>2, <2>3, <2>4, <2>5 DEF InChunk
    <2>7. base < offset'
      <3>1. offset' = offset + h.len
        BY <2>2
      <3> QED BY <1>4, <1>6, <1>9, <3>1
    <2>8. HttpPlace'
      BY <1>6, <1>11, <2>2, <2>3, <2>6, <2>7 DEF HttpPlace
    <2> QED BY <1>2, <2>2, <2>8 DEF Live, Place
  <1>14. CASE LineComplete /\ ~(h.n > 0)
    <2>1. h.n = 0
      BY <1>9, <1>14
    <2>2. PICK v \in Units : /\ v.at = h.at + h.len /\ v.msg = h.msg
                             /\ v.what \in {"trailer", "final"}
      BY <1>6, <1>8, <2>1, HttpUnits DEF GoesTo
    <2>3. UnitAt(offset + h.len) = v
      BY <1>1, <1>6, <2>2 DEF UnitFacts
    <2>4. v.at + 2 <= Ends(Current) /\ (v.what = "final" => v.at + 2 = Ends(Current))
      BY <1>6, <2>2, HttpFinalBytes
    <2>5. offset + h.len <= sent /\ offset + h.len \in Nat /\ offset <= offset + h.len
      BY <1>4, <1>9, <1>10, <1>14
    <2>6. CASE Avail < h.len + 2
      <3>1. Wait(offset + h.len, "final", m)
        BY <1>7, <1>14, <2>6
      <3>2. sent < Ends(Current)
        BY <1>4, <1>6, <1>9, <2>2, <2>4, <2>6 DEF Avail
      <3>3. /\ Types' /\ Handed' /\ Parted' /\ Current' = Current
            /\ wire' = wire /\ sent' = sent /\ base' = base /\ ended' = ended
            /\ offset' = offset + h.len /\ state' = "final" /\ m' = m
        BY <1>2, <1>3, <2>5, <3>1, Waits
      <3>4. /\ Units' = Units /\ Messages' = Messages
            /\ \A k : Begins(k)' = Begins(k) /\ Ends(k)' = Ends(k)
        BY <3>3, SameStream
      <3>5. Exhausted'
        BY <3>2, <3>3, HttpExhausted
      <3>6. h.at < v.at /\ offset' = h.at + h.len
        BY <1>4, <1>6, <1>9, <2>2, <3>3
      <3>7. Inside'
        BY <1>2, <1>6, <2>2, <3>3, <3>6, StaysInside
      <3>8. \A u \in Units : u.at = offset' => u.what \in {"trailer", "final"}
        BY <1>1, <2>2, <3>6 DEF UnitFacts
      <3>9. base < offset'
        BY <1>4, <1>6, <1>9, <3>6
      <3>10. HttpPlace'
        BY <1>3, <1>6, <1>8, <3>3, <3>4, <3>7, <3>8, <3>9 DEF HttpPlace
      <3> QED BY <1>2, <3>3, <3>5, <3>10 DEF Live, Place
    <2>7. CASE ~(Avail < h.len + 2) /\ v.what # "final"
      <3>1. v.what = "trailer" /\ EndStream("rejected")
        BY <1>7, <1>14, <2>2, <2>3, <2>7
      <3> QED BY <3>1, HttpRejects
    <2>8. CASE ~(Avail < h.len + 2) /\ v.what = "final"
      <3>1. Ship(m.start, offset + h.len + 2, TRUE, FALSE)
        BY <1>7, <1>14, <2>3, <2>8
      <3>2. offset + h.len + 2 = Ends(Current) /\ Ends(Current) <= sent
        <4>1. ~(Avail < h.len + 2) /\ v.at + 2 = Ends(Current)
          BY <2>4, <2>8
        <4> QED BY <1>4, <1>6, <1>9, <2>2, <4>1 DEF Avail
      <3>3. Ship(Begins(Current), Ends(Current), TRUE, FALSE)
        BY <1>6, <1>8, <3>1, <3>2
      <3> QED BY <1>6, <3>2, <3>3, HttpShips
    <2> QED BY <2>6, <2>7, <2>8
  <1> QED BY <1>12, <1>13, <1>14

\* A chunk, or a part of it.
LEMMA HttpChunkKeeps ==
    ASSUME wire \in Wires, ~Misread, wire.proto = "http", Live, state_body_chunked,
           skipInput' = skipInput
    PROVE  Live'
  <1> DEFINE rest == m.n - m.received
             m1 == [m EXCEPT !.received = @ + Avail]
  <1>1. UnitFacts /\ MessageFacts
    BY StreamFacts
  <1>2. Types /\ Handed /\ Parted /\ HttpPlace /\ ended = "" /\ m \in MessageRecords
    BY DEF Live, Place, Types
  <1>3. parsing /\ m.there /\ state = "chunk"
    BY <1>2 DEF state_body_chunked, AtWork, Types
  <1>4. /\ offset \in Nat /\ sent \in Nat /\ offset <= sent /\ base \in Nat
    BY <1>2 DEF Types
  <1>5. offset < sent /\ Avail = sent - offset /\ Avail \in Nat
    <2>1. Avail > 0
      BY DEF state_body_chunked
    <2> QED BY <1>4, <2>1 DEF Avail
  <1>6. m.n \in Nat /\ m.received \in Nat
    BY <1>2 DEF MessageRecords
  <1>7. /\ m.start = base /\ Current \in DOMAIN Messages /\ base = Begins(Current)
        /\ base < offset /\ InChunk
    BY <1>2, <1>3 DEF HttpPlace
  <1>8. PICK u \in Units : /\ u.msg = Current /\ u.what = "chunk" /\ u.len = m.n + 2
                           /\ offset = u.at + m.received /\ m.received <= m.n
    BY <1>7 DEF InChunk
  <1>9. u.at \in Nat /\ u.len \in Nat /\ u.at + u.len <= Ends(Current) /\ Ends(Current) \in Nat
    BY <1>1, <1>8, HttpUnits DEF UnitFacts, MessageFacts
  <1>10. \/ Avail >= rest + 2 /\ Advance(rest + 2, "chunk-start", m)
         \/ ~(Avail >= rest + 2) /\ Avail >= rest /\ WaitHere
         \/ ~(Avail >= rest + 2) /\ ~(Avail >= rest) /\ Wait(sent, state, m1)
    BY Zenon DEF state_body_chunked
  <1>11. rest \in Nat /\ offset + (rest + 2) = u.at + u.len /\ rest + m.received = m.n
    BY <1>4, <1>6, <1>8, <1>9
  <1>12. /\ m1 \in MessageRecords /\ m1.there = m.there /\ m1.start = m.start
         /\ m1.n = m.n /\ m1.received = m.received + Avail
    <2> DEFINE r == m.received + Avail
    <2>1. r \in Nat
      BY <1>5, <1>6
    <2>2. m1 = [m EXCEPT !.received = r]
      OBVIOUS
    <2>3. r = m.received + Avail
      OBVIOUS
    <2> HIDE DEF m1, r
    <2>4. LET y == [m EXCEPT !.received = r] IN
          /\ y \in MessageRecords /\ y.there = m.there /\ y.n = m.n /\ y.start = m.start
          /\ y.received = r
      BY <1>2, <2>1, ReceivedUpdates
    <2> QED BY <2>2, <2>3, <2>4, Zenon
  <1> HIDE DEF rest, m1
  <1>13. CASE Avail >= rest + 2
    <2>0. rest + 2 \in Nat /\ offset + (rest + 2) <= sent
      BY <1>4, <1>5, <1>11, <1>13
    <2>1. /\ Types' /\ Handed' /\ Parted' /\ Current' = Current /\ Exhausted'
          /\ wire' = wire /\ base' = base /\ ended' = ended
          /\ offset' = offset + (rest + 2) /\ state' = "chunk-start" /\ m' = m
      BY <1>2, <1>3, <1>10, <1>13, <2>0, Advances
    <2>2. /\ Units' = Units /\ Messages' = Messages
          /\ \A k : Begins(k)' = Begins(k) /\ Ends(k)' = Ends(k)
      BY <2>1, SameStream
    <2>3. PICK v \in Units : v.at = u.at + u.len /\ v.msg = u.msg /\ v.what = "size"
      BY <1>8, HttpUnits DEF GoesTo
    <2>4. u.at < v.at /\ offset' = u.at + u.len
      BY <1>6, <1>8, <1>9, <1>11, <2>1, <2>3
    <2>5. Inside'
      BY <1>2, <1>8, <2>1, <2>3, <2>4, StaysInside
    <2>6. \A w \in Units : w.at = offset' => w.what = "size"
      BY <1>1, <2>3, <2>4 DEF UnitFacts
    <2>7. base < offset'
      <3>1. offset' = offset + (rest + 2)
        BY <2>1
      <3> QED BY <1>4, <1>7, <1>11, <3>1
    <2>8. HttpPlace'
      BY <1>3, <1>7, <2>1, <2>2, <2>5, <2>6, <2>7 DEF HttpPlace
    <2> QED BY <1>2, <2>1, <2>8 DEF Live, Place
  <1>14. CASE ~(Avail >= rest + 2)
    <2>1. sent < Ends(Current)
      BY <1>4, <1>5, <1>9, <1>11, <1>14
    <2>2. CASE Avail >= rest
      BY <1>3, <1>10, <1>14, <2>1, <2>2, HttpWaitsHere
    <2>3. CASE ~(Avail >= rest)
      <3>1. Wait(sent, state, m1)
        BY <1>10, <1>14, <2>3
      <3>3. m1.there /\ sent <= sent
        BY <1>3, <1>4, <1>12
      <3>4. /\ Types' /\ Handed' /\ Parted' /\ Current' = Current
            /\ wire' = wire /\ sent' = sent /\ base' = base /\ ended' = ended
            /\ offset' = sent /\ state' = state /\ m' = m1
        BY <1>2, <1>4, <1>12, <3>1, <3>3, Waits
      <3>5. /\ Units' = Units /\ Messages' = Messages
            /\ \A k : Begins(k)' = Begins(k) /\ Ends(k)' = Ends(k)
        BY <3>4, SameStream
      <3>6. sent = u.at + m1.received /\ m1.received <= m1.n /\ u.len = m1.n + 2
        <4>1. m1.n = m.n /\ m1.received = m.received + Avail
          BY <1>12
        <4> QED BY <1>4, <1>5, <1>6, <1>8, <1>9, <1>11, <2>3, <4>1
      <3>7. Exhausted'
        BY <2>1, <3>4, HttpExhausted
      <3>8. InChunk'
        BY <1>8, <3>4, <3>5, <3>6 DEF InChunk
      <3>9. base < offset'
        <4>1. offset' = sent
          BY <3>4
        <4> QED BY <1>4, <1>5, <1>7, <4>1
      <3>10. HttpPlace'
        BY <1>3, <1>7, <1>12, <3>3, <3>4, <3>5, <3>8, <3>9 DEF HttpPlace
      <3> QED BY <1>2, <3>4, <3>7, <3>10 DEF Live, Place
    <2> QED BY <2>2, <2>3
  <1> QED BY <1>13, <1>14

\* The empty line after the last chunk.
LEMMA HttpFinalKeeps ==
    ASSUME wire \in Wires, ~Misread, wire.proto = "http", Live,
           state_body_chunked_wait_final_crlf, skipInput' = skipInput
    PROVE  Live' \/ Settled'
  <1> DEFINE h == Here
  <1>2. Types /\ HttpPlace
    BY DEF Live, Place
  <1>3. parsing /\ m.there /\ state = "final"
    BY <1>2 DEF state_body_chunked_wait_final_crlf, AtWork, Types
  <1>4. /\ offset \in Nat /\ sent \in Nat /\ offset <= sent
    BY <1>2 DEF Types
  <1>5. offset < sent
    <2>1. Avail > 0
      BY DEF state_body_chunked_wait_final_crlf
    <2> QED BY <1>4, <2>1 DEF Avail
  <1>6. /\ h \in Units /\ h.at = offset /\ h.msg = Current
        /\ Current \in DOMAIN Messages /\ base = Begins(Current)
    BY <1>3, <1>5, HttpHere
  <1>7. \/ Avail < 2 /\ WaitHere
        \/ ~(Avail < 2) /\ h.what # "final" /\ EndStream("rejected")
        \/ ~(Avail < 2) /\ h.what = "final" /\ Ship(m.start, offset + 2, TRUE, FALSE)
    BY Zenon DEF state_body_chunked_wait_final_crlf
  <1>8. m.start = base /\ h.what \in {"trailer", "final"}
    BY <1>2, <1>3, <1>6 DEF HttpPlace
  <1>9. /\ h.at + 2 <= Ends(Current) /\ (h.what = "final" => h.at + 2 = Ends(Current))
    BY <1>6, <1>8, HttpFinalBytes
  <1>10. Ends(Current) \in Nat
    BY <1>6, StreamFacts DEF MessageFacts
  <1> HIDE DEF h
  <1>11. CASE Avail < 2
    <2>1. sent < Ends(Current)
      BY <1>4, <1>6, <1>9, <1>10, <1>11 DEF Avail
    <2> QED BY <1>3, <1>7, <1>11, <2>1, HttpWaitsHere
  <1>12. CASE ~(Avail < 2) /\ h.what # "final"
    BY <1>6, <1>7, <1>8, <1>12, HttpRejects
  <1>13. CASE ~(Avail < 2) /\ h.what = "final"
    <2>1. offset + 2 = Ends(Current) /\ Ends(Current) <= sent
      <3>1. ~(Avail < 2) /\ h.at + 2 = Ends(Current)
        BY <1>9, <1>13
      <3> QED BY <1>4, <1>6, <3>1 DEF Avail
    <2>2. Ship(Begins(Current), Ends(Current), TRUE, FALSE)
      BY <1>6, <1>7, <1>8, <1>13, <2>1
    <2> QED BY <1>6, <2>1, <2>2, HttpShips
  <1> QED BY <1>11, <1>12, <1>13

\* All that is there has been read.
LEMMA HttpEndOfDataKeeps ==
    ASSUME wire \in Wires, wire.proto = "http", Live, EndOfData("http"),
           skipInput' = skipInput
    PROVE  Live'
  <1>1. UnitFacts /\ MessageFacts
    BY StreamFacts
  <1>2. Types /\ Parted /\ HttpPlace /\ m \in MessageRecords /\ parsing /\ WaitHere
    BY DEF Live, Place, Types, EndOfData, AtWork
  <1>3. offset \in Nat /\ sent \in Nat /\ base \in Nat /\ sent <= Total /\ Current \in Nat
    BY <1>2 DEF Types, Current
  <1>4. offset = sent
    <2>1. Avail = 0
      BY DEF EndOfData
    <2> QED BY <1>3, <2>1 DEF Avail
  <1>5. ASSUME Current \in DOMAIN Messages
        PROVE  sent < Ends(Current) \/ (OpenEnded(Current) /\ sent <= Ends(Current))
    <2>1. /\ Ends(Current) \in Nat /\ Begins(Current) \in Nat /\ Begins(Current) < Ends(Current)
      BY <1>1, <1>5 DEF MessageFacts
    <2>2. CASE offset = base
      <3>1. Current >= Current
        BY <1>3
      <3>2. base <= Begins(Current)
        BY <1>2, <1>5, <3>1 DEF Parted
      <3> QED BY <1>3, <1>4, <2>1, <2>2, <3>2
    <2>3. CASE Inside
      BY <1>4, <2>3 DEF Inside
    <2>4. CASE InBody
      <3>1. CASE "length" \in m.flags
        <4>1. PICK u \in Units :
                  /\ u.at + u.len = Ends(Current) /\ u.len = m.n
                  /\ offset = u.at + m.received /\ m.received < m.n
          BY <2>4, <3>1 DEF InBody
        <4>2. u.at \in Nat /\ m.n \in Nat /\ m.received \in Nat
          BY <1>1, <1>2 DEF UnitFacts, MessageRecords
        <4> QED BY <1>3, <1>4, <4>1, <4>2
      <3>2. CASE "length" \notin m.flags
        <4>1. OpenEnded(Current) /\ (Ends(Current) = Total \/ offset = Ends(Current))
          BY <2>4, <3>2 DEF InBody
        <4>2. sent <= Ends(Current)
          BY <1>3, <1>4, <2>1, <4>1
        <4> QED BY <4>1, <4>2
      <3> QED BY <3>1, <3>2
    <2>5. CASE InChunk
      <3>1. PICK u \in Units : /\ u.msg = Current /\ u.len = m.n + 2
                               /\ offset = u.at + m.received /\ m.received <= m.n
        BY <2>5 DEF InChunk
      <3>2. /\ u.at \in Nat /\ m.n \in Nat /\ m.received \in Nat
        BY <1>1, <1>2 DEF UnitFacts, MessageRecords
      <3>3. Current # 0
        BY <1>1, <1>5 DEF MessageFacts
      <3>4. u.at + u.len <= Ends(Current)
        BY <1>1, <3>1, <3>3 DEF MessageFacts
      <3> QED BY <1>3, <1>4, <2>1, <3>1, <3>2, <3>4
    <2>6. offset = base \/ Inside \/ InBody \/ InChunk
      BY <1>2 DEF HttpPlace
    <2> QED BY <2>2, <2>3, <2>4, <2>5, <2>6
  <1> QED BY <1>2, <1>5, HttpWaitsHere

\* Every step of the parser of http keeps the invariant.
LEMMA HttpKeeps ==
    ASSUME wire \in Wires, ~Misread, wire.proto = "http", Live, HttpStep,
           skipInput' = skipInput
    PROVE  Live' \/ Settled'
  <1>1. CASE HttpStart
    BY <1>1, HttpStartKeeps
  <1>2. CASE HttpHeader
    BY <1>2, HttpHeaderKeeps
  <1>3. CASE HttpFoldedHeader
    <2>1. Types /\ state = "headers" /\ Avail > 0 /\ Here.what = "folded"
      BY <1>3 DEF HttpFoldedHeader, Live
    <2>2. offset \in Nat /\ sent \in Nat
      BY <2>1 DEF Types
    <2>3. offset < sent
      BY <2>1, <2>2 DEF Avail
    <2>4. Here \in Units
      BY <2>1, <2>3, HttpHere
    <2> QED BY <2>1, <2>4, HttpUnits
  <1>4. CASE HttpEndOfHeaders
    BY <1>4, HttpEndOfHeadersKeeps
  <1>5. CASE HttpBody
    BY <1>5, HttpBodyKeeps
  <1>6. CASE state_body_chunked_start
    BY <1>6, HttpChunkStartKeeps
  <1>7. CASE state_body_chunked
    BY <1>7, HttpChunkKeeps
  <1>8. CASE state_body_chunked_wait_final_crlf
    BY <1>8, HttpFinalKeeps
  <1>9. CASE EndOfData("http")
    BY <1>9, HttpEndOfDataKeeps
  <1> QED BY <1>1, <1>2, <1>3, <1>4, <1>5, <1>6, <1>7, <1>8, <1>9 DEF HttpStep

\* The end of the connection hands on what is there of the current message.
LEMMA HttpFin ==
    ASSUME wire \in Wires, ~Misread, Live, HttpReceivedFin
    PROVE  Settled'
  <1>1. UnitFacts /\ MessageFacts
    BY StreamFacts
  <1>2. /\ Types /\ Handed /\ Parted /\ HttpPlace /\ Exhausted /\ wire.proto = "http"
        /\ ~parsing /\ wire' = wire /\ ended' = "fin" /\ m \in MessageRecords /\ ~skipInput
        /\ shipped' = IF m.there /\ m.start < sent THEN Append(shipped, <<m.start, sent>>)
                                                   ELSE shipped
    BY DEF Live, Place, HttpReceivedFin, Types
  <1>3. Messages' = Messages
    BY <1>2, SameStream
  <1>4. /\ shipped \in Seq(Nat \X Nat) /\ Len(shipped) \in Nat /\ sent \in Nat
        /\ base \in Nat /\ m.start \in Nat /\ sent <= Total
    BY <1>2 DEF Types, MessageRecords
  <1>5. ShippedAsSent'
    <2>1. CASE m.there /\ m.start < sent
      <3>1. m.start = base /\ base < sent
        BY <1>2, <2>1 DEF HttpPlace
      <3>2. Current \in DOMAIN Messages /\ base = Begins(Current)
        <4>1. CASE offset = base
          <5>1. AtUnit(offset) /\ offset < sent
            BY <1>2, <3>1, <4>1 DEF Parted
          <5>2. Here \in Units /\ Here.at = offset
            BY <1>2, <5>1, UnitHere
          <5>3. Here.msg # 0
            BY <1>2, <5>2, HttpUnits
          <5> QED BY <1>2, <4>1, <5>2, <5>3, OpensHere DEF Parted
        <4>2. CASE offset # base
          BY <1>2, <4>2 DEF HttpPlace
        <4> QED BY <4>1, <4>2
      <3>3. sent <= Ends(Current)
        <4>1. sent < Ends(Current) \/ sent <= Ends(Current)
          BY <1>2, <2>1, <3>2 DEF Exhausted
        <4>2. Ends(Current) \in Nat
          BY <1>1, <3>2 DEF MessageFacts
        <4> QED BY <1>4, <4>1, <4>2
      <3>4. sent = Ends(Current) \/ sent < Ends(Current)
        <4>1. Ends(Current) \in Nat
          BY <1>1, <3>2 DEF MessageFacts
        <4> QED BY <1>4, <3>3, <4>1
      <3>5. /\ Len(shipped') = Current /\ Current = Len(shipped) + 1
            /\ \A i \in 1 .. Len(shipped) : shipped'[i] = shipped[i]
            /\ shipped'[Current] = <<m.start, sent>>
        BY <1>2, <1>4, <2>1 DEF Current
      <3>6. ASSUME NEW i \in 1 .. Len(shipped')
            PROVE  /\ i \in DOMAIN Messages /\ shipped'[i][1] = Messages[i][1]
                   /\ \/ shipped'[i][2] = Messages[i][2]
                      \/ i = Len(shipped') /\ shipped'[i][2] < Messages[i][2]
        <4>1. CASE i = Current
          BY <3>1, <3>2, <3>4, <3>5, <4>1 DEF Begins, Ends
        <4>2. CASE i # Current
          <5>1. i \in 1 .. Len(shipped)
            BY <1>4, <3>5, <4>2
          <5> QED BY <1>2, <3>5, <5>1 DEF Handed
        <4> QED BY <4>1, <4>2
      <3> QED BY <1>2, <1>3, <3>6 DEF ShippedAsSent
    <2>2. CASE ~(m.there /\ m.start < sent)
      BY <1>2, <1>3, <2>2 DEF ShippedAsSent, Handed
    <2> QED BY <2>1, <2>2
  <1>6. KeepsItsPlace'
    BY <1>2 DEF KeepsItsPlace
  <1>7. FinShipsBegun'
    <2>1. sent' = sent /\ base' = base /\ m' = m /\ Current = Len(shipped) + 1
      BY DEF HttpReceivedFin, Current
    <2>2. ASSUME NEW i \in DOMAIN Messages, Messages[i][1] < sent
          PROVE  i <= Len(shipped') \/ (~m.there /\ base <= Messages[i][1])
      <3>1. i \in Nat /\ Begins(i) \in Nat /\ Messages[i][1] = Begins(i)
        BY <1>1 DEF MessageFacts
      <3>2. CASE i < Current
        <4>1. Len(shipped') >= Len(shipped) /\ Len(shipped') \in Nat
          BY <1>2, <1>4
        <4> QED BY <1>4, <2>1, <3>1, <3>2, <4>1
      <3>3. CASE i >= Current
        <4>1. base <= Begins(i)
          BY <1>2, <3>3 DEF Parted
        <4>2. CASE m.there
          <5>1. m.start = base /\ base < sent
            BY <1>2, <1>4, <2>2, <3>1, <4>1, <4>2 DEF HttpPlace
          <5>2. Len(shipped') = Current
            BY <1>2, <1>4, <2>1, <4>2, <5>1
          <5>3. Current \in DOMAIN Messages
            BY <1>1, <1>4, <2>1, <3>1, <3>3 DEF MessageFacts
          <5>4. Ends(Current) \in Nat /\ sent <= Ends(Current)
            BY <1>1, <1>2, <1>4, <4>2, <5>3 DEF Exhausted, MessageFacts
          <5>5. ASSUME i > Current PROVE FALSE
            <6>1. Ends(Current) <= Begins(i)
              BY <1>1, <5>3, <5>5 DEF MessageFacts
            <6> QED BY <1>4, <2>2, <3>1, <5>4, <6>1
          <5> QED BY <1>4, <2>1, <3>1, <3>3, <5>2, <5>5
        <4>3. CASE ~m.there
          BY <3>1, <4>1, <4>3
        <4> QED BY <4>2, <4>3
      <3> QED BY <1>4, <2>1, <3>1, <3>2, <3>3
    <2> QED BY <1>3, <2>1, <2>2 DEF FinShipsBegun
  <1> QED BY <1>2, <1>5, <1>6, <1>7 DEF Settled

-------------------------------------------------------------------------------
(* The parsers together.                                                   *)

\* Every parser stands where a unit begins that it can make sense of.
LEMMA NeverLost ==
    ASSUME wire \in Wires, ~Misread, Live, parsing, Lost
    PROVE  FALSE
  <1>1. UnitFacts /\ MessageFacts
    BY StreamFacts
  <1>2. Types /\ Handed /\ Parted /\ Place
    BY DEF Live
  <1>3. offset < sent
    <2>1. Avail > 0 /\ offset \in Nat /\ sent \in Nat
      BY <1>2 DEF Lost, Types
    <2> QED BY <2>1 DEF Avail
  <1>4. state \notin {"message", "body", "chunk"}
    BY DEF Lost
  <1>5. wire.proto = "thrift" => ~skipInput
    BY <1>2 DEF Place, ThriftPlace
  <1>6. ~skipInput
    BY <1>2, <1>5 DEF Types
  <1>7. AtUnit(base) /\ \A k \in DOMAIN Messages : k >= Current => base <= Begins(k)
    BY <1>2, <1>6 DEF Parted
  <1>8. wire.proto \in {"redis", "mysql", "http", "pgsql", "thrift"}
    BY WireAssumption
  <1>9. AtUnit(offset)
    <2>1. CASE wire.proto = "redis"
      BY <1>2, <1>7, <2>1 DEF Place, RedisPlace, Inside
    <2>2. CASE wire.proto = "mysql"
      BY <1>2, <1>4, <1>7, <2>2 DEF Place, MysqlPlace, Inside
    <2>3. CASE wire.proto = "http"
      BY <1>2, <1>4, <1>7, <2>3 DEF Place, HttpPlace, Inside
    <2>4. CASE wire.proto = "pgsql"
      BY <1>2, <1>4, <1>7, <2>4 DEF Place, PgsqlPlace, Inside
    <2>5. CASE wire.proto = "thrift"
      BY <1>2, <1>4, <1>7, <2>5 DEF Place, ThriftPlace, Inside
    <2> QED BY <1>8, <2>1, <2>2, <2>3, <2>4, <2>5
  <1> DEFINE h == Here
  <1>10. h \in Units /\ h.at = offset /\ Strange(h.what)
    BY <1>2, <1>9, NotAstray
  <1>11. Units = UnitsOf(wire)
    BY DEF Units
  <1>12. ASSUME offset = base, h.msg # 0 PROVE h.at = Begins(h.msg) /\ Opens(wire, h)
    BY <1>2, <1>6, <1>7, <1>10, <1>12, OpensHere
  <1>13. CASE wire.proto = "redis"
    <2>1. h.what # "data" /\ state = "start"
      BY <1>2, <1>3, <1>13, RedisHere DEF Place, RedisPlace
    <2>2. h.what \in Lines \cup {"*", "$", "data", "inline"}
      BY <1>10, <1>13, RedisUnits
    <2> HIDE DEF h
    <2> QED BY <1>10, <2>1, <2>2 DEF Lines, Strange
  <1>14. CASE wire.proto = "mysql"
    <2>1. CASE state \in {"fields", "rows"}
      <3>1. h.what \in {"field", "row", "eof"}
        BY <1>2, <1>3, <1>14, <2>1, MysqlHere DEF Place
      <3> HIDE DEF h
      <3> QED BY <1>10, <2>1, <3>1 DEF Strange
    <2>2. CASE state \notin {"fields", "rows"}
      <3>1. state = "start" /\ offset = base
        BY <1>2, <1>4, <1>14, <2>2 DEF Place, MysqlPlace
      <3>2. MysqlStream(wire)
        BY <1>14, MysqlGrammar
      <3>3. h.msg = 0 => h.what = "command"
        BY <1>10, <1>11, <3>2 DEF MysqlStream
      <3>4. h.msg # 0 => h.what \in {"query", "ok", "eof", "err", "count"}
        BY <1>10, <1>12, <1>14, <3>1, MysqlUnits
      <3> HIDE DEF h
      <3> QED BY <1>10, <3>1, <3>3, <3>4 DEF Strange
    <2> QED BY <2>1, <2>2
  <1>15. CASE wire.proto = "http"
    <2>1. state = "start" => h.what \in FirstLines
      BY <1>3, <1>4, <1>15, HttpHere
    <2>2. /\ state = "headers" => h.what \in Headers \cup {"folded", "end"}
          /\ state = "chunk-start" => h.what = "size"
          /\ state = "final" => h.what \in {"trailer", "final"}
          /\ state \in {"start", "headers", "chunk-start", "final"}
      BY <1>2, <1>4, <1>10, <1>15 DEF Place, HttpPlace
    <2> HIDE DEF h
    <2> QED BY <1>10, <2>1, <2>2 DEF Strange, FirstLines, Headers
  <1>16. CASE wire.proto = "pgsql"
    <2>1. PgsqlStream(wire)
      BY <1>16, PgsqlGrammar
    <2>2. h.what \in Special \cup {"sslreply", "Z", "D", "other", "Q", "I", "E", "C", "T"}
      BY <1>10, <1>11, <2>1 DEF PgsqlStream
    <2>3. state \in {"start", "data"}
      BY <1>2, <1>16 DEF Place, PgsqlPlace
    <2> HIDE DEF h
    <2> QED BY <1>10, <2>2, <2>3 DEF Strange, Special
  <1>17. CASE wire.proto = "thrift"
    <2>1. CASE state = "field"
      <3>1. h.what \in {"field", "stop"}
        BY <1>2, <1>3, <1>17, <2>1, ThriftFieldHere DEF Place
      <3> HIDE DEF h
      <3> QED BY <1>10, <2>1, <3>1 DEF Strange
    <2>2. CASE state # "field"
      <3>1. state = "start" /\ offset = base
        BY <1>2, <1>17, <2>2 DEF Place, ThriftPlace
      <3>2. h.what \in {"frame", "begin", "reply"}
        BY <1>10, <1>12, <1>17, <3>1, ThriftUnits
      <3> HIDE DEF h
      <3> QED BY <1>10, <3>1, <3>2 DEF Strange
    <2> QED BY <2>1, <2>2
  <1> QED BY <1>8, <1>13, <1>14, <1>15, <1>16, <1>17

\* The stream that is followed stays the same, and nothing is done once it has ended,
\* until the parser finds its place again.
LEMMA StreamKept ==
    ASSUME Next, ~Retry
    PROVE  wire' = wire /\ ended = ""
  <1> USE DEF WaitHere, Wait, Advance, Ship, EndStream, EndOfData, AtWork
  <1>1. ASSUME NEW len, Parse(len) \/ ThriftSkip(len) PROVE wire' = wire /\ ended = ""
    BY <1>1, Zenon DEF Parse, AppendPacket, AppendOverflows, ThriftSkip
  <1>2. CASE redisMessageParser
    <2>1. ASSUME NEW len, AddValue(len) PROVE wire' = wire
      BY <2>1, Zenon DEF AddValue
    <2> QED BY <1>2, <2>1, Zenon
            DEF redisMessageParser, RedisStep, BulkNotFound, LineNotFound, Unexpected,
                MultiBulk, Value, Bulk
  <1>3. CASE mysqlMessageParser
    BY <1>3, Zenon DEF mysqlMessageParser, MysqlStep, MysqlTooShort, MysqlStart,
                       MysqlEatMessage, MysqlCountsMissing, MysqlEatFields, MysqlEatRow,
                       MysqlEatLastRow
  <1>4. CASE httpMessageParser
    BY <1>4, Zenon DEF httpMessageParser, HttpStep, HttpStart, HttpHeader, HttpFoldedHeader,
                       HttpEndOfHeaders, HttpBody, state_body_chunked_start,
                       state_body_chunked, state_body_chunked_wait_final_crlf
  <1>5. CASE pgsqlMessageParser
    BY <1>5, Zenon DEF pgsqlMessageParser, PgsqlStep, PgsqlTooShort, PgsqlSpecial,
                       PgsqlSSLReply, PgsqlMessage, PgsqlRowDescription, PgsqlIgnored,
                       PgsqlRow, PgsqlRowsEnd, PgsqlSkip
  <1>6. CASE ThriftStep
    BY <1>6, Zenon DEF ThriftStep, ThriftBegin, ThriftReply, ThriftRefuses, ThriftField,
                       ThriftStructPanic, ThriftStop, ThriftEndOfData
  <1>7. CASE ThriftResume
    BY <1>7, Zenon DEF ThriftResume, wireVars
  <1>8. CASE Astray \/ HttpReceivedFin \/ PgsqlGapInStream \/ OtherDirectionPanics
    BY <1>8, Zenon DEF Astray, HttpReceivedFin, PgsqlGapInStream, OtherDirectionPanics
  <1> QED BY <1>1, <1>2, <1>3, <1>4, <1>5, <1>6, <1>7, <1>8, Zenon DEF Next

\* The step of a parser is the step of the protocol on the wire.
LEMMA ParserOfProtocol ==
    /\ RedisStep => wire.proto = "redis"
    /\ MysqlStep => wire.proto = "mysql"
    /\ HttpStep => wire.proto = "http"
    /\ PgsqlStep => wire.proto = "pgsql"
    /\ ThriftStep => wire.proto = "thrift"
  <1> USE DEF EndOfData, AtWork
  <1>1. RedisStep => wire.proto = "redis"
    BY Zenon DEF RedisStep, BulkNotFound, LineNotFound, Unexpected, MultiBulk, Value, Bulk
  <1>2. MysqlStep => wire.proto = "mysql"
    BY Zenon DEF MysqlStep, MysqlTooShort, MysqlStart, MysqlEatMessage, MysqlEatFields,
                 MysqlEatRow, MysqlEatLastRow
  <1>3. HttpStep => wire.proto = "http"
    BY Zenon DEF HttpStep, HttpStart, HttpHeader, HttpFoldedHeader, HttpEndOfHeaders, HttpBody,
                 state_body_chunked_start, state_body_chunked,
                 state_body_chunked_wait_final_crlf
  <1>4. PgsqlStep => wire.proto = "pgsql"
    BY Zenon DEF PgsqlStep, PgsqlTooShort, PgsqlSpecial, PgsqlSSLReply, PgsqlMessage,
                 PgsqlRowDescription, PgsqlIgnored, PgsqlRow, PgsqlRowsEnd, PgsqlSkip
  <1>5. ThriftStep => wire.proto = "thrift"
    BY Zenon DEF ThriftStep, ThriftBegin, ThriftReply, ThriftRefuses, ThriftField,
                 ThriftStructPanic, ThriftStop, ThriftEndOfData
  <1> QED BY <1>1, <1>2, <1>3, <1>4, <1>5

\* A parser that has found its place again is where it was before the first packet.
LEMMA FoundAgain ==
    ASSUME wire \in Wires, Retry
    PROVE  Init'
  <1>1. PICK u \in Units : RetryFinds(u) /\ skipInput' = FALSE
    BY DEF Retry
  <1>2. wire' = Rest(wire, u) /\ EntryPoint(wire, u)
    BY <1>1, Zenon DEF RetryFinds
  <1>3. u \in UnitsOf(wire)
    BY DEF Units
  <1>4. wire' \in Wires
    BY <1>2, <1>3, WireAssumption, Zenon
  <1>5. /\ sent' = 0 /\ base' = 0 /\ offset' = 0 /\ state' = "start"
        /\ m' = NoMessage /\ parsing' = FALSE /\ ended' = "" /\ shipped' = <<>>
    BY <1>1, Zenon DEF RetryFinds
  <1> QED BY <1>1, <1>4, <1>5, Zenon DEF Init, WireInit

LEMMA StartAgain == Init' => ParserInv'
  <1>1. Init => ParserInv
    BY ParserStart
  <1> QED BY <1>1, PTL

\* The invariant is kept by every step of every parser.
LEMMA ParserKeeps ==
    ASSUME ParserInv, [Next]_parserVars, ~Retry
    PROVE  ParserInv'
  <1>1. wire \in Wires /\ (Misread \/ Live \/ Settled)
    BY DEF ParserInv
  <1>2. wire' = wire /\ wire' \in Wires /\ Misread' = Misread
    <2>1. wire' = wire
      BY StreamKept DEF parserVars, wireVars
    <2> QED BY <1>1, <2>1, SameStream
  <1>3. CASE UNCHANGED parserVars
    <2>1. /\ sent' = sent /\ base' = base /\ offset' = offset /\ state' = state /\ m' = m
          /\ parsing' = parsing /\ ended' = ended /\ shipped' = shipped
          /\ skipInput' = skipInput
      BY <1>3 DEF parserVars, wireVars
    <2>2. /\ Units' = Units /\ Total' = Total /\ Messages' = Messages
          /\ CaptureReply' = CaptureReply /\ Current' = Current
          /\ \A k : Begins(k)' = Begins(k) /\ Ends(k)' = Ends(k)
      BY <1>2, <2>1, SameStream DEF Current
    <2>3. Inside' = Inside /\ Remaining(offset)' = Remaining(offset)
      BY <1>2, <2>1, <2>2 DEF Inside, AtUnit, Remaining
    <2>4. Types' = Types /\ Handed' = Handed /\ Parted' = Parted
      BY <1>2, <2>1, <2>2 DEF Types, Handed, Parted, AtUnit
    <2>5. Exhausted' = Exhausted
      BY <1>2, <2>1, <2>2 DEF Exhausted, OpenEnded
    <2>6. RedisPlace' = RedisPlace /\ MysqlPlace' = MysqlPlace /\ PgsqlPlace' = PgsqlPlace
          /\ ThriftPlace' = ThriftPlace /\ MysqlWaits' = MysqlWaits
      BY <1>2, <2>1, <2>2, <2>3
         DEF RedisPlace, MysqlPlace, PgsqlPlace, ThriftPlace, AtUnit, MysqlWaits
    <2>7. HttpPlace' = HttpPlace
      <3>1. HeadersRead' = HeadersRead
        BY <1>2, <2>1, <2>2 DEF HeadersRead, Passed
      <3>2. InBody' = InBody
        BY <1>2, <2>1, <2>2 DEF InBody, OpenEnded
      <3>3. InChunk' = InChunk
        BY <1>2, <2>1, <2>2 DEF InChunk
      <3> QED BY <1>2, <2>1, <2>2, <2>3, <3>1, <3>2, <3>3 DEF HttpPlace
    <2>8. Live' = Live
      BY <1>2, <2>1, <2>4, <2>5, <2>6, <2>7 DEF Live, Place
    <2>9. /\ ShippedAsSent' = ShippedAsSent /\ KeepsItsPlace' = KeepsItsPlace
          /\ FinShipsBegun' = FinShipsBegun
      BY <1>2, <2>1, <2>2 DEF ShippedAsSent, KeepsItsPlace, FinShipsBegun, TooLong, Has
    <2>10. Settled' = Settled
      BY <2>1, <2>9 DEF Settled
    <2> QED BY <1>1, <1>2, <2>8, <2>10 DEF ParserInv
  <1>4. CASE Next
    <2>1. ended = ""
      BY <1>4, StreamKept
    <2>2. CASE Misread
      BY <1>2, <2>2 DEF ParserInv
    <2>3. CASE ~Misread
      <3>1. Live
        BY <1>1, <2>1, <2>3 DEF Settled
      <3>0. Live' \/ Settled' => ParserInv'
        BY <1>2 DEF ParserInv
      <3>2. ASSUME NEW len \in 1 .. MaxPacket, Parse(len) \/ ThriftSkip(len) PROVE ParserInv'
        <4>1. len \in Nat /\ len > 0
          BY WireAssumption
        <4> QED BY <1>1, <2>3, <3>0, <3>1, <3>2, <4>1, ParseKeeps, ThriftSkipKeeps
      <3>3. CASE redisMessageParser
        <4>1. RedisStep /\ skipInput' = skipInput
          BY <3>3 DEF redisMessageParser
        <4> QED BY <1>1, <2>3, <3>0, <3>1, <4>1, RedisKeeps, ParserOfProtocol
      <3>4. CASE mysqlMessageParser
        <4>1. MysqlStep /\ skipInput' = skipInput
          BY <3>4 DEF mysqlMessageParser
        <4> QED BY <1>1, <2>3, <3>0, <3>1, <4>1, MysqlKeeps, ParserOfProtocol
      <3>5. CASE httpMessageParser
        <4>1. HttpStep /\ skipInput' = skipInput
          BY <3>5 DEF httpMessageParser
        <4> QED BY <1>1, <2>3, <3>0, <3>1, <4>1, HttpKeeps, ParserOfProtocol
      <3>6. CASE pgsqlMessageParser
        <4>1. PgsqlStep /\ skipInput' = skipInput
          BY <3>6 DEF pgsqlMessageParser
        <4> QED BY <1>1, <2>3, <3>0, <3>1, <4>1, PgsqlKeeps, ParserOfProtocol
      <3>7. CASE ThriftStep
        BY <1>1, <2>3, <3>0, <3>1, <3>7, ThriftKeeps, ParserOfProtocol
      <3>8. CASE ThriftResume
        BY <1>1, <3>0, <3>1, <3>8, ThriftResumeKeeps
      <3>9. CASE Astray
        BY <1>1, <2>3, <3>0, <3>1, <3>9, NeverLost DEF Astray
      <3>10. CASE HttpReceivedFin
        BY <1>1, <2>3, <3>0, <3>1, <3>10, HttpFin
      <3>11. CASE PgsqlGapInStream
        BY <1>1, <2>3, <3>0, <3>1, <3>11, PgsqlGap
      <3>12. CASE OtherDirectionPanics
        <4>1. EndStream("other") /\ ended' = "other"
          BY <3>12 DEF OtherDirectionPanics, EndStream
        <4>2. KeepsItsPlace'
          BY <4>1 DEF KeepsItsPlace
        <4> QED BY <1>1, <3>0, <3>1, <4>1, <4>2, StreamEnds DEF Live
      <3> QED BY <1>4, <3>2, <3>3, <3>4, <3>5, <3>6, <3>7, <3>8, <3>9, <3>10, <3>11, <3>12
              DEF Next
    <2> QED BY <2>2, <2>3
  <1> QED BY <1>3, <1>4

LEMMA ParserStep ==
    ASSUME ParserInv, [Next]_parserVars
    PROVE  ParserInv'
  <1>1. CASE Retry
    BY <1>1, FoundAgain, StartAgain DEF ParserInv
  <1>2. CASE ~Retry
    BY <1>2, ParserKeeps
  <1> QED BY <1>1, <1>2

\* The invariant says all that is wanted.
LEMMA ParserInvSuffices ==
    ASSUME ParserInv
    PROVE  ShippedAsSent /\ KeepsItsPlace /\ WholeMessagesShipped /\ FinShipsBegun
  <1>1. wire \in Wires /\ (Misread \/ Live \/ Settled)
    BY DEF ParserInv
  <1>2. UnitFacts /\ MessageFacts
    BY <1>1, StreamFacts
  <1>3. CASE Misread
    BY <1>3 DEF ShippedAsSent, KeepsItsPlace, WholeMessagesShipped, FinShipsBegun
  <1>4. CASE Settled
    BY <1>4 DEF Settled, WholeMessagesShipped
  <1>5. CASE Live
    <2>1. Types /\ Handed /\ Parted /\ Place /\ Exhausted /\ ended = ""
      BY <1>5 DEF Live
    <2>2. ShippedAsSent
      BY <2>1 DEF Handed, ShippedAsSent
    <2>3. KeepsItsPlace
      BY <2>1 DEF KeepsItsPlace
    <2>4. Len(shipped) \in Nat /\ sent \in Nat /\ Current = Len(shipped) + 1
      <3>1. shipped \in Seq(Nat \X Nat) /\ sent \in Nat
        BY <2>1 DEF Types
      <3> QED BY <3>1 DEF Current
    <2>5. \A i \in DOMAIN Messages : i \in Nat /\ Ends(i) \in Nat /\ Messages[i][2] = Ends(i)
      BY <1>2 DEF MessageFacts, Ends
    <2>6. ASSUME \A k \in DOMAIN Messages : k >= Current => sent < Ends(k)
          PROVE  \A i \in DOMAIN Messages : Messages[i][2] <= sent => i < Current
      <3> TAKE i \in DOMAIN Messages
      <3>1. i \in Nat /\ Ends(i) \in Nat /\ Messages[i][2] = Ends(i)
        BY <2>5
      <3>2. i >= Current => sent < Ends(i)
        BY <2>6
      <3> QED BY <2>4, <3>1, <3>2
    <2>7. ASSUME ~parsing, ~Misread
          PROVE  \/ \A i \in DOMAIN Messages : Messages[i][2] <= sent => i < Current
                 \/ /\ wire.proto = "http"
                    /\ OpenEnded(Current) \/ (~m.there /\ Messages[Current][1] = base)
      <3>1. CASE wire.proto # "http"
        BY <2>1, <2>6, <2>7, <3>1 DEF Exhausted
      <3>2. CASE wire.proto = "http" /\ m.there /\ ~OpenEnded(Current)
        <4>1. Current \in DOMAIN Messages => sent < Ends(Current)
          BY <2>1, <2>7, <3>2 DEF Exhausted
        <4>2. CASE Current \in DOMAIN Messages
          BY <1>1, <2>1, <2>6, <4>1, <4>2, CurrentNotComplete
        <4>3. CASE Current \notin DOMAIN Messages
          <5>1. ASSUME NEW k \in DOMAIN Messages, k >= Current PROVE FALSE
            <6>1. k \in Nat /\ \A j \in 1 .. k : j \in DOMAIN Messages
              BY <1>2 DEF MessageFacts
            <6>2. Current \in 1 .. k
              BY <2>4, <5>1, <6>1
            <6> QED BY <4>3, <6>1, <6>2
          <5> QED BY <2>6, <5>1
        <4> QED BY <4>2, <4>3
      <3>3. CASE wire.proto = "http" /\ ~m.there
        <4>1. offset = base /\ ~skipInput
          BY <2>1, <3>3 DEF Place, HttpPlace, Types
        <4>2. /\ AtUnit(base) /\ \A k \in DOMAIN Messages : k >= Current => offset <= Begins(k)
          BY <2>1, <4>1 DEF Parted
        <4>3. CASE base = Total
          <5>1. ASSUME NEW k \in DOMAIN Messages, k >= Current PROVE FALSE
            <6>1. /\ base <= Begins(k) /\ Begins(k) < Ends(k) /\ Ends(k) <= Total
                  /\ Begins(k) \in Nat /\ Ends(k) \in Nat /\ Total \in Nat
              BY <1>2, <4>1, <4>2, <5>1 DEF MessageFacts, UnitFacts
            <6> QED BY <4>3, <6>1
          <5> QED BY <2>6, <5>1
        <4>4. CASE base # Total
          <5>1. PICK u \in Units : u.at = base
            BY <4>2, <4>4 DEF AtUnit
          <5>2. u.msg # 0
            BY <1>1, <2>7, <3>3, HttpUnits
          <5>3. Begins(Current) = base
            BY <1>1, <2>1, <4>1, <4>2, <5>1, <5>2, OpensHere
          <5> QED BY <3>3, <5>3 DEF Begins
        <4> QED BY <4>3, <4>4
      <3> QED BY <3>1, <3>2, <3>3
    <2>8. WholeMessagesShipped
      BY <2>7 DEF WholeMessagesShipped, Current
    <2>9. FinShipsBegun
      BY <2>1 DEF FinShipsBegun
    <2> QED BY <2>2, <2>3, <2>8, <2>9
  <1> QED BY <1>1, <1>3, <1>4, <1>5

\* Every stream, however TCP cuts it, is in a state that the invariant describes.
LEMMA ParsersKeepInv == Spec => []ParserInv
  <1>1. Init => ParserInv
    BY ParserStart
  <1>2. ParserInv /\ [Next]_parserVars => ParserInv'
    BY ParserStep
  <1> QED BY <1>1, <1>2, PTL DEF Spec

\* What the parsers hand on are the messages of the stream, in order and byte by byte
\* since the parser last found its place, for all five protocols and wherever TCP cuts
\* the stream; only the last one may be cut short, by a gap or by the end of the
\* connection.
THEOREM MessagesShippedAsSent == Spec => []ShippedAsSent
  <1>1. ParserInv => ShippedAsSent
    BY ParserInvSuffices
  <1> QED BY <1>1, ParsersKeepInv, PTL

\* A parser loses its place in a stream only for the reasons that KeepsItsPlace lists:
\* mysql wants five bytes of a packet and thirteen of an ERR at once, thrift reads beyond a
\* struct that is cut and refuses values, redis finds an inline command or a line break in
\* a bulk, http a first line it refuses or a trailer, and a buffer overflows only with a
\* message that need not fit (http and pgsql keep more in it).
THEOREM PlaceKept == Spec => []KeepsItsPlace
  <1>1. ParserInv => KeepsItsPlace
    BY ParserInvSuffices
  <1> QED BY <1>1, ParsersKeepInv, PTL

\* When Parse returns, every message that is there as a whole has been handed on, but for
\* http: a response that only the next one ends, and what stands at the head of the buffer
\* after the one message that http takes off it for each packet.
THEOREM NoWholeMessageLeft == Spec => []WholeMessagesShipped
  <1>1. ParserInv => WholeMessagesShipped
    BY ParserInvSuffices
  <1> QED BY <1>1, ParsersKeepInv, PTL

\* At the end of its connection http hands on whatever it has begun to read, whole or
\* not; what it loses stands untouched in the buffer, behind the message that Parse took
\* off the last packet.
THEOREM FinShipsWhatWasBegun == Spec => []FinShipsBegun
  <1>1. ParserInv => FinShipsBegun
    BY ParserInvSuffices
  <1> QED BY <1>1, ParsersKeepInv, PTL
===============================================================================
