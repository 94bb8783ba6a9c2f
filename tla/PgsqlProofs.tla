------------------------------- MODULE PgsqlProofs -------------------------------
(***************************************************************************)
(* Theorems about the pgsql correlator, for any streams, any number of     *)
(* queries and any size of a request, with timers that run between any two *)
(* steps of a handler and of one another.                                  *)
(***************************************************************************)
EXTENDS PgsqlTransactions, FiniteSetTheorems, SequenceTheorems, TLAPS

Filing == {"query", "load", "append"}
Answering == {"response", "first", "store"}

Own(k) == {k} \X (1 .. MaxQueries)
Expirer == [at : {"no", "find", "loop", "load", "store", "clean", "delete"},
            i : Nat, list : Seq(Queries)]

\* The queries of stream k up to this one have been in its list.
Filed(k) == IF pc \in Filing /\ msg[1] = k THEN msg[2] - todo ELSE sent[k]
\* The queries of stream k that the handler still has to file, and the response in hand.
Todo(k) == IF pc \in Filing /\ msg[1] = k THEN todo ELSE 0
Held(k) == IF pc \in Answering /\ msg[1] = k THEN 1 ELSE 0

PgsqlTypes ==
    /\ transactionsMap \in [Keys -> Seq(Queries)]
    /\ \A k \in Keys : transactionsMap[k] \in Seq(Own(k))
    /\ expire \in [Queries -> Expirer]
    /\ \A t \in Queries : /\ expire[t].list \in Seq(Own(t[1]))
                          /\ expire[t].at = "load" => expire[t].i # 0
                          /\ expire[t].at = "store" =>
                                crashed \/ expire[t].i \in 1 .. Len(expire[t].list)
    /\ todo \in Nat /\ crashed \in BOOLEAN
    /\ sent \in [Keys -> 0 .. MaxQueries] /\ due \in [Keys -> Seq(0 .. MaxQueries)]
    /\ published \subseteq Queries

Handler ==
    /\ pc # "idle" => msg \in Keys \X (0 .. MaxQueries)
    /\ pc \in Filing => todo \in 1 .. msg[2] /\ msg[2] <= sent[msg[1]]
    /\ pc \in {"load", "append"} => cur = <<msg[1], msg[2] - todo + 1>>
    /\ pc \in {"append", "store"} => list \in Seq(Own(msg[1]))
    /\ pc = "store" => list # <<>>
    /\ pc = "publish" => cur \in Own(msg[1]) /\ (cur = msg \/ msg[1] \in shifted \cup raced)

\* Without a race, what a goroutine has read is still there.
Current(k) ==
    k \notin raced =>
        /\ \A t \in Queries : t[1] = k =>
              /\ expire[t].at \in {"loop", "store"} => expire[t].list = transactionsMap[k]
              /\ expire[t].at = "load" => expire[t].i \in 1 .. Len(transactionsMap[k])
              /\ expire[t].at = "delete" => transactionsMap[k] = <<>>
        /\ HandlerReads(k) => list = transactionsMap[k]

\* Without a race, a query is in the list once, before it is published.
Fresh(k) ==
    k \notin raced =>
        /\ \A i \in 1 .. Len(transactionsMap[k]) :
              /\ transactionsMap[k][i] \notin published
              /\ transactionsMap[k][i][2] <= Filed(k)
        /\ \A i, j \in 1 .. Len(transactionsMap[k]) :
              transactionsMap[k][i] = transactionsMap[k][j] => i = j
        /\ \A q \in published : q[1] = k => q[2] <= Filed(k)
        /\ pc = "publish" /\ msg[1] = k =>
              /\ cur \notin published /\ cur[2] <= Filed(k)
              /\ \A i \in 1 .. Len(transactionsMap[k]) : transactionsMap[k][i] # cur

\* While neither queries nor responses are missing, the list holds the queries that are
\* to be answered, in their order.
InStep(k) ==
    k \notin shifted \cup raced =>
        /\ Len(transactionsMap[k]) + Todo(k) = Held(k) + Len(due[k])
        /\ \A i \in 1 .. Len(transactionsMap[k]) :
              transactionsMap[k][i][2] = IF i <= Held(k) THEN msg[2] ELSE due[k][i - Held(k)]
        /\ \A i \in 1 .. Todo(k) :
              due[k][Len(transactionsMap[k]) + i] = msg[2] - Todo(k) + i

PgsqlInv ==
    /\ PgsqlTypes /\ Handler
    /\ \A k \in Keys : Current(k) /\ Fresh(k) /\ InStep(k)
    /\ crashed => raced # {}
-------------------------------------------------------------------------------
LEMMA QueryIsPair ==
    ASSUME NEW q \in Queries
    PROVE  q # NoQuery /\ q[1] \in Keys /\ q[2] \in 1 .. MaxQueries /\ q = <<q[1], q[2]>>
BY SMTT(40) DEF Queries, NoQuery

LEMMA OwnIsPair ==
    ASSUME NEW k \in Keys, NEW q \in Own(k)
    PROVE  q \in Queries /\ q[1] = k /\ q[2] \in 1 .. MaxQueries /\ q = <<k, q[2]>>
BY SMTT(40) DEF Queries, Own

LEMMA MsgIsPair ==
    ASSUME NEW q \in Keys \X (0 .. MaxQueries)
    PROVE  q[1] \in Keys /\ q[2] \in 0 .. MaxQueries /\ q = <<q[1], q[2]>>
BY SMTT(40)

LEMMA OwnLists == \A k \in Keys : Seq(Own(k)) \subseteq Seq(Queries)
<1> SUFFICES ASSUME NEW k \in Keys, NEW s \in Seq(Own(k)) PROVE s \in Seq(Queries)
    OBVIOUS
<1>1. \A i \in 1 .. Len(s) : s[i] \in Queries
    BY OwnIsPair
<1> QED BY <1>1, SeqDef

\* What the list without its i-th element holds.
LEMMA RemoveAtElements ==
    ASSUME NEW S, NEW s \in Seq(S), NEW i \in 1 .. Len(s)
    PROVE  /\ RemoveAt(s, i) \in Seq(S)
           /\ Len(RemoveAt(s, i)) = Len(s) - 1
           /\ \A j \in 1 .. Len(s) - 1 :
                 RemoveAt(s, i)[j] = IF j < i THEN s[j] ELSE s[j + 1]
<1> DEFINE a == SubSeq(s, 1, i - 1)
           b == SubSeq(s, i + 1, Len(s))
<1>1. Len(s) \in Nat
    OBVIOUS
<1>2. /\ a \in Seq(S) /\ Len(a) = i - 1 /\ \A j \in 1 .. i - 1 : a[j] = s[j]
    BY <1>1
<1>3. /\ b \in Seq(S) /\ Len(b) = Len(s) - i /\ \A j \in 1 .. Len(s) - i : b[j] = s[i + j]
    BY <1>1
<1>4. RemoveAt(s, i) = a \o b
    BY DEF RemoveAt
<1> HIDE DEF a, b
<1>5. /\ a \o b \in Seq(S) /\ Len(a \o b) = Len(s) - 1
      /\ \A j \in 1 .. Len(s) - 1 : (a \o b)[j] = IF j < i THEN a[j] ELSE b[j - i + 1]
  <2>1. /\ a \o b \in Seq(S) /\ Len(a \o b) = Len(a) + Len(b)
        /\ \A j \in 1 .. Len(a) + Len(b) :
              (a \o b)[j] = IF j <= Len(a) THEN a[j] ELSE b[j - Len(a)]
      BY <1>2, <1>3, ConcatProperties
  <2>2. Len(a) + Len(b) = Len(s) - 1
      BY <1>1, <1>2, <1>3
  <2>3. \A j \in 1 .. Len(s) - 1 : (j <= Len(a) <=> j < i) /\ j - Len(a) = j - i + 1
      BY <1>1, <1>2
  <2> QED BY <2>1, <2>2, <2>3
<1>6. \A j \in 1 .. Len(s) - 1 : j < i => j \in 1 .. i - 1
    BY <1>1
<1>7. \A j \in 1 .. Len(s) - 1 : ~(j < i) => j - i + 1 \in 1 .. Len(s) - i /\ i + (j - i + 1) = j + 1
    BY <1>1
<1> QED BY <1>2, <1>3, <1>4, <1>5, <1>6, <1>7

\* Nothing is open and nothing is published at the start.
LEMMA PgsqlInitInv == Init => PgsqlInv
<1> SUFFICES ASSUME Init PROVE PgsqlInv
    OBVIOUS
<1>1. PgsqlTypes
  <2>1. Idle \in Expirer /\ Idle.at = "no" /\ Idle.list = <<>>
      BY DEF Idle, Expirer
  <2>2. \A k \in Keys : transactionsMap[k] = <<>> /\ due[k] = <<>> /\ sent[k] = 0
      BY DEF Init
  <2>3. \A t \in Queries : expire[t] = Idle
      BY DEF Init
  <2>4. /\ transactionsMap \in [Keys -> Seq(Queries)] /\ expire \in [Queries -> Expirer]
        /\ sent \in [Keys -> 0 .. MaxQueries] /\ due \in [Keys -> Seq(0 .. MaxQueries)]
        /\ todo \in Nat /\ published \subseteq Queries
      BY <2>1, PgsqlAssumption DEF Init
  <2>5. \A k \in Keys : transactionsMap[k] \in Seq(Own(k))
      BY <2>2, EmptySeq
  <2>6. \A t \in Queries : expire[t].list \in Seq(Own(t[1])) /\ expire[t].at = "no"
      BY <2>1, <2>3, EmptySeq
  <2>7. crashed \in BOOLEAN
      BY DEF Init
  <2> QED BY <2>4, <2>5, <2>6, <2>7 DEF PgsqlTypes
<1>2. Handler
    BY DEF Init, Handler, Filing
<1>3. ASSUME NEW k \in Keys PROVE Current(k) /\ Fresh(k) /\ InStep(k)
  <2>1. transactionsMap[k] = <<>> /\ due[k] = <<>> /\ \A t \in Queries : expire[t].at = "no"
      BY DEF Init, Idle
  <2>2. pc = "idle" /\ published = {}
      BY DEF Init
  <2> QED BY <2>1, <2>2 DEF Current, Fresh, InStep, HandlerReads, Todo, Held, Filing, Answering
<1> QED BY <1>1, <1>2, <1>3 DEF PgsqlInv, Init

\* Steps that leave the list of a stream, its messages and its handler alone.
LEMMA SameStream ==
    ASSUME PgsqlInv, NEW k \in Keys,
           transactionsMap'[k] = transactionsMap[k], sent'[k] = sent[k], due'[k] = due[k],
           UNCHANGED <<pc, msg, cur, todo, list, published>>,
           raced \subseteq raced', shifted \subseteq shifted'
    PROVE  Fresh(k)' /\ InStep(k)'
<1>1. Fresh(k) /\ InStep(k)
    BY DEF PgsqlInv
<1>2. Filed(k)' = Filed(k) /\ Todo(k)' = Todo(k) /\ Held(k)' = Held(k)
    BY DEF Filed, Todo, Held
<1>3. Fresh(k)'
    BY <1>1, <1>2 DEF Fresh
<1>4. InStep(k)'
    BY <1>1, <1>2 DEF InStep
<1> QED BY <1>3, <1>4

LEMMA SameReaders ==
    ASSUME PgsqlInv, NEW k \in Keys,
           transactionsMap'[k] = transactionsMap[k],
           \A t \in Queries : t[1] = k => expire'[t] = expire[t],
           HandlerReads(k)' => HandlerReads(k) /\ list' = list,
           raced \subseteq raced'
    PROVE  Current(k)'
<1>1. Current(k)
    BY DEF PgsqlInv
<1> QED BY <1>1 DEF Current

\* The steps of a handler on another stream.
LEMMA OtherStream ==
    ASSUME PgsqlInv, NEW k \in Keys,
           transactionsMap'[k] = transactionsMap[k], sent'[k] = sent[k], due'[k] = due[k],
           expire' = expire,
           pc = "idle" \/ msg[1] # k, pc' = "idle" \/ msg'[1] # k,
           \A q \in published' : q \in published \/ q[1] # k,
           raced \subseteq raced', k \in shifted => k \in shifted'
    PROVE  Current(k)' /\ Fresh(k)' /\ InStep(k)'
<1>1. Current(k) /\ Fresh(k) /\ InStep(k)
    BY DEF PgsqlInv
<1>2. /\ Filed(k)' = Filed(k) /\ Todo(k)' = Todo(k) /\ Held(k)' = Held(k)
      /\ Held(k) = 0 /\ Todo(k) = 0
    BY DEF Filed, Todo, Held, Filing, Answering
<1>3. Current(k)'
    BY SameReaders DEF HandlerReads
<1>4. Fresh(k)'
  <2>1. \A i \in 1 .. Len(transactionsMap[k]) : transactionsMap[k][i][1] = k
      BY OwnIsPair DEF PgsqlInv, PgsqlTypes
  <2> QED BY <2>1, <1>1, <1>2 DEF Fresh
<1>5. InStep(k)'
    BY <1>1, <1>2 DEF InStep
<1> QED BY <1>3, <1>4, <1>5

LEMMA MaxOfTwo ==
    ASSUME NEW p \in Nat, NEW r \in Nat
    PROVE  Max({p, r}) \in {p, r} /\ p <= Max({p, r}) /\ r <= Max({p, r})
<1>1. \E x \in {p, r} : \A y \in {p, r} : x >= y
  <2>1. CASE p >= r
      BY <2>1
  <2>2. CASE ~(p >= r)
      BY <2>2
  <2> QED BY <2>1, <2>2
<1>2. Max({p, r}) \in {p, r} /\ \A y \in {p, r} : Max({p, r}) >= y
    BY <1>1 DEF Max
<1> QED BY <1>2

\* A request appears: its queries are to be answered, and those that Parse handed on
\* wait to be filed.
LEMMA RequestKeeps ==
    ASSUME PgsqlInv, NEW k \in Keys, NEW p \in Nat, NEW r \in Nat, pc = "idle",
           Request(k, p, r),
           UNCHANGED <<transactionsMap, expire, crashed, published, raced>>,
           IF p = 0 THEN pc' = "idle" /\ todo' = todo
                    ELSE pc' = "query" /\ msg' = <<k, sent[k] + p>> /\ todo' = p
    PROVE  PgsqlInv'
<1> USE PgsqlAssumption
<1> DEFINE n == Max({p, r})
           more == [i \in 1 .. r |-> sent[k] + i]
<1>1. /\ sent[k] + n <= MaxQueries
      /\ sent' = [sent EXCEPT ![k] = @ + n]
      /\ due' = [due EXCEPT ![k] = @ \o more]
      /\ shifted' = (shifted \ {j \in {k} : Quiet(j)}) \cup {j \in {k} : p # r}
    BY DEF Request
<1>2. n \in Nat /\ p <= n /\ r <= n
    BY MaxOfTwo
<1> HIDE DEF n
<1>3. /\ sent \in [Keys -> 0 .. MaxQueries] /\ due \in [Keys -> Seq(0 .. MaxQueries)]
      /\ sent[k] \in Nat /\ due[k] \in Seq(0 .. MaxQueries)
    BY DEF PgsqlInv, PgsqlTypes
<1>4. more \in Seq(0 .. MaxQueries) /\ Len(more) = r /\ \A i \in 1 .. r : more[i] = sent[k] + i
  <2>1. \A i \in 1 .. r : sent[k] + i \in 0 .. MaxQueries
      BY <1>1, <1>2, <1>3
  <2> QED BY <2>1
<1> HIDE DEF more
<1>5. /\ sent' \in [Keys -> 0 .. MaxQueries] /\ sent'[k] = sent[k] + n
      /\ \A j \in Keys \ {k} : sent'[j] = sent[j] /\ due'[j] = due[j]
      /\ due' \in [Keys -> Seq(0 .. MaxQueries)] /\ due'[k] = due[k] \o more
  <2>1. sent[k] + n \in 0 .. MaxQueries
      BY <1>1, <1>2, <1>3
  <2>2. due[k] \o more \in Seq(0 .. MaxQueries)
      BY <1>3, <1>4
  <2> QED BY <2>1, <2>2, <1>1, <1>3
<1>6. PgsqlTypes'
    BY <1>5 DEF PgsqlInv, PgsqlTypes
<1>7. ASSUME p # 0
      PROVE  /\ msg' \in Keys \X (0 .. MaxQueries) /\ msg'[1] = k /\ msg'[2] = sent[k] + p
             /\ p \in 1 .. msg'[2] /\ msg'[2] <= sent'[k]
  <2>1. sent[k] + p \in 0 .. MaxQueries
      BY <1>1, <1>2, <1>3
  <2>2. msg' = <<k, sent[k] + p>>
      BY <1>7
  <2> QED BY <2>1, <2>2, <1>2, <1>3, <1>5, <1>7
<1>8. Handler'
  <2>1. CASE p = 0
      BY <2>1 DEF Handler, Filing
  <2>2. CASE p # 0
      BY <2>2, <1>7 DEF Handler, Filing
  <2> QED BY <2>1, <2>2
<1>9. ASSUME NEW j \in Keys, j # k PROVE Current(j)' /\ Fresh(j)' /\ InStep(j)'
    BY <1>9, <1>1, <1>5, <1>7, OtherStream
<1>10. Current(k)'
    BY SameReaders DEF HandlerReads
<1>11. /\ Filed(k) = sent[k] /\ Todo(k) = 0 /\ Held(k) = 0
       /\ Filed(k)' \in Nat /\ Filed(k)' >= Filed(k)
       /\ Todo(k)' = p /\ Held(k)' = 0
  <2>1. Filed(k) = sent[k] /\ Todo(k) = 0 /\ Held(k) = 0
      BY DEF Filed, Todo, Held, Filing, Answering
  <2>2. CASE p = 0
      BY <2>1, <2>2, <1>2, <1>3, <1>5 DEF Filed, Todo, Held, Filing, Answering
  <2>3. CASE p # 0
      BY <2>1, <2>3, <1>3, <1>7 DEF Filed, Todo, Held, Filing, Answering
  <2> QED BY <2>1, <2>2, <2>3
<1>12. Fresh(k)'
  <2>1. Fresh(k)
      BY DEF PgsqlInv
  <2>2. \A i \in 1 .. Len(transactionsMap[k]) : transactionsMap[k][i][2] \in Nat
      BY OwnIsPair DEF PgsqlInv, PgsqlTypes
  <2>3. \A q \in published : q[2] \in Nat
      BY QueryIsPair DEF PgsqlInv, PgsqlTypes
  <2> QED BY <2>1, <2>2, <2>3, <1>3, <1>11 DEF Fresh
<1>13. InStep(k)'
  <2> SUFFICES ASSUME k \notin shifted' \cup raced PROVE InStep(k)'
      BY DEF InStep
  <2> DEFINE l == transactionsMap[k]
  <2>1. p = r /\ (k \notin shifted \/ Quiet(k))
      BY <1>1
  <2>2. l \in Seq(Queries) /\ Len(l) \in Nat /\ Len(due[k]) \in Nat
      BY <1>3 DEF PgsqlInv, PgsqlTypes
  <2>3. Len(l) = Len(due[k]) /\ \A i \in 1 .. Len(l) : l[i][2] = due[k][i]
    <3>1. CASE Quiet(k)
        BY <3>1 DEF Quiet
    <3>2. CASE k \notin shifted
      <4>1. InStep(k)
          BY DEF PgsqlInv
      <4> QED BY <4>1, <3>2, <2>2, <1>11 DEF InStep
    <3> QED BY <3>1, <3>2, <2>1
  <2>4. /\ Len(due'[k]) = Len(due[k]) + r
        /\ \A i \in 1 .. Len(due[k]) : due'[k][i] = due[k][i]
        /\ \A i \in 1 .. r : due'[k][Len(due[k]) + i] = sent[k] + i
    <3>1. /\ Len(due[k] \o more) = Len(due[k]) + Len(more)
          /\ \A i \in 1 .. Len(due[k]) + Len(more) :
                (due[k] \o more)[i] = IF i <= Len(due[k]) THEN due[k][i] ELSE more[i - Len(due[k])]
      <4> DEFINE S == 0 .. MaxQueries
      <4>1. due[k] \in Seq(S) /\ more \in Seq(S)
          BY <1>3, <1>4
      <4> HIDE DEF S
      <4> QED BY <4>1, ConcatProperties
    <3>2. \A i \in 1 .. Len(due[k]) : i \in 1 .. Len(due[k]) + r /\ i <= Len(due[k])
        BY <2>2
    <3>3. \A i \in 1 .. r : /\ Len(due[k]) + i \in 1 .. Len(due[k]) + r
                            /\ ~(Len(due[k]) + i <= Len(due[k]))
                            /\ (Len(due[k]) + i) - Len(due[k]) = i
        BY <2>2
    <3> QED BY <3>1, <3>2, <3>3, <1>4, <1>5
  <2>5. p # 0 => msg'[2] = sent[k] + p
      BY <1>7
  <2> HIDE DEF l
  <2>6. transactionsMap'[k] = l
      BY DEF l
  <2>7. Len(transactionsMap'[k]) + Todo(k)' = Held(k)' + Len(due'[k])
    <3>1. /\ Len(transactionsMap'[k]) = Len(l) /\ Todo(k)' = p /\ Held(k)' = 0
          /\ Len(due'[k]) = Len(l) + p
        BY <2>1, <2>3, <2>4, <2>6, <1>11
    <3> QED BY <3>1, <2>2
  <2>8. ASSUME NEW i \in 1 .. Len(l)
        PROVE  l[i][2] = IF i <= Held(k)' THEN msg'[2] ELSE due'[k][i - Held(k)']
    <3>1. ~(i <= Held(k)') /\ i - Held(k)' = i
        BY <2>2, <1>11
    <3>2. l[i][2] = due'[k][i]
        BY <2>3, <2>4
    <3> QED BY <3>1, <3>2
  <2>9. ASSUME NEW i \in 1 .. Todo(k)'
        PROVE  due'[k][Len(l) + i] = msg'[2] - Todo(k)' + i
    <3>1. i \in 1 .. r /\ p # 0 /\ Todo(k)' = p
        BY <2>1, <1>11
    <3>2. due'[k][Len(l) + i] = sent[k] + i
        BY <3>1, <2>3, <2>4
    <3> QED BY <3>1, <3>2, <2>5, <1>3
  <2> QED BY <2>6, <2>7, <2>8, <2>9 DEF InStep
<1>14. crashed' => raced' # {}
    BY DEF PgsqlInv
<1> QED BY <1>6, <1>8, <1>9, <1>10, <1>12, <1>13, <1>14 DEF PgsqlInv

\* A response appears, read or lost, or one is made up.
LEMMA ResponseKeeps ==
    ASSUME PgsqlInv, NEW k \in Keys, pc = "idle", NEW n \in 0 .. MaxQueries,
           UNCHANGED <<transactionsMap, expire, crashed, published, raced, sent, todo>>,
           \A j \in Keys \ {k} : due'[j] = due[j],
           due' \in [Keys -> Seq(0 .. MaxQueries)],
           pc' = "idle" \/ (pc' = "response" /\ msg' = <<k, n>>),
           \/ shifted' = shifted \cup {k}
           \/ /\ shifted' = shifted /\ pc' = "response" /\ due[k] # <<>>
              /\ due'[k] = Tail(due[k]) /\ n = Head(due[k])
    PROVE  PgsqlInv'
<1> USE PgsqlAssumption
<1>1. PgsqlTypes'
    BY DEF PgsqlInv, PgsqlTypes
<1>2. pc' = "response" => msg' \in Keys \X (0 .. MaxQueries) /\ msg'[1] = k /\ msg'[2] = n
    OBVIOUS
<1>3. Handler'
    BY <1>2 DEF Handler, Filing
<1>4. ASSUME NEW j \in Keys, j # k PROVE Current(j)' /\ Fresh(j)' /\ InStep(j)'
    BY <1>2, <1>4, OtherStream
<1>5. Current(k)'
    BY SameReaders DEF HandlerReads
<1>6. /\ Filed(k)' = Filed(k) /\ Todo(k) = 0 /\ Held(k) = 0
      /\ Todo(k)' = 0 /\ (pc' = "response" => Held(k)' = 1)
    BY <1>2 DEF Filed, Todo, Held, Filing, Answering
<1>7. Fresh(k)'
    BY <1>6 DEF PgsqlInv, Fresh
<1>8. InStep(k)'
  <2> SUFFICES ASSUME k \notin shifted' \cup raced PROVE InStep(k)'
      BY DEF InStep
  <2> DEFINE l == transactionsMap[k]
             s == due[k]
  <2>1. /\ k \notin shifted /\ pc' = "response" /\ s # <<>>
        /\ due'[k] = Tail(s) /\ n = Head(s) /\ msg'[2] = n
      BY <1>2
  <2>2. l \in Seq(Queries) /\ s \in Seq(0 .. MaxQueries)
      BY DEF PgsqlInv, PgsqlTypes
  <2>3. Len(l) = Len(s) /\ \A i \in 1 .. Len(l) : l[i][2] = s[i]
    <3>1. InStep(k)
        BY DEF PgsqlInv
    <3> QED BY <3>1, <2>1, <2>2, <1>6 DEF InStep
  <2>4. transactionsMap'[k] = l
      OBVIOUS
  <2> HIDE DEF l, s
  <2>5. /\ Len(due'[k]) = Len(s) - 1 /\ n = s[1]
        /\ \A i \in 1 .. Len(s) - 1 : due'[k][i] = s[i + 1]
      BY <2>1, <2>2
  <2>6. Len(transactionsMap'[k]) + Todo(k)' = Held(k)' + Len(due'[k])
      BY <2>1, <2>2, <2>3, <2>4, <2>5, <1>6
  <2>7. ASSUME NEW i \in 1 .. Len(l)
        PROVE  l[i][2] = IF i <= 1 THEN n ELSE due'[k][i - 1]
    <3>1. i # 1 => i - 1 \in 1 .. Len(s) - 1 /\ (i - 1) + 1 = i
        BY <2>2, <2>3
    <3> QED BY <3>1, <2>3, <2>5
  <2> QED BY <2>1, <2>4, <2>6, <2>7, <1>6 DEF InStep
<1>9. crashed' => raced' # {}
    BY DEF PgsqlInv
<1> QED BY <1>1, <1>3, <1>4, <1>5, <1>7, <1>8, <1>9 DEF PgsqlInv

\* What Parse and GapInStream do.
LEMMA NetworkKeeps ==
    ASSUME PgsqlInv, NEW k \in Keys, Parse(k) \/ ParseDrops(k) \/ GapInStream(k)
    PROVE  PgsqlInv'
<1> USE PgsqlAssumption
<1>0. due \in [Keys -> Seq(0 .. MaxQueries)] /\ pc = "idle"
    BY DEF PgsqlInv, PgsqlTypes, Parse, ParseDrops, GapInStream, handlePgsql, HandleRequest,
           HandleResponse, HandleRest, MayHandle
<1>1. ASSUME NEW p \in 0 .. MaxBatch, NEW r \in 0 .. MaxBatch, HandleRequest(k, p, r)
      PROVE  PgsqlInv'
    BY <1>0, <1>1, RequestKeeps DEF HandleRequest
<1>2. ASSUME due[k] # <<>>
      PROVE  /\ [due EXCEPT ![k] = Tail(@)] \in [Keys -> Seq(0 .. MaxQueries)]
             /\ [due EXCEPT ![k] = Tail(@)][k] = Tail(due[k])
             /\ \A j \in Keys \ {k} : [due EXCEPT ![k] = Tail(@)][j] = due[j]
             /\ Head(due[k]) \in 0 .. MaxQueries
  <2>1. due[k] \in Seq(0 .. MaxQueries)
      BY <1>0
  <2>2. Tail(due[k]) \in Seq(0 .. MaxQueries) /\ Head(due[k]) \in 0 .. MaxQueries
      BY <2>1, <1>2, HeadTailProperties
  <2> QED BY <2>2, <1>0
<1>3. CASE HandleResponse(k)
  <2>1. /\ due[k] # <<>> /\ due' = [due EXCEPT ![k] = Tail(@)]
        /\ pc' = "response" /\ msg' = <<k, Head(due[k])>> /\ shifted' = shifted
        /\ UNCHANGED <<transactionsMap, expire, crashed, published, raced, sent, todo>>
      BY <1>3 DEF HandleResponse, pastVars
  <2> QED BY <2>1, <1>0, <1>2, ResponseKeeps
<1>4. CASE HandleRest(k)
  <2>1. /\ due' = due /\ pc' = "response" /\ msg' = <<k, 0>> /\ shifted' = shifted \cup {k}
        /\ UNCHANGED <<transactionsMap, expire, crashed, published, raced, sent, todo>>
      BY <1>4 DEF HandleRest
  <2> QED BY <2>1, <1>0, ResponseKeeps
<1>5. CASE ParseDrops(k)
  <2>1. UNCHANGED <<transactionsMap, expire, crashed, published, raced, pc, msg, cur, todo, list>>
      BY <1>5 DEF ParseDrops, handlerVars
  <2>2. ASSUME NEW r \in 1 .. MaxBatch, Request(k, 0, r) PROVE PgsqlInv'
      BY <2>1, <2>2, <1>0, RequestKeeps
  <2>3. CASE /\ due[k] # <<>> /\ due' = [due EXCEPT ![k] = Tail(@)]
             /\ shifted' = shifted \cup {k} /\ sent' = sent
    <3>1. 0 \in 0 .. MaxQueries
        OBVIOUS
    <3> QED BY <2>1, <2>3, <3>1, <1>0, <1>2, ResponseKeeps
  <2> QED BY <2>2, <2>3, <1>5 DEF ParseDrops
<1>6. CASE UNCHANGED <<transactionsMap, timer, expire, handlerVars, sent, due, crashed,
                       published, pastVars, raced>>
  <2>1. UNCHANGED <<transactionsMap, expire, pc, msg, cur, todo, list, sent, due, crashed,
                    published, shifted, raced>>
      BY <1>6 DEF handlerVars, pastVars
  <2>2. PgsqlTypes' /\ Handler'
      BY <2>1 DEF PgsqlInv, PgsqlTypes, Handler
  <2>3. \A j \in Keys : Current(j)' /\ Fresh(j)' /\ InStep(j)'
      BY <2>1, SameStream, SameReaders DEF HandlerReads
  <2> QED BY <2>1, <2>2, <2>3 DEF PgsqlInv
<1> QED BY <1>1, <1>3, <1>4, <1>5, <1>6 DEF Parse, GapInStream, handlePgsql

\* What the steps of a handler may assume.
LEMMA InHandler ==
    ASSUME PgsqlInv, pc # "idle"
    PROVE  /\ msg \in Keys \X (0 .. MaxQueries) /\ msg[1] \in Keys /\ msg[2] \in 0 .. MaxQueries
           /\ transactionsMap[msg[1]] \in Seq(Own(msg[1]))
           /\ transactionsMap[msg[1]] \in Seq(Queries)
           /\ Len(transactionsMap[msg[1]]) \in Nat
           /\ sent[msg[1]] \in 0 .. MaxQueries
           /\ due[msg[1]] \in Seq(0 .. MaxQueries) /\ Len(due[msg[1]]) \in Nat
<1>1. msg \in Keys \X (0 .. MaxQueries) /\ msg[1] \in Keys /\ msg[2] \in 0 .. MaxQueries
    BY MsgIsPair DEF PgsqlInv, Handler
<1>2. /\ transactionsMap[msg[1]] \in Seq(Own(msg[1]))
      /\ transactionsMap[msg[1]] \in Seq(Queries)
      /\ sent[msg[1]] \in 0 .. MaxQueries
      /\ due[msg[1]] \in Seq(0 .. MaxQueries)
    BY <1>1 DEF PgsqlInv, PgsqlTypes
<1> QED BY <1>1, <1>2

\* Steps of a handler that change neither a list nor what is published nor the messages
\* it has dealt with.
LEMMA HandlerMoves ==
    ASSUME PgsqlInv, pc # "idle", pc' # "idle", pc' # "publish",
           UNCHANGED <<transactionsMap, expire, msg, todo, sent, due, crashed, published, shifted,
                       raced>>,
           pc \in Filing <=> pc' \in Filing, pc \in Answering <=> pc' \in Answering,
           pc' \in {"load", "append"} => cur' = <<msg[1], msg[2] - todo + 1>>,
           pc' \in {"append", "store"} => list' = transactionsMap[msg[1]],
           pc' = "store" => list' # <<>>
    PROVE  PgsqlInv'
<1>1. PgsqlTypes'
    BY DEF PgsqlInv, PgsqlTypes
<1>2. Handler'
    BY InHandler DEF PgsqlInv, Handler
<1>3. ASSUME NEW k \in Keys PROVE Current(k)' /\ Fresh(k)' /\ InStep(k)'
  <2>1. Filed(k)' = Filed(k) /\ Todo(k)' = Todo(k) /\ Held(k)' = Held(k)
      BY DEF Filed, Todo, Held
  <2>2. Current(k) /\ Fresh(k) /\ InStep(k)
      BY DEF PgsqlInv
  <2>3. Current(k)'
      BY <2>2 DEF Current, HandlerReads
  <2>4. Fresh(k)'
      BY <2>1, <2>2 DEF Fresh
  <2>5. InStep(k)'
      BY <2>1, <2>2 DEF InStep
  <2> QED BY <2>3, <2>4, <2>5
<1> QED BY <1>1, <1>2, <1>3 DEF PgsqlInv

\* The handler returns; it had nothing to file, and no response that is due an answer.
LEMMA HandlerReturns ==
    ASSUME PgsqlInv, pc # "idle", pc \notin Filing, pc' = "idle",
           UNCHANGED <<transactionsMap, expire, todo, sent, due, crashed, published, shifted, raced>>,
           pc \in Answering => transactionsMap[msg[1]] = <<>>
    PROVE  PgsqlInv'
<1>0. PICK k \in Keys : k = msg[1]
    BY InHandler
<1>1. PgsqlTypes'
    BY DEF PgsqlInv, PgsqlTypes
<1>2. Handler'
    BY DEF Handler, Filing
<1>3. ASSUME NEW j \in Keys, j # k PROVE Current(j)' /\ Fresh(j)' /\ InStep(j)'
    BY <1>0, <1>3, OtherStream
<1>4. Current(k)'
    BY SameReaders DEF HandlerReads
<1>5. Current(k) /\ Fresh(k) /\ InStep(k)
    BY DEF PgsqlInv
<1>6. Filed(k)' = Filed(k) /\ Todo(k)' = 0 /\ Todo(k) = 0 /\ Held(k)' = 0
    BY DEF Filed, Todo, Held, Filing, Answering
<1>7. Fresh(k)'
    BY <1>5, <1>6 DEF Fresh
<1>8. InStep(k)'
  <2>1. CASE pc \in Answering
    <3>1. Held(k) = 1 /\ Len(transactionsMap[k]) = 0 /\ Len(due[k]) \in Nat
        BY <2>1, <1>0, InHandler DEF Held
    <3>2. k \in shifted \cup raced
        BY <3>1, <1>5, <1>6 DEF InStep
    <3> QED BY <3>2 DEF InStep
  <2>2. CASE pc \notin Answering
    <3>1. Held(k) = 0
        BY <2>2 DEF Held
    <3> QED BY <3>1, <1>5, <1>6 DEF InStep
  <2> QED BY <2>1, <2>2
<1> QED BY <1>1, <1>2, <1>3, <1>4, <1>7, <1>8 DEF PgsqlInv

\* A query is filed: it is newer than those in the list and those published.
LEMMA RequestAppendKeeps ==
    ASSUME PgsqlInv, RequestAppend
    PROVE  PgsqlInv'
<1> USE PgsqlAssumption
<1>0. PICK k \in Keys : k = msg[1] /\ pc = "append"
    BY InHandler DEF RequestAppend
<1> DEFINE l == transactionsMap[k]
<1>1. /\ transactionsMap' = [transactionsMap EXCEPT ![k] = Append(list, cur)]
      /\ raced \subseteq raced' /\ (k \notin raced' => k \notin raced /\ Readers(k) = {})
      /\ todo' = todo - 1
      /\ pc' = IF todo = 1 THEN "idle" ELSE "query"
      /\ pc' = "query" => msg' = msg
      /\ UNCHANGED <<sent, due, expire, crashed, published, shifted>>
    BY <1>0 DEF RequestAppend, Return, netVars, pastVars
<1>2. /\ msg \in Keys \X (0 .. MaxQueries) /\ msg[2] \in 0 .. MaxQueries
      /\ l \in Seq(Own(k)) /\ l \in Seq(Queries) /\ Len(l) \in Nat
      /\ sent[k] \in 0 .. MaxQueries
      /\ due[k] \in Seq(0 .. MaxQueries) /\ Len(due[k]) \in Nat
    BY <1>0, InHandler
<1>3. /\ todo \in 1 .. msg[2] /\ msg[2] <= sent[k] /\ list \in Seq(Own(k))
      /\ cur = <<k, msg[2] - todo + 1>>
    BY <1>0 DEF PgsqlInv, Handler, Filing
<1>4. cur \in Own(k) /\ cur[1] = k /\ cur[2] = msg[2] - todo + 1 /\ cur \in Queries
  <2>1. msg[2] - todo + 1 \in 1 .. MaxQueries
      BY <1>2, <1>3
  <2> QED BY <2>1, <1>3, OwnIsPair DEF Own
<1>5. /\ Append(list, cur) \in Seq(Own(k)) /\ Append(list, cur) \in Seq(Queries)
      /\ transactionsMap'[k] = Append(list, cur)
      /\ \A j \in Keys \ {k} : transactionsMap'[j] = transactionsMap[j]
      /\ transactionsMap' \in [Keys -> Seq(Queries)]
  <2>1. Append(list, cur) \in Seq(Own(k))
      BY <1>3, <1>4
  <2>2. Append(list, cur) \in Seq(Queries)
      BY <2>1, OwnLists
  <2> QED BY <2>1, <2>2, <1>1 DEF PgsqlInv, PgsqlTypes
<1>6. PgsqlTypes'
  <2>1. todo' \in Nat
      BY <1>1, <1>2, <1>3
  <2>2. \A j \in Keys : transactionsMap'[j] \in Seq(Own(j))
      BY <1>5 DEF PgsqlInv, PgsqlTypes
  <2> QED BY <2>1, <2>2, <1>1, <1>5 DEF PgsqlInv, PgsqlTypes
<1>7. Handler'
  <2>1. pc' = "query" => todo' \in 1 .. msg[2]
      BY <1>1, <1>2, <1>3
  <2>2. pc' \in {"idle", "query"}
      BY <1>1
  <2> QED BY <2>1, <2>2, <1>0, <1>1, <1>2, <1>3 DEF Handler, Filing
<1>8. ASSUME NEW j \in Keys, j # k PROVE Current(j)' /\ Fresh(j)' /\ InStep(j)'
    BY <1>0, <1>1, <1>5, <1>8, OtherStream
<1>9. /\ Filed(k) = msg[2] - todo /\ Filed(k) \in Nat /\ cur[2] = Filed(k) + 1
      /\ Filed(k)' \in Nat /\ Filed(k)' >= cur[2]
      /\ Todo(k) = todo /\ Held(k) = 0 /\ Held(k)' = 0 /\ Todo(k)' = todo - 1
  <2>1. /\ Filed(k) = msg[2] - todo /\ Todo(k) = todo /\ Held(k) = 0
      BY <1>0 DEF Filed, Todo, Held, Filing, Answering
  <2>2. CASE todo = 1
    <3>1. pc' = "idle"
        BY <2>2, <1>1
    <3> QED BY <2>1, <2>2, <3>1, <1>1, <1>2, <1>3, <1>4 DEF Filed, Todo, Held, Filing, Answering
  <2>3. CASE todo # 1
    <3>1. pc' = "query" /\ msg'[1] = k /\ msg'[2] = msg[2]
        BY <2>3, <1>0, <1>1
    <3> QED BY <2>1, <2>3, <3>1, <1>1, <1>2, <1>3, <1>4 DEF Filed, Todo, Held, Filing, Answering
  <2> QED BY <2>2, <2>3
<1>10. ASSUME k \notin raced'
       PROVE  /\ list = l /\ Fresh(k) /\ k \notin raced /\ Readers(k) = {}
              /\ transactionsMap'[k] = Append(l, cur)
              /\ Len(transactionsMap'[k]) = Len(l) + 1
              /\ transactionsMap'[k][Len(l) + 1] = cur
              /\ \A i \in 1 .. Len(l) : transactionsMap'[k][i] = l[i]
  <2>1. list = l /\ Fresh(k) /\ k \notin raced /\ Readers(k) = {}
      BY <1>0, <1>1, <1>10 DEF PgsqlInv, Current, HandlerReads
  <2>2. transactionsMap'[k] = Append(l, cur)
      BY <2>1, <1>5
  <2> HIDE DEF l
  <2> QED BY <2>1, <2>2, <1>2, <1>4
<1>11. Current(k)'
  <2> SUFFICES ASSUME k \notin raced' PROVE Current(k)'
      BY DEF Current
  <2>1. \A t \in Queries : t[1] = k => expire'[t].at \notin {"loop", "load", "store", "delete"}
      BY <1>1, <1>10 DEF Readers
  <2>2. pc' \in {"idle", "query"}
      BY <1>1
  <2> QED BY <2>1, <2>2 DEF Current, HandlerReads
<1>12. Fresh(k)'
  <2> SUFFICES ASSUME k \notin raced' PROVE Fresh(k)'
      BY DEF Fresh
  <2>1. /\ \A i \in 1 .. Len(l) : l[i] \notin published /\ l[i][2] <= Filed(k) /\ l[i][2] \in Nat
        /\ \A i, j \in 1 .. Len(l) : l[i] = l[j] => i = j
        /\ \A q \in published : q[1] = k => q[2] <= Filed(k)
    <3>1. \A i \in 1 .. Len(l) : l[i][2] \in Nat
        BY <1>2, OwnIsPair
    <3> QED BY <3>1, <1>10 DEF Fresh
  <2>2. cur \notin published /\ \A i \in 1 .. Len(l) : l[i] # cur
      BY <2>1, <1>4, <1>9
  <2>3. pc' # "publish"
      BY <1>1
  <2>4. \A q \in published : q[2] \in Nat
      BY QueryIsPair DEF PgsqlInv, PgsqlTypes
  <2> HIDE DEF l
  <2>5. \A i \in 1 .. Len(l) + 1 : i \in 1 .. Len(l) \/ i = Len(l) + 1
      BY <1>2
  <2>6. /\ \A i \in 1 .. Len(l) + 1 :
              transactionsMap'[k][i] \notin published' /\ transactionsMap'[k][i][2] <= Filed(k)'
        /\ \A i, j \in 1 .. Len(l) + 1 : transactionsMap'[k][i] = transactionsMap'[k][j] => i = j
        /\ \A q \in published' : q[1] = k => q[2] <= Filed(k)'
    <3>1. \A i \in 1 .. Len(l) + 1 :
              transactionsMap'[k][i] \notin published' /\ transactionsMap'[k][i][2] <= Filed(k)'
        BY <2>1, <2>2, <2>5, <1>1, <1>9, <1>10
    <3>2. \A i, j \in 1 .. Len(l) + 1 : transactionsMap'[k][i] = transactionsMap'[k][j] => i = j
        BY <2>1, <2>2, <2>5, <1>10
    <3>3. \A q \in published' : q[1] = k => q[2] <= Filed(k)'
        BY <2>1, <2>4, <1>1, <1>9
    <3> QED BY <3>1, <3>2, <3>3
  <2> QED BY <2>3, <2>6, <1>10 DEF Fresh
<1>13. InStep(k)'
  <2> SUFFICES ASSUME k \notin shifted \cup raced' PROVE InStep(k)'
      BY <1>1 DEF InStep
  <2>1. /\ Len(l) + todo = Len(due[k])
        /\ \A i \in 1 .. Len(l) : l[i][2] = due[k][i - 0]
        /\ \A i \in 1 .. todo : due[k][Len(l) + i] = msg[2] - todo + i
    <3>1. InStep(k) /\ k \notin raced
        BY <1>10 DEF PgsqlInv
    <3>2. \A i \in 1 .. Len(l) : ~(i <= 0)
        BY <1>2
    <3> QED BY <3>1, <3>2, <1>2, <1>3, <1>9 DEF InStep
  <2> HIDE DEF l
  <2>2. Len(transactionsMap'[k]) + Todo(k)' = Held(k)' + Len(due'[k])
      BY <2>1, <1>1, <1>2, <1>3, <1>9, <1>10
  <2>3. ASSUME NEW i \in 1 .. Len(l) + 1
        PROVE  transactionsMap'[k][i][2] = IF i <= Held(k)' THEN msg'[2] ELSE due'[k][i - Held(k)']
    <3>1. ~(i <= Held(k)') /\ i - Held(k)' = i /\ due' = due
        BY <1>1, <1>2, <1>9
    <3>2. CASE i \in 1 .. Len(l)
      <4>1. i - 0 = i
          OBVIOUS
      <4> QED BY <3>1, <3>2, <4>1, <2>1, <1>10
    <3>3. CASE i = Len(l) + 1
      <4>1. due[k][Len(l) + 1] = msg[2] - todo + 1 /\ 1 \in 1 .. todo
          BY <2>1, <1>2, <1>3
      <4> QED BY <3>1, <3>3, <4>1, <1>4, <1>10
    <3> QED BY <3>2, <3>3, <1>2
  <2>4. ASSUME NEW i \in 1 .. Todo(k)'
        PROVE  due'[k][Len(transactionsMap'[k]) + i] = msg'[2] - Todo(k)' + i
    <3>1. i + 1 \in 1 .. todo /\ todo # 1 /\ i \in Nat
        BY <1>2, <1>3, <1>9
    <3>2. msg' = msg /\ due' = due
        BY <3>1, <1>1
    <3>3. due[k][Len(l) + (i + 1)] = msg[2] - todo + (i + 1)
        BY <3>1, <2>1
    <3>4. Len(transactionsMap'[k]) + i = Len(l) + (i + 1)
      <4>1. Len(transactionsMap'[k]) = Len(l) + 1 /\ Len(l) \in Nat
          BY <1>2, <1>10
      <4> QED BY <4>1, <3>1
    <3>5. msg[2] - Todo(k)' + i = msg[2] - todo + (i + 1)
        BY <3>1, <1>2, <1>3, <1>9
    <3> QED BY <3>2, <3>3, <3>4, <3>5
  <2> QED BY <2>2, <2>3, <2>4, <1>10 DEF InStep
<1>14. crashed' => raced' # {}
    BY <1>1 DEF PgsqlInv
<1> QED BY <1>6, <1>7, <1>8, <1>11, <1>12, <1>13, <1>14 DEF PgsqlInv

\* A response takes the first query of the list.
LEMMA FirstTakenKeeps ==
    ASSUME PgsqlInv, ResponseStore
    PROVE  PgsqlInv'
<1> USE PgsqlAssumption
<1>0. PICK k \in Keys : k = msg[1] /\ pc = "store"
    BY InHandler DEF ResponseStore
<1> DEFINE l == transactionsMap[k]
<1>1. /\ transactionsMap' = [transactionsMap EXCEPT ![k] = Tail(list)]
      /\ cur' = Head(list) /\ pc' = "publish"
      /\ raced \subseteq raced' /\ (k \notin raced' => k \notin raced /\ Readers(k) = {})
      /\ UNCHANGED <<expire, msg, todo, list, sent, due, crashed, published, shifted>>
    BY <1>0 DEF ResponseStore, netVars, pastVars
<1>2. /\ msg \in Keys \X (0 .. MaxQueries) /\ msg[2] \in 0 .. MaxQueries
      /\ l \in Seq(Own(k)) /\ l \in Seq(Queries) /\ Len(l) \in Nat
      /\ sent[k] \in 0 .. MaxQueries
      /\ due[k] \in Seq(0 .. MaxQueries) /\ Len(due[k]) \in Nat
    BY <1>0, InHandler
<1>3. list \in Seq(Own(k)) /\ list # <<>>
    BY <1>0 DEF PgsqlInv, Handler
<1>4. /\ Head(list) \in Own(k) /\ Tail(list) \in Seq(Own(k)) /\ Tail(list) \in Seq(Queries)
      /\ Len(list) \in Nat \ {0} /\ Len(Tail(list)) = Len(list) - 1
      /\ \A i \in 1 .. Len(list) - 1 : Tail(list)[i] = list[i + 1]
      /\ Head(list) = list[1]
  <2>1. /\ Head(list) \in Own(k) /\ Tail(list) \in Seq(Own(k))
        /\ Len(Tail(list)) = Len(list) - 1
        /\ \A i \in 1 .. Len(Tail(list)) : Tail(list)[i] = list[i + 1]
      BY <1>3, HeadTailProperties
  <2>2. Len(list) \in Nat \ {0}
      BY <1>3, EmptySeq
  <2> QED BY <2>1, <2>2, OwnLists, <1>3
<1>5. /\ transactionsMap' \in [Keys -> Seq(Queries)] /\ transactionsMap'[k] = Tail(list)
      /\ \A j \in Keys \ {k} : transactionsMap'[j] = transactionsMap[j]
    BY <1>1, <1>4 DEF PgsqlInv, PgsqlTypes
<1>6. PgsqlTypes'
  <2>1. \A j \in Keys : transactionsMap'[j] \in Seq(Own(j))
      BY <1>4, <1>5 DEF PgsqlInv, PgsqlTypes
  <2> QED BY <2>1, <1>1, <1>5 DEF PgsqlInv, PgsqlTypes
<1>7. /\ Filed(k)' = Filed(k) /\ Filed(k) = sent[k]
      /\ Held(k) = 1 /\ Held(k)' = 0 /\ Todo(k) = 0 /\ Todo(k)' = 0
    BY <1>0, <1>1 DEF Filed, Todo, Held, Filing, Answering
<1>8. ASSUME k \notin raced'
      PROVE  list = l /\ Fresh(k) /\ k \notin raced /\ Readers(k) = {}
    BY <1>0, <1>1, <1>8 DEF PgsqlInv, Current, HandlerReads
<1>9. ASSUME k \notin shifted \cup raced'
      PROVE  /\ Len(list) = 1 + Len(due[k])
             /\ list[1][2] = msg[2]
             /\ \A i \in 1 .. Len(list) - 1 : list[i + 1][2] = due[k][i]
  <2>1. InStep(k) /\ list = l
      BY <1>8, <1>9 DEF PgsqlInv
  <2>2. /\ Len(list) + 0 = 1 + Len(due[k])
        /\ \A i \in 1 .. Len(list) : list[i][2] = IF i <= 1 THEN msg[2] ELSE due[k][i - 1]
      BY <2>1, <1>7, <1>8, <1>9 DEF InStep
  <2>3. \A i \in 1 .. Len(list) - 1 : i + 1 \in 1 .. Len(list) /\ ~(i + 1 <= 1) /\ (i + 1) - 1 = i
      BY <1>4
  <2>4. ASSUME NEW i \in 1 .. Len(list) - 1 PROVE list[i + 1][2] = due[k][i]
    <3>1. list[i + 1][2] = due[k][(i + 1) - 1]
        BY <2>2, <2>3
    <3> QED BY <3>1, <2>3
  <2>5. 1 \in 1 .. Len(list) /\ Len(list) = 1 + Len(due[k])
    <3>1. Len(list) \in Nat \ {0} /\ Len(due[k]) \in Nat
        BY <1>2, <1>4
    <3> QED BY <3>1, <2>2
  <2> QED BY <2>2, <2>4, <2>5
<1>10. cur' = msg \/ k \in shifted \cup raced'
  <2> SUFFICES ASSUME k \notin shifted \cup raced' PROVE cur' = msg
      OBVIOUS
  <2>1. cur' = <<k, cur'[2]>> /\ cur'[2] = msg[2]
      BY <1>1, <1>4, <1>9, OwnIsPair
  <2> QED BY <2>1, <1>0, <1>2, MsgIsPair
<1>11. Handler'
    BY <1>0, <1>1, <1>2, <1>4, <1>10 DEF Handler, Filing
<1>12. ASSUME NEW j \in Keys, j # k PROVE Current(j)' /\ Fresh(j)' /\ InStep(j)'
    BY <1>0, <1>1, <1>5, <1>12, OtherStream
<1>13. Current(k)'
  <2> SUFFICES ASSUME k \notin raced' PROVE Current(k)'
      BY DEF Current
  <2>1. \A t \in Queries : t[1] = k => expire'[t].at \notin {"loop", "load", "store", "delete"}
      BY <1>1, <1>8 DEF Readers
  <2> QED BY <2>1, <1>1 DEF Current, HandlerReads
<1>14. Fresh(k)'
  <2> SUFFICES ASSUME k \notin raced' PROVE Fresh(k)'
      BY DEF Fresh
  <2>1. /\ \A i \in 1 .. Len(list) : list[i] \notin published /\ list[i][2] <= Filed(k)
        /\ \A i, j \in 1 .. Len(list) : list[i] = list[j] => i = j
        /\ \A q \in published : q[1] = k => q[2] <= Filed(k)
      BY <1>8 DEF Fresh
  <2>2. \A i \in 1 .. Len(list) - 1 : i + 1 \in 1 .. Len(list) /\ i + 1 # 1
      BY <1>4
  <2>3. 1 \in 1 .. Len(list)
      BY <1>4
  <2>4. \A i, j \in 1 .. Len(list) - 1 : i + 1 = j + 1 => i = j
      BY <1>4
  <2>5. /\ \A i \in 1 .. Len(list) - 1 :
              Tail(list)[i] \notin published /\ Tail(list)[i][2] <= Filed(k)
        /\ \A i, j \in 1 .. Len(list) - 1 : Tail(list)[i] = Tail(list)[j] => i = j
        /\ \A i \in 1 .. Len(list) - 1 : Tail(list)[i] # list[1]
    <3>1. ASSUME NEW i \in 1 .. Len(list) - 1, NEW j \in 1 .. Len(list) - 1,
                 Tail(list)[i] = Tail(list)[j]
          PROVE  i = j
      <4>1. list[i + 1] = list[j + 1]
          BY <3>1, <1>4
      <4> QED BY <4>1, <2>1, <2>2, <2>4
    <3> QED BY <3>1, <2>1, <2>2, <2>3, <1>4
  <2> QED BY <2>1, <2>3, <2>5, <1>1, <1>4, <1>5, <1>7 DEF Fresh
<1>15. InStep(k)'
  <2> SUFFICES ASSUME k \notin shifted \cup raced' PROVE InStep(k)'
      BY <1>1 DEF InStep
  <2>1. Len(transactionsMap'[k]) + Todo(k)' = Held(k)' + Len(due'[k])
    <3>1. Len(transactionsMap'[k]) = Len(list) - 1 /\ Len(list) = 1 + Len(due[k]) /\ due' = due
        BY <1>1, <1>4, <1>5, <1>9
    <3> QED BY <3>1, <1>2, <1>7
  <2>2. ASSUME NEW i \in 1 .. Len(list) - 1
        PROVE  transactionsMap'[k][i][2] = IF i <= 0 THEN msg'[2] ELSE due'[k][i - 0]
    <3>1. ~(i <= 0) /\ i - 0 = i
        BY <1>4
    <3>2. transactionsMap'[k][i] = list[i + 1] /\ due' = due
        BY <1>1, <1>4, <1>5
    <3>3. list[i + 1][2] = due[k][i]
        BY <1>9
    <3> QED BY <3>1, <3>2, <3>3
  <2>3. Len(transactionsMap'[k]) = Len(list) - 1
      BY <1>4, <1>5
  <2>4. Held(k)' = 0 /\ Todo(k)' = 0 /\ 1 .. 0 = {}
      BY <1>7
  <2> QED BY <2>1, <2>2, <2>3, <2>4 DEF InStep
<1>16. crashed' => raced' # {}
    BY <1>1 DEF PgsqlInv
<1> QED BY <1>6, <1>11, <1>12, <1>13, <1>14, <1>15, <1>16 DEF PgsqlInv

\* The query that was taken out of the list is published.
LEMMA PublishKeeps ==
    ASSUME PgsqlInv, publishTransaction
    PROVE  PgsqlInv'
<1>0. PICK k \in Keys : k = msg[1] /\ pc = "publish"
    BY InHandler DEF publishTransaction
<1>1. /\ published' = published \cup {cur} /\ pc' = "stop"
      /\ UNCHANGED <<transactionsMap, expire, msg, cur, todo, list, sent, due, crashed, shifted,
                     raced>>
    BY DEF publishTransaction, netVars, pastVars
<1>2. cur \in Own(k) /\ cur[1] = k /\ cur \in Queries
    BY <1>0, OwnIsPair DEF PgsqlInv, Handler
<1>3. PgsqlTypes'
    BY <1>1, <1>2 DEF PgsqlInv, PgsqlTypes
<1>4. Handler'
    BY <1>0, <1>1, InHandler DEF Handler, Filing
<1>5. ASSUME NEW j \in Keys, j # k PROVE Current(j)' /\ Fresh(j)' /\ InStep(j)'
    BY <1>0, <1>1, <1>2, <1>5, OtherStream
<1>6. Current(k)'
    BY <1>1, SameReaders DEF HandlerReads
<1>7. Filed(k)' = Filed(k) /\ Todo(k)' = Todo(k) /\ Held(k)' = Held(k)
    BY <1>0, <1>1 DEF Filed, Todo, Held, Filing, Answering
<1>8. Fresh(k)'
  <2>1. Fresh(k)
      BY DEF PgsqlInv
  <2> QED BY <2>1, <1>0, <1>1, <1>7 DEF Fresh
<1>9. InStep(k)'
  <2>1. InStep(k)
      BY DEF PgsqlInv
  <2> QED BY <2>1, <1>1, <1>7 DEF InStep
<1> QED BY <1>1, <1>3, <1>4, <1>5, <1>6, <1>8, <1>9 DEF PgsqlInv

\* The steps of the handlers.
LEMMA HandlerKeeps ==
    ASSUME PgsqlInv, HandlerStep
    PROVE  PgsqlInv'
<1>1. CASE RequestTimer
  <2>1. /\ pc = "query" /\ pc' = "load" /\ cur' = <<msg[1], msg[2] - todo + 1>>
        /\ UNCHANGED <<transactionsMap, expire, msg, todo, sent, due, crashed, published, shifted,
                       raced>>
      BY <1>1 DEF RequestTimer, netVars, pastVars
  <2> QED BY <2>1, HandlerMoves DEF Filing, Answering
<1>2. CASE RequestLoad
  <2>1. /\ pc = "load" /\ pc' = "append" /\ cur' = cur /\ list' = transactionsMap[msg[1]]
        /\ UNCHANGED <<transactionsMap, expire, msg, todo, sent, due, crashed, published, shifted,
                       raced>>
      BY <1>2 DEF RequestLoad, netVars, pastVars
  <2>2. cur = <<msg[1], msg[2] - todo + 1>>
      BY <2>1 DEF PgsqlInv, Handler
  <2> QED BY <2>1, <2>2, HandlerMoves DEF Filing, Answering
<1>3. CASE ResponseCheck \/ ResponseLoad
  <2>1. /\ pc \in {"response", "first"}
        /\ UNCHANGED <<transactionsMap, expire, todo, sent, due, crashed, published, shifted, raced>>
      BY <1>3 DEF ResponseCheck, ResponseLoad, netVars, pastVars
  <2>2. CASE transactionsMap[msg[1]] = <<>>
    <3>1. pc' = "idle"
        BY <1>3, <2>2 DEF ResponseCheck, ResponseLoad, Return
    <3> QED BY <2>1, <2>2, <3>1, HandlerReturns DEF Filing, Answering
  <2>3. CASE transactionsMap[msg[1]] # <<>>
    <3>1. /\ pc' \in {"first", "store"} /\ msg' = msg
          /\ pc' = "store" => list' = transactionsMap[msg[1]]
        BY <1>3, <2>3 DEF ResponseCheck, ResponseLoad
    <3> QED BY <2>1, <2>3, <3>1, HandlerMoves DEF Filing, Answering
  <2> QED BY <2>2, <2>3
<1>4. CASE ResponseStop
  <2>1. /\ pc = "stop" /\ pc' = "idle"
        /\ UNCHANGED <<transactionsMap, expire, todo, sent, due, crashed, published, shifted, raced>>
      BY <1>4 DEF ResponseStop, Return, netVars, pastVars
  <2> QED BY <2>1, HandlerReturns DEF Filing, Answering
<1> QED BY <1>1, <1>2, <1>3, <1>4, RequestAppendKeeps, FirstTakenKeeps, PublishKeeps
        DEF HandlerStep

-------------------------------------------------------------------------------
(* expireTransaction.                                                      *)

LEMMA ExpirerFields ==
    ASSUME PgsqlInv, NEW t \in Queries
    PROVE  /\ expire[t] \in Expirer /\ expire[t].i \in Nat
           /\ expire[t].list \in Seq(Own(t[1])) /\ Len(expire[t].list) \in Nat
           /\ t[1] \in Keys
           /\ transactionsMap[t[1]] \in Seq(Own(t[1])) /\ transactionsMap[t[1]] \in Seq(Queries)
           /\ Len(transactionsMap[t[1]]) \in Nat
<1>1. t[1] \in Keys
    BY QueryIsPair
<1>2. expire[t] \in Expirer /\ expire[t].list \in Seq(Own(t[1])) /\ expire[t].i \in Nat
    BY DEF PgsqlInv, PgsqlTypes, Expirer
<1>3. transactionsMap[t[1]] \in Seq(Own(t[1])) /\ transactionsMap[t[1]] \in Seq(Queries)
    BY <1>1 DEF PgsqlInv, PgsqlTypes
<1> QED BY <1>1, <1>2, <1>3

\* Steps of expireTransaction(t) that write no list.
LEMMA ExpireReads ==
    ASSUME PgsqlInv, NEW t \in Queries, NEW x \in Expirer,
           expire' = [expire EXCEPT ![t] = x],
           UNCHANGED <<transactionsMap, pc, msg, cur, todo, list, sent, due, published, shifted>>,
           raced \subseteq raced',
           crashed' \in BOOLEAN, crashed => crashed', crashed' => raced' # {},
           x.list \in Seq(Own(t[1])),
           x.at = "load" => x.i # 0,
           x.at = "store" => crashed' \/ x.i \in 1 .. Len(x.list),
           t[1] \notin raced =>
              /\ x.at \in {"loop", "store"} => x.list = transactionsMap[t[1]]
              /\ x.at = "load" => x.i \in 1 .. Len(transactionsMap[t[1]])
              /\ x.at = "delete" => transactionsMap[t[1]] = <<>>
    PROVE  PgsqlInv'
<1>1. /\ expire' \in [Queries -> Expirer] /\ expire'[t] = x
      /\ \A u \in Queries \ {t} : expire'[u] = expire[u]
    BY DEF PgsqlInv, PgsqlTypes
<1>2. PgsqlTypes'
  <2>1. ASSUME NEW u \in Queries
        PROVE  /\ expire'[u].list \in Seq(Own(u[1]))
               /\ expire'[u].at = "load" => expire'[u].i # 0
               /\ expire'[u].at = "store" => crashed' \/ expire'[u].i \in 1 .. Len(expire'[u].list)
    <3>1. CASE u = t
        BY <3>1, <1>1
    <3>2. CASE u # t
        BY <3>2, <1>1 DEF PgsqlInv, PgsqlTypes
    <3> QED BY <3>1, <3>2
  <2> QED BY <2>1, <1>1 DEF PgsqlInv, PgsqlTypes
<1>3. Handler'
    BY DEF PgsqlInv, Handler
<1>4. ASSUME NEW k \in Keys PROVE Fresh(k)' /\ InStep(k)'
    BY SameStream
<1>5. ASSUME NEW k \in Keys PROVE Current(k)'
  <2> SUFFICES ASSUME k \notin raced' PROVE Current(k)'
      BY DEF Current
  <2>1. Current(k) /\ k \notin raced
      BY DEF PgsqlInv
  <2>2. HandlerReads(k)' => list' = transactionsMap'[k]
      BY <2>1 DEF Current, HandlerReads
  <2>3. ASSUME NEW u \in Queries, u[1] = k
        PROVE  /\ expire'[u].at \in {"loop", "store"} => expire'[u].list = transactionsMap[k]
               /\ expire'[u].at = "load" => expire'[u].i \in 1 .. Len(transactionsMap[k])
               /\ expire'[u].at = "delete" => transactionsMap[k] = <<>>
    <3>1. CASE u = t
        BY <3>1, <2>1, <2>3, <1>1
    <3>2. CASE u # t
        BY <3>2, <2>1, <2>3, <1>1 DEF Current
    <3> QED BY <3>1, <3>2
  <2> QED BY <2>2, <2>3 DEF Current
<1> QED BY <1>2, <1>3, <1>4, <1>5 DEF PgsqlInv

\* The lists that expireTransaction writes: a list that no other goroutine has read.
LEMMA ExpireWrites ==
    ASSUME PgsqlInv, NEW t \in Queries, NEW x \in Expirer, NEW m,
           m \in Seq(Own(t[1])),
           transactionsMap' = [transactionsMap EXCEPT ![t[1]] = m],
           expire' = [expire EXCEPT ![t] = x], x.at \in {"no", "clean"}, x.list = <<>>,
           UNCHANGED <<pc, msg, cur, todo, list, sent, due, crashed, published>>,
           shifted \subseteq shifted',
           ExpireRaces(t),
           t[1] \in raced' \/ m = transactionsMap[t[1]] \/
              /\ t[1] \in shifted'
              /\ \A i \in 1 .. Len(m) : \E j \in 1 .. Len(transactionsMap[t[1]]) :
                    m[i] = transactionsMap[t[1]][j]
              /\ \A i, j \in 1 .. Len(m) : m[i] = m[j] => i = j
    PROVE  PgsqlInv'
<1>0. PICK k \in Keys : k = t[1]
    BY QueryIsPair
<1> DEFINE l == transactionsMap[k]
<1>1. /\ raced \subseteq raced'
      /\ k \notin raced' => k \notin raced /\ Readers(k) = {t} /\ ~HandlerReads(k)
    BY <1>0 DEF ExpireRaces
<1>2. /\ expire' \in [Queries -> Expirer] /\ expire'[t] = x
      /\ \A u \in Queries \ {t} : expire'[u] = expire[u]
    BY DEF PgsqlInv, PgsqlTypes
<1>3. /\ transactionsMap' \in [Keys -> Seq(Queries)] /\ transactionsMap'[k] = m
      /\ \A j \in Keys \ {k} : transactionsMap'[j] = transactionsMap[j]
      /\ \A j \in Keys : transactionsMap'[j] \in Seq(Own(j))
  <2>1. m \in Seq(Queries)
      BY <1>0, OwnLists
  <2> QED BY <2>1, <1>0 DEF PgsqlInv, PgsqlTypes
<1>4. PgsqlTypes'
  <2>1. ASSUME NEW u \in Queries
        PROVE  /\ expire'[u].list \in Seq(Own(u[1]))
               /\ expire'[u].at = "load" => expire'[u].i # 0
               /\ expire'[u].at = "store" => crashed' \/ expire'[u].i \in 1 .. Len(expire'[u].list)
    <3>1. CASE u = t
        BY <3>1, <1>2, EmptySeq
    <3>2. CASE u # t
        BY <3>2, <1>2 DEF PgsqlInv, PgsqlTypes
    <3> QED BY <3>1, <3>2
  <2> QED BY <2>1, <1>2, <1>3 DEF PgsqlInv, PgsqlTypes
<1>5. Handler'
    BY <1>1 DEF PgsqlInv, Handler
<1>6. ASSUME NEW j \in Keys, j # k PROVE Current(j)' /\ Fresh(j)' /\ InStep(j)'
  <2>1. \A u \in Queries : u[1] = j => expire'[u] = expire[u]
      BY <1>0, <1>2, <1>6
  <2> QED BY <2>1, <1>1, <1>3, <1>6, SameStream, SameReaders DEF HandlerReads
<1>7. Current(k)'
  <2> SUFFICES ASSUME k \notin raced' PROVE Current(k)'
      BY DEF Current
  <2>1. Readers(k) = {t} /\ ~HandlerReads(k)'
      BY <1>1 DEF HandlerReads
  <2>2. ASSUME NEW u \in Queries, u[1] = k
        PROVE  expire'[u].at \notin {"loop", "load", "store", "delete"}
    <3>1. CASE u = t
        BY <3>1, <1>2
    <3>2. CASE u # t
        BY <3>2, <2>1, <2>2, <1>2 DEF Readers
    <3> QED BY <3>1, <3>2
  <2> QED BY <2>1, <2>2 DEF Current
<1>8. Fresh(k)' /\ InStep(k)'
  <2>1. CASE k \in raced'
      BY <2>1 DEF Fresh, InStep
  <2>2. CASE m = l
      BY <2>2, <1>1, <1>3, SameStream
  <2>3. CASE /\ k \notin raced' /\ k \in shifted'
             /\ \A i \in 1 .. Len(m) : \E j \in 1 .. Len(l) : m[i] = l[j]
             /\ \A i, j \in 1 .. Len(m) : m[i] = m[j] => i = j
    <3>1. Filed(k)' = Filed(k)
        BY DEF Filed
    <3>2. Fresh(k) /\ k \notin raced
        BY <2>3, <1>1 DEF PgsqlInv
    <3>3. \A i \in 1 .. Len(m) : /\ m[i] \notin published /\ m[i][2] <= Filed(k)
                                 /\ pc = "publish" /\ msg[1] = k => m[i] # cur
        BY <2>3, <3>2 DEF Fresh
    <3>4. Fresh(k)'
        BY <2>3, <3>1, <3>2, <3>3, <1>3 DEF Fresh
    <3> QED BY <2>3, <3>4 DEF InStep
  <2> QED BY <2>1, <2>2, <2>3, <1>0
<1> QED BY <1>1, <1>4, <1>5, <1>6, <1>7, <1>8 DEF PgsqlInv

LEMMA TimerKeeps ==
    ASSUME PgsqlInv, NEW t \in Queries, TimerFires(t) \/ ExpireRange(t) \/ ExpireClean(t)
    PROVE  PgsqlInv'
<1> DEFINE x == expire'[t]
<1>1. /\ UNCHANGED <<transactionsMap, pc, msg, cur, todo, list, sent, due, published, shifted,
                     crashed>>
      /\ raced \subseteq raced'
    BY DEF TimerFires, ExpireRange, ExpireClean, handlerVars, netVars, pastVars
<1>2. crashed' \in BOOLEAN /\ (crashed' => raced' # {})
    BY <1>1 DEF PgsqlInv, PgsqlTypes
<1>3. CASE TimerFires(t)
  <2> DEFINE y == [expire[t] EXCEPT !.at = "find"]
  <2>1. y \in Expirer /\ y.at = "find" /\ y.list = expire[t].list
      BY ExpirerFields DEF Expirer
  <2>2. expire' = [expire EXCEPT ![t] = y]
      BY <1>3 DEF TimerFires, PgsqlInv, PgsqlTypes, Expirer
  <2> HIDE DEF y
  <2> QED BY <2>1, <2>2, <1>1, <1>2, ExpirerFields, ExpireReads
<1>4. CASE ExpireRange(t)
  <2> DEFINE y == [at |-> "loop", i |-> 0, list |-> transactionsMap[t[1]]]
  <2>1. y \in Expirer /\ y.at = "loop" /\ y.list = transactionsMap[t[1]]
      BY ExpirerFields DEF Expirer
  <2>2. expire' = [expire EXCEPT ![t] = y]
      BY <1>4 DEF ExpireRange
  <2> HIDE DEF y
  <2> QED BY <2>1, <2>2, <1>1, <1>2, ExpirerFields, ExpireReads
<1>5. CASE ExpireClean(t)
  <2> DEFINE y == IF transactionsMap[t[1]] = <<>> THEN [at |-> "delete", i |-> 0, list |-> <<>>]
                                                  ELSE Idle
  <2>1. /\ y \in Expirer /\ y.at \in {"no", "delete"} /\ y.list = <<>>
        /\ y.at = "delete" => transactionsMap[t[1]] = <<>>
      BY EmptySeq DEF Expirer, Idle
  <2>2. expire' = [expire EXCEPT ![t] = y]
      BY <1>5 DEF ExpireClean
  <2>3. y.list \in Seq(Own(t[1]))
      BY <2>1, EmptySeq
  <2> HIDE DEF y
  <2> QED BY <2>1, <2>2, <2>3, <1>1, <1>2, ExpireReads
<1> QED BY <1>3, <1>4, <1>5

LEMMA FindKeeps ==
    ASSUME PgsqlInv, NEW t \in Queries, ExpireFind(t)
    PROVE  PgsqlInv'
<1> DEFINE s == expire[t].list
           n == CHOOSE i \in 1 .. Len(s) : s[i] = t
           y == IF Contains(s, t) THEN [at |-> "load", i |-> n, list |-> <<>>]
                                  ELSE [at |-> "clean", i |-> 0, list |-> <<>>]
<1>1. /\ expire[t].at = "loop" /\ expire' = [expire EXCEPT ![t] = y]
      /\ UNCHANGED <<transactionsMap, pc, msg, cur, todo, list, sent, due, published, shifted,
                     crashed, raced>>
    BY DEF ExpireFind, handlerVars, netVars, pastVars
<1>2. crashed' \in BOOLEAN /\ (crashed' => raced' # {})
    BY <1>1 DEF PgsqlInv, PgsqlTypes
<1>3. Contains(s, t) => n \in 1 .. Len(s)
  <2>1. Contains(s, t) => \E i \in 1 .. Len(s) : s[i] = t
      BY DEF Contains
  <2> QED BY <2>1
<1>4. Len(s) \in Nat
    BY ExpirerFields
<1> HIDE DEF n
<1>5. /\ y \in Expirer /\ y.at \in {"load", "clean"} /\ y.list = <<>>
      /\ y.at = "load" => y.i \in 1 .. Len(s) /\ y.i # 0
    BY <1>3, <1>4, EmptySeq DEF Expirer
<1>6. t[1] \notin raced => s = transactionsMap[t[1]]
    BY <1>1, ExpirerFields DEF PgsqlInv, Current
<1>7. y.list \in Seq(Own(t[1]))
    BY <1>5, EmptySeq
<1> HIDE DEF y, s
<1> QED BY <1>1, <1>2, <1>5, <1>6, <1>7, ExpireReads

\* removeTransaction reads the list again; without a race the index is still good.
LEMMA LoadKeeps ==
    ASSUME PgsqlInv, NEW t \in Queries, ExpireLoad(t), ~crashed
    PROVE  PgsqlInv'
<1> DEFINE l == transactionsMap[t[1]]
           y == [expire[t] EXCEPT !.at = "store", !.list = l]
<1>1. /\ expire[t].at = "load" /\ expire' = [expire EXCEPT ![t] = y]
      /\ crashed' = (expire[t].i > Len(l))
      /\ UNCHANGED <<transactionsMap, pc, msg, cur, todo, list, sent, due, published, shifted,
                     raced>>
    BY DEF ExpireLoad, handlerVars, netVars, pastVars, PgsqlInv, PgsqlTypes, Expirer
<1>2. /\ l \in Seq(Own(t[1])) /\ l \in Seq(Queries) /\ Len(l) \in Nat /\ expire[t].i \in Nat
      /\ expire[t].i # 0
    BY <1>1, ExpirerFields DEF PgsqlInv, PgsqlTypes
<1>3. y \in Expirer /\ y.at = "store" /\ y.list = l /\ y.i = expire[t].i
    BY <1>2, ExpirerFields DEF Expirer
<1>4. t[1] \notin raced => expire[t].i \in 1 .. Len(l)
    BY <1>1, ExpirerFields DEF PgsqlInv, Current
<1>5. crashed' \in BOOLEAN /\ (crashed' => raced' # {})
  <2>1. crashed' \in BOOLEAN
      BY <1>1
  <2>2. ASSUME crashed' PROVE t[1] \in raced
    <3>1. expire[t].i > Len(l)
        BY <2>2, <1>1
    <3> QED BY <3>1, <1>2, <1>4
  <2> QED BY <2>1, <2>2, <1>1
<1>6. crashed' \/ y.i \in 1 .. Len(y.list)
  <2>1. CASE expire[t].i > Len(l)
      BY <2>1, <1>1
  <2>2. CASE ~(expire[t].i > Len(l))
      BY <2>2, <1>2, <1>3
  <2> QED BY <2>1, <2>2
<1> HIDE DEF y, l
<1>7. l = transactionsMap[t[1]]
    BY DEF l
<1> QED BY <1>1, <1>2, <1>3, <1>5, <1>6, <1>7, ExpireReads

\* expireTransaction takes its transaction out of the middle of the list.
LEMMA StoreKeeps ==
    ASSUME PgsqlInv, NEW t \in Queries, ExpireStore(t), ~crashed
    PROVE  PgsqlInv'
<1> DEFINE s == expire[t].list
           n == expire[t].i
           m == RemoveAt(s, n)
           y == [at |-> "clean", i |-> 0, list |-> <<>>]
<1>1. /\ expire[t].at = "store" /\ expire' = [expire EXCEPT ![t] = y]
      /\ transactionsMap' = [transactionsMap EXCEPT ![t[1]] = m]
      /\ shifted' = shifted \cup {t[1]} /\ ExpireRaces(t)
      /\ UNCHANGED <<pc, msg, cur, todo, list, sent, due, crashed, published>>
    BY DEF ExpireStore, handlerVars, netVars
<1>2. s \in Seq(Own(t[1])) /\ Len(s) \in Nat /\ n \in 1 .. Len(s)
    BY <1>1, ExpirerFields DEF PgsqlInv, PgsqlTypes
<1>3. /\ m \in Seq(Own(t[1])) /\ Len(m) = Len(s) - 1
      /\ \A j \in 1 .. Len(s) - 1 : m[j] = IF j < n THEN s[j] ELSE s[j + 1]
  <2> HIDE DEF n, s
  <2> QED BY <1>2, RemoveAtElements
<1>4. y \in Expirer /\ y.at = "clean" /\ y.list = <<>>
    BY EmptySeq DEF Expirer
<1>5. t[1] \notin raced => s = transactionsMap[t[1]] /\ Fresh(t[1])
    BY <1>1, ExpirerFields DEF PgsqlInv, Current
<1> DEFINE old(j) == IF j < n THEN j ELSE j + 1
<1> HIDE DEF m, n, s, y
<1>6. /\ \A j \in 1 .. Len(m) : old(j) \in 1 .. Len(s) /\ m[j] = s[old(j)]
      /\ \A i, j \in 1 .. Len(m) : old(i) = old(j) => i = j
    BY <1>2, <1>3
<1> HIDE DEF old
<1>7. t[1] \in raced' \/
         (/\ t[1] \in shifted'
          /\ \A i \in 1 .. Len(m) : \E j \in 1 .. Len(transactionsMap[t[1]]) :
                m[i] = transactionsMap[t[1]][j]
          /\ \A i, j \in 1 .. Len(m) : m[i] = m[j] => i = j)
  <2> SUFFICES ASSUME t[1] \notin raced'
               PROVE  /\ t[1] \in shifted'
                      /\ \A i \in 1 .. Len(m) : \E j \in 1 .. Len(transactionsMap[t[1]]) :
                            m[i] = transactionsMap[t[1]][j]
                      /\ \A i, j \in 1 .. Len(m) : m[i] = m[j] => i = j
      OBVIOUS
  <2>1. s = transactionsMap[t[1]] /\ Fresh(t[1]) /\ t[1] \notin raced
      BY <1>1, <1>5 DEF ExpireRaces
  <2>2. \A i, j \in 1 .. Len(s) : s[i] = s[j] => i = j
      BY <2>1 DEF Fresh
  <2> QED BY <2>1, <2>2, <1>1, <1>6
<1> QED BY <1>1, <1>3, <1>4, <1>7, ExpireWrites

LEMMA DeleteKeeps ==
    ASSUME PgsqlInv, NEW t \in Queries, ExpireDelete(t)
    PROVE  PgsqlInv'
<1>1. /\ expire[t].at = "delete" /\ expire' = [expire EXCEPT ![t] = Idle]
      /\ transactionsMap' = [transactionsMap EXCEPT ![t[1]] = <<>>]
      /\ shifted' = shifted /\ ExpireRaces(t)
      /\ UNCHANGED <<pc, msg, cur, todo, list, sent, due, crashed, published>>
    BY DEF ExpireDelete, handlerVars, netVars, pastVars
<1>2. Idle \in Expirer /\ Idle.at = "no" /\ Idle.list = <<>>
    BY EmptySeq DEF Idle, Expirer
<1>3. t[1] \in raced' \/ <<>> = transactionsMap[t[1]]
  <2>1. t[1] \in raced => t[1] \in raced'
      BY <1>1 DEF ExpireRaces
  <2> QED BY <2>1, <1>1, ExpirerFields DEF PgsqlInv, Current
<1>4. <<>> \in Seq(Own(t[1]))
    BY EmptySeq
<1> QED BY <1>1, <1>2, <1>3, <1>4, ExpireWrites

-------------------------------------------------------------------------------
(* The theorems.                                                           *)

LEMMA PgsqlStep == PgsqlInv /\ [Next]_vars => PgsqlInv'
<1> SUFFICES ASSUME PgsqlInv, [Next]_vars PROVE PgsqlInv'
    OBVIOUS
<1>1. CASE Next
    BY <1>1, NetworkKeeps, HandlerKeeps, TimerKeeps, FindKeeps, LoadKeeps, StoreKeeps, DeleteKeeps
       DEF Next, ExpireStep
<1>2. CASE UNCHANGED vars
  <2>1. UNCHANGED <<transactionsMap, expire, pc, msg, cur, todo, list, sent, due, crashed,
                    published, shifted, raced>>
      BY <1>2 DEF vars, handlerVars, netVars, pastVars
  <2>2. PgsqlTypes' /\ Handler'
      BY <2>1 DEF PgsqlInv, PgsqlTypes, Handler
  <2>3. \A j \in Keys : Current(j)' /\ Fresh(j)' /\ InStep(j)'
      BY <2>1, SameStream, SameReaders DEF HandlerReads
  <2> QED BY <2>1, <2>2, <2>3 DEF PgsqlInv
<1> QED BY <1>1, <1>2

LEMMA PgsqlInvariant == Spec => []PgsqlInv
BY PgsqlInitInv, PgsqlStep, PTL DEF Spec

\* A query is published once, though receivedPgsqlResponse and expireTransaction take
\* transactions out of the same list and nothing excludes them; a query that is published
\* again was brought back by a write that did not see another one.
THEOREM PgsqlQueriesOnce == Spec => []PgsqlPublishedOnce
<1>1. PgsqlInv => PgsqlPublishedOnce
  <2> SUFFICES ASSUME PgsqlInv, pc = "publish", cur[1] \notin raced PROVE cur \notin published
      BY DEF PgsqlPublishedOnce
  <2>1. msg[1] \in Keys /\ cur[1] = msg[1]
      BY InHandler, OwnIsPair DEF PgsqlInv, Handler
  <2> QED BY <2>1 DEF PgsqlInv, Fresh
<1> QED BY <1>1, PgsqlInvariant, PTL

\* A response is published with the query it answers unless, since the stream was last
\* quiet, a query timed out, a message was lost or made up, or a request and its responses
\* did not have the same number; or after a race.
THEOREM PgsqlResponsesMatch == Spec => []PgsqlPairsMatch
<1>1. PgsqlInv => PgsqlPairsMatch
  <2> SUFFICES ASSUME PgsqlInv, pc = "publish"
               PROVE  cur[1] = msg[1] /\ (cur = msg \/ msg[1] \in shifted \cup raced)
      BY DEF PgsqlPairsMatch
  <2>1. msg[1] \in Keys /\ cur \in Own(msg[1]) /\ (cur = msg \/ msg[1] \in shifted \cup raced)
      BY InHandler DEF PgsqlInv, Handler
  <2> QED BY <2>1, OwnIsPair
<1> QED BY <1>1, PgsqlInvariant, PTL

\* The out-of-range index of removeTransaction in a timer goroutine, which nothing
\* recovers from, needs a write that the goroutine did not see: the lack of a lock is its
\* only cause.
THEOREM PgsqlPanicNeedsRace == Spec => [](crashed => raced # {})
<1>1. PgsqlInv => (crashed => raced # {})
    BY DEF PgsqlInv
<1> QED BY <1>1, PgsqlInvariant, PTL
===============================================================================
