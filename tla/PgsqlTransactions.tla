---------------------------- MODULE PgsqlTransactions ----------------------------
(***************************************************************************)
(* The correlator of the pgsql plugin (protos/pgsql/pgsql.go): a list of   *)
(* open transactions per TCP stream, one for each query of a request; a    *)
(* response takes the first one, a timer takes its own out of the middle.  *)
(*                                                                         *)
(* The list is read, changed and written back by the handlers (sniffer     *)
(* goroutine) and by expireTransaction (goroutines of the timers), without *)
(* a lock: each read and each write of transactionsMap is a step.  A write *)
(* that another goroutine does not see, because it has read the list and   *)
(* goes on with what it read, makes a race.  Lists are values here; in     *)
(* Go removeTransaction shifts the elements of an array that an older      *)
(* slice may share, so a list that saw a race may hold other elements than *)
(* it does here, and the properties claim nothing of it.                   *)
(***************************************************************************)
EXTENDS Integers, Sequences, FiniteSetsExt, SequencesExt

CONSTANTS
    Keys,           \* TCP streams
    MaxQueries,     \* bound: queries on a stream
    MaxBatch        \* queries in a request, and responses to one

ASSUME PgsqlAssumption == MaxQueries \in Nat \ {0} /\ MaxBatch \in Nat \ {0}

\* The n-th query of a stream, and its transaction.
Queries == Keys \X (1 .. MaxQueries)
NoQuery == <<>>

VARIABLES
    transactionsMap,    \* open transactions of each stream
    timer,              \* transactions whose timer is running
    expire,             \* what expireTransaction(t) does next
    pc, msg, cur,       \* the handler the sniffer goroutine is in
    todo,               \* queries of the request that are not filed yet
    list,               \* trans_list of the handler
    sent,               \* number of queries on each stream
    due,                \* the queries of each stream to be answered, in order
    closed,             \* streams dropped after a gap
    crashed,            \* a timer goroutine panicked, which ends the process
    \* History.
    published,          \* queries that were published
    torn,               \* streams that were read from the middle of a message
    shifted,            \* streams with a response too many or too few since they
                        \* were quiet
    raced               \* streams whose list saw a race

handlerVars == <<pc, msg, cur, todo, list>>
netVars == <<sent, due, closed>>
pastVars == <<torn, shifted>>
vars == <<transactionsMap, timer, expire, handlerVars, netVars, crashed, published, pastVars,
          raced>>

\* expireTransaction is not running, or it is at a line with its locals.
Idle == [at |-> "no", i |-> 0, list |-> <<>>]

\* The timer goroutines that have read the list of stream k and rely on it.
Readers(k) ==
    {t \in Queries : t[1] = k /\ expire[t].at \in {"loop", "load", "store", "delete"}}
\* So does the handler.
HandlerReads(k) == pc \in {"append", "store"} /\ msg[1] = k

\* No query of stream k is open and none is to be answered.
Quiet(k) == transactionsMap[k] = <<>> /\ due[k] = <<>>

-------------------------------------------------------------------------------
(* Parse and GapInStream hand messages to handlePgsql.                     *)

\* A stream whose list saw a race gets no more messages: what it holds is not known here.
MayHandle(k) == pc = "idle" /\ k \notin closed \cup raced

\* A request of which p pieces are filed and which gets r responses.
Request(k, p, r) ==
    /\ sent[k] + Max({p, r}) <= MaxQueries
    /\ sent' = [sent EXCEPT ![k] = @ + Max({p, r})]
    /\ due' = [due EXCEPT ![k] = @ \o [i \in 1 .. r |-> sent[k] + i]]
    /\ shifted' = (shifted \ {j \in {k} : Quiet(j)}) \cup {j \in {k} : p # r}

\* pgsqlQueryParser splits the query at each ';', also inside of a string, and leaves
\* out empty pieces; the server stops at the first error, and answers an empty query too.
HandleRequest(k, p, r) ==
    /\ MayHandle(k)
    /\ Request(k, p, r)
    /\ IF p = 0 THEN UNCHANGED <<pc, msg, todo>>
       ELSE pc' = "query" /\ msg' = <<k, sent[k] + p>> /\ todo' = p
    /\ UNCHANGED <<transactionsMap, timer, expire, cur, list, crashed, published, torn, raced>>

\* The next response of the server.
HandleResponse(k) ==
    /\ MayHandle(k) /\ due[k] # <<>>
    /\ due' = [due EXCEPT ![k] = Tail(@)]
    /\ msg' = <<k, Head(due[k])>>
    /\ pc' = "response"
    /\ UNCHANGED <<transactionsMap, timer, expire, cur, todo, list, sent, crashed, published,
                   pastVars, raced>>

\* What the parser makes of the rest of a message: a response that nobody sent (or a
\* request that nobody answers).
HandleRest(k) ==
    /\ MayHandle(k) /\ k \in torn
    /\ msg' = <<k, 0>>
    /\ pc' = "response"
    /\ shifted' = shifted \cup {k}
    /\ UNCHANGED <<transactionsMap, timer, expire, cur, todo, list, sent, due, crashed,
                   published, torn, raced>>

handlePgsql(k) ==
    \/ \E p, r \in 0 .. MaxBatch : HandleRequest(k, p, r)
    \/ HandleResponse(k)
    \/ HandleRest(k)

Parse(k) == handlePgsql(k) /\ UNCHANGED closed

\* The buffer gets too long or the parser panics: a request or a response is lost, and
\* the next segment may begin inside of a message.
ParseDrops(k) ==
    /\ MayHandle(k)
    /\ \/ \E r \in 1 .. MaxBatch : Request(k, 0, r)
       \/ /\ due[k] # <<>> /\ due' = [due EXCEPT ![k] = Tail(@)]
          /\ shifted' = shifted \cup {k}
          /\ UNCHANGED sent
    /\ torn' \in {torn, torn \cup {k}}
    /\ UNCHANGED <<transactionsMap, timer, expire, handlerVars, closed, crashed, published,
                   raced>>

\* GapInStream: an incomplete message with enough data is handled, others are
\* lost; the TCP layer then drops the stream.
GapInStream(k) ==
    /\ MayHandle(k)
    /\ closed' = closed \cup {k}
    /\ \/ handlePgsql(k)
       \/ UNCHANGED <<transactionsMap, timer, expire, handlerVars, sent, due, crashed,
                      published, pastVars, raced>>

-------------------------------------------------------------------------------
(* receivedPgsqlRequest: for each query start a timer, then append.        *)

\* The handler returns.
Return == pc' = "idle" /\ msg' = NoQuery /\ cur' = NoQuery /\ list' = <<>>

RequestTimer ==
    /\ pc = "query"
    /\ cur' = <<msg[1], msg[2] - todo + 1>>
    /\ timer' = timer \cup {cur'}
    /\ pc' = "load"
    /\ UNCHANGED <<transactionsMap, expire, msg, todo, list, netVars, crashed, published,
                   pastVars, raced>>

RequestLoad ==
    /\ pc = "load"
    /\ list' = transactionsMap[msg[1]]
    /\ pc' = "append"
    /\ UNCHANGED <<transactionsMap, timer, expire, msg, cur, todo, netVars, crashed,
                   published, pastVars, raced>>

\* Mutant: the newest query comes first.
RequestAppendFront ==
    /\ pc = "append"
    /\ transactionsMap' = [transactionsMap EXCEPT ![msg[1]] = <<cur>> \o list]
    /\ todo' = todo - 1
    /\ IF todo = 1 THEN Return ELSE pc' = "query" /\ UNCHANGED <<msg, cur, list>>
    /\ UNCHANGED <<timer, expire, netVars, crashed, published,
                   pastVars, raced>>

RequestAppend ==
    /\ pc = "append"
    /\ transactionsMap' = [transactionsMap EXCEPT ![msg[1]] = Append(list, cur)]
    /\ raced' = raced \cup {k \in {msg[1]} : Readers(k) # {}}
    /\ todo' = todo - 1
    /\ IF todo = 1 THEN Return ELSE pc' = "query" /\ UNCHANGED <<msg, cur, list>>
    /\ UNCHANGED <<timer, expire, netVars, crashed, published, pastVars>>

-------------------------------------------------------------------------------
(* receivedPgsqlResponse: "extract the first transaction from the array".  *)

ResponseCheck ==
    /\ pc = "response"
    /\ IF transactionsMap[msg[1]] = <<>> THEN Return
       ELSE pc' = "first" /\ UNCHANGED <<msg, cur, list>>
    /\ UNCHANGED <<transactionsMap, timer, expire, todo, netVars, crashed, published, pastVars,
                   raced>>

\* removeTransaction(tuple, 0) reads the list again; if it has become empty the
\* index is out of range, and Parse recovers from the panic, without the buffers.
ResponseLoad ==
    /\ pc = "first"
    /\ IF transactionsMap[msg[1]] = <<>>
       THEN Return /\ torn' = torn \cup {msg[1]}
       ELSE pc' = "store" /\ list' = transactionsMap[msg[1]] /\ UNCHANGED <<msg, cur, torn>>
    /\ UNCHANGED <<transactionsMap, timer, expire, todo, netVars, crashed, published, shifted,
                   raced>>

\* Mutant: the transaction stays in the list.
ResponseStoreKeeps ==
    /\ pc = "store"
    /\ cur' = Head(list)
    /\ pc' = "publish"
    /\ UNCHANGED <<transactionsMap, timer, expire, msg, todo, list, netVars, crashed,
                   published, pastVars, raced>>

ResponseStore ==
    /\ pc = "store"
    /\ cur' = Head(list)
    /\ transactionsMap' = [transactionsMap EXCEPT ![msg[1]] = Tail(list)]
    /\ raced' = raced \cup {k \in {msg[1]} : Readers(k) # {}}
    /\ pc' = "publish"
    /\ UNCHANGED <<timer, expire, msg, todo, list, netVars, crashed, published, pastVars>>

publishTransaction ==
    /\ pc = "publish"
    /\ published' = published \cup {cur}
    /\ pc' = "stop"
    /\ UNCHANGED <<transactionsMap, timer, expire, msg, cur, todo, list, netVars, crashed,
                   pastVars, raced>>

ResponseStop ==
    /\ pc = "stop"
    /\ timer' = timer \ {cur}
    /\ Return
    /\ UNCHANGED <<transactionsMap, expire, todo, netVars, crashed, published, pastVars, raced>>

-------------------------------------------------------------------------------
(* expireTransaction.                                                      *)

TimerFires(t) ==
    /\ t \in timer
    /\ timer' = timer \ {t}
    /\ expire' = [expire EXCEPT ![t].at = "find"]
    /\ UNCHANGED <<transactionsMap, handlerVars, netVars, crashed, published,
                   pastVars, raced>>

\* The loop takes the list of that moment.  The handler starts the timer before it files
\* the transaction: the timer may be too early.
ExpireRange(t) ==
    /\ expire[t].at = "find"
    /\ expire' = [expire EXCEPT ![t] = [at |-> "loop", i |-> 0, list |-> transactionsMap[t[1]]]]
    /\ raced' = raced \cup {k \in {t[1]} : pc \in {"load", "append"} /\ cur = t}
    /\ UNCHANGED <<transactionsMap, timer, handlerVars, netVars, crashed, published, pastVars>>

\* It finds the index of the transaction.
ExpireFind(t) ==
    /\ expire[t].at = "loop"
    /\ expire' = [expire EXCEPT ![t] =
           IF Contains(@.list, t)
           THEN [at |-> "load", i |-> CHOOSE i \in 1 .. Len(@.list) : @.list[i] = t,
                 list |-> <<>>]
           ELSE [at |-> "clean", i |-> 0, list |-> <<>>]]
    /\ UNCHANGED <<transactionsMap, timer, handlerVars, netVars, crashed, published,
                   pastVars, raced>>

\* removeTransaction(tuple, i) reads the list again; there is no Recover in
\* this goroutine.
ExpireLoad(t) ==
    /\ expire[t].at = "load"
    /\ expire' = [expire EXCEPT ![t].at = "store", ![t].list = transactionsMap[t[1]]]
    /\ crashed' = (expire[t].i > Len(transactionsMap[t[1]]))
    /\ UNCHANGED <<transactionsMap, timer, handlerVars, netVars, published, pastVars, raced>>

\* Mutant: off by one.
ExpireStoreNext(t) ==
    /\ expire[t].at = "store"
    /\ transactionsMap' = [transactionsMap EXCEPT ![t[1]] =
           IF expire[t].i < Len(expire[t].list) THEN RemoveAt(expire[t].list, expire[t].i + 1)
                                                ELSE expire[t].list]
    /\ shifted' = shifted \cup {t[1]}
    /\ expire' = [expire EXCEPT ![t] = [at |-> "clean", i |-> 0, list |-> <<>>]]
    /\ UNCHANGED <<timer, handlerVars, netVars, crashed, published, torn, raced>>

\* Writes of expireTransaction(t) that another goroutine does not see.
ExpireRaces(t) ==
    raced' = raced \cup {k \in {t[1]} : Readers(k) # {t} \/ HandlerReads(k)}

\* The transaction has timed out; its response may still come.
ExpireStore(t) ==
    /\ expire[t].at = "store"
    /\ transactionsMap' = [transactionsMap EXCEPT ![t[1]] =
                              RemoveAt(expire[t].list, expire[t].i)]
    /\ shifted' = shifted \cup {t[1]}
    /\ ExpireRaces(t)
    /\ expire' = [expire EXCEPT ![t] = [at |-> "clean", i |-> 0, list |-> <<>>]]
    /\ UNCHANGED <<timer, handlerVars, netVars, crashed, published, torn>>

\* An empty list is deleted, after a check.
ExpireClean(t) ==
    /\ expire[t].at = "clean"
    /\ expire' = [expire EXCEPT ![t] =
           IF transactionsMap[t[1]] = <<>> THEN [at |-> "delete", i |-> 0, list |-> <<>>]
                                           ELSE Idle]
    /\ UNCHANGED <<transactionsMap, timer, handlerVars, netVars, crashed, published,
                   pastVars, raced>>

ExpireDelete(t) ==
    /\ expire[t].at = "delete"
    /\ transactionsMap' = [transactionsMap EXCEPT ![t[1]] = <<>>]
    /\ ExpireRaces(t)
    /\ expire' = [expire EXCEPT ![t] = Idle]
    /\ UNCHANGED <<timer, handlerVars, netVars, crashed, published, pastVars>>

-------------------------------------------------------------------------------
Init ==
    /\ transactionsMap = [k \in Keys |-> <<>>]
    /\ timer = {}
    /\ expire = [t \in Queries |-> Idle]
    /\ pc = "idle" /\ msg = NoQuery /\ cur = NoQuery /\ todo = 0 /\ list = <<>>
    /\ sent = [k \in Keys |-> 0] /\ due = [k \in Keys |-> <<>>] /\ closed = {}
    /\ crashed = FALSE
    /\ published = {} /\ torn = {} /\ shifted = {} /\ raced = {}

HandlerStep ==
    \/ RequestTimer \/ RequestLoad \/ RequestAppend
    \/ ResponseCheck \/ ResponseLoad \/ ResponseStore
    \/ publishTransaction \/ ResponseStop

ExpireStep(t) ==
    \/ ExpireRange(t) \/ ExpireFind(t) \/ ExpireLoad(t) \/ ExpireStore(t)
    \/ ExpireClean(t) \/ ExpireDelete(t)

Next ==
    /\ ~crashed
    /\ \/ \E k \in Keys : Parse(k) \/ ParseDrops(k) \/ GapInStream(k)
       \/ HandlerStep
       \/ \E t \in Queries : TimerFires(t) \/ ExpireStep(t)

Spec == Init /\ [][Next]_vars

\* Runnable goroutines run, timers go off; the network need not send anything.
Fairness ==
    /\ WF_vars(~crashed /\ HandlerStep)
    /\ \A t \in Queries : WF_vars(~crashed /\ TimerFires(t))
    /\ \A t \in Queries : WF_vars(~crashed /\ ExpireStep(t))

FairSpec == Spec /\ Fairness

-------------------------------------------------------------------------------
(* Properties.                                                             *)

\* What is published is the first query of the list, and that is the one which the
\* response answers, also when queries are pipelined or come several in a request.
\* Another one only after a race, or if since the stream was last quiet a query timed
\* out, a message was lost or read from its middle, or a request did not get as many
\* responses as it has pieces: when the stream is quiet, it is in step again.
PgsqlPairsMatch ==
    pc = "publish" => /\ cur[1] = msg[1]
                      /\ cur = msg \/ msg[1] \in shifted \cup raced

\* No query is published twice, whatever timers take out of the list between the steps of
\* the handlers, except after a race: a write that another goroutine did not see.
PgsqlPublishedOnce ==
    pc = "publish" => cur \notin published \/ cur[1] \in raced

\* Once the traffic stops, no transaction stays open on a stream that saw no race, unless
\* a timer ended the process.
PgsqlAllEnd == <>[](crashed \/ \A k \in Keys \ raced : transactionsMap[k] = <<>>)

\* Claimed by FollowTcp, "This Recover should catch all exceptions in protocol
\* modules": no exception of the plugin ends the process.
PanicsAreRecovered == ~crashed
===============================================================================
