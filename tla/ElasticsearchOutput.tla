--------------------------- MODULE ElasticsearchOutput ---------------------------
(***************************************************************************)
(* The elasticsearch output of libbeat (outputs/elasticsearch/output.go,   *)
(* bulkapi.go).  SendMessagesGoroutine collects the items of a bulk        *)
(* request, two for each event, in a channel of limited size; the channel  *)
(* is closed and shipped by a goroutine of its own when it is full and at  *)
(* every tick.  Without a flush interval events are indexed one by one.    *)
(***************************************************************************)
EXTENDS Integers, Sequences, FiniteSets

CONSTANTS
    EsCap,          \* capacity of sendingQueue (1000)
    BulkSizes,      \* the values of bulk_size, in items
    FlushIntervals  \* the flush intervals that are configured

ASSUME EsAssumption ==
    EsCap \in Nat \ {0} /\ BulkSizes \subseteq Nat /\ FlushIntervals \subseteq Nat

VARIABLES
    FlushInterval, BulkMaxSize,     \* from the configuration
    esQueue,        \* sendingQueue
    bulkChannel,
    pushing,        \* the items SendMessagesGoroutine still has to push
    indexing,       \* the event of the request it is waiting for, or none
    bulks,          \* the bulk requests under way
    indexed         \* History: the events that arrived, in order of arrival

esConfig == <<FlushInterval, BulkMaxSize>>
esVars == <<esConfig, esQueue, bulkChannel, pushing, indexing, bulks, indexed>>

\* The two items of an event, and the events of a request, whose items the server
\* reads two by two.
Items(e) == <<[header |-> TRUE, id |-> e], [header |-> FALSE, id |-> e]>>
Events(items) == [i \in 1 .. Len(items) \div 2 |-> items[2 * i].id]

esPublishEvent(e) ==
    /\ Len(esQueue) < EsCap
    /\ esQueue' = Append(esQueue, e)
    /\ UNCHANGED <<esConfig, bulkChannel, pushing, indexing, bulks, indexed>>

\* InsertBulkMessage and the new channel; Bulk sends no empty request.
InsertBulkMessage(channel) ==
    bulks' = IF channel = <<>> THEN bulks ELSE bulks \cup {channel}

\* A message for a bulk request.
EsTake ==
    /\ FlushInterval > 0 /\ pushing = <<>> /\ esQueue # <<>>
    /\ esQueue' = Tail(esQueue)
    /\ pushing' = Items(Head(esQueue))
    /\ IF Len(bulkChannel) + 2 > BulkMaxSize
       THEN InsertBulkMessage(bulkChannel) /\ bulkChannel' = <<>>
       ELSE UNCHANGED <<bulks, bulkChannel>>
    /\ UNCHANGED <<esConfig, indexing, indexed>>

\* bulkChannel <- item, which waits while the channel is full.
EsPush ==
    /\ pushing # <<>> /\ Len(bulkChannel) < BulkMaxSize
    /\ bulkChannel' = Append(bulkChannel, Head(pushing))
    /\ pushing' = Tail(pushing)
    /\ UNCHANGED <<esConfig, esQueue, indexing, bulks, indexed>>

\* Without a flush interval: Conn.Index, for whose answer the goroutine waits as long
\* as it takes: the http client has no timeout.
EsIndex ==
    /\ FlushInterval = 0 /\ indexing = <<>> /\ esQueue # <<>>
    /\ esQueue' = Tail(esQueue)
    /\ indexing' = <<Head(esQueue)>>
    /\ UNCHANGED <<esConfig, bulkChannel, pushing, bulks, indexed>>

\* The request ends; it may have failed.
EsIndexed ==
    /\ indexing # <<>>
    /\ indexing' = <<>>
    /\ indexed' \in {indexed, indexed \o indexing}
    /\ UNCHANGED <<esConfig, esQueue, bulkChannel, pushing, bulks>>

\* Mutant: the channel is shipped and used on.
EsTickReuse ==
    /\ FlushInterval > 0 /\ pushing = <<>> /\ bulkChannel # <<>>
    /\ InsertBulkMessage(bulkChannel)
    /\ UNCHANGED <<esConfig, esQueue, bulkChannel, pushing, indexing, indexed>>

\* The tick of the flush timer.
EsTick ==
    /\ FlushInterval > 0 /\ pushing = <<>> /\ bulkChannel # <<>>
    /\ InsertBulkMessage(bulkChannel) /\ bulkChannel' = <<>>
    /\ UNCHANGED <<esConfig, esQueue, pushing, indexing, indexed>>

\* A bulk request ends; the requests under way overtake each other, and the
\* events of one that does not arrive are gone: the error is only logged.
Bulk ==
    /\ \E b \in bulks :
        /\ bulks' = bulks \ {b}
        /\ indexed' \in {indexed, indexed \o Events(b)}
    /\ UNCHANGED <<esConfig, esQueue, bulkChannel, pushing, indexing>>

EsInit ==
    /\ FlushInterval \in FlushIntervals /\ BulkMaxSize \in BulkSizes
    /\ esQueue = <<>> /\ bulkChannel = <<>> /\ pushing = <<>> /\ bulks = {}
    /\ indexing = <<>> /\ indexed = <<>>

EsRestart ==
    /\ esQueue' = <<>> /\ bulkChannel' = <<>> /\ pushing' = <<>> /\ bulks' = {}
    /\ indexing' = <<>>
    /\ UNCHANGED <<esConfig, indexed>>

EsSendStep == EsTake \/ EsPush \/ EsIndex \/ EsTick

\* A request ends, of SendMessagesGoroutine or of a goroutine of its own.
EsAnswer == EsIndexed \/ Bulk

-------------------------------------------------------------------------------
\* Each event reaches the index at most once, whatever order the bulk requests
\* end in, every request is made of whole events, each document after its own
\* header, and the channel never holds more than bulk_size items.
BulksAreWhole ==
    /\ \A i, j \in 1 .. Len(indexed) : i # j => indexed[i] # indexed[j]
    /\ \A b \in bulks : \A i \in 1 .. Len(b) :
        (b[i].header <=> i % 2 = 1) /\ (b[i].header => i < Len(b) /\ b[i + 1].id = b[i].id)
    /\ Len(bulkChannel) <= BulkMaxSize
===============================================================================
