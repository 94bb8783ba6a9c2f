--------------------------------- MODULE Outputs ---------------------------------
(***************************************************************************)
(* From the filter runner to the outputs: the publisher goroutine of       *)
(* libbeat (publisher/publish.go) takes events from its Queue, drops those *)
(* without the mandatory fields and those another shipper reports, and     *)
(* hands each of the others to all outputs in turn.  The process may be    *)
(* killed and started again; what is on disk and on the servers survives.  *)
(***************************************************************************)
EXTENDS FilterRunner, FileRotator, RedisOutput, ElasticsearchOutput

CONSTANTS
    OutputLists,    \* the lists of outputs that are configured
    Outgoing,       \* events whose dst is another shipper, with ignore_outgoing
    MaxCrashes      \* bound: times the process is killed

\* EnabledOutputPlugins has each output once.
ASSUME OutputsAssumption ==
    /\ MaxCrashes \in Nat
    /\ \A outs \in OutputLists :
          outs \in Seq({"file", "redis", "elasticsearch"}) /\ IsInjective(outs)

VARIABLES
    Output,         \* publisher.Output
    publishing,     \* the event in publishEvent and the output that is next
    crashes,
    handled,        \* History: events that publishEvent has finished
    lost            \* History: events in memory when the process was killed

publisherVars == <<Output, publishing, crashes, handled, lost>>
vars == <<filterVars, fileVars, redisVars, esVars, publisherVars>>

NoEvent == [id |-> 0, next |-> 0]

\* publishFromQueue and the first part of publishEvent.
publishEventBegin ==
    LET e == Head(results) IN
    /\ publishing = NoEvent /\ results # <<>>
    /\ results' = Tail(results)
    /\ IF e.nil \/ e.id \in Outgoing
       THEN handled' = handled \cup {e.id} /\ UNCHANGED publishing
       ELSE publishing' = [id |-> e.id, next |-> 1] /\ UNCHANGED handled
    /\ UNCHANGED <<FiltersQueue, event, submitted, forwarded, fileVars, redisVars, esVars,
                   Output, crashes, lost>>

\* publisher.Output[i].PublishEvent: the file output is written to at once, the
\* others have a queue, which may be full.
publishEventOutput ==
    /\ publishing.next \in 1 .. Len(Output) /\ rpc = "idle"
    /\ LET out == Output[publishing.next] IN
       /\ IF out = "file" THEN WriteLine(publishing.id) ELSE UNCHANGED fileVars
       /\ IF out = "redis" THEN redisPublishEvent(publishing.id) ELSE UNCHANGED redisVars
       /\ IF out = "elasticsearch" THEN esPublishEvent(publishing.id) ELSE UNCHANGED esVars
    /\ publishing' = [publishing EXCEPT !.next = @ + 1]
    /\ UNCHANGED <<filterVars, Output, crashes, handled, lost>>

\* An output that failed does not keep the event from the others.
publishEventEnd ==
    /\ publishing.next = Len(Output) + 1 /\ rpc = "idle"
    /\ handled' = handled \cup {publishing.id}
    /\ publishing' = NoEvent
    /\ UNCHANGED <<filterVars, fileVars, redisVars, esVars, Output, crashes, lost>>

PublisherStep == publishEventBegin \/ publishEventOutput \/ publishEventEnd

\* The process is killed at any point, or by a panic, and started again; the redis
\* output does not come back before it is connected.
CrashRestart ==
    /\ crashes < MaxCrashes
    /\ crashes' = crashes + 1
    /\ lost' = (1 .. submitted) \ handled
    /\ FiltersQueue' = <<>> /\ event' = None /\ results' = <<>>
    /\ publishing' = NoEvent
    /\ RotatorRestart
    /\ IF "redis" \in Range(Output) THEN RedisRestart ELSE UNCHANGED redisVars
    /\ EsRestart
    /\ UNCHANGED <<submitted, forwarded, Output, handled>>

Init ==
    /\ FilterInit /\ RotatorInit /\ RedisInit /\ EsInit
    /\ Output \in OutputLists
    /\ publishing = NoEvent /\ crashes = 0
    /\ handled = {} /\ lost = {}
    \* An output that is not configured has no files and no options.
    /\ "file" \notin Range(Output) => files = <<>>
    /\ "redis" \notin Range(Output) => ~flush_immediatelly
    /\ "elasticsearch" \notin Range(Output) =>
          FlushInterval = 0 /\ \A size \in BulkSizes : BulkMaxSize <= size

FilterStep == RunStep /\ UNCHANGED <<fileVars, redisVars, esVars, publisherVars>>
FileStep == RotatorStep /\ UNCHANGED <<filterVars, redisVars, esVars, publisherVars>>
RedisSendStep == SendMessagesStep /\ UNCHANGED <<filterVars, fileVars, esVars, publisherVars>>
RedisReconnectStep == ReconnectStep /\ UNCHANGED <<filterVars, fileVars, esVars, publisherVars>>
EsStep == EsSendStep /\ UNCHANGED <<filterVars, fileVars, redisVars, publisherVars>>
EsAnswerStep == EsAnswer /\ UNCHANGED <<filterVars, fileVars, redisVars, publisherVars>>

Running ==
    \/ Submit /\ UNCHANGED <<fileVars, redisVars, esVars, publisherVars>>
    \/ FilterStep \/ PublisherStep \/ FileStep
    \/ RedisSendStep \/ RedisReconnectStep \/ EsStep \/ EsAnswerStep

RedisServer ==
    /\ "redis" \in Range(Output)
    /\ ServerDown \/ ServerBack
    /\ UNCHANGED <<filterVars, fileVars, esVars, publisherVars>>

Next == (~panicked /\ Running) \/ RedisServer \/ CrashRestart

\* Each goroutine runs when it can.  Nothing is assumed of the answers of
\* elasticsearch.
Fairness ==
    /\ WF_vars(~panicked /\ FilterStep) /\ WF_vars(~panicked /\ PublisherStep)
    /\ WF_vars(~panicked /\ FileStep)
    /\ WF_vars(~panicked /\ RedisSendStep) /\ WF_vars(~panicked /\ RedisReconnectStep)
    /\ WF_vars(~panicked /\ EsStep)

Spec == Init /\ [][Next]_vars /\ Fairness

-------------------------------------------------------------------------------
\* The runner forwards the events in the order of submission, each once, and loses
\* none but those in memory when the process was killed; an event whose filter
\* failed is among those it forwards (see FailedEventsAreDropped).
EventsInOrder ==
    LET ids == forwarded \o (IF event = None THEN <<>> ELSE <<event.id>>) \o FiltersQueue IN
    /\ \A i, j \in 1 .. Len(ids) : i < j => ids[i] < ids[j]
    /\ Range(ids) \cup lost = 1 .. submitted

\* "Error executing filter ... Dropping event." and "drop event in case of errors"
\* (filters_runner.go): an event whose filter failed does not get to the publisher.
FailedEventsAreDropped == \A i \in 1 .. Len(results) : ~results[i].failed

\* Two items never fit into the channel of SendMessagesGoroutine.
BulkTooSmall == FlushInterval > 0 /\ BulkMaxSize < 2

\* Every event that is submitted gets through the filters and is offered to all
\* outputs in the end: no channel of the pipeline stays full for ever while redis
\* is away, while bulk requests have no answer, and after system calls that failed.
\* It takes a bulk_size of at least 2, and, without a flush interval, an answer to
\* every request of the elasticsearch output.
AllHandled ==
    []<>(indexing = <<>>) =>
        \A n \in 1 .. MaxEvents :
            submitted >= n ~> n \in handled \cup lost \/ panicked \/ BulkTooSmall

\* The lines of the files that Rotate keeps, from the oldest to the newest.
KeptLog ==
    FlattenSeq([i \in 1 .. KeepFiles |->
        IF KeepFiles - i \in DOMAIN files THEN files[KeepFiles - i] ELSE <<>>])
Log == INSTANCE BoundedLog WITH log <- KeptLog

\* The rotated files are a log that only grows at its end and loses only its
\* oldest lines, through crashes in the middle of a rotation, failed system calls
\* and files left by a configuration that kept more of them.
FilesAreBoundedLog == Log!Spec
===============================================================================
