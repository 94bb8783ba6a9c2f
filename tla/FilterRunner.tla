------------------------------- MODULE FilterRunner ------------------------------
(***************************************************************************)
(* The filter runner (filters_runner.go): a goroutine that takes events    *)
(* from FiltersQueue, passes each through all filters in order, and sends  *)
(* it to the results channel, which is the Queue of the publisher.  At     *)
(* this commit main.go creates the runner but the plugins write to the     *)
(* results channel directly; the events of this module are those that a    *)
(* user of the runner (so far its test) submits.                           *)
(***************************************************************************)
EXTENDS Integers, Sequences, SequencesExt

CONSTANTS
    NumFilters,     \* length of runner.order
    QueueCap,       \* capacity of FiltersQueue (1000)
    ResultsCap,     \* capacity of the results channel (1000)
    MaxEvents       \* bound: events submitted

ASSUME FilterAssumption ==
    /\ NumFilters \in Nat /\ MaxEvents \in Nat
    /\ QueueCap \in Nat \ {0} /\ ResultsCap \in Nat \ {0}

VARIABLES
    FiltersQueue,
    event,          \* the event in hand and the filters it went through; or None
    results,        \* the results channel
    submitted,
    forwarded       \* History: everything sent to the results channel

filterVars == <<FiltersQueue, event, results, submitted, forwarded>>

None == [id |-> 0, applied |-> 0, failed |-> FALSE, nil |-> FALSE]

Submit ==
    /\ submitted < MaxEvents
    /\ Len(FiltersQueue) < QueueCap
    /\ submitted' = submitted + 1
    /\ FiltersQueue' = Append(FiltersQueue, submitted + 1)
    /\ UNCHANGED <<event, results, forwarded>>

RunTake ==
    /\ event = None /\ FiltersQueue # <<>>
    /\ event' = [None EXCEPT !.id = Head(FiltersQueue)]
    /\ FiltersQueue' = Tail(FiltersQueue)
    /\ UNCHANGED <<results, submitted, forwarded>>

\* Is the loop over the filters over?
Filtered == event.applied = NumFilters \/ event.failed

\* The next filter is executed; after an error, with which it may return no event,
\* the loop is left.
RunFilter ==
    /\ event # None /\ ~Filtered
    /\ \E err \in BOOLEAN, nil \in BOOLEAN :
        /\ nil => err
        /\ event' = [event EXCEPT !.applied = @ + 1, !.failed = err, !.nil = nil]
    /\ UNCHANGED <<FiltersQueue, results, submitted, forwarded>>

\* Mutant: an event is thrown away when the channel is full.
RunSendOrDrop ==
    /\ event # None /\ Filtered
    /\ IF Len(results) < ResultsCap
       THEN results' = Append(results, event) /\ forwarded' = Append(forwarded, event.id)
       ELSE UNCHANGED <<results, forwarded>>
    /\ event' = None
    /\ UNCHANGED <<FiltersQueue, submitted>>

\* Mutant: Run returns after an error.
RunSendReturns ==
    /\ event # None /\ Filtered /\ ~event.failed
    /\ Len(results) < ResultsCap
    /\ results' = Append(results, event)
    /\ forwarded' = Append(forwarded, event.id)
    /\ event' = None
    /\ UNCHANGED <<FiltersQueue, submitted>>

\* runner.results <- event, after an error too
RunSend ==
    /\ event # None /\ Filtered
    /\ Len(results) < ResultsCap
    /\ results' = Append(results, event)
    /\ forwarded' = Append(forwarded, event.id)
    /\ event' = None
    /\ UNCHANGED <<FiltersQueue, submitted>>

FilterInit ==
    /\ FiltersQueue = <<>> /\ event = None /\ results = <<>>
    /\ submitted = 0 /\ forwarded = <<>>

RunStep == RunTake \/ RunFilter \/ RunSend
===============================================================================
