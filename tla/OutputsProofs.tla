------------------------------- MODULE OutputsProofs ------------------------------
(***************************************************************************)
(* Theorems about the way of the events from the filter runner to the      *)
(* outputs, for any capacities, filters, files, intervals and outputs, any *)
(* number of events, failed system calls, outages and restarts.            *)
(***************************************************************************)
EXTENDS Outputs, SequenceTheorems, WellFoundedInduction, TLAPS

Sorted(s) == \A i, j \in 1 .. Len(s) : i < j => s[i] < s[j]
Before(s, t) == \A m \in Range(s), n \in Range(t) : m < n

-------------------------------------------------------------------------------
(* The pipeline.                                                           *)

OutputNames == {"file", "redis", "elasticsearch"}
EventRecords == [id : Nat, applied : Nat, failed : BOOLEAN, nil : BOOLEAN]

PipelineTypes ==
    /\ FiltersQueue \in Seq(Nat) /\ forwarded \in Seq(Nat)
    /\ event \in EventRecords /\ results \in Seq(EventRecords)
    /\ submitted \in Nat
    /\ publishing \in [id : Nat, next : Nat]
    /\ Output \in Seq(OutputNames) /\ IsInjective(Output)

\* Event n has left the runner and the results channel: all that they hold is newer.
Coming(n) ==
    /\ n <= submitted
    /\ event # None => n < event.id
    /\ \A i \in 1 .. Len(FiltersQueue) : n < FiltersQueue[i]
    /\ \A i \in 1 .. Len(results) : n < results[i].id

\* The events are in their order at each stage and between the stages.
PipelineInv ==
    /\ PipelineTypes
    /\ Sorted(FiltersQueue)
    /\ \A i \in 1 .. Len(FiltersQueue) : FiltersQueue[i] \in 1 .. submitted
    /\ event # None => /\ event.id \in 1 .. submitted
                       /\ \A i \in 1 .. Len(FiltersQueue) : event.id < FiltersQueue[i]
    /\ \A i \in 1 .. Len(results) :
          /\ results[i].id \in 1 .. submitted
          /\ event # None => results[i].id < event.id
          /\ \A j \in 1 .. Len(FiltersQueue) : results[i].id < FiltersQueue[j]
    /\ \A i, j \in 1 .. Len(results) : i < j => results[i].id < results[j].id
    /\ publishing # NoEvent => publishing.id \in 1 .. submitted /\ Coming(publishing.id)

\* Output out has been given event n, and none that is newer.
Past(n, out) ==
    /\ Coming(n)
    /\ publishing # NoEvent =>
          \/ n < publishing.id
          \/ /\ n = publishing.id
             /\ \A i \in 1 .. Len(Output) : Output[i] = out => i < publishing.next

\* What the steps of the outputs leave alone.
pipeline == <<FiltersQueue, event, results, submitted, publishing, Output>>

LEMMA NoneFields ==
    /\ None \in EventRecords /\ None.id = 0 /\ None.applied = 0
    /\ NoEvent \in [id : Nat, next : Nat] /\ NoEvent.id = 0 /\ NoEvent.next = 0
BY DEF None, NoEvent, EventRecords

LEMMA TailElements ==
    ASSUME NEW S, NEW s \in Seq(S), s # <<>>
    PROVE  /\ Len(s) \in Nat \ {0} /\ Head(s) \in S /\ Head(s) = s[1] /\ 1 \in 1 .. Len(s)
           /\ Tail(s) \in Seq(S) /\ Len(Tail(s)) = Len(s) - 1
           /\ \A i \in 1 .. Len(Tail(s)) :
                 i + 1 \in 1 .. Len(s) /\ i + 1 > 1 /\ Tail(s)[i] = s[i + 1]
<1>1. /\ Len(s) \in Nat \ {0} /\ Head(s) \in S /\ Head(s) = s[1]
      /\ Tail(s) \in Seq(S) /\ Len(Tail(s)) = Len(s) - 1
      /\ \A i \in 1 .. Len(Tail(s)) : Tail(s)[i] = s[i + 1]
    BY HeadTailProperties, EmptySeq
<1> QED BY <1>1

LEMMA AppendElements ==
    ASSUME NEW S, NEW s \in Seq(S), NEW e \in S
    PROVE  /\ Append(s, e) \in Seq(S) /\ Len(s) \in Nat /\ Len(Append(s, e)) = Len(s) + 1
           /\ \A i \in 1 .. Len(s) : Append(s, e)[i] = s[i]
           /\ Append(s, e)[Len(s) + 1] = e
           /\ \A i : i \in 1 .. Len(s) + 1 <=> i \in 1 .. Len(s) \/ i = Len(s) + 1
OBVIOUS

LEMMA SortedAppend ==
    ASSUME NEW S, NEW s \in Seq(S), NEW e \in S, Sorted(s), \A i \in 1 .. Len(s) : s[i] < e
    PROVE  Sorted(Append(s, e))
<1> SUFFICES ASSUME NEW i \in 1 .. Len(s) + 1, NEW j \in 1 .. Len(s) + 1, i < j
             PROVE  Append(s, e)[i] < Append(s, e)[j]
    BY AppendElements DEF Sorted
<1>1. /\ \A k \in 1 .. Len(s) : Append(s, e)[k] = s[k]
      /\ Append(s, e)[Len(s) + 1] = e
      /\ \A k : k \in 1 .. Len(s) + 1 <=> k \in 1 .. Len(s) \/ k = Len(s) + 1
    BY AppendElements
<1>2. i \in 1 .. Len(s)
    OBVIOUS
<1> QED BY <1>1, <1>2 DEF Sorted

LEMMA PipelineInit == Init => PipelineInv
<1> SUFFICES ASSUME Init PROVE PipelineInv
    OBVIOUS
<1>1. /\ FiltersQueue = <<>> /\ event = None /\ results = <<>> /\ submitted = 0
      /\ forwarded = <<>> /\ Output \in OutputLists /\ publishing = NoEvent
    BY DEF Init, FilterInit
<1>2. PipelineTypes
    BY <1>1, NoneFields, OutputsAssumption DEF PipelineTypes, OutputNames
<1> QED BY <1>1, <1>2 DEF PipelineInv, Sorted

\* Submit: the newest event goes to the end of FiltersQueue.
LEMMA SubmitKeepsPipeline ==
    ASSUME PipelineInv, Submit, UNCHANGED publisherVars
    PROVE  /\ PipelineInv'
           /\ \A n \in Int, out \in OutputNames : Past(n, out) => Past(n, out)'
<1>1. /\ submitted' = submitted + 1 /\ FiltersQueue' = Append(FiltersQueue, submitted + 1)
      /\ event' = event /\ results' = results /\ forwarded' = forwarded
      /\ publishing' = publishing /\ Output' = Output
    BY DEF Submit, publisherVars
<1>2. FiltersQueue \in Seq(Nat) /\ submitted \in Nat /\ submitted + 1 \in Nat
    BY DEF PipelineInv, PipelineTypes
<1>3. /\ FiltersQueue' \in Seq(Nat) /\ Len(FiltersQueue) \in Nat
      /\ Len(FiltersQueue') = Len(FiltersQueue) + 1
      /\ \A i \in 1 .. Len(FiltersQueue) : FiltersQueue'[i] = FiltersQueue[i]
      /\ FiltersQueue'[Len(FiltersQueue) + 1] = submitted + 1
      /\ \A i : i \in 1 .. Len(FiltersQueue) + 1
                <=> i \in 1 .. Len(FiltersQueue) \/ i = Len(FiltersQueue) + 1
    BY <1>1, <1>2, AppendElements
<1>4. PipelineTypes'
    BY <1>1, <1>2, <1>3 DEF PipelineInv, PipelineTypes
<1>5. \A n \in Int : n <= submitted /\ (\A i \in 1 .. Len(FiltersQueue) : n < FiltersQueue[i]) =>
          \A i \in 1 .. Len(FiltersQueue') : n < FiltersQueue'[i]
  <2> SUFFICES ASSUME NEW n \in Int, n <= submitted,
                      \A i \in 1 .. Len(FiltersQueue) : n < FiltersQueue[i],
                      NEW i \in 1 .. Len(FiltersQueue) + 1
               PROVE  n < FiltersQueue'[i]
      BY <1>3
  <2>1. n < submitted + 1
      BY <1>2
  <2> QED BY <2>1, <1>3
<1>6. \A n \in Int : Coming(n) => Coming(n)'
  <2> SUFFICES ASSUME NEW n \in Int, Coming(n) PROVE Coming(n)'
      OBVIOUS
  <2>1. n <= submitted + 1
      BY <1>2 DEF Coming
  <2> QED BY <2>1, <1>1, <1>5 DEF Coming
<1>7. \A n \in 1 .. submitted : n \in 1 .. submitted + 1 /\ n \in Int /\ n <= submitted
    BY <1>2
<1>8. Sorted(FiltersQueue')
  <2> SUFFICES ASSUME NEW i \in 1 .. Len(FiltersQueue) + 1, NEW j \in 1 .. Len(FiltersQueue) + 1,
                      i < j
               PROVE  FiltersQueue'[i] < FiltersQueue'[j]
      BY <1>3 DEF Sorted
  <2>1. i \in 1 .. Len(FiltersQueue)
      BY <1>3
  <2>2. CASE j \in 1 .. Len(FiltersQueue)
      BY <2>1, <2>2, <1>3 DEF PipelineInv, Sorted
  <2>3. CASE j = Len(FiltersQueue) + 1
    <3>1. FiltersQueue[i] \in 1 .. submitted
        BY <2>1 DEF PipelineInv
    <3>2. FiltersQueue[i] < submitted + 1
        BY <3>1, <1>2
    <3> QED BY <2>1, <2>3, <3>2, <1>3
  <2> QED BY <2>2, <2>3, <1>3
<1>9. \A i \in 1 .. Len(FiltersQueue') : FiltersQueue'[i] \in 1 .. submitted'
  <2>1. \A i \in 1 .. Len(FiltersQueue) : FiltersQueue'[i] \in 1 .. submitted'
      BY <1>1, <1>3, <1>7 DEF PipelineInv
  <2>2. FiltersQueue'[Len(FiltersQueue) + 1] \in 1 .. submitted'
      BY <1>1, <1>2, <1>3
  <2> QED BY <2>1, <2>2, <1>3
<1>10. event' # None => /\ event'.id \in 1 .. submitted'
                        /\ \A i \in 1 .. Len(FiltersQueue') : event'.id < FiltersQueue'[i]
    BY <1>1, <1>5, <1>7 DEF PipelineInv
<1>11. \A i \in 1 .. Len(results') :
          /\ results'[i].id \in 1 .. submitted'
          /\ event' # None => results'[i].id < event'.id
          /\ \A j \in 1 .. Len(FiltersQueue') : results'[i].id < FiltersQueue'[j]
    BY <1>1, <1>5, <1>7 DEF PipelineInv
<1>12. publishing' # NoEvent => publishing'.id \in 1 .. submitted'
    BY <1>1, <1>7 DEF PipelineInv
<1>13. publishing' # NoEvent => Coming(publishing.id)'
  <2> SUFFICES ASSUME publishing # NoEvent PROVE Coming(publishing.id)'
      BY <1>1
  <2>1. PICK n \in Int : n = publishing.id /\ n = publishing'.id
      BY <1>1 DEF PipelineInv, PipelineTypes
  <2>2. Coming(n)'
      BY <2>1, <1>6 DEF PipelineInv
  <2> QED BY <2>1, <2>2 DEF Coming
<1>14. PipelineInv'
    BY <1>1, <1>4, <1>8, <1>9, <1>10, <1>11, <1>12, <1>13 DEF PipelineInv
<1>15. \A n \in Int, out \in OutputNames : Past(n, out) => Past(n, out)'
    BY <1>1, <1>6 DEF Past
<1> QED BY <1>14, <1>15
\* The runner takes an event from FiltersQueue.
LEMMA TakeKeepsPipeline ==
    ASSUME PipelineInv, RunTake, UNCHANGED publisherVars
    PROVE  /\ PipelineInv'
           /\ \A n \in Int, out \in OutputNames : Past(n, out) => Past(n, out)'
<1>1. /\ event = None /\ FiltersQueue # <<>>
      /\ event' = [None EXCEPT !.id = Head(FiltersQueue)] /\ FiltersQueue' = Tail(FiltersQueue)
      /\ results' = results /\ submitted' = submitted /\ forwarded' = forwarded
      /\ publishing' = publishing /\ Output' = Output
    BY DEF RunTake, publisherVars
<1>2. FiltersQueue \in Seq(Nat)
    BY DEF PipelineInv, PipelineTypes
<1>3. /\ Head(FiltersQueue) \in Nat /\ Head(FiltersQueue) = FiltersQueue[1]
      /\ 1 \in 1 .. Len(FiltersQueue) /\ FiltersQueue' \in Seq(Nat)
      /\ \A i \in 1 .. Len(FiltersQueue') :
            i + 1 \in 1 .. Len(FiltersQueue) /\ i + 1 > 1 /\ FiltersQueue'[i] = FiltersQueue[i + 1]
    BY <1>1, <1>2, TailElements
<1>4. event' \in EventRecords /\ event'.id = FiltersQueue[1]
    BY <1>1, <1>3 DEF EventRecords, None
<1>5. \A n : (\A i \in 1 .. Len(FiltersQueue) : n < FiltersQueue[i]) =>
          n < event'.id /\ \A i \in 1 .. Len(FiltersQueue') : n < FiltersQueue'[i]
    BY <1>3, <1>4
<1>6. \A n \in Int : Coming(n) => Coming(n)'
    BY <1>1, <1>5 DEF Coming
<1>7. PipelineTypes'
    BY <1>1, <1>3, <1>4 DEF PipelineInv, PipelineTypes
<1>8. Sorted(FiltersQueue')
  <2> SUFFICES ASSUME NEW i \in 1 .. Len(FiltersQueue'), NEW j \in 1 .. Len(FiltersQueue'), i < j
               PROVE  FiltersQueue'[i] < FiltersQueue'[j]
      BY DEF Sorted
  <2>1. i + 1 \in 1 .. Len(FiltersQueue) /\ j + 1 \in 1 .. Len(FiltersQueue) /\ i + 1 < j + 1
      BY <1>3
  <2>2. FiltersQueue[i + 1] < FiltersQueue[j + 1]
      BY <2>1 DEF PipelineInv, Sorted
  <2> QED BY <2>2, <1>3
<1>9. \A i \in 1 .. Len(FiltersQueue') : FiltersQueue'[i] \in 1 .. submitted'
    BY <1>1, <1>3 DEF PipelineInv
<1>10. /\ event'.id \in 1 .. submitted'
       /\ \A i \in 1 .. Len(FiltersQueue') : event'.id < FiltersQueue'[i]
    BY <1>1, <1>3, <1>4 DEF PipelineInv, Sorted
<1>11. \A i \in 1 .. Len(results') :
          /\ results'[i].id \in 1 .. submitted'
          /\ event' # None => results'[i].id < event'.id
          /\ \A j \in 1 .. Len(FiltersQueue') : results'[i].id < FiltersQueue'[j]
    BY <1>1, <1>5 DEF PipelineInv
<1>12. publishing' # NoEvent => publishing'.id \in 1 .. submitted' /\ Coming(publishing.id)'
  <2> SUFFICES ASSUME publishing # NoEvent
               PROVE  publishing.id \in 1 .. submitted /\ Coming(publishing.id)'
      BY <1>1
  <2>1. PICK n \in Int : n = publishing.id /\ n = publishing'.id
      BY <1>1 DEF PipelineInv, PipelineTypes
  <2>2. Coming(n)'
      BY <2>1, <1>6 DEF PipelineInv
  <2> QED BY <2>1, <2>2 DEF Coming, PipelineInv
<1>13. PipelineInv'
    BY <1>1, <1>7, <1>8, <1>9, <1>10, <1>11, <1>12 DEF PipelineInv
<1>14. \A n \in Int, out \in OutputNames : Past(n, out) => Past(n, out)'
    BY <1>1, <1>6 DEF Past
<1> QED BY <1>13, <1>14

\* A filter is run: the event in hand stays the same.
LEMMA FilterKeepsPipeline ==
    ASSUME PipelineInv, RunFilter, UNCHANGED publisherVars
    PROVE  /\ PipelineInv' /\ event # None /\ event' # None /\ event'.id = event.id
           /\ \A n \in Int, out \in OutputNames : Past(n, out) => Past(n, out)'
<1>1. /\ event # None
      /\ \E err \in BOOLEAN, nil \in BOOLEAN :
            event' = [event EXCEPT !.applied = @ + 1, !.failed = err, !.nil = nil]
      /\ FiltersQueue' = FiltersQueue /\ results' = results /\ submitted' = submitted
      /\ forwarded' = forwarded /\ publishing' = publishing /\ Output' = Output
    BY DEF RunFilter, publisherVars
<1>2. event \in EventRecords
    BY DEF PipelineInv, PipelineTypes
<1>3. event' \in EventRecords /\ event'.id = event.id /\ event'.applied = event.applied + 1
  <2>1. PICK err \in BOOLEAN, nil \in BOOLEAN :
            event' = [event EXCEPT !.applied = @ + 1, !.failed = err, !.nil = nil]
      BY <1>1
  <2>2. event.applied + 1 \in Nat
      BY <1>2 DEF EventRecords
  <2>3. event' = [id |-> event.id, applied |-> event.applied + 1, failed |-> err, nil |-> nil]
      BY <2>1, <1>2 DEF EventRecords
  <2> QED BY <2>2, <2>3, <1>2 DEF EventRecords
<1>4. event' # None
  <2>1. event.applied \in Nat
      BY <1>2 DEF EventRecords
  <2>2. event'.applied # 0
      BY <2>1, <1>3
  <2> QED BY <2>2, NoneFields
<1>5. \A n \in Int : Coming(n) => Coming(n)'
    BY <1>1, <1>3, <1>4 DEF Coming
<1>6. PipelineTypes'
    BY <1>1, <1>3 DEF PipelineInv, PipelineTypes
<1>7. publishing' # NoEvent => publishing'.id \in 1 .. submitted' /\ Coming(publishing.id)'
    BY <1>1, <1>3, <1>4 DEF PipelineInv, Coming
<1>8. PipelineInv'
    BY <1>1, <1>3, <1>4, <1>6, <1>7 DEF PipelineInv
<1>9. \A n \in Int, out \in OutputNames : Past(n, out) => Past(n, out)'
    BY <1>1, <1>5 DEF Past
<1> QED BY <1>1, <1>3, <1>4, <1>8, <1>9

\* The event goes to the end of the results channel.
LEMMA SendKeepsPipeline ==
    ASSUME PipelineInv, RunSend, UNCHANGED publisherVars
    PROVE  /\ PipelineInv'
           /\ \A n \in Int, out \in OutputNames : Past(n, out) => Past(n, out)'
<1>1. /\ event # None /\ event' = None
      /\ results' = Append(results, event) /\ forwarded' = Append(forwarded, event.id)
      /\ FiltersQueue' = FiltersQueue /\ submitted' = submitted
      /\ publishing' = publishing /\ Output' = Output
    BY DEF RunSend, publisherVars
<1>2. event \in EventRecords /\ results \in Seq(EventRecords) /\ event.id \in Nat /\ forwarded \in Seq(Nat)
    BY DEF PipelineInv, PipelineTypes, EventRecords
<1>3. /\ results' \in Seq(EventRecords) /\ Len(results) \in Nat /\ Len(results') = Len(results) + 1
      /\ \A i \in 1 .. Len(results) : results'[i] = results[i]
      /\ results'[Len(results) + 1] = event
      /\ \A i : i \in 1 .. Len(results) + 1 <=> i \in 1 .. Len(results) \/ i = Len(results) + 1
    BY <1>1, <1>2, AppendElements
<1>4. \A n \in Int : Coming(n) => Coming(n)'
  <2> SUFFICES ASSUME NEW n \in Int, Coming(n), NEW i \in 1 .. Len(results) + 1
               PROVE  n < results'[i].id
      BY <1>1, <1>3 DEF Coming
  <2>1. CASE i \in 1 .. Len(results)
      BY <2>1, <1>3 DEF Coming
  <2>2. CASE i = Len(results) + 1
      BY <2>2, <1>1, <1>3 DEF Coming
  <2> QED BY <2>1, <2>2, <1>3
<1>5. PipelineTypes'
  <2>1. forwarded' \in Seq(Nat)
      BY <1>1, <1>2, AppendElements
  <2> QED BY <2>1, <1>1, <1>3, NoneFields DEF PipelineInv, PipelineTypes
<1>6. \A i \in 1 .. Len(results') :
          /\ results'[i].id \in 1 .. submitted'
          /\ event' # None => results'[i].id < event'.id
          /\ \A j \in 1 .. Len(FiltersQueue') : results'[i].id < FiltersQueue'[j]
  <2> SUFFICES ASSUME NEW i \in 1 .. Len(results) + 1
               PROVE  /\ results'[i].id \in 1 .. submitted
                      /\ \A j \in 1 .. Len(FiltersQueue) : results'[i].id < FiltersQueue[j]
      BY <1>1, <1>3
  <2>1. CASE i \in 1 .. Len(results)
      BY <2>1, <1>3 DEF PipelineInv
  <2>2. CASE i = Len(results) + 1
      BY <2>2, <1>1, <1>3 DEF PipelineInv
  <2> QED BY <2>1, <2>2, <1>3
<1>7. \A i, j \in 1 .. Len(results') : i < j => results'[i].id < results'[j].id
  <2> SUFFICES ASSUME NEW i \in 1 .. Len(results) + 1, NEW j \in 1 .. Len(results) + 1, i < j
               PROVE  results'[i].id < results'[j].id
      BY <1>3
  <2>1. i \in 1 .. Len(results)
      BY <1>3
  <2>2. CASE j \in 1 .. Len(results)
      BY <2>1, <2>2, <1>3 DEF PipelineInv
  <2>3. CASE j = Len(results) + 1
      BY <2>1, <2>3, <1>1, <1>3 DEF PipelineInv
  <2> QED BY <2>2, <2>3, <1>3
<1>8. publishing' # NoEvent => publishing'.id \in 1 .. submitted' /\ Coming(publishing.id)'
  <2> SUFFICES ASSUME publishing # NoEvent
               PROVE  publishing.id \in 1 .. submitted /\ Coming(publishing.id)'
      BY <1>1
  <2>1. PICK n \in Int : n = publishing.id /\ n = publishing'.id
      BY <1>1 DEF PipelineInv, PipelineTypes
  <2>2. Coming(n)'
      BY <2>1, <1>4 DEF PipelineInv
  <2> QED BY <2>1, <2>2 DEF Coming, PipelineInv
<1>9. PipelineInv'
    BY <1>1, <1>5, <1>6, <1>7, <1>8 DEF PipelineInv
<1>10. \A n \in Int, out \in OutputNames : Past(n, out) => Past(n, out)'
    BY <1>1, <1>4 DEF Past
<1> QED BY <1>9, <1>10

\* publishEvent begins with the oldest event of the channel, or drops it.
LEMMA BeginKeepsPipeline ==
    ASSUME PipelineInv, publishEventBegin
    PROVE  /\ PipelineInv'
           /\ \A n \in Int, out \in OutputNames : Past(n, out) => Past(n, out)'
<1> DEFINE e == Head(results)
<1>1. /\ publishing = NoEvent /\ results # <<>> /\ results' = Tail(results)
      /\ publishing' = publishing \/ publishing' = [id |-> e.id, next |-> 1]
      /\ FiltersQueue' = FiltersQueue /\ event' = event /\ submitted' = submitted
      /\ forwarded' = forwarded /\ Output' = Output
    BY DEF publishEventBegin
<1>2. results \in Seq(EventRecords)
    BY DEF PipelineInv, PipelineTypes
<1>3. /\ e \in EventRecords /\ e = results[1]
      /\ 1 \in 1 .. Len(results) /\ results' \in Seq(EventRecords)
      /\ \A i \in 1 .. Len(results') :
            i + 1 \in 1 .. Len(results) /\ i + 1 > 1 /\ results'[i] = results[i + 1]
    BY <1>1, <1>2, TailElements
<1> HIDE DEF e
<1>4. /\ e.id \in Nat /\ \/ publishing' = NoEvent
                         \/ publishing' \in [id : Nat, next : Nat] /\ publishing'.id = e.id
    BY <1>1, <1>3 DEF EventRecords
<1>5. \A n \in Int : Coming(n) => Coming(n)' /\ n < e.id
    BY <1>1, <1>3 DEF Coming
<1>6. PipelineTypes'
    BY <1>1, <1>3, <1>4, NoneFields DEF PipelineInv, PipelineTypes
<1>7. /\ e.id \in 1 .. submitted
      /\ event # None => e.id < event.id
      /\ \A j \in 1 .. Len(FiltersQueue) : e.id < FiltersQueue[j]
      /\ \A i \in 1 .. Len(results') : e.id < results'[i].id
    BY <1>3 DEF PipelineInv
<1>8. publishing' # NoEvent => publishing'.id \in 1 .. submitted' /\ Coming(publishing.id)'
    BY <1>1, <1>4, <1>7 DEF Coming
<1>9. \A i, j \in 1 .. Len(results') : i < j => results'[i].id < results'[j].id
  <2> SUFFICES ASSUME NEW i \in 1 .. Len(results'), NEW j \in 1 .. Len(results'), i < j
               PROVE  results'[i].id < results'[j].id
      OBVIOUS
  <2>1. i + 1 \in 1 .. Len(results) /\ j + 1 \in 1 .. Len(results) /\ i + 1 < j + 1
      BY <1>3
  <2>2. results[i + 1].id < results[j + 1].id
      BY <2>1 DEF PipelineInv
  <2> QED BY <2>2, <1>3
<1>10. \A i \in 1 .. Len(results') :
          /\ results'[i].id \in 1 .. submitted'
          /\ event' # None => results'[i].id < event'.id
          /\ \A j \in 1 .. Len(FiltersQueue') : results'[i].id < FiltersQueue'[j]
    BY <1>1, <1>3 DEF PipelineInv
<1>11. PipelineInv'
    BY <1>1, <1>6, <1>8, <1>9, <1>10 DEF PipelineInv
<1>12. \A n \in Int, out \in OutputNames : Past(n, out) => Past(n, out)'
    BY <1>4, <1>5 DEF Past
<1> QED BY <1>11, <1>12
\* The steps of the outputs: the event goes on to the next output, or is done with.
LEMMA OutputKeepsPipeline ==
    ASSUME PipelineInv, publishEventOutput \/ publishEventEnd
    PROVE  /\ PipelineInv'
           /\ \A n \in Int, out \in OutputNames : Past(n, out) => Past(n, out)'
<1>1. /\ FiltersQueue' = FiltersQueue /\ event' = event /\ results' = results
      /\ submitted' = submitted /\ forwarded' = forwarded /\ Output' = Output
    BY DEF publishEventOutput, publishEventEnd, filterVars
<1>2. publishing' = [publishing EXCEPT !.next = @ + 1] \/ publishing' = NoEvent
    BY DEF publishEventOutput, publishEventEnd
<1>3. publishing \in [id : Nat, next : Nat] /\ Len(Output) \in Nat
    BY DEF PipelineInv, PipelineTypes
<1>4. publishing # NoEvent
  <2>1. publishing.next > 0
      BY <1>3 DEF publishEventOutput, publishEventEnd
  <2> QED BY <2>1, NoneFields
<1>5. \/ /\ publishing' \in [id : Nat, next : Nat] /\ publishing'.id = publishing.id
         /\ publishing'.next = publishing.next + 1
      \/ publishing' = NoEvent
    BY <1>2, <1>3
<1>6. \A n \in Int : Coming(n) => Coming(n)'
    BY <1>1 DEF Coming
<1>7. PipelineTypes'
    BY <1>1, <1>5, NoneFields DEF PipelineInv, PipelineTypes
<1>8. publishing' # NoEvent => publishing'.id \in 1 .. submitted' /\ Coming(publishing.id)'
    BY <1>1, <1>4, <1>5 DEF PipelineInv, Coming
<1>9. PipelineInv'
    BY <1>1, <1>7, <1>8 DEF PipelineInv
<1>10. \A n \in Int, out \in OutputNames : Past(n, out) => Past(n, out)'
  <2> SUFFICES ASSUME NEW n \in Int, NEW out \in OutputNames, Past(n, out), publishing' # NoEvent
               PROVE  \/ n < publishing'.id
                      \/ /\ n = publishing'.id
                         /\ \A i \in 1 .. Len(Output) : Output[i] = out => i < publishing'.next
      BY <1>1, <1>6 DEF Past
  <2>1. publishing.next \in Nat /\ publishing'.id = publishing.id /\ publishing'.next = publishing.next + 1
      BY <1>3, <1>5
  <2>2. CASE n < publishing.id
      BY <2>1, <2>2
  <2>3. CASE ~(n < publishing.id)
    <3>1. n = publishing.id /\ \A i \in 1 .. Len(Output) : Output[i] = out => i < publishing.next
        BY <2>3, <1>4 DEF Past
    <3> QED BY <2>1, <3>1
  <2> QED BY <2>2, <2>3
<1> QED BY <1>9, <1>10

\* An output is given an event that is newer than all it was given before.
LEMMA OutputIsGivenNewest ==
    ASSUME PipelineInv, publishEventOutput,
           NEW out \in OutputNames, out = Output[publishing.next], NEW e, e = publishing.id
    PROVE  e \in Nat /\ Past(e, out)' /\ \A n \in Int : Past(n, out) => n < e
<1>1. /\ FiltersQueue' = FiltersQueue /\ event' = event /\ results' = results
      /\ submitted' = submitted /\ Output' = Output
      /\ publishing' = [publishing EXCEPT !.next = @ + 1]
      /\ publishing.next \in 1 .. Len(Output)
    BY DEF publishEventOutput, filterVars
<1>2. /\ publishing \in [id : Nat, next : Nat] /\ Len(Output) \in Nat /\ DOMAIN Output = 1 .. Len(Output)
      /\ IsInjective(Output)
    BY DEF PipelineInv, PipelineTypes
<1>3. publishing # NoEvent
  <2>1. publishing.next > 0
      BY <1>1, <1>2
  <2> QED BY <2>1, NoneFields
<1>4. publishing'.id = publishing.id /\ publishing'.next = publishing.next + 1 /\ publishing.next \in Nat
    BY <1>1, <1>2
<1>5. \A i \in 1 .. Len(Output) : Output[i] = out => i = publishing.next
    BY <1>1, <1>2 DEF IsInjective
<1>6. e \in Nat /\ Coming(e)
    BY <1>2, <1>3 DEF PipelineInv, Coming
<1>7. \A i \in 1 .. Len(Output) : Output[i] = out => i < publishing'.next
    BY <1>4, <1>5
<1>8. Coming(e)'
    BY <1>1, <1>6 DEF Coming
<1>9. \A n \in Int : Past(n, out) => n < publishing.id
  <2> SUFFICES ASSUME NEW n \in Int, Past(n, out), ~(n < publishing.id) PROVE FALSE
      OBVIOUS
  <2>1. \A i \in 1 .. Len(Output) : Output[i] = out => i < publishing.next
      BY <1>3 DEF Past
  <2> QED BY <2>1, <1>1, <1>4
<1>10. Past(e, out)'
    BY <1>1, <1>4, <1>7, <1>8 DEF Past
<1> QED BY <1>6, <1>9, <1>10
\* A restart empties everything that is in memory.
LEMMA CrashKeepsPipeline ==
    ASSUME PipelineInv, CrashRestart
    PROVE  /\ PipelineInv'
           /\ \A n \in Int, out \in OutputNames : Past(n, out) => Past(n, out)'
<1>1. /\ FiltersQueue' = <<>> /\ event' = None /\ results' = <<>> /\ submitted' = submitted
      /\ forwarded' = forwarded /\ publishing' = NoEvent /\ Output' = Output
    BY DEF CrashRestart
<1>2. PipelineTypes'
    BY <1>1, NoneFields DEF PipelineInv, PipelineTypes
<1>3. PipelineInv'
    BY <1>1, <1>2 DEF PipelineInv, Sorted
<1> QED BY <1>1, <1>3 DEF Past, Coming

\* The goroutines of the outputs, and their servers, are no part of the pipeline.
OtherSteps ==
    \/ FileStep \/ RedisSendStep \/ RedisReconnectStep \/ EsStep \/ EsAnswerStep \/ RedisServer
    \/ UNCHANGED vars

LEMMA OthersLeavePipeline ==
    ASSUME OtherSteps
    PROVE  UNCHANGED <<FiltersQueue, event, results, submitted, forwarded, Output, publishing,
                       handled, lost>>
BY DEF OtherSteps, FileStep, RedisSendStep, RedisReconnectStep, EsStep, EsAnswerStep, RedisServer,
       vars, filterVars, publisherVars

LEMMA OthersKeepPipeline ==
    ASSUME PipelineInv, OtherSteps
    PROVE  /\ PipelineInv'
           /\ \A n \in Int, out \in OutputNames : Past(n, out) => Past(n, out)'
<1>1. UNCHANGED <<FiltersQueue, event, results, submitted, forwarded, Output, publishing>>
    BY OthersLeavePipeline
<1>2. PipelineTypes'
    BY <1>1 DEF PipelineInv, PipelineTypes
<1>3. PipelineInv'
    BY <1>1, <1>2 DEF PipelineInv, Coming
<1> QED BY <1>1, <1>3 DEF Past, Coming

\* The steps of the specification, by what they concern.
LEMMA StepKinds ==
    ASSUME [Next]_vars
    PROVE  \/ Submit /\ UNCHANGED <<fileVars, redisVars, esVars, publisherVars>>
           \/ RunStep /\ UNCHANGED <<fileVars, redisVars, esVars, publisherVars>>
           \/ publishEventBegin \/ publishEventOutput \/ publishEventEnd
           \/ CrashRestart \/ OtherSteps
BY DEF Next, Running, FilterStep, PublisherStep, OtherSteps

LEMMA PipelineStep ==
    ASSUME PipelineInv, [Next]_vars
    PROVE  /\ PipelineInv'
           /\ \A n \in Int, out \in OutputNames : Past(n, out) => Past(n, out)'
BY StepKinds, SubmitKeepsPipeline, TakeKeepsPipeline, FilterKeepsPipeline, SendKeepsPipeline,
   BeginKeepsPipeline, OutputKeepsPipeline, CrashKeepsPipeline, OthersKeepPipeline DEF RunStep
-------------------------------------------------------------------------------
(* The events of the runner.                                               *)

InHand == IF event = None THEN <<>> ELSE <<event.id>>
Ids == forwarded \o InHand \o FiltersQueue

\* What the publisher works on, or has finished, went through the runner.
OrderInv ==
    /\ Sorted(Ids) /\ Range(Ids) \cup lost = 1 .. submitted
    /\ handled \subseteq Range(forwarded)
    /\ \A i \in 1 .. Len(results) : results[i].id \in Range(forwarded)
    /\ publishing # NoEvent => publishing.id \in Range(forwarded)

LEMMA InHandType ==
    ASSUME PipelineInv
    PROVE  /\ forwarded \in Seq(Nat) /\ InHand \in Seq(Nat) /\ FiltersQueue \in Seq(Nat)
           /\ forwarded \o InHand \in Seq(Nat) /\ Ids \in Seq(Nat)
<1>1. forwarded \in Seq(Nat) /\ FiltersQueue \in Seq(Nat) /\ event.id \in Nat
    BY DEF PipelineInv, PipelineTypes, EventRecords
<1>2. InHand \in Seq(Nat)
    BY <1>1 DEF InHand
<1> QED BY <1>1, <1>2, ConcatProperties DEF Ids

LEMMA RangeOfAppend ==
    ASSUME NEW S, NEW s \in Seq(S), NEW e \in S
    PROVE  Range(Append(s, e)) = Range(s) \cup {e}
<1>1. Append(s, e) = s \o <<e>> /\ <<e>> \in Seq(S)
    BY AppendIsConcat
<1>2. Range(<<e>>) = {e}
    BY DEF Range
<1>3. Range(s \o <<e>>) = Range(s) \cup Range(<<e>>)
    BY <1>1, RangeConcatenation
<1> QED BY <1>1, <1>2, <1>3

\* Submitting appends to the events of the runner.
LEMMA SubmitKeepsOrder ==
    ASSUME PipelineInv, OrderInv, Submit, UNCHANGED publisherVars
    PROVE  OrderInv'
<1>1. /\ submitted' = submitted + 1 /\ FiltersQueue' = Append(FiltersQueue, submitted + 1)
      /\ event' = event /\ results' = results /\ forwarded' = forwarded
      /\ publishing' = publishing /\ handled' = handled /\ lost' = lost
    BY DEF Submit, publisherVars
<1>2. /\ forwarded \o InHand \in Seq(Nat) /\ FiltersQueue \in Seq(Nat) /\ Ids \in Seq(Nat)
      /\ submitted \in Nat /\ submitted + 1 \in Nat
    BY InHandType DEF PipelineInv, PipelineTypes
<1>3. Ids' = Append(Ids, submitted + 1)
  <2>1. Ids' = (forwarded \o InHand) \o Append(FiltersQueue, submitted + 1)
      BY <1>1 DEF Ids, InHand
  <2>2. Append(FiltersQueue, submitted + 1) = FiltersQueue \o <<submitted + 1>>
      BY <1>2, AppendIsConcat
  <2>3. <<submitted + 1>> \in Seq(Nat)
      BY <1>2
  <2> QED BY <2>1, <2>2, <2>3, <1>2, ConcatAssociative, AppendIsConcat, SMTT(40) DEF Ids
<1>4. Range(Ids') = Range(Ids) \cup {submitted + 1}
    BY <1>2, <1>3, RangeOfAppend
<1>5. Range(Ids') \cup lost' = 1 .. submitted'
  <2>1. 1 .. submitted + 1 = (1 .. submitted) \cup {submitted + 1}
      BY <1>2
  <2> QED BY <2>1, <1>1, <1>4 DEF OrderInv
<1>6. \A i \in 1 .. Len(Ids) : Ids[i] < submitted + 1
  <2> SUFFICES ASSUME NEW i \in 1 .. Len(Ids) PROVE Ids[i] < submitted + 1
      OBVIOUS
  <2>1. Ids[i] \in Range(Ids)
      BY <1>2 DEF Range
  <2>2. Ids[i] \in 1 .. submitted
      BY <2>1 DEF OrderInv
  <2> QED BY <2>2, <1>2
<1>7. Sorted(Ids')
    BY <1>2, <1>3, <1>6, SortedAppend DEF OrderInv
<1> QED BY <1>1, <1>5, <1>7 DEF OrderInv

\* The runner's own steps move an event along, and the sequence stays the same.
LEMMA RunKeepsIds ==
    ASSUME PipelineInv, RunStep, UNCHANGED publisherVars
    PROVE  Ids' = Ids
<1>0. /\ forwarded \in Seq(Nat) /\ InHand \in Seq(Nat) /\ FiltersQueue \in Seq(Nat)
    BY InHandType
<1>1. CASE RunTake
  <2>1. /\ event = None /\ FiltersQueue # <<>>
        /\ event' = [None EXCEPT !.id = Head(FiltersQueue)]
        /\ FiltersQueue' = Tail(FiltersQueue) /\ forwarded' = forwarded
      BY <1>1 DEF RunTake
  <2>2. Head(FiltersQueue) \in Nat \ {0} /\ Tail(FiltersQueue) \in Seq(Nat)
    <3>1. /\ 1 \in 1 .. Len(FiltersQueue) /\ Head(FiltersQueue) = FiltersQueue[1]
          /\ Tail(FiltersQueue) \in Seq(Nat)
        BY <1>0, <2>1, TailElements
    <3>2. FiltersQueue[1] \in 1 .. submitted /\ submitted \in Nat
        BY <3>1 DEF PipelineInv, PipelineTypes
    <3> QED BY <3>1, <3>2
  <2>3. event'.id = Head(FiltersQueue) /\ event' # None
    <3>1. event'.id = Head(FiltersQueue)
        BY <2>1 DEF None
    <3> QED BY <3>1, <2>2, NoneFields
  <2>4. InHand' = <<Head(FiltersQueue)>> /\ InHand = <<>>
      BY <2>1, <2>3 DEF InHand
  <2>5. FiltersQueue = <<Head(FiltersQueue)>> \o Tail(FiltersQueue)
    <3> DEFINE s == <<Head(FiltersQueue)>> \o Tail(FiltersQueue)
    <3>1. /\ Len(FiltersQueue) \in Nat \ {0} /\ Head(FiltersQueue) = FiltersQueue[1]
          /\ Len(Tail(FiltersQueue)) = Len(FiltersQueue) - 1
          /\ \A i \in 1 .. Len(Tail(FiltersQueue)) : Tail(FiltersQueue)[i] = FiltersQueue[i + 1]
        BY <1>0, <2>1, TailElements
    <3>2. /\ <<Head(FiltersQueue)>> \in Seq(Nat) /\ Len(<<Head(FiltersQueue)>>) = 1
          /\ <<Head(FiltersQueue)>>[1] = Head(FiltersQueue)
        BY <2>2
    <3>3. /\ s \in Seq(Nat) /\ Len(s) = 1 + Len(Tail(FiltersQueue))
          /\ \A i \in 1 .. 1 + Len(Tail(FiltersQueue)) :
                s[i] = IF i <= 1 THEN <<Head(FiltersQueue)>>[i] ELSE Tail(FiltersQueue)[i - 1]
        BY <2>2, <3>2, ConcatProperties
    <3> HIDE DEF s
    <3>4. Len(s) = Len(FiltersQueue)
        BY <3>1, <3>3
    <3>5. \A i \in 1 .. Len(s) : FiltersQueue[i] = s[i]
      <4> SUFFICES ASSUME NEW i \in 1 .. Len(FiltersQueue) PROVE FiltersQueue[i] = s[i]
          BY <3>4
      <4>1. CASE i = 1
          BY <4>1, <3>1, <3>2, <3>3
      <4>2. CASE i # 1
        <5>1. i - 1 \in 1 .. Len(Tail(FiltersQueue)) /\ ~(i <= 1) /\ (i - 1) + 1 = i
              /\ i \in 1 .. 1 + Len(Tail(FiltersQueue))
            BY <4>2, <3>1
        <5> QED BY <5>1, <3>1, <3>3
      <4> QED BY <4>1, <4>2
    <3>6. FiltersQueue = s
        BY <3>3, <3>4, <3>5, <1>0, SeqEqual
    <3> QED BY <3>6 DEF s
  <2>6. Ids' = (forwarded \o <<Head(FiltersQueue)>>) \o Tail(FiltersQueue)
      BY <2>1, <2>4 DEF Ids
  <2>7. (forwarded \o <<Head(FiltersQueue)>>) \o Tail(FiltersQueue) = forwarded \o FiltersQueue
    <3>1. <<Head(FiltersQueue)>> \in Seq(Nat)
        BY <2>2
    <3> QED BY <3>1, <2>2, <2>5, <1>0, ConcatAssociative
  <2>8. Ids = forwarded \o FiltersQueue
      BY <2>4, <1>0, ConcatEmptySeq DEF Ids
  <2> QED BY <2>6, <2>7, <2>8
<1>2. CASE RunFilter
  <2>1. /\ event # None /\ event' # None /\ event'.id = event.id
        /\ forwarded' = forwarded /\ FiltersQueue' = FiltersQueue
      BY <1>2, FilterKeepsPipeline DEF RunFilter
  <2> QED BY <2>1 DEF Ids, InHand
<1>3. CASE RunSend
  <2>1. /\ event # None /\ event' = None /\ forwarded' = Append(forwarded, event.id)
        /\ FiltersQueue' = FiltersQueue
      BY <1>3 DEF RunSend
  <2>2. InHand = <<event.id>> /\ InHand' = <<>> /\ event.id \in Nat
      BY <2>1 DEF InHand, PipelineInv, PipelineTypes, EventRecords
  <2>3. forwarded' = forwarded \o InHand /\ forwarded' \in Seq(Nat)
      BY <2>1, <2>2, <1>0, AppendIsConcat, ConcatProperties
  <2>4. forwarded' \o InHand' = forwarded'
      BY <2>2, <2>3, ConcatEmptySeq
  <2> QED BY <2>1, <2>3, <2>4 DEF Ids
<1> QED BY <1>1, <1>2, <1>3 DEF RunStep
LEMMA RunKeepsOrder ==
    ASSUME PipelineInv, OrderInv, RunStep, UNCHANGED publisherVars
    PROVE  OrderInv'
<1>1. Ids' = Ids
    BY RunKeepsIds
<1>2. UNCHANGED <<submitted, lost, handled, publishing>>
    BY DEF RunStep, RunTake, RunFilter, RunSend, publisherVars
<1>3. CASE RunTake \/ RunFilter
  <2>1. forwarded' = forwarded /\ results' = results
      BY <1>3 DEF RunTake, RunFilter
  <2> QED BY <2>1, <1>1, <1>2 DEF OrderInv
<1>4. CASE RunSend
  <2>1. results' = Append(results, event) /\ forwarded' = Append(forwarded, event.id)
      BY <1>4 DEF RunSend
  <2>2. /\ event \in EventRecords /\ results \in Seq(EventRecords) /\ event.id \in Nat
        /\ forwarded \in Seq(Nat)
      BY DEF PipelineInv, PipelineTypes, EventRecords
  <2>3. Range(forwarded') = Range(forwarded) \cup {event.id}
      BY <2>1, <2>2, RangeOfAppend
  <2>4. /\ Len(results') = Len(results) + 1
        /\ \A i \in 1 .. Len(results) : results'[i] = results[i]
        /\ results'[Len(results) + 1] = event
        /\ \A i : i \in 1 .. Len(results) + 1 <=> i \in 1 .. Len(results) \/ i = Len(results) + 1
      BY <2>1, <2>2, AppendElements
  <2>5. \A i \in 1 .. Len(results') : results'[i].id \in Range(forwarded')
      BY <2>3, <2>4 DEF OrderInv
  <2> QED BY <2>3, <2>5, <1>1, <1>2 DEF OrderInv
<1> QED BY <1>3, <1>4 DEF RunStep

LEMMA PublisherKeepsOrder ==
    ASSUME PipelineInv, OrderInv, publishEventBegin \/ publishEventOutput \/ publishEventEnd
    PROVE  OrderInv'
<1>1. UNCHANGED <<FiltersQueue, event, submitted, forwarded, lost>>
    BY DEF publishEventBegin, publishEventOutput, publishEventEnd, filterVars
<1>2. Ids' = Ids
    BY <1>1 DEF Ids, InHand
<1>3. CASE publishEventBegin
  <2> DEFINE e == Head(results)
  <2>1. /\ results # <<>> /\ results' = Tail(results)
        /\ handled' \subseteq handled \cup {e.id}
        /\ publishing' = NoEvent \/ publishing' = [id |-> e.id, next |-> 1]
      BY <1>3 DEF publishEventBegin
  <2>2. results \in Seq(EventRecords)
      BY DEF PipelineInv, PipelineTypes
  <2>3. /\ e = results[1] /\ 1 \in 1 .. Len(results)
        /\ \A i \in 1 .. Len(results') :
              i + 1 \in 1 .. Len(results) /\ results'[i] = results[i + 1]
      BY <2>1, <2>2, TailElements
  <2> HIDE DEF e
  <2>4. e.id \in Range(forwarded) /\ \A i \in 1 .. Len(results') : results'[i].id \in Range(forwarded)
      BY <2>3 DEF OrderInv
  <2> QED BY <2>1, <2>4, <1>1, <1>2 DEF OrderInv
<1>4. CASE publishEventOutput \/ publishEventEnd
  <2>1. publishing # NoEvent
    <3>1. publishing.next > 0
        BY <1>4 DEF publishEventOutput, publishEventEnd, PipelineInv, PipelineTypes
    <3> QED BY <3>1, NoneFields
  <2>2. /\ results' = results /\ handled' \subseteq handled \cup {publishing.id}
        /\ publishing' = [publishing EXCEPT !.next = @ + 1] \/ publishing' = NoEvent
      BY <1>4 DEF publishEventOutput, publishEventEnd, filterVars
  <2>3. publishing' # NoEvent => publishing'.id = publishing.id
      BY <2>2 DEF PipelineInv, PipelineTypes
  <2> QED BY <2>1, <2>2, <2>3, <1>1, <1>2 DEF OrderInv
<1> QED BY <1>3, <1>4

\* All that a crash takes away is recorded as lost.
LEMMA CrashKeepsOrder ==
    ASSUME PipelineInv, OrderInv, CrashRestart
    PROVE  OrderInv'
<1>1. /\ FiltersQueue' = <<>> /\ event' = None /\ results' = <<>> /\ submitted' = submitted
      /\ forwarded' = forwarded /\ publishing' = NoEvent /\ handled' = handled
      /\ lost' = (1 .. submitted) \ handled
    BY DEF CrashRestart
<1>2. /\ forwarded \in Seq(Nat) /\ InHand \in Seq(Nat) /\ FiltersQueue \in Seq(Nat)
      /\ forwarded \o InHand \in Seq(Nat)
    BY InHandType
<1>3. Ids' = forwarded
    BY <1>1, <1>2, ConcatEmptySeq DEF Ids, InHand
<1>4. Range(forwarded) \subseteq Range(Ids)
  <2>1. Range(Ids) = Range(forwarded \o InHand) \cup Range(FiltersQueue)
      BY <1>2, RangeConcatenation, ZenonT(60) DEF Ids
  <2>2. Range(forwarded \o InHand) = Range(forwarded) \cup Range(InHand)
      BY <1>2, RangeConcatenation
  <2> QED BY <2>1, <2>2
<1>5. Range(Ids') \cup lost' = 1 .. submitted'
    BY <1>1, <1>3, <1>4 DEF OrderInv
<1>6. Sorted(Ids')
  <2> SUFFICES ASSUME NEW i \in 1 .. Len(forwarded), NEW j \in 1 .. Len(forwarded), i < j
               PROVE  forwarded[i] < forwarded[j]
      BY <1>3 DEF Sorted
  <2> DEFINE s == forwarded \o InHand
  <2>1. /\ Len(s) = Len(forwarded) + Len(InHand)
        /\ \A k \in 1 .. Len(forwarded) + Len(InHand) :
              s[k] = IF k <= Len(forwarded) THEN forwarded[k] ELSE InHand[k - Len(forwarded)]
      BY <1>2, ConcatProperties
  <2>2. /\ Len(Ids) = Len(s) + Len(FiltersQueue)
        /\ \A k \in 1 .. Len(s) + Len(FiltersQueue) :
              Ids[k] = IF k <= Len(s) THEN s[k] ELSE FiltersQueue[k - Len(s)]
      BY <1>2, ConcatProperties DEF Ids
  <2> HIDE DEF s
  <2>3. Len(forwarded) \in Nat /\ Len(InHand) \in Nat /\ Len(FiltersQueue) \in Nat
      BY <1>2
  <2>4. \A k \in 1 .. Len(forwarded) : /\ k \in 1 .. Len(Ids) /\ k <= Len(s)
                                       /\ k \in 1 .. Len(forwarded) + Len(InHand)
                                       /\ k <= Len(forwarded)
                                       /\ k \in 1 .. Len(s) + Len(FiltersQueue)
      BY <2>1, <2>2, <2>3
  <2>5. \A k \in 1 .. Len(forwarded) : k \in 1 .. Len(Ids) /\ Ids[k] = forwarded[k]
      BY <2>1, <2>2, <2>4
  <2> QED BY <2>5 DEF OrderInv, Sorted
<1> QED BY <1>1, <1>5, <1>6 DEF OrderInv

LEMMA OrderStep == PipelineInv /\ OrderInv /\ [Next]_vars => OrderInv'
<1> SUFFICES ASSUME PipelineInv, OrderInv, [Next]_vars PROVE OrderInv'
    OBVIOUS
<1>1. CASE OtherSteps
  <2>1. UNCHANGED <<FiltersQueue, event, results, submitted, forwarded, publishing, handled, lost>>
      BY <1>1, OthersLeavePipeline
  <2> QED BY <2>1 DEF OrderInv, Ids, InHand
<1> QED BY <1>1, StepKinds, SubmitKeepsOrder, RunKeepsOrder, PublisherKeepsOrder, CrashKeepsOrder

LEMMA OrderInit == Init => OrderInv
<1> SUFFICES ASSUME Init PROVE OrderInv
    OBVIOUS
<1>1. /\ FiltersQueue = <<>> /\ event = None /\ results = <<>> /\ submitted = 0
      /\ forwarded = <<>> /\ publishing = NoEvent /\ handled = {} /\ lost = {}
    BY DEF Init, FilterInit
<1>2. Ids = <<>>
  <2>1. <<>> \in Seq(Nat)
      OBVIOUS
  <2> QED BY <1>1, <2>1, ConcatEmptySeq DEF Ids, InHand
<1>3. Range(<<>>) = {} /\ 1 .. 0 = {}
    BY DEF Range
<1> QED BY <1>1, <1>2, <1>3 DEF OrderInv, Sorted

\* The filter runner forwards the events in the order of their submission and loses
\* none but those in memory when the process is killed.
THEOREM EventsKeepOrder == Spec => []EventsInOrder
<1>1. OrderInv => EventsInOrder
    BY DEF OrderInv, EventsInOrder, Ids, InHand, Sorted
<1>2. PipelineInv /\ [Next]_vars => PipelineInv'
    BY PipelineStep
<1> QED BY <1>1, <1>2, PipelineInit, OrderInit, OrderStep, PTL DEF Spec

-------------------------------------------------------------------------------
(* The rotated files.                                                      *)

\* A file is only ever created or moved to a number below RotatorMaxFiles, where the
\* next rotation looks for extra files; and while the files are shifted, the number
\* above the one whose turn it is is free.
Present(n) == n \in DOMAIN files

RotateInv ==
    /\ refused \subseteq {"unread"} /\ file_no \in Int
    /\ DOMAIN files \subseteq 0 .. RotatorMaxFiles - 1
    /\ rpc = "shift" => file_no \in 0 .. KeepFiles - 1 /\ ~Present(file_no + 1)

LEMMA RotateInit == Init => RotateInv
<1> SUFFICES ASSUME Init PROVE RotateInv
    OBVIOUS
<1>1. PICK n \in 0 .. RotatorMaxFiles - 1 : files = [m \in 0 .. n - 1 |-> <<-m>>]
    BY DEF Init, RotatorInit
<1>2. refused = {} /\ file_no = 0 /\ rpc = "idle"
    BY DEF Init, RotatorInit
<1>3. RotatorMaxFiles \in Int
    BY RotatorAssumption
<1>4. DOMAIN files \subseteq 0 .. RotatorMaxFiles - 1
    BY <1>1, <1>3
<1> QED BY <1>2, <1>4 DEF RotateInv

\* The files while the extra ones are deleted.
LEMMA ExtraKeepsRotate ==
    ASSUME RotateInv, RotateExtra PROVE RotateInv'
<1> DEFINE extra == {n \in DOMAIN files : KeepFiles <= n /\ n < RotatorMaxFiles}
<1>0. KeepFiles \in 2 .. RotatorMaxFiles - 1 /\ RotatorMaxFiles \in Int
    BY RotatorAssumption
<1>1. refused' = refused
    BY DEF RotateExtra
<1>2. CASE extra = {} /\ rpc' = "shift" /\ file_no' = KeepFiles - 1 /\ files' = files
  <2>1. file_no' \in 0 .. KeepFiles - 1 /\ file_no' + 1 = KeepFiles /\ file_no' \in Int
      BY <1>0, <1>2
  <2>2. KeepFiles \notin DOMAIN files
      BY <1>0, <1>2
  <2> QED BY <1>1, <1>2, <2>1, <2>2 DEF RotateInv, Present
<1>3. CASE (\E n \in extra : files' = Without(n)) /\ rpc' = "extra" /\ file_no' = file_no
  <2>1. DOMAIN files' \subseteq DOMAIN files
      BY <1>3 DEF Without
  <2> QED BY <2>1, <1>1, <1>3 DEF RotateInv
<1>4. CASE rpc' = "idle" /\ files' = files /\ file_no' = file_no
    BY <1>4, <1>1 DEF RotateInv
<1> QED BY <1>2, <1>3, <1>4 DEF RotateExtra, Fault

\* A round of the shift ends the rotation, refusing only after a stat that failed, or
\* moves the file if there is one.
LEMMA ShiftKinds ==
    ASSUME RotateInv, RotateShift
    PROVE  /\ file_no' = file_no - 1
           /\ \/ rpc' = "idle" /\ files' = files /\ refused' \subseteq {"unread"}
              \/ /\ files' = IF Present(file_no) THEN Renamed(file_no) ELSE files
                 /\ refused' = refused
                 /\ rpc' = IF file_no = 0 THEN "create" ELSE "shift"
<1>1. PICK failing \in SUBSET {"stat", "statNext", "rename"} :
          RotateShift!(failing)
    BY DEF RotateShift
<1>2. file_no + 1 \notin DOMAIN files /\ refused \subseteq {"unread"}
    BY DEF RotateInv, RotateShift, Present
<1> QED BY <1>1, <1>2 DEF FileExists, Present

\* A round of the shift: the file moves up to a number that was free, and leaves its
\* own free for the next round.
LEMMA ShiftKeepsRotate ==
    ASSUME RotateInv, RotateShift PROVE RotateInv'
<1>0. KeepFiles \in 2 .. RotatorMaxFiles - 1 /\ RotatorMaxFiles \in Int
    BY RotatorAssumption
<1>1. /\ file_no \in 0 .. KeepFiles - 1 /\ ~Present(file_no + 1)
      /\ file_no \in Int
    BY DEF RotateInv, RotateShift
<1>2. CASE rpc' = "idle" /\ files' = files /\ file_no' = file_no - 1 /\ refused' \subseteq {"unread"}
    BY <1>1, <1>2 DEF RotateInv
<1>3. CASE /\ files' = IF Present(file_no) THEN Renamed(file_no) ELSE files
           /\ refused' = refused /\ file_no' = file_no - 1
           /\ rpc' = IF file_no = 0 THEN "create" ELSE "shift"
  <2>1. file_no' \in Int /\ file_no' + 1 = file_no /\ file_no # file_no + 1
        /\ (file_no # 0 => file_no' \in 0 .. KeepFiles - 1)
      BY <1>0, <1>1, <1>3
  <2>2. file_no + 1 \in 0 .. RotatorMaxFiles - 1
      BY <1>0, <1>1
  <2>3. CASE Present(file_no)
    <3>1. DOMAIN files' = (DOMAIN files \ {file_no}) \cup {file_no + 1}
        BY <1>3, <2>3 DEF Renamed
    <3>2. file_no \notin DOMAIN files'
        BY <3>1, <2>1
    <3>3. DOMAIN files' \subseteq 0 .. RotatorMaxFiles - 1
        BY <3>1, <2>2 DEF RotateInv
    <3> QED BY <3>2, <3>3, <1>1, <1>3, <2>1 DEF RotateInv, Present
  <2>4. CASE ~Present(file_no)
      BY <2>4, <1>1, <1>3, <2>1 DEF RotateInv, Present
  <2> QED BY <2>3, <2>4
<1> QED BY <1>2, <1>3, ShiftKinds

\* The other steps of the file output remove files, or create the file 0.
LEMMA RotatorKeepsRotate ==
    ASSUME RotateInv, RotatorStep PROVE RotateInv'
<1>0. 0 \in 0 .. RotatorMaxFiles - 1
    BY RotatorAssumption
<1>1. CASE RotateClose
    BY <1>1 DEF RotateClose, Fault, RotateInv
<1>2. CASE RotateCreate
  <2>1. /\ refused' = refused /\ file_no' = file_no /\ rpc' \in {"trim", "idle"}
        /\ DOMAIN files' \subseteq DOMAIN files \cup {0}
      BY <1>2 DEF RotateCreate, Fault
  <2> QED BY <1>0, <2>1 DEF RotateInv
<1>3. CASE RotateTrim
  <2>1. /\ refused' = refused /\ file_no' = file_no /\ rpc' = "write"
        /\ DOMAIN files' \subseteq DOMAIN files
      BY <1>3 DEF RotateTrim, Without
  <2> QED BY <2>1 DEF RotateInv
<1>4. CASE Write
  <2>1. /\ refused' = refused /\ file_no' = file_no /\ rpc' = "idle"
        /\ DOMAIN files' = DOMAIN files
      BY <1>4 DEF Write, Fault
  <2> QED BY <2>1 DEF RotateInv
<1> QED BY <1>1, <1>2, <1>3, <1>4, ExtraKeepsRotate, ShiftKeepsRotate DEF RotatorStep, RotateStep

\* Who else touches the files: publishEvent starts a WriteLine, a restart ends it.
LEMMA FileSteps ==
    ASSUME [Next]_vars
    PROVE  \/ FileStep
           \/ publishEventOutput /\ Output[publishing.next] = "file" /\ WriteLine(publishing.id)
           \/ CrashRestart
           \/ UNCHANGED fileVars
BY DEF Next, Running, FilterStep, PublisherStep, publishEventBegin, publishEventOutput,
       publishEventEnd, RedisSendStep, RedisReconnectStep, EsStep, EsAnswerStep, RedisServer, vars

LEMMA RotateStepInv == RotateInv /\ [Next]_vars => RotateInv'
<1> SUFFICES ASSUME RotateInv, [Next]_vars PROVE RotateInv'
    OBVIOUS
<1>1. CASE FileStep
    BY <1>1, RotatorKeepsRotate DEF FileStep
<1>2. CASE publishEventOutput /\ WriteLine(publishing.id)
    BY <1>2 DEF WriteLine, RotateInv
<1>3. CASE CrashRestart
    BY <1>3 DEF CrashRestart, RotatorRestart, RotateInv
<1>4. CASE UNCHANGED fileVars
    BY <1>4 DEF fileVars, RotateInv, Present
<1> QED BY <1>1, <1>2, <1>3, <1>4, FileSteps

\* Rotate never finds a file where it wants to move another one, for any numbers of
\* files kept and left over, failed system calls and crashes in its middle: it
\* refuses to go on only after a stat that failed.
THEOREM RotationRefusesOnFailedStat == Spec => []RefusesOnlyOnFailedStat
<1>1. RotateInv => RefusesOnlyOnFailedStat
    BY DEF RotateInv, RefusesOnlyOnFailedStat
<1> QED BY <1>1, RotateInit, RotateStepInv, PTL DEF Spec

-------------------------------------------------------------------------------
(* The redis output.                                                       *)

LEMMA TailOfSorted ==
    ASSUME NEW s \in Seq(Nat), s # <<>>, Sorted(s)
    PROVE  /\ Tail(s) \in Seq(Nat) /\ Sorted(Tail(s)) /\ Head(s) \in Nat
           /\ Head(s) \in Range(s) /\ Range(Tail(s)) \subseteq Range(s)
           /\ \A n \in Range(Tail(s)) : Head(s) < n
<1>1. /\ Len(s) \in Nat \ {0} /\ Head(s) \in Nat /\ Head(s) = s[1] /\ 1 \in 1 .. Len(s)
      /\ Tail(s) \in Seq(Nat) /\ Len(Tail(s)) = Len(s) - 1
      /\ \A i \in 1 .. Len(Tail(s)) :
            i + 1 \in 1 .. Len(s) /\ i + 1 > 1 /\ Tail(s)[i] = s[i + 1]
    BY TailElements
<1>2. Sorted(Tail(s))
  <2> SUFFICES ASSUME NEW i \in 1 .. Len(Tail(s)), NEW j \in 1 .. Len(Tail(s)), i < j
               PROVE  Tail(s)[i] < Tail(s)[j]
      BY DEF Sorted
  <2>1. i + 1 \in 1 .. Len(s) /\ j + 1 \in 1 .. Len(s) /\ i + 1 < j + 1
      BY <1>1
  <2>2. s[i + 1] < s[j + 1]
      BY <2>1 DEF Sorted
  <2> QED BY <2>2, <1>1
<1>3. /\ Range(s) = {s[i] : i \in 1 .. Len(s)}
      /\ Range(Tail(s)) = {Tail(s)[i] : i \in 1 .. Len(Tail(s))}
    BY <1>1, RangeEquality, ZenonT(60)
<1>4. \A n \in Range(Tail(s)) : n \in Range(s) /\ s[1] < n
  <2> SUFFICES ASSUME NEW i \in 1 .. Len(Tail(s))
               PROVE  Tail(s)[i] \in Range(s) /\ s[1] < Tail(s)[i]
      BY <1>3
  <2>1. i + 1 \in 1 .. Len(s) /\ 1 < i + 1 /\ Tail(s)[i] = s[i + 1]
      BY <1>1
  <2>2. s[1] < s[i + 1]
      BY <2>1, <1>1 DEF Sorted
  <2> QED BY <2>1, <2>2, <1>3
<1> QED BY <1>1, <1>2, <1>3, <1>4

LEMMA AppendToSorted ==
    ASSUME NEW S, NEW s \in Seq(S), Sorted(s), NEW e \in S, \A n \in Range(s) : n < e
    PROVE  /\ Append(s, e) \in Seq(S) /\ Sorted(Append(s, e))
           /\ Range(Append(s, e)) = Range(s) \cup {e}
<1>1. \A i \in 1 .. Len(s) : s[i] < e
    BY RangeEquality
<1> QED BY <1>1, SortedAppend, RangeOfAppend

LEMMA ConcatOfSorted ==
    ASSUME NEW S, NEW s \in Seq(S), NEW t \in Seq(S), Sorted(s), Sorted(t), Before(s, t)
    PROVE  /\ s \o t \in Seq(S) /\ Sorted(s \o t)
           /\ Range(s \o t) = Range(s) \cup Range(t)
<1>1. /\ s \o t \in Seq(S) /\ Len(s \o t) = Len(s) + Len(t)
      /\ \A i \in 1 .. Len(s) + Len(t) :
            (s \o t)[i] = IF i <= Len(s) THEN s[i] ELSE t[i - Len(s)]
    BY ConcatProperties
<1>2. Len(s) \in Nat /\ Len(t) \in Nat
    OBVIOUS
<1>3. \A i \in 1 .. Len(s), j \in 1 .. Len(t) : s[i] < t[j]
    BY RangeEquality DEF Before
<1>4. Sorted(s \o t)
  <2> DEFINE u == s \o t
  <2> HIDE DEF u
  <2> SUFFICES ASSUME NEW i \in 1 .. Len(s) + Len(t), NEW j \in 1 .. Len(s) + Len(t), i < j
               PROVE  u[i] < u[j]
      BY <1>1 DEF Sorted, u
  <2>1. /\ u[i] = IF i <= Len(s) THEN s[i] ELSE t[i - Len(s)]
        /\ u[j] = IF j <= Len(s) THEN s[j] ELSE t[j - Len(s)]
      BY <1>1 DEF u
  <2>2. CASE j <= Len(s)
    <3>1. i \in 1 .. Len(s) /\ j \in 1 .. Len(s) /\ i <= Len(s)
        BY <2>2, <1>2
    <3> QED BY <3>1, <2>1, <2>2 DEF Sorted
  <2>3. CASE i <= Len(s) /\ ~(j <= Len(s))
    <3>1. i \in 1 .. Len(s) /\ j - Len(s) \in 1 .. Len(t)
        BY <2>3, <1>2
    <3> QED BY <3>1, <2>1, <2>3, <1>3
  <2>4. CASE ~(i <= Len(s))
    <3>1. /\ i - Len(s) \in 1 .. Len(t) /\ j - Len(s) \in 1 .. Len(t)
          /\ i - Len(s) < j - Len(s) /\ ~(j <= Len(s))
        BY <2>4, <1>2
    <3> QED BY <3>1, <2>1, <2>4 DEF Sorted
  <2> QED BY <2>2, <2>3, <2>4
<1> QED BY <1>1, <1>4, RangeConcatenation

LEMMA NothingInEmpty == <<>> \in Seq(Nat) /\ Sorted(<<>>) /\ Range(<<>>) = {}
BY DEF Sorted, Range

Conns == [state : {"nil", "up", "broken"}, buf : Seq(Nat), due : Seq(BOOLEAN)]

\* The server's list, then the buffer of the connection, then the queue.
RedisOrder ==
    /\ redisQueue \in Seq(Nat) /\ stored \in Seq(Nat) /\ Conn \in Conns
    /\ Sorted(stored) /\ Sorted(Conn.buf) /\ Sorted(redisQueue)
    /\ Before(stored, Conn.buf) /\ Before(stored, redisQueue) /\ Before(Conn.buf, redisQueue)
    /\ flush_immediatelly => Conn.buf = <<>>

InRedis == Range(stored) \cup Range(Conn.buf) \cup Range(redisQueue)

RedisInv == RedisOrder /\ \A n \in InRedis : Past(n, "redis")

LEMMA NewConns ==
    /\ NilConn \in Conns /\ NilConn.buf = <<>>
    /\ NewConn \in Conns /\ NewConn.buf = <<>>
<1>1. <<>> \in Seq(Nat) /\ <<>> \in Seq(BOOLEAN)
    OBVIOUS
<1>2. NilConn \in Conns /\ NilConn.buf = <<>>
    BY <1>1 DEF NilConn, Conns
<1>3. NewConn = [state |-> "up", buf |-> <<>>, due |-> <<>>]
    BY DEF NilConn, NewConn
<1> QED BY <1>1, <1>2, <1>3 DEF Conns

\* The list and the queue stay, and the buffer too unless the connection is replaced.
LEMMA BufferStaysOrGoes ==
    ASSUME RedisOrder, UNCHANGED <<flush_immediatelly, redisQueue, stored>>,
           Conn' \in Conns, Conn'.buf \in {Conn.buf, <<>>}
    PROVE  RedisOrder' /\ InRedis' \subseteq InRedis
<1>1. CASE Conn'.buf = Conn.buf
    BY <1>1 DEF RedisOrder, InRedis, Before
<1>2. CASE Conn'.buf = <<>>
    BY <1>2, NothingInEmpty DEF RedisOrder, InRedis, Before
<1> QED BY <1>1, <1>2

\* The oldest event is taken from the queue and goes nowhere.
LEMMA HeadIsDropped ==
    ASSUME RedisOrder, UNCHANGED <<flush_immediatelly, stored>>,
           Conn' \in Conns, Conn'.buf = Conn.buf,
           redisQueue # <<>>, redisQueue' = Tail(redisQueue)
    PROVE  RedisOrder' /\ InRedis' \subseteq InRedis
<1>1. /\ redisQueue' \in Seq(Nat) /\ Sorted(redisQueue')
      /\ Range(redisQueue') \subseteq Range(redisQueue)
    BY TailOfSorted DEF RedisOrder
<1> QED BY <1>1 DEF RedisOrder, InRedis, Before

\* The oldest event of the queue moves on to the buffer.
LEMMA SendBufferKeepsRedis ==
    ASSUME RedisOrder, SendBuffer
    PROVE  RedisOrder' /\ InRedis' \subseteq InRedis
<1> DEFINE e == Head(redisQueue)
<1>0. /\ redisQueue \in Seq(Nat) /\ Sorted(redisQueue) /\ Conn \in Conns
      /\ Conn.buf \in Seq(Nat) /\ Sorted(Conn.buf)
    BY DEF RedisOrder, Conns
<1>1. /\ redisQueue # <<>> /\ redisQueue' = Tail(redisQueue) /\ stored' = stored
      /\ Conn' = [Conn EXCEPT !.buf = Append(@, e)]
      /\ ~flush_immediatelly /\ flush_immediatelly' = flush_immediatelly
    BY DEF SendBuffer, redisServer
<1>2. /\ redisQueue' \in Seq(Nat) /\ Sorted(redisQueue') /\ e \in Nat /\ e \in Range(redisQueue)
      /\ Range(redisQueue') \subseteq Range(redisQueue)
      /\ \A n \in Range(redisQueue') : e < n
    BY <1>0, <1>1, TailOfSorted
<1> HIDE DEF e
<1>3. /\ Append(Conn.buf, e) \in Seq(Nat) /\ Sorted(Append(Conn.buf, e))
      /\ Range(Append(Conn.buf, e)) = Range(Conn.buf) \cup {e}
  <2>1. \A n \in Range(Conn.buf) : n < e
      BY <1>2 DEF RedisOrder, Before
  <2>2. Conn.buf \in Seq(Nat) /\ Sorted(Conn.buf) /\ e \in Nat
      BY <1>0, <1>2
  <2> QED BY <2>1, <2>2, AppendToSorted
<1>4. Conn' \in Conns /\ Conn'.buf = Append(Conn.buf, e)
    BY <1>0, <1>1, <1>3 DEF Conns
<1>5. Before(stored', Conn'.buf) /\ Before(Conn'.buf, redisQueue') /\ Before(stored', redisQueue')
    BY <1>1, <1>2, <1>3, <1>4 DEF RedisOrder, Before
<1>6. RedisOrder'
    BY <1>1, <1>2, <1>3, <1>4, <1>5 DEF RedisOrder
<1>7. InRedis' \subseteq InRedis
    BY <1>1, <1>2, <1>3, <1>4 DEF InRedis
<1> QED BY <1>6, <1>7

\* Without a flush interval the event goes to the server at once.
LEMMA DoKeepsRedis ==
    ASSUME RedisOrder, flush_immediatelly, flush_immediatelly' = flush_immediatelly,
           redisQueue # <<>>, redisQueue' = Tail(redisQueue),
           stored' = Append(stored, Head(redisQueue)), Conn' \in Conns, Conn'.buf = Conn.buf
    PROVE  RedisOrder' /\ InRedis' \subseteq InRedis
<1> DEFINE e == Head(redisQueue)
<1>0. redisQueue \in Seq(Nat) /\ Sorted(redisQueue) /\ stored \in Seq(Nat) /\ Sorted(stored)
    BY DEF RedisOrder
<1>1. /\ redisQueue # <<>> /\ redisQueue' = Tail(redisQueue)
      /\ Conn' \in Conns /\ Conn'.buf = Conn.buf
      /\ stored' = Append(stored, e)
      /\ flush_immediatelly /\ flush_immediatelly' = flush_immediatelly
    OBVIOUS
<1>2. /\ redisQueue' \in Seq(Nat) /\ Sorted(redisQueue') /\ e \in Nat /\ e \in Range(redisQueue)
      /\ Range(redisQueue') \subseteq Range(redisQueue)
      /\ \A n \in Range(redisQueue') : e < n
    BY <1>0, <1>1, TailOfSorted
<1> HIDE DEF e
<1>3. /\ stored' \in Seq(Nat) /\ Sorted(stored') /\ Range(stored') = Range(stored) \cup {e}
  <2>1. \A n \in Range(stored) : n < e
      BY <1>2 DEF RedisOrder, Before
  <2>2. stored \in Seq(Nat) /\ Sorted(stored) /\ e \in Nat
      BY <1>0, <1>2
  <2>3. /\ Append(stored, e) \in Seq(Nat) /\ Sorted(Append(stored, e))
        /\ Range(Append(stored, e)) = Range(stored) \cup {e}
      BY <2>1, <2>2, AppendToSorted
  <2> QED BY <2>3, <1>1
<1>4. Conn.buf = <<>> /\ Range(Conn.buf) = {}
    BY <1>1, NothingInEmpty DEF RedisOrder
<1>5. Before(stored', Conn'.buf) /\ Before(Conn'.buf, redisQueue') /\ Before(stored', redisQueue')
    BY <1>1, <1>2, <1>3, <1>4 DEF RedisOrder, Before
<1>6. RedisOrder'
    BY <1>1, <1>2, <1>3, <1>5 DEF RedisOrder
<1>7. InRedis' \subseteq InRedis
    BY <1>1, <1>2, <1>3 DEF InRedis
<1> QED BY <1>6, <1>7

\* What the server accepts of a list keeps its order.
LEMMA AcceptedOfSorted ==
    ASSUME NEW b \in Seq(Nat), Sorted(b), NEW c \in Accepted(b)
    PROVE  c \in Seq(Nat) /\ Sorted(c) /\ Range(c) \subseteq Range(b)
<1>0. Len(b) \in Nat
    OBVIOUS
<1>1. PICK n \in 0 .. Len(b) :
          \E at \in [1 .. n -> 1 .. Len(b)] :
              /\ \A i, j \in 1 .. n : i < j => at[i] < at[j]
              /\ c = [i \in 1 .. n |-> b[at[i]]]
    BY DEF Accepted
<1>2. PICK at \in [1 .. n -> 1 .. Len(b)] :
          /\ \A i, j \in 1 .. n : i < j => at[i] < at[j]
          /\ c = [i \in 1 .. n |-> b[at[i]]]
    BY <1>1
<1>3. \A i \in 1 .. n : c[i] = b[at[i]] /\ at[i] \in 1 .. Len(b) /\ b[at[i]] \in Nat
    BY <1>2, <1>0
<1>4. n \in Nat
    BY <1>0
<1>5. c \in Seq(Nat) /\ Len(c) = n
  <2>1. c \in [1 .. n -> Nat]
      BY <1>2, <1>3
  <2> QED BY <2>1, <1>4
<1>6. Sorted(c)
    BY <1>2, <1>3, <1>5 DEF Sorted
<1>7. Range(c) = {c[i] : i \in 1 .. n} /\ Range(b) = {b[i] : i \in 1 .. Len(b)}
    BY <1>5, RangeEquality
<1> QED BY <1>3, <1>5, <1>6, <1>7

\* Of the buffer the server stores what it accepts.
LEMMA FlushKeepsRedis ==
    ASSUME RedisOrder, Flush
    PROVE  RedisOrder' /\ InRedis' \subseteq InRedis
<1>0. /\ stored \in Seq(Nat) /\ Sorted(stored) /\ Conn \in Conns
      /\ Conn.buf \in Seq(Nat) /\ Sorted(Conn.buf) /\ Before(stored, Conn.buf)
    BY DEF RedisOrder, Conns
<1>1. redisQueue' = redisQueue /\ flush_immediatelly' = flush_immediatelly
    BY DEF Flush
<1>2. ASSUME NEW cmds \in Accepted(Conn.buf),
             stored' = stored \o cmds,
             Conn' = [Conn EXCEPT !.buf = <<>>, !.due = @ \o
                           [i \in 1 .. Len(Conn.buf) |-> Conn.buf[i] \in Range(cmds)]]
      PROVE  RedisOrder' /\ InRedis' \subseteq InRedis
  <2>0. cmds \in Seq(Nat) /\ Sorted(cmds) /\ Range(cmds) \subseteq Range(Conn.buf)
      BY <1>0, AcceptedOfSorted
  <2>1. /\ stored' \in Seq(Nat) /\ Sorted(stored')
        /\ Range(stored') = Range(stored) \cup Range(cmds)
    <3>1. Before(stored, cmds)
        BY <1>0, <2>0 DEF Before
    <3>2. /\ stored \o cmds \in Seq(Nat) /\ Sorted(stored \o cmds)
          /\ Range(stored \o cmds) = Range(stored) \cup Range(cmds)
        BY <1>0, <2>0, <3>1, ConcatOfSorted
    <3> QED BY <1>2, <3>2
  <2>2. /\ Conn.due \o [i \in 1 .. Len(Conn.buf) |-> Conn.buf[i] \in Range(cmds)] \in Seq(BOOLEAN)
        /\ <<>> \in Seq(Nat)
    <3>1. Len(Conn.buf) \in Nat /\ Conn.due \in Seq(BOOLEAN)
        BY <1>0 DEF Conns
    <3>2. [i \in 1 .. Len(Conn.buf) |-> Conn.buf[i] \in Range(cmds)] \in Seq(BOOLEAN)
        BY <3>1
    <3> QED BY <3>1, <3>2, ConcatProperties
  <2>3. Conn' \in Conns /\ Conn'.buf = <<>>
      BY <1>0, <1>2, <2>2 DEF Conns
  <2>4. Range(Conn'.buf) = {}
      BY <2>3, NothingInEmpty
  <2>5. RedisOrder'
    <3>1. Before(stored', redisQueue')
        BY <2>0, <2>1, <1>1 DEF RedisOrder, Before
    <3>2. Before(stored', Conn'.buf) /\ Before(Conn'.buf, redisQueue')
        BY <2>4 DEF Before
    <3> QED BY <3>1, <3>2, <2>1, <2>3, <1>1, NothingInEmpty DEF RedisOrder
  <2> QED BY <2>0, <2>1, <2>4, <2>5, <1>1 DEF InRedis
<1>3. CASE stored' = stored /\ Conn' = Conn
    BY <1>1, <1>3, <1>0, BufferStaysOrGoes
<1> QED BY <1>2, <1>3 DEF Flush

LEMMA BrokenConn ==
    ASSUME Conn \in Conns
    PROVE  LET broken == [Conn EXCEPT !.state = "broken"]
           IN  broken \in Conns /\ broken.buf = Conn.buf
BY DEF Conns

LEMMA DoStepsKeepRedis ==
    ASSUME RedisOrder, Do \/ DoRefused
    PROVE  RedisOrder' /\ InRedis' \subseteq InRedis
<1>1. /\ flush_immediatelly /\ flush_immediatelly' = flush_immediatelly
      /\ redisQueue # <<>> /\ redisQueue' = Tail(redisQueue)
    BY DEF Do, DoRefused
<1>2. Conn' \in Conns /\ Conn'.buf = Conn.buf
  <2>1. Conn' = Conn \/ Conn' = [Conn EXCEPT !.state = "broken"]
      BY DEF Do, DoRefused
  <2> QED BY <2>1, BrokenConn DEF RedisOrder
<1>3. stored' = stored \/ stored' = Append(stored, Head(redisQueue))
    BY DEF Do, DoRefused
<1> QED BY <1>1, <1>2, <1>3, DoKeepsRedis, HeadIsDropped

LEMMA SendStepKeepsRedis ==
    ASSUME RedisOrder, SendMessagesStep
    PROVE  RedisOrder' /\ InRedis' \subseteq InRedis
<1>0. Conn \in Conns
    BY DEF RedisOrder
<1>1. CASE SendDrop \/ SendFails
    BY <1>0, <1>1, HeadIsDropped DEF SendDrop, SendFails, redisServer
<1>2. CASE Receive \/ ReceiveFails \/ NilPanic
  <2>1. UNCHANGED <<flush_immediatelly, redisQueue, stored>>
      BY <1>2 DEF Receive, ReceiveFails, NilPanic, redisServer
  <2>2. \/ Conn' = Conn \/ Conn' = [Conn EXCEPT !.state = "broken"]
        \/ Conn.due # <<>> /\ Conn' = [Conn EXCEPT !.due = Tail(@)]
      BY <1>2 DEF Receive, ReceiveFails, ReceiveError, NilPanic
  <2>3. Conn' \in Conns /\ Conn'.buf = Conn.buf
    <3>1. CASE Conn.due # <<>> /\ Conn' = [Conn EXCEPT !.due = Tail(@)]
      <4>1. Tail(Conn.due) \in Seq(BOOLEAN)
          BY <1>0, <3>1, HeadTailProperties DEF Conns
      <4> QED BY <1>0, <3>1, <4>1 DEF Conns
    <3> QED BY <1>0, <2>2, <3>1, BrokenConn
  <2> QED BY <2>1, <2>3, BufferStaysOrGoes
<1> QED BY <1>1, <1>2, SendBufferKeepsRedis, DoStepsKeepRedis, FlushKeepsRedis DEF SendMessagesStep

LEMMA ConnectKeepsRedis ==
    ASSUME RedisOrder, ReconnectStep \/ ServerDown \/ ServerBack \/ RedisRestart
    PROVE  RedisOrder' /\ InRedis' \subseteq InRedis
<1>0. Conn \in Conns
    BY DEF RedisOrder
<1>1. CASE ReconnectStep \/ ServerDown \/ ServerBack
  <2>1. UNCHANGED <<flush_immediatelly, redisQueue, stored>>
      BY <1>1 DEF ReconnectStep, ConnectFails, ConnectDials, ConnectDone, ServerDown, ServerBack,
                  redisServer
  <2>2. [Conn EXCEPT !.state = "broken"] \in Conns /\ [Conn EXCEPT !.state = "broken"].buf = Conn.buf
      BY <1>0 DEF Conns
  <2>3. Conn' \in {NilConn, NewConn, Conn, [Conn EXCEPT !.state = "broken"]}
      BY <1>1 DEF ReconnectStep, ConnectFails, ConnectDials, ConnectDone, ServerDown, ServerBack
  <2> QED BY <2>1, <2>2, <2>3, <1>0, NewConns, BufferStaysOrGoes
<1>2. CASE RedisRestart
  <2>1. /\ redisQueue' = <<>> /\ Conn' \in Conns /\ Conn'.buf = <<>>
        /\ stored' = stored /\ flush_immediatelly' = flush_immediatelly
      BY <1>2, NewConns DEF RedisRestart, redisServer
  <2> QED BY <2>1, NothingInEmpty DEF RedisOrder, InRedis, Before
<1> QED BY <1>1, <1>2

\* PublishEvent adds the newest event of all to the queue.
LEMMA PublishKeepsRedis ==
    ASSUME RedisOrder, NEW e \in Nat, redisPublishEvent(e), \A n \in InRedis : n < e
    PROVE  RedisOrder' /\ InRedis' \subseteq InRedis \cup {e}
<1>1. /\ redisQueue' = Append(redisQueue, e)
      /\ UNCHANGED <<flush_immediatelly, Conn, stored>>
    BY DEF redisPublishEvent, redisServer
<1>2. /\ redisQueue' \in Seq(Nat) /\ Sorted(redisQueue')
      /\ Range(redisQueue') = Range(redisQueue) \cup {e}
    BY <1>1, AppendToSorted DEF RedisOrder, InRedis
<1> QED BY <1>1, <1>2 DEF RedisOrder, InRedis, Before

LEMMA RedisSteps ==
    ASSUME [Next]_vars
    PROVE  \/ SendMessagesStep
           \/ ReconnectStep \/ ServerDown \/ ServerBack \/ RedisRestart
           \/ /\ publishEventOutput /\ Output[publishing.next] = "redis"
              /\ redisPublishEvent(publishing.id)
           \/ UNCHANGED redisVars
BY DEF Next, Running, FilterStep, PublisherStep, publishEventBegin, publishEventOutput,
       publishEventEnd, FileStep, RedisSendStep, RedisReconnectStep, EsStep, EsAnswerStep,
       RedisServer, CrashRestart, vars

LEMMA RedisStepInv == PipelineInv /\ RedisInv /\ [Next]_vars => RedisInv'
<1> SUFFICES ASSUME PipelineInv, RedisInv, [Next]_vars PROVE RedisInv'
    OBVIOUS
<1>1. "redis" \in OutputNames /\ \A n \in Int : Past(n, "redis") => Past(n, "redis")'
    BY PipelineStep DEF OutputNames
<1>2. RedisOrder /\ InRedis \subseteq Int
  <2>1. stored \in Seq(Nat) /\ Conn.buf \in Seq(Nat) /\ redisQueue \in Seq(Nat)
      BY DEF RedisInv, RedisOrder, Conns
  <2>2. Range(stored) \subseteq Nat /\ Range(Conn.buf) \subseteq Nat /\ Range(redisQueue) \subseteq Nat
      BY <2>1, RangeOfSeq
  <2> QED BY <2>2 DEF RedisInv, InRedis
<1>3. CASE RedisOrder' /\ InRedis' \subseteq InRedis
    BY <1>1, <1>2, <1>3 DEF RedisInv
<1>4. CASE /\ publishEventOutput /\ Output[publishing.next] = "redis"
           /\ redisPublishEvent(publishing.id)
  <2>1. PICK e : e = publishing.id
      OBVIOUS
  <2>2. e \in Nat /\ Past(e, "redis")' /\ \A n \in Int : Past(n, "redis") => n < e
      BY <1>1, <1>4, <2>1, OutputIsGivenNewest
  <2>3. redisPublishEvent(e)
      BY <1>4, <2>1
  <2>4. \A n \in InRedis : n < e
      BY <2>2, <1>2 DEF RedisInv
  <2>5. RedisOrder' /\ InRedis' \subseteq InRedis \cup {e}
      BY <1>2, <2>2, <2>3, <2>4, PublishKeepsRedis
  <2> QED BY <1>1, <1>2, <2>2, <2>5 DEF RedisInv
<1>5. CASE UNCHANGED redisVars
  <2>1. RedisOrder' /\ InRedis' = InRedis
      BY <1>2, <1>5 DEF redisVars, RedisOrder, InRedis, Before
  <2> QED BY <2>1, <1>3
<1> QED BY <1>2, <1>3, <1>4, <1>5, RedisSteps, SendStepKeepsRedis, ConnectKeepsRedis

LEMMA RedisInvInit == Init => RedisInv
<1> SUFFICES ASSUME Init PROVE RedisInv
    OBVIOUS
<1>1. redisQueue = <<>> /\ Conn = NewConn /\ stored = <<>>
    BY DEF Init, RedisInit
<1>2. Conn \in Conns /\ Conn.buf = <<>>
    BY <1>1, NewConns
<1> QED BY <1>1, <1>2, NothingInEmpty DEF RedisInv, RedisOrder, InRedis, Before

\* The server's list has the events in their order and none twice, over any number of
\* connections, outages, Reconnect goroutines and restarts.
THEOREM RedisKeepsOrder == Spec => []StoredInOrder
<1>1. RedisInv => StoredInOrder
    BY DEF RedisInv, RedisOrder, StoredInOrder, Sorted
<1>2. PipelineInv /\ [Next]_vars => PipelineInv'
    BY PipelineStep
<1> QED BY <1>1, <1>2, PipelineInit, RedisInvInit, RedisStepInv, PTL DEF Spec

-------------------------------------------------------------------------------
(* The elasticsearch output.                                               *)

EsItems == [header : BOOLEAN, id : Nat]

\* Headers and documents take turns, and a document follows its own header.
Paired(s) ==
    \A i \in 1 .. Len(s) :
        /\ s[i].header <=> i % 2 = 1
        /\ i % 2 = 0 => s[i - 1].id = s[i].id

\* The events whose documents are in s, which has them in their order.
Docs(s) == {s[i].id : i \in {k \in 1 .. Len(s) : ~s[k].header}}
Rising(s) == \A i, j \in 1 .. Len(s) : i < j /\ ~s[i].header /\ ~s[j].header => s[i].id < s[j].id

Older(A, B) == \A m \in A, n \in B : m < n

\* The events of the requests that have ended or are under way.
Shipped == Range(indexed) \cup Range(indexing) \cup UNION {Docs(b) : b \in bulks}
InEs == Shipped \cup Docs(bulkChannel) \cup Docs(pushing) \cup Range(esQueue)

EsTypes ==
    /\ FlushInterval \in Nat /\ BulkMaxSize \in Nat
    /\ esQueue \in Seq(Nat) /\ indexed \in Seq(Nat) /\ indexing \in Seq(Nat)
    /\ bulkChannel \in Seq(EsItems) /\ pushing \in Seq(EsItems) /\ bulks \subseteq Seq(EsItems)

\* The channel lacks the document that is still to be pushed, if any.
PushInv ==
    /\ Len(bulkChannel) <= BulkMaxSize
    /\ Paired(bulkChannel) /\ Rising(bulkChannel)
    /\ \/ Len(bulkChannel) % 2 = 0 /\ pushing = <<>>
       \/ Len(bulkChannel) % 2 = 0 /\ \E e \in Nat : pushing = Items(e)
       \/ /\ Len(bulkChannel) % 2 = 1
          /\ pushing = <<[header |-> FALSE, id |-> bulkChannel[Len(bulkChannel)].id]>>
    /\ FlushInterval = 0 => bulkChannel = <<>> /\ pushing = <<>>

BulkInv ==
    /\ \A b \in bulks : Len(b) % 2 = 0 /\ Paired(b) /\ Rising(b)
    /\ \A b \in bulks : Docs(b) \cap Range(indexed) = {}
    /\ \A b, c \in bulks : b # c => Docs(b) \cap Docs(c) = {}
    /\ \A i, j \in 1 .. Len(indexed) : i # j => indexed[i] # indexed[j]
    /\ Len(indexing) <= 1 /\ Range(indexing) \cap Range(indexed) = {}
    /\ \A b \in bulks : Docs(b) \cap Range(indexing) = {}

EsOrder ==
    /\ Sorted(esQueue)
    /\ Older(Shipped, Docs(bulkChannel) \cup Docs(pushing) \cup Range(esQueue))
    /\ Older(Docs(bulkChannel), Docs(pushing) \cup Range(esQueue))
    /\ Older(Docs(pushing), Range(esQueue))

EsState == EsTypes /\ PushInv /\ BulkInv /\ EsOrder
EsInv == EsState /\ \A n \in InEs : Past(n, "elasticsearch")
LEMMA EsSequences ==
    /\ <<>> \in Seq(EsItems) /\ Docs(<<>>) = {} /\ Paired(<<>>) /\ Rising(<<>>)
    /\ Len(<<>>) = 0 /\ 0 % 2 = 0
BY DEF Docs, Paired, Rising

LEMMA DocsOfItems ==
    ASSUME NEW e \in Nat
    PROVE  /\ Items(e) \in Seq(EsItems) /\ Docs(Items(e)) = {e} /\ Items(e) # <<>>
           /\ Head(Items(e)) = [header |-> TRUE, id |-> e]
           /\ Tail(Items(e)) = <<[header |-> FALSE, id |-> e]>>
<1> DEFINE h == [header |-> TRUE, id |-> e]
           d == [header |-> FALSE, id |-> e]
<1>1. h \in EsItems /\ d \in EsItems /\ h.header = TRUE /\ d.header = FALSE /\ d.id = e
    BY DEF EsItems
<1> HIDE DEF h, d
<1>2. Items(e) = <<h, d>>
    BY DEF Items, h, d
<1>3. /\ <<h, d>> \in Seq(EsItems) /\ Len(<<h, d>>) = 2 /\ <<h, d>> # <<>>
      /\ <<h, d>>[1] = h /\ <<h, d>>[2] = d
      /\ Head(<<h, d>>) = h /\ Tail(<<h, d>>) = <<d>>
    BY <1>1
<1>4. {k \in 1 .. 2 : ~<<h, d>>[k].header} = {2}
    BY <1>1, <1>3
<1>5. Docs(<<h, d>>) = {e}
    BY <1>1, <1>3, <1>4 DEF Docs
<1> QED BY <1>2, <1>3, <1>5 DEF h, d

LEMMA DocsOfDoc ==
    ASSUME NEW d \in EsItems, d.header = FALSE
    PROVE  /\ <<d>> \in Seq(EsItems) /\ Docs(<<d>>) = {d.id} /\ <<d>> # <<>>
           /\ Head(<<d>>) = d /\ Tail(<<d>>) = <<>>
<1>1. /\ <<d>> \in Seq(EsItems) /\ Len(<<d>>) = 1 /\ <<d>>[1] = d /\ <<d>> # <<>>
      /\ Head(<<d>>) = d /\ Tail(<<d>>) = <<>>
    OBVIOUS
<1>2. {k \in 1 .. 1 : ~<<d>>[k].header} = {1}
    BY <1>1
<1> QED BY <1>1, <1>2 DEF Docs

LEMMA DocsAreNat ==
    ASSUME NEW s \in Seq(EsItems) PROVE Docs(s) \subseteq Nat
<1> SUFFICES ASSUME NEW i \in 1 .. Len(s) PROVE s[i].id \in Nat
    BY DEF Docs
<1>1. s[i] \in EsItems
    OBVIOUS
<1> QED BY <1>1 DEF EsItems

LEMMA DocsOfAppend ==
    ASSUME NEW s \in Seq(EsItems), NEW x \in EsItems
    PROVE  Docs(Append(s, x)) = Docs(s) \cup (IF x.header THEN {} ELSE {x.id})
<1>1. /\ Len(Append(s, x)) = Len(s) + 1
      /\ \A i \in 1 .. Len(s) : Append(s, x)[i] = s[i]
      /\ Append(s, x)[Len(s) + 1] = x
      /\ \A i : i \in 1 .. Len(s) + 1 <=> i \in 1 .. Len(s) \/ i = Len(s) + 1
    BY AppendElements
<1> QED BY <1>1 DEF Docs

LEMMA AppendToPairs ==
    ASSUME NEW s \in Seq(EsItems), NEW x \in EsItems, Paired(s), Rising(s),
           x.header <=> (Len(s) + 1) % 2 = 1,
           (Len(s) + 1) % 2 = 0 => s[Len(s)].id = x.id,
           x.header \/ \A n \in Docs(s) : n < x.id
    PROVE  Paired(Append(s, x)) /\ Rising(Append(s, x))
<1>1. /\ Len(Append(s, x)) = Len(s) + 1 /\ Len(s) \in Nat
      /\ \A i \in 1 .. Len(s) : Append(s, x)[i] = s[i]
      /\ Append(s, x)[Len(s) + 1] = x
      /\ \A i : i \in 1 .. Len(s) + 1 <=> i \in 1 .. Len(s) \/ i = Len(s) + 1
    BY AppendElements
<1> DEFINE t == Append(s, x)
<1> HIDE DEF t
<1>2. Paired(t)
  <2> SUFFICES ASSUME NEW i \in 1 .. Len(s) + 1
               PROVE  (t[i].header <=> i % 2 = 1) /\ (i % 2 = 0 => t[i - 1].id = t[i].id)
      BY <1>1 DEF Paired, t
  <2>1. CASE i \in 1 .. Len(s)
    <3>1. (s[i].header <=> i % 2 = 1) /\ (i % 2 = 0 => s[i - 1].id = s[i].id)
        BY <2>1 DEF Paired
    <3>2. i % 2 = 0 => i - 1 \in 1 .. Len(s)
        BY <2>1, <1>1
    <3>3. t[i] = s[i] /\ (i % 2 = 0 => t[i - 1] = s[i - 1])
        BY <2>1, <3>2, <1>1 DEF t
    <3> QED BY <3>1, <3>3
  <2>2. CASE i = Len(s) + 1
    <3>1. i % 2 = 0 => i - 1 \in 1 .. Len(s) /\ i - 1 = Len(s)
        BY <2>2, <1>1
    <3>2. t[i] = x /\ (i % 2 = 0 => t[i - 1] = s[Len(s)])
        BY <2>2, <3>1, <1>1 DEF t
    <3> QED BY <2>2, <3>2
  <2> QED BY <2>1, <2>2, <1>1
<1>3. Rising(t)
  <2> SUFFICES ASSUME NEW i \in 1 .. Len(s) + 1, NEW j \in 1 .. Len(s) + 1, i < j,
                      ~t[i].header, ~t[j].header
               PROVE  t[i].id < t[j].id
      BY <1>1 DEF Rising, t
  <2>1. i \in 1 .. Len(s)
      BY <1>1
  <2>2. t[i] = s[i] /\ ~s[i].header
      BY <2>1, <1>1 DEF t
  <2>3. CASE j \in 1 .. Len(s)
    <3>1. t[j] = s[j] /\ ~s[j].header
        BY <2>3, <1>1 DEF t
    <3> QED BY <2>1, <2>2, <2>3, <3>1 DEF Rising
  <2>4. CASE j = Len(s) + 1
    <3>1. t[j] = x /\ s[i].id \in Docs(s)
        BY <2>1, <2>2, <2>4, <1>1 DEF t, Docs
    <3> QED BY <2>2, <3>1
  <2> QED BY <2>3, <2>4, <1>1
<1> QED BY <1>2, <1>3 DEF t
\* The events of a request of whole pairs are those of its documents, each once.
LEMMA EventsOfPairs ==
    ASSUME NEW b \in Seq(EsItems), Len(b) % 2 = 0, Paired(b), Rising(b)
    PROVE  /\ Events(b) \in Seq(Nat) /\ Range(Events(b)) \subseteq Docs(b)
           /\ \A i, j \in 1 .. Len(Events(b)) : i # j => Events(b)[i] # Events(b)[j]
<1> DEFINE n == Len(b) \div 2
<1>0. Len(b) \in Nat /\ n \in Nat
    OBVIOUS
<1>1. \A i \in 1 .. n : 2 * i \in 1 .. Len(b) /\ (2 * i) % 2 = 0
    BY <1>0
<1> HIDE DEF n
<1>2. \A i \in 1 .. n : b[2 * i] \in EsItems /\ ~b[2 * i].header
  <2> SUFFICES ASSUME NEW i \in 1 .. n PROVE b[2 * i] \in EsItems /\ ~b[2 * i].header
      OBVIOUS
  <2>1. PICK k : k = 2 * i
      OBVIOUS
  <2>2. k \in 1 .. Len(b) /\ k % 2 = 0
      BY <2>1, <1>1
  <2>3. b[k] \in EsItems /\ ~b[k].header
      BY <2>2 DEF Paired
  <2> QED BY <2>1, <2>3
<1>3. \A i \in 1 .. n : b[2 * i].id \in Nat /\ b[2 * i].id \in Docs(b)
    BY <1>1, <1>2 DEF EsItems, Docs
<1>4. Events(b) = [i \in 1 .. n |-> b[2 * i].id]
    BY DEF Events, n
<1>5. /\ Events(b) \in Seq(Nat) /\ Len(Events(b)) = n
      /\ \A i \in 1 .. n : Events(b)[i] = b[2 * i].id
  <2>1. Events(b) \in [1 .. n -> Nat]
      BY <1>3, <1>4
  <2> QED BY <2>1, <1>0, <1>4
<1>6. Range(Events(b)) \subseteq Docs(b)
  <2>1. Range(Events(b)) = {Events(b)[i] : i \in 1 .. n}
      BY <1>5, RangeEquality
  <2> QED BY <2>1, <1>3, <1>5
<1>7. ASSUME NEW i \in 1 .. n, NEW j \in 1 .. n, i < j PROVE Events(b)[i] < Events(b)[j]
  <2>1. PICK k, m : k = 2 * i /\ m = 2 * j
      OBVIOUS
  <2>2. k \in 1 .. Len(b) /\ m \in 1 .. Len(b) /\ k < m /\ ~b[k].header /\ ~b[m].header
      BY <2>1, <1>0, <1>1, <1>2, <1>7
  <2>3. b[k].id < b[m].id
      BY <2>2 DEF Rising
  <2> QED BY <2>1, <2>3, <1>5
<1>8. ASSUME NEW i \in 1 .. n, NEW j \in 1 .. n, i # j PROVE Events(b)[i] # Events(b)[j]
  <2>1. i < j \/ j < i
      BY <1>0, <1>8
  <2>2. Events(b)[i] \in Nat /\ Events(b)[j] \in Nat
      BY <1>5
  <2> QED BY <2>1, <2>2, <1>7
<1> QED BY <1>5, <1>6, <1>8

LEMMA ConcatOfDistinct ==
    ASSUME NEW s \in Seq(Nat), NEW t \in Seq(Nat), Range(s) \cap Range(t) = {},
           \A i, j \in 1 .. Len(s) : i # j => s[i] # s[j],
           \A i, j \in 1 .. Len(t) : i # j => t[i] # t[j]
    PROVE  /\ s \o t \in Seq(Nat) /\ Range(s \o t) = Range(s) \cup Range(t)
           /\ \A i, j \in 1 .. Len(s \o t) : i # j => (s \o t)[i] # (s \o t)[j]
<1> DEFINE u == s \o t
<1>1. /\ u \in Seq(Nat) /\ Len(u) = Len(s) + Len(t)
      /\ \A i \in 1 .. Len(s) + Len(t) : u[i] = IF i <= Len(s) THEN s[i] ELSE t[i - Len(s)]
    BY ConcatProperties
<1>2. Len(s) \in Nat /\ Len(t) \in Nat
    OBVIOUS
<1>3. \A i \in 1 .. Len(s), j \in 1 .. Len(t) : s[i] # t[j]
  <2>1. Range(s) = {s[i] : i \in 1 .. Len(s)} /\ Range(t) = {t[i] : i \in 1 .. Len(t)}
      BY RangeEquality
  <2> QED BY <2>1
<1>4. Range(u) = Range(s) \cup Range(t)
    BY RangeConcatenation
<1> HIDE DEF u
<1>5. \A i, j \in 1 .. Len(s) + Len(t) : i # j => u[i] # u[j]
  <2> SUFFICES ASSUME NEW i \in 1 .. Len(s) + Len(t), NEW j \in 1 .. Len(s) + Len(t), i # j
               PROVE  u[i] # u[j]
      OBVIOUS
  <2>1. ASSUME NEW k \in 1 .. Len(s) + Len(t)
        PROVE  \/ k \in 1 .. Len(s) /\ u[k] = s[k]
               \/ ~(k \in 1 .. Len(s)) /\ k - Len(s) \in 1 .. Len(t) /\ u[k] = t[k - Len(s)]
    <3>1. u[k] = IF k <= Len(s) THEN s[k] ELSE t[k - Len(s)]
        BY <1>1
    <3>2. \/ k \in 1 .. Len(s) /\ k <= Len(s)
          \/ ~(k \in 1 .. Len(s)) /\ k - Len(s) \in 1 .. Len(t) /\ ~(k <= Len(s))
        BY <1>2
    <3> QED BY <3>1, <3>2
  <2>2. i - Len(s) # j - Len(s)
      BY <1>2
  <2> QED BY <2>1, <2>2, <1>3
<1> QED BY <1>1, <1>4, <1>5 DEF u

\* Everything in the output is a natural number.
LEMMA EsNumbers ==
    ASSUME EsTypes
    PROVE  /\ Range(indexed) \subseteq Nat /\ Range(indexing) \subseteq Nat
           /\ Range(esQueue) \subseteq Nat /\ Docs(bulkChannel) \subseteq Nat /\ Docs(pushing) \subseteq Nat
           /\ Shipped \subseteq Nat /\ InEs \subseteq Nat
<1>1. /\ Range(indexed) \subseteq Nat /\ Range(indexing) \subseteq Nat
      /\ Range(esQueue) \subseteq Nat
    BY RangeOfSeq DEF EsTypes
<1>2. /\ Docs(bulkChannel) \subseteq Nat /\ Docs(pushing) \subseteq Nat
      /\ \A b \in bulks : Docs(b) \subseteq Nat
    BY DocsAreNat DEF EsTypes
<1>3. Shipped \subseteq Nat
    BY <1>1, <1>2 DEF Shipped
<1> QED BY <1>1, <1>2, <1>3 DEF InEs

\* A channel that holds whole events is shipped, unless it is empty.
LEMMA ShipKeepsBulks ==
    ASSUME EsState, pushing = <<>>, InsertBulkMessage(bulkChannel),
           indexed' = indexed, indexing' = indexing
    PROVE  /\ BulkInv' /\ bulks' \subseteq Seq(EsItems)
           /\ Shipped' = Shipped \cup Docs(bulkChannel)
<1>1. bulkChannel \in Seq(EsItems) /\ bulks \subseteq Seq(EsItems)
    BY DEF EsState, EsTypes
<1>2. CASE bulkChannel = <<>>
  <2>1. bulks' = bulks /\ Docs(bulkChannel) = {}
      BY <1>2, EsSequences DEF InsertBulkMessage
  <2> QED BY <2>1, <1>1 DEF EsState, BulkInv, Shipped
<1>3. CASE bulkChannel # <<>>
  <2>1. bulks' = bulks \cup {bulkChannel}
      BY <1>3 DEF InsertBulkMessage
  <2>2. Shipped' = Shipped \cup Docs(bulkChannel)
      BY <2>1 DEF Shipped
  <2>3. Len(bulkChannel) % 2 = 0 /\ Paired(bulkChannel) /\ Rising(bulkChannel)
    <3>1. \A e \in Nat : Items(e) # <<>>
        BY DocsOfItems
    <3>2. \A d : <<d>> # <<>>
        OBVIOUS
    <3> QED BY <3>1, <3>2 DEF EsState, PushInv
  <2>4. \A n \in Docs(bulkChannel) : n \notin Shipped
    <3> SUFFICES ASSUME NEW n \in Docs(bulkChannel), n \in Shipped PROVE FALSE
        OBVIOUS
    <3>1. n < n /\ n \in Nat
        BY <1>1, DocsAreNat DEF EsState, EsOrder, Older
    <3> QED BY <3>1
  <2>5. \A b \in bulks : Docs(b) \cap Docs(bulkChannel) = {}
      BY <2>4 DEF Shipped
  <2>6. Docs(bulkChannel) \cap Range(indexed) = {} /\ Docs(bulkChannel) \cap Range(indexing) = {}
      BY <2>4 DEF Shipped
  <2>7. BulkInv'
      BY <2>1, <2>3, <2>5, <2>6 DEF EsState, BulkInv
  <2> QED BY <2>1, <2>2, <2>7, <1>1
<1> QED BY <1>2, <1>3
\* The requests stay as they are.
LEMMA SameBulks ==
    ASSUME EsState, bulks' = bulks, indexed' = indexed, indexing' = indexing
    PROVE  BulkInv' /\ Shipped' = Shipped
BY DEF EsState, BulkInv, Shipped

LEMMA EmptyChannel ==
    ASSUME EsState, bulkChannel' = <<>>, UNCHANGED <<FlushInterval, BulkMaxSize>>,
           \/ pushing' = <<>>
           \/ FlushInterval # 0 /\ \E e \in Nat : pushing' = Items(e)
    PROVE  PushInv'
BY EsSequences DEF PushInv, EsState, EsTypes

\* The oldest event of the queue is to be pushed; the channel is shipped if the two
\* items would not fit.
LEMMA TakeKeepsEs ==
    ASSUME EsState, EsTake
    PROVE  EsState' /\ InEs' \subseteq InEs
<1> DEFINE e == Head(esQueue)
<1>0. EsTypes /\ esQueue \in Seq(Nat) /\ Sorted(esQueue) /\ FlushInterval \in Nat
    BY DEF EsState, EsTypes, EsOrder
<1>1. /\ FlushInterval > 0 /\ pushing = <<>> /\ esQueue # <<>>
      /\ esQueue' = Tail(esQueue) /\ pushing' = Items(e)
      /\ UNCHANGED <<FlushInterval, BulkMaxSize, indexing, indexed>>
    BY DEF EsTake, esConfig
<1>2. /\ esQueue' \in Seq(Nat) /\ Sorted(esQueue') /\ e \in Nat /\ e \in Range(esQueue)
      /\ Range(esQueue') \subseteq Range(esQueue)
      /\ \A n \in Range(esQueue') : e < n
    BY <1>0, <1>1, TailOfSorted
<1> HIDE DEF e
<1>3. /\ pushing' \in Seq(EsItems) /\ Docs(pushing') = {e} /\ Docs(pushing) = {}
      /\ FlushInterval # 0
  <2>1. FlushInterval # 0
      BY <1>0, <1>1
  <2> QED BY <2>1, <1>1, <1>2, DocsOfItems, EsSequences
<1>4. CASE InsertBulkMessage(bulkChannel) /\ bulkChannel' = <<>>
  <2>1. BulkInv' /\ bulks' \subseteq Seq(EsItems) /\ Shipped' = Shipped \cup Docs(bulkChannel)
      BY <1>1, <1>4, ShipKeepsBulks
  <2>2. bulkChannel' \in Seq(EsItems) /\ Docs(bulkChannel') = {}
      BY <1>4, EsSequences
  <2>3. PushInv'
      BY <1>1, <1>2, <1>3, <1>4, EmptyChannel
  <2>4. EsTypes'
      BY <1>0, <1>1, <1>2, <1>3, <2>1, <2>2 DEF EsTypes
  <2>5. EsOrder'
      BY <1>1, <1>2, <1>3, <2>1, <2>2 DEF EsState, EsOrder, Older
  <2>6. InEs' \subseteq InEs
      BY <1>2, <1>3, <2>1, <2>2 DEF InEs
  <2> QED BY <2>1, <2>3, <2>4, <2>5, <2>6 DEF EsState
<1>5. CASE bulks' = bulks /\ bulkChannel' = bulkChannel
  <2>1. BulkInv' /\ Shipped' = Shipped
      BY <1>1, <1>5, SameBulks
  <2>2. PushInv'
    <3>1. Len(bulkChannel) % 2 = 0
      <4>1. \A n \in Nat : Items(n) # <<>>
          BY DocsOfItems
      <4>2. \A d : <<d>> # <<>>
          OBVIOUS
      <4> QED BY <4>1, <4>2, <1>1 DEF EsState, PushInv
    <3> QED BY <3>1, <1>1, <1>2, <1>3, <1>5 DEF EsState, PushInv
  <2>3. EsTypes'
      BY <1>0, <1>1, <1>2, <1>3, <1>5 DEF EsTypes
  <2>4. EsOrder'
      BY <1>1, <1>2, <1>3, <1>5, <2>1 DEF EsState, EsOrder, Older
  <2>5. InEs' \subseteq InEs
      BY <1>2, <1>3, <1>5, <2>1 DEF InEs
  <2> QED BY <2>1, <2>2, <2>3, <2>4, <2>5 DEF EsState
<1> QED BY <1>4, <1>5 DEF EsTake

\* A header, and then its document, goes into the channel.
LEMMA PushKeepsEs ==
    ASSUME EsState, EsPush
    PROVE  EsState' /\ InEs' \subseteq InEs
<1> DEFINE n == Len(bulkChannel)
<1>0. /\ EsTypes /\ bulkChannel \in Seq(EsItems) /\ Paired(bulkChannel) /\ Rising(bulkChannel)
      /\ n \in Nat /\ BulkMaxSize \in Nat
    BY DEF EsState, EsTypes, PushInv
<1>1. /\ pushing # <<>> /\ n < BulkMaxSize
      /\ bulkChannel' = Append(bulkChannel, Head(pushing)) /\ pushing' = Tail(pushing)
      /\ UNCHANGED <<FlushInterval, BulkMaxSize, esQueue, indexing, bulks, indexed>>
    BY DEF EsPush, esConfig
<1>2. FlushInterval # 0
    BY <1>1 DEF EsState, PushInv
<1>3. BulkInv' /\ Shipped' = Shipped
    BY <1>1, SameBulks
<1>4. CASE n % 2 = 0 /\ \E e \in Nat : pushing = Items(e)
  <2>1. PICK e \in Nat : pushing = Items(e)
      BY <1>4
  <2> DEFINE h == [header |-> TRUE, id |-> e]
             d == [header |-> FALSE, id |-> e]
  <2>2. /\ h \in EsItems /\ h.header = TRUE /\ h.id = e
        /\ d \in EsItems /\ d.header = FALSE /\ d.id = e
      BY DEF EsItems
  <2>3. Head(pushing) = h /\ pushing' = <<d>> /\ Docs(pushing) = {e}
      BY <2>1, <1>1, DocsOfItems
  <2> HIDE DEF h, n
  <2>4. pushing' \in Seq(EsItems) /\ Docs(pushing') = {e}
      BY <2>2, <2>3, DocsOfDoc
  <2>5. (n + 1) % 2 = 1 /\ (n + 1) % 2 # 0 /\ n + 1 <= BulkMaxSize
    <3>1. n % 2 = 0
        BY <1>4
    <3> QED BY <3>1, <1>0, <1>1, SMTT(40)
  <2>6. Paired(bulkChannel') /\ Rising(bulkChannel')
      BY <1>0, <1>1, <2>2, <2>3, <2>5, AppendToPairs DEF n
  <2>7. /\ bulkChannel' \in Seq(EsItems) /\ Len(bulkChannel') = n + 1
        /\ bulkChannel'[n + 1] = h /\ Docs(bulkChannel') = Docs(bulkChannel)
    <3>1. bulkChannel' = Append(bulkChannel, h)
        BY <1>1, <2>3
    <3>2. Docs(bulkChannel') = Docs(bulkChannel)
        BY <3>1, <1>0, <2>2, DocsOfAppend
    <3> QED BY <3>1, <3>2, <1>0, <2>2, AppendElements DEF n
  <2>8. PushInv'
    <3>1. pushing' = <<[header |-> FALSE, id |-> bulkChannel'[Len(bulkChannel')].id]>>
        BY <2>2, <2>3, <2>7
    <3> HIDE DEF d
    <3> QED BY <3>1, <1>1, <1>2, <2>5, <2>6, <2>7 DEF PushInv
  <2>9. EsTypes'
      BY <1>0, <1>1, <2>4, <2>7 DEF EsTypes
  <2>10. EsOrder' /\ InEs' = InEs
      BY <1>1, <1>3, <2>3, <2>4, <2>7 DEF EsState, EsOrder, InEs
  <2> QED BY <1>3, <2>8, <2>9, <2>10 DEF EsState
<1>5. CASE n % 2 = 1 /\ pushing = <<[header |-> FALSE, id |-> bulkChannel[n].id]>>
  <2> DEFINE d == [header |-> FALSE, id |-> bulkChannel[n].id]
  <2>1. n \in 1 .. n /\ (n + 1) % 2 = 0 /\ (n + 1) % 2 # 1 /\ n + 1 <= BulkMaxSize
      BY <1>0, <1>1, <1>5, SMTT(40)
  <2>2. bulkChannel[n] \in EsItems
      BY <1>0, <2>1
  <2>3. d \in EsItems /\ d.header = FALSE /\ d.id = bulkChannel[n].id
      BY <2>2 DEF EsItems
  <2>4. pushing = <<d>>
      BY <1>5
  <2> HIDE DEF d, n
  <2>5. Head(pushing) = d /\ pushing' = <<>> /\ Docs(pushing) = {d.id}
      BY <2>3, <2>4, <1>1, DocsOfDoc
  <2>6. \A m \in Docs(bulkChannel) : m < d.id
      BY <2>5 DEF EsState, EsOrder, Older
  <2>7. Paired(bulkChannel') /\ Rising(bulkChannel')
      BY <1>0, <1>1, <2>1, <2>3, <2>5, <2>6, AppendToPairs DEF n
  <2>8. /\ bulkChannel' \in Seq(EsItems) /\ Len(bulkChannel') = n + 1
        /\ Docs(bulkChannel') = Docs(bulkChannel) \cup {d.id}
      BY <1>0, <1>1, <2>3, <2>5, AppendElements, DocsOfAppend DEF n
  <2>9. Docs(pushing') = {} /\ pushing' \in Seq(EsItems)
      BY <2>5, EsSequences
  <2>10. PushInv'
      BY <1>1, <1>2, <2>1, <2>5, <2>7, <2>8 DEF PushInv
  <2>11. EsTypes'
      BY <1>0, <1>1, <2>8, <2>9 DEF EsTypes
  <2>12. EsOrder'
      BY <1>1, <1>3, <2>5, <2>6, <2>8, <2>9 DEF EsState, EsOrder, Older
  <2>13. InEs' = InEs
      BY <1>1, <1>3, <2>5, <2>8, <2>9 DEF InEs
  <2> QED BY <1>3, <2>10, <2>11, <2>12, <2>13 DEF EsState
<1> QED BY <1>1, <1>4, <1>5 DEF EsState, PushInv

LEMMA TickKeepsEs ==
    ASSUME EsState, EsTick
    PROVE  EsState' /\ InEs' \subseteq InEs
<1>1. /\ pushing = <<>> /\ InsertBulkMessage(bulkChannel) /\ bulkChannel' = <<>>
      /\ UNCHANGED <<FlushInterval, BulkMaxSize, esQueue, pushing, indexing, indexed>>
    BY DEF EsTick, esConfig
<1>2. BulkInv' /\ bulks' \subseteq Seq(EsItems) /\ Shipped' = Shipped \cup Docs(bulkChannel)
    BY <1>1, ShipKeepsBulks
<1>3. bulkChannel' \in Seq(EsItems) /\ Docs(bulkChannel') = {} /\ Docs(pushing) = {}
    BY <1>1, EsSequences
<1>4. PushInv'
    BY <1>1, EmptyChannel
<1>5. EsTypes'
    BY <1>1, <1>2, <1>3 DEF EsState, EsTypes
<1>6. EsOrder'
    BY <1>1, <1>2, <1>3 DEF EsState, EsOrder, Older
<1>7. InEs' \subseteq InEs
    BY <1>1, <1>2, <1>3 DEF InEs
<1> QED BY <1>2, <1>4, <1>5, <1>6, <1>7 DEF EsState

\* Without a flush interval there is no channel, and the oldest event is sent.
LEMMA IndexKeepsEs ==
    ASSUME EsState, EsIndex
    PROVE  EsState' /\ InEs' \subseteq InEs
<1> DEFINE e == Head(esQueue)
<1>0. EsTypes /\ esQueue \in Seq(Nat) /\ Sorted(esQueue)
    BY DEF EsState, EsTypes, EsOrder
<1>1. /\ FlushInterval = 0 /\ esQueue # <<>> /\ esQueue' = Tail(esQueue)
      /\ indexing = <<>> /\ indexing' = <<e>>
      /\ UNCHANGED <<FlushInterval, BulkMaxSize, bulkChannel, pushing, bulks, indexed>>
    BY DEF EsIndex, esConfig
<1>2. /\ esQueue' \in Seq(Nat) /\ Sorted(esQueue') /\ e \in Nat /\ e \in Range(esQueue)
      /\ Range(esQueue') \subseteq Range(esQueue)
      /\ \A n \in Range(esQueue') : e < n
    BY <1>0, <1>1, TailOfSorted
<1> HIDE DEF e
<1>3. Docs(bulkChannel) = {} /\ Docs(pushing) = {}
    BY <1>1, EsSequences DEF EsState, PushInv
<1>4. PushInv'
    BY <1>1 DEF EsState, PushInv
<1>5. e \notin Shipped
  <2>1. e \in Shipped => e < e
      BY <1>2 DEF EsState, EsOrder, Older
  <2> QED BY <2>1, <1>2
<1>6. /\ indexing' \in Seq(Nat) /\ Len(indexing') = 1 /\ Range(indexing') = {e}
      /\ Range(indexing) = {}
  <2>1. indexing' \in Seq(Nat) /\ Len(indexing') = 1 /\ indexing'[1] = e
      BY <1>1, <1>2
  <2>2. Range(indexing') = {indexing'[i] : i \in 1 .. 1}
      BY <2>1, RangeEquality
  <2> QED BY <2>1, <2>2, <1>1, NothingInEmpty
<1>7. Shipped' = Shipped \cup {e}
    BY <1>1, <1>6 DEF Shipped
<1>8. BulkInv'
    BY <1>1, <1>5, <1>6 DEF EsState, BulkInv, Shipped
<1>9. EsTypes'
    BY <1>0, <1>1, <1>2, <1>6 DEF EsTypes
<1>10. EsOrder' /\ InEs' \subseteq InEs
    BY <1>1, <1>2, <1>3, <1>7 DEF EsState, EsOrder, Older, InEs
<1> QED BY <1>4, <1>8, <1>9, <1>10 DEF EsState

\* Its request ends.
LEMMA IndexedKeepsEs ==
    ASSUME EsState, EsIndexed
    PROVE  EsState' /\ InEs' \subseteq InEs
<1>0. EsTypes /\ indexed \in Seq(Nat) /\ indexing \in Seq(Nat)
    BY DEF EsState, EsTypes
<1>1. /\ indexing' = <<>> /\ indexed' \in {indexed, indexed \o indexing}
      /\ UNCHANGED <<FlushInterval, BulkMaxSize, esQueue, bulkChannel, pushing, bulks>>
    BY DEF EsIndexed, esConfig
<1>2. Range(indexing') = {} /\ indexing' \in Seq(Nat) /\ Len(indexing') = 0
    BY <1>1, NothingInEmpty
<1>3. /\ indexed' \in Seq(Nat) /\ Range(indexed') \subseteq Range(indexed) \cup Range(indexing)
      /\ \A i, j \in 1 .. Len(indexed') : i # j => indexed'[i] # indexed'[j]
  <2>1. CASE indexed' = indexed
      BY <2>1, <1>0 DEF EsState, BulkInv
  <2>2. CASE indexed' = indexed \o indexing
    <3>1. /\ \A i, j \in 1 .. Len(indexed) : i # j => indexed[i] # indexed[j]
          /\ Range(indexed) \cap Range(indexing) = {} /\ Len(indexing) <= 1
        BY DEF EsState, BulkInv
    <3>2. \A i, j \in 1 .. Len(indexing) : i # j => indexing[i] # indexing[j]
        BY <3>1, <1>0
    <3>3. /\ indexed' \in Seq(Nat) /\ Range(indexed') = Range(indexed) \cup Range(indexing)
          /\ \A i, j \in 1 .. Len(indexed') : i # j => indexed'[i] # indexed'[j]
        BY <3>1, <3>2, <2>2, <1>0, ConcatOfDistinct, SMTT(40)
    <3> QED BY <3>3
  <2> QED BY <2>1, <2>2, <1>1
<1>4. Shipped' \subseteq Shipped
    BY <1>1, <1>2, <1>3 DEF Shipped
<1>5. BulkInv'
  <2>1. \A b \in bulks : Docs(b) \cap Range(indexed') = {}
      BY <1>3 DEF EsState, BulkInv
  <2> QED BY <2>1, <1>1, <1>2, <1>3 DEF EsState, BulkInv
<1>6. EsTypes'
    BY <1>0, <1>1, <1>2, <1>3 DEF EsTypes
<1>7. PushInv'
    BY <1>1 DEF EsState, PushInv
<1>8. EsOrder' /\ InEs' \subseteq InEs
    BY <1>1, <1>4 DEF EsState, EsOrder, Older, InEs
<1> QED BY <1>5, <1>6, <1>7, <1>8 DEF EsState

\* A request ends, in whatever order.
LEMMA BulkKeepsEs ==
    ASSUME EsState, Bulk
    PROVE  EsState' /\ InEs' \subseteq InEs
<1>0. EsTypes /\ indexed \in Seq(Nat) /\ bulks \subseteq Seq(EsItems)
    BY DEF EsState, EsTypes
<1>1. PICK b \in bulks : bulks' = bulks \ {b} /\ indexed' \in {indexed, indexed \o Events(b)}
    BY DEF Bulk
<1>2. UNCHANGED <<FlushInterval, BulkMaxSize, esQueue, bulkChannel, pushing, indexing>>
    BY DEF Bulk, esConfig
<1>3. /\ Events(b) \in Seq(Nat) /\ Range(Events(b)) \subseteq Docs(b)
      /\ \A i, j \in 1 .. Len(Events(b)) : i # j => Events(b)[i] # Events(b)[j]
    BY <1>0, EventsOfPairs DEF EsState, BulkInv
<1>4. /\ Docs(b) \cap Range(indexed) = {} /\ \A c \in bulks' : Docs(b) \cap Docs(c) = {}
      /\ Docs(b) \cap Range(indexing) = {}
    BY <1>1 DEF EsState, BulkInv
<1>5. /\ indexed' \in Seq(Nat) /\ Range(indexed') \subseteq Range(indexed) \cup Docs(b)
      /\ \A i, j \in 1 .. Len(indexed') : i # j => indexed'[i] # indexed'[j]
  <2>1. CASE indexed' = indexed
      BY <2>1, <1>0 DEF EsState, BulkInv
  <2>2. CASE indexed' = indexed \o Events(b)
    <3>1. /\ \A i, j \in 1 .. Len(indexed) : i # j => indexed[i] # indexed[j]
          /\ Range(indexed) \cap Range(Events(b)) = {}
        BY <1>3, <1>4 DEF EsState, BulkInv
    <3>2. /\ indexed' \in Seq(Nat) /\ Range(indexed') = Range(indexed) \cup Range(Events(b))
          /\ \A i, j \in 1 .. Len(indexed') : i # j => indexed'[i] # indexed'[j]
        BY <3>1, <2>2, <1>0, <1>3, ConcatOfDistinct, SMTT(40)
    <3> QED BY <3>2, <1>3
  <2> QED BY <2>1, <2>2, <1>1
<1>6. Shipped' \subseteq Shipped
  <2>1. UNION {Docs(c) : c \in bulks'} \subseteq UNION {Docs(c) : c \in bulks}
      BY <1>1
  <2>2. Docs(b) \subseteq UNION {Docs(c) : c \in bulks}
      OBVIOUS
  <2> QED BY <2>1, <2>2, <1>2, <1>5 DEF Shipped
<1>7. BulkInv'
  <2>1. \A c \in bulks' : c \in bulks
      BY <1>1
  <2>2. \A c \in bulks' : Docs(c) \cap Range(indexed') = {}
      BY <2>1, <1>4, <1>5 DEF EsState, BulkInv
  <2>3. Range(indexing) \cap Range(indexed') = {}
      BY <1>4, <1>5 DEF EsState, BulkInv
  <2> QED BY <2>1, <2>2, <2>3, <1>2, <1>5 DEF EsState, BulkInv
<1>8. EsTypes'
    BY <1>0, <1>1, <1>2, <1>5 DEF EsTypes
<1>9. PushInv'
    BY <1>2 DEF EsState, PushInv
<1>10. EsOrder' /\ InEs' \subseteq InEs
    BY <1>2, <1>6 DEF EsState, EsOrder, Older, InEs
<1> QED BY <1>7, <1>8, <1>9, <1>10 DEF EsState

LEMMA RestartKeepsEs ==
    ASSUME EsState, EsRestart
    PROVE  EsState' /\ InEs' \subseteq InEs
<1>1. /\ esQueue' = <<>> /\ bulkChannel' = <<>> /\ pushing' = <<>> /\ bulks' = {}
      /\ indexing' = <<>> /\ UNCHANGED <<FlushInterval, BulkMaxSize, indexed>>
    BY DEF EsRestart, esConfig
<1>2. /\ Docs(bulkChannel') = {} /\ Docs(pushing') = {} /\ Range(esQueue') = {}
      /\ bulkChannel' \in Seq(EsItems) /\ pushing' \in Seq(EsItems) /\ Sorted(esQueue')
      /\ esQueue' \in Seq(Nat) /\ indexing' \in Seq(Nat) /\ Range(indexing') = {} /\ Len(indexing') = 0
    BY <1>1, EsSequences, NothingInEmpty
<1>3. Shipped' \subseteq Shipped
    BY <1>1, <1>2 DEF Shipped
<1>4. PushInv'
    BY <1>1, EmptyChannel
<1>5. BulkInv'
    BY <1>1, <1>2 DEF EsState, BulkInv
<1>6. EsTypes'
    BY <1>1, <1>2 DEF EsState, EsTypes
<1>7. EsOrder' /\ InEs' \subseteq InEs
    BY <1>2, <1>3 DEF EsOrder, Older, InEs
<1> QED BY <1>4, <1>5, <1>6, <1>7 DEF EsState

LEMMA PublishKeepsEs ==
    ASSUME EsState, NEW e \in Nat, esPublishEvent(e), \A n \in InEs : n < e
    PROVE  EsState' /\ InEs' \subseteq InEs \cup {e}
<1>1. /\ esQueue' = Append(esQueue, e)
      /\ UNCHANGED <<FlushInterval, BulkMaxSize, bulkChannel, pushing, indexing, bulks, indexed>>
    BY DEF esPublishEvent, esConfig
<1>2. /\ esQueue' \in Seq(Nat) /\ Sorted(esQueue')
      /\ Range(esQueue') = Range(esQueue) \cup {e}
    BY <1>1, AppendToSorted, ZenonT(60) DEF EsState, EsTypes, EsOrder, InEs
<1>3. BulkInv' /\ Shipped' = Shipped
    BY <1>1, SameBulks
<1>4. EsTypes' /\ PushInv'
    BY <1>1, <1>2 DEF EsState, EsTypes, PushInv
<1>5. EsOrder' /\ InEs' \subseteq InEs \cup {e}
    BY <1>1, <1>2, <1>3 DEF EsState, EsOrder, Older, InEs
<1> QED BY <1>3, <1>4, <1>5 DEF EsState
LEMMA EsSteps ==
    ASSUME [Next]_vars
    PROVE  \/ EsTake \/ EsPush \/ EsIndex \/ EsIndexed \/ EsTick \/ Bulk \/ EsRestart
           \/ /\ publishEventOutput /\ Output[publishing.next] = "elasticsearch"
              /\ esPublishEvent(publishing.id)
           \/ UNCHANGED esVars
BY DEF Next, Running, FilterStep, PublisherStep, publishEventBegin, publishEventOutput,
       publishEventEnd, FileStep, RedisSendStep, RedisReconnectStep, EsStep, EsSendStep,
       EsAnswerStep, EsAnswer, RedisServer, CrashRestart, vars

LEMMA EsStepInv == PipelineInv /\ EsInv /\ [Next]_vars => EsInv'
<1> SUFFICES ASSUME PipelineInv, EsInv, [Next]_vars PROVE EsInv'
    OBVIOUS
<1>1. /\ "elasticsearch" \in OutputNames
      /\ \A n \in Int : Past(n, "elasticsearch") => Past(n, "elasticsearch")'
    BY PipelineStep DEF OutputNames
<1>2. EsState /\ InEs \subseteq Int
    BY EsNumbers DEF EsInv, EsState
<1>3. CASE EsState' /\ InEs' \subseteq InEs
    BY <1>1, <1>2, <1>3 DEF EsInv
<1>4. CASE /\ publishEventOutput /\ Output[publishing.next] = "elasticsearch"
           /\ esPublishEvent(publishing.id)
  <2>1. PICK e : e = publishing.id
      OBVIOUS
  <2>2. e \in Nat /\ Past(e, "elasticsearch")' /\ \A n \in Int : Past(n, "elasticsearch") => n < e
      BY <1>1, <1>4, <2>1, OutputIsGivenNewest
  <2>3. esPublishEvent(e)
      BY <1>4, <2>1
  <2>4. \A n \in InEs : n < e
      BY <2>2, <1>2 DEF EsInv
  <2>5. EsState' /\ InEs' \subseteq InEs \cup {e}
      BY <1>2, <2>2, <2>3, <2>4, PublishKeepsEs
  <2> QED BY <1>1, <1>2, <2>2, <2>5 DEF EsInv
<1>5. CASE UNCHANGED esVars
  <2>1. EsState' /\ InEs' = InEs
      BY <1>2, <1>5 DEF esVars, esConfig, EsState, EsTypes, PushInv, BulkInv, EsOrder, Shipped, InEs
  <2> QED BY <2>1, <1>3
<1> QED BY <1>2, <1>3, <1>4, <1>5, EsSteps, TakeKeepsEs, PushKeepsEs, IndexKeepsEs,
           IndexedKeepsEs, TickKeepsEs, BulkKeepsEs, RestartKeepsEs

LEMMA EsInvInit == Init => EsInv
<1> SUFFICES ASSUME Init PROVE EsInv
    OBVIOUS
<1>1. /\ esQueue = <<>> /\ bulkChannel = <<>> /\ pushing = <<>> /\ bulks = {} /\ indexed = <<>>
      /\ FlushInterval \in FlushIntervals /\ BulkMaxSize \in BulkSizes /\ indexing = <<>>
    BY DEF Init, EsInit
<1>2. FlushInterval \in Nat /\ BulkMaxSize \in Nat
    BY <1>1, EsAssumption
<1>3. EsTypes
    BY <1>1, <1>2, EsSequences, NothingInEmpty DEF EsTypes
<1>4. PushInv /\ BulkInv
    BY <1>1, <1>2, EsSequences, NothingInEmpty DEF PushInv, BulkInv
<1>5. Shipped = {} /\ InEs = {}
    BY <1>1, EsSequences, NothingInEmpty DEF Shipped, InEs
<1>6. EsOrder
    BY <1>1, <1>5, EsSequences, NothingInEmpty DEF EsOrder, Older
<1> QED BY <1>3, <1>4, <1>5, <1>6 DEF EsInv, EsState

\* The elasticsearch output indexes no event twice and ships whole events only, for
\* any bulk size, any number of requests under way and any order of their ends.
THEOREM BulksStayWhole == Spec => []BulksAreWhole
<1>1. EsInv => BulksAreWhole
  <2> SUFFICES ASSUME EsInv PROVE BulksAreWhole
      OBVIOUS
  <2>1. EsTypes /\ PushInv /\ BulkInv
      BY DEF EsInv, EsState
  <2>2. ASSUME NEW b \in bulks, NEW i \in 1 .. Len(b)
        PROVE  (b[i].header <=> i % 2 = 1) /\ (b[i].header => i < Len(b) /\ b[i + 1].id = b[i].id)
    <3>1. Len(b) \in Nat /\ Len(b) % 2 = 0 /\ Paired(b)
        BY <2>1 DEF EsTypes, BulkInv
    <3>2. b[i].header <=> i % 2 = 1
        BY <3>1 DEF Paired
    <3>3. ASSUME i % 2 = 1 PROVE i < Len(b) /\ b[i + 1].id = b[i].id
      <4>1. i + 1 \in 1 .. Len(b) /\ (i + 1) % 2 = 0 /\ (i + 1) - 1 = i
          BY <3>1, <3>3
      <4>2. b[(i + 1) - 1].id = b[i + 1].id
          BY <3>1, <4>1 DEF Paired
      <4> QED BY <4>1, <4>2, <3>1
    <3> QED BY <3>2, <3>3
  <2> QED BY <2>1, <2>2 DEF PushInv, BulkInv, BulksAreWhole
<1>2. PipelineInv /\ [Next]_vars => PipelineInv'
    BY PipelineStep
<1> QED BY <1>1, <1>2, PipelineInit, EsInvInit, EsStepInv, PTL DEF Spec

-------------------------------------------------------------------------------
(* The concatenation of the files.  What FlattenSeq's recursive function   *)
(* computes is shown through the least number for which it would be wrong. *)

LEMMA LeastNumber ==
    ASSUME NEW T, T \subseteq Nat, T # {}
    PROVE  \E x \in T : \A y \in T : x <= y
<1>1. PICK x \in T : \A y \in T : ~(<<y, x>> \in OpToRel(<, Nat))
    BY NatLessThanWellFounded, WFMin
<1>2. \A y \in T : ~(y < x)
    BY <1>1 DEF OpToRel
<1> QED BY <1>2

\* f[i] is the concatenation of the first i of the n sequences of s.
Joins(f, s, n) ==
    /\ \A i \in 1 .. n : f[i] \in Seq(Int)
    /\ f[1] = s[1]
    /\ \A i \in 2 .. n : f[i] = f[i - 1] \o s[i]

LEMMA JoinsExists ==
    ASSUME NEW s, NEW k \in Nat, NEW n \in 1 .. k
    PROVE  \E f : f = [i \in 1 .. n |-> IF i = 1 THEN s[i] ELSE f[i - 1] \o s[i]]
<1> DEFINE Def(f, m) == f = [i \in 1 .. m |-> IF i = 1 THEN s[i] ELSE f[i - 1] \o s[i]]
           T == {m \in 1 .. k : ~\E f : Def(f, m)}
<1> SUFFICES ASSUME T # {} PROVE FALSE
    OBVIOUS
<1> HIDE DEF Def
<1>1. PICK m \in T : \A y \in T : m <= y
  <2>1. T \subseteq Nat
      OBVIOUS
  <2> HIDE DEF T
  <2> QED BY <2>1, LeastNumber
<1>2. m \in 1 .. k /\ m \in Nat
    OBVIOUS
<1>3. CASE m = 1
  <2> DEFINE g == [i \in 1 .. 1 |-> s[i]]
  <2>1. g = [i \in 1 .. 1 |-> IF i = 1 THEN s[i] ELSE g[i - 1] \o s[i]]
      OBVIOUS
  <2>2. Def(g, m)
      BY <2>1, <1>3 DEF Def
  <2> QED BY <2>2
<1>4. CASE m # 1
  <2>1. m - 1 \in 1 .. k /\ ~(m <= m - 1)
      BY <1>2, <1>4
  <2>2. m - 1 \notin T
      BY <2>1, <1>1
  <2>3. PICK f : Def(f, m - 1)
      BY <2>1, <2>2
  <2> DEFINE g == [i \in 1 .. m |-> IF i = m THEN f[m - 1] \o s[m] ELSE f[i]]
  <2>4. \A i \in 1 .. m : g[i] = IF i = m THEN f[m - 1] \o s[m] ELSE f[i]
      OBVIOUS
  <2>5. ASSUME NEW i \in 1 .. m PROVE g[i] = IF i = 1 THEN s[i] ELSE g[i - 1] \o s[i]
    <3>1. CASE i = m
      <4>1. m - 1 \in 1 .. m /\ m - 1 # m /\ m \in 1 .. m
          BY <1>2, <1>4
      <4>2. g[m - 1] = f[m - 1] /\ g[m] = f[m - 1] \o s[m]
          BY <2>4, <4>1
      <4> QED BY <3>1, <4>2, <1>4
    <3>2. CASE i # m
      <4>1. i \in 1 .. m - 1 /\ (i # 1 => i - 1 \in 1 .. m /\ i - 1 # m)
          BY <1>2, <3>2
      <4>2. f[i] = IF i = 1 THEN s[i] ELSE f[i - 1] \o s[i]
          BY <2>3, <4>1 DEF Def
      <4>3. g[i] = f[i] /\ (i # 1 => g[i - 1] = f[i - 1])
          BY <2>4, <3>2, <4>1
      <4> QED BY <4>2, <4>3
    <3> QED BY <3>1, <3>2
  <2>6. g = [i \in 1 .. m |-> g[i]]
      OBVIOUS
  <2> HIDE DEF g
  <2>7. Def(g, m)
      BY <2>5, <2>6 DEF Def
  <2> QED BY <2>7
<1> QED BY <1>3, <1>4

LEMMA FlattenJoins ==
    ASSUME NEW n \in Nat \ {0}, NEW s \in [1 .. n -> Seq(Int)]
    PROVE  \E f : Joins(f, s, n) /\ FlattenSeq(s) = f[n]
<1> DEFINE Def(f) == f = [i \in 1 .. n |-> IF i = 1 THEN s[i] ELSE f[i - 1] \o s[i]]
           f == CHOOSE g : Def(g)
<1>1. n \in 1 .. n /\ 1 \in 1 .. n
    OBVIOUS
<1>2. FlattenSeq(s) = f[n]
  <2>1. Len(s) = n
      OBVIOUS
  <2> QED BY <2>1 DEF FlattenSeq
<1>3. Def(f)
  <2>1. \E g : Def(g)
      BY <1>1, JoinsExists, ZenonT(60)
  <2> QED BY <2>1
<1> HIDE DEF f
<1>4. \A i \in 1 .. n : f[i] = IF i = 1 THEN s[i] ELSE f[i - 1] \o s[i]
    BY <1>3
<1>5. \A i \in 2 .. n : i \in 1 .. n /\ i # 1
    BY <1>1
<1>6. f[1] = s[1] /\ \A i \in 2 .. n : f[i] = f[i - 1] \o s[i]
    BY <1>1, <1>4, <1>5
<1>7. \A i \in 1 .. n : f[i] \in Seq(Int)
  <2> DEFINE T == {m \in 1 .. n : f[m] \notin Seq(Int)}
  <2> SUFFICES ASSUME T # {} PROVE FALSE
      OBVIOUS
  <2>1. PICK m \in T : \A y \in T : m <= y
    <3>1. T \subseteq Nat
        OBVIOUS
    <3> HIDE DEF T
    <3> QED BY <3>1, LeastNumber
  <2>2. m \in 1 .. n /\ s[m] \in Seq(Int)
      OBVIOUS
  <2>3. m # 1
      BY <2>2, <1>6
  <2>4. m \in 2 .. n /\ m - 1 \in 1 .. n /\ ~(m <= m - 1)
      BY <1>1, <2>2, <2>3
  <2>5. f[m - 1] \in Seq(Int)
      BY <2>1, <2>4
  <2>6. f[m] = f[m - 1] \o s[m]
      BY <2>4, <1>6
  <2>7. f[m] \in Seq(Int)
      BY <2>2, <2>5, <2>6, ConcatProperties
  <2> QED BY <2>7
<1> QED BY <1>2, <1>6, <1>7 DEF Joins

LEMMA FlattenType ==
    ASSUME NEW n \in Nat \ {0}, NEW s \in [1 .. n -> Seq(Int)]
    PROVE  FlattenSeq(s) \in Seq(Int)
<1>1. n \in 1 .. n
    OBVIOUS
<1>2. PICK f : Joins(f, s, n) /\ FlattenSeq(s) = f[n]
    BY FlattenJoins
<1> QED BY <1>1, <1>2 DEF Joins

\* From where two concatenations agree they agree as long as the sequences do.
LEMMA JoinsAgree ==
    ASSUME NEW n \in Nat \ {0}, NEW s, NEW t, NEW f, NEW g, Joins(f, s, n), Joins(g, t, n),
           NEW k \in 1 .. n, NEW m \in k .. n, f[k] = g[k], \A j \in k + 1 .. m : s[j] = t[j]
    PROVE  f[m] = g[m]
<1> DEFINE T == {j \in k .. m : f[j] # g[j]}
<1>0. m \in k .. m
    OBVIOUS
<1> SUFFICES ASSUME T # {} PROVE FALSE
    BY <1>0
<1>1. PICK j \in T : \A y \in T : j <= y
  <2>1. T \subseteq Nat
      BY <1>0
  <2> HIDE DEF T
  <2> QED BY <2>1, LeastNumber
<1>2. j \in k .. m /\ f[j] # g[j] /\ j # k
    OBVIOUS
<1>3. j - 1 \in k .. m /\ ~(j <= j - 1) /\ j \in k + 1 .. m /\ j \in 2 .. n
    BY <1>0, <1>2
<1>4. f[j - 1] = g[j - 1]
    BY <1>1, <1>3
<1>5. f[j] = f[j - 1] \o s[j] /\ g[j] = g[j - 1] \o t[j] /\ s[j] = t[j]
    BY <1>3 DEF Joins
<1> QED BY <1>2, <1>4, <1>5

LEMMA JoinsAgreeFirst ==
    ASSUME NEW n \in Nat \ {0}, NEW s, NEW t, NEW f, NEW g, Joins(f, s, n), Joins(g, t, n),
           NEW m \in 1 .. n, \A j \in 1 .. m : s[j] = t[j]
    PROVE  f[m] = g[m]
<1>1. 1 \in 1 .. n /\ m \in 1 .. n /\ 1 \in 1 .. m
    OBVIOUS
<1>2. f[1] = g[1]
    BY <1>1 DEF Joins
<1>3. \A j \in 1 + 1 .. m : s[j] = t[j]
    OBVIOUS
<1>4. PICK k \in 1 .. n : k = 1
    BY <1>1
<1>5. m \in k .. n /\ f[k] = g[k] /\ \A j \in k + 1 .. m : s[j] = t[j]
    BY <1>1, <1>2, <1>3, <1>4
<1> QED BY <1>5, JoinsAgree

LEMMA ConcatAppend ==
    ASSUME NEW S, NEW a \in Seq(S), NEW b \in Seq(S), NEW e \in S
    PROVE  a \o Append(b, e) = Append(a \o b, e)
<1>1. Append(b, e) = b \o <<e>> /\ <<e>> \in Seq(S) /\ a \o b \in Seq(S)
    BY AppendIsConcat, ConcatProperties
<1>2. Append(a \o b, e) = (a \o b) \o <<e>>
    BY <1>1, AppendIsConcat
<1> QED BY <1>1, <1>2, ConcatAssociative

LEMMA ConcatLines == \A a, b, c \in Seq(Int) : (a \o b) \o c = a \o (b \o c)
BY ConcatAssociative, SMTT(40)

\* A line more at the end of the last sequence.
LEMMA JoinsAppend ==
    ASSUME NEW n \in Nat, n >= 2,
           NEW s, NEW t, NEW f, NEW g, Joins(f, s, n), Joins(g, t, n),
           \A i \in 1 .. n : s[i] \in Seq(Int), \A i \in 1 .. n - 1 : t[i] = s[i],
           NEW e \in Int, t[n] = Append(s[n], e)
    PROVE  g[n] = Append(f[n], e)
<1>0. n \in Nat \ {0}
    OBVIOUS
<1>2. /\ 1 \in 1 .. n - 1 /\ 1 \in 1 .. n /\ n - 1 \in 1 .. n /\ n \in 2 .. n /\ n \in 1 .. n
      /\ \A j \in 1 + 1 .. n - 1 : j \in 1 .. n - 1
    OBVIOUS
<1>3. f[1] = g[1]
    BY <1>2 DEF Joins
<1>4. f[n - 1] = g[n - 1]
  <2>1. PICK m \in 1 .. n : m = n - 1
      BY <1>2
  <2>2. \A j \in 1 .. m : s[j] = t[j]
      BY <2>1
  <2>4. f[m] = g[m]
      BY <2>2, <1>0, JoinsAgreeFirst
  <2> QED BY <2>1, <2>4
<1>5. f[n] = f[n - 1] \o s[n] /\ g[n] = f[n - 1] \o Append(s[n], e)
    BY <1>2, <1>4 DEF Joins
<1>6. f[n - 1] \in Seq(Int) /\ s[n] \in Seq(Int)
    BY <1>2 DEF Joins
<1>7. f[n - 1] \o Append(s[n], e) = Append(f[n - 1] \o s[n], e)
  <2>1. PICK a \in Seq(Int), b \in Seq(Int) : a = f[n - 1] /\ b = s[n]
      BY <1>6
  <2>2. a \o Append(b, e) = Append(a \o b, e)
      BY ConcatAppend
  <2> QED BY <2>1, <2>2
<1> QED BY <1>5, <1>7

\* A sequence moves to the place before it, which was empty.
Moved(s, t, n, k) ==
    /\ \A i \in 1 .. n : s[i] \in Seq(Int)
    /\ k \in 2 .. n /\ s[k - 1] = <<>> /\ t[k - 1] = s[k] /\ t[k] = <<>>
    /\ \A i \in 1 .. n : i # k - 1 /\ i # k => t[i] = s[i]

LEMMA JoinsMove ==
    ASSUME NEW n \in Nat \ {0}, NEW s, NEW t, NEW f, NEW g, Joins(f, s, n), Joins(g, t, n),
           NEW k, Moved(s, t, n, k)
    PROVE  g[n] = f[n]
<1>1. /\ \A i \in 1 .. n : s[i] \in Seq(Int)
      /\ k \in 2 .. n /\ s[k - 1] = <<>> /\ t[k - 1] = s[k] /\ t[k] = <<>>
      /\ \A i \in 1 .. n : i # k - 1 /\ i # k => t[i] = s[i]
    BY DEF Moved
<1>2. k \in 1 .. n /\ k - 1 \in 1 .. n /\ n \in k .. n
    BY <1>1
<1>3. s[k] \in Seq(Int) /\ f[k] = f[k - 1] \o s[k] /\ g[k] = g[k - 1] \o <<>>
    BY <1>1, <1>2 DEF Joins
<1>4. f[k] = g[k]
  <2>1. CASE k = 2
    <3>1. f[k - 1] = <<>> /\ g[k - 1] = s[k]
        BY <2>1, <1>1 DEF Joins
    <3> QED BY <3>1, <1>3, ConcatEmptySeq
  <2>2. CASE k # 2
    <3>1. /\ k - 1 \in 2 .. n /\ (k - 1) - 1 = k - 2 /\ k - 2 \in 1 .. n
          /\ \A j \in 1 .. k - 2 : j \in 1 .. n /\ j # k - 1 /\ j # k
          /\ 1 \in 1 .. n /\ 1 \in 1 .. k - 2
          /\ \A j \in 1 + 1 .. k - 2 : j \in 1 .. k - 2
        BY <2>2, <1>1
    <3>2. f[1] = g[1]
        BY <3>1, <1>1 DEF Joins
    <3>3. \A j \in 1 + 1 .. k - 2 : s[j] = t[j]
        BY <3>1, <1>1
    <3>4. f[k - 2] = g[k - 2]
        BY <3>1, <3>2, <3>3, JoinsAgree
    <3>5. f[k - 1] = f[k - 2] \o <<>> /\ g[k - 1] = f[k - 2] \o s[k]
        BY <3>1, <3>4, <1>1, ZenonT(60) DEF Joins
    <3>6. f[k - 2] \in Seq(Int)
        BY <3>1, <1>1 DEF Joins
    <3>7. f[k - 2] \o <<>> = f[k - 2] /\ f[k - 2] \o s[k] \in Seq(Int)
        BY <3>6, <1>3, ConcatEmptySeq, ConcatProperties
    <3>8. g[k - 1] \o <<>> = f[k - 2] \o s[k]
        BY <3>5, <3>7, ConcatEmptySeq
    <3> QED BY <3>5, <3>7, <3>8, <1>3
  <2> QED BY <2>1, <2>2
<1>5. \A j \in k + 1 .. n : s[j] = t[j]
  <2>1. \A j \in k + 1 .. n : j \in 1 .. n /\ j # k - 1 /\ j # k
      BY <1>1
  <2> QED BY <2>1, <1>1
<1> QED BY <1>2, <1>4, <1>5, JoinsAgree

\* The first sequence goes.
Dropped(s, t, n) ==
    /\ \A i \in 1 .. n : s[i] \in Seq(Int)
    /\ t[1] = <<>> /\ \A i \in 2 .. n : t[i] = s[i]

LEMMA JoinsDrop ==
    ASSUME NEW n \in Nat \ {0}, NEW s, NEW t, NEW f, NEW g, Joins(f, s, n), Joins(g, t, n),
           Dropped(s, t, n)
    PROVE  f[n] = s[1] \o g[n]
<1>0. n \in 1 .. n /\ 1 \in 1 .. n
    OBVIOUS
<1>1. /\ \A i \in 1 .. n : s[i] \in Seq(Int)
      /\ t[1] = <<>> /\ \A i \in 2 .. n : t[i] = s[i]
    BY DEF Dropped
<1>2. s[1] \in Seq(Int)
    BY <1>0, <1>1
<1> DEFINE T == {j \in 1 .. n : f[j] # s[1] \o g[j]}
<1> SUFFICES ASSUME T # {} PROVE FALSE
    BY <1>0
<1>3. PICK j \in T : \A y \in T : j <= y
  <2>0. T \subseteq 1 .. n
      BY Zenon
  <2>1. T \subseteq Nat
    <3> HIDE DEF T
    <3> QED BY <2>0
  <2> HIDE DEF T
  <2> QED BY <2>1, LeastNumber
<1>4. j \in 1 .. n /\ f[j] # s[1] \o g[j]
    OBVIOUS
<1>5. j # 1
  <2>1. f[1] = s[1] /\ g[1] = <<>>
      BY <1>1 DEF Joins
  <2>2. s[1] \o g[1] = s[1]
      BY <2>1, <1>2, ConcatEmptySeq
  <2> QED BY <2>1, <2>2, <1>4
<1>6. j \in 2 .. n /\ j - 1 \in 1 .. n /\ ~(j <= j - 1)
    BY <1>0, <1>4, <1>5
<1>7. f[j - 1] = s[1] \o g[j - 1]
    BY <1>3, <1>6
<1>8. f[j] = f[j - 1] \o s[j] /\ g[j] = g[j - 1] \o s[j]
    BY <1>1, <1>6 DEF Joins
<1>9. g[j - 1] \in Seq(Int) /\ s[j] \in Seq(Int)
    BY <1>1, <1>4, <1>6 DEF Joins
<1>10. (s[1] \o g[j - 1]) \o s[j] = s[1] \o (g[j - 1] \o s[j])
    BY <1>2, <1>9, ConcatLines
<1> QED BY <1>4, <1>7, <1>8, <1>10

-------------------------------------------------------------------------------
(* The log that the files hold, as a function of the directory fs.         *)

Lines(fs, n) == IF n \in DOMAIN fs THEN fs[n] ELSE <<>>
Kept(fs) == [i \in 1 .. KeepFiles |-> Lines(fs, KeepFiles - i)]
HoldsLines(fs) == \A n \in 0 .. KeepFiles - 1 : Lines(fs, n) \in Seq(Int)
LogOf(fs) == FlattenSeq(Kept(fs))

LEMMA KeptIsLog == KeptLog = LogOf(files)
BY DEF KeptLog, LogOf, Kept, Lines, Present

LEMMA KeepTwo == KeepFiles \in Nat \ {0} /\ KeepFiles \in Nat /\ KeepFiles >= 2
BY RotatorAssumption

LEMMA KeptLines ==
    ASSUME NEW fs, HoldsLines(fs)
    PROVE  /\ \A i \in 1 .. KeepFiles : Kept(fs)[i] = Lines(fs, KeepFiles - i)
           /\ \A i \in 1 .. KeepFiles : Kept(fs)[i] \in Seq(Int)
           /\ \E f : Joins(f, Kept(fs), KeepFiles) /\ LogOf(fs) = f[KeepFiles]
<1>1. \A i \in 1 .. KeepFiles : KeepFiles - i \in 0 .. KeepFiles - 1
    BY KeepTwo
<1>2. \A i \in 1 .. KeepFiles : Kept(fs)[i] = Lines(fs, KeepFiles - i) /\ Kept(fs)[i] \in Seq(Int)
    BY <1>1 DEF Kept, HoldsLines
<1>3. Kept(fs) \in [1 .. KeepFiles -> Seq(Int)]
    BY <1>1 DEF Kept, HoldsLines
<1> QED BY <1>2, <1>3, KeepTwo, FlattenJoins DEF LogOf

LEMMA LogType ==
    ASSUME NEW fs, HoldsLines(fs)
    PROVE  LogOf(fs) \in Seq(Int)
<1>1. PICK f : Joins(f, Kept(fs), KeepFiles) /\ LogOf(fs) = f[KeepFiles]
    BY KeptLines
<1>2. KeepFiles \in 1 .. KeepFiles
    BY KeepTwo
<1> QED BY <1>1, <1>2 DEF Joins

LEMMA SameLog ==
    ASSUME NEW fs, NEW gs, \A n \in 0 .. KeepFiles - 1 : Lines(gs, n) = Lines(fs, n)
    PROVE  LogOf(gs) = LogOf(fs)
<1>1. \A i \in 1 .. KeepFiles : KeepFiles - i \in 0 .. KeepFiles - 1
    BY KeepTwo
<1>2. Kept(gs) = Kept(fs)
    BY <1>1 DEF Kept
<1> QED BY <1>2 DEF LogOf

LEMMA AppendToLog ==
    ASSUME NEW fs, NEW gs, HoldsLines(fs), NEW e \in Int,
           Lines(gs, 0) = Append(Lines(fs, 0), e),
           \A n \in 1 .. KeepFiles - 1 : Lines(gs, n) = Lines(fs, n)
    PROVE  HoldsLines(gs) /\ LogOf(gs) = Append(LogOf(fs), e)
<1>1. /\ \A i \in 1 .. KeepFiles - 1 : KeepFiles - i \in 1 .. KeepFiles - 1 /\ i \in 1 .. KeepFiles
      /\ KeepFiles \in 1 .. KeepFiles /\ KeepFiles - KeepFiles = 0 /\ 0 \in 0 .. KeepFiles - 1
      /\ \A n \in 0 .. KeepFiles - 1 : n = 0 \/ n \in 1 .. KeepFiles - 1
    BY KeepTwo
<1>2. HoldsLines(gs)
  <2>1. Lines(fs, 0) \in Seq(Int)
      BY <1>1 DEF HoldsLines
  <2>2. Append(Lines(fs, 0), e) \in Seq(Int)
      BY <2>1
  <2> QED BY <2>2, <1>1 DEF HoldsLines
<1>3. PICK s, f : /\ s = Kept(fs) /\ Joins(f, s, KeepFiles) /\ LogOf(fs) = f[KeepFiles]
                  /\ \A i \in 1 .. KeepFiles : s[i] = Lines(fs, KeepFiles - i) /\ s[i] \in Seq(Int)
    BY KeptLines
<1>4. PICK t, g : /\ t = Kept(gs) /\ Joins(g, t, KeepFiles) /\ LogOf(gs) = g[KeepFiles]
                  /\ \A i \in 1 .. KeepFiles : t[i] = Lines(gs, KeepFiles - i)
    BY <1>2, KeptLines
<1>5. \A i \in 1 .. KeepFiles - 1 : t[i] = s[i]
    BY <1>1, <1>3, <1>4
<1>6. t[KeepFiles] = Append(s[KeepFiles], e)
    BY <1>1, <1>3, <1>4
<1>7. g[KeepFiles] = Append(f[KeepFiles], e)
  <2>1. /\ Joins(f, s, KeepFiles) /\ Joins(g, t, KeepFiles)
        /\ \A i \in 1 .. KeepFiles : s[i] \in Seq(Int)
      BY <1>3, <1>4
  <2> QED BY <2>1, <1>5, <1>6, KeepTwo, JoinsAppend
<1> QED BY <1>2, <1>3, <1>4, <1>7

LEMMA MoveInLog ==
    ASSUME NEW fs, NEW gs, HoldsLines(fs), NEW k \in 0 .. KeepFiles - 2,
           Lines(fs, k + 1) = <<>>, Lines(gs, k + 1) = Lines(fs, k), Lines(gs, k) = <<>>,
           \A n \in 0 .. KeepFiles - 1 : n # k /\ n # k + 1 => Lines(gs, n) = Lines(fs, n)
    PROVE  HoldsLines(gs) /\ LogOf(gs) = LogOf(fs)
<1> DEFINE j == KeepFiles - k
<1>1. /\ \A i \in 1 .. KeepFiles : KeepFiles - i \in 0 .. KeepFiles - 1
      /\ j \in 2 .. KeepFiles /\ j \in 1 .. KeepFiles /\ j - 1 \in 1 .. KeepFiles
      /\ KeepFiles - j = k /\ KeepFiles - (j - 1) = k + 1
      /\ \A i \in 1 .. KeepFiles : i # j - 1 /\ i # j => KeepFiles - i # k /\ KeepFiles - i # k + 1
      /\ k \in 0 .. KeepFiles - 1
    BY KeepTwo
<1>2. HoldsLines(gs)
  <2>1. <<>> \in Seq(Int)
      OBVIOUS
  <2> QED BY <2>1, <1>1 DEF HoldsLines
<1> HIDE DEF j
<1>3. PICK s, f : /\ s = Kept(fs) /\ Joins(f, s, KeepFiles) /\ LogOf(fs) = f[KeepFiles]
                  /\ \A i \in 1 .. KeepFiles : s[i] = Lines(fs, KeepFiles - i) /\ s[i] \in Seq(Int)
    BY KeptLines
<1>4. PICK t, g : /\ t = Kept(gs) /\ Joins(g, t, KeepFiles) /\ LogOf(gs) = g[KeepFiles]
                  /\ \A i \in 1 .. KeepFiles : t[i] = Lines(gs, KeepFiles - i)
    BY <1>2, KeptLines
<1>5. \A i \in 1 .. KeepFiles : i # j - 1 /\ i # j => t[i] = s[i]
    BY <1>1, <1>3, <1>4
<1>6. s[j - 1] = <<>> /\ t[j - 1] = s[j] /\ t[j] = <<>>
    BY <1>1, <1>3, <1>4
<1>7. g[KeepFiles] = f[KeepFiles]
  <2>1. /\ Joins(f, s, KeepFiles) /\ Joins(g, t, KeepFiles)
        /\ \A i \in 1 .. KeepFiles : s[i] \in Seq(Int)
      BY <1>3, <1>4
  <2>2. Moved(s, t, KeepFiles, j)
      BY <2>1, <1>1, <1>5, <1>6 DEF Moved
  <2> QED BY <2>1, <2>2, KeepTwo, JoinsMove
<1> QED BY <1>2, <1>3, <1>4, <1>7

LEMMA DropFromLog ==
    ASSUME NEW fs, NEW gs, HoldsLines(fs), Lines(gs, KeepFiles - 1) = <<>>,
           \A n \in 0 .. KeepFiles - 2 : Lines(gs, n) = Lines(fs, n)
    PROVE  /\ HoldsLines(gs) /\ Lines(fs, KeepFiles - 1) \in Seq(Int)
           /\ LogOf(fs) = Lines(fs, KeepFiles - 1) \o LogOf(gs)
<1>1. /\ \A i \in 2 .. KeepFiles : KeepFiles - i \in 0 .. KeepFiles - 2 /\ i \in 1 .. KeepFiles
      /\ 1 \in 1 .. KeepFiles /\ KeepFiles - 1 \in 0 .. KeepFiles - 1
      /\ \A n \in 0 .. KeepFiles - 1 : n = KeepFiles - 1 \/ n \in 0 .. KeepFiles - 2
    BY KeepTwo
<1>2. HoldsLines(gs)
  <2>1. <<>> \in Seq(Int)
      OBVIOUS
  <2> QED BY <2>1, <1>1 DEF HoldsLines
<1>3. PICK s, f : /\ s = Kept(fs) /\ Joins(f, s, KeepFiles) /\ LogOf(fs) = f[KeepFiles]
                  /\ \A i \in 1 .. KeepFiles : s[i] = Lines(fs, KeepFiles - i) /\ s[i] \in Seq(Int)
    BY KeptLines
<1>4. PICK t, g : /\ t = Kept(gs) /\ Joins(g, t, KeepFiles) /\ LogOf(gs) = g[KeepFiles]
                  /\ \A i \in 1 .. KeepFiles : t[i] = Lines(gs, KeepFiles - i)
    BY <1>2, KeptLines
<1>5. t[1] = <<>> /\ s[1] = Lines(fs, KeepFiles - 1) /\ \A i \in 2 .. KeepFiles : t[i] = s[i]
    BY <1>1, <1>3, <1>4
<1>6. f[KeepFiles] = s[1] \o g[KeepFiles]
  <2>1. /\ Joins(f, s, KeepFiles) /\ Joins(g, t, KeepFiles)
        /\ \A i \in 1 .. KeepFiles : s[i] \in Seq(Int)
      BY <1>3, <1>4
  <2>2. Dropped(s, t, KeepFiles)
      BY <2>1, <1>5 DEF Dropped
  <2> QED BY <2>1, <2>2, KeepTwo, JoinsDrop
<1> QED BY <1>1, <1>2, <1>3, <1>4, <1>5, <1>6
\* The lines of the log are in order and older than the line that is being written.
LogInv ==
    /\ HoldsLines(files)
    /\ rpc = "create" => ~Present(0)
    /\ Sorted(LogOf(files))
    /\ \A n \in Range(LogOf(files)) : Past(n, "file")
    /\ rpc # "idle" => /\ line \in Nat /\ Past(line, "file")
                       /\ \A n \in Range(LogOf(files)) : n < line

\* What a step does to the log: nothing, or a line more, or the oldest lines go.
LogGrows == rpc # "idle" /\ rpc' = "idle" /\ LogOf(files') = Append(LogOf(files), line)
LogShrinks == \E s \in Seq(Int) : LogOf(files) = s \o LogOf(files')

LEMMA ExtraKeepsLog ==
    ASSUME LogInv, RotateExtra \/ RotateTrim
    PROVE  HoldsLines(files') /\ LogOf(files') = LogOf(files) /\ rpc' # "create"
<1>1. \/ files' = files
      \/ \E n \in DOMAIN files : KeepFiles <= n /\ files' = Without(n)
      \/ files' = Without(KeepFiles)
    BY DEF RotateExtra, RotateTrim
<1>2. rpc' # "create"
    BY DEF RotateExtra, RotateTrim, Fault
<1>3. ASSUME NEW n, files' = Without(n), n \notin 0 .. KeepFiles - 1
      PROVE  \A m \in 0 .. KeepFiles - 1 : Lines(files', m) = Lines(files, m)
    BY <1>3 DEF Without, Lines
<1>4. KeepFiles \notin 0 .. KeepFiles - 1 /\ \A n : KeepFiles <= n => n \notin 0 .. KeepFiles - 1
    BY KeepTwo
<1>5. \A m \in 0 .. KeepFiles - 1 : Lines(files', m) = Lines(files, m)
    BY <1>1, <1>3, <1>4
<1>6. HoldsLines(files')
    BY <1>5 DEF LogInv, HoldsLines
<1> QED BY <1>2, <1>5, <1>6, SameLog

LEMMA ShiftMovesLog ==
    ASSUME RotateInv, LogInv, RotateShift
    PROVE  /\ HoldsLines(files')
           /\ rpc' = "create" => ~Present(0)'
           /\ LogOf(files') = LogOf(files) \/ LogShrinks
<1>1. /\ file_no \in 0 .. KeepFiles - 1 /\ ~Present(file_no + 1)
      /\ file_no \in Int /\ HoldsLines(files)
    BY DEF RotateInv, RotateShift, LogInv
<1>2. CASE files' = files /\ rpc' = "idle"
    BY <1>1, <1>2
<1>3. CASE /\ files' = IF Present(file_no) THEN Renamed(file_no) ELSE files
           /\ rpc' = IF file_no = 0 THEN "create" ELSE "shift"
  <2>1. CASE ~Present(file_no)
      BY <2>1, <1>1, <1>3 DEF Present
  <2>2. CASE Present(file_no)
    <3>1. /\ file_no \in DOMAIN files /\ file_no + 1 \notin DOMAIN files /\ file_no # file_no + 1
          /\ files' = [m \in (DOMAIN files \ {file_no}) \cup {file_no + 1} |->
                          IF m = file_no + 1 THEN files[file_no] ELSE files[m]]
        BY <2>2, <1>1, <1>3 DEF Present, Renamed
    <3>2. /\ Lines(files, file_no + 1) = <<>> /\ Lines(files', file_no + 1) = Lines(files, file_no)
          /\ Lines(files', file_no) = <<>>
          /\ \A m : m # file_no /\ m # file_no + 1 => Lines(files', m) = Lines(files, m)
        BY <3>1 DEF Lines
    <3>3. rpc' = "create" => ~Present(0)'
        BY <3>1, <1>3 DEF Present
    <3>4. PICK k, gs : k = file_no /\ gs = files'
        OBVIOUS
    <3>5. CASE file_no = KeepFiles - 1
      <4>1. Lines(gs, KeepFiles - 1) = <<>> /\ \A m \in 0 .. KeepFiles - 2 : Lines(gs, m) = Lines(files, m)
        <5>1. \A m \in 0 .. KeepFiles - 2 : m # KeepFiles - 1 /\ m # KeepFiles - 1 + 1
            BY KeepTwo
        <5> QED BY <5>1, <3>2, <3>4, <3>5
      <4>2. /\ HoldsLines(gs) /\ Lines(files, KeepFiles - 1) \in Seq(Int)
            /\ LogOf(files) = Lines(files, KeepFiles - 1) \o LogOf(gs)
          BY <4>1, <1>1, DropFromLog
      <4> QED BY <4>2, <3>3, <3>4 DEF LogShrinks
    <3>6. CASE file_no # KeepFiles - 1
      <4>1. file_no \in 0 .. KeepFiles - 2
          BY <3>6, <1>1, KeepTwo
      <4>2. HoldsLines(gs) /\ LogOf(gs) = LogOf(files)
          BY <4>1, <3>2, <3>4, <1>1, MoveInLog
      <4> QED BY <4>2, <3>3, <3>4
    <3> QED BY <3>5, <3>6
  <2> QED BY <2>1, <2>2
<1> QED BY <1>2, <1>3, ShiftKinds

LEMMA WriteMovesLog ==
    ASSUME LogInv, Write
    PROVE  HoldsLines(files') /\ rpc' = "idle" /\ (LogOf(files') = LogOf(files) \/ LogGrows)
<1>1. HoldsLines(files) /\ line \in Nat /\ line \in Int /\ rpc # "idle" /\ rpc' = "idle"
    BY DEF LogInv, Write, Fault
<1>2. CASE files' = files
    BY <1>1, <1>2
<1>3. CASE files' = [files EXCEPT ![0] = Append(@, line)] /\ 0 \notin DOMAIN files
  <2>1. \A m \in 0 .. KeepFiles - 1 : Lines(files', m) = Lines(files, m)
      BY <1>3 DEF Lines
  <2>2. HoldsLines(files')
      BY <2>1, <1>1 DEF HoldsLines
  <2> QED BY <1>1, <2>1, <2>2, SameLog
<1>4. CASE files' = [files EXCEPT ![0] = Append(@, line)] /\ 0 \in DOMAIN files
  <2>1. Lines(files', 0) = Append(Lines(files, 0), line)
      BY <1>4 DEF Lines
  <2>2. \A m \in 1 .. KeepFiles - 1 : Lines(files', m) = Lines(files, m)
      BY <1>4 DEF Lines
  <2>3. HoldsLines(files') /\ LogOf(files') = Append(LogOf(files), line)
      BY <2>1, <2>2, <1>1, AppendToLog
  <2> QED BY <2>3, <1>1 DEF LogGrows
<1> QED BY <1>2, <1>3, <1>4 DEF Write

LEMMA RotatorMovesLog ==
    ASSUME RotateInv, LogInv, RotatorStep
    PROVE  /\ HoldsLines(files') /\ rpc # "idle" /\ line' = line
           /\ rpc' = "create" => ~Present(0)'
           /\ LogOf(files') = LogOf(files) \/ LogGrows \/ LogShrinks
<1>1. rpc # "idle" /\ line' = line
    BY DEF RotatorStep, RotateStep, RotateClose, RotateExtra, RotateShift, RotateCreate, RotateTrim, Write
<1>2. CASE RotateClose
    BY <1>1, <1>2 DEF RotateClose, Fault, LogInv
<1>3. CASE RotateCreate
  <2>1. rpc' # "create" /\ HoldsLines(files) /\ 0 \notin DOMAIN files
      BY <1>3 DEF RotateCreate, Fault, LogInv, Present
  <2>2. \/ files' = files
        \/ files' = [m \in DOMAIN files \cup {0} |-> IF m = 0 THEN <<>> ELSE files[m]]
      BY <1>3 DEF RotateCreate
  <2>3. \A m \in 0 .. KeepFiles - 1 : Lines(files', m) = Lines(files, m)
      BY <2>1, <2>2 DEF Lines
  <2>4. HoldsLines(files')
      BY <2>1, <2>3 DEF HoldsLines
  <2> QED BY <1>1, <2>1, <2>3, <2>4, SameLog
<1>4. CASE RotateExtra \/ RotateTrim
    BY <1>1, <1>4, ExtraKeepsLog
<1>5. CASE RotateShift
    BY <1>1, <1>5, ShiftMovesLog
<1>6. CASE Write
    BY <1>1, <1>6, WriteMovesLog
<1> QED BY <1>2, <1>3, <1>4, <1>5, <1>6 DEF RotatorStep, RotateStep

LEMMA EndOfSorted ==
    ASSUME NEW s \in Seq(Int), NEW t \in Seq(Int), Sorted(s \o t)
    PROVE  Sorted(t) /\ Range(t) \subseteq Range(s \o t)
<1>1. /\ Len(s) \in Nat /\ Len(t) \in Nat /\ s \o t \in Seq(Int) /\ Len(s \o t) = Len(s) + Len(t)
      /\ \A i \in 1 .. Len(s) + Len(t) : (s \o t)[i] = IF i <= Len(s) THEN s[i] ELSE t[i - Len(s)]
    BY ConcatProperties
<1>2. \A i \in 1 .. Len(t) : /\ i + Len(s) \in 1 .. Len(s \o t) /\ ~(i + Len(s) <= Len(s))
                             /\ (i + Len(s)) - Len(s) = i
    BY <1>1
<1>3. \A i \in 1 .. Len(t) : i + Len(s) \in 1 .. Len(s \o t) /\ t[i] = (s \o t)[i + Len(s)]
    BY <1>1, <1>2
<1>4. Sorted(t)
  <2> SUFFICES ASSUME NEW i \in 1 .. Len(t), NEW j \in 1 .. Len(t), i < j PROVE t[i] < t[j]
      BY DEF Sorted
  <2>1. i + Len(s) < j + Len(s)
      BY <1>1
  <2>2. (s \o t)[i + Len(s)] < (s \o t)[j + Len(s)]
      BY <2>1, <1>3 DEF Sorted
  <2> QED BY <2>2, <1>3
<1>5. /\ Range(t) = {t[i] : i \in 1 .. Len(t)}
      /\ Range(s \o t) = {(s \o t)[i] : i \in 1 .. Len(s \o t)}
    BY <1>1, RangeEquality
<1> QED BY <1>3, <1>4, <1>5

LEMMA RotatorKeepsOrder ==
    ASSUME RotateInv, LogInv, RotatorStep
    PROVE  /\ Sorted(LogOf(files'))
           /\ Range(LogOf(files')) \subseteq Range(LogOf(files)) \cup {line}
           /\ rpc' # "idle" => Range(LogOf(files')) \subseteq Range(LogOf(files))
<1>1. /\ HoldsLines(files) /\ Sorted(LogOf(files))
      /\ HoldsLines(files') /\ rpc # "idle"
      /\ LogOf(files') = LogOf(files) \/ LogGrows \/ LogShrinks
    BY RotatorMovesLog DEF LogInv
<1>2. line \in Int /\ \A n \in Range(LogOf(files)) : n < line
    BY <1>1 DEF LogInv
<1>3. LogOf(files) \in Seq(Int) /\ LogOf(files') \in Seq(Int)
    BY <1>1, LogType
<1>4. CASE LogOf(files') = LogOf(files)
    BY <1>1, <1>4
<1>5. CASE LogGrows
  <2>1. LogOf(files') = Append(LogOf(files), line) /\ rpc' = "idle"
      BY <1>5 DEF LogGrows
  <2> QED BY <1>1, <1>2, <1>3, <2>1, AppendToSorted
<1>6. CASE LogShrinks
  <2>1. PICK s \in Seq(Int) : LogOf(files) = s \o LogOf(files')
      BY <1>6 DEF LogShrinks
  <2> QED BY <1>1, <1>3, <2>1, EndOfSorted
<1> QED BY <1>1, <1>4, <1>5, <1>6

LEMMA LogStep == PipelineInv /\ RotateInv /\ LogInv /\ [Next]_vars => LogInv'
<1> SUFFICES ASSUME PipelineInv, RotateInv, LogInv, [Next]_vars PROVE LogInv'
    OBVIOUS
<1>1. "file" \in OutputNames /\ \A n \in Int : Past(n, "file") => Past(n, "file")'
    BY PipelineStep DEF OutputNames
<1>2. LogOf(files) \in Seq(Int) /\ Range(LogOf(files)) \subseteq Int
  <2>1. LogOf(files) \in Seq(Int)
      BY LogType DEF LogInv
  <2> QED BY <2>1, RangeOfSeq
<1>3. \A n \in Range(LogOf(files)) : n \in Int /\ Past(n, "file") /\ Past(n, "file")'
    BY <1>1, <1>2 DEF LogInv
<1>4. CASE FileStep
  <2>1. RotatorStep
      BY <1>4 DEF FileStep
  <2>2. PICK e : e = line
      OBVIOUS
  <2>3. /\ HoldsLines(files') /\ rpc # "idle" /\ line' = e
        /\ rpc' = "create" => ~Present(0)'
      BY <2>1, <2>2, RotatorMovesLog
  <2>4. e \in Nat /\ Past(e, "file")' /\ \A n \in Range(LogOf(files)) : n < e
      BY <1>1, <2>2, <2>3 DEF LogInv
  <2>5. /\ Sorted(LogOf(files'))
        /\ Range(LogOf(files')) \subseteq Range(LogOf(files)) \cup {e}
        /\ rpc' # "idle" => Range(LogOf(files')) \subseteq Range(LogOf(files))
      BY <2>1, <2>2, RotatorKeepsOrder
  <2>6. \A n \in Range(LogOf(files')) : Past(n, "file")'
      BY <1>3, <2>4, <2>5
  <2>7. Past(line, "file")'
      BY <2>3, <2>4 DEF Past
  <2> QED BY <2>3, <2>4, <2>5, <2>6, <2>7 DEF LogInv
<1>5. CASE /\ publishEventOutput /\ Output[publishing.next] = "file"
           /\ WriteLine(publishing.id)
  <2>1. PICK e : e = publishing.id
      OBVIOUS
  <2>2. e \in Nat /\ Past(e, "file")' /\ \A n \in Int : Past(n, "file") => n < e
      BY <1>1, <1>5, <2>1, OutputIsGivenNewest
  <2>3. files' = files /\ line' = e /\ rpc' # "create"
      BY <1>5, <2>1 DEF WriteLine
  <2>4. Past(line, "file")'
      BY <2>2, <2>3 DEF Past
  <2>5. \A n \in Range(LogOf(files)) : n < e
      BY <1>3, <2>2
  <2> QED BY <1>3, <2>2, <2>3, <2>4, <2>5 DEF LogInv
<1>6. CASE CrashRestart
  <2>1. files' = files /\ rpc' = "idle"
      BY <1>6 DEF CrashRestart, RotatorRestart
  <2> QED BY <1>3, <2>1 DEF LogInv
<1>7. CASE UNCHANGED fileVars
  <2>1. files' = files /\ rpc' = rpc /\ line' = line
      BY <1>7 DEF fileVars
  <2>2. ASSUME rpc # "idle" PROVE Past(line, "file")'
    <3>1. PICK e : e = line
        OBVIOUS
    <3>2. e \in Nat /\ Past(e, "file")
        BY <2>2, <3>1 DEF LogInv
    <3>3. Past(e, "file")' /\ line' = e
        BY <1>1, <2>1, <3>1, <3>2
    <3> QED BY <3>3 DEF Past
  <2> QED BY <1>3, <2>1, <2>2 DEF LogInv, Present
<1> QED BY <1>4, <1>5, <1>6, <1>7, FileSteps

\* The concatenation of lists of at most one number each, the i-th of them i - k.
LEMMA JoinsOfNumbers ==
    ASSUME NEW n \in Nat \ {0}, NEW k \in Int, NEW s, NEW f, Joins(f, s, n),
           \A i \in 1 .. n : s[i] = <<>> \/ s[i] = <<i - k>>
    PROVE  Sorted(f[n]) /\ \A x \in Range(f[n]) : x <= n - k
<1> DEFINE Good(j) == Sorted(f[j]) /\ \A x \in Range(f[j]) : x <= j - k
           T == {j \in 1 .. n : ~Good(j)}
<1>0. n \in 1 .. n
    OBVIOUS
<1> SUFFICES ASSUME T # {} PROVE FALSE
    BY <1>0
<1> HIDE DEF Good
<1>1. PICK j \in T : \A y \in T : j <= y
  <2>1. T \subseteq Nat
      OBVIOUS
  <2> HIDE DEF T
  <2> QED BY <2>1, LeastNumber
<1>2. j \in 1 .. n /\ j \in Nat /\ j - k \in Int /\ ~Good(j) /\ (s[j] = <<>> \/ s[j] = <<j - k>>)
    OBVIOUS
<1>3. \A r \in Seq(Int) : r \o <<>> = r /\ r \o <<j - k>> = Append(r, j - k) /\ <<>> \o r = r
    BY <1>2, AppendIsConcat, ConcatEmptySeq
<1>4. PICK r \in Seq(Int) : /\ f[j] = r \o s[j] /\ Sorted(r)
                            /\ \A x \in Range(r) : x \in Int /\ x < j - k
  <2>1. CASE j = 1
    <3>1. s[1] \in Seq(Int) /\ f[1] = s[1]
        BY <1>0 DEF Joins
    <3>2. f[j] = <<>> \o s[j]
        BY <3>1, <2>1, <1>3
    <3>3. <<>> \in Seq(Int) /\ Sorted(<<>>) /\ Range(<<>>) = {}
        BY NothingInEmpty
    <3> QED BY <3>2, <3>3
  <2>2. CASE j # 1
    <3>1. j - 1 \in 1 .. n /\ ~(j <= j - 1) /\ j \in 2 .. n
        BY <1>2, <2>2
    <3>2. Good(j - 1)
        BY <1>1, <3>1
    <3>3. f[j] = f[j - 1] \o s[j] /\ f[j - 1] \in Seq(Int)
        BY <3>1 DEF Joins
    <3>4. Range(f[j - 1]) \subseteq Int
        BY <3>3, RangeOfSeq
    <3>5. \A x \in Range(f[j - 1]) : x \in Int /\ x < j - k
      <4>1. ASSUME NEW x \in Int, x <= (j - 1) - k PROVE x < j - k
          BY <4>1, <1>2
      <4> QED BY <4>1, <3>2, <3>4 DEF Good
    <3> QED BY <3>2, <3>3, <3>5 DEF Good
  <2> QED BY <2>1, <2>2
<1>5. CASE s[j] = <<>>
  <2>1. f[j] = r
      BY <1>3, <1>4, <1>5
  <2>2. \A x \in Range(r) : x <= j - k
    <3>1. \A x \in Int : x < j - k => x <= j - k
        BY <1>2
    <3> QED BY <3>1, <1>4
  <2> QED BY <1>2, <1>4, <2>1, <2>2 DEF Good
<1>6. CASE s[j] = <<j - k>>
  <2>1. f[j] = Append(r, j - k)
      BY <1>3, <1>4, <1>6
  <2>2. Sorted(f[j]) /\ Range(f[j]) = Range(r) \cup {j - k}
    <3>1. PICK e \in Int : e = j - k
        BY <1>2
    <3> QED BY <1>4, <2>1, <3>1, AppendToSorted
  <2>3. \A x \in Range(f[j]) : x <= j - k
    <3>1. \A x \in Int : x < j - k \/ x = j - k => x <= j - k
        BY <1>2
    <3> QED BY <3>1, <2>2, <1>2, <1>4
  <2> QED BY <1>2, <2>2, <2>3 DEF Good
<1> QED BY <1>2, <1>5, <1>6

LEMMA LogInit == Init => LogInv
<1> SUFFICES ASSUME Init PROVE LogInv
    OBVIOUS
<1>1. PICK n \in 0 .. RotatorMaxFiles - 1 : files = [m \in 0 .. n - 1 |-> <<-m>>]
    BY DEF Init, RotatorInit
<1>2. n \in Int /\ KeepFiles \in Int /\ KeepFiles \in Nat \ {0}
    BY RotatorAssumption, KeepTwo
<1>3. \A m \in Nat : Lines(files, m) = <<>> \/ Lines(files, m) = <<-m>>
    BY <1>1 DEF Lines
<1>4. HoldsLines(files)
  <2>1. \A m \in 0 .. KeepFiles - 1 : m \in Nat /\ <<-m>> \in Seq(Int) /\ <<>> \in Seq(Int)
      BY <1>2, NothingInEmpty
  <2> QED BY <1>3, <2>1 DEF HoldsLines
<1>5. PICK f : Joins(f, Kept(files), KeepFiles) /\ LogOf(files) = f[KeepFiles]
    BY <1>4, KeptLines
<1>6. \A i \in 1 .. KeepFiles : Kept(files)[i] = <<>> \/ Kept(files)[i] = <<i - KeepFiles>>
  <2>1. \A i \in 1 .. KeepFiles : KeepFiles - i \in Nat /\ -(KeepFiles - i) = i - KeepFiles
      BY <1>2
  <2>2. \A i \in 1 .. KeepFiles : Kept(files)[i] = Lines(files, KeepFiles - i)
      BY <1>4, KeptLines
  <2> QED BY <1>3, <2>1, <2>2
<1>7. Sorted(LogOf(files)) /\ \A x \in Range(LogOf(files)) : x <= KeepFiles - KeepFiles
    BY <1>2, <1>5, <1>6, JoinsOfNumbers
<1>8. Range(LogOf(files)) \subseteq Int
    BY <1>4, LogType, RangeOfSeq
<1>9. \A x \in Range(LogOf(files)) : Past(x, "file")
  <2>1. /\ FiltersQueue = <<>> /\ event = None /\ results = <<>> /\ submitted = 0 /\ publishing = NoEvent
        /\ rpc = "idle"
      BY DEF Init, FilterInit, RotatorInit
  <2>2. \A x \in Range(LogOf(files)) : x \in Int /\ x <= 0
      BY <1>2, <1>7, <1>8
  <2> QED BY <2>1, <2>2 DEF Past, Coming
<1>10. rpc = "idle"
    BY DEF Init, RotatorInit
<1> QED BY <1>4, <1>7, <1>9, <1>10 DEF LogInv

\* A line more at the end of the log is the abstract AppendLine.
LEMMA GrowIsAppendLine ==
    ASSUME NEW r \in Seq(Int), NEW t, NEW e \in Int, t = Append(r, e)
    PROVE  Len(t) = Len(r) + 1 /\ SubSeq(t, 1, Len(r)) = r
<1>1. /\ Len(r) \in Nat /\ t \in Seq(Int) /\ Len(t) = Len(r) + 1
      /\ \A i \in 1 .. Len(r) : t[i] = r[i] /\ r[i] \in Int
    BY AppendProperties
<1>2. /\ SubSeq(t, 1, Len(r)) \in Seq(Int) /\ Len(SubSeq(t, 1, Len(r))) = Len(r)
      /\ \A i \in 1 .. Len(r) : SubSeq(t, 1, Len(r))[i] = t[i]
  <2>1. \A i \in 1 .. Len(r) : 1 + i - 1 = i /\ i \in 1 .. Len(r) - 1 + 1
      BY <1>1
  <2>2. (IF 1 <= Len(r) THEN Len(r) - 1 + 1 ELSE 0) = Len(r)
      BY <1>1
  <2>3. \A i \in 1 .. Len(r) : t[i] \in Int
      BY <1>1
  <2> QED BY <1>1, <2>1, <2>2, <2>3, SubSeqProperties
<1> QED BY <1>1, <1>2, SeqEqual

\* The loss of the oldest lines is the abstract DropOldest.
LEMMA ShrinkIsDropOldest ==
    ASSUME NEW s \in Seq(Int), NEW r \in Seq(Int), NEW t \in Seq(Int), r = s \o t
    PROVE  t = r \/ \E n \in 1 .. Len(r) : t = SubSeq(r, n + 1, Len(r))
<1>1. Len(s) \in Nat /\ Len(t) \in Nat /\ Len(r) = Len(s) + Len(t)
    BY ConcatProperties
<1>2. CASE s = <<>>
    BY <1>2, ConcatEmptySeq
<1>3. CASE s # <<>>
  <2>1. Len(s) \in 1 .. Len(r)
      BY <1>1, <1>3, EmptySeq
  <2>2. t = SubSeq(r, Len(s) + 1, Len(r))
    <3>1. /\ r \in Seq(Int) /\ \A i \in 1 .. Len(t) : /\ i + Len(s) \in 1 .. Len(r)
                                                      /\ ~(i + Len(s) <= Len(s))
                                                      /\ (i + Len(s)) - Len(s) = i
                                                      /\ (Len(s) + 1) + i - 1 = i + Len(s)
        BY <1>1
    <3>2. \A i \in 1 .. Len(t) : r[i + Len(s)] = t[i]
        BY <3>1, <1>1, ConcatProperties
    <3>3. \A i \in Len(s) + 1 .. Len(r) : i \in 1 .. Len(r) /\ r[i] \in Int
        BY <1>1
    <3>4. (IF Len(s) + 1 <= Len(r) THEN Len(r) - (Len(s) + 1) + 1 ELSE 0) = Len(t)
        BY <1>1
    <3>5. 1 .. Len(r) - (Len(s) + 1) + 1 = 1 .. Len(t) /\ Len(s) + 1 \in Int /\ Len(r) \in Int
        BY <1>1
    <3>6. /\ SubSeq(r, Len(s) + 1, Len(r)) \in Seq(Int)
          /\ Len(SubSeq(r, Len(s) + 1, Len(r))) = Len(t)
          /\ \A i \in 1 .. Len(t) : SubSeq(r, Len(s) + 1, Len(r))[i] = r[(Len(s) + 1) + i - 1]
        BY <3>3, <3>4, <3>5, SubSeqProperties
    <3>7. \A i \in 1 .. Len(t) : SubSeq(r, Len(s) + 1, Len(r))[i] = t[i]
        BY <3>1, <3>2, <3>6
    <3> QED BY <3>6, <3>7, SeqEqual
  <2> QED BY <2>1, <2>2
<1> QED BY <1>2, <1>3

LEMMA LogStepKinds ==
    ASSUME RotateInv, LogInv, [Next]_vars
    PROVE  LogOf(files') = LogOf(files) \/ LogGrows \/ LogShrinks
<1>1. CASE FileStep
    BY <1>1, RotatorMovesLog DEF FileStep
<1>2. CASE WriteLine(publishing.id) \/ CrashRestart \/ UNCHANGED fileVars
  <2>1. files' = files
      BY <1>2 DEF WriteLine, CrashRestart, RotatorRestart, fileVars
  <2> QED BY <2>1
<1> QED BY <1>1, <1>2, FileSteps

LEMMA LogStepRefines ==
    ASSUME RotateInv, LogInv, LogInv', [Next]_vars
    PROVE  [Log!AppendLine \/ Log!DropOldest]_KeptLog
<1>1. KeptLog = LogOf(files) /\ KeptLog' = LogOf(files')
    BY DEF KeptLog, LogOf, Kept, Lines, Present
<1>2. PICK r, t : r = LogOf(files) /\ t = LogOf(files')
    OBVIOUS
<1>3. HoldsLines(files) /\ HoldsLines(files') /\ Sorted(t)
    BY <1>2 DEF LogInv
<1>4. r \in Seq(Int) /\ t \in Seq(Int)
    BY <1>2, <1>3, LogType
<1>5. CASE t = r
    BY <1>1, <1>2, <1>5
<1>6. CASE LogGrows
  <2>1. PICK e : e = line
      OBVIOUS
  <2>2. e \in Int /\ t = Append(r, e)
      BY <1>2, <1>6, <2>1 DEF LogGrows, LogInv
  <2>3. Len(t) = Len(r) + 1 /\ SubSeq(t, 1, Len(r)) = r
      BY <1>4, <2>2, GrowIsAppendLine
  <2> QED BY <1>1, <1>2, <1>3, <2>3 DEF Log!AppendLine, Log!InOrder, Sorted
<1>7. CASE LogShrinks
  <2>1. PICK s \in Seq(Int) : r = s \o t
      BY <1>2, <1>7 DEF LogShrinks
  <2>2. t = r \/ \E n \in 1 .. Len(r) : t = SubSeq(r, n + 1, Len(r))
      BY <1>4, <2>1, ShrinkIsDropOldest
  <2> QED BY <1>1, <1>2, <2>2 DEF Log!DropOldest
<1> QED BY <1>2, <1>5, <1>6, <1>7, LogStepKinds

\* The rotated files implement the log that only grows at its end and loses only its
\* oldest lines, for any number of files kept, of lines in a file, of files left by
\* an earlier run, of failed system calls and of crashes in the middle of a rotation.
THEOREM FilesImplementLog == Spec => FilesAreBoundedLog
<1>1. LogInv => Log!InOrder(KeptLog)
    BY KeptIsLog DEF LogInv, Sorted, Log!InOrder
<1>2. PipelineInv /\ [Next]_vars => PipelineInv'
    BY PipelineStep
<1>3. RotateInv /\ LogInv /\ LogInv' /\ [Next]_vars => [Log!AppendLine \/ Log!DropOldest]_KeptLog
    BY LogStepRefines
<1> QED BY <1>1, <1>2, <1>3, PipelineInit, RotateInit, RotateStepInv, LogInit, LogStep, PTL
        DEF Spec, FilesAreBoundedLog, Log!Spec
===============================================================================
