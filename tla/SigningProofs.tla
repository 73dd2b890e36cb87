----------------------------- MODULE SigningProofs -----------------------------
(***************************************************************************)
(* What the service does about an image event.  The signing queue loses no *)
(* event, dispatches none twice and keeps the order of a file's events     *)
(* (SigningPipeline); the caches are whole and what is dispatched of a     *)
(* load is of its own file (SlotCache, ImageEnrichment): for any number of *)
(* workers, files, names and events and any limits.                        *)
(*                                                                         *)
(* An event that waits is on the item of its file, of which there is one,  *)
(* or in the batch of the worker that holds this item; the batch is older  *)
(* than what is on the item, and whatever was sent of the file is older    *)
(* than both.  So no event is in two places, and no other worker can       *)
(* overtake the one that holds the file's item.  The counts that the       *)
(* property speaks of follow from these facts at the end.                  *)
(*                                                                         *)
(* A chain of a cache is a sequence of slots without repetition, which     *)
(* each operation shortens or lengthens by one; a lookup answers what was  *)
(* stored under its key (Knows).  A verification reads the file up to five *)
(* times, and what each attempt read is one more step in the history of    *)
(* the file, which only grows: a verdict once right stays right.           *)
(***************************************************************************)
EXTENDS SigningPipeline, ImageEnrichment, SequenceLemmas

SignPlaces == {"none", "test", "wait", "pop", "detach", "enrich", "send", "yield", "done"}
WorkItems == [file : Files, pending : Seq(Nat)]

SignTypes ==
    /\ arrived \in Seq(Files)
    /\ signQueue \in Seq(Nat \ {0}) /\ signActive \in Seq(Nat \ {0})
    /\ signItem \in Seq(WorkItems)
    /\ signWorker \in [SignWorkers -> [at : SignPlaces, item : Nat, batch : Seq(Nat)]]
    /\ sent \in Seq([event : Nat, enriched : BOOLEAN])
    /\ signDepth = Len(signQueue)

\* Each item is on one list once, and of another file than the others.
SignListsFit ==
    /\ IsInjective(signQueue) /\ IsInjective(signActive)
    /\ ToSet(signQueue) \cap ToSet(signActive) = {}
    /\ SignListed \subseteq DOMAIN signItem
    /\ \A i, j \in SignListed : signItem[i].file = signItem[j].file => i = j

\* A worker holds an active item, which no other worker does, and a batch from then
\* on until it has sent it.
HoldsItem(w) == signWorker[w].at \in {"detach", "enrich", "send"}
SignWorkersFit ==
    /\ \A w \in SignWorkers : HoldsItem(w) => signWorker[w].item \in ToSet(signActive)
    /\ \A v, w \in SignWorkers :
          HoldsItem(v) /\ HoldsItem(w) /\ signWorker[v].item = signWorker[w].item => v = w
    /\ \A w \in SignWorkers :
          signWorker[w].batch # <<>> <=> signWorker[w].at \in {"enrich", "send"}

\* The events of an item, and of a batch, are those of a file, in their order.
Increasing(s) == \A j, k \in DOMAIN s : j < k => s[j] < s[k]
EventsAre(s, file) ==
    Increasing(s) /\ \A e \in ToSet(s) : e \in DOMAIN arrived /\ arrived[e] = file
BatchIsOf(batch, i) ==
    /\ EventsAre(batch, signItem[i].file)
    /\ \A e \in ToSet(batch), d \in ToSet(signItem[i].pending) : e < d
SignEventsFit ==
    /\ \A i \in SignListed : EventsAre(signItem[i].pending, signItem[i].file)
    /\ \A w \in SignWorkers : HoldsItem(w) => BatchIsOf(signWorker[w].batch, signWorker[w].item)

\* An event that waits was neither sent nor freed, and none was both or was sent twice.
WaitsOnItem(e) == \E i \in SignListed : e \in ToSet(signItem[i].pending)
WaitsInBatch(e) == \E w \in SignWorkers : e \in ToSet(signWorker[w].batch)
SignPlacesDiffer ==
    /\ \A e \in DOMAIN arrived :
          \/ WaitsOnItem(e) \/ WaitsInBatch(e) \/ e \in freed
          \/ \E k \in DOMAIN sent : sent[k].event = e
    /\ \A k \in DOMAIN sent :
          /\ sent[k].event \in DOMAIN arrived /\ sent[k].event \notin freed
          /\ ~WaitsOnItem(sent[k].event) /\ ~WaitsInBatch(sent[k].event)
    /\ \A e \in freed : e \in DOMAIN arrived /\ ~WaitsOnItem(e) /\ ~WaitsInBatch(e)
    /\ \A j, k \in DOMAIN sent : sent[j].event = sent[k].event => j = k

\* What was sent of a file is older than what waits of it.
SentIsOlder ==
    \A k \in DOMAIN sent : \A e \in DOMAIN arrived :
        /\ sent[k].enriched /\ arrived[sent[k].event] = arrived[e]
        /\ WaitsOnItem(e) \/ WaitsInBatch(e)
        => sent[k].event < e

\* The lists are empty before the events come, and after the cleanup.
SignPhases ==
    /\ signMain \in {"start", "failed", "stopped"} => signQueue = <<>> /\ signActive = <<>>
    /\ signMain = "stopped" => SignWorkersGone

\* The counter of the pending events is their number on the lists.
PendingOn == [i \in SignListed |-> Len(signItem[i].pending)]
PendingCounted == signPending = TotalOf(PendingOn, SignListed)

SignInv ==
    /\ SignTypes /\ SignListsFit /\ SignWorkersFit /\ SignEventsFit /\ SignPlacesDiffer
    /\ FileEventsInOrder /\ SentIsOlder /\ SignPhases /\ PendingCounted

\* At the start there is nothing.
LEMMA SignInitially == SignInit => SignInv
<1> SUFFICES ASSUME SignInit PROVE SignInv
  OBVIOUS
<1> USE DEF SignInit
<1>1. /\ \A S : <<>> \in Seq(S) 
      /\ Len(<<>>) = 0 /\ DOMAIN <<>> = {} /\ ToSet(<<>>) = {} /\ IsInjective(<<>>)
  BY EmptySeq DEF ToSet, IsInjective
<1>2. SignListed = {}
  BY <1>1 DEF SignListed
<1>3. SignTypes
  BY <1>1 DEF SignTypes, SignPlaces, NoWorkItem
<1>4. SignListsFit /\ SignWorkersFit /\ SignEventsFit
  BY <1>1, <1>2 DEF SignListsFit, SignWorkersFit, SignEventsFit, HoldsItem
<1>5. SignPlacesDiffer /\ FileEventsInOrder /\ SentIsOlder /\ SignPhases
  BY <1>1 DEF SignPlacesDiffer, FileEventsInOrder, SentIsOlder, SignPhases
<1>6. PendingCounted
  BY <1>2, TotalEmpty DEF PendingCounted
<1> QED
  BY <1>3, <1>4, <1>5, <1>6 DEF SignInv

\* Steps of the threads that move no item and no event.
LEMMA QuietKeepsSign ==
    ASSUME SignInv,
           UNCHANGED <<signQueue, signActive, signItem, signDepth, signPending, arrived, sent, freed>>,
           signWorker' \in [SignWorkers -> [at : SignPlaces, item : Nat, batch : Seq(Nat)]],
           \A w \in SignWorkers :
              /\ signWorker'[w].batch = signWorker[w].batch /\ signWorker'[w].item = signWorker[w].item
              /\ signWorker'[w].at # signWorker[w].at =>
                    \/ ~HoldsItem(w) /\ ~HoldsItem(w)'
                    \/ signWorker[w].at = "enrich" /\ signWorker'[w].at = "send",
           SignPhases'
    PROVE  SignInv'
<1>1. ASSUME NEW w \in SignWorkers
      PROVE  /\ HoldsItem(w)' <=> HoldsItem(w)
             /\ signWorker'[w].at \in {"enrich", "send"} <=> signWorker[w].at \in {"enrich", "send"}
  BY DEF HoldsItem
<1>2. SignListed' = SignListed
  BY DEF SignListed
<1>3. SignTypes' /\ SignListsFit'
  BY <1>2 DEF SignInv, SignTypes, SignListsFit
<1>4. SignWorkersFit'
  BY <1>1 DEF SignInv, SignWorkersFit
<1>5. SignEventsFit'
  <2>1. \A i \in SignListed' : EventsAre(signItem[i].pending, signItem[i].file)'
    BY <1>2 DEF SignInv, SignEventsFit, EventsAre, Increasing
  <2>2. ASSUME NEW w \in SignWorkers, HoldsItem(w)'
        PROVE  BatchIsOf(signWorker[w].batch, signWorker[w].item)'
    BY <1>1, <2>2 DEF SignInv, SignEventsFit, BatchIsOf, EventsAre, Increasing
  <2> QED
    BY <2>1, <2>2 DEF SignEventsFit
<1>6. \A e : (WaitsOnItem(e)' <=> WaitsOnItem(e)) /\ (WaitsInBatch(e)' <=> WaitsInBatch(e))
  BY <1>2 DEF WaitsOnItem, WaitsInBatch
<1>7. SignPlacesDiffer' /\ SentIsOlder'
  BY <1>6 DEF SignInv, SignPlacesDiffer, SentIsOlder
<1>8. FileEventsInOrder' /\ PendingCounted'
  BY <1>2 DEF SignInv, FileEventsInOrder, PendingCounted, PendingOn
<1> QED
  BY <1>3, <1>4, <1>5, <1>7, <1>8 DEF SignInv

\* A worker that only goes elsewhere.
LEMMA MovesKeepSign ==
    ASSUME SignInv, NEW w \in SignWorkers, NEW a \in SignPlaces, SignMoves(w, a),
           UNCHANGED <<signQueue, signActive, signItem, signDepth, signPending, arrived, sent, freed>>,
           \/ ~HoldsItem(w) /\ a \notin {"detach", "enrich", "send"}
           \/ signWorker[w].at = "enrich" /\ a = "send",
           SignPhases'
    PROVE  SignInv'
<1>1. signWorker' \in [SignWorkers -> [at : SignPlaces, item : Nat, batch : Seq(Nat)]]
  BY DEF SignInv, SignTypes, SignMoves
<1>2. \A v \in SignWorkers :
        /\ signWorker'[v].batch = signWorker[v].batch /\ signWorker'[v].item = signWorker[v].item
        /\ signWorker'[v].at = IF v = w THEN a ELSE signWorker[v].at
  BY DEF SignInv, SignTypes, SignMoves
<1> QED
  BY <1>1, <1>2, QuietKeepsSign DEF HoldsItem

\* The steps that move nothing: starting, signalling, waiting and stopping.
LEMMA QuietSteps ==
    ASSUME SignInv,
           \/ \E w \in SignWorkers :
                 \/ StartWorker(w) \/ WorkerTests(w) \/ WorkerWakes(w) \/ WorkerYields(w)
                 \/ WorkerPops(w) /\ signQueue = <<>>
                 \/ WorkerEnriches(w) /\ signRun
           \/ StartFails \/ StartFailureEnds \/ SignalWorkers \/ SetStopEvent \/ PipelineCleanup
    PROVE  SignInv'
<1> DEFINE same == UNCHANGED <<signQueue, signActive, signItem, signDepth, signPending, arrived,
                              sent, freed>>
<1>1. ASSUME NEW w \in SignWorkers,
             \/ StartWorker(w) \/ WorkerTests(w) \/ WorkerWakes(w) \/ WorkerYields(w)
             \/ WorkerPops(w) /\ signQueue = <<>>
             \/ WorkerEnriches(w) /\ signRun
      PROVE  SignInv'
  <2>1. same /\ signWorker[w].at \notin {"done"} /\ (signWorker[w].at = "none" => StartWorker(w))
    BY <1>1 DEF StartWorker, WorkerTests, WorkerWakes, WorkerYields, WorkerPops, WorkerEnriches, InSign
  <2>2. PICK a \in SignPlaces :
          /\ SignMoves(w, a)
          /\ \/ ~HoldsItem(w) /\ a \notin {"detach", "enrich", "send"}
             \/ signWorker[w].at = "enrich" /\ a = "send"
    BY <1>1 DEF StartWorker, WorkerTests, WorkerWakes, WorkerYields, WorkerPops, WorkerEnriches, InSign,
       HoldsItem, SignPlaces
  <2>3. signMain' \in {signMain, "dispatch"} /\ (StartWorker(w) => signMain = "start" /\ signMain' # "stopped")
    BY <1>1 DEF StartWorker, WorkerTests, WorkerWakes, WorkerYields, WorkerPops, WorkerEnriches
  <2>4. signMain # "stopped"
    BY <2>1, <2>3 DEF SignInv, SignPhases, SignWorkersGone
  <2>5. SignPhases'
    BY <2>1, <2>3, <2>4 DEF SignInv, SignPhases
  <2> QED
    BY <2>1, <2>2, <2>5, MovesKeepSign
<1>2. ASSUME StartFails \/ StartFailureEnds \/ SignalWorkers \/ SetStopEvent \/ PipelineCleanup
      PROVE  SignInv'
  <2>1. same /\ UNCHANGED signWorker
    BY <1>2 DEF StartFails, StartFailureEnds, SignalWorkers, SetStopEvent, PipelineCleanup
  <2>2. SignPhases'
    BY <1>2 DEF StartFails, StartFailureEnds, SignalWorkers, SetStopEvent, PipelineCleanup, SignInv,
       SignPhases, SignWorkersGone
  <2> QED
    BY <2>1, <2>2, QuietKeepsSign DEF SignInv, SignTypes
<1> QED
  BY <1>1, <1>2

\* Taking an item off the queue: it is on the other list now, and the worker's.
LEMMA PopKeepsSign ==
    ASSUME SignInv, NEW w \in SignWorkers, WorkerPops(w), signQueue # <<>>
    PROVE  SignInv'
<1> DEFINE i == Head(signQueue)
<1>1. /\ signWorker' = [signWorker EXCEPT ![w].at = "detach", ![w].item = i]
      /\ signActive' = Append(signActive, i) /\ signQueue' = Tail(signQueue)
      /\ signDepth' = signDepth - 1 /\ signWorker[w].at = "pop"
      /\ UNCHANGED <<signMain, signItem, signPending, arrived, sent, freed>>
  BY DEF WorkerPops, InSign
<1>2. /\ i \in Nat \ {0} /\ i \in ToSet(signQueue) /\ i \notin ToSet(signActive)
      /\ signQueue' \in Seq(Nat \ {0}) /\ signActive' \in Seq(Nat \ {0})
      /\ IsInjective(signQueue') /\ IsInjective(signActive')
      /\ ToSet(signQueue') = ToSet(signQueue) \ {i} /\ ToSet(signActive') = ToSet(signActive) \cup {i}
  BY <1>1, TailDistinct, AppendDistinct, SMTT(30) DEF SignInv, SignTypes, SignListsFit
<1>3. SignListed' = SignListed
  BY <1>2 DEF SignListed
<1>4. Len(signQueue') = Len(signQueue) - 1
  BY <1>1, HeadTailProperties DEF SignInv, SignTypes
<1> HIDE DEF i
<1>5. ASSUME NEW v \in SignWorkers
      PROVE  /\ signWorker'[v].batch = signWorker[v].batch
             /\ signWorker'[v].at = IF v = w THEN "detach" ELSE signWorker[v].at
             /\ signWorker'[v].item = IF v = w THEN i ELSE signWorker[v].item
  BY <1>1 DEF SignInv, SignTypes
<1>6. signWorker[w].batch = <<>> /\ ~HoldsItem(w)
  BY <1>1 DEF SignInv, SignWorkersFit, HoldsItem
<1>7. SignTypes'
  BY <1>1, <1>2, <1>4 DEF SignInv, SignTypes, SignPlaces
<1>8. SignListsFit'
  BY <1>1, <1>2, <1>3 DEF SignInv, SignListsFit
<1>9. SignWorkersFit'
  <2>1. ASSUME NEW v \in SignWorkers, HoldsItem(v)'
        PROVE  /\ signWorker'[v].item \in ToSet(signActive')
               /\ v # w => HoldsItem(v) /\ signWorker'[v].item \in ToSet(signActive)
    BY <1>2, <1>5, <2>1 DEF SignInv, SignWorkersFit, HoldsItem
  <2>2. ASSUME NEW u \in SignWorkers, NEW v \in SignWorkers, HoldsItem(u)', HoldsItem(v)',
               signWorker'[u].item = signWorker'[v].item
        PROVE  u = v
    BY <1>2, <1>5, <2>1, <2>2 DEF SignInv, SignWorkersFit
  <2>3. \A v \in SignWorkers : signWorker'[v].batch # <<>> <=> signWorker'[v].at \in {"enrich", "send"}
    BY <1>5, <1>6 DEF SignInv, SignWorkersFit
  <2> QED
    BY <2>1, <2>2, <2>3 DEF SignWorkersFit
<1>10. SignEventsFit'
  <2>1. \A j \in SignListed' : EventsAre(signItem[j].pending, signItem[j].file)'
    BY <1>1, <1>3 DEF SignInv, SignEventsFit, EventsAre, Increasing
  <2>2. ASSUME NEW v \in SignWorkers, HoldsItem(v)'
        PROVE  BatchIsOf(signWorker[v].batch, signWorker[v].item)'
    <3>1. CASE v = w
      BY <1>5, <1>6, <3>1 DEF BatchIsOf, EventsAre, Increasing, ToSet
    <3>2. CASE v # w
      <4>1. /\ HoldsItem(v) /\ signWorker'[v].batch = signWorker[v].batch
            /\ signWorker'[v].item = signWorker[v].item
        BY <1>5, <2>2, <3>2 DEF HoldsItem
      <4>2. BatchIsOf(signWorker[v].batch, signWorker[v].item)
        BY <4>1 DEF SignInv, SignEventsFit
      <4> QED
        BY <1>1, <4>1, <4>2 DEF BatchIsOf, EventsAre
    <3> QED
      BY <3>1, <3>2
  <2> QED
    BY <2>1, <2>2 DEF SignEventsFit
<1>11. \A e : (WaitsOnItem(e)' <=> WaitsOnItem(e)) /\ (WaitsInBatch(e)' <=> WaitsInBatch(e))
  BY <1>1, <1>3, <1>5 DEF WaitsOnItem, WaitsInBatch
<1>12. SignPlacesDiffer' /\ SentIsOlder'
  BY <1>1, <1>11 DEF SignInv, SignPlacesDiffer, SentIsOlder
<1>13. FileEventsInOrder' /\ PendingCounted'
  BY <1>1, <1>3 DEF SignInv, FileEventsInOrder, PendingCounted, PendingOn
<1>14. SignPhases'
  BY <1>1 DEF SignInv, SignPhases, SignWorkersGone
<1> QED
  BY <1>7, <1>8, <1>9, <1>10, <1>12, <1>13, <1>14 DEF SignInv

\* What waits of the file whose item a worker holds waits there.
LEMMA WaitsTogether ==
    ASSUME SignInv, NEW w \in SignWorkers, HoldsItem(w),
           NEW e \in DOMAIN arrived, arrived[e] = signItem[signWorker[w].item].file
    PROVE  /\ \A i \in SignListed : e \in ToSet(signItem[i].pending) => i = signWorker[w].item
           /\ \A v \in SignWorkers : e \in ToSet(signWorker[v].batch) => v = w
<1>1. signWorker[w].item \in SignListed
  BY DEF SignInv, SignWorkersFit, SignListed
<1>2. ASSUME NEW i \in SignListed, e \in ToSet(signItem[i].pending)
      PROVE  i = signWorker[w].item
  <2>1. EventsAre(signItem[i].pending, signItem[i].file)
    BY DEF SignInv, SignEventsFit
  <2>2. arrived[e] = signItem[i].file
    BY <1>2, <2>1 DEF EventsAre
  <2> QED
    BY <1>1, <2>2 DEF SignInv, SignListsFit
<1>3. ASSUME NEW v \in SignWorkers, e \in ToSet(signWorker[v].batch)
      PROVE  v = w
  <2>1. HoldsItem(v)
    <3>1. signWorker[v].batch # <<>>
      BY <1>3, EmptySeq DEF ToSet
    <3> QED
      BY <3>1 DEF SignInv, SignWorkersFit, HoldsItem
  <2>2. BatchIsOf(signWorker[v].batch, signWorker[v].item) /\ signWorker[v].item \in SignListed
    BY <2>1 DEF SignInv, SignEventsFit, SignWorkersFit, SignListed
  <2>3. arrived[e] = signItem[signWorker[v].item].file
    BY <1>3, <2>2 DEF BatchIsOf, EventsAre
  <2>4. signWorker[v].item = signWorker[w].item
    BY <1>1, <2>2, <2>3 DEF SignInv, SignListsFit
  <2> QED
    BY <2>1, <2>4 DEF SignInv, SignWorkersFit
<1> QED
  BY <1>2, <1>3

\* The rest of an increasing run is later than its head.
LEMMA IncreasingTail ==
    ASSUME NEW s \in Seq(Nat), Increasing(s), s # <<>>
    PROVE  /\ Head(s) \in ToSet(s) /\ Tail(s) \in Seq(Nat) /\ Head(s) \in Nat
           /\ Increasing(Tail(s))
           /\ ToSet(s) = ToSet(Tail(s)) \cup {Head(s)}
           /\ \A e \in ToSet(Tail(s)) : Head(s) < e
           /\ Tail(s) = <<>> <=> Len(s) = 1
<1>1. DOMAIN s = 1 .. Len(s) /\ Len(s) \in Nat \ {0} /\ Head(s) = s[1]
  BY EmptySeq, LenProperties
<1>2. /\ Tail(s) \in Seq(Nat) /\ Len(Tail(s)) = Len(s) - 1
      /\ DOMAIN Tail(s) = 1 .. Len(s) - 1
      /\ \A k \in 1 .. Len(s) - 1 : Tail(s)[k] = s[k + 1]
  BY HeadTailProperties, LenProperties
<1>3. \A k \in 1 .. Len(s) : s[k] \in Nat
  BY <1>1, ElementOfSeq
<1>4. Increasing(Tail(s))
  <2>1. ASSUME NEW j \in 1 .. Len(s) - 1, NEW k \in 1 .. Len(s) - 1, j < k
        PROVE  Tail(s)[j] < Tail(s)[k]
    <3>1. /\ j + 1 \in DOMAIN s /\ k + 1 \in DOMAIN s /\ j + 1 < k + 1
          /\ Tail(s)[j] = s[j + 1] /\ Tail(s)[k] = s[k + 1]
      BY <1>1, <1>2, <2>1
    <3> QED
      BY <3>1 DEF Increasing
  <2> QED
    BY <1>2, <2>1 DEF Increasing
<1>5. Head(s) \in ToSet(s) /\ Head(s) \in Nat
  BY <1>1, <1>3 DEF ToSet
<1>6. \A e \in ToSet(Tail(s)) : Head(s) < e
  <2>1. ASSUME NEW k \in 1 .. Len(s) - 1 PROVE Head(s) < Tail(s)[k]
    <3>1. 1 \in DOMAIN s /\ k + 1 \in DOMAIN s /\ 1 < k + 1 /\ Tail(s)[k] = s[k + 1]
      BY <1>1, <1>2
    <3> QED
      BY <1>1, <3>1 DEF Increasing
  <2> QED
    BY <1>2, <2>1 DEF ToSet
<1>7. ToSet(s) = ToSet(Tail(s)) \cup {Head(s)}
  <2>1. ASSUME NEW e \in ToSet(s) PROVE e \in ToSet(Tail(s)) \cup {Head(s)}
    <3>1. PICK k \in 1 .. Len(s) : s[k] = e
      BY <1>1 DEF ToSet
    <3>2. CASE k = 1
      BY <1>1, <3>1, <3>2
    <3>3. CASE k # 1
      <4>1. k - 1 \in 1 .. Len(s) - 1 /\ (k - 1) + 1 = k
        BY <1>1, <3>3
      <4>2. Tail(s)[k - 1] = e
        BY <1>2, <3>1, <4>1
      <4> QED
        BY <1>2, <4>1, <4>2 DEF ToSet
    <3> QED
      BY <3>2, <3>3
  <2>2. ASSUME NEW e \in ToSet(Tail(s)) PROVE e \in ToSet(s)
    <3>1. PICK k \in 1 .. Len(s) - 1 : Tail(s)[k] = e
      BY <1>2 DEF ToSet
    <3>2. k + 1 \in 1 .. Len(s) /\ s[k + 1] = e
      BY <1>1, <1>2, <3>1
    <3> QED
      BY <1>1, <3>2 DEF ToSet
  <2> QED
    BY <1>5, <2>1, <2>2
<1>8. Tail(s) = <<>> <=> Len(s) = 1
  <2>1. Tail(s) = <<>> <=> Len(Tail(s)) = 0
    BY <1>2, EmptySeq
  <2> QED
    BY <1>1, <1>2, <2>1, SMTT(30)
<1> QED
  BY <1>2, <1>4, <1>5, <1>6, <1>7, <1>8

\* The first event of a worker's batch leaves it, sent or freed.
LEMMA BatchHeadLeaves ==
    ASSUME SignInv, NEW w \in SignWorkers, signWorker[w].at \in {"enrich", "send"},
           signWorker' = [signWorker EXCEPT
             ![w].batch = Tail(@),
             ![w].at = IF Len(signWorker[w].batch) = 1 THEN "detach" ELSE "enrich"],
           UNCHANGED <<signMain, signQueue, signActive, signItem, signDepth, signPending, arrived>>
    PROVE  /\ signWorker' \in [SignWorkers -> [at : SignPlaces, item : Nat, batch : Seq(Nat)]]
           /\ SignListsFit' /\ SignWorkersFit' /\ SignEventsFit' /\ PendingCounted'
           /\ \A e : WaitsOnItem(e)' <=> WaitsOnItem(e)
           /\ \A e \in DOMAIN arrived :
                 WaitsInBatch(e)' <=> WaitsInBatch(e) /\ e # Head(signWorker[w].batch)
           /\ \E h \in DOMAIN arrived :
                 /\ h = Head(signWorker[w].batch) /\ h \in Nat
                 /\ WaitsInBatch(h) /\ ~WaitsOnItem(h)
                 /\ \A e \in DOMAIN arrived :
                       arrived[h] = arrived[e] /\ (WaitsOnItem(e) \/ WaitsInBatch(e)') => h < e
<1> DEFINE b == signWorker[w].batch
           i == signWorker[w].item
<1>1. /\ HoldsItem(w) /\ b \in Seq(Nat) /\ b # <<>> /\ i \in ToSet(signActive) /\ i \in SignListed
      /\ BatchIsOf(b, i)
  BY DEF SignInv, SignTypes, SignWorkersFit, SignEventsFit, HoldsItem, SignListed
<1>2. /\ Increasing(b)
      /\ \A e \in ToSet(b) : e \in DOMAIN arrived /\ arrived[e] = signItem[i].file
      /\ \A e \in ToSet(b), d \in ToSet(signItem[i].pending) : e < d
  BY <1>1 DEF BatchIsOf, EventsAre
<1>3. /\ Head(b) \in ToSet(b) /\ Tail(b) \in Seq(Nat) /\ Head(b) \in Nat /\ Increasing(Tail(b))
      /\ ToSet(b) = ToSet(Tail(b)) \cup {Head(b)}
      /\ \A e \in ToSet(Tail(b)) : Head(b) < e
      /\ Tail(b) = <<>> <=> Len(b) = 1
  BY <1>1, <1>2, IncreasingTail
<1>4. ASSUME NEW v \in SignWorkers
      PROVE  /\ signWorker'[v].batch = IF v = w THEN Tail(b) ELSE signWorker[v].batch
             /\ signWorker'[v].at = IF v = w THEN (IF Len(b) = 1 THEN "detach" ELSE "enrich")
                                    ELSE signWorker[v].at
             /\ signWorker'[v].item = signWorker[v].item
             /\ HoldsItem(v)' <=> HoldsItem(v)
  BY <1>1 DEF SignInv, SignTypes, HoldsItem
<1>5. signWorker' \in [SignWorkers -> [at : SignPlaces, item : Nat, batch : Seq(Nat)]]
  BY <1>3 DEF SignInv, SignTypes, SignPlaces
<1>6. SignListed' = SignListed
  BY DEF SignListed
<1>7. SignListsFit' /\ PendingCounted'
  BY <1>6 DEF SignInv, SignListsFit, PendingCounted, PendingOn
<1>8. SignWorkersFit'
  <2>1. ASSUME NEW v \in SignWorkers
        PROVE  signWorker'[v].batch # <<>> <=> signWorker'[v].at \in {"enrich", "send"}
    <3>1. CASE v = w
      <4>1. /\ signWorker'[v].batch = Tail(b)
            /\ signWorker'[v].at = IF Len(b) = 1 THEN "detach" ELSE "enrich"
        BY <1>4, <3>1
      <4>2. CASE Len(b) = 1
        <5>1. signWorker'[v].batch = <<>> /\ signWorker'[v].at = "detach"
          BY <1>3, <4>1, <4>2
        <5> QED
          BY ONLY <5>1
      <4>3. CASE Len(b) # 1
        BY <1>3, <4>1, <4>3
      <4> QED
        BY <4>2, <4>3
    <3>2. CASE v # w
      BY <1>4, <3>2, ZenonT(30) DEF SignInv, SignWorkersFit
    <3> QED
      BY <3>1, <3>2
  <2>2. \A v \in SignWorkers : HoldsItem(v)' => signWorker'[v].item \in ToSet(signActive')
    BY <1>4 DEF SignInv, SignWorkersFit
  <2>3. \A u, v \in SignWorkers :
          HoldsItem(u)' /\ HoldsItem(v)' /\ signWorker'[u].item = signWorker'[v].item => u = v
    BY <1>4 DEF SignInv, SignWorkersFit
  <2> HIDE DEF b, i
  <2> QED
    BY <2>1, <2>2, <2>3 DEF SignWorkersFit
<1>9. SignEventsFit'
  <2>1. \A j \in SignListed' : EventsAre(signItem[j].pending, signItem[j].file)'
    BY <1>6 DEF SignInv, SignEventsFit, EventsAre, Increasing
  <2>2. ASSUME NEW v \in SignWorkers, HoldsItem(v)'
        PROVE  BatchIsOf(signWorker[v].batch, signWorker[v].item)'
    <3>1. CASE v = w
      <4>1. BatchIsOf(Tail(b), i)
        BY <1>2, <1>3 DEF BatchIsOf, EventsAre
      <4> QED
        BY <1>4, <3>1, <4>1 DEF BatchIsOf, EventsAre
    <3>2. CASE v # w
      <4>1. BatchIsOf(signWorker[v].batch, signWorker[v].item)
        BY <1>4, <2>2 DEF SignInv, SignEventsFit
      <4> QED
        BY <1>4, <3>2, <4>1 DEF BatchIsOf, EventsAre
    <3> QED
      BY <3>1, <3>2
  <2> QED
    BY <2>1, <2>2 DEF SignEventsFit
<1>10. \A e : WaitsOnItem(e)' <=> WaitsOnItem(e)
  BY <1>6 DEF WaitsOnItem
<1>11. Head(b) \in DOMAIN arrived /\ arrived[Head(b)] = signItem[i].file
  BY <1>2, <1>3
<1>12. ASSUME NEW e \in DOMAIN arrived
       PROVE  WaitsInBatch(e)' <=> WaitsInBatch(e) /\ e # Head(b)
  <2>1. ASSUME WaitsInBatch(e)' PROVE WaitsInBatch(e) /\ e # Head(b)
    <3>1. PICK v \in SignWorkers : e \in ToSet(signWorker'[v].batch)
      BY <2>1 DEF WaitsInBatch
    <3>2. CASE v = w
      <4>1. e \in ToSet(Tail(b))
        BY <1>4, <3>1, <3>2
      <4>2. e \in ToSet(b) /\ Head(b) < e
        BY <1>3, <4>1
      <4>3. e # Head(b)
        BY <1>3, <4>2
      <4> QED
        BY <4>2, <4>3 DEF WaitsInBatch
    <3>3. CASE v # w
      <4>1. e \in ToSet(signWorker[v].batch)
        BY <1>4, <3>1, <3>3
      <4>2. e # Head(b)
        BY <1>1, <1>11, <3>3, <4>1, WaitsTogether
      <4> QED
        BY <4>1, <4>2 DEF WaitsInBatch
    <3> QED
      BY <3>2, <3>3
  <2>2. ASSUME WaitsInBatch(e), e # Head(b) PROVE WaitsInBatch(e)'
    <3>1. PICK v \in SignWorkers : e \in ToSet(signWorker[v].batch)
      BY <2>2 DEF WaitsInBatch
    <3>2. e \in ToSet(signWorker'[v].batch)
      BY <1>3, <1>4, <2>2, <3>1
    <3> QED
      BY <3>2 DEF WaitsInBatch
  <2> QED
    BY <2>1, <2>2
<1>13. WaitsInBatch(Head(b)) /\ ~WaitsOnItem(Head(b))
  <2>1. WaitsInBatch(Head(b))
    BY <1>3 DEF WaitsInBatch
  <2>2. ASSUME NEW j \in SignListed, Head(b) \in ToSet(signItem[j].pending) PROVE FALSE
    <3>1. j = i
      BY <1>1, <1>11, <2>2, WaitsTogether
    <3>2. Head(b) < Head(b)
      BY <1>2, <1>3, <2>2, <3>1
    <3> QED
      BY <1>3, <3>2
  <2> QED
    BY <2>1, <2>2 DEF WaitsOnItem
<1>14. ASSUME NEW e \in DOMAIN arrived, arrived[Head(b)] = arrived[e],
              WaitsOnItem(e) \/ WaitsInBatch(e)'
       PROVE  Head(b) < e
  <2>1. arrived[e] = signItem[i].file
    BY <1>11, <1>14
  <2>2. CASE WaitsOnItem(e)
    <3>1. PICK j \in SignListed : e \in ToSet(signItem[j].pending)
      BY <2>2 DEF WaitsOnItem
    <3>2. j = i
      BY <1>1, <2>1, <3>1, WaitsTogether
    <3> QED
      BY <1>2, <1>3, <3>1, <3>2
  <2>3. CASE WaitsInBatch(e)'
    <3>1. WaitsInBatch(e) /\ e # Head(b)
      BY <1>12, <2>3
    <3>2. PICK v \in SignWorkers : e \in ToSet(signWorker[v].batch)
      BY <3>1 DEF WaitsInBatch
    <3>3. v = w
      BY <1>1, <2>1, <3>2, WaitsTogether
    <3>4. e \in ToSet(Tail(b))
      BY <1>3, <3>1, <3>2, <3>3
    <3> QED
      BY <1>3, <3>4
  <2> QED
    BY <1>14, <2>2, <2>3
<1> HIDE DEF b, i
<1>15. \E h \in DOMAIN arrived :
          /\ h = Head(b) /\ h \in Nat
          /\ WaitsInBatch(h) /\ ~WaitsOnItem(h)
          /\ \A e \in DOMAIN arrived :
                arrived[h] = arrived[e] /\ (WaitsOnItem(e) \/ WaitsInBatch(e)') => h < e
  BY <1>3, <1>11, <1>13, <1>14
<1> QED
  BY <1>5, <1>7, <1>8, <1>9, <1>10, <1>12, <1>15 DEF b

\* The event is sent, before any other of its file that waits.
LEMMA SendKeepsSign ==
    ASSUME SignInv, NEW w \in SignWorkers, WorkerSends(w)
    PROVE  SignInv'
<1>1. /\ signWorker[w].at \in {"enrich", "send"}
      /\ signWorker' = [signWorker EXCEPT
           ![w].batch = Tail(@),
           ![w].at = IF Len(signWorker[w].batch) = 1 THEN "detach" ELSE "enrich"]
      /\ sent' = Append(sent, [event |-> Head(signWorker[w].batch), enriched |-> TRUE])
      /\ UNCHANGED <<signMain, signQueue, signActive, signItem, signDepth, signPending, arrived, freed>>
  BY DEF WorkerSends, InSign
<1>2. /\ signWorker' \in [SignWorkers -> [at : SignPlaces, item : Nat, batch : Seq(Nat)]]
      /\ SignListsFit' /\ SignWorkersFit' /\ SignEventsFit' /\ PendingCounted'
      /\ \A e : WaitsOnItem(e)' <=> WaitsOnItem(e)
  BY <1>1, BatchHeadLeaves
<1>3. PICK h \in DOMAIN arrived :
        /\ h = Head(signWorker[w].batch) /\ h \in Nat
        /\ WaitsInBatch(h) /\ ~WaitsOnItem(h)
        /\ \A e \in DOMAIN arrived :
              arrived[h] = arrived[e] /\ (WaitsOnItem(e) \/ WaitsInBatch(e)') => h < e
  BY <1>1, BatchHeadLeaves
<1>4. \A e \in DOMAIN arrived : WaitsInBatch(e)' <=> WaitsInBatch(e) /\ e # h
  BY <1>1, <1>3, BatchHeadLeaves
<1> DEFINE m == Len(sent) + 1
<1>5. /\ sent' \in Seq([event : Nat, enriched : BOOLEAN])
      /\ DOMAIN sent' = DOMAIN sent \cup {m} /\ m \notin DOMAIN sent
      /\ sent'[m] = [event |-> h, enriched |-> TRUE]
      /\ \A k \in DOMAIN sent : sent'[k] = sent[k]
      /\ m \in Nat /\ \A k \in DOMAIN sent : k \in Nat /\ k < m
  <2> DEFINE x == [event |-> h, enriched |-> TRUE]
  <2>1. /\ x \in [event : Nat, enriched : BOOLEAN] /\ sent' = Append(sent, x)
        /\ sent \in Seq([event : Nat, enriched : BOOLEAN])
    BY <1>1, <1>3 DEF SignInv, SignTypes
  <2> HIDE DEF x
  <2>2. /\ sent' \in Seq([event : Nat, enriched : BOOLEAN])
        /\ DOMAIN sent' = DOMAIN sent \cup {m} /\ m \notin DOMAIN sent
        /\ sent'[m] = x
        /\ \A k \in DOMAIN sent : sent'[k] = sent[k]
        /\ m \in Nat /\ \A k \in DOMAIN sent : k \in Nat /\ k < m
    BY <2>1, AppendIndexes
  <2> QED
    BY <2>2 DEF x
<1> HIDE DEF m
<1>6. SignTypes'
  BY <1>1, <1>2, <1>5 DEF SignInv, SignTypes
<1>7. \A k \in DOMAIN sent : sent[k].event # h
  BY <1>3 DEF SignInv, SignPlacesDiffer
<1>8. SignPlacesDiffer'
  <2>1. ASSUME NEW e \in DOMAIN arrived'
        PROVE  \/ WaitsOnItem(e)' \/ WaitsInBatch(e)' \/ e \in freed'
               \/ \E k \in DOMAIN sent' : sent'[k].event = e
    <3>1. CASE e = h
      BY <1>5, <3>1
    <3>2. CASE e # h
      <4>1. \/ WaitsOnItem(e) \/ WaitsInBatch(e) \/ e \in freed
            \/ \E k \in DOMAIN sent : sent[k].event = e
        BY <1>1, <2>1 DEF SignInv, SignPlacesDiffer
      <4> QED
        BY <1>1, <1>2, <1>4, <1>5, <2>1, <3>2, <4>1
    <3> QED
      BY <3>1, <3>2
  <2>2. ASSUME NEW k \in DOMAIN sent'
        PROVE  /\ sent'[k].event \in DOMAIN arrived' /\ sent'[k].event \notin freed'
               /\ ~WaitsOnItem(sent[k].event)' /\ ~WaitsInBatch(sent[k].event)'
    <3>1. CASE k = m
      <4>1. sent'[k].event = h
        BY <1>5, <3>1
      <4>2. h \notin freed /\ h \in DOMAIN arrived
        BY <1>3 DEF SignInv, SignPlacesDiffer
      <4> QED
        BY <1>1, <1>2, <1>3, <1>4, <4>1, <4>2
    <3>2. CASE k # m
      <4>1. k \in DOMAIN sent /\ sent'[k] = sent[k]
        BY <1>5, <3>2
      <4>2. /\ sent[k].event \in DOMAIN arrived /\ sent[k].event \notin freed
            /\ ~WaitsOnItem(sent[k].event) /\ ~WaitsInBatch(sent[k].event)
        BY <4>1 DEF SignInv, SignPlacesDiffer
      <4> QED
        BY <1>1, <1>2, <1>4, <4>1, <4>2
    <3> QED
      BY <3>1, <3>2
  <2>3. \A e \in freed' : e \in DOMAIN arrived' /\ ~WaitsOnItem(e)' /\ ~WaitsInBatch(e)'
    BY <1>1, <1>2, <1>4 DEF SignInv, SignPlacesDiffer
  <2>4. \A j, k \in DOMAIN sent' : sent'[j].event = sent'[k].event => j = k
    BY <1>5, <1>7 DEF SignInv, SignPlacesDiffer
  <2> QED
    BY <2>1, <2>2, <2>3, <2>4 DEF SignPlacesDiffer
<1>9. ASSUME NEW k \in DOMAIN sent, sent[k].enriched, arrived[sent[k].event] = arrived[h]
      PROVE  sent[k].event < h
  BY <1>3, <1>9 DEF SignInv, SentIsOlder
<1>10. FileEventsInOrder'
  <2> SUFFICES ASSUME NEW j \in DOMAIN sent', NEW k \in DOMAIN sent', j < k,
                      sent'[j].enriched, sent'[k].enriched,
                      arrived[sent'[j].event] = arrived[sent'[k].event]
               PROVE  sent'[j].event < sent'[k].event
    BY <1>1 DEF FileEventsInOrder
  <2>1. j \in DOMAIN sent
    BY <1>5
  <2>2. CASE k \in DOMAIN sent
    BY <1>5, <2>1, <2>2 DEF SignInv, FileEventsInOrder
  <2>3. CASE k = m
    BY <1>5, <1>9, <2>1, <2>3
  <2> QED
    BY <1>5, <2>2, <2>3
<1>11. SentIsOlder'
  <2> SUFFICES ASSUME NEW k \in DOMAIN sent', NEW e \in DOMAIN arrived,
                      sent'[k].enriched, arrived[sent'[k].event] = arrived[e],
                      WaitsOnItem(e)' \/ WaitsInBatch(e)'
               PROVE  sent'[k].event < e
    BY <1>1 DEF SentIsOlder
  <2>1. WaitsOnItem(e) \/ WaitsInBatch(e)'
    BY <1>2
  <2>2. CASE k \in DOMAIN sent
    BY <1>2, <1>4, <1>5, <2>2 DEF SignInv, SentIsOlder
  <2>3. CASE k = m
    BY <1>3, <1>5, <2>1, <2>3
  <2> QED
    BY <1>5, <2>2, <2>3
<1>12. SignPhases'
  BY <1>1, <1>2 DEF SignInv, SignPhases, SignWorkersGone
<1> QED
  BY <1>2, <1>6, <1>8, <1>10, <1>11, <1>12 DEF SignInv

\* It is freed instead, when the service does not run any more.
LEMMA FreeKeepsSign ==
    ASSUME SignInv, NEW w \in SignWorkers, WorkerEnriches(w), ~signRun
    PROVE  SignInv'
<1>1. /\ signWorker[w].at \in {"enrich", "send"}
      /\ signWorker' = [signWorker EXCEPT
           ![w].batch = Tail(@),
           ![w].at = IF Len(signWorker[w].batch) = 1 THEN "detach" ELSE "enrich"]
      /\ freed' = freed \cup {Head(signWorker[w].batch)}
      /\ UNCHANGED <<signMain, signQueue, signActive, signItem, signDepth, signPending, arrived, sent>>
  BY DEF WorkerEnriches, InSign
<1>2. /\ signWorker' \in [SignWorkers -> [at : SignPlaces, item : Nat, batch : Seq(Nat)]]
      /\ SignListsFit' /\ SignWorkersFit' /\ SignEventsFit' /\ PendingCounted'
      /\ \A e : WaitsOnItem(e)' <=> WaitsOnItem(e)
  BY <1>1, BatchHeadLeaves
<1>3. PICK h \in DOMAIN arrived :
        h = Head(signWorker[w].batch) /\ WaitsInBatch(h) /\ ~WaitsOnItem(h)
  BY <1>1, BatchHeadLeaves
<1>4. \A e \in DOMAIN arrived : WaitsInBatch(e)' <=> WaitsInBatch(e) /\ e # h
  BY <1>1, <1>3, BatchHeadLeaves
<1>5. SignTypes'
  BY <1>1, <1>2 DEF SignInv, SignTypes
<1>6. \A k \in DOMAIN sent : sent[k].event # h
  BY <1>3 DEF SignInv, SignPlacesDiffer
<1>7. SignPlacesDiffer'
  <2>1. ASSUME NEW e \in DOMAIN arrived'
        PROVE  \/ WaitsOnItem(e)' \/ WaitsInBatch(e)' \/ e \in freed'
               \/ \E k \in DOMAIN sent' : sent'[k].event = e
    BY <1>1, <1>2, <1>3, <1>4 DEF SignInv, SignPlacesDiffer
  <2>2. \A k \in DOMAIN sent' :
          /\ sent'[k].event \in DOMAIN arrived' /\ sent'[k].event \notin freed'
          /\ ~WaitsOnItem(sent[k].event)' /\ ~WaitsInBatch(sent[k].event)'
    BY <1>1, <1>2, <1>3, <1>4, <1>6 DEF SignInv, SignPlacesDiffer
  <2>3. \A e \in freed' : e \in DOMAIN arrived' /\ ~WaitsOnItem(e)' /\ ~WaitsInBatch(e)'
    BY <1>1, <1>2, <1>3, <1>4 DEF SignInv, SignPlacesDiffer
  <2>4. \A j, k \in DOMAIN sent' : sent'[j].event = sent'[k].event => j = k
    BY <1>1 DEF SignInv, SignPlacesDiffer
  <2> QED
    BY <2>1, <2>2, <2>3, <2>4 DEF SignPlacesDiffer
<1>8. FileEventsInOrder' /\ SentIsOlder'
  BY <1>1, <1>2, <1>4 DEF SignInv, FileEventsInOrder, SentIsOlder
<1>9. SignPhases'
  BY <1>1, <1>2 DEF SignInv, SignPhases, SignWorkersGone
<1> QED
  BY <1>2, <1>5, <1>7, <1>8, <1>9 DEF SignInv

\* The lists are finite, and their events are counted.
LEMMA PendingIsCount ==
    ASSUME SignTypes, SignListsFit
    PROVE  /\ IsFiniteSet(SignListed)
           /\ \A i \in SignListed :
                 i \in DOMAIN signItem /\ PendingOn[i] = Len(signItem[i].pending) /\ PendingOn[i] \in Nat
<1>1. IsFiniteSet(SignListed)
  BY DistinctCount, FS_Union DEF SignTypes, SignListsFit, SignListed
<1>2. \A i \in SignListed : i \in DOMAIN signItem /\ signItem[i] \in WorkItems
  BY ElementOfSeq, LenProperties DEF SignTypes, SignListsFit
<1>3. \A i \in SignListed : PendingOn[i] = Len(signItem[i].pending)
  BY DEF PendingOn
<1> QED
  BY <1>1, <1>2, <1>3, LenProperties DEF WorkItems

\* The item's events become the batch of the worker that holds it.
LEMMA DetachKeepsSign ==
    ASSUME SignInv, NEW w \in SignWorkers, WorkerDetaches(w),
           signItem[signWorker[w].item].pending # <<>>
    PROVE  SignInv'
<1> DEFINE i == signWorker[w].item
           b == signItem[i].pending
<1>1. /\ signWorker[w].at = "detach" /\ b # <<>>
      /\ signWorker' = [signWorker EXCEPT ![w].at = "enrich", ![w].batch = b]
      /\ signItem' = [signItem EXCEPT ![i].pending = <<>>]
      /\ signPending' = signPending - Len(b)
      /\ UNCHANGED <<signMain, signQueue, signActive, signDepth, arrived, sent, freed>>
  BY DEF WorkerDetaches, DetachEvents, InSign
<1>2. /\ HoldsItem(w) /\ i \in SignListed /\ i \in DOMAIN signItem /\ i \in ToSet(signActive)
      /\ signWorker[w].batch = <<>> /\ EventsAre(b, signItem[i].file)
      /\ DOMAIN signItem = 1 .. Len(signItem) /\ Len(signItem) \in Nat
      /\ \A j \in DOMAIN signItem : signItem[j] \in WorkItems
  <2>1. HoldsItem(w) /\ signWorker[w].batch = <<>>
    BY <1>1 DEF SignInv, SignWorkersFit, HoldsItem
  <2>2. i \in ToSet(signActive) /\ i \in SignListed /\ i \in DOMAIN signItem
    BY <2>1 DEF SignInv, SignWorkersFit, SignListsFit, SignListed
  <2>3. EventsAre(b, signItem[i].file)
    BY <2>2 DEF SignInv, SignEventsFit
  <2>4. DOMAIN signItem = 1 .. Len(signItem) /\ Len(signItem) \in Nat
    BY LenProperties DEF SignInv, SignTypes
  <2>5. \A j \in DOMAIN signItem : signItem[j] \in WorkItems
    BY <2>4, ElementOfSeq DEF SignInv, SignTypes
  <2> QED
    BY <2>1, <2>2, <2>3, <2>4, <2>5
<1>3. b \in Seq(Nat) /\ Len(b) \in Nat
  BY <1>2, LenProperties DEF WorkItems
<1>4. ASSUME NEW v \in SignWorkers
      PROVE  /\ signWorker'[v].batch = IF v = w THEN b ELSE signWorker[v].batch
             /\ signWorker'[v].at = IF v = w THEN "enrich" ELSE signWorker[v].at
             /\ signWorker'[v].item = signWorker[v].item
             /\ HoldsItem(v)' <=> HoldsItem(v)
  BY <1>1 DEF SignInv, SignTypes, HoldsItem
<1>5. /\ signItem' \in Seq(WorkItems) /\ DOMAIN signItem' = DOMAIN signItem
      /\ \A j \in DOMAIN signItem :
            /\ signItem'[j].file = signItem[j].file
            /\ signItem'[j].pending = IF j = i THEN <<>> ELSE signItem[j].pending
  <2>1. ASSUME NEW j \in DOMAIN signItem
        PROVE  /\ signItem'[j].file = signItem[j].file
               /\ signItem'[j].pending = IF j = i THEN <<>> ELSE signItem[j].pending
               /\ signItem'[j] \in WorkItems
    <3>1. CASE j = i
      BY <1>1, <1>2, <3>1, EmptySeq DEF WorkItems
    <3>2. CASE j # i
      BY <1>1, <1>2, <3>2
    <3> QED
      BY <3>1, <3>2
  <2>2. DOMAIN signItem' = 1 .. Len(signItem) /\ signItem' = [j \in 1 .. Len(signItem) |-> signItem'[j]]
    BY <1>1, <1>2
  <2>3. signItem' \in [1 .. Len(signItem) -> WorkItems]
    BY ONLY <1>2, <2>1, <2>2
  <2> QED
    BY <1>2, <2>1, <2>2, <2>3, SeqDef
<1>6. SignListed' = SignListed /\ SignListed \subseteq DOMAIN signItem
  BY <1>1 DEF SignListed, SignInv, SignListsFit
<1> HIDE DEF i, b
<1>7. SignTypes'
  <2>1. signWorker' \in [SignWorkers -> [at : SignPlaces, item : Nat, batch : Seq(Nat)]]
    BY <1>1, <1>3 DEF SignInv, SignTypes, SignPlaces
  <2> QED
    BY <1>1, <1>5, <2>1 DEF SignInv, SignTypes
<1>8. SignListsFit'
  BY <1>1, <1>5, <1>6 DEF SignInv, SignListsFit
<1>9. SignWorkersFit'
  <2>1. ASSUME NEW v \in SignWorkers
        PROVE  signWorker'[v].batch # <<>> <=> signWorker'[v].at \in {"enrich", "send"}
    <3>1. CASE v = w
      <4>1. signWorker'[v].batch # <<>> /\ signWorker'[v].at = "enrich"
        BY <1>1, <1>4, <3>1
      <4> QED
        BY ONLY <4>1
    <3>2. CASE v # w
      BY <1>4, <3>2 DEF SignInv, SignWorkersFit
    <3> QED
      BY <3>1, <3>2
  <2>2. \A v \in SignWorkers : HoldsItem(v)' => signWorker'[v].item \in ToSet(signActive')
    BY <1>1, <1>4 DEF SignInv, SignWorkersFit
  <2>3. \A u, v \in SignWorkers :
          HoldsItem(u)' /\ HoldsItem(v)' /\ signWorker'[u].item = signWorker'[v].item => u = v
    BY <1>4 DEF SignInv, SignWorkersFit
  <2> QED
    BY <2>1, <2>2, <2>3 DEF SignWorkersFit
<1>10. SignEventsFit'
  <2>1. ASSUME NEW j \in SignListed'
        PROVE  EventsAre(signItem[j].pending, signItem[j].file)'
    <3>1. CASE j = i
      <4>1. signItem'[j].pending = <<>>
        BY <1>5, <1>6, <3>1
      <4> QED
        BY <4>1, EmptySeq DEF EventsAre, Increasing, ToSet
    <3>2. CASE j # i
      <4>1. /\ signItem'[j].pending = signItem[j].pending /\ signItem'[j].file = signItem[j].file
            /\ EventsAre(signItem[j].pending, signItem[j].file)
        BY <1>5, <1>6, <3>2 DEF SignInv, SignEventsFit
      <4> QED
        BY <1>1, <4>1 DEF EventsAre, Increasing
    <3> QED
      BY <3>1, <3>2
  <2>2. ASSUME NEW v \in SignWorkers, HoldsItem(v)'
        PROVE  BatchIsOf(signWorker[v].batch, signWorker[v].item)'
    <3>1. CASE v = w
      <4>1. /\ signWorker'[v].batch = b /\ signWorker'[v].item = i
            /\ signItem'[i].pending = <<>> /\ signItem'[i].file = signItem[i].file
        BY <1>2, <1>4, <1>5, <3>1 DEF i
      <4>2. ToSet(signItem'[i].pending) = {}
        BY <4>1, EmptySeq DEF ToSet
      <4> QED
        BY <1>1, <1>2, <4>1, <4>2 DEF BatchIsOf, EventsAre
    <3>2. CASE v # w
      <4>1. HoldsItem(v) /\ signWorker[v].item # i /\ signWorker[v].item \in DOMAIN signItem
        BY <1>2, <1>4, <1>6, <2>2, <3>2 DEF SignInv, SignWorkersFit, SignListed, i
      <4>2. /\ BatchIsOf(signWorker[v].batch, signWorker[v].item)
            /\ signWorker'[v].batch = signWorker[v].batch /\ signWorker'[v].item = signWorker[v].item
        BY <1>4, <3>2, <4>1 DEF SignInv, SignEventsFit
      <4> QED
        BY <1>1, <1>5, <4>1, <4>2 DEF BatchIsOf, EventsAre
    <3> QED
      BY <3>1, <3>2
  <2> QED
    BY <2>1, <2>2 DEF SignEventsFit
<1>11. ASSUME NEW e
       PROVE  WaitsOnItem(e)' \/ WaitsInBatch(e)' <=> WaitsOnItem(e) \/ WaitsInBatch(e)
  <2>1. ASSUME WaitsOnItem(e)' PROVE WaitsOnItem(e)
    <3>1. PICK j \in SignListed : e \in ToSet(signItem'[j].pending)
      BY <1>6, <2>1 DEF WaitsOnItem
    <3>2. j # i
      BY <1>5, <1>6, <3>1, EmptySeq DEF ToSet
    <3> QED
      BY <1>5, <1>6, <3>1, <3>2 DEF WaitsOnItem
  <2>2. ASSUME WaitsInBatch(e)' PROVE WaitsOnItem(e) \/ WaitsInBatch(e)
    <3>1. PICK v \in SignWorkers : e \in ToSet(signWorker'[v].batch)
      BY <2>2 DEF WaitsInBatch
    <3>2. CASE v = w
      <4>1. e \in ToSet(signItem[i].pending)
        BY <1>4, <3>1, <3>2 DEF b
      <4> QED
        BY <1>2, <4>1 DEF WaitsOnItem
    <3>3. CASE v # w
      BY <1>4, <3>1, <3>3 DEF WaitsInBatch
    <3> QED
      BY <3>2, <3>3
  <2>3. ASSUME WaitsOnItem(e) PROVE WaitsOnItem(e)' \/ WaitsInBatch(e)'
    <3>1. PICK j \in SignListed : e \in ToSet(signItem[j].pending)
      BY <2>3 DEF WaitsOnItem
    <3>2. CASE j = i
      <4>1. e \in ToSet(signWorker'[w].batch)
        BY <1>4, <3>1, <3>2 DEF b
      <4> QED
        BY <4>1 DEF WaitsInBatch
    <3>3. CASE j # i
      BY <1>5, <1>6, <3>1, <3>3 DEF WaitsOnItem
    <3> QED
      BY <3>2, <3>3
  <2>4. ASSUME WaitsInBatch(e) PROVE WaitsInBatch(e)'
    <3>1. PICK v \in SignWorkers : e \in ToSet(signWorker[v].batch)
      BY <2>4 DEF WaitsInBatch
    <3>2. v # w
      BY <1>2, <3>1, EmptySeq DEF ToSet
    <3> QED
      BY <1>4, <3>1, <3>2 DEF WaitsInBatch
  <2> QED
    BY <2>1, <2>2, <2>3, <2>4
<1>12. SignPlacesDiffer' /\ SentIsOlder'
  BY <1>1, <1>11 DEF SignInv, SignPlacesDiffer, SentIsOlder
<1>13. FileEventsInOrder' /\ SignPhases'
  BY <1>1 DEF SignInv, FileEventsInOrder, SignPhases, SignWorkersGone
<1>14. PendingCounted'
  <2>1. /\ IsFiniteSet(SignListed)
        /\ \A j \in SignListed : PendingOn[j] = Len(signItem[j].pending) /\ PendingOn[j] \in Nat
    BY PendingIsCount DEF SignInv
  <2>2. \A j \in SignListed : PendingOn'[j] = IF j = i THEN 0 ELSE PendingOn[j]
    <3>1. \A j \in SignListed : PendingOn'[j] = Len(signItem'[j].pending)
      BY <1>6 DEF PendingOn
    <3> QED
      BY <1>5, <1>6, <2>1, <3>1, EmptySeq
  <2>3. i \in SignListed /\ PendingOn[i] = Len(b)
    BY <1>2, <2>1 DEF b
  <2>4. TotalOf(PendingOn', SignListed) = TotalOf(PendingOn, SignListed) - Len(b) + 0
    <3> DEFINE g == PendingOn
               h == PendingOn'
    <3>1. \A j \in SignListed : g[j] \in Int /\ h[j] \in Int /\ (j # i => h[j] = g[j])
      BY <2>1, <2>2
    <3>2. g[i] = Len(b) /\ h[i] = 0
      BY <2>2, <2>3
    <3> HIDE DEF g, h
    <3>3. TotalOf(h, SignListed) = TotalOf(g, SignListed) - g[i] + h[i]
      BY <2>1, <2>3, <3>1, TotalReplace
    <3>4. TotalOf(h, SignListed) = TotalOf(g, SignListed) - Len(b) + 0
      BY <3>2, <3>3
    <3> QED
      BY <3>4 DEF g, h
  <2>5. TotalOf(PendingOn, SignListed) \in Nat
    BY <2>1, TotalNat
  <2> QED
    BY <1>1, <1>3, <1>6, <2>4, <2>5 DEF SignInv, PendingCounted
<1> QED
  BY <1>7, <1>8, <1>9, <1>10, <1>12, <1>13, <1>14 DEF SignInv

\* An item without events is given up by the worker that held it.
LEMMA RetireKeepsSign ==
    ASSUME SignInv, NEW w \in SignWorkers, WorkerDetaches(w),
           signItem[signWorker[w].item].pending = <<>>
    PROVE  SignInv'
<1> DEFINE i == signWorker[w].item
<1>1. /\ signWorker[w].at = "detach" /\ signItem[i].pending = <<>>
      /\ signWorker' = [signWorker EXCEPT ![w].at = "yield", ![w].item = NoWorkItem]
      /\ \E k \in DOMAIN signActive : signActive[k] = i /\ signActive' = RemoveAt(signActive, k)
      /\ UNCHANGED <<signMain, signQueue, signItem, signDepth, signPending, arrived, sent, freed>>
  BY DEF WorkerDetaches, RetireItem, InSign
<1>2. HoldsItem(w) /\ signWorker[w].batch = <<>> /\ i \in ToSet(signActive) /\ i \in SignListed
  BY <1>1 DEF SignInv, SignWorkersFit, HoldsItem, SignListed
<1>3. /\ signActive' \in Seq(Nat \ {0}) /\ IsInjective(signActive')
      /\ ToSet(signActive') = ToSet(signActive) \ {i}
  BY <1>1, RemoveDistinct DEF SignInv, SignTypes, SignListsFit
<1>4. SignListed' = SignListed \ {i}
  BY <1>1, <1>2, <1>3 DEF SignInv, SignListsFit, SignListed
<1>5. ASSUME NEW v \in SignWorkers
      PROVE  /\ signWorker'[v].batch = signWorker[v].batch
             /\ signWorker'[v].at = IF v = w THEN "yield" ELSE signWorker[v].at
             /\ v # w => signWorker'[v].item = signWorker[v].item
             /\ HoldsItem(v)' <=> HoldsItem(v) /\ v # w
  BY <1>1 DEF SignInv, SignTypes, HoldsItem
<1> HIDE DEF i
<1>6. SignTypes'
  <2>1. signWorker' \in [SignWorkers -> [at : SignPlaces, item : Nat, batch : Seq(Nat)]]
    BY <1>1 DEF SignInv, SignTypes, SignPlaces, NoWorkItem
  <2> QED
    BY <1>1, <1>3, <2>1 DEF SignInv, SignTypes
<1>7. SignListsFit'
  BY <1>1, <1>3, <1>4 DEF SignInv, SignListsFit
<1>8. SignWorkersFit'
  <2>1. ASSUME NEW v \in SignWorkers
        PROVE  signWorker'[v].batch # <<>> <=> signWorker'[v].at \in {"enrich", "send"}
    <3>1. CASE v = w
      <4>1. signWorker'[v].batch = <<>> /\ signWorker'[v].at = "yield"
        BY <1>2, <1>5, <3>1
      <4> QED
        BY ONLY <4>1
    <3>2. CASE v # w
      BY <1>5, <3>2 DEF SignInv, SignWorkersFit
    <3> QED
      BY <3>1, <3>2
  <2>2. \A v \in SignWorkers : HoldsItem(v)' => signWorker'[v].item \in ToSet(signActive')
    BY <1>2, <1>3, <1>5 DEF SignInv, SignWorkersFit, i
  <2>3. \A u, v \in SignWorkers :
          HoldsItem(u)' /\ HoldsItem(v)' /\ signWorker'[u].item = signWorker'[v].item => u = v
    BY <1>5 DEF SignInv, SignWorkersFit
  <2> QED
    BY <2>1, <2>2, <2>3 DEF SignWorkersFit
<1>9. SignEventsFit'
  <2>1. \A j \in SignListed' : EventsAre(signItem[j].pending, signItem[j].file)'
    BY <1>1, <1>4 DEF SignInv, SignEventsFit, EventsAre, Increasing
  <2>2. ASSUME NEW v \in SignWorkers, HoldsItem(v)'
        PROVE  BatchIsOf(signWorker[v].batch, signWorker[v].item)'
    <3>1. /\ v # w /\ HoldsItem(v)
          /\ signWorker'[v].batch = signWorker[v].batch /\ signWorker'[v].item = signWorker[v].item
      BY <1>5, <2>2
    <3>2. BatchIsOf(signWorker[v].batch, signWorker[v].item)
      BY <3>1 DEF SignInv, SignEventsFit
    <3> QED
      BY <1>1, <3>1, <3>2 DEF BatchIsOf, EventsAre, Increasing
  <2> QED
    BY <2>1, <2>2 DEF SignEventsFit
<1>10. ASSUME NEW e
       PROVE  /\ WaitsOnItem(e)' <=> WaitsOnItem(e)
              /\ WaitsInBatch(e)' <=> WaitsInBatch(e)
  <2>1. e \notin ToSet(signItem[i].pending)
    BY <1>1, EmptySeq DEF ToSet
  <2> QED
    BY <1>1, <1>4, <1>5, <2>1 DEF WaitsOnItem, WaitsInBatch
<1>11. SignPlacesDiffer' /\ SentIsOlder'
  BY <1>1, <1>10 DEF SignInv, SignPlacesDiffer, SentIsOlder
<1>12. FileEventsInOrder'
  BY <1>1 DEF SignInv, FileEventsInOrder
<1>13. SignPhases'
  BY <1>1, <1>2, EmptySeq DEF SignInv, SignPhases, SignWorkersGone, HoldsItem, ToSet
<1>14. PendingCounted'
  <2>1. /\ IsFiniteSet(SignListed)
        /\ \A j \in SignListed : PendingOn[j] = Len(signItem[j].pending) /\ PendingOn[j] \in Nat
    BY PendingIsCount DEF SignInv
  <2>2. PendingOn[i] = 0
    BY <1>1, <1>2, <2>1, EmptySeq
  <2>3. TotalOf(PendingOn, SignListed) = PendingOn[i] + TotalOf(PendingOn, SignListed \ {i})
        /\ TotalOf(PendingOn, SignListed \ {i}) \in Int
    <3>1. IsFiniteSet(SignListed) /\ i \in SignListed /\ \A j \in SignListed : PendingOn[j] \in Int
      BY <1>2, <2>1
    <3> QED
      BY ONLY <3>1, TotalSplit
  <2>4. \A j \in SignListed \ {i} : PendingOn'[j] = PendingOn[j] /\ PendingOn'[j] \in Int
    <3>1. \A j \in SignListed \ {i} : PendingOn'[j] = Len(signItem[j].pending)
      BY <1>1, <1>4 DEF PendingOn
    <3> QED
      BY <2>1, <3>1
  <2>5. TotalOf(PendingOn', SignListed \ {i}) = TotalOf(PendingOn, SignListed \ {i})
    <3> DEFINE g == PendingOn
               h == PendingOn'
               S == SignListed \ {i}
    <3>1. IsFiniteSet(S)
      BY <2>1, FS_RemoveElement
    <3>2. \A j \in S : h[j] = g[j] /\ h[j] \in Int
      BY <2>4
    <3> HIDE DEF g, h, S
    <3>3. TotalOf(h, S) = TotalOf(g, S)
      BY <3>1, <3>2, TotalSame
    <3> QED
      BY <3>3 DEF g, h, S
  <2> QED
    BY <1>1, <1>4, <2>2, <2>3, <2>5 DEF SignInv, PendingCounted
<1> QED
  BY <1>6, <1>7, <1>8, <1>9, <1>11, <1>12, <1>13, <1>14 DEF SignInv

\* What the cleanup finds on the lists is freed; the workers are gone.
LEMMA CleanedKeepsSign ==
    ASSUME SignInv, PipelineCleaned
    PROVE  SignInv'
<1>1. /\ SignWorkersGone
      /\ freed' = freed \cup EventsOf(SignListed)
      /\ signQueue' = <<>> /\ signActive' = <<>> /\ signItem' = <<>>
      /\ signDepth' = 0 /\ signPending' = 0 /\ UNCHANGED <<signWorker, arrived, sent>>
  BY DEF PipelineCleaned, SignListed
<1>2. /\ \A S : <<>> \in Seq(S)
      /\ Len(<<>>) = 0 /\ DOMAIN <<>> = {} /\ ToSet(<<>>) = {} /\ IsInjective(<<>>)
  BY EmptySeq DEF ToSet, IsInjective
<1>3. SignListed' = {}
  BY <1>1, <1>2 DEF SignListed
<1>4. ASSUME NEW v \in SignWorkers
      PROVE  ~HoldsItem(v) /\ ~HoldsItem(v)' /\ signWorker[v].batch = <<>>
  BY <1>1 DEF SignInv, SignWorkersFit, SignWorkersGone, HoldsItem
<1>5. \A e : ~WaitsOnItem(e)' /\ ~WaitsInBatch(e)' /\ ~WaitsInBatch(e)
  BY <1>1, <1>2, <1>3, <1>4 DEF WaitsOnItem, WaitsInBatch
<1>6. \A e : e \in EventsOf(SignListed) <=> WaitsOnItem(e)
  BY DEF EventsOf, WaitsOnItem
<1>7. SignTypes'
  BY <1>1, <1>2 DEF SignInv, SignTypes
<1>8. SignListsFit' /\ SignEventsFit'
  BY <1>1, <1>2, <1>3, <1>4 DEF SignListsFit, SignEventsFit
<1>9. SignWorkersFit'
  BY <1>1, <1>4 DEF SignInv, SignWorkersFit
<1>10. SignPlacesDiffer'
  <2>1. ASSUME NEW i \in SignListed, NEW e \in ToSet(signItem[i].pending) PROVE e \in DOMAIN arrived
    <3>1. EventsAre(signItem[i].pending, signItem[i].file)
      BY DEF SignInv, SignEventsFit
    <3> QED
      BY <3>1 DEF EventsAre
  <2>2. \A e : WaitsOnItem(e) => e \in DOMAIN arrived
    BY <2>1 DEF WaitsOnItem
  <2> QED
    BY <1>1, <1>5, <1>6, <2>2 DEF SignInv, SignPlacesDiffer
<1>11. FileEventsInOrder' /\ SentIsOlder'
  BY <1>1, <1>5 DEF SignInv, FileEventsInOrder, SentIsOlder
<1>12. SignPhases' /\ PendingCounted'
  BY <1>1, <1>3, TotalEmpty DEF SignPhases, PendingCounted, SignWorkersGone
<1> QED
  BY <1>7, <1>8, <1>9, <1>10, <1>11, <1>12 DEF SignInv

\* The event that arrives is later than all there are.
LEMMA EventArrives ==
    ASSUME SignInv, NEW file \in Files, arrived' = Append(arrived, file)
    PROVE  /\ arrived' \in Seq(Files) /\ Len(arrived) + 1 \in Nat
           /\ DOMAIN arrived' = DOMAIN arrived \cup {Len(arrived) + 1}
           /\ Len(arrived) + 1 \notin DOMAIN arrived /\ arrived'[Len(arrived) + 1] = file
           /\ \A e \in DOMAIN arrived : arrived'[e] = arrived[e] /\ e \in Nat /\ e < Len(arrived) + 1
           /\ \A e : WaitsOnItem(e) \/ WaitsInBatch(e) => e \in DOMAIN arrived
           /\ \A s, f : EventsAre(s, f) => EventsAre(s, f)'
<1>1. /\ arrived' \in Seq(Files) /\ Len(arrived) + 1 \in Nat
      /\ DOMAIN arrived' = DOMAIN arrived \cup {Len(arrived) + 1}
      /\ Len(arrived) + 1 \notin DOMAIN arrived /\ arrived'[Len(arrived) + 1] = file
      /\ \A e \in DOMAIN arrived : arrived'[e] = arrived[e] /\ e \in Nat /\ e < Len(arrived) + 1
  BY AppendIndexes DEF SignInv, SignTypes
<1>2. ASSUME NEW e, WaitsOnItem(e) PROVE e \in DOMAIN arrived
  <2>1. PICK i \in SignListed : e \in ToSet(signItem[i].pending)
    BY <1>2 DEF WaitsOnItem
  <2>2. EventsAre(signItem[i].pending, signItem[i].file)
    BY DEF SignInv, SignEventsFit
  <2> QED
    BY <2>1, <2>2 DEF EventsAre
<1>3. ASSUME NEW e, WaitsInBatch(e) PROVE e \in DOMAIN arrived
  <2>1. PICK v \in SignWorkers : e \in ToSet(signWorker[v].batch)
    BY <1>3 DEF WaitsInBatch
  <2>2. signWorker[v].batch # <<>>
    BY <2>1, EmptySeq DEF ToSet
  <2>3. HoldsItem(v)
    BY <2>2 DEF SignInv, SignWorkersFit, HoldsItem
  <2>4. BatchIsOf(signWorker[v].batch, signWorker[v].item)
    BY <2>3 DEF SignInv, SignEventsFit
  <2> QED
    BY <2>1, <2>4 DEF BatchIsOf, EventsAre
<1>4. ASSUME NEW s, NEW f, EventsAre(s, f) PROVE EventsAre(s, f)'
  BY <1>1, <1>4 DEF EventsAre
<1> QED
  BY <1>1, <1>2, <1>3, <1>4

\* An event that the queue refuses is sent as it is.
LEMMA RawKeepsSign ==
    ASSUME SignInv, NEW file \in Files, arrived' = Append(arrived, file),
           DispatchRaw(Len(arrived) + 1), UNCHANGED <<signActive, signWorker, freed>>
    PROVE  SignInv'
<1> DEFINE e == Len(arrived) + 1
           m == Len(sent) + 1
<1>1. /\ sent' = Append(sent, [event |-> e, enriched |-> FALSE])
      /\ UNCHANGED <<signMain, signQueue, signItem, signDepth, signPending>>
  BY DEF DispatchRaw
<1>2. /\ arrived' \in Seq(Files) /\ e \in Nat
      /\ DOMAIN arrived' = DOMAIN arrived \cup {e} /\ e \notin DOMAIN arrived /\ arrived'[e] = file
      /\ \A d \in DOMAIN arrived : arrived'[d] = arrived[d] /\ d \in Nat /\ d < e
      /\ \A d : WaitsOnItem(d) \/ WaitsInBatch(d) => d \in DOMAIN arrived
      /\ \A s, f : EventsAre(s, f) => EventsAre(s, f)'
  BY EventArrives
<1>3. /\ sent' \in Seq([event : Nat, enriched : BOOLEAN])
      /\ DOMAIN sent' = DOMAIN sent \cup {m} /\ m \notin DOMAIN sent /\ m \in Nat
      /\ sent'[m] = [event |-> e, enriched |-> FALSE]
      /\ \A k \in DOMAIN sent : sent'[k] = sent[k]
  <2> DEFINE x == [event |-> e, enriched |-> FALSE]
  <2>1. /\ x \in [event : Nat, enriched : BOOLEAN] /\ sent' = Append(sent, x)
        /\ sent \in Seq([event : Nat, enriched : BOOLEAN])
    BY <1>1, <1>2 DEF SignInv, SignTypes
  <2> HIDE DEF x
  <2>2. /\ sent' \in Seq([event : Nat, enriched : BOOLEAN])
        /\ DOMAIN sent' = DOMAIN sent \cup {m} /\ m \notin DOMAIN sent /\ m \in Nat
        /\ sent'[m] = x
        /\ \A k \in DOMAIN sent : sent'[k] = sent[k]
    BY <2>1, AppendIndexes
  <2> QED
    BY <2>2 DEF x
<1> HIDE DEF e, m
<1>4. SignListed' = SignListed
  BY <1>1 DEF SignListed
<1>5. \A d : (WaitsOnItem(d)' <=> WaitsOnItem(d)) /\ (WaitsInBatch(d)' <=> WaitsInBatch(d))
  BY <1>1, <1>4 DEF WaitsOnItem, WaitsInBatch
<1>6. SignTypes' /\ SignListsFit' /\ SignWorkersFit'
  BY <1>1, <1>2, <1>3, <1>4 DEF SignInv, SignTypes, SignListsFit, SignWorkersFit, HoldsItem
<1>7. SignEventsFit'
  <2>1. ASSUME NEW i \in SignListed' PROVE EventsAre(signItem[i].pending, signItem[i].file)'
    <3>1. EventsAre(signItem[i].pending, signItem[i].file)
      BY <1>4 DEF SignInv, SignEventsFit
    <3> QED
      BY <1>1, <1>2, <3>1 DEF EventsAre
  <2>2. ASSUME NEW v \in SignWorkers, HoldsItem(v)'
        PROVE  BatchIsOf(signWorker[v].batch, signWorker[v].item)'
    <3>1. BatchIsOf(signWorker[v].batch, signWorker[v].item)
      BY <2>2 DEF SignInv, SignEventsFit, HoldsItem
    <3> QED
      BY <1>1, <1>2, <3>1 DEF BatchIsOf, EventsAre
  <2> QED
    BY <2>1, <2>2 DEF SignEventsFit
<1>8. SignPlacesDiffer'
  <2>1. ASSUME NEW d \in DOMAIN arrived'
        PROVE  \/ WaitsOnItem(d)' \/ WaitsInBatch(d)' \/ d \in freed'
               \/ \E k \in DOMAIN sent' : sent'[k].event = d
    <3>1. CASE d = e
      BY <1>3, <3>1
    <3>2. CASE d # e
      <4>1. \/ WaitsOnItem(d) \/ WaitsInBatch(d) \/ d \in freed
            \/ \E k \in DOMAIN sent : sent[k].event = d
        BY <1>2, <2>1, <3>2 DEF SignInv, SignPlacesDiffer
      <4> QED
        BY <1>3, <1>5, <4>1
    <3> QED
      BY <3>1, <3>2
  <2>2. ASSUME NEW k \in DOMAIN sent'
        PROVE  /\ sent'[k].event \in DOMAIN arrived' /\ sent'[k].event \notin freed'
               /\ ~WaitsOnItem(sent[k].event)' /\ ~WaitsInBatch(sent[k].event)'
    <3>1. CASE k = m
      <4>1. sent'[k].event = e
        BY <1>3, <3>1
      <4>2. e \notin freed
        BY <1>2 DEF SignInv, SignPlacesDiffer
      <4> QED
        BY <1>2, <1>5, <4>1, <4>2
    <3>2. CASE k # m
      <4>1. k \in DOMAIN sent /\ sent'[k] = sent[k]
        BY <1>3, <3>2
      <4>2. /\ sent[k].event \in DOMAIN arrived /\ sent[k].event \notin freed
            /\ ~WaitsOnItem(sent[k].event) /\ ~WaitsInBatch(sent[k].event)
        BY <4>1 DEF SignInv, SignPlacesDiffer
      <4> QED
        BY <1>2, <1>5, <4>1, <4>2
    <3> QED
      BY <3>1, <3>2
  <2>3. \A d \in freed' : d \in DOMAIN arrived' /\ ~WaitsOnItem(d)' /\ ~WaitsInBatch(d)'
    BY <1>2, <1>5 DEF SignInv, SignPlacesDiffer
  <2>4. \A k \in DOMAIN sent : sent[k].event \in DOMAIN arrived /\ sent[k].event # e
    BY <1>2 DEF SignInv, SignPlacesDiffer
  <2>5. \A j, k \in DOMAIN sent' : sent'[j].event = sent'[k].event => j = k
    BY <1>3, <2>4 DEF SignInv, SignPlacesDiffer
  <2> QED
    BY <2>1, <2>2, <2>3, <2>5 DEF SignPlacesDiffer
<1>9. ASSUME NEW k \in DOMAIN sent', sent'[k].enriched
      PROVE  /\ k \in DOMAIN sent /\ sent'[k] = sent[k]
             /\ sent[k].event \in DOMAIN arrived /\ arrived'[sent[k].event] = arrived[sent[k].event]
  BY <1>2, <1>3, <1>9 DEF SignInv, SignPlacesDiffer
<1>10. FileEventsInOrder'
  BY <1>9 DEF SignInv, FileEventsInOrder
<1>11. SentIsOlder'
  BY <1>2, <1>5, <1>9 DEF SignInv, SentIsOlder
<1>12. SignPhases' /\ PendingCounted'
  BY <1>1, <1>4 DEF SignInv, SignPhases, SignWorkersGone, PendingCounted, PendingOn
<1> QED
  BY <1>6, <1>7, <1>8, <1>10, <1>11, <1>12 DEF SignInv

\* An event that is accepted waits on an item of its file, the latest there.
LEMMA AcceptedKeepsPlaces ==
    ASSUME SignInv, NEW file \in Files, arrived' = Append(arrived, file),
           UNCHANGED <<signWorker, sent, freed>>,
           \A d : WaitsOnItem(d)' <=> WaitsOnItem(d) \/ d = Len(arrived) + 1
    PROVE  SignPlacesDiffer' /\ FileEventsInOrder' /\ SentIsOlder'
<1> DEFINE e == Len(arrived) + 1
<1>1. /\ e \in Nat
      /\ DOMAIN arrived' = DOMAIN arrived \cup {e} /\ e \notin DOMAIN arrived /\ arrived'[e] = file
      /\ \A d \in DOMAIN arrived : arrived'[d] = arrived[d] /\ d \in Nat /\ d < e
      /\ \A d : WaitsOnItem(d) \/ WaitsInBatch(d) => d \in DOMAIN arrived
  BY EventArrives
<1>2. \A d : WaitsOnItem(d)' <=> WaitsOnItem(d) \/ d = e
  OBVIOUS
<1> HIDE DEF e
<1>3. \A d : WaitsInBatch(d)' <=> WaitsInBatch(d)
  BY DEF WaitsInBatch
<1>4. \A k \in DOMAIN sent : sent[k].event \in DOMAIN arrived /\ sent[k].event # e
  BY <1>1 DEF SignInv, SignPlacesDiffer
<1>5. SignPlacesDiffer'
  <2>1. ASSUME NEW d \in DOMAIN arrived'
        PROVE  \/ WaitsOnItem(d)' \/ WaitsInBatch(d)' \/ d \in freed'
               \/ \E k \in DOMAIN sent' : sent'[k].event = d
    BY <1>1, <1>2, <1>3 DEF SignInv, SignPlacesDiffer
  <2>2. ASSUME NEW k \in DOMAIN sent'
        PROVE  /\ sent'[k].event \in DOMAIN arrived' /\ sent'[k].event \notin freed'
               /\ ~WaitsOnItem(sent[k].event)' /\ ~WaitsInBatch(sent[k].event)'
    <3>1. /\ sent[k].event \in DOMAIN arrived /\ sent[k].event \notin freed
          /\ ~WaitsOnItem(sent[k].event) /\ ~WaitsInBatch(sent[k].event)
      BY <2>2 DEF SignInv, SignPlacesDiffer
    <3> QED
      BY <1>1, <1>2, <1>3, <1>4, <2>2, <3>1
  <2>3. \A d \in freed' : d \in DOMAIN arrived' /\ ~WaitsOnItem(d)' /\ ~WaitsInBatch(d)'
    BY <1>1, <1>2, <1>3 DEF SignInv, SignPlacesDiffer
  <2>4. \A j, k \in DOMAIN sent' : sent'[j].event = sent'[k].event => j = k
    BY DEF SignInv, SignPlacesDiffer
  <2> QED
    BY <2>1, <2>2, <2>3, <2>4 DEF SignPlacesDiffer
<1>6. FileEventsInOrder'
  BY <1>1, <1>4 DEF SignInv, FileEventsInOrder
<1>7. SentIsOlder'
  <2> SUFFICES ASSUME NEW k \in DOMAIN sent, NEW d \in DOMAIN arrived',
                      sent[k].enriched, arrived'[sent[k].event] = arrived'[d],
                      WaitsOnItem(d)' \/ WaitsInBatch(d)'
               PROVE  sent[k].event < d
    BY DEF SentIsOlder
  <2>1. CASE d = e
    BY <1>1, <1>4, <2>1
  <2>2. CASE d # e
    BY <1>1, <1>2, <1>3, <1>4, <2>2 DEF SignInv, SentIsOlder
  <2> QED
    BY <2>1, <2>2
<1> QED
  BY <1>5, <1>6, <1>7

\* A later number at the end keeps a run increasing.
LEMMA IncreasingAppend ==
    ASSUME NEW s \in Seq(Nat), Increasing(s), NEW x \in Nat, \A e \in ToSet(s) : e < x
    PROVE  /\ Increasing(Append(s, x)) /\ Append(s, x) \in Seq(Nat)
           /\ Len(Append(s, x)) = Len(s) + 1 /\ Len(s) \in Nat
           /\ ToSet(Append(s, x)) = ToSet(s) \cup {x}
<1>1. /\ Append(s, x) \in Seq(Nat)
      /\ DOMAIN Append(s, x) = DOMAIN s \cup {Len(s) + 1}
      /\ Len(s) \in Nat /\ Len(Append(s, x)) = Len(s) + 1
      /\ Append(s, x)[Len(s) + 1] = x
      /\ \A k \in DOMAIN s : Append(s, x)[k] = s[k] /\ k \in Nat /\ k < Len(s) + 1
  BY AppendIndexes
<1>2. \A k \in DOMAIN s : s[k] < x
  BY DEF ToSet
<1>3. Increasing(Append(s, x))
  BY <1>1, <1>2 DEF Increasing
<1>4. ToSet(Append(s, x)) = ToSet(s) \cup {x}
  BY AppendDistinct
<1> QED
  BY <1>1, <1>3, <1>4

\* It joins the item of its file.
LEMMA JoinKeepsSign ==
    ASSUME SignInv, NEW file \in Files, arrived' = Append(arrived, file), signMain = "dispatch",
           NEW i \in SignListed, signItem[i].file = file,
           JoinItem(i, Len(arrived) + 1), UNCHANGED <<signActive, signWorker, sent, freed>>
    PROVE  SignInv'
<1> DEFINE e == Len(arrived) + 1
           p == signItem[i].pending
<1>1. /\ signItem' = [signItem EXCEPT ![i].pending = Append(p, e)]
      /\ signPending' = signPending + 1 /\ signMain' = "signal"
      /\ UNCHANGED <<signQueue, signDepth>>
  BY DEF JoinItem
<1>2. /\ arrived' \in Seq(Files) /\ e \in Nat
      /\ DOMAIN arrived' = DOMAIN arrived \cup {e} /\ e \notin DOMAIN arrived /\ arrived'[e] = file
      /\ \A d \in DOMAIN arrived : arrived'[d] = arrived[d] /\ d \in Nat /\ d < e
      /\ \A s, f : EventsAre(s, f) => EventsAre(s, f)'
  BY EventArrives
<1>3. /\ i \in DOMAIN signItem /\ DOMAIN signItem = 1 .. Len(signItem) /\ Len(signItem) \in Nat
      /\ \A j \in DOMAIN signItem : signItem[j] \in WorkItems
      /\ EventsAre(p, file)
  <2>1. i \in DOMAIN signItem /\ DOMAIN signItem = 1 .. Len(signItem) /\ Len(signItem) \in Nat
    BY LenProperties DEF SignInv, SignTypes, SignListsFit
  <2>2. \A j \in DOMAIN signItem : signItem[j] \in WorkItems
    BY <2>1, ElementOfSeq DEF SignInv, SignTypes
  <2> QED
    BY <2>1, <2>2 DEF SignInv, SignEventsFit
<1>4. p \in Seq(Nat) /\ Increasing(p) /\ \A d \in ToSet(p) : d \in DOMAIN arrived /\ d < e
  BY <1>2, <1>3 DEF EventsAre, WorkItems
<1> HIDE DEF e, p
<1>5. /\ Increasing(Append(p, e)) /\ Append(p, e) \in Seq(Nat)
      /\ Len(Append(p, e)) = Len(p) + 1 /\ Len(p) \in Nat
      /\ ToSet(Append(p, e)) = ToSet(p) \cup {e}
  BY <1>2, <1>4, IncreasingAppend
<1>6. /\ signItem' \in Seq(WorkItems) /\ DOMAIN signItem' = DOMAIN signItem
      /\ \A j \in DOMAIN signItem :
            /\ signItem'[j].file = signItem[j].file
            /\ signItem'[j].pending = IF j = i THEN Append(p, e) ELSE signItem[j].pending
  <2>1. ASSUME NEW j \in DOMAIN signItem
        PROVE  /\ signItem'[j].file = signItem[j].file
               /\ signItem'[j].pending = IF j = i THEN Append(p, e) ELSE signItem[j].pending
               /\ signItem'[j] \in WorkItems
    <3>1. CASE j = i
      BY <1>1, <1>3, <1>5, <3>1 DEF WorkItems
    <3>2. CASE j # i
      BY <1>1, <1>3, <3>2
    <3> QED
      BY <3>1, <3>2
  <2>2. DOMAIN signItem' = 1 .. Len(signItem) /\ signItem' = [j \in 1 .. Len(signItem) |-> signItem'[j]]
    BY <1>1, <1>3
  <2>3. signItem' \in [1 .. Len(signItem) -> WorkItems]
    BY ONLY <1>3, <2>1, <2>2
  <2> QED
    BY <1>3, <2>1, <2>2, <2>3, SeqDef
<1>7. SignListed' = SignListed /\ SignListed \subseteq DOMAIN signItem
  BY <1>1 DEF SignListed, SignInv, SignListsFit
<1>8. SignTypes' /\ SignListsFit'
  BY <1>1, <1>2, <1>6, <1>7 DEF SignInv, SignTypes, SignListsFit
<1>9. SignWorkersFit'
  BY <1>1 DEF SignInv, SignWorkersFit, HoldsItem
<1>10. SignEventsFit'
  <2>1. ASSUME NEW j \in SignListed' PROVE EventsAre(signItem[j].pending, signItem[j].file)'
    <3>1. CASE j = i
      <4>1. signItem'[j].pending = Append(p, e) /\ signItem'[j].file = file
        BY <1>6, <1>7, <3>1
      <4>2. \A d \in ToSet(p) : d \in DOMAIN arrived' /\ arrived'[d] = file
        BY <1>2, <1>3 DEF EventsAre
      <4> QED
        BY <1>2, <1>5, <4>1, <4>2 DEF EventsAre
    <3>2. CASE j # i
      <4>1. /\ signItem'[j].pending = signItem[j].pending /\ signItem'[j].file = signItem[j].file
            /\ EventsAre(signItem[j].pending, signItem[j].file)
        BY <1>6, <1>7, <3>2 DEF SignInv, SignEventsFit
      <4> QED
        BY <1>2, <4>1 DEF EventsAre
    <3> QED
      BY <3>1, <3>2
  <2>2. ASSUME NEW v \in SignWorkers, HoldsItem(v)'
        PROVE  BatchIsOf(signWorker[v].batch, signWorker[v].item)'
    <3> DEFINE b == signWorker[v].batch
               j == signWorker[v].item
    <3>1. HoldsItem(v) /\ j \in SignListed /\ signWorker' = signWorker
      BY <2>2 DEF SignInv, SignWorkersFit, SignListed, HoldsItem
    <3>2. BatchIsOf(b, j)
      BY <3>1 DEF SignInv, SignEventsFit
    <3>3. /\ Increasing(b)
          /\ \A d \in ToSet(b) : d \in DOMAIN arrived' /\ arrived'[d] = signItem'[j].file
      BY <1>2, <1>6, <1>7, <3>1, <3>2 DEF BatchIsOf, EventsAre
    <3>4. \A d \in ToSet(b) : d < e
      BY <1>2, <3>2 DEF BatchIsOf, EventsAre
    <3>5. \A d \in ToSet(b), c \in ToSet(signItem'[j].pending) : d < c
      <4>1. CASE j = i
        <5>1. ToSet(signItem'[j].pending) = ToSet(p) \cup {e}
          BY <1>5, <1>6, <1>7, <4>1
        <5>2. \A d \in ToSet(b), c \in ToSet(p) : d < c
          BY <3>2, <4>1 DEF BatchIsOf, p
        <5> QED
          BY <3>4, <5>1, <5>2
      <4>2. CASE j # i
        BY <1>6, <1>7, <3>1, <3>2, <4>2 DEF BatchIsOf
      <4> QED
        BY <4>1, <4>2
    <3> QED
      BY <3>1, <3>3, <3>5 DEF BatchIsOf, EventsAre
  <2> QED
    BY <2>1, <2>2 DEF SignEventsFit
<1>11. ASSUME NEW d PROVE WaitsOnItem(d)' <=> WaitsOnItem(d) \/ d = e
  <2>1. ASSUME WaitsOnItem(d)' PROVE WaitsOnItem(d) \/ d = e
    <3>1. PICK j \in SignListed : d \in ToSet(signItem'[j].pending)
      BY <1>7, <2>1 DEF WaitsOnItem
    <3>2. CASE j = i
      BY <1>5, <1>6, <1>7, <3>1, <3>2 DEF WaitsOnItem, p
    <3>3. CASE j # i
      BY <1>6, <1>7, <3>1, <3>3 DEF WaitsOnItem
    <3> QED
      BY <3>2, <3>3
  <2>2. ASSUME WaitsOnItem(d) PROVE WaitsOnItem(d)'
    <3>1. PICK j \in SignListed : d \in ToSet(signItem[j].pending)
      BY <2>2 DEF WaitsOnItem
    <3>2. d \in ToSet(signItem'[j].pending)
      <4>1. CASE j = i
        BY <1>5, <1>6, <1>7, <3>1, <4>1 DEF p
      <4>2. CASE j # i
        BY <1>6, <1>7, <3>1, <4>2
      <4> QED
        BY <4>1, <4>2
    <3> QED
      BY <1>7, <3>1, <3>2 DEF WaitsOnItem
  <2>3. ASSUME d = e PROVE WaitsOnItem(d)'
    <3>1. d \in ToSet(signItem'[i].pending)
      BY <1>5, <1>6, <1>7, <2>3
    <3> QED
      BY <1>7, <3>1 DEF WaitsOnItem
  <2> QED
    BY <2>1, <2>2, <2>3
<1>12. SignPlacesDiffer' /\ FileEventsInOrder' /\ SentIsOlder'
  BY <1>11, AcceptedKeepsPlaces DEF e
<1>13. SignPhases'
  BY <1>1 DEF SignPhases
<1>14. PendingCounted'
  <2>1. /\ IsFiniteSet(SignListed)
        /\ \A j \in SignListed : PendingOn[j] = Len(signItem[j].pending) /\ PendingOn[j] \in Nat
    BY PendingIsCount DEF SignInv
  <2>2. \A j \in SignListed : PendingOn'[j] = Len(signItem'[j].pending)
    BY <1>7 DEF PendingOn
  <2> DEFINE g == PendingOn
             h == PendingOn'
  <2>3. g[i] = Len(p) /\ h[i] = Len(p) + 1
    BY <1>5, <1>6, <1>7, <2>1, <2>2 DEF p
  <2>4. \A j \in SignListed : g[j] \in Nat /\ h[j] \in Int /\ (j # i => h[j] = g[j])
    <3> SUFFICES ASSUME NEW j \in SignListed
                 PROVE  g[j] \in Nat /\ h[j] \in Int /\ (j # i => h[j] = g[j])
      OBVIOUS
    <3>1. CASE j = i
      BY <1>5, <2>1, <2>3, <3>1
    <3>2. CASE j # i
      BY <1>6, <1>7, <2>1, <2>2, <3>2
    <3> QED
      BY <3>1, <3>2
  <2>5. signPending = TotalOf(g, SignListed)
    BY DEF SignInv, PendingCounted
  <2> HIDE DEF g, h
  <2>6. TotalOf(h, SignListed) = TotalOf(g, SignListed) - g[i] + h[i]
    BY <2>1, <2>4, TotalReplace
  <2>7. TotalOf(g, SignListed) \in Nat
    BY <2>1, <2>4, TotalNat
  <2>8. TotalOf(h, SignListed) = signPending + 1
    BY <1>5, <2>3, <2>5, <2>6, <2>7
  <2> QED
    BY <1>1, <1>7, <2>8 DEF PendingCounted, h
<1> QED
  BY <1>8, <1>9, <1>10, <1>12, <1>13, <1>14 DEF SignInv

\* It opens an item when its file has none.
LEMMA NewKeepsSign ==
    ASSUME SignInv, NEW file \in Files, arrived' = Append(arrived, file), signMain = "dispatch",
           \A i \in SignListed : signItem[i].file # file,
           NewItem(file, Len(arrived) + 1), UNCHANGED <<signActive, signWorker, freed>>
    PROVE  SignInv'
<1> DEFINE e == Len(arrived) + 1
           n == Len(signItem) + 1
           item == [file |-> file, pending |-> <<e>>]
<1>1. /\ signItem' = Append(signItem, item) /\ signQueue' = Append(signQueue, n)
      /\ signPending' = signPending + 1 /\ signDepth' = signDepth + 1
      /\ signMain' = "signal" /\ UNCHANGED sent
  BY DEF NewItem
<1>2. /\ arrived' \in Seq(Files) /\ e \in Nat
      /\ DOMAIN arrived' = DOMAIN arrived \cup {e} /\ e \notin DOMAIN arrived /\ arrived'[e] = file
      /\ \A d \in DOMAIN arrived : arrived'[d] = arrived[d] /\ d \in Nat /\ d < e
      /\ \A s, f : EventsAre(s, f) => EventsAre(s, f)'
  BY EventArrives
<1>3. item.file = file /\ item.pending = <<e>>
  OBVIOUS
<1> HIDE DEF e
<1>4. /\ <<e>> \in Seq(Nat) /\ Len(<<e>>) = 1 /\ ToSet(<<e>>) = {e} /\ Increasing(<<e>>)
  BY <1>2 DEF ToSet, Increasing
<1>5. item \in WorkItems
  BY <1>4 DEF WorkItems
<1> HIDE DEF item
<1>6. /\ signItem' \in Seq(WorkItems) /\ DOMAIN signItem' = DOMAIN signItem \cup {n}
      /\ n \notin DOMAIN signItem /\ n \in Nat \ {0} /\ signItem'[n] = item
      /\ \A j \in DOMAIN signItem : signItem'[j] = signItem[j]
  BY <1>1, <1>5, AppendIndexes DEF SignInv, SignTypes
<1> HIDE DEF n
<1>7. SignListed \subseteq DOMAIN signItem /\ n \notin SignListed
  BY <1>6 DEF SignInv, SignListsFit
<1>8. /\ signQueue' \in Seq(Nat \ {0}) /\ Len(signQueue') = Len(signQueue) + 1
      /\ ToSet(signQueue') = ToSet(signQueue) \cup {n} /\ IsInjective(signQueue')
  <2>1. signQueue \in Seq(Nat \ {0}) /\ IsInjective(signQueue) /\ n \in Nat \ {0} /\ n \notin ToSet(signQueue)
    BY <1>6, <1>7 DEF SignInv, SignTypes, SignListsFit, SignListed
  <2> DEFINE S == Nat \ {0}
  <2> HIDE DEF S
  <2>2. /\ signQueue' \in Seq(S) /\ IsInjective(signQueue')
        /\ ToSet(signQueue') = ToSet(signQueue) \cup {n}
    <3>1. /\ Append(signQueue, n) \in Seq(S) /\ IsInjective(Append(signQueue, n))
          /\ ToSet(Append(signQueue, n)) = ToSet(signQueue) \cup {n}
      <4>1. signQueue \in Seq(S) /\ n \in S /\ IsInjective(signQueue) /\ n \notin ToSet(signQueue)
        BY <2>1 DEF S
      <4>2. /\ Append(signQueue, n) \in Seq(S)
            /\ ToSet(Append(signQueue, n)) = ToSet(signQueue) \cup {n}
            /\ IsInjective(signQueue) /\ n \notin ToSet(signQueue) => IsInjective(Append(signQueue, n))
        BY ONLY <4>1, AppendDistinct
      <4> QED
        BY <4>1, <4>2
    <3> QED
      BY <1>1, <3>1
  <2>3. Len(signQueue') = Len(signQueue) + 1
    BY <1>1, <2>1, AppendIndexes
  <2> QED
    BY <2>2, <2>3 DEF S
<1>9. SignListed' = SignListed \cup {n}
  BY <1>1, <1>8 DEF SignListed
<1>10. SignTypes'
  BY <1>1, <1>2, <1>6, <1>8 DEF SignInv, SignTypes
<1>11. SignListsFit'
  <2>1. ASSUME NEW i \in SignListed', NEW j \in SignListed', signItem'[i].file = signItem'[j].file
        PROVE  i = j
    BY <1>3, <1>6, <1>7, <1>9, <2>1 DEF SignInv, SignListsFit
  <2> QED
    BY <1>6, <1>7, <1>8, <1>9, <2>1 DEF SignInv, SignListsFit, SignListed
<1>12. SignWorkersFit'
  BY <1>1 DEF SignInv, SignWorkersFit, HoldsItem
<1>13. SignEventsFit'
  <2>1. ASSUME NEW j \in SignListed' PROVE EventsAre(signItem[j].pending, signItem[j].file)'
    <3>1. CASE j = n
      <4>1. signItem'[j].pending = <<e>> /\ signItem'[j].file = file
        BY <1>3, <1>6, <3>1
      <4> QED
        BY <1>2, <1>4, <4>1 DEF EventsAre
    <3>2. CASE j # n
      <4>1. /\ signItem'[j] = signItem[j]
            /\ EventsAre(signItem[j].pending, signItem[j].file)
        BY <1>6, <1>7, <1>9, <3>2 DEF SignInv, SignEventsFit
      <4> QED
        BY <1>2, <4>1 DEF EventsAre
    <3> QED
      BY <3>1, <3>2
  <2>2. ASSUME NEW v \in SignWorkers, HoldsItem(v)'
        PROVE  BatchIsOf(signWorker[v].batch, signWorker[v].item)'
    <3>1. HoldsItem(v) /\ signWorker[v].item \in SignListed
      BY <2>2 DEF SignInv, SignWorkersFit, SignListed, HoldsItem
    <3>2. BatchIsOf(signWorker[v].batch, signWorker[v].item)
      BY <3>1 DEF SignInv, SignEventsFit
    <3>3. signItem'[signWorker[v].item] = signItem[signWorker[v].item]
      BY <1>6, <1>7, <3>1
    <3> QED
      BY <1>2, <3>2, <3>3 DEF BatchIsOf, EventsAre
  <2> QED
    BY <2>1, <2>2 DEF SignEventsFit
<1>14. ASSUME NEW d PROVE WaitsOnItem(d)' <=> WaitsOnItem(d) \/ d = e
  <2>1. WaitsOnItem(d)' <=> \E j \in SignListed \cup {n} : d \in ToSet(signItem'[j].pending)
    BY <1>9 DEF WaitsOnItem
  <2>2. d \in ToSet(signItem'[n].pending) <=> d = e
    BY <1>3, <1>4, <1>6
  <2>3. \A j \in SignListed : signItem'[j] = signItem[j]
    BY <1>6, <1>7
  <2> QED
    BY <2>1, <2>2, <2>3 DEF WaitsOnItem
<1>15. SignPlacesDiffer' /\ FileEventsInOrder' /\ SentIsOlder'
  BY <1>1, <1>14, AcceptedKeepsPlaces DEF e
<1>16. SignPhases'
  BY <1>1 DEF SignPhases
<1>17. PendingCounted'
  <2> DEFINE g == PendingOn
             h == PendingOn'
             S == SignListed
             T == SignListed'
  <2>1. IsFiniteSet(S) /\ \A j \in S : g[j] = Len(signItem[j].pending) /\ g[j] \in Nat
    BY PendingIsCount DEF SignInv
  <2>2. \A j \in T : h[j] = Len(signItem'[j].pending)
    BY DEF PendingOn
  <2>3. h[n] = 1
    <3>1. n \in T /\ signItem'[n].pending = <<e>>
      BY <1>3, <1>6, <1>9
    <3> QED
      BY <1>4, <2>2, <3>1
  <2>4. \A j \in S : h[j] = g[j] /\ h[j] \in Int
    <3>1. \A j \in S : j \in T /\ signItem'[j] = signItem[j]
      BY <1>6, <1>7, <1>9
    <3> QED
      BY <2>1, <2>2, <3>1
  <2>5. T \ {n} = S /\ n \in T /\ T = S \cup {n}
    BY <1>7, <1>9
  <2>6. signPending = TotalOf(g, S)
    BY DEF SignInv, PendingCounted
  <2> HIDE DEF g, h, S, T
  <2>7. IsFiniteSet(T)
    BY <2>1, <2>5, FS_AddElement
  <2>8. \A j \in T : h[j] \in Int
    BY <2>3, <2>4, <2>5
  <2>9. TotalOf(h, T) = h[n] + TotalOf(h, S)
    BY <2>5, <2>7, <2>8, TotalSplit
  <2>10. TotalOf(h, S) = TotalOf(g, S)
    BY <2>1, <2>4, TotalSame
  <2>11. TotalOf(g, S) \in Nat
    BY <2>1, TotalNat
  <2>12. TotalOf(h, T) = signPending + 1
    BY <2>3, <2>6, <2>9, <2>10, <2>11
  <2> QED
    BY <1>1, <2>12 DEF PendingCounted, h, T
<1> QED
  BY <1>10, <1>11, <1>12, <1>13, <1>15, <1>16, <1>17 DEF SignInv

\* The search finds the item of a file, on either list, when there is one.
LEMMA FindsItem ==
    ASSUME SignTypes, NEW file
    PROVE  IF FindItem(file) # NoWorkItem
           THEN FindItem(file) \in SignListed /\ signItem[FindItem(file)].file = file
           ELSE \A i \in SignListed : signItem[i].file # file
<1> DEFINE items == signQueue \o signActive
           at == {k \in DOMAIN items : signItem[items[k]].file = file}
<1>1. /\ items \in Seq(Nat \ {0}) /\ DOMAIN items = 1 .. Len(items) /\ Len(items) \in Nat
      /\ \A k \in DOMAIN items : items[k] \in Nat \ {0}
  BY ConcatElements, LenProperties, ElementOfSeq DEF SignTypes
<1>2. SignListed = ToSet(items)
  BY ConcatElements DEF SignTypes, SignListed
<1>3. FindItem(file) = IF at = {} THEN NoWorkItem ELSE items[Min(at)]
  BY DEF FindItem, FirstOf
<1>4. CASE at = {}
  <2>1. FindItem(file) = NoWorkItem
    BY <1>3, <1>4
  <2>2. \A k \in DOMAIN items : signItem[items[k]].file # file
    BY <1>4
  <2> HIDE DEF items
  <2> QED
    BY <1>2, <2>1, <2>2 DEF ToSet
<1>5. CASE at # {}
  <2>1. at \subseteq Nat
    BY <1>1
  <2> HIDE DEF at
  <2>2. Min(at) \in at
    BY <1>5, <2>1, LeastNatural DEF Min
  <2>3. Min(at) \in DOMAIN items /\ signItem[items[Min(at)]].file = file
    BY <2>2 DEF at
  <2> HIDE DEF items
  <2>4. items[Min(at)] \in ToSet(items) /\ items[Min(at)] # NoWorkItem
    BY <1>1, <2>3 DEF ToSet, NoWorkItem
  <2> QED
    BY <1>2, <1>3, <1>5, <2>3, <2>4
<1> QED
  BY <1>4, <1>5

\* An event that arrives.
LEMMA ArrivalKeepsSign ==
    ASSUME SignInv, NEW file \in Files, ImageEvent(file)
    PROVE  SignInv'
<1> DEFINE e == Len(arrived) + 1
           found == FindItem(file)
<1>1. /\ signMain = "dispatch" /\ arrived' = Append(arrived, file)
      /\ UNCHANGED <<signActive, signWorker, freed>>
      /\ \/ DispatchRaw(e)
         \/ found # NoWorkItem /\ JoinItem(found, e)
         \/ found = NoWorkItem /\ NewItem(file, e)
  BY DEF ImageEvent
<1>2. IF found # NoWorkItem THEN found \in SignListed /\ signItem[found].file = file
      ELSE \A i \in SignListed : signItem[i].file # file
  BY FindsItem DEF SignInv
<1> HIDE DEF found
<1>3. CASE DispatchRaw(e)
  BY <1>1, <1>3, RawKeepsSign
<1>4. CASE found # NoWorkItem /\ JoinItem(found, e)
  <2>1. UNCHANGED sent
    BY <1>4 DEF JoinItem
  <2> QED
    BY <1>1, <1>2, <1>4, <2>1, JoinKeepsSign
<1>5. CASE found = NoWorkItem /\ NewItem(file, e)
  BY <1>1, <1>2, <1>5, NewKeepsSign
<1> QED
  BY <1>1, <1>3, <1>4, <1>5

\* Every step keeps the invariant.
LEMMA SignStep == SignInv /\ [SignNext]_signVars => SignInv'
<1> SUFFICES ASSUME SignInv, [SignNext]_signVars PROVE SignInv'
  OBVIOUS
<1>1. ASSUME NEW w \in SignWorkers, StartWorker(w) \/ WorkerStep(w)
      PROVE  SignInv'
  <2>1. CASE StartWorker(w) \/ WorkerTests(w) \/ WorkerWakes(w) \/ WorkerYields(w)
    BY <2>1, QuietSteps
  <2>2. CASE WorkerPops(w)
    BY <2>2, QuietSteps, PopKeepsSign
  <2>3. CASE WorkerDetaches(w)
    BY <2>3, DetachKeepsSign, RetireKeepsSign
  <2>4. CASE WorkerEnriches(w)
    BY <2>4, QuietSteps, FreeKeepsSign
  <2>5. CASE WorkerSends(w)
    BY <2>5, SendKeepsSign
  <2> QED
    BY <1>1, <2>1, <2>2, <2>3, <2>4, <2>5 DEF WorkerStep
<1>2. CASE StartFails \/ StartFailureEnds \/ SignalWorkers \/ SetStopEvent \/ PipelineCleanup
  BY <1>2, QuietSteps
<1>3. CASE PipelineCleaned
  BY <1>3, CleanedKeepsSign
<1>4. CASE UNCHANGED signVars
  <2>1. UNCHANGED <<signQueue, signActive, signItem, signDepth, signPending, arrived, sent, freed,
                    signWorker, signMain>>
    BY <1>4 DEF signVars
  <2> QED
    BY <2>1, QuietKeepsSign DEF SignInv, SignTypes, SignPhases, SignWorkersGone
<1>5. CASE SignNext
  BY <1>1, <1>2, <1>3, <1>5, ArrivalKeepsSign DEF SignNext
<1> QED
  BY <1>4, <1>5

\* The sum over the lists that the counter stands for.
LEMMA PendingIsSum ==
    ASSUME SignTypes, SignListsFit
    PROVE  MapThenSumSet(LAMBDA i : Len(signItem[i].pending), SignListed) = TotalOf(PendingOn, SignListed)
<1> DEFINE S == SignListed
           g == PendingOn
           pick == [T \in SUBSET S |-> CHOOSE x \in T : TRUE]
           Folds(iter) == iter =
             [T \in SUBSET S |->
                IF T = {} THEN 0
                ELSE Len(signItem[CHOOSE x \in T : TRUE].pending) + iter[T \ {CHOOSE x \in T : TRUE}]]
           fold == CHOOSE iter : Folds(iter)
<1>1. MapThenSumSet(LAMBDA i : Len(signItem[i].pending), SignListed) = fold[S]
  BY DEF MapThenSumSet, MapThenFoldSet
<1>2. IsFiniteSet(S) /\ \A i \in S : g[i] = Len(signItem[i].pending) /\ g[i] \in Nat
  BY PendingIsCount
<1>3. \A T \in SUBSET S : pick[T] = CHOOSE x \in T : TRUE
  OBVIOUS
<1>4. Picks(pick, S)
  BY DEF Picks
<1>5. PICK iter : SumsUp(iter, g, pick, S)
  <2> HIDE DEF S, g, pick
  <2> QED
    BY <1>2, <1>4, SumsExist
<1>6. ASSUME NEW f
      PROVE  SumsUp(f, g, pick, S) <=> Folds(f)
  <2>1. \A T \in SUBSET S : T # {} =>
          g[pick[T]] + f[T \ {pick[T]}]
            = Len(signItem[CHOOSE x \in T : TRUE].pending) + f[T \ {CHOOSE x \in T : TRUE}]
    <3> SUFFICES ASSUME NEW T \in SUBSET S, T # {}
                 PROVE  g[pick[T]] + f[T \ {pick[T]}]
                          = Len(signItem[CHOOSE x \in T : TRUE].pending) + f[T \ {CHOOSE x \in T : TRUE}]
      OBVIOUS
    <3>1. pick[T] = (CHOOSE x \in T : TRUE) /\ pick[T] \in S
      BY <1>3, <1>4 DEF Picks
    <3>2. g[pick[T]] = Len(signItem[pick[T]].pending)
      BY <1>2, <3>1
    <3> HIDE DEF g, pick, S
    <3> QED
      BY <3>1, <3>2
  <2> HIDE DEF g, pick, S
  <2> QED
    BY <2>1 DEF SumsUp
<1>7. SumsUp(fold, g, pick, S)
  <2>1. Folds(fold)
    <3> HIDE DEF Folds
    <3> QED
      BY <1>5, <1>6
  <2> HIDE DEF Folds, fold, g, pick, S
  <2> QED
    BY <1>6, <2>1
<1>8. fold[S] = TotalOf(g, S)
  <2> HIDE DEF fold, g, pick, S
  <2>1. \A i \in S : g[i] = g[i] /\ g[i] \in Int
    BY <1>2
  <2>2. IsSum(fold, g, S)
    BY <1>2, <1>4, <1>7, <2>1, SumsAreSums
  <2> QED
    BY <1>2, <2>1, <2>2, TotalIsSum
<1> QED
  BY <1>1, <1>8

\* The invariant says what SignEventsAccounted says, in counts.
LEMMA SignAccounts == SignInv => SignEventsAccounted
<1> SUFFICES ASSUME SignInv PROVE SignEventsAccounted
  OBVIOUS
<1>1. signDepth = Len(signQueue)
  BY DEF SignInv, SignTypes
<1>2. signPending = MapThenSumSet(LAMBDA i : Len(signItem[i].pending), SignListed)
  BY PendingIsSum DEF SignInv, PendingCounted
<1>3. Cardinality({signItem[i].file : i \in SignListed}) = Len(signQueue) + Len(signActive)
  <2> DEFINE f == [i \in SignListed |-> signItem[i].file]
  <2>1. IsFiniteSet(SignListed)
    BY PendingIsCount DEF SignInv
  <2>2. DOMAIN f = SignListed /\ \A i, j \in SignListed : f[i] = f[j] => i = j
    BY DEF SignInv, SignListsFit
  <2>3. {f[i] : i \in SignListed} = {signItem[i].file : i \in SignListed}
    OBVIOUS
  <2> HIDE DEF f
  <2>4. Cardinality({f[i] : i \in SignListed}) = Cardinality(SignListed)
    BY <2>1, <2>2, ImageCount
  <2>5. /\ IsFiniteSet(ToSet(signQueue)) /\ Cardinality(ToSet(signQueue)) = Len(signQueue)
        /\ IsFiniteSet(ToSet(signActive)) /\ Cardinality(ToSet(signActive)) = Len(signActive)
        /\ Len(signQueue) \in Nat /\ Len(signActive) \in Nat
    BY DistinctCount, LenProperties DEF SignInv, SignTypes, SignListsFit
  <2>6. Cardinality(SignListed) = Len(signQueue) + Len(signActive)
    <3>1. ToSet(signQueue) \cap ToSet(signActive) = {}
      BY DEF SignInv, SignListsFit
    <3>2. Cardinality(SignListed) = Cardinality(ToSet(signQueue)) + Cardinality(ToSet(signActive))
                                      - Cardinality({})
      BY <2>5, <3>1, FS_Union DEF SignListed
    <3> QED
      BY <2>5, <3>2, FS_EmptySet
  <2> QED
    BY <2>3, <2>4, <2>6
<1>4. Len(arrived) \in Nat /\ DOMAIN arrived = 1 .. Len(arrived)
  BY LenProperties DEF SignInv, SignTypes
<1>5. \A e : /\ e \in EventsOf(SignListed) <=> WaitsOnItem(e)
             /\ e \in SignBatches <=> WaitsInBatch(e)
             /\ e \in SignDispatched <=> \E k \in DOMAIN sent : sent[k].event = e
  BY DEF EventsOf, WaitsOnItem, SignBatches, WaitsInBatch, SignDispatched
<1>6. ASSUME NEW e, WaitsOnItem(e), WaitsInBatch(e) PROVE FALSE
  <2>1. PICK v \in SignWorkers : e \in ToSet(signWorker[v].batch)
    BY <1>6 DEF WaitsInBatch
  <2>2. PICK i \in SignListed : e \in ToSet(signItem[i].pending)
    BY <1>6 DEF WaitsOnItem
  <2>3. HoldsItem(v)
    <3>1. signWorker[v].batch # <<>>
      BY <2>1, EmptySeq DEF ToSet
    <3> QED
      BY <3>1 DEF SignInv, SignWorkersFit, HoldsItem
  <2>4. BatchIsOf(signWorker[v].batch, signWorker[v].item)
    BY <2>3 DEF SignInv, SignEventsFit
  <2>5. e \in DOMAIN arrived /\ arrived[e] = signItem[signWorker[v].item].file
    BY <2>1, <2>4 DEF BatchIsOf, EventsAre
  <2>6. i = signWorker[v].item
    BY <2>2, <2>3, <2>5, WaitsTogether
  <2>7. e < e
    BY <2>1, <2>2, <2>4, <2>6 DEF BatchIsOf
  <2> QED
    BY <1>4, <2>5, <2>7
<1>7. \A e : WaitsOnItem(e) \/ WaitsInBatch(e) => e \in DOMAIN arrived
  <2>1. ASSUME NEW i \in SignListed, NEW e \in ToSet(signItem[i].pending) PROVE e \in DOMAIN arrived
    <3>1. EventsAre(signItem[i].pending, signItem[i].file)
      BY DEF SignInv, SignEventsFit
    <3> QED
      BY <3>1 DEF EventsAre
  <2>2. ASSUME NEW v \in SignWorkers, NEW e \in ToSet(signWorker[v].batch) PROVE e \in DOMAIN arrived
    <3>1. signWorker[v].batch # <<>>
      BY <2>2, EmptySeq DEF ToSet
    <3>2. HoldsItem(v)
      BY <3>1 DEF SignInv, SignWorkersFit, HoldsItem
    <3>3. BatchIsOf(signWorker[v].batch, signWorker[v].item)
      BY <3>2 DEF SignInv, SignEventsFit
    <3> QED
      BY <2>2, <3>3 DEF BatchIsOf, EventsAre
  <2> QED
    BY <2>1, <2>2 DEF WaitsOnItem, WaitsInBatch
<1>8. 1 .. Len(arrived) = EventsOf(SignListed) \cup SignBatches \cup SignDispatched \cup freed
  BY <1>4, <1>5, <1>7 DEF SignInv, SignPlacesDiffer
<1>9. Cardinality(SignDispatched) = Len(sent)
  <2> DEFINE f == [k \in DOMAIN sent |-> sent[k].event]
  <2>1. DOMAIN sent = 1 .. Len(sent) /\ Len(sent) \in Nat
    BY LenProperties DEF SignInv, SignTypes
  <2>2. IsFiniteSet(DOMAIN sent) /\ Cardinality(DOMAIN sent) = Len(sent)
    <3>1. /\ IsFiniteSet(1 .. Len(sent))
          /\ Cardinality(1 .. Len(sent)) = IF 1 > Len(sent) THEN 0 ELSE Len(sent) - 1 + 1
      BY <2>1, FS_Interval
    <3> QED
      BY <2>1, <3>1
  <2>3. DOMAIN f = DOMAIN sent /\ \A j, k \in DOMAIN sent : f[j] = f[k] => j = k
    BY DEF SignInv, SignPlacesDiffer
  <2>4. {f[k] : k \in DOMAIN sent} = SignDispatched
    BY DEF SignDispatched
  <2> HIDE DEF f
  <2> QED
    BY <2>2, <2>3, <2>4, ImageCount
<1>10. Len(arrived) = Cardinality(EventsOf(SignListed)) + Cardinality(SignBatches)
                        + Len(sent) + Cardinality(freed)
  <2>1. /\ EventsOf(SignListed) \cap SignBatches = {}
        /\ EventsOf(SignListed) \cap SignDispatched = {} /\ EventsOf(SignListed) \cap freed = {}
        /\ SignBatches \cap SignDispatched = {} /\ SignBatches \cap freed = {}
        /\ SignDispatched \cap freed = {}
    BY <1>5, <1>6 DEF SignInv, SignPlacesDiffer
  <2>2. Len(arrived) = Cardinality(EventsOf(SignListed)) + Cardinality(SignBatches)
                         + Cardinality(SignDispatched) + Cardinality(freed)
    BY <1>4, <1>8, <2>1, FourParts, SMTT(30)
  <2> QED
    BY <1>9, <2>2
<1>11. signMain = "stopped" => SignWorkersGone /\ SignListed = {}
  BY EmptySeq DEF SignInv, SignPhases, SignListed, ToSet
<1> QED
  BY <1>1, <1>2, <1>3, <1>8, <1>10, <1>11 DEF SignEventsAccounted

\* The signing queue's counters agree with its lists and every event is in one
\* place, for any number of workers, files and events and any limits
\* (pipeline.cpp 2259-2544, 2778-2848).
THEOREM SignEventsAreAccounted == SignSpec => []SignEventsAccounted
<1> QED
  BY SignInitially, SignStep, SignAccounts, PTL DEF SignSpec

\* The events of a file that go through the queue are dispatched in the order
\* in which they came, however many workers there are (pipeline.cpp 2235-2257).
THEOREM FilesAreInOrder == SignSpec => []FileEventsInOrder
<1>1. SignInv => FileEventsInOrder
  BY DEF SignInv
<1> QED
  BY <1>1, SignInitially, SignStep, PTL DEF SignSpec

-----------------------------------------------------------------------------
(* The caches.                                                             *)

Buckets == 0 .. CacheBuckets - 1
Empties == [used : {FALSE}, next : {Nil}]
Filled(K, V) == [used : {TRUE}, next : Slots \cup {Nil}, key : K, value : V]
Caches(K, V) == [slot : [Slots -> Empties \cup Filled(K, V)],
                 head : [Buckets -> Slots \cup {Nil}], victim : Nat]

Used(c) == {s \in Slots : c.slot[s].used}

\* What the nth slot of a chain points at, and where its bucket begins.
At(q, n) == IF n \in DOMAIN q THEN q[n] ELSE Nil

\* The slots U that fall into a bucket are linked from its head in the order q.
Linked(c, b, q, U) ==
    /\ q \in Seq(Slots) /\ IsInjective(q)
    /\ ToSet(q) = {s \in U : BucketOf(c.slot[s].key) = b}
    /\ c.head[b] = At(q, 1)
    /\ \A n \in DOMAIN q : c.slot[q[n]].next = At(q, n + 1)

Chained(c, U) == \A b \in Buckets : \E q : Linked(c, b, q, U)

KeysDiffer(c) ==
    \A s, t \in Used(c) : c.slot[s].key = c.slot[t].key => s = t

\* The keys fall into buckets.
InBuckets(K) == \A k \in K : BucketOf(k) \in Buckets

CacheInv(c, K, V) == c \in Caches(K, V) /\ Chained(c, Used(c)) /\ KeysDiffer(c)

\* What a cache knows.
Knows(c, key, value) ==
    \E s \in Used(c) : c.slot[s].key = key /\ c.slot[s].value = value

LEMMA SlotsAre ==
    /\ CacheCapacity \in Nat /\ CacheCapacity > 0 /\ CacheBuckets \in Nat /\ CacheBuckets > 0
    /\ Slots \subseteq Nat /\ Nil \notin Slots /\ \A n \in Slots : n # Nil
    /\ IsFiniteSet(Slots) /\ Cardinality(Slots) = CacheCapacity
<1>1. CacheCapacity \in Nat /\ CacheCapacity > 0 /\ CacheBuckets \in Nat /\ CacheBuckets > 0
  BY CacheAssumption
<1>2. IsFiniteSet(0 .. CacheCapacity - 1) /\ Cardinality(0 .. CacheCapacity - 1) = CacheCapacity
  <2>1. 0 \in Int /\ CacheCapacity - 1 \in Int /\ ~ 0 > CacheCapacity - 1
    BY <1>1
  <2> QED
    BY <2>1, <1>1, FS_Interval
<1> QED
  BY <1>1, <1>2 DEF Slots, Nil

\* A chain is no longer than there are slots.
LEMMA ChainFits ==
    ASSUME NEW q \in Seq(Slots), IsInjective(q)
    PROVE  Len(q) \in Nat /\ Len(q) <= CacheCapacity /\ DOMAIN q = 1 .. Len(q)
<1>1. IsFiniteSet(ToSet(q)) /\ Cardinality(ToSet(q)) = Len(q)
  BY DistinctCount
<1>2. ToSet(q) \subseteq Slots
  BY DEF ToSet
<1>3. Cardinality(ToSet(q)) <= Cardinality(Slots)
  BY <1>2, SlotsAre, FS_Subset
<1> QED
  BY <1>1, <1>3, SlotsAre, LenProperties

\* A bucket's chain is what its slots are linked in.
LEMMA ChainIs ==
    ASSUME NEW c, NEW b \in Buckets, NEW q, NEW U, Linked(c, b, q, U)
    PROVE  Chain(c, b) = q
<1> DEFINE Body(v) == [n \in 1 .. CacheCapacity |->
                         IF n = 1 THEN c.head[b]
                         ELSE IF v[n - 1] = Nil THEN Nil ELSE c.slot[v[n - 1]].next]
           Visits(v) == v = Body(v)
           visit == CHOOSE v : Visits(v)
           known == [n \in 1 .. CacheCapacity |-> At(q, n)]
           length == Cardinality({n \in 1 .. CacheCapacity : visit[n] # Nil})
<1>1. Chain(c, b) = [n \in 1 .. length |-> visit[n]]
  BY DEF Chain
<1>2. /\ q \in Seq(Slots) /\ Len(q) \in Nat /\ Len(q) <= CacheCapacity /\ DOMAIN q = 1 .. Len(q)
      /\ c.head[b] = At(q, 1) /\ \A n \in DOMAIN q : c.slot[q[n]].next = At(q, n + 1)
      /\ \A n \in DOMAIN q : q[n] # Nil
  BY ChainFits, SlotsAre DEF Linked
<1>3. \A n \in 1 .. CacheCapacity : n # 1 =>
         At(q, n) = IF At(q, n - 1) = Nil THEN Nil ELSE c.slot[At(q, n - 1)].next
  <2> SUFFICES ASSUME NEW n \in 1 .. CacheCapacity, n # 1
               PROVE  At(q, n) = IF At(q, n - 1) = Nil THEN Nil ELSE c.slot[At(q, n - 1)].next
    OBVIOUS
  <2>1. n \in Nat /\ n > 1 /\ (n - 1) + 1 = n
    BY SlotsAre
  <2>2. CASE n - 1 \in DOMAIN q
    BY <2>1, <2>2, <1>2 DEF At
  <2>3. CASE n - 1 \notin DOMAIN q
    <3>1. n \notin DOMAIN q
      BY <2>1, <2>3, <1>2
    <3> QED
      BY <3>1, <2>3 DEF At
  <2> QED
    BY <2>2, <2>3
<1>4. Visits(known)
  <2>1. \A n \in 1 .. CacheCapacity : n # 1 => n - 1 \in 1 .. CacheCapacity
    BY SlotsAre
  <2> SUFFICES ASSUME NEW n \in 1 .. CacheCapacity PROVE known[n] = Body(known)[n]
    OBVIOUS
  <2>2. CASE n = 1
    BY <2>2, <1>2
  <2>3. CASE n # 1
    BY <2>1, <2>3, <1>3
  <2> QED
    BY <2>2, <2>3
<1>5. Visits(visit)
  <2> HIDE DEF Visits, known
  <2> QED
    BY <1>4
<1>6. \A n \in 1 .. CacheCapacity :
         visit[n] = IF n = 1 THEN c.head[b]
                    ELSE IF visit[n - 1] = Nil THEN Nil ELSE c.slot[visit[n - 1]].next
  <2> HIDE DEF visit
  <2> QED
    BY <1>5
<1> HIDE DEF visit
<1>7. \A n \in 1 .. CacheCapacity : visit[n] = At(q, n)
  <2> DEFINE T == {m \in Nat : m + 1 \in 1 .. CacheCapacity => visit[m + 1] = At(q, m + 1)}
  <2>1. 0 \in T
    BY <1>6, <1>2
  <2>2. ASSUME NEW m \in Nat, m \in T PROVE m + 1 \in T
    <3> SUFFICES ASSUME m + 2 \in 1 .. CacheCapacity PROVE visit[m + 2] = At(q, m + 2)
      OBVIOUS
    <3>1. m + 1 \in 1 .. CacheCapacity /\ (m + 2) - 1 = m + 1 /\ m + 2 # 1
      BY SlotsAre
    <3>2. visit[m + 1] = At(q, m + 1)
      BY <3>1, <2>2
    <3> QED
      BY <3>1, <3>2, <1>6, <1>3
  <2>3. Nat \subseteq T
    <3> HIDE DEF T
    <3> QED
      BY <2>1, <2>2, NaturalsByInduction
  <2>4. \A n \in 1 .. CacheCapacity : n - 1 \in Nat /\ (n - 1) + 1 = n
    BY SlotsAre
  <2> QED
    BY <2>3, <2>4
<1>8. {n \in 1 .. CacheCapacity : visit[n] # Nil} = 1 .. Len(q)
  <2>1. \A n \in 1 .. CacheCapacity : At(q, n) # Nil <=> n \in 1 .. Len(q)
    BY <1>2 DEF At
  <2>2. 1 .. Len(q) \subseteq 1 .. CacheCapacity
    BY <1>2, SlotsAre
  <2> QED
    BY <2>1, <2>2, <1>7
<1>9. length = Len(q)
  <2>1. Cardinality(1 .. Len(q)) = Len(q)
    BY <1>2, FS_Interval, 1 \in Int, Len(q) \in Int, 1 > Len(q) <=> Len(q) = 0, SMTT(30)
  <2> QED
    BY <2>1, <1>8
<1>10. \A n \in 1 .. Len(q) : visit[n] = q[n]
  BY <1>7, <1>2, SlotsAre DEF At
<1> QED
  <2>1. q = [n \in 1 .. Len(q) |-> q[n]]
    BY <1>2
  <2> QED
    BY <1>1, <1>9, <1>10, <2>1
-----------------------------------------------------------------------------
\* The slot of a key is the one in use that has it.
LEMMA MatchIs ==
    ASSUME NEW K, NEW V, InBuckets(K), NEW c, CacheInv(c, K, V), NEW key \in K
    PROVE  \/ Match(c, key) = Nil /\ \A s \in Used(c) : c.slot[s].key # key
           \/ Match(c, key) \in Used(c) /\ c.slot[Match(c, key)].key = key
<1> DEFINE b == BucketOf(key)
           chain == Chain(c, b)
           at == {n \in DOMAIN chain : c.slot[chain[n]].key = key}
<1>1. b \in Buckets
  BY DEF InBuckets
<1>2. PICK q : Linked(c, b, q, Used(c))
  BY <1>1 DEF CacheInv, Chained
<1>3. chain = q /\ q \in Seq(Slots) /\ DOMAIN q \subseteq Nat /\ ToSet(q) = {q[n] : n \in DOMAIN q}
  <2>1. chain = q
    BY <1>1, <1>2, ChainIs
  <2>2. q \in Seq(Slots) /\ IsInjective(q)
    BY <1>2 DEF Linked
  <2> QED
    BY <2>1, <2>2, ChainFits DEF ToSet
<1>4. ToSet(q) = {s \in Used(c) : BucketOf(c.slot[s].key) = b}
  BY <1>2 DEF Linked
<1>5. Match(c, key) = IF at = {} THEN Nil ELSE chain[Min(at)]
  BY DEF Match
<1> HIDE DEF b, chain
<1>6. CASE at = {}
  <2>1. \A s \in Used(c) : c.slot[s].key # key
    <3> SUFFICES ASSUME NEW s \in Used(c), c.slot[s].key = key PROVE FALSE
      OBVIOUS
    <3>1. s \in ToSet(q)
      BY <1>4 DEF b
    <3>2. PICK n \in DOMAIN q : q[n] = s
      BY <3>1, <1>3
    <3> QED
      BY <3>2, <1>3, <1>6
  <2> QED
    BY <2>1, <1>5, <1>6
<1>7. CASE at # {}
  <2>1. at \subseteq Nat
    BY <1>3
  <2>2. \E m \in at : \A k \in at : m <= k
    <3> HIDE DEF at
    <3> QED
      BY <2>1, <1>7, LeastNatural
  <2>3. Min(at) \in at
    <3> HIDE DEF at
    <3> QED
      BY <2>2 DEF Min
  <2>4. Min(at) \in DOMAIN q /\ c.slot[q[Min(at)]].key = key
    BY <2>3, <1>3
  <2>5. q[Min(at)] \in Used(c)
    BY <2>4, <1>3, <1>4
  <2> QED
    BY <2>4, <2>5, <1>3, <1>5, <1>7
<1> QED
  BY <1>6, <1>7

\* Where nothing that a chain is made of changes, the chain stays.
LEMMA ChainStays ==
    ASSUME NEW c, NEW d, NEW U, NEW W, NEW b, NEW q, Linked(c, b, q, U),
           d.head[b] = c.head[b],
           \A s : s \in U /\ BucketOf(c.slot[s].key) = b <=> s \in W /\ BucketOf(d.slot[s].key) = b,
           \A s \in U : BucketOf(c.slot[s].key) = b => d.slot[s].next = c.slot[s].next
    PROVE  Linked(d, b, q, W)
<1>1. ToSet(q) = {s \in W : BucketOf(d.slot[s].key) = b}
  BY DEF Linked
<1>2. \A n \in DOMAIN q : q[n] \in ToSet(q)
  BY DEF ToSet
<1>3. \A n \in DOMAIN q : d.slot[q[n]].next = c.slot[q[n]].next
  BY <1>1, <1>2 DEF Linked
<1> QED
  BY <1>1, <1>3 DEF Linked

\* A sequence without its kth element.
Without(q, k) == [n \in 1 .. Len(q) - 1 |-> IF n < k THEN q[n] ELSE q[n + 1]]

LEMMA WithoutIs ==
    ASSUME NEW S, NEW q \in Seq(S), IsInjective(q), NEW k \in DOMAIN q
    PROVE  /\ Without(q, k) \in Seq(S) /\ IsInjective(Without(q, k))
           /\ ToSet(Without(q, k)) = ToSet(q) \ {q[k]}
           /\ DOMAIN Without(q, k) = 1 .. Len(q) - 1
           /\ \A n \in 1 .. Len(q) - 1 : Without(q, k)[n] = IF n < k THEN q[n] ELSE q[n + 1]
<1> DEFINE w == Without(q, k)
<1>1. Len(q) \in Nat /\ DOMAIN q = 1 .. Len(q) /\ k \in 1 .. Len(q) /\ Len(q) - 1 \in Nat
  BY LenProperties
<1>2. /\ DOMAIN w = 1 .. Len(q) - 1
      /\ \A n \in 1 .. Len(q) - 1 : w[n] = IF n < k THEN q[n] ELSE q[n + 1]
  BY DEF Without
<1>3. \A n \in 1 .. Len(q) - 1 : n \in DOMAIN q /\ n + 1 \in DOMAIN q
  BY <1>1
<1>4. \A n \in DOMAIN q : q[n] \in S
  BY ElementOfSeq, <1>1
<1>5. w \in Seq(S)
  <2>1. \A n \in 1 .. Len(q) - 1 : (IF n < k THEN q[n] ELSE q[n + 1]) \in S
    BY <1>3, <1>4
  <2>2. w \in [1 .. Len(q) - 1 -> S]
    BY <2>1 DEF Without
  <2> QED
    BY <2>2, <1>1 DEF Seq
<1>6. \A m, n \in DOMAIN q : q[m] = q[n] => m = n
  BY DEF IsInjective
<1>7. IsInjective(w)
  <2> SUFFICES ASSUME NEW m \in DOMAIN w, NEW n \in DOMAIN w, w[m] = w[n] PROVE m = n
    BY DEF IsInjective
  <2>1. m \in 1 .. Len(q) - 1 /\ n \in 1 .. Len(q) - 1
    BY <1>2
  <2> HIDE DEF w
  <2>2. CASE m < k /\ n < k
    BY <2>1, <2>2, <1>2, <1>3, <1>6
  <2>3. CASE ~(m < k) /\ ~(n < k)
    <3>1. m + 1 = n + 1
      BY <2>1, <2>3, <1>2, <1>3, <1>6
    <3> QED
      BY <3>1, <2>1
  <2>4. CASE m < k /\ ~(n < k)
    <3>1. m = n + 1
      BY <2>1, <2>4, <1>2, <1>3, <1>6
    <3> QED
      BY <3>1, <2>1, <2>4, <1>1
  <2>5. CASE ~(m < k) /\ n < k
    <3>1. m + 1 = n
      BY <2>1, <2>5, <1>2, <1>3, <1>6
    <3> QED
      BY <3>1, <2>1, <2>5, <1>1
  <2> QED
    BY <2>2, <2>3, <2>4, <2>5
<1>8. ToSet(w) = ToSet(q) \ {q[k]}
  <2>1. \A n \in DOMAIN w : w[n] \in ToSet(q) \ {q[k]}
    <3> SUFFICES ASSUME NEW n \in DOMAIN w PROVE w[n] \in ToSet(q) \ {q[k]}
      OBVIOUS
    <3>1. n \in 1 .. Len(q) - 1
      BY <1>2
    <3> HIDE DEF w
    <3>2. PICK m \in DOMAIN q : m # k /\ w[n] = q[m]
      <4>1. CASE n < k
        BY <3>1, <4>1, <1>1, <1>2, <1>3
      <4>2. CASE ~(n < k)
        <5>1. n + 1 \in DOMAIN q /\ n + 1 # k /\ w[n] = q[n + 1]
          BY <3>1, <4>2, <1>1, <1>2, <1>3
        <5> QED
          BY <5>1
      <4> QED
        BY <4>1, <4>2
    <3> QED
      BY <3>2, <1>6 DEF ToSet
  <2>2. ASSUME NEW m \in DOMAIN q, m # k PROVE \E n \in DOMAIN w : w[n] = q[m]
    <3> HIDE DEF w
    <3>1. CASE m < k
      <4>1. m \in 1 .. Len(q) - 1
        BY <3>1, <1>1
      <4> QED
        BY <4>1, <3>1, <1>2
    <3>2. CASE ~(m < k)
      <4>1. m - 1 \in 1 .. Len(q) - 1 /\ ~(m - 1 < k) /\ (m - 1) + 1 = m
        BY <3>2, <2>2, <1>1
      <4> QED
        BY <4>1, <1>2
    <3> QED
      BY <3>1, <3>2
  <2> HIDE DEF w
  <2>3. ASSUME NEW x \in ToSet(q) \ {q[k]} PROVE x \in ToSet(w)
    <3>1. PICK m \in DOMAIN q : q[m] = x
      BY <2>3 DEF ToSet
    <3>2. m # k
      BY <3>1, <2>3
    <3> QED
      BY <3>1, <3>2, <2>2 DEF ToSet
  <2>4. ASSUME NEW x \in ToSet(w) PROVE x \in ToSet(q) \ {q[k]}
    BY <2>1, <2>4 DEF ToSet
  <2> QED
    BY <2>3, <2>4
<1> QED
  BY <1>2, <1>5, <1>7, <1>8
\* Slots, filled and empty.
LEMMA SlotValues ==
    ASSUME NEW K, NEW V, NEW c \in Caches(K, V)
    PROVE  /\ c = [slot |-> c.slot, head |-> c.head, victim |-> c.victim]
           /\ DOMAIN c.slot = Slots /\ DOMAIN c.head = Buckets
           /\ c.head \in [Buckets -> Slots \cup {Nil}]
           /\ \A s \in Used(c) : c.slot[s] \in Filled(K, V)
           /\ \A s \in Slots \ Used(c) : c.slot[s] \in Empties
           /\ Used(c) \subseteq Slots
<1>1. /\ c = [slot |-> c.slot, head |-> c.head, victim |-> c.victim]
      /\ c.slot \in [Slots -> Empties \cup Filled(K, V)]
      /\ c.head \in [Buckets -> Slots \cup {Nil}]
  BY DEF Caches
<1>2. \A s \in Slots : c.slot[s] \in Empties \/ c.slot[s] \in Filled(K, V)
  BY <1>1
<1>3. \A r \in Empties : ~r.used
  BY DEF Empties
<1>4. \A r \in Filled(K, V) : r.used
  BY DEF Filled
<1> QED
  BY <1>1, <1>2, <1>3, <1>4 DEF Used

LEMMA Repointed ==
    ASSUME NEW K, NEW V, NEW r \in Filled(K, V), NEW next \in Slots \cup {Nil}
    PROVE  /\ [r EXCEPT !.next = next] \in Filled(K, V)
           /\ [r EXCEPT !.next = next].next = next
           /\ [r EXCEPT !.next = next].used = r.used
           /\ [r EXCEPT !.next = next].key = r.key
           /\ [r EXCEPT !.next = next].value = r.value
BY DEF Filled

\* A slot that is unlinked is in no chain, and everything else is as it was.
LEMMA UnlinkKeeps ==
    ASSUME NEW K, NEW V, InBuckets(K), NEW c, CacheInv(c, K, V), NEW s \in Slots,
           NEW d, d = UnlinkSlot(c, s)
    PROVE  /\ d \in Caches(K, V) /\ d.victim = c.victim /\ Used(d) = Used(c)
           /\ \A t \in Used(c) : /\ d.slot[t].key = c.slot[t].key
                                 /\ d.slot[t].value = c.slot[t].value
           /\ Chained(d, Used(c) \ {s})
<1>1. /\ c \in Caches(K, V)
      /\ c = [slot |-> c.slot, head |-> c.head, victim |-> c.victim]
      /\ DOMAIN c.slot = Slots /\ DOMAIN c.head = Buckets
      /\ c.head \in [Buckets -> Slots \cup {Nil}]
      /\ \A t \in Used(c) : c.slot[t] \in Filled(K, V)
      /\ \A t \in Slots \ Used(c) : c.slot[t] \in Empties
      /\ Used(c) \subseteq Slots
  BY SlotValues DEF CacheInv
<1>2. CASE ~c.slot[s].used
  <2>1. d = c /\ s \notin Used(c) /\ Used(c) \ {s} = Used(c)
    BY <1>2 DEF UnlinkSlot, Used
  <2> QED
    BY <2>1, <1>1 DEF CacheInv
<1>3. CASE c.slot[s].used
  <2> DEFINE b == BucketOf(c.slot[s].key)
             U == Used(c) \ {s}
             over == c.slot[s].next
             before == {p \in ToSet(Chain(c, b)) : c.slot[p].next = s}
             past == IF c.head[b] = s THEN [c EXCEPT !.head[b] = over]
                     ELSE IF before = {} THEN c
                     ELSE [c EXCEPT !.slot[CHOOSE p \in before : TRUE].next = over]
  <2>1. s \in Used(c) /\ c.slot[s].key \in K /\ over \in Slots \cup {Nil} /\ b \in Buckets
    <3>1. s \in Used(c)
      BY <1>3 DEF Used
    <3>2. c.slot[s].key \in K /\ c.slot[s].next \in Slots \cup {Nil}
      BY <3>1, <1>1 DEF Filled
    <3> QED
      BY <3>1, <3>2 DEF InBuckets
  <2>2. d = [past EXCEPT !.slot[s].next = Nil]
    BY <1>3 DEF UnlinkSlot
  <2>3. PICK q : Linked(c, b, q, Used(c))
    BY <2>1 DEF CacheInv, Chained
  <2>4. /\ Chain(c, b) = q /\ q \in Seq(Slots) /\ IsInjective(q)
        /\ Len(q) \in Nat /\ DOMAIN q = 1 .. Len(q)
        /\ c.head[b] = At(q, 1) /\ \A n \in DOMAIN q : c.slot[q[n]].next = At(q, n + 1)
        /\ ToSet(q) = {t \in Used(c) : BucketOf(c.slot[t].key) = b}
    BY <2>1, <2>3, ChainIs, ChainFits DEF Linked
  <2>5. PICK k \in DOMAIN q : q[k] = s
    BY <2>1, <2>4 DEF ToSet
  <2>6. over = At(q, k + 1) /\ k \in Nat /\ k >= 1 /\ k <= Len(q)
    BY <2>4, <2>5
  <2>7. \A m, n \in DOMAIN q : q[m] = q[n] => m = n
    BY <2>4 DEF IsInjective
  <2>8. \A n \in DOMAIN q : q[n] \in Used(c) /\ BucketOf(c.slot[q[n]].key) = b
    BY <2>4 DEF ToSet
  <2> HIDE DEF b, over, before, past
  <2> DEFINE heads == [x \in Buckets |-> IF x = b /\ k = 1 THEN over ELSE c.head[x]]
             slots == [t \in Slots |->
                         IF t = s THEN [c.slot[t] EXCEPT !.next = Nil]
                         ELSE IF k # 1 /\ t = q[k - 1] THEN [c.slot[t] EXCEPT !.next = over]
                         ELSE c.slot[t]]
  <2>9. d = [slot |-> slots, head |-> heads, victim |-> c.victim]
    <3>1. CASE k = 1
      <4>1. c.head[b] = s
        BY <3>1, <2>4, <2>5 DEF At
      <4>2. past = [c EXCEPT !.head[b] = over]
        BY <4>1 DEF past
      <4>3. past = [slot |-> c.slot, head |-> [c.head EXCEPT ![b] = over], victim |-> c.victim]
        BY <4>2, <1>1
      <4>4. d = [slot |-> [c.slot EXCEPT ![s].next = Nil],
                 head |-> [c.head EXCEPT ![b] = over], victim |-> c.victim]
        BY <4>3, <2>2
      <4>5. [c.slot EXCEPT ![s].next = Nil] = slots
        BY <3>1, <1>1
      <4>6. [c.head EXCEPT ![b] = over] = heads
        BY <3>1, <1>1
      <4> QED
        BY <4>4, <4>5, <4>6
    <3>2. CASE k # 1
      <4>1. k - 1 \in DOMAIN q /\ 1 \in DOMAIN q /\ (k - 1) + 1 = k
        BY <3>2, <2>4, <2>6
      <4>2. c.head[b] # s
        BY <3>2, <4>1, <2>4, <2>5, <2>7 DEF At
      <4>3. before = {q[k - 1]}
        <5>1. q[k - 1] \in ToSet(q) /\ c.slot[q[k - 1]].next = s
          BY <4>1, <2>4, <2>5 DEF At, ToSet
        <5>2. \A p \in ToSet(q) : c.slot[p].next = s => p = q[k - 1]
          <6> SUFFICES ASSUME NEW n \in DOMAIN q, c.slot[q[n]].next = s PROVE q[n] = q[k - 1]
            BY DEF ToSet
          <6>1. At(q, n + 1) = q[k] /\ q[k] # Nil
            BY <2>4, <2>5, SlotsAre
          <6>2. n + 1 \in DOMAIN q /\ q[n + 1] = q[k]
            BY <6>1 DEF At
          <6>3. n + 1 = k
            BY <6>2, <2>7, <2>5
          <6> QED
            BY <6>3, <2>4
        <5> QED
          BY <5>1, <5>2, <2>4 DEF before
      <4>4. past = [c EXCEPT !.slot[q[k - 1]].next = over]
        <5>1. (CHOOSE p \in before : TRUE) = q[k - 1] /\ before # {}
          BY <4>3
        <5> QED
          BY <4>2, <5>1 DEF past
      <4>5. q[k - 1] \in Slots /\ q[k - 1] # s
        BY <4>1, <2>5, <2>6, <2>7, <2>8, <1>1
      <4>6. past = [slot |-> [c.slot EXCEPT ![q[k - 1]].next = over],
                    head |-> c.head, victim |-> c.victim]
        BY <4>4, <1>1
      <4>7. d = [slot |-> [[c.slot EXCEPT ![q[k - 1]].next = over] EXCEPT ![s].next = Nil],
                 head |-> c.head, victim |-> c.victim]
        BY <4>6, <2>2
      <4>8. [[c.slot EXCEPT ![q[k - 1]].next = over] EXCEPT ![s].next = Nil] = slots
        BY <3>2, <4>5, <1>1
      <4>9. c.head = heads
        BY <3>2, <1>1
      <4> QED
        BY <4>7, <4>8, <4>9
    <3> QED
      BY <3>1, <3>2
  <2>10. /\ d.slot = slots /\ d.head = heads /\ d.victim = c.victim
    <3> HIDE DEF slots, heads
    <3> QED
      BY <2>9
  <2>11. k # 1 => k - 1 \in DOMAIN q /\ q[k - 1] \in Used(c) /\ q[k - 1] # s
    BY <2>4, <2>5, <2>6, <2>7, <2>8
  <2>12. \A t \in Used(c) : /\ d.slot[t] \in Filled(K, V) /\ d.slot[t].used
                            /\ d.slot[t].key = c.slot[t].key
                            /\ d.slot[t].value = c.slot[t].value
    <3> SUFFICES ASSUME NEW t \in Used(c)
                 PROVE  /\ d.slot[t] \in Filled(K, V) /\ d.slot[t].used
                        /\ d.slot[t].key = c.slot[t].key
                        /\ d.slot[t].value = c.slot[t].value
      OBVIOUS
    <3>1. c.slot[t] \in Filled(K, V) /\ c.slot[t].used /\ t \in Slots
      BY <1>1 DEF Used
    <3>2. \/ d.slot[t] = [c.slot[t] EXCEPT !.next = Nil]
          \/ d.slot[t] = [c.slot[t] EXCEPT !.next = over]
          \/ d.slot[t] = c.slot[t]
      BY <2>10, <3>1
    <3> QED
      <4>1. Nil \in Slots \cup {Nil} /\ over \in Slots \cup {Nil}
        BY <2>1 DEF over
      <4>2. CASE d.slot[t] = c.slot[t]
        BY <4>2, <3>1
      <4>3. CASE d.slot[t] = [c.slot[t] EXCEPT !.next = Nil]
        <5>1. LET r == [c.slot[t] EXCEPT !.next = Nil]
              IN /\ r \in Filled(K, V) /\ r.used /\ r.key = c.slot[t].key
                 /\ r.value = c.slot[t].value
          BY <3>1, <4>1 DEF Filled
        <5> QED
          BY <4>3, <5>1
      <4>4. CASE d.slot[t] = [c.slot[t] EXCEPT !.next = over]
        BY ONLY <4>1, <4>4, <3>1, Repointed, SMTT(30)
      <4> QED
        BY <3>2, <4>2, <4>3, <4>4
  <2>13. \A t \in Slots \ Used(c) : d.slot[t] = c.slot[t]
    BY <2>1, <2>10, <2>11
  <2>14. d \in Caches(K, V) /\ Used(d) = Used(c)
    <3>1. slots \in [Slots -> Empties \cup Filled(K, V)]
      <4>1. \A t \in Slots : d.slot[t] \in Empties \cup Filled(K, V)
        BY <2>12, <2>13, <1>1
      <4>2. slots = [t \in Slots |-> slots[t]]
        OBVIOUS
      <4> HIDE DEF slots
      <4> QED
        BY <4>1, <4>2, <2>10
    <3>2. heads \in [Buckets -> Slots \cup {Nil}]
      BY <2>1, <1>1 DEF over
    <3>3. c.victim \in Nat
      BY <1>1 DEF Caches
    <3>4. d \in Caches(K, V)
      <4> HIDE DEF slots, heads
      <4> QED
        BY <2>9, <3>1, <3>2, <3>3 DEF Caches
    <3>5. \A t \in Slots : d.slot[t].used <=> c.slot[t].used
      <4>1. \A t \in Used(c) : d.slot[t].used /\ c.slot[t].used
        BY <2>12 DEF Used
      <4> QED
        BY <4>1, <2>13 DEF Used
    <3> QED
      BY <3>4, <3>5 DEF Used
  <2>15. Linked(d, b, Without(q, k), U)
    <3> DEFINE w == Without(q, k)
    <3>1. /\ w \in Seq(Slots) /\ IsInjective(w) /\ ToSet(w) = ToSet(q) \ {s}
          /\ DOMAIN w = 1 .. Len(q) - 1
          /\ \A n \in 1 .. Len(q) - 1 : w[n] = IF n < k THEN q[n] ELSE q[n + 1]
      BY <2>4, <2>5, WithoutIs
    <3> HIDE DEF w
    <3>2. ToSet(w) = {t \in U : BucketOf(d.slot[t].key) = b}
      <4>1. ToSet(w) = {t \in Used(c) : BucketOf(c.slot[t].key) = b} \ {s}
        BY <3>1, <2>4
      <4> QED
        BY <4>1, <2>12
    <3>3. \A n \in Nat \ {0} : At(w, n) = IF n < k THEN At(q, n) ELSE At(q, n + 1)
      <4> SUFFICES ASSUME NEW n \in Nat \ {0}
                   PROVE  At(w, n) = IF n < k THEN At(q, n) ELSE At(q, n + 1)
        OBVIOUS
      <4>1. n \in DOMAIN w <=> n + 1 \in DOMAIN q
        BY <3>1, <2>4
      <4>2. n < k => n \in DOMAIN q /\ (n + 1 \in DOMAIN q)
        BY <2>4, <2>6
      <4> QED
        BY <4>1, <4>2, <3>1 DEF At
    <3>4. d.head[b] = At(w, 1)
      <4>1. CASE k = 1
        BY <4>1, <2>1, <2>6, <2>10, <3>3
      <4>2. CASE k # 1
        <5>1. At(w, 1) = At(q, 1)
          BY <4>2, <2>6, <3>3, 1 \in Nat \ {0}, 1 < k
        <5>2. d.head[b] = c.head[b]
          BY <4>2, <2>1, <2>10
        <5> QED
          BY <5>1, <5>2, <2>4
      <4> QED
        BY <4>1, <4>2
    <3>5. \A n \in DOMAIN w : d.slot[w[n]].next = At(w, n + 1)
      <4> SUFFICES ASSUME NEW n \in DOMAIN w PROVE d.slot[w[n]].next = At(w, n + 1)
        OBVIOUS
      <4>1. n \in Nat \ {0} /\ n + 1 \in Nat \ {0} /\ n \in 1 .. Len(q) - 1
            /\ n \in DOMAIN q /\ n + 1 \in DOMAIN q
        BY <3>1, <2>4
      <4>2. CASE n + 1 < k
        <5>1. w[n] = q[n] /\ n # k /\ n # k - 1 /\ At(w, n + 1) = At(q, n + 1)
          <6>1. n < k /\ n # k /\ n # k - 1
            BY <4>1, <4>2, <2>6
          <6>2. w[n] = q[n]
            BY <6>1, <4>1, <3>1
          <6>3. At(w, n + 1) = At(q, n + 1)
            BY <4>1, <4>2, <3>3
          <6> QED
            BY <6>1, <6>2, <6>3
        <5>2. q[n] # s /\ (k # 1 => q[n] # q[k - 1]) /\ q[n] \in Slots
          BY <5>1, <4>1, <2>5, <2>7, <2>8, <2>11, <1>1
        <5>3. d.slot[q[n]] = c.slot[q[n]]
          BY <5>2, <2>10
        <5> QED
          BY <5>1, <5>3, <4>1, <2>4
      <4>3. CASE n + 1 = k
        <5>1. w[n] = q[k - 1] /\ k # 1 /\ At(w, n + 1) = At(q, k + 1)
          BY <4>1, <4>3, <3>1, <3>3, <2>6, SMTT(30)
        <5>2. d.slot[q[k - 1]] = [c.slot[q[k - 1]] EXCEPT !.next = over]
          BY <5>1, <2>10, <2>11, <1>1
        <5>3. d.slot[q[k - 1]].next = over
          BY <5>1, <5>2, <2>1, <2>11, <1>1, Repointed DEF over
        <5> QED
          BY <5>1, <5>3, <2>6
      <4>4. CASE n + 1 > k
        <5>1. w[n] = q[n + 1] /\ n + 1 # k /\ n + 1 # k - 1
              /\ At(w, n + 1) = At(q, (n + 1) + 1)
          <6>1. ~(n < k) /\ ~(n + 1 < k) /\ n + 1 # k /\ n + 1 # k - 1
            BY <4>1, <4>4, <2>6
          <6>2. w[n] = q[n + 1]
            BY <6>1, <4>1, <3>1
          <6>3. At(w, n + 1) = At(q, (n + 1) + 1)
            BY <6>1, <4>1, <3>3
          <6> QED
            BY <6>1, <6>2, <6>3
        <5>2. q[n + 1] # s /\ (k # 1 => q[n + 1] # q[k - 1]) /\ q[n + 1] \in Slots
          BY <5>1, <4>1, <2>5, <2>7, <2>8, <2>11, <1>1
        <5>3. d.slot[q[n + 1]] = c.slot[q[n + 1]]
          BY <5>2, <2>10
        <5> QED
          BY <5>1, <5>3, <4>1, <2>4
      <4> QED
        BY <4>1, <4>2, <4>3, <4>4, <2>6
    <3> QED
      BY <3>1, <3>2, <3>4, <3>5 DEF Linked, w
  <2>16. ASSUME NEW x \in Buckets, x # b PROVE \E p : Linked(d, x, p, U)
    <3>1. PICK p : Linked(c, x, p, Used(c))
      BY DEF CacheInv, Chained
    <3>2. d.head[x] = c.head[x]
      BY <2>10, <2>16
    <3>3. \A t \in Used(c) : BucketOf(c.slot[t].key) = x => d.slot[t] = c.slot[t]
      <4> SUFFICES ASSUME NEW t \in Used(c), BucketOf(c.slot[t].key) = x
                   PROVE  d.slot[t] = c.slot[t]
        OBVIOUS
      <4>1. t # s
        BY <2>16 DEF b
      <4>2. k # 1 => t # q[k - 1]
        BY <2>16, <2>8, <2>11
      <4> QED
        BY <4>1, <4>2, <2>10, <1>1
    <3>4. \A t : t \in Used(c) /\ BucketOf(c.slot[t].key) = x
               <=> t \in U /\ BucketOf(d.slot[t].key) = x
      BY <2>12, <2>16 DEF b
    <3> QED
      BY <3>1, <3>2, <3>3, <3>4, ChainStays
  <2>17. Chained(d, U)
    BY <2>15, <2>16 DEF Chained
  <2> QED
    BY <2>10, <2>12, <2>14, <2>17
<1> QED
  BY <1>2, <1>3
\* One more element in front of a sequence.
InFront(s, q) == [n \in 1 .. Len(q) + 1 |-> IF n = 1 THEN s ELSE q[n - 1]]

LEMMA InFrontIs ==
    ASSUME NEW S, NEW q \in Seq(S), IsInjective(q), NEW s \in S, s \notin ToSet(q)
    PROVE  /\ InFront(s, q) \in Seq(S) /\ IsInjective(InFront(s, q))
           /\ ToSet(InFront(s, q)) = ToSet(q) \cup {s}
           /\ DOMAIN InFront(s, q) = 1 .. Len(q) + 1 /\ Len(q) \in Nat /\ DOMAIN q = 1 .. Len(q)
           /\ \A n \in 1 .. Len(q) + 1 : InFront(s, q)[n] = IF n = 1 THEN s ELSE q[n - 1]
<1> DEFINE w == InFront(s, q)
<1>1. Len(q) \in Nat /\ DOMAIN q = 1 .. Len(q) /\ \A n \in DOMAIN q : q[n] \in S
  BY LenProperties, ElementOfSeq
<1>2. /\ DOMAIN w = 1 .. Len(q) + 1
      /\ \A n \in 1 .. Len(q) + 1 : w[n] = IF n = 1 THEN s ELSE q[n - 1]
  BY DEF InFront
<1>3. \A n \in 1 .. Len(q) + 1 : n # 1 => n - 1 \in DOMAIN q
  BY <1>1
<1>4. w \in Seq(S)
  <2>1. w \in [1 .. Len(q) + 1 -> S]
    <3>1. \A n \in 1 .. Len(q) + 1 : (IF n = 1 THEN s ELSE q[n - 1]) \in S
      BY <1>1, <1>3
    <3> QED
      BY <3>1 DEF InFront
  <2>2. Len(q) + 1 \in Nat
    BY <1>1
  <2> HIDE DEF w
  <2> QED
    BY <2>1, <2>2 DEF Seq
<1>5. \A m, n \in DOMAIN q : q[m] = q[n] => m = n
  BY DEF IsInjective
<1>6. \A n \in DOMAIN q : q[n] # s
  BY DEF ToSet
<1>7. IsInjective(w)
  <2> SUFFICES ASSUME NEW m \in DOMAIN w, NEW n \in DOMAIN w, w[m] = w[n] PROVE m = n
    BY DEF IsInjective
  <2> HIDE DEF w
  <2>1. m \in 1 .. Len(q) + 1 /\ n \in 1 .. Len(q) + 1
    BY <1>2
  <2>2. CASE m # 1 /\ n # 1
    <3>1. m - 1 = n - 1
      BY <2>1, <2>2, <1>2, <1>3, <1>5
    <3> QED
      BY <3>1, <2>1
  <2> QED
    BY <2>1, <2>2, <1>2, <1>3, <1>6
<1>8. ToSet(w) = ToSet(q) \cup {s}
  <2> HIDE DEF w
  <2>1. ASSUME NEW x \in ToSet(w) PROVE x \in ToSet(q) \cup {s}
    <3>1. PICK n \in DOMAIN w : w[n] = x
      BY DEF ToSet
    <3> QED
      BY <3>1, <1>2, <1>3 DEF ToSet
  <2>2. ASSUME NEW n \in DOMAIN q PROVE q[n] \in ToSet(w)
    <3>1. n + 1 \in DOMAIN w /\ n + 1 # 1 /\ (n + 1) - 1 = n
      BY <1>1, <1>2
    <3>2. w[n + 1] = q[n]
      BY <3>1, <1>2
    <3> QED
      BY <3>1, <3>2 DEF ToSet
  <2>3. s \in ToSet(w)
    <3>1. 1 \in DOMAIN w /\ w[1] = s
      BY <1>1, <1>2
    <3> QED
      BY <3>1 DEF ToSet
  <2>4. \A x \in ToSet(q) : x \in ToSet(w)
    BY <2>2 DEF ToSet
  <2> QED
    BY <2>1, <2>3, <2>4
<1> QED
  BY <1>1, <1>2, <1>4, <1>7, <1>8

\* A value stored for a key is what the cache knows of it from then on; the
\* rest it knew before, and the chains stay whole.
LEMMA PutKeeps ==
    ASSUME NEW K, NEW V, InBuckets(K), NEW c, CacheInv(c, K, V),
           NEW key \in K, NEW value \in V
    PROVE  /\ CacheInv(Put(c, key, value), K, V)
           /\ \A k, v : Knows(Put(c, key, value), k, v) => Knows(c, k, v) \/ (k = key /\ v = value)
<1> DEFINE d == Put(c, key, value)
           m == Match(c, key)
<1>1. /\ c \in Caches(K, V)
      /\ c = [slot |-> c.slot, head |-> c.head, victim |-> c.victim]
      /\ DOMAIN c.slot = Slots /\ DOMAIN c.head = Buckets
      /\ c.head \in [Buckets -> Slots \cup {Nil}]
      /\ \A t \in Used(c) : c.slot[t] \in Filled(K, V)
      /\ \A t \in Slots \ Used(c) : c.slot[t] \in Empties
      /\ Used(c) \subseteq Slots
      /\ c.victim \in Nat
      /\ c.slot \in [Slots -> Empties \cup Filled(K, V)]
  BY SlotValues DEF CacheInv, Caches
<1>2. \/ m = Nil /\ \A s \in Used(c) : c.slot[s].key # key
      \/ m \in Used(c) /\ c.slot[m].key = key
  BY MatchIs
<1>3. m \in Used(c) => m # Nil
  BY <1>1, SlotsAre
<1>4. CASE m \in Used(c)
  <2> DEFINE slots == [c.slot EXCEPT ![m].value = value]
  <2>1. d = [c EXCEPT !.slot[m].value = value]
    BY <1>3, <1>4 DEF Put, Cached
  <2> HIDE DEF d, m
  <2>2. d = [slot |-> slots, head |-> c.head, victim |-> c.victim]
    BY <2>1, <1>1
  <2>3. d.slot = slots /\ d.head = c.head /\ d.victim = c.victim
    <3> HIDE DEF slots
    <3> QED
      BY <2>2
  <2>4. \A t \in Slots : t # m => d.slot[t] = c.slot[t]
    BY <2>3, <1>1
  <2>5. /\ d.slot[m] \in Filled(K, V) /\ d.slot[m].used /\ d.slot[m].value = value
        /\ d.slot[m].key = c.slot[m].key /\ d.slot[m].next = c.slot[m].next
    <3>1. d.slot[m] = [c.slot[m] EXCEPT !.value = value]
      BY <2>3, <1>1, <1>4
    <3> QED
      BY <3>1, <1>1, <1>4, ZenonT(30) DEF Filled
  <2>6. d \in Caches(K, V)
    <3>1. \A t \in Slots : slots[t] \in Empties \cup Filled(K, V)
      BY <2>3, <2>4, <2>5, <1>1
    <3>2. slots \in [Slots -> Empties \cup Filled(K, V)]
      BY <3>1, <1>1
    <3> HIDE DEF slots
    <3> QED
      BY <2>2, <3>2, <1>1 DEF Caches
  <2>7. \A t \in Slots : d.slot[t].next = c.slot[t].next /\ (d.slot[t].used <=> c.slot[t].used)
    BY <2>4, <2>5, <1>4 DEF Used
  <2>8. Used(d) = Used(c) /\ \A t \in Used(c) : d.slot[t].key = c.slot[t].key
    BY <2>4, <2>5, <2>7, <1>1 DEF Used
  <2>9. Chained(d, Used(d))
    <3> SUFFICES ASSUME NEW b \in Buckets PROVE \E q : Linked(d, b, q, Used(d))
      BY DEF Chained
    <3>1. PICK q : Linked(c, b, q, Used(c))
      BY DEF CacheInv, Chained
    <3> QED
      <4>1. \A t : t \in Used(c) /\ BucketOf(c.slot[t].key) = b
                 <=> t \in Used(d) /\ BucketOf(d.slot[t].key) = b
        BY <2>8
      <4>2. \A t \in Used(c) : d.slot[t].next = c.slot[t].next
        <5> SUFFICES ASSUME NEW t \in Used(c) PROVE d.slot[t].next = c.slot[t].next
          OBVIOUS
        <5>1. t \in Slots
          BY DEF Used
        <5> QED
          BY <5>1, <2>7
      <4>3. d.head[b] = c.head[b]
        BY <2>3
      <4>4. Linked(d, b, q, Used(d))
        BY <3>1, <4>1, <4>2, <4>3, ChainStays
      <4> QED
        BY <4>4
  <2>10. KeysDiffer(d)
    BY <2>8 DEF CacheInv, KeysDiffer
  <2>11. \A k, v : Knows(d, k, v) => Knows(c, k, v) \/ (k = key /\ v = value)
    <3> SUFFICES ASSUME NEW k, NEW v, Knows(d, k, v)
                 PROVE  Knows(c, k, v) \/ (k = key /\ v = value)
      OBVIOUS
    <3>1. PICK t \in Used(d) : d.slot[t].key = k /\ d.slot[t].value = v
      BY DEF Knows
    <3>2. CASE t = m
      BY <3>1, <3>2, <2>5, <1>2, <1>3, <1>4
    <3>3. CASE t # m
      <4>1. t \in Used(c) /\ t \in Slots
        BY <3>1, <2>8 DEF Used
      <4>2. d.slot[t] = c.slot[t]
        BY <4>1, <3>3, <2>4
      <4>3. c.slot[t].key = k /\ c.slot[t].value = v
        BY <3>1, <4>2
      <4> QED
        BY <4>1, <4>3 DEF Knows
    <3> QED
      BY <3>2, <3>3
  <2> QED
    BY <2>6, <2>9, <2>10, <2>11 DEF CacheInv, d
<1>5. CASE m = Nil
  <2> DEFINE s == c.victim % CacheCapacity
             u == UnlinkSlot(c, s)
             b == BucketOf(key)
             raw == [used |-> TRUE, next |-> Nil, key |-> key, value |-> value]
             filled == [u EXCEPT !.slot[s] = raw, !.victim = (@ + 1) % CacheCapacity]
             later == (c.victim + 1) % CacheCapacity
             new == [raw EXCEPT !.next = u.head[b]]
             slots == [u.slot EXCEPT ![s] = new]
             heads == [u.head EXCEPT ![b] = s]
             U == Used(c) \ {s}
  <2>1. d = LinkSlot(filled, s)
    BY <1>5 DEF Put, Cached
  <2>2. s \in Slots /\ later \in Nat /\ b \in Buckets
    <3>1. b \in Buckets
      BY DEF InBuckets
    <3>2. s \in Slots /\ later \in Nat
      BY <1>1, SlotsAre DEF Slots
    <3> QED
      BY <3>1, <3>2
  <2> HIDE DEF d, m, s
  <2>3. /\ u \in Caches(K, V) /\ u.victim = c.victim /\ Used(u) = Used(c)
        /\ \A t \in Used(c) : /\ u.slot[t].key = c.slot[t].key
                              /\ u.slot[t].value = c.slot[t].value
        /\ Chained(u, U)
    BY <2>2, UnlinkKeeps
  <2> HIDE DEF u
  <2>4. /\ u = [slot |-> u.slot, head |-> u.head, victim |-> u.victim]
        /\ DOMAIN u.slot = Slots /\ DOMAIN u.head = Buckets
        /\ u.head \in [Buckets -> Slots \cup {Nil}]
        /\ \A t \in Used(u) : u.slot[t] \in Filled(K, V)
        /\ \A t \in Slots \ Used(u) : u.slot[t] \in Empties
    BY <2>3, SlotValues
  <2> HIDE DEF b, later
  <2>5. d = [slot |-> slots, head |-> heads, victim |-> later]
    <3>1. filled = [slot |-> [u.slot EXCEPT ![s] = raw], head |-> u.head, victim |-> later]
      <4>1. filled = [slot |-> [u.slot EXCEPT ![s] = raw], head |-> u.head,
                      victim |-> (u.victim + 1) % CacheCapacity]
        <5> DEFINE next == (u.victim + 1) % CacheCapacity
        <5>1. filled = [u EXCEPT !.slot[s] = raw, !.victim = next]
          OBVIOUS
        <5> HIDE DEF raw, filled, next
        <5>2. [u EXCEPT !.slot[s] = raw, !.victim = next]
                = [slot |-> [u.slot EXCEPT ![s] = raw], head |-> u.head, victim |-> next]
          <6> DEFINE changed == [u.slot EXCEPT ![s] = raw]
                     first == [u EXCEPT !.slot[s] = raw]
          <6>1. [u EXCEPT !.slot[s] = raw, !.victim = next] = [first EXCEPT !.victim = next]
            BY <2>4
          <6>2. first = [slot |-> changed, head |-> u.head, victim |-> u.victim]
            BY <2>4
          <6> HIDE DEF first, changed
          <6>3. [first EXCEPT !.victim = next] = [slot |-> changed, head |-> u.head, victim |-> next]
            BY ONLY <6>2
          <6> QED
            BY <6>1, <6>3 DEF changed
        <5> QED
          BY <5>1, <5>2 DEF next
      <4> QED
        BY <4>1, <2>3 DEF later
    <3>2. [u.slot EXCEPT ![s] = raw][s] = raw
      BY <2>2, <2>4
    <3> DEFINE mid == [u.slot EXCEPT ![s] = raw]
    <3>3. filled.slot = mid /\ filled.head = u.head /\ filled.victim = later /\ mid[s] = raw
          /\ filled = [slot |-> mid, head |-> u.head, victim |-> later]
      <4> HIDE DEF filled, raw, mid
      <4> QED
        BY <3>1, <3>2 DEF mid
    <3>4. BucketOf(filled.slot[s].key) = b
      <4> HIDE DEF filled, mid
      <4> QED
        BY <3>3 DEF b
    <3>5. d = [filled EXCEPT !.slot[s].next = filled.head[b], !.head[b] = s]
      <4> HIDE DEF filled
      <4> QED
        BY <2>1, <3>4 DEF LinkSlot
    <3>6. d = [slot |-> [mid EXCEPT ![s].next = u.head[b]], head |-> heads, victim |-> later]
      <4> HIDE DEF filled, mid
      <4> QED
        BY <3>3, <3>5
    <3>7. [mid EXCEPT ![s].next = u.head[b]] = slots
      <4>1. [raw EXCEPT !.next = u.head[b]] = new
        OBVIOUS
      <4>2. [mid EXCEPT ![s].next = u.head[b]] = [mid EXCEPT ![s] = [mid[s] EXCEPT !.next = u.head[b]]]
        OBVIOUS
      <4>3. [mid EXCEPT ![s].next = u.head[b]] = [mid EXCEPT ![s] = new]
        <5> HIDE DEF mid, raw, new
        <5> QED
          BY <4>1, <4>2, <3>3
      <4>4. [mid EXCEPT ![s] = new] = slots
        <5> HIDE DEF raw, new
        <5> QED
          BY <2>4
      <4> QED
        BY <4>3, <4>4
    <3> QED
      <4> HIDE DEF mid, slots, heads
      <4> QED
        BY <3>6, <3>7
  <2>6. d.slot = slots /\ d.head = heads /\ d.victim = later
    <3> HIDE DEF slots, heads
    <3> QED
      BY <2>5
  <2>7. /\ d.slot[s] = new /\ \A t \in Slots : t # s => d.slot[t] = u.slot[t]
        /\ d.head[b] = s /\ \A x \in Buckets : x # b => d.head[x] = u.head[x]
    BY <2>2, <2>4, <2>6
  <2>8. /\ new \in Filled(K, V) /\ new.used /\ new.key = key /\ new.value = value
        /\ new.next = u.head[b]
    <3>1. /\ raw \in Filled(K, V) /\ raw.used /\ raw.key = key /\ raw.value = value
      BY DEF Filled
    <3>2. u.head[b] \in Slots \cup {Nil}
      BY <2>2, <2>4
    <3> HIDE DEF raw
    <3> QED
      BY <3>1, <3>2, Repointed
  <2> HIDE DEF new
  <2>9. d \in Caches(K, V)
    <3>1. \A t \in Slots : slots[t] \in Empties \cup Filled(K, V)
      <4> HIDE DEF slots
      <4> QED
        BY <2>4, <2>6, <2>7, <2>8
    <3>2. slots \in [Slots -> Empties \cup Filled(K, V)]
      BY <3>1, <2>4
    <3>3. heads \in [Buckets -> Slots \cup {Nil}]
      BY <2>2, <2>4
    <3> HIDE DEF slots, heads
    <3> QED
      BY <2>2, <2>5, <3>2, <3>3 DEF Caches
  <2>10. Used(d) = Used(c) \cup {s}
    BY <2>2, <2>3, <2>7, <2>8 DEF Used
  <2>11. \A t \in Used(d) : t # s => /\ t \in U /\ d.slot[t].key = c.slot[t].key
                                    /\ d.slot[t].value = c.slot[t].value
    BY <2>3, <2>7, <2>10, <1>1
  <2>12. KeysDiffer(d)
    <3>1. \A t \in Used(d) : t # s => d.slot[t].key # key
      BY <2>11, <1>2, <1>3, <1>5
    <3>2. d.slot[s].key = key
      BY <2>7, <2>8
    <3> QED
      BY <3>1, <3>2, <2>11 DEF CacheInv, KeysDiffer
  <2>13. \A k, v : Knows(d, k, v) => Knows(c, k, v) \/ (k = key /\ v = value)
    <3> SUFFICES ASSUME NEW k, NEW v, Knows(d, k, v)
                 PROVE  Knows(c, k, v) \/ (k = key /\ v = value)
      OBVIOUS
    <3>1. PICK t \in Used(d) : d.slot[t].key = k /\ d.slot[t].value = v
      BY DEF Knows
    <3>2. CASE t = s
      BY <3>1, <3>2, <2>7, <2>8
    <3>3. CASE t # s
      <4>1. t \in Used(c) /\ c.slot[t].key = k /\ c.slot[t].value = v
        BY <3>1, <3>3, <2>11
      <4> QED
        BY <4>1 DEF Knows
    <3> QED
      BY <3>2, <3>3
  <2>14. ASSUME NEW x \in Buckets, x # b PROVE \E q : Linked(d, x, q, Used(d))
    <3>1. PICK q : Linked(u, x, q, U)
      BY <2>3 DEF Chained
    <3>2. \A t \in U : d.slot[t] = u.slot[t]
      BY <2>7, <1>1
    <3>3. \A t : t \in U /\ BucketOf(u.slot[t].key) = x
               <=> t \in Used(d) /\ BucketOf(d.slot[t].key) = x
      BY <3>2, <2>7, <2>8, <2>10, <2>14 DEF b
    <3> QED
      BY <3>1, <3>2, <3>3, <2>7, <2>14, ChainStays
  <2>15. \E q : Linked(d, b, q, Used(d))
    <3>1. PICK q : Linked(u, b, q, U)
      BY <2>2, <2>3 DEF Chained
    <3>2. /\ q \in Seq(Slots) /\ IsInjective(q)
          /\ ToSet(q) = {t \in U : BucketOf(u.slot[t].key) = b}
          /\ u.head[b] = At(q, 1)
          /\ \A n \in DOMAIN q : u.slot[q[n]].next = At(q, n + 1)
      BY <3>1 DEF Linked
    <3> DEFINE w == InFront(s, q)
    <3>3. /\ w \in Seq(Slots) /\ IsInjective(w) /\ ToSet(w) = ToSet(q) \cup {s}
          /\ DOMAIN w = 1 .. Len(q) + 1 /\ Len(q) \in Nat /\ DOMAIN q = 1 .. Len(q)
          /\ \A n \in 1 .. Len(q) + 1 : w[n] = IF n = 1 THEN s ELSE q[n - 1]
      <4>1. s \notin ToSet(q) /\ s \in Slots /\ q \in Seq(Slots) /\ IsInjective(q)
        BY <3>2, <2>2
      <4> QED
        BY ONLY <4>1, InFrontIs
    <3> HIDE DEF w
    <3>4. At(w, 1) = s /\ \A n \in Nat \ {0} : At(w, n + 1) = At(q, n)
      <4>1. 1 \in 1 .. Len(q) + 1
        BY <3>3
      <4>2. ASSUME NEW n \in Nat \ {0} PROVE At(w, n + 1) = At(q, n)
        <5>1. n + 1 \in DOMAIN w <=> n \in DOMAIN q
          BY <3>3
        <5>2. n + 1 # 1 /\ (n + 1) - 1 = n
          OBVIOUS
        <5>3. n + 1 \in DOMAIN w => w[n + 1] = q[n]
          BY <5>2, <3>3
        <5> QED
          BY <5>1, <5>3 DEF At
      <4> QED
        BY <4>1, <4>2, <3>3 DEF At
    <3>5. ToSet(w) = {t \in Used(d) : BucketOf(d.slot[t].key) = b}
      <4>1. \A t \in U : d.slot[t] = u.slot[t]
        BY <2>7, <1>1
      <4>2. d.slot[s].key = key
        BY <2>7, <2>8
      <4> QED
        BY <4>1, <4>2, <3>2, <3>3, <2>10 DEF b
    <3>6. ASSUME NEW n \in DOMAIN w PROVE d.slot[w[n]].next = At(w, n + 1)
      <4>1. CASE n = 1
        <5>1. w[n] = s /\ At(w, n + 1) = At(q, 1)
          BY <4>1, <3>3, <3>4, <3>6, 1 \in Nat \ {0}
        <5> QED
          BY <5>1, <2>7, <2>8, <3>2
      <4>2. CASE n # 1
        <5>1. n \in Nat \ {0} /\ n - 1 \in DOMAIN q /\ (n - 1) + 1 = n
          BY <4>2, <3>3, <3>6
        <5>2. w[n] = q[n - 1] /\ At(w, n + 1) = At(q, n)
          BY <5>1, <4>2, <3>3, <3>4, <3>6
        <5>3. q[n - 1] \in ToSet(q)
          BY <5>1 DEF ToSet
        <5>4. d.slot[q[n - 1]] = u.slot[q[n - 1]]
          BY <5>3, <3>2, <2>7, <1>1
        <5> QED
          BY <5>1, <5>2, <5>4, <3>2
      <4> QED
        BY <4>1, <4>2
    <3> QED
      <4>1. Linked(d, b, w, Used(d))
        BY <3>3, <3>4, <3>5, <3>6, <2>7, Zenon DEF Linked
      <4> QED
        BY <4>1
  <2> QED
    BY <2>9, <2>12, <2>13, <2>14, <2>15 DEF CacheInv, Chained, d
<1> QED
  BY <1>2, <1>4, <1>5
\* What a cache answers, it knows.
LEMMA FoundIs ==
    ASSUME NEW K, NEW V, InBuckets(K), NEW c, CacheInv(c, K, V), NEW key \in K, Cached(c, key)
    PROVE  Knows(c, key, CachedValue(c, key))
<1>1. Match(c, key) \in Used(c) /\ c.slot[Match(c, key)].key = key
  BY MatchIs DEF Cached
<1>2. CachedValue(c, key) = c.slot[Match(c, key)].value
  BY DEF CachedValue
<1> QED
  BY <1>1, <1>2 DEF Knows

\* What it knows is of the sets its slots are filled from.
LEMMA KnownIs ==
    ASSUME NEW K, NEW V, NEW c, CacheInv(c, K, V), NEW key, NEW value, Knows(c, key, value)
    PROVE  key \in K /\ value \in V
<1>1. PICK s \in Used(c) : c.slot[s].key = key /\ c.slot[s].value = value
  BY DEF Knows
<1>2. c.slot[s] \in Filled(K, V)
  BY SlotValues DEF CacheInv
<1> QED
  BY <1>1, <1>2 DEF Filled

\* A cache begins whole.
LEMMA EmptyIs ==
    ASSUME NEW K, NEW V
    PROVE  CacheInv(EmptyCache, K, V) /\ \A k, v : ~Knows(EmptyCache, k, v)
<1> DEFINE none == [used |-> FALSE, next |-> Nil]
           slots == [s \in Slots |-> none]
           heads == [b \in Buckets |-> Nil]
<1>1. EmptyCache = [slot |-> slots, head |-> heads, victim |-> 0]
  BY DEF EmptyCache, Buckets
<1>2. EmptyCache.slot = slots /\ EmptyCache.head = heads
  <2> HIDE DEF slots, heads
  <2> QED
    BY <1>1
<1>3. none \in Empties /\ ~none.used
  BY DEF Empties
<1>4. EmptyCache \in Caches(K, V)
  <2>1. slots \in [Slots -> Empties \cup Filled(K, V)] /\ heads \in [Buckets -> Slots \cup {Nil}]
    BY <1>3
  <2> HIDE DEF slots, heads
  <2> QED
    BY <1>1, <2>1 DEF Caches
<1>5. Used(EmptyCache) = {}
  BY <1>2, <1>3 DEF Used
<1>6. ASSUME NEW b \in Buckets PROVE Linked(EmptyCache, b, <<>>, {})
  <2>1. <<>> \in Seq(Slots) /\ DOMAIN <<>> = {}
    OBVIOUS
  <2>2. IsInjective(<<>>) /\ ToSet(<<>>) = {}
    BY <2>1 DEF IsInjective, ToSet
  <2>3. EmptyCache.head[b] = Nil
    BY <1>2
  <2> QED
    BY <2>1, <2>2, <2>3 DEF Linked, At
<1> QED
  BY <1>4, <1>5, <1>6 DEF CacheInv, Chained, KeysDiffer, Knows

\* Such a cache is well linked.
LEMMA InvWellLinked ==
    ASSUME NEW K, NEW V, InBuckets(K), NEW c, CacheInv(c, K, V)
    PROVE  WellLinked(c)
<1> DEFINE chains == [b \in DOMAIN c.head |-> Chain(c, b)]
           used == {s \in Slots : c.slot[s].used}
<1>1. DOMAIN c.head = Buckets /\ used = Used(c) /\ \A s \in Used(c) : c.slot[s] \in Filled(K, V)
  BY SlotValues DEF CacheInv, Used
<1>2. \A b \in Buckets : Linked(c, b, chains[b], Used(c))
  <2> SUFFICES ASSUME NEW b \in Buckets PROVE Linked(c, b, Chain(c, b), Used(c))
    BY <1>1
  <2>1. PICK q : Linked(c, b, q, Used(c))
    BY DEF CacheInv, Chained
  <2> QED
    BY <2>1, ChainIs
<1>3. DOMAIN chains = Buckets
  BY <1>1
<1> HIDE DEF chains, used
<1>4. \A b \in Buckets :
         /\ chains[b] \in Seq(Slots) /\ IsInjective(chains[b])
         /\ ToSet(chains[b]) = {s \in Used(c) : BucketOf(c.slot[s].key) = b}
         /\ \A n \in DOMAIN chains[b] : c.slot[chains[b][n]].next = At(chains[b], n + 1)
  BY <1>2 DEF Linked
<1>5. UNION {ToSet(chains[b]) : b \in DOMAIN chains} = used
  <2>1. \A s \in Used(c) : BucketOf(c.slot[s].key) \in Buckets
    BY <1>1 DEF InBuckets, Filled
  <2>2. ASSUME NEW s \in Used(c) PROVE s \in UNION {ToSet(chains[b]) : b \in DOMAIN chains}
    <3>1. s \in ToSet(chains[BucketOf(c.slot[s].key)]) /\ BucketOf(c.slot[s].key) \in DOMAIN chains
      BY <2>1, <1>3, <1>4
    <3> QED
      BY <3>1
  <2>3. ASSUME NEW b \in DOMAIN chains, NEW s \in ToSet(chains[b]) PROVE s \in Used(c)
    BY <2>3, <1>3, <1>4
  <2> QED
    BY <2>2, <2>3, <1>1
<1>6. ASSUME NEW b \in DOMAIN chains, chains[b] # <<>> PROVE c.slot[Last(chains[b])].next = Nil
  <2>1. chains[b] \in Seq(Slots)
    BY <1>3, <1>4, <1>6
  <2>2. Len(chains[b]) \in DOMAIN chains[b] /\ Len(chains[b]) + 1 \notin DOMAIN chains[b]
    BY <2>1, <1>6, EmptySeq, LenProperties
  <2>3. Last(chains[b]) = chains[b][Len(chains[b])]
    BY DEF Last
  <2> QED
    BY <2>2, <2>3, <1>3, <1>4 DEF At
<1>7. \A s, t \in used : c.slot[s].key = c.slot[t].key => s = t
  BY <1>1 DEF CacheInv, KeysDiffer
<1>8. \A b \in DOMAIN chains : /\ IsInjective(chains[b])
                               /\ \A s \in ToSet(chains[b]) : BucketOf(c.slot[s].key) = b
  BY <1>3, <1>4
<1> QED
  BY <1>5, <1>6, <1>7, <1>8 DEF WellLinked, chains, used

-----------------------------------------------------------------------------
(* Enrichment.                                                             *)

AllNames == Names \cup {Win32Name(n) : n \in Names}
Actions == {"driver", "generic"}
PathKeys == [name : Names]
VerdictKeys == [name : AllNames, action : Actions]
Verdicts == {Fails, NoSignature}
              \cup UNION {{c.embedded[a], c.catalog[a]} : c \in Contents, a \in Actions}
Signatures == {Signature(v) : v \in Verdicts}
HashTexts == {"", "-"} \cup {c.hash : c \in Contents}
Bundles == [signature : Signatures, hashes : HashTexts]
Past(f) == ToSet(contents[f])

\* A name that the conversion always gives the same answer for: the map of
\* drives is filled, or is not asked.
Settled(n) == n.form = "device" => deviceMap # {}

\* The name that the file is used under.
PlainName(n) == IF n.form = "device" /\ n.volume \notin RefreshedMap THEN n ELSE Win32Name(n)

SignatureFits(name, action, signature) ==
    IF name.form = "device" THEN ~signature.signed
    ELSE \E r \in Readings(name.file) :
            VerdictOf(signature, AsRead(name.file, r, action), action)

HashesFit(name, action, hashes) ==
    IF action = "generic" THEN hashes = ""
    ELSE hashes \in {"", "-"} \cup {c.hash : c \in Past(name.file)}

MapsFit ==
    /\ mounted # {} /\ loads \in Nat
    /\ contents \in [FilesOf(Names) -> Seq(Contents)]
    /\ DOMAIN enriching = EnrichThreads

PathsFit ==
    /\ CacheInv(pathCache, PathKeys, AllNames)
    /\ \A k, v : Knows(pathCache, k, v) =>
          /\ v = Win32Name(k.name)
          /\ k.name.form = "device" => k.name.volume \in deviceMap

SignaturesFit ==
    /\ CacheInv(signatureCache, VerdictKeys, Signatures)
    /\ \A k, v : Knows(signatureCache, k, v) => SignatureFits(k.name, k.action, v)

BundlesFit ==
    /\ CacheInv(bundleCache, VerdictKeys, Bundles)
    /\ \A k, v : Knows(bundleCache, k, v) => /\ SignatureFits(k.name, k.action, v.signature)
                                            /\ HashesFit(k.name, k.action, v.hashes)

EventFits(t, e) ==
    /\ e.name \in Names /\ Exists(e.name.file) /\ Settled(e.name)
    /\ e.kind \in {"DriverLoad", "ImageLoad"}
    /\ e.own \in {""} \cup {c.hash : c \in Past(e.name.file)}
    /\ t = "dispatcher" => e.kind = "DriverLoad"
    /\ e = [kind |-> e.kind, name |-> e.name, own |-> e.own]

\* A verdict v that a catalog's c follows, and what the five attempts make of
\* what they read.
Attempt(v, c) ==
    IF TriesCatalog(v) /\ Good(c) /\ (c.signer # "" \/ ~Good(v)) THEN c ELSE v

FirstRead(c, action) == IF c.directory THEN c.embedded[action] ELSE NoSignature
OwnOf(c, action) == Attempt(FirstRead(c, action), c.catalog[action])
GenericOf(c) == Attempt(c.embedded["generic"], c.catalog["generic"])
Unnamed(v, action) == Good(v) /\ v.signer = "" /\ action # "generic"
VerdictFrom(c, action) ==
    IF Unnamed(OwnOf(c, action), action) /\ Named(GenericOf(c)) THEN GenericOf(c)
    ELSE OwnOf(c, action)

\* How far a verification is that reads, or will have read, c.
StageFits(w, c, action) ==
    /\ w.at = "hint" => w.own = NoSignature
    /\ w.at = "embedded" => c.directory = TRUE
    /\ w.at = "catalog" => w.own = FirstRead(c, action)
    /\ w.at \in {"generic", "genericCatalog"} => w.own = OwnOf(c, action)
                                                 /\ Unnamed(w.own, action)
    /\ w.at = "genericCatalog" => w.generic = c.embedded["generic"]
    /\ w.at = "store" => w.own = VerdictFrom(c, action)

Stages == {"hint", "embedded", "catalog", "generic", "genericCatalog", "store"}

VerdictFits(name, action, w) ==
    IF name.form = "device" THEN ~Good(w.own) /\ w.at \notin {"generic", "genericCatalog"}
    ELSE \E r \in Readings(name.file) : StageFits(w, AsRead(name.file, r, action), action)

Verifying(w) ==
    LET name == PlainName(w.event.name)
    IN /\ w = [at |-> w.at, event |-> w.event, name |-> name, own |-> w.own,
               generic |-> w.generic]
       /\ w.own \in Verdicts /\ w.generic \in Verdicts
       /\ VerdictFits(name, ActionOf(w.event.kind), w)

Verified(w) ==
    LET name == PlainName(w.event.name)
    IN /\ w = [at |-> w.at, event |-> w.event, name |-> name, signature |-> w.signature]
       /\ w.signature \in Signatures
       /\ SignatureFits(name, ActionOf(w.event.kind), w.signature)

Ready(w) ==
    LET name == PlainName(w.event.name)
    IN /\ w.signature \in Signatures /\ w.hashes \in HashTexts
       /\ SignatureFits(name, ActionOf(w.event.kind), w.signature)
       /\ HashesFit(name, ActionOf(w.event.kind), w.hashes)

ThreadFits(t, w) ==
    /\ w.at \in {"idle", "verify", "hashes", "rebuild"} \cup Stages
    /\ w.at # "idle" => EventFits(t, w.event)
    /\ w.at \in Stages => Verifying(w)
    /\ w.at = "hashes" => Verified(w)
    /\ w.at = "rebuild" => Ready(w)

EnrichInv ==
    /\ MapsFit /\ PathsFit /\ SignaturesFit /\ BundlesFit
    /\ \A t \in EnrichThreads : \A w : w = enriching[t] => ThreadFits(t, w)

-----------------------------------------------------------------------------
LEMMA NamesAre ==
    /\ \A n \in Names : /\ n = [file |-> n.file, volume |-> n.volume, form |-> n.form]
                        /\ n.file \in FilesOf(Names)
    /\ \A n \in Names : /\ Win32Name(n) = [file |-> n.file, volume |-> n.volume, form |-> "drive"]
                        /\ Win32Name(n).file = n.file /\ Win32Name(n).form = "drive"
                        /\ Win32Name(n) \in AllNames /\ n \in AllNames
    /\ \A n \in Names : PlainName(n) \in AllNames /\ PlainName(n).file = n.file
    /\ \A n \in AllNames : n.file \in FilesOf(Names)
<1>1. \A n \in Names : n = [file |-> n.file, volume |-> n.volume, form |-> n.form]
  <2>1. Names \subseteq [file : STRING, volume : STRING, form : STRING]
    BY EnrichmentAssumption, Zenon
  <2> QED
    BY <2>1
<1>2. \A n \in Names : n.file \in FilesOf(Names)
  BY DEF FilesOf
<1>3. ASSUME NEW n \in Names
      PROVE  /\ Win32Name(n) = [file |-> n.file, volume |-> n.volume, form |-> "drive"]
             /\ Win32Name(n).file = n.file /\ Win32Name(n).form = "drive"
  <2>1. Win32Name(n) = [file |-> n.file, volume |-> n.volume, form |-> "drive"]
    BY <1>1 DEF Win32Name
  <2> QED
    BY <2>1
<1>4. \A n \in Names : Win32Name(n) \in AllNames /\ n \in AllNames
  BY DEF AllNames
<1>5. \A n \in Names : PlainName(n) \in AllNames /\ PlainName(n).file = n.file
  BY <1>3, <1>4 DEF PlainName
<1>6. \A n \in AllNames : n.file \in FilesOf(Names)
  BY <1>2, <1>3 DEF AllNames
<1> QED
  BY <1>1, <1>2, <1>3, <1>4, <1>5, <1>6

LEMMA KeysInBuckets == InBuckets(PathKeys) /\ InBuckets(VerdictKeys)
<1>1. \A n \in AllNames : PathHash[n] \in Nat
  BY NamesAreHashed DEF AllNames
<1>2. \A h \in Nat : h % CacheBuckets \in Buckets
  BY SlotsAre DEF Buckets
<1>3. ASSUME NEW k \in PathKeys PROVE k.name \in AllNames
  BY NamesAre DEF PathKeys
<1>4. ASSUME NEW k \in VerdictKeys PROVE k.name \in AllNames
  BY DEF VerdictKeys
<1> QED
  BY <1>1, <1>2, <1>3, <1>4 DEF InBuckets, BucketOf

\* What the conversion answers, as long as the cache of names fits.
LEMMA ConversionIs ==
    ASSUME PathsFit, MapsFit, NEW n \in Names
    PROVE  /\ Resolved(n) = PlainName(n)
           /\ Convert(n).ok => Convert(n).name = Win32Name(n)
           /\ Convert(n).ok /\ n.form = "device" => n.volume \in RefreshedMap
           /\ Convert(n).asks \in BOOLEAN /\ (Convert(n).asks => n.form = "device")
           /\ n.form = "device" => Convert(n).asks \/ deviceMap # {}
<1> DEFINE key == [name |-> n]
<1>1. key \in PathKeys /\ key.name = n
  BY DEF PathKeys
<1>2. CASE Cached(pathCache, key)
  <2>1. Knows(pathCache, key, CachedValue(pathCache, key))
    BY <1>1, <1>2, KeysInBuckets, FoundIs DEF PathsFit
  <2>2. /\ CachedValue(pathCache, key) = Win32Name(n)
        /\ n.form = "device" => n.volume \in deviceMap
    BY <2>1, <1>1 DEF PathsFit
  <2>3. Convert(n) = [ok |-> TRUE, name |-> Win32Name(n), asks |-> FALSE]
    BY <1>2, <2>2 DEF Convert
  <2>4. n.form = "device" => deviceMap # {} /\ n.volume \in RefreshedMap
    BY <2>2 DEF RefreshedMap
  <2> QED
    BY <2>3, <2>4 DEF Resolved, PlainName
<1>3. CASE ~Cached(pathCache, key) /\ n.form # "device"
  <2>1. Convert(n) = [ok |-> TRUE, name |-> Win32Name(n), asks |-> FALSE]
    BY <1>3 DEF Convert
  <2> QED
    BY <2>1, <1>3 DEF Resolved, PlainName
<1>4. CASE ~Cached(pathCache, key) /\ n.form = "device"
  <2>1. Convert(n) = [ok |-> n.volume \in RefreshedMap, name |-> Win32Name(n), asks |-> TRUE]
    BY <1>4 DEF Convert
  <2> DEFINE known == n.volume \in RefreshedMap
  <2>2. /\ Convert(n).ok <=> known
        /\ Convert(n).name = Win32Name(n) /\ Convert(n).asks
    <3>1. Convert(n) = [ok |-> known, name |-> Win32Name(n), asks |-> TRUE]
      BY <2>1
    <3> HIDE DEF known
    <3>2. Convert(n).ok = known /\ Convert(n).name = Win32Name(n) /\ Convert(n).asks = TRUE
      BY ONLY <3>1
    <3> QED
      BY <3>2
  <2> QED
    BY <2>2, <1>4 DEF Resolved, PlainName
<1> QED
  BY <1>2, <1>3, <1>4

\* A conversion keeps the names that files are used under, and settles the
\* one it converts.
LEMMA RemembersKeeps ==
    ASSUME PathsFit, MapsFit, NEW n \in Names, RemembersName(n), mounted' = mounted
    PROVE  /\ PathsFit' /\ Settled(n)'
           /\ \A m \in Names : PlainName(m)' = PlainName(m) /\ (Settled(m) => Settled(m)')
<1> DEFINE key == [name |-> n]
           answer == Convert(n)
<1>1. /\ answer.ok => answer.name = Win32Name(n)
      /\ answer.ok /\ n.form = "device" => n.volume \in RefreshedMap
      /\ answer.asks \in BOOLEAN
      /\ n.form = "device" => (answer.asks \/ deviceMap # {})
  BY ConversionIs
<1>2. /\ pathCache' = IF answer.ok THEN Put(pathCache, key, answer.name) ELSE pathCache
      /\ deviceMap' = IF answer.asks THEN RefreshedMap ELSE deviceMap
  BY DEF RemembersName
<1>3. RefreshedMap # {} /\ (deviceMap # {} => RefreshedMap = deviceMap)
  BY DEF RefreshedMap, MapsFit
<1>4. deviceMap' \in {deviceMap, RefreshedMap}
  BY <1>2
<1>5. RefreshedMap' = RefreshedMap
  BY <1>3, <1>4 DEF RefreshedMap
<1>6. n.form = "device" => deviceMap' = RefreshedMap
  <2>1. CASE answer.asks
    BY <2>1, <1>2
  <2>2. CASE ~answer.asks
    <3>1. deviceMap' = deviceMap
      BY <2>2, <1>2
    <3>2. n.form = "device" => deviceMap # {}
      <4> HIDE DEF answer
      <4> QED
        BY <2>2, <1>1
    <3> QED
      BY <3>1, <3>2, <1>3
  <2> QED
    BY <2>1, <2>2
<1> HIDE DEF answer
<1>7. PathsFit'
  <2>1. key \in PathKeys /\ key.name = n
    BY DEF PathKeys
  <2> HIDE DEF key
  <2>2. ASSUME NEW k, NEW v, Knows(pathCache, k, v)
        PROVE  v = Win32Name(k.name) /\ (k.name.form = "device" => k.name.volume \in deviceMap')
    <3>1. v = Win32Name(k.name) /\ (k.name.form = "device" => k.name.volume \in deviceMap)
      BY <2>2 DEF PathsFit
    <3> QED
      BY <3>1, <1>3, <1>4
  <2>3. CASE ~answer.ok
    BY <2>2, <2>3, <1>2 DEF PathsFit
  <2>4. CASE answer.ok
    <3>1. pathCache' = Put(pathCache, key, Win32Name(n)) /\ Win32Name(n) \in AllNames
      BY <2>4, <1>1, <1>2, NamesAre
    <3>2. /\ CacheInv(Put(pathCache, key, Win32Name(n)), PathKeys, AllNames)
          /\ \A k, v : Knows(Put(pathCache, key, Win32Name(n)), k, v)
                         => Knows(pathCache, k, v) \/ (k = key /\ v = Win32Name(n))
      BY <2>1, <3>1, KeysInBuckets, PutKeeps DEF PathsFit
    <3>3. ASSUME NEW k, NEW v, Knows(pathCache', k, v)
          PROVE  v = Win32Name(k.name) /\ (k.name.form = "device" => k.name.volume \in deviceMap')
      <4>1. CASE k = key /\ v = Win32Name(n)
        BY <4>1, <2>1, <2>4, <1>1, <1>6
      <4> QED
        BY <4>1, <3>1, <3>2, <3>3, <2>2
    <3> QED
      BY <3>1, <3>2, <3>3 DEF PathsFit
  <2> QED
    BY <2>3, <2>4
<1>8. \A m \in Names : PlainName(m)' = PlainName(m)
  BY <1>5 DEF PlainName
<1>9. Settled(n)' /\ \A m \in Names : Settled(m) => Settled(m)'
  BY <1>3, <1>4, <1>6 DEF Settled
<1> QED
  BY <1>7, <1>8, <1>9
\* What the attempts of one verification come to.
LEMMA AttemptIs ==
    ASSUME NEW v, NEW c
    PROVE  /\ Attempt(v, c) \in {v, c}
           /\ Good(Attempt(v, c)) <=> Good(v) \/ (Good(c) /\ v.status = "nosig")
           /\ Good(Attempt(v, c)) =>
                (Attempt(v, c).signer # "" <=> Named(v) \/ (Named(c) /\ v.status \in {"ok", "nosig"}))
<1>1. CASE TriesCatalog(v) /\ Good(c) /\ (c.signer # "" \/ ~Good(v))
  <2>1. Attempt(v, c) = c
    BY <1>1 DEF Attempt
  <2> QED
    BY <2>1, <1>1 DEF TriesCatalog, Good, Named
<1>2. CASE ~(TriesCatalog(v) /\ Good(c) /\ (c.signer # "" \/ ~Good(v)))
  <2>1. Attempt(v, c) = v
    BY <1>2 DEF Attempt
  <2> QED
    BY <2>1, <1>2 DEF TriesCatalog, Good, Named
<1> QED
  BY <1>1, <1>2

LEMMA ContentsAre ==
    ASSUME NEW c \in Contents
    PROVE  /\ c.directory \in BOOLEAN /\ c.hash \notin {"", "-"} /\ c.hash \in HashTexts
           /\ \A a \in Actions : c.embedded[a] \in Verdicts /\ c.catalog[a] \in Verdicts
<1> DEFINE results == [status : STRING, signer : STRING]
           both == [driver : results, generic : results]
<1>1. c \in [directory : BOOLEAN, hash : STRING \ {"", "-"}, embedded : both, catalog : both]
  BY EnrichmentAssumption, Zenon
<1>2. c.directory \in BOOLEAN /\ c.hash \in STRING \ {"", "-"}
  <2> HIDE DEF both
  <2> QED
    BY <1>1
<1> QED
  <2>1. c.hash \notin {"", "-"} /\ c.hash \in HashTexts
    BY <1>2 DEF HashTexts
  <2>2. ASSUME NEW a \in Actions PROVE c.embedded[a] \in Verdicts /\ c.catalog[a] \in Verdicts
    <3> DEFINE pair == {c.embedded[a], c.catalog[a]}
               pairs == {{d.embedded[b], d.catalog[b]} : d \in Contents, b \in Actions}
    <3>1. pair \in pairs
      OBVIOUS
    <3>2. \A x \in pair : x \in UNION pairs
      <4> HIDE DEF pair, pairs
      <4> QED
        BY <3>1
    <3> QED
      BY <3>2 DEF Verdicts
  <2> QED
    BY <1>2, <2>1, <2>2

\* A verdict's signature.
LEMMA SignatureIs ==
    ASSUME NEW v \in Verdicts
    PROVE  /\ Signature(v) \in Signatures
           /\ Signature(v).signed <=> Good(v)
           /\ Signature(v).signer = v.signer
           /\ ~Good(v) => Signature(v).status # "Valid"
<1> DEFINE good == Good(v)
           text == StatusText(v.status)
           sig == Signature(v)
<1>1. sig = [signed |-> good, status |-> text, signer |-> v.signer]
  BY DEF Signature
<1>2. ~good => text # "Valid"
  <2>1. CASE v.status = "ok"
    BY <2>1 DEF Good
  <2>2. CASE v.status = "expired"
    BY <2>2 DEF StatusText
  <2>3. CASE v.status = "revoked"
    BY <2>3 DEF StatusText
  <2>4. CASE v.status \notin {"ok", "expired", "revoked"}
    <3>1. text = "Unavailable"
      BY <2>4 DEF StatusText
    <3> QED
      BY <3>1
  <2> QED
    BY <2>1, <2>2, <2>3, <2>4
<1>3. sig \in Signatures
  BY DEF Signatures
<1> HIDE DEF good, text, sig
<1>4. sig.signed = good /\ sig.signer = v.signer /\ sig.status = text
  BY ONLY <1>1
<1> QED
  BY <1>2, <1>3, <1>4 DEF good, sig

LEMMA NoVerdicts ==
    /\ Fails \in Verdicts /\ NoSignature \in Verdicts
    /\ Fails.status = "failed" /\ NoSignature.status = "nosig" /\ NoSignature.signer = ""
BY DEF Fails, NoSignature, Verdicts

\* What the attempts may read of a file for an action.
Readable(c, action) ==
    /\ c.directory \in BOOLEAN
    /\ c.embedded[action] \in Verdicts /\ c.catalog[action] \in Verdicts
    /\ c.embedded["generic"] \in Verdicts /\ c.catalog["generic"] \in Verdicts

\* The verdict fits what was read.
LEMMA VerdictIs ==
    ASSUME NEW c, NEW action \in Actions, Readable(c, action)
    PROVE  /\ VerdictFrom(c, action) \in Verdicts
           /\ VerdictOf(Signature(VerdictFrom(c, action)), c, action)
<1> DEFINE e == c.embedded[action]
           k == c.catalog[action]
           g == c.embedded["generic"]
           h == c.catalog["generic"]
           first == FirstRead(c, action)
           own == OwnOf(c, action)
           generic == GenericOf(c)
           v == VerdictFrom(c, action)
<1>1. v = IF Good(own) /\ own.signer = "" /\ action # "generic" /\ Named(generic)
          THEN generic ELSE own
  BY DEF VerdictFrom, Unnamed
<1>2. /\ c.directory \in BOOLEAN /\ e \in Verdicts /\ k \in Verdicts
      /\ g \in Verdicts /\ h \in Verdicts
  BY DEF Readable
<1>3. first = IF c.directory THEN e ELSE NoSignature
  BY DEF FirstRead
<1>4. own = Attempt(first, k) /\ generic = Attempt(g, h)
  BY DEF OwnOf, GenericOf
<1>5. first \in Verdicts
  BY <1>2, <1>3, NoVerdicts
<1> HIDE DEF first, own, generic, v, e, k, g, h
<1>6. /\ own \in Verdicts
      /\ Good(own) <=> Good(first) \/ (Good(k) /\ first.status = "nosig")
      /\ Good(own) => (own.signer # "" <=> Named(first)
                         \/ (Named(k) /\ first.status \in {"ok", "nosig"}))
  BY <1>2, <1>4, <1>5, AttemptIs
<1>7. /\ generic \in Verdicts
      /\ Good(generic) <=> Good(g) \/ (Good(h) /\ g.status = "nosig")
      /\ Good(generic) =>
           (generic.signer # "" <=> Named(g) \/ (Named(h) /\ g.status \in {"ok", "nosig"}))
  BY <1>2, <1>4, AttemptIs
<1>8. v \in Verdicts
  BY <1>1, <1>6, <1>7
<1>9. Good(v) <=> Good(own)
  BY <1>1 DEF Named
<1>10. Good(own) <=> Signed(c, action)
  BY <1>2, <1>3, <1>6, NoVerdicts DEF Signed, Good, e, k
<1>11. Good(v) => (v.signer # "" <=> SomebodyIsNamed(c, action))
  <2> SUFFICES ASSUME Good(v) PROVE v.signer # "" <=> SomebodyIsNamed(c, action)
    OBVIOUS
  <2>1. Named(generic) <=> Named(g) \/ (Named(h) /\ g.status \in {"ok", "nosig"})
    BY <1>7 DEF Named, Good
  <2>2. SomebodyIsNamed(c, action) <=>
          \/ c.directory /\ Named(e)
          \/ Named(k) /\ (c.directory => e.status \in {"ok", "nosig"})
          \/ action # "generic" /\ Named(generic)
    BY <2>1 DEF SomebodyIsNamed, e, k, g, h
  <2>3. own.signer # "" <=> \/ c.directory /\ Named(e)
                            \/ Named(k) /\ (c.directory => e.status \in {"ok", "nosig"})
    <3>1. Good(own)
      BY <1>9
    <3>2. CASE c.directory
      <4>1. first = e
        BY <3>2, <1>3
      <4>2. own.signer # "" <=> Named(e) \/ (Named(k) /\ e.status \in {"ok", "nosig"})
        BY <4>1, <3>1, <1>6
      <4> QED
        BY <4>2, <3>2
    <3>3. CASE ~c.directory
      BY <3>1, <3>3, <1>3, <1>6, NoVerdicts DEF Named
    <3> QED
      BY <3>2, <3>3
  <2>4. Good(own)
    BY <1>9
  <2>5. CASE own.signer = "" /\ action # "generic" /\ Named(generic)
    <3>1. v = generic /\ generic.signer # ""
      BY <2>4, <2>5, <1>1 DEF Named
    <3> QED
      BY <3>1, <2>2, <2>5
  <2>6. CASE ~(own.signer = "" /\ action # "generic" /\ Named(generic))
    <3>1. v = own
      BY <2>6, <1>1
    <3> QED
      BY <3>1, <2>2, <2>3, <2>6
  <2> QED
    BY <2>5, <2>6
<1>12. VerdictOf(Signature(v), c, action)
  <2>1. PICK sig : sig = Signature(v)
    OBVIOUS
  <2>2. /\ sig.signed <=> Good(v)
        /\ sig.signer = v.signer
        /\ ~Good(v) => sig.status # "Valid"
    BY <1>8, <2>1, SignatureIs
  <2>3. VerdictOf(sig, c, action)
    BY <2>2, <1>9, <1>10, <1>11 DEF VerdictOf
  <2> QED
    BY <2>1, <2>3
<1> QED
  BY <1>8, <1>12 DEF v
-----------------------------------------------------------------------------
\* What was so of a file and of a settled name stays so.
Grown ==
    /\ \A f \in FilesOf(Names) : \A i \in DOMAIN contents[f] :
          i \in DOMAIN contents'[f] /\ contents'[f][i] = contents[f][i]
    /\ \A n \in Names : Settled(n) => Settled(n)' /\ PlainName(n)' = PlainName(n)

LEMMA ReadingsStay ==
    ASSUME Grown, NEW f \in FilesOf(Names), NEW r \in Readings(f), NEW action
    PROVE  /\ r \in Readings(f)' /\ AsRead(f, r, action)' = AsRead(f, r, action)
           /\ Past(f) \subseteq Past(f)'
<1>1. \A i \in DOMAIN contents[f] :
         i \in DOMAIN contents'[f] /\ contents'[f][i] = contents[f][i]
  BY DEF Grown
<1>2. r \in [1 .. 5 -> DOMAIN contents[f]] /\ \A i \in 1 .. 4 : r[i] <= r[i + 1]
  BY DEF Readings
<1>3. \A i \in 1 .. 5 : r[i] \in DOMAIN contents[f]
  BY <1>2
<1>4. r \in [1 .. 5 -> DOMAIN contents'[f]]
  BY <1>1, <1>2
<1>5. \A i \in 1 .. 5 : contents'[f][r[i]] = contents[f][r[i]]
  BY <1>1, <1>3
<1> QED
  BY <1>1, <1>2, <1>4, <1>5 DEF Readings, AsRead, Past, ToSet

LEMMA FitsStay ==
    ASSUME Grown, NEW name \in AllNames, NEW action
    PROVE  /\ \A v : SignatureFits(name, action, v) => SignatureFits(name, action, v)'
           /\ \A v : HashesFit(name, action, v) => HashesFit(name, action, v)'
           /\ \A w : VerdictFits(name, action, w) => VerdictFits(name, action, w)'
<1> DEFINE f == name.file
<1>1. f \in FilesOf(Names)
  BY NamesAre
<1>2. /\ \A c \in Past(f) : c \in Past(f)'
      /\ \A r \in Readings(f) : r \in Readings(f)' /\ AsRead(f, r, action)' = AsRead(f, r, action)
  <2>1. \A i \in DOMAIN contents[f] :
           i \in DOMAIN contents'[f] /\ contents'[f][i] = contents[f][i]
    BY <1>1 DEF Grown
  <2>2. \A c \in Past(f) : c \in Past(f)'
    BY <2>1 DEF Past, ToSet
  <2> HIDE DEF f
  <2> QED
    BY <1>1, <2>2, ReadingsStay
<1>3. ASSUME NEW v, SignatureFits(name, action, v) PROVE SignatureFits(name, action, v)'
  <2>1. CASE name.form = "device"
    BY <1>3, <2>1 DEF SignatureFits
  <2>2. CASE name.form # "device"
    <3>1. PICK r \in Readings(f) : VerdictOf(v, AsRead(f, r, action), action)
      BY <1>3, <2>2 DEF SignatureFits
    <3>2. r \in Readings(f)' /\ VerdictOf(v, AsRead(f, r, action)', action)
      BY <1>2, <3>1
    <3> QED
      BY <2>2, <3>2 DEF SignatureFits, VerdictOf
  <2> QED
    BY <2>1, <2>2
<1>4. ASSUME NEW v, HashesFit(name, action, v) PROVE HashesFit(name, action, v)'
  BY <1>2, <1>4 DEF HashesFit
<1>5. ASSUME NEW w, VerdictFits(name, action, w) PROVE VerdictFits(name, action, w)'
  <2>1. CASE name.form = "device"
    BY <1>5, <2>1 DEF VerdictFits
  <2>2. CASE name.form # "device"
    <3>1. PICK r \in Readings(f) : StageFits(w, AsRead(f, r, action), action)
      BY <1>5, <2>2 DEF VerdictFits
    <3>2. r \in Readings(f)' /\ StageFits(w, AsRead(f, r, action)', action)
      BY <1>2, <3>1
    <3> QED
      BY <2>2, <3>2 DEF VerdictFits, StageFits
  <2> QED
    BY <2>1, <2>2
<1> QED
  BY <1>3, <1>4, <1>5

LEMMA ExistsIs ==
    ASSUME MapsFit, NEW f \in FilesOf(Names)
    PROVE  /\ Exists(f) <=> Past(f) # {}
           /\ Past(f) \subseteq Contents
           /\ Exists(f) => ContentOf(f) \in Past(f)
<1>1. contents[f] \in Seq(Contents)
  BY DEF MapsFit
<1>2. DOMAIN contents[f] = 1 .. Len(contents[f]) /\ Len(contents[f]) \in Nat
      /\ (contents[f] = <<>> <=> Len(contents[f]) = 0)
      /\ \A k \in DOMAIN contents[f] : contents[f][k] \in Contents
  BY <1>1, LenProperties, EmptySeq, ElementOfSeq
<1>3. Exists(f) => Len(contents[f]) \in DOMAIN contents[f]
  BY <1>2 DEF Exists
<1>4. Exists(f) => ContentOf(f) \in Past(f)
  BY <1>3 DEF ContentOf, Last, Past, ToSet
<1>5. Past(f) # {} => Exists(f)
  BY <1>2 DEF Past, ToSet, Exists
<1> QED
  BY <1>2, <1>4, <1>5 DEF Past, ToSet

LEMMA ThreadStays ==
    ASSUME MapsFit, MapsFit', Grown, NEW t, NEW w, ThreadFits(t, w)
    PROVE  ThreadFits(t, w)'
<1> SUFFICES ASSUME w.at # "idle" PROVE ThreadFits(t, w)'
  BY DEF ThreadFits, Stages
<1> DEFINE e == w.event
           action == ActionOf(e.kind)
<1>1. EventFits(t, e)
  BY DEF ThreadFits
<1>2. e.name \in Names /\ e.name.file \in FilesOf(Names) /\ PlainName(e.name) \in AllNames
  BY <1>1, NamesAre DEF EventFits
<1> HIDE DEF e
<1>3. Settled(e.name)' /\ PlainName(e.name)' = PlainName(e.name)
  BY <1>1, <1>2 DEF EventFits, Grown
<1>4. Past(e.name.file) \subseteq Past(e.name.file)'
  <2>1. \A f \in FilesOf(Names) : Past(f) \subseteq Past(f)'
    BY DEF Grown, Past, ToSet
  <2> QED
    BY <1>2, <2>1
<1>5. EventFits(t, e)'
  <2>1. Exists(e.name.file)'
    <3>1. Past(e.name.file) # {}
      BY <1>1, <1>2, ExistsIs DEF EventFits
    <3>2. Past(e.name.file)' # {}
      BY <3>1, <1>4
    <3>3. DOMAIN <<>> = {}
      OBVIOUS
    <3> QED
      BY <3>2, <3>3 DEF Past, ToSet, Exists
  <2>2. e.own \in {""} \cup {c.hash : c \in Past(e.name.file)'}
    BY <1>1, <1>4 DEF EventFits
  <2> QED
    BY <1>1, <1>3, <2>1, <2>2 DEF EventFits
<1> HIDE DEF action
<1>6. /\ SignatureFits(PlainName(e.name), action, w.signature)
           => SignatureFits(PlainName(e.name), action, w.signature)'
      /\ HashesFit(PlainName(e.name), action, w.hashes)
           => HashesFit(PlainName(e.name), action, w.hashes)'
      /\ VerdictFits(PlainName(e.name), action, w)
           => VerdictFits(PlainName(e.name), action, w)'
  <2> SUFFICES ASSUME NEW name, name = PlainName(e.name), name = PlainName(e.name)'
               PROVE  /\ SignatureFits(name, action, w.signature)
                            => SignatureFits(name, action, w.signature)'
                      /\ HashesFit(name, action, w.hashes)
                            => HashesFit(name, action, w.hashes)'
                      /\ VerdictFits(name, action, w) => VerdictFits(name, action, w)'
    BY <1>3
  <2>1. name \in AllNames
    BY <1>2
  <2> QED
    BY <2>1, FitsStay
<1>7. w.at = "hashes" => Verified(w)'
  BY <1>3, <1>6 DEF ThreadFits, Verified, e, action
<1>9. w.at \in Stages => Verifying(w)'
  BY <1>3, <1>6 DEF ThreadFits, Verifying, e, action
<1>8. w.at = "rebuild" => Ready(w)'
  BY <1>3, <1>6 DEF ThreadFits, Ready, e, action
<1> QED
  BY <1>5, <1>7, <1>8, <1>9 DEF ThreadFits, e
\* Where nothing is written to the caches of verdicts and a thread at most
\* takes a step of its own, the rest of the invariant stays.
LEMMA OthersStay ==
    ASSUME EnrichInv, MapsFit', Grown
    PROVE  /\ signatureCache' = signatureCache => SignaturesFit'
           /\ bundleCache' = bundleCache => BundlesFit'
           /\ \A t \in EnrichThreads : enriching'[t] = enriching[t]
                 => \A w : w = enriching'[t] => ThreadFits(t, w)'
<1>1. MapsFit /\ SignaturesFit /\ BundlesFit
  BY DEF EnrichInv
<1>2. ASSUME NEW k \in VerdictKeys
      PROVE  /\ \A v : SignatureFits(k.name, k.action, v) => SignatureFits(k.name, k.action, v)'
             /\ \A v : HashesFit(k.name, k.action, v) => HashesFit(k.name, k.action, v)'
  <2>1. k.name \in AllNames
    BY DEF VerdictKeys
  <2> DEFINE name == k.name
             action == k.action
  <2> HIDE DEF name, action
  <2>2. name \in AllNames
    BY <2>1 DEF name
  <2> SUFFICES /\ \A v : SignatureFits(name, action, v) => SignatureFits(name, action, v)'
               /\ \A v : HashesFit(name, action, v) => HashesFit(name, action, v)'
    BY DEF name, action
  <2> QED
    BY <2>2, FitsStay
<1>3. ASSUME signatureCache' = signatureCache PROVE SignaturesFit'
  <2>1. CacheInv(signatureCache, VerdictKeys, Signatures)
    BY <1>1 DEF SignaturesFit
  <2>2. CacheInv(signatureCache', VerdictKeys, Signatures)
    BY <2>1, <1>3
  <2>3. ASSUME NEW k, NEW v, Knows(signatureCache', k, v)
        PROVE  SignatureFits(k.name, k.action, v)'
    <3>1. Knows(signatureCache, k, v)
      BY <1>3, <2>3
    <3>2. k \in VerdictKeys
      BY <2>1, <3>1, KnownIs
    <3> QED
      BY <3>1, <3>2, <1>1, <1>2 DEF SignaturesFit
  <2> QED
    BY <2>2, <2>3 DEF SignaturesFit
<1>4. ASSUME bundleCache' = bundleCache PROVE BundlesFit'
  <2>1. CacheInv(bundleCache, VerdictKeys, Bundles)
    BY <1>1 DEF BundlesFit
  <2>2. CacheInv(bundleCache', VerdictKeys, Bundles)
    BY <2>1, <1>4
  <2>3. ASSUME NEW k, NEW v, Knows(bundleCache', k, v)
        PROVE  /\ SignatureFits(k.name, k.action, v.signature)'
               /\ HashesFit(k.name, k.action, v.hashes)'
    <3>1. Knows(bundleCache, k, v)
      BY <1>4, <2>3
    <3>2. k \in VerdictKeys
      BY <2>1, <3>1, KnownIs
    <3> QED
      BY <3>1, <3>2, <1>1, <1>2 DEF BundlesFit
  <2> QED
    BY <2>2, <2>3 DEF BundlesFit
<1>5. ASSUME NEW t \in EnrichThreads, enriching'[t] = enriching[t],
             NEW w, w = enriching'[t]
      PROVE  ThreadFits(t, w)'
  <2>1. ThreadFits(t, w)
    BY <1>5 DEF EnrichInv
  <2> QED
    BY <2>1, <1>1, ThreadStays
<1> QED
  BY <1>3, <1>4, <1>5

\* A conversion leaves the rest as it is.
LEMMA ConversionGrows ==
    ASSUME EnrichInv, NEW n \in Names, RemembersName(n),
           mounted' = mounted, contents' = contents, loads' \in Nat,
           DOMAIN enriching' = EnrichThreads
    PROVE  MapsFit' /\ PathsFit' /\ Grown /\ Settled(n)'
<1>1. /\ PathsFit' /\ Settled(n)'
      /\ \A m \in Names : PlainName(m)' = PlainName(m) /\ (Settled(m) => Settled(m)')
  BY RemembersKeeps DEF EnrichInv
<1>2. MapsFit'
  BY DEF EnrichInv, MapsFit
<1> QED
  BY <1>1, <1>2 DEF Grown

LEMMA FilterKeeps ==
    ASSUME EnrichInv, NEW n \in Names, FilterLoad(n)
    PROVE  EnrichInv'
<1>1. /\ RemembersName(n) /\ mounted' = mounted /\ contents' = contents /\ loads' = loads
      /\ enriching' = enriching /\ signatureCache' = signatureCache /\ bundleCache' = bundleCache
  BY DEF FilterLoad
<1>2. MapsFit' /\ PathsFit' /\ Grown
  BY <1>1, ConversionGrows DEF EnrichInv, MapsFit
<1> QED
  BY <1>1, <1>2, OthersStay DEF EnrichInv

LEMMA MountKeeps ==
    ASSUME EnrichInv, NEW v, MountVolume(v)
    PROVE  EnrichInv'
<1>1. /\ mounted' = mounted \cup {v} /\ contents' = contents /\ deviceMap' = deviceMap
      /\ pathCache' = pathCache /\ signatureCache' = signatureCache
      /\ bundleCache' = bundleCache /\ loads' = loads /\ enriching' = enriching
  BY DEF MountVolume
<1>2. MapsFit'
  BY <1>1 DEF EnrichInv, MapsFit
<1>3. PathsFit'
  BY <1>1 DEF EnrichInv, PathsFit
<1>4. Grown
  <2>1. \A n \in Names : Settled(n) => Settled(n)' /\ PlainName(n)' = PlainName(n)
    BY <1>1 DEF Settled, PlainName, RefreshedMap
  <2> QED
    BY <1>1, <2>1 DEF Grown
<1> QED
  BY <1>1, <1>2, <1>3, <1>4, OthersStay DEF EnrichInv

LEMMA WriteKeeps ==
    ASSUME EnrichInv, NEW f \in DOMAIN contents, NEW c \in Contents, WriteFile(f, c)
    PROVE  EnrichInv'
<1>1. /\ contents' = [contents EXCEPT ![f] = Append(@, c)] /\ mounted' = mounted
      /\ deviceMap' = deviceMap /\ pathCache' = pathCache
      /\ signatureCache' = signatureCache /\ bundleCache' = bundleCache
      /\ loads' = loads /\ enriching' = enriching
  BY DEF WriteFile
<1>2. /\ contents \in [FilesOf(Names) -> Seq(Contents)] /\ f \in FilesOf(Names)
      /\ contents[f] \in Seq(Contents)
  BY DEF EnrichInv, MapsFit
<1>3. /\ Append(contents[f], c) \in Seq(Contents)
      /\ ToSet(Append(contents[f], c)) = ToSet(contents[f]) \cup {c}
  BY <1>2, AppendDistinct
<1>4. MapsFit'
  <2>1. contents' \in [FilesOf(Names) -> Seq(Contents)]
    BY <1>1, <1>2, <1>3
  <2> QED
    BY <1>1, <2>1 DEF EnrichInv, MapsFit
<1>5. PathsFit'
  BY <1>1 DEF EnrichInv, PathsFit
<1>6. Grown
  <2>1. ASSUME NEW g \in FilesOf(Names), NEW i \in DOMAIN contents[g]
        PROVE  i \in DOMAIN contents'[g] /\ contents'[g][i] = contents[g][i]
    <3>1. contents'[g] = IF g = f THEN Append(contents[f], c) ELSE contents[g]
      BY <1>1, <1>2
    <3>2. \A k \in DOMAIN contents[f] : /\ k \in DOMAIN Append(contents[f], c)
                                       /\ Append(contents[f], c)[k] = contents[f][k]
      BY <1>2, LenProperties, AppendProperties
    <3> QED
      BY <3>1, <3>2
  <2>2. \A n \in Names : Settled(n) => Settled(n)' /\ PlainName(n)' = PlainName(n)
    BY <1>1 DEF Settled, PlainName, RefreshedMap
  <2> QED
    BY <2>1, <2>2 DEF Grown
<1> QED
  BY <1>1, <1>4, <1>5, <1>6, OthersStay DEF EnrichInv
-----------------------------------------------------------------------------
\* One thread goes on, the others stay.
LEMMA OneThreadGoes ==
    ASSUME EnrichInv, MapsFit', Grown, NEW t \in EnrichThreads, NEW x,
           enriching' = [enriching EXCEPT ![t] = x], ThreadFits(t, x)'
    PROVE  \A u \in EnrichThreads : \A w : w = enriching'[u] => ThreadFits(u, w)'
<1>1. DOMAIN enriching = EnrichThreads
  BY DEF EnrichInv, MapsFit
<1>2. enriching'[t] = x /\ \A u \in EnrichThreads : u # t => enriching'[u] = enriching[u]
  BY <1>1
<1>3. \A u \in EnrichThreads : enriching'[u] = enriching[u]
         => \A w : w = enriching'[u] => ThreadFits(u, w)'
  BY OthersStay
<1> QED
  BY <1>2, <1>3

LEMMA ThreadIs ==
    ASSUME EnrichInv, NEW t \in EnrichThreads
    PROVE  ThreadFits(t, enriching[t])
BY DEF EnrichInv

LEMMA StaysGrown ==
    ASSUME contents' = contents, mounted' = mounted, deviceMap' = deviceMap
    PROVE  Grown
<1>1. \A n \in Names : Settled(n) => Settled(n)' /\ PlainName(n)' = PlainName(n)
  BY DEF Settled, PlainName, RefreshedMap
<1> QED
  BY <1>1 DEF Grown

\* The key of an event, and what the caches know of it.
LEMMA KeysAre ==
    ASSUME NEW n \in Names, NEW kind \in {"DriverLoad", "ImageLoad"}
    PROVE  /\ ActionOf(kind) \in Actions /\ (kind = "DriverLoad" <=> ActionOf(kind) = "driver")
           /\ KeyOf(PlainName(n), kind) \in VerdictKeys
           /\ KeyOf(PlainName(n), kind).name = PlainName(n)
           /\ KeyOf(PlainName(n), kind).action = ActionOf(kind)
<1>1. ActionOf(kind) \in Actions /\ (kind = "DriverLoad" <=> ActionOf(kind) = "driver")
  BY DEF ActionOf, Actions
<1>2. PlainName(n) \in AllNames
  BY NamesAre
<1> HIDE DEF Actions
<1> QED
  BY <1>1, <1>2 DEF KeyOf, VerdictKeys

LEMMA CachedFits ==
    ASSUME EnrichInv, NEW key \in VerdictKeys
    PROVE  /\ Cached(signatureCache, key) =>
                LET v == CachedValue(signatureCache, key)
                IN v \in Signatures /\ SignatureFits(key.name, key.action, v)
           /\ Cached(bundleCache, key) =>
                LET v == CachedValue(bundleCache, key)
                IN /\ v.signature \in Signatures /\ v.hashes \in HashTexts
                   /\ SignatureFits(key.name, key.action, v.signature)
                   /\ HashesFit(key.name, key.action, v.hashes)
<1>1. ASSUME Cached(signatureCache, key)
      PROVE  LET v == CachedValue(signatureCache, key)
             IN v \in Signatures /\ SignatureFits(key.name, key.action, v)
  <2>1. Knows(signatureCache, key, CachedValue(signatureCache, key))
    BY <1>1, KeysInBuckets, FoundIs DEF EnrichInv, SignaturesFit
  <2> QED
    BY <2>1, KnownIs DEF EnrichInv, SignaturesFit
<1>2. ASSUME Cached(bundleCache, key)
      PROVE  LET v == CachedValue(bundleCache, key)
             IN /\ v.signature \in Signatures /\ v.hashes \in HashTexts
                /\ SignatureFits(key.name, key.action, v.signature)
                /\ HashesFit(key.name, key.action, v.hashes)
  <2>1. Knows(bundleCache, key, CachedValue(bundleCache, key))
    BY <1>2, KeysInBuckets, FoundIs DEF EnrichInv, BundlesFit
  <2>2. CachedValue(bundleCache, key) \in Bundles
    BY <2>1, KnownIs DEF EnrichInv, BundlesFit
  <2> HIDE DEF HashTexts, Signatures
  <2>3. \A v \in Bundles : v.signature \in Signatures /\ v.hashes \in HashTexts
    BY DEF Bundles
  <2> QED
    BY <2>1, <2>2, <2>3 DEF EnrichInv, BundlesFit
<1> QED
  BY <1>1, <1>2

\* The event that a thread begins with.
LEMMA EventBegins ==
    ASSUME NEW e \in LoadEvents
    PROVE  /\ e.name \in Names /\ Exists(e.name.file)
           /\ e.kind \in {"DriverLoad", "ImageLoad"}
           /\ e.own \in {""} \cup {c.hash : c \in Past(e.name.file)}
           /\ e = [kind |-> e.kind, name |-> e.name, own |-> e.own]
<1>1. PICK n \in Names :
         /\ Exists(n.file)
         /\ e \in [kind : {"DriverLoad", "ImageLoad"}, name : {n},
                   own : {""} \cup {contents[n.file][k].hash : k \in DOMAIN contents[n.file]}]
  BY DEF LoadEvents
<1>2. /\ e.kind \in {"DriverLoad", "ImageLoad"} /\ e.name = n
      /\ e.own \in {""} \cup {contents[n.file][k].hash : k \in DOMAIN contents[n.file]}
      /\ e = [kind |-> e.kind, name |-> e.name, own |-> e.own]
  BY <1>1
<1>3. \A k \in DOMAIN contents[n.file] : contents[n.file][k] \in Past(n.file)
  BY DEF Past, ToSet
<1> QED
  BY <1>1, <1>2, <1>3

\* Hashes that fit are among the texts there may be.
LEMMA HashesAre ==
    ASSUME MapsFit, NEW name \in AllNames, NEW action, NEW hashes,
           hashes \in {"", "-"} \cup {c.hash : c \in Past(name.file)}
    PROVE  hashes \in HashTexts
<1>1. Past(name.file) \subseteq Contents
  BY NamesAre, ExistsIs
<1> QED
  BY <1>1 DEF HashTexts

LEMMA BeginKeeps ==
    ASSUME EnrichInv, NEW t \in EnrichThreads, NEW e \in LoadEvents, BeginEnrichment(t, e)
    PROVE  EnrichInv'
<1> DEFINE name == PlainName(e.name)
           action == ActionOf(e.kind)
           key == KeyOf(name, e.kind)
           existing == ExistingHashes(t, e)
           hit == CachedValue(bundleCache, key)
           hashes == IF ~Placeholder(existing) /\ Placeholder(hit.hashes)
                     THEN existing ELSE hit.hashes
           found == [at |-> "rebuild", event |-> e, signature |-> hit.signature, hashes |-> hashes]
           missed == [at |-> "verify", event |-> e]
<1>1. /\ loads' = loads + 1 /\ (t = "dispatcher" => e.kind = "DriverLoad")
      /\ RemembersName(e.name) /\ contents' = contents /\ mounted' = mounted
      /\ signatureCache' = signatureCache /\ bundleCache' = bundleCache
      /\ enriching' = [enriching EXCEPT ![t] =
            IF Cached(bundleCache, SignatureKey(e))
            THEN [at |-> "rebuild", event |-> e,
                  signature |-> CachedValue(bundleCache, SignatureKey(e)).signature,
                  hashes |-> IF ~Placeholder(existing)
                                  /\ Placeholder(CachedValue(bundleCache, SignatureKey(e)).hashes)
                             THEN existing ELSE CachedValue(bundleCache, SignatureKey(e)).hashes]
            ELSE missed]
  BY DEF BeginEnrichment
<1>2. /\ e.name \in Names /\ Exists(e.name.file)
      /\ e.kind \in {"DriverLoad", "ImageLoad"}
      /\ e.own \in {""} \cup {c.hash : c \in Past(e.name.file)}
      /\ e = [kind |-> e.kind, name |-> e.name, own |-> e.own]
  BY EventBegins
<1>3. SignatureKey(e) = key
  BY <1>2, ConversionIs DEF SignatureKey, EnrichInv
<1>4. enriching' = [enriching EXCEPT ![t] = IF Cached(bundleCache, key) THEN found ELSE missed]
  BY <1>1, <1>3
<1> HIDE DEF hit, key, existing
<1>5. MapsFit' /\ PathsFit' /\ Grown /\ Settled(e.name)'
  <2>1. loads' \in Nat /\ DOMAIN enriching' = EnrichThreads
    BY <1>1, <1>4 DEF EnrichInv, MapsFit
  <2> QED
    BY <2>1, <1>1, <1>2, ConversionGrows
<1>6. EventFits(t, e)'
  <2>1. Exists(e.name.file)' /\ Past(e.name.file)' = Past(e.name.file)
    BY <1>1, <1>2 DEF Exists, Past
  <2> QED
    BY <2>1, <1>1, <1>2, <1>5 DEF EventFits
<1>7. PlainName(e.name)' = PlainName(e.name)
  BY <1>1, <1>2, RemembersKeeps DEF EnrichInv
<1>8. name \in AllNames /\ name.file = e.name.file
  BY <1>2, NamesAre
<1> HIDE DEF found, missed
<1>9. ASSUME Cached(bundleCache, key), NEW x, x = found PROVE ThreadFits(t, x)'
  <2>1. key \in VerdictKeys /\ key.name = name /\ key.action = action
    BY <1>2, KeysAre DEF key
  <2>2. /\ hit.signature \in Signatures /\ hit.hashes \in HashTexts
        /\ SignatureFits(name, action, hit.signature) /\ HashesFit(name, action, hit.hashes)
    BY <1>9, <2>1, CachedFits DEF hit
  <2>3. HashesFit(name, action, hashes) /\ hashes \in HashTexts
    <3>1. CASE t = "dispatcher"
      <4>1. existing = e.own /\ action = "driver"
        BY <3>1, <1>1, <1>2 DEF existing, ExistingHashes, ActionOf
      <4>2. existing \in {"", "-"} \cup {c.hash : c \in Past(name.file)}
        BY <4>1, <1>2, <1>8
      <4>3. HashesFit(name, action, existing)
        BY <4>1, <4>2 DEF HashesFit
      <4>4. existing \in HashTexts
        BY <4>2, <1>8, HashesAre DEF EnrichInv
      <4> QED
        BY <4>3, <4>4, <2>2
    <3>2. CASE t # "dispatcher"
      <4>1. Placeholder(existing)
        BY <3>2 DEF existing, ExistingHashes, Placeholder
      <4> QED
        BY <4>1, <2>2
    <3> QED
      BY <3>1, <3>2
  <2> HIDE DEF hashes
  <2>4. /\ x.at = "rebuild" /\ x.event = e
        /\ x.signature = hit.signature /\ x.hashes = hashes
    BY <1>9 DEF found
  <2>5. ASSUME NEW m, m = name
        PROVE  /\ SignatureFits(m, action, x.signature)'
               /\ HashesFit(m, action, x.hashes)'
    <3>1. SignatureFits(m, action, x.signature) /\ HashesFit(m, action, x.hashes)
      BY <2>2, <2>3, <2>4, <2>5
    <3>2. m \in AllNames
      BY <1>8, <2>5
    <3> QED
      BY <1>5, <3>1, <3>2, FitsStay
  <2>6. Ready(x)'
    BY <1>7, <2>2, <2>3, <2>4, <2>5 DEF Ready
  <2> QED
    BY <2>4, <2>6, <1>6 DEF ThreadFits, Stages
<1>10. ThreadFits(t, missed)'
  <2>1. missed.at = "verify" /\ missed.event = e
    BY DEF missed
  <2> QED
    BY <2>1, <1>6 DEF ThreadFits, Stages
<1>11. \A u \in EnrichThreads : \A w : w = enriching'[u] => ThreadFits(u, w)'
  <2>1. CASE Cached(bundleCache, key)
    <3>1. PICK x : x = found
      OBVIOUS
    <3>2. enriching' = [enriching EXCEPT ![t] = x]
      BY <2>1, <3>1, <1>4
    <3> QED
      BY <2>1, <3>1, <3>2, <1>5, <1>9, OneThreadGoes
  <2>2. CASE ~Cached(bundleCache, key)
    BY <2>2, <1>4, <1>5, <1>10, OneThreadGoes
  <2> QED
    BY <2>1, <2>2
<1> QED
  BY <1>1, <1>5, <1>11, OthersStay DEF EnrichInv

\* A file that exists has been read from end to end by no attempt yet.
LEMMA ReadingsBegin ==
    ASSUME MapsFit, NEW f \in FilesOf(Names), Exists(f)
    PROVE  Readings(f) # {}
<1>1. PICK n \in Nat : n = Len(contents[f]) /\ n >= 1 /\ DOMAIN contents[f] = 1 .. n
  BY LenProperties, EmptySeq DEF MapsFit, Exists
<1>2. [i \in 1 .. 5 |-> n] \in Readings(f)
  BY <1>1 DEF Readings
<1> QED
  BY <1>2

LEMMA LookupKeeps ==
    ASSUME EnrichInv, NEW t \in EnrichThreads, LookupSignature(t)
    PROVE  EnrichInv'
<1>1. PICK e : e = enriching[t].event
  OBVIOUS
<1> DEFINE name == PlainName(e.name)
           action == ActionOf(e.kind)
           key == KeyOf(name, e.kind)
           found == [at |-> "hashes", event |-> e, name |-> name,
                     signature |-> CachedValue(signatureCache, key)]
           missed == [at |-> "hint", event |-> e, name |-> name,
                      own |-> NoSignature, generic |-> NoSignature]
<1>2. /\ enriching[t].at = "verify" /\ RemembersName(e.name)
      /\ contents' = contents /\ mounted' = mounted /\ loads' = loads
      /\ signatureCache' = signatureCache /\ bundleCache' = bundleCache
      /\ enriching' = [enriching EXCEPT ![t] =
            IF Cached(signatureCache, SignatureKey(e))
            THEN [at |-> "hashes", event |-> e, name |-> Resolved(e.name),
                  signature |-> CachedValue(signatureCache, SignatureKey(e))]
            ELSE [at |-> "hint", event |-> e, name |-> Resolved(e.name),
                  own |-> NoSignature, generic |-> NoSignature]]
  BY <1>1 DEF LookupSignature
<1>3. EventFits(t, e)
  BY <1>1, <1>2, ThreadIs DEF ThreadFits
<1>4. e.name \in Names /\ e.kind \in {"DriverLoad", "ImageLoad"}
  BY <1>3 DEF EventFits
<1>5. Resolved(e.name) = name /\ SignatureKey(e) = key
  BY <1>4, ConversionIs DEF SignatureKey, EnrichInv
<1>6. enriching' = [enriching EXCEPT ![t] = IF Cached(signatureCache, key) THEN found ELSE missed]
  BY <1>2, <1>5
<1> HIDE DEF key
<1>7. MapsFit' /\ PathsFit' /\ Grown
  <2>1. loads' \in Nat /\ DOMAIN enriching' = EnrichThreads
    BY <1>2, <1>6 DEF EnrichInv, MapsFit
  <2> QED
    BY <2>1, <1>2, <1>4, ConversionGrows
<1>8. name \in AllNames /\ name.file = e.name.file
  BY <1>4, NamesAre
<1>9. action \in Actions /\ key \in VerdictKeys /\ key.name = name /\ key.action = action
  BY <1>4, KeysAre DEF key
<1> HIDE DEF found, missed
<1>10. ASSUME Cached(signatureCache, key) PROVE ThreadFits(t, found)
  <2>1. PICK v : v = CachedValue(signatureCache, key)
    OBVIOUS
  <2>2. v \in Signatures /\ SignatureFits(name, action, v)
    BY <1>9, <1>10, <2>1, CachedFits
  <2>3. /\ found.at = "hashes" /\ found.event = e /\ found.signature = v
        /\ found = [at |-> found.at, event |-> e, name |-> name, signature |-> found.signature]
    BY <2>1 DEF found
  <2>4. Verified(found)
    BY <2>2, <2>3 DEF Verified
  <2> QED
    BY <1>3, <2>3, <2>4 DEF ThreadFits, Stages
<1>11. ThreadFits(t, missed)
  <2>1. /\ missed.at = "hint" /\ missed.event = e
        /\ missed.own = NoSignature /\ missed.generic = NoSignature
        /\ missed = [at |-> missed.at, event |-> e, name |-> name, own |-> missed.own,
                     generic |-> missed.generic]
    BY DEF missed
  <2>2. VerdictFits(name, action, missed)
    <3>1. CASE name.form = "device"
      BY <2>1, <3>1, NoVerdicts DEF VerdictFits, Good
    <3>2. CASE name.form # "device"
      <4>1. PICK r : r \in Readings(name.file)
        <5>1. name.file \in FilesOf(Names) /\ Exists(name.file)
          BY <1>3, <1>8, NamesAre DEF EventFits
        <5> QED
          BY <5>1, ReadingsBegin DEF EnrichInv
      <4>2. StageFits(missed, AsRead(name.file, r, action), action)
        BY <2>1 DEF StageFits
      <4> QED
        BY <3>2, <4>1, <4>2 DEF VerdictFits
    <3> QED
      BY <3>1, <3>2
  <2>3. Verifying(missed)
    BY <2>1, <2>2, NoVerdicts DEF Verifying
  <2> QED
    BY <1>3, <2>1, <2>3 DEF ThreadFits, Stages
<1>12. \A u \in EnrichThreads : \A w : w = enriching'[u] => ThreadFits(u, w)'
  <2>1. PICK x : x = IF Cached(signatureCache, key) THEN found ELSE missed
    OBVIOUS
  <2>2. ThreadFits(t, x)
    BY <1>10, <1>11, <2>1
  <2>3. ThreadFits(t, x)'
    BY <1>7, <2>2, ThreadStays DEF EnrichInv
  <2> QED
    BY <1>6, <1>7, <2>1, <2>3, OneThreadGoes
<1> QED
  BY <1>2, <1>7, <1>12, OthersStay DEF EnrichInv

-----------------------------------------------------------------------------
\* The attempts.  What is read of a file so far, and from the j-th attempt on is
\* the file's content of now.
ReadOn(d, c, k, j, action) ==
    /\ d.directory = IF j > 1 THEN c.directory ELSE k.directory
    /\ d.embedded[action] = IF j > 2 THEN c.embedded[action] ELSE k.embedded[action]
    /\ d.catalog[action] = IF j > 3 THEN c.catalog[action] ELSE k.catalog[action]
    /\ action # "generic" =>
          /\ d.embedded["generic"] = IF j > 4 THEN c.embedded["generic"] ELSE k.embedded["generic"]
          /\ d.catalog["generic"] = k.catalog["generic"]

LEMMA ReadingIs ==
    ASSUME MapsFit, NEW f \in FilesOf(Names), NEW r \in Readings(f), NEW action \in Actions
    PROVE  /\ Readable(AsRead(f, r, action), action)
           /\ AsRead(f, r, action).directory = contents[f][r[1]].directory
           /\ AsRead(f, r, action).embedded[action] = contents[f][r[2]].embedded[action]
           /\ AsRead(f, r, action).catalog[action] = contents[f][r[3]].catalog[action]
           /\ action # "generic" =>
                 /\ AsRead(f, r, action).embedded["generic"] = contents[f][r[4]].embedded["generic"]
                 /\ AsRead(f, r, action).catalog["generic"] = contents[f][r[5]].catalog["generic"]
<1>1. \A i \in 1 .. 5 : contents[f][r[i]] \in Contents
  <2>1. contents[f] \in Seq(Contents)
    BY DEF MapsFit
  <2>2. \A i \in 1 .. 5 : r[i] \in DOMAIN contents[f]
    BY DEF Readings
  <2> QED
    BY <2>1, <2>2, ElementOfSeq
<1>2. PICK c1 \in Contents, c2 \in Contents, c3 \in Contents, c4 \in Contents, c5 \in Contents :
         /\ c1 = contents[f][r[1]] /\ c2 = contents[f][r[2]] /\ c3 = contents[f][r[3]]
         /\ c4 = contents[f][r[4]] /\ c5 = contents[f][r[5]]
  <2>1. /\ contents[f][r[1]] \in Contents /\ contents[f][r[2]] \in Contents
        /\ contents[f][r[3]] \in Contents /\ contents[f][r[4]] \in Contents
        /\ contents[f][r[5]] \in Contents
    BY <1>1
  <2> QED
    BY ONLY <2>1
<1> DEFINE d == AsRead(f, r, action)
<1>3. d = [directory |-> c1.directory,
           embedded |-> [driver |-> c2.embedded["driver"],
                         generic |-> IF action = "generic" THEN c2.embedded["generic"]
                                     ELSE c4.embedded["generic"]],
           catalog |-> [driver |-> c3.catalog["driver"],
                        generic |-> IF action = "generic" THEN c3.catalog["generic"]
                                    ELSE c5.catalog["generic"]]]
  BY <1>2 DEF AsRead
<1> HIDE DEF d
<1>4. /\ d.directory = c1.directory
      /\ d.embedded = [driver |-> c2.embedded["driver"],
                       generic |-> IF action = "generic" THEN c2.embedded["generic"]
                                   ELSE c4.embedded["generic"]]
      /\ d.catalog = [driver |-> c3.catalog["driver"],
                      generic |-> IF action = "generic" THEN c3.catalog["generic"]
                                  ELSE c5.catalog["generic"]]
  BY ONLY <1>3
<1>5. action = "driver" \/ action = "generic"
  BY DEF Actions
<1>6. /\ d.embedded[action] = c2.embedded[action] /\ d.catalog[action] = c3.catalog[action]
      /\ d.embedded["generic"] = IF action = "generic" THEN c2.embedded["generic"]
                                 ELSE c4.embedded["generic"]
      /\ d.catalog["generic"] = IF action = "generic" THEN c3.catalog["generic"]
                                ELSE c5.catalog["generic"]
  BY <1>4, <1>5
<1>7. /\ c1.directory \in BOOLEAN
      /\ \A a \in Actions : /\ c2.embedded[a] \in Verdicts /\ c3.catalog[a] \in Verdicts
                            /\ c4.embedded[a] \in Verdicts /\ c5.catalog[a] \in Verdicts
  BY ContentsAre
<1>8. Readable(d, action)
  <2>1. "generic" \in Actions
    BY DEF Actions
  <2> QED
    BY <1>4, <1>6, <1>7, <2>1 DEF Readable
<1> QED
  BY <1>2, <1>4, <1>6, <1>8 DEF d

LEMMA ReadsOn ==
    ASSUME MapsFit, NEW f \in FilesOf(Names), NEW r \in Readings(f), NEW action \in Actions,
           NEW j \in 1 .. 5
    PROVE  \E q \in Readings(f) :
              ReadOn(AsRead(f, q, action), AsRead(f, r, action), ContentOf(f), j, action)
<1>1. contents[f] \in Seq(Contents)
  BY DEF MapsFit
<1>2. PICK n \in Nat : n = Len(contents[f]) /\ DOMAIN contents[f] = 1 .. n
  BY <1>1, LenProperties
<1>3. r \in [1 .. 5 -> 1 .. n] /\ \A i \in 1 .. 4 : r[i] <= r[i + 1]
  BY <1>2 DEF Readings
<1>4. PICK q : q = [i \in 1 .. 5 |-> IF i < j THEN r[i] ELSE n]
  OBVIOUS
<1>5. q \in Readings(f)
  <2>1. n \in 1 .. n
    BY <1>3
  <2>2. q \in [1 .. 5 -> 1 .. n] /\ \A i \in 1 .. 5 : q[i] = IF i < j THEN r[i] ELSE n
    BY <1>3, <1>4, <2>1
  <2>3. ASSUME NEW i \in 1 .. 4 PROVE q[i] <= q[i + 1]
    <3>1. i \in 1 .. 5 /\ i + 1 \in 1 .. 5
      OBVIOUS
    <3>2. r[i] <= r[i + 1] /\ r[i] \in 1 .. n /\ r[i + 1] \in 1 .. n
      BY <1>3, <3>1
    <3> QED
      BY <2>2, <3>1, <3>2
  <2> QED
    BY <1>2, <2>2, <2>3 DEF Readings
<1>6. ContentOf(f) = contents[f][n]
  BY <1>2 DEF ContentOf, Last
<1>7. \A i \in 1 .. 5 : contents[f][q[i]] = IF i < j THEN contents[f][r[i]] ELSE ContentOf(f)
  BY <1>4, <1>6
<1> DEFINE c == AsRead(f, r, action)
           d == AsRead(f, q, action)
           k == ContentOf(f)
<1>8. /\ c.directory = contents[f][r[1]].directory
      /\ c.embedded[action] = contents[f][r[2]].embedded[action]
      /\ c.catalog[action] = contents[f][r[3]].catalog[action]
      /\ action # "generic" => c.embedded["generic"] = contents[f][r[4]].embedded["generic"]
  BY ReadingIs
<1>9. /\ d.directory = contents[f][q[1]].directory
      /\ d.embedded[action] = contents[f][q[2]].embedded[action]
      /\ d.catalog[action] = contents[f][q[3]].catalog[action]
      /\ action # "generic" =>
            /\ d.embedded["generic"] = contents[f][q[4]].embedded["generic"]
            /\ d.catalog["generic"] = contents[f][q[5]].catalog["generic"]
  BY <1>5, ReadingIs
<1> HIDE DEF c, d, k
<1>10. ReadOn(d, c, k, j, action)
  <2>1. \A i \in 1 .. 5 : contents[f][q[i]] = IF i < j THEN contents[f][r[i]] ELSE k
    BY <1>7 DEF k
  <2>2. /\ contents[f][q[1]] = IF 1 < j THEN contents[f][r[1]] ELSE k
        /\ contents[f][q[2]] = IF 2 < j THEN contents[f][r[2]] ELSE k
        /\ contents[f][q[3]] = IF 3 < j THEN contents[f][r[3]] ELSE k
        /\ contents[f][q[4]] = IF 4 < j THEN contents[f][r[4]] ELSE k
        /\ contents[f][q[5]] = k
    BY <2>1
  <2> QED
    BY <1>8, <1>9, <2>2 DEF ReadOn
<1> QED
  BY <1>5, <1>10 DEF c, d, k

\* What a thread on its way through the attempts has.
LEMMA VerifyingIs ==
    ASSUME EnrichInv, NEW t \in EnrichThreads, NEW w, w = enriching[t],
           w.at \in Stages \cup {"hashes"}
    PROVE  /\ ThreadFits(t, w) /\ EventFits(t, w.event)
           /\ w.event.name \in Names /\ w.event.kind \in {"DriverLoad", "ImageLoad"}
           /\ ActionOf(w.event.kind) \in Actions
           /\ w.name = PlainName(w.event.name) /\ w.name \in AllNames
           /\ w.name.file = w.event.name.file /\ w.name.file \in FilesOf(Names)
           /\ Exists(w.name.file)
           /\ KeyOf(w.name, w.event.kind) \in VerdictKeys
           /\ KeyOf(w.name, w.event.kind).name = w.name
           /\ KeyOf(w.name, w.event.kind).action = ActionOf(w.event.kind)
<1>1. ThreadFits(t, w)
  BY ThreadIs
<1>2. EventFits(t, w.event) /\ (Verifying(w) \/ Verified(w))
  BY <1>1 DEF ThreadFits, Stages
<1>3. w.event.name \in Names /\ w.event.kind \in {"DriverLoad", "ImageLoad"}
      /\ Exists(w.event.name.file)
  BY <1>2 DEF EventFits
<1>4. w.name = PlainName(w.event.name)
  BY <1>2 DEF Verifying, Verified
<1> QED
  BY <1>1, <1>2, <1>3, <1>4, NamesAre, KeysAre

\* A thread that has verified its file.
LEMMA VerifiedIs ==
    ASSUME EnrichInv, NEW t \in EnrichThreads, NEW w, w = enriching[t], w.at = "hashes"
    PROVE  /\ ThreadFits(t, w) /\ EventFits(t, w.event)
           /\ w.event.name \in Names /\ w.event.kind \in {"DriverLoad", "ImageLoad"}
           /\ w.name = PlainName(w.event.name) /\ w.name \in AllNames
           /\ w.name.file = w.event.name.file
           /\ KeyOf(w.name, w.event.kind) \in VerdictKeys
           /\ KeyOf(w.name, w.event.kind).name = w.name
           /\ KeyOf(w.name, w.event.kind).action = ActionOf(w.event.kind)
           /\ w.signature \in Signatures
           /\ SignatureFits(w.name, ActionOf(w.event.kind), w.signature)
<1>1. Verified(w)
  <2>1. ThreadFits(t, w)
    BY ThreadIs
  <2> QED
    BY <2>1 DEF ThreadFits
<1>2. w.signature \in Signatures
      /\ SignatureFits(PlainName(w.event.name), ActionOf(w.event.kind), w.signature)
  BY <1>1 DEF Verified
<1> QED
  BY <1>2, VerifyingIs

\* What an attempt makes of a file: of the content of now, if the name can be
\* opened.
LEMMA AnswersAre ==
    ASSUME NEW n, NEW action, Exists(n.file)
    PROVE  LET k == ContentOf(n.file)
           IN /\ n.form = "device" => /\ HasSignatureHint(n) /\ Embedded(n, action) = Fails
                                      /\ \A v : WithCatalog(n, action, v) = v
              /\ n.form # "device" => /\ HasSignatureHint(n) <=> k.directory
                                      /\ Embedded(n, action) = k.embedded[action]
                                      /\ \A v : WithCatalog(n, action, v)
                                                  = Attempt(v, k.catalog[action])
<1>1. ~Good(Fails)
  BY NoVerdicts DEF Good
<1> QED
  BY <1>1 DEF HasSignatureHint, Embedded, WithCatalog, Catalog, Attempt

\* What the attempts come to is a verdict of the files.
LEMMA OwnIs ==
    ASSUME NEW c, NEW action, Readable(c, action)
    PROVE  OwnOf(c, action) \in Verdicts /\ GenericOf(c) \in Verdicts
<1>1. FirstRead(c, action) \in Verdicts
  BY NoVerdicts DEF FirstRead, Readable
<1>2. OwnOf(c, action) \in {FirstRead(c, action), c.catalog[action]}
  BY AttemptIs DEF OwnOf
<1>3. GenericOf(c) \in {c.embedded["generic"], c.catalog["generic"]}
  BY AttemptIs DEF GenericOf
<1> QED
  BY <1>1, <1>2, <1>3 DEF Readable

\* The j-th attempt reads on in a file that can be opened.
LEMMA StageReads ==
    ASSUME EnrichInv, NEW t \in EnrichThreads, NEW w, w = enriching[t],
           w.at \in Stages, w.name.form # "device", NEW j \in 1 .. 5,
           NEW action, action = ActionOf(w.event.kind)
    PROVE  \E c, d : /\ StageFits(w, c, action) /\ Readable(c, action) /\ Readable(d, action)
                     /\ ReadOn(d, c, ContentOf(w.name.file), j, action)
                     /\ \A x : StageFits(x, d, action) => VerdictFits(w.name, action, x)
<1> DEFINE f == w.name.file
<1>1. ThreadFits(t, w) /\ action \in Actions /\ f \in FilesOf(Names)
  BY VerifyingIs
<1>2. Verifying(w) /\ w.name = PlainName(w.event.name)
  BY <1>1 DEF ThreadFits, Verifying
<1>3. PICK r \in Readings(f) : StageFits(w, AsRead(f, r, action), action)
  BY <1>2 DEF Verifying, VerdictFits
<1> HIDE DEF f
<1>4. PICK q \in Readings(f) :
         ReadOn(AsRead(f, q, action), AsRead(f, r, action), ContentOf(f), j, action)
  BY <1>1, ReadsOn DEF EnrichInv
<1>5. Readable(AsRead(f, r, action), action) /\ Readable(AsRead(f, q, action), action)
  BY <1>1, ReadingIs DEF EnrichInv
<1>6. ASSUME NEW x, StageFits(x, AsRead(f, q, action), action)
      PROVE  VerdictFits(w.name, action, x)
  BY <1>6 DEF VerdictFits, f
<1> QED
  BY <1>3, <1>4, <1>5, <1>6 DEF f

\* An attempt goes on with a verdict that fits.
LEMMA AttemptKeeps ==
    ASSUME EnrichInv, NEW t \in EnrichThreads, NEW w, w = enriching[t], w.at \in Stages,
           NEW place, NEW x, Attempts(t, place, x), x.at \in Stages,
           x = [at |-> x.at, event |-> w.event, name |-> w.name, own |-> x.own,
                generic |-> x.generic],
           x.own \in Verdicts, x.generic \in Verdicts,
           VerdictFits(w.name, ActionOf(w.event.kind), x)
    PROVE  EnrichInv'
<1>1. /\ contents' = contents /\ mounted' = mounted /\ deviceMap' = deviceMap
      /\ pathCache' = pathCache /\ signatureCache' = signatureCache
      /\ bundleCache' = bundleCache /\ loads' = loads
      /\ enriching' = [enriching EXCEPT ![t] = x]
  BY DEF Attempts
<1>2. EventFits(t, w.event) /\ w.name = PlainName(w.event.name)
  BY VerifyingIs
<1>3. x.event = w.event
  OBVIOUS
<1>4. Verifying(x)
  BY <1>2, <1>3 DEF Verifying
<1>5. ThreadFits(t, x)
  BY <1>2, <1>3, <1>4 DEF ThreadFits, Stages
<1>6. MapsFit' /\ PathsFit' /\ Grown
  <2>1. Grown
    BY <1>1, StaysGrown
  <2> QED
    BY <2>1, <1>1 DEF EnrichInv, MapsFit, PathsFit
<1>7. ThreadFits(t, x)'
  BY <1>5, <1>6, ThreadStays DEF EnrichInv
<1>8. \A u \in EnrichThreads : \A y : y = enriching'[u] => ThreadFits(u, y)'
  BY <1>1, <1>6, <1>7, OneThreadGoes
<1> QED
  BY <1>1, <1>6, <1>8, OthersStay DEF EnrichInv

\* What a thread has before an attempt.
LEMMA StageIs ==
    ASSUME EnrichInv, NEW t \in EnrichThreads, NEW w, w = enriching[t], w.at \in Stages
    PROVE  /\ w = [at |-> w.at, event |-> w.event, name |-> w.name, own |-> w.own,
                   generic |-> w.generic]
           /\ w.own \in Verdicts /\ w.generic \in Verdicts /\ Exists(w.name.file)
           /\ ActionOf(w.event.kind) \in Actions
           /\ w.name.form = "device" => ~Good(w.own) /\ w.at \notin {"generic", "genericCatalog"}
<1>1. ThreadFits(t, w) /\ Exists(w.name.file) /\ ActionOf(w.event.kind) \in Actions
  BY VerifyingIs
<1>2. Verifying(w)
  BY <1>1 DEF ThreadFits
<1> QED
  BY <1>1, <1>2 DEF Verifying, VerdictFits

LEMMA HintKeeps ==
    ASSUME EnrichInv, NEW t \in EnrichThreads, TryHint(t)
    PROVE  EnrichInv'
<1>1. PICK w : w = enriching[t]
  OBVIOUS
<1>2. PICK action : action = ActionOf(w.event.kind)
  OBVIOUS
<1>3. PICK place : place = IF HasSignatureHint(w.name) THEN "embedded" ELSE "catalog"
  OBVIOUS
<1>4. PICK x : x = [w EXCEPT !.at = place]
  OBVIOUS
<1>5. w.at = "hint" /\ Attempts(t, "hint", x)
  BY <1>1, <1>3, <1>4 DEF TryHint, Attempts
<1>6. w.at \in Stages /\ place \in Stages
  BY <1>3, <1>5 DEF Stages
<1>7. /\ w = [at |-> w.at, event |-> w.event, name |-> w.name, own |-> w.own,
              generic |-> w.generic]
      /\ w.own \in Verdicts /\ w.generic \in Verdicts /\ Exists(w.name.file)
      /\ w.name.form = "device" => ~Good(w.own)
  BY <1>1, <1>6, StageIs
<1>8. /\ x = [at |-> x.at, event |-> w.event, name |-> w.name, own |-> x.own,
              generic |-> x.generic]
      /\ x.at = place /\ x.own = w.own /\ x.generic = w.generic
  BY <1>4, <1>7
<1>9. VerdictFits(w.name, action, x)
  <2>1. CASE w.name.form = "device"
    BY <2>1, <1>3, <1>7, <1>8 DEF VerdictFits
  <2>2. CASE w.name.form # "device"
    <3>1. PICK c, d : /\ StageFits(w, c, action) /\ Readable(d, action)
                      /\ ReadOn(d, c, ContentOf(w.name.file), 1, action)
                      /\ StageFits(x, d, action) => VerdictFits(w.name, action, x)
      BY <2>2, <1>1, <1>2, <1>6, StageReads
    <3>2. d.directory \in BOOLEAN /\ (HasSignatureHint(w.name) <=> d.directory)
      BY <2>2, <3>1, <1>7, AnswersAre DEF ReadOn, Readable
    <3>3. w.own = NoSignature
      BY <3>1, <1>5 DEF StageFits
    <3>4. StageFits(x, d, action)
      BY <3>2, <3>3, <1>3, <1>8 DEF StageFits, FirstRead
    <3> QED
      BY <3>1, <3>4
  <2> QED
    BY <2>1, <2>2
<1> QED
  BY <1>1, <1>2, <1>5, <1>6, <1>7, <1>8, <1>9, AttemptKeeps

\* Where a verdict of the event's own action leads, it fits.
LEMMA AfterOwnFits ==
    ASSUME NEW c, NEW action, NEW x,
           x.own = OwnOf(c, action), x.at = AfterOwn(action, x.own)
    PROVE  StageFits(x, c, action) /\ x.at \in {"generic", "store"}
<1>1. CASE Unnamed(x.own, action)
  <2>1. x.at = "generic"
    BY <1>1 DEF Unnamed, AfterOwn
  <2> QED
    BY <2>1, <1>1 DEF StageFits
<1>2. CASE ~Unnamed(x.own, action)
  <2>1. x.at = "store" /\ x.own = VerdictFrom(c, action)
    BY <1>2 DEF Unnamed, AfterOwn, VerdictFrom
  <2> QED
    BY <2>1 DEF StageFits
<1> QED
  BY <1>1, <1>2

LEMMA EmbeddedKeeps ==
    ASSUME EnrichInv, NEW t \in EnrichThreads, TryEmbedded(t)
    PROVE  EnrichInv'
<1>1. PICK w : w = enriching[t]
  OBVIOUS
<1>2. PICK action : action = ActionOf(w.event.kind)
  OBVIOUS
<1>3. PICK v : v = Embedded(w.name, action)
  OBVIOUS
<1>4. PICK place : place = AfterEmbedded(action, v)
  OBVIOUS
<1>5. PICK x : x = [w EXCEPT !.at = place, !.own = v]
  OBVIOUS
<1>6. w.at = "embedded" /\ Attempts(t, "embedded", x)
  BY <1>1, <1>2, <1>3, <1>4, <1>5 DEF TryEmbedded, Attempts
<1>7. w.at \in Stages /\ place \in Stages
  BY <1>4, <1>6 DEF Stages, AfterEmbedded, AfterOwn
<1>8. /\ w = [at |-> w.at, event |-> w.event, name |-> w.name, own |-> w.own,
              generic |-> w.generic]
      /\ w.generic \in Verdicts /\ Exists(w.name.file) /\ action \in Actions
  BY <1>1, <1>2, <1>7, StageIs
<1>9. /\ x = [at |-> x.at, event |-> w.event, name |-> w.name, own |-> x.own,
              generic |-> x.generic]
      /\ x.at = place /\ x.own = v /\ x.generic = w.generic
  BY <1>5, <1>8
<1>10. v \in Verdicts /\ VerdictFits(w.name, action, x)
  <2>1. CASE w.name.form = "device"
    <3>1. v = Fails
      BY <2>1, <1>3, <1>8, AnswersAre
    <3>2. ~Good(v) /\ ~TriesCatalog(v) /\ v \in Verdicts
      BY <3>1, NoVerdicts DEF Good, TriesCatalog
    <3>3. place = "store"
      BY <3>2, <1>4 DEF AfterEmbedded, AfterOwn
    <3> QED
      BY <2>1, <3>2, <3>3, <1>9 DEF VerdictFits
  <2>2. CASE w.name.form # "device"
    <3>1. PICK c, d : /\ StageFits(w, c, action) /\ Readable(d, action)
                      /\ ReadOn(d, c, ContentOf(w.name.file), 2, action)
                      /\ StageFits(x, d, action) => VerdictFits(w.name, action, x)
      BY <2>2, <1>1, <1>2, <1>7, StageReads
    <3>2. v = d.embedded[action] /\ v \in Verdicts
      BY <2>2, <3>1, <1>3, <1>8, AnswersAre DEF ReadOn, Readable
    <3>3. d.directory = TRUE
      BY <3>1, <1>6 DEF StageFits, ReadOn
    <3>4. v = FirstRead(d, action)
      BY <3>2, <3>3 DEF FirstRead
    <3>5. StageFits(x, d, action)
      <4>1. CASE TriesCatalog(v)
        <5>1. x.at = "catalog"
          BY <4>1, <1>4, <1>9 DEF AfterEmbedded
        <5> QED
          BY <5>1, <3>4, <1>9 DEF StageFits
      <4>2. CASE ~TriesCatalog(v)
        <5>1. v = OwnOf(d, action)
          BY <4>2, <3>4 DEF OwnOf, Attempt
        <5>2. x.at = AfterOwn(action, x.own)
          BY <4>2, <1>4, <1>9 DEF AfterEmbedded
        <5> QED
          BY <5>1, <5>2, <1>9, AfterOwnFits
      <4> QED
        BY <4>1, <4>2
    <3> QED
      BY <3>1, <3>2, <3>5
  <2> QED
    BY <2>1, <2>2
<1> QED
  BY <1>1, <1>2, <1>6, <1>7, <1>8, <1>9, <1>10, AttemptKeeps

LEMMA CatalogKeeps ==
    ASSUME EnrichInv, NEW t \in EnrichThreads, TryCatalog(t)
    PROVE  EnrichInv'
<1>1. PICK w : w = enriching[t]
  OBVIOUS
<1>2. PICK action : action = ActionOf(w.event.kind)
  OBVIOUS
<1>3. PICK v : v = WithCatalog(w.name, action, w.own)
  OBVIOUS
<1>4. PICK place : place = AfterOwn(action, v)
  OBVIOUS
<1>5. PICK x : x = [w EXCEPT !.at = place, !.own = v]
  OBVIOUS
<1>6. w.at = "catalog" /\ Attempts(t, "catalog", x)
  BY <1>1, <1>2, <1>3, <1>4, <1>5 DEF TryCatalog, Attempts
<1>7. w.at \in Stages /\ place \in Stages
  BY <1>4, <1>6 DEF Stages, AfterOwn
<1>8. /\ w = [at |-> w.at, event |-> w.event, name |-> w.name, own |-> w.own,
              generic |-> w.generic]
      /\ w.own \in Verdicts /\ w.generic \in Verdicts /\ Exists(w.name.file)
      /\ action \in Actions
      /\ w.name.form = "device" => ~Good(w.own)
  BY <1>1, <1>2, <1>7, StageIs
<1>9. /\ x = [at |-> x.at, event |-> w.event, name |-> w.name, own |-> x.own,
              generic |-> x.generic]
      /\ x.at = place /\ x.own = v /\ x.generic = w.generic
  BY <1>5, <1>8
<1>10. v \in Verdicts /\ VerdictFits(w.name, action, x)
  <2>1. CASE w.name.form = "device"
    <3>1. v = w.own
      BY <2>1, <1>3, <1>8, AnswersAre
    <3>2. ~Good(v) /\ v \in Verdicts
      BY <2>1, <3>1, <1>8
    <3>3. place = "store"
      BY <3>2, <1>4 DEF AfterOwn
    <3> QED
      BY <2>1, <3>2, <3>3, <1>9 DEF VerdictFits
  <2>2. CASE w.name.form # "device"
    <3>1. PICK c, d : /\ StageFits(w, c, action) /\ Readable(d, action)
                      /\ ReadOn(d, c, ContentOf(w.name.file), 3, action)
                      /\ StageFits(x, d, action) => VerdictFits(w.name, action, x)
      BY <2>2, <1>1, <1>2, <1>7, StageReads
    <3>2. v = Attempt(w.own, d.catalog[action])
      <4>1. v = Attempt(w.own, ContentOf(w.name.file).catalog[action])
        BY <2>2, <1>3, <1>8, AnswersAre
      <4> QED
        BY <3>1, <4>1 DEF ReadOn
    <3>3. w.own = FirstRead(d, action)
      BY <3>1, <1>6 DEF StageFits, ReadOn, FirstRead
    <3>4. v = OwnOf(d, action) /\ v \in Verdicts
      BY <3>1, <3>2, <3>3, OwnIs DEF OwnOf
    <3>5. StageFits(x, d, action)
      BY <3>4, <1>4, <1>9, AfterOwnFits
    <3> QED
      BY <3>1, <3>4, <3>5
  <2> QED
    BY <2>1, <2>2
<1> QED
  BY <1>1, <1>2, <1>6, <1>7, <1>8, <1>9, <1>10, AttemptKeeps

LEMMA GenericKeeps ==
    ASSUME EnrichInv, NEW t \in EnrichThreads, TryGeneric(t)
    PROVE  EnrichInv'
<1>1. PICK w : w = enriching[t]
  OBVIOUS
<1>2. PICK action : action = ActionOf(w.event.kind)
  OBVIOUS
<1>3. PICK v : v = Embedded(w.name, "generic")
  OBVIOUS
<1>4. PICK x : x = IF TriesCatalog(v) THEN [w EXCEPT !.at = "genericCatalog", !.generic = v]
                   ELSE [w EXCEPT !.at = "store", !.own = WithGeneric(@, v)]
  OBVIOUS
<1>5. w.at = "generic" /\ Attempts(t, "generic", x)
  BY <1>1, <1>3, <1>4 DEF TryGeneric, Attempts
<1>6. w.at \in Stages
  BY <1>5 DEF Stages
<1>7. /\ w = [at |-> w.at, event |-> w.event, name |-> w.name, own |-> w.own,
              generic |-> w.generic]
      /\ w.own \in Verdicts /\ w.generic \in Verdicts /\ Exists(w.name.file)
      /\ action \in Actions /\ w.name.form # "device"
  BY <1>1, <1>2, <1>5, <1>6, StageIs
<1>8. PICK place, own, generic :
         /\ place = IF TriesCatalog(v) THEN "genericCatalog" ELSE "store"
         /\ own = IF TriesCatalog(v) THEN w.own ELSE WithGeneric(w.own, v)
         /\ generic = IF TriesCatalog(v) THEN v ELSE w.generic
  OBVIOUS
<1>9. x = [at |-> place, event |-> w.event, name |-> w.name, own |-> own, generic |-> generic]
  BY <1>4, <1>7, <1>8
<1>10. /\ x = [at |-> x.at, event |-> w.event, name |-> w.name, own |-> x.own,
               generic |-> x.generic]
       /\ x.at = place /\ x.own = own /\ x.generic = generic
  BY ONLY <1>9
<1>11. PICK c, d : /\ StageFits(w, c, action) /\ Readable(d, action)
                   /\ ReadOn(d, c, ContentOf(w.name.file), 4, action)
                   /\ StageFits(x, d, action) => VerdictFits(w.name, action, x)
  BY <1>1, <1>2, <1>6, <1>7, StageReads
<1>12. w.own = OwnOf(c, action) /\ Unnamed(w.own, action)
  BY <1>5, <1>11 DEF StageFits
<1>13. w.own = OwnOf(d, action)
  BY <1>11, <1>12 DEF ReadOn, OwnOf, FirstRead
<1>14. v = d.embedded["generic"] /\ v \in Verdicts
  <2>1. v = ContentOf(w.name.file).embedded["generic"]
    BY <1>3, <1>7, AnswersAre
  <2>2. d.embedded["generic"] = ContentOf(w.name.file).embedded["generic"]
    <3>1. action # "generic"
      BY <1>12 DEF Unnamed
    <3> QED
      BY ONLY <3>1, <1>11 DEF ReadOn
  <2> QED
    BY <2>1, <2>2, <1>11 DEF Readable
<1>15. StageFits(x, d, action)
  <2>1. CASE TriesCatalog(v)
    <3>1. x.at = "genericCatalog" /\ x.own = w.own /\ x.generic = v
      BY <2>1, <1>8, <1>10
    <3> QED
      BY <3>1, <1>12, <1>13, <1>14 DEF StageFits
  <2>2. CASE ~TriesCatalog(v)
    <3>1. x.at = "store" /\ x.own = WithGeneric(w.own, v)
      BY <2>2, <1>8, <1>10
    <3>2. GenericOf(d) = v
      BY <2>2, <1>14 DEF GenericOf, Attempt
    <3>3. x.own = VerdictFrom(d, action)
      BY <3>1, <3>2, <1>12, <1>13 DEF VerdictFrom, WithGeneric
    <3> QED
      BY <3>1, <3>3 DEF StageFits
  <2> QED
    BY <2>1, <2>2
<1>16. x.own \in Verdicts /\ x.generic \in Verdicts /\ x.at \in Stages
  BY <1>7, <1>8, <1>10, <1>14 DEF WithGeneric, Stages
<1> QED
  BY <1>1, <1>2, <1>5, <1>6, <1>10, <1>11, <1>15, <1>16, AttemptKeeps

LEMMA GenericCatalogKeeps ==
    ASSUME EnrichInv, NEW t \in EnrichThreads, TryGenericCatalog(t)
    PROVE  EnrichInv'
<1>1. PICK w : w = enriching[t]
  OBVIOUS
<1>2. PICK action : action = ActionOf(w.event.kind)
  OBVIOUS
<1>3. PICK v : v = WithCatalog(w.name, "generic", w.generic)
  OBVIOUS
<1>4. PICK own : own = WithGeneric(w.own, v)
  OBVIOUS
<1>5. PICK x : x = [w EXCEPT !.at = "store", !.own = own]
  OBVIOUS
<1>6. w.at = "genericCatalog" /\ Attempts(t, "genericCatalog", x)
  BY <1>1, <1>3, <1>4, <1>5 DEF TryGenericCatalog, Attempts
<1>7. w.at \in Stages /\ "store" \in Stages
  BY <1>6 DEF Stages
<1>8. /\ w = [at |-> w.at, event |-> w.event, name |-> w.name, own |-> w.own,
              generic |-> w.generic]
      /\ w.own \in Verdicts /\ w.generic \in Verdicts /\ Exists(w.name.file)
      /\ action \in Actions /\ w.name.form # "device"
  BY <1>1, <1>2, <1>6, <1>7, StageIs
<1>9. /\ x = [at |-> x.at, event |-> w.event, name |-> w.name, own |-> x.own,
              generic |-> x.generic]
      /\ x.at = "store" /\ x.own = own /\ x.generic = w.generic
  BY <1>5, <1>8
<1>10. PICK c, d : /\ StageFits(w, c, action) /\ Readable(d, action)
                   /\ ReadOn(d, c, ContentOf(w.name.file), 5, action)
                   /\ StageFits(x, d, action) => VerdictFits(w.name, action, x)
  BY <1>1, <1>2, <1>7, <1>8, StageReads
<1>11. /\ w.own = OwnOf(c, action) /\ Unnamed(w.own, action)
       /\ w.generic = c.embedded["generic"]
  BY <1>6, <1>10 DEF StageFits
<1>12. w.own = OwnOf(d, action)
  BY <1>10, <1>11 DEF ReadOn, OwnOf, FirstRead
<1>13. v = GenericOf(d)
  <2>1. v = Attempt(w.generic, ContentOf(w.name.file).catalog["generic"])
    BY <1>3, <1>8, AnswersAre
  <2>2. /\ d.catalog["generic"] = ContentOf(w.name.file).catalog["generic"]
        /\ d.embedded["generic"] = c.embedded["generic"]
    <3>1. action # "generic"
      BY <1>11 DEF Unnamed
    <3> QED
      BY ONLY <3>1, <1>10 DEF ReadOn
  <2> QED
    BY <2>1, <2>2, <1>11 DEF GenericOf
<1>14. own = VerdictFrom(d, action)
  BY <1>4, <1>11, <1>12, <1>13 DEF VerdictFrom, WithGeneric
<1>15. own \in Verdicts
  BY <1>8, <1>10, <1>14, VerdictIs
<1>16. StageFits(x, d, action)
  BY <1>9, <1>14 DEF StageFits
<1> QED
  BY <1>1, <1>2, <1>6, <1>7, <1>8, <1>9, <1>10, <1>15, <1>16, AttemptKeeps

LEMMA StoreSignatureKeeps ==
    ASSUME EnrichInv, NEW t \in EnrichThreads, StoreSignature(t)
    PROVE  EnrichInv'
<1>1. PICK w : w = enriching[t]
  OBVIOUS
<1> DEFINE key == KeyOf(w.name, w.event.kind)
           action == ActionOf(w.event.kind)
<1>2. PICK v : v = Signature(w.own)
  OBVIOUS
<1>3. PICK x : x = [at |-> "hashes", event |-> w.event, name |-> w.name, signature |-> v]
  OBVIOUS
<1>4. /\ w.at = "store" /\ signatureCache' = Put(signatureCache, key, v)
      /\ enriching' = [enriching EXCEPT ![t] = x]
      /\ contents' = contents /\ mounted' = mounted /\ deviceMap' = deviceMap
      /\ pathCache' = pathCache /\ bundleCache' = bundleCache /\ loads' = loads
  BY <1>1, <1>2, <1>3 DEF StoreSignature
<1>5. w.at \in Stages
  BY <1>4 DEF Stages
<1>6. /\ EventFits(t, w.event) /\ w.name = PlainName(w.event.name)
      /\ w.name \in AllNames /\ key \in VerdictKeys /\ key.name = w.name /\ key.action = action
      /\ action \in Actions
  BY <1>1, <1>5, VerifyingIs
<1>7. w.own \in Verdicts /\ (w.name.form = "device" => ~Good(w.own))
  BY <1>1, <1>5, StageIs
<1>8. v \in Signatures /\ (v.signed <=> Good(w.own))
  BY <1>2, <1>7, SignatureIs
<1>9. SignatureFits(w.name, action, v)
  <2>1. CASE w.name.form = "device"
    BY <2>1, <1>7, <1>8 DEF SignatureFits
  <2>2. CASE w.name.form # "device"
    <3>1. Verifying(w) /\ w.name.file \in FilesOf(Names)
      <4>1. ThreadFits(t, w) /\ w.name.file \in FilesOf(Names)
        BY <1>1, <1>5, VerifyingIs
      <4> QED
        BY <4>1, <1>5 DEF ThreadFits
    <3>2. PICK r \in Readings(w.name.file) :
             StageFits(w, AsRead(w.name.file, r, action), action)
      BY <2>2, <3>1, <1>6 DEF Verifying, VerdictFits
    <3>3. PICK c : c = AsRead(w.name.file, r, action)
      OBVIOUS
    <3>4. Readable(c, action)
      BY <3>1, <3>3, <1>6, ReadingIs DEF EnrichInv
    <3>5. w.own = VerdictFrom(c, action)
      BY <3>2, <3>3, <1>4 DEF StageFits
    <3>6. VerdictOf(v, c, action)
      BY <3>4, <3>5, <1>2, <1>6, VerdictIs
    <3> QED
      BY <2>2, <3>3, <3>6 DEF SignatureFits
  <2> QED
    BY <2>1, <2>2
<1> HIDE DEF key, action
<1>10. MapsFit' /\ PathsFit' /\ Grown
  <2>1. Grown
    BY <1>4, StaysGrown
  <2> QED
    BY <2>1, <1>4 DEF EnrichInv, MapsFit, PathsFit
<1>11. SignaturesFit'
  <2>1. /\ CacheInv(Put(signatureCache, key, v), VerdictKeys, Signatures)
        /\ \A k, u : Knows(Put(signatureCache, key, v), k, u)
                       => Knows(signatureCache, k, u) \/ (k = key /\ u = v)
    <3>1. CacheInv(signatureCache, VerdictKeys, Signatures) /\ InBuckets(VerdictKeys)
      BY KeysInBuckets DEF EnrichInv, SignaturesFit
    <3> QED
      BY <3>1, <1>6, <1>8, PutKeeps
  <2>2. ASSUME NEW k, NEW u, Knows(signatureCache', k, u) PROVE SignatureFits(k.name, k.action, u)'
    <3>1. Knows(signatureCache, k, u) \/ (k = key /\ u = v)
      BY <2>1, <2>2, <1>4
    <3>2. SignatureFits(k.name, k.action, u)
      BY <3>1, <1>6, <1>9 DEF EnrichInv, SignaturesFit
    <3>3. k.name \in AllNames
      <4>1. k \in VerdictKeys
        BY <3>1, <1>6, KnownIs DEF EnrichInv, SignaturesFit
      <4> QED
        BY <4>1 DEF VerdictKeys
    <3> QED
      BY <3>2, <3>3, <1>10, FitsStay
  <2> QED
    BY <2>1, <2>2, <1>4 DEF SignaturesFit
<1>12. ThreadFits(t, x)'
  <2>1. /\ x.at = "hashes" /\ x.event = w.event /\ x.signature = v
        /\ x = [at |-> x.at, event |-> w.event, name |-> w.name, signature |-> x.signature]
    BY ONLY <1>3
  <2>2. Verified(x)
    BY <2>1, <1>6, <1>8, <1>9 DEF Verified, action
  <2>3. ThreadFits(t, x)
    BY <2>1, <2>2, <1>6 DEF ThreadFits, Stages
  <2> QED
    BY <2>3, <1>10, ThreadStays DEF EnrichInv
<1>13. \A u \in EnrichThreads : \A y : y = enriching'[u] => ThreadFits(u, y)'
  BY <1>4, <1>10, <1>12, OneThreadGoes
<1> QED
  BY <1>4, <1>10, <1>11, <1>13, OthersStay DEF EnrichInv

\* The hashes that a thread resolves are of the file.
LEMMA EventHashesFit ==
    ASSUME EnrichInv, NEW t \in EnrichThreads, NEW w, w = enriching[t], w.at = "hashes"
    PROVE  LET hashes == EventHashes(w.event, ExistingHashes(t, w.event), w.name)
           IN HashesFit(w.name, ActionOf(w.event.kind), hashes) /\ hashes \in HashTexts
<1> DEFINE e == w.event
           existing == ExistingHashes(t, e)
           hashes == EventHashes(e, existing, w.name)
           texts == {"", "-"} \cup {c.hash : c \in Past(w.name.file)}
<1>1. /\ EventFits(t, e) /\ w.name \in AllNames /\ w.name.file = e.name.file
      /\ e.kind \in {"DriverLoad", "ImageLoad"}
  BY VerifiedIs
<1>2. /\ e.own \in {""} \cup {c.hash : c \in Past(w.name.file)} /\ Exists(w.name.file)
      /\ (t = "dispatcher" => e.kind = "DriverLoad")
  BY <1>1 DEF EventFits
<1>3. FileHashes(w.name) \in texts
  <2>1. ContentOf(w.name.file) \in Past(w.name.file)
    BY <1>1, <1>2, NamesAre, ExistsIs DEF EnrichInv
  <2> QED
    BY <2>1 DEF FileHashes
<1>4. existing \in texts /\ (e.kind # "DriverLoad" => existing = "")
  BY <1>1, <1>2 DEF ExistingHashes
<1>5. hashes \in texts /\ (e.kind # "DriverLoad" => hashes = "")
  BY <1>3, <1>4 DEF EventHashes
<1>6. hashes \in HashTexts
  <2> HIDE DEF hashes
  <2> QED
    BY <1>1, <1>5, HashesAre DEF EnrichInv
<1>7. HashesFit(w.name, ActionOf(e.kind), hashes)
  <2> HIDE DEF hashes
  <2>1. ActionOf(e.kind) = "generic" <=> e.kind # "DriverLoad"
    BY <1>1 DEF ActionOf
  <2> QED
    BY <2>1, <1>5 DEF HashesFit
<1> QED
  BY <1>6, <1>7

LEMMA StoreBundleKeeps ==
    ASSUME EnrichInv, NEW t \in EnrichThreads, StoreBundle(t)
    PROVE  EnrichInv'
<1>1. PICK w : w = enriching[t]
  OBVIOUS
<1> DEFINE key == KeyOf(w.name, w.event.kind)
           action == ActionOf(w.event.kind)
           resolved == EventHashes(w.event, ExistingHashes(t, w.event), w.name)
<1>2. PICK hashes : hashes = resolved
  OBVIOUS
<1>3. PICK bundle : bundle = StoredBundle(key, w.signature, hashes)
  OBVIOUS
<1>4. /\ w.at = "hashes" /\ bundleCache' = Put(bundleCache, key, bundle)
      /\ enriching' = [enriching EXCEPT ![t] =
            [at |-> "rebuild", event |-> w.event, signature |-> w.signature, hashes |-> hashes]]
      /\ contents' = contents /\ mounted' = mounted /\ deviceMap' = deviceMap
      /\ pathCache' = pathCache /\ signatureCache' = signatureCache /\ loads' = loads
  BY <1>1, <1>2, <1>3 DEF StoreBundle
<1>5. /\ ThreadFits(t, w) /\ EventFits(t, w.event)
      /\ w.name = PlainName(w.event.name) /\ w.name \in AllNames
      /\ key \in VerdictKeys /\ key.name = w.name /\ key.action = action
      /\ w.signature \in Signatures /\ SignatureFits(w.name, action, w.signature)
  BY <1>1, <1>4, VerifiedIs
<1>6. HashesFit(w.name, action, hashes) /\ hashes \in HashTexts
  BY <1>1, <1>2, <1>4, EventHashesFit
<1> HIDE DEF key, resolved, action
<1>7. bundle \in Bundles /\ bundle.signature = w.signature /\ HashesFit(w.name, action, bundle.hashes)
  <2> DEFINE kept == IF ~Placeholder(hashes) THEN hashes
                     ELSE IF Cached(bundleCache, key) THEN CachedValue(bundleCache, key).hashes
                     ELSE ""
  <2>1. bundle = [signature |-> w.signature, hashes |-> kept]
    BY <1>3 DEF StoredBundle
  <2>2. HashesFit(w.name, action, "") /\ "" \in HashTexts
    BY DEF HashesFit, HashTexts
  <2>3. Cached(bundleCache, key) => /\ CachedValue(bundleCache, key).hashes \in HashTexts
                                   /\ HashesFit(w.name, action, CachedValue(bundleCache, key).hashes)
    BY <1>5, CachedFits
  <2>4. kept \in HashTexts /\ HashesFit(w.name, action, kept)
    BY <2>2, <2>3, <1>6
  <2> HIDE DEF kept, HashTexts, Signatures
  <2> QED
    BY <2>1, <2>4, <1>5 DEF Bundles
<1>8. MapsFit' /\ PathsFit' /\ Grown
  <2>1. Grown
    BY <1>4, StaysGrown
  <2> QED
    BY <2>1, <1>4 DEF EnrichInv, MapsFit, PathsFit
<1>9. BundlesFit'
  <2>1. /\ CacheInv(Put(bundleCache, key, bundle), VerdictKeys, Bundles)
        /\ \A k, v : Knows(Put(bundleCache, key, bundle), k, v)
                       => Knows(bundleCache, k, v) \/ (k = key /\ v = bundle)
    <3>1. CacheInv(bundleCache, VerdictKeys, Bundles) /\ InBuckets(VerdictKeys)
      BY KeysInBuckets DEF EnrichInv, BundlesFit
    <3>2. key \in VerdictKeys
      BY <1>5
    <3>3. bundle \in Bundles
      BY <1>7
    <3> QED
      BY ONLY <3>1, <3>2, <3>3, PutKeeps
  <2>2. ASSUME NEW k, NEW v, Knows(bundleCache', k, v)
        PROVE  SignatureFits(k.name, k.action, v.signature)' /\ HashesFit(k.name, k.action, v.hashes)'
    <3>1. Knows(bundleCache, k, v) \/ (k = key /\ v = bundle)
      BY <2>1, <2>2, <1>4
    <3>2. SignatureFits(k.name, k.action, v.signature) /\ HashesFit(k.name, k.action, v.hashes)
      BY <3>1, <1>5, <1>7 DEF EnrichInv, BundlesFit
    <3>3. k.name \in AllNames
      <4>1. k \in VerdictKeys
        BY <3>1, <1>5, KnownIs DEF EnrichInv, BundlesFit
      <4> QED
        BY <4>1 DEF VerdictKeys
    <3>4. ASSUME NEW m \in AllNames, NEW a
          PROVE  /\ SignatureFits(m, a, v.signature) => SignatureFits(m, a, v.signature)'
                 /\ HashesFit(m, a, v.hashes) => HashesFit(m, a, v.hashes)'
      BY <1>8, FitsStay
    <3> QED
      BY <3>2, <3>3, <3>4
  <2> QED
    BY <2>1, <2>2, <1>4 DEF BundlesFit
<1>10. PICK x : x = [at |-> "rebuild", event |-> w.event, signature |-> w.signature,
                     hashes |-> hashes]
  OBVIOUS
<1>11. enriching' = [enriching EXCEPT ![t] = x]
  BY <1>4, <1>10
<1>12. ThreadFits(t, x)'
  <2>1. /\ x.at = "rebuild" /\ x.event = w.event /\ x.signature = w.signature
        /\ x.hashes = hashes
    BY <1>10
  <2>2. ThreadFits(t, x)
    BY <2>1, <1>5, <1>6 DEF ThreadFits, Ready, action, Stages
  <2> QED
    BY <2>2, <1>8, ThreadStays DEF EnrichInv
<1>13. \A u \in EnrichThreads : \A y : y = enriching'[u] => ThreadFits(u, y)'
  BY <1>8, <1>11, <1>12, OneThreadGoes
<1> QED
  BY <1>4, <1>8, <1>9, <1>13, OthersStay DEF EnrichInv

LEMMA RebuildKeeps ==
    ASSUME EnrichInv, NEW t \in EnrichThreads, RebuildEvent(t)
    PROVE  EnrichInv'
<1>1. /\ enriching[t].at = "rebuild" /\ RemembersName(enriching[t].event.name)
      /\ contents' = contents /\ mounted' = mounted /\ loads' = loads
      /\ signatureCache' = signatureCache /\ bundleCache' = bundleCache
      /\ enriching' = [enriching EXCEPT ![t] = [at |-> "idle"]]
  BY DEF RebuildEvent
<1>2. PICK n : n = enriching[t].event.name
  OBVIOUS
<1>3. n \in Names
  <2>1. ThreadFits(t, enriching[t])
    BY ThreadIs
  <2> QED
    BY <2>1, <1>1, <1>2 DEF ThreadFits, EventFits
<1>4. MapsFit' /\ PathsFit' /\ Grown
  <2>1. loads' \in Nat /\ DOMAIN enriching' = EnrichThreads
    BY <1>1 DEF EnrichInv, MapsFit
  <2> QED
    BY <2>1, <1>1, <1>2, <1>3, ConversionGrows
<1>5. ThreadFits(t, [at |-> "idle"])'
  BY DEF ThreadFits, Stages
<1>6. \A u \in EnrichThreads : \A w : w = enriching'[u] => ThreadFits(u, w)'
  BY <1>1, <1>4, <1>5, OneThreadGoes
<1> QED
  BY <1>1, <1>4, <1>6, OthersStay DEF EnrichInv

LEMMA EnrichInitially == EnrichInit => EnrichInv
<1> SUFFICES ASSUME EnrichInit PROVE EnrichInv
  OBVIOUS
<1>1. MapsFit
  <2>1. << >> \in Seq(Contents)
    OBVIOUS
  <2>2. BootVolumes # {}
    BY EnrichmentAssumption, Zenon
  <2> QED
    BY <2>1, <2>2 DEF EnrichInit, MapsFit
<1>2. PathsFit /\ SignaturesFit /\ BundlesFit
  BY EmptyIs DEF EnrichInit, PathsFit, SignaturesFit, BundlesFit
<1>3. ASSUME NEW t \in EnrichThreads, NEW w, w = enriching[t] PROVE ThreadFits(t, w)
  <2>1. w.at = "idle"
    BY <1>3 DEF EnrichInit
  <2> QED
    BY <2>1 DEF ThreadFits, Stages
<1> QED
  BY <1>1, <1>2, <1>3 DEF EnrichInv

LEMMA EnrichStep == EnrichInv /\ [EnrichNext]_enrichVars => EnrichInv'
<1> SUFFICES ASSUME EnrichInv, [EnrichNext]_enrichVars PROVE EnrichInv'
  OBVIOUS
<1>1. CASE UNCHANGED enrichVars
  <2>1. /\ contents' = contents /\ mounted' = mounted /\ deviceMap' = deviceMap
        /\ pathCache' = pathCache /\ signatureCache' = signatureCache
        /\ bundleCache' = bundleCache /\ loads' = loads /\ enriching' = enriching
    BY <1>1 DEF enrichVars
  <2>2. MapsFit' /\ PathsFit' /\ Grown
    BY <2>1, StaysGrown DEF EnrichInv, MapsFit, PathsFit
  <2> QED
    BY <2>1, <2>2, OthersStay DEF EnrichInv
<1>2. CASE EnrichNext
  <2>1. CASE \E n \in Names : Exists(n.file) /\ FilterLoad(n)
    BY <2>1, FilterKeeps
  <2>2. CASE \E t \in EnrichThreads : \E e \in LoadEvents : BeginEnrichment(t, e)
    BY <2>2, BeginKeeps
  <2>3. CASE \E t \in EnrichThreads : LookupSignature(t) \/ StoreSignature(t)
    BY <2>3, LookupKeeps, StoreSignatureKeeps
  <2>4. CASE \E t \in EnrichThreads : StoreBundle(t) \/ RebuildEvent(t)
    BY <2>4, StoreBundleKeeps, RebuildKeeps
  <2>5. CASE \E v \in MoreVolumes : MountVolume(v)
    BY <2>5, MountKeeps
  <2>6. CASE \E f \in DOMAIN contents, c \in Contents : WriteFile(f, c)
    BY <2>6, WriteKeeps
  <2>7. CASE \E t \in EnrichThreads : TryHint(t) \/ TryEmbedded(t) \/ TryCatalog(t)
    BY <2>7, HintKeeps, EmbeddedKeeps, CatalogKeeps
  <2>8. CASE \E t \in EnrichThreads : TryGeneric(t) \/ TryGenericCatalog(t)
    BY <2>8, GenericKeeps, GenericCatalogKeeps
  <2> QED
    BY <1>2, <2>1, <2>2, <2>3, <2>4, <2>5, <2>6, <2>7, <2>8 DEF EnrichNext
<1> QED
  BY <1>1, <1>2

LEMMA EnrichInvHolds == EnrichSpec => []EnrichInv
BY EnrichInitially, EnrichStep, PTL DEF EnrichSpec

\* The caches of the service are whole in every state: whatever is looked up
\* in them is found, and nothing is found in a slot that was reused.
THEOREM CachesStayLinked == EnrichSpec => []CachesAreWellLinked
<1>1. EnrichInv => CachesAreWellLinked
  BY KeysInBuckets, InvWellLinked
     DEF EnrichInv, PathsFit, SignaturesFit, BundlesFit, CachesAreWellLinked
<1> QED
  BY <1>1, EnrichInvHolds, PTL

LEMMA EnrichedByInv == EnrichInv => EnrichmentIsOfTheFile
<1> SUFFICES ASSUME EnrichInv, NEW t \in EnrichThreads, enriching[t].at = "rebuild"
             PROVE  LET e == Rebuilt(t)
                        f == e.name.file
                        act == ActionOf(e.kind)
                    IN /\ IF e.name.form = "device" THEN ~e.signature.signed
                          ELSE \E r \in Readings(f) :
                                  VerdictOf(e.signature, AsRead(f, r, act), act)
                       /\ IF e.kind = "ImageLoad" THEN e.hashes = e.own
                          ELSE e.hashes \in {"", "-"} \cup {c.hash : c \in ToSet(contents[f])}
  BY DEF EnrichmentIsOfTheFile
<1> DEFINE w == enriching[t]
           e == w.event
           name == PlainName(e.name)
           action == ActionOf(e.kind)
           given == RebuiltHashes(e, w.hashes)
           d == Rebuilt(t)
<1>1. EventFits(t, e) /\ Ready(w)
  BY ThreadIs DEF ThreadFits
<1>2. /\ SignatureFits(name, action, w.signature) /\ HashesFit(name, action, w.hashes)
  BY <1>1 DEF Ready
<1>3. /\ e.name \in Names /\ e.kind \in {"DriverLoad", "ImageLoad"}
      /\ e.own \in {""} \cup {c.hash : c \in Past(e.name.file)}
      /\ e = [kind |-> e.kind, name |-> e.name, own |-> e.own]
  BY <1>1 DEF EventFits
<1>4. Resolved(e.name) = name /\ name.file = e.name.file
  BY <1>3, ConversionIs, NamesAre DEF EnrichInv
<1>5. PICK version : version = VersionInfo(e)
  OBVIOUS
<1>6. d = [kind |-> e.kind, name |-> name, own |-> e.own, signature |-> w.signature,
           hashes |-> given, version |-> version]
  BY <1>4, <1>5 DEF Rebuilt
<1> HIDE DEF w, e, given, d
<1>7. /\ d.kind = e.kind /\ d.name = name /\ d.own = e.own
      /\ d.signature = w.signature /\ d.hashes = given
  <2> HIDE DEF name
  <2> QED
    BY <1>6
<1>8. \A c \in Past(e.name.file) : c.hash \notin {"", "-"}
  <2>1. Past(e.name.file) \subseteq Contents
    BY <1>3, NamesAre, ExistsIs DEF EnrichInv
  <2> QED
    BY <2>1, ContentsAre
<1>9. IF e.kind = "ImageLoad" THEN given = e.own
      ELSE given \in {"", "-"} \cup {c.hash : c \in Past(name.file)}
  <2>1. CASE e.kind = "ImageLoad"
    <3>1. w.hashes = ""
      BY <2>1, <1>2 DEF HashesFit, ActionOf
    <3>2. e.own # "" => ~Placeholder(e.own)
      BY <1>3, <1>8 DEF Placeholder
    <3> QED
      BY <2>1, <3>1, <3>2 DEF given, RebuiltHashes, Placeholder
  <2>2. CASE e.kind # "ImageLoad"
    <3>1. given = w.hashes /\ action = "driver"
      BY <2>2, <1>3 DEF given, RebuiltHashes, ActionOf
    <3> QED
      BY <2>2, <3>1, <1>2 DEF HashesFit
  <2> QED
    BY <2>1, <2>2
<1>10. IF name.form = "device" THEN ~w.signature.signed
       ELSE \E r \in Readings(name.file) :
               VerdictOf(w.signature, AsRead(name.file, r, action), action)
  BY <1>2 DEF SignatureFits
<1> HIDE DEF name
<1> QED
  BY <1>7, <1>9, <1>10 DEF d, Past

\* An event that the service dispatches carries the verdict and the hashes of
\* its own file, for any files, volumes, threads and sizes of the caches.
THEOREM EnrichmentIsAlwaysOfTheFile == EnrichSpec => []EnrichmentIsOfTheFile
BY EnrichInvHolds, EnrichedByInv, PTL

=============================================================================
