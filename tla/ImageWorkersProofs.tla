-------------------------- MODULE ImageWorkersProofs --------------------------
(***************************************************************************)
(* The accounting of the image-load worker pool, for any number of         *)
(* callbacks, system threads, lists and workers.                           *)
(*                                                                         *)
(* That a thread which won a place finds a slot is not inductive: it holds *)
(* because at every position i of the search, the slots held from i on and *)
(* the threads that search from i on are together at most as many as the   *)
(* slots from i on (SearchFits).  A thread moves past a slot only when it  *)
(* is held, so the bound moves with it; at the first slot it is the bound  *)
(* on the places.                                                          *)
(*                                                                         *)
(* The contexts are counted over the lists and the threads' hands, of      *)
(* which each is in one at most (ItemsInv).                                *)
(***************************************************************************)
EXTENDS ImageWorkers, SequenceLemmas, FiniteSetTheorems, TLAPS

Typed ==
    /\ list \in [Queues -> Seq(Items \cup {NoItem})]
    /\ itemCount \in Int
    /\ active \in Int
    /\ claimed \subseteq Slots
    /\ initialized \in BOOLEAN
    /\ submitted \subseteq Slots
    /\ pc \in [Actors -> Reserving \cup {"out", "depth", "insert", "look",
            "process", "release", "retire", "again", "more", "stopping",
            "discard", "idle", "empty", "signal"}]
    /\ seen \in [Actors -> Int]
    /\ pos \in [Actors -> 1 .. WorkerCount + 1]
    /\ mine \in [Actors -> SUBSET Slots]
    /\ slotOf \in [Threads -> Slots]
    /\ toScan \in [Threads -> SUBSET Queues]
    /\ hand \in [Actors -> Items \cup {NoItem}]
    /\ freedBusy \in BOOLEAN

\* Without a pool nobody holds, looks for or gives up a place.
NoPoolNoWorkers ==
    initialized \/ (claimed = {} /\ Claiming = {} /\ Retiring = {})

Places ==
    /\ active = Cardinality(claimed) + Cardinality(Claiming) + Cardinality(Retiring)
    /\ active <= WorkerCount

SlotsFit ==
    /\ \A s \in Slots :
        s \in claimed <=> \/ \E a \in Actors : s \in mine[a]
                          \/ s \in submitted
                          \/ \E t \in AtWork : slotOf[t] = s
    /\ \A a, b \in Actors : a # b => mine[a] \cap mine[b] = {}
    /\ \A a \in Actors : mine[a] \cap submitted = {}
    /\ \A t \in AtWork :
        /\ slotOf[t] \notin submitted
        /\ \A a \in Actors : slotOf[t] \notin mine[a]
        /\ \A u \in AtWork : slotOf[t] = slotOf[u] => t = u

HeldFrom(i) == {s \in claimed : s >= i}
ClaimingFrom(i) == {a \in Claiming : pos[a] >= i}

SearchFits ==
    \A i \in 1 .. WorkerCount + 1 :
        Cardinality(HeldFrom(i)) + Cardinality(ClaimingFrom(i)) <= WorkerCount + 1 - i

Pool == NoPoolNoWorkers /\ Places /\ SlotsFit /\ SearchFits

Inv == Typed /\ (~freedBusy => Pool)

USE PoolParameters DEF vars, poolVars, actorVars, regVars, reserveVars, Slots,
                       Actors

-----------------------------------------------------------------------------
\* Sets of threads and of slots are finite.
LEMMA Finite ==
    /\ IsFiniteSet(Actors)
    /\ \A S \in SUBSET Slots : IsFiniteSet(S) /\ Cardinality(S) \in Nat
    /\ \A A \in SUBSET Actors : IsFiniteSet(A) /\ Cardinality(A) \in Nat
<1>1. IsFiniteSet(Actors)
  BY FS_Union
<1>2. IsFiniteSet(Slots)
  BY FS_Interval
<1>3. QED
  BY <1>1, <1>2, FS_Subset, FS_CardinalityType

\* Nobody works in a pool that has not been set up.
LEMMA InitInv == Init => Inv
<1> SUFFICES ASSUME Init PROVE Inv
  OBVIOUS
<1> USE DEF Init
<1>1. Typed
  <2>1. 1 \in Slots /\ 1 \in 1 .. WorkerCount + 1
    OBVIOUS
  <2>2. /\ pos \in [Actors -> 1 .. WorkerCount + 1]
        /\ slotOf \in [Threads -> Slots]
        /\ mine \in [Actors -> SUBSET Slots]
        /\ seen \in [Actors -> Int]
        /\ toScan \in [Threads -> SUBSET Queues]
        /\ hand \in [Actors -> Items \cup {NoItem}]
    BY <2>1
  <2>a. list \in [Queues -> Seq(Items \cup {NoItem})]
    OBVIOUS
  <2>3. pc \in [Actors -> {"out"}]
    OBVIOUS
  <2>4. /\ itemCount \in Int /\ active \in Int /\ claimed \subseteq Slots
        /\ initialized \in BOOLEAN /\ submitted \subseteq Slots
        /\ freedBusy \in BOOLEAN
    <3>1. itemCount \in Int /\ active \in Int
      OBVIOUS
    <3>2. claimed \subseteq Slots /\ submitted \subseteq Slots
      OBVIOUS
    <3>3. initialized \in BOOLEAN /\ freedBusy \in BOOLEAN
      OBVIOUS
    <3>4. QED
      BY <3>1, <3>2, <3>3
  <2>5. QED
    BY <2>a, <2>2, <2>3, <2>4 DEF Typed
<1>2. claimed = {} /\ Claiming = {} /\ Retiring = {} /\ AtWork = {}
  BY DEF Claiming, Retiring, AtWork
<1>3. NoPoolNoWorkers
  BY <1>2 DEF NoPoolNoWorkers
<1>4. Places
  BY <1>2, FS_EmptySet DEF Places
<1>5. SlotsFit
  BY <1>2 DEF SlotsFit
<1>6. SearchFits
  <2>1. \A i \in 1 .. WorkerCount + 1 : HeldFrom(i) = {} /\ ClaimingFrom(i) = {}
    BY <1>2 DEF HeldFrom, ClaimingFrom
  <2>2. SUFFICES ASSUME NEW i \in 1 .. WorkerCount + 1
                 PROVE  Cardinality(HeldFrom(i)) + Cardinality(ClaimingFrom(i))
                            <= WorkerCount + 1 - i
    BY DEF SearchFits
  <2>3. Cardinality(HeldFrom(i)) = 0 /\ Cardinality(ClaimingFrom(i)) = 0
    BY <2>1, FS_EmptySet
  <2>4. QED
    BY <2>3
<1>7. QED
  BY <1>1, <1>3, <1>4, <1>5, <1>6 DEF Inv, Pool

-----------------------------------------------------------------------------
\* What the pool's invariant says depends on no more than this.
poolView == <<active, claimed, initialized, submitted, mine, slotOf, pos>>

LEMMA FramePool ==
    ASSUME Pool, UNCHANGED poolView,
           Claiming' = Claiming, Retiring' = Retiring, AtWork' = AtWork
    PROVE  Pool'
<1> USE DEF poolView
<1>1. NoPoolNoWorkers'
  BY DEF Pool, NoPoolNoWorkers
<1>2. Places'
  BY DEF Pool, Places
<1>3. SlotsFit'
  BY DEF Pool, SlotsFit
<1>4. SearchFits'
  <2>1. \A i \in 1 .. WorkerCount + 1 :
            HeldFrom(i)' = HeldFrom(i) /\ ClaimingFrom(i)' = ClaimingFrom(i)
    BY DEF HeldFrom, ClaimingFrom
  <2>2. QED
    BY <2>1 DEF Pool, SearchFits
<1>5. QED
  BY <1>1, <1>2, <1>3, <1>4 DEF Pool

\* The steps that leave the pool's places and slots alone.
QuietProducer(p) ==
    \/ \E i \in Items : Notify(p, i)
    \/ CheckDepth(p)
    \/ Insert(p)

QuietWorker(t) ==
    \/ Look(t) \/ Process(t) \/ StillAccepting(t) \/ MoreItems(t)
    \/ NotAccepting(t) \/ Discard(t) \/ NobodyActive(t) \/ NothingLeft(t)
    \/ SignalIdle(t)

QuietReserve(a) == ReadPending(a) \/ ClearIdle(a)

QuietRegistration ==
    \/ Unregister \/ StopAccepting \/ AnyActive \/ AnyItems \/ WaitIdle
    \/ DrainLists

\* A step of one thread between two places where it is not searching, giving
\* up or at work, or is at work in both.
LEMMA MoveQuietly ==
    ASSUME Typed, NEW a \in Actors, NEW l, Goto(a, l),
           pc[a] \notin {"claim", "retire"}, l \notin {"claim", "retire"},
           pc[a] \in {"look", "process", "release"}
                <=> l \in {"look", "process", "release"}
    PROVE  Claiming' = Claiming /\ Retiring' = Retiring /\ AtWork' = AtWork
BY DEF Typed, Goto, Claiming, Retiring, AtWork

LEMMA QuietStep ==
    ASSUME Inv, ~freedBusy,
           \/ \E p \in Producers : QuietProducer(p)
           \/ \E t \in Threads : QuietWorker(t)
           \/ \E a \in Actors : QuietReserve(a)
           \/ QuietRegistration
    PROVE  Pool'
<1> USE DEF Inv, poolView
<1>1. ASSUME NEW p \in Producers, QuietProducer(p)
      PROVE  Pool'
  <2>1. UNCHANGED poolView
    BY <1>1 DEF QuietProducer, Notify, CheckDepth, Insert
  <2>2. \/ UNCHANGED pc
        \/ \E l \in {"out", "depth", "insert", "pending"} :
               Goto(p, l) /\ pc[p] \in {"out", "depth", "insert"}
    BY <1>1 DEF QuietProducer, Notify, CheckDepth, Insert
  <2>3. CASE UNCHANGED pc
    BY <2>1, <2>3, FramePool DEF Claiming, Retiring, AtWork
  <2>4. CASE \E l \in {"out", "depth", "insert", "pending"} :
               Goto(p, l) /\ pc[p] \in {"out", "depth", "insert"}
    BY <2>1, <2>4, MoveQuietly, FramePool
  <2>5. QED
    BY <2>2, <2>3, <2>4
<1>2. ASSUME NEW t \in Threads, QuietWorker(t)
      PROVE  Pool'
  <2>1. UNCHANGED poolView
    BY <1>2 DEF QuietWorker, Look, Process, Decide, StillAccepting, MoreItems,
                NotAccepting, Discard, NobodyActive, NothingLeft, SignalIdle
  <2>2. \/ UNCHANGED pc
        \/ /\ pc[t] \in {"look", "process"}
           /\ \E l \in {"look", "process", "release"} : Goto(t, l)
        \/ /\ pc[t] \in {"again", "more", "stopping", "discard", "idle", "empty",
                         "signal"}
           /\ \E l \in {"more", "stopping", "pending", "idle", "discard",
                        "empty", "submit", "signal"} : Goto(t, l)
    BY <1>2 DEF QuietWorker, Look, Process, Decide, StillAccepting, MoreItems,
                NotAccepting, Discard, NobodyActive, NothingLeft, SignalIdle
  <2>3. CASE UNCHANGED pc
    BY <2>1, <2>3, FramePool DEF Claiming, Retiring, AtWork
  <2>4. CASE /\ pc[t] \in {"look", "process"}
             /\ \E l \in {"look", "process", "release"} : Goto(t, l)
    BY <2>1, <2>4, MoveQuietly, FramePool
  <2>5. CASE /\ pc[t] \in {"again", "more", "stopping", "discard", "idle",
                           "empty", "signal"}
             /\ \E l \in {"more", "stopping", "pending", "idle", "discard",
                          "empty", "submit", "signal"} : Goto(t, l)
    BY <2>1, <2>5, MoveQuietly, FramePool
  <2>6. QED
    BY <2>2, <2>3, <2>4, <2>5
<1>3. ASSUME NEW a \in Actors, QuietReserve(a)
      PROVE  Pool'
  <2>1. UNCHANGED poolView
    BY <1>3 DEF QuietReserve, ReadPending, ClearIdle
  <2>2. \E l \in {"place", "submit", "stopping"} :
            Goto(a, l) /\ pc[a] \in {"pending", "clear"}
    BY <1>3 DEF QuietReserve, ReadPending, ClearIdle, AfterReserve
  <2>3. QED
    BY <2>1, <2>2, MoveQuietly, FramePool
<1>4. ASSUME QuietRegistration
      PROVE  Pool'
  <2>1. UNCHANGED poolView /\ UNCHANGED pc
    BY <1>4 DEF QuietRegistration, Unregister, StopAccepting, CleanupTest,
                AnyActive, AnyItems, WaitIdle, DrainLists
  <2>2. QED
    BY <2>1, FramePool DEF Claiming, Retiring, AtWork
<1>5. QED
  BY <1>1, <1>2, <1>3, <1>4

-----------------------------------------------------------------------------
\* What the steps of one thread do to the sets that are counted.
LEMMA CountedSets ==
    ASSUME Typed
    PROVE  /\ Cardinality(claimed) \in Nat /\ IsFiniteSet(claimed)
           /\ Cardinality(Claiming) \in Nat /\ IsFiniteSet(Claiming)
           /\ Cardinality(Retiring) \in Nat /\ IsFiniteSet(Retiring)
           /\ \A i \in 1 .. WorkerCount + 1 :
                /\ Cardinality(HeldFrom(i)) \in Nat /\ IsFiniteSet(HeldFrom(i))
                /\ Cardinality(ClaimingFrom(i)) \in Nat
                /\ IsFiniteSet(ClaimingFrom(i))
BY Finite DEF Typed, Claiming, Retiring, HeldFrom, ClaimingFrom

\* A place is taken only while there is one; the search starts at the first
\* slot, where the bound of SearchFits is the size of the pool.
LEMMA TakePlaceStep ==
    ASSUME Inv, ~freedBusy, NEW a \in Actors, TakePlace(a)
    PROVE  Pool'
<1> USE DEF Inv, Pool
<1>1. CASE ~(initialized /\ seen[a] > active /\ active < WorkerCount)
  <2>1. UNCHANGED poolView
    BY <1>1 DEF TakePlace, poolView
  <2>2. pc[a] = "place" /\ \E l \in {"submit", "stopping", "clear"} : Goto(a, l)
    BY <1>1 DEF TakePlace, AfterReserve
  <2>3. QED
    BY <2>1, <2>2, MoveQuietly, FramePool
<1>2. CASE initialized /\ seen[a] > active /\ active < WorkerCount
  <2>1. /\ active' = active + 1
        /\ pos' = [pos EXCEPT ![a] = 1]
        /\ pc' = [pc EXCEPT ![a] = "claim"]
        /\ pc[a] = "place"
        /\ UNCHANGED <<claimed, initialized, submitted, mine, slotOf>>
    BY <1>2 DEF TakePlace, Goto
  <2>2. /\ Claiming' = Claiming \cup {a} /\ a \notin Claiming
        /\ Retiring' = Retiring /\ AtWork' = AtWork
    BY <2>1 DEF Typed, Claiming, Retiring, AtWork
  <2>3. Cardinality(Claiming') = Cardinality(Claiming) + 1
    BY <2>2, CountedSets, FS_AddElement
  <2>4. NoPoolNoWorkers'
    BY <1>2, <2>1 DEF NoPoolNoWorkers
  <2>5. Places'
    <3>1. /\ Cardinality(claimed') = Cardinality(claimed)
          /\ Cardinality(Retiring') = Cardinality(Retiring)
      BY <2>1, <2>2
    <3>2. /\ Cardinality(claimed) \in Nat /\ Cardinality(Claiming) \in Nat
          /\ Cardinality(Retiring) \in Nat
      BY CountedSets
    <3>3. /\ active = Cardinality(claimed) + Cardinality(Claiming) + Cardinality(Retiring)
          /\ active < WorkerCount /\ active' = active + 1
      BY <1>2, <2>1 DEF Places
    <3>4. /\ active' = Cardinality(claimed') + Cardinality(Claiming')
                          + Cardinality(Retiring')
          /\ active' <= WorkerCount
      BY <2>3, <3>1, <3>2, <3>3
    <3>5. QED
      BY <3>4 DEF Places
  <2>6. SlotsFit'
    BY <2>1, <2>2 DEF SlotsFit
  <2>7. SearchFits'
    <3>1. SUFFICES ASSUME NEW i \in 1 .. WorkerCount + 1
                   PROVE  Cardinality(HeldFrom(i)') + Cardinality(ClaimingFrom(i)')
                            <= WorkerCount + 1 - i
      BY DEF SearchFits
    <3>2. CASE i = 1
      <4>a. HeldFrom(i)' = claimed
        <5>1. \A s \in claimed : s >= i
          BY <3>2 DEF Typed
        <5>2. HeldFrom(i)' = {s \in claimed : s >= i}
          BY <2>1 DEF HeldFrom
        <5>3. QED
          BY <5>1, <5>2
      <4>b. \A b \in Actors : pos'[b] >= 1
        BY <2>1 DEF Typed
      <4>c. ClaimingFrom(i)' = Claiming'
        BY <3>2, <4>b DEF ClaimingFrom, Claiming
      <4>1. HeldFrom(i)' = claimed /\ ClaimingFrom(i)' = Claiming'
        BY <4>a, <4>c
      <4>2. QED
        BY <1>2, <2>3, <3>2, <4>1, CountedSets DEF Places, Typed
    <3>3. CASE i # 1
      <4>1. HeldFrom(i)' = HeldFrom(i) /\ ClaimingFrom(i)' = ClaimingFrom(i)
        BY <2>1, <2>2, <3>3 DEF HeldFrom, ClaimingFrom, Typed, Claiming
      <4>2. QED
        BY <4>1 DEF SearchFits
    <3>4. QED
      BY <3>2, <3>3
  <2>8. QED
    BY <2>4, <2>5, <2>6, <2>7
<1>3. QED
  BY <1>1, <1>2

\* Nobody searches beyond the last slot.
LEMMA SearchEnds ==
    ASSUME Typed, SearchFits
    PROVE  \A a \in Claiming : pos[a] <= WorkerCount
<1>1. SUFFICES ASSUME NEW a \in Claiming, pos[a] > WorkerCount
               PROVE  FALSE
  BY DEF Typed, Claiming
<1>2. DEFINE n == WorkerCount + 1
<1>3. n \in 1 .. WorkerCount + 1 /\ a \in ClaimingFrom(n)
  BY <1>1 DEF ClaimingFrom, Claiming, Typed
<1>4. Cardinality(ClaimingFrom(n)) = 0
  BY <1>3, CountedSets DEF SearchFits
<1>5. QED
  BY <1>3, <1>4, CountedSets, FS_EmptySet

\* The search moves past a held slot, and takes the first that is free.
LEMMA ClaimSlotStep ==
    ASSUME Inv, ~freedBusy, NEW a \in Actors, ClaimSlot(a)
    PROVE  Pool'
<1> USE DEF Inv, Pool
<1>1. a \in Claiming /\ pos[a] \in Slots
  <2>1. a \in Claiming
    BY DEF ClaimSlot, Claiming
  <2>2. QED
    BY <2>1, SearchEnds DEF Typed
<1>2. UNCHANGED <<initialized, submitted, slotOf, active>>
  BY <1>1 DEF ClaimSlot
<1>3. initialized
  BY <1>1 DEF NoPoolNoWorkers
<1>4. CASE pos[a] \in claimed
  <2>1. /\ pos' = [pos EXCEPT ![a] = pos[a] + 1]
        /\ UNCHANGED <<active, claimed, mine, pc>>
    BY <1>1, <1>4 DEF ClaimSlot
  <2>2. Claiming' = Claiming /\ Retiring' = Retiring /\ AtWork' = AtWork
    BY <2>1, <1>2 DEF Claiming, Retiring, AtWork
  <2>3. NoPoolNoWorkers' /\ Places' /\ SlotsFit'
    BY <1>2, <1>3, <2>1, <2>2 DEF NoPoolNoWorkers, Places, SlotsFit
  <2>4. SUFFICES ASSUME NEW i \in 1 .. WorkerCount + 1
                 PROVE  Cardinality(HeldFrom(i)') + Cardinality(ClaimingFrom(i)')
                            <= WorkerCount + 1 - i
    BY <2>3 DEF SearchFits
  <2>5. HeldFrom(i)' = HeldFrom(i)
    BY <2>1 DEF HeldFrom
  <2>6. CASE i # pos[a] + 1
    <3>1. \A b \in Claiming : pos'[b] >= i <=> pos[b] >= i
      BY <1>1, <2>1, <2>6 DEF Typed, Claiming
    <3>2. ClaimingFrom(i)' = ClaimingFrom(i)
      BY <2>2, <3>1 DEF ClaimingFrom
    <3>3. QED
      BY <2>5, <3>2 DEF SearchFits
  <2>7. CASE i = pos[a] + 1
    <3> DEFINE k == pos[a]
    <3>1. k \in 1 .. WorkerCount + 1 /\ k \in Int /\ i = k + 1
      BY <1>1, <2>7
    <3>2. HeldFrom(i) = HeldFrom(k) \ {k} /\ k \in HeldFrom(k)
      <4>1. \A s \in claimed : s >= i <=> s >= k /\ s # k
        BY <3>1 DEF Typed
      <4>2. k \in claimed /\ k >= k
        BY <1>4, <3>1
      <4>3. QED
        BY <4>1, <4>2 DEF HeldFrom
    <3>3. Cardinality(HeldFrom(i)) = Cardinality(HeldFrom(k)) - 1
      BY <3>1, <3>2, CountedSets, FS_RemoveElement
    <3>4. ClaimingFrom(i)' \subseteq ClaimingFrom(k)
      <4>1. \A b \in Claiming : pos'[b] >= i => pos[b] >= k
        BY <1>1, <2>1, <3>1 DEF Typed, Claiming
      <4>2. QED
        BY <2>2, <4>1 DEF ClaimingFrom
    <3>5. /\ Cardinality(ClaimingFrom(i)') <= Cardinality(ClaimingFrom(k))
          /\ Cardinality(ClaimingFrom(i)') \in Nat
      BY <3>1, <3>4, CountedSets, FS_Subset, FS_CardinalityType
    <3>6. Cardinality(HeldFrom(k)) + Cardinality(ClaimingFrom(k))
            <= WorkerCount + 1 - k
      BY <3>1 DEF SearchFits
    <3>7. /\ Cardinality(HeldFrom(k)) \in Nat /\ Cardinality(ClaimingFrom(k)) \in Nat
      BY <3>1, CountedSets
    <3>8. QED
      BY <2>5, <3>1, <3>3, <3>5, <3>6, <3>7
  <2>8. QED
    BY <2>6, <2>7
<1>5. CASE pos[a] \notin claimed
  <2> DEFINE k == pos[a]
  <2>1. /\ claimed' = claimed \cup {k}
        /\ mine' = [mine EXCEPT ![a] = mine[a] \cup {k}]
        /\ pc' = [pc EXCEPT ![a] = "pending"]
        /\ UNCHANGED <<active, pos>>
    BY <1>1, <1>5 DEF ClaimSlot, Goto
  <2>2. /\ Claiming' = Claiming \ {a}
        /\ Retiring' = Retiring /\ AtWork' = AtWork
    BY <1>1, <2>1 DEF Typed, Claiming, Retiring, AtWork
  <2>3. /\ Cardinality(claimed') = Cardinality(claimed) + 1
        /\ Cardinality(Claiming') = Cardinality(Claiming) - 1
    BY <1>1, <1>5, <2>1, <2>2, CountedSets, FS_AddElement, FS_RemoveElement
  <2>4. NoPoolNoWorkers'
    BY <1>2, <1>3 DEF NoPoolNoWorkers
  <2>5. Places'
    BY <1>2, <2>2, <2>3, CountedSets DEF Places, Typed
  <2>6. SlotsFit'
    <3>1. /\ \A b \in Actors : k \notin mine[b]
          /\ k \notin submitted
          /\ \A t \in AtWork : slotOf[t] # k
      BY <1>1, <1>5 DEF SlotsFit
    <3>2. \A b \in Actors : mine'[b] = IF b = a THEN mine[b] \cup {k} ELSE mine[b]
      BY <2>1 DEF Typed
    <3>3. \A s \in Slots :
            s \in claimed' <=> \/ \E b \in Actors : s \in mine'[b]
                               \/ s \in submitted'
                               \/ \E t \in AtWork' : slotOf'[t] = s
      BY <1>2, <2>1, <2>2, <3>2 DEF SlotsFit
    <3>4. /\ \A b, c \in Actors : b # c => mine'[b] \cap mine'[c] = {}
          /\ \A b \in Actors : mine'[b] \cap submitted' = {}
      <4>1. ASSUME NEW b \in Actors, NEW c \in Actors, b # c
            PROVE  mine'[b] \cap mine'[c] = {}
        <5>1. mine[b] \cap mine[c] = {} /\ k \notin mine[b] /\ k \notin mine[c]
          BY <3>1, <4>1 DEF SlotsFit
        <5>2. QED
          BY <3>2, <4>1, <5>1
      <4>2. ASSUME NEW b \in Actors
            PROVE  mine'[b] \cap submitted' = {}
        <5>1. mine[b] \cap submitted = {} /\ k \notin submitted
          BY <3>1 DEF SlotsFit
        <5>2. QED
          BY <1>2, <3>2, <5>1
      <4>3. QED
        BY <4>1, <4>2
    <3>5. \A t \in AtWork' :
            /\ slotOf'[t] \notin submitted'
            /\ \A b \in Actors : slotOf'[t] \notin mine'[b]
            /\ \A u \in AtWork' : slotOf'[t] = slotOf'[u] => t = u
      <4>1. ASSUME NEW t \in AtWork, NEW b \in Actors
            PROVE  slotOf[t] \notin mine'[b]
        <5>1. slotOf[t] \notin mine[b] /\ slotOf[t] # k
          BY <3>1 DEF SlotsFit
        <5>2. QED
          BY <3>2, <5>1
      <4>2. QED
        BY <1>2, <2>2, <4>1 DEF SlotsFit
    <3>6. QED
      BY <3>3, <3>4, <3>5 DEF SlotsFit
  <2>7. SUFFICES ASSUME NEW i \in 1 .. WorkerCount + 1
                 PROVE  Cardinality(HeldFrom(i)') + Cardinality(ClaimingFrom(i)')
                            <= WorkerCount + 1 - i
    BY <2>4, <2>5, <2>6 DEF SearchFits
  <2>8. CASE i <= k
    <3>1. HeldFrom(i)' = HeldFrom(i) \cup {k} /\ k \notin HeldFrom(i)
      BY <1>5, <2>1, <2>8 DEF HeldFrom
    <3>2. ClaimingFrom(i)' = ClaimingFrom(i) \ {a} /\ a \in ClaimingFrom(i)
      BY <1>1, <2>1, <2>2, <2>8 DEF ClaimingFrom
    <3>3. /\ Cardinality(HeldFrom(i)') = Cardinality(HeldFrom(i)) + 1
          /\ Cardinality(ClaimingFrom(i)') = Cardinality(ClaimingFrom(i)) - 1
      <4>1. IsFiniteSet(HeldFrom(i)) /\ IsFiniteSet(ClaimingFrom(i))
        BY CountedSets
      <4>2. Cardinality(HeldFrom(i)') = Cardinality(HeldFrom(i)) + 1
        BY <3>1, <4>1, FS_AddElement
      <4>3. Cardinality(ClaimingFrom(i)') = Cardinality(ClaimingFrom(i)) - 1
        BY <3>2, <4>1, FS_RemoveElement
      <4>4. QED
        BY <4>2, <4>3
    <3>4. QED
      BY <3>3, CountedSets DEF SearchFits
  <2>9. CASE ~(i <= k)
    <3>1. HeldFrom(i)' = HeldFrom(i)
      BY <2>1, <2>9 DEF HeldFrom
    <3>2. ClaimingFrom(i)' = ClaimingFrom(i)
      BY <1>1, <2>1, <2>2, <2>9 DEF ClaimingFrom
    <3>3. QED
      BY <3>1, <3>2 DEF SearchFits
  <2>10. QED
    BY <2>8, <2>9
<1>6. QED
  BY <1>4, <1>5

\* A slot given up or handed on leaves the others alone; the bound of SearchFits
\* only gains by fewer slots held.
LEMMA FewerHeld ==
    ASSUME Typed, SearchFits, claimed' \subseteq claimed,
           Claiming' = Claiming, UNCHANGED pos
    PROVE  SearchFits'
<1>1. SUFFICES ASSUME NEW i \in 1 .. WorkerCount + 1
               PROVE  Cardinality(HeldFrom(i)') + Cardinality(ClaimingFrom(i)')
                          <= WorkerCount + 1 - i
  BY DEF SearchFits
<1>2. ClaimingFrom(i)' = ClaimingFrom(i) /\ HeldFrom(i)' \subseteq HeldFrom(i)
  BY DEF ClaimingFrom, HeldFrom
<1>3. Cardinality(HeldFrom(i)') <= Cardinality(HeldFrom(i))
      /\ Cardinality(HeldFrom(i)') \in Nat
  BY <1>2, CountedSets, FS_Subset, FS_CardinalityType
<1>4. QED
  BY <1>2, <1>3, CountedSets DEF SearchFits

LEMMA SubmitStep ==
    ASSUME Inv, ~freedBusy, NEW a \in Actors, Submit(a)
    PROVE  Pool'
<1> USE DEF Inv, Pool
<1>1. CASE mine[a] = {}
  <2>1. UNCHANGED poolView /\ pc[a] = "submit" /\ Goto(a, "out")
    BY <1>1 DEF Submit, poolView
  <2>2. QED
    BY <2>1, MoveQuietly, FramePool
<1>2. CASE mine[a] # {}
  <2>1. PICK s \in mine[a] :
            /\ submitted' = submitted \cup {s}
            /\ mine' = [mine EXCEPT ![a] = mine[a] \ {s}]
    BY <1>2 DEF Submit
  <2>2. UNCHANGED <<active, claimed, initialized, slotOf, pos, pc>>
    BY <1>2 DEF Submit
  <2>3. Claiming' = Claiming /\ Retiring' = Retiring /\ AtWork' = AtWork
    BY <2>2 DEF Claiming, Retiring, AtWork
  <2>4. NoPoolNoWorkers' /\ Places'
    BY <2>2, <2>3 DEF NoPoolNoWorkers, Places
  <2>5. SearchFits'
    BY <2>2, <2>3, FewerHeld
  <2>6. \A b \in Actors : mine'[b] = IF b = a THEN mine[b] \ {s} ELSE mine[b]
    BY <2>1 DEF Typed
  <2>7. /\ \A b \in Actors : b # a => s \notin mine[b]
        /\ \A t \in AtWork : slotOf[t] # s
    BY <2>1 DEF SlotsFit
  <2>8. \A x \in Slots :
            x \in claimed' <=> \/ \E b \in Actors : x \in mine'[b]
                               \/ x \in submitted'
                               \/ \E t \in AtWork' : slotOf'[t] = x
    <3>1. SUFFICES ASSUME NEW x \in Slots
                   PROVE  (\E b \in Actors : x \in mine'[b]) \/ x \in submitted'
                       <=> (\E b \in Actors : x \in mine[b]) \/ x \in submitted
      BY <2>2, <2>3 DEF SlotsFit
    <3>2. QED
      BY <2>1, <2>6
  <2>9. /\ \A b, c \in Actors : b # c => mine'[b] \cap mine'[c] = {}
        /\ \A b \in Actors : mine'[b] \cap submitted' = {}
    <3>1. ASSUME NEW b \in Actors, NEW c \in Actors, b # c
          PROVE  mine'[b] \cap mine'[c] = {}
      <4>1. mine[b] \cap mine[c] = {}
        BY <3>1 DEF SlotsFit
      <4>2. QED
        BY <2>6, <4>1
    <3>2. ASSUME NEW b \in Actors
          PROVE  mine'[b] \cap submitted' = {}
      <4>1. mine[b] \cap submitted = {}
        BY DEF SlotsFit
      <4>2. QED
        BY <2>1, <2>6, <2>7, <4>1
    <3>3. QED
      BY <3>1, <3>2
  <2>10. \A t \in AtWork' :
            /\ slotOf'[t] \notin submitted'
            /\ \A b \in Actors : slotOf'[t] \notin mine'[b]
            /\ \A u \in AtWork' : slotOf'[t] = slotOf'[u] => t = u
    <3>1. ASSUME NEW t \in AtWork, NEW b \in Actors
          PROVE  slotOf[t] \notin mine'[b]
      <4>1. slotOf[t] \notin mine[b]
        BY DEF SlotsFit
      <4>2. QED
        BY <2>6, <4>1
    <3>2. QED
      BY <2>1, <2>2, <2>3, <2>7, <3>1 DEF SlotsFit
  <2>11. QED
    BY <2>4, <2>5, <2>8, <2>9, <2>10 DEF SlotsFit
<1>3. QED
  BY <1>1, <1>2

\* The work item leaves the system's queue for the thread that runs it.
LEMMA StartStep ==
    ASSUME Inv, ~freedBusy, NEW t \in Threads, Start(t)
    PROVE  Pool'
<1> USE DEF Inv, Pool
<1>1. PICK s \in submitted : /\ submitted' = submitted \ {s}
                             /\ slotOf' = [slotOf EXCEPT ![t] = s]
  BY DEF Start
<1>2. /\ pc[t] = "out" /\ pc' = [pc EXCEPT ![t] = "look"]
      /\ UNCHANGED <<active, claimed, initialized, mine, pos>>
  BY DEF Start, Goto
<1>3. /\ Claiming' = Claiming /\ Retiring' = Retiring
      /\ AtWork' = AtWork \cup {t} /\ t \notin AtWork
  BY <1>2 DEF Typed, Claiming, Retiring, AtWork
<1>4. NoPoolNoWorkers' /\ Places'
  BY <1>2, <1>3 DEF NoPoolNoWorkers, Places
<1>5. SearchFits'
  BY <1>2, <1>3, FewerHeld
<1>6. /\ \A u \in Threads : slotOf'[u] = IF u = t THEN s ELSE slotOf[u]
      /\ \A u \in AtWork : u # t /\ slotOf[u] # s /\ u \in Threads
      /\ \A a \in Actors : s \notin mine[a]
  <2>1. \A u \in AtWork : u # t /\ slotOf[u] # s /\ u \in Threads
    BY <1>1, <1>3 DEF SlotsFit, AtWork
  <2>2. \A a \in Actors : s \notin mine[a]
    BY <1>1 DEF SlotsFit
  <2>3. QED
    BY <1>1, <2>1, <2>2 DEF Typed
<1>7. \A x \in Slots :
          x \in claimed' <=> \/ \E b \in Actors : x \in mine'[b]
                             \/ x \in submitted'
                             \/ \E u \in AtWork' : slotOf'[u] = x
  <2>1. SUFFICES ASSUME NEW x \in Slots
                 PROVE  x \in submitted' \/ (\E u \in AtWork' : slotOf'[u] = x)
                    <=> x \in submitted \/ (\E u \in AtWork : slotOf[u] = x)
    BY <1>2 DEF SlotsFit
  <2>2. QED
    BY <1>1, <1>3, <1>6
<1>8. /\ \A b, c \in Actors : b # c => mine'[b] \cap mine'[c] = {}
      /\ \A b \in Actors : mine'[b] \cap submitted' = {}
  BY <1>1, <1>2 DEF SlotsFit
<1>9. \A u \in AtWork' :
          /\ slotOf'[u] \notin submitted'
          /\ \A b \in Actors : slotOf'[u] \notin mine'[b]
          /\ \A v \in AtWork' : slotOf'[u] = slotOf'[v] => u = v
  BY <1>1, <1>2, <1>3, <1>6 DEF SlotsFit
<1>10. QED
  BY <1>4, <1>5, <1>7, <1>8, <1>9 DEF SlotsFit

\* A worker that leaves gives up its own slot: nobody else has it.
LEMMA ReleaseStep ==
    ASSUME Inv, ~freedBusy, NEW t \in Threads, Release(t)
    PROVE  Pool'
<1> USE DEF Inv, Pool
<1> DEFINE s == slotOf[t]
<1>1. t \in AtWork /\ s \in Slots /\ s \in claimed
  <2>1. t \in AtWork
    BY DEF Release, AtWork
  <2>2. QED
    BY <2>1 DEF SlotsFit, Typed
<1>2. /\ claimed' = claimed \ {s}
      /\ pc' = [pc EXCEPT ![t] = "retire"] /\ pc[t] = "release"
      /\ UNCHANGED <<active, initialized, submitted, mine, slotOf, pos>>
  BY <1>1 DEF Release, Goto
<1>3. /\ Claiming' = Claiming
      /\ Retiring' = Retiring \cup {t} /\ t \notin Retiring
      /\ AtWork' = AtWork \ {t}
  BY <1>2 DEF Typed, Claiming, Retiring, AtWork
<1>4. initialized
  BY <1>1 DEF NoPoolNoWorkers
<1>5. NoPoolNoWorkers'
  BY <1>2, <1>4 DEF NoPoolNoWorkers
<1>6. Places'
  <2>1. Cardinality(claimed') = Cardinality(claimed) - 1
    BY <1>1, <1>2, CountedSets, FS_RemoveElement
  <2>2. Cardinality(Retiring') = Cardinality(Retiring) + 1
    BY <1>3, CountedSets, FS_AddElement
  <2>3. QED
    BY <1>2, <1>3, <2>1, <2>2, CountedSets DEF Places
<1>7. SearchFits'
  BY <1>2, <1>3, FewerHeld
<1>8. /\ \A a \in Actors : s \notin mine[a]
      /\ s \notin submitted
      /\ \A u \in AtWork : slotOf[u] = s => u = t
  BY <1>1 DEF SlotsFit
<1>9. \A x \in Slots :
          x \in claimed' <=> \/ \E b \in Actors : x \in mine'[b]
                             \/ x \in submitted'
                             \/ \E u \in AtWork' : slotOf'[u] = x
  BY <1>2, <1>3, <1>8 DEF SlotsFit
<1>10. /\ \A b, c \in Actors : b # c => mine'[b] \cap mine'[c] = {}
       /\ \A b \in Actors : mine'[b] \cap submitted' = {}
       /\ \A u \in AtWork' :
            /\ slotOf'[u] \notin submitted'
            /\ \A b \in Actors : slotOf'[u] \notin mine'[b]
            /\ \A v \in AtWork' : slotOf'[u] = slotOf'[v] => u = v
  BY <1>2, <1>3 DEF SlotsFit
<1>11. QED
  BY <1>5, <1>6, <1>7, <1>9, <1>10 DEF SlotsFit

\* ... and then its place.
LEMMA RetireStep ==
    ASSUME Inv, ~freedBusy, NEW t \in Threads, Retire(t)
    PROVE  Pool'
<1> USE DEF Inv, Pool
<1>1. /\ active' = active - 1
      /\ pc' = [pc EXCEPT ![t] = "again"] /\ pc[t] = "retire"
      /\ UNCHANGED <<claimed, initialized, submitted, mine, slotOf, pos>>
  BY DEF Retire, Goto
<1>2. /\ Claiming' = Claiming /\ AtWork' = AtWork
      /\ Retiring' = Retiring \ {t} /\ t \in Retiring
  BY <1>1 DEF Typed, Claiming, Retiring, AtWork
<1>3. NoPoolNoWorkers' /\ SlotsFit'
  BY <1>1, <1>2 DEF NoPoolNoWorkers, SlotsFit
<1>4. Places'
  <2>1. Cardinality(Retiring') = Cardinality(Retiring) - 1
    BY <1>2, CountedSets, FS_RemoveElement
  <2>2. /\ Cardinality(claimed') = Cardinality(claimed)
        /\ Cardinality(Claiming') = Cardinality(Claiming)
    BY <1>1, <1>2
  <2>3. /\ Cardinality(claimed) \in Nat /\ Cardinality(Claiming) \in Nat
        /\ Cardinality(Retiring) \in Nat
    BY CountedSets
  <2>4. /\ active = Cardinality(claimed) + Cardinality(Claiming) + Cardinality(Retiring)
        /\ active <= WorkerCount /\ active' = active - 1
    BY <1>1 DEF Places
  <2>5. /\ active' = Cardinality(claimed') + Cardinality(Claiming')
                        + Cardinality(Retiring')
        /\ active' <= WorkerCount
    BY <2>1, <2>2, <2>3, <2>4
  <2>6. QED
    BY <2>5 DEF Places
<1>5. SearchFits'
  BY <1>1, <1>2, FewerHeld
<1>6. QED
  BY <1>3, <1>4, <1>5

\* A pool without workers, before it is set up and after its work items are
\* freed.
LEMMA EmptyPool ==
    ASSUME Typed, SearchFits, SlotsFit, claimed = {}, Claiming = {}, Retiring = {},
           claimed' = {}, active' = 0, UNCHANGED <<submitted, mine, slotOf, pos, pc>>
    PROVE  Pool'
<1>1. Claiming' = {} /\ Retiring' = {} /\ AtWork' = AtWork
  BY DEF Claiming, Retiring, AtWork
<1>2. NoPoolNoWorkers'
  BY <1>1 DEF NoPoolNoWorkers
<1>3. Places'
  BY <1>1, FS_EmptySet DEF Places
<1>4. SlotsFit'
  BY <1>1 DEF SlotsFit
<1>5. SearchFits'
  BY <1>1, FewerHeld
<1>6. QED
  BY <1>2, <1>3, <1>4, <1>5 DEF Pool

LEMMA RegisterStep ==
    ASSUME Inv, ~freedBusy, Register
    PROVE  Pool'
<1> USE DEF Inv, Pool
<1>1. UNCHANGED <<submitted, mine, slotOf, pos, pc>>
  BY DEF Register
<1>2. CASE initialized
  <2>1. UNCHANGED poolView
    BY <1>1, <1>2 DEF Register, InitPool, poolView
  <2>2. QED
    BY <1>1, <2>1, FramePool DEF Claiming, Retiring, AtWork
<1>3. CASE ~initialized
  <2>1. claimed = {} /\ Claiming = {} /\ Retiring = {}
    BY <1>3 DEF NoPoolNoWorkers
  <2>2. claimed' = {} /\ active' = 0
    BY <1>3 DEF Register, InitPool
  <2>3. QED
    BY <1>1, <2>1, <2>2, EmptyPool
<1>4. QED
  BY <1>2, <1>3

LEMMA FreeStep ==
    ASSUME Inv, ~freedBusy, FreeWorkItems, ~freedBusy'
    PROVE  Pool'
<1>1. claimed = {} /\ Claiming = {} /\ Retiring = {}
  BY DEF FreeWorkItems, Busy, Claiming, Retiring
<1>2. /\ claimed' = {} /\ active' = 0
      /\ UNCHANGED <<submitted, mine, slotOf, pos, pc>>
  BY DEF FreeWorkItems
<1>3. QED
  BY <1>1, <1>2, EmptyPool DEF Inv, Pool

-----------------------------------------------------------------------------
(* Types.                                                                  *)

\* The program counters a thread may have.
PcValues == Reserving \cup {"out", "depth", "insert", "look", "process", "release",
             "retire", "again", "more", "stopping", "discard", "idle", "empty",
             "signal"}

LEMMA GotoTyped ==
    ASSUME Typed, NEW a \in Actors, NEW l \in PcValues, Goto(a, l)
    PROVE  pc' \in [Actors -> PcValues]
BY DEF Typed, Goto, PcValues

\* A function keeps its type when one of its values is replaced by one of the
\* range.
LEMMA Updated ==
    ASSUME NEW D, NEW R, NEW f \in [D -> R], NEW a, NEW v \in R
    PROVE  [f EXCEPT ![a] = v] \in [D -> R]
OBVIOUS

LEMMA ReserveTyped ==
    ASSUME Inv, ~freedBusy, NEW a \in Actors, Reserve(a)
    PROVE  Typed'
<1> USE DEF Inv, Typed
<1>a. UNCHANGED toScan
  BY DEF Reserve, ReadPending, TakePlace, ClaimSlot, ClearIdle, Submit
<1>1. pc' \in [Actors -> PcValues]
  <2>1. UNCHANGED pc \/ \E l \in PcValues : Goto(a, l)
    BY DEF Reserve, ReadPending, TakePlace, ClaimSlot, ClearIdle, Submit,
           AfterReserve, PcValues, Reserving
  <2>2. QED
    BY <2>1, GotoTyped DEF PcValues
<1>2. CASE ReadPending(a)
  BY <1>a, <1>1, <1>2 DEF ReadPending, PcValues
<1>3. CASE TakePlace(a)
  <2>1. 1 \in 1 .. WorkerCount + 1
    OBVIOUS
  <2>2. \/ UNCHANGED <<pos, active>>
        \/ pos' = [pos EXCEPT ![a] = 1] /\ active' = active + 1
    BY <1>3 DEF TakePlace
  <2>a. pos' \in [Actors -> 1 .. WorkerCount + 1] /\ active' \in Int
    <3>1. pos \in [Actors -> 1 .. WorkerCount + 1] /\ active \in Int
      OBVIOUS
    <3> HIDE DEF Inv, Typed, Actors
    <3>2. [pos EXCEPT ![a] = 1] \in [Actors -> 1 .. WorkerCount + 1]
      BY <2>1, <3>1, Updated
    <3>3. pos' \in [Actors -> 1 .. WorkerCount + 1]
      BY <2>2, <3>1, <3>2
    <3>4. active' \in Int
      BY <2>2, <3>1
    <3>5. QED
      BY <3>3, <3>4
  <2>b. UNCHANGED <<list, itemCount, claimed, initialized, submitted, hand, seen,
                    mine, slotOf, freedBusy>>
    BY <1>3 DEF TakePlace
  <2>3. QED
    BY <1>a, <1>1, <2>a, <2>b DEF PcValues
<1>4. CASE ClaimSlot(a)
  <2>1. a \in Claiming
    BY <1>4 DEF ClaimSlot, Claiming
  <2>2. pos[a] \in Slots
    BY <2>1, SearchEnds DEF Pool
  <2>3. UNCHANGED <<list, itemCount, active, initialized, submitted, hand, seen,
                    slotOf, freedBusy>>
    BY <1>4, <2>2 DEF ClaimSlot
  <2>4. pos' \in [Actors -> 1 .. WorkerCount + 1]
    <3>1. pos[a] + 1 \in 1 .. WorkerCount + 1
      BY <2>2
    <3>2. UNCHANGED pos \/ pos' = [pos EXCEPT ![a] = pos[a] + 1]
      BY <1>4, <2>2 DEF ClaimSlot
    <3>3. QED
      BY <3>1, <3>2
  <2>5. claimed' \subseteq Slots /\ mine' \in [Actors -> SUBSET Slots]
    <3>1. \/ UNCHANGED <<claimed, mine>>
          \/ /\ claimed' = claimed \cup {pos[a]}
             /\ mine' = [mine EXCEPT ![a] = mine[a] \cup {pos[a]}]
      BY <1>4, <2>2 DEF ClaimSlot
    <3>2. /\ mine \in [Actors -> SUBSET Slots] /\ claimed \subseteq Slots
          /\ mine[a] \cup {pos[a]} \in SUBSET Slots
          /\ claimed \cup {pos[a]} \subseteq Slots
      BY <2>2
    <3> HIDE DEF Inv, Typed, Actors, Slots
    <3>3. [mine EXCEPT ![a] = mine[a] \cup {pos[a]}] \in [Actors -> SUBSET Slots]
      BY <3>2, Updated
    <3>4. QED
      BY <3>1, <3>2, <3>3
  <2>6. QED
    BY <1>a, <1>1, <2>3, <2>4, <2>5 DEF PcValues
<1>5. CASE ClearIdle(a)
  BY <1>a, <1>1, <1>5 DEF ClearIdle, PcValues
<1>6. CASE Submit(a)
  <2>1. UNCHANGED <<list, itemCount, active, claimed, initialized, hand, seen, pos,
                    slotOf, freedBusy>>
    BY <1>6 DEF Submit
  <2>2. submitted' \subseteq Slots /\ mine' \in [Actors -> SUBSET Slots]
    <3>1. \/ UNCHANGED <<submitted, mine>>
          \/ \E s \in mine[a] : /\ submitted' = submitted \cup {s}
                                /\ mine' = [mine EXCEPT ![a] = mine[a] \ {s}]
      BY <1>6 DEF Submit
    <3>2. /\ mine \in [Actors -> SUBSET Slots] /\ submitted \subseteq Slots
          /\ mine[a] \in SUBSET Slots
      OBVIOUS
    <3> HIDE DEF Inv, Typed, Actors, Slots
    <3>3. CASE UNCHANGED <<submitted, mine>>
      BY <3>2, <3>3
    <3>4. ASSUME NEW s \in mine[a],
                 submitted' = submitted \cup {s},
                 mine' = [mine EXCEPT ![a] = mine[a] \ {s}]
          PROVE  submitted' \subseteq Slots /\ mine' \in [Actors -> SUBSET Slots]
      <4>1. mine[a] \ {s} \in SUBSET Slots /\ submitted \cup {s} \subseteq Slots
        BY <3>2
      <4>2. [mine EXCEPT ![a] = mine[a] \ {s}] \in [Actors -> SUBSET Slots]
        BY <3>2, <4>1, Updated
      <4>3. QED
        BY <3>4, <4>1, <4>2
    <3>5. QED
      BY <3>1, <3>3, <3>4
  <2>3. QED
    BY <1>a, <1>1, <2>1, <2>2 DEF PcValues
<1>7. QED
  BY <1>2, <1>3, <1>4, <1>5, <1>6 DEF Reserve

LEMMA ProducerTyped ==
    ASSUME Inv, ~freedBusy, NEW p \in Producers, QuietProducer(p)
    PROVE  Typed'
<1> USE DEF Inv, Typed
<1>1. pc' \in [Actors -> PcValues]
  <2>1. UNCHANGED pc \/ \E l \in PcValues : Goto(p, l)
    BY DEF QuietProducer, Notify, CheckDepth, Insert, PcValues, Reserving
  <2>2. QED
    BY <2>1, GotoTyped DEF PcValues
<1>2. UNCHANGED <<active, claimed, initialized, submitted, seen, pos, mine, slotOf,
                  toScan, freedBusy>>
  BY DEF QuietProducer, Notify, CheckDepth, Insert
<1>3. hand' \in [Actors -> Items \cup {NoItem}]
  BY DEF QuietProducer, Notify, CheckDepth, Insert, Take, Drop
<1>4. itemCount' \in Int
  BY DEF QuietProducer, Notify, CheckDepth, Insert
<1>5. list' \in [Queues -> Seq(Items \cup {NoItem})]
  <2>1. \/ UNCHANGED list
        \/ \E q \in Queues : list' = [list EXCEPT ![q] = Append(list[q], hand[p])]
    BY DEF QuietProducer, Notify, CheckDepth, Insert
  <2>2. \A q \in Queues : Append(list[q], hand[p]) \in Seq(Items \cup {NoItem})
    OBVIOUS
  <2>3. QED
    BY <2>1, <2>2
<1>6. QED
  BY <1>1, <1>2, <1>3, <1>4, <1>5 DEF PcValues

LEMMA WorkerTyped ==
    ASSUME Inv, ~freedBusy, NEW t \in Threads,
           Start(t) \/ Release(t) \/ Retire(t) \/ QuietWorker(t)
    PROVE  Typed'
<1> USE DEF Inv, Typed
<1>1. pc' \in [Actors -> PcValues]
  <2>1. UNCHANGED pc \/ \E l \in PcValues : Goto(t, l)
    BY DEF Start, Release, Retire, QuietWorker, Look, Process, Decide,
           StillAccepting, MoreItems, NotAccepting, Discard, NobodyActive,
           NothingLeft, SignalIdle, PcValues, Reserving
  <2>2. QED
    BY <2>1, GotoTyped DEF PcValues
<1>a. toScan' \in [Threads -> SUBSET Queues]
  <2>1. \/ UNCHANGED toScan
        \/ \E Q \in SUBSET Queues : toScan' = [toScan EXCEPT ![t] = Q]
    <3>1. \A q : toScan[t] \ {q} \in SUBSET Queues
      OBVIOUS
    <3>2. CASE Start(t) \/ Release(t) \/ Retire(t) \/ Process(t)
      BY <3>2 DEF Start, Release, Retire, Process
    <3>3. CASE Look(t) \/ Discard(t)
      BY <3>1, <3>3 DEF Look, Discard
    <3>4. CASE \/ StillAccepting(t) \/ MoreItems(t) \/ NotAccepting(t)
              \/ NobodyActive(t) \/ NothingLeft(t) \/ SignalIdle(t)
      BY <3>4 DEF StillAccepting, MoreItems, NotAccepting, NobodyActive,
                  NothingLeft, SignalIdle
    <3>5. QED
      BY <3>2, <3>3, <3>4 DEF QuietWorker
  <2>2. QED
    BY <2>1
<1>2. CASE Start(t) \/ Release(t) \/ Retire(t)
  <2>1. UNCHANGED <<list, itemCount, initialized, hand, seen, pos, mine, freedBusy>>
    BY <1>2 DEF Start, Release, Retire
  <2>2. active' \in Int
    BY <1>2 DEF Start, Release, Retire
  <2>3. claimed' \subseteq Slots /\ submitted' \subseteq Slots
    BY <1>2 DEF Start, Release, Retire
  <2>4. slotOf' \in [Threads -> Slots]
    BY <1>2 DEF Start, Release, Retire
  <2>5. QED
    BY <1>a, <1>1, <2>1, <2>2, <2>3, <2>4 DEF PcValues
<1>3. CASE QuietWorker(t)
  <2>1. UNCHANGED <<active, claimed, initialized, submitted, seen, pos, mine, slotOf,
                    freedBusy>>
    BY <1>3 DEF QuietWorker, Look, Process, Decide, StillAccepting, MoreItems,
                NotAccepting, Discard, NobodyActive, NothingLeft, SignalIdle
  <2>5. \A q \in Queues :
            /\ Len(list[q]) \in Int
            /\ <<>> \in Seq(Items \cup {NoItem})
            /\ list[q] # <<>> => /\ Tail(list[q]) \in Seq(Items \cup {NoItem})
                                 /\ Head(list[q]) \in Items \cup {NoItem}
    OBVIOUS
  <2>6. CASE Look(t)
    <3>1. UNCHANGED itemCount
      BY <2>6 DEF Look
    <3>2. \/ UNCHANGED <<list, hand>>
          \/ \E q \in Queues : /\ list[q] # <<>>
                               /\ list' = [list EXCEPT ![q] = Tail(list[q])]
                               /\ hand' = [hand EXCEPT ![t] = Head(list[q])]
      <4>1. CASE toScan[t] = {}
        BY <2>6, <4>1 DEF Look
      <4>2. CASE toScan[t] # {}
        <5>1. PICK q \in toScan[t] :
                IF list[q] = <<>>
                THEN UNCHANGED <<list, hand>>
                ELSE /\ list' = [list EXCEPT ![q] = Tail(list[q])]
                     /\ Take(t, Head(list[q]))
          BY <2>6, <4>2 DEF Look
        <5>2. q \in Queues
          BY <5>1
        <5>3. QED
          BY <5>1, <5>2 DEF Take
      <4>3. QED
        BY <4>1, <4>2
    <3>3. CASE UNCHANGED <<list, hand>>
      BY <1>a, <1>1, <2>1, <3>1, <3>3 DEF PcValues
    <3>4. ASSUME NEW q \in Queues, list[q] # <<>>,
                 list' = [list EXCEPT ![q] = Tail(list[q])],
                 hand' = [hand EXCEPT ![t] = Head(list[q])]
          PROVE  Typed'
      <4>1. /\ list' \in [Queues -> Seq(Items \cup {NoItem})]
            /\ hand' \in [Actors -> Items \cup {NoItem}]
        BY <2>5, <3>4
      <4>2. QED
        BY <1>a, <1>1, <2>1, <3>1, <4>1 DEF PcValues
    <3>5. QED
      BY <3>2, <3>3, <3>4
  <2>7. CASE Process(t)
    <3>1. /\ itemCount' = itemCount - 1 /\ UNCHANGED list
          /\ hand' = [hand EXCEPT ![t] = NoItem]
      BY <2>7 DEF Process, Drop
    <3>2. QED
      BY <1>a, <1>1, <2>1, <3>1 DEF PcValues
  <2>8. CASE Discard(t)
    <3>1. UNCHANGED hand
      BY <2>8 DEF Discard
    <3>2. CASE toScan[t] = {}
      <4>1. UNCHANGED <<list, itemCount>>
        BY <2>8, <3>2 DEF Discard
      <4>2. QED
        BY <1>a, <1>1, <2>1, <3>1, <4>1 DEF PcValues
    <3>3. CASE toScan[t] # {}
      <4>1. PICK q \in toScan[t] : /\ list' = [list EXCEPT ![q] = <<>>]
                                   /\ itemCount' = itemCount - Len(list[q])
        BY <2>8, <3>3 DEF Discard
      <4>2. q \in Queues
        BY <4>1
      <4>3. list' \in [Queues -> Seq(Items \cup {NoItem})]
        BY <2>5, <4>1, <4>2
      <4>4. itemCount' \in Int
        BY <2>5, <4>1, <4>2
      <4>5. QED
        BY <1>a, <1>1, <2>1, <3>1, <4>3, <4>4 DEF PcValues
    <3>4. QED
      BY <3>2, <3>3
  <2>9. CASE \/ StillAccepting(t) \/ MoreItems(t) \/ NotAccepting(t)
            \/ NobodyActive(t) \/ NothingLeft(t) \/ SignalIdle(t)
    <3>1. UNCHANGED <<list, itemCount, hand>>
      BY <2>9 DEF Decide, StillAccepting, MoreItems, NotAccepting, NobodyActive,
                  NothingLeft, SignalIdle
    <3>2. QED
      BY <1>a, <1>1, <2>1, <3>1 DEF PcValues
  <2>10. QED
    BY <1>3, <2>6, <2>7, <2>8, <2>9 DEF QuietWorker
<1>4. QED
  BY <1>2, <1>3

LEMMA RegistrationTyped ==
    ASSUME Inv, ~freedBusy, Registration
    PROVE  Typed'
<1> USE DEF Inv, Typed
<1>1. UNCHANGED <<submitted, pc, seen, pos, mine, slotOf, toScan, hand>>
  BY DEF Registration, Register, Unregister, StopAccepting, Cleanup, CleanupTest,
         AnyActive, AnyItems, WaitIdle, DrainLists, FreeWorkItems
<1>2. /\ \/ UNCHANGED <<itemCount, active, claimed>>
         \/ itemCount' = 0 /\ active' = 0 /\ claimed' = {}
      /\ initialized' \in BOOLEAN
  BY DEF Registration, Register, InitPool, Unregister, StopAccepting, Cleanup,
         CleanupTest, AnyActive, AnyItems, WaitIdle, DrainLists, FreeWorkItems
<1>3. freedBusy' \in BOOLEAN
  BY DEF Registration, Register, Unregister, StopAccepting, Cleanup, CleanupTest,
         AnyActive, AnyItems, WaitIdle, DrainLists, FreeWorkItems, Busy
<1>4. list' \in [Queues -> Seq(Items \cup {NoItem})]
  <2>1. UNCHANGED list \/ \E q \in Queues : list' = [list EXCEPT ![q] = <<>>]
    BY DEF Registration, Register, Unregister, StopAccepting, Cleanup, CleanupTest,
           AnyActive, AnyItems, WaitIdle, DrainLists, FreeWorkItems
  <2>2. <<>> \in Seq(Items \cup {NoItem})
    OBVIOUS
  <2>3. QED
    BY <2>1, <2>2
<1>5. itemCount' \in Int /\ active' \in Int /\ claimed' \subseteq Slots
  <2>1. itemCount \in Int /\ active \in Int /\ claimed \subseteq Slots
    OBVIOUS
  <2> HIDE DEF Inv, Typed, Slots
  <2>2. CASE UNCHANGED <<itemCount, active, claimed>>
    BY <2>1, <2>2
  <2>3. CASE itemCount' = 0 /\ active' = 0 /\ claimed' = {}
    BY <2>3
  <2>4. QED
    BY <1>2, <2>2, <2>3
<1>6. QED
  BY <1>1, <1>2, <1>3, <1>4, <1>5

-----------------------------------------------------------------------------
LEMMA InvStep == Inv /\ [Next]_vars => Inv'
<1> SUFFICES ASSUME Inv, [Next]_vars PROVE Inv'
  OBVIOUS
<1>1. CASE UNCHANGED vars
  <2>1. Typed'
    BY <1>1 DEF Inv, Typed
  <2>2. Claiming' = Claiming /\ Retiring' = Retiring /\ AtWork' = AtWork
        /\ UNCHANGED poolView /\ UNCHANGED freedBusy
    BY <1>1 DEF Claiming, Retiring, AtWork, poolView
  <2>3. QED
    BY <2>1, <2>2, FramePool DEF Inv
<1>2. CASE Next
  <2>1. ~freedBusy
    BY <1>2 DEF Next
  <2>2. ASSUME NEW p \in Producers, Callback(p)
        PROVE  Inv'
    <3>1. QuietProducer(p) \/ Reserve(p)
      BY <2>2 DEF Callback, QuietProducer
    <3>2. Typed'
      BY <2>1, <3>1, ProducerTyped, ReserveTyped
    <3>3. Pool'
      BY <2>1, <3>1, QuietStep, TakePlaceStep, ClaimSlotStep, SubmitStep
         DEF Reserve, QuietReserve
    <3>4. QED
      BY <3>2, <3>3 DEF Inv
  <2>3. ASSUME NEW t \in Threads, Worker(t)
        PROVE  Inv'
    <3>1. \/ QuietWorker(t) \/ Start(t) \/ Release(t) \/ Retire(t)
          \/ Reserve(t)
      BY <2>3 DEF Worker, QuietWorker
    <3>2. Typed'
      BY <2>1, <3>1, WorkerTyped, ReserveTyped
    <3>3. Pool'
      BY <2>1, <3>1, QuietStep, TakePlaceStep, ClaimSlotStep, SubmitStep, StartStep,
         ReleaseStep, RetireStep DEF Reserve, QuietReserve
    <3>4. QED
      BY <3>2, <3>3 DEF Inv
  <2>4. ASSUME Registration
        PROVE  Inv'
    <3>1. Typed'
      BY <2>1, <2>4, RegistrationTyped
    <3>2. ~freedBusy' => Pool'
      BY <2>1, <2>4, QuietStep, RegisterStep, FreeStep
         DEF Registration, Cleanup, QuietRegistration
    <3>3. QED
      BY <3>1, <3>2 DEF Inv
  <2>5. QED
    BY <1>2, <2>2, <2>3, <2>4 DEF Next
<1>3. QED
  BY <1>1, <1>2

THEOREM InvHolds == Spec => []Inv
BY InitInv, InvStep, PTL DEF Spec

\* However many workers, callbacks and system threads there are, the counter of
\* workers is the number of slots held and of threads on their way to a slot or
\* from one, and stays within the pool.
THEOREM PlacesSafe == Spec => []PlacesAccounted
<1>1. Inv => PlacesAccounted
  BY DEF Inv, Pool, Places, PlacesAccounted
<1>2. QED
  BY <1>1, InvHolds, PTL

\* No work item is submitted while it is submitted or reserved, and no worker
\* gives up a slot that is not its own.
THEOREM SlotsSafe == Spec => []SlotsAccounted
<1>1. Inv => SlotsAccounted
  <2> SUFFICES ASSUME Inv, ~freedBusy PROVE SlotsAccounted
    BY DEF SlotsAccounted
  <2> USE DEF Inv, Pool, SlotsFit
  <2>1. claimed = (UNION {mine[a] : a \in Actors}) \cup submitted
                    \cup {slotOf[t] : t \in AtWork}
    <3>1. /\ claimed \subseteq Slots /\ submitted \subseteq Slots
          /\ \A a \in Actors : mine[a] \subseteq Slots
          /\ \A t \in AtWork : slotOf[t] \in Slots
      BY DEF Typed, AtWork
    <3>2. \A s \in Slots : s \in claimed <=> \/ \E a \in Actors : s \in mine[a]
                                            \/ s \in submitted
                                            \/ \E t \in AtWork : slotOf[t] = s
      OBVIOUS
    <3> HIDE DEF Inv, Pool, SlotsFit, Slots, Actors
    <3> DEFINE Reserved == UNION {mine[a] : a \in Actors}
               Running == {slotOf[t] : t \in AtWork}
    <3>3. \A s : s \in Reserved <=> \E a \in Actors : s \in mine[a]
      OBVIOUS
    <3>4. \A s : s \in Running <=> \E t \in AtWork : slotOf[t] = s
      OBVIOUS
    <3> HIDE DEF Reserved, Running
    <3>5. \A s : s \in claimed <=> s \in Reserved \cup submitted \cup Running
      BY <3>1, <3>2, <3>3, <3>4
    <3>6. claimed = Reserved \cup submitted \cup Running
      BY <3>5
    <3>7. QED
      BY <3>6 DEF Reserved, Running
  <2>2. QED
    BY <2>1 DEF SlotsAccounted
<1>2. QED
  BY <1>1, InvHolds, PTL

\* A thread that wins a place finds a slot, for every size of the pool.
THEOREM ClaimIsSafe == Spec => []ClaimSucceeds
<1>1. Inv => ClaimSucceeds
  BY SearchEnds DEF Inv, Pool, ClaimSucceeds
<1>2. QED
  BY <1>1, InvHolds, PTL

-----------------------------------------------------------------------------
(* The contexts.  A context is on a list exactly as long as it is "queued" *)
(* and in one hand exactly as long as it is "offered" or "running"         *)
(* (FatesFit, HandsFit); the counter follows the lists and the hands of    *)
(* the workers, a step behind only while the cleanup empties the lists     *)
(* (CountFits), when no callback is left to add to them (CallbacksOut).    *)
(* The bound holds because a callback adds at most the context it was let  *)
(* in with (Bounded).                                                      *)

Carries(a) == pc[a] \in (IF a \in Producers THEN {"depth", "insert"} ELSE {"process"})
OnList(i) == \E q \in Queues : i \in ToSet(list[q])

ListsFit ==
    /\ list \in [Queues -> Seq(Items)]
    /\ \A q \in Queues : IsInjective(list[q])
    /\ \A q, r \in Queues : q # r => ToSet(list[q]) \cap ToSet(list[r]) = {}

HandsFit ==
    /\ \A a \in Actors : IF Carries(a) THEN hand[a] \in Items ELSE hand[a] = NoItem
    /\ \A a, b \in Actors : hand[a] = hand[b] => a = b \/ hand[a] = NoItem

FatesFit ==
    /\ fate = [i \in Items |-> fate[i]]
    /\ \A i \in Items : /\ fate[i] = "queued" <=> OnList(i)
                        /\ fate[i] \in {"offered", "running"} <=> \E a \in Actors : hand[a] = i

CountFits ==
    reg \notin {"drain", "free"} => itemCount = Cardinality(Listed) + Cardinality(InHands)

Bounded == itemCount + Cardinality(Inserting) < MaxDepth + Cardinality(Producers)

EmptiedOnce ==
    /\ reg = "free" => Listed = {}
    /\ ~initialized => reg = "down" /\ Listed = {} /\ InHands = {}

CallbacksOut == reg \notin {"up", "remove"} => \A p \in Producers : pc[p] = "out"

ItemsFit ==
    ListsFit /\ HandsFit /\ FatesFit /\ CountFits /\ Bounded /\ EmptiedOnce /\ CallbacksOut

ItemsInv == ~freedBusy => ItemsFit

\* What is on the lists, in the hands of workers and of callbacks can be counted.
LEMMA ItemsCounted ==
    /\ ListsFit =>
         /\ Listed \subseteq Items /\ IsFiniteSet(Listed) /\ Cardinality(Listed) \in Nat
         /\ \A i : i \in Listed <=> OnList(i)
    /\ IsFiniteSet(InHands) /\ Cardinality(InHands) \in Nat
    /\ IsFiniteSet(Inserting) /\ Cardinality(Inserting) \in Nat
    /\ Cardinality(Inserting) <= Cardinality(Producers) /\ Cardinality(Producers) \in Nat
<1>1. ASSUME ListsFit
      PROVE  Listed \subseteq Items /\ \A i : i \in Listed <=> OnList(i)
  <2>1. \A i : i \in Listed <=> OnList(i)
    BY DEF Listed, OnList
  <2>2. ASSUME NEW i, OnList(i) PROVE i \in Items
    <3>1. PICK q \in Queues : i \in ToSet(list[q])
      BY <2>2 DEF OnList
    <3>2. list[q] \in Seq(Items)
      BY <1>1 DEF ListsFit
    <3>3. PICK n \in DOMAIN list[q] : i = list[q][n]
      BY <3>1 DEF ToSet
    <3> QED BY <3>2, <3>3, ElementOfSeq, LenProperties
  <2> QED BY <2>1, <2>2
<1>2. InHands \subseteq Threads /\ Inserting \subseteq Producers
  BY DEF InHands, Inserting
<1> QED BY <1>1, <1>2, FS_Subset, FS_CardinalityType

\* A thread moves; the others stay where they are.
LEMMA ActorMoves ==
    ASSUME Typed, NEW a \in Actors, NEW l, Goto(a, l)
    PROVE  /\ pc'[a] = l /\ \A b \in Actors : b # a => pc'[b] = pc[b] /\ (Carries(b)' <=> Carries(b))
           /\ Carries(a)' <=> l \in (IF a \in Producers THEN {"depth", "insert"} ELSE {"process"})
  BY DEF Typed, Goto, Carries

\* A step that leaves the contexts alone.
LEMMA ItemsStay ==
    ASSUME ItemsFit, UNCHANGED <<list, hand, fate, itemCount>>,
           \A a \in Actors : Carries(a)' <=> Carries(a), Bounded',
           reg' \notin {"drain", "free"} => reg \notin {"drain", "free"},
           reg' = "free" => Listed = {},
           ~initialized' => ~initialized /\ reg' = "down",
           CallbacksOut'
    PROVE  ItemsFit'
<1> USE DEF ItemsFit
<1>1. Listed' = Listed /\ InHands' = InHands /\ \A i : OnList(i)' <=> OnList(i)
  BY DEF Listed, InHands, OnList
<1>2. ListsFit'
  BY DEF ListsFit
<1>3. HandsFit'
  BY DEF HandsFit
<1>4. FatesFit'
  BY <1>1 DEF FatesFit
<1>5. CountFits' /\ EmptiedOnce'
  BY <1>1 DEF CountFits, EmptiedOnce
<1> QED BY <1>2, <1>3, <1>4, <1>5

\* Fewer contexts, and no more callbacks let in.
LEMMA BoundStays ==
    ASSUME Bounded, itemCount \in Int, itemCount' \in Int, itemCount' <= itemCount,
           \A p \in Producers : pc'[p] = "insert" => pc[p] = "insert"
    PROVE  Bounded'
<1>1. Inserting' \subseteq Inserting
  BY DEF Inserting
<1>2. IsFiniteSet(Inserting) /\ Cardinality(Inserting) \in Nat /\ Cardinality(Producers) \in Nat
  BY ItemsCounted
<1>3. Cardinality(Inserting') \in Nat /\ Cardinality(Inserting') <= Cardinality(Inserting)
  BY <1>1, <1>2, FS_Subset, FS_CardinalityType
<1> QED BY <1>2, <1>3 DEF Bounded

\* A thread goes on without taking or leaving a context.
LEMMA ThreadGoesOn ==
    ASSUME Typed, ItemsFit, NEW a \in Actors, NEW l,
           UNCHANGED pc \/ Goto(a, l),
           UNCHANGED <<list, hand, fate, itemCount, reg, initialized>>,
           pc[a] # "out" \/ a \in Threads, l # "insert",
           ~Carries(a), l \notin {"depth", "process"}
    PROVE  ItemsFit'
<1>1. \A b \in Actors : Carries(b)' <=> Carries(b)
  BY ActorMoves DEF Carries
<1>2. \A p \in Producers : pc'[p] = "insert" => pc[p] = "insert"
  BY ActorMoves
<1>3. Bounded'
  BY <1>2, BoundStays DEF ItemsFit, Typed
<1>4. CallbacksOut'
  <2>1. ASSUME reg \notin {"up", "remove"}, NEW p \in Producers PROVE pc'[p] = "out"
    <3>1. pc[p] = "out" /\ (a \in Producers => pc[a] = "out")
      BY <2>1 DEF ItemsFit, CallbacksOut
    <3>2. p # a
      BY <3>1
    <3> QED BY <3>1, <3>2, ActorMoves
  <2> QED BY <2>1 DEF CallbacksOut
<1> QED BY <1>1, <1>3, <1>4, ItemsStay DEF ItemsFit, EmptiedOnce

LEMMA ReserveKeepsItems ==
    ASSUME Typed, ItemsFit, NEW a \in Actors, Reserve(a), UNCHANGED regVars
    PROVE  ItemsFit'
<1>1. PICK l \in {"place", "claim", "clear", "submit", "stopping", "pending", "out"} :
        UNCHANGED pc \/ Goto(a, l)
  BY DEF Reserve, ReadPending, TakePlace, ClaimSlot, ClearIdle, Submit, AfterReserve
<1>2. UNCHANGED <<list, hand, fate, itemCount, reg, initialized>>
  BY DEF Reserve, ReadPending, TakePlace, ClaimSlot, ClearIdle, Submit
<1>3. pc[a] \in {"pending", "place", "claim", "clear", "submit"}
  BY DEF Reserve, ReadPending, TakePlace, ClaimSlot, ClearIdle, Submit
<1>4. ~Carries(a)
  BY <1>3 DEF Carries
<1> QED BY <1>1, <1>2, <1>3, <1>4, ThreadGoesOn

\* The steps of a worker that leave the contexts alone.
LEMMA WorkerKeepsItems ==
    ASSUME Typed, ItemsFit, NEW t \in Threads, UNCHANGED regVars,
           \/ Start(t) \/ Release(t) \/ Retire(t) \/ StillAccepting(t) \/ MoreItems(t)
           \/ NotAccepting(t) \/ NobodyActive(t) \/ NothingLeft(t) \/ SignalIdle(t)
           \/ (Look(t) \/ Discard(t)) /\ UNCHANGED <<list, hand, fate, itemCount>>
    PROVE  ItemsFit'
<1>1. PICK l \in {"look", "retire", "again", "more", "stopping", "pending", "idle", "discard",
                  "empty", "signal", "submit", "release"} :
        UNCHANGED pc \/ Goto(t, l)
  <2>1. CASE Look(t) /\ UNCHANGED list
    <3>1. CASE toScan[t] # {}
      <4>1. PICK q \in toScan[t] :
              IF list[q] = <<>> THEN UNCHANGED pc ELSE list' = [list EXCEPT ![q] = Tail(list[q])]
        BY <2>1, <3>1 DEF Look
      <4>2. q \in Queues /\ list[q] \in Seq(Items)
        BY DEF Typed, ItemsFit, ListsFit
      <4>3. CASE list[q] # <<>>
        <5>1. list[q] = Tail(list[q])
          BY <2>1, <4>1, <4>2, <4>3 DEF ItemsFit, ListsFit
        <5>2. Len(Tail(list[q])) = Len(list[q]) - 1 /\ Len(list[q]) \in Nat
          BY <4>2, <4>3, HeadTailProperties, LenProperties
        <5>3. Len(Tail(list[q])) = Len(list[q])
          BY <5>1, Zenon
        <5> QED BY <5>2, <5>3
      <4> QED BY <4>1, <4>3
    <3> QED BY <2>1, <3>1 DEF Look
  <2>2. CASE Discard(t)
    BY <2>2 DEF Discard
  <2> QED
    BY <2>1, <2>2 DEF Start, Release, Retire, Decide, StillAccepting, MoreItems, NotAccepting,
           NobodyActive, NothingLeft, SignalIdle
<1>2. UNCHANGED <<list, hand, fate, itemCount, reg, initialized>>
  BY DEF Start, Look, Release, Retire, Decide, StillAccepting, MoreItems,
         NotAccepting, Discard, NobodyActive, NothingLeft, SignalIdle
<1>3. pc[t] # "process" /\ t \notin Producers
  BY DEF Start, Look, Release, Retire, Decide, StillAccepting, MoreItems,
         NotAccepting, Discard, NobodyActive, NothingLeft, SignalIdle
<1>4. ~Carries(t)
  BY <1>3 DEF Carries
<1> QED BY <1>1, <1>2, <1>4, ThreadGoesOn

\* One hand takes a context nobody has, or lets go of its own.
LEMMA HandChanges ==
    ASSUME Typed, HandsFit, NEW a \in Actors, NEW l, NEW x, Goto(a, l), Take(a, x),
           IF l \in (IF a \in Producers THEN {"depth", "insert"} ELSE {"process"})
           THEN x \in Items /\ \A b \in Actors : hand[b] # x
           ELSE x = NoItem
    PROVE  /\ HandsFit' /\ hand'[a] = x /\ pc'[a] = l
           /\ \A b \in Actors : b # a => hand'[b] = hand[b] /\ pc'[b] = pc[b]
<1>1. hand'[a] = x /\ \A b \in Actors : b # a => hand'[b] = hand[b]
  BY DEF Typed, Take
<1>2. /\ pc'[a] = l /\ \A b \in Actors : b # a => pc'[b] = pc[b] /\ (Carries(b)' <=> Carries(b))
      /\ Carries(a)' <=> l \in (IF a \in Producers THEN {"depth", "insert"} ELSE {"process"})
  BY ActorMoves
<1>3. \A b \in Actors : IF Carries(b)' THEN hand'[b] \in Items ELSE hand'[b] = NoItem
  BY <1>1, <1>2 DEF HandsFit
<1>4. \A b, c \in Actors : hand'[b] = hand'[c] => b = c \/ hand'[b] = NoItem
  BY <1>1 DEF HandsFit
<1> QED BY <1>1, <1>2, <1>3, <1>4 DEF HandsFit

\* The fate of one context changes.
LEMMA FateChanges ==
    ASSUME FatesFit, NEW i \in Items, NEW f, Fate(i, f)
    PROVE  /\ fate' = [j \in Items |-> fate'[j]] /\ fate'[i] = f
           /\ \A j \in Items : j # i => fate'[j] = fate[j]
<1>1. fate' = [j \in Items |-> IF j = i THEN f ELSE fate[j]]
  BY DEF FatesFit, Fate
<1> QED BY <1>1

\* One list becomes another of contexts that no other list has.
LEMMA ListChanges ==
    ASSUME ListsFit, NEW q \in Queues, NEW s \in Seq(Items), list' = [list EXCEPT ![q] = s],
           IsInjective(s), \A r \in Queues : r # q => ToSet(s) \cap ToSet(list[r]) = {}
    PROVE  /\ ListsFit' /\ Listed' = (Listed \ ToSet(list[q])) \cup ToSet(s)
           /\ ToSet(list[q]) \subseteq Listed
           /\ \A i : OnList(i)' <=> i \in Listed'
<1>1. list'[q] = s /\ \A r \in Queues : r # q => list'[r] = list[r]
  BY DEF ListsFit
<1>2. ListsFit'
  BY <1>1 DEF ListsFit
<1>3. \A i : OnList(i)' <=> i \in Listed'
  BY <1>2, ItemsCounted DEF Listed, OnList
<1>4. ASSUME NEW i PROVE i \in Listed' <=> i \in (Listed \ ToSet(list[q])) \cup ToSet(s)
  <2>1. i \in Listed' <=> \E r \in Queues : i \in ToSet(list'[r])
    BY DEF Listed
  <2>2. i \in Listed <=> \E r \in Queues : i \in ToSet(list[r])
    BY DEF Listed
  <2>3. i \in ToSet(list[q]) => \A r \in Queues : r # q => i \notin ToSet(list[r])
    BY DEF ListsFit
  <2> QED BY <1>1, <2>1, <2>2, <2>3
<1>5. ToSet(list[q]) \subseteq Listed
  BY DEF Listed
<1> QED BY <1>2, <1>3, <1>4, <1>5

\* A callback is let in with its context, or not.
LEMMA NotifyKeepsItems ==
    ASSUME Typed, ItemsFit, NEW p \in Producers, NEW i \in Items, Notify(p, i), UNCHANGED regVars
    PROVE  ItemsFit'
<1> USE DEF ItemsFit
<1>1. /\ reg = "up" /\ pc[p] = "out" /\ fate[i] = "fresh"
      /\ UNCHANGED <<list, itemCount, initialized, reg>>
  BY DEF Notify
<1>2. PICK f \in {"offered", "dropped"} :
        /\ Fate(i, f)
        /\ IF f = "offered" THEN Take(p, i) /\ Goto(p, "depth") ELSE UNCHANGED <<hand, pc>>
  BY DEF Notify
<1>3. /\ fate' = [j \in Items |-> fate'[j]] /\ fate'[i] = f
      /\ \A j \in Items : j # i => fate'[j] = fate[j]
  BY <1>2, FateChanges
<1>4. ~OnList(i) /\ \A a \in Actors : hand[a] # i
  BY <1>1 DEF FatesFit
<1>5. /\ HandsFit' /\ \A a \in Actors : a # p => hand'[a] = hand[a] /\ pc'[a] = pc[a]
      /\ hand'[p] = IF f = "offered" THEN i ELSE NoItem
      /\ pc'[p] \in {"out", "depth"}
  <2>1. CASE f = "offered"
    BY <1>2, <1>4, <2>1, HandChanges
  <2>2. CASE f = "dropped"
    <3>1. UNCHANGED <<hand, pc>> /\ ~Carries(p)
      BY <1>1, <1>2, <2>2 DEF Carries
    <3>2. HandsFit'
      BY <3>1 DEF HandsFit, Carries
    <3> QED BY <1>1, <2>2, <3>1, <3>2 DEF HandsFit
  <2> QED BY <2>1, <2>2
<1>6. hand[p] = NoItem
  BY <1>1 DEF HandsFit, Carries
<1>7. Listed' = Listed /\ InHands' = InHands /\ \A j : OnList(j)' <=> OnList(j)
  BY <1>1, <1>5 DEF Listed, InHands, OnList
<1>8. ListsFit'
  BY <1>1 DEF ListsFit
<1>9. FatesFit'
  <2>1. ASSUME NEW j \in Items
        PROVE  /\ fate'[j] = "queued" <=> OnList(j)'
               /\ fate'[j] \in {"offered", "running"} <=> \E a \in Actors : hand'[a] = j
    <3>1. CASE j = i
      BY <1>2, <1>3, <1>4, <1>5, <1>7, <3>1
    <3>2. CASE j # i
      <4>1. (\E a \in Actors : hand'[a] = j) <=> \E a \in Actors : hand[a] = j
        BY <1>5, <1>6, <3>2
      <4> QED BY <1>3, <1>7, <3>2, <4>1 DEF FatesFit
    <3> QED BY <3>1, <3>2
  <2> QED BY <1>3, <2>1 DEF FatesFit
<1>10. CountFits' /\ EmptiedOnce'
  BY <1>1, <1>7 DEF CountFits, EmptiedOnce
<1>11. Bounded'
  <2>1. \A a \in Producers : pc'[a] = "insert" => pc[a] = "insert"
    BY <1>5
  <2> QED BY <1>1, <2>1, BoundStays DEF Typed
<1>12. CallbacksOut'
  BY <1>1 DEF CallbacksOut
<1> QED BY <1>5, <1>8, <1>9, <1>10, <1>11, <1>12

\* A callback is let through to the lists, or sent away at either look.
LEMMA DepthKeepsItems ==
    ASSUME Typed, ItemsFit, NEW p \in Producers, UNCHANGED regVars,
           CheckDepth(p) \/ (Insert(p) /\ UNCHANGED list)
    PROVE  ItemsFit'
<1> USE DEF ItemsFit
<1>1. /\ pc[p] \in {"depth", "insert"} /\ UNCHANGED <<list, initialized, reg>>
      /\ reg \in {"up", "remove"}
  <2>1. pc[p] \in {"depth", "insert"} /\ UNCHANGED <<list, initialized, reg>>
    BY DEF CheckDepth, Insert
  <2> QED BY <2>1 DEF CallbacksOut
<1>2. CallbacksOut' /\ hand[p] \in Items
  BY <1>1 DEF CallbacksOut, HandsFit, Carries
<1>3. CASE Goto(p, "insert") /\ UNCHANGED <<hand, fate, itemCount>> /\ itemCount < MaxDepth
  <2>1. \A a \in Actors : Carries(a)' <=> Carries(a)
    BY <1>1, <1>3, ActorMoves DEF Carries
  <2>2. Cardinality(Inserting') \in Nat /\ Cardinality(Inserting') <= Cardinality(Producers)
    <3>1. Inserting' \subseteq Producers
      BY DEF Inserting
    <3> QED BY <3>1, FS_Subset, FS_CardinalityType
  <2>3. Cardinality(Producers) \in Nat
    BY ItemsCounted
  <2>4. Bounded'
    BY <1>3, <2>2, <2>3 DEF Bounded, Typed
  <2> QED BY <1>1, <1>2, <1>3, <2>1, <2>4, ItemsStay DEF EmptiedOnce
<1>4. CASE Goto(p, "out") /\ Drop(p) /\ Fate(hand[p], "dropped") /\ UNCHANGED itemCount
  <2> DEFINE i == hand[p]
  <2>1. Take(p, NoItem)
    BY <1>4 DEF Take, Drop
  <2>2. /\ HandsFit' /\ hand'[p] = NoItem /\ pc'[p] = "out"
        /\ \A b \in Actors : b # p => hand'[b] = hand[b] /\ pc'[b] = pc[b]
    BY <1>4, <2>1, HandChanges
  <2>3. /\ fate' = [j \in Items |-> fate'[j]] /\ fate'[i] = "dropped"
        /\ \A j \in Items : j # i => fate'[j] = fate[j]
    BY <1>2, <1>4, FateChanges
  <2>4. Listed' = Listed /\ InHands' = InHands /\ \A j : OnList(j)' <=> OnList(j)
    BY <1>1, <2>2 DEF Listed, InHands, OnList
  <2>5. fate[i] \in {"offered", "running"} /\ \A b \in Actors : b # p => hand[b] # i
    BY <1>2 DEF FatesFit, HandsFit
  <2>6. FatesFit'
    <3>1. ASSUME NEW j \in Items
          PROVE  /\ fate'[j] = "queued" <=> OnList(j)'
                 /\ fate'[j] \in {"offered", "running"} <=> \E a \in Actors : hand'[a] = j
      <4>1. CASE j = i
        <5>1. ~OnList(j)
          BY <2>5, <4>1 DEF FatesFit
        <5>2. ~\E a \in Actors : hand'[a] = j
          BY <1>2, <2>2, <2>5, <4>1
        <5> QED BY <2>3, <2>4, <4>1, <5>1, <5>2
      <4>2. CASE j # i
        <5>1. (\E a \in Actors : hand'[a] = j) <=> \E a \in Actors : hand[a] = j
          BY <2>2, <4>2
        <5> QED BY <2>3, <2>4, <4>2, <5>1 DEF FatesFit
      <4> QED BY <4>1, <4>2
    <3> QED BY <2>3, <3>1 DEF FatesFit
  <2>7. ListsFit'
    BY <1>1 DEF ListsFit
  <2>8. CountFits' /\ EmptiedOnce'
    BY <1>1, <1>4, <2>4 DEF CountFits, EmptiedOnce
  <2>9. Bounded'
    <3>1. \A a \in Producers : pc'[a] = "insert" => pc[a] = "insert"
      BY <2>2
    <3> QED BY <1>4, <3>1, BoundStays DEF Typed
  <2> QED BY <1>2, <2>2, <2>6, <2>7, <2>8, <2>9
<1>5. \/ Goto(p, "insert") /\ UNCHANGED <<hand, fate, itemCount>> /\ itemCount < MaxDepth
      \/ Goto(p, "out") /\ Drop(p) /\ Fate(hand[p], "dropped") /\ UNCHANGED itemCount
  <2>1. CASE CheckDepth(p)
    BY <2>1 DEF CheckDepth, Typed
  <2>2. CASE Insert(p) /\ UNCHANGED list
    <3>1. CASE accepting
      <4>1. PICK q \in Queues : list' = [list EXCEPT ![q] = Append(list[q], hand[p])]
        BY <2>2, <3>1 DEF Insert
      <4>2. list[q] = Append(list[q], hand[p]) /\ list[q] \in Seq(Items)
        BY <2>2, <4>1 DEF ListsFit
      <4> QED BY <1>2, <4>2, AppendProperties
    <3> QED BY <2>2, <3>1 DEF Insert
  <2> QED BY <2>1, <2>2
<1> QED BY <1>3, <1>4, <1>5

\* A context that a callback puts on a list was in its hand only, and is counted.
LEMMA InsertKeepsItems ==
    ASSUME Typed, ItemsFit, NEW p \in Producers, UNCHANGED regVars, Insert(p), accepting
    PROVE  ItemsFit'
<1> USE DEF ItemsFit
<1> DEFINE i == hand[p]
<1>1. PICK q \in Queues : list' = [list EXCEPT ![q] = Append(list[q], i)]
  BY DEF Insert
<1>2. /\ pc[p] = "insert" /\ Take(p, NoItem) /\ Fate(i, "queued") /\ Goto(p, "pending")
      /\ itemCount' = itemCount + 1 /\ UNCHANGED <<initialized, reg>>
  BY DEF Insert, Drop, Take
<1>3. i \in Items /\ list[q] \in Seq(Items) /\ IsInjective(list[q])
  BY <1>2 DEF HandsFit, Carries, ListsFit
<1>4. fate[i] \in {"offered", "running"} /\ ~OnList(i) /\ i \notin Listed
      /\ \A b \in Actors : b # p => hand[b] # i
  BY <1>3, ItemsCounted DEF FatesFit, HandsFit
<1>5. /\ HandsFit' /\ hand'[p] = NoItem /\ pc'[p] = "pending"
      /\ \A b \in Actors : b # p => hand'[b] = hand[b] /\ pc'[b] = pc[b]
  BY <1>2, HandChanges
<1>6. /\ fate' = [j \in Items |-> fate'[j]] /\ fate'[i] = "queued"
      /\ \A j \in Items : j # i => fate'[j] = fate[j]
  BY <1>2, <1>3, FateChanges
<1>7. /\ ListsFit' /\ Listed' = Listed \cup {i} /\ \A j : OnList(j)' <=> j \in Listed'
  <2> DEFINE s == Append(list[q], i)
  <2>1. /\ s \in Seq(Items) /\ ToSet(s) = ToSet(list[q]) \cup {i} /\ IsInjective(s)
    <3>1. i \notin ToSet(list[q])
      BY <1>4 DEF OnList
    <3> QED BY <1>3, <3>1, AppendDistinct
  <2>2. \A r \in Queues : r # q => ToSet(s) \cap ToSet(list[r]) = {}
    BY <1>4, <2>1 DEF ListsFit, OnList
  <2>3. list' = [list EXCEPT ![q] = s]
    BY <1>1
  <2> HIDE DEF s
  <2>4. /\ ListsFit' /\ Listed' = (Listed \ ToSet(list[q])) \cup ToSet(s)
        /\ ToSet(list[q]) \subseteq Listed
        /\ \A j : OnList(j)' <=> j \in Listed'
    BY <2>1, <2>2, <2>3, ListChanges
  <2> QED BY <2>1, <2>4
<1>8. FatesFit'
  <2>1. ASSUME NEW j \in Items
        PROVE  /\ fate'[j] = "queued" <=> OnList(j)'
               /\ fate'[j] \in {"offered", "running"} <=> \E a \in Actors : hand'[a] = j
    <3>1. CASE j = i
      <4>1. ~\E a \in Actors : hand'[a] = j
        BY <1>3, <1>4, <1>5, <3>1
      <4> QED BY <1>6, <1>7, <3>1, <4>1
    <3>2. CASE j # i
      <4>1. (\E a \in Actors : hand'[a] = j) <=> \E a \in Actors : hand[a] = j
        BY <1>5, <3>2
      <4> QED BY <1>6, <1>7, <3>2, <4>1, ItemsCounted DEF FatesFit
    <3> QED BY <3>1, <3>2
  <2> QED BY <1>6, <2>1 DEF FatesFit
<1>9. InHands' = InHands
  BY <1>5 DEF InHands
<1>10. reg \in {"up", "remove"} /\ CallbacksOut'
  BY <1>2 DEF CallbacksOut
<1>11. CountFits' /\ EmptiedOnce'
  <2>1. IsFiniteSet(Listed) /\ Cardinality(Listed) \in Nat /\ Cardinality(InHands) \in Nat
    BY ItemsCounted
  <2>2. Cardinality(Listed') = Cardinality(Listed) + 1
    BY <1>4, <1>7, <2>1, FS_AddElement
  <2>3. itemCount = Cardinality(Listed) + Cardinality(InHands)
    BY <1>10 DEF CountFits
  <2>4. CountFits'
    BY <1>2, <1>9, <2>1, <2>2, <2>3 DEF CountFits
  <2>5. EmptiedOnce'
    BY <1>2, <1>10 DEF EmptiedOnce
  <2> QED BY <2>4, <2>5
<1>12. Bounded'
  <2>1. Inserting' = Inserting \ {p} /\ p \in Inserting
    BY <1>2, <1>5 DEF Inserting
  <2>2. /\ IsFiniteSet(Inserting) /\ Cardinality(Inserting) \in Nat
        /\ Cardinality(Producers) \in Nat
    BY ItemsCounted
  <2>3. Cardinality(Inserting') = Cardinality(Inserting) - 1
    BY <2>1, <2>2, FS_RemoveElement
  <2> QED BY <1>2, <2>2, <2>3 DEF Bounded, Typed
<1> QED BY <1>5, <1>7, <1>8, <1>10, <1>11, <1>12

\* A worker takes the first context of a list.
LEMMA LookKeepsItems ==
    ASSUME Typed, ItemsFit, NEW t \in Threads, UNCHANGED regVars, Look(t),
           ~UNCHANGED <<list, hand, fate, itemCount>>
    PROVE  ItemsFit'
<1> USE DEF ItemsFit
<1>1. PICK q \in toScan[t] :
        /\ list[q] # <<>> /\ list' = [list EXCEPT ![q] = Tail(list[q])]
        /\ Take(t, Head(list[q])) /\ Fate(Head(list[q]), "running") /\ Goto(t, "process")
  BY DEF Look
<1> DEFINE i == Head(list[q])
           s == Tail(list[q])
<1>2. q \in Queues /\ list[q] \in Seq(Items) /\ IsInjective(list[q])
  BY DEF Typed, ListsFit
<1>3. /\ s \in Seq(Items) /\ IsInjective(s) /\ ToSet(s) = ToSet(list[q]) \ {i}
      /\ i \in Items /\ i \in ToSet(list[q])
  BY <1>1, <1>2, TailDistinct
<1>4. fate[i] = "queued" /\ \A b \in Actors : hand[b] # i
  BY <1>2, <1>3 DEF FatesFit, OnList
<1>5. pc[t] = "look" /\ t \notin Producers /\ UNCHANGED <<itemCount, initialized, reg>>
  BY DEF Look
<1>6. Take(t, i) /\ Fate(i, "running") /\ list' = [list EXCEPT ![q] = s] /\ hand[t] = NoItem
  BY <1>1, <1>5 DEF HandsFit, Carries
<1> HIDE DEF i, s
<1>7. /\ HandsFit' /\ hand'[t] = i /\ pc'[t] = "process"
      /\ \A b \in Actors : b # t => hand'[b] = hand[b] /\ pc'[b] = pc[b]
  BY <1>1, <1>3, <1>4, <1>5, <1>6, HandChanges
<1>8. /\ fate' = [j \in Items |-> fate'[j]] /\ fate'[i] = "running"
      /\ \A j \in Items : j # i => fate'[j] = fate[j]
  BY <1>3, <1>6, FateChanges
<1>9. /\ ListsFit' /\ Listed' = Listed \ {i} /\ i \in Listed
      /\ \A j : OnList(j)' <=> j \in Listed'
  <2>1. \A r \in Queues : r # q => ToSet(s) \cap ToSet(list[r]) = {}
    BY <1>2, <1>3 DEF ListsFit
  <2>2. /\ ListsFit' /\ Listed' = (Listed \ ToSet(list[q])) \cup ToSet(s)
        /\ ToSet(list[q]) \subseteq Listed
        /\ \A j : OnList(j)' <=> j \in Listed'
    BY <1>2, <1>3, <1>6, <2>1, ListChanges
  <2> QED BY <1>3, <2>2
<1>10. FatesFit'
  <2>1. ASSUME NEW j \in Items
        PROVE  /\ fate'[j] = "queued" <=> OnList(j)'
               /\ fate'[j] \in {"offered", "running"} <=> \E a \in Actors : hand'[a] = j
    <3>1. CASE j = i
      BY <1>7, <1>8, <1>9, <3>1
    <3>2. CASE j # i
      <4>1. (\E a \in Actors : hand'[a] = j) <=> \E a \in Actors : hand[a] = j
        BY <1>6, <1>7, <3>2
      <4> QED BY <1>8, <1>9, <3>2, <4>1, ItemsCounted DEF FatesFit
    <3> QED BY <3>1, <3>2
  <2> QED BY <1>8, <2>1 DEF FatesFit
<1>11. InHands' = InHands \cup {t} /\ t \notin InHands
  BY <1>3, <1>6, <1>7 DEF InHands
<1>12. CountFits' /\ EmptiedOnce'
  <2>1. /\ IsFiniteSet(Listed) /\ Cardinality(Listed) \in Nat
        /\ IsFiniteSet(InHands) /\ Cardinality(InHands) \in Nat
    BY ItemsCounted
  <2>2. Cardinality(Listed') = Cardinality(Listed) - 1
    BY <1>9, <2>1, FS_RemoveElement
  <2>3. Cardinality(InHands') = Cardinality(InHands) + 1
    BY <1>11, <2>1, FS_AddElement
  <2>4. CountFits'
    BY <1>5, <2>1, <2>2, <2>3 DEF CountFits
  <2> QED BY <1>5, <1>9, <2>4 DEF EmptiedOnce
<1>13. Bounded'
  <2>1. \A a \in Producers : pc'[a] = "insert" => pc[a] = "insert"
    BY <1>5, <1>7
  <2> QED BY <1>5, <2>1, BoundStays DEF Typed
<1>14. CallbacksOut'
  BY <1>5, <1>7 DEF CallbacksOut
<1> QED BY <1>7, <1>9, <1>10, <1>12, <1>13, <1>14

\* A context is counted out once it is processed.
LEMMA ProcessKeepsItems ==
    ASSUME Typed, ItemsFit, NEW t \in Threads, UNCHANGED regVars, Process(t)
    PROVE  ItemsFit'
<1> USE DEF ItemsFit
<1> DEFINE i == hand[t]
<1>1. /\ pc[t] = "process" /\ Fate(i, "processed") /\ Take(t, NoItem) /\ Goto(t, "look")
      /\ itemCount' = itemCount - 1 /\ t \notin Producers
      /\ UNCHANGED <<list, initialized, reg>>
  BY DEF Process, Drop, Take
<1>2. i \in Items /\ \A b \in Actors : b # t => hand[b] # i
  BY <1>1 DEF HandsFit, Carries
<1>3. fate[i] \in {"offered", "running"} /\ ~OnList(i)
  BY <1>2 DEF FatesFit
<1> HIDE DEF i
<1>4. /\ HandsFit' /\ hand'[t] = NoItem /\ pc'[t] = "look"
      /\ \A b \in Actors : b # t => hand'[b] = hand[b] /\ pc'[b] = pc[b]
  BY <1>1, HandChanges
<1>5. /\ fate' = [j \in Items |-> fate'[j]] /\ fate'[i] = "processed"
      /\ \A j \in Items : j # i => fate'[j] = fate[j]
  BY <1>1, <1>2, FateChanges
<1>6. Listed' = Listed /\ ListsFit' /\ \A j : OnList(j)' <=> OnList(j)
  BY <1>1 DEF Listed, OnList, ListsFit
<1>7. FatesFit'
  <2>1. ASSUME NEW j \in Items
        PROVE  /\ fate'[j] = "queued" <=> OnList(j)'
               /\ fate'[j] \in {"offered", "running"} <=> \E a \in Actors : hand'[a] = j
    <3>1. CASE j = i
      <4>1. ~\E a \in Actors : hand'[a] = j
        BY <1>2, <1>4, <3>1
      <4> QED BY <1>3, <1>5, <1>6, <3>1, <4>1
    <3>2. CASE j # i
      <4>1. (\E a \in Actors : hand'[a] = j) <=> \E a \in Actors : hand[a] = j
        BY <1>4, <3>2 DEF i
      <4> QED BY <1>5, <1>6, <3>2, <4>1 DEF FatesFit
    <3> QED BY <3>1, <3>2
  <2> QED BY <1>5, <2>1 DEF FatesFit
<1>8. InHands' = InHands \ {t} /\ t \in InHands
  BY <1>2, <1>4 DEF InHands, i
<1>9. CountFits' /\ EmptiedOnce'
  <2>1. /\ Cardinality(Listed) \in Nat
        /\ IsFiniteSet(InHands) /\ Cardinality(InHands) \in Nat
    BY ItemsCounted
  <2>2. Cardinality(InHands') = Cardinality(InHands) - 1
    BY <1>8, <2>1, FS_RemoveElement
  <2>3. CountFits'
    BY <1>1, <1>6, <2>1, <2>2 DEF CountFits
  <2>4. EmptiedOnce'
    BY <1>1, <1>6, <1>8 DEF EmptiedOnce
  <2> QED BY <2>3, <2>4
<1>10. Bounded'
  <2>1. \A a \in Producers : pc'[a] = "insert" => pc[a] = "insert"
    BY <1>1, <1>4
  <2>2. itemCount \in Int /\ itemCount' \in Int /\ itemCount' <= itemCount
    BY <1>1 DEF Typed
  <2> QED BY <2>1, <2>2, BoundStays
<1>11. CallbacksOut'
  BY <1>1, <1>4 DEF CallbacksOut
<1> QED BY <1>4, <1>6, <1>7, <1>9, <1>10, <1>11

\* The contexts of a list are thrown away.
LEMMA ThrownAway ==
    ASSUME Typed, ItemsFit, NEW q \in Queues, UNCHANGED hand,
           list' = [list EXCEPT ![q] = <<>>],
           fate' = [i \in Items |-> IF i \in ToSet(list[q]) THEN "discarded" ELSE fate[i]],
           \A a \in Actors : pc'[a] = pc[a]
    PROVE  /\ ListsFit' /\ HandsFit' /\ FatesFit' /\ InHands' = InHands
           /\ Listed' \subseteq Listed
           /\ Cardinality(Listed') = Cardinality(Listed) - Len(list[q])
           /\ Len(list[q]) \in Nat
<1> USE DEF ItemsFit
<1>1. <<>> \in Seq(Items) /\ ToSet(<<>>) = {} /\ IsInjective(<<>>)
  BY EmptySeq DEF ToSet, IsInjective
<1>2. /\ ListsFit' /\ Listed' = (Listed \ ToSet(list[q])) \cup ToSet(<<>>)
      /\ ToSet(list[q]) \subseteq Listed
      /\ \A i : OnList(i)' <=> i \in Listed'
  BY <1>1, ListChanges
<1>3. HandsFit' /\ InHands' = InHands
  BY DEF HandsFit, Carries, InHands
<1>4. FatesFit'
  <2>1. ASSUME NEW i \in Items
        PROVE  /\ fate'[i] = "queued" <=> OnList(i)'
               /\ fate'[i] \in {"offered", "running"} <=> \E a \in Actors : hand'[a] = i
    <3>1. CASE i \in ToSet(list[q])
      <4>1. fate[i] = "queued" /\ fate'[i] = "discarded"
        BY <3>1 DEF FatesFit, OnList
      <4>2. ~\E a \in Actors : hand[a] = i
        BY <4>1 DEF FatesFit
      <4> QED BY <1>1, <1>2, <3>1, <4>1, <4>2
    <3>2. CASE i \notin ToSet(list[q])
      <4>1. fate'[i] = fate[i]
        BY <3>2
      <4> QED BY <1>1, <1>2, <3>2, <4>1, ItemsCounted DEF FatesFit
    <3> QED BY <3>1, <3>2
  <2> QED BY <2>1 DEF FatesFit
<1>5. Cardinality(Listed') = Cardinality(Listed) - Len(list[q]) /\ Len(list[q]) \in Nat
  <2>1. IsFiniteSet(ToSet(list[q])) /\ Cardinality(ToSet(list[q])) = Len(list[q])
    BY DistinctCount DEF ListsFit
  <2>2. IsFiniteSet(Listed) /\ Cardinality(Listed) \in Nat
    BY ItemsCounted
  <2>3. Listed' = Listed \ ToSet(list[q]) /\ Listed \cap ToSet(list[q]) = ToSet(list[q])
    BY <1>1, <1>2
  <2>4. Cardinality(Listed') = Cardinality(Listed) - Cardinality(Listed \cap ToSet(list[q]))
    BY <2>2, <2>3, FS_Difference
  <2>5. Len(list[q]) \in Nat
    BY LenProperties DEF ListsFit
  <2> QED BY <2>1, <2>3, <2>4, <2>5
<1> QED BY <1>1, <1>2, <1>3, <1>4, <1>5

\* A worker throws a list away and counts its contexts out.
LEMMA DiscardKeepsItems ==
    ASSUME Typed, ItemsFit, NEW t \in Threads, UNCHANGED regVars, Discard(t),
           ~UNCHANGED <<list, hand, fate, itemCount>>
    PROVE  ItemsFit'
<1> USE DEF ItemsFit
<1>1. PICK q \in toScan[t] :
        /\ list' = [list EXCEPT ![q] = <<>>] /\ itemCount' = itemCount - Len(list[q])
        /\ fate' = [i \in Items |-> IF i \in ToSet(list[q]) THEN "discarded" ELSE fate[i]]
        /\ UNCHANGED pc
  BY DEF Discard
<1>2. q \in Queues /\ UNCHANGED <<hand, initialized, reg>>
  BY DEF Discard, Typed
<1>3. /\ ListsFit' /\ HandsFit' /\ FatesFit' /\ InHands' = InHands
      /\ Listed' \subseteq Listed
      /\ Cardinality(Listed') = Cardinality(Listed) - Len(list[q])
      /\ Len(list[q]) \in Nat
  BY <1>1, <1>2, ThrownAway
<1>4. Cardinality(Listed) \in Nat /\ Cardinality(InHands) \in Nat
  BY ItemsCounted
<1>5. CountFits' /\ EmptiedOnce'
  BY <1>1, <1>2, <1>3, <1>4 DEF CountFits, EmptiedOnce
<1>6. Bounded'
  <2>1. itemCount \in Int /\ itemCount' \in Int /\ itemCount' <= itemCount
    BY <1>1, <1>3 DEF Typed
  <2> QED BY <1>1, <2>1, BoundStays
<1>7. CallbacksOut'
  BY <1>1, <1>2 DEF CallbacksOut
<1> QED BY <1>3, <1>5, <1>6, <1>7

\* The registration: a pool that is set up or freed has no contexts, and the
\* cleanup empties the lists when no callback is left.
LEMMA RegistrationKeepsItems ==
    ASSUME Inv, ItemsFit, ~freedBusy, Registration, ~freedBusy'
    PROVE  ItemsFit'
<1> USE DEF ItemsFit
<1>1. Typed /\ Typed'
  BY RegistrationTyped DEF Inv
<1>2. UNCHANGED actorVars
  BY DEF Registration, Register, Unregister, StopAccepting, Cleanup, CleanupTest, AnyActive,
         AnyItems, WaitIdle, DrainLists, FreeWorkItems
<1>3. HandsFit' /\ InHands' = InHands /\ Inserting' = Inserting
      /\ \A a \in Actors : Carries(a)' <=> Carries(a)
  BY <1>2 DEF HandsFit, Carries, InHands, Inserting
<1>4. CASE Unregister \/ StopAccepting \/ AnyActive \/ AnyItems \/ WaitIdle
            \/ (DrainLists /\ \A q \in Queues : list[q] = <<>>)
  <2>1. UNCHANGED <<list, hand, fate, itemCount, initialized>>
    BY <1>4 DEF Unregister, StopAccepting, CleanupTest, AnyActive, AnyItems, WaitIdle, DrainLists
  <2>2. Bounded' /\ ~(reg = "down" /\ ~initialized)
    <3>1. Bounded'
      BY <1>3, <2>1 DEF Bounded
    <3>2. ~(reg = "down" /\ ~initialized)
      BY <1>4 DEF Unregister, StopAccepting, CleanupTest, AnyActive, AnyItems, WaitIdle, DrainLists
    <3> QED BY <3>1, <3>2
  <2>3. CallbacksOut'
    BY <1>2, <1>4 DEF Unregister, StopAccepting, CleanupTest, AnyActive, AnyItems, WaitIdle,
                      DrainLists, CallbacksOut
  <2>4. /\ reg' = "free" => Listed = {}
        /\ reg' \notin {"drain", "free"} => reg \notin {"drain", "free"}
    <3>1. CASE DrainLists /\ \A q \in Queues : list[q] = <<>>
      <4>1. ToSet(<<>>) = {}
        BY DEF ToSet
      <4>2. Listed = {}
        BY <3>1, <4>1 DEF Listed
      <4> QED BY <3>1, <4>2 DEF DrainLists
    <3>2. CASE Unregister \/ StopAccepting \/ AnyActive \/ AnyItems \/ WaitIdle
      BY <3>2 DEF Unregister, StopAccepting, CleanupTest, AnyActive, AnyItems, WaitIdle
    <3> QED BY <1>4, <3>1, <3>2
  <2>5. ~initialized' => ~initialized /\ reg' = "down"
    BY <2>1, <2>2 DEF EmptiedOnce
  <2> QED BY <1>3, <2>1, <2>2, <2>3, <2>4, <2>5, ItemsStay
<1>5. CASE DrainLists /\ ~\A q \in Queues : list[q] = <<>>
  <2>1. PICK q \in Queues :
          /\ list' = [list EXCEPT ![q] = <<>>] /\ UNCHANGED <<reg, itemCount, initialized>>
          /\ fate' = [i \in Items |-> IF i \in ToSet(list[q]) THEN "discarded" ELSE fate[i]]
    BY <1>5 DEF DrainLists
  <2>2. reg = "drain"
    BY <1>5 DEF DrainLists
  <2>3. ListsFit' /\ FatesFit'
    BY <1>1, <1>2, <2>1, ThrownAway
  <2>4. CountFits' /\ EmptiedOnce' /\ CallbacksOut'
    BY <1>2, <2>1, <2>2 DEF CountFits, EmptiedOnce, CallbacksOut
  <2>5. Bounded'
    BY <1>3, <2>1 DEF Bounded
  <2> QED BY <1>3, <2>3, <2>4, <2>5
<1>6. (ListsFit' /\ FatesFit' /\ Listed' = Listed) \/ DrainLists
  <2>1. CASE ~DrainLists
    <3>1. UNCHANGED <<list, hand, fate>>
      BY <2>1 DEF Registration, Register, Unregister, StopAccepting, Cleanup, CleanupTest,
                  AnyActive, AnyItems, WaitIdle, FreeWorkItems
    <3> QED BY <3>1 DEF ListsFit, FatesFit, OnList, Listed
  <2> QED BY <2>1
<1>7. CASE Register
  <2>1. reg = "down" /\ reg' \in {"up", "down"} /\ initialized'
    BY <1>7 DEF Register, InitPool
  <2>2. itemCount' = itemCount \/ (itemCount' = 0 /\ ~initialized)
    BY <1>7 DEF Register, InitPool
  <2>3. ~DrainLists
    BY <2>1 DEF DrainLists
  <2>4. itemCount = Cardinality(Listed) + Cardinality(InHands)
    BY <2>1 DEF CountFits
  <2>5. itemCount' = itemCount
    <3>1. CASE itemCount' = 0 /\ ~initialized
      <4>1. Cardinality(Listed) = 0 /\ Cardinality(InHands) = 0
        BY <3>1, FS_EmptySet DEF EmptiedOnce
      <4> QED BY <2>4, <3>1, <4>1
    <3> QED BY <2>2, <3>1
  <2>6. CountFits' /\ Bounded' /\ EmptiedOnce'
    BY <1>3, <1>6, <2>1, <2>3, <2>4, <2>5 DEF CountFits, Bounded, EmptiedOnce
  <2>7. CallbacksOut'
    BY <1>2, <2>1 DEF CallbacksOut
  <2> QED BY <1>3, <1>6, <2>3, <2>6, <2>7
<1>8. CASE FreeWorkItems
  <2>1. reg = "free" /\ reg' = "down" /\ itemCount' = 0 /\ ~Busy /\ ~initialized'
    BY <1>8 DEF FreeWorkItems
  <2>2. ~DrainLists
    BY <2>1 DEF DrainLists
  <2>3. Listed = {} /\ InHands = {}
    <3>1. Listed = {}
      BY <2>1 DEF EmptiedOnce
    <3>2. ASSUME NEW t \in InHands PROVE FALSE
      <4>1. t \in Threads /\ hand[t] # NoItem
        BY DEF InHands
      <4>2. pc[t] = "process"
        BY <4>1 DEF HandsFit, Carries
      <4>3. t \in AtWork /\ slotOf[t] \in Slots
        BY <1>1, <4>1, <4>2 DEF AtWork, Typed
      <4>4. slotOf[t] \in claimed
        BY <4>3 DEF Inv, Pool, SlotsFit
      <4> QED BY <2>1, <4>4 DEF Busy
    <3> QED BY <3>1, <3>2
  <2>4. CountFits' /\ EmptiedOnce'
    BY <1>3, <1>6, <2>1, <2>2, <2>3, FS_EmptySet DEF CountFits, EmptiedOnce
  <2>5. Bounded'
    <3>1. /\ Cardinality(Inserting) \in Nat /\ Cardinality(Producers) \in Nat
          /\ Cardinality(Inserting) <= Cardinality(Producers)
      BY ItemsCounted
    <3> QED BY <1>3, <2>1, <3>1 DEF Bounded
  <2>6. CallbacksOut'
    BY <1>2, <2>1 DEF CallbacksOut
  <2> QED BY <1>3, <1>6, <2>2, <2>4, <2>5, <2>6
<1> QED BY <1>4, <1>5, <1>7, <1>8 DEF Registration, Cleanup

LEMMA ItemsInitial == Init => ItemsInv
<1> SUFFICES ASSUME Init PROVE ItemsFit
  BY DEF ItemsInv
<1> USE DEF Init
<1>1. ToSet(<<>>) = {} /\ IsInjective(<<>>) /\ <<>> \in Seq(Items)
  BY EmptySeq DEF ToSet, IsInjective
<1>2. ListsFit /\ Listed = {}
  BY <1>1 DEF ListsFit, Listed
<1>3. InHands = {} /\ Inserting = {} /\ \A a \in Actors : ~Carries(a)
  BY DEF InHands, Inserting, Carries
<1>4. HandsFit
  BY <1>3 DEF HandsFit
<1>5. FatesFit
  BY <1>1 DEF FatesFit, OnList
<1>6. CountFits /\ EmptiedOnce /\ CallbacksOut
  BY <1>2, <1>3, FS_EmptySet DEF CountFits, EmptiedOnce, CallbacksOut
<1>7. Bounded
  BY <1>3, ItemsCounted, FS_EmptySet DEF Bounded
<1> QED BY <1>2, <1>4, <1>5, <1>6, <1>7 DEF ItemsFit

LEMMA ItemsStep == Inv /\ ItemsInv /\ [Next]_vars => ItemsInv'
<1> SUFFICES ASSUME Inv, ItemsInv, [Next]_vars, ~freedBusy' PROVE ItemsFit'
  BY DEF ItemsInv
<1>1. CASE UNCHANGED vars
  <2>1. ItemsFit
    BY <1>1 DEF ItemsInv
  <2>2. Bounded' /\ CallbacksOut' /\ \A a \in Actors : Carries(a)' <=> Carries(a)
    BY <1>1, <2>1 DEF ItemsFit, Bounded, Inserting, CallbacksOut, Carries
  <2> QED BY <1>1, <2>1, <2>2, ItemsStay DEF ItemsFit, EmptiedOnce
<1>2. CASE Next
  <2>1. ~freedBusy /\ ItemsFit /\ Typed
    BY <1>2 DEF Next, ItemsInv, Inv
  <2>2. ASSUME NEW p \in Producers, Callback(p) PROVE ItemsFit'
    <3>1. UNCHANGED regVars
      BY <2>2 DEF Callback, Notify, CheckDepth, Insert, Reserve, ReadPending, TakePlace,
                  ClaimSlot, ClearIdle, Submit
    <3>2. Insert(p) /\ ~accepting => UNCHANGED list
      BY DEF Insert
    <3> QED
      BY <2>1, <2>2, <3>1, <3>2, NotifyKeepsItems, DepthKeepsItems, InsertKeepsItems,
         ReserveKeepsItems DEF Callback
  <2>3. ASSUME NEW t \in Threads, Worker(t) PROVE ItemsFit'
    <3>1. UNCHANGED regVars
      BY <2>3 DEF Worker, Start, Look, Process, Release, Retire, Decide, StillAccepting,
                  MoreItems, NotAccepting, Discard, NobodyActive, NothingLeft, SignalIdle,
                  Reserve, ReadPending, TakePlace, ClaimSlot, ClearIdle, Submit
    <3> QED
      BY <2>1, <2>3, <3>1, WorkerKeepsItems, LookKeepsItems, ProcessKeepsItems,
         DiscardKeepsItems, ReserveKeepsItems DEF Worker
  <2>4. Registration => ItemsFit'
    BY <2>1, RegistrationKeepsItems
  <2> QED BY <1>2, <2>2, <2>3, <2>4 DEF Next
<1> QED BY <1>1, <1>2

\* However many images are loaded at once, and however often the source comes and
\* goes, a context is on one list or in one hand, the counter beside the lists
\* agrees with them, and the bound is overrun by the callbacks under way at most
\* (SysmonQueueImageWorkContext, SysmonDiscardPendingImageWork).
THEOREM ItemsSafe == Spec => []ItemsAccounted
<1>1. ItemsInv => ItemsAccounted
  <2> SUFFICES ASSUME ItemsFit PROVE ItemsAccounted
    BY DEF ItemsInv, ItemsAccounted
  <2> USE DEF ItemsFit
  <2>1. \A i : i \in Listed <=> OnList(i)
    BY ItemsCounted
  <2>2. Listed = {i \in Items : fate[i] = "queued"}
    BY <2>1, ItemsCounted DEF FatesFit
  <2> QED BY <2>2 DEF ItemsAccounted, ListsFit, HandsFit, FatesFit, CountFits, Bounded
<1>2. Spec => []ItemsInv
  BY InvHolds, ItemsInitial, ItemsStep, PTL DEF Spec
<1> QED BY <1>1, <1>2, PTL
=============================================================================
