--------------------------- MODULE DeferredWorkProofs ---------------------------
(***************************************************************************)
(* The driver's deferred work, for any number of threads.  A source's      *)
(* worker is queued at most once and no item is left without one           *)
(* (SourceWorker); a tampering check and the callback that stopped waiting *)
(* for it share their work item safely, and outlive no driver (Tampering); *)
(* a creation is checked and reported at most once (Tampering), and the    *)
(* event of a process has its own identity (ProcessCreate).                *)
(*                                                                         *)
(* The first two rest on counting.  What "queued" means for a source is    *)
(* spread over three places, the callback that has exchanged the flag, the *)
(* system's queue and the running routine; FlagMeansOne says that they     *)
(* hold one token between them while the flag is set.  The references to a *)
(* check's work item and to the driver are those of the threads still to   *)
(* give one back (RefsAreExact, RundownIsExact).                           *)
(*                                                                         *)
(* A creation allows one of three: a process on the list, a check that has *)
(* taken it off, a report (Left).  Whose creation an event reports follows *)
(* from what the pending entries and the finalizers are of (EntriesFit,    *)
(* PublishedOnce).                                                         *)
(***************************************************************************)
EXTENDS SourceWorker, Tampering, ProcessCreate, SequenceLemmas, FiniteSetTheorems, TLAPS

\* One if the statement holds.
Unit(holds) == IF holds THEN 1 ELSE 0

\* When at most one element of a finite set changes sides, the number of those
\* on one side changes with it.
LEMMA OneChangesSides ==
    ASSUME NEW T, IsFiniteSet(T), NEW A \in SUBSET T, NEW B \in SUBSET T, NEW t \in T,
           \A u \in T : u # t => (u \in A <=> u \in B)
    PROVE  /\ Cardinality(A) \in Nat /\ Cardinality(B) \in Nat
           /\ Cardinality(B) = Cardinality(A) + Unit(t \in B) - Unit(t \in A)
<1> DEFINE D == A \ {t}
<1>1. IsFiniteSet(D) /\ IsFiniteSet(A) /\ IsFiniteSet(B)
  <2>1. D \subseteq T
    OBVIOUS
  <2> QED BY <2>1, FS_Subset
<1>2. Cardinality(D) \in Nat /\ Cardinality(A) \in Nat /\ Cardinality(B) \in Nat
  BY <1>1, FS_CardinalityType
<1>3. Cardinality(D \cup {t}) = Cardinality(D) + 1
  BY <1>1, FS_AddElement
<1>4. A = IF t \in A THEN D \cup {t} ELSE D
  OBVIOUS
<1>5. B = IF t \in B THEN D \cup {t} ELSE D
  OBVIOUS
<1>6. Cardinality(A) = Cardinality(D) + Unit(t \in A)
  BY <1>2, <1>3, <1>4 DEF Unit
<1>7. Cardinality(B) = Cardinality(D) + Unit(t \in B)
  BY <1>2, <1>3, <1>5 DEF Unit
<1> QED BY <1>2, <1>6, <1>7 DEF Unit

\* The elements on a side are counted, and there is one if the count is not zero.
LEMMA SomeAreThere ==
    ASSUME NEW T, IsFiniteSet(T), NEW A \in SUBSET T
    PROVE  Cardinality(A) \in Nat /\ (Cardinality(A) = 0 <=> A = {})
<1>1. IsFiniteSet(A)
  BY FS_Subset
<1> QED BY <1>1, FS_CardinalityType, FS_EmptySet

-----------------------------------------------------------------------------
(* The work item of a source.                                              *)

Entering == {n \in Notifiers : notifier[n] = "insert"}
Handing == {n \in Notifiers : notifier[n] \in {"clear", "submit"}}
Handling == {w \in WorkThreads : workThread[w] = "handle"}
Running == {w \in WorkThreads : workThread[w] \in {"take", "handle"}}

SourceTyped ==
    /\ notifier \in [Notifiers -> {"out", "filter", "bound", "count", "insert", "exchange",
                                   "clear", "submit"}]
    /\ workThread \in [WorkThreads -> {"free", "take", "handle", "ending"}]
    /\ waiting \in Nat /\ counted \in Int /\ handedOver \in Nat
    /\ flag \in BOOLEAN /\ hooked \in BOOLEAN /\ freedWhileBusy \in BOOLEAN

\* Callbacks run only while the callback is registered, or until the
\* unregistration has waited for them.
CallbacksAreOut ==
    /\ hooked => control = "registered"
    /\ control = "drain" => \A n \in Notifiers : notifier[n] = "out"

\* While the flag is set, one callback, one place in the system's queue or one
\* running routine stands for it.
FlagMeansOne ==
    /\ handedOver + Cardinality(Handing) + Cardinality(Running) <= 1
    /\ ~freedWhileBusy =>
         handedOver + Cardinality(Handing) + Cardinality(Running) = Unit(flag)

Counted == ~freedWhileBusy => counted = waiting + Cardinality(Entering) + Cardinality(Handling)
Coming == ~freedWhileBusy => NoItemStranded

SourceInv == SourceTyped /\ CallbacksAreOut /\ FlagMeansOne /\ Counted /\ Coming

LEMMA SourceCounts ==
    /\ Cardinality(Entering) \in Nat /\ Cardinality(Handing) \in Nat
    /\ Cardinality(Handling) \in Nat /\ Cardinality(Running) \in Nat
    /\ Cardinality(Entering) = 0 <=> Entering = {}
    /\ Cardinality(Handing) = 0 <=> Handing = {}
    /\ Cardinality(Handling) = 0 <=> Handling = {}
    /\ Cardinality(Running) = 0 <=> Running = {}
  BY SourceAssumption, SomeAreThere DEF Entering, Handing, Handling, Running

LEMMA SourceInitially == SourceInit => SourceInv
<1> SUFFICES ASSUME SourceInit PROVE SourceInv
  OBVIOUS
<1>1. SourceTyped
  <2>1. flag \in BOOLEAN /\ hooked \in BOOLEAN /\ freedWhileBusy \in BOOLEAN
    BY Zenon DEF SourceInit
  <2> QED BY <2>1 DEF SourceInit, SourceTyped
<1>2. Entering = {} /\ Handing = {} /\ Handling = {} /\ Running = {}
  BY DEF SourceInit, Entering, Handing, Handling, Running
<1> QED
  BY <1>1, <1>2, SourceCounts DEF SourceInit, SourceInv, CallbacksAreOut, FlagMeansOne, Counted,
     Coming, NoItemStranded, Unit

\* A callback moves: the two counts of callbacks follow it.
LEMMA NotifierMoves ==
    ASSUME SourceTyped, NEW n \in Notifiers, NEW pc, StepTo(n, pc)
    PROVE  /\ Cardinality(Entering)' =
                Cardinality(Entering) + Unit(pc = "insert") - Unit(notifier[n] = "insert")
           /\ Cardinality(Handing)' =
                Cardinality(Handing) + Unit(pc \in {"clear", "submit"})
                                     - Unit(notifier[n] \in {"clear", "submit"})
           /\ notifier'[n] = pc
           /\ \A m \in Notifiers : m # n => notifier'[m] = notifier[m]
<1>1. notifier'[n] = pc /\ \A m \in Notifiers : m # n => notifier'[m] = notifier[m]
  BY DEF StepTo, SourceTyped
<1>2. Entering \in SUBSET Notifiers /\ Entering' \in SUBSET Notifiers
  BY DEF Entering
<1>3. \A m \in Notifiers : m # n => (m \in Entering <=> m \in Entering')
  BY <1>1 DEF Entering
<1>4. (n \in Entering' <=> pc = "insert") /\ (n \in Entering <=> notifier[n] = "insert")
  BY <1>1 DEF Entering
<1>5. Cardinality(Entering') = Cardinality(Entering) + Unit(n \in Entering') - Unit(n \in Entering)
  BY <1>2, <1>3, SourceAssumption, OneChangesSides
<1>6. Handing \in SUBSET Notifiers /\ Handing' \in SUBSET Notifiers
  BY DEF Handing
<1>7. \A m \in Notifiers : m # n => (m \in Handing <=> m \in Handing')
  BY <1>1 DEF Handing
<1>8. /\ n \in Handing' <=> pc \in {"clear", "submit"}
      /\ n \in Handing <=> notifier[n] \in {"clear", "submit"}
  BY <1>1 DEF Handing
<1>9. Cardinality(Handing') = Cardinality(Handing) + Unit(n \in Handing') - Unit(n \in Handing)
  BY <1>6, <1>7, SourceAssumption, OneChangesSides
<1> QED BY <1>1, <1>4, <1>5, <1>8, <1>9 DEF Unit

RunTo(w, pc) == workThread' = [workThread EXCEPT ![w] = pc]

\* A system thread moves: the two counts of threads follow it.
LEMMA WorkThreadMoves ==
    ASSUME SourceTyped, NEW w \in WorkThreads, NEW pc, RunTo(w, pc)
    PROVE  /\ Cardinality(Handling)' =
                Cardinality(Handling) + Unit(pc = "handle") - Unit(workThread[w] = "handle")
           /\ Cardinality(Running)' =
                Cardinality(Running) + Unit(pc \in {"take", "handle"})
                                     - Unit(workThread[w] \in {"take", "handle"})
           /\ workThread'[w] = pc
           /\ \A v \in WorkThreads : v # w => workThread'[v] = workThread[v]
<1>1. workThread'[w] = pc /\ \A v \in WorkThreads : v # w => workThread'[v] = workThread[v]
  BY DEF RunTo, SourceTyped
<1>2. Handling \in SUBSET WorkThreads /\ Handling' \in SUBSET WorkThreads
  BY DEF Handling
<1>3. \A v \in WorkThreads : v # w => (v \in Handling <=> v \in Handling')
  BY <1>1 DEF Handling
<1>4. (w \in Handling' <=> pc = "handle") /\ (w \in Handling <=> workThread[w] = "handle")
  BY <1>1 DEF Handling
<1>5. Cardinality(Handling') = Cardinality(Handling) + Unit(w \in Handling') - Unit(w \in Handling)
  BY <1>2, <1>3, SourceAssumption, OneChangesSides
<1>6. Running \in SUBSET WorkThreads /\ Running' \in SUBSET WorkThreads
  BY DEF Running
<1>7. \A v \in WorkThreads : v # w => (v \in Running <=> v \in Running')
  BY <1>1 DEF Running
<1>8. /\ w \in Running' <=> pc \in {"take", "handle"}
      /\ w \in Running <=> workThread[w] \in {"take", "handle"}
  BY <1>1 DEF Running
<1>9. Cardinality(Running') = Cardinality(Running) + Unit(w \in Running') - Unit(w \in Running)
  BY <1>6, <1>7, SourceAssumption, OneChangesSides
<1> QED BY <1>1, <1>4, <1>5, <1>8, <1>9 DEF Unit

\* The callback: its item is counted, put on the list, and brought to a worker.
LEMMA NotifierKeeps ==
    ASSUME SourceInv, ~freedWhileBusy, NEW n \in Notifiers, CallbackBegins(n) \/ NotifierStep(n)
    PROVE  SourceInv'
<1> USE DEF SourceInv
<1>0. \/ CallbackBegins(n) \/ ThreadCallbackFilters(n) \/ AccessCallbackFilters(n)
      \/ CallbackBounds(n) \/ CallbackCounts(n) \/ CallbackInserts(n)
      \/ QueueExchanges(n) \/ QueueClears(n) \/ QueueSubmits(n)
  BY DEF NotifierStep
<1>1. /\ UNCHANGED <<hooked, workThread, control, freedWhileBusy>>
      /\ notifier[n] = "out" => hooked
  BY <1>0 DEF CallbackBegins, ThreadCallbackFilters, AccessCallbackFilters, CallbackBounds,
     CallbackCounts, CallbackInserts, QueueExchanges, QueueClears, QueueSubmits
<1>2. PICK pc \in {"out", "filter", "bound", "count", "insert", "exchange", "clear", "submit"} :
        StepTo(n, pc)
  BY <1>0 DEF CallbackBegins, ThreadCallbackFilters, AccessCallbackFilters, CallbackBounds,
     CallbackCounts, CallbackInserts, QueueExchanges, QueueClears, QueueSubmits
<1>3. UNCHANGED <<Handling, Running>>
  BY <1>1 DEF Handling, Running
<1>4. control # "drain"
  BY <1>1 DEF CallbacksAreOut
<1>5. CallbacksAreOut'
  BY <1>1, <1>4 DEF CallbacksAreOut
<1>6. /\ Cardinality(Entering)' =
           Cardinality(Entering) + Unit(pc = "insert") - Unit(notifier[n] = "insert")
      /\ Cardinality(Handing)' =
           Cardinality(Handing) + Unit(pc \in {"clear", "submit"})
                                - Unit(notifier[n] \in {"clear", "submit"})
      /\ notifier'[n] = pc
      /\ \A m \in Notifiers : m # n => notifier'[m] = notifier[m]
  BY <1>2, NotifierMoves
<1>7. notifier' \in [Notifiers -> {"out", "filter", "bound", "count", "insert", "exchange",
                                   "clear", "submit"}]
  BY <1>2 DEF StepTo, SourceTyped
<1>8. CASE \/ CallbackBegins(n) \/ ThreadCallbackFilters(n) \/ AccessCallbackFilters(n)
           \/ CallbackBounds(n)
  <2>1. /\ UNCHANGED <<waiting, counted, flag, handedOver>>
        /\ notifier[n] \in {"out", "filter", "bound"}
        /\ notifier'[n] \in {"out", "filter", "bound", "count"}
    BY <1>6, <1>8 DEF CallbackBegins, ThreadCallbackFilters, AccessCallbackFilters,
       CallbackBounds, StepTo, SourceTyped
  <2>2. SourceTyped'
    BY <1>1, <1>7, <2>1 DEF SourceTyped
  <2>3. UNCHANGED <<Cardinality(Entering), Cardinality(Handing)>>
    BY <1>6, <2>1, SourceCounts DEF Unit
  <2>4. FlagMeansOne' /\ Counted'
    BY <1>1, <1>3, <2>1, <2>3 DEF FlagMeansOne, Counted
  <2>5. Coming'
    BY <1>1, <1>6, <2>1 DEF Coming, NoItemStranded
  <2> QED BY <1>5, <2>2, <2>4, <2>5
<1>9. CASE CallbackCounts(n)
  <2>1. /\ UNCHANGED <<waiting, flag, handedOver>> /\ counted' = counted + 1
        /\ notifier[n] = "count" /\ notifier'[n] = "insert"
    BY <1>9 DEF CallbackCounts, StepTo, SourceTyped
  <2>2. SourceTyped'
    BY <1>1, <1>7, <2>1 DEF SourceTyped
  <2>3. /\ Cardinality(Entering)' = Cardinality(Entering) + 1
        /\ UNCHANGED Cardinality(Handing)
    BY <1>6, <2>1, SourceCounts DEF Unit
  <2>4. FlagMeansOne' /\ Counted'
    BY <1>1, <1>3, <2>1, <2>3, SourceCounts DEF FlagMeansOne, Counted, SourceTyped
  <2>5. Coming'
    BY <1>1, <1>6, <2>1 DEF Coming, NoItemStranded
  <2> QED BY <1>5, <2>2, <2>4, <2>5
<1>10. CASE CallbackInserts(n)
  <2>1. /\ UNCHANGED <<counted, flag, handedOver>> /\ waiting' = waiting + 1
        /\ notifier[n] = "insert" /\ notifier'[n] = "exchange"
    BY <1>10 DEF CallbackInserts, StepTo, SourceTyped
  <2>2. SourceTyped'
    BY <1>1, <1>7, <2>1 DEF SourceTyped
  <2>3. /\ Cardinality(Entering)' = Cardinality(Entering) - 1
        /\ UNCHANGED Cardinality(Handing)
    BY <1>6, <2>1, SourceCounts DEF Unit
  <2>4. FlagMeansOne' /\ Counted'
    BY <1>1, <1>3, <2>1, <2>3, SourceCounts DEF FlagMeansOne, Counted, SourceTyped
  <2>5. Coming'
    BY <2>1 DEF Coming, NoItemStranded
  <2> QED BY <1>5, <2>2, <2>4, <2>5
<1>11. CASE QueueExchanges(n) /\ flag
  <2>1. /\ UNCHANGED <<waiting, counted, handedOver>> /\ flag'
        /\ notifier[n] = "exchange" /\ notifier'[n] = "out"
    BY <1>11 DEF QueueExchanges, StepTo, SourceTyped
  <2>2. SourceTyped'
    BY <1>1, <1>7, <2>1 DEF SourceTyped
  <2>3. UNCHANGED <<Cardinality(Entering), Cardinality(Handing)>>
    BY <1>6, <2>1, SourceCounts DEF Unit
  <2>4. FlagMeansOne' /\ Counted'
    BY <1>1, <1>3, <1>11, <2>1, <2>3 DEF FlagMeansOne, Counted, Unit
  <2>5. handedOver > 0 \/ Handing' # {} \/ Running # {}
    BY <1>11, <2>1, <2>3, SomeAreThere, SourceCounts, SourceAssumption
       DEF FlagMeansOne, SourceTyped, Unit, Handing
  <2>6. Coming'
    BY <1>1, <2>1, <2>5 DEF Coming, NoItemStranded, Handing, Running
  <2> QED BY <1>5, <2>2, <2>4, <2>6
<1>12. CASE QueueExchanges(n) /\ ~flag
  <2>1. /\ UNCHANGED <<waiting, counted, handedOver>> /\ flag'
        /\ notifier[n] = "exchange" /\ notifier'[n] = "clear"
    BY <1>12 DEF QueueExchanges, StepTo, SourceTyped
  <2>2. SourceTyped'
    BY <1>1, <1>7, <2>1 DEF SourceTyped
  <2>3. /\ UNCHANGED Cardinality(Entering)
        /\ Cardinality(Handing)' = Cardinality(Handing) + 1
    BY <1>6, <2>1, SourceCounts DEF Unit
  <2>4. handedOver + Cardinality(Handing) + Cardinality(Running) = 0
    BY <1>12 DEF FlagMeansOne, Unit
  <2>6. Unit(flag)' = 1
    BY <2>1 DEF Unit
  <2>7. FlagMeansOne'
    <3>1. (handedOver + Cardinality(Handing) + Cardinality(Running))' = 1
      BY <1>1, <1>3, <2>1, <2>3, <2>4, SourceCounts DEF SourceTyped
    <3>2. (handedOver + Cardinality(Handing) + Cardinality(Running))' <= 1
      BY <3>1
    <3> QED BY <2>6, <3>1, <3>2, Zenon DEF FlagMeansOne
  <2>8. Counted'
    BY <1>1, <1>3, <2>1, <2>3 DEF Counted
  <2>5. Coming'
    BY <2>1 DEF Coming, NoItemStranded
  <2> QED BY <1>5, <2>2, <2>5, <2>7, <2>8
<1>13. CASE QueueClears(n)
  <2>1. /\ UNCHANGED <<waiting, counted, flag, handedOver>>
        /\ notifier[n] = "clear" /\ notifier'[n] = "submit"
    BY <1>13 DEF QueueClears, StepTo, SourceTyped
  <2>2. SourceTyped'
    BY <1>1, <1>7, <2>1 DEF SourceTyped
  <2>3. UNCHANGED <<Cardinality(Entering), Cardinality(Handing)>>
    BY <1>6, <2>1, SourceCounts DEF Unit
  <2>4. FlagMeansOne' /\ Counted'
    BY <1>1, <1>3, <2>1, <2>3 DEF FlagMeansOne, Counted
  <2>5. Coming'
    BY <2>1 DEF Coming, NoItemStranded
  <2> QED BY <1>5, <2>2, <2>4, <2>5
<1>14. CASE QueueSubmits(n)
  <2>1. /\ UNCHANGED <<waiting, counted, flag>> /\ handedOver' = handedOver + 1
        /\ notifier[n] = "submit" /\ notifier'[n] = "out"
    BY <1>14 DEF QueueSubmits, StepTo, SourceTyped
  <2>2. SourceTyped'
    BY <1>1, <1>7, <2>1 DEF SourceTyped
  <2>3. /\ UNCHANGED Cardinality(Entering)
        /\ Cardinality(Handing)' = Cardinality(Handing) - 1
    BY <1>6, <2>1, SourceCounts DEF Unit
  <2>4. FlagMeansOne' /\ Counted'
    BY <1>1, <1>3, <2>1, <2>3, SourceCounts DEF FlagMeansOne, Counted, SourceTyped
  <2>5. Coming'
    BY <2>1 DEF Coming, NoItemStranded, SourceTyped
  <2> QED BY <1>5, <2>2, <2>4, <2>5
<1> QED BY <1>0, <1>8, <1>9, <1>10, <1>11, <1>12, <1>13, <1>14

\* The routine: it takes the token from the system's queue, and gives it up with
\* the list empty.
LEMMA WorkerKeeps ==
    ASSUME SourceInv, ~freedWhileBusy, NEW w \in WorkThreads, WorkStep(w)
    PROVE  SourceInv'
<1> USE DEF SourceInv
<1>1. /\ UNCHANGED <<hooked, notifier, control, freedWhileBusy>>
      /\ UNCHANGED <<Entering, Handing>>
  BY DEF WorkStep, WorkStarts, WorkTakes, WorkHandles, WorkFindsNone, WorkEnds, Entering, Handing
<1>2. CallbacksAreOut'
  BY <1>1 DEF CallbacksAreOut
<1>3. CASE WorkStarts(w)
  <2>1. /\ UNCHANGED <<waiting, counted, flag>> /\ handedOver' = handedOver - 1 /\ handedOver > 0
        /\ workThread[w] = "free" /\ RunTo(w, "take")
    BY <1>3 DEF WorkStarts, RunTo
  <2>2. SourceTyped'
    BY <1>1, <2>1 DEF SourceTyped, RunTo
  <2>3. /\ UNCHANGED Cardinality(Handling) /\ workThread'[w] = "take"
        /\ Cardinality(Running)' = Cardinality(Running) + 1
    BY <2>1, WorkThreadMoves, SourceCounts DEF Unit
  <2>4. FlagMeansOne' /\ Counted'
    BY <1>1, <2>1, <2>3, SourceCounts DEF FlagMeansOne, Counted, SourceTyped
  <2>5. Coming'
    BY <2>3 DEF Coming, NoItemStranded
  <2> QED BY <1>2, <2>2, <2>4, <2>5
<1>4. CASE WorkTakes(w)
  <2>1. /\ UNCHANGED <<handedOver, counted, flag>> /\ waiting' = waiting - 1 /\ waiting > 0
        /\ workThread[w] = "take" /\ RunTo(w, "handle")
    BY <1>4 DEF WorkTakes, RunTo
  <2>2. SourceTyped'
    BY <1>1, <2>1 DEF SourceTyped, RunTo
  <2>3. /\ UNCHANGED Cardinality(Running) /\ workThread'[w] = "handle"
        /\ Cardinality(Handling)' = Cardinality(Handling) + 1
    BY <2>1, WorkThreadMoves, SourceCounts DEF Unit
  <2>4. FlagMeansOne' /\ Counted'
    BY <1>1, <2>1, <2>3, SourceCounts DEF FlagMeansOne, Counted, SourceTyped
  <2>5. Coming'
    BY <2>3 DEF Coming, NoItemStranded
  <2> QED BY <1>2, <2>2, <2>4, <2>5
<1>5. CASE WorkHandles(w)
  <2>1. /\ UNCHANGED <<handedOver, waiting, flag>> /\ counted' = counted - 1
        /\ workThread[w] = "handle" /\ RunTo(w, "take")
    BY <1>5 DEF WorkHandles, RunTo
  <2>2. SourceTyped'
    BY <1>1, <2>1 DEF SourceTyped, RunTo
  <2>3. /\ UNCHANGED Cardinality(Running) /\ workThread'[w] = "take"
        /\ Cardinality(Handling)' = Cardinality(Handling) - 1
    BY <2>1, WorkThreadMoves, SourceCounts DEF Unit
  <2>4. FlagMeansOne' /\ Counted'
    BY <1>1, <2>1, <2>3, SourceCounts DEF FlagMeansOne, Counted, SourceTyped
  <2>5. Coming'
    BY <2>3 DEF Coming, NoItemStranded
  <2> QED BY <1>2, <2>2, <2>4, <2>5
<1>6. CASE WorkFindsNone(w)
  <2>1. /\ UNCHANGED <<handedOver, waiting, counted>> /\ flag' = FALSE /\ waiting = 0
        /\ workThread[w] = "take" /\ RunTo(w, "ending")
    BY <1>6 DEF WorkFindsNone, RunTo
  <2>2. SourceTyped'
    BY <1>1, <2>1 DEF SourceTyped, RunTo
  <2>3. /\ UNCHANGED Cardinality(Handling)
        /\ Cardinality(Running)' = Cardinality(Running) - 1
    BY <2>1, WorkThreadMoves, SourceCounts DEF Unit
  <2>4. w \in Running
    BY <2>1 DEF Running
  <2>5. Cardinality(Running) # 0
    BY <2>4, SourceCounts
  <2>6. FlagMeansOne' /\ Counted'
    BY <1>1, <2>1, <2>3, <2>5, SourceCounts DEF FlagMeansOne, Counted, SourceTyped, Unit
  <2>7. Coming'
    BY <2>1 DEF Coming, NoItemStranded
  <2> QED BY <1>2, <2>2, <2>6, <2>7
<1>7. CASE WorkEnds(w)
  <2>1. /\ UNCHANGED <<handedOver, waiting, counted, flag>>
        /\ workThread[w] = "ending" /\ RunTo(w, "free")
    BY <1>7 DEF WorkEnds, RunTo
  <2>2. SourceTyped'
    BY <1>1, <2>1 DEF SourceTyped, RunTo
  <2>3. /\ UNCHANGED <<Cardinality(Handling), Cardinality(Running)>>
        /\ \A v \in WorkThreads : workThread[v] \in {"take", "handle"} =>
                                    workThread'[v] = workThread[v]
    BY <2>1, WorkThreadMoves, SourceCounts DEF Unit
  <2>4. FlagMeansOne' /\ Counted'
    BY <1>1, <2>1, <2>3 DEF FlagMeansOne, Counted
  <2>5. Coming'
    BY <1>1, <2>1, <2>3 DEF Coming, NoItemStranded
  <2> QED BY <1>2, <2>2, <2>4, <2>5
<1> QED BY <1>3, <1>4, <1>5, <1>6, <1>7 DEF WorkStep

\* Registration and unregistration.
LEMMA ControlKeeps ==
    ASSUME SourceInv, ~freedWhileBusy,
           \/ ThreadRegisters \/ AccessAllocates \/ AccessRegisters
           \/ Unhook \/ AwaitIdle \/ DrainAndFree
    PROVE  SourceInv'
<1> USE DEF SourceInv
<1>1. UNCHANGED <<handedOver, notifier, workThread>>
  BY DEF ThreadRegisters, AccessAllocates, AccessRegisters, Unhook, AwaitIdle, DrainAndFree
<1>2. UNCHANGED <<Entering, Handing, Handling, Running>>
  BY <1>1 DEF Entering, Handing, Handling, Running
<1>3. CASE \/ ThreadRegisters \/ AccessAllocates \/ AccessRegisters \/ Unhook \/ AwaitIdle
  <2>1. UNCHANGED <<waiting, counted, flag, freedWhileBusy>> /\ hooked' \in BOOLEAN
    BY <1>3 DEF ThreadRegisters, AccessAllocates, AccessRegisters, Unhook, AwaitIdle, SourceTyped
  <2>2. SourceTyped'
    BY <1>1, <2>1 DEF SourceTyped
  <2>3. CallbacksAreOut'
    BY <1>3 DEF ThreadRegisters, AccessAllocates, AccessRegisters, Unhook, AwaitIdle,
       CallbacksAreOut, SourceTyped
  <2>4. FlagMeansOne' /\ Counted'
    BY <1>1, <1>2, <2>1 DEF FlagMeansOne, Counted
  <2>5. Coming'
    BY <1>1, <2>1 DEF Coming, NoItemStranded
  <2> QED BY <2>2, <2>3, <2>4, <2>5
<1>4. CASE DrainAndFree
  <2>1. /\ waiting' = 0 /\ counted' = 0 /\ flag' = FALSE /\ hooked' = hooked
        /\ control = "drain" /\ control' = "unregistered"
        /\ freedWhileBusy' <=> handedOver > 0 \/ \E w \in WorkThreads : workThread[w] # "free"
    BY <1>4 DEF DrainAndFree
  <2>2. freedWhileBusy' \in BOOLEAN /\ flag' \in BOOLEAN
    BY <1>4, Zenon DEF DrainAndFree
  <2>3. SourceTyped'
    BY <1>1, <2>1, <2>2 DEF SourceTyped
  <2>4. CallbacksAreOut'
    BY <2>1 DEF CallbacksAreOut
  <2>5. Entering = {} /\ Handing = {}
    BY <2>1 DEF CallbacksAreOut, Entering, Handing
  <2>6. ~freedWhileBusy' => handedOver = 0 /\ Handling = {} /\ Running = {}
    BY <2>1 DEF Handling, Running, SourceTyped
  <2>7. FlagMeansOne'
    BY <1>1, <1>2, <2>1, <2>5, <2>6, SourceCounts DEF FlagMeansOne, Unit
  <2>8. Counted' /\ Coming'
    BY <1>1, <1>2, <2>1, <2>5, <2>6, SourceCounts DEF Counted, Coming, NoItemStranded
  <2> QED BY <2>3, <2>4, <2>7, <2>8
<1> QED BY <1>3, <1>4

\* The worker is queued at most once, every item is counted once, and none is
\* left without a worker (thread.c 393-467, obcallback.c 465-765).
THEOREM WorkIsAccounted == SourceSpec => []WorkAccounted
<1>1. SourceInv /\ [SourceNext]_sourceVars => SourceInv'
  <2> SUFFICES ASSUME SourceInv, [SourceNext]_sourceVars PROVE SourceInv'
    OBVIOUS
  <2>1. CASE SourceNext
    BY <2>1, NotifierKeeps, WorkerKeeps, ControlKeeps DEF SourceNext
  <2>2. CASE UNCHANGED sourceVars
    BY <2>2 DEF sourceVars, SourceInv, SourceTyped, CallbacksAreOut, FlagMeansOne, Counted,
       Coming, NoItemStranded, Entering, Handing, Handling, Running
  <2> QED BY <2>1, <2>2
<1>2. SourceInv => WorkAccounted
  <2> SUFFICES ASSUME SourceInv PROVE WorkAccounted
    OBVIOUS
  <2>1. SubmittedOnce
    BY SourceCounts DEF SourceInv, FlagMeansOne, SubmittedOnce, SourceTyped, Handing
  <2>2. ~freedWhileBusy => CountIsExact
    BY DEF SourceInv, Counted, CountIsExact, Entering, Handling
  <2> QED BY <2>1, <2>2 DEF SourceInv, Coming, WorkAccounted
<1> QED BY SourceInitially, <1>1, <1>2, PTL DEF SourceSpec

-----------------------------------------------------------------------------
(* The work item of a tampering check.                                     *)

Workers == Loads \cup Retries
CheckPlaces == {"out", "enter", "open", "capture", "query", "requeue", "compare", "file",
                "report", "over", "release", "rundown"}
Checks == [pc : CheckPlaces, pid : TamperPids, budget : Int, attempt : Int]
Waits == [pc : {"out", "wait", "leave"}, refs : Int, signalled : BOOLEAN, freed : BOOLEAN]

TamperTyped ==
    /\ check \in [Workers -> Checks]
    /\ load \in [Loads -> Waits]
    /\ tracked \in [TamperPids -> Int]
    /\ rundown \in Int

\* The worker has not yet given back its reference to the item.
Uses(l) == check[l].pc \notin {"out", "rundown"}

\* The item has a reference of the waiter and one of the worker.
RefsAreExact ==
    \A l \in Loads :
      /\ load[l].refs = Unit(load[l].pc # "out") + Unit(Uses(l))
      /\ load[l].freed <=> load[l].refs = 0

Inside == {l \in Loads : load[l].pc # "out"}
Checking == {w \in Workers : check[w].pc # "out"}

\* The driver has a reference of every waiter and of every check.
RundownIsExact == rundown = Cardinality(Inside) + Cardinality(Checking)
NoneOutlivesDriver == unload = "done" => Inside = {} /\ Checking = {}

TamperInv == TamperTyped /\ RefsAreExact /\ RundownIsExact /\ NoneOutlivesDriver

LEMMA TamperCounts ==
    /\ IsFiniteSet(Workers)
    /\ Cardinality(Inside) \in Nat /\ Cardinality(Checking) \in Nat
    /\ Cardinality(Inside) = 0 <=> Inside = {}
    /\ Cardinality(Checking) = 0 <=> Checking = {}
<1>1. IsFiniteSet(Loads) /\ IsFiniteSet(Workers)
  BY TamperingAssumption, FS_Union DEF Workers
<1>2. Inside \in SUBSET Loads /\ Checking \in SUBSET Workers
  BY DEF Inside, Checking
<1> QED BY <1>1, <1>2, SomeAreThere

LEMMA NoCheckIsTyped == NoCheck \in Checks /\ NoCheck.pc = "out"
<1>1. (CHOOSE p \in TamperPids : TRUE) \in TamperPids
  BY TamperingAssumption
<1> QED BY <1>1 DEF NoCheck, Checks, CheckPlaces

LEMMA TamperInitially == TamperInit => TamperInv
<1> SUFFICES ASSUME TamperInit PROVE TamperInv
  OBVIOUS
<1>1. TamperTyped
  BY NoCheckIsTyped DEF TamperInit, TamperTyped, NoLoad, Waits, Workers, Untracked
<1>2. Inside = {} /\ Checking = {}
  BY NoCheckIsTyped DEF TamperInit, Inside, Checking, NoLoad, Workers
<1>3. RefsAreExact
  BY NoCheckIsTyped DEF TamperInit, RefsAreExact, NoLoad, Uses, Unit, Workers
<1> QED
  BY <1>1, <1>2, <1>3, TamperCounts DEF TamperInit, TamperInv, RundownIsExact, NoneOutlivesDriver

\* One waiter moves, one check moves: the two counts follow.
LEMMA WaiterMoves ==
    ASSUME NEW l \in Loads, \A m \in Loads : m # l => load'[m].pc = load[m].pc
    PROVE  Cardinality(Inside)' =
             Cardinality(Inside) + Unit(load'[l].pc # "out") - Unit(load[l].pc # "out")
<1>1. Inside \in SUBSET Loads /\ Inside' \in SUBSET Loads
  BY DEF Inside
<1>2. \A m \in Loads : m # l => (m \in Inside <=> m \in Inside')
  BY DEF Inside
<1>3. (l \in Inside <=> load[l].pc # "out") /\ (l \in Inside' <=> load'[l].pc # "out")
  BY DEF Inside
<1>4. Cardinality(Inside') = Cardinality(Inside) + Unit(l \in Inside') - Unit(l \in Inside)
  BY <1>1, <1>2, TamperingAssumption, OneChangesSides
<1> QED BY <1>3, <1>4 DEF Unit

LEMMA CheckMoves ==
    ASSUME NEW w \in Workers, \A v \in Workers : v # w => check'[v].pc = check[v].pc
    PROVE  Cardinality(Checking)' =
             Cardinality(Checking) + Unit(check'[w].pc # "out") - Unit(check[w].pc # "out")
<1>1. Checking \in SUBSET Workers /\ Checking' \in SUBSET Workers
  BY DEF Checking
<1>2. \A v \in Workers : v # w => (v \in Checking <=> v \in Checking')
  BY DEF Checking
<1>3. (w \in Checking <=> check[w].pc # "out") /\ (w \in Checking' <=> check'[w].pc # "out")
  BY DEF Checking
<1>4. Cardinality(Checking') = Cardinality(Checking) + Unit(w \in Checking') - Unit(w \in Checking)
  BY <1>1, <1>2, TamperCounts, OneChangesSides
<1> QED BY <1>3, <1>4 DEF Unit

\* What tracking a process again can make of the list.
LEMMA TrackingIsTyped ==
    ASSUME tracked \in [TamperPids -> Int], NEW p \in TamperPids, NEW budget \in Int,
           NEW t \in Tracking(p, budget)
    PROVE  t \in [TamperPids -> Int]
  BY DEF Tracking

LEMMA CheckToIsTyped ==
    ASSUME TamperTyped, NEW w \in Workers, NEW pc \in CheckPlaces, CheckTo(w, pc)
    PROVE  /\ check' \in [Workers -> Checks] /\ check'[w].pc = pc
           /\ \A v \in Workers : v # w => check'[v] = check[v]
  BY DEF CheckTo, TamperTyped, Checks

LEMMA SettleIsTyped ==
    ASSUME TamperTyped, NEW w \in Workers, Settle(w)
    PROVE  /\ check' \in [Workers -> Checks] /\ check'[w].pc = "capture"
           /\ \A v \in Workers : v # w => check'[v] = check[v]
<1> DEFINE c == [pc |-> "capture", pid |-> check[w].pid, budget |-> check[w].budget,
                 attempt |-> check[w].attempt + 1]
<1>1. c \in Checks /\ c.pc = "capture"
  BY DEF TamperTyped, Checks, CheckPlaces
<1>2. check' = [check EXCEPT ![w] = c]
  BY DEF Settle
<1> HIDE DEF c
<1> QED BY <1>1, <1>2 DEF TamperTyped

\* The places of a check before it is over.
Early == {"enter", "open", "capture", "query", "requeue", "compare", "file", "report"}

\* A step of a check, a new retry apart, changes its place and the list only.
LEMMA CheckAdvances ==
    ASSUME TamperTyped, NEW w \in Workers, CheckStep(w), ~CheckRequeues(w)
    PROVE  /\ check[w].pc \in Early /\ check'[w].pc \in Early \cup {"over"}
           /\ check' \in [Workers -> Checks] /\ tracked' \in [TamperPids -> Int]
           /\ \A v \in Workers : v # w => check'[v] = check[v]
           /\ UNCHANGED <<load, rundown, unload>>
<1> DEFINE Advances == /\ check'[w].pc \in Early \cup {"over"}
                       /\ check' \in [Workers -> Checks]
                       /\ \A v \in Workers : v # w => check'[v] = check[v]
<1>0. ASSUME NEW pc \in Early \cup {"over"}, CheckTo(w, pc) PROVE Advances
  BY <1>0, CheckToIsTyped DEF Early, CheckPlaces
<1>1. Settle(w) => Advances
  BY SettleIsTyped DEF Early
<1>2. check[w].pid \in TamperPids /\ check[w].budget \in Int /\ tracked[check[w].pid] \in Int
  BY DEF TamperTyped, Checks
<1> HIDE DEF Advances
<1>3. CASE CheckEnters(w)
  <2>1. ASSUME check' = [check EXCEPT ![w] = [pc |-> "open", pid |-> check[w].pid, attempt |-> 1,
                                              budget |-> tracked[check[w].pid]]]
        PROVE  Advances
    <3> DEFINE c == [pc |-> "open", pid |-> check[w].pid, attempt |-> 1,
                     budget |-> tracked[check[w].pid]]
    <3>1. c \in Checks /\ c.pc = "open"
      BY <1>2 DEF Checks, CheckPlaces
    <3>2. check' = [check EXCEPT ![w] = c]
      BY <2>1
    <3> HIDE DEF c
    <3> QED BY <3>1, <3>2 DEF Advances, TamperTyped, Early
  <2>2. CheckTo(w, "over") => Advances
    BY <1>0 DEF Early
  <2>3. Advances
    BY <1>3, <2>1, <2>2 DEF CheckEnters
  <2>4. tracked' \in [TamperPids -> Int] /\ check[w].pc = "enter"
    BY <1>3 DEF CheckEnters, TamperTyped, Untracked
  <2>5. UNCHANGED <<load, rundown, unload>>
    BY <1>3 DEF CheckEnters
  <2> QED BY <2>3, <2>4, <2>5 DEF Advances, Early
<1>4. CASE CheckOpens(w)
  <2>1. Advances
    BY <1>0, <1>4 DEF CheckOpens, Early
  <2> QED BY <1>4, <2>1 DEF CheckOpens, Advances, TamperTyped, Early
<1>5. CASE CheckCaptures(w)
  <2>1. Advances
    BY <1>0, <1>1, <1>5 DEF CheckCaptures, Early
  <2> QED BY <1>5, <2>1 DEF CheckCaptures, Advances, TamperTyped, Early
<1>6. CASE CheckQueries(w)
  <2>1. Advances
    BY <1>0, <1>1, <1>6 DEF CheckQueries, Early
  <2>2. tracked' \in [TamperPids -> Int]
    <3>1. \/ UNCHANGED tracked
          \/ tracked' \in Tracking(check[w].pid, check[w].budget - 1)
      BY <1>6 DEF CheckQueries
    <3>2. check[w].budget - 1 \in Int
      BY <1>2
    <3> QED BY <1>2, <3>1, <3>2, TrackingIsTyped DEF TamperTyped
  <2> QED BY <1>6, <2>1, <2>2 DEF CheckQueries, Advances, Early
<1>7. CASE CheckCompares(w)
  <2>1. Advances
    BY <1>0, <1>1, <1>7 DEF CheckCompares, Early
  <2> QED BY <1>7, <2>1 DEF CheckCompares, Advances, TamperTyped, Early
<1>8. CASE CheckReadsFile(w)
  <2>1. Advances
    BY <1>0, <1>8 DEF CheckReadsFile, Early
  <2> QED BY <1>8, <2>1 DEF CheckReadsFile, Advances, TamperTyped, Early
<1>9. CASE CheckReports(w)
  <2>1. Advances
    BY <1>0, <1>9 DEF CheckReports, Early
  <2> QED BY <1>9, <2>1 DEF CheckReports, Advances, TamperTyped, Early
<1> QED BY <1>3, <1>4, <1>5, <1>6, <1>7, <1>8, <1>9 DEF CheckStep

\* A check at work keeps the references of the item and of the driver.
LEMMA ChecksKeep ==
    ASSUME TamperInv, NEW w \in Workers, CheckStep(w), ~CheckRequeues(w)
    PROVE  TamperInv'
<1> USE DEF TamperInv
<1>1. /\ check[w].pc \in Early /\ check'[w].pc \in Early \cup {"over"}
      /\ check' \in [Workers -> Checks] /\ tracked' \in [TamperPids -> Int]
      /\ \A v \in Workers : v # w => check'[v] = check[v]
      /\ UNCHANGED <<load, rundown, unload>>
  BY CheckAdvances
<1>2. TamperTyped'
  BY <1>1 DEF TamperTyped
<1>3. UNCHANGED Inside /\ UNCHANGED Checking
  BY <1>1 DEF Inside, Checking, Early
<1>4. \A l \in Loads : Uses(l)' <=> Uses(l)
  BY <1>1 DEF Uses, Early, Workers
<1>5. RefsAreExact'
  BY <1>1, <1>4 DEF RefsAreExact, Unit
<1> QED BY <1>1, <1>2, <1>3, <1>5 DEF RundownIsExact, NoneOutlivesDriver

\* A check that is queued again takes a reference of its own to the driver.
LEMMA RequeueKeeps ==
    ASSUME TamperInv, NEW w \in Workers, CheckRequeues(w)
    PROVE  TamperInv'
<1> USE DEF TamperInv
<1>1. check[w].pc = "requeue" /\ UNCHANGED <<tracked, load, unload>>
  BY DEF CheckRequeues
<1>2. UNCHANGED Inside
  BY <1>1 DEF Inside
<1>3. CASE CheckTo(w, "over") /\ UNCHANGED rundown
  <2>1. /\ check' \in [Workers -> Checks] /\ check'[w].pc = "over"
        /\ \A v \in Workers : v # w => check'[v] = check[v]
    BY <1>3, CheckToIsTyped DEF CheckPlaces
  <2>2. TamperTyped'
    BY <1>1, <1>3, <2>1 DEF TamperTyped
  <2>3. UNCHANGED Checking
    BY <1>1, <2>1 DEF Checking
  <2>4. \A l \in Loads : Uses(l)' <=> Uses(l)
    BY <1>1, <2>1 DEF Uses, Workers
  <2>5. RefsAreExact'
    BY <1>1, <2>4 DEF RefsAreExact, Unit
  <2> QED BY <1>1, <1>2, <1>3, <2>2, <2>3, <2>5 DEF RundownIsExact, NoneOutlivesDriver
<1>4. ASSUME NEW r \in Retries, unload = "no", check[r].pc = "out", rundown' = rundown + 1,
             check' = [check EXCEPT ![w].pc = "over", ![r] = NewCheck(check[w].pid)]
      PROVE  TamperInv'
  <2>1. r \in Workers /\ r # w /\ r \notin Loads
    BY <1>1, <1>4, TamperingAssumption DEF Workers
  <2>2. check[w].pid \in TamperPids
    BY DEF TamperTyped, Checks
  <2>3. NewCheck(check[w].pid) \in Checks /\ NewCheck(check[w].pid).pc = "enter"
    BY <2>2 DEF NewCheck, Checks, CheckPlaces
  <2>4. /\ check' \in [Workers -> Checks] /\ check'[w].pc = "over" /\ check'[r].pc = "enter"
        /\ \A v \in Workers : v # w /\ v # r => check'[v] = check[v]
    BY <1>4, <2>1, <2>3 DEF TamperTyped, Checks, CheckPlaces
  <2>5. TamperTyped'
    BY <1>1, <1>4, <2>4 DEF TamperTyped
  <2>6. \A v \in Workers : v # r => (check'[v].pc # "out" <=> check[v].pc # "out")
    BY <1>1, <2>4
  <2>7. Cardinality(Checking)' = Cardinality(Checking) + 1
    <3>1. Checking \in SUBSET Workers /\ Checking' \in SUBSET Workers
      BY DEF Checking
    <3>2. /\ \A v \in Workers : v # r => (v \in Checking <=> v \in Checking')
          /\ r \in Checking' /\ r \notin Checking
      BY <1>4, <2>1, <2>4, <2>6 DEF Checking
    <3>3. Cardinality(Checking') = Cardinality(Checking) + Unit(r \in Checking')
                                                         - Unit(r \in Checking)
      BY <2>1, <3>1, <3>2, TamperCounts, OneChangesSides
    <3> QED BY <3>2, <3>3, TamperCounts DEF Unit
  <2>8. \A l \in Loads : Uses(l)' <=> Uses(l)
    BY <1>1, <2>1, <2>4 DEF Uses, Workers
  <2>9. RefsAreExact'
    BY <1>1, <2>8 DEF RefsAreExact, Unit
  <2>10. RundownIsExact'
    BY <1>2, <1>4, <2>7, TamperCounts DEF RundownIsExact, TamperTyped
  <2> QED BY <1>1, <1>4, <2>5, <2>9, <2>10 DEF NoneOutlivesDriver
<1> QED BY <1>3, <1>4 DEF CheckRequeues

\* A reference to an item less.
LEMMA DroppedIsTyped ==
    ASSUME NEW l \in Loads, load[l] \in Waits
    PROVE  LET end == TrackDropped(l)
           IN /\ end \in Waits /\ end.pc = load[l].pc /\ end.refs = load[l].refs - 1
              /\ end.freed <=> load[l].refs = 1
<1> DEFINE last == (load[l].refs = 1)
<1>1. last \in BOOLEAN
  BY Zenon
<1>2. /\ load[l].refs \in Int /\ load[l].signalled \in BOOLEAN
      /\ load[l].pc \in {"out", "wait", "leave"}
  BY DEF Waits
<1>3. TrackDropped(l) = [pc |-> load[l].pc, refs |-> load[l].refs - 1,
                         signalled |-> load[l].signalled, freed |-> last]
  BY DEF TrackDropped
<1>4. last <=> load[l].refs = 1
  OBVIOUS
<1> HIDE DEF last
<1> QED BY <1>1, <1>2, <1>3, <1>4 DEF Waits

\* The waiter, from its start to its end.
LEMMA WaiterKeeps ==
    ASSUME TamperInv, NEW l \in Loads, LoadQueues(l) \/ LoadWakes(l) \/ LoadLeaves(l)
    PROVE  TamperInv'
<1> USE DEF TamperInv
<1>0. l \in Workers /\ load[l] \in Waits
  BY DEF Workers, TamperTyped
<1>1. CASE LoadQueues(l)
  <2>1. PICK p \in TamperPids : check' = [check EXCEPT ![l] = NewCheck(p)]
    BY <1>1 DEF LoadQueues
  <2>2. NewCheck(p) \in Checks /\ NewCheck(p).pc = "enter"
    BY DEF NewCheck, Checks, CheckPlaces
  <2>3. /\ check' \in [Workers -> Checks] /\ check'[l].pc = "enter" /\ check[l].pc = "out"
        /\ \A v \in Workers : v # l => check'[v] = check[v]
    BY <1>0, <1>1, <2>1, <2>2 DEF LoadQueues, TamperTyped
  <2>4. /\ load' = [load EXCEPT ![l] = [pc |-> "wait", refs |-> 2, signalled |-> FALSE,
                                        freed |-> FALSE]]
        /\ load[l].pc = "out" /\ rundown' = rundown + 2 /\ UNCHANGED tracked
        /\ unload = "no" /\ UNCHANGED unload
    BY <1>1 DEF LoadQueues
  <2>5. /\ load' \in [Loads -> Waits]
        /\ load'[l].pc = "wait" /\ load'[l].refs = 2 /\ ~load'[l].freed
        /\ \A m \in Loads : m # l => load'[m] = load[m]
    BY <2>4 DEF TamperTyped, Waits
  <2>6. TamperTyped'
    BY <2>3, <2>4, <2>5 DEF TamperTyped
  <2>7. RefsAreExact'
    <3>1. \A m \in Loads : m # l => Uses(m)' = Uses(m)
      BY <2>3 DEF Uses, Workers
    <3>2. Uses(l)'
      BY <2>3 DEF Uses
    <3> QED BY <2>5, <3>1, <3>2 DEF RefsAreExact, Unit
  <2>8. /\ Cardinality(Inside)' = Cardinality(Inside) + 1
        /\ Cardinality(Checking)' = Cardinality(Checking) + 1
    BY <1>0, <2>3, <2>4, <2>5, WaiterMoves, CheckMoves, TamperCounts DEF Unit
  <2>9. RundownIsExact'
    BY <2>4, <2>8, TamperCounts DEF RundownIsExact, TamperTyped
  <2> QED BY <2>4, <2>6, <2>7, <2>9 DEF NoneOutlivesDriver
<1>2. CASE LoadWakes(l)
  <2>1. /\ load' = [load EXCEPT ![l].pc = "leave"] /\ load[l].pc = "wait"
        /\ UNCHANGED <<tracked, check, rundown, unload>>
    BY <1>2 DEF LoadWakes
  <2>2. /\ load' \in [Loads -> Waits] /\ load'[l].pc = "leave"
        /\ \A m \in Loads : load'[m].refs = load[m].refs /\ load'[m].freed = load[m].freed
        /\ \A m \in Loads : m # l => load'[m] = load[m]
    BY <2>1 DEF TamperTyped, Waits
  <2>3. TamperTyped'
    BY <2>1, <2>2 DEF TamperTyped
  <2>4. UNCHANGED Inside /\ UNCHANGED Checking
    BY <2>1, <2>2 DEF Inside, Checking
  <2>5. RefsAreExact'
    BY <2>1, <2>2 DEF RefsAreExact, Unit, Uses
  <2> QED BY <2>1, <2>3, <2>4, <2>5 DEF RundownIsExact, NoneOutlivesDriver
<1>3. CASE LoadLeaves(l)
  <2> DEFINE end == [TrackDropped(l) EXCEPT !.pc = "out"]
  <2>1. /\ load' = [load EXCEPT ![l] = end] /\ load[l].pc = "leave"
        /\ rundown' = rundown - 1 /\ UNCHANGED <<tracked, check, unload>>
    BY <1>3 DEF LoadLeaves
  <2>2. /\ end \in Waits /\ end.pc = "out" /\ end.refs = load[l].refs - 1
        /\ end.freed <=> load[l].refs = 1
    BY <1>0, DroppedIsTyped DEF Waits
  <2> HIDE DEF end
  <2>3. /\ load' \in [Loads -> Waits] /\ load'[l] = end
        /\ \A m \in Loads : m # l => load'[m] = load[m]
    BY <2>1, <2>2 DEF TamperTyped
  <2>4. TamperTyped'
    BY <2>1, <2>3 DEF TamperTyped
  <2>5. Uses(l)' = Uses(l) /\ \A m \in Loads : Uses(m)' = Uses(m)
    BY <2>1 DEF Uses
  <2>6. RefsAreExact'
    BY <1>0, <2>1, <2>2, <2>3, <2>5 DEF RefsAreExact, Unit, Waits
  <2>7. Cardinality(Inside)' = Cardinality(Inside) - 1
    BY <2>1, <2>2, <2>3, WaiterMoves, TamperCounts DEF Unit
  <2>8. UNCHANGED Checking
    BY <2>1 DEF Checking
  <2>9. RundownIsExact'
    BY <2>1, <2>7, <2>8, TamperCounts DEF RundownIsExact, TamperTyped
  <2>10. l \in Inside
    BY <2>1 DEF Inside
  <2> QED BY <2>1, <2>4, <2>6, <2>9, <2>10 DEF NoneOutlivesDriver
<1> QED BY <1>1, <1>2, <1>3

\* The worker: the event, the reference to the item, the one to the driver.
LEMMA TamperWorkerKeeps ==
    ASSUME TamperInv, NEW l \in Loads, WorkSignals(l) \/ WorkReleases(l) \/ WorkRundown(l)
    PROVE  TamperInv'
<1> USE DEF TamperInv
<1>0. l \in Workers /\ load[l] \in Waits
  BY DEF Workers, TamperTyped
<1>1. CASE WorkSignals(l)
  <2>1. /\ load' = [load EXCEPT ![l].signalled = TRUE] /\ check[l].pc = "over"
        /\ CheckTo(l, "release") /\ UNCHANGED <<tracked, rundown, unload>>
    BY <1>1 DEF WorkSignals
  <2>2. /\ check' \in [Workers -> Checks] /\ check'[l].pc = "release"
        /\ \A v \in Workers : v # l => check'[v] = check[v]
    BY <1>0, <2>1, CheckToIsTyped DEF CheckPlaces
  <2>3. /\ load' \in [Loads -> Waits]
        /\ \A m \in Loads : /\ load'[m].pc = load[m].pc /\ load'[m].refs = load[m].refs
                            /\ load'[m].freed = load[m].freed
    BY <2>1 DEF TamperTyped, Waits
  <2>4. TamperTyped'
    BY <2>1, <2>2, <2>3 DEF TamperTyped
  <2>5. UNCHANGED Inside /\ UNCHANGED Checking
    BY <2>1, <2>2, <2>3 DEF Inside, Checking
  <2>6. \A m \in Loads : Uses(m)' <=> Uses(m)
    BY <2>1, <2>2 DEF Uses, Workers
  <2>7. RefsAreExact'
    BY <2>3, <2>6 DEF RefsAreExact, Unit
  <2> QED BY <2>1, <2>4, <2>5, <2>7 DEF RundownIsExact, NoneOutlivesDriver
<1>2. CASE WorkReleases(l)
  <2> DEFINE end == TrackDropped(l)
  <2>1. /\ load' = [load EXCEPT ![l] = end] /\ check[l].pc = "release"
        /\ CheckTo(l, "rundown") /\ UNCHANGED <<tracked, rundown, unload>>
    BY <1>2 DEF WorkReleases
  <2>2. /\ check' \in [Workers -> Checks] /\ check'[l].pc = "rundown"
        /\ \A v \in Workers : v # l => check'[v] = check[v]
    BY <1>0, <2>1, CheckToIsTyped DEF CheckPlaces
  <2>3. /\ end \in Waits /\ end.pc = load[l].pc /\ end.refs = load[l].refs - 1
        /\ end.freed <=> load[l].refs = 1
    BY <1>0, DroppedIsTyped
  <2> HIDE DEF end
  <2>4. /\ load' \in [Loads -> Waits] /\ load'[l] = end
        /\ \A m \in Loads : m # l => load'[m] = load[m]
    BY <2>1, <2>3 DEF TamperTyped
  <2>5. TamperTyped'
    BY <2>1, <2>2, <2>4 DEF TamperTyped
  <2>6. UNCHANGED Inside /\ UNCHANGED Checking
    BY <2>1, <2>2, <2>3, <2>4 DEF Inside, Checking
  <2>7. Uses(l) /\ ~Uses(l)' /\ \A m \in Loads : m # l => (Uses(m)' <=> Uses(m))
    BY <2>1, <2>2 DEF Uses, Workers
  <2>8. RefsAreExact'
    BY <1>0, <2>3, <2>4, <2>7 DEF RefsAreExact, Unit, Waits
  <2> QED BY <2>1, <2>5, <2>6, <2>8 DEF RundownIsExact, NoneOutlivesDriver
<1>3. CASE WorkRundown(l)
  <2>1. /\ check' = [check EXCEPT ![l] = NoCheck] /\ check[l].pc = "rundown"
        /\ rundown' = rundown - 1 /\ UNCHANGED <<tracked, load, unload>>
    BY <1>3 DEF WorkRundown
  <2>2. /\ check' \in [Workers -> Checks] /\ check'[l].pc = "out"
        /\ \A v \in Workers : v # l => check'[v] = check[v]
    BY <1>0, <2>1, NoCheckIsTyped DEF TamperTyped
  <2>3. TamperTyped'
    BY <2>1, <2>2 DEF TamperTyped
  <2>4. \A m \in Loads : Uses(m)' <=> Uses(m)
    BY <2>1, <2>2 DEF Uses, Workers
  <2>5. RefsAreExact'
    BY <2>1, <2>4 DEF RefsAreExact, Unit
  <2>6. UNCHANGED Inside /\ Cardinality(Checking)' = Cardinality(Checking) - 1
    BY <1>0, <2>1, <2>2, CheckMoves, TamperCounts DEF Unit, Inside
  <2>7. RundownIsExact'
    BY <2>1, <2>6, TamperCounts DEF RundownIsExact, TamperTyped
  <2>8. l \in Checking
    BY <1>0, <2>1 DEF Checking
  <2> QED BY <2>1, <2>3, <2>5, <2>7, <2>8 DEF NoneOutlivesDriver
<1> QED BY <1>1, <1>2, <1>3

LEMMA RetryKeeps ==
    ASSUME TamperInv, NEW r \in Retries, RetryEnds(r)
    PROVE  TamperInv'
<1> USE DEF TamperInv
<1>0. r \in Workers /\ r \notin Loads
  BY TamperingAssumption DEF Workers
<1>1. /\ check' = [check EXCEPT ![r] = NoCheck] /\ check[r].pc = "over"
      /\ rundown' = rundown - 1 /\ UNCHANGED <<tracked, load, unload>>
  BY DEF RetryEnds
<1>2. /\ check' \in [Workers -> Checks] /\ check'[r].pc = "out"
      /\ \A v \in Workers : v # r => check'[v] = check[v]
  BY <1>0, <1>1, NoCheckIsTyped DEF TamperTyped
<1>3. TamperTyped'
  BY <1>1, <1>2 DEF TamperTyped
<1>4. \A m \in Loads : Uses(m)' <=> Uses(m)
  BY <1>0, <1>1, <1>2 DEF Uses, Workers
<1>5. RefsAreExact'
  BY <1>1, <1>4 DEF RefsAreExact, Unit
<1>6. UNCHANGED Inside /\ Cardinality(Checking)' = Cardinality(Checking) - 1
  BY <1>0, <1>1, <1>2, CheckMoves, TamperCounts DEF Unit, Inside
<1>7. RundownIsExact'
  BY <1>1, <1>6, TamperCounts DEF RundownIsExact, TamperTyped
<1>8. r \in Checking
  BY <1>0, <1>1 DEF Checking
<1> QED BY <1>1, <1>3, <1>5, <1>7, <1>8 DEF NoneOutlivesDriver

\* The list of processes, and the driver's end.
LEMMA OthersKeep ==
    ASSUME TamperInv,
           \/ \E p \in TamperPids : ProcessCreated(p)
           \/ UnregisterTampering \/ RegisterTampering \/ UnloadAsked \/ UnloadDone
           \/ UNCHANGED tamperVars
    PROVE  TamperInv'
<1> USE DEF TamperInv
<1>1. UNCHANGED <<load, check, rundown>>
  BY DEF ProcessCreated, UnregisterTampering, RegisterTampering, UnloadAsked, UnloadDone,
     tamperVars
<1>2. tracked' \in [TamperPids -> Int]
  <2>1. ASSUME NEW p \in TamperPids, ProcessCreated(p) PROVE tracked' \in [TamperPids -> Int]
    BY <2>1, TrackingIsTyped, TamperingAssumption DEF ProcessCreated, TamperTyped
  <2>2. CASE \/ UnregisterTampering \/ RegisterTampering \/ UnloadAsked \/ UnloadDone
             \/ UNCHANGED tamperVars
    BY <2>2 DEF UnregisterTampering, RegisterTampering, UnloadAsked, UnloadDone, tamperVars,
       TamperTyped, Untracked
  <2> QED BY <2>1, <2>2
<1>3. TamperTyped'
  BY <1>1, <1>2 DEF TamperTyped
<1>4. UNCHANGED Inside /\ UNCHANGED Checking
  BY <1>1 DEF Inside, Checking
<1>5. RefsAreExact'
  BY <1>1 DEF RefsAreExact, Uses
<1>6. RundownIsExact'
  BY <1>1, <1>4 DEF RundownIsExact
<1>7. unload' = "done" => unload = "done" \/ rundown = 0
  BY DEF ProcessCreated, UnregisterTampering, RegisterTampering, UnloadAsked, UnloadDone,
     tamperVars
<1>8. NoneOutlivesDriver'
  BY <1>4, <1>7, TamperCounts DEF NoneOutlivesDriver, RundownIsExact
<1> QED BY <1>3, <1>5, <1>6, <1>8

LEMMA TamperInvHolds == TamperSpec => []TamperInv
<1>1. TamperInv /\ [TamperNext]_tamperVars => TamperInv'
  <2> SUFFICES ASSUME TamperInv, [TamperNext]_tamperVars PROVE TamperInv'
    OBVIOUS
  <2>1. ASSUME NEW w \in Loads \cup Retries, CheckStep(w) PROVE TamperInv'
    BY <2>1, ChecksKeep, RequeueKeeps DEF Workers
  <2>2. ASSUME NEW l \in Loads, LoadQueues(l) \/ LoadStep(l) PROVE TamperInv'
    BY <2>2, WaiterKeeps, TamperWorkerKeeps DEF LoadStep
  <2> QED BY <2>1, <2>2, RetryKeeps, OthersKeep DEF TamperNext
<1> QED BY TamperInitially, <1>1, PTL DEF TamperSpec

\* The work item of a check is freed by the last of its two users, and the
\* driver unloads after them (tampering.c 303-325, 1333-1400).
THEOREM HandoffIsAlwaysSafe == TamperSpec => []HandoffIsSafe
<1>1. TamperInv => HandoffIsSafe
  <2> SUFFICES ASSUME TamperInv PROVE HandoffIsSafe
    OBVIOUS
  <2>1. ASSUME NEW l \in Loads, load[l].pc # "out" \/ Uses(l) PROVE ~load[l].freed
    BY <2>1 DEF TamperInv, RefsAreExact, Unit
  <2> QED BY <2>1 DEF HandoffIsSafe, Uses, TamperInv, NoneOutlivesDriver, Inside, Checking, Workers
<1> QED BY TamperInvHolds, <1>1, PTL

-----------------------------------------------------------------------------
(* What is left of a creation: a process that is tracked, a check that has *)
(* taken it off the list, a report.                                        *)

HoldingPlaces == {"open", "capture", "query", "compare", "file", "report"}
Holds(c) == c.pc \in HoldingPlaces

ReportsTyped ==
    created \in [TamperPids -> Int] /\ reports \in [TamperPids -> Int]

\* What p has come to: checks at work on it, reports, a place on the list.
Left(p) == Cardinality(Holding(p)) + reports[p] + Unit(tracked[p] # Untracked)

ReportInv == ReportsTyped /\ \A p \in TamperPids : Left(p) <= created[p]

LEMMA HoldingIsCounted ==
    ASSUME NEW p
    PROVE  /\ Holding(p) = {w \in Workers : check[w].pid = p /\ Holds(check[w])}
           /\ Cardinality(Holding(p)) \in Nat
<1>1. Holding(p) = {w \in Workers : check[w].pid = p /\ Holds(check[w])}
  BY DEF Holding, Workers, Holds, HoldingPlaces
<1>2. Holding(p) \in SUBSET Workers
  BY <1>1
<1> QED BY <1>1, <1>2, TamperCounts, SomeAreThere

\* One check moves: the number of those at work on its process follows.
LEMMA HoldingMoves ==
    ASSUME NEW w \in Workers, NEW p, check'[w].pid = check[w].pid,
           \A v \in Workers : v # w => check'[v] = check[v]
    PROVE  Cardinality(Holding(p))' =
             IF check[w].pid = p
             THEN Cardinality(Holding(p)) + Unit(Holds(check'[w])) - Unit(Holds(check[w]))
             ELSE Cardinality(Holding(p))
<1> DEFINE A == {v \in Workers : check[v].pid = p /\ Holds(check[v])}
           B == {v \in Workers : check'[v].pid = p /\ Holds(check'[v])}
<1>1. Holding(p) = A /\ Holding(p)' = B
  BY DEF Holding, Workers, Holds, HoldingPlaces
<1>2. \A v \in Workers : v # w => (v \in A <=> v \in B)
  OBVIOUS
<1>3. /\ w \in A <=> check[w].pid = p /\ Holds(check[w])
      /\ w \in B <=> check[w].pid = p /\ Holds(check'[w])
  OBVIOUS
<1> HIDE DEF A, B
<1>4. /\ Cardinality(A) \in Nat
      /\ Cardinality(B) = Cardinality(A) + Unit(w \in B) - Unit(w \in A)
  <2>1. A \in SUBSET Workers /\ B \in SUBSET Workers
    BY DEF A, B
  <2> QED BY <2>1, <1>2, TamperCounts, OneChangesSides
<1> QED BY <1>1, <1>3, <1>4 DEF Unit

\* A step of a check leaves its process no more than it had.
LEMMA StepsBalance ==
    ASSUME ReportInv, NEW w \in Workers, check'[w].pid = check[w].pid,
           \A v \in Workers : v # w => check'[v] = check[v],
           UNCHANGED created, reports' \in [TamperPids -> Int],
           \A q \in TamperPids : q # check[w].pid => tracked'[q] = tracked[q]
                                                     /\ reports'[q] = reports[q],
           LET p == check[w].pid
           IN Unit(Holds(check'[w])) + reports'[p] + Unit(tracked'[p] # Untracked)
                <= Unit(Holds(check[w])) + reports[p] + Unit(tracked[p] # Untracked)
    PROVE  ReportInv'
<1>1. ASSUME NEW q \in TamperPids PROVE Left(q)' <= created'[q]
  <2>1. Cardinality(Holding(q)) \in Nat /\ Left(q) <= created[q]
    BY HoldingIsCounted DEF ReportInv
  <2>2. reports[q] \in Int /\ reports'[q] \in Int /\ created[q] \in Int
    BY DEF ReportInv, ReportsTyped
  <2>3. CASE q # check[w].pid
    <3>1. Cardinality(Holding(q))' = Cardinality(Holding(q))
      BY <2>3, HoldingMoves
    <3> QED BY <2>1, <2>3, <3>1 DEF Left
  <2>4. CASE q = check[w].pid
    <3>1. Cardinality(Holding(q))' =
            Cardinality(Holding(q)) + Unit(Holds(check'[w])) - Unit(Holds(check[w]))
      BY <2>4, HoldingMoves
    <3> QED BY <2>1, <2>2, <2>4, <3>1 DEF Left, Unit
  <2> QED BY <2>3, <2>4
<1> QED BY <1>1 DEF ReportInv, ReportsTyped

\* A check takes its process off the list, puts it back, or reports it.
LEMMA ChecksReportOnce ==
    ASSUME TamperInv, ReportInv, NEW w \in Workers, CheckStep(w), ~CheckRequeues(w)
    PROVE  ReportInv'
<1> DEFINE p == check[w].pid
<1>0. /\ TamperTyped /\ ReportsTyped /\ p \in TamperPids /\ tracked[p] \in Int
      /\ \A v \in Workers : v # w => check'[v] = check[v]
  BY CheckAdvances DEF TamperInv, ReportInv, TamperTyped, Checks
<1>1. ASSUME NEW pc \in CheckPlaces, CheckTo(w, pc)
      PROVE  check'[w].pid = p /\ check'[w].pc = pc
  BY <1>0, <1>1 DEF CheckTo, TamperTyped, Checks
<1>2. Settle(w) => check'[w].pid = p /\ check'[w].pc = "capture"
  <2>1. ASSUME Settle(w) PROVE check'[w].pid = p /\ check'[w].pc = "capture"
    <3> DEFINE c == [pc |-> "capture", pid |-> p, budget |-> check[w].budget,
                     attempt |-> check[w].attempt + 1]
    <3>1. check' = [check EXCEPT ![w] = c]
      BY <2>1 DEF Settle
    <3>2. c.pid = p /\ c.pc = "capture"
      OBVIOUS
    <3> HIDE DEF c
    <3> QED BY <1>0, <3>1, <3>2 DEF TamperTyped
  <2> QED BY <2>1
<1> USE DEF CheckPlaces
<1>3. CASE CheckEnters(w)
  <2>1. check[w].pc = "enter" /\ UNCHANGED <<created, reports>>
    BY <1>3 DEF CheckEnters
  <2>2. CASE watching /\ tracked[p] # Untracked
    <3> DEFINE c == [pc |-> "open", pid |-> p, attempt |-> 1, budget |-> tracked[p]]
    <3>1. check' = [check EXCEPT ![w] = c] /\ tracked' = [tracked EXCEPT ![p] = Untracked]
      BY <1>3, <2>2 DEF CheckEnters
    <3>2. c.pid = p /\ c.pc = "open"
      OBVIOUS
    <3> HIDE DEF c
    <3>3. /\ check'[w].pid = p /\ check'[w].pc = "open"
          /\ tracked'[p] = Untracked
          /\ \A q \in TamperPids : q # p => tracked'[q] = tracked[q]
      BY <1>0, <3>1, <3>2 DEF TamperTyped
    <3>4. Unit(Holds(check'[w])) = 1 /\ Unit(Holds(check[w])) = 0
          /\ Unit(tracked'[p] # Untracked) = 0 /\ Unit(tracked[p] # Untracked) = 1
      BY <2>1, <2>2, <3>3 DEF Holds, HoldingPlaces, Unit
    <3>5. reports'[p] = reports[p] /\ reports[p] \in Int
      BY <1>0, <2>1 DEF ReportsTyped
    <3> HIDE DEF p
    <3> QED BY <1>0, <2>1, <3>3, <3>4, <3>5, StepsBalance DEF p, ReportsTyped
  <2>3. CASE ~(watching /\ tracked[p] # Untracked)
    <3>1. CheckTo(w, "over") /\ UNCHANGED tracked
      BY <1>3, <2>3 DEF CheckEnters
    <3>2. check'[w].pid = p /\ Unit(Holds(check'[w])) = 0 /\ Unit(Holds(check[w])) = 0
      BY <1>1, <2>1, <3>1 DEF Holds, HoldingPlaces, Unit
    <3>3. Unit(tracked[p] # Untracked) \in Int /\ reports[p] \in Int
      BY <1>0 DEF ReportsTyped, Unit
    <3> QED BY <1>0, <2>1, <3>1, <3>2, <3>3, StepsBalance DEF ReportsTyped
  <2> QED BY <2>2, <2>3
<1> DEFINE Quiet == /\ check'[w].pid = p /\ (Holds(check'[w]) => Holds(check[w]))
                    /\ UNCHANGED <<tracked, created, reports>>
<1>4. Quiet => ReportInv'
  <2> SUFFICES ASSUME Quiet PROVE ReportInv'
    OBVIOUS
  <2>1. Unit(tracked[p] # Untracked) \in Int /\ reports[p] \in Int
        /\ Unit(Holds(check'[w])) <= Unit(Holds(check[w]))
        /\ Unit(Holds(check'[w])) \in Int /\ Unit(Holds(check[w])) \in Int
    BY <1>0 DEF ReportsTyped, Unit
  <2> QED BY <1>0, <2>1, StepsBalance DEF ReportsTyped
<1>5. CASE CheckOpens(w) \/ CheckCaptures(w) \/ CheckCompares(w) \/ CheckReadsFile(w)
  <2>1. check[w].pc \in {"open", "capture", "compare", "file"}
        /\ UNCHANGED <<tracked, created, reports>>
    BY <1>5 DEF CheckOpens, CheckCaptures, CheckCompares, CheckReadsFile
  <2>2. \/ \E pc \in CheckPlaces : CheckTo(w, pc)
        \/ Settle(w)
    BY <1>5 DEF CheckOpens, CheckCaptures, CheckCompares, CheckReadsFile
  <2>3. check'[w].pid = p
    BY <1>1, <1>2, <2>2
  <2>4. Holds(check[w])
    BY <2>1 DEF Holds, HoldingPlaces
  <2> QED BY <1>4, <2>1, <2>3, <2>4
<1>6. CASE CheckQueries(w)
  <2>1. check[w].pc = "query" /\ UNCHANGED <<created, reports>>
    BY <1>6 DEF CheckQueries
  <2>2. CASE UNCHANGED tracked
    <3>1. \/ \E pc \in CheckPlaces : CheckTo(w, pc)
          \/ Settle(w)
      BY <1>6 DEF CheckQueries
    <3>2. check'[w].pid = p /\ Holds(check[w])
      BY <1>1, <1>2, <2>1, <3>1 DEF Holds, HoldingPlaces
    <3> QED BY <1>4, <2>1, <2>2, <3>2
  <2>3. CASE tracked' # tracked
    <3>1. tracked' \in Tracking(p, check[w].budget - 1) /\ CheckTo(w, "requeue")
      BY <1>6, <2>3 DEF CheckQueries
    <3>2. check'[w].pid = p /\ check'[w].pc = "requeue"
      BY <1>1, <3>1
    <3>3. \A q \in TamperPids : q # p => tracked'[q] = tracked[q]
      BY <1>0, <3>1 DEF Tracking, TamperTyped
    <3>4. Unit(Holds(check'[w])) = 0 /\ Unit(Holds(check[w])) = 1
      BY <2>1, <3>2 DEF Holds, HoldingPlaces, Unit
    <3>5. Unit(tracked'[p] # Untracked) <= Unit(tracked[p] # Untracked) + 1
          /\ Unit(tracked'[p] # Untracked) \in Int /\ Unit(tracked[p] # Untracked) \in Int
          /\ reports[p] \in Int
      BY <1>0 DEF Unit, ReportsTyped
    <3> QED BY <1>0, <2>1, <3>2, <3>3, <3>4, <3>5, StepsBalance DEF ReportsTyped
  <2> QED BY <2>2, <2>3
<1>7. CASE CheckReports(w)
  <2>1. /\ check[w].pc = "report" /\ UNCHANGED <<created, tracked>>
        /\ reports' = [reports EXCEPT ![p] = @ + 1] \/ UNCHANGED reports
        /\ CheckTo(w, "over")
    BY <1>7 DEF CheckReports
  <2>2. check'[w].pid = p /\ Unit(Holds(check'[w])) = 0 /\ Unit(Holds(check[w])) = 1
    BY <1>1, <2>1 DEF Holds, HoldingPlaces, Unit
  <2>3. /\ reports' \in [TamperPids -> Int] /\ reports[p] \in Int
        /\ reports'[p] \in {reports[p], reports[p] + 1}
        /\ \A q \in TamperPids : q # p => reports'[q] = reports[q]
    BY <1>0, <2>1 DEF ReportsTyped
  <2>4. Unit(tracked[p] # Untracked) \in Int
    BY DEF Unit
  <2> QED BY <1>0, <2>1, <2>2, <2>3, <2>4, StepsBalance
<1> QED BY <1>3, <1>5, <1>6, <1>7 DEF CheckStep

\* The other steps take nothing off the list and report nothing, but for the
\* creation of a process, which is counted.
LEMMA OthersReportOnce ==
    ASSUME TamperInv, ReportInv,
           UNCHANGED <<reports>>,
           \A q \in TamperPids : Holding(q)' = Holding(q),
           created' \in [TamperPids -> Int],
           \A q \in TamperPids : Unit(tracked'[q] # Untracked) - Unit(tracked[q] # Untracked)
                                   <= created'[q] - created[q]
    PROVE  ReportInv'
<1>1. ASSUME NEW q \in TamperPids PROVE Left(q)' <= created'[q]
  <2>1. Cardinality(Holding(q)) \in Nat /\ Left(q) <= created[q]
    BY HoldingIsCounted DEF ReportInv
  <2>2. reports[q] \in Int /\ created[q] \in Int /\ created'[q] \in Int
    BY DEF ReportInv, ReportsTyped
  <2>3. Unit(tracked'[q] # Untracked) \in Int /\ Unit(tracked[q] # Untracked) \in Int
    BY DEF Unit
  <2> QED BY <2>1, <2>2, <2>3 DEF Left
<1> QED BY <1>1 DEF ReportInv, ReportsTyped

LEMMA HoldingStays ==
    ASSUME \A v \in Workers : \/ check'[v] = check[v]
                              \/ ~Holds(check[v]) /\ ~Holds(check'[v])
    PROVE  \A q : Holding(q)' = Holding(q)
BY DEF Holding, Workers, Holds, HoldingPlaces

\* A created process is tracked, under check or reported, but only once
\* (tampering.c 457-489, 1123-1131, 1205-1222).
THEOREM CreationsReportedOnce == TamperSpec => []ReportedOnce
<1>1. TamperInit => ReportInv
  <2> SUFFICES ASSUME TamperInit PROVE ReportInv
    OBVIOUS
  <2>1. \A p : Holding(p) = {}
    BY NoCheckIsTyped DEF TamperInit, Holding, Workers
  <2> QED BY <2>1, FS_EmptySet DEF TamperInit, ReportInv, ReportsTyped, Left, Unit, Untracked
<1>2. TamperInv /\ ReportInv /\ [TamperNext]_tamperVars => ReportInv'
  <2> SUFFICES ASSUME TamperInv, ReportInv, [TamperNext]_tamperVars PROVE ReportInv'
    OBVIOUS
  <2>0. TamperTyped /\ ReportsTyped
    BY DEF TamperInv, ReportInv
  <2>1. ASSUME NEW w \in Workers, CheckStep(w), ~CheckRequeues(w) PROVE ReportInv'
    BY <2>1, ChecksReportOnce
  <2>2. ASSUME UNCHANGED <<tracked, created, reports>>,
               \A v \in Workers : \/ check'[v] = check[v]
                                  \/ ~Holds(check[v]) /\ ~Holds(check'[v])
        PROVE  ReportInv'
    <3>1. \A q \in TamperPids : Unit(tracked'[q] # Untracked) - Unit(tracked[q] # Untracked)
                                   <= created'[q] - created[q]
      BY <2>0, <2>2 DEF ReportsTyped, Unit
    <3> QED BY <2>0, <2>2, <3>1, HoldingStays, OthersReportOnce DEF ReportsTyped
  <2>3. ASSUME NEW w \in Workers, CheckRequeues(w) PROVE ReportInv'
    <3>1. check[w].pc = "requeue" /\ UNCHANGED <<tracked, created, reports>>
      BY <2>3 DEF CheckRequeues
    <3>2. CASE CheckTo(w, "over")
      BY <2>0, <2>2, <3>1, <3>2, CheckToIsTyped DEF Holds, HoldingPlaces, CheckPlaces
    <3>3. ASSUME NEW r \in Retries, check[r].pc = "out",
                 check' = [check EXCEPT ![w].pc = "over", ![r] = NewCheck(check[w].pid)]
          PROVE  ReportInv'
      <4>1. r \in Workers /\ r # w
        BY <3>1, <3>3 DEF Workers
      <4>2. /\ check'[w].pc = "over" /\ check'[r].pc = "enter"
            /\ \A v \in Workers : v # w /\ v # r => check'[v] = check[v]
        BY <2>0, <3>3, <4>1 DEF TamperTyped, Checks, NewCheck
      <4> QED BY <2>2, <3>1, <3>3, <4>1, <4>2 DEF Holds, HoldingPlaces
    <3> QED BY <2>3, <3>2, <3>3 DEF CheckRequeues
  <2>4. ASSUME NEW l \in Loads, LoadQueues(l) PROVE ReportInv'
    <3>1. PICK p \in TamperPids : check' = [check EXCEPT ![l] = NewCheck(p)]
      BY <2>4 DEF LoadQueues
    <3>2. check[l].pc = "out" /\ UNCHANGED <<tracked, created, reports>>
      BY <2>4 DEF LoadQueues
    <3>3. l \in Workers /\ check'[l].pc = "enter" /\ \A v \in Workers : v # l => check'[v] = check[v]
      BY <2>0, <3>1 DEF TamperTyped, Workers, NewCheck
    <3> QED BY <2>2, <3>2, <3>3 DEF Holds, HoldingPlaces
  <2>5. ASSUME NEW l \in Loads, LoadStep(l) PROVE ReportInv'
    <3>1. UNCHANGED <<tracked, created, reports>> /\ l \in Workers
      BY <2>5 DEF LoadStep, LoadWakes, LoadLeaves, WorkSignals, WorkReleases, WorkRundown, Workers
    <3>2. CASE LoadWakes(l) \/ LoadLeaves(l)
      BY <2>2, <3>1, <3>2 DEF LoadWakes, LoadLeaves
    <3>3. CASE WorkSignals(l) \/ WorkReleases(l)
      <4>1. PICK pc \in {"release", "rundown"} : CheckTo(l, pc)
        BY <3>3 DEF WorkSignals, WorkReleases
      <4>2. check[l].pc \in {"over", "release"}
        BY <3>3 DEF WorkSignals, WorkReleases
      <4>3. check'[l].pc = pc /\ \A v \in Workers : v # l => check'[v] = check[v]
        BY <2>0, <3>1, <4>1, CheckToIsTyped DEF CheckPlaces
      <4> QED BY <2>2, <3>1, <4>2, <4>3 DEF Holds, HoldingPlaces
    <3>4. CASE WorkRundown(l)
      <4>1. check' = [check EXCEPT ![l] = NoCheck] /\ check[l].pc = "rundown"
        BY <3>4 DEF WorkRundown
      <4>2. check'[l].pc = "out" /\ \A v \in Workers : v # l => check'[v] = check[v]
        BY <2>0, <3>1, <4>1, NoCheckIsTyped DEF TamperTyped
      <4> QED BY <2>2, <3>1, <4>1, <4>2 DEF Holds, HoldingPlaces
    <3> QED BY <2>5, <3>2, <3>3, <3>4 DEF LoadStep
  <2>6. ASSUME NEW r \in Retries, RetryEnds(r) PROVE ReportInv'
    <3>1. /\ check' = [check EXCEPT ![r] = NoCheck] /\ check[r].pc = "over" /\ r \in Workers
          /\ UNCHANGED <<tracked, created, reports>>
      BY <2>6 DEF RetryEnds, Workers
    <3>2. check'[r].pc = "out" /\ \A v \in Workers : v # r => check'[v] = check[v]
      BY <2>0, <3>1, NoCheckIsTyped DEF TamperTyped
    <3> QED BY <2>2, <3>1, <3>2 DEF Holds, HoldingPlaces
  <2>7. ASSUME NEW p \in TamperPids, ProcessCreated(p) PROVE ReportInv'
    <3>1. /\ tracked' \in Tracking(p, Budget) /\ created' = [created EXCEPT ![p] = @ + 1]
          /\ UNCHANGED <<reports, check>>
      BY <2>7 DEF ProcessCreated
    <3>2. \A q \in TamperPids : q # p => tracked'[q] = tracked[q]
      BY <2>0, <3>1 DEF Tracking, TamperTyped
    <3>3. \A q \in TamperPids : created[q] \in Int
                                /\ created'[q] = IF q = p THEN created[q] + 1 ELSE created[q]
      BY <2>0, <3>1 DEF ReportsTyped
    <3>4. \A q \in TamperPids : Unit(tracked'[q] # Untracked) - Unit(tracked[q] # Untracked)
                                   <= created'[q] - created[q]
      BY <3>2, <3>3 DEF Unit
    <3>5. created' \in [TamperPids -> Int]
      BY <2>0, <3>1 DEF ReportsTyped
    <3> QED BY <3>1, <3>4, <3>5, HoldingStays, OthersReportOnce
  <2>8. CASE UnregisterTampering \/ RegisterTampering \/ UnloadDone
    <3>1. /\ UNCHANGED <<reports, created, check>>
          /\ tracked' = [p \in TamperPids |-> Untracked]
      BY <2>8 DEF UnregisterTampering, RegisterTampering, UnloadDone
    <3>2. \A q \in TamperPids : Unit(tracked'[q] # Untracked) - Unit(tracked[q] # Untracked)
                                   <= created'[q] - created[q]
      BY <2>0, <3>1 DEF ReportsTyped, Unit
    <3> QED BY <2>0, <3>1, <3>2, HoldingStays, OthersReportOnce DEF ReportsTyped
  <2>9. CASE UnloadAsked \/ UNCHANGED tamperVars
    BY <2>2, <2>9 DEF UnloadAsked, tamperVars
  <2> QED BY <2>1, <2>3, <2>4, <2>5, <2>6, <2>7, <2>8, <2>9 DEF TamperNext, Workers
<1>3. ReportInv => ReportedOnce
  BY DEF ReportInv, ReportedOnce, Left, Unit
<1> QED BY TamperInvHolds, <1>1, <1>2, <1>3, PTL DEF TamperSpec

-----------------------------------------------------------------------------
(* The creation of a process.                                              *)

ProcessStages == {"gone", "create", "queue", "created", "running", "finalize", "consume",
                  "terminate"}
FinalizerPlaces == {"out", "populate", "cache", "publish", "complete"}
FinalizerRecords == [pc : FinalizerPlaces, pid : Pids, strings : Nat, identity : Nat,
                     consume : BOOLEAN]

ProcessTyped ==
    /\ process \in [Pids -> [number : Nat, stage : ProcessStages]]
    /\ pending \in [Pids -> [of : Nat, busy : BOOLEAN]]
    /\ finalizer \in [Finalizers -> FinalizerRecords]
    /\ workList \in Seq(Pids)
    /\ eventOnes \in Seq([strings : Nat, identity : Nat])

\* While the worker is asked for, it is asked for once: by the callback that
\* is about to queue it, in the system's queue, or at work.
WorkerIsAskedOnce ==
    /\ ~workFlag => workList = <<>> /\ submit = {} /\ ~inSystem /\ worker = "idle"
    /\ worker = "take" => submit = {} /\ ~inSystem
    /\ inSystem => submit = {}
    /\ \A p, q \in submit : p = q
    /\ taking <=> hook = "registered"
    /\ hook = "unregistered" => ~workFlag

\* While the flags are set an entry is of the process that has its pid, and the
\* exit callback drops it; none is left without the callback.
EntriesFit ==
    /\ \A p \in Pids : pending[p].of # 0 =>
         /\ flags = "on" => process[p].stage \notin {"gone", "create", "terminate"}
         /\ flags = "on" \/ ~reusedEarly => pending[p].of = process[p].number
    /\ \A p \in Pids : process[p].stage \in InCallback
                         => hook = "registered" /\ flags # "disabled"
    /\ hook = "unregistered" => \A p \in Pids : pending[p].of = 0
    /\ hook # "registered" => flags \notin {"on", "disabled"}
    /\ flags = "disabled" => \A p \in Pids : pending[p].of = 0

NumbersDiffer ==
    \A p, q \in Pids : process[p].number = process[q].number => p = q \/ process[p].number = 0

Published(s) == \E i \in DOMAIN eventOnes : eventOnes[i].strings = s

\* A finalizer at work has its entry to itself, of the process that has the
\* pid; until it has decided to consume it the creation is not published.
AtWork(f) == finalizer[f].pc # "out"
FinalizersFit ==
    /\ \A f \in Finalizers : AtWork(f) =>
         /\ finalizer[f].strings = process[finalizer[f].pid].number
         /\ finalizer[f].strings > 0
         /\ pending[finalizer[f].pid].of # 0 => pending[finalizer[f].pid].busy
         /\ finalizer[f].pc \in {"cache", "publish"} => finalizer[f].identity = finalizer[f].strings
         /\ (finalizer[f].pc = "complete" /\ finalizer[f].consume) \/ ~Published(finalizer[f].strings)
    /\ \A f, g \in Finalizers :
         AtWork(f) /\ AtWork(g) /\ finalizer[f].pid = finalizer[g].pid => f = g

\* What may be begun is not published.
EntriesUnpublished ==
    \A p \in Pids : pending[p].of # 0 /\ ~pending[p].busy => ~Published(pending[p].of)

EventsFit ==
    /\ \A i \in DOMAIN eventOnes : /\ eventOnes[i].strings = eventOnes[i].identity
                                   /\ eventOnes[i].strings < NextNumber
    /\ \A i, j \in DOMAIN eventOnes : eventOnes[i].strings = eventOnes[j].strings => i = j

\* Of a process whose callback has just entered nothing is known.
NewcomersFit ==
    \A p \in Pids : process[p].stage = "create" =>
      /\ pending[p].of = 0 /\ ~Published(process[p].number)
      /\ \A f \in Finalizers : AtWork(f) => finalizer[f].pid # p

PublishedOnce ==
    ~reusedEarly => FinalizersFit /\ EntriesUnpublished /\ EventsFit /\ NewcomersFit

ProcessInv ==
    ProcessTyped /\ WorkerIsAskedOnce /\ EntriesFit /\ NumbersDiffer /\ PublishedOnce

-----------------------------------------------------------------------------
\* The next number is above those that are given.
LEMMA NextIsNew ==
    ASSUME NEW numbers \in [Pids -> Nat]
    PROVE  LET next == 1 + Max({numbers[p] : p \in Pids})
           IN /\ next \in Nat /\ next > 0
              /\ \A p \in Pids : numbers[p] < next
              /\ \E p \in Pids : next = numbers[p] + 1
<1> DEFINE top == Max({numbers[p] : p \in Pids})
<1>1. top \in Nat /\ (\E p \in Pids : numbers[p] = top) /\ \A p \in Pids : numbers[p] <= top
  BY ProcessAssumption, HighestOf
<1> HIDE DEF top
<1>2. /\ 1 + top \in Nat /\ 1 + top > 0 /\ (\A p \in Pids : numbers[p] < 1 + top)
      /\ \E p \in Pids : 1 + top = numbers[p] + 1
  BY <1>1
<1> QED BY <1>2 DEF top

LEMMA NextNumberIsNew ==
    ASSUME process \in [Pids -> [number : Nat, stage : ProcessStages]]
    PROVE  /\ NextNumber \in Nat /\ NextNumber > 0
           /\ \A p \in Pids : process[p].number < NextNumber
           /\ \E p \in Pids : NextNumber = process[p].number + 1
<1> DEFINE numbers == [p \in Pids |-> process[p].number]
<1>1. numbers \in [Pids -> Nat] /\ \A p \in Pids : numbers[p] = process[p].number
  OBVIOUS
<1>2. {numbers[p] : p \in Pids} = {process[p].number : p \in Pids}
  BY <1>1
<1> HIDE DEF numbers
<1> QED BY <1>1, <1>2, NextIsNew DEF NextNumber

\* It never falls.
LEMMA NextNumberGrows ==
    ASSUME process \in [Pids -> [number : Nat, stage : ProcessStages]],
           process' \in [Pids -> [number : Nat, stage : ProcessStages]],
           \A p \in Pids : process[p].number <= process'[p].number
    PROVE  NextNumber <= NextNumber' /\ NextNumber \in Nat /\ NextNumber' \in Nat
<1> DEFINE numbers == [p \in Pids |-> process'[p].number]
<1>1. numbers \in [Pids -> Nat] /\ \A p \in Pids : numbers[p] = process'[p].number
  OBVIOUS
<1>2. {numbers[p] : p \in Pids} = {process'[p].number : p \in Pids}
  BY <1>1
<1> HIDE DEF numbers
<1>3. NextNumber' \in Nat /\ \A p \in Pids : process'[p].number < NextNumber'
  BY <1>1, <1>2, NextIsNew DEF NextNumber
<1>4. PICK p \in Pids : NextNumber = process[p].number + 1
  BY NextNumberIsNew
<1>5. process[p].number <= process'[p].number /\ process'[p].number < NextNumber'
      /\ process[p].number \in Nat /\ process'[p].number \in Nat
  BY <1>3
<1> QED BY <1>3, <1>4, <1>5

-----------------------------------------------------------------------------
(* What the operations do to an entry, a finalizer, a stage.               *)

LEMMA OutIsTyped == Out \in FinalizerRecords /\ Out.pc = "out"
<1>1. (CHOOSE p \in Pids : TRUE) \in Pids
  BY ProcessAssumption
<1> QED BY <1>1 DEF Out, FinalizerRecords, FinalizerPlaces

LEMMA StageMoves ==
    ASSUME ProcessTyped, NEW p \in Pids, NEW s \in ProcessStages, Stage(p, s)
    PROVE  /\ process' \in [Pids -> [number : Nat, stage : ProcessStages]]
           /\ process'[p].stage = s
           /\ \A q \in Pids : process'[q].number = process[q].number
           /\ \A q \in Pids : q # p => process'[q] = process[q]
BY DEF Stage, ProcessTyped

LEMMA BeginMoves ==
    ASSUME ProcessTyped, NEW f \in Finalizers, NEW p \in Pids, Begin(f, p)
    PROVE  \/ UNCHANGED <<finalizer, pending>>
           \/ /\ pending[p].of # 0 /\ ~pending[p].busy
              /\ pending' \in [Pids -> [of : Nat, busy : BOOLEAN]]
              /\ pending'[p].busy
              /\ \A q \in Pids : pending'[q].of = pending[q].of
              /\ \A q \in Pids : q # p => pending'[q] = pending[q]
              /\ finalizer' \in [Finalizers -> FinalizerRecords]
              /\ finalizer'[f].pc = "populate" /\ finalizer'[f].pid = p
              /\ finalizer'[f].strings = pending[p].of
              /\ \A g \in Finalizers : g # f => finalizer'[g] = finalizer[g]
<1>1. CASE pending[p].of # 0 /\ ~pending[p].busy
  <2> DEFINE new == [Out EXCEPT !.pc = "populate", !.pid = p, !.strings = pending[p].of]
  <2>1. new \in FinalizerRecords /\ new.pc = "populate" /\ new.pid = p
        /\ new.strings = pending[p].of
    BY OutIsTyped DEF FinalizerRecords, FinalizerPlaces, ProcessTyped
  <2>2. /\ finalizer' = [finalizer EXCEPT ![f] = new]
        /\ pending' = [pending EXCEPT ![p].busy = TRUE]
    BY <1>1 DEF Begin
  <2> HIDE DEF new
  <2>3. /\ finalizer' \in [Finalizers -> FinalizerRecords] /\ finalizer'[f] = new
        /\ \A g \in Finalizers : g # f => finalizer'[g] = finalizer[g]
    BY <2>1, <2>2 DEF ProcessTyped
  <2>4. /\ pending' \in [Pids -> [of : Nat, busy : BOOLEAN]]
        /\ pending'[p].busy
        /\ \A q \in Pids : pending'[q].of = pending[q].of
        /\ \A q \in Pids : q # p => pending'[q] = pending[q]
    BY <2>2 DEF ProcessTyped
  <2> QED BY <1>1, <2>1, <2>3, <2>4
<1>2. CASE ~(pending[p].of # 0 /\ ~pending[p].busy)
  BY <1>2 DEF Begin
<1> QED BY <1>1, <1>2

LEMMA CompleteMoves ==
    ASSUME ProcessTyped, NEW p \in Pids, NEW consume \in BOOLEAN,
           pending' = CompletePending(p, consume)
    PROVE  /\ pending' \in [Pids -> [of : Nat, busy : BOOLEAN]]
           /\ pending'[p].of = IF consume THEN 0 ELSE pending[p].of
           /\ \A q \in Pids : q # p => pending'[q] = pending[q]
<1>1. CASE pending[p].of = 0
  BY <1>1 DEF CompletePending, ProcessTyped
<1>2. CASE pending[p].of # 0 /\ consume
  <2>1. pending' = [pending EXCEPT ![p] = NoEntry]
    BY <1>2 DEF CompletePending
  <2>2. NoEntry \in [of : Nat, busy : BOOLEAN] /\ NoEntry.of = 0
    BY DEF NoEntry
  <2>3. /\ pending' \in [Pids -> [of : Nat, busy : BOOLEAN]] /\ pending'[p] = NoEntry
        /\ \A q \in Pids : q # p => pending'[q] = pending[q]
    BY <2>1, <2>2 DEF ProcessTyped
  <2> QED BY <1>2, <2>2, <2>3
<1>3. CASE pending[p].of # 0 /\ ~consume
  <2>1. pending' = [pending EXCEPT ![p] = [@ EXCEPT !.busy = FALSE]]
    BY <1>3 DEF CompletePending
  <2> QED BY <1>3, <2>1 DEF ProcessTyped
<1> QED BY <1>1, <1>2, <1>3

LEMMA EnterMoves ==
    ASSUME ProcessTyped, NEW p \in Pids, CreateEnter(p)
    PROVE  /\ process' \in [Pids -> [number : Nat, stage : ProcessStages]]
           /\ process'[p].number = NextNumber /\ process'[p].stage \in {"create", "created"}
           /\ process'[p].stage = "create" => hook = "registered" /\ flags # "disabled"
           /\ \A q \in Pids : q # p => process'[q] = process[q]
<1>1. NextNumber \in Nat
  BY NextNumberIsNew DEF ProcessTyped
<1> DEFINE stage == IF hook = "registered" /\ Producing THEN "create" ELSE "created"
<1>2. process' = [process EXCEPT ![p] = [number |-> NextNumber, stage |-> stage]]
  BY DEF CreateEnter
<1>3. /\ stage \in {"create", "created"}
      /\ stage = "create" => hook = "registered" /\ flags # "disabled"
  BY DEF Producing
<1> HIDE DEF NextNumber, stage
<1> QED BY <1>1, <1>2, <1>3 DEF ProcessTyped, ProcessStages

LEMMA CreateMoves ==
    ASSUME ProcessTyped, NEW p \in Pids, CreateCaches(p)
    PROVE  /\ process' \in [Pids -> [number : Nat, stage : ProcessStages]]
           /\ process'[p].stage \in {"queue", "created"}
           /\ \A q \in Pids : process'[q].number = process[q].number
           /\ \A q \in Pids : q # p => process'[q] = process[q]
           /\ pending' \in [Pids -> [of : Nat, busy : BOOLEAN]]
           /\ \A q \in Pids : q # p => pending'[q] = pending[q]
           /\ pending'[p].of = process[p].number \/ pending'[p] = pending[p]
           /\ pending'[p].busy = pending[p].busy
<1>1. PICK memory \in BOOLEAN :
         /\ pending' = IF memory THEN [pending EXCEPT ![p].of = process[p].number] ELSE pending
         /\ Stage(p, IF memory THEN "queue" ELSE "created")
  BY DEF CreateCaches
<1>2. /\ pending' \in [Pids -> [of : Nat, busy : BOOLEAN]]
      /\ \A q \in Pids : q # p => pending'[q] = pending[q]
      /\ pending'[p].of = process[p].number \/ pending'[p] = pending[p]
      /\ pending'[p].busy = pending[p].busy
  BY <1>1 DEF ProcessTyped
<1>3. PICK s \in {"queue", "created"} : Stage(p, s)
  BY <1>1
<1>4. s \in ProcessStages
  BY DEF ProcessStages
<1>5. /\ process' \in [Pids -> [number : Nat, stage : ProcessStages]]
      /\ process'[p].stage = s
      /\ \A q \in Pids : process'[q].number = process[q].number
      /\ \A q \in Pids : q # p => process'[q] = process[q]
  BY <1>3, <1>4, StageMoves
<1> QED BY <1>2, <1>3, <1>5

\* A finalizer goes on, and stays with its process.
LEMMA FinalizerMoves ==
    ASSUME ProcessTyped, NEW f \in Finalizers, FinalizerStep(f)
    PROVE  /\ finalizer' \in [Finalizers -> FinalizerRecords]
           /\ \A g \in Finalizers : g # f => finalizer'[g] = finalizer[g]
           /\ finalizer'[f].pc # "out" =>
                finalizer'[f].pid = finalizer[f].pid /\ finalizer'[f].strings = finalizer[f].strings
           /\ finalizer[f].pc \in FinalizerPlaces \ {"out"} /\ finalizer[f].pid \in Pids
<1> DEFINE at == finalizer[f]
<1>0. at \in FinalizerRecords
  BY DEF ProcessTyped
<1>1. ASSUME NEW new \in FinalizerRecords, FinalizerTo(f, new)
      PROVE  /\ finalizer' \in [Finalizers -> FinalizerRecords] /\ finalizer'[f] = new
             /\ \A g \in Finalizers : g # f => finalizer'[g] = finalizer[g]
  BY <1>1 DEF FinalizerTo, ProcessTyped
<1>2. at.pc \in FinalizerPlaces \ {"out"} /\ at.pid \in Pids
  BY <1>0 DEF FinalizerStep, FinalizePopulate, FinalizeCache, FinalizePublish, FinalizeComplete,
              FinalizerPlaces, FinalizerRecords
<1>3. \E new \in FinalizerRecords :
        FinalizerTo(f, new) /\ (new.pc # "out" => new.pid = at.pid /\ new.strings = at.strings)
  <2>1. CASE FinalizePopulate(f)
    <3>1. [at EXCEPT !.pc = "complete"] \in FinalizerRecords
      BY <1>0 DEF FinalizerRecords, FinalizerPlaces
    <3>2. [at EXCEPT !.pc = "cache", !.identity = process[at.pid].number] \in FinalizerRecords
      BY <1>0 DEF FinalizerRecords, FinalizerPlaces, ProcessTyped
    <3>3. /\ [at EXCEPT !.pc = "complete"].pid = at.pid
          /\ [at EXCEPT !.pc = "complete"].strings = at.strings
          /\ [at EXCEPT !.pc = "cache", !.identity = process[at.pid].number].pid = at.pid
          /\ [at EXCEPT !.pc = "cache", !.identity = process[at.pid].number].strings = at.strings
      BY <1>0 DEF FinalizerRecords
    <3>4. \/ FinalizerTo(f, [at EXCEPT !.pc = "complete"])
          \/ FinalizerTo(f, [at EXCEPT !.pc = "cache", !.identity = process[at.pid].number])
      BY <2>1 DEF FinalizePopulate
    <3> HIDE DEF at
    <3> QED BY <3>1, <3>2, <3>3, <3>4
  <2>2. CASE FinalizeCache(f)
    <3> DEFINE new == [at EXCEPT !.pc = "publish"]
    <3>1. new \in FinalizerRecords /\ new.pid = at.pid /\ new.strings = at.strings
      BY <1>0 DEF FinalizerRecords, FinalizerPlaces
    <3>2. FinalizerTo(f, new)
      BY <2>2 DEF FinalizeCache
    <3> HIDE DEF new
    <3> QED BY <3>1, <3>2
  <2>3. CASE FinalizePublish(f)
    <3> DEFINE kept == [at EXCEPT !.pc = "complete"]
               used == [at EXCEPT !.pc = "complete", !.consume = TRUE]
    <3>1. /\ kept \in FinalizerRecords /\ kept.pid = at.pid /\ kept.strings = at.strings
          /\ used \in FinalizerRecords /\ used.pid = at.pid /\ used.strings = at.strings
      BY <1>0 DEF FinalizerRecords, FinalizerPlaces
    <3>2. FinalizerTo(f, kept) \/ FinalizerTo(f, used)
      BY <2>3 DEF FinalizePublish
    <3> HIDE DEF kept, used
    <3> QED BY <3>1, <3>2
  <2>4. CASE FinalizeComplete(f)
    BY <2>4, OutIsTyped DEF FinalizeComplete
  <2> QED BY <2>1, <2>2, <2>3, <2>4 DEF FinalizerStep
<1> HIDE DEF at
<1>4. PICK new \in FinalizerRecords :
        FinalizerTo(f, new) /\ (new.pc # "out" => new.pid = at.pid /\ new.strings = at.strings)
  BY <1>3
<1> QED BY <1>1, <1>2, <1>4 DEF at

-----------------------------------------------------------------------------
(* The steps.                                                              *)

\* A step other than a creation gives no number.
NumbersStay ==
    /\ process' \in [Pids -> [number : Nat, stage : ProcessStages]]
    /\ \A q \in Pids : /\ process'[q].number = process[q].number
                       /\ process'[q].stage = "create" => process[q].stage = "create"

\* It may begin to finalize an entry,
Begins(f, p) ==
    /\ Begin(f, p) /\ finalizer[f].pc = "out"
    /\ NumbersStay /\ UNCHANGED <<eventOnes, reusedEarly>>

\* or leave entries alone or drop them.
Drops ==
    /\ pending' \in [Pids -> [of : Nat, busy : BOOLEAN]]
    /\ \A q \in Pids : pending'[q] = pending[q] \/ pending'[q].of = 0
    /\ NumbersStay /\ UNCHANGED <<finalizer, eventOnes, reusedEarly>>

LEMMA StepsAre ==
    ASSUME ProcessTyped, WorkerIsAskedOnce, [ProcessNext]_processVars
    PROVE  \/ \E p \in Pids : CreateEnter(p) \/ CreateCaches(p)
           \/ \E f \in Finalizers, p \in Pids : Begins(f, p)
           \/ \E f \in Finalizers : FinalizerStep(f)
           \/ Drops
<1> USE DEF ProcessStages
<1>0. UNCHANGED process => NumbersStay
  BY DEF NumbersStay, ProcessTyped
<1>1. \A p \in Pids, s \in ProcessStages \ {"create"} : Stage(p, s) => NumbersStay
  <2> SUFFICES ASSUME NEW p \in Pids, NEW s \in ProcessStages \ {"create"}, Stage(p, s)
               PROVE  NumbersStay
    OBVIOUS
  <2> QED BY StageMoves DEF NumbersStay
<1>2. UNCHANGED pending => /\ pending' \in [Pids -> [of : Nat, busy : BOOLEAN]]
                           /\ \A q \in Pids : pending'[q] = pending[q] \/ pending'[q].of = 0
  BY DEF ProcessTyped
<1>3. ASSUME NEW p \in Pids, ThreadCreated(p) \/ Enrich(p) \/ ExitFinalize(p)
      PROVE  Drops \/ \E f \in Finalizers, q \in Pids : Begins(f, q)
  <2>1. CASE ThreadCreated(p)
    <3>1. NumbersStay /\ UNCHANGED <<eventOnes, reusedEarly>> /\ finalizer["thread"].pc = "out"
      BY <1>1, <2>1 DEF ThreadCreated
    <3>2. CASE Begin("thread", p)
      BY <3>1, <3>2 DEF Begins, Finalizers
    <3>3. CASE UNCHANGED <<finalizer, pending>>
      BY <1>2, <3>1, <3>3 DEF Drops
    <3> QED BY <2>1, <3>2, <3>3 DEF ThreadCreated
  <2>2. CASE Enrich(p) \/ ExitFinalize(p)
    BY <1>0, <1>1, <2>2 DEF Enrich, ExitFinalize, Begins, Finalizers
  <2> QED BY <1>3, <2>1, <2>2
<1>4. ASSUME WorkerTakes
      PROVE  \E f \in Finalizers, q \in Pids : Begins(f, q)
  <2>1. Head(workList) \in Pids
    BY <1>4, HeadTailProperties DEF WorkerTakes, ProcessTyped
  <2> QED BY <1>0, <1>4, <2>1 DEF WorkerTakes, Begins, Finalizers
<1>5. ASSUME NEW p \in Pids, QueueFinalize(p) \/ ExitTerminates(p) \/ ExitEnter(p)
      PROVE  Drops
  <2>1. \E s \in ProcessStages \ {"create"} : Stage(p, s)
    BY <1>5 DEF QueueFinalize, ExitTerminates, ExitEnter
  <2> QED BY <1>1, <1>2, <1>5, <2>1 DEF QueueFinalize, ExitTerminates, ExitEnter, Drops
<1>6. ASSUME NEW p \in Pids, ExitConsume(p)
      PROVE  Drops
  <2>1. pending' = CompletePending(p, TRUE) /\ Stage(p, "terminate")
        /\ UNCHANGED <<finalizer, eventOnes, reusedEarly>>
    BY <1>6 DEF ExitConsume
  <2>2. /\ pending' \in [Pids -> [of : Nat, busy : BOOLEAN]]
        /\ \A q \in Pids : pending'[q] = pending[q] \/ pending'[q].of = 0
    BY <2>1, CompleteMoves
  <2> QED BY <1>1, <2>1, <2>2 DEF Drops
<1>7. CASE CleanupFinalize
  <2>1. NoEntry \in [of : Nat, busy : BOOLEAN] /\ NoEntry.of = 0
    BY DEF NoEntry
  <2>2. pending' = [p \in Pids |-> NoEntry]
    BY <1>7 DEF CleanupFinalize
  <2>3. /\ pending' \in [Pids -> [of : Nat, busy : BOOLEAN]]
        /\ \A q \in Pids : pending'[q] = pending[q] \/ pending'[q].of = 0
    BY <2>1, <2>2
  <2> QED BY <1>0, <1>7, <2>3 DEF CleanupFinalize, Drops
<1>8. CASE \/ \E p \in Pids : QueueSubmit(p)
           \/ WorkerStarts \/ WorkerEnds \/ FlagsChange \/ UnregisterProcess
           \/ RegisterProcess \/ UNCHANGED processVars
  BY <1>0, <1>2, <1>8 DEF QueueSubmit, WorkerStarts, WorkerEnds, FlagsChange,
     UnregisterProcess, RegisterProcess, processVars, Drops
<1> QED BY <1>3, <1>4, <1>5, <1>6, <1>7, <1>8 DEF ProcessNext

\* The worker is asked for once, and the work it has been asked for is over
\* when the callback is gone.
LEMMA WorkerKept ==
    ASSUME ProcessTyped, WorkerIsAskedOnce, [ProcessNext]_processVars
    PROVE  WorkerIsAskedOnce' /\ workList' \in Seq(Pids)
<1> DEFINE Kept == WorkerIsAskedOnce' /\ workList' \in Seq(Pids)
<1>1. UNCHANGED <<workList, workFlag, submit, inSystem, taking, worker, hook>> => Kept
  BY DEF WorkerIsAskedOnce, ProcessTyped
<1>2. ASSUME NEW p \in Pids, QueueFinalize(p) PROVE Kept
  <2>1. CASE UNCHANGED <<workList, workFlag, submit>>
    BY <1>1, <1>2, <2>1 DEF QueueFinalize
  <2>2. CASE /\ taking /\ workList' = Append(workList, p) /\ workFlag' = TRUE
             /\ submit' = IF workFlag THEN submit ELSE submit \cup {p}
    <3>1. UNCHANGED <<inSystem, taking, worker, hook>>
      BY <1>2 DEF QueueFinalize
    <3>2. workList' \in Seq(Pids)
      BY <2>2, AppendProperties DEF ProcessTyped
    <3> QED BY <2>2, <3>1, <3>2 DEF WorkerIsAskedOnce
  <2> QED BY <1>2, <2>1, <2>2 DEF QueueFinalize
<1>3. ASSUME NEW p \in Pids, QueueSubmit(p) PROVE Kept
  BY <1>3 DEF QueueSubmit, WorkerIsAskedOnce, ProcessTyped
<1>4. CASE WorkerStarts
  BY <1>4 DEF WorkerStarts, WorkerIsAskedOnce, ProcessTyped
<1>5. CASE WorkerTakes
  <2>1. Tail(workList) \in Seq(Pids)
    BY <1>5, HeadTailProperties DEF WorkerTakes, ProcessTyped
  <2> QED BY <1>5, <2>1 DEF WorkerTakes, WorkerIsAskedOnce
<1>6. CASE WorkerEnds
  BY <1>6 DEF WorkerEnds, WorkerIsAskedOnce, ProcessTyped
<1>7. CASE UnregisterProcess
  BY <1>7 DEF UnregisterProcess, WorkerIsAskedOnce, ProcessTyped
<1>8. CASE CleanupFinalize
  BY <1>8, EmptySeq DEF CleanupFinalize, WorkerIsAskedOnce, ProcessTyped
<1>9. CASE RegisterProcess
  BY <1>9 DEF RegisterProcess, WorkerIsAskedOnce, ProcessTyped
<1>10. ASSUME NEW p \in Pids, \/ CreateEnter(p) \/ CreateCaches(p) \/ ThreadCreated(p)
                              \/ Enrich(p) \/ ExitEnter(p) \/ ExitFinalize(p)
                              \/ ExitConsume(p) \/ ExitTerminates(p)
       PROVE  Kept
  BY <1>1, <1>10 DEF CreateEnter, CreateCaches, ThreadCreated, Enrich, ExitEnter,
     ExitFinalize, ExitConsume, ExitTerminates
<1>11. ASSUME NEW f \in Finalizers, FinalizerStep(f) PROVE Kept
  BY <1>1, <1>11 DEF FinalizerStep, FinalizePopulate, FinalizeCache, FinalizePublish,
     FinalizeComplete
<1>12. CASE FlagsChange \/ UNCHANGED processVars
  BY <1>1, <1>12 DEF FlagsChange, processVars
<1>13. Kept
  <2>1. ASSUME ProcessNext PROVE Kept
    BY <1>2, <1>3, <1>4, <1>5, <1>6, <1>7, <1>8, <1>9, <1>10, <1>11, <1>12, <2>1
       DEF ProcessNext
  <2> QED BY <1>12, <2>1
<1> QED BY <1>13

\* What a stage may become while an entry may be there: with the flags set the
\* exit callback drops the entry before the process is gone.
LEMMA EntriesStay ==
    ASSUME ProcessTyped, EntriesFit, NumbersStay, UNCHANGED <<hook, flags, reusedEarly>>,
           \A q \in Pids : pending'[q].of \in {pending[q].of, 0},
           \A q \in Pids :
             \/ process'[q].stage = process[q].stage
             \/ /\ process[q].stage \notin {"gone", "create", "terminate"}
                /\ \/ process'[q].stage \in {"created", "running"}
                   \/ /\ process'[q].stage \in {"finalize", "consume"}
                      /\ hook = "registered" /\ flags # "disabled"
             \/ /\ pending'[q].of = 0 \/ flags # "on"
                /\ \/ process'[q].stage = "gone"
                   \/ /\ process'[q].stage = "terminate"
                      /\ hook = "registered" /\ flags # "disabled"
    PROVE  EntriesFit'
<1> USE DEF EntriesFit
<1>1. ASSUME NEW p \in Pids, pending'[p].of # 0
      PROVE  /\ flags = "on" => process'[p].stage \notin {"gone", "create", "terminate"}
             /\ flags = "on" \/ ~reusedEarly => pending'[p].of = process'[p].number
  <2>1. /\ pending'[p].of = pending[p].of /\ process'[p].number = process[p].number
        /\ flags = "on" => process[p].stage \notin {"gone", "create", "terminate"}
        /\ flags = "on" \/ ~reusedEarly => pending[p].of = process[p].number
    BY <1>1 DEF NumbersStay
  <2> QED BY <1>1, <2>1
<1>2. ASSUME NEW p \in Pids, process'[p].stage \in InCallback
      PROVE  hook' = "registered" /\ flags' # "disabled"
  BY <1>2 DEF InCallback
<1>3. ASSUME hook' = "unregistered" \/ flags' = "disabled", NEW p \in Pids
      PROVE  pending'[p].of = 0
  BY <1>3
<1> QED BY <1>1, <1>2, <1>3

LEMMA EntriesKept ==
    ASSUME ProcessTyped, WorkerIsAskedOnce, EntriesFit, NumbersDiffer, [ProcessNext]_processVars
    PROVE  EntriesFit' /\ NumbersDiffer'
<1> USE DEF ProcessStages
<1>0. NumbersStay => NumbersDiffer'
  BY DEF NumbersStay, NumbersDiffer, ProcessTyped
<1>1. UNCHANGED process => NumbersStay
  BY DEF NumbersStay, ProcessTyped
<1>2. \A p \in Pids, s \in ProcessStages \ {"create"} : Stage(p, s) =>
        /\ NumbersStay /\ process'[p].stage = s
        /\ \A q \in Pids : q # p => process'[q] = process[q]
  <2> SUFFICES ASSUME NEW p \in Pids, NEW s \in ProcessStages \ {"create"}, Stage(p, s)
               PROVE  /\ NumbersStay /\ process'[p].stage = s
                      /\ \A q \in Pids : q # p => process'[q] = process[q]
    OBVIOUS
  <2> QED BY StageMoves DEF NumbersStay
<1>3. \A f \in Finalizers, p \in Pids : Begin(f, p) =>
        \A q \in Pids : pending'[q].of \in {pending[q].of, 0}
  <2> SUFFICES ASSUME NEW f \in Finalizers, NEW p \in Pids, Begin(f, p)
               PROVE  \A q \in Pids : pending'[q].of \in {pending[q].of, 0}
    OBVIOUS
  <2>1. \/ UNCHANGED pending
        \/ \A q \in Pids : pending'[q].of = pending[q].of
    BY BeginMoves
  <2> QED BY <2>1
<1>4. ASSUME NEW p \in Pids, CreateEnter(p) PROVE EntriesFit' /\ NumbersDiffer'
  <2>1. /\ process' \in [Pids -> [number : Nat, stage : ProcessStages]]
        /\ process'[p].number = NextNumber /\ process'[p].stage \in {"create", "created"}
        /\ process'[p].stage = "create" => hook = "registered" /\ flags # "disabled"
        /\ \A q \in Pids : q # p => process'[q] = process[q]
    BY <1>4, EnterMoves
  <2>2. NextNumber \in Nat /\ \A q \in Pids : process[q].number < NextNumber
    BY NextNumberIsNew DEF ProcessTyped
  <2>3. /\ process[p].stage = "gone" /\ UNCHANGED <<pending, hook, flags>>
        /\ reusedEarly' = (reusedEarly \/ AtWorkOn(p) # {} \/ pending[p].of # 0)
    BY <1>4 DEF CreateEnter, Alive
  <2>4. /\ flags = "on" => pending[p].of = 0
        /\ ~reusedEarly' => ~reusedEarly /\ pending[p].of = 0
        /\ \A q \in Pids : process[q].number \in Nat
    BY <2>3 DEF EntriesFit, ProcessTyped
  <2> HIDE DEF NextNumber
  <2>5. NumbersDiffer'
    BY <2>1, <2>2, <2>4 DEF NumbersDiffer
  <2>6. EntriesFit'
    BY <2>1, <2>2, <2>3, <2>4 DEF EntriesFit, InCallback
  <2> QED BY <2>5, <2>6
<1>5. ASSUME NEW p \in Pids, CreateCaches(p) PROVE EntriesFit' /\ NumbersDiffer'
  <2>1. /\ process' \in [Pids -> [number : Nat, stage : ProcessStages]]
        /\ process'[p].stage \in {"queue", "created"}
        /\ \A q \in Pids : process'[q].number = process[q].number
        /\ \A q \in Pids : q # p => process'[q] = process[q]
        /\ \A q \in Pids : q # p => pending'[q] = pending[q]
        /\ pending'[p].of = process[p].number \/ pending'[p] = pending[p]
    BY <1>5, CreateMoves
  <2>2. process[p].stage = "create" /\ UNCHANGED <<hook, flags, reusedEarly>>
    BY <1>5 DEF CreateCaches
  <2>3. hook = "registered"
    BY <2>2 DEF EntriesFit, InCallback
  <2>4. NumbersDiffer'
    BY <2>1 DEF NumbersDiffer, ProcessTyped
  <2>5. EntriesFit'
    BY <2>1, <2>2, <2>3 DEF EntriesFit, InCallback
  <2> QED BY <2>4, <2>5
<1> DEFINE Kept == EntriesFit' /\ NumbersDiffer'
<1>6. ASSUME NEW p \in Pids, QueueFinalize(p) \/ ThreadCreated(p)
      PROVE  Kept
  <2>1. /\ process[p].stage \notin {"gone", "create", "terminate"}
        /\ UNCHANGED <<hook, flags, reusedEarly>>
        /\ Stage(p, "created") \/ Stage(p, "running")
        /\ UNCHANGED pending \/ Begin("thread", p)
    BY <1>6 DEF QueueFinalize, ThreadCreated
  <2>2. \A q \in Pids : pending'[q].of \in {pending[q].of, 0}
    BY <1>3, <2>1 DEF Finalizers
  <2> QED BY <1>0, <1>2, <2>1, <2>2, EntriesStay
<1>7. ASSUME NEW p \in Pids, ExitFinalize(p)
      PROVE  Kept
  <2>1. /\ process[p].stage = "finalize" /\ UNCHANGED <<hook, flags, reusedEarly>>
        /\ Stage(p, "consume") /\ Begin("exit", p)
    BY <1>7 DEF ExitFinalize
  <2>2. \A q \in Pids : pending'[q].of \in {pending[q].of, 0}
    BY <1>3, <2>1 DEF Finalizers
  <2>3. hook = "registered" /\ flags # "disabled"
    BY <2>1 DEF EntriesFit, InCallback
  <2> QED BY <1>0, <1>2, <2>1, <2>2, <2>3, EntriesStay
<1>8. ASSUME NEW p \in Pids, ExitEnter(p)
      PROVE  Kept
  <2>1. /\ process[p].stage \in {"created", "running"}
        /\ UNCHANGED <<pending, hook, flags, reusedEarly>>
    BY <1>8 DEF ExitEnter
  <2>2. CASE hook = "registered" /\ Producing
    <3>1. Stage(p, "finalize")
      BY <1>8, <2>2 DEF ExitEnter
    <3> QED BY <1>0, <1>2, <2>1, <2>2, <3>1, EntriesStay DEF Producing
  <2>3. CASE ~(hook = "registered" /\ Producing)
    <3>1. Stage(p, "gone")
      BY <1>8, <2>3 DEF ExitEnter
    <3>2. flags # "on"
      BY <2>3 DEF EntriesFit, Producing
    <3> QED BY <1>0, <1>2, <2>1, <3>1, <3>2, EntriesStay
  <2> QED BY <2>2, <2>3
<1>9. ASSUME NEW p \in Pids, ExitConsume(p)
      PROVE  Kept
  <2>1. /\ process[p].stage = "consume" /\ UNCHANGED <<hook, flags, reusedEarly>>
        /\ Stage(p, "terminate") /\ pending' = CompletePending(p, TRUE)
    BY <1>9 DEF ExitConsume
  <2>2. /\ \A q \in Pids : pending'[q].of \in {pending[q].of, 0}
        /\ pending'[p].of = 0
    BY <2>1, CompleteMoves
  <2>3. hook = "registered" /\ flags # "disabled"
    BY <2>1 DEF EntriesFit, InCallback
  <2> QED BY <1>0, <1>2, <2>1, <2>2, <2>3, EntriesStay
<1>10. ASSUME NEW p \in Pids, ExitTerminates(p)
      PROVE  Kept
  <2>1. /\ process[p].stage = "terminate" /\ Stage(p, "gone")
        /\ UNCHANGED <<pending, hook, flags, reusedEarly>>
    BY <1>10 DEF ExitTerminates
  <2>2. pending[p].of = 0 \/ flags # "on"
    BY <2>1 DEF EntriesFit
  <2> QED BY <1>0, <1>2, <2>1, <2>2, EntriesStay
<1>11. ASSUME UNCHANGED <<process, hook, flags, reusedEarly>>,
             \A q \in Pids : pending'[q].of \in {pending[q].of, 0}
      PROVE  Kept
  BY <1>0, <1>1, <1>11, EntriesStay
<1>12. ASSUME NEW p \in Pids, Enrich(p) PROVE Kept
  BY <1>3, <1>11, <1>12 DEF Enrich, Finalizers
<1>13. CASE WorkerTakes
  <2>1. Head(workList) \in Pids
    BY <1>13, HeadTailProperties DEF WorkerTakes, ProcessTyped
  <2> QED BY <1>3, <1>11, <1>13, <2>1 DEF WorkerTakes, Finalizers
<1>14. ASSUME NEW f \in Finalizers, FinalizerStep(f) PROVE Kept
  <2>1. UNCHANGED <<process, hook, flags, reusedEarly>>
    BY <1>14 DEF FinalizerStep, FinalizePopulate, FinalizeCache, FinalizePublish, FinalizeComplete
  <2>2. CASE UNCHANGED pending
    BY <1>11, <2>1, <2>2
  <2>3. CASE FinalizeComplete(f)
    <3>1. finalizer[f].pid \in Pids /\ finalizer[f].consume \in BOOLEAN
      BY DEF ProcessTyped, FinalizerRecords
    <3>2. pending' = CompletePending(finalizer[f].pid, finalizer[f].consume)
      BY <2>3 DEF FinalizeComplete
    <3>3. \A q \in Pids : pending'[q].of \in {pending[q].of, 0}
      BY <3>1, <3>2, CompleteMoves
    <3> QED BY <1>11, <2>1, <3>3
  <2> QED BY <1>14, <2>2, <2>3 DEF FinalizerStep, FinalizePopulate, FinalizeCache, FinalizePublish
<1>15. CASE UnregisterProcess
  <2>1. /\ UNCHANGED <<process, pending, flags, reusedEarly>> /\ hook' = "cleanup"
        /\ flags \notin {"on", "disabled"}
        /\ \A p \in Pids : process[p].stage \notin InCallback
    BY <1>15 DEF UnregisterProcess
  <2> QED BY <1>0, <1>1, <2>1 DEF EntriesFit
<1>16. CASE CleanupFinalize
  <2>1. /\ UNCHANGED <<process, flags, reusedEarly>> /\ pending' = [p \in Pids |-> NoEntry]
        /\ hook = "cleanup" /\ hook' = "unregistered"
    BY <1>16 DEF CleanupFinalize
  <2>2. \A p \in Pids : pending'[p].of = 0
    BY <2>1 DEF NoEntry
  <2> QED BY <1>0, <1>1, <2>1, <2>2 DEF EntriesFit
<1>17. CASE RegisterProcess
  <2>1. /\ UNCHANGED <<process, pending, reusedEarly>>
        /\ hook = "unregistered" /\ hook' = "registered" /\ flags' = "on"
    BY <1>17 DEF RegisterProcess
  <2> QED BY <1>0, <1>1, <2>1 DEF EntriesFit
<1>18. CASE FlagsChange
  <2>1. /\ UNCHANGED <<process, pending, hook, reusedEarly>>
        /\ hook = "registered" /\ flags' # "disabled"
        /\ flags' = "on" => flags = "disabled"
    BY <1>18 DEF FlagsChange
  <2> QED BY <1>0, <1>1, <2>1 DEF EntriesFit
<1>19. CASE (\E p \in Pids : QueueSubmit(p)) \/ WorkerStarts \/ WorkerEnds \/ UNCHANGED processVars
  BY <1>11, <1>19 DEF QueueSubmit, WorkerStarts, WorkerEnds, processVars
<1>20. Kept
  <2> HIDE DEF Kept
  <2> QED BY <1>4, <1>6, <1>7, <1>9, <1>10, <1>12, <1>13, <1>14, <1>15, <1>16, <1>17, <1>19,
             <1>5, <1>8, <1>18 DEF ProcessNext, Kept
<1> QED BY <1>20

\* Where a finalizer at work may go, and what that changes beside it.
LEMMA FinalizerGoes ==
    ASSUME ProcessTyped, NEW f \in Finalizers, FinalizerStep(f)
    PROVE  /\ UNCHANGED <<process, reusedEarly>>
           /\ \/ /\ finalizer[f].pc = "populate" /\ UNCHANGED <<pending, eventOnes>>
                 /\ \/ finalizer'[f].pc = "complete"
                    \/ /\ finalizer'[f].pc = "cache"
                       /\ finalizer'[f].identity = process[finalizer[f].pid].number
              \/ /\ finalizer[f].pc = "cache" /\ UNCHANGED <<pending, eventOnes>>
                 /\ finalizer'[f].pc = "publish" /\ finalizer'[f].identity = finalizer[f].identity
              \/ /\ finalizer[f].pc = "publish" /\ UNCHANGED pending
                 /\ finalizer'[f].pc = "complete"
                 /\ \/ UNCHANGED eventOnes
                    \/ /\ finalizer'[f].consume
                       /\ eventOnes' = Append(eventOnes, [strings |-> finalizer[f].strings,
                                                          identity |-> finalizer[f].identity])
              \/ /\ finalizer[f].pc = "complete" /\ UNCHANGED eventOnes
                 /\ finalizer'[f].pc = "out"
                 /\ pending' = CompletePending(finalizer[f].pid, finalizer[f].consume)
<1> DEFINE at == finalizer[f]
<1>0. at \in FinalizerRecords
  BY DEF ProcessTyped
<1>1. \A new : FinalizerTo(f, new) => finalizer'[f] = new
  BY DEF FinalizerTo, ProcessTyped
<1>2. UNCHANGED <<process, reusedEarly>>
  BY DEF FinalizerStep, FinalizePopulate, FinalizeCache, FinalizePublish, FinalizeComplete
<1>3. CASE FinalizePopulate(f)
  <2> DEFINE ends == [at EXCEPT !.pc = "complete"]
             goes == [at EXCEPT !.pc = "cache", !.identity = process[at.pid].number]
  <2>1. ends.pc = "complete" /\ goes.pc = "cache" /\ goes.identity = process[at.pid].number
    BY <1>0 DEF FinalizerRecords
  <2>2. /\ at.pc = "populate" /\ UNCHANGED <<pending, eventOnes>>
        /\ finalizer'[f] = ends \/ finalizer'[f] = goes
    BY <1>1, <1>3 DEF FinalizePopulate
  <2> HIDE DEF ends, goes
  <2>3. \/ finalizer'[f].pc = "complete"
        \/ /\ finalizer'[f].pc = "cache"
           /\ finalizer'[f].identity = process[at.pid].number
    BY <2>1, <2>2
  <2> QED BY <1>2, <2>2, <2>3
<1>4. CASE FinalizeCache(f)
  <2>1. /\ [at EXCEPT !.pc = "publish"].pc = "publish"
        /\ [at EXCEPT !.pc = "publish"].identity = at.identity
    BY <1>0 DEF FinalizerRecords
  <2>2. /\ at.pc = "cache" /\ UNCHANGED <<pending, eventOnes>>
        /\ finalizer'[f] = [at EXCEPT !.pc = "publish"]
    BY <1>1, <1>4 DEF FinalizeCache
  <2> QED BY <1>2, <2>1, <2>2
<1>5. CASE FinalizePublish(f)
  <2> DEFINE kept == [at EXCEPT !.pc = "complete"]
             used == [at EXCEPT !.pc = "complete", !.consume = TRUE]
  <2>1. kept.pc = "complete" /\ used.pc = "complete" /\ used.consume
    BY <1>0 DEF FinalizerRecords
  <2>2. /\ at.pc = "publish" /\ UNCHANGED pending
        /\ \/ /\ eventOnes' = Append(eventOnes, [strings |-> at.strings, identity |-> at.identity])
              /\ finalizer'[f] = used
           \/ finalizer'[f] = used /\ UNCHANGED eventOnes
           \/ finalizer'[f] = kept /\ UNCHANGED eventOnes
    BY <1>1, <1>5 DEF FinalizePublish
  <2> HIDE DEF kept, used
  <2> QED BY <1>2, <2>1, <2>2
<1>6. CASE FinalizeComplete(f)
  <2>1. finalizer'[f] = Out /\ at.pc = "complete" /\ UNCHANGED eventOnes
        /\ pending' = CompletePending(at.pid, at.consume)
    BY <1>1, <1>6 DEF FinalizeComplete
  <2> QED BY <1>2, <2>1, OutIsTyped
<1> QED BY <1>3, <1>4, <1>5, <1>6 DEF FinalizerStep

LEMMA ProcessTypedStep ==
    ASSUME ProcessTyped, WorkerIsAskedOnce, [ProcessNext]_processVars
    PROVE  ProcessTyped'
<1> DEFINE Typed == /\ process' \in [Pids -> [number : Nat, stage : ProcessStages]]
                    /\ pending' \in [Pids -> [of : Nat, busy : BOOLEAN]]
                    /\ finalizer' \in [Finalizers -> FinalizerRecords]
                    /\ eventOnes' \in Seq([strings : Nat, identity : Nat])
<1> HIDE DEF Typed
<1>1. ASSUME NEW p \in Pids, CreateEnter(p) \/ CreateCaches(p) PROVE Typed
  <2>1. UNCHANGED <<finalizer, eventOnes>>
    BY <1>1 DEF CreateEnter, CreateCaches
  <2>2. CreateEnter(p) => UNCHANGED pending
    BY DEF CreateEnter
  <2> QED BY <1>1, <2>1, <2>2, EnterMoves, CreateMoves DEF ProcessTyped, Typed
<1>2. ASSUME NEW f \in Finalizers, NEW p \in Pids, Begins(f, p) PROVE Typed
  BY <1>2, BeginMoves DEF Begins, NumbersStay, ProcessTyped, Typed
<1>3. ASSUME NEW f \in Finalizers, FinalizerStep(f) PROVE Typed
  <2>1. finalizer[f].pid \in Pids /\ finalizer[f].consume \in BOOLEAN
    BY DEF ProcessTyped, FinalizerRecords
  <2>2. pending' \in [Pids -> [of : Nat, busy : BOOLEAN]]
    BY <1>3, <2>1, FinalizerGoes, CompleteMoves DEF ProcessTyped
  <2>3. eventOnes' \in Seq([strings : Nat, identity : Nat])
    <3> DEFINE event == [strings |-> finalizer[f].strings, identity |-> finalizer[f].identity]
    <3>1. event \in [strings : Nat, identity : Nat]
      BY DEF ProcessTyped, FinalizerRecords
    <3>2. UNCHANGED eventOnes \/ eventOnes' = Append(eventOnes, event)
      BY <1>3, FinalizerGoes
    <3>3. eventOnes \in Seq([strings : Nat, identity : Nat])
      BY DEF ProcessTyped
    <3> HIDE DEF event
    <3>4. Append(eventOnes, event) \in Seq([strings : Nat, identity : Nat])
      BY <3>1, <3>3, AppendProperties
    <3> QED BY <3>2, <3>3, <3>4
  <2>4. process' = process
    BY <1>3, FinalizerGoes
  <2> QED BY <1>3, <2>2, <2>3, <2>4, FinalizerMoves DEF ProcessTyped, Typed
<1>4. ASSUME Drops PROVE Typed
  <2>1. /\ process' \in [Pids -> [number : Nat, stage : ProcessStages]]
        /\ pending' \in [Pids -> [of : Nat, busy : BOOLEAN]]
        /\ finalizer' = finalizer /\ eventOnes' = eventOnes
    BY <1>4 DEF Drops, NumbersStay
  <2>2. /\ finalizer \in [Finalizers -> FinalizerRecords]
        /\ eventOnes \in Seq([strings : Nat, identity : Nat])
    BY DEF ProcessTyped
  <2> QED BY <2>1, <2>2 DEF Typed
<1>5. Typed
  BY <1>1, <1>2, <1>3, <1>4, StepsAre
<1> QED BY <1>5, WorkerKept DEF ProcessTyped, Typed

-----------------------------------------------------------------------------
(* What is published.                                                      *)

LEMMA NextNumberStays ==
    ASSUME process \in [Pids -> [number : Nat, stage : ProcessStages]], NumbersStay
    PROVE  NextNumber <= NextNumber' /\ NextNumber \in Nat /\ NextNumber' \in Nat
<1>1. \A p \in Pids : process[p].number <= process'[p].number
  BY DEF NumbersStay
<1> QED BY <1>1, NextNumberGrows DEF NumbersStay

LEMMA PublishedStays ==
    ASSUME UNCHANGED eventOnes
    PROVE  \A s : Published(s)' <=> Published(s)
BY DEF Published

LEMMA EventIsTyped ==
    ASSUME ProcessTyped, NEW i \in DOMAIN eventOnes
    PROVE  eventOnes[i].strings \in Nat
<1>1. eventOnes[i] \in [strings : Nat, identity : Nat]
  BY ElementOfSeq, LenProperties DEF ProcessTyped
<1> QED BY <1>1

\* Nothing new is published, and the limits of the numbers do not fall.
LEMMA EventsStay ==
    ASSUME ProcessTyped, EventsFit, UNCHANGED eventOnes,
           NextNumber <= NextNumber', NextNumber \in Nat, NextNumber' \in Nat
    PROVE  EventsFit'
<1>1. ASSUME NEW i \in DOMAIN eventOnes PROVE eventOnes[i].strings \in Nat
  BY EventIsTyped
<1> HIDE DEF NextNumber
<1> QED BY <1>1 DEF EventsFit

LEMMA EnterPublishes ==
    ASSUME ProcessInv, NEW p \in Pids, CreateEnter(p)
    PROVE  PublishedOnce'
<1> SUFFICES ASSUME ~reusedEarly'
             PROVE  FinalizersFit' /\ EntriesUnpublished' /\ EventsFit' /\ NewcomersFit'
  BY DEF PublishedOnce
<1>1. /\ ~reusedEarly /\ AtWorkOn(p) = {} /\ pending[p].of = 0
      /\ UNCHANGED <<pending, finalizer, eventOnes>>
  BY DEF CreateEnter
<1>2. /\ ProcessTyped /\ FinalizersFit /\ EntriesUnpublished /\ EventsFit /\ NewcomersFit
  BY <1>1 DEF ProcessInv, PublishedOnce
<1>3. /\ process' \in [Pids -> [number : Nat, stage : ProcessStages]]
      /\ process'[p].number = NextNumber
      /\ \A q \in Pids : q # p => process'[q] = process[q]
  BY <1>2, EnterMoves
<1>4. NextNumber \in Nat /\ \A q \in Pids : process[q].number < NextNumber
  BY <1>2, NextNumberIsNew DEF ProcessTyped
<1>5. \A f \in Finalizers : AtWork(f) => finalizer[f].pid # p /\ finalizer[f].pid \in Pids
  BY <1>1, <1>2 DEF AtWork, AtWorkOn, ProcessTyped, FinalizerRecords
<1>6. ~Published(NextNumber)
  <2>1. ASSUME NEW i \in DOMAIN eventOnes PROVE eventOnes[i].strings \in Nat
    BY <1>2, EventIsTyped
  <2> HIDE DEF NextNumber
  <2> QED BY <1>2, <1>4, <2>1 DEF Published, EventsFit
<1>7. FinalizersFit'
  <2> HIDE DEF NextNumber
  <2> QED BY <1>1, <1>2, <1>3, <1>5, PublishedStays DEF FinalizersFit, AtWork
<1>8. EntriesUnpublished'
  BY <1>1, <1>2, PublishedStays DEF EntriesUnpublished
<1>9. EventsFit'
  <2>1. \A q \in Pids : process[q].number <= process'[q].number
    <3> HIDE DEF NextNumber
    <3>1. \A q \in Pids : process[q].number \in Nat
      BY <1>2 DEF ProcessTyped
    <3> QED BY <1>3, <1>4, <3>1
  <2>2. NextNumber <= NextNumber' /\ NextNumber \in Nat /\ NextNumber' \in Nat
    BY <1>2, <1>3, <2>1, NextNumberGrows DEF ProcessTyped
  <2> QED BY <1>1, <1>2, <2>2, EventsStay
<1>10. NewcomersFit'
  <2> HIDE DEF NextNumber
  <2> QED BY <1>1, <1>2, <1>3, <1>5, <1>6, PublishedStays DEF NewcomersFit, AtWork
<1> QED BY <1>7, <1>8, <1>9, <1>10

LEMMA CreatePublishes ==
    ASSUME ProcessInv, NEW p \in Pids, CreateCaches(p)
    PROVE  PublishedOnce'
<1> SUFFICES ASSUME ~reusedEarly'
             PROVE  FinalizersFit' /\ EntriesUnpublished' /\ EventsFit' /\ NewcomersFit'
  BY DEF PublishedOnce
<1>1. /\ ~reusedEarly /\ process[p].stage = "create" /\ UNCHANGED <<finalizer, eventOnes>>
  BY DEF CreateCaches
<1>2. /\ ProcessTyped /\ FinalizersFit /\ EntriesUnpublished /\ EventsFit /\ NewcomersFit
  BY <1>1 DEF ProcessInv, PublishedOnce
<1>3. /\ process' \in [Pids -> [number : Nat, stage : ProcessStages]]
      /\ process'[p].stage \in {"queue", "created"}
      /\ \A q \in Pids : process'[q].number = process[q].number
      /\ \A q \in Pids : q # p => process'[q] = process[q]
      /\ \A q \in Pids : q # p => pending'[q] = pending[q]
      /\ pending'[p].of = process[p].number \/ pending'[p] = pending[p]
  BY <1>2, CreateMoves
<1>4. /\ pending[p].of = 0 /\ ~Published(process[p].number)
      /\ \A f \in Finalizers : AtWork(f) => finalizer[f].pid # p /\ finalizer[f].pid \in Pids
  BY <1>1, <1>2 DEF NewcomersFit, ProcessTyped, FinalizerRecords
<1>5. FinalizersFit'
  BY <1>1, <1>2, <1>3, <1>4, PublishedStays DEF FinalizersFit, AtWork
<1>6. EntriesUnpublished'
  BY <1>1, <1>2, <1>3, <1>4, PublishedStays DEF EntriesUnpublished
<1>7. EventsFit'
  <2>1. \A q \in Pids : process[q].number <= process'[q].number
    BY <1>2, <1>3 DEF ProcessTyped
  <2>2. NextNumber <= NextNumber' /\ NextNumber \in Nat /\ NextNumber' \in Nat
    BY <1>2, <1>3, <2>1, NextNumberGrows DEF ProcessTyped
  <2> QED BY <1>1, <1>2, <2>2, EventsStay
<1>8. NewcomersFit'
  BY <1>1, <1>2, <1>3, PublishedStays DEF NewcomersFit, AtWork
<1> QED BY <1>5, <1>6, <1>7, <1>8

\* A newcomer stays one until its callback has kept it, unless something is
\* begun or published.
LEMMA NewcomersStay ==
    ASSUME ProcessTyped, NewcomersFit, NumbersStay, UNCHANGED <<finalizer, eventOnes>>,
           \A q \in Pids : pending'[q] = pending[q] \/ pending'[q].of = 0
    PROVE  NewcomersFit'
BY PublishedStays DEF NewcomersFit, NumbersStay, AtWork

LEMMA BeginPublishes ==
    ASSUME ProcessInv, NEW f \in Finalizers, NEW p \in Pids, Begins(f, p)
    PROVE  PublishedOnce'
<1> SUFFICES ASSUME ~reusedEarly'
             PROVE  FinalizersFit' /\ EntriesUnpublished' /\ EventsFit' /\ NewcomersFit'
  BY DEF PublishedOnce
<1>1. /\ ~reusedEarly /\ UNCHANGED eventOnes /\ finalizer[f].pc = "out" /\ NumbersStay
      /\ Begin(f, p)
  BY DEF Begins
<1>2. /\ ProcessTyped /\ EntriesFit /\ FinalizersFit /\ EntriesUnpublished /\ EventsFit
      /\ NewcomersFit
  BY <1>1 DEF ProcessInv, PublishedOnce
<1>3. EventsFit'
  BY <1>1, <1>2, NextNumberStays, EventsStay DEF ProcessTyped
<1>4. \A q \in Pids : process'[q].number = process[q].number
  BY <1>1 DEF NumbersStay
<1>5. \A g \in Finalizers : AtWork(g) => finalizer[g].pid \in Pids
  BY <1>2 DEF ProcessTyped, FinalizerRecords
<1>6. CASE UNCHANGED <<finalizer, pending>>
  <2>1. NewcomersFit'
    BY <1>1, <1>2, <1>6, NewcomersStay
  <2> QED BY <1>1, <1>2, <1>3, <1>4, <1>5, <1>6, <2>1, PublishedStays
          DEF FinalizersFit, EntriesUnpublished, AtWork
<1>7. CASE ~UNCHANGED <<finalizer, pending>>
  <2>1. /\ pending[p].of # 0 /\ ~pending[p].busy
        /\ pending'[p].busy
        /\ \A q \in Pids : pending'[q].of = pending[q].of
        /\ \A q \in Pids : q # p => pending'[q] = pending[q]
        /\ finalizer'[f].pc = "populate" /\ finalizer'[f].pid = p
        /\ finalizer'[f].strings = pending[p].of
        /\ \A g \in Finalizers : g # f => finalizer'[g] = finalizer[g]
    BY <1>1, <1>2, <1>7, BeginMoves
  <2>2. pending[p].of = process[p].number /\ pending[p].of \in Nat
    BY <1>1, <1>2, <2>1 DEF EntriesFit, ProcessTyped
  <2>3. ~Published(pending[p].of)
    BY <1>2, <2>1 DEF EntriesUnpublished
  <2>4. EntriesUnpublished'
    BY <1>1, <1>2, <2>1, PublishedStays DEF EntriesUnpublished
  <2>5. \A g \in Finalizers : AtWork(g) => finalizer[g].pid # p
    BY <1>2, <2>1 DEF FinalizersFit
  <2>6. \A g \in Finalizers : AtWork(g)' <=> AtWork(g) \/ g = f
    BY <2>1 DEF AtWork
  <2>7. ~AtWork(f)
    BY <1>1 DEF AtWork
  <2>8. ASSUME NEW g \in Finalizers, AtWork(g)'
        PROVE  /\ finalizer'[g].strings = process'[finalizer'[g].pid].number
               /\ finalizer'[g].strings > 0
               /\ pending'[finalizer'[g].pid].of # 0 => pending'[finalizer'[g].pid].busy
               /\ finalizer'[g].pc \in {"cache", "publish"} => finalizer'[g].identity = finalizer'[g].strings
               /\ \/ finalizer'[g].pc = "complete" /\ finalizer'[g].consume
                  \/ ~Published(finalizer[g].strings)'
    <3>1. CASE g = f
      BY <1>1, <1>4, <2>1, <2>2, <2>3, <3>1 DEF Published
    <3>2. CASE g # f
      <4>1. AtWork(g) /\ finalizer'[g] = finalizer[g] /\ finalizer[g].pid # p /\ finalizer[g].pid \in Pids
        BY <1>5, <2>1, <2>5, <2>6, <2>8, <3>2
      <4> QED BY <1>1, <1>2, <1>4, <2>1, <4>1 DEF FinalizersFit, Published
    <3> QED BY <3>1, <3>2
  <2>9. ASSUME NEW g \in Finalizers, NEW h \in Finalizers,
               AtWork(g)', AtWork(h)', finalizer'[g].pid = finalizer'[h].pid
        PROVE  g = h
    BY <1>2, <2>1, <2>5, <2>6, <2>9 DEF FinalizersFit
  <2>10. FinalizersFit'
    BY <2>8, <2>9 DEF FinalizersFit
  <2>11. NewcomersFit'
    BY <1>1, <1>2, <2>1, PublishedStays DEF NewcomersFit, NumbersStay, AtWork
  <2> QED BY <1>3, <2>4, <2>10, <2>11
<1> QED BY <1>6, <1>7

LEMMA DropPublishes ==
    ASSUME ProcessInv, Drops
    PROVE  PublishedOnce'
<1> SUFFICES ASSUME ~reusedEarly'
             PROVE  FinalizersFit' /\ EntriesUnpublished' /\ EventsFit' /\ NewcomersFit'
  BY DEF PublishedOnce
<1>1. /\ ~reusedEarly /\ UNCHANGED <<finalizer, eventOnes>> /\ NumbersStay
      /\ \A q \in Pids : pending'[q] = pending[q] \/ pending'[q].of = 0
  BY DEF Drops
<1>2. /\ ProcessTyped /\ FinalizersFit /\ EntriesUnpublished /\ EventsFit /\ NewcomersFit
  BY <1>1 DEF ProcessInv, PublishedOnce
<1>3. EventsFit'
  BY <1>1, <1>2, NextNumberStays, EventsStay DEF ProcessTyped
<1>4. \A q \in Pids : process'[q].number = process[q].number
  BY <1>1 DEF NumbersStay
<1>5. \A g \in Finalizers : finalizer[g].pid \in Pids
  BY <1>2 DEF ProcessTyped, FinalizerRecords
<1>6. FinalizersFit'
  BY <1>1, <1>2, <1>4, <1>5, PublishedStays DEF FinalizersFit, AtWork
<1>7. EntriesUnpublished'
  BY <1>1, <1>2, PublishedStays DEF EntriesUnpublished
<1>8. NewcomersFit'
  BY <1>1, <1>2, NewcomersStay
<1> QED BY <1>3, <1>6, <1>7, <1>8

\* What a finalizer publishes is its own process, and has not been published.
LEMMA FinalizerPublishes ==
    ASSUME ProcessInv, NEW f \in Finalizers, FinalizerStep(f)
    PROVE  PublishedOnce'
<1> SUFFICES ASSUME ~reusedEarly'
             PROVE  FinalizersFit' /\ EntriesUnpublished' /\ EventsFit' /\ NewcomersFit'
  BY DEF PublishedOnce
<1> DEFINE p == finalizer[f].pid
           s == finalizer[f].strings
<1>1. /\ finalizer' \in [Finalizers -> FinalizerRecords]
      /\ \A g \in Finalizers : g # f => finalizer'[g] = finalizer[g]
      /\ finalizer'[f].pc # "out" => finalizer'[f].pid = p /\ finalizer'[f].strings = s
      /\ AtWork(f) /\ p \in Pids
  BY FinalizerMoves DEF ProcessInv, AtWork
<1>2. UNCHANGED process /\ ~reusedEarly
  BY FinalizerGoes DEF ProcessInv
<1>3. /\ ProcessTyped /\ EntriesFit /\ NumbersDiffer
      /\ FinalizersFit /\ EntriesUnpublished /\ EventsFit /\ NewcomersFit
  BY <1>2 DEF ProcessInv, PublishedOnce
<1>4. /\ s = process[p].number /\ s > 0 /\ s \in Nat
      /\ pending[p].of # 0 => pending[p].busy /\ pending[p].of = s
      /\ finalizer[f].pc \in {"cache", "publish"} => finalizer[f].identity = s
      /\ (finalizer[f].pc = "complete" /\ finalizer[f].consume) \/ ~Published(s)
  BY <1>1, <1>2, <1>3 DEF FinalizersFit, EntriesFit, ProcessTyped
<1>5. \A g \in Finalizers : AtWork(g) /\ g # f =>
        /\ finalizer[g].pid # p /\ finalizer[g].pid \in Pids /\ finalizer[g].strings # s
  <2> SUFFICES ASSUME NEW g \in Finalizers, AtWork(g), g # f
               PROVE  finalizer[g].pid # p /\ finalizer[g].pid \in Pids /\ finalizer[g].strings # s
    OBVIOUS
  <2>1. finalizer[g].pid # p /\ finalizer[g].pid \in Pids
    BY <1>1, <1>3 DEF FinalizersFit, ProcessTyped, FinalizerRecords
  <2>2. finalizer[g].strings = process[finalizer[g].pid].number
    BY <1>3 DEF FinalizersFit
  <2> QED BY <1>1, <1>3, <1>4, <2>1, <2>2 DEF NumbersDiffer
<1>6. NextNumber' = NextNumber /\ s < NextNumber /\ NextNumber \in Nat
  <2>1. NextNumber' = NextNumber
    BY <1>2 DEF NextNumber
  <2>2. process \in [Pids -> [number : Nat, stage : ProcessStages]]
    BY <1>3 DEF ProcessTyped
  <2>3. NextNumber \in Nat /\ process[p].number < NextNumber
    BY ONLY <2>2, <1>1, NextNumberIsNew
  <2> QED
    BY <2>1, <2>3, <1>4
<1>7. \A q \in Pids : process[q].stage = "create" => q # p /\ process[q].number # s
  BY <1>1, <1>3, <1>4 DEF NewcomersFit, NumbersDiffer
\* It goes on, and publishes nothing.
<1>8. ASSUME UNCHANGED <<pending, eventOnes>>,
             finalizer'[f].pc # "complete" \/ ~Published(s),
             finalizer'[f].pc # "out",
             finalizer'[f].pc \in {"cache", "publish"} => finalizer'[f].identity = s,
             ~Published(s)
      PROVE  FinalizersFit' /\ EntriesUnpublished' /\ EventsFit' /\ NewcomersFit'
  <2>1. EntriesUnpublished' /\ EventsFit'
    BY <1>3, <1>6, <1>8, EventsStay, PublishedStays DEF EntriesUnpublished
  <2>2. FinalizersFit'
    BY <1>1, <1>2, <1>3, <1>4, <1>5, <1>8, SMTT(30) DEF FinalizersFit, AtWork, Published
  <2>3. NewcomersFit'
    BY <1>1, <1>2, <1>3, <1>8, PublishedStays DEF NewcomersFit, AtWork
  <2> QED BY <2>1, <2>2, <2>3
<1>9. CASE finalizer[f].pc \in {"populate", "cache"}
  <2>1. /\ UNCHANGED <<pending, eventOnes>>
        /\ finalizer'[f].pc \in {"cache", "publish", "complete"}
        /\ finalizer'[f].pc \in {"cache", "publish"} => finalizer'[f].identity = s
    BY <1>3, <1>4, <1>9, FinalizerGoes
  <2> QED BY <1>4, <1>8, <1>9, <2>1
<1>10. CASE finalizer[f].pc = "publish"
  <2>1. /\ UNCHANGED pending /\ finalizer'[f].pc = "complete"
        /\ \/ UNCHANGED eventOnes
           \/ /\ finalizer'[f].consume
              /\ eventOnes' = Append(eventOnes, [strings |-> s, identity |-> finalizer[f].identity])
    BY <1>3, <1>10, FinalizerGoes
  <2>2. CASE UNCHANGED eventOnes
    BY <1>4, <1>8, <1>10, <2>1, <2>2
  <2>3. CASE /\ finalizer'[f].consume
             /\ eventOnes' = Append(eventOnes, [strings |-> s, identity |-> finalizer[f].identity])
    <3> DEFINE event == [strings |-> s, identity |-> finalizer[f].identity]
    <3>1. event.strings = s /\ event.identity = s
      BY <1>4, <1>10
    <3>2. /\ DOMAIN eventOnes = 1 .. Len(eventOnes) /\ Len(eventOnes) \in Nat
          /\ DOMAIN eventOnes' = 1 .. Len(eventOnes) + 1
          /\ \A i \in DOMAIN eventOnes : eventOnes'[i] = eventOnes[i]
          /\ eventOnes'[Len(eventOnes) + 1] = event
      <4>1. event \in [strings : Nat, identity : Nat]
        BY <1>3 DEF ProcessTyped, FinalizerRecords
      <4>2. eventOnes \in Seq([strings : Nat, identity : Nat])
        BY <1>3 DEF ProcessTyped
      <4>3. eventOnes' = Append(eventOnes, event)
        BY <2>3
      <4> HIDE DEF event
      <4> QED BY <4>1, <4>2, <4>3, AppendProperties, LenProperties
    <3> HIDE DEF event
    <3>3. ~Published(s)
      BY <1>4, <1>10
    <3>4. \A t : t # s => (Published(t)' <=> Published(t))
      BY <3>1, <3>2 DEF Published
    <3>5. FinalizersFit'
      <4>1. \A g \in Finalizers : AtWork(g)' <=> AtWork(g)
        BY <1>1, <2>1 DEF AtWork
      <4>2. ASSUME NEW g \in Finalizers, AtWork(g)
            PROVE  /\ finalizer'[g].strings = process'[finalizer'[g].pid].number
                   /\ finalizer'[g].strings > 0
                   /\ pending'[finalizer'[g].pid].of # 0 => pending'[finalizer'[g].pid].busy
                   /\ finalizer'[g].pc \in {"cache", "publish"}
                        => finalizer'[g].identity = finalizer'[g].strings
                   /\ \/ finalizer'[g].pc = "complete" /\ finalizer'[g].consume
                      \/ ~Published(finalizer[g].strings)'
        <5>1. CASE g = f
          BY <1>1, <1>2, <1>4, <2>1, <2>3, <5>1
        <5>2. CASE g # f
          <6>1. finalizer'[g] = finalizer[g] /\ finalizer[g].strings # s
            BY <1>1, <1>5, <4>2, <5>2
          <6>2. Published(finalizer[g].strings)' <=> Published(finalizer[g].strings)
            BY <3>1, <3>2, <6>1 DEF Published
          <6> QED BY <1>2, <1>3, <2>1, <4>2, <6>1, <6>2 DEF FinalizersFit
        <5> QED BY <5>1, <5>2
      <4>3. ASSUME NEW g \in Finalizers, NEW h \in Finalizers,
                   AtWork(g), AtWork(h), finalizer'[g].pid = finalizer'[h].pid
            PROVE  g = h
        BY <1>1, <1>5, <2>1, <1>3, <4>3 DEF FinalizersFit
      <4> QED BY <4>1, <4>2, <4>3 DEF FinalizersFit
    <3>6. EntriesUnpublished'
      <4>1. ASSUME NEW q \in Pids, pending[q].of # 0, ~pending[q].busy
            PROVE  pending[q].of # s /\ ~Published(pending[q].of)
        <5>1. pending[q].of = process[q].number /\ ~Published(pending[q].of)
          BY <1>2, <1>3, <4>1 DEF EntriesFit, EntriesUnpublished
        <5>2. q # p
          BY <1>4, <4>1
        <5> QED BY <1>1, <1>3, <1>4, <4>1, <5>1, <5>2 DEF NumbersDiffer
      <4> QED BY <2>1, <3>4, <4>1 DEF EntriesUnpublished
    <3>7. EventsFit'
      <4>1. \A i \in DOMAIN eventOnes : eventOnes[i].strings # s
        BY <3>3 DEF Published
      <4>2. \A i \in DOMAIN eventOnes' : i \in DOMAIN eventOnes \/ i = Len(eventOnes) + 1
        BY <3>2
      <4>3. ASSUME NEW i \in DOMAIN eventOnes'
            PROVE  /\ eventOnes'[i].strings = eventOnes'[i].identity
                   /\ eventOnes'[i].strings < NextNumber'
        BY <1>3, <1>6, <3>1, <3>2, <4>2 DEF EventsFit
      <4>4. ASSUME NEW i \in DOMAIN eventOnes', NEW j \in DOMAIN eventOnes',
                   eventOnes'[i].strings = eventOnes'[j].strings
            PROVE  i = j
        BY <1>3, <3>1, <3>2, <4>1, <4>2, <4>4 DEF EventsFit
      <4> QED BY <4>3, <4>4 DEF EventsFit
    <3>8. NewcomersFit'
      BY <1>1, <1>2, <1>3, <1>7, <2>1, <3>4 DEF NewcomersFit, AtWork
    <3> QED BY <3>5, <3>6, <3>7, <3>8
  <2> QED BY <2>1, <2>2, <2>3
<1>11. CASE finalizer[f].pc = "complete"
  <2>1. /\ UNCHANGED eventOnes /\ finalizer'[f].pc = "out"
        /\ pending' = CompletePending(p, finalizer[f].consume)
    BY <1>3, <1>11, FinalizerGoes
  <2>2. finalizer[f].consume \in BOOLEAN
    BY <1>3 DEF ProcessTyped, FinalizerRecords
  <2>3. /\ pending'[p].of = IF finalizer[f].consume THEN 0 ELSE pending[p].of
        /\ \A q \in Pids : q # p => pending'[q] = pending[q]
    BY <1>1, <1>3, <2>1, <2>2, CompleteMoves
  <2>4. EventsFit'
    BY <1>3, <1>6, <2>1, EventsStay
  <2>5. FinalizersFit'
    <3>1. \A g \in Finalizers : AtWork(g)' <=> AtWork(g) /\ g # f
      BY <1>1, <2>1 DEF AtWork
    <3>2. \A g \in Finalizers : g # f => finalizer'[g] = finalizer[g]
      BY <1>1
    <3> QED BY <1>2, <1>3, <1>5, <2>1, <2>3, <3>1, <3>2, SMTT(30) DEF FinalizersFit, Published
  <2>6. EntriesUnpublished'
    <3>1. ASSUME NEW q \in Pids, pending'[q].of # 0, ~pending'[q].busy
          PROVE  ~Published(pending'[q].of)
      <4>1. CASE q # p
        BY <1>3, <2>3, <3>1, <4>1 DEF EntriesUnpublished
      <4>2. CASE q = p
        BY <1>4, <1>11, <2>2, <2>3, <3>1, <4>2
      <4> QED BY <4>1, <4>2
    <3> QED BY <2>1, <3>1 DEF EntriesUnpublished, Published
  <2>7. NewcomersFit'
    BY <1>1, <1>2, <1>3, <1>7, <2>1, <2>3, PublishedStays DEF NewcomersFit, AtWork
  <2> QED BY <2>4, <2>5, <2>6, <2>7
<1>12. finalizer[f].pc \in FinalizerPlaces \ {"out"}
  BY <1>3, FinalizerMoves
<1> QED BY <1>9, <1>10, <1>11, <1>12 DEF FinalizerPlaces

LEMMA ProcessInitially == ProcessInit => ProcessInv
<1> SUFFICES ASSUME ProcessInit PROVE ProcessInv
  OBVIOUS
<1>1. ProcessTyped
  BY OutIsTyped, EmptySeq DEF ProcessInit, ProcessTyped, ProcessStages, NoEntry
<1>2. WorkerIsAskedOnce
  BY DEF ProcessInit, WorkerIsAskedOnce
<1>3. EntriesFit
  BY DEF ProcessInit, EntriesFit, NoEntry, InCallback
<1>4. NumbersDiffer
  BY DEF ProcessInit, NumbersDiffer
<1>5. eventOnes = <<>> /\ DOMAIN <<>> = {}
  BY DEF ProcessInit
<1>6. FinalizersFit /\ EntriesUnpublished /\ EventsFit /\ NewcomersFit
  BY <1>5, OutIsTyped DEF ProcessInit, FinalizersFit, AtWork, EntriesUnpublished, EventsFit,
     NewcomersFit, NoEntry
<1> QED BY <1>1, <1>2, <1>3, <1>4, <1>6 DEF ProcessInv, PublishedOnce

\* No entry outlives its process or the callback, the work item is freed when
\* nobody uses it, and a creation is reported once, as itself
\* (process.c 397-470, 561-727, 1127-1131).
THEOREM CreationsAlwaysReported == ProcessSpec => []CreationsAreReported
<1>1. ProcessInv /\ [ProcessNext]_processVars => ProcessInv'
  <2> SUFFICES ASSUME ProcessInv, [ProcessNext]_processVars PROVE ProcessInv'
    OBVIOUS
  <2>1. ProcessTyped /\ WorkerIsAskedOnce /\ EntriesFit /\ NumbersDiffer
    BY DEF ProcessInv
  <2>2. PublishedOnce'
    BY <2>1, StepsAre, EnterPublishes, CreatePublishes, BeginPublishes, FinalizerPublishes, DropPublishes
  <2> QED BY <2>1, <2>2, ProcessTypedStep, WorkerKept, EntriesKept DEF ProcessInv
<1>2. ProcessInv => CreationsAreReported
  <2> SUFFICES ASSUME ProcessInv PROVE CreationsAreReported
    OBVIOUS
  <2>1. PendingHasAProcess
    BY DEF ProcessInv, EntriesFit, PendingHasAProcess, Alive
  <2>2. FinalizeQuiet
    BY DEF ProcessInv, WorkerIsAskedOnce, EntriesFit, FinalizeQuiet
  <2>3. OneEventPerCreation
    BY DEF ProcessInv, PublishedOnce, EventsFit, OneEventPerCreation
  <2> QED BY <2>1, <2>2, <2>3 DEF CreationsAreReported
<1> QED BY ProcessInitially, <1>1, <1>2, PTL DEF ProcessSpec

=============================================================================
