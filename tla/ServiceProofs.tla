----------------------------- MODULE ServiceProofs -----------------------------
(***************************************************************************)
(* The service.  It never starts a source again once its worker has        *)
(* stopped them, whatever the monitor, the control handler and the         *)
(* registry do (Service); the tables of the network source are accounted   *)
(* for (Network); the process store finds the process an event is of, and  *)
(* forgets the idle ones (ProcessStore): for any sources, connections,     *)
(* names, processes, threads and bounds.                                   *)
(*                                                                         *)
(* That the sources stay stopped is not inductive: the monitor may still   *)
(* apply a mask computed earlier.  It is a service that stops, and goes on *)
(* stopping, that makes the mask empty, and the worker comes to its        *)
(* cleanup only when the service stops.                                    *)
(***************************************************************************)
EXTENDS Service, Network, ProcessStore, SequenceLemmas

\* The worker leaves its loop, or does not come to it, only in a stop.
CleanupMeansStopping ==
    worker.at \in {"cleanup", "teardown", "done"} => Stopping

\* The worker's state has these three parts.
WorkerShape ==
    worker = [at |-> worker.at, config |-> worker.config, mask |-> worker.mask]

StopInv ==
    /\ WorkerShape
    /\ CleanupMeansStopping
    /\ SourcesStayStopped

\* The service starts with its worker before all of that.
LEMMA StopInitially == ServiceInit => StopInv
  BY DEF ServiceInit, StopInv, WorkerShape, CleanupMeansStopping, SourcesStayStopped

\* A stop is never taken back.
LEMMA StopIsFinal == Stopping /\ [ServiceNext]_serviceVars => Stopping'
<1> SUFFICES ASSUME Stopping, [ServiceNext]_serviceVars PROVE Stopping'
  OBVIOUS
<1>1. CASE ServiceWorker
  BY <1>1 DEF Stopping, ServiceWorker, WorkerReads, WorkerInstalls, WorkerConnects,
     WorkerPrepares, WorkerComputesMask, WorkerAppliesMask, WorkerLoops, WorkerReceives,
     WorkerStopsSources, WorkerTearsDown, FailsLoudly, lifeVars
<1>2. CASE ConfigMonitor
  BY <1>2 DEF Stopping, ConfigMonitor, MonitorRegisters, MonitorWakes, MonitorReads,
     MonitorTests, MonitorSwaps, MonitorRetests, MonitorApplies, lifeVars
<1>3. CASE ~ServiceWorker /\ ~ConfigMonitor
  BY <1>3 DEF Stopping, ServiceNext, QueryThreadStops, QueryThreadBreaks, MainWakes, MainEnds,
     StopRequested, StopSignalled, RegistryChanges, SourceFaults, BackoffEnds, Ended, lifeVars,
     serviceVars
<1> QED BY <1>1, <1>2, <1>3

\* In a stop the mask is empty, and so are the sources afterwards.
LEMMA StoppingStartsNothing ==
    ASSUME Stopping, NEW mask, ApplyMask(mask) PROVE sources' = {}
  BY DEF ApplyMask, MaskUnlessStopping

\* The worker's part.  Only its own steps change where it is; it comes to its
\* cleanup by a step that stops the service or finds it stopping.
LEMMA WorkerKeepsStop ==
    ASSUME StopInv, ServiceWorker PROVE StopInv'
<1> USE DEF StopInv, WorkerShape, CleanupMeansStopping, SourcesStayStopped
<1>0. Stopping => Stopping'
  BY StopIsFinal DEF ServiceNext
<1>1. CASE WorkerReads
  BY <1>0, <1>1 DEF WorkerReads, sourceVarsOfService
<1>2. CASE WorkerInstalls
  BY <1>0, <1>2 DEF WorkerInstalls, sourceVarsOfService
<1>3. CASE WorkerConnects
  BY <1>0, <1>3 DEF WorkerConnects, WorkerAt, sourceVarsOfService, Stopping
<1>4. ASSUME NEW from, NEW to, to \in {"mask", "loop"}, WorkerPrepares(from, to)
      PROVE StopInv'
  BY <1>0, <1>4 DEF WorkerPrepares, WorkerAt, FailsLoudly, sourceVarsOfService, Stopping
<1>5. ASSUME NEW from, NEW to, to \in {"apply", "refresh"}, WorkerComputesMask(from, to)
      PROVE StopInv'
  BY <1>0, <1>5 DEF WorkerComputesMask, sourceVarsOfService
<1>6. ASSUME NEW from, NEW to, to \in {"buffer", "receive"}, WorkerAppliesMask(from, to)
      PROVE StopInv'
  BY <1>0, <1>6 DEF WorkerAppliesMask
<1>7. CASE WorkerLoops
  BY <1>0, <1>7 DEF WorkerLoops, WorkerAt, sourceVarsOfService, lifeVars, Stopping
<1>8. CASE WorkerReceives
  BY <1>0, <1>8 DEF WorkerReceives, WorkerAt, sourceVarsOfService, lifeVars, Stopping
<1>9. CASE WorkerStopsSources
  BY <1>0, <1>9 DEF WorkerStopsSources, WorkerAt
<1>10. CASE WorkerTearsDown
  BY <1>0, <1>10 DEF WorkerTearsDown, WorkerAt, sourceVarsOfService
<1> QED
  BY <1>1, <1>2, <1>3, <1>4, <1>5, <1>6, <1>7, <1>8, <1>9, <1>10 DEF ServiceWorker

\* The others' part: they leave the worker where it is, and start sources, if
\* at all, by way of the mask.
LEMMA OthersKeepStop ==
    ASSUME StopInv, [ServiceNext]_serviceVars, ~ServiceWorker PROVE StopInv'
<1> USE DEF StopInv, WorkerShape, CleanupMeansStopping, SourcesStayStopped
<1>0. Stopping => Stopping'
  BY StopIsFinal
<1>1. CASE MonitorApplies
  <2>1. Stopping => sources' = {}
    BY <1>1, StoppingStartsNothing DEF MonitorApplies
  <2> QED BY <1>0, <1>1, <2>1 DEF MonitorApplies, MonitorLeavesAlone
<1>2. CASE ConfigMonitor /\ ~MonitorApplies
  BY <1>0, <1>2 DEF ConfigMonitor, MonitorRegisters, MonitorWakes, MonitorReads, MonitorTests,
     MonitorSwaps, MonitorRetests, MonitorLeavesAlone, sourceVarsOfService
<1>3. CASE ~ConfigMonitor
  BY <1>0, <1>3 DEF ServiceNext, QueryThreadStops, QueryThreadBreaks, MainWakes, MainEnds,
     StopRequested, StopSignalled, RegistryChanges, SourceFaults, BackoffEnds, Ended,
     sourceVarsOfService, serviceVars
<1> QED BY <1>1, <1>2, <1>3 DEF ConfigMonitor

\* Once the worker has stopped the sources none is started again
\* (service.cpp 226-300, 880-1100).
THEOREM SourcesAreStoppedForGood == ServiceSpec => []SourcesStayStopped
<1>1. StopInv /\ [ServiceNext]_serviceVars => StopInv'
  BY WorkerKeepsStop, OthersKeepStop
<1>2. StopInv => SourcesStayStopped
  BY DEF StopInv
<1> QED BY StopInitially, <1>1, <1>2, PTL DEF ServiceSpec

-----------------------------------------------------------------------------
(* The network source: the table of recent connections.                    *)

RecentEntries == [conn : Connections, seen : Int]
Scans == [table : Seq(RecentEntries), at : Nat \ {0}, hit : BOOLEAN, oldest : Nat, least : Int]

NoRepeats(table) == \A i, j \in DOMAIN table : table[i].conn = table[j].conn => i = j

\* The search has left turns left, which is as many as it has entries to look
\* at, and has not met the connection so far.
ScanFits(scan, conn, left) ==
    /\ NoRepeats(scan.table)
    /\ ~scan.hit => /\ \A i \in DOMAIN scan.table : i < scan.at => scan.table[i].conn # conn
                    /\ Len(scan.table) + 1 - scan.at <= left

\* Removing an entry: the last one takes its place.
LEMMA WithoutEntryIs ==
    ASSUME NEW S, NEW table \in Seq(S), NEW at \in 1 .. Len(table)
    PROVE  /\ WithoutEntry(table, at) \in Seq(S)
           /\ Len(WithoutEntry(table, at)) = Len(table) - 1
           /\ DOMAIN WithoutEntry(table, at) = 1 .. Len(table) - 1
           /\ \A k \in 1 .. Len(table) - 1 :
                 WithoutEntry(table, at)[k] = table[IF k = at THEN Len(table) ELSE k]
<1> DEFINE n == Len(table)
           t == [table EXCEPT ![at] = table[n]]
<1>1. n \in Nat \ {0} /\ DOMAIN table = 1 .. n /\ \A k \in 1 .. n : table[k] \in S
  BY LenProperties, ElementOfSeq
<1>2. t \in Seq(S) /\ Len(t) = n /\ \A k \in 1 .. n : t[k] = table[IF k = at THEN n ELSE k]
  <2>1. t \in [1 .. n -> S]
    BY <1>1
  <2>2. t \in Seq(S)
    BY <1>1, <2>1, SeqDef
  <2>3. Len(t) = n
    BY <1>1, <2>1, <2>2, LenProperties
  <2>4. \A k \in 1 .. n : t[k] = table[IF k = at THEN n ELSE k]
    BY <1>1
  <2> QED
    BY <2>2, <2>3, <2>4
<1>3. WithoutEntry(table, at) = SubSeq(t, 1, n - 1)
  BY <1>2 DEF WithoutEntry, Front, Last
<1> HIDE DEF t
<1>4. /\ SubSeq(t, 1, n - 1) \in Seq(S) /\ Len(SubSeq(t, 1, n - 1)) = n - 1
      /\ \A k \in 1 .. n - 1 : SubSeq(t, 1, n - 1)[k] = t[k]
  BY <1>1, <1>2, SubSeqProperties
<1>5. DOMAIN SubSeq(t, 1, n - 1) = 1 .. n - 1
  BY <1>4, LenProperties
<1>6. \A k \in 1 .. n - 1 : SubSeq(t, 1, n - 1)[k] = table[IF k = at THEN n ELSE k]
  BY <1>1, <1>2, <1>4
<1> QED
  BY <1>3, <1>4, <1>5, <1>6

\* A turn of the search.
LEMMA TurnFits ==
    ASSUME NEW now \in Int, NEW conn \in Connections, NEW scan \in Scans, NEW turn,
           NEW left \in Nat
    PROVE  /\ RecentTurn(now, conn, scan, turn) \in Scans
           /\ ScanFits(scan, conn, left + 1) => ScanFits(RecentTurn(now, conn, scan, turn), conn, left)
<1> DEFINE table == scan.table
           entry == table[scan.at]
           next == RecentTurn(now, conn, scan, turn)
           fits == ScanFits(scan, conn, left + 1)
<1> SUFFICES next \in Scans /\ (fits => ScanFits(next, conn, left))
  OBVIOUS
<1>1. /\ table \in Seq(RecentEntries) /\ scan.at \in Nat \ {0} /\ Len(table) \in Nat
      /\ DOMAIN table = 1 .. Len(table)
      /\ \A k \in 1 .. Len(table) : table[k] \in RecentEntries
  BY LenProperties, ElementOfSeq DEF Scans
<1>2. CASE scan.hit \/ scan.at > Len(table)
  <2>1. next = scan
    BY <1>2 DEF RecentTurn
  <2>2. ASSUME fits, ~scan.hit
        PROVE  /\ \A i \in DOMAIN table : i < scan.at => table[i].conn # conn
               /\ Len(table) + 1 - scan.at <= left
    BY <1>1, <1>2, <2>2 DEF ScanFits
  <2>3. fits => NoRepeats(table)
    BY DEF ScanFits
  <2> QED
    BY <2>1, <2>2, <2>3 DEF ScanFits
<1>3. CASE ~(scan.hit \/ scan.at > Len(table))
  <2>1. /\ scan.at \in 1 .. Len(table) /\ entry \in RecentEntries
        /\ fits => /\ Len(table) + 1 - scan.at <= left + 1
                   /\ \A i \in DOMAIN table : i < scan.at => table[i].conn # conn
                   /\ NoRepeats(table)
    BY <1>1, <1>3 DEF ScanFits
  <2>2. CASE now >= entry.seen /\ now - entry.seen > RecentWindow
    <3> DEFINE t == WithoutEntry(table, scan.at)
    <3>1. next = [scan EXCEPT !.table = t]
      BY <1>3, <2>2 DEF RecentTurn, EntryRemoved
    <3>2. /\ t \in Seq(RecentEntries) /\ Len(t) = Len(table) - 1 /\ DOMAIN t = 1 .. Len(table) - 1
          /\ \A k \in 1 .. Len(table) - 1 : t[k] = table[IF k = scan.at THEN Len(table) ELSE k]
      BY <1>1, <2>1, WithoutEntryIs
    <3> HIDE DEF t
    <3>3. /\ next \in Scans /\ next.table = t /\ next.at = scan.at /\ next.hit = scan.hit
      BY <3>1, <3>2 DEF Scans
    <3> SUFFICES ASSUME fits PROVE ScanFits(next, conn, left)
      BY <3>3
    <3> HIDE DEF next, table, entry, fits
    <3>4. NoRepeats(t)
      <4> SUFFICES ASSUME NEW i \in 1 .. Len(table) - 1, NEW j \in 1 .. Len(table) - 1,
                          t[i].conn = t[j].conn
                   PROVE  i = j
        BY <3>2 DEF NoRepeats
      <4> DEFINE f == IF i = scan.at THEN Len(table) ELSE i
                 g == IF j = scan.at THEN Len(table) ELSE j
      <4>1. f \in 1 .. Len(table) /\ g \in 1 .. Len(table) /\ (f = g => i = j)
        BY <1>1
      <4>2. t[i] = table[f] /\ t[j] = table[g]
        BY <3>2
      <4> HIDE DEF f, g
      <4> QED
        BY <1>1, <2>1, <4>1, <4>2 DEF NoRepeats
    <3>5. \A i \in DOMAIN t : i < scan.at => t[i].conn # conn
      <4> SUFFICES ASSUME NEW i \in 1 .. Len(table) - 1, i < scan.at PROVE t[i].conn # conn
        BY <3>2
      <4>1. t[i] = table[i] /\ i \in DOMAIN table
        BY <1>1, <3>2
      <4> QED
        BY <2>1, <4>1
    <3>6. Len(t) + 1 - scan.at <= left
      BY <1>1, <2>1, <3>2
    <3> QED
      BY <3>3, <3>4, <3>5, <3>6 DEF ScanFits
  <2>3. CASE ~(now >= entry.seen /\ now - entry.seen > RecentWindow) /\ entry.conn = conn
    <3>1. next = [scan EXCEPT !.table[scan.at].seen = now, !.hit = TRUE]
      BY <1>3, <2>3 DEF RecentTurn
    <3> DEFINE t == [table EXCEPT ![scan.at].seen = now]
    <3>2. /\ DOMAIN t = DOMAIN table
          /\ \A k \in DOMAIN table : t[k].conn = table[k].conn /\ t[k] \in RecentEntries
      BY <1>1 DEF RecentEntries
    <3>3. t \in Seq(RecentEntries)
      <4>1. t \in [1 .. Len(table) -> RecentEntries]
        BY <1>1, <3>2
      <4> QED
        BY <1>1, <4>1, SeqDef
    <3>4. next.table = t /\ next.hit /\ next \in Scans
      BY <3>1, <3>3 DEF Scans
    <3> SUFFICES ASSUME fits PROVE ScanFits(next, conn, left)
      BY <3>4
    <3> HIDE DEF t, next, table, fits
    <3>5. NoRepeats(t)
      BY <2>1, <3>2 DEF NoRepeats
    <3> QED
      BY <3>4, <3>5 DEF ScanFits
  <2>4. CASE ~(now >= entry.seen /\ now - entry.seen > RecentWindow) /\ entry.conn # conn
    <3> DEFINE o == IF scan.oldest = 0 \/ entry.seen < scan.least THEN scan.at ELSE scan.oldest
               l == IF scan.oldest = 0 \/ entry.seen < scan.least THEN entry.seen ELSE scan.least
    <3>1. next = [scan EXCEPT !.at = scan.at + 1, !.oldest = o, !.least = l]
      BY <1>3, <2>4 DEF RecentTurn
    <3>2. o \in Nat /\ l \in Int
      BY <2>1 DEF RecentEntries, Scans
    <3> HIDE DEF o, l
    <3> HIDE DEF next
    <3>3. /\ next \in Scans /\ next.table = table /\ next.at = scan.at + 1 /\ next.hit = scan.hit
      <4>1. scan.at + 1 \in Nat \ {0}
        BY <1>1
      <4> QED
        BY <3>1, <3>2, <4>1 DEF Scans
    <3> SUFFICES ASSUME fits PROVE ScanFits(next, conn, left)
      BY <3>3
    <3> HIDE DEF table, fits
    <3>4. \A i \in DOMAIN table : i < scan.at + 1 => table[i].conn # conn
      BY <1>1, <2>1, <2>4
    <3>5. Len(table) + 1 - (scan.at + 1) <= left
      BY <1>1, <2>1
    <3> QED
      BY <2>1, <3>3, <3>4, <3>5 DEF ScanFits
  <2> QED
    BY <2>2, <2>3, <2>4
<1> QED
  BY <1>2, <1>3

\* The whole search: no repeats, and a miss has looked at every entry.
LEMMA ScanIsComplete ==
    ASSUME NEW conn \in Connections, recent \in Seq(RecentEntries), NoRepeats(recent), wall.now \in Int
    PROVE  LET scan == RecentScan(conn)
           IN  /\ scan \in Scans /\ NoRepeats(scan.table)
               /\ ~scan.hit => \A i \in DOMAIN scan.table : scan.table[i].conn # conn
<1> DEFINE n == Len(recent)
           now == wall.now
           seq == [turn \in 1 .. n |-> turn]
           base == [table |-> recent, at |-> 1, hit |-> FALSE, oldest |-> 0, least |-> 0]
           Folds(iter) == iter =
             [T \in SUBSET DOMAIN seq |->
                IF T = {} THEN base
                ELSE RecentTurn(now, conn, iter[T \ {Max(T)}], seq[Max(T)])]
           fold == CHOOSE iter : Folds(iter)
           pick == [T \in SUBSET DOMAIN seq |-> Max(T)]
           step == [x \in DOMAIN seq |-> [v \in Scans |-> RecentTurn(now, conn, v, seq[x])]]
<1>1. n \in Nat /\ DOMAIN recent = 1 .. n /\ DOMAIN seq = 1 .. n /\ IsFiniteSet(1 .. n)
  BY LenProperties, FS_Interval
<1>2. RecentScan(conn) = fold[DOMAIN seq]
  BY DEF RecentScan, FoldLeft, MapThenFoldSet
<1>3. base \in Scans /\ ScanFits(base, conn, n)
  BY <1>1 DEF Scans, ScanFits
<1>4. \A T \in SUBSET (1 .. n) : T # {} => Max(T) \in T
  BY <1>1, MaxAmong
<1>5. Picks(pick, DOMAIN seq)
  BY <1>1, <1>4 DEF Picks
<1>6. ASSUME NEW x \in DOMAIN seq, NEW v \in Scans
      PROVE  RecentTurn(now, conn, v, seq[x]) \in Scans
  BY TurnFits
<1>7. PICK iter \in [SUBSET DOMAIN seq -> Scans] : FoldsUp(iter, base, step, pick, DOMAIN seq)
  <2>1. Steps(step, DOMAIN seq, Scans)
    BY <1>6 DEF Steps
  <2>2. IsFiniteSet(DOMAIN seq)
    BY <1>1
  <2> HIDE DEF seq, base, step, pick
  <2> QED
    BY <1>3, <1>5, <2>1, <2>2, FoldsExist
<1>8. Folds(iter)
  <2>1. \A T \in SUBSET DOMAIN seq : T # {} =>
          step[pick[T]][iter[T \ {pick[T]}]] = RecentTurn(now, conn, iter[T \ {Max(T)}], seq[Max(T)])
    <3> SUFFICES ASSUME NEW T \in SUBSET DOMAIN seq, T # {}
                 PROVE  step[pick[T]][iter[T \ {pick[T]}]]
                          = RecentTurn(now, conn, iter[T \ {Max(T)}], seq[Max(T)])
      OBVIOUS
    <3>1. pick[T] = Max(T) /\ Max(T) \in DOMAIN seq
      BY <1>1, <1>4
    <3>2. iter[T \ {Max(T)}] \in Scans
      OBVIOUS
    <3> HIDE DEF seq, pick
    <3> QED
      BY <3>1, <3>2
  <2> HIDE DEF seq, base, step, pick
  <2> QED
    BY <1>7, <2>1 DEF FoldsUp
<1>9. Folds(fold)
  <2> HIDE DEF Folds
  <2> QED
    BY <1>8
<1> DEFINE Fine(k) == fold[1 .. k] \in Scans /\ ScanFits(fold[1 .. k], conn, n - k)
           N == {k \in Nat : k <= n => Fine(k)}
<1>10. 0 \in N
  <2>1. 1 .. 0 = {} /\ n - 0 = n
    BY <1>1
  <2>2. fold[{}] = base
    <3> HIDE DEF seq, base, fold
    <3> QED
      BY <1>9
  <2> HIDE DEF fold, base
  <2> QED
    BY <1>3, <2>1, <2>2
<1>11. ASSUME NEW k \in Nat, k \in N PROVE k + 1 \in N
  <2> SUFFICES ASSUME k + 1 <= n PROVE Fine(k + 1)
    <3> HIDE DEF Fine
    <3> QED
      OBVIOUS
  <2>1. /\ 1 .. k + 1 \in SUBSET (1 .. n) /\ 1 .. k + 1 # {} /\ Fine(k)
    <3>1. 1 .. k + 1 \in SUBSET (1 .. n) /\ 1 .. k + 1 # {} /\ k <= n
      BY <1>1, SMTT(30)
    <3> HIDE DEF Fine
    <3> QED
      BY <1>11, <3>1
  <2>2. Max(1 .. k + 1) = k + 1 /\ (1 .. k + 1) \ {k + 1} = 1 .. k
    <3>1. \A y \in 1 .. k + 1 : k + 1 >= y
      OBVIOUS
    <3>2. \A x \in 1 .. k + 1 : (\A y \in 1 .. k + 1 : x >= y) => x = k + 1
      OBVIOUS
    <3>3. Max(1 .. k + 1) = k + 1
      BY <3>1, <3>2 DEF Max
    <3> QED
      BY <3>3
  <2>3. fold[1 .. k + 1] = RecentTurn(now, conn, fold[1 .. k], seq[k + 1])
    <3>1. fold[1 .. k + 1] = RecentTurn(now, conn, fold[(1 .. k + 1) \ {Max(1 .. k + 1)}], seq[Max(1 .. k + 1)])
      <4>1. 1 .. k + 1 \in SUBSET DOMAIN seq
        BY <1>1, <2>1
      <4> HIDE DEF seq, base, fold
      <4> QED
        BY <1>9, <2>1, <4>1
    <3> HIDE DEF fold, seq
    <3> QED
      BY <2>2, <3>1
  <2>4. n - k = (n - (k + 1)) + 1 /\ n - (k + 1) \in Nat
    BY <1>1
  <2>5. fold[1 .. k] \in Scans /\ ScanFits(fold[1 .. k], conn, (n - (k + 1)) + 1)
    <3> HIDE DEF fold
    <3> QED
      BY <2>1, <2>4
  <2> HIDE DEF fold, seq
  <2>6. /\ RecentTurn(now, conn, fold[1 .. k], seq[k + 1]) \in Scans
        /\ ScanFits(RecentTurn(now, conn, fold[1 .. k], seq[k + 1]), conn, n - (k + 1))
    BY <2>4, <2>5, TurnFits
  <2> QED
    BY <2>3, <2>6
<1>12. Fine(n)
  <2> HIDE DEF Fine
  <2>1. Nat \subseteq N
    <3> HIDE DEF N
    <3> QED
      BY <1>10, <1>11, NaturalsByInduction
  <2> QED
    BY <1>1, <2>1
<1> DEFINE scan == fold[1 .. n]
<1>13. scan \in Scans /\ ScanFits(scan, conn, 0)
  <2> HIDE DEF fold
  <2> QED
    BY <1>1, <1>12
<1> HIDE DEF scan
<1>14. NoRepeats(scan.table) /\ (~scan.hit => \A i \in DOMAIN scan.table : scan.table[i].conn # conn)
  <2> SUFFICES ASSUME ~scan.hit, NEW i \in DOMAIN scan.table PROVE scan.table[i].conn # conn
    BY <1>13 DEF ScanFits
  <2>1. Len(scan.table) + 1 - scan.at <= 0 /\ scan.at \in Nat
    BY <1>13 DEF ScanFits, Scans
  <2>2. DOMAIN scan.table = 1 .. Len(scan.table) /\ Len(scan.table) \in Nat
    BY <1>13, LenProperties DEF Scans
  <2>3. i < scan.at
    BY <2>1, <2>2
  <2> QED
    BY <1>13, <2>3 DEF ScanFits
<1>15. RecentScan(conn) = scan
  BY <1>1, <1>2 DEF scan
<1> QED
  BY <1>13, <1>14, <1>15

-----------------------------------------------------------------------------
(* The name cache.  A name is reserved by the ETW thread, which then hands *)
(* the work out or fails to; either way, and when the work is done, every  *)
(* entry of the key is resolved, so an entry that is reserved has somebody *)
(* who answers it.                                                         *)

EtwSteps == {"idle", "lookup", "count", "reserve", "queue"}
NameEntries == [key : Keys \cup {"none"}, pending : BOOLEAN,
                value : LookupResults \cup {"none"}, expire : Nat]

NetworkTypes ==
    /\ tick \in Nat /\ wall.now \in Int
    /\ recent \in Seq(RecentEntries)
    /\ nameCache \in [NameSlots -> NameEntries]
    /\ nameWork \in Int
    /\ nameWorkers \in [Keys -> Nat]
    /\ etw \in [keys : Seq(Keys), step : EtwSteps]
    /\ etw.step # "idle" => etw.keys # <<>>

\* A pending entry has its answerer.
Answered(entry) ==
    entry.pending => /\ entry.key \in Keys
                     /\ \/ nameWorkers[entry.key] > 0
                        \/ etw.step = "queue" /\ Head(etw.keys) = entry.key

WorkCounted ==
    /\ nameWork = TotalOf(nameWorkers, Keys) + (IF etw.step \in {"reserve", "queue"} THEN 1 ELSE 0)
    /\ nameWork <= NameWorkLimit

NetworkInv ==
    /\ NetworkTypes
    /\ RecentIsASet
    /\ \A slot \in NameSlots : Answered(nameCache[slot])
    /\ WorkCounted

\* There are finitely many keys.
LEMMA KeysAreFinite == IsFiniteSet(Keys)
<1> DEFINE f == [c \in Connections |-> ToSet(NamesOf[c])]
           T == {ToSet(NamesOf[c]) : c \in Connections}
<1>1. f \in Surjection(Connections, T)
  BY DEF Surjection
<1>2. IsFiniteSet(T)
  <2> HIDE DEF f, T
  <2> QED
    BY <1>1, NetworkAssumption, FS_Surjection
<1>3. ASSUME NEW c \in Connections PROVE IsFiniteSet(ToSet(NamesOf[c]))
  <2> DEFINE s == NamesOf[c]
  <2>1. s \in Seq(Keys)
    BY NetworkAssumption
  <2>2. DOMAIN s = 1 .. Len(s) /\ Len(s) \in Nat
    BY <2>1, LenProperties
  <2>3. s \in Surjection(1 .. Len(s), ToSet(s))
    <3> HIDE DEF s
    <3>1. s \in [1 .. Len(s) -> ToSet(s)]
      BY <2>1, <2>2 DEF ToSet
    <3> QED
      BY <2>2, <3>1 DEF Surjection, ToSet
  <2>4. IsFiniteSet(1 .. Len(s))
    BY <2>2, FS_Interval
  <2> HIDE DEF s
  <2>5. IsFiniteSet(ToSet(s))
    BY <2>3, <2>4, FS_Surjection
  <2> QED
    BY <2>5 DEF s
<1>4. Keys = UNION T
  BY DEF Keys
<1> QED
  BY <1>2, <1>3, <1>4, FS_UNION

\* At the start nothing is known and nobody works.
LEMMA NetworkInitially == NetworkInit => NetworkInv
<1> SUFFICES ASSUME NetworkInit PROVE NetworkInv
  OBVIOUS
<1> USE DEF NetworkInit
<1>1. NetworkTypes
  <2>1. Unused \in NameEntries
    BY DEF Unused, NameEntries
  <2>2. /\ <<>> \in Seq(RecentEntries) /\ <<>> \in Seq(Keys)
    BY EmptySeq
  <2>3. Idle \in [keys : Seq(Keys), step : EtwSteps] /\ Idle.step = "idle"
    BY <2>2 DEF Idle, EtwSteps
  <2>4. wall.now = 1
    OBVIOUS
  <2> QED
    BY <2>1, <2>2, <2>3, <2>4 DEF NetworkTypes
<1>2. RecentIsASet /\ \A slot \in NameSlots : Answered(nameCache[slot])
  BY DEF RecentIsASet, Answered, Unused
<1>3. WorkCounted
  <2> DEFINE g == nameWorkers
  <2>1. \A key \in Keys : g[key] = 0
    OBVIOUS
  <2>2. TotalOf(g, Keys) = 0
    <3> HIDE DEF g
    <3> QED
      BY <2>1, KeysAreFinite, TotalZero
  <2> QED
    BY <2>2, NetworkAssumption DEF WorkCounted, Idle
<1> QED
  BY <1>1, <1>2, <1>3 DEF NetworkInv

\* The ETW thread goes on to the next key, or to the next record.
LEMMA NextKeyIs ==
    ASSUME NetworkTypes, etw.step # "idle"
    PROVE  /\ NextKey \in [keys : Seq(Keys), step : EtwSteps]
           /\ NextKey.step \in {"idle", "lookup"}
           /\ NextKey.step # "idle" => NextKey.keys # <<>>
           /\ Head(etw.keys) \in Keys
<1>1. etw.keys \in Seq(Keys) /\ etw.keys # <<>>
  BY DEF NetworkTypes
<1>2. /\ Head(etw.keys) \in Keys /\ Tail(etw.keys) \in Seq(Keys)
      /\ Len(etw.keys) \in Nat \ {0} /\ Len(Tail(etw.keys)) = Len(etw.keys) - 1
  BY <1>1, EmptySeq, LenProperties, HeadTailProperties
<1>3. CASE Len(etw.keys) = 1
  <2>1. NextKey = Idle
    BY <1>3 DEF NextKey
  <2> QED
    BY <1>2, <2>1, EmptySeq DEF Idle, EtwSteps
<1>4. CASE Len(etw.keys) # 1
  <2>1. NextKey = [keys |-> Tail(etw.keys), step |-> "lookup"]
    BY <1>4 DEF NextKey
  <2>2. Tail(etw.keys) # <<>>
    <3>1. Len(Tail(etw.keys)) # 0
      BY <1>2, <1>4
    <3> QED
      BY <3>1, EmptySeq
  <2> QED
    BY <1>2, <2>1, <2>2 DEF EtwSteps
<1> QED
  BY <1>3, <1>4

\* Storing a name, or that there is none, resolves every entry of its key.
LEMMA WithNameResolves ==
    ASSUME NetworkTypes, NEW key \in Keys, NEW value \in LookupResults \cup {"none"}
    PROVE  /\ WithName(key, value) \in [NameSlots -> NameEntries]
           /\ \A slot \in NameSlots :
                 WithName(key, value)[slot].pending =>
                    WithName(key, value)[slot] = nameCache[slot] /\ nameCache[slot].key # key
<1> SUFFICES ASSUME NEW slot \in NameSlots
             PROVE  /\ WithName(key, value)[slot] \in NameEntries
                    /\ WithName(key, value)[slot].pending =>
                          WithName(key, value)[slot] = nameCache[slot] /\ nameCache[slot].key # key
  BY DEF WithName
<1>1. nameCache[slot] \in NameEntries
  BY DEF NetworkTypes
<1>2. CASE slot \notin SlotOf(key)
  <2>1. WithName(key, value)[slot] = nameCache[slot]
    BY <1>2 DEF WithName
  <2>2. nameCache[slot].pending => InUse(slot)
    BY DEF InUse, Unused
  <2> QED
    BY <1>1, <1>2, <2>1, <2>2 DEF SlotOf
<1>3. CASE slot \in SlotOf(key)
  <2> DEFINE x == tick + IF value = "none" THEN NegativeTime ELSE PositiveTime
  <2>1. WithName(key, value)[slot] = [nameCache[slot] EXCEPT !.pending = FALSE, !.value = value, !.expire = x]
    BY <1>3 DEF WithName
  <2>2. x \in Nat
    BY <1>1, NetworkAssumption, SMTT(30) DEF NameEntries, NetworkTypes
  <2> HIDE DEF x
  <2> QED
    BY <1>1, <2>1, <2>2 DEF NameEntries
<1> QED
  BY <1>2, <1>3

\* A record: the table, and perhaps names to ask for.
LEMMA ArrivalKeepsNetwork == NetworkInv /\ EventArrives => NetworkInv'
<1> SUFFICES ASSUME NetworkInv, EventArrives PROVE NetworkInv'
  OBVIOUS
<1>1. PICK record \in Records, dnsLookup \in BOOLEAN :
        LET scan == RecentScan(record.conn)
        IN  /\ recent' = Refreshed(scan, record.conn)
            /\ etw' = IF scan.hit \/ ~dnsLookup THEN etw
                      ELSE [keys |-> NamesOf[record.conn], step |-> "lookup"]
  BY DEF EventArrives
<1>2. /\ etw.step = "idle"
      /\ UNCHANGED <<tick, wall, nameCache, nameWork, nameWorkers>>
  BY DEF EventArrives
<1> DEFINE conn == record.conn
           scan == RecentScan(conn)
           entry == [conn |-> conn, seen |-> wall.now]
<1>3. conn \in Connections /\ entry \in RecentEntries
  BY DEF Records, NetworkInv, NetworkTypes, RecentEntries
<1>4. /\ scan \in Scans /\ NoRepeats(scan.table)
      /\ ~scan.hit => \A i \in DOMAIN scan.table : scan.table[i].conn # conn
  BY <1>3, ScanIsComplete DEF NetworkInv, NetworkTypes, RecentIsASet, NoRepeats
<1>5. /\ recent' = Refreshed(scan, conn)
      /\ etw' = etw \/ etw' = [keys |-> NamesOf[conn], step |-> "lookup"]
  BY <1>1
<1> HIDE DEF scan
<1>6. /\ scan.table \in Seq(RecentEntries) /\ DOMAIN scan.table = 1 .. Len(scan.table)
      /\ Len(scan.table) \in Nat
      /\ \A i \in DOMAIN scan.table : scan.table[i] \in RecentEntries
  BY <1>4, LenProperties, ElementOfSeq DEF Scans
<1>7. recent' \in Seq(RecentEntries) /\ NoRepeats(recent')
  <2>1. CASE scan.hit
    BY <1>4, <1>5, <1>6, <2>1 DEF Refreshed
  <2>2. CASE ~scan.hit /\ Len(scan.table) < RecentCapacity
    <3>1. recent' = Append(scan.table, entry) /\ entry.conn = conn
      BY <1>5, <2>2 DEF Refreshed
    <3> DEFINE t == scan.table
    <3> HIDE DEF entry, t
    <3>2. /\ recent' \in Seq(RecentEntries) /\ DOMAIN recent' = DOMAIN t \cup {Len(t) + 1}
          /\ Len(t) + 1 \notin DOMAIN t /\ recent'[Len(t) + 1] = entry
          /\ \A k \in DOMAIN t : recent'[k] = t[k]
      BY <1>3, <1>6, <3>1, AppendIndexes DEF t
    <3>3. NoRepeats(t) /\ \A k \in DOMAIN t : t[k].conn # conn
      BY <1>4, <2>2 DEF t
    <3> QED
      BY <3>1, <3>2, <3>3 DEF NoRepeats
  <2>3. CASE ~scan.hit /\ ~(Len(scan.table) < RecentCapacity)
    <3> DEFINE t == scan.table
               o == scan.oldest
    <3>1. recent' = [t EXCEPT ![o] = entry] /\ entry.conn = conn
      BY <1>5, <2>3 DEF Refreshed
    <3>2. NoRepeats(t) /\ \A k \in DOMAIN t : t[k].conn # conn
      BY <1>4, <2>3
    <3>3. DOMAIN t = 1 .. Len(t) /\ Len(t) \in Nat /\ \A k \in DOMAIN t : t[k] \in RecentEntries
      BY <1>6
    <3> HIDE DEF t, o, entry
    <3>4. DOMAIN recent' = DOMAIN t /\ \A k \in DOMAIN t : recent'[k] = IF k = o THEN entry ELSE t[k]
      BY <3>1
    <3>5. recent' \in Seq(RecentEntries)
      <4>1. recent' \in [1 .. Len(t) -> RecentEntries]
        BY <1>3, <3>1, <3>3, <3>4
      <4> QED
        BY <3>3, <4>1, SeqDef
    <3>6. NoRepeats(recent')
      BY <3>1, <3>2, <3>4 DEF NoRepeats
    <3> QED
      BY <3>5, <3>6
  <2> QED
    BY <2>1, <2>2, <2>3
<1>8. /\ etw' \in [keys : Seq(Keys), step : EtwSteps] /\ etw'.step \in {"idle", "lookup"}
      /\ etw'.step # "idle" => etw'.keys # <<>>
  <2>1. NamesOf[conn] \in Seq(Keys) /\ NamesOf[conn] # <<>>
    BY <1>3, NetworkAssumption
  <2> HIDE DEF conn
  <2> QED
    BY <1>2, <1>5, <2>1 DEF NetworkInv, NetworkTypes, EtwSteps
<1>9. NetworkTypes'
  BY <1>2, <1>7, <1>8 DEF NetworkInv, NetworkTypes
<1>10. RecentIsASet'
  BY <1>7 DEF RecentIsASet, NoRepeats
<1>11. \A slot \in NameSlots : Answered(nameCache[slot])'
  BY <1>2, <1>8 DEF NetworkInv, Answered
<1>12. WorkCounted'
  BY <1>2, <1>8 DEF NetworkInv, WorkCounted
<1> QED
  BY <1>9, <1>10, <1>11, <1>12 DEF NetworkInv

\* Looking a name up: an entry that has expired is cleared.
LEMMA LookupKeepsNetwork == NetworkInv /\ LookupName => NetworkInv'
<1> SUFFICES ASSUME NetworkInv, LookupName PROVE NetworkInv'
  OBVIOUS
<1> DEFINE key == Head(etw.keys)
<1>1. /\ etw.step = "lookup" /\ nameCache' = LookedUp(key)
      /\ etw' = NextKey \/ etw' = [etw EXCEPT !.step = "count"]
      /\ UNCHANGED <<tick, wall, recent, nameWork, nameWorkers>>
  BY DEF LookupName
<1>2. /\ NextKey \in [keys : Seq(Keys), step : EtwSteps]
      /\ NextKey.step \in {"idle", "lookup"}
      /\ NextKey.step # "idle" => NextKey.keys # <<>>
  BY <1>1, NextKeyIs DEF NetworkInv
<1>3. /\ etw' \in [keys : Seq(Keys), step : EtwSteps] /\ etw'.step \notin {"reserve", "queue"}
      /\ etw'.step # "idle" => etw'.keys # <<>>
  BY <1>1, <1>2 DEF NetworkInv, NetworkTypes, EtwSteps
<1>4. ASSUME NEW slot \in NameSlots
      PROVE  nameCache'[slot] \in NameEntries /\ (nameCache'[slot].pending => nameCache'[slot] = nameCache[slot])
  BY <1>1 DEF LookedUp, Unused, NameEntries, NetworkInv, NetworkTypes
<1>5. NetworkTypes'
  <2>1. nameCache' \in [NameSlots -> NameEntries]
    BY <1>1, <1>4 DEF LookedUp
  <2> QED
    BY <1>1, <1>3, <2>1 DEF NetworkInv, NetworkTypes
<1>6. RecentIsASet'
  BY <1>1 DEF NetworkInv, RecentIsASet
<1>7. \A slot \in NameSlots : Answered(nameCache[slot])'
  BY <1>1, <1>4 DEF NetworkInv, Answered
<1>8. WorkCounted'
  BY <1>1, <1>3 DEF NetworkInv, WorkCounted
<1> QED
  BY <1>5, <1>6, <1>7, <1>8 DEF NetworkInv

\* Taking the count, within its limit.
LEMMA CountKeepsNetwork == NetworkInv /\ CountName => NetworkInv'
<1> SUFFICES ASSUME NetworkInv, CountName PROVE NetworkInv'
  OBVIOUS
<1>1. /\ etw.step = "count"
      /\ \/ etw' = NextKey /\ nameWork' = nameWork
         \/ /\ etw' = [etw EXCEPT !.step = "reserve"]
            /\ nameWork' = nameWork + 1 /\ ~(nameWork + 1 > NameWorkLimit)
      /\ UNCHANGED <<tick, wall, recent, nameCache, nameWorkers>>
  BY DEF CountName
<1>2. /\ NextKey \in [keys : Seq(Keys), step : EtwSteps]
      /\ NextKey.step \in {"idle", "lookup"}
      /\ NextKey.step # "idle" => NextKey.keys # <<>>
  BY <1>1, NextKeyIs DEF NetworkInv
<1>3. /\ etw' \in [keys : Seq(Keys), step : EtwSteps]
      /\ etw'.step # "idle" => etw'.keys # <<>>
  BY <1>1, <1>2 DEF NetworkInv, NetworkTypes, EtwSteps
<1>4. nameWork \in Int /\ NameWorkLimit \in Int /\ TotalOf(nameWorkers, Keys) \in Nat
  BY KeysAreFinite, TotalNat, NetworkAssumption DEF NetworkInv, NetworkTypes
<1>5. NetworkTypes'
  BY <1>1, <1>3, <1>4 DEF NetworkInv, NetworkTypes
<1>6. RecentIsASet'
  BY <1>1 DEF NetworkInv, RecentIsASet
<1>7. \A slot \in NameSlots : Answered(nameCache[slot])'
  BY <1>1 DEF NetworkInv, Answered
<1>8. WorkCounted'
  <2>1. nameWork = TotalOf(nameWorkers, Keys) /\ nameWork <= NameWorkLimit
    BY <1>1, <1>4 DEF NetworkInv, WorkCounted
  <2>2. CASE etw' = NextKey /\ nameWork' = nameWork
    BY <1>1, <1>2, <1>4, <2>1, <2>2 DEF WorkCounted
  <2>3. CASE /\ etw' = [etw EXCEPT !.step = "reserve"]
             /\ nameWork' = nameWork + 1 /\ ~(nameWork + 1 > NameWorkLimit)
    <3>1. etw'.step = "reserve"
      BY <2>3 DEF NetworkInv, NetworkTypes
    <3> QED
      BY <1>1, <1>4, <2>1, <2>3, <3>1 DEF WorkCounted
  <2> QED
    BY <1>1, <2>2, <2>3
<1> QED
  BY <1>5, <1>6, <1>7, <1>8 DEF NetworkInv

\* Reserving: the ETW thread itself answers for the entry so far.
LEMMA ReserveKeepsNetwork == NetworkInv /\ ReserveName => NetworkInv'
<1> SUFFICES ASSUME NetworkInv, ReserveName PROVE NetworkInv'
  OBVIOUS
<1> DEFINE key == Head(etw.keys)
           entry == [key |-> key, pending |-> TRUE, value |-> "none", expire |-> tick + PendingTime]
<1>1. /\ etw.step = "reserve"
      /\ \/ /\ nameCache' = [nameCache EXCEPT ![ReserveSlot(key)] = entry]
            /\ etw' = [etw EXCEPT !.step = "queue"] /\ nameWork' = nameWork
         \/ etw' = NextKey /\ nameWork' = nameWork - 1 /\ nameCache' = nameCache
      /\ UNCHANGED <<tick, wall, recent, nameWorkers>>
  BY DEF ReserveName, WithReservation
<1>2. /\ NextKey \in [keys : Seq(Keys), step : EtwSteps]
      /\ NextKey.step \in {"idle", "lookup"}
      /\ NextKey.step # "idle" => NextKey.keys # <<>> 
      /\ key \in Keys
  BY <1>1, NextKeyIs DEF NetworkInv
<1>3. entry \in NameEntries /\ entry.key = key
  BY <1>2, NetworkAssumption DEF NameEntries, NetworkInv, NetworkTypes
<1> HIDE DEF entry
<1>4. nameWork \in Int /\ NameWorkLimit \in Int /\ TotalOf(nameWorkers, Keys) \in Nat
  BY KeysAreFinite, TotalNat, NetworkAssumption DEF NetworkInv, NetworkTypes
<1>5. nameWork = TotalOf(nameWorkers, Keys) + 1 /\ nameWork <= NameWorkLimit
  BY <1>1, <1>4 DEF NetworkInv, WorkCounted
<1>6. RecentIsASet'
  BY <1>1 DEF NetworkInv, RecentIsASet
<1>7. CASE /\ nameCache' = [nameCache EXCEPT ![ReserveSlot(key)] = entry]
           /\ etw' = [etw EXCEPT !.step = "queue"] /\ nameWork' = nameWork
  <2>1. /\ etw' \in [keys : Seq(Keys), step : EtwSteps] /\ etw'.step = "queue" /\ etw'.keys = etw.keys
        /\ etw'.keys # <<>>
    BY <1>1, <1>7 DEF NetworkInv, NetworkTypes, EtwSteps
  <2>2. NetworkTypes'
    <3>1. nameCache' \in [NameSlots -> NameEntries]
      BY <1>3, <1>7 DEF NetworkInv, NetworkTypes
    <3> QED
      BY <1>1, <1>7, <2>1, <3>1 DEF NetworkInv, NetworkTypes
  <2>3. ASSUME NEW slot \in NameSlots PROVE Answered(nameCache[slot])'
    <3>1. CASE slot = ReserveSlot(key)
      <4>1. nameCache'[slot] = entry
        BY <1>7, <3>1 DEF NetworkInv, NetworkTypes
      <4> QED
        BY <1>2, <1>3, <2>1, <4>1 DEF Answered
    <3>2. CASE slot # ReserveSlot(key)
      <4>1. nameCache'[slot] = nameCache[slot]
        BY <1>7, <3>2 DEF NetworkInv, NetworkTypes
      <4> QED
        BY <1>1, <4>1 DEF NetworkInv, Answered
    <3> QED
      BY <3>1, <3>2
  <2>4. WorkCounted'
    BY <1>1, <1>5, <1>7, <2>1 DEF WorkCounted
  <2> QED
    BY <1>6, <2>2, <2>3, <2>4 DEF NetworkInv
<1>8. CASE etw' = NextKey /\ nameWork' = nameWork - 1 /\ nameCache' = nameCache
  <2>1. NetworkTypes'
    BY <1>1, <1>2, <1>4, <1>8 DEF NetworkInv, NetworkTypes
  <2>2. \A slot \in NameSlots : Answered(nameCache[slot])'
    BY <1>1, <1>8 DEF NetworkInv, Answered
  <2>3. WorkCounted'
    BY <1>1, <1>2, <1>4, <1>5, <1>8 DEF WorkCounted
  <2> QED
    BY <1>6, <2>1, <2>2, <2>3 DEF NetworkInv
<1> QED
  BY <1>1, <1>7, <1>8

\* Nobody else's answer is lost when a work item is handed out or finishes:
\* the entries of the other keys keep theirs, and those of the key itself
\* are either answered or resolved.
LEMMA AnswersStay ==
    ASSUME NetworkInv, NetworkTypes', etw'.step # "queue",
           NEW key \in Keys,
           etw.step = "queue" => Head(etw.keys) = key,
           \A other \in Keys : other # key => nameWorkers'[other] = nameWorkers[other],
           \A slot \in NameSlots : nameCache'[slot].pending =>
               /\ nameCache'[slot] = nameCache[slot]
               /\ nameCache[slot].key = key => nameWorkers'[key] > 0
    PROVE  \A slot \in NameSlots : Answered(nameCache[slot])'
<1> SUFFICES ASSUME NEW slot \in NameSlots, nameCache'[slot].pending
             PROVE  nameCache'[slot].key \in Keys /\ nameWorkers'[nameCache'[slot].key] > 0
  BY DEF Answered
<1>1. nameCache'[slot] = nameCache[slot] /\ Answered(nameCache[slot])
  BY DEF NetworkInv
<1>2. nameCache[slot].key \in Keys
  BY <1>1 DEF Answered
<1> DEFINE other == nameCache[slot].key
<1>3. CASE other = key
  BY <1>1, <1>2, <1>3
<1>4. CASE other # key
  <2>1. nameWorkers[other] > 0
    BY <1>1, <1>4 DEF Answered
  <2> QED
    BY <1>1, <1>2, <1>4, <2>1
<1> QED
  BY <1>3, <1>4

\* Handing the work out: an item of the pool answers from now on, or there is
\* no item and the name is stored as one that does not resolve.
LEMMA QueueKeepsNetwork == NetworkInv /\ QueueName => NetworkInv'
<1> SUFFICES ASSUME NetworkInv, QueueName PROVE NetworkInv'
  OBVIOUS
<1> DEFINE key == Head(etw.keys)
<1>1. /\ etw.step = "queue" /\ etw' = NextKey
      /\ \/ /\ nameWorkers' = [nameWorkers EXCEPT ![key] = @ + 1]
            /\ nameCache' = nameCache /\ nameWork' = nameWork
         \/ /\ nameCache' = WithName(key, "none") /\ nameWork' = nameWork - 1
            /\ nameWorkers' = nameWorkers
      /\ UNCHANGED <<tick, wall, recent>>
  BY DEF QueueName, QueueFails
<1>2. /\ etw' \in [keys : Seq(Keys), step : EtwSteps]
      /\ etw'.step \in {"idle", "lookup"}
      /\ etw'.step # "idle" => etw'.keys # <<>>
      /\ key \in Keys
  BY <1>1, NextKeyIs DEF NetworkInv
<1>3. nameWork \in Int /\ NameWorkLimit \in Int /\ TotalOf(nameWorkers, Keys) \in Nat
  BY KeysAreFinite, TotalNat, NetworkAssumption DEF NetworkInv, NetworkTypes
<1>4. nameWork = TotalOf(nameWorkers, Keys) + 1 /\ nameWork <= NameWorkLimit
  BY <1>1, <1>3 DEF NetworkInv, WorkCounted
<1>5. RecentIsASet'
  BY <1>1 DEF NetworkInv, RecentIsASet
<1>6. nameWorkers \in [Keys -> Nat]
  BY DEF NetworkInv, NetworkTypes
<1>7. CASE /\ nameWorkers' = [nameWorkers EXCEPT ![key] = @ + 1]
           /\ nameCache' = nameCache /\ nameWork' = nameWork
  <2> HIDE DEF key
  <2>1. /\ nameWorkers' \in [Keys -> Nat] /\ nameWorkers'[key] = nameWorkers[key] + 1
        /\ \A other \in Keys : other # key => nameWorkers'[other] = nameWorkers[other]
    BY <1>2, <1>6, <1>7
  <2>2. NetworkTypes'
    BY <1>1, <1>2, <1>7, <2>1 DEF NetworkInv, NetworkTypes
  <2>3. \A slot \in NameSlots : Answered(nameCache[slot])'
    <3>1. nameWorkers'[key] > 0
      BY <1>2, <1>6, <2>1
    <3> QED
      BY <1>1, <1>2, <1>7, <2>1, <2>2, <3>1, AnswersStay DEF key
  <2>4. WorkCounted'
    <3>1. TotalOf(nameWorkers', Keys) = TotalOf(nameWorkers, Keys) - nameWorkers[key] + nameWorkers'[key]
      <4> DEFINE g == nameWorkers
                 h == nameWorkers'
      <4>1. /\ \A y \in Keys : g[y] \in Int
            /\ \A y \in Keys : h[y] \in Int /\ (y # key => h[y] = g[y])
        BY <1>6, <2>1
      <4> HIDE DEF g, h
      <4>2. TotalOf(h, Keys) = TotalOf(g, Keys) - g[key] + h[key]
        BY <1>2, <4>1, KeysAreFinite, TotalReplace
      <4> QED
        BY <4>2 DEF g, h
    <3>2. nameWorkers[key] \in Nat
      BY <1>2, <1>6
    <3>3. TotalOf(nameWorkers', Keys) = TotalOf(nameWorkers, Keys) + 1
      BY <1>3, <2>1, <3>1, <3>2
    <3> QED
      BY <1>2, <1>3, <1>4, <1>7, <3>3 DEF WorkCounted
  <2> QED
    BY <1>5, <2>2, <2>3, <2>4 DEF NetworkInv
<1>8. CASE /\ nameCache' = WithName(key, "none") /\ nameWork' = nameWork - 1
           /\ nameWorkers' = nameWorkers
  <2> HIDE DEF key
  <2>1. /\ nameCache' \in [NameSlots -> NameEntries]
        /\ \A slot \in NameSlots : nameCache'[slot].pending =>
              nameCache'[slot] = nameCache[slot] /\ nameCache[slot].key # key
    BY <1>2, <1>8, WithNameResolves DEF NetworkInv
  <2>2. NetworkTypes'
    BY <1>1, <1>2, <1>3, <1>8, <2>1 DEF NetworkInv, NetworkTypes
  <2>3. \A slot \in NameSlots : Answered(nameCache[slot])'
    BY <1>1, <1>2, <1>8, <2>1, <2>2, AnswersStay DEF key
  <2>4. WorkCounted'
    BY <1>2, <1>3, <1>4, <1>8 DEF WorkCounted
  <2> QED
    BY <1>5, <2>2, <2>3, <2>4 DEF NetworkInv
<1> QED
  BY <1>1, <1>7, <1>8

\* The end of a work item: every entry of its key is resolved.
LEMMA ResolveKeepsNetwork ==
    ASSUME NEW key \in Keys, NetworkInv, WorkerResolves(key)
    PROVE  NetworkInv'
<1>1. PICK value \in LookupResults \cup {"none"} : nameCache' = WithName(key, value)
  BY DEF WorkerResolves
<1>2. /\ nameWorkers[key] > 0
      /\ nameWorkers' = [nameWorkers EXCEPT ![key] = @ - 1] /\ nameWork' = nameWork - 1
      /\ UNCHANGED <<tick, wall, recent, etw>>
  BY DEF WorkerResolves
<1>3. nameWork \in Int /\ NameWorkLimit \in Int /\ TotalOf(nameWorkers, Keys) \in Nat
  BY KeysAreFinite, TotalNat, NetworkAssumption DEF NetworkInv, NetworkTypes
<1>4. nameWorkers \in [Keys -> Nat] /\ nameWorkers[key] \in Nat
  BY DEF NetworkInv, NetworkTypes
<1>5. /\ nameWorkers' \in [Keys -> Nat] /\ nameWorkers'[key] = nameWorkers[key] - 1
      /\ \A other \in Keys : other # key => nameWorkers'[other] = nameWorkers[other]
  BY <1>2, <1>4
<1>6. /\ nameCache' \in [NameSlots -> NameEntries]
      /\ \A slot \in NameSlots : nameCache'[slot].pending =>
            nameCache'[slot] = nameCache[slot] /\ nameCache[slot].key # key
  BY <1>1, WithNameResolves DEF NetworkInv
<1>7. NetworkTypes'
  BY <1>2, <1>3, <1>5, <1>6 DEF NetworkInv, NetworkTypes
<1>8. RecentIsASet'
  BY <1>2 DEF NetworkInv, RecentIsASet
<1>9. ASSUME NEW slot \in NameSlots PROVE Answered(nameCache[slot])'
  <2> SUFFICES ASSUME nameCache'[slot].pending
               PROVE  /\ nameCache'[slot].key \in Keys
                      /\ \/ nameWorkers'[nameCache'[slot].key] > 0
                         \/ etw'.step = "queue" /\ Head(etw'.keys) = nameCache'[slot].key
    BY DEF Answered
  <2>1. nameCache'[slot] = nameCache[slot] /\ nameCache[slot].key # key
    BY <1>6
  <2>2. Answered(nameCache[slot])
    BY DEF NetworkInv
  <2> QED
    BY <1>2, <1>5, <2>1, <2>2 DEF Answered
<1>10. WorkCounted'
  <2>1. TotalOf(nameWorkers', Keys) = TotalOf(nameWorkers, Keys) - nameWorkers[key] + nameWorkers'[key]
    <3> DEFINE g == nameWorkers
               h == nameWorkers'
    <3>1. /\ \A y \in Keys : g[y] \in Int
          /\ \A y \in Keys : h[y] \in Int /\ (y # key => h[y] = g[y])
      BY <1>4, <1>5
    <3> HIDE DEF g, h
    <3>2. TotalOf(h, Keys) = TotalOf(g, Keys) - g[key] + h[key]
      BY <3>1, KeysAreFinite, TotalReplace
    <3> QED
      BY <3>2 DEF g, h
  <2>2. TotalOf(nameWorkers', Keys) = TotalOf(nameWorkers, Keys) - 1
    BY <1>3, <1>4, <1>5, <2>1
  <2> DEFINE mine == IF etw.step \in {"reserve", "queue"} THEN 1 ELSE 0
  <2>3. mine \in {0, 1} /\ nameWork = TotalOf(nameWorkers, Keys) + mine /\ nameWork <= NameWorkLimit
    BY DEF NetworkInv, WorkCounted
  <2>4. nameWork' = TotalOf(nameWorkers', Keys) + mine /\ nameWork' <= NameWorkLimit
    <3> HIDE DEF mine
    <3> QED
      BY <1>2, <1>3, <2>2, <2>3
  <2> QED
    BY <1>2, <2>4 DEF WorkCounted
<1> QED
  BY <1>7, <1>8, <1>9, <1>10 DEF NetworkInv

\* Every step keeps the network source's invariant.
LEMMA NetworkStep == NetworkInv /\ [NetworkNext]_networkVars => NetworkInv'
<1> SUFFICES ASSUME NetworkInv, [NetworkNext]_networkVars PROVE NetworkInv'
  OBVIOUS
<1>1. CASE EventArrives
  BY <1>1, ArrivalKeepsNetwork
<1>2. CASE LookupName
  BY <1>2, LookupKeepsNetwork
<1>3. CASE CountName
  BY <1>3, CountKeepsNetwork
<1>4. CASE ReserveName
  BY <1>4, ReserveKeepsNetwork
<1>5. CASE QueueName
  BY <1>5, QueueKeepsNetwork
<1>6. CASE \E key \in Keys : WorkerResolves(key)
  BY <1>6, ResolveKeepsNetwork
<1>7. CASE TimePasses \/ ClockSetBack \/ UNCHANGED networkVars
  <2>1. /\ UNCHANGED <<recent, nameCache, nameWork, nameWorkers, etw>>
        /\ tick' \in Nat /\ wall'.now \in Int
    <3>1. tick \in Nat /\ wall.now \in Int
      BY DEF NetworkInv, NetworkTypes
    <3>2. CASE TimePasses
      <4>1. /\ UNCHANGED <<recent, nameCache, nameWork, nameWorkers, etw>>
            /\ tick' = tick + 1 /\ wall' = [wall EXCEPT !.now = wall.now + 1]
        BY <3>2 DEF TimePasses
      <4>2. wall'.now \in {wall.now, wall.now + 1}
        BY <4>1
      <4> QED
        BY <3>1, <4>1, <4>2
    <3>3. CASE ClockSetBack
      BY <3>1, <3>3 DEF ClockSetBack
    <3>4. CASE UNCHANGED networkVars
      BY <3>1, <3>4 DEF networkVars
    <3> QED
      BY <1>7, <3>2, <3>3, <3>4
  <2> QED
    BY <2>1 DEF NetworkInv, NetworkTypes, RecentIsASet, Answered, WorkCounted
<1> QED
  BY <1>1, <1>2, <1>3, <1>4, <1>5, <1>6, <1>7 DEF NetworkNext

\* The invariant says more than the two tables' soundness: it names the types
\* and adds the work items up without a fold.
LEMMA NetworkSoundByInv == NetworkInv => NetworkTablesSound
<1> SUFFICES ASSUME NetworkInv PROVE NetworkTablesSound
  OBVIOUS
<1>1. MapThenSumSet(LAMBDA key : nameWorkers[key], Keys) = TotalOf(nameWorkers, Keys)
  <2> DEFINE g == nameWorkers
  <2>1. \A key \in Keys : g[key] \in Int
    BY DEF NetworkInv, NetworkTypes
  <2> HIDE DEF g
  <2>2. MapThenSumSet(LAMBDA key : g[key], Keys) = TotalOf(g, Keys)
    BY <2>1, KeysAreFinite, SumIsTotal
  <2> QED
    BY <2>2 DEF g
<1>2. /\ nameWork = MapThenSumSet(LAMBDA key : nameWorkers[key], Keys)
            + (IF etw.step \in {"reserve", "queue"} THEN 1 ELSE 0)
      /\ nameWork <= NameWorkLimit
  BY <1>1 DEF NetworkInv, WorkCounted
<1>3. ReservedNamesAreResolved
  BY <1>2 DEF NetworkInv, Answered, ReservedNamesAreResolved
<1> QED
  BY <1>3 DEF NetworkInv, NetworkTablesSound

\* A connection is never twice in the table of recent connections; a name that
\* is reserved has a work item, or the ETW thread about to start one, that
\* resolves it; and the count of the work is the number of work items, within
\* its limit: in every behaviour of network_trace.cpp, whatever the number of
\* names, slots and connections.
THEOREM NetworkIsAlwaysSound == NetworkSpec => []NetworkTablesSound
<1>1. NetworkInit => NetworkInv
  BY NetworkInitially
<1>2. NetworkInv /\ [NetworkNext]_networkVars => NetworkInv'
  BY NetworkStep
<1>3. NetworkInv => NetworkTablesSound
  BY NetworkSoundByInv
<1> QED
  BY <1>1, <1>2, <1>3, PTL DEF NetworkSpec

-----------------------------------------------------------------------------
(***************************************************************************)
(* The process store.  The loops of the heap are traced turn by turn: the  *)
(* entry that rises or sinks is the only one out of order (RisesFrom,      *)
(* SinksFrom), so that the end of a loop is a heap with the same entries.  *)
(* The heap knows the latest activity of each node (HeapKnows), so an      *)
(* eviction that stops at an entry within the window leaves no node behind *)
(* that was due.  The instances of a node follow each other without a gap  *)
(* (Successive), which the insertion in order keeps and from which the     *)
(* first one that covers a time is the one created last before it.         *)
(***************************************************************************)

\* The entries of the heap, heaps of n entries, and what the loops work on.
Activities == [time : Nat, pid : StorePids]
Heaps(n) == [1 .. n -> Activities]
HeapStates(n) == [heap : Heaps(n), at : 1 .. n]

\* A number is twice its half, or one more.
LEMMA Halves ==
    \A j \in Nat : /\ j \div 2 \in Nat
                   /\ j = 2 * (j \div 2) \/ j = 2 * (j \div 2) + 1
OBVIOUS

\* A heap is a sequence of its length.
LEMMA HeapsAreSequences ==
    ASSUME NEW n \in Nat, NEW h \in Heaps(n)
    PROVE  h \in Seq(Activities) /\ Len(h) = n
<1>1. h \in Seq(Activities)
  BY SeqDef DEF Heaps
<1>2. PICK m \in Nat : m = Len(h) /\ 1 .. m = DOMAIN h
  BY <1>1, LenProperties
<1>3. 1 .. m = 1 .. n
  BY <1>2 DEF Heaps
<1>4. m = n
  BY <1>3
<1> QED
  BY <1>1, <1>2, <1>4

\* Each entry but the ones below at is no older than the one above it, and the
\* entries below at no older than the one above at.
SinksFrom(h, n, at) ==
    /\ \A j \in 2 .. n : j \div 2 # at => h[j \div 2].time <= h[j].time
    /\ \A j \in 2 .. n : j \div 2 = at /\ at > 1 => h[at \div 2].time <= h[j].time

\* Each entry but the one at at is no older than the one above it, and the
\* entries below at no older than the one above at.
RisesFrom(h, n, at) ==
    /\ \A j \in 2 .. n : j # at => h[j \div 2].time <= h[j].time
    /\ \A j \in 2 .. n : j \div 2 = at /\ at > 1 => h[at \div 2].time <= h[j].time

\* No entry is younger than those below it.
IsHeap(h, n) == \A j \in 2 .. n : h[j \div 2].time <= h[j].time

\* An exchange keeps the elements.
LEMMA ExchangeKeeps ==
    ASSUME NEW n \in Nat, NEW h \in Heaps(n), NEW a \in 1 .. n, NEW b \in 1 .. n,
           NEW g, g = Swapped(h, a, b)
    PROVE  /\ g \in Heaps(n) /\ g[a] = h[b] /\ g[b] = h[a]
           /\ \A k \in 1 .. n : k # a /\ k # b => g[k] = h[k]
           /\ ToSet(g) = ToSet(h)
<1>1. /\ g \in Heaps(n) /\ g[a] = h[b] /\ g[b] = h[a]
      /\ \A k \in 1 .. n : k # a /\ k # b => g[k] = h[k]
  BY DEF Swapped, Heaps
<1>2. DOMAIN g = 1 .. n /\ DOMAIN h = 1 .. n
  BY <1>1 DEF Heaps
<1>3. \A k \in 1 .. n : \E m \in 1 .. n : g[k] = h[m]
  BY <1>1
<1>4. \A k \in 1 .. n : \E m \in 1 .. n : h[k] = g[m]
  BY <1>1
<1>5. \A x \in ToSet(g) : x \in ToSet(h)
  <2> SUFFICES ASSUME NEW k \in 1 .. n PROVE g[k] \in ToSet(h)
    BY <1>2 DEF ToSet
  <2>1. PICK m \in 1 .. n : g[k] = h[m]
    BY <1>3
  <2> QED
    BY <1>2, <2>1 DEF ToSet
<1>6. \A x \in ToSet(h) : x \in ToSet(g)
  <2> SUFFICES ASSUME NEW k \in 1 .. n PROVE h[k] \in ToSet(g)
    BY <1>2 DEF ToSet
  <2>1. PICK m \in 1 .. n : h[k] = g[m]
    BY <1>4
  <2> QED
    BY <1>2, <2>1 DEF ToSet
<1> QED
  BY <1>1, <1>5, <1>6

\* A turn of HeapifyUp: the heap is one, or the entry is nearer to its root.
LEMMA RiseStep ==
    ASSUME NEW n \in Nat, NEW s \in HeapStates(n), RisesFrom(s.heap, n, s.at)
    PROVE  /\ Rise(s) \in HeapStates(n)
           /\ RisesFrom(Rise(s).heap, n, Rise(s).at)
           /\ ToSet(Rise(s).heap) = ToSet(s.heap)
           /\ IsHeap(s.heap, n) => Rise(s) = s
           /\ IsHeap(s.heap, n) \/ Rise(s).at < s.at
<1>1. PICK g \in Heaps(n) : g = s.heap
  BY DEF HeapStates
<1>2. PICK a \in 1 .. n : a = s.at
  BY DEF HeapStates
<1>3. PICK p \in Nat : p = a \div 2 /\ (a = 2 * p \/ a = 2 * p + 1)
  BY Halves
<1>4. \A k \in 1 .. n : g[k].time \in Nat
  BY DEF Heaps, Activities
<1>5. RisesFrom(g, n, a)
  BY <1>1, <1>2
<1>6. CASE a > 1 /\ g[p].time > g[a].time
  <2>1. PICK t : t = Swapped(g, p, a)
    OBVIOUS
  <2>2. Rise(s) = [heap |-> t, at |-> p]
    BY <1>1, <1>2, <1>3, <1>6, <2>1 DEF Rise
  <2>3a. p \in 1 .. n
    BY <1>3, <1>6
  <2>3. p \in 1 .. n /\ p < a
    BY <1>3, <1>6
  <2>4. /\ t \in Heaps(n) /\ t[p] = g[a] /\ t[a] = g[p]
        /\ \A k \in 1 .. n : k # p /\ k # a => t[k] = g[k]
        /\ ToSet(t) = ToSet(g)
    BY ONLY n \in Nat, g \in Heaps(n), a \in 1 .. n, <2>1, <2>3a, ExchangeKeeps, SMTT(20)
  <2>5. ASSUME NEW j \in 2 .. n, j # p
        PROVE  t[j \div 2].time <= t[j].time
    <3>1. PICK q \in Nat : q = j \div 2 /\ (j = 2 * q \/ j = 2 * q + 1)
      BY Halves
    <3>2. q \in 1 .. n /\ q # j
      BY <3>1
    <3>3. CASE j = a
      BY <1>3, <1>4, <1>6, <2>3, <2>4, <3>1, <3>3
    <3>4. CASE j # a /\ q = p
      <4>1. g[q].time <= g[j].time
        BY <1>5, <3>1, <3>4 DEF RisesFrom
      <4> QED
        BY <4>1, <1>4, <1>6, <2>3, <2>4, <2>5, <3>1, <3>2, <3>4
    <3>5. CASE q = a
      <4>1. g[p].time <= g[j].time
        BY <1>3, <1>5, <1>6, <3>1, <3>5 DEF RisesFrom
      <4> QED
        BY <4>1, <1>4, <2>3, <2>4, <2>5, <3>1, <3>2, <3>5
    <3>6. CASE j # a /\ q # p /\ q # a
      <4>1. g[q].time <= g[j].time
        BY <1>5, <3>1, <3>6 DEF RisesFrom
      <4> QED
        BY <4>1, <2>4, <2>5, <3>1, <3>2, <3>6
    <3> QED
      BY <3>3, <3>4, <3>5, <3>6
  <2>6. ASSUME NEW j \in 2 .. n, j \div 2 = p, p > 1
        PROVE  t[p \div 2].time <= t[j].time
    <3>1. PICK q \in Nat : q = p \div 2 /\ (p = 2 * q \/ p = 2 * q + 1)
      BY Halves
    <3>2. q \in 1 .. n /\ q # p /\ q # a /\ j # p
      BY <2>3, <2>6, <3>1
    <3>3. g[q].time <= g[p].time
      BY <1>5, <2>3, <2>6, <3>1 DEF RisesFrom
    <3>4. CASE j = a
      BY <2>4, <3>1, <3>2, <3>3, <3>4
    <3>5. CASE j # a
      <4>1. g[p].time <= g[j].time
        BY <1>5, <2>6, <3>5 DEF RisesFrom
      <4> QED
        BY <4>1, <1>4, <2>3, <2>4, <3>1, <3>2, <3>3, <3>5
    <3> QED
      BY <3>4, <3>5
  <2>7. RisesFrom(t, n, p)
    BY <2>5, <2>6 DEF RisesFrom
  <2>8. Rise(s).heap = t /\ Rise(s).at = p /\ Rise(s) \in HeapStates(n)
    BY <2>2, <2>3, <2>4 DEF HeapStates
  <2>9. ~IsHeap(g, n)
    BY <1>2, <1>3, <1>4, <1>6, <2>3 DEF IsHeap
  <2> QED
    BY <1>1, <1>2, <2>3, <2>4, <2>7, <2>8, <2>9
<1>7. CASE ~(a > 1 /\ g[p].time > g[a].time)
  <2>1. Rise(s) = s
    BY <1>1, <1>2, <1>3, <1>7 DEF Rise
  <2>2. a > 1 => p \in 1 .. n /\ g[p].time <= g[a].time
    BY <1>3, <1>4, <1>7
  <2>3. \A j \in 2 .. n : j # a => g[j \div 2].time <= g[j].time
    BY <1>5 DEF RisesFrom
  <2>4. \A j \in 2 .. n : j = a => g[j \div 2].time <= g[j].time
    BY <1>3, <2>2
  <2>5. IsHeap(g, n)
    BY <2>3, <2>4 DEF IsHeap
  <2> QED
    BY <1>1, <1>2, <1>5, <2>1, <2>5
<1> QED
  BY <1>6, <1>7


\* A turn of HeapifyDown: the heap is one, or the entry is farther from its
\* root.
LEMMA SinkStep ==
    ASSUME NEW n \in Nat, NEW s \in HeapStates(n), SinksFrom(s.heap, n, s.at)
    PROVE  /\ Sink(s) \in HeapStates(n)
           /\ SinksFrom(Sink(s).heap, n, Sink(s).at)
           /\ ToSet(Sink(s).heap) = ToSet(s.heap)
           /\ IsHeap(s.heap, n) => Sink(s) = s
           /\ IsHeap(s.heap, n) \/ Sink(s).at > s.at
<1>1. PICK g \in Heaps(n) : g = s.heap
  BY DEF HeapStates
<1>2. PICK a \in 1 .. n : a = s.at
  BY DEF HeapStates
<1>3. Len(g) = n /\ g \in Seq(Activities)
  BY HeapsAreSequences
<1>4. \A k \in 1 .. n : g[k].time \in Nat
  BY DEF Heaps, Activities
<1>5. SinksFrom(g, n, a)
  BY <1>1, <1>2
<1> DEFINE left == IF 2 * a <= n /\ g[2 * a].time < g[a].time THEN 2 * a ELSE a
           c == IF 2 * a + 1 <= n /\ g[2 * a + 1].time < g[left].time
                THEN 2 * a + 1 ELSE left
<1>6. Older(g, Older(g, a, 2 * a), 2 * a + 1) = c
  BY <1>3 DEF Older
<1>7. /\ c \in 1 .. n
      /\ c = a \/ (c > a /\ (c = 2 * a \/ c = 2 * a + 1))
      /\ 2 * a <= n => g[c].time <= g[2 * a].time
      /\ 2 * a + 1 <= n => g[c].time <= g[2 * a + 1].time
      /\ c # a => g[c].time < g[a].time
  <2>1. /\ left \in 1 .. n /\ (left = a \/ left = 2 * a)
        /\ 2 * a <= n => g[left].time <= g[2 * a].time
        /\ g[left].time <= g[a].time
        /\ left # a => g[left].time < g[a].time
    BY <1>4
  <2> HIDE DEF left
  <2>2. CASE 2 * a + 1 <= n /\ g[2 * a + 1].time < g[left].time
    <3>1. c = 2 * a + 1 /\ 2 * a + 1 \in 1 .. n
      BY <2>2
    <3> HIDE DEF c
    <3> QED
      BY <1>4, <2>1, <2>2, <3>1
  <2>3. CASE ~(2 * a + 1 <= n /\ g[2 * a + 1].time < g[left].time)
    <3>1. c = left
      BY <2>3
    <3>2. 2 * a + 1 <= n => 2 * a + 1 \in 1 .. n
      OBVIOUS
    <3>3. 2 * a + 1 <= n => g[left].time <= g[2 * a + 1].time
      BY <1>4, <2>1, <2>3, <3>2
    <3> HIDE DEF c
    <3> QED
      BY <2>1, <3>1, <3>3
  <2> QED
    BY <2>2, <2>3
<1> HIDE DEF c, left
<1>8. CASE c = a
  <2>1. Sink(s) = s
    BY <1>1, <1>2, <1>6, <1>8 DEF Sink
  <2>2. ASSUME NEW j \in 2 .. n PROVE g[j \div 2].time <= g[j].time
    <3>1. PICK q \in Nat : q = j \div 2 /\ (j = 2 * q \/ j = 2 * q + 1)
      BY Halves
    <3>2. CASE q = a
      BY <1>7, <1>8, <3>1, <3>2
    <3>3. CASE q # a
      BY <1>5, <3>1, <3>3 DEF SinksFrom
    <3> QED
      BY <3>2, <3>3
  <2> QED
    BY <1>1, <1>2, <1>5, <2>1, <2>2 DEF IsHeap
<1>9. CASE c # a
  <2>1. PICK t : t = Swapped(g, a, c)
    OBVIOUS
  <2>2. Sink(s) = [heap |-> t, at |-> c]
    BY <1>1, <1>2, <1>6, <1>9, <2>1 DEF Sink
  <2>3a. c \in 1 .. n
    BY <1>7
  <2>3. /\ t \in Heaps(n) /\ t[c] = g[a] /\ t[a] = g[c]
        /\ \A k \in 1 .. n : k # c /\ k # a => t[k] = g[k]
        /\ ToSet(t) = ToSet(g)
    BY ONLY n \in Nat, g \in Heaps(n), a \in 1 .. n, <2>1, <2>3a, ExchangeKeeps, SMTT(20)
  <2>4. c \in 1 .. n /\ c > a /\ g[c].time < g[a].time /\ c \div 2 = a
    BY <1>7, <1>9
  <2>5. ASSUME NEW j \in 2 .. n, j \div 2 # c
        PROVE  t[j \div 2].time <= t[j].time
    <3>1. PICK q \in Nat : q = j \div 2 /\ (j = 2 * q \/ j = 2 * q + 1)
      BY Halves
    <3>2. q \in 1 .. n /\ q # j /\ q # c
      BY <2>5, <3>1
    <3>3. CASE j = a
      <4>1. g[q].time <= g[c].time
        BY <1>5, <2>4, <3>1, <3>3 DEF SinksFrom
      <4> QED
        BY <4>1, <2>3, <3>1, <3>2, <3>3
    <3>4. CASE q = a
      <4>1. t[j].time = g[j].time \/ j = c
        BY <2>3, <3>2, <3>4
      <4>2. g[c].time <= g[j].time
        BY <1>7, <3>1, <3>4
      <4> QED
        BY <4>1, <4>2, <1>4, <2>3, <2>4, <3>1, <3>4
    <3>5. CASE j # a /\ q # a
      <4>1. g[q].time <= g[j].time /\ j # c
        BY <1>5, <2>4, <3>1, <3>5 DEF SinksFrom
      <4> QED
        BY <4>1, <2>3, <3>1, <3>2, <3>5
    <3> QED
      BY <3>3, <3>4, <3>5
  <2>6. ASSUME NEW j \in 2 .. n, j \div 2 = c
        PROVE  t[c \div 2].time <= t[j].time
    <3>1. g[c].time <= g[j].time
      BY <1>5, <2>4, <2>6 DEF SinksFrom
    <3>2. j # c /\ j # a
      BY <2>4, <2>6, Halves
    <3> QED
      BY <2>3, <2>4, <3>1, <3>2
  <2>7. SinksFrom(t, n, c)
    BY <2>5, <2>6 DEF SinksFrom
  <2>8. Sink(s).heap = t /\ Sink(s).at = c /\ Sink(s) \in HeapStates(n)
    BY <2>2, <2>3, <2>4 DEF HeapStates
  <2>9. ~IsHeap(g, n)
    BY <1>4, <2>4 DEF IsHeap
  <2> QED
    BY <1>1, <1>2, <2>3, <2>4, <2>7, <2>8, <2>9
<1> QED
  BY <1>8, <1>9

\* The loop of HeapifyUp ends in a heap.
LEMMA RisesToAHeap ==
    ASSUME NEW n \in Nat, NEW h \in Heaps(n), Len(h) = n, NEW i \in 1 .. n,
           RisesFrom(h, n, i)
    PROVE  /\ HeapifyUp(h, i) \in Heaps(n)
           /\ IsHeap(HeapifyUp(h, i), n)
           /\ ToSet(HeapifyUp(h, i)) = ToSet(h)
<1> DEFINE base == [heap |-> h, at |-> i]
           Good == {s \in HeapStates(n) : /\ RisesFrom(s.heap, n, s.at)
                                          /\ ToSet(s.heap) = ToSet(h)}
           step == [s \in Good |-> Rise(s)]
<1>1. base \in Good
  BY DEF HeapStates
<1>2. \A s \in Good : step[s] = Rise(s) /\ Rise(s) \in Good
  BY RiseStep
<1>3. PICK f \in [0 .. n -> Good] : LoopsUp(f, base, step, n)
  <2>1. \A s \in Good : step[s] \in Good
    BY <1>2
  <2> HIDE DEF base, Good, step
  <2> QED
    BY <1>1, <2>1, LoopsExist
<1>4. f = [k \in 0 .. n |-> IF k = 0 THEN base ELSE Rise(f[k - 1])]
  <2> HIDE DEF base, Good, step
  <2>1. f = [k \in 0 .. n |-> f[k]]
    OBVIOUS
  <2>2. \A k \in 0 .. n : f[k] = IF k = 0 THEN base ELSE Rise(f[k - 1])
    BY <1>2, <1>3 DEF LoopsUp
  <2> QED
    BY <2>1, <2>2
<1> HIDE DEF step
<1> DEFINE Loop(w) == w = [k \in 0 .. n |-> IF k = 0 THEN base ELSE Rise(w[k - 1])]
<1>5. PICK g : g = CHOOSE w : Loop(w)
  OBVIOUS
<1>6. Loop(g)
  BY <1>4, <1>5
<1>7. HeapifyUp(h, i) = g[n].heap
  <2>1. Repeated(Rise, [heap |-> h, at |-> i], Len(h)) = g[n]
    BY <1>5 DEF Repeated
  <2> QED
    BY <2>1 DEF HeapifyUp
<1>8. g[0] = base /\ \A k \in 1 .. n : g[k] = Rise(g[k - 1])
  <2> HIDE DEF base
  <2> QED
    BY <1>6
<1> HIDE DEF Loop
<1> DEFINE N == {k \in Nat : k <= n =>
                    /\ g[k] \in Good
                    /\ IsHeap(g[k].heap, n) \/ g[k].at + k <= n}
<1>9. 0 \in N
  BY <1>1, <1>8
<1>10. ASSUME NEW k \in Nat, k \in N PROVE k + 1 \in N
  <2> SUFFICES ASSUME k + 1 <= n
               PROVE  /\ g[k + 1] \in Good
                      /\ IsHeap(g[k + 1].heap, n) \/ g[k + 1].at + (k + 1) <= n
    OBVIOUS
  <2>1. g[k] \in Good /\ (IsHeap(g[k].heap, n) \/ g[k].at + k <= n)
    BY <1>10
  <2>2. PICK s \in Good : s = g[k]
    BY <2>1
  <2>3. g[k + 1] = Rise(s)
    BY <1>8, <2>2
  <2>4. /\ Rise(s) \in Good
        /\ IsHeap(s.heap, n) => Rise(s) = s
        /\ IsHeap(s.heap, n) \/ Rise(s).at < s.at
    BY RiseStep
  <2>5. \A t \in Good : t.at \in Nat
    BY DEF HeapStates
  <2>6. Rise(s).at \in Nat /\ s.at \in Nat
    BY <2>4, <2>5
  <2> HIDE DEF Good
  <2> QED
    BY <2>1, <2>2, <2>3, <2>4, <2>6
<1>11. n \in N
  <2> HIDE DEF N
  <2> QED
    BY <1>9, <1>10, NaturalsByInduction
<1>12. /\ g[n] \in HeapStates(n) /\ ToSet(g[n].heap) = ToSet(h)
       /\ IsHeap(g[n].heap, n) \/ g[n].at + n <= n
  BY <1>11
<1>13. g[n].at \in 1 .. n /\ g[n].heap \in Heaps(n)
  BY <1>12 DEF HeapStates
<1> QED
  BY <1>7, <1>12, <1>13

\* The loop of HeapifyDown ends in a heap.
LEMMA SinksToAHeap ==
    ASSUME NEW n \in Nat, NEW h \in Heaps(n), Len(h) = n, NEW i \in 1 .. n,
           SinksFrom(h, n, i)
    PROVE  /\ HeapifyDown(h, i) \in Heaps(n)
           /\ IsHeap(HeapifyDown(h, i), n)
           /\ ToSet(HeapifyDown(h, i)) = ToSet(h)
<1> DEFINE base == [heap |-> h, at |-> i]
           Good == {s \in HeapStates(n) : /\ SinksFrom(s.heap, n, s.at)
                                          /\ ToSet(s.heap) = ToSet(h)}
           step == [s \in Good |-> Sink(s)]
<1>1. base \in Good
  BY DEF HeapStates
<1>2. \A s \in Good : step[s] = Sink(s) /\ Sink(s) \in Good
  BY SinkStep
<1>3. PICK f \in [0 .. n -> Good] : LoopsUp(f, base, step, n)
  <2>1. \A s \in Good : step[s] \in Good
    BY <1>2
  <2> HIDE DEF base, Good, step
  <2> QED
    BY <1>1, <2>1, LoopsExist
<1>4. f = [k \in 0 .. n |-> IF k = 0 THEN base ELSE Sink(f[k - 1])]
  <2> HIDE DEF base, Good, step
  <2>1. f = [k \in 0 .. n |-> f[k]]
    OBVIOUS
  <2>2. \A k \in 0 .. n : f[k] = IF k = 0 THEN base ELSE Sink(f[k - 1])
    BY <1>2, <1>3 DEF LoopsUp
  <2> QED
    BY <2>1, <2>2
<1> HIDE DEF step
<1> DEFINE Loop(w) == w = [k \in 0 .. n |-> IF k = 0 THEN base ELSE Sink(w[k - 1])]
<1>5. PICK g : g = CHOOSE w : Loop(w)
  OBVIOUS
<1>6. Loop(g)
  BY <1>4, <1>5
<1>7. HeapifyDown(h, i) = g[n].heap
  <2>1. Repeated(Sink, [heap |-> h, at |-> i], Len(h)) = g[n]
    BY <1>5 DEF Repeated
  <2> QED
    BY <2>1 DEF HeapifyDown
<1>8. g[0] = base /\ \A k \in 1 .. n : g[k] = Sink(g[k - 1])
  <2> HIDE DEF base
  <2> QED
    BY <1>6
<1> HIDE DEF Loop
<1> DEFINE N == {k \in Nat : k <= n =>
                    /\ g[k] \in Good
                    /\ IsHeap(g[k].heap, n) \/ g[k].at >= k + 1}
<1>9. 0 \in N
  BY <1>1, <1>8
<1>10. ASSUME NEW k \in Nat, k \in N PROVE k + 1 \in N
  <2> SUFFICES ASSUME k + 1 <= n
               PROVE  /\ g[k + 1] \in Good
                      /\ IsHeap(g[k + 1].heap, n) \/ g[k + 1].at >= (k + 1) + 1
    OBVIOUS
  <2>1. g[k] \in Good /\ (IsHeap(g[k].heap, n) \/ g[k].at >= k + 1)
    BY <1>10
  <2>2. PICK s \in Good : s = g[k]
    BY <2>1
  <2>3. g[k + 1] = Sink(s)
    BY <1>8, <2>2
  <2>4. /\ Sink(s) \in Good
        /\ IsHeap(s.heap, n) => Sink(s) = s
        /\ IsHeap(s.heap, n) \/ Sink(s).at > s.at
    BY SinkStep
  <2>5. \A t \in Good : t.at \in Nat
    BY DEF HeapStates
  <2>6. Sink(s).at \in Nat /\ s.at \in Nat
    BY <2>4, <2>5
  <2> HIDE DEF Good
  <2> QED
    BY <2>1, <2>2, <2>3, <2>4, <2>6
<1>11. n \in N
  <2> HIDE DEF N
  <2> QED
    BY <1>9, <1>10, NaturalsByInduction
<1>12. /\ g[n] \in HeapStates(n) /\ ToSet(g[n].heap) = ToSet(h)
       /\ IsHeap(g[n].heap, n) \/ g[n].at >= n + 1
  BY <1>11
<1>13. g[n].at \in 1 .. n /\ g[n].heap \in Heaps(n)
  BY <1>12 DEF HeapStates
<1> QED
  BY <1>7, <1>12, <1>13

\* The first entry of a heap is its oldest.
LEMMA RootIsOldest ==
    ASSUME NEW n \in Nat, NEW h \in Heaps(n), IsHeap(h, n), NEW j \in 1 .. n
    PROVE  h[1].time <= h[j].time
<1>1. \A k \in 1 .. n : h[k].time \in Nat
  BY DEF Heaps, Activities
<1> DEFINE T == {k \in 1 .. n : ~(h[1].time <= h[k].time)}
<1> SUFFICES ASSUME T # {} PROVE FALSE
  OBVIOUS
<1>2. PICK m \in T : \A k \in T : m <= k
  <2>1. T \subseteq Nat
    OBVIOUS
  <2> HIDE DEF T
  <2> QED
    BY <2>1, LeastNatural
<1>3. PICK q \in Nat : q = m \div 2 /\ (m = 2 * q \/ m = 2 * q + 1)
  BY Halves
<1>4. m \in 2 .. n /\ ~(h[1].time <= h[m].time)
  BY <1>1, <1>2
<1>5. q \in 1 .. n /\ q < m
  BY <1>3, <1>4
<1>6. h[1].time <= h[q].time
  BY <1>2, <1>5
<1>7. h[q].time <= h[m].time
  BY <1>3, <1>4 DEF IsHeap
<1> QED
  BY <1>1, <1>4, <1>5, <1>6, <1>7

\* Recording an activity adds it to the heap, or leaves the heap alone for want
\* of memory.
LEMMA RecordedIsAHeap ==
    ASSUME NEW h \in Seq(Activities), IsHeap(h, Len(h)),
           NEW pid \in StorePids, NEW time \in Nat, NEW memory \in BOOLEAN
    PROVE  \E r \in Seq(Activities) :
              /\ r = Recorded(h, pid, time, memory) /\ IsHeap(r, Len(r))
              /\ \/ memory = TRUE
                    /\ ToSet(r) = ToSet(h) \cup {[time |-> time, pid |-> pid]}
                 \/ memory = FALSE /\ ToSet(r) = ToSet(h)
<1>0. CASE memory = FALSE
  BY <1>0 DEF Recorded
<1> SUFFICES ASSUME memory = TRUE
             PROVE  \E r \in Seq(Activities) :
                       /\ r = Recorded(h, pid, time, memory) /\ IsHeap(r, Len(r))
                       /\ ToSet(r) = ToSet(h) \cup {[time |-> time, pid |-> pid]}
  BY <1>0
<1>1. PICK e \in Activities : e = [time |-> time, pid |-> pid]
  BY DEF Activities
<1>2. PICK n \in Nat : n = Len(h)
  BY LenProperties
<1>3. PICK g : g = Append(h, e)
  OBVIOUS
<1>4. /\ g \in Seq(Activities) /\ DOMAIN g = 1 .. n + 1 /\ Len(g) = n + 1
      /\ \A k \in 1 .. n : g[k] = h[k]
      /\ ToSet(g) = ToSet(h) \cup {e}
  <2>1. DOMAIN h = 1 .. n
    BY <1>2, LenProperties
  <2>2. /\ g \in Seq(Activities) /\ Len(g) = n + 1
        /\ \A k \in 1 .. n : g[k] = h[k]
    BY <1>2, <1>3, <2>1, AppendIndexes
  <2> QED
    BY <1>3, <2>2, AppendDistinct, LenProperties
<1>5. g \in Heaps(n + 1)
  BY <1>4, LenProperties DEF Heaps
<1>6. RisesFrom(g, n + 1, n + 1)
  <2>1. ASSUME NEW j \in 2 .. n + 1, j # n + 1 PROVE g[j \div 2].time <= g[j].time
    <3>1. PICK q \in Nat : q = j \div 2 /\ (j = 2 * q \/ j = 2 * q + 1)
      BY Halves
    <3>2. q \in 1 .. n /\ j \in 2 .. n
      BY <2>1, <3>1
    <3>3. h[q].time <= h[j].time
      BY <1>2, <3>1, <3>2 DEF IsHeap
    <3> QED
      BY <1>4, <3>1, <3>2, <3>3
  <2>2. ASSUME NEW j \in 2 .. n + 1 PROVE j \div 2 # n + 1
    BY Halves
  <2> QED
    BY <2>1, <2>2 DEF RisesFrom
<1>7. PICK r : r = HeapifyUp(g, n + 1)
  OBVIOUS
<1>8. r \in Heaps(n + 1) /\ IsHeap(r, n + 1) /\ ToSet(r) = ToSet(g)
  <2>1. n + 1 \in Nat /\ n + 1 \in 1 .. n + 1
    OBVIOUS
  <2> QED
    BY <1>4, <1>5, <1>6, <1>7, <2>1, RisesToAHeap
<1>9. r \in Seq(Activities) /\ Len(r) = n + 1
  BY <1>8, HeapsAreSequences
<1> QED
  BY <1>1, <1>2, <1>3, <1>4, <1>7, <1>8, <1>9 DEF Recorded

\* Popping takes the first entry out.
LEMMA PoppedIsAHeap ==
    ASSUME NEW h \in Seq(Activities), IsHeap(h, Len(h)), h # <<>>
    PROVE  /\ Popped(h) \in Seq(Activities)
           /\ Len(Popped(h)) = Len(h) - 1
           /\ IsHeap(Popped(h), Len(h) - 1)
           /\ \A x \in ToSet(h) : x = h[1] \/ x \in ToSet(Popped(h))
<1>1. PICK n \in Nat : n = Len(h) /\ n >= 1 /\ DOMAIN h = 1 .. n
  BY EmptySeq, LenProperties
<1>2. CASE n = 1
  <2>1. Popped(h) = <<>>
    BY <1>1, <1>2 DEF Popped
  <2>2. <<>> \in Seq(Activities) /\ Len(<<>>) = 0 /\ IsHeap(<<>>, 0)
    BY DEF IsHeap
  <2>3. \A x \in ToSet(h) : x = h[1]
    BY <1>1, <1>2 DEF ToSet
  <2> QED
    BY <1>1, <1>2, <2>1, <2>2, <2>3
<1>3. CASE n # 1
  <2>1. PICK m \in Nat : m = n - 1 /\ m >= 1
    BY <1>1, <1>3
  <2>2. h[n] \in Activities
    BY <1>1, ElementOfSeq
  <2>3. PICK t \in Seq(Activities) :
           t = SubSeq(h, 2, m) /\ Len(t) = m - 1
           /\ \A k \in 1 .. m - 1 : t[k] = h[k + 1]
    <3>1. /\ SubSeq(h, 2, m) \in Seq(Activities)
          /\ Len(SubSeq(h, 2, m)) = IF 2 <= m THEN m - 2 + 1 ELSE 0
          /\ \A k \in 1 .. m - 2 + 1 : SubSeq(h, 2, m)[k] = h[2 + k - 1]
      BY <1>1, <2>1, SubSeqProperties
    <3>2. Len(SubSeq(h, 2, m)) = m - 1
      BY <2>1, <3>1
    <3>3. \A k \in 1 .. m - 1 : SubSeq(h, 2, m)[k] = h[k + 1]
      <4> SUFFICES ASSUME NEW k \in 1 .. m - 1 PROVE SubSeq(h, 2, m)[k] = h[k + 1]
        OBVIOUS
      <4>1. k \in 1 .. m - 2 + 1 /\ 2 + k - 1 = k + 1
        BY <2>1
      <4> QED
        BY <3>1, <4>1
    <3> QED
      BY <3>1, <3>2, <3>3
  <2>4. PICK g : g = <<h[n]>> \o t
    OBVIOUS
  <2>5. /\ g \in Heaps(m) /\ Len(g) = m
        /\ g[1] = h[n] /\ \A k \in 2 .. m : g[k] = h[k]
    <3>0. PICK e \in Activities : e = h[n]
      BY <2>2
    <3>1. PICK u \in Seq(Activities) : u = <<h[n]>> /\ Len(u) = 1 /\ u[1] = h[n]
      <4>1. <<e>> \in Seq(Activities) /\ Len(<<e>>) = 1 /\ <<e>>[1] = e
        OBVIOUS
      <4> QED
        BY <3>0, <4>1
    <3>2. /\ g \in Seq(Activities) /\ Len(g) = 1 + (m - 1)
          /\ \A k \in 1 .. 1 + (m - 1) : g[k] = IF k <= 1 THEN u[k] ELSE t[k - 1]
      BY <2>3, <2>4, <3>1, ConcatProperties
    <3>3. Len(g) = m /\ DOMAIN g = 1 .. m
      BY <2>1, <3>2, LenProperties
    <3>4. g \in Heaps(m)
      BY <3>2, <3>3, LenProperties DEF Heaps
    <3>5. g[1] = h[n]
      BY <2>1, <3>1, <3>2
    <3>6. \A k \in 2 .. m : g[k] = h[k]
      BY <2>1, <2>3, <3>2
    <3> QED
      BY <3>3, <3>4, <3>5, <3>6
  <2>6. SinksFrom(g, m, 1)
    <3>1. ASSUME NEW j \in 2 .. m, j \div 2 # 1 PROVE g[j \div 2].time <= g[j].time
      <4>1. PICK q \in Nat : q = j \div 2 /\ (j = 2 * q \/ j = 2 * q + 1)
        BY Halves
      <4>2. q \in 2 .. m /\ j \in 2 .. n
        BY <2>1, <3>1, <4>1
      <4>3. h[q].time <= h[j].time
        BY <1>1, <4>1, <4>2 DEF IsHeap
      <4> QED
        BY <2>5, <4>1, <4>2, <4>3
    <3> QED
      BY <3>1 DEF SinksFrom
  <2>7. PICK r : r = HeapifyDown(g, 1)
    OBVIOUS
  <2>8. r \in Heaps(m) /\ IsHeap(r, m) /\ ToSet(r) = ToSet(g)
    <3>1. 1 \in 1 .. m
      BY <2>1
    <3> QED
      BY <2>5, <2>6, <2>7, <3>1, SinksToAHeap
  <2>9. r \in Seq(Activities) /\ Len(r) = m
    BY <2>8, HeapsAreSequences
  <2>10. Popped(h) = r
    BY <1>1, <1>3, <2>1, <2>3, <2>4, <2>7 DEF Popped
  <2>11. ASSUME NEW j \in 1 .. n, j # 1 PROVE h[j] \in ToSet(g)
    <3>1. DOMAIN g = 1 .. m
      BY <2>5 DEF Heaps
    <3>2. CASE j = n
      BY <2>1, <2>5, <3>1, <3>2 DEF ToSet
    <3>3. CASE j # n
      <4>1. j \in 2 .. m
        BY <2>1, <2>11, <3>3
      <4> QED
        BY <2>5, <3>1, <4>1 DEF ToSet
    <3> QED
      BY <3>2, <3>3
  <2>12. \A x \in ToSet(h) : x = h[1] \/ x \in ToSet(r)
    BY <1>1, <2>8, <2>11 DEF ToSet
  <2> QED
    BY <1>1, <2>1, <2>8, <2>9, <2>10, <2>12
<1> QED
  BY <1>2, <1>3

-----------------------------------------------------------------------------
(* The eviction.                                                           *)

\* The instances, the nodes of all ids, and the store with its heap.
Instances == [lower : Nat, upper : Nat, seen : Nat, dns : Seq(Answers)]
StoreNodes == [StorePids -> [last : Nat, instances : Seq(Instances)]]
Stores == [nodes : StoreNodes, heap : Seq(Activities)]

\* The heap is one, and has the latest activity of each node of the given ids.
HeapKnows(nodes, h, known) ==
    /\ IsHeap(h, Len(h))
    /\ \A pid \in known : nodes[pid].instances # <<>> =>
          [time |-> nodes[pid].last, pid |-> pid] \in ToSet(h)

\* The first entry is within the window.
WithinWindow(h, now) == h = <<>> \/ h[1].time + StaleWindow >= now

\* StoreNodes are only taken away.
FewerNodes(nodes, of) == \A pid \in StorePids : nodes[pid] \in {of[pid], NoNode}

\* A turn of the eviction: there is none to make, or an entry less.
LEMMA EvictStep ==
    ASSUME NEW s \in Stores, NEW known \in SUBSET StorePids,
           HeapKnows(s.nodes, s.heap, known), NEW now \in Nat
    PROVE  /\ EvictOne(s, now) \in Stores
           /\ HeapKnows(EvictOne(s, now).nodes, EvictOne(s, now).heap, known)
           /\ FewerNodes(EvictOne(s, now).nodes, s.nodes)
           /\ WithinWindow(s.heap, now) => EvictOne(s, now) = s
           /\ ~WithinWindow(s.heap, now) => Len(EvictOne(s, now).heap) = Len(s.heap) - 1
<1>1. PICK h \in Seq(Activities) : h = s.heap
  BY DEF Stores
<1>2. PICK nodes \in StoreNodes : nodes = s.nodes
  BY DEF Stores
<1>3. HeapKnows(nodes, h, known)
  BY <1>1, <1>2
<1>4. CASE WithinWindow(h, now)
  <2>1. EvictOne(s, now) = s
    BY <1>1, <1>4 DEF EvictOne, WithinWindow
  <2>2. FewerNodes(nodes, nodes)
    BY DEF FewerNodes
  <2> QED
    BY <1>1, <1>2, <1>4, <2>1, <2>2
<1>5. CASE ~WithinWindow(h, now)
  <2>1. h # <<>> /\ Len(h) \in Nat /\ 1 \in DOMAIN h /\ h[1] \in Activities
    BY <1>5, EmptySeq, LenProperties, ElementOfSeq DEF WithinWindow
  <2>2. PICK e \in Activities : e = h[1]
    BY <2>1
  <2>3. PICK r \in Seq(Activities) :
           /\ r = Popped(h) /\ Len(r) = Len(h) - 1 /\ IsHeap(r, Len(r))
           /\ \A x \in ToSet(h) : x = e \/ x \in ToSet(r)
    BY <1>3, <2>1, <2>2, PoppedIsAHeap DEF HeapKnows
  <2>4. PICK w : w = [nodes EXCEPT ![e.pid] = IF @.last = e.time THEN NoNode ELSE @]
    OBVIOUS
  <2>5. EvictOne(s, now) = [heap |-> r, nodes |-> w]
    BY <1>1, <1>2, <1>5, <2>2, <2>3, <2>4 DEF EvictOne, WithinWindow
  <2>6. NoNode \in [last : Nat, instances : Seq(Instances)]
    BY DEF NoNode
  <2>7. e.pid \in StorePids /\ e.time \in Nat /\ e = [time |-> e.time, pid |-> e.pid]
    BY DEF Activities
  <2>8. w \in StoreNodes /\ FewerNodes(w, nodes)
    BY <2>4, <2>6, <2>7 DEF StoreNodes, FewerNodes
  <2>9. ASSUME NEW pid \in known, w[pid].instances # <<>>
        PROVE  [time |-> w[pid].last, pid |-> pid] \in ToSet(r)
    <3>1. w[pid] = nodes[pid]
      BY <2>8, <2>9 DEF FewerNodes, NoNode
    <3>2. PICK x \in ToSet(h) : x = [time |-> w[pid].last, pid |-> pid]
      BY <1>3, <2>9, <3>1 DEF HeapKnows
    <3>3. ASSUME x = e PROVE FALSE
      <4>1. pid = e.pid /\ w[pid].last = e.time
        BY <2>7, <3>2, <3>3
      <4>2. w[pid] = NoNode
        BY <2>4, <2>7, <3>1, <4>1 DEF StoreNodes
      <4> QED
        BY <2>9, <4>2 DEF NoNode
    <3> QED
      BY <2>3, <3>2, <3>3
  <2>10. HeapKnows(w, r, known)
    BY <2>3, <2>9 DEF HeapKnows
  <2>11. /\ EvictOne(s, now).heap = r /\ EvictOne(s, now).nodes = w
         /\ EvictOne(s, now) \in Stores
    BY <2>5, <2>8 DEF Stores
  <2> QED
    BY <1>1, <1>2, <1>5, <2>3, <2>8, <2>10, <2>11
<1> QED
  BY <1>4, <1>5

\* The eviction leaves no node that was due.
LEMMA EvictionSweeps ==
    ASSUME NEW nodes \in StoreNodes, NEW h \in Seq(Activities),
           NEW known \in SUBSET StorePids, HeapKnows(nodes, h, known), NEW now \in Nat
    PROVE  \E s \in Stores :
              /\ Evicted(nodes, h, now) = s
              /\ HeapKnows(s.nodes, s.heap, known)
              /\ FewerNodes(s.nodes, nodes)
              /\ \A pid \in known :
                    s.nodes[pid].instances # <<>> => s.nodes[pid].last + StaleWindow >= now
<1>0. PICK n \in Nat : n = Len(h)
  BY LenProperties
<1> DEFINE base == [nodes |-> nodes, heap |-> h]
           Good == {s \in Stores : HeapKnows(s.nodes, s.heap, known) /\ FewerNodes(s.nodes, nodes)}
           step == [s \in Good |-> EvictOne(s, now)]
<1>1. base \in Good
  BY DEF Stores, FewerNodes
<1>2. ASSUME NEW s \in Good PROVE step[s] = EvictOne(s, now) /\ EvictOne(s, now) \in Good
  <2>1. /\ EvictOne(s, now) \in Stores
        /\ HeapKnows(EvictOne(s, now).nodes, EvictOne(s, now).heap, known)
        /\ FewerNodes(EvictOne(s, now).nodes, s.nodes)
    BY EvictStep
  <2>2. FewerNodes(EvictOne(s, now).nodes, nodes)
    BY <2>1 DEF FewerNodes
  <2> QED
    BY <2>1, <2>2
<1>3. PICK f \in [0 .. n -> Good] : LoopsUp(f, base, step, n)
  <2>1. \A s \in Good : step[s] \in Good
    BY <1>2
  <2> HIDE DEF base, Good, step
  <2> QED
    BY <1>1, <2>1, LoopsExist
<1>4. f = [k \in 0 .. n |-> IF k = 0 THEN base ELSE EvictOne(f[k - 1], now)]
  <2> HIDE DEF base, Good, step
  <2>1. f = [k \in 0 .. n |-> f[k]]
    OBVIOUS
  <2>2. \A s \in Good : step[s] = EvictOne(s, now)
    BY <1>2
  <2>3. \A k \in 0 .. n : f[k] = IF k = 0 THEN base ELSE EvictOne(f[k - 1], now)
    BY <1>3, <2>2 DEF LoopsUp
  <2> QED
    BY <2>1, <2>3
<1> HIDE DEF step
<1> DEFINE Loop(w) == w = [k \in 0 .. n |-> IF k = 0 THEN base ELSE EvictOne(w[k - 1], now)]
<1>5. PICK g : g = CHOOSE w : Loop(w)
  OBVIOUS
<1>6. Loop(g)
  BY <1>4, <1>5
<1>7. Evicted(nodes, h, now) = g[n]
  BY <1>0, <1>5 DEF Repeated, Evicted
<1>8. g[0] = base /\ \A k \in 1 .. n : g[k] = EvictOne(g[k - 1], now)
  <2> HIDE DEF base
  <2> QED
    BY <1>6
<1> HIDE DEF Loop
<1> DEFINE Progress(k) == g[k] \in Good /\ (WithinWindow(g[k].heap, now) \/ Len(g[k].heap) + k <= n)
           N == {k \in Nat : k <= n => Progress(k)}
<1>9. 0 \in N
  BY <1>0, <1>1, <1>8
<1>10. ASSUME NEW k \in Nat, k \in N PROVE k + 1 \in N
  <2> SUFFICES ASSUME k + 1 <= n
               PROVE  Progress(k + 1)
    <3> HIDE DEF Progress
    <3> QED
      OBVIOUS
  <2>1. g[k] \in Good /\ (WithinWindow(g[k].heap, now) \/ Len(g[k].heap) + k <= n)
    BY <1>10
  <2>2. PICK s \in Good : s = g[k]
    BY <2>1
  <2>3. PICK t \in Good : t = EvictOne(s, now) /\ t = g[k + 1]
    <3>1. EvictOne(s, now) \in Good
      BY <1>2
    <3>2. g[k + 1] = EvictOne(s, now)
      BY <1>8, <2>2
    <3> QED
      BY <3>1, <3>2
  <2>4. s \in Stores /\ HeapKnows(s.nodes, s.heap, known)
    OBVIOUS
  <2>5. /\ WithinWindow(s.heap, now) => t = s
        /\ ~WithinWindow(s.heap, now) => Len(t.heap) = Len(s.heap) - 1
    BY <2>3, <2>4, EvictStep
  <2>6. PICK m \in Nat : m = Len(s.heap)
    BY <2>4, LenProperties DEF Stores
  <2> HIDE DEF Good
  <2>7. CASE WithinWindow(s.heap, now)
    BY <2>2, <2>3, <2>5, <2>7
  <2>8. CASE ~WithinWindow(s.heap, now)
    <3>1. m + k <= n /\ Len(t.heap) = m - 1
      BY <2>1, <2>2, <2>5, <2>6, <2>8
    <3>2. Len(t.heap) + (k + 1) <= n
      BY <3>1
    <3> QED
      BY <2>3, <3>2
  <2> QED
    BY <2>7, <2>8
<1>11. n \in N
  <2> HIDE DEF N
  <2> QED
    BY <1>9, <1>10, NaturalsByInduction
<1>12. PICK s \in Good : s = g[n] /\ (WithinWindow(s.heap, now) \/ Len(s.heap) + n <= n)
  BY <1>11
<1>13. s \in Stores /\ HeapKnows(s.nodes, s.heap, known) /\ FewerNodes(s.nodes, nodes)
  OBVIOUS
<1>14. PICK r \in Seq(Activities) : r = s.heap
  BY <1>13 DEF Stores
<1>15. WithinWindow(r, now)
  <2>1. Len(r) \in Nat /\ (Len(r) = 0 => r = <<>>)
    BY LenProperties, EmptySeq
  <2> QED
    BY <1>12, <1>14, <2>1 DEF WithinWindow
<1>16. ASSUME NEW pid \in known, s.nodes[pid].instances # <<>>
       PROVE  s.nodes[pid].last + StaleWindow >= now
  <2>1. PICK x \in ToSet(r) : x = [time |-> s.nodes[pid].last, pid |-> pid]
    BY <1>13, <1>14, <1>16 DEF HeapKnows
  <2>2. PICK m \in Nat : m = Len(r) /\ DOMAIN r = 1 .. m /\ r \in Heaps(m)
    BY LenProperties DEF Heaps
  <2>3. PICK j \in 1 .. m : x = r[j]
    BY <2>1, <2>2 DEF ToSet
  <2>4. r[1].time <= r[j].time /\ r[j].time \in Nat /\ r[1].time \in Nat
    <3>1. IsHeap(r, m)
      BY <1>13, <1>14, <2>2 DEF HeapKnows
    <3>2. 1 \in 1 .. m
      OBVIOUS
    <3> QED
      BY <2>2, <3>1, <3>2, RootIsOldest DEF Heaps, Activities
  <2>5. r # <<>>
    BY <2>2, <2>3, EmptySeq
  <2> QED
    BY <1>15, <2>1, <2>3, <2>4, <2>5, StoreAssumption, SMTT(30) DEF WithinWindow
<1> QED
  BY <1>7, <1>12, <1>13, <1>16

-----------------------------------------------------------------------------
(* The instances of a node.                                                *)

\* The instances of a node: later ones first, each ending where the next
\* begins, and without a repeated answer.
Successive(s) ==
    /\ \A j, k \in DOMAIN s : j < k => s[k].lower < s[j].lower
    /\ \A k \in DOMAIN s : s[k].upper = IF k = 1 THEN 0 ELSE s[k - 1].lower
    /\ \A k \in DOMAIN s : IsInjective(s[k].dns)

\* First picks the least number of a set.
LEMMA FirstIsLeast ==
    ASSUME NEW S, S \subseteq Nat, S # {}
    PROVE  First(S) \in S /\ \A m \in S : First(S) <= m
BY LeastNatural DEF First

\* The new instance keeps the others in order.
LEMMA InsertionKeepsTheChain ==
    ASSUME NEW s \in Seq(Instances), Successive(s), NEW create \in Nat, NEW now \in Nat
    PROVE  /\ InsertedInOrder(s, create, now) \in Seq(Instances)
           /\ Successive(InsertedInOrder(s, create, now))
           /\ InsertedInOrder(s, create, now) # <<>>
<1>1. PICK n \in Nat : n = Len(s) /\ DOMAIN s = 1 .. n
  BY LenProperties
<1>2. \A k \in 1 .. n : s[k] \in Instances /\ s[k].lower \in Nat
  <2>1. \A k \in 1 .. n : s[k] \in Instances
    BY <1>1, ElementOfSeq
  <2> QED
    BY <2>1 DEF Instances
<1> DEFINE T == {k \in DOMAIN s : s[k].lower <= create} \cup {Len(s) + 1}
<1>3. PICK p : p = First(T)
  OBVIOUS
<1>4. /\ p \in 1 .. n + 1
      /\ \A k \in 1 .. n : k < p => s[k].lower > create
      /\ p <= n => s[p].lower <= create
  <2>1. T \subseteq Nat /\ T # {} /\ T \subseteq 1 .. n + 1
    BY <1>1
  <2> HIDE DEF T
  <2>2. p \in T /\ \A m \in T : p <= m
    BY <1>3, <2>1, FirstIsLeast
  <2>3. \A k \in 1 .. n : s[k].lower <= create => k \in T
    BY <1>1 DEF T
  <2>4. p <= n => s[p].lower <= create
    BY <1>1, <2>2 DEF T
  <2> QED
    BY <1>2, <2>1, <2>2, <2>3, <2>4
<1> HIDE DEF T
<1>5. PICK later : later = SubSeq(s, 1, p - 1)
  OBVIOUS
<1>6. PICK earlier : earlier = SubSeq(s, p, n)
  OBVIOUS
<1>7. /\ later \in Seq(Instances) /\ Len(later) = p - 1
      /\ \A k \in 1 .. p - 1 : later[k] = s[k]
      /\ earlier \in Seq(Instances) /\ Len(earlier) = n - p + 1
      /\ \A k \in 1 .. n - p + 1 : earlier[k] = s[p + k - 1]
      /\ later = <<>> <=> p = 1
      /\ earlier = <<>> <=> p = n + 1
  <2>1. 1 \in 1 .. n + 1 /\ p - 1 \in 0 .. n /\ 1 <= (p - 1) + 1 /\ p \in Int
    BY <1>4
  <2>2. /\ later \in Seq(Instances) /\ Len(later) = (p - 1) - 1 + 1
        /\ \A k \in 1 .. (p - 1) - 1 + 1 : later[k] = s[1 + k - 1]
    BY <1>1, <1>5, <2>1, PartOf
  <2>3. n \in 0 .. n /\ p <= n + 1
    BY <1>4
  <2>4. /\ earlier \in Seq(Instances) /\ Len(earlier) = n - p + 1
        /\ \A k \in 1 .. n - p + 1 : earlier[k] = s[p + k - 1]
    BY <1>1, <1>4, <1>6, <2>3, PartOf
  <2>5. (p - 1) - 1 + 1 = p - 1 /\ \A k \in 1 .. p - 1 : 1 + k - 1 = k
    BY <2>1
  <2>6. \A k \in 1 .. p - 1 : later[k] = s[k]
    BY <2>2, <2>5
  <2>7. (later = <<>> <=> Len(later) = 0) /\ (earlier = <<>> <=> Len(earlier) = 0)
    BY <2>2, <2>4, EmptySeq
  <2>8. later = <<>> <=> p = 1
    BY <2>1, <2>2, <2>7
  <2>9. earlier = <<>> <=> p = n + 1
    BY <2>1, <2>4, <2>7
  <2> QED
    BY <2>2, <2>4, <2>5, <2>6, <2>8, <2>9
<1>8. p <= n => earlier[1] = s[p]
  BY <1>4, <1>7
<1>9. PICK u \in Nat : /\ u = IF later = <<>> THEN 0 ELSE Last(later).lower
                       /\ u = IF p = 1 THEN 0 ELSE s[p - 1].lower
  <2>1. CASE p = 1
    BY <1>7, <2>1
  <2>2. CASE p # 1
    <3>1. p - 1 \in 1 .. n /\ p - 1 \in 1 .. p - 1
      BY <1>4, <2>2
    <3>2. Last(later) = s[p - 1]
      BY <1>7, <3>1 DEF Last
    <3> QED
      BY <1>2, <1>7, <2>2, <3>1, <3>2
  <2> QED
    BY <2>1, <2>2
<1>10. PICK new : new = [lower |-> create, upper |-> u, seen |-> now, dns |-> <<>>]
  OBVIOUS
<1>10a. new \in Instances /\ new.lower = create /\ new.upper = u /\ new.dns = <<>>
  <2>1. <<>> \in Seq(Answers)
    BY EmptySeq
  <2> QED
    BY <1>10, <2>1 DEF Instances
<1>11. CASE p <= n /\ s[p].lower = create
  <2>1. InsertedInOrder(s, create, now) = s
    <3>1. earlier # <<>> /\ earlier[1].lower = create
      BY <1>4, <1>7, <1>8, <1>11
    <3> QED
      BY <1>1, <1>3, <1>6, <3>1 DEF InsertedInOrder, T
  <2> QED
    BY <1>1, <1>4, <1>11, <2>1, EmptySeq
<1>12. CASE ~(p <= n /\ s[p].lower = create)
  <2>1. PICK rest \in Seq(Instances) :
           /\ rest = IF earlier = <<>> THEN <<>> ELSE [earlier EXCEPT ![1].upper = create]
           /\ Len(rest) = n - p + 1
           /\ \A k \in 1 .. n - p + 1 :
                 rest[k] = IF k = 1 THEN [s[p] EXCEPT !.upper = create] ELSE s[p + k - 1]
    <3>1. CASE p = n + 1
      <4>1. <<>> \in Seq(Instances) /\ Len(<<>>) = 0 /\ n - p + 1 = 0 /\ earlier = <<>>
        BY <1>4, <1>7, <3>1, EmptySeq
      <4>2. \A k \in 1 .. n - p + 1 : FALSE
        BY <4>1
      <4> QED
        BY <4>1, <4>2
    <3>2. CASE p # n + 1
      <4>1. PICK x \in Instances : x = [s[p] EXCEPT !.upper = create]
        <5>1. p \in 1 .. n
          BY <1>4, <3>2
        <5> QED
          BY <1>2, <5>1 DEF Instances
      <4>2. PICK r : r = [earlier EXCEPT ![1] = x]
        OBVIOUS
      <4>3. 1 \in 1 .. Len(earlier) /\ p <= n /\ earlier \in Seq(Instances)
        BY <1>4, <1>7, <3>2
      <4>4. r \in Seq(Instances) /\ Len(r) = Len(earlier)
            /\ \A k \in 1 .. Len(earlier) : r[k] = IF k = 1 THEN x ELSE earlier[k]
        BY <4>2, <4>3, ExceptSeq
      <4>5. r = [earlier EXCEPT ![1].upper = create]
        BY <1>8, <4>1, <4>2, <4>3
      <4> QED
        <5>1. r = IF earlier = <<>> THEN <<>> ELSE [earlier EXCEPT ![1].upper = create]
          BY <1>7, <3>2, <4>5
        <5>2. Len(r) = n - p + 1
          BY <1>7, <4>4
        <5>3. ASSUME NEW k \in 1 .. n - p + 1
              PROVE  r[k] = IF k = 1 THEN [s[p] EXCEPT !.upper = create] ELSE s[p + k - 1]
          <6>1. k \in 1 .. Len(earlier) /\ earlier[k] = s[p + k - 1]
            BY <1>7
          <6> QED
            BY <4>1, <4>4, <6>1
        <5> QED
          BY <4>4, <5>1, <5>2, <5>3
    <3> QED
      BY <3>1, <3>2
  <2>2. PICK r : r = later \o <<new>> \o rest
    OBVIOUS
  <2>3. InsertedInOrder(s, create, now) = r
    <3>1. ~(earlier # <<>> /\ earlier[1].lower = create)
      BY <1>4, <1>7, <1>8, <1>12
    <3> QED
      BY <1>1, <1>3, <1>5, <1>6, <1>9, <1>10, <2>1, <2>2, <3>1 DEF InsertedInOrder, T
  <2>4. /\ r \in Seq(Instances) /\ Len(r) = n + 1
        /\ \A k \in 1 .. p - 1 : r[k] = s[k]
        /\ r[p] = new
        /\ \A k \in 1 .. n - p + 1 : r[p + k] = rest[k]
    <3>1. /\ r \in Seq(Instances) /\ Len(r) = (p - 1) + 1 + (n - p + 1)
          /\ \A k \in 1 .. p - 1 : r[k] = later[k]
          /\ r[(p - 1) + 1] = new
          /\ \A k \in 1 .. n - p + 1 : r[(p - 1) + 1 + k] = rest[k]
      <4>1. p - 1 = Len(later) /\ n - p + 1 = Len(rest) /\ later \in Seq(Instances)
        BY <1>7, <2>1
      <4>2. PICK m, l : m = p - 1 /\ l = n - p + 1
        OBVIOUS
      <4>3. /\ r \in Seq(Instances) /\ Len(r) = m + 1 + l
            /\ \A k \in 1 .. m : r[k] = later[k]
            /\ r[m + 1] = new
            /\ \A k \in 1 .. l : r[m + 1 + k] = rest[k]
        <5>1. m = Len(later) /\ l = Len(rest) /\ rest \in Seq(Instances)
          BY <2>1, <4>1, <4>2
        <5> QED
          BY ONLY <1>10a, <2>2, <4>1, <5>1, JoinedAround
      <4> QED
        BY <4>2, <4>3
    <3>2. (p - 1) + 1 + (n - p + 1) = n + 1 /\ (p - 1) + 1 = p
      BY <1>4
    <3> QED
      BY <1>7, <3>1, <3>2
  <2>5. DOMAIN r = 1 .. n + 1
    BY <2>4, LenProperties
  <2>6. ASSUME NEW k \in 1 .. n + 1
        PROVE  /\ k < p => k \in 1 .. n /\ r[k] = s[k]
               /\ k = p => r[k] = new
               /\ k = p + 1 => p \in 1 .. n /\ r[k] = [s[p] EXCEPT !.upper = create]
               /\ k > p + 1 => k - 1 \in 1 .. n /\ r[k] = s[k - 1]
    <3>1. CASE k <= p
      <4>1. ~(k = p + 1) /\ ~(k > p + 1) /\ (k < p => k \in 1 .. p - 1 /\ k \in 1 .. n)
        BY <1>4, <3>1
      <4> QED
        BY <2>4, <4>1
    <3>2. CASE k > p
      <4>1. PICK m \in 1 .. n - p + 1 : k = p + m
        <5>1. k - p \in 1 .. n - p + 1 /\ k = p + (k - p)
          BY <1>4, <3>2
        <5> QED
          BY <5>1
      <4>2. r[k] = IF m = 1 THEN [s[p] EXCEPT !.upper = create] ELSE s[p + m - 1]
        BY <2>1, <2>4, <4>1
      <4>3. ~(k < p) /\ k # p /\ p \in 1 .. n /\ k - 1 \in 1 .. n /\ p + m - 1 = k - 1
        BY <1>4, <3>2, <4>1
      <4>4. CASE m = 1
        <5>1. k = p + 1 /\ ~(k > p + 1)
          BY <1>4, <4>1, <4>4
        <5>2. r[k] = [s[p] EXCEPT !.upper = create]
          BY <4>2, <4>4
        <5> QED
          BY <4>3, <5>1, <5>2
      <4>5. CASE m # 1
        <5>1. k # p + 1
          BY <1>4, <4>1, <4>5
        <5>2. r[k] = s[k - 1]
          BY <4>2, <4>3, <4>5
        <5> QED
          BY <4>3, <5>1, <5>2
      <4> QED
        BY <4>4, <4>5
    <3> QED
      BY <1>4, <3>1, <3>2
  <2>7. ASSUME NEW k \in 1 .. n + 1
        PROVE  /\ k < p => k \in 1 .. n /\ r[k].lower = s[k].lower
               /\ k = p => r[k].lower = create
               /\ k > p => k - 1 \in 1 .. n /\ r[k].lower = s[k - 1].lower
    <3>1. CASE k <= p
      BY <1>4, <1>10a, <2>6, <3>1
    <3>2. CASE k > p
      <4>1. k = p + 1 \/ k > p + 1
        BY <1>4, <3>2
      <4>2. CASE k = p + 1
        <5>1. p \in 1 .. n /\ r[k] = [s[p] EXCEPT !.upper = create] /\ k - 1 = p
          BY <1>4, <2>6, <4>2
        <5>2. [s[p] EXCEPT !.upper = create].lower = s[p].lower
          BY <1>2, <5>1 DEF Instances
        <5> QED
          BY <1>4, <4>2, <5>1, <5>2
      <4>3. CASE k > p + 1
        BY <1>4, <2>6, <4>3
      <4> QED
        BY <4>1, <4>2, <4>3
    <3> QED
      BY <1>4, <3>1, <3>2
  <2>8. \A j, k \in 1 .. n : j < k => s[k].lower < s[j].lower
    BY <1>1 DEF Successive
  <2>9. p <= n => s[p].lower < create
    BY <1>2, <1>4, <1>12
  <2>10. \A k \in 1 .. n : k >= p => s[k].lower < create
    BY <1>2, <1>4, <2>8, <2>9
  <2>11. ASSUME NEW j \in 1 .. n + 1, NEW k \in 1 .. n + 1, j < k
         PROVE  r[k].lower < r[j].lower
    <3>1. CASE k < p
      BY <1>4, <2>7, <2>8, <2>11, <3>1
    <3>2. CASE k = p
      <4>1. r[k].lower = create /\ j \in 1 .. n /\ r[j].lower = s[j].lower /\ j < p
        BY <1>4, <2>7, <2>11, <3>2
      <4> QED
        BY <1>2, <1>4, <4>1
    <3>3. CASE k > p
      <4>1. k - 1 \in 1 .. n /\ r[k].lower = s[k - 1].lower /\ k - 1 >= p
        BY <1>4, <2>7, <3>3
      <4>2. s[k - 1].lower < create
        BY <2>10, <4>1
      <4>3. CASE j < p
        <5>1. j \in 1 .. n /\ r[j].lower = s[j].lower /\ j < k - 1
          BY <1>4, <2>7, <4>1, <4>3
        <5> QED
          BY <2>8, <4>1, <5>1
      <4>4. CASE j = p
        BY <2>7, <4>1, <4>2, <4>4
      <4>5. CASE j > p
        <5>1. j - 1 \in 1 .. n /\ r[j].lower = s[j - 1].lower /\ j - 1 < k - 1
          BY <1>4, <2>7, <2>11, <4>1, <4>5
        <5> QED
          BY <2>8, <4>1, <5>1
      <4> QED
        BY <1>4, <4>3, <4>4, <4>5
    <3> QED
      BY <1>4, <3>1, <3>2, <3>3
  <2>12. ASSUME NEW k \in 1 .. n + 1
         PROVE  r[k].upper = IF k = 1 THEN 0 ELSE r[k - 1].lower
    <3>1. \A m \in 1 .. n : s[m].upper = IF m = 1 THEN 0 ELSE s[m - 1].lower
      BY <1>1 DEF Successive
    <3>2. CASE k < p
      <4>1. r[k] = s[k] /\ k \in 1 .. n /\ (k # 1 => r[k - 1] = s[k - 1])
        BY <1>4, <2>4, <3>2
      <4> QED
        BY <3>1, <4>1
    <3>3. CASE k = p
      <4>1. r[k].upper = u
        BY <1>10a, <2>4, <3>3
      <4>2. k # 1 => r[k - 1] = s[k - 1]
        BY <1>4, <2>4, <3>3
      <4> QED
        BY <1>9, <3>3, <4>1, <4>2
    <3>4. CASE k = p + 1
      <4>1. r[k] = [s[p] EXCEPT !.upper = create] /\ p \in 1 .. n
        BY <2>6, <3>4
      <4>2. r[k].upper = create
        BY <1>2, <4>1 DEF Instances
      <4>3. k # 1 /\ k - 1 = p /\ r[k - 1].lower = create
        BY <1>4, <1>10a, <2>4, <3>4
      <4> QED
        BY <4>2, <4>3
    <3>5. CASE k > p + 1
      <4>1. r[k] = s[k - 1] /\ k - 1 \in 1 .. n /\ k - 1 # 1 /\ k # 1
        BY <1>4, <2>6, <3>5
      <4>2. r[k].upper = s[(k - 1) - 1].lower
        BY <3>1, <4>1
      <4>3. k - 1 \in 1 .. n + 1 /\ k - 1 > p
        BY <1>4, <3>5, <4>1
      <4>4. r[k - 1].lower = s[(k - 1) - 1].lower
        BY <2>7, <4>3
      <4> QED
        BY <4>1, <4>2, <4>4
    <3> QED
      BY <1>4, <3>2, <3>3, <3>4, <3>5
  <2>13. \A k \in 1 .. n + 1 : IsInjective(r[k].dns)
    <3>1. \A m \in 1 .. n : IsInjective(s[m].dns)
      BY <1>1 DEF Successive
    <3>2. IsInjective(new.dns)
      BY <1>10a DEF IsInjective
    <3>3. \A m \in 1 .. n : [s[m] EXCEPT !.upper = create].dns = s[m].dns
      BY <1>2 DEF Instances
    <3> SUFFICES ASSUME NEW k \in 1 .. n + 1 PROVE IsInjective(r[k].dns)
      OBVIOUS
    <3>4. CASE k < p
      BY <2>6, <3>1, <3>4
    <3>5. CASE k = p
      BY <2>6, <3>2, <3>5
    <3>6. CASE k = p + 1
      BY <2>6, <3>1, <3>3, <3>6
    <3>7. CASE k > p + 1
      BY <2>6, <3>1, <3>7
    <3> QED
      BY <1>4, <3>4, <3>5, <3>6, <3>7
  <2>14. Successive(r)
    BY <2>5, <2>11, <2>12, <2>13 DEF Successive
  <2> QED
    BY <2>3, <2>4, <2>14, EmptySeq
<1> QED
  BY <1>11, <1>12

\* Whatever the lookup answers is of the node.
LEMMA SelectedIsStored ==
    ASSUME NEW s \in Seq(Instances), NEW time \in Nat
    PROVE  \/ Selected(s, time) = <<>>
           \/ \E k \in DOMAIN s : Selected(s, time) = <<s[k]>> /\ s[k] \in Instances
<1>1. Covering(s, time) \subseteq DOMAIN s /\ DOMAIN s = 1 .. Len(s) /\ Len(s) \in Nat
  BY LenProperties DEF Covering
<1>2. CASE Covering(s, time) = {}
  BY <1>2 DEF Selected
<1>3. CASE Covering(s, time) # {}
  <2>1. PICK k : k = First(Covering(s, time))
    OBVIOUS
  <2>2. k \in DOMAIN s
    <3>1. Covering(s, time) \subseteq Nat
      BY <1>1
    <3> QED
      BY <1>1, <1>3, <2>1, <3>1, FirstIsLeast
  <2>3. Selected(s, time) = <<s[k]>>
    BY <1>3, <2>1 DEF Selected
  <2> QED
    BY <1>1, <2>2, <2>3, ElementOfSeq
<1> QED
  BY <1>2, <1>3

\* In a chain the lookup finds the one created last before the time.
LEMMA ChainsAnswer ==
    ASSUME NEW s \in Seq(Instances), Successive(s), NEW time \in Nat \ {0}
    PROVE  LET before == {i \in ToSet(s) : i.lower <= time}
           IN IF before = {} THEN Selected(s, time) = <<>>
              ELSE Selected(s, time) =
                      <<CHOOSE i \in before : \A j \in before : j.lower <= i.lower>>
<1> DEFINE before == {i \in ToSet(s) : i.lower <= time}
<1>1. PICK n \in Nat : n = Len(s) /\ DOMAIN s = 1 .. n
  BY LenProperties
<1>2. \A k \in 1 .. n : s[k] \in Instances
  BY <1>1, ElementOfSeq
<1>3. \A k \in 1 .. n : s[k].lower \in Nat /\ s[k].upper \in Nat
  BY <1>2 DEF Instances
<1>4. /\ \A j, k \in 1 .. n : j < k => s[k].lower < s[j].lower
      /\ \A k \in 1 .. n : s[k].upper = IF k = 1 THEN 0 ELSE s[k - 1].lower
  BY <1>1 DEF Successive
<1> DEFINE T == {k \in 1 .. n : s[k].lower <= time}
           C == Covering(s, time)
<1>5. C \subseteq T
  BY <1>1 DEF Covering, Covers
<1>6. before = {s[k] : k \in T}
  <2>1. \A x \in before : \E k \in T : x = s[k]
    BY <1>1 DEF ToSet
  <2>2. \A k \in T : s[k] \in before
    BY <1>1 DEF ToSet
  <2> HIDE DEF before, T
  <2> QED
    BY <2>1, <2>2
<1> HIDE DEF before
<1>7. CASE T = {}
  <2>1. C = {} /\ before = {}
    BY <1>5, <1>6, <1>7
  <2>2. Selected(s, time) = <<>>
    BY <2>1 DEF Selected
  <2> QED
    BY <2>1, <2>2 DEF before
<1>8. CASE T # {}
  <2>1. PICK m \in T : \A k \in T : m <= k
    <3>1. T \subseteq Nat
      OBVIOUS
    <3> HIDE DEF T
    <3> QED
      BY <1>8, <3>1, LeastNatural
  <2>2. m \in 1 .. n /\ s[m].lower <= time
    BY <2>1
  <2>3. m \in C
    <3>1. CASE m = 1
      BY <1>1, <1>4, <2>2, <3>1 DEF Covering, Covers
    <3>2. CASE m # 1
      <4>1. m - 1 \in 1 .. n /\ m - 1 \notin T
        BY <2>1, <2>2, <3>2
      <4>2. time <= s[m - 1].lower /\ s[m].upper = s[m - 1].lower
        BY <1>3, <1>4, <2>2, <3>2, <4>1
      <4> QED
        BY <1>1, <1>3, <2>2, <4>2 DEF Covering, Covers
    <3> QED
      BY <3>1, <3>2
  <2>4. First(C) = m
    <3>1. C \subseteq Nat /\ C # {} /\ \A k \in C : m <= k
      BY <1>5, <2>1, <2>3
    <3> HIDE DEF C
    <3>2. First(C) \in C /\ First(C) <= m
      BY <2>3, <3>1, FirstIsLeast
    <3>3. PICK c \in Nat : c = First(C) /\ c <= m /\ m <= c
      BY <3>1, <3>2
    <3> QED
      BY <2>2, <3>3
  <2>5. Selected(s, time) = <<s[m]>>
    BY <2>3, <2>4 DEF Selected
  <2>6. s[m] \in before /\ before # {}
    BY <1>6, <2>1
  <2>7. \A k \in T : s[k].lower <= s[m].lower /\ (s[k].lower = s[m].lower => k = m)
    BY <1>3, <1>4, <2>1, <2>2
  <2>8. \A j \in before : j.lower <= s[m].lower
    BY <1>6, <2>7
  <2>9. ASSUME NEW i \in before, \A j \in before : j.lower <= i.lower PROVE i = s[m]
    <3>1. PICK k \in T : i = s[k]
      BY <1>6
    <3>2. s[m].lower <= s[k].lower /\ s[k].lower <= s[m].lower
      BY <2>6, <2>7, <2>9, <3>1
    <3>3. s[k].lower = s[m].lower
      BY <1>3, <2>2, <3>1, <3>2
    <3> QED
      BY <2>7, <3>1, <3>3
  <2>10. (CHOOSE i \in before : \A j \in before : j.lower <= i.lower) = s[m]
    BY <2>6, <2>8, <2>9
  <2> QED
    BY <2>5, <2>6, <2>10 DEF before
<1> QED
  BY <1>7, <1>8

\* An instance that is seen keeps its place and its bounds.
LEMMA SeenKeepsTheChain ==
    ASSUME NEW s \in Seq(Instances), Successive(s), NEW t \in Seq(Instances),
           DOMAIN t = DOMAIN s,
           \A k \in DOMAIN s : t[k].lower = s[k].lower /\ t[k].upper = s[k].upper,
           \A k \in DOMAIN s : IsInjective(t[k].dns)
    PROVE  Successive(t)
<1>1. \A j, k \in DOMAIN t : j < k => t[k].lower < t[j].lower
  BY DEF Successive
<1>2. ASSUME NEW k \in DOMAIN t PROVE t[k].upper = IF k = 1 THEN 0 ELSE t[k - 1].lower
  <2>1. DOMAIN s = 1 .. Len(s) /\ Len(s) \in Nat
    BY LenProperties
  <2>2. k # 1 => k - 1 \in DOMAIN s
    BY <2>1
  <2> QED
    BY <1>2, <2>2 DEF Successive
<1> QED
  BY <1>1, <1>2 DEF Successive

\* Marking the instances as seen keeps their order and their answers.
LEMMA TouchKeepsTheChain ==
    ASSUME NEW s \in Seq(Instances), Successive(s), NEW now \in Nat
    PROVE  Touched(s, now) \in Seq(Instances) /\ Successive(Touched(s, now))
<1>1. PICK n \in Nat : n = Len(s) /\ DOMAIN s = 1 .. n
  BY LenProperties
<1>2. \A k \in 1 .. n : s[k] \in Instances
  BY <1>1, ElementOfSeq
<1>3. PICK t : t = Touched(s, now)
  OBVIOUS
<1>4. t = [k \in 1 .. n |-> [s[k] EXCEPT !.seen = now]]
  BY <1>1, <1>3 DEF Touched
<1>5. \A k \in 1 .. n : /\ [s[k] EXCEPT !.seen = now] \in Instances
                        /\ [s[k] EXCEPT !.seen = now].lower = s[k].lower
                        /\ [s[k] EXCEPT !.seen = now].upper = s[k].upper
                        /\ [s[k] EXCEPT !.seen = now].dns = s[k].dns
  BY <1>2 DEF Instances
<1>6. t \in [1 .. n -> Instances] /\ \A k \in 1 .. n : t[k] = [s[k] EXCEPT !.seen = now]
  BY <1>4, <1>5
<1>7. t \in Seq(Instances)
  BY <1>6, SeqDef
<1>8. DOMAIN t = DOMAIN s
  BY <1>1, <1>6
<1>9. /\ \A k \in DOMAIN s : t[k].lower = s[k].lower /\ t[k].upper = s[k].upper
      /\ \A k \in DOMAIN s : IsInjective(t[k].dns)
  BY <1>1, <1>5, <1>6 DEF Successive
<1> QED
  BY <1>3, <1>7, <1>8, <1>9, SeenKeepsTheChain

\* An answer that is new makes room for itself, kept or not.
LEMMA AnswersStayDistinct ==
    ASSUME NEW dns \in Seq(Answers), IsInjective(dns), NEW answer \in Answers,
           answer \notin ToSet(dns), NEW kept \in BOOLEAN
    PROVE  LET after == Trimmed(dns) \o IF kept THEN <<answer>> ELSE <<>>
           IN after \in Seq(Answers) /\ IsInjective(after)
<1>1. PICK d : d = Trimmed(dns)
  OBVIOUS
<1>2. d \in Seq(Answers) /\ IsInjective(d) /\ answer \notin ToSet(d)
  <2>1. CASE Len(dns) >= DnsLimit
    <3>1. dns # <<>> /\ d = Tail(dns)
      BY <1>1, <2>1, StoreAssumption, EmptySeq DEF Trimmed
    <3> QED
      BY <3>1, TailDistinct
  <2>2. CASE ~(Len(dns) >= DnsLimit)
    BY <1>1, <2>2 DEF Trimmed
  <2> QED
    BY <2>1, <2>2
<1>3. d \o <<answer>> = Append(d, answer) /\ d \o <<>> = d
  BY <1>2
<1>4. Append(d, answer) \in Seq(Answers) /\ IsInjective(Append(d, answer))
  BY <1>2, AppendDistinct
<1> QED
  BY <1>1, <1>2, <1>3, <1>4

-----------------------------------------------------------------------------
(* The store.                                                              *)

\* What a source holds between its steps.
SourceSound(w) ==
    /\ w.at \in {"ask", "insert"} => w.pid \in StorePids
    /\ w.at = "insert" => w.create \in Nat

\* The types of the store, its clock and its sources.
StoreTypes ==
    /\ clock \in Nat /\ alive \in [StorePids -> Nat]
    /\ storeNode \in StoreNodes /\ storeHeap \in Seq(Activities) /\ swept \in Nat
    /\ unrecorded \in SUBSET StorePids
    /\ source = [s \in Sources |-> source[s]]
    /\ \A s \in Sources : SourceSound(source[s])

\* The ids whose node the heap has the latest activity of, if there is a node.
Known == StorePids \ unrecorded

\* None of their nodes is older than the window was at the latest eviction.
NoneDue ==
    \A pid \in Known : Stored(pid) => storeNode[pid].last + StaleWindow >= swept

\* Every node has its instances in order.
NodesInOrder == \A pid \in StorePids : Successive(storeNode[pid].instances)

StoreInv == StoreTypes /\ HeapKnows(storeNode, storeHeap, Known) /\ NoneDue /\ NodesInOrder

\* An empty store is in order.
LEMMA StoreInitially == StoreInit => StoreInv
<1> SUFFICES ASSUME StoreInit PROVE StoreInv
  OBVIOUS
<1>1. NoNode \in [last : Nat, instances : Seq(Instances)] /\ NoNode.instances = <<>>
  BY EmptySeq DEF NoNode
<1>2. storeNode \in StoreNodes /\ \A pid \in StorePids : storeNode[pid] = NoNode
  BY <1>1 DEF StoreInit, StoreNodes
<1>3. \A s \in Sources : SourceSound(source[s])
  BY DEF StoreInit, SourceSound
<1>4. <<>> \in Seq(Activities) /\ Len(<<>>) = 0
  BY EmptySeq
<1>5. StoreTypes
  BY <1>2, <1>3, <1>4 DEF StoreInit, StoreTypes
<1>6. HeapKnows(storeNode, storeHeap, Known) /\ NoneDue
  BY <1>1, <1>2, <1>4 DEF StoreInit, HeapKnows, IsHeap, NoneDue, Stored, Known
<1>7. Successive(<<>>)
  BY <1>4 DEF Successive
<1>8. NodesInOrder
  BY <1>1, <1>2, <1>7 DEF NodesInOrder
<1> QED
  BY <1>5, <1>6, <1>8 DEF StoreInv

\* An activity and its eviction, whatever they were about.
LEMMA SweepKeeps ==
    ASSUME StoreInv, NEW pid \in StorePids, NEW now \in Nat, NEW r \in Seq(Instances),
           Successive(r), NEW memory \in BOOLEAN,
           Swept([storeNode EXCEPT ![pid] = [last |-> now, instances |-> r]],
                 pid, now, memory)
    PROVE  /\ storeNode' \in StoreNodes /\ storeHeap' \in Seq(Activities) /\ swept' \in Nat
           /\ unrecorded' \in SUBSET StorePids
           /\ HeapKnows(storeNode', storeHeap', Known')
           /\ NoneDue' /\ NodesInOrder'
<1>1. PICK nodes : nodes = [storeNode EXCEPT ![pid] = [last |-> now, instances |-> r]]
  OBVIOUS
<1>2. /\ nodes \in StoreNodes
      /\ nodes[pid] = [last |-> now, instances |-> r]
      /\ \A q \in StorePids : q # pid => nodes[q] = storeNode[q]
  BY <1>1 DEF StoreInv, StoreTypes, StoreNodes
<1>4. PICK g \in Seq(Activities) : g = storeHeap
  BY DEF StoreInv, StoreTypes
<1>5. PICK h \in Seq(Activities) :
         /\ h = Recorded(g, pid, now, memory) /\ IsHeap(h, Len(h))
         /\ \/ memory = TRUE /\ ToSet(h) = ToSet(g) \cup {[time |-> now, pid |-> pid]}
            \/ memory = FALSE /\ ToSet(h) = ToSet(g)
  <2>1. IsHeap(g, Len(g))
    BY <1>4 DEF StoreInv, HeapKnows
  <2> QED
    BY <2>1, RecordedIsAHeap
<1>3. h = Recorded(storeHeap, pid, now, memory)
  BY <1>4, <1>5
<1>0. PICK known \in SUBSET StorePids :
         /\ known = Known' /\ unrecorded' \in SUBSET StorePids
         /\ memory = FALSE => pid \notin known
         /\ \A q \in known : q # pid => q \in Known
  <2>1. unrecorded \in SUBSET StorePids
    BY DEF StoreInv, StoreTypes
  <2>2. \/ memory = TRUE /\ unrecorded' = unrecorded \ {pid}
        \/ memory = FALSE /\ unrecorded' = unrecorded \cup {pid}
    BY DEF Swept
  <2> QED
    BY <2>1, <2>2 DEF Known
<1>6. HeapKnows(nodes, h, known)
  <2>1. ASSUME NEW q \in known, nodes[q].instances # <<>>
        PROVE  [time |-> nodes[q].last, pid |-> q] \in ToSet(h)
    <3>1. CASE q = pid
      BY <1>0, <1>2, <1>5, <3>1
    <3>2. CASE q # pid
      BY <1>0, <1>2, <1>4, <1>5, <2>1, <3>2 DEF StoreInv, HeapKnows
    <3> QED
      BY <3>1, <3>2
  <2> QED
    BY <1>5, <2>1 DEF HeapKnows
<1>7. PICK t \in Stores :
         /\ Evicted(nodes, h, now) = t
         /\ HeapKnows(t.nodes, t.heap, known)
         /\ FewerNodes(t.nodes, nodes)
         /\ \A q \in known :
               t.nodes[q].instances # <<>> => t.nodes[q].last + StaleWindow >= now
  <2>1. nodes \in StoreNodes
    BY <1>2
  <2> QED
    BY ONLY <2>1, h \in Seq(Activities), known \in SUBSET StorePids, now \in Nat, <1>6,
            EvictionSweeps
<1>8. storeNode' = t.nodes /\ storeHeap' = t.heap /\ swept' = now
  BY <1>1, <1>3, <1>7 DEF Swept
<1>9. t.nodes \in StoreNodes /\ t.heap \in Seq(Activities)
  BY DEF Stores
<1>10. NoneDue'
  BY <1>0, <1>7, <1>8 DEF NoneDue, Stored
<1>11. \A q \in StorePids : Successive(nodes[q].instances)
  BY <1>2 DEF StoreInv, NodesInOrder
<1>12. Successive(NoNode.instances)
  <2>1. NoNode.instances = <<>>
    BY DEF NoNode
  <2> QED
    BY <2>1, EmptySeq DEF Successive
<1>13. \A q \in StorePids : Successive(t.nodes[q].instances)
  BY <1>7, <1>11, <1>12 DEF FewerNodes
<1>14. NodesInOrder'
  BY <1>8, <1>13 DEF NodesInOrder
<1> QED
  BY <1>0, <1>7, <1>8, <1>9, <1>10, <1>14

\* What a node holds.
LEMMA NodeTypes ==
    ASSUME StoreInv, NEW pid \in StorePids
    PROVE  storeNode[pid].instances \in Seq(Instances) /\ Successive(storeNode[pid].instances)
BY DEF StoreInv, StoreTypes, StoreNodes, NodesInOrder

\* A lookup writes an entry for a node that its instance is stored in.
LEMMA LookupKeeps ==
    ASSUME StoreInv, NEW s \in Sources, NEW pid \in StorePids, NEW time \in Nat,
           NEW memory \in BOOLEAN, CollectLooksUp(s, pid, time, memory)
    PROVE  StoreInv'
<1>1. PICK found : found = Selected(storeNode[pid].instances, time)
  OBVIOUS
<1>2. /\ LookupRecords(pid, found, memory)
      /\ source' = IF found # <<>> THEN source
                   ELSE [source EXCEPT ![s] = [at |-> "ask", pid |-> pid]]
      /\ UNCHANGED <<clock, alive>>
  BY <1>1 DEF CollectLooksUp
<1>3. SourceSound([at |-> "ask", pid |-> pid])
  BY DEF SourceSound
<1>4. /\ source' = [t \in Sources |-> source'[t]]
      /\ \A t \in Sources : SourceSound(source'[t])
  BY <1>2, <1>3 DEF StoreInv, StoreTypes
<1>5. PICK g \in Seq(Activities) : g = storeHeap
  BY DEF StoreInv, StoreTypes
<1>6. UNCHANGED <<storeNode, swept, unrecorded>>
  BY <1>2 DEF LookupRecords
<1>7. storeHeap' \in Seq(Activities) /\ HeapKnows(storeNode, storeHeap', Known)
  <2>1. CASE found = <<>>
    <3>1. storeHeap' = storeHeap
      BY <1>2, <2>1 DEF LookupRecords
    <3> QED
      BY <3>1 DEF StoreInv, StoreTypes
  <2>2. CASE found # <<>>
    <3>1. PICK i \in Instances : found = <<i>>
      BY <1>1, <2>2, NodeTypes, SelectedIsStored
    <3>2. PICK seen \in Nat : seen = found[1].seen
      BY <3>1 DEF Instances
    <3>4. IsHeap(g, Len(g))
      BY <1>5 DEF StoreInv, HeapKnows
    <3>3. PICK h \in Seq(Activities) :
             /\ h = Recorded(g, pid, seen, memory) /\ IsHeap(h, Len(h))
             /\ \/ memory = TRUE /\ ToSet(h) = ToSet(g) \cup {[time |-> seen, pid |-> pid]}
                \/ memory = FALSE /\ ToSet(h) = ToSet(g)
      BY <3>4, RecordedIsAHeap
    <3>5. /\ h \in Seq(Activities) /\ IsHeap(h, Len(h))
          /\ \A x \in ToSet(g) : x \in ToSet(h)
      BY <3>3
    <3>6. storeHeap' = h
      BY <1>2, <1>5, <2>2, <3>2, <3>3 DEF LookupRecords
    <3>7. HeapKnows(storeNode, h, Known)
      BY <1>5, <3>5 DEF StoreInv, HeapKnows
    <3> QED
      BY <3>5, <3>6, <3>7
  <2> QED
    BY <2>1, <2>2
<1>8. StoreTypes'
  BY <1>2, <1>4, <1>6, <1>7 DEF StoreInv, StoreTypes
<1>9. HeapKnows(storeNode, storeHeap, Known)'
  BY <1>6, <1>7 DEF Known
<1>10. NoneDue' /\ NodesInOrder'
  BY <1>6 DEF StoreInv, NoneDue, Stored, NodesInOrder, Known
<1> QED
  BY <1>8, <1>9, <1>10 DEF StoreInv

\* The question to the driver leaves the store alone; the answer is of the
\* process the source asked for.
LEMMA AskKeeps ==
    ASSUME StoreInv, NEW s \in Sources, CollectAsks(s)
    PROVE  StoreInv'
<1>1. UNCHANGED <<clock, alive, storeNode, storeHeap, swept, unrecorded>>
  BY DEF CollectAsks
<1>2. source[s].pid \in StorePids
  BY DEF CollectAsks, StoreInv, StoreTypes, SourceSound
<1>3. PICK w : source' = [source EXCEPT ![s] = w] /\ SourceSound(w)
  <2>1. SourceSound([at |-> "idle"])
    BY DEF SourceSound
  <2>2. \A c \in {0, alive[source[s].pid]} :
           SourceSound([at |-> "insert", pid |-> source[s].pid, create |-> c])
    BY <1>2 DEF SourceSound, StoreInv, StoreTypes
  <2>3. \/ source' = [source EXCEPT ![s] = [at |-> "idle"]]
        \/ \E c \in {0, alive[source[s].pid]} :
              source' = [source EXCEPT ![s] =
                            [at |-> "insert", pid |-> source[s].pid, create |-> c]]
    BY DEF CollectAsks
  <2> QED
    BY <2>1, <2>2, <2>3
<1>4. StoreTypes'
  BY <1>1, <1>3 DEF StoreInv, StoreTypes
<1> QED
  BY <1>1, <1>4 DEF StoreInv, NoneDue, Stored, NodesInOrder, Known

\* An answer that there is no memory for leaves the store alone.
LEMMA FailureKeeps ==
    ASSUME StoreInv, NEW s \in Sources, CollectFails(s)
    PROVE  StoreInv'
<1>1. UNCHANGED <<clock, alive, storeNode, storeHeap, swept, unrecorded>>
      /\ source' = [source EXCEPT ![s] = [at |-> "idle"]]
  BY DEF CollectFails
<1>2. SourceSound([at |-> "idle"])
  BY DEF SourceSound
<1>3. StoreTypes'
  BY <1>1, <1>2 DEF StoreInv, StoreTypes
<1> QED
  BY <1>1, <1>3 DEF StoreInv, NoneDue, Stored, NodesInOrder, Known

\* The answer goes to its place in the node, and its activity into the heap.
LEMMA InsertKeeps ==
    ASSUME StoreInv, NEW s \in Sources, NEW memory \in BOOLEAN, CollectInserts(s, memory)
    PROVE  StoreInv'
<1>1. PICK pid \in StorePids, create \in Nat : pid = source[s].pid /\ create = source[s].create
  BY DEF CollectInserts, StoreInv, StoreTypes, SourceSound
<1>2. InsertResponse(pid, create, memory) /\ UNCHANGED <<clock, alive>>
      /\ source' = [source EXCEPT ![s] = [at |-> "idle"]]
  BY <1>1 DEF CollectInserts
<1>3. PICK i : i = InsertedInOrder(storeNode[pid].instances, create, clock)
  OBVIOUS
<1>4. clock \in Nat
  BY DEF StoreInv, StoreTypes
<1>5. i \in Seq(Instances) /\ Successive(i)
  BY <1>3, <1>4, NodeTypes, InsertionKeepsTheChain
<1>6. PICK r : r = Touched(i, clock)
  OBVIOUS
<1>7. r \in Seq(Instances) /\ Successive(r)
  BY <1>4, <1>5, <1>6, TouchKeepsTheChain
<1>8. Swept([storeNode EXCEPT ![pid] = [last |-> clock, instances |-> r]], pid, clock, memory)
  BY <1>2, <1>3, <1>6 DEF InsertResponse
<1>9. /\ storeNode' \in StoreNodes /\ storeHeap' \in Seq(Activities) /\ swept' \in Nat
      /\ unrecorded' \in SUBSET StorePids
      /\ HeapKnows(storeNode', storeHeap', Known')
      /\ NoneDue' /\ NodesInOrder'
  BY <1>4, <1>7, <1>8, SweepKeeps
<1>10. SourceSound([at |-> "idle"])
  BY DEF SourceSound
<1>11. StoreTypes'
  BY <1>2, <1>9, <1>10 DEF StoreInv, StoreTypes
<1> QED
  BY <1>9, <1>11 DEF StoreInv

\* A new DNS answer takes its place among those of the instance.
LEMMA RememberKeeps ==
    ASSUME StoreInv, NEW pid \in StorePids, NEW time \in Nat, NEW answer \in Answers,
           NEW kept \in BOOLEAN, NEW memory \in BOOLEAN,
           RememberDns(pid, time, answer, kept, memory)
    PROVE  StoreInv'
<1>1. PICK s \in Seq(Instances) : s = storeNode[pid].instances /\ Successive(s)
  BY NodeTypes
<1>2. PICK found : found = Selected(s, time)
  OBVIOUS
<1>3. PICK now \in Nat : now = IF time = 0 THEN clock ELSE time
  BY DEF StoreInv, StoreTypes
<1>4. found # <<>> /\ answer \notin ToSet(found[1].dns)
  BY <1>1, <1>2 DEF RememberDns
<1>5. PICK k : k = CHOOSE j \in DOMAIN s : s[j] = found[1]
  OBVIOUS
<1>6. k \in DOMAIN s /\ s[k] = found[1]
  <2>1. PICK m \in DOMAIN s : found = <<s[m]>>
    BY <1>2, <1>4, SelectedIsStored
  <2>2. s[m] = found[1]
    BY <2>1
  <2> QED
    BY <1>5, <2>2
<1>7. PICK x \in Instances : x = s[k] /\ k \in 1 .. Len(s) /\ DOMAIN s = 1 .. Len(s)
  BY <1>6, LenProperties, ElementOfSeq
<1>8. PICK d \in Seq(Answers) :
         d = Trimmed(x.dns) \o (IF kept THEN <<answer>> ELSE <<>>) /\ IsInjective(d)
  <2>1. x.dns \in Seq(Answers) /\ IsInjective(x.dns) /\ answer \notin ToSet(x.dns)
    BY <1>1, <1>4, <1>6, <1>7 DEF Instances, Successive
  <2> QED
    BY <2>1, AnswersStayDistinct
<1>9. PICK y : y = [x EXCEPT !.dns = d, !.seen = now]
  OBVIOUS
<1>10. y \in Instances /\ y.lower = x.lower /\ y.upper = x.upper /\ y.dns = d
  BY <1>9 DEF Instances
<1>11. PICK r : r = [s EXCEPT ![k] = y]
  OBVIOUS
<1>12. /\ r \in Seq(Instances) /\ Len(r) = Len(s)
       /\ \A j \in 1 .. Len(s) : r[j] = IF j = k THEN y ELSE s[j]
  BY <1>7, <1>10, <1>11, ExceptSeq
<1>13. Successive(r)
  <2>1. DOMAIN r = DOMAIN s
    BY <1>7, <1>12, LenProperties
  <2>2. \A j \in DOMAIN s : r[j].lower = s[j].lower /\ r[j].upper = s[j].upper
    BY <1>7, <1>10, <1>12
  <2>3. \A j \in DOMAIN s : IsInjective(r[j].dns)
    BY <1>1, <1>7, <1>8, <1>10, <1>12 DEF Successive
  <2> QED
    BY <1>1, <1>12, <2>1, <2>2, <2>3, SeenKeepsTheChain
<1>14. Swept([storeNode EXCEPT ![pid] = [last |-> now, instances |-> r]], pid, now, memory)
  <2>1. r = [s EXCEPT ![k].dns = Trimmed(@) \o IF kept THEN <<answer>> ELSE <<>>,
                      ![k].seen = now]
    BY <1>6, <1>7, <1>8, <1>9, <1>11
  <2> QED
    BY <1>1, <1>2, <1>3, <1>5, <2>1 DEF RememberDns
<1>15. /\ storeNode' \in StoreNodes /\ storeHeap' \in Seq(Activities) /\ swept' \in Nat
       /\ unrecorded' \in SUBSET StorePids
       /\ HeapKnows(storeNode', storeHeap', Known')
       /\ NoneDue' /\ NodesInOrder'
  BY <1>12, <1>13, <1>14, SweepKeeps
<1>16. UNCHANGED <<clock, alive, source>>
  BY DEF RememberDns
<1>17. StoreTypes'
  BY <1>15, <1>16 DEF StoreInv, StoreTypes
<1> QED
  BY <1>15, <1>17 DEF StoreInv

\* A cleaned store is empty.
LEMMA CleanKeeps == StoreInv /\ CleanStore => StoreInv'
<1> SUFFICES ASSUME StoreInv, CleanStore PROVE StoreInv'
  OBVIOUS
<1>1. NoNode \in [last : Nat, instances : Seq(Instances)] /\ NoNode.instances = <<>>
  BY EmptySeq DEF NoNode
<1>2. storeNode' \in StoreNodes /\ \A pid \in StorePids : storeNode'[pid] = NoNode
  BY <1>1 DEF CleanStore, StoreNodes
<1>3. <<>> \in Seq(Activities) /\ Len(<<>>) = 0
  BY EmptySeq
<1>4. StoreTypes'
  BY <1>2, <1>3 DEF StoreInv, CleanStore, StoreTypes
<1>5. HeapKnows(storeNode, storeHeap, Known)' /\ NoneDue'
  BY <1>1, <1>2, <1>3 DEF CleanStore, HeapKnows, IsHeap, NoneDue, Stored, Known
<1>6. Successive(<<>>)
  BY <1>3 DEF Successive
<1>7. NodesInOrder'
  BY <1>1, <1>2, <1>6 DEF NodesInOrder
<1> QED
  BY <1>4, <1>5, <1>7 DEF StoreInv

\* StoreInv is inductive.
LEMMA StoreStep == StoreInv /\ [StoreNext]_storeVars => StoreInv'
<1> SUFFICES ASSUME StoreInv, [StoreNext]_storeVars PROVE StoreInv'
  OBVIOUS
<1>0. clock \in Nat /\ \A time \in 0 .. clock : time \in Nat
  BY DEF StoreInv, StoreTypes
<1>1. ASSUME NEW s \in Sources, NEW pid \in StorePids, NEW time \in 0 .. clock,
             NEW memory \in BOOLEAN, CollectLooksUp(s, pid, time, memory)
      PROVE  StoreInv'
  BY <1>0, <1>1, LookupKeeps
<1>2. ASSUME NEW s \in Sources, CollectAsks(s) PROVE StoreInv'
  BY <1>2, AskKeeps
<1>3. ASSUME NEW s \in Sources, NEW memory \in BOOLEAN, CollectInserts(s, memory)
      PROVE  StoreInv'
  BY <1>3, InsertKeeps
<1>9. ASSUME NEW s \in Sources, CollectFails(s) PROVE StoreInv'
  BY <1>9, FailureKeeps
<1>4. ASSUME NEW pid \in StorePids, NEW time \in 0 .. clock, NEW answer \in Answers,
             NEW kept \in BOOLEAN, NEW memory \in BOOLEAN,
             RememberDns(pid, time, answer, kept, memory)
      PROVE  StoreInv'
  BY <1>0, <1>4, RememberKeeps
<1>5. ASSUME NEW pid \in StorePids, StartProcess(pid) PROVE StoreInv'
  BY <1>5 DEF StartProcess, StoreInv, StoreTypes, NoneDue, Stored, NodesInOrder, Known
<1>6. CASE TickTime
  BY <1>6 DEF TickTime, StoreInv, StoreTypes, NoneDue, Stored, NodesInOrder, Known
<1>7. CASE CleanStore
  BY <1>7, CleanKeeps
<1>8. CASE UNCHANGED storeVars
  BY <1>8 DEF storeVars, StoreInv, StoreTypes, NoneDue, Stored, NodesInOrder, Known
<1> QED
  BY <1>1, <1>2, <1>3, <1>4, <1>5, <1>6, <1>7, <1>8, <1>9 DEF StoreNext

\* ... and holds throughout.
LEMMA StoreInvHolds == StoreSpec => []StoreInv
BY StoreInitially, StoreStep, PTL DEF StoreSpec

\* The hand-written heap stays one through every insertion and eviction, keeps
\* an entry for the latest activity of each node, and after an eviction no node
\* is left that was due (process_store.cpp 181-261, 354-418): for any ids,
\* sources, answers, window and length of the run, and up to the nodes whose
\* latest activity found no memory (361-363).
THEOREM StoreIsAlwaysSwept == StoreSpec => []StoreIsSwept
<1>1. StoreInv => StoreIsSwept
  BY DEF StoreInv, HeapKnows, IsHeap, NoneDue, StoreIsSwept, Stored, Known
<1> QED
  BY <1>1, StoreInvHolds, PTL

\* A lookup finds, of the processes stored for an id, the one created last
\* before the time asked for, in whatever order the sources inserted them, and
\* no DNS answer is remembered twice (process_store.cpp 464-560, 638-719).
THEOREM LookupAlwaysFindsTheInstance == StoreSpec => []LookupFindsTheInstance
<1>1. ASSUME StoreInv PROVE LookupFindsTheInstance
  <2> SUFFICES ASSUME NEW pid \in StorePids
               PROVE  LET instances == storeNode[pid].instances
                          before(time) == {i \in ToSet(instances) : i.lower <= time}
                      IN /\ \A k \in DOMAIN instances : IsInjective(instances[k].dns)
                         /\ \A time \in 1 .. MaxTime :
                              IF before(time) = {} THEN Selected(instances, time) = <<>>
                              ELSE Selected(instances, time) =
                                   <<CHOOSE i \in before(time) :
                                       \A j \in before(time) : j.lower <= i.lower>>
    BY DEF LookupFindsTheInstance
  <2>1. PICK s \in Seq(Instances) : s = storeNode[pid].instances /\ Successive(s)
    BY <1>1, NodeTypes
  <2>2. \A k \in DOMAIN s : IsInjective(s[k].dns)
    BY <2>1 DEF Successive
  <2>3. ASSUME NEW time \in 1 .. MaxTime
        PROVE  LET before == {i \in ToSet(s) : i.lower <= time}
               IN IF before = {} THEN Selected(s, time) = <<>>
                  ELSE Selected(s, time) =
                          <<CHOOSE i \in before : \A j \in before : j.lower <= i.lower>>
    <3>1. time \in Nat \ {0}
      BY StoreAssumption
    <3>2. Successive(s)
      BY <2>1
    <3> QED
      BY ONLY s \in Seq(Instances), <3>1, <3>2, ChainsAnswer
  <2> QED
    BY <2>1, <2>2, <2>3
<1> QED
  BY <1>1, StoreInvHolds, PTL

=============================================================================
