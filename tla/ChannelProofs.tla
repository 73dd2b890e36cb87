----------------------------- MODULE ChannelProofs -----------------------------
(***************************************************************************)
(* The safety of the driver's two channels: the events that go to the      *)
(* service, and the questions that the driver asks it.                     *)
(***************************************************************************)
EXTENDS EventChannel, QueryChannel, SequenceLemmas

(***************************************************************************)
(* A late answer and the timeout of its asker cross safely, for any number *)
(* of askers and workers and any length of the queue.                      *)
(*                                                                         *)
(* That the record an answer has found is still on its asker's stack when  *)
(* its event is set rests on the lock: the worker between the two has it   *)
(* (LockIsHeld), and an asker leaves only without it.  That the answer is  *)
(* the asker's own rests on the request ids, which are given out once      *)
(* (IdsAreDistinct): a signal sets the event of one record only.           *)
(***************************************************************************)

AskerStates == [at : {"out", "send", "enqueue", "wait", "leave"},
                status : {"none", "failed", "answered", "timeout"}]
WorkerStates == [at : {"idle", "answer", "signal", "pend", "pended"}, id : Nat]
Records == [id : Nat, linked : BOOLEAN, result : Nat, signalled : BOOLEAN]

QueryTyped ==
    /\ nextQuery \in Nat
    /\ asker \in [Askers -> AskerStates]
    /\ pendingQuery \in [Askers -> Records]
    /\ queryLock \in QueryWorkers \cup {"free"}
    /\ queryQueue \in Seq(Nat)
    /\ pendedQuery \in Seq(QueryWorkers)
    /\ queryWorker \in [QueryWorkers -> WorkerStates]
    /\ told \in [Askers -> [id : Nat, status : {"none", "failed", "answered", "timeout"},
                            result : Nat]]

\* An asker has a request id during its call, and no two have the same.
IdsAreDistinct ==
    /\ \A a \in Askers : /\ pendingQuery[a].id <= nextQuery
                         /\ asker[a].at = "out" <=> pendingQuery[a].id = 0
                         /\ pendingQuery[a].linked => pendingQuery[a].id # 0
    /\ \A a, b \in Askers : a # b /\ pendingQuery[a].id = pendingQuery[b].id
                              => pendingQuery[a].id = 0

\* A worker whose request is pended waits, and has one request.
PendedOnesWait ==
    /\ IsInjective(pendedQuery)
    /\ \A w \in ToSet(pendedQuery) : queryWorker[w].at = "pended"

\* The worker between the record and its event has the lock, and the record.
LockIsHeld ==
    \A w \in QueryWorkers : queryWorker[w].at = "signal" =>
        /\ queryLock = w
        /\ queryWorker[w].id # 0
        /\ \E a \in Askers : /\ pendingQuery[a].id = queryWorker[w].id
                             /\ pendingQuery[a].result = pendingQuery[a].id

\* What an asker is told was put into its record before the signal.
SignalledIsAnswered ==
    /\ \A a \in Askers :
          /\ pendingQuery[a].signalled => pendingQuery[a].result = pendingQuery[a].id
          /\ asker[a].at = "leave" /\ asker[a].status = "answered" => pendingQuery[a].signalled
    /\ \A a \in Askers : told[a].status = "answered" => told[a].result = told[a].id

QueryInv ==
    /\ QueryTyped /\ IdsAreDistinct /\ PendedOnesWait /\ LockIsHeld /\ SignalledIsAnswered

USE DEF Gone

LEMMA QueryInitially == QueryInit => QueryInv
<1> SUFFICES ASSUME QueryInit PROVE QueryInv
  OBVIOUS
<1>1. QueryTyped
  BY DEF QueryInit, QueryTyped, AskerStates, WorkerStates, Records
<1>2. IdsAreDistinct /\ LockIsHeld /\ SignalledIsAnswered
  BY DEF QueryInit, IdsAreDistinct, LockIsHeld, SignalledIsAnswered
<1>3. PendedOnesWait
  BY DEF QueryInit, PendedOnesWait, IsInjective, ToSet
<1> QED BY <1>1, <1>2, <1>3 DEF QueryInv

-----------------------------------------------------------------------------
(* Types.                                                                  *)

\* What a move does to the places of askers and workers.
LEMMA MovesAreTyped ==
    /\ \A a \in Askers, to \in {"out", "send", "enqueue", "wait", "leave"} :
         asker \in [Askers -> AskerStates] /\ AskerMoves(a, to)
           => asker' \in [Askers -> AskerStates]
    /\ \A w \in QueryWorkers, id \in Nat,
         to \in {"idle", "answer", "signal", "pend", "pended"} :
           queryWorker \in [QueryWorkers -> WorkerStates] /\ WorkerMoves(w, to, id)
             => queryWorker' \in [QueryWorkers -> WorkerStates]
<1>1. ASSUME NEW a \in Askers, NEW to \in {"out", "send", "enqueue", "wait", "leave"},
             asker \in [Askers -> AskerStates], AskerMoves(a, to)
      PROVE  asker' \in [Askers -> AskerStates]
  BY <1>1 DEF AskerMoves, AskerStates
<1>2. ASSUME NEW w \in QueryWorkers, NEW id \in Nat,
             NEW to \in {"idle", "answer", "signal", "pend", "pended"},
             queryWorker \in [QueryWorkers -> WorkerStates], WorkerMoves(w, to, id)
      PROVE  queryWorker' \in [QueryWorkers -> WorkerStates]
  BY <1>2 DEF WorkerMoves, WorkerStates
<1> QED BY <1>1, <1>2

LEMMA QueryTypedStep == QueryTyped /\ [QueryNext]_queryVars => QueryTyped'
<1> SUFFICES ASSUME QueryTyped, [QueryNext]_queryVars PROVE QueryTyped'
  OBVIOUS
<1> USE DEF QueryTyped
<1>1. ASSUME NEW a \in Askers, Ask(a) PROVE QueryTyped'
  <2>1. pendingQuery' \in [Askers -> Records]
    BY <1>1 DEF Ask, Records
  <2> QED BY <1>1, <2>1, MovesAreTyped DEF Ask
<1>2. ASSUME NEW a \in Askers, SendQuery(a) PROVE QueryTyped'
  <2>1. pendedQuery # <<>> => Tail(pendedQuery) \in Seq(QueryWorkers)
                              /\ Head(pendedQuery) \in QueryWorkers
    BY TailDistinct
  <2>2. pendingQuery[a].id \in Nat
    BY DEF Records
  <2>3. asker' \in [Askers -> AskerStates]
    BY <1>2, MovesAreTyped DEF SendQuery
  <2>4. queryWorker' \in [QueryWorkers -> WorkerStates] /\ pendedQuery' \in Seq(QueryWorkers)
    BY <1>2, <2>1, <2>2, MovesAreTyped DEF SendQuery
  <2> QED BY <1>2, <2>3, <2>4 DEF SendQuery
<1>3. ASSUME NEW a \in Askers, EnqueueQuery(a) PROVE QueryTyped'
  <2>1. queryQueue # <<>> => Tail(queryQueue) \in Seq(Nat)
    BY TailDistinct
  <2>2. ~(Len(queryQueue) < QueryQueueSize) => queryQueue # <<>>
    BY QueryAssumption
  <2>3. (IF Len(queryQueue) < QueryQueueSize THEN queryQueue ELSE Tail(queryQueue)) \in Seq(Nat)
    BY <2>1, <2>2
  <2>4. pendingQuery[a].id \in Nat
    BY DEF Records
  <2>5. queryQueue' \in Seq(Nat)
    <3> DEFINE kept == IF Len(queryQueue) < QueryQueueSize THEN queryQueue ELSE Tail(queryQueue)
    <3>1. queryQueue' = Append(kept, pendingQuery[a].id) \/ queryQueue' = queryQueue
      BY <1>3 DEF EnqueueQuery
    <3>2. kept \in Seq(Nat)
      BY <2>3
    <3> HIDE DEF kept
    <3>3. Append(kept, pendingQuery[a].id) \in Seq(Nat)
      BY <3>2, <2>4, AppendProperties
    <3> QED BY <3>1, <3>3
  <2>6. asker' \in [Askers -> AskerStates]
    <3>1. CASE AskerMoves(a, "wait")
      BY <3>1, MovesAreTyped
    <3>2. CASE asker' = [asker EXCEPT ![a] = [at |-> "leave", status |-> "failed"]]
      BY <3>2 DEF AskerStates
    <3> QED BY <1>3, <3>1, <3>2 DEF EnqueueQuery
  <2> QED BY <1>3, <2>5, <2>6 DEF EnqueueQuery
<1>4. ASSUME NEW a \in Askers, WaitQuery(a) PROVE QueryTyped'
  <2>1. asker' \in [Askers -> AskerStates]
    BY <1>4 DEF WaitQuery, AskerStates
  <2> QED BY <1>4, <2>1 DEF WaitQuery
<1>5. ASSUME NEW a \in Askers, LeaveQuery(a) PROVE QueryTyped'
  <2>1. asker' \in [Askers -> AskerStates] /\ pendingQuery' \in [Askers -> Records]
    BY <1>5 DEF LeaveQuery, AskerStates, Records
  <2>2. told' \in [Askers -> [id : Nat, status : {"none", "failed", "answered", "timeout"},
                              result : Nat]]
    BY <1>5 DEF LeaveQuery, AskerStates, Records
  <2> QED BY <1>5, <2>1, <2>2 DEF LeaveQuery
<1>6. ASSUME NEW w \in QueryWorkers, TakeQuery(w) PROVE QueryTyped'
  <2>1. queryQueue # <<>> => Tail(queryQueue) \in Seq(Nat) /\ Head(queryQueue) \in Nat
    BY TailDistinct
  <2>2. queryWorker' \in [QueryWorkers -> WorkerStates] /\ queryQueue' \in Seq(Nat)
    BY <1>6, <2>1, MovesAreTyped DEF TakeQuery
  <2> QED BY <1>6, <2>2 DEF TakeQuery
<1>7. ASSUME NEW w \in QueryWorkers, PendQuery(w) PROVE QueryTyped'
  <2>1. queryWorker' \in [QueryWorkers -> WorkerStates]
    BY <1>7, MovesAreTyped DEF PendQuery
  <2> QED BY <1>7, <2>1, AppendProperties DEF PendQuery
<1>8. ASSUME NEW w \in QueryWorkers, CancelQuery(w) PROVE QueryTyped'
  <2>1. \A i \in DOMAIN pendedQuery : RemoveAt(pendedQuery, i) \in Seq(QueryWorkers)
    BY RemoveDistinct
  <2>2. queryWorker' \in [QueryWorkers -> WorkerStates] /\ pendedQuery' \in Seq(QueryWorkers)
    BY <1>8, <2>1, MovesAreTyped DEF CancelQuery
  <2> QED BY <1>8, <2>2 DEF CancelQuery
<1>9. ASSUME NEW w \in QueryWorkers, AnswerQuery(w) PROVE QueryTyped'
  <2>1. CASE InPendingList(queryWorker[w].id) = {}
    BY <1>9, <2>1, MovesAreTyped DEF AnswerQuery
  <2>2. CASE InPendingList(queryWorker[w].id) # {}
    <3>1. queryWorker' = [queryWorker EXCEPT ![w].at = "signal"]
      BY <1>9, <2>2 DEF AnswerQuery
    <3>2. queryWorker' \in [QueryWorkers -> WorkerStates]
      BY <3>1 DEF WorkerStates
    <3>3. queryWorker[w].id \in Nat
      BY DEF WorkerStates
    <3>4. PICK a \in Askers : pendingQuery' = [pendingQuery EXCEPT ![a] =
              [id |-> queryWorker[w].id, linked |-> FALSE, result |-> queryWorker[w].id,
               signalled |-> pendingQuery[a].signalled]]
      BY <1>9, <2>2 DEF AnswerQuery, InPendingList
    <3>5. pendingQuery[a].signalled \in BOOLEAN
      BY DEF Records
    <3>6. pendingQuery' \in [Askers -> Records]
      BY <3>3, <3>4, <3>5 DEF Records
    <3> QED BY <1>9, <2>2, <3>2, <3>6 DEF AnswerQuery, LockStaysWith
  <2> QED BY <2>1, <2>2
<1>10. ASSUME NEW w \in QueryWorkers, SignalQuery(w) PROVE QueryTyped'
  <2>1. pendingQuery' \in [Askers -> Records]
    BY <1>10, ZenonT(30) DEF SignalQuery, Records
  <2>2. queryWorker' \in [QueryWorkers -> WorkerStates]
    BY <1>10, MovesAreTyped DEF SignalQuery
  <2> QED BY <1>10, <2>1, <2>2 DEF SignalQuery
<1>11. CASE UNCHANGED queryVars
  BY <1>11 DEF queryVars
<1> QED
  BY <1>1, <1>2, <1>3, <1>4, <1>5, <1>6, <1>7, <1>8, <1>9, <1>10, <1>11 DEF QueryNext

-----------------------------------------------------------------------------
(* The ids, the pended requests, the lock and the answers.                 *)

LEMMA QueryInvStep == QueryInv /\ [QueryNext]_queryVars => QueryInv'
<1> SUFFICES ASSUME QueryInv, [QueryNext]_queryVars PROVE QueryInv'
  OBVIOUS
<1>0. QueryTyped'
  BY QueryTypedStep DEF QueryInv
<1> SUFFICES (IdsAreDistinct /\ PendedOnesWait /\ LockIsHeld /\ SignalledIsAnswered)'
  BY <1>0 DEF QueryInv
<1> USE DEF QueryInv, QueryTyped, IdsAreDistinct, AskerMoves, WorkerMoves,
            AskerStates, WorkerStates, Records
<1>1. ASSUME NEW a \in Askers, Ask(a)
      PROVE (IdsAreDistinct /\ PendedOnesWait /\ LockIsHeld /\ SignalledIsAnswered)'
  <2> HIDE DEF IdsAreDistinct
  <2>6. /\ asker'[a].at = "send" /\ pendingQuery'[a].id = nextQuery + 1
        /\ nextQuery' = nextQuery + 1
        /\ \A b \in Askers : b # a => /\ asker'[b].at = asker[b].at
                                      /\ pendingQuery'[b] = pendingQuery[b]
    BY <1>1 DEF Ask
  <2>7. \A b \in Askers : pendingQuery[b].id \in Nat /\ pendingQuery[b].id <= nextQuery
    BY DEF IdsAreDistinct
  <2>8. nextQuery \in Nat
    OBVIOUS
  <2>1. IdsAreDistinct'
    <3> HIDE DEF QueryInv, QueryTyped, AskerStates, Records
    <3>0. IdsAreDistinct
      BY DEF QueryInv
    <3>1. \A b \in Askers : asker'[b].at = "out" <=> pendingQuery'[b].id = 0
      BY <3>0, <2>6, <2>7, <2>8 DEF IdsAreDistinct
    <3>2. \A b \in Askers : /\ pendingQuery'[b].id <= nextQuery'
                            /\ pendingQuery'[b].linked => pendingQuery'[b].id # 0
      BY <3>0, <2>6, <2>7, <2>8 DEF IdsAreDistinct
    <3>3. \A b, c \in Askers : b # c /\ pendingQuery'[b].id = pendingQuery'[c].id
                                 => pendingQuery'[b].id = 0
      BY <3>0, <2>6, <2>7, <2>8 DEF IdsAreDistinct
    <3> QED BY <3>1, <3>2, <3>3 DEF IdsAreDistinct
  <2>2. PendedOnesWait'
    BY <1>1 DEF Ask, PendedOnesWait
  <2>3. \A w \in QueryWorkers : queryWorker[w].at # "signal"
    BY <1>1, QueryAssumption DEF Ask, LockIsHeld
  <2>4. LockIsHeld'
    BY <1>1, <2>3 DEF Ask, LockIsHeld
  <2>5. SignalledIsAnswered'
    BY <1>1 DEF Ask, SignalledIsAnswered
  <2> QED BY <2>1, <2>2, <2>4, <2>5
<1>2. ASSUME NEW a \in Askers, SendQuery(a)
      PROVE (IdsAreDistinct /\ PendedOnesWait /\ LockIsHeld /\ SignalledIsAnswered)'
  <2> DEFINE h == Head(pendedQuery)
  <2>7. /\ UNCHANGED <<nextQuery, pendingQuery, queryLock, told>>
        /\ \A b \in Askers : /\ asker'[b].at = "out" <=> asker[b].at = "out"
                             /\ asker'[b].at = "leave" <=> asker[b].at = "leave"
                             /\ asker'[b].status = asker[b].status
    <3>1. PICK to \in {"enqueue", "wait"} : AskerMoves(a, to)
      BY <1>2 DEF SendQuery
    <3>2. asker[a].at = "send"
      BY <1>2 DEF SendQuery
    <3>3. \A b \in Askers : /\ asker'[b].at = "out" <=> asker[b].at = "out"
                            /\ asker'[b].at = "leave" <=> asker[b].at = "leave"
                            /\ asker'[b].status = asker[b].status
      BY <3>1, <3>2
    <3> QED BY <1>2, <3>3 DEF SendQuery
  <2>1. IdsAreDistinct'
    BY <2>7
  <2>2. pendedQuery # <<>> =>
          /\ h \in QueryWorkers /\ h \in ToSet(pendedQuery)
          /\ IsInjective(Tail(pendedQuery))
          /\ ToSet(Tail(pendedQuery)) = ToSet(pendedQuery) \ {h}
    BY TailDistinct DEF PendedOnesWait
  <2>3. ToSet(pendedQuery) \subseteq QueryWorkers
    BY DEF ToSet
  <2>4. PendedOnesWait'
    <3>1. CASE pendedQuery = <<>>
      BY <1>2, <3>1 DEF SendQuery, PendedOnesWait
    <3>2. CASE pendedQuery # <<>>
      BY <1>2, <2>2, <2>3, <3>2 DEF SendQuery, PendedOnesWait
    <3> QED BY <3>1, <3>2
  <2>5. LockIsHeld'
    <3>1. \A v \in QueryWorkers : queryWorker'[v].at = "signal" =>
             queryWorker[v].at = "signal" /\ queryWorker'[v] = queryWorker[v]
      <4>1. CASE pendedQuery = <<>>
        BY <1>2, <4>1 DEF SendQuery
      <4>2. CASE pendedQuery # <<>>
        BY <1>2, <2>2, <4>2 DEF SendQuery
      <4> QED BY <4>1, <4>2
    <3> QED BY <3>1, <2>7 DEF LockIsHeld
  <2>6. SignalledIsAnswered'
    BY <2>7 DEF SignalledIsAnswered
  <2> QED BY <2>1, <2>4, <2>5, <2>6
<1>3. ASSUME NEW a \in Askers, EnqueueQuery(a)
      PROVE (IdsAreDistinct /\ PendedOnesWait /\ LockIsHeld /\ SignalledIsAnswered)'
  <2>4. /\ UNCHANGED <<nextQuery, pendingQuery, queryLock, told>>
        /\ \A b \in Askers :
             /\ asker'[b].at = "out" <=> asker[b].at = "out"
             /\ asker'[b].at = "leave" /\ asker'[b].status = "answered" =>
                  asker[b].at = "leave" /\ asker[b].status = "answered"
    <3>1. CASE asker' = [asker EXCEPT ![a].at = "wait"]
      BY <1>3, <3>1 DEF EnqueueQuery
    <3>2. CASE asker' = [asker EXCEPT ![a] = [at |-> "leave", status |-> "failed"]]
      BY <1>3, <3>2 DEF EnqueueQuery
    <3> QED BY <1>3, <3>1, <3>2 DEF EnqueueQuery
  <2>1. IdsAreDistinct'
    BY <2>4
  <2>2. PendedOnesWait' /\ LockIsHeld'
    BY <1>3 DEF EnqueueQuery, PendedOnesWait, LockIsHeld
  <2>3. SignalledIsAnswered'
    BY <2>4 DEF SignalledIsAnswered
  <2> QED BY <2>1, <2>2, <2>3
<1>4. ASSUME NEW a \in Askers, WaitQuery(a)
      PROVE (IdsAreDistinct /\ PendedOnesWait /\ LockIsHeld /\ SignalledIsAnswered)'
  <2>1. IdsAreDistinct'
    BY <1>4 DEF WaitQuery
  <2>2. PendedOnesWait' /\ LockIsHeld'
    BY <1>4 DEF WaitQuery, PendedOnesWait, LockIsHeld
  <2>3. SignalledIsAnswered'
    BY <1>4 DEF WaitQuery, SignalledIsAnswered
  <2> QED BY <2>1, <2>2, <2>3
<1>5. ASSUME NEW a \in Askers, LeaveQuery(a)
      PROVE (IdsAreDistinct /\ PendedOnesWait /\ LockIsHeld /\ SignalledIsAnswered)'
  <2>1. IdsAreDistinct'
    BY <1>5 DEF LeaveQuery
  <2>2. \A w \in QueryWorkers : queryWorker[w].at # "signal"
    BY <1>5, QueryAssumption DEF LeaveQuery, LockIsHeld
  <2>3. PendedOnesWait' /\ LockIsHeld'
    BY <1>5, <2>2 DEF LeaveQuery, PendedOnesWait, LockIsHeld
  <2>4. SignalledIsAnswered'
    BY <1>5 DEF LeaveQuery, SignalledIsAnswered
  <2> QED BY <2>1, <2>3, <2>4
<1>6. ASSUME NEW w \in QueryWorkers, TakeQuery(w)
      PROVE (IdsAreDistinct /\ PendedOnesWait /\ LockIsHeld /\ SignalledIsAnswered)'
  <2>1. IdsAreDistinct' /\ SignalledIsAnswered'
    BY <1>6 DEF TakeQuery, SignalledIsAnswered
  <2>2. w \notin ToSet(pendedQuery)
    BY <1>6 DEF TakeQuery, PendedOnesWait
  <2>3. \A v \in ToSet(pendedQuery) : v \in QueryWorkers
    BY DEF ToSet
  <2>4. PendedOnesWait'
    BY <1>6, <2>2, <2>3 DEF TakeQuery, PendedOnesWait
  <2>5. LockIsHeld'
    <3>1. \A v \in QueryWorkers : queryWorker'[v].at = "signal" =>
             queryWorker[v].at = "signal" /\ queryWorker'[v] = queryWorker[v]
      BY <1>6 DEF TakeQuery
    <3> QED BY <1>6, <3>1 DEF TakeQuery, LockIsHeld
  <2> QED BY <2>1, <2>4, <2>5
<1>7. ASSUME NEW w \in QueryWorkers, PendQuery(w)
      PROVE (IdsAreDistinct /\ PendedOnesWait /\ LockIsHeld /\ SignalledIsAnswered)'
  <2>1. IdsAreDistinct' /\ SignalledIsAnswered'
    BY <1>7 DEF PendQuery, SignalledIsAnswered
  <2>2. w \notin ToSet(pendedQuery)
    BY <1>7 DEF PendQuery, PendedOnesWait
  <2>3. IsInjective(pendedQuery') /\ ToSet(pendedQuery') = ToSet(pendedQuery) \cup {w}
    BY <1>7, <2>2, AppendDistinct DEF PendQuery, PendedOnesWait
  <2>4. \A v \in ToSet(pendedQuery) : v \in QueryWorkers
    BY DEF ToSet
  <2>5. PendedOnesWait'
    BY <1>7, <2>2, <2>3, <2>4 DEF PendQuery, PendedOnesWait
  <2>6. LockIsHeld'
    BY <1>7 DEF PendQuery, LockIsHeld
  <2> QED BY <2>1, <2>5, <2>6
<1>8. ASSUME NEW w \in QueryWorkers, CancelQuery(w)
      PROVE (IdsAreDistinct /\ PendedOnesWait /\ LockIsHeld /\ SignalledIsAnswered)'
  <2>1. IdsAreDistinct' /\ SignalledIsAnswered'
    BY <1>8 DEF CancelQuery, SignalledIsAnswered
  <2>2. /\ w \in ToSet(pendedQuery) /\ IsInjective(pendedQuery')
        /\ ToSet(pendedQuery') = ToSet(pendedQuery) \ {w}
    BY <1>8, RemoveDistinct DEF CancelQuery, PendedOnesWait
  <2>3. \A v \in ToSet(pendedQuery) : v \in QueryWorkers
    BY DEF ToSet
  <2>4. PendedOnesWait'
    BY <1>8, <2>2, <2>3 DEF CancelQuery, PendedOnesWait
  <2>5. LockIsHeld'
    BY <1>8 DEF CancelQuery, LockIsHeld
  <2> QED BY <2>1, <2>4, <2>5
<1>9. ASSUME NEW w \in QueryWorkers, AnswerQuery(w)
      PROVE (IdsAreDistinct /\ PendedOnesWait /\ LockIsHeld /\ SignalledIsAnswered)'
  <2> DEFINE id == queryWorker[w].id
  <2>1. \A v \in ToSet(pendedQuery) : v \in QueryWorkers
    BY DEF ToSet
  <2>2. \A v \in QueryWorkers : queryWorker[v].at # "signal"
    BY <1>9, QueryAssumption DEF AnswerQuery, LockIsHeld
  <2>3. UNCHANGED <<nextQuery, asker, told, pendedQuery>>
    BY <1>9 DEF AnswerQuery
  <2>4. CASE InPendingList(id) = {}
    <3>1. UNCHANGED <<pendingQuery, queryLock>> /\ WorkerMoves(w, "idle", 0)
      BY <1>9, <2>4 DEF AnswerQuery
    <3>2. IdsAreDistinct' /\ SignalledIsAnswered'
      BY <3>1, <2>3 DEF SignalledIsAnswered
    <3>3. PendedOnesWait'
      BY <3>1, <1>9, <2>1, <2>3 DEF PendedOnesWait, AnswerQuery
    <3>4. LockIsHeld'
      BY <3>1, <2>2 DEF LockIsHeld
    <3> QED BY <3>2, <3>3, <3>4
  <2>5. CASE InPendingList(id) # {}
    <3>1. PICK a \in InPendingList(id) :
            /\ pendingQuery' = [pendingQuery EXCEPT ![a] =
                   [id |-> id, linked |-> FALSE, result |-> id,
                    signalled |-> pendingQuery[a].signalled]]
            /\ queryLock' = w
            /\ queryWorker' = [queryWorker EXCEPT ![w].at = "signal"]
      BY <1>9, <2>5 DEF AnswerQuery, LockStaysWith
    <3>2. a \in Askers /\ pendingQuery[a].id = id /\ pendingQuery[a].linked
      BY DEF InPendingList
    <3> HIDE DEF IdsAreDistinct
    <3>3. id # 0 /\ id \in Nat
      BY <3>2 DEF IdsAreDistinct
    <3>4. \A b \in Askers : /\ pendingQuery'[b].id = pendingQuery[b].id
                            /\ pendingQuery'[b].linked => pendingQuery[b].linked
                            /\ b # a => pendingQuery'[b] = pendingQuery[b]
                            /\ pendingQuery'[a].result = id
                            /\ pendingQuery'[b].signalled => pendingQuery[b].signalled
      BY <3>1, <3>2
    <3>5. \A v \in QueryWorkers : /\ queryWorker'[v].id = queryWorker[v].id
                                  /\ queryWorker'[v].at = IF v = w THEN "signal"
                                                          ELSE queryWorker[v].at
      BY <3>1
    <3> HIDE DEF id
    <3>6. IdsAreDistinct'
      BY <3>4, <2>3 DEF IdsAreDistinct
    <3>7. PendedOnesWait'
      BY <3>5, <1>9, <2>1, <2>3 DEF PendedOnesWait, AnswerQuery
    <3>8. LockIsHeld'
      BY <3>1, <3>2, <3>3, <3>4, <3>5, <2>2 DEF LockIsHeld, id
    <3>9. SignalledIsAnswered'
      <4>1. \A b \in Askers : pendingQuery'[b].signalled
                                 => pendingQuery'[b].result = pendingQuery'[b].id
        BY <3>2, <3>4, ZenonT(30) DEF SignalledIsAnswered
      <4>2. pendingQuery'[a].signalled = pendingQuery[a].signalled
        BY <3>1, <3>2
      <4>3. \A b \in Askers : asker[b].at = "leave" /\ asker[b].status = "answered"
                                 => pendingQuery'[b].signalled
        BY <3>4, <4>2 DEF SignalledIsAnswered
      <4> QED BY <4>1, <4>3, <2>3 DEF SignalledIsAnswered
    <3> QED BY <3>6, <3>7, <3>8, <3>9
  <2> QED BY <2>4, <2>5
<1>10. ASSUME NEW w \in QueryWorkers, SignalQuery(w)
       PROVE (IdsAreDistinct /\ PendedOnesWait /\ LockIsHeld /\ SignalledIsAnswered)'
  <2>1. /\ \A a \in Askers : /\ pendingQuery'[a].id = pendingQuery[a].id
                             /\ pendingQuery'[a].linked = pendingQuery[a].linked
                             /\ pendingQuery'[a].result = pendingQuery[a].result
                             /\ pendingQuery'[a].signalled <=>
                                  \/ pendingQuery[a].signalled
                                  \/ pendingQuery[a].id = queryWorker[w].id
    BY <1>10 DEF SignalQuery
  <2>2. IdsAreDistinct'
    BY <1>10, <2>1 DEF SignalQuery
  <2>3. \A v \in ToSet(pendedQuery) : v \in QueryWorkers
    BY DEF ToSet
  <2>4. PendedOnesWait'
    BY <1>10, <2>3 DEF SignalQuery, PendedOnesWait
  <2>5. \A v \in QueryWorkers : queryWorker[v].at = "signal" => v = w
    BY <1>10 DEF SignalQuery, LockIsHeld
  <2>6. LockIsHeld'
    BY <1>10, <2>5 DEF SignalQuery, LockIsHeld
  <2>7. SignalledIsAnswered'
    BY <1>10, <2>1 DEF SignalQuery, SignalledIsAnswered, LockIsHeld
  <2> QED BY <2>2, <2>4, <2>6, <2>7
<1>11. CASE UNCHANGED queryVars
  BY <1>11 DEF queryVars, PendedOnesWait, LockIsHeld, SignalledIsAnswered
<1> QED
  BY <1>1, <1>2, <1>3, <1>4, <1>5, <1>6, <1>7, <1>8, <1>9, <1>10, <1>11 DEF QueryNext

\* The record an answer signals belongs to an asker that is still in its call,
\* and an asker is told the answer to its own question (communication.c 690-733,
\* 960-1045).
THEOREM AnswersAreTheAskers == QuerySpec => []AnswersFindTheirAsker
<1>1. QueryInv => AnswersFindTheirAsker
  <2> SUFFICES ASSUME QueryInv PROVE AnswersFindTheirAsker
    OBVIOUS
  <2>1. ASSUME NEW w \in QueryWorkers, queryWorker[w].at = "signal"
        PROVE  \E a \in Askers : /\ pendingQuery[a].id = queryWorker[w].id
                                 /\ asker[a].at \in {"send", "enqueue", "wait", "leave"}
    <3>1. PICK a \in Askers : pendingQuery[a].id = queryWorker[w].id
      BY <2>1 DEF QueryInv, LockIsHeld
    <3>2. asker[a].at # "out"
      BY <2>1, <3>1 DEF QueryInv, LockIsHeld, IdsAreDistinct
    <3>3. asker[a].at \in {"out", "send", "enqueue", "wait", "leave"}
      BY DEF QueryInv, QueryTyped, AskerStates
    <3> QED BY <3>1, <3>2, <3>3
  <2> QED BY <2>1 DEF QueryInv, SignalledIsAnswered, AnswersFindTheirAsker
<1> QED BY QueryInitially, QueryInvStep, <1>1, PTL DEF QuerySpec

-----------------------------------------------------------------------------
(***************************************************************************)
(* The safety of the event channel, for any number of producers, requests, *)
(* handles and events and any limits of the queue.                         *)
(*                                                                         *)
(* The invariant Inv joins the properties to be proved with two facts they *)
(* need: the counters of the queue are those of its list, and what a       *)
(* producer holds agrees with where it is.  Each group of conjuncts has a  *)
(* lemma of its own: the steps that touch its variables are taken one by   *)
(* one, all the others are framed out by one lemma.                        *)
(***************************************************************************)
\* The list and its counters.
QueueCounted == count = Len(nodes) /\ total = Bytes(nodes)

\* A producer holds an event exactly from its callback to its last step, and
\* a request exactly while it copies the event into it.
HoldingsFit ==
    \A p \in Producers :
        /\ event[p] = NoEvent <=> pubPc[p] = "idle"
        /\ taken[p] = NoIrp <=> pubPc[p] # "copy"

Inv ==
    /\ TypeOK
    /\ QueueCounted
    /\ HoldingsFit
    /\ RequestsAccounted
    /\ EventsAccounted
    /\ RundownAccounted
    /\ ShutdownSafe

USE DEF vars, channelVars, queueVars, requestVars, handleVars, shutdownVars,
        historyVars, producerVars

-----------------------------------------------------------------------------
\* The bytes of a list are the sum of the sizes of its blobs.
LEMMA BytesAreSum ==
    ASSUME NEW s \in Seq(Blobs)
    PROVE  Bytes(s) = SumAlong(SizeOf, s)
<1> DEFINE g == [i \in DOMAIN s |-> SizeOf[s[i]]]
           pick == [T \in SUBSET DOMAIN s |-> Max(T)]
<1>1. DOMAIN s = 1 .. Len(s) /\ Len(s) \in Nat /\ IsFiniteSet(1 .. Len(s))
  BY LenProperties, FS_Interval
<1>2. \A i \in DOMAIN s : g[i] \in Int
  <2>1. \A i \in DOMAIN s : s[i] \in Blobs
    BY ElementOfSeq, <1>1
  <2> QED
    BY <2>1, QueueLimits
<1>3. \A T \in SUBSET DOMAIN s : T # {} => Max(T) \in T
  BY <1>1, MaxAmong
<1>4. Picks(pick, DOMAIN s)
  BY <1>3 DEF Picks
<1>5. Bytes(s) = (CHOOSE iter : iter =
        [T \in SUBSET DOMAIN s |-> IF T = {} THEN 0
                                   ELSE iter[T \ {Max(T)}] + SizeOf[s[Max(T)]]])[DOMAIN s]
  BY DEF Bytes, FoldLeft, MapThenFoldSet
<1> DEFINE Folds(iter) == iter =
        [T \in SUBSET DOMAIN s |-> IF T = {} THEN 0
                                   ELSE iter[T \ {Max(T)}] + SizeOf[s[Max(T)]]]
           fold == CHOOSE iter : Folds(iter)
<1>6. PICK iter : SumsUp(iter, g, pick, DOMAIN s)
  <2> HIDE DEF g, pick
  <2> QED
    BY <1>1, <1>2, <1>4, SumsExist
<1>7. IsSum(iter, g, DOMAIN s)
  <2> HIDE DEF g, pick
  <2> QED
    BY <1>1, <1>2, <1>4, <1>6, SumsAreSums
<1>8. Folds(iter)
  <2>1. \A T \in SUBSET DOMAIN s : T # {} =>
          g[pick[T]] + iter[T \ {pick[T]}] = iter[T \ {Max(T)}] + SizeOf[s[Max(T)]]
    <3> SUFFICES ASSUME NEW T \in SUBSET DOMAIN s, T # {}
                 PROVE g[pick[T]] + iter[T \ {pick[T]}] = iter[T \ {Max(T)}] + SizeOf[s[Max(T)]]
      OBVIOUS
    <3>1. pick[T] = Max(T) /\ Max(T) \in DOMAIN s
      BY <1>3
    <3>2. g[Max(T)] = SizeOf[s[Max(T)]] /\ g[Max(T)] \in Int
      BY <1>2, <3>1
    <3>3. iter[T \ {Max(T)}] \in Int
      BY <1>7 DEF IsSum
    <3> HIDE DEF g, pick
    <3> QED
      BY <3>1, <3>2, <3>3
  <2> HIDE DEF g, pick
  <2> QED
    BY <1>6, <2>1 DEF SumsUp
<1>9. Folds(fold)
  <2> HIDE DEF Folds
  <2> QED
    BY <1>8
<1>10. SumsUp(fold, g, pick, DOMAIN s)
  <2>1. fold = [T \in SUBSET DOMAIN s |-> IF T = {} THEN 0
                                          ELSE fold[T \ {pick[T]}] + g[pick[T]]]
    <3>1. \A T \in SUBSET DOMAIN s : T # {} =>
            pick[T] = Max(T) /\ g[pick[T]] = SizeOf[s[Max(T)]]
      BY <1>3
    <3> HIDE DEF g, pick, fold
    <3> QED
      BY <1>9, <3>1
  <2> HIDE DEF g, pick, fold
  <2> QED
    BY <1>1, <1>2, <1>4, <2>1, ReversedSums
<1>11. fold[DOMAIN s] = TotalOf(g, DOMAIN s)
  <2> HIDE DEF g, pick, fold
  <2>1. IsSum(fold, g, DOMAIN s)
    BY <1>1, <1>2, <1>4, <1>10, SumsAreSums
  <2> QED
    BY <1>1, <1>2, <2>1, TotalIsSum
<1> QED
  BY <1>5, <1>11 DEF SumAlong

\* What an append and a removal of the oldest do to them.
LEMMA BytesChange ==
    /\ Bytes(<<>>) = 0
    /\ \A s \in Seq(Blobs) :
        /\ Bytes(s) \in Nat
        /\ \A b \in Blobs : Bytes(Append(s, b)) = Bytes(s) + SizeOf[b]
        /\ s # <<>> => Bytes(Tail(s)) = Bytes(s) - SizeOf[Head(s)]
<1>1. \A b \in Blobs : SizeOf[b] \in Nat
  BY QueueLimits
<1>2. Bytes(<<>>) = 0
  BY EmptySeq, BytesAreSum, SumAlongEmpty
<1>3. ASSUME NEW s \in Seq(Blobs)
      PROVE  Bytes(s) \in Nat
  BY <1>1, BytesAreSum, SumAlongInt
<1>4. ASSUME NEW s \in Seq(Blobs), NEW b \in Blobs
      PROVE  Bytes(Append(s, b)) = Bytes(s) + SizeOf[b]
  <2>1. Append(s, b) \in Seq(Blobs)
    BY AppendProperties
  <2>2. SumAlong(SizeOf, Append(s, b)) = SumAlong(SizeOf, s) + SizeOf[b]
    BY <1>1, SumAlongAppend
  <2> QED
    BY <2>1, <2>2, BytesAreSum
<1>5. ASSUME NEW s \in Seq(Blobs), s # <<>>
      PROVE  Bytes(Tail(s)) = Bytes(s) - SizeOf[Head(s)]
  <2>1. Tail(s) \in Seq(Blobs) /\ Head(s) \in Blobs
    BY <1>5, HeadTailProperties
  <2>2. Bytes(s) = SizeOf[Head(s)] + Bytes(Tail(s))
    BY <1>1, <1>5, <2>1, BytesAreSum, SumAlongTail
  <2>3. Bytes(Tail(s)) \in Nat /\ SizeOf[Head(s)] \in Nat
    BY <1>1, <1>3, <2>1
  <2> QED
    BY <2>2, <2>3
<1> QED
  BY <1>2, <1>3, <1>4, <1>5

-----------------------------------------------------------------------------
\* The channel starts with an empty queue, no request and no event under way.
LEMMA InitInv == Init => Inv
<1> SUFFICES ASSUME Init PROVE Inv
  OBVIOUS
<1> USE DEF Init, ChannelInit, QueueInit
<1>1. TypeOK
  <2>1. nodes \in Seq(Blobs) /\ pended \in Seq(Irps)
        /\ delivered \in Seq([irp : Irps, blob : Blobs])
    BY EmptySeq
  <2>2. /\ count \in 0 .. MaxEvents
        /\ total \in Int /\ total <= MaxTotalSize
        /\ lock \in Producers \cup {Unlocked}
    BY QueueLimits
  <2>3. irpPc \in [Irps -> IrpPcs] /\ fate \in [Blobs -> Fates]
    BY DEF IrpPcs, InDispatch, Fates
  <2>4. /\ ctl \in [Handles -> {"open", "enter"} \cup Cancelling]
        /\ pubPc \in [Producers -> {"idle", "checked"} \cup Publishing]
        /\ event \in [Producers -> Blobs \cup {NoEvent}]
        /\ taken \in [Producers -> Irps \cup {NoIrp}]
    OBVIOUS
  <2>5. QED
    BY <2>1, <2>2, <2>3, <2>4 DEF TypeOK, ShutdownPcs
<1>2. QueueCounted /\ HoldingsFit
  BY BytesChange DEF QueueCounted, HoldingsFit
<1>3. RequestsAccounted
  BY ProducerThreads DEF RequestsAccounted, IsInjective, ToSet
<1>4. EventsAccounted
  BY ProducerThreads DEF EventsAccounted, Received, IsInjective, ToSet
<1>5. RundownAccounted /\ ShutdownSafe
  BY DEF RundownAccounted, ShutdownSafe, Publishing, Cancelling, Drained
<1>6. QED
  BY <1>1, <1>2, <1>3, <1>4, <1>5 DEF Inv

-----------------------------------------------------------------------------
\* Every step of the queue keeps its list, its counter and its limits typed.
LEMMA QueueTyped ==
    ASSUME TypeOK, QueueCounted
    PROVE  /\ \A t \in Producers, b \in Blobs : EvictOldest(t, b) \/ AppendBlob(t, b)
                => /\ nodes' \in Seq(Blobs) /\ count' \in 0 .. MaxEvents
                   /\ total' \in Int /\ total' <= MaxTotalSize
                   /\ lock' \in Producers \cup {Unlocked} /\ QueueCounted'
           /\ DequeueBlob \/ PurgeQueue
                => /\ nodes' \in Seq(Blobs) /\ count' \in 0 .. MaxEvents
                   /\ total' \in Int /\ total' <= MaxTotalSize
                   /\ lock' \in Producers \cup {Unlocked} /\ QueueCounted'
<1> USE DEF TypeOK, QueueCounted
<1>1. ASSUME NEW b \in Blobs
      PROVE  SizeOf[b] \in Nat /\ SizeOf[b] >= 1
  BY QueueLimits
<1>2. ASSUME nodes # <<>>
      PROVE  /\ Tail(nodes) \in Seq(Blobs) /\ Len(Tail(nodes)) = Len(nodes) - 1
             /\ Head(nodes) \in Blobs /\ Len(nodes) >= 1
             /\ Bytes(Tail(nodes)) = Bytes(nodes) - SizeOf[Head(nodes)]
  BY <1>2, HeadTailProperties, EmptySeq, LenProperties, BytesChange
<1>3. ASSUME NEW t \in Producers, NEW b \in Blobs, EvictOldest(t, b)
      PROVE  /\ nodes' \in Seq(Blobs) /\ count' \in 0 .. MaxEvents
             /\ total' \in Int /\ total' <= MaxTotalSize
             /\ lock' \in Producers \cup {Unlocked} /\ QueueCounted'
  BY <1>1, <1>2, <1>3, QueueLimits DEF EvictOldest, MustEvict
<1>4. ASSUME NEW t \in Producers, NEW b \in Blobs, AppendBlob(t, b)
      PROVE  /\ nodes' \in Seq(Blobs) /\ count' \in 0 .. MaxEvents
             /\ total' \in Int /\ total' <= MaxTotalSize
             /\ lock' \in Producers \cup {Unlocked} /\ QueueCounted'
  <2>1. /\ Append(nodes, b) \in Seq(Blobs)
        /\ Len(Append(nodes, b)) = Len(nodes) + 1
        /\ Bytes(Append(nodes, b)) = Bytes(nodes) + SizeOf[b]
    BY AppendProperties, BytesChange
  <2>2. CASE Full(b)
    BY <1>4, <2>2 DEF AppendBlob
  <2>3. CASE ~Full(b)
    <3>1. count < MaxEvents /\ total + SizeOf[b] <= MaxTotalSize
      BY <1>1, <2>3, QueueLimits DEF Full
    <3>2. /\ nodes' = Append(nodes, b) /\ count' = count + 1
          /\ total' = total + SizeOf[b] /\ lock' = Unlocked
      BY <1>4, <2>3 DEF AppendBlob
    <3>3. QED
      BY <1>1, <2>1, <3>1, <3>2, QueueLimits
  <2>4. QED
    BY <2>2, <2>3
<1>5. ASSUME DequeueBlob
      PROVE  /\ nodes' \in Seq(Blobs) /\ count' \in 0 .. MaxEvents
             /\ total' \in Int /\ total' <= MaxTotalSize
             /\ lock' \in Producers \cup {Unlocked} /\ QueueCounted'
  BY <1>1, <1>2, <1>5, QueueLimits, SMTT(30) DEF DequeueBlob
<1>6. ASSUME PurgeQueue
      PROVE  /\ nodes' \in Seq(Blobs) /\ count' \in 0 .. MaxEvents
             /\ total' \in Int /\ total' <= MaxTotalSize
             /\ lock' \in Producers \cup {Unlocked} /\ QueueCounted'
  BY <1>6, QueueLimits, BytesChange DEF PurgeQueue
<1>7. QED
  BY <1>3, <1>4, <1>5, <1>6

-----------------------------------------------------------------------------
USE DEF Goto, Complete, RemoveIrp, PubGoto, PubDone, Fate,
        AcquireDriverRundown, ReleaseDriverRundown

\* The variables of the queue and of the histories change in these steps only.
EventStep ==
    \/ \E r \in Irps : GetDequeue(r) /\ UNCHANGED event
    \/ \E p \in Producers :
        \/ \E b \in Blobs : Publish(p, b)
        \/ Filter(p) \/ HandOver(p)
        \/ EnqueueFails(p) \/ EnqueueEvicts(p) \/ EnqueueStores(p)
    \/ ShutdownPurge /\ UNCHANGED event

\* The places of requests change in these steps only.
RequestStep ==
    \/ \E r \in Irps : Requesting(r)
    \/ \E h \in Handles : CancelNext(h) /\ UNCHANGED taken
    \/ \E p \in Producers :
        Filter(p) \/ TakeIrp(p) \/ HandOver(p) \/ EnqueueFails(p) \/ EnqueueStores(p)
    \/ ShutdownDrain /\ UNCHANGED taken

\* What a step that is none of these leaves alone.
LEMMA FrameEvents ==
    ASSUME [Next]_vars
    PROVE  EventStep \/ UNCHANGED <<nodes, count, total, lock, fate, delivered, event>>
<1> USE DEF EventStep
<1>1. CASE UNCHANGED vars
  BY <1>1
<1>2. ASSUME NEW p \in Producers, Producer(p)
      PROVE  EventStep \/ UNCHANGED <<nodes, count, total, lock, fate, delivered, event>>
  BY <1>2 DEF Producer, TakeIrp
<1>3. ASSUME NEW r \in Irps, Requesting(r)
      PROVE  EventStep \/ UNCHANGED <<nodes, count, total, lock, fate, delivered, event>>
  BY <1>3 DEF Requesting, Issue, Reap, CancelIo, GetEvent, GetAcquire, PendEnter,
              PendClaim, PendInsert
<1>4. ASSUME NEW h \in Handles, Controlling(h)
      PROVE  EventStep \/ UNCHANGED <<nodes, count, total, lock, fate, delivered, event>>
  BY <1>4 DEF Controlling, HandleInit, HandleStop, Cleanup, CancelForFile,
              CancelEnter, CancelNext, CancelLast, CancelClear
<1>5. CASE ShuttingDown
  BY <1>5 DEF ShuttingDown, Shutdown, ShutdownStart, ShutdownPause, ShutdownWait,
              ShutdownDrain, ShutdownUnclaim, ShutdownDelete
<1>6. QED
  BY <1>1, <1>2, <1>3, <1>4, <1>5 DEF Next

LEMMA FrameRequests ==
    ASSUME [Next]_vars
    PROVE  RequestStep \/ UNCHANGED <<pended, irpPc, taken>>
<1> USE DEF RequestStep
<1>1. CASE UNCHANGED vars
  BY <1>1
<1>2. ASSUME NEW p \in Producers, Producer(p)
      PROVE  RequestStep \/ UNCHANGED <<pended, irpPc, taken>>
  BY <1>2 DEF Producer, Publish, EnqueueEvicts
<1>3. ASSUME NEW r \in Irps, Requesting(r)
      PROVE  RequestStep
  BY <1>3
<1>4. ASSUME NEW h \in Handles, Controlling(h)
      PROVE  RequestStep \/ UNCHANGED <<pended, irpPc, taken>>
  BY <1>4 DEF Controlling, HandleInit, HandleStop, Cleanup, CancelForFile,
              CancelEnter, CancelLast, CancelClear
<1>5. CASE ShuttingDown
  BY <1>5 DEF ShuttingDown, Shutdown, ShutdownStart, ShutdownPause, ShutdownWait,
              ShutdownUnclaim, ShutdownPurge, ShutdownDelete
<1>6. QED
  BY <1>1, <1>2, <1>3, <1>4, <1>5 DEF Next

-----------------------------------------------------------------------------
(* Types.                                                                  *)

\* The types of the queue and of the histories.
EventTypes ==
    /\ nodes \in Seq(Blobs)
    /\ count \in 0 .. MaxEvents
    /\ total \in Int /\ total <= MaxTotalSize
    /\ lock \in Producers \cup {Unlocked}
    /\ fate \in [Blobs -> Fates]
    /\ delivered \in Seq([irp : Irps, blob : Blobs])

\* The types of the requests.
RequestTypes ==
    /\ pended \in Seq(Irps)
    /\ irpPc \in [Irps -> IrpPcs]
    /\ taken \in [Producers -> Irps \cup {NoIrp}]

\* The types of the threads' own state.
ThreadTypes ==
    /\ consumer \in Handles \cup {NoHandle}
    /\ cancelFlag \subseteq Irps
    /\ ctl \in [Handles -> {"open", "enter"} \cup Cancelling]
    /\ closing \subseteq Handles
    /\ capturePaused \in BOOLEAN
    /\ shutdownStarted \in BOOLEAN
    /\ inside \subseteq Producers \cup Irps \cup Handles
    /\ sd \in ShutdownPcs
    /\ pubPc \in [Producers -> {"idle", "checked"} \cup Publishing]
    /\ event \in [Producers -> Blobs \cup {NoEvent}]

\* A producer that has passed the first check holds an event, and one that
\* copies holds a request.
LEMMA Holdings ==
    ASSUME TypeOK, HoldingsFit, NEW p \in Producers
    PROVE  /\ pubPc[p] # "idle" => event[p] \in Blobs
           /\ pubPc[p] = "copy" => taken[p] \in Irps
BY DEF TypeOK, HoldingsFit

\* Delivering an event keeps the histories typed.
LEMMA DeliverTyped ==
    ASSUME TypeOK, NEW r \in Irps, NEW b \in Blobs, Deliver(r, b)
    PROVE  /\ fate' \in [Blobs -> Fates]
           /\ delivered' \in Seq([irp : Irps, blob : Blobs])
<1>1. [irp |-> r, blob |-> b] \in [irp : Irps, blob : Blobs]
  OBVIOUS
<1>2. Append(delivered, [irp |-> r, blob |-> b]) \in Seq([irp : Irps, blob : Blobs])
  BY <1>1, AppendProperties DEF TypeOK
<1>3. fate' \in [Blobs -> Fates]
  BY DEF Deliver, TypeOK, Fates
<1>4. QED
  BY <1>2, <1>3 DEF Deliver, TypeOK

LEMMA EventTypesStep ==
    ASSUME TypeOK, QueueCounted, HoldingsFit, [Next]_vars
    PROVE  EventTypes' /\ QueueCounted'
<1> USE DEF EventTypes, QueueCounted
<1>1. CASE UNCHANGED <<nodes, count, total, lock, fate, delivered, event>>
  BY <1>1 DEF TypeOK
<1>2. ASSUME NEW r \in Irps, GetDequeue(r)
      PROVE  EventTypes' /\ QueueCounted'
  <2>1. CASE DequeueBlob /\ Deliver(r, Head(nodes))
    <3>1. Head(nodes) \in Blobs
      BY <2>1, HeadTailProperties DEF TypeOK, DequeueBlob
    <3>2. fate' \in [Blobs -> Fates] /\ delivered' \in Seq([irp : Irps, blob : Blobs])
      BY <2>1, <3>1, DeliverTyped
    <3>3. QED
      BY <2>1, <3>2, QueueTyped
  <2>2. CASE FindEmpty /\ UNCHANGED historyVars
    BY <2>2 DEF FindEmpty, TypeOK
  <2>3. QED
    BY <1>2, <2>1, <2>2 DEF GetDequeue
<1>3. ASSUME NEW p \in Producers, NEW b \in Blobs, Publish(p, b)
      PROVE  EventTypes' /\ QueueCounted'
  BY <1>3 DEF Publish, TypeOK, Fates
<1>4. ASSUME NEW p \in Producers, Filter(p)
      PROVE  EventTypes' /\ QueueCounted'
  BY <1>4 DEF Filter, TypeOK, Fates
<1>5. ASSUME NEW p \in Producers, HandOver(p)
      PROVE  EventTypes' /\ QueueCounted'
  <2>1. event[p] \in Blobs /\ taken[p] \in Irps
    BY <1>5, Holdings DEF HandOver
  <2>2. fate' \in [Blobs -> Fates] /\ delivered' \in Seq([irp : Irps, blob : Blobs])
    BY <1>5, <2>1, DeliverTyped DEF HandOver
  <2>3. QED
    BY <1>5, <2>2 DEF HandOver, TypeOK
<1>6. ASSUME NEW p \in Producers, EnqueueFails(p)
      PROVE  EventTypes' /\ QueueCounted'
  BY <1>6 DEF EnqueueFails, TypeOK, Fates
<1>7. ASSUME NEW p \in Producers, EnqueueEvicts(p)
      PROVE  EventTypes' /\ QueueCounted'
  <2>1. event[p] \in Blobs
    BY <1>7, Holdings DEF EnqueueEvicts
  <2>2. fate' \in [Blobs -> Fates]
    BY <1>7 DEF EnqueueEvicts, TypeOK, Fates
  <2>3. QED
    BY <1>7, <2>1, <2>2, QueueTyped DEF EnqueueEvicts, TypeOK
<1>8. ASSUME NEW p \in Producers, EnqueueStores(p)
      PROVE  EventTypes' /\ QueueCounted'
  <2>1. event[p] \in Blobs
    BY <1>8, Holdings DEF EnqueueStores
  <2>2. fate' \in [Blobs -> Fates]
    BY <1>8 DEF EnqueueStores, TypeOK, Fates
  <2>3. QED
    BY <1>8, <2>1, <2>2, QueueTyped DEF EnqueueStores, TypeOK
<1>9. CASE ShutdownPurge
  <2>1. fate' \in [Blobs -> Fates]
    BY <1>9 DEF ShutdownPurge, TypeOK, Fates
  <2>2. QED
    BY <1>9, <2>1, QueueTyped DEF ShutdownPurge, TypeOK
<1>10. QED
  BY <1>1, <1>2, <1>3, <1>4, <1>5, <1>6, <1>7, <1>8, <1>9, FrameEvents DEF EventStep

-----------------------------------------------------------------------------
(* Requests.                                                               *)

Placed == {"pended", "owned"}

\* A request on its way through the dispatcher, or with the client, moves
\* without touching the CSQ or any producer.
LEMMA MoveElsewhere ==
    ASSUME TypeOK, RequestsAccounted, NEW r \in Irps, irpPc[r] \notin Placed,
           NEW pc \in IrpPcs \ Placed, Goto(r, pc), UNCHANGED <<pended, taken>>
    PROVE  RequestTypes' /\ RequestsAccounted'
BY DEF TypeOK, RequestTypes, RequestsAccounted, Placed

\* A request that leaves the CSQ by cancellation is complete, and no producer
\* knew it.
LEMMA LeaveCsq ==
    ASSUME TypeOK, RequestsAccounted, NEW i \in DOMAIN pended, RemoveIrp(i),
           Complete(pended[i]), UNCHANGED taken
    PROVE  RequestTypes' /\ RequestsAccounted'
<1> DEFINE r == pended[i]
<1>1. /\ pended' \in Seq(Irps) /\ r \in Irps /\ r \in ToSet(pended)
      /\ IsInjective(pended') /\ ToSet(pended') = ToSet(pended) \ {r}
  BY RemoveDistinct DEF TypeOK, RequestsAccounted
<1>2. irpPc[r] = "pended"
  BY <1>1 DEF RequestsAccounted
<1>3. ToSet(pended') = {q \in Irps : irpPc'[q] = "pended"}
  BY <1>1 DEF RequestsAccounted, TypeOK
<1>4. \A q \in Irps : irpPc'[q] = "owned" <=> \E p \in Producers : taken'[p] = q
  BY <1>1, <1>2 DEF RequestsAccounted, TypeOK
<1>5. irpPc' \in [Irps -> IrpPcs]
  BY DEF TypeOK, IrpPcs
<1>6. QED
  BY <1>1, <1>3, <1>4, <1>5 DEF RequestsAccounted, RequestTypes, TypeOK

LEMMA RequestsStep ==
    ASSUME TypeOK, HoldingsFit, RequestsAccounted, [Next]_vars
    PROVE  RequestTypes' /\ RequestsAccounted'
<1>1. CASE UNCHANGED <<pended, irpPc, taken>>
  BY <1>1 DEF TypeOK, RequestTypes, RequestsAccounted
<1>2. ASSUME NEW r \in Irps, Requesting(r)
      PROVE  RequestTypes' /\ RequestsAccounted'
  <2> USE DEF IrpPcs, InDispatch, Placed
  <2>1. UNCHANGED taken
    BY <1>2 DEF Requesting
  <2>2. CASE Issue(r)
    BY <2>1, <2>2, MoveElsewhere DEF Issue
  <2>3. CASE Reap(r)
    BY <2>1, <2>3, MoveElsewhere DEF Reap
  <2>4. CASE CancelIo(r)
    <3>1. CASE \E i \in DOMAIN pended : pended[i] = r /\ RemoveIrp(i) /\ Complete(r)
      BY <2>1, <3>1, LeaveCsq
    <3>2. CASE UNCHANGED <<pended, irpPc>>
      BY <2>1, <3>2 DEF TypeOK, RequestTypes, RequestsAccounted
    <3>3. QED
      BY <2>4, <3>1, <3>2 DEF CancelIo
  <2>5. CASE GetAcquire(r)
    BY <2>1, <2>5, MoveElsewhere DEF GetAcquire
  <2>6. CASE GetDequeue(r)
    BY <2>1, <2>6, MoveElsewhere DEF GetDequeue
  <2>7. CASE PendEnter(r)
    BY <2>1, <2>7, MoveElsewhere DEF PendEnter
  <2>8. CASE PendClaim(r)
    BY <2>1, <2>8, MoveElsewhere DEF PendClaim
  <2>9. CASE PendInsert(r)
    <3>1. CASE r \in cancelFlag
      BY <2>1, <2>9, <3>1, MoveElsewhere DEF PendInsert
    <3>2. CASE r \notin cancelFlag
      <4>1. /\ irpPc[r] = "insert" /\ pended' = Append(pended, r)
            /\ irpPc' = [irpPc EXCEPT ![r] = "pended"]
        BY <2>9, <3>2 DEF PendInsert
      <4>2. r \notin ToSet(pended)
        BY <4>1 DEF RequestsAccounted
      <4>3. /\ pended' \in Seq(Irps) /\ IsInjective(pended')
            /\ ToSet(pended') = ToSet(pended) \cup {r}
        BY <4>1, <4>2, AppendDistinct DEF TypeOK, RequestsAccounted
      <4>4. ToSet(pended') = {q \in Irps : irpPc'[q] = "pended"}
        BY <4>1, <4>3 DEF RequestsAccounted, TypeOK
      <4>5. QED
        BY <2>1, <4>1, <4>3, <4>4 DEF RequestsAccounted, RequestTypes, TypeOK
    <3>3. QED
      BY <3>1, <3>2
  <2>10. QED
    BY <1>2, <2>2, <2>3, <2>4, <2>5, <2>6, <2>7, <2>8, <2>9 DEF Requesting, GetEvent
<1>3. ASSUME NEW h \in Handles, CancelNext(h), UNCHANGED taken
      PROVE  RequestTypes' /\ RequestsAccounted'
  BY <1>3, LeaveCsq DEF CancelNext
<1>4. CASE ShutdownDrain /\ UNCHANGED taken
  <2>1. CASE pended = <<>>
    BY <1>4, <2>1 DEF ShutdownDrain, TypeOK, RequestTypes, RequestsAccounted
  <2>2. CASE pended # <<>>
    <3>1. 1 \in DOMAIN pended /\ Head(pended) = pended[1]
      BY <2>2, EmptySeq, LenProperties DEF TypeOK
    <3>2. QED
      BY <1>4, <2>2, <3>1, LeaveCsq DEF ShutdownDrain
  <2>3. QED
    BY <2>1, <2>2
<1>5. ASSUME NEW p \in Producers,
             Filter(p) \/ EnqueueFails(p) \/ EnqueueStores(p)
      PROVE  RequestTypes' /\ RequestsAccounted'
  <2>1. taken[p] = NoIrp
    BY <1>5 DEF HoldingsFit, Filter, EnqueueFails, EnqueueStores
  <2>2. UNCHANGED <<pended, irpPc>> /\ (UNCHANGED taken \/ taken' = [taken EXCEPT ![p] = NoIrp])
    BY <1>5 DEF Filter, EnqueueFails, EnqueueStores
  <2>3. taken' = taken
    BY <2>1, <2>2 DEF TypeOK
  <2>4. QED
    BY <2>2, <2>3 DEF TypeOK, RequestTypes, RequestsAccounted
<1>6. ASSUME NEW p \in Producers, TakeIrp(p)
      PROVE  RequestTypes' /\ RequestsAccounted'
  <2>1. CASE pended = <<>>
    BY <1>6, <2>1 DEF TakeIrp, TypeOK, RequestTypes, RequestsAccounted
  <2>2. CASE pended # <<>>
    <3> DEFINE r == Head(pended)
    <3>1. 1 \in DOMAIN pended /\ r = pended[1]
      BY <2>2, EmptySeq, LenProperties DEF TypeOK
    <3>2. /\ pended' = RemoveAt(pended, 1)
          /\ taken' = [taken EXCEPT ![p] = r]
          /\ irpPc' = [irpPc EXCEPT ![r] = "owned"]
          /\ pubPc[p] = "match"
      BY <1>6, <2>2 DEF TakeIrp
    <3>3. /\ pended' \in Seq(Irps) /\ r \in Irps /\ r \in ToSet(pended)
          /\ IsInjective(pended') /\ ToSet(pended') = ToSet(pended) \ {r}
      BY <3>1, <3>2, RemoveDistinct DEF TypeOK, RequestsAccounted
    <3>4. irpPc[r] = "pended" /\ taken[p] = NoIrp /\ r # NoIrp
      BY <3>2, <3>3, ProducerThreads DEF RequestsAccounted, HoldingsFit
    <3>5. \A q \in Producers : taken[q] # r
      BY <3>3, <3>4 DEF RequestsAccounted
    <3>6. ToSet(pended') = {q \in Irps : irpPc'[q] = "pended"}
      BY <3>2, <3>3 DEF RequestsAccounted, TypeOK
    <3>7. irpPc' \in [Irps -> IrpPcs] /\ taken' \in [Producers -> Irps \cup {NoIrp}]
      BY <3>2, <3>3 DEF TypeOK, IrpPcs
    <3>8. \A q \in Irps : irpPc'[q] = "owned" <=> \E x \in Producers : taken'[x] = q
      <4>1. TAKE q \in Irps
      <4>2. CASE q = r
        BY <3>2, <3>3, <4>2 DEF TypeOK
      <4>3. CASE q # r
        <5>1. irpPc'[q] = irpPc[q]
          BY <3>2, <3>3, <4>3 DEF TypeOK
        <5>2. \A x \in Producers : taken'[x] = q <=> taken[x] = q
          BY <3>2, <3>4, <4>3, ProducerThreads DEF TypeOK
        <5>3. QED
          BY <5>1, <5>2 DEF RequestsAccounted
      <4>4. QED
        BY <4>2, <4>3
    <3>9. \A x, y \in Producers : taken'[x] = taken'[y] => x = y \/ taken'[x] = NoIrp
      BY <3>2, <3>5 DEF RequestsAccounted, TypeOK
    <3>10. QED
      BY <3>3, <3>6, <3>7, <3>8, <3>9 DEF RequestsAccounted, RequestTypes
  <2>3. QED
    BY <2>1, <2>2
<1>7. ASSUME NEW p \in Producers, HandOver(p)
      PROVE  RequestTypes' /\ RequestsAccounted'
  <2> DEFINE r == taken[p]
  <2>1. /\ r \in Irps
        /\ UNCHANGED pended
        /\ taken' = [taken EXCEPT ![p] = NoIrp]
        /\ irpPc' = [irpPc EXCEPT ![r] = "done"]
    BY <1>7, Holdings DEF HandOver
  <2>2. irpPc[r] = "owned"
    BY <2>1 DEF RequestsAccounted
  <2>3. irpPc' \in [Irps -> IrpPcs] /\ taken' \in [Producers -> Irps \cup {NoIrp}]
    BY <2>1 DEF TypeOK, IrpPcs
  <2>4. {q \in Irps : irpPc'[q] = "pended"} = {q \in Irps : irpPc[q] = "pended"}
    BY <2>1, <2>2 DEF TypeOK
  <2>5. \A q \in Irps : irpPc'[q] = "owned" <=> \E x \in Producers : taken'[x] = q
    BY <2>1, <2>2, ProducerThreads DEF RequestsAccounted, TypeOK
  <2>6. \A x, y \in Producers : taken'[x] = taken'[y] => x = y \/ taken'[x] = NoIrp
    BY <2>1 DEF RequestsAccounted, TypeOK
  <2>7. QED
    BY <2>1, <2>3, <2>4, <2>5, <2>6 DEF RequestsAccounted, RequestTypes, TypeOK
<1>8. QED
  BY <1>1, <1>2, <1>3, <1>4, <1>5, <1>6, <1>7, FrameRequests DEF RequestStep

-----------------------------------------------------------------------------
(* Events.                                                                 *)

HeldByOne ==
    /\ \A b \in Blobs : fate[b] = "held" <=> \E p \in Producers : event[p] = b
    /\ \A p, q \in Producers : event[p] = event[q] => p = q \/ event[p] = NoEvent

QueuedOnce ==
    IsInjective(nodes) /\ ToSet(nodes) = {b \in Blobs : fate[b] = "queued"}

DeliveredOnce ==
    IsInjective(Received) /\ ToSet(Received) = {b \in Blobs : fate[b] = "delivered"}

\* The payloads received are a sequence of events.
LEMMA ReceivedTyped ==
    ASSUME TypeOK
    PROVE  /\ Received \in Seq(Blobs)
           /\ \A r \in Irps, b \in Blobs :
                delivered' = Append(delivered, [irp |-> r, blob |-> b])
                    => Received' = Append(Received, b)
<1>1. /\ DOMAIN delivered = 1 .. Len(delivered) /\ Len(delivered) \in Nat
      /\ \A i \in 1 .. Len(delivered) : delivered[i].blob \in Blobs
  <2>1. delivered \in Seq([irp : Irps, blob : Blobs])
    BY DEF TypeOK
  <2>2. /\ DOMAIN delivered = 1 .. Len(delivered) /\ Len(delivered) \in Nat
        /\ delivered \in [1 .. Len(delivered) -> [irp : Irps, blob : Blobs]]
    BY <2>1, LenProperties
  <2>3. QED
    BY <2>2
<1>2. /\ Received = [i \in 1 .. Len(delivered) |-> delivered[i].blob]
      /\ Received \in Seq(Blobs) /\ Len(Received) = Len(delivered)
  BY <1>1 DEF Received
<1>3. ASSUME NEW r \in Irps, NEW b \in Blobs,
             delivered' = Append(delivered, [irp |-> r, blob |-> b])
      PROVE  Received' = Append(Received, b)
  <2> DEFINE d == [irp |-> r, blob |-> b]
             n == Len(delivered)
  <2>1. /\ delivered' \in Seq([irp : Irps, blob : Blobs])
        /\ Len(delivered') = n + 1
        /\ \A i \in 1 .. n : delivered'[i] = delivered[i]
        /\ delivered'[n + 1] = d
    BY <1>3, AppendProperties DEF TypeOK
  <2>2. /\ Append(Received, b) \in Seq(Blobs) /\ Len(Append(Received, b)) = n + 1
        /\ \A i \in 1 .. n : Append(Received, b)[i] = Received[i]
        /\ Append(Received, b)[n + 1] = b
    BY <1>2, AppendProperties
  <2>3. Received' = [i \in 1 .. n + 1 |-> delivered'[i].blob]
    BY <2>1, LenProperties DEF Received
  <2>4. /\ Received' \in Seq(Blobs) /\ Len(Received') = n + 1
    <3>1. \A i \in 1 .. n + 1 : delivered'[i].blob \in Blobs
      BY <1>1, <2>1
    <3>2. QED
      BY <1>1, <2>3, <3>1
  <2>5. \A i \in 1 .. n + 1 : Received'[i] = Append(Received, b)[i]
    BY <1>1, <1>2, <2>1, <2>2, <2>3
  <2>6. QED
    BY <1>1, <2>2, <2>4, <2>5, SeqEqual
<1>4. QED
  BY <1>2, <1>3

\* An event handed to a client that nobody has received before.
LEMMA DeliverOnce ==
    ASSUME TypeOK, DeliveredOnce, NEW r \in Irps, NEW b \in Blobs,
           Deliver(r, b), fate[b] # "delivered"
    PROVE  /\ DeliveredOnce'
           /\ fate' \in { [fate EXCEPT ![b] = "delivered"],
                         [fate EXCEPT ![b] = "truncated"] }
<1>1. CASE OutLen[r] >= SizeOf[b]
  <2>1. /\ fate' = [fate EXCEPT ![b] = "delivered"]
        /\ Received' = Append(Received, b)
    BY <1>1, ReceivedTyped DEF Deliver
  <2>2. b \notin ToSet(Received)
    BY DEF DeliveredOnce
  <2>3. /\ IsInjective(Received')
        /\ ToSet(Received') = ToSet(Received) \cup {b}
    BY <2>1, <2>2, AppendDistinct, ReceivedTyped DEF DeliveredOnce
  <2>4. QED
    BY <2>1, <2>3 DEF DeliveredOnce, TypeOK
<1>2. CASE ~(OutLen[r] >= SizeOf[b])
  <2>1. fate' = [fate EXCEPT ![b] = "truncated"] /\ UNCHANGED delivered
    BY <1>2 DEF Deliver
  <2>2. Received' = Received
    BY <2>1 DEF Received
  <2>3. QED
    BY <2>1, <2>2 DEF DeliveredOnce, TypeOK
<1>3. QED
  BY <1>1, <1>2

\* A producer's last step: its event leaves its hands for good.
LEMMA LetGo ==
    ASSUME TypeOK, HeldByOne, NEW p \in Producers, event[p] \in Blobs,
           NEW what \in Fates, what # "held",
           fate' = [fate EXCEPT ![event[p]] = what],
           event' = [event EXCEPT ![p] = NoEvent]
    PROVE  HeldByOne'
<1>1. ASSUME NEW b \in Blobs
      PROVE  fate'[b] = "held" <=> \E q \in Producers : event'[q] = b
  <2>1. CASE b = event[p]
    BY <2>1, ProducerThreads DEF TypeOK, HeldByOne
  <2>2. CASE b # event[p]
    <3>1. fate'[b] = fate[b]
      BY <2>2 DEF TypeOK
    <3>2. \A q \in Producers : event'[q] = b <=> event[q] = b
      BY <2>2, ProducerThreads DEF TypeOK
    <3>3. QED
      BY <3>1, <3>2 DEF HeldByOne
  <2>3. QED
    BY <2>1, <2>2
<1>2. \A x, y \in Producers : event'[x] = event'[y] => x = y \/ event'[x] = NoEvent
  BY DEF TypeOK, HeldByOne
<1>3. QED
  BY <1>1, <1>2 DEF HeldByOne

LEMMA EventsStep ==
    ASSUME TypeOK, HoldingsFit, EventsAccounted, [Next]_vars
    PROVE  EventsAccounted'
<1>1. HeldByOne /\ QueuedOnce /\ DeliveredOnce
  BY DEF EventsAccounted, HeldByOne, QueuedOnce, DeliveredOnce
<1>2. SUFFICES HeldByOne' /\ QueuedOnce' /\ DeliveredOnce'
  BY DEF EventsAccounted, HeldByOne, QueuedOnce, DeliveredOnce
<1>3. UNCHANGED delivered => Received' = Received
  BY DEF Received
<1>4. CASE UNCHANGED <<nodes, count, total, lock, fate, delivered, event>>
  BY <1>1, <1>3, <1>4 DEF HeldByOne, QueuedOnce, DeliveredOnce
<1>5. nodes # <<>> =>
        /\ Head(nodes) \in Blobs /\ fate[Head(nodes)] = "queued"
        /\ IsInjective(Tail(nodes)) /\ ToSet(Tail(nodes)) = ToSet(nodes) \ {Head(nodes)}
  BY <1>1, TailDistinct DEF QueuedOnce, TypeOK
<1>6. ASSUME NEW r \in Irps, GetDequeue(r), UNCHANGED event
      PROVE  HeldByOne' /\ QueuedOnce' /\ DeliveredOnce'
  <2>1. CASE DequeueBlob /\ Deliver(r, Head(nodes))
    <3>1. nodes # <<>> /\ nodes' = Tail(nodes)
      BY <2>1 DEF DequeueBlob
    <3>2. /\ DeliveredOnce'
          /\ fate' \in { [fate EXCEPT ![Head(nodes)] = "delivered"],
                        [fate EXCEPT ![Head(nodes)] = "truncated"] }
      BY <1>1, <1>5, <2>1, <3>1, DeliverOnce
    <3>3. QueuedOnce'
      BY <1>1, <1>5, <3>1, <3>2 DEF QueuedOnce, TypeOK
    <3>4. \A b \in Blobs : fate'[b] = "held" <=> fate[b] = "held"
      BY <1>5, <3>1, <3>2 DEF TypeOK
    <3>5. HeldByOne'
      BY <1>1, <1>6, <3>4 DEF HeldByOne
    <3>6. QED
      BY <3>2, <3>3, <3>5
  <2>2. CASE FindEmpty /\ UNCHANGED historyVars
    BY <1>1, <1>3, <1>6, <2>2 DEF FindEmpty, HeldByOne, QueuedOnce, DeliveredOnce
  <2>3. QED
    BY <1>6, <2>1, <2>2 DEF GetDequeue
<1>7. ASSUME NEW p \in Producers, NEW b \in Blobs, Publish(p, b)
      PROVE  HeldByOne' /\ QueuedOnce' /\ DeliveredOnce'
  <2>1. UNCHANGED <<nodes, delivered>> /\ fate[b] = "fresh" /\ event[p] = NoEvent
    BY <1>7 DEF Publish, HoldingsFit
  <2>2. \/ fate' = [fate EXCEPT ![b] = "paused"] /\ UNCHANGED event
        \/ fate' = [fate EXCEPT ![b] = "held"] /\ event' = [event EXCEPT ![p] = b]
    BY <1>7 DEF Publish
  <2>3. QueuedOnce' /\ DeliveredOnce'
    BY <1>1, <1>3, <2>1, <2>2 DEF QueuedOnce, DeliveredOnce, TypeOK
  <2>4. \A q \in Producers : event[q] # b
    BY <1>1, <2>1 DEF HeldByOne
  <2>5. CASE fate' = [fate EXCEPT ![b] = "paused"] /\ UNCHANGED event
    <3>1. \A x \in Blobs : fate'[x] = "held" <=> fate[x] = "held"
      BY <2>1, <2>5 DEF TypeOK
    <3>2. QED
      BY <1>1, <2>3, <2>5, <3>1 DEF HeldByOne
  <2>6. CASE fate' = [fate EXCEPT ![b] = "held"] /\ event' = [event EXCEPT ![p] = b]
    <3>1. ASSUME NEW x \in Blobs
          PROVE  fate'[x] = "held" <=> \E q \in Producers : event'[q] = x
      <4>1. CASE x = b
        BY <2>6, <4>1 DEF TypeOK
      <4>2. CASE x # b
        <5>1. fate'[x] = fate[x]
          BY <2>6, <4>2 DEF TypeOK
        <5>2. \A q \in Producers : event'[q] = x <=> event[q] = x
          BY <2>1, <2>6, <4>2, ProducerThreads DEF TypeOK
        <5>3. QED
          BY <1>1, <5>1, <5>2 DEF HeldByOne
      <4>3. QED
        BY <4>1, <4>2
    <3>2. \A x, y \in Producers : event'[x] = event'[y] => x = y \/ event'[x] = NoEvent
      BY <1>1, <2>4, <2>6 DEF HeldByOne, TypeOK
    <3>3. QED
      BY <2>3, <3>1, <3>2 DEF HeldByOne
  <2>7. QED
    BY <2>2, <2>3, <2>5, <2>6
<1>8. ASSUME NEW p \in Producers, Filter(p)
      PROVE  HeldByOne' /\ QueuedOnce' /\ DeliveredOnce'
  <2>1. event[p] \in Blobs /\ UNCHANGED <<nodes, delivered>>
    BY <1>8, Holdings DEF Filter
  <2>2. fate[event[p]] = "held"
    BY <1>1, <2>1 DEF HeldByOne
  <2>3. CASE UNCHANGED <<fate, event>>
    BY <1>1, <1>3, <2>1, <2>3 DEF HeldByOne, QueuedOnce, DeliveredOnce
  <2>4. ASSUME NEW what \in {"refused", "filtered"},
               fate' = [fate EXCEPT ![event[p]] = what],
               event' = [event EXCEPT ![p] = NoEvent]
        PROVE  HeldByOne' /\ QueuedOnce' /\ DeliveredOnce'
    <3>1. HeldByOne'
      BY <1>1, <2>1, <2>4, LetGo DEF Fates
    <3>2. QueuedOnce' /\ DeliveredOnce'
      BY <1>1, <1>3, <2>1, <2>2, <2>4 DEF QueuedOnce, DeliveredOnce, TypeOK
    <3>3. QED
      BY <3>1, <3>2
  <2>5. QED
    BY <1>8, <2>3, <2>4 DEF Filter
<1>9. ASSUME NEW p \in Producers, HandOver(p)
      PROVE  HeldByOne' /\ QueuedOnce' /\ DeliveredOnce'
  <2> DEFINE b == event[p]
  <2>1. /\ b \in Blobs /\ taken[p] \in Irps /\ UNCHANGED nodes
        /\ Deliver(taken[p], b) /\ event' = [event EXCEPT ![p] = NoEvent]
    BY <1>9, Holdings DEF HandOver
  <2>2. fate[b] = "held"
    BY <1>1, <2>1 DEF HeldByOne
  <2>3. DeliveredOnce' /\ fate' \in { [fate EXCEPT ![b] = "delivered"],
                                     [fate EXCEPT ![b] = "truncated"] }
    BY <1>1, <2>1, <2>2, DeliverOnce
  <2>4. HeldByOne'
    BY <1>1, <2>1, <2>3, LetGo DEF Fates
  <2>5. QueuedOnce'
    BY <1>1, <2>1, <2>2, <2>3 DEF QueuedOnce, TypeOK
  <2>6. QED
    BY <2>3, <2>4, <2>5
<1>10. ASSUME NEW p \in Producers, EnqueueFails(p)
       PROVE  HeldByOne' /\ QueuedOnce' /\ DeliveredOnce'
  <2>1. /\ event[p] \in Blobs /\ UNCHANGED <<nodes, delivered>>
        /\ fate' = [fate EXCEPT ![event[p]] = "nomemory"]
        /\ event' = [event EXCEPT ![p] = NoEvent]
    BY <1>10, Holdings DEF EnqueueFails
  <2>2. fate[event[p]] = "held"
    BY <1>1, <2>1 DEF HeldByOne
  <2>3. HeldByOne'
    BY <1>1, <2>1, LetGo DEF Fates
  <2>4. QueuedOnce' /\ DeliveredOnce'
    BY <1>1, <1>3, <2>1, <2>2 DEF QueuedOnce, DeliveredOnce, TypeOK
  <2>5. QED
    BY <2>3, <2>4
<1>11. ASSUME NEW p \in Producers, EnqueueEvicts(p)
       PROVE  HeldByOne' /\ QueuedOnce' /\ DeliveredOnce'
  <2>1. /\ nodes # <<>> /\ nodes' = Tail(nodes) /\ UNCHANGED <<delivered, event>>
        /\ fate' = [fate EXCEPT ![Head(nodes)] = "evicted"]
    BY <1>11 DEF EnqueueEvicts, EvictOldest, MustEvict
  <2>2. QueuedOnce' /\ DeliveredOnce'
    BY <1>1, <1>3, <1>5, <2>1 DEF QueuedOnce, DeliveredOnce, TypeOK
  <2>3. \A b \in Blobs : fate'[b] = "held" <=> fate[b] = "held"
    BY <1>5, <2>1 DEF TypeOK
  <2>4. QED
    BY <1>1, <2>1, <2>2, <2>3 DEF HeldByOne
<1>12. ASSUME NEW p \in Producers, EnqueueStores(p)
       PROVE  HeldByOne' /\ QueuedOnce' /\ DeliveredOnce'
  <2> DEFINE b == event[p]
  <2>1. b \in Blobs /\ UNCHANGED delivered /\ event' = [event EXCEPT ![p] = NoEvent]
    BY <1>12, Holdings DEF EnqueueStores
  <2>2. fate[b] = "held"
    BY <1>1, <2>1 DEF HeldByOne
  <2>3. CASE Full(b)
    <3>1. UNCHANGED nodes /\ fate' = [fate EXCEPT ![b] = "quota"]
      BY <1>12, <2>3 DEF EnqueueStores, AppendBlob
    <3>2. HeldByOne'
      BY <1>1, <2>1, <3>1, LetGo DEF Fates
    <3>3. QED
      BY <1>1, <1>3, <2>1, <2>2, <3>1, <3>2 DEF QueuedOnce, DeliveredOnce, TypeOK
  <2>4. CASE ~Full(b)
    <3>1. nodes' = Append(nodes, b) /\ fate' = [fate EXCEPT ![b] = "queued"]
      BY <1>12, <2>4 DEF EnqueueStores, AppendBlob
    <3>2. HeldByOne'
      BY <1>1, <2>1, <3>1, LetGo DEF Fates
    <3>3. b \notin ToSet(nodes)
      BY <1>1, <2>2 DEF QueuedOnce
    <3>4. IsInjective(nodes') /\ ToSet(nodes') = ToSet(nodes) \cup {b}
      BY <1>1, <2>1, <3>1, <3>3, AppendDistinct DEF QueuedOnce, TypeOK
    <3>5. QueuedOnce' /\ DeliveredOnce'
      BY <1>1, <1>3, <2>1, <2>2, <3>1, <3>4 DEF QueuedOnce, DeliveredOnce, TypeOK
    <3>6. QED
      BY <3>2, <3>5
  <2>5. QED
    BY <2>3, <2>4
<1>13. CASE ShutdownPurge /\ UNCHANGED event
  <2>1. /\ nodes' = <<>> /\ UNCHANGED delivered
        /\ fate' = [b \in Blobs |-> IF b \in ToSet(nodes) THEN "purged" ELSE fate[b]]
    BY <1>13 DEF ShutdownPurge, PurgeQueue
  <2>2. ToSet(nodes') = {} /\ IsInjective(nodes')
    BY <2>1 DEF ToSet, IsInjective
  <2>3. QED
    BY <1>1, <1>3, <1>13, <2>1, <2>2 DEF HeldByOne, QueuedOnce, DeliveredOnce
<1>14. QED
  BY <1>4, <1>6, <1>7, <1>8, <1>9, <1>10, <1>11, <1>12, <1>13, FrameEvents DEF EventStep

-----------------------------------------------------------------------------
(* Threads, the rundown and the shutdown.                                  *)

\* The requests on their way into the CSQ, which hold the rundown.
Entering == {r \in Irps : irpPc[r] \in {"claim", "insert"}}

\* A request in the CSQ holds no rundown, nor does one a producer took.
LEMMA PlacedHoldsNothing ==
    ASSUME TypeOK, HoldingsFit, RequestsAccounted
    PROVE  /\ \A i \in DOMAIN pended : pended[i] \in Irps /\ irpPc[pended[i]] = "pended"
           /\ pended # <<>> => 1 \in DOMAIN pended /\ Head(pended) = pended[1]
           /\ \A p \in Producers : pubPc[p] = "copy" =>
                taken[p] \in Irps /\ irpPc[taken[p]] = "owned"
           /\ \A r \in Irps, pc \in {"owned", "done"} :
                irpPc[r] \in Placed /\ Goto(r, pc) => Entering' = Entering
<1>1. ASSUME NEW i \in DOMAIN pended
      PROVE  pended[i] \in Irps /\ irpPc[pended[i]] = "pended"
  BY RemoveDistinct DEF TypeOK, RequestsAccounted
<1>2. pended # <<>> => 1 \in DOMAIN pended /\ Head(pended) = pended[1]
  BY EmptySeq, LenProperties DEF TypeOK
<1>3. ASSUME NEW p \in Producers, pubPc[p] = "copy"
      PROVE  taken[p] \in Irps /\ irpPc[taken[p]] = "owned"
  BY <1>3, Holdings DEF RequestsAccounted
<1>4. ASSUME NEW r \in Irps, NEW pc \in {"owned", "done"},
             irpPc[r] \in Placed, Goto(r, pc)
      PROVE  Entering' = Entering
  BY <1>4 DEF Entering, Placed, TypeOK
<1>5. QED
  BY <1>1, <1>2, <1>3, <1>4

\* Every reference on the rundown is taken and released by one thread.
LEMMA ThreadsStep ==
    ASSUME TypeOK, HoldingsFit, RequestsAccounted, RundownAccounted, [Next]_vars
    PROVE  ThreadTypes' /\ HoldingsFit' /\ RundownAccounted'
<1> USE DEF Publishing, Cancelling, InDispatch, IrpPcs, ShutdownPcs
<1>0. ASSUME UNCHANGED <<inside, ctl, pubPc>>, Entering' = Entering
      PROVE  RundownAccounted'
  BY <1>0 DEF RundownAccounted, Entering
<1>1. CASE UNCHANGED vars
  BY <1>1 DEF TypeOK, ThreadTypes, HoldingsFit, RundownAccounted
<1>2. ASSUME NEW r \in Irps, Requesting(r)
      PROVE  ThreadTypes' /\ HoldingsFit' /\ RundownAccounted'
  <2>1. UNCHANGED producerVars /\ HoldingsFit'
    BY <1>2 DEF Requesting, HoldingsFit
  <2>2. FileOf[r] \in Handles
    BY RequestsOfHandles
  <2>3. CASE Issue(r)
    BY <2>1, <2>3 DEF Issue, TypeOK, ThreadTypes, RundownAccounted
  <2>4. CASE Reap(r)
    BY <2>1, <2>4 DEF Reap, TypeOK, ThreadTypes, RundownAccounted
  <2>5. CASE CancelIo(r)
    <3>1. ThreadTypes'
      BY <2>1, <2>5 DEF CancelIo, TypeOK, ThreadTypes
    <3>2. CASE \E i \in DOMAIN pended : pended[i] = r /\ RemoveIrp(i) /\ Complete(r)
      <4>1. Entering' = Entering
        BY <3>2, PlacedHoldsNothing DEF Placed
      <4>2. QED
        BY <1>0, <2>1, <2>5, <3>1, <4>1 DEF CancelIo
    <3>3. CASE UNCHANGED irpPc
      BY <1>0, <2>1, <2>5, <3>1, <3>3 DEF CancelIo, Entering
    <3>4. QED
      BY <2>5, <3>2, <3>3 DEF CancelIo
  <2>6. CASE GetAcquire(r)
    BY <2>1, <2>2, <2>6 DEF GetAcquire, TypeOK, ThreadTypes, RundownAccounted
  <2>7. CASE GetDequeue(r)
    BY <2>1, <2>7 DEF GetDequeue, TypeOK, ThreadTypes, RundownAccounted
  <2>8. CASE PendEnter(r)
    BY <2>1, <2>8, ProducerThreads, DistinctThreads
       DEF PendEnter, TypeOK, ThreadTypes, RundownAccounted
  <2>9. CASE PendClaim(r)
    BY <2>1, <2>2, <2>9, ProducerThreads, DistinctThreads
       DEF PendClaim, TypeOK, ThreadTypes, RundownAccounted
  <2>10. CASE PendInsert(r)
    BY <2>1, <2>10, ProducerThreads, DistinctThreads
       DEF PendInsert, TypeOK, ThreadTypes, RundownAccounted
  <2>11. QED
    BY <1>2, <2>3, <2>4, <2>5, <2>6, <2>7, <2>8, <2>9, <2>10 DEF Requesting, GetEvent
<1>3. ASSUME NEW h \in Handles, Controlling(h)
      PROVE  ThreadTypes' /\ HoldingsFit' /\ RundownAccounted'
  <2>1. UNCHANGED producerVars /\ HoldingsFit'
    BY <1>3 DEF Controlling, HoldingsFit
  <2>2. CASE HandleInit(h)
    BY <2>1, <2>2 DEF HandleInit, TypeOK, ThreadTypes, RundownAccounted
  <2>3. CASE HandleStop(h)
    BY <2>1, <2>3 DEF HandleStop, MayControl, TypeOK, ThreadTypes, RundownAccounted
  <2>4. CASE Cleanup(h)
    BY <2>1, <2>4 DEF Cleanup, MayControl, TypeOK, ThreadTypes, RundownAccounted
  <2>5. CASE CancelEnter(h)
    <3>1. CASE shutdownStarted /\ ctl' = [ctl EXCEPT ![h] = "open"] /\ UNCHANGED inside
      BY <2>1, <2>5, <3>1 DEF CancelEnter, TypeOK, ThreadTypes, RundownAccounted
    <3>2. CASE AcquireDriverRundown(h) /\ ctl' = [ctl EXCEPT ![h] = "cancel"]
      BY <2>1, <2>5, <3>2, ProducerThreads, DistinctThreads
         DEF CancelEnter, TypeOK, ThreadTypes, RundownAccounted
    <3>3. QED
      BY <2>5, <3>1, <3>2 DEF CancelEnter
  <2>6. CASE CancelNext(h)
    <3>1. ThreadTypes'
      BY <2>1, <2>6 DEF CancelNext, TypeOK, ThreadTypes
    <3>2. Entering' = Entering
      BY <2>6, PlacedHoldsNothing DEF CancelNext, Placed
    <3>3. QED
      BY <1>0, <2>1, <2>6, <3>1, <3>2 DEF CancelNext
  <2>7. CASE CancelLast(h)
    BY <2>1, <2>7 DEF CancelLast, TypeOK, ThreadTypes, RundownAccounted
  <2>8. CASE CancelClear(h)
    BY <2>1, <2>8, ProducerThreads, DistinctThreads
       DEF CancelClear, TypeOK, ThreadTypes, RundownAccounted
  <2>9. QED
    BY <1>3, <2>2, <2>3, <2>4, <2>5, <2>6, <2>7, <2>8 DEF Controlling, CancelForFile
<1>4. CASE ShuttingDown
  <2> USE DEF ShuttingDown, Shutdown, ShutdownStart, ShutdownPause, ShutdownWait,
              ShutdownDrain, ShutdownUnclaim, ShutdownPurge, ShutdownDelete
  <2>1. HoldingsFit' /\ UNCHANGED <<inside, ctl, pubPc>>
    BY <1>4 DEF HoldingsFit
  <2>2. ThreadTypes'
    BY <1>4 DEF TypeOK, ThreadTypes
  <2>3. UNCHANGED irpPc \/ (pended # <<>> /\ Complete(Head(pended)))
    BY <1>4
  <2>4. Entering' = Entering
    BY <2>3, PlacedHoldsNothing DEF Entering, Placed
  <2>5. QED
    BY <1>0, <2>1, <2>2, <2>4
<1>5. ASSUME NEW p \in Producers, Producer(p)
      PROVE  ThreadTypes' /\ HoldingsFit' /\ RundownAccounted'
  <2>1. ASSUME NEW b \in Blobs, Publish(p, b)
        PROVE  ThreadTypes' /\ HoldingsFit' /\ RundownAccounted'
    <3>1. ThreadTypes'
      BY <2>1 DEF Publish, TypeOK, ThreadTypes
    <3>2. HoldingsFit'
      BY <2>1, ProducerThreads DEF Publish, TypeOK, HoldingsFit
    <3>3. RundownAccounted'
      BY <2>1 DEF Publish, TypeOK, RundownAccounted
    <3>4. QED
      BY <3>1, <3>2, <3>3
  <2>2. CASE Filter(p)
    BY <2>2, ProducerThreads DEF Filter, TypeOK, ThreadTypes, HoldingsFit, RundownAccounted
  <2>3. CASE TakeIrp(p)
    <3>1. ThreadTypes'
      BY <2>3 DEF TakeIrp, TypeOK, ThreadTypes
    <3>2. CASE pended = <<>>
      BY <2>3, <3>1, <3>2 DEF TakeIrp, TypeOK, HoldingsFit, RundownAccounted
    <3>3. CASE pended # <<>>
      <4>1. Head(pended) \in Irps /\ Entering' = Entering
        BY <2>3, <3>3, PlacedHoldsNothing DEF TakeIrp, Placed
      <4>2. HoldingsFit'
        BY <2>3, <3>3, <4>1, ProducerThreads DEF TakeIrp, TypeOK, HoldingsFit
      <4>3. RundownAccounted'
        BY <2>3, <3>3, <4>1 DEF TakeIrp, TypeOK, RundownAccounted, Entering
      <4>4. QED
        BY <3>1, <4>2, <4>3
    <3>4. QED
      BY <3>2, <3>3
  <2>4. CASE HandOver(p)
    <3>1. ThreadTypes'
      BY <2>4 DEF HandOver, TypeOK, ThreadTypes
    <3>2. HoldingsFit'
      BY <2>4, ProducerThreads DEF HandOver, TypeOK, HoldingsFit
    <3>3. Entering' = Entering
      BY <2>4, PlacedHoldsNothing DEF HandOver, Placed
    <3>4. RundownAccounted'
      BY <2>4, <3>3, ProducerThreads DEF HandOver, TypeOK, RundownAccounted, Entering
    <3>5. QED
      BY <3>1, <3>2, <3>4
  <2>5. CASE EnqueueFails(p)
    BY <2>5, ProducerThreads
       DEF EnqueueFails, TypeOK, ThreadTypes, HoldingsFit, RundownAccounted
  <2>6. CASE EnqueueEvicts(p)
    BY <2>6 DEF EnqueueEvicts, TypeOK, ThreadTypes, HoldingsFit, RundownAccounted
  <2>7. CASE EnqueueStores(p)
    BY <2>7, ProducerThreads
       DEF EnqueueStores, TypeOK, ThreadTypes, HoldingsFit, RundownAccounted
  <2>8. QED
    BY <1>5, <2>1, <2>2, <2>3, <2>4, <2>5, <2>6, <2>7 DEF Producer
<1>6. QED
  BY <1>1, <1>2, <1>3, <1>4, <1>5 DEF Next

\* Whoever enters finds the driver running, so the shutdown, once it has
\* waited, is alone; what it then empties nobody fills again.
LEMMA ShutdownStep ==
    ASSUME TypeOK, HoldingsFit, RequestsAccounted, RundownAccounted, ShutdownSafe,
           [Next]_vars
    PROVE  ShutdownSafe'
<1> USE DEF Publishing, Cancelling, Drained
<1>1. CASE UNCHANGED vars
  BY <1>1 DEF ShutdownSafe
<1>2. sd \in Drained =>
        /\ shutdownStarted /\ inside = {}
        /\ \A p \in Producers : pubPc[p] \notin Publishing
        /\ \A r \in Irps : irpPc[r] \notin {"claim", "insert"}
        /\ \A h \in Handles : ctl[h] \notin Cancelling
        /\ \A p \in Producers : taken[p] = NoIrp
        /\ \A r \in Irps : irpPc[r] # "owned"
  <2>1. SUFFICES ASSUME sd \in Drained
        PROVE  /\ shutdownStarted /\ inside = {}
               /\ \A p \in Producers : pubPc[p] \notin Publishing
               /\ \A r \in Irps : irpPc[r] \notin {"claim", "insert"}
               /\ \A h \in Handles : ctl[h] \notin Cancelling
               /\ \A p \in Producers : taken[p] = NoIrp
               /\ \A r \in Irps : irpPc[r] # "owned"
    OBVIOUS
  <2>2. shutdownStarted /\ inside = {}
    BY <2>1 DEF ShutdownSafe
  <2>3. /\ \A p \in Producers : pubPc[p] \notin Publishing
        /\ \A r \in Irps : irpPc[r] \notin {"claim", "insert"}
        /\ \A h \in Handles : ctl[h] \notin Cancelling
    BY <2>2 DEF RundownAccounted
  <2>4. \A p \in Producers : taken[p] = NoIrp
    BY <2>3 DEF HoldingsFit
  <2>5. \A r \in Irps : irpPc[r] # "owned"
    BY <2>4, ProducerThreads DEF RequestsAccounted
  <2>6. QED
    BY <2>2, <2>3, <2>4, <2>5
<1>3. ASSUME NEW r \in Irps, Requesting(r)
      PROVE  ShutdownSafe'
  <2>1. UNCHANGED <<sd, shutdownStarted>>
    BY <1>3 DEF Requesting, Issue, Reap, CancelIo, GetEvent, GetAcquire, GetDequeue,
                PendEnter, PendClaim, PendInsert
  <2>2. sd \in Drained => inside' = {}
    BY <1>2, <1>3 DEF Requesting, Issue, Reap, CancelIo, GetEvent, GetAcquire,
          GetDequeue, PendEnter, PendClaim, PendInsert
  <2>3. sd \in Drained \ {"drain"} => pended' = <<>>
    BY <1>2, <1>3, PlacedHoldsNothing
       DEF ShutdownSafe, Requesting, Issue, Reap, CancelIo, GetEvent, GetAcquire,
           GetDequeue, PendEnter, PendClaim, PendInsert
  <2>4. sd \in Drained \ {"drain"} => \A q \in Irps : irpPc'[q] \notin Placed
    BY <1>2, <1>3, PlacedHoldsNothing
       DEF ShutdownSafe, Requesting, Issue, Reap, CancelIo, GetEvent, GetAcquire,
           GetDequeue, PendEnter, PendClaim, PendInsert, TypeOK, Placed
  <2>5. sd \in {"delete", "gone"} => nodes' = <<>>
    BY <1>3 DEF ShutdownSafe, Requesting, Issue, Reap, CancelIo, GetEvent,
          GetAcquire, GetDequeue, DequeueBlob, FindEmpty, PendEnter, PendClaim,
          PendInsert
  <2>6. QED
    BY <2>1, <2>2, <2>3, <2>4, <2>5 DEF ShutdownSafe, Placed
<1>4. ASSUME NEW h \in Handles, Controlling(h)
      PROVE  ShutdownSafe'
  <2> USE DEF Controlling, HandleInit, HandleStop, Cleanup, CancelForFile,
              CancelEnter, CancelNext, CancelLast, CancelClear
  <2>1. UNCHANGED <<sd, shutdownStarted, nodes>>
    BY <1>4
  <2>2. sd \in Drained => UNCHANGED <<inside, pended, irpPc>>
    BY <1>2, <1>4
  <2>3. QED
    BY <2>1, <2>2 DEF ShutdownSafe
<1>5. ASSUME NEW p \in Producers, Producer(p)
      PROVE  ShutdownSafe'
  <2> USE DEF Producer, Publish, Filter, TakeIrp, HandOver, EnqueueFails,
              EnqueueEvicts, EnqueueStores
  <2>1. UNCHANGED <<sd, shutdownStarted>>
    BY <1>5
  <2>2. sd \in Drained => UNCHANGED <<inside, pended, irpPc, nodes>>
    BY <1>2, <1>5
  <2>3. QED
    BY <2>1, <2>2 DEF ShutdownSafe
<1>6. CASE ShuttingDown
  <2>1. CASE ShutdownDrain
    <3>1. CASE pended = <<>>
      <4>1. \A r \in Irps : irpPc[r] # "pended"
        BY <3>1 DEF RequestsAccounted, ToSet
      <4>2. QED
        BY <1>2, <2>1, <3>1, <4>1 DEF ShutdownDrain, ShutdownSafe
    <3>2. CASE pended # <<>>
      BY <2>1, <3>2 DEF ShutdownDrain, ShutdownSafe
    <3>3. QED
      BY <3>1, <3>2
  <2>2. CASE ShutdownPurge
    BY <2>2 DEF ShutdownPurge, PurgeQueue, ShutdownSafe
  <2>3. CASE ShutdownStart \/ ShutdownPause \/ ShutdownWait \/ ShutdownUnclaim
               \/ ShutdownDelete
    BY <2>3 DEF ShutdownStart, ShutdownPause, ShutdownWait, ShutdownUnclaim,
                ShutdownDelete, ShutdownSafe
  <2>4. QED
    BY <1>6, <2>1, <2>2, <2>3 DEF ShuttingDown, Shutdown
<1>7. QED
  BY <1>1, <1>3, <1>4, <1>5, <1>6 DEF Next

-----------------------------------------------------------------------------
\* Inv is inductive.
LEMMA InvStep == Inv /\ [Next]_vars => Inv'
<1> SUFFICES ASSUME Inv, [Next]_vars PROVE Inv'
  OBVIOUS
<1>1. /\ TypeOK /\ QueueCounted /\ HoldingsFit /\ RequestsAccounted
      /\ EventsAccounted /\ RundownAccounted /\ ShutdownSafe
  BY DEF Inv
<1>2. EventTypes' /\ QueueCounted'
  BY <1>1, EventTypesStep
<1>3. RequestTypes' /\ RequestsAccounted'
  BY <1>1, RequestsStep
<1>4. ThreadTypes' /\ HoldingsFit' /\ RundownAccounted'
  BY <1>1, ThreadsStep
<1>5. EventsAccounted'
  BY <1>1, EventsStep
<1>6. ShutdownSafe'
  BY <1>1, ShutdownStep
<1>7. TypeOK'
  BY <1>2, <1>3, <1>4 DEF TypeOK, EventTypes, RequestTypes, ThreadTypes
<1>8. QED
  BY <1>2, <1>3, <1>4, <1>5, <1>6, <1>7 DEF Inv

THEOREM InvHolds == Spec => []Inv
  BY InitInv, InvStep, PTL DEF Spec

\* The state of the channel keeps its types, and the counters of the queue
\* keep their limits, through any interleaving of evictions, dequeues and
\* purges.
THEOREM TypeCorrect == Spec => []TypeOK
<1>1. Inv => TypeOK
  BY DEF Inv
<1>2. QED
  BY <1>1, InvHolds, PTL

\* The counters the code keeps by hand agree with the list, and its limits
\* hold, whatever enqueues evict or refuse (SysmonEnqueueBlob of queue.c).
THEOREM QueueIsAccounted == Spec => []QueueAccounting
<1>1. Inv => QueueAccounting
  BY QueueLimits DEF Inv, TypeOK, QueueCounted, QueueAccounting
<1>2. QED
  BY <1>1, InvHolds, PTL

\* No request is completed twice or forgotten, however cancellation,
\* producers, STOP and shutdown race for it (the CSQ of communication.c).
THEOREM RequestsSafe == Spec => []RequestsAccounted
<1>1. Inv => RequestsAccounted
  BY DEF Inv
<1>2. QED
  BY <1>1, InvHolds, PTL

\* No event is delivered twice, and none that was dropped is delivered.
THEOREM EventsSafe == Spec => []EventsAccounted
<1>1. Inv => EventsAccounted
  BY DEF Inv
<1>2. QED
  BY <1>1, InvHolds, PTL

\* Every rundown reference has its thread (driver.c, RunDownRef).
THEOREM RundownSafe == Spec => []RundownAccounted
<1>1. Inv => RundownAccounted
  BY DEF Inv
<1>2. QED
  BY <1>1, InvHolds, PTL

\* A shutdown that has waited leaves no request and no node behind.
THEOREM ShutdownIsSafe == Spec => []ShutdownSafe
<1>1. Inv => ShutdownSafe
  BY DEF Inv
<1>2. QED
  BY <1>1, InvHolds, PTL

-----------------------------------------------------------------------------
(***************************************************************************)
(* The single consumer.  A client that keeps its control calls and its     *)
(* requests in one thread has no request in the driver while a STOP or a   *)
(* close runs for it, so what such a call gives up, the queue, is not what *)
(* one of its requests relies on: from the check of                        *)
(* SysmonTryAcquireQueueConsumer to its event a request belongs to the     *)
(* consumer, until a shutdown takes the queue from it.                     *)
(***************************************************************************)
Relying == {"dequeue", "insert", "pended", "owned"}

ControlIsQuiet == \A h \in Handles : ctl[h] # "open" => Quiet(h)

OwnersConsume ==
    \A r \in Irps : irpPc[r] \in Relying => FileOf[r] = consumer \/ sd \in Drained

SerialInv == ControlIsQuiet /\ OwnersConsume

LEMMA SerialInitially == Init => SerialInv
BY DEF Init, ChannelInit, SerialInv, ControlIsQuiet, OwnersConsume, Relying

\* A request that moves while its handle is not under control, or that is
\* handed back, disturbs no control call.
LEMMA MovesKeepQuiet ==
    ASSUME TypeOK, ControlIsQuiet, NEW r \in Irps, NEW pc, Goto(r, pc), UNCHANGED ctl,
           \/ irpPc[r] \notin {"idle", "done"}
           \/ pc \in {"idle", "done"}
           \/ ctl[FileOf[r]] = "open"
    PROVE  ControlIsQuiet'
<1> SUFFICES ASSUME NEW h \in Handles, ctl[h] # "open", NEW q \in Irps, FileOf[q] = h
             PROVE  irpPc'[q] \in {"idle", "done"}
  BY DEF ControlIsQuiet, Quiet, Requests
<1>1. irpPc[q] \in {"idle", "done"}
  BY DEF ControlIsQuiet, Quiet, Requests
<1>2. CASE q = r
  BY <1>1, <1>2 DEF TypeOK
<1>3. CASE q # r
  BY <1>1, <1>3 DEF TypeOK
<1>4. QED
  BY <1>2, <1>3

\* A request that moves and relies on the queue belongs to the consumer, if
\* it relied on it before or has just been let through.
LEMMA MovesKeepOwners ==
    ASSUME TypeOK, OwnersConsume, NEW r \in Irps, NEW pc, Goto(r, pc),
           sd \in Drained => sd' \in Drained,
           \A q \in Irps : FileOf[q] = consumer => FileOf[q] = consumer' \/ sd' \in Drained,
           pc \in Relying => irpPc[r] \in Relying \/ FileOf[r] = consumer'
    PROVE  OwnersConsume'
<1> SUFFICES ASSUME NEW q \in Irps, irpPc'[q] \in Relying
             PROVE  FileOf[q] = consumer' \/ sd' \in Drained
  BY DEF OwnersConsume
<1>1. CASE q = r
  BY <1>1 DEF TypeOK, OwnersConsume
<1>2. CASE q # r
  BY <1>2 DEF TypeOK, OwnersConsume
<1>3. QED
  BY <1>1, <1>2

LEMMA StaysKeepSerial ==
    ASSUME SerialInv, UNCHANGED <<irpPc, ctl>>,
           sd \in Drained => sd' \in Drained,
           \A q \in Irps : irpPc[q] \in Relying =>
             (FileOf[q] = consumer => FileOf[q] = consumer' \/ sd' \in Drained)
    PROVE  SerialInv'
BY DEF SerialInv, ControlIsQuiet, OwnersConsume, Quiet, Requests

LEMMA SerialStep ==
    ASSUME SerialClient, Inv, SerialInv, [Next]_vars
    PROVE  SerialInv'
<1> USE DEF Relying, Drained
<1>0. TypeOK /\ HoldingsFit /\ RequestsAccounted /\ ControlIsQuiet /\ OwnersConsume
  BY DEF Inv, SerialInv
<1>1. CASE UNCHANGED vars
  BY <1>1, StaysKeepSerial
<1>2. ASSUME NEW r \in Irps, Requesting(r)
      PROVE  SerialInv'
  <2>1. UNCHANGED <<ctl, sd>>
    BY <1>2 DEF Requesting, Issue, Reap, CancelIo, GetEvent, GetAcquire, GetDequeue,
                PendEnter, PendClaim, PendInsert
  <2>2. ASSUME NEW pc, Goto(r, pc),
               \/ irpPc[r] \notin {"idle", "done"} \/ pc \in {"idle", "done"}
               \/ ctl[FileOf[r]] = "open",
               \A q \in Irps : FileOf[q] = consumer => FileOf[q] = consumer',
               pc \in Relying => irpPc[r] \in Relying \/ FileOf[r] = consumer'
        PROVE  SerialInv'
    BY ONLY <1>0, <2>1, <2>2, MovesKeepQuiet, MovesKeepOwners DEF SerialInv
  <2>3. CASE Issue(r)
    BY <2>2, <2>3 DEF Issue
  <2>4. CASE Reap(r)
    BY <2>2, <2>4 DEF Reap
  <2>5. CASE CancelIo(r)
    <3>1. UNCHANGED consumer
      BY <2>5 DEF CancelIo
    <3>2. CASE Complete(r)
      BY <2>2, <3>1, <3>2
    <3>3. CASE UNCHANGED irpPc
      BY <2>1, <3>1, <3>3, StaysKeepSerial
    <3>4. QED
      BY <2>5, <3>2, <3>3 DEF CancelIo
  <2>6. CASE GetAcquire(r)
    BY <2>2, <2>6, RequestsOfHandles DEF GetAcquire, MayConsume
  <2>7. CASE GetDequeue(r)
    BY <2>2, <2>7 DEF GetDequeue
  <2>8. CASE PendEnter(r)
    BY <2>2, <2>8 DEF PendEnter
  <2>9. CASE PendClaim(r)
    BY <2>2, <2>9, RequestsOfHandles DEF PendClaim, MayConsume
  <2>10. CASE PendInsert(r)
    BY <2>2, <2>10 DEF PendInsert
  <2>11. QED
    BY <1>2, <2>3, <2>4, <2>5, <2>6, <2>7, <2>8, <2>9, <2>10 DEF Requesting, GetEvent
<1>3. ASSUME NEW h \in Handles, Controlling(h)
      PROVE  SerialInv'
  <2>1. UNCHANGED sd
    BY <1>3 DEF Controlling, HandleInit, HandleStop, Cleanup, CancelForFile,
                CancelEnter, CancelNext, CancelLast, CancelClear
  <2>2. ASSUME UNCHANGED irpPc, NEW pc, ctl' = [ctl EXCEPT ![h] = pc],
               ctl[h] # "open" \/ Quiet(h),
               UNCHANGED consumer \/ consumer = h
        PROVE  SerialInv'
    <3>1. Quiet(h)
      BY <1>0, <2>2 DEF ControlIsQuiet
    <3>2. ControlIsQuiet'
      BY <1>0, <2>2, <3>1 DEF ControlIsQuiet, Quiet, Requests, TypeOK
    <3>3. OwnersConsume'
      BY <1>0, <2>1, <2>2, <3>1 DEF OwnersConsume, Quiet, Requests
    <3>4. QED
      BY <3>2, <3>3 DEF SerialInv
  <2>3. CASE HandleInit(h)
    BY <2>1, <2>3, StaysKeepSerial DEF HandleInit
  <2>4. CASE HandleStop(h)
    BY <2>2, <2>4 DEF HandleStop, MayControl
  <2>5. CASE Cleanup(h)
    BY <2>2, <2>5 DEF Cleanup, MayControl
  <2>6. CASE CancelEnter(h)
    BY <2>2, <2>6 DEF CancelEnter
  <2>7. CASE CancelNext(h)
    <3>1. PICK i \in DOMAIN pended : Complete(pended[i])
      BY <2>7 DEF CancelNext
    <3>2. pended[i] \in Irps
      BY <1>0, <3>1, PlacedHoldsNothing
    <3>3. UNCHANGED <<ctl, consumer>>
      BY <2>7 DEF CancelNext
    <3>4. QED
      BY <1>0, <2>1, <3>1, <3>2, <3>3, MovesKeepQuiet, MovesKeepOwners DEF SerialInv
  <2>8. CASE CancelLast(h)
    BY <2>2, <2>8 DEF CancelLast
  <2>9. CASE CancelClear(h)
    BY <2>2, <2>9 DEF CancelClear
  <2>10. QED
    BY <1>3, <2>3, <2>4, <2>5, <2>6, <2>7, <2>8, <2>9 DEF Controlling, CancelForFile
<1>4. CASE ShuttingDown
  <2> USE DEF ShuttingDown, Shutdown, ShutdownStart, ShutdownPause, ShutdownWait,
              ShutdownDrain, ShutdownUnclaim, ShutdownPurge, ShutdownDelete
  <2>1. /\ UNCHANGED ctl
        /\ sd \in Drained => sd' \in Drained
        /\ UNCHANGED consumer \/ sd' \in Drained
    BY <1>4
  <2>2. CASE UNCHANGED irpPc
    BY <2>1, <2>2, StaysKeepSerial
  <2>3. CASE pended # <<>> /\ Complete(Head(pended))
    <3>1. Head(pended) \in Irps
      BY <1>0, <2>3, PlacedHoldsNothing
    <3>2. QED
      BY <1>0, <2>1, <2>3, <3>1, MovesKeepQuiet, MovesKeepOwners DEF SerialInv
  <2>4. QED
    BY <1>4, <2>2, <2>3
<1>5. ASSUME NEW p \in Producers, Producer(p)
      PROVE  SerialInv'
  <2>1. UNCHANGED <<ctl, sd, consumer>>
    BY <1>5 DEF Producer, Publish, Filter, TakeIrp, HandOver, EnqueueFails,
                EnqueueEvicts, EnqueueStores
  <2>2. CASE UNCHANGED irpPc
    BY <2>1, <2>2, StaysKeepSerial
  <2>3. ASSUME NEW r \in Irps, NEW pc, Goto(r, pc), irpPc[r] \in Placed
        PROVE  SerialInv'
    BY <1>0, <2>1, <2>3, MovesKeepQuiet, MovesKeepOwners DEF SerialInv, Placed
  <2>4. CASE TakeIrp(p)
    <3>1. CASE pended # <<>>
      <4>1. Head(pended) \in Irps /\ irpPc[Head(pended)] = "pended"
        BY <1>0, <3>1, PlacedHoldsNothing
      <4>2. QED
        BY <2>3, <2>4, <3>1, <4>1 DEF TakeIrp, Placed
    <3>2. QED
      BY <2>2, <2>4, <3>1 DEF TakeIrp
  <2>5. CASE HandOver(p)
    <3>1. taken[p] \in Irps /\ irpPc[taken[p]] = "owned"
      BY <1>0, <2>5, PlacedHoldsNothing DEF HandOver
    <3>2. QED
      BY <2>3, <2>5, <3>1 DEF HandOver, Placed
  <2>6. QED
    BY <1>5, <2>2, <2>4, <2>5 DEF Producer, Publish, Filter, EnqueueFails,
                                  EnqueueEvicts, EnqueueStores
<1>6. QED
  BY <1>1, <1>2, <1>3, <1>4, <1>5 DEF Next

\* What a request is given, it is given as the consumer's.
LEMMA DeliveredToOwner ==
    ASSUME TypeOK, OwnersConsume, NEW r \in Irps, NEW b \in Blobs, Deliver(r, b),
           irpPc[r] \in Relying
    PROVE  Len(delivered') > Len(delivered)
             => FileOf[Last(delivered').irp] = consumer \/ sd \in Drained
<1>1. CASE UNCHANGED delivered
  BY <1>1, LenProperties DEF TypeOK
<1>2. CASE delivered' = Append(delivered, [irp |-> r, blob |-> b])
  <2>1. [irp |-> r, blob |-> b] \in [irp : Irps, blob : Blobs]
    OBVIOUS
  <2>2. Last(delivered') = [irp |-> r, blob |-> b]
    BY <1>2, <2>1, AppendProperties DEF TypeOK, Last
  <2>3. QED
    BY <2>2 DEF OwnersConsume
<1>3. QED
  BY <1>1, <1>2 DEF Deliver

LEMMA OwnerStep ==
    ASSUME Inv, SerialInv, [Next]_vars
    PROVE  Len(delivered') > Len(delivered)
             => FileOf[Last(delivered').irp] = consumer \/ sd \in Drained
<1>0. TypeOK /\ HoldingsFit /\ RequestsAccounted /\ OwnersConsume
  BY DEF Inv, SerialInv
<1>1. CASE UNCHANGED delivered
  BY <1>0, <1>1, LenProperties DEF TypeOK
<1>2. ASSUME NEW r \in Irps, GetDequeue(r), ~ UNCHANGED delivered
      PROVE  FileOf[Last(delivered').irp] = consumer \/ sd \in Drained
             \/ ~ (Len(delivered') > Len(delivered))
  <2>1. DequeueBlob /\ Deliver(r, Head(nodes)) /\ irpPc[r] = "dequeue"
    BY <1>2 DEF GetDequeue
  <2>2. Head(nodes) \in Blobs
    BY <1>0, <2>1, HeadTailProperties DEF TypeOK, DequeueBlob
  <2>3. QED
    BY <1>0, <2>1, <2>2, DeliveredToOwner DEF Relying
<1>3. ASSUME NEW p \in Producers, HandOver(p)
      PROVE  FileOf[Last(delivered').irp] = consumer \/ sd \in Drained
             \/ ~ (Len(delivered') > Len(delivered))
  <2>1. Deliver(taken[p], event[p]) /\ pubPc[p] = "copy"
    BY <1>3 DEF HandOver
  <2>2. event[p] \in Blobs /\ taken[p] \in Irps /\ irpPc[taken[p]] = "owned"
    BY <1>0, <2>1, Holdings, PlacedHoldsNothing
  <2>3. QED
    BY <1>0, <2>1, <2>2, DeliveredToOwner DEF Relying
<1>4. EventStep => \/ UNCHANGED delivered
                   \/ \E r \in Irps : GetDequeue(r)
                   \/ \E p \in Producers : HandOver(p)
  BY DEF EventStep, Publish, Filter, EnqueueFails, EnqueueEvicts, EnqueueStores,
         ShutdownPurge
<1>5. QED
  BY <1>1, <1>2, <1>3, <1>4, FrameEvents

\* A handle that does not own the queue never receives an event (the comment
\* on SysmonTryAcquireQueueConsumer), as long as each client keeps its
\* control calls and its requests in one thread: whatever the clients, the
\* producers and a shutdown do in between, the check a request passed still
\* holds when its event is copied.
THEOREM OnlyTheConsumerDrains ==
    ASSUME SerialClient
    PROVE  Spec => OnlyConsumerDrains
<1>1. Init => SerialInv
  BY SerialInitially
<1>2. Inv /\ SerialInv /\ [Next]_vars => SerialInv'
  BY SerialStep
<1>3. Inv /\ SerialInv /\ [Next]_vars
        => [Len(delivered') > Len(delivered)
             => FileOf[Last(delivered').irp] = consumer \/ sd \in Drained]_vars
  BY OwnerStep
<1>4. QED
  BY <1>1, <1>2, <1>3, InvHolds, PTL DEF Spec, OnlyConsumerDrains

-----------------------------------------------------------------------------
(***************************************************************************)
(* The channel implements LossyStream.  The state of the stream is the     *)
(* list of the queue, the payloads delivered and the events with a lost    *)
(* fate; Inv says that each event is in one of them at most, which is what *)
(* the steps of the stream ask of it.                                      *)
(***************************************************************************)

\* An event on its way to be published is in none of the stream's places.
LEMMA OnTheWayIsFresh ==
    ASSUME EventsAccounted, NEW b \in Blobs, fate[b] \in {"fresh", "held"}
    PROVE  Stream!Fresh(b)
BY DEF EventsAccounted, Stream!Fresh, Lost, LostFates, ToSet, Stream!ToSet

\* One event lost is one event more among the lost.
LEMMA LoseOne ==
    ASSUME TypeOK, NEW b \in Blobs, NEW what \in LostFates,
           fate' = [fate EXCEPT ![b] = what]
    PROVE  Lost' = Lost \cup {b}
BY DEF TypeOK, Lost

\* An event that changes place outside the lost.
LEMMA LoseNone ==
    ASSUME TypeOK, NEW b \in Blobs, fate[b] \notin LostFates,
           NEW what \in Fates \ LostFates,
           fate' = [fate EXCEPT ![b] = what]
    PROVE  Lost' = Lost
BY DEF TypeOK, Lost

\* A delivery extends what is received, or loses the event.
LEMMA DeliverStep ==
    ASSUME TypeOK, NEW r \in Irps, NEW b \in Blobs, fate[b] \notin LostFates,
           Deliver(r, b)
    PROVE  \/ Received' = Append(Received, b) /\ Lost' = Lost
           \/ Received' = Received /\ Lost' = Lost \cup {b}
<1>1. CASE OutLen[r] >= SizeOf[b]
  <2>1. /\ fate' = [fate EXCEPT ![b] = "delivered"]
        /\ Received' = Append(Received, b)
    BY <1>1, ReceivedTyped DEF Deliver
  <2>2. QED
    BY <2>1, LoseNone DEF Fates, LostFates
<1>2. CASE ~(OutLen[r] >= SizeOf[b])
  <2>1. fate' = [fate EXCEPT ![b] = "truncated"] /\ Received' = Received
    BY <1>2 DEF Deliver, Received
  <2>2. QED
    BY <2>1, LoseOne DEF LostFates
<1>3. QED
  BY <1>1, <1>2

\* Every step of the channel is a step of the stream, or leaves it alone.
LEMMA StreamStep ==
    ASSUME Inv, [Next]_vars
    PROVE  [Stream!StreamNext]_(Stream!streamVars)
<1> DEFINE Simulated == [Stream!StreamNext]_(Stream!streamVars)
<1>0. TypeOK /\ HoldingsFit /\ EventsAccounted
  BY DEF Inv
<1> USE DEF Stream!StreamNext, Stream!streamVars
<1>1. UNCHANGED delivered => Received' = Received
  BY DEF Received
<1>2. CASE UNCHANGED <<nodes, count, total, lock, fate, delivered, event>>
  BY <1>1, <1>2 DEF Lost
<1>3. nodes # <<>> => Head(nodes) \in Blobs /\ fate[Head(nodes)] = "queued"
  BY <1>0, TailDistinct DEF EventsAccounted, TypeOK
<1>4. ASSUME NEW r \in Irps, GetDequeue(r)
      PROVE  Simulated
  <2>1. CASE DequeueBlob /\ Deliver(r, Head(nodes))
    <3>1. nodes # <<>> /\ nodes' = Tail(nodes)
      BY <2>1 DEF DequeueBlob
    <3>2. \/ Received' = Append(Received, Head(nodes)) /\ Lost' = Lost
          \/ Received' = Received /\ Lost' = Lost \cup {Head(nodes)}
      BY <1>0, <1>3, <2>1, <3>1, DeliverStep DEF LostFates
    <3>3. Stream!Receive \/ Stream!GiveUpOldest
      BY <3>1, <3>2 DEF Stream!Receive, Stream!GiveUpOldest
    <3>4. QED
      BY <3>3
  <2>2. CASE FindEmpty /\ UNCHANGED historyVars
    BY <1>1, <2>2 DEF FindEmpty, Lost
  <2>3. QED
    BY <1>4, <2>1, <2>2 DEF GetDequeue
<1>5. ASSUME NEW p \in Producers, NEW b \in Blobs, Publish(p, b)
      PROVE  Simulated
  <2>1. UNCHANGED nodes /\ Received' = Received /\ fate[b] = "fresh"
    BY <1>1, <1>5 DEF Publish
  <2>2. CASE fate' = [fate EXCEPT ![b] = "paused"]
    <3>1. Stream!Refuse(b)
      BY <1>0, <2>1, <2>2, LoseOne, OnTheWayIsFresh DEF Stream!Refuse, LostFates
    <3>2. QED
      BY <3>1
  <2>3. CASE fate' = [fate EXCEPT ![b] = "held"]
    BY <1>0, <2>1, <2>3, LoseNone DEF Fates, LostFates
  <2>4. QED
    BY <1>5, <2>2, <2>3 DEF Publish
<1>6. ASSUME NEW p \in Producers, pubPc[p] # "idle"
      PROVE  event[p] \in Blobs /\ fate[event[p]] = "held" /\ Stream!Fresh(event[p])
  <2>1. event[p] \in Blobs
    BY <1>0, <1>6, Holdings
  <2>2. fate[event[p]] = "held"
    BY <1>0, <2>1 DEF EventsAccounted
  <2>3. QED
    BY <1>0, <2>1, <2>2, OnTheWayIsFresh
<1>7. ASSUME NEW p \in Producers, NEW what \in LostFates, pubPc[p] # "idle",
             fate' = [fate EXCEPT ![event[p]] = what], UNCHANGED <<nodes, delivered>>
      PROVE  Simulated
  <2>1. Stream!Refuse(event[p])
    BY <1>0, <1>1, <1>6, <1>7, LoseOne DEF Stream!Refuse
  <2>2. QED
    BY <1>6, <1>7, <2>1
<1>8. ASSUME NEW p \in Producers, Filter(p)
      PROVE  Simulated
  <2>1. CASE UNCHANGED fate
    BY <1>1, <1>8, <2>1 DEF Filter, Lost
  <2>2. ASSUME NEW what \in {"refused", "filtered"},
               fate' = [fate EXCEPT ![event[p]] = what]
        PROVE  Simulated
    BY <1>7, <1>8, <2>2 DEF Filter, LostFates
  <2>3. QED
    BY <1>8, <2>1, <2>2 DEF Filter
<1>9. ASSUME NEW p \in Producers, HandOver(p)
      PROVE  Simulated
  <2> DEFINE b == event[p]
  <2>1. /\ b \in Blobs /\ fate[b] = "held" /\ Stream!Fresh(b)
        /\ taken[p] \in Irps /\ UNCHANGED nodes /\ Deliver(taken[p], b)
    BY <1>0, <1>6, <1>9, Holdings DEF HandOver
  <2>2. \/ Received' = Append(Received, b) /\ Lost' = Lost
        \/ Received' = Received /\ Lost' = Lost \cup {b}
    BY <1>0, <2>1, DeliverStep DEF LostFates
  <2>3. Stream!Pass(b) \/ Stream!Refuse(b)
    BY <2>1, <2>2 DEF Stream!Pass, Stream!Refuse
  <2>4. QED
    BY <2>1, <2>3
<1>10. ASSUME NEW p \in Producers, EnqueueFails(p)
       PROVE  Simulated
  BY <1>7, <1>10 DEF EnqueueFails, LostFates
<1>11. ASSUME NEW p \in Producers, EnqueueEvicts(p)
       PROVE  Simulated
  <2>1. /\ nodes # <<>> /\ nodes' = Tail(nodes) /\ UNCHANGED delivered
        /\ fate' = [fate EXCEPT ![Head(nodes)] = "evicted"]
    BY <1>11 DEF EnqueueEvicts, EvictOldest, MustEvict
  <2>2. Lost' = Lost \cup {Head(nodes)}
    BY <1>0, <1>3, <2>1, LoseOne DEF LostFates
  <2>3. Stream!GiveUpOldest
    BY <1>1, <2>1, <2>2 DEF Stream!GiveUpOldest
  <2>4. QED
    BY <2>3
<1>12. ASSUME NEW p \in Producers, EnqueueStores(p)
       PROVE  Simulated
  <2> DEFINE b == event[p]
  <2>1. b \in Blobs /\ fate[b] = "held" /\ Stream!Fresh(b) /\ UNCHANGED delivered
    BY <1>6, <1>12 DEF EnqueueStores
  <2>2. CASE Full(b)
    BY <1>7, <1>12, <2>2 DEF EnqueueStores, AppendBlob, LostFates
  <2>3. CASE ~Full(b)
    <3>1. nodes' = Append(nodes, b) /\ fate' = [fate EXCEPT ![b] = "queued"]
      BY <1>12, <2>3 DEF EnqueueStores, AppendBlob
    <3>2. Lost' = Lost
      BY <1>0, <2>1, <3>1, LoseNone DEF Fates, LostFates
    <3>3. Stream!Wait(b)
      BY <1>1, <2>1, <3>1, <3>2 DEF Stream!Wait
    <3>4. QED
      BY <2>1, <3>3
  <2>4. QED
    BY <2>2, <2>3
<1>13. CASE ShutdownPurge
  <2>1. /\ nodes' = <<>> /\ Received' = Received
        /\ fate' = [b \in Blobs |-> IF b \in ToSet(nodes) THEN "purged" ELSE fate[b]]
    BY <1>1, <1>13 DEF ShutdownPurge, PurgeQueue
  <2>2. ToSet(nodes) = {b \in Blobs : fate[b] = "queued"}
    BY <1>0 DEF EventsAccounted
  <2>3. Lost' = Lost \cup ToSet(nodes)
    BY <2>1, <2>2 DEF Lost, LostFates
  <2>4. Stream!GiveUpAll
    BY <2>1, <2>3 DEF Stream!GiveUpAll, ToSet, Stream!ToSet
  <2>5. QED
    BY <2>4
<1>14. QED
  BY <1>2, <1>4, <1>5, <1>8, <1>9, <1>10, <1>11, <1>12, <1>13, FrameEvents
     DEF EventStep

\* The channel starts as an empty stream.
LEMMA StreamInitially == Init => Stream!StreamInit
<1> SUFFICES ASSUME Init PROVE Stream!StreamInit
  OBVIOUS
<1>1. nodes = <<>> /\ delivered = <<>> /\ fate = [b \in Blobs |-> "fresh"]
  BY DEF Init, ChannelInit, QueueInit
<1>2. Received = <<>>
  BY <1>1 DEF Received
<1>3. Lost = {}
  BY <1>1 DEF Lost, LostFates
<1>4. QED
  BY <1>1, <1>2, <1>3 DEF Stream!StreamInit

\* The event channel (queue.c, communication.c) is a lossy stream: at most
\* once, queued events in order, and only the oldest given up.
THEOREM ChannelImplementsStream == Spec => ImplementsStream
  BY InvHolds, StreamStep, StreamInitially, PTL
     DEF Spec, ImplementsStream, Stream!StreamSpec

=============================================================================
