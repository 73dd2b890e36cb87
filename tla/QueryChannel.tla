----------------------------- MODULE QueryChannel -----------------------------
(***************************************************************************)
(* The query channel of the driver (communication.c, queue.c): a thread of *)
(* the file system asks the service whether a deletion is to be archived   *)
(* and waits two seconds for the answer.  Its SYSMON_PENDING_QUERY lives   *)
(* on its stack and is linked in g_PendingQueryList; the query goes to a   *)
(* pended GET_QUERY request or to the query queue; a worker of the service *)
(* evaluates it and answers by request id.  The list and its records are   *)
(* guarded by g_PendingQueryLock, which an answer keeps until it has       *)
(* signalled the record's event.                                           *)
(***************************************************************************)
EXTENDS Naturals, Sequences, FiniteSets, SequencesExt

CONSTANTS
    Askers,          \* threads in SysmonSubmitQueryRecordAndWait
    QueryWorkers,    \* query workers of the service, one request each
    QueryQueueSize,  \* nodes the query queue holds
    MaxQueries       \* bound: g_NextQueryRequestId

ASSUME QueryAssumption ==
    /\ QueryQueueSize \in Nat \ {0}
    /\ MaxQueries \in Nat
    /\ "free" \notin QueryWorkers

VARIABLES
    nextQuery,     \* g_NextQueryRequestId
    asker,         \* where each asker is, its request id, how its wait ended
    pendingQuery,  \* the record on the stack of each asker
    queryLock,     \* the worker inside g_PendingQueryLock, or "free"
    queryQueue,    \* QueryQueue, oldest first: request ids
    pendedQuery,   \* QueryQueue.PendingIrpList: workers with a request waiting
    queryWorker,   \* where each worker is and the request id it holds
    told           \* what each asker's last call returned for which id

queryVars == <<nextQuery, asker, pendingQuery, queryLock, queryQueue, pendedQuery,
               queryWorker, told>>

Gone == [id |-> 0, linked |-> FALSE, result |-> 0, signalled |-> FALSE]

QueryInit ==
    /\ nextQuery = 0
    /\ asker = [a \in Askers |-> [at |-> "out", status |-> "none"]]
    /\ pendingQuery = [a \in Askers |-> Gone]
    /\ queryLock = "free"
    /\ queryQueue = <<>> /\ pendedQuery = <<>>
    /\ queryWorker = [w \in QueryWorkers |-> [at |-> "idle", id |-> 0]]
    /\ told = [a \in Askers |-> [id |-> 0, status |-> "none", result |-> 0]]

AskerMoves(a, to) == asker' = [asker EXCEPT ![a].at = to]
WorkerMoves(w, to, id) == queryWorker' = [queryWorker EXCEPT ![w] = [at |-> to, id |-> id]]
InPendingList(id) == {a \in Askers : pendingQuery[a].linked /\ pendingQuery[a].id = id}

-----------------------------------------------------------------------------
(* The asker: SysmonSubmitQueryRecordAndWait.  A call while capture is     *)
(* paused or at raised IRQL returns at once and leaves nothing behind.     *)

Ask(a) ==
    /\ asker[a].at = "out" /\ nextQuery < MaxQueries
    /\ queryLock = "free"
    /\ nextQuery' = nextQuery + 1
    /\ pendingQuery' = [pendingQuery EXCEPT ![a] =
                           [id |-> nextQuery + 1, linked |-> TRUE, result |-> 0,
                            signalled |-> FALSE]]
    /\ AskerMoves(a, "send")
    /\ UNCHANGED <<queryLock, queryQueue, pendedQuery, queryWorker, told>>

\* SysmonCompletePendingQueryIrp: the first request that waits takes it.
SendQuery(a) ==
    /\ asker[a].at = "send"
    /\ IF pendedQuery = <<>>
       THEN AskerMoves(a, "enqueue") /\ UNCHANGED <<pendedQuery, queryWorker>>
       ELSE /\ AskerMoves(a, "wait")
            /\ pendedQuery' = Tail(pendedQuery)
            /\ WorkerMoves(Head(pendedQuery), "answer", pendingQuery[a].id)
    /\ UNCHANGED <<nextQuery, pendingQuery, queryLock, queryQueue, told>>

\* SysmonEnqueueQueryRecord: a full queue gives up its oldest query, whose
\* asker hears nothing of it; without memory the call fails.
EnqueueQuery(a) ==
    /\ asker[a].at = "enqueue"
    /\ \/ /\ queryQueue' = Append(IF Len(queryQueue) < QueryQueueSize THEN queryQueue
                                  ELSE Tail(queryQueue), pendingQuery[a].id)
          /\ AskerMoves(a, "wait")
       \/ /\ asker' = [asker EXCEPT ![a] = [at |-> "leave", status |-> "failed"]]
          /\ UNCHANGED queryQueue
    /\ UNCHANGED <<nextQuery, pendingQuery, queryLock, pendedQuery, queryWorker, told>>

\* The wait ends with the event or with the timeout, before or after an
\* answer has found the record.
WaitQuery(a) ==
    /\ asker[a].at = "wait"
    /\ \E status \in {"answered", "timeout"} :
          /\ status = "answered" <=> pendingQuery[a].signalled
          /\ asker' = [asker EXCEPT ![a] = [at |-> "leave", status |-> status]]
    /\ UNCHANGED <<nextQuery, pendingQuery, queryLock, queryQueue, pendedQuery,
                   queryWorker, told>>

\* The record is unlinked if no answer did it, and its stack frame is left.
\* A timeout overrides an answer that was taken meanwhile.
LeaveQuery(a) ==
    /\ asker[a].at = "leave" /\ queryLock = "free"
    /\ told' = [told EXCEPT ![a] =
                  [id |-> pendingQuery[a].id, status |-> asker[a].status,
                   result |-> IF asker[a].status = "answered"
                              THEN pendingQuery[a].result ELSE 0]]
    /\ pendingQuery' = [pendingQuery EXCEPT ![a] = Gone]
    /\ asker' = [asker EXCEPT ![a] = [at |-> "out", status |-> "none"]]
    /\ UNCHANGED <<nextQuery, queryLock, queryQueue, pendedQuery, queryWorker>>

-----------------------------------------------------------------------------
(* The service's workers.  The query queue is tried first and the request  *)
(* pended afterwards, in a critical section of its own.                    *)

\* SysmonHandleGetQueryEvent.
TakeQuery(w) ==
    /\ queryWorker[w].at = "idle"
    /\ IF queryQueue = <<>>
       THEN WorkerMoves(w, "pend", 0) /\ UNCHANGED queryQueue
       ELSE WorkerMoves(w, "answer", Head(queryQueue)) /\ queryQueue' = Tail(queryQueue)
    /\ UNCHANGED <<nextQuery, asker, pendingQuery, queryLock, pendedQuery, told>>

\* SysmonPendGetQueryIrp; all workers share one handle.
PendQuery(w) ==
    /\ queryWorker[w].at = "pend"
    /\ pendedQuery' = Append(pendedQuery, w)
    /\ WorkerMoves(w, "pended", 0)
    /\ UNCHANGED <<nextQuery, asker, pendingQuery, queryLock, queryQueue, told>>

\* The client cancels its request, or the driver drains the pended ones.
CancelQuery(w) ==
    /\ \E i \in DOMAIN pendedQuery :
          pendedQuery[i] = w /\ pendedQuery' = RemoveAt(pendedQuery, i)
    /\ WorkerMoves(w, "idle", 0)
    /\ UNCHANGED <<nextQuery, asker, pendingQuery, queryLock, queryQueue, told>>

\* Faulty variant, for the mutation runs: the lock is released before the
\* event of the record is set.
LockIsReleased(w) == UNCHANGED queryLock

\* The record found stays guarded until it is signalled.
LockStaysWith(w) == queryLock' = w

\* SysmonHandleQueryAnswer: the record of the id is found, completed and
\* unlinked; an id nobody waits for any more is STATUS_NOT_FOUND.
AnswerQuery(w) ==
    /\ queryWorker[w].at = "answer" /\ queryLock = "free"
    /\ LET id == queryWorker[w].id IN
       IF InPendingList(id) = {}
       THEN WorkerMoves(w, "idle", 0) /\ UNCHANGED <<pendingQuery, queryLock>>
       ELSE \E a \in InPendingList(id) :
               /\ pendingQuery' = [pendingQuery EXCEPT ![a] =
                                      [id |-> id, linked |-> FALSE, result |-> id,
                                       signalled |-> pendingQuery[a].signalled]]
               /\ LockStaysWith(w)
               /\ queryWorker' = [queryWorker EXCEPT ![w].at = "signal"]
    /\ UNCHANGED <<nextQuery, asker, queryQueue, pendedQuery, told>>

\* KeSetEvent on the record it found, and the end of the critical section.
SignalQuery(w) ==
    /\ queryWorker[w].at = "signal"
    /\ pendingQuery' = [a \in Askers |-> IF pendingQuery[a].id = queryWorker[w].id
                                         THEN [pendingQuery[a] EXCEPT !.signalled = TRUE]
                                         ELSE pendingQuery[a]]
    /\ queryLock' = "free"
    /\ WorkerMoves(w, "idle", 0)
    /\ UNCHANGED <<nextQuery, asker, queryQueue, pendedQuery, told>>

QueryNext ==
    \/ \E a \in Askers : \/ Ask(a) \/ SendQuery(a) \/ EnqueueQuery(a)
                         \/ WaitQuery(a) \/ LeaveQuery(a)
    \/ \E w \in QueryWorkers : \/ TakeQuery(w) \/ PendQuery(w) \/ CancelQuery(w)
                               \/ AnswerQuery(w) \/ SignalQuery(w)

QuerySpec == QueryInit /\ [][QueryNext]_queryVars

-----------------------------------------------------------------------------
\* The record an answer signals is on the stack of a thread that is still in
\* its call: a late answer and the timeout of its asker may cross in any
\* order, and yet the event of a frame that is left is never set.  An asker
\* that was answered got the answer to its own question.
AnswersFindTheirAsker ==
    /\ \A w \in QueryWorkers : queryWorker[w].at = "signal" =>
          \E a \in Askers : /\ pendingQuery[a].id = queryWorker[w].id
                            /\ asker[a].at \in {"send", "enqueue", "wait", "leave"}
    /\ \A a \in Askers : told[a].status = "answered" => told[a].result = told[a].id
=============================================================================
