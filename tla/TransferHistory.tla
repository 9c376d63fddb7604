-------------------------- MODULE TransferHistory --------------------------
(***************************************************************************)
(* How a transfer gets into the history of an account: the recorder and    *)
(* the controller of a page (transfer-lifecycle-recorder.ts and            *)
(* transfers-controller.ts), and the service that keeps the records, in    *)
(* PostgreSQL (persistence/transfers.ts) or in the memory of a development *)
(* server (development-transfer-store.ts).                                 *)
(*                                                                         *)
(* A record is its status: ACTIVE stands for every one that is not         *)
(* terminal.  A key stands for the engine identity it was made for.        *)
(***************************************************************************)
EXTENDS Naturals, Sequences, SequencesExt

CONSTANTS
    Keys,           \* the lifecycle keys of the page
    HistoryLimit,   \* developmentTransferHistoryLimit
    MaxObserved,    \* snapshots that are recorded in a behaviour (bound)
    MaxFaults       \* requests and answers lost, and resets (bound)

ASSUME HistoryAssumption == {HistoryLimit, MaxObserved, MaxFaults} \subseteq Nat

VARIABLES
    store,          \* which service keeps the records
    due,            \* the keys not persisted in the last 750 ms
    queue,          \* recordQueue: the events behind the one being sent
    flight,         \* the operation the page awaits, 0 when none
    operations,     \* the operations the service is executing
    records,        \* the record of each key
    started,        \* the keys with a record, oldest first
    observed, faults,
    reached,        \* keys with a terminal event that reached the service
    gone            \* keys whose record the development store dropped

historyVars == <<store, due, queue, flight, operations, records, started, observed,
                 faults, reached, gone>>

Outcomes == {"COMPLETED", "FAILED", "CANCELED"}

Event == [key: Keys, status: {"ACTIVE"} \cup Outcomes]

Nothing == [step |-> "none"]

(* "creates": the transaction found no record.  A second operation is only *)
(* there when the page gave up the first                                   *)
Operation == {Nothing} \cup
    [step: {"read", "write"}, event: Event, creates: BOOLEAN, retried: BOOLEAN]

Places == 1 .. MaxFaults + 1

HistoryTypeOK ==
    /\ store \in {"postgres", "development"}
    /\ due \subseteq Keys
    /\ queue \in Seq(Event)
    /\ flight \in {0} \cup Places
    /\ operations \in [Places -> Operation]
    /\ flight # 0 => operations[flight] # Nothing
    /\ records \in [Keys -> {"absent", "ACTIVE"} \cup Outcomes]
    /\ ToSet(started) = {k \in Keys : records[k] # "absent"}
    /\ IsInjective(started)

HistoryInit ==
    /\ store \in {"postgres", "development"}
    /\ due = Keys
    /\ queue = <<>>
    /\ flight = 0
    /\ operations = [p \in Places |-> Nothing]
    /\ records = [k \in Keys |-> "absent"]
    /\ started = <<>>
    /\ observed = 0
    /\ faults = 0
    /\ reached = {}
    /\ gone = {}

----------------------------------------------------------------------------
(* observeSend, observeReceive: an outcome is always recorded, a snapshot  *)
(* of a running transfer only when none was in the last 750 ms             *)
Observe(e) ==
    /\ observed < MaxObserved
    /\ e.status \in Outcomes \/ e.key \in due
    /\ observed' = observed + 1
    /\ due' = due \ {e.key}
    /\ queue' = Append(queue, e)
    /\ UNCHANGED <<store, flight, operations, records, started, faults, reached, gone>>

IntervalPasses(k) ==
    /\ k \notin due
    /\ due' = due \cup {k}
    /\ UNCHANGED <<store, queue, flight, operations, records, started, observed, faults,
                   reached, gone>>

(* TransfersController.record: one request at a time *)
CanSend == flight = 0 /\ queue # <<>>

Reaches(e) == reached' = IF e.status \in Outcomes THEN reached \cup {e.key} ELSE reached

SendToPostgres(p) ==
    /\ store = "postgres" /\ CanSend
    /\ operations[p] = Nothing
    /\ operations' = [operations EXCEPT ![p] =
           [step |-> "read", event |-> Head(queue), creates |-> FALSE, retried |-> FALSE]]
    /\ flight' = p
    /\ queue' = Tail(queue)
    /\ Reaches(Head(queue))
    /\ UNCHANGED <<store, due, records, started, observed, faults, gone>>

(* A request that fails is reported and forgotten *)
RequestIsLost ==
    /\ CanSend /\ faults < MaxFaults
    /\ faults' = faults + 1
    /\ queue' = Tail(queue)
    /\ UNCHANGED <<store, due, flight, operations, records, started, observed, reached, gone>>

AnswerIsLost ==
    /\ flight # 0 /\ faults < MaxFaults
    /\ faults' = faults + 1
    /\ flight' = 0
    /\ UNCHANGED <<store, due, queue, operations, records, started, observed, reached, gone>>

----------------------------------------------------------------------------
Finished(p) ==
    /\ operations' = [operations EXCEPT ![p] = Nothing]
    /\ flight' = IF flight = p THEN 0 ELSE flight

Continued(p, op) == operations' = [operations EXCEPT ![p] = op] /\ UNCHANGED flight

(* recordOnce: the transaction reads, and leaves a terminal record alone *)
ServiceReads(p) ==
    LET op == operations[p]
    IN  /\ op # Nothing /\ op.step = "read"
        /\ IF records[op.event.key] \in Outcomes THEN Finished(p)
           ELSE Continued(p, [op EXCEPT !.step = "write",
                                        !.creates = records[op.event.key] = "absent"])
        /\ UNCHANGED <<store, due, queue, records, started, observed, faults, reached, gone>>

(* Faulty: without the trigger *)
Rewritten(old, new) == new

(* TRIGGER TransferRecord_terminal_immutable *)
Updated(old, new) == IF old \in Outcomes THEN old ELSE new

(* Faulty: a unique violation is the caller's *)
NeverRetries(op) == FALSE

(* record: a unique violation starts the transaction once more *)
Retries(op) == ~op.retried

ServiceWrites(p) ==
    LET op == operations[p]
        k == op.event.key
        exists == records[k] # "absent"
    IN  /\ op # Nothing /\ op.step = "write"
        /\ \/ /\ op.creates /\ exists /\ Retries(op)
              /\ Continued(p, [op EXCEPT !.step = "read", !.retried = TRUE])
              /\ UNCHANGED <<records, started>>
           \/ /\ op.creates /\ exists /\ ~Retries(op)
              /\ Finished(p)
              /\ UNCHANGED <<records, started>>
           \/ /\ op.creates /\ ~exists
              /\ records' = [records EXCEPT ![k] = op.event.status]
              /\ started' = Append(started, k)
              /\ Finished(p)
           \/ /\ ~op.creates
              /\ records' = [records EXCEPT ![k] = Updated(@, op.event.status)]
              /\ UNCHANGED started
              /\ Finished(p)
        /\ UNCHANGED <<store, due, queue, observed, faults, reached, gone>>

----------------------------------------------------------------------------
(* evictOldestNonActive, on the records as they will be: one is removed,   *)
(* as one at most is added                                                 *)
Evicted(rows, order) ==
    LET ended == SelectSeq(order, LAMBDA k : rows[k] \in Outcomes)
    IN  IF Len(order) > HistoryLimit /\ ended # <<>> THEN {Head(ended)} ELSE {}

(* DevelopmentTransferStore.record is one synchronous step, and its answer *)
SendToDevelopmentStore ==
    /\ store = "development" /\ CanSend
    /\ LET e == Head(queue)
           rows == [records EXCEPT ![e.key] = Updated(@, e.status)]
           order == IF records[e.key] = "absent" THEN Append(started, e.key) ELSE started
           removed == IF records[e.key] \in Outcomes THEN {} ELSE Evicted(rows, order)
       IN  /\ records' = [k \in Keys |-> IF k \in removed THEN "absent" ELSE rows[k]]
           /\ started' = SelectSeq(order, LAMBDA k : k \notin removed)
           /\ gone' = gone \cup removed
           /\ Reaches(e)
    /\ queue' = Tail(queue)
    /\ UNCHANGED <<store, due, flight, operations, observed, faults>>

(* reset, and a development server that starts again *)
StoreIsReset ==
    /\ store = "development" /\ faults < MaxFaults
    /\ faults' = faults + 1
    /\ records' = [k \in Keys |-> "absent"]
    /\ started' = <<>>
    /\ gone' = gone \cup ToSet(started)
    /\ UNCHANGED <<store, due, queue, flight, operations, observed, reached>>

HistoryNext ==
    \/ \E e \in Event : Observe(e)
    \/ \E k \in Keys : IntervalPasses(k)
    \/ \E p \in Places : SendToPostgres(p) \/ ServiceReads(p) \/ ServiceWrites(p)
    \/ SendToDevelopmentStore
    \/ RequestIsLost \/ AnswerIsLost \/ StoreIsReset

(* An operation the service has begun ends *)
HistoryFairness ==
    \A p \in Places : WF_historyVars(ServiceReads(p) \/ ServiceWrites(p))

----------------------------------------------------------------------------
(* The outcome of a record is final: an operation that was given up by the *)
(* page and writes after its successor, or a snapshot that comes after the *)
(* outcome, changes nothing.  Only the development store drops a record.   *)
TerminalRecordIsFrozen ==
    [][\A k \in Keys : records[k] \in Outcomes =>
           \/ records'[k] = records[k]
           \/ store = "development" /\ records'[k] = "absent"]_historyVars

(* A transfer whose outcome reached the service is not left ACTIVE, even   *)
(* when its outcome and an observation given up before it both create the  *)
(* record.                                                                 *)
OutcomeIsRecorded ==
    \A k \in Keys : k \in reached ~> (records[k] \in Outcomes \/ k \in gone)
=============================================================================
