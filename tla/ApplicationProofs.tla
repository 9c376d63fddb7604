------------------------- MODULE ApplicationProofs -------------------------
(***************************************************************************)
(* Proofs about the parts of the browser application beside the engine,    *)
(* for any number of recipients, sources, sessions, destinations, people,  *)
(* operations, transfers and faults, and any limits of the health.         *)
(*                                                                         *)
(* Each part has an inductive invariant of its own:                        *)
(*   - SendInv: a session that waits has its coordinator or a start that   *)
(*     will create it, and a coordinator was started for the recipient     *)
(*     that is shown; one of development also for the source that is       *)
(*     shown, since no source is being prepared while it is there;         *)
(*   - ReceiveInv: a destination is held only after the picker of the      *)
(*     newest choice has answered, so that none answers behind it, and an  *)
(*     accepted transfer is past every phase in which one can be chosen;   *)
(*   - HistoryInv: the types, without the order of the records;            *)
(*   - PeopleInv: a request that is still under way when the newest answer *)
(*     of its page is known is older than what the store has seen;         *)
(*   - HealthInv: the candidate of the hysteresis is the last diagnosis,   *)
(*     and its count is that of the diagnoses which agreed in a row.       *)
(***************************************************************************)
EXTENDS Application, TLAPS

-----------------------------------------------------------------------------
(* The send page.                                                            *)

Busy == Waiting \cup {"TRANSFERRING", "RECONNECTING", "VERIFYING"}

SendState ==
    [phase: SendPhases, recipient: Recipients \cup {NoOne}, source: Sources \cup {NoOne},
     revision: Nat, attempt: Nat, active: BOOLEAN]

StartRecord ==
    [id: Nat \ {0}, attempt: Nat, recipient: Recipients \cup {NoOne}, revision: Nat,
     selection: Selections, step: {"issuing", "joining"}]

\* The types that the properties depend on: SendTypeOK without its bounds.
SendShape ==
    /\ send \in SendState
    /\ preparation \in [revision: Nat, source: Sources \cup {NoOne}]
    /\ preparationRevision \in Nat /\ preparation.revision <= preparationRevision
    /\ sender \in [id: Nat, started: Selections, engine: EngineSnapshots]
    /\ sender # NoCoordinator => sender.id # 0
    /\ starts \subseteq StartRecord
    /\ edits \in Nat
    /\ production \in BOOLEAN

\* A coordinator is or will be there for what the page shows in progress.
HasCoordinator ==
    ~ closed /\ send.phase \in Busy =>
        \/ sender # NoCoordinator
        \/ \E st \in starts : IsCurrentStart(st) /\ st.step = "issuing"

\* The source of a preparation that is current will be taken over.
IsPrepared == preparation # NoPreparation /\ preparation.revision = preparationRevision

StartedFor ==
    /\ \A st \in starts : st.recipient = st.selection.recipient
    /\ ~ production => \A st \in starts : st.step = "joining"
    /\ sender # NoCoordinator => sender.started.recipient = send.recipient
    /\ ~ production /\ sender # NoCoordinator =>
           send.source \in {NoOne, sender.started.source} /\ ~ IsPrepared
    /\ ~ production /\ IsPrepared => send.phase \in {"PREPARING_SOURCE", "FAILED"}

SendInv == SendShape /\ HasCoordinator /\ StartedFor /\ OffersToTheStarted

-----------------------------------------------------------------------------
(* The receive page.                                                         *)

\* The phases before a transfer has been accepted in which one can be.
Choosing == {"REVIEWING", "CHOOSING_DESTINATION", "PREPARING_DESTINATION",
             "READY_TO_RECEIVE", "WAITING_FOR_SENDER"}

ReceiveState ==
    [phase: ReceivePhases, active: BOOLEAN, destination: BOOLEAN, destinationRevision: Revisions]

ReceiverState ==
    [open: BOOLEAN, engine: EngineSnapshots, joining: BOOLEAN, accepted: Revisions,
     accepting: BOOLEAN]

\* What a session is before there is a connection.
Unconnected == {"SIGNALLING_CONNECTING", "WAITING_FOR_PEER"}

ReceiveBounds ==
    /\ left \in BOOLEAN
    /\ destinationRevision <=
           MaxOpens + MaxChoices + sessionRevision + (IF left THEN 1 ELSE 0)
    /\ \A revision \in choosing : revision # 0 /\ revision <= destinationRevision

ReceiveSessions ==
    /\ sessionRevision \in opening => ~ receive.active /\ receiver = NoReceiver
    /\ receiver.engine.transfer # "NONE" => receiver.engine.connection \notin Unconnected
    /\ receive.active /\ receiver.open => receiver.engine.connection \notin Unconnected

Destinations ==
    /\ 0 \notin prepared
    /\ held # 0 => held = destinationRevision /\ held \notin choosing
    /\ receive.phase = "READY_TO_RECEIVE" => receive.destination
    /\ receiver.accepted # 0 =>
           /\ receive.active /\ receiver.engine.transfer # "NONE"
           /\ receive.phase \notin Choosing

ReceiveInv ==
    ReceiveTypeOK /\ ReceiveBounds /\ ReceiveSessions /\ Destinations /\ NoDestinationLeaks

-----------------------------------------------------------------------------
(* The history.                                                              *)

HistoryInv ==
    /\ queue \in Seq(Event)
    /\ operations \in [Places -> Operation]
    /\ records \in [Keys -> {"absent", "ACTIVE"} \cup Outcomes]

-----------------------------------------------------------------------------
(* People in development.                                                    *)

\* Has the newest operation of this person's page been answered?
Answered(p) ==
    \/ ~ pages[p].pending
    \/ \E a \in answers : a.person = p /\ a.revision = pages[p].revision

PeopleShape ==
    /\ latest \in [Persons -> Nat]
    /\ pages = [p \in Persons |-> pages[p]]
    /\ \A p \in Persons : /\ DOMAIN pages[p] = {"revision", "shown", "pending"}
                           /\ pages[p].revision \in Nat /\ pages[p].pending \in BOOLEAN
    /\ requests \subseteq Request
    /\ undisturbed \subseteq Persons

\* Every operation is one request, or one answer, and the page is at the newest.
Numbered ==
    /\ \A r \in requests : /\ r.revision <= pages[r.person].revision
                           /\ IsNewest(r) => pages[r.person].pending
                           /\ r.operation = "LOAD" => r.revision = 1
    /\ \A r, q \in requests : r.person = q.person /\ r.revision = q.revision => r = q
    /\ \A a \in answers : /\ a.person \in Persons /\ a.revision \in Nat
                          /\ a.revision <= pages[a.person].revision
    /\ \A a \in answers, r \in requests : a.person = r.person => a.revision # r.revision

\* What was answered is what there is, and nothing older can change it.
Settled ==
    \A p \in undisturbed :
        /\ \A a \in answers :
               a.person = p /\ a.revision = pages[p].revision /\ ~ a.stale /\ ~ a.error
                   => a.shown = View(p, pairs)
        /\ Answered(p) => \A r \in requests :
               r.person = p /\ r.operation \notin {"LOAD", "RESET"} => r.revision <= latest[p]

PeopleInv == PeopleShape /\ Numbered /\ Settled /\ NewestAnswerShown

-----------------------------------------------------------------------------
(* The health.                                                               *)

HealthInv ==
    /\ HealthTypeOK
    /\ shown.bottleneck = analyzer.selected
    /\ agreement.on = analyzer.candidate
    /\ analyzer.candidate \notin Suppressed =>
           agreement.times = analyzer.agreeing /\ transfer.state # "PAUSED"

-----------------------------------------------------------------------------
(* The engine, as both pages see it.                                         *)

\* Snapshots follow snapshots, and never lead back to before a connection.
LEMMA EngineTypes ==
    /\ Joining \in EngineSnapshots
    /\ \A e \in EngineSnapshots : \A f \in Successors(e) :
           /\ f \in EngineSnapshots
           /\ e.connection \notin Unconnected => f.connection \notin Unconnected
           /\ f.transfer # e.transfer => f.connection = e.connection
           /\ e.transfer = "NONE" => f.transfer = "NONE"
<1> DEFINE Connections == {"SIGNALLING_CONNECTING", "WAITING_FOR_PEER", "CONNECTING", "CONNECTED",
                           "DISCONNECTED", "RECONNECTING", "FAILED"}
           Transfers_ == {"NONE", "READY", "RUNNING", "RECONNECTING", "VERIFYING", "DELIVERED",
                          "FAILED", "CANCELLED"}
<1>1. DOMAIN ConnectionTransitions = Connections /\ DOMAIN TransferTransitions = Transfers_
  BY DEF ConnectionTransitions, TransferTransitions
<1>2. \A c \in Connections : \A d \in ConnectionTransitions[c] :
         d \in Connections /\ (c \notin Unconnected => d \notin Unconnected)
  BY DEF ConnectionTransitions, Unconnected
<1>3. \A t \in Transfers_ : \A u \in TransferTransitions[t] : u \in Transfers_ /\ t # "NONE"
  BY DEF TransferTransitions
<1>4. EngineSnapshots = [connection : Connections, transfer : Transfers_]
  BY <1>1 DEF EngineSnapshots
<1>5. Joining \in EngineSnapshots
  BY <1>4 DEF Joining, Snapshot
<1> HIDE DEF Connections, Transfers_
<1>6. ASSUME NEW e \in EngineSnapshots, NEW f \in Successors(e)
      PROVE  /\ f \in EngineSnapshots
             /\ e.connection \notin Unconnected => f.connection \notin Unconnected
             /\ f.transfer # e.transfer => f.connection = e.connection
             /\ e.transfer = "NONE" => f.transfer = "NONE"
  <2>1. CASE \E c \in ConnectionTransitions[e.connection] : f = [e EXCEPT !.connection = c]
    BY <1>2, <1>4, <2>1
  <2>2. CASE \E t \in TransferTransitions[e.transfer] : f = [e EXCEPT !.transfer = t]
    BY <1>3, <1>4, <2>2
  <2> QED
    BY <2>1, <2>2 DEF Successors
<1> QED
  BY <1>5, <1>6

-----------------------------------------------------------------------------
(* The send page.                                                            *)

\* What the reducer makes of a state is one, and where it leads.
LEMMA ReducerTypes ==
    ASSUME NEW s \in SendState
    PROVE  /\ \A r \in Recipients : RecipientSelected(s, r) \in SendState
           /\ \A n \in Nat : SourcePreparing(s, n) \in SendState /\ SourceFailed(s, n) \in SendState
           /\ \A n \in Nat, source \in Sources \cup {NoOne} : SourcePrepared(s, n, source) \in SendState
           /\ SourceCleared(s) \in SendState /\ StartRequested(s) \in SendState
           /\ StartFailed(s) \in SendState
           /\ \A r \in Recipients \cup {NoOne} : Reset(s, r) \in SendState
           /\ \A e \in EngineSnapshots : EngineSnapshot(s, e) \in SendState
<1>1. \A r, source : LocalPhase(r, source) \in SendPhases
  BY DEF LocalPhase, SendPhases, Waiting
<1>2. {"SELECTING_SOURCE", "READY_TO_REVIEW", "PREPARING_SOURCE", "WAITING_FOR_RECIPIENT",
       "FAILED"} \subseteq SendPhases
  BY DEF SendPhases, Waiting
<1>3. \A e : PhaseFromEngine(s, e) \in SendPhases
  BY DEF PhaseFromEngine, SendPhases, Waiting, SendState
<1>4. ASSUME NEW r \in Recipients
      PROVE  RecipientSelected(s, r) \in SendState
  <2> DEFINE t == [phase |-> LocalPhase(r, s.source), recipient |-> r, source |-> s.source,
                   revision |-> s.revision + 1, attempt |-> s.attempt, active |-> FALSE]
  <2>1. RecipientSelected(s, r) \in {s, t}
    BY DEF RecipientSelected, SendState
  <2>2. t \in SendState
    BY <1>1 DEF SendState
  <2> QED
    BY <2>1, <2>2
<1>5. \A n \in Nat : SourcePreparing(s, n) \in SendState /\ SourceFailed(s, n) \in SendState
  BY <1>2 DEF SourcePreparing, SourceFailed, SendState
<1>6. \A n \in Nat, source \in Sources \cup {NoOne} : SourcePrepared(s, n, source) \in SendState
  BY <1>2 DEF SourcePrepared, SendState
<1>7. SourceCleared(s) \in SendState
  <2> DEFINE t == [phase |-> LocalPhase(s.recipient, NoOne), recipient |-> s.recipient,
                   source |-> NoOne, revision |-> s.revision + 1, attempt |-> s.attempt,
                   active |-> FALSE]
  <2>1. SourceCleared(s) \in {s, t}
    BY DEF SourceCleared, SendState
  <2>2. t \in SendState
    BY <1>1 DEF SendState
  <2> QED
    BY <2>1, <2>2
<1>8. StartRequested(s) \in SendState /\ StartFailed(s) \in SendState
  <2>1. StartRequested(s) =
             [[s EXCEPT !.active = FALSE, !.phase = "WAITING_FOR_RECIPIENT"]
                 EXCEPT !.attempt = s.attempt + 1]
    BY DEF StartRequested, SendState
  <2>2. [s EXCEPT !.active = FALSE, !.phase = "WAITING_FOR_RECIPIENT"] \in SendState
    BY <1>2 DEF SendState
  <2>3. \A t \in SendState : [t EXCEPT !.attempt = s.attempt + 1] \in SendState
    BY DEF SendState
  <2>4. StartRequested(s) \in SendState
    BY <2>1, <2>2, <2>3
  <2>5. StartFailed(s) \in SendState
    BY <1>2 DEF StartFailed, SendState
  <2> QED
    BY <2>4, <2>5
<1>9. \A r \in Recipients \cup {NoOne} : Reset(s, r) \in SendState
  BY <1>1, <1>2 DEF Reset, SendState
<1>10. \A e \in EngineSnapshots : EngineSnapshot(s, e) \in SendState
  BY <1>3 DEF EngineSnapshot, SendState
<1> QED
  BY <1>4, <1>5, <1>6, <1>7, <1>8, <1>9, <1>10

\* A coordinator is created for what its start was made for.
LEMMA CreatesOne ==
    ASSUME NEW st \in StartRecord, Creates(st)
    PROVE  /\ sender' \in [id : Nat, started : Selections, engine : EngineSnapshots]
           /\ sender' # NoCoordinator /\ sender'.id # 0
           /\ sender'.started = st.selection
BY EngineTypes DEF Creates, StartRecord, NoCoordinator

\* A start is made for what is shown.
LEMMA StartIsOne ==
    ASSUME NEW s \in SendState, edits \in Nat, production \in BOOLEAN
    PROVE  /\ StartOf(s) \in StartRecord /\ StartOf(s).selection = Selection(s)
           /\ StartOf(s).recipient = s.recipient /\ StartOf(s).attempt = s.attempt
           /\ StartOf(s).revision = s.revision
           /\ StartOf(s).step = IF production THEN "issuing" ELSE "joining"
<1>1. Selection(s) \in Selections
  BY DEF Selection, Selections, SendState
<1>2. edits + 1 \in Nat \ {0}
  OBVIOUS
<1> QED
  BY <1>1, <1>2 DEF StartOf, StartRecord, SendState

\* The user's edits, whatever they do, keep the types.
LEMMA EditShapes ==
    ASSUME SendShape, UNCHANGED production,
           \/ \E r \in Recipients : SelectRecipient(r)
           \/ \E source \in Sources : SelectFiles(source) \/ FolderPicked(source)
           \/ SelectFolder \/ PickerDismissed \/ PickerFails
           \/ PreparationEnds \/ ClearSource
           \/ StartRefused \/ ResetSend \/ ReconcileRecipientEligibility
    PROVE  SendShape' /\ starts' = starts /\ offers' = offers /\ sender' \in {sender, NoCoordinator}
<1>1. /\ send \in SendState /\ preparationRevision \in Nat /\ edits \in Nat
      /\ preparation \in [revision : Nat, source : Sources \cup {NoOne}]
      /\ preparation.revision <= preparationRevision
      /\ sender \in [id : Nat, started : Selections, engine : EngineSnapshots]
  BY DEF SendShape
<1>2. NoCoordinator \in [id : Nat, started : Selections, engine : EngineSnapshots]
  BY EngineTypes DEF NoCoordinator, Selections
<1>3. NoPreparation \in [revision : Nat, source : Sources \cup {NoOne}] /\ NoPreparation.revision = 0
  BY DEF NoPreparation
<1>4. ASSUME NEW source \in Sources, PrepareSource(source)
      PROVE  /\ send' \in SendState /\ sender' \in {sender, NoCoordinator}
             /\ preparationRevision' \in Nat
             /\ preparation' \in [revision : Nat, source : Sources \cup {NoOne}]
             /\ preparation'.revision <= preparationRevision'
  <2>1. preparationRevision + 1 \in Nat
    BY <1>1
  <2>2. SourcePreparing(send, preparationRevision + 1) \in SendState
    BY <1>1, <2>1, ReducerTypes
  <2>3. CASE send.recipient = NoOne
    BY <1>1, <1>4, <2>3 DEF PrepareSource
  <2>4. CASE send.recipient # NoOne
    BY <1>1, <1>4, <2>1, <2>2, <2>4 DEF PrepareSource, InvalidatePendingSession
  <2> QED
    BY <2>3, <2>4
<1>5. ASSUME send' \in SendState, preparationRevision' \in Nat, edits' \in Nat,
             preparation' \in [revision : Nat, source : Sources \cup {NoOne}],
             preparation'.revision <= preparationRevision',
             sender' \in {sender, NoCoordinator}, starts' = starts
      PROVE  SendShape'
  BY <1>1, <1>2, <1>5 DEF SendShape
<1>6. CASE \E r \in Recipients : SelectRecipient(r)
  <2>1. send' \in SendState
    BY <1>1, <1>6, ReducerTypes DEF SelectRecipient
  <2> QED
    BY <1>1, <1>5, <1>6, <2>1 DEF SelectRecipient, InvalidatePendingSession, Edits
<1>7. CASE \E source \in Sources : SelectFiles(source) \/ FolderPicked(source)
  BY <1>1, <1>4, <1>5, <1>7 DEF SelectFiles, FolderPicked, Edits
<1>8. CASE SelectFolder \/ PickerDismissed
  BY <1>1, <1>5, <1>8 DEF SelectFolder, PickerDismissed, Edits
<1>9. CASE PickerFails
  <2>1. preparationRevision + 1 \in Nat /\ preparation.revision <= preparationRevision + 1
    BY <1>1
  <2>2. send' \in SendState
    BY <1>1, <1>9, <2>1, ReducerTypes DEF PickerFails
  <2> QED
    BY <1>1, <1>5, <1>9, <2>1, <2>2 DEF PickerFails
<1>10. CASE PreparationEnds
  <2>1. send' \in SendState
    BY <1>1, <1>10, ReducerTypes DEF PreparationEnds
  <2> QED
    BY <1>1, <1>3, <1>5, <1>10, <2>1 DEF PreparationEnds
<1>11. CASE ClearSource
  <2>1. send' \in SendState
    BY <1>1, <1>11, ReducerTypes DEF ClearSource
  <2> QED
    BY <1>1, <1>3, <1>5, <1>11, <2>1 DEF ClearSource, InvalidatePendingSession, Edits
<1>12. CASE StartRefused
  <2>1. send' \in SendState
    BY <1>1, <1>12, ReducerTypes DEF StartRefused
  <2> QED
    BY <1>1, <1>5, <1>12, <2>1 DEF StartRefused, Edits
<1>13. CASE ResetSend \/ ReconcileRecipientEligibility
  <2>1. PICK r \in Recipients \cup {NoOne} : Abandons(r)
    BY <1>1, <1>13 DEF ResetSend, ReconcileRecipientEligibility, SendState
  <2>2. send' \in SendState
    BY <1>1, <2>1, ReducerTypes DEF Abandons
  <2> QED
    BY <1>1, <1>3, <1>5, <2>1, <2>2 DEF Abandons, InvalidatePendingSession, Edits
<1> QED
  BY <1>6, <1>7, <1>8, <1>9, <1>10, <1>11, <1>12, <1>13

\* A step that creates no coordinator, offers nothing, and does not change
\* what the coordinator it leaves was started for keeps the invariant, if the
\* page it shows waits for something.
LEMMA SendKeeps ==
    ASSUME SendInv, SendShape', UNCHANGED <<offers, production>>, starts' \subseteq starts,
           sender' # NoCoordinator =>
               /\ sender # NoCoordinator /\ sender'.started = sender.started
               /\ send'.recipient = send.recipient
               /\ ~ production => send'.source \in {NoOne, send.source} /\ ~ IsPrepared',
           HasCoordinator',
           ~ production /\ IsPrepared' => send'.phase \in {"PREPARING_SOURCE", "FAILED"}
    PROVE  SendInv'
<1>1. StartedFor'
  BY DEF SendInv, StartedFor
<1>2. OffersToTheStarted'
  BY DEF SendInv, OffersToTheStarted
<1> QED
  BY <1>1, <1>2 DEF SendInv

\* Wherever the page is not in progress it need not wait for anything, and
\* what it waits for does not go away while the selection stays.
LEMMA Waits ==
    ASSUME SendInv,
           \/ send'.phase \notin Busy
           \/ UNCHANGED <<send, sender, starts, closed>>
    PROVE  HasCoordinator'
<1>1. CASE send'.phase \notin Busy
  BY <1>1 DEF HasCoordinator
<1>2. CASE UNCHANGED <<send, sender, starts, closed>>
  BY <1>2 DEF SendInv, HasCoordinator, IsCurrentStart
<1> QED
  BY <1>1, <1>2

\* The edits give up the coordinator, or leave the page as it is: but for a
\* picker that fails, which takes the source away, and a preparation that ends.
LEMMA EditsHold ==
    ASSUME SendInv, UNCHANGED <<closed, production>>,
           \/ \E r \in Recipients : SelectRecipient(r)
           \/ \E source \in Sources : SelectFiles(source) \/ FolderPicked(source)
           \/ SelectFolder \/ PickerDismissed \/ PickerFails
           \/ PreparationEnds \/ ClearSource
           \/ StartRefused \/ ResetSend \/ ReconcileRecipientEligibility
    PROVE  SendInv'
<1>1. /\ send \in SendState /\ preparationRevision \in Nat
      /\ preparation \in [revision : Nat, source : Sources \cup {NoOne}]
      /\ preparation.revision <= preparationRevision
  BY DEF SendInv, SendShape
<1>2. SendShape' /\ starts' = starts /\ offers' = offers
  BY EditShapes DEF SendInv
<1>3. \A r, source : LocalPhase(r, source) \notin Busy
  BY DEF LocalPhase, Busy, Waiting
<1>4. ASSUME sender' = NoCoordinator \/ UNCHANGED <<sender, send, preparation, preparationRevision>>,
             send'.phase \notin Busy \/ UNCHANGED <<sender, send>>,
             ~ production /\ IsPrepared' =>
                 send'.phase \in {"PREPARING_SOURCE", "FAILED"}
      PROVE  SendInv'
  <2>1. HasCoordinator'
    BY <1>2, <1>4, Waits
  <2>2. sender' # NoCoordinator =>
           /\ sender # NoCoordinator /\ sender'.started = sender.started
           /\ send'.recipient = send.recipient
           /\ ~ production => send'.source \in {NoOne, send.source} /\ ~ IsPrepared'
    BY <1>4 DEF SendInv, StartedFor, IsPrepared
  <2> QED
    BY <1>2, <1>4, <2>1, <2>2, SendKeeps
<1>5. ~ production /\ IsPrepared => send.phase \in {"PREPARING_SOURCE", "FAILED"}
  BY DEF SendInv, StartedFor
<1>6. ASSUME NEW source \in Sources, PrepareSource(source) PROVE SendInv'
  <2>1. CASE send.recipient = NoOne
    BY <1>4, <1>5, <1>6, <2>1 DEF PrepareSource, IsPrepared
  <2>2. CASE send.recipient # NoOne
    <3>1. sender' = NoCoordinator /\ send'.phase = "PREPARING_SOURCE"
      BY <1>1, <1>6, <2>2 DEF PrepareSource, InvalidatePendingSession, SourcePreparing, SendState
    <3>2. send'.phase \notin Busy
      BY <3>1 DEF Busy, Waiting
    <3> QED
      BY <1>4, <3>1, <3>2
  <2> QED
    BY <2>1, <2>2
<1>7. CASE \E r \in Recipients : SelectRecipient(r)
  <2>1. PICK r \in Recipients : SelectRecipient(r)
    BY <1>7
  <2>2. /\ sender' = NoCoordinator /\ send' = RecipientSelected(send, r)
        /\ UNCHANGED <<preparation, preparationRevision>>
        /\ send.phase # "FAILED"
    BY <2>1 DEF SelectRecipient, InvalidatePendingSession, CanEditSelection, EditsIn, Waiting
  <2>3. CASE send.phase = "PREPARING_SOURCE"
    <3>1. send' = send
      BY <2>2, <2>3 DEF RecipientSelected, EditsIn, Waiting
    <3> QED
      BY <1>4, <2>2, <2>3, <3>1 DEF Busy, Waiting
  <2>4. CASE send.phase # "PREPARING_SOURCE"
    <3>1. send'.phase = LocalPhase(r, send.source)
      <4>1. EditsIn(send, {"SELECTING_RECIPIENT", "SELECTING_SOURCE", "READY_TO_REVIEW"})
        BY <2>1, <2>4 DEF SelectRecipient, CanEditSelection, EditsIn
      <4> QED
        BY <1>1, <2>2, <4>1 DEF RecipientSelected, SendState
    <3>2. ~ (~ production /\ IsPrepared')
      BY <1>5, <2>2, <2>4 DEF IsPrepared
    <3> QED
      BY <1>3, <1>4, <2>2, <3>1, <3>2
  <2> QED
    BY <2>3, <2>4
<1>8. CASE \E source \in Sources : SelectFiles(source) \/ FolderPicked(source)
  BY <1>6, <1>8 DEF SelectFiles, FolderPicked
<1>9. CASE SelectFolder \/ PickerDismissed
  BY <1>4, <1>5, <1>9 DEF SelectFolder, PickerDismissed, IsPrepared
<1>10. CASE PickerFails
  <2> DEFINE n == preparationRevision + 1
  <2>1. /\ UNCHANGED <<preparation, sender>> /\ preparationRevision' = n
        /\ send' = SourceFailed(SourcePreparing(send, n), n)
    BY <1>10 DEF PickerFails
  <2>2. ~ IsPrepared'
    BY <1>1, <2>1 DEF IsPrepared
  <2>3. /\ send'.recipient = send.recipient /\ send'.source \in {NoOne, send.source}
        /\ send' = send \/ send'.phase = "SELECTING_SOURCE"
    BY <1>1, <2>1 DEF SourceFailed, SourcePreparing, SendState
  <2>4. HasCoordinator'
    BY <1>2, <2>1, <2>3, Waits DEF Busy, Waiting
  <2> QED
    BY <1>2, <2>1, <2>2, <2>3, <2>4, SendKeeps
<1>11. CASE PreparationEnds
  <2>1. /\ UNCHANGED sender /\ preparation' = NoPreparation /\ ~ IsPrepared'
    BY <1>11 DEF PreparationEnds, IsPrepared
  <2>2. /\ send'.recipient = send.recipient
        /\ send' = send \/ send'.phase \in {"READY_TO_REVIEW", "SELECTING_SOURCE"}
        /\ ~ IsPrepared => send' = send
    BY <1>1, <1>11 DEF PreparationEnds, SourcePrepared, SourceFailed, SendState, IsPrepared
  <2>3. HasCoordinator'
    BY <1>2, <2>1, <2>2, Waits DEF Busy, Waiting
  <2>4. ~ production /\ sender # NoCoordinator => send' = send
    BY <2>2 DEF SendInv, StartedFor
  <2> QED
    BY <1>2, <2>1, <2>2, <2>3, <2>4, SendKeeps
<1>12. CASE ClearSource
  <2>1. sender' = NoCoordinator /\ preparation' = NoPreparation /\ ~ IsPrepared'
    BY <1>12 DEF ClearSource, InvalidatePendingSession, IsPrepared
  <2>2. send'.phase = "SELECTING_RECIPIENT" \/ send'.phase = LocalPhase(send.recipient, NoOne)
    BY <1>1, <1>12 DEF ClearSource, SourceCleared, CanEditSelection, EditsIn, SendState
  <2> QED
    BY <1>3, <1>4, <2>1, <2>2 DEF Busy, Waiting
<1>13. CASE StartRefused
  <2>1. /\ sender' = sender /\ sender = NoCoordinator /\ send'.phase = "FAILED"
    BY <1>1, <1>13 DEF StartRefused, StartFailed, SendState
  <2> QED
    BY <1>4, <2>1 DEF Busy, Waiting
<1>14. CASE ResetSend \/ ReconcileRecipientEligibility
  <2>1. PICK r : Abandons(r)
    BY <1>14 DEF ResetSend, ReconcileRecipientEligibility
  <2>2. /\ sender' = NoCoordinator /\ ~ IsPrepared'
        /\ send'.phase = LocalPhase(r, NoOne)
    BY <2>1 DEF Abandons, InvalidatePendingSession, Reset, IsPrepared
  <2> QED
    BY <1>3, <1>4, <2>2
<1> QED
  BY <1>7, <1>8, <1>9, <1>10, <1>11, <1>12, <1>13, <1>14

\* start() waits for what will give it a coordinator; a session of
\* development has one at once.
LEMMA StartHolds ==
    ASSUME SendInv, UNCHANGED <<closed, production>>, Start
    PROVE  SendInv'
<1> DEFINE st == StartOf(send')
<1>1. /\ send \in SendState /\ edits \in Nat /\ production \in BOOLEAN
      /\ send.phase = "READY_TO_REVIEW" /\ sender = NoCoordinator
      /\ send' = StartRequested(send) /\ starts' = starts \cup {st} /\ edits' = edits + 1
      /\ UNCHANGED <<preparation, preparationRevision, offers>>
      /\ IF production THEN UNCHANGED sender ELSE Creates(st)
  BY DEF Start, SendInv, SendShape, Edits
<1>2. send' \in SendState
  BY <1>1, ReducerTypes
<1>3. /\ st \in StartRecord /\ st.selection = Selection(send')
      /\ st.recipient = send'.recipient /\ st.attempt = send'.attempt
      /\ st.revision = send'.revision
      /\ st.step = IF production THEN "issuing" ELSE "joining"
  BY <1>1, <1>2, StartIsOne
<1>4. st.selection.recipient = send'.recipient /\ st.selection.source = send'.source
  BY <1>3 DEF Selection
<1> HIDE DEF st
<1>5. ~ production => /\ sender' \in [id : Nat, started : Selections, engine : EngineSnapshots]
                      /\ sender' # NoCoordinator /\ sender'.id # 0
                      /\ sender'.started = st.selection
  BY <1>1, <1>3, CreatesOne
<1>6. SendShape'
  BY <1>1, <1>2, <1>3, <1>5 DEF SendInv, SendShape
<1>7. HasCoordinator'
  <2>1. st \in starts'
    BY <1>1
  <2>2. CASE ~ production
    BY <1>5, <2>2 DEF HasCoordinator
  <2>3. CASE production
    <3>1. st.step = "issuing"
      BY <1>3, <2>3
    <3>2. \E x \in starts' : /\ send'.attempt = x.attempt /\ send'.recipient = x.recipient
                            /\ send'.revision = x.revision /\ x.step = "issuing"
      BY <1>3, <2>1, <3>1
    <3> QED
      BY <3>2 DEF HasCoordinator, IsCurrentStart
  <2> QED
    BY <2>2, <2>3
<1>8. StartedFor'
  <2>1. ~ production => ~ IsPrepared /\ ~ IsPrepared'
    BY <1>1 DEF SendInv, StartedFor, IsPrepared
  <2> QED
    BY <1>1, <1>3, <1>4, <1>5, <2>1 DEF SendInv, StartedFor
<1>9. OffersToTheStarted'
  BY <1>1 DEF SendInv, OffersToTheStarted
<1> QED
  BY <1>6, <1>7, <1>8, <1>9 DEF SendInv

\* Its calls return, or fail.
LEMMA ReturnsHold ==
    ASSUME SendInv, UNCHANGED <<closed, production>>, NEW st \in starts,
           SessionIssued(st) \/ SessionCreated(st) \/ StartError(st)
    PROVE  SendInv'
<1>1. /\ send \in SendState /\ st \in StartRecord /\ starts \subseteq StartRecord
      /\ sender \in [id : Nat, started : Selections, engine : EngineSnapshots]
      /\ UNCHANGED <<preparation, preparationRevision, edits, offers>>
  BY DEF SendInv, SendShape, SessionIssued, SessionCreated, StartError
<1>2. NoCoordinator \in [id : Nat, started : Selections, engine : EngineSnapshots]
  BY EngineTypes DEF NoCoordinator, Selections
<1>3. IsPrepared' = IsPrepared
  BY <1>1 DEF IsPrepared
<1>4. ASSUME sender' = sender, send' = send, starts' = starts \ {st},
             ~ IsCurrentStart(st) \/ st.step = "joining"
      PROVE  SendInv'
  <2>1. SendShape'
    BY <1>1, <1>4 DEF SendInv, SendShape
  <2>2. HasCoordinator'
    <3>1. \A other : IsCurrentStart(other)' = IsCurrentStart(other)
      BY <1>4 DEF IsCurrentStart
    <3> QED
      BY <1>4, <3>1 DEF SendInv, HasCoordinator
  <2> QED
    BY <1>1, <1>3, <1>4, <2>1, <2>2, SendKeeps DEF SendInv, StartedFor
<1>5. ASSUME sender' \in {sender, NoCoordinator}, send' = StartFailed(send), starts' = starts \ {st}
      PROVE  SendInv'
  <2>1. send' \in SendState
    BY <1>1, <1>5, ReducerTypes
  <2>2. SendShape'
    BY <1>1, <1>2, <1>5, <2>1 DEF SendInv, SendShape
  <2>3. /\ send'.phase = "FAILED" /\ send'.recipient = send.recipient
        /\ send'.source = send.source
    BY <1>1, <1>5 DEF StartFailed, SendState
  <2>4. HasCoordinator'
    BY <2>3, Waits DEF Busy, Waiting
  <2> QED
    BY <1>1, <1>3, <1>5, <2>2, <2>3, <2>4, SendKeeps DEF SendInv, StartedFor
<1>6. CASE SessionCreated(st)
  BY <1>4, <1>6 DEF SessionCreated, Returns
<1>7. CASE StartError(st)
  <2>1. starts' = starts \ {st}
    BY <1>7 DEF StartError
  <2>2. CASE st.step = "joining" /\ sender.id = st.id
    BY <1>5, <1>7, <2>1, <2>2 DEF StartError
  <2>3. CASE ~ (st.step = "joining" /\ sender.id = st.id)
    <3>1. /\ sender' = sender
          /\ send' = IF IsCurrentStart(st) THEN StartFailed(send) ELSE send
      BY <1>7, <2>3 DEF StartError
    <3> QED
      BY <1>4, <1>5, <2>1, <3>1
  <2> QED
    BY <2>2, <2>3
<1>8. CASE SessionIssued(st)
  <2>1. CASE ~ IsCurrentStart(st)
    BY <1>4, <1>8, <2>1 DEF SessionIssued
  <2>2. CASE IsCurrentStart(st)
    <3> DEFINE joins == [st EXCEPT !.step = "joining"]
    <3>1. /\ send' = send /\ Creates(st) /\ starts' = (starts \ {st}) \cup {joins}
          /\ st.step = "issuing"
      BY <1>8, <2>2 DEF SessionIssued, Returns
    <3>2. /\ joins \in StartRecord /\ joins.recipient = st.recipient
          /\ joins.selection = st.selection /\ joins.step = "joining"
      BY <1>1 DEF StartRecord
    <3> HIDE DEF joins
    <3>3. /\ sender' \in [id : Nat, started : Selections, engine : EngineSnapshots]
          /\ sender' # NoCoordinator /\ sender'.id # 0
          /\ sender'.started = st.selection
      BY <1>1, <3>1, CreatesOne
    <3>4. SendShape'
      BY <1>1, <3>1, <3>2, <3>3 DEF SendInv, SendShape
    <3>5. HasCoordinator'
      BY <3>3 DEF HasCoordinator
    <3>6. production
      BY <3>1 DEF SendInv, StartedFor
    <3>7. st.recipient = st.selection.recipient /\ st.recipient = send.recipient
      BY <2>2 DEF SendInv, StartedFor, IsCurrentStart
    <3>8. StartedFor'
      BY <3>1, <3>2, <3>3, <3>6, <3>7 DEF SendInv, StartedFor
    <3>9. OffersToTheStarted'
      BY <1>1 DEF SendInv, OffersToTheStarted
    <3> QED
      BY <3>4, <3>5, <3>8, <3>9 DEF SendInv
  <2> QED
    BY <2>1, <2>2
<1> QED
  BY <1>6, <1>7, <1>8

\* What a snapshot makes of the state keeps the selection.
LEMMA SnapshotKeeps ==
    ASSUME NEW s \in SendState, NEW e \in EngineSnapshots
    PROVE  /\ EngineSnapshot(s, e) \in SendState
           /\ EngineSnapshot(s, e).recipient = s.recipient
           /\ EngineSnapshot(s, e).source = s.source
<1>1. EngineSnapshot(s, e) \in SendState
  BY ReducerTypes
<1>2. /\ EngineSnapshot(s, e).recipient = s.recipient
      /\ EngineSnapshot(s, e).source = s.source
  BY DEF EngineSnapshot, SendState
<1> QED
  BY <1>1, <1>2

\* What the coordinator shows, and what it is given to offer.
LEMMA EmitsHold ==
    ASSUME SendInv, UNCHANGED <<closed, production>>,
           NEW e \in Successors(sender.engine), SenderEmits(e)
    PROVE  SendInv'
<1> DEFINE s == EngineSnapshot(send, e)
           ready == [e EXCEPT !.transfer = "READY"]
<1>1. /\ send \in SendState /\ sender # NoCoordinator /\ sender.id # 0
      /\ sender \in [id : Nat, started : Selections, engine : EngineSnapshots]
      /\ UNCHANGED <<preparation, preparationRevision, starts, edits>>
  BY DEF SendInv, SendShape, SenderEmits
<1>2. e \in EngineSnapshots
  BY <1>1, EngineTypes
<1>3. ready \in EngineSnapshots
  <2>1. "READY" \in DOMAIN TransferTransitions
    BY DEF TransferTransitions
  <2> QED
    BY <1>2, <2>1 DEF EngineSnapshots
<1>4. s \in SendState /\ s.recipient = send.recipient /\ s.source = send.source
  BY <1>1, <1>2, SnapshotKeeps
<1> HIDE DEF s, ready
<1>5. ASSUME NEW f \in EngineSnapshots, NEW t \in SendState,
             t.recipient = send.recipient, t.source = send.source,
             sender' = [sender EXCEPT !.engine = f], send' = t
      PROVE  /\ SendShape' /\ HasCoordinator' /\ StartedFor'
             /\ sender'.started = sender.started
  <2>1. /\ sender' \in [id : Nat, started : Selections, engine : EngineSnapshots]
        /\ sender'.id = sender.id /\ sender'.started = sender.started
    BY <1>1, <1>5
  <2>2. sender' # NoCoordinator
    BY <1>1, <2>1 DEF NoCoordinator
  <2>3. SendShape'
    BY <1>1, <1>5, <2>1 DEF SendInv, SendShape
  <2>4. HasCoordinator'
    BY <2>2 DEF HasCoordinator
  <2>5. StartedFor'
    BY <1>1, <1>5, <2>1 DEF SendInv, StartedFor, IsPrepared
  <2> QED
    BY <2>1, <2>3, <2>4, <2>5
<1>6. CASE Offers(s, e)
  <2>1. /\ offers' = offers \cup {[started |-> sender.started, offered |-> Selection(s)]}
        /\ sender' = [sender EXCEPT !.engine = ready] /\ send' = EngineSnapshot(s, ready)
    BY <1>6 DEF SenderEmits, s, ready
  <2>2. /\ EngineSnapshot(s, ready) \in SendState
        /\ EngineSnapshot(s, ready).recipient = send.recipient
        /\ EngineSnapshot(s, ready).source = send.source
    BY <1>3, <1>4, SnapshotKeeps
  <2>3. SendShape' /\ HasCoordinator' /\ StartedFor'
    BY <1>3, <1>5, <2>1, <2>2
  <2>4. /\ sender.started.recipient = send.recipient
        /\ ~ production => sender.started.source = s.source
    BY <1>1, <1>4, <1>6 DEF SendInv, StartedFor, Offers
  <2>5. sender.started \in Selections
    BY <1>1
  <2>6. ~ production => Selection(s) = sender.started
    BY <1>4, <2>4, <2>5 DEF Selection, Selections
  <2>7. Selection(s).recipient = sender.started.recipient
    BY <1>4, <2>4 DEF Selection
  <2>8. OffersToTheStarted'
    BY <2>1, <2>6, <2>7 DEF SendInv, OffersToTheStarted
  <2> QED
    BY <2>3, <2>8 DEF SendInv
<1>7. CASE ~ Offers(s, e)
  <2>1. /\ sender' = [sender EXCEPT !.engine = e] /\ send' = s /\ offers' = offers
    BY <1>7 DEF SenderEmits, s
  <2>2. SendShape' /\ HasCoordinator' /\ StartedFor'
    BY <1>2, <1>4, <1>5, <2>1
  <2>3. OffersToTheStarted'
    BY <2>1 DEF SendInv, OffersToTheStarted
  <2> QED
    BY <2>2, <2>3 DEF SendInv
<1> QED
  BY <1>6, <1>7

\* The user cancels, or leaves the page.
LEMMA CancelsHold ==
    ASSUME SendInv, UNCHANGED production, (CancelSend /\ UNCHANGED closed) \/ LeaveSend
    PROVE  SendInv'
<1>1. /\ send \in SendState
      /\ sender \in [id : Nat, started : Selections, engine : EngineSnapshots]
      /\ UNCHANGED <<preparationRevision, offeredAttempt, starts, edits, offers>>
  BY DEF SendInv, SendShape, CancelSend, LeaveSend
<1>2. NoCoordinator \in [id : Nat, started : Selections, engine : EngineSnapshots]
  BY EngineTypes DEF NoCoordinator, Selections
<1>3. CASE CancelSend /\ UNCHANGED closed
  <2> DEFINE cancelled == [sender EXCEPT !.engine.transfer = "CANCELLED"]
  <2>1. "CANCELLED" \in DOMAIN TransferTransitions
    BY DEF TransferTransitions
  <2>2. [sender.engine EXCEPT !.transfer = "CANCELLED"] \in EngineSnapshots
    BY <1>1, <2>1 DEF EngineSnapshots
  <2>3. /\ cancelled \in [id : Nat, started : Selections, engine : EngineSnapshots]
        /\ cancelled.id = sender.id /\ cancelled.started = sender.started
    BY <1>1, <2>2
  <2>4. /\ sender' \in {sender, cancelled} /\ UNCHANGED preparation
        /\ sender = NoCoordinator => sender' = sender
        /\ send' = [send EXCEPT !.phase = "CANCELED"]
    BY <1>3 DEF CancelSend
  <2> HIDE DEF cancelled
  <2>5. "CANCELED" \in SendPhases /\ "CANCELED" \notin Busy
    BY DEF SendPhases, Busy, Waiting
  <2>6. /\ send' \in SendState /\ send'.phase = "CANCELED"
        /\ send'.recipient = send.recipient /\ send'.source = send.source
    BY <1>1, <2>4, <2>5 DEF SendState
  <2>7. SendShape'
    BY <1>1, <2>3, <2>4, <2>6 DEF SendInv, SendShape
  <2>8. HasCoordinator'
    BY <2>5, <2>6 DEF HasCoordinator
  <2>9. send.phase \in Busy
    BY <1>3 DEF CancelSend, Busy, Waiting
  <2>10. ~ (~ production /\ IsPrepared')
    BY <1>1, <2>4, <2>9 DEF SendInv, StartedFor, IsPrepared, Busy, Waiting
  <2>11. sender' # NoCoordinator => sender # NoCoordinator /\ sender'.started = sender.started
    BY <2>3, <2>4
  <2> QED
    BY <1>1, <2>6, <2>7, <2>8, <2>10, <2>11, SendKeeps
<1>4. CASE LeaveSend
  <2>1. /\ UNCHANGED send /\ sender' = NoCoordinator /\ preparation' = NoPreparation
        /\ closed' = TRUE
    BY <1>4 DEF LeaveSend
  <2>2. SendShape'
    BY <1>1, <1>2, <2>1 DEF SendInv, SendShape, NoPreparation
  <2>3. HasCoordinator' /\ ~ IsPrepared'
    BY <2>1 DEF HasCoordinator, IsPrepared
  <2> QED
    BY <1>1, <2>1, <2>2, <2>3, SendKeeps
<1> QED
  BY <1>3, <1>4

\* The send page keeps its invariant.
LEMMA SendHolds ==
    /\ SendInit => SendInv
    /\ SendInv /\ [SendNext]_sendVars => SendInv'
<1>1. ASSUME SendInit PROVE SendInv
  <2>1. "SELECTING_RECIPIENT" \in SendPhases /\ "SELECTING_RECIPIENT" \notin Busy
    BY DEF SendPhases, Busy, Waiting
  <2>2. send \in SendState /\ send.phase = "SELECTING_RECIPIENT"
    BY <1>1, <2>1 DEF SendInit, SendState
  <2>3. NoCoordinator \in [id : Nat, started : Selections, engine : EngineSnapshots]
    BY EngineTypes DEF NoCoordinator, Selections
  <2>4. SendShape
    BY <1>1, <2>2, <2>3 DEF SendInit, SendShape, NoPreparation
  <2>5. HasCoordinator /\ StartedFor /\ OffersToTheStarted
    BY <1>1, <2>1, <2>2 DEF SendInit, HasCoordinator, StartedFor, OffersToTheStarted, IsPrepared
  <2> QED
    BY <2>4, <2>5 DEF SendInv
<1>2. ASSUME SendInv, UNCHANGED sendVars PROVE SendInv'
  <2>1. UNCHANGED <<send, preparation, preparationRevision, sender, starts, edits, offers,
                    closed, production>>
    BY <1>2 DEF sendVars
  <2>2. SendShape'
    BY <1>2, <2>1 DEF SendInv, SendShape
  <2>3. HasCoordinator' /\ StartedFor' /\ OffersToTheStarted'
    BY <1>2, <2>1
       DEF SendInv, HasCoordinator, StartedFor, OffersToTheStarted, IsPrepared, IsCurrentStart
  <2> QED
    BY <2>2, <2>3 DEF SendInv
<1>3. ASSUME SendInv, SendNext PROVE SendInv'
  <2>1. CASE SendStep /\ UNCHANGED <<closed, production>>
    <3>1. CASE \/ \E r \in Recipients : SelectRecipient(r)
               \/ \E source \in Sources : SelectFiles(source) \/ FolderPicked(source)
               \/ SelectFolder \/ PickerDismissed \/ PickerFails
               \/ PreparationEnds \/ ClearSource
               \/ StartRefused \/ ResetSend \/ ReconcileRecipientEligibility
      BY <1>3, <2>1, <3>1, EditsHold
    <3>2. CASE Start
      BY <1>3, <2>1, <3>2, StartHolds
    <3>3. CASE \E st \in starts : SessionIssued(st) \/ SessionCreated(st) \/ StartError(st)
      BY <1>3, <2>1, <3>3, ReturnsHold
    <3>4. CASE \E e \in Successors(sender.engine) : SenderEmits(e)
      BY <1>3, <2>1, <3>4, EmitsHold
    <3>5. CASE CancelSend
      BY <1>3, <2>1, <3>5, CancelsHold
    <3> QED
      BY <2>1, <3>1, <3>2, <3>3, <3>4, <3>5 DEF SendStep
  <2>2. CASE LeaveSend /\ UNCHANGED production
    BY <1>3, <2>2, CancelsHold
  <2> QED
    BY <1>3, <2>1, <2>2 DEF SendNext
<1> QED
  BY <1>1, <1>2, <1>3

-----------------------------------------------------------------------------
(* The receive page.                                                         *)

\* The revisions that a behaviour can reach.
LEMMA RevisionBounds ==
    /\ MaxOpens \in Nat /\ MaxChoices \in Nat /\ 0 \in Revisions
    /\ \A n : n \in Revisions <=> n \in Nat /\ n <= 2 * MaxOpens + MaxChoices + 1
BY ReceiveAssumption DEF Revisions

\* The reducer, by what it makes of a state.
LEMMA ReceiveReducer ==
    ASSUME NEW s \in ReceiveState
    PROVE  /\ InitialReceive \in ReceiveState /\ ~ InitialReceive.active
           /\ InitialReceive.phase \notin Choosing
           /\ /\ SessionUnavailable(s) \in ReceiveState /\ ~ SessionUnavailable(s).active
              /\ SessionUnavailable(s).phase = "FAILED"
           /\ \A phase \in ReceivePhases : [s EXCEPT !.phase = phase] \in ReceiveState
           /\ \A n \in Revisions :
                  /\ DestinationPreparing(s, n) \in ReceiveState
                  /\ DestinationPreparing(s, n).phase = "PREPARING_DESTINATION"
                  /\ DestinationPreparing(s, n).active = s.active
                  /\ DestinationLost(s, n) \in ReceiveState
                  /\ DestinationLost(s, n) # s =>
                         DestinationLost(s, n).phase = "CHOOSING_DESTINATION"
                  /\ DestinationLost(s, n).active = s.active
           /\ /\ OfferAuthorized(s) \in ReceiveState /\ OfferAuthorized(s).active
              /\ OfferAuthorized(s).destination = s.destination
              /\ s.active => OfferAuthorized(s) = s
              /\ ~ s.active => OfferAuthorized(s).phase = "REVIEWING"
<1>1. {"OPENING", "FAILED", "PREPARING_DESTINATION", "CHOOSING_DESTINATION", "REVIEWING"}
          \subseteq ReceivePhases
  BY DEF ReceivePhases, Ended
<1>2. InitialReceive \in ReceiveState /\ ~ InitialReceive.active
  BY <1>1, RevisionBounds DEF InitialReceive, ReceiveState
<1>3. InitialReceive.phase \notin Choosing
  BY DEF InitialReceive, Choosing
<1>4. /\ SessionUnavailable(s) \in ReceiveState /\ ~ SessionUnavailable(s).active
      /\ SessionUnavailable(s).phase = "FAILED"
  BY <1>1 DEF SessionUnavailable, ReceiveState
<1>5. \A phase \in ReceivePhases : [s EXCEPT !.phase = phase] \in ReceiveState
  BY DEF ReceiveState
<1>6. ASSUME NEW n \in Revisions
      PROVE  /\ DestinationPreparing(s, n) \in ReceiveState
             /\ DestinationPreparing(s, n).phase = "PREPARING_DESTINATION"
             /\ DestinationPreparing(s, n).active = s.active
             /\ DestinationLost(s, n) \in ReceiveState
             /\ DestinationLost(s, n) # s => DestinationLost(s, n).phase = "CHOOSING_DESTINATION"
             /\ DestinationLost(s, n).active = s.active
  BY <1>1 DEF DestinationPreparing, DestinationLost, ReceiveState
<1>7. /\ OfferAuthorized(s) \in ReceiveState /\ OfferAuthorized(s).active
      /\ OfferAuthorized(s).destination = s.destination
      /\ s.active => OfferAuthorized(s) = s
      /\ ~ s.active => OfferAuthorized(s).phase = "REVIEWING"
  BY <1>1 DEF OfferAuthorized, ReceiveState
<1> QED
  BY <1>2, <1>3, <1>4, <1>5, <1>6, <1>7

\* A snapshot takes a page that is past the choice nowhere back.
LEMMA EnginePhases ==
    ASSUME NEW s \in ReceiveState, NEW e \in EngineSnapshots
    PROVE  /\ FromEngine(s, e) \in ReceiveState
           /\ FromEngine(s, e).active = s.active /\ FromEngine(s, e).destination = s.destination
           /\ /\ s.phase = "READY_TO_RECEIVE" => s.destination
              => (FromEngine(s, e).phase = "READY_TO_RECEIVE" => s.destination)
           /\ s.phase \notin Choosing /\ e.connection \notin Unconnected =>
                  FromEngine(s, e).phase \notin Choosing
<1>1. EnginePhase(s, e) \in ReceivePhases
  <2>1. {"COMPLETED", "CANCELED", "FAILED", "RECONNECTING", "WAITING_FOR_SENDER",
         "READY_TO_RECEIVE", "RECEIVING", "VERIFYING", "CONNECTING"} \subseteq ReceivePhases
    BY DEF ReceivePhases, Ended
  <2> QED
    BY <2>1 DEF EnginePhase, ReceiveState
<1>2. EnginePhase(s, e) = "READY_TO_RECEIVE" =>
          s.phase = "READY_TO_RECEIVE" \/ s.destination
  BY DEF EnginePhase
<1>3. s.phase \notin Choosing /\ e.connection \notin Unconnected =>
          EnginePhase(s, e) \notin Choosing
  BY DEF EnginePhase, Choosing, Unconnected
<1>4. CASE s.active
  <2>1. FromEngine(s, e) = [s EXCEPT !.phase = EnginePhase(s, e)]
    BY <1>4 DEF FromEngine
  <2>2. /\ FromEngine(s, e) \in ReceiveState /\ FromEngine(s, e).phase = EnginePhase(s, e)
        /\ FromEngine(s, e).active = s.active /\ FromEngine(s, e).destination = s.destination
    BY <1>1, <2>1 DEF ReceiveState
  <2> QED
    BY <1>2, <1>3, <2>2
<1>5. CASE ~ s.active
  BY <1>5 DEF FromEngine
<1> QED
  BY <1>4, <1>5

\* What a coordinator is before and after a session.
LEMMA Receivers ==
    /\ NoReceiver \in ReceiverState /\ NoReceiver.accepted = 0 /\ ~ NoReceiver.open
    /\ NoReceiver.engine.transfer = "NONE"
    /\ \A f \in ReceiverState : \A e \in EngineSnapshots : [f EXCEPT !.engine = e] \in ReceiverState
BY EngineTypes, RevisionBounds DEF NoReceiver, ReceiverState, Joining, Snapshot

\* What the invariant says, part by part.
LEMMA ReceiveFacts ==
    ASSUME ReceiveInv
    PROVE  /\ receive \in ReceiveState /\ receiver \in ReceiverState
           /\ sessionRevision \in Nat /\ sessionRevision <= MaxOpens
           /\ destinationRevision \in Nat /\ destinationRevision \in Revisions
           /\ held \in Revisions /\ opening \subseteq 1 .. MaxOpens
           /\ choosing \subseteq Revisions /\ prepared \subseteq Revisions
           /\ left \in BOOLEAN
           /\ held = 0 => prepared = {} /\ receiver.accepted = 0
           /\ prepared \ {held} = {}
           /\ receive.phase \in Choosing => receiver.accepted = 0
           /\ destinationRevision \in choosing => held = 0
BY RevisionBounds
   DEF ReceiveInv, ReceiveTypeOK, ReceiveBounds, Destinations, NoDestinationLeaks, ReceiveState,
       ReceiverState

\* The user opens a session, chooses a destination, or leaves: what was held
\* is aborted, and the choice that is under way is an old one.
LEMMA AbortsHold ==
    ASSUME ReceiveInv, Open \/ ChooseDestination \/ Leave
    PROVE  ReceiveInv'
<1>1. /\ held' = 0 /\ prepared' = {} /\ destinationRevision' = destinationRevision + 1
      /\ ~ left
  BY ReceiveFacts DEF Open, ChooseDestination, Leave, AbortDestination
<1>2. destinationRevision' \in Nat
  BY <1>1, ReceiveFacts
<1>3. CASE Open
  <2>1. /\ receiver' = NoReceiver /\ receive' = InitialReceive
        /\ sessionRevision' = sessionRevision + 1 /\ sessionRevision < MaxOpens
        /\ opening' = opening \cup {sessionRevision + 1} /\ UNCHANGED <<choosing, left>>
    BY <1>3 DEF Open
  <2>2. sessionRevision' \in Nat /\ sessionRevision' \in 1 .. MaxOpens
    BY <2>1, ReceiveFacts, RevisionBounds
  <2>3. ReceiveBounds'
    BY <1>1, <2>1, ReceiveFacts, RevisionBounds DEF ReceiveInv, ReceiveBounds
  <2>4. destinationRevision' \in Revisions
    BY <1>1, <1>2, <2>1, <2>2, <2>3, RevisionBounds DEF ReceiveBounds
  <2>5. receive' \in ReceiveState /\ receiver' \in ReceiverState
    BY <2>1, ReceiveFacts, ReceiveReducer, Receivers
  <2>6. ReceiveTypeOK'
    BY <1>1, <2>1, <2>2, <2>4, <2>5, ReceiveFacts, RevisionBounds
       DEF ReceiveTypeOK, ReceiveState, ReceiverState
  <2>7. ReceiveSessions'
    BY <2>1, ReceiveFacts, ReceiveReducer, Receivers DEF ReceiveSessions
  <2>8. receive'.phase # "READY_TO_RECEIVE"
    BY <2>1, ReceiveFacts, ReceiveReducer DEF Choosing
  <2>9. Destinations' /\ NoDestinationLeaks'
    BY <1>1, <2>1, <2>8, Receivers DEF Destinations, NoDestinationLeaks
  <2> QED
    BY <2>3, <2>6, <2>7, <2>9 DEF ReceiveInv
<1>4. CASE ChooseDestination
  <2> DEFINE n == destinationRevision + 1
  <2>1. /\ receive' = DestinationPreparing(receive, n) /\ choosing' = choosing \cup {n}
        /\ destinationRevision < MaxOpens + MaxChoices
        /\ UNCHANGED <<sessionRevision, opening, receiver, left>>
        /\ receive.phase \in Choosing
    BY <1>4 DEF ChooseDestination, Choosing
  <2>2. n \in Revisions /\ n \in Nat /\ n # 0
    BY <2>1, ReceiveFacts, RevisionBounds
  <2>3. ReceiveBounds'
    BY <1>1, <2>1, ReceiveFacts, RevisionBounds DEF ReceiveInv, ReceiveBounds
  <2>4. /\ receive' \in ReceiveState /\ receive'.active = receive.active
        /\ receive'.phase = "PREPARING_DESTINATION"
    BY <2>1, <2>2, ReceiveFacts, ReceiveReducer
  <2>5. ReceiveTypeOK'
    BY <1>1, <2>1, <2>2, <2>4, ReceiveFacts, RevisionBounds
       DEF ReceiveInv, ReceiveTypeOK, ReceiveState
  <2>6. ReceiveSessions'
    BY <2>1, <2>4 DEF ReceiveInv, ReceiveSessions
  <2>7. Destinations' /\ NoDestinationLeaks'
    BY <1>1, <2>1, <2>4, ReceiveFacts DEF ReceiveInv, Destinations, NoDestinationLeaks
  <2> QED
    BY <2>3, <2>5, <2>6, <2>7 DEF ReceiveInv
<1>5. CASE Leave
  <2>1. /\ left' = TRUE /\ receiver' = NoReceiver
        /\ UNCHANGED <<receive, sessionRevision, opening, choosing>>
    BY <1>5 DEF Leave
  <2>2. ReceiveBounds'
    BY <1>1, <2>1, ReceiveFacts, RevisionBounds DEF ReceiveInv, ReceiveBounds
  <2>3. destinationRevision' \in Revisions
    BY <1>1, <1>2, <2>1, <2>2, ReceiveFacts, RevisionBounds DEF ReceiveBounds
  <2>4. ReceiveTypeOK'
    BY <1>1, <2>1, <2>3, ReceiveFacts, RevisionBounds, Receivers
       DEF ReceiveInv, ReceiveTypeOK, ReceiverState
  <2>5. ReceiveSessions'
    BY <2>1, Receivers DEF ReceiveInv, ReceiveSessions
  <2>6. Destinations' /\ NoDestinationLeaks'
    BY <1>1, <2>1, Receivers DEF ReceiveInv, Destinations, NoDestinationLeaks
  <2> QED
    BY <2>2, <2>4, <2>5, <2>6 DEF ReceiveInv
<1> QED
  BY <1>3, <1>4, <1>5

\* A step that leaves the destinations and the bounds alone.
LEMMA ReceiveKeeps ==
    ASSUME ReceiveInv,
           UNCHANGED <<sessionRevision, destinationRevision, choosing, held, prepared, left>>,
           opening' \subseteq opening,
           receive' \in ReceiveState, receiver' \in ReceiverState,
           ReceiveSessions',
           receive'.phase = "READY_TO_RECEIVE" => receive'.destination,
           receiver'.accepted # 0 =>
               /\ receiver'.accepted = held
               /\ receive'.active /\ receiver'.engine.transfer # "NONE"
               /\ receive'.phase \notin Choosing
    PROVE  ReceiveInv'
<1>1. ReceiveTypeOK'
  BY DEF ReceiveInv, ReceiveTypeOK, ReceiveState, ReceiverState
<1>2. ReceiveBounds'
  BY DEF ReceiveInv, ReceiveBounds
<1>3. Destinations' /\ NoDestinationLeaks'
  BY ReceiveFacts DEF ReceiveInv, Destinations, NoDestinationLeaks
<1> QED
  BY <1>1, <1>2, <1>3 DEF ReceiveInv

\* A session is opened, or is not: nothing has been accepted in it.
LEMMA ConnectionsHold ==
    ASSUME ReceiveInv,
           (\E revision \in opening : Connect(revision)) \/ Joined \/ JoinFails
    PROVE  ReceiveInv'
<1>1. UNCHANGED <<sessionRevision, destinationRevision, choosing, held, prepared, left>>
  BY DEF Connect, Joined, JoinFails
<1>2. /\ receive \in ReceiveState /\ receiver \in ReceiverState
      /\ receive.phase = "READY_TO_RECEIVE" => receive.destination
  BY ReceiveFacts DEF ReceiveInv, Destinations
<1>3. ASSUME receiver' = NoReceiver, receive' = SessionUnavailable(receive),
             opening' \subseteq opening
      PROVE  ReceiveInv'
  <2>1. /\ receive' \in ReceiveState /\ ~ receive'.active /\ receive'.phase = "FAILED"
        /\ receiver' \in ReceiverState
    BY <1>2, <1>3, ReceiveReducer, Receivers
  <2>2. ReceiveSessions'
    BY <1>3, <2>1, Receivers DEF ReceiveSessions
  <2> QED
    BY <1>1, <1>3, <2>1, <2>2, ReceiveKeeps, Receivers
<1>4. ASSUME NEW revision \in opening, Connect(revision) PROVE ReceiveInv'
  <2>1. opening' = opening \ {revision}
    BY <1>4 DEF Connect
  <2>2. CASE revision # sessionRevision
    <3>1. UNCHANGED <<receive, receiver>>
      BY <1>4, <2>2 DEF Connect
    <3>2. ReceiveSessions'
      BY <1>1, <2>1, <3>1 DEF ReceiveInv, ReceiveSessions
    <3> QED
      BY <1>1, <1>2, <2>1, <3>1, <3>2, ReceiveKeeps DEF ReceiveInv, Destinations, NoDestinationLeaks
  <2>3. CASE revision = sessionRevision
    <3>1. ~ receive.active /\ receiver = NoReceiver
      BY <2>3 DEF ReceiveInv, ReceiveSessions
    <3>2. CASE receive' = SessionUnavailable(receive) /\ UNCHANGED receiver
      BY <1>3, <2>1, <3>1, <3>2
    <3>3. CASE /\ receive' = [receive EXCEPT !.phase = "AUTHORIZING"]
               /\ receiver' = [NoReceiver EXCEPT !.open = TRUE, !.joining = TRUE]
      <4>1. /\ receiver' \in ReceiverState /\ receiver'.accepted = 0
            /\ receiver'.engine.transfer = "NONE"
        BY <3>3, Receivers DEF ReceiverState
      <4>2. "AUTHORIZING" \in ReceivePhases
        BY DEF ReceivePhases
      <4>3. /\ receive' \in ReceiveState /\ ~ receive'.active
            /\ receive'.phase = "AUTHORIZING"
        BY <1>2, <3>1, <3>3, <4>2 DEF ReceiveState
      <4>4. ReceiveSessions'
        BY <1>1, <2>1, <2>3, <4>1, <4>3 DEF ReceiveSessions
      <4> QED
        BY <1>1, <2>1, <4>1, <4>3, <4>4, ReceiveKeeps
    <3> QED
      BY <1>4, <2>3, <3>2, <3>3 DEF Connect
  <2> QED
    BY <2>2, <2>3
<1>5. CASE Joined
  <2>1. /\ receiver' = [receiver EXCEPT !.joining = FALSE] /\ UNCHANGED <<receive, opening>>
        /\ receiver # NoReceiver
    BY <1>5 DEF Joined, NoReceiver
  <2>2. /\ receiver' \in ReceiverState /\ receiver'.accepted = receiver.accepted
        /\ receiver'.engine = receiver.engine /\ receiver'.open = receiver.open
    BY <1>2, <2>1 DEF ReceiverState
  <2>3. ReceiveSessions'
    BY <1>1, <2>1, <2>2 DEF ReceiveInv, ReceiveSessions
  <2> QED
    BY <1>1, <1>2, <2>1, <2>2, <2>3, ReceiveKeeps DEF ReceiveInv, Destinations, NoDestinationLeaks
<1>6. CASE JoinFails
  BY <1>3, <1>6 DEF JoinFails
<1> QED
  BY <1>4, <1>5, <1>6

\* The user reviews, and accepts, declines or cancels.
LEMMA ChoicesHold ==
    ASSUME ReceiveInv, Accept \/ Decline \/ BeginReceiving \/ CancelReceive
    PROVE  ReceiveInv'
<1>1. UNCHANGED <<sessionRevision, destinationRevision, opening, choosing, held, prepared, left>>
  BY DEF Accept, Decline, BeginReceiving, CancelReceive
<1>2. /\ receive \in ReceiveState /\ receiver \in ReceiverState
      /\ receive.phase = "READY_TO_RECEIVE" => receive.destination
      /\ receive.phase \in Choosing => receiver.accepted = 0
  BY ReceiveFacts DEF ReceiveInv, Destinations
<1>3. /\ \A phase \in ReceivePhases :
             /\ [receive EXCEPT !.phase = phase] \in ReceiveState
             /\ [receive EXCEPT !.phase = phase].phase = phase
             /\ [receive EXCEPT !.phase = phase].active = receive.active
      /\ {"CHOOSING_DESTINATION", "CANCELED", "CONNECTING"} \subseteq ReceivePhases
  BY <1>2 DEF ReceiveState, ReceivePhases, Ended
<1>4. CASE Accept
  <2>1. /\ receive' = [receive EXCEPT !.phase = "CHOOSING_DESTINATION"] /\ UNCHANGED receiver
        /\ receive.phase = "REVIEWING"
    BY <1>4 DEF Accept
  <2>2. receiver.accepted = 0
    BY <1>2, <2>1 DEF Choosing
  <2>3. /\ receive' \in ReceiveState /\ receive'.phase = "CHOOSING_DESTINATION"
        /\ receive'.active = receive.active
    BY <1>3, <2>1
  <2>4. ReceiveSessions'
    BY <1>1, <2>1, <2>3 DEF ReceiveInv, ReceiveSessions
  <2> QED
    BY <1>1, <1>2, <2>1, <2>2, <2>3, <2>4, ReceiveKeeps
<1>5. CASE Decline
  <2>1. /\ receive' = [receive EXCEPT !.phase = "CANCELED"] /\ receiver' = NoReceiver
    BY <1>5 DEF Decline
  <2>2. /\ receive' \in ReceiveState /\ receive'.phase = "CANCELED"
        /\ receive'.active = receive.active
    BY <1>3, <2>1
  <2>3. ReceiveSessions'
    BY <1>1, <2>1, <2>2, Receivers DEF ReceiveInv, ReceiveSessions
  <2> QED
    BY <1>1, <2>1, <2>2, <2>3, Receivers, ReceiveKeeps
<1>6. CASE BeginReceiving
  <2>1. /\ receive' = IF receive.destination THEN [receive EXCEPT !.phase = "CONNECTING"] ELSE receive
        /\ receiver' = [receiver EXCEPT !.accepted = held, !.accepting = TRUE]
        /\ receive.phase = "READY_TO_RECEIVE" /\ receive.active
        /\ receiver.engine.transfer # "NONE"
    BY <1>6 DEF BeginReceiving
  <2>2. receive' = [receive EXCEPT !.phase = "CONNECTING"]
    BY <1>2, <2>1
  <2>3. /\ receive' \in ReceiveState /\ receive'.phase = "CONNECTING" /\ receive'.active
    BY <1>3, <2>1, <2>2
  <2>4. /\ receiver' \in ReceiverState /\ receiver'.accepted = held
        /\ receiver'.engine = receiver.engine /\ receiver'.open = receiver.open
    BY <1>2, <2>1, ReceiveFacts DEF ReceiverState
  <2>5. ReceiveSessions'
    BY <1>1, <2>1, <2>3, <2>4 DEF ReceiveInv, ReceiveSessions
  <2>6. receive'.phase \notin Choosing
    BY <2>3 DEF Choosing
  <2> QED
    BY <1>1, <2>1, <2>3, <2>4, <2>5, <2>6, ReceiveKeeps
<1>7. CASE CancelReceive
  <2> DEFINE cancelled == [receiver EXCEPT !.engine.transfer = "CANCELLED"]
  <2>1. /\ receive' = [receive EXCEPT !.phase = "CANCELED"] /\ receive.active
        /\ receiver' = IF receiver.open THEN cancelled ELSE receiver
    BY <1>7 DEF CancelReceive
  <2>2. "CANCELLED" \in DOMAIN TransferTransitions
    BY DEF TransferTransitions
  <2>3. [receiver.engine EXCEPT !.transfer = "CANCELLED"] \in EngineSnapshots
    BY <1>2, <2>2 DEF EngineSnapshots, ReceiverState
  <2>4. /\ cancelled \in ReceiverState /\ cancelled.accepted = receiver.accepted
        /\ cancelled.open = receiver.open
    BY <1>2, <2>3 DEF ReceiverState
  <2>5. cancelled.engine.connection = receiver.engine.connection /\ cancelled.engine.transfer # "NONE"
    BY <1>2 DEF EngineSnapshots, ReceiverState
  <2> HIDE DEF cancelled
  <2>6. /\ receive' \in ReceiveState /\ receive'.phase = "CANCELED" /\ receive'.active
    BY <1>3, <2>1
  <2>7. ReceiveSessions'
    BY <1>1, <2>1, <2>4, <2>5, <2>6 DEF ReceiveInv, ReceiveSessions
  <2>8. receiver' \in ReceiverState /\ receiver'.accepted = receiver.accepted
    BY <1>2, <2>1, <2>4
  <2>9. receive'.phase \notin Choosing
    BY <2>6 DEF Choosing
  <2>10. receiver.accepted # 0 => receiver.accepted = held /\ receiver'.engine.transfer # "NONE"
    BY <2>1, <2>5 DEF ReceiveInv, Destinations, NoDestinationLeaks
  <2> QED
    BY <1>1, <2>6, <2>7, <2>8, <2>9, <2>10, ReceiveKeeps
<1> QED
  BY <1>4, <1>5, <1>6, <1>7

\* The picker answers: the newest choice finds nothing held.
LEMMA PickersHold ==
    ASSUME ReceiveInv, NEW revision \in choosing,
           DestinationOpened(revision) \/ DestinationRefused(revision)
    PROVE  ReceiveInv'
<1>1. /\ UNCHANGED <<sessionRevision, destinationRevision, opening, receiver, left>>
      /\ choosing' = choosing \ {revision}
  BY DEF DestinationOpened, DestinationRefused
<1>2. /\ receive \in ReceiveState /\ receiver \in ReceiverState /\ revision \in Revisions
      /\ receive.phase = "READY_TO_RECEIVE" => receive.destination
      /\ revision # 0
  BY ReceiveFacts DEF ReceiveInv, Destinations, ReceiveBounds
<1>3. revision = destinationRevision => held = 0 /\ prepared = {} /\ receiver.accepted = 0
  BY ReceiveFacts
<1>4. ReceiveBounds'
  BY <1>1 DEF ReceiveInv, ReceiveBounds
<1>5. ASSUME UNCHANGED <<receive, held, prepared>> PROVE ReceiveInv'
  <2>1. ReceiveTypeOK'
    BY <1>1, <1>5 DEF ReceiveInv, ReceiveTypeOK
  <2>2. ReceiveSessions' /\ Destinations' /\ NoDestinationLeaks'
    BY <1>1, <1>5 DEF ReceiveInv, ReceiveSessions, Destinations, NoDestinationLeaks
  <2> QED
    BY <1>4, <2>1, <2>2 DEF ReceiveInv
<1>6. ASSUME revision = destinationRevision, held' = revision, prepared' = prepared \cup {revision},
             receive' = [receive EXCEPT !.destination = TRUE, !.phase = "READY_TO_RECEIVE"]
      PROVE  ReceiveInv'
  <2>1. "READY_TO_RECEIVE" \in ReceivePhases
    BY DEF ReceivePhases
  <2>2. /\ receive' \in ReceiveState /\ receive'.destination /\ receive'.active = receive.active
    BY <1>2, <1>6, <2>1 DEF ReceiveState
  <2>3. ReceiveTypeOK'
    BY <1>1, <1>2, <1>6, <2>2 DEF ReceiveInv, ReceiveTypeOK, ReceiveState
  <2>4. ReceiveSessions'
    BY <1>1, <2>2 DEF ReceiveInv, ReceiveSessions
  <2>5. Destinations' /\ NoDestinationLeaks'
    BY <1>1, <1>2, <1>3, <1>6, <2>2 DEF ReceiveInv, Destinations, NoDestinationLeaks
  <2> QED
    BY <1>4, <2>3, <2>4, <2>5 DEF ReceiveInv
<1>7. ASSUME revision = destinationRevision, UNCHANGED <<held, prepared>>,
             receive' = DestinationLost(receive, revision), receive' # receive
      PROVE  ReceiveInv'
  <2>1. /\ receive' \in ReceiveState /\ receive'.phase = "CHOOSING_DESTINATION"
        /\ receive'.active = receive.active
    BY <1>2, <1>7, ReceiveReducer
  <2>2. ReceiveTypeOK'
    BY <1>1, <1>7, <2>1 DEF ReceiveInv, ReceiveTypeOK, ReceiveState
  <2>3. ReceiveSessions'
    BY <1>1, <2>1 DEF ReceiveInv, ReceiveSessions
  <2>4. Destinations' /\ NoDestinationLeaks'
    BY <1>1, <1>3, <1>7, <2>1 DEF ReceiveInv, Destinations, NoDestinationLeaks
  <2> QED
    BY <1>4, <2>2, <2>3, <2>4 DEF ReceiveInv
<1>8. CASE DestinationOpened(revision)
  BY <1>5, <1>6, <1>8 DEF DestinationOpened
<1>9. CASE DestinationRefused(revision)
  BY <1>5, <1>7, <1>9 DEF DestinationRefused
<1> QED
  BY <1>8, <1>9

\* What the engine shows next is a snapshot, and comes over a connection as
\* soon as there is a transfer.
LEMMA EmissionTypes ==
    ASSUME ReceiveInv, NEW e \in Emissions
    PROVE  /\ e \in EngineSnapshots
           /\ e.transfer # "NONE" => e.connection \notin Unconnected
           /\ receiver.engine.connection \notin Unconnected => e.connection \notin Unconnected
<1>1. receiver.engine \in EngineSnapshots
  BY ReceiveFacts DEF ReceiverState
<1>2. CASE e \in Successors(receiver.engine)
  BY <1>1, <1>2, EngineTypes DEF ReceiveInv, ReceiveSessions
<1>3. CASE e = Snapshot("CONNECTED", "READY")
  <2>1. "CONNECTED" \in DOMAIN ConnectionTransitions /\ "READY" \in DOMAIN TransferTransitions
    BY DEF ConnectionTransitions, TransferTransitions
  <2> QED
    BY <1>3, <2>1 DEF Snapshot, EngineSnapshots, Unconnected
<1> QED
  BY <1>2, <1>3 DEF Emissions

\* The engine reports, and the call that accepts returns.
LEMMA ReportsHold ==
    ASSUME ReceiveInv, AcceptReturns \/ \E e \in Emissions : ReceiverEmits(e)
    PROVE  ReceiveInv'
<1>1. UNCHANGED <<sessionRevision, destinationRevision, opening, choosing, held, prepared, left>>
  BY DEF AcceptReturns, ReceiverEmits
<1>2. /\ receive \in ReceiveState /\ receiver \in ReceiverState
      /\ receive.phase = "READY_TO_RECEIVE" => receive.destination
      /\ receiver.accepted # 0 =>
             /\ receiver.accepted = held /\ receive.active /\ receiver.engine.transfer # "NONE"
             /\ receive.phase \notin Choosing
  BY ReceiveFacts DEF ReceiveInv, Destinations, NoDestinationLeaks
<1>3. CASE AcceptReturns
  <2> DEFINE e == Snapshot("FAILED", receiver.engine.transfer)
  <2>1. /\ receiver' = [receiver EXCEPT !.accepting = FALSE]
        /\ receive' \in {receive, FromEngine(receive, e)}
    BY <1>3 DEF AcceptReturns
  <2>2. /\ receiver' \in ReceiverState /\ receiver'.accepted = receiver.accepted
        /\ receiver'.engine = receiver.engine /\ receiver'.open = receiver.open
    BY <1>2, <2>1 DEF ReceiverState
  <2>3. e \in EngineSnapshots /\ e.connection \notin Unconnected
    <3>1. "FAILED" \in DOMAIN ConnectionTransitions /\ "FAILED" \notin Unconnected
      BY DEF ConnectionTransitions, Unconnected
    <3> QED
      BY <1>2, <3>1 DEF Snapshot, EngineSnapshots, ReceiverState
  <2> HIDE DEF e
  <2>4. /\ receive' \in ReceiveState /\ receive'.active = receive.active
        /\ receive'.phase = "READY_TO_RECEIVE" => receive'.destination
        /\ receive.phase \notin Choosing => receive'.phase \notin Choosing
    <3>1. CASE receive' = receive
      BY <1>2, <3>1
    <3>2. CASE receive' = FromEngine(receive, e)
      BY <1>2, <2>3, <3>2, EnginePhases
    <3> QED
      BY <2>1, <3>1, <3>2
  <2>5. receiver # NoReceiver
    BY <1>3 DEF AcceptReturns, NoReceiver
  <2>6. ReceiveSessions'
    BY <1>1, <2>2, <2>4, <2>5 DEF ReceiveInv, ReceiveSessions
  <2> QED
    BY <1>1, <1>2, <2>2, <2>4, <2>6, ReceiveKeeps
<1>4. ASSUME NEW e \in Emissions, ReceiverEmits(e) PROVE ReceiveInv'
  <2>1. /\ e \in EngineSnapshots
        /\ e.transfer # "NONE" => e.connection \notin Unconnected
        /\ receiver.engine.connection \notin Unconnected => e.connection \notin Unconnected
    BY EmissionTypes
  <2>2. receiver.open /\ sessionRevision \notin opening
    <3>1. receiver.open
      BY <1>4 DEF ReceiverEmits
    <3> QED
      BY <3>1, Receivers DEF ReceiveInv, ReceiveSessions
  <2>3. CASE ~ receive.active /\ e.connection = "FAILED"
    <3>1. receiver' = NoReceiver /\ receive' = SessionUnavailable(receive)
      BY <1>4, <2>3 DEF ReceiverEmits
    <3>2. /\ receive' \in ReceiveState /\ receive'.phase = "FAILED"
          /\ ~ receive'.active /\ receiver' \in ReceiverState
      BY <1>2, <3>1, ReceiveReducer, Receivers
    <3>3. ReceiveSessions'
      BY <1>1, <2>2, <3>1, <3>2, Receivers DEF ReceiveSessions
    <3> QED
      BY <1>1, <3>1, <3>2, <3>3, Receivers, ReceiveKeeps
  <2>4. CASE ~ (~ receive.active /\ e.connection = "FAILED")
    <3>1. receiver' = Emitted(e)
      BY <1>4, <2>4 DEF ReceiverEmits
    <3>2. /\ receiver' \in ReceiverState /\ receiver'.engine = e
          /\ receiver'.accepted = IF e.transfer = "NONE" THEN 0 ELSE receiver.accepted
      BY <1>2, <2>1, <3>1, RevisionBounds DEF Emitted, ReceiverState
    <3>3. \/ e.transfer = "READY" /\ receive' = FromEngine(OfferAuthorized(receive), e)
          \/ ~ receive.active /\ receive' = [receive EXCEPT !.phase = "WAITING_FOR_SENDER"]
          \/ receive' = FromEngine(receive, e)
      BY <1>4, <2>4 DEF ReceiverEmits
    <3>4. CASE e.transfer = "READY" /\ receive' = FromEngine(OfferAuthorized(receive), e)
      <4> DEFINE offered == OfferAuthorized(receive)
      <4>1. /\ offered \in ReceiveState /\ offered.active
            /\ receive.active => offered = receive
            /\ ~ receive.active => offered.phase = "REVIEWING"
            /\ offered.destination = receive.destination
        BY <1>2, ReceiveReducer
      <4> HIDE DEF offered
      <4>2. offered.phase = "READY_TO_RECEIVE" => offered.destination
        BY <1>2, <4>1
      <4>3. receiver.accepted # 0 => offered.phase \notin Choosing
        BY <1>2, <4>1
      <4>4. receive' = FromEngine(offered, e) /\ e.connection \notin Unconnected
        BY <2>1, <3>4 DEF offered
      <4>5. /\ receive' \in ReceiveState /\ receive'.active
            /\ receive'.phase = "READY_TO_RECEIVE" => receive'.destination
            /\ offered.phase \notin Choosing => receive'.phase \notin Choosing
        BY <2>1, <4>1, <4>2, <4>4, EnginePhases
      <4>6. ReceiveSessions'
        BY <1>1, <2>2, <3>2, <4>4 DEF ReceiveSessions
      <4> QED
        BY <1>1, <1>2, <3>2, <3>4, <4>3, <4>5, <4>6, ReceiveKeeps
    <3>5. CASE ~ receive.active /\ receive' = [receive EXCEPT !.phase = "WAITING_FOR_SENDER"]
      <4>1. "WAITING_FOR_SENDER" \in ReceivePhases
        BY DEF ReceivePhases
      <4>2. /\ receive' \in ReceiveState /\ ~ receive'.active
            /\ receive'.phase = "WAITING_FOR_SENDER"
        BY <1>2, <3>5, <4>1 DEF ReceiveState
      <4>3. ReceiveSessions'
        BY <1>1, <2>1, <2>2, <3>2, <4>2 DEF ReceiveSessions
      <4> QED
        BY <1>1, <1>2, <3>2, <3>5, <4>2, <4>3, ReceiveKeeps
    <3>6. CASE receive' = FromEngine(receive, e)
      <4>1. /\ receive' \in ReceiveState /\ receive'.active = receive.active
            /\ receive'.phase = "READY_TO_RECEIVE" => receive'.destination
            /\ receive.phase \notin Choosing /\ e.connection \notin Unconnected =>
                   receive'.phase \notin Choosing
        BY <1>2, <2>1, <3>6, EnginePhases
      <4>2. ReceiveSessions'
        BY <1>1, <2>1, <2>2, <3>2, <4>1 DEF ReceiveInv, ReceiveSessions
      <4> QED
        BY <1>1, <1>2, <2>1, <3>2, <4>1, <4>2, ReceiveKeeps
    <3> QED
      BY <3>3, <3>4, <3>5, <3>6
  <2> QED
    BY <2>3, <2>4
<1> QED
  BY <1>3, <1>4

\* The receive page keeps its invariant.
LEMMA ReceiveHolds ==
    /\ ReceiveInit => ReceiveInv
    /\ ReceiveInv /\ [ReceiveNext]_receiveVars => ReceiveInv'
<1>1. ASSUME ReceiveInit PROVE ReceiveInv
  <2>1. "OPENING" \in ReceivePhases /\ MaxOpens \in Nat /\ 0 \in 0 .. MaxOpens
    BY RevisionBounds DEF ReceivePhases
  <2>2. receive \in ReceiveState /\ receiver \in ReceiverState
    BY <1>1, <2>1, Receivers, RevisionBounds DEF ReceiveInit, InitialReceive, ReceiveState
  <2>3. ReceiveTypeOK
    BY <1>1, <2>1, <2>2, RevisionBounds
       DEF ReceiveInit, ReceiveTypeOK, ReceiveState, ReceiverState
  <2>4. ReceiveBounds
    <3>1. left = FALSE /\ destinationRevision = 0 /\ sessionRevision = 0 /\ choosing = {}
      BY <1>1 DEF ReceiveInit
    <3>2. 0 <= MaxOpens + MaxChoices + 0 + 0
      BY RevisionBounds
    <3> QED
      BY <3>1, <3>2 DEF ReceiveBounds
  <2>5. ReceiveSessions /\ Destinations /\ NoDestinationLeaks
    BY <1>1, Receivers
       DEF ReceiveInit, InitialReceive, ReceiveSessions, Destinations, NoDestinationLeaks
  <2> QED
    BY <2>3, <2>4, <2>5 DEF ReceiveInv
<1>2. ASSUME ReceiveInv, UNCHANGED receiveVars PROVE ReceiveInv'
  BY <1>2
     DEF receiveVars, ReceiveInv, ReceiveTypeOK, ReceiveBounds, ReceiveSessions, Destinations,
         NoDestinationLeaks
<1>3. ASSUME ReceiveInv, ReceiveNext PROVE ReceiveInv'
  BY <1>3, AbortsHold, ConnectionsHold, ChoicesHold, PickersHold, ReportsHold DEF ReceiveNext
<1> QED
  BY <1>1, <1>2, <1>3

-----------------------------------------------------------------------------
(* The history.                                                              *)

\* What each step does to the records, if it does anything.
LEMMA HistoryHolds ==
    /\ HistoryInit => HistoryInv
    /\ HistoryInv /\ [HistoryNext]_historyVars =>
           /\ HistoryInv'
           /\ \A k \in Keys : records[k] \in Outcomes =>
                  \/ records'[k] = records[k]
                  \/ store = "development" /\ records'[k] = "absent"
<1> DEFINE Values == {"absent", "ACTIVE"} \cup Outcomes
           Work == [step: {"read", "write"}, event: Event, creates: BOOLEAN, retried: BOOLEAN]
           Frozen == \A k \in Keys : records[k] \in Outcomes =>
                         \/ records'[k] = records[k]
                         \/ store = "development" /\ records'[k] = "absent"
<1>1. Nothing \in Operation /\ \A op \in Work : op \in Operation
  BY DEF Operation
<1>2. ASSUME HistoryInit PROVE HistoryInv
  <2>1. operations \in [Places -> Operation]
    BY <1>1, <1>2 DEF HistoryInit
  <2> QED
    BY <1>2, <2>1 DEF HistoryInit, HistoryInv
<1>3. ASSUME HistoryInv, UNCHANGED <<queue, operations, records>> PROVE HistoryInv' /\ Frozen
  BY <1>3 DEF HistoryInv
<1>4. ASSUME HistoryInv, queue # <<>> PROVE Head(queue) \in Event /\ Tail(queue) \in Seq(Event)
  BY <1>4 DEF HistoryInv
<1>5. \A event \in Event : event.key \in Keys /\ event.status \in Values
  BY DEF Event
<1>6. \A old, new \in Values : Updated(old, new) \in Values /\ (old \in Outcomes => Updated(old, new) = old)
  BY DEF Updated
<1>7. "absent" \notin Outcomes /\ "absent" \in Values
  BY DEF Outcomes
<1> HIDE DEF Values
<1>8. ASSUME HistoryInv, \E e \in Event : Observe(e) PROVE HistoryInv' /\ Frozen
  BY <1>8 DEF HistoryInv, Observe
<1>9. ASSUME HistoryInv, \E k \in Keys : IntervalPasses(k) PROVE HistoryInv' /\ Frozen
  BY <1>3, <1>9 DEF IntervalPasses
<1>10. ASSUME HistoryInv, NEW p \in Places, SendToPostgres(p) PROVE HistoryInv' /\ Frozen
  <2> DEFINE op == [step |-> "read", event |-> Head(queue), creates |-> FALSE, retried |-> FALSE]
  <2>1. /\ queue # <<>> /\ operations' = [operations EXCEPT ![p] = op] /\ queue' = Tail(queue)
        /\ UNCHANGED records
    BY <1>10 DEF SendToPostgres, CanSend
  <2>2. op \in Operation
    BY <1>1, <1>4, <1>10, <2>1
  <2> QED
    BY <1>4, <1>10, <2>1, <2>2 DEF HistoryInv
<1>11. ASSUME HistoryInv, NEW p \in Places, operations[p] # Nothing
       PROVE  operations[p] \in Work /\ operations[p].event.key \in Keys
                  /\ operations[p].event.status \in Values
  <2>1. operations[p] \in Work
    BY <1>11 DEF HistoryInv, Operation
  <2> QED
    BY <1>5, <2>1
<1>12. ASSUME HistoryInv, NEW p \in Places, Finished(p) \/ \E op \in Work : Continued(p, op)
       PROVE  operations' \in [Places -> Operation]
  BY <1>1, <1>12 DEF HistoryInv, Finished, Continued
<1>13. ASSUME HistoryInv, NEW p \in Places, ServiceReads(p) PROVE HistoryInv' /\ Frozen
  <2> DEFINE op == operations[p]
             next == [op EXCEPT !.step = "write", !.creates = records[op.event.key] = "absent"]
  <2>1. /\ op # Nothing /\ UNCHANGED <<queue, records>>
        /\ Finished(p) \/ Continued(p, next)
    BY <1>13 DEF ServiceReads
  <2>2. op \in Work
    BY <1>11, <1>13, <2>1
  <2>3. next \in Work
    BY <2>2
  <2>4. operations' \in [Places -> Operation]
    BY <1>12, <1>13, <2>1, <2>3
  <2> QED
    BY <1>13, <2>1, <2>4 DEF HistoryInv
<1>14. ASSUME HistoryInv, NEW p \in Places, ServiceWrites(p) PROVE HistoryInv' /\ Frozen
  <2> DEFINE op == operations[p]
             k == op.event.key
             next == [op EXCEPT !.step = "read", !.retried = TRUE]
  <2>1. /\ op # Nothing /\ UNCHANGED queue
        /\ Finished(p) \/ Continued(p, next)
        /\ \/ UNCHANGED records
           \/ records[k] = "absent" /\ records' = [records EXCEPT ![k] = op.event.status]
           \/ records' = [records EXCEPT ![k] = Updated(records[k], op.event.status)]
    BY <1>14 DEF ServiceWrites
  <2>2. op \in Work /\ k \in Keys /\ op.event.status \in Values
    BY <1>11, <1>14, <2>1
  <2>3. next \in Work
    BY <2>2
  <2>4. operations' \in [Places -> Operation]
    BY <1>12, <1>14, <2>1, <2>3
  <2>5. records \in [Keys -> Values]
    BY <1>14 DEF HistoryInv, Values
  <2> HIDE DEF op
  <2>6. records' \in [Keys -> Values] /\ Frozen
    <3>1. CASE UNCHANGED records
      BY <2>5, <3>1
    <3>2. CASE records[k] = "absent" /\ records' = [records EXCEPT ![k] = op.event.status]
      BY <1>7, <2>2, <2>5, <3>2
    <3>3. CASE records' = [records EXCEPT ![k] = Updated(records[k], op.event.status)]
      BY <1>6, <2>2, <2>5, <3>3
    <3> QED
      BY <2>1, <3>1, <3>2, <3>3
  <2> QED
    BY <1>14, <2>1, <2>4, <2>6 DEF HistoryInv, Values
<1>15. ASSUME HistoryInv, SendToDevelopmentStore PROVE HistoryInv' /\ Frozen
  <2> DEFINE e == Head(queue)
             rows == [records EXCEPT ![e.key] = Updated(records[e.key], e.status)]
             order == IF records[e.key] = "absent" THEN Append(started, e.key) ELSE started
             removed == IF records[e.key] \in Outcomes THEN {} ELSE Evicted(rows, order)
  <2>1. records' = [k \in Keys |-> IF k \in removed THEN "absent" ELSE rows[k]]
    BY <1>15 DEF SendToDevelopmentStore
  <2> HIDE DEF removed
  <2>2. queue # <<>> /\ queue' = Tail(queue) /\ UNCHANGED operations /\ store = "development"
    BY <1>15 DEF SendToDevelopmentStore, CanSend
  <2>3. e \in Event /\ e.key \in Keys /\ e.status \in Values /\ queue' \in Seq(Event)
    BY <1>4, <1>5, <1>15, <2>2
  <2>4. records \in [Keys -> Values]
    BY <1>15 DEF HistoryInv, Values
  <2> HIDE DEF e
  <2>5. /\ rows \in [Keys -> Values]
        /\ \A k \in Keys : records[k] \in Outcomes => rows[k] = records[k]
    BY <1>6, <2>3, <2>4
  <2> HIDE DEF rows
  <2>6. records' \in [Keys -> Values] /\ Frozen
    BY <1>7, <2>1, <2>2, <2>5
  <2> QED
    BY <1>15, <2>2, <2>3, <2>6 DEF HistoryInv, Values
<1>16. ASSUME HistoryInv, RequestIsLost \/ AnswerIsLost PROVE HistoryInv' /\ Frozen
  BY <1>4, <1>16 DEF HistoryInv, RequestIsLost, AnswerIsLost, CanSend
<1>17. ASSUME HistoryInv, StoreIsReset PROVE HistoryInv' /\ Frozen
  BY <1>17 DEF HistoryInv, StoreIsReset
<1>18. ASSUME HistoryInv, [HistoryNext]_historyVars PROVE HistoryInv' /\ Frozen
  <2>1. CASE UNCHANGED historyVars
    BY <1>3, <1>18, <2>1 DEF historyVars
  <2> QED
    BY <1>8, <1>9, <1>10, <1>13, <1>14, <1>15, <1>16, <1>17, <1>18, <2>1 DEF HistoryNext
<1> QED
  BY <1>2, <1>18

-----------------------------------------------------------------------------
(* The health.                                                               *)

TransferState ==
    [id: Transfers \cup {NoTransfer}, state: TransferStates, enough: BOOLEAN, type: RouteTypes]

AnalyzerState ==
    [id: Transfers \cup {NoTransfer}, inference: 0 .. WarmUp,
     progress: 0 .. StallThreshold, stalls: BOOLEAN,
     samples: [Ages -> {"none", "still", "moved"}], candidate: Bottlenecks,
     agreeing: 0 .. Hysteresis, selected: Bottlenecks,
     meaningful: Limits \cup {"INSUFFICIENT_DATA"}, baseline: BOOLEAN]

\* The fields of the hysteresis are the same.
Agrees(a, b) == a.candidate = b.candidate /\ a.agreeing = b.agreeing /\ a.selected = b.selected

\* They start again.
StartsAgain(a) ==
    a.candidate = "INSUFFICIENT_DATA" /\ a.agreeing = 0 /\ a.selected = "INSUFFICIENT_DATA"

\* What the parts of an analyzer can be.
LEMMA HealthConstants ==
    /\ "INSUFFICIENT_DATA" \in Bottlenecks /\ "RECOVERING" \in Bottlenecks
    /\ Limits \subseteq Bottlenecks /\ "NONE_DETECTED" \in Bottlenecks
    /\ Hysteresis \in Nat \ {0} /\ WarmUp \in Nat /\ StallThreshold \in Nat \ {0}
    /\ RollingWindow \in Nat \ {0}
    /\ \A n \in Nat : \A age \in 0 .. n : Older(age, n) \in 0 .. n
    /\ \A age \in Ages : age # 0 => age - 1 \in Ages
BY HealthAssumption DEF Bottlenecks, Suppressed, Older, Ages

\* A new analyzer is one.
LEMMA FreshTypes ==
    \A id \in Transfers \cup {NoTransfer} :
        Fresh(id) \in AnalyzerState /\ StartsAgain(Fresh(id)) /\ Fresh(id).id = id
BY HealthConstants DEF Fresh, AnalyzerState, StartsAgain, NoSamples

\* The steps of the analyzer keep its type, and either leave the hysteresis
\* as it is or start it again.
LEMMA AnalyzerSteps ==
    ASSUME NEW a \in AnalyzerState, transfer \in TransferState
    PROVE  /\ Aged(a) \in AnalyzerState /\ Agrees(Aged(a), a) /\ Aged(a).id = a.id
           /\ Restarted(a) \in AnalyzerState /\ StartsAgain(Restarted(a))
              /\ Restarted(a).id = a.id
           /\ RouteChanged(a) \in AnalyzerState /\ StartsAgain(RouteChanged(a))
              /\ RouteChanged(a).id = a.id
           /\ Progressed(a) \in AnalyzerState /\ Agrees(Progressed(a), a)
           /\ Sampled(a) \in AnalyzerState /\ Agrees(Sampled(a), a)
<1>1. Aged(a) \in AnalyzerState /\ Agrees(Aged(a), a) /\ Aged(a).id = a.id
  <2> DEFINE kept == [age \in Ages |-> IF age = 0 THEN "none" ELSE a.samples[age - 1]]
             inference == Older(a.inference, WarmUp)
             progress == Older(a.progress, StallThreshold)
  <2>1. kept \in [Ages -> {"none", "still", "moved"}]
    BY HealthConstants DEF AnalyzerState
  <2>2. inference \in 0 .. WarmUp /\ progress \in 0 .. StallThreshold
    BY HealthConstants DEF AnalyzerState
  <2>3. Aged(a) = [a EXCEPT !.inference = inference, !.progress = progress, !.samples = kept]
    BY DEF Aged
  <2> HIDE DEF kept, inference, progress
  <2>4. Aged(a) \in AnalyzerState
    BY <2>1, <2>2, <2>3 DEF AnalyzerState
  <2>5. Aged(a).id = a.id /\ Agrees(Aged(a), a)
    BY <2>3 DEF Agrees, AnalyzerState
  <2> QED
    BY <2>4, <2>5
<1>2. ASSUME NEW b \in AnalyzerState
      PROVE  /\ Restarted(b) \in AnalyzerState /\ StartsAgain(Restarted(b))
             /\ Restarted(b).id = b.id
  <2>1. 0 \in 0 .. WarmUp /\ 0 \in 0 .. StallThreshold /\ 0 \in 0 .. Hysteresis
    BY HealthConstants
  <2>2. Restarted(b) \in AnalyzerState
    BY <2>1, HealthConstants DEF Restarted, AnalyzerState
  <2>3. StartsAgain(Restarted(b)) /\ Restarted(b).id = b.id
    BY DEF Restarted, StartsAgain, AnalyzerState
  <2> QED
    BY <2>2, <2>3
<1>3. RouteChanged(a) \in AnalyzerState /\ StartsAgain(RouteChanged(a)) /\ RouteChanged(a).id = a.id
  <2> DEFINE kept == [age \in Ages |-> IF age = 0 THEN a.samples[0] ELSE "none"]
             measured == a.baseline \/ (transfer.type = "DIRECT" /\ Moves(a.samples))
             b == [a EXCEPT !.baseline = measured, !.samples = kept]
  <2>1. kept \in [Ages -> {"none", "still", "moved"}] /\ measured \in BOOLEAN
    BY HealthConstants DEF AnalyzerState
  <2>2. RouteChanged(a) = Restarted(b)
    BY DEF RouteChanged, AnalyzerState
  <2> HIDE DEF kept, measured
  <2>3. b \in AnalyzerState /\ b.id = a.id
    BY <2>1 DEF AnalyzerState
  <2> QED
    BY <1>2, <2>2, <2>3
<1>4. Progressed(a) \in AnalyzerState /\ Agrees(Progressed(a), a)
  <2> DEFINE kept == [age \in Ages |-> IF a.samples[age] = "none" THEN "none" ELSE "moved"]
  <2>1. kept \in [Ages -> {"none", "still", "moved"}]
    OBVIOUS
  <2>2. Progressed(a) = [a EXCEPT !.progress = 0, !.stalls = FALSE, !.samples = kept]
    BY DEF Progressed
  <2> HIDE DEF kept
  <2>3. 0 \in 0 .. StallThreshold
    BY HealthConstants
  <2>4. Progressed(a) \in AnalyzerState
    BY <2>1, <2>2, <2>3 DEF AnalyzerState
  <2>5. Agrees(Progressed(a), a)
    BY <2>2 DEF Agrees, AnalyzerState
  <2> QED
    BY <2>4, <2>5
<1>5. Sampled(a) \in AnalyzerState /\ Agrees(Sampled(a), a)
  <2> DEFINE kept == [a.samples EXCEPT ![0] = IF a.samples[0] = "none" THEN "still" ELSE a.samples[0]]
  <2>1. kept \in [Ages -> {"none", "still", "moved"}]
    BY HealthConstants DEF AnalyzerState, Ages
  <2>2. Sampled(a) = [a EXCEPT !.samples = kept]
    BY DEF Sampled, AnalyzerState
  <2> HIDE DEF kept
  <2> QED
    BY <2>1, <2>2 DEF AnalyzerState, Agrees
<1> QED
  BY <1>1, <1>2, <1>3, <1>4, <1>5

\* The hysteresis starts again when a transfer, a route or a pause ends.
LEMMA MeasuredAgrees ==
    ASSUME NEW a \in AnalyzerState, NEW t \in TransferState, transfer \in TransferState,
           NEW replaced \in BOOLEAN, NEW moved \in BOOLEAN
    PROVE  /\ Measured(a, t, replaced, moved) \in AnalyzerState
           /\ \/ /\ Agrees(Measured(a, t, replaced, moved), a)
                 /\ a.id = t.id /\ ~ replaced /\ transfer.type = t.type
              \/ /\ StartsAgain(Measured(a, t, replaced, moved))
                 /\ \/ ~ (a.id = t.id /\ ~ replaced /\ transfer.type = t.type)
                    \/ transfer.state = "PAUSED"
<1> DEFINE begun == Prepared(a, t, replaced)
           progressed == IF moved THEN Progressed(begun) ELSE begun
           sampled == Sampled(progressed)
           Same == a.id = t.id /\ ~ replaced /\ transfer.type = t.type
<1>1. /\ begun \in AnalyzerState
      /\ \/ Agrees(begun, a) /\ Same
         \/ StartsAgain(begun) /\ (~ Same \/ transfer.state = "PAUSED")
  <2>1. CASE a.id # t.id
    <3>1. t.id \in Transfers \cup {NoTransfer} /\ begun = Fresh(t.id)
      BY <2>1 DEF TransferState, Prepared
    <3> QED
      BY <2>1, <3>1, FreshTypes
  <2>2. CASE a.id = t.id
    <3> DEFINE routed == IF replaced \/ transfer.type # t.type THEN RouteChanged(a) ELSE a
    <3>1. /\ routed \in AnalyzerState
          /\ (routed = a /\ Same) \/ (StartsAgain(routed) /\ ~ Same)
      BY <2>2, AnalyzerSteps
    <3>2. begun = IF transfer.state = "PAUSED" /\ t.state # "PAUSED"
                     THEN Restarted(routed) ELSE routed
      BY <2>2 DEF Prepared
    <3> HIDE DEF routed, begun
    <3>3. CASE transfer.state = "PAUSED" /\ t.state # "PAUSED"
      BY <3>1, <3>2, <3>3, AnalyzerSteps
    <3>4. CASE ~ (transfer.state = "PAUSED" /\ t.state # "PAUSED")
      BY <3>1, <3>2, <3>4 DEF Agrees
    <3> QED
      BY <3>3, <3>4
  <2> QED
    BY <2>1, <2>2
<1> HIDE DEF begun
<1>2. progressed \in AnalyzerState /\ Agrees(progressed, begun)
  BY <1>1, AnalyzerSteps DEF Agrees
<1> HIDE DEF progressed
<1>3. sampled \in AnalyzerState /\ Agrees(sampled, progressed)
  BY <1>2, AnalyzerSteps
<1>4. Measured(a, t, replaced, moved) = [sampled EXCEPT !.stalls = Stalls(sampled, t)]
  BY DEF Measured, sampled, progressed, begun
<1> HIDE DEF sampled
<1>5. Stalls(sampled, t) \in BOOLEAN
  BY <1>3 DEF Stalls, AnalyzerState
<1>6. /\ Measured(a, t, replaced, moved) \in AnalyzerState
      /\ Agrees(Measured(a, t, replaced, moved), sampled)
  BY <1>3, <1>4, <1>5 DEF AnalyzerState, Agrees
<1> QED
  BY <1>1, <1>2, <1>3, <1>6 DEF Agrees, StartsAgain

\* A snapshot is observed by an analyzer that may have aged: what it shows is
\* a diagnosis that as many in a row have agreed on, or what was shown.
LEMMA ObservedAgrees ==
    ASSUME HealthInv, NEW a \in AnalyzerState, Agrees(a, analyzer), a.id = analyzer.id,
           NEW t \in TransferState, NEW replaced \in BOOLEAN, NEW moved \in BOOLEAN,
           Observed(a, t, replaced, moved)
    PROVE  /\ HealthInv'
           /\ shown'.bottleneck # shown.bottleneck /\ shown'.bottleneck \notin Suppressed =>
                  agreement' = [on |-> shown'.bottleneck, times |-> Hysteresis]
<1>1. /\ transfer \in TransferState /\ analyzer \in AnalyzerState
      /\ shown.bottleneck = analyzer.selected /\ agreement.on = analyzer.candidate
      /\ analyzer.candidate \notin Suppressed =>
             agreement.times = analyzer.agreeing /\ transfer.state # "PAUSED"
  BY DEF HealthInv, HealthTypeOK, TransferState, AnalyzerState
<1> DEFINE measured == Measured(a, t, replaced, moved)
<1>2. PICK evidence \in Evidence(measured, t) :
          LET diagnosis == Diagnosis(measured, t, evidence)
              agreed == Agreed(measured, diagnosis)
              state == HealthState(agreed, t, diagnosis)
              after == Remembered(agreed, t, state)
              again == /\ diagnosis = agreement.on /\ a.id = t.id
                       /\ ~ replaced /\ transfer.type = t.type
          IN  /\ analyzer' = after
              /\ shown' = [state |-> state, bottleneck |-> agreed.selected]
              /\ agreement' = [on |-> diagnosis,
                               times |-> IF again THEN Older(agreement.times, Hysteresis) ELSE 1]
              /\ transfer' = t
  BY DEF Observed
<1> DEFINE diagnosis == Diagnosis(measured, t, evidence)
           agreed == Agreed(measured, diagnosis)
           state == HealthState(agreed, t, diagnosis)
           n == IF diagnosis \in Suppressed THEN Hysteresis
                ELSE IF diagnosis = measured.candidate THEN Older(measured.agreeing, Hysteresis) ELSE 1
           Same == a.id = t.id /\ ~ replaced /\ transfer.type = t.type
<1>3. /\ measured \in AnalyzerState
      /\ \/ Agrees(measured, a) /\ Same
         \/ StartsAgain(measured) /\ (~ Same \/ transfer.state = "PAUSED")
  BY <1>1, MeasuredAgrees
<1>4. diagnosis \in Bottlenecks /\ (diagnosis \notin Suppressed => t.state # "PAUSED")
  <2>1. evidence \in Bottlenecks
    BY <1>2, HealthConstants DEF Evidence, Limits
  <2> QED
    BY <2>1, HealthConstants DEF Diagnosis, Active, Suppressed
<1>5. /\ analyzer' = Remembered(agreed, t, state)
      /\ shown'.bottleneck = agreed.selected
      /\ agreement' = [on |-> diagnosis,
                       times |-> IF diagnosis = agreement.on /\ Same
                                 THEN Older(agreement.times, Hysteresis) ELSE 1]
      /\ transfer' = t
  BY <1>2
<1> HIDE DEF measured, diagnosis, state
<1>6. n \in 0 .. Hysteresis
  BY <1>3, HealthConstants DEF AnalyzerState
<1>7. agreed = [measured EXCEPT !.candidate = diagnosis, !.agreeing = n,
                                !.selected = IF n = Hysteresis THEN diagnosis ELSE measured.selected]
  BY <1>3 DEF Agreed, AnalyzerState
<1> HIDE DEF n, agreed
<1>8. /\ agreed \in AnalyzerState /\ agreed.candidate = diagnosis /\ agreed.agreeing = n
      /\ agreed.selected = IF n = Hysteresis THEN diagnosis ELSE measured.selected
  BY <1>3, <1>4, <1>6, <1>7 DEF AnalyzerState
<1>9. analyzer' \in AnalyzerState /\ Agrees(analyzer', agreed)
  <2>1. CASE analyzer' = agreed
    BY <1>8, <2>1 DEF Agrees
  <2>2. CASE agreed.selected \in Limits /\ analyzer' = [agreed EXCEPT !.meaningful = agreed.selected]
    BY <1>8, <2>2 DEF Agrees, AnalyzerState
  <2> QED
    BY <1>5, <2>1, <2>2 DEF Remembered
\* Where diagnoses agree, their count is that of the hysteresis.
<1>10. diagnosis \notin Suppressed => agreement'.times = n
  <2> SUFFICES ASSUME diagnosis \notin Suppressed PROVE agreement'.times = n
    OBVIOUS
  <2>1. CASE Agrees(measured, a) /\ Same
    <3>1. measured.candidate = agreement.on /\ measured.agreeing = analyzer.agreeing
      BY <1>1, <2>1 DEF Agrees
    <3>2. n = IF diagnosis = agreement.on THEN Older(analyzer.agreeing, Hysteresis) ELSE 1
      BY <3>1 DEF n
    <3>3. diagnosis = agreement.on => agreement.times = analyzer.agreeing
      BY <1>1
    <3> QED
      BY <1>5, <2>1, <3>2, <3>3
  <2>2. CASE StartsAgain(measured) /\ (~ Same \/ transfer.state = "PAUSED")
    <3>1. n = 1
      BY <2>2 DEF n, StartsAgain, Suppressed
    <3>2. ~ (diagnosis = agreement.on /\ Same)
      BY <1>1, <2>2
    <3> QED
      BY <1>5, <3>1, <3>2
  <2> QED
    BY <1>3, <2>1, <2>2
<1>11. HealthInv'
  <2>1. HealthTypeOK'
    BY <1>5, <1>9 DEF HealthTypeOK, TransferState, AnalyzerState
  <2>2. shown'.bottleneck = analyzer'.selected /\ agreement'.on = analyzer'.candidate
    BY <1>5, <1>8, <1>9 DEF Agrees
  <2>3. analyzer'.candidate \notin Suppressed =>
            agreement'.times = analyzer'.agreeing /\ transfer'.state # "PAUSED"
    BY <1>4, <1>5, <1>8, <1>9, <1>10 DEF Agrees
  <2> QED
    BY <2>1, <2>2, <2>3 DEF HealthInv
<1>12. shown'.bottleneck # shown.bottleneck /\ shown'.bottleneck \notin Suppressed =>
           agreement' = [on |-> shown'.bottleneck, times |-> Hysteresis]
  <2> SUFFICES ASSUME shown'.bottleneck # shown.bottleneck, shown'.bottleneck \notin Suppressed
               PROVE  agreement' = [on |-> shown'.bottleneck, times |-> Hysteresis]
    OBVIOUS
  <2>1. measured.selected = shown.bottleneck \/ measured.selected \in Suppressed
    BY <1>1, <1>3 DEF Agrees, StartsAgain, Suppressed
  <2>2. n = Hysteresis /\ shown'.bottleneck = diagnosis
    BY <1>5, <1>8, <2>1
  <2>3. agreement'.times = Hysteresis
    BY <1>10, <2>2
  <2> QED
    BY <1>5, <2>2, <2>3
<1> QED
  BY <1>11, <1>12

\* Every step of the health observes a snapshot.
LEMMA HealthHolds ==
    /\ HealthInit => HealthInv
    /\ HealthInv /\ [HealthNext]_healthVars =>
           /\ HealthInv'
           /\ shown'.bottleneck # shown.bottleneck /\ shown'.bottleneck \notin Suppressed =>
                  agreement' = [on |-> shown'.bottleneck, times |-> Hysteresis]
<1> DEFINE Holds == /\ HealthInv'
                    /\ shown'.bottleneck # shown.bottleneck /\ shown'.bottleneck \notin Suppressed =>
                           agreement' = [on |-> shown'.bottleneck, times |-> Hysteresis]
<1>1. DiagnosedTypes \subseteq RouteTypes /\ "UNKNOWN" \in RouteTypes
  BY DEF DiagnosedTypes, SelectedRouteType, RouteClass, RouteTypes
<1>2. "READY" \in TransferStates
  BY DEF TransferStates
<1>3. ASSUME HealthInit PROVE HealthInv
  <2>1. transfer \in TransferState
    BY <1>1, <1>2, <1>3 DEF HealthInit, TransferState
  <2>2. analyzer \in AnalyzerState /\ StartsAgain(analyzer)
    BY <1>3, FreshTypes DEF HealthInit
  <2>3. HealthTypeOK
    BY <2>1, <2>2 DEF HealthTypeOK, TransferState, AnalyzerState
  <2> QED
    BY <1>3, <2>2, <2>3 DEF HealthInit, HealthInv, StartsAgain, NoAgreement, Suppressed
<1>4. ASSUME HealthInv, UNCHANGED healthVars PROVE Holds
  BY <1>4 DEF HealthInv, HealthTypeOK, healthVars
<1>5. ASSUME HealthInv
      PROVE  /\ transfer \in TransferState /\ analyzer \in AnalyzerState
             /\ Agrees(analyzer, analyzer)
             /\ Aged(analyzer) \in AnalyzerState /\ Agrees(Aged(analyzer), analyzer)
             /\ Aged(analyzer).id = analyzer.id
  <2>1. transfer \in TransferState /\ analyzer \in AnalyzerState
    BY <1>5 DEF HealthInv, HealthTypeOK, TransferState, AnalyzerState
  <2> QED
    BY <2>1, AnalyzerSteps DEF Agrees
<1>6. ASSUME HealthInv, NEW a \in {analyzer, Aged(analyzer)}, PayloadMoves(a) PROVE Holds
  <2>1. PICK enough \in {transfer.enough, TRUE} :
            Observed(a, [transfer EXCEPT !.enough = enough], FALSE, TRUE)
    BY <1>6 DEF PayloadMoves
  <2>2. [transfer EXCEPT !.enough = enough] \in TransferState
    BY <1>5, <1>6, <2>1 DEF TransferState
  <2> QED
    BY <1>5, <1>6, <2>1, <2>2, ObservedAgrees
<1>7. ASSUME HealthInv, NEW id \in Transfers, TransferBegins(id) PROVE Holds
  <2> DEFINE t == [transfer EXCEPT !.id = id, !.state = "READY", !.enough = FALSE]
  <2>1. t \in TransferState
    BY <1>2, <1>5, <1>7 DEF TransferState
  <2>2. Observed(analyzer, t, FALSE, FALSE)
    BY <1>7 DEF TransferBegins
  <2> HIDE DEF t
  <2> QED
    BY <1>5, <1>7, <2>1, <2>2, ObservedAgrees
<1>8. ASSUME HealthInv, NEW state \in TransferStates, StateChanges(state) PROVE Holds
  <2>1. [transfer EXCEPT !.state = state] \in TransferState
    BY <1>5, <1>8 DEF TransferState
  <2> QED
    BY <1>5, <1>8, <2>1, ObservedAgrees DEF StateChanges
<1>9. ASSUME HealthInv, RouteIsReplaced PROVE Holds
  <2>1. [transfer EXCEPT !.type = "UNKNOWN"] \in TransferState
    BY <1>1, <1>5, <1>9 DEF TransferState
  <2> QED
    BY <1>5, <1>9, <2>1, ObservedAgrees DEF RouteIsReplaced
<1>10. ASSUME HealthInv, NEW type \in DiagnosedTypes, RouteIsDiagnosed(type) PROVE Holds
  <2>1. [transfer EXCEPT !.type = type] \in TransferState
    BY <1>1, <1>5, <1>10 DEF TransferState
  <2> QED
    BY <1>5, <1>10, <2>1, ObservedAgrees DEF RouteIsDiagnosed
<1>11. ASSUME HealthInv, Observed(Aged(analyzer), transfer, FALSE, FALSE) PROVE Holds
  BY <1>5, <1>11, ObservedAgrees
<1> HIDE DEF Holds
<1>12. ASSUME HealthInv, [HealthNext]_healthVars PROVE Holds
  BY <1>4, <1>6, <1>7, <1>8, <1>9, <1>10, <1>11, <1>12 DEF HealthNext, TimerSamples
<1> QED
  BY <1>3, <1>12 DEF Holds

-----------------------------------------------------------------------------
(* People in development.                                                    *)

\* An operation takes the next number of its page.
LEMMA AskingHolds ==
    ASSUME PeopleInv, NEW r \in Request, Asks(r)
    PROVE  PeopleInv'
<1> DEFINE me == r.person
<1>1. /\ latest \in [Persons -> Nat] /\ requests \subseteq Request /\ undisturbed \subseteq Persons
      /\ pages = [p \in Persons |-> pages[p]]
      /\ \A p \in Persons : /\ DOMAIN pages[p] = {"revision", "shown", "pending"}
                             /\ pages[p].revision \in Nat /\ pages[p].pending \in BOOLEAN
  BY DEF PeopleInv, PeopleShape
<1>2. /\ r.revision = pages[me].revision + 1
      /\ pages' = [pages EXCEPT ![me].revision = r.revision, ![me].pending = TRUE]
      /\ requests' = requests \cup {r}
      /\ r.operation = "LOAD" => r.revision = 1
      /\ UNCHANGED <<pairs, latest, answers, undisturbed>>
  BY DEF Asks
<1>3. me \in Persons /\ r.revision \in Nat
  BY DevelopmentPeopleAssumption DEF Request
<1>4. /\ pages' = [p \in Persons |-> pages'[p]]
      /\ \A p \in Persons : p # me => pages'[p] = pages[p]
      /\ pages'[me].revision = r.revision /\ pages'[me].pending
      /\ DOMAIN pages'[me] = {"revision", "shown", "pending"}
      /\ pages'[me].pending \in BOOLEAN
  <2>1. pages' = [p \in Persons |-> pages'[p]]
    BY <1>1, <1>2
  <2>2. \A p \in Persons : p # me => pages'[p] = pages[p]
    BY <1>1, <1>2
  <2>3. pages'[me].revision = r.revision
    BY <1>1, <1>2, <1>3
  <2>4. pages'[me].pending /\ pages'[me].pending \in BOOLEAN
    BY <1>1, <1>2, <1>3
  <2>5. DOMAIN pages'[me] = {"revision", "shown", "pending"}
    BY <1>1, <1>2, <1>3
  <2> QED
    BY <2>1, <2>2, <2>3, <2>4, <2>5
<1> HIDE DEF me
<1>5. \A p \in Persons :
          /\ DOMAIN pages'[p] = {"revision", "shown", "pending"}
          /\ pages'[p].revision \in Nat /\ pages'[p].pending \in BOOLEAN
  BY <1>1, <1>3, <1>4
<1>6. PeopleShape'
  <2>1. requests' \subseteq Request /\ latest' \in [Persons -> Nat] /\ undisturbed' \subseteq Persons
    BY <1>1, <1>2
  <2> QED
    BY <1>4, <1>5, <2>1 DEF PeopleShape
<1>7. \A q \in requests : q.person = me => q.revision < r.revision
  <2>1. \A q \in requests : q.revision \in Nat /\ q.revision <= pages[q.person].revision
    BY <1>1, DevelopmentPeopleAssumption DEF PeopleInv, Numbered, Request
  <2> QED
    BY <1>1, <1>2, <1>3, <2>1
<1>8. \A a \in answers : a.person = me => a.revision # r.revision /\ a.revision <= r.revision
  <2>1. \A a \in answers : a.revision \in Nat /\ a.revision <= pages[a.person].revision
    BY DEF PeopleInv, Numbered
  <2> QED
    BY <1>1, <1>2, <1>3, <2>1
<1>9. Numbered'
  <2>1. \A q \in requests' : /\ q.revision <= pages'[q.person].revision
                             /\ q.revision = pages'[q.person].revision => pages'[q.person].pending
                             /\ q.operation = "LOAD" => q.revision = 1
    <3>1. ASSUME NEW q \in requests, q.person # me
          PROVE  /\ q.revision <= pages'[q.person].revision
                 /\ q.revision = pages'[q.person].revision => pages'[q.person].pending
      <4>1. q.person \in Persons
        BY <1>1 DEF Request
      <4> QED
        BY <1>4, <3>1, <4>1 DEF PeopleInv, Numbered, IsNewest
    <3>2. ASSUME NEW q \in requests, q.person = me
          PROVE  /\ q.revision <= pages'[q.person].revision
                 /\ pages'[q.person].pending
      <4>1. q.revision \in Nat /\ q.revision < r.revision
        BY <1>1, <1>7, <3>2 DEF Request
      <4> QED
        BY <1>3, <1>4, <3>2, <4>1
    <3>3. r.revision <= pages'[me].revision /\ pages'[me].pending
      BY <1>3, <1>4
    <3>4. \A q \in requests : q.operation = "LOAD" => q.revision = 1
      BY DEF PeopleInv, Numbered
    <3> QED
      BY <1>2, <3>1, <3>2, <3>3, <3>4 DEF me
  <2>2. \A q, o \in requests' : q.person = o.person /\ q.revision = o.revision => q = o
    <3>1. \A q, o \in requests : q.person = o.person /\ q.revision = o.revision => q = o
      BY DEF PeopleInv, Numbered
    <3>2. \A q \in requests : q.person = r.person => q.revision # r.revision
      BY <1>1, <1>3, <1>7 DEF Request, me
    <3> QED
      BY <1>2, <3>1, <3>2
  <2>3. \A a \in answers' : /\ a.person \in Persons /\ a.revision \in Nat
                            /\ a.revision <= pages'[a.person].revision
    <3>1. \A a \in answers : /\ a.person \in Persons /\ a.revision \in Nat
                              /\ a.revision <= pages[a.person].revision
      BY DEF PeopleInv, Numbered
    <3> QED
      BY <1>2, <1>3, <1>4, <1>8, <3>1
  <2>4. \A a \in answers', q \in requests' : a.person = q.person => a.revision # q.revision
    <3>1. \A a \in answers, q \in requests : a.person = q.person => a.revision # q.revision
      BY DEF PeopleInv, Numbered
    <3> QED
      BY <1>2, <1>8, <3>1 DEF me
  <2> QED
    BY <2>1, <2>2, <2>3, <2>4 DEF Numbered, IsNewest
<1>10. \A p \in Persons :
          /\ p = me => pages'[p].pending /\ \A a \in answers : a.person = p => a.revision # pages'[p].revision
          /\ p # me => pages'[p] = pages[p]
  BY <1>3, <1>4, <1>8
<1>11. Settled'
  <2> SUFFICES ASSUME NEW p \in undisturbed
               PROVE  /\ \A a \in answers :
                             a.person = p /\ a.revision = pages'[p].revision /\ ~ a.stale /\ ~ a.error
                                 => a.shown = View(p, pairs')
                      /\ \/ ~ pages'[p].pending
                         \/ \E a \in answers : a.person = p /\ a.revision = pages'[p].revision
                         => \A q \in requests' :
                                q.person = p /\ q.operation \notin {"LOAD", "RESET"} => q.revision <= latest[p]
    BY <1>2 DEF Settled, Answered
  <2>1. CASE p = me
    BY <1>1, <1>10, <2>1
  <2>2. CASE p # me
    <3>1. pages'[p] = pages[p] /\ pairs' = pairs /\ \A q \in requests' : q.person = p => q \in requests
      BY <1>1, <1>2, <1>10, <2>2 DEF me
    <3>2. /\ \A a \in answers :
                 a.person = p /\ a.revision = pages[p].revision /\ ~ a.stale /\ ~ a.error
                     => a.shown = View(p, pairs)
          /\ \/ ~ pages[p].pending
             \/ \E a \in answers : a.person = p /\ a.revision = pages[p].revision
             => \A q \in requests :
                    q.person = p /\ q.operation \notin {"LOAD", "RESET"} => q.revision <= latest[p]
      BY DEF PeopleInv, Settled, Answered
    <3> QED
      BY <3>1, <3>2
  <2> QED
    BY <2>1, <2>2
<1>12. NewestAnswerShown'
  BY <1>1, <1>2, <1>10 DEF PeopleInv, NewestAnswerShown
<1> QED
  BY <1>6, <1>9, <1>11, <1>12 DEF PeopleInv

\* What the invariant says of one person who was not disturbed.
LEMMA SettledFacts ==
    ASSUME PeopleInv
    PROVE  /\ \A p \in undisturbed, a \in answers :
                  a.person = p /\ a.revision = pages[p].revision /\ ~ a.stale /\ ~ a.error
                      => a.shown = View(p, pairs)
           /\ \A p \in undisturbed :
                  \/ ~ pages[p].pending
                  \/ \E a \in answers : a.person = p /\ a.revision = pages[p].revision
                  => \A q \in requests :
                         q.person = p /\ q.operation \notin {"LOAD", "RESET"} => q.revision <= latest[p]
           /\ \A p \in undisturbed : ~ pages[p].pending => pages[p].shown = View(p, pairs)
BY DEF PeopleInv, Settled, Answered, NewestAnswerShown

\* A request is answered, or lost: the numbers stay what they are.
LEMMA AnsweringNumbers ==
    ASSUME PeopleInv, NEW r \in requests, requests' = requests \ {r}, UNCHANGED pages,
           \/ UNCHANGED answers
           \/ \E stale, error, shows :
                  answers' = answers \cup {[person |-> r.person, revision |-> r.revision,
                                            stale |-> stale, error |-> error, shown |-> shows]}
    PROVE  /\ Numbered'
           /\ \A a \in answers' : a \in answers \/ (a.person = r.person /\ a.revision = r.revision)
<1>1. \A a \in answers' : a \in answers \/ (a.person = r.person /\ a.revision = r.revision)
  OBVIOUS
<1>2. /\ r.person \in Persons /\ r.revision \in Nat /\ r.revision <= pages[r.person].revision
      /\ \A q \in requests : q.person = r.person /\ q.revision = r.revision => r = q
  BY DevelopmentPeopleAssumption DEF PeopleInv, PeopleShape, Numbered, Request
<1>3. Numbered'
  <2>1. \A q \in requests' : /\ q.revision <= pages'[q.person].revision
                             /\ q.revision = pages'[q.person].revision => pages'[q.person].pending
                             /\ q.operation = "LOAD" => q.revision = 1
    BY DEF PeopleInv, Numbered, IsNewest
  <2>2. \A q, o \in requests' : q.person = o.person /\ q.revision = o.revision => q = o
    BY DEF PeopleInv, Numbered
  <2>3. \A a \in answers' : /\ a.person \in Persons /\ a.revision \in Nat
                            /\ a.revision <= pages'[a.person].revision
    BY <1>1, <1>2 DEF PeopleInv, Numbered
  <2>4. \A a \in answers', q \in requests' : a.person = q.person => a.revision # q.revision
    BY <1>1, <1>2 DEF PeopleInv, Numbered
  <2> QED
    BY <2>1, <2>2, <2>3, <2>4 DEF Numbered, IsNewest
<1> QED
  BY <1>1, <1>3

\* The newest request of a person has nothing newer beside it.
LEMMA NewestIsLast ==
    ASSUME PeopleInv, NEW r \in requests, r.revision = pages[r.person].revision
    PROVE  /\ pages[r.person].pending
           /\ \A a \in answers : a.person = r.person => a.revision # r.revision
           /\ \A q \in requests : q.person = r.person => q.revision <= r.revision
           /\ r.operation = "LOAD" => \A q \in requests : q.person = r.person => q = r
<1>1. \A q \in requests : q.revision \in Nat /\ q.revision >= 1
  BY DevelopmentPeopleAssumption DEF PeopleInv, PeopleShape, Request
<1>2. /\ pages[r.person].pending
      /\ \A a \in answers : a.person = r.person => a.revision # r.revision
      /\ \A q \in requests : q.person = r.person => q.revision <= r.revision
  BY DEF PeopleInv, Numbered, IsNewest
<1>3. ASSUME r.operation = "LOAD", NEW q \in requests, q.person = r.person PROVE q = r
  <2>1. r.revision = 1 /\ q.revision = r.revision
    BY <1>1, <1>2, <1>3 DEF PeopleInv, Numbered
  <2> QED
    BY <1>3, <2>1 DEF PeopleInv, Numbered
<1> QED
  BY <1>2, <1>3

\* The server answers: what it changes behind a person disturbs that person,
\* and what it answers to the newest operation is what there is.
LEMMA AnswersHold ==
    ASSUME PeopleInv, NEW r \in requests,
           ServerReads(r) \/ ServerIgnores(r) \/ ServerExecutes(r) \/ ServerResets(r)
    PROVE  PeopleInv'
<1> DEFINE me == r.person
<1>1. /\ latest \in [Persons -> Nat] /\ requests \subseteq Request /\ undisturbed \subseteq Persons
      /\ me \in Persons /\ r.revision \in Nat
  BY DEF PeopleInv, PeopleShape, Request
<1>2. requests' = requests \ {r} /\ UNCHANGED pages
  BY DEF ServerReads, ServerIgnores, ServerExecutes, ServerResets, Arrives
<1>3. \E stale, error :
          answers' = answers \cup {[person |-> r.person, revision |-> r.revision,
                                    stale |-> stale, error |-> error,
                                    shown |-> View(r.person, pairs')]}
  BY DEF ServerReads, ServerIgnores, ServerExecutes, ServerResets, Answers
<1>4. /\ Numbered'
      /\ \A a \in answers' : a \in answers \/ (a.person = me /\ a.revision = r.revision)
  BY <1>2, <1>3, AnsweringNumbers
<1>5. \A a \in answers' : a \notin answers => a.shown = View(me, pairs')
  BY <1>3
<1>6. me \in undisturbed' => me \in Persons
  BY <1>1
<1>7. ASSUME latest' \in [Persons -> Nat], undisturbed' \subseteq Persons PROVE PeopleShape'
  BY <1>1, <1>2, <1>7 DEF PeopleInv, PeopleShape
\* Whom the step does not concern stays as settled as before.
<1>8. ASSUME NEW p \in undisturbed, p # me, pairs' = pairs, latest'[p] = latest[p]
      PROVE  /\ \A a \in answers' :
                    a.person = p /\ a.revision = pages'[p].revision /\ ~ a.stale /\ ~ a.error
                        => a.shown = View(p, pairs')
             /\ \/ ~ pages'[p].pending
                \/ \E a \in answers' : a.person = p /\ a.revision = pages'[p].revision
                => \A q \in requests' :
                       q.person = p /\ q.operation \notin {"LOAD", "RESET"} => q.revision <= latest'[p]
             /\ ~ pages'[p].pending => pages'[p].shown = View(p, pairs')
  BY <1>2, <1>4, <1>8, SettledFacts
<1>9. ASSUME \A p \in undisturbed' :
                 /\ \A a \in answers' :
                        a.person = p /\ a.revision = pages'[p].revision /\ ~ a.stale /\ ~ a.error
                            => a.shown = View(p, pairs')
                 /\ \/ ~ pages'[p].pending
                    \/ \E a \in answers' : a.person = p /\ a.revision = pages'[p].revision
                    => \A q \in requests' :
                           q.person = p /\ q.operation \notin {"LOAD", "RESET"} => q.revision <= latest'[p]
                 /\ ~ pages'[p].pending => pages'[p].shown = View(p, pairs')
      PROVE  Settled' /\ NewestAnswerShown'
  BY <1>9 DEF Settled, Answered, NewestAnswerShown
\* The answer to the newest operation of a person.
<1>10. ASSUME r.revision = pages[me].revision,
              \/ r.operation = "LOAD"
              \/ r.revision <= latest'[me]
       PROVE  /\ \A a \in answers' :
                     a.person = me /\ a.revision = pages'[me].revision
                         => a.shown = View(me, pairs')
              /\ \A q \in requests' :
                     q.person = me /\ q.operation \notin {"LOAD", "RESET"} => q.revision <= latest'[me]
              /\ pages'[me].pending
  <2>1. /\ pages[me].pending
        /\ \A a \in answers : a.person = me => a.revision # r.revision
        /\ \A q \in requests : q.person = me => q.revision <= r.revision
        /\ r.operation = "LOAD" => \A q \in requests : q.person = me => q = r
    BY <1>10, NewestIsLast
  <2>2. \A a \in answers' : a.person = me /\ a.revision = pages'[me].revision
                                => a.shown = View(me, pairs')
    BY <1>2, <1>5, <1>10, <2>1
  <2>4. latest'[me] \in Nat
    <3>1. CASE latest' = latest
      BY <1>1, <3>1
    <3>2. CASE latest' = [latest EXCEPT ![me] = r.revision]
      BY <1>1, <3>2
    <3>3. CASE latest' = [p \in Persons |-> 0]
      BY <1>1, <3>3
    <3> QED
      BY <3>1, <3>2, <3>3 DEF ServerReads, ServerIgnores, ServerExecutes, ServerResets
  <2>3. ASSUME NEW q \in requests', q.person = me, r.operation # "LOAD"
        PROVE  q.revision <= latest'[me]
    <3>1. q.revision \in Nat /\ q.revision <= r.revision /\ r.revision <= latest'[me]
      BY <1>1, <1>2, <1>10, <2>1, <2>3 DEF Request
    <3>2. latest'[me] \in Nat
      BY <1>1, <2>4
    <3> QED
      BY <1>1, <3>1, <3>2
  <2> QED
    BY <1>2, <2>1, <2>2, <2>3
\* An older one of a person whose newest is not answered.
<1>11. ASSUME NEW p \in undisturbed, p = me, r.revision # pages[p].revision,
              pairs' = pairs /\ latest' = latest
       PROVE  /\ \A a \in answers' :
                     a.person = p /\ a.revision = pages'[p].revision /\ ~ a.stale /\ ~ a.error
                         => a.shown = View(p, pairs')
              /\ \/ ~ pages'[p].pending
                 \/ \E a \in answers' : a.person = p /\ a.revision = pages'[p].revision
                 => \A q \in requests' :
                        q.person = p /\ q.operation \notin {"LOAD", "RESET"} => q.revision <= latest'[p]
              /\ ~ pages'[p].pending => pages'[p].shown = View(p, pairs')
  BY <1>2, <1>4, <1>11, SettledFacts
<1> HIDE DEF me
<1>12. CASE ServerReads(r)
  <2>1. /\ UNCHANGED <<pairs, latest>> /\ r.operation = "LOAD"
        /\ undisturbed' = IF r.revision = pages[me].revision
                          THEN undisturbed \cup {me} ELSE undisturbed
    <3>1. UNCHANGED <<pairs, latest>> /\ r.operation = "LOAD" /\ Disturbs(r)
      BY <1>12 DEF ServerReads
    <3>2. /\ {p \in undisturbed : pairs' = pairs} = undisturbed
          /\ {p \in undisturbed : pairs' = pairs \/ p = me} = undisturbed
      BY <3>1
    <3> QED
      BY <3>1, <3>2 DEF Disturbs, IsNewest, me
  <2>2. Settled' /\ NewestAnswerShown'
    <3>1. CASE r.revision = pages[me].revision
      BY <1>8, <1>9, <1>10, <2>1, <3>1
    <3>2. CASE r.revision # pages[me].revision
      BY <1>8, <1>9, <1>11, <2>1, <3>2
    <3> QED
      BY <3>1, <3>2
  <2>3. PeopleShape'
    BY <1>1, <1>7, <2>1 DEF me
  <2> QED
    BY <1>4, <2>2, <2>3 DEF PeopleInv
<1>13. CASE ServerIgnores(r)
  <2>1. UNCHANGED <<pairs, latest, undisturbed>> /\ r.revision <= latest[me]
    BY <1>1, <1>13 DEF ServerIgnores, AcceptsClientRevision, me
  <2>2. Settled' /\ NewestAnswerShown'
    <3>1. CASE r.revision = pages[me].revision
      BY <1>8, <1>9, <1>10, <2>1, <3>1
    <3>2. CASE r.revision # pages[me].revision
      BY <1>8, <1>9, <1>11, <2>1, <3>2
    <3> QED
      BY <3>1, <3>2
  <2>3. PeopleShape'
    BY <1>1, <1>7, <2>1
  <2> QED
    BY <1>4, <2>2, <2>3 DEF PeopleInv
<1>14. CASE ServerExecutes(r)
  <2>1. /\ latest' = [latest EXCEPT ![me] = r.revision] /\ r.revision > latest[me]
        /\ r.operation \notin {"LOAD", "RESET"}
        /\ Disturbs(r)
    BY <1>14 DEF ServerExecutes, AcceptsClientRevision, me
  <2>2. /\ latest' \in [Persons -> Nat] /\ latest'[me] = r.revision
        /\ \A p \in Persons : p # me => latest'[p] = latest[p]
    BY <1>1, <2>1 DEF me
  <2>3. CASE r.revision = pages[me].revision
    <3>1. undisturbed' = {p \in undisturbed : pairs' = pairs} \cup {me}
      BY <2>1, <2>3 DEF Disturbs, IsNewest, me
    <3>2. \A p \in undisturbed' : p = me \/ (p \in undisturbed /\ pairs' = pairs)
      BY <3>1
    <3>3. Settled' /\ NewestAnswerShown'
      BY <1>1, <1>8, <1>9, <1>10, <2>2, <2>3, <3>2
    <3>4. PeopleShape'
      BY <1>1, <1>7, <2>2, <3>1 DEF me
    <3> QED
      BY <1>4, <3>3, <3>4 DEF PeopleInv
  <2>4. CASE r.revision # pages[me].revision
    <3>1. undisturbed' = {p \in undisturbed : pairs' = pairs \/ p = me}
      BY <2>1, <2>4 DEF Disturbs, IsNewest, me
    <3>2. ASSUME NEW p \in undisturbed, p = me
          PROVE  /\ pages[p].pending
                 /\ ~ \E a \in answers : a.person = p /\ a.revision = pages[p].revision
      BY <1>1, <2>1, <3>2, SettledFacts DEF me
    <3>3. ASSUME NEW p \in undisturbed, p = me
          PROVE  /\ pages'[p].pending
                 /\ ~ \E a \in answers' : a.person = p /\ a.revision = pages'[p].revision
      BY <1>2, <1>4, <2>4, <3>2, <3>3
    <3>4. Settled' /\ NewestAnswerShown'
      BY <1>1, <1>8, <1>9, <2>2, <3>1, <3>3
    <3>5. PeopleShape'
      BY <1>1, <1>7, <2>2, <3>1
    <3> QED
      BY <1>4, <3>4, <3>5 DEF PeopleInv
  <2> QED
    BY <2>3, <2>4
<1>15. CASE ServerResets(r)
  <2>1. undisturbed' = {} /\ latest' \in [Persons -> Nat]
    BY <1>15 DEF ServerResets
  <2> QED
    BY <1>4, <1>7, <1>9, <2>1 DEF PeopleInv
<1> QED
  BY <1>12, <1>13, <1>14, <1>15

\* The page takes the answer to its newest operation, and no other.
LEMMA ReceivingHolds ==
    ASSUME PeopleInv, NEW a \in answers, PageReceives(a)
    PROVE  PeopleInv'
<1> DEFINE me == a.person
           Taken == a.revision = pages[me].revision /\ ~ a.stale /\ ~ a.error
<1>1. /\ latest \in [Persons -> Nat] /\ requests \subseteq Request /\ undisturbed \subseteq Persons
      /\ pages = [p \in Persons |-> pages[p]]
      /\ \A p \in Persons : /\ DOMAIN pages[p] = {"revision", "shown", "pending"}
                             /\ pages[p].revision \in Nat /\ pages[p].pending \in BOOLEAN
      /\ me \in Persons
  BY DEF PeopleInv, PeopleShape, Numbered
<1>2. /\ answers' = answers \ {a} /\ UNCHANGED <<pairs, latest, requests, undisturbed>>
      /\ ~ Taken => pages' = pages
      /\ Taken => pages' = [pages EXCEPT ![me] = [@ EXCEPT !.shown = a.shown, !.pending = FALSE]]
  BY DEF PageReceives
<1>3. /\ pages' = [p \in Persons |-> pages'[p]]
      /\ \A p \in Persons : ~ (Taken /\ p = me) => pages'[p] = pages[p]
      /\ Taken => /\ pages'[me].revision = pages[me].revision /\ pages'[me].shown = a.shown
                  /\ ~ pages'[me].pending /\ pages'[me].pending \in BOOLEAN
                  /\ DOMAIN pages'[me] = {"revision", "shown", "pending"}
  <2>1. CASE ~ Taken
    BY <1>1, <1>2, <2>1
  <2>2. CASE Taken
    <3> DEFINE taken == [pages[me] EXCEPT !.shown = a.shown, !.pending = FALSE]
    <3>1. pages' = [pages EXCEPT ![me] = taken]
      BY <1>2, <2>2
    <3>4. taken.revision = pages[me].revision /\ taken.shown = a.shown
      BY <1>1
    <3>5. ~ taken.pending /\ taken.pending \in BOOLEAN
      BY <1>1
    <3>6. DOMAIN taken = {"revision", "shown", "pending"}
      BY <1>1
    <3> HIDE DEF Taken, taken
    <3>2. pages' = [p \in Persons |-> pages'[p]]
      BY <1>1, <3>1
    <3>3. /\ \A p \in Persons : p # me => pages'[p] = pages[p]
          /\ pages'[me] = taken
      BY <1>1, <3>1
    <3> QED
      BY <2>2, <3>2, <3>3, <3>4, <3>5, <3>6
  <2> HIDE DEF Taken
  <2> QED
    BY <2>1, <2>2
<1> HIDE DEF Taken
<1>7. \A p \in Persons : pages'[p].revision = pages[p].revision
  BY <1>3
<1>8. PeopleShape'
  <2>1. \A p \in Persons :
            /\ DOMAIN pages'[p] = {"revision", "shown", "pending"}
            /\ pages'[p].revision \in Nat /\ pages'[p].pending \in BOOLEAN
    BY <1>1, <1>3
  <2> QED
    BY <1>1, <1>2, <1>3, <2>1 DEF PeopleShape
\* No request has the number that was answered.
<1>9. Numbered'
  <2>1. \A q \in requests : q.person = me => q.revision # a.revision
    BY DEF PeopleInv, Numbered
  <2>2. \A q \in requests' : /\ q.revision <= pages'[q.person].revision
                             /\ q.revision = pages'[q.person].revision => pages'[q.person].pending
                             /\ q.operation = "LOAD" => q.revision = 1
    <3>1. ASSUME NEW q \in requests
          PROVE  /\ q.revision <= pages'[q.person].revision
                 /\ q.revision = pages'[q.person].revision => pages'[q.person].pending
                 /\ q.operation = "LOAD" => q.revision = 1
      <4>1. q.person \in Persons
        BY <1>1 DEF Request
      <4>2. /\ q.revision <= pages[q.person].revision
            /\ q.revision = pages[q.person].revision => pages[q.person].pending
            /\ q.operation = "LOAD" => q.revision = 1
        BY DEF PeopleInv, Numbered, IsNewest
      <4> QED
        BY <1>3, <1>7, <2>1, <4>1, <4>2 DEF Taken
    <3> QED
      BY <1>2, <3>1
  <2>3. \A q, o \in requests' : q.person = o.person /\ q.revision = o.revision => q = o
    BY <1>2 DEF PeopleInv, Numbered
  <2>4. \A b \in answers' : /\ b.person \in Persons /\ b.revision \in Nat
                            /\ b.revision <= pages'[b.person].revision
    BY <1>2, <1>7 DEF PeopleInv, Numbered
  <2>5. \A b \in answers', q \in requests' : b.person = q.person => b.revision # q.revision
    BY <1>2 DEF PeopleInv, Numbered
  <2> QED
    BY <2>2, <2>3, <2>4, <2>5 DEF Numbered, IsNewest
<1>10. ASSUME NEW p \in undisturbed
       PROVE  /\ \A b \in answers' :
                     b.person = p /\ b.revision = pages'[p].revision /\ ~ b.stale /\ ~ b.error
                         => b.shown = View(p, pairs')
              /\ \/ ~ pages'[p].pending
                 \/ \E b \in answers' : b.person = p /\ b.revision = pages'[p].revision
                 => \A q \in requests' :
                        q.person = p /\ q.operation \notin {"LOAD", "RESET"} => q.revision <= latest'[p]
              /\ ~ pages'[p].pending => pages'[p].shown = View(p, pairs')
  <2>1. p \in Persons /\ pages'[p].revision = pages[p].revision
    BY <1>1, <1>7
  <2>2. CASE Taken /\ p = me
    <3>1. a.shown = View(p, pairs)
      BY <2>2, SettledFacts DEF Taken
    <3>2. \A q \in requests :
              q.person = p /\ q.operation \notin {"LOAD", "RESET"} => q.revision <= latest[p]
      BY <2>2, SettledFacts DEF Taken
    <3>3. pages'[p].shown = a.shown
      BY <1>3, <2>2
    <3> QED
      BY <1>2, <2>1, <3>1, <3>2, <3>3, SettledFacts
  <2>3. CASE ~ (Taken /\ p = me)
    <3>1. pages'[p] = pages[p]
      BY <1>3, <2>1, <2>3
    <3> QED
      BY <1>2, <3>1, SettledFacts
  <2> QED
    BY <2>2, <2>3
<1>11. Settled' /\ NewestAnswerShown'
  BY <1>2, <1>10 DEF Settled, Answered, NewestAnswerShown
<1> QED
  BY <1>8, <1>9, <1>11 DEF PeopleInv

\* The people keep their invariant.
LEMMA PeopleHolds ==
    /\ DevelopmentPeopleInit => PeopleInv
    /\ PeopleInv /\ [DevelopmentPeopleNext]_developmentVars => PeopleInv'
<1>1. ASSUME DevelopmentPeopleInit PROVE PeopleInv
  <2>1. PICK loaded \in {0, 1} :
            pages = [p \in Persons |-> [revision |-> loaded, shown |-> View(p, pairs),
                                        pending |-> loaded = 0]]
    BY <1>1 DEF DevelopmentPeopleInit
  <2>2. /\ requests = {} /\ answers = {} /\ undisturbed = {}
        /\ latest = [p \in Persons |-> 0]
    BY <1>1 DEF DevelopmentPeopleInit
  <2>3. /\ pages = [p \in Persons |-> pages[p]]
        /\ \A p \in Persons : DOMAIN pages[p] = {"revision", "shown", "pending"}
        /\ \A p \in Persons : pages[p].revision \in Nat /\ pages[p].pending \in BOOLEAN
    <3>1. pages = [p \in Persons |-> pages[p]]
      BY <2>1
    <3>2. \A p \in Persons : DOMAIN pages[p] = {"revision", "shown", "pending"}
      BY <2>1
    <3>3. \A p \in Persons : pages[p].revision \in Nat
      BY <2>1
    <3>4. \A p \in Persons : pages[p].pending \in BOOLEAN
      BY <2>1
    <3> QED
      BY <3>1, <3>2, <3>3, <3>4
  <2>4. PeopleShape
    BY <2>2, <2>3 DEF PeopleShape
  <2> QED
    BY <2>2, <2>4 DEF PeopleInv, Numbered, Settled, NewestAnswerShown
<1>2. ASSUME PeopleInv, UNCHANGED <<pairs, latest, pages, answers, undisturbed>>,
             requests' = requests
      PROVE  PeopleInv'
  <2>1. PeopleShape' /\ Numbered'
    BY <1>2 DEF PeopleInv, PeopleShape, Numbered, IsNewest
  <2>2. Settled' /\ NewestAnswerShown'
    BY <1>2 DEF PeopleInv, Settled, Answered, NewestAnswerShown
  <2> QED
    BY <2>1, <2>2 DEF PeopleInv
<1>3. ASSUME PeopleInv, NEW r \in requests, RequestFails(r) PROVE PeopleInv'
  <2>1. requests' = requests \ {r} /\ UNCHANGED <<pairs, latest, pages, answers, undisturbed>>
    BY <1>3 DEF RequestFails, Arrives
  <2>2. PeopleShape' /\ Numbered'
    BY <1>3, <2>1, AnsweringNumbers DEF PeopleInv, PeopleShape
  <2>3. Settled' /\ NewestAnswerShown'
    BY <1>3, <2>1 DEF PeopleInv, Settled, Answered, NewestAnswerShown
  <2> QED
    BY <2>2, <2>3 DEF PeopleInv
<1>4. ASSUME PeopleInv, NEW code, CodeLapses(code) PROVE PeopleInv'
  BY <1>2, <1>4 DEF CodeLapses
<1>5. ASSUME PeopleInv, UNCHANGED developmentVars PROVE PeopleInv'
  BY <1>2, <1>5 DEF developmentVars
<1>6. ASSUME PeopleInv, [DevelopmentPeopleNext]_developmentVars PROVE PeopleInv'
  BY <1>3, <1>4, <1>5, <1>6, AskingHolds, AnswersHold, ReceivingHolds DEF DevelopmentPeopleNext
<1> QED
  BY <1>1, <1>6

-----------------------------------------------------------------------------
(* The application.                                                          *)

\* Each part takes its own steps, or none.
LEMMA PartSteps ==
    ASSUME [Next]_applicationVars
    PROVE  /\ [SendNext]_sendVars /\ [ReceiveNext]_receiveVars /\ [HistoryNext]_historyVars
           /\ [DevelopmentPeopleNext]_developmentVars /\ [HealthNext]_healthVars
BY DEF Next, applicationVars

\* What each part keeps.
IInv == SendInv /\ ReceiveInv /\ HistoryInv /\ PeopleInv /\ HealthInv

\* The application keeps the invariants of its parts, whatever the user, the
\* engine, the network and the services do and in whatever order.
THEOREM InvHolds == Spec => []IInv
<1>1. Init => IInv
  BY SendHolds, ReceiveHolds, HistoryHolds, PeopleHolds, HealthHolds DEF Init, IInv
<1>2. IInv /\ [Next]_applicationVars => IInv'
  BY PartSteps, SendHolds, ReceiveHolds, HistoryHolds, PeopleHolds, HealthHolds DEF IInv
<1> QED
  BY <1>1, <1>2, PTL DEF Spec

\* What a session offers is for whom it was started, and with a session of
\* development it is what was started, for any edits, pickers, preparations
\* and calls of start() that overlap (receiveEngineSnapshot, send-controller.ts).
THEOREM OffersAreForTheStarted == Spec => []OffersToTheStarted
<1>1. IInv => OffersToTheStarted
  BY DEF IInv, SendInv
<1> QED
  BY <1>1, InvHolds, PTL

\* A page that shows a session in progress has its coordinator, or a call of
\* start() that will give it one (start and the edits of send-controller.ts).
THEOREM WaitsForSomething == Spec => []NeverWaitsForNothing
<1>1. IInv => NeverWaitsForNothing
  BY DEF IInv, SendInv, HasCoordinator, NeverWaitsForNothing, Busy
<1> QED
  BY <1>1, InvHolds, PTL

\* Every destination that the recipient opened is held or was aborted, and the
\* engine writes to the one that is held, for any number of choices, sessions
\* and pickers that answer late (receive-controller.ts).
THEOREM DestinationsAreKept == Spec => []NoDestinationLeaks
<1>1. IInv => NoDestinationLeaks
  BY DEF IInv, ReceiveInv
<1> QED
  BY <1>1, InvHolds, PTL

\* A page whose newest operation was answered shows the store, for any number
\* of people, operations and requests that overtake one another
\* (people-controller.ts, DevelopmentPeopleStore).
THEOREM NewestIsShown == Spec => []NewestAnswerShown
<1>1. IInv => NewestAnswerShown
  BY DEF IInv, PeopleInv
<1> QED
  BY <1>1, InvHolds, PTL

\* The outcome of a record is final, for any number of operations that were
\* given up and write after their successors (persistence/transfers.ts and
\* the trigger TransferRecord_terminal_immutable).
THEOREM RecordIsFrozen == Spec => TerminalRecordIsFrozen
<1>1. IInv /\ [Next]_applicationVars =>
          [\A k \in Keys : records[k] \in Outcomes =>
               \/ records'[k] = records[k]
               \/ store = "development" /\ records'[k] = "absent"]_historyVars
  BY PartSteps, HistoryHolds DEF IInv
<1> QED
  BY <1>1, InvHolds, PTL DEF Spec, TerminalRecordIsFrozen

\* A limit, or none, is shown only after as many diagnoses in a row as the
\* hysteresis asks for have agreed on one route of one transfer, for any
\* limits (applyHysteresis).
THEOREM LimitsAreAgreed == Spec => AgreedBefore
<1>1. IInv /\ [Next]_applicationVars =>
          [shown'.bottleneck # shown.bottleneck /\ shown'.bottleneck \notin Suppressed =>
               agreement' = [on |-> shown'.bottleneck, times |-> Hysteresis]]_healthVars
  BY PartSteps, HealthHolds DEF IInv
<1> QED
  BY <1>1, InvHolds, PTL DEF Spec, AgreedBefore
=============================================================================
