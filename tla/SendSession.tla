---------------------------- MODULE SendSession ----------------------------
(***************************************************************************)
(* The send page: SendSessionController and its reducer                    *)
(* (apps/engine-lab/app/send/send-controller.ts and send-state.ts).  The   *)
(* user edits the selection while sources are prepared, a folder picker is *)
(* open, and the calls of start() wait for the service.                    *)
(***************************************************************************)
EXTENDS SessionEngine, FiniteSets

CONSTANTS
    Recipients, Sources,
    NoOne,          \* no recipient, and no source
    MaxEdits        \* selections, starts and resets of a behaviour (bound)

ASSUME SendAssumption ==
    /\ MaxEdits \in Nat
    /\ NoOne \notin Recipients \cup Sources

VARIABLES
    send,           \* the reducer's state
    preparation,    \* the source being read, with its revision
    preparationRevision,
    picker,         \* is the folder picker open?
    offeredAttempt,
    sender,         \* the coordinator: who started it and its snapshot
    starts,         \* the calls of start() that wait
    edits,
    offers,         \* what each coordinator was started for, and offered
    closed,         \* the page was left: dispose() was called
    production      \* does start() issue a production session first?

sendVars == <<send, preparation, preparationRevision, picker, offeredAttempt, sender,
              starts, edits, offers, closed, production>>

Waiting == {"WAITING_FOR_RECIPIENT", "CONNECTING"}

SendPhases == Waiting \cup
    {"SELECTING_RECIPIENT", "SELECTING_SOURCE", "PREPARING_SOURCE", "READY_TO_REVIEW",
     "TRANSFERRING", "RECONNECTING", "VERIFYING", "COMPLETED", "FAILED", "CANCELED"}

Selections == [recipient: Recipients \cup {NoOne}, source: Sources \cup {NoOne}]

Selection(s) == [recipient |-> s.recipient, source |-> s.source]

NoPreparation == [revision |-> 0, source |-> NoOne]

NoCoordinator == [id |-> 0, started |-> [recipient |-> NoOne, source |-> NoOne],
                  engine |-> Joining]

SendTypeOK ==
    /\ send \in [phase: SendPhases, recipient: Recipients \cup {NoOne},
                 source: Sources \cup {NoOne}, revision: Nat, attempt: 0 .. MaxEdits,
                 active: BOOLEAN]
    /\ preparation \in [revision: Nat, source: Sources \cup {NoOne}]
    /\ sender \in [id: 0 .. MaxEdits, started: Selections, engine: EngineSnapshots]
    /\ \A st \in starts : st.step \in {"issuing", "joining"}

SendInit ==
    /\ send = [phase |-> "SELECTING_RECIPIENT", recipient |-> NoOne, source |-> NoOne,
               revision |-> 0, attempt |-> 0, active |-> FALSE]
    /\ preparation = NoPreparation
    /\ preparationRevision = 0
    /\ picker = FALSE
    /\ offeredAttempt = 0
    /\ sender = NoCoordinator
    /\ starts = {}
    /\ edits = 0
    /\ offers = {}
    /\ closed = FALSE
    /\ production \in BOOLEAN

----------------------------------------------------------------------------
(* The reducer *)
LocalPhase(recipient, source) ==
    CASE recipient = NoOne -> "SELECTING_RECIPIENT"
      [] recipient # NoOne /\ source = NoOne -> "SELECTING_SOURCE"
      [] OTHER -> "READY_TO_REVIEW"

EditsIn(s, phases) == s.phase \in phases \cup (IF s.active THEN {} ELSE Waiting)

RecipientSelected(s, r) ==
    IF EditsIn(s, {"SELECTING_RECIPIENT", "SELECTING_SOURCE", "READY_TO_REVIEW"})
    THEN [s EXCEPT !.active = FALSE, !.recipient = r, !.phase = LocalPhase(r, s.source),
                   !.revision = @ + 1]
    ELSE s

SourcePreparing(s, revision) ==
    IF s.recipient = NoOne THEN s
    ELSE [s EXCEPT !.active = FALSE, !.phase = "PREPARING_SOURCE", !.revision = revision]

SourcePrepared(s, revision, source) ==
    IF revision # s.revision THEN s
    ELSE [s EXCEPT !.phase = "READY_TO_REVIEW", !.source = source]

SourceFailed(s, revision) ==
    IF revision # s.revision THEN s
    ELSE [s EXCEPT !.phase = "SELECTING_SOURCE", !.source = NoOne]

SourceCleared(s) ==
    IF EditsIn(s, {"SELECTING_SOURCE", "READY_TO_REVIEW", "PREPARING_SOURCE"})
    THEN [s EXCEPT !.active = FALSE, !.phase = LocalPhase(s.recipient, NoOne),
                   !.source = NoOne, !.revision = @ + 1]
    ELSE s

StartRequested(s) ==
    [s EXCEPT !.active = FALSE, !.phase = "WAITING_FOR_RECIPIENT", !.attempt = @ + 1]

StartFailed(s) == [s EXCEPT !.phase = "FAILED"]

Reset(s, recipient) ==
    [phase |-> LocalPhase(recipient, NoOne), recipient |-> recipient, source |-> NoOne,
     revision |-> s.revision + 1, attempt |-> 0, active |-> FALSE]

PhaseFromEngine(s, e) ==
    CASE e.transfer = "DELIVERED" -> "COMPLETED"
      [] e.transfer = "CANCELLED" -> "CANCELED"
      [] e.transfer = "FAILED" -> "FAILED"
      [] OTHER ->
    CASE e.connection = "FAILED" -> "FAILED"
      [] e.connection # "FAILED" /\ "RECONNECTING" \in {e.connection, e.transfer} -> "RECONNECTING"
      [] OTHER ->
    CASE e.transfer = "RUNNING" -> "TRANSFERRING"
      [] e.transfer = "VERIFYING" -> "VERIFYING"
      [] e.transfer = "READY" -> "WAITING_FOR_RECIPIENT"
      [] OTHER ->
    CASE e.connection \in {"SIGNALLING_CONNECTING", "CONNECTING", "CONNECTED"} -> "CONNECTING"
      [] e.connection = "WAITING_FOR_PEER" \/ (s.source # NoOne /\ s.recipient # NoOne)
             -> "WAITING_FOR_RECIPIENT"
      [] OTHER -> s.phase

EngineSnapshot(s, e) ==
    [s EXCEPT !.active = @ \/ e.transfer # "NONE", !.phase = PhaseFromEngine(s, e)]

----------------------------------------------------------------------------
Edits == ~closed /\ edits < MaxEdits /\ edits' = edits + 1

CanEditSelection ==
    EditsIn(send, {"SELECTING_RECIPIENT", "SELECTING_SOURCE", "PREPARING_SOURCE",
                   "READY_TO_REVIEW"})

InvalidatePendingSession == offeredAttempt' = 0 /\ sender' = NoCoordinator

(* Faulty: a recipient can be replaced under a session that waits *)
SelectRecipientKeeping(r) ==
    /\ Edits /\ CanEditSelection
    /\ send' = RecipientSelected(send, r)
    /\ UNCHANGED <<preparation, preparationRevision, picker, starts, offers, sender,
                   offeredAttempt>>

SelectRecipient(r) ==
    /\ Edits /\ CanEditSelection
    /\ InvalidatePendingSession
    /\ send' = RecipientSelected(send, r)
    /\ UNCHANGED <<preparation, preparationRevision, picker, starts, offers>>

(* prepareSource: whatever was being prepared is aborted *)
PrepareSource(source) ==
    IF send.recipient = NoOne
    THEN UNCHANGED <<send, preparation, preparationRevision, offeredAttempt, sender>>
    ELSE /\ preparationRevision' = preparationRevision + 1
         /\ preparation' = [revision |-> preparationRevision + 1, source |-> source]
         /\ InvalidatePendingSession
         /\ send' = SourcePreparing(send, preparationRevision + 1)

SelectFiles(source) ==
    /\ Edits /\ CanEditSelection
    /\ PrepareSource(source)
    /\ UNCHANGED <<picker, starts, offers>>

SelectFolder ==
    /\ Edits /\ CanEditSelection /\ ~picker
    /\ picker' = TRUE
    /\ UNCHANGED <<send, preparation, preparationRevision, offeredAttempt, sender, starts, offers>>

(* What could be edited when the picker opened is not asked again *)
FolderPicked(source) ==
    /\ picker /\ picker' = FALSE
    /\ PrepareSource(source)
    /\ UNCHANGED <<starts, edits, offers>>

PickerDismissed ==
    /\ picker /\ picker' = FALSE
    /\ UNCHANGED <<send, preparation, preparationRevision, offeredAttempt, sender, starts,
                   edits, offers>>

(* reportSourceError *)
PickerFails ==
    /\ picker /\ picker' = FALSE
    /\ preparationRevision' = preparationRevision + 1
    /\ send' = SourceFailed(SourcePreparing(send, preparationRevision + 1),
                            preparationRevision + 1)
    /\ UNCHANGED <<preparation, offeredAttempt, sender, starts, edits, offers>>

(* The loader returns, with a source or an error *)
PreparationEnds ==
    /\ preparation # NoPreparation
    /\ preparation' = NoPreparation
    /\ IF preparation.revision # preparationRevision THEN UNCHANGED send
       ELSE \/ send' = SourcePrepared(send, preparation.revision, preparation.source)
            \/ send' = SourceFailed(send, preparation.revision)
    /\ UNCHANGED <<preparationRevision, picker, offeredAttempt, sender, starts, edits, offers>>

ClearSource ==
    /\ Edits /\ CanEditSelection
    /\ preparation' = NoPreparation
    /\ preparationRevision' = preparationRevision + 1
    /\ InvalidatePendingSession
    /\ send' = SourceCleared(send)
    /\ UNCHANGED <<picker, starts, offers>>

----------------------------------------------------------------------------
(* start() *)
Creates(st) == sender' = [id |-> st.id, started |-> st.selection, engine |-> Joining]

StartOf(s) ==
    [id |-> edits + 1, attempt |-> s.attempt, recipient |-> s.recipient,
     revision |-> s.revision, selection |-> Selection(s),
     step |-> IF production THEN "issuing" ELSE "joining"]

IsCurrentStart(st) ==
    /\ send.attempt = st.attempt
    /\ send.recipient = st.recipient
    /\ send.revision = st.revision

Start ==
    /\ Edits
    /\ send.phase = "READY_TO_REVIEW" /\ send.source # NoOne /\ send.recipient # NoOne
    /\ sender = NoCoordinator
    /\ send' = StartRequested(send)
    /\ starts' = starts \cup {StartOf(send')}
    /\ IF production THEN UNCHANGED sender ELSE Creates(StartOf(send'))
    /\ UNCHANGED <<preparation, preparationRevision, picker, offeredAttempt, offers>>

(* The recipient is eligible no more *)
StartRefused ==
    /\ Edits
    /\ send.phase = "READY_TO_REVIEW" /\ send.source # NoOne /\ sender = NoCoordinator
    /\ send' = StartFailed(send)
    /\ UNCHANGED <<preparation, preparationRevision, picker, offeredAttempt, sender, starts,
                    offers>>

Returns(st, steps) == st \in starts /\ st.step \in steps

SessionIssued(st) ==
    /\ Returns(st, {"issuing"})
    /\ IF IsCurrentStart(st)
       THEN Creates(st) /\ starts' = (starts \ {st}) \cup {[st EXCEPT !.step = "joining"]}
       ELSE UNCHANGED sender /\ starts' = starts \ {st}
    /\ UNCHANGED <<send, preparation, preparationRevision, picker, offeredAttempt, edits, offers>>

(* SESSION_CREATED shows the code; a coordinator that was replaced is      *)
(* closed, and its snapshots are nobody's                                  *)
SessionCreated(st) ==
    /\ Returns(st, {"joining"})
    /\ starts' = starts \ {st}
    /\ UNCHANGED <<send, preparation, preparationRevision, picker, offeredAttempt, sender,
                   edits, offers>>

(* Faulty: an error while joining closes the session and says nothing *)
StartErrorUnsaid(st) ==
    /\ st \in starts
    /\ starts' = starts \ {st}
    /\ IF st.step = "joining" /\ sender.id = st.id
       THEN sender' = NoCoordinator /\ UNCHANGED send
       ELSE /\ UNCHANGED sender
            /\ send' = IF IsCurrentStart(st) THEN StartFailed(send) ELSE send
    /\ UNCHANGED <<preparation, preparationRevision, picker, offeredAttempt, edits, offers>>

StartError(st) ==
    /\ st \in starts
    /\ starts' = starts \ {st}
    /\ IF st.step = "joining" /\ sender.id = st.id
       THEN sender' = NoCoordinator /\ send' = StartFailed(send)
       ELSE /\ UNCHANGED sender
            /\ send' = IF IsCurrentStart(st) THEN StartFailed(send) ELSE send
    /\ UNCHANGED <<preparation, preparationRevision, picker, offeredAttempt, edits, offers>>

----------------------------------------------------------------------------
Offers(s, e) ==
    /\ e.connection = "CONNECTED"
    /\ offeredAttempt # s.attempt
    /\ s.source # NoOne /\ s.recipient # NoOne
    /\ s.phase \in Waiting

(* receiveEngineSnapshot, once the coordinator has joined its session: what *)
(* the page offers makes the transfer READY                                *)
SenderEmits(e) ==
    /\ sender # NoCoordinator
    /\ \A st \in starts : st.id # sender.id
    /\ LET s == EngineSnapshot(send, e)
           ready == [e EXCEPT !.transfer = "READY"]
       IN  IF Offers(s, e)
           THEN /\ offeredAttempt' = s.attempt
                /\ offers' = offers \cup {[started |-> sender.started, offered |-> Selection(s)]}
                /\ sender' = [sender EXCEPT !.engine = ready]
                /\ send' = EngineSnapshot(s, ready)
           ELSE /\ send' = s
                /\ sender' = [sender EXCEPT !.engine = e]
                /\ UNCHANGED <<offeredAttempt, offers>>
    /\ UNCHANGED <<preparation, preparationRevision, picker, starts, edits>>

CancelSend ==
    /\ ~closed /\ send.active
    /\ send.phase \in {"TRANSFERRING", "RECONNECTING", "VERIFYING"} \cup Waiting
    /\ send' = [send EXCEPT !.phase = "CANCELED"]
    /\ sender' = IF \/ sender = NoCoordinator
                    \/ sender.engine.transfer \in {"DELIVERED", "FAILED", "NONE"}
                 THEN sender ELSE [sender EXCEPT !.engine.transfer = "CANCELLED"]
    /\ UNCHANGED <<preparation, preparationRevision, picker, offeredAttempt, starts, edits, offers>>

Abandons(recipient) ==
    /\ Edits
    /\ preparation' = NoPreparation
    /\ preparationRevision' = preparationRevision + 1
    /\ InvalidatePendingSession
    /\ send' = Reset(send, recipient)
    /\ UNCHANGED <<picker, starts, offers>>

ResetSend == send.phase \in {"COMPLETED", "FAILED", "CANCELED"} /\ Abandons(send.recipient)

ReconcileRecipientEligibility == ~send.active /\ send.recipient # NoOne /\ Abandons(NoOne)

(* dispose(): what start() waits for may still create a coordinator *)
LeaveSend ==
    /\ ~closed /\ closed' = TRUE
    /\ preparation' = NoPreparation
    /\ sender' = NoCoordinator
    /\ UNCHANGED <<send, preparationRevision, picker, offeredAttempt, starts, edits, offers>>

SendStep ==
    \/ \E r \in Recipients : SelectRecipient(r)
    \/ \E source \in Sources : SelectFiles(source) \/ FolderPicked(source)
    \/ SelectFolder \/ PickerDismissed \/ PickerFails
    \/ PreparationEnds \/ ClearSource
    \/ Start \/ StartRefused
    \/ \E st \in starts : SessionIssued(st) \/ SessionCreated(st) \/ StartError(st)
    \/ \E e \in Successors(sender.engine) : SenderEmits(e)
    \/ CancelSend \/ ResetSend \/ ReconcileRecipientEligibility

SendNext == ((SendStep /\ UNCHANGED closed) \/ LeaveSend) /\ UNCHANGED production

----------------------------------------------------------------------------
(* What a session offers is for whom it was started, whatever was chosen   *)
(* since, while a source was prepared, a picker was open or start() waited,*)
(* and with a development session it is what was started.                  *)
OffersToTheStarted ==
    \A o \in offers :
        /\ o.offered.recipient = o.started.recipient
        /\ ~production => o.offered = o.started

(* What a session offers is what the user reviewed when they pressed Send: *)
(* docs/P4-SEND-STATE-MACHINE.md.  A production session can offer a source *)
(* chosen after it was started.                                            *)
OffersWhatWasReviewed == \A o \in offers : o.offered = o.started

(* A page that shows a session in progress has one, or a start that will   *)
(* give it one: no order of edits, errors and answers leaves it waiting    *)
(* for nothing.                                                            *)
NeverWaitsForNothing ==
    ~closed /\ send.phase \in Waiting \cup {"TRANSFERRING", "RECONNECTING", "VERIFYING"} =>
        \/ sender # NoCoordinator
        \/ \E st \in starts : IsCurrentStart(st)
=============================================================================
