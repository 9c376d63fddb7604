--------------------------- MODULE ReceiveSession ---------------------------
(***************************************************************************)
(* The receive page: ReceiveSessionController and its reducer              *)
(* (apps/engine-lab/app/receive/receive-controller.ts, receive-state.ts).  *)
(* The recipient opens a session, reviews its offer, picks a destination   *)
(* and receives, while the engine reports the connection and the transfer. *)
(***************************************************************************)
EXTENDS SessionEngine, FiniteSets

CONSTANTS
    MaxOpens,       \* sessions opened in a behaviour (bound)
    MaxChoices      \* destinations asked for (bound)

ASSUME ReceiveAssumption == MaxOpens \in Nat \ {0} /\ MaxChoices \in Nat \ {0}

VARIABLES
    receive,        \* the reducer's state
    sessionRevision,
    destinationRevision,
    opening,        \* the calls of open() that wait for the capabilities
    choosing,       \* the calls of prepareDestination that wait for the picker
    held,           \* this.destination, by revision; 0 is none
    prepared,       \* destinations opened and not aborted
    receiver,       \* the coordinator
    left            \* the page was left: dispose() was called

receiveVars == <<receive, sessionRevision, destinationRevision, opening, choosing, held,
                 prepared, receiver, left>>

Ended == {"COMPLETED", "FAILED", "CANCELED"}

ReceivePhases == Ended \cup
    {"OPENING", "AUTHORIZING", "WAITING_FOR_SENDER", "REVIEWING", "CHOOSING_DESTINATION",
     "PREPARING_DESTINATION", "READY_TO_RECEIVE", "CONNECTING", "RECEIVING",
     "RECONNECTING", "VERIFYING"}

Revisions == 0 .. (2 * MaxOpens + MaxChoices + 1)

NoReceiver == [open |-> FALSE, engine |-> Joining, joining |-> FALSE, accepted |-> 0,
               accepting |-> FALSE]

ReceiveTypeOK ==
    /\ receive \in [phase: ReceivePhases, active: BOOLEAN, destination: BOOLEAN,
                    destinationRevision: Revisions]
    /\ sessionRevision \in 0 .. MaxOpens
    /\ destinationRevision \in Revisions /\ held \in Revisions
    /\ opening \subseteq 1 .. MaxOpens
    /\ choosing \subseteq Revisions /\ prepared \subseteq Revisions
    /\ receiver \in [open: BOOLEAN, engine: EngineSnapshots, joining: BOOLEAN,
                     accepted: Revisions, accepting: BOOLEAN]

InitialReceive == [phase |-> "OPENING", active |-> FALSE, destination |-> FALSE,
                   destinationRevision |-> 0]

ReceiveInit ==
    /\ receive = InitialReceive
    /\ sessionRevision = 0 /\ destinationRevision = 0
    /\ opening = {} /\ choosing = {}
    /\ held = 0 /\ prepared = {}
    /\ receiver = NoReceiver
    /\ left = FALSE

----------------------------------------------------------------------------
(* The reducer *)
SessionUnavailable(s) == [s EXCEPT !.phase = "FAILED", !.active = FALSE, !.destination = FALSE]

OfferAuthorized(s) == IF s.active THEN s ELSE [s EXCEPT !.active = TRUE, !.phase = "REVIEWING"]

DestinationPreparing(s, revision) ==
    [s EXCEPT !.phase = "PREPARING_DESTINATION", !.destination = FALSE,
              !.destinationRevision = revision]

(* DESTINATION_CANCELED and DESTINATION_FAILED ask for no phase *)
DestinationLost(s, revision) ==
    IF revision # s.destinationRevision THEN s
    ELSE [s EXCEPT !.phase = "CHOOSING_DESTINATION", !.destination = FALSE]

EnginePhase(s, e) ==
    CASE e.transfer = "DELIVERED" -> "COMPLETED"
      [] e.transfer = "CANCELLED" -> "CANCELED"
      [] e.transfer = "FAILED" -> "FAILED"
      [] OTHER ->
    CASE e.connection = "FAILED" -> "FAILED"
      [] e.connection # "FAILED" /\ "RECONNECTING" \in {e.connection, e.transfer} -> "RECONNECTING"
      [] OTHER ->
    CASE e.connection = "WAITING_FOR_PEER" -> "WAITING_FOR_SENDER"
      [] s.phase = "WAITING_FOR_SENDER" /\ s.destination /\ e = Snapshot("CONNECTED", "READY")
             -> "READY_TO_RECEIVE"
      [] OTHER ->
    CASE e.transfer = "RUNNING" -> "RECEIVING"
      [] e.transfer = "VERIFYING" -> "VERIFYING"
      [] e.transfer \notin {"RUNNING", "VERIFYING"} /\ s.phase = "READY_TO_RECEIVE"
             /\ e.connection = "CONNECTING" -> "CONNECTING"
      [] OTHER -> s.phase

FromEngine(s, e) == IF s.active THEN [s EXCEPT !.phase = EnginePhase(s, e)] ELSE s

----------------------------------------------------------------------------
(* abortDestination *)
AbortDestination == held' = 0 /\ prepared' = prepared \ {held}

(* open(), called as the page is mounted and whenever its session changes *)
Open ==
    /\ ~left /\ sessionRevision < MaxOpens
    /\ sessionRevision' = sessionRevision + 1
    /\ destinationRevision' = destinationRevision + 1
    /\ AbortDestination
    /\ receiver' = NoReceiver
    /\ receive' = InitialReceive
    /\ opening' = opening \cup {sessionRevision + 1}
    /\ UNCHANGED <<choosing, left>>

(* Its capabilities are known; a page left meanwhile still connects *)
Connect(revision) ==
    /\ revision \in opening /\ opening' = opening \ {revision}
    /\ IF revision # sessionRevision THEN UNCHANGED <<receive, receiver>>
       ELSE \/ /\ receive' = [receive EXCEPT !.phase = "AUTHORIZING"]
               /\ receiver' = [NoReceiver EXCEPT !.open = TRUE, !.joining = TRUE]
            \/ receive' = SessionUnavailable(receive) /\ UNCHANGED receiver
    /\ UNCHANGED <<sessionRevision, destinationRevision, choosing, held, prepared, left>>

Joined ==
    /\ receiver.joining
    /\ receiver' = [receiver EXCEPT !.joining = FALSE]
    /\ UNCHANGED <<receive, sessionRevision, destinationRevision, opening, choosing, held,
                   prepared, left>>

JoinFails ==
    /\ receiver.joining
    /\ receiver' = NoReceiver
    /\ receive' = SessionUnavailable(receive)
    /\ UNCHANGED <<sessionRevision, destinationRevision, opening, choosing, held, prepared, left>>

Accept ==
    /\ ~left /\ receive.phase = "REVIEWING"
    /\ receive' = [receive EXCEPT !.phase = "CHOOSING_DESTINATION"]
    /\ UNCHANGED <<sessionRevision, destinationRevision, opening, choosing, held, prepared,
                   receiver, left>>

Decline ==
    /\ ~left /\ receive.phase = "REVIEWING"
    /\ receive' = [receive EXCEPT !.phase = "CANCELED"]
    /\ receiver' = NoReceiver
    /\ UNCHANGED <<sessionRevision, destinationRevision, opening, choosing, held, prepared, left>>

(* chooseDestination, up to the picker *)
ChooseDestination ==
    /\ ~left /\ receive.phase \in {"CHOOSING_DESTINATION", "READY_TO_RECEIVE"}
    /\ destinationRevision < MaxOpens + MaxChoices
    /\ destinationRevision' = destinationRevision + 1
    /\ AbortDestination
    /\ receive' = DestinationPreparing(receive, destinationRevision + 1)
    /\ choosing' = choosing \cup {destinationRevision + 1}
    /\ UNCHANGED <<sessionRevision, opening, receiver, left>>

(* Faulty: a destination that comes late is only forgotten *)
DestinationOpenedForgotten(revision) ==
    /\ revision \in choosing /\ choosing' = choosing \ {revision}
    /\ prepared' = prepared \cup {revision}
    /\ IF revision # destinationRevision \/ receive.phase # "PREPARING_DESTINATION"
       THEN UNCHANGED <<receive, held>>
       ELSE /\ held' = revision
            /\ receive' = [receive EXCEPT !.destination = TRUE, !.phase = "READY_TO_RECEIVE"]
    /\ UNCHANGED <<sessionRevision, destinationRevision, opening, receiver, left>>

(* The recipient picked: a destination nobody waits for is aborted *)
DestinationOpened(revision) ==
    /\ revision \in choosing /\ choosing' = choosing \ {revision}
    /\ IF revision # destinationRevision \/ receive.phase # "PREPARING_DESTINATION"
       THEN UNCHANGED <<receive, held, prepared>>
       ELSE /\ held' = revision
            /\ prepared' = prepared \cup {revision}
            /\ receive' = [receive EXCEPT !.destination = TRUE, !.phase = "READY_TO_RECEIVE"]
    /\ UNCHANGED <<sessionRevision, destinationRevision, opening, receiver, left>>

(* The picker is dismissed or fails *)
DestinationRefused(revision) ==
    /\ revision \in choosing /\ choosing' = choosing \ {revision}
    /\ receive' = IF revision # destinationRevision THEN receive
                  ELSE DestinationLost(receive, revision)
    /\ UNCHANGED <<sessionRevision, destinationRevision, opening, held, prepared, receiver, left>>

(* beginReceiving, up to acceptIncomingFile or acceptIncomingFolder *)
BeginReceiving ==
    /\ ~left /\ receive.phase = "READY_TO_RECEIVE"
    /\ receiver.open /\ held # 0 /\ receive.active /\ receiver.engine.transfer # "NONE"
    /\ receive' = IF receive.destination THEN [receive EXCEPT !.phase = "CONNECTING"] ELSE receive
    /\ receiver' = [receiver EXCEPT !.accepted = held, !.accepting = TRUE]
    /\ UNCHANGED <<sessionRevision, destinationRevision, opening, choosing, held, prepared, left>>

AcceptReturns ==
    /\ receiver.accepting
    /\ receiver' = [receiver EXCEPT !.accepting = FALSE]
    /\ \/ UNCHANGED receive
       \/ receive' = FromEngine(receive, Snapshot("FAILED", receiver.engine.transfer))
    /\ UNCHANGED <<sessionRevision, destinationRevision, opening, choosing, held, prepared, left>>

(* What the engine may show next: an offer comes over a connection, and    *)
(* nothing is received before it is accepted                               *)
Emissions ==
    {e \in Successors(receiver.engine) : e.transfer # "RUNNING" \/ receiver.accepted # 0}
    \cup (IF receiver.engine = Snapshot("CONNECTED", "NONE")
          THEN {Snapshot("CONNECTED", "READY")} ELSE {})

Emitted(e) ==
    [receiver EXCEPT !.engine = e, !.accepted = IF e.transfer = "NONE" THEN 0 ELSE @]

(* receiveEngineSnapshot; the socket is opened as the call to join ends *)
ReceiverEmits(e) ==
    /\ receiver.open /\ ~receiver.joining
    /\ IF ~receive.active /\ e.connection = "FAILED"
       THEN receiver' = NoReceiver /\ receive' = SessionUnavailable(receive)
       ELSE /\ receiver' = Emitted(e)
            /\ receive' =
                 IF e.transfer = "READY" THEN FromEngine(OfferAuthorized(receive), e)
                 ELSE IF ~receive.active /\ e.connection = "WAITING_FOR_PEER"
                      THEN [receive EXCEPT !.phase = "WAITING_FOR_SENDER"]
                      ELSE FromEngine(receive, e)
    /\ UNCHANGED <<sessionRevision, destinationRevision, opening, choosing, held, prepared, left>>

CancelReceive ==
    /\ ~left /\ receive.active
    /\ receive.phase \in {"CONNECTING", "RECEIVING", "RECONNECTING", "VERIFYING"}
    /\ receive' = [receive EXCEPT !.phase = "CANCELED"]
    /\ receiver' = IF receiver.open THEN [receiver EXCEPT !.engine.transfer = "CANCELLED"]
                   ELSE receiver
    /\ UNCHANGED <<sessionRevision, destinationRevision, opening, choosing, held, prepared, left>>

(* dispose(), when the page is left *)
Leave ==
    /\ ~left /\ left' = TRUE
    /\ destinationRevision' = destinationRevision + 1
    /\ AbortDestination
    /\ receiver' = NoReceiver
    /\ UNCHANGED <<receive, sessionRevision, opening, choosing>>

ReceiveNext ==
    \/ Open \/ Accept \/ Decline \/ ChooseDestination \/ BeginReceiving \/ CancelReceive
    \/ \E revision \in opening : Connect(revision)
    \/ Joined \/ JoinFails \/ AcceptReturns
    \/ \E revision \in choosing : DestinationOpened(revision) \/ DestinationRefused(revision)
    \/ \E e \in Emissions : ReceiverEmits(e)
    \/ Leave

----------------------------------------------------------------------------
(* A destination the recipient opened is the one the page holds, or it was *)
(* aborted: none is left open by a picker that answers late, a session     *)
(* that changes or a page that is left, and the engine writes to the one   *)
(* that is held.                                                           *)
NoDestinationLeaks ==
    /\ prepared \subseteq {held}
    /\ receiver.accepted \in {0, held}

(* Once the connection is back, a transfer that waits for its recipient    *)
(* can be received into the destination that was prepared for it           *)
(* (docs/P5-RECEIVE-STATE-MACHINE.md).                                     *)
PreparedReturnsToReady ==
    /\ receiver.engine = Snapshot("CONNECTED", "READY")
    /\ receiver.accepted = 0 /\ receive.destination
    => receive.phase # "RECONNECTING"

(* A session that ended stays ended for its page                           *)
(* (docs/P5-RECEIVE-STATE-MACHINE.md).                                     *)
EndedStaysEnded ==
    [][receive.phase \in Ended /\ sessionRevision' = sessionRevision
           => receive'.phase \in Ended]_receiveVars
=============================================================================
