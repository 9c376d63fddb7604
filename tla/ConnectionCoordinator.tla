------------------------ MODULE ConnectionCoordinator ------------------------
(***************************************************************************)
(* The class ConnectionCoordinator of packages/engine-core/src/index.ts,   *)
(* with the RouteCoordinator and the WebRtcTransport it drives, as an      *)
(* object: a record of the fields that carry control, and one operator for *)
(* each method, from the object before the call to the object after it.    *)
(* RouteRecovery decides when the methods are called.                      *)
(*                                                                         *)
(* A WebRtcTransport is named by the route generation it was created for;  *)
(* 0 is "undefined".  Session descriptions are abstracted to the           *)
(* generation of the connection that made them.                            *)
(***************************************************************************)
EXTENDS Naturals, Sequences, SequencesExt

CONSTANT MaxReplacementAttempts     \* routeRecovery.maxReplacementAttempts

ASSUME CoordinatorAssumption == MaxReplacementAttempts \in Nat

Roles == {"offerer", "answerer"}

(* connectionTransitions of packages/protocol/src/index.ts *)
Transitions ==
    [ IDLE                  |-> {"SIGNALLING_CONNECTING", "CLOSED"},
      SIGNALLING_CONNECTING |-> {"WAITING_FOR_PEER", "RECONNECTING", "DISCONNECTED",
                                 "FAILED", "CLOSED"},
      WAITING_FOR_PEER      |-> {"NEGOTIATING", "CONNECTING", "DISCONNECTED", "RECONNECTING",
                                 "FAILED", "CLOSED"},
      NEGOTIATING           |-> {"CONNECTING", "CONNECTED", "DISCONNECTED", "RECONNECTING",
                                 "FAILED", "CLOSED"},
      CONNECTING            |-> {"CONNECTED", "DISCONNECTED", "RECONNECTING",
                                 "FAILED", "CLOSED"},
      CONNECTED             |-> {"CONNECTING", "DISCONNECTED", "RECONNECTING",
                                 "FAILED", "CLOSED"},
      DISCONNECTED          |-> {"SIGNALLING_CONNECTING", "WAITING_FOR_PEER", "NEGOTIATING",
                                 "RECONNECTING", "FAILED", "CLOSED"},
      RECONNECTING          |-> {"CONNECTED", "DISCONNECTED", "FAILED", "CLOSED"},
      FAILED                |-> {"SIGNALLING_CONNECTING", "CLOSED"},
      CLOSED                |-> {"IDLE", "SIGNALLING_CONNECTING"} ]

ConnectionStates == DOMAIN Transitions

CanTransition(from, to) == from = to \/ to \in Transitions[from]

(* RTCPeerConnection with its channels: what was negotiated, with which    *)
(* connection of the peer, and the states its callbacks report             *)
NewPeerConnection == [peer |-> "new", desc |-> "none", mate |-> 0, channel |-> "closed"]

NewCoordinator ==
    [ state     |-> "IDLE",              \* snapshot.state
      role      |-> "none",              \* role
      socket    |-> "none",              \* readyState of socket, or its reconnectTimer
      tries     |-> 0,                   \* reconnectAttempts
      gen       |-> 0,                   \* routeCoordinator.current().routeGeneration
      remote    |-> 0,                   \* remoteRouteGeneration
      exhausted |-> FALSE,               \* the route is FAILED, with a failureCode
      transport |-> 0,                   \* transport
      pc        |-> NewPeerConnection,   \* its peer connection and currentPeerState
      open      |-> {},                  \* peer connections that were not closed
      configs   |-> {},                  \* calls of createTransportForRoute at their await
      pending   |-> 0,                   \* pendingTransport
      offers    |-> {},                  \* calls of createOffer at their await
      signals   |-> <<>>,                \* calls of acceptSignal: operations
      rejected  |-> {},                  \* transports whose operations chain has rejected
      attempts  |-> 0,                   \* routeRecoveryAttempts
      recTimer  |-> 0,                   \* routeRecoveryTimer, with its generation
      connTimer |-> 0,                   \* routeConnectionTimer, with its generation
      closed    |-> FALSE,               \* closedByUser
      transfer  |-> 0,                   \* which transfer objects there are, 0: none
      phase     |-> "IDLE",              \* state of the transfer object
      shown     |-> "IDLE" ]             \* snapshot.transfer.state

Phases == {"IDLE", "ACTIVE", "RECONNECTING"}

-----------------------------------------------------------------------------
(* Helpers shared by the methods *)

(* update({ state }) *)
Updated(c, state) ==
    [c EXCEPT !.state = IF CanTransition(@, state) THEN state ELSE "FAILED"]

(* an update of the transfer that is published *)
Published(c, phase) == [c EXCEPT !.phase = phase, !.shown = phase]

(* transportInterrupted() of the transfers; without a record it does nothing *)
TransferInterrupted(c) ==
    IF c.phase = "IDLE" THEN c ELSE Published(c, "RECONNECTING")

\* Faulty: the transport is dropped without being closed.
DetachedUnclosed(c) == [c EXCEPT !.transport = 0, !.pc = NewPeerConnection]

(* transport.close(); this.transport = undefined *)
Detached(c) ==
    [c EXCEPT !.open = @ \ {c.transport}, !.transport = 0, !.pc = NewPeerConnection]

(* createFileTransfer(): new objects, which publish nothing yet *)
NewTransfer(c) == [c EXCEPT !.transfer = @ + 1, !.phase = "IDLE"]

TimersCleared(c) == [c EXCEPT !.recTimer = 0, !.connTimer = 0]

(* The RouteCoordinator: which generation is current, and whether its      *)
(* route has failed for good                                               *)
IsCurrent(c, generation) == generation = c.gen

BeginTransport(c) == [c EXCEPT !.gen = @ + 1, !.exhausted = FALSE]

MarkInterrupted(c) == [c EXCEPT !.exhausted = FALSE]

MarkFailure(c) == [c EXCEPT !.exhausted = TRUE]

Invalidated(c) == [c EXCEPT !.gen = @ + 1, !.exhausted = FALSE]

-----------------------------------------------------------------------------
(* ensureTransport(replacing): "then" is what awaits its result.  A call   *)
(* that does not replace shares the transport, or the one on its way.      *)
Call(type) == [type |-> type, route |-> 0, from |-> 0]

Wait == Call("wait")

(* what callers do with a transport, one after the other: make an offer,   *)
(* or accept a signal                                                      *)
Offering == {"start", "replace", "restart"}

NewConfig(generation, replacing) ==
    [gen |-> generation, replacing |-> replacing, offers |-> {}, signals |-> <<>>]

Awaited(k, then) ==
    CASE then.type = "wait"       -> k
      [] then.type \in Offering   -> [k EXCEPT !.offers = @ \cup {then.type}]
      [] OTHER                    -> [k EXCEPT !.signals = Append(@, then)]

BeginConfig(c, replacing, then) ==
    LET k == Awaited(NewConfig(c.gen + 1, replacing), then)
    IN [BeginTransport(c) EXCEPT !.configs = @ \cup {k}, !.pending = k.gen]

JoinPending(c, then) ==
    [c EXCEPT !.configs = {IF k.gen = c.pending THEN Awaited(k, then) ELSE k : k \in @}]

(* on a transport: the calls that awaited the configuration k go on *)
OffersOn(transport, k) == {[gen |-> transport, for |-> type] : type \in k.offers}

SignalsOn(transport, k) ==
    [i \in DOMAIN k.signals |-> [gen |-> transport, message |-> k.signals[i]]]

Continue(c, k) ==
    [c EXCEPT !.offers = @ \cup OffersOn(c.transport, k),
              !.signals = @ \o SignalsOn(c.transport, k)]

(* on the transport that there is: a call goes on at once *)
Proceed(c, then) == Continue(c, Awaited(NewConfig(c.transport, FALSE), then))

EnsureTransport(c, then) ==
    IF c.transport # 0 THEN Proceed(c, then)
    ELSE IF c.pending # 0 THEN JoinPending(c, then)
    ELSE BeginConfig(c, FALSE, then)

\* Faulty: a replacement makes a new transfer as well.
AttachedAnew(c, k) ==
    NewTransfer([c EXCEPT !.transport = k.gen, !.pc = NewPeerConnection, !.open = @ \cup {k.gen}])

(* the new transport, and what the transfer is told: to use it, or a new   *)
(* transfer object                                                         *)
Attached(c, k) ==
    LET d == [c EXCEPT !.transport = k.gen, !.pc = NewPeerConnection, !.open = @ \cup {k.gen}]
    IN IF k.replacing THEN d ELSE NewTransfer(d)

(* the end of failRouteAttempt: markFailure, routeRecoveryFailed *)
Exhausted(c) ==
    Updated(MarkFailure([Detached(c) EXCEPT !.connTimer = 0]), "FAILED")

(* scheduleRouteRecovery; its callers have checked the generation *)
ScheduleRecovery(c) ==
    IF c.closed \/ c.recTimer # 0 THEN c
    ELSE IF c.attempts >= MaxReplacementAttempts THEN Exhausted(c)
    ELSE [c EXCEPT !.recTimer = c.gen]

\* Faulty: an attempt that has failed is not followed by another.
FailAttemptOnce(c, generation) ==
    IF generation # c.gen \/ c.closed THEN c ELSE [Detached(c) EXCEPT !.connTimer = 0]

(* failRouteAttempt *)
FailAttempt(c, generation) ==
    IF ~IsCurrent(c, generation) \/ c.closed THEN c
    ELSE IF c.attempts < MaxReplacementAttempts /\ c.role = "offerer"
         THEN ScheduleRecovery([Detached(c) EXCEPT !.connTimer = 0])
         ELSE Exhausted(c)

\* Faulty: attempts are compared with the limit and not counted.
StartReplacementUncounted(c, generation) ==
    IF generation # c.gen \/ c.closed \/ c.role # "offerer" THEN c
    ELSE IF c.attempts >= MaxReplacementAttempts THEN FailAttempt(c, generation)
    ELSE BeginConfig(Detached(c), TRUE, Call("replace"))

(* startRouteReplacement *)
StartReplacement(c, generation) ==
    IF ~IsCurrent(c, generation) \/ c.closed \/ c.role # "offerer" THEN c
    ELSE IF c.attempts >= MaxReplacementAttempts THEN FailAttempt(c, generation)
    ELSE BeginConfig([Detached(c) EXCEPT !.attempts = @ + 1], TRUE, Call("replace"))

(* startOffer: a queued replacement owns the next offer *)
StartOffer(c) == IF c.recTimer # 0 THEN c ELSE EnsureTransport(c, Call("start"))

(* joinSession and joinAuthorizedSignallingSession, up to the socket *)
Joined(c) ==
    LET d == Invalidated(TimersCleared(Detached(c)))
    IN Updated([d EXCEPT !.role = "none", !.socket = "connecting", !.tries = 0, !.remote = 0,
                         !.attempts = 0, !.closed = FALSE, !.transfer = 0, !.phase = "IDLE"],
               "SIGNALLING_CONNECTING")

(* disconnect(): the transport is closed but remains assigned *)
Disconnected(c) ==
    LET d == Invalidated(TimersCleared(c))
    IN Updated([d EXCEPT !.closed = TRUE, !.socket = "none",
                         !.open = @ \ {c.transport}, !.pc = NewPeerConnection],
               "CLOSED")

-----------------------------------------------------------------------------
(* Signalling: handle() *)

(* a peer-joined reaches an answerer as a signal its transport ignores *)
HandlePeerJoined(c) ==
    IF c.role = "offerer" THEN StartOffer(c) ELSE EnsureTransport(c, Call("peer-joined"))

HandleSessionReady(c, role) ==
    LET d == [c EXCEPT !.role = role]
    IN IF d.transport = 0 THEN EnsureTransport(d, Wait) ELSE d

IsStale(c, message) ==
    CASE message.type = "offer" -> c.role = "answerer" /\ message.route < c.remote
      [] OTHER -> message.route # (IF c.role = "offerer" THEN c.gen ELSE c.remote)

Replaces(c, message) ==
    /\ c.transport # 0
    /\ message.route > c.remote \/ c.shown = "RECONNECTING"

HandleOffer(c, message) ==
    LET d == [c EXCEPT !.remote = message.route]
    IN IF Replaces(c, message) THEN BeginConfig(Detached(d), TRUE, message)
       ELSE EnsureTransport(d, message)

HandleSignal(c, message) ==
    IF IsStale(c, message) THEN c
    ELSE IF message.type = "offer" THEN HandleOffer(c, message)
    ELSE EnsureTransport(c, message)

-----------------------------------------------------------------------------
(* createTransportForRoute after its await: a stale one yields undefined,  *)
(* and everything that awaited it returns                                  *)
ConfigDone(c, k) ==
    LET d == [c EXCEPT !.configs = @ \ {k}, !.pending = IF @ = k.gen THEN 0 ELSE @]
    IN IF c.closed \/ ~IsCurrent(c, k.gen) THEN d ELSE Continue(Attached(d, k), k)

(* the configuration could not be had: credentials, or an RTCPeerConnection *)
ConfigFailed(c, k) ==
    FailAttempt([c EXCEPT !.configs = @ \ {k}, !.pending = IF @ = k.gen THEN 0 ELSE @], k.gen)

(* createOffer has set the local description; the caller goes on if its    *)
(* transport is still the current one                                      *)
OfferDone(c, o) ==
    LET d == [c EXCEPT !.offers = @ \ {o}, !.pc.desc = "offered"]
        e == IF o.for = "start" THEN Updated(d, "NEGOTIATING") ELSE d
    IN [e EXCEPT !.connTimer = c.gen]

(* a call on a connection that was closed meanwhile rejects, and its catch *)
(* fails the attempt of whatever generation is current by then             *)
OfferRejected(c, o) ==
    LET d == [c EXCEPT !.offers = @ \ {o}]
    IN IF o.for = "restart" THEN Updated(d, "FAILED") ELSE FailAttempt(d, c.gen)

(* the operations of a transport run one after the other *)
IsNext(c, i) == \A j \in 1..(i - 1) : c.signals[j].gen # c.signals[i].gen

SignalTaken(c, i) == [c EXCEPT !.signals = RemoveAt(@, i)]

(* those of the other transports *)
SignalsBeside(c, i) == SelectSeq(c.signals, LAMBDA s : s.gen # c.signals[i].gen)

(* the operation rejects, and with it all that are queued behind it *)
SignalRejected(c, i) ==
    FailAttempt([SignalTaken(c, i) EXCEPT !.rejected = @ \cup {c.signals[i].gen}], c.gen)

(* setRemoteDescription, and for an offer also the answer *)
Described(c, i) ==
    [SignalTaken(c, i) EXCEPT !.pc.desc = "stable", !.pc.mate = c.signals[i].message.from]

-----------------------------------------------------------------------------
(* The callbacks of the current transport *)

PeerState(c, peer) ==
    LET d == [c EXCEPT !.pc.peer = peer]
        lost == Updated(MarkInterrupted(TransferInterrupted(d)), "RECONNECTING")
    IN CASE peer = "connected" -> Updated([TimersCleared(d) EXCEPT !.attempts = 0], "CONNECTED")
         [] peer \in {"failed", "disconnected"} ->
               IF c.role = "offerer" /\ ~c.closed THEN ScheduleRecovery(lost) ELSE lost
         [] OTHER -> Updated(d, "CONNECTING")

IceConnected(c) ==
    IF c.state = "RECONNECTING" THEN Updated(TimersCleared(c), "CONNECTED") ELSE c

(* fs-control-v1 opens; only a transfer that has a source offers again *)
ChannelOpen(c) ==
    LET d == [c EXCEPT !.pc.channel = "open"]
    IN IF c.role = "offerer" /\ c.shown = "RECONNECTING" /\ c.phase # "IDLE"
       THEN Published(d, "ACTIVE") ELSE d

-----------------------------------------------------------------------------
(* The socket, and the timers *)

SocketOpen(c) ==
    Updated([c EXCEPT !.socket = "open", !.tries = 0],
            IF c.transport # 0 THEN "CONNECTED" ELSE "WAITING_FOR_PEER")

(* onclose and scheduleReconnect *)
SocketClosed(c) ==
    IF c.tries >= 3 THEN Updated([c EXCEPT !.socket = "none"], "FAILED")
    ELSE Updated([c EXCEPT !.socket = "waiting", !.tries = @ + 1], "RECONNECTING")

RecoveryTimer(c) == StartReplacement([c EXCEPT !.recTimer = 0], c.recTimer)

ConnectionTimer(c) ==
    LET d == [c EXCEPT !.connTimer = 0]
    IN IF c.transport = c.connTimer /\ c.pc.peer # "connected"
       THEN FailAttempt(d, c.connTimer) ELSE d

-----------------------------------------------------------------------------
(* What the lab offers its users: restartIce and replacePeerConnection *)

RestartIce(c) == Proceed(Updated(c, "RECONNECTING"), Call("restart"))

ReplacePeerConnection(c) ==
    StartReplacement(Updated(MarkInterrupted(TransferInterrupted(c)), "RECONNECTING"), c.gen)

=============================================================================
