---------------------------- MODULE RouteRecovery ----------------------------
(***************************************************************************)
(* Two ConnectionCoordinators, the signalling room between them, and the   *)
(* network under their peer connections.  One action per callback, timer,  *)
(* message or settled await of a coordinator.                              *)
(*                                                                         *)
(* The room relays in order while both sockets are open and drops what is  *)
(* sent to a closed one; ProductionRoom models its rooms in detail.  The   *)
(* transfer is reduced to whether it is moving: IntegrityTransfer models   *)
(* it under the recoveries that are modelled here.                         *)
(***************************************************************************)
EXTENDS ConnectionCoordinator

CONSTANTS Troubles,       \* what may happen that a plain connection does not see
          Together,       \* those of them that may come together,
          MaxTroubles     \* up to this bound; any other comes alone

ASSUME TroublesAssumption ==
    /\ Troubles \subseteq {"cut", "flap", "drop", "failure", "candidate", "early",
                           "restart", "replace", "leave", "rejoin"}
    /\ Together \subseteq Troubles
    /\ MaxTroubles \in Nat

VARIABLES c,              \* the coordinators
          wire,           \* signalling on its way to each of them
          dead,           \* connections of the offerer that the network has broken
          troubles,       \* what has happened of Troubles
          tried           \* history: connections the offerer began since it was last connected

vars == <<c, wire, dead, troubles, tried>>

Other(p) == IF p = "offerer" THEN "answerer" ELSE "offerer"

Message == [type : {"offer", "answer", "candidate", "session-ready", "peer-joined", "peer-left"},
            route : Nat, from : Nat]

Init ==
    /\ c = [p \in Roles |-> NewCoordinator]
    /\ wire = [p \in Roles |-> <<>>]
    /\ dead = {}
    /\ troubles = <<>>
    /\ tried = 0

-----------------------------------------------------------------------------
(* The room: announcements, and the relay to an open socket *)

IsOpen(p) == c[p].socket = "open"

Relayed(p, message) ==
    [wire EXCEPT ![Other(p)] = IF IsOpen(p) /\ IsOpen(Other(p)) THEN Append(@, message) ELSE @]

(* callbacks of the current transport are heard *)
Alive(p) == c[p].transport # 0 /\ c[p].transport = c[p].gen

Becomes(p, d) ==
    /\ c' = [c EXCEPT ![p] = d]
    /\ tried' = IF p = "answerer" THEN tried
                ELSE IF d.pc.peer = "connected" \/ d.closed \/ d.role = "none" THEN 0
                ELSE IF d.pending \in {0, c[p].pending} THEN tried
                ELSE tried + 1

Quietly(p, d) == Becomes(p, d) /\ UNCHANGED <<wire, dead, troubles>>

Happens(trouble) ==
    /\ trouble \in Troubles
    /\ \/ troubles = <<>>
       \/ Range(troubles) \cup {trouble} \subseteq Together /\ Len(troubles) < MaxTroubles
    /\ troubles' = Append(troubles, trouble)

(* the route generation a message carries, as the signal callback adds it *)
Routed(p, type) ==
    [type |-> type, from |-> c[p].transport,
     route |-> IF c[p].role = "answerer" THEN c[p].remote ELSE c[p].gen]

-----------------------------------------------------------------------------
(* Sessions and sockets *)

JoinSession(p) ==
    /\ IF c[p].gen = 0 THEN UNCHANGED troubles ELSE Happens("rejoin")
    /\ Becomes(p, Joined(c[p]))
    /\ wire' = [q \in Roles |-> IF q = p THEN <<>>
                                ELSE IF IsOpen(p) /\ IsOpen(q)
                                     THEN Append(wire[q], Call("peer-left"))
                                ELSE wire[q]]
    /\ UNCHANGED dead

Leave(p) ==
    /\ ~c[p].closed /\ c[p].state # "IDLE"
    /\ Happens("leave")
    /\ Becomes(p, Disconnected(c[p]))
    /\ wire' = [q \in Roles |-> IF q = p THEN <<>>
                                ELSE IF IsOpen(p) /\ IsOpen(q)
                                     THEN Append(wire[q], Call("peer-left"))
                                ELSE wire[q]]
    /\ UNCHANGED dead

SocketOpens(p) ==
    /\ c[p].socket = "connecting"
    /\ Becomes(p, SocketOpen(c[p]))
    /\ wire' = IF IsOpen(Other(p))
               THEN [q \in Roles |-> IF q = p THEN <<Call("session-ready"), Call("peer-joined")>>
                                     ELSE Append(wire[q], Call("peer-joined"))]
               ELSE [wire EXCEPT ![p] = <<Call("session-ready")>>]
    /\ UNCHANGED <<dead, troubles>>

SocketDrops(p) ==
    /\ c[p].socket \in {"connecting", "open"}
    /\ Happens("drop")
    /\ Becomes(p, SocketClosed(c[p]))
    /\ wire' = [q \in Roles |-> IF q = p THEN <<>>
                                ELSE IF IsOpen(p) /\ IsOpen(q)
                                     THEN Append(wire[q], Call("peer-left"))
                                ELSE wire[q]]
    /\ UNCHANGED dead

SocketReconnects(p) ==
    /\ c[p].socket = "waiting"
    /\ Quietly(p, [c[p] EXCEPT !.socket = "connecting"])

HandleMessage(p) ==
    /\ wire[p] # <<>>
    /\ LET m == Head(wire[p])
       IN Becomes(p, CASE m.type = "session-ready" -> HandleSessionReady(c[p], p)
                       [] m.type = "peer-joined"   -> HandlePeerJoined(c[p])
                       [] m.type = "peer-left"     -> Updated(c[p], "DISCONNECTED")
                       [] OTHER                    -> HandleSignal(c[p], m))
    /\ wire' = [wire EXCEPT ![p] = Tail(@)]
    /\ UNCHANGED <<dead, troubles>>

-----------------------------------------------------------------------------
(* Awaits that settle *)

ConfigEnds(p) == \E k \in c[p].configs : Quietly(p, ConfigDone(c[p], k))

ConfigFails(p) ==
    \E k \in c[p].configs : /\ Happens("failure")
                            /\ Becomes(p, ConfigFailed(c[p], k))
                            /\ UNCHANGED <<wire, dead>>

OfferIsMade(p) ==
    \E o \in c[p].offers :
        /\ o.gen \in c[p].open
        /\ Becomes(p, OfferDone(c[p], o))
        /\ wire' = Relayed(p, Routed(p, "offer"))
        /\ UNCHANGED <<dead, troubles>>

(* createOffer on a connection that was closed meanwhile *)
OfferRejects(p) ==
    \E o \in c[p].offers : /\ o.gen \notin c[p].open
                           /\ Quietly(p, OfferRejected(c[p], o))

(* an operation whose turn it is, on a connection that is still open *)
Runs(p, i, types) ==
    /\ IsNext(c[p], i)
    /\ c[p].signals[i].message.type \in types
    /\ c[p].signals[i].gen \notin c[p].rejected

IsClosed(p, i) == c[p].signals[i].gen \notin c[p].open

OfferIsAnswered(p) ==
    \E i \in DOMAIN c[p].signals :
        /\ Runs(p, i, {"offer"}) /\ ~IsClosed(p, i)
        /\ Becomes(p, Described(c[p], i))
        /\ wire' = Relayed(p, Routed(p, "answer"))
        /\ UNCHANGED <<dead, troubles>>

AnswerIsAccepted(p) ==
    \E i \in DOMAIN c[p].signals :
        /\ Runs(p, i, {"answer"}) /\ ~IsClosed(p, i) /\ c[p].pc.desc = "offered"
        /\ Quietly(p, Described(c[p], i))

(* ICE finds candidates once there is a local description *)
CandidateFound(p) ==
    /\ Alive(p) /\ c[p].pc.desc # "none"
    /\ Happens("candidate")
    /\ wire' = Relayed(p, Routed(p, "candidate"))
    /\ UNCHANGED <<c, dead, tried>>

(* a candidate is added or kept for later; a peer-joined is nothing *)
SignalIsMinor(p) ==
    \E i \in DOMAIN c[p].signals :
        /\ Runs(p, i, {"candidate", "peer-joined"})
        /\ Quietly(p, SignalTaken(c[p], i))

(* an operation before has rejected, the connection is closed, or there is *)
(* no offer that the answer could be to                                    *)
SignalRejects(p) ==
    \E i \in DOMAIN c[p].signals :
        /\ IsNext(c[p], i)
        /\ \/ c[p].signals[i].gen \in c[p].rejected
           \/ IsClosed(p, i) /\ c[p].signals[i].message.type # "peer-joined"
           \/ Runs(p, i, {"answer"}) /\ c[p].pc.desc # "offered"
        /\ Quietly(p, SignalRejected(c[p], i))

(* a description that a connection was closed under may also never settle *)
Hangs(p) ==
    \/ \E o \in c[p].offers : /\ o.gen \notin c[p].open
                              /\ Quietly(p, [c[p] EXCEPT !.offers = @ \ {o}])
    \/ \E i \in DOMAIN c[p].signals :
          /\ Runs(p, i, {"offer", "answer"}) /\ IsClosed(p, i)
          /\ Quietly(p, [c[p] EXCEPT !.signals = SignalsBeside(c[p], i)])

-----------------------------------------------------------------------------
(* The network under the peer connections *)

(* both ends have each other's description, and the path is alive *)
Linked ==
    LET o == c["offerer"]
        a == c["answerer"]
    IN /\ o.transport # 0 /\ a.transport # 0
       /\ o.pc.mate = a.transport /\ a.pc.mate = o.transport
       /\ ~o.closed /\ ~a.closed
       /\ o.transport \notin dead

(* the connection at the other end is gone *)
Abandoned(p) ==
    \/ c[p].pc.mate # c[Other(p)].transport
    \/ c[Other(p)].closed
    \/ c["offerer"].transport \in dead

PeerConnecting(p) ==
    /\ Alive(p) /\ c[p].pc.peer = "new" /\ c[p].pc.mate # 0
    /\ Quietly(p, PeerState(c[p], "connecting"))

PeerConnected(p) ==
    /\ Alive(p) /\ Linked /\ c[p].pc.peer \in {"connecting", "disconnected"}
    /\ Quietly(p, PeerState(c[p], "connected"))

PeerIceConnected(p) ==
    /\ Alive(p) /\ Linked /\ c[p].pc.peer \in {"connecting", "disconnected"}
    /\ Quietly(p, IceConnected(c[p]))

PeerDisconnected(p) ==
    /\ Alive(p) /\ Abandoned(p) /\ c[p].pc.peer = "connected"
    /\ Quietly(p, PeerState(c[p], "disconnected"))

PeerFlaps(p) ==
    /\ Alive(p) /\ Linked /\ c[p].pc.peer = "connected"
    /\ Happens("flap")
    /\ Becomes(p, PeerState(c[p], "disconnected"))
    /\ UNCHANGED <<wire, dead>>

PeerFailed(p) ==
    /\ Alive(p) /\ Abandoned(p) /\ c[p].pc.mate # 0
    /\ c[p].pc.peer \in {"connecting", "connected", "disconnected"}
    /\ Quietly(p, PeerState(c[p], "failed"))

ChannelOpens(p) ==
    /\ Alive(p) /\ Linked /\ c[p].pc.peer = "connected" /\ c[p].pc.channel = "closed"
    /\ Quietly(p, ChannelOpen(c[p]))

Cut ==
    /\ Linked
    /\ Happens("cut")
    /\ dead' = dead \cup {c["offerer"].transport}
    /\ UNCHANGED <<c, wire, tried>>

-----------------------------------------------------------------------------
(* Timers, statistics, users, and the transfer *)

RecoveryTimerFires(p) == c[p].recTimer # 0 /\ Quietly(p, RecoveryTimer(c[p]))

(* nothing is under way that could bring the connection up *)
Stalled ==
    /\ ~Linked
    /\ \A p \in Roles : /\ wire[p] = <<>> /\ c[p].signals = <<>>
                        /\ c[p].configs = {} /\ c[p].offers = {}
                         /\ c[p].socket \notin {"connecting", "waiting"}

ConnectionTimerFires(p) ==
    /\ c[p].connTimer # 0
    /\ IF Stalled \/ c[p].pc.peer = "connected" THEN UNCHANGED troubles ELSE Happens("early")
    /\ Becomes(p, ConnectionTimer(c[p]))
    /\ UNCHANGED <<wire, dead>>

RestartsIce ==
    /\ c["offerer"].transport # 0 /\ c["offerer"].role = "offerer" /\ ~c["offerer"].closed
    /\ Happens("restart")
    /\ Becomes("offerer", RestartIce(c["offerer"]))
    /\ UNCHANGED <<wire, dead>>

ReplacesRoute ==
    /\ c["offerer"].transport # 0 /\ c["offerer"].role = "offerer" /\ ~c["offerer"].closed
    /\ Happens("replace")
    /\ Becomes("offerer", ReplacePeerConnection(c["offerer"]))
    /\ UNCHANGED <<wire, dead>>

(* the sender offers a file, or an offer reaches the receiver *)
TransferMoves(p) ==
    /\ Alive(p) /\ c[p].pc.channel = "open" /\ Linked
    /\ IF p = "offerer" THEN c[p].phase = "IDLE"
       ELSE /\ c[p].phase # "ACTIVE"
            /\ c["offerer"].phase = "ACTIVE" /\ c["offerer"].pc.channel = "open"
    /\ Quietly(p, Published(c[p], "ACTIVE"))

-----------------------------------------------------------------------------
Settles(p) ==
    \/ HandleMessage(p) \/ ConfigEnds(p) \/ OfferIsMade(p) \/ OfferRejects(p)
    \/ OfferIsAnswered(p) \/ AnswerIsAccepted(p) \/ SignalIsMinor(p) \/ SignalRejects(p)

Progresses(p) ==
    \/ PeerConnecting(p) \/ PeerConnected(p) \/ PeerDisconnected(p) \/ PeerFailed(p)
    \/ ChannelOpens(p) \/ TransferMoves(p)

Next ==
    \/ \E p \in Roles :
          \/ JoinSession(p) \/ Leave(p) \/ SocketOpens(p) \/ SocketDrops(p) \/ SocketReconnects(p)
          \/ Settles(p) \/ ConfigFails(p) \/ Hangs(p) \/ CandidateFound(p)
          \/ Progresses(p) \/ PeerIceConnected(p) \/ PeerFlaps(p)
          \/ RecoveryTimerFires(p) \/ ConnectionTimerFires(p)
    \/ Cut \/ RestartsIce \/ ReplacesRoute

Spec == Init /\ [][Next]_vars

(* the event loops, the browser's promises and timers, and the network *)
Fairness ==
    \A p \in Roles :
        /\ WF_vars(JoinSession(p)) /\ WF_vars(SocketOpens(p)) /\ WF_vars(SocketReconnects(p))
        /\ WF_vars(Settles(p)) /\ WF_vars(Progresses(p))
        /\ WF_vars(RecoveryTimerFires(p)) /\ WF_vars(ConnectionTimerFires(p))

FairSpec == Spec /\ Fairness

-----------------------------------------------------------------------------
TypeOK ==
    /\ \A p \in Roles :
          /\ c[p].state \in ConnectionStates
          /\ c[p].attempts \in 0..MaxReplacementAttempts
          /\ c[p].tries \in 0..3
          /\ c[p].phase \in Phases
          /\ {c[p].transport, c[p].pending, c[p].recTimer, c[p].connTimer} \subseteq 0..c[p].gen
          /\ \A i \in DOMAIN wire[p] : wire[p][i] \in Message
    /\ dead \subseteq 1..c["offerer"].gen
    /\ Range(troubles) \subseteq Troubles

(* Whatever order configurations, replacements, failures and sessions that *)
(* are joined again end in, no peer connection stays open but the one that *)
(* is assigned, and that is of the current route generation: one that was  *)
(* dropped without a close would go on, and of one of an older generation  *)
(* every callback would be ignored and the connection look dead for ever   *)
(* (every place that assigns this.transport; ensureTransport).             *)
OnlyCurrentIsOpen ==
    \A p \in Roles :
        /\ c[p].open \subseteq {c[p].transport}
        /\ c[p].transport # 0 /\ ~c[p].closed => c[p].transport = c[p].gen

(* The description that the answerer has applied, once it has nothing left *)
(* to apply, is that of the newest offer it has seen, so that its answer   *)
(* and its candidates carry the generation the offerer takes for current.  *)
FollowsNewestOffer ==
    LET a == c["answerer"]
    IN a.signals = <<>> /\ a.pc.mate # 0 => a.pc.mate = a.remote

(* nothing but losses has happened, and users that left *)
OnlyLosses == Range(troubles) \subseteq {"cut", "flap", "leave"}

(* After losses only, a coordinator that has given up stays that way: it   *)
(* has no transport and no timer that would start the route again.         *)
ExhaustedIsQuiet ==
    OnlyLosses =>
        \A p \in Roles :
            c[p].exhausted => c[p].transport = 0 /\ c[p].recTimer = 0 /\ c[p].connTimer = 0

(* After losses only, the offerer begins at most one connection and        *)
(* maxReplacementAttempts replacements before it is connected again:       *)
(* counting and resetting are spread over four callbacks.                  *)
BoundedAttempts == OnlyLosses => tried <= MaxReplacementAttempts + 1

(* "A queued replacement owns the next offer and its route generation":    *)
(* while one is queued nothing else has begun a new generation, so it will *)
(* run when its timer fires.  After losses, or one failed configuration.   *)
QueuedReplacementIsCurrent ==
    OnlyLosses \/ troubles = <<"failure">> =>
        \A p \in Roles : c[p].recTimer # 0 => c[p].recTimer = c[p].gen

(* After losses only, a route is replaced under the same transfer objects: *)
(* a new one would have forgotten what was selected and what is committed. *)
TransferSurvives ==
    [][OnlyLosses =>
           \A p \in Roles : c[p].transfer # 0 => c'[p].transfer \in {0, c[p].transfer}]_vars

Up == Linked /\ \A p \in Roles : c[p].pc.peer = "connected"

(* After losses only, the two sides end up connected, or one of them knows *)
(* that they will not be; no side waits for ever for the other's move.     *)
RouteSettles ==
    [](OnlyLosses) => <>[](Up \/ \E p \in Roles : c[p].exhausted \/ c[p].closed)

(* What docs/ERROR-TAXONOMY.md asks: "Keep a recoverable route interruption *)
(* in RECONNECTING; do not show terminal failure prematurely."  A           *)
(* coordinator shows FAILED only when the route is exhausted or the socket  *)
(* has used its attempts.                                                   *)
FailedMeansOver ==
    \A p \in Roles : c[p].state = "FAILED" => c[p].exhausted \/ c[p].tries = 3

=============================================================================
