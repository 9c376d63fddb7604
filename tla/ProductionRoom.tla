--------------------------- MODULE ProductionRoom ---------------------------
(***************************************************************************)
(* ProductionSessionRoom (apps/signaling/src/production-signaling.ts), the *)
(* Durable Object that relays signalling between one sender and one        *)
(* receiver, and the /v2 routes of the Worker that lead to it.             *)
(*                                                                         *)
(* A socket is its position in "sockets"; the room's map lists those it    *)
(* holds in that order.  A capability is its role and expiry.              *)
(* What is forwarded is left out: the room keeps nothing of it.            *)
(***************************************************************************)
EXTENDS SignalingClock

CONSTANTS
    CapabilityLifetimeMaximum,  \* capabilityLifetimeMaximumMs, in ticks
    MaximumRequests, Window,    \* of productionOperationLimiter
    MaxSockets                  \* sockets accepted in a behaviour (bound)

ASSUME RoomAssumption ==
    {CapabilityLifetimeMaximum, MaximumRequests, Window, MaxSockets} \subseteq Nat \ {0}

VARIABLES
    limiter,    \* BoundedRequestRateLimiter: its count and window start
    sockets,    \* every WebSocket accepted, with its attachment
    room,       \* this.sockets: the positions of the ones it holds
    revoked,    \* the stored "revoked", 0 when absent
    alarm,      \* the time of the storage alarm, 0 when unset
    crowded     \* did the map hold two senders when a socket last joined it?
                \* (history)

roomVars == <<limiter, sockets, room, revoked, alarm, crowded>>

Roles == {"sender", "receiver"}

Times == 1 .. MaxTime

(* "told" is the last of peer-joined and peer-left sent to the socket, and *)
(* a socket is "closing" between its close and webSocketClose              *)
Socket == [role: Roles, expiresAt: Times, wire: {"open", "closing", "closed"},
           told: {"nothing", "peer-joined", "peer-left"}]

RoomTypeOK ==
    /\ limiter \in [count: 0 .. MaximumRequests, since: 0 .. MaxTime]
    /\ sockets \in Seq(Socket)
    /\ room \subseteq DOMAIN sockets
    /\ revoked \in 0 .. MaxTime
    /\ alarm \in 0 .. MaxTime
    /\ crowded \in BOOLEAN

RoomInit ==
    /\ limiter = [count |-> 0, since |-> 0]
    /\ sockets = <<>>
    /\ room = {}
    /\ revoked = 0
    /\ alarm = 0
    /\ crowded = FALSE

----------------------------------------------------------------------------
(* BoundedRequestRateLimiter.allow *)
Refreshed ==
    IF now - limiter.since >= Window THEN [count |-> 0, since |-> now] ELSE limiter

Allowed ==
    /\ Refreshed.count < MaximumRequests
    /\ limiter' = [Refreshed EXCEPT !.count = @ + 1]

(* Faulty: a capability is still good at the time it ends *)
VerifiedAtEnd(expiresAt) ==
    /\ expiresAt >= now
    /\ expiresAt <= now + CapabilityLifetimeMaximum

(* verifyProductionSignallingCapability and the checks the room repeats:   *)
(* the time between the two only makes a capability older                  *)
Verified(expiresAt) ==
    /\ expiresAt > now
    /\ expiresAt <= now + CapabilityLifetimeMaximum

IsRevoked == revoked > now

OfRole(held, role) == {s \in held : sockets[s].role = role}

Expired == {s \in room : sockets[s].expiresAt <= now}

(* socket.close: nothing reaches the client after it *)
Closing(all, these) ==
    [s \in DOMAIN all |->
        IF s \in these /\ all[s].wire = "open" THEN [all[s] EXCEPT !.wire = "closing"] ELSE all[s]]

Told(all, these, what) ==
    [s \in DOMAIN all |->
        IF s \in these /\ all[s].wire = "open" THEN [all[s] EXCEPT !.told = what] ELSE all[s]]

HoldsTwo(all, held) == \E s, t \in held : s # t /\ {all[s].role, all[t].role} = {"sender"}

(* announcePeerJoined: the first sender of the map hears of a receiver *)
AnnouncedJoined(all, held) ==
    LET senders == {s \in held : all[s].role = "sender"}
    IN IF senders # {} /\ senders # held
       THEN Told(all, {s \in senders : \A t \in senders : s <= t}, "peer-joined")
       ELSE all

----------------------------------------------------------------------------
(* fetch: a WebSocket with a capability; same-role sockets are replaced *)
Connect(role, expiresAt) ==
    /\ Len(sockets) < MaxSockets
    /\ Allowed
    /\ Verified(expiresAt)
    /\ ~IsRevoked
    /\ LET leaving == Expired \cup OfRole(room, role)
           socket == [role |-> role, expiresAt |-> expiresAt, wire |-> "open", told |-> "nothing"]
       IN /\ room' = (room \ leaving) \cup {Len(sockets) + 1}
          /\ sockets' = AnnouncedJoined(Append(Closing(sockets, leaving), socket), room')
    /\ crowded' = HoldsTwo(sockets', room')
    /\ revoked' = 0
    /\ alarm' = expiresAt
    /\ UNCHANGED now

(* fetch: revoke *)
Revoke(expiresAt) ==
    /\ Allowed
    /\ Verified(expiresAt)
    /\ revoked' = expiresAt
    /\ alarm' = expiresAt
    /\ sockets' = Closing(sockets, room)
    /\ room' = {}
    /\ UNCHANGED <<now, crowded>>

(* relayEligibility: forgets a revocation that has run out *)
RelayEligibility(expiresAt) ==
    /\ Allowed
    /\ Verified(expiresAt)
    /\ revoked' = IF IsRevoked THEN revoked ELSE 0
    /\ UNCHANGED <<now, sockets, room, alarm, crowded>>

(* A request that a check refuses only counts *)
Refused(expiresAt) ==
    /\ Allowed
    /\ IsRevoked \/ ~Verified(expiresAt)
    /\ UNCHANGED <<now, sockets, room, revoked, alarm, crowded>>

(* webSocketMessage, of a socket that may have been replaced meanwhile *)
Message(s) ==
    /\ sockets[s].wire # "closed"
    /\ IF sockets[s].expiresAt <= now
       THEN sockets' = Closing(sockets, {s}) /\ UNCHANGED room
       ELSE sockets' = Closing(sockets, Expired) /\ room' = room \ Expired
    /\ UNCHANGED <<now, limiter, revoked, alarm, crowded>>

(* The client closes or vanishes, or webSocketError closes the socket: the *)
(* room hears of it with webSocketClose                                    *)
SocketEnds(s) ==
    /\ sockets[s].wire = "open"
    /\ sockets' = Closing(sockets, {s})
    /\ UNCHANGED <<now, limiter, room, revoked, alarm, crowded>>

(* Faulty: peer-left although the role has been taken over *)
SocketClosedAlways(s) ==
    /\ sockets[s].wire = "closing"
    /\ room' = room \ {s}
    /\ sockets' = Told([sockets EXCEPT ![s].wire = "closed"], room', "peer-left")
    /\ UNCHANGED <<now, limiter, revoked, alarm, crowded>>

(* webSocketClose: peer-left unless the role has another socket *)
SocketClosed(s) ==
    /\ sockets[s].wire = "closing"
    /\ room' = room \ {s}
    /\ LET closed == [sockets EXCEPT ![s].wire = "closed"]
       IN sockets' = IF OfRole(room', sockets[s].role) = {}
                     THEN Told(closed, room', "peer-left") ELSE closed
    /\ UNCHANGED <<now, limiter, revoked, alarm, crowded>>

(* Faulty: the storage is emptied, the sockets stay *)
AlarmDeletes ==
    /\ alarm # 0 /\ alarm <= now
    /\ revoked' = 0
    /\ alarm' = 0
    /\ UNCHANGED <<now, limiter, sockets, room, crowded>>

(* alarm *)
AlarmFires ==
    /\ alarm # 0 /\ alarm <= now
    /\ sockets' = Closing(sockets, room)
    /\ room' = {}
    /\ revoked' = 0
    /\ alarm' = 0
    /\ UNCHANGED <<now, limiter, crowded>>

(* Faulty: the constructor does not restore the map *)
ForgetsSockets ==
    /\ room # {}
    /\ room' = {}
    /\ UNCHANGED <<now, limiter, sockets, revoked, alarm, crowded>>

(* The object hibernates and its constructor restores every socket that    *)
(* getWebSockets lists: the open ones, and any of those that still close   *)
Hibernates ==
    /\ LET open == {s \in DOMAIN sockets : sockets[s].wire = "open"}
           closing == {s \in DOMAIN sockets : sockets[s].wire = "closing"}
       IN room' \in {open \cup kept : kept \in SUBSET closing}
    /\ room' # room
    /\ UNCHANGED <<now, limiter, sockets, revoked, alarm, crowded>>

(* What the room does of itself and of the sockets it has accepted *)
RoomNext ==
    \/ \E s \in DOMAIN sockets : Message(s)
    \/ \E s \in DOMAIN sockets : SocketEnds(s)
    \/ \E s \in DOMAIN sockets : SocketClosed(s)
    \/ AlarmFires
    \/ Hibernates

(* The platform delivers close events and fires alarms *)
RoomFairness ==
    /\ WF_roomVars(AlarmFires)
    /\ \A s \in 1 .. MaxSockets : WF_roomVars(s \in DOMAIN sockets /\ SocketClosed(s))

----------------------------------------------------------------------------
(* Once every close has been reported, a sender that was told last of a    *)
(* peer has a receiver in the room, and one that has a receiver there was  *)
(* told so: it offers to a peer that is there, and waits for one that is   *)
(* not.  The second fails when the map held two senders as the last socket *)
(* joined: a restored one that closes, to which alone announcePeerJoined   *)
(* then speaks (announcePeerLeft, same-role replacement, the constructor). *)
SenderIsTold ==
    (\A s \in DOMAIN sockets : sockets[s].wire # "closing") =>
        \A s \in OfRole(room, "sender") :
            LET joined == sockets[s].told = "peer-joined"
                receives == OfRole(room, "receiver") # {}
            IN (joined => receives) /\ (receives => joined \/ crowded)

(* Whatever closing sockets a map is restored with, the room has at most   *)
(* one open socket of a role and holds every open one, to which it relays; *)
(* while the session is revoked none is open (Connect replaces, Revoke and *)
(* the alarm close, hibernation restores).                                 *)
RoomIsBounded ==
    LET open == {s \in DOMAIN sockets : sockets[s].wire = "open"}
    IN /\ open \subseteq room
       /\ \A role \in Roles : Cardinality(OfRole(open, role)) <= 1
       /\ IsRevoked => open = {}

(* A connection ends once its capability has: with one alarm for the room, *)
(* which every connection and every revocation sets again, and an object   *)
(* that hibernates, none is left open (alarm, setAlarm).                   *)
EveryConnectionEnds ==
    \A s \in 1 .. MaxSockets :
        (s \in DOMAIN sockets /\ sockets[s].wire = "open")
            ~> (s \in DOMAIN sockets /\ sockets[s].wire = "closed")
=============================================================================
