-------------------------- MODULE SignalingProofs --------------------------
(***************************************************************************)
(* Proofs about Signaling, for any number of ticks, sockets, sessions,     *)
(* peers and requests.                                                     *)
(*                                                                         *)
(* None of the properties is inductive: each speaks of what the parties    *)
(* see and holds because of what the room and the clock remember.          *)
(*   - Held: an open socket is in the room's map and a closed one is not,  *)
(*     a role has one open socket there, and none is open during a         *)
(*     revocation, whatever closing sockets the map was restored with;     *)
(*   - Heard: a sender told of a receiver has one in the room, or its      *)
(*     close is still to be reported, which will tell it; and one that has *)
(*     an open receiver was told, unless the map was crowded;              *)
(*   - Final: a session revoked is still revoked, or its capabilities have *)
(*     ended; there is one expiry, so the alarm that forgets the           *)
(*     revocation does not fire before that;                               *)
(*   - Membership: a member outlives its session, since the clock waits    *)
(*     for the requests that have found it, so the members counted when a  *)
(*     role is given are all there ever were: one, the offerer, or two.    *)
(***************************************************************************)
EXTENDS Signaling, FiniteSetTheorems, TLAPS

\* The types of the clock and of what the capabilities are checked with.
Clocked ==
    /\ now \in 1 .. MaxTime
    /\ config \in BOOLEAN
    /\ CapabilityTypeOK
    /\ holders # {} => session # 0
    /\ question # NoQuestion => question.of \in holders

Held ==
    /\ \A s \in DOMAIN sockets : sockets[s].wire = "open" => s \in room
    /\ \A s \in room : sockets[s].wire # "closed"
    /\ \A s, t \in room :
          /\ sockets[s].role = sockets[t].role
          /\ sockets[s].wire = "open" /\ sockets[t].wire = "open"
          => s = t
    /\ IsRevoked => \A s \in room : sockets[s].wire # "open"

\* Does the room hold a receiver, an open one, or is the close of one to be
\* reported?
ReceiverHeld == \E r \in room : sockets[r].role = "receiver"
ReceiverOpen == \E r \in room : sockets[r].role = "receiver" /\ sockets[r].wire = "open"
ReceiverCloses ==
    \E r \in DOMAIN sockets : sockets[r].role = "receiver" /\ sockets[r].wire = "closing"

Heard ==
    \A s \in room :
        sockets[s].role = "sender" /\ sockets[s].wire = "open" =>
            /\ ReceiverOpen => sockets[s].told = "peer-joined" \/ crowded
            /\ sockets[s].told = "peer-joined" => ReceiverHeld \/ ReceiverCloses

Final ==
    /\ alarm \in {0, session}
    /\ ended => session # 0 /\ (revoked = session \/ session <= now)

\* A member's record is never removed: it is there once it has an expiry.
Registered(s) == {p \in Peers : members[s][p].expiresAt # 0}

Offerer(s, p) == members[s][p].role = "offerer"

OneOrTwo(s) ==
    \/ Registered(s) = {}
    \/ \E a \in Peers : Registered(s) = {a} /\ Offerer(s, a)
    \/ \E a, b \in Peers : /\ a # b
                           /\ Registered(s) = {a, b}
                           /\ Offerer(s, a) /\ ~ Offerer(s, b)

Membership ==
    /\ Len(sessions) <= MaxSessions
    /\ \A s \in DOMAIN sessions : sessions[s].expiresAt <= now + SessionLifetime
    /\ \A r \in requests : r.session \in DOMAIN sessions /\ Live(r.session)
    /\ \A s \in 1 .. MaxSessions : \A p \in Registered(s) :
          /\ s \in DOMAIN sessions
          /\ members[s][p].expiresAt >= sessions[s].expiresAt
    /\ \A s \in 1 .. MaxSessions : OneOrTwo(s)
    /\ \A l \in Slots : links[l] # NoLink =>
          /\ links[l].peer \in Registered(links[l].session)
          /\ links[l].role = members[links[l].session][links[l].peer].role

DirectoryInv == DirectoryTypeOK /\ Membership

IInv == Clocked /\ RoomTypeOK /\ Final /\ DirectoryInv

-----------------------------------------------------------------------------
(* The room.                                                                 *)

\* The sockets afterwards are those before, of which some that were open close.
Closes(all, after) ==
    /\ after \in Seq(Socket)
    /\ DOMAIN after = DOMAIN all
    /\ \A s \in DOMAIN all :
          /\ after[s].role = all[s].role
          /\ after[s].told = all[s].told
          /\ \/ after[s].wire = all[s].wire
             \/ all[s].wire = "open" /\ after[s].wire = "closing"

\* Closing leaves none of the sockets it closes open.
LEMMA ClosingCloses ==
    ASSUME NEW all \in Seq(Socket), NEW these
    PROVE  /\ Closes(all, Closing(all, these))
           /\ \A s \in these \cap DOMAIN all : Closing(all, these)[s].wire # "open"
<1> DEFINE after == Closing(all, these)
<1>1. /\ DOMAIN all = 1 .. Len(all) /\ Len(all) \in Nat
      /\ \A s \in DOMAIN all : all[s] \in Socket
  OBVIOUS
<1>2. /\ DOMAIN after = DOMAIN all
      /\ \A s \in DOMAIN all :
            after[s] = IF s \in these /\ all[s].wire = "open"
                       THEN [all[s] EXCEPT !.wire = "closing"] ELSE all[s]
  BY DEF Closing
<1> HIDE DEF after
<1>3. \A s \in DOMAIN all :
         /\ after[s] \in Socket
         /\ after[s].role = all[s].role /\ after[s].told = all[s].told
         /\ after[s].wire = IF s \in these /\ all[s].wire = "open" THEN "closing"
                            ELSE all[s].wire
  BY <1>1, <1>2 DEF Socket
<1>4. after \in Seq(Socket)
  <2>1. after = [s \in 1 .. Len(all) |-> after[s]]
    BY <1>1, <1>2 DEF after, Closing
  <2>2. [s \in 1 .. Len(all) |-> after[s]] \in [1 .. Len(all) -> Socket]
    BY <1>1, <1>3
  <2>3. after \in [1 .. Len(all) -> Socket]
    BY <2>1, <2>2
  <2> QED
    BY <1>1, <2>3
<1>5. Closes(all, after)
  BY <1>2, <1>3, <1>4 DEF Closes
<1>6. \A s \in these \cap DOMAIN all : after[s].wire # "open"
  BY <1>3
<1> QED
  BY <1>5, <1>6 DEF after

\* What is told to open sockets changes nothing else of any.
LEMMA ToldTells ==
    ASSUME NEW all \in Seq(Socket), NEW these,
           NEW what \in {"nothing", "peer-joined", "peer-left"}
    PROVE  /\ Told(all, these, what) \in Seq(Socket)
           /\ DOMAIN Told(all, these, what) = DOMAIN all
           /\ \A s \in DOMAIN all :
                 /\ Told(all, these, what)[s].role = all[s].role
                 /\ Told(all, these, what)[s].wire = all[s].wire
                 /\ Told(all, these, what)[s].told =
                       IF s \in these /\ all[s].wire = "open" THEN what ELSE all[s].told
<1> DEFINE after == Told(all, these, what)
<1>1. /\ DOMAIN all = 1 .. Len(all) /\ Len(all) \in Nat
      /\ \A s \in DOMAIN all : all[s] \in Socket
  OBVIOUS
<1>2. /\ DOMAIN after = DOMAIN all
      /\ \A s \in DOMAIN all :
            after[s] = IF s \in these /\ all[s].wire = "open"
                       THEN [all[s] EXCEPT !.told = what] ELSE all[s]
  BY DEF Told
<1>3. after = [s \in 1 .. Len(all) |-> after[s]]
  BY <1>1, <1>2 DEF Told
<1> HIDE DEF after
<1>4. \A s \in DOMAIN all :
         /\ after[s] \in Socket
         /\ after[s].role = all[s].role /\ after[s].wire = all[s].wire
         /\ after[s].told = IF s \in these /\ all[s].wire = "open" THEN what
                            ELSE all[s].told
  BY <1>1, <1>2 DEF Socket
<1>5. after \in Seq(Socket)
  <2>1. [s \in 1 .. Len(all) |-> after[s]] \in [1 .. Len(all) -> Socket]
    BY <1>1, <1>4
  <2>2. after \in [1 .. Len(all) -> Socket]
    BY <1>3, <2>1
  <2> QED
    BY <1>1, <2>2
<1> QED
  BY <1>2, <1>4, <1>5 DEF after

\* Sockets that close, in a map that keeps the open ones and none that has
\* closed, disturb nothing.
LEMMA ClosesHold ==
    ASSUME RoomTypeOK, Held, Heard, Closes(sockets, sockets'), crowded' = crowded,
           room' \subseteq DOMAIN sockets,
           \A s \in room' : sockets'[s].wire # "closed",
           \A s \in DOMAIN sockets : sockets'[s].wire = "open" => s \in room',
           IsRevoked' => IsRevoked \/ \A s \in DOMAIN sockets : sockets'[s].wire # "open"
    PROVE  Held' /\ Heard' /\ room' \subseteq DOMAIN sockets'
<1>1. /\ room \subseteq DOMAIN sockets
      /\ \A s \in DOMAIN sockets : sockets[s] \in Socket /\ sockets'[s] \in Socket
  BY DEF RoomTypeOK, Closes
<1>2. \A s \in DOMAIN sockets : sockets'[s].wire = "open" => sockets[s].wire = "open" /\ s \in room
  BY DEF Held, Closes
<1>3. Held'
  <2>1. \A s, t \in room' :
           /\ sockets'[s].role = sockets'[t].role
           /\ sockets'[s].wire = "open" /\ sockets'[t].wire = "open"
           => s = t
    BY <1>2 DEF Held, Closes
  <2>2. IsRevoked' => \A s \in room' : sockets'[s].wire # "open"
    BY <1>2 DEF Held
  <2> QED
    BY <2>1, <2>2 DEF Held, Closes
<1>4. ASSUME NEW s \in room', sockets'[s].role = "sender", sockets'[s].wire = "open"
      PROVE  /\ ReceiverOpen' => sockets'[s].told = "peer-joined" \/ crowded'
             /\ sockets'[s].told = "peer-joined" => ReceiverHeld' \/ ReceiverCloses'
  <2>1. /\ s \in room /\ sockets[s].role = "sender" /\ sockets[s].wire = "open"
        /\ sockets'[s].told = sockets[s].told
    BY <1>2, <1>4 DEF Closes
  <2>2. ReceiverOpen' => ReceiverOpen
    BY <1>2 DEF ReceiverOpen, Closes
  <2>3. ReceiverHeld => ReceiverHeld' \/ ReceiverCloses'
    <3> SUFFICES ASSUME NEW r \in room, sockets[r].role = "receiver", r \notin room'
                 PROVE  ReceiverCloses'
      BY <1>1 DEF ReceiverHeld, Closes
    <3>1. sockets'[r].wire = "closing" /\ sockets'[r].role = "receiver"
      BY <1>1 DEF Held, Closes, Socket
    <3> QED
      BY <1>1, <3>1 DEF ReceiverCloses, Closes
  <2>4. ReceiverCloses => ReceiverCloses'
    BY DEF ReceiverCloses, Closes
  <2> QED
    BY <2>1, <2>2, <2>3, <2>4 DEF Heard
<1>5. Heard'
  BY <1>4 DEF Heard
<1> QED
  BY <1>3, <1>5 DEF Closes

\* A revocation that is kept, or forgotten, is no longer than it was.
LEMMA RevokedLess ==
    ASSUME RoomTypeOK, now \in Nat, now' \in Nat, now' >= now, revoked' \in {revoked, 0}
    PROVE  IsRevoked' => IsRevoked
BY DEF IsRevoked, RoomTypeOK

\* Everything the room does alone closes sockets, but the report of a close.
LEMMA RoomCloses ==
    ASSUME RoomTypeOK, now \in Nat,
           \/ \E s \in DOMAIN sockets : Message(s) \/ SocketEnds(s)
           \/ AlarmFires
           \/ Hibernates
    PROVE  /\ RoomTypeOK' /\ DOMAIN sockets' = DOMAIN sockets
           /\ Held /\ Heard => Held' /\ Heard'
<1>1. sockets \in Seq(Socket) /\ room \subseteq DOMAIN sockets
  BY DEF RoomTypeOK
<1>2. /\ now' = now /\ limiter' = limiter /\ crowded' = crowded
      /\ \/ revoked' = revoked /\ alarm' = alarm
         \/ revoked' = 0 /\ alarm' = 0
  BY DEF Message, SocketEnds, AlarmFires, Hibernates
<1>3. IsRevoked' => IsRevoked
  BY <1>2, RevokedLess
<1>4. Closes(sockets, sockets)
  BY <1>1 DEF Closes
<1>5. CASE Hibernates
  <2>1. sockets' = sockets /\ room' \subseteq DOMAIN sockets
    BY <1>5 DEF Hibernates
  <2>2. ASSUME Held, Heard
        PROVE  Held' /\ Heard'
    <3>1. /\ \A s \in DOMAIN sockets : sockets[s].wire = "open" => s \in room'
          /\ \A s \in room' : sockets[s].wire \in {"open", "closing"}
      BY <1>5 DEF Hibernates
    <3>2. \A s \in room' : sockets'[s].wire # "closed"
      BY <2>1, <3>1
    <3> QED
      BY <1>2, <1>3, <1>4, <2>1, <2>2, <3>1, <3>2, ClosesHold
  <2> QED
    BY <1>2, <1>5, <2>1, <2>2 DEF RoomTypeOK, Hibernates
<1>6. CASE ~ Hibernates
  <2>1. /\ Closes(sockets, sockets') /\ room' \subseteq room
        /\ \A s \in room \ room' : sockets'[s].wire # "open"
    <3>1. CASE AlarmFires
      BY <1>1, <3>1, ClosingCloses DEF AlarmFires
    <3>2. CASE \E s \in DOMAIN sockets : Message(s) \/ SocketEnds(s)
      <4>1. PICK s \in DOMAIN sockets : Message(s) \/ SocketEnds(s)
        BY <3>2
      <4>2. CASE sockets' = Closing(sockets, {s}) /\ room' = room
        BY <1>1, <4>2, ClosingCloses
      <4>3. CASE sockets' = Closing(sockets, Expired) /\ room' = room \ Expired
        <5>1. Expired \subseteq DOMAIN sockets
          BY <1>1 DEF Expired
        <5> QED
          BY <1>1, <4>3, <5>1, ClosingCloses
      <4> QED
        BY <4>1, <4>2, <4>3 DEF Message, SocketEnds
    <3> QED
      BY <1>6, <3>1, <3>2
  <2>2. ASSUME Held, Heard
        PROVE  Held' /\ Heard'
    <3>1. \A s \in room' : sockets'[s].wire # "closed"
      BY <1>1, <2>1, <2>2 DEF Held, Closes
    <3>2. \A s \in DOMAIN sockets : sockets'[s].wire = "open" => s \in room'
      BY <1>1, <2>1, <2>2 DEF Held, Closes
    <3> QED
      BY <1>1, <1>2, <1>3, <2>1, <2>2, <3>1, <3>2, ClosesHold
  <2>3. revoked' \in 0 .. MaxTime /\ alarm' \in 0 .. MaxTime
    BY <1>2, ClockAssumption DEF RoomTypeOK
  <2>4. sockets' \in Seq(Socket) /\ DOMAIN sockets' = DOMAIN sockets
    BY <2>1 DEF Closes
  <2> QED
    BY <1>1, <1>2, <2>1, <2>2, <2>3, <2>4 DEF RoomTypeOK
<1> QED
  BY <1>5, <1>6

\* The report of a close tells the sender, if it was the receiver's last.
LEMMA ClosedHolds ==
    ASSUME RoomTypeOK, NEW s \in DOMAIN sockets, SocketClosed(s)
    PROVE  /\ RoomTypeOK' /\ DOMAIN sockets' = DOMAIN sockets
           /\ Held /\ Heard => Held' /\ Heard'
<1> DEFINE closed == [sockets EXCEPT ![s].wire = "closed"]
           last == OfRole(room', sockets[s].role) = {}
<1>1. /\ sockets \in Seq(Socket) /\ room \subseteq DOMAIN sockets
      /\ \A t \in DOMAIN sockets : sockets[t] \in Socket
      /\ sockets[s].wire = "closing" /\ room' = room \ {s}
      /\ UNCHANGED <<now, limiter, revoked, alarm, crowded>>
  BY DEF RoomTypeOK, SocketClosed
<1>2. /\ closed \in Seq(Socket) /\ DOMAIN closed = DOMAIN sockets
      /\ \A t \in DOMAIN sockets :
            /\ closed[t].role = sockets[t].role /\ closed[t].told = sockets[t].told
            /\ closed[t].wire = IF t = s THEN "closed" ELSE sockets[t].wire
  <2>1. [sockets[s] EXCEPT !.wire = "closed"] \in Socket
    BY <1>1 DEF Socket
  <2>2. closed = [sockets EXCEPT ![s] = [sockets[s] EXCEPT !.wire = "closed"]]
    OBVIOUS
  <2>3. closed \in Seq(Socket) /\ DOMAIN closed = DOMAIN sockets
    BY <1>1, <2>1, <2>2
  <2>4. \A t \in DOMAIN sockets :
           closed[t] = IF t = s THEN [sockets[s] EXCEPT !.wire = "closed"] ELSE sockets[t]
    BY <1>1, <2>2
  <2> HIDE DEF closed
  <2> QED
    BY <1>1, <2>3, <2>4 DEF Socket
<1>3. sockets' = IF last THEN Told(closed, room', "peer-left") ELSE closed
  BY DEF SocketClosed
<1> HIDE DEF closed
<1>4. /\ sockets' \in Seq(Socket) /\ DOMAIN sockets' = DOMAIN sockets
      /\ \A t \in DOMAIN sockets :
            /\ sockets'[t].role = sockets[t].role
            /\ sockets'[t].wire = IF t = s THEN "closed" ELSE sockets[t].wire
            /\ sockets'[t].told =
                  IF last /\ t \in room' /\ closed[t].wire = "open" THEN "peer-left"
                  ELSE sockets[t].told
  <2>1. CASE last
    <3>1. sockets' = Told(closed, room', "peer-left")
      BY <1>3, <2>1
    <3> QED
      BY <1>2, <2>1, <3>1, ToldTells
  <2>2. CASE ~ last
    BY <1>2, <1>3, <2>2
  <2> QED
    BY <2>1, <2>2
<1>5. RoomTypeOK'
  BY <1>1, <1>4 DEF RoomTypeOK
<1>6. ASSUME Held, Heard
      PROVE  Held' /\ Heard'
  <2>1. Held'
    BY <1>6, <1>1, <1>4 DEF Held, IsRevoked
  <2>2. ASSUME NEW t \in room', sockets'[t].role = "sender", sockets'[t].wire = "open"
        PROVE  /\ ReceiverOpen' => sockets'[t].told = "peer-joined" \/ crowded'
               /\ sockets'[t].told = "peer-joined" => ReceiverHeld' \/ ReceiverCloses'
    <3>1. /\ t \in room /\ t # s /\ sockets[t].role = "sender" /\ sockets[t].wire = "open"
          /\ closed[t].wire = "open"
      BY <1>1, <1>2, <1>4, <2>2
    <3>2. ReceiverOpen' => ReceiverOpen /\ ReceiverHeld'
      BY <1>1, <1>4 DEF ReceiverHeld, ReceiverOpen
    <3>3. last <=> \A r \in room' : sockets'[r].role # sockets[s].role
      BY <1>1, <1>4 DEF OfRole
    <3>4. CASE sockets[s].role = "receiver"
      <4>1. ReceiverHeld' <=> ~ last
        BY <1>1, <1>4, <3>3, <3>4 DEF ReceiverHeld
      <4>2. CASE last
        <5>1. sockets'[t].told = "peer-left"
          BY <1>1, <1>4, <3>1, <4>2
        <5> QED
          BY <3>2, <4>1, <4>2, <5>1
      <4>3. CASE ~ last
        <5>1. sockets'[t].told = sockets[t].told
          BY <1>1, <1>4, <3>1, <4>3
        <5> QED
          BY <1>1, <1>6, <3>1, <3>2, <4>1, <4>3, <5>1 DEF Heard
      <4> QED
        BY <4>2, <4>3
    <3>5. CASE sockets[s].role # "receiver"
      <4>1. ~ last
        BY <1>1, <2>2, <3>3, <3>5 DEF Socket, Roles
      <4>2. sockets'[t].told = sockets[t].told
        BY <1>1, <1>4, <3>1, <4>1
      <4>3. ReceiverHeld => ReceiverHeld'
        BY <1>1, <1>4, <3>5 DEF ReceiverHeld
      <4>4. ReceiverCloses => ReceiverCloses'
        BY <1>1, <1>4, <3>5 DEF ReceiverCloses
      <4> QED
        BY <1>1, <1>6, <3>1, <3>2, <4>2, <4>3, <4>4 DEF Heard
    <3> QED
      BY <3>4, <3>5
  <2>3. Heard'
    BY <1>6, <2>2 DEF Heard
  <2> QED
    BY <2>1, <2>3
<1> QED
  BY <1>4, <1>5, <1>6

\* The only sender of a map hears of a receiver there, and of nothing else.
LEMMA AnnouncedToOne ==
    ASSUME NEW all \in Seq(Socket), NEW held \in SUBSET DOMAIN all,
           NEW after, after = AnnouncedJoined(all, held)
    PROVE  /\ after \in Seq(Socket) /\ DOMAIN after = DOMAIN all
           /\ \A s \in DOMAIN all :
                 /\ after[s].role = all[s].role /\ after[s].wire = all[s].wire
                 /\ after[s].told # all[s].told =>
                       after[s].told = "peer-joined" /\ \E t \in held : all[t].role # "sender"
           /\ \A s \in held :
                 /\ all[s].role = "sender" /\ all[s].wire = "open"
                 /\ \A t \in held : all[t].role = "sender" => t = s
                 /\ \E t \in held : all[t].role # "sender"
                 => after[s].told = "peer-joined"
<1> DEFINE senders == {s \in held : all[s].role = "sender"}
           first == {s \in senders : \A t \in senders : s <= t}
<1>1. after = IF senders # {} /\ senders # held
              THEN Told(all, first, "peer-joined") ELSE all
  BY DEF AnnouncedJoined
<1>2. held \subseteq Nat
  OBVIOUS
<1>3. CASE senders # {} /\ senders # held
  <2>1. after = Told(all, first, "peer-joined")
    BY <1>1, <1>3
  <2>2. \E t \in held : all[t].role # "sender"
    BY <1>3
  <2>3. ASSUME NEW s \in held, all[s].role = "sender",
               \A t \in held : all[t].role = "sender" => t = s
        PROVE  s \in first
    BY <1>2, <2>3
  <2> HIDE DEF first
  <2> QED
    BY <2>1, <2>2, <2>3, ToldTells
<1>4. CASE ~ (senders # {} /\ senders # held)
  <2>1. after = all
    BY <1>1, <1>4
  <2>2. \A s \in held : all[s].role = "sender" => \A t \in held : all[t].role = "sender"
    BY <1>4
  <2> QED
    BY <2>1, <2>2
<1> QED
  BY <1>3, <1>4

\* A socket that connects takes the place of those of its role.
LEMMA ConnectHolds ==
    ASSUME RoomTypeOK, now \in Nat,
           NEW role \in Roles, NEW expiresAt \in Times, Connect(role, expiresAt)
    PROVE  /\ sockets' \in Seq(Socket) /\ room' \subseteq DOMAIN sockets'
           /\ crowded' \in BOOLEAN
           /\ Held /\ Heard => Held' /\ Heard'
<1> DEFINE leaving == Expired \cup OfRole(room, role)
           socket == [role |-> role, expiresAt |-> expiresAt, wire |-> "open",
                      told |-> "nothing"]
           closed == Closing(sockets, leaving)
           all == Append(closed, socket)
           n == Len(sockets) + 1
<1>1. /\ sockets \in Seq(Socket) /\ room \subseteq DOMAIN sockets
      /\ DOMAIN sockets = 1 .. Len(sockets) /\ Len(sockets) \in Nat
      /\ leaving \subseteq room /\ socket \in Socket
  BY DEF RoomTypeOK, Expired, OfRole, Socket
<1>2. /\ room' = (room \ leaving) \cup {n}
      /\ sockets' = AnnouncedJoined(all, room')
      /\ revoked' = 0 /\ crowded' = HoldsTwo(sockets', room')
  BY DEF Connect
<1>3. /\ Closes(sockets, closed)
      /\ \A s \in leaving : closed[s].wire # "open"
  BY <1>1, ClosingCloses
<1>4. \A s \in room \ leaving : sockets[s].role # role
  BY DEF OfRole
<1> HIDE DEF closed, leaving
<1>5. /\ all \in Seq(Socket) /\ DOMAIN all = 1 .. n
      /\ all[n].role = role /\ all[n].wire = "open" /\ all[n].told = "nothing"
      /\ \A s \in DOMAIN sockets : all[s] = closed[s] /\ s # n
  <2>1. closed \in Seq(Socket) /\ Len(closed) = Len(sockets)
    BY <1>1, <1>3 DEF Closes
  <2>2. all \in Seq(Socket) /\ Len(all) = n
    BY <1>1, <2>1
  <2>3. all[n] = socket /\ \A s \in DOMAIN sockets : all[s] = closed[s]
    BY <1>1, <2>1
  <2>4. socket.role = role /\ socket.wire = "open" /\ socket.told = "nothing"
    OBVIOUS
  <2> HIDE DEF all, socket
  <2> QED
    BY <1>1, <2>2, <2>3, <2>4
<1> HIDE DEF all
<1>6. room' \subseteq DOMAIN all /\ crowded' \in BOOLEAN
  BY <1>1, <1>2, <1>5 DEF HoldsTwo
<1> DEFINE Announced(s) ==
               /\ all[s].role = "sender" /\ all[s].wire = "open"
               /\ \A t \in room' : all[t].role = "sender" => t = s
               /\ \E t \in room' : all[t].role # "sender"
<1>7. /\ sockets' \in Seq(Socket) /\ DOMAIN sockets' = DOMAIN all
      /\ \A s \in DOMAIN all :
            /\ sockets'[s].role = all[s].role /\ sockets'[s].wire = all[s].wire
            /\ sockets'[s].told # all[s].told =>
                  sockets'[s].told = "peer-joined" /\ \E t \in room' : all[t].role # "sender"
      /\ \A s \in room' : Announced(s) => sockets'[s].told = "peer-joined"
  <2> DEFINE after == AnnouncedJoined(all, room')
  <2>1. /\ room' \in SUBSET DOMAIN all /\ all \in Seq(Socket) /\ sockets' = after
        /\ after = AnnouncedJoined(all, room')
    BY <1>2, <1>5, <1>6
  <2> HIDE DEF after
  <2>2. /\ after \in Seq(Socket) /\ DOMAIN after = DOMAIN all
        /\ \A s \in DOMAIN all :
              /\ after[s].role = all[s].role /\ after[s].wire = all[s].wire
              /\ after[s].told # all[s].told =>
                    after[s].told = "peer-joined" /\ \E t \in room' : all[t].role # "sender"
    BY <2>1, AnnouncedToOne
  <2>3. ASSUME NEW s \in room', Announced(s)
        PROVE  after[s].told = "peer-joined"
    BY <2>1, <2>3, AnnouncedToOne
  <2> QED
    BY <2>1, <2>2, <2>3
<1>8. \A s \in room \ leaving : /\ s \in DOMAIN sockets /\ s \in room'
                                /\ all[s].role = sockets[s].role
                                /\ all[s].told = sockets[s].told
  BY <1>1, <1>2, <1>3, <1>5 DEF Closes
<1>9. ASSUME Held, Heard
      PROVE  Held' /\ Heard'
  <2>1. ASSUME NEW s \in DOMAIN all, all[s].wire = "open"
        PROVE  /\ s \in room'
               /\ s # n => s \in room \ leaving /\ sockets[s].wire = "open"
    BY <1>9, <1>1, <1>2, <1>3, <1>5, <2>1 DEF Held, Closes
  <2>2. Held'
    <3>1. ASSUME NEW s \in room', NEW t \in room', all[s].role = all[t].role,
                 all[s].wire = "open", all[t].wire = "open"
          PROVE  s = t
      <4>1. /\ s \in DOMAIN all /\ t \in DOMAIN all
            /\ s # n => s \in room \ leaving /\ sockets[s].wire = "open"
            /\ t # n => t \in room \ leaving /\ sockets[t].wire = "open"
        BY <1>6, <2>1, <3>1
      <4>2. CASE s # n /\ t # n
        BY <1>8, <1>9, <3>1, <4>1, <4>2 DEF Held
      <4>3. CASE s = n \/ t = n
        BY <1>4, <1>5, <1>8, <3>1, <4>1, <4>3
      <4> QED
        BY <4>2, <4>3
    <3>2. ASSUME NEW s \in room'
          PROVE  all[s].wire # "closed"
      BY <1>9, <1>1, <1>2, <1>3, <1>5, <3>2 DEF Held, Closes
    <3>3. ~ IsRevoked'
      BY <1>2 DEF IsRevoked, Connect
    <3> QED
      BY <1>9, <1>6, <1>7, <2>1, <3>1, <3>2, <3>3 DEF Held
  <2>3. ASSUME NEW s \in room', all[s].role = "sender", all[s].wire = "open"
         PROVE  /\ ReceiverOpen' => sockets'[s].told = "peer-joined" \/ crowded'
                /\ sockets'[s].told = "peer-joined" => ReceiverHeld' \/ ReceiverCloses'
    <3>1. \A t \in DOMAIN all : all[t].role \in Roles
      <4>1. \A t \in DOMAIN all : all[t] \in Socket
        BY <1>5
      <4> QED
        BY <4>1 DEF Socket
    <3>2. ReceiverHeld' <=> \E t \in room' : all[t].role # "sender"
      BY <1>6, <1>7, <3>1 DEF ReceiverHeld, Roles
    <3>3. ReceiverOpen' => sockets'[s].told = "peer-joined" \/ crowded'
      <4> SUFFICES ASSUME ReceiverOpen', ~ crowded'
                   PROVE  sockets'[s].told = "peer-joined"
        OBVIOUS
      <4>1. ReceiverHeld'
        BY DEF ReceiverOpen, ReceiverHeld
      <4>2. ~ HoldsTwo(sockets', room')
        BY <1>2
      <4>3. \A t \in room' : all[t].role = "sender" => t = s
        BY <1>6, <1>7, <2>3, <4>2 DEF HoldsTwo
      <4> QED
        BY <1>7, <2>3, <3>2, <4>1, <4>3
    <3>4. CASE s = n
      BY <1>5, <1>6, <1>7, <3>2, <3>3, <3>4
    <3>5. CASE s # n
      <4>1. s \in room \ leaving /\ sockets[s].role = "sender" /\ role # "sender"
        BY <1>2, <1>4, <1>8, <2>3, <3>5
      <4>2. ReceiverHeld'
        BY <1>2, <1>5, <3>2, <4>1
      <4> QED
        BY <3>3, <4>2
    <3> QED
      BY <3>4, <3>5
  <2>4. Heard'
    BY <1>9, <1>6, <1>7, <2>3 DEF Heard
  <2> QED
    BY <2>2, <2>4
<1> QED
  BY <1>6, <1>7, <1>9

\* Every request counts, and the count starts again with the window.
LEMMA LimiterType ==
    ASSUME RoomTypeOK, now \in 1 .. MaxTime, Allowed
    PROVE  limiter' \in [count : 0 .. MaximumRequests, since : 0 .. MaxTime]
<1>1. MaximumRequests \in Nat /\ MaxTime \in Nat
  BY RoomAssumption, ClockAssumption
<1>2. Refreshed \in [count : 0 .. MaximumRequests, since : 0 .. MaxTime]
  BY <1>1 DEF RoomTypeOK, Refreshed
<1> QED
  BY <1>1, <1>2 DEF Allowed

\* A request is refused, or revokes, or asks whether the session is eligible.
RoomRequest(expiresAt) ==
    \/ Revoke(expiresAt)
    \/ RelayEligibility(expiresAt)
    \/ Allowed /\ UNCHANGED <<now, sockets, room, revoked, alarm, crowded>>

\* None of them adds a socket, ...
LEMMA RequestsHold ==
    ASSUME RoomTypeOK, now \in 1 .. MaxTime, NEW expiresAt \in Times,
           RoomRequest(expiresAt)
    PROVE  /\ RoomTypeOK' /\ DOMAIN sockets' = DOMAIN sockets
           /\ Held /\ Heard => Held' /\ Heard'
<1>1. /\ sockets \in Seq(Socket) /\ room \subseteq DOMAIN sockets
      /\ now \in Nat /\ 0 \in 0 .. MaxTime /\ expiresAt \in 0 .. MaxTime
      /\ revoked \in 0 .. MaxTime /\ alarm \in 0 .. MaxTime
  BY ClockAssumption DEF RoomTypeOK, Times
<1>2. /\ now' = now /\ crowded' = crowded
      /\ limiter' \in [count : 0 .. MaximumRequests, since : 0 .. MaxTime]
  BY LimiterType DEF RoomRequest, Revoke, RelayEligibility
<1>3. CASE Revoke(expiresAt)
  <2>1. /\ revoked' = expiresAt /\ alarm' = expiresAt
        /\ sockets' = Closing(sockets, room) /\ room' = {}
    BY <1>3 DEF Revoke
  <2>2. Closes(sockets, sockets') /\ \A s \in room : sockets'[s].wire # "open"
    BY <1>1, <2>1, ClosingCloses
  <2>3. sockets' \in Seq(Socket) /\ DOMAIN sockets' = DOMAIN sockets
    BY <2>2 DEF Closes
  <2>4. ASSUME Held, Heard
        PROVE  Held' /\ Heard'
    <3>1. \A s \in DOMAIN sockets : sockets'[s].wire # "open"
      BY <2>2, <2>4 DEF Held, Closes
    <3> QED
      BY <1>1, <1>2, <2>1, <2>2, <2>4, <3>1, ClosesHold
  <2> QED
    BY <1>1, <1>2, <2>1, <2>3, <2>4 DEF RoomTypeOK
<1>4. CASE UNCHANGED <<sockets, room, alarm>> /\ revoked' \in {revoked, 0}
  <2>1. IsRevoked' => IsRevoked
    BY <1>1, <1>2, <1>4, RevokedLess
  <2>2. Held /\ Heard => Held' /\ Heard'
    BY <1>2, <1>4, <2>1 DEF Held, Heard, ReceiverHeld, ReceiverOpen, ReceiverCloses
  <2> QED
    BY <1>1, <1>2, <1>4, <2>2 DEF RoomTypeOK
<1> QED
  BY <1>3, <1>4 DEF RoomRequest, RelayEligibility

\* ... as one that connects does.
LEMMA ConnectsHold ==
    ASSUME RoomTypeOK, now \in 1 .. MaxTime, NEW expiresAt \in Times,
           NEW role \in Roles, Connect(role, expiresAt)
    PROVE  RoomTypeOK' /\ (Held /\ Heard => Held' /\ Heard')
<1>1. now \in Nat /\ 0 \in 0 .. MaxTime /\ expiresAt \in 0 .. MaxTime
  BY ClockAssumption DEF Times
<1>2. /\ sockets' \in Seq(Socket) /\ room' \subseteq DOMAIN sockets' /\ crowded' \in BOOLEAN
      /\ Held /\ Heard => Held' /\ Heard'
  BY <1>1, ConnectHolds
<1>3. /\ revoked' = 0 /\ alarm' = expiresAt
      /\ limiter' \in [count : 0 .. MaximumRequests, since : 0 .. MaxTime]
  BY LimiterType DEF Connect
<1> QED
  BY <1>1, <1>2, <1>3 DEF RoomTypeOK

-----------------------------------------------------------------------------
(* The capabilities and the room.                                            *)

\* What a step of the capabilities' is for the room: nothing, a socket that
\* connects or another request with the expiry of the session, or something
\* the room does alone.
LEMMA RoomSees ==
    ASSUME Clocked, CapabilityNext
    PROVE  /\ now' = now
           /\ \/ UNCHANGED roomVars
              \/ session \in Times /\ \E role \in Roles : JoinRoom(role)
              \/ session \in Times /\ RoomRequest(session)
              \/ RoomNext
<1>1. /\ holders # {} => session \in Times
      /\ question # NoQuestion => session \in Times
  BY DEF Clocked, CapabilityTypeOK
<1>2. CASE \E role \in Roles : JoinRoom(role)
  BY <1>1, <1>2 DEF JoinRoom, Connect
<1>3. CASE RevokeSession \/ RequestRefused
  BY <1>1, <1>3 DEF RevokeSession, RequestRefused, Refused, RoomRequest, Revoke
<1>4. CASE CheckEligibility
  <2>1. session \in Times
    BY <1>1, <1>4 DEF CheckEligibility, NoQuestion
  <2>2. RelayEligibility(session) \/ (Allowed /\ UNCHANGED <<now, sockets, room, revoked, alarm, crowded>>)
    BY <1>4 DEF CheckEligibility
  <2> QED
    BY <2>1, <2>2 DEF RoomRequest, RelayEligibility
<1>5. CASE RoomNext
  BY <1>5 DEF RoomNext, Message, SocketEnds, SocketClosed, AlarmFires, Hibernates
<1>6. CASE UNCHANGED <<now, roomVars>>
  BY <1>6
<1> QED
  BY <1>2, <1>3, <1>4, <1>5, <1>6 DEF CapabilityNext

\* Whatever it is, the room stays as it should be.
LEMMA RoomHolds ==
    ASSUME Clocked, RoomTypeOK, CapabilityNext
    PROVE  /\ RoomTypeOK'
           /\ (\A role \in Roles : ~ JoinRoom(role)) => DOMAIN sockets' = DOMAIN sockets
           /\ Held /\ Heard => Held' /\ Heard'
<1>1. now \in 1 .. MaxTime /\ now \in Nat /\ now' = now
  BY ClockAssumption, RoomSees DEF Clocked
<1>2. CASE UNCHANGED roomVars
  BY <1>1, <1>2
     DEF roomVars, RoomTypeOK, Held, Heard, ReceiverHeld, ReceiverOpen, ReceiverCloses, IsRevoked
<1>3. CASE session \in Times /\ \E role \in Roles : JoinRoom(role)
  BY <1>1, <1>3, ConnectsHold DEF JoinRoom
<1>4. CASE session \in Times /\ RoomRequest(session)
  BY <1>1, <1>4, RequestsHold
<1>5. CASE RoomNext
  BY <1>1, <1>5, RoomCloses, ClosedHolds DEF RoomNext
<1> QED
  BY <1>2, <1>3, <1>4, <1>5, RoomSees

\* The capabilities keep their types; only the holders of one ask anything.
LEMMA CapabilitiesHold ==
    ASSUME Clocked, CapabilityNext, UNCHANGED config
    PROVE  Clocked'
<1>1. /\ now \in 1 .. MaxTime /\ now \in Nat /\ now' = now /\ config' \in BOOLEAN
      /\ session \in {0} \cup Times /\ holders \subseteq Roles /\ relayed \subseteq holders
      /\ question \in Question /\ ended \in BOOLEAN
      /\ holders # {} => session # 0
      /\ question # NoQuestion => question.of \in holders
  BY ClockAssumption, RoomSees DEF Clocked, CapabilityTypeOK
<1>2. NoQuestion \in Question
  BY DEF Question
<1>3. CASE IssueSession
  <2>1. now + CapabilityLifetime \in Times
    BY <1>1, <1>3, CapabilityAssumption, ClockAssumption DEF IssueSession, Times
  <2>2. session' \in Times /\ session' # 0
    BY <1>3, <2>1 DEF IssueSession, Times
  <2> QED
    BY <1>1, <1>3, <2>2 DEF IssueSession, Clocked, CapabilityTypeOK, Times
<1>4. CASE \E role \in Roles : TakeCapability(role)
  BY <1>1, <1>4 DEF TakeCapability, Clocked, CapabilityTypeOK, Times
<1>5. CASE \E role \in Roles : AskForRelay(role)
  <2>1. PICK role \in Roles : AskForRelay(role)
    BY <1>5
  <2>2. [at |-> "checking", of |-> role, since |-> now] \in Question
    BY <1>1 DEF Question, Times
  <2>3. /\ question' \in Question /\ relayed' \subseteq relayed
        /\ question' # NoQuestion => question'.of \in holders
    BY <1>2, <2>1, <2>2 DEF AskForRelay, Failed
  <2> QED
    BY <1>1, <2>1, <2>3 DEF AskForRelay, Clocked, CapabilityTypeOK, Times
<1>6. CASE CheckEligibility
  <2>1. /\ question.at = "checking" /\ question # NoQuestion
        /\ UNCHANGED <<session, holders, ended>>
    BY <1>6 DEF CheckEligibility, NoQuestion
  <2>2. /\ [question EXCEPT !.at = "eligible"] \in Question
        /\ [question EXCEPT !.at = "eligible"].of = question.of
    BY <1>1, <2>1 DEF Question
  <2>3. /\ question' \in Question /\ relayed' \subseteq relayed
        /\ question' # NoQuestion => question'.of = question.of
    BY <1>2, <1>6, <2>2 DEF CheckEligibility, Failed
  <2> QED
    BY <1>1, <2>1, <2>3 DEF Clocked, CapabilityTypeOK, Times
<1>7. CASE RelayUnavailable
  BY <1>1, <1>2, <1>7 DEF RelayUnavailable, Failed, Clocked, CapabilityTypeOK, Times
<1>8. CASE GiveCredential
  <2>1. /\ question.at = "eligible" /\ question # NoQuestion
        /\ UNCHANGED <<session, holders, ended>>
    BY <1>8 DEF GiveCredential, NoQuestion
  <2>2. question.of \in holders
    BY <1>1, <2>1
  <2>3. question' = NoQuestion /\ relayed' \subseteq relayed \cup {question.of}
    BY <1>8 DEF GiveCredential, Failed
  <2> QED
    BY <1>1, <1>2, <2>1, <2>2, <2>3 DEF Clocked, CapabilityTypeOK, Times
<1>9. CASE UNCHANGED capabilityVars
  BY <1>1, <1>9 DEF capabilityVars, Clocked, CapabilityTypeOK, Times
<1>10. CASE RevokeSession
  BY <1>1, <1>10 DEF RevokeSession, Clocked, CapabilityTypeOK, Times
<1> QED
  BY <1>3, <1>4, <1>5, <1>6, <1>7, <1>8, <1>9, <1>10
     DEF CapabilityNext, JoinRoom, RequestRefused

\* A session that a holder revoked admits nobody, and the Worker says of it
\* no more that it is eligible: its revocation is stored for as long as its
\* capabilities last, and the alarm that forgets the one finds the others ended.
LEMMA FinalHolds ==
    ASSUME Clocked, RoomTypeOK, Final, CapabilityNext
    PROVE  /\ Final'
           /\ ended => /\ Len(sockets') = Len(sockets)
                       /\ question'.at = "eligible" => question.at = "eligible"
<1>1. /\ now \in Nat /\ now' = now /\ session \in Nat /\ revoked \in Nat
      /\ alarm \in {0, session}
      /\ holders # {} => session # 0
      /\ ended => session # 0 /\ (revoked = session \/ session <= now)
  BY ClockAssumption, RoomSees DEF Clocked, CapabilityTypeOK, RoomTypeOK, Final, Times
<1>2. ended /\ session > now => IsRevoked
  BY <1>1 DEF IsRevoked
<1>3. NoQuestion.at # "eligible"
  BY DEF NoQuestion
<1>4. ASSUME \A role \in Roles : ~ JoinRoom(role)
      PROVE  Len(sockets') = Len(sockets)
  <2>1. DOMAIN sockets' = DOMAIN sockets /\ sockets' \in Seq(Socket) /\ sockets \in Seq(Socket)
    BY <1>4, RoomHolds DEF RoomTypeOK
  <2>2. 1 .. Len(sockets') = 1 .. Len(sockets)
    BY <2>1
  <2> QED
    BY <2>1, <2>2
<1>5. CASE IssueSession /\ UNCHANGED <<now, roomVars>>
  BY <1>1, <1>5 DEF IssueSession, roomVars, Final
<1>6. CASE (\E role \in Roles : TakeCapability(role)) /\ UNCHANGED <<now, roomVars>>
  BY <1>1, <1>6 DEF TakeCapability, roomVars, Final
<1>7. CASE (\E role \in Roles : AskForRelay(role)) /\ UNCHANGED <<now, roomVars>>
  <2>1. /\ UNCHANGED <<session, ended, sockets, revoked, alarm>>
        /\ question'.at # "eligible"
    BY <1>3, <1>7 DEF AskForRelay, Failed, roomVars
  <2> QED
    BY <1>1, <2>1 DEF Final
<1>8. CASE (RelayUnavailable \/ GiveCredential) /\ UNCHANGED <<now, roomVars>>
  <2>1. /\ UNCHANGED <<session, ended, sockets, revoked, alarm>>
        /\ question'.at # "eligible"
    BY <1>3, <1>8 DEF RelayUnavailable, GiveCredential, Failed, roomVars
  <2> QED
    BY <1>1, <2>1 DEF Final
<1>9. CASE CheckEligibility
  <2>1. /\ UNCHANGED <<session, ended, sockets, alarm>>
        /\ revoked' = revoked \/ ~ IsRevoked
    BY <1>9 DEF CheckEligibility, RelayEligibility
  <2>2. ended => question'.at # "eligible"
    BY <1>1, <1>2, <1>3, <1>9 DEF CheckEligibility, Failed, Verified
  <2> QED
    BY <1>1, <1>2, <2>1, <2>2 DEF Final
<1>10. CASE \E role \in Roles : JoinRoom(role)
  <2>1. /\ session > now /\ ~ IsRevoked /\ alarm' = session
        /\ UNCHANGED capabilityVars
    BY <1>10 DEF JoinRoom, Connect, Verified
  <2> QED
    BY <1>1, <1>2, <2>1 DEF Final, capabilityVars
<1>11. CASE RevokeSession
  <2>1. /\ session' = session /\ question' = question /\ ended' = TRUE
        /\ revoked' = session /\ alarm' = session /\ session # 0
    BY <1>1, <1>11 DEF RevokeSession, Revoke
  <2>2. \A role \in Roles : ~ JoinRoom(role) \/ ~ ended
    BY <1>2, <1>1 DEF JoinRoom, Connect, Verified
  <2> QED
    BY <1>4, <2>1, <2>2 DEF Final
<1>12. CASE RequestRefused
  <2>1. UNCHANGED <<session, question, ended, sockets, revoked, alarm>>
    BY <1>12 DEF RequestRefused, Refused, capabilityVars
  <2> QED
    BY <1>1, <2>1 DEF Final
<1>13. CASE RoomNext /\ UNCHANGED capabilityVars
  <2>1. /\ UNCHANGED <<session, question, ended>>
        /\ \/ UNCHANGED <<revoked, alarm>>
           \/ revoked' = 0 /\ alarm' = 0 /\ alarm # 0 /\ alarm <= now
    BY <1>13 DEF RoomNext, Message, SocketEnds, SocketClosed, AlarmFires, Hibernates,
                 capabilityVars
  <2>2. ended => \A role \in Roles : ~ JoinRoom(role)
    BY <1>2, <1>1 DEF JoinRoom, Connect, Verified
  <2> QED
    BY <1>1, <1>4, <2>1, <2>2 DEF Final
<1> QED
  BY <1>5, <1>6, <1>7, <1>8, <1>9, <1>10, <1>11, <1>12, <1>13 DEF CapabilityNext

-----------------------------------------------------------------------------
(* The development sessions.                                                 *)

\* What the members depend on: nothing of the sockets nor of the requests.
LEMMA MembersDepend ==
    ASSUME UNCHANGED members
    PROVE  \A s : Registered(s)' = Registered(s) /\ OneOrTwo(s)' = OneOrTwo(s)
BY DEF Registered, OneOrTwo, Offerer

\* Requests come and go without a trace, if a live session is found for each.
LEMMA RequestsComeAndGo ==
    ASSUME DirectoryInv, UNCHANGED <<now, sessions, members, links, peers>>,
           requests' \subseteq Request,
           \A r \in requests' : r.session \in DOMAIN sessions /\ Live(r.session)
    PROVE  DirectoryInv'
<1>1. DirectoryTypeOK'
  BY DEF DirectoryInv, DirectoryTypeOK
<1>2. Membership'
  BY MembersDepend DEF DirectoryInv, Membership, Live
<1> QED
  BY <1>1, <1>2 DEF DirectoryInv

\* Nor do sockets leave any, when they end or hear something.
LEMMA LinksComeAndGo ==
    ASSUME DirectoryInv, UNCHANGED <<now, sessions, requests, members>>,
           links' \in [Slots -> Link \cup {NoLink}],
           peers' \subseteq {l \in Slots : links'[l] # NoLink},
           \A l \in Slots : links'[l] # NoLink =>
               /\ links[l] # NoLink
               /\ links'[l].session = links[l].session
               /\ links'[l].peer = links[l].peer
               /\ links'[l].role = links[l].role
    PROVE  DirectoryInv'
<1>1. DirectoryTypeOK'
  BY DEF DirectoryInv, DirectoryTypeOK
<1>2. Membership'
  BY MembersDepend DEF DirectoryInv, Membership, Live
<1> QED
  BY <1>1, <1>2 DEF DirectoryInv

\* A broadcast changes what sockets were told, and nothing else of them.
LEMMA BroadcastTells ==
    ASSUME NEW all \in [Slots -> Link \cup {NoLink}], NEW held,
           NEW what \in {"nothing", "peer-joined", "peer-left"},
           NEW after, after = Broadcast(all, held, what)
    PROVE  /\ after \in [Slots -> Link \cup {NoLink}]
           /\ \A l \in Slots :
                 /\ after[l] = NoLink <=> all[l] = NoLink
                 /\ after[l].session = all[l].session
                 /\ after[l].peer = all[l].peer
                 /\ after[l].role = all[l].role
<1>1. after = [l \in Slots |->
                  IF l \in held /\ all[l].wire = "open" THEN [all[l] EXCEPT !.told = what]
                  ELSE all[l]]
  BY DEF Broadcast
<1>2. ASSUME NEW l \in Slots
      PROVE  /\ after[l] \in Link \cup {NoLink}
             /\ after[l] = NoLink <=> all[l] = NoLink
             /\ after[l].session = all[l].session
             /\ after[l].peer = all[l].peer
             /\ after[l].role = all[l].role
  <2>1. CASE after[l] = all[l]
    BY <2>1
  <2>2. CASE all[l].wire = "open" /\ after[l] = [all[l] EXCEPT !.told = what]
    <3>1. all[l] \in Link
      BY <2>2 DEF NoLink
    <3>2. after[l] \in Link /\ after[l].wire = "open"
      BY <2>2, <3>1 DEF Link
    <3> QED
      BY <2>2, <3>1, <3>2 DEF Link, NoLink
  <2> QED
    BY <1>1, <2>1, <2>2
<1> QED
  BY <1>1, <1>2

\* A session is created without members.
LEMMA CreateHolds ==
    ASSUME now \in 1 .. MaxTime, DirectoryInv, NEW code \in Codes, Create(code)
    PROVE  DirectoryInv'
<1> DEFINE fresh == [code |-> code, expiresAt |-> now + SessionLifetime]
<1>1. /\ now \in Nat /\ MaxTime \in Nat /\ SessionLifetime \in Nat \ {0}
      /\ MaxSessions \in Nat
      /\ sessions \in Seq(Session) /\ Len(sessions) < MaxSessions
      /\ sessions' = Append(sessions, fresh)
      /\ UNCHANGED <<now, requests, members, links, peers>>
  BY ClockAssumption, DirectoryAssumption DEF DirectoryInv, DirectoryTypeOK, Create
<1>2. fresh \in Session
  BY <1>1 DEF Session
<1>3. /\ sessions' \in Seq(Session) /\ Len(sessions') = Len(sessions) + 1
      /\ DOMAIN sessions' = DOMAIN sessions \cup {Len(sessions) + 1}
      /\ \A s \in DOMAIN sessions : sessions'[s] = sessions[s]
      /\ sessions'[Len(sessions) + 1].expiresAt = now + SessionLifetime
  <2> HIDE DEF fresh
  <2>1. /\ sessions' \in Seq(Session) /\ Len(sessions') = Len(sessions) + 1
        /\ \A s \in 1 .. Len(sessions) : sessions'[s] = sessions[s]
        /\ sessions'[Len(sessions) + 1] = fresh
    BY <1>1, <1>2
  <2>2. fresh.expiresAt = now + SessionLifetime
    BY DEF fresh
  <2> QED
    BY <1>1, <2>1, <2>2
<1> HIDE DEF fresh
<1>4. DirectoryTypeOK'
  BY <1>1, <1>3 DEF DirectoryInv, DirectoryTypeOK
<1>5. Membership'
  <2>1. Len(sessions') <= MaxSessions
    BY <1>1, <1>3
  <2>2. \A s \in DOMAIN sessions' : sessions'[s].expiresAt <= now' + SessionLifetime
    BY <1>1, <1>3 DEF DirectoryInv, Membership
  <2>3. \A r \in requests' : r.session \in DOMAIN sessions' /\ Live(r.session)'
    BY <1>1, <1>3 DEF DirectoryInv, Membership, Live
  <2>4. \A s \in 1 .. MaxSessions : \A p \in Registered(s)' :
           s \in DOMAIN sessions' /\ members'[s][p].expiresAt >= sessions'[s].expiresAt
    BY <1>1, <1>3, MembersDepend DEF DirectoryInv, Membership
  <2> QED
    BY <1>1, <2>1, <2>2, <2>3, <2>4, MembersDepend DEF DirectoryInv, Membership
<1> QED
  BY <1>4, <1>5 DEF DirectoryInv

\* A socket ends, its room hears of it, or the room starts again.
LEMMA EndsHold ==
    ASSUME DirectoryInv,
           \/ \E l \in Slots : LinkEnds(l) \/ LinkClosed(l)
           \/ \E s \in 1 .. MaxSessions : RoomRestarts(s)
    PROVE  DirectoryInv'
<1>1. /\ links \in [Slots -> Link \cup {NoLink}]
      /\ peers \subseteq {l \in Slots : links[l] # NoLink}
      /\ \A l \in Slots : links[l].wire # "closed" => links[l] \in Link
      /\ UNCHANGED <<now, sessions, requests, members>>
  <2>1. /\ links \in [Slots -> Link \cup {NoLink}]
        /\ peers \subseteq {l \in Slots : links[l] # NoLink}
    BY DEF DirectoryInv, DirectoryTypeOK
  <2>2. \A l \in Slots : links[l].wire # "closed" => links[l] \in Link
    BY <2>1 DEF NoLink
  <2>3. UNCHANGED <<now, sessions, requests, members>>
    BY DEF LinkEnds, LinkClosed, RoomRestarts
  <2> QED
    BY <2>1, <2>2, <2>3
<1> DEFINE Same(l) == /\ links[l] # NoLink
                      /\ links'[l].session = links[l].session
                      /\ links'[l].peer = links[l].peer
                      /\ links'[l].role = links[l].role
<1>2. CASE \E l \in Slots : LinkEnds(l)
  <2>1. PICK l \in Slots : LinkEnds(l)
    BY <1>2
  <2> DEFINE ending == [links[l] EXCEPT !.wire = "closing", !.told = "nothing"]
  <2>2. links[l] \in Link /\ links' = [links EXCEPT ![l] = ending] /\ peers' \subseteq peers
    BY <1>1, <2>1 DEF LinkEnds
  <2>3. /\ ending \in Link /\ ending # NoLink
        /\ ending.session = links[l].session /\ ending.peer = links[l].peer
        /\ ending.role = links[l].role
    BY <2>2 DEF Link, NoLink
  <2> HIDE DEF ending
  <2>4. \A k \in Slots : links'[k] = IF k = l THEN ending ELSE links[k]
    BY <1>1, <2>2
  <2>5. links' \in [Slots -> Link \cup {NoLink}]
    BY <1>1, <2>2, <2>3
  <2>6. links[l] # NoLink
    BY <2>2 DEF Link, NoLink
  <2>7. peers' \subseteq {k \in Slots : links'[k] # NoLink}
    BY <1>1, <2>2, <2>3, <2>4
  <2>8. \A k \in Slots : links'[k] # NoLink => Same(k)
    BY <2>3, <2>4, <2>6
  <2> QED
    BY <1>1, <2>5, <2>7, <2>8, LinksComeAndGo
<1>3. CASE \E l \in Slots : LinkClosed(l)
  <2>1. PICK l \in Slots : LinkClosed(l)
    BY <1>3
  <2> DEFINE all == [links EXCEPT ![l] = NoLink]
             held == Of(peers \ {l}, links[l].session)
  <2>2. /\ links' = Broadcast(all, held, "peer-left")
        /\ \E reached \in Reached(all, held) : peers' = ((peers \ {l}) \ held) \cup reached
    BY <2>1 DEF LinkClosed
  <2>3. /\ all \in [Slots -> Link \cup {NoLink}]
        /\ \A k \in Slots : all[k] = IF k = l THEN NoLink ELSE links[k]
    BY <1>1
  <2>4. held \subseteq peers \ {l}
    BY DEF Of
  <2> HIDE DEF all, held
  <2>5. peers' \subseteq peers \ {l}
    BY <2>2, <2>4 DEF Reached
  <2>6. /\ links' \in [Slots -> Link \cup {NoLink}]
        /\ \A k \in Slots : /\ links'[k] = NoLink <=> all[k] = NoLink
                            /\ links'[k].session = all[k].session
                            /\ links'[k].peer = all[k].peer
                            /\ links'[k].role = all[k].role
    BY <2>2, <2>3, BroadcastTells
  <2>7. peers' \subseteq {k \in Slots : links'[k] # NoLink}
    BY <1>1, <2>3, <2>5, <2>6
  <2>8. \A k \in Slots : links'[k] # NoLink => Same(k)
    BY <2>3, <2>6
  <2> QED
    BY <1>1, <2>6, <2>7, <2>8, LinksComeAndGo
<1>4. CASE \E s \in 1 .. MaxSessions : RoomRestarts(s)
  <2>1. PICK s \in 1 .. MaxSessions : RoomRestarts(s)
    BY <1>4
  <2>2. /\ peers' = peers \ Of(peers, s)
        /\ links' = [l \in Slots |->
               IF links[l] # NoLink /\ links[l].session = s THEN NoLink ELSE links[l]]
    BY <2>1 DEF RoomRestarts
  <2>3. links' \in [Slots -> Link \cup {NoLink}]
    BY <1>1, <2>2
  <2>4. peers' \subseteq {l \in Slots : links'[l] # NoLink}
    BY <1>1, <2>2 DEF Of
  <2>5. \A l \in Slots : links'[l] # NoLink => Same(l)
    BY <2>2
  <2> QED
    BY <1>1, <2>3, <2>4, <2>5, LinksComeAndGo
<1> QED
  BY <1>2, <1>3, <1>4

\* The members of a session that is live are active, each of them; a role is
\* given to a first one, which offers, or to a second, which answers.
LEMMA RoleGiven ==
    ASSUME now \in 1 .. MaxTime, DirectoryInv, NEW r \in requests, ~ IsFull(r),
           NEW member, member = MemberFor(r)
    PROVE  /\ r.session \in 1 .. MaxSessions /\ r.peer \in Peers
           /\ member \in [role : LinkRoles, expiresAt : 0 .. MaxTime + SessionLifetime]
           /\ member.expiresAt >= sessions[r.session].expiresAt /\ member.expiresAt # 0
           /\ \/ r.peer \in Registered(r.session) /\ member = members[r.session][r.peer]
              \/ Registered(r.session) = {} /\ member.role = "offerer"
              \/ \E a \in Peers : /\ Registered(r.session) = {a} /\ Offerer(r.session, a)
                                  /\ r.peer # a /\ member.role # "offerer"
<1> DEFINE s == r.session
<1>1. /\ now \in Nat /\ now # 0 /\ MaxTime \in Nat /\ SessionLifetime \in Nat \ {0}
      /\ now <= MaxTime
  BY ClockAssumption, DirectoryAssumption
<1>2. /\ s \in 1 .. MaxSessions /\ r.peer \in Peers
      /\ s \in DOMAIN sessions /\ sessions[s].expiresAt > now
      /\ sessions[s].expiresAt <= now + SessionLifetime
      /\ sessions[s].expiresAt \in Nat
  <2>1. r \in Request
    BY DEF DirectoryInv, DirectoryTypeOK
  <2>2. s \in DOMAIN sessions /\ sessions[s].expiresAt > now
    BY DEF DirectoryInv, Membership, Live
  <2>3. sessions[s] \in Session
    BY <2>2 DEF DirectoryInv, DirectoryTypeOK
  <2>4. sessions[s].expiresAt <= now + SessionLifetime
    BY <2>2 DEF DirectoryInv, Membership
  <2> QED
    BY <1>1, <2>1, <2>2, <2>3, <2>4 DEF Request, Session
<1>3. \A p \in Peers : members[s][p] \in [role : LinkRoles, expiresAt : 0 .. MaxTime + SessionLifetime]
  BY <1>2 DEF DirectoryInv, DirectoryTypeOK
<1>4. \A p \in Registered(s) : members[s][p].expiresAt >= sessions[s].expiresAt
  BY <1>2 DEF DirectoryInv, Membership
<1>5. ActiveMembers(s) = Registered(s)
  BY <1>1, <1>2, <1>3, <1>4 DEF ActiveMembers, Registered
<1>6. OneOrTwo(s)
  BY <1>2 DEF DirectoryInv, Membership
<1>7. CASE r.peer \in Registered(s)
  <2>1. member = members[s][r.peer]
    BY <1>5, <1>7 DEF MemberFor
  <2> QED
    BY <1>2, <1>3, <1>4, <1>7, <2>1 DEF Registered
<1>8. CASE r.peer \notin Registered(s)
  <2>1. member = [role |-> IF Registered(s) = {} THEN "offerer" ELSE "answerer",
                  expiresAt |-> now + SessionLifetime]
    BY <1>5, <1>8 DEF MemberFor
  <2>2. ~ (Cardinality(Registered(s)) >= 2)
    BY <1>5, <1>8 DEF IsFull
  <2>3. ~ \E a, b \in Peers : a # b /\ Registered(s) = {a, b}
    <3> SUFFICES ASSUME NEW a \in Peers, NEW b \in Peers, a # b, Registered(s) = {a, b}
                 PROVE  FALSE
      OBVIOUS
    <3>1. IsFiniteSet({a}) /\ Cardinality({a}) = 1
      BY FS_Singleton
    <3>2. Cardinality({a} \cup {b}) = Cardinality({a}) + 1
      BY <3>1, FS_AddElement
    <3>3. {a, b} = {a} \cup {b}
      OBVIOUS
    <3> QED
      BY <2>2, <3>1, <3>2, <3>3
  <2>4. /\ member \in [role : LinkRoles, expiresAt : 0 .. MaxTime + SessionLifetime]
        /\ member.expiresAt = now + SessionLifetime
        /\ member.role = IF Registered(s) = {} THEN "offerer" ELSE "answerer"
    BY <1>1, <2>1 DEF LinkRoles
  <2>5. \/ Registered(s) = {}
        \/ \E a \in Peers : Registered(s) = {a} /\ Offerer(s, a)
    BY <1>6, <2>3 DEF OneOrTwo
  <2>6. member.expiresAt >= sessions[s].expiresAt /\ member.expiresAt # 0
    BY <1>1, <1>2, <2>4
  <2> QED
    BY <1>2, <1>8, <2>4, <2>5, <2>6
<1> QED
  BY <1>7, <1>8

\* A peer that joins is, or becomes, the member whose role it was told.
LEMMA JoinHolds ==
    ASSUME now \in 1 .. MaxTime, DirectoryInv, NEW r \in requests, Join(r)
    PROVE  DirectoryInv'
<1> DEFINE s == r.session
           p == r.peer
           member == MemberFor(r)
           slot == CHOOSE l \in Slots : links[l] = NoLink
           link == [session |-> s, peer |-> p, role |-> member.role,
                    wire |-> "open", told |-> "nothing"]
           all == [links EXCEPT ![slot] = link]
           held == Of(peers, s) \cup {slot}
           Record == [role : LinkRoles, expiresAt : 0 .. MaxTime + SessionLifetime]
<1>1. /\ links \in [Slots -> Link \cup {NoLink}]
      /\ peers \subseteq {l \in Slots : links[l] # NoLink}
      /\ members \in [1 .. MaxSessions -> [Peers -> Record]]
      /\ UNCHANGED <<now, sessions>> /\ requests' \subseteq requests
      /\ members' = [members EXCEPT ![s][p] = member]
  BY DEF DirectoryInv, DirectoryTypeOK, Join
<1>2. /\ s \in 1 .. MaxSessions /\ p \in Peers /\ member \in Record
      /\ member.expiresAt >= sessions[s].expiresAt /\ member.expiresAt # 0
      /\ \/ p \in Registered(s) /\ member = members[s][p]
         \/ Registered(s) = {} /\ member.role = "offerer"
         \/ \E a \in Peers : /\ Registered(s) = {a} /\ Offerer(s, a)
                             /\ p # a /\ member.role # "offerer"
  <2>1. ~ IsFull(r)
    BY DEF Join
  <2> QED
    BY <2>1, RoleGiven
<1>3. slot \in Slots /\ links[slot] = NoLink
  BY DEF Join
<1>4. /\ \A l \in peers : links'[l] # NoLink
      /\ links'[slot] # NoLink
      /\ peers' \subseteq peers \cup {slot}
      /\ links' \in [Slots -> Link \cup {NoLink}]
      /\ links'[slot].session = s /\ links'[slot].peer = p
      /\ links'[slot].role = member.role
      /\ \A l \in Slots : l # slot /\ links'[l] # NoLink =>
            /\ links[l] # NoLink
            /\ links'[l].session = links[l].session
            /\ links'[l].peer = links[l].peer
            /\ links'[l].role = links[l].role
  <2>1. /\ link \in Link /\ link # NoLink
        /\ link.session = s /\ link.peer = p /\ link.role = member.role
    BY <1>2 DEF Link, NoLink
  <2>2. \/ links' = Broadcast(all, held, "peer-joined")
             /\ \E reached \in Reached(all, held) : peers' = (peers \ held) \cup reached
        \/ links' = all /\ peers' = (peers \ held) \cup held
    BY DEF Join
  <2> HIDE DEF link, slot
  <2>3. /\ all \in [Slots -> Link \cup {NoLink}]
        /\ \A l \in Slots : all[l] = IF l = slot THEN link ELSE links[l]
    BY <1>1, <1>3, <2>1
  <2>4. held \subseteq peers \cup {slot}
    BY DEF Of
  <2> HIDE DEF all, held
  <2>5. peers' \subseteq peers \cup {slot}
    BY <2>2, <2>4 DEF Reached
  <2>6. /\ links' \in [Slots -> Link \cup {NoLink}]
        /\ \A l \in Slots : /\ links'[l] = NoLink <=> all[l] = NoLink
                            /\ links'[l].session = all[l].session
                            /\ links'[l].peer = all[l].peer
                            /\ links'[l].role = all[l].role
    BY <2>2, <2>3, BroadcastTells
  <2> QED
    BY <1>1, <1>3, <2>1, <2>3, <2>5, <2>6
<1> HIDE DEF link, slot, member
<1>5. /\ members' \in [1 .. MaxSessions -> [Peers -> Record]]
      /\ members'[s][p] = member
      /\ \A t \in 1 .. MaxSessions : \A q \in Peers :
            t # s \/ q # p => members'[t][q] = members[t][q]
  BY <1>1, <1>2
<1>6. /\ Registered(s)' = Registered(s) \cup {p}
      /\ \A t \in 1 .. MaxSessions : t # s => Registered(t)' = Registered(t)
      /\ \A t \in 1 .. MaxSessions : \A q \in Registered(t) : members'[t][q] = members[t][q]
  <2>1. \A t \in 1 .. MaxSessions : t # s => Registered(t)' = Registered(t)
    BY <1>5 DEF Registered
  <2>2. Registered(s)' = Registered(s) \cup {p}
    BY <1>2, <1>5 DEF Registered
  <2>3. \A t \in 1 .. MaxSessions : \A q \in Registered(t) : members'[t][q] = members[t][q]
    BY <1>2, <1>5 DEF Registered
  <2> QED
    BY <2>1, <2>2, <2>3
<1>7. ASSUME NEW t \in 1 .. MaxSessions
      PROVE  OneOrTwo(t)'
  <2>1. OneOrTwo(t)
    BY DEF DirectoryInv, Membership
  <2>2. \A q \in Registered(t) : Offerer(t, q)' = Offerer(t, q)
    BY <1>6 DEF Offerer
  <2>3. CASE Registered(t)' = Registered(t)
    BY <2>1, <2>2, <2>3 DEF OneOrTwo
  <2>4. CASE Registered(t)' # Registered(t)
    <3>1. t = s /\ p \notin Registered(s)
      BY <1>6, <2>4
    <3>2. Offerer(s, p)' = (member.role = "offerer")
      BY <1>5 DEF Offerer
    <3>3. CASE Registered(s) = {} /\ member.role = "offerer"
      BY <1>2, <1>6, <3>1, <3>2, <3>3 DEF OneOrTwo
    <3>4. CASE \E a \in Peers : /\ Registered(s) = {a} /\ Offerer(s, a)
                                /\ p # a /\ member.role # "offerer"
      <4>1. PICK a \in Peers : /\ Registered(s) = {a} /\ Offerer(s, a)
                               /\ p # a /\ member.role # "offerer"
        BY <3>4
      <4>2. Registered(s)' = {a, p} /\ Offerer(s, a)' /\ ~ Offerer(s, p)'
        BY <1>6, <2>2, <3>1, <3>2, <4>1
      <4> QED
        BY <1>2, <3>1, <4>1, <4>2 DEF OneOrTwo
    <3> QED
      BY <1>2, <3>1, <3>3, <3>4
  <2> QED
    BY <2>3, <2>4
<1>8. DirectoryTypeOK'
  BY <1>1, <1>3, <1>4, <1>5 DEF DirectoryInv, DirectoryTypeOK
<1>9. Membership'
  <2>1. s \in DOMAIN sessions
    BY DEF DirectoryInv, Membership
  <2>2. \A t \in 1 .. MaxSessions : \A q \in Registered(t)' :
           t \in DOMAIN sessions' /\ members'[t][q].expiresAt >= sessions'[t].expiresAt
    BY <1>1, <1>2, <1>5, <1>6, <2>1 DEF DirectoryInv, Membership
  <2>3. ASSUME NEW l \in Slots, links'[l] # NoLink
        PROVE  /\ links'[l].peer \in Peers
               /\ members'[links'[l].session][links'[l].peer].expiresAt # 0
               /\ links'[l].role = members'[links'[l].session][links'[l].peer].role
    <3>1. CASE l = slot
      BY <1>2, <1>4, <1>5, <3>1
    <3>2. CASE l # slot
      <4>1. links[l] \in Link
        BY <1>1, <1>4, <2>3, <3>2
      <4>2. /\ links[l].session \in 1 .. MaxSessions
            /\ links[l].peer \in Registered(links[l].session)
            /\ links[l].role = members[links[l].session][links[l].peer].role
        BY <1>4, <2>3, <3>2, <4>1 DEF DirectoryInv, Membership, Link
      <4>3. /\ links[l].peer \in Peers
            /\ members[links[l].session][links[l].peer].expiresAt # 0
        BY <4>2 DEF Registered
      <4>4. members'[links[l].session][links[l].peer] = members[links[l].session][links[l].peer]
        BY <1>6, <4>2
      <4>5. links'[l].session = links[l].session /\ links'[l].peer = links[l].peer
            /\ links'[l].role = links[l].role
        BY <1>4, <2>3, <3>2
      <4> QED
        BY <4>2, <4>3, <4>4, <4>5
    <3> QED
      BY <3>1, <3>2
  <2>4. \A q \in requests' : q.session \in DOMAIN sessions' /\ Live(q.session)'
    BY <1>1 DEF DirectoryInv, Membership, Live
  <2> QED
    BY <1>1, <1>7, <2>2, <2>3, <2>4 DEF DirectoryInv, Membership, Registered
<1> QED
  BY <1>8, <1>9 DEF DirectoryInv

\* Whatever the directory and its rooms do, each has one member that offers.
LEMMA DirectoryHolds ==
    ASSUME now \in 1 .. MaxTime, DirectoryInv, DirectoryNext
    PROVE  now' = now /\ DirectoryInv'
<1>1. /\ requests \subseteq Request /\ sessions \in Seq(Session)
      /\ Len(sessions) <= MaxSessions
      /\ \A r \in requests : r.session \in DOMAIN sessions /\ Live(r.session)
  BY DEF DirectoryInv, DirectoryTypeOK, Membership
<1>2. now' = now
  BY DEF DirectoryNext, Create, Lookup, RegisterMember, Refuse, Join, LinkEnds, LinkClosed,
         RoomRestarts
<1>3. CASE \E code \in Codes : Create(code)
  BY <1>2, <1>3, CreateHolds
<1>4. CASE \E s \in DOMAIN sessions, p \in Peers : Lookup(s, p)
  <2>1. PICK s \in DOMAIN sessions, p \in Peers : Lookup(s, p)
    BY <1>4
  <2> DEFINE r == [session |-> s, peer |-> p, at |-> "register"]
  <2>2. s \in 1 .. MaxSessions
    BY <1>1, DirectoryAssumption
  <2>3. r \in Request /\ r.session = s
    BY <2>2 DEF Request
  <2>4. /\ requests' = requests \cup {r} /\ Live(s)
        /\ UNCHANGED <<now, sessions, members, links, peers>>
    BY <2>1 DEF Lookup, Found
  <2> HIDE DEF r
  <2> QED
    BY <1>1, <2>3, <2>4, RequestsComeAndGo
<1>5. CASE \E r \in requests : RegisterMember(r)
  <2>1. PICK r \in requests : RegisterMember(r)
    BY <1>5
  <2> DEFINE next == [r EXCEPT !.at = "room"]
  <2>2. next \in Request /\ next.session = r.session
    BY <1>1 DEF Request
  <2>3. /\ requests' \subseteq requests \cup {next}
        /\ UNCHANGED <<now, sessions, members, links, peers>>
    BY <2>1 DEF RegisterMember
  <2> HIDE DEF next
  <2> QED
    BY <1>1, <2>2, <2>3, RequestsComeAndGo
<1>6. CASE \E r \in requests : Refuse(r)
  <2>1. requests' \subseteq requests /\ UNCHANGED <<now, sessions, members, links, peers>>
    BY <1>6 DEF Refuse
  <2> QED
    BY <1>1, <2>1, RequestsComeAndGo
<1>7. CASE \E r \in requests : Join(r)
  BY <1>2, <1>7, JoinHolds
<1>8. CASE \/ \E l \in Slots : LinkEnds(l) \/ LinkClosed(l)
           \/ \E s \in 1 .. MaxSessions : RoomRestarts(s)
  BY <1>2, <1>8, EndsHold
<1> QED
  BY <1>2, <1>3, <1>4, <1>5, <1>6, <1>7, <1>8 DEF DirectoryNext

-----------------------------------------------------------------------------
(* The two deployments and the clock.                                        *)

\* Time ends revocations and sessions, and brings nothing back.
LEMMA TickHolds ==
    ASSUME IInv, Tick
    PROVE  IInv' /\ (Held /\ Heard => Held' /\ Heard')
<1>1. /\ now \in Nat /\ now' = now + 1 /\ now' \in 1 .. MaxTime /\ requests = {}
      /\ UNCHANGED <<config, roomVars, capabilityVars, directoryVars>>
  BY ClockAssumption DEF IInv, Clocked, Tick, ClockTicks, RequestsAreShort
<1>2. /\ revoked \in Nat /\ session \in Nat
      /\ SessionLifetime \in Nat
      /\ \A s \in DOMAIN sessions : sessions[s].expiresAt \in Nat
  <2>1. \A s \in DOMAIN sessions : sessions[s] \in Session
    BY DEF IInv, DirectoryInv, DirectoryTypeOK
  <2> QED
    BY <2>1, ClockAssumption, DirectoryAssumption
       DEF IInv, RoomTypeOK, Clocked, CapabilityTypeOK, Times, Session
<1>3. Clocked'
  BY <1>1 DEF IInv, Clocked, CapabilityTypeOK, capabilityVars
<1>4. RoomTypeOK'
  BY <1>1 DEF IInv, RoomTypeOK, roomVars
<1>5. Final'
  BY <1>1, <1>2 DEF IInv, Final, roomVars, capabilityVars
<1>6. DirectoryTypeOK'
  BY <1>1 DEF IInv, DirectoryInv, DirectoryTypeOK, directoryVars
<1>7. Membership'
  <2>1. UNCHANGED <<sessions, requests, members, links>>
    BY <1>1 DEF directoryVars
  <2>2. \A s \in DOMAIN sessions : sessions[s].expiresAt <= now' + SessionLifetime
    BY <1>1, <1>2 DEF IInv, DirectoryInv, Membership
  <2> QED
    BY <1>1, <2>1, <2>2, MembersDepend DEF IInv, DirectoryInv, Membership
<1>8. Held /\ Heard => Held' /\ Heard'
  <2>1. UNCHANGED <<sockets, room, crowded>> /\ (IsRevoked' => IsRevoked)
    BY <1>1, <1>2 DEF roomVars, IsRevoked
  <2> QED
    BY <2>1 DEF Held, Heard, ReceiverHeld, ReceiverOpen, ReceiverCloses
<1> QED
  BY <1>3, <1>4, <1>5, <1>6, <1>7, <1>8 DEF IInv, DirectoryInv

\* The invariant holds at first, ...
LEMMA InitHolds == Init => IInv /\ Held /\ Heard
<1> SUFFICES ASSUME Init PROVE IInv /\ Held /\ Heard
  OBVIOUS
<1>1. /\ now = 1 /\ MaxTime \in Nat \ {0}
      /\ {SessionLifetime, MaxSessions} \subseteq Nat \ {0} /\ MaximumRequests \in Nat
  BY ClockAssumption, DirectoryAssumption, RoomAssumption DEF Init, ClockInit
<1>2. Clocked
  <2>1. now \in 1 .. MaxTime /\ config \in BOOLEAN /\ NoQuestion \in Question
    BY <1>1 DEF Init, Question
  <2> QED
    BY <2>1 DEF Init, Clocked, CapabilityInit, CapabilityTypeOK
<1>3. RoomTypeOK /\ Held /\ Heard
  <2>1. RoomInit /\ MaxTime \in Nat
    BY <1>1 DEF Init
  <2>2. RoomTypeOK
    <3>1. /\ 0 \in 0 .. MaximumRequests /\ 0 \in 0 .. MaxTime
          /\ << >> \in Seq(Socket)
      BY <1>1, <2>1
    <3>2. limiter \in [count : 0 .. MaximumRequests, since : 0 .. MaxTime]
      BY <2>1, <3>1 DEF RoomInit
    <3> QED
      BY <2>1, <3>1, <3>2 DEF RoomInit, RoomTypeOK
  <2>3. room = {} /\ DOMAIN sockets = {}
    BY <2>1 DEF RoomInit
  <2>4. Held /\ Heard
    BY <2>3 DEF Held, Heard
  <2> QED
    BY <2>2, <2>4
<1>4. Final
  BY DEF Init, RoomInit, CapabilityInit, Final
<1>5. DirectoryTypeOK
  <2>1. NoMember \in [role : LinkRoles, expiresAt : 0 .. MaxTime + SessionLifetime]
    BY <1>1 DEF NoMember, LinkRoles
  <2> QED
    BY <2>1 DEF Init, DirectoryInit, DirectoryTypeOK
<1>6. Membership
  <2>1. /\ sessions = << >> /\ requests = {}
        /\ \A l \in Slots : links[l] = NoLink
        /\ \A s \in 1 .. MaxSessions : Registered(s) = {}
    BY DEF Init, DirectoryInit, Registered, NoMember
  <2> QED
    BY <1>1, <2>1 DEF Membership, OneOrTwo
<1> QED
  BY <1>2, <1>3, <1>4, <1>5, <1>6 DEF IInv, DirectoryInv

\* ... and every step keeps it.
LEMMA StepHolds ==
    ASSUME IInv, [Next]_vars
    PROVE  /\ IInv'
           /\ Held /\ Heard => Held' /\ Heard'
<1>1. now \in 1 .. MaxTime
  BY DEF IInv, Clocked
<1>2. CASE CapabilityNext /\ UNCHANGED <<config, directoryVars>>
  <2>1. Clocked' /\ RoomTypeOK' /\ Final'
    BY <1>2, CapabilitiesHold, RoomHolds, FinalHolds DEF IInv
  <2>2. now' = now
    BY <1>2, RoomSees DEF IInv
  <2>3. DirectoryInv'
    BY <1>2, <2>2, MembersDepend
       DEF IInv, DirectoryInv, DirectoryTypeOK, Membership, Live, directoryVars
  <2> QED
    BY <1>2, <2>1, <2>3, RoomHolds DEF IInv
<1>3. CASE DirectoryNext /\ UNCHANGED <<config, roomVars, capabilityVars>>
  <2>1. now' = now /\ DirectoryInv'
    BY <1>1, <1>3, DirectoryHolds DEF IInv
  <2>2. Clocked' /\ RoomTypeOK' /\ Final'
    BY <1>3, <2>1 DEF IInv, Clocked, CapabilityTypeOK, RoomTypeOK, Final, roomVars, capabilityVars
  <2>3. Held /\ Heard => Held' /\ Heard'
    BY <1>3, <2>1 DEF Held, Heard, ReceiverHeld, ReceiverOpen, ReceiverCloses, IsRevoked, roomVars
  <2> QED
    BY <2>1, <2>2, <2>3 DEF IInv
<1>4. CASE Tick
  BY <1>4, TickHolds
<1>5. CASE UNCHANGED vars
  <2>1. UNCHANGED <<now, config, roomVars, capabilityVars, directoryVars>>
    BY <1>5 DEF vars
  <2>2. DirectoryInv'
    BY <2>1, MembersDepend
       DEF IInv, DirectoryInv, DirectoryTypeOK, Membership, Live, directoryVars
  <2>3. Clocked' /\ RoomTypeOK' /\ Final'
    BY <2>1 DEF IInv, Clocked, CapabilityTypeOK, RoomTypeOK, Final, roomVars, capabilityVars
  <2>4. Held /\ Heard => Held' /\ Heard'
    BY <2>1 DEF Held, Heard, ReceiverHeld, ReceiverOpen, ReceiverCloses, IsRevoked, roomVars
  <2> QED
    BY <2>2, <2>3, <2>4 DEF IInv
<1> QED
  BY <1>2, <1>3, <1>4, <1>5 DEF Next

-----------------------------------------------------------------------------
\* In every behaviour the capabilities hold what their holders were given, a
\* revocation is in force or unneeded, and a member outlives its session.
THEOREM InvHolds == Spec => []IInv
<1>1. Init => IInv
  BY InitHolds
<1>2. IInv /\ [Next]_vars => IInv'
  BY StepHolds
<1> QED
  BY <1>1, <1>2, PTL DEF Spec

\* Every variable of the Worker's rooms, directory and capabilities has its
\* type in every reachable state (Signaling and the modules it extends).
THEOREM TypeCorrect == Spec => []TypeOK
<1>1. IInv => TypeOK
  BY DEF IInv, Clocked, DirectoryInv, TypeOK
<1> QED
  BY <1>1, InvHolds, PTL

\* Once a holder has had the session revoked the room admits nobody and the
\* Worker finds nobody eligible, also after its alarm has forgotten the
\* revocation (Revoke, AlarmFires, Verified, issueSignalingSession).
THEOREM RevocationFinal == Spec => RevocationIsFinal
<1>1. IInv /\ [Next]_vars =>
         [ended => /\ Len(sockets') = Len(sockets)
                   /\ question'.at = "eligible" => question.at = "eligible"
         ]_<<now, roomVars, capabilityVars>>
  <2> SUFFICES ASSUME IInv, [Next]_vars, ended,
                      ~ UNCHANGED <<now, roomVars, capabilityVars>>
               PROVE  /\ Len(sockets') = Len(sockets)
                      /\ question'.at = "eligible" => question.at = "eligible"
    OBVIOUS
  <2>1. CASE CapabilityNext
    BY <2>1, FinalHolds DEF IInv
  <2>2. CASE UNCHANGED <<roomVars, capabilityVars>>
    BY <2>2 DEF roomVars, capabilityVars
  <2> QED
    BY <2>1, <2>2 DEF Next, Tick, vars
<1> QED
  BY <1>1, InvHolds, PTL DEF Spec, RevocationIsFinal

\* Of the two members whose sockets a room of six digits holds, one was told
\* to offer and the other to answer, however many peers ask for its session,
\* leave it and come back (SessionRoom.fetch, SessionDirectory.fetch).
THEOREM RolesAreComplements == Spec => []RolesComplement
<1>1. IInv => RolesComplement
  <2> SUFFICES ASSUME IInv, NEW k \in peers, NEW l \in peers,
                      links[k].session = links[l].session, links[k].peer # links[l].peer
               PROVE  links[k].role # links[l].role
    BY DEF RolesComplement
  <2> DEFINE s == links[k].session
  <2>1. k \in Slots /\ l \in Slots /\ links[k] # NoLink /\ links[l] # NoLink
    BY DEF IInv, DirectoryInv, DirectoryTypeOK
  <2>2. links[k] \in Link
    BY <2>1 DEF IInv, DirectoryInv, DirectoryTypeOK
  <2>3. s \in 1 .. MaxSessions
    BY <2>2 DEF Link
  <2>4. /\ links[k].peer \in Registered(s) /\ links[l].peer \in Registered(s)
        /\ links[k].role = "offerer" <=> Offerer(s, links[k].peer)
        /\ links[l].role = "offerer" <=> Offerer(s, links[l].peer)
    BY <2>1 DEF IInv, DirectoryInv, Membership, Offerer
  <2>5. OneOrTwo(s)
    BY <2>3 DEF IInv, DirectoryInv, Membership
  <2> QED
    BY <2>4, <2>5 DEF OneOrTwo
<1> QED
  BY <1>1, InvHolds, PTL

\* The room's map holds what it should, whatever it was restored with.
LEMMA HeldHeard == Spec => [](IInv /\ Held /\ Heard)
<1>1. Init => IInv /\ Held /\ Heard
  BY InitHolds
<1>2. (IInv /\ Held /\ Heard) /\ [Next]_vars => (IInv /\ Held /\ Heard)'
  BY StepHolds
<1> QED
  BY <1>1, <1>2, PTL DEF Spec

\* Once no close is unreported, a sender told last of a peer has a receiver in
\* the room, and one that has a receiver there was told so, unless the map held
\* two senders as the last socket joined (announcePeerJoined, announcePeerLeft,
\* the constructor).
THEOREM SenderTold == Spec => []SenderIsTold
<1>1. IInv /\ Held /\ Heard => SenderIsTold
  <2> SUFFICES ASSUME IInv, Held, Heard,
                      \A s \in DOMAIN sockets : sockets[s].wire # "closing",
                      NEW s \in OfRole(room, "sender")
               PROVE  /\ sockets[s].told = "peer-joined" => OfRole(room, "receiver") # {}
                      /\ OfRole(room, "receiver") # {} =>
                            sockets[s].told = "peer-joined" \/ crowded
    BY DEF SenderIsTold
  <2>1. /\ s \in room /\ sockets[s].role = "sender"
        /\ room \subseteq DOMAIN sockets
        /\ \A r \in room : sockets[r] \in Socket
    BY DEF OfRole, IInv, RoomTypeOK
  <2>2. \A r \in room : sockets[r].wire = "open"
    BY <2>1 DEF Held, Socket
  <2>3. /\ ReceiverHeld <=> OfRole(room, "receiver") # {}
        /\ ReceiverHeld => ReceiverOpen
    BY <2>2 DEF ReceiverHeld, ReceiverOpen, OfRole
  <2>4. ~ ReceiverCloses
    BY DEF ReceiverCloses
  <2> QED
    BY <2>1, <2>2, <2>3, <2>4 DEF Heard
<1> QED
  BY <1>1, HeldHeard, PTL

\* The room has at most one open socket of a role and holds every open one,
\* and none is open while the session is revoked (Connect replaces, Revoke and
\* the alarm close, hibernation restores).
THEOREM RoomBounded == Spec => []RoomIsBounded
<1>1. IInv /\ Held => RoomIsBounded
  <2> SUFFICES ASSUME IInv, Held PROVE RoomIsBounded
    OBVIOUS
  <2> DEFINE open == {s \in DOMAIN sockets : sockets[s].wire = "open"}
  <2>1. open \subseteq room /\ (IsRevoked => open = {})
    BY DEF Held
  <2>2. ASSUME NEW role \in Roles
        PROVE  Cardinality(OfRole(open, role)) <= 1
    <3>1. CASE OfRole(open, role) = {}
      BY <3>1, FS_EmptySet
    <3>2. CASE OfRole(open, role) # {}
      <4>1. PICK s \in open : sockets[s].role = role
        BY <3>2 DEF OfRole
      <4>2. OfRole(open, role) = {s}
        BY <2>1, <4>1 DEF OfRole, Held
      <4>3. Cardinality({s}) = 1
        BY FS_Singleton
      <4> QED
        BY <4>2, <4>3
    <3> QED
      BY <3>1, <3>2
  <2> QED
    BY <2>1, <2>2 DEF RoomIsBounded
<1> QED
  BY <1>1, HeldHeard, PTL
=============================================================================
