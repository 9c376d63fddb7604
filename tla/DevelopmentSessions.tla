------------------------ MODULE DevelopmentSessions ------------------------
(***************************************************************************)
(* SessionDirectory and SessionRoom (apps/signaling/src/index.ts): the     *)
(* sessions reached with a six-digit code, and their two-member rooms.     *)
(* The "session-member:" records, which only the issue of TURN credentials *)
(* reads, are left out.  A session is its position in "sessions"; a socket *)
(* is a slot of "links", free again once it closed.                        *)
(***************************************************************************)
EXTENDS SignalingClock

CONSTANTS
    Codes, Peers,       \* six-digit codes and peer identities (model values)
    SessionLifetime,    \* sessionLifetimeMs, in ticks
    MaxSessions,        \* sessions created in a behaviour (bound)
    MaxRequests,        \* requests under way at a time (bound)
    MaxLinks            \* sockets that are not yet closed, at a time (bound)

ASSUME DirectoryAssumption ==
    {SessionLifetime, MaxSessions, MaxRequests, MaxLinks} \subseteq Nat \ {0}

VARIABLES
    sessions,   \* SessionDirectory storage: a record for each session
    requests,   \* /session requests between two Durable Object calls
    members,    \* SessionRoom storage: "member:" records of each session
    links,      \* the WebSockets the rooms accepted
    peers       \* SessionRoom.peers of all rooms: the slots they hold

directoryVars == <<sessions, requests, members, links, peers>>

LinkRoles == {"offerer", "answerer"}

NoMember == [role |-> "offerer", expiresAt |-> 0]

Session == [code: Codes, expiresAt: 1 .. MaxTime + SessionLifetime]

Link == [session: 1 .. MaxSessions, peer: Peers, role: LinkRoles,
         wire: {"open", "closing"}, told: {"nothing", "peer-joined", "peer-left"}]

NoLink == [wire |-> "closed"]

Slots == 1 .. MaxLinks

Request == [session: 1 .. MaxSessions, peer: Peers, at: {"register", "room"}]

DirectoryTypeOK ==
    /\ sessions \in Seq(Session)
    /\ requests \subseteq Request
    /\ members \in [1 .. MaxSessions ->
                       [Peers -> [role: LinkRoles, expiresAt: 0 .. MaxTime + SessionLifetime]]]
    /\ links \in [Slots -> Link \cup {NoLink}]
    /\ peers \subseteq {l \in Slots : links[l] # NoLink}

DirectoryInit ==
    /\ sessions = <<>>
    /\ requests = {}
    /\ members = [s \in 1 .. MaxSessions |-> [p \in Peers |-> NoMember]]
    /\ links = [l \in Slots |-> NoLink]
    /\ peers = {}

----------------------------------------------------------------------------
Live(s) == sessions[s].expiresAt > now

(* The session that storage.get(code) returns: the last put *)
Found(s) == Live(s) /\ \A t \in DOMAIN sessions : t > s => sessions[t].code # sessions[s].code

Of(held, s) == {l \in held : links[l].session = s}

(* /create: ten draws, of which the first that no live session has is used *)
Create(code) ==
    /\ Len(sessions) < MaxSessions
    /\ \A s \in DOMAIN sessions : sessions[s].code = code => ~Live(s)
    /\ sessions' = Append(sessions, [code |-> code, expiresAt |-> now + SessionLifetime])
    /\ UNCHANGED <<now, requests, members, links, peers>>

(* GET /session: the directory's lookup, then its registration, then the room *)
Lookup(s, p) ==
    /\ Found(s)
    /\ Cardinality(requests) < MaxRequests
    /\ requests' = requests \cup {[session |-> s, peer |-> p, at |-> "register"]}
    /\ UNCHANGED <<now, sessions, members, links, peers>>

RegisterMember(r) ==
    /\ r.at = "register"
    /\ requests' = (requests \ {r}) \cup
           IF Live(r.session) THEN {[r EXCEPT !.at = "room"]} ELSE {}
    /\ UNCHANGED <<now, sessions, members, links, peers>>

(* SessionRoom.fetch: the member this peer is, or becomes *)
ActiveMembers(s) == {p \in Peers : members[s][p].expiresAt > now}

(* Faulty: the role is given by the sockets, not by the members *)
MemberForSockets(r) ==
    IF r.peer \in ActiveMembers(r.session) THEN members[r.session][r.peer]
    ELSE [role |-> IF Of(peers, r.session) = {} THEN "offerer" ELSE "answerer",
          expiresAt |-> now + SessionLifetime]

MemberFor(r) ==
    IF r.peer \in ActiveMembers(r.session) THEN members[r.session][r.peer]
    ELSE [role |-> IF ActiveMembers(r.session) = {} THEN "offerer" ELSE "answerer",
          expiresAt |-> now + SessionLifetime]

IsFull(r) ==
    LET held == Of(peers, r.session)
    IN \/ Cardinality(held) >= 2 /\ \A l \in held : links[l].peer # r.peer
       \/ r.peer \notin ActiveMembers(r.session) /\ Cardinality(ActiveMembers(r.session)) >= 2

Refuse(r) ==
    /\ r.at = "room" /\ IsFull(r)
    /\ requests' = requests \ {r}
    /\ UNCHANGED <<now, sessions, members, links, peers>>

(* broadcast: a send to a socket that has closed may throw, which drops it *)
Broadcast(all, held, what) ==
    [l \in Slots |->
        IF l \in held /\ all[l].wire = "open" THEN [all[l] EXCEPT !.told = what] ELSE all[l]]

Reached(all, held) ==
    {held \ lost : lost \in SUBSET {l \in held : all[l].wire # "open"}}

Join(r) ==
    /\ r.at = "room" /\ ~IsFull(r)
    /\ \E free \in Slots : links[free] = NoLink
    /\ requests' = requests \ {r}
    /\ members' = [members EXCEPT ![r.session][r.peer] = MemberFor(r)]
    /\ LET slot == CHOOSE l \in Slots : links[l] = NoLink
           link == [session |-> r.session, peer |-> r.peer, role |-> MemberFor(r).role,
                    wire |-> "open", told |-> "nothing"]
           all == [links EXCEPT ![slot] = link]
           held == Of(peers, r.session) \cup {slot}
           others == peers \ held
       IN IF Cardinality(held) = 2
          THEN /\ links' = Broadcast(all, held, "peer-joined")
               /\ \E reached \in Reached(all, held) : peers' = others \cup reached
          ELSE /\ links' = all
               /\ peers' = others \cup held
    /\ UNCHANGED <<now, sessions>>

(* The client closes; the room's listener hears of it with LinkClosed, *)
(* after an error event if the connection broke                       *)
LinkEnds(l) ==
    /\ links[l].wire = "open"
    /\ links' = [links EXCEPT ![l].wire = "closing", ![l].told = "nothing"]
    /\ peers' \in {peers, peers \ {l}}
    /\ UNCHANGED <<now, sessions, requests, members>>

(* The close listener: peer-left to whoever the room holds *)
LinkClosed(l) ==
    /\ links[l].wire = "closing"
    /\ LET all == [links EXCEPT ![l] = NoLink]
           held == Of(peers \ {l}, links[l].session)
       IN /\ links' = Broadcast(all, held, "peer-left")
          /\ \E reached \in Reached(all, held) : peers' = ((peers \ {l}) \ held) \cup reached
    /\ UNCHANGED <<now, sessions, requests, members>>

(* A room restarts: its map and its connections are lost, its storage is not *)
RoomRestarts(s) ==
    /\ Of(peers, s) # {}
    /\ peers' = peers \ Of(peers, s)
    /\ links' = [l \in Slots |->
           IF links[l] # NoLink /\ links[l].session = s THEN NoLink ELSE links[l]]
    /\ UNCHANGED <<now, sessions, requests, members>>

DirectoryNext ==
    \/ \E code \in Codes : Create(code)
    \/ \E s \in DOMAIN sessions, p \in Peers : Lookup(s, p)
    \/ \E r \in requests : RegisterMember(r)
    \/ \E r \in requests : Refuse(r)
    \/ \E r \in requests : Join(r)
    \/ \E l \in Slots : LinkEnds(l)
    \/ \E l \in Slots : LinkClosed(l)
    \/ \E s \in 1 .. MaxSessions : RoomRestarts(s)

(* A request takes far less than a tick, the session's lifetime being some *)
(* of them: the clock waits for the ones under way                         *)
RequestsAreShort == requests = {}

----------------------------------------------------------------------------
(* Of two members whose sockets a room holds, one was told to offer and    *)
(* one to answer, although a member's role outlives its sockets and is     *)
(* given by the number of members that have not expired: no session is     *)
(* found for long enough for one of its members to expire.                 *)
RolesComplement ==
    \A k, l \in peers :
        links[k].session = links[l].session /\ links[k].peer # links[l].peer
            => links[k].role # links[l].role

(* Once every close has been reported, two members whose sockets a room    *)
(* holds have both been told "peer-joined".  The close of a socket that    *)
(* its own peer has replaced breaks it.                                    *)
BothAreTold ==
    (\A l \in Slots : links[l].wire # "closing") =>
        \A k, l \in peers :
            links[k].session = links[l].session /\ links[k].peer # links[l].peer
                => links[k].told = "peer-joined"
=============================================================================
