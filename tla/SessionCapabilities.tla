------------------------ MODULE SessionCapabilities ------------------------
(***************************************************************************)
(* The two capabilities of a production session, from their issue by the   *)
(* application server (capabilities.server.ts) to their use by the two     *)
(* pages: to join the room, and to ask for a TURN credential, which the    *)
(* server gives once the Worker says that the session is eligible          *)
(* (turn-credentials.server.ts, /v2/relay-eligibility).                    *)
(*                                                                         *)
(* The session identifier is fresh, so a room belongs to one issue and its *)
(* capabilities end together.  Signatures are never forged: a capability   *)
(* is its role, and its expiry that of the session.  Who may have one is   *)
(* PeopleDatabase's.  The servers' clocks agree.                           *)
(***************************************************************************)
EXTENDS ProductionRoom

CONSTANTS
    CapabilityLifetime,     \* capabilityLifetimeMs, in ticks
    CredentialLifetime,     \* ttlSeconds of the TURN configuration, in ticks
    ProofWindow,            \* relayEligibilityProofWindowMs, in ticks
    MaxIssues               \* maxIssuesPerWindow

ASSUME CapabilityAssumption ==
    /\ {CapabilityLifetime, CredentialLifetime, ProofWindow, MaxIssues} \subseteq Nat \ {0}
    /\ CapabilityLifetime <= CapabilityLifetimeMaximum

VARIABLES
    session,    \* expiresAtMs of the session's two capabilities, 0 before their issue
    holders,    \* the pages that hold theirs
    relayed,    \* the pages whose newest question was answered with a TURN server
    question,   \* the request for a credential that is under way: one at a time
                \* (bound: those of the two pages share nothing but the limiter)
    ended       \* has a holder had the session revoked?

capabilityVars == <<session, holders, relayed, question, ended>>

NoQuestion == [at |-> "none"]

Question == [at: {"checking", "eligible"}, of: Roles, since: Times] \cup {NoQuestion}

CapabilityTypeOK ==
    /\ session \in {0} \cup Times
    /\ holders \subseteq Roles
    /\ relayed \subseteq holders
    /\ question \in Question
    /\ ended \in BOOLEAN

CapabilityInit ==
    /\ session = 0
    /\ holders = {}
    /\ relayed = {}
    /\ question = NoQuestion
    /\ ended = FALSE

----------------------------------------------------------------------------
(* issueSignalingSession, for a connected recipient: the sender takes its  *)
(* capability from the answer (a bound: it ends while the clock runs)      *)
IssueSession ==
    /\ session = 0
    /\ now + CapabilityLifetime <= MaxTime
    /\ session' = now + CapabilityLifetime
    /\ UNCHANGED <<holders, relayed, question, ended>>

(* The page takes its capability: the sender's refuses one that has ended, *)
(* the receiver's cannot tell and joins with a guess of its expiry         *)
TakeCapability(role) ==
    /\ session # 0
    /\ role = "sender" => session > now
    /\ holders' = holders \cup {role}
    /\ UNCHANGED <<session, relayed, question, ended>>

(* verifyIssuedSignalingCapability: the same two bounds as the Worker's *)
VerifiedByServer(expiresAt) ==
    /\ expiresAt > now
    /\ expiresAt <= now + CapabilityLifetimeMaximum

(* TurnCredentialService.allowIssue.  The route makes a service for each   *)
(* request, so that the record it finds is always NoIssue.                 *)
NoIssue == [count |-> 0, since |-> 0]

IssueAllowed(record) ==
    \/ record = NoIssue
    \/ now - record.since >= Window
    \/ record.count < MaxIssues

Failed(role) ==
    /\ question' = NoQuestion
    /\ relayed' = relayed \ {role}

(* getConfiguration, and issue as far as its request to the Worker: the    *)
(* server verifies the capability with the time it will count from         *)
AskForRelay(role) ==
    /\ role \in holders
    /\ question = NoQuestion
    /\ IF VerifiedByServer(session) /\ IssueAllowed(NoIssue)
       THEN /\ question' = [at |-> "checking", of |-> role, since |-> now]
            /\ UNCHANGED relayed
       ELSE Failed(role)
    /\ UNCHANGED <<session, holders, ended>>

(* verifyRelayEligibilityRequest: the proof is signed over the server's time *)
ProofIsFresh == now - question.since <= ProofWindow

(* /v2/relay-eligibility *)
CheckEligibility ==
    /\ question.at = "checking"
    /\ IF ProofIsFresh /\ Verified(session)
       THEN /\ RelayEligibility(session)
            /\ IF IsRevoked THEN Failed(question.of)
               ELSE /\ question' = [question EXCEPT !.at = "eligible"]
                    /\ UNCHANGED relayed
       ELSE /\ Allowed
            /\ Failed(question.of)
            /\ UNCHANGED <<now, sockets, room, revoked, alarm, crowded>>
    /\ UNCHANGED <<session, holders, ended>>

(* The limiter refuses, a request or its answer is lost, or no TURN server *)
(* is configured: FS_TURN_CREDENTIAL_UNAVAILABLE                           *)
RelayUnavailable ==
    /\ question # NoQuestion
    /\ Failed(question.of)
    /\ UNCHANGED <<session, holders, ended>>

(* The credential lasts from the time of the question; the page refuses    *)
(* one that has ended                                                      *)
GiveCredential ==
    /\ question.at = "eligible"
    /\ IF question.since + CredentialLifetime > now
       THEN /\ question' = NoQuestion
            /\ relayed' = relayed \cup {question.of}
       ELSE Failed(question.of)
    /\ UNCHANGED <<session, holders, ended>>

(* The room serves those who hold a capability *)
JoinRoom(role) ==
    /\ role \in holders
    /\ Connect(role, session)
    /\ UNCHANGED capabilityVars

RevokeSession ==
    /\ holders # {}
    /\ Revoke(session)
    /\ ended' = TRUE
    /\ UNCHANGED <<session, holders, relayed, question>>

RequestRefused ==
    /\ holders # {}
    /\ Refused(session)
    /\ UNCHANGED capabilityVars

CapabilityNext ==
    \/ IssueSession /\ UNCHANGED <<now, roomVars>>
    \/ \E role \in Roles : TakeCapability(role) /\ UNCHANGED <<now, roomVars>>
    \/ \E role \in Roles : AskForRelay(role) /\ UNCHANGED <<now, roomVars>>
    \/ CheckEligibility
    \/ RelayUnavailable /\ UNCHANGED <<now, roomVars>>
    \/ GiveCredential /\ UNCHANGED <<now, roomVars>>
    \/ \E role \in Roles : JoinRoom(role)
    \/ RevokeSession
    \/ RequestRefused
    \/ RoomNext /\ UNCHANGED capabilityVars

----------------------------------------------------------------------------
(* A revocation is final: after it the room admits nobody and the Worker   *)
(* finds nobody eligible, although the room stores the revocation no       *)
(* longer than its capability lasts and its alarm forgets it: when the one *)
(* ends the other does too, to the tick (Revoke, AlarmFires, Verified,     *)
(* issueSignalingSession).                                                 *)
RevocationIsFinal ==
    [][ended =>
        /\ Len(sockets') = Len(sockets)
        /\ question'.at = "eligible" => question.at = "eligible"]_<<now, roomVars, capabilityVars>>
=============================================================================
