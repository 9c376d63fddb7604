--------------------------- MODULE PeopleDatabase ---------------------------
(***************************************************************************)
(* The people and invitations of an account in PostgreSQL:                 *)
(* PersistentPeopleService and PersistentInvitationService                 *)
(* (apps/engine-lab/app/persistence), whose calls interleave at their SQL  *)
(* statements.                                                             *)
(*                                                                         *)
(* A people transaction is READ COMMITTED: it reads the row of its pair,   *)
(* decides, and writes by the identity of the row it read.  An invitation  *)
(* transaction is SERIALIZABLE: it decides on the snapshot of its first    *)
(* statement, and its commit fails when a row it writes has changed since; *)
(* PostgreSQL may also refuse it for a conflict that is none.              *)
(***************************************************************************)
EXTENDS Naturals, FiniteSets

CONSTANTS
    Accounts,       \* the accounts of the database
    Invitations,    \* the invitations there may ever be (bound)
    Slots,          \* calls served at a time (bound)
    MaxCalls,       \* calls of a behaviour (bound)
    PastStatuses,   \* the statuses of the pairs the database already holds
    None            \* SQL's NULL, and no row

VARIABLES
    relationships,  \* PersonRelationship: the row of every pair, or None
    invitations,    \* Invitation: the row of every invitation, or None
    expired,        \* the invitations whose expiresAt has passed
    calls,          \* what each slot is executing
    made,           \* how many calls were made
    connected,      \* for each invitation, the accounts told it connected them
    blockers        \* <<a, b>>: a was told that it blocks b, and b stays so

peopleVars == <<relationships, invitations, expired, calls, made, connected, blockers>>

Pairs == {p \in SUBSET Accounts : Cardinality(p) = 2}

NullableAccount == Accounts \cup {None}

Relationship == [id: 0 .. MaxCalls, status: {"INVITED", "CONNECTED", "BLOCKED"},
                 by: NullableAccount]

(* CONSTRAINT PersonRelationship_state_check; "by" is whichever of         *)
(* initiatedByAccountId and blockedByAccountId the status goes with        *)
StateCheck(pair, row) ==
    IF row.status = "CONNECTED" THEN row.by = None ELSE row.by \in pair

Invitation == [status: {"PENDING", "ACCEPTED", "DECLINED", "REVOKED", "EXPIRED"},
               inviter: Accounts, resolvedBy: NullableAccount,
               at: SUBSET {"ACCEPTED", "DECLINED", "REVOKED"}]

ASSUME PeopleAssumption ==
    /\ MaxCalls \in Nat
    /\ PastStatuses \subseteq {"INVITED", "CONNECTED", "BLOCKED"}
    /\ None \notin Accounts \cup Relationship \cup Invitation

PeopleOperations == {"accept", "block", "decline", "remove", "unblock"}

(* Rows are what the schema's CHECK constraints and types allow: no call   *)
(* relies on PostgreSQL to refuse what it writes to a pair                 *)
PeopleTypeOK ==
    /\ relationships \in [Pairs -> Relationship \cup {None}]
    /\ \A p \in Pairs : relationships[p] # None => StateCheck(p, relationships[p])
    /\ invitations \in [Invitations -> Invitation \cup {None}]
    /\ expired \subseteq Invitations
    /\ made \in 0 .. MaxCalls
    /\ connected \in [Invitations -> SUBSET Accounts]
    /\ blockers \subseteq Accounts \X Accounts

(* The database has a past: one pair of any status, INVITED ones included, *)
(* which no operation of this service makes, and invitations not answered  *)
PeopleInit ==
    /\ \E pair \in Pairs : \E row \in Relationship \cup {None} :
           /\ row # None => row.id = 0 /\ row.status \in PastStatuses /\ StateCheck(pair, row)
           /\ relationships = [p \in Pairs |-> IF p = pair THEN row ELSE None]
    /\ invitations \in [Invitations -> {None} \cup
           [status: {"PENDING"}, inviter: Accounts, resolvedBy: {None}, at: {{}}]]
    /\ expired = {}
    /\ calls = [s \in Slots |-> None]
    /\ made = 0
    /\ connected = [i \in Invitations |-> {}]
    /\ blockers = {}

----------------------------------------------------------------------------
Arrives(s) == calls[s] = None /\ made < MaxCalls /\ made' = made + 1

Holds(s, kinds) == calls[s] # None /\ calls[s].op \in kinds

Ends(s) == calls' = [calls EXCEPT ![s] = None]

Connects(me) == [status |-> "CONNECTED", by |-> None]

BlocksFor(me) == [status |-> "BLOCKED", by |-> me]

Is(row, status) == row # None /\ row.status = status

(* What a people call does to the row it read: a set holding the new       *)
(* contents of the row, None to delete it, or nothing to leave it          *)
Effect(op, me, row) ==
    CASE op = "accept" -> {Connects(me)}
      [] op = "block" /\ ~Is(row, "BLOCKED") -> {BlocksFor(me)}
      [] op = "decline" /\ Is(row, "INVITED") /\ row.by # me -> {None}
      [] op = "remove" /\ Is(row, "CONNECTED") -> {None}
      [] op = "unblock" /\ Is(row, "BLOCKED") /\ row.by = me -> {None}
      [] OTHER -> {}

Refuses(op, me, row) ==
    \/ op = "accept" /\ ~(Is(row, "INVITED") /\ row.by # me)
    \/ op = "block" /\ Is(row, "BLOCKED") /\ row.by # me

Unblocking(me, other) ==
    \E s \in Slots : Holds(s, {"unblock"}) /\ calls[s].me = me /\ calls[s].other = other

(* A block that succeeds binds until its account asks to unblock *)
Succeeds(op, me, other) ==
    blockers' = IF op = "block" /\ ~Unblocking(me, other)
                THEN blockers \cup {<<me, other>>} ELSE blockers

(* findUnique, and the decision on what it returns *)
PeopleReads(s, op, me, other) ==
    /\ Arrives(s)
    /\ LET row == relationships[{me, other}]
           refused == Refuses(op, me, row)
           writes == Effect(op, me, row) # {} /\ ~refused
       IN  /\ calls' = [calls EXCEPT ![s] =
                  IF writes THEN [op |-> op, me |-> me, other |-> other, row |-> row,
                                  effect |-> CHOOSE e \in Effect(op, me, row) : TRUE]
                  ELSE None]
           /\ IF op = "unblock" THEN blockers' = blockers \ {<<me, other>>}
              ELSE IF writes \/ refused THEN UNCHANGED blockers
              ELSE Succeeds(op, me, other)
    /\ UNCHANGED <<relationships, invitations, expired, connected>>

(* create, update or delete, and the commit.  A row that has gone, or a    *)
(* pair that has one already, is an error for the caller                   *)
PeopleWrites(s) ==
    /\ Holds(s, PeopleOperations)
    /\ LET c == calls[s]
           pair == {c.me, c.other}
           current == relationships[pair]
           finds == IF c.row = None THEN current = None
                    ELSE current # None /\ current.id = c.row.id
           id == IF c.row = None THEN made ELSE c.row.id
       IN  IF finds
           THEN /\ relationships' = [relationships EXCEPT ![pair] =
                      IF c.effect = None THEN None
                      ELSE [id |-> id, status |-> c.effect.status, by |-> c.effect.by]]
                /\ Succeeds(c.op, c.me, c.other)
           ELSE UNCHANGED <<relationships, blockers>>
    /\ Ends(s)
    /\ UNCHANGED <<invitations, expired, made, connected>>

PeopleCall ==
    \E s \in Slots :
        \/ \E op \in PeopleOperations, me \in Accounts :
               \E other \in Accounts \ {me} : PeopleReads(s, op, me, other)
        \/ PeopleWrites(s)

----------------------------------------------------------------------------
Pending(i) == invitations[i] # None /\ invitations[i].status = "PENDING"

(* Faulty: without the constraint *)
NoCheck(row) == TRUE

(* CONSTRAINT Invitation_resolution_check *)
ResolutionCheck(row) ==
    /\ (row.resolvedBy # None) <=> (row.status \in {"ACCEPTED", "DECLINED"})
    /\ row.at = {row.status} \ {"PENDING", "EXPIRED"}

Expires(row) == [row EXCEPT !.status = "EXPIRED"]

Resolved(row, status, by) ==
    [row EXCEPT !.status = status, !.resolvedBy = by, !.at = @ \cup {status}]

InvitationCreate(me, i) ==
    /\ \E s \in Slots : Arrives(s)
    /\ invitations[i] = None
    /\ invitations' = [invitations EXCEPT ![i] =
           [status |-> "PENDING", inviter |-> me, resolvedBy |-> None, at |-> {}]]
    /\ UNCHANGED <<relationships, expired, calls, connected, blockers>>

LifetimeEnds(i) ==
    /\ Pending(i) /\ i \notin expired
    /\ expired' = expired \cup {i}
    /\ UNCHANGED <<relationships, invitations, calls, made, connected, blockers>>

(* expireOwnedPending: one statement *)
InvitationList(me) ==
    /\ \E s \in Slots : Arrives(s)
    /\ invitations' = [i \in Invitations |->
           IF i \in expired /\ Pending(i) /\ invitations[i].inviter = me
           THEN Expires(invitations[i]) ELSE invitations[i]]
    /\ UNCHANGED <<relationships, expired, calls, connected, blockers>>

(* findUsable reads, and then expires what it read whatever it is now *)
InspectReads(s, i) ==
    /\ Arrives(s)
    /\ Pending(i) /\ i \in expired
    /\ calls' = [calls EXCEPT ![s] = [op |-> "inspect", invitation |-> i]]
    /\ UNCHANGED <<relationships, invitations, expired, connected, blockers>>

InspectWrites(s) ==
    /\ Holds(s, {"inspect"})
    /\ LET i == calls[s].invitation
           row == Expires(invitations[i])
       IN  invitations' = [invitations EXCEPT ![i] = IF ResolutionCheck(row) THEN row ELSE @]
    /\ Ends(s)
    /\ UNCHANGED <<relationships, expired, made, connected, blockers>>

InvitationOperations == {"acceptInvitation", "declineInvitation", "revokeInvitation"}

(* The time of a call is taken before its transactions *)
InvitationCalled(s, op, me, i) ==
    /\ Arrives(s)
    /\ invitations[i] # None
    /\ op = "revokeInvitation" => invitations[i].inviter = me
    /\ calls' = [calls EXCEPT ![s] =
           [op |-> op, me |-> me, invitation |-> i, late |-> i \in expired,
            attempt |-> 0, snapshot |-> None]]
    /\ UNCHANGED <<relationships, invitations, expired, connected, blockers>>

PairOf(c) == {c.me, invitations[c.invitation].inviter}

(* The first statement of a transaction takes its snapshot; a call that    *)
(* may change nothing ends with an error                                   *)
Snapshot(s) ==
    /\ Holds(s, InvitationOperations)
    /\ calls[s].snapshot = None
    /\ LET c == calls[s]
           row == invitations[c.invitation]
           mine == row.inviter = c.me
           pair == IF mine THEN None ELSE relationships[PairOf(c)]
           refused == \/ row.status # "PENDING"
                      \/ ~c.late /\ c.op # "revokeInvitation" /\ mine
                      \/ ~c.late /\ c.op = "acceptInvitation" /\ Is(pair, "BLOCKED")
       IN  calls' = [calls EXCEPT ![s] =
               IF refused THEN None
               ELSE [c EXCEPT !.snapshot = [invitation |-> row, pair |-> pair]]]
    /\ UNCHANGED <<relationships, invitations, expired, made, connected, blockers>>

RowAfter(c) ==
    LET row == c.snapshot.invitation
    IN  CASE c.late -> Expires(row)
          [] ~c.late /\ c.op = "acceptInvitation" -> Resolved(row, "ACCEPTED", c.me)
          [] ~c.late /\ c.op = "declineInvitation" -> Resolved(row, "DECLINED", c.me)
          [] ~c.late /\ c.op = "revokeInvitation" -> Resolved(row, "REVOKED", None)

Accepts(c) == ~c.late /\ c.op = "acceptInvitation"

CreatesPair(c) == Accepts(c) /\ ~Is(c.snapshot.pair, "CONNECTED")

(* Faulty: READ COMMITTED, whose update does not look at the snapshot *)
ConflictsOnPair(c) == CreatesPair(c) /\ relationships[PairOf(c)] # None

(* A row written since the snapshot, or a pair that has a row *)
Conflicts(c) ==
    \/ invitations[c.invitation] # c.snapshot.invitation
    \/ CreatesPair(c) /\ relationships[PairOf(c)] # None

InTransaction(s) == Holds(s, InvitationOperations) /\ calls[s].snapshot # None

Commits(s) ==
    /\ InTransaction(s) /\ ~Conflicts(calls[s])
    /\ LET c == calls[s]
       IN  /\ invitations' = [invitations EXCEPT ![c.invitation] = RowAfter(c)]
           /\ relationships' = IF CreatesPair(c)
                  THEN [relationships EXCEPT ![PairOf(c)] =
                            [id |-> made, status |-> "CONNECTED", by |-> None]]
                  ELSE relationships
           /\ connected' = IF Accepts(c)
                  THEN [connected EXCEPT ![c.invitation] = @ \cup {c.me}] ELSE connected
    /\ Ends(s)
    /\ UNCHANGED <<expired, made, blockers>>

(* serializable: three attempts; also when the conflict is none *)
RollsBack(s) ==
    /\ InTransaction(s)
    /\ LET c == calls[s]
       IN  calls' = [calls EXCEPT ![s] =
               IF c.attempt < 2 THEN [c EXCEPT !.attempt = @ + 1, !.snapshot = None] ELSE None]
    /\ UNCHANGED <<relationships, invitations, expired, made, connected, blockers>>

InvitationCall ==
    \/ \E i \in Invitations :
           \/ \E me \in Accounts : InvitationCreate(me, i)
           \/ LifetimeEnds(i)
           \/ \E s \in Slots :
                  \/ InspectReads(s, i)
                  \/ \E op \in InvitationOperations, me \in Accounts :
                         InvitationCalled(s, op, me, i)
    \/ \E me \in Accounts : InvitationList(me)
    \/ \E s \in Slots : InspectWrites(s) \/ Snapshot(s) \/ Commits(s) \/ RollsBack(s)

PeopleNext == PeopleCall \/ InvitationCall

PeopleSpec == PeopleInit /\ [][PeopleNext]_peopleVars

----------------------------------------------------------------------------
(* An invitation that was accepted, declined, revoked or has expired never *)
(* changes again, although inspect expires what it read without looking at *)
(* the row a second time: only the CHECK constraint stops it.              *)
ResolvedOnce ==
    [][\A i \in Invitations : invitations[i] # None /\ ~Pending(i)
           => invitations'[i] = invitations[i]]_peopleVars

(* Of all who accept one invitation at the same time, whatever is retried, *)
(* one is told it is connected, and it is the one the row names.           *)
OneAcceptance ==
    \A i \in Invitations : \A a \in connected[i] :
        connected[i] = {a} /\ invitations[i].status = "ACCEPTED"
            /\ invitations[i].resolvedBy = a

(* Two accounts one of which was told that it blocks the other are BLOCKED *)
(* until that account asks to unblock.                                     *)
BlockIsKept ==
    \A b \in blockers : Is(relationships[{b[1], b[2]}], "BLOCKED")
=============================================================================
