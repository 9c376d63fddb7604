------------------------ MODULE PeopleDatabaseProofs ------------------------
(***************************************************************************)
(* Proofs about PeopleDatabase, for any number of accounts, invitations,   *)
(* concurrent calls and calls in all, and any past of the database.        *)
(*                                                                         *)
(* OneAcceptance and ResolvedOnce hold of the rows because of what the     *)
(* calls under way remember of them:                                       *)
(*   - RowsInv: every row satisfies its CHECK constraint, and whoever was  *)
(*     told that an invitation connected them is the one its row names;    *)
(*   - CallsInv: a transaction decided on a snapshot in which the          *)
(*     invitation was pending, so one whose commit meets no conflict       *)
(*     resolves a row that nobody has resolved.                            *)
(* The pairs need no conflict to be well formed: a write by the identity   *)
(* of the row keeps its types whatever the row has become (PairsInv).      *)
(***************************************************************************)
EXTENDS PeopleDatabase, FiniteSetTheorems, TLAPS

PeopleCallRecord ==
    [op: PeopleOperations, me: Accounts, other: Accounts,
     row: Relationship \cup {None},
     effect: [status: {"CONNECTED", "BLOCKED"}, by: NullableAccount] \cup {None}]

InvitationCallRecord ==
    [op: InvitationOperations, me: Accounts, invitation: Invitations, late: BOOLEAN,
     attempt: Nat,
     snapshot: [invitation: Invitation, pair: Relationship \cup {None}] \cup {None}]

PairsInv ==
    /\ relationships \in [Pairs -> Relationship \cup {None}]
    /\ \A p \in Pairs : relationships[p] # None => StateCheck(p, relationships[p])
    /\ made \in 0 .. MaxCalls
    /\ blockers \subseteq Accounts \X Accounts
    /\ expired \subseteq Invitations

RowsInv ==
    /\ invitations \in [Invitations -> Invitation \cup {None}]
    /\ \A i \in Invitations : invitations[i] # None => ResolutionCheck(invitations[i])
    /\ connected \in [Invitations -> SUBSET Accounts]
    /\ \A i \in Invitations : \A a \in connected[i] :
           /\ invitations[i] # None
           /\ invitations[i].status = "ACCEPTED" /\ invitations[i].resolvedBy = a

\* A people call writes to a pair of two accounts what its operation makes of it.
Writes(c) ==
    /\ c \in PeopleCallRecord
    /\ c.me # c.other
    /\ c.effect \in {None, Connects(c.me), BlocksFor(c.me)}

\* An invitation call is about a row that is there; it read it as pending.
Resolves(c) ==
    /\ c \in InvitationCallRecord
    /\ invitations[c.invitation] # None
    /\ c.snapshot # None =>
           /\ c.snapshot.invitation.status = "PENDING"
           /\ ResolutionCheck(c.snapshot.invitation)
           /\ Accepts(c) => c.snapshot.invitation.inviter # c.me

CallsInv ==
    /\ calls = [s \in Slots |-> calls[s]]
    /\ \A s \in Slots :
           /\ Holds(s, PeopleOperations) => Writes(calls[s])
           /\ Holds(s, InvitationOperations) => Resolves(calls[s])
           /\ Holds(s, {"inspect"}) =>
                  calls[s].invitation \in Invitations /\ invitations[calls[s].invitation] # None

IInv == PairsInv /\ RowsInv /\ CallsInv

-----------------------------------------------------------------------------
\* Two accounts make a pair.
LEMMA TwoAreAPair ==
    ASSUME NEW a \in Accounts, NEW b \in Accounts, a # b
    PROVE  {a, b} \in Pairs
<1>1. IsFiniteSet({b}) /\ Cardinality({b}) = 1
  BY FS_Singleton
<1>2. {a, b} = {b} \cup {a} /\ a \notin {b}
  OBVIOUS
<1>3. Cardinality({b} \cup {a}) = Cardinality({b}) + 1
  BY <1>1, <1>2, FS_AddElement
<1> QED
  BY <1>1, <1>2, <1>3 DEF Pairs

\* The CHECK constraint stops inspect from expiring what has been resolved.
LEMMA ResolvedIsNotExpired ==
    ASSUME NEW row \in Invitation, ResolutionCheck(row), row.status # "PENDING",
           ResolutionCheck(Expires(row))
    PROVE  Expires(row) = row
<1>1. Expires(row) \in Invitation /\ Expires(row).status = "EXPIRED"
      /\ Expires(row).resolvedBy = row.resolvedBy /\ Expires(row).at = row.at
  BY DEF Expires, Invitation
<1>2. row.resolvedBy = None /\ row.at = {}
  BY <1>1 DEF ResolutionCheck
<1>3. row.status \notin {"ACCEPTED", "DECLINED"}
  BY <1>2 DEF ResolutionCheck
<1>4. row.status # "REVOKED"
  <2> SUFFICES ASSUME row.status = "REVOKED" PROVE FALSE
    OBVIOUS
  <2>1. row.at = {"REVOKED"} \ {"PENDING", "EXPIRED"}
    BY DEF ResolutionCheck
  <2> QED
    BY <1>2, <2>1
<1>5. row.status = "EXPIRED"
  BY <1>3, <1>4 DEF Invitation
<1> QED
  BY <1>5 DEF Expires, Invitation

\* A row that is pending may expire.
LEMMA PendingExpires ==
    ASSUME NEW row \in Invitation, ResolutionCheck(row), row.status = "PENDING"
    PROVE  /\ Expires(row) \in Invitation /\ ResolutionCheck(Expires(row))
           /\ Expires(row).status = "EXPIRED" /\ Expires(row).inviter = row.inviter
<1>1. /\ Expires(row) \in Invitation /\ Expires(row).status = "EXPIRED"
      /\ Expires(row).resolvedBy = row.resolvedBy /\ Expires(row).at = row.at
      /\ Expires(row).inviter = row.inviter
  BY DEF Expires, Invitation
<1>2. row.resolvedBy = None /\ row.at = {}
  BY DEF ResolutionCheck
<1> QED
  BY <1>1, <1>2 DEF ResolutionCheck

\* What a commit writes: a resolution by the one who asked for it.
LEMMA CommitsResolve ==
    ASSUME NEW c, Resolves(c), c.snapshot # None
    PROVE  /\ RowAfter(c) \in Invitation /\ ResolutionCheck(RowAfter(c))
           /\ RowAfter(c).status # "PENDING"
           /\ Accepts(c) => /\ RowAfter(c).status = "ACCEPTED"
                            /\ RowAfter(c).resolvedBy = c.me
<1> DEFINE row == c.snapshot.invitation
<1>1. /\ row \in Invitation /\ row.status = "PENDING" /\ ResolutionCheck(row)
      /\ c.me \in Accounts /\ c.op \in InvitationOperations /\ c.late \in BOOLEAN
  BY DEF Resolves, InvitationCallRecord
<1>2. row.resolvedBy = None /\ row.at = {}
  BY <1>1 DEF ResolutionCheck
<1>3. c.me # None
  BY <1>1, PeopleAssumption
<1>4. CASE c.late
  <2>1. RowAfter(c) = Expires(row) /\ ~ Accepts(c)
    BY <1>4 DEF RowAfter, Accepts
  <2> QED
    BY <1>1, <2>1, PendingExpires
<1>5. ASSUME NEW status \in {"ACCEPTED", "DECLINED", "REVOKED"}, NEW by \in NullableAccount,
             (by # None) <=> status \in {"ACCEPTED", "DECLINED"}
      PROVE  /\ Resolved(row, status, by) \in Invitation
             /\ ResolutionCheck(Resolved(row, status, by))
             /\ Resolved(row, status, by).status = status
             /\ Resolved(row, status, by).resolvedBy = by
  <2> HIDE DEF row
  <2>1. /\ Resolved(row, status, by) \in Invitation
        /\ Resolved(row, status, by).status = status
        /\ Resolved(row, status, by).resolvedBy = by
        /\ Resolved(row, status, by).at = {status}
    BY <1>1, <1>2 DEF Resolved, Invitation
  <2>2. {status} \ {"PENDING", "EXPIRED"} = {status}
    OBVIOUS
  <2> QED
    BY <1>5, <2>1, <2>2 DEF ResolutionCheck
<1>6. CASE ~ c.late /\ c.op = "acceptInvitation"
  <2>1. RowAfter(c) = Resolved(row, "ACCEPTED", c.me)
    BY <1>6 DEF RowAfter
  <2>2. c.me \in NullableAccount
    BY <1>1 DEF NullableAccount
  <2> HIDE DEF row
  <2> QED
    BY <1>3, <1>5, <2>1, <2>2
<1>7. CASE ~ c.late /\ c.op = "declineInvitation"
  <2>1. RowAfter(c) = Resolved(row, "DECLINED", c.me) /\ ~ Accepts(c)
    BY <1>7 DEF RowAfter, Accepts
  <2>2. c.me \in NullableAccount
    BY <1>1 DEF NullableAccount
  <2> HIDE DEF row
  <2> QED
    BY <1>3, <1>5, <2>1, <2>2
<1>8. CASE ~ c.late /\ c.op = "revokeInvitation"
  <2>1. RowAfter(c) = Resolved(row, "REVOKED", None) /\ ~ Accepts(c)
    BY <1>8 DEF RowAfter, Accepts
  <2>2. None \in NullableAccount
    BY DEF NullableAccount
  <2> HIDE DEF row
  <2> QED
    BY <1>5, <2>1, <2>2
<1> QED
  BY <1>1, <1>4, <1>6, <1>7, <1>8 DEF InvitationOperations

-----------------------------------------------------------------------------
(* What a step leaves of the invariant.                                      *)

\* A call changes, and no invitation's row disappears.
LEMMA CallsKept ==
    ASSUME CallsInv, NEW s \in Slots, NEW c, calls' = [calls EXCEPT ![s] = c],
           \A i \in Invitations : invitations[i] # None => invitations'[i] # None,
           c # None /\ c.op \in PeopleOperations => Writes(c),
           c # None /\ c.op \in InvitationOperations => Resolves(c),
           c # None /\ c.op = "inspect" =>
               c.invitation \in Invitations /\ invitations'[c.invitation] # None
    PROVE  CallsInv'
<1>1. calls' = [t \in Slots |-> calls'[t]] /\ calls'[s] = c
      /\ \A t \in Slots \ {s} : calls'[t] = calls[t]
  BY DEF CallsInv
<1>2. ASSUME NEW t \in Slots
      PROVE  /\ Holds(t, PeopleOperations)' => Writes(calls[t])'
             /\ Holds(t, InvitationOperations)' => Resolves(calls[t])'
             /\ Holds(t, {"inspect"})' =>
                    calls'[t].invitation \in Invitations /\ invitations'[calls'[t].invitation] # None
  <2>1. CASE t = s
    <3>1. Holds(t, PeopleOperations)' => Writes(calls[t])'
      BY <1>1, <2>1 DEF Holds, Writes, Connects, BlocksFor
    <3>2. Holds(t, InvitationOperations)' => Resolves(calls[t])'
      BY <1>1, <2>1 DEF Holds, Resolves, Accepts, InvitationCallRecord
    <3> QED
      BY <1>1, <2>1, <3>1, <3>2 DEF Holds
  <2>2. CASE t # s
    <3>1. calls'[t] = calls[t]
      BY <1>1, <2>2
    <3>2. Holds(t, PeopleOperations) => Writes(calls[t])
      BY DEF CallsInv
    <3>3. Holds(t, InvitationOperations) => Resolves(calls[t])
      BY DEF CallsInv
    <3>4. Holds(t, {"inspect"}) =>
              calls[t].invitation \in Invitations /\ invitations[calls[t].invitation] # None
      BY DEF CallsInv
    <3>5. Holds(t, PeopleOperations)' => Writes(calls[t])'
      BY <3>1, <3>2 DEF Holds, Writes, Connects, BlocksFor
    <3>6. Holds(t, InvitationOperations)' => Resolves(calls[t])'
      BY <3>1, <3>3 DEF Holds, Resolves, Accepts, InvitationCallRecord
    <3> QED
      BY <3>1, <3>4, <3>5, <3>6 DEF Holds
  <2> QED
    BY <2>1, <2>2
<1> QED
  BY <1>1, <1>2 DEF CallsInv

\* Nor when no call changes.
LEMMA CallsStay ==
    ASSUME CallsInv, UNCHANGED calls,
           \A i \in Invitations : invitations[i] # None => invitations'[i] # None
    PROVE  CallsInv'
<1>1. ASSUME NEW t \in Slots
      PROVE  /\ Holds(t, PeopleOperations)' => Writes(calls[t])'
             /\ Holds(t, InvitationOperations)' => Resolves(calls[t])'
             /\ Holds(t, {"inspect"})' =>
                    calls'[t].invitation \in Invitations /\ invitations'[calls'[t].invitation] # None
  <2>1. /\ Holds(t, PeopleOperations) => Writes(calls[t])
        /\ Holds(t, InvitationOperations) => Resolves(calls[t])
        /\ Holds(t, {"inspect"}) =>
               calls[t].invitation \in Invitations /\ invitations[calls[t].invitation] # None
    BY DEF CallsInv
  <2>2. Holds(t, PeopleOperations)' => Writes(calls[t])'
    BY <2>1 DEF Holds, Writes, Connects, BlocksFor
  <2>3. Holds(t, InvitationOperations)' => Resolves(calls[t])'
    BY <2>1 DEF Holds, Resolves, Accepts, InvitationCallRecord
  <2> QED
    BY <2>1, <2>2, <2>3 DEF Holds
<1> QED
  BY <1>1 DEF CallsInv

\* The rows of invitations and who was told of them stay.
LEMMA RowsStay ==
    ASSUME RowsInv, UNCHANGED <<invitations, connected>>
    PROVE  RowsInv'
BY DEF RowsInv, ResolutionCheck

\* The rows of pairs stay, while calls are made and invitations' lifetimes end.
LEMMA PairsStay ==
    ASSUME PairsInv, UNCHANGED <<relationships, blockers>>,
           made' \in 0 .. MaxCalls, expired' \subseteq Invitations
    PROVE  PairsInv'
BY DEF PairsInv, StateCheck

-----------------------------------------------------------------------------
LEMMA InitHolds == PeopleInit => IInv
<1> SUFFICES ASSUME PeopleInit PROVE IInv
  OBVIOUS
<1>1. PairsInv
  <2>1. PICK pair \in Pairs, row \in Relationship \cup {None} :
            /\ row # None => StateCheck(pair, row)
            /\ relationships = [p \in Pairs |-> IF p = pair THEN row ELSE None]
    BY DEF PeopleInit
  <2> QED
    BY <2>1, PeopleAssumption DEF PairsInv, PeopleInit
<1>2. RowsInv
  <2>1. invitations \in [Invitations -> {None} \cup
            [status: {"PENDING"}, inviter: Accounts, resolvedBy: {None}, at: {{}}]]
        /\ connected = [i \in Invitations |-> {}]
    BY DEF PeopleInit
  <2>2. ASSUME NEW row \in [status: {"PENDING"}, inviter: Accounts, resolvedBy: {None}, at: {{}}]
        PROVE  row \in Invitation /\ ResolutionCheck(row)
    BY DEF Invitation, ResolutionCheck, NullableAccount
  <2>3. invitations \in [Invitations -> Invitation \cup {None}]
    BY <2>1, <2>2
  <2>4. \A i \in Invitations : invitations[i] # None => ResolutionCheck(invitations[i])
    BY <2>1, <2>2
  <2> QED
    BY <2>1, <2>3, <2>4 DEF RowsInv
<1>3. CallsInv
  BY DEF CallsInv, Holds, PeopleInit
<1> QED
  BY <1>1, <1>2, <1>3 DEF IInv

\* A people call reads its row and decides.
LEMMA PeopleReadsHolds ==
    ASSUME IInv, NEW s \in Slots, NEW op \in PeopleOperations, NEW me \in Accounts,
           NEW other \in Accounts \ {me}, PeopleReads(s, op, me, other)
    PROVE  IInv'
<1> DEFINE row == relationships[{me, other}]
           effects == Effect(op, me, row)
           call == [op |-> op, me |-> me, other |-> other, row |-> row,
                    effect |-> CHOOSE e \in effects : TRUE]
<1>1. /\ made' = made + 1 /\ made < MaxCalls
      /\ calls' = [calls EXCEPT ![s] = IF effects # {} /\ ~ Refuses(op, me, row)
                                       THEN call ELSE None]
      /\ UNCHANGED <<relationships, invitations, expired, connected>>
  BY DEF PeopleReads, Arrives
<1>2. PairsInv'
  <2>1. made' \in 0 .. MaxCalls
    BY <1>1, PeopleAssumption DEF IInv, PairsInv
  <2>2. blockers' \subseteq Accounts \X Accounts
    BY DEF PeopleReads, Succeeds, IInv, PairsInv
  <2> QED
    BY <1>1, <2>1, <2>2 DEF IInv, PairsInv, StateCheck
<1>3. RowsInv'
  BY <1>1, RowsStay DEF IInv
<1>4. effects # {} => Writes(call)
  <2> SUFFICES ASSUME effects # {} PROVE Writes(call)
    OBVIOUS
  <2>1. row \in Relationship \cup {None}
    BY TwoAreAPair DEF IInv, PairsInv
  <2>2. effects \subseteq {None, Connects(me), BlocksFor(me)}
    BY DEF Effect, PeopleOperations
  <2> HIDE DEF effects, row
  <2>3. (CHOOSE e \in effects : TRUE) \in {None, Connects(me), BlocksFor(me)}
    BY <2>2
  <2>4. Connects(me) \in [status: {"CONNECTED", "BLOCKED"}, by: NullableAccount]
        /\ BlocksFor(me) \in [status: {"CONNECTED", "BLOCKED"}, by: NullableAccount]
    BY DEF Connects, BlocksFor, NullableAccount
  <2> QED
    BY <2>1, <2>3, <2>4 DEF Writes, PeopleCallRecord
<1>5. CallsInv'
  <2> DEFINE c == IF effects # {} /\ ~ Refuses(op, me, row) THEN call ELSE None
  <2>1. c # None => Writes(c) /\ c.op = op
    BY <1>4
  <2>2. op \notin InvitationOperations /\ op # "inspect"
    BY DEF PeopleOperations, InvitationOperations
  <2>3. calls' = [calls EXCEPT ![s] = c] /\ UNCHANGED invitations
    BY <1>1
  <2> HIDE DEF c
  <2> QED
    BY <2>1, <2>2, <2>3, CallsKept DEF IInv
<1> QED
  BY <1>2, <1>3, <1>5 DEF IInv

\* It writes by the identity of the row it read, whatever that has become.
LEMMA PeopleWritesHolds ==
    ASSUME IInv, NEW s \in Slots, PeopleWrites(s)
    PROVE  IInv'
<1> DEFINE c == calls[s]
           pair == {c.me, c.other}
           id == IF c.row = None THEN made ELSE c.row.id
           new == IF c.effect = None THEN None
                  ELSE [id |-> id, status |-> c.effect.status, by |-> c.effect.by]
<1>1. Writes(c) /\ c # None
  BY DEF PeopleWrites, IInv, CallsInv, Holds
<1>2. pair \in Pairs /\ c.me \in Accounts /\ c.other \in Accounts
  BY <1>1, TwoAreAPair DEF Writes, PeopleCallRecord
<1>3. /\ \/ relationships' = [relationships EXCEPT ![pair] = new] /\ Succeeds(c.op, c.me, c.other)
         \/ UNCHANGED <<relationships, blockers>>
      /\ calls' = [calls EXCEPT ![s] = None]
      /\ UNCHANGED <<invitations, expired, made, connected>>
  BY DEF PeopleWrites, Ends
<1>4. id \in 0 .. MaxCalls
  BY <1>1, PeopleAssumption DEF IInv, PairsInv, Writes, PeopleCallRecord, Relationship
<1>5. new \in Relationship \cup {None} /\ (new # None => StateCheck(pair, new))
  <2>1. CASE c.effect = None
    BY <2>1
  <2>2. CASE c.effect # None
    <3>1. c.effect = Connects(c.me) \/ c.effect = BlocksFor(c.me)
      BY <1>1, <2>2 DEF Writes
    <3> HIDE DEF id
    <3> QED
      BY <1>2, <1>4, <2>2, <3>1 DEF Connects, BlocksFor, StateCheck, Relationship, NullableAccount
  <2> QED
    BY <2>1, <2>2
<1> HIDE DEF c, pair, id, new
<1>6. PairsInv'
  <2>1. relationships' \in [Pairs -> Relationship \cup {None}]
        /\ \A p \in Pairs : relationships'[p] # None => StateCheck(p, relationships'[p])
    BY <1>2, <1>3, <1>5 DEF IInv, PairsInv
  <2>2. blockers' \subseteq Accounts \X Accounts
    BY <1>2, <1>3 DEF IInv, PairsInv, Succeeds
  <2> QED
    BY <1>3, <2>1, <2>2 DEF IInv, PairsInv
<1>7. CallsInv'
  BY <1>3, CallsKept DEF IInv
<1> QED
  BY <1>3, <1>6, <1>7, RowsStay DEF IInv

-----------------------------------------------------------------------------
\* One invitation gets a row, and those it names are told.
LEMMA RowWritten ==
    ASSUME RowsInv, NEW i \in Invitations, NEW row \in Invitation, ResolutionCheck(row),
           invitations' = [invitations EXCEPT ![i] = row],
           NEW told \in SUBSET Accounts, connected' = [connected EXCEPT ![i] = told],
           \A a \in told : row.status = "ACCEPTED" /\ row.resolvedBy = a
    PROVE  RowsInv' /\ \A j \in Invitations : invitations[j] # None => invitations'[j] # None
<1>1. row # None
  BY PeopleAssumption
<1>2. invitations' \in [Invitations -> Invitation \cup {None}]
      /\ connected' \in [Invitations -> SUBSET Accounts]
  BY DEF RowsInv
<1>3. ASSUME NEW j \in Invitations
      PROVE  /\ invitations'[j] # None => ResolutionCheck(invitations'[j])
             /\ \A a \in connected'[j] :
                    /\ invitations'[j] # None
                    /\ invitations'[j].status = "ACCEPTED" /\ invitations'[j].resolvedBy = a
             /\ invitations[j] # None => invitations'[j] # None
  <2>1. CASE j = i
    BY <1>1, <2>1 DEF RowsInv
  <2>2. CASE j # i
    <3>1. invitations'[j] = invitations[j] /\ connected'[j] = connected[j]
      BY <2>2 DEF RowsInv
    <3> QED
      BY <3>1 DEF RowsInv
  <2> QED
    BY <2>1, <2>2
<1> QED
  BY <1>2, <1>3 DEF RowsInv, ResolutionCheck

\* Nobody was told that a row which is not there, or pending, connects them.
LEMMA NobodyTold ==
    ASSUME RowsInv, NEW i \in Invitations,
           invitations[i] = None \/ invitations[i].status # "ACCEPTED"
    PROVE  connected[i] = {} /\ connected = [connected EXCEPT ![i] = {}]
BY DEF RowsInv

LEMMA InvitationCreateHolds ==
    ASSUME IInv, NEW me \in Accounts, NEW i \in Invitations, InvitationCreate(me, i)
    PROVE  IInv'
<1> DEFINE row == [status |-> "PENDING", inviter |-> me, resolvedBy |-> None, at |-> {}]
<1>1. row \in Invitation /\ ResolutionCheck(row)
  BY DEF Invitation, ResolutionCheck, NullableAccount
<1>2. /\ invitations' = [invitations EXCEPT ![i] = row] /\ invitations[i] = None
      /\ UNCHANGED <<relationships, expired, calls, connected, blockers>>
      /\ made' = made + 1 /\ made < MaxCalls
  BY DEF InvitationCreate, Arrives
<1> HIDE DEF row
<1>3. RowsInv' /\ \A j \in Invitations : invitations[j] # None => invitations'[j] # None
  <2>1. connected' = [connected EXCEPT ![i] = {}]
    BY <1>2, NobodyTold DEF IInv
  <2> QED
    BY <1>1, <1>2, <2>1, RowWritten DEF IInv
<1>4. PairsInv'
  <2>1. made' \in 0 .. MaxCalls
    BY <1>2, PeopleAssumption DEF IInv, PairsInv
  <2> QED
    BY <1>2, <2>1, PairsStay DEF IInv, PairsInv
<1> QED
  BY <1>2, <1>3, <1>4, CallsStay DEF IInv

LEMMA LifetimeEndsHolds ==
    ASSUME IInv, NEW i \in Invitations, LifetimeEnds(i)
    PROVE  IInv'
<1>1. /\ expired' \subseteq Invitations
      /\ UNCHANGED <<relationships, invitations, calls, made, connected, blockers>>
  BY DEF LifetimeEnds, IInv, PairsInv
<1>2. PairsInv'
  BY <1>1, PairsStay DEF IInv, PairsInv
<1> QED
  BY <1>1, <1>2, RowsStay, CallsStay DEF IInv

\* Only rows that are pending expire in a list.
LEMMA InvitationListHolds ==
    ASSUME IInv, NEW me \in Accounts, InvitationList(me)
    PROVE  IInv'
<1>1. /\ made' = made + 1 /\ made < MaxCalls
      /\ UNCHANGED <<relationships, expired, calls, connected, blockers>>
      /\ invitations' = [i \in Invitations |->
             IF i \in expired /\ Pending(i) /\ invitations[i].inviter = me
             THEN Expires(invitations[i]) ELSE invitations[i]]
  BY DEF InvitationList, Arrives
<1>2. ASSUME NEW i \in Invitations
      PROVE  \/ invitations'[i] = invitations[i]
             \/ /\ invitations'[i] \in Invitation /\ ResolutionCheck(invitations'[i])
                /\ connected[i] = {} /\ invitations'[i] # None
  <2>1. CASE ~ (i \in expired /\ Pending(i) /\ invitations[i].inviter = me)
    BY <1>1, <2>1
  <2>2. CASE i \in expired /\ Pending(i) /\ invitations[i].inviter = me
    <3>1. invitations'[i] = Expires(invitations[i])
      BY <1>1, <2>2
    <3>2. /\ invitations[i] \in Invitation /\ ResolutionCheck(invitations[i])
          /\ invitations[i].status = "PENDING"
      BY <2>2 DEF IInv, RowsInv, Pending
    <3>3. connected[i] = {}
      BY <3>2, NobodyTold DEF IInv
    <3> QED
      BY <3>1, <3>2, <3>3, PendingExpires, PeopleAssumption
  <2> QED
    BY <2>1, <2>2
<1>3. RowsInv' /\ \A i \in Invitations : invitations[i] # None => invitations'[i] # None
  <2>1. invitations' \in [Invitations -> Invitation \cup {None}]
    <3>1. \A i \in Invitations : invitations'[i] \in Invitation \cup {None}
      BY <1>2 DEF IInv, RowsInv
    <3> QED
      BY <1>1, <3>1
  <2>2. ASSUME NEW i \in Invitations
        PROVE  /\ invitations'[i] # None => ResolutionCheck(invitations'[i])
               /\ \A a \in connected'[i] :
                      /\ invitations'[i] # None
                      /\ invitations'[i].status = "ACCEPTED" /\ invitations'[i].resolvedBy = a
               /\ invitations[i] # None => invitations'[i] # None
    BY <1>1, <1>2 DEF IInv, RowsInv
  <2> QED
    BY <1>1, <2>1, <2>2 DEF IInv, RowsInv, ResolutionCheck
<1>4. PairsInv'
  <2>1. made' \in 0 .. MaxCalls
    BY <1>1, PeopleAssumption DEF IInv, PairsInv
  <2> QED
    BY <1>1, <2>1, PairsStay DEF IInv, PairsInv
<1> QED
  BY <1>1, <1>3, <1>4, CallsStay DEF IInv

\* inspect reads a row that has to expire;
LEMMA InspectReadsHolds ==
    ASSUME IInv, NEW s \in Slots, NEW i \in Invitations, InspectReads(s, i)
    PROVE  IInv'
<1> DEFINE c == [op |-> "inspect", invitation |-> i]
<1>1. /\ made' = made + 1 /\ made < MaxCalls /\ invitations[i] # None
      /\ calls' = [calls EXCEPT ![s] = c]
      /\ UNCHANGED <<relationships, invitations, expired, connected, blockers>>
  BY DEF InspectReads, Arrives, Pending
<1>2. c.op = "inspect" /\ c.invitation = i
  OBVIOUS
<1> HIDE DEF c
<1>3. CallsInv'
  BY <1>1, <1>2, CallsKept DEF IInv, PeopleOperations, InvitationOperations
<1>4. PairsInv'
  <2>1. made' \in 0 .. MaxCalls
    BY <1>1, PeopleAssumption DEF IInv, PairsInv
  <2> QED
    BY <1>1, <2>1, PairsStay DEF IInv, PairsInv
<1> QED
  BY <1>1, <1>3, <1>4, RowsStay DEF IInv

\* it expires what it read if the constraint lets it, so a resolved row stays.
LEMMA InspectWritesKeeps ==
    ASSUME IInv, NEW s \in Slots, InspectWrites(s)
    PROVE  /\ RowsInv'
           /\ \A i \in Invitations : invitations[i] # None =>
                  invitations'[i] # None /\ (Pending(i) \/ invitations'[i] = invitations[i])
<1> DEFINE i == calls[s].invitation
           row == Expires(invitations[i])
<1>1. i \in Invitations /\ invitations[i] # None
  BY DEF InspectWrites, IInv, CallsInv
<1>2. /\ invitations' = [invitations EXCEPT ![i] = IF ResolutionCheck(row) THEN row
                                                   ELSE invitations[i]]
      /\ UNCHANGED connected
  BY DEF InspectWrites
<1>3. invitations[i] \in Invitation /\ ResolutionCheck(invitations[i])
  BY <1>1 DEF IInv, RowsInv
<1>4. CASE Pending(i)
  <2>1. row \in Invitation /\ ResolutionCheck(row) /\ invitations[i].status = "PENDING"
    BY <1>3, <1>4, PendingExpires DEF Pending
  <2>2. connected' = [connected EXCEPT ![i] = {}]
    BY <1>1, <1>2, <2>1, NobodyTold DEF IInv
  <2>3. invitations' = [invitations EXCEPT ![i] = row]
    BY <1>2, <2>1
  <2>4. RowsInv' /\ \A j \in Invitations : invitations[j] # None => invitations'[j] # None
    <3> HIDE DEF i, row
    <3> QED
      BY <1>1, <2>1, <2>2, <2>3, RowWritten DEF IInv
  <2>5. \A j \in Invitations : j # i => invitations'[j] = invitations[j]
    BY <2>3 DEF IInv, RowsInv
  <2> QED
    BY <1>4, <2>4, <2>5
<1>5. CASE ~ Pending(i)
  <2>1. invitations[i].status # "PENDING"
    BY <1>1, <1>5 DEF Pending
  <2>2. ResolutionCheck(row) => row = invitations[i]
    BY <1>3, <2>1, ResolvedIsNotExpired
  <2>3. UNCHANGED <<invitations, connected>>
    BY <1>1, <1>2, <2>2 DEF IInv, RowsInv
  <2> QED
    BY <2>3, RowsStay DEF IInv
<1> QED
  BY <1>4, <1>5

LEMMA InspectWritesHolds ==
    ASSUME IInv, NEW s \in Slots, InspectWrites(s)
    PROVE  IInv'
<1>1. /\ calls' = [calls EXCEPT ![s] = None]
      /\ UNCHANGED <<relationships, expired, made, connected, blockers>>
  BY DEF InspectWrites, Ends
<1>2. RowsInv' /\ \A i \in Invitations : invitations[i] # None => invitations'[i] # None
  BY InspectWritesKeeps
<1>3. CallsInv'
  BY <1>1, <1>2, CallsKept DEF IInv
<1>4. PairsInv'
  BY <1>1, PairsStay DEF IInv, PairsInv
<1> QED
  BY <1>2, <1>3, <1>4 DEF IInv

-----------------------------------------------------------------------------
LEMMA InvitationCalledHolds ==
    ASSUME IInv, NEW s \in Slots, NEW op \in InvitationOperations, NEW me \in Accounts,
           NEW i \in Invitations, InvitationCalled(s, op, me, i)
    PROVE  IInv'
<1> DEFINE c == [op |-> op, me |-> me, invitation |-> i, late |-> i \in expired,
                 attempt |-> 0, snapshot |-> None]
<1>1. /\ made' = made + 1 /\ made < MaxCalls /\ invitations[i] # None
      /\ calls' = [calls EXCEPT ![s] = c]
      /\ UNCHANGED <<relationships, invitations, expired, connected, blockers>>
  BY DEF InvitationCalled, Arrives
<1>2. c.op \notin PeopleOperations /\ c.op # "inspect"
  BY DEF InvitationOperations, PeopleOperations
<1>3. Resolves(c)
  <2>1. c \in InvitationCallRecord /\ c.snapshot = None /\ c.invitation = i
    BY DEF InvitationCallRecord
  <2> HIDE DEF c
  <2> QED
    BY <1>1, <2>1 DEF Resolves
<1> HIDE DEF c
<1>4. CallsInv'
  BY <1>1, <1>2, <1>3, CallsKept DEF IInv
<1>5. PairsInv'
  <2>1. made' \in 0 .. MaxCalls
    BY <1>1, PeopleAssumption DEF IInv, PairsInv
  <2> QED
    BY <1>1, <2>1, PairsStay DEF IInv, PairsInv
<1> QED
  BY <1>1, <1>4, <1>5, RowsStay DEF IInv

\* A transaction goes on only with a row that it read as pending.
LEMMA SnapshotHolds ==
    ASSUME IInv, NEW s \in Slots, Snapshot(s)
    PROVE  IInv'
<1> DEFINE c == calls[s]
           row == invitations[c.invitation]
           pair == IF row.inviter = c.me THEN None ELSE relationships[PairOf(c)]
           next == [c EXCEPT !.snapshot = [invitation |-> row, pair |-> pair]]
           refused == \/ row.status # "PENDING"
                      \/ ~c.late /\ c.op # "revokeInvitation" /\ row.inviter = c.me
                      \/ ~c.late /\ c.op = "acceptInvitation" /\ Is(pair, "BLOCKED")
<1>1. /\ calls' = [calls EXCEPT ![s] = IF refused THEN None ELSE next]
      /\ UNCHANGED <<relationships, invitations, expired, made, connected, blockers>>
      /\ c # None /\ c.op \in InvitationOperations
  BY DEF Snapshot, Holds
<1>2. Resolves(c)
  BY DEF Snapshot, IInv, CallsInv
<1>3. row \in Invitation /\ ResolutionCheck(row) /\ c.me \in Accounts
  BY <1>2 DEF IInv, RowsInv, Resolves, InvitationCallRecord
<1>4. pair \in Relationship \cup {None}
  <2>1. row.inviter \in Accounts
    BY <1>3 DEF Invitation
  <2> QED
    BY <1>3, <2>1, TwoAreAPair DEF PairOf, IInv, PairsInv
<1>5. ~ refused => Resolves(next) /\ next.op = c.op
  <2> SUFFICES ASSUME ~ refused PROVE Resolves(next) /\ next.op = c.op
    OBVIOUS
  <2>1. row.status = "PENDING" /\ (Accepts(c) => row.inviter # c.me)
    BY DEF Accepts
  <2>2. c \in InvitationCallRecord /\ row # None
    BY <1>2 DEF Resolves
  <2> DEFINE snapshot == [invitation |-> row, pair |-> pair]
  <2>3. snapshot \in [invitation: Invitation, pair: Relationship \cup {None}]
        /\ snapshot.invitation = row
    <3> HIDE DEF pair, row
    <3> QED
      BY <1>3, <1>4
  <2>4. next = [c EXCEPT !.snapshot = snapshot]
    OBVIOUS
  <2> HIDE DEF snapshot, next
  <2>5. /\ next \in InvitationCallRecord /\ next.snapshot = snapshot /\ next.op = c.op
        /\ next.invitation = c.invitation /\ next.me = c.me /\ next.late = c.late
    BY <2>2, <2>3, <2>4 DEF InvitationCallRecord
  <2> QED
    BY <1>3, <2>1, <2>2, <2>3, <2>5 DEF Resolves, Accepts
<1>6. CallsInv'
  <2> DEFINE call == IF refused THEN None ELSE next
  <2>1. /\ call # None => call = next /\ ~ refused
        /\ calls' = [calls EXCEPT ![s] = call]
    BY <1>1
  <2>2. c.op \notin PeopleOperations /\ c.op # "inspect"
    BY <1>1 DEF InvitationOperations, PeopleOperations
  <2>3. call # None => Resolves(call) /\ call.op = c.op
    BY <1>5, <2>1
  <2> HIDE DEF call, c, next, refused
  <2> QED
    BY <1>1, <2>1, <2>2, <2>3, CallsKept DEF IInv
<1>7. PairsInv'
  BY <1>1, PairsStay DEF IInv, PairsInv
<1> QED
  BY <1>1, <1>6, <1>7, RowsStay DEF IInv

\* A commit resolves a row that is as the transaction read it: pending.
LEMMA CommitsKeeps ==
    ASSUME IInv, NEW s \in Slots, Commits(s)
    PROVE  /\ RowsInv'
           /\ \A i \in Invitations : invitations[i] # None =>
                  invitations'[i] # None /\ (Pending(i) \/ invitations'[i] = invitations[i])
<1> DEFINE c == calls[s]
           i == c.invitation
           told == IF Accepts(c) THEN {c.me} ELSE {}
<1>1. Resolves(c) /\ c.snapshot # None
  BY DEF Commits, InTransaction, IInv, CallsInv
<1>2. /\ ~ Conflicts(c)
      /\ invitations' = [invitations EXCEPT ![i] = RowAfter(c)]
      /\ connected' = IF Accepts(c) THEN [connected EXCEPT ![i] = @ \cup {c.me}] ELSE connected
  BY DEF Commits
<1>3. i \in Invitations /\ invitations[i] # None /\ c.me \in Accounts
  BY <1>1 DEF Resolves, InvitationCallRecord
<1>4. invitations[i] = c.snapshot.invitation /\ invitations[i].status = "PENDING"
  BY <1>1, <1>2 DEF Conflicts, Resolves
<1>5. connected[i] = {} /\ connected = [connected EXCEPT ![i] = {}]
  BY <1>3, <1>4, NobodyTold DEF IInv
<1>6. connected' = [connected EXCEPT ![i] = told]
  BY <1>2, <1>3, <1>5 DEF IInv, RowsInv
<1>7. /\ RowAfter(c) \in Invitation /\ ResolutionCheck(RowAfter(c))
      /\ \A a \in told : RowAfter(c).status = "ACCEPTED" /\ RowAfter(c).resolvedBy = a
  BY <1>1, CommitsResolve
<1>8. told \in SUBSET Accounts
  BY <1>3
<1> HIDE DEF told, c, i
<1>9. RowsInv' /\ \A j \in Invitations : invitations[j] # None => invitations'[j] # None
  BY <1>2, <1>3, <1>6, <1>7, <1>8, RowWritten DEF IInv
<1>10. Pending(i) /\ \A j \in Invitations : j # i => invitations'[j] = invitations[j]
  BY <1>2, <1>3, <1>4 DEF IInv, RowsInv, Pending
<1> QED
  BY <1>9, <1>10

LEMMA CommitsHolds ==
    ASSUME IInv, NEW s \in Slots, Commits(s)
    PROVE  IInv'
<1> DEFINE c == calls[s]
           connection == [id |-> made, status |-> "CONNECTED", by |-> None]
<1>1. Resolves(c) /\ c.snapshot # None
  BY DEF Commits, InTransaction, IInv, CallsInv
<1>2. /\ ~ Conflicts(c)
      /\ relationships' = IF CreatesPair(c)
                          THEN [relationships EXCEPT ![PairOf(c)] = connection]
                          ELSE relationships
      /\ calls' = [calls EXCEPT ![s] = None]
      /\ UNCHANGED <<expired, made, blockers>>
  BY DEF Commits, Ends
<1>3. RowsInv' /\ \A i \in Invitations : invitations[i] # None => invitations'[i] # None
  BY CommitsKeeps
<1>4. CallsInv'
  BY <1>2, <1>3, CallsKept DEF IInv
<1>5. CreatesPair(c) => PairOf(c) \in Pairs
  <2> SUFFICES ASSUME Accepts(c) PROVE PairOf(c) \in Pairs
    BY DEF CreatesPair
  <2>1. invitations[c.invitation] = c.snapshot.invitation
    BY <1>2 DEF Conflicts
  <2>2. c.snapshot.invitation.inviter # c.me
    BY <1>1 DEF Resolves
  <2>3. c.me \in Accounts /\ invitations[c.invitation] \in Invitation
    BY <1>1 DEF Resolves, InvitationCallRecord, IInv, RowsInv
  <2>4. invitations[c.invitation].inviter \in Accounts
    BY <2>3 DEF Invitation
  <2> QED
    BY <2>1, <2>2, <2>3, <2>4, TwoAreAPair DEF PairOf
<1>6. connection \in Relationship /\ \A p \in Pairs : StateCheck(p, connection)
  BY DEF IInv, PairsInv, Relationship, NullableAccount, StateCheck
<1>7. PairsInv'
  <2> HIDE DEF connection, c
  <2>1. relationships' \in [Pairs -> Relationship \cup {None}]
        /\ \A p \in Pairs : relationships'[p] # None => StateCheck(p, relationships'[p])
    BY <1>2, <1>5, <1>6 DEF IInv, PairsInv
  <2> QED
    BY <1>2, <2>1 DEF IInv, PairsInv
<1> QED
  BY <1>3, <1>4, <1>7 DEF IInv

\* A transaction that fails is tried again from its snapshot, or ends.
LEMMA RollsBackHolds ==
    ASSUME IInv, NEW s \in Slots, RollsBack(s)
    PROVE  IInv'
<1> DEFINE c == calls[s]
           again == [c EXCEPT !.attempt = @ + 1, !.snapshot = None]
           call == IF c.attempt < 2 THEN again ELSE None
<1>1. /\ c # None /\ c.op \in InvitationOperations
      /\ UNCHANGED <<relationships, invitations, expired, made, connected, blockers>>
  BY DEF RollsBack, InTransaction, Holds
<1>2. Resolves(c)
  BY DEF RollsBack, InTransaction, IInv, CallsInv
<1>3. calls' = [calls EXCEPT ![s] = call]
  BY DEF RollsBack, IInv, CallsInv
<1>4. Resolves(again) /\ again.op = c.op
  <2>1. c \in InvitationCallRecord /\ invitations[c.invitation] # None
    BY <1>2 DEF Resolves
  <2>2. /\ again \in InvitationCallRecord /\ again.snapshot = None /\ again.op = c.op
        /\ again.invitation = c.invitation
    <3> DEFINE counted == [c EXCEPT !.attempt = @ + 1]
    <3> HIDE DEF c
    <3>1. counted \in InvitationCallRecord /\ counted.op = c.op /\ counted.invitation = c.invitation
      BY <2>1 DEF InvitationCallRecord
    <3>2. again = [counted EXCEPT !.snapshot = None]
      OBVIOUS
    <3> HIDE DEF counted, again
    <3> QED
      BY <3>1, <3>2 DEF InvitationCallRecord
  <2> QED
    BY <2>1, <2>2 DEF Resolves
<1>5. CallsInv'
  <2>1. call # None => Resolves(call) /\ call.op = c.op
    BY <1>4
  <2>2. c.op \notin PeopleOperations /\ c.op # "inspect"
    BY <1>1 DEF InvitationOperations, PeopleOperations
  <2> HIDE DEF call, c
  <2> QED
    BY <1>1, <1>3, <2>1, <2>2, CallsKept DEF IInv
<1>6. PairsInv'
  BY <1>1, PairsStay DEF IInv, PairsInv
<1> QED
  BY <1>1, <1>5, <1>6, RowsStay DEF IInv

-----------------------------------------------------------------------------
LEMMA StepHolds == IInv /\ [PeopleNext]_peopleVars => IInv'
<1> SUFFICES ASSUME IInv, [PeopleNext]_peopleVars PROVE IInv'
  OBVIOUS
<1>1. CASE PeopleCall
  BY <1>1, PeopleReadsHolds, PeopleWritesHolds DEF PeopleCall
<1>2. CASE InvitationCall
  <2>1. ASSUME NEW i \in Invitations, NEW me \in Accounts, InvitationCreate(me, i)
        PROVE  IInv'
    BY <2>1, InvitationCreateHolds
  <2>2. ASSUME NEW i \in Invitations, LifetimeEnds(i) PROVE IInv'
    BY <2>2, LifetimeEndsHolds
  <2>3. ASSUME NEW i \in Invitations, NEW s \in Slots, InspectReads(s, i) PROVE IInv'
    BY <2>3, InspectReadsHolds
  <2>4. ASSUME NEW i \in Invitations, NEW s \in Slots, NEW op \in InvitationOperations,
               NEW me \in Accounts, InvitationCalled(s, op, me, i)
        PROVE  IInv'
    BY <2>4, InvitationCalledHolds
  <2>5. ASSUME NEW me \in Accounts, InvitationList(me) PROVE IInv'
    BY <2>5, InvitationListHolds
  <2>6. ASSUME NEW s \in Slots, InspectWrites(s) \/ Snapshot(s) \/ Commits(s) \/ RollsBack(s)
        PROVE  IInv'
    BY <2>6, InspectWritesHolds, SnapshotHolds, CommitsHolds, RollsBackHolds
  <2> QED
    BY <1>2, <2>1, <2>2, <2>3, <2>4, <2>5, <2>6 DEF InvitationCall
<1>3. CASE UNCHANGED peopleVars
  <2>1. UNCHANGED <<relationships, invitations, expired, calls, made, connected, blockers>>
    BY <1>3 DEF peopleVars
  <2>2. PairsInv'
    BY <2>1, PairsStay DEF IInv, PairsInv
  <2> QED
    BY <2>1, <2>2, RowsStay, CallsStay DEF IInv
<1> QED
  BY <1>1, <1>2, <1>3 DEF PeopleNext

(* The inductive invariant holds of every behaviour of the database.       *)
THEOREM InvHolds == PeopleSpec => []IInv
<1>1. PeopleInit => IInv
  BY InitHolds
<1>2. IInv /\ [PeopleNext]_peopleVars => IInv'
  BY StepHolds
<1> QED
  BY <1>1, <1>2, PTL DEF PeopleSpec

(* Every row of a pair has the types and satisfies the CHECK constraint of *)
(* the migration without PostgreSQL refusing a write, although a write     *)
(* goes by the identity of a row that may have changed since it was read.  *)
THEOREM TypeCorrect == PeopleSpec => []PeopleTypeOK
<1>1. IInv => PeopleTypeOK
  BY DEF IInv, PairsInv, RowsInv, PeopleTypeOK
<1> QED
  BY <1>1, InvHolds, PTL

(* One account at most is told that an invitation connected it, the one    *)
(* the row names, however many accept at once and whatever is retried.     *)
THEOREM AcceptedOnce == PeopleSpec => []OneAcceptance
<1>1. IInv => OneAcceptance
  BY DEF IInv, RowsInv, OneAcceptance
<1> QED
  BY <1>1, InvHolds, PTL

(* The row of an invitation that was accepted, declined, revoked or has    *)
(* expired never changes again, inspect's unguarded write included.        *)
THEOREM ResolvedForGood == PeopleSpec => ResolvedOnce
<1> DEFINE Same == \A i \in Invitations : invitations[i] # None /\ ~ Pending(i)
                       => invitations'[i] = invitations[i]
<1>1. IInv /\ [PeopleNext]_peopleVars => [Same]_peopleVars
  <2> SUFFICES ASSUME IInv, PeopleNext PROVE Same
    OBVIOUS
  <2>1. CASE PeopleCall
    <3>1. ASSUME NEW s \in Slots, PeopleWrites(s) PROVE UNCHANGED invitations
      BY <3>1 DEF PeopleWrites
    <3>2. ASSUME NEW s \in Slots, NEW op, NEW me, NEW other, PeopleReads(s, op, me, other)
          PROVE  UNCHANGED invitations
      BY <3>2 DEF PeopleReads
    <3> QED
      BY <2>1, <3>1, <3>2 DEF PeopleCall
  <2>2. ASSUME NEW j \in Invitations, NEW me \in Accounts, InvitationCreate(me, j)
        PROVE  Same
    BY <2>2 DEF InvitationCreate, IInv, RowsInv
  <2>3. ASSUME NEW me \in Accounts, InvitationList(me)
        PROVE  Same
    BY <2>3 DEF InvitationList
  <2>4. ASSUME NEW s \in Slots, InspectWrites(s) \/ Commits(s)
        PROVE  Same
    BY <2>4, InspectWritesKeeps, CommitsKeeps
  <2>5. ASSUME NEW s \in Slots, Snapshot(s) \/ RollsBack(s) PROVE UNCHANGED invitations
    <3>1. Snapshot(s) => UNCHANGED invitations
      BY DEF Snapshot
    <3>2. RollsBack(s) => UNCHANGED invitations
      BY DEF RollsBack
    <3> QED
      BY <2>5, <3>1, <3>2
  <2>6. ASSUME NEW j \in Invitations,
               \/ LifetimeEnds(j)
               \/ \E s \in Slots : \/ InspectReads(s, j)
                                  \/ \E op \in InvitationOperations, me \in Accounts :
                                         InvitationCalled(s, op, me, j)
        PROVE  UNCHANGED invitations
    BY <2>6 DEF LifetimeEnds, InspectReads, InvitationCalled
  <2>7. CASE InvitationCall
    BY <2>2, <2>3, <2>4, <2>5, <2>6, <2>7 DEF InvitationCall
  <2> QED
    BY <2>1, <2>7 DEF PeopleNext
<1>2. [][Same]_peopleVars => ResolvedOnce
  BY PTL DEF ResolvedOnce
<1> QED
  BY <1>1, <1>2, InvHolds, PTL DEF PeopleSpec
=============================================================================
