------------------------- MODULE DevelopmentPeople -------------------------
(***************************************************************************)
(* People in development: the controller of each person's page             *)
(* (people-controller.ts, people-state.ts), whose requests may reach the   *)
(* server and return in any order, and DevelopmentPeopleStore, which       *)
(* handles each in one synchronous step.                                   *)
(***************************************************************************)
EXTENDS Naturals, FiniteSets

CONSTANTS
    Persons,        \* developmentPeople, each with one page
    FixturePair,    \* the two that reset() connects
    MaxOperations,  \* operations of a behaviour (bound)
    MaxCodes        \* pairing codes of a behaviour (bound)

ASSUME DevelopmentPeopleAssumption ==
    /\ {MaxOperations, MaxCodes} \subseteq Nat
    /\ FixturePair \subseteq Persons

VARIABLES
    pairs,          \* relationships
    codes,          \* the active pairing code of each person, 0 when none
    issued,         \* how many codes were created
    lapsed,         \* the codes whose expiresAt has passed
    latest,         \* latestClientRevision
    pages,          \* each controller's operationRevision and what it shows
    requests,       \* the requests on their way to the server
    answers,        \* the answers on their way back
    asked,          \* operations made
    undisturbed     \* the persons whose newest operation is the last that
                    \* changed the store, and who were not reset since

developmentVars == <<pairs, codes, issued, lapsed, latest, pages, requests, answers,
                     asked, undisturbed>>

Couples == {c \in SUBSET Persons : Cardinality(c) = 2}

Strangers == [state |-> "UNCONNECTED", by |-> "nobody"]

Connected == [state |-> "CONNECTED", by |-> "nobody"]

Pair == [state: {"UNCONNECTED", "INVITED", "CONNECTED", "BLOCKED"},
         by: Persons \cup {"nobody"}]

(* snapshot(personId): who blocks you is not in your list *)
StateFor(me, pair) ==
    CASE pair.state = "BLOCKED" /\ pair.by # me -> "UNCONNECTED"
      [] pair.state = "INVITED" /\ pair.by = me -> "INVITED_OUTGOING"
      [] pair.state = "INVITED" /\ pair.by # me -> "INVITED_INCOMING"
      [] OTHER -> pair.state

View(me, all) == [other \in Persons \ {me} |-> StateFor(me, all[{me, other}])]

TargetOperations == {"ACCEPT", "DECLINE", "REMOVE", "BLOCK", "UNBLOCK"}

Request == [operation: TargetOperations \cup {"CREATE_INVITE", "REDEEM_INVITE", "RESET", "LOAD"},
            person: Persons, revision: 1 .. MaxOperations + 1, target: Persons, code: 0 .. MaxCodes]

DevelopmentPeopleTypeOK ==
    /\ pairs \in [Couples -> Pair]
    /\ codes \in [Persons -> 0 .. MaxCodes]
    /\ latest \in [Persons -> 0 .. MaxOperations + 1]
    /\ requests \subseteq Request
    /\ \A a, b \in Persons : codes[a] = codes[b] /\ codes[a] # 0 => a = b

(* The pages are opening, or have loaded *)
DevelopmentPeopleInit ==
    /\ pairs \in [Couples -> {Strangers, Connected}]
    /\ codes = [p \in Persons |-> 0]
    /\ issued = 0
    /\ lapsed = {}
    /\ latest = [p \in Persons |-> 0]
    /\ \E loaded \in {0, 1} :
           pages = [p \in Persons |-> [revision |-> loaded, shown |-> View(p, pairs),
                                      pending |-> loaded = 0]]
    /\ requests = {}
    /\ answers = {}
    /\ asked = 0
    /\ undisturbed = {}

----------------------------------------------------------------------------
(* The operations of the store: each gives the new store, and an error or not *)
Store == [pairs |-> pairs, codes |-> codes, issued |-> issued]

Ok(store) == [store |-> store, error |-> FALSE]

Error(store) == [store |-> store, error |-> TRUE]

WithPair(store, a, b, state, by) ==
    [store EXCEPT !.pairs[{a, b}] = [state |-> state, by |-> by]]

Between(store, a, b) == store.pairs[{a, b}]

Consumed(store, creator) == [store EXCEPT !.codes[creator] = 0]

WithoutLapsed(store) ==
    [store EXCEPT !.codes = [p \in Persons |-> IF @[p] \in lapsed THEN 0 ELSE @[p]]]

CreatePairingCode(store, me) ==
    IF store.codes[me] # 0 THEN Ok(store)
    ELSE Ok([store EXCEPT !.issued = @ + 1, !.codes[me] = store.issued + 1])

Creators(store, code) == {p \in Persons : store.codes[p] = code}

(* The person the code names, unless it is the one who redeems it *)
RedeemFrom(store, me, creator) ==
    LET pair == Between(store, creator, me)
        used == Consumed(store, creator)
    IN  CASE pair.state = "BLOCKED" -> Error(store)
          [] pair.state = "CONNECTED" -> Error(used)
          [] pair.state = "INVITED" /\ pair.by = creator -> Ok(used)
          [] pair.state = "INVITED" /\ pair.by = me ->
                 Ok(WithPair(Consumed(used, me), creator, me, "CONNECTED", "nobody"))
          [] OTHER -> Ok(WithPair(used, creator, me, "INVITED", creator))

RedeemPairingCode(store, me, code) ==
    IF code = 0 \/ Creators(store, code) \subseteq {me} THEN Error(store)
    ELSE RedeemFrom(store, me, CHOOSE p \in Creators(store, code) : TRUE)

(* accept, decline, remove, block, unblock *)
Relate(store, op, me, other) ==
    LET pair == Between(store, me, other)
        parted == Ok(WithPair(store, me, other, "UNCONNECTED", "nobody"))
    IN  CASE op = "ACCEPT" /\ pair.state = "INVITED" /\ pair.by # me ->
                 Ok(WithPair(store, me, other, "CONNECTED", "nobody"))
          [] /\ op = "ACCEPT" /\ pair.state # "CONNECTED"
             /\ ~(pair.state = "INVITED" /\ pair.by # me) ->
                 Error(store)
          [] op = "DECLINE" /\ pair.state = "INVITED" /\ pair.by # me -> parted
          [] op = "REMOVE" /\ pair.state = "CONNECTED" -> parted
          [] op = "BLOCK" /\ pair.state # "BLOCKED" ->
                 Ok(WithPair(Consumed(store, me), me, other, "BLOCKED", me))
          [] op = "UNBLOCK" /\ pair.state = "BLOCKED" /\ pair.by = me -> parted
          [] OTHER -> Ok(store)

Result(r) ==
    CASE r.operation = "CREATE_INVITE" -> CreatePairingCode(WithoutLapsed(Store), r.person)
      [] r.operation = "REDEEM_INVITE" -> RedeemPairingCode(WithoutLapsed(Store), r.person, r.code)
      [] r.operation \in TargetOperations -> Relate(Store, r.operation, r.person, r.target)

(* Faulty: whatever comes is executed *)
AcceptsEveryRevision(r) == TRUE

AcceptsClientRevision(r) == r.revision > latest[r.person]

----------------------------------------------------------------------------
(* mutate, load, resetDevelopmentStore.  A page loads once, when it opens  *)
Asks(r) ==
    /\ asked < MaxOperations
    /\ r.revision = pages[r.person].revision + 1
    /\ r.operation = "LOAD" <=> r.revision = 1
    /\ r.operation \in TargetOperations <=> r.target # r.person
    /\ r.operation # "REDEEM_INVITE" => r.code = 0
    /\ r.code <= issued
    /\ asked' = asked + 1
    /\ pages' = [pages EXCEPT ![r.person].revision = r.revision, ![r.person].pending = TRUE]
    /\ requests' = requests \cup {r}
    /\ UNCHANGED <<pairs, codes, issued, lapsed, latest, answers, undisturbed>>

Answers(r, stale, error) ==
    answers' = answers \cup {[person |-> r.person, revision |-> r.revision, stale |-> stale,
        error |-> error, shown |-> View(r.person, pairs')]}

IsNewest(r) == r.revision = pages[r.person].revision

(* Whoever else changed what a person sees has disturbed that person *)
Disturbs(r) ==
    undisturbed' = IF IsNewest(r)
        THEN {p \in undisturbed : pairs' = pairs} \cup {r.person}
        ELSE {p \in undisturbed : pairs' = pairs \/ p = r.person}

Arrives(r) == r \in requests /\ requests' = requests \ {r}

ServerReads(r) ==
    /\ Arrives(r)
    /\ r.operation = "LOAD"
    /\ UNCHANGED <<pairs, codes, issued, lapsed, latest, pages, asked>>
    /\ Disturbs(r)
    /\ Answers(r, FALSE, FALSE)

ServerResets(r) ==
    /\ Arrives(r)
    /\ r.operation = "RESET"
    /\ pairs' = [c \in Couples |-> IF c = FixturePair THEN Connected ELSE Strangers]
    /\ codes' = [p \in Persons |-> 0]
    /\ latest' = [p \in Persons |-> 0]
    /\ undisturbed' = {}
    /\ UNCHANGED <<issued, lapsed, pages, asked>>
    /\ Answers(r, FALSE, FALSE)

ServerIgnores(r) ==
    /\ Arrives(r)
    /\ r.operation \notin {"LOAD", "RESET"} /\ ~AcceptsClientRevision(r)
    /\ UNCHANGED <<pairs, codes, issued, lapsed, latest, pages, asked, undisturbed>>
    /\ Answers(r, TRUE, FALSE)

ServerExecutes(r) ==
    /\ Arrives(r)
    /\ r.operation \notin {"LOAD", "RESET"} /\ AcceptsClientRevision(r)
    /\ issued < MaxCodes \/ r.operation # "CREATE_INVITE"
    /\ latest' = [latest EXCEPT ![r.person] = r.revision]
    /\ pairs' = Result(r).store.pairs
    /\ codes' = Result(r).store.codes
    /\ issued' = Result(r).store.issued
    /\ UNCHANGED <<lapsed, pages, asked>>
    /\ Disturbs(r)
    /\ Answers(r, FALSE, Result(r).error)

CodeLapses(code) ==
    /\ code \in 1 .. issued \ lapsed
    /\ lapsed' = lapsed \cup {code}
    /\ UNCHANGED <<pairs, codes, issued, latest, pages, requests, answers, asked, undisturbed>>

(* SNAPSHOT_RESOLVED, OPERATION_FAILED: of the newest operation only *)
PageReceives(a) ==
    /\ a \in answers
    /\ answers' = answers \ {a}
    /\ pages' = IF a.revision # pages[a.person].revision \/ a.stale \/ a.error THEN pages
                ELSE [pages EXCEPT ![a.person] =
                          [@ EXCEPT !.shown = a.shown, !.pending = FALSE]]
    /\ UNCHANGED <<pairs, codes, issued, lapsed, latest, requests, asked, undisturbed>>

(* The request never arrives: fail() shows an error beside what was shown *)
RequestFails(r) ==
    /\ Arrives(r)
    /\ UNCHANGED <<pairs, codes, issued, lapsed, latest, pages, answers, asked, undisturbed>>

DevelopmentPeopleNext ==
    \/ \E r \in Request : Asks(r)
    \/ \E r \in requests :
           \/ ServerReads(r) \/ ServerResets(r) \/ ServerIgnores(r) \/ ServerExecutes(r)
           \/ RequestFails(r)
    \/ \E code \in 1 .. MaxCodes : CodeLapses(code)
    \/ \E a \in answers : PageReceives(a)

----------------------------------------------------------------------------
(* A page whose newest operation was answered shows the store as it is,    *)
(* unless somebody else changed or reset the store since: an operation the *)
(* network delayed behind a newer one does not change it behind the page.  *)
NewestAnswerShown ==
    \A p \in undisturbed : ~pages[p].pending => pages[p].shown = View(p, pairs)
=============================================================================
