---------------------------- MODULE Application ----------------------------
(***************************************************************************)
(* The parts of the browser application beside the transfer engine, in one *)
(* specification: a behaviour runs one of them, as they share no state.    *)
(***************************************************************************)
EXTENDS SendSession, ReceiveSession, TransferHistory, DevelopmentPeople,
        TransferHealth

VARIABLE part       \* the part that a behaviour runs

applicationVars ==
    <<part, sendVars, receiveVars, historyVars, developmentVars, healthVars>>

Init ==
    /\ part \in {"send", "receive", "history", "people", "health"}
    /\ SendInit /\ ReceiveInit /\ HistoryInit /\ DevelopmentPeopleInit /\ HealthInit
    /\ part # "send" => ~production
    /\ part # "history" => store = "postgres"
    /\ part # "people" => /\ \A p \in Persons : pages[p].revision = 0
                          /\ \A c \in Couples : pairs[c] = Strangers

Runs(name) == part = name /\ UNCHANGED part

Next ==
    \/ /\ Runs("send") /\ SendNext
       /\ UNCHANGED <<receiveVars, historyVars, developmentVars, healthVars>>
    \/ /\ Runs("receive") /\ ReceiveNext
       /\ UNCHANGED <<sendVars, historyVars, developmentVars, healthVars>>
    \/ /\ Runs("history") /\ HistoryNext
       /\ UNCHANGED <<sendVars, receiveVars, developmentVars, healthVars>>
    \/ /\ Runs("people") /\ DevelopmentPeopleNext
       /\ UNCHANGED <<sendVars, receiveVars, historyVars, healthVars>>
    \/ /\ Runs("health") /\ HealthNext
       /\ UNCHANGED <<sendVars, receiveVars, historyVars, developmentVars>>

Spec == Init /\ [][Next]_applicationVars

FairSpec == Spec /\ HistoryFairness

TypeOK ==
    /\ SendTypeOK
    /\ ReceiveTypeOK
    /\ HistoryTypeOK
    /\ DevelopmentPeopleTypeOK
    /\ HealthTypeOK
=============================================================================
