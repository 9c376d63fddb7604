------------------------- MODULE VerifiedDelivery -------------------------
(***************************************************************************)
(* What an FSTP transfer promises, without messages, digests or routes:    *)
(* blocks become safe one by one and stay safe; the destination is         *)
(* finalized when every block is safe; the sender learns of the delivery   *)
(* after that, once and for all.                                           *)
(***************************************************************************)
CONSTANT Blocks

VARIABLES safe,      \* blocks verified and persisted at the receiver
          finalized, \* the destination has been closed
          delivered  \* the sender has been told

vars == <<safe, finalized, delivered>>

Init ==
    /\ safe = {}
    /\ finalized = FALSE
    /\ delivered = FALSE

Commit(b) ==
    /\ b \notin safe
    /\ safe' = safe \cup {b}
    /\ UNCHANGED <<finalized, delivered>>

Finalize ==
    /\ safe = Blocks
    /\ ~finalized
    /\ finalized' = TRUE
    /\ UNCHANGED <<safe, delivered>>

Acknowledge ==
    /\ finalized
    /\ ~delivered
    /\ delivered' = TRUE
    /\ UNCHANGED <<safe, finalized>>

Next ==
    \/ \E b \in Blocks : Commit(b)
    \/ Finalize
    \/ Acknowledge

Spec == Init /\ [][Next]_vars

Fairness ==
    /\ \A b \in Blocks : WF_vars(Commit(b))
    /\ WF_vars(Finalize)
    /\ WF_vars(Acknowledge)

FairSpec == Spec /\ Fairness
=============================================================================
