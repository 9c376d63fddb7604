--------------------------- MODULE SessionEngine ---------------------------
(***************************************************************************)
(* The transfer engine as the send and receive pages see it: the snapshots *)
(* a ConnectionCoordinator may show after one another.  A session carries  *)
(* one transfer, so NONE is a snapshot without transfer identity.          *)
(***************************************************************************)
EXTENDS Naturals

Snapshot(connection, transfer) == [connection |-> connection, transfer |-> transfer]

(* connectionTransitions; CONNECTING stands for NEGOTIATING too, and       *)
(* CONNECTED for the data channel being open.  The table also allows       *)
(* DISCONNECTED to be followed by WAITING_FOR_PEER, which no step takes:   *)
(* only a socket's onopen sets it, and before it opens the session is      *)
(* SIGNALLING_CONNECTING the first time and RECONNECTING every later time, *)
(* since scheduleReconnect sets that before it connects and peer-left, the *)
(* only source of DISCONNECTED while the page stays, needs an open socket. *)
(* A reopened socket that finds no transport therefore ends in FAILED      *)
ConnectionTransitions ==
    [SIGNALLING_CONNECTING |-> {"WAITING_FOR_PEER", "RECONNECTING", "DISCONNECTED", "FAILED"},
     WAITING_FOR_PEER |-> {"CONNECTING", "DISCONNECTED", "RECONNECTING", "FAILED"},
     CONNECTING |-> {"CONNECTED", "DISCONNECTED", "RECONNECTING", "FAILED"},
     CONNECTED |-> {"CONNECTING", "DISCONNECTED", "RECONNECTING", "FAILED"},
     DISCONNECTED |-> {"CONNECTING", "RECONNECTING", "FAILED"},
     RECONNECTING |-> {"CONNECTED", "DISCONNECTED", "FAILED"},
     FAILED |-> {}]

(* The states of a transfer: RUNNING is SENDING or RECEIVING, VERIFYING    *)
(* every one between the last byte and the verdict, and a route loss can   *)
(* revive a cancelled one or put a new transfer in its place               *)
TransferTransitions ==
    [NONE |-> {},
     READY |-> {"RUNNING", "RECONNECTING", "FAILED", "CANCELLED", "NONE"},
     RUNNING |-> {"VERIFYING", "RECONNECTING", "FAILED", "CANCELLED", "NONE"},
     RECONNECTING |-> {"RUNNING", "VERIFYING", "FAILED", "CANCELLED", "NONE"},
     VERIFYING |-> {"DELIVERED", "RECONNECTING", "FAILED", "CANCELLED", "NONE"},
     DELIVERED |-> {},
     FAILED |-> {},
     CANCELLED |-> {"RECONNECTING"}]

EngineSnapshots ==
    [connection: DOMAIN ConnectionTransitions, transfer: DOMAIN TransferTransitions]

Joining == Snapshot("SIGNALLING_CONNECTING", "NONE")

Successors(e) ==
    {[e EXCEPT !.connection = c] : c \in ConnectionTransitions[e.connection]}
    \cup {[e EXCEPT !.transfer = t] : t \in TransferTransitions[e.transfer]}
=============================================================================
