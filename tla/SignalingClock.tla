--------------------------- MODULE SignalingClock ---------------------------
(***************************************************************************)
(* Date.now() as the Durable Objects and the Worker of apps/signaling read *)
(* it: a number of ticks.  An input gate of the Durable Object runtime     *)
(* delivers no event to an object that waits for its storage, so a handler *)
(* that awaits nothing else is one step.                                   *)
(***************************************************************************)
EXTENDS Naturals, Sequences, FiniteSets

CONSTANT MaxTime                    \* the clock stops there (bound)

ASSUME ClockAssumption == MaxTime \in Nat \ {0}

VARIABLE now

(* Now is never 0: the code tests stored times for being absent with "!"   *)
ClockInit == now = 1

ClockTicks == now < MaxTime /\ now' = now + 1
=============================================================================
