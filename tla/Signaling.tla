----------------------------- MODULE Signaling -----------------------------
(***************************************************************************)
(* The Worker of apps/signaling: the /v2 routes end in a ProductionRoom,   *)
(* for the holders of a capability, the others in DevelopmentSessions.     *)
(* The two share nothing but the clock, so a behaviour exercises the ones  *)
(* its deployment serves: the /v2 routes need the P12 secret, and a        *)
(* deployment that has it is not asked for development sessions.           *)
(***************************************************************************)
EXTENDS SessionCapabilities, DevelopmentSessions

VARIABLE config     \* resolveWorkerEnvironment(env) is not null

vars == <<now, config, roomVars, capabilityVars, directoryVars>>

TypeOK ==
    /\ now \in 1 .. MaxTime
    /\ config \in BOOLEAN
    /\ RoomTypeOK
    /\ CapabilityTypeOK
    /\ DirectoryTypeOK

Init ==
    /\ ClockInit
    /\ config \in BOOLEAN
    /\ RoomInit
    /\ CapabilityInit
    /\ DirectoryInit

Tick ==
    /\ RequestsAreShort
    /\ ClockTicks
    /\ UNCHANGED <<config, roomVars, capabilityVars, directoryVars>>

Next ==
    \/ config /\ CapabilityNext /\ UNCHANGED <<config, directoryVars>>
    \/ ~config /\ DirectoryNext /\ UNCHANGED <<config, roomVars, capabilityVars>>
    \/ Tick

Spec == Init /\ [][Next]_vars

(* Time passes, close events arrive and alarms fire; nobody need connect *)
FairSpec == Spec /\ WF_now(Tick) /\ RoomFairness
=============================================================================
