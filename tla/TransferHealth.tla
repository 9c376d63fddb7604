--------------------------- MODULE TransferHealth ---------------------------
(***************************************************************************)
(* What the page shows of how well a transfer runs: the TransferHealth-    *)
(* Analyzer of packages/transfer-health, fed by every snapshot of the      *)
(* coordinator (observeTransferHealth), and the SpeedProof of a delivery.  *)
(*                                                                         *)
(* Time is counted in sampling intervals, and every time stamp of the code *)
(* is here an age that stops growing when it makes no difference any more. *)
(* Of the payload it matters whether a diagnosis has the least it needs,   *)
(* and when it moved.  What the rates and queue levels of a sample speak   *)
(* for is an input: a limit, or none.                                      *)
(***************************************************************************)
EXTENDS RouteDiagnostics

CONSTANTS
    Transfers,          \* the transfers a coordinator carries in turn
    WarmUp,             \* warmupMs
    StallThreshold,     \* stallThresholdMs
    RollingWindow,      \* rollingWindowMs
    Hysteresis,         \* hysteresisSamples
    LocalLimits         \* the limits a diagnosis tells apart, besides the relay

ASSUME HealthAssumption ==
    /\ WarmUp \in Nat
    /\ {StallThreshold, RollingWindow, Hysteresis} \subseteq Nat \ {0}
    /\ LocalLimits \cap {"RELAY", "NONE_DETECTED", "RECOVERING", "INSUFFICIENT_DATA"} = {}

VARIABLES
    transfer,   \* what the coordinator shows of its transfer and its route
    analyzer,   \* the fields of the TransferHealthAnalyzer
    shown,      \* the health of the last snapshot
    proof,      \* the speedProof of the last snapshot
    agreement   \* the last diagnosis, and how many in a row it was (for AgreedBefore)

healthVars == <<transfer, analyzer, shown, proof, agreement>>

NoTransfer == "none"
NoProof == [of |-> NoTransfer, bottleneck |-> "INSUFFICIENT_DATA"]
NoAgreement == [on |-> "INSUFFICIENT_DATA", times |-> 0]

(* activeStates; MOVING is SENDING or RECEIVING, OVER every other one *)
Active(state) == state \in {"MOVING", "VERIFYING"}
TransferStates == {"READY", "MOVING", "VERIFYING", "RECONNECTING", "PAUSED", "DELIVERED", "OVER"}

Limits == LocalLimits \cup {"RELAY"}
Suppressed == {"RECOVERING", "INSUFFICIENT_DATA"}
Bottlenecks == Limits \cup Suppressed \cup {"NONE_DETECTED"}

Older(age, limit) == IF age < limit THEN age + 1 ELSE limit

(* The samples, by the first one of each interval: whether there is one,   *)
(* and whether payload has moved since                                     *)
Ages == 0 .. RollingWindow
NoSamples == [age \in Ages |-> "none"]

(* The fields as the class declares them, and as reset leaves them *)
Fresh(id) ==
    [id |-> id, inference |-> 0, progress |-> 0, stalls |-> FALSE, samples |-> NoSamples,
     candidate |-> "INSUFFICIENT_DATA", agreeing |-> 0, selected |-> "INSUFFICIENT_DATA",
     meaningful |-> "INSUFFICIENT_DATA", baseline |-> FALSE]

HealthTypeOK ==
    /\ transfer \in [id: Transfers \cup {NoTransfer}, state: TransferStates,
                     enough: BOOLEAN, type: RouteTypes]
    /\ analyzer \in [id: Transfers \cup {NoTransfer}, inference: 0 .. WarmUp,
                     progress: 0 .. StallThreshold, stalls: BOOLEAN,
                     samples: [Ages -> {"none", "still", "moved"}], candidate: Bottlenecks,
                     agreeing: 0 .. Hysteresis, selected: Bottlenecks,
                     meaningful: Limits \cup {"INSUFFICIENT_DATA"}, baseline: BOOLEAN]

HealthInit ==
    /\ transfer = [id |-> NoTransfer, state |-> "READY", enough |-> FALSE, type |-> "UNKNOWN"]
    /\ analyzer = Fresh(NoTransfer)
    /\ shown = [state |-> "UNKNOWN", bottleneck |-> "INSUFFICIENT_DATA"]
    /\ proof = NoProof
    /\ agreement = NoAgreement

----------------------------------------------------------------------------
(* An interval has passed *)
Aged(a) ==
    [a EXCEPT !.inference = Older(@, WarmUp),
              !.progress = Older(@, StallThreshold),
              !.samples = [age \in Ages |-> IF age = 0 THEN "none" ELSE @[age - 1]]]

(* rate, as far as it is positive: the oldest sample of the window is of   *)
(* an earlier interval, and payload has moved since                        *)
Moves(samples) ==
    LET seen == {age \in Ages : samples[age] # "none"}
    IN  seen # {} /\ Max(seen) > 0 /\ samples[Max(seen)] = "moved"

(* restartInferenceWarmup *)
Restarted(a) ==
    [a EXCEPT !.inference = 0, !.progress = 0, !.stalls = FALSE,
              !.candidate = "INSUFFICIENT_DATA", !.agreeing = 0,
              !.selected = "INSUFFICIENT_DATA"]

(* changeRoute: the path that is left may have measured the direct rate.   *)
(* (One that stood still for a whole window counts as not measured.)       *)
RouteChanged(a) ==
    Restarted([a EXCEPT
        !.baseline = @ \/ (transfer.type = "DIRECT" /\ Moves(a.samples)),
        !.samples = [age \in Ages |-> IF age = 0 THEN @[0] ELSE "none"]])

(* observe: a new transfer, a new route, the end of a pause.  As every     *)
(* snapshot is observed, the last sample is of the transfer as it was      *)
Prepared(a, t, replaced) ==
    IF a.id # t.id THEN Fresh(t.id)
    ELSE LET routed == IF replaced \/ transfer.type # t.type THEN RouteChanged(a) ELSE a
         IN  IF transfer.state = "PAUSED" /\ t.state # "PAUSED" THEN Restarted(routed)
             ELSE routed

(* observe: payload has moved, and a stall is over *)
Progressed(a) ==
    [a EXCEPT !.progress = 0, !.stalls = FALSE,
              !.samples = [age \in Ages |-> IF @[age] = "none" THEN "none" ELSE "moved"]]

Sampled(a) == [a EXCEPT !.samples[0] = IF @ = "none" THEN "still" ELSE @]

WarmedUp(a, t) == a.inference = WarmUp /\ t.enough

Stalls(a, t) ==
    a.stalls \/ (Active(t.state) /\ WarmedUp(a, t) /\ a.progress = StallThreshold)

(* observe, up to the diagnosis *)
Measured(a, t, replaced, moved) ==
    LET prepared == Prepared(a, t, replaced)
        sampled == Sampled(IF moved THEN Progressed(prepared) ELSE prepared)
    IN  [sampled EXCEPT !.stalls = Stalls(sampled, t)]

----------------------------------------------------------------------------
(* diagnose: what the evidence speaks for counts only when payload moves *)
Diagnosis(a, t, evidence) ==
    IF t.state = "RECONNECTING" THEN "RECOVERING"
    ELSE IF Active(t.state) /\ WarmedUp(a, t) /\ ~a.stalls /\ Moves(a.samples)
         THEN evidence
         ELSE "INSUFFICIENT_DATA"

(* The relay is blamed only beside a direct path of the same transfer *)
Evidence(a, t) ==
    LocalLimits \cup {"NONE_DETECTED"}
    \cup IF t.type = "RELAY" /\ a.baseline THEN {"RELAY"} ELSE {}

(* Faulty: the count goes on over a change of mind *)
AgreedOverall(a, candidate) ==
    LET n == IF candidate \in Suppressed THEN Hysteresis ELSE Older(a.agreeing, Hysteresis)
    IN  [a EXCEPT !.candidate = candidate, !.agreeing = n,
                  !.selected = IF n = Hysteresis THEN candidate ELSE @]

(* applyHysteresis *)
Agreed(a, candidate) ==
    LET n == IF candidate \in Suppressed THEN Hysteresis
             ELSE IF candidate = a.candidate THEN Older(a.agreeing, Hysteresis) ELSE 1
    IN  [a EXCEPT !.candidate = candidate, !.agreeing = n,
                  !.selected = IF n = Hysteresis THEN candidate ELSE @]

HealthState(a, t, diagnosis) ==
    IF t.state = "RECONNECTING" THEN "RECOVERING"
    ELSE IF t.state = "PAUSED" THEN "PAUSED"
    ELSE IF a.stalls THEN "STALLED"
    ELSE IF diagnosis = "INSUFFICIENT_DATA" THEN IF Active(t.state) THEN "STARTING" ELSE "UNKNOWN"
    ELSE IF a.selected = "NONE_DETECTED" THEN "GOOD" ELSE "DEGRADED"

(* lastMeaningfulBottleneck *)
Remembered(a, t, state) ==
    IF Active(t.state) /\ a.selected \in Limits /\ state # "STALLED"
    THEN [a EXCEPT !.meaningful = a.selected] ELSE a

(* finalize *)
SpeedProof(a) == [of |-> a.id, bottleneck |-> a.meaningful]

(* observeTransferHealth: only the first DELIVERED makes a proof *)
ProofAfter(a, t) ==
    IF proof.of = t.id THEN proof
    ELSE IF t.state = "DELIVERED" THEN SpeedProof(a) ELSE NoProof

(* The coordinator publishes t: update and observeTransferHealth, with the *)
(* analyzer at that time                                                   *)
Observed(a, t, replaced, moved) ==
    LET measured == Measured(a, t, replaced, moved)
    IN  \E evidence \in Evidence(measured, t) :
        LET diagnosis == Diagnosis(measured, t, evidence)
            agreed == Agreed(measured, diagnosis)
            state == HealthState(agreed, t, diagnosis)
            after == Remembered(agreed, t, state)
            again == /\ diagnosis = agreement.on /\ a.id = t.id
                     /\ ~replaced /\ transfer.type = t.type
        IN  /\ analyzer' = after
            /\ shown' = [state |-> state, bottleneck |-> agreed.selected]
            /\ proof' = ProofAfter(after, t)
            /\ agreement' = [on |-> diagnosis,
                             times |-> IF again THEN Older(agreement.times, Hysteresis) ELSE 1]
            /\ transfer' = t

----------------------------------------------------------------------------
(* What the coordinator shows.  A new selection replaces the transfer *)
TransferBegins(id) ==
    /\ transfer.id # id
    /\ Observed(analyzer, [transfer EXCEPT !.id = id, !.state = "READY", !.enough = FALSE],
                FALSE, FALSE)

MayFollow ==
    [READY |-> {"MOVING", "RECONNECTING", "OVER"},
     MOVING |-> {"VERIFYING", "RECONNECTING", "PAUSED", "OVER"},
     PAUSED |-> {"MOVING", "RECONNECTING", "OVER"},
     VERIFYING |-> {"DELIVERED", "RECONNECTING", "OVER"},
     RECONNECTING |-> {"READY", "MOVING", "OVER"},
     DELIVERED |-> {"RECONNECTING"},
     OVER |-> {"RECONNECTING"}]

StateChanges(state) ==
    /\ transfer.id # NoTransfer /\ state \in MayFollow[transfer.state]
    /\ Observed(analyzer, [transfer EXCEPT !.state = state], FALSE, FALSE)

(* The payload of a snapshot may be enough for a diagnosis, or not yet *)
PayloadMoves(a) ==
    /\ transfer.state = "MOVING"
    /\ \E enough \in {transfer.enough, TRUE} :
           Observed(a, [transfer EXCEPT !.enough = enough], FALSE, TRUE)

(* beginTransport: nothing is known yet of the route of a new connection *)
RouteIsReplaced == Observed(analyzer, [transfer EXCEPT !.type = "UNKNOWN"], TRUE, FALSE)

(* refreshDiagnosticsFor, observeRoute: a later report of the connection   *)
(* may tell more, less, or that it uses another path                       *)
RouteIsDiagnosed(type) ==
    /\ type # transfer.type
    /\ Observed(analyzer, [transfer EXCEPT !.type = type], FALSE, FALSE)

(* The sampling timer, or another snapshot of the next interval *)
TimerSamples == Observed(Aged(analyzer), transfer, FALSE, FALSE) \/ PayloadMoves(Aged(analyzer))

HealthNext ==
    \/ \E id \in Transfers : TransferBegins(id)
    \/ \E state \in TransferStates : StateChanges(state)
    \/ RouteIsReplaced
    \/ \E type \in DiagnosedTypes : RouteIsDiagnosed(type)
    \/ PayloadMoves(analyzer)
    \/ TimerSamples

----------------------------------------------------------------------------
(* A limit is shown only of a transfer that moves and has warmed up on its *)
(* present route: never while it recovers, pauses, stalls or has ended,    *)
(* and the relay only on a relayed route (diagnose, applyHysteresis,       *)
(* restartInferenceWarmup).                                                *)
LimitsAreOfMotion ==
    shown.bottleneck \in Limits =>
        /\ Active(transfer.state) /\ shown.state = "DEGRADED"
        /\ WarmedUp(analyzer, transfer)
        /\ shown.bottleneck = "RELAY" => transfer.type = "RELAY"

(* What is shown changes to a limit, or to none, only when as many         *)
(* diagnoses in a row as the hysteresis asks for have agreed, on one route *)
(* of one transfer (applyHysteresis).                                      *)
AgreedBefore ==
    [][shown'.bottleneck # shown.bottleneck /\ shown'.bottleneck \notin Suppressed =>
           agreement' = [on |-> shown'.bottleneck, times |-> Hysteresis]]_healthVars

(* The proof of a delivery stays what it was, also when a route loss and a *)
(* second verdict follow, until another transfer takes its place           *)
(* (observeTransferHealth).                                                *)
ProofIsFrozen ==
    [][proof # NoProof => proof' = proof \/ transfer'.id # transfer.id]_healthVars

(* TRANSFER-HEALTH.md: when a transfer has been delivered its health is    *)
(* UNKNOWN, because payload no longer moves.                               *)
DeliveredHealthIsUnknown ==
    transfer.state = "DELIVERED" => shown.state = "UNKNOWN"
=============================================================================
