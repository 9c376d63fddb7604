-------------------------- MODULE RouteDiagnostics --------------------------
(***************************************************************************)
(* selectedRouteDiagnostics of packages/transport-webrtc: what the         *)
(* statistics of a peer connection tell of its path.  Only the type of the *)
(* route is kept, not its detail, its protocols, rates and times.          *)
(***************************************************************************)
EXTENDS Integers, Sequences, FiniteSets, FiniteSetsExt

CandidateTypes == {"host", "srflx", "prflx", "relay"}

(* normalizeCandidateType: of a candidate that the report does not have,   *)
(* or of a kind that the code does not know                                *)
NormalizedCandidateType(type) == IF type \in CandidateTypes THEN type ELSE "unknown"

RouteTypes == {"UNKNOWN", "DIRECT", "RELAY"}

(* classifyRoute: a relay on either side relays the path *)
RouteClass(local, remote) ==
    IF "relay" \in {local, remote} THEN "RELAY"
    ELSE IF "unknown" \in {local, remote} THEN "UNKNOWN"
    ELSE "DIRECT"

(* The candidate pair in use: the one that the report's transport names,   *)
(* if the report has it, and otherwise the first that has succeeded and    *)
(* was nominated or selected.  A browser may offer neither.                *)
SelectedPairs(report) ==
    LET named == {i \in DOMAIN report.pairs : i = report.named}
        succeeded == {i \in DOMAIN report.pairs :
                          report.pairs[i].succeeded /\ report.pairs[i].chosen}
    IN  IF named # {} THEN named
        ELSE IF succeeded # {} THEN {Min(succeeded)} ELSE {}

(* selectedRouteDiagnostics *)
SelectedRouteType(report) ==
    IF SelectedPairs(report) = {} THEN "UNKNOWN"
    ELSE LET pair == report.pairs[CHOOSE i \in SelectedPairs(report) : TRUE]
         IN  RouteClass(NormalizedCandidateType(pair.local),
                        NormalizedCandidateType(pair.remote))

(* Reports of up to two pairs: named is 0 when no transport names a pair,  *)
(* and may be a pair that the report has not                               *)
CandidatePairs ==
    [succeeded: BOOLEAN, chosen: BOOLEAN,
     local: {"host", "absent"}, remote: {"srflx", "relay"}]

StatsReports ==
    [named: 0 .. 2, pairs: UNION {[1 .. n -> CandidatePairs] : n \in 0 .. 2}]

(* What diagnostics() may tell *)
DiagnosedTypes == {SelectedRouteType(report) : report \in StatsReports}
=============================================================================
