------------------------ MODULE RouteRecoveryProofs ------------------------
(***************************************************************************)
(* Proofs about RouteRecovery, for any number of attempts and troubles.    *)
(*                                                                         *)
(* OnlyCurrentIsOpen is about one coordinator at a time.  A transport is   *)
(* assigned when a configuration ends, and the one before is not looked    *)
(* at: that nothing stays open needs Sound, which says of a configuration  *)
(* of the current generation that it is the only one and that no transport *)
(* is assigned while it is on its way.  Every method keeps Sound, whoever  *)
(* calls it and when, so no assumption about the network is used.          *)
(***************************************************************************)
EXTENDS RouteRecovery, SequenceTheorems, TLAPS

Fields == DOMAIN NewCoordinator

Sound(d) ==
    /\ DOMAIN d = Fields
    /\ d.gen \in Nat
    /\ d.transport \in 0 .. d.gen
    /\ d.open \subseteq {d.transport} \ {0}
    /\ d.transport # 0 /\ ~ d.closed => d.transport = d.gen
    /\ \A k \in d.configs : k.gen \in 1 .. d.gen
    /\ \A k, l \in d.configs : k.gen = l.gen => k = l
    /\ \A k \in d.configs : k.gen = d.gen => d.transport = 0

IInv == DOMAIN c = Roles /\ \A p \in Roles : Sound(c[p])

-----------------------------------------------------------------------------
(* Methods that leave the transports and their configurations alone.         *)

SameRoute(d, e) ==
    /\ DOMAIN e = DOMAIN d
    /\ e.gen = d.gen /\ e.transport = d.transport /\ e.open = d.open
    /\ e.configs = d.configs /\ e.closed = d.closed

LEMMA SameIsSound ==
    ASSUME NEW d, NEW e, Sound(d), SameRoute(d, e)
    PROVE  Sound(e)
BY DEF Sound, SameRoute

LEMMA SameTwice ==
    ASSUME NEW d, NEW e, NEW f, SameRoute(d, e), SameRoute(e, f)
    PROVE  SameRoute(d, f)
BY DEF SameRoute

LEMMA FieldsAre ==
    Fields = {"state", "role", "socket", "tries", "gen", "remote", "exhausted", "transport",
              "pc", "open", "configs", "pending", "offers", "signals", "rejected", "attempts",
              "recTimer", "connTimer", "closed", "transfer", "phase", "shown"}
BY DEF Fields, NewCoordinator

LEMMA QuietMethods ==
    ASSUME NEW d, Sound(d)
    PROVE  /\ \A state : SameRoute(d, Updated(d, state))
           /\ \A phase : SameRoute(d, Published(d, phase))
           /\ SameRoute(d, TransferInterrupted(d))
           /\ SameRoute(d, NewTransfer(d))
           /\ SameRoute(d, TimersCleared(d))
           /\ SameRoute(d, MarkInterrupted(d)) /\ SameRoute(d, MarkFailure(d))
           /\ \A k : SameRoute(d, Continue(d, k))
           /\ \A then : SameRoute(d, Proceed(d, then))
           /\ \A i : SameRoute(d, SignalTaken(d, i))
           /\ \A i : SameRoute(d, Described(d, i))
           /\ \A o : SameRoute(d, OfferDone(d, o))
           /\ SameRoute(d, IceConnected(d))
           /\ SameRoute(d, ChannelOpen(d))
           /\ SameRoute(d, SocketOpen(d))
           /\ SameRoute(d, SocketClosed(d))
<1>1. DOMAIN d = Fields
  BY DEF Sound
<1>2. \A e, state : SameRoute(e, Updated(e, state))
  BY DEF SameRoute, Updated
<1>3. \A e, phase : SameRoute(e, Published(e, phase))
  BY DEF SameRoute, Published
<1>4. \A e : SameRoute(e, TransferInterrupted(e))
  BY <1>3 DEF SameRoute, TransferInterrupted
<1>5. \A e : SameRoute(e, NewTransfer(e)) /\ SameRoute(e, TimersCleared(e))
  BY DEF SameRoute, NewTransfer, TimersCleared
<1>6. /\ \A e, k : SameRoute(e, Continue(e, k))
      /\ \A e, then : SameRoute(e, Proceed(e, then))
      /\ \A e : SameRoute(e, MarkInterrupted(e)) /\ SameRoute(e, MarkFailure(e))
  BY DEF SameRoute, Continue, Proceed, MarkInterrupted, MarkFailure
<1>7. \A e, i : SameRoute(e, SignalTaken(e, i))
  BY DEF SameRoute, SignalTaken
<1>8. \A e, i : SameRoute(e, Described(e, i))
  BY <1>7 DEF SameRoute, Described
<1>9. ASSUME NEW e, NEW o PROVE SameRoute(e, OfferDone(e, o))
  <2> DEFINE made == [e EXCEPT !.offers = @ \ {o}, !.pc.desc = "offered"]
             shown == IF o.for = "start" THEN Updated(made, "NEGOTIATING") ELSE made
             timed == [shown EXCEPT !.connTimer = e.gen]
  <2>1. SameRoute(e, made)
    BY DEF SameRoute
  <2>2. SameRoute(made, shown)
    <3> HIDE DEF made
    <3> QED
      BY <1>2 DEF SameRoute
  <2>3. SameRoute(shown, timed)
    <3> HIDE DEF shown
    <3> QED
      BY DEF SameRoute
  <2>4. OfferDone(e, o) = timed
    BY DEF OfferDone
  <2> HIDE DEF made, shown, timed
  <2> QED
    BY <2>1, <2>2, <2>3, <2>4, SameTwice
<1>10. SameRoute(d, IceConnected(d))
  BY <1>2, <1>5 DEF SameRoute, IceConnected
<1>11. SameRoute(d, ChannelOpen(d))
  <2> DEFINE e == [d EXCEPT !.pc.channel = "open"]
  <2>1. SameRoute(d, e)
    BY DEF SameRoute
  <2>2. ChannelOpen(d) \in {e, Published(e, "ACTIVE")}
    BY DEF ChannelOpen
  <2> HIDE DEF e
  <2> QED
    BY <1>3, <2>1, <2>2, SameTwice
<1>12. SameRoute(d, SocketOpen(d))
  <2> DEFINE e == [d EXCEPT !.socket = "open", !.tries = 0]
  <2>1. SameRoute(d, e)
    BY DEF SameRoute
  <2>2. SocketOpen(d) \in {Updated(e, "CONNECTED"), Updated(e, "WAITING_FOR_PEER")}
    BY DEF SocketOpen
  <2> HIDE DEF e
  <2> QED
    BY <1>2, <2>1, <2>2, SameTwice
<1>13. SameRoute(d, SocketClosed(d))
  <2> DEFINE e == [d EXCEPT !.socket = "none"]
             f == [d EXCEPT !.socket = "waiting", !.tries = @ + 1]
  <2>1. SameRoute(d, e) /\ SameRoute(d, f)
    BY DEF SameRoute
  <2>2. SocketClosed(d) \in {Updated(e, "FAILED"), Updated(f, "RECONNECTING")}
    BY DEF SocketClosed
  <2> HIDE DEF e, f
  <2> QED
    BY <1>2, <2>1, <2>2, SameTwice
<1> QED
  BY <1>2, <1>3, <1>4, <1>5, <1>6, <1>7, <1>8, <1>9, <1>10, <1>11, <1>12, <1>13

-----------------------------------------------------------------------------
(* Methods that drop or begin a connection.                                  *)

LEMMA DetachedIsSound ==
    ASSUME NEW d, Sound(d)
    PROVE  /\ Sound(Detached(d)) /\ Detached(d).transport = 0
           /\ Detached(d).gen = d.gen /\ Detached(d).configs = d.configs
           /\ Detached(d).closed = d.closed
BY FieldsAre DEF Sound, Detached

\* What awaits a configuration is no part of the route.
LEMMA AwaitedKeeps ==
    ASSUME NEW k, NEW then
    PROVE  Awaited(k, then).gen = k.gen /\ Awaited(k, then).replacing = k.replacing
BY DEF Awaited

LEMMA BegunIsSound ==
    ASSUME NEW d, Sound(d), d.transport = 0, NEW replacing, NEW then
    PROVE  Sound(BeginConfig(d, replacing, then))
<1> DEFINE k == Awaited(NewConfig(d.gen + 1, replacing), then)
           e == BeginConfig(d, replacing, then)
<1>1. k.gen = d.gen + 1 /\ d.gen \in Nat
  BY AwaitedKeeps DEF Sound, NewConfig
<1>2. /\ DOMAIN e = Fields /\ e.gen = d.gen + 1 /\ e.configs = d.configs \cup {k}
      /\ e.transport = 0 /\ e.open = d.open /\ e.closed = d.closed
  BY FieldsAre DEF Sound, BeginConfig, BeginTransport
<1> HIDE DEF k, e
<1>3. /\ \A l \in e.configs : l.gen \in 1 .. e.gen
      /\ \A l, m \in e.configs : l.gen = m.gen => l = m
  BY <1>1, <1>2 DEF Sound
<1>4. e.open \subseteq {e.transport} \ {0}
  BY <1>2 DEF Sound
<1>5. Sound(e)
  BY <1>1, <1>2, <1>3, <1>4 DEF Sound
<1> QED
  BY <1>5 DEF e

LEMMA JoinedPendingIsSound ==
    ASSUME NEW d, Sound(d), NEW then
    PROVE  Sound(JoinPending(d, then))
<1> DEFINE with(k) == IF k.gen = d.pending THEN Awaited(k, then) ELSE k
           e == JoinPending(d, then)
<1>1. /\ DOMAIN e = Fields /\ e.gen = d.gen /\ e.configs = {with(k) : k \in d.configs}
      /\ e.transport = d.transport /\ e.open = d.open /\ e.closed = d.closed
  BY FieldsAre DEF Sound, JoinPending
<1>2. \A k : with(k).gen = k.gen
  BY AwaitedKeeps
<1> HIDE DEF with, e
<1>3. /\ \A l \in e.configs : l.gen \in 1 .. e.gen
      /\ \A l, m \in e.configs : l.gen = m.gen => l = m
      /\ \A l \in e.configs : l.gen = e.gen => e.transport = 0
  BY <1>1, <1>2 DEF Sound
<1>4. Sound(e)
  BY <1>1, <1>3 DEF Sound
<1> QED
  BY <1>4 DEF e

LEMMA EnsuredIsSound ==
    ASSUME NEW d, Sound(d), NEW then
    PROVE  Sound(EnsureTransport(d, then))
BY QuietMethods, SameIsSound, JoinedPendingIsSound, BegunIsSound DEF EnsureTransport

\* A field of the connection's end that is no transport's.
LEMMA AsideIsSound ==
    ASSUME NEW d, Sound(d), NEW v
    PROVE  /\ Sound([d EXCEPT !.connTimer = v]) /\ Sound([d EXCEPT !.recTimer = v])
           /\ Sound([d EXCEPT !.attempts = v]) /\ Sound([d EXCEPT !.exhausted = v])
           /\ Sound([d EXCEPT !.pc = v]) /\ Sound([d EXCEPT !.remote = v])
           /\ Sound([d EXCEPT !.role = v]) /\ Sound([d EXCEPT !.rejected = v])
           /\ Sound([d EXCEPT !.offers = v]) /\ Sound([d EXCEPT !.signals = v])
           /\ Sound([d EXCEPT !.socket = v])
<1> SUFFICES /\ SameRoute(d, [d EXCEPT !.connTimer = v]) /\ SameRoute(d, [d EXCEPT !.recTimer = v])
             /\ SameRoute(d, [d EXCEPT !.attempts = v]) /\ SameRoute(d, [d EXCEPT !.exhausted = v])
             /\ SameRoute(d, [d EXCEPT !.pc = v]) /\ SameRoute(d, [d EXCEPT !.remote = v])
             /\ SameRoute(d, [d EXCEPT !.role = v]) /\ SameRoute(d, [d EXCEPT !.rejected = v])
             /\ SameRoute(d, [d EXCEPT !.offers = v]) /\ SameRoute(d, [d EXCEPT !.signals = v])
             /\ SameRoute(d, [d EXCEPT !.socket = v])
  BY SameIsSound
<1> QED
  BY DEF SameRoute

LEMMA ExhaustedIsSound ==
    ASSUME NEW d, Sound(d)
    PROVE  Sound(Exhausted(d))
<1> DEFINE e == [Detached(d) EXCEPT !.connTimer = 0]
           f == MarkFailure(e)
<1>1. Sound(e)
  BY DetachedIsSound, AsideIsSound
<1>2. Sound(f)
  <2> HIDE DEF e
  <2> QED
    BY <1>1, QuietMethods, SameIsSound
<1>3. Exhausted(d) = Updated(f, "FAILED")
  BY DEF Exhausted
<1> HIDE DEF f
<1> QED
  BY <1>2, <1>3, QuietMethods, SameIsSound

LEMMA ScheduledIsSound ==
    ASSUME NEW d, Sound(d)
    PROVE  Sound(ScheduleRecovery(d))
BY ExhaustedIsSound, AsideIsSound DEF ScheduleRecovery

LEMMA FailedAttemptIsSound ==
    ASSUME NEW d, Sound(d), NEW generation
    PROVE  Sound(FailAttempt(d, generation))
<1>1. Sound([Detached(d) EXCEPT !.connTimer = 0])
  BY DetachedIsSound, AsideIsSound
<1> QED
  BY <1>1, ScheduledIsSound, ExhaustedIsSound DEF FailAttempt

LEMMA StartedReplacementIsSound ==
    ASSUME NEW d, Sound(d), NEW generation
    PROVE  Sound(StartReplacement(d, generation))
<1> DEFINE e == [Detached(d) EXCEPT !.attempts = @ + 1]
<1>1. Sound(e)
  BY DetachedIsSound, AsideIsSound
<1>2. e.transport = 0
  BY DetachedIsSound, FieldsAre DEF Sound
<1>3. Sound(BeginConfig(e, TRUE, Call("replace")))
  <2> HIDE DEF e
  <2> QED
    BY <1>1, <1>2, BegunIsSound
<1> QED
  BY <1>3, FailedAttemptIsSound DEF StartReplacement

LEMMA JoinedIsSound ==
    ASSUME NEW d, Sound(d)
    PROVE  Sound(Joined(d))
<1> DEFINE e == TimersCleared(Detached(d))
           begun == Invalidated(e)
           f == [begun EXCEPT !.role = "none", !.socket = "connecting", !.tries = 0, !.remote = 0,
                              !.attempts = 0, !.closed = FALSE, !.transfer = 0, !.phase = "IDLE"]
<1>1. Sound(e) /\ e.transport = 0
  BY DetachedIsSound, QuietMethods, SameIsSound DEF SameRoute
<1>2. /\ DOMAIN begun = Fields /\ begun.gen = e.gen + 1 /\ begun.transport = e.transport
      /\ begun.open = e.open /\ begun.configs = e.configs
  <2> HIDE DEF e
  <2> QED
    BY <1>1, FieldsAre DEF Sound, Invalidated
<1>3. Joined(d) = Updated(f, "SIGNALLING_CONNECTING")
  BY DEF Joined
<1> HIDE DEF e, begun
<1>4. /\ DOMAIN f = Fields /\ f.gen = e.gen + 1 /\ f.transport = e.transport
      /\ f.open = e.open /\ f.configs = e.configs
  BY <1>2, FieldsAre
<1> HIDE DEF f
<1>5. Sound(f)
  BY <1>1, <1>4 DEF Sound
<1> QED
  BY <1>3, <1>5, QuietMethods, SameIsSound

LEMMA DisconnectedIsSound ==
    ASSUME NEW d, Sound(d)
    PROVE  Sound(Disconnected(d))
<1> DEFINE e == TimersCleared(d)
           begun == Invalidated(e)
           f == [begun EXCEPT !.closed = TRUE, !.socket = "none",
                              !.open = @ \ {d.transport}, !.pc = NewPeerConnection]
<1>1. Sound(e) /\ e.transport = d.transport /\ e.open = d.open
  BY QuietMethods, SameIsSound DEF SameRoute
<1>2. /\ DOMAIN f = Fields /\ f.gen = e.gen + 1 /\ f.transport = e.transport
      /\ f.open = e.open \ {d.transport} /\ f.configs = e.configs /\ f.closed
  <2> HIDE DEF e
  <2> QED
    BY <1>1, FieldsAre DEF Sound, Invalidated
<1>3. Disconnected(d) = Updated(f, "CLOSED")
  BY DEF Disconnected, TimersCleared, Invalidated
<1> HIDE DEF e, f
<1>4. Sound(f)
  BY <1>1, <1>2 DEF Sound
<1> QED
  BY <1>3, <1>4, QuietMethods, SameIsSound

-----------------------------------------------------------------------------
(* Signalling, awaits, callbacks and timers.                                 *)

LEMMA HandledAreSound ==
    ASSUME NEW d, Sound(d)
    PROVE  /\ Sound(HandlePeerJoined(d))
           /\ \A role : Sound(HandleSessionReady(d, role))
           /\ \A m : Sound(HandleSignal(d, m))
<1>1. Sound(HandlePeerJoined(d))
  BY EnsuredIsSound DEF HandlePeerJoined, StartOffer
<1>2. \A role : Sound(HandleSessionReady(d, role))
  BY EnsuredIsSound, AsideIsSound DEF HandleSessionReady
<1>3. ASSUME NEW m PROVE Sound(HandleOffer(d, m))
  <2> DEFINE e == [d EXCEPT !.remote = m.route]
  <2>1. Sound(e)
    BY AsideIsSound
  <2>2. HandleOffer(d, m) \in {BeginConfig(Detached(e), TRUE, m), EnsureTransport(e, m)}
    BY DEF HandleOffer
  <2> HIDE DEF e
  <2> QED
    BY <2>1, <2>2, DetachedIsSound, BegunIsSound, EnsuredIsSound
<1>4. \A m : Sound(HandleSignal(d, m))
  BY <1>3, EnsuredIsSound DEF HandleSignal
<1> QED
  BY <1>1, <1>2, <1>4

\* A configuration that ended: it attaches a transport only if it is current,
\* when no other is attached or on its way.
LEMMA ConfiguredIsSound ==
    ASSUME NEW d, Sound(d), NEW k \in d.configs
    PROVE  /\ Sound(ConfigDone(d, k))
           /\ Sound(ConfigFailed(d, k))
<1> DEFINE e == [d EXCEPT !.configs = @ \ {k}, !.pending = IF @ = k.gen THEN 0 ELSE @]
<1>1. /\ DOMAIN e = Fields /\ e.gen = d.gen /\ e.configs = d.configs \ {k}
      /\ e.transport = d.transport /\ e.open = d.open /\ e.closed = d.closed
  BY FieldsAre DEF Sound
<1>2. ConfigDone(d, k) = IF d.closed \/ k.gen # d.gen THEN e ELSE Continue(Attached(e, k), k)
  BY DEF ConfigDone, IsCurrent
<1>3. ConfigFailed(d, k) = FailAttempt(e, k.gen)
  BY DEF ConfigFailed
<1> HIDE DEF e
<1>4. Sound(e)
  BY <1>1 DEF Sound
<1>5. ASSUME k.gen = d.gen, ~ d.closed PROVE Sound(Attached(e, k))
  <2> DEFINE f == [e EXCEPT !.transport = k.gen, !.pc = NewPeerConnection,
                            !.open = @ \cup {k.gen}]
  <2>1. /\ DOMAIN f = Fields /\ f.gen = e.gen /\ f.configs = e.configs
        /\ f.transport = k.gen /\ f.open = e.open \cup {k.gen} /\ f.closed = e.closed
    BY <1>1, FieldsAre
  <2>2. d.transport = 0 /\ k.gen \in 1 .. d.gen /\ \A l \in e.configs : l.gen # d.gen
    BY <1>1, <1>5 DEF Sound
  <2>3. e.open = {}
    BY <1>1, <2>2 DEF Sound
  <2>4. Attached(e, k) \in {f, NewTransfer(f)}
    BY DEF Attached
  <2> HIDE DEF f
  <2>5. Sound(f)
    BY <1>1, <1>4, <1>5, <2>1, <2>2, <2>3 DEF Sound
  <2> QED
    BY <2>4, <2>5, QuietMethods, SameIsSound
<1>6. Sound(ConfigDone(d, k))
  <2> HIDE DEF e
  <2>1. CASE d.closed \/ k.gen # d.gen
    BY <1>2, <1>4, <2>1
  <2>2. CASE ~ (d.closed \/ k.gen # d.gen)
    BY <1>2, <1>5, <2>2, QuietMethods, SameIsSound
  <2> QED
    BY <2>1, <2>2
<1> QED
  BY <1>3, <1>4, <1>6, FailedAttemptIsSound

LEMMA RejectedAreSound ==
    ASSUME NEW d, Sound(d)
    PROVE  /\ \A o : Sound(OfferRejected(d, o))
           /\ \A i : Sound(SignalRejected(d, i))
<1>1. ASSUME NEW o PROVE Sound(OfferRejected(d, o))
  <2> DEFINE e == [d EXCEPT !.offers = @ \ {o}]
  <2>1. Sound(e)
    BY AsideIsSound
  <2>2. OfferRejected(d, o) \in {Updated(e, "FAILED"), FailAttempt(e, d.gen)}
    BY DEF OfferRejected
  <2> HIDE DEF e
  <2> QED
    BY <2>1, <2>2, QuietMethods, SameIsSound, FailedAttemptIsSound
<1>2. ASSUME NEW i PROVE Sound(SignalRejected(d, i))
  <2> DEFINE e == SignalTaken(d, i)
             f == [e EXCEPT !.rejected = @ \cup {d.signals[i].gen}]
  <2>1. Sound(e)
    BY QuietMethods, SameIsSound
  <2>2. Sound(f)
    <3> HIDE DEF e
    <3> QED
      BY <2>1, AsideIsSound
  <2>3. SignalRejected(d, i) = FailAttempt(f, d.gen)
    BY DEF SignalRejected
  <2> HIDE DEF f
  <2> QED
    BY <2>2, <2>3, FailedAttemptIsSound
<1> QED
  BY <1>1, <1>2

LEMMA PeerStateIsSound ==
    ASSUME NEW d, Sound(d), NEW peer \in {"connecting", "connected", "disconnected", "failed"}
    PROVE  Sound(PeerState(d, peer))
<1> DEFINE e == [d EXCEPT !.pc.peer = peer]
           calm == [TimersCleared(e) EXCEPT !.attempts = 0]
           interrupted == MarkInterrupted(TransferInterrupted(e))
           lost == Updated(interrupted, "RECONNECTING")
<1>1. Sound(e)
  BY AsideIsSound
<1>2. Sound(calm) /\ Sound(interrupted)
  <2> HIDE DEF e
  <2> QED
    BY <1>1, QuietMethods, SameIsSound, AsideIsSound
<1>3. Sound(lost)
  <2> HIDE DEF interrupted
  <2> QED
    BY <1>2, QuietMethods, SameIsSound
<1>4. PeerState(d, peer) \in {Updated(calm, "CONNECTED"), ScheduleRecovery(lost), lost,
                              Updated(e, "CONNECTING")}
  BY DEF PeerState
<1> HIDE DEF e, calm, interrupted, lost
<1> QED
  BY <1>1, <1>2, <1>3, <1>4, QuietMethods, SameIsSound, ScheduledIsSound

LEMMA TimersAreSound ==
    ASSUME NEW d, Sound(d)
    PROVE  /\ Sound(RecoveryTimer(d)) /\ Sound(ConnectionTimer(d))
           /\ Sound(RestartIce(d)) /\ Sound(ReplacePeerConnection(d))
<1>1. Sound(RecoveryTimer(d))
  BY AsideIsSound, StartedReplacementIsSound DEF RecoveryTimer
<1>2. Sound(ConnectionTimer(d))
  BY AsideIsSound, FailedAttemptIsSound DEF ConnectionTimer
<1>3. Sound(RestartIce(d))
  BY QuietMethods, SameIsSound DEF RestartIce
<1>4. Sound(ReplacePeerConnection(d))
  <2> DEFINE e == MarkInterrupted(TransferInterrupted(d))
  <2>1. Sound(e)
    BY QuietMethods, SameIsSound
  <2>2. ReplacePeerConnection(d) = StartReplacement(Updated(e, "RECONNECTING"), d.gen)
    BY DEF ReplacePeerConnection
  <2> HIDE DEF e
  <2> QED
    BY <2>1, <2>2, QuietMethods, SameIsSound, StartedReplacementIsSound
<1> QED
  BY <1>1, <1>2, <1>3, <1>4

-----------------------------------------------------------------------------
(* Every step gives one coordinator what a method of it returns, or leaves   *)
(* both alone.                                                               *)

LEMMA BecomingIsSound ==
    ASSUME IInv, NEW p \in Roles, NEW d, Becomes(p, d), Sound(d)
    PROVE  IInv'
<1>1. c' = [c EXCEPT ![p] = d] /\ DOMAIN c = Roles
  BY DEF Becomes, IInv
<1>2. DOMAIN c' = Roles /\ \A q \in Roles : c'[q] = IF q = p THEN d ELSE c[q]
  BY <1>1
<1>3. \A q \in Roles : Sound(c'[q])
  BY <1>2 DEF IInv
<1>4. IInv' <=> DOMAIN c' = Roles /\ \A q \in Roles : Sound(c'[q])
  BY DEF IInv, Sound
<1> QED
  BY <1>2, <1>3, <1>4

LEMMA InitHolds == Init => IInv
<1> SUFFICES ASSUME Init PROVE IInv
  OBVIOUS
<1>1. Sound(NewCoordinator)
  BY DEF Sound, NewCoordinator, Fields
<1> QED
  BY <1>1 DEF Init, IInv

\* Sessions, sockets and messages.
LEMMA SessionStep ==
    ASSUME IInv, NEW p \in Roles,
           \/ JoinSession(p) \/ Leave(p) \/ SocketOpens(p) \/ SocketDrops(p)
           \/ SocketReconnects(p) \/ HandleMessage(p)
    PROVE  IInv'
<1>1. Sound(c[p])
  BY DEF IInv
<1>2. CASE JoinSession(p)
  BY <1>1, <1>2, JoinedIsSound, BecomingIsSound DEF JoinSession
<1>3. CASE Leave(p)
  BY <1>1, <1>3, DisconnectedIsSound, BecomingIsSound DEF Leave
<1>4. CASE SocketOpens(p) \/ SocketDrops(p)
  <2>1. Sound(SocketOpen(c[p])) /\ Sound(SocketClosed(c[p]))
    BY <1>1, QuietMethods, SameIsSound
  <2> QED
    BY <1>4, <2>1, BecomingIsSound DEF SocketOpens, SocketDrops
<1>5. CASE SocketReconnects(p)
  BY <1>1, <1>5, AsideIsSound, BecomingIsSound DEF SocketReconnects, Quietly
<1>6. CASE HandleMessage(p)
  <2> DEFINE m == Head(wire[p])
             d == CASE m.type = "session-ready" -> HandleSessionReady(c[p], p)
                    [] m.type = "peer-joined"   -> HandlePeerJoined(c[p])
                    [] m.type = "peer-left"     -> Updated(c[p], "DISCONNECTED")
                    [] OTHER                    -> HandleSignal(c[p], m)
  <2>1. Becomes(p, d)
    BY <1>6 DEF HandleMessage
  <2>2. Sound(Updated(c[p], "DISCONNECTED"))
    BY <1>1, QuietMethods, SameIsSound
  <2>3. d \in {HandleSessionReady(c[p], p), HandlePeerJoined(c[p]),
               Updated(c[p], "DISCONNECTED"), HandleSignal(c[p], m)}
    OBVIOUS
  <2>4. Sound(d)
    <3> HIDE DEF d, m
    <3> QED
      BY <1>1, <2>2, <2>3, HandledAreSound
  <2> HIDE DEF d
  <2> QED
    BY <2>1, <2>4, BecomingIsSound
<1> QED
  BY <1>2, <1>3, <1>4, <1>5, <1>6

\* Awaits that settle, reject or never settle.
LEMMA AwaitStep ==
    ASSUME IInv, NEW p \in Roles,
           \/ ConfigEnds(p) \/ ConfigFails(p) \/ OfferIsMade(p) \/ OfferRejects(p)
           \/ OfferIsAnswered(p) \/ AnswerIsAccepted(p) \/ SignalIsMinor(p)
           \/ SignalRejects(p) \/ Hangs(p)
    PROVE  IInv'
<1>1. Sound(c[p])
  BY DEF IInv
<1>2. CASE ConfigEnds(p) \/ ConfigFails(p)
  BY <1>1, <1>2, ConfiguredIsSound, BecomingIsSound DEF ConfigEnds, ConfigFails, Quietly
<1>3. CASE OfferIsMade(p)
  <2>1. \A o : Sound(OfferDone(c[p], o))
    BY <1>1, QuietMethods, SameIsSound
  <2> QED
    BY <1>3, <2>1, BecomingIsSound DEF OfferIsMade
<1>4. CASE OfferRejects(p) \/ SignalRejects(p)
  BY <1>1, <1>4, RejectedAreSound, BecomingIsSound DEF OfferRejects, SignalRejects, Quietly
<1>5. CASE OfferIsAnswered(p) \/ AnswerIsAccepted(p) \/ SignalIsMinor(p)
  <2>1. \A i : Sound(Described(c[p], i)) /\ Sound(SignalTaken(c[p], i))
    BY <1>1, QuietMethods, SameIsSound
  <2> QED
    BY <1>5, <2>1, BecomingIsSound DEF OfferIsAnswered, AnswerIsAccepted, SignalIsMinor, Quietly
<1>6. CASE Hangs(p)
  <2>1. \/ \E o : Quietly(p, [c[p] EXCEPT !.offers = @ \ {o}])
        \/ \E i : Quietly(p, [c[p] EXCEPT !.signals = SignalsBeside(c[p], i)])
    BY <1>6 DEF Hangs
  <2>2. \E v : \/ Becomes(p, [c[p] EXCEPT !.offers = v])
               \/ Becomes(p, [c[p] EXCEPT !.signals = v])
    BY <2>1 DEF Quietly
  <2> QED
    BY <1>1, <2>2, AsideIsSound, BecomingIsSound
<1> QED
  BY <1>2, <1>3, <1>4, <1>5, <1>6

\* Callbacks of a peer connection, timers, and the transfer.
LEMMA ConnectionStep ==
    ASSUME IInv, NEW p \in Roles,
           \/ Progresses(p) \/ PeerIceConnected(p) \/ PeerFlaps(p)
           \/ RecoveryTimerFires(p) \/ ConnectionTimerFires(p)
    PROVE  IInv'
<1>1. Sound(c[p])
  BY DEF IInv
<1>2. \E d : /\ Becomes(p, d)
             /\ \/ d \in {PeerState(c[p], peer) :
                             peer \in {"connecting", "connected", "disconnected", "failed"}}
                \/ d \in {ChannelOpen(c[p]), Published(c[p], "ACTIVE"), IceConnected(c[p])}
                \/ d \in {RecoveryTimer(c[p]), ConnectionTimer(c[p])}
  BY DEF Progresses, PeerConnecting, PeerConnected, PeerDisconnected, PeerFailed, ChannelOpens,
         TransferMoves, PeerIceConnected, PeerFlaps, RecoveryTimerFires, ConnectionTimerFires,
         Quietly
<1>3. /\ Sound(ChannelOpen(c[p])) /\ Sound(Published(c[p], "ACTIVE"))
      /\ Sound(IceConnected(c[p]))
  BY <1>1, QuietMethods, SameIsSound
<1> QED
  BY <1>1, <1>2, <1>3, PeerStateIsSound, TimersAreSound, BecomingIsSound

LEMMA StepHolds == IInv /\ [Next]_vars => IInv'
<1> SUFFICES ASSUME IInv, [Next]_vars PROVE IInv'
  OBVIOUS
<1>1. IInv' <=> DOMAIN c' = Roles /\ \A q \in Roles : Sound(c'[q])
  BY DEF IInv, Sound
<1>2. CASE UNCHANGED c
  BY <1>1, <1>2 DEF IInv
<1>3. CASE \E p \in Roles : CandidateFound(p)
  BY <1>2, <1>3 DEF CandidateFound
<1>4. CASE Cut
  BY <1>2, <1>4 DEF Cut
<1>5. CASE RestartsIce \/ ReplacesRoute
  <2>1. Sound(c["offerer"]) /\ "offerer" \in Roles
    BY DEF IInv, Roles
  <2> QED
    BY <1>5, <2>1, TimersAreSound, BecomingIsSound DEF RestartsIce, ReplacesRoute
<1> QED
  BY <1>2, <1>3, <1>4, <1>5, SessionStep, AwaitStep, ConnectionStep
     DEF Next, Settles, vars

\* Every method of both coordinators keeps what makes a connection that is
\* open the assigned one, of the current generation (ensureTransport,
\* createTransportForRoute and every place that closes a transport).
THEOREM InvHolds == Spec => []IInv
BY InitHolds, StepHolds, PTL DEF Spec

\* Whatever the order in which configurations, replacements, failures, sessions
\* joined again and messages come, no peer connection stays open but the one
\* that is assigned, and unless the user has left it is of the current route
\* generation (every place that assigns this.transport).
THEOREM OnlyCurrentOpen == Spec => []OnlyCurrentIsOpen
<1>1. IInv => OnlyCurrentIsOpen
  BY DEF IInv, Sound, OnlyCurrentIsOpen
<1> QED
  BY <1>1, InvHolds, PTL

-----------------------------------------------------------------------------
(***************************************************************************)
(* Proofs about RouteRecovery when nothing happens but losses, and users   *)
(* that leave: cut and flap are any number, at any moment.                 *)
(*                                                                         *)
(* BoundedAttempts and TransferSurvives are about one coordinator, but     *)
(* what it does depends on what the other one sends.  The offerer counts   *)
(* an attempt for every connection but the first, so there must not be two *)
(* that a peer-joined began; and no connection may be abandoned by a call  *)
(* that rejects, which fails the attempt of whatever generation is         *)
(* current.  LossInv therefore follows what makes a connection come about  *)
(* through everyone's hands: the announcement of the peer, the offerer's   *)
(* call that makes the offer, the offer on the wire, the answerer's call   *)
(* that answers it, the answer on the wire.  It is in one hand at a time,  *)
(* and the others are as they have to be for it to arrive.                 *)
(*                                                                         *)
(* The lemmas go from the sequences, over the methods of an offerer and of *)
(* an answerer, to a pair of them (Undisturbed) and to the actions.        *)
(***************************************************************************)

(* Sequences of what waits its turn: whether one of a kind is among them,    *)
(* and at most one.                                                          *)
Has(s, kind) == \E i \in DOMAIN s : s[i] \in kind

HasOne(s, kind) == \A i, j \in DOMAIN s : s[i] \in kind /\ s[j] \in kind => i = j

LEMMA EmptySequence ==
    /\ \A A : <<>> \in Seq(A)
    /\ \A kind : ~ Has(<<>>, kind) /\ HasOne(<<>>, kind)
BY DEF Has, HasOne

LEMMA SequencesAre ==
    ASSUME NEW A, NEW s \in Seq(A)
    PROVE  /\ Len(s) \in Nat /\ DOMAIN s = 1 .. Len(s)
           /\ \A i \in DOMAIN s : s[i] \in A
           /\ \A i \in DOMAIN s : s # <<>> /\ Len(s) > 0
OBVIOUS

LEMMA HeadTaken ==
    ASSUME NEW A, NEW s \in Seq(A), s # <<>>
    PROVE  /\ Head(s) \in A /\ Tail(s) \in Seq(A)
           /\ \A kind : Has(Tail(s), kind) => Has(s, kind)
           /\ \A kind : HasOne(s, kind) => HasOne(Tail(s), kind)
           /\ \A kind : HasOne(s, kind) /\ Head(s) \in kind => ~ Has(Tail(s), kind)
           /\ \A kind : Has(s, kind) /\ Head(s) \notin kind => Has(Tail(s), kind)
           /\ \A kind : Head(s) \in kind => Has(s, kind)
<1>1. /\ Head(s) = s[1] /\ 1 \in DOMAIN s /\ Head(s) \in A /\ Tail(s) \in Seq(A)
      /\ Len(s) \in Nat /\ DOMAIN s = 1 .. Len(s)
      /\ DOMAIN Tail(s) = 1 .. (Len(s) - 1)
      /\ \A i \in DOMAIN Tail(s) : Tail(s)[i] = s[i + 1] /\ i + 1 \in DOMAIN s /\ i + 1 # 1
  OBVIOUS
<1>2. \A i \in DOMAIN s : i # 1 => /\ i - 1 \in DOMAIN Tail(s) /\ Tail(s)[i - 1] = s[i]
  BY <1>1
<1>3. \A i, j \in DOMAIN Tail(s) : i + 1 = j + 1 => i = j
  BY <1>1
<1>4. \A kind : Has(Tail(s), kind) => Has(s, kind)
  BY <1>1 DEF Has
<1>5. \A kind : HasOne(s, kind) => HasOne(Tail(s), kind)
  BY <1>1, <1>3 DEF HasOne
<1>6. \A kind : HasOne(s, kind) /\ Head(s) \in kind => ~ Has(Tail(s), kind)
  BY <1>1 DEF HasOne, Has
<1>7. \A kind : Has(s, kind) /\ Head(s) \notin kind => Has(Tail(s), kind)
  BY <1>1, <1>2 DEF Has
<1>8. \A kind : Head(s) \in kind => Has(s, kind)
  BY <1>1 DEF Has
<1> QED
  BY <1>1, <1>4, <1>5, <1>6, <1>7, <1>8

LEMMA OneAppended ==
    ASSUME NEW A, NEW s \in Seq(A), NEW x \in A
    PROVE  /\ Append(s, x) \in Seq(A) /\ Append(s, x) # <<>>
           /\ s = <<>> => Head(Append(s, x)) = x /\ Tail(Append(s, x)) = <<>>
           /\ s # <<>> => /\ Head(Append(s, x)) = Head(s)
                          /\ \A kind : Has(Tail(Append(s, x)), kind)
                                          => Has(Tail(s), kind) \/ x \in kind
           /\ \A kind : Has(Append(s, x), kind) => Has(s, kind) \/ x \in kind
           /\ \A kind : HasOne(s, kind) /\ (x \in kind => ~ Has(s, kind))
                           => HasOne(Append(s, x), kind)
<1>1. /\ Append(s, x) \in Seq(A) /\ Len(s) \in Nat
      /\ DOMAIN s = 1 .. Len(s) /\ DOMAIN Append(s, x) = 1 .. (Len(s) + 1)
      /\ Append(s, x)[Len(s) + 1] = x
      /\ \A i \in DOMAIN s : Append(s, x)[i] = s[i]
      /\ \A i \in DOMAIN Append(s, x) : i \in DOMAIN s \/ i = Len(s) + 1
  OBVIOUS
<1>2. \A kind : Has(Append(s, x), kind) => Has(s, kind) \/ x \in kind
  BY <1>1 DEF Has
<1>3. \A kind : HasOne(s, kind) /\ (x \in kind => ~ Has(s, kind)) => HasOne(Append(s, x), kind)
  BY <1>1 DEF HasOne, Has
<1>4. s = <<>> => Head(Append(s, x)) = x /\ Tail(Append(s, x)) = <<>>
  OBVIOUS
<1>5. s # <<>> => /\ Head(Append(s, x)) = Head(s)
                  /\ \A kind : Has(Tail(Append(s, x)), kind) => Has(Tail(s), kind) \/ x \in kind
  <2> SUFFICES ASSUME s # <<>>
               PROVE  /\ Head(Append(s, x)) = Head(s)
                      /\ \A kind : Has(Tail(Append(s, x)), kind) => Has(Tail(s), kind) \/ x \in kind
    OBVIOUS
  <2> DEFINE t == Tail(Append(s, x))
  <2>1. /\ Head(Append(s, x)) = Append(s, x)[1] /\ Head(s) = s[1] /\ 1 \in DOMAIN s
        /\ DOMAIN t = 1 .. Len(s) /\ DOMAIN Tail(s) = 1 .. (Len(s) - 1)
        /\ \A i \in DOMAIN t : t[i] = Append(s, x)[i + 1]
        /\ \A i \in DOMAIN Tail(s) : Tail(s)[i] = s[i + 1]
    BY <1>1
  <2>2. \A i \in DOMAIN t : t[i] = x \/ (i \in DOMAIN Tail(s) /\ t[i] = Tail(s)[i])
    <3> HIDE DEF t
    <3> QED
      BY <1>1, <2>1
  <2>3. \A kind : Has(t, kind) => Has(Tail(s), kind) \/ x \in kind
    <3> HIDE DEF t
    <3> QED
      BY <2>2 DEF Has
  <2> QED
    BY <1>1, <2>1, <2>3
<1>6. Append(s, x) # <<>>
  BY <1>1, Append(s, x)[Len(s) + 1] = x, Len(s) + 1 \in DOMAIN Append(s, x)
<1> QED
  BY <1>1, <1>2, <1>3, <1>4, <1>5, <1>6

LEMMA OneRemoved ==
    ASSUME NEW A, NEW s \in Seq(A), NEW i \in DOMAIN s
    PROVE  /\ RemoveAt(s, i) \in Seq(A) /\ Len(RemoveAt(s, i)) = Len(s) - 1
           /\ \A kind : Has(RemoveAt(s, i), kind) => Has(s, kind)
           /\ \A kind : HasOne(s, kind) => HasOne(RemoveAt(s, i), kind)
           /\ \A kind : HasOne(s, kind) /\ s[i] \in kind => ~ Has(RemoveAt(s, i), kind)
<1> DEFINE r == RemoveAt(s, i)
           at(j) == IF j < i THEN j ELSE j + 1
<1>1. /\ r \in Seq(A) /\ Len(s) \in Nat /\ DOMAIN s = 1 .. Len(s) /\ i \in Nat
      /\ DOMAIN r = 1 .. (Len(s) - 1) /\ Len(r) = Len(s) - 1
      /\ \A j \in DOMAIN r : r[j] = s[at(j)]
  <2> DEFINE before == SubSeq(s, 1, i - 1)
             after == SubSeq(s, i + 1, Len(s))
  <2>1. Len(s) \in Nat /\ DOMAIN s = 1 .. Len(s) /\ i \in 1 .. Len(s) /\ \A j \in 1 .. Len(s) : s[j] \in A
    OBVIOUS
  <2>2. /\ before \in Seq(A) /\ Len(before) = i - 1
        /\ \A j \in 1 .. (i - 1) : before[j] = s[j]
    BY <2>1, SubSeqProperties
  <2>3. /\ after \in Seq(A) /\ Len(after) = Len(s) - i
        /\ \A j \in 1 .. (Len(s) - i) : after[j] = s[i + j]
    <3>1. /\ after \in Seq(A) /\ Len(after) = IF i + 1 <= Len(s) THEN Len(s) - (i + 1) + 1 ELSE 0
          /\ \A j \in 1 .. (Len(s) - (i + 1) + 1) : after[j] = s[(i + 1) + j - 1]
      BY <2>1, SubSeqProperties
    <3>2. /\ Len(s) \in Nat /\ i \in 1 .. Len(s) /\ Len(s) - (i + 1) + 1 = Len(s) - i
          /\ \A j \in 1 .. (Len(s) - i) : (i + 1) + j - 1 = i + j
      BY <2>1
    <3> HIDE DEF after
    <3>3. Len(after) = Len(s) - i
      BY <3>1, <3>2
    <3>4. \A j \in 1 .. (Len(s) - i) : after[j] = s[i + j]
      BY <3>1, <3>2
    <3> QED
      BY <3>1, <3>3, <3>4
  <2>4. r = before \o after
    BY DEF RemoveAt
  <2> HIDE DEF before, after, r
  <2>5. /\ r \in Seq(A) /\ Len(r) = Len(s) - 1
        /\ \A j \in 1 .. (Len(s) - 1) :
              r[j] = IF j <= i - 1 THEN before[j] ELSE after[j - (i - 1)]
    <3>1. (i - 1) + (Len(s) - i) = Len(s) - 1
      BY <2>1
    <3>2. /\ before \o after \in Seq(A)
          /\ Len(before \o after) = Len(before) + Len(after)
          /\ \A j \in 1 .. (Len(before) + Len(after)) :
                (before \o after)[j] = IF j <= Len(before) THEN before[j]
                                       ELSE after[j - Len(before)]
      BY <2>2, <2>3, ConcatProperties
    <3> QED
      BY <2>2, <2>3, <2>4, <3>1, <3>2
  <2>6. \A j \in 1 .. (Len(s) - 1) : r[j] = s[at(j)]
    <3> SUFFICES ASSUME NEW j \in 1 .. (Len(s) - 1) PROVE r[j] = s[at(j)]
      OBVIOUS
    <3>1. CASE j < i
      BY <2>1, <2>2, <2>5, <3>1
    <3>2. CASE ~ j < i
      <4>1. j - (i - 1) \in 1 .. (Len(s) - i) /\ i + (j - (i - 1)) = j + 1 /\ ~ j <= i - 1
        BY <2>1, <3>2
      <4> QED
        BY <2>3, <2>5, <3>2, <4>1
    <3> QED
      BY <3>1, <3>2
  <2> QED
    BY <2>1, <2>5, <2>6
<1>2. /\ \A j \in DOMAIN r : at(j) \in DOMAIN s /\ at(j) # i
      /\ \A j, k \in DOMAIN r : at(j) = at(k) => j = k
  BY <1>1
<1> HIDE DEF r, at
<1>3. \A kind : Has(r, kind) => Has(s, kind)
  BY <1>1, <1>2 DEF Has
<1>4. \A kind : HasOne(s, kind) => HasOne(r, kind)
  BY <1>1, <1>2 DEF HasOne
<1>5. \A kind : HasOne(s, kind) /\ s[i] \in kind => ~ Has(r, kind)
  BY <1>1, <1>2 DEF HasOne, Has
<1> QED
  BY <1>1, <1>3, <1>4, <1>5 DEF r

LEMMA BothJoined ==
    ASSUME NEW A, NEW s \in Seq(A), NEW t \in Seq(A)
    PROVE  /\ s \o t \in Seq(A)
           /\ \A kind : Has(s \o t, kind) => Has(s, kind) \/ Has(t, kind)
           /\ \A kind : HasOne(s, kind) /\ HasOne(t, kind) /\ ~ (Has(s, kind) /\ Has(t, kind))
                           => HasOne(s \o t, kind)
<1>1. /\ s \o t \in Seq(A) /\ Len(s) \in Nat /\ Len(t) \in Nat
      /\ DOMAIN s = 1 .. Len(s) /\ DOMAIN t = 1 .. Len(t)
      /\ DOMAIN (s \o t) = 1 .. (Len(s) + Len(t))
      /\ \A i \in DOMAIN s : (s \o t)[i] = s[i]
      /\ \A i \in DOMAIN (s \o t) :
            i \notin DOMAIN s => i - Len(s) \in DOMAIN t /\ (s \o t)[i] = t[i - Len(s)]
  OBVIOUS
<1>2. \A kind : Has(s \o t, kind) => Has(s, kind) \/ Has(t, kind)
  BY <1>1 DEF Has
<1>3. ASSUME NEW kind, HasOne(s, kind), HasOne(t, kind), ~ (Has(s, kind) /\ Has(t, kind)),
             NEW i \in DOMAIN (s \o t), NEW j \in DOMAIN (s \o t),
             (s \o t)[i] \in kind, (s \o t)[j] \in kind
      PROVE  i = j
  <2>1. CASE i \in DOMAIN s /\ j \in DOMAIN s
    BY <1>1, <1>3, <2>1 DEF HasOne
  <2>2. CASE i \notin DOMAIN s /\ j \notin DOMAIN s
    <3>1. i - Len(s) = j - Len(s)
      BY <1>1, <1>3, <2>2 DEF HasOne
    <3> QED
      BY <1>1, <3>1
  <2>3. CASE (i \in DOMAIN s) # (j \in DOMAIN s)
    BY <1>1, <1>3, <2>3 DEF Has
  <2> QED
    BY <2>1, <2>2, <2>3
<1>4. \A kind : HasOne(s, kind) /\ HasOne(t, kind) /\ ~ (Has(s, kind) /\ Has(t, kind))
                   => HasOne(s \o t, kind)
  BY <1>3 DEF HasOne
<1> QED
  BY <1>1, <1>2, <1>4

LEMMA NoneOfThem ==
    ASSUME NEW A, NEW B, NEW s \in Seq(A \cup B), ~ Has(s, B)
    PROVE  s \in Seq(A)
<1>1. \A i \in 1 .. Len(s) : s[i] \in A
  BY DEF Has
<1> QED
  BY <1>1

-----------------------------------------------------------------------------
(* After losses only.  What makes a connection come about passes from hand   *)
(* to hand: the announcement of the peer, the call that will make the offer, *)
(* the offer, the answer.                                                    *)

Of(types) == [type : types, route : Nat, from : Nat]

Readies == Of({"session-ready"})
Joins   == Of({"peer-joined"})
Offers  == Of({"offer"})
Answers == Of({"answer"})

MessagesTo(p) ==
    Of({"session-ready", "peer-joined", "peer-left", IF p = "offerer" THEN "answer" ELSE "offer"})

Operations(transports, messages) == [gen : transports, message : messages]

PeerConnection == [peer : {"new", "connecting", "connected", "disconnected", "failed"},
                   desc : {"none", "offered", "stable"}, mate : Nat,
                   channel : {"closed", "open"}]

\* What a coordinator has been through when it has no role yet: nothing.
Untouched(d) ==
    /\ d.transport = 0 /\ d.pending = 0 /\ d.configs = {} /\ d.offers = {} /\ d.signals = <<>>
    /\ d.recTimer = 0 /\ d.connTimer = 0 /\ d.attempts = 0 /\ d.transfer = 0
    /\ d.pc = NewPeerConnection /\ d.rejected = {} /\ d.remote \in Nat

\* Of either coordinator, in its session.
Steady(d) ==
    /\ d.rejected = {} /\ d.remote \in Nat /\ d.transfer \in Nat
    /\ d.pc \in PeerConnection
    /\ d.pending \in {0, d.gen}
    /\ d.transport # 0 => d.transport \in d.open
    /\ \A k \in d.configs : k.gen = d.gen /\ ~ k.replacing => d.transfer = 0

\* The offerer holds it: a call that awaits its configuration, one that makes
\* the offer, or the answer that is being accepted.
Holding(d) == d.offers # {} \/ d.signals # <<>> \/ \E k \in d.configs : k.offers # {}

HoldsOne(d) ==
    /\ \A k, l \in d.configs : k.offers # {} /\ l.offers # {} => k = l
    /\ \A k \in d.configs : \A f, g \in k.offers : f = g
    /\ \A x, y \in d.offers : x = y
    /\ Len(d.signals) <= 1
    /\ d.offers # {} => d.signals = <<>> /\ \A k \in d.configs : k.offers = {}
    /\ d.signals # <<>> => \A k \in d.configs : k.offers = {}

SteadyOfferer(d) ==
    /\ Steady(d)
    /\ d.attempts \in 0 .. MaxReplacementAttempts
    /\ \A k \in d.configs : k.signals = <<>>
    /\ \A x \in d.offers : x.gen = d.transport
    /\ d.signals \in Seq(Operations({d.transport}, Answers))
    /\ d.transport = 0 => d.offers = {} /\ d.signals = <<>>
    /\ d.signals # <<>> => d.pc.desc = "offered"
    /\ d.pc.peer # "new" => d.pc.mate # 0
    /\ d.pc.mate # 0 \/ d.recTimer # 0 => ~ Holding(d)
    /\ HoldsOne(d)

\* The answerer holds it: an offer among what awaits a configuration, or among
\* the operations of its transport.
Asked(d) == \E k \in d.configs : Has(k.signals, Offers)

Answering(d) == Has(d.signals, Operations(Nat, Offers))

\* Its configurations, to be awaited by peer-joined messages and by one offer.
Configured(configs) ==
    /\ \A k \in configs : /\ k.offers = {}
                          /\ k.signals \in Seq(Offers \cup Joins) /\ HasOne(k.signals, Offers)
    /\ \A k, l \in configs : Has(k.signals, Offers) /\ Has(l.signals, Offers) => k = l

SteadyAnswerer(d) ==
    /\ Steady(d)
    /\ d.transport # 0 \/ d.pending # 0
    /\ d.offers = {} /\ d.recTimer = 0 /\ d.connTimer = 0
    /\ Configured(d.configs)
    /\ d.signals \in Seq(Operations(Nat, Joins) \cup Operations({d.transport}, Offers))
    /\ HasOne(d.signals, Operations(Nat, Offers))
    /\ d.transport = 0 => ~ Answering(d)
    /\ ~ (Asked(d) /\ Answering(d))

-----------------------------------------------------------------------------
(* A socket, and the session-ready that comes before all else.               *)

Unopened(d) == ~ d.closed /\ d.socket # "open"

Session(p, d, w) ==
    /\ w \in Seq(MessagesTo(p))
    /\ d.gen = 0 => ~ d.closed /\ d.socket = "none"
    /\ d.closed => d.socket = "none" /\ w = <<>>
    /\ d.socket \in {"none", "connecting", "open"}
    /\ Unopened(d) => d.role = "none" /\ w = <<>>
    /\ d.socket = "open" =>
          IF d.role = "none" THEN w # <<>> /\ Head(w) \in Readies /\ ~ Has(Tail(w), Readies)
                             ELSE d.role = p /\ ~ Has(w, Readies)

(* Between the offerer o and the answerer a, with wo and wa on the wire to   *)
(* them: the announcement to come, the offer, and the answer.                *)
Announcing(o, a) == Unopened(o) \/ Unopened(a)

Early(o, a, wo) == Announcing(o, a) \/ Has(wo, Joins)

Owes(a) == Asked(a) \/ Answering(a)

Outgoing(a, wa) == ~ a.closed /\ (Has(wa, Offers) \/ Owes(a))

Late(a, wo, wa) == Outgoing(a, wa) \/ Has(wo, Answers)

\* What the offerer is like before an offer is asked of it, and after it made one.
Ready(d) ==
    /\ ~ Holding(d) /\ d.pc.mate = 0 /\ d.recTimer = 0 /\ d.connTimer = 0
    /\ d.role = "none" \/ d.transport # 0 \/ d.pending # 0

HasOffered(d) ==
    /\ ~ Holding(d) /\ d.pc.mate = 0 /\ d.recTimer = 0
    /\ d.transport # 0 /\ d.pc.desc = "offered"

OffererIsFine(o, a, wo, wa) ==
    /\ IF o.role = "none" THEN Untouched(o) ELSE SteadyOfferer(o)
    /\ HasOne(wo, Joins \cup Answers)
    /\ Announcing(o, a) => ~ Has(wo, Joins \cup Answers)
    /\ Early(o, a, wo) => Ready(o) /\ ~ Late(a, wo, wa)
    /\ Late(a, wo, wa) => HasOffered(o)
    /\ Outgoing(a, wa) => ~ Has(wo, Answers)

AnswererIsFine(a, wa) ==
    /\ IF a.role = "none" THEN Untouched(a) ELSE SteadyAnswerer(a)
    /\ HasOne(wa, Offers)
    /\ Has(wa, Offers) => ~ Owes(a)

\* A connection was begun for each attempt, and one before.
TriedIsCounted(o, n) ==
    /\ n \in Nat
    /\ o.closed \/ o.role = "none" => n = 0
    /\ ~ o.closed => n <= o.attempts + 1

Undisturbed(o, a, wo, wa, n) ==
    /\ Session("offerer", o, wo) /\ Session("answerer", a, wa)
    /\ ~ o.closed => OffererIsFine(o, a, wo, wa)
    /\ ~ a.closed => AnswererIsFine(a, wa)
    /\ TriedIsCounted(o, n)

LossInv ==
    OnlyLosses => Undisturbed(c["offerer"], c["answerer"], wire["offerer"], wire["answerer"], tried)

-----------------------------------------------------------------------------
(* Methods that change nothing a session depends on.                         *)

\* Whatever is done to a coordinator, its session is as before.
Kept(d, e) ==
    /\ DOMAIN e = Fields /\ e.gen \in Nat /\ e.gen >= d.gen
    /\ e.closed = d.closed /\ e.socket = d.socket /\ e.role = d.role /\ e.transfer = d.transfer

\* What is shown of a coordinator apart, nothing has changed.
Alike(d, e) ==
    /\ DOMAIN e = Fields
    /\ e.role = d.role /\ e.socket = d.socket /\ e.gen = d.gen /\ e.remote = d.remote
    /\ e.transport = d.transport /\ e.pc = d.pc /\ e.open = d.open
    /\ e.configs = d.configs /\ e.pending = d.pending /\ e.offers = d.offers
    /\ e.signals = d.signals /\ e.rejected = d.rejected /\ e.attempts = d.attempts
    /\ e.recTimer = d.recTimer /\ e.connTimer = d.connTimer /\ e.closed = d.closed
    /\ e.transfer = d.transfer

LEMMA ShownAlike ==
    ASSUME NEW d, DOMAIN d = Fields
    PROVE  /\ \A state : Alike(d, Updated(d, state))
           /\ \A phase : Alike(d, Published(d, phase))
           /\ Alike(d, TransferInterrupted(d))
           /\ Alike(d, MarkInterrupted(d)) /\ Alike(d, MarkFailure(d))
<1>1. \A state : Alike(d, Updated(d, state))
  BY FieldsAre DEF Alike, Updated
<1>2. \A phase : Alike(d, Published(d, phase))
  BY FieldsAre DEF Alike, Published
<1>3. Alike(d, TransferInterrupted(d))
  BY <1>2 DEF Alike, TransferInterrupted
<1>4. Alike(d, MarkInterrupted(d)) /\ Alike(d, MarkFailure(d))
  BY FieldsAre DEF Alike, MarkInterrupted, MarkFailure
<1> QED
  BY <1>1, <1>2, <1>3, <1>4

LEMMA AlikeIsKept ==
    ASSUME NEW d, NEW e, Alike(d, e), d.gen \in Nat
    PROVE  Kept(d, e)
BY DEF Alike, Kept

LEMMA AlikeIsSteady ==
    ASSUME NEW d, NEW e, Alike(d, e)
    PROVE  /\ SteadyOfferer(d) => SteadyOfferer(e)
           /\ SteadyAnswerer(d) => SteadyAnswerer(e)
           /\ Untouched(d) => Untouched(e)
           /\ Holding(e) <=> Holding(d)
           /\ Ready(d) => Ready(e)
           /\ HasOffered(d) => HasOffered(e)
           /\ Asked(e) <=> Asked(d)
           /\ Answering(e) <=> Answering(d)
<1>1. Steady(d) => Steady(e)
  BY DEF Alike, Steady
<1>2. (Holding(e) <=> Holding(d)) /\ (HoldsOne(d) => HoldsOne(e))
  BY DEF Alike, Holding, HoldsOne
<1>3. SteadyOfferer(d) => SteadyOfferer(e)
  BY <1>1, <1>2 DEF Alike, SteadyOfferer
<1>4. (Asked(e) <=> Asked(d)) /\ (Answering(e) <=> Answering(d))
  BY DEF Alike, Asked, Answering
<1>5. SteadyAnswerer(d) => SteadyAnswerer(e)
  BY <1>1, <1>4 DEF Alike, SteadyAnswerer
<1>6. Untouched(d) => Untouched(e)
  BY DEF Alike, Untouched
<1>7. (Ready(d) => Ready(e)) /\ (HasOffered(d) => HasOffered(e))
  BY <1>2 DEF Alike, Ready, HasOffered
<1> QED
  BY <1>2, <1>3, <1>4, <1>5, <1>6, <1>7

-----------------------------------------------------------------------------
(* The offerer, once it is in its session.                                   *)

LEMMA OffererTimers ==
    ASSUME NEW d, Sound(d), SteadyOfferer(d), NEW v
    PROVE  /\ SteadyOfferer([d EXCEPT !.connTimer = v])
           /\ v = 0 \/ ~ Holding(d) => SteadyOfferer([d EXCEPT !.recTimer = v])
           /\ v \in 0 .. MaxReplacementAttempts => SteadyOfferer([d EXCEPT !.attempts = v])
           /\ SteadyOfferer(TimersCleared(d))
           /\ Holding(TimersCleared(d)) <=> Holding(d)
<1> USE FieldsAre DEF Sound
<1>1. /\ SteadyOfferer([d EXCEPT !.connTimer = v])
  BY DEF SteadyOfferer, Steady, Holding, HoldsOne
<1>2. v = 0 \/ ~ Holding(d) => SteadyOfferer([d EXCEPT !.recTimer = v])
  BY DEF SteadyOfferer, Steady, Holding, HoldsOne
<1>3. v \in 0 .. MaxReplacementAttempts => SteadyOfferer([d EXCEPT !.attempts = v])
  BY DEF SteadyOfferer, Steady, Holding, HoldsOne
<1>4. SteadyOfferer(TimersCleared(d)) /\ (Holding(TimersCleared(d)) <=> Holding(d))
  BY DEF SteadyOfferer, Steady, Holding, HoldsOne, TimersCleared
<1> QED
  BY <1>1, <1>2, <1>3, <1>4

LEMMA OffererDetached ==
    ASSUME NEW d, Sound(d), SteadyOfferer(d), ~ Holding(d)
    PROVE  /\ SteadyOfferer(Detached(d)) /\ ~ Holding(Detached(d))
           /\ Detached(d).pending = d.pending /\ Detached(d).transport = 0
           /\ Detached(d).attempts = d.attempts
<1> USE FieldsAre DEF Sound, Detached
<1>1. NewPeerConnection \in PeerConnection
  BY DEF NewPeerConnection, PeerConnection
<1>2. ~ Holding(Detached(d)) /\ HoldsOne(Detached(d))
  BY DEF Holding, HoldsOne, SteadyOfferer
<1>3. Steady(Detached(d))
  BY <1>1 DEF SteadyOfferer, Steady
<1>4. d.signals = <<>> /\ d.offers = {}
  BY DEF Holding
<1> QED
  <2>1. /\ Detached(d).signals = <<>> /\ Detached(d).offers = {} /\ Detached(d).configs = d.configs
        /\ Detached(d).pc = NewPeerConnection /\ Detached(d).attempts = d.attempts
        /\ Detached(d).pending = d.pending /\ Detached(d).transport = 0
    BY <1>4
  <2>2. NewPeerConnection.peer = "new"
    BY DEF NewPeerConnection
  <2> HIDE DEF Detached, Sound
  <2>3. Detached(d).signals \in Seq(Operations({Detached(d).transport}, Answers))
    BY <2>1, EmptySequence
  <2> QED
    BY <1>2, <1>3, <2>1, <2>2, <2>3 DEF SteadyOfferer

LEMMA OffererBegins ==
    ASSUME NEW d, Sound(d), SteadyOfferer(d), ~ Holding(d), d.transport = 0,
           d.pc.mate = 0, d.recTimer = 0,
           NEW replacing, replacing = TRUE \/ d.transfer = 0,
           NEW then, then.type \in Offering \cup {"wait"}
    PROVE  /\ SteadyOfferer(BeginConfig(d, replacing, then))
           /\ BeginConfig(d, replacing, then).pending = d.gen + 1
           /\ BeginConfig(d, replacing, then).attempts = d.attempts
           /\ then.type = "wait" /\ d.connTimer = 0 => Ready(BeginConfig(d, replacing, then))
<1> DEFINE k == Awaited(NewConfig(d.gen + 1, replacing), then)
           e == BeginConfig(d, replacing, then)
<1>1. /\ k.gen = d.gen + 1 /\ k.replacing = replacing /\ k.signals = <<>>
      /\ k.offers = IF then.type = "wait" THEN {} ELSE {then.type}
  BY DEF Awaited, NewConfig, Offering
<1>2. /\ DOMAIN e = Fields /\ e.gen = d.gen + 1 /\ e.configs = d.configs \cup {k}
      /\ e.pending = d.gen + 1
      /\ e.transport = d.transport /\ e.open = d.open /\ e.closed = d.closed
      /\ e.role = d.role /\ e.rejected = d.rejected /\ e.remote = d.remote /\ e.pc = d.pc
      /\ e.transfer = d.transfer /\ e.signals = d.signals /\ e.offers = d.offers
      /\ e.attempts = d.attempts /\ e.recTimer = d.recTimer /\ e.connTimer = d.connTimer
  BY <1>1, FieldsAre DEF Sound, BeginConfig, BeginTransport
<1> HIDE DEF k, e
<1>3. d.signals = <<>> /\ d.offers = {} /\ \A l \in d.configs : l.offers = {}
  BY DEF Holding
<1>4. \A l \in d.configs : l.gen # d.gen + 1
  BY DEF Sound
<1>5. HoldsOne(e) /\ (then.type = "wait" => ~ Holding(e))
  BY <1>1, <1>2, <1>3 DEF HoldsOne, Holding
<1>6. Steady(e)
  BY <1>1, <1>2, <1>4 DEF Steady, SteadyOfferer
<1>7. SteadyOfferer(e)
  BY <1>1, <1>2, <1>3, <1>5, <1>6 DEF SteadyOfferer
<1>8. then.type = "wait" /\ d.connTimer = 0 => Ready(e)
  BY <1>2, <1>5 DEF Ready, Sound
<1> QED
  BY <1>2, <1>7, <1>8 DEF e

LEMMA OffererGivesUp ==
    ASSUME NEW d, Sound(d), SteadyOfferer(d), ~ Holding(d)
    PROVE  /\ SteadyOfferer(Exhausted(d))
           /\ Exhausted(d).pending = d.pending /\ Exhausted(d).attempts = d.attempts
<1> DEFINE e == [Detached(d) EXCEPT !.connTimer = 0]
           f == MarkFailure(e)
<1>1. Sound(Detached(d)) /\ SteadyOfferer(Detached(d)) /\ DOMAIN Detached(d) = Fields
  BY DetachedIsSound, OffererDetached DEF Sound
<1>2. Sound(e) /\ SteadyOfferer(e)
  BY <1>1, AsideIsSound, OffererTimers
<1>3. e.pending = d.pending /\ e.attempts = d.attempts /\ DOMAIN e = Fields
  BY <1>1, OffererDetached, FieldsAre
<1>4. Exhausted(d) = Updated(f, "FAILED")
  BY DEF Exhausted
<1> HIDE DEF e
<1>5. Alike(e, f)
  BY <1>3, ShownAlike
<1> HIDE DEF f
<1>6. Alike(f, Updated(f, "FAILED"))
  BY <1>5, ShownAlike DEF Alike
<1> QED
  BY <1>2, <1>3, <1>4, <1>5, <1>6, AlikeIsSteady DEF Alike

LEMMA OffererSchedules ==
    ASSUME NEW d, Sound(d), SteadyOfferer(d), ~ Holding(d)
    PROVE  /\ SteadyOfferer(ScheduleRecovery(d))
           /\ ScheduleRecovery(d).pending = d.pending
           /\ ScheduleRecovery(d).attempts = d.attempts
<1>1. LET e == [d EXCEPT !.recTimer = d.gen]
      IN SteadyOfferer(e) /\ e.pending = d.pending /\ e.attempts = d.attempts
  BY OffererTimers, FieldsAre DEF Sound
<1> QED
  BY <1>1, OffererGivesUp DEF ScheduleRecovery

LEMMA OffererFails ==
    ASSUME NEW d, Sound(d), SteadyOfferer(d), ~ Holding(d), NEW generation
    PROVE  /\ SteadyOfferer(FailAttempt(d, generation))
           /\ FailAttempt(d, generation).pending = d.pending
           /\ FailAttempt(d, generation).attempts = d.attempts
<1> DEFINE e == [Detached(d) EXCEPT !.connTimer = 0]
<1>1. Sound(Detached(d)) /\ SteadyOfferer(Detached(d)) /\ DOMAIN Detached(d) = Fields
  BY DetachedIsSound, OffererDetached DEF Sound
<1>2. Sound(e) /\ SteadyOfferer(e)
  BY <1>1, AsideIsSound, OffererTimers
<1>3. /\ e.pending = d.pending /\ e.attempts = d.attempts
      /\ e.offers = Detached(d).offers /\ e.signals = Detached(d).signals
      /\ e.configs = Detached(d).configs
  BY <1>1, OffererDetached, FieldsAre
<1>4. ~ Holding(e)
  <2> HIDE DEF e
  <2> QED
    BY <1>3, OffererDetached DEF Holding
<1>5. FailAttempt(d, generation) \in {d, ScheduleRecovery(e), Exhausted(d)}
  BY DEF FailAttempt
<1> HIDE DEF e
<1> QED
  BY <1>2, <1>3, <1>4, <1>5, OffererSchedules, OffererGivesUp

\* An attempt is counted when its connection is begun.
LEMMA OffererReplaces ==
    ASSUME NEW d, Sound(d), SteadyOfferer(d), ~ Holding(d), d.recTimer = 0, NEW generation
    PROVE  LET e == StartReplacement(d, generation)
           IN /\ SteadyOfferer(e)
              /\ \/ e.pending = d.pending /\ e.attempts = d.attempts
                 \/ e.attempts = d.attempts + 1
<1> DEFINE e == [Detached(d) EXCEPT !.attempts = @ + 1]
           f == BeginConfig(e, TRUE, Call("replace"))
<1>1. /\ Sound(Detached(d)) /\ SteadyOfferer(Detached(d)) /\ DOMAIN Detached(d) = Fields
      /\ Detached(d).attempts = d.attempts /\ d.attempts \in Nat
      /\ Detached(d).pc = NewPeerConnection /\ Detached(d).recTimer = 0
      /\ Detached(d).transport = 0
  <2>1. Sound(Detached(d)) /\ SteadyOfferer(Detached(d)) /\ Detached(d).attempts = d.attempts
    BY DetachedIsSound, OffererDetached
  <2>2. /\ DOMAIN Detached(d) = Fields /\ Detached(d).transport = 0
        /\ Detached(d).pc = NewPeerConnection /\ Detached(d).recTimer = 0
    BY FieldsAre DEF Sound, Detached
  <2>3. d.attempts \in Nat
    BY DEF SteadyOfferer
  <2> QED
    BY <2>1, <2>2, <2>3
<1>2. CASE d.attempts >= MaxReplacementAttempts
  BY <1>2, OffererFails DEF StartReplacement
<1>3. CASE ~ d.attempts >= MaxReplacementAttempts
  <2>1. d.attempts + 1 \in 0 .. MaxReplacementAttempts
    BY <1>3, CoordinatorAssumption DEF SteadyOfferer
  <2>2. Sound(e) /\ SteadyOfferer(e)
    BY <1>1, <2>1, AsideIsSound, OffererTimers
  <2>3. /\ e.attempts = d.attempts + 1 /\ e.pc = NewPeerConnection /\ e.recTimer = 0
        /\ e.transport = 0
        /\ e.offers = Detached(d).offers /\ e.signals = Detached(d).signals
        /\ e.configs = Detached(d).configs
    BY <1>1, FieldsAre
  <2>4. ~ Holding(e)
    <3> HIDE DEF e
    <3> QED
      BY <2>3, OffererDetached DEF Holding
  <2>5. Call("replace").type \in Offering \cup {"wait"} /\ NewPeerConnection.mate = 0
    BY DEF Call, Offering, NewPeerConnection
  <2>6. SteadyOfferer(f) /\ f.attempts = d.attempts + 1
    <3> HIDE DEF e
    <3> QED
      BY <2>2, <2>3, <2>4, <2>5, OffererBegins
  <2>7. StartReplacement(d, generation) \in {d, f}
    BY <1>3 DEF StartReplacement
  <2> HIDE DEF f
  <2> QED
    BY <2>6, <2>7
<1> QED
  BY <1>2, <1>3

\* The calls of the offerer that await a transport: the wait for one itself,
\* what a peer-joined asks for, and what an answer brings.
LEMMA OffererAsksForOne ==
    ASSUME NEW d, Sound(d), Untouched(d)
    PROVE  LET e == EnsureTransport(d, Wait)
           IN SteadyOfferer(e) /\ Ready(e) /\ e.attempts = 0
<1>1. d.signals \in Seq(Operations({d.transport}, Answers)) /\ Len(d.signals) = 0
  BY EmptySequence DEF Untouched
<1>2. ~ Holding(d) /\ HoldsOne(d)
  BY <1>1 DEF Untouched, Holding, HoldsOne
<1>3. NewPeerConnection \in PeerConnection /\ NewPeerConnection.mate = 0
      /\ NewPeerConnection.peer = "new"
  BY DEF NewPeerConnection, PeerConnection
<1>4. SteadyOfferer(d)
  BY <1>1, <1>2, <1>3, CoordinatorAssumption DEF Untouched, SteadyOfferer, Steady
<1>5. EnsureTransport(d, Wait) = BeginConfig(d, FALSE, Wait) /\ Wait.type = "wait"
  BY DEF EnsureTransport, Untouched, Wait, Call
<1> DEFINE e == BeginConfig(d, FALSE, Wait)
<1>6. SteadyOfferer(e) /\ e.attempts = d.attempts /\ Ready(e)
  BY <1>2, <1>3, <1>4, <1>5, OffererBegins DEF Untouched
<1> HIDE DEF e
<1> QED
  BY <1>5, <1>6 DEF e, Untouched

\* What awaited a configuration becomes operations of its transport.
LEMMA CallsGoOn ==
    ASSUME NEW k, NEW A, k.signals \in Seq(A), NEW transport
    PROVE  /\ SignalsOn(transport, k) \in Seq(Operations({transport}, A))
           /\ Len(SignalsOn(transport, k)) = Len(k.signals)
           /\ \A B, transports : Has(SignalsOn(transport, k), Operations(transports, B))
                                   => Has(k.signals, B)
           /\ \A B, transports : HasOne(k.signals, B)
                                   => HasOne(SignalsOn(transport, k), Operations(transports, B))
           /\ k.offers = {} => OffersOn(transport, k) = {}
           /\ \A x \in OffersOn(transport, k) : x.gen = transport /\ x.for \in k.offers
           /\ (\A f, g \in k.offers : f = g)
                 => \A x, y \in OffersOn(transport, k) : x = y
<1> DEFINE t == SignalsOn(transport, k)
           call(m) == [gen |-> transport, message |-> m]
<1>1. /\ DOMAIN k.signals = 1 .. Len(k.signals) /\ Len(k.signals) \in Nat
      /\ \A i \in 1 .. Len(k.signals) : k.signals[i] \in A
  OBVIOUS
<1>2. /\ t = [i \in 1 .. Len(k.signals) |-> t[i]]
      /\ \A i \in 1 .. Len(k.signals) : t[i] = call(k.signals[i])
  BY <1>1 DEF SignalsOn
<1>3. \A m \in A : call(m) \in Operations({transport}, A)
  BY DEF Operations
<1>4. \A m, B, transports : call(m) \in Operations(transports, B) => m \in B
  <2> SUFFICES ASSUME NEW m, NEW B, NEW transports, call(m) \in Operations(transports, B)
               PROVE  m \in B
    OBVIOUS
  <2>1. call(m).message \in B
    BY DEF Operations
  <2> QED
    BY <2>1
<1> HIDE DEF t, call
<1>5. t \in Seq(Operations({transport}, A)) /\ Len(t) = Len(k.signals) /\ DOMAIN t = DOMAIN k.signals
  <2>1. t \in [1 .. Len(k.signals) -> Operations({transport}, A)]
    BY <1>1, <1>2, <1>3
  <2>2. t \in Seq(Operations({transport}, A))
    BY <1>1, <2>1, SeqDef
  <2>3. DOMAIN t = 1 .. Len(k.signals) /\ DOMAIN t = 1 .. Len(t) /\ Len(t) \in Nat
    BY <2>1, <2>2, LenProperties
  <2>4. Len(t) = Len(k.signals)
    BY <1>1, <2>3
  <2> QED
    BY <1>1, <2>2, <2>3, <2>4
<1>6. ASSUME NEW B, NEW transports, NEW i \in DOMAIN t, t[i] \in Operations(transports, B)
      PROVE  i \in DOMAIN k.signals /\ k.signals[i] \in B
  <2>1. i \in DOMAIN k.signals /\ t[i] = call(k.signals[i])
    BY <1>1, <1>2, <1>5
  <2>2. call(k.signals[i]) \in Operations(transports, B)
    BY <1>6, <2>1
  <2> QED
    BY <1>4, <2>1, <2>2
<1>7. \A B, transports : Has(t, Operations(transports, B)) => Has(k.signals, B)
  <2> SUFFICES ASSUME NEW B, NEW transports, NEW i \in DOMAIN t,
                      t[i] \in Operations(transports, B)
               PROVE  Has(k.signals, B)
    BY DEF Has
  <2> QED
    BY <1>6 DEF Has
<1>8. \A B, transports : HasOne(k.signals, B) => HasOne(t, Operations(transports, B))
  <2> SUFFICES ASSUME NEW B, NEW transports, HasOne(k.signals, B),
                      NEW i \in DOMAIN t, NEW j \in DOMAIN t,
                      t[i] \in Operations(transports, B), t[j] \in Operations(transports, B)
               PROVE  i = j
    BY DEF HasOne
  <2> QED
    BY <1>6 DEF HasOne
<1>9. /\ \A x \in OffersOn(transport, k) : x.gen = transport /\ x.for \in k.offers
      /\ \A x \in OffersOn(transport, k) : x = [gen |-> transport, for |-> x.for]
  BY DEF OffersOn
<1>10. k.offers = {} => OffersOn(transport, k) = {}
  BY DEF OffersOn
<1>11. (\A f, g \in k.offers : f = g) => \A x, y \in OffersOn(transport, k) : x = y
  BY <1>9
<1> QED
  BY <1>5, <1>7, <1>8, <1>9, <1>10, <1>11 DEF t

LEMMA OffererProceeds ==
    ASSUME NEW d, Sound(d), SteadyOfferer(d), ~ Holding(d), d.transport # 0,
           d.pc.mate = 0, d.recTimer = 0, NEW then,
           \/ then.type \in Offering
           \/ then \in Answers /\ d.pc.desc = "offered"
    PROVE  LET e == Proceed(d, then)
           IN SteadyOfferer(e) /\ e.pending = d.pending /\ e.attempts = d.attempts
<1> DEFINE k == Awaited(NewConfig(d.transport, FALSE), then)
           e == Proceed(d, then)
<1>1. /\ DOMAIN e = Fields /\ e.gen = d.gen /\ e.configs = d.configs /\ e.pending = d.pending
      /\ e.offers = d.offers \cup OffersOn(d.transport, k)
      /\ e.signals = d.signals \o SignalsOn(d.transport, k)
      /\ e.transport = d.transport /\ e.open = d.open /\ e.closed = d.closed
      /\ e.role = d.role /\ e.rejected = d.rejected /\ e.remote = d.remote /\ e.pc = d.pc
      /\ e.transfer = d.transfer
      /\ e.attempts = d.attempts /\ e.recTimer = d.recTimer /\ e.connTimer = d.connTimer
  BY FieldsAre DEF Sound, Proceed, Continue
<1>2. d.signals = <<>> /\ d.offers = {} /\ \A l \in d.configs : l.offers = {}
  BY DEF Holding
<1>3. Steady(e)
  BY <1>1 DEF Steady, SteadyOfferer
<1>4. ASSUME then.type \in Offering PROVE SteadyOfferer(e)
  <2>1. k.offers = {then.type} /\ k.signals = <<>>
    BY <1>4 DEF Awaited, NewConfig, Offering
  <2> HIDE DEF e, k
  <2>2. k.signals \in Seq(Answers) /\ (\A f, g \in k.offers : f = g) /\ Len(k.signals) = 0
    BY <2>1, EmptySequence
  <2>3. /\ \A x \in OffersOn(d.transport, k) : x.gen = d.transport
        /\ \A x, y \in OffersOn(d.transport, k) : x = y
        /\ SignalsOn(d.transport, k) \in Seq(Operations({d.transport}, Answers))
        /\ Len(SignalsOn(d.transport, k)) = 0
    BY <2>2, CallsGoOn
  <2>4. e.offers = OffersOn(d.transport, k) /\ e.signals = <<>>
    BY <1>1, <1>2, <2>3
  <2>5. HoldsOne(e)
    BY <1>1, <1>2, <2>3, <2>4 DEF HoldsOne
  <2> QED
    BY <1>1, <1>3, <2>3, <2>4, <2>5, EmptySequence DEF SteadyOfferer
<1>5. ASSUME then \in Answers, d.pc.desc = "offered" PROVE SteadyOfferer(e)
  <2>1. k.offers = {} /\ k.signals \in Seq(Answers) /\ Len(k.signals) = 1
    <3>1. k.offers = {} /\ k.signals = <<then>>
      BY <1>5 DEF Awaited, NewConfig, Offering, Answers, Of
    <3> HIDE DEF k
    <3> QED
      BY <1>5, <3>1
  <2> HIDE DEF e, k
  <2>2. /\ SignalsOn(d.transport, k) \in Seq(Operations({d.transport}, Answers))
        /\ Len(SignalsOn(d.transport, k)) = 1 /\ OffersOn(d.transport, k) = {}
    BY <2>1, CallsGoOn
  <2>3. e.signals = SignalsOn(d.transport, k) /\ e.offers = {}
    BY <1>1, <1>2, <2>2
  <2>4. Len(e.signals) = 1 /\ e.offers = {} /\ \A l \in e.configs : l.offers = {}
    BY <1>1, <1>2, <2>2, <2>3
  <2>5. HoldsOne(e)
    BY <2>4 DEF HoldsOne
  <2> QED
    BY <1>1, <1>3, <1>5, <2>2, <2>3, <2>5 DEF SteadyOfferer
<1> QED
  BY <1>1, <1>4, <1>5

LEMMA OffererJoinsPending ==
    ASSUME NEW d, Sound(d), SteadyOfferer(d), ~ Holding(d), d.pc.mate = 0, d.recTimer = 0
    PROVE  LET e == JoinPending(d, Call("start"))
           IN SteadyOfferer(e) /\ e.pending = d.pending /\ e.attempts = d.attempts
<1> DEFINE with(k) == IF k.gen = d.pending THEN Awaited(k, Call("start")) ELSE k
           e == JoinPending(d, Call("start"))
<1>1. /\ DOMAIN e = Fields /\ e.gen = d.gen /\ e.configs = {with(k) : k \in d.configs}
      /\ e.pending = d.pending
      /\ e.transport = d.transport /\ e.open = d.open /\ e.closed = d.closed
      /\ e.role = d.role /\ e.rejected = d.rejected /\ e.remote = d.remote /\ e.pc = d.pc
      /\ e.transfer = d.transfer /\ e.signals = d.signals /\ e.offers = d.offers
      /\ e.attempts = d.attempts /\ e.recTimer = d.recTimer /\ e.connTimer = d.connTimer
  BY FieldsAre DEF Sound, JoinPending
<1>2. d.signals = <<>> /\ d.offers = {} /\ \A l \in d.configs : l.offers = {}
  BY DEF Holding
<1>3. \A k : Awaited(k, Call("start")) = [k EXCEPT !.offers = @ \cup {"start"}]
  BY DEF Awaited, Call, Offering
<1>4. \A k : Awaited(k, Call("start")).signals = k.signals
  <2>1. \A k : [k EXCEPT !.offers = @ \cup {"start"}].signals = k.signals
    OBVIOUS
  <2> QED
    BY <1>3, <2>1
<1>5. \A k \in d.configs : \A f \in Awaited(k, Call("start")).offers : f = "start"
  <2>2. \A k : \A f \in [k EXCEPT !.offers = @ \cup {"start"}].offers : f \in k.offers \/ f = "start"
    OBVIOUS
  <2> QED
    BY <1>2, <1>3, <2>2
<1>6. /\ \A k : with(k).gen = k.gen /\ with(k).replacing = k.replacing /\ with(k).signals = k.signals
      /\ \A k \in d.configs : /\ \A f \in with(k).offers : f = "start"
                              /\ with(k).offers # {} => k.gen = d.pending
  BY <1>2, <1>4, <1>5, AwaitedKeeps
<1> HIDE DEF with, e
<1>7. \A k, l \in d.configs : with(k).offers # {} /\ with(l).offers # {} => k = l
  BY <1>6 DEF Sound
<1>8. /\ \A k, l \in e.configs : k.offers # {} /\ l.offers # {} => k = l
      /\ \A k \in e.configs : \A f, g \in k.offers : f = g
      /\ \A k \in e.configs : k.signals = <<>>
      /\ \A k \in e.configs : \E l \in d.configs : k.gen = l.gen /\ k.replacing = l.replacing
  BY <1>1, <1>6, <1>7 DEF SteadyOfferer
<1>9. HoldsOne(e)
  BY <1>1, <1>2, <1>8 DEF HoldsOne, SteadyOfferer
<1>10. Steady(e)
  BY <1>1, <1>8 DEF Steady, SteadyOfferer
<1> QED
  BY <1>1, <1>2, <1>8, <1>9, <1>10 DEF SteadyOfferer, e

\* A peer that joins has an offer made, when none has been asked for.
LEMMA OffererStarts ==
    ASSUME NEW d, Sound(d), SteadyOfferer(d), Ready(d), d.role = "offerer"
    PROVE  LET e == HandlePeerJoined(d)
           IN SteadyOfferer(e) /\ e.pending = d.pending /\ e.attempts = d.attempts
<1>1. Call("start").type \in Offering
  BY DEF Call, Offering
<1>2. HandlePeerJoined(d) = EnsureTransport(d, Call("start"))
  BY DEF HandlePeerJoined, StartOffer, Ready
<1>3. CASE d.transport # 0
  BY <1>1, <1>2, <1>3, OffererProceeds DEF EnsureTransport, Ready
<1>4. CASE d.transport = 0
  BY <1>2, <1>4, OffererJoinsPending DEF EnsureTransport, Ready
<1> QED
  BY <1>3, <1>4

LEMMA OffererHears ==
    ASSUME NEW d, Sound(d), SteadyOfferer(d), HasOffered(d), NEW m \in Answers
    PROVE  LET e == HandleSignal(d, m)
           IN SteadyOfferer(e) /\ e.pending = d.pending /\ e.attempts = d.attempts
<1>1. m.type # "offer"
  BY DEF Answers, Of
<1>2. HandleSignal(d, m) \in {d, Proceed(d, m)}
  BY <1>1 DEF HandleSignal, EnsureTransport, HasOffered
<1> QED
  BY <1>2, OffererProceeds DEF HasOffered

\* A configuration of the offerer: the call that awaited it makes the offer.
LEMMA OffererIsConfigured ==
    ASSUME NEW d, Sound(d), SteadyOfferer(d), ~ d.closed, NEW k \in d.configs
    PROVE  LET e == ConfigDone(d, k)
           IN /\ SteadyOfferer(e) /\ e.pending \in {0, d.pending} /\ e.attempts = d.attempts
              /\ Ready(d) => Ready(e)
              /\ HasOffered(d) => HasOffered(e)
<1> DEFINE dropped == [d EXCEPT !.configs = @ \ {k}, !.pending = IF @ = k.gen THEN 0 ELSE @]
           f == Attached(dropped, k)
           e == ConfigDone(d, k)
<1>1. /\ DOMAIN dropped = Fields /\ dropped.gen = d.gen /\ dropped.configs = d.configs \ {k}
      /\ dropped.pending = IF d.pending = k.gen THEN 0 ELSE d.pending
      /\ dropped.transport = d.transport /\ dropped.open = d.open /\ dropped.closed = d.closed
      /\ dropped.role = d.role /\ dropped.rejected = d.rejected /\ dropped.remote = d.remote
      /\ dropped.pc = d.pc /\ dropped.transfer = d.transfer /\ dropped.signals = d.signals
      /\ dropped.offers = d.offers /\ dropped.attempts = d.attempts
      /\ dropped.recTimer = d.recTimer /\ dropped.connTimer = d.connTimer
  BY FieldsAre DEF Sound
<1>2. e = IF k.gen # d.gen THEN dropped ELSE Continue(f, k)
  BY DEF ConfigDone, IsCurrent
<1>3. ASSUME k.gen # d.gen
      PROVE  /\ SteadyOfferer(dropped) /\ dropped.pending \in {0, d.pending}
             /\ Ready(d) => Ready(dropped)
             /\ HasOffered(d) => HasOffered(dropped)
  <2> HIDE DEF dropped, e, f
  <2>1. HoldsOne(dropped) /\ (Holding(dropped) => Holding(d))
    BY <1>1 DEF HoldsOne, Holding, SteadyOfferer
  <2>2. Steady(dropped)
    BY <1>1 DEF Steady, SteadyOfferer
  <2> QED
    BY <1>1, <1>3, <2>1, <2>2 DEF SteadyOfferer, Ready, HasOffered, Steady
<1>4. ASSUME k.gen = d.gen
      PROVE  SteadyOfferer(e) /\ e.pending \in {0, d.pending} /\ ~ HasOffered(d)
             /\ e.attempts = d.attempts /\ (Ready(d) => Ready(e))
  <2> HIDE DEF dropped, e
  <2>1. d.transport = 0 /\ d.offers = {} /\ d.signals = <<>> /\ d.gen \in 1 .. d.gen
    BY <1>4 DEF Sound, SteadyOfferer
  <2>2. /\ DOMAIN f = Fields /\ f.gen = d.gen /\ f.configs = d.configs \ {k}
        /\ f.pending = dropped.pending /\ f.transport = d.gen /\ d.gen \in f.open
        /\ f.role = d.role /\ f.rejected = d.rejected /\ f.remote = d.remote
        /\ f.pc = NewPeerConnection /\ f.signals = d.signals /\ f.offers = d.offers
        /\ f.attempts = d.attempts /\ f.recTimer = d.recTimer /\ f.connTimer = d.connTimer
        /\ f.transfer = d.transfer \/ f.transfer = d.transfer + 1
    BY <1>1, <1>4, FieldsAre DEF Attached, NewTransfer
  <2> HIDE DEF f
  <2>3. /\ e.gen = d.gen /\ e.configs = d.configs \ {k}
        /\ e.pending = dropped.pending /\ e.transport = d.gen /\ d.gen \in e.open
        /\ e.role = d.role /\ e.rejected = d.rejected /\ e.remote = d.remote
        /\ e.pc = NewPeerConnection /\ e.transfer = f.transfer
        /\ e.signals = <<>> \o SignalsOn(d.gen, k)
        /\ e.offers = OffersOn(d.gen, k)
        /\ e.attempts = d.attempts /\ e.recTimer = d.recTimer /\ e.connTimer = d.connTimer
    BY <1>2, <1>4, <2>1, <2>2, FieldsAre DEF Continue
  <2>4. k.signals = <<>> /\ k.signals \in Seq(Answers) /\ Len(k.signals) = 0
    <3>1. k.signals = <<>>
      BY DEF SteadyOfferer
    <3> QED
      BY <3>1, EmptySequence
  <2>5. SignalsOn(d.gen, k) = <<>>
    <3>1. /\ SignalsOn(d.gen, k) \in Seq(Operations({d.gen}, Answers))
          /\ Len(SignalsOn(d.gen, k)) = 0
      BY <2>4, CallsGoOn
    <3> QED
      BY <3>1
  <2>6. e.signals = <<>>
    BY <2>3, <2>5
  <2>7. \A f1, g \in k.offers : f1 = g
    BY DEF SteadyOfferer, HoldsOne
  <2>8. /\ k.offers = {} => e.offers = {}
        /\ \A x \in e.offers : x.gen = d.gen
        /\ \A x, y \in e.offers : x = y
    <3>1. /\ k.offers = {} => OffersOn(d.gen, k) = {}
          /\ \A x \in OffersOn(d.gen, k) : x.gen = d.gen
          /\ \A x, y \in OffersOn(d.gen, k) : x = y
      <4>1. /\ k.offers = {} => OffersOn(d.gen, k) = {}
            /\ \A x \in OffersOn(d.gen, k) : x.gen = d.gen
        BY <2>4, CallsGoOn
      <4>2. \A x, y \in OffersOn(d.gen, k) : x = y
        BY <2>4, <2>7, CallsGoOn
      <4> QED
        BY <4>1, <4>2
    <3> QED
      BY <2>3, <3>1
  <2>9. HoldsOne(e) /\ (Holding(e) => Holding(d))
    BY <2>1, <2>3, <2>6, <2>8 DEF HoldsOne, Holding, SteadyOfferer
  <2>10. /\ NewPeerConnection \in PeerConnection /\ NewPeerConnection.mate = 0
         /\ NewPeerConnection.peer = "new"
    BY DEF NewPeerConnection, PeerConnection
  <2>11. \A l \in d.configs \ {k} : l.gen # d.gen
    BY <1>4 DEF Sound
  <2>12. Steady(e)
    BY <1>1, <1>4, <2>1, <2>2, <2>3, <2>10, <2>11 DEF Steady, SteadyOfferer
  <2>13. e.signals \in Seq(Operations({e.transport}, Answers))
    BY <2>6, EmptySequence
  <2>14. SteadyOfferer(e)
    BY <2>1, <2>3, <2>6, <2>8, <2>9, <2>10, <2>12, <2>13 DEF SteadyOfferer
  <2>15. Ready(d) => Ready(e)
    BY <2>1, <2>3, <2>9, <2>10 DEF Ready
  <2> QED
    BY <1>1, <1>4, <2>1, <2>3, <2>14, <2>15 DEF HasOffered
<1> QED
  BY <1>1, <1>2, <1>3, <1>4

LEMMA OffererHasOffered ==
    ASSUME NEW d, Sound(d), SteadyOfferer(d), NEW o \in d.offers
    PROVE  LET e == OfferDone(d, o)
           IN /\ SteadyOfferer(e) /\ HasOffered(e)
              /\ e.pending = d.pending /\ e.attempts = d.attempts
<1> DEFINE made == [d EXCEPT !.offers = @ \ {o}, !.pc.desc = "offered"]
           shown == IF o.for = "start" THEN Updated(made, "NEGOTIATING") ELSE made
           e == [shown EXCEPT !.connTimer = d.gen]
<1>1. d.pc \in PeerConnection /\ DOMAIN d = Fields
  BY DEF Sound, SteadyOfferer, Steady
<1>2. /\ DOMAIN made = Fields /\ made.gen = d.gen /\ made.configs = d.configs
      /\ made.pending = d.pending /\ made.transport = d.transport /\ made.open = d.open
      /\ made.role = d.role /\ made.rejected = d.rejected /\ made.remote = d.remote
      /\ made.pc = [d.pc EXCEPT !.desc = "offered"] /\ made.signals = d.signals
      /\ made.offers = d.offers \ {o} /\ made.transfer = d.transfer
      /\ made.attempts = d.attempts /\ made.recTimer = d.recTimer
  BY <1>1, FieldsAre
<1>3. /\ made.pc \in PeerConnection /\ made.pc.desc = "offered"
      /\ made.pc.peer = d.pc.peer /\ made.pc.mate = d.pc.mate
  BY <1>1, <1>2 DEF PeerConnection
<1> HIDE DEF made
<1>4. /\ made.offers = {} /\ d.signals = <<>> /\ \A k \in d.configs : k.offers = {}
      /\ d.transport # 0 /\ d.pc.mate = 0 /\ d.recTimer = 0
  BY <1>2 DEF SteadyOfferer, HoldsOne, Holding
<1>5. ~ Holding(made) /\ HoldsOne(made)
  BY <1>2, <1>4 DEF Holding, HoldsOne, SteadyOfferer
<1>6. Steady(made)
  BY <1>2, <1>3 DEF Steady, SteadyOfferer
<1>7. SteadyOfferer(made) /\ HasOffered(made)
  BY <1>2, <1>3, <1>4, <1>5, <1>6 DEF SteadyOfferer, HasOffered
<1>8. SameRoute(d, made)
  BY <1>1, <1>2, FieldsAre DEF SameRoute, made
<1>9. /\ DOMAIN shown = Fields /\ SteadyOfferer(shown) /\ HasOffered(shown)
      /\ shown.pending = d.pending /\ shown.attempts = d.attempts /\ Sound(shown)
  <2>1. shown = made \/ Alike(made, shown)
    BY <1>2, ShownAlike
  <2>2. Sound(made)
    BY <1>8, SameIsSound
  <2>3. Sound(shown)
    BY <2>2, QuietMethods, SameIsSound
  <2> HIDE DEF shown
  <2>4. CASE shown = made
    BY <1>2, <1>7, <2>2, <2>4
  <2>5. CASE Alike(made, shown)
    BY <1>2, <1>7, <2>3, <2>5, AlikeIsSteady DEF Alike
  <2> QED
    BY <2>1, <2>4, <2>5
<1> HIDE DEF shown
<1>10. /\ SteadyOfferer(e) /\ e.pending = d.pending /\ e.attempts = d.attempts
       /\ e.offers = shown.offers /\ e.signals = shown.signals /\ e.configs = shown.configs
       /\ e.pc = shown.pc /\ e.recTimer = shown.recTimer /\ e.transport = shown.transport
  BY <1>9, OffererTimers, FieldsAre
<1>11. OfferDone(d, o) = e
  BY DEF OfferDone, shown, made
<1> HIDE DEF e
<1>12. HasOffered(e)
  BY <1>9, <1>10 DEF HasOffered, Holding
<1> QED
  BY <1>10, <1>11, <1>12

\* The answer is accepted.
LEMMA OffererAccepts ==
    ASSUME NEW d, Sound(d), SteadyOfferer(d), NEW i \in DOMAIN d.signals
    PROVE  LET e == Described(d, i)
           IN SteadyOfferer(e) /\ e.pending = d.pending /\ e.attempts = d.attempts
<1> DEFINE taken == SignalTaken(d, i)
           mate == d.signals[i].message.from
           e == Described(d, i)
<1>1. d.pc \in PeerConnection /\ DOMAIN d = Fields /\ Len(d.signals) <= 1
      /\ d.signals \in Seq(Operations({d.transport}, Answers))
  BY DEF Sound, SteadyOfferer, Steady, HoldsOne
<1>2. /\ d.signals # <<>> /\ Len(d.signals) = 1
       /\ d.signals[i] \in Operations({d.transport}, Answers)
  <2>1. /\ d.signals # <<>> /\ Len(d.signals) > 0 /\ Len(d.signals) \in Nat
        /\ d.signals[i] \in Operations({d.transport}, Answers)
    BY <1>1, SequencesAre
  <2> DEFINE n == Len(d.signals)
  <2>2. n > 0 /\ n \in Nat /\ n <= 1
    BY <1>1, <2>1
  <2> HIDE DEF n
  <2>3. n = 1
    BY <2>2
  <2> QED
    BY <2>1, <2>3 DEF n
<1>3. mate \in Nat
  BY <1>2 DEF Operations, Answers, Of
<1>4. /\ RemoveAt(d.signals, i) \in Seq(Operations({d.transport}, Answers))
      /\ Len(RemoveAt(d.signals, i)) = 0
  BY <1>1, <1>2, OneRemoved
<1>5. /\ e.gen = d.gen /\ e.configs = d.configs
      /\ e.pending = d.pending /\ e.transport = d.transport /\ e.open = d.open
      /\ e.role = d.role /\ e.rejected = d.rejected /\ e.remote = d.remote
      /\ e.pc = [d.pc EXCEPT !.desc = "stable", !.mate = mate]
      /\ e.signals = RemoveAt(d.signals, i)
      /\ e.offers = d.offers /\ e.transfer = d.transfer
      /\ e.attempts = d.attempts /\ e.recTimer = d.recTimer
  BY <1>1, FieldsAre DEF Described, SignalTaken
<1>6. e.signals = <<>>
  BY <1>4, <1>5
<1>7. /\ d.offers = {} /\ d.recTimer = 0 /\ d.pc.mate = 0 /\ d.transport # 0
      /\ \A k \in d.configs : k.offers = {}
  BY <1>2 DEF SteadyOfferer, HoldsOne, Holding
<1>8. e.pc \in PeerConnection /\ e.pc.peer = "new"
  <2>1. d.pc.peer = "new"
    BY <1>7 DEF SteadyOfferer
  <2> HIDE DEF e, mate
  <2> QED
    BY <1>1, <1>3, <1>5, <2>1 DEF PeerConnection
<1> HIDE DEF e
<1>9. ~ Holding(e)
  BY <1>5, <1>6, <1>7 DEF Holding
<1>10. HoldsOne(e)
  BY <1>5, <1>6, <1>7 DEF HoldsOne, SteadyOfferer
<1>11. Steady(e)
  BY <1>5, <1>8 DEF Steady, SteadyOfferer
<1>12. e.signals \in Seq(Operations({e.transport}, Answers))
  BY <1>6, EmptySequence
<1>13. SteadyOfferer(e)
  BY <1>5, <1>6, <1>7, <1>8, <1>9, <1>10, <1>11, <1>12 DEF SteadyOfferer
<1> QED
  BY <1>5, <1>13 DEF e

\* The fields of a peer connection that its callbacks set.
LEMMA OffererPeerIs ==
    ASSUME NEW d, Sound(d), SteadyOfferer(d), d.pc.mate # 0,
           NEW pc \in PeerConnection, pc.mate = d.pc.mate, pc.desc = d.pc.desc
    PROVE  LET e == [d EXCEPT !.pc = pc]
           IN SteadyOfferer(e) /\ e.pending = d.pending /\ e.attempts = d.attempts
<1> DEFINE e == [d EXCEPT !.pc = pc]
<1>1. /\ e.gen = d.gen /\ e.configs = d.configs
      /\ e.pending = d.pending /\ e.transport = d.transport /\ e.open = d.open
      /\ e.role = d.role /\ e.rejected = d.rejected /\ e.remote = d.remote
      /\ e.pc = pc /\ e.signals = d.signals
      /\ e.offers = d.offers /\ e.transfer = d.transfer
      /\ e.attempts = d.attempts /\ e.recTimer = d.recTimer
  BY FieldsAre DEF Sound
<1> HIDE DEF e
<1>2. HoldsOne(e) /\ (Holding(e) <=> Holding(d))
  BY <1>1 DEF HoldsOne, Holding, SteadyOfferer
<1>3. Steady(e)
  BY <1>1 DEF Steady, SteadyOfferer
<1>4. SteadyOfferer(e)
  BY <1>1, <1>2, <1>3 DEF SteadyOfferer
<1> QED
  BY <1>1, <1>4 DEF e

LEMMA OffererPeerState ==
    ASSUME NEW d, Sound(d), SteadyOfferer(d), d.pc.mate # 0,
           NEW peer \in {"connecting", "connected", "disconnected", "failed"}
    PROVE  LET e == PeerState(d, peer)
           IN /\ SteadyOfferer(e) /\ e.pending = d.pending
              /\ e.attempts = d.attempts \/ e.pc.peer = "connected"
<1> DEFINE moved == [d EXCEPT !.pc.peer = peer]
           calm == [TimersCleared(moved) EXCEPT !.attempts = 0]
           told == TransferInterrupted(moved)
           marked == MarkInterrupted(told)
           lost == Updated(marked, "RECONNECTING")
<1>1. d.pc \in PeerConnection /\ DOMAIN d = Fields
  BY DEF Sound, SteadyOfferer, Steady
<1>2. LET pc == [d.pc EXCEPT !.peer = peer]
      IN /\ pc \in PeerConnection /\ pc.mate = d.pc.mate /\ pc.desc = d.pc.desc
         /\ pc.peer = peer /\ moved = [d EXCEPT !.pc = pc]
  BY <1>1 DEF PeerConnection
<1>3. /\ SteadyOfferer(moved) /\ Sound(moved) /\ moved.pending = d.pending
      /\ moved.attempts = d.attempts
  BY <1>2, OffererPeerIs, AsideIsSound
<1>4. DOMAIN moved = Fields /\ moved.pc.peer = peer /\ moved.pc.mate = d.pc.mate
      /\ moved.pc = [d.pc EXCEPT !.peer = peer]
  BY <1>1, <1>2, FieldsAre
<1> HIDE DEF moved
<1>5. ASSUME peer = "connected"
      PROVE  /\ SteadyOfferer(Updated(calm, "CONNECTED"))
             /\ Updated(calm, "CONNECTED").pending = d.pending
             /\ Updated(calm, "CONNECTED").pc.peer = "connected"
  <2>1. Sound(TimersCleared(moved)) /\ SteadyOfferer(TimersCleared(moved))
    BY <1>3, QuietMethods, SameIsSound, OffererTimers
  <2>2. SteadyOfferer(calm)
    <3>1. 0 \in 0 .. MaxReplacementAttempts
      BY CoordinatorAssumption
    <3> QED
      BY <2>1, <3>1, OffererTimers
  <2>3. DOMAIN calm = Fields /\ calm.pending = d.pending /\ calm.pc.peer = "connected"
    BY <1>3, <1>4, <1>5, FieldsAre DEF TimersCleared
  <2> HIDE DEF calm
  <2>4. Alike(calm, Updated(calm, "CONNECTED"))
    BY <2>3, ShownAlike
  <2> QED
    BY <2>2, <2>3, <2>4, AlikeIsSteady DEF Alike
<1>6. /\ SteadyOfferer(lost) /\ Sound(lost) /\ lost.pending = d.pending
      /\ lost.attempts = d.attempts /\ (Holding(lost) <=> Holding(moved))
  <2>1. Alike(moved, told) /\ Sound(told)
    BY <1>3, <1>4, ShownAlike, QuietMethods, SameIsSound
  <2> HIDE DEF told
  <2>2. Alike(told, marked) /\ Sound(marked)
    BY <2>1, ShownAlike, QuietMethods, SameIsSound DEF Alike
  <2> HIDE DEF marked
  <2>3. Alike(marked, lost) /\ Sound(lost)
    <3>1. Sound(lost)
      BY <2>2, QuietMethods, SameIsSound
    <3>2. DOMAIN marked = Fields
      BY <2>2 DEF Alike
    <3>3. Alike(marked, lost)
      BY <3>2, ShownAlike
    <3> QED
      BY <3>1, <3>3
  <2> HIDE DEF lost
  <2> QED
    BY <1>3, <2>1, <2>2, <2>3, AlikeIsSteady DEF Alike
<1>7. ~ Holding(lost)
  BY <1>3, <1>4, <1>6 DEF SteadyOfferer
<1>8. /\ SteadyOfferer(Updated(moved, "CONNECTING"))
      /\ Updated(moved, "CONNECTING").pending = d.pending
      /\ Updated(moved, "CONNECTING").attempts = d.attempts
  BY <1>3, <1>4, ShownAlike, AlikeIsSteady DEF Alike
<1>9. PeerState(d, peer) = IF peer = "connected" THEN Updated(calm, "CONNECTED")
                           ELSE IF peer = "connecting" THEN Updated(moved, "CONNECTING")
                           ELSE IF d.role = "offerer" /\ ~ d.closed THEN ScheduleRecovery(lost)
                           ELSE lost
  BY DEF PeerState, moved
<1> HIDE DEF calm, lost
<1> QED
  BY <1>5, <1>6, <1>7, <1>8, <1>9, OffererSchedules

LEMMA OffererIsQuiet ==
    ASSUME NEW d, Sound(d), SteadyOfferer(d)
    PROVE  /\ LET e == Published(d, "ACTIVE")
              IN SteadyOfferer(e) /\ e.pending = d.pending /\ e.attempts = d.attempts
           /\ LET e == Updated(d, "DISCONNECTED")
              IN /\ SteadyOfferer(e) /\ e.pending = d.pending /\ e.attempts = d.attempts
                 /\ Ready(d) => Ready(e)
                 /\ HasOffered(d) => HasOffered(e)
           /\ LET e == IceConnected(d)
              IN SteadyOfferer(e) /\ e.pending = d.pending /\ e.attempts = d.attempts
           /\ d.pc.mate # 0 =>
              LET e == ChannelOpen(d)
              IN SteadyOfferer(e) /\ e.pending = d.pending /\ e.attempts = d.attempts
<1>1. DOMAIN d = Fields
  BY DEF Sound
<1>2. Alike(d, Published(d, "ACTIVE")) /\ Alike(d, Updated(d, "DISCONNECTED"))
  BY <1>1, ShownAlike
<1>3. LET e == IceConnected(d)
      IN SteadyOfferer(e) /\ e.pending = d.pending /\ e.attempts = d.attempts
  <2> DEFINE e == TimersCleared(d)
  <2>1. /\ SteadyOfferer(e) /\ e.pending = d.pending /\ e.attempts = d.attempts
        /\ DOMAIN e = Fields
    <3>1. e.pending = d.pending /\ e.attempts = d.attempts /\ DOMAIN e = Fields
      BY <1>1, FieldsAre DEF TimersCleared
    <3> QED
      BY <3>1, OffererTimers
  <2>2. IceConnected(d) \in {d, Updated(e, "CONNECTED")}
    BY DEF IceConnected
  <2> HIDE DEF e
  <2>3. Alike(e, Updated(e, "CONNECTED"))
    BY <2>1, ShownAlike
  <2> QED
    BY <2>1, <2>2, <2>3, AlikeIsSteady DEF Alike
<1>4. ASSUME d.pc.mate # 0
      PROVE  LET e == ChannelOpen(d)
             IN SteadyOfferer(e) /\ e.pending = d.pending /\ e.attempts = d.attempts
  <2> DEFINE pc == [d.pc EXCEPT !.channel = "open"]
             e == [d EXCEPT !.pc = pc]
  <2>1. pc \in PeerConnection /\ pc.mate = d.pc.mate /\ pc.desc = d.pc.desc
    BY DEF PeerConnection, SteadyOfferer, Steady
  <2>2. SteadyOfferer(e) /\ e.pending = d.pending /\ e.attempts = d.attempts
    <3> HIDE DEF pc
    <3> QED
      BY <1>4, <2>1, OffererPeerIs
  <2>3. DOMAIN e = Fields
    BY <1>1
  <2>4. ChannelOpen(d) \in {e, Published(e, "ACTIVE")}
    BY DEF ChannelOpen
  <2> HIDE DEF e
  <2>5. Alike(e, Published(e, "ACTIVE"))
    BY <2>3, ShownAlike
  <2> QED
    BY <2>2, <2>4, <2>5, AlikeIsSteady DEF Alike
<1> QED
  BY <1>2, <1>3, <1>4, AlikeIsSteady DEF Alike

\* The timers of the offerer: a queued replacement runs when nothing is under
\* way; a connection has not come up when there is no more to wait for.
LEMMA OffererTimersFire ==
    ASSUME NEW d, Sound(d), SteadyOfferer(d)
    PROVE  /\ d.recTimer # 0 =>
              LET e == RecoveryTimer(d)
              IN /\ SteadyOfferer(e)
                 /\ \/ e.pending = d.pending /\ e.attempts = d.attempts
                    \/ e.attempts = d.attempts + 1
           /\ ~ Holding(d) \/ d.pc.peer = "connected" =>
              LET e == ConnectionTimer(d)
              IN SteadyOfferer(e) /\ e.pending = d.pending /\ e.attempts = d.attempts
<1>1. DOMAIN d = Fields
  BY DEF Sound
<1>2. ASSUME d.recTimer # 0
      PROVE  LET e == RecoveryTimer(d)
             IN /\ SteadyOfferer(e)
                /\ \/ e.pending = d.pending /\ e.attempts = d.attempts
                   \/ e.attempts = d.attempts + 1
  <2> DEFINE f == [d EXCEPT !.recTimer = 0]
  <2>1. Sound(f) /\ SteadyOfferer(f)
    BY AsideIsSound, OffererTimers
  <2>2. /\ f.recTimer = 0 /\ f.pending = d.pending /\ f.attempts = d.attempts
        /\ f.offers = d.offers /\ f.signals = d.signals /\ f.configs = d.configs
    BY <1>1, FieldsAre
  <2>3. ~ Holding(d)
    BY <1>2 DEF SteadyOfferer
  <2>4. RecoveryTimer(d) = StartReplacement(f, d.recTimer)
    BY DEF RecoveryTimer
  <2> HIDE DEF f
  <2>5. ~ Holding(f)
    BY <2>2, <2>3 DEF Holding
  <2> QED
    BY <2>1, <2>2, <2>4, <2>5, OffererReplaces
<1>3. ASSUME ~ Holding(d) \/ d.pc.peer = "connected"
      PROVE  LET e == ConnectionTimer(d)
             IN SteadyOfferer(e) /\ e.pending = d.pending /\ e.attempts = d.attempts
  <2> DEFINE f == [d EXCEPT !.connTimer = 0]
  <2>1. Sound(f) /\ SteadyOfferer(f)
    BY AsideIsSound, OffererTimers
  <2>2. /\ f.pending = d.pending /\ f.attempts = d.attempts
        /\ f.offers = d.offers /\ f.signals = d.signals /\ f.configs = d.configs
    BY <1>1, FieldsAre
  <2>3. ConnectionTimer(d) = f \/ (ConnectionTimer(d) = FailAttempt(f, d.connTimer) /\ ~ Holding(d))
    BY <1>3 DEF ConnectionTimer
  <2> HIDE DEF f
  <2>4. Holding(f) <=> Holding(d)
    BY <2>2 DEF Holding
  <2> QED
    BY <2>1, <2>2, <2>3, <2>4, OffererFails
<1> QED
  BY <1>2, <1>3

-----------------------------------------------------------------------------
(* The answerer, once it is in its session.                                  *)

LEMMA NothingAwaited ==
    ASSUME NEW generation, NEW replacing
    PROVE  /\ Awaited(NewConfig(generation, replacing), Wait).gen = generation
           /\ Awaited(NewConfig(generation, replacing), Wait).signals = <<>>
           /\ Awaited(NewConfig(generation, replacing), Wait).offers = {}
<1>1. Wait.type = "wait"
  BY DEF Wait, Call
<1>2. \A k, then : then.type = "wait" => Awaited(k, then) = k
  BY DEF Awaited, Offering
<1> DEFINE n == NewConfig(generation, replacing)
<1>3. n.gen = generation /\ n.signals = <<>> /\ n.offers = {}
  BY DEF NewConfig
<1> HIDE DEF n
<1>4. Awaited(n, Wait) = n
  BY <1>1, <1>2
<1> QED
  BY <1>3, <1>4 DEF n

LEMMA Signalled ==
    ASSUME NEW then, then \in Offers \cup Joins
    PROVE  /\ \A k : /\ Awaited(k, then).offers = k.offers
                     /\ Awaited(k, then).signals \in {k.signals, Append(k.signals, then)}
           /\ \A generation, replacing :
                 /\ Awaited(NewConfig(generation, replacing), then).signals = <<then>>
                 /\ Awaited(NewConfig(generation, replacing), then).offers = {}
                 /\ Awaited(NewConfig(generation, replacing), then).gen = generation
                 /\ Awaited(NewConfig(generation, replacing), then).replacing = replacing
<1>1. \A k : Awaited(k, then) = [k EXCEPT !.signals = Append(@, then)]
  BY DEF Awaited, Offering, Offers, Joins, Of
<1>2. \A k : /\ [k EXCEPT !.signals = Append(@, then)].offers = k.offers
             /\ [k EXCEPT !.signals = Append(@, then)].signals \in {k.signals, Append(k.signals, then)}
  OBVIOUS
<1>3. \A generation, replacing :
         /\ Awaited(NewConfig(generation, replacing), then).signals = <<then>>
         /\ Awaited(NewConfig(generation, replacing), then).offers = {}
         /\ Awaited(NewConfig(generation, replacing), then).gen = generation
         /\ Awaited(NewConfig(generation, replacing), then).replacing = replacing
  <2> SUFFICES ASSUME NEW generation, NEW replacing
               PROVE  LET k == Awaited(NewConfig(generation, replacing), then)
                      IN /\ k.signals = <<then>> /\ k.offers = {}
                         /\ k.gen = generation /\ k.replacing = replacing
    OBVIOUS
  <2>1. Awaited(NewConfig(generation, replacing), then)
           = [gen |-> generation, replacing |-> replacing, offers |-> {},
              signals |-> Append(<<>>, then)]
    BY <1>1 DEF NewConfig
  <2>2. Append(<<>>, then) = <<then>>
    OBVIOUS
  <2> QED
    BY <2>1, <2>2
<1> QED
  BY <1>1, <1>2, <1>3

LEMMA OneCall ==
    ASSUME NEW then, then \in Offers \cup Joins
    PROVE  /\ <<then>> \in Seq(Offers \cup Joins) /\ HasOne(<<then>>, Offers)
           /\ then \in Joins => ~ Has(<<then>>, Offers)
<1>1. <<then>> \in Seq(Offers \cup Joins) /\ DOMAIN <<then>> = {1} /\ <<then>>[1] = then
  OBVIOUS
<1>2. then \in Joins => then \notin Offers
  BY DEF Joins, Offers, Of
<1> QED
  BY <1>1, <1>2 DEF Has, HasOne

LEMMA AnswererAsksForOne ==
    ASSUME NEW d, Sound(d), Untouched(d)
    PROVE  LET e == EnsureTransport(d, Wait)
           IN SteadyAnswerer(e) /\ ~ Owes(e)
<1> DEFINE k == Awaited(NewConfig(d.gen + 1, FALSE), Wait)
           e == BeginConfig(d, FALSE, Wait)
<1>1. k.gen = d.gen + 1 /\ k.signals = <<>> /\ k.offers = {}
  <2>1. \A replacing : LET l == Awaited(NewConfig(d.gen + 1, replacing), Wait)
                       IN l.gen = d.gen + 1 /\ l.signals = <<>> /\ l.offers = {}
    BY NothingAwaited
  <2> QED
    BY <2>1
<1>2. /\ DOMAIN e = Fields /\ e.gen = d.gen + 1 /\ e.configs = {k}
      /\ e.pending = d.gen + 1 /\ e.transport = 0 /\ e.rejected = {} /\ e.remote \in Nat
      /\ e.pc = NewPeerConnection /\ e.transfer = 0 /\ e.signals = <<>> /\ e.offers = {}
      /\ e.recTimer = 0 /\ e.connTimer = 0
  BY <1>1, FieldsAre DEF Sound, Untouched, BeginConfig, BeginTransport
<1>3. EnsureTransport(d, Wait) = e
  BY DEF EnsureTransport, Untouched
<1>4. d.gen + 1 # 0
  BY DEF Sound
<1> HIDE DEF k, e
<1>5. NewPeerConnection \in PeerConnection
  BY DEF NewPeerConnection, PeerConnection
<1>6. Steady(e)
  BY <1>1, <1>2, <1>5 DEF Steady
<1>7. ~ Asked(e) /\ ~ Answering(e)
  BY <1>1, <1>2, EmptySequence DEF Asked, Answering
<1>8. SteadyAnswerer(e)
  BY <1>1, <1>2, <1>4, <1>6, <1>7, EmptySequence DEF SteadyAnswerer, Configured
<1> QED
  BY <1>3, <1>7, <1>8 DEF Owes

\* A signal on the transport that there is.
LEMMA AnswererProceeds ==
    ASSUME NEW d, Sound(d), SteadyAnswerer(d), d.transport # 0,
           NEW then, then \in Joins \/ (then \in Offers /\ ~ Owes(d))
    PROVE  LET e == Proceed(d, then)
           IN SteadyAnswerer(e) /\ (then \in Joins => (Owes(e) => Owes(d)))
<1> DEFINE k == Awaited(NewConfig(d.transport, FALSE), then)
           e == Proceed(d, then)
           op == [gen |-> d.transport, message |-> then]
           All == Operations(Nat, Joins) \cup Operations({d.transport}, Offers)
           Kind == Operations(Nat, Offers)
<1>1. then \in Offers \cup Joins
  OBVIOUS
<1>2. k.offers = {} /\ k.signals = <<then>>
  <2>1. \A generation, replacing :
           /\ Awaited(NewConfig(generation, replacing), then).signals = <<then>>
           /\ Awaited(NewConfig(generation, replacing), then).offers = {}
    BY <1>1, Signalled
  <2> QED
    BY <2>1
<1>3. OffersOn(d.transport, k) = {} /\ SignalsOn(d.transport, k) = <<op>>
  <2> HIDE DEF k
  <2>1. OffersOn(d.transport, k) = {}
    BY <1>2 DEF OffersOn
  <2>2. DOMAIN <<then>> = 1 .. 1 /\ <<then>>[1] = then
    OBVIOUS
  <2>3. SignalsOn(d.transport, k) = [i \in 1 .. 1 |-> [gen |-> d.transport, message |-> <<then>>[i]]]
    BY <1>2, <2>2 DEF SignalsOn
  <2>4. [i \in 1 .. 1 |-> [gen |-> d.transport, message |-> <<then>>[i]]] = <<op>>
    OBVIOUS
  <2> QED
    BY <2>1, <2>3, <2>4
<1>4. /\ e.gen = d.gen /\ e.configs = d.configs /\ e.pending = d.pending
      /\ e.offers = d.offers \cup OffersOn(d.transport, k)
      /\ e.signals = d.signals \o SignalsOn(d.transport, k)
      /\ e.transport = d.transport /\ e.open = d.open
      /\ e.rejected = d.rejected /\ e.remote = d.remote /\ e.pc = d.pc
      /\ e.transfer = d.transfer
      /\ e.recTimer = d.recTimer /\ e.connTimer = d.connTimer
  BY FieldsAre DEF Sound, Proceed, Continue
<1>5. d.transport \in Nat
  BY DEF Sound
<1>6. /\ op \in All
      /\ then \in Joins => op \notin Kind
      /\ d.signals \in Seq(All) /\ HasOne(d.signals, Kind)
  <2>1. op \in All
    BY <1>5 DEF Operations
  <2>2. op.message = then
    OBVIOUS
  <2>3. then \in Joins => then \notin Offers
    BY DEF Joins, Offers, Of
  <2>4. op \in Kind => op.message \in Offers
    BY DEF Operations
  <2> QED
    BY <2>1, <2>2, <2>3, <2>4 DEF SteadyAnswerer
<1> HIDE DEF e, k, op, All, Kind
<1>7. e.offers = {} /\ e.signals = Append(d.signals, op)
  BY <1>3, <1>4, <1>6 DEF SteadyAnswerer
<1>8. /\ e.signals \in Seq(All)
      /\ Has(e.signals, Kind) => Has(d.signals, Kind) \/ op \in Kind
      /\ HasOne(e.signals, Kind)
  <2>1. op \in Kind => ~ Has(d.signals, Kind)
    BY <1>6 DEF Owes, Answering, Kind
  <2> QED
    BY <1>6, <1>7, <2>1, OneAppended
<1>9. Asked(e) <=> Asked(d)
  BY <1>4 DEF Asked
<1>10. Answering(e) <=> Has(e.signals, Kind)
  BY DEF Answering, Kind
<1>11. Answering(d) <=> Has(d.signals, Kind)
  BY DEF Answering, Kind
<1>12. Steady(e)
  BY <1>4 DEF Steady, SteadyAnswerer
<1>13. ~ (Asked(e) /\ Answering(e))
  BY <1>6, <1>8, <1>9, <1>10, <1>11 DEF SteadyAnswerer, Owes
<1>14. SteadyAnswerer(e)
  BY <1>4, <1>7, <1>8, <1>10, <1>12, <1>13 DEF SteadyAnswerer, All, Kind
<1> QED
  BY <1>6, <1>8, <1>9, <1>10, <1>11, <1>14 DEF e, Owes

\* A signal that joins the configuration on its way.
LEMMA AnswererJoinsPending ==
    ASSUME NEW d, Sound(d), SteadyAnswerer(d),
           NEW then, then \in Joins \/ (then \in Offers /\ ~ Owes(d))
    PROVE  LET e == JoinPending(d, then)
           IN SteadyAnswerer(e) /\ (then \in Joins => (Owes(e) => Owes(d)))
<1> DEFINE with(k) == IF k.gen = d.pending THEN Awaited(k, then) ELSE k
           e == JoinPending(d, then)
<1>1. /\ e.gen = d.gen /\ e.configs = {with(k) : k \in d.configs} /\ e.pending = d.pending
      /\ e.transport = d.transport /\ e.open = d.open
      /\ e.rejected = d.rejected /\ e.remote = d.remote /\ e.pc = d.pc
      /\ e.transfer = d.transfer /\ e.signals = d.signals /\ e.offers = d.offers
      /\ e.recTimer = d.recTimer /\ e.connTimer = d.connTimer
  BY FieldsAre DEF Sound, JoinPending
<1>2. then \in Offers \cup Joins /\ (then \in Joins => then \notin Offers)
  BY DEF Offers, Joins, Of
<1>3. \A k : /\ with(k).gen = k.gen /\ with(k).replacing = k.replacing
             /\ with(k).offers = k.offers
             /\ \/ with(k).signals = k.signals
                \/ k.gen = d.pending /\ with(k).signals = Append(k.signals, then)
  <2>1. \A k : /\ Awaited(k, then).offers = k.offers
               /\ Awaited(k, then).signals \in {k.signals, Append(k.signals, then)}
    BY <1>2, Signalled
  <2> QED
    BY <2>1, AwaitedKeeps
<1> HIDE DEF with, e
<1>4. ASSUME NEW k \in d.configs
      PROVE  /\ with(k).offers = {}
             /\ with(k).signals \in Seq(Offers \cup Joins)
             /\ HasOne(with(k).signals, Offers)
             /\ Has(with(k).signals, Offers)
                  => Has(k.signals, Offers) \/ (k.gen = d.pending /\ then \in Offers)
  <2>1. /\ k.offers = {} /\ k.signals \in Seq(Offers \cup Joins) /\ HasOne(k.signals, Offers)
        /\ Has(k.signals, Offers) => Asked(d)
    BY DEF SteadyAnswerer, Configured, Asked
  <2>2. CASE with(k).signals = k.signals
    BY <1>3, <2>1, <2>2
  <2>3. CASE k.gen = d.pending /\ with(k).signals = Append(k.signals, then)
    <3>1. then \in Offers => ~ Has(k.signals, Offers)
      BY <1>2, <2>1 DEF Owes
    <3>2. /\ Append(k.signals, then) \in Seq(Offers \cup Joins)
          /\ Has(Append(k.signals, then), Offers) => Has(k.signals, Offers) \/ then \in Offers
          /\ HasOne(Append(k.signals, then), Offers)
      BY <1>2, <2>1, <3>1, OneAppended
    <3> QED
      BY <1>3, <2>1, <2>3, <3>2
  <2> QED
    BY <1>3, <2>2, <2>3
<1>5. ASSUME NEW k \in d.configs, NEW l \in d.configs,
             Has(with(k).signals, Offers), Has(with(l).signals, Offers)
      PROVE  k = l
  <2>1. CASE then \in Joins
    BY <1>2, <1>4, <1>5, <2>1 DEF SteadyAnswerer, Configured
  <2>2. CASE then \notin Joins
    <3>1. ~ Has(k.signals, Offers) /\ ~ Has(l.signals, Offers)
      BY <2>2 DEF Owes, Asked
    <3>2. k.gen = l.gen
      BY <1>4, <1>5, <3>1
    <3> QED
      BY <3>2 DEF Sound
  <2> QED
    BY <2>1, <2>2
<1>6. Configured(e.configs)
  BY <1>1, <1>4, <1>5 DEF Configured
<1>7. then \in Joins => (Asked(e) => Asked(d))
  BY <1>1, <1>2, <1>4 DEF Asked
<1>8. Answering(e) <=> Answering(d)
  BY <1>1 DEF Answering
<1>9. Steady(e)
  BY <1>1, <1>3 DEF Steady, SteadyAnswerer
<1>10. ~ (Asked(e) /\ Answering(e))
  BY <1>7, <1>8 DEF SteadyAnswerer, Owes
<1>11. SteadyAnswerer(e)
  BY <1>1, <1>6, <1>8, <1>9, <1>10 DEF SteadyAnswerer
<1> QED
  BY <1>7, <1>8, <1>11 DEF e, Owes

LEMMA AnswererHears ==
    ASSUME NEW d, Sound(d), SteadyAnswerer(d),
           NEW then, then \in Joins \/ (then \in Offers /\ ~ Owes(d))
    PROVE  LET e == EnsureTransport(d, then)
           IN SteadyAnswerer(e) /\ (then \in Joins => (Owes(e) => Owes(d)))
<1>1. CASE d.transport # 0
  BY <1>1, AnswererProceeds DEF EnsureTransport
<1>2. CASE d.transport = 0
  <2>1. EnsureTransport(d, then) = JoinPending(d, then)
    BY <1>2 DEF EnsureTransport, SteadyAnswerer
  <2> QED
    BY <2>1, AnswererJoinsPending
<1> QED
  BY <1>1, <1>2

\* An offer that replaces the connection that there is.
LEMMA AnswererReplaces ==
    ASSUME NEW d, Sound(d), SteadyAnswerer(d), ~ Owes(d), NEW m \in Offers,
           NEW replacing, replacing = TRUE
    PROVE  SteadyAnswerer(BeginConfig(Detached(d), replacing, m))
<1> DEFINE f == Detached(d)
           k == Awaited(NewConfig(d.gen + 1, replacing), m)
           e == BeginConfig(f, replacing, m)
<1>1. /\ DOMAIN f = Fields /\ f.gen = d.gen /\ f.configs = d.configs /\ f.transport = 0
      /\ f.rejected = d.rejected /\ f.remote = d.remote /\ f.pc = NewPeerConnection
      /\ f.transfer = d.transfer /\ f.signals = d.signals /\ f.offers = d.offers
      /\ f.recTimer = d.recTimer /\ f.connTimer = d.connTimer
  BY FieldsAre DEF Sound, Detached
<1>2. k.gen = d.gen + 1 /\ k.replacing = replacing /\ k.signals = <<m>> /\ k.offers = {}
  <2>1. m \in Offers \cup Joins
    OBVIOUS
  <2>2. \A generation, r :
           /\ Awaited(NewConfig(generation, r), m).signals = <<m>>
           /\ Awaited(NewConfig(generation, r), m).offers = {}
           /\ Awaited(NewConfig(generation, r), m).gen = generation
           /\ Awaited(NewConfig(generation, r), m).replacing = r
    BY <2>1, Signalled
  <2> QED
    BY <2>2
<1> HIDE DEF f
<1>3. /\ e.gen = d.gen + 1 /\ e.configs = d.configs \cup {k}
      /\ e.pending = d.gen + 1 /\ e.transport = 0
      /\ e.rejected = d.rejected /\ e.remote = d.remote
      /\ e.pc = NewPeerConnection /\ e.transfer = d.transfer
      /\ e.signals = d.signals /\ e.offers = d.offers
      /\ e.recTimer = d.recTimer /\ e.connTimer = d.connTimer
  BY <1>1, <1>2, FieldsAre DEF BeginConfig, BeginTransport
<1>4. /\ NewPeerConnection \in PeerConnection /\ d.gen + 1 # 0
      /\ \A l \in d.configs : l.gen # d.gen + 1
  BY DEF NewPeerConnection, PeerConnection, Sound
<1>5. <<m>> \in Seq(Offers \cup Joins) /\ HasOne(<<m>>, Offers)
  BY OneCall
<1>6. \A l \in d.configs : ~ Has(l.signals, Offers)
  BY DEF Owes, Asked
<1> HIDE DEF k, e
<1>7. Configured(e.configs)
  BY <1>2, <1>3, <1>5, <1>6 DEF Configured, SteadyAnswerer
<1>8. Steady(e)
  BY <1>2, <1>3, <1>4 DEF Steady, SteadyAnswerer
<1>9. ~ Answering(e)
  BY <1>3 DEF Answering, Owes
<1>10. d.signals \in Seq(Operations(Nat, Joins))
  <2>1. \A s \in Operations({d.transport}, Offers) : s \in Operations(Nat, Offers)
    BY DEF Operations, Sound
  <2>2. ~ Has(d.signals, Operations({d.transport}, Offers))
    BY <2>1 DEF Owes, Answering, Has
  <2> QED
    BY <2>2, NoneOfThem DEF SteadyAnswerer
<1>11. e.signals \in Seq(Operations(Nat, Joins) \cup Operations({e.transport}, Offers))
  <2>1. \A A, B : Seq(A) \subseteq Seq(A \cup B)
    OBVIOUS
  <2> QED
    BY <1>3, <1>10, <2>1
<1>12. SteadyAnswerer(e)
  BY <1>3, <1>4, <1>7, <1>8, <1>9, <1>11 DEF SteadyAnswerer
<1> QED
  BY <1>12 DEF e, f

-----------------------------------------------------------------------------
(* Whatever a method does to the route, the session goes on: only joining,   *)
(* leaving and the socket change it, and only a configuration that ends      *)
(* makes a transfer.                                                         *)

Object(d) == DOMAIN d = Fields /\ d.gen \in Nat

LEMMA KeptTwice ==
    ASSUME NEW d, NEW e, NEW f, Object(d), Kept(d, e), Kept(e, f)
    PROVE  Kept(d, f) /\ Object(e)
BY DEF Kept, Object

LEMMA FieldsKept ==
    ASSUME NEW d, Object(d), NEW v, NEW w
    PROVE  /\ Kept(d, [d EXCEPT !.connTimer = v]) /\ Kept(d, [d EXCEPT !.recTimer = v])
           /\ Kept(d, [d EXCEPT !.attempts = v]) /\ Kept(d, [d EXCEPT !.pc = v])
           /\ Kept(d, [d EXCEPT !.remote = v]) /\ Kept(d, [d EXCEPT !.rejected = v])
           /\ Kept(d, [d EXCEPT !.offers = v]) /\ Kept(d, [d EXCEPT !.signals = v])
           /\ Kept(d, [d EXCEPT !.configs = v, !.pending = w])
           /\ Kept(d, [d EXCEPT !.offers = v, !.pc = w])
BY FieldsAre DEF Object, Kept

LEMMA PartsKept ==
    ASSUME NEW d, Object(d)
    PROVE  /\ \A state : Kept(d, Updated(d, state))
           /\ \A phase : Kept(d, Published(d, phase))
           /\ Kept(d, TransferInterrupted(d))
           /\ Kept(d, MarkInterrupted(d)) /\ Kept(d, MarkFailure(d))
           /\ Kept(d, TimersCleared(d)) /\ Kept(d, Detached(d))
           /\ \A k : Kept(d, Continue(d, k))
           /\ \A then : Kept(d, Proceed(d, then)) /\ Kept(d, JoinPending(d, then))
           /\ \A r, then : Kept(d, BeginConfig(d, r, then))
           /\ \A i : Kept(d, SignalTaken(d, i))
<1>1. /\ \A state : Kept(d, Updated(d, state))
      /\ \A phase : Kept(d, Published(d, phase))
      /\ Kept(d, TransferInterrupted(d))
      /\ Kept(d, MarkInterrupted(d)) /\ Kept(d, MarkFailure(d))
  BY ShownAlike, AlikeIsKept DEF Object
<1>2. Kept(d, TimersCleared(d)) /\ Kept(d, Detached(d))
  BY FieldsAre DEF Object, Kept, TimersCleared, Detached
<1>3. /\ \A k : Kept(d, Continue(d, k))
      /\ \A then : Kept(d, Proceed(d, then)) /\ Kept(d, JoinPending(d, then))
  BY FieldsAre DEF Object, Kept, Continue, Proceed, JoinPending
<1>4. \A r, then : Kept(d, BeginConfig(d, r, then))
  BY FieldsAre DEF Object, Kept, BeginConfig, BeginTransport
<1>5. \A i : Kept(d, SignalTaken(d, i))
  BY FieldsKept DEF SignalTaken
<1> QED
  BY <1>1, <1>2, <1>3, <1>4, <1>5

LEMMA AttemptsKept ==
    ASSUME NEW d, Object(d)
    PROVE  /\ \A then : Kept(d, EnsureTransport(d, then))
           /\ Kept(d, Exhausted(d)) /\ Kept(d, ScheduleRecovery(d))
           /\ \A generation : /\ Kept(d, FailAttempt(d, generation))
                              /\ Kept(d, StartReplacement(d, generation))
<1>1. \A then : Kept(d, EnsureTransport(d, then))
  BY PartsKept DEF EnsureTransport
<1> DEFINE e == [Detached(d) EXCEPT !.connTimer = 0]
           g == [Detached(d) EXCEPT !.attempts = @ + 1]
<1>2. Kept(d, Detached(d)) /\ Object(Detached(d))
  BY PartsKept DEF Kept, Object
<1>3. /\ Kept(d, e) /\ Object(e)
      /\ Kept(d, g) /\ Object(g)
  <2>1. Kept(Detached(d), e) /\ Kept(Detached(d), g)
    BY <1>2, FieldsKept
  <2> HIDE DEF e, g
  <2> QED
    BY <1>2, <2>1, KeptTwice DEF Object, Kept
<1>4. ASSUME NEW x, Object(x)
      PROVE  Kept(x, Exhausted(x))
  <2> DEFINE f == [Detached(x) EXCEPT !.connTimer = 0]
             h == MarkFailure(f)
  <2>1. Kept(x, Detached(x)) /\ Object(Detached(x))
    BY <1>4, PartsKept DEF Kept, Object
  <2>2. Kept(Detached(x), f)
    BY <2>1, FieldsKept
  <2>3. Exhausted(x) = Updated(h, "FAILED")
    BY DEF Exhausted
  <2> HIDE DEF f
  <2>4. Kept(x, f) /\ Object(f)
    BY <1>4, <2>1, <2>2, KeptTwice DEF Object, Kept
  <2>5. Kept(f, h) /\ Object(h)
    BY <2>4, PartsKept DEF Kept, Object
  <2> HIDE DEF h
  <2>6. Kept(h, Updated(h, "FAILED"))
    BY <2>5, PartsKept
  <2>7. Kept(x, h)
    BY <1>4, <2>4, <2>5, KeptTwice
  <2> QED
    BY <1>4, <2>3, <2>5, <2>6, <2>7, KeptTwice
<1>5. ASSUME NEW x, Object(x)
      PROVE  Kept(x, ScheduleRecovery(x))
  <2>1. Kept(x, x)
    BY <1>5 DEF Kept, Object
  <2> QED
    BY <1>4, <1>5, <2>1, FieldsKept DEF ScheduleRecovery
<1>6. \A generation : Kept(d, FailAttempt(d, generation))
  <2>1. \A generation : FailAttempt(d, generation) \in {d, ScheduleRecovery(e), Exhausted(d)}
    BY DEF FailAttempt
  <2> HIDE DEF e
  <2>2. Kept(d, d) /\ Kept(d, ScheduleRecovery(e)) /\ Kept(d, Exhausted(d))
    BY <1>3, <1>4, <1>5, KeptTwice DEF Kept, Object
  <2> QED
    BY <2>1, <2>2
<1>7. \A generation : Kept(d, StartReplacement(d, generation))
  <2>1. \A generation : StartReplacement(d, generation)
                           \in {d, FailAttempt(d, generation), BeginConfig(g, TRUE, Call("replace"))}
    BY DEF StartReplacement
  <2> HIDE DEF g
  <2>2. Kept(d, d)
    BY DEF Kept, Object
  <2>3. \A r, then : Kept(g, BeginConfig(g, r, then))
    BY <1>3, PartsKept
  <2>4. \A r, then : Kept(d, BeginConfig(g, r, then))
    BY <1>3, <2>3, KeptTwice
  <2> QED
    BY <1>6, <2>1, <2>2, <2>4
<1> QED
  BY <1>1, <1>4, <1>5, <1>6, <1>7

LEMMA AnswersKept ==
    ASSUME NEW d, Object(d)
    PROVE  /\ Kept(d, HandlePeerJoined(d))
           /\ \A m : Kept(d, HandleSignal(d, m))
           /\ \A k : Kept(d, ConfigFailed(d, k))
           /\ \A o : Kept(d, OfferDone(d, o)) /\ Kept(d, OfferRejected(d, o))
           /\ \A i : Kept(d, Described(d, i)) /\ Kept(d, SignalRejected(d, i))
<1>1. Kept(d, d)
  BY DEF Kept, Object
<1>2. Kept(d, HandlePeerJoined(d))
  BY <1>1, AttemptsKept DEF HandlePeerJoined, StartOffer
<1>3. ASSUME NEW m PROVE Kept(d, HandleOffer(d, m))
  <2> DEFINE e == [d EXCEPT !.remote = m.route]
  <2>1. Kept(d, e) /\ Object(e)
    BY FieldsKept DEF Kept, Object
  <2>2. HandleOffer(d, m) \in {BeginConfig(Detached(e), TRUE, m), EnsureTransport(e, m)}
    BY DEF HandleOffer
  <2> HIDE DEF e
  <2>3. Kept(e, Detached(e)) /\ Object(Detached(e)) /\ Kept(e, EnsureTransport(e, m))
    BY <2>1, PartsKept, AttemptsKept DEF Kept, Object
  <2>4. Kept(Detached(e), BeginConfig(Detached(e), TRUE, m))
    BY <2>3, PartsKept
  <2> QED
    BY <2>1, <2>2, <2>3, <2>4, KeptTwice
<1>4. \A m : Kept(d, HandleSignal(d, m))
  BY <1>1, <1>3, AttemptsKept DEF HandleSignal
<1>5. ASSUME NEW k PROVE Kept(d, ConfigFailed(d, k))
  <2> DEFINE e == [d EXCEPT !.configs = @ \ {k}, !.pending = IF @ = k.gen THEN 0 ELSE @]
  <2>1. Kept(d, e) /\ Object(e)
    BY FieldsKept DEF Kept, Object
  <2>2. ConfigFailed(d, k) = FailAttempt(e, k.gen)
    BY DEF ConfigFailed
  <2> HIDE DEF e
  <2> QED
    BY <2>1, <2>2, AttemptsKept, KeptTwice
<1>6. ASSUME NEW o PROVE Kept(d, OfferDone(d, o)) /\ Kept(d, OfferRejected(d, o))
  <2> DEFINE made == [d EXCEPT !.offers = @ \ {o}, !.pc.desc = "offered"]
             shown == IF o.for = "start" THEN Updated(made, "NEGOTIATING") ELSE made
             e == [shown EXCEPT !.connTimer = d.gen]
             f == [d EXCEPT !.offers = @ \ {o}]
  <2>1. Kept(d, made) /\ Object(made) /\ Kept(d, f) /\ Object(f)
    BY FieldsKept DEF Kept, Object
  <2>2. OfferDone(d, o) = e /\ OfferRejected(d, o) \in {Updated(f, "FAILED"), FailAttempt(f, d.gen)}
    BY DEF OfferDone, OfferRejected
  <2> HIDE DEF made, f
  <2>3. Kept(made, shown) /\ Object(shown)
    BY <2>1, PartsKept DEF Kept, Object
  <2>4. Kept(d, shown)
    BY <2>1, <2>3, KeptTwice
  <2> HIDE DEF shown
  <2>5. Kept(shown, e)
    BY <2>3, FieldsKept
  <2>6. Kept(d, e)
    BY <2>3, <2>4, <2>5, KeptTwice
  <2>7. Kept(f, Updated(f, "FAILED")) /\ Kept(f, FailAttempt(f, d.gen))
    BY <2>1, PartsKept, AttemptsKept
  <2> QED
    BY <2>1, <2>2, <2>6, <2>7, KeptTwice
<1>7. ASSUME NEW i PROVE Kept(d, Described(d, i)) /\ Kept(d, SignalRejected(d, i))
  <2> DEFINE e == SignalTaken(d, i)
             f == [e EXCEPT !.rejected = @ \cup {d.signals[i].gen}]
             pc == [[e.pc EXCEPT !.desc = "stable"] EXCEPT !.mate = d.signals[i].message.from]
  <2>1. Kept(d, e) /\ Object(e)
    BY PartsKept DEF Kept, Object
  <2>2. /\ SignalRejected(d, i) = FailAttempt(f, d.gen)
        /\ Described(d, i) = [e EXCEPT !.pc.desc = "stable",
                                       !.pc.mate = d.signals[i].message.from]
    BY DEF SignalRejected, Described
  <2> HIDE DEF e
  <2>3. Kept(e, f) /\ Object(f) /\ Kept(e, Described(d, i))
    BY <2>1, <2>2, FieldsAre DEF Kept, Object
  <2>4. Kept(f, FailAttempt(f, d.gen))
    BY <2>3, AttemptsKept
  <2> HIDE DEF f
  <2>5. Kept(e, FailAttempt(f, d.gen))
    BY <2>1, <2>3, <2>4, KeptTwice
  <2> QED
    BY <2>1, <2>2, <2>3, <2>5, KeptTwice
<1> QED
  BY <1>2, <1>4, <1>5, <1>6, <1>7

LEMMA CallbacksKept ==
    ASSUME NEW d, Object(d)
    PROVE  /\ \A peer \in {"connecting", "connected", "disconnected", "failed"} :
                 Kept(d, PeerState(d, peer))
           /\ Kept(d, IceConnected(d)) /\ Kept(d, ChannelOpen(d))
           /\ Kept(d, RecoveryTimer(d)) /\ Kept(d, ConnectionTimer(d))
           /\ Kept(d, RestartIce(d)) /\ Kept(d, ReplacePeerConnection(d))
<1>1. \A x : Object(x) => Kept(x, x)
  BY DEF Kept, Object
<1>2. ASSUME NEW peer \in {"connecting", "connected", "disconnected", "failed"}
      PROVE  Kept(d, PeerState(d, peer))
  <2> DEFINE moved == [d EXCEPT !.pc.peer = peer]
             cleared == TimersCleared(moved)
             calm == [cleared EXCEPT !.attempts = 0]
             told == TransferInterrupted(moved)
             marked == MarkInterrupted(told)
             lost == Updated(marked, "RECONNECTING")
  <2>1. Kept(d, moved) /\ Object(moved)
    BY FieldsKept DEF Kept, Object
  <2>2. PeerState(d, peer) \in {Updated(calm, "CONNECTED"), ScheduleRecovery(lost), lost,
                                Updated(moved, "CONNECTING")}
    BY DEF PeerState
  <2> HIDE DEF moved
  <2>3. Kept(d, cleared) /\ Object(cleared) /\ Kept(d, told) /\ Object(told)
    BY <2>1, PartsKept, KeptTwice DEF Kept, Object
  <2>4. Kept(d, Updated(moved, "CONNECTING"))
    BY <2>1, PartsKept, KeptTwice
  <2> HIDE DEF cleared, told
  <2>5. Kept(cleared, calm) /\ Object(calm) /\ Kept(told, marked) /\ Object(marked)
    BY <2>3, PartsKept, FieldsKept DEF Kept, Object
  <2> HIDE DEF calm, marked
  <2>6. Kept(d, calm) /\ Kept(d, marked)
    BY <2>3, <2>5, KeptTwice
  <2>7. Kept(calm, Updated(calm, "CONNECTED")) /\ Kept(marked, lost)
    BY <2>5, PartsKept
  <2> HIDE DEF lost
  <2>10. Kept(d, Updated(calm, "CONNECTED")) /\ Kept(d, lost)
    BY <2>5, <2>6, <2>7, KeptTwice
  <2>11. Object(lost)
    BY <2>10 DEF Kept, Object
  <2>8. Kept(d, ScheduleRecovery(lost))
    BY <2>10, <2>11, AttemptsKept, KeptTwice
  <2> QED
    BY <2>2, <2>4, <2>8, <2>10
<1>3. Kept(d, IceConnected(d))
  <2> DEFINE e == TimersCleared(d)
  <2>1. Kept(d, e) /\ Object(e)
    BY PartsKept DEF Kept, Object
  <2>2. IceConnected(d) \in {d, Updated(e, "CONNECTED")}
    BY DEF IceConnected
  <2> HIDE DEF e
  <2> QED
    BY <1>1, <2>1, <2>2, PartsKept, KeptTwice
<1>4. Kept(d, ChannelOpen(d))
  <2> DEFINE e == [d EXCEPT !.pc.channel = "open"]
  <2>1. Kept(d, e) /\ Object(e)
    BY FieldsKept DEF Kept, Object
  <2>2. ChannelOpen(d) \in {e, Published(e, "ACTIVE")}
    BY DEF ChannelOpen
  <2> HIDE DEF e
  <2> QED
    BY <2>1, <2>2, PartsKept, KeptTwice
<1>5. Kept(d, RecoveryTimer(d))
  <2> DEFINE e == [d EXCEPT !.recTimer = 0]
  <2>1. Kept(d, e) /\ Object(e)
    BY FieldsKept DEF Kept, Object
  <2>2. RecoveryTimer(d) = StartReplacement(e, d.recTimer)
    BY DEF RecoveryTimer
  <2> HIDE DEF e
  <2> QED
    BY <2>1, <2>2, AttemptsKept, KeptTwice
<1>6. Kept(d, ConnectionTimer(d))
  <2> DEFINE e == [d EXCEPT !.connTimer = 0]
  <2>1. Kept(d, e) /\ Object(e)
    BY FieldsKept DEF Kept, Object
  <2>2. ConnectionTimer(d) \in {e, FailAttempt(e, d.connTimer)}
    BY DEF ConnectionTimer
  <2> HIDE DEF e
  <2> QED
    BY <2>1, <2>2, AttemptsKept, KeptTwice
<1>7. Kept(d, RestartIce(d))
  <2> DEFINE e == Updated(d, "RECONNECTING")
  <2>1. Kept(d, e) /\ Object(e)
    BY PartsKept DEF Kept, Object
  <2>2. RestartIce(d) = Proceed(e, Call("restart"))
    BY DEF RestartIce
  <2> HIDE DEF e
  <2> QED
    BY <2>1, <2>2, PartsKept, KeptTwice
<1>8. Kept(d, ReplacePeerConnection(d))
  <2> DEFINE told == TransferInterrupted(d)
             marked == MarkInterrupted(told)
             e == Updated(marked, "RECONNECTING")
  <2>1. Kept(d, told) /\ Object(told)
    BY PartsKept DEF Kept, Object
  <2>2. ReplacePeerConnection(d) = StartReplacement(e, d.gen)
    BY DEF ReplacePeerConnection
  <2> HIDE DEF told
  <2>3. Kept(d, marked) /\ Object(marked)
    BY <2>1, PartsKept, KeptTwice DEF Kept, Object
  <2> HIDE DEF marked
  <2>4. Kept(d, e) /\ Object(e)
    BY <2>3, PartsKept, KeptTwice DEF Kept, Object
  <2> HIDE DEF e
  <2> QED
    BY <2>2, <2>4, AttemptsKept, KeptTwice
<1> QED
  BY <1>2, <1>3, <1>4, <1>5, <1>6, <1>7, <1>8

-----------------------------------------------------------------------------
(* The answerer: what it is told, and what its callbacks report.             *)

LEMMA AnswererOffered ==
    ASSUME NEW d, Sound(d), SteadyAnswerer(d), ~ Owes(d), NEW m \in Offers
    PROVE  SteadyAnswerer(HandleSignal(d, m))
<1> DEFINE e == [d EXCEPT !.remote = m.route]
<1>1. Sound(e)
  BY AsideIsSound
<1>2. /\ e.gen = d.gen /\ e.configs = d.configs /\ e.pending = d.pending
      /\ e.transport = d.transport /\ e.open = d.open /\ e.remote = m.route /\ m.route \in Nat
      /\ e.rejected = d.rejected /\ e.pc = d.pc /\ e.transfer = d.transfer
      /\ e.signals = d.signals /\ e.offers = d.offers
      /\ e.recTimer = d.recTimer /\ e.connTimer = d.connTimer
  BY FieldsAre DEF Sound, Offers, Of
<1>3. HandleSignal(d, m) \in {d, BeginConfig(Detached(e), TRUE, m), EnsureTransport(e, m)}
  BY DEF HandleSignal, HandleOffer, Offers, Of
<1> HIDE DEF e
<1>4. (Asked(e) <=> Asked(d)) /\ (Answering(e) <=> Answering(d)) /\ (Steady(d) => Steady(e))
  BY <1>2 DEF Asked, Answering, Steady
<1>5. SteadyAnswerer(e) /\ ~ Owes(e)
  BY <1>2, <1>4 DEF SteadyAnswerer, Owes
<1>6. ASSUME NEW replacing, replacing = TRUE
      PROVE  SteadyAnswerer(BeginConfig(Detached(e), replacing, m))
  BY <1>1, <1>5, <1>6, AnswererReplaces
<1>7. SteadyAnswerer(BeginConfig(Detached(e), TRUE, m))
  BY <1>6
<1>8. SteadyAnswerer(EnsureTransport(e, m))
  BY <1>1, <1>5, AnswererHears
<1> QED
  BY <1>3, <1>7, <1>8

LEMMA AnswererIsJoined ==
    ASSUME NEW d, Sound(d), SteadyAnswerer(d), d.role = "answerer"
    PROVE  LET e == HandlePeerJoined(d)
           IN SteadyAnswerer(e) /\ (Owes(e) => Owes(d))
<1>1. Call("peer-joined") \in Joins
  BY DEF Call, Joins, Of
<1>2. HandlePeerJoined(d) = EnsureTransport(d, Call("peer-joined"))
  BY DEF HandlePeerJoined
<1> QED
  BY <1>1, <1>2, AnswererHears

\* A configuration of the answerer: the offer that awaited it is its next.
LEMMA AnswererIsConfigured ==
    ASSUME NEW d, Sound(d), SteadyAnswerer(d), ~ d.closed, NEW k \in d.configs
    PROVE  LET e == ConfigDone(d, k)
           IN SteadyAnswerer(e) /\ (Owes(e) => Owes(d))
<1> DEFINE dropped == [d EXCEPT !.configs = @ \ {k}, !.pending = IF @ = k.gen THEN 0 ELSE @]
           f == Attached(dropped, k)
           e == ConfigDone(d, k)
<1>1. /\ DOMAIN dropped = Fields /\ dropped.gen = d.gen /\ dropped.configs = d.configs \ {k}
      /\ dropped.pending = IF d.pending = k.gen THEN 0 ELSE d.pending
      /\ dropped.transport = d.transport /\ dropped.open = d.open
      /\ dropped.rejected = d.rejected /\ dropped.remote = d.remote
      /\ dropped.pc = d.pc /\ dropped.transfer = d.transfer /\ dropped.signals = d.signals
      /\ dropped.offers = d.offers
      /\ dropped.recTimer = d.recTimer /\ dropped.connTimer = d.connTimer
  BY FieldsAre DEF Sound
<1>2. e = IF k.gen # d.gen THEN dropped ELSE Continue(f, k)
  BY DEF ConfigDone, IsCurrent
<1>3. ASSUME k.gen # d.gen
      PROVE  SteadyAnswerer(dropped) /\ (Owes(dropped) => Owes(d))
  <2> HIDE DEF dropped, e, f
  <2>1. (Asked(dropped) => Asked(d)) /\ (Answering(dropped) <=> Answering(d))
    BY <1>1 DEF Asked, Answering
  <2>2. Steady(dropped) /\ Configured(dropped.configs)
    BY <1>1 DEF Steady, SteadyAnswerer, Configured
  <2>3. dropped.transport # 0 \/ dropped.pending # 0
    BY <1>1, <1>3 DEF SteadyAnswerer, Steady
  <2> QED
    BY <1>1, <1>3, <2>1, <2>2, <2>3 DEF SteadyAnswerer, Owes
<1>4. ASSUME k.gen = d.gen
      PROVE  SteadyAnswerer(e) /\ (Owes(e) => Owes(d))
  <2> DEFINE Kind == Operations(Nat, Offers)
             more == SignalsOn(d.gen, k)
             All == Operations(Nat, Joins) \cup Operations({d.gen}, Offers)
  <2> HIDE DEF dropped, e
  <2>1. d.transport = 0 /\ d.offers = {} /\ d.gen \in Nat /\ d.gen \in 1 .. d.gen /\ ~ Answering(d)
    BY <1>4 DEF Sound, SteadyAnswerer
  <2>2. /\ DOMAIN f = Fields /\ f.gen = d.gen /\ f.configs = d.configs \ {k}
        /\ f.pending = dropped.pending /\ f.transport = d.gen /\ d.gen \in f.open
        /\ f.rejected = d.rejected /\ f.remote = d.remote
        /\ f.pc = NewPeerConnection /\ f.signals = d.signals /\ f.offers = d.offers
        /\ f.recTimer = d.recTimer /\ f.connTimer = d.connTimer
        /\ f.transfer = d.transfer \/ f.transfer = d.transfer + 1
    BY <1>1, <1>4, FieldsAre DEF Attached, NewTransfer
  <2> HIDE DEF f
  <2>3. /\ e.gen = d.gen /\ e.configs = d.configs \ {k}
        /\ e.pending = dropped.pending /\ e.transport = d.gen /\ d.gen \in e.open
        /\ e.rejected = d.rejected /\ e.remote = d.remote
        /\ e.pc = NewPeerConnection /\ e.transfer = f.transfer
        /\ e.signals = d.signals \o more
        /\ e.offers = OffersOn(d.gen, k)
        /\ e.recTimer = d.recTimer /\ e.connTimer = d.connTimer
    BY <1>2, <1>4, <2>1, <2>2, FieldsAre DEF Continue
  <2>4. /\ k.offers = {} /\ k.signals \in Seq(Offers \cup Joins) /\ HasOne(k.signals, Offers)
        /\ \A l \in d.configs \ {k} : Has(l.signals, Offers) => ~ Has(k.signals, Offers)
        /\ Has(k.signals, Offers) => Asked(d)
    BY DEF SteadyAnswerer, Configured, Asked
  <2>5. /\ more \in Seq(Operations({d.gen}, Offers \cup Joins))
        /\ Has(more, Kind) => Has(k.signals, Offers)
        /\ HasOne(more, Kind)
        /\ OffersOn(d.gen, k) = {}
    BY <2>4, CallsGoOn
  <2>6. more \in Seq(All)
    <3>1. Operations({d.gen}, Offers \cup Joins) \subseteq All
      BY <2>1 DEF Operations
    <3>2. \A A, B : A \subseteq B => Seq(A) \subseteq Seq(B)
      OBVIOUS
    <3> HIDE DEF All, more
    <3> QED
      BY <2>5, <3>1, <3>2
  <2>7. d.signals \in Seq(All) /\ HasOne(d.signals, Kind) /\ ~ Has(d.signals, Kind)
    <3>1. ~ Has(d.signals, Operations({d.transport}, Offers))
      <4>1. \A s \in Operations({d.transport}, Offers) : s \in Operations(Nat, Offers)
        BY DEF Operations, Sound
      <4> QED
        BY <2>1, <4>1 DEF Answering, Has
    <3>2. d.signals \in Seq(Operations(Nat, Joins))
      BY <3>1, NoneOfThem DEF SteadyAnswerer
    <3>3. \A A, B : Seq(A) \subseteq Seq(A \cup B)
      OBVIOUS
    <3>4. d.signals \in Seq(All)
      BY <3>2, <3>3
    <3> QED
      BY <2>1, <3>4 DEF SteadyAnswerer, Answering
  <2> HIDE DEF Kind, All, more
  <2>8. /\ e.signals \in Seq(All)
        /\ Has(e.signals, Kind) => Has(k.signals, Offers)
        /\ HasOne(e.signals, Kind)
    BY <2>3, <2>5, <2>6, <2>7, BothJoined
  <2>9. Answering(e) <=> Has(e.signals, Kind)
    BY DEF Answering, Kind
  <2>10. ~ (Asked(e) /\ Answering(e)) /\ (Owes(e) => Owes(d))
    BY <2>3, <2>4, <2>8, <2>9 DEF Asked, Owes
  <2>11. NewPeerConnection \in PeerConnection
    BY DEF NewPeerConnection, PeerConnection
  <2>12. \A l \in d.configs \ {k} : l.gen # d.gen
    BY <1>4 DEF Sound
  <2>13. Steady(e)
    BY <1>1, <1>4, <2>1, <2>2, <2>3, <2>11, <2>12 DEF Steady, SteadyAnswerer
  <2>14. Configured(e.configs)
    BY <2>3 DEF Configured, SteadyAnswerer
  <2>15. e.signals \in Seq(Operations(Nat, Joins) \cup Operations({e.transport}, Offers))
    BY <2>3, <2>8 DEF All
  <2>16. SteadyAnswerer(e)
    BY <2>1, <2>3, <2>5, <2>8, <2>9, <2>10, <2>13, <2>14, <2>15 DEF SteadyAnswerer, Kind
  <2> QED
    BY <2>10, <2>16
<1> QED
  BY <1>2, <1>3, <1>4

\* The turn of an operation: nothing is owed after the offer is answered.
LEMMA AnswererTakes ==
    ASSUME NEW d, Sound(d), SteadyAnswerer(d), NEW i \in DOMAIN d.signals
    PROVE  LET e == SignalTaken(d, i)
           IN /\ SteadyAnswerer(e) /\ (Owes(e) => Owes(d))
              /\ d.signals[i].message.type = "offer" => ~ Owes(e)
<1> DEFINE e == SignalTaken(d, i)
           All == Operations(Nat, Joins) \cup Operations({d.transport}, Offers)
           Kind == Operations(Nat, Offers)
<1>1. /\ e.gen = d.gen /\ e.configs = d.configs /\ e.pending = d.pending
      /\ e.transport = d.transport /\ e.open = d.open /\ e.remote = d.remote
      /\ e.rejected = d.rejected /\ e.pc = d.pc /\ e.transfer = d.transfer
      /\ e.signals = RemoveAt(d.signals, i) /\ e.offers = d.offers
      /\ e.recTimer = d.recTimer /\ e.connTimer = d.connTimer
  BY FieldsAre DEF Sound, SignalTaken
<1>2. d.signals \in Seq(All) /\ HasOne(d.signals, Kind)
  BY DEF SteadyAnswerer
<1>3. d.signals[i] \in All
  <2> HIDE DEF All
  <2> QED
    BY <1>2, SequencesAre
<1>4. d.signals[i].message.type = "offer" => d.signals[i] \in Kind
  <2>1. Operations({d.transport}, Offers) \subseteq Operations(Nat, Offers)
    BY DEF Operations, Sound
  <2>2. \A s \in Operations(Nat, Joins) : s.message.type = "peer-joined"
    BY DEF Operations, Joins, Of
  <2> QED
    BY <1>3, <2>1, <2>2
<1> HIDE DEF e, All, Kind
<1>5. /\ e.signals \in Seq(All) /\ HasOne(e.signals, Kind)
      /\ Has(e.signals, Kind) => Has(d.signals, Kind)
      /\ d.signals[i] \in Kind => ~ Has(e.signals, Kind)
  BY <1>1, <1>2, OneRemoved
<1>6. /\ Answering(e) <=> Has(e.signals, Kind)
      /\ Answering(d) <=> Has(d.signals, Kind)
      /\ Asked(e) <=> Asked(d)
  BY <1>1 DEF Answering, Asked, Kind
<1>7. d.signals[i] \in Kind => Answering(d)
  BY <1>6 DEF Has
<1>8. Steady(e)
  BY <1>1 DEF Steady, SteadyAnswerer
<1>9. SteadyAnswerer(e)
  BY <1>1, <1>5, <1>6, <1>8 DEF SteadyAnswerer, All, Kind
<1>10. /\ Owes(e) => Owes(d)
       /\ d.signals[i].message.type = "offer" => ~ Owes(e)
  BY <1>4, <1>5, <1>6, <1>7 DEF Owes, SteadyAnswerer
<1> QED
  BY <1>9, <1>10 DEF e

LEMMA AnswererPeerIs ==
    ASSUME NEW d, Sound(d), SteadyAnswerer(d), NEW pc \in PeerConnection
    PROVE  LET e == [d EXCEPT !.pc = pc]
           IN SteadyAnswerer(e) /\ (Owes(e) <=> Owes(d))
<1> DEFINE e == [d EXCEPT !.pc = pc]
<1>1. /\ e.gen = d.gen /\ e.configs = d.configs /\ e.pending = d.pending
      /\ e.transport = d.transport /\ e.open = d.open /\ e.remote = d.remote
      /\ e.rejected = d.rejected /\ e.pc = pc /\ e.transfer = d.transfer
      /\ e.signals = d.signals /\ e.offers = d.offers
      /\ e.recTimer = d.recTimer /\ e.connTimer = d.connTimer
  BY FieldsAre DEF Sound
<1> HIDE DEF e
<1>2. (Asked(e) <=> Asked(d)) /\ (Answering(e) <=> Answering(d)) /\ Steady(e)
  BY <1>1 DEF Asked, Answering, Steady, SteadyAnswerer
<1>3. SteadyAnswerer(e)
  BY <1>1, <1>2 DEF SteadyAnswerer
<1> QED
  BY <1>2, <1>3 DEF e, Owes

LEMMA AnswererAnswers ==
    ASSUME NEW d, Sound(d), SteadyAnswerer(d), NEW i \in DOMAIN d.signals,
           d.signals[i].message.type = "offer"
    PROVE  LET e == Described(d, i)
           IN SteadyAnswerer(e) /\ ~ Owes(e)
<1> DEFINE taken == SignalTaken(d, i)
           mate == d.signals[i].message.from
           pc == [taken.pc EXCEPT !.desc = "stable", !.mate = mate]
           e == [taken EXCEPT !.pc = pc]
<1>1. SteadyAnswerer(taken) /\ ~ Owes(taken) /\ Sound(taken)
  BY AnswererTakes, QuietMethods, SameIsSound
<1>2. mate \in Nat
  <2>1. /\ \A s \in Operations(Nat, Joins) : s.message.from \in Nat
        /\ \A s \in Operations({d.transport}, Offers) : s.message.from \in Nat
    BY DEF Operations, Joins, Offers, Of
  <2>2. d.signals[i] \in Operations(Nat, Joins) \cup Operations({d.transport}, Offers)
    <3>1. d.signals \in Seq(Operations(Nat, Joins) \cup Operations({d.transport}, Offers))
      BY DEF SteadyAnswerer
    <3> QED
      BY <3>1, SequencesAre
  <2> QED
    BY <2>1, <2>2
<1> HIDE DEF mate, taken
<1>3. pc \in PeerConnection
  BY <1>1, <1>2 DEF PeerConnection, SteadyAnswerer, Steady
<1>4. Described(d, i) = e
  BY <1>1 DEF Described, taken, mate
<1> HIDE DEF pc
<1> QED
  BY <1>1, <1>3, <1>4, AnswererPeerIs

LEMMA AnswererIsQuiet ==
    ASSUME NEW d, Sound(d), SteadyAnswerer(d), d.role = "answerer"
    PROVE  /\ LET e == Published(d, "ACTIVE")
              IN SteadyAnswerer(e) /\ (Owes(e) <=> Owes(d))
           /\ LET e == Updated(d, "DISCONNECTED")
              IN SteadyAnswerer(e) /\ (Owes(e) <=> Owes(d))
           /\ LET e == IceConnected(d)
              IN SteadyAnswerer(e) /\ (Owes(e) <=> Owes(d))
           /\ LET e == ChannelOpen(d)
              IN SteadyAnswerer(e) /\ (Owes(e) <=> Owes(d))
           /\ \A peer \in {"connecting", "connected", "disconnected", "failed"} :
                 LET e == PeerState(d, peer)
                 IN SteadyAnswerer(e) /\ (Owes(e) <=> Owes(d))
<1>1. DOMAIN d = Fields
  BY DEF Sound
<1>2. \A x, y : Alike(x, y) /\ SteadyAnswerer(x) => SteadyAnswerer(y) /\ (Owes(y) <=> Owes(x))
  BY AlikeIsSteady DEF Owes
<1>3. Alike(d, Published(d, "ACTIVE")) /\ Alike(d, Updated(d, "DISCONNECTED"))
  BY <1>1, ShownAlike
<1>4. ASSUME NEW x, Sound(x), SteadyAnswerer(x)
      PROVE  /\ SteadyAnswerer(TimersCleared(x)) /\ (Owes(TimersCleared(x)) <=> Owes(x))
             /\ Sound(TimersCleared(x))
  <2> DEFINE e == TimersCleared(x)
  <2>1. /\ e.gen = x.gen /\ e.configs = x.configs /\ e.pending = x.pending
        /\ e.transport = x.transport /\ e.open = x.open /\ e.remote = x.remote
        /\ e.rejected = x.rejected /\ e.pc = x.pc /\ e.transfer = x.transfer
        /\ e.signals = x.signals /\ e.offers = x.offers
        /\ e.recTimer = 0 /\ e.connTimer = 0
    BY <1>4, FieldsAre DEF Sound, TimersCleared
  <2>2. Sound(e)
    BY <1>4, QuietMethods, SameIsSound
  <2> HIDE DEF e
  <2>3. (Asked(e) <=> Asked(x)) /\ (Answering(e) <=> Answering(x)) /\ Steady(e)
    BY <1>4, <2>1 DEF Asked, Answering, Steady, SteadyAnswerer
  <2>4. SteadyAnswerer(e)
    BY <1>4, <2>1, <2>3 DEF SteadyAnswerer
  <2> QED
    BY <2>2, <2>3, <2>4 DEF e, Owes
<1>5. LET e == IceConnected(d)
      IN SteadyAnswerer(e) /\ (Owes(e) <=> Owes(d))
  <2> DEFINE e == TimersCleared(d)
  <2>1. SteadyAnswerer(e) /\ (Owes(e) <=> Owes(d)) /\ Sound(e)
    BY <1>4
  <2>2. IceConnected(d) \in {d, Updated(e, "CONNECTED")}
    BY DEF IceConnected
  <2> HIDE DEF e
  <2>3. Alike(e, Updated(e, "CONNECTED"))
    BY <2>1, ShownAlike DEF Sound
  <2> QED
    BY <1>2, <2>1, <2>2, <2>3
<1>6. LET e == ChannelOpen(d)
      IN SteadyAnswerer(e) /\ (Owes(e) <=> Owes(d))
  <2> DEFINE pc == [d.pc EXCEPT !.channel = "open"]
             e == [d EXCEPT !.pc = pc]
  <2>1. pc \in PeerConnection
    BY DEF PeerConnection, SteadyAnswerer, Steady
  <2>2. SteadyAnswerer(e) /\ (Owes(e) <=> Owes(d))
    <3> HIDE DEF pc
    <3> QED
      BY <2>1, AnswererPeerIs
  <2>3. ChannelOpen(d) = e
    BY DEF ChannelOpen
  <2> QED
    BY <2>2, <2>3
<1>7. ASSUME NEW peer \in {"connecting", "connected", "disconnected", "failed"}
      PROVE  LET e == PeerState(d, peer)
             IN SteadyAnswerer(e) /\ (Owes(e) <=> Owes(d))
  <2> DEFINE pc == [d.pc EXCEPT !.peer = peer]
             moved == [d EXCEPT !.pc = pc]
             cleared == TimersCleared(moved)
             calm == [cleared EXCEPT !.attempts = 0]
             told == TransferInterrupted(moved)
             marked == MarkInterrupted(told)
             lost == Updated(marked, "RECONNECTING")
  <2>1. pc \in PeerConnection
    BY DEF PeerConnection, SteadyAnswerer, Steady
  <2>2. SteadyAnswerer(moved) /\ (Owes(moved) <=> Owes(d)) /\ Sound(moved)
    <3> HIDE DEF pc
    <3> QED
      BY <2>1, AnswererPeerIs, AsideIsSound
  <2>3. PeerState(d, peer) \in {Updated(calm, "CONNECTED"), lost, Updated(moved, "CONNECTING")}
    BY DEF PeerState
  <2> HIDE DEF moved
  <2>4. SteadyAnswerer(cleared) /\ (Owes(cleared) <=> Owes(d)) /\ Sound(cleared)
    BY <1>4, <2>2
  <2>5. SteadyAnswerer(Updated(moved, "CONNECTING"))
        /\ (Owes(Updated(moved, "CONNECTING")) <=> Owes(d))
    BY <1>2, <2>2, ShownAlike DEF Sound
  <2> HIDE DEF cleared
  <2>6. SteadyAnswerer(calm) /\ (Owes(calm) <=> Owes(d)) /\ DOMAIN calm = Fields
    <3>1. /\ calm.gen = cleared.gen /\ calm.configs = cleared.configs
          /\ calm.pending = cleared.pending
          /\ calm.transport = cleared.transport /\ calm.open = cleared.open
          /\ calm.remote = cleared.remote /\ calm.rejected = cleared.rejected
          /\ calm.pc = cleared.pc /\ calm.transfer = cleared.transfer
          /\ calm.signals = cleared.signals /\ calm.offers = cleared.offers
          /\ calm.recTimer = cleared.recTimer /\ calm.connTimer = cleared.connTimer
          /\ DOMAIN calm = Fields
      BY <2>4, FieldsAre DEF Sound
    <3> HIDE DEF calm
    <3>2. (Asked(calm) <=> Asked(cleared)) /\ (Answering(calm) <=> Answering(cleared))
          /\ Steady(calm)
      BY <2>4, <3>1 DEF Asked, Answering, Steady, SteadyAnswerer
    <3>3. SteadyAnswerer(calm)
      BY <2>4, <3>1, <3>2 DEF SteadyAnswerer
    <3> QED
      BY <2>4, <3>1, <3>2, <3>3 DEF Owes
  <2>7. SteadyAnswerer(lost) /\ (Owes(lost) <=> Owes(d))
    <3>1. Alike(moved, told) /\ DOMAIN told = Fields
      BY <2>2, ShownAlike DEF Sound, Alike
    <3> HIDE DEF told
    <3>2. Alike(told, marked) /\ DOMAIN marked = Fields
      BY <3>1, ShownAlike DEF Alike
    <3> HIDE DEF marked
    <3>3. Alike(marked, lost)
      BY <3>2, ShownAlike
    <3> QED
      BY <1>2, <2>2, <3>1, <3>2, <3>3
  <2> HIDE DEF calm, lost
  <2>8. SteadyAnswerer(Updated(calm, "CONNECTED")) /\ (Owes(Updated(calm, "CONNECTED")) <=> Owes(d))
    BY <1>2, <2>6, ShownAlike
  <2> QED
    BY <2>3, <2>5, <2>7, <2>8
<1> QED
  BY <1>2, <1>3, <1>5, <1>6, <1>7

-----------------------------------------------------------------------------
(* The two of them.  What one does disturbs neither, as long as it is fine   *)
(* itself and what the other may still expect has not grown.                 *)

InSession(d, e) ==
    /\ DOMAIN e = Fields /\ e.gen \in Nat /\ e.gen >= d.gen
    /\ e.closed = d.closed /\ e.socket = d.socket /\ e.role = d.role

\* What is left on the wire to one of them.
Left(w, v) == v = w \/ (w # <<>> /\ v = Tail(w))

LEMMA LeftIsLess ==
    ASSUME NEW A, NEW w \in Seq(A), NEW v, Left(w, v)
    PROVE  /\ v \in Seq(A)
           /\ \A kind : Has(v, kind) => Has(w, kind)
           /\ \A kind : HasOne(w, kind) => HasOne(v, kind)
<1>1. CASE v = w
  BY <1>1
<1>2. CASE w # <<>> /\ v = Tail(w)
  <2>1. /\ Tail(w) \in Seq(A)
        /\ \A kind : Has(Tail(w), kind) => Has(w, kind)
        /\ \A kind : HasOne(w, kind) => HasOne(Tail(w), kind)
    BY <1>2, HeadTaken
  <2> QED
    BY <1>2, <2>1
<1> QED
  BY <1>1, <1>2 DEF Left

LEMMA SessionGoesOn ==
    ASSUME NEW p, NEW d, Sound(d), NEW w, Session(p, d, w), NEW e, InSession(d, e), NEW v,
           Left(w, v), d.role = "none" => v = w
    PROVE  Session(p, e, v)
<1>1. v \in Seq(MessagesTo(p)) /\ (Has(v, Readies) => Has(w, Readies)) /\ (w = <<>> => v = <<>>)
  <2>1. v \in Seq(MessagesTo(p)) /\ (Has(v, Readies) => Has(w, Readies))
    BY LeftIsLess DEF Session
  <2> QED
    BY <2>1 DEF Left
<1>2. e.gen = 0 => d.gen = 0
  BY DEF InSession, Sound
<1>3. Unopened(e) <=> Unopened(d)
  BY DEF Unopened, InSession
<1> QED
  BY <1>1, <1>2, <1>3 DEF Session, InSession

LEMMA ClosedGoesOn ==
    ASSUME NEW o, NEW a, NEW wo, NEW wa, NEW n, Undisturbed(o, a, wo, wa, n), Sound(o), Sound(a)
    PROVE  /\ \A e : o.closed /\ InSession(o, e) => Undisturbed(e, a, wo, wa, 0)
           /\ \A e : a.closed /\ InSession(a, e) => Undisturbed(o, e, wo, wa, n)
<1>1. ASSUME NEW e, o.closed, InSession(o, e) PROVE Undisturbed(e, a, wo, wa, 0)
  <2>1. Session("offerer", e, wo)
    BY <1>1, SessionGoesOn DEF Undisturbed, Left
  <2>2. e.closed
    BY <1>1 DEF InSession
  <2> QED
    BY <2>1, <2>2 DEF Undisturbed, TriedIsCounted
<1>2. ASSUME NEW e, a.closed, InSession(a, e) PROVE Undisturbed(o, e, wo, wa, n)
  <2>1. Session("answerer", e, wa)
    BY <1>2, SessionGoesOn DEF Undisturbed, Left
  <2>2. e.closed
    BY <1>2 DEF InSession
  <2>3. Unopened(e) <=> Unopened(a)
    BY <1>2 DEF InSession, Unopened
  <2>4. ~ Outgoing(a, wa) /\ ~ Outgoing(e, wa)
    BY <1>2, <2>2 DEF Outgoing
  <2>5. (Early(o, e, wo) <=> Early(o, a, wo)) /\ (Late(e, wo, wa) <=> Late(a, wo, wa))
        /\ (Announcing(o, e) <=> Announcing(o, a))
    BY <2>3, <2>4 DEF Early, Late, Announcing
  <2> QED
    BY <2>1, <2>2, <2>4, <2>5 DEF Undisturbed, OffererIsFine
<1> QED
  BY <1>1, <1>2

\* The offerer in its session: what it does, or hears.
LEMMA OffererGoesOn ==
    ASSUME NEW o, NEW a, NEW wo, NEW wa, NEW n, Undisturbed(o, a, wo, wa, n),
           Sound(o), ~ o.closed, o.role = "offerer",
           NEW v, Left(wo, v), NEW e, InSession(o, e), SteadyOfferer(e),
           Early(o, a, v) => Ready(e), Late(a, v, wa) => HasOffered(e),
           NEW m, TriedIsCounted(e, m)
    PROVE  Undisturbed(e, a, v, wa, m)
<1>1. Session("offerer", e, v)
  BY SessionGoesOn DEF Undisturbed
<1>2. /\ \A kind : Has(v, kind) => Has(wo, kind)
      /\ \A kind : HasOne(wo, kind) => HasOne(v, kind)
  BY LeftIsLess DEF Undisturbed, Session
<1>3. (Unopened(e) <=> Unopened(o)) /\ e.role = "offerer"
  BY DEF Unopened, InSession
<1>4. /\ Early(e, a, v) <=> Early(o, a, v)
      /\ Early(o, a, v) => Early(o, a, wo)
      /\ Late(a, v, wa) => Late(a, wo, wa)
      /\ Announcing(e, a) <=> Announcing(o, a)
  BY <1>2, <1>3 DEF Early, Late, Announcing
<1>5. OffererIsFine(e, a, v, wa)
  BY <1>2, <1>3, <1>4 DEF Undisturbed, OffererIsFine
<1> QED
  BY <1>1, <1>5 DEF Undisturbed

\* The answerer in its session: what it does, or hears.
LEMMA AnswererGoesOn ==
    ASSUME NEW o, NEW a, NEW wo, NEW wa, NEW n, Undisturbed(o, a, wo, wa, n),
           ~ a.closed,
           NEW v, Left(wa, v), NEW e, ~ e.closed, Session("answerer", e, v),
           IF e.role = "none" THEN Untouched(e) ELSE SteadyAnswerer(e),
           Unopened(e) => Unopened(a), Outgoing(e, v) => Outgoing(a, wa),
           Has(v, Offers) => ~ Owes(e)
    PROVE  Undisturbed(o, e, wo, v, n)
<1>1. \A kind : HasOne(wa, kind) => HasOne(v, kind)
  BY LeftIsLess DEF Undisturbed, Session
<1>2. AnswererIsFine(e, v)
  BY <1>1 DEF Undisturbed, AnswererIsFine
<1>3. /\ Early(o, e, wo) => Early(o, a, wo)
      /\ Late(e, wo, v) => Late(a, wo, wa)
      /\ Announcing(o, e) => Announcing(o, a)
  BY DEF Early, Late, Announcing
<1>4. ~ o.closed => OffererIsFine(o, e, wo, v)
  BY <1>3 DEF Undisturbed, OffererIsFine
<1> QED
  BY <1>2, <1>4 DEF Undisturbed

LEMMA CountGoesOn ==
    ASSUME NEW o, NEW n, TriedIsCounted(o, n), ~ o.closed, o.role = "offerer",
           NEW e, InSession(o, e), o.attempts \in Nat, e.attempts \in Nat, NEW m,
           \/ e.pc.peer = "connected" /\ m = 0
           \/ m = n /\ e.attempts \in {o.attempts, o.attempts + 1}
           \/ m = n + 1 /\ e.attempts = o.attempts + 1
    PROVE  TriedIsCounted(e, m)
BY DEF TriedIsCounted, InSession

-----------------------------------------------------------------------------
(* A session: joined, opened, and left.                                      *)

Leaves == Of({"peer-left"})

LEMMA KindsAre ==
    /\ \A p \in Roles : Readies \cup Joins \cup Leaves \subseteq MessagesTo(p)
    /\ Answers \subseteq MessagesTo("offerer") /\ Offers \subseteq MessagesTo("answerer")
    /\ \A x \in Readies : x \notin Joins /\ x \notin Offers /\ x \notin Answers
    /\ \A x \in Joins : x \notin Readies /\ x \notin Offers /\ x \notin Answers
    /\ \A x \in Leaves : x \notin Readies /\ x \notin Joins /\ x \notin Offers /\ x \notin Answers
    /\ \A x \in Offers : x \notin Readies /\ x \notin Joins /\ x \notin Answers
    /\ \A x \in Answers : x \notin Readies /\ x \notin Joins /\ x \notin Offers
    /\ Call("session-ready") \in Readies /\ Call("peer-joined") \in Joins
    /\ Call("peer-left") \in Leaves
BY DEF Readies, Joins, Leaves, Answers, Offers, MessagesTo, Of, Roles, Call

LEMMA FirstMessages ==
    ASSUME NEW p \in Roles, NEW r \in Readies, NEW j \in Joins
    PROVE  /\ <<r>> \in Seq(MessagesTo(p)) /\ <<r>> # <<>> /\ Head(<<r>>) = r
           /\ ~ Has(Tail(<<r>>), Readies)
           /\ \A kind : r \notin kind => ~ Has(<<r>>, kind) /\ HasOne(<<r>>, kind)
           /\ <<r, j>> \in Seq(MessagesTo(p)) /\ <<r, j>> # <<>> /\ Head(<<r, j>>) = r
           /\ ~ Has(Tail(<<r, j>>), Readies)
           /\ \A kind : r \notin kind => HasOne(<<r, j>>, kind)
           /\ \A kind : r \notin kind /\ j \notin kind => ~ Has(<<r, j>>, kind)
<1>1. r \in MessagesTo(p) /\ j \in MessagesTo(p) /\ j \notin Readies
  BY KindsAre
<1>2. /\ <<r>> \in Seq(MessagesTo(p)) /\ <<r>> # <<>> /\ Head(<<r>>) = r /\ Tail(<<r>>) = <<>>
      /\ DOMAIN <<r>> = {1} /\ <<r>>[1] = r
  BY <1>1
<1>3. /\ <<r, j>> \in Seq(MessagesTo(p)) /\ <<r, j>> # <<>> /\ Head(<<r, j>>) = r
      /\ Tail(<<r, j>>) = <<j>> /\ DOMAIN <<j>> = {1} /\ <<j>>[1] = j
      /\ DOMAIN <<r, j>> = {1, 2} /\ <<r, j>>[1] = r /\ <<r, j>>[2] = j
  BY <1>1
<1>4. ~ Has(Tail(<<r>>), Readies)
  BY <1>2, EmptySequence
<1>5. ~ Has(Tail(<<r, j>>), Readies)
  BY <1>1, <1>3 DEF Has
<1>6. \A kind : r \notin kind => ~ Has(<<r>>, kind) /\ HasOne(<<r>>, kind)
  BY <1>2 DEF Has, HasOne
<1>7. /\ \A kind : r \notin kind => HasOne(<<r, j>>, kind)
      /\ \A kind : r \notin kind /\ j \notin kind => ~ Has(<<r, j>>, kind)
  BY <1>3 DEF Has, HasOne
<1> QED
  BY <1>2, <1>3, <1>4, <1>5, <1>6, <1>7

LEMMA HasEither ==
    ASSUME NEW w, NEW A, NEW B
    PROVE  /\ Has(w, A \cup B) <=> Has(w, A) \/ Has(w, B)
           /\ HasOne(w, A) /\ ~ Has(w, B) => HasOne(w, A \cup B)
BY DEF Has, HasOne

LEMMA UntouchedIsReady ==
    ASSUME NEW d, Untouched(d), d.role = "none"
    PROVE  Ready(d) /\ ~ Owes(d)
<1>1. ~ Owes(d)
  BY EmptySequence DEF Untouched, Owes, Asked, Answering
<1>2. NewPeerConnection.mate = 0
  BY DEF NewPeerConnection
<1> QED
  BY <1>1, <1>2 DEF Untouched, Ready, Holding

\* A message is appended to what is on the wire to a socket that is open.
LEMMA SessionHears ==
    ASSUME NEW p, NEW d, NEW w, Session(p, d, w), d.socket = "open",
           NEW x \in MessagesTo(p), x \notin Readies
    PROVE  Session(p, d, Append(w, x))
<1>1. w \in Seq(MessagesTo(p))
  BY DEF Session
<1>2. /\ Append(w, x) \in Seq(MessagesTo(p)) /\ Append(w, x) # <<>>
      /\ w # <<>> => /\ Head(Append(w, x)) = Head(w)
                     /\ Has(Tail(Append(w, x)), Readies) => Has(Tail(w), Readies)
      /\ Has(Append(w, x), Readies) => Has(w, Readies)
  BY <1>1, OneAppended
<1>3. ~ d.closed /\ ~ Unopened(d)
  BY DEF Session, Unopened
<1> QED
  BY <1>2, <1>3 DEF Session

LEMMA OffererEnters ==
    ASSUME NEW o, NEW a, NEW wo, NEW wa, NEW n, Undisturbed(o, a, wo, wa, n), o.gen = 0,
           NEW e, ~ e.closed, e.socket = "connecting", e.role = "none", e.gen # 0, Untouched(e)
    PROVE  wo = <<>> /\ Undisturbed(e, a, wo, wa, 0)
<1>1. ~ o.closed /\ Unopened(o) /\ wo = <<>> /\ o.role = "none"
  BY DEF Undisturbed, Session, Unopened
<1>2. Session("offerer", e, wo)
  BY <1>1 DEF Undisturbed, Session, Unopened
<1>3. Ready(e)
  BY UntouchedIsReady
<1>4. Announcing(o, a) /\ Early(o, a, wo) /\ ~ Late(a, wo, wa)
  BY <1>1 DEF Announcing, Early, Undisturbed, OffererIsFine
<1>5. OffererIsFine(e, a, wo, wa)
  BY <1>1, <1>3, <1>4, EmptySequence DEF OffererIsFine, Undisturbed
<1>6. TriedIsCounted(e, 0)
  BY DEF TriedIsCounted, Untouched
<1> QED
  BY <1>1, <1>2, <1>5, <1>6 DEF Undisturbed

LEMMA AnswererEnters ==
    ASSUME NEW o, NEW a, NEW wo, NEW wa, NEW n, Undisturbed(o, a, wo, wa, n), a.gen = 0,
           NEW e, ~ e.closed, e.socket = "connecting", e.role = "none", e.gen # 0, Untouched(e)
    PROVE  wa = <<>> /\ Undisturbed(o, e, wo, wa, n)
<1>1. ~ a.closed /\ Unopened(a) /\ wa = <<>> /\ a.role = "none"
  BY DEF Undisturbed, Session, Unopened
<1>2. Session("answerer", e, wa)
  BY <1>1 DEF Undisturbed, Session, Unopened
<1>3. ~ Owes(e)
  BY UntouchedIsReady
<1>4. ~ Outgoing(e, wa) /\ ~ Has(wa, Offers)
  BY <1>1, <1>3, EmptySequence DEF Outgoing
<1> QED
  BY <1>1, <1>2, <1>3, <1>4, AnswererGoesOn DEF Left

\* A socket opens: its session is announced, and to a peer that there is.
LEMMA OffererOpens ==
    ASSUME NEW o, NEW a, NEW wo, NEW wa, NEW n, Undisturbed(o, a, wo, wa, n),
           o.socket = "connecting",
           NEW e, ~ e.closed, e.socket = "open", e.role = "none", e.gen = o.gen, Untouched(e)
    PROVE  LET r == Call("session-ready")
               j == Call("peer-joined")
           IN IF a.socket = "open" THEN Undisturbed(e, a, <<r, j>>, Append(wa, j), 0)
                                   ELSE Undisturbed(e, a, <<r>>, wa, 0)
<1> DEFINE r == Call("session-ready")
           j == Call("peer-joined")
<1>1. ~ o.closed /\ Unopened(o) /\ o.role = "none" /\ o.gen # 0
  BY DEF Undisturbed, Session, Unopened
<1>2. Ready(e) /\ TriedIsCounted(e, 0) /\ ~ Unopened(e)
  BY UntouchedIsReady DEF TriedIsCounted, Untouched, Unopened
<1>3. ~ Late(a, wo, wa)
  BY <1>1 DEF Announcing, Early, Undisturbed, OffererIsFine
<1>4. /\ r \in Readies /\ j \in Joins /\ r \notin Joins \cup Answers
      /\ r \notin Joins /\ r \notin Answers /\ j \notin Answers
      /\ j \notin Readies /\ j \notin Offers /\ j \in MessagesTo("answerer")
      /\ "offerer" \in Roles /\ "answerer" \in Roles
  <2>1. "offerer" \in Roles /\ "answerer" \in Roles
    BY DEF Roles
  <2> QED
    BY <2>1, KindsAre
<1> HIDE DEF r, j
<1>5. /\ Session("offerer", e, <<r, j>>) /\ Session("offerer", e, <<r>>)
      /\ HasOne(<<r, j>>, Joins \cup Answers) /\ ~ Has(<<r, j>>, Answers)
      /\ HasOne(<<r>>, Joins \cup Answers) /\ ~ Has(<<r>>, Joins \cup Answers)
      /\ ~ Has(<<r>>, Answers)
  BY <1>1, <1>2, <1>4, FirstMessages DEF Session
<1>6. ASSUME a.socket = "open" PROVE Undisturbed(e, a, <<r, j>>, Append(wa, j), 0)
  <2>1. Session("answerer", a, Append(wa, j))
    BY <1>4, <1>6, SessionHears DEF Undisturbed
  <2>2. /\ Has(Append(wa, j), Offers) => Has(wa, Offers)
        /\ HasOne(wa, Offers) => HasOne(Append(wa, j), Offers)
    BY <1>4, OneAppended DEF Undisturbed, Session
  <2>3. ~ a.closed => AnswererIsFine(a, Append(wa, j))
    BY <2>2 DEF Undisturbed, AnswererIsFine
  <2>4. ~ Announcing(e, a) /\ ~ Outgoing(a, Append(wa, j)) /\ ~ Late(a, <<r, j>>, Append(wa, j))
    BY <1>2, <1>3, <1>5, <1>6, <2>2 DEF Announcing, Outgoing, Late, Unopened
  <2>5. OffererIsFine(e, a, <<r, j>>, Append(wa, j))
    BY <1>2, <1>5, <2>4 DEF OffererIsFine
  <2> QED
    BY <1>2, <1>5, <2>1, <2>3, <2>5 DEF Undisturbed
<1>7. ASSUME a.socket # "open" PROVE Undisturbed(e, a, <<r>>, wa, 0)
  <2>1. ~ Outgoing(a, wa) /\ ~ Late(a, <<r>>, wa)
    BY <1>3, <1>5 DEF Late
  <2>2. OffererIsFine(e, a, <<r>>, wa)
    BY <1>2, <1>5, <2>1 DEF OffererIsFine
  <2> QED
    BY <1>2, <1>5, <2>2 DEF Undisturbed
<1> QED
  BY <1>6, <1>7 DEF r, j

LEMMA AnswererOpens ==
    ASSUME NEW o, NEW a, NEW wo, NEW wa, NEW n, Undisturbed(o, a, wo, wa, n),
           a.socket = "connecting",
           NEW e, ~ e.closed, e.socket = "open", e.role = "none", e.gen = a.gen, Untouched(e)
    PROVE  LET r == Call("session-ready")
               j == Call("peer-joined")
           IN IF o.socket = "open" THEN Undisturbed(o, e, Append(wo, j), <<r, j>>, n)
                                   ELSE Undisturbed(o, e, wo, <<r>>, n)
<1> DEFINE r == Call("session-ready")
           j == Call("peer-joined")
<1>1. ~ a.closed /\ Unopened(a) /\ a.role = "none" /\ a.gen # 0 /\ Announcing(o, a)
  BY DEF Undisturbed, Session, Unopened, Announcing
<1>2. ~ Owes(e) /\ ~ Unopened(e)
  BY UntouchedIsReady DEF Unopened
<1>3. ~ o.closed => Ready(o) /\ ~ Late(a, wo, wa) /\ ~ Has(wo, Joins \cup Answers)
  BY <1>1 DEF Early, Undisturbed, OffererIsFine
<1>4. /\ r \in Readies /\ j \in Joins /\ r \notin Offers /\ j \notin Offers
      /\ j \notin Answers /\ j \notin Readies /\ j \in MessagesTo("offerer")
      /\ "offerer" \in Roles /\ "answerer" \in Roles
  <2>1. "offerer" \in Roles /\ "answerer" \in Roles
    BY DEF Roles
  <2> QED
    BY <2>1, KindsAre
<1> HIDE DEF r, j
<1>5. /\ Session("answerer", e, <<r, j>>) /\ Session("answerer", e, <<r>>)
      /\ HasOne(<<r, j>>, Offers) /\ ~ Has(<<r, j>>, Offers)
      /\ HasOne(<<r>>, Offers) /\ ~ Has(<<r>>, Offers)
  BY <1>1, <1>2, <1>4, FirstMessages DEF Session
<1>6. /\ AnswererIsFine(e, <<r, j>>) /\ AnswererIsFine(e, <<r>>)
      /\ ~ Outgoing(e, <<r, j>>) /\ ~ Outgoing(e, <<r>>)
  BY <1>2, <1>5 DEF AnswererIsFine, Outgoing
<1>7. ASSUME o.socket = "open" PROVE Undisturbed(o, e, Append(wo, j), <<r, j>>, n)
  <2>1. Session("offerer", o, Append(wo, j)) /\ ~ o.closed
    BY <1>4, <1>7, SessionHears DEF Undisturbed, Session
  <2>2. /\ Has(Append(wo, j), Answers) => Has(wo, Answers)
        /\ HasOne(wo, Joins \cup Answers) => HasOne(Append(wo, j), Joins \cup Answers)
    BY <1>3, <1>4, <2>1, OneAppended DEF Undisturbed, Session
  <2>3. ~ Announcing(o, e) /\ ~ Late(e, Append(wo, j), <<r, j>>)
    BY <1>2, <1>3, <1>6, <1>7, <2>1, <2>2 DEF Announcing, Late, Unopened
  <2>4. OffererIsFine(o, e, Append(wo, j), <<r, j>>)
    BY <1>3, <1>6, <2>1, <2>2, <2>3 DEF OffererIsFine, Undisturbed
  <2> QED
    BY <1>5, <1>6, <2>1, <2>4 DEF Undisturbed
<1>8. ASSUME o.socket # "open" PROVE Undisturbed(o, e, wo, <<r>>, n)
  <2>1. ~ o.closed => ~ Late(e, wo, <<r>>)
    BY <1>3, <1>6 DEF Late
  <2>2. ~ o.closed => OffererIsFine(o, e, wo, <<r>>)
    BY <1>3, <1>6, <2>1 DEF OffererIsFine, Undisturbed
  <2> QED
    BY <1>5, <1>6, <2>2 DEF Undisturbed
<1> QED
  BY <1>7, <1>8 DEF r, j

LEMMA OffererLeaves ==
    ASSUME NEW o, NEW a, NEW wo, NEW wa, NEW n, Undisturbed(o, a, wo, wa, n),
           NEW e, e.closed, e.socket = "none", e.gen # 0,
           NEW u, u \in {wa, Append(wa, Call("peer-left"))}, u # wa => a.socket = "open"
    PROVE  Undisturbed(e, a, <<>>, u, 0)
<1>1. Session("offerer", e, <<>>) /\ TriedIsCounted(e, 0)
  BY EmptySequence DEF Session, TriedIsCounted, Unopened
<1>2. CASE u = wa
  BY <1>1, <1>2 DEF Undisturbed
<1>3. CASE u # wa
  <2>1. /\ Call("peer-left") \notin Readies /\ Call("peer-left") \notin Offers
        /\ Call("peer-left") \in MessagesTo("answerer") /\ u = Append(wa, Call("peer-left"))
    <3>1. "answerer" \in Roles
      BY DEF Roles
    <3> QED
      BY <1>3, <3>1, KindsAre
  <2>2. Session("answerer", a, u)
    BY <1>3, <2>1, SessionHears DEF Undisturbed
  <2>3. /\ Has(u, Offers) => Has(wa, Offers)
        /\ HasOne(wa, Offers) => HasOne(u, Offers)
    BY <2>1, OneAppended DEF Undisturbed, Session
  <2> QED
    BY <1>1, <2>2, <2>3 DEF Undisturbed, AnswererIsFine
<1> QED
  BY <1>2, <1>3

LEMMA AnswererLeaves ==
    ASSUME NEW o, NEW a, NEW wo, NEW wa, NEW n, Undisturbed(o, a, wo, wa, n), ~ a.closed,
           NEW e, e.closed, e.socket = "none", e.gen # 0,
           NEW u, u \in {wo, Append(wo, Call("peer-left"))}, u # wo => o.socket = "open"
    PROVE  Undisturbed(o, e, u, <<>>, n)
<1>1. Session("answerer", e, <<>>) /\ ~ Unopened(e) /\ ~ Outgoing(e, <<>>)
  BY EmptySequence DEF Session, Unopened, Outgoing
<1>2. /\ Session("offerer", o, u)
      /\ \A kind : kind \in {Joins, Answers, Joins \cup Answers}
                      => /\ Has(u, kind) => Has(wo, kind)
                         /\ HasOne(wo, kind) => HasOne(u, kind)
  <2>1. CASE u = wo
    BY <2>1 DEF Undisturbed
  <2>2. CASE u # wo
    <3>1. /\ Call("peer-left") \notin Readies /\ Call("peer-left") \notin Joins \cup Answers
          /\ Call("peer-left") \in MessagesTo("offerer") /\ u = Append(wo, Call("peer-left"))
      <4>1. "offerer" \in Roles
        BY DEF Roles
      <4> QED
        BY <2>2, <4>1, KindsAre
    <3>2. Session("offerer", o, u)
      BY <2>2, <3>1, SessionHears DEF Undisturbed
    <3>3. \A kind : Call("peer-left") \notin kind
                      => /\ Has(u, kind) => Has(wo, kind)
                         /\ HasOne(wo, kind) => HasOne(u, kind)
      BY <3>1, OneAppended DEF Undisturbed, Session
    <3> QED
      BY <3>1, <3>2, <3>3
  <2> QED
    BY <2>1, <2>2
<1>3. /\ Announcing(o, e) => Announcing(o, a)
      /\ Early(o, e, u) => Early(o, a, wo)
      /\ Late(e, u, <<>>) => Late(a, wo, wa)
  BY <1>1, <1>2 DEF Announcing, Early, Late
<1>4. ~ o.closed => OffererIsFine(o, e, u, <<>>)
  BY <1>1, <1>2, <1>3 DEF Undisturbed, OffererIsFine
<1> QED
  BY <1>1, <1>2, <1>4 DEF Undisturbed

-----------------------------------------------------------------------------
(* An offer, and its answer, are sent.                                       *)

LEMMA OfferTravels ==
    ASSUME NEW o, NEW a, NEW wo, NEW wa, NEW n, Undisturbed(o, a, wo, wa, n),
           Sound(o), ~ o.closed, o.role = "offerer", o.offers # {},
           NEW e, InSession(o, e), SteadyOfferer(e), HasOffered(e),
           NEW m, TriedIsCounted(e, m), NEW x \in Offers,
           NEW u, u = IF o.socket = "open" /\ a.socket = "open" THEN Append(wa, x) ELSE wa
    PROVE  Undisturbed(e, a, wo, u, m)
<1>1. Holding(o)
  BY DEF Holding
<1>2. ~ Early(o, a, wo) /\ ~ Late(a, wo, wa)
  BY <1>1 DEF Undisturbed, OffererIsFine, Ready, HasOffered
<1>3. ~ Announcing(o, a) /\ ~ Has(wo, Answers) /\ ~ Outgoing(a, wa) /\ o.socket = "open"
  BY <1>2 DEF Early, Late, Announcing, Unopened
<1>4. CASE a.closed
  <2>1. u = wa
    BY <1>4 DEF Undisturbed, Session
  <2> QED
    BY <1>2, <2>1, OffererGoesOn DEF Left
<1>5. CASE ~ a.closed
  <2>1. a.socket = "open" /\ u = Append(wa, x) /\ ~ Has(wa, Offers) /\ ~ Owes(a)
    BY <1>3, <1>5 DEF Announcing, Unopened, Outgoing
  <2>2. x \in MessagesTo("answerer") /\ x \notin Readies
    BY KindsAre
  <2>3. Session("answerer", a, u)
    BY <2>1, <2>2, SessionHears DEF Undisturbed
  <2>4. HasOne(u, Offers)
    BY <1>5, <2>1, <2>2, OneAppended DEF Undisturbed, Session, AnswererIsFine
  <2>5. AnswererIsFine(a, u)
    BY <1>5, <2>1, <2>4 DEF Undisturbed, AnswererIsFine
  <2>6. Session("offerer", e, wo)
    BY SessionGoesOn DEF Undisturbed, Left
  <2>7. ~ Early(e, a, wo) /\ ~ Announcing(e, a) /\ e.role # "none"
    BY <1>2 DEF Early, Announcing, Unopened, InSession
  <2>8. OffererIsFine(e, a, wo, u)
    BY <1>3, <2>7 DEF OffererIsFine, Undisturbed
  <2> QED
    BY <2>3, <2>5, <2>6, <2>8 DEF Undisturbed
<1> QED
  BY <1>4, <1>5

LEMMA AnswerTravels ==
    ASSUME NEW o, NEW a, NEW wo, NEW wa, NEW n, Undisturbed(o, a, wo, wa, n),
           Sound(a), ~ a.closed, a.role = "answerer", Answering(a),
           NEW e, InSession(a, e), SteadyAnswerer(e), ~ Owes(e),
           NEW x \in Answers,
           NEW u, u = IF o.socket = "open" /\ a.socket = "open" THEN Append(wo, x) ELSE wo
    PROVE  Undisturbed(o, e, u, wa, n)
<1>1. Outgoing(a, wa) /\ ~ Has(wa, Offers) /\ ~ e.closed /\ e.role = "answerer"
  BY DEF Outgoing, Owes, Undisturbed, AnswererIsFine, InSession
<1>2. Session("answerer", e, wa)
  BY SessionGoesOn DEF Undisturbed, Left
<1>3. ~ Outgoing(e, wa) /\ AnswererIsFine(e, wa) /\ (Unopened(e) <=> Unopened(a))
  BY <1>1 DEF Outgoing, AnswererIsFine, Undisturbed, InSession, Unopened
<1>4. CASE o.closed
  <2>1. u = wo
    BY <1>4 DEF Undisturbed, Session
  <2> QED
    BY <1>2, <1>3, <1>4, <2>1 DEF Undisturbed
<1>5. CASE ~ o.closed
  <2>1. HasOffered(o) /\ ~ Has(wo, Answers) /\ ~ Early(o, a, wo)
    BY <1>1, <1>5 DEF Late, Undisturbed, OffererIsFine
  <2>2. ~ Has(wo, Joins) /\ ~ Has(wo, Joins \cup Answers) /\ ~ Announcing(o, a)
    BY <2>1, HasEither DEF Early
  <2>3. o.socket = "open" /\ u = Append(wo, x)
    BY <1>5, <2>2 DEF Announcing, Unopened
  <2>4. x \in MessagesTo("offerer") /\ x \notin Readies /\ x \notin Joins
    BY KindsAre
  <2>5. Session("offerer", o, u)
    BY <2>3, <2>4, SessionHears DEF Undisturbed
  <2>6. HasOne(u, Joins \cup Answers) /\ ~ Has(u, Joins)
    BY <1>5, <2>2, <2>3, <2>4, OneAppended DEF Undisturbed, Session, OffererIsFine
  <2>7. ~ Announcing(o, e) /\ ~ Early(o, e, u)
    BY <1>3, <2>2, <2>6 DEF Announcing, Early
  <2>8. OffererIsFine(o, e, u, wa)
    BY <1>3, <1>5, <2>1, <2>6, <2>7 DEF OffererIsFine, Undisturbed
  <2> QED
    BY <1>2, <1>3, <2>5, <2>8 DEF Undisturbed
<1> QED
  BY <1>4, <1>5

-----------------------------------------------------------------------------
(* Their state, before a step and after it.                                  *)

Framed == DOMAIN wire = Roles /\ troubles \in Seq(Troubles)

Orderly == Undisturbed(c["offerer"], c["answerer"], wire["offerer"], wire["answerer"], tried)

OrderlyNext ==
    Undisturbed(c'["offerer"], c'["answerer"], wire'["offerer"], wire'["answerer"], tried')

LEMMA RolesAre ==
    /\ "offerer" \in Roles /\ "answerer" \in Roles /\ "offerer" # "answerer"
    /\ Other("offerer") = "answerer" /\ Other("answerer") = "offerer"
BY DEF Roles, Other

LEMMA TroublesGrow ==
    ASSUME Framed, NEW t, Happens(t)
    PROVE  /\ troubles' \in Seq(Troubles)
           /\ OnlyLosses' => OnlyLosses /\ t \in {"cut", "flap", "leave"}
<1>1. troubles' = Append(troubles, t) /\ t \in Troubles /\ troubles \in Seq(Troubles)
  BY DEF Happens, Framed
<1>2. /\ troubles' \in Seq(Troubles) /\ Len(troubles) \in Nat
      /\ DOMAIN troubles = 1 .. Len(troubles) /\ DOMAIN troubles' = 1 .. (Len(troubles) + 1)
      /\ troubles'[Len(troubles) + 1] = t
      /\ \A i \in DOMAIN troubles : troubles'[i] = troubles[i]
  BY <1>1
<1>3. Range(troubles) \subseteq Range(troubles') /\ t \in Range(troubles')
  BY <1>2 DEF Range
<1> QED
  BY <1>2, <1>3 DEF OnlyLosses

LEMMA TroublesStay ==
    ASSUME UNCHANGED troubles
    PROVE  OnlyLosses' => OnlyLosses
BY DEF OnlyLosses, Range

LEMMA InitFramed == Init => Framed
BY DEF Init, Framed

LEMMA StepFramed ==
    ASSUME Framed, [Next]_vars
    PROVE  Framed'
<1>1. CASE UNCHANGED vars
  BY <1>1 DEF vars, Framed
<1>2. \A t : Happens(t) => troubles' \in Seq(Troubles)
  BY TroublesGrow
<1>3. /\ \A w, x : wire' = [wire EXCEPT ![w] = x] => DOMAIN wire' = Roles
      /\ \A p, m : wire' = Relayed(p, m) => DOMAIN wire' = Roles
      /\ UNCHANGED wire => DOMAIN wire' = Roles
      /\ UNCHANGED troubles => troubles' \in Seq(Troubles)
  BY DEF Framed, Relayed
<1>4. ASSUME NEW p \in Roles,
             \/ JoinSession(p) \/ Leave(p) \/ SocketOpens(p) \/ SocketDrops(p)
             \/ SocketReconnects(p) \/ HandleMessage(p)
      PROVE  Framed'
  <2>1. troubles' \in Seq(Troubles)
    BY <1>2, <1>3, <1>4 DEF JoinSession, Leave, SocketOpens, SocketDrops, SocketReconnects,
                            HandleMessage, Quietly
  <2>2. DOMAIN wire' = Roles
    BY <1>3, <1>4 DEF JoinSession, Leave, SocketOpens, SocketDrops, SocketReconnects,
                      HandleMessage, Quietly, Framed
  <2> QED
    BY <2>1, <2>2 DEF Framed
<1>5. ASSUME NEW p \in Roles,
             \/ ConfigEnds(p) \/ ConfigFails(p) \/ OfferIsMade(p) \/ OfferRejects(p)
             \/ OfferIsAnswered(p) \/ AnswerIsAccepted(p) \/ SignalIsMinor(p)
             \/ SignalRejects(p) \/ Hangs(p) \/ CandidateFound(p)
      PROVE  Framed'
  <2>1. /\ UNCHANGED troubles \/ \E t : Happens(t)
        /\ UNCHANGED wire \/ \E m : wire' = Relayed(p, m)
    BY <1>5 DEF ConfigEnds, ConfigFails, OfferIsMade, OfferRejects, OfferIsAnswered,
                AnswerIsAccepted, SignalIsMinor, SignalRejects, Hangs, CandidateFound, Quietly
  <2> QED
    BY <1>2, <1>3, <2>1 DEF Framed
<1>6. ASSUME NEW p \in Roles,
             \/ Progresses(p) \/ PeerIceConnected(p) \/ PeerFlaps(p)
             \/ RecoveryTimerFires(p) \/ ConnectionTimerFires(p)
      PROVE  Framed'
  <2>1. UNCHANGED wire /\ (UNCHANGED troubles \/ \E t : Happens(t))
    BY <1>6 DEF Progresses, PeerConnecting, PeerConnected, PeerDisconnected, PeerFailed,
                ChannelOpens, TransferMoves, PeerIceConnected, PeerFlaps, RecoveryTimerFires,
                ConnectionTimerFires, Quietly
  <2> QED
    BY <1>2, <1>3, <2>1 DEF Framed
<1>7. CASE Cut \/ RestartsIce \/ ReplacesRoute
  <2>1. UNCHANGED wire /\ \E t : Happens(t)
    BY <1>7 DEF Cut, RestartsIce, ReplacesRoute
  <2> QED
    BY <1>2, <1>3, <2>1 DEF Framed
<1> QED
  BY <1>1, <1>4, <1>5, <1>6, <1>7 DEF Next, Settles

LEMMA Moved ==
    ASSUME IInv, NEW p \in Roles, NEW e, Becomes(p, e)
    PROVE  /\ c'[p] = e /\ c'[Other(p)] = c[Other(p)]
           /\ p = "answerer" => tried' = tried
           /\ p = "offerer" =>
                 tried' = IF e.pc.peer = "connected" \/ e.closed \/ e.role = "none" THEN 0
                          ELSE IF e.pending \in {0, c[p].pending} THEN tried
                          ELSE tried + 1
BY DEF IInv, Becomes, Roles, Other

\* A coordinator whose user has left.
LEMMA ClosedMoves ==
    ASSUME IInv, Orderly, NEW p \in Roles, c[p].closed, NEW e, Becomes(p, e), InSession(c[p], e),
           wire'["offerer"] = wire["offerer"], wire'["answerer"] = wire["answerer"]
    PROVE  OrderlyNext
<1>1. c'[p] = e /\ c'[Other(p)] = c[Other(p)] /\ e.closed
  BY Moved DEF InSession
<1>2. Sound(c["offerer"]) /\ Sound(c["answerer"])
  BY RolesAre DEF IInv
<1>3. CASE p = "offerer"
  <2>1. tried' = 0
    BY <1>1, <1>3, Moved
  <2> QED
    BY <1>1, <1>2, <1>3, <2>1, RolesAre, ClosedGoesOn DEF Orderly, OrderlyNext
<1>4. CASE p = "answerer"
  <2>1. tried' = tried
    BY <1>4, Moved
  <2> QED
    BY <1>1, <1>2, <1>4, <2>1, RolesAre, ClosedGoesOn DEF Orderly, OrderlyNext
<1> QED
  BY <1>3, <1>4 DEF Roles

\* The offerer, in its session.
LEMMA OffererCounts ==
    ASSUME IInv, Orderly, ~ c["offerer"].closed, c["offerer"].role = "offerer",
           NEW e, Becomes("offerer", e), InSession(c["offerer"], e), SteadyOfferer(e),
           \/ e.pc.peer = "connected"
           \/ e.pending \in {0, c["offerer"].pending} /\ e.attempts = c["offerer"].attempts
           \/ e.attempts = c["offerer"].attempts + 1
    PROVE  TriedIsCounted(e, tried')
<1>1. SteadyOfferer(c["offerer"]) /\ TriedIsCounted(c["offerer"], tried)
  BY DEF Orderly, Undisturbed, OffererIsFine
<1>2. c["offerer"].attempts \in Nat /\ e.attempts \in Nat
  BY <1>1 DEF SteadyOfferer
<1>3. ~ e.closed /\ e.role # "none"
  BY DEF InSession
<1>4. tried' = IF e.pc.peer = "connected" THEN 0
               ELSE IF e.pending \in {0, c["offerer"].pending} THEN tried ELSE tried + 1
  BY <1>3, Moved, RolesAre
<1>5. \/ e.pc.peer = "connected" /\ tried' = 0
      \/ tried' = tried /\ e.attempts \in {c["offerer"].attempts, c["offerer"].attempts + 1}
      \/ tried' = tried + 1 /\ e.attempts = c["offerer"].attempts + 1
  BY <1>4
<1> QED
  BY <1>1, <1>2, <1>5, CountGoesOn

LEMMA OffererMoves ==
    ASSUME IInv, Orderly, ~ c["offerer"].closed, c["offerer"].role = "offerer",
           NEW e, Becomes("offerer", e), InSession(c["offerer"], e), SteadyOfferer(e),
           \/ e.pc.peer = "connected"
           \/ e.pending \in {0, c["offerer"].pending} /\ e.attempts = c["offerer"].attempts
           \/ e.attempts = c["offerer"].attempts + 1,
           Left(wire["offerer"], wire'["offerer"]), wire'["answerer"] = wire["answerer"],
           Early(c["offerer"], c["answerer"], wire'["offerer"]) => Ready(e),
           Late(c["answerer"], wire'["offerer"], wire["answerer"]) => HasOffered(e)
    PROVE  OrderlyNext
<1>1. c'["offerer"] = e /\ c'["answerer"] = c["answerer"]
  BY Moved, RolesAre
<1>2. TriedIsCounted(e, tried')
  BY OffererCounts
<1>3. Sound(c["offerer"])
  BY RolesAre DEF IInv
<1> QED
  BY <1>1, <1>2, <1>3, OffererGoesOn DEF Orderly, OrderlyNext

\* The answerer, in its session.
LEMMA AnswererMoves ==
    ASSUME IInv, Orderly, ~ c["answerer"].closed, c["answerer"].role = "answerer",
           NEW e, Becomes("answerer", e), InSession(c["answerer"], e), SteadyAnswerer(e),
           wire'["offerer"] = wire["offerer"], Left(wire["answerer"], wire'["answerer"]),
           Owes(e) => Owes(c["answerer"]) \/ Has(wire["answerer"], Offers),
           Has(wire'["answerer"], Offers) => ~ Owes(e)
    PROVE  OrderlyNext
<1>1. c'["answerer"] = e /\ c'["offerer"] = c["offerer"] /\ tried' = tried
  BY Moved, RolesAre
<1>2. Sound(c["answerer"])
  BY RolesAre DEF IInv
<1>3. Session("answerer", e, wire'["answerer"])
  BY <1>2, SessionGoesOn DEF Orderly, Undisturbed
<1>4. e.role = "answerer" /\ ~ e.closed /\ (Unopened(e) => Unopened(c["answerer"]))
  BY DEF InSession, Unopened
<1>5. Has(wire'["answerer"], Offers) => Has(wire["answerer"], Offers)
  BY LeftIsLess DEF Orderly, Undisturbed, Session
<1>6. Outgoing(e, wire'["answerer"]) => Outgoing(c["answerer"], wire["answerer"])
  BY <1>5 DEF Outgoing
<1>7. IF e.role = "none" THEN Untouched(e) ELSE SteadyAnswerer(e)
  BY <1>4
<1> QED
  BY <1>1, <1>3, <1>4, <1>6, <1>7, AnswererGoesOn DEF Orderly, OrderlyNext

-----------------------------------------------------------------------------
(* Whatever is not a session, a socket or a message.                         *)

Works(p) ==
    \/ ConfigEnds(p) \/ ConfigFails(p) \/ OfferIsMade(p) \/ OfferRejects(p)
    \/ OfferIsAnswered(p) \/ AnswerIsAccepted(p) \/ SignalIsMinor(p) \/ SignalRejects(p)
    \/ Hangs(p) \/ Progresses(p) \/ PeerIceConnected(p) \/ PeerFlaps(p)
    \/ RecoveryTimerFires(p) \/ ConnectionTimerFires(p)

LEMMA KeptIsInSession ==
    ASSUME NEW d, NEW e, Kept(d, e)
    PROVE  InSession(d, e)
BY DEF Kept, InSession

LEMMA ConfiguredInSession ==
    ASSUME NEW d, Sound(d), NEW k \in d.configs
    PROVE  /\ InSession(d, ConfigDone(d, k))
           /\ d.closed \/ k.gen # d.gen => Kept(d, ConfigDone(d, k))
<1> DEFINE dropped == [d EXCEPT !.configs = @ \ {k}, !.pending = IF @ = k.gen THEN 0 ELSE @]
           f == Attached(dropped, k)
<1>1. /\ DOMAIN dropped = Fields /\ dropped.gen = d.gen /\ dropped.closed = d.closed
      /\ dropped.role = d.role /\ dropped.socket = d.socket /\ dropped.transfer = d.transfer
      /\ d.gen \in Nat
  BY FieldsAre DEF Sound
<1>2. ConfigDone(d, k) = IF d.closed \/ k.gen # d.gen THEN dropped ELSE Continue(f, k)
  BY DEF ConfigDone, IsCurrent
<1> HIDE DEF dropped
<1>3. Kept(d, dropped)
  BY <1>1 DEF Kept
<1>4. /\ DOMAIN f = Fields /\ f.gen = d.gen /\ f.closed = d.closed /\ f.role = d.role
      /\ f.socket = d.socket
  BY <1>1, FieldsAre DEF Attached, NewTransfer
<1> HIDE DEF f
<1>5. InSession(d, Continue(f, k))
  BY <1>1, <1>4, FieldsAre DEF InSession, Continue
<1> QED
  BY <1>2, <1>3, <1>5, KeptIsInSession

\* It is a method of the coordinator, and all but one keep its transfer.
LEMMA MethodsWork ==
    ASSUME IInv, NEW p \in Roles, Works(p)
    PROVE  \E e : /\ Becomes(p, e)
                  /\ \/ Kept(c[p], e)
                     \/ \E k \in c[p].configs : e = ConfigDone(c[p], k)
<1>1. Sound(c[p]) /\ Object(c[p])
  BY DEF IInv, Sound, Object
<1>2. CASE ConfigEnds(p)
  BY <1>2 DEF ConfigEnds, Quietly
<1>3. CASE ConfigFails(p)
  BY <1>1, <1>3, AnswersKept DEF ConfigFails
<1>4. CASE OfferIsMade(p) \/ OfferRejects(p)
  BY <1>1, <1>4, AnswersKept DEF OfferIsMade, OfferRejects, Quietly
<1>5. CASE OfferIsAnswered(p) \/ AnswerIsAccepted(p) \/ SignalRejects(p)
  BY <1>1, <1>5, AnswersKept DEF OfferIsAnswered, AnswerIsAccepted, SignalRejects, Quietly
<1>6. CASE SignalIsMinor(p)
  BY <1>1, <1>6, PartsKept DEF SignalIsMinor, Quietly
<1>7. CASE Hangs(p)
  <2>1. \/ \E o : Quietly(p, [c[p] EXCEPT !.offers = @ \ {o}])
        \/ \E i : Quietly(p, [c[p] EXCEPT !.signals = SignalsBeside(c[p], i)])
    BY <1>7 DEF Hangs
  <2>2. \E v : \/ Becomes(p, [c[p] EXCEPT !.offers = v])
               \/ Becomes(p, [c[p] EXCEPT !.signals = v])
    BY <2>1 DEF Quietly
  <2> QED
    BY <1>1, <2>2, FieldsKept
<1>8. CASE Progresses(p) \/ PeerFlaps(p)
  <2>1. \/ \E peer \in {"connecting", "connected", "disconnected", "failed"} :
              Becomes(p, PeerState(c[p], peer))
        \/ Becomes(p, ChannelOpen(c[p])) \/ Becomes(p, Published(c[p], "ACTIVE"))
    BY <1>8 DEF Progresses, PeerConnecting, PeerConnected, PeerDisconnected, PeerFailed,
                ChannelOpens, TransferMoves, PeerFlaps, Quietly
  <2> QED
    BY <1>1, <2>1, CallbacksKept, PartsKept
<1>9. CASE PeerIceConnected(p) \/ RecoveryTimerFires(p) \/ ConnectionTimerFires(p)
  BY <1>1, <1>9, CallbacksKept
     DEF PeerIceConnected, RecoveryTimerFires, ConnectionTimerFires, Quietly
<1> QED
  BY <1>2, <1>3, <1>4, <1>5, <1>6, <1>7, <1>8, <1>9 DEF Works

\* Nothing is sent to or from a coordinator whose user has left.
LEMMA ClosedWorks ==
    ASSUME IInv, Framed, Orderly, NEW p \in Roles, c[p].closed, Works(p)
    PROVE  OrderlyNext
<1>1. PICK e : /\ Becomes(p, e)
               /\ \/ Kept(c[p], e)
                  \/ \E k \in c[p].configs : e = ConfigDone(c[p], k)
  BY MethodsWork
<1>2. InSession(c[p], e)
  BY <1>1, KeptIsInSession, ConfiguredInSession DEF IInv
<1>3. wire'["offerer"] = wire["offerer"] /\ wire'["answerer"] = wire["answerer"]
  <2>1. ~ IsOpen(p)
    BY DEF Orderly, Undisturbed, Session, IsOpen, Roles
  <2>2. \A m, q : q \in Roles => Relayed(p, m)[q] = wire[q]
    BY <2>1 DEF Relayed, Framed
  <2>3. UNCHANGED wire \/ \E m : wire' = Relayed(p, m)
    BY DEF Works, ConfigEnds, ConfigFails, OfferIsMade, OfferRejects, OfferIsAnswered,
                AnswerIsAccepted, SignalIsMinor, SignalRejects, Hangs, Progresses,
                PeerConnecting, PeerConnected, PeerDisconnected, PeerFailed, ChannelOpens,
                TransferMoves, PeerIceConnected, PeerFlaps, RecoveryTimerFires,
                ConnectionTimerFires, Quietly
  <2> QED
    BY <2>2, <2>3, RolesAre
<1> QED
  BY <1>1, <1>2, <1>3, ClosedMoves

-----------------------------------------------------------------------------
(* The offerer works.                                                        *)

LEMMA OffererIsSteady ==
    ASSUME IInv, Orderly, ~ c["offerer"].closed
    PROVE  /\ Sound(c["offerer"]) /\ Object(c["offerer"])
           /\ c["offerer"].role = "none" => Untouched(c["offerer"])
           /\ c["offerer"].role # "none" => /\ SteadyOfferer(c["offerer"])
                                            /\ c["offerer"].role = "offerer"
                                            /\ c["offerer"].socket = "open"
<1>1. Sound(c["offerer"]) /\ Object(c["offerer"])
  BY RolesAre DEF IInv, Sound, Object
<1>2. /\ Session("offerer", c["offerer"], wire["offerer"])
      /\ IF c["offerer"].role = "none" THEN Untouched(c["offerer"])
                                       ELSE SteadyOfferer(c["offerer"])
  BY DEF Orderly, Undisturbed, OffererIsFine
<1> QED
  BY <1>1, <1>2 DEF Session, Unopened

\* Once the connection has been described, or is about to be, nothing more is
\* expected of the offerer.
LEMMA OffererExpectsNothing ==
    ASSUME Orderly, ~ c["offerer"].closed,
           Holding(c["offerer"]) \/ c["offerer"].pc.mate # 0 \/ c["offerer"].recTimer # 0
    PROVE  /\ ~ Early(c["offerer"], c["answerer"], wire["offerer"])
           /\ ~ Late(c["answerer"], wire["offerer"], wire["answerer"])
BY DEF Orderly, Undisturbed, OffererIsFine, Ready, HasOffered

\* Nothing is expected of it, and it goes on.
LEMMA OffererFree ==
    ASSUME IInv, Orderly, ~ c["offerer"].closed, c["offerer"].role = "offerer",
           Holding(c["offerer"]) \/ c["offerer"].pc.mate # 0 \/ c["offerer"].recTimer # 0,
           NEW e, Becomes("offerer", e), Kept(c["offerer"], e), SteadyOfferer(e),
           \/ e.pc.peer = "connected"
           \/ e.pending \in {0, c["offerer"].pending} /\ e.attempts = c["offerer"].attempts
           \/ e.attempts = c["offerer"].attempts + 1,
           UNCHANGED wire
    PROVE  OrderlyNext
BY OffererExpectsNothing, OffererMoves, KeptIsInSession DEF Left

LEMMA OffererConfigEnds ==
    ASSUME IInv, Framed, Orderly, ~ c["offerer"].closed, ConfigEnds("offerer")
    PROVE  OrderlyNext
<1> DEFINE o == c["offerer"]
<1>1. PICK k \in o.configs : Becomes("offerer", ConfigDone(o, k)) /\ UNCHANGED wire
  BY DEF ConfigEnds, Quietly
<1>2. SteadyOfferer(o) /\ Sound(o) /\ o.role = "offerer"
  BY <1>1, OffererIsSteady DEF Untouched
<1> DEFINE e == ConfigDone(o, k)
<1>3. /\ SteadyOfferer(e) /\ e.pending \in {0, o.pending} /\ e.attempts = o.attempts
      /\ Ready(o) => Ready(e)
      /\ HasOffered(o) => HasOffered(e)
      /\ InSession(o, e)
  BY <1>2, OffererIsConfigured, ConfiguredInSession
<1>4. /\ Early(o, c["answerer"], wire["offerer"]) => Ready(o)
      /\ Late(c["answerer"], wire["offerer"], wire["answerer"]) => HasOffered(o)
  BY DEF Orderly, Undisturbed, OffererIsFine
<1>5. wire' = wire
  BY <1>1
<1> HIDE DEF e
<1>6. Becomes("offerer", e)
  BY <1>1 DEF e
<1> QED
  BY <1>2, <1>3, <1>4, <1>5, <1>6, OffererMoves DEF Left

LEMMA OffererOfferIsMade ==
    ASSUME IInv, Framed, Orderly, ~ c["offerer"].closed, OfferIsMade("offerer")
    PROVE  OrderlyNext
<1> DEFINE o == c["offerer"]
           a == c["answerer"]
           x == Routed("offerer", "offer")
<1>1. PICK q \in o.offers : Becomes("offerer", OfferDone(o, q)) /\ wire' = Relayed("offerer", x)
  BY DEF OfferIsMade
<1>2. SteadyOfferer(o) /\ Sound(o) /\ Object(o) /\ o.role = "offerer"
  BY <1>1, OffererIsSteady DEF Untouched
<1> DEFINE e == OfferDone(o, q)
<1>3. /\ SteadyOfferer(e) /\ HasOffered(e) /\ e.pending = o.pending /\ e.attempts = o.attempts
      /\ InSession(o, e)
  BY <1>2, OffererHasOffered, AnswersKept, KeptIsInSession
<1>4. x \in Offers
  BY <1>2 DEF Routed, Offers, Of, Sound
<1>5. /\ wire'["offerer"] = wire["offerer"]
      /\ wire'["answerer"] = IF o.socket = "open" /\ a.socket = "open"
                             THEN Append(wire["answerer"], x) ELSE wire["answerer"]
  BY <1>1, RolesAre DEF Relayed, Framed, IsOpen
<1> HIDE DEF e, x
<1>6. Becomes("offerer", e)
  BY <1>1 DEF e
<1>7. TriedIsCounted(e, tried')
  BY <1>2, <1>3, <1>6, OffererCounts
<1>8. c'["offerer"] = e /\ c'["answerer"] = a
  BY <1>6, Moved, RolesAre
<1>9. o.offers # {}
  BY <1>1
<1> QED
  BY <1>2, <1>3, <1>4, <1>5, <1>7, <1>8, <1>9, OfferTravels DEF Orderly, OrderlyNext

\* On the connection of the offerer only answers are operations, and it is open
\* and has made its offer.
LEMMA OffererOperations ==
    ASSUME IInv, Orderly, ~ c["offerer"].closed
    PROVE  /\ \A i \in DOMAIN c["offerer"].signals :
                 /\ c["offerer"].signals[i].message.type = "answer"
                 /\ c["offerer"].signals[i].gen \in c["offerer"].open
                 /\ c["offerer"].pc.desc = "offered" /\ Holding(c["offerer"])
                 /\ c["offerer"].role = "offerer"
           /\ \A q \in c["offerer"].offers : q.gen \in c["offerer"].open
           /\ c["offerer"].rejected = {}
<1> DEFINE o == c["offerer"]
<1>1. CASE o.role = "none"
  <2>1. Untouched(o)
    BY <1>1, OffererIsSteady
  <2>2. DOMAIN o.signals = {} /\ o.offers = {} /\ o.rejected = {}
    BY <2>1 DEF Untouched
  <2> QED
    BY <2>2
<1>2. CASE o.role # "none"
  <2>1. SteadyOfferer(o) /\ o.role = "offerer"
    BY <1>2, OffererIsSteady
  <2>2. ASSUME NEW i \in DOMAIN o.signals
        PROVE  o.signals[i] \in Operations({o.transport}, Answers) /\ o.signals # <<>>
    BY <2>1, SequencesAre DEF SteadyOfferer
  <2>3. \A x \in Operations({o.transport}, Answers) :
           x.message.type = "answer" /\ x.gen = o.transport
    BY DEF Operations, Answers, Of
  <2>4. o.signals # <<>> \/ o.offers # {} => o.transport \in o.open
    BY <2>1 DEF SteadyOfferer, Steady
  <2> QED
    BY <2>1, <2>2, <2>3, <2>4 DEF SteadyOfferer, Steady, Holding
<1> QED
  BY <1>1, <1>2

LEMMA OffererSignals ==
    ASSUME IInv, Framed, Orderly, ~ c["offerer"].closed,
           \/ OfferRejects("offerer") \/ OfferIsAnswered("offerer")
           \/ AnswerIsAccepted("offerer") \/ SignalIsMinor("offerer")
           \/ SignalRejects("offerer") \/ Hangs("offerer")
    PROVE  OrderlyNext
<1> DEFINE o == c["offerer"]
<1>1. ~ OfferRejects("offerer")
  BY OffererOperations DEF OfferRejects
<1>2. ~ OfferIsAnswered("offerer") /\ ~ SignalIsMinor("offerer")
  BY OffererOperations DEF OfferIsAnswered, SignalIsMinor, Runs
<1>3. ~ SignalRejects("offerer") /\ ~ Hangs("offerer")
  BY OffererOperations DEF SignalRejects, Hangs, Runs, IsClosed
<1>4. AnswerIsAccepted("offerer")
  BY <1>1, <1>2, <1>3
<1>5. PICK i \in DOMAIN o.signals : Becomes("offerer", Described(o, i)) /\ UNCHANGED wire
  BY <1>4 DEF AnswerIsAccepted, Quietly
<1>6. Holding(o) /\ o.role = "offerer" /\ SteadyOfferer(o) /\ Sound(o) /\ Object(o)
  <2>1. Holding(o) /\ o.role = "offerer"
    BY <1>5, OffererOperations
  <2> QED
    BY <2>1, OffererIsSteady
<1> DEFINE e == Described(o, i)
<1>7. SteadyOfferer(e) /\ e.pending = o.pending /\ e.attempts = o.attempts /\ Kept(o, e)
  BY <1>6, OffererAccepts, AnswersKept
<1> HIDE DEF e
<1>8. Becomes("offerer", e)
  BY <1>5 DEF e
<1> QED
  BY <1>5, <1>6, <1>7, <1>8, OffererFree

\* Only a connection that has been described reports anything.
LEMMA OffererReports ==
    ASSUME IInv, Framed, Orderly, ~ c["offerer"].closed,
           Progresses("offerer") \/ PeerIceConnected("offerer") \/ PeerFlaps("offerer")
    PROVE  OrderlyNext
<1> DEFINE o == c["offerer"]
<1>1. o.transport # 0
  BY DEF Progresses, PeerConnecting, PeerConnected, PeerDisconnected, PeerFailed, ChannelOpens,
         TransferMoves, PeerIceConnected, PeerFlaps, Alive
<1>2. SteadyOfferer(o) /\ Sound(o) /\ Object(o) /\ o.role = "offerer"
  BY <1>1, OffererIsSteady DEF Untouched
<1>3. o.pc.mate # 0
  <2>1. Linked => o.pc.mate # 0
    BY DEF Linked
  <2>2. o.pc.peer = "connected" => o.pc.mate # 0
    BY <1>2 DEF SteadyOfferer
  <2> QED
    BY <2>1, <2>2 DEF Progresses, PeerConnecting, PeerConnected, PeerDisconnected, PeerFailed,
                      ChannelOpens, TransferMoves, PeerIceConnected, PeerFlaps
<1>4. /\ UNCHANGED wire
      /\ \/ \E peer \in {"connecting", "connected", "disconnected", "failed"} :
               Becomes("offerer", PeerState(o, peer))
         \/ Becomes("offerer", ChannelOpen(o)) \/ Becomes("offerer", Published(o, "ACTIVE"))
         \/ Becomes("offerer", IceConnected(o))
  BY DEF Progresses, PeerConnecting, PeerConnected, PeerDisconnected, PeerFailed, ChannelOpens,
         TransferMoves, PeerIceConnected, PeerFlaps, Quietly
<1>5. ASSUME NEW peer \in {"connecting", "connected", "disconnected", "failed"},
             Becomes("offerer", PeerState(o, peer))
      PROVE  OrderlyNext
  <2> DEFINE e == PeerState(o, peer)
  <2>1. /\ SteadyOfferer(e) /\ e.pending = o.pending /\ Kept(o, e)
        /\ e.attempts = o.attempts \/ e.pc.peer = "connected"
    BY <1>2, <1>3, OffererPeerState, CallbacksKept
  <2> HIDE DEF e
  <2>2. Becomes("offerer", e)
    BY <1>5 DEF e
  <2> QED
    BY <1>2, <1>3, <1>4, <2>1, <2>2, OffererFree
<1>6. ASSUME NEW e \in {ChannelOpen(o), Published(o, "ACTIVE"), IceConnected(o)},
             Becomes("offerer", e)
      PROVE  OrderlyNext
  <2>1. SteadyOfferer(e) /\ e.pending = o.pending /\ e.attempts = o.attempts
    BY <1>2, <1>3, OffererIsQuiet
  <2>2. Kept(o, e)
    BY <1>2, CallbacksKept, PartsKept
  <2> QED
    BY <1>2, <1>3, <1>4, <1>6, <2>1, <2>2, OffererFree
<1> QED
  BY <1>4, <1>5, <1>6

LEMMA OffererTimes ==
    ASSUME IInv, Framed, Orderly, OnlyLosses', ~ c["offerer"].closed,
           RecoveryTimerFires("offerer") \/ ConnectionTimerFires("offerer")
    PROVE  OrderlyNext
<1> DEFINE o == c["offerer"]
<1>1. o.recTimer # 0 \/ o.connTimer # 0
  BY DEF RecoveryTimerFires, ConnectionTimerFires
<1>2. SteadyOfferer(o) /\ Sound(o) /\ Object(o) /\ o.role = "offerer"
  BY <1>1, OffererIsSteady DEF Untouched
<1>3. CASE RecoveryTimerFires("offerer")
  <2> DEFINE e == RecoveryTimer(o)
  <2>1. o.recTimer # 0 /\ Becomes("offerer", e) /\ UNCHANGED wire
    BY <1>3 DEF RecoveryTimerFires, Quietly
  <2>2. /\ SteadyOfferer(e) /\ Kept(o, e)
        /\ \/ e.pending = o.pending /\ e.attempts = o.attempts
           \/ e.attempts = o.attempts + 1
    BY <1>2, <2>1, OffererTimersFire, CallbacksKept
  <2> HIDE DEF e
  <2> QED
    BY <1>2, <2>1, <2>2, OffererFree
<1>4. CASE ConnectionTimerFires("offerer")
  <2> DEFINE e == ConnectionTimer(o)
  <2>1. o.connTimer # 0 /\ Becomes("offerer", e) /\ UNCHANGED wire
    BY <1>4 DEF ConnectionTimerFires
  <2>2. Stalled \/ o.pc.peer = "connected"
    <3>1. ~ Happens("early")
      BY TroublesGrow
    <3> QED
      BY <1>4, <3>1 DEF ConnectionTimerFires
  <2>3. ASSUME Stalled
        PROVE  /\ ~ Holding(o)
               /\ ~ Early(o, c["answerer"], wire["offerer"])
               /\ ~ Late(c["answerer"], wire["offerer"], wire["answerer"])
    <3>1. /\ wire["offerer"] = <<>> /\ wire["answerer"] = <<>>
          /\ o.signals = <<>> /\ o.configs = {} /\ o.offers = {}
          /\ c["answerer"].signals = <<>> /\ c["answerer"].configs = {}
      BY <2>3, RolesAre DEF Stalled
    <3>2. ~ Holding(o)
      BY <3>1 DEF Holding
    <3>3. ~ Late(c["answerer"], wire["offerer"], wire["answerer"])
      BY <3>1, EmptySequence DEF Late, Outgoing, Owes, Asked, Answering
    <3>4. ~ Early(o, c["answerer"], wire["offerer"])
      BY <2>1 DEF Orderly, Undisturbed, OffererIsFine, Ready
    <3> QED
      BY <3>2, <3>3, <3>4
  <2>4. o.pc.peer = "connected" => o.pc.mate # 0
    BY <1>2 DEF SteadyOfferer
  <2>5. SteadyOfferer(e) /\ e.pending = o.pending /\ e.attempts = o.attempts /\ Kept(o, e)
    BY <1>2, <2>2, <2>3, OffererTimersFire, CallbacksKept
  <2> HIDE DEF e
  <2>6. ASSUME Stalled PROVE OrderlyNext
    BY <1>2, <2>1, <2>3, <2>5, <2>6, OffererMoves, KeptIsInSession DEF Left
  <2> QED
    BY <1>2, <2>1, <2>2, <2>4, <2>5, <2>6, OffererFree
<1> QED
  BY <1>3, <1>4

LEMMA OffererWorks ==
    ASSUME IInv, Framed, Orderly, OnlyLosses', ~ c["offerer"].closed, Works("offerer")
    PROVE  OrderlyNext
<1>1. ~ ConfigFails("offerer")
  BY TroublesGrow DEF ConfigFails
<1> QED
  BY <1>1, OffererConfigEnds, OffererOfferIsMade, OffererSignals, OffererReports, OffererTimes
     DEF Works

-----------------------------------------------------------------------------
(* The answerer works.                                                       *)

LEMMA AnswererIsSteady ==
    ASSUME IInv, Orderly, ~ c["answerer"].closed
    PROVE  /\ Sound(c["answerer"]) /\ Object(c["answerer"])
           /\ c["answerer"].role = "none" => Untouched(c["answerer"])
           /\ c["answerer"].role # "none" => /\ SteadyAnswerer(c["answerer"])
                                             /\ c["answerer"].role = "answerer"
                                             /\ c["answerer"].socket = "open"
           /\ HasOne(wire["answerer"], Offers)
           /\ Has(wire["answerer"], Offers) => ~ Owes(c["answerer"])
<1>1. Sound(c["answerer"]) /\ Object(c["answerer"])
  BY RolesAre DEF IInv, Sound, Object
<1>2. /\ Session("answerer", c["answerer"], wire["answerer"])
      /\ AnswererIsFine(c["answerer"], wire["answerer"])
  BY DEF Orderly, Undisturbed
<1> QED
  BY <1>1, <1>2 DEF Session, Unopened, AnswererIsFine

\* It goes on, and owes nothing that it did not owe before.
LEMMA AnswererFree ==
    ASSUME IInv, Orderly, ~ c["answerer"].closed, c["answerer"].role = "answerer",
           NEW e, Becomes("answerer", e), InSession(c["answerer"], e), SteadyAnswerer(e),
           Owes(e) => Owes(c["answerer"]), UNCHANGED wire
    PROVE  OrderlyNext
BY AnswererMoves, AnswererIsSteady DEF Left

LEMMA AnswererConfigEnds ==
    ASSUME IInv, Framed, Orderly, ~ c["answerer"].closed, ConfigEnds("answerer")
    PROVE  OrderlyNext
<1> DEFINE a == c["answerer"]
<1>1. PICK k \in a.configs : Becomes("answerer", ConfigDone(a, k)) /\ UNCHANGED wire
  BY DEF ConfigEnds, Quietly
<1>2. SteadyAnswerer(a) /\ Sound(a) /\ a.role = "answerer"
  BY <1>1, AnswererIsSteady DEF Untouched
<1> DEFINE e == ConfigDone(a, k)
<1>3. SteadyAnswerer(e) /\ (Owes(e) => Owes(a)) /\ InSession(a, e)
  BY <1>2, AnswererIsConfigured, ConfiguredInSession
<1> HIDE DEF e
<1>4. Becomes("answerer", e)
  BY <1>1 DEF e
<1> QED
  BY <1>1, <1>2, <1>3, <1>4, AnswererFree

\* Only offers, and announcements, are operations of the answerer, and an offer
\* is to the connection that is open.
LEMMA AnswererOperations ==
    ASSUME IInv, Orderly, ~ c["answerer"].closed
    PROVE  /\ \A i \in DOMAIN c["answerer"].signals :
                 /\ c["answerer"].role = "answerer"
                 /\ c["answerer"].signals[i].message.type \in {"offer", "peer-joined"}
                 /\ c["answerer"].signals[i].message.type = "offer" =>
                       /\ c["answerer"].signals[i].gen \in c["answerer"].open
                       /\ Answering(c["answerer"])
           /\ c["answerer"].offers = {} /\ c["answerer"].rejected = {}
           /\ c["answerer"].recTimer = 0 /\ c["answerer"].connTimer = 0
<1> DEFINE a == c["answerer"]
<1>1. CASE a.role = "none"
  <2>1. Untouched(a)
    BY <1>1, AnswererIsSteady
  <2>2. DOMAIN a.signals = {} /\ a.offers = {} /\ a.rejected = {} /\ a.recTimer = 0
        /\ a.connTimer = 0
    BY <2>1 DEF Untouched
  <2> QED
    BY <2>2
<1>2. CASE a.role # "none"
  <2>1. SteadyAnswerer(a) /\ a.role = "answerer" /\ a.transport \in Nat
    BY <1>2, AnswererIsSteady DEF Sound
  <2>2. ASSUME NEW i \in DOMAIN a.signals
        PROVE  a.signals[i] \in Operations(Nat, Joins) \cup Operations({a.transport}, Offers)
    BY <2>1, SequencesAre DEF SteadyAnswerer
  <2>3. /\ \A x \in Operations(Nat, Joins) : x.message.type = "peer-joined"
        /\ \A x \in Operations({a.transport}, Offers) :
              /\ x.message.type = "offer" /\ x.gen = a.transport
              /\ x \in Operations(Nat, Offers)
    BY <2>1 DEF Operations, Joins, Offers, Of
  <2>4. Answering(a) => a.transport \in a.open
    BY <2>1 DEF SteadyAnswerer, Steady
  <2>5. ASSUME NEW i \in DOMAIN a.signals
        PROVE  /\ a.signals[i].message.type \in {"offer", "peer-joined"}
               /\ a.signals[i].message.type = "offer" =>
                     a.signals[i].gen = a.transport /\ Answering(a)
    <3>1. a.signals[i] \in Operations(Nat, Offers) => Answering(a)
      BY DEF Answering, Has
    <3> QED
      BY <2>2, <2>3, <3>1
  <2> QED
    BY <2>1, <2>4, <2>5 DEF SteadyAnswerer, Steady
<1> QED
  BY <1>1, <1>2

LEMMA AnswererIsAnswering ==
    ASSUME IInv, Framed, Orderly, ~ c["answerer"].closed, OfferIsAnswered("answerer")
    PROVE  OrderlyNext
<1> DEFINE a == c["answerer"]
           o == c["offerer"]
           x == Routed("answerer", "answer")
<1>1. PICK i \in DOMAIN a.signals :
         /\ a.signals[i].message.type = "offer"
         /\ Becomes("answerer", Described(a, i)) /\ wire' = Relayed("answerer", x)
  BY DEF OfferIsAnswered, Runs
<1>2. a.role = "answerer" /\ Answering(a)
  BY <1>1, AnswererOperations
<1>3. SteadyAnswerer(a) /\ Sound(a) /\ Object(a)
  BY <1>2, AnswererIsSteady
<1> DEFINE e == Described(a, i)
<1>4. SteadyAnswerer(e) /\ ~ Owes(e) /\ InSession(a, e)
  BY <1>1, <1>3, AnswererAnswers, AnswersKept, KeptIsInSession
<1>5. x \in Answers
  BY <1>2, <1>3 DEF Routed, Answers, Of, Sound, SteadyAnswerer, Steady
<1>6. /\ wire'["answerer"] = wire["answerer"]
      /\ wire'["offerer"] = IF o.socket = "open" /\ a.socket = "open"
                            THEN Append(wire["offerer"], x) ELSE wire["offerer"]
  BY <1>1, RolesAre DEF Relayed, Framed, IsOpen
<1> HIDE DEF e, x
<1>7. c'["answerer"] = e /\ c'["offerer"] = o /\ tried' = tried
  <2>1. Becomes("answerer", e)
    BY <1>1 DEF e
  <2> QED
    BY <2>1, Moved, RolesAre
<1> QED
  BY <1>2, <1>3, <1>4, <1>5, <1>6, <1>7, AnswerTravels DEF Orderly, OrderlyNext

LEMMA AnswererSignals ==
    ASSUME IInv, Framed, Orderly, ~ c["answerer"].closed,
           \/ OfferIsMade("answerer") \/ OfferRejects("answerer")
           \/ AnswerIsAccepted("answerer") \/ SignalIsMinor("answerer")
           \/ SignalRejects("answerer") \/ Hangs("answerer")
    PROVE  OrderlyNext
<1> DEFINE a == c["answerer"]
<1>1. ~ OfferIsMade("answerer") /\ ~ OfferRejects("answerer")
  BY AnswererOperations DEF OfferIsMade, OfferRejects
<1>2. ~ AnswerIsAccepted("answerer")
  BY AnswererOperations DEF AnswerIsAccepted, Runs
<1>3. ~ SignalRejects("answerer") /\ ~ Hangs("answerer")
  BY AnswererOperations DEF SignalRejects, Hangs, Runs, IsClosed
<1>4. PICK i \in DOMAIN a.signals : Becomes("answerer", SignalTaken(a, i)) /\ UNCHANGED wire
  BY <1>1, <1>2, <1>3 DEF SignalIsMinor, Quietly
<1>5. a.role = "answerer"
  BY <1>4, AnswererOperations
<1>6. SteadyAnswerer(a) /\ Sound(a) /\ Object(a)
  BY <1>5, AnswererIsSteady
<1> DEFINE e == SignalTaken(a, i)
<1>7. SteadyAnswerer(e) /\ (Owes(e) => Owes(a)) /\ InSession(a, e)
  BY <1>6, AnswererTakes, PartsKept, KeptIsInSession
<1> HIDE DEF e
<1>8. Becomes("answerer", e)
  BY <1>4 DEF e
<1> QED
  BY <1>4, <1>5, <1>7, <1>8, AnswererFree

LEMMA AnswererReports ==
    ASSUME IInv, Framed, Orderly, ~ c["answerer"].closed,
           Progresses("answerer") \/ PeerIceConnected("answerer") \/ PeerFlaps("answerer")
    PROVE  OrderlyNext
<1> DEFINE a == c["answerer"]
<1>1. a.transport # 0
  BY DEF Progresses, PeerConnecting, PeerConnected, PeerDisconnected, PeerFailed, ChannelOpens,
         TransferMoves, PeerIceConnected, PeerFlaps, Alive
<1>2. SteadyAnswerer(a) /\ Sound(a) /\ Object(a) /\ a.role = "answerer"
  BY <1>1, AnswererIsSteady DEF Untouched
<1>3. /\ UNCHANGED wire
      /\ \/ \E peer \in {"connecting", "connected", "disconnected", "failed"} :
               Becomes("answerer", PeerState(a, peer))
         \/ Becomes("answerer", ChannelOpen(a)) \/ Becomes("answerer", Published(a, "ACTIVE"))
         \/ Becomes("answerer", IceConnected(a))
  BY DEF Progresses, PeerConnecting, PeerConnected, PeerDisconnected, PeerFailed, ChannelOpens,
         TransferMoves, PeerIceConnected, PeerFlaps, Quietly
<1>4. ASSUME NEW e,
             \/ e \in {PeerState(a, peer) :
                          peer \in {"connecting", "connected", "disconnected", "failed"}}
             \/ e \in {ChannelOpen(a), Published(a, "ACTIVE"), IceConnected(a)}
      PROVE  SteadyAnswerer(e) /\ (Owes(e) => Owes(a)) /\ InSession(a, e)
  <2>1. SteadyAnswerer(e) /\ (Owes(e) => Owes(a))
    BY <1>2, <1>4, AnswererIsQuiet
  <2>2. Kept(a, e)
    BY <1>2, <1>4, CallbacksKept, PartsKept
  <2> QED
    BY <2>1, <2>2, KeptIsInSession
<1>5. \E e : /\ Becomes("answerer", e)
             /\ SteadyAnswerer(e) /\ (Owes(e) => Owes(a)) /\ InSession(a, e)
  BY <1>3, <1>4
<1> QED
  BY <1>2, <1>3, <1>5, AnswererFree

LEMMA AnswererWorks ==
    ASSUME IInv, Framed, Orderly, OnlyLosses', ~ c["answerer"].closed, Works("answerer")
    PROVE  OrderlyNext
<1>1. ~ ConfigFails("answerer")
  BY TroublesGrow DEF ConfigFails
<1>2. ~ RecoveryTimerFires("answerer") /\ ~ ConnectionTimerFires("answerer")
  BY AnswererOperations DEF RecoveryTimerFires, ConnectionTimerFires
<1> QED
  BY <1>1, <1>2, AnswererConfigEnds, AnswererIsAnswering, AnswererSignals, AnswererReports
     DEF Works

-----------------------------------------------------------------------------
(* Sessions, sockets and messages.                                           *)

LEMMA SessionBegins ==
    ASSUME NEW d, Sound(d), Untouched(d)
    PROVE  LET e == Joined(d)
           IN /\ ~ e.closed /\ e.socket = "connecting" /\ e.role = "none" /\ e.gen # 0
              /\ Untouched(e) /\ e.pc.peer = "new"
<1> DEFINE f == Invalidated(TimersCleared(Detached(d)))
           g == [f EXCEPT !.role = "none", !.socket = "connecting", !.tries = 0, !.remote = 0,
                          !.attempts = 0, !.closed = FALSE, !.transfer = 0, !.phase = "IDLE"]
           e == Updated(g, "SIGNALLING_CONNECTING")
<1>1. DOMAIN d = Fields /\ d.gen \in Nat
  BY DEF Sound
<1>2. /\ DOMAIN f = Fields /\ f.gen = d.gen + 1
      /\ f.transport = 0 /\ f.pending = d.pending /\ f.configs = d.configs
      /\ f.offers = d.offers /\ f.signals = d.signals /\ f.rejected = d.rejected
      /\ f.recTimer = 0 /\ f.connTimer = 0 /\ f.pc = NewPeerConnection
  BY <1>1, FieldsAre DEF Invalidated, TimersCleared, Detached
<1> HIDE DEF f
<1>3. /\ DOMAIN g = Fields /\ g.gen = f.gen /\ g.role = "none" /\ g.socket = "connecting"
      /\ g.transport = f.transport /\ g.pending = f.pending /\ g.configs = f.configs
      /\ g.offers = f.offers /\ g.signals = f.signals /\ g.rejected = f.rejected
      /\ g.recTimer = f.recTimer /\ g.connTimer = f.connTimer /\ g.pc = f.pc
      /\ g.remote = 0 /\ g.attempts = 0 /\ g.transfer = 0 /\ ~ g.closed
  BY <1>2, FieldsAre
<1> HIDE DEF g
<1>4. Alike(g, e)
  BY <1>3, ShownAlike
<1>5. Untouched(g) /\ g.gen # 0 /\ g.pc.peer = "new"
  BY <1>1, <1>2, <1>3 DEF Untouched, NewPeerConnection
<1>6. /\ ~ e.closed /\ e.socket = "connecting" /\ e.role = "none" /\ e.gen # 0
      /\ Untouched(e) /\ e.pc.peer = "new"
  <2> HIDE DEF e
  <2> QED
    BY <1>3, <1>4, <1>5, AlikeIsSteady DEF Alike
<1>7. Joined(d) = e
  BY DEF Joined, f, g
<1> QED
  BY <1>6, <1>7

LEMMA SessionEnds ==
    ASSUME NEW d, Sound(d)
    PROVE  LET e == Disconnected(d)
           IN e.closed /\ e.socket = "none" /\ e.gen # 0 /\ e.transfer = d.transfer
<1> DEFINE f == Invalidated(TimersCleared(d))
           g == [f EXCEPT !.closed = TRUE, !.socket = "none",
                          !.open = @ \ {d.transport}, !.pc = NewPeerConnection]
           e == Updated(g, "CLOSED")
<1>1. DOMAIN d = Fields /\ d.gen \in Nat
  BY DEF Sound
<1>2. DOMAIN f = Fields /\ f.gen = d.gen + 1 /\ f.transfer = d.transfer
  BY <1>1, FieldsAre DEF Invalidated, TimersCleared
<1> HIDE DEF f
<1>3. /\ DOMAIN g = Fields /\ g.gen = f.gen /\ g.transfer = f.transfer /\ g.socket = "none"
      /\ g.closed
  BY <1>2, FieldsAre
<1> HIDE DEF g
<1>4. Alike(g, e)
  BY <1>3, ShownAlike
<1>5. e.closed /\ e.socket = "none" /\ e.gen # 0 /\ e.transfer = d.transfer
  <2> HIDE DEF e
  <2> QED
    BY <1>1, <1>2, <1>3, <1>4 DEF Alike
<1>6. Disconnected(d) = e
  BY DEF Disconnected, f, g
<1> QED
  BY <1>5, <1>6

LEMMA SocketIsOpen ==
    ASSUME NEW d, Sound(d)
    PROVE  LET e == SocketOpen(d)
           IN /\ e.socket = "open" /\ e.closed = d.closed /\ e.role = d.role /\ e.gen = d.gen
              /\ e.transfer = d.transfer
              /\ Untouched(d) => Untouched(e) /\ e.pc.peer = "new"
<1> DEFINE g == [d EXCEPT !.socket = "open", !.tries = 0]
           e == SocketOpen(d)
<1>1. DOMAIN d = Fields
  BY DEF Sound
<1>2. /\ DOMAIN g = Fields /\ g.socket = "open" /\ g.closed = d.closed /\ g.role = d.role
      /\ g.gen = d.gen /\ g.transfer = d.transfer
      /\ Untouched(d) => Untouched(g) /\ g.pc.peer = "new"
  BY <1>1, FieldsAre DEF Untouched, NewPeerConnection
<1>3. \E state : e = Updated(g, state)
  BY DEF SocketOpen
<1> HIDE DEF g, e
<1>4. Alike(g, e)
  BY <1>2, <1>3, ShownAlike
<1> QED
  BY <1>2, <1>4, AlikeIsSteady DEF Alike, e

LEMMA SessionIsJoined ==
    ASSUME IInv, Framed, Orderly, OnlyLosses', NEW p \in Roles, JoinSession(p)
    PROVE  OrderlyNext
<1> DEFINE o == c["offerer"]
           a == c["answerer"]
           e == Joined(c[p])
<1>1. c[p].gen = 0 /\ Becomes(p, e)
  BY TroublesGrow DEF JoinSession
<1>2. Sound(c[p]) /\ Session("offerer", o, wire["offerer"]) /\ Session("answerer", a, wire["answerer"])
  BY DEF IInv, Orderly, Undisturbed
<1>3. Unopened(c[p]) /\ c[p].role = "none" /\ ~ IsOpen(p) /\ wire[p] = <<>>
  BY <1>1, <1>2 DEF Session, Unopened, IsOpen, Roles
<1>4. Untouched(c[p])
  BY <1>3 DEF Orderly, Undisturbed, OffererIsFine, AnswererIsFine, Unopened, Roles
<1>5. /\ wire'["offerer"] = wire["offerer"] /\ wire'["answerer"] = wire["answerer"]
  BY <1>3 DEF JoinSession, Roles
<1>6. /\ ~ e.closed /\ e.socket = "connecting" /\ e.role = "none" /\ e.gen # 0
      /\ Untouched(e)
  BY <1>2, <1>4, SessionBegins
<1> HIDE DEF e
<1>7. CASE p = "offerer"
  <2>1. c'["offerer"] = e /\ c'["answerer"] = a /\ tried' = 0
    BY <1>1, <1>6, <1>7, Moved, RolesAre
  <2> QED
    BY <1>1, <1>5, <1>6, <1>7, <2>1, OffererEnters DEF Orderly, OrderlyNext
<1>8. CASE p = "answerer"
  <2>1. c'["answerer"] = e /\ c'["offerer"] = o /\ tried' = tried
    BY <1>1, <1>8, Moved, RolesAre
  <2> QED
    BY <1>1, <1>5, <1>6, <1>8, <2>1, AnswererEnters DEF Orderly, OrderlyNext
<1> QED
  BY <1>7, <1>8 DEF Roles

LEMMA SessionIsLeft ==
    ASSUME IInv, Framed, Orderly, NEW p \in Roles, Leave(p)
    PROVE  OrderlyNext
<1> DEFINE o == c["offerer"]
           a == c["answerer"]
           e == Disconnected(c[p])
           x == Call("peer-left")
<1>1. ~ c[p].closed /\ Becomes(p, e) /\ Sound(c[p])
  BY DEF Leave, IInv
<1>2. e.closed /\ e.socket = "none" /\ e.gen # 0
  BY <1>1, SessionEnds
<1>3. /\ wire'[p] = <<>>
      /\ wire'[Other(p)] = IF IsOpen(p) /\ IsOpen(Other(p))
                           THEN Append(wire[Other(p)], x) ELSE wire[Other(p)]
  BY DEF Leave, Roles, Other
<1> HIDE DEF e, x
<1>4. CASE p = "offerer"
  <2>1. c'["offerer"] = e /\ c'["answerer"] = a /\ tried' = 0
    BY <1>1, <1>2, <1>4, Moved, RolesAre
  <2>2. /\ wire'["answerer"] \in {wire["answerer"], Append(wire["answerer"], x)}
        /\ wire'["answerer"] # wire["answerer"] => a.socket = "open"
    BY <1>3, <1>4, RolesAre DEF IsOpen
  <2> QED
    BY <1>2, <1>3, <1>4, <2>1, <2>2, OffererLeaves DEF Orderly, OrderlyNext, x
<1>5. CASE p = "answerer"
  <2>1. c'["answerer"] = e /\ c'["offerer"] = o /\ tried' = tried
    BY <1>1, <1>5, Moved, RolesAre
  <2>2. /\ wire'["offerer"] \in {wire["offerer"], Append(wire["offerer"], x)}
        /\ wire'["offerer"] # wire["offerer"] => o.socket = "open"
    BY <1>3, <1>5, RolesAre DEF IsOpen
  <2> QED
    BY <1>1, <1>2, <1>3, <1>5, <2>1, <2>2, AnswererLeaves DEF Orderly, OrderlyNext, x
<1> QED
  BY <1>4, <1>5 DEF Roles

LEMMA SessionOpens ==
    ASSUME IInv, Framed, Orderly, NEW p \in Roles, SocketOpens(p)
    PROVE  OrderlyNext
<1> DEFINE o == c["offerer"]
           a == c["answerer"]
           e == SocketOpen(c[p])
           r == Call("session-ready")
           j == Call("peer-joined")
<1>1. c[p].socket = "connecting" /\ Becomes(p, e) /\ Sound(c[p])
  BY DEF SocketOpens, IInv
<1>2. Session("offerer", o, wire["offerer"]) /\ Session("answerer", a, wire["answerer"])
  BY DEF Orderly, Undisturbed
<1>3. Unopened(c[p]) /\ c[p].role = "none" /\ ~ c[p].closed
  BY <1>1, <1>2 DEF Session, Unopened, Roles
<1>4. Untouched(c[p])
  BY <1>3 DEF Orderly, Undisturbed, OffererIsFine, AnswererIsFine, Roles
<1>5. /\ ~ e.closed /\ e.socket = "open" /\ e.role = "none" /\ e.gen = c[p].gen /\ Untouched(e)
  BY <1>1, <1>3, <1>4, SocketIsOpen
<1>6. IF c[Other(p)].socket = "open"
      THEN wire'[p] = <<r, j>> /\ wire'[Other(p)] = Append(wire[Other(p)], j)
      ELSE wire'[p] = <<r>> /\ wire'[Other(p)] = wire[Other(p)]
  BY DEF SocketOpens, IsOpen, Framed, Roles, Other
<1> HIDE DEF e
<1>7. CASE p = "offerer"
  <2>1. c'["offerer"] = e /\ c'["answerer"] = a /\ tried' = 0
    BY <1>1, <1>5, <1>7, Moved, RolesAre
  <2>2. IF a.socket = "open"
        THEN wire'["offerer"] = <<r, j>> /\ wire'["answerer"] = Append(wire["answerer"], j)
        ELSE wire'["offerer"] = <<r>> /\ wire'["answerer"] = wire["answerer"]
    BY <1>6, <1>7, RolesAre
  <2>3. IF a.socket = "open"
        THEN Undisturbed(e, a, <<r, j>>, Append(wire["answerer"], j), 0)
        ELSE Undisturbed(e, a, <<r>>, wire["answerer"], 0)
    BY <1>1, <1>5, <1>7, OffererOpens DEF Orderly
  <2> QED
    BY <2>1, <2>2, <2>3 DEF OrderlyNext
<1>8. CASE p = "answerer"
  <2>1. c'["answerer"] = e /\ c'["offerer"] = o /\ tried' = tried
    BY <1>1, <1>8, Moved, RolesAre
  <2>2. IF o.socket = "open"
        THEN wire'["answerer"] = <<r, j>> /\ wire'["offerer"] = Append(wire["offerer"], j)
        ELSE wire'["answerer"] = <<r>> /\ wire'["offerer"] = wire["offerer"]
    BY <1>6, <1>8, RolesAre
  <2>3. IF o.socket = "open"
        THEN Undisturbed(o, e, Append(wire["offerer"], j), <<r, j>>, tried)
        ELSE Undisturbed(o, e, wire["offerer"], <<r>>, tried)
    BY <1>1, <1>5, <1>8, AnswererOpens DEF Orderly
  <2> QED
    BY <2>1, <2>2, <2>3 DEF OrderlyNext
<1> QED
  BY <1>7, <1>8 DEF Roles

LEMMA SocketsStay ==
    ASSUME IInv, Framed, Orderly, OnlyLosses', NEW p \in Roles
    PROVE  ~ SocketDrops(p) /\ ~ SocketReconnects(p)
<1>1. ~ SocketDrops(p)
  BY TroublesGrow DEF SocketDrops
<1>2. ~ SocketReconnects(p)
  BY DEF SocketReconnects, Orderly, Undisturbed, Session, Roles
<1> QED
  BY <1>1, <1>2

\* The first message of a session gives its role, and asks for a transport.
LEMMA RoleIsGiven ==
    ASSUME NEW d, Sound(d), Untouched(d), d.role = "none", NEW role \in Roles
    PROVE  LET e == HandleSessionReady(d, role)
           IN /\ DOMAIN e = Fields /\ e.gen \in Nat /\ e.gen >= d.gen /\ e.transfer = d.transfer
              /\ e.closed = d.closed /\ e.socket = d.socket /\ e.role = role
              /\ SteadyOfferer(e) /\ Ready(e) /\ e.attempts = 0
              /\ SteadyAnswerer(e) /\ ~ Owes(e)
<1> DEFINE f == [d EXCEPT !.role = role]
           e == EnsureTransport(f, Wait)
<1>1. DOMAIN d = Fields
  BY DEF Sound
<1>2. /\ SameRoute(d, f) /\ Untouched(f) /\ f.transport = 0 /\ f.role = role
      /\ f.closed = d.closed /\ f.socket = d.socket /\ f.gen = d.gen /\ DOMAIN f = Fields
      /\ f.transfer = d.transfer
  BY <1>1, FieldsAre DEF SameRoute, Untouched
<1>3. HandleSessionReady(d, role) = e
  BY <1>2 DEF HandleSessionReady
<1> HIDE DEF f
<1>4. Sound(f) /\ Object(f)
  BY <1>2, SameIsSound DEF Sound, Object
<1>5. SteadyOfferer(e) /\ Ready(e) /\ e.attempts = 0 /\ SteadyAnswerer(e) /\ ~ Owes(e)
  BY <1>2, <1>4, OffererAsksForOne, AnswererAsksForOne
<1>6. Kept(f, e)
  BY <1>4, AttemptsKept
<1> HIDE DEF e
<1> QED
  BY <1>2, <1>3, <1>5, <1>6 DEF Kept

LEMMA OffererIsReadied ==
    ASSUME NEW o, NEW a, NEW wo, NEW wa, NEW n, Undisturbed(o, a, wo, wa, n), Sound(o),
           ~ o.closed, o.role = "none", wo # <<>>,
           NEW e, e.gen \in Nat, e.gen >= o.gen, ~ e.closed, e.socket = o.socket,
           e.role = "offerer", SteadyOfferer(e), Ready(e), e.attempts = 0, NEW m \in {0, 1}
    PROVE  Undisturbed(e, a, Tail(wo), wa, m)
<1>1. /\ Session("offerer", o, wo) /\ Session("answerer", a, wa)
      /\ OffererIsFine(o, a, wo, wa) /\ (~ a.closed => AnswererIsFine(a, wa))
  BY DEF Undisturbed
<1>2. /\ wo \in Seq(MessagesTo("offerer")) /\ o.socket = "open" /\ o.gen # 0
      /\ ~ Has(Tail(wo), Readies) /\ ~ Unopened(e) /\ o.gen \in Nat
  BY <1>1 DEF Session, Unopened, Sound
<1>3. /\ Tail(wo) \in Seq(MessagesTo("offerer"))
      /\ \A kind : Has(Tail(wo), kind) => Has(wo, kind)
      /\ \A kind : HasOne(wo, kind) => HasOne(Tail(wo), kind)
  BY <1>2, HeadTaken
<1>4. e.gen # 0
  BY <1>2
<1>5. Session("offerer", e, Tail(wo))
  BY <1>2, <1>3, <1>4 DEF Session
<1>6. ~ Late(a, Tail(wo), wa)
  <2>1. ~ Late(a, wo, wa)
    BY <1>1 DEF OffererIsFine, HasOffered, Untouched
  <2> QED
    BY <1>3, <2>1 DEF Late
<1>7. OffererIsFine(e, a, Tail(wo), wa)
  <2>1. Announcing(e, a) => ~ Has(Tail(wo), Joins \cup Answers)
    BY <1>1, <1>2, <1>3 DEF OffererIsFine, Announcing
  <2>2. HasOne(Tail(wo), Joins \cup Answers)
    BY <1>1, <1>3 DEF OffererIsFine
  <2> QED
    BY <1>6, <2>1, <2>2 DEF OffererIsFine, Late
<1>8. TriedIsCounted(e, m)
  BY DEF TriedIsCounted
<1> QED
  BY <1>1, <1>5, <1>7, <1>8 DEF Undisturbed

\* What HandleMessage makes of a coordinator.
LEMMA MessageIs ==
    ASSUME NEW p \in Roles, HandleMessage(p)
    PROVE  /\ wire[p] # <<>>
           /\ Head(wire[p]) \in Readies => Becomes(p, HandleSessionReady(c[p], p))
           /\ Head(wire[p]) \in Joins => Becomes(p, HandlePeerJoined(c[p]))
           /\ Head(wire[p]) \in Leaves => Becomes(p, Updated(c[p], "DISCONNECTED"))
           /\ Head(wire[p]) \in Offers \cup Answers => Becomes(p, HandleSignal(c[p], Head(wire[p])))
           /\ wire' = [wire EXCEPT ![p] = Tail(@)] /\ UNCHANGED troubles
<1>1. /\ \A x \in Readies : x.type = "session-ready"
      /\ \A x \in Joins : x.type = "peer-joined"
      /\ \A x \in Leaves : x.type = "peer-left"
      /\ \A x \in Offers \cup Answers : x.type \in {"offer", "answer"}
  BY DEF Readies, Joins, Leaves, Offers, Answers, Of
<1> QED
  BY <1>1 DEF HandleMessage

LEMMA MessagesAre ==
    /\ MessagesTo("offerer") = Readies \cup Joins \cup Leaves \cup Answers
    /\ MessagesTo("answerer") = Readies \cup Joins \cup Leaves \cup Offers
BY DEF MessagesTo, Readies, Joins, Leaves, Answers, Offers, Of

LEMMA OffererMessages ==
    ASSUME IInv, Framed, Orderly, ~ c["offerer"].closed, HandleMessage("offerer")
    PROVE  OrderlyNext
<1> DEFINE o == c["offerer"]
           a == c["answerer"]
           w == wire["offerer"]
           v == Tail(w)
<1>1. /\ Session("offerer", o, w) /\ OffererIsFine(o, a, w, wire["answerer"])
      /\ TriedIsCounted(o, tried) /\ Sound(o) /\ Object(o)
  BY OffererIsSteady DEF Orderly, Undisturbed
<1>2. /\ w # <<>> /\ w \in Seq(MessagesTo("offerer"))
      /\ wire'["offerer"] = v /\ wire'["answerer"] = wire["answerer"]
  BY <1>1, MessageIs, RolesAre DEF Session, Framed
<1>3. /\ Head(w) \in MessagesTo("offerer") /\ Left(w, v)
      /\ \A kind : Has(v, kind) => Has(w, kind)
      /\ \A kind : HasOne(w, kind) /\ Head(w) \in kind => ~ Has(v, kind)
      /\ \A kind : Head(w) \in kind => Has(w, kind)
  BY <1>2, HeadTaken DEF Left
<1>4. /\ Early(o, a, v) => Early(o, a, w)
      /\ Late(a, v, wire["answerer"]) => Late(a, w, wire["answerer"])
  BY <1>3 DEF Early, Late
<1>5. CASE o.role = "none"
  <2> DEFINE e == HandleSessionReady(o, "offerer")
  <2>1. Head(w) \in Readies
    BY <1>1, <1>2, <1>5 DEF Session, Unopened
  <2>2. Becomes("offerer", e)
    BY <2>1, MessageIs, RolesAre
  <2>3. /\ e.gen \in Nat /\ e.gen >= o.gen /\ ~ e.closed /\ e.socket = o.socket
        /\ e.role = "offerer" /\ SteadyOfferer(e) /\ Ready(e) /\ e.attempts = 0
    BY <1>1, <1>5, OffererIsSteady, RoleIsGiven, RolesAre
  <2> HIDE DEF e
  <2>4. c'["offerer"] = e /\ c'["answerer"] = a /\ tried' \in {0, 1}
    <3>1. tried = 0
      BY <1>1, <1>5 DEF TriedIsCounted
    <3> QED
      BY <2>2, <3>1, Moved, RolesAre
  <2> QED
    BY <1>1, <1>2, <1>5, <2>3, <2>4, OffererIsReadied DEF Orderly, OrderlyNext
<1>6. CASE o.role # "none"
  <2>1. SteadyOfferer(o) /\ o.role = "offerer" /\ ~ Has(w, Readies)
    BY <1>1, <1>6, OffererIsSteady DEF Session
  <2>2. Head(w) \in Joins \cup Leaves \cup Answers
    BY <1>3, <2>1, MessagesAre
  <2>3. ASSUME NEW e, Becomes("offerer", e), SteadyOfferer(e), Kept(o, e),
               e.pending = o.pending, e.attempts = o.attempts,
               Early(o, a, v) => Ready(e),
               Late(a, v, wire["answerer"]) => HasOffered(e)
        PROVE  OrderlyNext
    BY <1>2, <1>3, <2>1, <2>3, KeptIsInSession, OffererMoves
  <2>4. CASE Head(w) \in Joins
    <3> DEFINE e == HandlePeerJoined(o)
    <3>1. Becomes("offerer", e)
      BY <2>4, MessageIs, RolesAre
    <3>2. Has(w, Joins) /\ Has(w, Joins \cup Answers) /\ ~ Has(v, Joins \cup Answers)
      BY <1>1, <1>3, <2>4 DEF OffererIsFine
    <3>3. Ready(o) /\ ~ Late(a, w, wire["answerer"]) /\ ~ Early(o, a, v)
      BY <1>1, <3>2, HasEither DEF OffererIsFine, Early
    <3>4. /\ SteadyOfferer(e) /\ e.pending = o.pending /\ e.attempts = o.attempts
          /\ Kept(o, e)
      BY <1>1, <2>1, <3>3, OffererStarts, AnswersKept
    <3> HIDE DEF e
    <3> QED
      BY <1>4, <2>3, <3>1, <3>3, <3>4
  <2>5. CASE Head(w) \in Answers
    <3> DEFINE e == HandleSignal(o, Head(w))
    <3>1. Becomes("offerer", e)
      BY <2>5, MessageIs, RolesAre
    <3>2. Has(w, Answers) /\ Has(w, Joins \cup Answers) /\ ~ Has(v, Joins \cup Answers)
      BY <1>1, <1>3, <2>5 DEF OffererIsFine
    <3>3. /\ Late(a, w, wire["answerer"]) /\ HasOffered(o)
          /\ ~ Early(o, a, w) /\ ~ Outgoing(a, wire["answerer"])
      BY <1>1, <3>2 DEF OffererIsFine, Late
    <3>4. ~ Late(a, v, wire["answerer"])
      BY <3>2, <3>3, HasEither DEF Late
    <3>5. /\ SteadyOfferer(e) /\ e.pending = o.pending /\ e.attempts = o.attempts
          /\ Kept(o, e)
      BY <1>1, <2>1, <2>5, <3>3, OffererHears, AnswersKept
    <3> HIDE DEF e
    <3> QED
      BY <1>4, <2>3, <3>1, <3>3, <3>4, <3>5
  <2>6. CASE Head(w) \in Leaves
    <3> DEFINE e == Updated(o, "DISCONNECTED")
    <3>1. Becomes("offerer", e)
      BY <2>6, MessageIs, RolesAre
    <3>2. /\ SteadyOfferer(e) /\ e.pending = o.pending /\ e.attempts = o.attempts
          /\ Kept(o, e) /\ (Ready(o) => Ready(e)) /\ (HasOffered(o) => HasOffered(e))
      BY <1>1, <2>1, OffererIsQuiet, PartsKept
    <3>3. /\ Early(o, a, v) => Ready(o)
          /\ Late(a, v, wire["answerer"]) => HasOffered(o)
      BY <1>1, <1>4 DEF OffererIsFine
    <3> HIDE DEF e
    <3> QED
      BY <2>3, <3>1, <3>2, <3>3
  <2> QED
    BY <2>2, <2>4, <2>5, <2>6
<1> QED
  BY <1>5, <1>6

LEMMA AnswererMessages ==
    ASSUME IInv, Framed, Orderly, ~ c["answerer"].closed, HandleMessage("answerer")
    PROVE  OrderlyNext
<1> DEFINE o == c["offerer"]
           a == c["answerer"]
           w == wire["answerer"]
           v == Tail(w)
<1>1. /\ Session("answerer", a, w) /\ AnswererIsFine(a, w) /\ Sound(a) /\ Object(a)
  BY AnswererIsSteady DEF Orderly, Undisturbed
<1>2. /\ w # <<>> /\ w \in Seq(MessagesTo("answerer"))
      /\ wire'["answerer"] = v /\ wire'["offerer"] = wire["offerer"]
  BY <1>1, MessageIs, RolesAre DEF Session, Framed
<1>3. /\ Head(w) \in MessagesTo("answerer") /\ Left(w, v) /\ v \in Seq(MessagesTo("answerer"))
      /\ \A kind : Has(v, kind) => Has(w, kind)
      /\ \A kind : HasOne(w, kind) /\ Head(w) \in kind => ~ Has(v, kind)
      /\ \A kind : Head(w) \in kind => Has(w, kind)
  BY <1>2, HeadTaken DEF Left
<1>4. CASE a.role = "none"
  <2> DEFINE e == HandleSessionReady(a, "answerer")
  <2>1. Head(w) \in Readies /\ a.socket = "open" /\ ~ Has(v, Readies) /\ a.gen # 0
    BY <1>1, <1>2, <1>4 DEF Session, Unopened
  <2>2. Becomes("answerer", e)
    BY <2>1, MessageIs, RolesAre
  <2>3. /\ e.gen \in Nat /\ e.gen >= a.gen /\ ~ e.closed /\ e.socket = a.socket
        /\ e.role = "answerer" /\ SteadyAnswerer(e) /\ ~ Owes(e)
    BY <1>1, <1>4, AnswererIsSteady, RoleIsGiven, RolesAre
  <2> HIDE DEF e
  <2>4. c'["answerer"] = e /\ c'["offerer"] = o /\ tried' = tried
    BY <2>2, Moved, RolesAre
  <2>5. e.gen # 0
    BY <1>1, <2>1, <2>3 DEF Object
  <2>6. Session("answerer", e, v) /\ ~ Unopened(e)
    BY <1>3, <2>1, <2>3, <2>5 DEF Session, Unopened
  <2>7. Outgoing(e, v) => Outgoing(a, w)
    BY <1>3, <2>3 DEF Outgoing
  <2> QED
    BY <1>2, <1>3, <2>3, <2>4, <2>6, <2>7, AnswererGoesOn DEF Orderly, OrderlyNext
<1>5. CASE a.role # "none"
  <2>1. SteadyAnswerer(a) /\ a.role = "answerer" /\ ~ Has(w, Readies)
    BY <1>1, <1>5, AnswererIsSteady DEF Session
  <2>2. Head(w) \in Joins \cup Leaves \cup Offers
    BY <1>3, <2>1, MessagesAre
  <2>3. ASSUME NEW e, Becomes("answerer", e), SteadyAnswerer(e), Kept(a, e),
               \/ Owes(e) => Owes(a)
               \/ Has(w, Offers) /\ ~ Has(v, Offers)
        PROVE  OrderlyNext
    <3>1. /\ Owes(e) => Owes(a) \/ Has(w, Offers)
          /\ Has(v, Offers) => ~ Owes(e)
      BY <1>1, <1>3, <2>3 DEF AnswererIsFine
    <3> QED
      BY <1>2, <1>3, <2>1, <2>3, <3>1, KeptIsInSession, AnswererMoves
  <2>4. CASE Head(w) \in Joins
    <3> DEFINE e == HandlePeerJoined(a)
    <3>1. Becomes("answerer", e)
      BY <2>4, MessageIs, RolesAre
    <3>2. SteadyAnswerer(e) /\ (Owes(e) => Owes(a)) /\ Kept(a, e)
      BY <1>1, <2>1, AnswererIsJoined, AnswersKept
    <3> HIDE DEF e
    <3> QED
      BY <2>3, <3>1, <3>2
  <2>5. CASE Head(w) \in Offers
    <3> DEFINE e == HandleSignal(a, Head(w))
    <3>1. Becomes("answerer", e)
      BY <2>5, MessageIs, RolesAre
    <3>2. Has(w, Offers) /\ ~ Has(v, Offers) /\ ~ Owes(a)
      BY <1>1, <1>3, <2>5 DEF AnswererIsFine
    <3>3. SteadyAnswerer(e) /\ Kept(a, e)
      BY <1>1, <2>1, <2>5, <3>2, AnswererOffered, AnswersKept
    <3> HIDE DEF e
    <3> QED
      BY <2>3, <3>1, <3>2, <3>3
  <2>6. CASE Head(w) \in Leaves
    <3> DEFINE e == Updated(a, "DISCONNECTED")
    <3>1. Becomes("answerer", e)
      BY <2>6, MessageIs, RolesAre
    <3>2. SteadyAnswerer(e) /\ (Owes(e) => Owes(a)) /\ Kept(a, e)
      BY <1>1, <2>1, AnswererIsQuiet, PartsKept
    <3> HIDE DEF e
    <3> QED
      BY <2>3, <3>1, <3>2
  <2> QED
    BY <2>2, <2>4, <2>5, <2>6
<1> QED
  BY <1>4, <1>5

-----------------------------------------------------------------------------
(* The invariant, and what it is for.                                        *)

RouteInv == IInv /\ Framed /\ LossInv

LEMMA InitRoute == Init => RouteInv
<1> SUFFICES ASSUME Init PROVE RouteInv
  OBVIOUS
<1> DEFINE n == NewCoordinator
<1>1. /\ c["offerer"] = n /\ c["answerer"] = n
      /\ wire["offerer"] = <<>> /\ wire["answerer"] = <<>> /\ tried = 0
  BY DEF Init, Roles
<1>2. /\ n.gen = 0 /\ ~ n.closed /\ n.socket = "none" /\ n.role = "none" /\ n.attempts = 0
      /\ Untouched(n)
  BY DEF NewCoordinator, Untouched
<1>3. Ready(n) /\ ~ Owes(n)
  BY <1>2, UntouchedIsReady
<1> HIDE DEF n
<1>4. Session("offerer", n, <<>>) /\ Session("answerer", n, <<>>)
  BY <1>2, EmptySequence DEF Session
<1>5. ~ Late(n, <<>>, <<>>) /\ ~ Outgoing(n, <<>>)
  BY <1>3, EmptySequence DEF Late, Outgoing
<1>6. OffererIsFine(n, n, <<>>, <<>>) /\ AnswererIsFine(n, <<>>)
  BY <1>2, <1>3, <1>5, EmptySequence DEF OffererIsFine, AnswererIsFine
<1>7. TriedIsCounted(n, 0)
  BY <1>2 DEF TriedIsCounted
<1>8. Undisturbed(n, n, <<>>, <<>>, 0)
  BY <1>4, <1>6, <1>7 DEF Undisturbed
<1> QED
  BY <1>1, <1>8, InitHolds, InitFramed DEF RouteInv, LossInv

LEMMA LossStep ==
    ASSUME IInv, Framed, Orderly, OnlyLosses', [Next]_vars
    PROVE  OrderlyNext
<1>1. CASE UNCHANGED vars
  BY <1>1 DEF vars, Orderly, OrderlyNext
<1>2. ASSUME NEW p \in Roles, HandleMessage(p)
      PROVE  OrderlyNext
  <2>1. ~ c[p].closed
    BY <1>2, MessageIs DEF Orderly, Undisturbed, Session, Roles
  <2> QED
    BY <1>2, <2>1, OffererMessages, AnswererMessages DEF Roles
<1>3. ASSUME NEW p \in Roles, Works(p)
      PROVE  OrderlyNext
  BY <1>3, ClosedWorks, OffererWorks, AnswererWorks DEF Roles
<1>4. ASSUME NEW p \in Roles,
             JoinSession(p) \/ Leave(p) \/ SocketOpens(p) \/ SocketDrops(p) \/ SocketReconnects(p)
      PROVE  OrderlyNext
  BY <1>4, SessionIsJoined, SessionIsLeft, SessionOpens, SocketsStay
<1>5. /\ \A p : ~ CandidateFound(p)
      /\ ~ RestartsIce /\ ~ ReplacesRoute
  BY TroublesGrow DEF CandidateFound, RestartsIce, ReplacesRoute
<1>6. CASE Cut
  BY <1>6 DEF Cut, Orderly, OrderlyNext
<1> QED
  BY <1>1, <1>2, <1>3, <1>4, <1>5, <1>6 DEF Next, Settles, Works

LEMMA RouteStep == RouteInv /\ [Next]_vars => RouteInv'
<1> SUFFICES ASSUME RouteInv, [Next]_vars PROVE RouteInv'
  OBVIOUS
<1>1. IInv' /\ Framed'
  BY StepHolds, StepFramed DEF RouteInv
<1>2. OnlyLosses' => OnlyLosses
  <2>1. UNCHANGED troubles \/ \E t : Happens(t)
    BY DEF Next, vars, JoinSession, Leave, SocketOpens, SocketDrops, SocketReconnects, Settles,
           HandleMessage, ConfigEnds, OfferIsMade, OfferRejects, OfferIsAnswered, AnswerIsAccepted,
           SignalIsMinor, SignalRejects, ConfigFails, Hangs, CandidateFound, Progresses,
           PeerConnecting, PeerConnected, PeerDisconnected, PeerFailed, ChannelOpens,
           TransferMoves, PeerIceConnected, PeerFlaps, RecoveryTimerFires, ConnectionTimerFires,
           Cut, RestartsIce, ReplacesRoute, Quietly
  <2> QED
    BY <2>1, TroublesGrow, TroublesStay DEF RouteInv
<1>3. OnlyLosses' => OrderlyNext
  BY <1>2, LossStep DEF RouteInv, LossInv, Orderly
<1>4. LossInv' <=> (OnlyLosses' => OrderlyNext)
  BY DEF LossInv, OrderlyNext, Undisturbed, Session, OffererIsFine, AnswererIsFine, TriedIsCounted,
         Early, Late, Announcing, Outgoing, Owes, Unopened, Asked, Answering, Ready, HasOffered,
         Holding, HoldsOne, Has, HasOne, Untouched, SteadyOfferer, SteadyAnswerer, Steady,
         Configured
<1> QED
  BY <1>1, <1>3, <1>4 DEF RouteInv

LEMMA SocketKeeps ==
    ASSUME NEW d, Sound(d)
    PROVE  /\ SocketClosed(d).transfer = d.transfer
           /\ SocketOpen(d).transfer = d.transfer
           /\ \A v : [d EXCEPT !.socket = v].transfer = d.transfer
           /\ \A role : HandleSessionReady(d, role).transfer = d.transfer
           /\ Joined(d).transfer = 0
           /\ Disconnected(d).transfer = d.transfer
<1>1. DOMAIN d = Fields /\ d.gen \in Nat
  BY DEF Sound
<1>2. \A e, state : DOMAIN e = Fields => Updated(e, state).transfer = e.transfer
  BY ShownAlike DEF Alike
<1>3. SocketClosed(d).transfer = d.transfer
  <2> DEFINE f == [d EXCEPT !.socket = "none"]
             g == [d EXCEPT !.socket = "waiting", !.tries = @ + 1]
  <2>1. /\ DOMAIN f = Fields /\ f.transfer = d.transfer
        /\ DOMAIN g = Fields /\ g.transfer = d.transfer
    BY <1>1, FieldsAre
  <2>2. SocketClosed(d) \in {Updated(f, "FAILED"), Updated(g, "RECONNECTING")}
    BY DEF SocketClosed
  <2> HIDE DEF f, g
  <2> QED
    BY <1>2, <2>1, <2>2
<1>4. ASSUME NEW role
      PROVE  HandleSessionReady(d, role).transfer = d.transfer
  <2> DEFINE f == [d EXCEPT !.role = role]
  <2>1. Object(f) /\ f.transfer = d.transfer
    BY <1>1, FieldsAre DEF Object
  <2>2. HandleSessionReady(d, role) \in {f, EnsureTransport(f, Wait)}
    BY DEF HandleSessionReady
  <2> HIDE DEF f
  <2> QED
    BY <2>1, <2>2, AttemptsKept DEF Kept
<1>5. \A v : [d EXCEPT !.socket = v].transfer = d.transfer
  BY <1>1, FieldsAre
<1>6. Joined(d).transfer = 0
  <2> DEFINE f == Invalidated(TimersCleared(Detached(d)))
             g == [f EXCEPT !.role = "none", !.socket = "connecting", !.tries = 0, !.remote = 0,
                            !.attempts = 0, !.closed = FALSE, !.transfer = 0, !.phase = "IDLE"]
  <2>1. DOMAIN f = Fields
    BY <1>1, FieldsAre DEF Invalidated, TimersCleared, Detached
  <2>2. Joined(d) = Updated(g, "SIGNALLING_CONNECTING")
    BY DEF Joined
  <2> HIDE DEF f
  <2>3. DOMAIN g = Fields /\ g.transfer = 0
    BY <2>1, FieldsAre
  <2> HIDE DEF g
  <2> QED
    BY <1>2, <2>2, <2>3
<1> QED
  BY <1>3, <1>4, <1>5, <1>6, SessionEnds, SocketIsOpen

\* No configuration that is still of use makes a transfer where there is one.
LEMMA ConfigurationKeeps ==
    ASSUME IInv, Orderly, NEW p \in Roles, NEW k \in c[p].configs
    PROVE  c[p].transfer # 0 => ConfigDone(c[p], k).transfer = c[p].transfer
<1> DEFINE d == c[p]
<1>1. Sound(d) /\ Object(d)
  BY DEF IInv, Sound, Object
<1>2. CASE d.closed \/ k.gen # d.gen
  BY <1>1, <1>2, ConfiguredInSession DEF Kept
<1>3. CASE ~ d.closed /\ k.gen = d.gen
  <2> SUFFICES ASSUME d.transfer # 0 PROVE ConfigDone(d, k).transfer = d.transfer
    OBVIOUS
  <2>1. Steady(d)
    BY <1>3, OffererIsSteady, AnswererIsSteady DEF Roles, Untouched, SteadyOfferer, SteadyAnswerer
  <2>2. k.replacing
    BY <1>3, <2>1 DEF Steady
  <2> DEFINE f == [d EXCEPT !.configs = @ \ {k}, !.pending = IF @ = k.gen THEN 0 ELSE @]
             g == [f EXCEPT !.transport = k.gen, !.pc = NewPeerConnection, !.open = @ \cup {k.gen}]
  <2>3. DOMAIN f = Fields /\ f.transfer = d.transfer /\ f.gen = d.gen
    BY <1>1, FieldsAre DEF Object
  <2>4. ConfigDone(d, k) = Continue(Attached(f, k), k)
    BY <1>3 DEF ConfigDone, IsCurrent
  <2> HIDE DEF f
  <2>5. Attached(f, k) = g
    BY <2>2 DEF Attached
  <2>6. DOMAIN g = Fields /\ g.transfer = f.transfer /\ g.gen = f.gen
    BY <2>3, FieldsAre
  <2> HIDE DEF g
  <2>7. Object(g)
    BY <1>1, <2>3, <2>6 DEF Object
  <2> QED
    BY <2>3, <2>4, <2>5, <2>6, <2>7, PartsKept DEF Kept
<1> QED
  BY <1>2, <1>3

LEMMA TransferStep ==
    ASSUME IInv, Orderly, [Next]_vars, NEW p \in Roles, c[p].transfer # 0
    PROVE  c'[p].transfer \in {0, c[p].transfer}
<1>1. \A q \in Roles : Sound(c[q]) /\ Object(c[q])
  BY DEF IInv, Sound, Object
<1>2. ASSUME NEW q \in Roles, NEW e, Becomes(q, e),
             c[q].transfer # 0 => e.transfer \in {0, c[q].transfer}
      PROVE  c'[p].transfer \in {0, c[p].transfer}
  BY <1>2 DEF IInv, Becomes
<1>3. CASE UNCHANGED c
  BY <1>3
<1>4. ASSUME NEW q \in Roles, Works(q)
      PROVE  c'[p].transfer \in {0, c[p].transfer}
  <2>1. PICK e : /\ Becomes(q, e)
                 /\ \/ Kept(c[q], e)
                    \/ \E k \in c[q].configs : e = ConfigDone(c[q], k)
    BY <1>4, MethodsWork
  <2> QED
    BY <1>2, <2>1, ConfigurationKeeps DEF Kept
<1>5. ASSUME NEW q \in Roles,
             JoinSession(q) \/ Leave(q) \/ SocketOpens(q) \/ SocketDrops(q) \/ SocketReconnects(q)
      PROVE  c'[p].transfer \in {0, c[p].transfer}
  <2> DEFINE f == [c[q] EXCEPT !.socket = "connecting"]
  <2>1. \E e : /\ Becomes(q, e)
               /\ e \in {Joined(c[q]), Disconnected(c[q]), SocketOpen(c[q]), SocketClosed(c[q]), f}
    BY <1>5 DEF JoinSession, Leave, SocketOpens, SocketDrops, SocketReconnects, Quietly
  <2>2. f.transfer = c[q].transfer
    BY <1>1, SocketKeeps
  <2> HIDE DEF f
  <2> QED
    BY <1>1, <1>2, <2>1, <2>2, SocketKeeps
<1>6. ASSUME NEW q \in Roles, HandleMessage(q)
      PROVE  c'[p].transfer \in {0, c[p].transfer}
  <2>1. \E e : /\ Becomes(q, e)
               /\ \/ e \in {HandleSessionReady(c[q], q), HandlePeerJoined(c[q]),
                            Updated(c[q], "DISCONNECTED")}
                  \/ \E m : e = HandleSignal(c[q], m)
    BY <1>6 DEF HandleMessage
  <2> QED
    BY <1>1, <1>2, <2>1, SocketKeeps, AnswersKept, PartsKept DEF Kept
<1>7. CASE RestartsIce \/ ReplacesRoute
  <2>1. \E e : /\ Becomes("offerer", e)
               /\ e \in {RestartIce(c["offerer"]), ReplacePeerConnection(c["offerer"])}
    BY <1>7 DEF RestartsIce, ReplacesRoute
  <2> QED
    BY <1>1, <1>2, <2>1, CallbacksKept, RolesAre DEF Kept
<1>8. Cut \/ (\E q \in Roles : CandidateFound(q)) => UNCHANGED c
  BY DEF Cut, CandidateFound
<1> QED
  BY <1>3, <1>4, <1>5, <1>6, <1>7, <1>8 DEF Next, Settles, Works, vars

\* While nothing has happened but losses, and users that left, both sessions go
\* on in order: an offer is asked for once, made once, and answered once.
THEOREM RouteInvHolds == Spec => []RouteInv
BY InitRoute, RouteStep, PTL DEF Spec

\* After losses only, the offerer begins no more connections than one, and one
\* for each attempt it counts, before it is connected again: a connection is
\* begun outside an attempt only for the first peer-joined, and the count is
\* reset only when the connection is up (startRouteReplacement,
\* scheduleRouteRecovery, failRouteAttempt and the connected callback).
THEOREM AttemptsAreBounded == Spec => []BoundedAttempts
<1>1. RouteInv => BoundedAttempts
  <2> SUFFICES ASSUME RouteInv, OnlyLosses PROVE tried <= MaxReplacementAttempts + 1
    BY DEF BoundedAttempts
  <2>1. MaxReplacementAttempts \in Nat
    BY CoordinatorAssumption
  <2>2. IInv /\ Orderly /\ TriedIsCounted(c["offerer"], tried)
    BY DEF RouteInv, LossInv, Orderly, Undisturbed
  <2>3. CASE c["offerer"].closed \/ c["offerer"].role = "none"
    BY <2>1, <2>2, <2>3 DEF TriedIsCounted
  <2>4. CASE ~ c["offerer"].closed /\ c["offerer"].role # "none"
    <3>1. c["offerer"].attempts \in 0 .. MaxReplacementAttempts
      BY <2>2, <2>4, OffererIsSteady DEF SteadyOfferer
    <3> QED
      BY <2>1, <2>2, <2>4, <3>1 DEF TriedIsCounted
  <2> QED
    BY <2>3, <2>4
<1> QED
  BY <1>1, RouteInvHolds, PTL

\* After losses only, a route is replaced under the same transfer objects: the
\* configuration that makes a transfer is only ever the first of a session,
\* however the replacements and the peer's offers overtake it (ensureTransport
\* and createTransportForRoute, replacing or not).
THEOREM TransfersSurvive == Spec => TransferSurvives
<1>1. RouteInv /\ [Next]_vars =>
         [OnlyLosses => \A p \in Roles :
             c[p].transfer # 0 => c'[p].transfer \in {0, c[p].transfer}]_vars
  BY TransferStep DEF RouteInv, LossInv, Orderly
<1> QED
  BY <1>1, RouteInvHolds, PTL DEF Spec, TransferSurvives

=============================================================================
