---------------------- MODULE SingleFileTransferProofs ----------------------
(***************************************************************************)
(* Proofs about SingleFileTransfer, for files of any size, any window,     *)
(* batch and marks of the channel, any number of files selected one after  *)
(* the other, and any number of pauses, cancellations and failures.        *)
(*                                                                         *)
(* A receiver completes what it closed with the count and the digest of    *)
(* FINISH.  A frame bears the reference of the file selected last,         *)
(* whichever file its loop has read, and is written when the drain comes   *)
(* to it: frames of an older file, and a digest of a mixture, may reach    *)
(* the receiver of another file.  That the digest it accepts is the        *)
(* source's needs two sides:                                               *)
(*   - the receiver takes frames by their offset, so whatever it has taken *)
(*     for a file is in ascending order from its first frame (TakenOK),    *)
(*     and the file holds exactly what the hash has (ContentsOK);          *)
(*   - the sender's digest is the source's, or is not ascending, or counts *)
(*     a frame that the receiver refuses (Clean, Doomed, FinishOK).        *)
(* Only a behaviour that is quiet selects more than one file; in the       *)
(* others the first file is the only one, and every frame is its.          *)
(***************************************************************************)
EXTENDS SingleFileTransfer, SequenceTheorems, TLAPS

-----------------------------------------------------------------------------
(* Types.                                                                    *)

Payloads == Files \X (0 .. frames - 1)
FileOrNone == Files \cup {None}

States == {"IDLE", "READY", "SENDING", "RECEIVING", "PAUSED", "FINALIZING", "COMPLETED",
           "CANCELLED", "FAILED"}

Sender ==
    [id : FileOrNone, state : States, sent : Nat, cancelled : BOOLEAN, paused : BOOLEAN,
     before : {"IDLE", "SENDING", "RECEIVING"}, written : Nat, window : Nat,
     reads : FileOrNone, next : Nat, sourceHash : Seq(Payloads), flowWaiters : SUBSET Files,
     pauseWaiters : SUBSET Files, offered : BOOLEAN]

Receiver ==
    [id : FileOrNone, state : States, transferred : Nat, cancelled : BOOLEAN, paused : BOOLEAN,
     before : {"IDLE", "SENDING", "RECEIVING"}, expected : Nat, queue : Seq(Payloads),
     inFlight : Nat, finish : [bytes : Int, sha256 : Seq(Payloads)], destination : FileOrNone,
     hash : Seq(Payloads), aborting : BOOLEAN]

Loop ==
    [of : Files, pc : {"over", "reading", "window", "head", "paused", "buffer"},
     frame : Payloads \cup {<<>>}, ahead : FileOrNone]

Drain ==
    [pc : {"idle", "writing", "closing"}, batch : Seq(Payloads), destination : FileOrNone]

Closing == [id : Files, of : Files, by : {"drain", "finish"}]

File ==
    [state : {"none", "open", "closing", "closed", "aborted"}, contents : Seq(Payloads)]

Signals ==
    [type : {"PAUSE", "RESUME", "FAIL"}, id : FileOrNone] \cup [type : {"CANCEL"}, id : Files]

ToReceiver ==
    Signals \cup [type : {"OFFER", "START"}, id : Files]
            \cup [type : {"FINISH"}, id : Files, bytes : Nat, sha256 : Seq(Payloads)]

ToSender ==
    Signals \cup [type : {"VERIFY_OK"}, id : Files]
            \cup [type : {"ACCEPT"}, id : Files, window : Nat]
            \cup [type : {"FLOW"}, id : FileOrNone, written : Nat, window : Nat]

DataFrame == [ref : Files, offset : Nat, payload : Payloads]

Types ==
    /\ frames \in Nat
    /\ sender \in Sender /\ receiver \in Receiver
    /\ loops \in [Files -> Loop]
    /\ drain \in Drain /\ closing \in SUBSET Closing /\ files \in [Files -> File]
    /\ toReceiver \in Seq(ToReceiver) /\ toSender \in Seq(ToSender)
    /\ data \in Seq(DataFrame) /\ buffered \in Nat
    /\ connected \in BOOLEAN
    /\ pauses \in Nat /\ troubles \in Nat

-----------------------------------------------------------------------------
(* The files of a behaviour, one after the other.                            *)

IdsInv ==
    /\ receiver.id <= sender.id /\ receiver.destination <= receiver.id
    /\ sender.reads \in {None, sender.id}
    /\ \A n \in DOMAIN toReceiver :
          /\ toReceiver[n].id <= sender.id
          /\ toReceiver[n].type = "OFFER" => receiver.id < toReceiver[n].id
    /\ \A m, n \in DOMAIN toReceiver :
          m < n /\ toReceiver[m].type = "OFFER" /\ toReceiver[n].type = "OFFER" =>
              toReceiver[m].id < toReceiver[n].id
    /\ (\E n \in DOMAIN toReceiver :
            toReceiver[n].type = "OFFER" /\ toReceiver[n].id = sender.id) => sender.offered
    /\ sender.id # None /\ receiver.id = sender.id => sender.offered
    /\ \A n \in DOMAIN toSender : toSender[n].id <= receiver.id

SenderOK(s) ==
    /\ s.state \in {"FAILED", "CANCELLED"} => s.cancelled
    /\ s.state = "READY" => s.id # None
    /\ Len(s.sourceHash) <= s.sent

LoopInv(f) ==
    /\ loops[f].of = f
    /\ loops[f].pc # "over" => f <= sender.id
    /\ loops[f].pc \notin {"over", "head"} =>
          /\ loops[f].frame \in Payloads
          /\ loops[f].ahead = loops[f].frame[1] /\ loops[f].frame[1] <= sender.id

DataInv ==
    \A n \in DOMAIN data :
        /\ data[n].payload[2] = data[n].offset
        /\ data[n].payload[1] <= data[n].ref /\ data[n].ref <= sender.id

-----------------------------------------------------------------------------
(* The receiver, as it is after a step that ends in x, and v what its drain  *)
(* is writing then.                                                          *)

Ascending(s) == \A n \in DOMAIN s : s[n][2] = n - 1
Whole(dest, f) == dest[f] = [state |-> "closed", contents |-> SourceOf(f)]

Writing(v) == v.pc = "writing"
InWriting(v) == IF Writing(v) THEN v.batch ELSE <<>>
Taken(x, v) == x.r.hash \o InWriting(v) \o x.r.queue

\* What was being written when the file was accepted counts for it.
Before(x, v) == Len(Taken(x, v)) - x.r.expected

Accepted(x) == x.r.id # None /\ x.r.destination = x.r.id

OrderOK(x, v) ==
    /\ x.r.destination <= x.r.id
    /\ x.r.state = "READY" => x.r.destination < x.r.id
    /\ CanReceiveData(x.r) \/ x.r.before = "RECEIVING" => Accepted(x)
    /\ x.r.state \in {"FAILED", "CANCELLED"} => x.r.cancelled
    /\ x.r.aborting => x.r.cancelled /\ x.r.id # None
    /\ \A f \in Files : f > x.r.destination => x.files[f] = [state |-> "none", contents |-> <<>>]
    /\ Writing(v) =>
          /\ v.batch # <<>>
          /\ v.destination \in Files /\ v.destination <= x.r.destination
          /\ \A n \in DOMAIN v.batch : v.batch[n][1] <= v.destination
    /\ x.r.destination = None => x.r.hash = <<>>
    /\ x.r.id <= 1 => x.r.transferred = Len(x.r.hash)
    /\ ~ Accepted(x) =>
          /\ x.r.queue = <<>> /\ x.r.expected = 0 /\ x.r.inFlight = 0
          /\ Writing(v) => x.r.transferred = 0

TakenOK(x, v) ==
    Accepted(x) /\ ~x.r.cancelled =>
        /\ Before(x, v) >= 0
        /\ \A n \in DOMAIN Taken(x, v) :
              IF n <= Before(x, v) THEN Taken(x, v)[n][1] < x.r.id
              ELSE Taken(x, v)[n][1] <= x.r.id /\ Taken(x, v)[n][2] = n - Before(x, v) - 1
        /\ Before(x, v) > 0 => x.r.transferred = Len(x.r.hash)
        /\ IF Writing(v) /\ v.destination # x.r.id
           THEN x.r.inFlight = 0 /\ x.r.hash = <<>> /\ Before(x, v) = Len(v.batch)
           ELSE x.r.inFlight = Len(InWriting(v)) /\ Before(x, v) <= Len(x.r.hash)

ContentsOK(x, v) ==
    Accepted(x) /\ x.files[x.r.id].state = "open" =>
        IF x.r.cancelled
        THEN x.r.hash = <<>> /\ x.files[x.r.id].contents = <<>> /\ ~Writing(v)
        ELSE LET contents == x.files[x.r.id].contents
             IN  /\ \/ Len(contents) = Len(x.r.hash) - Before(x, v)
                    \/ x.r.hash = <<>> /\ contents = <<>>
                 /\ \A n \in DOMAIN contents : contents[n] = x.r.hash[Before(x, v) + n]

CloseOK(x) ==
    /\ \A c \in x.closing :
          /\ x.files[c.of].state = "closing"
          /\ c.id <= x.r.id
          /\ c.id = x.r.id /\ c.id \in {1, sender.id} =>
                c.of = c.id /\ x.files[c.id].contents = SourceOf(c.id)
    /\ \A c, d \in x.closing : c.of = d.of => c = d
    /\ x.r.state = "COMPLETED" /\ x.r.id = 1 => Whole(x.files, 1)

\* The drain awaits the close that it began.
ByDrainOnce(closes) == \A c, e \in closes : c.by = "drain" /\ e.by = "drain" => c = e

DrainOK(x) ==
    /\ \A c \in x.closing : c.by = "drain" => x.drain.pc = "closing"
    /\ ByDrainOnce(x.closing)

-----------------------------------------------------------------------------
(* A behaviour in which nothing is paused and nothing fails: those that      *)
(* select more than one file are.                                            *)

Quiet == troubles = 0 /\ pauses = 0

QuietOK(x) ==
    /\ ~x.r.paused /\ ~x.r.aborting
    /\ x.r.cancelled =>
          /\ x.r.state # "READY"
          /\ Accepted(x) => x.files[x.r.id].state # "open"

QuietInv ==
    /\ connected /\ ~sender.paused
    /\ \A f \in Files : loops[f].pc \notin {"head", "paused"}
    /\ \A n \in DOMAIN toReceiver : toReceiver[n].type \notin {"PAUSE", "RESUME", "CANCEL"}
    /\ \A n \in DOMAIN toSender : toSender[n].type \notin {"PAUSE", "RESUME", "CANCEL"}

IsAccept(m) == m.type = "ACCEPT" /\ m.id = sender.id

AcceptInv ==
    /\ \A m, n \in DOMAIN toSender :
          IsAccept(toSender[m]) /\ IsAccept(toSender[n]) => m = n
    /\ (\E n \in DOMAIN toSender : IsAccept(toSender[n])) =>
          receiver.id = sender.id /\ receiver.destination = sender.id

Begun ==
    /\ sender.id # None /\ receiver.id = sender.id /\ receiver.destination = sender.id
    /\ \A n \in DOMAIN toSender : ~ IsAccept(toSender[n])

UnbegunInv ==
    ~Begun /\ sender.id # None =>
        /\ sender.reads = None
        /\ loops[sender.id].pc = "over"
        /\ \A f \in Files : loops[f].pc # "over" => loops[f].ahead # sender.id
        /\ \A n \in DOMAIN toReceiver :
              toReceiver[n].type = "FINISH" => toReceiver[n].id # sender.id
        /\ receiver.id = sender.id => receiver.finish = NoFinish

\* The frames of the file are sent in order, and by its own loop alone ...
Clean ==
    LET n == Len(sender.sourceHash)
        loop == loops[sender.id]
    IN  /\ \A i \in 1 .. n : sender.sourceHash[i] = <<sender.id, i - 1>>
        /\ \A f \in Files \ {sender.id} : loops[f].pc # "over" => loops[f].ahead # sender.id
        /\ loop.frame = <<sender.id, n>>
        /\ sender.next = IF loop.pc = "reading" THEN n ELSE n + 1
        /\ sender.reads = sender.id \/ sender.cancelled

\* ... or what is sent cannot be what a receiver takes.
Doomed ==
    \/ ~ Ascending(sender.sourceHash)
    \/ loops[sender.id].frame[2] < Len(sender.sourceHash)

SentInv ==
    Begun /\ loops[sender.id].pc # "over" =>
        /\ loops[sender.id].ahead = sender.id
        /\ \/ loops[sender.id].frame[2] = 0
           \/ \E n \in DOMAIN sender.sourceHash : sender.sourceHash[n] = <<sender.id, 0>>
        /\ Clean \/ Doomed

FinishOK(bytes, sha256) ==
    /\ sha256 = SourceOf(sender.id) \/ ~ Ascending(sha256)
    /\ bytes - Len(sha256) = sender.sent - Len(sender.sourceHash)
    /\ Len(sha256) <= Len(sender.sourceHash)
    /\ \A n \in DOMAIN sha256 : sha256[n] = sender.sourceHash[n]
    /\ frames > 0 => \E n \in DOMAIN sha256 : sha256[n] = <<sender.id, 0>>

FinishInv ==
    /\ \A n \in DOMAIN toReceiver :
          toReceiver[n].type = "FINISH" /\ toReceiver[n].id = sender.id =>
              FinishOK(toReceiver[n].bytes, toReceiver[n].sha256)
    /\ sender.id # None /\ receiver.id = sender.id /\ receiver.finish # NoFinish =>
          FinishOK(receiver.finish.bytes, receiver.finish.sha256)

\* No frame of the file was sent before the loop of the file began.
Unspoilt ==
    /\ sender.sent = Len(sender.sourceHash)
    /\ Begun \/ sender.sent = 0

Arriving(id, s, expected, d) ==
    LET left == Len(s) - expected
    IN  /\ left >= 0 /\ left <= Len(d)
        /\ \A n \in DOMAIN d : d[n].ref = id <=> n > Len(d) - left
        /\ \A n \in DOMAIN d : n > Len(d) - left => d[n].payload = s[Len(s) - Len(d) + n]

FifoOK(x, v, d) ==
    LET expected == IF x.r.id = sender.id THEN x.r.expected ELSE 0
    IN  Unspoilt /\ sender.id # None /\ ~(x.r.id = sender.id /\ x.r.cancelled) =>
            /\ Arriving(sender.id, sender.sourceHash, expected, d)
            /\ x.r.id = sender.id /\ Accepted(x) =>
                  \A n \in 1 .. x.r.expected :
                      Taken(x, v)[Before(x, v) + n] = sender.sourceHash[n]

-----------------------------------------------------------------------------
DoneInv ==
    /\ sender.id # None /\ sender.state = "COMPLETED" => Whole(files, sender.id)
    /\ \A n \in DOMAIN toSender :
          toSender[n].type = "VERIFY_OK" /\ toSender[n].id = sender.id =>
              Whole(files, sender.id)

CommonOK(x, v) == OrderOK(x, v) /\ TakenOK(x, v) /\ ContentsOK(x, v) /\ CloseOK(x)

Inv ==
    /\ Types
    /\ IdsInv /\ SenderOK(sender) /\ (\A f \in Files : LoopInv(f)) /\ DataInv
    /\ CommonOK(OfReceiver, drain) /\ DrainOK(OfReceiver)
    /\ AcceptInv /\ DoneInv
    /\ sender.id >= 2 => Quiet
    /\ Quiet => /\ QuietOK(OfReceiver) /\ QuietInv /\ UnbegunInv /\ SentInv /\ FinishInv
                /\ FifoOK(OfReceiver, drain, data)

-----------------------------------------------------------------------------
(* Sequences and files.                                                      *)

LEMMA EmptyConcat ==
    ASSUME NEW S, NEW s \in Seq(S)
    PROVE  s \o <<>> = s /\ <<>> \o s = s
  OBVIOUS

LEMMA Appended ==
    ASSUME NEW S, NEW s \in Seq(S), NEW e \in S
    PROVE  /\ Append(s, e) \in Seq(S) /\ Len(Append(s, e)) = Len(s) + 1
           /\ \A n \in DOMAIN s : Append(s, e)[n] = s[n]
           /\ Append(s, e)[Len(s) + 1] = e
           /\ \A n \in DOMAIN Append(s, e) : n \in DOMAIN s \/ n = Len(s) + 1
           /\ DOMAIN s = 1 .. Len(s) /\ DOMAIN Append(s, e) = 1 .. Len(s) + 1
  OBVIOUS

LEMMA Concatenated ==
    ASSUME NEW S, NEW s \in Seq(S), NEW t \in Seq(S)
    PROVE  /\ s \o t \in Seq(S) /\ Len(s \o t) = Len(s) + Len(t)
           /\ \A n \in 1 .. Len(s) : (s \o t)[n] = s[n]
           /\ \A n \in 1 .. Len(t) : (s \o t)[Len(s) + n] = t[n]
           /\ DOMAIN (s \o t) = 1 .. Len(s) + Len(t)
           /\ Len(s) \in Nat /\ Len(t) \in Nat /\ DOMAIN s = 1 .. Len(s) /\ DOMAIN t = 1 .. Len(t)
  OBVIOUS

LEMMA ThreeParts ==
    ASSUME NEW S, NEW s \in Seq(S), NEW t \in Seq(S), NEW u \in Seq(S)
    PROVE  /\ s \o t \o u \in Seq(S) /\ Len(s \o t \o u) = Len(s) + Len(t) + Len(u)
           /\ DOMAIN (s \o t \o u) = 1 .. Len(s \o t \o u)
           /\ Len(s) \in Nat /\ Len(t) \in Nat /\ Len(u) \in Nat
           /\ \A n \in 1 .. Len(s) : (s \o t \o u)[n] = s[n]
           /\ \A n \in 1 .. Len(t) : (s \o t \o u)[Len(s) + n] = t[n]
           /\ \A n \in 1 .. Len(u) : (s \o t \o u)[Len(s) + Len(t) + n] = u[n]
<1>1. PICK st \in Seq(S) : st = s \o t
  BY Concatenated
<1>2. /\ Len(st) = Len(s) + Len(t) /\ Len(s) \in Nat /\ Len(t) \in Nat
      /\ \A n \in 1 .. Len(s) : st[n] = s[n]
      /\ \A n \in 1 .. Len(t) : st[Len(s) + n] = t[n]
  BY <1>1, Concatenated
<1>3. /\ st \o u \in Seq(S) /\ Len(st \o u) = Len(st) + Len(u) /\ Len(u) \in Nat
      /\ DOMAIN (st \o u) = 1 .. Len(st) + Len(u)
      /\ \A n \in 1 .. Len(st) : (st \o u)[n] = st[n]
      /\ \A n \in 1 .. Len(u) : (st \o u)[Len(st) + n] = u[n]
  BY Concatenated
<1>4. s \o t \o u = st \o u
  BY <1>1
<1>5. PICK stu \in Seq(S) : stu = st \o u
  BY <1>3
<1>6. /\ \A n \in 1 .. Len(s) : stu[n] = s[n]
      /\ \A n \in 1 .. Len(t) : stu[Len(s) + n] = t[n]
      /\ \A n \in 1 .. Len(u) : stu[Len(s) + Len(t) + n] = u[n]
      /\ Len(stu) = Len(s) + Len(t) + Len(u) /\ DOMAIN stu = 1 .. Len(stu)
  BY <1>2, <1>3, <1>5
<1> QED
  BY <1>2, <1>3, <1>4, <1>5, <1>6

LEMMA Regrouped ==
    ASSUME NEW S, NEW s \in Seq(S), NEW t \in Seq(S), NEW u \in Seq(S)
    PROVE  (s \o t) \o u = s \o (t \o u)
  OBVIOUS

LEMMA AppendRegrouped ==
    ASSUME NEW S, NEW s \in Seq(S), NEW t \in Seq(S), NEW e \in S
    PROVE  s \o Append(t, e) = Append(s \o t, e)
  OBVIOUS

LEMMA CutApart ==
    ASSUME NEW S, NEW s \in Seq(S), NEW n \in 1 .. Len(s)
    PROVE  /\ SubSeq(s, 1, n) \in Seq(S) /\ SubSeq(s, n + 1, Len(s)) \in Seq(S)
           /\ Len(SubSeq(s, 1, n)) = n /\ SubSeq(s, 1, n) # <<>>
           /\ \A i \in DOMAIN SubSeq(s, 1, n) : i \in DOMAIN s /\ SubSeq(s, 1, n)[i] = s[i]
           /\ SubSeq(s, 1, n) \o SubSeq(s, n + 1, Len(s)) = s
<1>1. /\ SubSeq(s, 1, n) \in Seq(S) /\ Len(SubSeq(s, 1, n)) = n
      /\ \A i \in 1 .. n : SubSeq(s, 1, n)[i] = s[i]
  OBVIOUS
<1>2. /\ SubSeq(s, n + 1, Len(s)) \in Seq(S) /\ Len(SubSeq(s, n + 1, Len(s))) = Len(s) - n
      /\ \A i \in 1 .. Len(s) - n : SubSeq(s, n + 1, Len(s))[i] = s[n + i]
  OBVIOUS
<1> DEFINE a == SubSeq(s, 1, n)
           b == SubSeq(s, n + 1, Len(s))
<1>3. Len(a \o b) = Len(s) /\ a \o b \in Seq(S)
  BY <1>1, <1>2, Concatenated
<1>4. \A i \in 1 .. Len(s) : (a \o b)[i] = s[i]
  BY <1>1, <1>2, Concatenated
<1> QED
  BY <1>1, <1>2, <1>3, <1>4, SeqEqual

LEMMA OneFewer ==
    ASSUME NEW S, NEW s \in Seq(S), s # <<>>
    PROVE  /\ Tail(s) \in Seq(S) /\ Len(Tail(s)) = Len(s) - 1 /\ Head(s) \in S /\ Head(s) = s[1]
           /\ \A n \in DOMAIN Tail(s) : n + 1 \in DOMAIN s /\ Tail(s)[n] = s[n + 1]
           /\ DOMAIN s = 1 .. Len(s) /\ DOMAIN Tail(s) = 1 .. Len(s) - 1 /\ 1 \in DOMAIN s
           /\ Len(s) \in Nat
  OBVIOUS

LEMMA SourceIs ==
    ASSUME NEW f \in Files, frames \in Nat
    PROVE  /\ SourceOf(f) \in Seq(Payloads) /\ Len(SourceOf(f)) = frames
           /\ \A s \in Seq(Payloads) :
                 Len(s) = frames /\ (\A n \in 1 .. frames : s[n] = <<f, n - 1>>) => s = SourceOf(f)
           /\ \A n \in 1 .. frames : SourceOf(f)[n] = <<f, n - 1>>
<1>1. SourceOf(f) \in Seq(Payloads) /\ Len(SourceOf(f)) = frames
      /\ \A n \in 1 .. frames : SourceOf(f)[n] = <<f, n - 1>>
  <2>1. \A n \in 1 .. frames : <<f, n - 1>> \in Payloads
    BY DEF Payloads
  <2> QED
    BY <2>1 DEF SourceOf
<1> QED
  BY <1>1, SeqEqual

LEMMA FileFacts ==
    /\ \A f \in FileOrNone : f \in Nat /\ (f # None => f \in Files)
    /\ None \in FileOrNone /\ None = 0 /\ None \notin Files
    /\ Files \subseteq FileOrNone /\ Files \subseteq Nat \ {0}
  BY SingleFileAssumption DEF FileOrNone, Files, None

LEMMA PayloadFacts ==
    ASSUME frames \in Nat
    PROVE  /\ \A e \in Payloads : e[1] \in Files /\ e[1] \in Nat /\ e[1] >= 1
                                 /\ e[2] \in Nat /\ e[2] < frames /\ e = <<e[1], e[2]>>
           /\ \A f \in Files, n \in Nat : n < frames => <<f, n>> \in Payloads
  BY SingleFileAssumption DEF Payloads, Files

LEMMA AbortedIs ==
    ASSUME NEW dest \in [Files -> File], NEW f \in FileOrNone
    PROVE  /\ Aborted(dest, f) \in [Files -> File]
           /\ \A g \in Files : Aborted(dest, f)[g] = dest[g] \/
                                 (g = f /\ dest[g].state = "open"
                                         /\ Aborted(dest, f)[g].state = "aborted")
           /\ f \in Files => Aborted(dest, f)[f].state # "open"
<1>1. \A g \in Files : dest[g] \in File /\ [dest[g] EXCEPT !.state = "aborted"] \in File
                      /\ [dest[g] EXCEPT !.state = "aborted"].state = "aborted"
  BY DEF File
<1>2. CASE f # None /\ dest[f].state = "open"
  BY <1>1, <1>2, FileFacts DEF Aborted
<1>3. CASE ~(f # None /\ dest[f].state = "open")
  BY <1>3, FileFacts DEF Aborted
<1> QED
  BY <1>2, <1>3

-----------------------------------------------------------------------------
(* A step of the receiver, up to x.                                          *)

Step ==
    [r : Receiver, out : Seq(ToSender), drain : Drain, closing : SUBSET Closing,
     files : [Files -> File]]

OutOK(x) ==
    \A n \in DOMAIN x.out :
        /\ x.out[n].type # "ACCEPT" /\ x.out[n].id <= receiver.id
        /\ x.out[n].type = "VERIFY_OK" /\ x.out[n].id = sender.id => Whole(x.files, sender.id)

Side(x, v) ==
    /\ x \in Step /\ v \in Drain
    /\ x.r.id = receiver.id /\ x.r.destination \in {receiver.destination, receiver.id}
    /\ CommonOK(x, v)
    /\ OutOK(x)
    /\ \A f \in Files : Whole(files, f) => Whole(x.files, f)

Heard(finish) == Begun /\ FinishOK(finish.bytes, finish.sha256)

QuietSide(x, v, d) ==
    /\ QuietOK(x)
    /\ FifoOK(x, v, d)
    /\ x.r.destination = receiver.destination
    /\ sender.id # None /\ receiver.id = sender.id /\ x.r.finish # NoFinish => Heard(x.r.finish)
    /\ \A n \in DOMAIN x.out : x.out[n].type \notin {"PAUSE", "RESUME", "CANCEL"}

LEMMA StepFields ==
    ASSUME NEW x \in Step, Types
    PROVE  /\ x.r \in Receiver /\ x.out \in Seq(ToSender) /\ x.drain \in Drain
           /\ x.closing \in SUBSET Closing /\ x.files \in [Files -> File]
           /\ x.r.id \in FileOrNone /\ x.r.destination \in FileOrNone
           /\ x.r.id \in Nat /\ x.r.destination \in Nat
           /\ x.r.hash \in Seq(Payloads) /\ x.r.queue \in Seq(Payloads)
           /\ x.r.expected \in Nat /\ x.r.transferred \in Nat /\ x.r.inFlight \in Nat
           /\ x.r.cancelled \in BOOLEAN /\ x.r.paused \in BOOLEAN /\ x.r.aborting \in BOOLEAN
           /\ x.r.state \in States /\ x.r.before \in {"IDLE", "SENDING", "RECEIVING"}
           /\ x.r.finish \in [bytes : Int, sha256 : Seq(Payloads)]
           /\ frames \in Nat /\ sender.id \in FileOrNone /\ sender.id \in Nat
           /\ receiver.id \in FileOrNone
<1>1. /\ x.r \in Receiver /\ x.out \in Seq(ToSender) /\ x.drain \in Drain
      /\ x.closing \in SUBSET Closing /\ x.files \in [Files -> File]
  BY DEF Step
<1>2. sender \in Sender /\ receiver \in Receiver /\ frames \in Nat
  BY DEF Types
<1> QED
  BY <1>1, <1>2, FileFacts DEF Receiver, Sender

LEMMA TakenIs ==
    ASSUME Types, NEW x \in Step, NEW v \in Drain
    PROVE  /\ Taken(x, v) \in Seq(Payloads) /\ InWriting(v) \in Seq(Payloads)
           /\ Len(Taken(x, v)) = Len(x.r.hash) + Len(InWriting(v)) + Len(x.r.queue)
           /\ Len(x.r.hash) \in Nat /\ Len(InWriting(v)) \in Nat /\ Len(x.r.queue) \in Nat
           /\ Len(Taken(x, v)) \in Nat /\ Before(x, v) \in Int
           /\ DOMAIN Taken(x, v) = 1 .. Len(Taken(x, v))
           /\ \A n \in 1 .. Len(x.r.hash) : Taken(x, v)[n] = x.r.hash[n]
           /\ \A n \in 1 .. Len(InWriting(v)) :
                 Taken(x, v)[Len(x.r.hash) + n] = InWriting(v)[n]
           /\ \A n \in 1 .. Len(x.r.queue) :
                 Taken(x, v)[Len(x.r.hash) + Len(InWriting(v)) + n] = x.r.queue[n]
<1>1. InWriting(v) \in Seq(Payloads)
  BY DEF InWriting, Drain
<1>2. x.r.hash \in Seq(Payloads) /\ x.r.queue \in Seq(Payloads) /\ x.r.expected \in Nat
  BY StepFields
<1>3. PICK h \in Seq(Payloads), w \in Seq(Payloads), q \in Seq(Payloads) :
         h = x.r.hash /\ w = InWriting(v) /\ q = x.r.queue
  BY <1>1, <1>2
<1>4. PICK t : t = h \o w \o q
  OBVIOUS
<1>5. Taken(x, v) = t
  BY <1>3, <1>4 DEF Taken
<1>6. /\ t \in Seq(Payloads) /\ Len(t) = Len(h) + Len(w) + Len(q)
      /\ DOMAIN t = 1 .. Len(t)
      /\ Len(h) \in Nat /\ Len(w) \in Nat /\ Len(q) \in Nat
      /\ \A n \in 1 .. Len(h) : t[n] = h[n]
      /\ \A n \in 1 .. Len(w) : t[Len(h) + n] = w[n]
      /\ \A n \in 1 .. Len(q) : t[Len(h) + Len(w) + n] = q[n]
  <2>1. h \in Seq(Payloads) /\ w \in Seq(Payloads) /\ q \in Seq(Payloads)
    BY <1>3
  <2> QED
    BY <1>4, <2>1, ThreeParts
<1>7. Len(t) \in Nat
  BY <1>6
<1>8. Before(x, v) = Len(t) - x.r.expected
  BY <1>5 DEF Before
<1>9. Before(x, v) \in Int
  BY <1>2, <1>7, <1>8
<1> QED
  BY <1>1, <1>3, <1>5, <1>6, <1>7, <1>9

\* Whoever is cancelled gives its file up.
LEMMA StopsSide ==
    ASSUME Types, NEW x, NEW v, Side(x, v), NEW y \in Step,
           y.r.id = x.r.id, y.r.destination = x.r.destination, y.r.hash = x.r.hash,
           y.r.transferred = x.r.transferred, y.r.expected = x.r.expected,
           y.r.queue = <<>>, y.r.inFlight = 0, y.r.cancelled, y.r.before = x.r.before,
           y.r.state \in {x.r.state, "FAILED", "CANCELLED"},
           y.r.aborting => x.r.aborting \/ x.r.id # None,
           y.files = Aborted(x.files, x.r.destination), y.closing = x.closing,
           OutOK(y)
    PROVE  Side(y, v) /\ \A f \in Files : Whole(x.files, f) => Whole(y.files, f)
<1>1. x \in Step /\ v \in Drain /\ CommonOK(x, v)
  BY DEF Side
<1>2. /\ \A g \in Files : y.files[g] = x.files[g] \/
            (g = x.r.destination /\ x.files[g].state = "open" /\ y.files[g].state = "aborted")
      /\ x.r.destination \in Files => y.files[x.r.destination].state # "open"
  <2>1. x.files \in [Files -> File] /\ x.r.destination \in FileOrNone
    BY <1>1, StepFields
  <2> QED
    BY <2>1, AbortedIs
<1>3. \A f \in Files : Whole(x.files, f) => Whole(y.files, f)
  BY <1>2 DEF Whole
<1>4. Accepted(y) <=> Accepted(x)
  BY DEF Accepted
<1>5. OrderOK(y, v)
  <2>1. OrderOK(x, v)
    BY <1>1 DEF CommonOK
  <2>2. CanReceiveData(y.r) => CanReceiveData(x.r)
    BY DEF CanReceiveData
  <2>3. \A f \in Files : f > x.r.destination => x.files[f] = [state |-> "none", contents |-> <<>>]
    BY <2>1 DEF OrderOK
  <2>4. \A f \in Files : f > x.r.destination => f # x.r.destination
    BY <1>1, StepFields, FileFacts
  <2>5. \A f \in Files : f > y.r.destination => y.files[f] = [state |-> "none", contents |-> <<>>]
    BY <1>2, <2>3, <2>4
  <2> QED
    BY <1>4, <2>1, <2>2, <2>5 DEF OrderOK
<1>6. TakenOK(y, v)
  BY DEF TakenOK
<1>7. ContentsOK(y, v)
  <2>1. Accepted(y) => y.files[y.r.id].state # "open"
    BY <1>1, <1>2, StepFields, FileFacts DEF Accepted
  <2> QED
    BY <2>1 DEF ContentsOK
<1>8. CloseOK(y)
  <2>1. CloseOK(x)
    BY <1>1 DEF CommonOK
  <2>2. \A c \in x.closing : c.of \in Files /\ c.id \in Files
    BY <1>1, StepFields DEF Closing
  <2>3. \A c \in x.closing : y.files[c.of] = x.files[c.of]
    BY <1>2, <2>1, <2>2 DEF CloseOK
  <2>4. y.r.state = "COMPLETED" /\ y.r.id = 1 => Whole(y.files, 1)
    <3>1. x.r.id = 1 => 1 \in Files
      BY <1>1, StepFields, FileFacts
    <3> QED
      BY <1>3, <2>1, <3>1 DEF CloseOK
  <2> QED
    BY <2>1, <2>2, <2>3, <2>4 DEF CloseOK
<1>9. \A f \in Files : Whole(files, f) => Whole(y.files, f)
  BY <1>3 DEF Side
<1> QED
  BY <1>1, <1>3, <1>5, <1>6, <1>7, <1>8, <1>9 DEF Side, CommonOK

LEMMA StopsQuietly ==
    ASSUME Types, NEW x, NEW v, NEW d, Side(x, v), QuietSide(x, v, d), NEW y \in Step,
           y.r.id = x.r.id, y.r.destination = x.r.destination, y.r.cancelled,
           y.r.paused = x.r.paused, y.r.aborting = x.r.aborting, y.r.finish = x.r.finish,
           y.r.state # "READY", y.files = Aborted(x.files, x.r.destination),
           \A n \in DOMAIN y.out : y.out[n].type \notin {"PAUSE", "RESUME", "CANCEL"}
    PROVE  QuietSide(y, v, d)
<1>1. x \in Step /\ x.r.id = receiver.id
  BY DEF Side
<1>2. QuietOK(y)
  <2>1. x.files \in [Files -> File] /\ x.r.destination \in FileOrNone
    BY <1>1, StepFields
  <2>2. x.r.destination \in Files => y.files[x.r.destination].state # "open"
    BY <2>1, AbortedIs
  <2>3. Accepted(y) => y.files[y.r.id].state # "open"
    BY <2>1, <2>2, FileFacts DEF Accepted
  <2> QED
    BY <2>3 DEF QuietOK, QuietSide
<1>3. FifoOK(y, v, d)
  <2>1. CASE y.r.id = sender.id
    BY <2>1 DEF FifoOK
  <2>2. CASE y.r.id # sender.id
    BY <2>2 DEF FifoOK, QuietSide
  <2> QED
    BY <2>1, <2>2
<1> QED
  BY <1>2, <1>3 DEF QuietSide

LEMMA EmptiedIs ==
    ASSUME NEW r \in Receiver, NEW state \in States
    PROVE  LET e == [r EXCEPT !.cancelled = TRUE, !.queue = <<>>, !.inFlight = 0, !.state = state]
           IN  e \in Receiver /\ [Emptied(r) EXCEPT !.state = state] = e
<1>1. <<>> \in Seq(Payloads) /\ 0 \in Nat /\ TRUE \in BOOLEAN
  OBVIOUS
<1>2. [r EXCEPT !.cancelled = TRUE, !.queue = <<>>, !.inFlight = 0, !.state = state] \in Receiver
  BY <1>1 DEF Receiver
<1>3. [Emptied(r) EXCEPT !.state = state] =
      [r EXCEPT !.cancelled = TRUE, !.queue = <<>>, !.inFlight = 0, !.state = state]
  BY DEF Emptied, Receiver
<1> QED
  BY <1>2, <1>3

LEMMA FailsIs ==
    ASSUME Types, NEW x \in Step, x.r.id \in FileOrNone
    PROVE  /\ ReceiverFails(x) \in Step
           /\ ReceiverFails(x).drain = x.drain /\ ReceiverFails(x).closing = x.closing
           /\ \/ x.r.state \in {"FAILED", "CANCELLED"} /\ ReceiverFails(x) = x
              \/ /\ ReceiverFails(x).r =
                       [x.r EXCEPT !.cancelled = TRUE, !.queue = <<>>, !.inFlight = 0,
                                   !.state = "FAILED"]
                 /\ ReceiverFails(x).files = Aborted(x.files, x.r.destination)
                 /\ ReceiverFails(x).out = Append(x.out, [type |-> "FAIL", id |-> x.r.id])
<1>1. CASE x.r.state \in {"FAILED", "CANCELLED"}
  BY <1>1 DEF ReceiverFails
<1>2. CASE x.r.state \notin {"FAILED", "CANCELLED"}
  <2>1. /\ x.r \in Receiver /\ x.out \in Seq(ToSender) /\ x.files \in [Files -> File]
        /\ x.r.destination \in FileOrNone
    BY StepFields
  <2>2. PICK r \in Receiver :
           /\ r = [x.r EXCEPT !.cancelled = TRUE, !.queue = <<>>, !.inFlight = 0,
                               !.state = "FAILED"]
           /\ r = [Emptied(x.r) EXCEPT !.state = "FAILED"]
    BY <2>1, EmptiedIs DEF States
  <2>3. PICK m \in ToSender : m = [type |-> "FAIL", id |-> x.r.id]
    BY DEF ToSender, Signals
  <2>4. PICK out \in Seq(ToSender) : out = Append(x.out, m)
    <3>1. Append(x.out, m) \in Seq(ToSender)
      BY <2>1, Appended
    <3> QED
      BY <3>1
  <2>5. PICK dest \in [Files -> File] : dest = Aborted(x.files, x.r.destination)
    BY <2>1, AbortedIs
  <2>6. PICK y : y = ReceiverFails(x)
    OBVIOUS
  <2>7. y = [x EXCEPT !.r = r, !.files = dest, !.out = out]
    BY <1>2, <2>2, <2>3, <2>4, <2>5, <2>6 DEF ReceiverFails, Step
  <2>8. /\ y \in Step /\ y.r = r /\ y.files = dest /\ y.out = out
        /\ y.drain = x.drain /\ y.closing = x.closing
    BY <2>7 DEF Step
  <2> QED
    BY <2>2, <2>3, <2>4, <2>5, <2>6, <2>8
<1> QED
  BY <1>1, <1>2

LEMMA OutGrows ==
    ASSUME NEW x \in Step, NEW y \in Step, NEW m \in ToSender, OutOK(x), y.out = Append(x.out, m),
           \A f \in Files : Whole(x.files, f) => Whole(y.files, f), sender.id \in FileOrNone,
           m.type # "ACCEPT", m.id <= receiver.id,
           m.type = "VERIFY_OK" /\ m.id = sender.id => Whole(y.files, sender.id)
    PROVE  OutOK(y)
<1>1. x.out \in Seq(ToSender)
  BY DEF Step
<1>2. \A n \in DOMAIN y.out : y.out[n] = m \/ (n \in DOMAIN x.out /\ y.out[n] = x.out[n])
  BY <1>1, Appended
<1>3. \A n \in DOMAIN x.out : x.out[n] \in ToSender
  BY <1>1
<1>4. \A n \in DOMAIN x.out : x.out[n].type = "VERIFY_OK" => x.out[n].id \in Files
  BY <1>3 DEF ToSender, Signals
<1> QED
  BY <1>2, <1>4 DEF OutOK

LEMMA FailsSide ==
    ASSUME Types, NEW x, NEW v, Side(x, v)
    PROVE  /\ Side(ReceiverFails(x), v) /\ ReceiverFails(x).drain = x.drain
           /\ ReceiverFails(x).closing = x.closing
           /\ ReceiverFails(x).r.cancelled
           /\ \A f \in Files : Whole(x.files, f) => Whole(ReceiverFails(x).files, f)
           /\ \A d : QuietSide(x, v, d) => QuietSide(ReceiverFails(x), v, d)
<1>1. x \in Step /\ x.r.id = receiver.id /\ x.r.id \in FileOrNone /\ x.r \in Receiver
      /\ OutOK(x) /\ x.r.id \in Nat /\ sender.id \in FileOrNone /\ OrderOK(x, v)
      /\ x.out \in Seq(ToSender) /\ x.files \in [Files -> File] /\ x.r.destination \in FileOrNone
  BY StepFields DEF Side, CommonOK
<1>2. CASE x.r.state \in {"FAILED", "CANCELLED"} /\ ReceiverFails(x) = x
  BY <1>1, <1>2 DEF OrderOK
<1>3. CASE /\ ReceiverFails(x).r =
                 [x.r EXCEPT !.cancelled = TRUE, !.queue = <<>>, !.inFlight = 0,
                             !.state = "FAILED"]
           /\ ReceiverFails(x).files = Aborted(x.files, x.r.destination)
           /\ ReceiverFails(x).out = Append(x.out, [type |-> "FAIL", id |-> x.r.id])
  <2>1. PICK y \in Step : y = ReceiverFails(x)
    BY <1>1, FailsIs
  <2>2. y.drain = x.drain /\ y.closing = x.closing
    BY <1>1, <2>1, FailsIs
  <2>3. /\ y.r.id = x.r.id /\ y.r.destination = x.r.destination /\ y.r.hash = x.r.hash
        /\ y.r.transferred = x.r.transferred /\ y.r.expected = x.r.expected
        /\ y.r.queue = <<>> /\ y.r.inFlight = 0 /\ y.r.cancelled /\ y.r.before = x.r.before
        /\ y.r.state = "FAILED" /\ y.r.paused = x.r.paused /\ y.r.aborting = x.r.aborting
        /\ y.r.finish = x.r.finish
    BY <1>1, <1>3, <2>1 DEF Receiver
  <2>4. y.files = Aborted(x.files, x.r.destination)
    BY <1>3, <2>1
  <2>5. PICK m \in ToSender : m = [type |-> "FAIL", id |-> x.r.id]
    BY <1>1 DEF ToSender, Signals
  <2>6. y.out = Append(x.out, m) /\ m.type = "FAIL" /\ m.id = x.r.id
    BY <1>3, <2>1, <2>5
  <2>7. \A f \in Files : Whole(x.files, f) => Whole(y.files, f)
    BY <1>1, <2>4, AbortedIs DEF Whole
  <2>8. OutOK(y)
    BY <1>1, <2>6, <2>7, OutGrows, FileFacts
  <2>9. Side(y, v)
    BY <2>2, <2>3, <2>4, <2>8, StopsSide
  <2>10. ASSUME NEW d, QuietSide(x, v, d)
         PROVE  QuietSide(y, v, d)
    <3>1. \A n \in DOMAIN y.out : y.out[n] = m \/ (n \in DOMAIN x.out /\ y.out[n] = x.out[n])
      BY <1>1, <2>6, Appended
    <3>2. \A n \in DOMAIN y.out : y.out[n].type \notin {"PAUSE", "RESUME", "CANCEL"}
      BY <2>6, <2>10, <3>1 DEF QuietSide
    <3> QED
      BY <2>3, <2>4, <2>10, <3>2, StopsQuietly
  <2> QED
    BY <2>1, <2>2, <2>3, <2>7, <2>9, <2>10
<1> QED
  BY <1>1, <1>2, <1>3, FailsIs

\* What of a step counts, and what of a drain.
LEMMA SameSide ==
    ASSUME NEW x, NEW v, Side(x, v), NEW y \in Step, NEW w \in Drain,
           y.r = x.r, y.files = x.files, y.closing = x.closing, OutOK(y),
           w = v \/ (~ Writing(v) /\ ~ Writing(w))
    PROVE  /\ Side(y, w)
           /\ \A d : QuietSide(x, v, d)
                     /\ (\A n \in DOMAIN y.out : y.out[n].type \notin {"PAUSE", "RESUME", "CANCEL"})
                        => QuietSide(y, w, d)
<1>1. InWriting(w) = InWriting(v) /\ (Writing(w) => w = v) /\ (Writing(v) <=> Writing(w))
  BY DEF InWriting
<1>2. Taken(y, w) = Taken(x, v) /\ Before(y, w) = Before(x, v) /\ (Accepted(y) <=> Accepted(x))
  BY <1>1 DEF Taken, Before, Accepted
<1>3. OrderOK(y, w)
  BY <1>1, <1>2 DEF Side, CommonOK, OrderOK
<1>4. TakenOK(y, w)
  BY <1>1, <1>2 DEF Side, CommonOK, TakenOK
<1>5. ContentsOK(y, w)
  BY <1>1, <1>2 DEF Side, CommonOK, ContentsOK
<1>6. CloseOK(y)
  BY DEF Side, CommonOK, CloseOK
<1>7. Side(y, w)
  BY <1>3, <1>4, <1>5, <1>6 DEF Side, CommonOK
<1>8. ASSUME NEW d, QuietSide(x, v, d),
             \A n \in DOMAIN y.out : y.out[n].type \notin {"PAUSE", "RESUME", "CANCEL"}
      PROVE  QuietSide(y, w, d)
  <2>1. QuietOK(y)
    BY <1>2, <1>8 DEF QuietSide, QuietOK
  <2>2. FifoOK(y, w, d)
    BY <1>2, <1>8 DEF QuietSide, FifoOK
  <2> QED
    BY <1>8, <2>1, <2>2 DEF QuietSide
<1> QED
  BY <1>7, <1>8

Reports == {"FLOW", "VERIFY_OK", "FAIL"}

LEMMA SaysSide ==
    ASSUME Types, NEW x, NEW v, Side(x, v), NEW m \in ToSender,
           m.type # "ACCEPT", m.id <= receiver.id,
           m.type = "VERIFY_OK" /\ m.id = sender.id => Whole(x.files, sender.id)
    PROVE  /\ Side(ReceiverSays(x, m), v) /\ ReceiverSays(x, m).drain = x.drain
           /\ ReceiverSays(x, m).closing = x.closing
           /\ \A f \in Files : Whole(x.files, f) => Whole(ReceiverSays(x, m).files, f)
           /\ \A d : QuietSide(x, v, d) /\ m.type \in Reports =>
                        QuietSide(ReceiverSays(x, m), v, d)
<1>1. CASE ~connected
  <2>1. ReceiverSays(x, m) = ReceiverFails(x)
    BY <1>1 DEF ReceiverSays
  <2> QED
    BY <2>1, FailsSide
<1>2. CASE connected
  <2>1. x \in Step /\ v \in Drain /\ OutOK(x) /\ x.out \in Seq(ToSender)
        /\ sender.id \in FileOrNone
    BY StepFields DEF Side
  <2>2. PICK out \in Seq(ToSender) : out = Append(x.out, m)
    <3>1. Append(x.out, m) \in Seq(ToSender)
      BY <2>1, Appended
    <3> QED
      BY <3>1
  <2>3. PICK y : y = ReceiverSays(x, m)
    OBVIOUS
  <2>4. y = [x EXCEPT !.out = out]
    BY <1>2, <2>2, <2>3 DEF ReceiverSays
  <2>5. y \in Step /\ y.out = out /\ y.r = x.r /\ y.files = x.files /\ y.closing = x.closing
        /\ y.drain = x.drain
    BY <2>1, <2>4 DEF Step
  <2>6. OutOK(y)
    <3>1. \A f \in Files : Whole(x.files, f) => Whole(y.files, f)
      BY <2>5
    <3> QED
      BY <2>1, <2>2, <2>5, <3>1, OutGrows
  <2>7. \A n \in DOMAIN y.out : y.out[n] = m \/ (n \in DOMAIN x.out /\ y.out[n] = x.out[n])
    BY <2>1, <2>2, <2>5, Appended
  <2>8. Side(y, v)
    BY <2>1, <2>5, <2>6, SameSide
  <2>9. ASSUME NEW d, QuietSide(x, v, d), m.type \in Reports
        PROVE  QuietSide(y, v, d)
    <3>1. \A n \in DOMAIN y.out : y.out[n].type \notin {"PAUSE", "RESUME", "CANCEL"}
      BY <2>7, <2>9 DEF QuietSide, Reports
    <3> QED
      BY <2>1, <2>5, <2>6, <2>9, <3>1, SameSide
  <2> QED
    BY <2>3, <2>5, <2>8, <2>9
<1> QED
  BY <1>1, <1>2

LEMMA IdleIs == Idle \in Drain /\ ~ Writing(Idle) /\ Idle.pc = "idle" /\ InWriting(Idle) = <<>>
  BY FileFacts DEF Idle, Drain, Writing, InWriting

\* A receiver that is cancelled forgets what is being written.
LEMMA ForgetsSide ==
    ASSUME Types, NEW x, NEW v, Side(x, v), x.r.cancelled
    PROVE  /\ Side(x, Idle)
           /\ \A d : QuietSide(x, v, d) => QuietSide(x, Idle, d)
<1>1. OrderOK(x, Idle)
  BY IdleIs DEF Side, CommonOK, OrderOK
<1>2. TakenOK(x, Idle)
  BY DEF TakenOK
<1>3. ContentsOK(x, Idle)
  BY IdleIs DEF Side, CommonOK, ContentsOK
<1>4. Side(x, Idle)
  BY <1>1, <1>2, <1>3, IdleIs DEF Side, CommonOK
<1>5. ASSUME NEW d, QuietSide(x, v, d)
      PROVE  FifoOK(x, Idle, d)
  BY <1>5 DEF FifoOK, QuietSide
<1> QED
  BY <1>4, <1>5 DEF QuietSide

-----------------------------------------------------------------------------
(* drainWriteQueue.                                                          *)

LEMMA TakesBatch ==
    ASSUME Types, NEW x, Side(x, Idle), x.r.queue # <<>>, ~ x.r.cancelled
    PROVE  \E n \in 1 .. Len(x.r.queue) :
              LET y == Drains(x)
              IN  /\ y \in Step /\ y.out = x.out /\ y.files = x.files /\ y.closing = x.closing
                  /\ y.drain = [pc |-> "writing", batch |-> SubSeq(x.r.queue, 1, n),
                                destination |-> x.r.destination]
                  /\ y.r = [x.r EXCEPT !.queue = SubSeq(x.r.queue, n + 1, Len(x.r.queue)),
                                       !.inFlight = n]
                  /\ y.drain \in Drain
<1>1. x \in Step /\ x.r \in Receiver /\ x.r.queue \in Seq(Payloads) /\ x.r.destination \in FileOrNone
  BY StepFields DEF Side
<1>2. PICK n : n = IF Len(x.r.queue) < Batch THEN Len(x.r.queue) ELSE Batch
  OBVIOUS
<1>3. Len(x.r.queue) \in Nat /\ Len(x.r.queue) >= 1
  BY <1>1
<1>4. Batch \in Nat /\ Batch >= 1
  BY SingleFileAssumption
<1>5. n \in 1 .. Len(x.r.queue) /\ n \in Nat
  BY <1>2, <1>3, <1>4
<1>6. PICK batch \in Seq(Payloads), rest \in Seq(Payloads) :
         batch = SubSeq(x.r.queue, 1, n) /\ rest = SubSeq(x.r.queue, n + 1, Len(x.r.queue))
  BY <1>1, <1>5, CutApart
<1>7. PICK w \in Drain :
         w = [pc |-> "writing", batch |-> batch, destination |-> x.r.destination]
  BY <1>1 DEF Drain
<1>8. PICK r \in Receiver : r = [x.r EXCEPT !.queue = rest, !.inFlight = n]
  BY <1>1, <1>5 DEF Receiver
<1>9. PICK y : y = Drains(x)
  OBVIOUS
<1>10. Drains(x) = [x EXCEPT !.drain = w, !.r.queue = rest, !.r.inFlight = n]
  BY <1>2, <1>6, <1>7 DEF Drains
<1>11. [x EXCEPT !.drain = w, !.r.queue = rest, !.r.inFlight = n] = [x EXCEPT !.drain = w, !.r = r]
  BY <1>1, <1>8 DEF Step, Receiver
<1>12. y = [x EXCEPT !.drain = w, !.r = r]
  BY <1>9, <1>10, <1>11
<1>13. y \in Step /\ y.out = x.out /\ y.files = x.files /\ y.closing = x.closing
       /\ y.drain = w /\ y.r = r
  BY <1>1, <1>12 DEF Step
<1> QED
  BY <1>5, <1>6, <1>7, <1>8, <1>9, <1>13

LEMMA DrainsSide ==
    ASSUME Types, NEW x, Side(x, Idle)
    PROVE  /\ Side(Drains(x), Drains(x).drain)
           /\ Drains(x).closing = x.closing /\ Drains(x).files = x.files
           /\ \A d : QuietSide(x, Idle, d) => QuietSide(Drains(x), Drains(x).drain, d)
<1>1. x \in Step /\ x.r \in Receiver /\ OutOK(x) /\ x.r.queue \in Seq(Payloads)
      /\ x.r.hash \in Seq(Payloads)
  BY StepFields DEF Side
<1>2. CASE x.r.queue = <<>> \/ x.r.cancelled
  <2>1. PICK y : y = Drains(x)
    OBVIOUS
  <2>2. y = [x EXCEPT !.drain = Idle]
    BY <1>2, <2>1 DEF Drains
  <2>3. /\ y \in Step /\ y.r = x.r /\ y.out = x.out /\ y.files = x.files /\ y.closing = x.closing
        /\ y.drain = Idle
    BY <1>1, <2>2, IdleIs DEF Step
  <2>4. OutOK(y)
    BY <1>1, <2>3 DEF OutOK
  <2>5. Side(y, Idle)
    BY <2>3, <2>4, IdleIs, SameSide
  <2>6. ASSUME NEW d, QuietSide(x, Idle, d)
        PROVE  QuietSide(y, Idle, d)
    <3>1. \A n \in DOMAIN y.out : y.out[n].type \notin {"PAUSE", "RESUME", "CANCEL"}
      BY <2>3, <2>6 DEF QuietSide
    <3> QED
      BY <2>3, <2>4, <2>6, <3>1, IdleIs, SameSide
  <2> QED
    BY <2>1, <2>3, <2>5, <2>6
<1>3. CASE x.r.queue # <<>> /\ ~ x.r.cancelled
  <2>1. PICK n \in 1 .. Len(x.r.queue), y \in Step :
           /\ y = Drains(x)
           /\ y.out = x.out /\ y.files = x.files /\ y.closing = x.closing
           /\ y.drain = [pc |-> "writing", batch |-> SubSeq(x.r.queue, 1, n),
                         destination |-> x.r.destination]
           /\ y.r = [x.r EXCEPT !.queue = SubSeq(x.r.queue, n + 1, Len(x.r.queue)),
                                !.inFlight = n]
           /\ y.drain \in Drain
    BY <1>3, TakesBatch
  <2>2. PICK batch \in Seq(Payloads), rest \in Seq(Payloads) :
           /\ batch = SubSeq(x.r.queue, 1, n) /\ rest = SubSeq(x.r.queue, n + 1, Len(x.r.queue))
           /\ Len(batch) = n /\ batch # <<>> /\ batch \o rest = x.r.queue
           /\ \A i \in DOMAIN batch : i \in DOMAIN x.r.queue /\ batch[i] = x.r.queue[i]
    <3>1. PICK q \in Seq(Payloads) : q = x.r.queue
      BY <1>1
    <3>2. PICK m \in 1 .. Len(q) : m = n
      BY <2>1, <3>1
    <3>3. /\ SubSeq(q, 1, m) \in Seq(Payloads) /\ SubSeq(q, m + 1, Len(q)) \in Seq(Payloads)
          /\ Len(SubSeq(q, 1, m)) = m /\ SubSeq(q, 1, m) # <<>>
          /\ \A i \in DOMAIN SubSeq(q, 1, m) : i \in DOMAIN q /\ SubSeq(q, 1, m)[i] = q[i]
          /\ SubSeq(q, 1, m) \o SubSeq(q, m + 1, Len(q)) = q
      BY CutApart
    <3> QED
      BY <3>1, <3>2, <3>3
  <2>3. /\ y.drain.pc = "writing" /\ y.drain.batch = batch
        /\ y.drain.destination = x.r.destination
        /\ Writing(y.drain) /\ InWriting(y.drain) = batch
    BY <2>1, <2>2 DEF Writing, InWriting
  <2>4. /\ y.r.queue = rest /\ y.r.inFlight = n /\ y.r.id = x.r.id /\ y.r.state = x.r.state
        /\ y.r.transferred = x.r.transferred /\ y.r.cancelled = x.r.cancelled
        /\ y.r.paused = x.r.paused /\ y.r.before = x.r.before /\ y.r.expected = x.r.expected
        /\ y.r.finish = x.r.finish /\ y.r.destination = x.r.destination /\ y.r.hash = x.r.hash
        /\ y.r.aborting = x.r.aborting
    BY <1>1, <2>1, <2>2 DEF Receiver
  <2> DEFINE w == y.drain
  <2>5. w \in Drain /\ w = y.drain
    BY <2>1
  <2> HIDE DEF w
  <2>6. Taken(y, w) = Taken(x, Idle)
    <3>1. PICK h \in Seq(Payloads) : h = x.r.hash
      BY <1>1
    <3>2. Taken(y, w) = (h \o batch) \o rest
      BY <2>3, <2>4, <2>5, <3>1 DEF Taken
    <3>3. Taken(x, Idle) = (h \o <<>>) \o x.r.queue
      BY <3>1, IdleIs DEF Taken
    <3>4. h \o <<>> = h
      BY EmptyConcat
    <3>5. (h \o batch) \o rest = h \o (batch \o rest)
      BY Regrouped
    <3> QED
      BY <2>2, <3>2, <3>3, <3>4, <3>5
  <2>7. Before(y, w) = Before(x, Idle) /\ (Accepted(y) <=> Accepted(x))
    BY <2>4, <2>6 DEF Before, Accepted
  <2>8. Accepted(x) /\ OrderOK(x, Idle) /\ TakenOK(x, Idle) /\ ContentsOK(x, Idle) /\ CloseOK(x)
    BY <1>3 DEF Side, CommonOK, OrderOK
  <2>9. x.r.inFlight = 0 /\ Before(x, Idle) <= Len(x.r.hash) /\ Len(InWriting(Idle)) = 0
    BY <1>3, <2>8, IdleIs DEF TakenOK
  <2>10. OrderOK(y, w)
    <3>1. \A i \in DOMAIN batch : batch[i][1] <= w.destination
      <4> SUFFICES ASSUME NEW i \in DOMAIN batch
                   PROVE  batch[i][1] <= w.destination
        OBVIOUS
      <4>1. i \in 1 .. Len(x.r.queue) /\ batch[i] = x.r.queue[i]
        BY <1>1, <2>2
      <4>2. /\ Taken(x, Idle)[Len(x.r.hash) + i] = x.r.queue[i]
            /\ Len(x.r.hash) + i \in DOMAIN Taken(x, Idle)
            /\ Len(x.r.hash) + i > Before(x, Idle)
        <5>1. \A j \in 1 .. Len(x.r.queue) :
                 Taken(x, Idle)[Len(x.r.hash) + Len(InWriting(Idle)) + j] = x.r.queue[j]
          BY <1>1, IdleIs, TakenIs
        <5>2. /\ Len(x.r.hash) \in Nat /\ Len(x.r.queue) \in Nat
              /\ Len(Taken(x, Idle)) = Len(x.r.hash) + Len(InWriting(Idle)) + Len(x.r.queue)
              /\ DOMAIN Taken(x, Idle) = 1 .. Len(Taken(x, Idle))
              /\ Before(x, Idle) \in Int
          BY <1>1, IdleIs, TakenIs
        <5>3. Taken(x, Idle)[Len(x.r.hash) + i] = x.r.queue[i]
          <6>1. Len(x.r.hash) + Len(InWriting(Idle)) + i = Len(x.r.hash) + i
            BY <2>9, <4>1, <5>2
          <6> QED
            BY <4>1, <5>1, <6>1
        <5>4. Len(x.r.hash) + i \in 1 .. Len(Taken(x, Idle))
          <6>1. PICK h \in Nat, q \in Nat : h = Len(x.r.hash) /\ q = Len(x.r.queue)
            BY <5>2
          <6>2. Len(Taken(x, Idle)) = h + q
            BY <2>9, <5>2, <6>1
          <6>3. i \in 1 .. q /\ i \in Nat
            BY <4>1, <6>1
          <6>4. \A a, b, c \in Nat : c \in 1 .. b => a + c \in 1 .. (a + b)
            OBVIOUS
          <6> QED
            BY <6>1, <6>2, <6>3, <6>4
        <5>5. Len(x.r.hash) + i > Before(x, Idle)
          BY <2>9, <4>1, <5>2
        <5> QED
          BY <5>2, <5>3, <5>4, <5>5
      <4>3. Taken(x, Idle)[Len(x.r.hash) + i][1] <= x.r.id
        <5>1. Before(x, Idle) \in Int /\ Len(x.r.hash) \in Nat
          BY <1>1, IdleIs, TakenIs
        <5>2. ~ (Len(x.r.hash) + i <= Before(x, Idle))
          BY <4>1, <4>2, <5>1
        <5> QED
          BY <1>3, <2>8, <4>2, <5>2 DEF TakenOK
      <4> QED
        BY <2>3, <2>5, <2>8, <4>1, <4>2, <4>3 DEF Accepted
    <3>2. w.destination \in Files /\ w.destination <= y.r.destination
      <4>1. x.r.destination \in FileOrNone /\ x.r.destination # None
        BY <1>1, <2>8, StepFields DEF Accepted
      <4>2. x.r.destination \in Files /\ x.r.destination \in Nat
        BY <4>1, FileFacts
      <4>3. w.destination = x.r.destination /\ y.r.destination = x.r.destination
        BY <2>3, <2>4, <2>5
      <4> QED
        BY <4>2, <4>3
    <3>3. CanReceiveData(y.r) <=> CanReceiveData(x.r)
      BY <2>4 DEF CanReceiveData
    <3> QED
      BY <2>1, <2>2, <2>3, <2>4, <2>5, <2>7, <2>8, <3>1, <3>2, <3>3 DEF OrderOK
  <2>11. TakenOK(y, w)
    BY <2>2, <2>3, <2>4, <2>5, <2>6, <2>7, <2>8, <2>9 DEF TakenOK, Accepted
  <2>12. ContentsOK(y, w)
    BY <1>3, <2>1, <2>4, <2>7, <2>8, SMTT(40) DEF ContentsOK
  <2>13. CloseOK(y)
    BY <2>1, <2>4, <2>8 DEF CloseOK
  <2>14. OutOK(y)
    BY <1>1, <2>1 DEF OutOK
  <2>15. Side(y, w)
    BY <2>1, <2>4, <2>5, <2>10, <2>11, <2>12, <2>13, <2>14 DEF Side, CommonOK
  <2>16. ASSUME NEW d, QuietSide(x, Idle, d)
         PROVE  QuietSide(y, w, d)
    <3>1. QuietOK(y)
      BY <2>1, <2>4, <2>7, <2>16 DEF QuietSide, QuietOK
    <3>2. FifoOK(y, w, d)
      BY <2>4, <2>6, <2>7, <2>16 DEF QuietSide, FifoOK
    <3> QED
      BY <2>1, <2>4, <2>16, <3>1, <3>2 DEF QuietSide
  <2> QED
    BY <2>1, <2>5, <2>15, <2>16
<1> QED
  BY <1>2, <1>3

-----------------------------------------------------------------------------
(* finalizeReceiverIfReady.                                                  *)

\* What may be closed is the file: it is the first one, which nothing precedes, or
\* the one the sender is at.  If it began with what had been written of an earlier
\* one, all that was sent of it has come, in order, and its first frame twice.
LEMMA MatchingIsSource ==
    ASSUME Types, NEW x, NEW v, NEW d, Side(x, v), Quiet => QuietSide(x, v, d),
           sender.id >= 2 => Quiet,
           x.r.id \in {1, sender.id}, x.r.destination # None,
           x.r.finish # NoFinish, x.r.finish.bytes = x.r.transferred, QueueBytes(x.r) = 0,
           Matches(x.r), x.files[x.r.destination].state = "open"
    PROVE  /\ x.r.destination = x.r.id
           /\ x.files[x.r.id].contents = SourceOf(x.r.id)
<1>1. /\ x \in Step /\ v \in Drain /\ x.r.id = receiver.id
      /\ OrderOK(x, v) /\ TakenOK(x, v) /\ ContentsOK(x, v)
  BY DEF Side, CommonOK
<1>2. /\ x.r.id \in Nat /\ x.r.destination \in Nat /\ x.r.id \in FileOrNone
      /\ x.r.destination \in FileOrNone /\ frames \in Nat
      /\ x.r.hash \in Seq(Payloads) /\ x.r.queue \in Seq(Payloads) /\ x.r.inFlight \in Nat
      /\ x.r.transferred \in Nat /\ x.r.expected \in Nat /\ x.files \in [Files -> File]
      /\ sender.id \in Nat
  BY <1>1, StepFields
<1>3. x.r.id \in Files /\ x.r.id >= 1 /\ x.r.id # None
  <2>1. x.r.destination >= 1
    BY <1>2 DEF None
  <2>2. x.r.id >= 1
    BY <1>1, <1>2, <2>1 DEF OrderOK
  <2> QED
    BY <1>2, <2>2, FileFacts
<1>4. x.r.id # 1 => /\ Quiet /\ x.r.id = sender.id /\ receiver.id = sender.id
                    /\ Begun /\ FinishOK(x.r.finish.bytes, x.r.finish.sha256)
                    /\ QuietOK(x) /\ FifoOK(x, v, d)
                    /\ x.r.destination = receiver.destination
  <2>1. ASSUME x.r.id # 1
        PROVE  Quiet /\ x.r.id = sender.id
    BY <1>2, <1>3, <2>1
  <2> QED
    BY <1>1, <1>3, <2>1 DEF QuietSide, Heard
<1>5. x.r.destination = x.r.id /\ Accepted(x)
  <2>1. CASE x.r.id = 1
    BY <1>1, <1>2, <2>1 DEF OrderOK, Accepted, None
  <2>2. CASE x.r.id # 1
    BY <1>1, <1>3, <1>4, <2>2 DEF Begun, Accepted
  <2> QED
    BY <2>1, <2>2
<1>6. PICK contents \in Seq(Payloads) : contents = x.files[x.r.id].contents
  BY <1>2, <1>3 DEF File
<1>7. PICK hash \in Seq(Payloads) : hash = x.r.hash
  BY <1>2
<1>8. /\ x.r.transferred = frames /\ x.r.finish.sha256 = hash
      /\ x.r.queue = <<>> /\ x.r.inFlight = 0
  <2>1. Len(x.r.queue) \in Nat /\ Len(x.r.queue) + x.r.inFlight = 0
    BY <1>2 DEF QueueBytes
  <2>2. Len(x.r.queue) = 0 /\ x.r.inFlight = 0
    BY <1>2, <2>1
  <2> QED
    BY <1>2, <1>7, <2>2 DEF Matches
<1>9. x.r.id = 1 => Len(hash) = frames
  BY <1>1, <1>2, <1>7, <1>8 DEF OrderOK
<1>10. /\ SourceOf(x.r.id) \in Seq(Payloads) /\ Len(SourceOf(x.r.id)) = frames
       /\ \A s \in Seq(Payloads) :
             /\ Len(s) = frames
             /\ \A n \in 1 .. frames : s[n] = <<x.r.id, n - 1>>
             => s = SourceOf(x.r.id)
  BY <1>2, <1>3, SourceIs
<1>11. frames = 0 /\ contents = <<>> => contents = SourceOf(x.r.id)
  BY <1>10
<1>12. CASE x.r.cancelled
  <2>1. hash = <<>> /\ contents = <<>>
    BY <1>1, <1>5, <1>6, <1>7, <1>12 DEF ContentsOK
  <2>2. x.r.id = 1
    BY <1>4, <1>5, <1>12 DEF QuietOK
  <2>3. frames = 0
    BY <1>9, <2>1, <2>2
  <2> QED
    BY <1>5, <1>6, <1>11, <2>1, <2>3
<1>13. CASE ~ x.r.cancelled
  <2>1. PICK b \in Int : b = Before(x, v)
    BY <1>1, TakenIs
  <2>2. /\ b >= 0
        /\ b > 0 => Len(hash) = frames
        /\ \/ Len(contents) = Len(hash) - b
           \/ hash = <<>> /\ contents = <<>>
        /\ \A n \in DOMAIN contents : contents[n] = hash[b + n]
    BY <1>1, <1>5, <1>6, <1>7, <1>8, <1>13, <2>1 DEF TakenOK, ContentsOK
  <2>3. CASE Writing(v) /\ v.destination # x.r.id
    <3>1. hash = <<>> /\ b = Len(v.batch) /\ v.batch # <<>> /\ v.batch \in Seq(Payloads)
      BY <1>1, <1>5, <1>7, <1>13, <2>1, <2>3 DEF TakenOK, OrderOK, Drain
    <3>2. b > 0
      BY <3>1
    <3>3. Len(contents) \in Nat /\ Len(hash) = 0
      BY <3>1
    <3>4. frames = 0 /\ contents = <<>>
      BY <2>2, <3>2, <3>3
    <3> QED
      BY <1>5, <1>6, <1>11, <3>4
  <2>4. CASE ~ (Writing(v) /\ v.destination # x.r.id)
    <3>1. Len(InWriting(v)) = 0 /\ b <= Len(hash)
      BY <1>1, <1>5, <1>7, <1>8, <1>13, <2>1, <2>4 DEF TakenOK
    <3>2. /\ Len(Taken(x, v)) = Len(hash)
          /\ DOMAIN Taken(x, v) = 1 .. Len(hash)
          /\ \A n \in 1 .. Len(hash) : Taken(x, v)[n] = hash[n]
          /\ Len(hash) \in Nat
      <4>1. /\ Len(Taken(x, v)) = Len(x.r.hash) + Len(InWriting(v)) + Len(x.r.queue)
            /\ DOMAIN Taken(x, v) = 1 .. Len(Taken(x, v))
            /\ \A n \in 1 .. Len(x.r.hash) : Taken(x, v)[n] = x.r.hash[n]
            /\ Len(x.r.hash) \in Nat
        BY <1>1, TakenIs
      <4>2. Len(x.r.queue) = 0
        BY <1>8
      <4> QED
        BY <1>7, <3>1, <4>1, <4>2
    <3>3. \A n \in 1 .. Len(hash) :
             /\ hash[n] \in Payloads
             /\ n <= b => hash[n][1] < x.r.id
             /\ n > b => hash[n][1] <= x.r.id /\ hash[n][2] = n - b - 1
      <4>1. \A n \in 1 .. Len(hash) :
               IF n <= b THEN Taken(x, v)[n][1] < x.r.id
               ELSE Taken(x, v)[n][1] <= x.r.id /\ Taken(x, v)[n][2] = n - b - 1
        BY <1>1, <1>5, <1>13, <2>1, <3>2 DEF TakenOK
      <4> QED
        BY <2>1, <3>2, <4>1
    <3>4. \A n \in 1 .. Len(hash) :
             hash[n][1] >= 1 /\ hash[n][1] \in Nat /\ hash[n] = <<hash[n][1], hash[n][2]>>
      BY <1>2, <3>3, PayloadFacts
    <3>5. CASE b = 0
      <4>1. \A n \in 1 .. Len(hash) : hash[n][1] <= x.r.id /\ hash[n][2] = n - 1
        BY <3>3, <3>5
      <4>2. hash = SourceOf(x.r.id)
        <5>1. CASE x.r.id = 1
          <6>1. \A n \in 1 .. Len(hash) : hash[n] = <<x.r.id, n - 1>>
            BY <3>4, <4>1, <5>1
          <6> QED
            BY <1>9, <1>10, <5>1, <6>1
        <5>2. CASE x.r.id # 1
          <6>1. Ascending(hash)
            BY <4>1 DEF Ascending
          <6> QED
            BY <1>4, <1>8, <5>2, <6>1 DEF FinishOK
        <5> QED
          BY <5>1, <5>2
      <4>3. Len(contents) = Len(hash)
        BY <2>2, <3>2, <3>5
      <4>4. \A n \in 1 .. Len(contents) : contents[n] = hash[n]
        BY <2>2, <3>5
      <4>5. contents = hash
        BY <4>3, <4>4, SeqEqual
      <4> QED
        BY <1>5, <1>6, <4>2, <4>5
    <3>6. CASE b # 0
      <4>1. b >= 1 /\ Len(hash) = frames /\ Len(hash) >= 1 /\ b <= Len(hash)
        BY <2>1, <2>2, <3>1, <3>2, <3>6
      <4>2. hash[1][1] < x.r.id /\ hash[1][1] >= 1 /\ hash[1][1] \in Nat
        BY <2>1, <3>2, <3>3, <3>4, <4>1
      <4>3. x.r.id # 1
        BY <4>2
      <4>4. /\ FinishOK(x.r.finish.bytes, hash) /\ Begun /\ receiver.id = sender.id
            /\ FifoOK(x, v, d) /\ x.r.id = sender.id
        BY <1>4, <1>8, <4>3
      <4>5. /\ sender \in Sender /\ sender.sent \in Nat /\ Len(sender.sourceHash) \in Nat
        BY DEF Types, Sender
      <4>6. frames - frames = sender.sent - Len(sender.sourceHash)
        BY <1>8, <4>1, <4>4 DEF FinishOK
      <4>7. sender.sent = Len(sender.sourceHash)
        BY <1>2, <4>5, <4>6
      <4>8. \A n \in 1 .. x.r.expected : Taken(x, v)[b + n] = sender.sourceHash[n]
        BY <1>3, <1>5, <1>13, <2>1, <4>4, <4>7 DEF FifoOK, Unspoilt
      <4>9. PICK n \in DOMAIN hash : hash[n] = <<sender.id, 0>>
        BY <1>2, <4>1, <4>4 DEF FinishOK
      <4>10. n \in 1 .. Len(hash) /\ hash[n][1] = x.r.id /\ hash[n][2] = 0
        BY <4>4, <4>9
      <4>11. n > b /\ n - b - 1 = 0
        BY <1>2, <2>1, <3>2, <3>3, <4>10, SMTT(40)
      <4>12. n = b + 1
        BY <2>1, <3>2, <4>10, <4>11
      <4>13. x.r.expected = Len(hash) - b
        BY <1>2, <2>1, <3>2 DEF Before
      <4>14. 1 \in 1 .. x.r.expected
        BY <2>1, <3>2, <4>10, <4>12, <4>13
      <4>15. Taken(x, v)[b + 1] = sender.sourceHash[1]
        BY <4>8, <4>14
      <4>16. Taken(x, v)[b + 1] = <<sender.id, 0>>
        BY <3>2, <4>9, <4>10, <4>12
      <4>17. hash[1] = sender.sourceHash[1]
        <5>1. 1 \in DOMAIN hash
          BY <4>1
        <5> QED
          BY <4>4, <5>1 DEF FinishOK
      <4>18. hash[1] = <<sender.id, 0>>
        BY <4>15, <4>16, <4>17
      <4>19. hash[1][1] = x.r.id
        BY <4>4, <4>18
      <4> QED
        BY <1>2, <4>2, <4>19
    <3> QED
      BY <3>5, <3>6
  <2> QED
    BY <2>3, <2>4
<1> QED
  BY <1>12, <1>13
Marked(dest, f, s) == [dest EXCEPT ![f].state = s]

LEMMA MarkedIs ==
    ASSUME NEW dest \in [Files -> File], NEW f \in Files,
           NEW s \in {"none", "open", "closing", "closed", "aborted"}
    PROVE  /\ Marked(dest, f, s) \in [Files -> File]
           /\ \A g \in Files : g # f => Marked(dest, f, s)[g] = dest[g]
           /\ Marked(dest, f, s)[f].state = s
           /\ Marked(dest, f, s)[f].contents = dest[f].contents
<1>1. PICK e \in File : e = [dest[f] EXCEPT !.state = s] /\ e.state = s
                         /\ e.contents = dest[f].contents
                         /\ e = [state |-> s, contents |-> dest[f].contents]
  <2>1. PICK were \in File : were = dest[f]
    OBVIOUS
  <2>2. /\ [were EXCEPT !.state = s] \in File
        /\ [were EXCEPT !.state = s] = [state |-> s, contents |-> were.contents]
    BY DEF File
  <2> QED
    BY <2>1, <2>2
<1>2. Marked(dest, f, s) = [dest EXCEPT ![f] = e]
  BY <1>1 DEF Marked
<1> QED
  BY <1>1, <1>2

LEMMA ClosingSide ==
    ASSUME Types, NEW x, NEW v, NEW by \in {"drain", "finish"}, Side(x, v),
           x.r.destination # None, x.files[x.r.destination].state = "open",
           x.r.id \in {1, sender.id} => /\ x.r.destination = x.r.id
                                        /\ x.files[x.r.id].contents = SourceOf(x.r.id),
           NEW y \in Step, y.r = x.r, y.out = x.out, y.drain = x.drain,
           y.closing = x.closing \cup {[id |-> x.r.id, of |-> x.r.destination, by |-> by]},
           \A f \in Files : f # x.r.destination => y.files[f] = x.files[f],
           y.files[x.r.destination].state = "closing",
           y.files[x.r.destination].contents = x.files[x.r.destination].contents
    PROVE  /\ Side(y, v) /\ y.drain = x.drain
           /\ \A d : QuietSide(x, v, d) => QuietSide(y, v, d)
<1>1. /\ x \in Step /\ v \in Drain /\ x.r \in Receiver /\ x.files \in [Files -> File]
      /\ x.closing \in SUBSET Closing /\ x.r.destination \in FileOrNone /\ x.r.id \in FileOrNone
      /\ x.r.id \in Nat /\ x.r.destination \in Nat
      /\ OrderOK(x, v) /\ TakenOK(x, v) /\ ContentsOK(x, v) /\ CloseOK(x) /\ OutOK(x)
      /\ x.out \in Seq(ToSender)
  BY StepFields DEF Side, CommonOK
<1>2. x.r.destination \in Files /\ x.r.destination >= 1 /\ x.r.id >= 1 /\ x.r.id \in Files
  BY <1>1, FileFacts DEF OrderOK
<1>3. PICK c \in Closing : c = [id |-> x.r.id, of |-> x.r.destination, by |-> by]
  BY <1>2 DEF Closing
<1>4. y.closing = x.closing \cup {c}
  BY <1>3
<1>5. c.id = x.r.id /\ c.of = x.r.destination
  BY <1>3
<1>6. OrderOK(y, v)
  <2>1. \A f \in Files : f > y.r.destination => y.files[f] = [state |-> "none", contents |-> <<>>]
    BY <1>1, <1>4, FileFacts DEF OrderOK
  <2>2. Accepted(y) <=> Accepted(x)
    BY <1>4 DEF Accepted
  <2> QED
    BY <1>1, <1>4, <2>1, <2>2 DEF OrderOK
<1>7. TakenOK(y, v)
  BY <1>1, <1>4 DEF TakenOK, Taken, Before, Accepted
<1>8. ContentsOK(y, v)
  BY <1>4 DEF ContentsOK, Accepted
<1>9. \A e \in x.closing : e.of # x.r.destination /\ y.files[e.of] = x.files[e.of]
  BY <1>1, <1>4 DEF CloseOK, Closing
<1>10. \A f \in Files : Whole(x.files, f) => Whole(y.files, f)
  BY <1>4 DEF Whole
<1>11. CloseOK(y)
  <2>1. ASSUME NEW e \in y.closing
        PROVE  /\ y.files[e.of].state = "closing"
               /\ e.id <= y.r.id
               /\ e.id = y.r.id /\ e.id \in {1, sender.id} =>
                     e.of = e.id /\ y.files[e.id].contents = SourceOf(e.id)
    <3>1. CASE e \in x.closing
      BY <1>1, <1>4, <1>9, <3>1 DEF CloseOK
    <3>2. CASE e = c
      BY <1>1, <1>4, <1>5, <3>2
    <3> QED
      BY <1>4, <2>1, <3>1, <3>2
  <2>2. ASSUME NEW e \in y.closing, NEW g \in y.closing, e.of = g.of
        PROVE  e = g
    BY <1>1, <1>4, <1>5, <1>9, <2>2 DEF CloseOK
  <2>3. y.r.state = "COMPLETED" /\ y.r.id = 1 => Whole(y.files, 1)
    BY <1>1, <1>2, <1>4, <1>10 DEF CloseOK
  <2> QED
    BY <2>1, <2>2, <2>3 DEF CloseOK
<1>12. OutOK(y)
  <2>1. \A n \in DOMAIN x.out : x.out[n].type = "VERIFY_OK" => x.out[n].id \in Files
    <3>1. \A n \in DOMAIN x.out : x.out[n] \in ToSender
      BY <1>1
    <3> QED
      BY <3>1 DEF ToSender, Signals
  <2> QED
    BY <1>1, <1>4, <1>10, <2>1 DEF OutOK
<1>13. Side(y, v)
  BY <1>1, <1>4, <1>6, <1>7, <1>8, <1>10, <1>11, <1>12 DEF Side, CommonOK
<1>14. ASSUME NEW d, QuietSide(x, v, d)
       PROVE  QuietSide(y, v, d)
  <2>1. QuietOK(y)
    BY <1>4, <1>14 DEF QuietSide, QuietOK, Accepted
  <2>2. FifoOK(y, v, d)
    BY <1>4, <1>14 DEF QuietSide, FifoOK, Taken, Before, Accepted
  <2> QED
    BY <1>4, <1>14, <2>1, <2>2 DEF QuietSide
<1> QED
  BY <1>4, <1>13, <1>14

LEMMA FinalizesCloses ==
    ASSUME Types, NEW x \in Step, NEW by \in {"drain", "finish"}
    PROVE  \E c : c.by = by /\ Finalizes(x, by).closing \in {x.closing, x.closing \cup {c}}
<1> DEFINE c == [id |-> x.r.id, of |-> x.r.destination, by |-> by]
           y == [x EXCEPT !.closing = @ \cup {c}, !.files[x.r.destination].state = "closing"]
<1>1. c.by = by
  OBVIOUS
<1>2. Finalizes(x, by) \in {x, ReceiverFails(x), y}
  BY DEF Finalizes
<1>3. ReceiverFails(x).closing = x.closing
  BY FailsIs, StepFields
<1>4. y.closing = x.closing \cup {c}
  BY DEF Step
<1> QED
  BY <1>1, <1>2, <1>3, <1>4

LEMMA FinalizesSide ==
    ASSUME Types, NEW x, NEW v, NEW d, NEW by \in {"drain", "finish"}, Side(x, v),
           Quiet => QuietSide(x, v, d), sender.id >= 2 => Quiet
    PROVE  /\ Side(Finalizes(x, by), v) /\ Finalizes(x, by).drain = x.drain
           /\ Quiet => QuietSide(Finalizes(x, by), v, d)
<1> DEFINE y == [x EXCEPT !.closing = @ \cup {[id |-> x.r.id, of |-> x.r.destination,
                                               by |-> by]},
                          !.files[x.r.destination].state = "closing"]
<1>1. CASE Finalizes(x, by) = x
  BY <1>1
<1>2. CASE Finalizes(x, by) = ReceiverFails(x)
  BY <1>2, FailsSide
<1>3. CASE /\ x.r.finish # NoFinish /\ x.r.destination # None
           /\ x.r.finish.bytes = x.r.transferred /\ ~ (QueueBytes(x.r) > 0)
           /\ Matches(x.r) /\ x.files[x.r.destination].state = "open"
           /\ Finalizes(x, by) = y
  <2>1. x \in Step /\ x.r.queue \in Seq(Payloads) /\ x.r.inFlight \in Nat
    BY StepFields DEF Side
  <2>2. Len(x.r.queue) \in Nat /\ QueueBytes(x.r) \in Nat
    BY <2>1 DEF QueueBytes
  <2>3. QueueBytes(x.r) = 0
    BY <1>3, <2>2
  <2>4. x.r.id \in {1, sender.id} => /\ x.r.destination = x.r.id
                                     /\ x.files[x.r.id].contents = SourceOf(x.r.id)
    BY <1>3, <2>3, MatchingIsSource
  <2>5. PICK of \in Files, dest \in [Files -> File] :
           /\ of = x.r.destination
           /\ dest = Marked(x.files, of, "closing")
           /\ \A f \in Files : f # of => dest[f] = x.files[f]
           /\ dest[of].state = "closing" /\ dest[of].contents = x.files[of].contents
    <3>1. PICK of \in Files, were \in [Files -> File] : of = x.r.destination /\ were = x.files
      BY <1>3, <2>1, StepFields, FileFacts
    <3>2. PICK dest : dest = Marked(were, of, "closing")
      OBVIOUS
    <3>3. /\ dest \in [Files -> File]
          /\ \A f \in Files : f # of => dest[f] = were[f]
          /\ dest[of].state = "closing" /\ dest[of].contents = were[of].contents
      BY <3>2, MarkedIs
    <3> QED
      BY <3>1, <3>2, <3>3
  <2>6. PICK c \in Closing : c = [id |-> x.r.id, of |-> of, by |-> by]
    <3>1. x.r.id \in Files
      <4>1. x.r.id \in Nat /\ x.r.destination \in Nat /\ x.r.destination <= x.r.id
        BY <2>1, StepFields DEF Side, CommonOK, OrderOK
      <4> QED
        BY <2>1, <2>5, <4>1, StepFields, FileFacts
    <3> QED
      BY <3>1 DEF Closing
  <2>7. PICK z : z = y
    OBVIOUS
  <2>8. z = [x EXCEPT !.closing = x.closing \cup {c}, !.files = dest]
    BY <2>1, <2>5, <2>6, <2>7 DEF Step, Marked
  <2>9. /\ z \in Step /\ z.r = x.r /\ z.out = x.out /\ z.drain = x.drain
        /\ z.closing = x.closing \cup {c} /\ z.files = dest
    <3>1. x.closing \cup {c} \in SUBSET Closing
      BY <2>1 DEF Step
    <3> QED
      BY <2>1, <2>5, <2>8, <3>1 DEF Step
  <2>10. Side(z, v) /\ z.drain = x.drain /\ (\A e : QuietSide(x, v, e) => QuietSide(z, v, e))
    <3> HIDE DEF y
    <3>1. /\ \A f \in Files : f # x.r.destination => z.files[f] = x.files[f]
          /\ z.files[x.r.destination].state = "closing"
          /\ z.files[x.r.destination].contents = x.files[x.r.destination].contents
          /\ z.closing = x.closing \cup {[id |-> x.r.id, of |-> x.r.destination, by |-> by]}
      BY <2>5, <2>6, <2>9
    <3> QED
      BY <1>3, <2>4, <2>9, <3>1, ClosingSide
  <2> QED
    BY <1>3, <2>7, <2>10
<1> QED
  BY <1>1, <1>2, <1>3 DEF Finalizes
-----------------------------------------------------------------------------
(* The end of a write.                                                       *)

Kept(dest, of, batch) ==
    IF dest[of].state # "open" THEN dest ELSE [dest EXCEPT ![of].contents = @ \o batch]

LEMMA KeptIs ==
    ASSUME NEW dest \in [Files -> File], NEW of \in Files, NEW batch \in Seq(Payloads)
    PROVE  /\ Kept(dest, of, batch) \in [Files -> File]
           /\ \A f \in Files : dest[f].state # "open" \/ f # of => Kept(dest, of, batch)[f] = dest[f]
           /\ \A f \in Files : Kept(dest, of, batch)[f].state = dest[f].state
           /\ dest[of].state = "open" =>
                 Kept(dest, of, batch)[of].contents = dest[of].contents \o batch
<1>1. dest[of] \in File /\ dest[of].contents \in Seq(Payloads)
  BY DEF File
<1>2. PICK c \in Seq(Payloads) : c = dest[of].contents
  BY <1>1
<1>3. PICK cb \in Seq(Payloads) : cb = c \o batch
  BY Concatenated
<1>4. /\ [dest[of] EXCEPT !.contents = cb] \in File
      /\ [dest[of] EXCEPT !.contents = cb].state = dest[of].state
      /\ [dest[of] EXCEPT !.contents = cb].contents = cb
  BY <1>1 DEF File
<1>5. CASE dest[of].state = "open"
  <2>1. Kept(dest, of, batch) = [dest EXCEPT ![of] = [dest[of] EXCEPT !.contents = cb]]
    BY <1>2, <1>3, <1>5 DEF Kept
  <2> QED
    BY <1>2, <1>3, <1>4, <1>5, <2>1
<1>6. CASE dest[of].state # "open"
  BY <1>6 DEF Kept
<1> QED
  BY <1>5, <1>6

LEMMA KeptSide ==
    ASSUME Types, NEW x, NEW v, Side(x, v), NEW of \in Files, of <= x.r.destination,
           NEW batch \in Seq(Payloads), NEW y \in Step,
           y.files = Kept(x.files, of, batch), y.r.id = x.r.id, y.r.state = x.r.state,
           y.r.destination = x.r.destination, y.closing = x.closing, y.out = x.out
    PROVE  /\ \A f \in Files : Whole(x.files, f) => Whole(y.files, f)
           /\ \A f \in Files : f > y.r.destination =>
                 y.files[f] = [state |-> "none", contents |-> <<>>]
           /\ CloseOK(y) /\ OutOK(y)
           /\ \A f \in Files : y.files[f].state = x.files[f].state
           /\ \A f \in Files : f # of => y.files[f] = x.files[f]
<1>1. /\ x \in Step /\ OrderOK(x, v) /\ CloseOK(x) /\ OutOK(x) /\ x.files \in [Files -> File]
      /\ x.r.destination \in Nat /\ of \in Nat /\ x.closing \in SUBSET Closing
      /\ x.out \in Seq(ToSender)
  BY StepFields, FileFacts DEF Side, CommonOK
<1>2. /\ \A f \in Files : x.files[f].state # "open" \/ f # of => y.files[f] = x.files[f]
      /\ \A f \in Files : y.files[f].state = x.files[f].state
  <2>1. PICK dest \in [Files -> File] : dest = x.files
    BY <1>1
  <2>2. PICK kept : kept = Kept(dest, of, batch)
    OBVIOUS
  <2>3. /\ \A f \in Files : dest[f].state # "open" \/ f # of => kept[f] = dest[f]
        /\ \A f \in Files : kept[f].state = dest[f].state
    BY <2>2, KeptIs
  <2> QED
    BY <2>1, <2>2, <2>3
<1>3. \A f \in Files : Whole(x.files, f) => Whole(y.files, f)
  BY <1>2 DEF Whole
<1>4. \A c \in x.closing : c.of \in Files /\ y.files[c.of] = x.files[c.of]
  BY <1>1, <1>2 DEF CloseOK, Closing
<1>5. \A c \in x.closing : c.of = c.id => y.files[c.id] = x.files[c.id]
  BY <1>4
<1>6. x.r.id = 1 /\ x.r.state = "COMPLETED" => 1 \in Files
  <2>1. x.r.id \in FileOrNone
    BY <1>1, StepFields
  <2> QED
    BY <2>1, FileFacts
<1>7. CloseOK(y)
  <2>1. y.r.state = "COMPLETED" /\ y.r.id = 1 => Whole(y.files, 1)
    BY <1>1, <1>3, <1>6 DEF CloseOK
  <2> QED
    BY <1>1, <1>4, <1>5, <2>1 DEF CloseOK
<1>8. OutOK(y)
  <2>1. \A n \in DOMAIN x.out : x.out[n].type = "VERIFY_OK" => x.out[n].id \in Files
    <3>1. \A n \in DOMAIN x.out : x.out[n] \in ToSender
      BY <1>1
    <3> QED
      BY <3>1 DEF ToSender, Signals
  <2> QED
    BY <1>1, <1>3, <2>1 DEF OutOK
<1>9. \A f \in Files : f > y.r.destination => y.files[f] = [state |-> "none", contents |-> <<>>]
  BY <1>1, <1>2, FileFacts DEF OrderOK
<1> QED
  BY <1>2, <1>3, <1>7, <1>8, <1>9

LEMMA CountsSide ==
    ASSUME Types, NEW x, NEW v, Side(x, v), Writing(v), ~ x.r.cancelled, NEW y \in Step,
           y.files = Kept(x.files, v.destination, v.batch),
           y.closing = x.closing, y.out = x.out,
           y.r.id = x.r.id, y.r.state = x.r.state, y.r.transferred = x.r.transferred + Len(v.batch),
           y.r.cancelled = x.r.cancelled, y.r.paused = x.r.paused, y.r.before = x.r.before,
           y.r.expected = x.r.expected, y.r.queue = x.r.queue, y.r.inFlight = 0,
           y.r.finish = x.r.finish, y.r.destination = x.r.destination,
           y.r.hash = x.r.hash \o v.batch, y.r.aborting = x.r.aborting
    PROVE  /\ Side(y, Idle)
           /\ \A d : QuietSide(x, v, d) => QuietSide(y, Idle, d)
<1>1. /\ x \in Step /\ v \in Drain /\ x.r \in Receiver /\ x.files \in [Files -> File]
      /\ x.r.destination \in FileOrNone /\ x.r.id \in FileOrNone
      /\ x.r.id \in Nat /\ x.r.destination \in Nat /\ x.r.transferred \in Nat
      /\ OrderOK(x, v) /\ TakenOK(x, v) /\ ContentsOK(x, v) /\ CloseOK(x) /\ OutOK(x)
      /\ x.out \in Seq(ToSender) /\ x.r.expected \in Nat /\ x.r.inFlight \in Nat
  BY StepFields DEF Side, CommonOK
<1>2. /\ v.batch \in Seq(Payloads) /\ InWriting(v) = v.batch /\ v.destination \in Files
      /\ v.destination <= x.r.destination /\ v.batch # <<>> /\ v.destination \in Nat
  BY <1>1, FileFacts DEF Drain, InWriting, OrderOK
<1>3. PICK h \in Seq(Payloads), b \in Seq(Payloads), q \in Seq(Payloads) :
         h = x.r.hash /\ b = v.batch /\ q = x.r.queue
  BY <1>1, <1>2, StepFields
<1>4. PICK hb \in Seq(Payloads) : hb = h \o b
  BY Concatenated
<1>5. /\ Len(hb) = Len(h) + Len(b) /\ Len(h) \in Nat /\ Len(b) \in Nat /\ Len(b) >= 1
      /\ \A n \in 1 .. Len(h) : hb[n] = h[n]
      /\ \A n \in 1 .. Len(b) : hb[Len(h) + n] = b[n]
  <2>1. Len(b) >= 1
    BY <1>2, <1>3
  <2> QED
    BY <1>4, <2>1, Concatenated
<1>6. y.r.hash = hb
  BY <1>3, <1>4
<1>7. Taken(y, Idle) = Taken(x, v)
  <2>1. Taken(y, Idle) = (hb \o <<>>) \o q
    BY <1>3, <1>6, IdleIs DEF Taken
  <2>2. hb \o <<>> = hb
    BY EmptyConcat
  <2>3. Taken(x, v) = (h \o b) \o q
    BY <1>2, <1>3 DEF Taken
  <2> QED
    BY <1>4, <2>1, <2>2, <2>3
<1>8. Before(y, Idle) = Before(x, v) /\ (Accepted(y) <=> Accepted(x))
  BY <1>7 DEF Before, Accepted
<1>9. PICK before \in Int : before = Before(x, v)
  BY <1>1, TakenIs
<1>10. /\ \A f \in Files : Whole(x.files, f) => Whole(y.files, f)
       /\ \A f \in Files : f > y.r.destination =>
             y.files[f] = [state |-> "none", contents |-> <<>>]
       /\ CloseOK(y) /\ OutOK(y)
       /\ \A f \in Files : y.files[f].state = x.files[f].state
       /\ \A f \in Files : f # v.destination => y.files[f] = x.files[f]
  BY <1>2, KeptSide
<1>11. OrderOK(y, Idle)
  <2>1. CanReceiveData(y.r) <=> CanReceiveData(x.r)
    BY DEF CanReceiveData
  <2>2. y.r.destination # None
    BY <1>1, <1>2, FileFacts
  <2>3. y.r.id <= 1 => y.r.transferred = Len(y.r.hash)
    BY <1>1, <1>3, <1>5, <1>6 DEF OrderOK
  <2> QED
    BY <1>1, <1>8, <1>10, <2>1, <2>2, <2>3, IdleIs DEF OrderOK
<1>12. Accepted(x) =>
          /\ before >= 0
          /\ before > 0 => x.r.transferred = Len(h)
          /\ IF v.destination # x.r.id
             THEN h = <<>> /\ before = Len(b)
             ELSE before <= Len(h)
  BY <1>1, <1>3, <1>9 DEF TakenOK
<1>13. TakenOK(y, Idle)
  <2>1. SUFFICES ASSUME Accepted(x), ~ y.r.cancelled
                 PROVE  TakenOK(y, Idle)
    BY <1>8 DEF TakenOK
  <2>2. before > 0 => y.r.transferred = Len(y.r.hash)
    BY <1>1, <1>3, <1>5, <1>6, <1>12, <2>1
  <2>3. before <= Len(hb)
    BY <1>5, <1>9, <1>12, <2>1
  <2>4. y.r.inFlight = Len(InWriting(Idle))
    BY IdleIs
  <2>5. \A n \in DOMAIN Taken(x, v) :
           IF n <= Before(x, v) THEN Taken(x, v)[n][1] < x.r.id
           ELSE Taken(x, v)[n][1] <= x.r.id /\ Taken(x, v)[n][2] = n - Before(x, v) - 1
    BY <1>1, <2>1 DEF TakenOK
  <2>6. Before(y, Idle) = before /\ ~ Writing(Idle)
    BY <1>8, <1>9, IdleIs
  <2> QED
    BY <1>6, <1>7, <1>9, <1>12, <2>1, <2>2, <2>3, <2>4, <2>5, <2>6 DEF TakenOK
<1>14. ContentsOK(y, Idle)
  <2>1. SUFFICES ASSUME Accepted(x), y.files[y.r.id].state = "open"
                 PROVE  ContentsOK(y, Idle)
    BY <1>8 DEF ContentsOK
  <2>2. x.r.id \in Files /\ x.files[x.r.id].state = "open"
    BY <1>1, <1>10, <2>1, FileFacts DEF Accepted
  <2>3. PICK c \in Seq(Payloads), k \in Seq(Payloads) :
           c = x.files[x.r.id].contents /\ k = y.files[x.r.id].contents
    <3>1. x.files[x.r.id] \in File /\ y.files[x.r.id] \in File
      BY <1>1, <2>2 DEF Step
    <3> QED
      BY <3>1 DEF File
  <2>4. /\ \/ Len(c) = Len(h) - before
           \/ h = <<>> /\ c = <<>>
        /\ \A n \in DOMAIN c : c[n] = h[before + n]
    BY <1>1, <1>3, <1>9, <2>1, <2>2, <2>3 DEF ContentsOK
  <2>5. Len(k) = Len(hb) - before /\ \A n \in DOMAIN k : k[n] = hb[before + n]
    <3>1. CASE v.destination # x.r.id
      <4>1. k = c /\ h = <<>> /\ before = Len(b) /\ Len(h) = 0
        BY <1>10, <1>12, <2>1, <2>2, <2>3, <3>1
      <4>2. Len(c) \in Nat
        OBVIOUS
      <4>3. c = <<>>
        BY <1>5, <2>4, <4>1, <4>2
      <4> QED
        BY <1>5, <4>1, <4>3
    <3>2. CASE v.destination = x.r.id
      <4>1. k = c \o b
        <5>1. PICK dest \in [Files -> File], of \in Files :
                 dest = x.files /\ of = v.destination /\ of = x.r.id
          BY <1>1, <1>2, <3>2
        <5>2. dest[of].state = "open" => Kept(dest, of, b)[of].contents = dest[of].contents \o b
          BY KeptIs
        <5>3. dest[of].state = "open" /\ dest[of].contents = c
          BY <2>2, <2>3, <5>1
        <5>4. k = Kept(dest, of, b)[of].contents
          BY <1>3, <2>3, <5>1
        <5> QED
          BY <5>2, <5>3, <5>4
      <4>2. /\ Len(k) = Len(c) + Len(b) /\ Len(c) \in Nat
            /\ \A n \in 1 .. Len(c) : k[n] = c[n]
            /\ \A n \in 1 .. Len(b) : k[Len(c) + n] = b[n]
        BY <4>1, Concatenated
      <4>3. before >= 0 /\ before <= Len(h)
        BY <1>12, <2>1, <3>2
      <4>4. Len(c) = Len(h) - before
        BY <1>5, <2>4, <4>3
      <4>5. ASSUME NEW n \in DOMAIN k
            PROVE  k[n] = hb[before + n]
        <5>1. n \in 1 .. Len(c) + Len(b) /\ n \in Nat
          BY <4>2
        <5>2. CASE n <= Len(c)
          <6>1. before + n \in 1 .. Len(h) /\ n \in 1 .. Len(c) /\ n \in DOMAIN c
            BY <1>5, <4>2, <4>3, <4>4, <5>1, <5>2, SMTT(40)
          <6> QED
            BY <1>5, <2>4, <4>2, <6>1
        <5>3. CASE n > Len(c)
          <6>1. PICK m \in 1 .. Len(b) : n = Len(c) + m
            <7>1. n - Len(c) \in 1 .. Len(b) /\ n = Len(c) + (n - Len(c))
              BY <1>5, <4>2, <5>1, <5>3
            <7> QED
              BY <7>1
          <6>2. before + n = Len(h) + m
            BY <1>5, <4>2, <4>4, <6>1
          <6> QED
            BY <1>5, <4>2, <6>1, <6>2
        <5> QED
          BY <4>2, <5>1, <5>2, <5>3
      <4> QED
        BY <1>5, <4>2, <4>4, <4>5
    <3> QED
      BY <3>1, <3>2
  <2>6. Before(y, Idle) = before
    BY <1>8, <1>9
  <2> QED
    BY <1>6, <2>3, <2>5, <2>6 DEF ContentsOK
<1>15. Side(y, Idle)
  BY <1>10, <1>11, <1>13, <1>14, IdleIs DEF Side, CommonOK
<1>16. ASSUME NEW d, QuietSide(x, v, d)
       PROVE  QuietSide(y, Idle, d)
  <2>1. QuietOK(y)
    <3>1. Accepted(y) /\ y.r.cancelled => y.files[y.r.id].state # "open"
      BY DEF QuietOK
    <3> QED
      BY <1>16, <3>1 DEF QuietSide, QuietOK
  <2>2. FifoOK(y, Idle, d)
    BY <1>7, <1>8, <1>16 DEF QuietSide, FifoOK
  <2> QED
    BY <1>16, <2>1, <2>2 DEF QuietSide
<1> QED
  BY <1>15, <1>16
LEMMA CancelledWriteSide ==
    ASSUME Types, NEW x, NEW v, Side(x, v), Writing(v), x.r.cancelled, NEW y \in Step,
           y.files = Kept(x.files, v.destination, v.batch), y.closing = x.closing,
           y.out = x.out,
           y.r.id = x.r.id, y.r.state = x.r.state, y.r.transferred = x.r.transferred,
           y.r.cancelled = x.r.cancelled, y.r.paused = x.r.paused, y.r.before = x.r.before,
           y.r.expected = x.r.expected, y.r.queue = x.r.queue, y.r.inFlight = 0,
           y.r.finish = x.r.finish, y.r.destination = x.r.destination, y.r.hash = x.r.hash,
           y.r.aborting = x.r.aborting
    PROVE  /\ Side(y, Idle)
           /\ \A d : QuietSide(x, v, d) => QuietSide(y, Idle, d)
<1>1. /\ x \in Step /\ v \in Drain /\ x.r \in Receiver /\ OrderOK(x, v) /\ ContentsOK(x, v)
      /\ x.r.destination \in FileOrNone /\ x.r.id \in FileOrNone
  BY StepFields DEF Side, CommonOK
<1>2. /\ v.batch \in Seq(Payloads) /\ v.destination \in Files
      /\ v.destination <= x.r.destination
  BY <1>1 DEF Drain, OrderOK
<1>3. Accepted(y) <=> Accepted(x)
  BY DEF Accepted
<1>4. /\ \A f \in Files : Whole(x.files, f) => Whole(y.files, f)
      /\ \A f \in Files : f > y.r.destination =>
            y.files[f] = [state |-> "none", contents |-> <<>>]
      /\ CloseOK(y) /\ OutOK(y)
      /\ \A f \in Files : y.files[f].state = x.files[f].state
      /\ \A f \in Files : f # v.destination => y.files[f] = x.files[f]
  BY <1>2, KeptSide
<1>5. OrderOK(y, Idle)
  <2>1. CanReceiveData(y.r) <=> CanReceiveData(x.r)
    BY DEF CanReceiveData
  <2> QED
    BY <1>1, <1>3, <1>4, <2>1, IdleIs DEF OrderOK
<1>6. TakenOK(y, Idle)
  BY DEF TakenOK
<1>7. Accepted(y) => y.files[y.r.id].state # "open"
  <2>1. Accepted(y) => x.r.id \in Files
    BY <1>1, <1>3, FileFacts DEF Accepted
  <2> QED
    BY <1>1, <1>3, <1>4, <2>1 DEF ContentsOK
<1>8. ContentsOK(y, Idle)
  BY <1>7 DEF ContentsOK
<1>9. Side(y, Idle)
  BY <1>4, <1>5, <1>6, <1>8, IdleIs DEF Side, CommonOK
<1>10. ASSUME NEW d, QuietSide(x, v, d)
       PROVE  QuietSide(y, Idle, d)
  <2>1. QuietOK(y)
    BY <1>7, <1>10 DEF QuietSide, QuietOK
  <2>2. FifoOK(y, Idle, d)
    BY <1>10 DEF QuietSide, FifoOK
  <2> QED
    BY <1>10, <2>1, <2>2 DEF QuietSide
<1> QED
  BY <1>9, <1>10

LEMMA GoesOnSide ==
    ASSUME Types, NEW x, Side(x, Idle)
    PROVE  /\ Side(GoesOn(x), GoesOn(x).drain)
           /\ ByDrainOnce(x.closing) => DrainOK(GoesOn(x))
           /\ \A d : QuietSide(x, Idle, d) => QuietSide(GoesOn(x), GoesOn(x).drain, d)
<1>1. CASE \E c \in x.closing : c.by = "drain"
  <2>1. x \in Step /\ x.drain \in Drain /\ OutOK(x)
    BY StepFields DEF Side
  <2>2. PICK w \in Drain : w = [x.drain EXCEPT !.pc = "closing"]
    BY <2>1 DEF Drain
  <2>3. ~ Writing(w)
    BY <2>1, <2>2 DEF Writing, Drain
  <2>4. PICK y : y = GoesOn(x)
    OBVIOUS
  <2>5. y = [x EXCEPT !.drain = w]
    BY <1>1, <2>2, <2>4 DEF GoesOn
  <2>6. /\ y \in Step /\ y.r = x.r /\ y.out = x.out /\ y.files = x.files /\ y.closing = x.closing
        /\ y.drain = w
    BY <2>1, <2>5 DEF Step
  <2>7. OutOK(y)
    BY <2>1, <2>6 DEF OutOK
  <2>8. Side(y, w)
    BY <2>3, <2>6, <2>7, IdleIs, SameSide
  <2>9. ASSUME NEW d, QuietSide(x, Idle, d)
        PROVE  QuietSide(y, w, d)
    <3>1. \A n \in DOMAIN y.out : y.out[n].type \notin {"PAUSE", "RESUME", "CANCEL"}
      BY <2>6, <2>9 DEF QuietSide
    <3> QED
      BY <2>3, <2>6, <2>7, <2>9, <3>1, IdleIs, SameSide
  <2>10. ByDrainOnce(x.closing) => DrainOK(y)
    BY <2>2, <2>6 DEF DrainOK, Drain
  <2> QED
    BY <2>4, <2>6, <2>8, <2>9, <2>10
<1>2. CASE ~ \E c \in x.closing : c.by = "drain"
  <2>1. PICK y : y = Drains(x)
    OBVIOUS
  <2>2. GoesOn(x) = y
    BY <1>2, <2>1 DEF GoesOn
  <2>3. /\ Side(y, y.drain) /\ y.closing = x.closing
        /\ \A d : QuietSide(x, Idle, d) => QuietSide(y, y.drain, d)
    BY <2>1, DrainsSide
  <2> QED
    BY <1>2, <2>2, <2>3 DEF DrainOK
<1> QED
  BY <1>1, <1>2

LEMMA WroteSide ==
    ASSUME Types, NEW x, NEW d, Side(x, x.drain), Writing(x.drain), DrainOK(x),
           Quiet => QuietSide(x, x.drain, d), sender.id >= 2 => Quiet
    PROVE  /\ Side(Wrote(x), Wrote(x).drain)
           /\ DrainOK(Wrote(x))
           /\ Quiet => QuietSide(Wrote(x), Wrote(x).drain, d)
<1>1. /\ x \in Step /\ x.drain \in Drain /\ x.r \in Receiver /\ x.files \in [Files -> File]
      /\ OrderOK(x, x.drain) /\ x.r.id = receiver.id /\ x.r.id \in FileOrNone /\ x.r.id \in Nat
      /\ x.r.hash \in Seq(Payloads) /\ x.r.transferred \in Nat
  BY StepFields DEF Side, CommonOK
<1>2. PICK v \in Drain, of \in Files, batch \in Seq(Payloads) :
         v = x.drain /\ of = x.drain.destination /\ batch = x.drain.batch
  BY <1>1 DEF OrderOK, Drain
<1>3. PICK dest \in [Files -> File] : dest = Kept(x.files, of, batch)
  BY <1>1, KeptIs
<1>4. PICK kept : kept = [x EXCEPT !.files = dest]
  OBVIOUS
<1>5. kept = IF x.files[of].state # "open" THEN x
             ELSE [x EXCEPT !.files[of].contents = @ \o batch]
  <2>1. CASE x.files[of].state # "open"
    BY <1>1, <1>3, <1>4, <2>1 DEF Kept, Step
  <2>2. CASE x.files[of].state = "open"
    BY <1>1, <1>3, <1>4, <2>2 DEF Kept, Step
  <2> QED
    BY <2>1, <2>2
<1>6. /\ kept \in Step /\ kept.r = x.r /\ kept.out = x.out /\ kept.closing = x.closing
      /\ kept.files = dest /\ kept.drain = x.drain
  BY <1>1, <1>3, <1>4 DEF Step
<1>7. \A c \in x.closing : c.by # "drain"
  BY DEF DrainOK, Writing
<1>8. CASE x.r.cancelled
  <2>1. PICK r \in Receiver : r = [x.r EXCEPT !.inFlight = 0]
    BY <1>1 DEF Receiver
  <2>2. PICK z : z = [kept EXCEPT !.r.inFlight = 0]
    OBVIOUS
  <2>3. /\ z \in Step /\ z.r = r /\ z.out = x.out /\ z.closing = x.closing
        /\ z.files = dest /\ z.drain = x.drain
    BY <1>6, <2>1, <2>2 DEF Step
  <2>4. Side(z, Idle) /\ (QuietSide(x, v, d) => QuietSide(z, Idle, d))
    <3>1. /\ r.id = x.r.id /\ r.state = x.r.state /\ r.transferred = x.r.transferred
          /\ r.cancelled = x.r.cancelled /\ r.paused = x.r.paused /\ r.before = x.r.before
          /\ r.expected = x.r.expected /\ r.queue = x.r.queue /\ r.inFlight = 0
          /\ r.finish = x.r.finish /\ r.destination = x.r.destination /\ r.hash = x.r.hash
          /\ r.aborting = x.r.aborting
      BY <1>1, <2>1 DEF Receiver
    <3>2. z.r = r
      BY <2>3
    <3> QED
      BY <1>2, <1>3, <1>8, <2>3, <3>1, <3>2, CancelledWriteSide
  <2>5. Wrote(x) = Drains(z)
    BY <1>2, <1>5, <1>8, <2>2 DEF Wrote
  <2>6. PICK y : y = Drains(z)
    OBVIOUS
  <2>7. /\ Side(y, y.drain) /\ y.closing = x.closing
        /\ QuietSide(x, v, d) => QuietSide(y, y.drain, d)
    BY <2>3, <2>4, <2>6, DrainsSide
  <2>8. DrainOK(y)
    BY <1>7, <2>7 DEF DrainOK, ByDrainOnce
  <2> QED
    BY <1>2, <2>5, <2>6, <2>7, <2>8
<1>9. CASE ~ x.r.cancelled
  <2>1. PICK h \in Seq(Payloads), t \in Nat :
           h = x.r.hash \o batch /\ t = x.r.transferred + Len(batch)
    <3>1. PICK hash \in Seq(Payloads), n \in Nat : hash = x.r.hash /\ n = x.r.transferred
      BY <1>1
    <3>2. PICK h \in Seq(Payloads) : h = hash \o batch
      BY Concatenated
    <3>3. n + Len(batch) \in Nat
      OBVIOUS
    <3> QED
      BY <3>1, <3>2, <3>3
  <2>2. PICK r \in Receiver :
           r = [x.r EXCEPT !.hash = h, !.inFlight = 0, !.transferred = t]
    BY <1>1, <2>1 DEF Receiver
  <2>3. PICK z : z = [kept EXCEPT !.r.hash = @ \o batch, !.r.inFlight = 0,
                                   !.r.transferred = @ + Len(batch)]
    OBVIOUS
  <2>4. z = [kept EXCEPT !.r = r]
    BY <1>1, <1>6, <2>1, <2>2, <2>3 DEF Step, Receiver
  <2>5. /\ z \in Step /\ z.r = r /\ z.out = x.out /\ z.closing = x.closing
        /\ z.files = dest /\ z.drain = x.drain
    BY <1>6, <2>2, <2>4 DEF Step
  <2>6. /\ z.r.id = x.r.id /\ z.r.state = x.r.state /\ z.r.transferred = t
        /\ z.r.cancelled = x.r.cancelled /\ z.r.paused = x.r.paused /\ z.r.before = x.r.before
        /\ z.r.expected = x.r.expected /\ z.r.queue = x.r.queue /\ z.r.inFlight = 0
        /\ z.r.finish = x.r.finish /\ z.r.destination = x.r.destination /\ z.r.hash = h
        /\ z.r.aborting = x.r.aborting
    BY <1>1, <2>2, <2>5 DEF Receiver
  <2>7. Side(z, Idle) /\ (QuietSide(x, v, d) => QuietSide(z, Idle, d))
    BY <1>2, <1>3, <1>9, <2>1, <2>5, <2>6, CountsSide
  <2>8. PICK m \in ToSender :
           m = [type |-> "FLOW", id |-> x.r.id, written |-> z.r.transferred, window |-> Window]
    BY <1>1, <2>6, SingleFileAssumption DEF ToSender
  <2>9. m.type = "FLOW" /\ m.id = receiver.id /\ m.id <= receiver.id
    BY <1>1, <2>8
  <2>10. PICK s : s = ReceiverSays(z, m)
    OBVIOUS
  <2>11. /\ Side(s, Idle) /\ s.closing = z.closing
         /\ QuietSide(z, Idle, d) => QuietSide(s, Idle, d)
    BY <2>7, <2>9, <2>10, SaysSide DEF Reports
  <2>12. PICK e : e = Finalizes(s, "drain")
    OBVIOUS
  <2>13. Side(e, Idle) /\ (Quiet => QuietSide(e, Idle, d))
    BY <1>2, <2>7, <2>11, <2>12, FinalizesSide
  <2>14. Wrote(x) = GoesOn(e)
    BY <1>2, <1>5, <1>9, <2>3, <2>8, <2>10, <2>12 DEF Wrote
  <2>15. ByDrainOnce(e.closing)
    <3>1. s \in Step
      BY <2>11 DEF Side
    <3>2. PICK c : e.closing \in {s.closing, s.closing \cup {c}}
      BY <2>12, <3>1, FinalizesCloses
    <3> QED
      BY <1>7, <2>5, <2>11, <3>2 DEF ByDrainOnce
  <2> QED
    BY <2>13, <2>14, <2>15, GoesOnSide
<1> QED
  BY <1>8, <1>9
-----------------------------------------------------------------------------
(* handleData.                                                               *)

LEMMA TailsQuietly ==
    ASSUME Types, NEW x \in Step, NEW v, NEW d \in Seq(DataFrame), d # <<>>,
           QuietSide(x, v, d), x.r.id = receiver.id,
           x.r.id = sender.id => x.r.cancelled
    PROVE  QuietSide(x, v, Tail(d))
<1>1. SUFFICES ASSUME Unspoilt, sender.id # None, x.r.id # sender.id
               PROVE  FifoOK(x, v, Tail(d))
  BY DEF FifoOK, QuietSide
<1>2. sender \in Sender /\ sender.sourceHash \in Seq(Payloads) /\ sender.sent \in Nat
  BY DEF Types, Sender
<1>3. sender.sourceHash = <<>>
  BY <1>1, <1>2 DEF Unspoilt, Begun
<1>4. /\ Tail(d) \in Seq(DataFrame) /\ DOMAIN Tail(d) = 1 .. Len(d) - 1 /\ Len(d) \in Nat
      /\ \A n \in DOMAIN Tail(d) : n + 1 \in DOMAIN d /\ Tail(d)[n] = d[n + 1]
      /\ Len(Tail(d)) = Len(d) - 1 /\ DOMAIN d = 1 .. Len(d) /\ Len(d) >= 1
  BY OneFewer
<1>5. \A n \in DOMAIN d : d[n].ref # sender.id
  BY <1>1, <1>3, <1>4 DEF QuietSide, FifoOK, Arriving
<1>6. \A n \in DOMAIN Tail(d) : Tail(d)[n].ref # sender.id
  BY <1>4, <1>5
<1> QED
  BY <1>1, <1>3, <1>4, <1>6 DEF FifoOK, Arriving

InOrder(t, b, id) ==
    \A n \in DOMAIN t : IF n <= b THEN t[n][1] < id ELSE t[n][1] <= id /\ t[n][2] = n - b - 1

LEMMA QueuedInOrder ==
    ASSUME NEW t \in Seq(Payloads), NEW p \in Payloads, NEW b \in Int, NEW e \in Nat, NEW id,
           NEW tp, tp = Append(t, p), b = Len(t) - e, p[1] <= id, p[2] = e, InOrder(t, b, id)
    PROVE  InOrder(tp, b, id)
<1>1. /\ tp \in Seq(Payloads) /\ Len(tp) = Len(t) + 1 /\ Len(t) \in Nat
      /\ \A n \in DOMAIN t : tp[n] = t[n]
      /\ tp[Len(t) + 1] = p
      /\ DOMAIN t = 1 .. Len(t) /\ DOMAIN tp = 1 .. Len(t) + 1
  BY Appended
<1>2. ASSUME NEW n \in DOMAIN tp
      PROVE  IF n <= b THEN tp[n][1] < id ELSE tp[n][1] <= id /\ tp[n][2] = n - b - 1
  <2>1. CASE n \in DOMAIN t
    BY <1>1, <2>1 DEF InOrder
  <2>2. CASE n = Len(t) + 1
    <3>1. tp[n] = p
      BY <1>1, <2>2
    <3>2. e = n - b - 1 /\ ~ (n <= b)
      BY <1>1, <2>2
    <3> QED
      BY <3>1, <3>2
  <2> QED
    BY <1>1, <2>1, <2>2
<1> QED
  BY <1>2 DEF InOrder

LEMMA Arrives ==
    ASSUME NEW d \in Seq(DataFrame), d # <<>>, NEW s \in Seq(Payloads), NEW id, NEW e \in Nat,
           Arriving(id, s, e, d), d[1].ref = id
    PROVE  /\ Arriving(id, s, e + 1, Tail(d))
           /\ d[1].payload = s[e + 1]
<1>1. PICK rest : rest = Tail(d)
  OBVIOUS
<1>2. /\ rest \in Seq(DataFrame) /\ DOMAIN rest = 1 .. Len(d) - 1 /\ Len(d) \in Nat
      /\ \A n \in DOMAIN rest : n + 1 \in DOMAIN d /\ rest[n] = d[n + 1]
      /\ Len(rest) = Len(d) - 1 /\ DOMAIN d = 1 .. Len(d) /\ 1 \in DOMAIN d
  BY <1>1, OneFewer
<1>3. PICK ld \in Nat, ls \in Nat : ld = Len(d) /\ ls = Len(s)
  BY <1>2
<1>4. /\ ls - e <= ld
      /\ \A n \in DOMAIN d : d[n].ref = id <=> n > ld - (ls - e)
      /\ \A n \in DOMAIN d : n > ld - (ls - e) => d[n].payload = s[ls - ld + n]
  BY <1>3 DEF Arriving
<1>5. 1 > ld - (ls - e)
  BY <1>2, <1>4
<1>6. ls - e = ld
  BY <1>4, <1>5
<1>7. d[1].payload = s[e + 1]
  <2>1. d[1].payload = s[ls - ld + 1]
    BY <1>2, <1>4, <1>5
  <2>2. ls - ld + 1 = e + 1
    BY <1>6
  <2> QED
    BY <2>1, <2>2
<1>8. ASSUME NEW n \in DOMAIN rest
      PROVE  rest[n].ref = id /\ rest[n].payload = s[ls - Len(rest) + n]
  <2>1. n + 1 \in DOMAIN d /\ rest[n] = d[n + 1] /\ n \in Nat /\ n >= 1
    BY <1>2
  <2>2. n + 1 > ld - (ls - e)
    BY <1>6, <2>1
  <2>3. ls - ld + (n + 1) = ls - Len(rest) + n
    BY <1>2, <1>3, <2>1
  <2>4. d[n + 1].ref = id /\ d[n + 1].payload = s[ls - ld + (n + 1)]
    BY <1>4, <2>1, <2>2
  <2> QED
    BY <2>1, <2>3, <2>4
<1>9. PICK left \in Int : left = ls - (e + 1) /\ left >= 0 /\ left = Len(rest)
  <2>1. ls - (e + 1) \in Int /\ ls - (e + 1) = ld - 1 /\ ld >= 1
    BY <1>2, <1>3, <1>6
  <2> QED
    BY <1>2, <1>3, <2>1
<1>10. \A n \in DOMAIN rest : n > Len(rest) - left
  BY <1>2, <1>9
<1>11. Arriving(id, s, e + 1, rest)
  BY <1>3, <1>8, <1>9, <1>10 DEF Arriving
<1> QED
  BY <1>1, <1>7, <1>11

Alike(t, b, s, e) == \A n \in 1 .. e : t[b + n] = s[n]

LEMMA TakenGrows ==
    ASSUME NEW t \in Seq(Payloads), NEW p \in Payloads, NEW s, NEW b \in Nat, NEW e \in Nat,
           b = Len(t) - e, NEW tp, tp = Append(t, p), p = s[e + 1], Alike(t, b, s, e)
    PROVE  Alike(tp, b, s, e + 1)
<1>1. /\ tp \in Seq(Payloads) /\ Len(tp) = Len(t) + 1 /\ Len(t) \in Nat
      /\ \A n \in DOMAIN t : tp[n] = t[n]
      /\ tp[Len(t) + 1] = p
      /\ DOMAIN t = 1 .. Len(t)
  BY Appended
<1> SUFFICES ASSUME NEW n \in 1 .. e + 1
             PROVE  tp[b + n] = s[n]
  BY DEF Alike
<1>2. CASE n = e + 1
  <2>1. b + n = Len(t) + 1
    BY <1>1, <1>2
  <2> QED
    BY <1>1, <1>2, <2>1
<1>3. CASE n # e + 1
  <2>1. n \in 1 .. e /\ b + n \in 1 .. Len(t)
    BY <1>1, <1>3
  <2> QED
    BY <1>1, <2>1 DEF Alike
<1> QED
  BY <1>2, <1>3

IsNext(frame, x) ==
    /\ CanReceiveData(x.r) /\ frame.ref = x.r.id /\ frame.offset = x.r.expected
    /\ frame.payload[1] <= frame.ref /\ frame.payload[2] = frame.offset

Queues(x, y, p) ==
    /\ y.out = x.out /\ y.closing = x.closing /\ y.files = x.files
    /\ y.r.id = x.r.id /\ y.r.state = x.r.state /\ y.r.transferred = x.r.transferred
    /\ y.r.cancelled = x.r.cancelled /\ y.r.paused = x.r.paused /\ y.r.before = x.r.before
    /\ y.r.expected = x.r.expected + 1 /\ y.r.queue = Append(x.r.queue, p)
    /\ y.r.inFlight = x.r.inFlight /\ y.r.finish = x.r.finish
    /\ y.r.destination = x.r.destination /\ y.r.hash = x.r.hash /\ y.r.aborting = x.r.aborting

LEMMA QueuesSide ==
    ASSUME Types, NEW x, NEW v, Side(x, v), NEW frame \in DataFrame, IsNext(frame, x),
           NEW y \in Step, Queues(x, y, frame.payload)
    PROVE  /\ Side(y, v)
           /\ \A d \in Seq(DataFrame) :
                 d # <<>> /\ Head(d) = frame /\ QuietSide(x, v, d) => QuietSide(y, v, Tail(d))
<1>1. /\ x \in Step /\ v \in Drain /\ x.r \in Receiver /\ x.files \in [Files -> File]
      /\ OrderOK(x, v) /\ TakenOK(x, v) /\ ContentsOK(x, v) /\ CloseOK(x) /\ OutOK(x)
      /\ x.r.id \in FileOrNone /\ x.r.id \in Nat /\ x.r.expected \in Nat
      /\ x.r.id = receiver.id /\ InWriting(v) \in Seq(Payloads)
  BY StepFields, TakenIs DEF Side, CommonOK
<1>2. PICK p \in Payloads : p = frame.payload
  BY DEF DataFrame
<1>3. PICK h \in Seq(Payloads), w \in Seq(Payloads), q \in Seq(Payloads) :
         h = x.r.hash /\ w = InWriting(v) /\ q = x.r.queue
  BY <1>1, StepFields
<1>4. PICK qp \in Seq(Payloads) : qp = Append(q, p)
  <2>1. Append(q, p) \in Seq(Payloads)
    BY Appended
  <2> QED
    BY <2>1
<1>5. /\ y.r.id = x.r.id /\ y.r.state = x.r.state /\ y.r.transferred = x.r.transferred
      /\ y.r.cancelled = x.r.cancelled /\ y.r.paused = x.r.paused /\ y.r.before = x.r.before
      /\ y.r.expected = x.r.expected + 1 /\ y.r.queue = qp /\ y.r.inFlight = x.r.inFlight
      /\ y.r.finish = x.r.finish /\ y.r.destination = x.r.destination /\ y.r.hash = x.r.hash
      /\ y.r.aborting = x.r.aborting
      /\ y.out = x.out /\ y.closing = x.closing /\ y.files = x.files
  BY <1>2, <1>3, <1>4 DEF Queues
<1>6. Accepted(x) /\ Accepted(y)
  BY <1>1, <1>5 DEF OrderOK, Accepted, IsNext
<1>7. PICK t \in Seq(Payloads) : t = Taken(x, v)
  BY <1>1, TakenIs
<1>8. Taken(y, v) = Append(t, p)
  <2>1. Taken(y, v) = (h \o w) \o qp
    BY <1>3, <1>5 DEF Taken
  <2>2. t = (h \o w) \o q
    BY <1>3, <1>7 DEF Taken
  <2>3. h \o w \in Seq(Payloads)
    BY Concatenated
  <2>4. (h \o w) \o Append(q, p) = Append((h \o w) \o q, p)
    BY <2>3, AppendRegrouped
  <2> QED
    BY <1>4, <2>1, <2>2, <2>4
<1>9. PICK tp \in Seq(Payloads) :
         /\ tp = Append(t, p) /\ Len(tp) = Len(t) + 1 /\ Len(t) \in Nat
         /\ \A n \in DOMAIN t : tp[n] = t[n]
         /\ tp[Len(t) + 1] = p
         /\ DOMAIN t = 1 .. Len(t) /\ DOMAIN tp = 1 .. Len(t) + 1
  <2>1. PICK tp : tp = Append(t, p)
    OBVIOUS
  <2>2. /\ tp \in Seq(Payloads) /\ Len(tp) = Len(t) + 1 /\ Len(t) \in Nat
        /\ \A n \in DOMAIN t : tp[n] = t[n]
        /\ tp[Len(t) + 1] = p
        /\ DOMAIN t = 1 .. Len(t) /\ DOMAIN tp = 1 .. Len(t) + 1
    BY <2>1, Appended
  <2> QED
    BY <2>1, <2>2
<1>10. PICK b \in Int, e \in Nat, lt \in Nat :
          b = Before(x, v) /\ b = lt - e /\ e = x.r.expected /\ lt = Len(t)
  BY <1>1, <1>7, TakenIs DEF Before
<1>11. Before(y, v) = b
  <2>1. Before(y, v) = (lt + 1) - (e + 1)
    BY <1>5, <1>8, <1>9, <1>10 DEF Before
  <2>2. (lt + 1) - (e + 1) = lt - e
    OBVIOUS
  <2> QED
    BY <1>10, <2>1, <2>2
<1>12. OrderOK(y, v)
  <2>1. CanReceiveData(y.r)
    BY <1>5 DEF CanReceiveData, IsNext
  <2> QED
    BY <1>1, <1>5, <1>6, <2>1 DEF OrderOK
<1>13. TakenOK(y, v)
  <2>1. SUFFICES ASSUME ~ x.r.cancelled
                 PROVE  TakenOK(y, v)
    BY <1>5 DEF TakenOK
  <2>2. \A n \in DOMAIN t : IF n <= b THEN t[n][1] < x.r.id
                            ELSE t[n][1] <= x.r.id /\ t[n][2] = n - b - 1
    BY <1>1, <1>6, <1>7, <1>10, <2>1 DEF TakenOK
  <2>3. p[1] <= x.r.id /\ p[2] = e
    BY <1>2, <1>10 DEF IsNext
  <2>4. \A n \in DOMAIN tp : IF n <= b THEN tp[n][1] < x.r.id
                             ELSE tp[n][1] <= x.r.id /\ tp[n][2] = n - b - 1
    <3>1. PICK id : id = x.r.id
      OBVIOUS
    <3>2. b = Len(t) - e /\ tp = Append(t, p)
      BY <1>9, <1>10
    <3>3. InOrder(t, b, id) /\ p[1] <= id /\ p[2] = e
      BY <2>2, <2>3, <3>1 DEF InOrder
    <3>4. InOrder(tp, b, id)
      BY <3>2, <3>3, QueuedInOrder
    <3> QED
      BY <3>1, <3>4 DEF InOrder
  <2>5. b >= 0 /\ (b > 0 => x.r.transferred = Len(x.r.hash))
        /\ IF Writing(v) /\ v.destination # x.r.id
           THEN x.r.inFlight = 0 /\ x.r.hash = <<>> /\ b = Len(v.batch)
           ELSE x.r.inFlight = Len(InWriting(v)) /\ b <= Len(x.r.hash)
    BY <1>1, <1>6, <1>10, <2>1 DEF TakenOK
  <2> QED
    BY <1>5, <1>8, <1>9, <1>11, <2>4, <2>5 DEF TakenOK
<1>14. ContentsOK(y, v)
  BY <1>1, <1>5, <1>6, <1>10, <1>11 DEF ContentsOK
<1>15. CloseOK(y)
  BY <1>1, <1>5 DEF CloseOK
<1>16. OutOK(y)
  BY <1>1, <1>5 DEF OutOK
<1>17. Side(y, v)
  BY <1>1, <1>5, <1>12, <1>13, <1>14, <1>15, <1>16 DEF Side, CommonOK
<1>18. ASSUME NEW d \in Seq(DataFrame), d # <<>>, Head(d) = frame, QuietSide(x, v, d)
       PROVE  QuietSide(y, v, Tail(d))
  <2>1. QuietOK(y)
    BY <1>5, <1>6, <1>18 DEF QuietSide, QuietOK
  <2>2. QuietSide(y, v, Tail(d)) <=> FifoOK(y, v, Tail(d))
    BY <1>5, <1>18, <2>1 DEF QuietSide
  <2>3. CASE x.r.id # sender.id
    <3>1. QuietSide(x, v, Tail(d))
      BY <1>1, <1>18, <2>3, TailsQuietly
    <3> QED
      BY <1>5, <2>2, <2>3, <3>1 DEF QuietSide, FifoOK
  <2>4. CASE x.r.id = sender.id
    <3>1. SUFFICES ASSUME Unspoilt, sender.id # None, ~ x.r.cancelled
                   PROVE  FifoOK(y, v, Tail(d))
      BY <1>5, <2>2, <2>4 DEF FifoOK
    <3>2. PICK s \in Seq(Payloads), id \in FileOrNone : s = sender.sourceHash /\ id = sender.id
      BY DEF Types, Sender
    <3>3. /\ Arriving(id, s, e, d)
          /\ \A n \in 1 .. e : t[b + n] = s[n]
      BY <1>6, <1>7, <1>10, <1>18, <2>4, <3>1, <3>2 DEF QuietSide, FifoOK
    <3>4. b \in Nat
      <4>1. b >= 0
        BY <1>1, <1>6, <1>10, <3>1 DEF TakenOK
      <4> QED
        BY <4>1
    <3>5. d[1] = frame /\ d[1].ref = id
      BY <1>18, <2>4, <3>2, OneFewer DEF IsNext
    <3>6. Arriving(id, s, e + 1, Tail(d)) /\ p = s[e + 1]
      <4>1. Arriving(id, s, e + 1, Tail(d)) /\ d[1].payload = s[e + 1]
        BY <1>18, <3>3, <3>5, Arrives
      <4> QED
        BY <1>2, <3>5, <4>1
    <3>7. \A n \in 1 .. e + 1 : tp[b + n] = s[n]
      <4>1. b = Len(t) - e /\ tp = Append(t, p)
        BY <1>9, <1>10
      <4>2. Alike(t, b, s, e)
        BY <3>3 DEF Alike
      <4>3. Alike(tp, b, s, e + 1)
        BY <3>4, <3>6, <4>1, <4>2, TakenGrows
      <4> QED
        BY <4>3 DEF Alike
    <3>8. y.r.expected = e + 1 /\ y.r.id = sender.id /\ Taken(y, v) = tp /\ Before(y, v) = b
      BY <1>5, <1>8, <1>9, <1>10, <1>11, <2>4
    <3> QED
      BY <3>2, <3>6, <3>7, <3>8 DEF FifoOK
  <2> QED
    BY <2>3, <2>4
<1> QED
  BY <1>17, <1>18

LEMMA HandlesSide ==
    ASSUME Types, NEW x, Side(x, x.drain), NEW d \in Seq(DataFrame), d # <<>>,
           Quiet => QuietSide(x, x.drain, d),
           Head(d).payload[1] <= Head(d).ref, Head(d).payload[2] = Head(d).offset
    PROVE  /\ Side(HandlesData(x, Head(d)), HandlesData(x, Head(d)).drain)
           /\ HandlesData(x, Head(d)).closing = x.closing
           /\ Quiet => QuietSide(HandlesData(x, Head(d)), HandlesData(x, Head(d)).drain, Tail(d))
<1>1. x \in Step /\ x.r.id = receiver.id /\ x.drain \in Drain /\ x.r \in Receiver
      /\ x.r.queue \in Seq(Payloads) /\ x.r.expected \in Nat
  BY StepFields DEF Side
<1>2. PICK frame \in DataFrame : frame = Head(d)
  BY OneFewer
<1>3. CASE HandlesData(x, frame) = ReceiverFails(x)
  <2>1. PICK y : y = ReceiverFails(x)
    OBVIOUS
  <2>2. /\ Side(y, x.drain) /\ y.drain = x.drain /\ y.closing = x.closing /\ y.r.cancelled
        /\ Quiet => QuietSide(y, x.drain, d)
    BY <2>1, FailsSide
  <2>3. y \in Step /\ y.r.id = receiver.id
    BY <2>2 DEF Side
  <2>4. Quiet => QuietSide(y, x.drain, Tail(d))
    BY <2>2, <2>3, TailsQuietly
  <2> QED
    BY <1>2, <1>3, <2>1, <2>2, <2>4
<1>4. CASE /\ CanReceiveData(x.r) /\ frame.ref = x.r.id /\ frame.offset = x.r.expected
           /\ HandlesData(x, frame) # ReceiverFails(x)
  <2>1. PICK p \in Payloads : p = frame.payload
    BY DEF DataFrame
  <2>2. PICK qp \in Seq(Payloads) : qp = Append(x.r.queue, p)
    <3>1. PICK q \in Seq(Payloads) : q = x.r.queue
      BY <1>1
    <3>2. Append(q, p) \in Seq(Payloads)
      BY Appended
    <3> QED
      BY <3>1, <3>2
  <2>3. PICK r \in Receiver : r = [x.r EXCEPT !.expected = x.r.expected + 1, !.queue = qp]
    <3>1. x.r \in Receiver
      BY <1>1, StepFields
    <3>2. x.r.expected + 1 \in Nat
      BY <3>1 DEF Receiver
    <3>3. PICK were \in Receiver, e \in Nat : were = x.r /\ e = x.r.expected + 1
      BY <3>1, <3>2
    <3>4. [were EXCEPT !.expected = e, !.queue = qp] \in Receiver
      BY DEF Receiver
    <3> QED
      BY <3>3, <3>4
  <2>4. PICK y : y = [x EXCEPT !.r.expected = @ + 1, !.r.queue = Append(@, frame.payload)]
    OBVIOUS
  <2>5. y = [x EXCEPT !.r = r]
    BY <1>1, <2>1, <2>2, <2>3, <2>4 DEF Step, Receiver
  <2>6. /\ y \in Step /\ y.r = r /\ y.out = x.out /\ y.closing = x.closing
        /\ y.files = x.files /\ y.drain = x.drain
    BY <1>1, <2>3, <2>5 DEF Step
  <2>7. /\ Side(y, x.drain)
        /\ Quiet => QuietSide(y, x.drain, Tail(d))
    <3>1. /\ r.id = x.r.id /\ r.state = x.r.state /\ r.transferred = x.r.transferred
          /\ r.cancelled = x.r.cancelled /\ r.paused = x.r.paused /\ r.before = x.r.before
          /\ r.expected = x.r.expected + 1 /\ r.queue = qp /\ r.inFlight = x.r.inFlight
          /\ r.finish = x.r.finish /\ r.destination = x.r.destination /\ r.hash = x.r.hash
          /\ r.aborting = x.r.aborting
      BY <1>1, <2>3 DEF Receiver
    <3>2. Queues(x, y, frame.payload)
      BY <2>1, <2>2, <2>6, <3>1 DEF Queues
    <3>3. IsNext(frame, x)
      BY <1>2, <1>4 DEF IsNext
    <3>4. /\ Side(y, x.drain)
          /\ \A e \in Seq(DataFrame) :
                e # <<>> /\ Head(e) = frame /\ QuietSide(x, x.drain, e) =>
                    QuietSide(y, x.drain, Tail(e))
      BY <2>6, <3>2, <3>3, QueuesSide
    <3> QED
      BY <1>2, <3>4
  <2>8. HandlesData(x, frame) = IF x.drain.pc = "idle" THEN Drains(y) ELSE y
    BY <1>4, <2>4 DEF HandlesData
  <2>9. CASE x.drain.pc = "idle"
    <3>1. OutOK(y) /\ ~ Writing(x.drain)
      BY <2>7, <2>9 DEF Side, Writing
    <3>2. Side(y, Idle)
      BY <2>6, <2>7, <3>1, IdleIs, SameSide
    <3>3. Quiet => QuietSide(y, Idle, Tail(d))
      <4> SUFFICES ASSUME Quiet
                   PROVE  QuietSide(y, Idle, Tail(d))
        OBVIOUS
      <4>1. \A n \in DOMAIN y.out : y.out[n].type \notin {"PAUSE", "RESUME", "CANCEL"}
        BY <2>7 DEF QuietSide
      <4> QED
        BY <2>6, <2>7, <3>1, <4>1, IdleIs, SameSide
    <3>4. PICK z : z = Drains(y)
      OBVIOUS
    <3>5. Side(z, z.drain) /\ z.closing = y.closing /\ (Quiet => QuietSide(z, z.drain, Tail(d)))
      BY <3>2, <3>3, <3>4, DrainsSide
    <3> QED
      BY <1>2, <2>6, <2>8, <2>9, <3>4, <3>5
  <2>10. CASE x.drain.pc # "idle"
    BY <1>2, <2>6, <2>7, <2>8, <2>10
  <2> QED
    BY <2>9, <2>10
<1> QED
  BY <1>3, <1>4 DEF HandlesData
-----------------------------------------------------------------------------
(* What changes a state and nothing that was taken.                          *)

SameTaken(x, y) ==
    /\ y.r.id = x.r.id /\ y.r.transferred = x.r.transferred /\ y.r.cancelled = x.r.cancelled
    /\ y.r.expected = x.r.expected /\ y.r.queue = x.r.queue /\ y.r.inFlight = x.r.inFlight
    /\ y.r.destination = x.r.destination /\ y.r.hash = x.r.hash

LEMMA SameTakenIs ==
    ASSUME NEW x, NEW y, SameTaken(x, y), NEW v
    PROVE  /\ Taken(y, v) = Taken(x, v) /\ Before(y, v) = Before(x, v)
           /\ Accepted(y) <=> Accepted(x)
           /\ TakenOK(x, v) => TakenOK(y, v)
<1>1. Taken(y, v) = Taken(x, v) /\ Before(y, v) = Before(x, v) /\ (Accepted(y) <=> Accepted(x))
  BY DEF SameTaken, Taken, Before, Accepted
<1> QED
  BY <1>1 DEF SameTaken, TakenOK

LEMMA RestateSide ==
    ASSUME Types, NEW x, NEW v, Side(x, v), NEW y \in Step, SameTaken(x, y),
           y.out = x.out, y.closing = x.closing, y.files = x.files,
           y.r.state = "READY" => x.r.state = "READY",
           CanReceiveData(y.r) \/ y.r.before = "RECEIVING" => Accepted(x),
           y.r.state \in {"FAILED", "CANCELLED"} => x.r.cancelled,
           y.r.aborting => x.r.aborting,
           y.r.state = "COMPLETED" => x.r.state = "COMPLETED"
    PROVE  /\ Side(y, v)
           /\ \A d : /\ QuietSide(x, v, d) /\ ~ y.r.paused /\ ~ y.r.aborting
                     /\ sender.id # None /\ receiver.id = sender.id =>
                           y.r.finish \in {NoFinish, x.r.finish} \/ Heard(y.r.finish)
                     => QuietSide(y, v, d)
<1>1. OrderOK(x, v) /\ TakenOK(x, v) /\ ContentsOK(x, v) /\ CloseOK(x) /\ OutOK(x)
  BY DEF Side, CommonOK
<1>2. OrderOK(y, v)
  BY <1>1, SameTakenIs DEF OrderOK, SameTaken
<1>3. TakenOK(y, v)
  BY <1>1, SameTakenIs
<1>4. ContentsOK(y, v)
  BY <1>1, SameTakenIs DEF ContentsOK, SameTaken
<1>5. CloseOK(y) /\ OutOK(y)
  BY <1>1 DEF CloseOK, OutOK, SameTaken
<1>6. Side(y, v)
  BY <1>2, <1>3, <1>4, <1>5 DEF Side, CommonOK, SameTaken
<1>7. ASSUME NEW d, QuietSide(x, v, d), ~ y.r.paused, ~ y.r.aborting,
             sender.id # None /\ receiver.id = sender.id =>
                 y.r.finish \in {NoFinish, x.r.finish} \/ Heard(y.r.finish)
      PROVE  QuietSide(y, v, d)
  <2>1. QuietOK(y)
    BY <1>7, SameTakenIs DEF QuietSide, QuietOK, SameTaken
  <2>2. FifoOK(y, v, d)
    BY <1>7, SameTakenIs DEF QuietSide, FifoOK, SameTaken
  <2> QED
    BY <1>7, <2>1, <2>2 DEF QuietSide, SameTaken
<1> QED
  BY <1>6, <1>7

-----------------------------------------------------------------------------
(* The end of a close.                                                       *)

LEMMA LeavesSide ==
    ASSUME Types, NEW x, NEW v, Side(x, v), NEW c \in x.closing, NEW y \in Step, SameTaken(x, y),
           y.out = x.out, y.closing = x.closing \ {c},
           \A f \in Files : f # c.of => y.files[f] = x.files[f],
           y.files[c.of].state \in {"closed", "aborted"},
           y.r.state \in {x.r.state, "COMPLETED"}, y.r.before = x.r.before,
           y.r.paused = x.r.paused, y.r.aborting = x.r.aborting, y.r.finish = x.r.finish,
           y.r.state = "COMPLETED" /\ y.r.id = 1 => Whole(y.files, 1)
    PROVE  /\ Side(y, v)
           /\ \A d : QuietSide(x, v, d) => QuietSide(y, v, d)
<1>1. /\ x \in Step /\ OrderOK(x, v) /\ TakenOK(x, v) /\ ContentsOK(x, v) /\ CloseOK(x) /\ OutOK(x)
      /\ x.closing \in SUBSET Closing /\ x.files \in [Files -> File] /\ x.out \in Seq(ToSender)
      /\ x.r.id \in FileOrNone /\ x.r.destination \in FileOrNone
  BY StepFields DEF Side, CommonOK
<1>2. c.of \in Files /\ x.files[c.of].state = "closing"
  BY <1>1 DEF CloseOK, Closing
<1>3. \A f \in Files : x.files[f].state # "closing" => y.files[f] = x.files[f]
  BY <1>2
<1>4. \A f \in Files : y.files[f].state = "open" => x.files[f] = y.files[f]
  BY <1>2
<1>5. OrderOK(y, v)
  <2>1. \A f \in Files : f > y.r.destination => y.files[f] = [state |-> "none", contents |-> <<>>]
    BY <1>1, <1>3 DEF OrderOK, SameTaken
  <2>2. CanReceiveData(y.r) => CanReceiveData(x.r)
    BY DEF CanReceiveData
  <2> QED
    BY <1>1, <2>1, <2>2, SameTakenIs DEF OrderOK, SameTaken
<1>6. TakenOK(y, v)
  BY <1>1, SameTakenIs
<1>7. Accepted(y) => y.r.id \in Files
  BY <1>1, FileFacts DEF Accepted, SameTaken
<1>8. ContentsOK(y, v)
  <2>1. SUFFICES ASSUME Accepted(y), y.files[y.r.id].state = "open"
                 PROVE  ContentsOK(y, v)
    BY DEF ContentsOK
  <2>2. x.files[x.r.id] = y.files[y.r.id]
    BY <1>4, <1>7, <2>1 DEF SameTaken
  <2> QED
    BY <1>1, <2>1, <2>2, SameTakenIs DEF ContentsOK, SameTaken
<1>9. \A f \in Files : Whole(x.files, f) => Whole(y.files, f)
  BY <1>3 DEF Whole
<1>10. CloseOK(y)
  <2>1. \A e \in y.closing : e \in x.closing /\ e.of \in Files /\ e.of # c.of
                             /\ y.files[e.of] = x.files[e.of]
    BY <1>1 DEF CloseOK, Closing
  <2>2. \A e \in y.closing : e.of = e.id => y.files[e.id] = x.files[e.id]
    BY <2>1
  <2> QED
    BY <1>1, <2>1, <2>2 DEF CloseOK, SameTaken
<1>11. OutOK(y)
  <2>1. \A n \in DOMAIN x.out : x.out[n].type = "VERIFY_OK" => x.out[n].id \in Files
    <3>1. \A n \in DOMAIN x.out : x.out[n] \in ToSender
      BY <1>1
    <3> QED
      BY <3>1 DEF ToSender, Signals
  <2> QED
    BY <1>1, <1>9, <2>1 DEF OutOK
<1>12. Side(y, v)
  BY <1>5, <1>6, <1>8, <1>9, <1>10, <1>11 DEF Side, CommonOK, SameTaken
<1>13. ASSUME NEW d, QuietSide(x, v, d)
       PROVE  QuietSide(y, v, d)
  <2>1. QuietOK(y)
    BY <1>4, <1>7, <1>13, SameTakenIs DEF QuietSide, QuietOK, SameTaken
  <2>2. FifoOK(y, v, d)
    BY <1>13, SameTakenIs DEF QuietSide, FifoOK, SameTaken
  <2> QED
    BY <1>13, <2>1, <2>2 DEF QuietSide, SameTaken
<1> QED
  BY <1>12, <1>13

LEMMA OfReceiverIs ==
    ASSUME Types
    PROVE  /\ OfReceiver \in Step /\ OfReceiver.r = receiver /\ OfReceiver.drain = drain
           /\ OfReceiver.closing = closing /\ OfReceiver.files = files /\ OfReceiver.out = <<>>
<1>1. <<>> \in Seq(ToSender)
  OBVIOUS
<1> QED
  BY <1>1 DEF OfReceiver, Step, Types

\* A receiver before a step of it.
LEMMA Begins ==
    ASSUME Inv
    PROVE  /\ Types /\ Side(OfReceiver, drain) /\ DrainOK(OfReceiver)
           /\ sender.id >= 2 => Quiet
           /\ Quiet => QuietSide(OfReceiver, drain, data)
<1>1. Types /\ OfReceiver \in Step /\ OfReceiver.r = receiver /\ OfReceiver.files = files
      /\ OfReceiver.out = <<>> /\ drain \in Drain /\ receiver.id \in Nat
  BY OfReceiverIs, StepFields DEF Inv, Types
<1>2. OutOK(OfReceiver)
  BY <1>1 DEF OutOK
<1>3. Side(OfReceiver, drain)
  BY <1>1, <1>2 DEF Side, Inv
<1>4. ASSUME Quiet
      PROVE  QuietSide(OfReceiver, drain, data)
  <2>1. QuietOK(OfReceiver) /\ FifoOK(OfReceiver, drain, data) /\ UnbegunInv /\ FinishInv
    BY <1>4 DEF Inv
  <2>2. sender.id # None /\ receiver.id = sender.id /\ receiver.finish # NoFinish =>
            Heard(receiver.finish)
    BY <2>1 DEF UnbegunInv, FinishInv, Heard
  <2> QED
    BY <1>1, <2>1, <2>2 DEF QuietSide
<1> QED
  BY <1>1, <1>3, <1>4 DEF Inv
-----------------------------------------------------------------------------
(* A step of the receiver preserves the invariant.                           *)

LEMMA SameFrames ==
    ASSUME frames' = frames
    PROVE  /\ Payloads' = Payloads /\ Sender' = Sender /\ Receiver' = Receiver /\ Loop' = Loop
           /\ Drain' = Drain /\ File' = File /\ ToReceiver' = ToReceiver /\ ToSender' = ToSender
           /\ DataFrame' = DataFrame
           /\ \A f : SourceOf(f)' = SourceOf(f)
<1>1. Payloads' = Payloads
  BY DEF Payloads
<1>2. \A f : SourceOf(f)' = SourceOf(f)
  BY DEF SourceOf
<1> QED
  BY <1>1, <1>2 DEF Sender, Receiver, Loop, Drain, File, ToReceiver, ToSender, DataFrame

Said(x, s) == s = IF connected THEN toSender \o x.out ELSE toSender

LEMMA SaidIs ==
    ASSUME Types, NEW x \in Step, NEW s, Said(x, s)
    PROVE  /\ s \in Seq(ToSender) /\ DOMAIN toSender \subseteq DOMAIN s
           /\ \A n \in DOMAIN toSender : s[n] = toSender[n]
           /\ \A n \in DOMAIN s : n \in DOMAIN toSender \/ \E k \in DOMAIN x.out : s[n] = x.out[k]
<1>1. toSender \in Seq(ToSender) /\ x.out \in Seq(ToSender)
  BY StepFields DEF Types
<1>2. CASE ~ connected
  BY <1>1, <1>2 DEF Said
<1>3. CASE connected
  <2>1. /\ s \in Seq(ToSender) /\ DOMAIN s = 1 .. Len(toSender) + Len(x.out)
        /\ \A n \in 1 .. Len(toSender) : s[n] = toSender[n]
        /\ \A n \in 1 .. Len(x.out) : s[Len(toSender) + n] = x.out[n]
        /\ Len(toSender) \in Nat /\ Len(x.out) \in Nat
        /\ DOMAIN toSender = 1 .. Len(toSender) /\ DOMAIN x.out = 1 .. Len(x.out)
    BY <1>1, <1>3, Concatenated DEF Said
  <2>2. PICK a \in Nat, b \in Nat : a = Len(toSender) /\ b = Len(x.out)
    BY <2>1
  <2>3. ASSUME NEW n \in DOMAIN s, n \notin DOMAIN toSender
        PROVE  \E k \in DOMAIN x.out : s[n] = x.out[k]
    <3>1. n \in a + 1 .. a + b
      BY <2>1, <2>2, <2>3
    <3>2. n - a \in 1 .. b /\ a + (n - a) = n
      BY <3>1
    <3>3. s[a + (n - a)] = x.out[n - a]
      BY <2>1, <2>2, <3>2
    <3> QED
      BY <2>1, <2>2, <3>2, <3>3
  <2>4. DOMAIN toSender \subseteq DOMAIN s
    BY <2>1, <2>2
  <2> QED
    BY <2>1, <2>3, <2>4
<1> QED
  BY <1>2, <1>3

Fewer(s, t) == t = s \/ (s # <<>> /\ t = Tail(s))

LEMMA FewerIs ==
    ASSUME NEW S, NEW s \in Seq(S), NEW t, Fewer(s, t)
    PROVE  /\ t \in Seq(S)
           /\ \E k \in {0, 1} : \A n \in DOMAIN t :
                 n \in Nat /\ n + k \in DOMAIN s /\ t[n] = s[n + k]
<1>1. CASE t = s
  BY <1>1
<1>2. CASE s # <<>> /\ t = Tail(s)
  <2>1. Tail(s) \in Seq(S) /\ \A n \in DOMAIN Tail(s) : n + 1 \in DOMAIN s /\ Tail(s)[n] = s[n + 1]
    BY <1>2, OneFewer
  <2>2. \A n \in DOMAIN Tail(s) : n \in Nat
    BY <2>1
  <2> QED
    BY <1>2, <2>1, <2>2
<1> QED
  BY <1>1, <1>2 DEF Fewer

ReceiverMoves(x) ==
    /\ frames' = frames
    /\ receiver' = x.r /\ drain' = x.drain /\ closing' = x.closing /\ files' = x.files
    /\ toSender' = IF connected THEN toSender \o x.out ELSE toSender
    /\ UNCHANGED <<sender, loops, buffered, connected>>
    /\ Fewer(toReceiver, toReceiver')
    /\ Fewer(data, data')
    /\ pauses' \in Nat /\ troubles' \in Nat
    /\ Quiet' => Quiet
    /\ sender.id >= 2 => UNCHANGED <<pauses, troubles>>

\* The invariant of the receiver is that of the step that it has made.
LEMMA CommonBecomes ==
    ASSUME frames' = frames, sender'.id = sender.id, NEW x, receiver' = x.r, drain' = x.drain,
           closing' = x.closing, files' = x.files, CommonOK(x, x.drain), DrainOK(x)
    PROVE  CommonOK(OfReceiver, drain)' /\ DrainOK(OfReceiver)'
<1>1. OrderOK(x, x.drain) /\ TakenOK(x, x.drain) /\ ContentsOK(x, x.drain) /\ CloseOK(x)
  BY DEF CommonOK
<1>2. OrderOK(OfReceiver, drain)'
  BY <1>1 DEF OrderOK, OfReceiver, Accepted, CanReceiveData, Writing
<1>3. TakenOK(OfReceiver, drain)'
  BY <1>1 DEF TakenOK, OfReceiver, Accepted, Taken, Before, InWriting, Writing
<1>4. ContentsOK(OfReceiver, drain)'
  BY <1>1 DEF ContentsOK, OfReceiver, Accepted, Taken, Before, InWriting, Writing
<1>5. CloseOK(OfReceiver)'
  BY <1>1 DEF CloseOK, OfReceiver, Whole, SourceOf
<1>6. DrainOK(OfReceiver)'
  BY DEF DrainOK, ByDrainOnce, OfReceiver
<1> QED
  BY <1>2, <1>3, <1>4, <1>5, <1>6 DEF CommonOK

LEMMA ReceiverStep ==
    ASSUME Inv, NEW x, ReceiverMoves(x), Side(x, x.drain), DrainOK(x),
           Quiet' => QuietSide(x, x.drain, data')
    PROVE  Inv'
<1>1. /\ Types /\ x \in Step /\ x.r \in Receiver /\ x.drain \in Drain /\ x.closing \in SUBSET Closing
      /\ x.files \in [Files -> File] /\ x.out \in Seq(ToSender)
      /\ x.r.id = receiver.id /\ x.r.id \in Nat /\ x.r.destination \in Nat
      /\ sender.id \in FileOrNone /\ sender.id \in Nat
  BY StepFields DEF Inv, Side
<1>2. /\ frames' = frames /\ receiver' = x.r /\ drain' = x.drain /\ closing' = x.closing
      /\ files' = x.files /\ sender' = sender /\ loops' = loops /\ buffered' = buffered
      /\ connected' = connected /\ pauses' \in Nat /\ troubles' \in Nat
  BY DEF ReceiverMoves
<1>3. /\ toSender' \in Seq(ToSender) /\ DOMAIN toSender \subseteq DOMAIN toSender'
      /\ \A n \in DOMAIN toSender : toSender'[n] = toSender[n]
      /\ \A n \in DOMAIN toSender' :
            n \in DOMAIN toSender \/ \E k \in DOMAIN x.out : toSender'[n] = x.out[k]
  <2>1. PICK s : s = toSender' /\ Said(x, s)
    BY DEF ReceiverMoves, Said
  <2>2. /\ s \in Seq(ToSender) /\ DOMAIN toSender \subseteq DOMAIN s
        /\ \A n \in DOMAIN toSender : s[n] = toSender[n]
        /\ \A n \in DOMAIN s : n \in DOMAIN toSender \/ \E k \in DOMAIN x.out : s[n] = x.out[k]
    BY <1>1, <2>1, SaidIs
  <2> QED
    BY <2>1, <2>2
<1>4. /\ toReceiver' \in Seq(ToReceiver)
      /\ \E k \in {0, 1} : \A n \in DOMAIN toReceiver' :
            n \in Nat /\ n + k \in DOMAIN toReceiver /\ toReceiver'[n] = toReceiver[n + k]
  <2>1. toReceiver \in Seq(ToReceiver) /\ Fewer(toReceiver, toReceiver')
    BY <1>1 DEF Types, ReceiverMoves
  <2> QED
    BY <2>1, FewerIs, SMTT(40)
<1>5. /\ data' \in Seq(DataFrame)
      /\ \E k \in {0, 1} : \A n \in DOMAIN data' :
            n \in Nat /\ n + k \in DOMAIN data /\ data'[n] = data[n + k]
  <2>1. data \in Seq(DataFrame) /\ Fewer(data, data')
    BY <1>1 DEF Types, ReceiverMoves
  <2> QED
    BY <2>1, FewerIs, SMTT(40)
<1>6. Types'
  BY <1>1, <1>2, <1>3, <1>4, <1>5, SameFrames DEF Types
<1>7. IdsInv'
  <2>1. receiver'.id <= sender'.id /\ receiver'.destination <= receiver'.id
        /\ sender'.reads \in {None, sender'.id}
        /\ (sender'.id # None /\ receiver'.id = sender'.id => sender'.offered)
    BY <1>1, <1>2 DEF Inv, IdsInv, Side, CommonOK, OrderOK
  <2>2. \A n \in DOMAIN toSender' : toSender'[n].id <= receiver'.id
    BY <1>1, <1>2, <1>3 DEF Inv, IdsInv, Side, OutOK
  <2>3. PICK k \in {0, 1} : \A n \in DOMAIN toReceiver' :
            n \in Nat /\ n + k \in DOMAIN toReceiver /\ toReceiver'[n] = toReceiver[n + k]
    BY <1>4
  <2>4. \A n \in DOMAIN toReceiver' :
            /\ toReceiver'[n].id <= sender'.id
            /\ toReceiver'[n].type = "OFFER" => receiver'.id < toReceiver'[n].id
    BY <1>1, <1>2, <2>3 DEF Inv, IdsInv
  <2>5. ASSUME NEW m \in DOMAIN toReceiver', NEW n \in DOMAIN toReceiver', m < n,
               toReceiver'[m].type = "OFFER", toReceiver'[n].type = "OFFER"
        PROVE  toReceiver'[m].id < toReceiver'[n].id
    <3>1. m \in Nat /\ n \in Nat /\ m + k \in DOMAIN toReceiver /\ n + k \in DOMAIN toReceiver
          /\ toReceiver'[m] = toReceiver[m + k] /\ toReceiver'[n] = toReceiver[n + k]
      BY <2>3
    <3>2. m + k < n + k
      BY <2>3, <2>5, <3>1
    <3> QED
      BY <2>5, <3>1, <3>2 DEF Inv, IdsInv
  <2>6. (\E n \in DOMAIN toReceiver' :
            toReceiver'[n].type = "OFFER" /\ toReceiver'[n].id = sender'.id) => sender'.offered
    BY <1>2, <2>3 DEF Inv, IdsInv
  <2> QED
    BY <2>1, <2>2, <2>4, <2>5, <2>6 DEF IdsInv
<1>8. \A f \in Files : LoopInv(f)'
  BY <1>2, SameFrames DEF Inv, LoopInv
<1>9. DataInv' /\ SenderOK(sender)'
  BY <1>2, <1>5 DEF Inv, DataInv, SenderOK
<1>10. CommonOK(OfReceiver, drain)' /\ DrainOK(OfReceiver)'
  BY <1>2, CommonBecomes DEF Side
<1>12. \A n \in DOMAIN toSender' :
          toSender'[n].type = "ACCEPT" => n \in DOMAIN toSender /\ toSender'[n] = toSender[n]
  BY <1>3 DEF Side, OutOK
<1>13. AcceptInv'
  <2>1. \A m, n \in DOMAIN toSender' :
            IsAccept(toSender[m])' /\ IsAccept(toSender[n])' => m = n
    BY <1>2, <1>12 DEF Inv, AcceptInv, IsAccept
  <2>2. ASSUME NEW n \in DOMAIN toSender', IsAccept(toSender[n])'
        PROVE  receiver'.id = sender'.id /\ receiver'.destination = sender'.id
    <3>1. n \in DOMAIN toSender /\ IsAccept(toSender[n])
      BY <1>2, <1>12, <2>2 DEF IsAccept
    <3> QED
      BY <1>1, <1>2, <3>1 DEF Inv, AcceptInv, Side
  <2> QED
    BY <2>1, <2>2 DEF AcceptInv
<1>14. DoneInv'
  <2>1. \A f \in Files : Whole(files, f) => Whole(x.files, f)
    BY DEF Side
  <2>2. sender.id # None => sender.id \in Files
    BY <1>1, FileFacts
  <2>3. Whole(x.files, sender.id) => Whole(files, sender.id)'
    BY <1>2 DEF Whole, SourceOf
  <2>4. ASSUME NEW n \in DOMAIN toSender', toSender'[n].type = "VERIFY_OK",
               toSender'[n].id = sender.id
        PROVE  Whole(x.files, sender.id)
    <3>1. CASE n \in DOMAIN toSender
      <4>1. toSender[n] \in ToSender /\ toSender[n] = toSender'[n]
        BY <1>1, <1>3, <3>1 DEF Types
      <4>2. sender.id \in Files
        BY <2>4, <4>1 DEF ToSender, Signals
      <4>3. Whole(files, sender.id)
        BY <2>4, <3>1, <4>1 DEF Inv, DoneInv
      <4> QED
        BY <2>1, <4>2, <4>3
    <3>2. CASE \E k \in DOMAIN x.out : toSender'[n] = x.out[k]
      BY <2>4, <3>2 DEF Side, OutOK
    <3> QED
      BY <1>3, <3>1, <3>2
  <2>5. sender.id # None /\ sender.state = "COMPLETED" => Whole(files, sender.id)'
    BY <2>1, <2>2, <2>3 DEF Inv, DoneInv
  <2> QED
    BY <1>2, <2>3, <2>4, <2>5 DEF DoneInv
<1>15. sender'.id >= 2 => Quiet'
  BY <1>2 DEF Inv, ReceiverMoves, Quiet
<1>16. ASSUME Quiet'
       PROVE  /\ QuietOK(OfReceiver)' /\ QuietInv' /\ UnbegunInv' /\ SentInv' /\ FinishInv'
              /\ FifoOK(OfReceiver, drain, data)'
  <2>1. /\ Quiet /\ QuietInv /\ UnbegunInv /\ SentInv /\ FinishInv
        /\ QuietOK(x) /\ FifoOK(x, x.drain, data')
        /\ x.r.destination = receiver.destination
        /\ sender.id # None /\ receiver.id = sender.id /\ x.r.finish # NoFinish =>
              Heard(x.r.finish)
        /\ \A n \in DOMAIN x.out : x.out[n].type \notin {"PAUSE", "RESUME", "CANCEL"}
    BY <1>16 DEF ReceiverMoves, Inv, QuietSide
  <2>2. QuietOK(OfReceiver)'
    BY <1>2, <2>1 DEF QuietOK, OfReceiver, Accepted
  <2>3. QuietInv'
    BY <1>2, <1>3, <1>4, <2>1 DEF QuietInv
  <2>4. Begun' <=> Begun
    <3>1. (\E n \in DOMAIN toSender' : IsAccept(toSender[n])') <=>
            (\E n \in DOMAIN toSender : IsAccept(toSender[n]))
      <4>1. ASSUME NEW n \in DOMAIN toSender, IsAccept(toSender[n])
            PROVE  n \in DOMAIN toSender' /\ IsAccept(toSender[n])'
        BY <1>2, <1>3, <4>1 DEF IsAccept
      <4>2. ASSUME NEW n \in DOMAIN toSender', IsAccept(toSender[n])'
            PROVE  n \in DOMAIN toSender /\ IsAccept(toSender[n])
        BY <1>2, <1>12, <4>2 DEF IsAccept
      <4> QED
        BY <4>1, <4>2
    <3> QED
      BY <1>1, <1>2, <2>1, <3>1 DEF Begun
  <2>5. UnbegunInv'
    BY <1>1, <1>2, <1>4, <2>1, <2>4 DEF UnbegunInv, Heard, NoFinish
  <2>6. SentInv'
    BY <1>2, <2>1, <2>4 DEF SentInv, Clean, Doomed, Ascending
  <2>7. FinishInv'
    <3>1. \A bytes, sha256 : FinishOK(bytes, sha256) => FinishOK(bytes, sha256)'
      BY <1>2 DEF FinishOK, Ascending, SourceOf
    <3> QED
      BY <1>1, <1>2, <1>4, <2>1, <3>1 DEF FinishInv, Heard, NoFinish
  <2>8. FifoOK(OfReceiver, drain, data)'
    <3>1. Unspoilt' <=> Unspoilt
      BY <1>2, <2>4 DEF Unspoilt
    <3> QED
      BY <1>2, <2>1, <3>1
         DEF FifoOK, OfReceiver, Accepted, Taken, Before, InWriting, Writing, Arriving
  <2> QED
    BY <2>2, <2>3, <2>5, <2>6, <2>7, <2>8
<1> QED
  BY <1>6, <1>7, <1>8, <1>9, <1>10, <1>13, <1>14, <1>15, <1>16 DEF Inv

Counted ==
    /\ pauses' \in Nat /\ troubles' \in Nat
    /\ Quiet' => Quiet
    /\ sender.id >= 2 => UNCHANGED <<pauses, troubles>>

LEMMA CountedIs ==
    ASSUME Types
    PROVE  /\ UNCHANGED <<pauses, troubles>> => Counted
           /\ APause /\ UNCHANGED troubles => Counted /\ ~ Quiet'
           /\ Trouble /\ UNCHANGED pauses => Counted /\ ~ Quiet'
<1>1. sender.id \in Nat /\ pauses \in Nat /\ troubles \in Nat
  <2>1. sender.id \in FileOrNone /\ pauses \in Nat /\ troubles \in Nat
    BY DEF Types, Sender
  <2> QED
    BY <2>1, FileFacts
<1> QED
  BY <1>1 DEF Counted, APause, Trouble, Quiet

LEMMA BecomesStep ==
    ASSUME Inv, NEW x, frames' = frames, ReceiverBecomes(x), Counted,
           Fewer(toReceiver, toReceiver'), Side(x, x.drain), DrainOK(x),
           Quiet' => QuietSide(x, x.drain, data)
    PROVE  Inv'
<1>1. data' = data
  BY DEF ReceiverBecomes
<1>2. ReceiverMoves(x)
  BY <1>1 DEF ReceiverMoves, ReceiverBecomes, Counted, Fewer
<1>3. Quiet' => QuietSide(x, x.drain, data')
  <2>1. data \in Seq(DataFrame)
    BY DEF Inv, Types
  <2>2. PICK d : d = data
    OBVIOUS
  <2>3. Quiet' => QuietSide(x, x.drain, d)
    BY <2>2
  <2> QED
    BY <1>1, <2>2, <2>3
<1> QED
  BY <1>2, <1>3, ReceiverStep

LEMMA WriteEndsKeeps ==
    ASSUME Inv, frames' = frames, WriteEnds
    PROVE  Inv'
<1>1. PICK x : x = OfReceiver
  OBVIOUS
<1>2. PICK d : d = data
  OBVIOUS
<1>3. /\ Types /\ Side(x, x.drain) /\ DrainOK(x) /\ x.drain = drain
      /\ sender.id >= 2 => Quiet
      /\ Quiet => QuietSide(x, x.drain, d)
  BY <1>1, <1>2, Begins, OfReceiverIs
<1>4. Writing(x.drain)
  BY <1>3 DEF WriteEnds, Writing
<1>5. PICK y : y = Wrote(x)
  OBVIOUS
<1>6. Side(y, y.drain) /\ DrainOK(y) /\ (Quiet => QuietSide(y, y.drain, d))
  BY <1>3, <1>4, <1>5, WroteSide
<1>7. ReceiverBecomes(y) /\ Counted /\ Fewer(toReceiver, toReceiver')
  BY <1>1, <1>3, <1>5, CountedIs DEF WriteEnds, Fewer
<1>8. Quiet' => QuietSide(y, y.drain, data)
  BY <1>2, <1>6, <1>7 DEF Counted
<1> QED
  BY <1>6, <1>7, <1>8, BecomesStep

LEMMA NoFlightSide ==
    ASSUME Types, NEW x, NEW v, Side(x, v), x.r.cancelled, NEW y \in Step,
           y.r.id = x.r.id, y.r.state = x.r.state, y.r.transferred = x.r.transferred,
           y.r.cancelled = x.r.cancelled, y.r.before = x.r.before, y.r.expected = x.r.expected,
           y.r.queue = x.r.queue, y.r.inFlight = 0, y.r.destination = x.r.destination,
           y.r.hash = x.r.hash, y.r.aborting = x.r.aborting, y.r.paused = x.r.paused,
           y.out = x.out, y.closing = x.closing, y.files = x.files
    PROVE  Side(y, v)
<1>1. OrderOK(x, v) /\ ContentsOK(x, v) /\ CloseOK(x) /\ OutOK(x)
  BY DEF Side, CommonOK
<1>2. OrderOK(y, v)
  BY <1>1 DEF OrderOK, Accepted, CanReceiveData
<1>3. TakenOK(y, v) /\ ContentsOK(y, v)
  BY <1>1 DEF TakenOK, ContentsOK, Accepted, Taken, Before
<1>4. CloseOK(y) /\ OutOK(y)
  BY <1>1 DEF CloseOK, OutOK
<1> QED
  BY <1>2, <1>3, <1>4 DEF Side, CommonOK

LEMMA WriteFailsKeeps ==
    ASSUME Inv, frames' = frames, WriteFails
    PROVE  Inv'
<1>1. PICK x : x = OfReceiver
  OBVIOUS
<1>2. /\ Types /\ Side(x, x.drain) /\ DrainOK(x) /\ x.drain = drain /\ x \in Step
      /\ x.r \in Receiver
  BY <1>1, Begins, OfReceiverIs DEF Types
<1>3. Counted /\ ~ Quiet' /\ Fewer(toReceiver, toReceiver')
  BY <1>2, CountedIs DEF WriteFails, Fewer
<1>4. PICK w : w = [x EXCEPT !.r.inFlight = 0]
  OBVIOUS
<1>5. w \in Step /\ w.r = [x.r EXCEPT !.inFlight = 0] /\ w.r \in Receiver
      /\ w.out = x.out /\ w.drain = x.drain /\ w.closing = x.closing /\ w.files = x.files
  BY <1>2, <1>4 DEF Step, Receiver
<1>6. PICK z : z = ReceiverFails(w)
  OBVIOUS
<1>7. Side(z, x.drain) /\ z.r.cancelled /\ z.drain = x.drain /\ z.closing = x.closing
  <2>1. CASE x.r.state \in {"FAILED", "CANCELLED"}
    <3>1. x.r.cancelled
      BY <1>2, <2>1 DEF Side, CommonOK, OrderOK
    <3>2. z = w
      BY <1>2, <1>5, <1>6, <2>1 DEF ReceiverFails, Receiver
    <3>3. Side(w, x.drain)
      BY <1>2, <1>5, <3>1, NoFlightSide DEF Receiver
    <3> QED
      BY <1>2, <1>5, <3>1, <3>2, <3>3 DEF Receiver
  <2>2. CASE x.r.state \notin {"FAILED", "CANCELLED"}
    <3>1. PICK y : y = ReceiverFails(x)
      OBVIOUS
    <3>2. w.r.state = x.r.state /\ w.r.id = x.r.id /\ w.r.destination = x.r.destination
          /\ x.r.id \in FileOrNone
      BY <1>2, <1>5 DEF Receiver
    <3>3. /\ z \in Step /\ z.drain = w.drain /\ z.closing = w.closing
          /\ z.r = [w.r EXCEPT !.cancelled = TRUE, !.queue = <<>>, !.inFlight = 0,
                                !.state = "FAILED"]
          /\ z.files = Aborted(w.files, w.r.destination)
          /\ z.out = Append(w.out, [type |-> "FAIL", id |-> w.r.id])
      BY <1>2, <1>5, <1>6, <2>2, <3>2, FailsIs
    <3>4. /\ y \in Step /\ y.drain = x.drain /\ y.closing = x.closing
          /\ y.r = [x.r EXCEPT !.cancelled = TRUE, !.queue = <<>>, !.inFlight = 0,
                                !.state = "FAILED"]
          /\ y.files = Aborted(x.files, x.r.destination)
          /\ y.out = Append(x.out, [type |-> "FAIL", id |-> x.r.id])
      BY <1>2, <2>2, <3>1, <3>2, FailsIs
    <3>5. /\ SameTaken(y, z) /\ z.r.state = "FAILED" /\ y.r.state = "FAILED"
          /\ z.r.before = x.r.before /\ y.r.before = x.r.before
          /\ z.r.aborting = x.r.aborting /\ y.r.aborting = x.r.aborting
          /\ z.r.cancelled /\ y.r.cancelled
      <4>1. SameTaken(y, z)
        BY <1>2, <1>5, <3>3, <3>4 DEF Receiver, SameTaken
      <4> QED
        BY <1>2, <1>5, <3>3, <3>4, <4>1 DEF Receiver
    <3>6. z.out = y.out /\ z.closing = y.closing /\ z.files = y.files
      BY <1>5, <3>2, <3>3, <3>4
    <3>7. Side(y, x.drain)
      BY <1>2, <3>1, FailsSide
    <3>8. CanReceiveData(z.r) \/ z.r.before = "RECEIVING" => Accepted(y)
      BY <3>5, <3>7 DEF Side, CommonOK, OrderOK, CanReceiveData
    <3>9. Side(z, x.drain)
      BY <1>2, <3>3, <3>5, <3>6, <3>7, <3>8, RestateSide
    <3> QED
      BY <1>5, <3>3, <3>5, <3>9
  <2> QED
    BY <2>1, <2>2
<1>8. Side(z, Idle)
  BY <1>2, <1>7, ForgetsSide
<1>9. PICK u : u = Drains(z)
  OBVIOUS
<1>10. Side(u, u.drain) /\ u.closing = x.closing
  BY <1>2, <1>7, <1>8, <1>9, DrainsSide
<1>11. DrainOK(u)
  BY <1>2, <1>10 DEF DrainOK, WriteFails
<1>12. ReceiverBecomes(u)
  BY <1>1, <1>4, <1>6, <1>9 DEF WriteFails
<1> QED
  BY <1>3, <1>10, <1>11, <1>12, BecomesStep

LEMMA EndsClose ==
    ASSUME Types, NEW x, DrainOK(x), NEW c \in x.closing, NEW z, Side(z, x.drain),
           z.drain = x.drain, z.closing = x.closing \ {c},
           NEW u, u = IF c.by = "drain" THEN Drains(z) ELSE z
    PROVE  /\ Side(u, u.drain) /\ DrainOK(u)
           /\ \A d : QuietSide(z, x.drain, d) => QuietSide(u, u.drain, d)
<1>1. CASE c.by = "drain"
  <2>1. ~ Writing(x.drain) /\ z \in Step /\ OutOK(z) /\ Idle \in Drain /\ ~ Writing(Idle)
    BY <1>1, IdleIs DEF DrainOK, Writing, Side
  <2>2. /\ Side(z, Idle)
        /\ \A d : QuietSide(z, x.drain, d) => QuietSide(z, Idle, d)
    <3>1. \A d : QuietSide(z, x.drain, d) =>
              \A n \in DOMAIN z.out : z.out[n].type \notin {"PAUSE", "RESUME", "CANCEL"}
      BY DEF QuietSide
    <3> QED
      BY <2>1, <3>1, SameSide
  <2>3. Side(u, u.drain) /\ u.closing = z.closing
        /\ (\A d : QuietSide(z, Idle, d) => QuietSide(u, u.drain, d))
    BY <1>1, <2>2, DrainsSide
  <2>4. \A e \in u.closing : e.by # "drain"
    BY <1>1, <2>3 DEF DrainOK, ByDrainOnce
  <2> QED
    BY <2>2, <2>3, <2>4 DEF DrainOK, ByDrainOnce
<1>2. CASE c.by # "drain"
  BY <1>2 DEF DrainOK, ByDrainOnce
<1> QED
  BY <1>1, <1>2

\* What a close leaves when it ends in s.
Left(c, s, state) ==
    [OfReceiver EXCEPT !.closing = @ \ {c}, !.files[c.of].state = s, !.r.state = state]

LEMMA LeftIs ==
    ASSUME Types, NEW c \in closing, NEW s \in {"closed", "aborted"},
           NEW state \in {receiver.state, "COMPLETED"}, NEW y,
           y = Left(c, s, state)
    PROVE  /\ y \in Step /\ SameTaken(OfReceiver, y) /\ y.out = <<>> /\ y.closing = closing \ {c}
           /\ y.drain = drain /\ c.of \in Files
           /\ \A f \in Files : f # c.of => y.files[f] = files[f]
           /\ y.files[c.of].state = s /\ y.files[c.of].contents = files[c.of].contents
           /\ y.r.state = state /\ y.r.before = receiver.before /\ y.r.paused = receiver.paused
           /\ y.r.aborting = receiver.aborting /\ y.r.finish = receiver.finish
<1>1. /\ OfReceiver \in Step /\ OfReceiver.r = receiver /\ OfReceiver.drain = drain
      /\ OfReceiver.closing = closing /\ OfReceiver.files = files /\ OfReceiver.out = <<>>
      /\ receiver \in Receiver /\ files \in [Files -> File] /\ closing \in SUBSET Closing
      /\ drain \in Drain
  BY OfReceiverIs DEF Types
<1>2. c.of \in Files
  BY <1>1 DEF Closing
<1>3. /\ y.r = [receiver EXCEPT !.state = state] /\ y.out = <<>> /\ y.drain = drain
      /\ y.closing = closing \ {c} /\ y.files = Marked(files, c.of, s)
      /\ y = [r |-> y.r, out |-> y.out, drain |-> y.drain, closing |-> y.closing,
              files |-> y.files]
  BY DEF OfReceiver, Marked, Left
<1>4. /\ Marked(files, c.of, s) \in [Files -> File]
      /\ \A f \in Files : f # c.of => y.files[f] = files[f]
      /\ y.files[c.of].state = s /\ y.files[c.of].contents = files[c.of].contents
  BY <1>1, <1>2, <1>3, MarkedIs
<1>5. state \in States
  BY <1>1 DEF Receiver, States
<1>6. y.r \in Receiver
  <2>1. \A r \in Receiver, q \in States : [r EXCEPT !.state = q] \in Receiver
    BY DEF Receiver
  <2> QED
    BY <1>1, <1>3, <1>5, <2>1
<1>7. <<>> \in Seq(ToSender)
  OBVIOUS
<1>8. y \in Step
  BY <1>1, <1>3, <1>4, <1>6, <1>7 DEF Step
<1>9. SameTaken(OfReceiver, y)
  BY <1>1, <1>3 DEF SameTaken, Receiver
<1> QED
  BY <1>1, <1>2, <1>3, <1>4, <1>8, <1>9 DEF Receiver

LEMMA CloseEndsKeeps ==
    ASSUME Inv, frames' = frames, NEW c \in closing, CloseEnds(c)
    PROVE  Inv'
<1>1. PICK x : x = OfReceiver
  OBVIOUS
<1>2. PICK d : d = data
  OBVIOUS
<1>3. /\ Types /\ Side(x, x.drain) /\ DrainOK(x) /\ x.drain = drain /\ x.r = receiver
      /\ x.closing = closing /\ x.files = files /\ x.out = <<>> /\ CloseOK(x)
      /\ c \in x.closing /\ c \in Closing /\ files \in [Files -> File]
      /\ sender.id >= 2 => Quiet
      /\ Quiet => QuietSide(x, x.drain, d)
  BY <1>1, <1>2, Begins, OfReceiverIs DEF Inv, CommonOK, Types
<1>4. PICK y : y = Left(c, "closed", "COMPLETED")
  OBVIOUS
<1>5. /\ y \in Step /\ SameTaken(x, y) /\ y.out = <<>> /\ y.closing = closing \ {c}
      /\ y.drain = drain /\ c.of \in Files
      /\ \A f \in Files : f # c.of => y.files[f] = files[f]
      /\ y.files[c.of].state = "closed" /\ y.files[c.of].contents = files[c.of].contents
      /\ y.r.state = "COMPLETED" /\ y.r.before = receiver.before /\ y.r.paused = receiver.paused
      /\ y.r.aborting = receiver.aborting /\ y.r.finish = receiver.finish
  BY <1>1, <1>3, <1>4, LeftIs
<1>6. /\ c.id \in Nat /\ c.id >= 1 /\ receiver.id \in Nat /\ sender.id \in Nat
      /\ receiver.id <= sender.id /\ c.id \in Files
  <2>1. c.id \in Files /\ receiver.id \in FileOrNone /\ sender.id \in FileOrNone
    BY <1>3 DEF Closing, Types, Receiver, Sender
  <2>2. receiver.id <= sender.id
    BY DEF Inv, IdsInv
  <2>3. c.id >= 1
    BY <2>1 DEF Files
  <2>4. c.id \in Nat /\ receiver.id \in Nat /\ sender.id \in Nat
    BY <2>1, FileFacts
  <2> QED
    BY <2>1, <2>2, <2>3, <2>4
<1>7. c.id <= receiver.id
  BY <1>3 DEF CloseOK
<1>8. ASSUME c.id = receiver.id, c.id \in {1, sender.id}
      PROVE  Whole(y.files, c.id)
  <2>1. c.of = c.id /\ files[c.id].contents = SourceOf(c.id)
    BY <1>3, <1>8 DEF CloseOK
  <2>2. y.files[c.id] \in File
    BY <1>5, <1>6 DEF Step
  <2> QED
    BY <1>5, <2>1, <2>2 DEF Whole, File
<1>9. y.r.id = receiver.id
  BY <1>3, <1>5 DEF SameTaken
<1>10. y.r.state = "COMPLETED" /\ y.r.id = 1 => Whole(y.files, 1)
  BY <1>6, <1>7, <1>8, <1>9
<1>11. Side(y, x.drain) /\ (\A e : QuietSide(x, x.drain, e) => QuietSide(y, x.drain, e))
  BY <1>3, <1>5, <1>10, LeavesSide
<1>12. PICK m : m = [type |-> "VERIFY_OK", id |-> c.id]
  OBVIOUS
<1>13. m \in ToSender /\ m.type = "VERIFY_OK" /\ m.id = c.id
  BY <1>6, <1>12 DEF ToSender
<1>14. m.id = sender.id => Whole(y.files, sender.id)
  BY <1>6, <1>7, <1>8, <1>13
<1>15. PICK z : z = ReceiverSays(y, m)
  OBVIOUS
<1>16. /\ Side(z, x.drain) /\ z.drain = y.drain /\ z.closing = y.closing
       /\ \A e : QuietSide(y, x.drain, e) => QuietSide(z, x.drain, e)
  BY <1>3, <1>7, <1>11, <1>13, <1>14, <1>15, SaysSide DEF Reports
<1>17. PICK u : u = IF c.by = "drain" THEN Drains(z) ELSE z
  OBVIOUS
<1>18. /\ Side(u, u.drain) /\ DrainOK(u)
       /\ \A e : QuietSide(z, x.drain, e) => QuietSide(u, u.drain, e)
  BY <1>3, <1>5, <1>16, <1>17, EndsClose
<1>19. u = Closed(c)
  BY <1>4, <1>12, <1>15, <1>17 DEF Closed, Left
<1>20. ReceiverBecomes(u) /\ Counted /\ Fewer(toReceiver, toReceiver')
  BY <1>3, <1>19, CountedIs DEF CloseEnds, Fewer
<1>21. Quiet' => QuietSide(u, u.drain, data)
  BY <1>2, <1>3, <1>11, <1>16, <1>18, <1>20 DEF Counted
<1> QED
  BY <1>18, <1>20, <1>21, BecomesStep

LEMMA CloseFailsKeeps ==
    ASSUME Inv, frames' = frames, NEW c \in closing, CloseFails(c)
    PROVE  Inv'
<1>1. PICK x : x = OfReceiver
  OBVIOUS
<1>3. /\ Types /\ Side(x, x.drain) /\ DrainOK(x) /\ x.drain = drain /\ x.r = receiver
      /\ x.closing = closing /\ x.files = files /\ x.out = <<>> /\ CloseOK(x)
      /\ c \in x.closing /\ c \in Closing
  BY <1>1, Begins, OfReceiverIs DEF Inv, CommonOK, Types
<1>4. PICK y : y = [OfReceiver EXCEPT !.closing = @ \ {c}, !.files[c.of].state = "aborted"]
  OBVIOUS
<1>5. y = Left(c, "aborted", receiver.state)
  <2>1. receiver = [receiver EXCEPT !.state = receiver.state]
    BY <1>3 DEF Types, Receiver
  <2>2. y = [r |-> receiver, out |-> <<>>, drain |-> drain, closing |-> closing \ {c},
             files |-> Marked(files, c.of, "aborted")]
    BY <1>4 DEF OfReceiver, Marked
  <2>3. PICK s : s = receiver.state
    OBVIOUS
  <2>4. PICK w : w = Left(c, "aborted", s)
    OBVIOUS
  <2>5. /\ w.r = [receiver EXCEPT !.state = s] /\ w.out = <<>> /\ w.drain = drain
        /\ w.closing = closing \ {c} /\ w.files = Marked(files, c.of, "aborted")
        /\ w = [r |-> w.r, out |-> w.out, drain |-> w.drain, closing |-> w.closing,
                files |-> w.files]
    BY <2>4 DEF OfReceiver, Marked, Left
  <2> QED
    BY <2>1, <2>2, <2>3, <2>4, <2>5
<1>6. /\ y \in Step /\ SameTaken(x, y) /\ y.out = <<>> /\ y.closing = closing \ {c}
      /\ y.drain = drain /\ c.of \in Files
      /\ \A f \in Files : f # c.of => y.files[f] = files[f]
      /\ y.files[c.of].state = "aborted"
      /\ y.r.state = receiver.state /\ y.r.before = receiver.before
      /\ y.r.paused = receiver.paused
      /\ y.r.aborting = receiver.aborting /\ y.r.finish = receiver.finish
  BY <1>1, <1>3, <1>5, LeftIs
<1>7. y.r.state = "COMPLETED" /\ y.r.id = 1 => Whole(y.files, 1)
  <2>1. SUFFICES ASSUME y.r.state = "COMPLETED", y.r.id = 1
                 PROVE  Whole(y.files, 1)
    OBVIOUS
  <2>2. Whole(files, 1) /\ files[c.of].state = "closing"
    BY <1>3, <1>6, <2>1 DEF CloseOK, SameTaken
  <2>3. 1 \in Files
    <3>1. receiver.id = 1 /\ receiver.id \in FileOrNone
      BY <1>3, <1>6, <2>1 DEF SameTaken, Types, Receiver
    <3> QED
      BY <3>1, FileFacts DEF None
  <2> QED
    BY <1>6, <2>2, <2>3 DEF Whole
<1>8. Side(y, x.drain)
  BY <1>3, <1>6, <1>7, LeavesSide
<1>9. PICK z : z = ReceiverFails(y)
  OBVIOUS
<1>10. Side(z, x.drain) /\ z.drain = y.drain /\ z.closing = y.closing
  BY <1>3, <1>8, <1>9, FailsSide
<1>11. PICK u : u = IF c.by = "drain" THEN Drains(z) ELSE z
  OBVIOUS
<1>12. Side(u, u.drain) /\ DrainOK(u)
  BY <1>3, <1>6, <1>10, <1>11, EndsClose
<1>13. ReceiverBecomes(u) /\ Counted /\ Fewer(toReceiver, toReceiver') /\ ~ Quiet'
  BY <1>3, <1>4, <1>9, <1>11, CountedIs DEF CloseFails, Fewer
<1> QED
  BY <1>12, <1>13, BecomesStep

-----------------------------------------------------------------------------
(* The receiver pauses, resumes and is cancelled.                            *)

WithR(x, q) == [x EXCEPT !.r = q]

LEMMA WithIs ==
    ASSUME NEW x \in Step, NEW q \in Receiver
    PROVE  /\ WithR(x, q) \in Step /\ WithR(x, q).r = q /\ WithR(x, q).out = x.out
           /\ WithR(x, q).drain = x.drain /\ WithR(x, q).closing = x.closing
           /\ WithR(x, q).files = x.files
  BY DEF WithR, Step

LEMMA PausedIs ==
    ASSUME NEW r \in Receiver, CanPause(r)
    PROVE  Paused(r) \in Receiver
<1>1. PICK q \in {"SENDING", "RECEIVING"} : q = r.state
  BY DEF CanPause
<1>2. [r EXCEPT !.paused = TRUE, !.before = q, !.state = "PAUSED"] \in Receiver
  BY DEF Receiver, States
<1> QED
  BY <1>1, <1>2 DEF Paused

LEMMA ResumedIs ==
    ASSUME NEW r \in Receiver
    PROVE  ReceiverResumed(r) \in Receiver
<1>1. PICK q \in {"IDLE", "SENDING", "RECEIVING"} : q = r.before
  BY DEF Receiver
<1>2. [r EXCEPT !.paused = FALSE, !.state = q] \in Receiver
  BY DEF Receiver, States
<1> QED
  BY <1>1, <1>2 DEF ReceiverResumed

LEMMA PausesSide ==
    ASSUME Types, NEW x, NEW v, Side(x, v), CanPause(x.r), NEW y, y = WithR(x, Paused(x.r))
    PROVE  Side(y, v) /\ y.drain = x.drain /\ y.closing = x.closing
<1>1. /\ x \in Step /\ x.r \in Receiver /\ OrderOK(x, v)
  BY StepFields DEF Side, CommonOK
<1>2. y \in Step /\ y.r = Paused(x.r) /\ y.out = x.out /\ y.drain = x.drain
      /\ y.closing = x.closing /\ y.files = x.files
  BY <1>1, PausedIs, WithIs
<1>3. SameTaken(x, y)
  BY <1>1, <1>2 DEF SameTaken, Paused, Receiver
<1>4. y.r.state = "PAUSED" /\ y.r.before = x.r.state /\ y.r.aborting = x.r.aborting
  BY <1>1, <1>2 DEF Paused, Receiver
<1>5. CanReceiveData(y.r) \/ y.r.before = "RECEIVING" => Accepted(x)
  BY <1>1, <1>4 DEF OrderOK, CanReceiveData
<1> QED
  BY <1>2, <1>3, <1>4, <1>5, RestateSide

LEMMA ResumesSide ==
    ASSUME Types, NEW x, NEW v, Side(x, v), NEW y, y = WithR(x, ReceiverResumed(x.r))
    PROVE  Side(y, v) /\ y.drain = x.drain /\ y.closing = x.closing
<1>1. /\ x \in Step /\ x.r \in Receiver /\ OrderOK(x, v)
      /\ x.r.before \in {"IDLE", "SENDING", "RECEIVING"}
  BY StepFields DEF Side, CommonOK
<1>2. y \in Step /\ y.r = ReceiverResumed(x.r) /\ y.out = x.out /\ y.drain = x.drain
      /\ y.closing = x.closing /\ y.files = x.files
  BY <1>1, ResumedIs, WithIs
<1>3. SameTaken(x, y)
  BY <1>1, <1>2 DEF SameTaken, ReceiverResumed, Receiver
<1>4. y.r.state = x.r.before /\ y.r.before = x.r.before /\ y.r.aborting = x.r.aborting
  BY <1>1, <1>2 DEF ReceiverResumed, Receiver
<1>5. CanReceiveData(y.r) \/ y.r.before = "RECEIVING" => Accepted(x)
  BY <1>1, <1>4 DEF OrderOK, CanReceiveData
<1> QED
  BY <1>1, <1>2, <1>3, <1>4, <1>5, RestateSide

LEMMA SignalIs ==
    ASSUME NEW f \in FileOrNone
    PROVE  /\ \A t \in {"PAUSE", "RESUME", "FAIL"} : [type |-> t, id |-> f] \in ToSender
           /\ f # None => [type |-> "CANCEL", id |-> f] \in ToSender
<1>1. f # None => f \in Files
  BY FileFacts
<1> QED
  BY <1>1 DEF ToSender, Signals

\* OfReceiver, where nothing need be quiet.
LEMMA BeginsAnyhow ==
    ASSUME Inv
    PROVE  /\ Types /\ Side(OfReceiver, drain) /\ DrainOK(OfReceiver) /\ OfReceiver \in Step
           /\ OfReceiver.r = receiver /\ OfReceiver.drain = drain /\ OfReceiver.closing = closing
           /\ OfReceiver.files = files /\ OfReceiver.out = <<>>
           /\ receiver \in Receiver /\ receiver.id \in FileOrNone /\ receiver.id \in Nat
           /\ OrderOK(OfReceiver, drain)
<1>1. Types
  BY DEF Inv
<1>2. receiver \in Receiver /\ receiver.id \in FileOrNone /\ receiver.id \in Nat
  <2>1. receiver \in Receiver /\ receiver.id \in FileOrNone
    BY <1>1 DEF Types, Receiver
  <2> QED
    BY <2>1, FileFacts
<1> QED
  BY <1>1, <1>2, Begins, OfReceiverIs DEF Inv, CommonOK

LEMMA ReceiverPausesKeeps ==
    ASSUME Inv, frames' = frames, ReceiverPauses \/ ReceiverResumes
    PROVE  Inv'
<1>1. PICK x : x = OfReceiver
  OBVIOUS
<1>2. /\ Types /\ Side(x, x.drain) /\ DrainOK(x) /\ x.r = receiver /\ x.drain = drain
      /\ receiver.id \in FileOrNone /\ receiver.id \in Nat
  BY <1>1, BeginsAnyhow
<1>3. ASSUME NEW y, Side(y, x.drain), y.drain = x.drain, y.closing = x.closing,
             NEW m, m \in ToSender, m.type \in {"PAUSE", "RESUME"}, m.id = receiver.id,
             ReceiverBecomes(ReceiverSays(y, m)), Counted, Fewer(toReceiver, toReceiver'), ~ Quiet'
      PROVE  Inv'
  <2>1. PICK z : z = ReceiverSays(y, m)
    OBVIOUS
  <2>2. Side(z, z.drain) /\ z.drain = x.drain /\ z.closing = x.closing
    BY <1>2, <1>3, <2>1, SaysSide
  <2>3. DrainOK(z)
    BY <1>2, <2>2 DEF DrainOK
  <2> QED
    BY <1>3, <2>1, <2>2, <2>3, BecomesStep
<1>4. CASE ReceiverPauses
  <2>1. PICK y : y = WithR(x, Paused(x.r))
    OBVIOUS
  <2>2. Side(y, x.drain) /\ y.drain = x.drain /\ y.closing = x.closing
    BY <1>2, <1>4, <2>1, PausesSide DEF ReceiverPauses
  <2>3. PICK m : m = [type |-> "PAUSE", id |-> receiver.id]
    OBVIOUS
  <2>4. m \in ToSender /\ m.type = "PAUSE" /\ m.id = receiver.id
    BY <1>2, <2>3, SignalIs
  <2>5. y = [OfReceiver EXCEPT !.r = Paused(@)]
    BY <1>1, <2>1 DEF WithR, OfReceiver
  <2>6. ReceiverBecomes(ReceiverSays(y, m)) /\ Fewer(toReceiver, toReceiver')
    BY <1>4, <2>3, <2>5 DEF ReceiverPauses, Fewer
  <2>7. Counted /\ ~ Quiet'
    BY <1>2, <1>4, CountedIs DEF ReceiverPauses
  <2> QED
    BY <1>3, <2>2, <2>4, <2>6, <2>7
<1>5. CASE ReceiverResumes
  <2>1. PICK y : y = WithR(x, ReceiverResumed(x.r))
    OBVIOUS
  <2>2. Side(y, x.drain) /\ y.drain = x.drain /\ y.closing = x.closing
    BY <1>2, <2>1, ResumesSide
  <2>3. PICK m : m = [type |-> "RESUME", id |-> receiver.id]
    OBVIOUS
  <2>4. m \in ToSender /\ m.type = "RESUME" /\ m.id = receiver.id
    BY <1>2, <2>3, SignalIs
  <2>5. y = [OfReceiver EXCEPT !.r = ReceiverResumed(@)]
    BY <1>1, <2>1 DEF WithR, OfReceiver
  <2>6. ReceiverBecomes(ReceiverSays(y, m)) /\ Fewer(toReceiver, toReceiver')
    BY <1>5, <2>3, <2>5 DEF ReceiverResumes, Fewer
  <2>7. Counted
    BY <1>2, <1>5, CountedIs DEF ReceiverResumes
  <2>8. ~ Quiet'
    <3>1. receiver.paused
      BY <1>5 DEF ReceiverResumes
    <3> QED
      BY <1>1, <1>2, <2>7, <3>1 DEF Counted, Inv, QuietOK
  <2> QED
    BY <1>3, <2>2, <2>4, <2>6, <2>7, <2>8
<1> QED
  BY <1>4, <1>5

GivesUp(r, aborting) ==
    [r EXCEPT !.cancelled = TRUE, !.queue = <<>>, !.inFlight = 0, !.aborting = aborting]

LEMMA GivesUpIs ==
    ASSUME NEW r \in Receiver, NEW a \in BOOLEAN, NEW e, e = GivesUp(r, a)
    PROVE  /\ e \in Receiver /\ e.cancelled /\ e.queue = <<>> /\ e.inFlight = 0
           /\ e.id = r.id /\ e.destination = r.destination /\ e.hash = r.hash
           /\ e.transferred = r.transferred /\ e.expected = r.expected
           /\ e.before = r.before /\ e.state = r.state /\ e.aborting = a
<1>1. <<>> \in Seq(Payloads) /\ 0 \in Nat /\ TRUE \in BOOLEAN
  OBVIOUS
<1>2. [r EXCEPT !.cancelled = TRUE, !.queue = <<>>, !.inFlight = 0, !.aborting = a] \in Receiver
  BY <1>1 DEF Receiver
<1>3. e \in Receiver
  BY <1>2 DEF GivesUp
<1> QED
  BY <1>3 DEF Receiver, GivesUp

LEMMA GivenUpIs ==
    ASSUME Types, NEW x, NEW v, Side(x, v), NEW aborting \in BOOLEAN, x.r.id # None,
           NEW y, y.r = GivesUp(x.r, aborting),
           y.out = x.out, y.drain = x.drain, y.closing = x.closing,
           y.files = Aborted(x.files, x.r.destination),
           y = [r |-> y.r, out |-> y.out, drain |-> y.drain, closing |-> y.closing,
                files |-> y.files]
    PROVE  Side(y, v) /\ y.r.cancelled
<1>1. /\ x \in Step /\ x.r \in Receiver /\ x.files \in [Files -> File]
      /\ x.r.destination \in FileOrNone /\ OutOK(x) /\ x.out \in Seq(ToSender)
      /\ x.drain \in Drain /\ x.closing \in SUBSET Closing
  BY StepFields DEF Side
<1>4. /\ y.r \in Receiver /\ y.r.cancelled /\ y.r.queue = <<>> /\ y.r.inFlight = 0
      /\ y.r.id = x.r.id /\ y.r.destination = x.r.destination /\ y.r.hash = x.r.hash
      /\ y.r.transferred = x.r.transferred /\ y.r.expected = x.r.expected
      /\ y.r.before = x.r.before /\ y.r.state = x.r.state
  BY <1>1, GivesUpIs
<1>5. y.files \in [Files -> File]
  BY <1>1, AbortedIs
<1>6. y \in Step
  BY <1>1, <1>4, <1>5 DEF Step
<1>7. \A f \in Files : Whole(x.files, f) => Whole(y.files, f)
  <2>1. \A f \in Files : x.files[f].state # "open" => y.files[f] = x.files[f]
    BY <1>1, AbortedIs
  <2> QED
    BY <2>1 DEF Whole
<1>8. OutOK(y)
  <2>1. \A n \in DOMAIN x.out : x.out[n].type = "VERIFY_OK" => x.out[n].id \in Files
    <3>1. \A n \in DOMAIN x.out : x.out[n] \in ToSender
      BY <1>1
    <3> QED
      BY <3>1 DEF ToSender, Signals
  <2> QED
    BY <1>1, <1>7, <2>1 DEF OutOK
<1> QED
  BY <1>4, <1>6, <1>8, StopsSide

LEMMA ReceiverCancelsKeeps ==
    ASSUME Inv, frames' = frames, ReceiverCancels
    PROVE  Inv'
<1>1. PICK x : x = OfReceiver
  OBVIOUS
<1>2. /\ Types /\ Side(x, x.drain) /\ DrainOK(x) /\ x.r = receiver /\ x.drain = drain
      /\ x.closing = closing /\ x.files = files /\ x.out = <<>>
      /\ receiver.id \in FileOrNone /\ receiver.id \in Nat /\ receiver.id # None
      /\ receiver \in Receiver
  BY <1>1, BeginsAnyhow DEF ReceiverCancels
<1>3. PICK y : y = [OfReceiver EXCEPT !.r = Emptied(@),
                                      !.files = Aborted(@, receiver.destination)]
  OBVIOUS
<1>4. /\ y.r = Emptied(receiver) /\ y.out = <<>> /\ y.drain = drain /\ y.closing = closing
      /\ y.files = Aborted(files, receiver.destination)
      /\ y = [r |-> y.r, out |-> y.out, drain |-> y.drain, closing |-> y.closing,
              files |-> y.files]
  BY <1>3 DEF OfReceiver
<1>5. \E aborting \in BOOLEAN : y.r = GivesUp(receiver, aborting)
  <2>1. PICK a \in BOOLEAN : a = receiver.aborting
    BY <1>2 DEF Receiver
  <2>2. Emptied(receiver) = GivesUp(receiver, a)
    BY <1>2, <2>1 DEF Emptied, GivesUp, Receiver
  <2> QED
    BY <1>4, <2>2
<1>6. PICK aborting \in BOOLEAN : y.r = GivesUp(receiver, aborting)
  BY <1>5
<1>7. Side(y, x.drain) /\ y.r.cancelled
  BY <1>2, <1>4, <1>6, GivenUpIs
<1>8. PICK m : m = [type |-> "CANCEL", id |-> receiver.id]
  OBVIOUS
<1>9. m \in ToSender /\ m.type = "CANCEL" /\ m.id = receiver.id
  BY <1>2, <1>8, SignalIs
<1>10. PICK z : z = ReceiverSays(y, m)
  OBVIOUS
<1>11. Side(z, x.drain) /\ z.drain = x.drain /\ z.closing = x.closing
  BY <1>2, <1>4, <1>7, <1>9, <1>10, SaysSide
<1>12. z.r.cancelled
  <2>1. CASE connected
    BY <1>4, <1>7, <1>10, <2>1 DEF ReceiverSays
  <2>2. CASE ~ connected
    BY <1>2, <1>7, <1>10, <2>2, FailsSide DEF ReceiverSays
  <2> QED
    BY <2>1, <2>2
<1>13. PICK u : u = [z EXCEPT !.r.state = "CANCELLED"]
  OBVIOUS
<1>14. /\ z \in Step /\ z.r \in Receiver /\ OrderOK(z, x.drain)
  BY <1>2, <1>11, StepFields DEF Side, CommonOK
<1>15. \A r \in Receiver :
          LET e == [r EXCEPT !.state = "CANCELLED"]
          IN  e \in Receiver /\ e.state = "CANCELLED" /\ e.before = r.before
              /\ e.aborting = r.aborting /\ e.id = r.id /\ e.transferred = r.transferred
              /\ e.cancelled = r.cancelled /\ e.expected = r.expected /\ e.queue = r.queue
              /\ e.inFlight = r.inFlight /\ e.destination = r.destination /\ e.hash = r.hash
  BY DEF Receiver, States
<1>16. /\ u.r = [z.r EXCEPT !.state = "CANCELLED"] /\ u \in Step
       /\ u.out = z.out /\ u.drain = z.drain /\ u.closing = z.closing /\ u.files = z.files
  BY <1>13, <1>14, <1>15 DEF Step
<1>17. /\ SameTaken(z, u) /\ u.r.state = "CANCELLED" /\ u.r.before = z.r.before
       /\ u.r.aborting = z.r.aborting
  BY <1>14, <1>15, <1>16 DEF SameTaken
<1>18. CanReceiveData(u.r) \/ u.r.before = "RECEIVING" => Accepted(z)
  BY <1>14, <1>17 DEF OrderOK, CanReceiveData
<1>19. Side(u, u.drain)
  BY <1>2, <1>11, <1>12, <1>16, <1>17, <1>18, RestateSide
<1>20. DrainOK(u)
  BY <1>2, <1>11, <1>16 DEF DrainOK
<1>21. ReceiverBecomes(u) /\ Counted /\ ~ Quiet' /\ Fewer(toReceiver, toReceiver')
  BY <1>2, <1>3, <1>8, <1>10, <1>13, CountedIs DEF ReceiverCancels, Fewer
<1> QED
  BY <1>19, <1>20, <1>21, BecomesStep

LEMMA AbortEndsKeeps ==
    ASSUME Inv, frames' = frames, AbortEnds
    PROVE  Inv'
<1>1. PICK x : x = OfReceiver
  OBVIOUS
<1>2. /\ Types /\ Side(x, x.drain) /\ DrainOK(x) /\ x.r = receiver /\ x.drain = drain
      /\ x \in Step /\ receiver \in Receiver /\ OrderOK(x, x.drain)
  BY <1>1, BeginsAnyhow
<1>3. x.r.cancelled
  BY <1>2 DEF OrderOK, AbortEnds
<1>4. \A r \in Receiver :
          LET e == [r EXCEPT !.aborting = FALSE, !.state = "CANCELLED"]
          IN  e \in Receiver /\ e.state = "CANCELLED" /\ e.before = r.before
              /\ e.aborting = FALSE /\ e.id = r.id /\ e.transferred = r.transferred
              /\ e.cancelled = r.cancelled /\ e.expected = r.expected /\ e.queue = r.queue
              /\ e.inFlight = r.inFlight /\ e.destination = r.destination /\ e.hash = r.hash
  BY DEF Receiver, States
<1>5. PICK u : u = WithR(x, [receiver EXCEPT !.aborting = FALSE, !.state = "CANCELLED"])
  OBVIOUS
<1>6. /\ u.r = [receiver EXCEPT !.aborting = FALSE, !.state = "CANCELLED"] /\ u \in Step
      /\ u.out = x.out /\ u.drain = x.drain /\ u.closing = x.closing /\ u.files = x.files
  BY <1>2, <1>4, <1>5, WithIs
<1>7. SameTaken(x, u) /\ u.r.state = "CANCELLED" /\ u.r.before = x.r.before /\ u.r.aborting = FALSE
  BY <1>2, <1>4, <1>6, ZenonT(60) DEF SameTaken
<1>8. CanReceiveData(u.r) \/ u.r.before = "RECEIVING" => Accepted(x)
  BY <1>2, <1>7 DEF OrderOK, CanReceiveData
<1>9. Side(u, u.drain)
  BY <1>2, <1>3, <1>6, <1>7, <1>8, RestateSide
<1>10. DrainOK(u)
  BY <1>2, <1>6 DEF DrainOK
<1>11. u = [OfReceiver EXCEPT !.r.aborting = FALSE, !.r.state = "CANCELLED"]
  BY <1>1, <1>5 DEF WithR, OfReceiver
<1>12. ReceiverBecomes(u) /\ Counted /\ Fewer(toReceiver, toReceiver')
  BY <1>2, <1>11, CountedIs DEF AbortEnds, Fewer
<1>13. ~ Quiet'
  BY <1>1, <1>2, <1>12 DEF Counted, Inv, QuietOK, AbortEnds
<1> QED
  BY <1>9, <1>10, <1>12, <1>13, BecomesStep

LEMMA FrameArrivesKeeps ==
    ASSUME Inv, frames' = frames, FrameArrives
    PROVE  Inv'
<1>1. PICK x : x = OfReceiver
  OBVIOUS
<1>2. PICK d : d = data
  OBVIOUS
<1>3. /\ Types /\ Side(x, x.drain) /\ DrainOK(x) /\ x.drain = drain /\ x.closing = closing
      /\ Quiet => QuietSide(x, x.drain, d)
  BY <1>1, <1>2, Begins, OfReceiverIs
<1>4. d \in Seq(DataFrame) /\ d # <<>>
  <2>1. data \in Seq(DataFrame) /\ buffered \in Nat /\ Len(data) > buffered
    BY <1>3 DEF Types, FrameArrives
  <2>2. Len(data) # 0
    BY <2>1
  <2> QED
    BY <1>2, <2>1, <2>2, EmptySeq
<1>5. 1 \in DOMAIN d /\ Head(d) = d[1]
  BY <1>4, OneFewer
<1>6. Head(d).payload[1] <= Head(d).ref /\ Head(d).payload[2] = Head(d).offset
  BY <1>2, <1>5 DEF Inv, DataInv
<1>7. PICK y : y = HandlesData(x, Head(d))
  OBVIOUS
<1>8. Side(y, y.drain) /\ y.closing = x.closing /\ (Quiet => QuietSide(y, y.drain, Tail(d)))
  BY <1>3, <1>4, <1>6, <1>7, HandlesSide
<1>9. x.drain.pc # "idle" => y.drain = x.drain
  <2>1. x \in Step /\ x.r.id \in FileOrNone
    BY <1>3, StepFields DEF Side
  <2>2. ReceiverFails(x).drain = x.drain
    BY <1>3, <2>1, FailsIs
  <2> QED
    BY <1>7, <2>1, <2>2 DEF HandlesData, Step
<1>10. DrainOK(y)
  BY <1>3, <1>8, <1>9 DEF DrainOK
<1>11. ReceiverMoves(y)
  <2>1. UNCHANGED <<pauses, troubles>> /\ Counted
    BY <1>3, CountedIs DEF FrameArrives
  <2>2. Fewer(data, data') /\ Fewer(toReceiver, toReceiver')
    BY <1>2, <1>4 DEF Fewer, FrameArrives
  <2> QED
    BY <1>1, <1>2, <1>3, <1>7, <1>8, <2>1, <2>2 DEF FrameArrives, ReceiverMoves, Counted
<1>12. Quiet' => QuietSide(y, y.drain, data')
  <2>1. PICK t : t = Tail(d)
    OBVIOUS
  <2>2. data' = t
    BY <1>2, <2>1 DEF FrameArrives
  <2>3. Quiet' => QuietSide(y, y.drain, t)
    BY <1>8, <1>11, <2>1 DEF ReceiverMoves
  <2> QED
    BY <2>2, <2>3
<1> QED
  BY <1>8, <1>10, <1>11, <1>12, ReceiverStep

-----------------------------------------------------------------------------
(* The receiver hears the sender.                                            *)

HeadIs(m) == m = Head(toReceiver) /\ toReceiver # <<>>

LEMMA HeadFacts ==
    ASSUME Inv, NEW m, HeadIs(m)
    PROVE  /\ m \in ToReceiver /\ 1 \in DOMAIN toReceiver /\ toReceiver[1] = m
           /\ m.id \in FileOrNone /\ m.id \in Nat
           /\ m.type \in {"PAUSE", "RESUME", "FAIL", "CANCEL", "OFFER", "START", "FINISH"}
           /\ m.type \in {"CANCEL", "OFFER"} => m.id \in Files
           /\ m.type = "FINISH" => m.bytes \in Nat /\ m.sha256 \in Seq(Payloads)
<1>1. toReceiver \in Seq(ToReceiver)
  BY DEF Inv, Types
<1>2. m \in ToReceiver /\ 1 \in DOMAIN toReceiver /\ toReceiver[1] = m
  BY <1>1, OneFewer DEF HeadIs
<1>3. /\ m.id \in FileOrNone
      /\ m.type \in {"PAUSE", "RESUME", "FAIL", "CANCEL", "OFFER", "START", "FINISH"}
      /\ m.type \in {"CANCEL", "OFFER"} => m.id \in Files
      /\ m.type = "FINISH" => m.bytes \in Nat /\ m.sha256 \in Seq(Payloads)
  BY <1>2, FileFacts DEF ToReceiver, Signals
<1> QED
  BY <1>2, <1>3, FileFacts

FinishedBy(x, m) == [x EXCEPT !.r.finish = [bytes |-> m.bytes, sha256 |-> m.sha256]]

LEMMA FinishedSide ==
    ASSUME Inv, NEW m, HeadIs(m), m.type = "FINISH", m.id = receiver.id, NEW d, d = data,
           NEW y, y = FinishedBy(OfReceiver, m)
    PROVE  /\ Side(y, drain) /\ y.drain = drain /\ y.closing = closing
           /\ Quiet => QuietSide(y, drain, d)
<1>1. PICK x : x = OfReceiver
  OBVIOUS
<1>2. /\ Types /\ Side(x, drain) /\ x \in Step /\ x.r = receiver /\ x.drain = drain
      /\ x.closing = closing /\ receiver \in Receiver /\ OrderOK(x, drain)
      /\ Quiet => QuietSide(x, drain, d)
  BY <1>1, Begins, BeginsAnyhow
<1>3. /\ m \in ToReceiver /\ 1 \in DOMAIN toReceiver /\ toReceiver[1] = m
      /\ m.bytes \in Nat /\ m.sha256 \in Seq(Payloads)
  BY HeadFacts
<1>4. PICK finish : finish = [bytes |-> m.bytes, sha256 |-> m.sha256]
  OBVIOUS
<1>5. finish \in [bytes : Int, sha256 : Seq(Payloads)] /\ finish.bytes = m.bytes
      /\ finish.sha256 = m.sha256
  BY <1>3, <1>4
<1>6. \A r \in Receiver, q \in [bytes : Int, sha256 : Seq(Payloads)] :
          LET e == [r EXCEPT !.finish = q]
          IN  /\ e \in Receiver /\ e.finish = q /\ e.state = r.state /\ e.before = r.before
              /\ e.aborting = r.aborting /\ e.paused = r.paused
              /\ e.id = r.id /\ e.transferred = r.transferred
              /\ e.cancelled = r.cancelled /\ e.expected = r.expected /\ e.queue = r.queue
              /\ e.inFlight = r.inFlight /\ e.destination = r.destination /\ e.hash = r.hash
  BY ZenonT(60) DEF Receiver
<1>7. y = WithR(x, [receiver EXCEPT !.finish = finish])
  BY <1>1, <1>4 DEF FinishedBy, WithR, OfReceiver
<1>8. PICK q : q = [receiver EXCEPT !.finish = finish]
  OBVIOUS
<1>9. /\ q \in Receiver /\ q.finish = finish /\ q.state = receiver.state
      /\ q.before = receiver.before /\ q.aborting = receiver.aborting
      /\ q.paused = receiver.paused
      /\ q.id = receiver.id /\ q.transferred = receiver.transferred
      /\ q.cancelled = receiver.cancelled /\ q.expected = receiver.expected
      /\ q.queue = receiver.queue /\ q.inFlight = receiver.inFlight
      /\ q.destination = receiver.destination /\ q.hash = receiver.hash
  BY <1>2, <1>5, <1>6, <1>8
<1>10. /\ y \in Step /\ y.r = q /\ y.out = x.out /\ y.drain = x.drain /\ y.closing = x.closing
       /\ y.files = x.files
  BY <1>2, <1>7, <1>8, <1>9, WithIs
<1>11. SameTaken(x, y)
  BY <1>2, <1>9, <1>10 DEF SameTaken
<1>12. CanReceiveData(y.r) \/ y.r.before = "RECEIVING" => Accepted(x)
  BY <1>2, <1>9, <1>10 DEF OrderOK, CanReceiveData
<1>13. y.r.state \in {"FAILED", "CANCELLED"} => x.r.cancelled
  BY <1>2, <1>9, <1>10 DEF OrderOK
<1>14. ASSUME Quiet, sender.id # None, receiver.id = sender.id
       PROVE  Heard(y.r.finish)
  <2>1. Begun
    BY <1>3, <1>14 DEF Inv, UnbegunInv
  <2>2. FinishOK(m.bytes, m.sha256)
    BY <1>3, <1>14 DEF Inv, FinishInv
  <2> QED
    BY <1>5, <1>9, <1>10, <2>1, <2>2 DEF Heard
<1>15. /\ Side(y, drain)
       /\ \A e : QuietSide(x, drain, e) /\ ~ y.r.paused /\ ~ y.r.aborting
                 /\ (sender.id # None /\ receiver.id = sender.id =>
                        y.r.finish \in {NoFinish, x.r.finish} \/ Heard(y.r.finish))
                 => QuietSide(y, drain, e)
  BY <1>2, <1>9, <1>10, <1>11, <1>12, <1>13, RestateSide
<1>16. Quiet => QuietSide(y, drain, d)
  <2>1. Quiet => ~ x.r.paused /\ ~ x.r.aborting
    BY <1>2 DEF QuietSide, QuietOK
  <2> QED
    BY <1>2, <1>9, <1>10, <1>14, <1>15, <2>1
<1> QED
  BY <1>2, <1>10, <1>15, <1>16

LEMMA HearsSide ==
    ASSUME Inv, NEW m, HeadIs(m), m.type # "OFFER", NEW d, d = data,
           NEW y, y = ReceiverHears(OfReceiver, m)
    PROVE  /\ Side(y, y.drain) /\ DrainOK(y)
           /\ Quiet => QuietSide(y, y.drain, d)
<1>1. PICK x : x = OfReceiver
  OBVIOUS
<1>2. /\ Types /\ Side(x, drain) /\ DrainOK(x) /\ x \in Step /\ x.r = receiver /\ x.drain = drain
      /\ x.closing = closing /\ x.files = files /\ x.out = <<>>
      /\ receiver \in Receiver /\ OrderOK(x, drain)
      /\ sender.id >= 2 => Quiet
      /\ Quiet => QuietSide(x, drain, d)
  BY <1>1, Begins, BeginsAnyhow
<1>3. /\ m \in ToReceiver /\ 1 \in DOMAIN toReceiver /\ toReceiver[1] = m
      /\ m.type \in {"PAUSE", "RESUME", "FAIL", "CANCEL", "START", "FINISH"}
      /\ m.type = "CANCEL" => m.id \in Files
  BY HeadFacts
<1>4. ASSUME m.type \in {"PAUSE", "RESUME", "CANCEL"}
      PROVE  ~ Quiet
  BY <1>3, <1>4 DEF Inv, QuietInv
<1>5. ASSUME NEW z, Side(z, drain), z.drain = drain, z.closing = closing,
             Quiet => QuietSide(z, drain, d)
      PROVE  /\ Side(z, z.drain) /\ DrainOK(z)
             /\ Quiet => QuietSide(z, z.drain, d)
  BY <1>2, <1>5 DEF DrainOK
<1>6. /\ Side(ReceiverFails(x), drain) /\ ReceiverFails(x).drain = drain
      /\ ReceiverFails(x).closing = closing
      /\ Quiet => QuietSide(ReceiverFails(x), drain, d)
  BY <1>2, FailsSide
<1>7. CASE m.id # receiver.id
  <2>1. y = ReceiverFails(x)
    BY <1>1, <1>2, <1>7 DEF ReceiverHears
  <2> QED
    BY <1>5, <1>6, <2>1
<1>8. CASE m.id = receiver.id
  <2>1. CASE m.type = "START"
    <3>1. y = x
      BY <1>1, <1>2, <1>8, <2>1 DEF ReceiverHears
    <3> QED
      BY <1>2, <1>5, <3>1
  <2>2. CASE m.type = "PAUSE"
    <3>1. y = IF x.r.paused \/ ~CanPause(x.r) THEN x ELSE WithR(x, Paused(x.r))
      BY <1>1, <1>2, <1>8, <2>2 DEF ReceiverHears, WithR
    <3>2. CASE x.r.paused \/ ~CanPause(x.r)
      BY <1>2, <1>5, <3>1, <3>2
    <3>3. CASE ~ (x.r.paused \/ ~CanPause(x.r))
      <4>1. Side(y, drain) /\ y.drain = drain /\ y.closing = closing
        BY <1>2, <3>1, <3>3, PausesSide
      <4> QED
        BY <1>4, <1>5, <2>2, <4>1
    <3> QED
      BY <3>2, <3>3
  <2>3. CASE m.type = "RESUME"
    <3>1. y = IF x.r.paused THEN WithR(x, ReceiverResumed(x.r)) ELSE x
      BY <1>1, <1>2, <1>8, <2>3 DEF ReceiverHears, WithR
    <3>2. CASE ~ x.r.paused
      BY <1>2, <1>5, <3>1, <3>2
    <3>3. CASE x.r.paused
      <4>1. Side(y, drain) /\ y.drain = drain /\ y.closing = closing
        BY <1>2, <3>1, <3>3, ResumesSide
      <4> QED
        BY <1>4, <1>5, <2>3, <4>1
    <3> QED
      BY <3>2, <3>3
  <2>4. CASE m.type = "FINISH"
    <3>1. CASE receiver.destination = None
      <4>1. y = x
        BY <1>1, <1>2, <1>8, <2>4, <3>1 DEF ReceiverHears
      <4> QED
        BY <1>2, <1>5, <4>1
    <3>2. CASE receiver.destination # None
      <4>1. PICK z : z = FinishedBy(OfReceiver, m)
        OBVIOUS
      <4>2. y = Finalizes(z, "finish")
        BY <1>1, <1>2, <1>8, <2>4, <3>2, <4>1 DEF ReceiverHears, FinishedBy
      <4>3. /\ Side(z, drain) /\ z.drain = drain /\ z.closing = closing
            /\ Quiet => QuietSide(z, drain, d)
        BY <1>8, <2>4, <4>1, FinishedSide
      <4>4. Side(y, drain) /\ y.drain = drain /\ (Quiet => QuietSide(y, drain, d))
        BY <1>2, <4>2, <4>3, FinalizesSide
      <4>5. PICK c : c.by = "finish" /\ y.closing \in {z.closing, z.closing \cup {c}}
        <5>1. z \in Step
          BY <4>3 DEF Side
        <5> QED
          BY <1>2, <4>2, <5>1, FinalizesCloses
      <4>6. DrainOK(y)
        BY <1>2, <4>3, <4>4, <4>5 DEF DrainOK, ByDrainOnce
      <4> QED
        BY <4>4, <4>6
    <3> QED
      BY <3>1, <3>2
  <2>5. CASE m.type = "CANCEL"
    <3>1. y = [x EXCEPT !.r = [Emptied(@) EXCEPT !.aborting = TRUE],
                        !.files = Aborted(@, receiver.destination)]
      BY <1>1, <1>2, <1>8, <2>5 DEF ReceiverHears, IsCancelled
    <3>2. /\ y.r = [Emptied(receiver) EXCEPT !.aborting = TRUE] /\ y.out = x.out
          /\ y.drain = x.drain /\ y.closing = x.closing
          /\ y.files = Aborted(x.files, receiver.destination)
          /\ y = [r |-> y.r, out |-> y.out, drain |-> y.drain, closing |-> y.closing,
                  files |-> y.files]
      BY <1>1, <3>1 DEF OfReceiver
    <3>3. y.r = GivesUp(receiver, TRUE)
      BY <3>2 DEF Emptied, GivesUp
    <3>4. x.r.id # None
      BY <1>2, <1>3, <1>8, <2>5, FileFacts
    <3>5. Side(y, drain)
      BY <1>2, <3>2, <3>3, <3>4, GivenUpIs
    <3> QED
      BY <1>2, <1>4, <1>5, <2>5, <3>2, <3>5
  <2>6. CASE m.type = "FAIL"
    <3>1. y = ReceiverFails(x)
      BY <1>1, <1>2, <1>8, <2>6 DEF ReceiverHears
    <3> QED
      BY <1>5, <1>6, <3>1
  <2> QED
    BY <1>3, <2>1, <2>2, <2>3, <2>4, <2>5, <2>6
<1> QED
  BY <1>7, <1>8

IsNewReceiver(r, f, destination, hash) == r = NewReceiver(f, destination, hash, FALSE)

LEMMA NewReceiverIs ==
    ASSUME NEW f \in Files, NEW destination \in FileOrNone, NEW hash \in Seq(Payloads),
           NEW r, IsNewReceiver(r, f, destination, hash)
    PROVE  /\ r \in Receiver /\ r.id = f /\ r.destination = destination /\ r.hash = hash
           /\ r.state = "READY" /\ r.before = "IDLE" /\ ~ r.cancelled /\ ~ r.paused
           /\ ~ r.aborting /\ r.transferred = 0 /\ r.expected = 0 /\ r.inFlight = 0
           /\ r.queue = <<>> /\ r.finish = NoFinish
<1>1. <<>> \in Seq(Payloads) /\ 0 \in Nat /\ -1 \in Int /\ f # None
  BY FileFacts
<1>2. NoFinish \in [bytes : Int, sha256 : Seq(Payloads)]
  BY <1>1 DEF NoFinish
<1>3. r \in Receiver
  BY <1>1, <1>2, FileFacts DEF IsNewReceiver, NewReceiver, Receiver, States
<1> QED
  BY <1>1, <1>3 DEF IsNewReceiver, NewReceiver

LEMMA OfferHeardKeeps ==
    ASSUME Inv, frames' = frames, ReceiverHandlesControl, Head(toReceiver).type = "OFFER"
    PROVE  Inv'
<1>1. PICK m : m = Head(toReceiver)
  OBVIOUS
<1>2. /\ m \in ToReceiver /\ 1 \in DOMAIN toReceiver /\ toReceiver[1] = m
      /\ m.id \in Files /\ m.id \in Nat /\ m.type = "OFFER"
  BY <1>1, HeadFacts DEF HeadIs, ReceiverHandlesControl
<1>3. PICK x : x = OfReceiver
  OBVIOUS
<1>4. /\ Types /\ x \in Step /\ x.r = receiver /\ x.drain = drain
      /\ x.closing = closing /\ x.files = files /\ x.out = <<>>
      /\ receiver \in Receiver /\ OrderOK(x, drain) /\ CloseOK(x) /\ DrainOK(x)
      /\ receiver.id \in Nat /\ receiver.destination \in Nat
      /\ receiver.destination \in FileOrNone /\ receiver.hash \in Seq(Payloads)
      /\ sender.id \in Nat /\ sender.id \in FileOrNone /\ toReceiver \in Seq(ToReceiver)
  BY <1>3, BeginsAnyhow, StepFields DEF Inv, CommonOK, Types
<1>5. receiver.id < m.id /\ m.id <= sender.id /\ receiver.destination <= receiver.id
  BY <1>2 DEF Inv, IdsInv
<1>6. receiver.aborting = FALSE
  <2>1. SUFFICES ASSUME receiver.aborting
                 PROVE  FALSE
    BY <1>4 DEF Receiver
  <2>2. receiver.id # None
    BY <1>4, <2>1 DEF OrderOK
  <2>3. sender.id >= 2
    BY <1>2, <1>4, <1>5, <2>2 DEF None
  <2>4. QuietOK(x)
    BY <1>3, <2>3 DEF Inv
  <2> QED
    BY <1>4, <2>1, <2>4 DEF QuietOK
<1>7. PICK r : IsNewReceiver(r, m.id, receiver.destination, receiver.hash)
  BY DEF IsNewReceiver
<1>8. /\ r \in Receiver /\ r.id = m.id /\ r.destination = receiver.destination
      /\ r.hash = receiver.hash /\ r.state = "READY" /\ r.before = "IDLE" /\ ~ r.cancelled
      /\ ~ r.paused /\ ~ r.aborting /\ r.transferred = 0 /\ r.expected = 0 /\ r.inFlight = 0
      /\ r.queue = <<>> /\ r.finish = NoFinish
  BY <1>2, <1>4, <1>7, NewReceiverIs
<1>9. PICK y : y = WithR(x, r)
  OBVIOUS
<1>10. /\ y \in Step /\ y.r = r /\ y.out = <<>> /\ y.drain = drain /\ y.closing = closing
       /\ y.files = files
  BY <1>4, <1>8, <1>9, WithIs
<1>11. /\ ReceiverBecomes(y) /\ UNCHANGED <<pauses, troubles>>
       /\ toReceiver' = Tail(toReceiver) /\ toReceiver # <<>>
  <2>1. y = ReceiverHears(x, m)
    BY <1>2, <1>4, <1>6, <1>7, <1>9 DEF ReceiverHears, WithR, IsNewReceiver
  <2> QED
    BY <1>1, <1>3, <2>1 DEF ReceiverHandlesControl
<1>12. /\ receiver' = r /\ drain' = drain /\ closing' = closing /\ files' = files
       /\ sender' = sender /\ loops' = loops /\ data' = data /\ buffered' = buffered
       /\ connected' = connected /\ toSender' = toSender
       /\ pauses' = pauses /\ troubles' = troubles
  <2>1. toSender \in Seq(ToSender)
    BY <1>4 DEF Types
  <2>2. toSender \o <<>> = toSender
    BY <2>1, EmptyConcat
  <2> QED
    BY <1>10, <1>11, <2>2 DEF ReceiverBecomes
<1>13. /\ toReceiver' \in Seq(ToReceiver)
       /\ \A n \in DOMAIN toReceiver' :
             n \in Nat /\ n + 1 \in DOMAIN toReceiver /\ toReceiver'[n] = toReceiver[n + 1]
             /\ 1 < n + 1
  <2>1. /\ Tail(toReceiver) \in Seq(ToReceiver)
        /\ \A n \in DOMAIN Tail(toReceiver) :
              n + 1 \in DOMAIN toReceiver /\ Tail(toReceiver)[n] = toReceiver[n + 1]
    BY <1>4, <1>11, OneFewer
  <2>2. \A n \in DOMAIN Tail(toReceiver) : n \in Nat /\ 1 < n + 1
    BY <2>1
  <2> QED
    BY <1>11, <2>1, <2>2
<1>14. Types'
  BY <1>4, <1>8, <1>12, <1>13, SameFrames DEF Types
<1>15. ~ Accepted(y)
  BY <1>4, <1>5, <1>8, <1>10 DEF Accepted
<1>16. CommonOK(y, drain) /\ DrainOK(y)
  <2>1. OrderOK(y, drain)
    <3>1. r.id <= 1 => r.transferred = Len(r.hash)
      <4>1. SUFFICES ASSUME r.id <= 1
                     PROVE  r.transferred = Len(r.hash)
        OBVIOUS
      <4>2. receiver.destination = None
        BY <1>2, <1>4, <1>5, <1>8, <4>1 DEF None
      <4>3. receiver.hash = <<>>
        BY <1>4, <4>2 DEF OrderOK
      <4> QED
        BY <1>8, <4>3
    <3>2. ~ CanReceiveData(y.r)
      BY <1>8, <1>10 DEF CanReceiveData
    <3>3. y.r.destination <= y.r.id /\ y.r.destination < y.r.id
      BY <1>4, <1>5, <1>8, <1>10, <1>2
    <3> QED
      BY <1>4, <1>8, <1>10, <1>15, <3>1, <3>2, <3>3 DEF OrderOK
  <2>2. TakenOK(y, drain) /\ ContentsOK(y, drain)
    BY <1>15 DEF TakenOK, ContentsOK
  <2>3. CloseOK(y)
    <3>1. \A c \in closing : c.id \in Nat
      <4>1. \A c \in closing : c.id \in Files
        BY <1>4 DEF Types, Closing
      <4> QED
        BY <4>1, FileFacts
    <3>2. \A c \in closing : c.id <= r.id /\ c.id # r.id
      BY <1>2, <1>4, <1>5, <1>8, <3>1 DEF CloseOK
    <3> QED
      BY <1>4, <1>8, <1>10, <3>2 DEF CloseOK
  <2> QED
    BY <1>4, <1>10, <2>1, <2>2, <2>3 DEF CommonOK, DrainOK
<1>17. CommonOK(OfReceiver, drain)' /\ DrainOK(OfReceiver)'
  BY <1>10, <1>12, <1>16, CommonBecomes
<1>18. IdsInv'
  <2>1. /\ receiver'.id <= sender'.id /\ receiver'.destination <= receiver'.id
        /\ sender'.reads \in {None, sender'.id}
        /\ \A n \in DOMAIN toReceiver' : toReceiver'[n].id <= sender'.id
    BY <1>2, <1>4, <1>5, <1>8, <1>12, <1>13 DEF Inv, IdsInv
  <2>2. \A n \in DOMAIN toReceiver' : toReceiver'[n].type = "OFFER" => receiver'.id < toReceiver'[n].id
    BY <1>2, <1>8, <1>12, <1>13 DEF Inv, IdsInv
  <2>3. ASSUME NEW i \in DOMAIN toReceiver', NEW n \in DOMAIN toReceiver', i < n,
               toReceiver'[i].type = "OFFER", toReceiver'[n].type = "OFFER"
        PROVE  toReceiver'[i].id < toReceiver'[n].id
    <3>1. i + 1 \in DOMAIN toReceiver /\ n + 1 \in DOMAIN toReceiver
          /\ toReceiver'[i] = toReceiver[i + 1] /\ toReceiver'[n] = toReceiver[n + 1]
      BY <1>13
    <3>2. i + 1 < n + 1
      BY <1>13, <2>3
    <3> QED
      BY <2>3, <3>1, <3>2 DEF Inv, IdsInv
  <2>4. /\ (\E n \in DOMAIN toReceiver' :
               toReceiver'[n].type = "OFFER" /\ toReceiver'[n].id = sender'.id) => sender'.offered
        /\ sender'.id # None /\ receiver'.id = sender'.id => sender'.offered
    BY <1>2, <1>8, <1>12, <1>13 DEF Inv, IdsInv
  <2>5. \A n \in DOMAIN toSender' : toSender'[n].id <= receiver'.id
    <3>1. \A n \in DOMAIN toSender : toSender[n].id <= receiver.id /\ toSender[n].id \in Nat
      <4>1. \A n \in DOMAIN toSender : toSender[n] \in ToSender
        BY <1>4 DEF Types
      <4>2. \A n \in DOMAIN toSender : toSender[n].id \in FileOrNone
        BY <4>1, FileFacts DEF ToSender, Signals
      <4> QED
        BY <4>2, FileFacts DEF Inv, IdsInv
    <3>2. ASSUME NEW n \in DOMAIN toSender
          PROVE  toSender[n].id <= m.id
      <4>1. PICK i \in Nat : i = toSender[n].id
        BY <3>1
      <4>2. i <= receiver.id
        BY <3>1, <4>1
      <4> QED
        BY <1>2, <1>4, <1>5, <4>1, <4>2
    <3> QED
      BY <1>8, <1>12, <3>2
  <2> QED
    BY <2>1, <2>2, <2>3, <2>4, <2>5 DEF IdsInv
<1>19. (\A f \in Files : LoopInv(f)') /\ DataInv' /\ SenderOK(sender)'
  BY <1>12, SameFrames DEF Inv, LoopInv, DataInv, SenderOK
<1>20. AcceptInv'
  <2>1. receiver.id # sender.id
    BY <1>2, <1>4, <1>5
  <2>2. \A n \in DOMAIN toSender : ~ IsAccept(toSender[n])
    BY <2>1 DEF Inv, AcceptInv
  <2> QED
    BY <1>12, <2>2 DEF AcceptInv, IsAccept
<1>21. DoneInv'
  BY <1>12 DEF Inv, DoneInv, Whole, SourceOf
<1>22. sender'.id >= 2 => Quiet'
  BY <1>12 DEF Inv, Quiet
<1>23. ASSUME Quiet'
       PROVE  /\ QuietOK(OfReceiver)' /\ QuietInv' /\ UnbegunInv' /\ SentInv' /\ FinishInv'
              /\ FifoOK(OfReceiver, drain, data)'
  <2>1. /\ Quiet /\ QuietInv /\ UnbegunInv /\ SentInv /\ FinishInv
        /\ FifoOK(OfReceiver, drain, data)
    BY <1>12, <1>23 DEF Quiet, Inv
  <2>2. ~ Begun /\ ~ Begun' /\ receiver.id # sender.id
    BY <1>2, <1>4, <1>5, <1>8, <1>12 DEF Begun
  <2>3. QuietOK(OfReceiver)'
    BY <1>8, <1>12 DEF QuietOK, OfReceiver
  <2>4. QuietInv'
    BY <1>12, <1>13, <2>1 DEF QuietInv
  <2>5. UnbegunInv'
    BY <1>8, <1>12, <1>13, <2>1, <2>2 DEF UnbegunInv
  <2>6. SentInv'
    BY <2>2 DEF SentInv
  <2>7. FinishInv'
    <3>1. \A bytes, sha256 : FinishOK(bytes, sha256) => FinishOK(bytes, sha256)'
      BY <1>12 DEF FinishOK, Ascending, SourceOf
    <3> QED
      BY <1>8, <1>12, <1>13, <2>1, <3>1 DEF FinishInv
  <2>8. FifoOK(OfReceiver, drain, data)'
    <3>1. Unspoilt' <=> Unspoilt
      BY <1>12, <2>2 DEF Unspoilt
    <3>2. ~ Accepted(OfReceiver)'
      BY <1>4, <1>5, <1>8, <1>12, <1>2 DEF Accepted, OfReceiver
    <3>3. OfReceiver.r = receiver /\ OfReceiver.r' = r
      BY <1>12 DEF OfReceiver
    <3> QED
      BY <1>8, <1>12, <2>1, <2>2, <3>1, <3>2, <3>3 DEF FifoOK, Arriving
  <2> QED
    BY <2>3, <2>4, <2>5, <2>6, <2>7, <2>8
<1> QED
  BY <1>14, <1>17, <1>18, <1>19, <1>20, <1>21, <1>22, <1>23 DEF Inv

LEMMA ReceiverHandlesControlKeeps ==
    ASSUME Inv, frames' = frames, ReceiverHandlesControl
    PROVE  Inv'
<1>1. CASE Head(toReceiver).type = "OFFER"
  BY <1>1, OfferHeardKeeps
<1>2. CASE Head(toReceiver).type # "OFFER"
  <2>1. PICK m : m = Head(toReceiver)
    OBVIOUS
  <2>2. PICK d : d = data
    OBVIOUS
  <2>3. PICK y : y = ReceiverHears(OfReceiver, m)
    OBVIOUS
  <2>4. Side(y, y.drain) /\ DrainOK(y) /\ (Quiet => QuietSide(y, y.drain, d))
    BY <1>2, <2>1, <2>2, <2>3, HearsSide DEF HeadIs, ReceiverHandlesControl
  <2>5. ReceiverBecomes(y) /\ Fewer(toReceiver, toReceiver') /\ Counted
    <3>1. Types
      BY DEF Inv
    <3> QED
      BY <2>1, <2>3, <3>1, CountedIs DEF ReceiverHandlesControl, Fewer
  <2>6. Quiet' => QuietSide(y, y.drain, data)
    BY <2>2, <2>4, <2>5 DEF Counted
  <2> QED
    BY <2>4, <2>5, <2>6, BecomesStep
<1> QED
  BY <1>1, <1>2

-----------------------------------------------------------------------------
(* The receiver accepts the file.                                            *)

Opened(id) ==
    [OfReceiver EXCEPT !.r.destination = id, !.r.hash = <<>>, !.r.state = "RECEIVING",
                       !.files[id].state = "open"]

Opens(r, id) == [r EXCEPT !.destination = id, !.hash = <<>>, !.state = "RECEIVING"]

LEMMA OpensIs ==
    ASSUME NEW r \in Receiver, NEW id \in FileOrNone
    PROVE  /\ Opens(r, id) \in Receiver /\ Opens(r, id).destination = id
           /\ Opens(r, id).hash = <<>> /\ Opens(r, id).state = "RECEIVING"
           /\ Opens(r, id).before = r.before /\ Opens(r, id).aborting = r.aborting
           /\ Opens(r, id).paused = r.paused /\ Opens(r, id).finish = r.finish
           /\ Opens(r, id).id = r.id /\ Opens(r, id).transferred = r.transferred
           /\ Opens(r, id).cancelled = r.cancelled /\ Opens(r, id).expected = r.expected
           /\ Opens(r, id).queue = r.queue /\ Opens(r, id).inFlight = r.inFlight
<1>1. <<>> \in Seq(Payloads)
  OBVIOUS
<1>2. \A q \in Seq(Payloads) :
          [r EXCEPT !.destination = id, !.hash = q, !.state = "RECEIVING"] \in Receiver
  BY DEF Receiver, States
<1>3. Opens(r, id) \in Receiver
  BY <1>1, <1>2 DEF Opens
<1> QED
  BY <1>3 DEF Receiver, Opens

LEMMA OpenedSide ==
    ASSUME Inv, receiver.state = "READY", NEW y, y = Opened(receiver.id)
    PROVE  /\ Side(y, drain) /\ y.drain = drain /\ y.closing = closing /\ y.out = <<>>
           /\ y.r = Opens(receiver, receiver.id)
           /\ receiver.id \in Files /\ receiver.destination < receiver.id
           /\ Accepted(y) /\ y.r.expected = 0
           /\ Quiet => ~ y.r.cancelled
<1>1. PICK x : x = OfReceiver
  OBVIOUS
<1>2. /\ Types /\ x \in Step /\ x.r = receiver /\ x.drain = drain
      /\ x.closing = closing /\ x.files = files /\ x.out = <<>> /\ x.r \in Receiver
      /\ receiver \in Receiver /\ OrderOK(x, drain) /\ CloseOK(x) /\ DrainOK(x)
      /\ receiver.id \in Nat /\ receiver.destination \in Nat /\ receiver.id \in FileOrNone
      /\ receiver.destination \in FileOrNone /\ receiver.hash \in Seq(Payloads)
      /\ files \in [Files -> File] /\ drain \in Drain /\ closing \in SUBSET Closing
      /\ sender.id \in Nat /\ sender.id \in FileOrNone /\ frames \in Nat
  BY <1>1, BeginsAnyhow, StepFields DEF Inv, CommonOK, Types
<1>3. PICK id \in Nat : id = receiver.id
  BY <1>2
<1>4. receiver.destination < id
  BY <1>2, <1>3 DEF OrderOK
<1>5. id \in Files /\ id # None /\ id >= 1
  BY <1>2, <1>3, <1>4, FileFacts DEF None
<1>6. /\ receiver.queue = <<>> /\ receiver.expected = 0 /\ receiver.inFlight = 0
      /\ Writing(drain) => receiver.transferred = 0
  <2>1. ~ Accepted(x)
    BY <1>2, <1>3, <1>4 DEF Accepted
  <2> QED
    BY <1>2, <2>1 DEF OrderOK
<1>7. ~ receiver.aborting \/ receiver.cancelled
  BY <1>2 DEF OrderOK
<1>8. Quiet => ~ receiver.cancelled
  BY <1>1, <1>2 DEF Inv, QuietOK
<1>9. Writing(drain) =>
          /\ drain.batch # <<>> /\ drain.destination \in Files
          /\ drain.destination \in Nat /\ drain.destination < id
          /\ \A n \in DOMAIN drain.batch : drain.batch[n][1] <= drain.destination
          /\ ~ receiver.cancelled
  <2>1. SUFFICES ASSUME Writing(drain)
                 PROVE  /\ drain.batch # <<>> /\ drain.destination \in Files
                        /\ drain.destination \in Nat /\ drain.destination < id
                        /\ \A n \in DOMAIN drain.batch :
                              drain.batch[n][1] <= drain.destination
                        /\ ~ receiver.cancelled
    OBVIOUS
  <2>2. /\ drain.batch # <<>> /\ drain.destination \in Files
        /\ drain.destination <= receiver.destination
        /\ \A n \in DOMAIN drain.batch : drain.batch[n][1] <= drain.destination
    BY <1>2, <2>1 DEF OrderOK
  <2>3. drain.destination \in Nat /\ drain.destination >= 1
    BY <2>2, FileFacts DEF Files
  <2>4. drain.destination < id /\ id >= 2
    BY <1>2, <1>4, <2>2, <2>3
  <2>5. sender.id >= 2
    BY <1>2, <1>3, <2>4 DEF Inv, IdsInv
  <2> QED
    BY <1>8, <2>2, <2>3, <2>4, <2>5 DEF Inv
<1>10. PICK r : r = Opens(receiver, id)
  OBVIOUS
<1>11. /\ r \in Receiver /\ r.destination = id /\ r.hash = <<>> /\ r.state = "RECEIVING"
       /\ r.before = receiver.before /\ r.aborting = receiver.aborting
       /\ r.id = id /\ r.transferred = receiver.transferred
       /\ r.cancelled = receiver.cancelled /\ r.expected = 0 /\ r.queue = <<>>
       /\ r.inFlight = 0
  BY <1>2, <1>3, <1>6, <1>10, OpensIs, SMTT(40)
<1>12. /\ y.r = r /\ y.out = <<>> /\ y.drain = drain /\ y.closing = closing
       /\ y.files = Marked(files, id, "open")
       /\ y = [r |-> y.r, out |-> y.out, drain |-> y.drain, closing |-> y.closing,
               files |-> y.files]
  BY <1>3, <1>10 DEF OfReceiver, Opened, Opens, Marked
<1>13. /\ y.files \in [Files -> File]
       /\ \A f \in Files : f # id => y.files[f] = files[f]
       /\ y.files[id].state = "open" /\ y.files[id].contents = files[id].contents
  BY <1>2, <1>5, <1>12, MarkedIs
<1>14. <<>> \in Seq(ToSender)
  OBVIOUS
<1>15. y \in Step
  BY <1>2, <1>11, <1>12, <1>13, <1>14 DEF Step
<1>16. files[id] = [state |-> "none", contents |-> <<>>]
  BY <1>2, <1>4, <1>5 DEF OrderOK
<1>17. Accepted(y)
  BY <1>5, <1>11, <1>12 DEF Accepted
<1>18. OrderOK(y, drain)
  <2>1. \A f \in Files : f > id => y.files[f] = [state |-> "none", contents |-> <<>>]
    <3>1. ASSUME NEW f \in Files, f > id
          PROVE  y.files[f] = [state |-> "none", contents |-> <<>>]
      <4>1. f \in Nat
        BY FileFacts
      <4>2. f # id /\ f > receiver.destination
        BY <1>2, <1>4, <3>1, <4>1
      <4>3. files[f] = [state |-> "none", contents |-> <<>>]
        BY <1>2, <4>2 DEF OrderOK
      <4> QED
        BY <1>13, <4>2, <4>3
    <3> QED
      BY <3>1
  <2>2. Writing(drain) => drain.destination <= id
    BY <1>9
  <2>3. id <= 1 => r.transferred = Len(r.hash)
    <3>1. SUFFICES ASSUME id <= 1
                   PROVE  r.transferred = Len(r.hash)
      OBVIOUS
    <3>2. receiver.destination = None
      BY <1>2, <1>4, <3>1 DEF None
    <3>3. receiver.hash = <<>> /\ receiver.transferred = Len(receiver.hash)
      BY <1>2, <1>3, <3>1, <3>2 DEF OrderOK
    <3> QED
      BY <1>11, <3>3
  <2>4. r.aborting => r.cancelled /\ r.id # None
    BY <1>5, <1>7, <1>11
  <2> QED
    BY <1>5, <1>9, <1>11, <1>12, <1>17, <2>1, <2>2, <2>3, <2>4 DEF OrderOK
<1>19. Taken(y, drain) = InWriting(drain) /\ Before(y, drain) = Len(InWriting(drain))
       /\ InWriting(drain) \in Seq(Payloads) /\ Len(InWriting(drain)) \in Nat
       /\ DOMAIN InWriting(drain) = 1 .. Len(InWriting(drain))
  <2>1. InWriting(drain) \in Seq(Payloads)
    BY <1>2, <1>15, TakenIs
  <2>2. PICK b \in Seq(Payloads) : b = InWriting(drain)
    BY <2>1
  <2>3. <<>> \o b = b /\ b \o <<>> = b
    BY EmptyConcat
  <2>4. Taken(y, drain) = b
    BY <1>11, <1>12, <2>2, <2>3 DEF Taken
  <2> QED
    BY <1>11, <1>12, <2>2, <2>4 DEF Before
<1>20. TakenOK(y, drain)
  <2>1. CASE Writing(drain)
    <3>1. InWriting(drain) = drain.batch
      BY <2>1 DEF InWriting
    <3>2. \A n \in DOMAIN drain.batch : drain.batch[n][1] < id
      <4>1. drain.batch \in Seq(Payloads)
        BY <1>19, <3>1
      <4>2. \A n \in DOMAIN drain.batch : drain.batch[n] \in Payloads
        BY <4>1
      <4>3. \A n \in DOMAIN drain.batch : drain.batch[n][1] \in Nat
        BY <1>2, <4>2, PayloadFacts
      <4> QED
        BY <1>9, <2>1, <4>3
    <3>3. \A n \in DOMAIN Taken(y, drain) :
              n <= Before(y, drain) /\ Taken(y, drain)[n][1] < y.r.id
      BY <1>11, <1>12, <1>19, <3>1, <3>2
    <3>4. drain.destination # y.r.id
      BY <1>9, <1>11, <1>12, <2>1
    <3>5. y.r.transferred = Len(y.r.hash)
      BY <1>6, <1>11, <1>12, <2>1
    <3> QED
      BY <1>11, <1>12, <1>19, <2>1, <3>1, <3>3, <3>4, <3>5 DEF TakenOK
  <2>2. CASE ~ Writing(drain)
    <3>1. InWriting(drain) = <<>> /\ Len(InWriting(drain)) = 0
      BY <2>2 DEF InWriting
    <3> QED
      BY <1>11, <1>12, <1>19, <2>2, <3>1 DEF TakenOK
  <2> QED
    BY <2>1, <2>2
<1>21. ContentsOK(y, drain)
  <2>1. y.files[y.r.id].contents = <<>> /\ y.r.hash = <<>>
    BY <1>11, <1>12, <1>13, <1>16
  <2>2. y.r.cancelled => ~ Writing(drain)
    BY <1>9, <1>11, <1>12
  <2> QED
    BY <2>1, <2>2 DEF ContentsOK
<1>22. CloseOK(y)
  <2>1. \A c \in closing : c.of \in Files /\ c.of # id /\ y.files[c.of] = files[c.of]
    <3>1. ASSUME NEW c \in closing
          PROVE  c.of \in Files /\ c.of # id
      BY <1>2, <1>16, <3>1 DEF CloseOK, Closing
    <3> QED
      BY <1>13, <3>1
  <2>2. \A c \in closing : c.of = c.id => y.files[c.id] = files[c.id]
    BY <2>1
  <2> QED
    BY <1>2, <1>3, <1>11, <1>12, <2>1, <2>2 DEF CloseOK
<1>23. \A f \in Files : Whole(files, f) => Whole(y.files, f)
  BY <1>13, <1>16 DEF Whole
<1>24. OutOK(y)
  BY <1>12 DEF OutOK
<1>25. Side(y, drain)
  BY <1>2, <1>3, <1>11, <1>12, <1>15, <1>18, <1>20, <1>21, <1>22, <1>23, <1>24
     DEF Side, CommonOK
<1> QED
  BY <1>3, <1>4, <1>5, <1>8, <1>10, <1>11, <1>12, <1>17, <1>25

LEMMA AcceptKeeps ==
    ASSUME Inv, frames' = frames, Accept
    PROVE  Inv'
<1>1. PICK y : y = Opened(receiver.id)
  OBVIOUS
<1>2. PICK m : m = [type |-> "ACCEPT", id |-> receiver.id, window |-> Window]
  OBVIOUS
<1>3. /\ Types /\ DrainOK(OfReceiver) /\ receiver \in Receiver
      /\ OfReceiver.drain = drain /\ OfReceiver.closing = closing
      /\ toSender \in Seq(ToSender) /\ toReceiver \in Seq(ToReceiver)
  BY BeginsAnyhow DEF Types
<1>4. /\ Side(y, drain) /\ y.drain = drain /\ y.closing = closing /\ y.out = <<>>
      /\ y.r = Opens(receiver, receiver.id)
      /\ receiver.id \in Files /\ receiver.destination < receiver.id
      /\ Accepted(y) /\ y.r.expected = 0
      /\ Quiet => ~ y.r.cancelled
  BY <1>1, OpenedSide DEF Accept
<1>5. /\ y \in Step /\ y.r \in Receiver /\ y.files \in [Files -> File]
      /\ y.closing \in SUBSET Closing /\ y.drain \in Drain /\ CommonOK(y, drain)
      /\ receiver.id \in Nat /\ sender.id \in Nat /\ receiver.destination \in Nat
      /\ receiver.id \in FileOrNone /\ sender.id \in FileOrNone
  <2>1. receiver.destination \in FileOrNone
    BY <1>3 DEF Receiver
  <2> QED
    BY <1>3, <1>4, <2>1, StepFields, FileFacts DEF Side
<1>6. /\ y.r.id = receiver.id /\ y.r.destination = receiver.id /\ y.r.state = "RECEIVING"
      /\ y.r.paused = receiver.paused /\ y.r.aborting = receiver.aborting
      /\ y.r.finish = receiver.finish /\ y.r.cancelled = receiver.cancelled
  BY <1>3, <1>4, <1>5, OpensIs
<1>7. DrainOK(y)
  BY <1>3, <1>4 DEF DrainOK
<1>8. /\ ReceiverBecomes(ReceiverSays(y, m)) /\ UNCHANGED <<toReceiver, pauses, troubles>>
      /\ Fewer(toReceiver, toReceiver')
  BY <1>1, <1>2 DEF Accept, Opened, Fewer
<1>9. m \in ToSender /\ m.type = "ACCEPT" /\ m.id = receiver.id
  <2>1. Window \in Nat
    BY SingleFileAssumption
  <2> QED
    BY <1>2, <1>4, <2>1 DEF ToSender
<1>10. CASE ~ connected
  <2>1. PICK z : z = ReceiverFails(y)
    OBVIOUS
  <2>2. ReceiverBecomes(z) /\ Counted /\ ~ Quiet'
    <3>1. Counted
      BY <1>3, <1>8, CountedIs
    <3>2. ~ Quiet
      BY <1>10 DEF Inv, QuietInv
    <3> QED
      BY <1>8, <1>10, <2>1, <3>1, <3>2 DEF ReceiverSays, Counted
  <2>3. Side(z, z.drain) /\ z.closing = y.closing /\ z.drain = y.drain
    BY <1>3, <1>4, <2>1, FailsSide
  <2>4. DrainOK(z)
    BY <1>7, <2>3 DEF DrainOK
  <2> QED
    BY <1>8, <2>2, <2>3, <2>4, BecomesStep
<1>11. CASE connected
  <2>1. PICK out : out = Append(<<>>, m)
    OBVIOUS
  <2>2. /\ receiver' = y.r /\ drain' = y.drain /\ closing' = y.closing /\ files' = y.files
        /\ toSender' = toSender \o out
        /\ sender' = sender /\ loops' = loops /\ data' = data /\ buffered' = buffered
        /\ connected' = connected /\ toReceiver' = toReceiver
        /\ pauses' = pauses /\ troubles' = troubles
    <3>1. PICK z : z = ReceiverSays(y, m)
      OBVIOUS
    <3>2. /\ z.r = y.r /\ z.drain = y.drain /\ z.closing = y.closing /\ z.files = y.files
          /\ z.out = out
      BY <1>4, <1>5, <1>11, <2>1, <3>1 DEF ReceiverSays, Step
    <3> QED
      BY <1>8, <1>11, <3>1, <3>2 DEF ReceiverBecomes
  <2>3. /\ toSender' \in Seq(ToSender)
        /\ Len(toSender) \in Nat /\ DOMAIN toSender = 1 .. Len(toSender)
        /\ DOMAIN toSender' = 1 .. Len(toSender) + 1
        /\ \A n \in DOMAIN toSender : toSender'[n] = toSender[n]
        /\ toSender'[Len(toSender) + 1] = m
    <3>1. out = <<m>>
      BY <2>1
    <3>2. toSender' = Append(toSender, m)
      BY <1>3, <1>9, <2>2, <3>1
    <3> QED
      BY <1>3, <1>9, <3>2, Appended
  <2>4. \A n \in DOMAIN toSender' :
            \/ n \in DOMAIN toSender /\ toSender'[n] = toSender[n]
            \/ n = Len(toSender) + 1 /\ n \notin DOMAIN toSender /\ toSender'[n] = m
    BY <2>3
  <2>5. Types'
    BY <1>3, <1>5, <2>2, <2>3, SameFrames DEF Types
  <2>6. CommonOK(OfReceiver, drain)' /\ DrainOK(OfReceiver)'
    BY <1>4, <1>5, <1>7, <2>2, CommonBecomes
  <2>7. IdsInv'
    <3>1. receiver'.id = receiver.id /\ receiver'.destination = receiver.id
      BY <1>6, <2>2
    <3>2. \A n \in DOMAIN toSender' : toSender'[n].id <= receiver.id
      BY <1>5, <1>9, <2>4 DEF Inv, IdsInv
    <3> QED
      BY <1>5, <2>2, <3>1, <3>2 DEF Inv, IdsInv
  <2>8. (\A f \in Files : LoopInv(f)') /\ DataInv' /\ SenderOK(sender)'
    BY <2>2, SameFrames DEF Inv, LoopInv, DataInv, SenderOK
  <2>9. \A n \in DOMAIN toSender : ~ IsAccept(toSender[n])
    BY <1>4, <1>5 DEF Inv, AcceptInv
  <2>10. AcceptInv'
    <3>1. \A n \in DOMAIN toSender' :
              IsAccept(toSender[n])' => n = Len(toSender) + 1 /\ receiver.id = sender.id
      BY <1>9, <2>2, <2>4, <2>9 DEF IsAccept
    <3>2. \A i, n \in DOMAIN toSender' : IsAccept(toSender[i])' /\ IsAccept(toSender[n])' => i = n
      BY <3>1
    <3>3. ASSUME NEW n \in DOMAIN toSender', IsAccept(toSender[n])'
          PROVE  receiver'.id = sender'.id /\ receiver'.destination = sender'.id
      BY <1>6, <2>2, <3>1, <3>3
    <3> QED
      BY <3>2, <3>3 DEF AcceptInv
  <2>11. DoneInv'
    <3>1. \A f \in Files : Whole(files, f) => Whole(y.files, f)
      BY <1>4 DEF Side
    <3>2. sender.id # None => sender.id \in Files
      BY <1>5, FileFacts
    <3>3. Whole(y.files, sender.id) => Whole(files, sender.id)'
      BY <2>2 DEF Whole, SourceOf
    <3>4. ASSUME NEW n \in DOMAIN toSender', toSender'[n].type = "VERIFY_OK",
                 toSender'[n].id = sender.id
          PROVE  Whole(y.files, sender.id)
      <4>1. n \in DOMAIN toSender /\ toSender[n] = toSender'[n]
        BY <1>9, <2>4, <3>4
      <4>2. sender.id \in Files
        <5>1. toSender[n] \in ToSender
          BY <1>3, <4>1
        <5> QED
          BY <3>4, <4>1, <5>1 DEF ToSender, Signals
      <4>3. Whole(files, sender.id)
        BY <3>4, <4>1 DEF Inv, DoneInv
      <4> QED
        BY <3>1, <4>2, <4>3
    <3>5. sender.id # None /\ sender.state = "COMPLETED" => Whole(files, sender.id)'
      BY <3>1, <3>2, <3>3 DEF Inv, DoneInv
    <3> QED
      BY <2>2, <3>3, <3>4, <3>5 DEF DoneInv
  <2>12. sender'.id >= 2 => Quiet'
    BY <2>2 DEF Inv, Quiet
  <2>13. ASSUME Quiet'
         PROVE  /\ QuietOK(OfReceiver)' /\ QuietInv' /\ UnbegunInv' /\ SentInv' /\ FinishInv'
                /\ FifoOK(OfReceiver, drain, data)'
    <3>1. /\ Quiet /\ QuietInv /\ UnbegunInv /\ SentInv /\ FinishInv /\ QuietOK(OfReceiver)
          /\ FifoOK(OfReceiver, drain, data) /\ ~ receiver.cancelled
      BY <1>4, <1>6, <2>2, <2>13 DEF Quiet, Inv
    <3>2. ~ Begun
      BY <1>4, <1>5 DEF Begun
    <3>3. ~ Begun'
      <4>1. CASE receiver.id = sender.id
        <5>1. Len(toSender) + 1 \in DOMAIN toSender' /\ IsAccept(m)
          BY <1>9, <2>3, <4>1 DEF IsAccept
        <5> QED
          BY <2>2, <2>3, <5>1 DEF Begun, IsAccept
      <4>2. CASE receiver.id # sender.id
        BY <1>6, <2>2, <4>2 DEF Begun
      <4> QED
        BY <4>1, <4>2
    <3>4. QuietOK(OfReceiver)'
      BY <1>6, <2>2, <3>1 DEF QuietOK, OfReceiver
    <3>5. QuietInv'
      BY <1>9, <2>2, <2>4, <3>1 DEF QuietInv
    <3>6. UnbegunInv'
      BY <1>6, <2>2, <3>1, <3>2, <3>3 DEF UnbegunInv
    <3>7. SentInv'
      BY <3>3 DEF SentInv
    <3>8. FinishInv'
      <4>1. \A bytes, sha256 : FinishOK(bytes, sha256) => FinishOK(bytes, sha256)'
        BY <2>2 DEF FinishOK, Ascending, SourceOf
      <4> QED
        BY <1>6, <2>2, <3>1, <4>1 DEF FinishInv
    <3>9. FifoOK(OfReceiver, drain, data)'
      <4>1. Unspoilt' <=> Unspoilt
        BY <2>2, <3>2, <3>3 DEF Unspoilt
      <4>2. receiver.expected = 0
        <5>1. ~ Accepted(OfReceiver) /\ OfReceiver.r = receiver
          BY <1>4, <1>5, BeginsAnyhow DEF Accepted
        <5> QED
          BY <5>1, BeginsAnyhow DEF OrderOK
      <4>3. OfReceiver.r = receiver /\ OfReceiver.r' = y.r
        BY <2>2 DEF OfReceiver
      <4>4. Unspoilt /\ sender.id # None =>
                Arriving(sender.id, sender.sourceHash, 0, data)
        BY <3>1, <4>2, <4>3 DEF FifoOK
      <4>5. 1 .. OfReceiver.r'.expected = {}
        BY <1>4, <4>3
      <4>6. Unspoilt' /\ sender'.id # None =>
                Arriving(sender.id, sender.sourceHash, 0, data)'
        BY <2>2, <4>1, <4>4 DEF Arriving
      <4> QED
        BY <1>4, <2>2, <4>3, <4>5, <4>6 DEF FifoOK
    <3> QED
      BY <3>4, <3>5, <3>6, <3>7, <3>8, <3>9
  <2> QED
    BY <2>5, <2>6, <2>7, <2>8, <2>10, <2>11, <2>12, <2>13 DEF Inv
<1> QED
  BY <1>10, <1>11

-----------------------------------------------------------------------------
(* A step of the sender, up to x, and its loops then.                        *)

SStep == [s : Sender, out : Seq(ToReceiver), data : Seq(DataFrame), buffered : Nat]
LStep ==
    [s : Sender, out : Seq(ToReceiver), data : Seq(DataFrame), buffered : Nat, loop : Loop]

Unoffered(x) ==
    /\ \A n \in DOMAIN x.out :
          x.out[n].type = "OFFER" =>
              x.out[n].id = sender.id /\ ~ sender.offered /\ x.s.offered /\ sender.id # None
    /\ \A m, n \in DOMAIN x.out : x.out[m].type = "OFFER" /\ x.out[n].type = "OFFER" => m = n

FramesOK(d) ==
    \A n \in DOMAIN d : /\ d[n].payload[2] = d[n].offset
                        /\ d[n].payload[1] <= d[n].ref /\ d[n].ref <= sender.id

SenderSide(x) ==
    /\ x.s \in Sender /\ x.out \in Seq(ToReceiver) /\ x.data \in Seq(DataFrame)
    /\ x.buffered \in Nat
    /\ x.s.id = sender.id /\ x.s.reads \in {None, sender.id}
    /\ sender.offered => x.s.offered
    /\ SenderOK(x.s)
    /\ \A n \in DOMAIN x.out : x.out[n].id <= sender.id
    /\ Unoffered(x)
    /\ FramesOK(x.data)
    /\ x.s.state = "COMPLETED" /\ sender.id # None => Whole(files, sender.id)

LoopOK(f, l) ==
    /\ l.of = f
    /\ l.pc # "over" => f <= sender.id
    /\ l.pc \notin {"over", "head"} =>
          l.frame \in Payloads /\ l.ahead = l.frame[1] /\ l.frame[1] <= sender.id

Others(id, L) == \A f \in Files \ {id} : L[f].pc # "over" => L[f].ahead # id

CleanIn(s, L) ==
    LET n == Len(s.sourceHash)
    IN  /\ \A i \in 1 .. n : s.sourceHash[i] = <<s.id, i - 1>>
        /\ Others(s.id, L)
        /\ L[s.id].frame = <<s.id, n>>
        /\ s.next = IF L[s.id].pc = "reading" THEN n ELSE n + 1
        /\ s.reads = s.id \/ s.cancelled

DoomedIn(s, l) == ~ Ascending(s.sourceHash) \/ l.frame[2] < Len(s.sourceHash)

HasFirst(s) == \E n \in DOMAIN s.sourceHash : s.sourceHash[n] = <<s.id, 0>>

SentIn(s, L) ==
    L[s.id].pc # "over" =>
        /\ L[s.id].ahead = s.id
        /\ L[s.id].frame[2] = 0 \/ HasFirst(s)
        /\ CleanIn(s, L) \/ DoomedIn(s, L[s.id])

FinishIn(s, bytes, sha256) ==
    /\ sha256 = SourceOf(s.id) \/ ~ Ascending(sha256)
    /\ bytes - Len(sha256) = s.sent - Len(s.sourceHash)
    /\ Len(sha256) <= Len(s.sourceHash)
    /\ \A n \in DOMAIN sha256 : sha256[n] = s.sourceHash[n]
    /\ frames > 0 => \E n \in DOMAIN sha256 : sha256[n] = <<s.id, 0>>

FinishesIn(s, out) ==
    /\ \A n \in DOMAIN toReceiver :
          toReceiver[n].type = "FINISH" /\ toReceiver[n].id = s.id =>
              FinishIn(s, toReceiver[n].bytes, toReceiver[n].sha256)
    /\ \A n \in DOMAIN out :
          out[n].type = "FINISH" /\ out[n].id = s.id => FinishIn(s, out[n].bytes, out[n].sha256)
    /\ s.id # None /\ receiver.id = s.id /\ receiver.finish # NoFinish =>
          FinishIn(s, receiver.finish.bytes, receiver.finish.sha256)

Expected(id) == IF receiver.id = id THEN receiver.expected ELSE 0

UnspoiltBy(s, b) == s.sent = Len(s.sourceHash) /\ (b \/ s.sent = 0)

FifoIn(s, d, b) ==
    UnspoiltBy(s, b) /\ s.id # None /\ ~(receiver.id = s.id /\ receiver.cancelled) =>
        /\ Arriving(s.id, s.sourceHash, Expected(s.id), d)
        /\ receiver.id = s.id /\ Accepted(OfReceiver) =>
              \A n \in 1 .. receiver.expected :
                  Taken(OfReceiver, drain)[Before(OfReceiver, drain) + n] = s.sourceHash[n]

Unread(s, L, out) ==
    /\ s.reads = None
    /\ L[s.id].pc = "over"
    /\ \A f \in Files : L[f].pc # "over" => L[f].ahead # s.id
    /\ \A n \in DOMAIN out : out[n].type = "FINISH" => out[n].id # s.id

SaysQuietly(out) == \A n \in DOMAIN out : out[n].type \notin {"PAUSE", "RESUME", "CANCEL"}

QuietFinal(x, L, b) ==
    /\ ~ x.s.paused
    /\ \A f \in Files : L[f].pc \notin {"head", "paused"}
    /\ SaysQuietly(x.out)
    /\ IF b THEN SentIn(x.s, L) ELSE x.s.id # None => Unread(x.s, L, x.out)
    /\ FinishesIn(x.s, x.out)
    /\ FifoIn(x.s, x.data, b)

Spoken(out, s) == s = IF connected THEN toReceiver \o out ELSE toReceiver

LEMMA SpokenIs ==
    ASSUME Types, NEW out \in Seq(ToReceiver), NEW s, Spoken(out, s)
    PROVE  /\ s \in Seq(ToReceiver) /\ DOMAIN toReceiver \subseteq DOMAIN s
           /\ \A n \in DOMAIN toReceiver : n \in Nat /\ s[n] = toReceiver[n]
           /\ \A n \in DOMAIN s :
                 n \in DOMAIN toReceiver \/ \E k \in DOMAIN out : /\ s[n] = out[k]
                                                                  /\ n = Len(toReceiver) + k
           /\ \A n \in DOMAIN toReceiver : n <= Len(toReceiver)
           /\ \A k \in DOMAIN out : k \in Nat /\ k >= 1
           /\ Len(toReceiver) \in Nat
<1>1. toReceiver \in Seq(ToReceiver)
  BY DEF Types
<1>2. /\ Len(toReceiver) \in Nat /\ Len(out) \in Nat
      /\ DOMAIN toReceiver = 1 .. Len(toReceiver) /\ DOMAIN out = 1 .. Len(out)
  BY <1>1
<1>3. CASE ~ connected
  BY <1>1, <1>2, <1>3 DEF Spoken
<1>4. CASE connected
  <2>1. /\ s \in Seq(ToReceiver) /\ DOMAIN s = 1 .. Len(toReceiver) + Len(out)
        /\ \A n \in 1 .. Len(toReceiver) : s[n] = toReceiver[n]
        /\ \A n \in 1 .. Len(out) : s[Len(toReceiver) + n] = out[n]
    BY <1>1, <1>4, Concatenated DEF Spoken
  <2>2. PICK a \in Nat, b \in Nat : a = Len(toReceiver) /\ b = Len(out)
    BY <1>2
  <2>3. ASSUME NEW n \in DOMAIN s, n \notin DOMAIN toReceiver
        PROVE  \E k \in DOMAIN out : s[n] = out[k] /\ n = Len(toReceiver) + k
    <3>1. n \in a + 1 .. a + b
      BY <1>2, <2>1, <2>2, <2>3
    <3>2. n - a \in 1 .. b /\ a + (n - a) = n
      BY <3>1
    <3>3. s[a + (n - a)] = out[n - a]
      BY <2>1, <2>2, <3>2
    <3> QED
      BY <1>2, <2>2, <3>2, <3>3
  <2>4. DOMAIN toReceiver \subseteq DOMAIN s
    BY <1>2, <2>1, <2>2
  <2> QED
    BY <1>2, <2>1, <2>3, <2>4
<1> QED
  BY <1>3, <1>4

SenderMoves(x, L) ==
    /\ frames' = frames
    /\ sender' = x.s /\ data' = x.data /\ buffered' = x.buffered /\ loops' = L
    /\ toReceiver' = IF connected THEN toReceiver \o x.out ELSE toReceiver
    /\ UNCHANGED <<receiver, drain, closing, files, connected>>
    /\ Fewer(toSender, toSender')
    /\ pauses' \in Nat /\ troubles' \in Nat
    /\ Quiet' => Quiet
    /\ sender.id >= 2 => UNCHANGED <<pauses, troubles>>

LEMMA SenderStep ==
    ASSUME Inv, NEW x, NEW L \in [Files -> Loop], NEW b \in BOOLEAN,
           SenderMoves(x, L), SenderSide(x), \A f \in Files : LoopOK(f, L[f]),
           b <=> Begun',
           Quiet' => QuietFinal(x, L, b)
    PROVE  Inv'
<1>1. /\ Types /\ sender.id \in FileOrNone /\ sender.id \in Nat /\ receiver.id \in FileOrNone
      /\ receiver.id \in Nat /\ receiver \in Receiver /\ drain \in Drain
      /\ closing \in SUBSET Closing /\ files \in [Files -> File]
      /\ x.s \in Sender /\ x.out \in Seq(ToReceiver) /\ x.data \in Seq(DataFrame)
      /\ x.s.id = sender.id
  BY BeginsAnyhow, FileFacts DEF Inv, Types, Sender, SenderSide
<1>2. /\ frames' = frames /\ sender' = x.s /\ data' = x.data /\ buffered' = x.buffered
      /\ loops' = L /\ receiver' = receiver /\ drain' = drain /\ closing' = closing
      /\ files' = files /\ connected' = connected /\ sender'.id = sender.id
  BY <1>1 DEF SenderMoves
<1>3. /\ toReceiver' \in Seq(ToReceiver) /\ DOMAIN toReceiver \subseteq DOMAIN toReceiver'
      /\ \A n \in DOMAIN toReceiver : n \in Nat /\ toReceiver'[n] = toReceiver[n]
      /\ \A n \in DOMAIN toReceiver' :
            n \in DOMAIN toReceiver \/ \E k \in DOMAIN x.out : /\ toReceiver'[n] = x.out[k]
                                                               /\ n = Len(toReceiver) + k
      /\ \A n \in DOMAIN toReceiver : n <= Len(toReceiver)
      /\ \A k \in DOMAIN x.out : k \in Nat /\ k >= 1
      /\ Len(toReceiver) \in Nat
  <2>1. PICK s : s = toReceiver' /\ Spoken(x.out, s)
    BY DEF SenderMoves, Spoken
  <2>2. PICK out \in Seq(ToReceiver) : out = x.out
    BY <1>1
  <2> QED
    BY <1>1, <2>1, <2>2, SpokenIs
<1>4. /\ toSender' \in Seq(ToSender)
      /\ \E k \in {0, 1} : \A n \in DOMAIN toSender' :
            n \in Nat /\ n + k \in DOMAIN toSender /\ toSender'[n] = toSender[n + k]
  <2>1. toSender \in Seq(ToSender) /\ Fewer(toSender, toSender')
    BY <1>1 DEF Types, SenderMoves
  <2> QED
    BY <2>1, FewerIs
<1>5. Types'
  BY <1>1, <1>2, <1>3, <1>4, SameFrames DEF Types, SenderMoves, SenderSide
<1>6. IdsInv'
  <2>1. /\ receiver'.id <= sender'.id /\ receiver'.destination <= receiver'.id
        /\ sender'.reads \in {None, sender'.id}
        /\ sender'.id # None /\ receiver'.id = sender'.id => sender'.offered
    BY <1>2 DEF Inv, IdsInv, SenderSide
  <2>2. \A n \in DOMAIN toSender' : toSender'[n].id <= receiver'.id
    BY <1>2, <1>4 DEF Inv, IdsInv
  <2>3. sender.id # None /\ ~ sender.offered => receiver.id < sender.id
    BY <1>1 DEF Inv, IdsInv
  <2>4. \A k \in DOMAIN x.out :
            /\ x.out[k].id <= sender.id
            /\ x.out[k].type = "OFFER" => receiver.id < x.out[k].id
    BY <2>3 DEF SenderSide, Unoffered
  <2>5. \A n \in DOMAIN toReceiver' :
            /\ toReceiver'[n].id <= sender'.id
            /\ toReceiver'[n].type = "OFFER" => receiver'.id < toReceiver'[n].id
    BY <1>2, <1>3, <2>4 DEF Inv, IdsInv
  <2>6. (\E n \in DOMAIN toReceiver' :
            toReceiver'[n].type = "OFFER" /\ toReceiver'[n].id = sender'.id) => sender'.offered
    BY <1>2, <1>3 DEF Inv, IdsInv, SenderSide, Unoffered
  <2>7. ASSUME NEW m \in DOMAIN toReceiver', NEW n \in DOMAIN toReceiver', m < n,
               toReceiver'[m].type = "OFFER", toReceiver'[n].type = "OFFER"
        PROVE  toReceiver'[m].id < toReceiver'[n].id
    <3>1. CASE m \in DOMAIN toReceiver /\ n \in DOMAIN toReceiver
      BY <1>3, <2>7, <3>1 DEF Inv, IdsInv
    <3>2. CASE m \in DOMAIN toReceiver /\ n \notin DOMAIN toReceiver
      <4>1. PICK k \in DOMAIN x.out : toReceiver'[n] = x.out[k]
        BY <1>3, <3>2
      <4>2. toReceiver'[n].id = sender.id /\ ~ sender.offered
        BY <2>7, <4>1 DEF SenderSide, Unoffered
      <4>3. toReceiver[m] = toReceiver'[m] /\ toReceiver[m] \in ToReceiver
        BY <1>1, <1>3, <3>2 DEF Types
      <4>4. toReceiver[m].id <= sender.id /\ toReceiver[m].id # sender.id
        BY <2>7, <3>2, <4>2, <4>3 DEF Inv, IdsInv
      <4>5. toReceiver[m].id \in Nat
        <5>1. toReceiver[m].id \in FileOrNone
          BY <4>3, FileFacts DEF ToReceiver, Signals
        <5> QED
          BY <5>1, FileFacts
      <4> QED
        BY <1>1, <4>2, <4>3, <4>4, <4>5
    <3>3. CASE m \notin DOMAIN toReceiver
      <4>1. PICK k \in DOMAIN x.out : toReceiver'[m] = x.out[k] /\ m = Len(toReceiver) + k
        BY <1>3, <3>3
      <4>2. n \notin DOMAIN toReceiver
        BY <1>3, <2>7, <4>1
      <4>3. PICK j \in DOMAIN x.out : toReceiver'[n] = x.out[j] /\ n = Len(toReceiver) + j
        BY <1>3, <4>2
      <4>4. k = j
        BY <2>7, <4>1, <4>3 DEF SenderSide, Unoffered
      <4> QED
        BY <1>3, <2>7, <4>1, <4>3, <4>4
    <3> QED
      BY <3>1, <3>2, <3>3
  <2> QED
    BY <2>1, <2>2, <2>5, <2>6, <2>7 DEF IdsInv
<1>7. SenderOK(sender)' /\ (\A f \in Files : LoopInv(f)') /\ DataInv'
  <2>1. SenderOK(sender)'
    BY <1>2 DEF SenderSide, SenderOK
  <2>2. DataInv'
    BY <1>2 DEF DataInv, SenderSide, FramesOK
  <2>3. Payloads' = Payloads
    BY <1>2, SameFrames
  <2> QED
    BY <1>2, <2>1, <2>2, <2>3 DEF LoopInv, LoopOK
<1>8. CommonOK(OfReceiver, drain)' /\ DrainOK(OfReceiver)'
  <2>1. PICK y : y = OfReceiver
    OBVIOUS
  <2>2. CommonOK(y, y.drain) /\ DrainOK(y) /\ y.r = receiver /\ y.drain = drain
        /\ y.closing = closing /\ y.files = files
    BY <2>1, BeginsAnyhow DEF Inv
  <2> QED
    BY <1>2, <2>2, CommonBecomes
<1>9. AcceptInv'
  <2>1. PICK k \in {0, 1} : \A n \in DOMAIN toSender' :
            n \in Nat /\ n + k \in DOMAIN toSender /\ toSender'[n] = toSender[n + k]
    BY <1>4
  <2>2. \A n \in DOMAIN toSender' : IsAccept(toSender[n])' => IsAccept(toSender[n + k])
    BY <1>2, <2>1 DEF IsAccept
  <2>3. ASSUME NEW m \in DOMAIN toSender', NEW n \in DOMAIN toSender',
               IsAccept(toSender[m])', IsAccept(toSender[n])'
        PROVE  m = n
    <3>1. m + k = n + k
      BY <2>1, <2>2, <2>3 DEF Inv, AcceptInv
    <3> QED
      BY <2>1, <3>1
  <2>4. ASSUME NEW n \in DOMAIN toSender', IsAccept(toSender[n])'
        PROVE  receiver'.id = sender'.id /\ receiver'.destination = sender'.id
    BY <1>2, <2>1, <2>2, <2>4 DEF Inv, AcceptInv
  <2> QED
    BY <2>3, <2>4 DEF AcceptInv
<1>10. DoneInv'
  <2>1. Whole(files, sender.id) => Whole(files, sender.id)'
    BY <1>2 DEF Whole, SourceOf
  <2>2. \A n \in DOMAIN toSender' :
            toSender'[n].type = "VERIFY_OK" /\ toSender'[n].id = sender.id =>
                Whole(files, sender.id)
    BY <1>4 DEF Inv, DoneInv
  <2> QED
    BY <1>2, <2>1, <2>2 DEF DoneInv, SenderSide
<1>11. sender'.id >= 2 => Quiet'
  BY <1>2 DEF Inv, SenderMoves, Quiet
<1>12. ASSUME Quiet'
       PROVE  /\ QuietOK(OfReceiver)' /\ QuietInv' /\ UnbegunInv' /\ SentInv' /\ FinishInv'
              /\ FifoOK(OfReceiver, drain, data)'
  <2>1. /\ Quiet /\ QuietInv /\ UnbegunInv /\ QuietOK(OfReceiver)
        /\ ~ x.s.paused
        /\ \A f \in Files : L[f].pc \notin {"head", "paused"}
        /\ SaysQuietly(x.out)
        /\ b => SentIn(x.s, L)
        /\ ~ b /\ x.s.id # None => Unread(x.s, L, x.out)
        /\ FinishesIn(x.s, x.out)
        /\ FifoIn(x.s, x.data, b)
    BY <1>12 DEF SenderMoves, Inv, QuietFinal
  <2>2. QuietOK(OfReceiver)'
    BY <1>2, <2>1 DEF QuietOK, OfReceiver, Accepted
  <2>3. QuietInv'
    BY <1>2, <1>3, <1>4, <2>1 DEF QuietInv, SaysQuietly
  <2>4. Begun => Begun'
    BY <1>2, <1>4 DEF Begun, IsAccept
  <2>5. UnbegunInv'
    <3>1. SUFFICES ASSUME ~ Begun', sender'.id # None
                   PROVE  UnbegunInv'
      BY DEF UnbegunInv
    <3>2. ~ Begun /\ Unread(x.s, L, x.out) /\ sender.id # None
      BY <1>2, <2>1, <2>4, <3>1
    <3>3. \A n \in DOMAIN toReceiver' :
              toReceiver'[n].type = "FINISH" => toReceiver'[n].id # sender'.id
      BY <1>2, <1>3, <2>1, <3>2 DEF UnbegunInv, Unread
    <3> QED
      BY <1>2, <2>1, <3>2, <3>3 DEF UnbegunInv, Unread
  <2>6. SentInv'
    BY <1>1, <1>2, <2>1
       DEF SentInv, SentIn, Clean, CleanIn, Doomed, DoomedIn, Ascending, Others, HasFirst
  <2>7. FinishInv'
    <3>1. \A bytes, sha256 : FinishIn(x.s, bytes, sha256) => FinishOK(bytes, sha256)'
      BY <1>2 DEF FinishOK, FinishIn, Ascending, SourceOf
    <3> QED
      BY <1>1, <1>2, <1>3, <2>1, <3>1 DEF FinishInv, FinishesIn, NoFinish
  <2>8. FifoOK(OfReceiver, drain, data)'
    <3>1. Unspoilt' => UnspoiltBy(x.s, b)
      BY <1>2 DEF Unspoilt, UnspoiltBy
    <3>2. OfReceiver.r = receiver /\ OfReceiver.r' = receiver
      BY <1>2 DEF OfReceiver
    <3>3. PICK t, n0 : t = Taken(OfReceiver, drain) /\ n0 = Before(OfReceiver, drain)
      OBVIOUS
    <3>4. Taken(OfReceiver, drain)' = t /\ Before(OfReceiver, drain)' = n0
      BY <1>2, <3>3 DEF Taken, Before, OfReceiver, InWriting, Writing
    <3>5. Accepted(OfReceiver)' <=> Accepted(OfReceiver)
      BY <1>2 DEF Accepted, OfReceiver
    <3>6. SUFFICES ASSUME Unspoilt', sender'.id # None,
                          ~(receiver'.id = sender'.id /\ receiver'.cancelled)
                   PROVE  FifoOK(OfReceiver, drain, data)'
      BY <1>2, <3>2 DEF FifoOK
    <3>7. /\ Arriving(sender.id, x.s.sourceHash, Expected(sender.id), x.data)
          /\ receiver.id = sender.id /\ Accepted(OfReceiver) =>
                \A n \in 1 .. receiver.expected : t[n0 + n] = x.s.sourceHash[n]
      BY <1>1, <1>2, <2>1, <3>1, <3>3, <3>6 DEF FifoIn
    <3> QED
      BY <1>1, <1>2, <3>2, <3>4, <3>5, <3>7 DEF FifoOK, Arriving, Expected
  <2> QED
    BY <2>2, <2>3, <2>5, <2>6, <2>7, <2>8
<1> QED
  BY <1>5, <1>6, <1>7, <1>8, <1>9, <1>10, <1>11, <1>12 DEF Inv

-----------------------------------------------------------------------------
(* What the sender's steps are made of.                                      *)

SameFlow(s, t) ==
    /\ t.id = s.id /\ t.reads = s.reads /\ t.next = s.next /\ t.sent = s.sent
    /\ t.sourceHash = s.sourceHash /\ t.paused = s.paused
    /\ s.cancelled => t.cancelled

SaysMore(out, more) ==
    \A n \in DOMAIN more :
        \/ \E k \in DOMAIN out : more[n] = out[k]
        \/ more[n].type \in {"FAIL", "OFFER", "START"}

LEMMA FlowQuiet ==
    ASSUME NEW x, NEW y, NEW L, NEW b, QuietFinal(x, L, b), SameFlow(x.s, y.s),
           y.data = x.data, SaysMore(x.out, y.out)
    PROVE  QuietFinal(y, L, b)
<1>1. \A bytes, sha256 : FinishIn(x.s, bytes, sha256) => FinishIn(y.s, bytes, sha256)
  BY DEF FinishIn, SameFlow
<1>2. FinishesIn(y.s, y.out)
  BY <1>1 DEF QuietFinal, FinishesIn, SaysMore, SameFlow
<1>3. FifoIn(y.s, y.data, b)
  BY DEF QuietFinal, FifoIn, UnspoiltBy, SameFlow
<1>4. b => SentIn(y.s, L)
  <2>1. CleanIn(x.s, L) => CleanIn(y.s, L)
    BY DEF CleanIn, SameFlow
  <2>2. DoomedIn(x.s, L[x.s.id]) => DoomedIn(y.s, L[y.s.id])
    BY DEF DoomedIn, Ascending, SameFlow
  <2>3. HasFirst(x.s) => HasFirst(y.s)
    BY DEF HasFirst, SameFlow
  <2> QED
    BY <2>1, <2>2, <2>3 DEF QuietFinal, SentIn, SameFlow
<1>5. ~ b /\ y.s.id # None => Unread(y.s, L, y.out)
  BY DEF QuietFinal, Unread, SaysMore, SameFlow
<1>6. SaysQuietly(y.out)
  BY DEF QuietFinal, SaysQuietly, SaysMore
<1> QED
  BY <1>2, <1>3, <1>4, <1>5, <1>6 DEF QuietFinal, SameFlow

LEMMA OfSenderIs ==
    ASSUME Types
    PROVE  /\ OfSender \in SStep /\ OfSender.s = sender /\ OfSender.out = <<>>
           /\ OfSender.data = data /\ OfSender.buffered = buffered
           /\ \A f \in Files : /\ OfLoop(f) \in LStep /\ OfLoop(f).s = sender
                               /\ OfLoop(f).out = <<>> /\ OfLoop(f).data = data
                               /\ OfLoop(f).buffered = buffered /\ OfLoop(f).loop = loops[f]
<1>1. <<>> \in Seq(ToReceiver)
  OBVIOUS
<1> QED
  BY <1>1 DEF OfSender, OfLoop, SStep, LStep, Types

Sides == SStep \cup LStep

LEMMA SidesAre ==
    ASSUME NEW x \in Sides
    PROVE  x.s \in Sender /\ x.out \in Seq(ToReceiver) /\ x.data \in Seq(DataFrame)
           /\ x.buffered \in Nat
  BY DEF Sides, SStep, LStep

\* A sender before a step of it.
LEMMA SenderBegins ==
    ASSUME Inv, NEW x, x.s = sender, x.out = <<>>, x.data = data, x.buffered = buffered
    PROVE  /\ Types /\ SenderSide(x)
           /\ \A f \in Files : LoopOK(f, loops[f])
           /\ loops \in [Files -> Loop]
           /\ Quiet => QuietFinal(x, loops, Begun)
<1>1. Types /\ sender \in Sender /\ data \in Seq(DataFrame) /\ buffered \in Nat
      /\ loops \in [Files -> Loop]
  BY DEF Inv, Types
<1>2. <<>> \in Seq(ToReceiver)
  OBVIOUS
<1>3. SenderSide(x)
  <2>1. Unoffered(x) /\ \A n \in DOMAIN x.out : x.out[n].id <= sender.id
    BY DEF Unoffered
  <2>2. FramesOK(x.data) /\ SenderOK(x.s)
    BY DEF Inv, DataInv, FramesOK
  <2>3. x.s.state = "COMPLETED" /\ sender.id # None => Whole(files, sender.id)
    BY DEF Inv, DoneInv
  <2> QED
    BY <1>1, <1>2, <2>1, <2>2, <2>3 DEF SenderSide, Inv, IdsInv
<1>4. \A f \in Files : LoopOK(f, loops[f])
  BY DEF Inv, LoopInv, LoopOK
<1>5. ASSUME Quiet
      PROVE  QuietFinal(x, loops, Begun)
  <2>1. QuietInv /\ UnbegunInv /\ SentInv /\ FinishInv /\ FifoOK(OfReceiver, drain, data)
    BY <1>5 DEF Inv
  <2>2. SaysQuietly(x.out)
    BY DEF SaysQuietly
  <2>3. Begun => SentIn(x.s, loops)
    BY <2>1
       DEF SentInv, SentIn, Clean, CleanIn, Doomed, DoomedIn, Ascending, Others, HasFirst
  <2>4. ~ Begun /\ x.s.id # None => Unread(x.s, loops, x.out)
    BY <2>1 DEF UnbegunInv, Unread
  <2>5. FinishesIn(x.s, x.out)
    <3>1. \A bytes, sha256 : FinishOK(bytes, sha256) => FinishIn(x.s, bytes, sha256)
      BY DEF FinishOK, FinishIn
    <3> QED
      BY <2>1, <3>1 DEF FinishInv, FinishesIn
  <2>6. FifoIn(x.s, x.data, Begun)
    <3>1. UnspoiltBy(x.s, Begun) <=> Unspoilt
      BY DEF Unspoilt, UnspoiltBy
    <3>2. OfReceiver.r = receiver
      BY DEF OfReceiver
    <3> QED
      BY <2>1, <3>1, <3>2 DEF FifoOK, FifoIn, Expected
  <2> QED
    BY <2>1, <2>2, <2>3, <2>4, <2>5, <2>6 DEF QuietFinal, QuietInv
<1> QED
  BY <1>1, <1>3, <1>4, <1>5

Ceases(s, state) ==
    [s EXCEPT !.cancelled = TRUE, !.flowWaiters = {}, !.pauseWaiters = {}, !.state = state]

LEMMA CeasesIs ==
    ASSUME NEW s \in Sender, NEW state \in States
    PROVE  /\ Ceases(s, state) \in Sender /\ Ceases(s, state) = [Ceased(s) EXCEPT !.state = state]
           /\ Ceases(s, state).state = state /\ Ceases(s, state).cancelled
           /\ SameFlow(s, Ceases(s, state)) /\ Ceases(s, state).offered = s.offered
<1>1. {} \in SUBSET Files /\ TRUE \in BOOLEAN
  OBVIOUS
<1>2. Ceases(s, state) \in Sender
  BY <1>1 DEF Ceases, Sender
<1>3. Ceases(s, state) = [Ceased(s) EXCEPT !.state = state]
  BY DEF Ceases, Ceased, Sender
<1>4. /\ Ceases(s, state).state = state /\ Ceases(s, state).cancelled
      /\ Ceases(s, state).offered = s.offered
      /\ Ceases(s, state).id = s.id /\ Ceases(s, state).reads = s.reads
      /\ Ceases(s, state).next = s.next /\ Ceases(s, state).sent = s.sent
      /\ Ceases(s, state).sourceHash = s.sourceHash /\ Ceases(s, state).paused = s.paused
  BY <1>2 DEF Ceases, Sender
<1> QED
  BY <1>2, <1>3, <1>4 DEF SameFlow

\* What changes neither what is sent nor how much has been.
LEMMA SameFlowSide ==
    ASSUME NEW x, SenderSide(x), NEW t \in Sender, SameFlow(x.s, t), t.offered = x.s.offered,
           t.state \in {"FAILED", "CANCELLED"} => t.cancelled,
           t.state = "READY" => x.s.state = "READY",
           t.state = "COMPLETED" /\ sender.id # None => Whole(files, sender.id),
           NEW y, y.s = t, y.out = x.out, y.data = x.data, y.buffered = x.buffered
    PROVE  SenderSide(y)
  BY DEF SenderSide, SameFlow, SenderOK, Unoffered

Adds(s, m, t) == t = Append(s, m)

\* A message that is no offer.
LEMMA SpeaksSide ==
    ASSUME NEW x, SenderSide(x), NEW m \in ToReceiver, m.type # "OFFER", m.id <= sender.id,
           NEW y, y.s = x.s, Adds(x.out, m, y.out), y.data = x.data, y.buffered = x.buffered
    PROVE  /\ SenderSide(y)
           /\ m.type \in {"FAIL", "START"} => SaysMore(x.out, y.out)
<1>1. x.out \in Seq(ToReceiver)
  BY DEF SenderSide
<1>2. /\ y.out \in Seq(ToReceiver)
      /\ \A n \in DOMAIN y.out : n \in DOMAIN x.out \/ n = Len(x.out) + 1
      /\ \A n \in DOMAIN x.out : y.out[n] = x.out[n]
      /\ y.out[Len(x.out) + 1] = m
  BY <1>1, Appended DEF Adds
<1>3. Unoffered(y) /\ \A n \in DOMAIN y.out : y.out[n].id <= sender.id
  BY <1>2 DEF SenderSide, Unoffered
<1>4. SenderSide(y)
  BY <1>2, <1>3 DEF SenderSide
<1>5. m.type \in {"FAIL", "START"} => SaysMore(x.out, y.out)
  BY <1>2 DEF SaysMore
<1> QED
  BY <1>4, <1>5

LEMMA SenderSignalIs ==
    ASSUME NEW f \in FileOrNone
    PROVE  /\ \A t \in {"PAUSE", "RESUME", "FAIL"} : [type |-> t, id |-> f] \in ToReceiver
           /\ f # None => /\ [type |-> "CANCEL", id |-> f] \in ToReceiver
                          /\ [type |-> "OFFER", id |-> f] \in ToReceiver
                          /\ [type |-> "START", id |-> f] \in ToReceiver
<1>1. f # None => f \in Files
  BY FileFacts
<1> QED
  BY <1>1 DEF ToReceiver, Signals
\* A step like another one but for the sender and what it says.
Like(x, y) ==
    /\ y.data = x.data /\ y.buffered = x.buffered
    /\ x \in SStep => y \in SStep
    /\ x \in LStep => y \in LStep /\ y.loop = x.loop

WithS(x, s) == [x EXCEPT !.s = s]
WithOut(x, s, out) == [x EXCEPT !.s = s, !.out = out]

LEMMA LikeIs ==
    ASSUME NEW x \in Sides, NEW s \in Sender, NEW out \in Seq(ToReceiver)
    PROVE  /\ Like(x, WithOut(x, s, out)) /\ WithOut(x, s, out).s = s
           /\ WithOut(x, s, out).out = out
           /\ Like(x, WithS(x, s)) /\ WithS(x, s).s = s /\ WithS(x, s).out = x.out
<1>1. CASE x \in SStep
  BY <1>1 DEF Like, SStep, LStep, WithS, WithOut
<1>2. CASE x \in LStep
  BY <1>2 DEF Like, SStep, LStep, WithS, WithOut
<1> QED
  BY <1>1, <1>2 DEF Sides

LEMMA SenderFailsIs ==
    ASSUME NEW x \in Sides
    PROVE  /\ Like(x, SenderFails(x))
           /\ \/ x.s.state \in {"FAILED", "CANCELLED"} /\ SenderFails(x) = x
              \/ /\ SenderFails(x).s = Ceases(x.s, "FAILED")
                 /\ SenderFails(x).out = Append(x.out, [type |-> "FAIL", id |-> x.s.id])
<1>1. x.s \in Sender /\ x.out \in Seq(ToReceiver) /\ x.s.id \in FileOrNone
  BY SidesAre DEF Sender
<1>2. CASE x.s.state \in {"FAILED", "CANCELLED"}
  BY <1>2 DEF SenderFails, Like
<1>3. CASE x.s.state \notin {"FAILED", "CANCELLED"}
  <2>1. PICK s \in Sender : s = Ceases(x.s, "FAILED") /\ s = [Ceased(x.s) EXCEPT !.state = "FAILED"]
    BY <1>1, CeasesIs DEF States
  <2>2. PICK m \in ToReceiver : m = [type |-> "FAIL", id |-> x.s.id]
    BY <1>1, SenderSignalIs
  <2>3. Append(x.out, m) \in Seq(ToReceiver)
    BY <1>1, Appended
  <2>4. PICK out \in Seq(ToReceiver) : out = Append(x.out, m)
    BY <2>3
  <2>5. SenderFails(x) = WithOut(x, s, out)
    <3>1. CASE x \in SStep
      BY <1>3, <2>1, <2>2, <2>4, <3>1 DEF SenderFails, SStep, WithOut
    <3>2. CASE x \in LStep
      BY <1>3, <2>1, <2>2, <2>4, <3>2 DEF SenderFails, LStep, WithOut
    <3> QED
      BY <3>1, <3>2 DEF Sides
  <2>6. Like(x, WithOut(x, s, out)) /\ WithOut(x, s, out).s = s /\ WithOut(x, s, out).out = out
    BY LikeIs
  <2> QED
    BY <2>1, <2>2, <2>4, <2>5, <2>6
<1> QED
  BY <1>2, <1>3

LEMMA SenderFailsSide ==
    ASSUME NEW x \in Sides, SenderSide(x), sender.id \in FileOrNone
    PROVE  /\ Like(x, SenderFails(x)) /\ SenderSide(SenderFails(x))
           /\ SenderFails(x).s.cancelled /\ SameFlow(x.s, SenderFails(x).s)
           /\ SaysMore(x.out, SenderFails(x).out)
<1>1. PICK y : y = SenderFails(x)
  OBVIOUS
<1>2. x.s \in Sender /\ x.out \in Seq(ToReceiver) /\ x.s.id = sender.id /\ sender.id \in Nat
  BY FileFacts DEF SenderSide
<1>3. Like(x, y)
  BY <1>1, SenderFailsIs
<1>4. CASE x.s.state \in {"FAILED", "CANCELLED"} /\ y = x
  <2>1. x.s.cancelled
    BY <1>4 DEF SenderSide, SenderOK
  <2> QED
    BY <1>1, <1>3, <1>4, <2>1 DEF SameFlow, SaysMore
<1>5. CASE /\ y.s = Ceases(x.s, "FAILED")
           /\ y.out = Append(x.out, [type |-> "FAIL", id |-> x.s.id])
  <2>1. PICK t \in Sender : t = Ceases(x.s, "FAILED")
    BY <1>2, CeasesIs DEF States
  <2>2. t.state = "FAILED" /\ t.cancelled /\ SameFlow(x.s, t) /\ t.offered = x.s.offered
    BY <1>2, <2>1, CeasesIs DEF States
  <2>3. PICK w : w = WithS(x, t)
    OBVIOUS
  <2>4. w.s = t /\ w.out = x.out /\ w.data = x.data /\ w.buffered = x.buffered
    BY <1>2, <2>3, LikeIs DEF Like
  <2>5. SenderSide(w)
    BY <2>2, <2>4, SameFlowSide
  <2>6. PICK m \in ToReceiver : m = [type |-> "FAIL", id |-> x.s.id]
    BY <1>2, SenderSignalIs
  <2>7. m.type = "FAIL" /\ m.id = sender.id
    BY <1>2, <2>6
  <2>8. y.s = w.s /\ Adds(w.out, m, y.out) /\ y.data = w.data /\ y.buffered = w.buffered
    BY <1>3, <1>5, <2>1, <2>4, <2>6 DEF Like, Adds
  <2>9. SenderSide(y) /\ SaysMore(w.out, y.out)
    BY <1>2, <2>5, <2>7, <2>8, SpeaksSide
  <2> QED
    BY <1>1, <1>3, <2>2, <2>4, <2>8, <2>9
<1> QED
  BY <1>1, <1>4, <1>5, SenderFailsIs

LEMMA SenderSaysIs ==
    ASSUME NEW x \in Sides, SenderSide(x), sender.id \in FileOrNone,
           NEW m \in ToReceiver, m.type # "OFFER", m.id <= sender.id
    PROVE  /\ Like(x, SenderSays(x, m)) /\ SenderSide(SenderSays(x, m))
           /\ SameFlow(x.s, SenderSays(x, m).s)
           /\ connected => /\ SenderSays(x, m).s = x.s
                           /\ SenderSays(x, m).out = Append(x.out, m)
           /\ ~ connected => SenderSays(x, m) = SenderFails(x)
           /\ m.type \in {"FAIL", "START"} => SaysMore(x.out, SenderSays(x, m).out)
<1>1. PICK y : y = SenderSays(x, m)
  OBVIOUS
<1>2. x.s \in Sender /\ x.out \in Seq(ToReceiver)
  BY SidesAre
<1>3. CASE connected
  <2>1. Append(x.out, m) \in Seq(ToReceiver)
    BY <1>2, Appended
  <2>2. PICK out \in Seq(ToReceiver) : out = Append(x.out, m)
    BY <2>1
  <2>3. y = WithOut(x, x.s, out)
    <3>1. CASE x \in SStep
      BY <1>1, <1>3, <2>2, <3>1 DEF SenderSays, SStep, WithOut
    <3>2. CASE x \in LStep
      BY <1>1, <1>3, <2>2, <3>2 DEF SenderSays, LStep, WithOut
    <3> QED
      BY <3>1, <3>2 DEF Sides
  <2>4. Like(x, y) /\ y.s = x.s /\ y.out = Append(x.out, m)
    BY <1>2, <2>2, <2>3, LikeIs, ZenonT(60)
  <2>5. Adds(x.out, m, y.out)
    BY <2>4 DEF Adds
  <2>6. SenderSide(y) /\ (m.type \in {"FAIL", "START"} => SaysMore(x.out, y.out))
    BY <2>4, <2>5, SpeaksSide DEF Like
  <2> QED
    BY <1>1, <1>3, <2>4, <2>6 DEF SameFlow
<1>4. CASE ~ connected
  <2>1. y = SenderFails(x)
    BY <1>1, <1>4 DEF SenderSays
  <2> QED
    BY <1>1, <1>4, <2>1, SenderFailsSide
<1> QED
  BY <1>3, <1>4
LEMMA SenderActs ==
    ASSUME Inv, NEW x, frames' = frames, SenderBecomes(x), loops' = loops, toSender' = toSender,
           Counted, SenderSide(x), NEW b \in BOOLEAN, b <=> Begun,
           NEW L, L = loops, Quiet' => QuietFinal(x, L, b)
    PROVE  Inv'
<1>1. L \in [Files -> Loop] /\ \A f \in Files : LoopOK(f, L[f])
  BY DEF Inv, Types, LoopInv, LoopOK
<1>2. SenderMoves(x, L)
  BY DEF SenderMoves, SenderBecomes, receiving, Counted, Fewer
<1>3. x.s.id = sender.id
  BY DEF SenderSide
<1>4. b <=> Begun'
  BY <1>3 DEF Begun, IsAccept, SenderBecomes, receiving
<1> QED
  BY <1>1, <1>2, <1>4, SenderStep

\* Where the sender is before it acts.
LEMMA Acting ==
    ASSUME Inv
    PROVE  \E x \in SStep, b \in BOOLEAN, L \in [Files -> Loop] :
              /\ x = OfSender /\ x.s = sender /\ x.out = <<>> /\ x.data = data
              /\ x.buffered = buffered
              /\ b <=> Begun
              /\ L = loops
              /\ Types /\ sender.id \in FileOrNone /\ sender.id \in Nat /\ sender \in Sender
              /\ SenderSide(x)
              /\ Quiet => QuietFinal(x, L, b) /\ connected
<1>1. Types
  BY DEF Inv
<1>2. PICK x \in SStep : x = OfSender
  BY <1>1, OfSenderIs
<1>3. x.s = sender /\ x.out = <<>> /\ x.data = data /\ x.buffered = buffered
  BY <1>1, <1>2, OfSenderIs
<1>4. PICK b \in BOOLEAN : b <=> Begun
  BY DEF Begun
<1>5. PICK L \in [Files -> Loop] : L = loops
  BY <1>1 DEF Types
<1>6. SenderSide(x) /\ (Quiet => QuietFinal(x, loops, Begun))
  BY <1>3, SenderBegins
<1>7. Quiet => QuietFinal(x, L, b) /\ connected
  BY <1>4, <1>5, <1>6 DEF QuietFinal, FifoIn, UnspoiltBy, Inv, QuietInv
<1>8. sender.id \in FileOrNone /\ sender.id \in Nat /\ sender \in Sender
  <2>1. sender \in Sender /\ sender.id \in FileOrNone
    BY <1>1 DEF Types, Sender
  <2> QED
    BY <2>1, FileFacts
<1> QED
  BY <1>1, <1>2, <1>3, <1>4, <1>5, <1>6, <1>7, <1>8

Offering(s) == [s EXCEPT !.offered = TRUE]

LEMMA OfferingIs ==
    ASSUME NEW s \in Sender
    PROVE  /\ Offering(s) \in Sender /\ Offering(s).offered /\ SameFlow(s, Offering(s))
           /\ Offering(s).state = s.state /\ Offering(s).cancelled = s.cancelled
<1>1. TRUE \in BOOLEAN
  OBVIOUS
<1> QED
  BY <1>1 DEF Offering, Sender, SameFlow

LEMMA OfferKeeps ==
    ASSUME Inv, frames' = frames, Offer
    PROVE  Inv'
<1>1. PICK x \in SStep, b \in BOOLEAN, L \in [Files -> Loop] :
              /\ x = OfSender /\ x.s = sender /\ x.out = <<>> /\ x.data = data
              /\ x.buffered = buffered
              /\ b <=> Begun
              /\ L = loops
              /\ Types /\ sender.id \in FileOrNone /\ sender.id \in Nat /\ sender \in Sender
              /\ SenderSide(x)
              /\ Quiet => QuietFinal(x, L, b) /\ connected
  BY Acting
<1>2. /\ sender.state = "READY" /\ ~ sender.offered
      /\ UNCHANGED <<loops, toSender, pauses, troubles>>
  BY DEF Offer
<1>3. sender.id # None /\ sender.id \in Files
  BY <1>1, <1>2, FileFacts DEF SenderSide, SenderOK
<1>4. PICK t \in Sender : t = Offering(sender)
  BY <1>1, OfferingIs
<1>5. t.offered /\ SameFlow(sender, t) /\ t.state = "READY" /\ t.cancelled = sender.cancelled
  BY <1>1, <1>2, <1>4, OfferingIs
<1>6. PICK w : w = WithS(x, t)
  OBVIOUS
<1>7. /\ x \in Sides /\ x.out \in Seq(ToReceiver)
  BY <1>1, SidesAre DEF Sides
<1>8. w.s = t /\ w.out = x.out /\ w.data = x.data /\ w.buffered = x.buffered /\ w \in SStep
  BY <1>1, <1>6, <1>7, LikeIs DEF Like
<1>9. PICK m \in ToReceiver : m = [type |-> "OFFER", id |-> sender.id]
  BY <1>1, <1>3, SenderSignalIs
<1>10. PICK y : y = SenderSays(w, m)
  OBVIOUS
<1>11. SenderBecomes(y)
  BY <1>1, <1>4, <1>6, <1>9, <1>10 DEF Offer, WithS, Offering, OfSender
<1>12. SenderSide(w)
  <2>1. \A n \in DOMAIN w.out : FALSE
    BY <1>1, <1>8
  <2>2. Unoffered(w) /\ \A n \in DOMAIN w.out : w.out[n].id <= sender.id
    BY <2>1 DEF Unoffered
  <2>3. SenderOK(t)
    BY <1>1, <1>3, <1>5 DEF SenderSide, SenderOK, SameFlow
  <2>4. /\ FramesOK(x.data) /\ x.data \in Seq(DataFrame) /\ x.buffered \in Nat
        /\ x.s.id = sender.id /\ x.s.reads \in {None, sender.id}
    BY <1>1 DEF SenderSide
  <2> QED
    BY <1>1, <1>5, <1>7, <1>8, <2>2, <2>3, <2>4 DEF SenderSide, SameFlow
<1>13. SenderSide(y) /\ SameFlow(x.s, y.s) /\ y.data = x.data /\ SaysMore(x.out, y.out)
  <2>1. CASE connected
    <3>1. PICK out \in Seq(ToReceiver) : out = Append(w.out, m)
      <4>1. Append(w.out, m) \in Seq(ToReceiver)
        BY <1>7, <1>8, Appended
      <4> QED
        BY <4>1
    <3>2. y = WithOut(w, w.s, out)
      BY <1>8, <1>10, <2>1, <3>1 DEF SenderSays, WithOut, SStep
    <3>3. y.s = t /\ y.out = out /\ y.data = w.data /\ y.buffered = w.buffered
      <4>1. w \in Sides /\ w.s \in Sender
        BY <1>8 DEF Sides
      <4> QED
        BY <1>8, <3>2, <4>1, LikeIs DEF Like
    <3>4. Len(out) = 1 /\ out[1] = m /\ \A n \in DOMAIN out : n = 1
      BY <1>1, <1>8, <3>1
    <3>5. m.type = "OFFER" /\ m.id = sender.id
      BY <1>9
    <3>6. SaysMore(x.out, y.out)
      BY <3>3, <3>4, <3>5 DEF SaysMore
    <3>7. Unoffered(y)
      BY <1>2, <1>3, <1>5, <3>3, <3>4, <3>5 DEF Unoffered
    <3>8. \A n \in DOMAIN y.out : y.out[n].id <= sender.id
      BY <1>1, <3>3, <3>4, <3>5
    <3> QED
      BY <1>1, <1>5, <1>8, <1>12, <3>3, <3>6, <3>7, <3>8 DEF SenderSide
  <2>2. CASE ~ connected
    <3>1. w \in Sides /\ y = SenderFails(w)
      BY <1>8, <1>10, <2>2 DEF SenderSays, Sides
    <3>2. SenderSide(y) /\ Like(w, y) /\ SameFlow(w.s, y.s) /\ SaysMore(w.out, y.out)
      BY <1>1, <1>12, <3>1, SenderFailsSide
    <3> QED
      BY <1>1, <1>5, <1>8, <3>2 DEF SameFlow, Like
  <2> QED
    BY <2>1, <2>2
<1>14. Counted
  BY <1>1, <1>2, CountedIs
<1>15. Quiet' => QuietFinal(y, L, b)
  BY <1>1, <1>13, <1>14, FlowQuiet DEF Counted
<1> QED
  BY <1>1, <1>2, <1>11, <1>13, <1>14, <1>15, SenderActs
Pausing(s) ==
    [s EXCEPT !.paused = TRUE, !.before = s.state, !.state = "PAUSED"]
Resuming(s) ==
    [s EXCEPT !.paused = FALSE, !.state = s.before, !.pauseWaiters = {}]

LEMMA PausingIs ==
    ASSUME NEW s \in Sender
    PROVE  /\ CanPause(s) => Pausing(s) \in Sender /\ Pausing(s) = Paused(s)
           /\ Resuming(s) \in Sender /\ Resuming(s) = SenderResumed(s)
           /\ \A t \in {Pausing(s), Resuming(s)} :
                 /\ t.id = s.id /\ t.reads = s.reads /\ t.offered = s.offered
                 /\ t.cancelled = s.cancelled /\ t.sent = s.sent
                 /\ t.sourceHash = s.sourceHash
                 /\ t.state \in {"PAUSED", "IDLE", "SENDING", "RECEIVING"}
<1>1. {} \in SUBSET Files /\ TRUE \in BOOLEAN /\ FALSE \in BOOLEAN
  OBVIOUS
<1>2. s.before \in {"IDLE", "SENDING", "RECEIVING"}
  BY DEF Sender
<1>3. CanPause(s) => Pausing(s) \in Sender
  BY <1>1 DEF Pausing, Sender, CanPause, States
<1>4. Resuming(s) \in Sender
  BY <1>1 DEF Resuming, Sender, States
<1>5. Pausing(s) = Paused(s) /\ Resuming(s) = SenderResumed(s)
  BY DEF Pausing, Resuming, Paused, SenderResumed, Sender
<1>6. /\ Pausing(s).id = s.id /\ Pausing(s).reads = s.reads /\ Pausing(s).offered = s.offered
      /\ Pausing(s).cancelled = s.cancelled /\ Pausing(s).sent = s.sent
      /\ Pausing(s).sourceHash = s.sourceHash /\ Pausing(s).state = "PAUSED"
  BY DEF Pausing, Sender
<1>7. /\ Resuming(s).id = s.id /\ Resuming(s).reads = s.reads /\ Resuming(s).offered = s.offered
      /\ Resuming(s).cancelled = s.cancelled /\ Resuming(s).sent = s.sent
      /\ Resuming(s).sourceHash = s.sourceHash /\ Resuming(s).state = s.before
  BY DEF Resuming, Sender
<1> QED
  BY <1>2, <1>3, <1>4, <1>5, <1>6, <1>7

\* What a user's call leaves, in a behaviour that is not quiet.
LEMMA LoudSide ==
    ASSUME NEW x, SenderSide(x), NEW t \in Sender, t.id = x.s.id, t.reads = x.s.reads,
           t.offered = x.s.offered, t.cancelled = x.s.cancelled, t.sent = x.s.sent,
           t.sourceHash = x.s.sourceHash,
           t.state \in {"PAUSED", "IDLE", "SENDING", "RECEIVING"},
           NEW y, y.s = t, y.out = x.out, y.data = x.data, y.buffered = x.buffered
    PROVE  SenderSide(y)
<1>1. SenderOK(t)
  BY DEF SenderSide, SenderOK
<1>2. Unoffered(y)
  BY DEF SenderSide, Unoffered
<1> QED
  BY <1>1, <1>2 DEF SenderSide

LEMMA SenderPausesKeeps ==
    ASSUME Inv, frames' = frames, SenderPauses \/ SenderResumes
    PROVE  Inv'
<1>1. PICK x \in SStep, b \in BOOLEAN, L \in [Files -> Loop] :
              /\ x = OfSender /\ x.s = sender /\ x.out = <<>> /\ x.data = data
              /\ x.buffered = buffered
              /\ b <=> Begun
              /\ L = loops
              /\ Types /\ sender.id \in FileOrNone /\ sender.id \in Nat /\ sender \in Sender
              /\ SenderSide(x)
              /\ Quiet => QuietFinal(x, L, b) /\ connected
  BY Acting
<1>2. x \in Sides /\ x.out \in Seq(ToReceiver)
  BY <1>1, SidesAre DEF Sides
<1>3. PICK t \in Sender, m \in ToReceiver :
          /\ \/ /\ SenderPauses /\ t = Paused(sender)
                /\ m = [type |-> "PAUSE", id |-> sender.id]
             \/ /\ SenderResumes /\ t = SenderResumed(sender)
                /\ m = [type |-> "RESUME", id |-> sender.id]
          /\ t.id = x.s.id /\ t.reads = x.s.reads /\ t.offered = x.s.offered
          /\ t.cancelled = x.s.cancelled /\ t.sent = x.s.sent
          /\ t.sourceHash = x.s.sourceHash
          /\ t.state \in {"PAUSED", "IDLE", "SENDING", "RECEIVING"}
  <2>1. /\ [type |-> "PAUSE", id |-> sender.id] \in ToReceiver
        /\ [type |-> "RESUME", id |-> sender.id] \in ToReceiver
    BY <1>1, SenderSignalIs
  <2>2. CASE SenderPauses
    <3>1. CanPause(sender)
      BY <2>2 DEF SenderPauses
    <3>2. PICK t \in Sender : t = Pausing(sender) /\ t = Paused(sender)
      BY <1>1, <3>1, PausingIs
    <3>3. t \in {Pausing(sender), Resuming(sender)}
      BY <3>2
    <3>4. /\ t.id = sender.id /\ t.reads = sender.reads /\ t.offered = sender.offered
          /\ t.cancelled = sender.cancelled /\ t.sent = sender.sent
          /\ t.sourceHash = sender.sourceHash
          /\ t.state \in {"PAUSED", "IDLE", "SENDING", "RECEIVING"}
      BY <1>1, <3>3, PausingIs
    <3> QED
      BY <1>1, <2>1, <2>2, <3>2, <3>4
  <2>3. CASE SenderResumes
    <3>2. PICK t \in Sender : t = Resuming(sender) /\ t = SenderResumed(sender)
      BY <1>1, PausingIs
    <3>3. t \in {Pausing(sender), Resuming(sender)}
      BY <3>2
    <3>4. /\ t.id = sender.id /\ t.reads = sender.reads /\ t.offered = sender.offered
          /\ t.cancelled = sender.cancelled /\ t.sent = sender.sent
          /\ t.sourceHash = sender.sourceHash
          /\ t.state \in {"PAUSED", "IDLE", "SENDING", "RECEIVING"}
      BY <1>1, <3>3, PausingIs
    <3> QED
      BY <1>1, <2>1, <2>3, <3>2, <3>4
  <2> QED
    BY <2>2, <2>3
<1>4. PICK w : w = WithS(x, t)
  OBVIOUS
<1>5. w.s = t /\ w.out = x.out /\ w.data = x.data /\ w.buffered = x.buffered /\ w \in SStep
  BY <1>1, <1>2, <1>4, LikeIs DEF Like
<1>6. SenderSide(w)
  BY <1>1, <1>3, <1>5, LoudSide
<1>7. PICK y : y = SenderSays(w, m)
  OBVIOUS
<1>8. SenderBecomes(y) /\ UNCHANGED <<loops, toSender>>
  BY <1>1, <1>3, <1>4, <1>7 DEF SenderPauses, SenderResumes, WithS, OfSender
<1>9. SenderSide(y)
  <2>1. w \in Sides /\ m.type # "OFFER" /\ m.id <= sender.id
    BY <1>1, <1>3, <1>5 DEF Sides
  <2> QED
    BY <1>1, <1>6, <1>7, <2>1, SenderSaysIs
<1>10. Counted /\ ~ Quiet'
  <2>1. CASE SenderPauses
    BY <1>1, <2>1, CountedIs DEF SenderPauses
  <2>2. CASE SenderResumes
    <3>1. Counted /\ (Quiet' => Quiet)
      BY <1>1, <2>2, CountedIs DEF SenderResumes, Counted
    <3>2. ~ Quiet
      BY <2>2 DEF Inv, QuietInv, SenderResumes
    <3> QED
      BY <3>1, <3>2
  <2> QED
    BY <1>3, <2>1, <2>2
<1> QED
  BY <1>1, <1>8, <1>9, <1>10, SenderActs

LEMMA SenderCancelsKeeps ==
    ASSUME Inv, frames' = frames, SenderCancels
    PROVE  Inv'
<1>1. PICK x \in SStep, b \in BOOLEAN, L \in [Files -> Loop] :
              /\ x = OfSender /\ x.s = sender /\ x.out = <<>> /\ x.data = data
              /\ x.buffered = buffered
              /\ b <=> Begun
              /\ L = loops
              /\ Types /\ sender.id \in FileOrNone /\ sender.id \in Nat /\ sender \in Sender
              /\ SenderSide(x)
              /\ Quiet => QuietFinal(x, L, b) /\ connected
  BY Acting
<1>2. x \in Sides /\ x.out \in Seq(ToReceiver) /\ sender.id # None /\ sender.state \in States
  BY <1>1, SidesAre DEF Sides, SenderCancels, Sender
<1>3. PICK t \in Sender : t = Ceased(sender)
  <2>1. {} \in SUBSET Files /\ TRUE \in BOOLEAN
    OBVIOUS
  <2>2. Ceased(sender) \in Sender
    BY <1>1, <2>1 DEF Ceased, Sender
  <2> QED
    BY <2>2
<1>4. /\ SameFlow(sender, t) /\ t.offered = sender.offered /\ t.state = sender.state
      /\ t.cancelled
  BY <1>1, <1>3 DEF Ceased, Sender, SameFlow
<1>5. PICK w : w = WithS(x, t)
  OBVIOUS
<1>6. w.s = t /\ w.out = x.out /\ w.data = x.data /\ w.buffered = x.buffered /\ w \in SStep
  BY <1>1, <1>2, <1>5, LikeIs DEF Like
<1>7. SenderSide(w)
  <2>1. t.state = "COMPLETED" /\ sender.id # None => Whole(files, sender.id)
    BY <1>1, <1>4 DEF SenderSide
  <2> QED
    BY <1>1, <1>4, <1>6, <2>1, SameFlowSide
<1>8. PICK m \in ToReceiver : m = [type |-> "CANCEL", id |-> sender.id]
  BY <1>1, <1>2, SenderSignalIs
<1>9. PICK z : z = SenderSays(w, m)
  OBVIOUS
<1>10. SenderSide(z) /\ z \in SStep /\ SameFlow(t, z.s) /\ z.s \in Sender /\ z \in Sides
       /\ z.out \in Seq(ToReceiver)
  <2>1. w \in Sides /\ m.type # "OFFER" /\ m.id <= sender.id
    BY <1>1, <1>6, <1>8 DEF Sides
  <2>2. Like(w, z) /\ SenderSide(z) /\ SameFlow(w.s, z.s)
    BY <1>1, <1>7, <1>9, <2>1, SenderSaysIs
  <2>3. z \in SStep
    BY <1>6, <2>2 DEF Like
  <2> QED
    BY <1>6, <2>2, <2>3, SidesAre DEF Sides
<1>11. PICK u \in Sender : /\ u = [z.s EXCEPT !.state = "CANCELLED"]
                           /\ SameFlow(z.s, u) /\ u.offered = z.s.offered
                           /\ u.state = "CANCELLED" /\ u.cancelled = z.s.cancelled
  <2>1. [z.s EXCEPT !.state = "CANCELLED"] \in Sender
    BY <1>10 DEF Sender, States
  <2> QED
    BY <1>10, <2>1 DEF Sender, SameFlow
<1>12. PICK y : y = WithS(z, u)
  OBVIOUS
<1>13. y.s = u /\ y.out = z.out /\ y.data = z.data /\ y.buffered = z.buffered /\ y \in SStep
  BY <1>10, <1>12, LikeIs DEF Like
<1>14. SenderSide(y)
  <2>1. u.cancelled
    BY <1>4, <1>10, <1>11 DEF SameFlow
  <2> QED
    BY <1>10, <1>11, <1>13, <2>1, SameFlowSide
<1>15. SenderBecomes(y) /\ UNCHANGED <<loops, toSender>>
  <2>1. y = [SenderSays(w, m) EXCEPT !.s.state = "CANCELLED"]
    <3>1. y = [z EXCEPT !.s.state = "CANCELLED"]
      BY <1>10, <1>11, <1>12 DEF WithS, SStep
    <3> QED
      BY <1>9, <3>1
  <2>2. w = [OfSender EXCEPT !.s = Ceased(@)]
    BY <1>1, <1>3, <1>5 DEF WithS
  <2> QED
    BY <1>8, <2>1, <2>2 DEF SenderCancels
<1>16. Counted /\ ~ Quiet'
  BY <1>1, CountedIs DEF SenderCancels
<1> QED
  BY <1>1, <1>14, <1>15, <1>16, SenderActs
\* What a sender has heard, but for the message that starts it.
HearableBySender(m) == m \in ToSender /\ ~ IsAccept(m)

LEMMA SenderHearsIs ==
    ASSUME NEW x, NEW m, HearableBySender(m), m.id = x.s.id, x.s.id = sender.id
    PROVE  /\ m.type \in {"FLOW", "PAUSE", "RESUME", "VERIFY_OK", "CANCEL", "FAIL"}
           /\ m.type = "FLOW" => SenderHears(x, m) = FlowControl(x, m)
           /\ m.type = "PAUSE" =>
                 SenderHears(x, m) = IF x.s.paused \/ ~CanPause(x.s) THEN x
                                     ELSE [x EXCEPT !.s = Paused(@)]
           /\ m.type = "RESUME" =>
                 SenderHears(x, m) = IF x.s.paused THEN [x EXCEPT !.s = SenderResumed(@)] ELSE x
           /\ m.type = "VERIFY_OK" => SenderHears(x, m) = [x EXCEPT !.s.state = "COMPLETED"]
           /\ m.type = "CANCEL" =>
                 SenderHears(x, m) = [x EXCEPT !.s = [Ceased(@) EXCEPT !.state = "CANCELLED"]]
           /\ m.type = "FAIL" => SenderHears(x, m) = SenderFails(x)
<1>1. m.type \in {"FLOW", "PAUSE", "RESUME", "VERIFY_OK", "CANCEL", "FAIL", "ACCEPT"}
  BY DEF HearableBySender, ToSender, Signals
<1>2. m.type # "ACCEPT"
  BY DEF HearableBySender, IsAccept
<1> QED
  BY <1>1, <1>2 DEF SenderHears

Flowing(s, m) ==
    [s EXCEPT !.written = m.written, !.window = m.window, !.flowWaiters = {}]
Done(s) == [s EXCEPT !.state = "COMPLETED"]

LEMMA FlowingIs ==
    ASSUME NEW s \in Sender, NEW m \in ToSender
    PROVE  /\ m.type = "FLOW" =>
                 /\ Flowing(s, m) \in Sender /\ SameFlow(s, Flowing(s, m))
                 /\ Flowing(s, m).offered = s.offered /\ Flowing(s, m).state = s.state
                 /\ Flowing(s, m).cancelled = s.cancelled
           /\ Done(s) \in Sender /\ SameFlow(s, Done(s)) /\ Done(s).offered = s.offered
           /\ Done(s).state = "COMPLETED"
<1>1. ASSUME m.type = "FLOW"
      PROVE  /\ Flowing(s, m) \in Sender /\ SameFlow(s, Flowing(s, m))
             /\ Flowing(s, m).offered = s.offered /\ Flowing(s, m).state = s.state
             /\ Flowing(s, m).cancelled = s.cancelled
  <2>1. m.written \in Nat /\ m.window \in Nat /\ {} \in SUBSET Files
    BY <1>1 DEF ToSender, Signals
  <2> QED
    BY <2>1 DEF Flowing, Sender, SameFlow
<1>2. /\ Done(s) \in Sender /\ SameFlow(s, Done(s)) /\ Done(s).offered = s.offered
      /\ Done(s).state = "COMPLETED"
  BY DEF Done, Sender, SameFlow, States
<1> QED
  BY <1>1, <1>2

LEMMA FlowControlIs ==
    ASSUME NEW x \in SStep, NEW m \in ToSender, m.type = "FLOW"
    PROVE  FlowControl(x, m) = SenderFails(x) \/ FlowControl(x, m) = WithS(x, Flowing(x.s, m))
<1>1. CASE m.written < x.s.written \/ m.written > frames
  BY <1>1 DEF FlowControl
<1>2. CASE ~ (m.written < x.s.written \/ m.written > frames)
  <2>1. FlowControl(x, m) = [x EXCEPT !.s.written = m.written, !.s.window = m.window,
                                      !.s.flowWaiters = {}]
    BY <1>2 DEF FlowControl
  <2> QED
    BY <2>1 DEF WithS, Flowing, SStep, Sender
<1> QED
  BY <1>1, <1>2

LEMMA SenderHearsSide ==
    ASSUME Inv, NEW x \in SStep, x.s = sender, x.out = <<>>, x.data = data,
           x.buffered = buffered, SenderSide(x), NEW L, NEW b, Quiet => QuietFinal(x, L, b),
           sender.id \in FileOrNone, NEW m, HearableBySender(m),
           m.type = "VERIFY_OK" /\ m.id = sender.id => Whole(files, sender.id),
           Quiet => m.type \notin {"PAUSE", "RESUME", "CANCEL"}
    PROVE  /\ SenderSide(SenderHears(x, m))
           /\ Quiet => QuietFinal(SenderHears(x, m), L, b)
<1> DEFINE y == SenderHears(x, m)
<1>1. x \in Sides /\ x.s \in Sender /\ x.out \in Seq(ToReceiver) /\ m \in ToSender
  BY SidesAre DEF Sides, HearableBySender
<1>2. /\ SenderSide(SenderFails(x))
      /\ Quiet => QuietFinal(SenderFails(x), L, b)
  BY <1>1, SenderFailsSide, FlowQuiet DEF Like
<1>3. ASSUME NEW t \in Sender, SameFlow(x.s, t), t.offered = x.s.offered,
             t.state \in {"FAILED", "CANCELLED"} => t.cancelled,
             t.state = "READY" => x.s.state = "READY",
             t.state = "COMPLETED" /\ sender.id # None => Whole(files, sender.id)
      PROVE  SenderSide(WithS(x, t)) /\ (Quiet => QuietFinal(WithS(x, t), L, b))
  <2>1. PICK w : w = WithS(x, t)
    OBVIOUS
  <2>2. w.s = t /\ w.out = x.out /\ w.data = x.data /\ w.buffered = x.buffered
    BY <1>1, <2>1, LikeIs DEF Like
  <2>3. SenderSide(w)
    BY <1>3, <2>2, SameFlowSide
  <2>4. SaysMore(x.out, w.out)
    BY <2>2 DEF SaysMore
  <2>5. Quiet => QuietFinal(w, L, b)
    BY <1>3, <2>2, <2>4, FlowQuiet
  <2> QED
    BY <2>1, <2>3, <2>5
<1>4. CASE m.id # x.s.id
  <2>1. y = SenderFails(x)
    BY <1>4 DEF SenderHears
  <2> QED
    BY <1>2, <2>1
<1>5. CASE m.id = x.s.id
  <2>1. /\ m.type \in {"FLOW", "PAUSE", "RESUME", "VERIFY_OK", "CANCEL", "FAIL"}
        /\ m.type = "FLOW" => SenderHears(x, m) = FlowControl(x, m)
        /\ m.type = "PAUSE" =>
              SenderHears(x, m) = IF x.s.paused \/ ~CanPause(x.s) THEN x
                                  ELSE [x EXCEPT !.s = Paused(@)]
        /\ m.type = "RESUME" =>
              SenderHears(x, m) = IF x.s.paused THEN [x EXCEPT !.s = SenderResumed(@)] ELSE x
        /\ m.type = "VERIFY_OK" => SenderHears(x, m) = [x EXCEPT !.s.state = "COMPLETED"]
        /\ m.type = "CANCEL" =>
              SenderHears(x, m) = [x EXCEPT !.s = [Ceased(@) EXCEPT !.state = "CANCELLED"]]
        /\ m.type = "FAIL" => SenderHears(x, m) = SenderFails(x)
    BY <1>5, SenderHearsIs
  <2>2. CASE m.type = "FLOW"
    <3>1. CASE FlowControl(x, m) = SenderFails(x)
      BY <1>2, <2>1, <2>2, <3>1
    <3>2. CASE FlowControl(x, m) = WithS(x, Flowing(x.s, m))
      <4>1. PICK t \in Sender : t = Flowing(x.s, m)
        BY <1>1, <2>2, FlowingIs
      <4>2. /\ SameFlow(x.s, t) /\ t.offered = x.s.offered /\ t.state = x.s.state
            /\ t.cancelled = x.s.cancelled
        BY <1>1, <2>2, <4>1, FlowingIs
      <4>3. /\ t.state \in {"FAILED", "CANCELLED"} => t.cancelled
            /\ t.state = "COMPLETED" /\ sender.id # None => Whole(files, sender.id)
        BY <4>2 DEF SenderSide, SenderOK
      <4>4. SenderSide(WithS(x, t)) /\ (Quiet => QuietFinal(WithS(x, t), L, b))
        BY <1>3, <4>2, <4>3
      <4> QED
        BY <2>1, <2>2, <3>2, <4>1, <4>4
    <3> QED
      BY <1>1, <2>2, <3>1, <3>2, FlowControlIs
  <2>3. CASE m.type \in {"PAUSE", "RESUME"}
    <3>1. CASE y = x
      BY <2>3, <3>1
    <3>2. CASE y # x
      <4>1. PICK t \in Sender :
               /\ y = WithS(x, t)
               /\ t.id = x.s.id /\ t.reads = x.s.reads /\ t.offered = x.s.offered
               /\ t.cancelled = x.s.cancelled /\ t.sent = x.s.sent
               /\ t.sourceHash = x.s.sourceHash
               /\ t.state \in {"PAUSED", "IDLE", "SENDING", "RECEIVING"}
        <5>1. CASE m.type = "PAUSE"
          <6>1. CanPause(x.s) /\ y = [x EXCEPT !.s = Paused(@)]
            BY <2>1, <3>2, <5>1
          <6>2. PICK t \in Sender : t = Pausing(x.s) /\ t = Paused(x.s)
            BY <1>1, <6>1, PausingIs
          <6>3. t \in {Pausing(x.s), Resuming(x.s)} /\ y = WithS(x, t)
            BY <6>1, <6>2 DEF WithS
          <6>4. /\ t.id = x.s.id /\ t.reads = x.s.reads /\ t.offered = x.s.offered
                /\ t.cancelled = x.s.cancelled /\ t.sent = x.s.sent
                /\ t.sourceHash = x.s.sourceHash
                /\ t.state \in {"PAUSED", "IDLE", "SENDING", "RECEIVING"}
            BY <1>1, <6>3, PausingIs
          <6> QED
            BY <6>3, <6>4
        <5>2. CASE m.type = "RESUME"
          <6>1. y = [x EXCEPT !.s = SenderResumed(@)]
            BY <2>1, <3>2, <5>2
          <6>2. PICK t \in Sender : t = Resuming(x.s) /\ t = SenderResumed(x.s)
            BY <1>1, PausingIs
          <6>3. t \in {Pausing(x.s), Resuming(x.s)} /\ y = WithS(x, t)
            BY <6>1, <6>2 DEF WithS
          <6>4. /\ t.id = x.s.id /\ t.reads = x.s.reads /\ t.offered = x.s.offered
                /\ t.cancelled = x.s.cancelled /\ t.sent = x.s.sent
                /\ t.sourceHash = x.s.sourceHash
                /\ t.state \in {"PAUSED", "IDLE", "SENDING", "RECEIVING"}
            BY <1>1, <6>3, PausingIs
          <6> QED
            BY <6>3, <6>4
        <5> QED
          BY <2>3, <5>1, <5>2
      <4>2. PICK w : w = WithS(x, t)
        OBVIOUS
      <4>3. w.s = t /\ w.out = x.out /\ w.data = x.data /\ w.buffered = x.buffered
        BY <1>1, <4>2, LikeIs DEF Like
      <4>4. SenderSide(w)
        BY <4>1, <4>3, LoudSide
      <4> QED
        BY <2>3, <4>1, <4>2, <4>4
    <3> QED
      BY <3>1, <3>2
  <2>4. CASE m.type = "VERIFY_OK"
    <3>1. PICK t \in Sender : t = Done(x.s)
      BY <1>1, FlowingIs
    <3>2. SameFlow(x.s, t) /\ t.offered = x.s.offered /\ t.state = "COMPLETED"
      BY <1>1, <3>1, FlowingIs
    <3>3. Whole(files, sender.id)
      BY <1>5, <2>4
    <3>4. SenderSide(WithS(x, t)) /\ (Quiet => QuietFinal(WithS(x, t), L, b))
      BY <1>3, <3>2, <3>3
    <3>5. y = WithS(x, t)
      BY <2>1, <2>4, <3>1 DEF WithS, Done, SStep
    <3> QED
      BY <3>4, <3>5
  <2>5. CASE m.type = "CANCEL"
    <3>1. PICK t \in Sender : /\ t = Ceases(x.s, "CANCELLED")
                              /\ t = [Ceased(x.s) EXCEPT !.state = "CANCELLED"]
      BY <1>1, CeasesIs DEF States
    <3>2. /\ SameFlow(x.s, t) /\ t.offered = x.s.offered /\ t.state = "CANCELLED"
          /\ t.cancelled
      BY <1>1, <3>1, CeasesIs DEF States
    <3>3. SenderSide(WithS(x, t)) /\ (Quiet => QuietFinal(WithS(x, t), L, b))
      BY <1>3, <3>2
    <3>4. y = WithS(x, t)
      BY <2>1, <2>5, <3>1 DEF WithS
    <3> QED
      BY <3>3, <3>4
  <2>6. CASE m.type = "FAIL"
    BY <1>2, <2>1, <2>6
  <2> QED
    BY <2>1, <2>2, <2>3, <2>4, <2>5, <2>6
<1> QED
  BY <1>4, <1>5

LEMMA SenderHearsKeeps ==
    ASSUME Inv, frames' = frames, SenderHandlesControl, ~ IsAccept(Head(toSender))
    PROVE  Inv'
<1>1. PICK x \in SStep, b \in BOOLEAN, L \in [Files -> Loop] :
              /\ x = OfSender /\ x.s = sender /\ x.out = <<>> /\ x.data = data
              /\ x.buffered = buffered
              /\ b <=> Begun
              /\ L = loops
              /\ Types /\ sender.id \in FileOrNone /\ sender.id \in Nat /\ sender \in Sender
              /\ SenderSide(x)
              /\ Quiet => QuietFinal(x, L, b) /\ connected
  BY Acting
<1>2. toSender \in Seq(ToSender) /\ toSender # <<>> /\ toSender' = Tail(toSender)
  BY <1>1 DEF SenderHandlesControl, Types
<1>3. PICK m \in ToSender : m = Head(toSender) /\ m = toSender[1]
  BY <1>2, OneFewer
<1>4. /\ 1 \in DOMAIN toSender
      /\ \A n \in DOMAIN Tail(toSender) : /\ n + 1 \in DOMAIN toSender /\ n \in Nat
                                          /\ Tail(toSender)[n] = toSender[n + 1]
  BY <1>2, OneFewer
<1>5. HearableBySender(m)
  BY <1>3 DEF HearableBySender
<1>6. m.type = "VERIFY_OK" /\ m.id = sender.id => Whole(files, sender.id)
  BY <1>3, <1>4 DEF Inv, DoneInv
<1>7. Quiet => m.type \notin {"PAUSE", "RESUME", "CANCEL"}
  BY <1>3, <1>4 DEF Inv, QuietInv
<1>8. PICK y : y = SenderHears(x, m)
  OBVIOUS
<1>9. SenderSide(y) /\ (Quiet => QuietFinal(y, L, b))
  BY <1>1, <1>5, <1>6, <1>7, <1>8, SenderHearsSide
<1>10. SenderBecomes(y) /\ UNCHANGED <<loops, pauses, troubles>>
  BY <1>1, <1>3, <1>8 DEF SenderHandlesControl, IsAccept
<1>11. Counted
  BY <1>1, <1>10, CountedIs
<1>12. L \in [Files -> Loop] /\ \A f \in Files : LoopOK(f, L[f])
  BY <1>1 DEF Inv, Types, LoopInv, LoopOK
<1>13. SenderMoves(y, L)
  BY <1>1, <1>2, <1>10, <1>11 DEF SenderMoves, SenderBecomes, receiving, Counted, Fewer
<1>14. b <=> Begun'
  <2>1. sender'.id = sender.id /\ receiver' = receiver
    BY <1>9, <1>10 DEF SenderSide, SenderBecomes, receiving
  <2>2. (\E n \in DOMAIN toSender' : IsAccept(toSender[n])') <=>
          (\E n \in DOMAIN toSender : IsAccept(toSender[n]))
    <3>1. ASSUME NEW n \in DOMAIN toSender', IsAccept(toSender[n])'
          PROVE  n + 1 \in DOMAIN toSender /\ IsAccept(toSender[n + 1])
      BY <1>2, <1>4, <2>1, <3>1 DEF IsAccept
    <3>2. ASSUME NEW n \in DOMAIN toSender, IsAccept(toSender[n])
          PROVE  n - 1 \in DOMAIN toSender' /\ IsAccept(toSender[n - 1])'
      <4>1. n # 1 /\ DOMAIN toSender = 1 .. Len(toSender) /\ Len(toSender) \in Nat
            /\ DOMAIN Tail(toSender) = 1 .. Len(toSender) - 1
        BY <1>2, <1>3, <3>2, OneFewer
      <4>2. n - 1 \in DOMAIN Tail(toSender) /\ (n - 1) + 1 = n
        BY <4>1
      <4>3. Tail(toSender)[n - 1] = toSender[n]
        BY <1>4, <4>2
      <4> QED
        BY <1>2, <2>1, <3>2, <4>2, <4>3 DEF IsAccept
    <3> QED
      BY <3>1, <3>2
  <2> QED
    BY <1>1, <2>1, <2>2 DEF Begun
<1>15. Quiet' => QuietFinal(y, L, b)
  BY <1>9, <1>11 DEF Counted
<1> QED
  BY <1>9, <1>12, <1>13, <1>14, <1>15, SenderStep
-----------------------------------------------------------------------------
(* A step of the loop f: x before it is over, y when it is.                  *)

IsLoops(L, f, l) ==
    L \in [Files -> Loop] /\ L[f] = l /\ \A g \in Files \ {f} : L[g] = loops[g]

Outcome(y, f, b, q) ==
    /\ y \in LStep /\ SenderSide(y) /\ LoopOK(f, y.loop)
    /\ q => \A L : IsLoops(L, f, y.loop) => QuietFinal(y, L, b)

\* What of a quiet behaviour does not depend on the loop f.
HoldsIn(x, f, b) ==
    /\ ~ x.s.paused
    /\ \A g \in Files \ {f} : loops[g].pc \notin {"head", "paused"}
    /\ SaysQuietly(x.out) /\ FinishesIn(x.s, x.out) /\ FifoIn(x.s, x.data, b)
    /\ b => x.s.id # None
    /\ b /\ f # x.s.id => SentIn(x.s, loops)
    /\ ~ b /\ x.s.id # None => f # x.s.id /\ Unread(x.s, loops, x.out)

OwnIsDoomed(x, f, b) ==
    b /\ f # x.s.id /\ loops[x.s.id].pc # "over" => DoomedIn(x.s, loops[x.s.id])

CleanHead(s) ==
    /\ \A i \in 1 .. Len(s.sourceHash) : s.sourceHash[i] = <<s.id, i - 1>>
    /\ s.next = Len(s.sourceHash) /\ Others(s.id, loops) /\ (s.reads = s.id \/ s.cancelled)

\* At the head of the loop ...
HeadIn(x, f, b) ==
    /\ HoldsIn(x, f, b) /\ OwnIsDoomed(x, f, b)
    /\ b /\ f = x.s.id => /\ x.s.next = 0 \/ HasFirst(x.s)
                          /\ CleanHead(x.s) \/ ~ Ascending(x.s.sourceHash)

CleanFrame(x) ==
    LET n == Len(x.s.sourceHash)
    IN  /\ \A i \in 1 .. n : x.s.sourceHash[i] = <<x.s.id, i - 1>>
        /\ x.loop.frame = <<x.s.id, n>>
        /\ x.s.next = n + 1 /\ Others(x.s.id, loops) /\ (x.s.reads = x.s.id \/ x.s.cancelled)

\* ... and when it has a frame to send.
FrameIn(x, f, b) ==
    /\ HoldsIn(x, f, b)
    /\ loops[f].pc # "over" /\ x.loop.ahead = loops[f].ahead
    /\ b /\ f = x.s.id => /\ x.loop.ahead = f
                          /\ x.loop.frame[2] = 0 \/ HasFirst(x.s)
                          /\ CleanFrame(x) \/ DoomedIn(x.s, x.loop)

LEMMA HoldsFlow ==
    ASSUME NEW x, NEW y, NEW f, NEW b, HoldsIn(x, f, b), SameFlow(x.s, y.s),
           y.data = x.data, SaysMore(x.out, y.out)
    PROVE  HoldsIn(y, f, b) /\ (OwnIsDoomed(x, f, b) => OwnIsDoomed(y, f, b))
<1>1. \A bytes, sha256 : FinishIn(x.s, bytes, sha256) => FinishIn(y.s, bytes, sha256)
  BY DEF FinishIn, SameFlow
<1>2. FinishesIn(y.s, y.out)
  BY <1>1 DEF HoldsIn, FinishesIn, SaysMore, SameFlow
<1>3. FifoIn(y.s, y.data, b)
  BY DEF HoldsIn, FifoIn, UnspoiltBy, SameFlow
<1>4. b /\ f # y.s.id => SentIn(y.s, loops)
  <2>1. CleanIn(x.s, loops) => CleanIn(y.s, loops)
    BY DEF CleanIn, SameFlow
  <2>2. DoomedIn(x.s, loops[x.s.id]) => DoomedIn(y.s, loops[y.s.id])
    BY DEF DoomedIn, Ascending, SameFlow
  <2>3. HasFirst(x.s) => HasFirst(y.s)
    BY DEF HasFirst, SameFlow
  <2> QED
    BY <2>1, <2>2, <2>3 DEF HoldsIn, SentIn, SameFlow
<1>5. ~ b /\ y.s.id # None => f # y.s.id /\ Unread(y.s, loops, y.out)
  BY DEF HoldsIn, Unread, SaysMore, SameFlow
<1>6. SaysQuietly(y.out)
  BY DEF HoldsIn, SaysQuietly, SaysMore
<1>7. OwnIsDoomed(x, f, b) => OwnIsDoomed(y, f, b)
  BY DEF OwnIsDoomed, DoomedIn, Ascending, SameFlow
<1> QED
  BY <1>2, <1>3, <1>4, <1>5, <1>6, <1>7 DEF HoldsIn, SameFlow

WithLoop(x, s, l) == [x EXCEPT !.s = s, !.loop = l]

LEMMA WithLoopIs ==
    ASSUME NEW x \in LStep, NEW s \in Sender, NEW l \in Loop
    PROVE  /\ WithLoop(x, s, l) \in LStep /\ WithLoop(x, s, l).s = s
           /\ WithLoop(x, s, l).loop = l /\ WithLoop(x, s, l).out = x.out
           /\ WithLoop(x, s, l).data = x.data /\ WithLoop(x, s, l).buffered = x.buffered
  BY DEF WithLoop, LStep

\* What changes the sender only.
LEMMA ChangedSide ==
    ASSUME NEW x, SenderSide(x), NEW t \in Sender, t.id = x.s.id, t.reads \in {None, sender.id},
           t.offered = x.s.offered, SenderOK(t),
           t.state = "COMPLETED" => x.s.state = "COMPLETED",
           NEW y, y.s = t, y.out = x.out, y.data = x.data, y.buffered = x.buffered
    PROVE  SenderSide(y)
<1>1. Unoffered(y)
  BY DEF SenderSide, Unoffered
<1> QED
  BY <1>1 DEF SenderSide

LEMMA LStepIs ==
    ASSUME NEW x \in LStep
    PROVE  /\ x.s \in Sender /\ x.out \in Seq(ToReceiver) /\ x.data \in Seq(DataFrame)
           /\ x.buffered \in Nat /\ x.loop \in Loop
           /\ x.s.id \in FileOrNone /\ x.s.reads \in FileOrNone /\ x.s.next \in Nat
           /\ x.s.sent \in Nat /\ x.s.sourceHash \in Seq(Payloads) /\ x.s.cancelled \in BOOLEAN
           /\ x.s.paused \in BOOLEAN
           /\ x.loop.of \in Files /\ x.loop.ahead \in FileOrNone
<1>1. /\ x.s \in Sender /\ x.out \in Seq(ToReceiver) /\ x.data \in Seq(DataFrame)
      /\ x.buffered \in Nat /\ x.loop \in Loop
  BY DEF LStep
<1> QED
  BY <1>1 DEF Sender, Loop

Stopped(s) == [s EXCEPT !.reads = None]

LEMMA EndsIs ==
    ASSUME NEW x \in LStep
    PROVE  \E t \in Sender, l \in Loop :
              /\ t = Stopped(x.s) /\ l = NoLoop(x.loop.of) /\ Ends(x) = WithLoop(x, t, l)
              /\ t.id = x.s.id /\ t.reads = None /\ t.next = x.s.next /\ t.sent = x.s.sent
              /\ t.sourceHash = x.s.sourceHash /\ t.paused = x.s.paused
              /\ t.cancelled = x.s.cancelled /\ t.offered = x.s.offered /\ t.state = x.s.state
              /\ l.of = x.loop.of /\ l.pc = "over"
<1>1. x.s \in Sender /\ x.loop.of \in Files /\ None \in FileOrNone
  BY LStepIs, FileFacts
<1>2. PICK t \in Sender : t = Stopped(x.s)
  <2>1. Stopped(x.s) \in Sender
    BY <1>1 DEF Stopped, Sender
  <2> QED
    BY <2>1
<1>3. /\ t.id = x.s.id /\ t.reads = None /\ t.next = x.s.next /\ t.sent = x.s.sent
      /\ t.sourceHash = x.s.sourceHash /\ t.paused = x.s.paused
      /\ t.cancelled = x.s.cancelled /\ t.offered = x.s.offered /\ t.state = x.s.state
  BY <1>1, <1>2 DEF Stopped, Sender
<1>4. PICK l \in Loop : l = NoLoop(x.loop.of)
  <2>1. NoLoop(x.loop.of) \in Loop
    BY <1>1 DEF NoLoop, Loop
  <2> QED
    BY <2>1
<1>5. l.of = x.loop.of /\ l.pc = "over"
  BY <1>4 DEF NoLoop
<1>6. Ends(x) = WithLoop(x, t, l)
  BY <1>2, <1>4 DEF Ends, WithLoop, Stopped, LStep
<1> QED
  BY <1>2, <1>3, <1>4, <1>5, <1>6

LEMMA EndsOutcome ==
    ASSUME NEW x \in LStep, NEW f \in Files, x.loop.of = f, SenderSide(x), NEW b, NEW q,
           q => HoldsIn(x, f, b) /\ (x.s.cancelled \/ OwnIsDoomed(x, f, b))
    PROVE  Outcome(Ends(x), f, b, q)
<1>1. PICK t \in Sender, l \in Loop :
              /\ t = Stopped(x.s) /\ l = NoLoop(x.loop.of) /\ Ends(x) = WithLoop(x, t, l)
              /\ t.id = x.s.id /\ t.reads = None /\ t.next = x.s.next /\ t.sent = x.s.sent
              /\ t.sourceHash = x.s.sourceHash /\ t.paused = x.s.paused
              /\ t.cancelled = x.s.cancelled /\ t.offered = x.s.offered /\ t.state = x.s.state
              /\ l.of = x.loop.of /\ l.pc = "over"
  BY EndsIs
<1>2. PICK y : y = WithLoop(x, t, l)
  OBVIOUS
<1>3. /\ y \in LStep /\ y.s = t /\ y.loop = l /\ y.out = x.out /\ y.data = x.data
      /\ y.buffered = x.buffered
  BY <1>2, WithLoopIs
<1>4. SenderOK(t)
  BY <1>1 DEF SenderSide, SenderOK
<1>5. SenderSide(y)
  BY <1>1, <1>3, <1>4, ChangedSide
<1>6. LoopOK(f, y.loop)
  BY <1>1, <1>3 DEF LoopOK
<1>7. ASSUME q, NEW L, IsLoops(L, f, y.loop)
      PROVE  QuietFinal(y, L, b)
  <2>1. HoldsIn(x, f, b) /\ (x.s.cancelled \/ OwnIsDoomed(x, f, b))
    BY <1>7
  <2>2. L[f].pc = "over" /\ \A g \in Files \ {f} : L[g] = loops[g]
    BY <1>1, <1>3, <1>7 DEF IsLoops
  <2>3. \A g \in Files : L[g].pc \notin {"head", "paused"}
    BY <2>1, <2>2 DEF HoldsIn
  <2>4. SaysQuietly(y.out) /\ ~ y.s.paused
    BY <1>1, <1>3, <2>1 DEF HoldsIn
  <2>5. FinishesIn(y.s, y.out)
    <3>1. \A bytes, sha256 : FinishIn(x.s, bytes, sha256) => FinishIn(y.s, bytes, sha256)
      BY <1>1, <1>3 DEF FinishIn
    <3> QED
      BY <1>1, <1>3, <2>1, <3>1 DEF HoldsIn, FinishesIn
  <2>6. FifoIn(y.s, y.data, b)
    BY <1>1, <1>3, <2>1 DEF HoldsIn, FifoIn, UnspoiltBy
  <2>7. b => SentIn(y.s, L)
    <3>1. SUFFICES ASSUME b, L[y.s.id].pc # "over"
                   PROVE  SentIn(y.s, L)
      BY DEF SentIn
    <3>2. f # x.s.id /\ x.s.id \in Files /\ y.s.id = x.s.id
      BY <1>1, <1>3, <2>1, <2>2, <3>1, LStepIs, FileFacts DEF HoldsIn
    <3>3. L[x.s.id] = loops[x.s.id] /\ loops[x.s.id].pc # "over"
      BY <2>2, <3>1, <3>2
    <3>4. /\ loops[x.s.id].ahead = x.s.id
          /\ loops[x.s.id].frame[2] = 0 \/ HasFirst(x.s)
          /\ CleanIn(x.s, loops) \/ DoomedIn(x.s, loops[x.s.id])
      BY <2>1, <3>1, <3>2, <3>3 DEF HoldsIn, SentIn
    <3>5. HasFirst(x.s) => HasFirst(y.s)
      BY <1>1, <1>3 DEF HasFirst
    <3>6. DoomedIn(x.s, loops[x.s.id]) => DoomedIn(y.s, L[y.s.id])
      BY <1>1, <1>3, <3>2, <3>3 DEF DoomedIn, Ascending
    <3>7. CleanIn(x.s, loops) /\ x.s.cancelled => CleanIn(y.s, L)
      <4>1. Others(x.s.id, loops) => Others(x.s.id, L)
        BY <2>2 DEF Others
      <4> QED
        BY <1>1, <1>3, <3>2, <3>3, <4>1, ZenonT(60) DEF CleanIn
    <3>8. ~ x.s.cancelled => DoomedIn(x.s, loops[x.s.id])
      BY <2>1, <3>1, <3>2, <3>3 DEF OwnIsDoomed
    <3> QED
      BY <3>2, <3>3, <3>4, <3>5, <3>6, <3>7, <3>8 DEF SentIn
  <2>8. ~ b /\ y.s.id # None => Unread(y.s, L, y.out)
    <3>1. SUFFICES ASSUME ~ b, y.s.id # None
                   PROVE  Unread(y.s, L, y.out)
      OBVIOUS
    <3>2. y.s.id = x.s.id /\ f # x.s.id /\ Unread(x.s, loops, x.out) /\ x.s.id \in Files
      BY <1>1, <1>3, <2>1, <3>1, LStepIs, FileFacts DEF HoldsIn
    <3> QED
      BY <1>1, <1>3, <2>2, <3>2 DEF Unread
  <2> QED
    BY <2>3, <2>4, <2>5, <2>6, <2>7, <2>8 DEF QuietFinal
<1> QED
  BY <1>1, <1>2, <1>3, <1>5, <1>6, <1>7 DEF Outcome

LEMMA ThrowsOutcome ==
    ASSUME NEW x \in LStep, NEW f \in Files, x.loop.of = f, SenderSide(x), NEW b, NEW q,
           sender.id \in FileOrNone,
           q => HoldsIn(x, f, b)
    PROVE  Outcome(Throws(x), f, b, q)
<1>1. CASE x.s.cancelled
  <2>1. Throws(x) = Ends(x)
    BY <1>1 DEF Throws
  <2> QED
    BY <1>1, <2>1, EndsOutcome
<1>2. CASE ~ x.s.cancelled
  <2>1. PICK y : y = SenderFails(x)
    OBVIOUS
  <2>2. Throws(x) = Ends(y)
    BY <1>2, <2>1 DEF Throws
  <2>3. /\ Like(x, y) /\ SenderSide(y) /\ y.s.cancelled /\ SameFlow(x.s, y.s)
        /\ SaysMore(x.out, y.out)
    BY <2>1, SenderFailsSide DEF Sides
  <2>4. y \in LStep /\ y.loop = x.loop /\ y.data = x.data
    BY <2>3 DEF Like
  <2>5. q => HoldsIn(y, f, b)
    BY <2>3, <2>4, HoldsFlow
  <2>6. Outcome(Ends(y), f, b, q)
    BY <2>3, <2>4, <2>5, EndsOutcome
  <2> QED
    BY <2>2, <2>6
<1> QED
  BY <1>1, <1>2 
Finalizing(s) == [s EXCEPT !.state = "FINALIZING"]
Waiting(s, f) == [s EXCEPT !.pauseWaiters = @ \cup {f}]

LEMMA FinalizingIs ==
    ASSUME NEW s \in Sender, NEW f \in Files
    PROVE  /\ Finalizing(s) \in Sender /\ SameFlow(s, Finalizing(s))
           /\ Finalizing(s).offered = s.offered /\ Finalizing(s).cancelled = s.cancelled
           /\ Finalizing(s).state = "FINALIZING"
           /\ Waiting(s, f) \in Sender /\ SameFlow(s, Waiting(s, f))
           /\ Waiting(s, f).offered = s.offered /\ Waiting(s, f).cancelled = s.cancelled
           /\ Waiting(s, f).state = s.state
<1>1. /\ Finalizing(s) \in Sender /\ SameFlow(s, Finalizing(s))
      /\ Finalizing(s).offered = s.offered /\ Finalizing(s).cancelled = s.cancelled
      /\ Finalizing(s).state = "FINALIZING"
  BY DEF Finalizing, Sender, SameFlow, States
<1>2. s.pauseWaiters \cup {f} \in SUBSET Files
  BY DEF Sender
<1>3. Waiting(s, f) \in Sender /\ SameFlow(s, Waiting(s, f))
  BY <1>2 DEF Waiting, Sender, SameFlow
<1>4. /\ Waiting(s, f).offered = s.offered /\ Waiting(s, f).cancelled = s.cancelled
      /\ Waiting(s, f).state = s.state
  BY DEF Waiting, Sender
<1> QED
  BY <1>1, <1>3, <1>4

LEMMA FinishesOutcome ==
    ASSUME NEW x \in LStep, NEW f \in Files, x.loop.of = f, f <= sender.id, SenderSide(x), NEW b,
           NEW q, sender.id \in FileOrNone, frames \in Nat, x.s.next >= frames, x.s.reads # None,
           q => HeadIn(x, f, b) /\ connected
    PROVE  Outcome(Finishes(x), f, b, q)
<1>1. /\ x \in Sides /\ x.s \in Sender /\ x.out \in Seq(ToReceiver) /\ x.s.id = sender.id
      /\ x.s.sent \in Nat /\ x.s.sourceHash \in Seq(Payloads) /\ x.s.next \in Nat
      /\ x.s.reads = sender.id
  BY LStepIs DEF Sides, SenderSide
<1>2. PICK t \in Sender : /\ t = Finalizing(x.s) /\ SameFlow(x.s, t)
                          /\ t.offered = x.s.offered /\ t.cancelled = x.s.cancelled
                          /\ t.state = "FINALIZING"
  BY <1>1, FinalizingIs
<1>3. PICK w : w = WithS(x, t)
  OBVIOUS
<1>4. w.s = t /\ w.out = x.out /\ w.data = x.data /\ w.buffered = x.buffered /\ w \in LStep
      /\ w.loop = x.loop
  BY <1>1, <1>3, LikeIs DEF Like
<1>5. SenderSide(w)
  BY <1>2, <1>4, SameFlowSide
<1>6. PICK m \in ToReceiver :
         m = [type |-> "FINISH", id |-> x.loop.of, bytes |-> x.s.sent, sha256 |-> x.s.sourceHash]
  <2>1. [type |-> "FINISH", id |-> x.loop.of, bytes |-> x.s.sent, sha256 |-> x.s.sourceHash]
           \in ToReceiver
    BY <1>1 DEF ToReceiver
  <2> QED
    BY <2>1
<1>7. m.type = "FINISH" /\ m.id = f /\ m.bytes = x.s.sent /\ m.sha256 = x.s.sourceHash
  BY <1>6
<1>8. PICK z : z = SenderSays(w, m)
  OBVIOUS
<1>9. Finishes(x) = Ends(z)
  BY <1>2, <1>3, <1>6, <1>8 DEF Finishes, WithS, Finalizing, LStep
<1>10. /\ SenderSide(z) /\ SameFlow(w.s, z.s) /\ z \in LStep /\ z.loop = x.loop /\ z.data = x.data
       /\ connected => z.s = w.s /\ z.out = Append(w.out, m)
  <2>1. w \in Sides
    BY <1>4 DEF Sides
  <2>2. Like(w, z) /\ SenderSide(z) /\ SameFlow(w.s, z.s)
        /\ (connected => z.s = w.s /\ z.out = Append(w.out, m))
    BY <1>5, <1>7, <1>8, <2>1, SenderSaysIs
  <2> QED
    BY <1>4, <2>2 DEF Like
<1>11. ASSUME q
       PROVE  HoldsIn(z, f, b) /\ OwnIsDoomed(z, f, b)
  <2>1. HeadIn(x, f, b) /\ connected /\ HoldsIn(x, f, b) /\ OwnIsDoomed(x, f, b)
    BY <1>11 DEF HeadIn
  <2>2. SaysMore(x.out, w.out)
    BY <1>4 DEF SaysMore
  <2>3. HoldsIn(w, f, b) /\ OwnIsDoomed(w, f, b)
    BY <1>2, <1>4, <2>1, <2>2, HoldsFlow
  <2>4. z.s = t /\ \A n \in DOMAIN z.out : z.out[n] = m \/ \E k \in DOMAIN x.out : z.out[n] = x.out[k]
    BY <1>1, <1>4, <1>10, <2>1, Appended, SMTT(40)
  <2>5. b /\ f = x.s.id => FinishIn(t, m.bytes, m.sha256)
    <3>1. SUFFICES ASSUME b, f = x.s.id
                   PROVE  FinishIn(t, m.bytes, m.sha256)
      OBVIOUS
    <3>2. /\ x.s.next = 0 \/ HasFirst(x.s)
          /\ CleanHead(x.s) \/ ~ Ascending(x.s.sourceHash)
      BY <2>1, <3>1 DEF HeadIn
    <3>3. /\ t.id = f /\ t.sent = x.s.sent /\ t.sourceHash = x.s.sourceHash
      BY <1>2, <3>1 DEF SameFlow
    <3>4. ASSUME CleanHead(x.s)
          PROVE  x.s.sourceHash = SourceOf(f)
      <4>1. PICK s \in Seq(Payloads), k \in Nat : s = x.s.sourceHash /\ k = Len(s)
        BY <1>1
      <4>2. /\ \A i \in 1 .. k : s[i] = <<f, i - 1>>
            /\ k >= frames
        BY <3>1, <3>4, <4>1 DEF CleanHead
      <4>3. k <= frames
        <5>1. SUFFICES ASSUME k > frames
                       PROVE  FALSE
          BY <4>1
        <5>2. k \in 1 .. k /\ s[k] \in Payloads
          BY <4>1, <5>1
        <5>3. s[k] = <<f, k - 1>> /\ s[k][2] < frames
          BY <4>2, <5>2, PayloadFacts
        <5>4. k - 1 < frames
          BY <5>3
        <5> QED
          BY <5>1, <5>4
      <4>4. k = frames
        BY <4>1, <4>2, <4>3
      <4>5. Len(s) = frames /\ \A i \in 1 .. frames : s[i] = <<f, i - 1>>
        BY <4>1, <4>2, <4>4
      <4> QED
        BY <4>1, <4>5, SourceIs
    <3>5. frames > 0 => HasFirst(x.s)
      BY <1>1, <3>2
    <3>6. PICK a \in Nat, k \in Nat : a = t.sent /\ k = Len(t.sourceHash)
      BY <1>1, <3>3
    <3>7. /\ m.bytes - Len(m.sha256) = t.sent - Len(t.sourceHash)
          /\ Len(m.sha256) <= Len(t.sourceHash)
      BY <1>7, <3>3, <3>6
    <3>8. m.sha256 = SourceOf(t.id) \/ ~ Ascending(m.sha256)
      BY <1>7, <3>2, <3>3, <3>4
    <3>9. frames > 0 => \E n \in DOMAIN m.sha256 : m.sha256[n] = <<t.id, 0>>
      BY <1>7, <3>1, <3>3, <3>5 DEF HasFirst
    <3> QED
      BY <1>7, <3>3, <3>7, <3>8, <3>9 DEF FinishIn
  <2>6. FinishesIn(z.s, z.out)
    <3>1. FinishesIn(t, x.out) /\ t.id = x.s.id
      BY <1>2, <1>4, <2>3 DEF HoldsIn, SameFlow
    <3>2. x.s.id # None => b
      BY <1>1, <2>1, FileFacts DEF HoldsIn, Unread
    <3>3. m.id = t.id => FinishIn(t, m.bytes, m.sha256)
      BY <1>7, <2>5, <3>1, <3>2, FileFacts
    <3> QED
      BY <2>4, <3>1, <3>3 DEF FinishesIn
  <2>7. SaysQuietly(z.out)
    BY <1>4, <1>7, <2>3, <2>4 DEF HoldsIn, SaysQuietly
  <2>8. ~ b /\ z.s.id # None => f # z.s.id /\ Unread(z.s, loops, z.out)
    BY <1>4, <1>7, <2>3, <2>4 DEF HoldsIn, Unread
  <2>9. FifoIn(z.s, z.data, b)
    BY <1>4, <1>10, <2>3, <2>4 DEF HoldsIn
  <2> QED
    BY <1>4, <2>3, <2>4, <2>6, <2>7, <2>8, <2>9 DEF HoldsIn, OwnIsDoomed
<1> QED
  BY <1>9, <1>10, <1>11, EndsOutcome

Reading(l, s) == [l EXCEPT !.pc = "reading", !.ahead = s.reads, !.frame = <<s.reads, s.next>>]

LEMMA ReadingIs ==
    ASSUME NEW x \in LStep, frames \in Nat, x.s.next < frames, x.s.reads # None
    PROVE  \E l \in Loop : /\ Waits([x EXCEPT !.loop.ahead = x.s.reads,
                                              !.loop.frame = <<x.s.reads, x.s.next>>],
                                    "reading") = WithLoop(x, x.s, l)
                           /\ l.pc = "reading" /\ l.ahead = x.s.reads /\ l.of = x.loop.of
                           /\ l.frame = <<x.s.reads, x.s.next>> /\ l.frame \in Payloads
<1>1. x.s.reads \in Files /\ x.s.next \in Nat /\ x.loop \in Loop /\ x.s.reads \in FileOrNone
  BY LStepIs, FileFacts
<1>2. <<x.s.reads, x.s.next>> \in Payloads
  BY <1>1, PayloadFacts
<1>3. PICK l \in Loop : l = Reading(x.loop, x.s)
  <2>1. Reading(x.loop, x.s) \in Loop
    BY <1>1, <1>2 DEF Reading, Loop
  <2> QED
    BY <2>1
<1>4. /\ l.pc = "reading" /\ l.ahead = x.s.reads /\ l.of = x.loop.of
      /\ l.frame = <<x.s.reads, x.s.next>> /\ l.frame \in Payloads
  BY <1>1, <1>2, <1>3 DEF Reading, Loop
<1>5. Waits([x EXCEPT !.loop.ahead = x.s.reads, !.loop.frame = <<x.s.reads, x.s.next>>],
            "reading") = WithLoop(x, x.s, l)
  BY <1>1, <1>3 DEF Waits, WithLoop, Reading, LStep, Loop
<1> QED
  BY <1>4, <1>5

LEMMA ReadingOutcome ==
    ASSUME NEW x \in LStep, NEW f \in Files, x.loop.of = f, f <= sender.id, SenderSide(x), NEW b,
           NEW q, sender.id \in FileOrNone, frames \in Nat, x.s.next < frames, x.s.reads # None,
           q => HeadIn(x, f, b)
    PROVE  Outcome(Waits([x EXCEPT !.loop.ahead = x.s.reads,
                                   !.loop.frame = <<x.s.reads, x.s.next>>], "reading"), f, b, q)
<1>1. /\ x.s \in Sender /\ x.s.id = sender.id /\ x.s.reads = sender.id /\ x.s.next \in Nat
      /\ sender.id \in Nat /\ sender.id \in Files
  BY LStepIs, FileFacts DEF SenderSide
<1>2. PICK l \in Loop : /\ Waits([x EXCEPT !.loop.ahead = x.s.reads,
                                           !.loop.frame = <<x.s.reads, x.s.next>>],
                                 "reading") = WithLoop(x, x.s, l)
                        /\ l.pc = "reading" /\ l.ahead = x.s.reads /\ l.of = x.loop.of
                        /\ l.frame = <<x.s.reads, x.s.next>> /\ l.frame \in Payloads
  BY ReadingIs
<1>3. PICK y : y = WithLoop(x, x.s, l)
  OBVIOUS
<1>4. /\ y \in LStep /\ y.s = x.s /\ y.loop = l /\ y.out = x.out /\ y.data = x.data
      /\ y.buffered = x.buffered
  BY <1>1, <1>3, WithLoopIs
<1>5. SenderSide(y)
  BY <1>4 DEF SenderSide, Unoffered
<1>6. l.frame[1] = sender.id /\ l.frame[2] = x.s.next
  BY <1>1, <1>2
<1>7. LoopOK(f, y.loop)
  BY <1>1, <1>2, <1>4, <1>6 DEF LoopOK
<1>8. ASSUME q, NEW L, IsLoops(L, f, y.loop)
      PROVE  QuietFinal(y, L, b)
  <2>1. HeadIn(x, f, b) /\ HoldsIn(x, f, b) /\ OwnIsDoomed(x, f, b)
    BY <1>8 DEF HeadIn
  <2>2. L[f] = l /\ \A g \in Files \ {f} : L[g] = loops[g]
    BY <1>4, <1>8 DEF IsLoops
  <2>3. b
    BY <1>1, <2>1, FileFacts DEF HoldsIn, Unread
  <2>4. \A g \in Files : L[g].pc \notin {"head", "paused"}
    BY <1>2, <2>1, <2>2 DEF HoldsIn
  <2>5. SentIn(x.s, L)
    <3>1. CASE f = x.s.id
      <4>1. /\ x.s.next = 0 \/ HasFirst(x.s)
            /\ CleanHead(x.s) \/ ~ Ascending(x.s.sourceHash)
        BY <2>1, <2>3, <3>1 DEF HeadIn
      <4>2. Others(x.s.id, loops) => Others(x.s.id, L)
        BY <2>2, <3>1 DEF Others
      <4>3. CleanHead(x.s) => CleanIn(x.s, L)
        BY <1>1, <1>2, <2>2, <3>1, <4>2 DEF CleanHead, CleanIn
      <4>4. L[x.s.id].ahead = x.s.id /\ (L[x.s.id].frame[2] = 0 \/ HasFirst(x.s))
        BY <1>1, <1>2, <1>6, <2>2, <3>1, <4>1
      <4> QED
        BY <4>1, <4>3, <4>4 DEF SentIn, DoomedIn
    <3>2. CASE f # x.s.id
      <4>1. L[x.s.id] = loops[x.s.id] /\ SentIn(x.s, loops)
        BY <1>1, <2>1, <2>2, <2>3, <3>2 DEF HoldsIn
      <4> QED
        BY <2>1, <2>3, <3>2, <4>1 DEF SentIn, OwnIsDoomed
    <3> QED
      BY <3>1, <3>2
  <2> QED
    BY <1>4, <2>1, <2>3, <2>4, <2>5 DEF QuietFinal, HoldsIn
<1> QED
  BY <1>2, <1>3, <1>4, <1>5, <1>7, <1>8 DEF Outcome

LEMMA PausedAtHead ==
    ASSUME NEW x \in LStep, NEW f \in Files, x.loop.of = f, f <= sender.id, SenderSide(x), NEW b,
           NEW q, NEW pc \in {"head", "paused"}, ~ q,
           pc = "paused" => LoopOK(f, x.loop) /\ x.loop.pc \notin {"over", "head"}
    PROVE  Outcome(Waits([x EXCEPT !.s.pauseWaiters = @ \cup {x.loop.of}], pc), f, b, q)
<1>1. x.s \in Sender /\ x.loop \in Loop
  BY LStepIs
<1>2. PICK t \in Sender : /\ t = Waiting(x.s, f) /\ SameFlow(x.s, t)
                          /\ t.offered = x.s.offered /\ t.cancelled = x.s.cancelled
                          /\ t.state = x.s.state
  BY <1>1, FinalizingIs
<1>3. PICK l \in Loop : l = [x.loop EXCEPT !.pc = pc]
  <2>1. [x.loop EXCEPT !.pc = pc] \in Loop
    BY <1>1 DEF Loop
  <2> QED
    BY <2>1
<1>4. l.pc = pc /\ l.of = f /\ l.frame = x.loop.frame /\ l.ahead = x.loop.ahead
  BY <1>1, <1>3 DEF Loop
<1>5. PICK y : y = WithLoop(x, t, l)
  OBVIOUS
<1>6. /\ y \in LStep /\ y.s = t /\ y.loop = l /\ y.out = x.out /\ y.data = x.data
      /\ y.buffered = x.buffered
  BY <1>5, WithLoopIs
<1>7. y = Waits([x EXCEPT !.s.pauseWaiters = @ \cup {x.loop.of}], pc)
  BY <1>2, <1>3, <1>5 DEF Waits, WithLoop, Waiting, LStep
<1>8. SenderSide(y)
  <2>1. /\ t.state \in {"FAILED", "CANCELLED"} => t.cancelled
        /\ t.state = "COMPLETED" /\ sender.id # None => Whole(files, sender.id)
    BY <1>2 DEF SenderSide, SenderOK
  <2> QED
    BY <1>2, <1>6, <2>1, SameFlowSide
<1>9. LoopOK(f, y.loop)
  BY <1>4, <1>6 DEF LoopOK
<1> QED
  BY <1>6, <1>7, <1>8, <1>9 DEF Outcome

LEMMA NextReadOutcome ==
    ASSUME NEW x \in LStep, NEW f \in Files, x.loop.of = f, f <= sender.id, SenderSide(x), NEW b,
           NEW q, sender.id \in FileOrNone, frames \in Nat, q => HeadIn(x, f, b) /\ connected
    PROVE  Outcome(NextRead(x), f, b, q)
<1>1. x.s.next \in Nat
  BY LStepIs
<1>2. q => HoldsIn(x, f, b) /\ OwnIsDoomed(x, f, b) /\ ~ x.s.paused
  BY DEF HeadIn, HoldsIn
<1>3. CASE x.s.cancelled
  <2>1. NextRead(x) = Ends(x)
    BY <1>3 DEF NextRead
  <2> QED
    BY <1>2, <2>1, EndsOutcome
<1>4. CASE ~ x.s.cancelled /\ x.s.paused
  <2>1. NextRead(x) = Waits([x EXCEPT !.s.pauseWaiters = @ \cup {x.loop.of}], "head")
    BY <1>4 DEF NextRead
  <2>2. Outcome(Waits([x EXCEPT !.s.pauseWaiters = @ \cup {x.loop.of}], "head"), f, b, q)
    BY <1>2, <1>4, PausedAtHead
  <2> QED
    BY <2>1, <2>2
<1>5. CASE ~ x.s.cancelled /\ ~ x.s.paused /\ x.s.reads = None
  <2>1. NextRead(x) = Throws(x)
    BY <1>5 DEF NextRead
  <2> QED
    BY <1>2, <2>1, ThrowsOutcome
<1>6. CASE ~ x.s.cancelled /\ ~ x.s.paused /\ x.s.reads # None /\ x.s.next >= frames
  <2>1. NextRead(x) = Finishes(x)
    BY <1>6 DEF NextRead
  <2> QED
    BY <1>6, <2>1, FinishesOutcome
<1>7. CASE ~ x.s.cancelled /\ ~ x.s.paused /\ x.s.reads # None /\ ~ (x.s.next >= frames)
  <2>1. NextRead(x) = Waits([x EXCEPT !.loop.ahead = x.s.reads,
                                      !.loop.frame = <<x.s.reads, x.s.next>>], "reading")
    BY <1>7 DEF NextRead
  <2>2. x.s.next < frames
    BY <1>1, <1>7
  <2>3. Outcome(Waits([x EXCEPT !.loop.ahead = x.s.reads,
                                !.loop.frame = <<x.s.reads, x.s.next>>], "reading"), f, b, q)
    BY <1>7, <2>2, ReadingOutcome
  <2> QED
    BY <2>1, <2>3
<1> QED
  BY <1>3, <1>4, <1>5, <1>6, <1>7
LEMMA ArrivingGrows ==
    ASSUME NEW s \in Seq(Payloads), NEW e \in Payloads, NEW d \in Seq(DataFrame),
           NEW p \in DataFrame, NEW id, p.ref = id, p.payload = e, NEW expected \in Nat,
           NEW t, Adds(s, e, t), NEW u, Adds(d, p, u), Arriving(id, s, expected, d)
    PROVE  Arriving(id, t, expected, u) /\ expected <= Len(s)
<1>1. PICK k \in Nat, c \in Nat : k = Len(s) /\ c = Len(d)
  OBVIOUS
<1>2. /\ Len(t) = k + 1 /\ \A n \in 1 .. k : t[n] = s[n]
      /\ t[k + 1] = e
  BY <1>1, Appended DEF Adds
<1>3. /\ Len(u) = c + 1 /\ DOMAIN u = 1 .. c + 1 /\ DOMAIN d = 1 .. c
      /\ \A n \in 1 .. c : u[n] = d[n]
      /\ u[c + 1] = p
  BY <1>1, Appended DEF Adds
<1>4. /\ k - expected >= 0 /\ k - expected <= c
      /\ \A n \in 1 .. c : d[n].ref = id <=> n > c - (k - expected)
      /\ \A n \in 1 .. c : n > c - (k - expected) => d[n].payload = s[k - c + n]
  BY <1>1, <1>3 DEF Arriving
<1>5. \A n \in 1 .. c + 1 : u[n].ref = id <=> n > (c + 1) - ((k + 1) - expected)
  <2>1. TAKE n \in 1 .. c + 1
  <2>2. CASE n \in 1 .. c
    BY <1>3, <1>4, <2>2
  <2>3. CASE n = c + 1
    BY <1>3, <1>4, <2>3
  <2> QED
    BY <2>2, <2>3
<1>6. \A n \in 1 .. c + 1 :
         n > (c + 1) - ((k + 1) - expected) => u[n].payload = t[(k + 1) - (c + 1) + n]
  <2>1. TAKE n \in 1 .. c + 1
  <2>2. CASE n \in 1 .. c
    <3>1. SUFFICES ASSUME n > (c + 1) - ((k + 1) - expected)
                   PROVE  u[n].payload = t[(k + 1) - (c + 1) + n]
      OBVIOUS
    <3>2. n > c - (k - expected) /\ (k + 1) - (c + 1) + n = k - c + n /\ k - c + n \in 1 .. k
      <4>1. n \in 1 .. c /\ n > (c + 1) - ((k + 1) - expected)
        BY <2>2, <3>1
      <4> QED
        BY <1>1, <4>1
    <3>3. d[n].payload = s[k - c + n] /\ t[k - c + n] = s[k - c + n] /\ u[n] = d[n]
      BY <1>2, <1>3, <1>4, <2>2, <3>2
    <3> QED
      BY <3>2, <3>3
  <2>3. CASE n = c + 1
    <3>1. (k + 1) - (c + 1) + n = k + 1
      BY <2>3
    <3> QED
      BY <1>2, <1>3, <2>3, <3>1
  <2> QED
    BY <2>2, <2>3
<1> QED
  BY <1>1, <1>2, <1>3, <1>4, <1>5, <1>6 DEF Arriving

FrameOf(x) == [ref |-> x.s.id, offset |-> x.loop.frame[2], payload |-> x.loop.frame]

WithFrame(x) ==
    [x EXCEPT !.data = Append(@, [ref |-> x.s.id, offset |-> x.loop.frame[2],
                                  payload |-> x.loop.frame]),
              !.buffered = @ + 1, !.s.sent = @ + 1,
              !.s.sourceHash = Append(@, x.loop.frame)]

\* A loop with a frame.
Carries(x, f) ==
    /\ x \in LStep /\ x.loop.of = f /\ f <= sender.id /\ SenderSide(x)
    /\ x.loop.pc \notin {"over", "head"}
    /\ x.loop.frame \in Payloads /\ x.loop.ahead = x.loop.frame[1]
    /\ x.loop.frame[1] <= sender.id

LEMMA WithFrameIs ==
    ASSUME Types, NEW x, NEW f, Carries(x, f)
    PROVE  /\ WithFrame(x) \in LStep /\ SenderSide(WithFrame(x)) /\ WithFrame(x).loop = x.loop
           /\ WithFrame(x).out = x.out
           /\ FrameOf(x) \in DataFrame
           /\ Adds(x.data, FrameOf(x), WithFrame(x).data)
           /\ Adds(x.s.sourceHash, x.loop.frame, WithFrame(x).s.sourceHash)
           /\ WithFrame(x).s.sent = x.s.sent + 1 /\ WithFrame(x).s.id = x.s.id
           /\ WithFrame(x).s.reads = x.s.reads /\ WithFrame(x).s.next = x.s.next
           /\ WithFrame(x).s.paused = x.s.paused /\ WithFrame(x).s.cancelled = x.s.cancelled
<1>1. /\ x \in LStep /\ x.s \in Sender /\ x.s.id = sender.id /\ x.s.sourceHash \in Seq(Payloads)
      /\ x.data \in Seq(DataFrame) /\ x.s.sent \in Nat /\ x.buffered \in Nat
      /\ x.loop.frame \in Payloads /\ x.out \in Seq(ToReceiver) /\ x.loop \in Loop
  BY LStepIs DEF Carries, SenderSide
<1>2. x.loop.frame[1] \in Nat /\ x.loop.frame[1] >= 1 /\ x.loop.frame[2] \in Nat
  BY <1>1, PayloadFacts DEF Types
<1>3. sender.id \in Files /\ sender.id \in Nat
  <2>1. sender.id \in FileOrNone /\ sender.id \in Nat
    BY FileFacts DEF Types, Sender
  <2> QED
    BY <1>2, <2>1, FileFacts DEF Carries, None
<1>4. PICK p \in DataFrame : /\ p = FrameOf(x) /\ p.ref = sender.id
                             /\ p.offset = x.loop.frame[2] /\ p.payload = x.loop.frame
  <2>1. FrameOf(x) \in DataFrame
    BY <1>1, <1>2, <1>3 DEF FrameOf, DataFrame
  <2> QED
    BY <1>1, <2>1 DEF FrameOf
<1>5. PICK d \in Seq(DataFrame) : d = Append(x.data, p)
  <2>1. Append(x.data, p) \in Seq(DataFrame)
    BY <1>1, Appended
  <2> QED
    BY <2>1
<1>6. PICK h \in Seq(Payloads) : h = Append(x.s.sourceHash, x.loop.frame)
  <2>1. Append(x.s.sourceHash, x.loop.frame) \in Seq(Payloads)
    BY <1>1, Appended
  <2> QED
    BY <2>1
<1>0. PICK sent \in Nat, more \in Nat : sent = x.s.sent + 1 /\ more = x.buffered + 1
  BY <1>1, SMTT(40)
<1>7. PICK t \in Sender : t = [x.s EXCEPT !.sent = sent, !.sourceHash = h]
  <2>1. \A s \in Sender : [s EXCEPT !.sent = sent, !.sourceHash = h] \in Sender
    BY DEF Sender
  <2> QED
    BY <1>1, <2>1
<1>8. /\ t.id = x.s.id /\ t.reads = x.s.reads /\ t.next = x.s.next /\ t.paused = x.s.paused
      /\ t.cancelled = x.s.cancelled /\ t.offered = x.s.offered /\ t.state = x.s.state
      /\ t.sent = sent /\ t.sourceHash = h
  BY <1>1, <1>7 DEF Sender
<1>9. PICK y : y = [x EXCEPT !.s = t, !.data = d, !.buffered = more]
  OBVIOUS
<1>10. /\ y \in LStep /\ y.s = t /\ y.data = d /\ y.buffered = more /\ y.out = x.out
       /\ y.loop = x.loop
  BY <1>1, <1>9 DEF LStep
<1>11. y = WithFrame(x)
  BY <1>0, <1>1, <1>4, <1>5, <1>6, <1>7, <1>9 DEF WithFrame, FrameOf, LStep, Sender
<1>12. SenderSide(y)
  <2>1. \A n \in DOMAIN d : n \in DOMAIN x.data \/ n = Len(x.data) + 1
    BY <1>1, <1>5, Appended
  <2>2. \A n \in DOMAIN x.data : d[n] = x.data[n]
    BY <1>1, <1>5, Appended
  <2>3. d[Len(x.data) + 1] = p
    BY <1>1, <1>5, Appended
  <2>4. FramesOK(x.data)
    BY DEF Carries, SenderSide
  <2>5. /\ p.payload[2] = p.offset /\ p.payload[1] <= p.ref /\ p.ref <= sender.id
    BY <1>3, <1>4 DEF Carries
  <2>6. FramesOK(d)
    BY <2>1, <2>2, <2>3, <2>4, <2>5 DEF FramesOK
  <2>7. SenderOK(t)
    <3>1. Len(h) = Len(x.s.sourceHash) + 1 /\ Len(x.s.sourceHash) \in Nat
      BY <1>1, <1>6, Appended
    <3>2. SenderOK(x.s)
      BY DEF Carries, SenderSide
    <3> QED
      BY <1>0, <1>1, <1>6, <1>8, <3>1, <3>2 DEF SenderOK
  <2>8. Unoffered(y)
    BY <1>8, <1>10 DEF Carries, SenderSide, Unoffered
  <2> QED
    BY <1>1, <1>8, <1>10, <2>6, <2>7, <2>8 DEF Carries, SenderSide
<1> QED
  BY <1>0, <1>4, <1>5, <1>6, <1>8, <1>10, <1>11, <1>12 DEF Adds

LEMMA WithFrameHead ==
    ASSUME Types, NEW x, NEW f \in Files, Carries(x, f), NEW b \in BOOLEAN, FrameIn(x, f, b),
           \A g \in Files : LoopOK(g, loops[g])
    PROVE  HeadIn(WithFrame(x), f, b)
<1>1. PICK y : y = WithFrame(x)
  OBVIOUS
<1>2. PICK p \in DataFrame : p = FrameOf(x) /\ p.ref = x.s.id /\ p.payload = x.loop.frame
  <2>1. PICK p \in DataFrame : p = FrameOf(x)
    BY WithFrameIs
  <2> QED
    BY <2>1 DEF FrameOf
<1>3. PICK e \in Payloads : e = x.loop.frame
  BY DEF Carries
<1>4. /\ y \in LStep /\ SenderSide(y) /\ y.loop = x.loop /\ y.out = x.out
      /\ Adds(x.data, p, y.data) /\ Adds(x.s.sourceHash, e, y.s.sourceHash)
      /\ y.s.sent = x.s.sent + 1 /\ y.s.id = x.s.id
      /\ y.s.reads = x.s.reads /\ y.s.next = x.s.next
      /\ y.s.paused = x.s.paused /\ y.s.cancelled = x.s.cancelled
  BY <1>1, <1>2, <1>3, WithFrameIs
<1>5. PICK h \in Seq(Payloads), k \in Nat : h = x.s.sourceHash /\ k = Len(h)
  BY LStepIs DEF Carries
<1>6. PICK t : t = y.s.sourceHash /\ t = Append(h, e)
  BY <1>4, <1>5 DEF Adds
<1>7. /\ t \in Seq(Payloads) /\ Len(t) = k + 1 /\ DOMAIN t = 1 .. k + 1 /\ DOMAIN h = 1 .. k
      /\ \A n \in 1 .. k : t[n] = h[n]
      /\ t[k + 1] = e
  BY <1>5, <1>6, Appended
<1>8. /\ x.s.sent \in Nat /\ x.data \in Seq(DataFrame) /\ x.s.id = sender.id
      /\ x.s.id \in FileOrNone
  BY LStepIs DEF Carries, SenderSide
<1>9. e[1] \in Files /\ e[2] \in Nat /\ e = <<e[1], e[2]>>
  BY <1>3, PayloadFacts DEF Types
<1>10. HoldsIn(x, f, b)
  BY DEF FrameIn
<1>11. FinishesIn(y.s, y.out)
  <2>1. ASSUME NEW bytes, NEW sha256, FinishIn(x.s, bytes, sha256), bytes \in Int,
               sha256 \in Seq(Payloads)
        PROVE  FinishIn(y.s, bytes, sha256)
    <3>1. PICK c \in Nat, a \in Nat : c = Len(sha256) /\ a = x.s.sent
      BY <1>8, <2>1
    <3>2. bytes - c = a - k /\ c <= k /\ DOMAIN sha256 = 1 .. c
      BY <1>5, <2>1, <3>1 DEF FinishIn
    <3>3. bytes - c = (a + 1) - (k + 1) /\ c <= k + 1
      BY <2>1, <3>1, <3>2, SMTT(40)
    <3>4. \A n \in DOMAIN sha256 : n \in 1 .. k /\ sha256[n] = h[n]
      BY <1>5, <2>1, <3>1, <3>2 DEF FinishIn
    <3>5. \A n \in DOMAIN sha256 : sha256[n] = t[n]
      BY <1>7, <3>4
    <3>6. /\ sha256 = SourceOf(y.s.id) \/ ~ Ascending(sha256)
          /\ frames > 0 => \E n \in DOMAIN sha256 : sha256[n] = <<y.s.id, 0>>
      BY <1>4, <2>1 DEF FinishIn
    <3> QED
      BY <1>4, <1>6, <1>7, <3>1, <3>3, <3>5, <3>6 DEF FinishIn
  <2>2. \A m \in ToReceiver : m.type = "FINISH" => m.bytes \in Int /\ m.sha256 \in Seq(Payloads)
    BY DEF ToReceiver, Signals
  <2>3. /\ \A n \in DOMAIN toReceiver : toReceiver[n] \in ToReceiver
        /\ \A n \in DOMAIN x.out : x.out[n] \in ToReceiver
    <3>1. toReceiver \in Seq(ToReceiver) /\ x.out \in Seq(ToReceiver)
      BY LStepIs DEF Types, Carries
    <3> QED
      BY <3>1
  <2>4. receiver.finish.bytes \in Int /\ receiver.finish.sha256 \in Seq(Payloads)
    BY DEF Types, Receiver
  <2>5. FinishesIn(x.s, x.out)
    BY <1>10 DEF HoldsIn
  <2> QED
    BY <1>4, <2>1, <2>2, <2>3, <2>4, <2>5 DEF FinishesIn
<1>12. FifoIn(y.s, y.data, b)
  <2>1. SUFFICES ASSUME UnspoiltBy(y.s, b), y.s.id # None,
                        ~(receiver.id = y.s.id /\ receiver.cancelled)
                 PROVE  /\ Arriving(y.s.id, y.s.sourceHash, Expected(y.s.id), y.data)
                        /\ receiver.id = y.s.id /\ Accepted(OfReceiver) =>
                              \A n \in 1 .. receiver.expected :
                                  Taken(OfReceiver, drain)[Before(OfReceiver, drain) + n]
                                      = y.s.sourceHash[n]
    BY DEF FifoIn
  <2>2. b /\ x.s.sent = k
    <3>1. x.s.sent + 1 = k + 1 /\ (b \/ x.s.sent + 1 = 0)
      BY <1>4, <1>6, <1>7, <2>1 DEF UnspoiltBy
    <3> QED
      BY <1>8, <3>1
  <2>3. UnspoiltBy(x.s, b)
    BY <1>5, <2>2 DEF UnspoiltBy
  <2>4. /\ Arriving(x.s.id, h, Expected(x.s.id), x.data)
        /\ receiver.id = x.s.id /\ Accepted(OfReceiver) =>
              \A n \in 1 .. receiver.expected :
                  Taken(OfReceiver, drain)[Before(OfReceiver, drain) + n] = h[n]
    BY <1>4, <1>5, <1>10, <2>1, <2>3 DEF HoldsIn, FifoIn
  <2>5. PICK expected \in Nat : expected = Expected(x.s.id)
    BY DEF Types, Receiver, Expected
  <2>6. /\ Adds(h, e, t) /\ p.payload = e
    BY <1>2, <1>3, <1>6 DEF Adds
  <2>7. PICK u : u = y.data
    OBVIOUS
  <2>8. Arriving(x.s.id, t, expected, u) /\ expected <= Len(h)
    BY <1>2, <1>4, <1>8, <2>4, <2>5, <2>6, <2>7, ArrivingGrows
  <2>9. receiver.id = x.s.id => \A n \in 1 .. receiver.expected : n \in 1 .. k
    BY <1>5, <2>5, <2>8 DEF Expected
  <2> QED
    BY <1>4, <1>6, <1>7, <2>4, <2>5, <2>7, <2>8, <2>9
<1>13. b /\ f = x.s.id => /\ y.s.next = 0 \/ HasFirst(y.s)
                          /\ CleanHead(y.s) \/ ~ Ascending(y.s.sourceHash)
  <2>1. SUFFICES ASSUME b, f = x.s.id
                 PROVE  /\ HasFirst(y.s)
                        /\ CleanHead(y.s) \/ ~ Ascending(y.s.sourceHash)
    OBVIOUS
  <2>2. /\ x.loop.ahead = f
        /\ e[2] = 0 \/ HasFirst(x.s)
        /\ CleanFrame(x) \/ DoomedIn(x.s, x.loop)
    BY <1>3, <2>1 DEF FrameIn
  <2>3. e[1] = f
    BY <1>3, <2>2 DEF Carries
  <2>4. HasFirst(y.s)
    <3>1. CASE e[2] = 0
      <4>1. t[k + 1] = <<y.s.id, 0>> /\ k + 1 \in DOMAIN t
        BY <1>4, <1>5, <1>7, <1>9, <2>1, <2>3, <3>1
      <4> QED
        BY <1>6, <4>1 DEF HasFirst
    <3>2. CASE HasFirst(x.s)
      <4>1. PICK n \in 1 .. k : h[n] = <<x.s.id, 0>>
        BY <1>5, <1>7, <3>2 DEF HasFirst
      <4>2. n \in DOMAIN t /\ t[n] = <<y.s.id, 0>>
        BY <1>4, <1>5, <1>7, <4>1
      <4> QED
        BY <1>6, <4>2 DEF HasFirst
    <3> QED
      BY <2>2, <3>1, <3>2
  <2>5. ASSUME CleanFrame(x)
        PROVE  CleanHead(y.s)
    <3>1. /\ \A i \in 1 .. k : h[i] = <<f, i - 1>>
          /\ e = <<f, k>> /\ x.s.next = k + 1 /\ Others(f, loops)
          /\ x.s.reads = f \/ x.s.cancelled
      BY <1>3, <1>5, <2>1, <2>5 DEF CleanFrame
    <3>2. \A i \in 1 .. k + 1 : t[i] = <<f, i - 1>>
      <4>1. TAKE i \in 1 .. k + 1
      <4>2. i \in 1 .. k \/ i = k + 1
        BY <1>5
      <4>3. i = k + 1 => i - 1 = k
        BY <1>5
      <4> QED
        BY <1>7, <3>1, <4>2, <4>3
    <3> QED
      BY <1>4, <1>6, <1>7, <2>1, <3>1, <3>2 DEF CleanHead
  <2>6. ASSUME DoomedIn(x.s, x.loop)
        PROVE  ~ Ascending(t)
    <3>1. ~ Ascending(h) \/ e[2] < k
      BY <1>3, <1>5, <2>6 DEF DoomedIn
    <3>2. CASE ~ Ascending(h)
      <4>1. PICK n \in 1 .. k : h[n][2] # n - 1
        BY <1>7, <3>2 DEF Ascending
      <4>2. n \in DOMAIN t /\ t[n][2] # n - 1
        BY <1>5, <1>7, <4>1
      <4> QED
        BY <4>2 DEF Ascending
    <3>3. CASE e[2] < k
      <4>1. k + 1 \in DOMAIN t /\ t[k + 1][2] # (k + 1) - 1
        BY <1>5, <1>7, <1>9, <3>3
      <4> QED
        BY <4>1 DEF Ascending
    <3> QED
      BY <3>1, <3>2, <3>3
  <2> QED
    BY <1>6, <2>2, <2>4, <2>5, <2>6
<1>14. ASSUME b, f # x.s.id, loops[x.s.id].pc # "over"
       PROVE  /\ loops[x.s.id].ahead = x.s.id
              /\ loops[x.s.id].frame[2] = 0 \/ HasFirst(y.s)
              /\ DoomedIn(y.s, loops[x.s.id])
  <2>1. /\ loops[x.s.id].ahead = x.s.id
        /\ loops[x.s.id].frame[2] = 0 \/ HasFirst(x.s)
        /\ CleanIn(x.s, loops) \/ DoomedIn(x.s, loops[x.s.id])
    BY <1>10, <1>14 DEF HoldsIn, SentIn
  <2>2. HasFirst(x.s) => HasFirst(y.s)
    <3>1. SUFFICES ASSUME HasFirst(x.s)
                   PROVE  HasFirst(y.s)
      OBVIOUS
    <3>2. PICK n \in 1 .. k : h[n] = <<x.s.id, 0>>
      BY <1>5, <1>7, <3>1 DEF HasFirst
    <3>3. n \in DOMAIN t /\ t[n] = <<y.s.id, 0>>
      BY <1>4, <1>5, <1>7, <3>2
    <3> QED
      BY <1>6, <3>3 DEF HasFirst
  <2>3. CASE CleanIn(x.s, loops)
    <3>1. loops[x.s.id].frame = <<x.s.id, k>>
      BY <1>5, <2>3 DEF CleanIn
    <3>2. loops[x.s.id].frame[2] < Len(t)
      BY <1>5, <1>7, <3>1
    <3> QED
      BY <1>6, <2>1, <2>2, <3>2 DEF DoomedIn
  <2>4. CASE ~ Ascending(h)
    <3>1. PICK n \in 1 .. k : h[n][2] # n - 1
      BY <1>7, <2>4 DEF Ascending
    <3>2. n \in DOMAIN t /\ t[n][2] # n - 1
      BY <1>5, <1>7, <3>1
    <3> QED
      BY <1>6, <2>1, <2>2, <3>2 DEF DoomedIn, Ascending
  <2>5. CASE loops[x.s.id].frame[2] < k
    <3>1. x.s.id \in Files
      BY <1>8, <1>10, <1>14, FileFacts DEF HoldsIn
    <3>2. loops[x.s.id].pc \notin {"over", "head"}
      BY <1>10, <1>14, <3>1 DEF HoldsIn
    <3>3. loops[x.s.id].frame \in Payloads
      BY <3>1, <3>2 DEF LoopOK
    <3>4. loops[x.s.id].frame[2] \in Nat
      BY <3>3, PayloadFacts DEF Types
    <3>5. loops[x.s.id].frame[2] < Len(t)
      BY <1>5, <1>7, <2>5, <3>4
    <3> QED
      BY <1>6, <2>1, <2>2, <3>5 DEF DoomedIn
  <2> QED
    BY <1>5, <2>1, <2>3, <2>4, <2>5 DEF DoomedIn
<1>15. HoldsIn(y, f, b)
  <2>1. b /\ f # y.s.id => SentIn(y.s, loops)
    BY <1>4, <1>14 DEF SentIn
  <2>2. ~ b /\ y.s.id # None => f # y.s.id /\ Unread(y.s, loops, y.out)
    BY <1>4, <1>10 DEF HoldsIn, Unread
  <2> QED
    BY <1>4, <1>10, <1>11, <1>12, <2>1, <2>2 DEF HoldsIn
<1>16. OwnIsDoomed(y, f, b)
  BY <1>4, <1>14 DEF OwnIsDoomed
<1> QED
  BY <1>1, <1>4, <1>13, <1>15, <1>16 DEF HeadIn
\* What stays the same when a loop with a frame waits.
LEMMA HeldOutcome ==
    ASSUME NEW x, NEW f \in Files, Carries(x, f), NEW b, NEW q, q => FrameIn(x, f, b),
           sender.id \in FileOrNone,
           NEW t \in Sender, SameFlow(x.s, t), t.offered = x.s.offered, t.state = x.s.state,
           t.cancelled = x.s.cancelled, NEW l \in Loop, l.pc \in {"window", "buffer"}, l.of = f,
           l.frame = x.loop.frame, l.ahead = x.loop.ahead
    PROVE  Outcome(WithLoop(x, t, l), f, b, q)
<1>1. PICK y : y = WithLoop(x, t, l)
  OBVIOUS
<1>2. x \in LStep /\ SenderSide(x)
  BY DEF Carries
<1>3. /\ y \in LStep /\ y.s = t /\ y.loop = l /\ y.out = x.out /\ y.data = x.data
      /\ y.buffered = x.buffered
  BY <1>1, <1>2, WithLoopIs
<1>4. SenderSide(y)
  <2>1. /\ t.state \in {"FAILED", "CANCELLED"} => t.cancelled
        /\ t.state = "COMPLETED" /\ sender.id # None => Whole(files, sender.id)
    BY <1>2 DEF SenderSide, SenderOK
  <2> QED
    BY <1>2, <1>3, <2>1, SameFlowSide
<1>5. LoopOK(f, y.loop)
  BY <1>3 DEF LoopOK, Carries
<1>6. ASSUME q, NEW L, IsLoops(L, f, y.loop)
      PROVE  QuietFinal(y, L, b)
  <2>1. FrameIn(x, f, b) /\ HoldsIn(x, f, b)
    BY <1>6 DEF FrameIn
  <2>2. L[f] = l /\ \A g \in Files \ {f} : L[g] = loops[g]
    BY <1>3, <1>6 DEF IsLoops
  <2>3. SaysMore(x.out, y.out)
    BY <1>3 DEF SaysMore
  <2>4. HoldsIn(y, f, b)
    BY <1>3, <2>1, <2>3, HoldsFlow
  <2>5. \A g \in Files : L[g].pc \notin {"head", "paused"}
    BY <2>1, <2>2 DEF HoldsIn
  <2>6. x.s.id \in FileOrNone /\ x.s.id = sender.id /\ t.id = x.s.id
    BY <1>2 DEF SenderSide, SameFlow
  <2>7. l.ahead = loops[f].ahead /\ loops[f].pc # "over"
    BY <2>1 DEF FrameIn
  <2>8. \A id : Others(id, loops) => Others(id, L)
    BY <2>2, <2>7 DEF Others
  <2>9. b => SentIn(t, L)
    <3>1. SUFFICES ASSUME b
                   PROVE  SentIn(t, L)
      OBVIOUS
    <3>2. CASE f = x.s.id
      <4>1. /\ l.ahead = f
            /\ l.frame[2] = 0 \/ HasFirst(x.s)
            /\ CleanFrame(x) \/ DoomedIn(x.s, x.loop)
        BY <2>1, <3>1, <3>2 DEF FrameIn
      <4>2. HasFirst(x.s) => HasFirst(t)
        BY DEF HasFirst, SameFlow
      <4>3. CleanFrame(x) => CleanIn(t, L)
        BY <2>2, <2>8, <3>2 DEF CleanFrame, CleanIn, SameFlow
      <4>4. DoomedIn(x.s, x.loop) => DoomedIn(t, L[f])
        BY <2>2 DEF DoomedIn, Ascending, SameFlow
      <4> QED
        BY <2>2, <2>6, <3>2, <4>1, <4>2, <4>3, <4>4 DEF SentIn
    <3>3. CASE f # x.s.id
      <4>1. x.s.id \in Files
        BY <2>1, <2>6, <3>1, FileFacts DEF HoldsIn
      <4>2. L[x.s.id] = loops[x.s.id] /\ SentIn(t, loops)
        BY <1>3, <2>2, <2>4, <2>6, <3>1, <3>3, <4>1 DEF HoldsIn
      <4>3. CleanIn(t, loops) => CleanIn(t, L)
        BY <2>6, <2>8, <4>2 DEF CleanIn
      <4> QED
        BY <2>6, <4>2, <4>3 DEF SentIn
    <3> QED
      BY <3>2, <3>3
  <2>10. ~ b /\ t.id # None => Unread(t, L, y.out)
    <3>1. SUFFICES ASSUME ~ b, t.id # None
                   PROVE  Unread(t, L, y.out)
      OBVIOUS
    <3>2. f # t.id /\ Unread(t, loops, y.out) /\ t.id \in Files
      BY <1>3, <2>4, <2>6, <3>1, FileFacts DEF HoldsIn
    <3> QED
      BY <2>2, <2>7, <3>2 DEF Unread
  <2> QED
    BY <1>3, <2>4, <2>5, <2>9, <2>10 DEF QuietFinal, HoldsIn
<1> QED
  BY <1>1, <1>3, <1>4, <1>5, <1>6 DEF Outcome

LEMMA SendsFrameOutcome ==
    ASSUME Types, NEW x, NEW f \in Files, Carries(x, f), NEW b \in BOOLEAN, NEW q,
           q => FrameIn(x, f, b) /\ connected, \A g \in Files : LoopOK(g, loops[g])
    PROVE  Outcome(SendsFrame(x), f, b, q)
<1>1. x \in LStep /\ x.loop.of = f /\ SenderSide(x) /\ f <= sender.id
  BY DEF Carries
<1>2. sender.id \in FileOrNone /\ frames \in Nat
  BY DEF Types, Sender
<1>3. CASE ~ connected
  <2>1. SendsFrame(x) = Throws(x)
    BY <1>3 DEF SendsFrame
  <2> QED
    BY <1>1, <1>2, <1>3, <2>1, ThrowsOutcome
<1>4. CASE connected
  <2>1. PICK y : y = WithFrame(x)
    OBVIOUS
  <2>2. SendsFrame(x) = NextRead(y)
    BY <1>4, <2>1 DEF SendsFrame, WithFrame
  <2>3. y \in LStep /\ SenderSide(y) /\ y.loop.of = f
    BY <1>1, <2>1, WithFrameIs
  <2>4. q => HeadIn(y, f, b)
    BY <2>1, WithFrameHead
  <2>5. Outcome(NextRead(y), f, b, q)
    BY <1>1, <1>2, <1>4, <2>3, <2>4, NextReadOutcome
  <2> QED
    BY <2>2, <2>5
<1> QED
  BY <1>3, <1>4

WaitingFor(l, pc) == [l EXCEPT !.pc = pc]
Heeding(s, f) == [s EXCEPT !.flowWaiters = @ \cup {f}]

LEMMA WaitingForIs ==
    ASSUME NEW l \in Loop, NEW s \in Sender, NEW f \in Files
    PROVE  /\ \A pc \in {"window", "buffer"} :
                 /\ WaitingFor(l, pc) \in Loop /\ WaitingFor(l, pc).pc = pc
                 /\ WaitingFor(l, pc).of = l.of /\ WaitingFor(l, pc).frame = l.frame
                 /\ WaitingFor(l, pc).ahead = l.ahead
           /\ Heeding(s, f) \in Sender /\ SameFlow(s, Heeding(s, f))
           /\ Heeding(s, f).offered = s.offered /\ Heeding(s, f).state = s.state
           /\ Heeding(s, f).cancelled = s.cancelled
<1>1. s.flowWaiters \cup {f} \in SUBSET Files
  BY DEF Sender
<1>2. /\ Heeding(s, f) \in Sender /\ SameFlow(s, Heeding(s, f))
      /\ Heeding(s, f).offered = s.offered /\ Heeding(s, f).state = s.state
      /\ Heeding(s, f).cancelled = s.cancelled
  BY <1>1 DEF Heeding, Sender, SameFlow
<1>3. \A pc \in {"window", "buffer"} :
         /\ WaitingFor(l, pc) \in Loop /\ WaitingFor(l, pc).pc = pc
         /\ WaitingFor(l, pc).of = l.of /\ WaitingFor(l, pc).frame = l.frame
         /\ WaitingFor(l, pc).ahead = l.ahead
  BY DEF WaitingFor, Loop
<1> QED
  BY <1>2, <1>3

LEMMA BufferedOutcome ==
    ASSUME Types, NEW x, NEW f \in Files, Carries(x, f), NEW b \in BOOLEAN, NEW q,
           q => FrameIn(x, f, b) /\ connected, \A g \in Files : LoopOK(g, loops[g])
    PROVE  Outcome(WaitForBufferedAmountLow(x), f, b, q)
<1>1. x \in LStep /\ x.loop.of = f /\ SenderSide(x) /\ x.s \in Sender /\ x.loop \in Loop
  BY LStepIs DEF Carries
<1>2. sender.id \in FileOrNone
  BY DEF Types, Sender
<1>3. CASE ~ connected
  <2>1. WaitForBufferedAmountLow(x) = Throws(x)
    BY <1>3 DEF WaitForBufferedAmountLow
  <2> QED
    BY <1>1, <1>2, <1>3, <2>1, ThrowsOutcome
<1>4. CASE connected /\ x.buffered < HighWater
  <2>1. WaitForBufferedAmountLow(x) = SendsFrame(x)
    BY <1>4 DEF WaitForBufferedAmountLow
  <2> QED
    BY <2>1, SendsFrameOutcome
<1>5. CASE connected /\ ~ (x.buffered < HighWater)
  <2>1. WaitForBufferedAmountLow(x) = Waits(x, "buffer")
    BY <1>5 DEF WaitForBufferedAmountLow
  <2>2. PICK l \in Loop : /\ l = WaitingFor(x.loop, "buffer") /\ l.pc = "buffer" /\ l.of = f
                          /\ l.frame = x.loop.frame /\ l.ahead = x.loop.ahead
    BY <1>1, WaitingForIs
  <2>3. Waits(x, "buffer") = WithLoop(x, x.s, l)
    BY <1>1, <2>2 DEF Waits, WithLoop, WaitingFor, LStep
  <2>4. SameFlow(x.s, x.s)
    BY DEF SameFlow
  <2>5. Outcome(WithLoop(x, x.s, l), f, b, q)
    BY <1>1, <1>2, <2>2, <2>4, HeldOutcome
  <2> QED
    BY <2>1, <2>3, <2>5
<1> QED
  BY <1>3, <1>4, <1>5

LEMMA RunnableOutcome ==
    ASSUME Types, NEW x, NEW f \in Files, Carries(x, f), NEW b \in BOOLEAN, NEW q \in BOOLEAN,
           q => FrameIn(x, f, b) /\ connected, \A g \in Files : LoopOK(g, loops[g])
    PROVE  Outcome(WaitUntilRunnable(x), f, b, q)
<1>1. CASE x.s.paused /\ ~ x.s.cancelled
  <2>1. WaitUntilRunnable(x) = Waits([x EXCEPT !.s.pauseWaiters = @ \cup {x.loop.of}], "paused")
    BY <1>1 DEF WaitUntilRunnable
  <2>2. x \in LStep /\ x.loop.of = f /\ SenderSide(x) /\ f <= sender.id
        /\ LoopOK(f, x.loop) /\ x.loop.pc \notin {"over", "head"}
    BY DEF Carries, LoopOK
  <2>3. ~ q
    BY <1>1 DEF FrameIn, HoldsIn
  <2>4. Outcome(Waits([x EXCEPT !.s.pauseWaiters = @ \cup {x.loop.of}], "paused"), f, b, q)
    BY <2>2, <2>3, PausedAtHead
  <2> QED
    BY <2>1, <2>4
<1>2. CASE ~ (x.s.paused /\ ~ x.s.cancelled)
  <2>1. WaitUntilRunnable(x) = WaitForBufferedAmountLow(x)
    BY <1>2 DEF WaitUntilRunnable
  <2> QED
    BY <2>1, BufferedOutcome
<1> QED
  BY <1>1, <1>2

LEMMA WindowOutcome ==
    ASSUME Types, NEW x, NEW f \in Files, Carries(x, f), NEW b \in BOOLEAN, NEW q \in BOOLEAN,
           q => FrameIn(x, f, b) /\ connected, \A g \in Files : LoopOK(g, loops[g])
    PROVE  Outcome(WaitForReceiveWindow(x), f, b, q)
<1>1. x \in LStep /\ x.loop.of = f /\ SenderSide(x) /\ x.s \in Sender /\ x.loop \in Loop
  BY LStepIs DEF Carries
<1>2. sender.id \in FileOrNone
  BY DEF Types, Sender
<1>3. CASE x.s.cancelled \/ HasRoom(x.s, x.loop.frame)
  <2>1. WaitForReceiveWindow(x) = WaitUntilRunnable(x)
    BY <1>3 DEF WaitForReceiveWindow
  <2> QED
    BY <2>1, RunnableOutcome
<1>4. CASE ~ (x.s.cancelled \/ HasRoom(x.s, x.loop.frame))
  <2>1. WaitForReceiveWindow(x) = Waits([x EXCEPT !.s.flowWaiters = @ \cup {x.loop.of}], "window")
    BY <1>4 DEF WaitForReceiveWindow
  <2>2. PICK l \in Loop : /\ l = WaitingFor(x.loop, "window") /\ l.pc = "window" /\ l.of = f
                          /\ l.frame = x.loop.frame /\ l.ahead = x.loop.ahead
    BY <1>1, WaitingForIs
  <2>3. PICK t \in Sender : /\ t = Heeding(x.s, f) /\ SameFlow(x.s, t)
                            /\ t.offered = x.s.offered /\ t.state = x.s.state
                            /\ t.cancelled = x.s.cancelled
    BY <1>1, WaitingForIs
  <2>4. Waits([x EXCEPT !.s.flowWaiters = @ \cup {x.loop.of}], "window") = WithLoop(x, t, l)
    BY <1>1, <2>2, <2>3 DEF Waits, WithLoop, WaitingFor, Heeding, LStep
  <2>5. Outcome(WithLoop(x, t, l), f, b, q)
    BY <1>2, <2>2, <2>3, HeldOutcome
  <2> QED
    BY <2>1, <2>4, <2>5
<1> QED
  BY <1>3, <1>4
\* Where a loop is before it goes on.
LEMMA Looping ==
    ASSUME Inv, NEW f \in Files
    PROVE  \E x \in LStep, b \in BOOLEAN, q \in BOOLEAN :
              /\ x = OfLoop(f) /\ x.s = sender /\ x.out = <<>> /\ x.loop = loops[f]
              /\ b <=> Begun
              /\ q <=> Quiet
              /\ Types /\ sender.id \in FileOrNone /\ SenderSide(x) /\ x.loop.of = f
              /\ frames \in Nat
              /\ \A g \in Files : LoopOK(g, loops[g])
              /\ loops[f].pc # "over" => f <= sender.id
              /\ loops[f].pc \notin {"over", "head"} => Carries(x, f)
              /\ q => QuietFinal(x, loops, b) /\ connected
              /\ b => x.s.id # None
<1>1. Types /\ sender.id \in FileOrNone /\ frames \in Nat
  BY DEF Inv, Types, Sender
<1>2. PICK x \in LStep : x = OfLoop(f)
  BY <1>1, OfSenderIs
<1>3. x.s = sender /\ x.out = <<>> /\ x.data = data /\ x.buffered = buffered /\ x.loop = loops[f]
  BY <1>1, <1>2, OfSenderIs
<1>4. PICK b \in BOOLEAN, q \in BOOLEAN : (b <=> Begun) /\ (q <=> Quiet)
  <2>1. PICK b \in BOOLEAN : b <=> Begun
    BY DEF Begun
  <2>2. PICK q \in BOOLEAN : q <=> Quiet
    BY DEF Quiet
  <2> QED
    BY <2>1, <2>2
<1>5. SenderSide(x) /\ (\A g \in Files : LoopOK(g, loops[g])) /\ (Quiet => QuietFinal(x, loops, Begun))
  BY <1>3, SenderBegins
<1>6. LoopOK(f, loops[f])
  BY <1>5
<1>7. q => QuietFinal(x, loops, b) /\ connected
  <2>1. Quiet => connected
    BY DEF Inv, QuietInv
  <2> QED
    BY <1>4, <1>5, <2>1 DEF QuietFinal, FifoIn, UnspoiltBy
<1>8. b => x.s.id # None
  BY <1>3, <1>4 DEF Begun
<1>9. loops[f].pc \notin {"over", "head"} => Carries(x, f)
  BY <1>3, <1>5, <1>6 DEF LoopOK, Carries
<1> QED
  BY <1>1, <1>2, <1>3, <1>4, <1>5, <1>6, <1>7, <1>8, <1>9 DEF LoopOK

LEMMA HoldsAtFirst ==
    ASSUME NEW x, NEW f \in Files, NEW b, QuietFinal(x, loops, b), b => x.s.id # None,
           loops[f].pc # "over"
    PROVE  HoldsIn(x, f, b)
<1>1. ~ b /\ x.s.id # None => f # x.s.id /\ Unread(x.s, loops, x.out)
  BY DEF QuietFinal, Unread
<1> QED
  BY <1>1 DEF QuietFinal, HoldsIn

LEMMA FrameAtFirst ==
    ASSUME NEW x, NEW f \in Files, NEW b, QuietFinal(x, loops, b), b => x.s.id # None,
           x.loop = loops[f], loops[f].pc \notin {"over", "head", "reading"}
    PROVE  FrameIn(x, f, b)
<1>1. HoldsIn(x, f, b)
  BY HoldsAtFirst
<1>2. ASSUME b, f = x.s.id
      PROVE  /\ x.loop.ahead = f
             /\ x.loop.frame[2] = 0 \/ HasFirst(x.s)
             /\ CleanFrame(x) \/ DoomedIn(x.s, x.loop)
  <2>1. SentIn(x.s, loops)
    BY <1>2 DEF QuietFinal
  <2>2. CleanIn(x.s, loops) => CleanFrame(x)
    BY <1>2 DEF CleanIn, CleanFrame
  <2> QED
    BY <1>2, <2>1, <2>2 DEF SentIn
<1> QED
  BY <1>1, <1>2 DEF FrameIn

LEMMA LoopStep ==
    ASSUME Inv, frames' = frames, NEW f \in Files, NEW y, LoopBecomes(f, y), Counted,
           NEW b \in BOOLEAN, b <=> Begun, NEW q \in BOOLEAN, Quiet' => q, Outcome(y, f, b, q)
    PROVE  Inv'
<1>1. Types /\ \A g \in Files : LoopOK(g, loops[g])
  BY DEF Inv, LoopInv, LoopOK
<1>2. y \in LStep /\ SenderSide(y) /\ LoopOK(f, y.loop) /\ y.loop \in Loop
  BY LStepIs DEF Outcome
<1>3. PICK L : L = [loops EXCEPT ![f] = y.loop]
  OBVIOUS
<1>4. IsLoops(L, f, y.loop)
  BY <1>1, <1>2, <1>3 DEF IsLoops, Types
<1>5. L \in [Files -> Loop] /\ \A g \in Files : LoopOK(g, L[g])
  BY <1>1, <1>2, <1>4 DEF IsLoops
<1>6. SenderMoves(y, L)
  BY <1>3 DEF LoopBecomes, SenderMoves, SenderBecomes, receiving, Counted, Fewer
<1>7. b <=> Begun'
  <2>1. y.s.id = sender.id
    BY <1>2 DEF SenderSide
  <2> QED
    BY <2>1 DEF Begun, IsAccept, LoopBecomes, SenderBecomes, receiving
<1>8. Quiet' => QuietFinal(y, L, b)
  BY <1>4 DEF Outcome
<1> QED
  BY <1>2, <1>5, <1>6, <1>7, <1>8, SenderStep

LEMMA LoopGoesOnKeeps ==
    ASSUME Inv, frames' = frames, NEW f \in Files,
           \/ WindowOpens(f) \/ PauseEnds(f) \/ BufferDrains(f) \/ ChannelIsClosed(f)
           \/ ReadFails(f) \/ BackpressureTimesOut(f)
    PROVE  Inv'
<1>1. PICK x \in LStep, b \in BOOLEAN, q \in BOOLEAN :
              /\ x = OfLoop(f) /\ x.s = sender /\ x.out = <<>> /\ x.loop = loops[f]
              /\ b <=> Begun
              /\ q <=> Quiet
              /\ Types /\ sender.id \in FileOrNone /\ SenderSide(x) /\ x.loop.of = f
              /\ frames \in Nat
              /\ \A g \in Files : LoopOK(g, loops[g])
              /\ loops[f].pc # "over" => f <= sender.id
              /\ loops[f].pc \notin {"over", "head"} => Carries(x, f)
              /\ q => QuietFinal(x, loops, b) /\ connected
              /\ b => x.s.id # None
  BY Looping
<1>2. loops[f].pc # "over" => (q => HoldsIn(x, f, b))
  BY <1>1, HoldsAtFirst
<1>3. loops[f].pc \in {"window", "buffer", "paused"} => (q => FrameIn(x, f, b))
  BY <1>1, FrameAtFirst
<1>4. CASE WindowOpens(f)
  <2>1. loops[f].pc = "window" /\ UNCHANGED <<troubles, pauses>>
    BY <1>4 DEF WindowOpens, LoopBecomes
  <2>2. PICK y : y = WaitForReceiveWindow(x)
    OBVIOUS
  <2>3. Outcome(y, f, b, q)
    BY <1>1, <1>3, <2>1, <2>2, WindowOutcome
  <2>4. LoopBecomes(f, y)
    BY <1>1, <1>4, <2>2 DEF WindowOpens
  <2>5. Counted
    BY <1>1, <2>1, CountedIs
  <2>6. Quiet' => q
    BY <1>1, <2>5 DEF Counted
  <2> QED
    BY <1>1, <2>3, <2>4, <2>5, <2>6, LoopStep
<1>5. CASE PauseEnds(f)
  <2>1. loops[f].pc \in {"head", "paused"} /\ UNCHANGED <<troubles, pauses>>
    BY <1>5 DEF PauseEnds, LoopBecomes
  <2>2. ~ q
    BY <1>1, <2>1 DEF QuietFinal
  <2>3. PICK y : y = IF loops[f].pc = "head" THEN NextRead(x) ELSE WaitUntilRunnable(x)
    OBVIOUS
  <2>4. Outcome(y, f, b, q)
    <3>1. CASE loops[f].pc = "head"
      <4>1. Outcome(NextRead(x), f, b, q)
        BY <1>1, <2>2, <3>1, NextReadOutcome
      <4> QED
        BY <2>3, <3>1, <4>1
    <3>2. CASE loops[f].pc = "paused"
      <4>1. Outcome(WaitUntilRunnable(x), f, b, q)
        BY <1>1, <2>2, <3>2, RunnableOutcome
      <4> QED
        BY <2>3, <3>2, <4>1
    <3> QED
      BY <2>1, <3>1, <3>2
  <2>5. LoopBecomes(f, y)
    BY <1>1, <1>5, <2>3 DEF PauseEnds
  <2>6. Counted
    BY <1>1, <2>1, CountedIs
  <2>7. Quiet' => q
    BY <1>1, <2>6 DEF Counted
  <2> QED
    BY <1>1, <2>4, <2>5, <2>6, <2>7, LoopStep
<1>6. CASE BufferDrains(f)
  <2>1. loops[f].pc = "buffer" /\ UNCHANGED <<troubles, pauses>>
    BY <1>6 DEF BufferDrains, LoopBecomes
  <2>2. PICK y : y = SendsFrame(x)
    OBVIOUS
  <2>3. Outcome(y, f, b, q)
    BY <1>1, <1>3, <2>1, <2>2, SendsFrameOutcome
  <2>4. LoopBecomes(f, y)
    BY <1>1, <1>6, <2>2 DEF BufferDrains
  <2>5. Counted
    BY <1>1, <2>1, CountedIs
  <2>6. Quiet' => q
    BY <1>1, <2>5 DEF Counted
  <2> QED
    BY <1>1, <2>3, <2>4, <2>5, <2>6, LoopStep
<1>7. CASE ChannelIsClosed(f) \/ ReadFails(f) \/ BackpressureTimesOut(f)
  <2>1. loops[f].pc \in {"buffer", "reading"}
    BY <1>7 DEF ChannelIsClosed, ReadFails, BackpressureTimesOut
  <2>2. PICK y : y = Throws(x)
    OBVIOUS
  <2>3. Outcome(y, f, b, q)
    BY <1>1, <1>2, <2>1, <2>2, ThrowsOutcome
  <2>4. LoopBecomes(f, y) /\ UNCHANGED pauses /\ (UNCHANGED troubles \/ Trouble)
    BY <1>1, <1>7, <2>2 DEF ChannelIsClosed, ReadFails, BackpressureTimesOut, LoopBecomes
  <2>5. Counted
    BY <1>1, <2>4, CountedIs
  <2>6. Quiet' => q
    BY <1>1, <2>5 DEF Counted
  <2> QED
    BY <1>1, <2>3, <2>4, <2>5, <2>6, LoopStep
<1> QED
  BY <1>4, <1>5, <1>6, <1>7

IsRead(x, t) ==
    t = [x.s EXCEPT !.next = IF x.s.reads = x.loop.ahead THEN @ + 1 ELSE @]

LEMMA ReadAhead ==
    ASSUME NEW x \in LStep
    PROVE  \E t \in Sender :
              /\ IsRead(x, t)
              /\ t.id = x.s.id /\ t.reads = x.s.reads /\ t.sent = x.s.sent
              /\ t.sourceHash = x.s.sourceHash /\ t.paused = x.s.paused
              /\ t.cancelled = x.s.cancelled /\ t.offered = x.s.offered /\ t.state = x.s.state
              /\ t.next = IF x.s.reads = x.loop.ahead THEN x.s.next + 1 ELSE x.s.next
<1>1. x.s \in Sender /\ x.s.next \in Nat
  BY LStepIs
<1>2. PICK n \in Nat : n = IF x.s.reads = x.loop.ahead THEN x.s.next + 1 ELSE x.s.next
  BY <1>1
<1>3. PICK t \in Sender : t = [x.s EXCEPT !.next = n]
  <2>1. \A s \in Sender : [s EXCEPT !.next = n] \in Sender
    BY DEF Sender
  <2> QED
    BY <1>1, <2>1
<1>4. IsRead(x, t)
  BY <1>1, <1>2, <1>3 DEF IsRead, Sender
<1>5. /\ t.id = x.s.id /\ t.reads = x.s.reads /\ t.sent = x.s.sent
      /\ t.sourceHash = x.s.sourceHash /\ t.paused = x.s.paused
      /\ t.cancelled = x.s.cancelled /\ t.offered = x.s.offered /\ t.state = x.s.state
      /\ t.next = n
  BY <1>1, <1>3 DEF Sender
<1> QED
  BY <1>2, <1>4, <1>5

LEMMA ReadEndsKeeps ==
    ASSUME Inv, frames' = frames, NEW f \in Files, ReadEnds(f)
    PROVE  Inv'
<1>1. PICK x \in LStep, b \in BOOLEAN, q \in BOOLEAN :
              /\ x = OfLoop(f) /\ x.s = sender /\ x.out = <<>> /\ x.loop = loops[f]
              /\ b <=> Begun
              /\ q <=> Quiet
              /\ Types /\ sender.id \in FileOrNone /\ SenderSide(x) /\ x.loop.of = f
              /\ frames \in Nat
              /\ \A g \in Files : LoopOK(g, loops[g])
              /\ loops[f].pc # "over" => f <= sender.id
              /\ loops[f].pc \notin {"over", "head"} => Carries(x, f)
              /\ q => QuietFinal(x, loops, b) /\ connected
              /\ b => x.s.id # None
  BY Looping
<1>2. loops[f].pc = "reading" /\ UNCHANGED <<troubles, pauses>> /\ Carries(x, f)
  BY <1>1 DEF ReadEnds, LoopBecomes
<1>3. PICK t \in Sender :
              /\ IsRead(x, t)
              /\ t.id = x.s.id /\ t.reads = x.s.reads /\ t.sent = x.s.sent
              /\ t.sourceHash = x.s.sourceHash /\ t.paused = x.s.paused
              /\ t.cancelled = x.s.cancelled /\ t.offered = x.s.offered /\ t.state = x.s.state
              /\ t.next = IF x.s.reads = x.loop.ahead THEN x.s.next + 1 ELSE x.s.next
  BY ReadAhead
<1>4. x \in Sides /\ x.out \in Seq(ToReceiver) /\ x.s.id = sender.id
      /\ x.s.reads \in {None, sender.id} /\ x.loop.ahead \in Files
  <2>1. x.loop.ahead = x.loop.frame[1] /\ x.loop.frame \in Payloads
    BY <1>2 DEF Carries
  <2> QED
    BY <1>1, <2>1, LStepIs, PayloadFacts DEF Sides, SenderSide
<1>5. PICK w : w = WithS(x, t)
  OBVIOUS
<1>6. /\ w \in LStep /\ w.s = t /\ w.loop = x.loop /\ w.out = x.out /\ w.data = x.data
      /\ w.buffered = x.buffered
  BY <1>4, <1>5, LikeIs DEF Like
<1>7. SenderSide(w)
  <2>1. SenderOK(t)
    BY <1>1, <1>3 DEF SenderSide, SenderOK
  <2> QED
    BY <1>1, <1>3, <1>4, <1>6, <2>1, ChangedSide
<1>8. Carries(w, f)
  BY <1>2, <1>6, <1>7 DEF Carries
<1>9. ASSUME q
      PROVE  /\ HoldsIn(w, f, b)
             /\ ~ w.s.cancelled => FrameIn(w, f, b)
  <2>1. QuietFinal(x, loops, b) /\ HoldsIn(x, f, b)
    BY <1>1, <1>2, <1>9, HoldsAtFirst
  <2>2. FinishesIn(w.s, w.out)
    <3>1. \A bytes, sha256 : FinishIn(x.s, bytes, sha256) => FinishIn(t, bytes, sha256)
      BY <1>3 DEF FinishIn
    <3> QED
      BY <1>3, <1>6, <2>1, <3>1 DEF HoldsIn, FinishesIn
  <2>3. FifoIn(w.s, w.data, b)
    BY <1>3, <1>6, <2>1 DEF HoldsIn, FifoIn, UnspoiltBy
  <2>4. HasFirst(x.s) => HasFirst(t)
    BY <1>3 DEF HasFirst
  <2>5. b /\ f # t.id => SentIn(t, loops)
    <3>1. SUFFICES ASSUME b, f # x.s.id
                   PROVE  SentIn(t, loops)
      BY <1>3
    <3>2. SentIn(x.s, loops)
      BY <2>1, <3>1 DEF HoldsIn
    <3>3. CleanIn(x.s, loops) => CleanIn(t, loops)
      <4>1. SUFFICES ASSUME CleanIn(x.s, loops)
                     PROVE  CleanIn(t, loops)
        OBVIOUS
      <4>2. x.loop.ahead # x.s.id
        BY <1>1, <1>2, <3>1, <4>1 DEF CleanIn, Others
      <4>3. x.s.reads # x.loop.ahead
        BY <1>4, <4>2, FileFacts
      <4>4. t.next = x.s.next
        BY <1>3, <4>3
      <4> QED
        BY <1>3, <4>1, <4>4 DEF CleanIn
    <3>4. DoomedIn(x.s, loops[x.s.id]) => DoomedIn(t, loops[t.id])
      BY <1>3 DEF DoomedIn, Ascending
    <3> QED
      BY <1>3, <2>4, <3>2, <3>3, <3>4 DEF SentIn
  <2>6. ~ b /\ t.id # None => f # t.id /\ Unread(t, loops, w.out)
    BY <1>3, <1>6, <2>1 DEF HoldsIn, Unread
  <2>7. HoldsIn(w, f, b)
    BY <1>1, <1>3, <1>6, <2>1, <2>2, <2>3, <2>5, <2>6 DEF HoldsIn
  <2>8. ASSUME b, f = t.id, ~ t.cancelled
        PROVE  /\ w.loop.ahead = f
               /\ w.loop.frame[2] = 0 \/ HasFirst(t)
               /\ CleanFrame(w) \/ DoomedIn(t, w.loop)
    <3>1. SentIn(x.s, loops) /\ x.s.id = f
      BY <1>3, <2>1, <2>8 DEF QuietFinal
    <3>2. /\ x.loop.ahead = f /\ (x.loop.frame[2] = 0 \/ HasFirst(x.s))
          /\ CleanIn(x.s, loops) \/ DoomedIn(x.s, x.loop)
      BY <1>1, <1>2, <3>1 DEF SentIn
    <3>3. CleanIn(x.s, loops) => CleanFrame(w)
      <4>1. SUFFICES ASSUME CleanIn(x.s, loops)
                     PROVE  CleanFrame(w)
        OBVIOUS
      <4>2. x.s.reads = f /\ x.s.next = Len(x.s.sourceHash)
        BY <1>2, <1>3, <2>8, <3>1, <4>1 DEF CleanIn
      <4>3. t.next = Len(t.sourceHash) + 1
        BY <1>3, <3>2, <4>2
      <4> QED
        BY <1>1, <1>3, <1>6, <3>1, <4>1, <4>3 DEF CleanIn, CleanFrame
    <3>4. DoomedIn(x.s, x.loop) => DoomedIn(t, w.loop)
      BY <1>3, <1>6 DEF DoomedIn, Ascending
    <3> QED
      BY <1>6, <2>4, <3>2, <3>3, <3>4
  <2> QED
    BY <1>1, <1>2, <1>6, <2>7, <2>8 DEF FrameIn
<1>10. PICK y : y = IF sender.cancelled THEN Ends(w) ELSE WaitForReceiveWindow(w)
  OBVIOUS
<1>11. Outcome(y, f, b, q)
  <2>1. CASE sender.cancelled
    <3>1. Outcome(Ends(w), f, b, q)
      BY <1>1, <1>3, <1>6, <1>7, <1>9, <2>1, EndsOutcome
    <3> QED
      BY <1>10, <2>1, <3>1
  <2>2. CASE ~ sender.cancelled
    <3>1. Outcome(WaitForReceiveWindow(w), f, b, q)
      BY <1>1, <1>3, <1>6, <1>8, <1>9, <2>2, WindowOutcome
    <3> QED
      BY <1>10, <2>2, <3>1
  <2> QED
    BY <2>1, <2>2
<1>12. LoopBecomes(f, y)
  <2>1. w = [OfLoop(f) EXCEPT !.s.next = IF OfLoop(f).s.reads = OfLoop(f).loop.ahead
                                         THEN @ + 1 ELSE @]
    <3>1. w = [x EXCEPT !.s.next = IF x.s.reads = x.loop.ahead THEN @ + 1 ELSE @]
      BY <1>3, <1>5 DEF WithS, IsRead
    <3> QED
      BY <1>1, <3>1
  <2> QED
    BY <1>10, <2>1 DEF ReadEnds
<1>13. Counted
  BY <1>1, <1>2, CountedIs
<1>14. Quiet' => q
  BY <1>1, <1>13 DEF Counted
<1> QED
  BY <1>1, <1>11, <1>12, <1>13, <1>14, LoopStep
-----------------------------------------------------------------------------
(* The start of a loop, and the rest.                                        *)

Starting(s, w) ==
    [s EXCEPT !.window = w, !.written = 0, !.sourceHash = <<>>, !.reads = s.id, !.next = 0,
              !.state = "SENDING"]

LEMMA StartingIs ==
    ASSUME NEW s \in Sender, NEW w \in Nat
    PROVE  /\ Starting(s, w) \in Sender
           /\ Starting(s, w).id = s.id /\ Starting(s, w).reads = s.id
           /\ Starting(s, w).next = 0 /\ Starting(s, w).sourceHash = <<>>
           /\ Starting(s, w).state = "SENDING" /\ Starting(s, w).sent = s.sent
           /\ Starting(s, w).paused = s.paused /\ Starting(s, w).cancelled = s.cancelled
           /\ Starting(s, w).offered = s.offered
<1>1. <<>> \in Seq(Payloads)
  OBVIOUS
<1>2. Starting(s, w) \in Sender
  BY <1>1 DEF Starting, Sender, States
<1>3. /\ Starting(s, w).id = s.id /\ Starting(s, w).reads = s.id
      /\ Starting(s, w).next = 0 /\ Starting(s, w).sourceHash = <<>>
      /\ Starting(s, w).state = "SENDING" /\ Starting(s, w).sent = s.sent
      /\ Starting(s, w).paused = s.paused /\ Starting(s, w).cancelled = s.cancelled
      /\ Starting(s, w).offered = s.offered
  BY <1>1 DEF Starting, Sender
<1> QED
  BY <1>2, <1>3

LEMMA AcceptHeardKeeps ==
    ASSUME Inv, frames' = frames, SenderHandlesControl, IsAccept(Head(toSender))
    PROVE  Inv'
<1>1. toSender \in Seq(ToSender) /\ toSender # <<>> /\ toSender' = Tail(toSender)
  BY DEF SenderHandlesControl, Inv, Types
<1>2. PICK m \in ToSender : m = Head(toSender) /\ m = toSender[1]
  BY <1>1, OneFewer
<1>3. /\ 1 \in DOMAIN toSender
      /\ \A n \in DOMAIN Tail(toSender) : /\ n + 1 \in DOMAIN toSender /\ n \in Nat /\ n >= 1
                                          /\ Tail(toSender)[n] = toSender[n + 1]
  <2>1. /\ 1 \in DOMAIN toSender
        /\ \A n \in DOMAIN Tail(toSender) : /\ n + 1 \in DOMAIN toSender
                                            /\ Tail(toSender)[n] = toSender[n + 1]
        /\ DOMAIN Tail(toSender) = 1 .. Len(toSender) - 1
    BY <1>1, OneFewer
  <2> QED
    BY <2>1
<1>4. m.type = "ACCEPT" /\ m.id = sender.id
  BY <1>2 DEF IsAccept
<1>5. m.window \in Nat /\ m.id \in Files
  BY <1>4 DEF ToSender, Signals
<1>6. PICK f \in Files : f = sender.id
  BY <1>4, <1>5
<1>7. PICK x \in LStep, b \in BOOLEAN, q \in BOOLEAN :
              /\ x = OfLoop(f) /\ x.s = sender /\ x.out = <<>> /\ x.loop = loops[f]
              /\ b <=> Begun
              /\ q <=> Quiet
              /\ Types /\ sender.id \in FileOrNone /\ SenderSide(x) /\ x.loop.of = f
              /\ frames \in Nat
              /\ \A g \in Files : LoopOK(g, loops[g])
              /\ loops[f].pc # "over" => f <= sender.id
              /\ loops[f].pc \notin {"over", "head"} => Carries(x, f)
              /\ q => QuietFinal(x, loops, b) /\ connected
              /\ b => x.s.id # None
  BY Looping
<1>8. ~ b
  BY <1>2, <1>3, <1>4, <1>7 DEF Begun, IsAccept
<1>9. sender \in Sender /\ f # None /\ f \in Nat /\ x \in Sides /\ x.out \in Seq(ToReceiver)
  BY <1>7, LStepIs, FileFacts DEF Sides
<1>10. PICK t \in Sender :
          /\ t = Starting(sender, m.window)
          /\ t.id = sender.id /\ t.reads = sender.id
          /\ t.next = 0 /\ t.sourceHash = <<>> /\ t.state = "SENDING" /\ t.sent = sender.sent
          /\ t.paused = sender.paused /\ t.cancelled = sender.cancelled
          /\ t.offered = sender.offered
  BY <1>5, <1>9, StartingIs
<1>11. PICK w : w = WithS(x, t)
  OBVIOUS
<1>12. /\ w \in LStep /\ w.s = t /\ w.loop = x.loop /\ w.out = x.out /\ w.data = x.data
       /\ w.buffered = x.buffered
  BY <1>9, <1>11, LikeIs DEF Like
<1>13. SenderSide(w)
  <2>1. Len(t.sourceHash) = 0 /\ t.sent \in Nat
    BY <1>10 DEF Sender
  <2>2. SenderOK(t)
    BY <1>10, <2>1 DEF SenderOK
  <2> QED
    BY <1>7, <1>10, <1>12, <2>2, ChangedSide
<1>14. PICK p \in ToReceiver : p = [type |-> "START", id |-> sender.id]
  BY <1>6, <1>7, <1>9, SenderSignalIs
<1>15. PICK z : z = SenderSays(w, p)
  OBVIOUS
<1>16. /\ z \in LStep /\ SenderSide(z) /\ z.loop = x.loop /\ z.data = x.data
       /\ connected => z.s = t /\ z.out = Append(x.out, p)
  <2>1. w \in Sides /\ p.type # "OFFER" /\ p.id <= sender.id
    BY <1>6, <1>9, <1>12, <1>14 DEF Sides
  <2>2. Like(w, z) /\ SenderSide(z)
        /\ (connected => z.s = w.s /\ z.out = Append(w.out, p))
    BY <1>7, <1>13, <1>15, <2>1, SenderSaysIs
  <2> QED
    BY <1>12, <2>2 DEF Like
<1>17. /\ receiver.id = sender.id /\ receiver.destination = sender.id
       /\ \A n \in DOMAIN Tail(toSender) : ~ IsAccept(Tail(toSender)[n])
  <2>1. AcceptInv /\ IsAccept(toSender[1])
    BY <1>2 DEF Inv
  <2>2. ASSUME NEW n \in DOMAIN Tail(toSender), IsAccept(Tail(toSender)[n])
        PROVE  FALSE
    <3>1. IsAccept(toSender[n + 1]) /\ n + 1 \in DOMAIN toSender
      BY <1>3, <2>2
    <3>2. n + 1 = 1
      BY <1>3, <2>1, <3>1 DEF AcceptInv
    <3> QED
      BY <1>3, <3>2
  <2> QED
    BY <1>3, <2>1, <2>2 DEF AcceptInv
<1>18. ASSUME q
       PROVE  HeadIn(z, f, TRUE)
  <2>1. /\ QuietFinal(x, loops, b) /\ connected /\ Quiet /\ UnbegunInv /\ ~ Begun
        /\ z.s = t /\ z.out = Append(x.out, p)
    BY <1>7, <1>8, <1>16, <1>18 DEF Inv
  <2>2. /\ loops[f].pc = "over"
        /\ \A g \in Files : loops[g].pc # "over" => loops[g].ahead # f
        /\ \A n \in DOMAIN toReceiver :
              toReceiver[n].type = "FINISH" => toReceiver[n].id # f
        /\ receiver.finish = NoFinish
    BY <1>6, <1>9, <1>17, <2>1 DEF UnbegunInv
  <2>3. \A n \in DOMAIN z.out : z.out[n] = p
    BY <1>7, <2>1
  <2>4. p.type = "START"
    BY <1>14
  <2>5. SaysQuietly(z.out)
    BY <2>3, <2>4 DEF SaysQuietly
  <2>6. FinishesIn(z.s, z.out)
    BY <1>6, <1>10, <2>1, <2>2, <2>3, <2>4 DEF FinishesIn
  <2>7. FifoIn(z.s, z.data, TRUE)
    <3>1. SUFFICES ASSUME UnspoiltBy(t, TRUE), t.id # None,
                          ~(receiver.id = t.id /\ receiver.cancelled)
                   PROVE  FifoIn(t, x.data, TRUE)
      BY <1>16, <2>1 DEF FifoIn
    <3>2. sender.sent = 0
      <4>1. t.sent = Len(t.sourceHash)
        BY <3>1 DEF UnspoiltBy
      <4> QED
        BY <1>10, <4>1
    <3>3. sender.sourceHash = <<>>
      <4>1. Len(sender.sourceHash) <= sender.sent
        BY <1>7 DEF SenderSide, SenderOK
      <4>2. sender.sourceHash \in Seq(Payloads)
        BY <1>9 DEF Sender
      <4>3. PICK s \in Seq(Payloads) : s = sender.sourceHash
        BY <4>2
      <4>4. Len(s) = 0
        BY <3>2, <4>1, <4>3
      <4> QED
        BY <4>3, <4>4
    <3>4. UnspoiltBy(sender, b)
      BY <3>2, <3>3 DEF UnspoiltBy
    <3>5. FifoIn(sender, x.data, b)
      BY <1>7, <2>1 DEF QuietFinal
    <3> QED
      BY <1>10, <3>1, <3>3, <3>4, <3>5 DEF FifoIn
  <2>8. CleanHead(t)
    <3>1. Len(t.sourceHash) = 0 /\ 1 .. Len(t.sourceHash) = {}
      BY <1>10
    <3>2. Others(t.id, loops)
      BY <1>6, <1>10, <2>2 DEF Others
    <3> QED
      BY <1>10, <3>1, <3>2 DEF CleanHead
  <2>9. HoldsIn(z, f, TRUE)
    BY <1>6, <1>7, <1>9, <1>10, <2>1, <2>5, <2>6, <2>7 DEF HoldsIn, QuietFinal
  <2> QED
    BY <1>6, <1>10, <2>1, <2>8, <2>9 DEF HeadIn, OwnIsDoomed
<1>19. PICK y : y = NextRead(z)
  OBVIOUS
<1>20. Outcome(y, f, TRUE, q)
  <2>1. f <= sender.id /\ z.loop.of = f
    BY <1>6, <1>7, <1>9, <1>16
  <2> QED
    BY <1>7, <1>16, <1>18, <1>19, <2>1, NextReadOutcome
<1>21. y = StartsToSend(m.window)
  <2>1. [OfLoop(sender.id) EXCEPT !.s = [sender EXCEPT !.window = m.window, !.written = 0,
             !.sourceHash = <<>>, !.reads = sender.id, !.next = 0, !.state = "SENDING"]] = w
    BY <1>6, <1>7, <1>10, <1>11 DEF WithS, Starting
  <2> QED
    BY <1>14, <1>15, <1>19, <2>1 DEF StartsToSend
<1>22. /\ SenderBecomes(y) /\ loops' = [loops EXCEPT ![f] = y.loop]
       /\ UNCHANGED <<pauses, troubles>>
  BY <1>2, <1>4, <1>6, <1>21 DEF SenderHandlesControl
<1>23. Counted
  BY <1>7, <1>22, CountedIs
<1>24. y \in LStep /\ SenderSide(y) /\ LoopOK(f, y.loop) /\ y.loop \in Loop
  BY <1>20, LStepIs DEF Outcome
<1>25. PICK L : L = [loops EXCEPT ![f] = y.loop]
  OBVIOUS
<1>26. IsLoops(L, f, y.loop)
  BY <1>7, <1>24, <1>25 DEF IsLoops, Types
<1>27. L \in [Files -> Loop] /\ \A g \in Files : LoopOK(g, L[g])
  BY <1>7, <1>24, <1>26 DEF IsLoops
<1>28. SenderMoves(y, L)
  BY <1>1, <1>22, <1>23, <1>25 DEF SenderMoves, SenderBecomes, receiving, Counted, Fewer
<1>29. Begun'
  <2>1. sender'.id = sender.id /\ receiver' = receiver
    BY <1>22, <1>24 DEF SenderBecomes, SenderSide, receiving
  <2>2. \A n \in DOMAIN toSender' : ~ IsAccept(toSender[n])'
    BY <1>1, <1>17, <2>1 DEF IsAccept
  <2> QED
    BY <1>6, <1>9, <1>17, <2>1, <2>2 DEF Begun
<1>30. Quiet' => QuietFinal(y, L, TRUE)
  <2>1. Quiet' => q
    BY <1>7, <1>23 DEF Counted
  <2> QED
    BY <1>20, <1>26, <2>1 DEF Outcome
<1> QED
  BY <1>24, <1>27, <1>28, <1>29, <1>30, SenderStep

LEMMA StillKeeps ==
    ASSUME Inv, frames' = frames, BufferEmpties \/ UNCHANGED singleVars
    PROVE  Inv'
<1>1. PICK x \in SStep, b \in BOOLEAN, L \in [Files -> Loop] :
              /\ x = OfSender /\ x.s = sender /\ x.out = <<>> /\ x.data = data
              /\ x.buffered = buffered
              /\ b <=> Begun
              /\ L = loops
              /\ Types /\ sender.id \in FileOrNone /\ sender.id \in Nat /\ sender \in Sender
              /\ SenderSide(x)
              /\ Quiet => QuietFinal(x, L, b) /\ connected
  BY Acting
<1>2. /\ UNCHANGED <<sender, receiving, loops, toReceiver, toSender, data, connected, pauses,
                     troubles>>
      /\ buffered' \in Nat
  <2>1. CASE BufferEmpties
    <3>1. buffered \in Nat /\ buffered > 0 /\ buffered' = buffered - 1
      BY <1>1, <2>1 DEF BufferEmpties, Types
    <3>2. PICK k \in Nat, c \in Int : k = buffered /\ c = buffered' /\ k > 0 /\ c = k - 1
      BY <3>1
    <3>3. buffered' \in Nat
      BY <3>2
    <3> QED
      BY <2>1, <3>3 DEF BufferEmpties
  <2>2. CASE UNCHANGED singleVars
    BY <1>1, <2>2 DEF singleVars, receiving, Types
  <2> QED
    BY <2>1, <2>2
<1>3. PICK k \in Nat : k = buffered'
  BY <1>2
<1>4. PICK y : y = [x EXCEPT !.buffered = k]
  OBVIOUS
<1>5. y.s = x.s /\ y.out = x.out /\ y.data = x.data /\ y.buffered = k
  BY <1>4 DEF SStep
<1>6. SenderSide(y)
  BY <1>1, <1>5 DEF SenderSide, Unoffered
<1>7. SenderBecomes(y)
  <2>1. toReceiver \in Seq(ToReceiver)
    BY <1>1 DEF Types
  <2>2. toReceiver \o <<>> = toReceiver
    BY <2>1, EmptyConcat
  <2> QED
    BY <1>1, <1>2, <1>3, <1>5, <2>2 DEF SenderBecomes, receiving
<1>8. Counted
  BY <1>1, <1>2, CountedIs
<1>9. Quiet' => QuietFinal(y, L, b)
  <2>1. SameFlow(x.s, y.s) /\ SaysMore(x.out, y.out)
    BY <1>5 DEF SameFlow, SaysMore
  <2> QED
    BY <1>1, <1>5, <1>8, <2>1, FlowQuiet DEF Counted
<1> QED
  BY <1>1, <1>2, <1>6, <1>7, <1>8, <1>9, SenderActs

LEMMA ConnectionBreaksKeeps ==
    ASSUME Inv, frames' = frames, ConnectionBreaks
    PROVE  Inv'
<1>1. /\ sender' = sender /\ receiver' = receiver /\ drain' = drain /\ closing' = closing
      /\ files' = files /\ loops' = loops /\ pauses' = pauses
      /\ toReceiver' = <<>> /\ toSender' = <<>> /\ data' = <<>> /\ buffered' = 0
      /\ connected' = FALSE /\ Trouble
  BY DEF ConnectionBreaks, receiving
<1>2. Types
  BY DEF Inv
<1>3. Counted /\ ~ Quiet' /\ sender.id <= 1
  BY <1>1, <1>2, CountedIs DEF Trouble
<1>4. <<>> \in Seq(ToReceiver) /\ <<>> \in Seq(ToSender) /\ <<>> \in Seq(DataFrame)
  OBVIOUS
<1>5. Types'
  BY <1>1, <1>2, <1>3, <1>4, SameFrames DEF Types, Counted
<1>6. IdsInv' /\ SenderOK(sender)' /\ DataInv' /\ AcceptInv'
  <2>1. DOMAIN toReceiver' = {} /\ DOMAIN toSender' = {} /\ DOMAIN data' = {}
    BY <1>1
  <2> QED
    BY <1>1, <2>1 DEF Inv, IdsInv, SenderOK, DataInv, AcceptInv
<1>7. \A f \in Files : LoopInv(f)'
  BY <1>1, SameFrames DEF Inv, LoopInv
<1>8. CommonOK(OfReceiver, drain)' /\ DrainOK(OfReceiver)'
  <2>1. PICK y : y = OfReceiver
    OBVIOUS
  <2>2. CommonOK(y, y.drain) /\ DrainOK(y) /\ y.r = receiver /\ y.drain = drain
        /\ y.closing = closing /\ y.files = files
    BY <2>1, BeginsAnyhow DEF Inv
  <2> QED
    BY <1>1, <2>2, CommonBecomes
<1>9. DoneInv'
  <2>1. DOMAIN toSender' = {}
    BY <1>1
  <2> QED
    BY <1>1, <2>1 DEF Inv, DoneInv, Whole, SourceOf
<1>10. sender'.id >= 2 => Quiet'
  <2>1. sender.id \in Nat
    BY <1>2, FileFacts DEF Types, Sender
  <2> QED
    BY <1>1, <1>3, <2>1
<1> QED
  BY <1>3, <1>5, <1>6, <1>7, <1>8, <1>9, <1>10 DEF Inv
LEMMA NewSenderIs ==
    ASSUME NEW f \in FileOrNone
    PROVE  /\ NewSender(f) \in Sender /\ SenderOK(NewSender(f))
           /\ NewSender(f).id = f /\ NewSender(f).reads = None /\ ~ NewSender(f).paused
           /\ NewSender(f).sourceHash = <<>> /\ NewSender(f).sent = 0
           /\ NewSender(f).state # "COMPLETED"
<1>1. <<>> \in Seq(Payloads) /\ {} \in SUBSET Files /\ None \in FileOrNone
  BY FileFacts
<1>2. NewSender(f) \in Sender
  BY <1>1 DEF NewSender, Sender, States
<1>3. /\ NewSender(f).id = f /\ NewSender(f).reads = None /\ ~ NewSender(f).paused
      /\ NewSender(f).sourceHash = <<>> /\ NewSender(f).sent = 0
      /\ NewSender(f).state = IF f = None THEN "IDLE" ELSE "READY"
  BY DEF NewSender
<1>4. Len(NewSender(f).sourceHash) = 0
  BY <1>3
<1>5. SenderOK(NewSender(f))
  BY <1>3, <1>4 DEF SenderOK
<1> QED
  BY <1>2, <1>3, <1>5

LEMMA SelectKeeps ==
    ASSUME Inv, frames' = frames, NEW f \in Files, Select(f)
    PROVE  Inv'
<1>1. /\ Types /\ sender \in Sender /\ sender.id \in FileOrNone /\ sender.id \in Nat
      /\ receiver.id \in FileOrNone /\ receiver.id \in Nat /\ f \in Nat /\ f # None
      /\ f \in FileOrNone
  <2>1. Types /\ sender \in Sender /\ receiver \in Receiver
    BY DEF Inv, Types
  <2> QED
    BY <2>1, FileFacts DEF Sender, Receiver
<1>2. f = sender.id + 1 /\ (f > 1 => pauses = 0 /\ troubles = 0)
  BY DEF Select
<1>3. PICK s \in Sender : /\ s = NewSender(f) /\ SenderOK(s) /\ s.id = f /\ s.reads = None
                          /\ ~ s.paused /\ s.sourceHash = <<>> /\ s.sent = 0
                          /\ s.state # "COMPLETED"
  BY <1>1, NewSenderIs
<1>4. PICK x : x = [OfSender EXCEPT !.s = NewSender(f)]
  OBVIOUS
<1>5. x.s = s /\ x.out = <<>> /\ x.data = data /\ x.buffered = buffered
  BY <1>3, <1>4 DEF OfSender
<1>6. /\ sender' = s /\ data' = data /\ buffered' = buffered /\ toReceiver' = toReceiver
      /\ receiver' = receiver /\ drain' = drain /\ closing' = closing /\ files' = files
      /\ connected' = connected /\ loops' = loops /\ toSender' = toSender
      /\ pauses' = pauses /\ troubles' = troubles
  <2>1. SenderBecomes(x) /\ UNCHANGED <<loops, toSender, pauses, troubles>>
    BY <1>4 DEF Select
  <2>2. toReceiver \o <<>> = toReceiver
    BY <1>1, EmptyConcat DEF Types
  <2> QED
    BY <1>5, <2>1, <2>2 DEF SenderBecomes, receiving
<1>7. receiver.id <= sender.id /\ receiver.id < f /\ receiver.id # f /\ sender.id < f
  BY <1>1, <1>2 DEF Inv, IdsInv
<1>8. \A n \in DOMAIN toReceiver : /\ toReceiver[n].id \in Nat /\ toReceiver[n].id <= sender.id
                                   /\ toReceiver[n].id <= f /\ toReceiver[n].id # f
  <2>1. TAKE n \in DOMAIN toReceiver
  <2>2. toReceiver[n] \in ToReceiver
    BY <1>1 DEF Types
  <2>3. toReceiver[n].id \in FileOrNone
    BY <2>2, FileFacts DEF ToReceiver, Signals
  <2>4. toReceiver[n].id \in Nat /\ toReceiver[n].id <= sender.id
    BY <2>3, FileFacts DEF Inv, IdsInv
  <2> QED
    BY <1>1, <1>7, <2>4
<1>9. \A n \in DOMAIN toSender : toSender[n].id # f /\ toSender[n].id <= receiver.id
  <2>1. TAKE n \in DOMAIN toSender
  <2>2. toSender[n] \in ToSender
    BY <1>1 DEF Types
  <2>3. toSender[n].id \in FileOrNone
    BY <2>2, FileFacts DEF ToSender, Signals
  <2>4. toSender[n].id \in Nat /\ toSender[n].id <= receiver.id
    BY <2>3, FileFacts DEF Inv, IdsInv
  <2> QED
    BY <1>1, <1>7, <2>4
<1>10. Types'
  BY <1>1, <1>3, <1>6, SameFrames DEF Types
<1>11. IdsInv'
  <2>1. receiver'.id <= sender'.id /\ receiver'.destination <= receiver'.id
    BY <1>1, <1>3, <1>6, <1>7 DEF Inv, IdsInv
  <2>2. sender'.reads \in {None, sender'.id}
    BY <1>3, <1>6
  <2>3. \A n \in DOMAIN toReceiver' :
            /\ toReceiver'[n].id <= sender'.id
            /\ toReceiver'[n].type = "OFFER" => receiver'.id < toReceiver'[n].id
    BY <1>3, <1>6, <1>8 DEF Inv, IdsInv
  <2>4. \A m, n \in DOMAIN toReceiver' :
            m < n /\ toReceiver'[m].type = "OFFER" /\ toReceiver'[n].type = "OFFER" =>
                toReceiver'[m].id < toReceiver'[n].id
    BY <1>6 DEF Inv, IdsInv
  <2>5. \A n \in DOMAIN toReceiver' : toReceiver'[n].id # sender'.id
    BY <1>3, <1>6, <1>8
  <2>6. receiver'.id # sender'.id /\ \A n \in DOMAIN toSender' : toSender'[n].id <= receiver'.id
    BY <1>3, <1>6, <1>7, <1>9
  <2> QED
    BY <2>1, <2>2, <2>3, <2>4, <2>5, <2>6 DEF IdsInv
<1>12. SenderOK(sender)'
  BY <1>3, <1>6 DEF SenderOK
<1>13. \A g \in Files : LoopInv(g)'
  <2>1. TAKE g \in Files
  <2>2. LoopInv(g) /\ g \in Nat
    BY FileFacts DEF Inv
  <2>3. loops[g].pc \notin {"over", "head"} => loops[g].frame[1] \in Nat
    BY <1>1, <2>2, PayloadFacts DEF LoopInv, Types
  <2> QED
    BY <1>1, <1>3, <1>6, <1>7, <2>2, <2>3, SameFrames DEF LoopInv
<1>14. \A n \in DOMAIN data : data[n].ref \in Nat /\ data[n].ref < f
  <2>1. TAKE n \in DOMAIN data
  <2>2. data[n] \in DataFrame
    BY <1>1 DEF Types
  <2>3. data[n].ref \in Nat /\ data[n].ref <= sender.id
    BY <2>2, FileFacts DEF DataFrame, Inv, DataInv
  <2> QED
    BY <1>1, <1>7, <2>3
<1>15. DataInv'
  <2>1. \A n \in DOMAIN data : data[n].ref <= f
    BY <1>1, <1>14
  <2> QED
    BY <1>3, <1>6, <2>1 DEF Inv, DataInv
<1>16. CommonOK(OfReceiver, drain)' /\ DrainOK(OfReceiver)'
  <2>1. OrderOK(OfReceiver, drain)'
    <3>1. OrderOK(OfReceiver, drain)
      BY DEF Inv, CommonOK
    <3> QED
      BY <1>6, <3>1 DEF OrderOK, OfReceiver, Accepted, CanReceiveData, Writing
  <2>2. TakenOK(OfReceiver, drain)'
    <3>1. TakenOK(OfReceiver, drain)
      BY DEF Inv, CommonOK
    <3> QED
      BY <1>6, <3>1 DEF TakenOK, OfReceiver, Accepted, Taken, Before, InWriting, Writing
  <2>3. ContentsOK(OfReceiver, drain)'
    <3>1. ContentsOK(OfReceiver, drain)
      BY DEF Inv, CommonOK
    <3> QED
      BY <1>6, <3>1 DEF ContentsOK, OfReceiver, Accepted, Taken, Before, InWriting, Writing
  <2>4. CloseOK(OfReceiver)'
    <3>1. CloseOK(OfReceiver)
      BY DEF Inv, CommonOK
    <3> QED
      BY <1>3, <1>6, <1>7, <3>1 DEF CloseOK, OfReceiver, Whole, SourceOf
  <2>5. DrainOK(OfReceiver)'
    <3>1. DrainOK(OfReceiver)
      BY DEF Inv
    <3> QED
      BY <1>6, <3>1 DEF DrainOK, ByDrainOnce, OfReceiver
  <2> QED
    BY <2>1, <2>2, <2>3, <2>4, <2>5 DEF CommonOK
<1>17. \A n \in DOMAIN toSender' : ~ IsAccept(toSender[n])'
  BY <1>3, <1>6, <1>9 DEF IsAccept
<1>18. AcceptInv'
  BY <1>17 DEF AcceptInv
<1>19. DoneInv'
  BY <1>3, <1>6, <1>9 DEF DoneInv
<1>20. sender'.id >= 2 => Quiet'
  BY <1>1, <1>2, <1>3, <1>6 DEF Quiet
<1>21. ASSUME Quiet'
       PROVE  /\ QuietOK(OfReceiver)' /\ QuietInv' /\ UnbegunInv' /\ SentInv' /\ FinishInv'
              /\ FifoOK(OfReceiver, drain, data)'
  <2>1. Quiet /\ QuietInv /\ QuietOK(OfReceiver)
    BY <1>6, <1>21 DEF Quiet, Inv
  <2>2. ~ Begun'
    BY <1>3, <1>6, <1>7 DEF Begun
  <2>3. QuietOK(OfReceiver)'
    BY <1>6, <2>1 DEF QuietOK, OfReceiver, Accepted
  <2>4. QuietInv'
    BY <1>3, <1>6, <2>1 DEF QuietInv
  <2>5. \A g \in Files : loops[g].pc # "over" => g # f /\ loops[g].ahead # f
    <3>1. SUFFICES ASSUME NEW g \in Files, loops[g].pc # "over"
                   PROVE  g # f /\ loops[g].ahead # f
      OBVIOUS
    <3>2. LoopInv(g) /\ g \in Nat /\ loops[g].pc # "head"
      BY <2>1, FileFacts DEF Inv, QuietInv
    <3>3. /\ g <= sender.id /\ loops[g].frame \in Payloads
          /\ loops[g].ahead = loops[g].frame[1] /\ loops[g].frame[1] <= sender.id
      BY <3>1, <3>2 DEF LoopInv
    <3>4. loops[g].frame[1] \in Nat
      BY <1>1, <3>3, PayloadFacts DEF Types
    <3> QED
      BY <1>1, <1>7, <3>2, <3>3, <3>4
  <2>6. UnbegunInv'
    BY <1>3, <1>6, <1>7, <1>8, <2>5 DEF UnbegunInv
  <2>7. SentInv'
    BY <2>2 DEF SentInv
  <2>8. FinishInv'
    BY <1>3, <1>6, <1>7, <1>8 DEF FinishInv
  <2>9. FifoOK(OfReceiver, drain, data)'
    <3>1. OfReceiver.r' = receiver
      BY <1>6 DEF OfReceiver
    <3>2. PICK c \in Nat : c = Len(data)
      BY <1>1 DEF Types
    <3>3. DOMAIN data = 1 .. c
      BY <1>1, <3>2 DEF Types
    <3>4. Len(s.sourceHash) - 0 = 0
      BY <1>3
    <3>5. \A n \in DOMAIN data : data[n].ref = f <=> n > c - 0
      BY <1>1, <1>14, <3>2, <3>3
    <3>6. \A n \in DOMAIN data : ~ (n > c - 0)
      BY <3>2, <3>3
    <3>7. Arriving(f, s.sourceHash, 0, data)
      BY <3>2, <3>4, <3>5, <3>6 DEF Arriving
    <3>8. sender'.id = f /\ sender'.sourceHash = s.sourceHash /\ data' = data /\ receiver'.id # f
      BY <1>3, <1>6, <1>7
    <3> QED
      BY <1>6, <3>1, <3>7, <3>8 DEF FifoOK, Arriving
  <2> QED
    BY <2>3, <2>4, <2>6, <2>7, <2>8, <2>9
<1> QED
  BY <1>10, <1>11, <1>12, <1>13, <1>15, <1>16, <1>18, <1>19, <1>20, <1>21 DEF Inv

-----------------------------------------------------------------------------
LEMMA InitInv == SingleInit => Inv
<1> SUFFICES ASSUME SingleInit
             PROVE  Inv
  OBVIOUS
<1>1. /\ frames \in Nat /\ loops = [f \in Files |-> NoLoop(f)]
      /\ drain = Idle /\ closing = {}
      /\ files = [f \in Files |-> [state |-> "none", contents |-> <<>>]]
      /\ toReceiver = <<>> /\ toSender = <<>> /\ data = <<>> /\ buffered = 0
      /\ connected = TRUE /\ pauses = 0 /\ troubles = 0
  BY SingleFileAssumption DEF SingleInit
<1>2. None \in FileOrNone /\ None \notin Files
  BY FileFacts
<1>3. /\ <<>> \in Seq(ToReceiver) /\ <<>> \in Seq(ToSender) /\ <<>> \in Seq(DataFrame)
      /\ <<>> \in Seq(Payloads)
  OBVIOUS
<1>4. /\ sender \in Sender /\ SenderOK(sender) /\ sender.id = None /\ sender.reads = None
      /\ ~ sender.paused /\ sender.sourceHash = <<>> /\ sender.sent = 0
      /\ sender.state # "COMPLETED"
  BY <1>2, NewSenderIs DEF SingleInit
<1>5. receiver = NewReceiver(None, None, <<>>, FALSE)
  BY DEF SingleInit
<1>6. /\ receiver.id = None /\ receiver.destination = None /\ receiver.state = "IDLE"
      /\ receiver.transferred = 0 /\ receiver.cancelled = FALSE /\ receiver.paused = FALSE
      /\ receiver.before = "IDLE" /\ receiver.expected = 0 /\ receiver.queue = <<>>
      /\ receiver.inFlight = 0 /\ receiver.finish = NoFinish /\ receiver.hash = <<>>
      /\ receiver.aborting = FALSE
  BY <1>5 DEF NewReceiver
<1>7. receiver \in Receiver
  <2>1. NoFinish \in [bytes : Int, sha256 : Seq(Payloads)]
    BY <1>3 DEF NoFinish
  <2> QED
    BY <1>2, <1>3, <1>5, <2>1 DEF NewReceiver, Receiver, States
<1>8. loops \in [Files -> Loop] /\ \A f \in Files : loops[f].pc = "over" /\ loops[f].of = f
  <2>1. \A f \in Files : NoLoop(f) \in Loop /\ NoLoop(f).pc = "over" /\ NoLoop(f).of = f
    BY <1>2 DEF NoLoop, Loop
  <2> QED
    BY <1>1, <2>1
<1>9. files \in [Files -> File]
  <2>1. [state |-> "none", contents |-> <<>>] \in File
    BY <1>3 DEF File
  <2> QED
    BY <1>1, <2>1
<1>10. Types
  BY <1>1, <1>3, <1>4, <1>7, <1>8, <1>9, IdleIs DEF Types
<1>11. DOMAIN toReceiver = {} /\ DOMAIN toSender = {} /\ DOMAIN data = {}
  BY <1>1
<1>12. IdsInv
  BY <1>2, <1>4, <1>6, <1>11, FileFacts DEF IdsInv
<1>13. \A f \in Files : LoopInv(f)
  BY <1>8 DEF LoopInv
<1>14. DataInv /\ AcceptInv /\ DoneInv
  BY <1>4, <1>11 DEF DataInv, AcceptInv, DoneInv
<1>15. CommonOK(OfReceiver, drain) /\ DrainOK(OfReceiver)
  <2>1. OfReceiver.r = receiver /\ OfReceiver.files = files /\ OfReceiver.closing = {}
    BY <1>1 DEF OfReceiver
  <2>2. ~ Accepted(OfReceiver) /\ ~ CanReceiveData(OfReceiver.r) /\ ~ Writing(drain)
    BY <1>1, <1>6, <2>1, IdleIs DEF Accepted, CanReceiveData
  <2>3. TakenOK(OfReceiver, drain) /\ ContentsOK(OfReceiver, drain)
    BY <2>2 DEF TakenOK, ContentsOK
  <2>4. CloseOK(OfReceiver) /\ DrainOK(OfReceiver)
    BY <1>6, <2>1 DEF CloseOK, DrainOK, ByDrainOnce
  <2>5. Len(receiver.hash) = 0
    BY <1>6
  <2>6. OrderOK(OfReceiver, drain)
    BY <1>1, <1>2, <1>6, <2>1, <2>2, <2>5, FileFacts DEF OrderOK
  <2> QED
    BY <2>3, <2>4, <2>6 DEF CommonOK
<1>16. QuietOK(OfReceiver)
  BY <1>6 DEF QuietOK, OfReceiver
<1>17. QuietInv
  BY <1>1, <1>4, <1>8, <1>11 DEF QuietInv
<1>18. ~ Begun
  BY <1>4 DEF Begun
<1>19. UnbegunInv /\ SentInv /\ FinishInv /\ FifoOK(OfReceiver, drain, data)
  BY <1>4, <1>11, <1>18 DEF UnbegunInv, SentInv, FinishInv, FifoOK
<1>20. ~ (sender.id >= 2)
  BY <1>4, FileFacts
<1> QED
  BY <1>4, <1>10, <1>12, <1>13, <1>14, <1>15, <1>16, <1>17, <1>19, <1>20 DEF Inv

LEMMA NextInv == Inv /\ [SingleNext]_singleVars => Inv'
<1> SUFFICES ASSUME Inv, [SingleNext]_singleVars
             PROVE  Inv'
  OBVIOUS
<1>1. frames' = frames
  BY DEF SingleNext, singleVars
<1>2. ASSUME NEW f \in Files, Select(f)
      PROVE  Inv'
  BY <1>1, <1>2, SelectKeeps
<1>3. ASSUME NEW f \in Files, ReadEnds(f)
      PROVE  Inv'
  BY <1>1, <1>3, ReadEndsKeeps
<1>4. ASSUME NEW f \in Files, \/ WindowOpens(f) \/ PauseEnds(f) \/ BufferDrains(f)
                              \/ ChannelIsClosed(f) \/ ReadFails(f) \/ BackpressureTimesOut(f)
      PROVE  Inv'
  BY <1>1, <1>4, LoopGoesOnKeeps
<1>5. ASSUME Offer
      PROVE  Inv'
  BY <1>1, <1>5, OfferKeeps
<1>6. ASSUME SenderCancels
      PROVE  Inv'
  BY <1>1, <1>6, SenderCancelsKeeps
<1>7. ASSUME SenderPauses \/ SenderResumes
      PROVE  Inv'
  BY <1>1, <1>7, SenderPausesKeeps
<1>8. ASSUME SenderHandlesControl
      PROVE  Inv'
  BY <1>1, <1>8, SenderHearsKeeps, AcceptHeardKeeps
<1>9. ASSUME Accept
      PROVE  Inv'
  BY <1>1, <1>9, AcceptKeeps
<1>10. ASSUME ReceiverCancels
       PROVE  Inv'
  BY <1>1, <1>10, ReceiverCancelsKeeps
<1>11. ASSUME ReceiverPauses \/ ReceiverResumes
       PROVE  Inv'
  BY <1>1, <1>11, ReceiverPausesKeeps
<1>12. ASSUME ReceiverHandlesControl
       PROVE  Inv'
  BY <1>1, <1>12, ReceiverHandlesControlKeeps
<1>13. ASSUME FrameArrives
       PROVE  Inv'
  BY <1>1, <1>13, FrameArrivesKeeps
<1>14. ASSUME WriteEnds
       PROVE  Inv'
  BY <1>1, <1>14, WriteEndsKeeps
<1>15. ASSUME WriteFails
       PROVE  Inv'
  BY <1>1, <1>15, WriteFailsKeeps
<1>16. ASSUME AbortEnds
       PROVE  Inv'
  BY <1>1, <1>16, AbortEndsKeeps
<1>17. ASSUME NEW c \in closing, CloseEnds(c)
       PROVE  Inv'
  BY <1>1, <1>17, CloseEndsKeeps
<1>18. ASSUME NEW c \in closing, CloseFails(c)
       PROVE  Inv'
  BY <1>1, <1>18, CloseFailsKeeps
<1>19. ASSUME BufferEmpties \/ UNCHANGED singleVars
       PROVE  Inv'
  BY <1>1, <1>19, StillKeeps
<1>20. ASSUME ConnectionBreaks
       PROVE  Inv'
  BY <1>1, <1>20, ConnectionBreaksKeeps
<1> QED
  BY <1>2, <1>3, <1>4, <1>5, <1>6, <1>7, <1>8, <1>9, <1>10, <1>11, <1>12, <1>13, <1>14, <1>15,
     <1>16, <1>17, <1>18, <1>19, <1>20
     DEF SingleNext, LoopGoesOn

LEMMA InvIsSource == Inv => CompletedIsSource
<1> SUFFICES ASSUME Inv
             PROVE  CompletedIsSource
  OBVIOUS
<1>1. sender.id # None /\ sender.state = "COMPLETED" => Whole(files, sender.id)
  BY DEF Inv, DoneInv
<1>2. receiver.state = "COMPLETED" /\ receiver.id = 1 => Whole(files, 1)
  BY DEF Inv, CommonOK, CloseOK, OfReceiver
<1> QED
  BY <1>1, <1>2 DEF CompletedIsSource, Whole, None

\* Whatever is paused, cancelled, selected anew or lost, and in whatever order
\* messages, frames, writes and closes come, the two sides agree on what the
\* frames that were taken are (handleData, drainWriteQueue, sendFile).
THEOREM InvHolds == SingleSpec => []Inv
<1> QED
  BY InitInv, NextInv, PTL DEF SingleSpec

\* A sender that shows COMPLETED, and a receiver of the first file that does,
\* had the file of the source closed at the receiver, as it was sent
\* (finalizeReceiverIfReady, drainWriteQueue, TRANSFER_VERIFY_OK).
THEOREM CompletedHolds == SingleSpec => []CompletedIsSource
<1> QED
  BY InvHolds, InvIsSource, PTL

=============================================================================
