------------------------------ MODULE UartProofs ------------------------------
(***************************************************************************)
(* Proofs about the UART of Uart, for all sizes of the FIFOs, settings and *)
(* numbers of words and frames:                                            *)
(*   UartTyped         TypeOK                                              *)
(*   UartEventsAgree   EventsAgree                                         *)
(*   UartWordsKept     WordsKept                                           *)
(* The two halves hardly touch each other, and the proof is in two halves: *)
(* Heard says that a function of the receiver keeps it sound and leaves    *)
(* the transmitter alone, Sent the same the other way round.  The lemmas   *)
(* speak of any value u of the UART, so that a handler which calls several *)
(* functions is covered by one lemma after the other.                      *)
(***************************************************************************)
EXTENDS Uart, FiniteSetTheorems, SequenceTheorems, TLAPS
-----------------------------------------------------------------------------
Fields == {"setting", "on", "disabled", "power", "await", "txen", "brk", "tx", "shift", "breaking",
           "active", "scheduled", "tgen", "cts", "rx", "hold", "overrun", "receiving", "rgen", "bad",
           "edges", "pin", "events", "raised", "written", "gone", "came", "taken", "halted"}

Form(u) == DOMAIN u = Fields /\ u = [field \in Fields |-> u[field]]

Flags(u) ==
    {u.on, u.disabled, u.txen, u.brk, u.breaking, u.active, u.scheduled, u.cts, u.overrun,
     u.receiving, u.bad, u.halted} \subseteq BOOLEAN

Counts(u) ==
    /\ {u.shift, u.tgen, u.rgen, u.written, u.gone, u.came, u.taken} \subseteq Nat
    /\ u.edges \in 0 .. 5

Modes(u) ==
    /\ u.setting \in Settings /\ u.power \in {"active", "idle", "sleep"}
    /\ u.await \in {"nothing", "wake", "baud"} /\ u.pin \in {"high", "low", "unreadable"}
    /\ u.events \in SUBSET UartEvent /\ u.raised \in SUBSET {"tx", "rx", "error"}

Queues(u) ==
    /\ u.tx \in Seq(Nat) /\ Len(u.tx) <= FifoSize
    /\ u.rx \in Seq(Nat) /\ Len(u.rx) <= FifoSize
    /\ u.hold \in Seq(Nat) /\ Len(u.hold) <= 1

Typed(u) == Form(u) /\ Flags(u) /\ Counts(u) /\ Modes(u) /\ Queues(u)

\* The events of either half, and those that still count.
Sends(u) == {e \in u.events : e.kind # "sample"}
Samples(u) == {e \in u.events : e.kind = "sample"}
LiveSends(u) == {e \in Sends(u) : e.generation = u.tgen}
LiveSamples(u) == {e \in Samples(u) : e.generation = u.rgen}

\* The word before the first of the FIFO.
Before(u) == u.gone + IF u.active THEN 1 ELSE 0

\* The transmitter: the frame under way has its events, of which the last to come
\* completes it, and behind it are the words in the order they were accepted.
TransmitHeld(u) ==
    /\ \A e \in Sends(u) : e.generation <= u.tgen
    /\ \A e \in LiveSends(u) : u.active /\ u.scheduled /\ e.frame = u.shift
    /\ \A e, f \in LiveSends(u) : e.kind = "pin" /\ f.kind = "transmit" => e.left < f.left
    /\ \A e, f \in LiveSends(u) : e.kind = "transmit" /\ f.kind = "transmit" => e = f
    /\ u.scheduled => \E e \in LiveSends(u) : e.kind = "transmit"
    /\ Len(u.tx) = u.written - Before(u)
    /\ \A i \in 1 .. Len(u.tx) : u.tx[i] = Before(u) + i
    /\ u.active => u.shift = u.gone + 1

\* A frame waits only for CTS, and a transmitter is on only in a UART that is.
TransmitSound(u) ==
    /\ TransmitHeld(u)
    /\ u.active /\ ~u.scheduled => u.setting.flow /\ ~u.cts
    /\ u.txen => u.on /\ ~u.disabled

\* Words wait only for a frame, or after a power state.
Sending(u) == TransmitterEnabled(u) /\ u.tx # <<>> => u.active \/ u.halted

\* The receiver: samples are of the frame under way, and what was heard is kept
\* in the order it came, up to the first word that found no room.
ReceiveSound(u) ==
    /\ \A e \in Samples(u) : e.generation <= u.rgen /\ e.phase # 0
    /\ \A e \in LiveSamples(u) : u.receiving /\ e.frame = u.rgen
    /\ \A e, f \in LiveSamples(u) : e.left - e.phase = f.left - f.phase
    /\ \A i \in 1 .. Len(u.rx) : u.rx[i] = u.taken + i
    /\ \A i \in 1 .. Len(u.hold) : u.hold[i] = u.taken + Len(u.rx) + i
    /\ ~u.overrun => u.hold = <<>> /\ u.taken + Len(u.rx) = u.came

Sound(u) == Typed(u) /\ TransmitSound(u) /\ ReceiveSound(u)

IInv == Sound(uart) /\ Sending(uart)
-----------------------------------------------------------------------------
\* What a function of one half leaves of the other.  Heard: the receiver changed,
\* Sent: the transmitter did.
TransmitKept(n, u) ==
    /\ Sends(n) = Sends(u) /\ n.tgen = u.tgen /\ n.active = u.active /\ n.scheduled = u.scheduled
    /\ n.shift = u.shift /\ n.setting = u.setting /\ n.cts = u.cts /\ n.tx = u.tx
    /\ n.written = u.written /\ n.gone = u.gone
    /\ n.txen = u.txen /\ n.on = u.on /\ n.disabled = u.disabled /\ n.halted = u.halted

ReceiveKept(n, u) ==
    /\ Samples(n) = Samples(u) /\ n.rgen = u.rgen /\ n.receiving = u.receiving /\ n.rx = u.rx
    /\ n.hold = u.hold /\ n.overrun = u.overrun /\ n.came = u.came /\ n.taken = u.taken

Unmoved(n, u) == Typed(n) /\ TransmitKept(n, u) /\ ReceiveKept(n, u)
Heard(n, u) == Typed(n) /\ TransmitKept(n, u) /\ ReceiveSound(n)
Sent(n, u) == Typed(n) /\ ReceiveKept(n, u) /\ TransmitSound(n)

LEMMA TransmitStays ==
    ASSUME NEW u, NEW n, TransmitSound(u), TransmitKept(n, u)
    PROVE  TransmitSound(n) /\ (Sending(u) => Sending(n))
<1>1. LiveSends(n) = LiveSends(u) /\ Before(n) = Before(u)
  BY DEF TransmitKept, LiveSends, Before
<1>2. TransmitSound(n)
  BY <1>1 DEF TransmitKept, TransmitSound, TransmitHeld
<1> QED BY <1>2 DEF TransmitKept, Sending, TransmitterEnabled

LEMMA ReceiveStays ==
    ASSUME NEW u, NEW n, ReceiveSound(u), ReceiveKept(n, u)
    PROVE  ReceiveSound(n)
<1>1. LiveSamples(n) = LiveSamples(u)
  BY DEF ReceiveKept, LiveSamples
<1> QED BY <1>1 DEF ReceiveKept, ReceiveSound

LEMMA RaiseKeeps ==
    ASSUME NEW u, Typed(u), NEW irqs \in SUBSET {"tx", "rx", "error"}
    PROVE  Unmoved(Raise(u, irqs), u)
<1> DEFINE n == [u EXCEPT !.raised = @ \union irqs]
<1>1. Form(n) /\ Flags(n) /\ Counts(n)
  BY DEF Typed, Form, Fields, Flags, Counts
<1>2. Modes(n) /\ Queues(n)
  BY DEF Typed, Form, Fields, Modes, Queues
<1>3. TransmitKept(n, u) /\ ReceiveKept(n, u)
  BY DEF Typed, Form, Fields, TransmitKept, ReceiveKept, Sends, Samples
<1> QED BY <1>1, <1>2, <1>3 DEF Typed, Unmoved, Raise

LEMMA NoWords ==
    /\ <<>> \in Seq(Nat) /\ Len(<<>>) = 0
    /\ \A s : s \in Seq(Nat) /\ Len(s) = 0 => s = <<>>
BY EmptySeq, LenProperties

LEMMA ClearReceiveKeeps ==
    ASSUME UartAssumption, NEW u, Typed(u), ReceiveSound(u)
    PROVE  Heard(ClearReceive(u), u)
<1> DEFINE none == <<>>
           n == [u EXCEPT !.rx = none, !.hold = none, !.overrun = FALSE, !.receiving = FALSE,
                          !.rgen = @ + 1, !.taken = u.came]
<1>1. none \in Seq(Nat) /\ Len(none) = 0 /\ FifoSize \in Nat
  BY NoWords DEF UartAssumption
<1>2. n = ClearReceive(u)
  BY DEF ClearReceive
<1> HIDE DEF none
<1>3. Form(n) /\ Flags(n) /\ Counts(n)
  <2>1. Form(n)
    BY DEF Typed, Form
  <2>2. Flags(n)
    BY DEF Typed, Form, Fields, Flags
  <2>3. Counts(n)
    BY DEF Typed, Form, Fields, Counts
  <2> QED BY <2>1, <2>2, <2>3
<1>4. Modes(n) /\ Queues(n)
  <2>1. Modes(n)
    BY <1>1 DEF Typed, Form, Fields, Modes
  <2>2. Queues(n)
    BY <1>1 DEF Typed, Form, Fields, Queues
  <2> QED BY <2>1, <2>2
<1>5. TransmitKept(n, u)
  BY DEF Typed, Form, Fields, TransmitKept, Sends
<1>6. /\ n.rx = none /\ n.hold = none /\ n.rgen = u.rgen + 1 /\ n.taken = n.came
      /\ n.came = u.came /\ n.events = u.events
  BY DEF Typed, Form, Fields
<1> HIDE DEF n
<1>7. LiveSamples(n) = {} /\ Samples(n) = Samples(u)
  BY <1>6 DEF LiveSamples, Samples, ReceiveSound, Typed, Modes, UartEvent, Counts
<1>8. ReceiveSound(n)
  <2>1. \A e \in Samples(n) : e.generation <= n.rgen /\ e.phase # 0
    BY <1>6, <1>7 DEF Samples, ReceiveSound, Typed, Modes, UartEvent, Counts
  <2>2. n.taken + Len(n.rx) = n.came
    BY <1>1, <1>3, <1>6 DEF Counts
  <2> QED BY <1>1, <1>6, <1>7, <2>1, <2>2 DEF ReceiveSound, none
<1> QED BY <1>2, <1>3, <1>4, <1>5, <1>8 DEF Typed, Heard

LEMMA CancelReceiveKeeps ==
    ASSUME NEW u, Typed(u), ReceiveSound(u)
    PROVE  Heard(CancelReceive(u), u)
<1> DEFINE n == [u EXCEPT !.receiving = FALSE, !.rgen = @ + 1, !.bad = FALSE]
<1>1. n = CancelReceive(u)
  BY DEF CancelReceive
<1>2. Form(n) /\ Flags(n) /\ Counts(n)
  <2>1. Form(n)
    BY DEF Typed, Form
  <2>2. Flags(n)
    BY DEF Typed, Form, Fields, Flags
  <2>3. Counts(n)
    BY DEF Typed, Form, Fields, Counts
  <2> QED BY <2>1, <2>2, <2>3
<1>3. Modes(n) /\ Queues(n)
  <2>1. Modes(n)
    BY DEF Typed, Form, Fields, Modes
  <2>2. Queues(n)
    BY DEF Typed, Form, Fields, Queues
  <2> QED BY <2>1, <2>2
<1>4. TransmitKept(n, u)
  BY DEF Typed, Form, Fields, TransmitKept, Sends
<1>5. /\ n.rx = u.rx /\ n.hold = u.hold /\ n.rgen = u.rgen + 1 /\ n.taken = u.taken
      /\ n.came = u.came /\ n.events = u.events /\ n.overrun = u.overrun
  BY DEF Typed, Form, Fields
<1> HIDE DEF n
<1>6. LiveSamples(n) = {} /\ Samples(n) = Samples(u)
  BY <1>5 DEF LiveSamples, Samples, ReceiveSound, Typed, Modes, UartEvent, Counts
<1>7. \A e \in Samples(n) : e.generation <= n.rgen /\ e.phase # 0
  BY <1>5, <1>6 DEF Samples, ReceiveSound, Typed, Modes, UartEvent, Counts
<1>8. ReceiveSound(n)
  BY <1>5, <1>6, <1>7 DEF ReceiveSound
<1> QED BY <1>1, <1>2, <1>3, <1>4, <1>8 DEF Typed, Heard

\* WAKE and ABAUD wait for the pin and leave both halves alone.
LEMMA AwaitKeeps ==
    ASSUME NEW u, Typed(u), NEW edges \in 0 .. 5
    PROVE  Unmoved([u EXCEPT !.edges = edges], u) /\ Unmoved(Sleepless(u), u)
<1> DEFINE n == [u EXCEPT !.edges = edges]
           m == [u EXCEPT !.await = "nothing"]
<1>1. Form(n) /\ Flags(n) /\ Counts(n)
  <2>1. Form(n)
    BY DEF Typed, Form
  <2>2. Flags(n)
    BY DEF Typed, Form, Fields, Flags
  <2>3. Counts(n)
    BY DEF Typed, Form, Fields, Counts
  <2> QED BY <2>1, <2>2, <2>3
<1>2. Modes(n) /\ Queues(n)
  <2>1. Modes(n)
    BY DEF Typed, Form, Fields, Modes
  <2>2. Queues(n)
    BY DEF Typed, Form, Fields, Queues
  <2> QED BY <2>1, <2>2
<1>3. TransmitKept(n, u) /\ ReceiveKept(n, u)
  BY DEF Typed, Form, Fields, TransmitKept, ReceiveKept, Sends, Samples
<1>4. Form(m) /\ Flags(m) /\ Counts(m)
  <2>1. Form(m)
    BY DEF Typed, Form
  <2>2. Flags(m)
    BY DEF Typed, Form, Fields, Flags
  <2>3. Counts(m)
    BY DEF Typed, Form, Fields, Counts
  <2> QED BY <2>1, <2>2, <2>3
<1>5. Modes(m) /\ Queues(m)
  <2>1. Modes(m)
    BY DEF Typed, Form, Fields, Modes
  <2>2. Queues(m)
    BY DEF Typed, Form, Fields, Queues
  <2> QED BY <2>1, <2>2
<1>6. TransmitKept(m, u) /\ ReceiveKept(m, u)
  BY DEF Typed, Form, Fields, TransmitKept, ReceiveKept, Sends, Samples
<1>7. m = Sleepless(u)
  BY DEF Sleepless
<1> HIDE DEF n, m
<1>8. Unmoved(n, u) /\ Unmoved(m, u)
  BY <1>1, <1>2, <1>3, <1>4, <1>5, <1>6 DEF Typed, Unmoved
<1> QED BY <1>7, <1>8 DEF n

LEMMA KeptTransitive ==
    ASSUME NEW u, NEW m, NEW n
    PROVE  /\ TransmitKept(n, m) /\ TransmitKept(m, u) => TransmitKept(n, u)
           /\ ReceiveKept(n, m) /\ ReceiveKept(m, u) => ReceiveKept(n, u)
BY DEF TransmitKept, ReceiveKept

LEMMA HeardRaised ==
    ASSUME NEW u, NEW m, Heard(m, u), NEW irqs \in SUBSET {"tx", "rx", "error"}
    PROVE  Heard(Raise(m, irqs), u)
<1> DEFINE n == Raise(m, irqs)
<1>1. Typed(n) /\ TransmitKept(n, m) /\ ReceiveKept(n, m)
  BY RaiseKeeps DEF Heard, Unmoved
<1> HIDE DEF n
<1>2. Heard(n, u)
  BY <1>1, KeptTransitive, ReceiveStays DEF Heard
<1> QED BY <1>2 DEF n

LEMMA UnmovedHeard ==
    ASSUME NEW u, ReceiveSound(u), NEW n, Unmoved(n, u)
    PROVE  Heard(n, u)
BY ReceiveStays DEF Unmoved, Heard

LEMMA WakeKeeps ==
    ASSUME NEW u, Typed(u), ReceiveSound(u)
    PROVE  Heard(Raise(Sleepless(u), {"rx"}), u)
<1>1. 0 \in 0 .. 5 /\ {"rx"} \in SUBSET {"tx", "rx", "error"}
  OBVIOUS
<1>2. Unmoved(Sleepless(u), u)
  BY <1>1, AwaitKeeps
<1> QED BY <1>1, <1>2, UnmovedHeard, HeardRaised

\* One more frame has come: it is appended, or held while it has no room, or lost
\* with the overrun it follows.
LEMMA ReceivedKeeps ==
    ASSUME UartAssumption, NEW u, Typed(u), ReceiveSound(u), NEW frame
    PROVE  Heard(Received(u, frame), u)
<1> DEFINE came == [u EXCEPT !.came = @ + 1]
           word == u.came + 1
           held == [came EXCEPT !.hold = <<came.came>>, !.overrun = TRUE]
           heard == [came EXCEPT !.rx = Append(@, came.came)]
           n == Received(u, frame)
<1>1. ReceiveSound(u) /\ TransmitKept(u, u) /\ ReceiveKept(u, u)
  BY DEF TransmitKept, ReceiveKept
<1>2. /\ Form(came) /\ came.came = word /\ word \in Nat /\ came.rx = u.rx /\ came.hold = u.hold
      /\ came.overrun = u.overrun
  BY DEF Typed, Form, Fields, Counts
<1>3. Typed(came)
  <2>1. Form(came) /\ Flags(came) /\ Counts(came)
    <3>1. Form(came)
      BY DEF Typed, Form
    <3>2. Flags(came)
      BY DEF Typed, Form, Fields, Flags
    <3>3. Counts(came)
      BY DEF Typed, Form, Fields, Counts
    <3> QED BY <3>1, <3>2, <3>3
  <2>2. Modes(came) /\ Queues(came)
    <3>1. Modes(came)
      BY DEF Typed, Form, Fields, Modes
    <3>2. Queues(came)
      BY DEF Typed, Form, Fields, Queues
    <3> QED BY <3>1, <3>2
  <2> QED BY <2>1, <2>2 DEF Typed
<1>4. TransmitKept(came, u)
  BY DEF Typed, Form, Fields, TransmitKept, Sends
<1>5. /\ Samples(came) = Samples(u) /\ LiveSamples(came) = LiveSamples(u) /\ came.rgen = u.rgen
      /\ came.receiving = u.receiving /\ came.taken = u.taken
  BY DEF Typed, Form, Fields, Samples, LiveSamples
<1> HIDE DEF came
<1>6. CASE u.overrun
  <2>1. ReceiveSound(came)
    BY <1>2, <1>5, <1>6 DEF ReceiveSound
  <2>2. n \in {u, came} \/ n = Raise(Sleepless(u), {"rx"})
    BY <1>6 DEF Received, came
  <2>3. Heard(u, u) /\ Heard(came, u)
    BY <1>1, <1>3, <1>4, <2>1 DEF Heard
  <2> HIDE DEF n
  <2>4. Heard(n, u)
    BY <2>2, <2>3, WakeKeeps
  <2> QED BY <2>4 DEF n
<1>7. CASE ~u.overrun
  <2>1. u.hold = <<>> /\ u.taken + Len(u.rx) = u.came /\ Len(u.rx) \in Nat /\ FifoSize \in Nat
    BY <1>7, LenProperties DEF ReceiveSound, Typed, Queues, UartAssumption
  <2>2. ASSUME Len(u.rx) = FifoSize
        PROVE  Heard(held, u)
    <3> DEFINE one == <<came.came>>
    <3>1. one \in Seq(Nat) /\ Len(one) = 1 /\ Len(one) <= 1 /\ one[1] = word
      BY <1>2
    <3>2. held = [came EXCEPT !.hold = one, !.overrun = TRUE]
      OBVIOUS
    <3> HIDE DEF one, held
    <3>3. Typed(held)
      <4>1. Form(held) /\ Flags(held) /\ Counts(held)
        <5>1. Form(held)
          BY <1>3, <3>2 DEF Typed, Form
        <5>2. Flags(held)
          BY <1>3, <3>2 DEF Typed, Form, Fields, Flags
        <5>3. Counts(held)
          BY <1>3, <3>2 DEF Typed, Form, Fields, Counts
        <5> QED BY <5>1, <5>2, <5>3
      <4>2. Modes(held) /\ Queues(held)
        <5>1. Modes(held)
          BY <1>3, <3>1, <3>2 DEF Typed, Form, Fields, Modes
        <5>2. /\ held.tx = came.tx /\ held.rx = came.rx /\ held.hold = one
          BY <1>3, <3>2 DEF Typed, Form, Fields
        <5>3. Queues(held)
          BY <1>3, <3>1, <5>2 DEF Typed, Queues
        <5> QED BY <5>1, <5>3
      <4> QED BY <4>1, <4>2 DEF Typed
    <3>4. TransmitKept(held, came)
      BY <1>3, <3>2 DEF Typed, Form, Fields, TransmitKept, Sends
    <3>5. /\ Samples(held) = Samples(came) /\ LiveSamples(held) = LiveSamples(came)
          /\ held.rgen = came.rgen /\ held.receiving = came.receiving /\ held.taken = came.taken
          /\ held.rx = came.rx /\ held.hold = one /\ held.overrun = TRUE
      BY <1>3, <3>2 DEF Typed, Form, Fields, Samples, LiveSamples
    <3>6. \A i \in 1 .. Len(held.hold) : held.hold[i] = held.taken + Len(held.rx) + i
      <4>1. word = u.taken + Len(u.rx) + 1
        BY <2>1
      <4> HIDE DEF word
      <4>2. SUFFICES ASSUME NEW i \in 1 .. 1
                     PROVE  one[i] = u.taken + Len(u.rx) + i
        <5>1. held.hold = one /\ Len(one) = 1
          BY <3>1, <3>5
        <5>2. held.taken = u.taken /\ held.rx = u.rx
          BY <1>2, <1>5, <3>5
        <5> QED BY <5>1, <5>2
      <4>3. i = 1
        OBVIOUS
      <4> QED BY <3>1, <4>1, <4>3
    <3>7. ReceiveSound(held)
      BY <1>2, <1>5, <3>5, <3>6 DEF ReceiveSound
    <3> QED BY <1>4, <3>3, <3>4, <3>7, KeptTransitive DEF Heard
  <2>3. ASSUME Len(u.rx) # FifoSize
        PROVE  Heard(heard, u)
    <3> DEFINE rx == Append(u.rx, word)
    <3>1. /\ rx \in Seq(Nat) /\ Len(rx) = Len(u.rx) + 1
          /\ \A i \in 1 .. Len(u.rx) : rx[i] = u.rx[i]
          /\ rx[Len(u.rx) + 1] = word
      BY <1>2, AppendProperties DEF Typed, Queues
    <3>2. heard = [came EXCEPT !.rx = rx]
      BY <1>2
    <3> HIDE DEF rx, heard
    <3>3. Len(rx) <= FifoSize
      BY <2>1, <2>3, <3>1 DEF Typed, Queues
    <3>4. Typed(heard)
      <4>1. Form(heard) /\ Flags(heard) /\ Counts(heard)
        <5>1. Form(heard)
          BY <1>3, <3>2 DEF Typed, Form
        <5>2. Flags(heard)
          BY <1>3, <3>2 DEF Typed, Form, Fields, Flags
        <5>3. Counts(heard)
          BY <1>3, <3>2 DEF Typed, Form, Fields, Counts
        <5> QED BY <5>1, <5>2, <5>3
      <4>2. Modes(heard) /\ Queues(heard)
        <5>1. Modes(heard)
          BY <1>3, <3>1, <3>3, <3>2 DEF Typed, Form, Fields, Modes
        <5>2. Queues(heard)
          BY <1>3, <3>1, <3>3, <3>2 DEF Typed, Form, Fields, Queues
        <5> QED BY <5>1, <5>2
      <4> QED BY <4>1, <4>2 DEF Typed
    <3>5. TransmitKept(heard, came)
      BY <1>3, <3>2 DEF Typed, Form, Fields, TransmitKept, Sends
    <3>6. /\ Samples(heard) = Samples(came) /\ LiveSamples(heard) = LiveSamples(came)
          /\ heard.rgen = came.rgen /\ heard.receiving = came.receiving /\ heard.taken = came.taken
          /\ heard.rx = rx /\ heard.hold = came.hold /\ heard.overrun = came.overrun
          /\ heard.came = came.came
      BY <1>3, <3>2 DEF Typed, Form, Fields, Samples, LiveSamples
    <3>7. \A i \in 1 .. Len(rx) : rx[i] = u.taken + i
      <4>1. \A i \in 1 .. Len(u.rx) : u.rx[i] = u.taken + i
        BY DEF ReceiveSound
      <4>2. word = u.taken + (Len(u.rx) + 1)
        BY <2>1 DEF Typed, Counts
      <4>3. Len(u.rx) \in Nat
        BY <2>1 DEF Typed, Queues
      <4> HIDE DEF word
      <4>4. ASSUME NEW i \in 1 .. Len(rx) PROVE rx[i] = u.taken + i
        <5>1. CASE i = Len(u.rx) + 1
          <6>1. rx[i] = word
            BY <3>1, <5>1
          <6> QED BY <4>2, <5>1, <6>1
        <5>2. CASE i # Len(u.rx) + 1
          <6>1. i \in 1 .. Len(u.rx)
            BY <3>1, <4>3, <5>2
          <6> QED BY <3>1, <4>1, <6>1
        <5> QED BY <5>1, <5>2
      <4> QED BY <4>4
    <3>8. u.taken + Len(rx) = word
      <4>1. word = u.taken + (Len(u.rx) + 1)
        BY <2>1 DEF Typed, Counts
      <4>2. Len(rx) = Len(u.rx) + 1
        BY <3>1
      <4> HIDE DEF word
      <4> QED BY <4>1, <4>2
    <3> HIDE DEF word
    <3>9. ReceiveSound(heard)
      BY <1>2, <1>5, <2>1, <3>6, <3>7, <3>8, NoWords DEF ReceiveSound
    <3> QED BY <1>4, <3>4, <3>5, <3>9, KeptTransitive DEF Heard
  <2>4. \/ n = u \/ n = Raise(Sleepless(u), {"rx"})
        \/ Len(u.rx) = FifoSize /\ n = Raise(held, {"error"})
        \/ Len(u.rx) # FifoSize /\ \E irqs \in SUBSET {"rx", "error"} : n = Raise(heard, irqs)
    <3> DEFINE irqs == (IF Len(u.rx) + 1 >= u.setting.threshold THEN {"rx"} ELSE {})
                       \union (IF frame.bad THEN {"error"} ELSE {})
    <3>1. irqs \in SUBSET {"rx", "error"}
      OBVIOUS
    <3>2. \/ n = u \/ n = Raise(Sleepless(u), {"rx"})
          \/ Len(u.rx) = FifoSize /\ n = Raise(held, {"error"})
          \/ Len(u.rx) # FifoSize /\ n = Raise(heard, irqs)
      BY <1>7 DEF Received, came
    <3> QED BY <3>1, <3>2
  <2> HIDE DEF n, held, heard
  <2>5. n = u \/ n = Raise(Sleepless(u), {"rx"}) => Heard(n, u)
    BY <1>1, WakeKeeps DEF Heard
  <2>6. Len(u.rx) = FifoSize /\ n = Raise(held, {"error"}) => Heard(n, u)
    <3>1. {"error"} \in SUBSET {"tx", "rx", "error"}
      OBVIOUS
    <3> QED BY <2>2, <3>1, HeardRaised
  <2>7. ASSUME Len(u.rx) # FifoSize, NEW irqs \in SUBSET {"rx", "error"}, n = Raise(heard, irqs)
        PROVE  Heard(n, u)
    <3>1. irqs \in SUBSET {"tx", "rx", "error"}
      OBVIOUS
    <3> QED BY <2>3, <2>7, <3>1, HeardRaised
  <2>8. Heard(n, u)
    BY <2>4, <2>5, <2>6, <2>7
  <2> QED BY <2>8 DEF n
<1>8. u.overrun \in BOOLEAN
  BY DEF Typed, Flags
<1> QED BY <1>6, <1>7, <1>8

\* A start bit has its samples, one a bit, all of the new generation.
LEMMA BeginReceiveKeeps ==
    ASSUME NEW u, Typed(u), ReceiveSound(u)
    PROVE  Heard(BeginReceive(u), u)
<1> DEFINE samples == {[kind |-> "sample", generation |-> u.rgen + 1, phase |-> i, left |-> i,
                        frame |-> u.rgen + 1] : i \in 1..Len(Bits)}
           events == u.events \union samples
           n == [u EXCEPT !.receiving = TRUE, !.bad = FALSE, !.rgen = @ + 1, !.events = events]
<1>1. n = BeginReceive(u)
  BY DEF BeginReceive, Typed, Form, Fields
<1>2. u.rgen \in Nat /\ u.events \in SUBSET UartEvent /\ Len(Bits) = 3
  BY DEF Typed, Counts, Modes, Bits
<1>3. \A e \in samples : /\ e \in UartEvent /\ e.kind = "sample" /\ e.generation = u.rgen + 1
                         /\ e.frame = u.rgen + 1 /\ e.phase # 0 /\ e.left - e.phase = 0
  BY <1>2 DEF UartEvent
<1> HIDE DEF samples
<1>4. events \in SUBSET UartEvent
  BY <1>2, <1>3
<1>5. /\ {e \in events : e.kind # "sample"} = Sends(u)
      /\ {e \in events : e.kind = "sample"} = Samples(u) \union samples
  BY <1>3 DEF Sends, Samples
<1> HIDE DEF events
<1>6. Typed(n)
  <2>1. Form(n)
    BY <1>4 DEF Typed, Form
  <2>2. Flags(n)
    BY <1>4 DEF Typed, Form, Fields, Flags
  <2>3. Counts(n)
    BY <1>4 DEF Typed, Form, Fields, Counts
  <2>4. Modes(n)
    BY <1>4 DEF Typed, Form, Fields, Modes
  <2>5. Queues(n)
    BY <1>4 DEF Typed, Form, Fields, Queues
  <2> QED BY <2>1, <2>2, <2>3, <2>4, <2>5 DEF Typed
<1>7. /\ n.events = events /\ n.rgen = u.rgen + 1 /\ n.receiving = TRUE /\ n.rx = u.rx
      /\ n.hold = u.hold /\ n.taken = u.taken /\ n.came = u.came /\ n.overrun = u.overrun
  BY DEF Typed, Form, Fields
<1>8. TransmitKept(n, u)
  BY <1>5 DEF Typed, Form, Fields, TransmitKept, Sends
<1> HIDE DEF n
<1>9. Samples(n) = Samples(u) \union samples
  BY <1>5, <1>7 DEF Samples
<1>10. \A e \in Samples(u) : e.generation \in Nat /\ e.generation <= u.rgen /\ e.phase # 0
  BY <1>2 DEF Samples, UartEvent, ReceiveSound
<1>11. \A e \in Samples(n) : e.generation <= n.rgen /\ e.phase # 0
  BY <1>2, <1>3, <1>7, <1>9, <1>10
<1>12. LiveSamples(n) \subseteq samples
  BY <1>2, <1>7, <1>9, <1>10 DEF LiveSamples
<1>13. ReceiveSound(n)
  BY <1>3, <1>7, <1>11, <1>12 DEF ReceiveSound
<1> QED BY <1>1, <1>6, <1>8, <1>13 DEF Heard

\* The stop bit is sampled last, so nothing is left of the frame it ends.
LEMMA SampleKeeps ==
    ASSUME UartAssumption, NEW u, Typed(u), ReceiveSound(u),
           NEW event \in UartEvent, event.phase # 0,
           event.generation = u.rgen /\ event.phase = Len(Bits) => LiveSamples(u) = {}
    PROVE  Heard(Sample(u, event), u)
<1> DEFINE ended == [u EXCEPT !.receiving = FALSE]
           frame == [address |-> TRUE, bad |-> u.pin = "low"]
<1>1. Len(Bits) = 3 /\ Bits[1] = "start" /\ Bits[2] = "data" /\ Bits[3] = "stop"
  BY DEF Bits
<1>2. event.phase \in {1, 2, 3}
  BY <1>1 DEF UartEvent
<1>3. Heard(u, u) /\ Heard(CancelReceive(u), u)
  BY CancelReceiveKeeps DEF Heard, TransmitKept
<1>4. ASSUME event.generation = u.rgen, event.phase = 3
      PROVE  Heard(Received(ended, frame), u)
  <2>1. Typed(ended)
    <3>1. Form(ended)
      BY DEF Typed, Form
    <3>2. Flags(ended)
      BY DEF Typed, Form, Fields, Flags
    <3>3. Counts(ended)
      BY DEF Typed, Form, Fields, Counts
    <3>4. Modes(ended)
      BY DEF Typed, Form, Fields, Modes
    <3>5. Queues(ended)
      BY DEF Typed, Form, Fields, Queues
    <3> QED BY <3>1, <3>2, <3>3, <3>4, <3>5 DEF Typed
  <2>2. TransmitKept(ended, u)
    BY DEF Typed, Form, Fields, TransmitKept, Sends
  <2>3. /\ Samples(ended) = Samples(u) /\ ended.rgen = u.rgen /\ ended.rx = u.rx
        /\ ended.hold = u.hold /\ ended.taken = u.taken /\ ended.came = u.came
        /\ ended.overrun = u.overrun
    BY DEF Typed, Form, Fields, Samples
  <2> HIDE DEF ended, frame
  <2>4. LiveSamples(ended) = {}
    BY <1>1, <1>4, <2>3 DEF LiveSamples
  <2>5. ReceiveSound(ended)
    BY <2>3, <2>4 DEF ReceiveSound
  <2>6. Heard(Received(ended, frame), ended)
    BY <2>1, <2>5, ReceivedKeeps
  <2> QED BY <2>2, <2>6, KeptTransitive DEF Heard
<1>5. \/ Sample(u, event) = u \/ Sample(u, event) = CancelReceive(u)
      \/ event.generation = u.rgen /\ event.phase = 3 /\ Sample(u, event) = Received(ended, frame)
  BY <1>1, <1>2 DEF Sample
<1> DEFINE n == Sample(u, event)
<1> HIDE DEF n, ended, frame
<1>6. Heard(n, u)
  BY <1>3, <1>4, <1>5 DEF n
<1> QED BY <1>6 DEF n

LEMMA AutoBaudEdgeKeeps ==
    ASSUME NEW u, Typed(u), ReceiveSound(u), NEW rises
    PROVE  Heard(AutoBaudEdge(u, rises), u)
<1> DEFINE n == AutoBaudEdge(u, rises)
<1>1. u.edges \in 0 .. 5 /\ {"rx"} \in SUBSET {"tx", "rx", "error"}
  BY DEF Typed, Counts
<1>2. Heard(u, u)
  BY DEF Heard, TransmitKept
<1>3. ASSUME NEW edges \in 0 .. 5
      PROVE  Heard([u EXCEPT !.edges = edges], u)
  BY AwaitKeeps, UnmovedHeard
<1>4. Heard(Raise(ResetAutoBaud(Sleepless(u)), {"rx"}), u)
  <2> DEFINE awake == Sleepless(u)
             reset == ResetAutoBaud(awake)
  <2>1. Unmoved(awake, u)
    BY <1>1, AwaitKeeps
  <2>2. Typed(awake)
    BY <2>1 DEF Unmoved
  <2> HIDE DEF awake
  <2>3. Unmoved(reset, awake)
    <3>1. 0 \in 0 .. 5
      OBVIOUS
    <3> QED BY <2>2, <3>1, AwaitKeeps DEF ResetAutoBaud
  <2> HIDE DEF reset
  <2>4. Unmoved(reset, u)
    BY <2>1, <2>3, KeptTransitive DEF Unmoved
  <2>5. Heard(Raise(reset, {"rx"}), u)
    BY <1>1, <2>4, UnmovedHeard, HeardRaised
  <2> QED BY <2>5 DEF reset, awake
<1>5. \/ n = u \/ n = Raise(ResetAutoBaud(Sleepless(u)), {"rx"})
      \/ \E edges \in 0 .. 5 : n = [u EXCEPT !.edges = edges]
  <2> DEFINE first == IF u.edges = 0 THEN 1 ELSE u.edges
             next == u.edges + 1
  <2>1. first \in 0 .. 5 /\ (u.edges < 5 => next \in 0 .. 5)
    BY <1>1
  <2>2. \/ n = u \/ n = Raise(ResetAutoBaud(Sleepless(u)), {"rx"})
        \/ n = [u EXCEPT !.edges = first]
        \/ u.edges < 5 /\ n = [u EXCEPT !.edges = next]
    BY DEF AutoBaudEdge, Typed, Form, Fields
  <2> HIDE DEF n, first, next
  <2> QED BY <2>1, <2>2
<1> HIDE DEF n
<1>6. Heard(n, u)
  BY <1>2, <1>3, <1>4, <1>5
<1> QED BY <1>6 DEF n

LEMMA PinEdgeKeeps ==
    ASSUME NEW u, Typed(u), ReceiveSound(u), NEW rises
    PROVE  Heard(PinEdge(u, rises), u)
<1> DEFINE n == PinEdge(u, rises)
<1>1. {"rx"} \in SUBSET {"tx", "rx", "error"} /\ 0 \in 0 .. 5
  OBVIOUS
<1>2. Heard(u, u)
  BY DEF Heard, TransmitKept
<1>3. Heard(Raise(u, {"rx"}), u)
  BY <1>1, <1>2, HeardRaised
<1>4. Heard(Sleepless(u), u)
  BY <1>1, AwaitKeeps, UnmovedHeard
<1>5. Heard(AutoBaudEdge(u, rises), u) /\ Heard(BeginReceive(u), u)
  BY AutoBaudEdgeKeeps, BeginReceiveKeeps
<1>6. n \in {u, Raise(u, {"rx"}), Sleepless(u), AutoBaudEdge(u, rises), BeginReceive(u)}
  BY DEF PinEdge
<1> HIDE DEF n
<1>7. Heard(n, u)
  BY <1>2, <1>3, <1>4, <1>5, <1>6
<1> QED BY <1>7 DEF n

\* The events of a frame that starts are the only ones that count.
LEMMA ScheduleTransmitKeeps ==
    ASSUME UartAssumption, NEW u, Typed(u), TransmitHeld(u), u.txen => u.on /\ ~u.disabled
    PROVE  Sent(ScheduleTransmit(u), u) /\ (Sending(u) => Sending(ScheduleTransmit(u)))
<1> DEFINE n == ScheduleTransmit(u)
           frame == TransmitEvents(u)
           events == u.events \union frame
           m == [u EXCEPT !.scheduled = TRUE, !.events = events]
<1>1. u.tgen \in Nat /\ u.shift \in Nat /\ u.events \in SUBSET UartEvent /\ Len(Bits) = 3
  BY DEF Typed, Counts, Modes, Bits
<1>2. \A e \in frame : /\ e \in UartEvent /\ e.kind \in {"pin", "transmit"} /\ e.generation = u.tgen
                       /\ e.frame = u.shift /\ (e.kind = "pin" => e.left < 4)
                       /\ (e.kind = "transmit" => e.left = 4)
  BY <1>1 DEF TransmitEvents, UartEvent
<1>3. \E e \in frame : e.kind = "transmit"
  <2> DEFINE e == [kind |-> "transmit", generation |-> u.tgen, phase |-> 0, left |-> Len(Bits) + 1,
                   frame |-> u.shift]
  <2>1. e \in frame /\ e.kind = "transmit"
    BY DEF TransmitEvents
  <2> QED BY <2>1
<1>4. \A e, f \in frame : e.kind = "transmit" /\ f.kind = "transmit" => e = f
  BY DEF TransmitEvents
<1>5. n \in {u, m} /\ (n = u => ~u.active \/ u.scheduled \/ ~CtsAllows(u))
      /\ (n = m => (u.active /\ ~u.scheduled) \/ m = u)
  BY DEF ScheduleTransmit, Typed, Form, Fields
<1> HIDE DEF n, frame
<1>6. events \in SUBSET UartEvent
  BY <1>1, <1>2
<1>7. /\ {e \in events : e.kind # "sample"} = Sends(u) \union frame
      /\ {e \in events : e.kind = "sample"} = Samples(u)
  BY <1>2 DEF Sends, Samples
<1> HIDE DEF events
<1>8. Typed(m)
  <2>1. Form(m)
    BY <1>6 DEF Typed, Form
  <2>2. Flags(m)
    BY <1>6 DEF Typed, Form, Fields, Flags
  <2>3. Counts(m)
    BY <1>6 DEF Typed, Form, Fields, Counts
  <2>4. Modes(m)
    BY <1>6 DEF Typed, Form, Fields, Modes
  <2>5. Queues(m)
    BY <1>6 DEF Typed, Form, Fields, Queues
  <2> QED BY <2>1, <2>2, <2>3, <2>4, <2>5 DEF Typed
<1>9. /\ m.events = events /\ m.tgen = u.tgen /\ m.active = u.active /\ m.scheduled = TRUE
      /\ m.shift = u.shift /\ m.setting = u.setting /\ m.cts = u.cts /\ m.tx = u.tx
      /\ m.written = u.written /\ m.gone = u.gone /\ m.txen = u.txen /\ m.on = u.on
      /\ m.disabled = u.disabled /\ m.halted = u.halted
  BY DEF Typed, Form, Fields
<1>10. ReceiveKept(m, u)
  BY <1>7 DEF Typed, Form, Fields, ReceiveKept, Samples
<1> HIDE DEF m
<1>11. ASSUME u.active, ~u.scheduled
       PROVE  TransmitSound(m)
  <2>1. Sends(m) = Sends(u) \union frame /\ Before(m) = Before(u)
    BY <1>7, <1>9 DEF Sends, Before
  <2>2. LiveSends(u) = {}
    BY <1>11 DEF TransmitHeld
  <2>3. LiveSends(m) = frame
    BY <1>2, <1>9, <2>1, <2>2 DEF LiveSends
  <2>4. \A e \in Sends(m) : e.generation <= m.tgen
    BY <1>1, <1>2, <1>9, <2>1 DEF TransmitHeld
  <2>5. \A e, f \in LiveSends(m) : e.kind = "pin" /\ f.kind = "transmit" => e.left < f.left
    BY <1>2, <2>3
  <2>6. TransmitHeld(m)
    BY <1>2, <1>3, <1>4, <1>9, <1>11, <2>1, <2>3, <2>4, <2>5 DEF TransmitHeld
  <2> QED BY <1>9, <2>6 DEF TransmitSound
<1>12. u.active \in BOOLEAN /\ u.scheduled \in BOOLEAN
  BY DEF Typed, Flags
<1>13. CASE n = m
  <2>1. (u.active /\ ~u.scheduled) \/ m = u
    BY <1>5, <1>13
  <2>2. m = u => u.scheduled
    BY <1>9
  <2>3. TransmitSound(m)
    BY <1>11, <2>1, <2>2 DEF TransmitSound
  <2>4. Sending(u) => Sending(m)
    BY <1>9 DEF Sending, TransmitterEnabled
  <2>5. Sent(m, u)
    BY <1>8, <1>10, <2>3 DEF Sent
  <2> QED BY <1>13, <2>4, <2>5 DEF n
<1>14. CASE n = u
  <2>1. TransmitSound(u) /\ ReceiveKept(u, u)
    BY <1>5, <1>14 DEF TransmitSound, CtsAllows, ReceiveKept
  <2> QED BY <1>14, <2>1 DEF n, Sent
<1> QED BY <1>5, <1>13, <1>14

\* A frame starts with the first word of the FIFO, which is the one after the last
\* that left.
LEMMA StartTransmitKeeps ==
    ASSUME UartAssumption, NEW u, Typed(u), TransmitSound(u)
    PROVE  Sent(StartTransmit(u), u) /\ Sending(StartTransmit(u))
<1> DEFINE n == StartTransmit(u)
           word == Head(u.tx)
           rest == Tail(u.tx)
           m == [u EXCEPT !.shift = word, !.tx = rest, !.breaking = u.brk,
                          !.active = TRUE, !.halted = FALSE]
           told == IF ~u.brk /\ (u.setting.every \/ m.tx = <<>>) THEN {"tx"} ELSE {}
           r == Raise(m, told)
<1>1. n = IF CanStart(u) THEN ScheduleTransmit(r) ELSE u
  BY DEF StartTransmit, Typed, Form, Fields
<1>2. told \in SUBSET {"tx", "rx", "error"}
  OBVIOUS
<1> HIDE DEF told, n
<1>3. CASE ~CanStart(u)
  <2>1. Sending(u)
    BY <1>3 DEF CanStart, Sending
  <2>2. Sent(u, u)
    BY DEF Sent, ReceiveKept
  <2> QED BY <1>1, <1>3, <2>1, <2>2 DEF n
<1>4. CASE CanStart(u)
  <2>1. /\ u.tx \in Seq(Nat) /\ u.tx # <<>> /\ Len(u.tx) \in Nat /\ Len(u.tx) <= FifoSize
        /\ FifoSize \in Nat /\ ~u.active
    BY <1>4, LenProperties DEF CanStart, Typed, Queues, UartAssumption
  <2>2. /\ rest \in Seq(Nat) /\ Len(rest) = Len(u.tx) - 1 /\ word = u.tx[1] /\ word \in Nat
        /\ Len(u.tx) >= 1 /\ \A i \in 1 .. Len(rest) : rest[i] = u.tx[i + 1]
    BY <2>1, HeadTailProperties
  <2>3. Len(rest) <= FifoSize
    BY <2>1, <2>2
  <2> HIDE DEF word, rest
  <2>4. Typed(m)
    <3>1. Form(m)
      BY <2>2, <2>3 DEF Typed, Form
    <3>2. Flags(m)
      BY <2>2, <2>3 DEF Typed, Form, Fields, Flags
    <3>3. Counts(m)
      BY <2>2, <2>3 DEF Typed, Form, Fields, Counts
    <3>4. Modes(m)
      BY <2>2, <2>3 DEF Typed, Form, Fields, Modes
    <3>5. Queues(m)
      BY <2>2, <2>3 DEF Typed, Form, Fields, Queues
    <3> QED BY <3>1, <3>2, <3>3, <3>4, <3>5 DEF Typed
  <2>5. /\ m.events = u.events /\ m.tgen = u.tgen /\ m.active = TRUE /\ m.scheduled = u.scheduled
        /\ m.shift = word /\ m.setting = u.setting /\ m.cts = u.cts /\ m.tx = rest
        /\ m.written = u.written /\ m.gone = u.gone /\ m.txen = u.txen /\ m.on = u.on
        /\ m.disabled = u.disabled
    BY DEF Typed, Form, Fields
  <2>6. ReceiveKept(m, u)
    BY DEF Typed, Form, Fields, ReceiveKept, Samples
  <2> HIDE DEF m
  <2>7. LiveSends(u) = {} /\ ~u.scheduled
    BY <2>1 DEF TransmitSound, TransmitHeld
  <2>8. Sends(m) = Sends(u) /\ LiveSends(m) = {}
    BY <2>5, <2>7 DEF Sends, LiveSends
  <2>9. Before(u) = u.gone /\ Before(m) = u.gone + 1 /\ u.gone \in Nat /\ u.written \in Nat
    BY <2>1, <2>5 DEF Before, Typed, Counts
  <2>10. Len(u.tx) = u.written - u.gone /\ \A i \in 1 .. Len(u.tx) : u.tx[i] = u.gone + i
    BY <2>9 DEF TransmitSound, TransmitHeld
  <2>11. word = u.gone + 1
    BY <2>2, <2>9, <2>10
  <2>12. Len(m.tx) = m.written - Before(m)
    BY <2>2, <2>5, <2>9, <2>10
  <2>13. \A i \in 1 .. Len(m.tx) : m.tx[i] = Before(m) + i
    <3>1. SUFFICES ASSUME NEW i \in 1 .. Len(rest)
                   PROVE  rest[i] = u.gone + 1 + i
      BY <2>5, <2>9
    <3>2. i + 1 \in 1 .. Len(u.tx) /\ rest[i] = u.tx[i + 1]
      BY <2>1, <2>2
    <3>3. u.tx[i + 1] = u.gone + (i + 1)
      BY <2>10, <3>2
    <3>4. rest[i] = u.gone + (i + 1)
      BY <3>2, <3>3
    <3>5. i \in Int /\ u.gone \in Int
      BY <2>9
    <3>6. u.gone + (i + 1) = u.gone + 1 + i
      BY <3>5
    <3> QED BY <3>4, <3>6
  <2>14. TransmitHeld(m)
    BY <2>5, <2>7, <2>8, <2>11, <2>12, <2>13 DEF TransmitSound, TransmitHeld
  <2>15. Unmoved(r, m)
    BY <1>2, <2>4, RaiseKeeps
  <2> HIDE DEF r
  <2>16. Typed(r) /\ TransmitKept(r, m) /\ ReceiveKept(r, m)
    BY <2>15 DEF Unmoved
  <2>17. TransmitHeld(r)
    <3>1. LiveSends(r) = LiveSends(m) /\ Before(r) = Before(m)
      BY <2>16 DEF TransmitKept, LiveSends, Before
    <3> QED BY <2>14, <2>16, <3>1 DEF TransmitKept, TransmitHeld
  <2>18. (r.txen => r.on /\ ~r.disabled) /\ Sending(r)
    BY <2>5, <2>16 DEF TransmitSound, TransmitKept, Sending
  <2>19. Sent(ScheduleTransmit(r), r) /\ Sending(ScheduleTransmit(r))
    BY <2>16, <2>17, <2>18, ScheduleTransmitKeeps
  <2>20. ReceiveKept(r, u)
    BY <2>6, <2>16, KeptTransitive
  <2>21. Sent(ScheduleTransmit(r), u)
    BY <2>19, <2>20, KeptTransitive DEF Sent
  <2>22. n = ScheduleTransmit(r)
    BY <1>1, <1>4
  <2> QED BY <2>19, <2>21, <2>22 DEF n
<1> QED BY <1>3, <1>4

\* Both halves hold nothing and no event of either counts.
Silent(n, u) ==
    /\ Typed(n) /\ TransmitHeld(n) /\ ReceiveSound(n)
    /\ n.txen = FALSE /\ n.active = FALSE
    /\ n.on = u.on /\ n.disabled = u.disabled /\ n.written = u.written

LEMMA SilentSound ==
    ASSUME NEW u, NEW n, Silent(n, u)
    PROVE  Sound(n) /\ Sending(n)
BY DEF Silent, Sound, Sending, TransmitSound, TransmitterEnabled

LEMMA ClearTransmitKeeps ==
    ASSUME UartAssumption, NEW u, Typed(u), TransmitHeld(u)
    PROVE  /\ Typed(ClearTransmit(u)) /\ TransmitHeld(ClearTransmit(u))
           /\ ReceiveKept(ClearTransmit(u), u)
           /\ ClearTransmit(u).tx = <<>> /\ ClearTransmit(u).active = FALSE
           /\ ClearTransmit(u).txen = u.txen /\ ClearTransmit(u).on = u.on
           /\ ClearTransmit(u).disabled = u.disabled /\ ClearTransmit(u).written = u.written
           /\ ClearTransmit(u).setting = u.setting /\ ClearTransmit(u).halted = u.halted
<1> DEFINE none == <<>>
           n == [u EXCEPT !.tx = none, !.shift = 0, !.active = FALSE, !.scheduled = FALSE,
                          !.tgen = @ + 1, !.gone = u.written]
<1>1. none \in Seq(Nat) /\ Len(none) = 0 /\ FifoSize \in Nat /\ 0 <= FifoSize
  BY NoWords DEF UartAssumption
<1>2. n = ClearTransmit(u)
  BY DEF ClearTransmit
<1>3. none = <<>>
  OBVIOUS
<1> HIDE DEF none
<1>4. Typed(n)
  <2>1. Form(n)
    BY <1>1 DEF Typed, Form
  <2>2. Flags(n)
    BY <1>1 DEF Typed, Form, Fields, Flags
  <2>3. Counts(n)
    BY <1>1 DEF Typed, Form, Fields, Counts
  <2>4. Modes(n)
    BY <1>1 DEF Typed, Form, Fields, Modes
  <2>5. Queues(n)
    BY <1>1 DEF Typed, Form, Fields, Queues
  <2> QED BY <2>1, <2>2, <2>3, <2>4, <2>5 DEF Typed
<1>5. ReceiveKept(n, u)
  BY DEF Typed, Form, Fields, ReceiveKept, Samples
<1>6. /\ n.events = u.events /\ n.tgen = u.tgen + 1 /\ n.active = FALSE /\ n.scheduled = FALSE
      /\ n.tx = none /\ n.written = u.written /\ n.gone = u.written /\ n.txen = u.txen
      /\ n.on = u.on /\ n.disabled = u.disabled /\ n.setting = u.setting /\ n.halted = u.halted
  BY DEF Typed, Form, Fields
<1> HIDE DEF n
<1>7. u.tgen \in Nat /\ u.written \in Nat /\ \A e \in Sends(u) : e.generation \in Nat
  BY DEF Typed, Counts, Modes, Sends, UartEvent
<1>8. Sends(n) = Sends(u) /\ Before(n) = u.written + 0
  BY <1>6 DEF Sends, Before
<1>9. \A e \in Sends(n) : e.generation <= n.tgen /\ e.generation # n.tgen
  BY <1>6, <1>7, <1>8 DEF TransmitHeld
<1>10. LiveSends(n) = {}
  BY <1>9 DEF LiveSends
<1>11. Len(n.tx) = n.written - Before(n) /\ Len(n.tx) = 0
  BY <1>1, <1>6, <1>7, <1>8
<1>12. TransmitHeld(n)
  BY <1>6, <1>9, <1>10, <1>11 DEF TransmitHeld
<1>13. n.tx = <<>>
  BY <1>3, <1>6
<1> QED BY <1>2, <1>4, <1>5, <1>6, <1>12, <1>13

LEMMA ResetRuntimeSilences ==
    ASSUME UartAssumption, NEW u, Typed(u), TransmitHeld(u), ReceiveSound(u)
    PROVE  Silent(ResetRuntime(u), u)
<1> DEFINE c == ClearTransmit(u)
           d == ClearReceive(c)
           n == [d EXCEPT !.txen = FALSE, !.brk = FALSE, !.halted = FALSE]
<1>1. /\ Typed(c) /\ TransmitHeld(c) /\ ReceiveKept(c, u) /\ c.active = FALSE
      /\ c.on = u.on /\ c.disabled = u.disabled /\ c.written = u.written
  BY ClearTransmitKeeps
<1> HIDE DEF c
<1>2. ReceiveSound(c)
  BY <1>1, ReceiveStays
<1>3. Heard(d, c)
  BY <1>1, <1>2, ClearReceiveKeeps
<1>4. n = ResetRuntime(u)
  BY DEF ResetRuntime, c
<1> HIDE DEF d
<1>5. /\ Typed(d) /\ ReceiveSound(d) /\ TransmitHeld(d) /\ d.active = FALSE
      /\ d.on = u.on /\ d.disabled = u.disabled /\ d.written = u.written
  <2>1. LiveSends(d) = LiveSends(c) /\ Before(d) = Before(c)
    BY <1>3 DEF Heard, TransmitKept, LiveSends, Before
  <2>2. TransmitHeld(d)
    BY <1>1, <1>3, <2>1 DEF Heard, TransmitKept, TransmitHeld
  <2> QED BY <1>1, <1>3, <2>2 DEF Heard, TransmitKept
<1>6. Typed(n)
  <2>1. Form(n)
    BY <1>5 DEF Typed, Form
  <2>2. Flags(n)
    BY <1>5 DEF Typed, Form, Fields, Flags
  <2>3. Counts(n)
    BY <1>5 DEF Typed, Form, Fields, Counts
  <2>4. Modes(n)
    BY <1>5 DEF Typed, Form, Fields, Modes
  <2>5. Queues(n)
    BY <1>5 DEF Typed, Form, Fields, Queues
  <2> QED BY <2>1, <2>2, <2>3, <2>4, <2>5 DEF Typed
<1>7. /\ n.events = d.events /\ n.tgen = d.tgen /\ n.active = d.active /\ n.scheduled = d.scheduled
      /\ n.shift = d.shift /\ n.tx = d.tx /\ n.written = d.written /\ n.gone = d.gone
      /\ n.txen = FALSE /\ n.on = d.on /\ n.disabled = d.disabled
  BY <1>5 DEF Typed, Form, Fields
<1>8. ReceiveKept(n, d)
  BY <1>5 DEF Typed, Form, Fields, ReceiveKept, Samples
<1> HIDE DEF n
<1>9. Sends(n) = Sends(d) /\ LiveSends(n) = LiveSends(d) /\ Before(n) = Before(d)
  BY <1>7 DEF Sends, LiveSends, Before
<1>10. TransmitHeld(n)
  BY <1>5, <1>7, <1>9 DEF TransmitHeld
<1>11. ReceiveSound(n)
  BY <1>5, <1>8, ReceiveStays
<1>12. Silent(n, u)
  BY <1>5, <1>6, <1>7, <1>10, <1>11 DEF Silent
<1> QED BY <1>4, <1>12

\* The words of a transmitter that was off are still the last that were accepted.
LEMMA DisableModuleSilences ==
    ASSUME UartAssumption, NEW u, Typed(u), TransmitHeld(u), ReceiveSound(u)
    PROVE  Silent(DisableModule(u), u)
<1> DEFINE r == ResetRuntime(u)
           words == u.tx
           gone == u.written - Len(u.tx)
           n == [r EXCEPT !.tx = words, !.gone = gone]
<1>1. Silent(r, u)
  BY ResetRuntimeSilences
<1>2. DisableModule(u) = IF u.txen THEN r ELSE n
  BY DEF DisableModule
<1> HIDE DEF r
<1>3. /\ u.gone \in Nat /\ u.written \in Nat /\ words \in Seq(Nat) /\ Len(words) \in Nat
      /\ Len(words) <= FifoSize
  BY LenProperties DEF Typed, Counts, Queues
<1>4. gone = Before(u) /\ gone \in Nat
  BY <1>3 DEF TransmitHeld, Before
<1>5. \A i \in 1 .. Len(words) : words[i] = gone + i
  BY <1>4 DEF TransmitHeld
<1>6. gone = u.written - Len(words)
  OBVIOUS
<1> HIDE DEF words, gone
<1>7. Typed(r)
  BY <1>1 DEF Silent
<1>8. Typed(n)
  <2>1. Form(n)
    BY <1>3, <1>4, <1>7 DEF Typed, Form
  <2>2. Flags(n)
    BY <1>3, <1>4, <1>7 DEF Typed, Form, Fields, Flags
  <2>3. Counts(n)
    BY <1>3, <1>4, <1>7 DEF Typed, Form, Fields, Counts
  <2>4. Modes(n)
    BY <1>3, <1>4, <1>7 DEF Typed, Form, Fields, Modes
  <2>5. Queues(n)
    BY <1>3, <1>4, <1>7 DEF Typed, Form, Fields, Queues
  <2> QED BY <2>1, <2>2, <2>3, <2>4, <2>5 DEF Typed
<1>9. /\ n.events = r.events /\ n.tgen = r.tgen /\ n.active = r.active /\ n.scheduled = r.scheduled
      /\ n.shift = r.shift /\ n.tx = words /\ n.written = r.written /\ n.gone = gone
      /\ n.txen = r.txen /\ n.on = r.on /\ n.disabled = r.disabled
  BY <1>7 DEF Typed, Form, Fields
<1>10. ReceiveKept(n, r)
  BY <1>7 DEF Typed, Form, Fields, ReceiveKept, Samples
<1> HIDE DEF n
<1>11. Sends(n) = Sends(r) /\ LiveSends(n) = LiveSends(r)
  BY <1>9 DEF Sends, LiveSends
<1>12. Before(n) = gone /\ n.written = u.written /\ n.active = FALSE
  BY <1>1, <1>4, <1>9 DEF Before, Silent
<1>13. Len(n.tx) = n.written - Before(n) /\ \A i \in 1 .. Len(n.tx) : n.tx[i] = Before(n) + i
  <2>1. Len(words) = u.written - gone
    BY <1>3, <1>4, <1>6
  <2> QED BY <1>5, <1>9, <1>12, <2>1
<1>14. TransmitHeld(n)
  BY <1>1, <1>9, <1>11, <1>12, <1>13 DEF TransmitHeld, Silent
<1>15. ReceiveSound(n)
  BY <1>1, <1>10, ReceiveStays DEF Silent
<1>16. Silent(n, u)
  BY <1>1, <1>8, <1>9, <1>12, <1>14, <1>15 DEF Silent
<1> DEFINE d == DisableModule(u)
<1>17. d = r \/ d = n
  BY <1>2
<1> HIDE DEF d
<1>18. Silent(d, u)
  BY <1>1, <1>16, <1>17
<1> QED BY <1>18 DEF d

\* A power state that stops the UART drops the frame of either half, and the
\* words behind it wait.
LEMMA PowerBecomesKeeps ==
    ASSUME UartAssumption, NEW u, Sound(u), Sending(u),
           NEW power \in {"active", "idle", "sleep"}
    PROVE  Sound(PowerBecomes(u, power)) /\ Sending(PowerBecomes(u, power))
<1> DEFINE silent == IF u.receiving THEN CancelReceive(u) ELSE u
           dropped == [silent EXCEPT !.tgen = @ + 1, !.active = FALSE, !.scheduled = FALSE,
                                     !.shift = 0, !.gone = u.shift, !.halted = TRUE]
           idle == IF u.active THEN dropped ELSE silent
           reset == [idle EXCEPT !.edges = 0]
           last == IF Stopped(u, power) THEN reset ELSE u
           n == [last EXCEPT !.power = power]
<1>1. PowerBecomes(u, power) = n
  BY DEF PowerBecomes, ResetAutoBaud
<1>2. Typed(u) /\ TransmitSound(u) /\ ReceiveSound(u)
  BY DEF Sound
<1>3. Heard(silent, u)
  BY <1>2, CancelReceiveKeeps DEF Heard, TransmitKept
<1> HIDE DEF silent
<1>4. Typed(silent) /\ ReceiveSound(silent) /\ TransmitKept(silent, u)
  BY <1>3 DEF Heard
<1>5. TransmitSound(silent) /\ Sending(silent)
  BY <1>2, <1>4, TransmitStays
<1>6. u.shift \in Nat /\ silent.active = u.active /\ silent.shift = u.shift
  BY <1>2, <1>4 DEF Typed, Counts, TransmitKept
<1>7. ASSUME u.active
      PROVE  Sound(dropped) /\ Sending(dropped)
  <2>1. Typed(dropped)
    <3>1. Form(dropped)
      BY <1>4, <1>6 DEF Typed, Form
    <3>2. Flags(dropped)
      BY <1>4, <1>6 DEF Typed, Form, Fields, Flags
    <3>3. Counts(dropped)
      BY <1>4, <1>6 DEF Typed, Form, Fields, Counts
    <3>4. Modes(dropped)
      BY <1>4, <1>6 DEF Typed, Form, Fields, Modes
    <3>5. Queues(dropped)
      BY <1>4, <1>6 DEF Typed, Form, Fields, Queues
    <3> QED BY <3>1, <3>2, <3>3, <3>4, <3>5 DEF Typed
  <2>2. /\ dropped.events = silent.events /\ dropped.tgen = silent.tgen + 1
        /\ dropped.active = FALSE /\ dropped.scheduled = FALSE /\ dropped.tx = silent.tx
        /\ dropped.written = silent.written /\ dropped.gone = u.shift
        /\ dropped.txen = silent.txen /\ dropped.on = silent.on
        /\ dropped.disabled = silent.disabled /\ dropped.halted = TRUE
    BY <1>4 DEF Typed, Form, Fields
  <2>3. ReceiveKept(dropped, silent)
    BY <1>4 DEF Typed, Form, Fields, ReceiveKept, Samples
  <2> HIDE DEF dropped
  <2>4. /\ silent.tgen \in Nat /\ silent.gone \in Nat /\ silent.active = TRUE
        /\ \A e \in Sends(silent) : e.generation \in Nat
    BY <1>4, <1>6, <1>7 DEF Typed, Flags, Counts, Modes, Sends, UartEvent
  <2>5. Sends(dropped) = Sends(silent) /\ Before(dropped) = u.shift + 0
    BY <2>2 DEF Sends, Before
  <2>6. \A e \in Sends(dropped) : e.generation <= dropped.tgen /\ e.generation # dropped.tgen
    BY <1>5, <2>2, <2>4, <2>5 DEF TransmitSound, TransmitHeld
  <2>7. LiveSends(dropped) = {}
    BY <2>6 DEF LiveSends
  <2>8. silent.shift = silent.gone + 1
    BY <1>5, <2>4 DEF TransmitSound, TransmitHeld
  <2>9. Before(silent) = Before(dropped)
    BY <1>6, <2>4, <2>5, <2>8 DEF Before
  <2>10. TransmitHeld(dropped)
    BY <1>5, <2>2, <2>6, <2>7, <2>9 DEF TransmitSound, TransmitHeld
  <2>11. TransmitSound(dropped) /\ Sending(dropped)
    BY <1>5, <2>2, <2>10 DEF TransmitSound, Sending
  <2>12. ReceiveSound(dropped)
    BY <1>4, <2>3, ReceiveStays
  <2> QED BY <2>1, <2>11, <2>12 DEF Sound
<1> HIDE DEF dropped
<1>8. Sound(idle) /\ Sending(idle)
  BY <1>4, <1>5, <1>7 DEF Sound
<1> HIDE DEF idle
<1>9. Sound(reset) /\ Sending(reset)
  <2>1. 0 \in 0 .. 5 /\ Typed(idle)
    BY <1>8 DEF Sound
  <2>2. Unmoved(reset, idle)
    BY <2>1, AwaitKeeps
  <2> HIDE DEF reset
  <2>3. Typed(reset) /\ TransmitSound(reset) /\ Sending(reset) /\ ReceiveSound(reset)
    BY <1>8, <2>2, TransmitStays, ReceiveStays DEF Unmoved, Sound
  <2> QED BY <2>3 DEF Sound
<1> HIDE DEF reset
<1>10. Sound(last) /\ Sending(last)
  BY <1>9
<1> HIDE DEF last
<1>11. Typed(last)
  BY <1>10 DEF Sound
<1>12. Typed(n)
  <2>1. Form(n)
    BY <1>11 DEF Typed, Form
  <2>2. Flags(n)
    BY <1>11 DEF Typed, Form, Fields, Flags
  <2>3. Counts(n)
    BY <1>11 DEF Typed, Form, Fields, Counts
  <2>4. Modes(n)
    BY <1>11 DEF Typed, Form, Fields, Modes
  <2>5. Queues(n)
    BY <1>11 DEF Typed, Form, Fields, Queues
  <2> QED BY <2>1, <2>2, <2>3, <2>4, <2>5 DEF Typed
<1>13. TransmitKept(n, last) /\ ReceiveKept(n, last)
  BY <1>11 DEF Typed, Form, Fields, TransmitKept, ReceiveKept, Sends, Samples
<1> HIDE DEF n
<1>14. TransmitSound(n) /\ Sending(n) /\ ReceiveSound(n)
  BY <1>10, <1>13, TransmitStays, ReceiveStays DEF Sound
<1>15. Sound(n)
  BY <1>12, <1>14 DEF Sound
<1> QED BY <1>1, <1>14, <1>15

\* The completion of the frame under way is the last of its events, so none is
\* left that counts when the next frame starts.
LEMMA TransmitCompleteKeeps ==
    ASSUME UartAssumption, NEW u, Typed(u), ReceiveSound(u),
           NEW event,
           u.active /\ u.scheduled => LiveSends(u) = {} \/ event.generation # u.tgen,
           event.generation # u.tgen \/ ~u.active \/ ~u.scheduled => TransmitSound(u),
           \A e \in Sends(u) : e.generation <= u.tgen,
           u.txen => u.on /\ ~u.disabled,
           Len(u.tx) = u.written - Before(u),
           \A i \in 1 .. Len(u.tx) : u.tx[i] = Before(u) + i,
           u.active => u.shift = u.gone + 1
    PROVE  /\ Sound(TransmitComplete(u, event))
           /\ Sending(u) => Sending(TransmitComplete(u, event))
<1> DEFINE sent == [u EXCEPT !.active = FALSE, !.scheduled = FALSE, !.gone = u.shift]
           frame == [address |-> TRUE, bad |-> u.breaking]
           looped == IF u.setting.loopback THEN Received(sent, frame) ELSE sent
           next == IF u.breaking THEN [looped EXCEPT !.brk = FALSE] ELSE looped
           stale == event.generation # u.tgen \/ ~u.active \/ ~u.scheduled
           n == TransmitComplete(u, event)
<1>1. n = IF stale THEN u ELSE StartTransmit(next)
  BY DEF TransmitComplete
<1> HIDE DEF n
<1>2. CASE stale
  <2>1. TransmitSound(u)
    BY <1>2
  <2> QED BY <1>1, <1>2, <2>1 DEF Sound, n
<1>3. CASE ~stale
  <2>1. u.active /\ u.scheduled /\ LiveSends(u) = {}
    BY <1>3
  <2> HIDE DEF stale
  <2>2. Typed(sent)
    <3>1. Form(sent)
      BY DEF Typed, Form
    <3>2. Flags(sent)
      BY DEF Typed, Form, Fields, Flags
    <3>3. Counts(sent)
      BY DEF Typed, Form, Fields, Counts
    <3>4. Modes(sent)
      BY DEF Typed, Form, Fields, Modes
    <3>5. Queues(sent)
      BY DEF Typed, Form, Fields, Queues
    <3> QED BY <3>1, <3>2, <3>3, <3>4, <3>5 DEF Typed
  <2>3. /\ sent.events = u.events /\ sent.tgen = u.tgen /\ sent.active = FALSE
        /\ sent.scheduled = FALSE /\ sent.tx = u.tx /\ sent.written = u.written
        /\ sent.gone = u.shift /\ sent.txen = u.txen /\ sent.on = u.on
        /\ sent.disabled = u.disabled
    BY DEF Typed, Form, Fields
  <2>4. ReceiveKept(sent, u)
    BY DEF Typed, Form, Fields, ReceiveKept, Samples
  <2> HIDE DEF sent
  <2>5. Sends(sent) = Sends(u) /\ LiveSends(sent) = {}
    BY <2>1, <2>3 DEF Sends, LiveSends
  <2>6. Before(sent) = u.shift + 0 /\ Before(u) = u.gone + 1 /\ u.shift \in Nat
    BY <2>1, <2>3 DEF Before, Typed, Counts
  <2>7. Before(sent) = Before(u)
    BY <2>1, <2>6
  <2>8. TransmitSound(sent)
    BY <2>3, <2>5, <2>7 DEF TransmitHeld, TransmitSound
  <2>9. ReceiveSound(sent)
    BY <2>4, ReceiveStays
  <2>10. Heard(looped, sent)
    BY <2>2, <2>9, ReceivedKeeps DEF Heard, TransmitKept
  <2> HIDE DEF looped
  <2>11. Typed(looped) /\ ReceiveSound(looped) /\ TransmitSound(looped)
    BY <2>8, <2>10, TransmitStays DEF Heard
  <2>12. Unmoved(next, looped)
    <3> DEFINE m == [looped EXCEPT !.brk = FALSE]
    <3>1. Typed(m)
      <4>1. Form(m)
        BY <2>11 DEF Typed, Form
      <4>2. Flags(m)
        BY <2>11 DEF Typed, Form, Fields, Flags
      <4>3. Counts(m)
        BY <2>11 DEF Typed, Form, Fields, Counts
      <4>4. Modes(m)
        BY <2>11 DEF Typed, Form, Fields, Modes
      <4>5. Queues(m)
        BY <2>11 DEF Typed, Form, Fields, Queues
      <4> QED BY <4>1, <4>2, <4>3, <4>4, <4>5 DEF Typed
    <3>2. TransmitKept(m, looped) /\ ReceiveKept(m, looped)
      BY <2>11 DEF Typed, Form, Fields, TransmitKept, ReceiveKept, Sends, Samples
    <3>3. TransmitKept(looped, looped) /\ ReceiveKept(looped, looped)
      BY DEF TransmitKept, ReceiveKept
    <3> HIDE DEF m
    <3>4. Unmoved(m, looped) /\ Unmoved(looped, looped)
      BY <2>11, <3>1, <3>2, <3>3 DEF Unmoved
    <3> QED BY <3>4 DEF m
  <2> HIDE DEF next
  <2>13. Typed(next) /\ ReceiveSound(next) /\ TransmitSound(next)
    BY <2>11, <2>12, TransmitStays, ReceiveStays DEF Unmoved
  <2>14. Sent(StartTransmit(next), next) /\ Sending(StartTransmit(next))
    BY <2>13, StartTransmitKeeps
  <2>15. n = StartTransmit(next)
    BY <1>1, <1>3 DEF stale
  <2>16. Sent(n, next) /\ Sending(n)
    BY <2>14, <2>15
  <2>17. ReceiveSound(n)
    BY <2>13, <2>16, ReceiveStays DEF Sent
  <2>18. Sound(n)
    BY <2>16, <2>17 DEF Sent, Sound
  <2> QED BY <2>16, <2>18 DEF n
<1> QED BY <1>2, <1>3

-----------------------------------------------------------------------------
\* A step starts from a state without the interrupts of the last.
LEMMA NowSound ==
    ASSUME IInv
    PROVE  /\ Typed(Now) /\ TransmitSound(Now) /\ ReceiveSound(Now) /\ Sending(Now)
           /\ TransmitKept(Now, uart) /\ ReceiveKept(Now, uart)
           /\ Now.events = uart.events /\ Now.power = uart.power /\ Now.await = uart.await
           /\ Now.pin = uart.pin
<1> DEFINE n == [uart EXCEPT !.raised = {}]
<1>1. Typed(uart) /\ TransmitSound(uart) /\ ReceiveSound(uart) /\ Sending(uart)
  BY DEF IInv, Sound
<1>2. Typed(n)
  <2>1. Form(n)
    BY <1>1 DEF Typed, Form
  <2>2. Flags(n)
    BY <1>1 DEF Typed, Form, Fields, Flags
  <2>3. Counts(n)
    BY <1>1 DEF Typed, Form, Fields, Counts
  <2>4. Modes(n)
    BY <1>1 DEF Typed, Form, Fields, Modes
  <2>5. Queues(n)
    BY <1>1 DEF Typed, Form, Fields, Queues
  <2> QED BY <2>1, <2>2, <2>3, <2>4, <2>5 DEF Typed
<1>3. /\ TransmitKept(n, uart) /\ ReceiveKept(n, uart)
      /\ n.events = uart.events /\ n.power = uart.power /\ n.await = uart.await
      /\ n.pin = uart.pin
  BY <1>1 DEF Typed, Form, Fields, TransmitKept, ReceiveKept, Sends, Samples
<1>4. n = Now
  BY DEF Now
<1> HIDE DEF n
<1>5. TransmitSound(n) /\ Sending(n) /\ ReceiveSound(n)
  BY <1>1, <1>3, TransmitStays, ReceiveStays
<1> QED BY <1>2, <1>3, <1>4, <1>5

LEMMA StepSound ==
    ASSUME NEW n, uart' = n, Sound(n), Sending(n)
    PROVE  IInv'
<1>1. Sound(uart') /\ Sending(uart')
  OBVIOUS
<1> QED BY <1>1 DEF IInv, Sound, Sending, Typed, Form, Flags, Counts, Modes, Queues, TransmitSound,
              TransmitHeld, ReceiveSound, TransmitterEnabled, LiveSends, LiveSamples, Sends,
              Samples, Before

\* The program turns the UART off or on, or changes what it waits for.
LEMMA WriteModeKeeps ==
    ASSUME UartAssumption, IInv, NEW on \in BOOLEAN, NEW await \in {"nothing", "wake", "baud"},
           NEW format \in BOOLEAN, WriteMode(on, await, format)
    PROVE  IInv'
<1> DEFINE o == Now
           written == [o EXCEPT !.on = on, !.await = await]
           counted == IF (await = "baud") # (uart.await = "baud")
                      THEN ResetAutoBaud(written) ELSE written
           heard == IF uart.receiving /\ (format \/ on # uart.on)
                    THEN CancelReceive(counted) ELSE counted
           n == IF uart.on /\ ~on THEN DisableModule(heard) ELSE heard
<1>1. uart' = n
  BY DEF WriteMode
<1>2. /\ Typed(o) /\ TransmitSound(o) /\ ReceiveSound(o) /\ Sending(o)
      /\ o.on = uart.on /\ uart.on \in BOOLEAN
  BY NowSound DEF IInv, Sound, Typed, Flags, TransmitKept
<1> HIDE DEF o
<1>3. Typed(written)
  <2>1. Form(written)
    BY <1>2 DEF Typed, Form
  <2>2. Flags(written)
    BY <1>2 DEF Typed, Form, Fields, Flags
  <2>3. Counts(written)
    BY <1>2 DEF Typed, Form, Fields, Counts
  <2>4. Modes(written)
    BY <1>2 DEF Typed, Form, Fields, Modes
  <2>5. Queues(written)
    BY <1>2 DEF Typed, Form, Fields, Queues
  <2> QED BY <2>1, <2>2, <2>3, <2>4, <2>5 DEF Typed
<1>4. /\ written.on = on /\ written.txen = o.txen /\ written.disabled = o.disabled
      /\ written.active = o.active /\ written.tx = o.tx /\ written.halted = o.halted
      /\ written.events = o.events /\ written.tgen = o.tgen /\ written.scheduled = o.scheduled
      /\ written.shift = o.shift /\ written.setting = o.setting /\ written.cts = o.cts
      /\ written.written = o.written /\ written.gone = o.gone
  BY <1>2 DEF Typed, Form, Fields
<1>5. ReceiveKept(written, o)
  BY <1>2 DEF Typed, Form, Fields, ReceiveKept, Samples
<1> HIDE DEF written
<1>6. LiveSends(written) = LiveSends(o) /\ Sends(written) = Sends(o) /\ Before(written) = Before(o)
  BY <1>4 DEF LiveSends, Sends, Before
<1>7. TransmitHeld(written) /\ ReceiveSound(written)
  BY <1>2, <1>4, <1>5, <1>6, ReceiveStays DEF TransmitSound, TransmitHeld
<1>8. Heard(counted, written)
  <2>1. Heard(written, written)
    BY <1>3, <1>7 DEF Heard, TransmitKept
  <2>2. 0 \in 0 .. 5
    OBVIOUS
  <2>3. Unmoved(ResetAutoBaud(written), written)
    BY <1>3, <2>2, AwaitKeeps DEF ResetAutoBaud
  <2>4. Heard(ResetAutoBaud(written), written)
    BY <1>7, <2>3, UnmovedHeard
  <2> QED BY <2>1, <2>4
<1> HIDE DEF counted
<1>9. Heard(heard, written)
  BY <1>8, CancelReceiveKeeps, KeptTransitive DEF Heard
<1> HIDE DEF heard
<1>10. TransmitHeld(heard) /\ Typed(heard) /\ ReceiveSound(heard)
  <2>1. LiveSends(heard) = LiveSends(written) /\ Before(heard) = Before(written)
    BY <1>9 DEF Heard, TransmitKept, LiveSends, Before
  <2> QED BY <1>7, <1>9, <2>1 DEF Heard, TransmitKept, TransmitHeld
<1>11. CASE uart.on /\ ~on
  <2>1. Silent(DisableModule(heard), heard)
    BY <1>10, DisableModuleSilences
  <2>2. Silent(n, heard)
    BY <1>11, <2>1
  <2> HIDE DEF n
  <2> QED BY <1>1, <2>2, SilentSound, StepSound
<1>12. CASE ~(uart.on /\ ~on)
  <2>1. n = heard
    BY <1>12
  <2>2. /\ heard.on = on /\ heard.txen = o.txen /\ heard.disabled = o.disabled
        /\ heard.active = o.active /\ heard.tx = o.tx /\ heard.halted = o.halted
        /\ heard.scheduled = o.scheduled /\ heard.setting = o.setting /\ heard.cts = o.cts
    BY <1>4, <1>9 DEF Heard, TransmitKept
  <2>3. TransmitSound(heard) /\ Sending(heard)
    BY <1>2, <1>10, <1>12, <2>2 DEF TransmitSound, Sending, TransmitterEnabled
  <2>4. Sound(heard)
    BY <1>10, <2>3 DEF Sound
  <2> QED BY <1>1, <2>1, <2>3, <2>4, StepSound
<1> QED BY <1>11, <1>12

LEMMA WriteStatusKeeps ==
    ASSUME UartAssumption, IInv, NEW txen \in BOOLEAN, NEW brk \in BOOLEAN,
           NEW overrun \in BOOLEAN, WriteStatus(txen, brk, overrun)
    PROVE  IInv'
<1> DEFINE o == Now
           enable == txen /\ uart.on
           break == brk /\ uart.on
           written == [o EXCEPT !.txen = enable, !.brk = break]
           cleared == IF uart.overrun /\ ~overrun THEN ClearReceive(written) ELSE written
           raised == Raise(cleared, {"tx"})
           n == CASE uart.txen /\ ~cleared.txen -> ClearTransmit(cleared)
                  [] ~uart.txen /\ cleared.txen -> StartTransmit(raised)
                  [] OTHER -> cleared
<1>1. uart' = n /\ ~uart.disabled
  BY DEF WriteStatus, Executes
<1>2. /\ Typed(o) /\ TransmitSound(o) /\ ReceiveSound(o) /\ Sending(o)
      /\ o.on = uart.on /\ uart.on \in BOOLEAN /\ o.txen = uart.txen /\ uart.txen \in BOOLEAN
      /\ o.disabled = uart.disabled
  BY NowSound DEF IInv, Sound, Typed, Flags, TransmitKept
<1>3. enable \in BOOLEAN /\ break \in BOOLEAN /\ (enable => uart.on)
  OBVIOUS
<1> HIDE DEF o, enable, break
<1>4. Typed(written)
  <2>1. Form(written)
    BY <1>2, <1>3 DEF Typed, Form
  <2>2. Flags(written)
    BY <1>2, <1>3 DEF Typed, Form, Fields, Flags
  <2>3. Counts(written)
    BY <1>2, <1>3 DEF Typed, Form, Fields, Counts
  <2>4. Modes(written)
    BY <1>2, <1>3 DEF Typed, Form, Fields, Modes
  <2>5. Queues(written)
    BY <1>2, <1>3 DEF Typed, Form, Fields, Queues
  <2> QED BY <2>1, <2>2, <2>3, <2>4, <2>5 DEF Typed
<1>5. /\ written.on = o.on /\ written.txen = enable /\ written.disabled = o.disabled
      /\ written.active = o.active /\ written.tx = o.tx /\ written.halted = o.halted
      /\ written.events = o.events /\ written.tgen = o.tgen /\ written.scheduled = o.scheduled
      /\ written.shift = o.shift /\ written.setting = o.setting /\ written.cts = o.cts
      /\ written.written = o.written /\ written.gone = o.gone
  BY <1>2 DEF Typed, Form, Fields
<1>6. ReceiveKept(written, o)
  BY <1>2 DEF Typed, Form, Fields, ReceiveKept, Samples
<1> HIDE DEF written
<1>7. LiveSends(written) = LiveSends(o) /\ Sends(written) = Sends(o) /\ Before(written) = Before(o)
  BY <1>5 DEF LiveSends, Sends, Before
<1>8. TransmitSound(written)
  BY <1>1, <1>2, <1>3, <1>5, <1>7 DEF TransmitSound, TransmitHeld
<1>9. Heard(cleared, written)
  <2>1. ReceiveSound(written)
    BY <1>2, <1>6, ReceiveStays
  <2>2. Heard(written, written)
    BY <1>4, <2>1 DEF Heard, TransmitKept
  <2> QED BY <1>4, <2>1, <2>2, ClearReceiveKeeps
<1> HIDE DEF cleared
<1>10. /\ Typed(cleared) /\ ReceiveSound(cleared) /\ TransmitSound(cleared)
       /\ cleared.txen = enable /\ cleared.on = o.on /\ cleared.disabled = o.disabled
       /\ cleared.active = o.active /\ cleared.tx = o.tx /\ cleared.halted = o.halted
  BY <1>5, <1>8, <1>9, TransmitStays DEF Heard, TransmitKept
<1>11. {"tx"} \in SUBSET {"tx", "rx", "error"}
  OBVIOUS
<1>12. Unmoved(raised, cleared)
  BY <1>10, <1>11, RaiseKeeps
<1> HIDE DEF raised
<1>13. Typed(raised) /\ TransmitSound(raised) /\ ReceiveSound(raised)
  BY <1>10, <1>12, TransmitStays, ReceiveStays DEF Unmoved
<1>14. CASE uart.txen /\ ~cleared.txen
  <2> DEFINE c == ClearTransmit(cleared)
  <2>1. /\ Typed(c) /\ TransmitHeld(c) /\ ReceiveKept(c, cleared) /\ c.tx = <<>>
        /\ c.active = FALSE /\ c.txen = cleared.txen /\ n = c
    BY <1>10, <1>14, ClearTransmitKeeps DEF TransmitSound
  <2> HIDE DEF c, n
  <2>2. TransmitSound(c) /\ Sending(c) /\ ReceiveSound(c)
    BY <1>10, <1>14, <2>1, ReceiveStays DEF TransmitSound, Sending
  <2>3. Sound(c)
    BY <2>1, <2>2 DEF Sound
  <2> QED BY <1>1, <2>1, <2>2, <2>3, StepSound
<1>15. CASE ~uart.txen /\ cleared.txen
  <2> DEFINE s == StartTransmit(raised)
  <2>1. n = s
    BY <1>15
  <2>2. Sent(s, raised) /\ Sending(s)
    BY <1>13, StartTransmitKeeps
  <2> HIDE DEF s, n
  <2>3. Sound(s)
    BY <1>13, <2>2, ReceiveStays DEF Sent, Sound
  <2> QED BY <1>1, <2>1, <2>2, <2>3, StepSound
<1>16. CASE uart.txen = cleared.txen
  <2>1. n = cleared
    BY <1>16
  <2> HIDE DEF n
  <2>2. Sending(cleared)
    BY <1>2, <1>10, <1>16 DEF Sending, TransmitterEnabled
  <2>3. Sound(cleared)
    BY <1>10 DEF Sound
  <2> QED BY <1>1, <2>1, <2>2, <2>3, StepSound
<1>17. uart.txen \in BOOLEAN /\ cleared.txen \in BOOLEAN
  BY <1>2, <1>3, <1>10
<1> QED BY <1>14, <1>15, <1>16, <1>17

LEMMA WriteTransmitKeeps ==
    ASSUME UartAssumption, IInv, WriteTransmit
    PROVE  IInv'
<1> DEFINE o == Now
           word == uart.written + 1
           tx == Append(o.tx, word)
           m == [o EXCEPT !.written = word, !.tx = tx]
           s == StartTransmit(m)
<1>1. /\ Typed(o) /\ TransmitSound(o) /\ ReceiveSound(o) /\ Sending(o)
      /\ o.tx = uart.tx /\ o.written = uart.written
  BY NowSound DEF TransmitKept
<1>2. uart' = o \/ (Len(uart.tx) # FifoSize /\ uart' = s)
  <2>1. o.written = uart.written /\ m = [o EXCEPT !.written = @ + 1, !.tx = tx]
    BY <1>1 DEF Typed, Form, Fields
  <2>2. m = [o EXCEPT !.written = @ + 1, !.tx = Append(@, uart.written + 1)]
    BY <2>1
  <2> QED BY <2>2 DEF WriteTransmit
<1> HIDE DEF o
<1>3. CASE uart' = o
  BY <1>1, <1>3, StepSound DEF Sound
<1>4. CASE Len(uart.tx) # FifoSize /\ uart' = s
  <2>1. /\ o.written \in Nat /\ word \in Nat /\ word = o.written + 1 /\ o.tx \in Seq(Nat)
        /\ Len(o.tx) \in Nat /\ Len(o.tx) < FifoSize
    <3>1. o.written \in Nat /\ o.tx \in Seq(Nat) /\ Len(o.tx) <= FifoSize /\ FifoSize \in Nat
      BY <1>1 DEF Typed, Counts, Queues, UartAssumption
    <3>2. Len(o.tx) \in Nat /\ Len(o.tx) # FifoSize
      BY <1>1, <1>4, <3>1, LenProperties
    <3> QED BY <1>1, <3>1, <3>2
  <2> HIDE DEF word
  <2>2. /\ tx \in Seq(Nat) /\ Len(tx) = Len(o.tx) + 1 /\ tx[Len(o.tx) + 1] = word
        /\ \A i \in 1 .. Len(o.tx) : tx[i] = o.tx[i]
    BY <2>1, AppendProperties
  <2>3. Len(tx) <= FifoSize
    BY <2>1, <2>2 DEF UartAssumption
  <2> HIDE DEF tx
  <2>4. Typed(m)
    <3>1. Form(m)
      BY <1>1, <2>1, <2>2, <2>3 DEF Typed, Form
    <3>2. Flags(m)
      BY <1>1, <2>1, <2>2, <2>3 DEF Typed, Form, Fields, Flags
    <3>3. Counts(m)
      BY <1>1, <2>1, <2>2, <2>3 DEF Typed, Form, Fields, Counts
    <3>4. Modes(m)
      BY <1>1, <2>1, <2>2, <2>3 DEF Typed, Form, Fields, Modes
    <3>5. Queues(m)
      BY <1>1, <2>1, <2>2, <2>3 DEF Typed, Form, Fields, Queues
    <3> QED BY <3>1, <3>2, <3>3, <3>4, <3>5 DEF Typed
  <2>5. /\ m.events = o.events /\ m.tgen = o.tgen /\ m.active = o.active
        /\ m.scheduled = o.scheduled /\ m.shift = o.shift /\ m.setting = o.setting
        /\ m.cts = o.cts /\ m.tx = tx /\ m.written = word /\ m.gone = o.gone
        /\ m.txen = o.txen /\ m.on = o.on /\ m.disabled = o.disabled
    BY <1>1 DEF Typed, Form, Fields
  <2>6. ReceiveKept(m, o)
    BY <1>1 DEF Typed, Form, Fields, ReceiveKept, Samples
  <2> HIDE DEF m
  <2>7. LiveSends(m) = LiveSends(o) /\ Sends(m) = Sends(o) /\ Before(m) = Before(o)
    BY <2>5 DEF LiveSends, Sends, Before
  <2>8. /\ Before(o) \in Nat /\ Len(o.tx) = o.written - Before(o)
        /\ \A i \in 1 .. Len(o.tx) : o.tx[i] = Before(o) + i
    BY <1>1 DEF TransmitSound, TransmitHeld, Before, Typed, Counts
  <2>9. Len(m.tx) = m.written - Before(m)
    BY <2>1, <2>2, <2>5, <2>7, <2>8
  <2>10. \A i \in 1 .. Len(m.tx) : m.tx[i] = Before(m) + i
    <3>1. word = Before(o) + (Len(o.tx) + 1)
      BY <2>1, <2>8
    <3>2. SUFFICES ASSUME NEW i \in 1 .. Len(tx)
                   PROVE  tx[i] = Before(o) + i
      BY <2>5, <2>7
    <3>3. i \in 1 .. Len(o.tx) \/ i = Len(o.tx) + 1
      BY <2>1, <2>2
    <3>4. CASE i \in 1 .. Len(o.tx)
      BY <2>2, <2>8, <3>4
    <3>5. CASE i = Len(o.tx) + 1
      BY <2>2, <3>1, <3>5
    <3> QED BY <3>3, <3>4, <3>5
  <2>11. TransmitSound(m)
    BY <1>1, <2>5, <2>7, <2>9, <2>10 DEF TransmitSound, TransmitHeld
  <2>12. Sent(s, m) /\ Sending(s)
    BY <2>4, <2>11, StartTransmitKeeps
  <2> HIDE DEF s
  <2>13. ReceiveSound(s)
    BY <1>1, <2>6, <2>12, ReceiveStays, KeptTransitive DEF Sent
  <2>14. Sound(s)
    BY <2>12, <2>13 DEF Sent, Sound
  <2> QED BY <1>4, <2>12, <2>14, StepSound
<1> QED BY <1>2, <1>3, <1>4

\* What was held moves up behind the words of the buffer, which it follows.
LEMMA ReadReceiveKeeps ==
    ASSUME UartAssumption, IInv, ReadReceive
    PROVE  IInv'
<1> DEFINE o == Now
           rest == Tail(o.rx)
           rx == rest \o o.hold
           word == Head(o.rx)
           none == <<>>
           n == [o EXCEPT !.taken = word, !.rx = rx, !.hold = none]
<1>1. /\ Typed(o) /\ TransmitSound(o) /\ ReceiveSound(o) /\ Sending(o)
      /\ o.rx = uart.rx /\ o.hold = uart.hold
  BY NowSound DEF ReceiveKept
<1>2. uart' = n /\ uart.rx # <<>>
  <2>1. n = [o EXCEPT !.taken = Head(uart.rx), !.rx = Tail(@) \o uart.hold, !.hold = <<>>]
    BY <1>1
  <2> QED BY <2>1 DEF ReadReceive
<1> HIDE DEF o
<1>3. /\ o.rx \in Seq(Nat) /\ Len(o.rx) \in Nat /\ Len(o.rx) <= FifoSize /\ o.hold \in Seq(Nat)
      /\ Len(o.hold) \in Nat /\ Len(o.hold) <= 1 /\ FifoSize \in Nat /\ o.taken \in Nat
      /\ o.came \in Nat /\ o.rx # <<>>
  BY <1>1, <1>2, LenProperties DEF Typed, Queues, Counts, UartAssumption
<1>4. /\ rest \in Seq(Nat) /\ Len(rest) = Len(o.rx) - 1 /\ word = o.rx[1] /\ word \in Nat
      /\ Len(o.rx) >= 1 /\ \A i \in 1 .. Len(rest) : rest[i] = o.rx[i + 1]
  BY <1>3, HeadTailProperties
<1> HIDE DEF rest, word
<1>5. Len(rest) = Len(o.rx) - 1 /\ Len(rest) \in Nat /\ Len(o.rx) \in Nat /\ Len(o.rx) >= 1
  BY <1>3, <1>4, LenProperties
<1>6. rx \in Seq(Nat) /\ Len(rx) = Len(rest) + Len(o.hold)
  BY <1>3, <1>4, ConcatProperties
<1>7. \A i \in 1 .. Len(rx) : rx[i] = IF i <= Len(rest) THEN rest[i] ELSE o.hold[i - Len(rest)]
  <2>1. rest \in Seq(Nat) /\ o.hold \in Seq(Nat)
    BY <1>3, <1>4
  <2>2. \A i \in 1 .. Len(rest) + Len(o.hold) :
           rx[i] = IF i <= Len(rest) THEN rest[i] ELSE o.hold[i - Len(rest)]
    BY <2>1, ConcatProperties
  <2> QED BY <1>6, <2>2
<1>8. none \in Seq(Nat) /\ Len(none) = 0 /\ none = <<>>
  BY NoWords
<1> HIDE DEF rx, none
<1>9. Len(rx) = Len(o.rx) - 1 + Len(o.hold) /\ Len(o.hold) \in Nat /\ Len(o.hold) <= 1
  <2>1. Len(rx) = Len(rest) + Len(o.hold) /\ Len(rest) = Len(o.rx) - 1
    BY <1>6, <1>5
  <2> QED BY <1>3, <2>1
<1>10. Len(rx) <= FifoSize /\ Len(none) <= 1 /\ Len(rx) \in Nat
  <2>1. Len(o.rx) <= FifoSize /\ FifoSize \in Nat
    BY <1>3
  <2>2. Len(rx) \in Nat /\ Len(rx) <= Len(o.rx)
    <3>1. \A a, b \in Nat : a >= 1 /\ b <= 1 => a - 1 + b \in Nat /\ a - 1 + b <= a
      OBVIOUS
    <3> QED BY <1>5, <1>9, <3>1
  <2>3. Len(rx) <= FifoSize
    BY <1>5, <2>1, <2>2
  <2>4. Len(none) <= 1
    BY <1>8
  <2> QED BY <2>2, <2>3, <2>4
<1>11. Typed(n)
  <2>1. Form(n)
    BY <1>1 DEF Typed, Form
  <2>2. Flags(n)
    BY <1>1, <1>4, <1>6, <1>8, <1>10 DEF Typed, Form, Fields, Flags
  <2>3. Counts(n)
    BY <1>1, <1>4, <1>6, <1>8, <1>10 DEF Typed, Form, Fields, Counts
  <2>4. Modes(n)
    BY <1>1, <1>4, <1>6, <1>8, <1>10 DEF Typed, Form, Fields, Modes
  <2>5. Queues(n)
    BY <1>1, <1>4, <1>6, <1>8, <1>10 DEF Typed, Form, Fields, Queues
  <2> QED BY <2>1, <2>2, <2>3, <2>4, <2>5 DEF Typed
<1>12. TransmitKept(n, o)
  BY <1>1 DEF Typed, Form, Fields, TransmitKept, Sends
<1>13. /\ n.events = o.events /\ n.rgen = o.rgen /\ n.receiving = o.receiving /\ n.rx = rx
       /\ n.hold = none /\ n.taken = word /\ n.came = o.came /\ n.overrun = o.overrun
  BY <1>1 DEF Typed, Form, Fields
<1> HIDE DEF n
<1>14. Samples(n) = Samples(o) /\ LiveSamples(n) = LiveSamples(o)
  BY <1>13 DEF Samples, LiveSamples
<1>15. /\ \A i \in 1 .. Len(o.rx) : o.rx[i] = o.taken + i
       /\ \A i \in 1 .. Len(o.hold) : o.hold[i] = o.taken + Len(o.rx) + i
       /\ ~o.overrun => o.hold = <<>> /\ o.taken + Len(o.rx) = o.came
  BY <1>1 DEF ReceiveSound
<1>16. word = o.taken + 1
  BY <1>3, <1>4, <1>15
<1>17. \A i \in 1 .. Len(rx) : rx[i] = word + i
  <2>1. SUFFICES ASSUME NEW i \in 1 .. Len(rx)
                 PROVE  rx[i] = word + i
    OBVIOUS
  <2>2. i \in Int /\ Len(rest) \in Nat /\ Len(rx) \in Nat
    BY <1>10, <1>5
  <2>3. CASE i <= Len(rest)
    <3>1. i \in 1 .. Len(rest) /\ i + 1 \in 1 .. Len(o.rx)
      BY <1>3, <1>5, <2>2, <2>3
    <3>2. rx[i] = o.rx[i + 1] /\ o.rx[i + 1] = o.taken + (i + 1)
      BY <1>4, <1>7, <1>15, <2>3, <3>1
    <3>3. rx[i] = o.taken + (i + 1)
      BY <3>2
    <3>4. o.taken + (i + 1) = word + i
      <4>1. o.taken \in Int /\ i \in Int /\ word = o.taken + 1
        BY <1>3, <1>16, <2>2
      <4> QED BY <4>1
    <3> QED BY <3>3, <3>4
  <2>4. CASE i > Len(rest)
    <3> DEFINE j == i - Len(rest)
    <3>1. j \in 1 .. Len(o.hold) /\ ~(i <= Len(rest))
      BY <1>3, <1>6, <2>2, <2>4
    <3>2. rx[i] = o.hold[j]
      BY <1>7, <3>1
    <3>3. o.taken + Len(o.rx) + j = word + i
      <4>1. /\ o.taken \in Int /\ i \in Int /\ word = o.taken + 1 /\ Len(o.rx) \in Int
            /\ Len(rest) = Len(o.rx) - 1 /\ j = i - Len(rest)
        BY <1>3, <1>16, <1>5, <2>2
      <4>2. j \in Int /\ Len(rest) \in Int /\ word \in Int
        BY <4>1
      <4> HIDE DEF j
      <4>3. Len(o.rx) + j = i + 1
        BY <4>1, <4>2
      <4>4. \A a, b, c, d \in Int : b + c = d + 1 => a + b + c = a + 1 + d
        OBVIOUS
      <4>5. Len(o.rx) \in Int /\ j \in Int /\ o.taken \in Int /\ i \in Int
        BY <4>1, <4>2
      <4>6. o.taken + Len(o.rx) + j = o.taken + 1 + i
        BY <4>3, <4>4, <4>5
      <4>7. word = o.taken + 1
        BY <1>16
      <4> QED BY <4>6, <4>7
    <3>4. o.hold[j] = o.taken + Len(o.rx) + j
      <4> HIDE DEF j
      <4> QED BY <1>15, <3>1
    <3> QED BY <3>2, <3>3, <3>4
  <2> QED BY <2>2, <2>3, <2>4
<1>18. ASSUME ~n.overrun
       PROVE  n.taken + Len(n.rx) = n.came
  <2>1. o.hold = <<>> /\ o.taken + Len(o.rx) = o.came
    BY <1>13, <1>15, <1>18
  <2>2. Len(o.hold) = 0
    BY <1>8, <2>1
  <2>3. word + Len(rx) = o.came
    <3>1. o.taken \in Nat
      BY <1>3
    <3> QED BY <1>16, <1>5, <1>9, <2>1, <2>2, <3>1
  <2> QED BY <1>13, <2>3
<1>19. ReceiveSound(n)
  BY <1>1, <1>8, <1>13, <1>14, <1>17, <1>18 DEF ReceiveSound
<1>20. TransmitSound(n) /\ Sending(n)
  BY <1>1, <1>12, TransmitStays
<1>21. Sound(n)
  BY <1>11, <1>19, <1>20 DEF Sound
<1> QED BY <1>2, <1>20, <1>21, StepSound

LEMMA ChangePowerKeeps ==
    ASSUME UartAssumption, IInv, NEW power \in {"active", "idle", "sleep"}, ChangePower(power)
    PROVE  IInv'
<1> DEFINE o == Now
<1>1. Sound(o) /\ Sending(o)
  BY NowSound DEF Sound
<1>2. uart' = PowerBecomes(o, power)
  BY DEF ChangePower
<1> HIDE DEF o
<1> QED BY <1>1, <1>2, PowerBecomesKeeps, StepSound

LEMMA DisableEventKeeps ==
    ASSUME UartAssumption, IInv, NEW disabled \in BOOLEAN, DisableEvent(disabled)
    PROVE  IInv'
<1> DEFINE o == Now
           r == IF disabled THEN ResetRuntime(o) ELSE o
           n == [r EXCEPT !.disabled = disabled]
<1>1. Typed(o) /\ TransmitSound(o) /\ ReceiveSound(o) /\ Sending(o)
      /\ o.disabled = uart.disabled /\ uart.disabled \in BOOLEAN
  BY NowSound DEF IInv, Sound, Typed, Flags, TransmitKept
<1>2. uart' = n /\ disabled # uart.disabled
  BY DEF DisableEvent
<1> HIDE DEF o
<1>3. Typed(r) /\ TransmitHeld(r) /\ ReceiveSound(r) /\ r.txen = FALSE
      /\ (r.active /\ ~r.scheduled => r.setting.flow /\ ~r.cts)
  <2>1. CASE disabled
    BY <1>1, <2>1, ResetRuntimeSilences DEF Silent, TransmitSound
  <2>2. CASE ~disabled
    <3>1. r = o /\ o.disabled = TRUE
      BY <1>1, <1>2, <2>2
    <3> QED BY <1>1, <3>1 DEF TransmitSound, Typed, Flags
  <2> QED BY <2>1, <2>2
<1> HIDE DEF r
<1>4. Typed(n)
  <2>1. Form(n)
    BY <1>3 DEF Typed, Form
  <2>2. Flags(n)
    BY <1>3 DEF Typed, Form, Fields, Flags
  <2>3. Counts(n)
    BY <1>3 DEF Typed, Form, Fields, Counts
  <2>4. Modes(n)
    BY <1>3 DEF Typed, Form, Fields, Modes
  <2>5. Queues(n)
    BY <1>3 DEF Typed, Form, Fields, Queues
  <2> QED BY <2>1, <2>2, <2>3, <2>4, <2>5 DEF Typed
<1>5. /\ n.events = r.events /\ n.tgen = r.tgen /\ n.active = r.active /\ n.scheduled = r.scheduled
      /\ n.shift = r.shift /\ n.setting = r.setting /\ n.cts = r.cts /\ n.tx = r.tx
      /\ n.written = r.written /\ n.gone = r.gone /\ n.txen = FALSE
  BY <1>3 DEF Typed, Form, Fields
<1>6. ReceiveKept(n, r)
  BY <1>3 DEF Typed, Form, Fields, ReceiveKept, Samples
<1> HIDE DEF n
<1>7. LiveSends(n) = LiveSends(r) /\ Sends(n) = Sends(r) /\ Before(n) = Before(r)
  BY <1>5 DEF LiveSends, Sends, Before
<1>8. TransmitSound(n) /\ Sending(n)
  BY <1>3, <1>5, <1>7 DEF TransmitSound, TransmitHeld, Sending, TransmitterEnabled
<1>9. Sound(n)
  BY <1>3, <1>4, <1>6, <1>8, ReceiveStays DEF Sound
<1> QED BY <1>2, <1>8, <1>9, StepSound

LEMMA HeardSound ==
    ASSUME NEW u, TransmitSound(u), Sending(u), NEW n, Heard(n, u)
    PROVE  Sound(n) /\ Sending(n)
BY TransmitStays DEF Heard, Sound

LEMMA HostFrameKeeps ==
    ASSUME UartAssumption, IInv, NEW address \in BOOLEAN, NEW bad \in BOOLEAN,
           HostFrame(address, bad)
    PROVE  IInv'
<1> DEFINE o == Now
           frame == [address |-> address, bad |-> bad]
           n == Received(o, frame)
<1>1. Typed(o) /\ TransmitSound(o) /\ ReceiveSound(o) /\ Sending(o)
  BY NowSound
<1>2. uart' = n
  BY DEF HostFrame
<1> HIDE DEF o, frame
<1>3. Heard(n, o)
  BY <1>1, ReceivedKeeps
<1> HIDE DEF n
<1> QED BY <1>1, <1>2, <1>3, HeardSound, StepSound

LEMMA HostCtsKeeps ==
    ASSUME UartAssumption, IInv, NEW clear \in BOOLEAN, HostCts(clear)
    PROVE  IInv'
<1> DEFINE o == Now
           seen == [o EXCEPT !.cts = clear]
           s == ScheduleTransmit(seen)
<1>1. Typed(o) /\ TransmitSound(o) /\ ReceiveSound(o) /\ Sending(o)
  BY NowSound
<1>2. uart' = IF clear THEN s ELSE seen
  BY DEF HostCts
<1> HIDE DEF o
<1>3. Typed(seen)
  <2>1. Form(seen)
    BY <1>1 DEF Typed, Form
  <2>2. Flags(seen)
    BY <1>1 DEF Typed, Form, Fields, Flags
  <2>3. Counts(seen)
    BY <1>1 DEF Typed, Form, Fields, Counts
  <2>4. Modes(seen)
    BY <1>1 DEF Typed, Form, Fields, Modes
  <2>5. Queues(seen)
    BY <1>1 DEF Typed, Form, Fields, Queues
  <2> QED BY <2>1, <2>2, <2>3, <2>4, <2>5 DEF Typed
<1>4. /\ seen.events = o.events /\ seen.tgen = o.tgen /\ seen.active = o.active
      /\ seen.scheduled = o.scheduled /\ seen.shift = o.shift /\ seen.setting = o.setting
      /\ seen.cts = clear /\ seen.tx = o.tx /\ seen.written = o.written /\ seen.gone = o.gone
      /\ seen.txen = o.txen /\ seen.on = o.on /\ seen.disabled = o.disabled
      /\ seen.halted = o.halted
  BY <1>1 DEF Typed, Form, Fields
<1>5. ReceiveKept(seen, o)
  BY <1>1 DEF Typed, Form, Fields, ReceiveKept, Samples
<1> HIDE DEF seen
<1>6. LiveSends(seen) = LiveSends(o) /\ Sends(seen) = Sends(o) /\ Before(seen) = Before(o)
  BY <1>4 DEF LiveSends, Sends, Before
<1>7. /\ TransmitHeld(seen) /\ Sending(seen) /\ ReceiveSound(seen)
      /\ (seen.txen => seen.on /\ ~seen.disabled)
  BY <1>1, <1>4, <1>5, <1>6, ReceiveStays
     DEF TransmitSound, TransmitHeld, Sending, TransmitterEnabled
<1>8. CASE clear
  <2>1. Sent(s, seen) /\ Sending(s)
    BY <1>3, <1>7, ScheduleTransmitKeeps
  <2> HIDE DEF s
  <2>2. Sound(s)
    BY <1>7, <2>1, ReceiveStays DEF Sent, Sound
  <2> QED BY <1>2, <1>8, <2>1, <2>2, StepSound
<1>9. CASE ~clear
  <2>1. TransmitSound(seen)
    BY <1>1, <1>4, <1>7, <1>9 DEF TransmitSound
  <2>2. Sound(seen)
    BY <1>3, <1>7, <2>1 DEF Sound
  <2> QED BY <1>2, <1>7, <1>9, <2>2, StepSound
<1> QED BY <1>8, <1>9

LEMMA HostPinKeeps ==
    ASSUME UartAssumption, IInv, NEW level \in {"high", "low", "unreadable"}, HostPin(level)
    PROVE  IInv'
<1> DEFINE o == Now
           seen == [o EXCEPT !.pin = level]
           rises == level = "high"
           n == PinEdge(seen, rises)
<1>1. Typed(o) /\ TransmitSound(o) /\ ReceiveSound(o) /\ Sending(o)
  BY NowSound
<1>2. uart' = seen \/ uart' = n
  BY DEF HostPin
<1> HIDE DEF o, rises
<1>3. Typed(seen)
  <2>1. Form(seen)
    BY <1>1 DEF Typed, Form
  <2>2. Flags(seen)
    BY <1>1 DEF Typed, Form, Fields, Flags
  <2>3. Counts(seen)
    BY <1>1 DEF Typed, Form, Fields, Counts
  <2>4. Modes(seen)
    BY <1>1 DEF Typed, Form, Fields, Modes
  <2>5. Queues(seen)
    BY <1>1 DEF Typed, Form, Fields, Queues
  <2> QED BY <2>1, <2>2, <2>3, <2>4, <2>5 DEF Typed
<1>4. TransmitKept(seen, o) /\ ReceiveKept(seen, o)
  BY <1>1 DEF Typed, Form, Fields, TransmitKept, ReceiveKept, Sends, Samples
<1> HIDE DEF seen
<1>5. TransmitSound(seen) /\ Sending(seen) /\ ReceiveSound(seen)
  BY <1>1, <1>4, TransmitStays, ReceiveStays
<1>6. Heard(n, seen)
  BY <1>3, <1>5, PinEdgeKeeps
<1> HIDE DEF n
<1>7. Sound(n) /\ Sending(n) /\ Sound(seen)
  BY <1>3, <1>5, <1>6, HeardSound DEF Sound
<1> QED BY <1>2, <1>5, <1>7, StepSound

LEMMA DispatchKeeps ==
    ASSUME UartAssumption, IInv, Dispatch
    PROVE  IInv'
<1> DEFINE o == Now
<1>1. Typed(o) /\ TransmitSound(o) /\ ReceiveSound(o) /\ Sending(o) /\ o.events = uart.events
  BY NowSound
<1>2. PICK event \in Due : LET taken == [o EXCEPT !.events = @ \ {event}]
                           IN  uart' = CASE event.kind = "transmit" -> TransmitComplete(taken, event)
                                         [] event.kind = "sample" -> Sample(taken, event)
                                         [] event.kind = "pin" -> taken
  BY DEF Dispatch
<1>3. event \in o.events /\ event.left = 0
  BY <1>1 DEF Due
<1> HIDE DEF o
<1> DEFINE events == o.events \ {event}
           taken == [o EXCEPT !.events = events]
<1>4. taken = [o EXCEPT !.events = @ \ {event}]
  BY <1>1 DEF Typed, Form, Fields
<1>5. /\ o.events \in SUBSET UartEvent /\ events \in SUBSET UartEvent /\ event \in UartEvent
      /\ event.kind \in {"transmit", "sample", "pin"}
  BY <1>1, <1>3 DEF Typed, Modes, UartEvent
<1> HIDE DEF events
<1>6. Typed(taken)
  <2>1. Form(taken)
    BY <1>1, <1>5 DEF Typed, Form
  <2>2. Flags(taken)
    BY <1>1, <1>5 DEF Typed, Form, Fields, Flags
  <2>3. Counts(taken)
    BY <1>1, <1>5 DEF Typed, Form, Fields, Counts
  <2>4. Modes(taken)
    BY <1>1, <1>5 DEF Typed, Form, Fields, Modes
  <2>5. Queues(taken)
    BY <1>1, <1>5 DEF Typed, Form, Fields, Queues
  <2> QED BY <2>1, <2>2, <2>3, <2>4, <2>5 DEF Typed
<1>7. /\ taken.events = events /\ taken.tgen = o.tgen /\ taken.active = o.active
      /\ taken.scheduled = o.scheduled /\ taken.shift = o.shift /\ taken.setting = o.setting
      /\ taken.cts = o.cts /\ taken.tx = o.tx /\ taken.written = o.written
      /\ taken.gone = o.gone /\ taken.txen = o.txen /\ taken.on = o.on
      /\ taken.disabled = o.disabled /\ taken.halted = o.halted
      /\ taken.rx = o.rx /\ taken.hold = o.hold /\ taken.taken = o.taken /\ taken.came = o.came
      /\ taken.overrun = o.overrun /\ taken.receiving = o.receiving /\ taken.rgen = o.rgen
  BY <1>1 DEF Typed, Form, Fields
<1>8. /\ uart' = CASE event.kind = "transmit" -> TransmitComplete(taken, event)
                   [] event.kind = "sample" -> Sample(taken, event)
                   [] event.kind = "pin" -> taken
  BY <1>2, <1>4
<1> HIDE DEF taken
<1>9. /\ Sends(taken) = Sends(o) \ {event} /\ LiveSends(taken) = LiveSends(o) \ {event}
      /\ Samples(taken) = Samples(o) \ {event} /\ LiveSamples(taken) = LiveSamples(o) \ {event}
      /\ Before(taken) = Before(o)
  BY <1>7 DEF Sends, Samples, LiveSends, LiveSamples, Before, events
<1>10. ReceiveSound(taken)
  <2>1. \A e \in Samples(taken) : e.generation <= taken.rgen /\ e.phase # 0
    BY <1>1, <1>7, <1>9 DEF ReceiveSound
  <2> QED BY <1>1, <1>7, <1>9, <2>1 DEF ReceiveSound
<1>11. Sending(taken)
  BY <1>1, <1>7 DEF Sending, TransmitterEnabled
<1>12. CASE event.kind = "pin"
  <2>1. taken.scheduled => \E e \in LiveSends(taken) : e.kind = "transmit"
    BY <1>1, <1>7, <1>9, <1>12 DEF TransmitSound, TransmitHeld
  <2>2. TransmitSound(taken)
    BY <1>1, <1>7, <1>9, <2>1 DEF TransmitSound, TransmitHeld
  <2>3. Sound(taken)
    BY <1>6, <1>10, <2>2 DEF Sound
  <2>4. uart' = taken
    BY <1>8, <1>12
  <2> QED BY <1>11, <2>3, <2>4, StepSound
<1>13. CASE event.kind = "sample"
  <2> DEFINE n == Sample(taken, event)
  <2>1. uart' = n
    BY <1>8, <1>13
  <2>2. event \in Samples(o) /\ event \notin Sends(o) /\ event \notin LiveSends(o)
    BY <1>3, <1>13 DEF Samples, Sends, LiveSends
  <2>3. Sends(taken) = Sends(o) /\ LiveSends(taken) = LiveSends(o)
    BY <1>9, <2>2
  <2>4. TransmitSound(taken)
    BY <1>1, <1>7, <1>9, <2>3 DEF TransmitSound, TransmitHeld
  <2>5. event.phase # 0
    BY <1>1, <2>2 DEF ReceiveSound
  <2>6. ASSUME event.generation = taken.rgen, event.phase = Len(Bits)
        PROVE  LiveSamples(taken) = {}
    <3>1. SUFFICES ASSUME NEW e \in LiveSamples(taken)
                   PROVE  FALSE
      OBVIOUS
    <3>2. event \in LiveSamples(o) /\ e \in LiveSamples(o) /\ e # event
      BY <1>7, <1>9, <2>2, <2>6 DEF LiveSamples
    <3>3. /\ e \in UartEvent /\ e.kind = event.kind /\ e.generation = event.generation
          /\ e.frame = event.frame
      BY <1>1, <1>5, <1>13, <3>2 DEF LiveSamples, Samples, ReceiveSound
    <3>4. e.left - e.phase = event.left - event.phase /\ Len(Bits) = 3
      BY <1>1, <3>2 DEF ReceiveSound, Bits
    <3>5. e.left = event.left /\ e.phase = event.phase
      BY <1>3, <2>6, <3>3, <3>4 DEF UartEvent
    <3>6. e = event
      BY <1>5, <3>3, <3>5 DEF UartEvent
    <3> QED BY <3>2, <3>6
  <2>7. Heard(n, taken)
    BY <1>5, <1>6, <1>10, <2>5, <2>6, SampleKeeps
  <2> HIDE DEF n
  <2> QED BY <1>11, <2>1, <2>4, <2>7, HeardSound, StepSound
<1>14. CASE event.kind = "transmit"
  <2> DEFINE n == TransmitComplete(taken, event)
  <2>1. uart' = n
    BY <1>8, <1>14
  <2>2. event \in Sends(o) /\ (event.generation = o.tgen => event \in LiveSends(o))
    BY <1>3, <1>14 DEF Sends, LiveSends
  <2>3. ASSUME event.generation = taken.tgen
        PROVE  LiveSends(taken) = {}
    <3>1. SUFFICES ASSUME NEW e \in LiveSends(taken)
                   PROVE  FALSE
      OBVIOUS
    <3>2. event \in LiveSends(o) /\ e \in LiveSends(o) /\ e # event
      BY <1>7, <1>9, <2>2, <2>3
    <3>3. e \in UartEvent /\ e.kind \in {"transmit", "pin"}
      BY <1>5, <3>2 DEF LiveSends, Sends, UartEvent
    <3>4. e.kind = "pin" /\ e.left < event.left
      BY <1>1, <1>14, <3>2, <3>3 DEF TransmitSound, TransmitHeld
    <3> QED BY <1>3, <3>3, <3>4 DEF UartEvent
  <2>4. ASSUME event.generation # taken.tgen \/ ~taken.active \/ ~taken.scheduled
        PROVE  TransmitSound(taken)
    <3>1. event \notin LiveSends(o)
      BY <1>1, <1>7, <2>4 DEF TransmitSound, TransmitHeld, LiveSends
    <3>2. LiveSends(taken) = LiveSends(o)
      BY <1>9, <3>1
    <3> QED BY <1>1, <1>7, <1>9, <3>2 DEF TransmitSound, TransmitHeld
  <2>5. \A e \in Sends(taken) : e.generation <= taken.tgen
    BY <1>1, <1>7, <1>9 DEF TransmitSound, TransmitHeld
  <2>6. /\ taken.txen => taken.on /\ ~taken.disabled
        /\ Len(taken.tx) = taken.written - Before(taken)
        /\ \A i \in 1 .. Len(taken.tx) : taken.tx[i] = Before(taken) + i
        /\ taken.active => taken.shift = taken.gone + 1
    BY <1>1, <1>7, <1>9 DEF TransmitSound, TransmitHeld
  <2>7. Sound(n) /\ Sending(n)
    BY <1>6, <1>10, <1>11, <2>3, <2>4, <2>5, <2>6, TransmitCompleteKeeps
  <2> HIDE DEF n
  <2> QED BY <2>1, <2>7, StepSound
<1> QED BY <1>5, <1>12, <1>13, <1>14

\* Every event comes one step nearer, and none was due.
LEMMA TickKeeps ==
    ASSUME UartAssumption, IInv, Tick
    PROVE  IInv'
<1> DEFINE o == Now
           moved(e) == [e EXCEPT !.left = @ - 1]
           events == {moved(e) : e \in o.events}
           n == [o EXCEPT !.events = events]
<1>1. Typed(o) /\ TransmitSound(o) /\ ReceiveSound(o) /\ Sending(o) /\ o.events = uart.events
  BY NowSound
<1>2. uart' = n
  BY <1>1 DEF Tick, Typed, Form, Fields
<1>3. \A e \in o.events : e.left # 0
  BY <1>1 DEF Tick, Due
<1> HIDE DEF o
<1>4. \A e \in o.events : /\ e \in UartEvent /\ moved(e) \in UartEvent /\ moved(e).kind = e.kind
                          /\ moved(e).generation = e.generation /\ moved(e).phase = e.phase
                          /\ moved(e).frame = e.frame /\ moved(e).left = e.left - 1
                          /\ e.left \in Int /\ e.phase \in Int
  BY <1>1, <1>3 DEF Typed, Modes, UartEvent
<1> HIDE DEF moved
<1>5. events \in SUBSET UartEvent
  BY <1>4
<1>6. /\ {e \in events : e.kind # "sample"} = {moved(e) : e \in Sends(o)}
      /\ {e \in events : e.kind = "sample"} = {moved(e) : e \in Samples(o)}
  BY <1>4 DEF Sends, Samples
<1> HIDE DEF events
<1>7. Typed(n)
  <2>1. Form(n)
    BY <1>1, <1>5 DEF Typed, Form
  <2>2. Flags(n)
    BY <1>1, <1>5 DEF Typed, Form, Fields, Flags
  <2>3. Counts(n)
    BY <1>1, <1>5 DEF Typed, Form, Fields, Counts
  <2>4. Modes(n)
    BY <1>1, <1>5 DEF Typed, Form, Fields, Modes
  <2>5. Queues(n)
    BY <1>1, <1>5 DEF Typed, Form, Fields, Queues
  <2> QED BY <2>1, <2>2, <2>3, <2>4, <2>5 DEF Typed
<1>8. /\ n.events = events /\ n.tgen = o.tgen /\ n.active = o.active
      /\ n.scheduled = o.scheduled /\ n.shift = o.shift /\ n.setting = o.setting
      /\ n.cts = o.cts /\ n.tx = o.tx /\ n.written = o.written
      /\ n.gone = o.gone /\ n.txen = o.txen /\ n.on = o.on
      /\ n.disabled = o.disabled /\ n.halted = o.halted
      /\ n.rx = o.rx /\ n.hold = o.hold /\ n.taken = o.taken /\ n.came = o.came
      /\ n.overrun = o.overrun /\ n.receiving = o.receiving /\ n.rgen = o.rgen
  BY <1>1 DEF Typed, Form, Fields
<1> HIDE DEF n
<1>9. /\ Sends(n) = {moved(e) : e \in Sends(o)} /\ Samples(n) = {moved(e) : e \in Samples(o)}
      /\ Before(n) = Before(o)
  BY <1>6, <1>8 DEF Sends, Samples, Before
<1>10. /\ Sends(o) \subseteq o.events /\ Samples(o) \subseteq o.events
       /\ LiveSends(o) \subseteq o.events /\ LiveSamples(o) \subseteq o.events
  BY DEF Sends, Samples, LiveSends, LiveSamples
<1>11. LiveSends(n) = {moved(e) : e \in LiveSends(o)}
  BY <1>4, <1>8, <1>9, <1>10 DEF LiveSends
<1>12. LiveSamples(n) = {moved(e) : e \in LiveSamples(o)}
  BY <1>4, <1>8, <1>9, <1>10 DEF LiveSamples
<1>13. ReceiveSound(n)
  <2>1. \A e \in Samples(n) : e.generation <= n.rgen /\ e.phase # 0
    BY <1>1, <1>4, <1>8, <1>9, <1>10 DEF ReceiveSound
  <2>2. \A e \in LiveSamples(n) : n.receiving /\ e.frame = n.rgen
    BY <1>1, <1>4, <1>8, <1>10, <1>12 DEF ReceiveSound
  <2>3. \A e, f \in LiveSamples(n) : e.left - e.phase = f.left - f.phase
    <3>1. SUFFICES ASSUME NEW e \in LiveSamples(o), NEW f \in LiveSamples(o)
                   PROVE  moved(e).left - moved(e).phase = moved(f).left - moved(f).phase
      BY <1>12
    <3>2. e.left - e.phase = f.left - f.phase
      BY <1>1 DEF ReceiveSound
    <3> QED BY <1>4, <1>10, <3>2
  <2> QED BY <1>1, <1>8, <2>1, <2>2, <2>3 DEF ReceiveSound
<1>14. TransmitSound(n)
  <2>1. \A e \in Sends(n) : e.generation <= n.tgen
    BY <1>1, <1>4, <1>8, <1>9, <1>10 DEF TransmitSound, TransmitHeld
  <2>2. \A e \in LiveSends(n) : n.active /\ n.scheduled /\ e.frame = n.shift
    BY <1>1, <1>4, <1>8, <1>10, <1>11 DEF TransmitSound, TransmitHeld
  <2>3. \A e, f \in LiveSends(n) : e.kind = "pin" /\ f.kind = "transmit" => e.left < f.left
    <3>1. SUFFICES ASSUME NEW e \in LiveSends(o), NEW f \in LiveSends(o),
                          moved(e).kind = "pin", moved(f).kind = "transmit"
                   PROVE  moved(e).left < moved(f).left
      BY <1>11
    <3>2. e.left < f.left
      BY <1>1, <1>4, <1>10, <3>1 DEF TransmitSound, TransmitHeld
    <3> QED BY <1>4, <1>10, <3>2
  <2>4. \A e, f \in LiveSends(n) : e.kind = "transmit" /\ f.kind = "transmit" => e = f
    <3>1. SUFFICES ASSUME NEW e \in LiveSends(o), NEW f \in LiveSends(o),
                          moved(e).kind = "transmit", moved(f).kind = "transmit"
                   PROVE  moved(e) = moved(f)
      BY <1>11
    <3>2. e = f
      BY <1>1, <1>4, <1>10, <3>1 DEF TransmitSound, TransmitHeld
    <3> QED BY <3>2
  <2>5. n.scheduled => \E e \in LiveSends(n) : e.kind = "transmit"
    BY <1>1, <1>4, <1>8, <1>10, <1>11 DEF TransmitSound, TransmitHeld
  <2> QED BY <1>1, <1>8, <1>9, <2>1, <2>2, <2>3, <2>4, <2>5 DEF TransmitSound, TransmitHeld
<1>15. Sending(n)
  BY <1>1, <1>8 DEF Sending, TransmitterEnabled
<1>16. Sound(n)
  BY <1>7, <1>13, <1>14 DEF Sound
<1> QED BY <1>2, <1>15, <1>16, StepSound

-----------------------------------------------------------------------------
LEMMA InitInv ==
    ASSUME UartAssumption, Init
    PROVE  IInv
<1>1. PICK setting \in Settings : uart = Fresh(setting)
  BY DEF Init
<1> DEFINE none == <<>>
           n == [setting |-> setting, on |-> FALSE, disabled |-> FALSE, power |-> "active",
                 await |-> "nothing", txen |-> FALSE, brk |-> FALSE, tx |-> none, shift |-> 0,
                 breaking |-> FALSE, active |-> FALSE, scheduled |-> FALSE, tgen |-> 0,
                 cts |-> TRUE, rx |-> none, hold |-> none, overrun |-> FALSE,
                 receiving |-> FALSE, rgen |-> 0, bad |-> FALSE, edges |-> 0, pin |-> "high",
                 events |-> {}, raised |-> {}, written |-> 0, gone |-> 0, came |-> 0,
                 taken |-> 0, halted |-> FALSE]
<1>2. uart = n
  BY <1>1 DEF Fresh
<1>3. none \in Seq(Nat) /\ Len(none) = 0 /\ 0 <= FifoSize /\ none = <<>>
  BY NoWords DEF UartAssumption
<1> HIDE DEF none
<1>4. Typed(n)
  <2>1. Form(n)
    BY DEF Form, Fields
  <2>2. Flags(n)
    BY DEF Flags
  <2>3. Counts(n)
    BY DEF Counts
  <2>4. Modes(n)
    BY DEF Modes
  <2>5. Queues(n)
    BY <1>3 DEF Queues
  <2> QED BY <2>1, <2>2, <2>3, <2>4, <2>5 DEF Typed
<1>5. /\ n.events = {} /\ n.active = FALSE /\ n.scheduled = FALSE /\ n.txen = FALSE /\ n.tx = none
      /\ n.written = 0 /\ n.gone = 0 /\ n.rx = none /\ n.hold = none /\ n.taken = 0
      /\ n.came = 0
  OBVIOUS
<1> HIDE DEF n
<1>6. Sends(n) = {} /\ Samples(n) = {} /\ Before(n) = 0
  BY <1>5 DEF Sends, Samples, Before
<1>7. LiveSends(n) = {} /\ LiveSamples(n) = {}
  BY <1>6 DEF LiveSends, LiveSamples
<1>8. TransmitSound(n) /\ Sending(n)
  BY <1>3, <1>5, <1>6, <1>7 DEF TransmitSound, TransmitHeld, Sending, TransmitterEnabled
<1>9. ReceiveSound(n)
  BY <1>3, <1>5, <1>6, <1>7 DEF ReceiveSound
<1> QED BY <1>2, <1>4, <1>8, <1>9 DEF IInv, Sound

LEMMA StepInv ==
    ASSUME UartAssumption, IInv, [Next]_uart
    PROVE  IInv'
<1>1. CASE Program
  <2>1. ASSUME NEW on \in BOOLEAN, NEW format \in BOOLEAN,
               NEW await \in {"nothing", "wake", "baud"}, WriteMode(on, await, format)
        PROVE  IInv'
    BY <2>1, WriteModeKeeps
  <2>2. ASSUME NEW txen \in BOOLEAN, NEW brk \in BOOLEAN, NEW overrun \in BOOLEAN,
               WriteStatus(txen, brk, overrun)
        PROVE  IInv'
    BY <2>2, WriteStatusKeeps
  <2>3. CASE WriteTransmit
    BY <2>3, WriteTransmitKeeps
  <2>4. CASE ReadReceive
    BY <2>4, ReadReceiveKeeps
  <2>5. ASSUME NEW power \in {"active", "idle", "sleep"}, ChangePower(power)
        PROVE  IInv'
    BY <2>5, ChangePowerKeeps
  <2>6. ASSUME NEW disabled \in BOOLEAN, DisableEvent(disabled)
        PROVE  IInv'
    BY <2>6, DisableEventKeeps
  <2> QED BY <1>1, <2>1, <2>2, <2>3, <2>4, <2>5, <2>6 DEF Program
<1>2. CASE Host
  <2>1. ASSUME NEW address \in BOOLEAN, NEW bad \in BOOLEAN, HostFrame(address, bad)
        PROVE  IInv'
    BY <2>1, HostFrameKeeps
  <2>2. ASSUME NEW clear \in BOOLEAN, HostCts(clear)
        PROVE  IInv'
    BY <2>2, HostCtsKeeps
  <2>3. ASSUME NEW level \in {"high", "low", "unreadable"}, HostPin(level)
        PROVE  IInv'
    BY <2>3, HostPinKeeps
  <2> QED BY <1>2, <2>1, <2>2, <2>3 DEF Host
<1>3. CASE Dispatch
  BY <1>3, DispatchKeeps
<1>4. CASE Tick
  BY <1>4, TickKeeps
<1>5. CASE UNCHANGED uart
  <2>1. Sound(uart) /\ Sending(uart) /\ uart' = uart
    BY <1>5 DEF IInv
  <2> QED BY <2>1, StepSound
<1> QED BY <1>1, <1>2, <1>3, <1>4, <1>5 DEF Next

\* The inductive invariant: both halves are sound, and no word waits for nothing.
THEOREM AlwaysInv ==
    ASSUME UartAssumption
    PROVE  Spec => []IInv
<1>1. Init => IInv
  BY InitInv
<1>2. IInv /\ [Next]_uart => IInv'
  BY StepInv
<1> QED BY <1>1, <1>2, PTL DEF Spec

\* The UART keeps to its types, its FIFOs to their size, and no event is of a
\* generation to come.
THEOREM UartTyped ==
    ASSUME UartAssumption
    PROVE  Spec => []TypeOK
<1>1. IInv => TypeOK
  BY DEF IInv, Sound, Typed, Modes, Counts, Queues, TransmitSound, TransmitHeld, ReceiveSound, Sends,
         Samples, TypeOK
<1> QED BY <1>1, AlwaysInv, PTL

\* No event of an earlier frame acts on a later one: what still counts in the queue
\* is about the frame in the shift register or the reception under way, a scheduled
\* frame has exactly one completion to come, and words are left waiting only by CTS,
\* a frame or a power state.
THEOREM UartEventsAgree ==
    ASSUME UartAssumption
    PROVE  Spec => []EventsAgree
<1>1. IInv => EventsAgree
  <2>1. SUFFICES ASSUME IInv
                 PROVE  EventsAgree
    OBVIOUS
  <2>2. TransmitSound(uart) /\ ReceiveSound(uart) /\ Sending(uart)
    BY <2>1 DEF IInv, Sound
  <2>3. /\ Live("transmit") = {e \in LiveSends(uart) : e.kind = "transmit"}
        /\ Live("pin") \subseteq LiveSends(uart) /\ Live("sample") = LiveSamples(uart)
    BY DEF Live, LiveSends, LiveSamples, Sends, Samples
  <2>4. ASSUME uart.scheduled
        PROVE  Cardinality(Live("transmit")) = 1
    <3>1. PICK e \in LiveSends(uart) : e.kind = "transmit"
      BY <2>2, <2>4 DEF TransmitSound, TransmitHeld
    <3>2. Live("transmit") = {e}
      BY <2>2, <2>3, <3>1 DEF TransmitSound, TransmitHeld
    <3> QED BY <3>2, FS_Singleton
  <2>5. \A event \in Live("transmit") \union Live("pin") :
           uart.active /\ uart.scheduled /\ event.frame = uart.shift
    BY <2>2, <2>3 DEF TransmitSound, TransmitHeld
  <2>6. \A event \in Live("sample") : uart.receiving /\ event.frame = uart.rgen
    BY <2>2, <2>3 DEF ReceiveSound
  <2> QED BY <2>2, <2>4, <2>5, <2>6 DEF EventsAgree, TransmitSound, Sending
<1> QED BY <1>1, AlwaysInv, PTL

\* A sequence of words is the function it is.
LEMMA InOrder ==
    ASSUME NEW s \in Seq(Nat), NEW first \in Nat, \A i \in 1 .. Len(s) : s[i] = first + i
    PROVE  s = [i \in 1 .. Len(s) |-> first + i]
<1>1. s = [i \in 1 .. Len(s) |-> s[i]]
  BY LenProperties
<1> QED BY <1>1

\* Every word accepted leaves once and in order, through FIFO and shift register,
\* unless the transmitter is cleared with all it holds; frames are read in the order
\* they came, without a gap that OERR does not report.
THEOREM UartWordsKept ==
    ASSUME UartAssumption
    PROVE  Spec => []WordsKept
<1>1. IInv => WordsKept
  <2>1. SUFFICES ASSUME IInv
                 PROVE  WordsKept
    OBVIOUS
  <2> DEFINE front == IF uart.active THEN <<uart.shift>> ELSE <<>>
             tx == uart.tx
             rx == uart.rx
             hold == uart.hold
             sending == front \o tx
             heard == rx \o hold
  <2>2. /\ uart.active \in BOOLEAN /\ {uart.shift, uart.gone, uart.written, uart.came, uart.taken} \subseteq Nat
        /\ tx \in Seq(Nat) /\ rx \in Seq(Nat) /\ hold \in Seq(Nat)
        /\ Len(tx) \in Nat /\ Len(rx) \in Nat /\ Len(hold) \in Nat
        /\ uart.overrun \in BOOLEAN
    BY <2>1, LenProperties DEF IInv, Sound, Typed, Flags, Counts, Queues
  <2>3. /\ Len(tx) = uart.written - Before(uart)
        /\ \A i \in 1 .. Len(tx) : tx[i] = Before(uart) + i
        /\ uart.active => uart.shift = uart.gone + 1
    BY <2>1 DEF IInv, Sound, TransmitSound, TransmitHeld
  <2>4. /\ \A i \in 1 .. Len(rx) : rx[i] = uart.taken + i
        /\ \A i \in 1 .. Len(hold) : hold[i] = uart.taken + Len(rx) + i
        /\ ~uart.overrun => hold = <<>> /\ uart.taken + Len(rx) = uart.came
    BY <2>1 DEF IInv, Sound, ReceiveSound
  <2> HIDE DEF tx, rx, hold
  <2>5. sending = [i \in 1 .. (uart.written - uart.gone) |-> uart.gone + i]
    <3>1. /\ front \in Seq(Nat) /\ Len(front) \in Nat /\ Before(uart) = uart.gone + Len(front)
          /\ \A i \in 1 .. Len(front) : front[i] = uart.gone + i
      <4>1. CASE uart.active
        BY <2>2, <2>3, <4>1 DEF Before
      <4>2. CASE ~uart.active
        BY <2>2, <4>2, NoWords DEF Before
      <4> QED BY <4>1, <4>2
    <3> HIDE DEF front
    <3>2. sending \in Seq(Nat) /\ Len(sending) = Len(front) + Len(tx)
      BY <2>2, <3>1, ConcatProperties
    <3>3. \A i \in 1 .. Len(front) + Len(tx) :
             sending[i] = IF i <= Len(front) THEN front[i] ELSE tx[i - Len(front)]
      BY <2>2, <3>1, ConcatProperties
    <3> HIDE DEF sending
    <3>4. \A i \in 1 .. Len(sending) : sending[i] = uart.gone + i
      <4>1. SUFFICES ASSUME NEW i \in 1 .. Len(sending)
                     PROVE  sending[i] = uart.gone + i
        OBVIOUS
      <4>2. i \in Int /\ i \in 1 .. Len(front) + Len(tx)
        BY <2>2, <3>1, <3>2
      <4>3. CASE i <= Len(front)
        BY <3>1, <3>3, <4>2, <4>3
      <4>4. CASE i > Len(front)
        <5> DEFINE j == i - Len(front)
        <5>1. j \in 1 .. Len(tx) /\ ~(i <= Len(front))
          BY <2>2, <3>1, <4>2, <4>4
        <5>2. uart.gone + Len(front) + j = uart.gone + i
          BY <2>2, <3>1, <4>2
        <5> HIDE DEF j
        <5>3. tx[j] = uart.gone + Len(front) + j
          BY <2>3, <3>1, <5>1
        <5>4. sending[i] = tx[j]
          BY <3>3, <4>2, <5>1 DEF j
        <5> QED BY <5>2, <5>3, <5>4
      <4> QED BY <3>1, <4>2, <4>3, <4>4
    <3>5. Len(sending) = uart.written - uart.gone
      <4>1. Len(tx) = uart.written - (uart.gone + Len(front))
        BY <2>3, <3>1
      <4> QED BY <2>2, <3>1, <3>2, <4>1
    <3>6. sending = [i \in 1 .. Len(sending) |-> uart.gone + i]
      BY <2>2, <3>2, <3>4, InOrder
    <3> QED BY <3>5, <3>6
  <2>6. heard = [i \in 1 .. Len(heard) |-> uart.taken + i]
    <3>1. heard \in Seq(Nat) /\ Len(heard) = Len(rx) + Len(hold)
      BY <2>2, ConcatProperties
    <3>2. \A i \in 1 .. Len(rx) + Len(hold) :
             heard[i] = IF i <= Len(rx) THEN rx[i] ELSE hold[i - Len(rx)]
      BY <2>2, ConcatProperties
    <3> HIDE DEF heard
    <3>3. \A i \in 1 .. Len(heard) : heard[i] = uart.taken + i
      <4>1. SUFFICES ASSUME NEW i \in 1 .. Len(heard)
                     PROVE  heard[i] = uart.taken + i
        OBVIOUS
      <4>2. i \in Int /\ i \in 1 .. Len(rx) + Len(hold)
        BY <2>2, <3>1
      <4>3. CASE i <= Len(rx)
        BY <2>2, <2>4, <3>2, <4>2, <4>3
      <4>4. CASE i > Len(rx)
        <5> DEFINE j == i - Len(rx)
        <5>1. j \in 1 .. Len(hold) /\ ~(i <= Len(rx))
          BY <2>2, <4>2, <4>4
        <5>2. uart.taken + Len(rx) + j = uart.taken + i
          BY <2>2, <4>2
        <5> HIDE DEF j
        <5>3. hold[j] = uart.taken + Len(rx) + j
          BY <2>4, <5>1
        <5>4. heard[i] = hold[j]
          BY <3>2, <4>2, <5>1 DEF j
        <5> QED BY <5>2, <5>3, <5>4
      <4> QED BY <2>2, <4>2, <4>3, <4>4
    <3> QED BY <2>2, <3>1, <3>3, InOrder
  <2>7. ~uart.overrun => uart.taken + Len(heard) = uart.came
    <3>1. Len(heard) = Len(rx) + Len(hold)
      BY <2>2, ConcatProperties
    <3> HIDE DEF heard
    <3> QED BY <2>2, <2>4, <3>1, NoWords
  <2>8. uart.hold # <<>> => uart.overrun
    BY <2>4 DEF hold
  <2> QED BY <2>5, <2>6, <2>7, <2>8 DEF WordsKept, tx, rx, hold
<1> QED BY <1>1, AlwaysInv, PTL
=============================================================================
