-------------------------------- MODULE Dci --------------------------------
(***************************************************************************)
(* The data converter interface (communication/dci.c).  A frame has slots, *)
(* each of which may send a word, receive one, do both or neither; those   *)
(* that do take the buffers in turn, whatever the frame, and when the last *)
(* buffer was used all that were are exchanged with the registers.  Words  *)
(* come by events of the internal clock, by the edges of an external one,  *)
(* or whole, by calls of the host; frames by their number or by a line.    *)
(*                                                                         *)
(* Time is in ticks, of which a bit has Bit.  The events of the internal   *)
(* clock pause with it; of those of one tick the first scheduled comes     *)
(* first (EventOrder).  Left out: the values of words, the levels of the   *)
(* outputs and the phase they follow, the AC-link modes, a request to the  *)
(* DMA that cannot be scheduled, and registers changed while the interface *)
(* is on, other than those of the actions.                                 *)
(***************************************************************************)
EXTENDS Integers, Sequences, FiniteSets, SequencesExt

CONSTANTS Bit,        \* dci_bit_cycles
          Width,      \* bits of a word: 4 to 16
          QueueSize,  \* DSPIC33_DCI_QUEUE_SIZE
          Settings    \* external_clock, external_frame: CSCKD, COFSD; justify: DJST; rising: CSCKE;
                      \* both_edges: a frame line of I2S; stop_idle; pins: the host drives lines,
                      \* not words; buffers, slots: BLEN, COFSG; transmit, receive: TSCON, RSCON;
                      \* accesses: the program reads and writes them; changes: a bound

DciAssumption ==
    /\ {Bit, Width, QueueSize} \subseteq Nat \ {0} /\ Bit % 2 = 0
    /\ \A s \in Settings :
          /\ {s.external_clock, s.external_frame, s.justify, s.rising, s.both_edges, s.stop_idle,
              s.pins, s.accesses} \subseteq BOOLEAN
          /\ s.buffers \in 1..4 /\ s.slots \in 1..16 /\ s.changes \in Nat
          /\ s.transmit \union s.receive \subseteq 0..s.slots - 1

VARIABLE dci   \* DCICON1, DCICON3, DCISTAT, cpu->io.dci, its events in order, and history

Fresh(setting) ==
    [setting |-> setting, on |-> FALSE, divided |-> ~setting.external_clock, power |-> "active",
     off |-> FALSE, disabled |-> FALSE, pmd_generation |-> 0, ran |-> FALSE, stopped |-> FALSE,
     clock_high |-> FALSE, frame_high |-> FALSE,
     started |-> FALSE, initialized |-> FALSE, disabling |-> FALSE, frames |-> 0,
     scheduled |-> FALSE, generation |-> 0, events |-> <<>>,
     buffer |-> 0, slot |-> 0, bits |-> 0, startup |-> 0, frame_bits |-> 0, delay |-> FALSE,
     frame_pending |-> FALSE, rx_buffered |-> {}, tx_buffered |-> {},
     unread |-> {}, overflow |-> {}, written |-> {}, underflow |-> {}, empty |-> FALSE, output |-> 0,
     changes |-> 0,
     \* history: buffers loaded and not sent since; enabled while unsupported
     fresh |-> {}, refused |-> FALSE]

Init == \E setting \in Settings : dci = Fresh(setting)
-----------------------------------------------------------------------------
Buffers(d) == 0..d.setting.buffers - 1
Enabled(d) == d.on \/ d.disabling

\* dci_active_transmit_buffers: those a transmitting slot meets in as many frames as
\* there are buffers, after which all begins again.
ActiveBuffers_OneFrame(d) ==   \* mutant: looks at the first frame only
    LET active == d.setting.transmit \union d.setting.receive
    IN  {Cardinality({other \in active : other < s}) % d.setting.buffers : s \in d.setting.transmit}

ActiveBuffers(d) ==
    LET active == d.setting.transmit \union d.setting.receive
        Buffer(frame, s) == (frame * Cardinality(active) + Cardinality({other \in active : other < s}))
                            % d.setting.buffers
    IN  {Buffer(frame, s) : frame \in Buffers(d), s \in d.setting.transmit}

Supported(d) == d.setting.external_clock = ~d.divided

ClockRunning(d) ==
    ~d.disabled /\ d.power # "sleep" /\ (d.power = "idle" => ~d.setting.stop_idle)

ClockStopped(d) == ~d.setting.external_clock /\ ~(d.divided /\ ClockRunning(d))

InternalEvent(event) == event.kind # "pmd"

\* dci_pause_events and dci_resume_events
PowerStateChanged_NoResume(d) ==   \* mutant: what is paused stays so
    [d EXCEPT !.events = [i \in DOMAIN @ |->
       [@[i] EXCEPT !.paused = @ \/ (InternalEvent(d.events[i]) /\ ClockStopped(d))]]]

PowerStateChanged(d) ==
    [d EXCEPT !.events = [i \in DOMAIN @ |->
       [@[i] EXCEPT !.paused = InternalEvent(d.events[i]) /\ ClockStopped(d)]]]

Discarded(d) == [d EXCEPT !.events = SelectSeq(@, LAMBDA event : ~InternalEvent(event))]

Appended(d, kind, left) ==
    [d EXCEPT !.events = Append(@, [kind |-> kind, generation |-> d.generation, left |-> left,
                                    paused |-> FALSE, disabled |-> FALSE])]

\* dci_schedule_internal
Schedule(d, kind, left) == [Appended(d, kind, left) EXCEPT !.scheduled = TRUE]

\* What dci_abort and dci_start have in common.
Reset(d) ==
    [Discarded(d) EXCEPT !.generation = @ + 1, !.started = FALSE, !.initialized = FALSE,
        !.disabling = FALSE, !.scheduled = FALSE, !.frames = 0, !.buffer = 0, !.slot = 0,
        !.bits = 0, !.startup = 0, !.frame_bits = 0, !.delay = FALSE, !.frame_pending = FALSE,
        !.rx_buffered = {}, !.tx_buffered = {}, !.fresh = {}]

Abort(d) == [Reset(d) EXCEPT !.on = FALSE]

Start(d) ==
    LET reset == [Reset(d) EXCEPT !.startup = IF d.setting.external_clock THEN 3 ELSE 0,
                                  !.refused = ~d.setting.external_clock /\ ~Supported(d)]
    IN  IF Supported(d) /\ ~d.setting.external_clock THEN Schedule(reset, "start", 3 * Bit) ELSE reset

\* dci_begin_internal_word
SampleDelay(d) == IF d.setting.rising THEN 0 ELSE Bit \div 2

BeginInternalWord(d) ==
    LET word == Schedule([d EXCEPT !.bits = 0], "word", Width * Bit)
    IN  IF d.setting.pins THEN Appended(word, "sample", SampleDelay(d)) ELSE word

\* dci_transfer_buffers, for what is buffered
TransferBuffers(d, receive) ==
    LET received == IF receive THEN d.rx_buffered ELSE {}
    IN  [d EXCEPT !.overflow = @ \union (received \intersect d.unread), !.unread = @ \union received,
                  !.underflow = @ \union (d.tx_buffered \ d.written), !.written = @ \ d.tx_buffered,
                  !.fresh = @ \union d.tx_buffered, !.empty = @ \/ d.tx_buffered # {},
                  !.rx_buffered = {}, !.tx_buffered = {}]

\* The first bit of a frame comes a bit after its synchronisation.
DelayedData(d) == ~d.setting.justify

StartupTransfer(d) ==
    TransferBuffers([d EXCEPT !.started = TRUE, !.initialized = TRUE, !.buffer = 0, !.slot = 0,
                              !.bits = 0, !.startup = 0, !.frame_bits = 0,
                              !.delay = d.setting.external_clock /\ ~d.setting.external_frame
                                        /\ DelayedData(d),
                              !.tx_buffered = ActiveBuffers(d)], FALSE)

\* dci_finish_frame: a disable ends with the frame, or with the next one.
FinishFrame(d) ==
    CASE ~d.disabling -> d
      [] d.disabling /\ d.frames > 1 -> [d EXCEPT !.frames = @ - 1]
      [] d.disabling /\ d.frames <= 1 ->
            [TransferBuffers(d, TRUE) EXCEPT
                !.generation = @ + 1, !.started = FALSE, !.initialized = FALSE, !.disabling = FALSE,
                !.scheduled = FALSE, !.frames = 0, !.buffer = 0, !.slot = 0, !.fresh = {}]

\* dci_process_word
ProcessWord(d) ==
    LET sends == d.slot \in d.setting.transmit
        receives == d.slot \in d.setting.receive
        Only(condition) == IF condition THEN {d.buffer} ELSE {}
        moved == [d EXCEPT !.output = @ + 1, !.fresh = @ \ Only(sends),
                           !.tx_buffered = @ \union Only(sends),
                           !.rx_buffered = @ \union Only(receives)]
        next == CASE ~sends /\ ~receives -> moved
                  [] (sends \/ receives) /\ d.buffer + 1 < d.setting.buffers ->
                        [moved EXCEPT !.buffer = @ + 1]
                  [] (sends \/ receives) /\ d.buffer + 1 = d.setting.buffers ->
                        [TransferBuffers(moved, TRUE) EXCEPT !.buffer = 0]
        ended == FinishFrame([next EXCEPT !.slot = 0, !.frame_bits = 0])
    IN  CASE d.output = QueueSize -> [Abort(d) EXCEPT !.stopped = TRUE]
          [] d.output < QueueSize /\ d.slot + 1 < d.setting.slots -> [next EXCEPT !.slot = @ + 1]
          [] d.output < QueueSize /\ d.slot + 1 = d.setting.slots ->
                IF d.setting.external_frame THEN [ended EXCEPT !.started = FALSE]
                ELSE [ended EXCEPT !.delay = @ \/ (d.setting.external_clock /\ DelayedData(d))]

\* dci_begin_serial_frame
BeginSerialFrame(d) ==
    [IF d.initialized THEN d ELSE StartupTransfer(d) EXCEPT
        !.slot = 0, !.started = TRUE, !.bits = 0, !.frame_bits = 0, !.delay = DelayedData(d)]

\* dci_disable
FrameBits(d) == (d.setting.slots - 1 - d.slot) * Width * Bit

Remaining(d) ==
    IF d.setting.external_clock THEN {(Width - d.bits) * Bit + FrameBits(d)}
    ELSE {d.events[i].left + FrameBits(d) : i \in {j \in DOMAIN d.events :
             d.events[j].kind = "word" /\ d.events[j].generation = d.generation}}

Disable(d) ==
    IF ~d.initialized \/ ~d.started \/ Remaining(d) = {} THEN Abort(d)
    ELSE [d EXCEPT !.disabling = TRUE,
                   !.frames = IF \E rest \in Remaining(d) : rest < 3 * Bit THEN 2 ELSE 1]
-----------------------------------------------------------------------------
\* dci_run_internal
RunWord(d) ==
    LET after == ProcessWord(d)
    IN  CASE ~Enabled(d) \/ d.setting.external_clock -> d
          [] Enabled(d) /\ ~d.setting.external_clock
             /\ (~Supported(d) \/ ~ClockRunning(d) \/ ~d.started) -> BeginInternalWord(d)
          [] OTHER -> IF ~after.stopped /\ Enabled(after)
                         /\ (d.setting.external_frame => after.started)
                      THEN BeginInternalWord(after) ELSE after

\* dci_run_sample
RunSample(d) ==
    IF ~Enabled(d) \/ d.setting.external_clock \/ ~Supported(d) \/ ~ClockRunning(d) \/ ~d.started
       \/ d.bits >= Width THEN d
    ELSE LET sampled == [d EXCEPT !.bits = @ + 1]
         IN  IF sampled.bits < Width THEN Appended(sampled, "sample", Bit) ELSE sampled

\* The cases of dspic33_device_internal_run_dci
RunStart(d) ==
    IF d.disabled \/ ~d.on THEN d
    ELSE IF d.setting.external_frame THEN [StartupTransfer(d) EXCEPT !.started = FALSE]
         ELSE BeginInternalWord(StartupTransfer(d))

RunFrameStart(d) ==
    IF ~d.frame_pending \/ d.started \/ ~Supported(d) \/ ~ClockRunning(d) THEN d
    ELSE BeginInternalWord(BeginSerialFrame([d EXCEPT !.frame_pending = FALSE]))

Run(d, event) ==
    LET taken == [d EXCEPT !.scheduled = FALSE]
    IN  CASE event.generation # d.generation -> d
          [] event.generation = d.generation /\ event.kind = "start" -> RunStart(taken)
          [] event.generation = d.generation /\ event.kind = "word" -> RunWord(taken)
          [] event.generation = d.generation /\ event.kind = "sample" -> RunSample(d)
          [] event.generation = d.generation /\ event.kind = "frame" -> RunFrameStart(taken)

\* dci_run_external: the host gives a word, or the synchronisation of a frame.
RunExternal(d, frame_sync) ==
    LET external == d.setting.external_clock
        ready == IF d.initialized THEN d ELSE StartupTransfer([d EXCEPT !.startup = 0])
        missing == IF d.setting.external_frame /\ ~frame_sync /\ ready.slot = 0
                   THEN [ready EXCEPT !.started = FALSE] ELSE ready
        begun == IF ~missing.started /\ (d.setting.external_frame => frame_sync)
                 THEN [missing EXCEPT !.slot = 0, !.started = TRUE] ELSE missing
    IN  CASE \/ ~Enabled(d) \/ ~Supported(d) \/ d.disabled
             \/ d.power = "idle" /\ d.setting.stop_idle
             \/ ~external /\ ~(frame_sync /\ d.setting.external_frame)
             \/ ~external /\ ~d.initialized -> d
          [] OTHER -> IF ~begun.started THEN begun
                      ELSE IF external THEN ProcessWord(begun)
                      ELSE IF begun.scheduled THEN begun ELSE BeginInternalWord(begun)

\* dspic33_device_internal_dci_refresh_pps_inputs
Operating(d) ==
    Enabled(d) /\ Supported(d) /\ ~d.disabled /\ (d.power = "idle" => ~d.setting.stop_idle)

FrameEdge(d) ==
    LET edge == d.setting.external_frame /\ (d.setting.both_edges \/ ~d.frame_high)
        moved == [d EXCEPT !.frame_high = ~@]
    IN  CASE ~edge \/ ~Operating(d) \/ ~d.initialized \/ d.started -> moved
          [] edge /\ Operating(d) /\ d.initialized /\ ~d.started /\ d.setting.external_clock ->
                [moved EXCEPT !.frame_pending = TRUE]
          [] edge /\ Operating(d) /\ d.initialized /\ ~d.started /\ ~d.setting.external_clock ->
                IF ~ClockRunning(d) \/ d.scheduled THEN moved
                ELSE IF DelayedData(d) THEN Schedule([moved EXCEPT !.frame_pending = TRUE], "frame", Bit)
                ELSE BeginInternalWord(BeginSerialFrame([moved EXCEPT !.frame_pending = FALSE]))

\* dci_sample_serial_input
SampleSerial(d) ==
    IF d.bits + 1 < Width THEN [d EXCEPT !.bits = @ + 1, !.frame_bits = @ + 1]
    ELSE ProcessWord([d EXCEPT !.bits = 0, !.frame_bits = @ + 1])

\* An edge that samples, with the frame it waits for or counts itself.
SampleEdge(d) ==
    LET framed == IF d.setting.external_frame
                  THEN IF d.frame_pending /\ ~d.started
                       THEN BeginSerialFrame([d EXCEPT !.frame_pending = FALSE])
                       ELSE [d EXCEPT !.frame_pending = FALSE]
                  ELSE IF d.initialized THEN d ELSE StartupTransfer(d)
    IN  CASE ~d.initialized /\ d.startup > 1 -> [d EXCEPT !.startup = @ - 1]
          [] ~d.initialized /\ d.startup = 1 ->
                [StartupTransfer(d) EXCEPT !.started = ~d.setting.external_frame]
          [] d.initialized \/ d.startup = 0 ->
                IF d.setting.external_frame /\ ~framed.started THEN framed
                ELSE IF framed.delay THEN [framed EXCEPT !.delay = FALSE, !.frame_bits = @ + 1]
                ELSE SampleSerial(framed)

ClockEdge(d) ==
    LET moved == [d EXCEPT !.clock_high = ~@]
    IN  IF d.setting.external_clock /\ Operating(d) /\ d.setting.rising = moved.clock_high
        THEN SampleEdge(moved) ELSE moved
-----------------------------------------------------------------------------
Ready == {i \in DOMAIN dci.events : dci.events[i].left = 0 /\ ~dci.events[i].paused}
Running == Ready = {} /\ ~dci.stopped
Executes == Running /\ dci.power = "active" /\ ~dci.ran
Changeable == Executes /\ dci.changes < dci.setting.changes
Executed(d) == [d EXCEPT !.ran = TRUE]
Changed(d) == [d EXCEPT !.ran = TRUE, !.changes = @ + 1]

\* The registers of dspic33_device_internal_update_dci_register: DCIEN of DCICON1,
WriteEnable ==
    /\ Changeable /\ ~dci.disabled
    /\ LET written == [dci EXCEPT !.on = ~@]
       IN  dci' = Changed(PowerStateChanged(IF dci.on THEN Disable(written) ELSE Start(written)))

\* the divider of DCICON3, zero or not,
WriteDivider ==
    /\ Changeable /\ ~dci.disabled
    /\ dci' = Changed(PowerStateChanged([dci EXCEPT !.divided = ~@]))

\* a transmit buffer,
WriteTransmit(buffer) ==
    /\ Executes /\ dci.setting.accesses /\ ~dci.disabled
    /\ dci' = Executed([dci EXCEPT !.written = @ \union {buffer}, !.underflow = @ \ {buffer},
                                   !.empty = @ /\ buffer \notin ActiveBuffers(dci)])

\* and PMD (dci_update_pmd).
WritePmd ==
    /\ Changeable
    /\ dci' = Changed([dci EXCEPT !.off = ~@, !.pmd_generation = @ + 1,
                          !.events = Append(@, [kind |-> "pmd", generation |-> dci.pmd_generation + 1,
                                                left |-> 1, paused |-> FALSE, disabled |-> ~dci.off])])

\* dspic33_device_internal_dci_read_register
ReadReceive(buffer) ==
    /\ Executes /\ dci.setting.accesses /\ ~dci.disabled /\ buffer \in dci.unread
    /\ dci' = Executed([dci EXCEPT !.unread = @ \ {buffer}, !.overflow = @ \ {buffer}])

ChangePower(power) ==
    /\ Running /\ ~dci.ran /\ (dci.power = "active") # (power = "active")
    /\ dci.changes < dci.setting.changes
    /\ dci' = PowerStateChanged([dci EXCEPT !.power = power, !.changes = @ + 1])

\* The lines, and dspic33_dci_clock.
ClockLine == ~dci.stopped /\ dci.setting.pins /\ dci.setting.external_clock /\ dci' = ClockEdge(dci)
FrameLine == ~dci.stopped /\ dci.setting.pins /\ dci.setting.external_frame /\ dci' = FrameEdge(dci)
HostClock(frame_sync) == ~dci.stopped /\ ~dci.setting.pins /\ dci' = RunExternal(dci, frame_sync)

\* dspic33_dci_transmit
HostTransmit ==
    /\ ~dci.stopped /\ dci.output > 0
    /\ dci' = [dci EXCEPT !.output = @ - 1]

Dispatch ==
    /\ Ready # {} /\ ~dci.stopped
    /\ LET first == CHOOSE i \in Ready : \A j \in Ready : i <= j
           event == dci.events[first]
           taken == [dci EXCEPT !.events = RemoveAt(@, first)]
       IN  dci' = CASE event.kind # "pmd" -> Run(taken, event)
                    [] event.kind = "pmd" /\ event.generation = dci.pmd_generation ->
                          PowerStateChanged([taken EXCEPT !.disabled = event.disabled])
                    [] event.kind = "pmd" /\ event.generation # dci.pmd_generation -> taken

TickEnds ==
    /\ Running /\ (dci.ran \/ dci.events # <<>>)
    /\ dci' = [dci EXCEPT !.ran = FALSE,
                          !.events = [i \in DOMAIN @ |->
                             IF @[i].paused THEN @[i] ELSE [@[i] EXCEPT !.left = @ - 1]]]

Next ==
    \/ WriteEnable \/ WriteDivider \/ WritePmd
    \/ \E buffer \in Buffers(dci) : WriteTransmit(buffer) \/ ReadReceive(buffer)
    \/ \E power \in {"active", "idle", "sleep"} : ChangePower(power)
    \/ ClockLine \/ FrameLine \/ \E frame_sync \in BOOLEAN : HostClock(frame_sync)
    \/ HostTransmit \/ Dispatch \/ TickEnds

Spec == Init /\ [][Next]_dci
-----------------------------------------------------------------------------
TypeOK ==
    /\ dci.setting \in Settings
    /\ dci.buffer \in Buffers(dci) /\ dci.slot \in 0..dci.setting.slots - 1
    /\ dci.bits \in 0..Width /\ dci.startup \in 0..3 /\ dci.frames \in 0..2
    /\ dci.output \in 0..QueueSize
    /\ dci.rx_buffered \union dci.tx_buffered \union dci.unread \union dci.written \subseteq Buffers(dci)
    /\ dci.overflow \subseteq dci.unread /\ dci.underflow \intersect dci.written = {}
    /\ \A i \in DOMAIN dci.events :
          dci.events[i].kind \in {"start", "word", "sample", "frame", "pmd"} /\ dci.events[i].left \in Nat

Pending(kinds, generation) ==
    {i \in DOMAIN dci.events :
        dci.events[i].kind \in kinds /\ dci.events[i].generation = generation}

\* No event of the internal clock is stale; exactly one says when the word, the
\* start or the frame comes that an enabled interface is in, and it stands still
\* exactly while the clock does, but for a word the host begins while the
\* processor sleeps.  A disable is under way only where a frame is.
EventsAgree ==
    LET internal == ~dci.setting.external_clock
        One(kind) == Cardinality(Pending({kind}, dci.generation)) = 1
    IN  /\ \A i \in DOMAIN dci.events :
              LET event == dci.events[i]
              IN  /\ InternalEvent(event) => internal /\ event.generation = dci.generation
                  /\ \/ event.paused = (InternalEvent(event) /\ ClockStopped(dci))
                     \/ ~dci.setting.pins /\ dci.setting.external_frame /\ dci.power = "sleep"
        /\ Cardinality(Pending({"start", "word", "frame"}, dci.generation))
              = IF dci.scheduled THEN 1 ELSE 0
        /\ internal /\ dci.initialized /\ dci.started => One("word")
        /\ internal /\ dci.on /\ ~dci.initialized => One("start") \/ dci.refused
        /\ internal /\ dci.frame_pending => One("frame") /\ ~dci.started
        /\ dci.disabling => ~dci.on /\ dci.initialized /\ dci.frames > 0
                            /\ (dci.started \/ dci.setting.external_frame)
        /\ \/ dci.disabled = dci.off
           \/ Pending({"pmd"}, dci.pmd_generation) # {}

\* A word of a transmit buffer is sent once, and one that was received is handed
\* over before its buffer is used again, across frames and buffers of unequal
\* numbers; the bits of a word are sampled a bit apart, the last before its end,
\* through pauses; and the position in a frame is that of the external clock.
WordsKept ==
    /\ dci.initialized =>
          /\ dci.fresh \intersect dci.tx_buffered = {}
          /\ dci.fresh \union dci.tx_buffered = ActiveBuffers(dci)
          /\ dci.slot \in dci.setting.transmit => dci.buffer \in dci.fresh
          /\ dci.slot \in dci.setting.receive => dci.buffer \notin dci.rx_buffered
    /\ dci.setting.pins =>
          \A i \in Pending({"word"}, dci.generation) :
             IF dci.bits = Width THEN Pending({"sample"}, dci.generation) = {}
             ELSE \E j \in Pending({"sample"}, dci.generation) :
                    /\ Pending({"sample"}, dci.generation) = {j}
                    /\ dci.events[i].left - dci.events[j].left
                          = (Width - dci.bits) * Bit - SampleDelay(dci)
    /\ dci.setting.pins /\ dci.setting.external_clock /\ dci.initialized /\ dci.started =>
          dci.frame_bits = dci.slot * Width + dci.bits
                           + IF DelayedData(dci) /\ ~dci.delay THEN 1 ELSE 0

=============================================================================
