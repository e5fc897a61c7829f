-------------------------------- MODULE Can --------------------------------
(***************************************************************************)
(* One CAN channel (communication/can/): a transmitter that fetches a      *)
(* frame by DMA, puts it on the bus and monitors what it sent; a receiver  *)
(* that samples the pin bit by bit, or is handed frames by the host, and   *)
(* stores them by DMA; and what surrounds both: acknowledge slots, error   *)
(* and overload flags, bus-off, and a change of mode that waits for a      *)
(* quiet bus.                                                              *)
(*                                                                         *)
(* A frame is its number.  A frame on the bus is the bits                  *)
(*   identifier, data to CRC delimiter, acknowledge, last of EOF, pause    *)
(* and every other time is scaled with it.  A bit has two ticks and is     *)
(* sampled in the middle.  What bits and identifiers say is a choice.      *)
(* Left out: resynchronisation within a bit, the counter of receive        *)
(* errors, the receive pointer and the levels of the transmit pin.         *)
(* Excluded: queues of 64 frames that are full, an event queue that cannot *)
(* grow.                                                                   *)
(***************************************************************************)
EXTENDS Integers, Sequences, FiniteSets, SequencesExt

CONSTANTS Settings,       \* what the registers hold at first, and budgets of what may happen
          Buffers,        \* transmit buffers, the later one goes first
          FifoSize,       \* receive buffers
          ErrorLimit      \* 255, in steps of 8; half of it makes the transmitter passive

Modes == {"normal", "disable", "loopback", "listen", "configuration", "listen_all"}
Budgets == [requests : Nat, frames : Nat, edges : Nat, errors : Nat, changes : Nat]

CanAssumption ==
    /\ Settings \subseteq [mode : Modes, stop_idle : BOOLEAN, triple : BOOLEAN, dma : BOOLEAN,
                           budget : Budgets]
    /\ Buffers = 1..Cardinality(Buffers)
    /\ FifoSize \in Nat \ {0} /\ ErrorLimit \in Nat \ {0}

VARIABLE can   \* the registers and cpu->io.can_* of the channel, its events and history

Bit == 2
Sample == 1              \* the sample point, and what is left of the bit after it
Words == 1               \* 8, the words of a frame in memory
CrcBit == 2              \* the bits the receiver has at the CRC delimiter,
FrameBits == 4           \* and when the frame is complete
PauseBits == 1           \* 3
FlagBits == 1            \* 14, an error or overload flag and its delimiter
RetryBits == 2           \* 17
PassiveBits == 3         \* 25
IdleBits == 2            \* 11 of the mode change; the recovery has 128 times as many
RecoverBits == 3

TransmitKinds == {"tx_start", "tx_word", "tx_finish", "bus_finish", "tx_retry", "tx_error_start",
                  "tx_sample", "tx_first", "tx_second"}
SerialKinds == {"rx_sample", "rx_first", "rx_second"}
Kinds == TransmitKinds \union SerialKinds
         \union {"rx_word", "rx_finish", "rx_success", "ack_start", "ack_finish",
                 "rx_error_start", "rx_error_finish", "mode", "pause_finish",
                 "overload_finish", "bus_off_sample"}

\* of : the frame of rx_success, the generation of the pause, or of the mode.
CanEvent == [kind : Kinds, left : Nat, of : Nat]

Fresh(setting) ==
    [setting |-> setting, budget |-> setting.budget, power |-> "active", disabled |-> FALSE,
     mode |-> setting.mode, requested |-> setting.mode, mode_generation |-> 0, mode_recessive |-> 0,
     requests |-> {}, tx_busy |-> FALSE, tx_buffer |-> 1, tx_word |-> 0, tx_on_bus |-> FALSE,
     tx_retry_wait |-> FALSE, tx_error_active |-> FALSE, tx_high |-> 0,
     errors |-> 0, bus_off |-> FALSE, bus_off_recessive |-> 0,
     pin |-> TRUE, physical |-> FALSE, serial |-> FALSE, count |-> 0, broken |-> FALSE,
     rx_high |-> 0, rx_ack |-> FALSE, rx_error_active |-> FALSE,
     intermission |-> FALSE, overload |-> FALSE, overloads |-> 0, generation |-> 0,
     pending |-> <<>>, queue |-> <<>>, starts |-> 0,     \* RECEIVE_START events
     rx_busy |-> FALSE, rx_word |-> 0, rx_frame |-> 0, rx_buffer |-> 1,
     full |-> {}, fifo_write |-> 1, events |-> {},
     \* history: frames named, the frame of a buffer, what became of the requests,
     \* and the three ways to be left behind
     frames |-> 0, stored |-> [buffer \in 1..FifoSize |-> 0],
     asked |-> 0, sent |-> 0, aborted |-> 0,
     skipped |-> FALSE, missed |-> FALSE, astray |-> FALSE]

Init == \E setting \in Settings : can = Fresh(setting)
-----------------------------------------------------------------------------
\* dspic33_device_internal_can_power_enabled
PowerEnabled(s) ==
    ~s.disabled /\ (s.power = "active" \/ (s.power = "idle" /\ ~s.setting.stop_idle))

\* dspic33_device_internal_can_serial_receive_enabled
SerialEnabled(s) ==
    PowerEnabled(s) /\ ~s.bus_off /\ s.mode \in {"normal", "listen", "listen_all"}

After(s, kind, left) ==
    [s EXCEPT !.events = @ \union {[kind |-> kind, left |-> left, of |-> 0]}]
AfterOf(s, kind, left, of) ==
    [s EXCEPT !.events = @ \union {[kind |-> kind, left |-> left, of |-> of]}]

\* dspic33_device_internal_can_remove_transmit_events
RemoveTransmitEvents(s) ==
    [s EXCEPT !.events = {event \in @ : event.kind \notin TransmitKinds}]

OffBus(s) == [RemoveTransmitEvents(s) EXCEPT !.tx_on_bus = FALSE, !.tx_busy = FALSE]
-----------------------------------------------------------------------------
\* The transmitter.  can_transmit_selection: all buffers have one priority.
Selection(s) == Max(s.requests)

TransmitStart(s) ==
    IF s.tx_busy \/ s.tx_retry_wait THEN s
    ELSE IF ~PowerEnabled(s) \/ s.mode \notin {"normal", "loopback"} \/ s.bus_off
    THEN [s EXCEPT !.missed = s.requests # {}]
    ELSE IF s.requests = {} THEN s
    ELSE IF ~s.setting.dma THEN [s EXCEPT !.missed = TRUE]
    ELSE After([s EXCEPT !.tx_buffer = Selection(s), !.tx_word = 0, !.tx_busy = TRUE,
                         !.missed = FALSE], "tx_word", 0)

TransmitWord(s) ==
    IF s.tx_word >= Words THEN After(s, "tx_finish", 0)
    ELSE After([s EXCEPT !.tx_word = @ + 1], "tx_word", 1)

SampleAfter(s, single, first, left) ==
    After(s, IF s.setting.triple THEN first ELSE single, left)

TransmitFinish(s) ==
    SampleAfter(After([s EXCEPT !.tx_on_bus = TRUE], "bus_finish", (FrameBits + PauseBits) * Bit),
                "tx_sample", "tx_first", Sample)

Received(s, frame) == [s EXCEPT !.queue = Append(@, frame), !.starts = @ + 1]

\* can_transmit_bus_finish
BusFinish(s) ==
    LET done == [s EXCEPT !.requests = @ \ {s.tx_buffer}, !.tx_on_bus = FALSE, !.tx_busy = FALSE,
                          !.errors = IF @ = 0 THEN 0 ELSE @ - 1, !.sent = @ + 1]
        looped == IF s.mode = "loopback"
                  THEN Received([done EXCEPT !.frames = @ + 1], s.frames + 1) ELSE done
    IN  After(looped, "tx_start", 0)

\* dspic33_device_internal_can_error_event, for the transmitter
TransmitErrorEvent(s) ==
    IF s.errors + 2 <= ErrorLimit THEN [s EXCEPT !.errors = @ + 2]
    ELSE LET off == [s EXCEPT !.errors = ErrorLimit, !.bus_off = TRUE]
         IN  IF s.bus_off THEN off
             ELSE After([off EXCEPT !.bus_off_recessive = 0], "bus_off_sample", Bit)

LoseArbitration(s) == [OffBus(s) EXCEPT !.tx_retry_wait = TRUE]

\* can_transmit_error
TransmitError(s) ==
    LET told == TransmitErrorEvent([OffBus(s) EXCEPT !.tx_retry_wait = TRUE, !.serial = FALSE])
    IN  IF told.bus_off THEN [told EXCEPT !.tx_retry_wait = FALSE, !.missed = TRUE]
        ELSE After(told, "tx_error_start", Bit - Sample)

\* The bit of the frame that is on the bus, counted from the last start.
BitIndex(s) ==
    LET left == {0} \union {event.left : event \in {e \in s.events : e.kind = "bus_finish"}}
    IN  ((FrameBits + PauseBits) * Bit - Max(left)) \div Bit

\* dspic33_device_internal_can_monitor_transmit_sample: sent is the bit that
\* the frame has at this place.
Monitor(s, level, sent) ==
    LET index == BitIndex(s)
    IN  CASE ~s.tx_on_bus \/ s.overload \/ index >= FrameBits + PauseBits -> s
          [] s.tx_on_bus /\ ~s.overload /\ index = CrcBit ->
               IF level THEN TransmitError(s) ELSE s
          [] OTHER ->
               LET bit == sent \/ index > CrcBit
               IN  IF bit = level THEN s
                   ELSE IF index = 0 /\ bit THEN LoseArbitration(s)
                   ELSE TransmitError(s)

TransmitSample(s, level, sent) ==
    IF ~s.tx_on_bus THEN s
    ELSE LET monitored == IF s.physical THEN Monitor(s, level, sent) ELSE s
         IN  IF monitored.tx_on_bus THEN SampleAfter(monitored, "tx_sample", "tx_first", Bit)
             ELSE monitored

High(s) == IF s.pin THEN 1 ELSE 0

TransmitTriple(s, kind, sent) ==
    CASE kind = "tx_first" /\ s.tx_on_bus -> After([s EXCEPT !.tx_high = High(s)], "tx_second", 0)
      [] kind = "tx_second" /\ s.tx_on_bus ->
           After([s EXCEPT !.tx_high = @ + High(s)], "tx_sample", 0)
      [] kind = "tx_sample" ->
           TransmitSample([s EXCEPT !.tx_high = 0], s.tx_high + High(s) >= 2, sent)
      [] OTHER -> s

TransmitErrorStart(s) ==
    IF ~s.tx_retry_wait THEN s
    ELSE After([s EXCEPT !.tx_error_active = TRUE], "tx_retry",
               Bit * IF s.errors > ErrorLimit \div 2 /\ ~s.bus_off THEN PassiveBits ELSE RetryBits)

TransmitRetry(s) == TransmitStart([s EXCEPT !.tx_error_active = FALSE, !.tx_retry_wait = FALSE])

BusOffSample(s) ==
    LET seen == IF ~s.physical \/ s.pin THEN s.bus_off_recessive + 1 ELSE 0
    IN  IF ~s.bus_off THEN s
        ELSE IF seen = RecoverBits
        THEN After([s EXCEPT !.bus_off_recessive = 0, !.errors = 0, !.bus_off = FALSE],
                   "tx_start", 0)
        ELSE After([s EXCEPT !.bus_off_recessive = seen], "bus_off_sample", Bit)
-----------------------------------------------------------------------------
\* The receiver.  can_receive_start: the first frame is taken, or lost; match
\* says what the filters make of it.
NextBuffer(buffer) == IF buffer = FifoSize THEN 1 ELSE buffer + 1

ReceiveStart_Overwrites(s, match) ==   \* mutant: a full buffer takes the frame
    IF s.rx_busy \/ s.queue = <<>> THEN s
    ELSE LET popped == [s EXCEPT !.queue = Tail(@)]
         IN  After([popped EXCEPT !.rx_frame = Head(s.queue), !.rx_buffer = s.fifo_write,
                                  !.rx_word = 0, !.rx_busy = TRUE], "rx_word", 0)

ReceiveStart(s, match) ==
    IF s.rx_busy \/ s.queue = <<>> THEN s
    ELSE LET popped == [s EXCEPT !.queue = Tail(@), !.skipped = Len(s.queue) > 1]
             accepted == IF s.mode = "listen_all" THEN "fifo" ELSE match
         IN  IF ~PowerEnabled(s) \/ s.mode \in {"disable", "configuration"} \/ accepted = "none"
             THEN popped
             ELSE IF accepted = "remote"
             THEN After([popped EXCEPT !.requests = @ \union {1},
                                       !.asked = IF 1 \in s.requests THEN @ ELSE @ + 1],
                        "tx_start", 0)
             ELSE IF s.fifo_write \in s.full
             THEN [popped EXCEPT !.fifo_write = NextBuffer(@)]
             ELSE IF ~s.setting.dma THEN popped
             ELSE After([popped EXCEPT !.rx_frame = Head(s.queue), !.rx_buffer = s.fifo_write,
                                       !.rx_word = 0, !.rx_busy = TRUE, !.skipped = FALSE],
                        "rx_word", 0)

\* can_receive_success_start: the frame is the first that is pending.
ReceiveSuccess(s, match) ==
    ReceiveStart([s EXCEPT !.queue = Append(@, Head(s.pending).frame), !.pending = Tail(@)], match)

ReceiveWord(s) ==
    IF s.rx_word >= Words THEN After(s, "rx_finish", 0)
    ELSE After([s EXCEPT !.rx_word = @ + 1, !.stored[s.rx_buffer] = s.rx_frame], "rx_word", 1)

ReceiveFinish(s) ==
    [s EXCEPT !.full = @ \union {s.rx_buffer}, !.fifo_write = NextBuffer(s.rx_buffer),
              !.rx_busy = FALSE, !.starts = IF s.queue # <<>> THEN @ + 1 ELSE @]

StartOverload_SameGeneration(s) ==   \* mutant: the pause that is cut short still ends
    IF s.overloads >= 2 THEN s
    ELSE AfterOf([s EXCEPT !.intermission = FALSE, !.overload = TRUE, !.overloads = @ + 1],
                 "overload_finish", FlagBits * Bit, s.generation)

StartOverload(s) ==
    IF s.overloads >= 2 THEN s
    ELSE AfterOf([s EXCEPT !.generation = @ + 1, !.intermission = FALSE, !.overload = TRUE,
                           !.overloads = @ + 1],
                 "overload_finish", FlagBits * Bit, s.generation + 1)

ScheduleIntermission(s) ==
    AfterOf([s EXCEPT !.intermission = TRUE], "pause_finish", PauseBits * Bit, s.generation)

IntermissionFinish(s, generation) ==
    IF generation # s.generation THEN s
    ELSE [s EXCEPT !.intermission = FALSE, !.overloads = 0]

OverloadFinish(s, generation) ==
    IF generation # s.generation THEN s ELSE ScheduleIntermission([s EXCEPT !.overload = FALSE])

Named(s) == [s EXCEPT !.frames = @ + 1]

\* dspic33_device_internal_can_receive_error
ReceiveError(s) ==
    LET ended == [s EXCEPT !.serial = FALSE]
        kept == IF s.mode = "listen_all" THEN Received(Named(ended), s.frames + 1) ELSE ended
    IN  IF s.mode = "listen" THEN ended ELSE After(kept, "rx_error_start", Bit - Sample)

\* A whole frame: what was lost to another node is tried again after it.
Valid(s, level) ==
    LET paused == ScheduleIntermission([s EXCEPT !.serial = FALSE, !.generation = @ + 1,
                                                 !.overloads = 0])
        taken == Received(Named(paused), s.frames + 1)
        again == IF s.tx_retry_wait THEN After(taken, "tx_retry", PauseBits * Bit) ELSE taken
    IN  IF s.tx_on_bus THEN paused
        ELSE IF ~level /\ s.mode # "listen" THEN StartOverload(again)
        ELSE again

\* can_receive_sample: good is whether the bits so far make a frame.
ReceiveSample(s, level, good) ==
    IF ~s.serial \/ ~SerialEnabled(s) THEN [s EXCEPT !.serial = FALSE]
    ELSE LET bits == s.count + 1
             seen == [s EXCEPT !.count = bits, !.broken = @ \/ (bits = CrcBit /\ ~level)]
             next == SampleAfter(seen, "rx_sample", "rx_first", Bit)
         IN  CASE bits < CrcBit -> IF good THEN next ELSE ReceiveError(seen)
               [] bits = CrcBit ->
                    IF level /\ ~s.tx_on_bus /\ s.mode # "listen"
                    THEN After(next, "ack_start", Bit - Sample) ELSE next
               [] CrcBit < bits /\ bits < FrameBits -> next
               [] OTHER -> IF seen.broken THEN ReceiveError(seen) ELSE Valid(seen, level)

ReceiveTriple(s, kind, good) ==
    CASE kind = "rx_first" /\ s.serial -> After([s EXCEPT !.rx_high = High(s)], "rx_second", 0)
      [] kind = "rx_second" /\ s.serial ->
           After([s EXCEPT !.rx_high = @ + High(s)], "rx_sample", 0)
      [] kind = "rx_sample" ->
           ReceiveSample([s EXCEPT !.rx_high = 0], s.rx_high + High(s) >= 2, good)
      [] OTHER -> s

AckStart(s) ==
    IF ~SerialEnabled(s) \/ s.mode = "listen" THEN s
    ELSE After([s EXCEPT !.rx_ack = TRUE], "ack_finish", Bit)

ReceiveErrorStart(s) == After([s EXCEPT !.rx_error_active = TRUE], "rx_error_finish", FlagBits * Bit)

\* can_receive_pin_level
PinLevel(s, level) ==
    LET moved == [s EXCEPT !.pin = level, !.physical = TRUE]
        starts == [moved EXCEPT !.serial = TRUE, !.count = 0, !.broken = FALSE, !.rx_high = 0]
    IN  IF s.bus_off \/ ~s.pin \/ level THEN moved
        ELSE IF s.intermission THEN StartOverload(moved)
        ELSE IF s.serial \/ s.rx_error_active \/ s.tx_error_active \/ ~SerialEnabled(s) THEN moved
        ELSE SampleAfter(starts, "rx_sample", "rx_first", Sample)
-----------------------------------------------------------------------------
\* The mode that is asked for is reached after a pause on the bus.
ModeTransition(s, event) ==
    LET quiet == /\ PowerEnabled(s) /\ (~s.physical \/ s.pin)
                 /\ ~(s.tx_busy \/ s.rx_busy \/ s.serial \/ s.tx_error_active
                      \/ s.rx_error_active \/ s.rx_ack)
        bits == IF quiet THEN s.mode_recessive + 1 ELSE 0
        reached == [s EXCEPT !.mode_recessive = bits, !.mode = s.requested]
    IN  CASE event.of # s.mode_generation \/ s.requested = s.mode -> s
          [] event.of = s.mode_generation /\ s.requested # s.mode /\ bits < IdleBits ->
               [s EXCEPT !.mode_recessive = bits,
                         !.events = @ \union {[event EXCEPT !.left = Bit]}]
          [] OTHER ->
               IF s.requested = "configuration"
               THEN [reached EXCEPT !.errors = 0, !.bus_off = FALSE]
               ELSE IF s.requested \in {"normal", "loopback"} THEN After(reached, "tx_start", 0)
               ELSE reached

\* dspic33_device_internal_run_can: a module that is disabled loses the event.
RunCan(s, event, match, bit) ==
    IF s.disabled THEN [s EXCEPT !.astray = TRUE]
    ELSE CASE event.kind = "tx_start" -> TransmitStart(s)
           [] event.kind = "tx_word" -> TransmitWord(s)
           [] event.kind = "tx_finish" -> TransmitFinish(s)
           [] event.kind = "bus_finish" -> BusFinish(s)
           [] event.kind \in {"tx_sample", "tx_first", "tx_second"} ->
                IF s.setting.triple THEN TransmitTriple(s, event.kind, bit)
                ELSE TransmitSample(s, s.pin, bit)
           [] event.kind = "tx_error_start" -> TransmitErrorStart(s)
           [] event.kind = "tx_retry" -> TransmitRetry(s)
           [] event.kind = "bus_off_sample" -> BusOffSample(s)
           [] event.kind = "rx_success" -> ReceiveSuccess(s, match)
           [] event.kind = "rx_word" -> ReceiveWord(s)
           [] event.kind = "rx_finish" -> ReceiveFinish(s)
           [] event.kind \in SerialKinds ->
                IF s.setting.triple THEN ReceiveTriple(s, event.kind, bit)
                ELSE ReceiveSample(s, s.pin, bit)
           [] event.kind = "ack_start" -> AckStart(s)
           [] event.kind = "ack_finish" -> [s EXCEPT !.rx_ack = FALSE]
           [] event.kind = "rx_error_start" -> ReceiveErrorStart(s)
           [] event.kind = "rx_error_finish" -> [s EXCEPT !.rx_error_active = FALSE]
           [] event.kind = "mode" -> ModeTransition(s, event)
           [] event.kind = "pause_finish" -> IntermissionFinish(s, event.of)
           [] event.kind = "overload_finish" -> OverloadFinish(s, event.of)
-----------------------------------------------------------------------------
Due == {event \in can.events : event.left = 0}
Quiet == Due = {} /\ can.starts = 0
Executes == can.power = "active" /\ ~can.disabled /\ Quiet

\* An event of the budget is spent.
Spent(what) == [can EXCEPT !.budget[what] = @ - 1]

\* can_update_transmit_control: TXREQ is set, or cleared.
RequestTransmit(buffer) ==
    /\ Executes /\ can.asked < can.setting.budget.requests /\ buffer \notin can.requests
    /\ can' = After([can EXCEPT !.requests = @ \union {buffer}, !.asked = @ + 1],
                    "tx_start", 0)


AbortTransmit(buffer) ==
    LET cleared == [can EXCEPT !.requests = @ \ {buffer}, !.aborted = @ + 1]
    IN  IF can.tx_busy /\ can.tx_buffer = buffer
        THEN After([OffBus(cleared) EXCEPT !.tx_retry_wait = FALSE, !.tx_error_active = FALSE],
                   "tx_start", 0)
        ELSE cleared

ClearRequest(buffer) == Executes /\ buffer \in can.requests /\ can' = AbortTransmit(buffer)

\* ABAT (can_abort_transmissions)
AbortAll ==
    /\ Executes /\ can.requests # {}
    /\ can' = [OffBus(can) EXCEPT !.requests = {}, !.aborted = @ + Cardinality(can.requests),
                                  !.tx_retry_wait = FALSE, !.tx_error_active = FALSE]

\* REQOP
RequestMode(mode) ==
    /\ Executes /\ can.budget.changes > 0 /\ mode # can.requested
    /\ LET asked == [Spent("changes") EXCEPT !.requested = mode, !.mode_generation = @ + 1]
       IN  can' = IF mode = can.mode THEN asked
                  ELSE AfterOf([asked EXCEPT !.mode_recessive = 0], "mode", Bit,
                               asked.mode_generation)

\* can_clear_receive_flags; the program has read the buffer.
ReadBuffer(buffer) ==
    /\ Executes /\ buffer \in can.full
    /\ can' = [can EXCEPT !.full = @ \ {buffer}, !.stored[buffer] = 0]

ChangePower(power) ==
    /\ Quiet /\ (can.power = "active") # (power = "active") /\ can.budget.changes > 0
    /\ can' = [Spent("changes") EXCEPT !.power = power]

\* The change of PMDx takes effect (run_platform_pmd).
DisableEvent(disabled) ==
    /\ Quiet /\ disabled # can.disabled /\ can.budget.changes > 0
    /\ LET changed == [Spent("changes") EXCEPT !.disabled = disabled]
       IN  can' = IF disabled
                  THEN [changed EXCEPT !.rx_busy = FALSE, !.tx_busy = FALSE,
                                       !.astray = @ \/ can.events # {}]
                  ELSE changed

\* dspic33_can_receive: pending frames are kept in the order of their events.
HostFrame(delay) ==
    /\ Quiet /\ can.budget.frames > 0
    /\ LET frame == can.frames + 1
           before == SelectSeq(can.pending, LAMBDA other : other.left <= delay)
           behind == SelectSeq(can.pending, LAMBDA other : other.left > delay)
           entry == [frame |-> frame, left |-> delay]
       IN  can' = AfterOf([Named(Spent("frames")) EXCEPT !.pending = before \o <<entry>> \o behind],
                          "rx_success", delay, frame)

\* dspic33_can_error, for the transmitter
HostError ==
    /\ Quiet /\ can.budget.errors > 0
    /\ can' = IF can.disabled THEN Spent("errors") ELSE TransmitErrorEvent(Spent("errors"))

HostEdge ==
    /\ can.starts = 0 /\ can.budget.edges > 0
    /\ can' = PinLevel(Spent("edges"), ~can.pin)

\* What the filters may make of a frame; a remote frame is answered from buffer 1.
Matches == {"fifo", "none"}
           \union IF can.asked < can.setting.budget.requests THEN {"remote"} ELSE {}

First(event) == \A other \in Due : other.kind = "rx_success" => event.of <= other.of

Dispatch ==
    \E event \in Due, match \in Matches, bit \in BOOLEAN :
       /\ event.kind = "rx_success" => First(event)
       /\ can' = RunCan([can EXCEPT !.events = @ \ {event}], event, match, bit)

DispatchReceiveStart ==
    /\ can.starts > 0
    /\ LET taken == [can EXCEPT !.starts = @ - 1]
       IN  \E match \in Matches :
              can' = IF can.disabled THEN [taken EXCEPT !.astray = TRUE]
                     ELSE ReceiveStart(taken, match)

Tick ==
    /\ Quiet /\ can.events # {}
    /\ can' = [can EXCEPT !.events = {[event EXCEPT !.left = @ - 1] : event \in @},
                          !.pending = [i \in DOMAIN @ |->
                                         [@[i] EXCEPT !.left = IF @ = 0 THEN 0 ELSE @ - 1]]]

Program ==
    \/ \E buffer \in Buffers : RequestTransmit(buffer) \/ ClearRequest(buffer)
    \/ AbortAll
    \/ \E mode \in Modes : RequestMode(mode)
    \/ \E buffer \in 1..FifoSize : ReadBuffer(buffer)
    \/ \E power \in {"active", "idle", "sleep"} : ChangePower(power)
    \/ \E disabled \in BOOLEAN : DisableEvent(disabled)

Host == (\E delay \in 1..2 : HostFrame(delay)) \/ HostError \/ HostEdge

Next == Program \/ Host \/ Dispatch \/ DispatchReceiveStart \/ Tick

Spec == Init /\ [][Next]_can
-----------------------------------------------------------------------------
TypeOK ==
    /\ can.setting \in Settings /\ can.power \in {"active", "idle", "sleep"}
    /\ can.mode \in Modes /\ can.requested \in Modes
    /\ can.requests \subseteq Buffers /\ can.tx_buffer \in Buffers
    /\ can.full \subseteq 1..FifoSize /\ can.fifo_write \in 1..FifoSize
    /\ can.errors \in 0..ErrorLimit /\ can.count \in 0..FrameBits
    /\ can.overloads \in 0..2 /\ can.starts \in Nat
    /\ can.events \subseteq CanEvent

Live(kinds) == {event \in can.events : event.kind \in kinds}

\* A frame that is sent has the one event that takes it further, and on the bus
\* the samples that watch it.  A request waits for no event only while another
\* node's frame is awaited, or when it was seen with the channel stopped: in
\* Idle or Sleep, in another mode, off the bus, without a DMA channel.
TransmitterAgrees ==
    /\ Cardinality(Live({"tx_word", "tx_finish", "bus_finish"})) = IF can.tx_busy THEN 1 ELSE 0
    /\ can.tx_on_bus <=> Live({"bus_finish"}) # {}
    /\ can.tx_on_bus => Live({"tx_sample", "tx_first", "tx_second"}) # {}
    /\ can.tx_busy => ~can.tx_retry_wait /\ ~can.tx_error_active
    /\ can.tx_error_active => Live({"tx_retry"}) # {}
    /\ can.bus_off => Live({"bus_off_sample"}) # {}
    /\ can.requests # {}
       => \/ can.tx_busy \/ can.tx_retry_wait \/ can.missed
          \/ Live({"tx_start", "tx_retry"}) # {}

\* A frame is received by the one event that takes it further, a bit by its
\* sample; a queued frame waits for the end of another, or was passed over when
\* the one before it was lost.
ReceiverAgrees ==
    /\ Cardinality(Live({"rx_word", "rx_finish"})) = IF can.rx_busy THEN 1 ELSE 0
    /\ can.serial => Live(SerialKinds) # {}
    /\ can.rx_ack => Live({"ack_finish"}) # {}
    /\ can.rx_error_active => Live({"rx_error_finish"}) # {}
    /\ can.queue # <<>> => can.rx_busy \/ can.starts > 0 \/ can.skipped

Current(kind) == {event \in Live({kind}) : event.of = can.generation}

\* A pause, an overload flag and a change of mode have the one end that counts.
PauseAgrees ==
    /\ can.intermission <=> Current("pause_finish") # {}
    /\ can.overload <=> Current("overload_finish") # {}
    /\ can.requested # can.mode
       => \E event \in Live({"mode"}) : event.of = can.mode_generation

\* What the channel says it is doing and what the queue will do agree, unless
\* the module was disabled with events on their way, which are lost.
EventsAgree == ~can.astray => TransmitterAgrees /\ ReceiverAgrees /\ PauseAgrees

\* A request is sent once, called off, or still there, and what is being sent
\* was asked for; a buffer that is full keeps its frame until it is read; and
\* the frames the host handed in are those whose events are to come, in order.
WordsKept ==
    ~can.astray =>
    /\ can.asked = can.sent + can.aborted + Cardinality(can.requests)
    /\ can.tx_busy => can.tx_buffer \in can.requests
    /\ \A buffer \in can.full : can.stored[buffer] # 0
    /\ can.rx_busy => can.rx_buffer \notin can.full
    /\ {[frame |-> event.of, left |-> event.left] : event \in Live({"rx_success"})}
       = ToSet(can.pending)
    /\ \A i, j \in DOMAIN can.pending :
          i < j => \/ can.pending[i].left < can.pending[j].left
                   \/ /\ can.pending[i].left = can.pending[j].left
                      /\ can.pending[i].frame < can.pending[j].frame

\* "losing CAN transmission records TXLARB and begins an automatic retry"
\* (tests/device/dspic33ep_mu/communication/can/bus.c): a node that waits to
\* try again is receiving the frame it lost to, or has the retry to come.
RetryComes ==
    can.tx_retry_wait /\ ~can.astray /\ can.mode = "normal" /\ can.power = "active"
    => can.serial \/ Live({"tx_retry", "tx_error_start"}) # {}

=============================================================================
