-------------------------------- MODULE Uart --------------------------------
(***************************************************************************)
(* One UART (communication/uart.c, its registers in                        *)
(* platform/register_updates.c, its pins and power in                      *)
(* platform/gpio/inputs.c): words go from the FIFO through the shift       *)
(* register to the line, frames come from the host or bit by bit from the  *)
(* pin, and the program, the host and the power management stop either     *)
(* half at any moment.  What is stopped leaves its events in the queue,    *)
(* and only a generation tells them from those of the next frame.          *)
(*                                                                         *)
(* Handlers are functions from the state of the UART to the next, composed *)
(* as the calls of the code are.                                           *)
(*                                                                         *)
(* Words and frames are numbered.  A frame has one bit of each kind and    *)
(* one sample a bit; the fields of UxMODE that pick a format are one       *)
(* thing, and so are the pulses of IrDA and the levels of the pins the     *)
(* UART drives.  Left out: UTXISEL = 1, under which an empty FIFO stops    *)
(* the simulation (an erratum), and an event queue that cannot grow.       *)
(***************************************************************************)
EXTENDS Integers, Sequences, FiniteSets, SequencesExt

CONSTANTS FifoSize,       \* DSPIC33_UART_FIFO_SIZE
          Settings,       \* of UEN, LPBACK, ADDEN, URXISEL, UTXISEL and USIDL, of which the
                          \* program keeps one; bounds: the words it writes and the frames
                          \* that come under it
          MaxGeneration   \* bound: the program, the host and the pin stop moving the UART

UartAssumption ==
    /\ FifoSize \in Nat \ {0} /\ MaxGeneration \in Nat
    /\ Settings \subseteq [flow : BOOLEAN, loopback : BOOLEAN, addressed : BOOLEAN,
                           threshold : 1..FifoSize, every : BOOLEAN, stop_idle : BOOLEAN,
                           words : Nat, frames : Nat]

VARIABLE uart   \* the registers and cpu->io.uart_* of the channel, its events, the pins and history

Bits == <<"start", "data", "stop">>

\* frame: history, the word or the reception an event is about.
UartEvent == [kind : {"transmit", "pin", "sample"}, generation : Nat, phase : 0..Len(Bits),
              left : 0..Len(Bits) + 1, frame : Nat]

Fresh(setting) ==
    [setting |-> setting, on |-> FALSE, disabled |-> FALSE, power |-> "active",
     await |-> "nothing",                               \* WAKE or ABAUD
     txen |-> FALSE, brk |-> FALSE, tx |-> <<>>, shift |-> 0, breaking |-> FALSE,
     active |-> FALSE, scheduled |-> FALSE, tgen |-> 0, cts |-> TRUE,
     rx |-> <<>>, hold |-> <<>>, overrun |-> FALSE, receiving |-> FALSE, rgen |-> 0,
     bad |-> FALSE, edges |-> 0, pin |-> "high",
     events |-> {}, raised |-> {},                      \* interrupts of the last step
     \* history: words accepted, the last that left; frames that came, the last
     \* that left; a power state stopped the transmitter
     written |-> 0, gone |-> 0, came |-> 0, taken |-> 0, halted |-> FALSE]

Init == \E setting \in Settings : uart = Fresh(setting)
-----------------------------------------------------------------------------
Raise(u, irqs) == [u EXCEPT !.raised = @ \union irqs]

Stopped(u, power) == power = "sleep" \/ (power = "idle" /\ u.setting.stop_idle)

\* The events of one frame: it completes after its last bit.
TransmitEvents(u) ==
    {[kind |-> "pin", generation |-> u.tgen, phase |-> i, left |-> i, frame |-> u.shift]
        : i \in 1..Len(Bits)}
    \union {[kind |-> "transmit", generation |-> u.tgen, phase |-> 0, left |-> Len(Bits) + 1,
             frame |-> u.shift]}

CtsAllows(u) == ~u.setting.flow \/ u.cts

\* dspic33_device_internal_uart_schedule_transmit
ScheduleTransmit(u) ==
    IF ~u.active \/ u.scheduled \/ ~CtsAllows(u) THEN u
    ELSE [u EXCEPT !.scheduled = TRUE, !.events = @ \union TransmitEvents(u)]

TransmitterEnabled(u) == ~u.disabled /\ u.on /\ u.txen

\* dspic33_device_internal_uart_start_transmit
CanStart_Active(u) == TransmitterEnabled(u) /\ u.tx # <<>>   \* mutant: one frame is not awaited

CanStart(u) == TransmitterEnabled(u) /\ ~u.active /\ u.tx # <<>>

StartTransmit(u) ==
    IF ~CanStart(u) THEN u
    ELSE LET started == [u EXCEPT !.shift = Head(u.tx), !.tx = Tail(@), !.breaking = u.brk,
                                  !.active = TRUE, !.halted = FALSE]
             told == ~u.brk /\ (u.setting.every \/ started.tx = <<>>)
         IN  ScheduleTransmit(Raise(started, IF told THEN {"tx"} ELSE {}))

\* dspic33_device_internal_uart_clear_transmit
ClearTransmit_SameGeneration(u) ==   \* mutant: what is on its way still counts
    [u EXCEPT !.tx = <<>>, !.shift = 0, !.active = FALSE, !.scheduled = FALSE, !.gone = u.written]

ClearTransmit(u) ==
    [u EXCEPT !.tx = <<>>, !.shift = 0, !.active = FALSE, !.scheduled = FALSE,
              !.tgen = @ + 1, !.gone = u.written]

\* dspic33_device_internal_uart_clear_receive
ClearReceive(u) ==
    [u EXCEPT !.rx = <<>>, !.hold = <<>>, !.overrun = FALSE, !.receiving = FALSE,
              !.rgen = @ + 1, !.taken = u.came]

\* dspic33_device_internal_uart_reset_runtime
ResetRuntime(u) ==
    [ClearReceive(ClearTransmit(u)) EXCEPT !.txen = FALSE, !.brk = FALSE, !.halted = FALSE]

\* dspic33_device_internal_uart_disable_module: a transmitter that was off
\* keeps the words it was given.
DisableModule(u) ==
    IF u.txen THEN ResetRuntime(u)
    ELSE [ResetRuntime(u) EXCEPT !.tx = u.tx, !.gone = u.written - Len(u.tx)]

CancelReceive(u) == [u EXCEPT !.receiving = FALSE, !.rgen = @ + 1, !.bad = FALSE]

ResetAutoBaud(u) == [u EXCEPT !.edges = 0]

Sleepless(u) == [u EXCEPT !.await = "nothing"]

\* dspic33_device_internal_uart_receive_complete
Received_Overrun(u, frame) ==   \* mutant: a full buffer takes the word
    IF u.disabled \/ ~u.on THEN u
    ELSE Raise([u EXCEPT !.came = @ + 1, !.rx = Append(@, u.came)], {"rx"})

Received(u, frame) ==
    IF u.disabled \/ ~u.on THEN u
    ELSE IF u.await # "nothing" THEN Raise(Sleepless(u), {"rx"})
    ELSE IF u.setting.addressed /\ ~frame.address THEN u
    ELSE LET came == [u EXCEPT !.came = @ + 1] IN
         IF u.overrun THEN came
         ELSE IF Len(u.rx) = FifoSize
         THEN Raise([came EXCEPT !.hold = <<came.came>>, !.overrun = TRUE], {"error"})
         ELSE Raise([came EXCEPT !.rx = Append(@, came.came)],
                    (IF Len(u.rx) + 1 >= u.setting.threshold THEN {"rx"} ELSE {})
                    \union (IF frame.bad THEN {"error"} ELSE {}))

\* uart_transmit_complete: an event that is not about the frame in the shift
\* register does nothing.
TransmitComplete(u, event) ==
    IF event.generation # u.tgen \/ ~u.active \/ ~u.scheduled THEN u
    ELSE LET sent == [u EXCEPT !.active = FALSE, !.scheduled = FALSE, !.gone = u.shift]
             looped == IF u.setting.loopback
                       THEN Received(sent, [address |-> TRUE, bad |-> u.breaking])
                       ELSE sent
         IN  StartTransmit(IF u.breaking THEN [looped EXCEPT !.brk = FALSE] ELSE looped)

\* dspic33_device_internal_uart_begin_physical_receive
BeginReceive(u) ==
    [u EXCEPT !.receiving = TRUE, !.bad = FALSE, !.rgen = @ + 1,
              !.events = @ \union
                 {[kind |-> "sample", generation |-> u.rgen + 1, phase |-> i, left |-> i,
                   frame |-> u.rgen + 1] : i \in 1..Len(Bits)}]

\* uart_sample_physical_receive: a pin that cannot be read leaves the bit out,
\* the last one too.
Sample(u, event) ==
    IF event.generation # u.rgen \/ ~u.receiving \/ u.pin = "unreadable" THEN u
    ELSE CASE Bits[event.phase] = "start" -> IF u.pin = "high" THEN CancelReceive(u) ELSE u
           [] Bits[event.phase] = "data" -> u
           [] Bits[event.phase] = "stop" ->
                Received([u EXCEPT !.receiving = FALSE],
                         [address |-> TRUE, bad |-> u.pin = "low"])

\* dspic33_device_internal_uart_auto_baud_edge: the falling edge of the start
\* bit, then five rising ones.
AutoBaudEdge(u, rises) ==
    IF ~rises THEN [u EXCEPT !.edges = IF @ = 0 THEN 1 ELSE @]
    ELSE IF u.edges = 0 THEN u
    ELSE IF u.edges < 5 THEN [u EXCEPT !.edges = @ + 1]
    ELSE Raise(ResetAutoBaud(Sleepless(u)), {"rx"})

Operating(u) == ~u.disabled /\ u.on /\ ~u.setting.loopback /\ ~Stopped(u, u.power)

\* dspic33_device_internal_uart_refresh_pps_inputs, for a pin that was and is readable.
PinEdge(u, rises) ==
    CASE u.await = "baud" -> AutoBaudEdge(u, rises)
      [] u.await = "wake" /\ ~u.setting.loopback ->
           IF rises THEN Sleepless(u) ELSE Raise(u, {"rx"})
      [] OTHER -> IF ~rises /\ Operating(u) /\ ~u.receiving THEN BeginReceive(u) ELSE u

\* dspic33_device_internal_uart_update_power_state
PowerBecomes(u, power) ==
    LET silent == IF u.receiving THEN CancelReceive(u) ELSE u
        idle == IF u.active
                THEN [silent EXCEPT !.tgen = @ + 1, !.active = FALSE, !.scheduled = FALSE,
                                    !.shift = 0, !.gone = u.shift, !.halted = TRUE]
                ELSE silent
    IN  [IF Stopped(u, power) THEN ResetAutoBaud(idle) ELSE u EXCEPT !.power = power]
-----------------------------------------------------------------------------
Due == {event \in uart.events : event.left = 0}
Now == [uart EXCEPT !.raised = {}]
Quiet == uart.tgen < MaxGeneration /\ uart.rgen < MaxGeneration
Executes == uart.power = "active" /\ Due = {} /\ ~uart.disabled

\* UxMODE (dspic33_device_internal_update_uart_register).
WriteMode(on, await, format) ==
    /\ Executes /\ Quiet
    /\ await # "nothing" => uart.came < uart.setting.frames
    /\ LET written == [Now EXCEPT !.on = on, !.await = await]
           counted == IF (await = "baud") # (uart.await = "baud")
                      THEN ResetAutoBaud(written) ELSE written
           heard == IF uart.receiving /\ (format \/ on # uart.on)
                    THEN CancelReceive(counted) ELSE counted
       IN  uart' = IF uart.on /\ ~on THEN DisableModule(heard) ELSE heard

\* UxSTA: UTXEN, UTXBRK and OERR, which can only be cleared.
WriteStatus(txen, brk, overrun) ==
    /\ Executes /\ Quiet
    /\ LET written == [Now EXCEPT !.txen = txen /\ uart.on, !.brk = brk /\ uart.on]
           cleared == IF uart.overrun /\ ~overrun THEN ClearReceive(written) ELSE written
       IN  uart' = CASE uart.txen /\ ~cleared.txen -> ClearTransmit(cleared)
                     [] ~uart.txen /\ cleared.txen -> StartTransmit(Raise(cleared, {"tx"}))
                     [] OTHER -> cleared

\* A word that finds the FIFO full is dropped; UTXBF says so beforehand.
WriteTransmit ==
    /\ Due = {} /\ uart.power # "sleep" /\ uart.written < uart.setting.words
    /\ uart' = IF uart.disabled \/ ~uart.on \/ Len(uart.tx) = FifoSize THEN Now
               ELSE StartTransmit([Now EXCEPT !.written = @ + 1,
                                              !.tx = Append(@, uart.written + 1)])

\* dspic33_device_internal_uart_read_complete
ReadReceive ==
    /\ Executes /\ uart.rx # <<>>
    /\ uart' = [Now EXCEPT !.taken = Head(uart.rx), !.rx = Tail(@) \o uart.hold, !.hold = <<>>]

\* PWRSAV, and the interrupt that ends it.
ChangePower(power) ==
    /\ Due = {} /\ (uart.power = "active") # (power = "active")
    /\ Quiet
    /\ uart' = PowerBecomes(Now, power)

\* The change of PMDx takes effect (run_platform_pmd).
DisableEvent(disabled) ==
    /\ Due = {} /\ disabled # uart.disabled /\ Quiet
    /\ uart' = [IF disabled THEN ResetRuntime(Now) ELSE Now EXCEPT !.disabled = disabled]

\* Calls of the host, when their time has come.
HostFrame(address, bad) ==
    /\ Due = {} /\ uart.came < uart.setting.frames
    /\ uart' = Received(Now, [address |-> address, bad |-> bad])

HostCts(clear) ==
    /\ Due = {} /\ clear # uart.cts
    /\ uart' = LET seen == [Now EXCEPT !.cts = clear]
               IN  IF clear THEN ScheduleTransmit(seen) ELSE seen

HostPin(level) ==
    /\ Due = {} /\ level # uart.pin /\ Quiet /\ uart.came < uart.setting.frames
    /\ uart' = LET seen == [Now EXCEPT !.pin = level]
               IN  IF "unreadable" \in {level, uart.pin} THEN seen
                   ELSE PinEdge(seen, level = "high")

Dispatch ==
    \E event \in Due :
       LET taken == [Now EXCEPT !.events = @ \ {event}]
       IN  uart' = CASE event.kind = "transmit" -> TransmitComplete(taken, event)
                     [] event.kind = "sample" -> Sample(taken, event)
                     [] event.kind = "pin" -> taken

Tick ==
    /\ Due = {} /\ uart.events # {}
    /\ uart' = [Now EXCEPT !.events = {[event EXCEPT !.left = @ - 1] : event \in @}]

Program ==
    \/ \E on, format \in BOOLEAN, await \in {"nothing", "wake", "baud"} :
          WriteMode(on, await, format)
    \/ \E txen, brk, overrun \in BOOLEAN : WriteStatus(txen, brk, overrun)
    \/ WriteTransmit \/ ReadReceive
    \/ \E power \in {"active", "idle", "sleep"} : ChangePower(power)
    \/ \E disabled \in BOOLEAN : DisableEvent(disabled)

Host ==
    \/ \E address, bad \in BOOLEAN : HostFrame(address, bad)
    \/ \E clear \in BOOLEAN : HostCts(clear)
    \/ \E level \in {"high", "low", "unreadable"} : HostPin(level)

Next == Program \/ Host \/ Dispatch \/ Tick

Spec == Init /\ [][Next]_uart
-----------------------------------------------------------------------------
TypeOK ==
    /\ uart.setting \in Settings /\ uart.power \in {"active", "idle", "sleep"}
    /\ uart.await \in {"nothing", "wake", "baud"} /\ uart.edges \in 0..5
    /\ Len(uart.tx) <= FifoSize /\ Len(uart.rx) <= FifoSize /\ Len(uart.hold) <= 1
    /\ uart.events \subseteq UartEvent /\ uart.raised \subseteq {"tx", "rx", "error"}
    /\ \A event \in uart.events :
          event.generation <= IF event.kind = "sample" THEN uart.rgen ELSE uart.tgen

Live(kind) ==
    {event \in uart.events :
        event.kind = kind
        /\ event.generation = IF kind = "sample" THEN uart.rgen ELSE uart.tgen}

\* An event that still counts is about the frame that is under way, and a frame
\* that has been started has its one completion to come; it waits only for CTS,
\* and words wait in the FIFO only for a frame or after a power state stopped one.
EventsAgree ==
    /\ \A event \in Live("transmit") \union Live("pin") :
          uart.active /\ uart.scheduled /\ event.frame = uart.shift
    /\ uart.scheduled => Cardinality(Live("transmit")) = 1
    /\ \A event \in Live("sample") : uart.receiving /\ event.frame = uart.rgen
    /\ uart.active /\ ~uart.scheduled => uart.setting.flow /\ ~uart.cts
    /\ TransmitterEnabled(uart) /\ uart.tx # <<>> => uart.active \/ uart.halted

\* Words leave in the order in which they were accepted and none disappears
\* between the FIFO and the shift register; frames are read in the order they
\* came, without a gap that OERR does not report.
WordsKept ==
    LET sending == (IF uart.active THEN <<uart.shift>> ELSE <<>>) \o uart.tx
        heard == uart.rx \o uart.hold
    IN  /\ sending = [i \in 1..(uart.written - uart.gone) |-> uart.gone + i]
        /\ heard = [i \in 1..Len(heard) |-> uart.taken + i]
        /\ ~uart.overrun => uart.taken + Len(heard) = uart.came
        /\ uart.hold # <<>> => uart.overrun

=============================================================================
