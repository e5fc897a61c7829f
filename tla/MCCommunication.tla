-------------------------- MODULE MCCommunication --------------------------
\* One channel of one of the communication peripherals at a time: they share no
\* state but the event queue, and no event of one is about another. The UART is the module
\* this one extends, so that EventsAgree and WordsKept are its own, the properties
\* that UartProofs proves.
EXTENDS Uart

CONSTANT Devices

UartBase == [flow |-> FALSE, loopback |-> FALSE, addressed |-> FALSE, threshold |-> 2,
             every |-> FALSE, stop_idle |-> TRUE, words |-> 0, frames |-> 0]
UartSettings == {[UartBase EXCEPT !.flow = TRUE, !.words = 3],
                 [UartBase EXCEPT !.stop_idle = FALSE, !.frames = 3],
                 [UartBase EXCEPT !.addressed = TRUE, !.threshold = 1, !.frames = 2],
                 [UartBase EXCEPT !.loopback = TRUE, !.every = TRUE, !.words = 3]}

SpiBase == [master |-> TRUE, enhanced |-> FALSE, ssen |-> FALSE, framing |-> "none",
            delayed |-> FALSE, sampled |-> TRUE, stop_idle |-> TRUE]
SpiSettings == {SpiBase,
                [SpiBase EXCEPT !.enhanced = TRUE, !.framing = "master", !.sampled = FALSE],
                [SpiBase EXCEPT !.framing = "slave", !.delayed = TRUE],
                [SpiBase EXCEPT !.master = FALSE, !.ssen = TRUE],
                [SpiBase EXCEPT !.master = FALSE, !.ssen = TRUE, !.enhanced = TRUE]}

I2cBase == [pins |-> FALSE, nack |-> FALSE, stretch |-> FALSE, ipmi |-> FALSE, stop_idle |-> TRUE,
            commands |-> 0, answers |-> 0, bytes |-> 0, changes |-> 1]
I2cSettings == {[I2cBase EXCEPT !.commands = 2, !.answers = 1],
                [I2cBase EXCEPT !.commands = 1, !.changes = 2],
                [I2cBase EXCEPT !.commands = 1, !.pins = TRUE, !.stop_idle = FALSE],
                [I2cBase EXCEPT !.bytes = 2, !.pins = TRUE, !.stop_idle = FALSE],
                [I2cBase EXCEPT !.bytes = 3, !.stretch = TRUE],
                [I2cBase EXCEPT !.bytes = 3, !.nack = TRUE, !.ipmi = TRUE]}

Budget == [requests |-> 0, frames |-> 0, edges |-> 0, errors |-> 0, changes |-> 0]
CanBase == [mode |-> "normal", stop_idle |-> TRUE, triple |-> FALSE, dma |-> TRUE,
            budget |-> Budget]
CanSettings == {[CanBase EXCEPT !.budget.requests = 1, !.budget.edges = 4],
                [CanBase EXCEPT !.budget.requests = 2, !.budget.changes = 2],
                [CanBase EXCEPT !.budget.requests = 1, !.budget.errors = 2, !.budget.changes = 1],
                [CanBase EXCEPT !.budget.requests = 1, !.budget.frames = 3],
                [CanBase EXCEPT !.stop_idle = FALSE, !.budget.frames = 1, !.budget.requests = 1,
                                !.budget.changes = 1],
                [CanBase EXCEPT !.mode = "loopback", !.budget.requests = 1, !.budget.edges = 2],
                [CanBase EXCEPT !.mode = "listen_all", !.budget.frames = 1, !.budget.edges = 4],
                [CanBase EXCEPT !.mode = "listen", !.budget.edges = 4],
                [CanBase EXCEPT !.triple = TRUE, !.budget.requests = 1, !.budget.edges = 2],
                [CanBase EXCEPT !.dma = FALSE, !.budget.requests = 1, !.budget.frames = 1,
                                !.budget.changes = 1]}

DciBase == [external_clock |-> FALSE, external_frame |-> FALSE, justify |-> FALSE, rising |-> TRUE,
            both_edges |-> FALSE, stop_idle |-> TRUE, pins |-> TRUE, buffers |-> 2, slots |-> 2,
            transmit |-> {0}, receive |-> {1}, accesses |-> FALSE, changes |-> 4]
DciSettings == {[DciBase EXCEPT !.slots = 3, !.transmit = {0, 1}, !.receive = {0, 2}],
                [DciBase EXCEPT !.external_frame = TRUE, !.rising = FALSE, !.buffers = 1],
                [DciBase EXCEPT !.external_frame = TRUE, !.justify = TRUE, !.both_edges = TRUE,
                                !.slots = 1, !.receive = {0}, !.stop_idle = FALSE],
                [DciBase EXCEPT !.external_frame = TRUE, !.pins = FALSE],
                [DciBase EXCEPT !.external_clock = TRUE, !.buffers = 3],
                [DciBase EXCEPT !.external_clock = TRUE, !.external_frame = TRUE,
                                !.receive = {0, 1}],
                [DciBase EXCEPT !.external_clock = TRUE, !.external_frame = TRUE, !.pins = FALSE,
                                !.receive = {0, 1}, !.accesses = TRUE, !.changes = 2],
                [DciBase EXCEPT !.pins = FALSE, !.receive = {0}, !.accesses = TRUE,
                                !.changes = 2]}

VARIABLES device, spi, i2c, can, dci
channelVars == <<device, uart, spi, i2c, can, dci>>

S == INSTANCE Spi WITH Settings <- SpiSettings, EnhancedSize <- 2, Width <- 2, MaxWords <- 3,
                       MaxGeneration <- 2
I == INSTANCE I2c WITH Settings <- I2cSettings, Width <- 2
C == INSTANCE Can WITH Settings <- CanSettings, Buffers <- {1, 2}, FifoSize <- 2, ErrorLimit <- 3
D == INSTANCE Dci WITH Settings <- DciSettings, Bit <- 2, Width <- 4, QueueSize <- 2

ASSUME UartAssumption /\ S!SpiAssumption /\ I!I2cAssumption /\ C!CanAssumption /\ D!DciAssumption

\* The channels that are not looked at stay as one of their initial states.
IdleUart == CHOOSE setting \in Settings : TRUE

ChannelsInit ==
    /\ device \in Devices
    /\ IF device = "uart" THEN Init ELSE uart = Fresh(IdleUart)
    /\ IF device = "spi" THEN S!Init ELSE spi = S!Fresh(SpiBase)
    /\ IF device = "i2c" THEN I!Init ELSE i2c = I!Fresh(I2cBase)
    /\ IF device = "can" THEN C!Init ELSE can = C!Fresh(CanBase)
    /\ IF device = "dci" THEN D!Init ELSE dci = D!Fresh(DciBase)

\* A program that has nothing to send leaves the UART's transmitter off.
KeepsToReception == uart'.setting.words = 0 => ~uart'.txen

ChannelsNext ==
    \/ device = "uart" /\ Next /\ KeepsToReception /\ UNCHANGED <<device, spi, i2c, can, dci>>
    \/ device = "spi" /\ S!Next /\ UNCHANGED <<device, uart, i2c, can, dci>>
    \/ device = "i2c" /\ I!Next /\ UNCHANGED <<device, uart, spi, can, dci>>
    \/ device = "can" /\ C!Next /\ UNCHANGED <<device, uart, spi, i2c, dci>>
    \/ device = "dci" /\ D!Next /\ UNCHANGED <<device, uart, spi, i2c, can>>

ChannelsSpec == ChannelsInit /\ [][ChannelsNext]_channelVars
-----------------------------------------------------------------------------
\* Registers, queues and events keep to their types, and what a channel says it is
\* doing agrees with the events that will do it: what was stopped, collided or was
\* disabled has no event that still counts, and what was started has the one that
\* ends it.
ChannelsAgree ==
    CASE device = "uart" -> TypeOK
      [] device = "spi" -> S!TypeOK /\ S!EventsAgree
      [] device = "i2c" -> I!TypeOK /\ I!EventsAgree
      [] device = "can" -> C!TypeOK /\ C!EventsAgree
      [] device = "dci" -> D!TypeOK /\ D!EventsAgree


\* "losing CAN transmission records TXLARB and begins an automatic retry"
\* (tests/device/dspic33ep_mu/communication/can/bus.c).
RetryComes == C!RetryComes

=============================================================================
