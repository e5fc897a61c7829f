-------------------------------- MODULE I2c --------------------------------
(***************************************************************************)
(* One I2C channel (communication/i2c/controller.c and slave.c).  As a     *)
(* master it gives a command or a byte two events, one that shifts and one *)
(* that ends it, and drives the lines by a third that steps through the    *)
(* phases; the module may be taken away between any two of them, which     *)
(* parks the events, and a collision or a disable abandons them by their   *)
(* generation.  As a slave it answers the events of the host, or the edges *)
(* of the lines, and holds the clock until the program has seen the byte.  *)
(*                                                                         *)
(* One tick is half a period of the clock.  Bytes are numbered; a byte     *)
(* that is sent has bits of one value, and of an address only what it      *)
(* matches is kept.  The records of the transfers the host reads are left  *)
(* out, except what they acknowledge, and so are I2COV = 1 set by the host *)
(* (dspic33_i2c_status) and a queue that is full.  The host keeps to the   *)
(* protocol as far as the API lets it: it says nothing while an answer is  *)
(* outstanding, and repeats a ten bit address only after it was accepted.  *)
(***************************************************************************)
EXTENDS Integers, Sequences, FiniteSets, SequencesExt

CONSTANTS Settings,   \* what is fixed in a behaviour; bounds: the commands and bytes of the
                      \* program, the answers and bytes of the host, and the changes
                      \* that abandon or park events, which stay below 2^8
          Width       \* bits of a byte

I2cAssumption ==
    /\ Settings \subseteq [pins : BOOLEAN, nack : BOOLEAN, stretch : BOOLEAN, ipmi : BOOLEAN,
                           stop_idle : BOOLEAN, commands : Nat, answers : Nat, bytes : Nat,
                           changes : Nat]
    /\ Width \in Nat \ {0}

VARIABLE i2c   \* the registers and cpu->io.i2c_* of the channel, its events, the lines and history

Commands == {"SEN", "RSEN", "PEN", "RCEN", "ACKEN"}
MasterKinds == {"control", "bus_status", "transmit", "transmit_shift"}
SlaveKinds == {"slave_write", "slave_read", "slave_ten_second"}
Kinds == MasterKinds \union SlaveKinds \union {"pin", "pmd"}
Calls == [match : BOOLEAN, low : BOOLEAN, read : BOOLEAN, ten : BOOLEAN]
PinStates == {"idle", "address", "ten_second", "receive", "received", "acknowledge",
              "transmit", "master_acknowledge", "rejected"}

NoCall == [match |-> FALSE, low |-> FALSE, read |-> FALSE, ten |-> FALSE]
NoPin == [op |-> "none", phase |-> 0]

Fresh(setting) ==
    [setting |-> setting, on |-> FALSE, disabled |-> FALSE, pmd |-> FALSE, power |-> "active",
     op |-> "none", sclrel |-> TRUE, tbf |-> FALSE, trstat |-> FALSE, rbf |-> FALSE,
     overflow |-> FALSE, bus |-> "none", ten |-> FALSE, trn |-> 0, ones |-> TRUE, rcv |-> 0,
     generation |-> 0, pmd_generation |-> 0, responses |-> <<>>,
     master_active |-> FALSE, slave_active |-> FALSE, slave_read |-> FALSE, rejected |-> FALSE,
     pin |-> NoPin, clock_low |-> FALSE, data_low |-> FALSE,
     scl |-> TRUE, sda |-> TRUE, clock_high |-> setting.pins, data_high |-> setting.pins,
     listening |-> FALSE, state |-> "idle", next |-> "idle", bits |-> 0, ack |-> FALSE,
     interrupt |-> FALSE, stretched |-> FALSE, call |-> NoCall,
     events |-> {}, raised |-> {},               \* interrupts of the last step
     \* history: commands and bytes of the program, answers and bytes of the
     \* host; those acknowledged and not read; an end that went astray
     commands |-> 0, answers |-> 0, came |-> 0, acked |-> {}, astray |-> FALSE]

Init == \E setting \in Settings : i2c = Fresh(setting)
-----------------------------------------------------------------------------
Enabled(s) == ~s.disabled /\ s.on
StoppedInIdle(s) == s.power = "idle" /\ s.setting.stop_idle
Raise(s, irq) == [s EXCEPT !.raised = @ \union {irq}]

\* dspic33_i2c_internal_schedule_event: a module that is disabled parks the
\* events of its master.
Schedule(s, kind, op, left) ==
    [s EXCEPT !.events = @ \union
       {[kind |-> kind, op |-> op, left |-> left, paused |-> s.disabled /\ kind \in MasterKinds,
         generation |-> CASE kind \in MasterKinds \union {"pin"} -> s.generation
                          [] kind = "pmd" -> s.pmd_generation
                          [] OTHER -> 0]}]

Parked(s, paused) ==
    [s EXCEPT !.events = {IF event.kind \in MasterKinds \union {"pin"}
                          THEN [event EXCEPT !.paused = paused] ELSE event : event \in @}]

\* dspic33_i2c_internal_pin_abort
PinAbort(s) == [s EXCEPT !.pin = NoPin, !.clock_low = FALSE, !.data_low = FALSE]

\* dspic33_i2c_internal_reset_runtime
ResetRuntime(s) ==
    [PinAbort(s) EXCEPT !.generation = @ + 1, !.master_active = FALSE, !.slave_active = FALSE,
                        !.slave_read = FALSE, !.rejected = FALSE, !.responses = <<>>,
                        !.listening = FALSE, !.state = "idle", !.next = "idle", !.bits = 0,
                        !.ack = FALSE, !.interrupt = FALSE, !.stretched = FALSE,
                        !.astray = FALSE]

\* dspic33_i2c_internal_collide
Collide_KeepsGeneration(s) ==   \* mutant: what the collision cut short ends all the same
    IF ~Enabled(s) THEN s
    ELSE Raise([PinAbort(s) EXCEPT !.op = "none", !.tbf = FALSE, !.trstat = FALSE,
                                   !.master_active = FALSE], "master")

Collide(s) ==
    IF ~Enabled(s) THEN s
    ELSE Raise([PinAbort(s) EXCEPT !.op = "none", !.tbf = FALSE, !.trstat = FALSE,
                                   !.generation = @ + 1, !.master_active = FALSE,
                                   !.astray = FALSE], "master")
-----------------------------------------------------------------------------
(* The slave.  Each of its handlers answers at once, or comes back a cycle  *)
(* later while the clock is held.                                           *)

Acknowledges(s) == ~s.rbf /\ ~s.overflow

\* A byte arrives: it is lost when the last one was not read, and answered as
\* the receiver stood before.
Taken(s) ==
    LET came == [s EXCEPT !.came = @ + 1,
                          !.acked = IF Acknowledges(s) THEN @ \union {s.came + 1} ELSE @]
    IN  IF s.rbf THEN [came EXCEPT !.overflow = TRUE]
        ELSE [came EXCEPT !.rcv = came.came, !.rbf = TRUE]

Told(s, interrupt) == IF interrupt THEN Raise(s, "slave") ELSE s

Reject(s) == [s EXCEPT !.slave_active = FALSE, !.slave_read = FALSE, !.rejected = TRUE]

SlaveStart(s, call, by_host) ==
    LET seen == [s EXCEPT !.bus = "start", !.ten = FALSE]
        reads == call.read /\ ~call.ten
        aborts == reads /\ s.setting.ipmi
        known == Told([Taken(seen) EXCEPT !.slave_active = ~aborts, !.sclrel = aborts,
                                          !.slave_read = reads /\ ~aborts], by_host)
    IN  CASE ~Enabled(s) \/ s.rejected -> s
          [] Enabled(s) /\ ~s.rejected /\ ~(call.match \/ s.setting.ipmi) -> Reject(seen)
          [] OTHER -> IF call.ten /\ Acknowledges(s) /\ by_host
                      THEN Schedule(known, "slave_ten_second", "none", 1) ELSE known

SlaveTenSecond(s, call, by_host) ==
    IF ~Enabled(s) \/ ~s.slave_active THEN s
    ELSE IF ~s.sclrel THEN Schedule(s, "slave_ten_second", "none", 1)
    ELSE IF ~(call.low \/ s.setting.ipmi) THEN Reject(s)
    ELSE Told([Taken(s) EXCEPT !.ten = TRUE, !.sclrel = FALSE], by_host)

SlaveTenRestart(s, call, by_host) ==
    IF ~Enabled(s) \/ ~s.slave_active \/ ~s.ten THEN s
    ELSE IF ~(call.match \/ s.setting.ipmi) THEN Reject(s)
    ELSE Told([Taken(s) EXCEPT !.bus = "start", !.slave_active = ~s.setting.ipmi,
                               !.slave_read = ~s.setting.ipmi, !.sclrel = s.setting.ipmi], by_host)

SlaveWrite(s, by_host) ==
    IF ~Enabled(s) \/ ~s.slave_active \/ s.slave_read THEN s
    ELSE IF ~s.sclrel THEN Schedule(s, "slave_write", "none", 1)
    ELSE Told([Taken(s) EXCEPT !.sclrel = @ /\ ~s.setting.stretch], by_host)

\* op is the answer of the master.
SlaveRead(s, ack, require_buffer) ==
    IF ~Enabled(s) \/ ~s.slave_active \/ ~s.slave_read \/ (require_buffer /\ ~s.tbf) THEN s
    ELSE IF ~s.sclrel THEN Schedule(s, "slave_read", IF ack THEN "ack" ELSE "nack", 1)
    ELSE LET sent == IF ack THEN [s EXCEPT !.tbf = FALSE, !.sclrel = FALSE]
                     ELSE [s EXCEPT !.tbf = FALSE, !.slave_active = FALSE, !.slave_read = FALSE]
         IN  Told(sent, ack \/ ~s.ten)

\* The stop also forgets what a master of this channel was sending.
SlaveStop(s) ==
    IF ~Enabled(s) THEN s
    ELSE [s EXCEPT !.bus = "stop", !.ten = FALSE, !.tbf = FALSE, !.trstat = FALSE,
                   !.slave_active = FALSE, !.slave_read = FALSE, !.rejected = FALSE,
                   !.astray = @ \/ s.trstat]
-----------------------------------------------------------------------------
(* The lines of the slave (dspic33_i2c_refresh_pins).                       *)

ClockHigh(s) == s.scl /\ ~s.clock_low
DataHigh(s) == s.sda /\ ~s.data_low

PrepareTransmit(s) ==
    IF s.state # "transmit" THEN s
    ELSE [s EXCEPT !.data_low = s.bits < Width /\ s.tbf /\ ~s.ones]

PinStart(s) ==
    [s EXCEPT !.listening = TRUE, !.ack = FALSE, !.interrupt = FALSE, !.stretched = FALSE,
              !.state = "address", !.next = "idle", !.bits = 0,
              !.clock_low = FALSE, !.data_low = FALSE]

PinStop(s) ==
    [SlaveStop(s) EXCEPT !.listening = FALSE, !.ack = FALSE, !.interrupt = FALSE,
                         !.stretched = FALSE, !.state = "idle", !.next = "idle", !.bits = 0,
                         !.clock_low = FALSE, !.data_low = FALSE]

\* slave_pin_receive_falling: the byte is complete and the answer goes on the
\* line; the clock is held, and the program told, when the answer is over.
AfterAddress(s, ok) ==
    CASE ~ok -> "rejected"
      [] ok /\ s.call.ten /\ ~s.call.read -> "ten_second"
      [] OTHER -> IF s.call.read THEN "transmit" ELSE "receive"

ReceiveFalling(s) ==
    LET heard == CASE s.next = "address" /\ s.call.ten /\ s.call.read ->
                          SlaveTenRestart(s, s.call, FALSE)
                   [] s.next = "address" /\ ~(s.call.ten /\ s.call.read) ->
                          SlaveStart(s, s.call, FALSE)
                   [] s.next = "ten_second" -> SlaveTenSecond(s, s.call, FALSE)
                   [] OTHER -> SlaveWrite(s, FALSE)
        ok == Acknowledges(s) /\ heard.slave_active /\ (s.next # "receive" => ~heard.rejected)
    IN  [heard EXCEPT !.next = CASE s.next = "address" -> AfterAddress(s, ok)
                                 [] s.next = "ten_second" -> IF ok THEN "receive" ELSE "rejected"
                                 [] OTHER -> "receive",
                      !.interrupt = IF s.next = "receive" THEN heard.slave_active ELSE ok,
                      !.ack = ok, !.data_low = ok, !.state = "acknowledge", !.bits = 1,
                      !.stretched = ~heard.sclrel, !.sclrel = TRUE,
                      !.acked = IF ok THEN @ \union {s.came + 1} ELSE @]

AcknowledgeFalling(s) ==
    LET released == [s EXCEPT !.data_low = FALSE, !.state = s.next, !.bits = 0]
        held == IF s.stretched THEN [released EXCEPT !.stretched = FALSE, !.sclrel = FALSE,
                                                     !.clock_low = TRUE] ELSE released
    IN  CASE s.bits = 0 -> [s EXCEPT !.data_low = s.ack, !.bits = 1]
          [] s.bits = 1 -> s
          [] s.bits = 2 -> PrepareTransmit(Told([held EXCEPT !.interrupt = FALSE], s.interrupt))

MasterAcknowledgeFalling(s) ==
    CASE s.bits = 0 -> [s EXCEPT !.tbf = FALSE, !.data_low = FALSE, !.bits = 1]
      [] s.bits = 1 -> s
      [] s.bits = 2 -> PrepareTransmit([SlaveRead(s, s.ack, FALSE) EXCEPT
                            !.state = IF s.ack THEN "transmit" ELSE "rejected", !.bits = 0])

Falling(s) ==
    CASE s.state = "received" -> ReceiveFalling(s)
      [] s.state = "acknowledge" -> AcknowledgeFalling(s)
      [] s.state = "transmit" -> PrepareTransmit(s)
      [] s.state = "master_acknowledge" -> MasterAcknowledgeFalling(s)
      [] OTHER -> s

Rising(s, data) ==
    CASE s.state \in {"address", "receive", "ten_second"} ->
           IF s.bits + 1 < Width THEN [s EXCEPT !.bits = @ + 1]
           ELSE [s EXCEPT !.bits = Width, !.next = s.state, !.state = "received"]
      [] s.state = "acknowledge" /\ s.bits = 1 -> [s EXCEPT !.bits = 2]
      [] s.state = "transmit" ->
           IF s.bits + 1 < Width THEN [s EXCEPT !.bits = @ + 1]
           ELSE [s EXCEPT !.bits = 0, !.state = "master_acknowledge"]
      [] s.state = "master_acknowledge" /\ s.bits = 1 -> [s EXCEPT !.bits = 2, !.ack = ~data]
      [] OTHER -> s

Edge(s) ==
    LET clock == ClockHigh(s)  data == DataHigh(s) IN
    IF s.data_high /\ ~data /\ clock THEN PinStart(s)
    ELSE IF ~s.listening THEN s
    ELSE IF ~s.data_high /\ data /\ clock THEN PinStop(s)
    ELSE IF ~s.clock_high /\ clock THEN Rising(s, data)
    ELSE IF s.clock_high /\ ~clock THEN Falling(s)
    ELSE s

Refresh(s) ==
    IF ~s.setting.pins THEN s
    ELSE LET held == IF s.pin.op = "none" /\ s.slave_active
                     THEN [s EXCEPT !.clock_low = ~s.sclrel] ELSE s
             seen == IF ~Enabled(s) \/ StoppedInIdle(s) \/ s.pin.op # "none" \/ s.master_active
                     THEN held ELSE Edge(PrepareTransmit(held))
         IN  [seen EXCEPT !.clock_high = ClockHigh(seen), !.data_high = DataHigh(seen)]
-----------------------------------------------------------------------------
(* The master.                                                              *)

HalfPeriods(op) ==
    CASE op \in {"SEN", "ACKEN"} -> 2 [] op \in {"RSEN", "PEN"} -> 3
      [] op = "RCEN" -> 2 * Width [] op = "TRANSMIT" -> 2 * Width + 2

\* pin_begin, when the host drives both lines.
PinBegin(s, op) ==
    IF ~s.setting.pins THEN s
    ELSE Schedule([s EXCEPT !.pin = [op |-> op, phase |-> 0], !.clock_low = op # "SEN",
                            !.data_low = \/ op = "PEN"
                                         \/ op = "TRANSMIT" /\ ~s.ones
                                         \/ op = "ACKEN" /\ ~s.setting.nack],
                  "pin", "none", 1)

\* dspic33_i2c_internal_begin_control
BeginControl(s, op) ==
    IF op = "none" THEN s
    ELSE LET begun == Schedule([s EXCEPT !.op = op], "control", op, HalfPeriods(op))
             bus == IF op \in {"SEN", "RSEN", "PEN"}
                    THEN Schedule(begun, "bus_status", op, IF op = "SEN" THEN 1 ELSE 2)
                    ELSE begun
         IN  PinBegin(bus, op)

BusBecomes(s, op) == [s EXCEPT !.bus = IF op = "PEN" THEN "stop" ELSE "start"]

CompleteBusStatus(s, op) == IF Enabled(s) /\ s.op = op THEN BusBecomes(s, op) ELSE s

\* dspic33_i2c_internal_response_push: the answers are read in the order of their time.
ResponsePush(s, delay) ==
    [s EXCEPT !.responses = Append(SelectSeq(@, LAMBDA left : left <= delay), delay)
                            \o SelectSeq(@, LAMBDA left : left > delay)]

Answered(s) == s.responses # <<>> /\ Head(s.responses) = 0
Waits(s) == s.responses # <<>> /\ Head(s.responses) > 0
Popped(s) == IF Answered(s) THEN [s EXCEPT !.responses = Tail(@)] ELSE s

\* dspic33_i2c_internal_complete_control
CompleteControl(s, op) ==
    IF ~Enabled(s) \/ s.op # op THEN s
    ELSE IF op = "RCEN" /\ Waits(s) THEN Schedule(s, "control", op, Head(s.responses))
    ELSE LET free == [s EXCEPT !.op = "none"]
         IN  Raise(CASE op \in {"SEN", "RSEN"} ->
                          [BusBecomes(free, op) EXCEPT !.master_active = TRUE]
                     [] op = "PEN" -> [BusBecomes(free, op) EXCEPT !.master_active = FALSE]
                     [] op = "RCEN" ->
                          IF s.rbf THEN [Popped(free) EXCEPT !.overflow = TRUE]
                                   ELSE [Popped(free) EXCEPT !.rcv = 0, !.rbf = TRUE]
                     [] op = "ACKEN" -> free, "master")

CompleteTransmitShift(s) == [s EXCEPT !.tbf = @ /\ ~(Enabled(s) /\ s.trstat)]

\* dspic33_i2c_internal_complete_transmit
CompleteTransmit(s) ==
    IF ~Enabled(s) \/ ~s.trstat THEN s
    ELSE IF Waits(s) THEN Schedule(s, "transmit", "none", Head(s.responses))
    ELSE Raise([Popped(s) EXCEPT !.tbf = FALSE, !.trstat = FALSE], "master")

\* pin_delay_master_events, while another device holds the clock.
DelayMaster(s) ==
    [s EXCEPT !.events = {IF event.kind \in MasterKinds /\ event.generation = s.generation
                          THEN [event EXCEPT !.left = @ + 1] ELSE event : event \in @}]

\* What the line must show in a phase, which releases the clock or does not,
\* and what is driven after it.
Rises(op, phase) ==
    CASE op \in {"TRANSMIT", "RCEN"} -> phase % 2 = 1
      [] OTHER -> op # "SEN" /\ phase = 1

Beaten(s, op, phase) ==
    CASE op = "SEN" -> phase = 1 /\ ~(s.scl /\ s.sda)
      [] op = "RSEN" -> phase = 1 /\ ~s.sda
      [] op = "PEN" -> phase = 2 /\ ~s.sda
      [] op = "TRANSMIT" -> phase % 2 = 1 /\ phase < 2 * Width + 1 /\ ~s.data_low /\ ~s.sda
      [] op = "ACKEN" -> phase = 1 /\ s.setting.nack /\ ~s.sda
      [] op = "RCEN" -> FALSE

ClockDriven(s, op, phase) ==
    CASE op \in {"SEN", "ACKEN"} -> phase = 2 \/ s.clock_low
      [] op = "RSEN" -> phase = 3 \/ s.clock_low
      [] op = "PEN" -> s.clock_low
      [] OTHER -> phase % 2 = 0

DataDriven(s, op, phase) ==
    CASE op = "SEN" -> phase = 1 \/ s.data_low
      [] op = "RSEN" -> phase = 2 \/ s.data_low
      [] op \in {"PEN", "ACKEN"} -> phase # 2 /\ s.data_low
      [] op = "TRANSMIT" -> IF phase % 2 = 1 THEN s.data_low ELSE phase < 2 * Width /\ ~s.ones
      [] op = "RCEN" -> s.data_low

Sampled(op, phase) ==
    \/ op = "TRANSMIT" /\ phase = 2 * Width + 1
    \/ op = "RCEN" /\ phase = 2 * Width - 1

\* dspic33_i2c_internal_pin_run
PinRun(s) ==
    LET op == s.pin.op
        phase == s.pin.phase + 1
        risen == IF Rises(op, phase) THEN [s EXCEPT !.clock_low = FALSE] ELSE s
        driven == [risen EXCEPT !.clock_low = ClockDriven(risen, op, phase),
                                !.data_low = DataDriven(risen, op, phase)]
        heard == IF Sampled(op, phase) THEN ResponsePush(driven, 0) ELSE driven
        stepped == Refresh([heard EXCEPT !.pin.phase = phase])

    IN  IF op = "none" THEN s
        ELSE IF Rises(op, phase) /\ ~s.scl THEN Schedule(DelayMaster(risen), "pin", "none", 1)
        ELSE IF Beaten(risen, op, phase) THEN Collide(risen)
        ELSE IF phase = HalfPeriods(op) THEN [stepped EXCEPT !.pin = NoPin]
        ELSE Schedule(stepped, "pin", "none", 1)
-----------------------------------------------------------------------------
Due == {event \in i2c.events : event.left = 0 /\ ~event.paused}
Now == [i2c EXCEPT !.raised = {}]
Quiet == i2c.generation + i2c.pmd_generation < i2c.setting.changes
Executes == i2c.power = "active" /\ Due = {}
SlaveSilent == ~\E event \in i2c.events : event.kind \in SlaveKinds

\* I2CxCON: a command that is under way stays, and a command given to a module
\* that is off is never begun.  A module that is disabled ignores the write.
WriteControl(on, op, sclrel) ==
    /\ Executes /\ ~i2c.disabled /\ (i2c.on /\ ~on => Quiet)
    /\ op # "none" => i2c.commands < i2c.setting.commands
    /\ LET off == i2c.on /\ ~on
           held == IF on THEN sclrel \/ (i2c.sclrel /\ ~i2c.setting.stretch) ELSE TRUE
           written == [Now EXCEPT !.on = on, !.sclrel = held,
                                  !.commands = IF op = "none" THEN @ ELSE @ + 1]
       IN  i2c' = Refresh(
             CASE off -> ResetRuntime([written EXCEPT !.op = "none", !.bus = "none", !.ten = FALSE,
                               !.tbf = FALSE, !.trstat = FALSE, !.rbf = FALSE,
                               !.overflow = FALSE, !.acked = {}])
               [] ~off /\ i2c.op # "none" -> written
               [] ~off /\ i2c.op = "none" ->
                    IF on THEN BeginControl(written, op)
                    ELSE [written EXCEPT !.op = op, !.astray = @ \/ op # "none"])

\* I2CxTRN (dspic33_i2c_internal_write_transmit): a byte that finds no room is
\* dropped (IWCOL).
WriteTransmit(ones) ==
    /\ Executes /\ ~i2c.disabled /\ i2c.commands < i2c.setting.commands
    /\ i2c.on /\ i2c.op = "none" /\ ~i2c.tbf /\ ~i2c.trstat
    /\ LET written == [Now EXCEPT !.trn = 1 - @, !.ones = ones, !.tbf = TRUE,
                                  !.commands = @ + 1]
           sent == Schedule(Schedule([written EXCEPT !.master_active = TRUE, !.trstat = TRUE],
                                     "transmit_shift", "none", 2 * Width),
                            "transmit", "none", 2 * Width + 2)
       IN  i2c' = Refresh(IF i2c.slave_active /\ i2c.slave_read THEN written
                          ELSE PinBegin(sent, "TRANSMIT"))

\* I2CxRCV
ReadReceive ==
    /\ Executes /\ i2c.rbf
    /\ i2c' = [Now EXCEPT !.rbf = FALSE, !.acked = @ \ {i2c.rcv}]

\* I2CxSTAT: I2COV can only be cleared.
WriteStatus ==
    /\ Executes /\ ~i2c.disabled /\ i2c.overflow
    /\ i2c' = Refresh([Now EXCEPT !.overflow = FALSE])

\* dspic33_i2c_update_pmd: the change takes effect a cycle later.
WritePmd ==
    /\ Executes /\ Quiet
    /\ i2c' = Schedule([Now EXCEPT !.pmd = ~@, !.pmd_generation = @ + 1],
                       "pmd", IF i2c.pmd THEN "enable" ELSE "disable", 1)

ChangePower(power) ==
    /\ Due = {} /\ power # i2c.power
    /\ i2c' = Refresh([Now EXCEPT !.power = power])

\* The host answers a master (dspic33_i2c_respond), some time later.
Respond(delay) ==
    /\ Due = {} /\ i2c.answers < i2c.setting.answers
    /\ i2c' = [ResponsePush(Now, delay) EXCEPT !.answers = @ + 1]

\* The host collides, or speaks to the slave; its event comes a cycle later
\* while the module is stopped in Idle, which leaves the slave as it is.
HostCollision ==
    Due = {} /\ Quiet /\ ~StoppedInIdle(i2c) /\ i2c' = Collide(Now)

HostSpeaks ==
    /\ Due = {} /\ SlaveSilent /\ ~i2c.setting.pins
    /\ ~StoppedInIdle(i2c) /\ i2c.came < i2c.setting.bytes

HostStart(call) ==
    /\ HostSpeaks
    /\ i2c' = IF call.ten /\ call.read
              THEN SlaveTenRestart(Now, call, TRUE)
              ELSE [SlaveStart(Now, call, TRUE) EXCEPT !.call = IF call.ten THEN call ELSE @]

HostWrite == HostSpeaks /\ i2c' = SlaveWrite(Now, TRUE)
HostRead(ack) == HostSpeaks /\ i2c' = SlaveRead(Now, ack, TRUE)
HostStop == HostSpeaks /\ i2c' = SlaveStop(Now)

\* A line moves; what the host will address is known when it starts.
HostLine(clock, call) ==
    /\ Due = {} /\ SlaveSilent /\ i2c.setting.pins
    /\ i2c.came < i2c.setting.bytes \/ i2c.pin.op # "none"
    /\ LET starts == ~clock /\ i2c.sda /\ i2c.scl
           moved == IF clock THEN [Now EXCEPT !.scl = ~@] ELSE [Now EXCEPT !.sda = ~@]
       IN  /\ call = IF starts THEN call ELSE i2c.call
           /\ call.ten /\ call.read => i2c.slave_active /\ i2c.ten
           /\ i2c' = Refresh([moved EXCEPT !.call = call])

\* dspic33_i2c_process_event
Processed(s, event) ==
    CASE event.kind = "control" -> CompleteControl(s, event.op)
      [] event.kind = "bus_status" -> CompleteBusStatus(s, event.op)
      [] event.kind = "transmit" -> CompleteTransmit(s)
      [] event.kind = "transmit_shift" -> CompleteTransmitShift(s)
      [] event.kind = "pin" -> PinRun(s)
      [] event.kind = "slave_write" -> SlaveWrite(s, TRUE)
      [] event.kind = "slave_read" -> SlaveRead(s, event.op = "ack", TRUE)
      [] event.kind = "slave_ten_second" -> SlaveTenSecond(s, s.call, TRUE)

Stale(s, event) ==
    \/ event.kind \in MasterKinds \union {"pin"} /\ event.generation # s.generation
    \/ event.kind = "pmd" /\ event.generation # s.pmd_generation

Dispatch ==
    \E event \in Due :
       LET s == [Now EXCEPT !.events = @ \ {event}]
           disabled == event.op = "disable"
       IN  i2c' = IF Stale(s, event) THEN s
                  ELSE IF event.kind = "pmd"
                  THEN Refresh(Parked([s EXCEPT !.disabled = disabled], disabled))
                  ELSE IF StoppedInIdle(s)
                  THEN Schedule([s EXCEPT !.astray = @ \/ s.pin.op # "none"],
                                event.kind, event.op, 1)
                  ELSE Processed(s, event)

Tick ==
    /\ Due = {}
    /\ i2c.events # {} \/ \E i \in DOMAIN i2c.responses : i2c.responses[i] > 0
    /\ i2c' = [Now EXCEPT !.events = {IF event.paused THEN event
                                      ELSE [event EXCEPT !.left = @ - 1] : event \in @},
                          !.responses = [i \in DOMAIN @ |-> IF @[i] = 0 THEN 0 ELSE @[i] - 1]]

Program ==
    \/ \E on, sclrel \in BOOLEAN, op \in Commands \union {"none"} : WriteControl(on, op, sclrel)
    \/ \E ones \in BOOLEAN : WriteTransmit(ones)
    \/ ReadReceive \/ WriteStatus \/ WritePmd
    \/ \E power \in {"active", "idle"} : ChangePower(power)

Host ==
    \/ \E delay \in 0..2 : Respond(delay)
    \/ HostCollision
    \/ \E call \in Calls : HostStart(call)
    \/ HostWrite \/ HostStop
    \/ \E ack \in BOOLEAN : HostRead(ack)
    \/ \E clock \in BOOLEAN, call \in Calls : HostLine(clock, call)

Next == Program \/ Host \/ Dispatch \/ Tick

Spec == Init /\ [][Next]_i2c
-----------------------------------------------------------------------------
TypeOK ==
    /\ i2c.setting \in Settings /\ i2c.power \in {"active", "idle"}
    /\ i2c.op \in Commands \union {"none"} /\ i2c.bus \in {"none", "start", "stop"}
    /\ i2c.state \in PinStates /\ i2c.next \in PinStates /\ i2c.bits \in 0..Width + 2
    /\ i2c.call \in Calls /\ i2c.raised \subseteq {"master", "slave"}
    /\ \A event \in i2c.events : event.kind \in Kinds /\ event.left \in Nat

Live(kind) ==
    {event \in i2c.events : event.kind = kind /\ event.generation = i2c.generation}

\* A command that is shown in I2CxCON and a byte that is shown in TRSTAT have
\* their one end to come, and no end is to come for another; the lines are
\* stepped once; what is parked is parked as long as the module is away.
EventsAgree ==
    Due = {} /\ ~i2c.astray =>
    /\ \A op \in Commands :
          Cardinality({event \in Live("control") : event.op = op}) = IF i2c.op = op THEN 1 ELSE 0
    /\ Cardinality(Live("transmit")) = IF i2c.trstat THEN 1 ELSE 0
    /\ Cardinality(Live("pin")) = IF i2c.pin.op = "none" THEN 0 ELSE 1
    /\ \A event \in i2c.events :
          event.paused <=> i2c.disabled /\ event.kind \in MasterKinds \union {"pin"}

\* A byte that was acknowledged to the host is the one the program will read.
WordsKept ==
    i2c.acked \subseteq (IF i2c.rbf THEN {i2c.rcv} ELSE {})
                        \union (IF SlaveSilent THEN {} ELSE {i2c.came + 1})

=============================================================================
