----------------------------- MODULE Oscillator -----------------------------
(***************************************************************************)
(* The system clock (timing/oscillator.c) as a value and the functions     *)
(* that handlers apply to it: one handler calls several of them in a row,  *)
(* so each takes the oscillator o and returns the oscillator it leaves.    *)
(* ClockReset.tla has the variables and the steps.                         *)
(*                                                                         *)
(* o has the modelled bits of OSCCON (current, requested, switch_enable,   *)
(* lock, fail, clock_lock), the members of cpu->oscillator, and its events *)
(* in the queue.  c is the configuration: FOSCSEL (startup, two_speed),    *)
(* FOSC (posc, switch_disable, clock_lock) and PLLKEN of FWDT (pllk).      *)
(*                                                                         *)
(* Left out: IOLOCK and LPOSCEN, which no clock depends on, and an event   *)
(* that does not fit the queue, which stops the simulation.                *)
(***************************************************************************)
EXTENDS Naturals

CONSTANTS SwitchDelay,   \* OSCILLATOR_SWITCH_DELAY
          SourceDelay    \* OSCILLATOR_SOURCE_DELAY

ASSUME OscillatorAssumption ==
    SwitchDelay \in Nat /\ SourceDelay \in Nat /\ 0 < SourceDelay /\ SourceDelay < SwitchDelay

Sources == {"FRC", "FRCPLL", "POSC", "POSCPLL"}
Phases == {"SWITCH", "LOCK"}

Pll(source) == source \in {"FRCPLL", "POSCPLL"}

Available(c, source) == source \in {"POSC", "POSCPLL"} => c.posc # "none"

ImmediatelyReady(source) == source = "FRC"

ConfigurationLocked(o, c) == o.clock_lock /\ c.clock_lock

\* The device has no direct transition between two sources of the PLL.
Direct(o) == Pll(o.current) /\ Pll(o.requested) /\ o.current # o.requested

\* A new generation abandons every event under way.
Superseded(o) == [o EXCEPT !.generation = @ + 1]

Scheduled(o, phase, delay) ==
    [o EXCEPT !.events = @ \union {[phase |-> phase, generation |-> o.generation, left |-> delay]}]

\* The source gets time to start; one that is not configured never does.
Readying(o, c) ==
    IF Available(c, o.requested)
    THEN Scheduled(o, "SWITCH", IF Pll(o.requested) THEN SourceDelay ELSE SwitchDelay)
    ELSE o

Idle(o) == [o EXCEPT !.active = FALSE, !.automatic = FALSE]

Unready(o) == [o EXCEPT !.lock_pending = FALSE, !.source_ready = FALSE]

AbortSwitch(o) ==
    [(IF o.active THEN Unready(Idle(Superseded(o))) ELSE o) EXCEPT !.switch_enable = FALSE]

\* dspic33_device_abort_oscillator_switch gives up a lock under way as well.
Abort(o) ==
    AbortSwitch(IF ~o.active /\ o.lock_pending THEN Unready(Superseded(o)) ELSE o)

\* The switch takes effect.
Transferred(o) == [Idle(o) EXCEPT !.current = o.requested, !.switch_enable = FALSE]

StartSwitch(o, c) ==
    Readying([Unready(Superseded(o)) EXCEPT !.active = TRUE, !.automatic = FALSE,
                 !.switch_enable = TRUE, !.lock = FALSE, !.fail = FALSE], c)

StartAutomaticSwitch(o, c, source) ==
    LET asked == [o EXCEPT !.requested = source, !.lock = FALSE, !.fail = FALSE,
                           !.switch_enable = FALSE]
    IN  IF ImmediatelyReady(source) THEN [asked EXCEPT !.current = source]
        ELSE Readying([Unready(Superseded(asked)) EXCEPT !.active = TRUE, !.automatic = TRUE], c)
-----------------------------------------------------------------------------
\* What the PLL is, or is about to be, the clock of.
PllSource(o) == IF ~o.active THEN o.current ELSE IF Direct(o) THEN "none" ELSE o.requested

\* A write to PLLFBD or PLLPRE, or to FRCDIV or OSCTUN: does the PLL lock anew?
RelockRequired_Current(o, register) ==   \* mutant: a switch under way is not seen
    IF register = "pll" THEN Pll(o.current) ELSE o.current = "FRCPLL"

RelockRequired(o, register) ==
    IF register = "pll" THEN Pll(PllSource(o)) ELSE PllSource(o) = "FRCPLL"

RestartLock(o, c) ==
    LET ready == o.active /\ o.source_ready
        unlocked == [Superseded(o) EXCEPT !.lock_pending = ready \/ ~o.active,
                                          !.source_ready = ready, !.lock = FALSE]
    IN  IF unlocked.lock_pending THEN Scheduled(unlocked, "LOCK", SwitchDelay)
        ELSE Readying(unlocked, c)

ClockConfigurationWritten(o, c, register) ==
    IF ~ConfigurationLocked(o, c) /\ RelockRequired(o, register) THEN RestartLock(o, c) ELSE o

\* Configuration c was programmed to d, register by register.
FoscChanged(o, c, d) ==
    IF o.active /\ ~o.automatic /\ ~c.switch_disable /\ d.switch_disable THEN AbortSwitch(o)
    ELSE IF ~o.active \/ Direct(o) \/ o.requested \notin {"POSC", "POSCPLL"} \/ c.posc = d.posc
    THEN o
    ELSE Readying(Unready(Superseded(o)), d)

FwdtTransfers(o, c, d) ==
    /\ o.active /\ o.source_ready /\ ~Direct(o) /\ Pll(o.requested)
    /\ c.pllk /\ ~d.pllk

FwdtChanged(o, c, d) == IF FwdtTransfers(o, c, d) THEN Transferred(o) ELSE o

FoscselChanged(o, c, d) ==
    IF c.startup = d.startup \/ ~d.switch_disable THEN o
    ELSE StartAutomaticSwitch(Abort(o), d, d.startup)
-----------------------------------------------------------------------------
\* dspic33_device_internal_complete_oscillator_event
LockCompletes(o, event) ==
    /\ event.generation = o.generation
    /\ event.phase = "LOCK"
    /\ o.lock_pending

SwitchCompletes(o, c, event) ==
    /\ event.generation = o.generation
    /\ event.phase = "SWITCH"
    /\ o.active /\ (o.automatic \/ o.switch_enable)
    /\ Available(c, o.requested)

\* Does the event make the requested source the current one?
Transfers(o, c, event) ==
    \/ LockCompletes(o, event) /\ o.active /\ o.source_ready
    \/ SwitchCompletes(o, c, event) /\ ~(Pll(o.requested) /\ c.pllk)

SourceReady(o) ==
    Scheduled([o EXCEPT !.source_ready = TRUE, !.lock_pending = TRUE],
              "LOCK", SwitchDelay - SourceDelay)

LockReported(o) == IF Pll(o.current) THEN [o EXCEPT !.lock = TRUE] ELSE o

EventCompleted(o, c, event) ==
    LET rest == [o EXCEPT !.events = @ \ {event}]
        moved(p) == IF Transfers(o, c, event) THEN Transferred(p) ELSE p
    IN  IF LockCompletes(o, event) THEN Unready(LockReported(moved(rest)))
        ELSE IF SwitchCompletes(o, c, event) /\ Pll(o.requested) THEN moved(SourceReady(rest))
        ELSE moved(rest)
-----------------------------------------------------------------------------
\* The monitored clock failed: back to the internal oscillator.
CanFail(o, c) ==
    /\ ~c.switch_disable /\ ~c.clock_lock
    /\ o.current \in {"POSC", "POSCPLL"}

Failed(o) == [Abort(o) EXCEPT !.current = "FRC", !.lock = FALSE, !.fail = TRUE]

\* An unlocked write to the high byte of OSCCON.
HighWritten(o, c, source) ==
    IF ConfigurationLocked(o, c) THEN o
    ELSE [(IF o.active THEN AbortSwitch(o) ELSE o) EXCEPT !.requested = source]

\* An unlocked write to the low byte; CLKLOCK can only be set, CF only cleared.
SwitchRefused(o, c) ==
    c.switch_disable \/ ConfigurationLocked(o, c) \/ o.current = o.requested

LowWritten(o, c, enable, clock_lock, fail) ==
    LET written == [o EXCEPT !.clock_lock = @ \/ clock_lock, !.fail = @ /\ fail]
        refused == IF enable THEN [written EXCEPT !.switch_enable = FALSE] ELSE written
    IN  IF ~enable \/ SwitchRefused(written, c)
        THEN IF o.automatic THEN refused ELSE AbortSwitch(refused)
        ELSE IF Direct(written)
        THEN [Superseded(written) EXCEPT !.active = TRUE, !.switch_enable = TRUE]
        ELSE StartSwitch(IF o.active THEN AbortSwitch(written) ELSE written, c)

\* Resets: OSCCON starts over, with the PLL locked when the device starts on it.
PowerOn(c) ==
    LET current == IF c.two_speed THEN "FRC" ELSE c.startup
        started == [current |-> current, requested |-> c.startup, switch_enable |-> FALSE,
                    lock |-> Pll(current), fail |-> FALSE, clock_lock |-> FALSE,
                    generation |-> 0, active |-> FALSE, automatic |-> FALSE,
                    lock_pending |-> FALSE, source_ready |-> FALSE, events |-> {}]
    IN  IF c.two_speed /\ c.startup # "FRC"
        THEN StartAutomaticSwitch(started, c, c.startup)
        ELSE started

\* A warm reset keeps the oscillator, and of its events those it still waits for.
Kept_None(o) == [o EXCEPT !.events = {}]   \* mutant: they go with the others

Kept(o) == [o EXCEPT !.events = {e \in @ : e.generation = o.generation}]
=============================================================================
