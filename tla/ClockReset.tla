----------------------------- MODULE ClockReset -----------------------------
(***************************************************************************)
(* The clock, the programming of the flash and of the configuration, the   *)
(* watchdog and the resets (timing/oscillator.c, execution/reset.c,        *)
(* memory/registers.c and the end of NVM operations in runtime.c).  They   *)
(* belong together: programming the configuration moves the clock, a       *)
(* reset waits for the operation under way, and a switch of the clock      *)
(* clears the watchdog.                                                    *)
(*                                                                         *)
(* An instruction executes, then its cycle passes (Tick), then the events  *)
(* of that cycle are dispatched; the host acts between instructions.  The  *)
(* program is arbitrary.  A write of OSCCON that is not unlocked changes   *)
(* nothing but the key, as any other instruction does (Other).             *)
(*                                                                         *)
(* Left out: what is programmed besides the configuration, doze and Idle   *)
(* (in which the clocks run), the errata that stop the simulation, and the *)
(* security reset that locks the device for good.  RCON is what the last   *)
(* reset left in it and SWDTEN.                                            *)
(***************************************************************************)
EXTENDS Oscillator, FiniteSets, Sequences

CONSTANTS Configurations,   \* what the configuration registers may hold
          Initially,        \* what they hold at first
          NvmDelay,         \* nvm_completion_delay
          Period,           \* of the watchdog, in ticks of its clock
          WarmCauses,       \* of warm resets by instructions and by the host
          Watched,          \* bound: those under which the program sets SWDTEN
          MaxGeneration     \* bound: the program and the host stop changing the clock

ASSUME ClockResetAssumption ==
    /\ Initially \in Configurations /\ Watched \subseteq Configurations
    /\ \A c \in Configurations : c.startup \in Sources
    /\ NvmDelay \in Nat \ {0} /\ Period \in Nat \ {0} /\ MaxGeneration \in Nat
    /\ WarmCauses \subseteq {"SWR", "IOPUWR", "EXTR", "CM"}

VARIABLES
    osc,         \* OSCCON and cpu->oscillator
    config,      \* cpu->configuration
    key,         \* oscillator.key_stage and key_lane, stage 0 once it cannot be used any more
    nvm,         \* cpu->nvm
    control,     \* NVMCON: WR and WRERR
    watchdog,    \* cpu->watchdog and SWDTEN
    power,       \* cpu->power_state
    cause,       \* the cause RCON reports of the last reset
    clocked,     \* an instruction has executed, its cycle is still to pass
    \* history, read by properties only
    steady,      \* cycles since the PLL began to lock, up to SwitchDelay
    asked,       \* what was asked for since the NVM operation began
    ended        \* how the last operation ended

vars == <<osc, config, key, nvm, control, watchdog, power, cause, clocked, steady, asked, ended>>

None == "none"
NoKey == [lane |-> "low", stage |-> 0]
NoOperation == [active |-> FALSE, left |-> 0, target |-> Initially, stalls |-> FALSE,
                pending |-> None, key_stage |-> 0]

Init ==
    /\ config = Initially /\ osc = PowerOn(Initially)
    /\ key = NoKey
    /\ nvm = NoOperation /\ control = [wr |-> FALSE, wrerr |-> FALSE]
    /\ watchdog = [ticks |-> 0, pending |-> FALSE, software |-> FALSE]
    /\ power = "active" /\ cause = "POR"
    /\ clocked = FALSE
    /\ steady = SwitchDelay /\ asked = <<>> /\ ended = None
-----------------------------------------------------------------------------
Quiet == osc.generation < MaxGeneration

\* The events of this cycle that are still to be dispatched.
DueEvents == {event \in osc.events : event.left = 0}
NvmDue == nvm.active /\ nvm.left = 0
AtBoundary == ~clocked /\ DueEvents = {} /\ ~NvmDue

Stalled == nvm.active /\ (nvm.pending # None \/ nvm.stalls)
Executes == AtBoundary /\ power = "active" /\ ~Stalled

\* A switch or a lock begins: the PLL is not to be relied on until it has had its time.
Steadied(old, new) ==
    IF new.generation # old.generation /\ (new.lock_pending \/ (new.active /\ ~Direct(new)))
    THEN 0 ELSE steady

ClockBecomes(new) == osc' = new /\ steady' = Steadied(osc, new)

WatchdogEnabled(c) == c.watchdog \/ watchdog.software

Noted(why) == IF \E i \in DOMAIN asked : asked[i] = why THEN asked ELSE Append(asked, why)
-----------------------------------------------------------------------------
\* dspic33_internal_perform_warm_reset when no operation is under way: of the
\* clock everything is kept but the events it no longer waits for.
Restarted(why, clock) ==
    /\ osc' = Kept(clock) /\ steady' = Steadied(osc, clock)
    /\ nvm' = NoOperation
    /\ watchdog' = [ticks |-> 0, pending |-> FALSE, software |-> FALSE]
    /\ power' = "active" /\ cause' = why
    /\ key' = NoKey
    /\ asked' = <<>>

\* The first reset that is asked for during an operation is the one performed.
Recorded_Last(why) == why   \* mutant: the last one is

Recorded(why) == IF nvm.pending = None THEN why ELSE nvm.pending

Deferred(why) ==
    /\ nvm' = [nvm EXCEPT !.pending = Recorded(why)]
    /\ asked' = Noted(why)
    /\ UNCHANGED <<osc, steady, watchdog, power, cause>>

Reset(why) == IF nvm.active THEN Deferred(why) /\ key' = NoKey ELSE Restarted(why, osc)

\* watchdog_timeout
TimedOut ==
    CASE power # "active" ->
           /\ power' = "active"
           /\ watchdog' = [watchdog EXCEPT !.ticks = 0]
           /\ UNCHANGED <<osc, key, nvm, cause, steady, asked>>
      [] power = "active" /\ nvm.active ->
           /\ watchdog' = [watchdog EXCEPT !.ticks = 0, !.pending = TRUE]
           /\ asked' = Noted("WDTO")
           /\ UNCHANGED <<osc, nvm, power, cause, steady>>
           /\ key' = key
      [] OTHER -> Restarted("WDTO", osc)
-----------------------------------------------------------------------------
\* An instruction: what it writes, and the keys it leaves.
Instruction ==
    /\ Executes
    /\ clocked' = TRUE

\* NVMKEY keeps its first half through other instructions, but not through an
\* interrupt or a trap; its second half is good for the next instruction only.
NvmKeyAfter == [nvm EXCEPT !.key_stage = IF @ = 1 THEN 1 ELSE 0]

Other ==
    /\ Instruction
    /\ key' = NoKey /\ nvm' = NvmKeyAfter
    /\ UNCHANGED <<osc, config, control, watchdog, power, cause, steady, asked, ended>>

\* An interrupt or a trap is entered instead.
Exception ==
    /\ Instruction
    /\ key' = NoKey /\ nvm' = [nvm EXCEPT !.key_stage = 0]
    /\ UNCHANGED <<osc, config, control, watchdog, power, cause, steady, asked, ended>>

WriteKey(lane) ==
    /\ Instruction /\ Quiet
    /\ key' = [lane |-> lane, stage |-> IF key = [lane |-> lane, stage |-> 1] THEN 2 ELSE 1]
    /\ nvm' = NvmKeyAfter
    /\ UNCHANGED <<osc, config, control, watchdog, power, cause, steady, asked, ended>>

Unlocked(lane) ==
    /\ Instruction /\ Quiet
    /\ key = [lane |-> lane, stage |-> 2]
    /\ key' = NoKey /\ nvm' = NvmKeyAfter
    /\ UNCHANGED <<config, control, power, cause, watchdog, asked, ended>>

WriteHigh(source) ==
    /\ Unlocked("high")
    /\ ClockBecomes(HighWritten(osc, config, source))

WriteLow(enable, clock_lock, fail) ==
    /\ Unlocked("low")
    /\ ClockBecomes(LowWritten(osc, config, enable, clock_lock, fail))

\* History: the write moves the PLL that drives the clock, or is about to.
Disturbs(register) ==
    LET source == IF osc.active THEN osc.requested ELSE osc.current
    IN  /\ ~ConfigurationLocked(osc, config)
        /\ ~(osc.active /\ Direct(osc))
        /\ IF register = "pll" THEN Pll(source) ELSE source = "FRCPLL"

WriteClockConfiguration(register) ==
    /\ Instruction /\ Quiet
    /\ osc' = ClockConfigurationWritten(osc, config, register)
    /\ steady' = IF Disturbs(register) THEN 0 ELSE steady
    /\ key' = NoKey /\ nvm' = NvmKeyAfter
    /\ UNCHANGED <<config, control, watchdog, power, cause, asked, ended>>
-----------------------------------------------------------------------------
\* dspic33_device_internal_update_nvm_key
WriteNvmKey(value) ==
    /\ Instruction
    /\ nvm' = [nvm EXCEPT !.key_stage =
                   CASE value = "55" -> 1
                     [] value = "AA" /\ nvm.key_stage = 1 -> 2
                     [] OTHER -> 0]
    /\ key' = NoKey
    /\ UNCHANGED <<osc, config, control, watchdog, power, cause, steady, asked, ended>>

Registers(c) == [FOSCSEL |-> <<c.startup, c.two_speed>>,
                 FOSC |-> <<c.posc, c.switch_disable, c.clock_lock>>,
                 FWDT |-> <<c.pllk, c.watchdog, c.window>>]

\* One operation programs one register, or none of these.
OneRegister(c, d) ==
    Cardinality({r \in DOMAIN Registers(c) : Registers(c)[r] # Registers(d)[r]}) <= 1

\* dspic33_device_internal_update_nvm_control, for a write that sets WR.
StartNvm(target, stalls) ==
    /\ Instruction
    /\ nvm' = IF nvm.active \/ nvm.key_stage # 2 THEN NvmKeyAfter
              ELSE [NoOperation EXCEPT !.active = TRUE, !.left = NvmDelay,
                                       !.target = target, !.stalls = stalls]
    /\ control' = [wr |-> nvm.active \/ nvm.key_stage = 2, wrerr |-> TRUE]
    /\ asked' = IF nvm.active THEN asked ELSE <<>>
    /\ ended' = IF nvm.active THEN ended ELSE None
    /\ key' = NoKey
    /\ UNCHANGED <<osc, config, watchdog, power, cause, steady>>

\* PWRSAV is ignored during an operation.
Sleep ==
    /\ Instruction /\ Quiet
    /\ key' = NoKey /\ nvm' = NvmKeyAfter
    /\ IF nvm.active THEN UNCHANGED <<osc, steady, watchdog, power>>
       ELSE /\ ClockBecomes(Abort(osc))
            /\ watchdog' = [watchdog EXCEPT !.ticks = 0]
            /\ power' = "sleep"
    /\ UNCHANGED <<config, control, cause, asked, ended>>

\* dspic33_internal_clear_watchdog: too early in the window is a timeout.
TooEarly(c) ==
    WatchdogEnabled(c) /\ c.window /\ watchdog.ticks < Period - Period \div 4

ClearWatchdog ==
    /\ Executes
    /\ clocked' = (nvm.active \/ ~TooEarly(config))
    /\ IF TooEarly(config) THEN TimedOut
       ELSE /\ watchdog' = [watchdog EXCEPT !.ticks = 0]
            /\ key' = NoKey /\ nvm' = NvmKeyAfter
            /\ UNCHANGED <<osc, power, cause, steady, asked>>
    /\ UNCHANGED <<config, control, ended>>

EnableWatchdog ==
    /\ Instruction /\ config \in Watched
    /\ watchdog' = [watchdog EXCEPT !.software = TRUE,
                       !.ticks = IF config.watchdog \/ watchdog.software THEN @ ELSE 0]
    /\ key' = NoKey /\ nvm' = NvmKeyAfter
    /\ UNCHANGED <<osc, config, control, power, cause, steady, asked, ended>>

\* RESET, whose cycle still passes, and an instruction that is not one.
ResetInstruction ==
    /\ Executes
    /\ \E why \in WarmCauses \cap {"SWR", "IOPUWR"} :
          Reset(why) /\ clocked' = (why = "SWR")
    /\ UNCHANGED <<config, control, ended>>
-----------------------------------------------------------------------------
\* The step of a processor that is stalled, or about to be reset: only the
\* clock goes on.
Stall ==
    /\ AtBoundary /\ Stalled
    /\ clocked' = TRUE
    /\ UNCHANGED <<osc, config, key, nvm, control, watchdog, power, cause, steady, asked, ended>>

\* The cycle of what was executed passes.
Tick ==
    /\ clocked
    /\ clocked' = FALSE
    /\ osc' = [osc EXCEPT !.events = {[event EXCEPT !.left = @ - 1] : event \in @}]
    /\ nvm' = [nvm EXCEPT !.left = IF nvm.active THEN @ - 1 ELSE @]
    /\ steady' = IF steady < SwitchDelay THEN steady + 1 ELSE steady
    /\ UNCHANGED <<config, key, control, watchdog, power, cause, asked, ended>>

CompleteOscillatorEvent ==
    /\ ~clocked
    /\ \E event \in DueEvents :
          /\ osc' = EventCompleted(osc, config, event)
          /\ watchdog' = IF Transfers(osc, config, event)
                         THEN [watchdog EXCEPT !.ticks = 0] ELSE watchdog
    /\ UNCHANGED <<config, key, nvm, control, power, cause, clocked, steady, asked, ended>>

\* dspic33_device_configuration_changed
Configured(o, c, d) == FwdtChanged(FoscChanged(FoscselChanged(o, c, d), c, d), c, d)

\* complete_nvm_event: the operation takes effect, and what was put off happens.
Performed ==
    IF nvm.pending # None THEN nvm.pending ELSE IF watchdog.pending THEN "WDTO" ELSE None

CompleteNvm ==
    /\ ~clocked /\ NvmDue
    /\ LET clock == Configured(osc, config, nvm.target) IN
       IF Performed # None THEN Restarted(Performed, clock)
       ELSE /\ osc' = clock /\ steady' = Steadied(osc, clock)
            /\ watchdog' = IF FwdtTransfers(osc, config, nvm.target)
                           THEN [watchdog EXCEPT !.ticks = 0] ELSE watchdog
            /\ nvm' = [nvm EXCEPT !.active = FALSE]
            /\ UNCHANGED <<power, cause, key, asked>>
    /\ config' = nvm.target
    /\ control' = [wr |-> FALSE, wrerr |-> FALSE]
    /\ ended' = IF Performed = None THEN "interrupt" ELSE Performed
    /\ UNCHANGED clocked
-----------------------------------------------------------------------------
\* The host, between instructions.
HostReset ==
    /\ AtBoundary
    /\ \E why \in WarmCauses \cap {"EXTR", "CM"} : Reset(why)
    /\ UNCHANGED <<config, control, clocked, ended>>

\* dspic33_brown_out_reset ends the operation, but NVMCON is kept as it is.
Powered(why, c) ==
    /\ osc' = PowerOn(c) /\ steady' = SwitchDelay
    /\ nvm' = NoOperation
    /\ watchdog' = [ticks |-> 0, pending |-> FALSE, software |-> FALSE]
    /\ power' = "active" /\ cause' = why
    /\ key' = NoKey
    /\ asked' = <<>> /\ ended' = None
    /\ UNCHANGED <<config, clocked>>

BrownOutReset ==
    /\ AtBoundary
    /\ Powered("BOR", config)
    /\ UNCHANGED control

PowerOnReset ==
    /\ AtBoundary
    /\ Powered("POR", config)
    /\ control' = [wr |-> FALSE, wrerr |-> FALSE]

\* dspic33_watchdog_advance_lprc, tick by tick.
TickReaches_OffByOne(ticks) == ticks > Period   \* mutant: the period is one tick longer

TickReaches(ticks) == ticks >= Period

WatchdogTick ==
    /\ AtBoundary
    /\ IF ~WatchdogEnabled(config)
       THEN watchdog' = [watchdog EXCEPT !.ticks = 0]
            /\ UNCHANGED <<osc, key, nvm, power, cause, steady, asked>>
       ELSE IF TickReaches(watchdog.ticks + 1) THEN TimedOut
       ELSE watchdog' = [watchdog EXCEPT !.ticks = @ + 1]
            /\ UNCHANGED <<osc, key, nvm, power, cause, steady, asked>>
    /\ UNCHANGED <<config, control, clocked, ended>>

\* The processor wakes by an interrupt; the host may let time pass before.
Wake ==
    /\ AtBoundary /\ power = "sleep"
    /\ power' = "active" /\ watchdog' = [watchdog EXCEPT !.ticks = 0]
    /\ UNCHANGED <<osc, config, key, nvm, control, cause, clocked, steady, asked, ended>>

HostAdvance ==
    /\ AtBoundary
    /\ clocked' = TRUE
    /\ UNCHANGED <<osc, config, key, nvm, control, watchdog, power, cause, steady, asked, ended>>

\* dspic33_oscillator_failure_detected
ClockFails ==
    /\ AtBoundary /\ Quiet
    /\ CanFail(osc, config) /\ power # "sleep"
    /\ ClockBecomes(Failed(osc))
    /\ UNCHANGED <<config, key, nvm, control, watchdog, power, cause, clocked, asked, ended>>

Firmware ==
    \/ Other \/ Exception \/ Sleep \/ ClearWatchdog \/ EnableWatchdog \/ ResetInstruction
    \/ \E lane \in {"low", "high"} : WriteKey(lane)
    \/ \E source \in Sources : WriteHigh(source)
    \/ \E enable, clock_lock, fail \in BOOLEAN : WriteLow(enable, clock_lock, fail)
    \/ \E register \in {"pll", "frc"} : WriteClockConfiguration(register)
    \/ \E value \in {"55", "AA", "other"} : WriteNvmKey(value)
    \/ \E target \in Configurations, stalls \in BOOLEAN :
          /\ OneRegister(config, target)
          /\ target # config => stalls /\ Quiet
          /\ StartNvm(target, stalls)

Clock == Tick \/ CompleteOscillatorEvent \/ CompleteNvm

Host ==
    \/ HostReset \/ BrownOutReset \/ PowerOnReset \/ WatchdogTick
    \/ Wake \/ HostAdvance \/ ClockFails

Next == Firmware \/ Stall \/ Clock \/ Host

Spec == Init /\ [][Next]_vars
-----------------------------------------------------------------------------
OscillatorType ==
    /\ osc.current \in Sources /\ osc.requested \in Sources
    /\ osc.generation \in Nat
    /\ \A event \in osc.events : /\ event.phase \in Phases
                                 /\ event.generation \in 0..osc.generation
                                 /\ event.left \in 0..SwitchDelay

\* No event is later than its delay or newer than its generation, and the
\* watchdog stays below its period (watchdog_advance_lprc).
TypeOK ==
    /\ OscillatorType
    /\ config \in Configurations
    /\ key \in [lane : {"low", "high"}, stage : 0..2]
    /\ nvm.left \in 0..NvmDelay /\ nvm.target \in Configurations
    /\ nvm.key_stage \in 0..2 /\ nvm.pending \in {None} \union WarmCauses
    /\ control \in [wr : BOOLEAN, wrerr : BOOLEAN]
    /\ watchdog \in [ticks : 0..Period - 1, pending : BOOLEAN, software : BOOLEAN]
    /\ power \in {"active", "sleep"}
    /\ cause \in {"POR", "BOR", "WDTO"} \union WarmCauses
    /\ clocked \in BOOLEAN /\ steady \in 0..SwitchDelay

Live(o) == {event \in o.events : event.generation = o.generation}

\* A switch that is under way, or a lock, has one event that will end it,
\* through aborts, writes, programming and resets: the flags of the switch and
\* the queue never part.  A source that is not there never starts, and a direct
\* transition between PLL sources waits for the program to give it up.
NothingStranded ==
    /\ Cardinality(Live(osc)) <= 1
    /\ osc.active /\ ~Direct(osc) /\ Available(config, osc.requested)
       => \E event \in Live(osc) :
             event.phase = IF osc.source_ready THEN "LOCK" ELSE "SWITCH"
    /\ osc.lock_pending /\ ~(osc.active /\ Direct(osc))
       => \E event \in Live(osc) : event.phase = "LOCK"

\* LOCK is only set for a PLL that drives the clock and that has had its time
\* since the last switch, write or programming that disturbed it: no event of
\* before reports the lock of now (complete_oscillator_event).
LockHonest == osc.lock => Pll(osc.current) /\ steady = SwitchDelay

\* A reset asked for during an operation happens when it ends, with the first
\* cause; that of the watchdog only when there is no other; and the interrupt
\* of the operation only when there is none (complete_nvm_event, runtime.c).
FirstWarm(i) ==
    i \in DOMAIN asked /\ asked[i] # "WDTO" /\ \A j \in 1 .. i - 1 : asked[j] = "WDTO"

Owed ==
    IF \E i \in DOMAIN asked : FirstWarm(i) THEN asked[CHOOSE i \in DOMAIN asked : FirstWarm(i)]
    ELSE IF asked # <<>> THEN "WDTO" ELSE "interrupt"

DeferredResets ==
    [][ended # ended' /\ ended' # None
       => /\ ended' = Owed
          /\ ended' # "interrupt" => cause' = Owed /\ power' = "active" /\ ~watchdog'.pending]_vars

=============================================================================
