------------------------------- MODULE Timers -------------------------------
(***************************************************************************)
(* Timers of the three types: a (Timer1), b (Timer2) and c (Timer3), of    *)
(* which b and c can be one timer of twice the width (timing/timers.c,     *)
(* their registers in platform/register_updates.c, their pins in           *)
(* platform/gpio/inputs.c).  Time passes in steps of the advance loop of   *)
(* runtime.c, each as long as no timer reaches its period and no event     *)
(* falls due before its end, and a timer is moved by a whole step at once. *)
(*                                                                         *)
(* Left out: what the matches and the clocks of a timer drive (input       *)
(* capture, output compare, the comparator's filter, the ADC and DMA): no  *)
(* source awaits one, so that clock_timer takes its ticks in one go.       *)
(***************************************************************************)
EXTENDS Integers, FiniteSets, FiniteSetsExt

CONSTANT Settings   \* max: the largest counter; ratio: device cycles of an instruction (DOZE);
                    \* stop: the timers with TSIDL; sync: TSYNC; used and controls: the timers
                    \* the program touches and what it writes to TxCON; changes: bound, how
                    \* often anything but time moves them

Names == {"a", "b", "c"}
Control == [on : BOOLEAN, external : BOOLEAN, gated : BOOLEAN, prescale : {1, 2}]
Off == [on |-> FALSE, external |-> FALSE, gated |-> FALSE, prescale |-> 1]

ASSUME TimersAssumption ==
    Settings \subseteq [max : Nat \ {0}, ratio : Nat \ {0}, stop : SUBSET Names, sync : BOOLEAN,
                        used : SUBSET Names, controls : SUBSET Control, changes : Nat]

VARIABLE timers   \* the registers and cpu->io.timer_* of the three, and the instruction under way

Fresh(setting) ==
    [setting |-> setting, control |-> [x \in Names |-> Off], pair |-> FALSE,
     counter |-> [x \in Names |-> 0], period |-> [x \in Names |-> setting.max], holding |-> 0,
     fraction |-> [x \in Names |-> 0], started |-> {}, gate |-> {},
     off |-> {}, disabled |-> {}, generation |-> [x \in Names |-> 0],   \* the PMD registers and their effect
     power |-> "active", left |-> 0, ratio |-> setting.ratio, events |-> {},
     raised |-> {}, changes |-> 0,
     merged |-> FALSE]                      \* history: two matches under the own clock were one

\* Any configuration can be written before time passes.
Init ==
    \E setting \in Settings :
       \E control \in [setting.used -> setting.controls], pair \in BOOLEAN,
          period, counter \in [setting.used -> 0..setting.max] :
          /\ pair => {"b", "c"} \subseteq setting.used
          /\ timers = [Fresh(setting) EXCEPT
                          !.control = [x \in Names |-> IF x \in setting.used THEN control[x] ELSE @[x]],
                          !.period = [x \in Names |-> IF x \in setting.used THEN period[x] ELSE @[x]],
                          !.counter = [x \in Names |-> IF x \in setting.used THEN counter[x] ELSE @[x]],
                          !.pair = pair]
-----------------------------------------------------------------------------
PairEnabled(t, x) == x = "b" /\ t.pair
PairedHigh(t, x) == x = "c" /\ t.pair

Width(t) == t.setting.max + 1
Value(t, x) == t.counter[x] + IF PairEnabled(t, x) THEN Width(t) * t.counter["c"] ELSE 0
Period(t, x) == t.period[x] + IF PairEnabled(t, x) THEN Width(t) * t.period["c"] ELSE 0
Maximum(t, x) == (IF PairEnabled(t, x) THEN Width(t) * Width(t) ELSE Width(t)) - 1

\* The timer whose interrupt a match is: the high half of a pair.
SignalTimer(t, x) == IF PairEnabled(t, x) THEN "c" ELSE x

PowerEnabled(t, x, external) ==
    \/ t.power = "active"
    \/ t.power = "idle" /\ x \notin t.setting.stop
       /\ (PairEnabled(t, x) => "c" \notin t.setting.stop)
    \/ external /\ x = "a" /\ ~t.setting.sync

\* The halves of a pair are disabled together.
PmdDisabled(t, x) ==
    ({x} \union (IF t.pair /\ x \in {"b", "c"} THEN {"b", "c"} ELSE {})) \intersect t.disabled # {}

Gated(t, x) == t.control[x].gated /\ ~t.control[x].external

\* What advance_timers and timer_boundary_cycles ask of a timer under its own clock.
Runs(t, x) ==
    /\ t.control[x].on /\ ~t.control[x].external
    /\ ~PmdDisabled(t, x) /\ ~PairedHigh(t, x) /\ PowerEnabled(t, x, FALSE)
    /\ t.control[x].gated => x \in t.gate

\* advance_counter
FirstMatch(value, period, maximum) ==
    CASE value = period -> period + 1
      [] value < period -> period - value
      [] value > period -> maximum - value + 1 + period

FirstReset(value, period, maximum) ==
    IF value = period THEN 1 ELSE FirstMatch(value, period, maximum) + 1

Matches(value, period, maximum, ticks) ==
    LET first == FirstMatch(value, period, maximum)
    IN  IF ticks < first THEN 0 ELSE 1 + (ticks - first) \div (period + 1)

AdvanceCounter(value, period, maximum, ticks) ==
    LET first == FirstReset(value, period, maximum)
    IN  IF ticks < first THEN (value + ticks) % (maximum + 1) ELSE (ticks - first) % (period + 1)

\* signal_timer_period
SignalPeriod(t, x, matches) ==
    IF matches = 0 \/ Period(t, x) = 0 \/ Gated(t, x) THEN t
    ELSE [t EXCEPT !.events = @ \union {[kind |-> "interrupt", timer |-> SignalTimer(t, x),
                                         left |-> t.ratio]}]

\* dspic33_device_internal_clock_timer, advance_timer_ticks
ClockTimer(t, x, clocks) ==
    LET prescale == t.control[x].prescale
        ticks == (t.fraction[x] + clocks) \div prescale
        value == AdvanceCounter(Value(t, x), Period(t, x), Maximum(t, x), ticks)
        matches == Matches(Value(t, x), Period(t, x), Maximum(t, x), ticks)
        counted == [t EXCEPT !.fraction[x] = (@ + clocks) % prescale,
                             !.counter = [y \in Names |->
                                CASE y = x -> value % Width(t)
                                  [] y = "c" /\ PairEnabled(t, x) -> value \div Width(t)
                                  [] OTHER -> t.counter[y]],
                             !.merged = @ \/ (matches > 1 /\ ~t.control[x].external
                                              /\ Period(t, x) # 0)]
    IN  SignalPeriod(counted, x, matches)

\* advance_timers
AdvanceTimers(t, cycles) ==
    LET Clocked(u, x) == IF Runs(u, x) THEN ClockTimer(u, x, cycles) ELSE u
    IN  Clocked(Clocked(Clocked(t, "a"), "b"), "c")

TicksUntilPeriod(t, x) == FirstMatch(Value(t, x), Period(t, x), Maximum(t, x))

Boundary_Ticks(t, x) == TicksUntilPeriod(t, x) * t.control[x].prescale   \* mutant: without the fraction

Boundary(t, x) == TicksUntilPeriod(t, x) * t.control[x].prescale - t.fraction[x]

\* timer_boundary_cycles
Boundaries(t) == {Boundary(t, x) : x \in {y \in Names : Runs(t, y) /\ Period(t, y) # 0}}

\* dspic33_device_internal_pulse_timer: types A and B take their first pulse to start.
PulseTimer(t, x, pulses) ==
    IF PairedHigh(t, x) \/ PmdDisabled(t, x) \/ ~t.control[x].on \/ ~t.control[x].external
       \/ ~PowerEnabled(t, x, TRUE)
    THEN t
    ELSE IF x \in {"a", "b"} /\ x \notin t.started
         THEN ClockTimer([t EXCEPT !.started = @ \union {x}], x, pulses - 1)
         ELSE ClockTimer(t, x, pulses)

\* dspic33_device_internal_set_timer_gate
SetTimerGate(t, x, high) ==
    IF PairedHigh(t, x) THEN t
    ELSE LET set == [t EXCEPT !.gate = IF high THEN @ \union {x} ELSE @ \ {x}]
             ended == x \in t.gate /\ ~high /\ ~PmdDisabled(t, x) /\ t.control[x].on
                      /\ Gated(t, x) /\ PowerEnabled(t, x, FALSE) /\ Period(t, x) # 0
         IN  IF ended THEN [set EXCEPT !.raised = @ \union {SignalTimer(t, x)}] ELSE set

\* A write of TxCON or TMRx starts the prescaler anew.
Restarted(t, x) == [t EXCEPT !.fraction[x] = 0, !.started = @ \ {x}]
-----------------------------------------------------------------------------
Due == {event \in timers.events : event.left = 0}
Now == [timers EXCEPT !.raised = {}]
Changed == [Now EXCEPT !.changes = @ + 1]
Changeable == timers.changes < timers.setting.changes

\* The effect of an instruction comes before the time it takes.
Executes == timers.left = 0 /\ Due = {} /\ timers.power = "active"
Instruction(t) == [t EXCEPT !.left = t.setting.ratio, !.ratio = t.setting.ratio]

\* dspic33_device_internal_update_timer_register; the control of b holds T32.
WriteControl(x, control, pair) ==
    /\ Executes /\ Changeable /\ (x # "b" => pair = timers.pair)
    /\ timers' = Instruction(IF PmdDisabled(timers, x) THEN Changed
                             ELSE Restarted([Changed EXCEPT !.control[x] = control, !.pair = pair], x))

WriteCounter(x, value) ==
    /\ Executes /\ Changeable
    /\ LET ignored == \/ PmdDisabled(timers, x)
                      \/ x = "a" /\ timers.control[x].on /\ timers.control[x].external
                         /\ timers.setting.sync
           written == Restarted([Changed EXCEPT !.counter[x] = value], x)
       IN  timers' = Instruction(
              CASE ignored -> Changed
                [] ~ignored /\ PairEnabled(timers, x) -> [written EXCEPT !.counter["c"] = timers.holding]
                [] OTHER -> written)

WritePeriod(x, value) ==
    /\ Executes /\ Changeable
    /\ timers' = Instruction(IF PmdDisabled(timers, x) THEN Changed
                             ELSE [Changed EXCEPT !.period[x] = value])

WriteHolding(value) ==
    /\ Executes /\ Changeable
    /\ timers' = Instruction(IF PmdDisabled(timers, "b") THEN Changed
                             ELSE [Changed EXCEPT !.holding = value])

\* The read of the low half latches the high one (dspic33_device_read_byte).
ReadCounter ==
    /\ Executes /\ timers.pair /\ ~PmdDisabled(timers, "b") /\ timers.holding # timers.counter["c"]
    /\ timers' = Instruction([Now EXCEPT !.holding = timers.counter["c"]])

\* dspic33_device_internal_update_timer_pmd
PmdScheduled(t, x, disabled) ==
    [t EXCEPT !.generation[x] = @ + 1,
              !.events = @ \union {[kind |-> "pmd", timer |-> x, left |-> t.setting.ratio,
                                    generation |-> t.generation[x] + 1, disabled |-> disabled]}]

WritePmd(x) ==
    /\ Executes /\ Changeable
    /\ timers' = LET off == IF x \in timers.off THEN timers.off \ {x} ELSE timers.off \union {x}
                 IN  Instruction(PmdScheduled([Changed EXCEPT !.off = off], x, x \in off))

\* PWRSAV; an interrupt wakes the core when the host has let time pass.
ChangePower(power) ==
    /\ timers.left = 0 /\ Due = {} /\ Changeable
    /\ (timers.power = "active") # (power = "active")
    /\ timers' = [Changed EXCEPT !.power = power]

Nop ==
    /\ Executes
    /\ timers' = Instruction(Now)

\* dspic33_device_advance, which counts no DOZE.
HostAdvance ==
    /\ timers.left = 0 /\ Due = {}
    /\ timers' = [Now EXCEPT !.left = timers.setting.max + 2, !.ratio = 1]

\* DSPIC33_EVENT_TIMER and DSPIC33_EVENT_TIMER_GATE, or an edge of the pin.
Pulse(x, pulses) ==
    /\ Changeable
    /\ timers' = PulseTimer(Changed, x, pulses)

Gate(x) ==
    /\ Changeable
    /\ timers' = SetTimerGate(Changed, x, x \notin timers.gate)

\* One turn of the loop of dspic33_device_advance_instruction.  An event of the
\* host may end it anywhere.
Advance ==
    /\ timers.left > 0 /\ Due = {}
    /\ \E cycles \in 1..Min({timers.left} \union {event.left : event \in timers.events}
                            \union Boundaries(timers)) :
          timers' = AdvanceTimers([Now EXCEPT
                       !.left = @ - cycles,
                       !.events = {[event EXCEPT !.left = @ - cycles] : event \in @}], cycles)

\* dspic33_device_internal_run_timer_pmd
RunPmd(t, event) ==
    IF event.generation # t.generation[event.timer] THEN t
    ELSE [t EXCEPT !.disabled = IF event.disabled THEN @ \union {event.timer}
                                                  ELSE @ \ {event.timer}]

Dispatch ==
    \E event \in Due :
       LET taken == [Now EXCEPT !.events = @ \ {event}]
       IN  timers' = IF event.kind = "pmd" THEN RunPmd(taken, event)
                     ELSE [taken EXCEPT !.raised = {event.timer}]

Program(x) ==
    \/ \E control \in timers.setting.controls, pair \in BOOLEAN : WriteControl(x, control, pair)
    \/ \E value \in 0..timers.setting.max : WriteCounter(x, value) \/ WritePeriod(x, value)
    \/ WritePmd(x)

Next ==
    \/ \E x \in timers.setting.used :
          Program(x) \/ Gate(x) \/ \E pulses \in {1, timers.setting.max + 3} : Pulse(x, pulses)
    \/ "c" \in timers.setting.used /\ \E value \in 0..timers.setting.max : WriteHolding(value)
    \/ ReadCounter
    \/ \E power \in {"active", "idle", "sleep"} : ChangePower(power)
    \/ Nop \/ HostAdvance \/ Advance \/ Dispatch

Spec == Init /\ [][Next]_timers
-----------------------------------------------------------------------------
TypeOK ==
    /\ timers.setting \in Settings /\ timers.control \in [Names -> Control]
    /\ timers.counter \in [Names -> 0..timers.setting.max]
    /\ timers.period \in [Names -> 0..timers.setting.max]
    /\ timers.left \in 0..timers.setting.max + 2 + timers.setting.ratio
    /\ \A x \in Names : timers.fraction[x] < timers.control[x].prescale
    /\ \A event \in timers.events : event.left \in 0..timers.setting.ratio

\* A timer is in effect disabled as its PMD register says, or the event that
\* will make it so is on its way.
EventsAgree ==
    \A x \in Names :
       \/ (x \in timers.disabled) = (x \in timers.off)
       \/ \E event \in timers.events :
             event.kind = "pmd" /\ event.timer = x /\ event.generation = timers.generation[x]
             /\ event.disabled = (x \in timers.off)

\* The timer of the manual: a tick after the period comes 0, and a match is the
\* arrival at the period.
Tick(value, period, maximum) == IF value = period THEN 0 ELSE (value + 1) % (maximum + 1)

Cycles(t, x) ==
    LET prescale == t.control[x].prescale
        Cycle(c) == IF c.fraction + 1 < prescale THEN [c EXCEPT !.fraction = @ + 1]
                    ELSE LET value == Tick(c.value, Period(t, x), Maximum(t, x))
                         IN  [fraction |-> 0, value |-> value,
                              matches |-> c.matches + IF value = Period(t, x) THEN 1 ELSE 0]
        horizon == 2 * prescale * (Maximum(t, x) + 2)
        at[n \in 0..horizon] ==
           IF n = 0 THEN [fraction |-> t.fraction[x], value |-> Value(t, x), matches |-> 0]
           ELSE Cycle(at[n - 1])
    IN  at

\* However long a step of the loop is, a timer ends it where counting its cycles
\* one by one would have, the boundary is the first match of any, and no two
\* matches of a timer under its own clock are one interrupt (advance_counter and
\* timer_boundary_cycles).
BoundariesKept ==
    /\ ~timers.merged
    /\ \A x \in {y \in timers.setting.used : Runs(timers, y)} :
          LET counted == Cycles(timers, x)
              ticks(n) == (timers.fraction[x] + n) \div timers.control[x].prescale
              once == {n \in DOMAIN counted : counted[n].matches > 0}
          IN  /\ \A n \in DOMAIN counted \ {0} :
                    /\ Value(ClockTimer(timers, x, n), x) = counted[n].value
                    /\ Matches(Value(timers, x), Period(timers, x), Maximum(timers, x), ticks(n))
                          = counted[n].matches
              /\ Boundary(timers, x) = Min(once)

=============================================================================
