-------------------------- MODULE InterruptControl --------------------------
(***************************************************************************)
(* How the processor takes interrupts and traps: the boundary between two  *)
(* instructions in dspic33_step (run.c), the interrupt entry of            *)
(* memory/dma/runtime.c, the traps of traps.c and instructions.c, RETFIE,  *)
(* and the deferral of flags that software raised.                         *)
(*                                                                         *)
(* The device clock runs while an instruction retires and, twice, while an *)
(* interrupt is being entered.  Each of those windows is a phase in which  *)
(* peripherals raise flags and the DMA controller may enter a trap:        *)
(*   boundary    dspic33_step looks for a trap, then for an interrupt      *)
(*   entry       service_interrupt has selected; first advance             *)
(*   entry_low   the low return word is pushed; second advance             *)
(*   execute     an instruction is executed                                *)
(*   retire      the clock runs for the instruction's cycles               *)
(*                                                                         *)
(* A return address is the activation it returns to: the main program or   *)
(* a handler, with its depth.  The stack holds the two words of each frame.*)
(*                                                                         *)
(* In each window a peripheral may also reset the device, and the advance  *)
(* itself may fail, for an event it could not queue.                       *)
(*                                                                         *)
(* Bounds of the model: from the nesting MaxErrorDepth on there is no      *)
(* address or DMA error, from MaxLevelDepth on no handler writes its level *)
(* or clears CORCON.IPL3, MaxDisi caps the cycles of a DISI.               *)
(* DmaTrapPhases names the windows in which a DMA error may strike,        *)
(* SoftwareLevels and NstdisWrites what software writes to SR.IPL and to   *)
(* INTCON1.NSTDIS.  Trap vectors are implemented addresses.                *)
(***************************************************************************)
EXTENDS Integers, SequencesExt

CONSTANTS Irq,             \* interrupt numbers
          Priority,        \* Priority[i]: the IPC field of interrupt i
          Vectored,        \* interrupts whose vector is an implemented address
          Traps,           \* the kinds of soft traps raised, of SoftTrap
          SoftTrapSlots,   \* entries of cpu->pending_soft_traps
          DmaTrapPhases, SoftwareLevels, NstdisWrites,
          MaxErrorDepth, MaxLevelDepth, MaxDisi

SoftTrap == {"oscillator", "hard", "stack", "math", "soft"}

ASSUME InterruptAssumption ==
    /\ Irq \subseteq Nat /\ IsFiniteSet(Irq)
    /\ Priority \in [Irq -> 0 .. 7]
    /\ Vectored \subseteq Irq
    /\ Traps \subseteq SoftTrap
    /\ SoftTrapSlots \in Nat \ {0}
    /\ DmaTrapPhases \subseteq {"entry", "entry_low", "retire", "boundary"}
    /\ SoftwareLevels \subseteq 0 .. 7 /\ NstdisWrites \subseteq BOOLEAN
    /\ MaxErrorDepth \in Nat /\ MaxLevelDepth \in Nat /\ MaxDisi \in Nat

VARIABLES phase,
          flags, enabled,                 \* IFS and IEC
          deferred, deferred_next,        \* cpu->interrupt_deferred(_next)
          gie,                            \* INTCON2.GIE
          gie_deferred, gie_deferred_next,\* cpu->gie_disable_deferred(_next)
          nstdis,                         \* INTCON1.NSTDIS
          disicnt,                        \* cpu->disicnt
          ipl, ipl3,                      \* SR.IPL and CORCON.IPL3
          running,                        \* what the program counter is in
          stack,                          \* the words from the main program up
          entry,                          \* the locals of service_interrupt
          pending,                        \* cpu->pending_soft_traps: the delay of each
          sources,                        \* level-sensitive trap sources that are on
          power,                          \* cpu->power_state
          wait,                           \* the instruction has a separate wait cycle
          fresh                           \* history: flags the last instruction raised

request == <<flags, enabled, deferred, deferred_next>>
mask == <<gie, gie_deferred, gie_deferred_next, nstdis, disicnt>>
context == <<ipl, ipl3, running, stack>>
traps == <<pending, sources>>

vars == <<phase, request, mask, context, entry, traps, power, wait, fresh>>

LevelSources == {"hard", "math", "soft"}

TrapPriority == [oscillator |-> 15, hard |-> 13, stack |-> 12, math |-> 11, soft |-> 9]

TrapDelay == [oscillator |-> 0, hard |-> 0, stack |-> 2, math |-> 2, soft |-> 1]

\* level and alone are history: what the level was raised to on entry, and whether
\* NSTDIS was set then.
Activation == [kind : {"main", "user", "trap", "dma"}, depth : Nat, level : 0 .. 15,
               alone : BOOLEAN]

Word == [half : {"low", "high"}, of : Activation, level : 0 .. 15]

Level(l, l3) == IF l3 THEN 8 + l ELSE l

level == Level(ipl, ipl3)

interrupt_depth == running.depth

LowWord == [half |-> "low", of |-> running, level |-> 0]

HighWord == [half |-> "high", of |-> running, level |-> level]

Main == [kind |-> "main", depth |-> 0, level |-> 0, alone |-> FALSE]

NoEntry == [irq |-> -1, high |-> [half |-> "high", of |-> Main, level |-> 0],
            then |-> "boundary"]
-----------------------------------------------------------------------------
\* dspic33_device_internal_interrupt_enabled and interrupt_deferred.
Requesting(i) == i \in flags /\ i \in enabled /\ i \notin deferred

Eligible_NotBelow(i) == /\ Requesting(i)   \* mutant: also of the same level
                        /\ disicnt = 0 \/ Priority[i] = 7
                        /\ Priority[i] >= ipl

Eligible(i) == /\ Requesting(i)
               /\ disicnt = 0 \/ Priority[i] = 7
               /\ Priority[i] > ipl

\* select_interrupt: the highest priority, and of those the lowest number.
Selectable == IF (gie \/ gie_deferred) /\ ~ipl3 THEN {i \in Irq : Eligible(i)} ELSE {}

Selected(i) == /\ i \in Selectable
               /\ \A j \in Selectable : \/ Priority[j] < Priority[i]
                                        \/ Priority[j] = Priority[i] /\ i <= j

Wakeable_Masked == Selectable   \* mutant: a masked interrupt does not wake

Wakeable == {i \in Irq : Requesting(i) /\ Priority[i] # 0}

\* dspic33_internal_schedule_soft_trap: an entry keeps the shorter delay, and a
\* trap that finds no free entry is dropped.
schedule_soft_trap(p, t) ==
    IF t \in DOMAIN p
    THEN [p EXCEPT ![t] = Min({@, TrapDelay[t]})]
    ELSE IF Cardinality(DOMAIN p) < SoftTrapSlots
         THEN [u \in DOMAIN p \union {t} |-> IF u = t THEN TrapDelay[t] ELSE p[u]]
         ELSE p

Without(p, t) == [u \in DOMAIN p \ {t} |-> p[u]]

advance_pending_soft_traps_Wraps(p, cycles) ==   \* mutant: past zero
    [t \in DOMAIN p |-> p[t] - cycles]

advance_pending_soft_traps(p, cycles) ==
    [t \in DOMAIN p |-> Max({0, p[t] - cycles})]

Ripe(p) == {t \in DOMAIN p : p[t] = 0}

\* dspic33_check_stack_address: words that are pushed or popped outside of the stack's
\* limits are so nevertheless, and raise a stack trap.
CheckStack(p) ==
    {p} \union (IF "stack" \in Traps THEN {schedule_soft_trap(p, "stack")} ELSE {})

\* A hard trap that is ripe below the level of the running one: reset.
Conflict(p, l) == \E t \in Ripe(p) : TrapPriority[t] >= 13 /\ TrapPriority[t] < l

Serviceable(p, l) == {t \in Ripe(p) : TrapPriority[t] > l}

\* The entry of a serviced trap stays active while its source is on.
AfterService_Cleared(p, t) == Without(p, t)   \* mutant: it is always freed

AfterService(p, t) == IF t \in sources THEN p ELSE Without(p, t)
-----------------------------------------------------------------------------
Init == /\ phase = "boundary"
        /\ flags = {} /\ enabled = {} /\ deferred = {} /\ deferred_next = {}
        /\ gie = TRUE /\ gie_deferred = FALSE /\ gie_deferred_next = FALSE
        /\ nstdis = FALSE /\ disicnt = 0
        /\ ipl = 0 /\ ipl3 = FALSE /\ running = Main /\ stack = << >>
        /\ entry = NoEntry
        /\ pending = << >> /\ sources = {}
        /\ power = "active"
        /\ wait = FALSE /\ fresh = {}

\* dspic33_internal_perform_warm_reset, with no NVM operation under way.
WarmReset == /\ phase' = "boundary"
             /\ flags' = {} /\ enabled' = {} /\ deferred' = {} /\ deferred_next' = {}
             /\ gie' = TRUE /\ gie_deferred' = FALSE /\ gie_deferred_next' = FALSE
             /\ nstdis' = FALSE /\ disicnt' = 0
             /\ ipl' = 0 /\ ipl3' = FALSE /\ running' = Main /\ stack' = << >>
             /\ entry' = NoEntry
             /\ pending' = << >> /\ sources' = {}
             /\ power' = "active"
             /\ wait' = FALSE /\ fresh' = {}

TrapFrame == <<LowWord, HighWord>>

\* dspic33_internal_enter_trap, for a trap that does not reset the processor.
PushTrap(kind, priority) ==
    /\ stack' = stack \o TrapFrame
    /\ ipl3' = (priority > 7)
    /\ ipl' = priority % 8
    /\ running' = [kind |-> kind, depth |-> interrupt_depth + 1, level |-> priority,
                   alone |-> FALSE]

\* dspic33_internal_enter_address_trap, of priority 14.
EnterAddressTrap(next) ==
    \/ level > 14 /\ WarmReset
    \/ /\ level <= 14
       /\ PushTrap("trap", 14)
       /\ phase' = next
       /\ power' = "active"
       /\ pending' \in CheckStack(pending)
       /\ UNCHANGED <<request, mask, entry, sources, wait, fresh>>

\* dspic33_internal_service_pending_soft_trap, with the delays of p.
ServicesTrap(p) == Conflict(p, level) \/ Serviceable(p, level) # {}

PushSoftTrap(p) ==
    /\ ~Conflict(p, level)
    /\ \E t \in Serviceable(p, level) :
          /\ \A u \in Serviceable(p, level) : TrapPriority[u] <= TrapPriority[t]
          /\ PushTrap("trap", TrapPriority[t])
          /\ pending' \in CheckStack(AfterService(p, t))
-----------------------------------------------------------------------------
\* dspic33_device_advance_instruction turns the deferral over, and with a
\* separate wait cycle it does so twice; a handler keeps the first.
Deferred_Twice(w) == IF w THEN {} ELSE deferred_next   \* mutant: so does a handler

Deferred(w) == IF w /\ interrupt_depth = 0 THEN {} ELSE deferred_next

TurnOver(w, cycles) ==
    /\ deferred' = Deferred(w)
    /\ deferred_next' = {}
    /\ gie_deferred' = (gie_deferred_next /\ ~w)
    /\ gie_deferred_next' = FALSE
    /\ disicnt' = Max({0, disicnt - cycles})
    /\ UNCHANGED <<flags, enabled, gie, nstdis>>

\* The last instruction is over, with its wait cycle and the flags it raised.
Forget == wait' = FALSE /\ fresh' = {}

\* service_interrupt from its selection to its first advance.  CodeGuard refuses
\* a vector into a protected segment with a reset.
service_interrupt(next) ==
    \E i \in Irq :
        /\ Selected(i)
        /\ \/ /\ i \in Vectored
              /\ phase' = "entry"
              /\ entry' = [irq |-> i, high |-> HighWord, then |-> next]
              /\ Forget
              /\ UNCHANGED <<request, mask, context, traps, power>>
           \/ i \in Vectored /\ WarmReset
           \/ i \notin Vectored /\ EnterAddressTrap(next)

\* Mutant: nesting is not disabled.
EntryLevel_Nested == Priority[entry.irq]

EntryLevel == IF nstdis THEN 7 ELSE Priority[entry.irq]

\* The end of the first advance: the low word is pushed and the level raised.
PushLow == /\ phase = "entry"
           /\ phase' = "entry_low"
           /\ TurnOver(FALSE, 6)
           /\ stack' = Append(stack, LowWord)
           /\ ipl' = EntryLevel
           /\ pending' \in CheckStack(pending)
           /\ UNCHANGED <<ipl3, running, entry, sources, power, wait, fresh>>

\* The end of the second advance: the high word, captured before the first, is
\* pushed, and the handler entered.
PushHigh == /\ phase = "entry_low"
            /\ phase' = entry.then
            /\ TurnOver(FALSE, 3)
            /\ stack' = Append(stack, entry.high)
            /\ running' = [kind |-> "user", depth |-> interrupt_depth + 1, level |-> ipl,
                           alone |-> nstdis]
            /\ entry' = NoEntry
            /\ power' = "active"
            /\ pending' \in CheckStack(pending)
            /\ UNCHANGED <<ipl, ipl3, sources, wait, fresh>>
-----------------------------------------------------------------------------
\* dspic33_step between two instructions.
DispatchTrap == /\ phase = "boundary" /\ power = "active"
                /\ \/ Conflict(pending, level) /\ WarmReset
                   \/ /\ PushSoftTrap(pending)
                      /\ phase' = "execute"
                      /\ Forget
                      /\ UNCHANGED <<request, mask, entry, sources, power>>

DispatchInterrupt == /\ phase = "boundary" /\ power = "active"
                     /\ ~ServicesTrap(pending)
                     /\ service_interrupt("execute")

\* No interrupt is taken before an instruction that enters a power-saving mode.
Proceed == /\ phase = "boundary" /\ power = "active"
           /\ ~ServicesTrap(pending)
           /\ phase' = IF Selectable = {} THEN "execute" ELSE "power_save"
           /\ Forget
           /\ UNCHANGED <<request, mask, context, entry, traps, power>>

\* dspic33_device_wake: any requesting interrupt wakes the processor, and one
\* that can be selected is also entered.
Wake == /\ power = "saving"
        /\ phase \in {"boundary", "retired"}
        /\ Wakeable # {}
        /\ LET next == IF phase = "retired" THEN "boundary" ELSE "execute"
           IN  \/ service_interrupt(next)
               \/ /\ Selectable = {}
                  /\ phase' = next
                  /\ power' = "active"
                  /\ Forget
                  /\ UNCHANGED <<request, mask, context, entry, traps>>

StaySaving == /\ phase = "retired"
              /\ Wakeable = {}
              /\ phase' = "boundary"
              /\ Forget
              /\ UNCHANGED <<request, mask, context, entry, traps, power>>

\* The host runs the device clock of a processor that sleeps or idles.
HostAdvance == /\ phase = "boundary" /\ power = "saving"
               /\ Wakeable = {}
               /\ TurnOver(FALSE, 1)
               /\ UNCHANGED <<phase, context, entry, traps, power, wait, fresh>>
-----------------------------------------------------------------------------
\* The windows in which the device clock runs.
ClockRuns == \/ phase \in {"entry", "entry_low", "retire"}
             \/ phase = "boundary" /\ power = "saving"

\* dspic33_raise_interrupt from an event handler.
RaiseInterrupt == /\ ClockRuns
                  /\ \E i \in Irq \ flags : flags' = flags \union {i}
                  /\ UNCHANGED <<phase, enabled, deferred, deferred_next, mask, context,
                                 entry, traps, power, wait, fresh>>

RaiseOscillatorFail ==
    /\ ClockRuns
    /\ "oscillator" \in Traps
    /\ pending' = schedule_soft_trap(pending, "oscillator")
    /\ UNCHANGED <<phase, request, mask, context, entry, sources, power, wait, fresh>>

\* dspic33_raise_dma_collision_trap and dspic33_raise_dma_address_trap enter
\* the trap at once, whatever the level of the processor.
DmaTrap ==
    /\ ClockRuns
    /\ phase \in DmaTrapPhases
    /\ interrupt_depth < MaxErrorDepth
    /\ \/ PushTrap("dma", 10) /\ pending' \in CheckStack(pending) /\ UNCHANGED sources
       \/ /\ "soft" \in Traps
          /\ PushTrap("dma", 9)
          /\ sources' = sources \union {"soft"}
          /\ pending' \in CheckStack(schedule_soft_trap(pending, "soft"))
    /\ UNCHANGED <<phase, request, mask, entry, power, wait, fresh>>

\* A watchdog, a clock failure or a configuration mismatch resets the device while
\* its clock runs; service_interrupt and dspic33_step then give up what they were
\* doing.
PeripheralReset == ClockRuns /\ WarmReset

\* The advance fails, for an event it could not queue or for its counters' limit:
\* the step ends with DSPIC33_EVENT_QUEUE_ERROR and leaves what it had done.
AdvanceFails == /\ ClockRuns
                /\ phase' = "failed"
                /\ UNCHANGED <<request, mask, context, entry, traps, power, wait, fresh>>

\* The host resets the device, or leaves it (runner/main.c fails).
HostReset == phase = "failed" /\ WarmReset
-----------------------------------------------------------------------------
\* Every instruction starts with no flag of its own.
Executes(f) == /\ phase = "execute"
               /\ phase' = "retire"
               /\ wait' \in BOOLEAN
               /\ fresh' = f

Plain == Executes({}) /\ UNCHANGED <<request, mask, context, entry, traps, power>>

\* A write to IFS: a flag that software raises is deferred, for one more
\* instruction unless a wait cycle of the main program lets it through.
SetFlag == \E i \in Irq \ flags :
              /\ Executes({i})
              /\ flags' = flags \union {i}
              /\ deferred_next' = deferred_next \union {i}
              /\ UNCHANGED <<enabled, deferred, mask, context, entry, traps, power>>

ClearFlag == \E i \in flags :
              /\ Executes({})
              /\ flags' = flags \ {i}
              /\ deferred' = deferred \ {i}
              /\ deferred_next' = deferred_next \ {i}
              /\ UNCHANGED <<enabled, mask, context, entry, traps, power>>

WriteIec == \E E \in SUBSET Irq :
              /\ Executes({})
              /\ enabled' = E
              /\ UNCHANGED <<flags, deferred, deferred_next, mask, context, entry, traps, power>>

\* A write to INTCON2: clearing GIE takes effect one boundary later.
WriteGie == /\ Executes({})
            /\ gie' \in BOOLEAN
            /\ gie_deferred' = (gie_deferred /\ ~gie')
            /\ gie_deferred_next' = (~gie' /\ (gie \/ gie_deferred_next))
            /\ UNCHANGED <<request, nstdis, disicnt, context, entry, traps, power>>

WriteNstdis == /\ Executes({})
               /\ nstdis' \in NstdisWrites
               /\ UNCHANGED <<request, gie, gie_deferred, gie_deferred_next, disicnt,
                              context, entry, traps, power>>

\* DISI, and a write to DISICNT, which cannot start an interval.
Disi == /\ Executes({})
        /\ \/ disicnt' \in 1 .. MaxDisi
           \/ disicnt # 0 /\ disicnt' = 0
        /\ UNCHANGED <<request, gie, gie_deferred, gie_deferred_next, nstdis,
                       context, entry, traps, power>>

\* A write to SR.IPL, which NSTDIS protects, or one that clears CORCON.IPL3.
WriteLevel == /\ Executes({})
              /\ interrupt_depth < MaxLevelDepth
              /\ \/ ~nstdis /\ ipl' \in SoftwareLevels /\ UNCHANGED ipl3
                 \/ SoftwareLevels # {} /\ ipl3' = FALSE /\ UNCHANGED ipl
              /\ UNCHANGED <<request, mask, running, stack, entry, traps, power>>

\* dspic33_device_return_interrupt.
Retfie == LET high == Last(stack)
              low == stack[Len(stack) - 1]
          IN  /\ stack # << >>
              /\ Executes({})
              /\ stack' = SubSeq(stack, 1, Len(stack) - 2)
              /\ running' = low.of
              /\ ipl' = high.level % 8
              /\ ipl3' = (high.level > 7)
              /\ pending' \in CheckStack(pending)
              /\ UNCHANGED <<request, mask, entry, sources, power>>

PowerSave == /\ phase \in {"execute", "power_save"}
             /\ phase' = "retire"
             /\ wait' \in BOOLEAN
             /\ fresh' = {}
             /\ power' = "saving"
             /\ UNCHANGED <<request, mask, context, entry, traps>>

\* Writes to INTCON2..INTCON4, arithmetic errors, and a clear of MATHERR.
WriteTrapSource ==
    /\ Executes({})
    /\ \E t \in Traps \intersect LevelSources :
          \/ sources' = sources \union {t} /\ pending' = schedule_soft_trap(pending, t)
          \/ sources' = sources \ {t} /\ pending' = Without(pending, t)
    /\ UNCHANGED <<request, mask, context, entry, power>>

StackError == /\ Executes({})
              /\ "stack" \in Traps
              /\ pending' = schedule_soft_trap(pending, "stack")
              /\ UNCHANGED <<request, mask, context, entry, sources, power>>

AddressError == /\ phase = "execute"
                /\ interrupt_depth < MaxErrorDepth
                /\ EnterAddressTrap("retire")

ResetInstruction == phase = "execute" /\ WarmReset

Instruction == \/ Plain \/ SetFlag \/ ClearFlag \/ WriteIec \/ WriteGie \/ WriteNstdis
               \/ Disi \/ WriteLevel \/ Retfie \/ PowerSave \/ WriteTrapSource
               \/ StackError \/ AddressError \/ ResetInstruction

\* dspic33_internal_advance_instruction: the clock runs for the cycles of the
\* instruction, the traps it raised come nearer, and one of them is entered.
Retire == \E cycles \in (IF wait THEN 2 ELSE 1) .. 2 :
    LET p == advance_pending_soft_traps(pending, cycles)
    IN  /\ phase = "retire"
        /\ \/ Conflict(p, level) /\ WarmReset
           \/ /\ \/ PushSoftTrap(p)
                 \/ /\ ~ServicesTrap(p)
                    /\ pending' = p
                    /\ UNCHANGED context
              /\ TurnOver(wait, cycles)
              /\ phase' = IF power = "saving" THEN "retired" ELSE "boundary"
              /\ UNCHANGED <<entry, sources, power, wait, fresh>>

Processor == \/ DispatchTrap \/ DispatchInterrupt \/ Proceed \/ Wake \/ StaySaving
             \/ PushLow \/ PushHigh \/ Instruction \/ Retire

Next == \/ Processor \/ HostAdvance
        \/ RaiseInterrupt \/ RaiseOscillatorFail \/ DmaTrap
        \/ PeripheralReset \/ AdvanceFails \/ HostReset

Spec == Init /\ [][Next]_vars

\* The host keeps stepping the processor and, while it sleeps, its device.
FairSpec == Spec /\ WF_vars(Processor) /\ WF_vars(HostAdvance)
-----------------------------------------------------------------------------
TypeOK == /\ phase \in {"boundary", "entry", "entry_low", "execute", "power_save",
                        "retire", "retired", "failed"}
          /\ flags \subseteq Irq /\ enabled \subseteq Irq
          /\ deferred \subseteq Irq /\ deferred_next \subseteq Irq
          /\ gie \in BOOLEAN /\ gie_deferred \in BOOLEAN /\ gie_deferred_next \in BOOLEAN
          /\ nstdis \in BOOLEAN /\ disicnt \in 0 .. MaxDisi
          /\ ipl \in 0 .. 7 /\ ipl3 \in BOOLEAN
          /\ running \in Activation
          /\ stack \in Seq(Word)
          /\ entry.irq \in Irq \union {-1} /\ entry.high \in Word
          /\ entry.then \in {"boundary", "execute"}
          /\ DOMAIN pending \subseteq Traps /\ \A t \in DOMAIN pending : pending[t] \in 0 .. 2
          /\ Cardinality(DOMAIN pending) <= SoftTrapSlots
          /\ sources \subseteq Traps
          /\ power \in {"active", "saving"}
          /\ wait \in BOOLEAN /\ fresh \subseteq Irq

\* Whatever is raised while an interrupt is being entered or an instruction
\* retires, and whatever level the program wrote, a handler is entered at a
\* level above the one it preempts.  The traps of the DMA controller, entered at
\* any level, are the exception, and an address error in its own handler.
Entered(i) == IF i = Len(stack) THEN running ELSE stack[i + 1].of

NestingOrdered ==
    \A i \in 1 .. Len(stack) :
        LET to == Entered(i)
        IN  stack[i].half = "high" /\ to.kind # "dma"
              => stack[i].level < to.level \/ (stack[i].level = 14 /\ to.level = 14)

\* The two words RETFIE pops belong to one return address: the activation it
\* returns to is also the one whose status and priority it restores.
FramesIntact ==
    phase \notin {"entry", "entry_low", "failed"} =>
        \A i \in 1 .. Len(stack) :
            IF i % 2 = 1 THEN stack[i].half = "low"
            ELSE stack[i].half = "high" /\ stack[i].of = stack[i - 1].of

\* An interrupt that was entered with NSTDIS set is not preempted by another, also
\* when traps come in between and return into the handler, unless the handler, or
\* that of a trap over it, has given up the level it was entered at.
GaveUpLevel(i) == stack[i].half = "high" /\ stack[i].level < stack[i].of.level

OneUserInterrupt ==
    \A j \in 1 .. Len(stack) : \A i \in 1 .. j :
        /\ stack[j].half = "high" /\ Entered(j).kind = "user"
        /\ stack[i].of.kind = "user" /\ stack[i].of.alone
        => \E k \in i .. j : GaveUpLevel(k)

\* A trap whose source is on stays pending, so that it strikes again unless its
\* handler removes the cause, however often it is serviced, reset or rescheduled.
LevelSourceKept == sources \subseteq DOMAIN pending

\* An interrupt that software requests is not entered before one more
\* instruction has run, except past a wait cycle of the main program.
FlagDeferred ==
    [][phase = "boundary" /\ phase' = "entry" /\ entry'.irq \in fresh
         => wait /\ interrupt_depth = 0]_vars

\* A processor that saves power does not miss an enabled interrupt, masked by
\* GIE, by DISI, by its level or deferred as it may be: it wakes, unless the
\* device's clock fails first.
Wakes == (power = "saving" /\ \E i \in flags \intersect enabled : Priority[i] # 0)
           ~> power = "active" \/ phase = "failed"
=============================================================================
