----------------------------- MODULE EventQueue -----------------------------
(***************************************************************************)
(* The event queue of the simulated device and the loop that advances the  *)
(* device clock over it (device runtime.c), with the heap abstracted to a  *)
(* set: the dispatched event is one that no other comes Earlier than.      *)
(* EventHeap.tla has the heap itself and implements this module.           *)
(*                                                                         *)
(* The loop is not atomic: the handler of an event runs between two        *)
(* iterations and may schedule, gate, re-time, discard or reset, so each   *)
(* iteration is a step of its own and all the other steps may come between *)
(* two of them.                                                            *)
(*                                                                         *)
(* A kind here is a DSPIC33_EVENT_* type together with what its module     *)
(* tells apart by the value of the event: the timing events of CAN are one *)
(* kind and its other events another.  What the modules do to their events *)
(* is the same but for the sets of kinds below.                            *)
(*                                                                         *)
(* Two things the code does leave the queue in a state it is not made for, *)
(* and two history variables tell when.  usb_cancel_events takes events    *)
(* out of the heap and does not restore it: until something else does, the *)
(* queue is unordered and its head may be any event.  An event the clock   *)
(* has passed that way, or that CAN re-times to before the present cycle,  *)
(* makes the subtractions of the loop wrap: the queue is disturbed.        *)
(*                                                                         *)
(* Bounds of the model: CycleLimit stands for UINT64_MAX, the last device  *)
(* cycle; MaxShift for the longest synchronization jump of CAN; MaxSequence *)
(* caps how many events are ever scheduled and MaxGeneration how often a   *)
(* clock is reconfigured between two brown-outs.                           *)
(***************************************************************************)
EXTENDS EventOrder, FiniteSets

CONSTANTS Types,           \* the kinds of events scheduled
          GatedTypes,      \* kinds whose events stop with their clock
          HeldTypes,       \* those that are also stopped when scheduled
          HostGatedTypes,  \* those whose events of the host stop as well (USB SOF)
          ClockTypes,      \* kinds a warm reset re-queues (AUX_PLL, OSCILLATOR)
          HostTypes,       \* kinds the host may inject
          CancelledTypes,  \* kinds whose module drops those of the host too (USB, SPI)
          UnorderedTypes,  \* those dropped without reordering the array (USB)
          StretchedTypes,  \* kinds a stretched bus clock delays (I2C)
          ShiftedTypes,    \* kinds a resynchronization moves (CAN)
          CycleLimit, MaxShift, MaxSequence, MaxGeneration

ASSUME EventQueueAssumption ==
    /\ GatedTypes \subseteq Types
    /\ HeldTypes \subseteq GatedTypes \ HostTypes
    /\ HostGatedTypes \subseteq GatedTypes
    /\ ClockTypes \subseteq (Types \ GatedTypes) \intersect {"AUX_PLL", "OSCILLATOR"}
    /\ HostTypes \subseteq Types \ ClockTypes
    /\ "DMA" \notin HostTypes \union ClockTypes
    /\ CancelledTypes \subseteq Types \ ClockTypes
    /\ UnorderedTypes \subseteq CancelledTypes
    /\ StretchedTypes \subseteq Types \ (ClockTypes \union HostTypes)
    /\ ShiftedTypes \subseteq Types \ (ClockTypes \union HostTypes \union GatedTypes)
    /\ CycleLimit \in Nat \ {0}
    /\ MaxShift \in 1 .. CycleLimit
    /\ MaxSequence \in Nat /\ MaxGeneration \in Nat

VARIABLES events,          \* cpu->events: the pending events
          sequence,        \* cpu->events.sequence: the next sequence number
          device_cycles,   \* cpu->device_cycles: the device clock
          target,          \* the cycle the running advance goes to
          advancing,       \* dspic33_device_advance_instruction is in its loop
          gated,           \* the kinds whose module last found its clock stopped
          generation,      \* the generation of each clock that is being locked
          stop_reason,     \* "running" or "queue_error"
          unordered,       \* events were taken out of the array and it was not reordered
          disturbed        \* an event may be in the past since then, or was moved there

vars == <<events, sequence, device_cycles, target, advancing, gated, generation,
          stop_reason, unordered, disturbed>>

\* A cycle number has 64 bits, and sums and differences of two wrap.
Word == 0 .. CycleLimit

Wrapped(n) == IF n < 0 THEN n + CycleLimit + 1
              ELSE IF n > CycleLimit THEN n - CycleLimit - 1 ELSE n

Event == [type : Types, source : Nat, value : Nat, cycle : Word, sequence : Nat,
          remaining : Word, paused : BOOLEAN, external : BOOLEAN]

Sources(type) == IF type = "DMA" THEN 0 .. 2 * DmaCount - 1 ELSE {0}

\* Mutant: one cycle of the delay is lost.
RemainingAt_OffByOne(e) == e.cycle - device_cycles - 1

\* What is left of the delay of a running event; USB, which may find its clock
\* stopped late, takes nothing to be left of one that is overdue.
RemainingAt(e) == IF e.type \in HostGatedTypes /\ e.cycle < device_cycles
                  THEN 0 ELSE Wrapped(e.cycle - device_cycles)

\* The same event on another clock.
Clocking(e, cycle, remaining, paused) ==
    [type |-> e.type, source |-> e.source, value |-> e.value, cycle |-> cycle,
     sequence |-> e.sequence, remaining |-> remaining, paused |-> paused,
     external |-> e.external]

PauseEvent_Forgets(e) == Clocking(e, e.cycle, 0, TRUE)   \* mutant: the rest is lost

PauseEvent(e) == Clocking(e, e.cycle, RemainingAt(e), TRUE)

\* An event may change its cycle in place: it is due n cycles later, or owes n more.
Moved(e, n) == IF e.paused THEN Clocking(e, e.cycle, Wrapped(e.remaining + n), TRUE)
               ELSE Clocking(e, Wrapped(e.cycle + n), e.remaining, FALSE)

\* A resumed event that would be due after the last cycle stays paused.
ResumeOverflows(e) == e.remaining > CycleLimit - device_cycles

\* Mutant: the event keeps the cycle it was paused with.
ResumeEvent_KeepsCycle(e) == Clocking(e, e.cycle, 0, FALSE)

ResumeEvent(e) == Clocking(e, device_cycles + e.remaining, 0, FALSE)

\* The events of a kind that its clock drives: the internal ones, and those of
\* the host where its module does not tell them apart.
Clocked_External(e, t) == e.type = t   \* mutant: those of the host as well

Clocked(e, t) == e.type = t /\ (e.external => t \in HostGatedTypes)

Due_Paused(e) == e.cycle <= target   \* mutant: paused events are due

Due(e) == ~e.paused /\ e.cycle <= target

\* No pending event comes earlier than the head of the queue, while the array is
\* a heap; what the head is when it is none depends on what was taken out.
IsHead(e) == unordered \/ \A f \in events : ~Earlier(f, e)

Heads == {e \in events : IsHead(e)}

\* Where the loop goes: to the head of the queue if it is due, or to the target.
NextCycles == IF events = {} THEN {target}
              ELSE {IF Due(e) THEN e.cycle ELSE target : e \in Heads}

\* The generation a reconfigured clock is locked under.
NextGeneration_Same(t) == generation[t]   \* mutant: the old one is reused

NextGeneration(t) == generation[t] + 1

CurrentClock(e) == e.type \in ClockTypes /\ e.value = generation[e.type]

LocksUnderWay == {e \in events : CurrentClock(e)}
-----------------------------------------------------------------------------
Init == /\ events = {}
        /\ sequence = 0
        /\ device_cycles = 0
        /\ target = 0
        /\ advancing = FALSE
        /\ gated = {}
        /\ generation = [t \in ClockTypes |-> 0]
        /\ stop_reason = "running"
        /\ unordered = FALSE
        /\ disturbed = FALSE

NewEvent(type, source, value, delay, external) ==
    [type |-> type, source |-> source, value |-> value, cycle |-> device_cycles + delay,
     sequence |-> sequence, remaining |-> 0, paused |-> FALSE, external |-> external]

\* An event scheduled under a stopped clock is paused at once where the module
\* looks (schedule_dma_channel, dspic33_i2c_internal_schedule_event); the others
\* run until the next time the module looks at its clock.
Placed_Running(e) == e   \* mutant: it is left running

Placed(e) == IF e.type \in HeldTypes \intersect gated THEN PauseEvent(e) ELSE e

\* schedule_event: refused when the due cycle would overflow.  Pausing the new
\* event reorders the array.
schedule_event(type, source, delay, external) ==
    LET new == Placed(NewEvent(type, source, 0, delay, external))
    IN  /\ sequence < MaxSequence
        /\ delay <= CycleLimit - device_cycles
        /\ sequence' = sequence + 1
        /\ events' = events \union {new}
        /\ unordered' = (unordered /\ ~new.paused)
        /\ UNCHANGED <<device_cycles, target, advancing, gated, generation, stop_reason, disturbed>>

ScheduleInternal == \E t \in Types \ ClockTypes : \E s \in Sources(t), d \in 0 .. CycleLimit :
                       schedule_event(t, s, d, FALSE)

ScheduleExternal == \E t \in HostTypes : \E s \in Sources(t), d \in 0 .. CycleLimit :
                       schedule_event(t, s, d, TRUE)

\* A lock of a clock is scheduled under a generation of the clock.
ScheduleLock(t, g) ==
    \E delay \in 0 .. CycleLimit :
        /\ sequence < MaxSequence
        /\ delay <= CycleLimit - device_cycles
        /\ sequence' = sequence + 1
        /\ events' = events \union {NewEvent(t, 0, g, delay, FALSE)}
        /\ UNCHANGED <<device_cycles, target, advancing, gated, stop_reason, unordered, disturbed>>

\* Reconfiguring a clock abandons the lock under way, by its generation, and
\* starts another one unless the clock is off or has no source.
ReconfigureClock(t) ==
    /\ generation[t] < MaxGeneration
    /\ generation' = [generation EXCEPT ![t] = NextGeneration(t)]
    /\ \/ ScheduleLock(t, NextGeneration(t))
       \/ UNCHANGED <<events, sequence, device_cycles, target, advancing, gated, stop_reason,
                      unordered, disturbed>>

\* The handler of an oscillator event goes on from the readiness of the source
\* to the lock of the PLL, under the same generation.
ContinueClock(t) == /\ advancing
                    /\ generation[t] # 0
                    /\ \A e \in LocksUnderWay : e.type # t
                    /\ ScheduleLock(t, generation[t])
                    /\ UNCHANGED generation

ClockChanged == \E t \in ClockTypes : ReconfigureClock(t) \/ ContinueClock(t)
-----------------------------------------------------------------------------
\* Entry of dspic33_device_advance_instruction, refused on overflow.
BeginAdvance == /\ ~advancing
                /\ \E n \in 0 .. CycleLimit :
                      /\ n <= CycleLimit - device_cycles
                      /\ target' = device_cycles + n
                /\ advancing' = TRUE
                /\ UNCHANGED <<events, sequence, device_cycles, gated, generation, stop_reason,
                               unordered, disturbed>>

\* An iteration that moves the clock: to the head of the queue, to the target,
\* or to a boundary of the timers or encoders before it.  A head that is in the
\* past is nearly 2^64 cycles away.
AdvanceClock ==
    /\ advancing
    /\ \E next \in NextCycles : \E n \in 1 .. Wrapped(next - device_cycles) :
          device_cycles' = Wrapped(device_cycles + n)
    /\ disturbed' = (disturbed \/ unordered)
    /\ UNCHANGED <<events, sequence, target, advancing, gated, generation, stop_reason, unordered>>

\* An iteration that pops the head of the queue and hands it to process_event.
DispatchEvent ==
    /\ advancing
    /\ \E e \in Heads :
          /\ Due(e)
          /\ e.cycle = device_cycles
          /\ events' = events \ {e}
    /\ UNCHANGED <<sequence, device_cycles, target, advancing, gated, generation, stop_reason,
                   unordered, disturbed>>

\* The loop ends at its target, with nothing due there as far as it sees.
EndAdvance == /\ advancing
              /\ device_cycles = target
              /\ events = {} \/ \E e \in Heads : ~Due(e)
              /\ advancing' = FALSE
              /\ UNCHANGED <<events, sequence, device_cycles, target, gated, generation,
                             stop_reason, unordered, disturbed>>

\* A handler left a queue error behind: the loop returns short of its target.
\* (It does so after the next dispatch; the model lets it return at any point.)
AbortAdvance == /\ advancing
                /\ stop_reason = "queue_error"
                /\ advancing' = FALSE
                /\ target' = device_cycles
                /\ UNCHANGED <<events, sequence, device_cycles, gated, generation, stop_reason,
                               unordered, disturbed>>

\* dspic33_run, dspic33_step and a reset start the processor again whatever
\* stopped it: the error is forgotten, and what could not be placed stays paused.
RunAgain == /\ ~advancing
            /\ stop_reason = "queue_error"
            /\ stop_reason' = "running"
            /\ UNCHANGED <<events, sequence, device_cycles, target, advancing, gated, generation,
                           unordered, disturbed>>
-----------------------------------------------------------------------------
\* A module finds the clock of a kind stopped (sleep, idle or peripheral module
\* disable): dma_update_power_state, pmp_pause_master_events and their likes.  It
\* may look again while it is stopped.  usb_pause_sof_events always reorders, the
\* others when they paused an event.
Gate(t) == /\ gated' = gated \union {t}
           /\ events' = {IF Clocked(e, t) /\ ~e.paused THEN PauseEvent(e) ELSE e : e \in events}
           /\ unordered' = (unordered /\ t \notin HostGatedTypes /\ events' = events)
           /\ UNCHANGED <<sequence, device_cycles, target, advancing, generation, stop_reason,
                          disturbed>>

\* It finds the clock running: what is paused goes on.  An event that cannot be
\* placed stays paused and stops the processor with a queue error.
Ungate(t) ==
    LET resumed == {e \in events : e.type = t /\ e.paused}
    IN  /\ gated' = gated \ {t}
        /\ events' = (events \ resumed) \union
             {IF ResumeOverflows(e) THEN e ELSE ResumeEvent(e) : e \in resumed}
        /\ stop_reason' = IF \E e \in resumed : ResumeOverflows(e)
                          THEN "queue_error" ELSE stop_reason
        /\ unordered' = (unordered /\ events' = events)
        /\ UNCHANGED <<sequence, device_cycles, target, advancing, generation, disturbed>>

PowerStateChanged == \E t \in GatedTypes : Gate(t) \/ Ungate(t)

\* dma_remove_channel_events, pmp_discard_master_events, remove_nvm_events: the
\* internal events of a kind, or of a channel, and the array is reordered.
DiscardEvents ==
    /\ \E t \in Types \ ClockTypes : \E s \in Sources(t) :
          events' = {e \in events : e.external \/ e.type # t
                                      \/ e.source % DmaCount # s % DmaCount}
    /\ unordered' = FALSE
    /\ UNCHANGED <<sequence, device_cycles, target, advancing, gated, generation, stop_reason,
                   disturbed>>

\* usb_cancel_events, which leaves the array as the loop compacted it, and
\* spi_remove_external_events, which reorders it: the events of the host go too.
CancelEvents ==
    /\ \E t \in CancelledTypes :
          /\ events' = {e \in events : e.type # t}
          /\ unordered' = (t \in UnorderedTypes /\ (unordered \/ events' # events))
    /\ UNCHANGED <<sequence, device_cycles, target, advancing, gated, generation, stop_reason,
                   disturbed>>
-----------------------------------------------------------------------------
\* pin_delay_master_events: a slave holds SCL, and the events of the present
\* transfer come a cycle later.  The array is reordered if there are any.
Stretch(t) ==
    \E S \in SUBSET {e \in events : e.type = t} :
        /\ \A e \in S : ~e.paused => e.cycle < CycleLimit
        /\ events' = (events \ S) \union {Moved(e, 1) : e \in S}
        /\ unordered' = (unordered /\ S = {})
        /\ disturbed' = (disturbed \/ \E e \in S : e.paused /\ e.remaining = CycleLimit)
        /\ UNCHANGED <<sequence, device_cycles, target, advancing, gated, generation, stop_reason>>

\* It finds one that is at the last cycle and gives up with a queue error: those
\* before it in the array have moved, and the array is not reordered.
StretchFails(t) ==
    \E S \in SUBSET {e \in events : e.type = t} :
        /\ \E e \in events \ S : e.type = t /\ ~e.paused /\ e.cycle = CycleLimit
        /\ \A e \in S : ~e.paused => e.cycle < CycleLimit
        /\ events' = (events \ S) \union {Moved(e, 1) : e \in S}
        /\ unordered' = (unordered \/ S # {})
        /\ disturbed' = (disturbed \/ \E e \in S : e.paused /\ e.remaining = CycleLimit)
        /\ stop_reason' = "queue_error"
        /\ UNCHANGED <<sequence, device_cycles, target, advancing, gated, generation>>

\* can_shift_timing, called by can_resynchronize: an edge that came early or
\* late moves the rest of the bit.  The receive sample, one of the events, never
\* moves to the past; those of a transmission move with it, wherever they are.
Shift(t) ==
    LET S == {e \in events : e.type = t}
    IN  \E adjustment \in -MaxShift .. MaxShift :
            /\ S # {}
            /\ adjustment < 0 => \E sample \in S : sample.cycle + adjustment > device_cycles
            /\ events' = (events \ S) \union {Moved(e, adjustment) : e \in S}
            /\ unordered' = FALSE
            /\ disturbed' = (disturbed \/ \E e \in S : e.cycle + adjustment
                                                         \notin device_cycles .. CycleLimit)
            /\ UNCHANGED <<sequence, device_cycles, target, advancing, gated, generation,
                           stop_reason>>

Retimed == \/ \E t \in StretchedTypes : Stretch(t) \/ StretchFails(t)
           \/ \E t \in ShiftedTypes : Shift(t)
-----------------------------------------------------------------------------
\* The auxiliary PLL's is re-queued before the oscillator's.
RequeuePosition(c) == IF c.type = "AUX_PLL" THEN 0 ELSE Cardinality(LocksUnderWay \ {c})

\* A lock keeps its cycle: it is scheduled again with what is left of its delay,
\* which is nothing if the clock has passed it.
Requeued_AtOnce(c) ==   \* mutant: with no delay
    [NewEvent(c.type, c.source, c.value, 0, FALSE)
        EXCEPT !.sequence = sequence + RequeuePosition(c)]

Requeued(c) == [c EXCEPT !.sequence = sequence + RequeuePosition(c),
                         !.cycle = IF c.cycle > device_cycles THEN c.cycle ELSE device_cycles]

SequenceAfterReset_FromZero == Cardinality(LocksUnderWay)   \* mutant: restarted

SequenceAfterReset == sequence + Cardinality(LocksUnderWay)

\* dspic33_internal_perform_warm_reset: keeps the events of the host, the
\* sequence counter and the clocks, and re-queues the locks under way.  A paused
\* event of the host stays so until its module looks at its clock again.
WarmReset ==
    /\ sequence + Cardinality(LocksUnderWay) <= MaxSequence
    /\ events' = {e \in events : e.external} \union {Requeued(c) : c \in LocksUnderWay}
    /\ sequence' = SequenceAfterReset
    /\ gated' = gated \intersect HostGatedTypes
    /\ stop_reason' = "running"
    /\ unordered' = FALSE
    /\ UNCHANGED <<device_cycles, target, advancing, generation, disturbed>>

\* dspic33_brown_out_reset: the oscillator and its events start from nothing.
BrownOutReset ==
    /\ sequence + Cardinality(LocksUnderWay) <= MaxSequence
    /\ events' = {e \in events : e.external} \union
                    {Requeued(c) : c \in {l \in LocksUnderWay : l.type # "OSCILLATOR"}}
    /\ sequence' = SequenceAfterReset
    /\ generation' = [t \in ClockTypes |-> IF t = "OSCILLATOR" THEN 0 ELSE generation[t]]
    /\ gated' = gated \intersect HostGatedTypes
    /\ stop_reason' = "running"
    /\ unordered' = FALSE
    /\ UNCHANGED <<device_cycles, target, advancing, disturbed>>

Next == \/ ScheduleInternal \/ ScheduleExternal \/ ClockChanged
        \/ BeginAdvance \/ AdvanceClock \/ DispatchEvent \/ EndAdvance \/ AbortAdvance
        \/ RunAgain \/ PowerStateChanged \/ DiscardEvents \/ CancelEvents \/ Retimed
        \/ WarmReset \/ BrownOutReset

Spec == Init /\ [][Next]_vars

\* The loop of an advance that was entered runs until it returns.
FairSpec == Spec /\ WF_vars(AdvanceClock \/ DispatchEvent \/ EndAdvance \/ AbortAdvance)
-----------------------------------------------------------------------------
TypeOK == /\ events \subseteq Event
          /\ sequence \in Nat
          /\ device_cycles \in Word
          /\ target \in Word
          /\ advancing \in BOOLEAN
          /\ gated \subseteq GatedTypes
          /\ generation \in [ClockTypes -> Nat]
          /\ stop_reason \in {"running", "queue_error"}
          /\ unordered \in BOOLEAN
          /\ disturbed \in BOOLEAN

\* The clock never runs past a pending event, whatever the handlers do between
\* two iterations of the loop, short of what disturbs the queue: no subtraction
\* cycle - device_cycles of the code wraps to a delay of nearly 2^64, however
\* events are gated and re-timed.  An event may even be taken from the heap
\* without restoring it, as long as something restores it before the clock moves.
NoEventInPast == disturbed \/ \A e \in events : ~e.paused => e.cycle >= device_cycles

\* A sequence number names one pending event: the I2C controller looks its new
\* event up by it, and it decides between events of one cycle.  A warm reset,
\* which keeps events of before it, must not restart the numbering.
SequencesDistinct == /\ \A e, f \in events : e.sequence = f.sequence => e = f
                     /\ \A e \in events : e.sequence < sequence

\* An event is paused only while its clock is stopped, except one that no resume
\* can place, now or later: once the processor runs again after the queue error,
\* it is still known by what it owes.  An event of a kind that is paused when it
\* is scheduled never runs under a stopped clock.
GateDiscipline ==
    /\ \A e \in events : e.paused => \/ e.type \in gated
                                     \/ ResumeOverflows(e)
                                     \/ disturbed
    /\ \A e \in events : e.type \in gated \intersect HeldTypes => e.paused

\* A clock has at most one lock under way, so that a warm reset that carries
\* over the first it finds carries over all.
OneLockPerClock == \A e, f \in LocksUnderWay : e.type = f.type => e = f

\* What an event has left of its delay.
Left(e) == IF e.paused THEN e.remaining ELSE RemainingAt(e)

\* An event the host injected leaves the queue by being dispatched at its cycle,
\* or all those of its kind are cancelled with it: no reset, gate, re-timing or
\* discard loses or renumbers it, and one that is paused keeps what it has left.
ExternalSurvives ==
    [][\A e \in events : e.external =>
          \/ e \in events'
          \/ advancing /\ e.cycle = device_cycles /\ ~e.paused
          \/ e.type \in CancelledTypes /\ \A f \in events' : f.type # e.type
          \/ /\ e.type \in HostGatedTypes
             /\ \E f \in events' : /\ f.sequence = e.sequence /\ f.type = e.type
                                   /\ f.external /\ Left(f)' = Left(e)]_vars

\* A lock under way ends at the cycle it was to end at, resets or not, unless
\* its clock is reconfigured.
LocksSurvive ==
    [][\A e \in LocksUnderWay :
          \/ \E f \in events' : f.type = e.type /\ f.value = e.value /\ f.cycle = e.cycle
          \/ generation'[e.type] # e.value
          \/ advancing /\ e.cycle = device_cycles
          \/ disturbed]_vars

\* Each event is delivered when, and only when, its clock has run for its delay
\* and for what its module re-timed it by: the queue implements Agenda, where a
\* gated event keeps what it owes.
Owing(e) == [id |-> e.sequence, kind |-> e.type, left |-> Left(e),
             running |-> ~e.paused, external |-> e.external]

Promise == INSTANCE Agenda
              WITH Id <- 0 .. MaxSequence - 1,
                   Time <- Word,
                   Kind <- Types,
                   Held <- HostGatedTypes,
                   Cancelled <- CancelledTypes,
                   Movable <- StretchedTypes \union ShiftedTypes,
                   Jump <- MaxShift,
                   agenda <- {Owing(e) : e \in events},
                   void <- disturbed

ImplementsAgenda == Promise!Spec

\* An advance that is entered ends, whatever its handlers schedule or re-time,
\* short of what disturbs the queue.
AdvanceEnds == advancing ~> (~advancing \/ disturbed)
=============================================================================
