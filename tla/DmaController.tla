---------------------------- MODULE DmaController ----------------------------
(***************************************************************************)
(* The DMA controller (memory/dma/runtime.c and registers.c, and           *)
(* dspic33_dma_request of serial/dma.c): how a channel is enabled,         *)
(* requested, granted the bus, completed, disabled and reset, while events *)
(* of earlier requests are still on their way through the event queue.     *)
(*                                                                         *)
(* An event is abandoned, not found and removed: it carries the generation *)
(* of its channel, and one of another generation is ignored.  The counter  *)
(* wraps, and a wrap has to purge the queue.                               *)
(*                                                                         *)
(* The queue is the set of the DMA events with the device cycles they have *)
(* left; of those that are due any may be next, because their order among  *)
(* the events of other peripherals is not the one of the channels          *)
(* (EventHeap.tla).  That they wait while the device sleeps is EventQueue's*)
(* subject: here the queue just stands still.                              *)
(*                                                                         *)
(* Bounds of the model: GenerationMask stands for 0x7fff, and the counts   *)
(* of the channels are small.                                              *)
(***************************************************************************)
EXTENDS Integers, FiniteSets

CONSTANTS Channels,         \* the DMA channels
          Mode,             \* Mode[c]: the fields of DMAxCON and DMAxCNT used here
          RequestSource,    \* RequestSource[c]: the IRQSEL field of channel c
          GenerationMask,   \* DMA_EVENT_GENERATION_MASK
          RequestDelays,    \* how far ahead a request is made (0 by every peripheral)
          Answers           \* of dspic33_schedule: FALSE when the queue cannot grow

ChannelMode == [one_shot : BOOLEAN, ping_pong : BOOLEAN, half : BOOLEAN, count : Nat]

ASSUME DmaAssumption ==
    /\ Channels \subseteq Nat /\ IsFiniteSet(Channels)
    /\ Mode \in [Channels -> ChannelMode]
    /\ RequestSource \in [Channels -> Nat]
    /\ GenerationMask \in Nat
    /\ RequestDelays \subseteq Nat
    /\ Answers \subseteq BOOLEAN

VARIABLES ch,            \* the registers and cpu->io.dma_* state of each channel
          events,        \* its events in the queue
          pmd_disabled,  \* groups of four channels whose module is disabled
          asleep,        \* cpu->power_state is DSPIC33_POWER_SLEEP
          moved,         \* history: transfers since the channel was enabled
          raised         \* history: interrupts since the channel was enabled

vars == <<ch, events, pmd_disabled, asleep, moved, raised>>

ChannelState ==
    [enabled : BOOLEAN,             \* DMAxCON.CHEN, and dma_enabled
     force : BOOLEAN,               \* DMAxREQ.FORCE
     forced_pending : BOOLEAN, peripheral_pending : BOOLEAN,
     active : BOOLEAN, arbiter_waiting : BOOLEAN,
     index : Nat, secondary : BOOLEAN, half_raised : BOOLEAN,
     generation : 0 .. GenerationMask,
     pwc : BOOLEAN, rqc : BOOLEAN]  \* its bits of DMAPWC and DMARQC

\* stale is history: the channel has moved on since the event was scheduled.
DmaEvent == [channel : Channels, completion : BOOLEAN, forced : BOOLEAN,
             generation : 0 .. GenerationMask, left : Nat, stale : BOOLEAN]

ResetState == [enabled |-> FALSE, force |-> FALSE, forced_pending |-> FALSE,
               peripheral_pending |-> FALSE, active |-> FALSE, arbiter_waiting |-> FALSE,
               index |-> 0, secondary |-> FALSE, half_raised |-> FALSE,
               generation |-> 0, pwc |-> FALSE, rqc |-> FALSE]

Group(c) == c \div 4

Disabled(c) == Group(c) \in pmd_disabled

BlockLength(c) == Mode[c].count + 1

\* The history counts modulo two blocks, or two pairs of them.
Blocks(c) == IF Mode[c].ping_pong THEN 4 ELSE 2

NewEvent(c, completion, forced, left) ==
    [channel |-> c, completion |-> completion, forced |-> forced,
     generation |-> ch[c].generation, left |-> left, stale |-> FALSE]
-----------------------------------------------------------------------------
NextGeneration_Unmasked(g) == g + 1   \* mutant: the counter does not wrap

NextGeneration(g) == (g + 1) % (GenerationMask + 1)

\* dspic33_device_internal_dma_advance_generation, for the channels of C: a
\* generation that is about to wrap purges the events of its channel.
Purged_Never(E, C) == E   \* mutant: the wrap is forgotten

Purged(E, C) == {e \in E : ~(e.channel \in C /\ ch[e.channel].generation = GenerationMask)}

Abandoned(E, C) ==
    {IF e.channel \in C THEN [e EXCEPT !.stale = TRUE] ELSE e : e \in Purged(E, C)}

\* What stops a channel: its control register, the end of a one-shot block and
\* the peripheral module disable.
Stopped_KeepsWaiting(r) == [r EXCEPT !.force = FALSE, !.forced_pending = FALSE,   \* mutant
                                     !.peripheral_pending = FALSE, !.active = FALSE,
                                     !.generation = NextGeneration(@)]

Stopped_KeepsActive(r) == [r EXCEPT !.force = FALSE, !.forced_pending = FALSE,   \* mutant
                                    !.peripheral_pending = FALSE,
                                    !.arbiter_waiting = FALSE, !.generation = NextGeneration(@)]

Stopped(r) == [r EXCEPT !.force = FALSE, !.forced_pending = FALSE,
                        !.peripheral_pending = FALSE, !.active = FALSE,
                        !.arbiter_waiting = FALSE, !.generation = NextGeneration(@)]

\* dma_clear_forced_request.
ForcedCleared(r) == [r EXCEPT !.forced_pending = FALSE, !.force = FALSE]

RequestCleared(r, forced) ==
    IF forced THEN ForcedCleared(r) ELSE [r EXCEPT !.peripheral_pending = FALSE]

\* dspic33_device_internal_schedule_dma_channel.
Scheduled(r, forced) ==
    IF forced THEN [r EXCEPT !.forced_pending = TRUE] ELSE [r EXCEPT !.peripheral_pending = TRUE]
-----------------------------------------------------------------------------
Init == /\ ch = [c \in Channels |-> ResetState]
        /\ events = {}
        /\ pmd_disabled = {}
        /\ asleep = FALSE
        /\ moved = [c \in Channels |-> 0]
        /\ raised = [c \in Channels |-> 0]

\* initialize_dma_channel.
Started(r) == [r EXCEPT !.enabled = TRUE, !.index = 0, !.secondary = FALSE,
                        !.half_raised = FALSE, !.forced_pending = FALSE,
                        !.peripheral_pending = FALSE, !.active = FALSE,
                        !.generation = NextGeneration(@)]

\* A write to DMAxCON that sets CHEN.
EnableChannel ==
    \E c \in Channels :
        /\ ~asleep /\ ~Disabled(c) /\ ~ch[c].enabled
        /\ ch' = [ch EXCEPT ![c] = Started(@)]
        /\ events' = Abandoned(events, {c})
        /\ moved' = [moved EXCEPT ![c] = 0]
        /\ raised' = [raised EXCEPT ![c] = 0]
        /\ UNCHANGED <<pmd_disabled, asleep>>

\* A write to DMAxCON that clears CHEN: update_dma_control.
DisableChannel ==
    \E c \in Channels :
        /\ ~asleep /\ ~Disabled(c) /\ ch[c].enabled
        /\ ch' = [ch EXCEPT ![c] = [Stopped(@) EXCEPT !.enabled = FALSE]]
        /\ events' = Abandoned(events, {c})
        /\ UNCHANGED <<pmd_disabled, asleep, moved, raised>>

\* A write to DMAxREQ that sets FORCE: update_dma_request.
ForceRequest ==
    \E c \in Channels :
        /\ ~asleep /\ ~Disabled(c)
        /\ ch[c].enabled /\ ~ch[c].force
        /\ IF ch[c].active \/ ch[c].peripheral_pending
           THEN ch' = [ch EXCEPT ![c].rqc = TRUE] /\ UNCHANGED events
           ELSE /\ TRUE \in Answers
                /\ ch' = [ch EXCEPT ![c] = [Scheduled(@, TRUE) EXCEPT !.force = TRUE]]
                /\ events' = events \union (IF ch[c].forced_pending THEN {}
                                            ELSE {NewEvent(c, FALSE, TRUE, 1)})
        /\ UNCHANGED <<pmd_disabled, asleep, moved, raised>>

\* dspic33_dma_request: the channels that listen to the source.  A request that
\* finds a forced one pending is a collision, and takes its place unless the
\* forced transfer is already under way.
Overtaken_Active(r) == r.forced_pending   \* mutant: a running one is overtaken too

Overtaken(r) == r.forced_pending /\ ~r.active

Requested(r, accepted) ==
    LET collided == [r EXCEPT !.rqc = r.rqc \/ r.forced_pending]
        granted == IF Overtaken(r)
                   THEN [ForcedCleared(collided) EXCEPT !.arbiter_waiting = FALSE,
                                                        !.generation = NextGeneration(@)]
                   ELSE collided
    IN  IF accepted THEN Scheduled(granted, FALSE) ELSE granted

Listening(s) == {c \in Channels : /\ RequestSource[c] = s
                                  /\ ~Disabled(c)
                                  /\ ch[c].enabled /\ ~ch[c].pwc
                                  /\ ~ch[c].peripheral_pending}

RequestEvent(c, delay) == [NewEvent(c, FALSE, FALSE, delay)
                             EXCEPT !.generation = Requested(ch[c], TRUE).generation]

dspic33_dma_request ==
    \E s \in {RequestSource[c] : c \in Channels}, delay \in RequestDelays :
        /\ Listening(s) # {}
        /\ \E accepted \in [Listening(s) -> Answers] :
            /\ ch' = [c \in Channels |-> IF c \in Listening(s)
                                         THEN Requested(ch[c], accepted[c]) ELSE ch[c]]
            /\ events' = Abandoned(events, {c \in Listening(s) : Overtaken(ch[c])}) \union
                            {RequestEvent(c, delay) : c \in {d \in Listening(s) : accepted[d]}}
        /\ UNCHANGED <<pmd_disabled, asleep, moved, raised>>
-----------------------------------------------------------------------------
\* dspic33_device_internal_run_dma, for an event whose channel still wants it.
Live(e) == ~Disabled(e.channel) /\ e.generation = ch[e.channel].generation

Due(e) == ~asleep /\ e.left = 0

Requests(e) == Due(e) /\ Live(e) /\ ~e.completion

SomeActive == \E c \in Channels : ch[c].active

\* Another channel waits for the bus.
Barred(c) == /\ ~ch[c].arbiter_waiting
             /\ \E d \in Channels : ch[d].arbiter_waiting

Usable(c) == ch[c].enabled /\ ~ch[c].pwc

Later(e) == (events \ {e}) \union {[e EXCEPT !.left = 1]}

\* An event that cannot be scheduled again takes its request with it.
Withdrawn_KeepsPending(r, forced) == r   \* mutant: the request is left pending

Withdrawn(r, forced) == [RequestCleared(r, forced) EXCEPT !.arbiter_waiting = FALSE]

Ignore(e) == /\ Due(e) /\ ~Live(e)
             /\ events' = events \ {e}
             /\ UNCHANGED <<ch, pmd_disabled, asleep, moved, raised>>

\* A transfer is under way, or another channel is ahead: one cycle later.
TryLater(e) == /\ Requests(e)
               /\ SomeActive \/ (Usable(e.channel) /\ Barred(e.channel))
               /\ \/ TRUE \in Answers /\ events' = Later(e) /\ UNCHANGED ch
                  \/ /\ FALSE \in Answers
                     /\ events' = events \ {e}
                     /\ ch' = [ch EXCEPT ![e.channel] = Withdrawn(@, e.forced)]
               /\ UNCHANGED <<pmd_disabled, asleep, moved, raised>>

Refuse(e) == /\ Requests(e) /\ ~SomeActive /\ ~Usable(e.channel)
             /\ ch' = [ch EXCEPT ![e.channel] = Withdrawn(@, e.forced)]
             /\ events' = events \ {e}
             /\ UNCHANGED <<pmd_disabled, asleep, moved, raised>>

Grantable(e) == Requests(e) /\ ~SomeActive /\ Usable(e.channel) /\ ~Barred(e.channel)

\* The processor is on the bus, with the priority, and the target is not in
\* dual-ported memory.
WaitForBus(e) == /\ Grantable(e)
                 /\ \/ /\ TRUE \in Answers
                       /\ ch' = [ch EXCEPT ![e.channel].arbiter_waiting = TRUE]
                       /\ events' = Later(e)
                    \/ /\ FALSE \in Answers
                       /\ ch' = [ch EXCEPT ![e.channel] = Withdrawn(@, e.forced)]
                       /\ events' = events \ {e}
                 /\ UNCHANGED <<pmd_disabled, asleep, moved, raised>>

Granted(r, forced) ==
    [r EXCEPT !.arbiter_waiting = FALSE, !.peripheral_pending = forced /\ @]

\* The transfer itself, which a write of the processor to the same peripheral
\* register may spoil; its completion follows a cycle later.
Transfer(e) == /\ Grantable(e)
               /\ \E collision \in BOOLEAN :
                     LET granted == [Granted(ch[e.channel], e.forced) EXCEPT !.pwc = collision]
                     IN  \/ /\ TRUE \in Answers
                            /\ ch' = [ch EXCEPT ![e.channel] = [granted EXCEPT !.active = TRUE]]
                            /\ events' = (events \ {e}) \union
                                            {NewEvent(e.channel, TRUE, e.forced, 1)}
                         \/ /\ FALSE \in Answers
                            /\ ch' = [ch EXCEPT ![e.channel] =
                                        RequestCleared(granted, e.forced)]
                            /\ events' = events \ {e}
               /\ UNCHANGED <<pmd_disabled, asleep, moved, raised>>

\* The memory address is not implemented: an address trap, and no transfer.
AddressTrap(e) == /\ Grantable(e)
                  /\ ch' = [ch EXCEPT ![e.channel] =
                              RequestCleared(Granted(@, e.forced), e.forced)]
                  /\ events' = events \ {e}
                  /\ UNCHANGED <<pmd_disabled, asleep, moved, raised>>
-----------------------------------------------------------------------------
\* complete_dma_transfer.
HalfCount_Down(c) == (Mode[c].count + 1) \div 2   \* mutant: rounded down

HalfCount(c) == (Mode[c].count + 2) \div 2

AtHalf(c) == Mode[c].half /\ ch[c].index + 1 = HalfCount(c) /\ ~ch[c].half_raised

AtEnd(c) == ch[c].index >= Mode[c].count

\* A one-shot channel stops at the end of its block, or of its second one.
LastBlock(c) == Mode[c].one_shot /\ (~Mode[c].ping_pong \/ ch[c].secondary)

Stops(c) == AtEnd(c) /\ LastBlock(c)

Counted(c) == IF AtEnd(c)
              THEN [ch[c] EXCEPT !.index = 0, !.half_raised = FALSE,
                                 !.secondary = IF Mode[c].ping_pong /\ ~LastBlock(c)
                                               THEN ~@ ELSE @]
              ELSE [ch[c] EXCEPT !.index = @ + 1, !.half_raised = @ \/ AtHalf(c)]

Completed(c) == IF Stops(c) THEN [Stopped(Counted(c)) EXCEPT !.enabled = FALSE] ELSE Counted(c)

Complete(e) ==
    LET c == e.channel
        done == [Completed(c) EXCEPT !.active = FALSE]
    IN  /\ Due(e) /\ Live(e) /\ e.completion
        /\ \/ /\ ~ch[c].active
              /\ events' = events \ {e}
              /\ UNCHANGED <<ch, moved, raised>>
           \/ /\ ch[c].active
              /\ ch' = [ch EXCEPT ![c] = IF e.forced THEN ForcedCleared(done) ELSE done]
              /\ events' = Abandoned(events \ {e}, IF Stops(c) THEN {c} ELSE {})
              /\ moved' = [moved EXCEPT ![c] = (@ + 1) % (Blocks(c) * BlockLength(c))]
              /\ raised' = [raised EXCEPT ![c] =
                    (@ + (IF AtHalf(c) THEN 1 ELSE 0)
                       + (IF AtEnd(c) /\ ~Mode[c].half THEN 1 ELSE 0)) % Blocks(c)]
        /\ UNCHANGED <<pmd_disabled, asleep>>

Dispatch == \E e \in events :
                \/ Ignore(e) \/ TryLater(e) \/ Refuse(e) \/ WaitForBus(e)
                \/ AddressTrap(e) \/ Complete(e)

Start == \E e \in events : Transfer(e)

\* The device clock, once nothing is due.
Tick == /\ ~asleep /\ events # {}
        /\ \A e \in events : ~Due(e)
        /\ events' = {[e EXCEPT !.left = @ - 1] : e \in events}
        /\ UNCHANGED <<ch, pmd_disabled, asleep, moved, raised>>
-----------------------------------------------------------------------------
\* dspic33_device_internal_run_platform_pmd for a group of channels.
ModuleDisable ==
    \E g \in {Group(c) : c \in Channels} \ pmd_disabled :
        LET stopped == {c \in Channels : Group(c) = g}
        IN  /\ pmd_disabled' = pmd_disabled \union {g}
            /\ ch' = [c \in Channels |-> IF c \in stopped THEN Stopped(ch[c]) ELSE ch[c]]
            /\ events' = Abandoned(events, stopped)
            /\ UNCHANGED <<asleep, moved, raised>>

ModuleEnable == \E g \in pmd_disabled :
                   /\ pmd_disabled' = pmd_disabled \ {g}
                   /\ UNCHANGED <<ch, events, asleep, moved, raised>>

\* Clearing INTCON1.DMACERR, in the handler of a collision, clears both status
\* registers.
ClearCollisions == /\ ~asleep
                   /\ \E c \in Channels : ch[c].pwc \/ ch[c].rqc
                   /\ ch' = [c \in Channels |-> [ch[c] EXCEPT !.pwc = FALSE, !.rqc = FALSE]]
                   /\ UNCHANGED <<events, pmd_disabled, asleep, moved, raised>>

Sleep == /\ ~asleep /\ asleep' = TRUE
         /\ UNCHANGED <<ch, events, pmd_disabled, moved, raised>>

Wake == /\ asleep /\ asleep' = FALSE
        /\ UNCHANGED <<ch, events, pmd_disabled, moved, raised>>

\* dspic33_internal_perform_warm_reset.
WarmReset == /\ ch' = [c \in Channels |-> ResetState]
             /\ events' = {}
             /\ pmd_disabled' = {} /\ asleep' = FALSE
             /\ moved' = [c \in Channels |-> 0] /\ raised' = [c \in Channels |-> 0]

\* What the program, the peripherals and the host do to the controller.
Call == \/ EnableChannel \/ DisableChannel \/ ForceRequest \/ dspic33_dma_request
        \/ ModuleDisable \/ ModuleEnable \/ ClearCollisions
        \/ Sleep \/ Wake \/ WarmReset

Next == Call \/ Dispatch \/ Start \/ Tick

Spec == Init /\ [][Next]_vars
-----------------------------------------------------------------------------
TypeOK == /\ ch \in [Channels -> ChannelState]
          /\ events \subseteq DmaEvent
          /\ pmd_disabled \subseteq {Group(c) : c \in Channels}
          /\ asleep \in BOOLEAN
          /\ moved \in [Channels -> Nat]
          /\ raised \in [Channels -> Nat]

LiveEvents(c, completion, forced) ==
    {e \in events : /\ e.channel = c /\ Live(e)
                    /\ e.completion = completion /\ e.forced = forced}

\* However a channel was stopped, restarted, put to sleep or reset since, an
\* event scheduled before never passes for one of now, also when the counter
\* of generations has come round.
StaleIgnored == \A e \in events : Live(e) => ~e.stale

\* A request that is pending is on its way: exactly one live event will run it,
\* or it is the one being transferred.  Without this the channel would refuse
\* every later request as already pending.
RequestsCarried ==
    \A c \in Channels :
        /\ ch[c].peripheral_pending <=> LiveEvents(c, FALSE, FALSE) # {}
        /\ ch[c].forced_pending <=> LiveEvents(c, FALSE, TRUE) \union
                                    LiveEvents(c, TRUE, TRUE) # {}
        /\ ch[c].force = ch[c].forced_pending
        /\ \A forced \in BOOLEAN : Cardinality(LiveEvents(c, FALSE, forced)) <= 1

\* One transfer at a time, each with one completion to come: a channel that
\* stayed active would keep all the others off the bus.
OneTransfer ==
    /\ \A c, d \in Channels : ch[c].active /\ ch[d].active => c = d
    /\ \A c \in Channels :
          Cardinality(LiveEvents(c, TRUE, TRUE) \union LiveEvents(c, TRUE, FALSE))
              = (IF ch[c].active THEN 1 ELSE 0)

\* The channel the arbiter holds the bus for has a request to use it; a channel
\* that was stopped while it waited must not bar the others for ever.
WaiterHasRequest ==
    \A c \in Channels :
        ch[c].arbiter_waiting => /\ ch[c].forced_pending \/ ch[c].peripheral_pending
                                 /\ \A d \in Channels : ch[d].arbiter_waiting => d = c

\* Index, buffer and interrupts agree with the transfers made since the channel
\* was enabled: one interrupt for each block, at its middle or at its end, and a
\* one-shot channel never goes past its last block.
BlockAccounting ==
    \A c \in Channels :
        LET blocks == moved[c] \div BlockLength(c)
            middle == BlockLength(c) - HalfCount(c)
        IN  ch[c].enabled =>
            /\ ch[c].index = moved[c] % BlockLength(c)
            /\ ch[c].secondary = (Mode[c].ping_pong /\ blocks % 2 = 1)
            /\ raised[c] = (IF Mode[c].half THEN (moved[c] + middle) \div BlockLength(c)
                            ELSE blocks) % Blocks(c)
            /\ Mode[c].one_shot => blocks < (IF Mode[c].ping_pong THEN 2 ELSE 1)
=============================================================================
