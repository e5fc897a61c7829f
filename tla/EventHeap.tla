----------------------------- MODULE EventHeap ------------------------------
(***************************************************************************)
(* The pending events as the code stores them: an array that is a binary  *)
(* heap under event_less (memory/dma/runtime.c), with the operations of    *)
(* EventQueue.tla on it.  The array is a sequence here, so the item at     *)
(* heap_index of the code is items[heap_index + 1].                        *)
(*                                                                         *)
(* event_less is a total order of the DMA events of a cycle and of the     *)
(* other events of a cycle, but not of both together: DMA events are       *)
(* ordered by channel whatever their sequence, and every other pair by     *)
(* sequence.  The runs of MCEventHeap.tla tell what the heap keeps of the  *)
(* dispatch order when a cycle mixes them.                                 *)
(*                                                                         *)
(* Each loop of the code that takes events out, pauses or moves them ends  *)
(* with or without dspic33_reorder_events, and the actions below do as     *)
(* their loop does: where it does not, the array need not be a heap any    *)
(* more, which unordered records, and its head need not be the earliest.   *)
(***************************************************************************)
EXTENDS EventOrder, Sequences, SequencesExt, FiniteSets

CONSTANTS Types, GatedTypes, HeldTypes, HostGatedTypes, ClockTypes, HostTypes,
          CancelledTypes, UnorderedTypes, StretchedTypes, ShiftedTypes,
          CycleLimit, MaxShift, MaxSequence, MaxGeneration

\* Of the constants as EventQueue.tla has them, and that every event of the kinds
\* a reset looks for is a clock's: the host injects none.
ASSUME EventHeapAssumption ==
    /\ GatedTypes \subseteq Types
    /\ HeldTypes \subseteq GatedTypes \ HostTypes
    /\ HostGatedTypes \subseteq GatedTypes
    /\ ClockTypes \subseteq (Types \ GatedTypes) \intersect {"AUX_PLL", "OSCILLATOR"}
    /\ HostTypes \subseteq Types \ ClockTypes
    /\ "DMA" \notin HostTypes \union ClockTypes
    /\ CancelledTypes \subseteq Types \ ClockTypes
    /\ UnorderedTypes \subseteq CancelledTypes
    /\ StretchedTypes \subseteq Types \ (ClockTypes \union HostTypes)
    /\ ShiftedTypes \subseteq Types \ (ClockTypes \union HostTypes \union GatedTypes)
    /\ CycleLimit \in Nat \ {0}
    /\ MaxShift \in 1 .. CycleLimit
    /\ MaxSequence \in Nat /\ MaxGeneration \in Nat
    /\ {"AUX_PLL", "OSCILLATOR"} \intersect Types \subseteq ClockTypes

VARIABLES items,           \* cpu->events.items[0 .. count - 1]
          sequence, device_cycles, target, advancing, gated, generation, stop_reason,
          unordered, disturbed

Queue == INSTANCE EventQueue WITH events <- ToSet(items)

vars == <<items, sequence, device_cycles, target, advancing, gated, generation, stop_reason,
          unordered, disturbed>>

\* The tail of schedule_event: slot i is free, and e rises from it.  A slot the
\* rise passes is written once, with its parent, and read before that only.
sift_up(h, i, e) ==
    LET risen[k \in DOMAIN h] ==
          IF k > 1 /\ event_less(e, h[k \div 2])
          THEN [risen[k \div 2] EXCEPT ![k] = h[k \div 2]]
          ELSE [h EXCEPT ![k] = e]
    IN  risen[i]

\* Mutant: the right child is not looked at.
FirstChild_Left(h, i) == 2 * i

\* The child of slot i that comes first; the left one on a tie.
FirstChild(h, i) ==
    IF 2 * i + 1 <= Len(h) /\ event_less(h[2 * i + 1], h[2 * i]) THEN 2 * i + 1 ELSE 2 * i

\* The inner loops of dspic33_reorder_events and event_pop: slot i is free,
\* and e sinks from it.
sift_down(h, i, e) ==
    LET sunk[k \in DOMAIN h] ==
          IF 2 * k <= Len(h) /\ event_less(h[FirstChild(h, k)], e)
          THEN [sunk[FirstChild(h, k)] EXCEPT ![k] = h[FirstChild(h, k)]]
          ELSE [h EXCEPT ![k] = e]
    IN  sunk[i]

dspic33_reorder_events_Skipped(h) == h   \* mutant: the array is left as it is

\* The loop over the parents, from the last one down: ordered[p] is the array
\* when those after p are done.
dspic33_reorder_events(h) ==
    LET ordered[p \in 0 .. Len(h) \div 2] ==
          IF p = Len(h) \div 2 THEN h
          ELSE sift_down(ordered[p + 1], p + 1, ordered[p + 1][p + 1])
    IN  ordered[0]

push(h, e) == sift_up(Append(h, e), Len(h) + 1, e)

\* What event_pop leaves behind.
event_pop(h) == IF Len(h) = 1 THEN << >> ELSE sift_down(Front(h), 1, Last(h))

\* The compacting loops: the events of E move up, in the order they are in.
Retain(h, E) ==
    LET kept[n \in 0 .. Len(h)] ==
          IF n = 0 THEN << >>
          ELSE IF h[n] \in E THEN Append(kept[n - 1], h[n]) ELSE kept[n - 1]
    IN  kept[Len(h)]

\* The loops that pause, resume or move: each event becomes what f has for it, and
\* the array is reordered if one changed, or always.
Update(h, f, always) ==
    LET updated == [i \in DOMAIN h |-> f[h[i]]]
    IN  IF updated = h /\ ~always THEN h ELSE dspic33_reorder_events(updated)

Pending == ToSet(items)

\* Mutant: a paused event at the head is taken for a due one.
HeadDue_Paused == items # << >> /\ Head(items).cycle <= target

HeadDue == items # << >> /\ ~Head(items).paused /\ Head(items).cycle <= target
-----------------------------------------------------------------------------
Init == items = << >> /\ Queue!Init

\* A new event is pushed first and paused in place after.
schedule_event(type, source, delay, external) ==
    LET e == Queue!NewEvent(type, source, 0, delay, external)
    IN  /\ sequence < MaxSequence
        /\ delay <= CycleLimit - device_cycles
        /\ items' = Update(push(items, e), [f \in Pending \union {e} |->
                                              IF f = e THEN Queue!Placed(e) ELSE f], FALSE)
        /\ sequence' = sequence + 1
        /\ unordered' = (unordered /\ ~Queue!Placed(e).paused)
        /\ UNCHANGED <<device_cycles, target, advancing, gated, generation, stop_reason, disturbed>>

ScheduleInternal == \E t \in Types \ ClockTypes : \E s \in Queue!Sources(t), d \in 0 .. CycleLimit :
                       schedule_event(t, s, d, FALSE)

ScheduleExternal == \E t \in HostTypes : \E s \in Queue!Sources(t), d \in 0 .. CycleLimit :
                       schedule_event(t, s, d, TRUE)

ScheduleLock(t, g) ==
    \E delay \in 0 .. CycleLimit :
        /\ sequence < MaxSequence
        /\ delay <= CycleLimit - device_cycles
        /\ items' = push(items, Queue!NewEvent(t, 0, g, delay, FALSE))
        /\ sequence' = sequence + 1
        /\ UNCHANGED <<device_cycles, target, advancing, gated, stop_reason, unordered, disturbed>>

ReconfigureClock(t) ==
    /\ generation[t] < MaxGeneration
    /\ generation' = [generation EXCEPT ![t] = Queue!NextGeneration(t)]
    /\ \/ ScheduleLock(t, Queue!NextGeneration(t))
       \/ UNCHANGED <<items, sequence, device_cycles, target, advancing, gated, stop_reason,
                      unordered, disturbed>>

ContinueClock(t) == /\ advancing
                    /\ generation[t] # 0
                    /\ \A e \in Queue!LocksUnderWay : e.type # t
                    /\ ScheduleLock(t, generation[t])
                    /\ UNCHANGED generation

ClockChanged == \E t \in ClockTypes : ReconfigureClock(t) \/ ContinueClock(t)

BeginAdvance == UNCHANGED items /\ Queue!BeginAdvance

\* The loop looks at the head of the array only.
AdvanceClock ==
    LET next == IF HeadDue THEN Head(items).cycle ELSE target
    IN  /\ advancing
        /\ \E n \in 1 .. Queue!Wrapped(next - device_cycles) :
              device_cycles' = Queue!Wrapped(device_cycles + n)
        /\ disturbed' = (disturbed \/ unordered)
        /\ UNCHANGED <<items, sequence, target, advancing, gated, generation, stop_reason, unordered>>

DispatchEvent ==
    /\ advancing
    /\ HeadDue
    /\ Head(items).cycle = device_cycles
    /\ items' = event_pop(items)
    /\ UNCHANGED <<sequence, device_cycles, target, advancing, gated, generation, stop_reason,
                   unordered, disturbed>>

EndAdvance == /\ advancing
              /\ device_cycles = target
              /\ ~HeadDue
              /\ advancing' = FALSE
              /\ UNCHANGED <<items, sequence, device_cycles, target, gated, generation,
                             stop_reason, unordered, disturbed>>

AbortAdvance == UNCHANGED items /\ Queue!AbortAdvance

RunAgain == UNCHANGED items /\ Queue!RunAgain
-----------------------------------------------------------------------------
\* usb_pause_sof_events reorders the array whether it paused an event or not.
Gate(t) ==
    LET paused == [e \in Pending |->
                     IF Queue!Clocked(e, t) /\ ~e.paused THEN Queue!PauseEvent(e) ELSE e]
    IN  /\ gated' = gated \union {t}
        /\ items' = Update(items, paused, t \in HostGatedTypes)
        /\ unordered' = (unordered /\ t \notin HostGatedTypes /\ ToSet(items') = Pending)
        /\ UNCHANGED <<sequence, device_cycles, target, advancing, generation, stop_reason,
                       disturbed>>

Ungate(t) ==
    LET resumed == {e \in Pending : e.type = t /\ e.paused}
    IN  /\ gated' = gated \ {t}
        /\ items' = Update(items, [e \in Pending |->
                      IF e \in resumed /\ ~Queue!ResumeOverflows(e) THEN Queue!ResumeEvent(e) ELSE e], FALSE)
        /\ stop_reason' = IF \E e \in resumed : Queue!ResumeOverflows(e)
                          THEN "queue_error" ELSE stop_reason
        /\ unordered' = (unordered /\ ToSet(items') = Pending)
        /\ UNCHANGED <<sequence, device_cycles, target, advancing, generation, disturbed>>

PowerStateChanged == \E t \in GatedTypes : Gate(t) \/ Ungate(t)

DiscardEvents ==
    /\ \E t \in Types \ ClockTypes : \E s \in Queue!Sources(t) :
          items' = dspic33_reorder_events(Retain(items,
                      {e \in Pending : e.external \/ e.type # t
                                         \/ e.source % DmaCount # s % DmaCount}))
    /\ unordered' = FALSE
    /\ UNCHANGED <<sequence, device_cycles, target, advancing, gated, generation, stop_reason,
                   disturbed>>

\* usb_cancel_events compacts the array and leaves it so.
CancelEvents ==
    /\ \E t \in CancelledTypes :
          LET kept == Retain(items, {e \in Pending : e.type # t})
          IN  /\ items' = IF t \in UnorderedTypes THEN kept ELSE dspic33_reorder_events(kept)
              /\ unordered' = (t \in UnorderedTypes /\ (unordered \/ ToSet(items') # Pending))
    /\ UNCHANGED <<sequence, device_cycles, target, advancing, gated, generation, stop_reason,
                   disturbed>>
-----------------------------------------------------------------------------
\* The events of S, moved where they are in the array.
Delayed(S, n) == [e \in Pending |-> IF e \in S THEN Queue!Moved(e, n) ELSE e]

Stretch(t) ==
    \E S \in SUBSET {e \in Pending : e.type = t} :
        /\ \A e \in S : ~e.paused => e.cycle < CycleLimit
        /\ items' = Update(items, Delayed(S, 1), FALSE)
        /\ unordered' = (unordered /\ S = {})
        /\ disturbed' = (disturbed \/ \E e \in S : e.paused /\ e.remaining = CycleLimit)
        /\ UNCHANGED <<sequence, device_cycles, target, advancing, gated, generation, stop_reason>>

\* The loop stops at the item k, and has moved items before it.
StretchFails(t) ==
    \E k \in DOMAIN items : \E S \in SUBSET {items[i] : i \in 1 .. k - 1} :
        /\ items[k].type = t /\ ~items[k].paused /\ items[k].cycle = CycleLimit
        /\ \A e \in S : e.type = t /\ (~e.paused => e.cycle < CycleLimit)
        /\ items' = [i \in DOMAIN items |-> Delayed(S, 1)[items[i]]]
        /\ unordered' = (unordered \/ S # {})
        /\ disturbed' = (disturbed \/ \E e \in S : e.paused /\ e.remaining = CycleLimit)
        /\ stop_reason' = "queue_error"
        /\ UNCHANGED <<sequence, device_cycles, target, advancing, gated, generation>>

Shift(t) ==
    LET S == {e \in Pending : e.type = t}
    IN  \E adjustment \in -MaxShift .. MaxShift :
            /\ S # {}
            /\ adjustment < 0 => \E sample \in S : sample.cycle + adjustment > device_cycles
            /\ items' = Update(items, Delayed(S, adjustment), TRUE)
            /\ unordered' = FALSE
            /\ disturbed' = (disturbed \/ \E e \in S : e.cycle + adjustment
                                                         \notin device_cycles .. CycleLimit)
            /\ UNCHANGED <<sequence, device_cycles, target, advancing, gated, generation,
                           stop_reason>>

Retimed == \/ \E t \in StretchedTypes : Stretch(t) \/ StretchFails(t)
           \/ \E t \in ShiftedTypes : Shift(t)
-----------------------------------------------------------------------------
\* The lock of a clock that was under way, if there was one, is pushed again.
Requeue(h, t) ==
    LET locks == {e \in Queue!LocksUnderWay : e.type = t}
    IN  IF locks = {} THEN h ELSE push(h, Queue!Requeued(CHOOSE e \in locks : TRUE))

\* The events of the host are made a heap before the locks are pushed again.
AfterWarmReset ==
    Requeue(Requeue(dspic33_reorder_events(Retain(items, {e \in Pending : e.external})),
                    "AUX_PLL"), "OSCILLATOR")

Restarted == /\ sequence + Cardinality(Queue!LocksUnderWay) <= MaxSequence
             /\ sequence' = Queue!SequenceAfterReset
             /\ gated' = gated \intersect HostGatedTypes
             /\ stop_reason' = "running"
             /\ unordered' = FALSE
             /\ UNCHANGED <<device_cycles, target, advancing, disturbed>>

WarmReset == /\ items' = AfterWarmReset
             /\ Restarted
             /\ UNCHANGED generation

BrownOutReset ==
    /\ items' = dspic33_reorder_events(Retain(AfterWarmReset,
                   {e \in ToSet(AfterWarmReset) : e.type # "OSCILLATOR"}))
    /\ Restarted
    /\ generation' = [t \in ClockTypes |-> IF t = "OSCILLATOR" THEN 0 ELSE generation[t]]

Next == \/ ScheduleInternal \/ ScheduleExternal \/ ClockChanged
        \/ BeginAdvance \/ AdvanceClock \/ DispatchEvent \/ EndAdvance \/ AbortAdvance
        \/ RunAgain \/ PowerStateChanged \/ DiscardEvents \/ CancelEvents \/ Retimed
        \/ WarmReset \/ BrownOutReset

Spec == Init /\ [][Next]_vars
-----------------------------------------------------------------------------
\* The head of the array is an earliest event although event_less is no order
\* when a cycle holds DMA and other events: the array stays a heap for the
\* part of the comparison that is one (running first, then the cycle).  This is
\* so whenever the last loop to change the array restored it.
HeadEarliest == unordered \/ \A e \in Pending : ~Earlier(e, Head(items))

\* The array is what the code's queue promises: it implements EventQueue, where
\* the head is an earliest event but for the time the array is not restored.
ImplementsEventQueue == Queue!Spec

\* Of the DMA events of one cycle a completion is dispatched before a request,
\* and the request of a lower channel before that of a higher one.
DmaPriority ==
    [][DispatchEvent /\ IsDma(Head(items)) /\ ~unordered
         => \A e \in Pending :
               SameSlot(e, Head(items)) /\ Arbitrated(e, Head(items))
                 => ~DmaBefore(e, Head(items))]_vars
=============================================================================
