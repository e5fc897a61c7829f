---------------------------- MODULE MCEventHeap ----------------------------
(***************************************************************************)
(* Populations of the heap, one of which is chosen at the start: no DMA    *)
(* events, only DMA events, both; the events of USB, which are taken out   *)
(* without restoring the heap, with the locks of a clock; and the events   *)
(* that are moved in place.                                                *)
(***************************************************************************)
EXTENDS EventHeap

VARIABLE population   \* the kinds of events that are scheduled

AllTypes == {"DMA", "PMP", "OSCILLATOR", "INTERRUPT", "USB", "I2C", "CAN"}
Gated == {"DMA", "PMP", "USB", "I2C"}
Held == {"DMA", "I2C"}
HostGated == {"USB"}
Locks == {"OSCILLATOR"}
Host == {"PMP", "USB"}
Cancelled == {"USB"}
Unordered == {"USB"}
Stretched == {"I2C"}
Shifted == {"CAN"}

Serial == {"PMP"}
Channels == {"DMA"}
Mixed == {"DMA", "INTERRUPT"}
Usb == {"USB", "OSCILLATOR"}
Buses == {"I2C", "CAN"}

\* Four events make a heap of three levels, which sifting takes two steps to pass.
Longest(kinds) == IF kinds \in {Serial, Mixed} THEN MaxSequence ELSE MaxSequence - 1

MCInit == Init /\ population \in {Serial, Channels, Mixed, Usb, Buses}

\* No event of a kind that is not in the population is scheduled, and the clock
\* of such a kind is neither gated nor reconfigured.  Those of the mixed population
\* run all the time: what gates do to DMA events is seen where they are alone.
MCNext == /\ Next
          /\ \A e \in ToSet(items') : e.type \in population
          /\ gated' \subseteq IF population = Mixed THEN {} ELSE population
          /\ \A t \in ClockTypes \ population : generation'[t] = 0
          /\ sequence' <= Longest(population)
          /\ UNCHANGED population

\* What a disturbed queue does after that is not looked at: nothing is promised.
Undisturbed == ~disturbed

MCSpec == MCInit /\ [][MCNext]_<<vars, population>>

\* While DMA events and others do not meet in the queue, event_less is an order,
\* and a dispatched event is one that no pending event is less than: of one
\* cycle the events of peripherals go in the order they were scheduled, those
\* of the DMA channels by completion and channel.  Only an array that was not
\* restored since events were taken out of it may tell otherwise.
InOrderUnmixed == [][DispatchEvent /\ population # Mixed /\ ~unordered
                       => \A e \in ToSet(items) : ~event_less(e, Head(items))]_vars
=============================================================================
