----------------------------- MODULE EventOrder -----------------------------
(***************************************************************************)
(* The order in which the device dispatches its pending events: the       *)
(* comparison event_less of memory/dma/runtime.c, and the classes of       *)
(* events the rest of the device tells apart.                              *)
(*                                                                         *)
(* An event is a record with the fields of Dspic33Event:                   *)
(*   type      its DSPIC33_EVENT_* kind                                    *)
(*   source    for a DMA event the channel, plus DmaCount for the          *)
(*             completion of a transfer                                    *)
(*   value     the generation a clock event was scheduled under            *)
(*   cycle     the device cycle it is due at                               *)
(*   sequence  the order in which it was scheduled                         *)
(*   paused    its clock is gated; remaining is then what is left of the   *)
(*             delay (paused_remaining), and 0 otherwise                   *)
(*   external  injected by the host, not by the device                     *)
(***************************************************************************)
EXTENDS Integers

CONSTANT DmaCount   \* DSPIC33_DMA_COUNT, the number of DMA channels

ASSUME DmaCountAssumption == DmaCount \in Nat \ {0}

IsDma(e) == e.type = "DMA"

\* The sources from DmaCount on are the completions of the same channels.
IsCompletion(e) == e.source >= DmaCount

Channel(e) == e.source % DmaCount

\* Running events come before paused ones, then the earlier cycle.
Earlier(l, r) ==
    \/ ~l.paused /\ r.paused
    \/ l.paused = r.paused /\ l.cycle < r.cycle

SameSlot(l, r) == l.paused = r.paused /\ l.cycle = r.cycle

\* Two DMA events of one cycle: completions first, then the lower channel.
DmaBefore(l, r) ==
    \/ IsCompletion(l) /\ ~IsCompletion(r)
    \/ (IsCompletion(l) <=> IsCompletion(r)) /\ Channel(l) < Channel(r)

Arbitrated(l, r) == IsDma(l) /\ IsDma(r) /\ l.source # r.source

event_less(l, r) ==
    \/ Earlier(l, r)
    \/ SameSlot(l, r) /\ Arbitrated(l, r) /\ DmaBefore(l, r)
    \/ SameSlot(l, r) /\ ~Arbitrated(l, r) /\ l.sequence < r.sequence
=============================================================================
