---------------------------- MODULE MCEventQueue ----------------------------
(***************************************************************************)
(* Populations of the queue, one of which is chosen at the start: the      *)
(* master port of the PMP, which the host can also reach, and a clock; two *)
(* clocks; USB, whose events of the host are paused and cancelled; I2C,    *)
(* which delays its events; and SPI, which cancels those of the host, with *)
(* CAN, which moves its own.                                               *)
(***************************************************************************)
EXTENDS EventQueue

VARIABLE population   \* the kinds of events that are scheduled

MCTypes == {"PMP", "I2C", "CAN", "SPI", "USB", "AUX_PLL", "OSCILLATOR"}
MCGatedTypes == {"PMP", "I2C", "USB"}
MCHeldTypes == {"I2C"}
MCHostGatedTypes == {"USB"}
MCClockTypes == {"AUX_PLL", "OSCILLATOR"}
MCHostTypes == {"PMP", "SPI", "USB"}
MCCancelledTypes == {"SPI", "USB"}
MCUnorderedTypes == {"USB"}
MCStretchedTypes == {"I2C"}
MCShiftedTypes == {"CAN"}

Populations == {{"PMP", "OSCILLATOR"}, {"AUX_PLL", "OSCILLATOR"}, {"USB"}, {"I2C"},
                {"SPI", "CAN"}}

MCInit == Init /\ population \in Populations

\* No event of a kind that is not in the population is scheduled, and the clock
\* of such a kind is neither gated nor reconfigured.
MCNext == /\ Next
          /\ \A e \in events' : e.type \in population
          /\ gated' \subseteq population
          /\ \A t \in ClockTypes \ population : generation'[t] = 0
          /\ UNCHANGED population

MCSpec == /\ MCInit /\ [][MCNext]_<<vars, population>>
          /\ WF_vars(AdvanceClock \/ DispatchEvent \/ EndAdvance \/ AbortAdvance)
=============================================================================
