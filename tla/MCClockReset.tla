---------------------------- MODULE MCClockReset ----------------------------
\* A device that starts on the internal oscillator, and what can be programmed
\* from there, one register at a time.
EXTENDS ClockReset

Base == [startup |-> "FRC", two_speed |-> FALSE, posc |-> "XT", switch_disable |-> FALSE,
         clock_lock |-> FALSE, pllk |-> TRUE, watchdog |-> FALSE, window |-> TRUE]
WithoutLock == [Base EXCEPT !.pllk = FALSE]
WithoutPrimary == [Base EXCEPT !.posc = "none"]
Fixed == [Base EXCEPT !.switch_disable = TRUE]
FixedOnPll == [Fixed EXCEPT !.startup = "POSCPLL", !.two_speed = TRUE]
AllConfigurations == {Base, WithoutLock, WithoutPrimary, Fixed, FixedOnPll}
SomeCauses == {"SWR", "EXTR"}
OnceFixed == {FixedOnPll}
=============================================================================
