------------------------- MODULE MCInterruptControl -------------------------
\* Interrupts of a low level and of level 7, which DISI does not mask; in the
\* wake run the second has no implemented vector.
EXTENDS InterruptControl

OneIrq == {0}
TwoIrq == {0, 1}
TwoPriorities == 0 :> 2 @@ 1 :> 7
None == {}
RetireOnly == {"retire", "boundary"}
EntryWindows == {"entry", "entry_low"}
Both == BOOLEAN
Levels0 == {0}
SleepTraps == {"hard", "oscillator", "stack"}
SoftOnly == {"soft"}

Shallow == interrupt_depth <= 3
=============================================================================
