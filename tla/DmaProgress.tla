----------------------------- MODULE DmaProgress -----------------------------
(***************************************************************************)
(* What the DMA controller gets done.  An instruction takes at least one   *)
(* device cycle and the events of one cycle are finitely many, so the      *)
(* controller is called only so often before the device clock moves on:    *)
(* CallsPerCycle, a bound of the model, says how often.                    *)
(***************************************************************************)
EXTENDS DmaController

CONSTANT CallsPerCycle

ASSUME ProgressAssumption == CallsPerCycle \in Nat \ {0}

VARIABLE calls   \* calls since the clock last moved

pacedVars == <<vars, calls>>

PacedInit == Init /\ calls = 0

PacedCall == /\ calls < CallsPerCycle
             /\ Call
             /\ calls' = calls + 1

PacedDispatch == Dispatch /\ UNCHANGED calls

PacedStart == Start /\ UNCHANGED calls

\* The clock moves over the events, or with none of them running.
PacedTick == /\ \/ Tick
                \/ (events = {} \/ asleep) /\ calls # 0 /\ UNCHANGED vars
             /\ calls' = 0

PacedNext == PacedCall \/ PacedDispatch \/ PacedStart \/ PacedTick

\* dspic33_device_advance_instruction dispatches every due event before it moves
\* the clock; now and then the processor is off the bus when a request is
\* dispatched whose buffer is in implemented memory.
FairSpec == /\ PacedInit /\ [][PacedNext]_pacedVars
            /\ WF_pacedVars(PacedTick) /\ WF_pacedVars(PacedDispatch)
            /\ SF_pacedVars(PacedStart)
-----------------------------------------------------------------------------
Pending(c) == ch[c].forced_pending \/ ch[c].peripheral_pending

\* A pending request leads to a transfer, of its channel or of one that is
\* served first, unless it is withdrawn or the device sleeps: no channel keeps
\* the arbiter waiting, or the others off the bus, for ever.
WorkConserved == \A c \in Channels : Pending(c) ~> SomeActive \/ ~Pending(c) \/ asleep

\* A transfer that has begun ends, unless the device sleeps.
TransferEnds == SomeActive ~> ~SomeActive \/ asleep
=============================================================================
