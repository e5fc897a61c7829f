--------------------------- MODULE MCDmaController ---------------------------
(***************************************************************************)
(* The program is given one of three sets of channels: two channels of two *)
(* modules that compete for the bus, a ping-pong channel that interrupts   *)
(* at the middle of its blocks, and a one-shot pair of blocks.  Of the     *)
(* two, only the first meets collisions and a module disable, and the      *)
(* device stays awake; the single channels meet Sleep as well.  The        *)
(* counter of generations is one bit, so that it wraps every other time.   *)
(***************************************************************************)
EXTENDS DmaController, TLC

VARIABLE used   \* the channels of this program

MCChannels == {0, 4, 8, 12}
ModeOf(one_shot, ping_pong, half, count) ==
    [one_shot |-> one_shot, ping_pong |-> ping_pong, half |-> half, count |-> count]
MCMode == 0 :> ModeOf(FALSE, FALSE, FALSE, 0) @@ 4 :> ModeOf(TRUE, FALSE, TRUE, 0)
       @@ 8 :> ModeOf(FALSE, TRUE, TRUE, 2) @@ 12 :> ModeOf(TRUE, TRUE, FALSE, 1)
OwnSources == 0 :> 0 @@ 4 :> 1 @@ 8 :> 2 @@ 12 :> 3
Either == BOOLEAN
Soon == {0, 1}

MCInit == Init /\ used \in {{0, 4}, {8}, {12}}

\* The program leaves the other channels, and their modules, alone.  What only
\* repeats for the second of two channels is left to the first.
MCNext == /\ Next
          /\ \A c \in Channels \ used : ~ch'[c].enabled /\ Group(c) \notin pmd_disabled'
          /\ 4 \in used => ~asleep' /\ ~ch'[4].pwc /\ Group(4) \notin pmd_disabled'
          /\ UNCHANGED used

MCSpec == MCInit /\ [][MCNext]_<<vars, used>>
=============================================================================
