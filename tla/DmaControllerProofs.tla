------------------------ MODULE DmaControllerProofs ------------------------
(***************************************************************************)
(* The safety properties of DmaController.tla, for any channels, modes,    *)
(* request sources and width of the generation counter.                    *)
(***************************************************************************)
EXTENDS DmaController, FiniteSetTheorems, TLAPS

LEMMA NextGenerationType ==
    ASSUME NEW g \in 0 .. GenerationMask
    PROVE  /\ NextGeneration(g) \in 0 .. GenerationMask
           /\ g # GenerationMask => NextGeneration(g) = g + 1
  BY DmaAssumption DEF NextGeneration

\* What the operations make of the state of a channel.
LEMMA StoppedState ==
    ASSUME NEW r \in ChannelState
    PROVE  /\ Stopped(r) \in ChannelState
           /\ Stopped(r) = [r EXCEPT !.force = FALSE, !.forced_pending = FALSE,
                                     !.peripheral_pending = FALSE, !.active = FALSE,
                                     !.arbiter_waiting = FALSE,
                                     !.generation = NextGeneration(r.generation)]
  BY NextGenerationType DEF ChannelState, Stopped

LEMMA RequestState ==
    ASSUME NEW r \in ChannelState, NEW forced \in BOOLEAN
    PROVE  /\ ForcedCleared(r) \in ChannelState
           /\ RequestCleared(r, forced) \in ChannelState
           /\ Scheduled(r, forced) \in ChannelState
           /\ Withdrawn(r, forced) \in ChannelState
           /\ Granted(r, forced) \in ChannelState
  <1>1. ForcedCleared(r) \in ChannelState /\ RequestCleared(r, forced) \in ChannelState
    BY DEF ChannelState, ForcedCleared, RequestCleared
  <1>2. Scheduled(r, forced) \in ChannelState
    BY DEF ChannelState, Scheduled
  <1>3. Withdrawn(r, forced) \in ChannelState
    BY <1>1 DEF ChannelState, Withdrawn
  <1>4. Granted(r, forced) \in ChannelState
    BY DEF ChannelState, Granted
  <1>. QED BY <1>1, <1>2, <1>3, <1>4

LEMMA RequestedState ==
    ASSUME NEW r \in ChannelState, NEW accepted \in BOOLEAN
    PROVE  Requested(r, accepted) \in ChannelState
  <1>. DEFINE collided == [r EXCEPT !.rqc = r.rqc \/ r.forced_pending]
              granted == IF Overtaken(r)
                         THEN [ForcedCleared(collided) EXCEPT !.arbiter_waiting = FALSE,
                                                     !.generation = NextGeneration(@)]
                         ELSE collided
  <1>1. collided \in ChannelState
    BY DEF ChannelState
  <1>. HIDE DEF collided
  <1>2. ForcedCleared(collided) \in ChannelState
    BY <1>1, RequestState
  <1>3. granted \in ChannelState
    <2>. DEFINE cleared == ForcedCleared(collided)
    <2>1. cleared \in ChannelState
      BY <1>2
    <2>. HIDE DEF cleared
    <2>2. NextGeneration(cleared.generation) \in 0 .. GenerationMask
      BY <2>1, NextGenerationType DEF ChannelState
    <2>3. [cleared EXCEPT !.arbiter_waiting = FALSE,
                          !.generation = NextGeneration(@)] \in ChannelState
      BY <2>1, <2>2 DEF ChannelState
    <2>. QED BY <1>1, <2>3 DEF cleared
  <1>. HIDE DEF granted
  <1>4. Scheduled(granted, FALSE) \in ChannelState
    BY <1>3, RequestState
  <1>. QED BY <1>3, <1>4 DEF Requested, granted, collided

LEMMA AbandonedEvents ==
    ASSUME NEW E \in SUBSET DmaEvent, NEW C
    PROVE  Abandoned(E, C) \in SUBSET DmaEvent
  <1>1. Purged(E, C) \in SUBSET DmaEvent
    BY DEF Purged
  <1>2. \A e \in DmaEvent : [e EXCEPT !.stale = TRUE] \in DmaEvent
    BY DEF DmaEvent
  <1>. QED BY <1>1, <1>2 DEF Abandoned

LEMMA NewEventType ==
    ASSUME TypeOK, NEW c \in Channels, NEW completion \in BOOLEAN, NEW forced \in BOOLEAN,
           NEW left \in Nat
    PROVE  NewEvent(c, completion, forced, left) \in DmaEvent
  BY DEF TypeOK, ChannelState, NewEvent, DmaEvent

LEMMA LaterType ==
    ASSUME NEW e \in DmaEvent, NEW left \in Nat
    PROVE  [e EXCEPT !.left = left] \in DmaEvent
  BY DEF DmaEvent

\* The history counts modulo the length of two blocks or four.
LEMMA Modulo ==
    ASSUME NEW a \in Nat, NEW b \in Nat \ {0}
    PROVE  a % b \in 0 .. b - 1
  OBVIOUS

LEMMA HistoryRange ==
    ASSUME NEW c \in Channels
    PROVE  /\ Mode[c] \in ChannelMode /\ Mode[c].count \in Nat
           /\ BlockLength(c) = Mode[c].count + 1 /\ BlockLength(c) \in Nat \ {0}
           /\ Blocks(c) \in {2, 4} /\ Blocks(c) * BlockLength(c) \in Nat \ {0}
           /\ Blocks(c) = 4 <=> Mode[c].ping_pong
  BY DmaAssumption DEF ChannelMode, BlockLength, Blocks

LEMMA ResetType == ResetState \in ChannelState
  BY DmaAssumption DEF ResetState, ChannelState

LEMMA TypeInit == Init => TypeOK
  <1>. SUFFICES ASSUME Init PROVE TypeOK
    OBVIOUS
  <1>1. ch \in [Channels -> ChannelState]
    BY ResetType DEF Init
  <1>2. /\ moved \in [Channels -> Nat] /\ raised \in [Channels -> Nat]
        /\ events \subseteq DmaEvent /\ asleep \in BOOLEAN
        /\ pmd_disabled \subseteq {Group(c) : c \in Channels}
    BY DEF Init
  <1>. QED BY <1>1, <1>2 DEF TypeOK

\* The writes of the program to the registers of a channel.
LEMMA TypeProgram ==
    TypeOK /\ (EnableChannel \/ DisableChannel \/ ForceRequest \/ ClearCollisions) => TypeOK'
  <1>. SUFFICES ASSUME TypeOK,
                       EnableChannel \/ DisableChannel \/ ForceRequest \/ ClearCollisions
                PROVE  TypeOK'
    OBVIOUS
  <1>0. \A c \in Channels : /\ ch[c] \in ChannelState
                            /\ NextGeneration(ch[c].generation) \in 0 .. GenerationMask
    BY NextGenerationType DEF TypeOK, ChannelState
  <1>1. CASE EnableChannel
    <2>1. PICK c \in Channels :
             /\ ch' = [ch EXCEPT ![c] = Started(@)]
             /\ events' = Abandoned(events, {c})
             /\ moved' = [moved EXCEPT ![c] = 0]
             /\ raised' = [raised EXCEPT ![c] = 0]
             /\ UNCHANGED <<pmd_disabled, asleep>>
      BY <1>1 DEF EnableChannel
    <2>2. Started(ch[c]) \in ChannelState
      BY <1>0 DEF Started, ChannelState
    <2>3. ch' \in [Channels -> ChannelState]
      BY <2>1, <2>2 DEF TypeOK
    <2>. QED BY <2>1, <2>3, AbandonedEvents DEF TypeOK
  <1>2. CASE DisableChannel
    <2>1. PICK c \in Channels :
             /\ ch' = [ch EXCEPT ![c] = [Stopped(@) EXCEPT !.enabled = FALSE]]
             /\ events' = Abandoned(events, {c})
             /\ UNCHANGED <<pmd_disabled, asleep, moved, raised>>
      BY <1>2 DEF DisableChannel
    <2>2. Stopped(ch[c]) \in ChannelState
      BY <1>0, StoppedState
    <2>3. [Stopped(ch[c]) EXCEPT !.enabled = FALSE] \in ChannelState
      BY <2>2 DEF ChannelState
    <2>4. ch' \in [Channels -> ChannelState]
      BY <2>1, <2>3 DEF TypeOK
    <2>. QED BY <2>1, <2>4, AbandonedEvents DEF TypeOK
  <1>3. CASE ForceRequest
    <2>1. PICK c \in Channels :
             /\ \/ ch' = [ch EXCEPT ![c].rqc = TRUE] /\ UNCHANGED events
                \/ /\ ch' = [ch EXCEPT ![c] = [Scheduled(@, TRUE) EXCEPT !.force = TRUE]]
                   /\ events' = events \union (IF ch[c].forced_pending THEN {}
                                               ELSE {NewEvent(c, FALSE, TRUE, 1)})
             /\ UNCHANGED <<pmd_disabled, asleep, moved, raised>>
      BY <1>3 DEF ForceRequest
    <2>2. Scheduled(ch[c], TRUE) \in ChannelState
      BY <1>0, RequestState
    <2>3. /\ [Scheduled(ch[c], TRUE) EXCEPT !.force = TRUE] \in ChannelState
          /\ [ch[c] EXCEPT !.rqc = TRUE] \in ChannelState
      BY <1>0, <2>2 DEF ChannelState
    <2>4. ch' \in [Channels -> ChannelState]
      BY <2>1, <2>3 DEF TypeOK
    <2>5. events' \in SUBSET DmaEvent
      <3>1. NewEvent(c, FALSE, TRUE, 1) \in DmaEvent
        BY NewEventType
      <3>. QED BY <2>1, <3>1 DEF TypeOK
    <2>. QED BY <2>1, <2>4, <2>5 DEF TypeOK
  <1>4. CASE ClearCollisions
    <2>1. \A c \in Channels : [ch[c] EXCEPT !.pwc = FALSE, !.rqc = FALSE] \in ChannelState
      BY <1>0 DEF ChannelState
    <2>. QED BY <1>4, <2>1 DEF ClearCollisions, TypeOK
  <1>. QED BY <1>1, <1>2, <1>3, <1>4

LEMMA TypePower ==
    TypeOK /\ (ModuleDisable \/ ModuleEnable \/ Sleep \/ Wake \/ WarmReset \/ Tick) => TypeOK'
  <1>. SUFFICES ASSUME TypeOK,
                       ModuleDisable \/ ModuleEnable \/ Sleep \/ Wake \/ WarmReset \/ Tick
                PROVE  TypeOK'
    OBVIOUS
  <1>1. CASE ModuleDisable
    <2>1. PICK g \in {Group(c) : c \in Channels} \ pmd_disabled :
             /\ pmd_disabled' = pmd_disabled \union {g}
             /\ ch' = [c \in Channels |-> IF c \in {d \in Channels : Group(d) = g}
                                          THEN Stopped(ch[c]) ELSE ch[c]]
             /\ events' = Abandoned(events, {d \in Channels : Group(d) = g})
             /\ UNCHANGED <<asleep, moved, raised>>
      BY <1>1 DEF ModuleDisable
    <2>2. \A c \in Channels : ch[c] \in ChannelState /\ Stopped(ch[c]) \in ChannelState
      BY StoppedState DEF TypeOK
    <2>3. ch' \in [Channels -> ChannelState]
      BY <2>1, <2>2
    <2>. QED BY <2>1, <2>3, AbandonedEvents DEF TypeOK
  <1>2. CASE ModuleEnable \/ Sleep \/ Wake
    BY <1>2 DEF ModuleEnable, Sleep, Wake, TypeOK
  <1>3. CASE WarmReset
    BY <1>3, ResetType DEF WarmReset, TypeOK
  <1>4. CASE Tick
    <2>1. \A e \in events : e \in DmaEvent /\ e.left - 1 \in Nat
      BY <1>4 DEF Tick, Due, TypeOK, DmaEvent
    <2>2. \A e \in events : [e EXCEPT !.left = @ - 1] \in DmaEvent
      BY <2>1, LaterType
    <2>3. events' \in SUBSET DmaEvent
      BY <1>4, <2>2 DEF Tick
    <2>. QED BY <1>4, <2>3 DEF Tick, TypeOK
  <1>. QED BY <1>1, <1>2, <1>3, <1>4
\* dspic33_dma_request, and an event of the controller.
LEMMA TypeRequest == TypeOK /\ dspic33_dma_request => TypeOK'
  <1>. SUFFICES ASSUME TypeOK, dspic33_dma_request PROVE TypeOK'
    OBVIOUS
  <1>0. PICK s \in {RequestSource[d] : d \in Channels}, delay \in RequestDelays :
          \E accepted \in [Listening(s) -> Answers] :
           /\ ch' = [c \in Channels |-> IF c \in Listening(s)
                                        THEN Requested(ch[c], accepted[c]) ELSE ch[c]]
           /\ events' = Abandoned(events, {c \in Listening(s) : Overtaken(ch[c])}) \union
                           {RequestEvent(c, delay) : c \in {d \in Listening(s) : accepted[d]}}
           /\ UNCHANGED <<pmd_disabled, asleep, moved, raised>>
    BY DEF dspic33_dma_request
  <1>1. PICK accepted \in [Listening(s) -> Answers] :
           /\ ch' = [c \in Channels |-> IF c \in Listening(s)
                                        THEN Requested(ch[c], accepted[c]) ELSE ch[c]]
           /\ events' = Abandoned(events, {c \in Listening(s) : Overtaken(ch[c])}) \union
                           {RequestEvent(c, delay) : c \in {d \in Listening(s) : accepted[d]}}
           /\ UNCHANGED <<pmd_disabled, asleep, moved, raised>>
    BY <1>0
  <1>2. \A c \in Channels : ch[c] \in ChannelState
    BY DEF TypeOK
  <1>3. ch' \in [Channels -> ChannelState]
    <2>1. \A c \in Listening(s) : c \in Channels /\ accepted[c] \in BOOLEAN
      BY DmaAssumption DEF Listening
    <2>2. \A c \in Listening(s) : Requested(ch[c], accepted[c]) \in ChannelState
      BY <1>2, <2>1, RequestedState
    <2>. QED BY <1>1, <1>2, <2>2
  <1>4. \A c \in Channels : RequestEvent(c, delay) \in DmaEvent
    <2>. TAKE c \in Channels
    <2>1. NewEvent(c, FALSE, FALSE, delay) \in DmaEvent
      BY NewEventType, DmaAssumption
    <2>2. Requested(ch[c], TRUE).generation \in 0 .. GenerationMask
      BY <1>2, RequestedState DEF ChannelState
    <2>. QED BY <2>1, <2>2 DEF DmaEvent, RequestEvent
  <1>5. events' \in SUBSET DmaEvent
    <2>1. Abandoned(events, {c \in Listening(s) : Overtaken(ch[c])}) \in SUBSET DmaEvent
      BY AbandonedEvents DEF TypeOK
    <2>2. \A c \in Listening(s) : RequestEvent(c, delay) \in DmaEvent
      BY <1>4 DEF Listening
    <2>. QED BY <1>1, <2>1, <2>2
  <1>. QED BY <1>1, <1>3, <1>5 DEF TypeOK

LEMMA TypeWait ==
    ASSUME TypeOK, NEW e \in events,
           Ignore(e) \/ TryLater(e) \/ Refuse(e) \/ WaitForBus(e) \/ AddressTrap(e)
    PROVE  TypeOK'
  <1>. DEFINE c == e.channel
  <1>1. e \in DmaEvent /\ c \in Channels /\ ch[c] \in ChannelState /\ e.forced \in BOOLEAN
    BY DEF TypeOK, DmaEvent
  <1>2. Later(e) \in SUBSET DmaEvent /\ events \ {e} \in SUBSET DmaEvent
    BY <1>1, LaterType DEF TypeOK, Later
  <1>3. Withdrawn(ch[c], e.forced) \in ChannelState
    BY <1>1, RequestState
  <1>4. [ch[c] EXCEPT !.arbiter_waiting = TRUE] \in ChannelState
    BY <1>1 DEF ChannelState
  <1>5. RequestCleared(Granted(ch[c], e.forced), e.forced) \in ChannelState
    <2>. DEFINE granted == Granted(ch[c], e.forced)
    <2>1. granted \in ChannelState
      BY <1>1, RequestState
    <2>. HIDE DEF granted
    <2>2. RequestCleared(granted, e.forced) \in ChannelState
      BY <1>1, <2>1, RequestState
    <2>. QED BY <2>2 DEF granted
  <1>6. PICK r \in ChannelState : ch' = ch \/ ch' = [ch EXCEPT ![c] = r]
    BY <1>1, <1>3, <1>4, <1>5 DEF Ignore, TryLater, Refuse, WaitForBus, AddressTrap
  <1>7. ch' \in [Channels -> ChannelState]
    BY <1>1, <1>6 DEF TypeOK
  <1>8. events' \in SUBSET DmaEvent
    BY <1>2 DEF Ignore, TryLater, Refuse, WaitForBus, AddressTrap
  <1>9. UNCHANGED <<pmd_disabled, asleep, moved, raised>>
    BY DEF Ignore, TryLater, Refuse, WaitForBus, AddressTrap
  <1>. QED BY <1>7, <1>8, <1>9 DEF TypeOK

LEMMA TypeTransfer == ASSUME TypeOK, NEW e \in events, Transfer(e) PROVE TypeOK'
  <1>. DEFINE c == e.channel
  <1>1. e \in DmaEvent /\ c \in Channels /\ ch[c] \in ChannelState /\ e.forced \in BOOLEAN
    BY DEF TypeOK, DmaEvent
  <1>2. PICK collision \in BOOLEAN :
           LET granted == [Granted(ch[e.channel], e.forced) EXCEPT !.pwc = collision]
           IN  \/ /\ ch' = [ch EXCEPT ![e.channel] = [granted EXCEPT !.active = TRUE]]
                  /\ events' = (events \ {e}) \union {NewEvent(e.channel, TRUE, e.forced, 1)}
               \/ /\ ch' = [ch EXCEPT ![e.channel] = RequestCleared(granted, e.forced)]
                  /\ events' = events \ {e}
    BY DEF Transfer
  <1>. DEFINE granted == [Granted(ch[c], e.forced) EXCEPT !.pwc = collision]
  <1>3. granted \in ChannelState
    <2>1. Granted(ch[c], e.forced) \in ChannelState
      BY <1>1, RequestState
    <2>. QED BY <2>1 DEF ChannelState
  <1>4. \/ ch' = [ch EXCEPT ![c] = [granted EXCEPT !.active = TRUE]]
        \/ ch' = [ch EXCEPT ![c] = RequestCleared(granted, e.forced)]
    BY <1>2
  <1>. HIDE DEF granted
  <1>5. [granted EXCEPT !.active = TRUE] \in ChannelState
    BY <1>3 DEF ChannelState
  <1>6. RequestCleared(granted, e.forced) \in ChannelState
    BY <1>1, <1>3, RequestState
  <1>7. ch' \in [Channels -> ChannelState]
    BY <1>1, <1>4, <1>5, <1>6 DEF TypeOK
  <1>8. events' \in SUBSET DmaEvent
    <2>1. NewEvent(c, TRUE, e.forced, 1) \in DmaEvent
      BY <1>1, NewEventType
    <2>. QED BY <1>2, <2>1 DEF TypeOK
  <1>9. UNCHANGED <<pmd_disabled, asleep, moved, raised>>
    BY DEF Transfer
  <1>. QED BY <1>7, <1>8, <1>9 DEF TypeOK

LEMMA CompletedState ==
    ASSUME TypeOK, NEW c \in Channels
    PROVE  Counted(c) \in ChannelState /\ Completed(c) \in ChannelState
  <1>1. ch[c] \in ChannelState
    BY DEF TypeOK
  <1>2. Counted(c) \in ChannelState
    <2>. DEFINE r == ch[c]
                toggled == IF Mode[c].ping_pong /\ ~LastBlock(c) THEN ~r.secondary ELSE r.secondary
                half == r.half_raised \/ AtHalf(c)
    <2>0. r.secondary \in BOOLEAN /\ r.index + 1 \in Nat
      BY <1>1 DEF ChannelState
    <2>1. toggled \in BOOLEAN
      BY <2>0, Zenon
    <2>3. half \in BOOLEAN
      BY Zenon
    <2>2. Counted(c) = IF AtEnd(c)
                       THEN [r EXCEPT !.index = 0, !.half_raised = FALSE, !.secondary = toggled]
                       ELSE [r EXCEPT !.index = r.index + 1, !.half_raised = half]
      BY DEF Counted
    <2>4. r \in ChannelState
      BY <1>1
    <2>. HIDE DEF toggled, half, r
    <2>5. [r EXCEPT !.index = 0, !.half_raised = FALSE, !.secondary = toggled] \in ChannelState
      BY <2>1, <2>4 DEF ChannelState
    <2>6. [r EXCEPT !.index = r.index + 1, !.half_raised = half] \in ChannelState
      BY <2>0, <2>3, <2>4 DEF ChannelState, r
    <2>. QED BY <2>2, <2>5, <2>6
  <1>. DEFINE stopped == Stopped(Counted(c))
  <1>3. stopped \in ChannelState
    BY <1>2, StoppedState
  <1>. HIDE DEF stopped
  <1>4. [stopped EXCEPT !.enabled = FALSE] \in ChannelState
    BY <1>3 DEF ChannelState
  <1>. QED BY <1>2, <1>4 DEF Completed, stopped

LEMMA TypeComplete == ASSUME TypeOK, NEW e \in events, Complete(e) PROVE TypeOK'
  <1>. DEFINE c == e.channel
              done == [Completed(c) EXCEPT !.active = FALSE]
              final == IF e.forced THEN ForcedCleared(done) ELSE done
  <1>1. e \in DmaEvent /\ c \in Channels /\ ch[c] \in ChannelState /\ e.forced \in BOOLEAN
    BY DEF TypeOK, DmaEvent
  <1>2. done \in ChannelState
    <2>. DEFINE completed == Completed(c)
    <2>1. completed \in ChannelState
      BY <1>1, CompletedState
    <2>. HIDE DEF completed
    <2>2. [completed EXCEPT !.active = FALSE] \in ChannelState
      BY <2>1 DEF ChannelState
    <2>. QED BY <2>2 DEF completed
  <1>3. final \in ChannelState
    <2>. HIDE DEF done
    <2>. QED BY <1>2, RequestState
  <1>4. CASE ~ch[c].active
    BY <1>4 DEF Complete, TypeOK
  <1>5. CASE ch[c].active
    <2>1. /\ ch' = [ch EXCEPT ![c] = final]
          /\ events' = Abandoned(events \ {e}, IF Stops(c) THEN {c} ELSE {})
          /\ moved' = [moved EXCEPT ![c] = (@ + 1) % (Blocks(c) * BlockLength(c))]
          /\ raised' = [raised EXCEPT ![c] =
                (@ + (IF AtHalf(c) THEN 1 ELSE 0)
                   + (IF AtEnd(c) /\ ~Mode[c].half THEN 1 ELSE 0)) % Blocks(c)]
          /\ UNCHANGED <<pmd_disabled, asleep>>
      BY <1>5 DEF Complete
    <2>. HIDE DEF final
    <2>2. ch' \in [Channels -> ChannelState]
      BY <1>1, <1>3, <2>1 DEF TypeOK
    <2>3. events' \in SUBSET DmaEvent
      BY <2>1, AbandonedEvents DEF TypeOK
    <2>4. moved' \in [Channels -> Nat]
      <3>1. (moved[c] + 1) % (Blocks(c) * BlockLength(c)) \in Nat
        <4>1. moved[c] + 1 \in Nat /\ Blocks(c) * BlockLength(c) \in Nat \ {0}
          BY <1>1, HistoryRange DEF TypeOK
        <4>. QED BY <4>1, Modulo
      <3>. QED BY <2>1, <3>1 DEF TypeOK
    <2>5. raised' \in [Channels -> Nat]
      <3>. DEFINE n == raised[c] + (IF AtHalf(c) THEN 1 ELSE 0)
                                 + (IF AtEnd(c) /\ ~Mode[c].half THEN 1 ELSE 0)
      <3>1. n \in Nat /\ Blocks(c) \in Nat \ {0}
        BY <1>1, HistoryRange DEF TypeOK
      <3>2. raised' = [raised EXCEPT ![c] = n % Blocks(c)]
        BY <2>1
      <3>. HIDE DEF n
      <3>3. n % Blocks(c) \in Nat
        BY <3>1, Modulo
      <3>. QED BY <3>2, <3>3 DEF TypeOK
    <2>. QED BY <2>1, <2>2, <2>3, <2>4, <2>5 DEF TypeOK
  <1>. QED BY <1>4, <1>5

LEMMA TypeNext == TypeOK /\ [Next]_vars => TypeOK'
  <1>. SUFFICES ASSUME TypeOK, [Next]_vars PROVE TypeOK'
    OBVIOUS
  <1>1. CASE Call
    BY <1>1, TypeProgram, TypePower, TypeRequest DEF Call
  <1>2. CASE Dispatch
    BY <1>2, TypeWait, TypeComplete DEF Dispatch
  <1>3. CASE Start
    BY <1>3, TypeTransfer DEF Start
  <1>4. CASE Tick
    BY <1>4, TypePower
  <1>5. CASE UNCHANGED vars
    BY <1>5 DEF vars, TypeOK
  <1>. QED BY <1>1, <1>2, <1>3, <1>4, <1>5 DEF Next

\* The registers, events and history keep their types.
THEOREM ControllerTyped == Spec => []TypeOK
  BY TypeInit, TypeNext, PTL DEF Spec
-----------------------------------------------------------------------------
(***************************************************************************)
(* Requests and their events.  The events of a channel that are not stale  *)
(* are its own; all others are older.  Its own events are what its pending *)
(* and active bits say, one of each use, and a channel that is disabled    *)
(* has none and does not hold the bus.                                     *)
(***************************************************************************)
Own(E, c) == {e \in E : e.channel = c /\ ~e.stale}

Ages(E, r) == \A e \in E : IF e.stale THEN e.generation < r[e.channel].generation
                                      ELSE e.generation = r[e.channel].generation

\* Two events that may not both be on their way for one channel.
SameUse(e, f) == \/ e.forced /\ f.forced
                 \/ e.completion /\ f.completion
                 \/ ~e.forced /\ ~f.forced /\ ~e.completion /\ ~f.completion

Carried(r, F, off) ==
    /\ r.peripheral_pending <=> \E e \in F : ~e.completion /\ ~e.forced
    /\ r.forced_pending <=> \E e \in F : e.forced
    /\ r.active <=> \E e \in F : e.completion
    /\ r.force = r.forced_pending
    /\ \A e, f \in F : SameUse(e, f) => e = f
    /\ off \/ ~r.enabled => F = {} /\ ~r.arbiter_waiting

AllCarried == \A c \in Channels : Carried(ch[c], Own(events, c), Disabled(c))

RequestInv == TypeOK /\ Ages(events, ch) /\ AllCarried

\* What the bits say does not depend on the rest of the state of the channel.
LEMMA CarriedAlike ==
    ASSUME NEW r \in ChannelState, NEW s \in ChannelState, NEW F, NEW off,
           Carried(r, F, off),
           s.enabled = r.enabled, s.peripheral_pending = r.peripheral_pending,
           s.forced_pending = r.forced_pending, s.active = r.active, s.force = r.force,
           s.arbiter_waiting = r.arbiter_waiting
    PROVE  Carried(s, F, off)
  BY DEF Carried

LEMMA CarriedNone ==
    ASSUME NEW r \in ChannelState, NEW off,
           ~r.peripheral_pending, ~r.forced_pending, ~r.active, ~r.force, ~r.arbiter_waiting
    PROVE  Carried(r, {}, off)
  BY DEF Carried, ChannelState

LEMMA StoppedCarried ==
    ASSUME NEW r \in ChannelState, NEW off
    PROVE  /\ Carried(Stopped(r), {}, off)
           /\ Carried([Stopped(r) EXCEPT !.enabled = FALSE], {}, off)
  <1>. DEFINE s == Stopped(r)
  <1>1. /\ s \in ChannelState
        /\ ~s.peripheral_pending /\ ~s.forced_pending /\ ~s.active /\ ~s.force
        /\ ~s.arbiter_waiting
    <2>1. s \in ChannelState
      BY StoppedState
    <2>2. /\ ~s.peripheral_pending /\ ~s.forced_pending /\ ~s.active /\ ~s.force
          /\ ~s.arbiter_waiting
      BY DEF Stopped, ChannelState
    <2>. QED BY <2>1, <2>2
  <1>. HIDE DEF s
  <1>2. Carried(s, {}, off)
    BY <1>1, CarriedNone
  <1>. DEFINE t == [s EXCEPT !.enabled = FALSE]
  <1>3. /\ t \in ChannelState
        /\ ~t.peripheral_pending /\ ~t.forced_pending /\ ~t.active /\ ~t.force
        /\ ~t.arbiter_waiting
    BY <1>1 DEF ChannelState
  <1>. HIDE DEF t
  <1>4. Carried(t, {}, off)
    BY <1>3, CarriedNone
  <1>. QED BY <1>2, <1>4 DEF s, t

LEMMA StartedCarried ==
    ASSUME NEW r \in ChannelState, NEW F, Carried(r, F, FALSE), ~r.enabled
    PROVE  Carried(Started(r), {}, FALSE)
  <1>. DEFINE s == Started(r)
  <1>1. s \in ChannelState
    BY NextGenerationType DEF Started, ChannelState
  <1>2. ~s.peripheral_pending /\ ~s.forced_pending /\ ~s.active
    BY DEF Started, ChannelState
  <1>3. ~r.force /\ ~r.arbiter_waiting
    BY DEF Carried
  <1>4. ~s.force /\ ~s.arbiter_waiting
    BY <1>3 DEF Started, ChannelState
  <1>. HIDE DEF s
  <1>5. Carried(s, {}, FALSE)
    BY <1>1, <1>2, <1>4, CarriedNone
  <1>. QED BY <1>5 DEF s

\* A request that is granted to no transfer takes its event with it.
LEMMA WithdrawnCarried ==
    ASSUME NEW r \in ChannelState, NEW F \in SUBSET DmaEvent, NEW off, Carried(r, F, off),
           NEW e \in F, ~e.completion
    PROVE  Carried(Withdrawn(r, e.forced), F \ {e}, off)
  <1>. DEFINE s == Withdrawn(r, e.forced)
              G == F \ {e}
  <1>0. \A f \in F : f.completion \in BOOLEAN /\ f.forced \in BOOLEAN
    BY DEF DmaEvent
  <1>1. ~off /\ r.enabled /\ \A f \in F : SameUse(e, f) => f = e
    BY DEF Carried
  <1>2. /\ s.enabled = r.enabled /\ s.active = r.active /\ ~s.arbiter_waiting
        /\ s.peripheral_pending = (e.forced /\ r.peripheral_pending)
        /\ s.forced_pending = (~e.forced /\ r.forced_pending)
        /\ s.force = (~e.forced /\ r.force)
    BY <1>0 DEF Withdrawn, RequestCleared, ForcedCleared, ChannelState
  <1>3. s.peripheral_pending <=> \E f \in G : ~f.completion /\ ~f.forced
    BY <1>0, <1>1, <1>2 DEF Carried, SameUse
  <1>4. s.forced_pending <=> \E f \in G : f.forced
    BY <1>0, <1>1, <1>2 DEF Carried, SameUse
  <1>5. s.active <=> \E f \in G : f.completion
    BY <1>2 DEF Carried
  <1>6. s.force = s.forced_pending
    BY <1>2 DEF Carried
  <1>7. \A f, g \in G : SameUse(f, g) => f = g
    BY DEF Carried
  <1>. HIDE DEF s, G
  <1>8. Carried(s, G, off)
    BY <1>1, <1>2, <1>3, <1>4, <1>5, <1>6, <1>7 DEF Carried
  <1>. QED BY <1>8 DEF s, G

\* A new event for a use that has none yet.
LEMMA AddedCarried ==
    ASSUME NEW r \in ChannelState, NEW s \in ChannelState, NEW F \in SUBSET DmaEvent,
           Carried(r, F, FALSE), r.enabled, s.enabled = r.enabled, s.active = r.active,
           s.arbiter_waiting = r.arbiter_waiting,
           NEW e \in DmaEvent, ~e.completion,
           IF e.forced
           THEN /\ ~r.forced_pending /\ s.forced_pending /\ s.force
                /\ s.peripheral_pending = r.peripheral_pending
           ELSE /\ ~r.peripheral_pending /\ s.peripheral_pending
                /\ s.forced_pending = r.forced_pending /\ s.force = r.force
    PROVE  Carried(s, F \union {e}, FALSE)
  <1>0. \A f \in F \union {e} : f.completion \in BOOLEAN /\ f.forced \in BOOLEAN
    BY DEF DmaEvent
  <1>1. \A f \in F : ~SameUse(e, f) /\ ~SameUse(f, e)
    BY <1>0 DEF Carried, SameUse
  <1>2. \A f, g \in F \union {e} : SameUse(f, g) => f = g
    BY <1>1 DEF Carried
  <1>3. s.peripheral_pending <=> \E f \in F \union {e} : ~f.completion /\ ~f.forced
    BY <1>0 DEF Carried
  <1>4. s.forced_pending <=> \E f \in F \union {e} : f.forced
    BY <1>0 DEF Carried
  <1>5. s.active <=> \E f \in F \union {e} : f.completion
    BY <1>0 DEF Carried
  <1>6. s.force = s.forced_pending
    BY <1>0 DEF Carried, ChannelState
  <1>. QED BY <1>2, <1>3, <1>4, <1>5, <1>6 DEF Carried

\* The events with other cycles left.
Like(e, f) == e.completion = f.completion /\ e.forced = f.forced

LEMMA MovedCarried ==
    ASSUME NEW r, NEW F, NEW G, NEW off, Carried(r, F, off),
           \A f \in F : \E g \in G : Like(f, g),
           \A g \in G : \E f \in F : Like(g, f),
           \A g, h \in G : SameUse(g, h) => g = h
    PROVE  Carried(r, G, off)
  <1>1. (\E f \in F : ~f.completion /\ ~f.forced) <=> (\E g \in G : ~g.completion /\ ~g.forced)
    BY DEF Like
  <1>2. (\E f \in F : f.forced) <=> (\E g \in G : g.forced)
    BY DEF Like
  <1>3. (\E f \in F : f.completion) <=> (\E g \in G : g.completion)
    BY DEF Like
  <1>4. F = {} => G = {}
    OBVIOUS
  <1>. QED BY <1>1, <1>2, <1>3, <1>4 DEF Carried

LEMMA LaterCarried ==
    ASSUME NEW r, NEW F \in SUBSET DmaEvent, NEW off, Carried(r, F, off), NEW e \in F,
           NEW n \in DmaEvent, Like(n, e)
    PROVE  Carried(r, (F \ {e}) \union {n}, off)
  <1>. DEFINE G == (F \ {e}) \union {n}
  <1>1. \A f \in F : \E g \in G : Like(f, g)
    BY DEF Like
  <1>2. \A g \in G : \E f \in F : Like(g, f)
    BY DEF Like
  <1>3. \A g, h \in G : SameUse(g, h) => g = h
    BY DEF Carried, SameUse, Like
  <1>. HIDE DEF G
  <1>4. Carried(r, G, off)
    BY <1>1, <1>2, <1>3, MovedCarried
  <1>. QED BY <1>4 DEF G

\* A transfer begins: its request gives way to its completion.
LEMMA TransferCarried ==
    ASSUME NEW r \in ChannelState, NEW s \in ChannelState, NEW F \in SUBSET DmaEvent,
           NEW off, Carried(r, F, off), ~r.active,
           NEW e \in F, ~e.completion, NEW n \in DmaEvent, n.completion, n.forced = e.forced,
           s.enabled = r.enabled, s.active, ~s.arbiter_waiting,
           s.peripheral_pending = (e.forced /\ r.peripheral_pending),
           s.forced_pending = r.forced_pending, s.force = r.force
    PROVE  Carried(s, (F \ {e}) \union {n}, off)
  <1>. DEFINE G == (F \ {e}) \union {n}
  <1>0. \A f \in F \union {n} : f.completion \in BOOLEAN /\ f.forced \in BOOLEAN
    BY DEF DmaEvent
  <1>1. /\ ~off /\ r.enabled
        /\ \A f \in F : ~f.completion /\ (SameUse(e, f) => f = e)
    BY DEF Carried
  <1>2. s.peripheral_pending <=> \E f \in G : ~f.completion /\ ~f.forced
    BY <1>0, <1>1 DEF Carried, SameUse
  <1>3. s.forced_pending <=> \E f \in G : f.forced
    BY <1>0, <1>1 DEF Carried, SameUse
  <1>4. \A f, g \in G : SameUse(f, g) => f = g
    BY <1>0, <1>1 DEF Carried, SameUse
  <1>5. s.force = s.forced_pending
    BY DEF Carried
  <1>6. s.active <=> \E f \in G : f.completion
    OBVIOUS
  <1>. HIDE DEF G
  <1>7. Carried(s, G, off)
    BY <1>1, <1>2, <1>3, <1>4, <1>5, <1>6 DEF Carried
  <1>. QED BY <1>7 DEF G

\* A transfer ends, and the channel goes on.
LEMMA EndedCarried ==
    ASSUME NEW r \in ChannelState, NEW s \in ChannelState, NEW F \in SUBSET DmaEvent,
           NEW off, Carried(r, F, off), NEW e \in F, e.completion,
           s.enabled = r.enabled, ~s.active, s.arbiter_waiting = r.arbiter_waiting,
           s.peripheral_pending = r.peripheral_pending,
           s.forced_pending = (~e.forced /\ r.forced_pending),
           s.force = (~e.forced /\ r.force)
    PROVE  Carried(s, F \ {e}, off)
  <1>. DEFINE G == F \ {e}
  <1>0. \A f \in F : f.completion \in BOOLEAN /\ f.forced \in BOOLEAN
    BY DEF DmaEvent
  <1>1. ~off /\ r.enabled /\ \A f \in F : SameUse(e, f) => f = e
    BY DEF Carried
  <1>2. s.peripheral_pending <=> \E f \in G : ~f.completion /\ ~f.forced
    BY DEF Carried
  <1>3. s.forced_pending <=> \E f \in G : f.forced
    BY <1>0, <1>1 DEF Carried, SameUse
  <1>4. s.active <=> \E f \in G : f.completion
    BY <1>0, <1>1 DEF SameUse
  <1>5. s.force = s.forced_pending
    BY DEF Carried
  <1>6. \A f, g \in G : SameUse(f, g) => f = g
    BY DEF Carried
  <1>. HIDE DEF G
  <1>7. Carried(s, G, off)
    BY <1>1, <1>2, <1>3, <1>4, <1>5, <1>6 DEF Carried
  <1>. QED BY <1>7 DEF G

\* An accepted request and a refused one differ by the request itself.
LEMMA RequestedFields ==
    ASSUME NEW r \in ChannelState
    PROVE  LET s == Requested(r, FALSE)
           IN  /\ Requested(r, TRUE) = Scheduled(s, FALSE)
               /\ s \in ChannelState
               /\ s.enabled = r.enabled /\ s.active = r.active
               /\ s.peripheral_pending = r.peripheral_pending
               /\ IF Overtaken(r)
                  THEN /\ ~s.forced_pending /\ ~s.force /\ ~s.arbiter_waiting
                       /\ s.generation = NextGeneration(r.generation)
                  ELSE /\ s.forced_pending = r.forced_pending /\ s.force = r.force
                       /\ s.arbiter_waiting = r.arbiter_waiting
                       /\ s.generation = r.generation
  <1>. DEFINE s == Requested(r, FALSE)
              collided == [r EXCEPT !.rqc = r.rqc \/ r.forced_pending]
  <1>1. Requested(r, TRUE) = Scheduled(s, FALSE)
    BY DEF Requested
  <1>2. s \in ChannelState
    BY RequestedState
  <1>3. /\ collided \in ChannelState
        /\ collided.enabled = r.enabled /\ collided.active = r.active
        /\ collided.peripheral_pending = r.peripheral_pending
        /\ collided.forced_pending = r.forced_pending /\ collided.force = r.force
        /\ collided.arbiter_waiting = r.arbiter_waiting
        /\ collided.generation = r.generation
    BY DEF ChannelState
  <1>4. s = IF Overtaken(r)
            THEN [ForcedCleared(collided) EXCEPT !.arbiter_waiting = FALSE,
                                                 !.generation = NextGeneration(@)]
            ELSE collided
    BY DEF Requested
  <1>5. CASE ~Overtaken(r)
    BY <1>1, <1>2, <1>3, <1>4, <1>5
  <1>6. CASE Overtaken(r)
    <2>. HIDE DEF collided, s
    <2>1. ForcedCleared(collided) = [collided EXCEPT !.forced_pending = FALSE, !.force = FALSE]
      BY DEF ForcedCleared
    <2>. DEFINE cleared == ForcedCleared(collided)
    <2>2. /\ cleared \in ChannelState
          /\ cleared.enabled = r.enabled /\ cleared.active = r.active
          /\ cleared.peripheral_pending = r.peripheral_pending
          /\ ~cleared.forced_pending /\ ~cleared.force
          /\ cleared.generation = r.generation
      BY <1>3, <2>1 DEF ChannelState
    <2>. HIDE DEF cleared
    <2>3. s = [cleared EXCEPT !.arbiter_waiting = FALSE,
                              !.generation = NextGeneration(cleared.generation)]
      BY <1>4, <1>6 DEF cleared
    <2>4. /\ s.enabled = r.enabled /\ s.active = r.active
          /\ s.peripheral_pending = r.peripheral_pending
          /\ ~s.forced_pending /\ ~s.force /\ ~s.arbiter_waiting
          /\ s.generation = NextGeneration(r.generation)
      BY <2>2, <2>3 DEF ChannelState
    <2>. QED BY <1>1, <1>2, <1>6, <2>4 DEF s
  <1>. QED BY <1>5, <1>6

LEMMA ScheduledFields ==
    ASSUME NEW r \in ChannelState
    PROVE  LET s == Scheduled(r, FALSE)
           IN  /\ s.enabled = r.enabled /\ s.active = r.active /\ s.peripheral_pending
               /\ s.forced_pending = r.forced_pending /\ s.force = r.force
               /\ s.arbiter_waiting = r.arbiter_waiting
               /\ s.generation = r.generation
  BY DEF Scheduled, ChannelState

\* A channel that a peripheral requests, with its new event n if it is accepted.
LEMMA RequestedCarried ==
    ASSUME NEW r \in ChannelState, NEW F \in SUBSET DmaEvent, Carried(r, F, FALSE),
           r.enabled, ~r.peripheral_pending,
           NEW n \in DmaEvent, ~n.completion, ~n.forced
    PROVE  LET G == IF Overtaken(r) THEN {} ELSE F
           IN  /\ Carried(Requested(r, FALSE), G, FALSE)
               /\ Carried(Requested(r, TRUE), G \union {n}, FALSE)
  <1>. DEFINE G == IF Overtaken(r) THEN {} ELSE F
              s == Requested(r, FALSE)
              t == Scheduled(s, FALSE)
  <1>1. s \in ChannelState /\ t \in ChannelState /\ t = Requested(r, TRUE)
    BY RequestedFields, RequestState
  <1>2. s.enabled /\ ~s.peripheral_pending
    BY RequestedFields
  <1>3. Carried(s, G, FALSE)
    <2>1. CASE Overtaken(r)
      <3>1. /\ ~s.forced_pending /\ ~s.force /\ ~s.arbiter_waiting /\ s.active = r.active
            /\ ~r.active
        BY <2>1, RequestedFields DEF Overtaken
      <3>. HIDE DEF s
      <3>2. Carried(s, {}, FALSE)
        BY <1>1, <1>2, <3>1, CarriedNone
      <3>. QED BY <2>1, <3>2
    <2>2. CASE ~Overtaken(r)
      <3>1. /\ s.enabled = r.enabled /\ s.peripheral_pending = r.peripheral_pending
            /\ s.forced_pending = r.forced_pending /\ s.active = r.active /\ s.force = r.force
            /\ s.arbiter_waiting = r.arbiter_waiting
        BY <2>2, RequestedFields
      <3>. HIDE DEF s
      <3>2. Carried(s, F, FALSE)
        BY <1>1, <3>1, CarriedAlike
      <3>. QED BY <2>2, <3>2
    <2>. QED BY <2>1, <2>2
  <1>4. /\ t.enabled = s.enabled /\ t.active = s.active /\ t.peripheral_pending
        /\ t.forced_pending = s.forced_pending /\ t.force = s.force
        /\ t.arbiter_waiting = s.arbiter_waiting
    <2>. HIDE DEF s
    <2>. QED BY <1>1, ScheduledFields
  <1>5. G \in SUBSET DmaEvent
    OBVIOUS
  <1>. HIDE DEF s, t, G
  <1>6. Carried(t, G \union {n}, FALSE)
    BY <1>1, <1>2, <1>3, <1>4, <1>5, AddedCarried
  <1>. QED BY <1>1, <1>3, <1>6 DEF s, G

\* What becomes of the events of a channel.
LEMMA OwnAbandoned ==
    ASSUME NEW E \in SUBSET DmaEvent, NEW C, NEW c
    PROVE  Own(Abandoned(E, C), c) \subseteq (IF c \in C THEN {} ELSE Own(E, c))
  <1>1. \A e \in DmaEvent : /\ [e EXCEPT !.stale = TRUE].stale
                            /\ [e EXCEPT !.stale = TRUE].channel = e.channel
    BY DEF DmaEvent
  <1>. QED BY <1>1 DEF Own, Abandoned, Purged

LEMMA OwnKept ==
    ASSUME NEW E \in SUBSET DmaEvent, NEW C, NEW c, c \notin C
    PROVE  Own(Abandoned(E, C), c) = Own(E, c)
  <1>1. Own(E, c) \subseteq Own(Abandoned(E, C), c)
    <2>1. SUFFICES ASSUME NEW e \in Own(E, c) PROVE e \in Abandoned(E, C)
      BY DEF Own
    <2>2. e \in Purged(E, C) /\ e.channel \notin C
      BY DEF Own, Purged
    <2>. QED BY <2>2 DEF Abandoned
  <1>. QED BY <1>1, OwnAbandoned

LEMMA OwnRemoved ==
    ASSUME NEW E, NEW c, NEW e
    PROVE  /\ Own(E \ {e}, c) = Own(E, c) \ {e}
           /\ e.channel # c => Own(E \ {e}, c) = Own(E, c)
  BY DEF Own

LEMMA OwnAdded ==
    ASSUME NEW E, NEW c, NEW e
    PROVE  /\ e.channel # c => Own(E \union {e}, c) = Own(E, c)
           /\ e.channel = c /\ ~e.stale => Own(E \union {e}, c) = Own(E, c) \union {e}
  BY DEF Own

\* Advancing the generations of the channels of C outdates their events.
LEMMA AgesAbandoned ==
    ASSUME NEW E \in SUBSET DmaEvent, ch \in [Channels -> ChannelState], Ages(E, ch),
           NEW C, NEW r,
           \A c \in Channels : r[c].generation = IF c \in C THEN NextGeneration(ch[c].generation)
                                                            ELSE ch[c].generation
    PROVE  Ages(Abandoned(E, C), r)
  <1>. DEFINE o(e) == IF e.channel \in C THEN [e EXCEPT !.stale = TRUE] ELSE e
  <1>0. Abandoned(E, C) = {o(e) : e \in Purged(E, C)}
    BY DEF Abandoned
  <1>1. SUFFICES ASSUME NEW e \in Purged(E, C)
                 PROVE  IF o(e).stale THEN o(e).generation < r[o(e).channel].generation
                                      ELSE o(e).generation = r[o(e).channel].generation
    <2>. HIDE DEF o
    <2>. QED BY <1>0 DEF Ages
  <1>2. e \in E /\ e \in DmaEvent /\ e.channel \in Channels
    BY DEF Purged, DmaEvent
  <1>3. /\ e.generation \in Int
        /\ ch[e.channel].generation \in 0 .. GenerationMask
    BY <1>2 DEF ChannelState, DmaEvent
  <1>4. CASE e.channel \notin C
    BY <1>2, <1>4 DEF Ages
  <1>5. CASE e.channel \in C
    <2>1. ch[e.channel].generation # GenerationMask
      BY <1>5 DEF Purged
    <2>2. r[e.channel].generation = ch[e.channel].generation + 1
      BY <1>2, <1>3, <1>5, <2>1, NextGenerationType
    <2>3. e.generation < r[e.channel].generation
      BY <1>2, <1>3, <2>2 DEF Ages
    <2>4. o(e).stale /\ o(e).channel = e.channel /\ o(e).generation = e.generation
      BY <1>2, <1>5 DEF DmaEvent
    <2>. QED BY <1>5, <2>3, <2>4
  <1>. QED BY <1>4, <1>5

LEMMA RequestInit == Init => Ages(events, ch) /\ AllCarried
  <1>. SUFFICES ASSUME Init PROVE Ages(events, ch) /\ AllCarried
    OBVIOUS
  <1>1. Ages(events, ch)
    BY DEF Init, Ages
  <1>2. Carried(ResetState, {}, FALSE)
    BY DEF Carried, ResetState
  <1>3. \A c \in Channels : ch[c] = ResetState /\ Own(events, c) = {} /\ Disabled(c) = FALSE
    BY DEF Init, Own, Disabled
  <1>. QED BY <1>1, <1>2, <1>3 DEF AllCarried

\* The channels of C are stopped or started, and their events abandoned.
LEMMA RequestAbandoned ==
    ASSUME RequestInv, NEW C,
           events' = Abandoned(events, C),
           \A c \in Channels :
              IF c \in C
              THEN /\ ch'[c].generation = NextGeneration(ch[c].generation)
                   /\ Carried(ch'[c], {}, Disabled(c)')
              ELSE ch'[c] = ch[c] /\ Disabled(c)' = Disabled(c)
    PROVE  Ages(events, ch)' /\ AllCarried'
  <1>1. ch \in [Channels -> ChannelState] /\ events \in SUBSET DmaEvent
    BY DEF RequestInv, TypeOK
  <1>2. Ages(events', ch')
    <2>1. \A c \in Channels : ch'[c].generation = IF c \in C THEN NextGeneration(ch[c].generation)
                                                             ELSE ch[c].generation
      OBVIOUS
    <2>2. Ages(Abandoned(events, C), ch')
      BY <1>1, <2>1, AgesAbandoned DEF RequestInv
    <2>. QED BY <2>2
  <1>3. \A c \in Channels : Carried(ch'[c], Own(events', c), Disabled(c)')
    <2>. TAKE c \in Channels
    <2>1. CASE c \in C
      <3>1. Own(events', c) = {}
        BY <1>1, <2>1, OwnAbandoned
      <3>. QED BY <2>1, <3>1
    <2>2. CASE c \notin C
      <3>1. Own(events', c) = Own(events, c)
        BY <1>1, <2>2, OwnKept
      <3>. QED BY <2>2, <3>1 DEF RequestInv, AllCarried
    <2>. QED BY <2>1, <2>2
  <1>. QED BY <1>2, <1>3 DEF AllCarried

LEMMA RequestProgram ==
    ASSUME RequestInv, EnableChannel \/ DisableChannel \/ ModuleDisable
    PROVE  Ages(events, ch)' /\ AllCarried'
  <1>0. /\ ch \in [Channels -> ChannelState]
        /\ \A c \in Channels : Carried(ch[c], Own(events, c), Disabled(c))
    BY DEF RequestInv, TypeOK, AllCarried
  <1>1. CASE EnableChannel
    <2>1. PICK c \in Channels : /\ ~Disabled(c) /\ ~ch[c].enabled
                                /\ ch' = [ch EXCEPT ![c] = Started(@)]
                                /\ events' = Abandoned(events, {c})
                                /\ pmd_disabled' = pmd_disabled
      BY <1>1 DEF EnableChannel
    <2>2. \A d \in Channels : Disabled(d)' = Disabled(d)
      BY <2>1 DEF Disabled
    <2>3. Started(ch[c]).generation = NextGeneration(ch[c].generation)
      BY <1>0 DEF Started, ChannelState
    <2>4. Carried(Started(ch[c]), {}, FALSE)
      <3>1. Carried(ch[c], Own(events, c), FALSE)
        BY <1>0, <2>1 DEF Carried
      <3>. QED BY <1>0, <2>1, <3>1, StartedCarried
    <2>5. \A d \in Channels : ch'[d] = IF d = c THEN Started(ch[c]) ELSE ch[d]
      BY <1>0, <2>1
    <2>6. Carried(Started(ch[c]), {}, Disabled(c)')
      BY <2>1, <2>2, <2>4 DEF Carried
    <2>7. \A d \in Channels :
             IF d \in {c}
             THEN /\ ch'[d].generation = NextGeneration(ch[d].generation)
                  /\ Carried(ch'[d], {}, Disabled(d)')
             ELSE ch'[d] = ch[d] /\ Disabled(d)' = Disabled(d)
      BY <2>2, <2>3, <2>5, <2>6
    <2>. QED BY <2>1, <2>7, RequestAbandoned
  <1>2. CASE DisableChannel
    <2>1. PICK c \in Channels : /\ ch' = [ch EXCEPT ![c] = [Stopped(@) EXCEPT !.enabled = FALSE]]
                                /\ events' = Abandoned(events, {c})
                                /\ pmd_disabled' = pmd_disabled
      BY <1>2 DEF DisableChannel
    <2>. DEFINE s == [Stopped(ch[c]) EXCEPT !.enabled = FALSE]
    <2>2. \A d \in Channels : Disabled(d)' = Disabled(d)
      BY <2>1 DEF Disabled
    <2>3. s.generation = NextGeneration(ch[c].generation)
      BY <1>0 DEF Stopped, ChannelState
    <2>4. Carried(s, {}, Disabled(c)')
      BY <1>0, StoppedCarried
    <2>5. \A d \in Channels : ch'[d] = IF d = c THEN s ELSE ch[d]
      BY <1>0, <2>1
    <2>. HIDE DEF s
    <2>6. \A d \in Channels :
             IF d \in {c}
             THEN /\ ch'[d].generation = NextGeneration(ch[d].generation)
                  /\ Carried(ch'[d], {}, Disabled(d)')
             ELSE ch'[d] = ch[d] /\ Disabled(d)' = Disabled(d)
      BY <2>2, <2>3, <2>4, <2>5
    <2>. QED BY <2>1, <2>6, RequestAbandoned
  <1>3. CASE ModuleDisable
    <2>1. PICK g :
             /\ pmd_disabled' = pmd_disabled \union {g}
             /\ ch' = [c \in Channels |-> IF c \in {d \in Channels : Group(d) = g}
                                          THEN Stopped(ch[c]) ELSE ch[c]]
             /\ events' = Abandoned(events, {d \in Channels : Group(d) = g})
      BY <1>3 DEF ModuleDisable
    <2>. DEFINE C == {d \in Channels : Group(d) = g}
    <2>2. \A c \in Channels : c \notin C => Disabled(c)' = Disabled(c)
      BY <2>1 DEF Disabled
    <2>3. \A c \in C : Stopped(ch[c]).generation = NextGeneration(ch[c].generation)
      BY <1>0 DEF Stopped, ChannelState
    <2>4. \A c \in C : Carried(Stopped(ch[c]), {}, Disabled(c)')
      BY <1>0, StoppedCarried
    <2>5. \A c \in Channels : ch'[c] = IF c \in C THEN Stopped(ch[c]) ELSE ch[c]
      BY <2>1
    <2>6. events' = Abandoned(events, C)
      BY <2>1
    <2>. HIDE DEF C
    <2>7. \A c \in Channels :
             IF c \in C
             THEN /\ ch'[c].generation = NextGeneration(ch[c].generation)
                  /\ Carried(ch'[c], {}, Disabled(c)')
             ELSE ch'[c] = ch[c] /\ Disabled(c)' = Disabled(c)
      BY <2>2, <2>3, <2>4, <2>5
    <2>. QED BY <2>6, <2>7, RequestAbandoned
  <1>. QED BY <1>1, <1>2, <1>3

\* Only one channel changes, and its generation does not.
LEMMA RequestOne ==
    ASSUME RequestInv, NEW c \in Channels, NEW r \in ChannelState,
           ch' = [ch EXCEPT ![c] = r], r.generation = ch[c].generation,
           pmd_disabled' = pmd_disabled,
           Ages(events', ch),
           \A d \in Channels \ {c} : Own(events', d) = Own(events, d),
           Carried(r, Own(events', c), Disabled(c))
    PROVE  Ages(events, ch)' /\ AllCarried'
  <1>1. /\ ch \in [Channels -> ChannelState] /\ events \in SUBSET DmaEvent
        /\ \A d \in Channels : Carried(ch[d], Own(events, d), Disabled(d))
    BY DEF RequestInv, TypeOK, AllCarried
  <1>2. \A d \in Channels : ch'[d] = IF d = c THEN r ELSE ch[d]
    BY <1>1
  <1>3. \A d : ch'[d].generation = ch[d].generation
    BY <1>1
  <1>4. Ages(events', ch')
    BY <1>3 DEF Ages
  <1>5. \A d \in Channels : Disabled(d)' = Disabled(d)
    BY DEF Disabled
  <1>6. \A d \in Channels : Carried(ch'[d], Own(events', d), Disabled(d)')
    BY <1>1, <1>2, <1>5
  <1>. QED BY <1>4, <1>6 DEF AllCarried

\* The events that are live are those that are not stale.
LEMMA LiveOwn ==
    ASSUME RequestInv, NEW e \in events
    PROVE  /\ e \in DmaEvent /\ e.channel \in Channels /\ ch[e.channel] \in ChannelState
           /\ Live(e) => ~e.stale
           /\ ~e.stale => Live(e) /\ e \in Own(events, e.channel)
  <1>1. e \in DmaEvent /\ e.channel \in Channels /\ ch[e.channel] \in ChannelState
    BY DEF RequestInv, TypeOK, DmaEvent
  <1>2. Live(e) => ~e.stale
    BY <1>1 DEF RequestInv, Ages, Live, DmaEvent, ChannelState
  <1>3. ~e.stale => e \in Own(events, e.channel)
    BY DEF Own
  <1>4. ~e.stale => ~Disabled(e.channel)
    BY <1>1, <1>3 DEF RequestInv, AllCarried, Carried
  <1>5. ~e.stale => e.generation = ch[e.channel].generation
    BY <1>1 DEF RequestInv, Ages
  <1>. QED BY <1>1, <1>2, <1>3, <1>4, <1>5 DEF Live

LEMMA RequestForced ==
    ASSUME RequestInv, ForceRequest
    PROVE  Ages(events, ch)' /\ AllCarried'
  <1>0. /\ ch \in [Channels -> ChannelState] /\ events \in SUBSET DmaEvent
        /\ TypeOK /\ Ages(events, ch)
        /\ \A c \in Channels : Carried(ch[c], Own(events, c), Disabled(c))
    BY DEF RequestInv, TypeOK, AllCarried
  <1>1. PICK c \in Channels :
           /\ ~Disabled(c) /\ ch[c].enabled /\ ~ch[c].force
           /\ \/ ch' = [ch EXCEPT ![c].rqc = TRUE] /\ UNCHANGED events
              \/ /\ ch' = [ch EXCEPT ![c] = [Scheduled(@, TRUE) EXCEPT !.force = TRUE]]
                 /\ events' = events \union (IF ch[c].forced_pending THEN {}
                                             ELSE {NewEvent(c, FALSE, TRUE, 1)})
           /\ pmd_disabled' = pmd_disabled
    BY DEF ForceRequest
  <1>. DEFINE r == ch[c]
              n == NewEvent(c, FALSE, TRUE, 1)
  <1>2. CASE ch' = [ch EXCEPT ![c].rqc = TRUE] /\ UNCHANGED events
    <2>. DEFINE s == [r EXCEPT !.rqc = TRUE]
    <2>1. r \in ChannelState /\ Carried(r, Own(events, c), Disabled(c))
      BY <1>0
    <2>2. /\ s \in ChannelState
          /\ s.enabled = r.enabled /\ s.peripheral_pending = r.peripheral_pending
          /\ s.forced_pending = r.forced_pending /\ s.active = r.active /\ s.force = r.force
          /\ s.arbiter_waiting = r.arbiter_waiting
          /\ s.generation = r.generation
      BY <1>0 DEF ChannelState
    <2>3. ch' = [ch EXCEPT ![c] = s]
      BY <1>2
    <2>. HIDE DEF s
    <2>4. Carried(s, Own(events, c), Disabled(c))
      <3>. HIDE DEF r
      <3>. QED BY <2>1, <2>2, CarriedAlike
    <2>. QED BY <1>0, <1>1, <1>2, <2>2, <2>3, <2>4, RequestOne
  <1>3. CASE /\ ch' = [ch EXCEPT ![c] = [Scheduled(@, TRUE) EXCEPT !.force = TRUE]]
             /\ events' = events \union (IF ch[c].forced_pending THEN {}
                                         ELSE {NewEvent(c, FALSE, TRUE, 1)})
    <2>. DEFINE s == [Scheduled(r, TRUE) EXCEPT !.force = TRUE]
                F == Own(events, c)
    <2>1. /\ r \in ChannelState /\ Carried(r, F, FALSE) /\ ~r.forced_pending
      BY <1>0, <1>1 DEF Carried
    <2>2. /\ s \in ChannelState
          /\ s.enabled = r.enabled /\ s.peripheral_pending = r.peripheral_pending
          /\ s.forced_pending /\ s.force /\ s.active = r.active
          /\ s.arbiter_waiting = r.arbiter_waiting
          /\ s.generation = r.generation
      BY <1>0 DEF ChannelState, Scheduled
    <2>3. ch' = [ch EXCEPT ![c] = s] /\ events' = events \union {n}
      BY <1>3, <2>1
    <2>4. /\ n \in DmaEvent /\ n.channel = c /\ ~n.completion /\ n.forced /\ ~n.stale
          /\ n.generation = r.generation
      <3>1. n \in DmaEvent
        BY <1>0, NewEventType
      <3>. QED BY <3>1 DEF NewEvent
    <2>5. F \in SUBSET DmaEvent /\ r.enabled
      BY <1>0, <1>1 DEF Own
    <2>. HIDE DEF s, n
    <2>6. Own(events', c) = F \union {n}
      BY <2>3, <2>4, OwnAdded
    <2>7. \A d \in Channels \ {c} : Own(events', d) = Own(events, d)
      BY <2>3, <2>4, OwnAdded
    <2>8. Ages(events', ch)
      BY <1>0, <2>3, <2>4 DEF Ages
    <2>9. Carried(s, F \union {n}, FALSE)
      <3>. HIDE DEF r, F
      <3>. QED BY <2>1, <2>2, <2>4, <2>5, AddedCarried
    <2>10. Carried(s, Own(events', c), Disabled(c))
      BY <1>1, <2>6, <2>9 DEF Carried
    <2>. QED BY <1>1, <2>2, <2>3, <2>7, <2>8, <2>10, RequestOne
  <1>. QED BY <1>1, <1>2, <1>3

LEMMA RequestIgnored ==
    ASSUME RequestInv, NEW e \in events, Ignore(e)
    PROVE  Ages(events, ch)' /\ AllCarried'
  <1>1. /\ ~Live(e) /\ events' = events \ {e} /\ ch' = ch /\ pmd_disabled' = pmd_disabled
    BY DEF Ignore
  <1>2. \A c : Own(events', c) = Own(events, c)
    BY <1>1, LiveOwn DEF Own
  <1>3. Ages(events', ch')
    BY <1>1 DEF RequestInv, Ages
  <1>4. AllCarried'
    BY <1>1, <1>2 DEF RequestInv, AllCarried, Disabled
  <1>. QED BY <1>3, <1>4

\* A request that has to wait keeps its event.
LEMMA RequestDelayed ==
    ASSUME RequestInv, NEW e \in events, Requests(e), events' = Later(e),
           pmd_disabled' = pmd_disabled,
           NEW s \in ChannelState, ch' = [ch EXCEPT ![e.channel] = s],
           s = ch[e.channel] \/ s = [ch[e.channel] EXCEPT !.arbiter_waiting = TRUE]
    PROVE  Ages(events, ch)' /\ AllCarried'
  <1>. DEFINE c == e.channel
              r == ch[c]
              F == Own(events, c)
              n == [e EXCEPT !.left = 1]
  <1>1. /\ c \in Channels /\ r \in ChannelState /\ e \in F /\ ~e.stale /\ ~Disabled(c)
        /\ F \in SUBSET DmaEvent
    BY LiveOwn DEF Requests, Live, RequestInv, TypeOK, Own
  <1>2. Carried(r, F, Disabled(c))
    BY <1>1 DEF RequestInv, AllCarried
  <1>3. /\ n \in DmaEvent /\ n.channel = c /\ ~n.stale /\ n.generation = e.generation
        /\ Like(n, e)
    BY <1>1 DEF DmaEvent, Like
  <1>4. events' = (events \ {e}) \union {n}
    BY DEF Later
  <1>. HIDE DEF n
  <1>5. Own(events', c) = (F \ {e}) \union {n}
    BY <1>1, <1>3, <1>4 DEF Own
  <1>6. \A d \in Channels \ {c} : Own(events', d) = Own(events, d)
    BY <1>1, <1>3, <1>4 DEF Own
  <1>7. Ages(events', ch)
    BY <1>1, <1>3, <1>4 DEF Ages, RequestInv
  <1>8. Carried(r, (F \ {e}) \union {n}, Disabled(c))
    BY <1>1, <1>2, <1>3, LaterCarried
  <1>9. /\ s.enabled = r.enabled /\ s.peripheral_pending = r.peripheral_pending
        /\ s.forced_pending = r.forced_pending /\ s.active = r.active /\ s.force = r.force
        /\ s.generation = r.generation
    BY <1>1 DEF ChannelState
  <1>10. r.enabled
    BY <1>1, <1>2 DEF Carried
  <1>11. Carried(s, (F \ {e}) \union {n}, Disabled(c))
    BY <1>1, <1>8, <1>9, <1>10 DEF Carried
  <1>. QED BY <1>1, <1>5, <1>6, <1>7, <1>9, <1>11, RequestOne

\* A request that is refused, or cannot wait, or has no memory to work on.
LEMMA RequestDropped ==
    ASSUME RequestInv, NEW e \in events, Requests(e), events' = events \ {e},
           pmd_disabled' = pmd_disabled,
           NEW s \in ChannelState, ch' = [ch EXCEPT ![e.channel] = s],
           LET w == Withdrawn(ch[e.channel], e.forced)
           IN  /\ s.enabled = w.enabled /\ s.peripheral_pending = w.peripheral_pending
               /\ s.forced_pending = w.forced_pending /\ s.active = w.active
               /\ s.force = w.force /\ s.arbiter_waiting = w.arbiter_waiting
               /\ s.generation = w.generation
    PROVE  Ages(events, ch)' /\ AllCarried'
  <1>. DEFINE c == e.channel
              r == ch[c]
              F == Own(events, c)
              w == Withdrawn(r, e.forced)
  <1>1. /\ c \in Channels /\ r \in ChannelState /\ e \in F /\ ~e.completion
        /\ e.forced \in BOOLEAN /\ F \in SUBSET DmaEvent
    BY LiveOwn DEF Requests, RequestInv, TypeOK, Own, DmaEvent
  <1>2. Carried(r, F, Disabled(c))
    BY <1>1 DEF RequestInv, AllCarried
  <1>3. w \in ChannelState
    BY <1>1, RequestState
  <1>4. w.generation = r.generation
    BY <1>1 DEF Withdrawn, RequestCleared, ForcedCleared, ChannelState
  <1>5. Carried(w, F \ {e}, Disabled(c))
    BY <1>1, <1>2, WithdrawnCarried
  <1>6. Own(events', c) = F \ {e} /\ \A d \in Channels \ {c} : Own(events', d) = Own(events, d)
    BY OwnRemoved
  <1>7. Ages(events', ch)
    BY DEF Ages, RequestInv
  <1>8. /\ s.enabled = w.enabled /\ s.peripheral_pending = w.peripheral_pending
        /\ s.forced_pending = w.forced_pending /\ s.active = w.active
        /\ s.force = w.force /\ s.arbiter_waiting = w.arbiter_waiting
        /\ s.generation = r.generation
    BY <1>4
  <1>. HIDE DEF w
  <1>9. Carried(s, F \ {e}, Disabled(c))
    BY <1>3, <1>5, <1>8, CarriedAlike
  <1>. QED BY <1>1, <1>6, <1>7, <1>8, <1>9, RequestOne

LEMMA GrantedFields ==
    ASSUME NEW r \in ChannelState, NEW forced \in BOOLEAN, NEW collision \in BOOLEAN
    PROVE  LET g == Granted(r, forced)
               t == [g EXCEPT !.pwc = collision]
               w == Withdrawn(r, forced)
           IN  /\ RequestCleared(g, forced) = w
               /\ RequestCleared(t, forced) = [w EXCEPT !.pwc = collision]
               /\ t = [r EXCEPT !.arbiter_waiting = FALSE, !.pwc = collision,
                                !.peripheral_pending = forced /\ r.peripheral_pending]
  BY DEF Granted, Withdrawn, RequestCleared, ForcedCleared, ChannelState

LEMMA GrantedCollides ==
    ASSUME NEW r \in ChannelState, NEW forced \in BOOLEAN, NEW collision \in BOOLEAN
    PROVE  [Granted(r, forced) EXCEPT !.pwc = collision]
             = [r EXCEPT !.arbiter_waiting = FALSE, !.pwc = collision,
                         !.peripheral_pending = forced /\ r.peripheral_pending]
  BY DEF Granted, ChannelState

LEMMA GrantedCleared ==
    ASSUME NEW r \in ChannelState, NEW forced \in BOOLEAN, NEW collision \in BOOLEAN
    PROVE  RequestCleared([Granted(r, forced) EXCEPT !.pwc = collision], forced)
             = [Withdrawn(r, forced) EXCEPT !.pwc = collision]
  BY DEF Granted, Withdrawn, RequestCleared, ForcedCleared, ChannelState

LEMMA WaitingState ==
    ASSUME NEW r \in ChannelState
    PROVE  [r EXCEPT !.arbiter_waiting = TRUE] \in ChannelState
  BY DEF ChannelState

LEMMA RequestWait ==
    ASSUME RequestInv, NEW e \in events,
           TryLater(e) \/ Refuse(e) \/ WaitForBus(e) \/ AddressTrap(e)
    PROVE  Ages(events, ch)' /\ AllCarried'
  <1>. DEFINE c == e.channel
              r == ch[c]
              waiting == [r EXCEPT !.arbiter_waiting = TRUE]
              w == Withdrawn(r, e.forced)
  <1>1. /\ c \in Channels /\ r \in ChannelState /\ e.forced \in BOOLEAN
        /\ ch \in [Channels -> ChannelState]
    BY LiveOwn DEF RequestInv, TypeOK, DmaEvent
  <1>2. w \in ChannelState /\ waiting \in ChannelState
    BY <1>1, RequestState, WaitingState
  <1>3. Requests(e) /\ pmd_disabled' = pmd_disabled
    BY DEF TryLater, Refuse, WaitForBus, AddressTrap, Grantable
  <1>4. RequestCleared(Granted(r, e.forced), e.forced) = w
    BY <1>1, GrantedFields
  <1>5. \/ events' = Later(e) /\ (ch' = ch \/ ch' = [ch EXCEPT ![c] = waiting])
        \/ events' = events \ {e} /\ ch' = [ch EXCEPT ![c] = w]
    BY <1>4 DEF TryLater, Refuse, WaitForBus, AddressTrap
  <1>6. CASE events' = Later(e) /\ ch' = ch
    <2>1. ch' = [ch EXCEPT ![c] = r]
      BY <1>1, <1>6
    <2>. QED BY <1>1, <1>3, <1>6, <2>1, RequestDelayed
  <1>7. CASE events' = Later(e) /\ ch' = [ch EXCEPT ![c] = waiting]
    BY <1>2, <1>3, <1>7, RequestDelayed
  <1>8. CASE events' = events \ {e} /\ ch' = [ch EXCEPT ![c] = w]
    BY <1>2, <1>3, <1>8, RequestDropped
  <1>. QED BY <1>5, <1>6, <1>7, <1>8

LEMMA RequestTransfer ==
    ASSUME RequestInv, NEW e \in events, Transfer(e)
    PROVE  Ages(events, ch)' /\ AllCarried'
  <1>. DEFINE c == e.channel
              r == ch[c]
              F == Own(events, c)
              n == NewEvent(c, TRUE, e.forced, 1)
  <1>1. /\ Requests(e) /\ ~r.active /\ pmd_disabled' = pmd_disabled
        /\ c \in Channels /\ r \in ChannelState /\ e.forced \in BOOLEAN /\ TypeOK
        /\ e \in F /\ ~e.stale /\ ~e.completion /\ F \in SUBSET DmaEvent
        /\ Carried(r, F, Disabled(c))
    <2>1. Requests(e) /\ ~SomeActive /\ pmd_disabled' = pmd_disabled
      BY DEF Transfer, Grantable
    <2>2. /\ c \in Channels /\ r \in ChannelState /\ e \in F /\ ~e.stale /\ e \in DmaEvent
      BY <2>1, LiveOwn DEF Requests
    <2>3. ~r.active
      BY <2>1, <2>2 DEF SomeActive
    <2>4. TypeOK /\ F \in SUBSET DmaEvent
      BY DEF RequestInv, TypeOK, Own
    <2>5. Carried(r, F, Disabled(c))
      BY <2>2 DEF RequestInv, AllCarried
    <2>. QED BY <2>1, <2>2, <2>3, <2>4, <2>5 DEF Requests, DmaEvent
  <1>2. PICK collision \in BOOLEAN :
           LET granted == [Granted(ch[e.channel], e.forced) EXCEPT !.pwc = collision]
           IN  \/ /\ ch' = [ch EXCEPT ![e.channel] = [granted EXCEPT !.active = TRUE]]
                  /\ events' = (events \ {e}) \union {NewEvent(e.channel, TRUE, e.forced, 1)}
               \/ /\ ch' = [ch EXCEPT ![e.channel] = RequestCleared(granted, e.forced)]
                  /\ events' = events \ {e}
    BY DEF Transfer
  <1>. DEFINE t == [Granted(r, e.forced) EXCEPT !.pwc = collision]
              w == Withdrawn(r, e.forced)
  <1>3. /\ t = [r EXCEPT !.arbiter_waiting = FALSE, !.pwc = collision,
                         !.peripheral_pending = e.forced /\ r.peripheral_pending]
        /\ RequestCleared(t, e.forced) = [w EXCEPT !.pwc = collision]
    <2>0. r \in ChannelState /\ e.forced \in BOOLEAN
      BY <1>1
    <2>. HIDE DEF r
    <2>1. t = [r EXCEPT !.arbiter_waiting = FALSE, !.pwc = collision,
                        !.peripheral_pending = e.forced /\ r.peripheral_pending]
      BY <2>0, GrantedCollides, Zenon
    <2>2. RequestCleared(t, e.forced) = [w EXCEPT !.pwc = collision]
      BY <2>0, GrantedCleared, Zenon
    <2>. QED BY <2>1, <2>2
  <1>4. CASE ch' = [ch EXCEPT ![c] = [t EXCEPT !.active = TRUE]]
             /\ events' = (events \ {e}) \union {n}
    <2>. DEFINE s == [t EXCEPT !.active = TRUE]
    <2>1. /\ s \in ChannelState
          /\ s.enabled = r.enabled /\ s.active /\ ~s.arbiter_waiting
          /\ s.peripheral_pending = (e.forced /\ r.peripheral_pending)
          /\ s.forced_pending = r.forced_pending /\ s.force = r.force
          /\ s.generation = r.generation
      <3>. DEFINE pending == e.forced /\ r.peripheral_pending
      <3>1. pending \in BOOLEAN
        BY Zenon
      <3>2. t = [r EXCEPT !.arbiter_waiting = FALSE, !.pwc = collision,
                          !.peripheral_pending = pending]
        BY <1>3
      <3>. HIDE DEF pending, r, t
      <3>3. s = [r EXCEPT !.arbiter_waiting = FALSE, !.pwc = collision,
                          !.peripheral_pending = pending, !.active = TRUE]
        BY <1>1, <3>2 DEF ChannelState
      <3>4. /\ s \in ChannelState
            /\ s.enabled = r.enabled /\ s.active /\ ~s.arbiter_waiting
            /\ s.peripheral_pending = pending
            /\ s.forced_pending = r.forced_pending /\ s.force = r.force
            /\ s.generation = r.generation
        BY <1>1, <3>1, <3>3 DEF ChannelState
      <3>. QED BY <3>4 DEF pending
    <2>2. /\ n \in DmaEvent /\ n.channel = c /\ n.completion /\ n.forced = e.forced
          /\ ~n.stale /\ n.generation = r.generation
      <3>1. n \in DmaEvent
        BY <1>1, NewEventType
      <3>. QED BY <3>1 DEF NewEvent
    <2>3. ch' = [ch EXCEPT ![c] = s]
      BY <1>4
    <2>. HIDE DEF n, s, t
    <2>4. Own(events', c) = (F \ {e}) \union {n}
      BY <1>1, <1>4, <2>2 DEF Own
    <2>5. \A d \in Channels \ {c} : Own(events', d) = Own(events, d)
      BY <1>1, <1>4, <2>2 DEF Own
    <2>6. Ages(events', ch)
      BY <1>4, <2>2 DEF Ages, RequestInv
    <2>7. Carried(s, (F \ {e}) \union {n}, Disabled(c))
      <3>. HIDE DEF F, r
      <3>. QED BY <1>1, <2>1, <2>2, TransferCarried
    <2>. QED BY <1>1, <2>1, <2>3, <2>4, <2>5, <2>6, <2>7, RequestOne
  <1>5. CASE ch' = [ch EXCEPT ![c] = RequestCleared(t, e.forced)] /\ events' = events \ {e}
    <2>. DEFINE s == [w EXCEPT !.pwc = collision]
    <2>1. w \in ChannelState
      BY <1>1, RequestState
    <2>2. ch' = [ch EXCEPT ![c] = s]
      BY <1>3, <1>5
    <2>3. /\ s \in ChannelState
          /\ s.enabled = w.enabled /\ s.peripheral_pending = w.peripheral_pending
          /\ s.forced_pending = w.forced_pending /\ s.active = w.active
          /\ s.force = w.force /\ s.arbiter_waiting = w.arbiter_waiting
          /\ s.generation = w.generation
      <3>. HIDE DEF w
      <3>. QED BY <2>1 DEF ChannelState
    <2>. HIDE DEF s
    <2>. QED BY <1>1, <1>5, <2>2, <2>3, RequestDropped
  <1>. QED BY <1>2, <1>4, <1>5

\* What the end of a transfer leaves of the state of its channel.
LEMMA CompletedFields ==
    ASSUME TypeOK, NEW c \in Channels
    PROVE  LET r == ch[c]
               s == Completed(c)
           IN  IF Stops(c)
               THEN /\ ~s.enabled /\ ~s.peripheral_pending /\ ~s.forced_pending
                    /\ ~s.active /\ ~s.force /\ ~s.arbiter_waiting
                    /\ s.generation = NextGeneration(r.generation)
               ELSE /\ s.enabled = r.enabled /\ s.peripheral_pending = r.peripheral_pending
                    /\ s.forced_pending = r.forced_pending /\ s.active = r.active
                    /\ s.force = r.force /\ s.arbiter_waiting = r.arbiter_waiting
                    /\ s.generation = r.generation
  <1>. DEFINE r == ch[c]
              k == Counted(c)
  <1>1. k \in ChannelState /\ r \in ChannelState
    BY CompletedState DEF TypeOK
  <1>2. /\ k.enabled = r.enabled /\ k.peripheral_pending = r.peripheral_pending
        /\ k.forced_pending = r.forced_pending /\ k.active = r.active
        /\ k.force = r.force /\ k.arbiter_waiting = r.arbiter_waiting
        /\ k.generation = r.generation
    BY <1>1 DEF Counted, ChannelState
  <1>. HIDE DEF k
  <1>3. Completed(c) = IF Stops(c) THEN [Stopped(k) EXCEPT !.enabled = FALSE] ELSE k
    BY DEF Completed, k
  <1>4. CASE Stops(c)
    <2>. DEFINE s == [Stopped(k) EXCEPT !.enabled = FALSE]
    <2>1. /\ ~s.enabled /\ ~s.peripheral_pending /\ ~s.forced_pending
          /\ ~s.active /\ ~s.force /\ ~s.arbiter_waiting
          /\ s.generation = NextGeneration(k.generation)
      BY <1>1 DEF Stopped, ChannelState
    <2>2. Completed(c) = s
      BY <1>3, <1>4
    <2>. HIDE DEF s
    <2>. QED BY <1>2, <1>4, <2>1, <2>2
  <1>5. CASE ~Stops(c)
    BY <1>2, <1>3, <1>5
  <1>. QED BY <1>4, <1>5

LEMMA RequestComplete ==
    ASSUME RequestInv, NEW e \in events, Complete(e)
    PROVE  Ages(events, ch)' /\ AllCarried'
  <1>. DEFINE c == e.channel
              r == ch[c]
              F == Own(events, c)
              k == Completed(c)
              done == [k EXCEPT !.active = FALSE]
              s == IF e.forced THEN ForcedCleared(done) ELSE done
  <1>1. /\ pmd_disabled' = pmd_disabled /\ TypeOK
        /\ c \in Channels /\ r \in ChannelState /\ e.forced \in BOOLEAN
        /\ e \in F /\ ~e.stale /\ e.completion /\ F \in SUBSET DmaEvent
        /\ Carried(r, F, Disabled(c))
    <2>1. pmd_disabled' = pmd_disabled /\ Live(e) /\ e.completion
      BY DEF Complete
    <2>2. /\ c \in Channels /\ r \in ChannelState /\ e \in F /\ ~e.stale /\ e \in DmaEvent
      BY <2>1, LiveOwn
    <2>3. TypeOK /\ F \in SUBSET DmaEvent
      BY DEF RequestInv, TypeOK, Own
    <2>4. Carried(r, F, Disabled(c))
      BY <2>2 DEF RequestInv, AllCarried
    <2>. QED BY <2>1, <2>2, <2>3, <2>4 DEF DmaEvent
  <1>2. r.active
    BY <1>1 DEF Carried
  <1>3. /\ ch' = [ch EXCEPT ![c] = s]
        /\ events' = Abandoned(events \ {e}, IF Stops(c) THEN {c} ELSE {})
    BY <1>2 DEF Complete
  <1>4. k \in ChannelState
    BY <1>1, CompletedState
  <1>5. /\ s \in ChannelState
        /\ s.enabled = k.enabled /\ s.peripheral_pending = k.peripheral_pending
        /\ s.forced_pending = (~e.forced /\ k.forced_pending) /\ ~s.active
        /\ s.force = (~e.forced /\ k.force) /\ s.arbiter_waiting = k.arbiter_waiting
        /\ s.generation = k.generation
    <2>. HIDE DEF k
    <2>1. /\ done \in ChannelState
          /\ done.enabled = k.enabled /\ done.peripheral_pending = k.peripheral_pending
          /\ done.forced_pending = k.forced_pending /\ ~done.active
          /\ done.force = k.force /\ done.arbiter_waiting = k.arbiter_waiting
          /\ done.generation = k.generation
      BY <1>4 DEF ChannelState
    <2>. HIDE DEF done
    <2>2. CASE e.forced
      <3>. DEFINE f == ForcedCleared(done)
      <3>1. /\ f \in ChannelState
            /\ f.enabled = done.enabled /\ f.peripheral_pending = done.peripheral_pending
            /\ ~f.forced_pending /\ f.active = done.active /\ ~f.force
            /\ f.arbiter_waiting = done.arbiter_waiting /\ f.generation = done.generation
        BY <2>1 DEF ForcedCleared, ChannelState
      <3>2. s = f
        BY <2>2
      <3>3. f.forced_pending = FALSE /\ f.force = FALSE
        BY <2>1 DEF ForcedCleared, ChannelState
      <3>. HIDE DEF f, s
      <3>. QED BY <2>1, <2>2, <3>1, <3>2, <3>3
    <2>3. CASE ~e.forced
      <3>1. s = done
        BY <2>3
      <3>2. done.forced_pending \in BOOLEAN /\ done.force \in BOOLEAN
        BY <2>1 DEF ChannelState
      <3>. HIDE DEF s
      <3>. QED BY <2>1, <2>3, <3>1, <3>2
    <2>. QED BY <2>2, <2>3
  <1>. HIDE DEF s, done
  <1>6. ch \in [Channels -> ChannelState] /\ events \in SUBSET DmaEvent /\ Ages(events, ch)
    BY DEF RequestInv, TypeOK
  <1>7. Ages(events \ {e}, ch)
    BY <1>6 DEF Ages
  <1>8. CASE ~Stops(c)
    <2>1. /\ k.enabled = r.enabled /\ k.peripheral_pending = r.peripheral_pending
          /\ k.forced_pending = r.forced_pending /\ k.force = r.force
          /\ k.arbiter_waiting = r.arbiter_waiting /\ k.generation = r.generation
      BY <1>1, <1>8, CompletedFields
    <2>2. events' = events \ {e}
      BY <1>3, <1>8 DEF Abandoned, Purged
    <2>3. Own(events', c) = F \ {e} /\ \A d \in Channels \ {c} : Own(events', d) = Own(events, d)
      BY <2>2, OwnRemoved
    <2>. HIDE DEF k
    <2>4. Carried(s, F \ {e}, Disabled(c))
      <3>. HIDE DEF F, r
      <3>. QED BY <1>1, <1>5, <2>1, EndedCarried
    <2>. QED BY <1>1, <1>3, <1>5, <1>7, <2>1, <2>2, <2>3, <2>4, RequestOne
  <1>9. CASE Stops(c)
    <2>1. /\ ~k.peripheral_pending /\ ~k.forced_pending /\ ~k.force /\ ~k.arbiter_waiting
          /\ k.generation = NextGeneration(r.generation)
      BY <1>1, <1>9, CompletedFields
    <2>2. events' = Abandoned(events \ {e}, {c})
      BY <1>3, <1>9
    <2>3. \A d \in Channels : ch'[d] = IF d = c THEN s ELSE ch[d]
      BY <1>1, <1>3, <1>6
    <2>4. Ages(events', ch')
      <3>1. \A d \in Channels : ch'[d].generation = IF d \in {c}
                                                    THEN NextGeneration(ch[d].generation)
                                                    ELSE ch[d].generation
        BY <1>5, <2>1, <2>3
      <3>2. events \ {e} \in SUBSET DmaEvent
        BY <1>6
      <3>3. Ages(Abandoned(events \ {e}, {c}), ch')
        BY <1>6, <1>7, <3>1, <3>2, AgesAbandoned
      <3>. QED BY <2>2, <3>3
    <2>5. \A d \in Channels : Disabled(d)' = Disabled(d)
      BY <1>1 DEF Disabled
    <2>6. \A d \in Channels : Carried(ch'[d], Own(events', d), Disabled(d)')
      <3>. TAKE d \in Channels
      <3>0. events \ {e} \in SUBSET DmaEvent
        BY <1>6
      <3>1. CASE d = c
        <4>1. Own(events', d) = {}
          BY <2>2, <3>0, <3>1, OwnAbandoned
        <4>2. Carried(s, {}, Disabled(d)')
          BY <1>5, <2>1, CarriedNone
        <4>. QED BY <2>3, <3>1, <4>1, <4>2
      <3>2. CASE d # c
        <4>1. Own(Abandoned(events \ {e}, {c}), d) = Own(events \ {e}, d)
          BY <3>0, <3>2, OwnKept
        <4>2. Own(events \ {e}, d) = Own(events, d)
          BY <3>2, OwnRemoved
        <4>3. Own(events', d) = Own(events, d)
          BY <2>2, <4>1, <4>2
        <4>. QED BY <2>3, <2>5, <3>2, <4>3 DEF RequestInv, AllCarried
      <3>. QED BY <3>1, <3>2
    <2>. QED BY <2>4, <2>6 DEF AllCarried
  <1>. QED BY <1>8, <1>9

\* A request of a peripheral, for all the channels that listen to it.
LEMMA RequestRequested ==
    ASSUME RequestInv, dspic33_dma_request
    PROVE  Ages(events, ch)' /\ AllCarried'
  <1>1. PICK s \in {RequestSource[d] : d \in Channels}, delay \in RequestDelays :
          \E accepted \in [Listening(s) -> Answers] :
           /\ ch' = [c \in Channels |-> IF c \in Listening(s)
                                        THEN Requested(ch[c], accepted[c]) ELSE ch[c]]
           /\ events' = Abandoned(events, {c \in Listening(s) : Overtaken(ch[c])}) \union
                           {RequestEvent(c, delay) : c \in {d \in Listening(s) : accepted[d]}}
           /\ UNCHANGED <<pmd_disabled, asleep, moved, raised>>
    BY DEF dspic33_dma_request
  <1>2. PICK accepted \in [Listening(s) -> Answers] :
           /\ ch' = [c \in Channels |-> IF c \in Listening(s)
                                        THEN Requested(ch[c], accepted[c]) ELSE ch[c]]
           /\ events' = Abandoned(events, {c \in Listening(s) : Overtaken(ch[c])}) \union
                           {RequestEvent(c, delay) : c \in {d \in Listening(s) : accepted[d]}}
           /\ UNCHANGED <<pmd_disabled, asleep, moved, raised>>
    BY <1>1
  <1>. DEFINE L == Listening(s)
              O == {c \in L : Overtaken(ch[c])}
              A == {c \in L : accepted[c]}
              N == {RequestEvent(c, delay) : c \in A}
  <1>3. /\ ch \in [Channels -> ChannelState] /\ events \in SUBSET DmaEvent /\ TypeOK
        /\ Ages(events, ch) /\ L \subseteq Channels
        /\ \A c \in L : accepted[c] \in BOOLEAN
        /\ \A c \in L : ~Disabled(c) /\ ch[c].enabled /\ ~ch[c].peripheral_pending
        /\ \A c \in Channels : Carried(ch[c], Own(events, c), Disabled(c))
    BY DmaAssumption DEF RequestInv, TypeOK, AllCarried, Listening
  <1>4. \A c \in Channels :
           ch'[c] = IF c \in L THEN Requested(ch[c], accepted[c]) ELSE ch[c]
    BY <1>2
  <1>5. \A c \in L : \A b \in BOOLEAN :
           Requested(ch[c], b).generation = IF Overtaken(ch[c])
                                            THEN NextGeneration(ch[c].generation)
                                            ELSE ch[c].generation
    <2>. TAKE c \in L
    <2>1. Requested(ch[c], FALSE).generation = IF Overtaken(ch[c])
                                               THEN NextGeneration(ch[c].generation)
                                               ELSE ch[c].generation
      BY <1>3, RequestedFields
    <2>2. /\ Requested(ch[c], TRUE) = Scheduled(Requested(ch[c], FALSE), FALSE)
          /\ Requested(ch[c], FALSE) \in ChannelState
      BY <1>3, RequestedFields
    <2>3. Requested(ch[c], TRUE).generation = Requested(ch[c], FALSE).generation
      BY <2>2, ScheduledFields
    <2>. QED BY <2>1, <2>3
  <1>6. \A c \in L : LET n == RequestEvent(c, delay)
                     IN  /\ n \in DmaEvent /\ n.channel = c /\ ~n.completion /\ ~n.forced
                         /\ ~n.stale /\ n.generation = Requested(ch[c], TRUE).generation
    <2>. TAKE c \in L
    <2>. DEFINE m == NewEvent(c, FALSE, FALSE, delay)
    <2>1. m \in DmaEvent /\ m.channel = c /\ ~m.completion /\ ~m.forced /\ ~m.stale
      <3>1. m \in DmaEvent
        BY <1>3, NewEventType, DmaAssumption
      <3>. QED BY <3>1 DEF NewEvent
    <2>2. Requested(ch[c], TRUE).generation \in 0 .. GenerationMask
      BY <1>3, RequestedState DEF ChannelState
    <2>3. RequestEvent(c, delay) = [m EXCEPT !.generation = Requested(ch[c], TRUE).generation]
      BY DEF RequestEvent
    <2>. HIDE DEF m
    <2>. QED BY <2>1, <2>2, <2>3 DEF DmaEvent
  <1>7. events' = Abandoned(events, O) \union N
    BY <1>2
  <1>8. \A c \in Channels : ch'[c].generation = IF c \in O THEN NextGeneration(ch[c].generation)
                                                          ELSE ch[c].generation
    BY <1>3, <1>4, <1>5
  <1>9. Ages(events', ch')
    <2>1. Ages(Abandoned(events, O), ch')
      <3>. HIDE DEF O
      <3>. QED BY <1>3, <1>8, AgesAbandoned
    <2>2. \A n \in N : ~n.stale /\ n.generation = ch'[n.channel].generation
      <3>1. \A c \in A : /\ ~RequestEvent(c, delay).stale /\ RequestEvent(c, delay).channel = c
                         /\ RequestEvent(c, delay).generation = ch'[c].generation
        BY <1>3, <1>5, <1>6, <1>8
      <3>. QED BY <3>1
    <2>. QED BY <1>7, <2>1, <2>2 DEF Ages
  <1>10. \A c \in Channels : Carried(ch'[c], Own(events', c), Disabled(c)')
    <2>. TAKE c \in Channels
    <2>. DEFINE F == Own(events, c)
                G == IF c \in O THEN {} ELSE F
    <2>1. Own(events', c) = Own(Abandoned(events, O), c) \union Own(N, c)
      BY <1>7 DEF Own
    <2>2. Own(Abandoned(events, O), c) = G
      <3>1. CASE c \in O
        BY <1>3, <3>1, OwnAbandoned
      <3>2. CASE c \notin O
        BY <1>3, <3>2, OwnKept
      <3>. QED BY <3>1, <3>2
    <2>3. Own(N, c) = IF c \in A THEN {RequestEvent(c, delay)} ELSE {}
      <3>1. \A d \in A : RequestEvent(d, delay).channel = d /\ ~RequestEvent(d, delay).stale
        BY <1>6
      <3>. HIDE DEF A
      <3>. QED BY <3>1 DEF Own
    <2>4. Disabled(c)' = Disabled(c)
      BY <1>2 DEF Disabled
    <2>5. CASE c \notin L
      BY <1>3, <1>4, <2>1, <2>2, <2>3, <2>4, <2>5
    <2>6. CASE c \in L
      <3>. DEFINE n == RequestEvent(c, delay)
                  H == IF Overtaken(ch[c]) THEN {} ELSE F
      <3>1. /\ Carried(Requested(ch[c], FALSE), H, FALSE)
            /\ Carried(Requested(ch[c], TRUE), H \union {n}, FALSE)
        <4>1. Carried(ch[c], F, FALSE)
          BY <1>3, <2>6 DEF Carried
        <4>2. F \in SUBSET DmaEvent /\ n \in DmaEvent /\ ~n.completion /\ ~n.forced
          BY <1>3, <1>6, <2>6 DEF Own
        <4>. HIDE DEF F, n
        <4>. QED BY <1>3, <2>6, <4>1, <4>2, RequestedCarried
      <3>2. H = G
        BY <2>6
      <3>. HIDE DEF H, G, F, n
      <3>3. CASE accepted[c]
        <4>1. Own(events', c) = G \union {RequestEvent(c, delay)}
          BY <2>1, <2>2, <2>3, <2>6, <3>3
        <4>2. ch'[c] = Requested(ch[c], TRUE)
          BY <1>3, <1>4, <2>6, <3>3
        <4>3. Carried(ch'[c], Own(events', c), FALSE)
          BY <3>1, <3>2, <4>1, <4>2 DEF n
        <4>. QED BY <1>3, <2>4, <2>6, <4>3 DEF Carried
      <3>4. CASE ~accepted[c]
        <4>1. Own(events', c) = G
          BY <2>1, <2>2, <2>3, <2>6, <3>4
        <4>2. ch'[c] = Requested(ch[c], FALSE)
          BY <1>3, <1>4, <2>6, <3>4
        <4>3. Carried(ch'[c], Own(events', c), FALSE)
          BY <3>1, <3>2, <4>1, <4>2
        <4>. QED BY <1>3, <2>4, <2>6, <4>3 DEF Carried
      <3>. QED BY <3>3, <3>4
    <2>. QED BY <2>5, <2>6
  <1>. QED BY <1>9, <1>10 DEF AllCarried

LEMMA RequestQuiet ==
    ASSUME RequestInv, Tick \/ ModuleEnable \/ ClearCollisions \/ Sleep \/ Wake \/ WarmReset
    PROVE  Ages(events, ch)' /\ AllCarried'
  <1>0. /\ ch \in [Channels -> ChannelState] /\ events \in SUBSET DmaEvent
        /\ Ages(events, ch)
        /\ \A c \in Channels : Carried(ch[c], Own(events, c), Disabled(c))
    BY DEF RequestInv, TypeOK, AllCarried
  <1>1. CASE Tick
    <2>. DEFINE m(e) == [e EXCEPT !.left = e.left - 1]
    <2>1. events' = {m(e) : e \in events} /\ ch' = ch /\ pmd_disabled' = pmd_disabled
      BY <1>1 DEF Tick
    <2>2. \A e \in events : /\ m(e).channel = e.channel /\ m(e).stale = e.stale
                            /\ m(e).generation = e.generation /\ Like(m(e), e)
      BY <1>0 DEF DmaEvent, Like
    <2>. HIDE DEF m
    <2>3. Ages(events', ch')
      BY <1>0, <2>1, <2>2 DEF Ages
    <2>4. \A c \in Channels : Carried(ch[c], Own(events', c), Disabled(c))
      <3>. TAKE c \in Channels
      <3>. DEFINE F == Own(events, c)
                  G == Own(events', c)
      <3>1. G = {m(e) : e \in F}
        BY <2>1, <2>2 DEF Own
      <3>2. \A f \in F : Like(m(f), f)
        BY <2>2 DEF Own
      <3>3. Carried(ch[c], F, Disabled(c))
        BY <1>0
      <3>. HIDE DEF F, G
      <3>4. \A f \in F : \E g \in G : Like(f, g)
        BY <3>1, <3>2 DEF Like
      <3>5. \A g \in G : \E f \in F : Like(g, f)
        BY <3>1, <3>2 DEF Like
      <3>6. \A f, g \in F : SameUse(m(f), m(g)) => f = g
        BY <3>2, <3>3 DEF Carried, SameUse, Like
      <3>7. \A g, h \in G : SameUse(g, h) => g = h
        BY <3>1, <3>6
      <3>. QED BY <3>3, <3>4, <3>5, <3>7, MovedCarried DEF G
    <2>. QED BY <2>1, <2>3, <2>4 DEF AllCarried, Disabled
  <1>2. CASE ModuleEnable
    <2>1. ch' = ch /\ events' = events /\ \A c \in Channels : Disabled(c)' => Disabled(c)
      BY <1>2 DEF ModuleEnable, Disabled
    <2>2. \A c \in Channels : Carried(ch[c], Own(events, c), Disabled(c)')
      BY <1>0, <2>1 DEF Carried
    <2>. QED BY <1>0, <2>1, <2>2 DEF AllCarried
  <1>3. CASE ClearCollisions
    <2>1. /\ events' = events /\ pmd_disabled' = pmd_disabled
          /\ ch' = [c \in Channels |-> [ch[c] EXCEPT !.pwc = FALSE, !.rqc = FALSE]]
      BY <1>3 DEF ClearCollisions
    <2>2. ASSUME NEW c \in Channels
          PROVE  /\ ch'[c] \in ChannelState
                 /\ ch'[c].enabled = ch[c].enabled
                 /\ ch'[c].peripheral_pending = ch[c].peripheral_pending
                 /\ ch'[c].forced_pending = ch[c].forced_pending
                 /\ ch'[c].active = ch[c].active /\ ch'[c].force = ch[c].force
                 /\ ch'[c].arbiter_waiting = ch[c].arbiter_waiting
                 /\ ch'[c].generation = ch[c].generation
      <3>1. ch'[c] = [ch[c] EXCEPT !.pwc = FALSE, !.rqc = FALSE] /\ ch[c] \in ChannelState
        BY <1>0, <2>1
      <3>. QED BY <3>1 DEF ChannelState
    <2>3. \A e \in events : e.channel \in Channels
      BY <1>0 DEF DmaEvent
    <2>4. Ages(events', ch')
      BY <1>0, <2>1, <2>2, <2>3 DEF Ages
    <2>5. \A c \in Channels : Carried(ch'[c], Own(events, c), Disabled(c))
      BY <1>0, <2>2, CarriedAlike
    <2>. QED BY <2>1, <2>4, <2>5 DEF AllCarried, Disabled
  <1>4. CASE Sleep \/ Wake
    <2>1. ch' = ch /\ events' = events /\ pmd_disabled' = pmd_disabled
      BY <1>4 DEF Sleep, Wake
    <2>. QED BY <1>0, <2>1 DEF AllCarried, Disabled
  <1>5. CASE WarmReset
    <2>1. Init'
      BY <1>5 DEF WarmReset, Init
    <2>. QED BY <2>1, RequestInit, PTL
  <1>. QED BY <1>1, <1>2, <1>3, <1>4, <1>5

LEMMA RequestNext == RequestInv /\ [Next]_vars => RequestInv'
  <1>. SUFFICES ASSUME RequestInv, [Next]_vars PROVE RequestInv'
    OBVIOUS
  <1>1. TypeOK'
    BY TypeNext DEF RequestInv
  <1>2. Ages(events, ch)' /\ AllCarried'
    <2>1. CASE Call
      BY <2>1, RequestProgram, RequestForced, RequestRequested, RequestQuiet DEF Call
    <2>2. CASE Dispatch
      BY <2>2, RequestIgnored, RequestWait, RequestComplete DEF Dispatch
    <2>3. CASE Start
      BY <2>3, RequestTransfer DEF Start
    <2>4. CASE Tick
      BY <2>4, RequestQuiet
    <2>5. CASE UNCHANGED vars
      BY <2>5 DEF vars, RequestInv, AllCarried, Disabled
    <2>. QED BY <2>1, <2>2, <2>3, <2>4, <2>5 DEF Next
  <1>. QED BY <1>1, <1>2 DEF RequestInv

LEMMA RequestsFollow == Spec => []RequestInv
  <1>1. Init => RequestInv
    BY TypeInit, RequestInit DEF RequestInv
  <1>. QED BY <1>1, RequestNext, PTL DEF Spec

\* An event scheduled before its channel was stopped, restarted or reset never
\* passes for one of now, for any width of the counter of generations: the wrap
\* purges the queue.
THEOREM OldEventsIgnored == Spec => []StaleIgnored
  <1>1. RequestInv => StaleIgnored
    BY LiveOwn DEF StaleIgnored
  <1>. QED BY <1>1, RequestsFollow, PTL

\* At most one element, at most one as a number.
LEMMA AtMostOne ==
    ASSUME NEW S, \A x, y \in S : x = y
    PROVE  Cardinality(S) = IF S = {} THEN 0 ELSE 1
  <1>1. CASE S = {}
    BY <1>1, FS_EmptySet
  <1>2. CASE S # {}
    <2>1. PICK x \in S : S = {x}
      BY <1>2
    <2>2. Cardinality(S) = 1
      BY <2>1, FS_Singleton
    <2>. QED BY <1>2, <2>2
  <1>. QED BY <1>1, <1>2

LEMMA LiveEventsOwn ==
    ASSUME RequestInv, NEW c \in Channels, NEW completion \in BOOLEAN, NEW forced \in BOOLEAN
    PROVE  LiveEvents(c, completion, forced) =
              {e \in Own(events, c) : e.completion = completion /\ e.forced = forced}
  BY LiveOwn DEF LiveEvents, Own

\* A pending request has exactly one live event to run it, or is being
\* transferred, whatever collided with it, overtook it or stopped its channel.
THEOREM NoRequestLost == Spec => []RequestsCarried
  <1>1. ASSUME RequestInv PROVE RequestsCarried
    <2>. SUFFICES ASSUME NEW c \in Channels
                  PROVE  /\ ch[c].peripheral_pending <=> LiveEvents(c, FALSE, FALSE) # {}
                         /\ ch[c].forced_pending <=> LiveEvents(c, FALSE, TRUE) \union
                                                     LiveEvents(c, TRUE, TRUE) # {}
                         /\ ch[c].force = ch[c].forced_pending
                         /\ \A forced \in BOOLEAN :
                               Cardinality(LiveEvents(c, FALSE, forced)) <= 1
      BY DEF RequestsCarried
    <2>. DEFINE F == Own(events, c)
    <2>1. Carried(ch[c], F, Disabled(c))
      BY <1>1 DEF RequestInv, AllCarried
    <2>2. \A e \in F : e.completion \in BOOLEAN /\ e.forced \in BOOLEAN
      BY <1>1 DEF RequestInv, TypeOK, DmaEvent, Own
    <2>3. \A completion, forced \in BOOLEAN :
             LiveEvents(c, completion, forced) =
                {e \in F : e.completion = completion /\ e.forced = forced}
      BY <1>1, LiveEventsOwn
    <2>. HIDE DEF F
    <2>4. ch[c].peripheral_pending <=> LiveEvents(c, FALSE, FALSE) # {}
      BY <2>1, <2>2, <2>3 DEF Carried
    <2>5. ch[c].forced_pending <=> LiveEvents(c, FALSE, TRUE) \union
                                   LiveEvents(c, TRUE, TRUE) # {}
      BY <2>1, <2>2, <2>3 DEF Carried
    <2>6. \A forced \in BOOLEAN : Cardinality(LiveEvents(c, FALSE, forced)) <= 1
      <3>. TAKE forced \in BOOLEAN
      <3>. DEFINE S == LiveEvents(c, FALSE, forced)
      <3>1. \A x, y \in S : x = y
        BY <2>1, <2>2, <2>3 DEF Carried, SameUse
      <3>. HIDE DEF S
      <3>2. Cardinality(S) \in {0, 1}
        BY <3>1, AtMostOne
      <3>3. Cardinality(S) <= 1
        BY <3>2
      <3>. QED BY <3>3 DEF S
    <2>. QED BY <2>1, <2>4, <2>5, <2>6 DEF Carried
  <1>. QED BY <1>1, RequestsFollow, PTL
-----------------------------------------------------------------------------
(***************************************************************************)
(* The bus.  It has one user, and then nobody waits for it; it is held for *)
(* one channel at most, and that one has a request.                        *)
(***************************************************************************)
Pended(r) == r.forced_pending \/ r.peripheral_pending

BusInv == /\ \A c, d \in Channels : ch[c].active /\ ch[d].active => c = d
          /\ \A c, d \in Channels : ch[c].active => ~ch[d].arbiter_waiting
          /\ \A c, d \in Channels : ch[c].arbiter_waiting /\ ch[d].arbiter_waiting => c = d
          /\ \A c \in Channels : ch[c].arbiter_waiting => Pended(ch[c])

\* A state of a channel that neither takes the bus nor waits for it anew.
Quieter(s, r) == /\ s.active => r.active
                 /\ s.arbiter_waiting => r.arbiter_waiting /\ (Pended(r) => Pended(s))

LEMMA BusQuieter ==
    ASSUME BusInv, \A c \in Channels : Quieter(ch'[c], ch[c])
    PROVE  BusInv'
  BY DEF BusInv, Quieter

\* When it is one channel that changes.
LEMMA BusOne ==
    ASSUME RequestInv, BusInv, NEW c \in Channels, NEW s, ch' = [ch EXCEPT ![c] = s],
           Quieter(s, ch[c])
    PROVE  BusInv'
  <1>1. \A d \in Channels : ch'[d] = IF d = c THEN s ELSE ch[d]
    BY DEF RequestInv, TypeOK
  <1>2. \A d \in Channels : Quieter(ch'[d], ch[d])
    BY <1>1 DEF Quieter
  <1>. QED BY <1>2, BusQuieter

LEMMA BusProgram ==
    ASSUME RequestInv, BusInv,
           \/ EnableChannel \/ DisableChannel \/ ForceRequest \/ dspic33_dma_request
           \/ ModuleDisable \/ ModuleEnable \/ ClearCollisions \/ Sleep \/ Wake \/ WarmReset
           \/ Tick
    PROVE  BusInv'
  <1>0. /\ ch \in [Channels -> ChannelState]
        /\ \A c \in Channels : Carried(ch[c], Own(events, c), Disabled(c))
    BY DEF RequestInv, TypeOK, AllCarried
  <1>1. CASE EnableChannel
    <2>1. PICK c \in Channels : /\ ~ch[c].enabled
                                /\ ch' = [ch EXCEPT ![c] = Started(@)]
      BY <1>1 DEF EnableChannel
    <2>2. ~ch[c].arbiter_waiting
      BY <1>0, <2>1 DEF Carried
    <2>3. ~Started(ch[c]).active /\ ~Started(ch[c]).arbiter_waiting
      BY <1>0, <2>2 DEF Started, ChannelState
    <2>. QED BY <2>1, <2>3, BusOne DEF Quieter
  <1>2. CASE DisableChannel
    <2>1. PICK c \in Channels : ch' = [ch EXCEPT ![c] = [Stopped(@) EXCEPT !.enabled = FALSE]]
      BY <1>2 DEF DisableChannel
    <2>. DEFINE s == [Stopped(ch[c]) EXCEPT !.enabled = FALSE]
    <2>2. ~s.active /\ ~s.arbiter_waiting
      BY <1>0 DEF Stopped, ChannelState
    <2>3. ch' = [ch EXCEPT ![c] = s]
      BY <2>1
    <2>. HIDE DEF s
    <2>. QED BY <2>2, <2>3, BusOne DEF Quieter
  <1>3. CASE ForceRequest
    <2>1. PICK c \in Channels :
             \/ ch' = [ch EXCEPT ![c].rqc = TRUE]
             \/ ch' = [ch EXCEPT ![c] = [Scheduled(@, TRUE) EXCEPT !.force = TRUE]]
      BY <1>3 DEF ForceRequest
    <2>. DEFINE r == ch[c]
                s == [r EXCEPT !.rqc = TRUE]
                t == [Scheduled(r, TRUE) EXCEPT !.force = TRUE]
    <2>2. Quieter(s, r)
      BY <1>0 DEF Quieter, Pended, ChannelState
    <2>3. Quieter(t, r)
      <3>1. t.active = r.active /\ t.arbiter_waiting = r.arbiter_waiting /\ t.forced_pending
        BY <1>0 DEF Scheduled, ChannelState
      <3>. QED BY <3>1 DEF Quieter, Pended
    <2>4. ch' = [ch EXCEPT ![c] = s] \/ ch' = [ch EXCEPT ![c] = t]
      BY <2>1
    <2>. HIDE DEF s, t
    <2>. QED BY <2>2, <2>3, <2>4, BusOne
  <1>4. CASE dspic33_dma_request
    <2>1. PICK s : \E accepted \in [Listening(s) -> Answers] :
             ch' = [c \in Channels |-> IF c \in Listening(s)
                                       THEN Requested(ch[c], accepted[c]) ELSE ch[c]]
      BY <1>4 DEF dspic33_dma_request
    <2>2. PICK accepted \in [Listening(s) -> Answers] :
             ch' = [c \in Channels |-> IF c \in Listening(s)
                                       THEN Requested(ch[c], accepted[c]) ELSE ch[c]]
      BY <2>1
    <2>3. \A c \in Listening(s) : accepted[c] \in BOOLEAN
      BY DmaAssumption
    <2>4. \A c \in Channels : \A b \in BOOLEAN : Quieter(Requested(ch[c], b), ch[c])
      <3>. TAKE c \in Channels
      <3>. DEFINE r == ch[c]
                  f == Requested(r, FALSE)
      <3>0. r \in ChannelState
        BY <1>0
      <3>1. /\ f \in ChannelState /\ f.active = r.active
            /\ f.peripheral_pending = r.peripheral_pending
            /\ f.arbiter_waiting => /\ f.arbiter_waiting = r.arbiter_waiting
                                    /\ f.forced_pending = r.forced_pending
            /\ Requested(r, TRUE) = Scheduled(f, FALSE)
        BY <3>0, RequestedFields
      <3>2. Quieter(f, r)
        BY <3>1 DEF Quieter, Pended
      <3>. HIDE DEF f
      <3>3. LET t == Scheduled(f, FALSE)
            IN  /\ t.active = f.active /\ t.peripheral_pending
                /\ t.arbiter_waiting = f.arbiter_waiting
        BY <3>1, ScheduledFields
      <3>4. Quieter(Requested(r, TRUE), r)
        BY <3>1, <3>3 DEF Quieter, Pended
      <3>. QED BY <3>2, <3>4 DEF f
    <2>5. \A c \in Channels : Quieter(ch[c], ch[c])
      BY DEF Quieter
    <2>6. \A c \in Channels : Quieter(ch'[c], ch[c])
      BY <2>2, <2>3, <2>4, <2>5
    <2>. QED BY <2>6, BusQuieter
  <1>5. CASE ModuleDisable
    <2>1. PICK g : ch' = [c \in Channels |-> IF c \in {d \in Channels : Group(d) = g}
                                             THEN Stopped(ch[c]) ELSE ch[c]]
      BY <1>5 DEF ModuleDisable
    <2>2. \A c \in Channels : ~Stopped(ch[c]).active /\ ~Stopped(ch[c]).arbiter_waiting
      BY <1>0 DEF Stopped, ChannelState
    <2>3. \A c \in Channels : Quieter(ch'[c], ch[c])
      BY <2>1, <2>2 DEF Quieter
    <2>. QED BY <2>3, BusQuieter
  <1>6. CASE ClearCollisions
    <2>1. ch' = [c \in Channels |-> [ch[c] EXCEPT !.pwc = FALSE, !.rqc = FALSE]]
      BY <1>6 DEF ClearCollisions
    <2>2. \A c \in Channels : Quieter(ch'[c], ch[c])
      BY <1>0, <2>1 DEF Quieter, Pended, ChannelState
    <2>. QED BY <2>2, BusQuieter
  <1>7. CASE ModuleEnable \/ Sleep \/ Wake \/ Tick
    <2>1. ch' = ch
      BY <1>7 DEF ModuleEnable, Sleep, Wake, Tick
    <2>. QED BY <2>1 DEF BusInv
  <1>8. CASE WarmReset
    <2>1. \A c \in Channels : ~ch'[c].active /\ ~ch'[c].arbiter_waiting
      BY <1>8 DEF WarmReset, ResetState
    <2>. QED BY <2>1 DEF BusInv
  <1>. QED BY <1>1, <1>2, <1>3, <1>4, <1>5, <1>6, <1>7, <1>8

LEMMA BusDispatched ==
    ASSUME RequestInv, BusInv, NEW e \in events,
           Ignore(e) \/ TryLater(e) \/ Refuse(e) \/ WaitForBus(e) \/ AddressTrap(e)
    PROVE  BusInv'
  <1>. DEFINE c == e.channel
              r == ch[c]
              waiting == [r EXCEPT !.arbiter_waiting = TRUE]
              w == Withdrawn(r, e.forced)
  <1>1. /\ c \in Channels /\ r \in ChannelState /\ e.forced \in BOOLEAN
        /\ ch \in [Channels -> ChannelState]
    BY LiveOwn DEF RequestInv, TypeOK, DmaEvent
  <1>2. RequestCleared(Granted(r, e.forced), e.forced) = w
    BY <1>1, GrantedFields
  <1>3. \/ ch' = ch
        \/ ch' = [ch EXCEPT ![c] = w]
        \/ Grantable(e) /\ ch' = [ch EXCEPT ![c] = waiting]
    BY <1>2 DEF Ignore, TryLater, Refuse, WaitForBus, AddressTrap
  <1>4. CASE ch' = ch
    BY <1>4 DEF BusInv
  <1>5. CASE ch' = [ch EXCEPT ![c] = w]
    <2>1. w.active = r.active /\ ~w.arbiter_waiting
      BY <1>1 DEF Withdrawn, RequestCleared, ForcedCleared, ChannelState
    <2>. HIDE DEF w
    <2>. QED BY <1>1, <1>5, <2>1, BusOne DEF Quieter
  <1>6. CASE Grantable(e) /\ ch' = [ch EXCEPT ![c] = waiting]
    <2>1. /\ waiting.active = r.active /\ waiting.arbiter_waiting
          /\ Pended(waiting) = Pended(r)
      BY <1>1 DEF Pended, ChannelState
    <2>. HIDE DEF waiting
    <2>2. \A d \in Channels : ch'[d] = IF d = c THEN waiting ELSE ch[d]
      BY <1>1, <1>6
    <2>3. \A d \in Channels : ~ch'[d].active
      BY <1>1, <1>6, <2>1, <2>2 DEF Grantable, SomeActive
    <2>4. \A d \in Channels : ch[d].arbiter_waiting => d = c
      BY <1>1, <1>6 DEF Grantable, Barred, BusInv
    <2>5. Pended(r)
      <3>1. e \in Own(events, c) /\ ~e.completion
        BY <1>6, LiveOwn DEF Grantable, Requests
      <3>. QED BY <1>1, <3>1 DEF RequestInv, AllCarried, Carried, Pended
    <2>6. \A d \in Channels : ch'[d].arbiter_waiting => d = c
      BY <2>2, <2>4
    <2>7. \A d \in Channels : ch'[d].arbiter_waiting => Pended(ch'[d])
      BY <2>1, <2>2, <2>5, <2>6
    <2>. QED BY <2>3, <2>6, <2>7 DEF BusInv
  <1>. QED BY <1>3, <1>4, <1>5, <1>6

LEMMA BusTransfer ==
    ASSUME RequestInv, BusInv, NEW e \in events, Transfer(e)
    PROVE  BusInv'
  <1>. DEFINE c == e.channel
              r == ch[c]
  <1>1. /\ c \in Channels /\ r \in ChannelState /\ e.forced \in BOOLEAN
        /\ ch \in [Channels -> ChannelState]
    BY LiveOwn DEF RequestInv, TypeOK, DmaEvent
  <1>2. PICK collision \in BOOLEAN :
           LET granted == [Granted(ch[e.channel], e.forced) EXCEPT !.pwc = collision]
           IN  \/ ch' = [ch EXCEPT ![e.channel] = [granted EXCEPT !.active = TRUE]]
               \/ ch' = [ch EXCEPT ![e.channel] = RequestCleared(granted, e.forced)]
    BY DEF Transfer
  <1>. DEFINE t == [Granted(r, e.forced) EXCEPT !.pwc = collision]
              w == Withdrawn(r, e.forced)
  <1>3. /\ t = [r EXCEPT !.arbiter_waiting = FALSE, !.pwc = collision,
                         !.peripheral_pending = e.forced /\ r.peripheral_pending]
        /\ RequestCleared(t, e.forced) = [w EXCEPT !.pwc = collision]
    <2>0. r \in ChannelState /\ e.forced \in BOOLEAN
      BY <1>1
    <2>. HIDE DEF r
    <2>1. t = [r EXCEPT !.arbiter_waiting = FALSE, !.pwc = collision,
                        !.peripheral_pending = e.forced /\ r.peripheral_pending]
      BY <2>0, GrantedCollides, Zenon
    <2>2. RequestCleared(t, e.forced) = [w EXCEPT !.pwc = collision]
      BY <2>0, GrantedCleared, Zenon
    <2>. QED BY <2>1, <2>2
  <1>4. CASE ch' = [ch EXCEPT ![c] = [t EXCEPT !.active = TRUE]]
    <2>. DEFINE s == [t EXCEPT !.active = TRUE]
    <2>1. ~s.arbiter_waiting
      BY <1>1, <1>3 DEF ChannelState
    <2>. HIDE DEF s
    <2>2. \A d \in Channels : ch'[d] = IF d = c THEN s ELSE ch[d]
      BY <1>1, <1>4 DEF s
    <2>3. \A d \in Channels : ~ch[d].active
      BY DEF Transfer, Grantable, SomeActive
    <2>4. \A d \in Channels : ch[d].arbiter_waiting => d = c
      BY <1>1 DEF Transfer, Grantable, Barred, BusInv
    <2>5. \A d \in Channels : ~ch'[d].arbiter_waiting /\ (ch'[d].active => d = c)
      BY <2>1, <2>2, <2>3, <2>4
    <2>. QED BY <2>5 DEF BusInv
  <1>5. CASE ch' = [ch EXCEPT ![c] = RequestCleared(t, e.forced)]
    <2>. DEFINE s == [w EXCEPT !.pwc = collision]
    <2>1. s.active = r.active /\ ~s.arbiter_waiting
      BY <1>1 DEF Withdrawn, RequestCleared, ForcedCleared, ChannelState
    <2>2. ch' = [ch EXCEPT ![c] = s]
      BY <1>3, <1>5
    <2>. HIDE DEF s
    <2>. QED BY <1>1, <2>1, <2>2, BusOne DEF Quieter
  <1>. QED BY <1>2, <1>4, <1>5

LEMMA BusComplete ==
    ASSUME RequestInv, BusInv, NEW e \in events, Complete(e)
    PROVE  BusInv'
  <1>. DEFINE c == e.channel
              r == ch[c]
              k == Completed(c)
              done == [k EXCEPT !.active = FALSE]
              s == IF e.forced THEN ForcedCleared(done) ELSE done
  <1>1. c \in Channels /\ r \in ChannelState /\ TypeOK
    BY LiveOwn DEF RequestInv
  <1>2. CASE ~r.active
    BY <1>2 DEF Complete, BusInv
  <1>3. CASE r.active
    <2>1. ch' = [ch EXCEPT ![c] = s]
      BY <1>3 DEF Complete
    <2>2. k \in ChannelState
      BY <1>1, CompletedState
    <2>3. ~k.arbiter_waiting
      <3>1. ~r.arbiter_waiting
        BY <1>1, <1>3 DEF BusInv
      <3>. QED BY <1>1, <3>1, CompletedFields
    <2>4. ~s.active /\ ~s.arbiter_waiting
      <3>. HIDE DEF k
      <3>. QED BY <2>2, <2>3 DEF ForcedCleared, ChannelState
    <2>. HIDE DEF s
    <2>. QED BY <1>1, <2>1, <2>4, BusOne DEF Quieter
  <1>. QED BY <1>2, <1>3

LEMMA BusNext == RequestInv /\ BusInv /\ [Next]_vars => BusInv'
  <1>. SUFFICES ASSUME RequestInv, BusInv, [Next]_vars PROVE BusInv'
    OBVIOUS
  <1>1. CASE Call \/ Tick
    BY <1>1, BusProgram DEF Call
  <1>2. CASE Dispatch
    BY <1>2, BusDispatched, BusComplete DEF Dispatch
  <1>3. CASE Start
    BY <1>3, BusTransfer DEF Start
  <1>4. CASE UNCHANGED vars
    BY <1>4 DEF vars, BusInv
  <1>. QED BY <1>1, <1>2, <1>3, <1>4 DEF Next

LEMMA BusShared == Spec => []BusInv
  <1>1. Init => BusInv
    BY DEF Init, BusInv, ResetState
  <1>. QED BY <1>1, RequestsFollow, BusNext, PTL DEF Spec

\* One transfer at a time on the bus, each with exactly one completion to come;
\* a channel that is not active has none.
THEOREM BusHasOneTransfer == Spec => []OneTransfer
  <1>1. ASSUME RequestInv, BusInv PROVE OneTransfer
    <2>. SUFFICES ASSUME NEW c \in Channels
                  PROVE  Cardinality(LiveEvents(c, TRUE, TRUE) \union LiveEvents(c, TRUE, FALSE))
                            = (IF ch[c].active THEN 1 ELSE 0)
      BY <1>1 DEF OneTransfer, BusInv
    <2>. DEFINE F == Own(events, c)
                S == LiveEvents(c, TRUE, TRUE) \union LiveEvents(c, TRUE, FALSE)
    <2>1. Carried(ch[c], F, Disabled(c))
      BY <1>1 DEF RequestInv, AllCarried
    <2>2. \A e \in F : e.completion \in BOOLEAN /\ e.forced \in BOOLEAN
      BY <1>1 DEF RequestInv, TypeOK, DmaEvent, Own
    <2>3. \A completion, forced \in BOOLEAN :
             LiveEvents(c, completion, forced) =
                {e \in F : e.completion = completion /\ e.forced = forced}
      BY <1>1, LiveEventsOwn
    <2>. HIDE DEF F
    <2>4. \A x, y \in S : x = y
      BY <2>1, <2>2, <2>3 DEF Carried, SameUse
    <2>5. ch[c].active <=> S # {}
      BY <2>1, <2>2, <2>3 DEF Carried
    <2>. HIDE DEF S
    <2>6. Cardinality(S) = IF S = {} THEN 0 ELSE 1
      BY <2>4, AtMostOne
    <2>7. Cardinality(S) = IF ch[c].active THEN 1 ELSE 0
      BY <2>5, <2>6
    <2>. QED BY <2>7 DEF S
  <1>. QED BY <1>1, RequestsFollow, BusShared, PTL

\* The one channel the arbiter holds the bus for has a request to use it with.
THEOREM BusHeldForRequest == Spec => []WaiterHasRequest
  <1>1. BusInv => WaiterHasRequest
    BY DEF BusInv, WaiterHasRequest, Pended
  <1>. QED BY <1>1, BusShared, PTL
-----------------------------------------------------------------------------
(***************************************************************************)
(* Blocks.  Division has one quotient and one remainder, which is all the  *)
(* accounting needs of it.                                                 *)
(***************************************************************************)
LEMMA Monotonic == ASSUME NEW a \in Int, NEW b \in Int, NEW L \in Nat, a <= b
                   PROVE  L * a <= L * b
  OBVIOUS

LEMMA DivisionUnique ==
    ASSUME NEW L \in Nat \ {0}, NEW q \in Int, NEW d \in Int,
           NEW i \in 0 .. L - 1, NEW r \in 0 .. L - 1, L * q + i = L * d + r
    PROVE  q = d /\ i = r
  <1>1. ~(q < d)
    <2>1. SUFFICES ASSUME q + 1 <= d PROVE FALSE
      OBVIOUS
    <2>2. L * (q + 1) <= L * d /\ L * (q + 1) = L * q + L
      BY <2>1, Monotonic
    <2>. QED BY <2>2
  <1>2. ~(d < q)
    <2>1. SUFFICES ASSUME d + 1 <= q PROVE FALSE
      OBVIOUS
    <2>2. L * (d + 1) <= L * q /\ L * (d + 1) = L * d + L
      BY <2>1, Monotonic
    <2>. QED BY <2>2
  <1>3. q = d
    BY <1>1, <1>2
  <1>. QED BY <1>3

LEMMA Division ==
    ASSUME NEW L \in Nat \ {0}, NEW q \in Nat, NEW i \in 0 .. L - 1
    PROVE  (L * q + i) \div L = q /\ (L * q + i) % L = i
  <1>. DEFINE m == L * q + i
              d == m \div L
              r == m % L
  <1>1. m \in Nat /\ m = L * q + i
    OBVIOUS
  <1>. HIDE DEF m
  <1>2. m \div L \in Nat /\ m % L \in 0 .. L - 1 /\ m = L * (m \div L) + (m % L)
    BY <1>1
  <1>3. d \in Nat /\ r \in 0 .. L - 1 /\ L * q + i = L * d + r
    BY <1>1, <1>2
  <1>. HIDE DEF d, r
  <1>4. q = d /\ i = r
    BY <1>3, DivisionUnique
  <1>. QED BY <1>4 DEF d, r, m

\* One more transfer, modulo B blocks of L.
LEMMA OneMore ==
    ASSUME NEW L \in Nat \ {0}, NEW B \in Nat \ {0}, NEW q \in 0 .. B - 1, NEW i \in 0 .. L - 1
    PROVE  ((L * q + i) + 1) % (B * L) = IF i + 1 < L THEN L * q + (i + 1)
                                         ELSE IF q + 1 < B THEN L * (q + 1) + 0 ELSE 0
  <1>. DEFINE K == B * L
              m == (L * q + i) + 1
  <1>1. L * (q + 1) <= L * B /\ L * (q + 1) = L * q + L /\ L * B = K
    BY Monotonic
  <1>2. K \in Nat \ {0} /\ m \in Nat /\ m <= K
    BY <1>1
  <1>3. ASSUME m < K PROVE m % K = m
    <2>. HIDE DEF K, m
    <2>1. m \in 0 .. K - 1 /\ K * 0 + m = m
      BY <1>2, <1>3
    <2>. QED BY <1>2, <2>1, Division
  <1>4. K % K = 0
    <2>. HIDE DEF K
    <2>1. K * 1 + 0 = K /\ 0 \in 0 .. K - 1
      BY <1>2
    <2>. QED BY <1>2, <2>1, Division
  <1>5. CASE i + 1 < L
    BY <1>1, <1>2, <1>3, <1>5
  <1>6. CASE i + 1 = L /\ q + 1 < B
    <2>1. L * (q + 2) <= L * B /\ L * (q + 2) = L * q + L + L
      BY <1>6, Monotonic
    <2>2. m < K
      BY <1>1, <1>6, <2>1
    <2>. QED BY <1>1, <1>3, <1>6, <2>2
  <1>7. CASE i + 1 = L /\ q + 1 = B
    <2>1. m = K
      BY <1>1, <1>7
    <2>. QED BY <1>4, <1>7, <2>1
  <1>. QED BY <1>5, <1>6, <1>7

After(c, q) == IF q + 1 = Blocks(c) THEN 0 ELSE q + 1

\* Where a channel that is enabled is: in block q, at its index.
Reached(c, r, m, n, q) ==
    /\ m = BlockLength(c) * q + r.index
    /\ r.index < BlockLength(c)
    /\ r.secondary <=> Mode[c].ping_pong /\ q % 2 = 1
    /\ Mode[c].half => (r.half_raised <=> r.index >= HalfCount(c))
    /\ n = IF Mode[c].half /\ r.index >= HalfCount(c) THEN After(c, q) ELSE q
    /\ Mode[c].one_shot => q < (IF Mode[c].ping_pong THEN 2 ELSE 1)

Accounted(c, r, m, n) == r.enabled => \E q \in 0 .. Blocks(c) - 1 : Reached(c, r, m, n, q)

BlockInv == \A c \in Channels : Accounted(c, ch[c], moved[c], raised[c])

LEMMA HalfRange ==
    ASSUME NEW c \in Channels
    PROVE  /\ HalfCount(c) \in 1 .. BlockLength(c) /\ BlockLength(c) \in Nat \ {0}
           /\ Mode[c].count \in Nat /\ BlockLength(c) = Mode[c].count + 1
           /\ Blocks(c) = (IF Mode[c].ping_pong THEN 4 ELSE 2)
           /\ Mode[c].half \in BOOLEAN /\ Mode[c].ping_pong \in BOOLEAN
           /\ Mode[c].one_shot \in BOOLEAN
  BY HistoryRange DEF HalfCount, ChannelMode, Blocks

\* A channel that starts is at the beginning of its first block.
LEMMA BlockStart ==
    ASSUME NEW c \in Channels, NEW r, r.index = 0, r.secondary = FALSE, r.half_raised = FALSE
    PROVE  Accounted(c, r, 0, 0)
  <1>1. /\ BlockLength(c) * 0 + 0 = 0 /\ 0 < BlockLength(c) /\ 0 \in 0 .. Blocks(c) - 1
        /\ ~(0 >= HalfCount(c)) /\ 0 % 2 = 0
    BY HalfRange
  <1>2. r.secondary <=> Mode[c].ping_pong /\ 0 % 2 = 1
    BY <1>1, HalfRange
  <1>3. Mode[c].one_shot => 0 < (IF Mode[c].ping_pong THEN 2 ELSE 1)
    OBVIOUS
  <1>4. Reached(c, r, 0, 0, 0)
    BY <1>1, <1>2, <1>3 DEF Reached
  <1>. QED BY <1>1, <1>4 DEF Accounted

\* A transfer within a block, and the last one of a block.
LEMMA CountedFields ==
    ASSUME TypeOK, NEW c \in Channels
    PROVE  LET r == ch[c]
               s == Counted(c)
           IN  IF AtEnd(c)
               THEN /\ s.index = 0 /\ ~s.half_raised
                    /\ s.secondary <=> IF Mode[c].ping_pong /\ ~LastBlock(c)
                                       THEN ~r.secondary ELSE r.secondary
               ELSE /\ s.index = r.index + 1 /\ (s.half_raised <=> r.half_raised \/ AtHalf(c))
                    /\ s.secondary = r.secondary
  <1>1. ch[c] \in ChannelState
    BY DEF TypeOK
  <1>2. CASE AtEnd(c)
    BY <1>1, <1>2 DEF Counted, ChannelState
  <1>3. CASE ~AtEnd(c)
    BY <1>1, <1>3 DEF Counted, ChannelState
  <1>. QED BY <1>2, <1>3

LEMMA OneMoreBlock ==
    ASSUME NEW B \in {2, 4}, NEW k \in 0 .. B - 1
    PROVE  (k + 0 + 0) % B = k /\ (k + 1) % B = IF k + 1 = B THEN 0 ELSE k + 1
  <1>1. CASE B = 2
    BY <1>1
  <1>2. CASE B = 4
    BY <1>2
  <1>. QED BY <1>1, <1>2

LEMMA BlockCounted ==
    ASSUME TypeOK, NEW c \in Channels, NEW q \in 0 .. Blocks(c) - 1,
           Reached(c, ch[c], moved[c], raised[c], q), ~Stops(c)
    PROVE  \E p \in 0 .. Blocks(c) - 1 :
              Reached(c, Counted(c),
                      (moved[c] + 1) % (Blocks(c) * BlockLength(c)),
                      (raised[c] + (IF AtHalf(c) THEN 1 ELSE 0)
                                 + (IF AtEnd(c) /\ ~Mode[c].half THEN 1 ELSE 0)) % Blocks(c),
                      p)
  <1>. DEFINE r == ch[c]
              s == Counted(c)
              L == BlockLength(c)
              B == Blocks(c)
              H == HalfCount(c)
              i == r.index
              half == Mode[c].half
              p == After(c, q)
              m == (moved[c] + 1) % (B * L)
              h == IF AtHalf(c) THEN 1 ELSE 0
              f == IF AtEnd(c) /\ ~half THEN 1 ELSE 0
              n == (raised[c] + h + f) % B
  <1>1. /\ H \in 1 .. L /\ L \in Nat \ {0} /\ Mode[c].count = L - 1
        /\ B = (IF Mode[c].ping_pong THEN 4 ELSE 2) /\ B \in {2, 4} /\ B \in Nat \ {0}
        /\ half \in BOOLEAN /\ Mode[c].ping_pong \in BOOLEAN
        /\ Mode[c].one_shot \in BOOLEAN
        /\ q \in 0 .. B - 1 /\ p \in 0 .. B - 1 /\ p = IF q + 1 = B THEN 0 ELSE q + 1
    BY HalfRange DEF After
  <1>2. i \in 0 .. L - 1
    BY <1>1 DEF TypeOK, ChannelState, Reached
  <1>3. /\ moved[c] = L * q + i
        /\ r.secondary <=> Mode[c].ping_pong /\ q % 2 = 1
        /\ half => (r.half_raised <=> i >= H)
        /\ raised[c] = IF half /\ i >= H THEN p ELSE q
        /\ Mode[c].one_shot => q < (IF Mode[c].ping_pong THEN 2 ELSE 1)
    BY DEF Reached
  <1>4. AtHalf(c) <=> half /\ i + 1 = H
    BY <1>1, <1>2, <1>3 DEF AtHalf
  <1>5. AtEnd(c) <=> i = L - 1
    BY <1>1, <1>2 DEF AtEnd
  <1>6. m = IF i + 1 < L THEN L * q + (i + 1) ELSE L * p + 0
    <2>1. m = ((L * q + i) + 1) % (B * L)
      BY <1>3
    <2>. HIDE DEF m, B, L, i, p
    <2>2. m = IF i + 1 < L THEN L * q + (i + 1) ELSE IF q + 1 < B THEN L * (q + 1) + 0 ELSE 0
      BY <1>1, <1>2, <2>1, OneMore
    <2>3. L * 0 + 0 = 0
      BY <1>1
    <2>. QED BY <1>1, <2>2, <2>3
  <1>7. n = IF AtHalf(c) \/ (AtEnd(c) /\ ~half)
            THEN IF raised[c] + 1 = B THEN 0 ELSE raised[c] + 1
            ELSE raised[c]
    <2>1. raised[c] \in 0 .. B - 1
      <3>. HIDE DEF p, B, H, i
      <3>. QED BY <1>1, <1>3
    <2>2. AtHalf(c) => half
      BY DEF AtHalf
    <2>3. CASE AtHalf(c) \/ (AtEnd(c) /\ ~half)
      <3>1. h + f = 1 /\ h \in Int /\ f \in Int
        BY <2>2, <2>3
      <3>. HIDE DEF h, f, B
      <3>2. raised[c] + h + f = raised[c] + 1
        BY <2>1, <3>1, <1>1
      <3>3. n = (raised[c] + 1) % B
        BY <3>2
      <3>. QED BY <1>1, <2>1, <2>3, <3>3, OneMoreBlock
    <2>4. CASE ~(AtHalf(c) \/ (AtEnd(c) /\ ~half))
      <3>1. h = 0 /\ f = 0
        BY <2>4
      <3>. HIDE DEF B, h, f
      <3>2. n = (raised[c] + 0 + 0) % B
        BY <3>1
      <3>. HIDE DEF n
      <3>. QED BY <1>1, <2>1, <2>4, <3>2, OneMoreBlock
    <2>. QED BY <2>3, <2>4
  <1>. HIDE DEF m, n, h, f, p, B, H, L, i, half
  <1>8. CASE ~AtEnd(c)
    <2>1. /\ s.index = i + 1 /\ (s.half_raised <=> r.half_raised \/ AtHalf(c))
          /\ s.secondary = r.secondary
      BY <1>8, CountedFields DEF i
    <2>2. m = L * q + s.index /\ s.index < L
      BY <1>1, <1>2, <1>5, <1>6, <1>8, <2>1
    <2>3. half => (s.half_raised <=> s.index >= H)
      <3>1. i + 1 >= H <=> i >= H \/ i + 1 = H
        BY <1>1, <1>2
      <3>. QED BY <1>3, <1>4, <2>1, <3>1
    <2>4. n = IF half /\ s.index >= H THEN p ELSE q
      BY <1>1, <1>2, <1>3, <1>4, <1>7, <1>8, <2>1
    <2>5. s.secondary <=> Mode[c].ping_pong /\ q % 2 = 1
      BY <1>3, <2>1
    <2>. HIDE DEF s
    <2>6. Reached(c, s, m, n, q)
      BY <1>3, <2>2, <2>3, <2>4, <2>5 DEF Reached, L, H, half, p
    <2>. QED BY <2>6 DEF s, m, n, B, L, h, f, half
  <1>9. CASE AtEnd(c)
    <2>1. /\ s.index = 0 /\ ~s.half_raised
          /\ s.secondary <=> IF Mode[c].ping_pong /\ ~LastBlock(c)
                             THEN ~r.secondary ELSE r.secondary
      BY <1>9, CountedFields
    <2>2. ~LastBlock(c)
      BY <1>9 DEF Stops
    <2>3. m = L * p + s.index /\ s.index < L
      BY <1>1, <1>2, <1>5, <1>6, <1>9, <2>1
    <2>4. (half => (s.half_raised <=> s.index >= H)) /\ ~(s.index >= H)
      BY <1>1, <2>1
    <2>5. n = p
      <3>1. half => i + 1 = H \/ i >= H
        BY <1>1, <1>2, <1>5, <1>9
      <3>. QED BY <1>1, <1>2, <1>3, <1>4, <1>7, <1>9, <3>1
    <2>6. s.secondary <=> Mode[c].ping_pong /\ p % 2 = 1
      <3>1. CASE ~Mode[c].ping_pong
        BY <1>3, <2>1, <3>1
      <3>2. CASE Mode[c].ping_pong
        <4>1. s.secondary <=> ~(q % 2 = 1)
          BY <1>3, <2>1, <2>2, <3>2
        <4>2. p % 2 = 1 <=> ~(q % 2 = 1)
          BY <1>1
        <4>. QED BY <3>2, <4>1, <4>2
      <3>. QED BY <3>1, <3>2
    <2>7. Mode[c].one_shot => p < (IF Mode[c].ping_pong THEN 2 ELSE 1)
      <3>1. SUFFICES ASSUME Mode[c].one_shot
                     PROVE  Mode[c].ping_pong /\ p < 2
        OBVIOUS
      <3>2. Mode[c].ping_pong /\ ~r.secondary
        BY <2>2, <3>1 DEF LastBlock
      <3>3. q < 2 /\ q % 2 # 1
        BY <1>3, <3>1, <3>2
      <3>4. q = 0
        BY <1>1, <3>3
      <3>. QED BY <1>1, <3>2, <3>4
    <2>. HIDE DEF s
    <2>8. Reached(c, s, m, n, p)
      BY <2>3, <2>4, <2>5, <2>6, <2>7 DEF Reached, L, H, half
    <2>. QED BY <1>1, <2>8 DEF s, m, n, B, L, h, f, half
  <1>. QED BY <1>8, <1>9

\* Nothing but the end of a transfer, and the start of a channel, moves it on.
SameBlock(s, r) == s.enabled => /\ r.enabled /\ s.index = r.index
                                /\ s.secondary = r.secondary /\ s.half_raised = r.half_raised

LEMMA BlockSame ==
    ASSUME BlockInv, \A c \in Channels : SameBlock(ch'[c], ch[c]),
           moved' = moved, raised' = raised
    PROVE  BlockInv'
  <1>1. \A c \in Channels : Accounted(c, ch'[c], moved[c], raised[c])
    <2>. TAKE c \in Channels
    <2>1. Accounted(c, ch[c], moved[c], raised[c]) /\ SameBlock(ch'[c], ch[c])
      BY DEF BlockInv
    <2>. QED BY <2>1 DEF Accounted, Reached, SameBlock
  <1>. QED BY <1>1 DEF BlockInv

\* What the operations leave of the position of a channel.
LEMMA SameBlockState ==
    ASSUME NEW r \in ChannelState, NEW forced \in BOOLEAN, NEW b \in BOOLEAN
    PROVE  /\ SameBlock(r, r)
           /\ SameBlock(Stopped(r), r)
           /\ SameBlock([Stopped(r) EXCEPT !.enabled = FALSE], r)
           /\ SameBlock([r EXCEPT !.rqc = TRUE], r)
           /\ SameBlock([r EXCEPT !.pwc = FALSE, !.rqc = FALSE], r)
           /\ SameBlock([r EXCEPT !.arbiter_waiting = TRUE], r)
           /\ SameBlock([Scheduled(r, TRUE) EXCEPT !.force = TRUE], r)
           /\ SameBlock(Scheduled(r, FALSE), r)
           /\ SameBlock(Withdrawn(r, forced), r)
           /\ SameBlock([Withdrawn(r, forced) EXCEPT !.pwc = b], r)
  <1>1. SameBlock(r, r) /\ SameBlock(Stopped(r), r)
    BY DEF SameBlock, Stopped, ChannelState
  <1>2. SameBlock([Stopped(r) EXCEPT !.enabled = FALSE], r)
    BY DEF SameBlock, Stopped, ChannelState
  <1>3. /\ SameBlock([r EXCEPT !.rqc = TRUE], r)
        /\ SameBlock([r EXCEPT !.pwc = FALSE, !.rqc = FALSE], r)
        /\ SameBlock([r EXCEPT !.arbiter_waiting = TRUE], r)
    BY DEF SameBlock, ChannelState
  <1>4. /\ SameBlock([Scheduled(r, TRUE) EXCEPT !.force = TRUE], r)
        /\ SameBlock(Scheduled(r, FALSE), r)
    BY DEF SameBlock, Scheduled, ChannelState
  <1>5. SameBlock(Withdrawn(r, forced), r) /\ SameBlock([Withdrawn(r, forced) EXCEPT !.pwc = b], r)
    BY DEF SameBlock, Withdrawn, RequestCleared, ForcedCleared, ChannelState
  <1>. QED BY <1>1, <1>2, <1>3, <1>4, <1>5

LEMMA SameBlockRequested ==
    ASSUME NEW r \in ChannelState, NEW accepted \in BOOLEAN
    PROVE  SameBlock(Requested(r, accepted), r)
  <1>. DEFINE f == Requested(r, FALSE)
  <1>1. f \in ChannelState
    BY RequestedState
  <1>2. SameBlock(f, r)
    BY DEF SameBlock, Requested, ForcedCleared, ChannelState
  <1>3. Requested(r, TRUE) = Scheduled(f, FALSE)
    BY DEF Requested
  <1>. HIDE DEF f
  <1>4. SameBlock(Scheduled(f, FALSE), f)
    BY <1>1, SameBlockState
  <1>5. SameBlock(Requested(r, TRUE), r)
    BY <1>2, <1>3, <1>4 DEF SameBlock
  <1>. QED BY <1>2, <1>5 DEF f

\* An enabled channel stays in its block under everything else.
LEMMA BlockElse ==
    ASSUME TypeOK, BlockInv,
           \/ DisableChannel \/ ForceRequest \/ dspic33_dma_request \/ ModuleDisable
           \/ ModuleEnable \/ ClearCollisions \/ Sleep \/ Wake \/ Tick
           \/ \E e \in events : \/ Ignore(e) \/ TryLater(e) \/ Refuse(e) \/ WaitForBus(e)
                                \/ AddressTrap(e) \/ Transfer(e)
    PROVE  BlockInv'
  <1>0. ch \in [Channels -> ChannelState] /\ \A c \in Channels : SameBlock(ch[c], ch[c])
    BY SameBlockState DEF TypeOK
  <1>1. CASE DisableChannel \/ ForceRequest
    <2>1. PICK c, s :
             /\ c \in Channels
             /\ s \in {[Stopped(ch[c]) EXCEPT !.enabled = FALSE], [ch[c] EXCEPT !.rqc = TRUE],
                       [Scheduled(ch[c], TRUE) EXCEPT !.force = TRUE]}
             /\ ch' = [ch EXCEPT ![c] = s] /\ moved' = moved /\ raised' = raised
      BY <1>1 DEF DisableChannel, ForceRequest
    <2>2. SameBlock(s, ch[c])
      BY <1>0, <2>1, SameBlockState
    <2>3. \A d \in Channels : SameBlock(ch'[d], ch[d])
      BY <1>0, <2>1, <2>2
    <2>. QED BY <2>1, <2>3, BlockSame
  <1>2. CASE dspic33_dma_request
    <2>1. PICK s : \E accepted \in [Listening(s) -> Answers] :
             /\ ch' = [c \in Channels |-> IF c \in Listening(s)
                                          THEN Requested(ch[c], accepted[c]) ELSE ch[c]]
             /\ moved' = moved /\ raised' = raised
      BY <1>2 DEF dspic33_dma_request
    <2>2. PICK accepted \in [Listening(s) -> Answers] :
             ch' = [c \in Channels |-> IF c \in Listening(s)
                                       THEN Requested(ch[c], accepted[c]) ELSE ch[c]]
      BY <2>1
    <2>3. \A c \in Listening(s) : accepted[c] \in BOOLEAN
      BY DmaAssumption
    <2>4. \A c \in Channels : SameBlock(ch'[c], ch[c])
      BY <1>0, <2>2, <2>3, SameBlockRequested
    <2>. QED BY <2>1, <2>4, BlockSame
  <1>3. CASE ModuleDisable
    <2>1. PICK g : /\ ch' = [c \in Channels |-> IF c \in {d \in Channels : Group(d) = g}
                                                THEN Stopped(ch[c]) ELSE ch[c]]
                   /\ moved' = moved /\ raised' = raised
      BY <1>3 DEF ModuleDisable
    <2>2. \A c \in Channels : SameBlock(Stopped(ch[c]), ch[c])
      BY <1>0, SameBlockState
    <2>3. \A c \in Channels : SameBlock(ch'[c], ch[c])
      BY <1>0, <2>1, <2>2
    <2>. QED BY <2>1, <2>3, BlockSame
  <1>4. CASE ClearCollisions
    <2>1. /\ ch' = [c \in Channels |-> [ch[c] EXCEPT !.pwc = FALSE, !.rqc = FALSE]]
          /\ moved' = moved /\ raised' = raised
      BY <1>4 DEF ClearCollisions
    <2>2. \A c \in Channels : SameBlock([ch[c] EXCEPT !.pwc = FALSE, !.rqc = FALSE], ch[c])
      BY <1>0, SameBlockState
    <2>3. \A c \in Channels : SameBlock(ch'[c], ch[c])
      BY <2>1, <2>2
    <2>. QED BY <2>1, <2>3, BlockSame
  <1>5. CASE ModuleEnable \/ Sleep \/ Wake \/ Tick
    BY <1>5 DEF ModuleEnable, Sleep, Wake, Tick, BlockInv
  <1>6. ASSUME NEW e \in events,
               \/ Ignore(e) \/ TryLater(e) \/ Refuse(e) \/ WaitForBus(e) \/ AddressTrap(e)
               \/ Transfer(e)
        PROVE  BlockInv'
    <2>. DEFINE c == e.channel
                r == ch[c]
                w == Withdrawn(r, e.forced)
    <2>1. c \in Channels /\ r \in ChannelState /\ e.forced \in BOOLEAN
      BY DEF TypeOK, DmaEvent
    <2>2. moved' = moved /\ raised' = raised
      BY <1>6 DEF Ignore, TryLater, Refuse, WaitForBus, AddressTrap, Transfer
    <2>3. \/ ch' = ch
          \/ \E s : ch' = [ch EXCEPT ![c] = s] /\ SameBlock(s, r)
      <3>1. CASE Transfer(e)
        <4>1. PICK collision \in BOOLEAN :
                 LET granted == [Granted(r, e.forced) EXCEPT !.pwc = collision]
                 IN  \/ ch' = [ch EXCEPT ![c] = [granted EXCEPT !.active = TRUE]]
                     \/ ch' = [ch EXCEPT ![c] = RequestCleared(granted, e.forced)]
          BY <3>1 DEF Transfer
        <4>. DEFINE t == [Granted(r, e.forced) EXCEPT !.pwc = collision]
        <4>2. RequestCleared(t, e.forced) = [w EXCEPT !.pwc = collision]
          BY <2>1, GrantedCleared
        <4>3. SameBlock([t EXCEPT !.active = TRUE], r)
          BY <2>1 DEF SameBlock, Granted, ChannelState
        <4>4. SameBlock([w EXCEPT !.pwc = collision], r)
          BY <2>1, SameBlockState
        <4>. HIDE DEF w, r
        <4>. QED BY <4>1, <4>2, <4>3, <4>4
      <3>2. CASE Ignore(e) \/ TryLater(e) \/ Refuse(e) \/ WaitForBus(e) \/ AddressTrap(e)
        <4>1. RequestCleared(Granted(r, e.forced), e.forced) = w
          BY <2>1, GrantedFields
        <4>2. \/ ch' = ch \/ ch' = [ch EXCEPT ![c] = w]
              \/ ch' = [ch EXCEPT ![c] = [r EXCEPT !.arbiter_waiting = TRUE]]
          BY <3>2, <4>1 DEF Ignore, TryLater, Refuse, WaitForBus, AddressTrap
        <4>. QED BY <2>1, <4>2, SameBlockState
      <3>. QED BY <1>6, <3>1, <3>2
    <2>4. \A d \in Channels : SameBlock(ch'[d], ch[d])
      BY <1>0, <2>1, <2>3
    <2>. QED BY <2>2, <2>4, BlockSame
  <1>. QED BY <1>1, <1>2, <1>3, <1>4, <1>5, <1>6

LEMMA BlockComplete ==
    ASSUME TypeOK, BlockInv, NEW e \in events, Complete(e)
    PROVE  BlockInv'
  <1>. DEFINE c == e.channel
              r == ch[c]
              k == Completed(c)
              done == [k EXCEPT !.active = FALSE]
              s == IF e.forced THEN ForcedCleared(done) ELSE done
              m == (moved[c] + 1) % (Blocks(c) * BlockLength(c))
              n == (raised[c] + (IF AtHalf(c) THEN 1 ELSE 0)
                              + (IF AtEnd(c) /\ ~Mode[c].half THEN 1 ELSE 0)) % Blocks(c)
  <1>1. c \in Channels /\ r \in ChannelState
    BY DEF TypeOK, DmaEvent
  <1>2. CASE ~r.active
    BY <1>2 DEF Complete, BlockInv
  <1>3. CASE r.active
    <2>1. /\ ch' = [ch EXCEPT ![c] = s]
          /\ moved' = [moved EXCEPT ![c] = m] /\ raised' = [raised EXCEPT ![c] = n]
      BY <1>3 DEF Complete
    <2>2. k \in ChannelState
      BY <1>1, CompletedState
    <2>3. /\ s.enabled = k.enabled /\ s.index = k.index /\ s.secondary = k.secondary
          /\ s.half_raised = k.half_raised
      <3>. HIDE DEF k
      <3>. QED BY <2>2 DEF ForcedCleared, ChannelState
    <2>4. Accounted(c, k, m, n)
      <3>1. CASE Stops(c)
        BY <1>1, <3>1, CompletedFields DEF Accounted
      <3>2. CASE ~Stops(c)
        <4>1. SUFFICES ASSUME k.enabled
                       PROVE  \E p \in 0 .. Blocks(c) - 1 : Reached(c, k, m, n, p)
          BY DEF Accounted
        <4>2. r.enabled /\ k = Counted(c)
          BY <1>1, <3>2, <4>1, CompletedFields DEF Completed
        <4>3. PICK q \in 0 .. Blocks(c) - 1 : Reached(c, r, moved[c], raised[c], q)
          BY <1>1, <4>2 DEF BlockInv, Accounted
        <4>. QED BY <1>1, <3>2, <4>2, <4>3, BlockCounted
      <3>. QED BY <3>1, <3>2
    <2>. HIDE DEF k, s, m, n
    <2>5. Accounted(c, s, m, n)
      BY <2>3, <2>4 DEF Accounted, Reached
    <2>6. \A d \in Channels : /\ ch'[d] = IF d = c THEN s ELSE ch[d]
                              /\ moved'[d] = IF d = c THEN m ELSE moved[d]
                              /\ raised'[d] = IF d = c THEN n ELSE raised[d]
      BY <2>1 DEF TypeOK
    <2>. QED BY <2>5, <2>6 DEF BlockInv
  <1>. QED BY <1>2, <1>3

LEMMA BlockBegin == TypeOK /\ BlockInv /\ (EnableChannel \/ WarmReset) => BlockInv'
  <1>. SUFFICES ASSUME TypeOK, BlockInv, EnableChannel \/ WarmReset PROVE BlockInv'
    OBVIOUS
  <1>1. CASE EnableChannel
    <2>1. PICK c \in Channels : /\ ch' = [ch EXCEPT ![c] = Started(@)]
                                /\ moved' = [moved EXCEPT ![c] = 0]
                                /\ raised' = [raised EXCEPT ![c] = 0]
      BY <1>1 DEF EnableChannel
    <2>. DEFINE s == Started(ch[c])
    <2>2. s.index = 0 /\ s.secondary = FALSE /\ s.half_raised = FALSE
      BY DEF Started, TypeOK, ChannelState
    <2>3. ch' = [ch EXCEPT ![c] = s]
      BY <2>1
    <2>. HIDE DEF s
    <2>4. Accounted(c, s, 0, 0)
      BY <2>2, BlockStart
    <2>5. \A d \in Channels : /\ ch'[d] = IF d = c THEN s ELSE ch[d]
                              /\ moved'[d] = IF d = c THEN 0 ELSE moved[d]
                              /\ raised'[d] = IF d = c THEN 0 ELSE raised[d]
      BY <2>1, <2>3 DEF TypeOK
    <2>. QED BY <2>4, <2>5 DEF BlockInv
  <1>2. CASE WarmReset
    BY <1>2 DEF WarmReset, BlockInv, Accounted, ResetState
  <1>. QED BY <1>1, <1>2

LEMMA BlocksFollow == Spec => []BlockInv
  <1>1. Init => BlockInv
    BY DEF Init, BlockInv, Accounted, ResetState
  <1>2. TypeOK /\ BlockInv /\ [Next]_vars => BlockInv'
    <2>. SUFFICES ASSUME TypeOK, BlockInv, [Next]_vars PROVE BlockInv'
      OBVIOUS
    <2>1. CASE Call \/ Tick
      BY <2>1, BlockElse, BlockBegin DEF Call
    <2>2. CASE Dispatch
      BY <2>2, BlockElse, BlockComplete DEF Dispatch
    <2>3. CASE Start
      BY <2>3, BlockElse DEF Start
    <2>4. CASE UNCHANGED vars
      BY <2>4 DEF vars, BlockInv
    <2>. QED BY <2>1, <2>2, <2>3, <2>4 DEF Next
  <1>. QED BY <1>1, <1>2, ControllerTyped, PTL DEF Spec

\* Index, buffer and interrupts agree with the transfers made since the channel
\* was enabled, for blocks of any length: one interrupt for each block, at its
\* middle or at its end, and a one-shot channel stops with its last block.
THEOREM BlocksAccounted == Spec => []BlockAccounting
  <1>1. ASSUME TypeOK, BlockInv PROVE BlockAccounting
    <2>. SUFFICES ASSUME NEW c \in Channels, ch[c].enabled
                  PROVE  LET blocks == moved[c] \div BlockLength(c)
                             middle == BlockLength(c) - HalfCount(c)
                         IN  /\ ch[c].index = moved[c] % BlockLength(c)
                             /\ ch[c].secondary = (Mode[c].ping_pong /\ blocks % 2 = 1)
                             /\ raised[c] = (IF Mode[c].half
                                             THEN (moved[c] + middle) \div BlockLength(c)
                                             ELSE blocks) % Blocks(c)
                             /\ Mode[c].one_shot =>
                                   blocks < (IF Mode[c].ping_pong THEN 2 ELSE 1)
      BY DEF BlockAccounting
    <2>. DEFINE L == BlockLength(c)
                H == HalfCount(c)
                B == Blocks(c)
                i == ch[c].index
                m == moved[c]
    <2>1. PICK q \in 0 .. B - 1 : Reached(c, ch[c], m, raised[c], q)
      BY <1>1 DEF BlockInv, Accounted
    <2>2. /\ H \in 1 .. L /\ L \in Nat \ {0} /\ B \in {2, 4} /\ q \in Nat
          /\ ch[c].secondary \in BOOLEAN
      BY <1>1, HalfRange DEF TypeOK, ChannelState
    <2>3. i \in 0 .. L - 1 /\ m = L * q + i
      BY <1>1, <2>1, <2>2 DEF TypeOK, ChannelState, Reached
    <2>4. /\ ch[c].secondary <=> Mode[c].ping_pong /\ q % 2 = 1
          /\ raised[c] = IF Mode[c].half /\ i >= H THEN After(c, q) ELSE q
          /\ Mode[c].one_shot => q < (IF Mode[c].ping_pong THEN 2 ELSE 1)
      BY <2>1 DEF Reached
    <2>5. After(c, q) = (q + 1) % B /\ q = q % B
      BY <2>1, <2>2, OneMoreBlock DEF After
    <2>. HIDE DEF L, H, B, i, m
    <2>6. m \div L = q /\ m % L = i
      BY <2>2, <2>3, Division
    <2>7. (m + (L - H)) \div L = IF i >= H THEN q + 1 ELSE q
      <3>1. CASE i >= H
        <4>1. m + (L - H) = L * (q + 1) + (i - H) /\ i - H \in 0 .. L - 1 /\ q + 1 \in Nat
          BY <2>2, <2>3, <3>1
        <4>2. (L * (q + 1) + (i - H)) \div L = q + 1
          BY <2>2, <4>1, Division
        <4>. QED BY <3>1, <4>1, <4>2
      <3>2. CASE i < H
        <4>1. m + (L - H) = L * q + (i + (L - H)) /\ i + (L - H) \in 0 .. L - 1
          BY <2>2, <2>3, <3>2
        <4>2. (L * q + (i + (L - H))) \div L = q
          BY <2>2, <4>1, Division
        <4>. QED BY <2>2, <2>3, <3>2, <4>1, <4>2
      <3>. QED BY <2>2, <2>3, <3>1, <3>2
    <2>8. raised[c] = (IF Mode[c].half THEN (m + (L - H)) \div L ELSE m \div L) % B
      BY <2>4, <2>5, <2>6, <2>7
    <2>9. ch[c].secondary = (Mode[c].ping_pong /\ (m \div L) % 2 = 1)
      BY <2>2, <2>4, <2>6
    <2>. QED BY <2>4, <2>6, <2>8, <2>9 DEF L, H, B, i, m
  <1>. QED BY <1>1, ControllerTyped, BlocksFollow, PTL
=============================================================================
