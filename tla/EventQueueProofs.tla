-------------------------- MODULE EventQueueProofs --------------------------
(***************************************************************************)
(* The safety properties of EventQueue.tla, what a step of the queue may   *)
(* never do, and that the queue keeps the promise of Agenda.tla, for every *)
(* value of the constants.                                                 *)
(***************************************************************************)
EXTENDS EventQueue, FiniteSetTheorems, TLAPS

\* What is true of every event whatever happens to the queue: only events that
\* have a clock pause, of the host only those whose module pauses them too, and
\* the host injects events of its own kinds.
Proper == {e \in Event :
              /\ e.paused => e.type \in GatedTypes
              /\ e.paused /\ e.external => e.type \in HostGatedTypes
              /\ e.external => e.type \in HostTypes}

Sound(E) == E \subseteq Proper /\ IsFiniteSet(E)

QueueInv == TypeOK /\ Sound(events)

LEMMA Numbers == /\ CycleLimit \in Nat /\ CycleLimit > 0
                 /\ MaxShift \in Nat /\ MaxShift > 0 /\ MaxShift <= CycleLimit
                 /\ MaxSequence \in Nat
  BY EventQueueAssumption

LEMMA SoundSubset ==
    ASSUME NEW E, Sound(E), NEW F \in SUBSET E
    PROVE  Sound(F)
  BY FS_Subset DEF Sound

LEMMA SoundUnion ==
    ASSUME NEW E, NEW F, Sound(E), Sound(F)
    PROVE  Sound(E \union F)
  BY FS_Union DEF Sound

LEMMA SoundAdd ==
    ASSUME NEW E, Sound(E), NEW e \in Proper
    PROVE  Sound(E \union {e})
  BY FS_AddElement DEF Sound

\* The image of a finite set of events; each operation has its own function.
LEMMA ImageFinite == ASSUME NEW S, IsFiniteSet(S), NEW f
                     PROVE  IsFiniteSet({f[x] : x \in S})
  <1>. DEFINE T == {f[x] : x \in S}
              g == [x \in S |-> f[x]]
  <1>1. g \in [S -> T]
    OBVIOUS
  <1>2. \A y \in T : \E x \in S : g[x] = y
    OBVIOUS
  <1>3. g \in Surjection(S, T)
    BY <1>1, <1>2 DEF Surjection
  <1>. QED BY <1>3, FS_Surjection

\* Sums and differences of cycles wrap once at most.
LEMMA WrappedWord ==
    ASSUME NEW n \in Int, n >= -CycleLimit - 1, n <= 2 * CycleLimit + 1
    PROVE  /\ Wrapped(n) \in Word
           /\ n \in Word => Wrapped(n) = n
  BY Numbers DEF Wrapped, Word

LEMMA EventFields ==
    ASSUME NEW e \in Event
    PROVE  /\ e.type \in Types /\ e.source \in Nat /\ e.value \in Nat /\ e.sequence \in Nat
           /\ e.cycle \in Word /\ e.cycle \in Nat /\ e.cycle <= CycleLimit
           /\ e.remaining \in Word /\ e.remaining \in Nat /\ e.remaining <= CycleLimit
           /\ e.paused \in BOOLEAN /\ e.external \in BOOLEAN
  BY Numbers DEF Event, Word

LEMMA Clock ==
    ASSUME TypeOK
    PROVE  /\ device_cycles \in Word /\ device_cycles \in Nat /\ device_cycles <= CycleLimit
           /\ target \in Word /\ target \in Nat /\ target <= CycleLimit
           /\ sequence \in Nat
  BY Numbers DEF TypeOK, Word

LEMMA ClockingTyped ==
    ASSUME NEW e \in Event, NEW c \in Word, NEW r \in Word, NEW p \in BOOLEAN
    PROVE  Clocking(e, c, r, p) \in Event
  BY DEF Clocking, Event

LEMMA RemainingWord ==
    ASSUME TypeOK, NEW e \in Event
    PROVE  /\ RemainingAt(e) \in Word
           /\ e.cycle >= device_cycles => RemainingAt(e) = e.cycle - device_cycles
  <1>1. /\ e.cycle \in Nat /\ e.cycle <= CycleLimit
        /\ device_cycles \in Nat /\ device_cycles <= CycleLimit
    BY EventFields, Clock
  <1>2. /\ e.cycle - device_cycles \in Int
        /\ e.cycle - device_cycles >= -CycleLimit - 1
        /\ e.cycle - device_cycles <= 2 * CycleLimit + 1
        /\ e.cycle >= device_cycles => e.cycle - device_cycles \in Word
    BY <1>1, Numbers DEF Word
  <1>3. /\ Wrapped(e.cycle - device_cycles) \in Word
        /\ e.cycle >= device_cycles
             => Wrapped(e.cycle - device_cycles) = e.cycle - device_cycles
    BY <1>2, WrappedWord
  <1>4. 0 \in Word /\ (e.cycle >= device_cycles => ~(e.cycle < device_cycles))
    BY <1>1, Numbers DEF Word
  <1>. QED BY <1>3, <1>4 DEF RemainingAt

LEMMA Kept ==
    ASSUME NEW e \in Event,
           e.paused => e.type \in GatedTypes,
           e.paused /\ e.external => e.type \in HostGatedTypes,
           e.external => e.type \in HostTypes
    PROVE  e \in Proper
  BY DEF Proper

\* The event a handler schedules.
LEMMA NewEventProper ==
    ASSUME TypeOK, NEW t \in Types, NEW s \in Nat, NEW v \in Nat, NEW d \in 0 .. CycleLimit,
           NEW x \in BOOLEAN, d <= CycleLimit - device_cycles, x => t \in HostTypes
    PROVE  NewEvent(t, s, v, d, x) \in Proper
  <1>1. device_cycles + d \in Word /\ 0 \in Word /\ sequence \in Nat
    BY Clock, Numbers DEF Word
  <1>2. NewEvent(t, s, v, d, x) \in Event
    BY <1>1 DEF NewEvent, Event
  <1>3. /\ NewEvent(t, s, v, d, x).paused = FALSE
        /\ NewEvent(t, s, v, d, x).external = x /\ NewEvent(t, s, v, d, x).type = t
    BY DEF NewEvent
  <1>4. ~NewEvent(t, s, v, d, x).paused
    BY <1>3
  <1>. QED BY <1>2, <1>3, <1>4, Kept

\* Events keep everything but their clock.
SameEvent(f, e) == /\ f.type = e.type /\ f.source = e.source /\ f.value = e.value
                   /\ f.sequence = e.sequence /\ f.external = e.external

LEMMA ClockingSame ==
    ASSUME NEW e
    PROVE  /\ SameEvent(e, e) /\ SameEvent(PauseEvent(e), e) /\ SameEvent(ResumeEvent(e), e)
           /\ \A n : SameEvent(Moved(e, n), e)
  BY DEF SameEvent, PauseEvent, ResumeEvent, Moved, Clocking

\* What gating and re-timing make of an event is an event, of the same kind.
LEMMA PausedProper ==
    ASSUME TypeOK, NEW e \in Proper, e.type \in GatedTypes,
           e.external => e.type \in HostGatedTypes
    PROVE  PauseEvent(e) \in Proper /\ PauseEvent(e).paused = TRUE
  <1>1. e \in Event /\ (e.external => e.type \in HostTypes)
    BY DEF Proper
  <1>2. PauseEvent(e) \in Event
    BY <1>1, EventFields, RemainingWord, ClockingTyped DEF PauseEvent
  <1>3. SameEvent(PauseEvent(e), e) /\ PauseEvent(e).paused = TRUE
    BY ClockingSame DEF PauseEvent, Clocking
  <1>. QED BY <1>1, <1>2, <1>3, Kept DEF SameEvent

LEMMA ResumedProper ==
    ASSUME TypeOK, NEW e \in Proper, ~ResumeOverflows(e)
    PROVE  /\ ResumeEvent(e) \in Proper /\ ResumeEvent(e).paused = FALSE
           /\ ResumeEvent(e).cycle >= device_cycles
  <1>1. e \in Event /\ (e.external => e.type \in HostTypes)
    BY DEF Proper
  <1>2. /\ e.remaining \in Nat /\ device_cycles \in Nat
        /\ e.remaining <= CycleLimit - device_cycles
    BY <1>1, EventFields, Clock, Numbers DEF ResumeOverflows
  <1>3. /\ device_cycles + e.remaining \in Word /\ 0 \in Word
        /\ device_cycles + e.remaining >= device_cycles
    BY <1>2, Clock, Numbers DEF Word
  <1>4. ResumeEvent(e) \in Event
    BY <1>1, <1>3, ClockingTyped DEF ResumeEvent
  <1>5. /\ SameEvent(ResumeEvent(e), e) /\ ResumeEvent(e).paused = FALSE
        /\ ResumeEvent(e).cycle = device_cycles + e.remaining
    BY ClockingSame DEF ResumeEvent, Clocking
  <1>6. ~ResumeEvent(e).paused
    BY <1>5
  <1>7. ResumeEvent(e) \in Proper
    BY <1>1, <1>4, <1>5, <1>6, Kept DEF SameEvent
  <1>. QED BY <1>3, <1>5, <1>7

LEMMA MovedProper ==
    ASSUME NEW e \in Proper, NEW n \in -MaxShift .. MaxShift
    PROVE  /\ Moved(e, n) \in Proper
           /\ Moved(e, n).paused = e.paused
           /\ ~e.paused /\ e.cycle + n \in Word => Moved(e, n).cycle = e.cycle + n
           /\ e.paused /\ e.remaining + n \in Word => Moved(e, n).remaining = e.remaining + n
  <1>1. /\ e \in Event /\ e.paused \in BOOLEAN
        /\ e.paused => e.type \in GatedTypes
        /\ e.paused /\ e.external => e.type \in HostGatedTypes
        /\ e.external => e.type \in HostTypes
    BY EventFields DEF Proper
  <1>2. /\ n \in Int /\ n >= -CycleLimit /\ n <= CycleLimit
        /\ e.cycle \in Nat /\ e.cycle <= CycleLimit
        /\ e.remaining \in Nat /\ e.remaining <= CycleLimit
    BY <1>1, EventFields, Numbers
  <1>3. ASSUME NEW m \in {e.cycle + n, e.remaining + n}
        PROVE  m \in Int /\ m >= -CycleLimit - 1 /\ m <= 2 * CycleLimit + 1
    BY <1>2, Numbers
  <1>4. /\ Wrapped(e.cycle + n) \in Word
        /\ e.cycle + n \in Word => Wrapped(e.cycle + n) = e.cycle + n
    BY <1>3, WrappedWord
  <1>5. /\ Wrapped(e.remaining + n) \in Word
        /\ e.remaining + n \in Word => Wrapped(e.remaining + n) = e.remaining + n
    BY <1>3, WrappedWord
  <1>6. CASE e.paused
    <2>1. Moved(e, n) = Clocking(e, e.cycle, Wrapped(e.remaining + n), TRUE)
      BY <1>6 DEF Moved
    <2>2. Moved(e, n) \in Event
      BY <1>1, <1>5, <2>1, EventFields, ClockingTyped
    <2>3. /\ SameEvent(Moved(e, n), e) /\ Moved(e, n).paused = TRUE
          /\ Moved(e, n).remaining = Wrapped(e.remaining + n)
      <3>1. SameEvent(Moved(e, n), e)
        BY ClockingSame
      <3>2. /\ Moved(e, n).paused = TRUE
            /\ Moved(e, n).remaining = Wrapped(e.remaining + n)
        BY <2>1 DEF Clocking
      <3>. QED BY <3>1, <3>2
    <2>4. Moved(e, n) \in Proper
      BY <1>1, <1>6, <2>2, <2>3, Kept DEF SameEvent
    <2>. QED BY <1>1, <1>5, <1>6, <2>3, <2>4
  <1>7. CASE ~e.paused
    <2>1. Moved(e, n) = Clocking(e, Wrapped(e.cycle + n), e.remaining, FALSE)
      BY <1>7 DEF Moved
    <2>2. Moved(e, n) \in Event
      BY <1>1, <1>4, <2>1, EventFields, ClockingTyped
    <2>3. /\ SameEvent(Moved(e, n), e) /\ Moved(e, n).paused = FALSE
          /\ Moved(e, n).cycle = Wrapped(e.cycle + n)
      <3>1. SameEvent(Moved(e, n), e)
        BY ClockingSame
      <3>2. /\ Moved(e, n).paused = FALSE
            /\ Moved(e, n).cycle = Wrapped(e.cycle + n)
        BY <2>1 DEF Clocking
      <3>. QED BY <3>1, <3>2
    <2>4. Moved(e, n) \in Proper
      BY <1>1, <2>2, <2>3, Kept DEF SameEvent
    <2>. QED BY <1>1, <1>4, <1>7, <2>3, <2>4
  <1>. QED BY <1>6, <1>7

\* A step that replaces each event by what h has for it.
Relabels(h) ==
    /\ events' = {h[e] : e \in events}
    /\ \A e \in events : h[e] \in Proper /\ SameEvent(h[e], e)

GateMap(t) == [e \in events |-> IF Clocked(e, t) /\ ~e.paused THEN PauseEvent(e) ELSE e]

UngateMap(t) == [e \in events |-> IF e.type = t /\ e.paused /\ ~ResumeOverflows(e)
                                  THEN ResumeEvent(e) ELSE e]

MoveMap(S, n) == [e \in events |-> IF e \in S THEN Moved(e, n) ELSE e]

LEMMA GateRelabels == ASSUME QueueInv, NEW t \in GatedTypes, Gate(t) PROVE Relabels(GateMap(t))
  <1>1. events' = {GateMap(t)[e] : e \in events}
    BY DEF Gate, GateMap
  <1>2. ASSUME NEW e \in events PROVE GateMap(t)[e] \in Proper /\ SameEvent(GateMap(t)[e], e)
    <2>1. e \in Proper /\ TypeOK
      BY DEF QueueInv, Sound
    <2>2. CASE Clocked(e, t) /\ ~e.paused
      <3>1. e.type = t /\ (e.external => t \in HostGatedTypes)
        BY <2>2 DEF Clocked
      <3>2. GateMap(t)[e] = PauseEvent(e)
        BY <2>2 DEF GateMap
      <3>. QED BY <2>1, <3>1, <3>2, PausedProper, ClockingSame
    <2>3. CASE ~(Clocked(e, t) /\ ~e.paused)
      BY <2>1, <2>3, ClockingSame DEF GateMap
    <2>. QED BY <2>2, <2>3
  <1>. QED BY <1>1, <1>2 DEF Relabels

LEMMA UngateRelabels ==
    ASSUME QueueInv, NEW t \in GatedTypes, Ungate(t) PROVE Relabels(UngateMap(t))
  <1>. DEFINE resumed == {e \in events : e.type = t /\ e.paused}
  <1>1. events' = {UngateMap(t)[e] : e \in events}
    <2>1. events' = (events \ resumed) \union
             {IF ResumeOverflows(e) THEN e ELSE ResumeEvent(e) : e \in resumed}
      BY DEF Ungate
    <2>2. \A e \in events \ resumed : UngateMap(t)[e] = e
      BY DEF UngateMap
    <2>3. \A e \in resumed : UngateMap(t)[e] = IF ResumeOverflows(e) THEN e ELSE ResumeEvent(e)
      BY DEF UngateMap
    <2>4. resumed \subseteq events
      OBVIOUS
    <2>. HIDE DEF resumed
    <2>. QED BY <2>1, <2>2, <2>3, <2>4
  <1>2. ASSUME NEW e \in events
        PROVE  UngateMap(t)[e] \in Proper /\ SameEvent(UngateMap(t)[e], e)
    <2>1. e \in Proper /\ TypeOK
      BY DEF QueueInv, Sound
    <2>2. CASE e.type = t /\ e.paused /\ ~ResumeOverflows(e)
      <3>1. UngateMap(t)[e] = ResumeEvent(e)
        BY <2>2 DEF UngateMap
      <3>. QED BY <2>1, <2>2, <3>1, ResumedProper, ClockingSame
    <2>3. CASE ~(e.type = t /\ e.paused /\ ~ResumeOverflows(e))
      BY <2>1, <2>3, ClockingSame DEF UngateMap
    <2>. QED BY <2>2, <2>3
  <1>. QED BY <1>1, <1>2 DEF Relabels

\* Stretching and shifting: the events of S, all of one kind, move by n.  What is
\* not disturbed by it is neither in the past nor wrapped.
Moves(t, S, n) ==
    /\ t \in StretchedTypes \union ShiftedTypes
    /\ S \in SUBSET {e \in events : e.type = t}
    /\ n \in -MaxShift .. MaxShift
    /\ events' = (events \ S) \union {Moved(e, n) : e \in S}
    /\ unordered' \in BOOLEAN /\ disturbed' \in BOOLEAN
    /\ stop_reason' \in {"running", "queue_error"}
    /\ ~disturbed' =>
          /\ ~disturbed
          /\ \A e \in S : IF e.paused THEN n >= 0 /\ e.remaining + n <= CycleLimit
                          ELSE e.cycle + n <= CycleLimit
                               /\ (e.cycle >= device_cycles => e.cycle + n >= device_cycles)
    /\ UNCHANGED <<sequence, device_cycles, target, advancing, gated, generation>>

LEMMA RetimedMoves == ASSUME QueueInv, Retimed PROVE \E t, S, n : Moves(t, S, n)
  <1>1. /\ \A e \in events : e \in Event /\ e \in Proper
        /\ unordered \in BOOLEAN /\ disturbed \in BOOLEAN
        /\ stop_reason \in {"running", "queue_error"}
        /\ device_cycles \in Nat
    BY Clock DEF QueueInv, Sound, Proper, TypeOK
  <1>2. 1 \in -MaxShift .. MaxShift
    BY Numbers
  <1>3. ASSUME NEW S \in SUBSET events, \A e \in S : ~e.paused => e.cycle < CycleLimit,
               ~\E e \in S : e.paused /\ e.remaining = CycleLimit, NEW e \in S
        PROVE  IF e.paused THEN 1 >= 0 /\ e.remaining + 1 <= CycleLimit
               ELSE e.cycle + 1 <= CycleLimit
                    /\ (e.cycle >= device_cycles => e.cycle + 1 >= device_cycles)
    <2>1. /\ e.cycle \in Nat /\ e.remaining \in Nat /\ e.remaining <= CycleLimit
          /\ e.paused \in BOOLEAN
      BY <1>1, EventFields
    <2>. QED BY <1>1, <1>3, <2>1, Numbers
  <1>4. ASSUME NEW t \in StretchedTypes, Stretch(t) PROVE \E S : Moves(t, S, 1)
    <2>1. PICK S \in SUBSET {e \in events : e.type = t} :
             /\ \A e \in S : ~e.paused => e.cycle < CycleLimit
             /\ events' = (events \ S) \union {Moved(e, 1) : e \in S}
             /\ unordered' = (unordered /\ S = {})
             /\ disturbed' = (disturbed \/ \E e \in S : e.paused /\ e.remaining = CycleLimit)
             /\ UNCHANGED <<sequence, device_cycles, target, advancing, gated, generation,
                            stop_reason>>
      BY <1>4 DEF Stretch
    <2>2. S \in SUBSET events
      OBVIOUS
    <2>3. unordered' \in BOOLEAN /\ disturbed' \in BOOLEAN
      BY <2>1
    <2>4. Moves(t, S, 1)
      BY <1>1, <1>2, <1>3, <2>1, <2>2, <2>3 DEF Moves
    <2>. QED BY <2>4
  <1>5. ASSUME NEW t \in StretchedTypes, StretchFails(t) PROVE \E S : Moves(t, S, 1)
    <2>1. PICK S \in SUBSET {e \in events : e.type = t} :
             /\ \A e \in S : ~e.paused => e.cycle < CycleLimit
             /\ events' = (events \ S) \union {Moved(e, 1) : e \in S}
             /\ unordered' = (unordered \/ S # {})
             /\ disturbed' = (disturbed \/ \E e \in S : e.paused /\ e.remaining = CycleLimit)
             /\ stop_reason' = "queue_error"
             /\ UNCHANGED <<sequence, device_cycles, target, advancing, gated, generation>>
      BY <1>5 DEF StretchFails
    <2>2. S \in SUBSET events
      OBVIOUS
    <2>3. unordered' \in BOOLEAN /\ disturbed' \in BOOLEAN
      BY <2>1
    <2>4. Moves(t, S, 1)
      BY <1>1, <1>2, <1>3, <2>1, <2>2, <2>3 DEF Moves
    <2>. QED BY <2>4
  <1>6. ASSUME NEW t \in ShiftedTypes, Shift(t) PROVE \E S, n : Moves(t, S, n)
    <2>. DEFINE S == {e \in events : e.type = t}
    <2>1. PICK n \in -MaxShift .. MaxShift :
             /\ events' = (events \ S) \union {Moved(e, n) : e \in S}
             /\ unordered' = FALSE
             /\ disturbed' = (disturbed \/ \E e \in S : e.cycle + n
                                                          \notin device_cycles .. CycleLimit)
             /\ UNCHANGED <<sequence, device_cycles, target, advancing, gated, generation,
                            stop_reason>>
      BY <1>6 DEF Shift
    <2>2. \A e \in S : ~e.paused
      BY <1>1, EventQueueAssumption DEF Proper
    <2>3. ASSUME NEW e \in S, e.cycle + n \in device_cycles .. CycleLimit
          PROVE  e.cycle + n <= CycleLimit /\ e.cycle + n >= device_cycles
      BY <2>3
    <2>. HIDE DEF S
    <2>4. unordered' \in BOOLEAN /\ disturbed' \in BOOLEAN
      BY <2>1
    <2>5. ~disturbed' =>
            /\ ~disturbed
            /\ \A e \in S : IF e.paused THEN n >= 0 /\ e.remaining + n <= CycleLimit
                            ELSE e.cycle + n <= CycleLimit
                                 /\ (e.cycle >= device_cycles => e.cycle + n >= device_cycles)
      BY <2>1, <2>2, <2>3
    <2>6. S \in SUBSET {e \in events : e.type = t}
      BY DEF S
    <2>7. Moves(t, S, n)
      BY <1>1, <2>1, <2>4, <2>5, <2>6 DEF Moves
    <2>. QED BY <2>7
  <1>. QED BY <1>4, <1>5, <1>6 DEF Retimed

LEMMA MovesRelabels ==
    ASSUME QueueInv, NEW t, NEW S, NEW n, Moves(t, S, n) PROVE Relabels(MoveMap(S, n))
  <1>0. n \in -MaxShift .. MaxShift /\ S \in SUBSET events
    BY DEF Moves
  <1>1. events' = {MoveMap(S, n)[e] : e \in events}
    <2>1. events' = (events \ S) \union {Moved(e, n) : e \in S}
      BY DEF Moves
    <2>2. /\ \A e \in events \ S : MoveMap(S, n)[e] = e
          /\ \A e \in S : MoveMap(S, n)[e] = Moved(e, n)
      BY <1>0 DEF MoveMap
    <2>. QED BY <1>0, <2>1, <2>2
  <1>2. ASSUME NEW e \in events
        PROVE  MoveMap(S, n)[e] \in Proper /\ SameEvent(MoveMap(S, n)[e], e)
    <2>1. e \in Proper
      BY DEF QueueInv, Sound
    <2>2. CASE e \in S
      BY <1>0, <2>1, <2>2, MovedProper, ClockingSame DEF MoveMap
    <2>3. CASE e \notin S
      BY <2>1, <2>3, ClockingSame DEF MoveMap
    <2>. QED BY <2>2, <2>3
  <1>. QED BY <1>1, <1>2 DEF Relabels

LEMMA RelabelSound == ASSUME QueueInv, NEW h, Relabels(h) PROVE Sound(events')
  <1>1. IsFiniteSet({h[e] : e \in events})
    BY ImageFinite DEF QueueInv, Sound
  <1>. QED BY <1>1 DEF Relabels, Sound
-----------------------------------------------------------------------------
LEMMA QueueInit == Init => QueueInv
  <1>. SUFFICES ASSUME Init PROVE QueueInv
    OBVIOUS
  <1>1. TypeOK
    <2>1. 0 \in Word
      BY Numbers DEF Word
    <2>2. advancing \in BOOLEAN /\ unordered \in BOOLEAN /\ disturbed \in BOOLEAN
      BY DEF Init
    <2>3. generation \in [ClockTypes -> Nat]
      BY DEF Init
    <2>. QED BY <2>1, <2>2, <2>3 DEF Init, TypeOK
  <1>2. Sound(events)
    BY FS_EmptySet DEF Init, Sound
  <1>. QED BY <1>1, <1>2 DEF QueueInv

LEMMA SourcesNatural == ASSUME NEW t, NEW s \in Sources(t) PROVE s \in Nat
  BY DmaCountAssumption DEF Sources

\* The event as it is scheduled: at its cycle, or paused.
LEMMA PlacedProper ==
    ASSUME TypeOK, NEW t \in Types, NEW s \in Nat, NEW d \in 0 .. CycleLimit,
           NEW x \in BOOLEAN, d <= CycleLimit - device_cycles, x => t \in HostTypes
    PROVE  LET new == NewEvent(t, s, 0, d, x)
           IN  /\ Placed(new) \in Proper /\ SameEvent(Placed(new), new)
               /\ t \notin HeldTypes \intersect gated => Placed(new) = new
               /\ t \in HeldTypes \intersect gated => /\ Placed(new) = PauseEvent(new)
                                                     /\ Placed(new).paused = TRUE
               /\ new \in Event /\ new.type = t /\ new.external = x
               /\ new.sequence = sequence /\ new.value = 0
               /\ new.cycle >= device_cycles /\ new.paused = FALSE
  <1>. DEFINE new == NewEvent(t, s, 0, d, x)
  <1>1. /\ new \in Proper /\ new.type = t /\ new.external = x /\ new.paused = FALSE
        /\ new.sequence = sequence /\ new.value = 0 /\ new.cycle = device_cycles + d
    BY NewEventProper DEF NewEvent
  <1>2. new.cycle >= device_cycles
    BY <1>1, Clock, Numbers
  <1>. HIDE DEF new
  <1>3. new \in Event
    BY <1>1 DEF Proper
  <1>4. CASE t \in HeldTypes \intersect gated
    <2>1. Placed(new) = PauseEvent(new)
      BY <1>1, <1>4 DEF Placed
    <2>2. t \in GatedTypes /\ ~x
      BY <1>4, EventQueueAssumption
    <2>3. PauseEvent(new) \in Proper /\ PauseEvent(new).paused = TRUE
      BY <1>1, <2>2, PausedProper
    <2>4. SameEvent(PauseEvent(new), new)
      BY ClockingSame
    <2>. QED BY <1>1, <1>2, <1>3, <1>4, <2>1, <2>3, <2>4 DEF new
  <1>5. CASE t \notin HeldTypes \intersect gated
    <2>1. Placed(new) = new
      BY <1>1, <1>5 DEF Placed
    <2>2. SameEvent(new, new)
      BY ClockingSame
    <2>. QED BY <1>1, <1>2, <1>3, <1>5, <2>1, <2>2 DEF new
  <1>. QED BY <1>4, <1>5

LEMMA QueueSchedule ==
    ASSUME QueueInv, NEW t \in Types, NEW s \in Nat, NEW d \in 0 .. CycleLimit,
           NEW x \in BOOLEAN, x => t \in HostTypes, schedule_event(t, s, d, x)
    PROVE  QueueInv'
  <1>. DEFINE new == NewEvent(t, s, 0, d, x)
  <1>1. d <= CycleLimit - device_cycles
    BY DEF schedule_event
  <1>2. Placed(new) \in Proper
    BY <1>1, PlacedProper DEF QueueInv
  <1>3. events' = events \union {Placed(new)}
    BY DEF schedule_event
  <1>. HIDE DEF new
  <1>4. Sound(events')
    BY <1>2, <1>3, SoundAdd DEF QueueInv
  <1>5. /\ sequence' = sequence + 1 /\ unordered' \in BOOLEAN
        /\ UNCHANGED <<device_cycles, target, advancing, gated, generation, stop_reason, disturbed>>
    BY DEF schedule_event
  <1>6. TypeOK'
    BY <1>4, <1>5 DEF QueueInv, TypeOK, Sound, Proper
  <1>. QED BY <1>4, <1>6 DEF QueueInv

LEMMA QueueLock ==
    ASSUME QueueInv, NEW t \in ClockTypes, NEW g \in Nat, ScheduleLock(t, g),
           generation' \in [ClockTypes -> Nat]
    PROVE  QueueInv'
  <1>1. PICK d \in 0 .. CycleLimit :
           /\ d <= CycleLimit - device_cycles
           /\ sequence' = sequence + 1
           /\ events' = events \union {NewEvent(t, 0, g, d, FALSE)}
           /\ UNCHANGED <<device_cycles, target, advancing, gated, stop_reason, unordered,
                          disturbed>>
    BY DEF ScheduleLock
  <1>2. NewEvent(t, 0, g, d, FALSE) \in Proper
    BY <1>1, NewEventProper, EventQueueAssumption DEF QueueInv
  <1>3. Sound(events')
    BY <1>1, <1>2, SoundAdd DEF QueueInv
  <1>4. /\ sequence' = sequence + 1
        /\ UNCHANGED <<device_cycles, target, advancing, gated, stop_reason, unordered,
                       disturbed>>
    BY <1>1
  <1>5. TypeOK'
    BY <1>3, <1>4 DEF QueueInv, TypeOK, Sound, Proper
  <1>. QED BY <1>3, <1>5 DEF QueueInv

\* What reconfiguring a clock does to the generations.
LEMMA Regenerated ==
    ASSUME QueueInv, NEW t \in ClockTypes, ReconfigureClock(t)
    PROVE  /\ NextGeneration(t) = generation[t] + 1 /\ NextGeneration(t) \in Nat
           /\ generation' \in [ClockTypes -> Nat]
           /\ generation'[t] = generation[t] + 1
           /\ \A u \in ClockTypes : u # t => generation'[u] = generation[u]
  <1>1. /\ generation \in [ClockTypes -> Nat]
        /\ generation' = [generation EXCEPT ![t] = NextGeneration(t)]
    BY DEF ReconfigureClock, QueueInv, TypeOK
  <1>2. NextGeneration(t) = generation[t] + 1 /\ NextGeneration(t) \in Nat
    BY <1>1 DEF NextGeneration
  <1>. QED BY <1>1, <1>2

LEMMA QueueClock == QueueInv /\ ClockChanged => QueueInv'
  <1>. SUFFICES ASSUME QueueInv, NEW t \in ClockTypes, ReconfigureClock(t) \/ ContinueClock(t)
                PROVE  QueueInv'
    BY DEF ClockChanged
  <1>1. CASE ReconfigureClock(t)
    <2>1. NextGeneration(t) \in Nat /\ generation' \in [ClockTypes -> Nat]
      BY <1>1, Regenerated
    <2>2. CASE ScheduleLock(t, NextGeneration(t))
      BY <2>1, <2>2, QueueLock
    <2>3. CASE UNCHANGED <<events, sequence, device_cycles, target, advancing, gated, stop_reason,
                           unordered, disturbed>>
      BY <2>1, <2>3 DEF QueueInv, TypeOK, Sound
    <2>. QED BY <1>1, <2>2, <2>3 DEF ReconfigureClock
  <1>2. CASE ContinueClock(t)
    <2>1. /\ ScheduleLock(t, generation[t])
          /\ generation[t] \in Nat /\ generation' \in [ClockTypes -> Nat]
      BY <1>2 DEF ContinueClock, QueueInv, TypeOK
    <2>. QED BY <2>1, QueueLock
  <1>. QED BY <1>1, <1>2

LEMMA QueueAdvance == QueueInv /\ (BeginAdvance \/ AdvanceClock) => QueueInv'
  <1>1. ASSUME QueueInv, BeginAdvance PROVE QueueInv'
    <2>1. PICK n \in 0 .. CycleLimit :
             n <= CycleLimit - device_cycles /\ target' = device_cycles + n
      BY <1>1 DEF BeginAdvance
    <2>2. target' \in Word
      BY <1>1, <2>1, Clock, Numbers DEF QueueInv, Word
    <2>. QED BY <1>1, <2>2 DEF BeginAdvance, QueueInv, TypeOK, Sound
  <1>2. ASSUME QueueInv, AdvanceClock PROVE QueueInv'
    <2>1. PICK next \in NextCycles : \E n \in 1 .. Wrapped(next - device_cycles) :
             device_cycles' = Wrapped(device_cycles + n)
      BY <1>2 DEF AdvanceClock
    <2>2. next \in Nat /\ next <= CycleLimit
      <3>1. \A e \in Heads : e \in Event
        BY <1>2 DEF Heads, QueueInv, Sound, Proper
      <3>2. next = target \/ \E e \in Heads : next = e.cycle
        BY DEF NextCycles
      <3>. QED BY <1>2, <3>1, <3>2, EventFields, Clock DEF QueueInv
    <2>3. device_cycles \in Nat /\ device_cycles <= CycleLimit
      BY <1>2, Clock DEF QueueInv
    <2>4. Wrapped(next - device_cycles) \in Word
      BY <2>2, <2>3, Numbers, WrappedWord
    <2>5. PICK n \in 1 .. Wrapped(next - device_cycles) :
             device_cycles' = Wrapped(device_cycles + n)
      BY <2>1
    <2>6. n \in Nat /\ n <= CycleLimit
      BY <2>4, <2>5, Numbers DEF Word
    <2>7. device_cycles' \in Word
      BY <2>3, <2>5, <2>6, Numbers, WrappedWord
    <2>8. disturbed' \in BOOLEAN
      BY <1>2 DEF AdvanceClock
    <2>. QED BY <1>2, <2>7, <2>8 DEF AdvanceClock, QueueInv, TypeOK, Sound
  <1>. QED BY <1>1, <1>2

\* The steps that take events out, or leave them as they are.
Takes == /\ events' \in SUBSET events
         /\ target' \in {target, device_cycles}
         /\ unordered' \in BOOLEAN /\ stop_reason' \in {"running", "queue_error"}
         /\ advancing' \in {advancing, FALSE}
         /\ UNCHANGED <<sequence, device_cycles, gated, generation, disturbed>>

LEMMA TakingSteps ==
    QueueInv /\ (DispatchEvent \/ EndAdvance \/ AbortAdvance \/ RunAgain \/ DiscardEvents
                   \/ CancelEvents \/ UNCHANGED vars) => Takes
  BY DEF DispatchEvent, EndAdvance, AbortAdvance, RunAgain, DiscardEvents, CancelEvents, vars,
         QueueInv, TypeOK, Takes

LEMMA QueueTake == QueueInv /\ Takes => QueueInv'
  <1>. SUFFICES ASSUME QueueInv, Takes PROVE QueueInv'
    OBVIOUS
  <1>1. Sound(events')
    BY SoundSubset DEF Takes, QueueInv
  <1>2. TypeOK'
    BY <1>1 DEF Takes, QueueInv, TypeOK, Sound, Proper
  <1>. QED BY <1>1, <1>2 DEF QueueInv

LEMMA QueueGate == ASSUME QueueInv, NEW t \in GatedTypes, Gate(t) \/ Ungate(t) PROVE QueueInv'
  <1>1. Sound(events')
    BY GateRelabels, UngateRelabels, RelabelSound
  <1>2. /\ unordered' \in BOOLEAN /\ stop_reason' \in {"running", "queue_error"}
        /\ gated' \in {gated \union {t}, gated \ {t}}
        /\ UNCHANGED <<sequence, device_cycles, target, advancing, generation, disturbed>>
    BY DEF Gate, Ungate, QueueInv, TypeOK
  <1>3. TypeOK'
    BY <1>1, <1>2 DEF QueueInv, TypeOK, Sound, Proper
  <1>. QED BY <1>1, <1>3 DEF QueueInv

LEMMA QueueMove == ASSUME QueueInv, NEW t, NEW S, NEW n, Moves(t, S, n) PROVE QueueInv'
  <1>1. Sound(events')
    BY MovesRelabels, RelabelSound
  <1>2. TypeOK'
    BY <1>1 DEF Moves, QueueInv, TypeOK, Sound, Proper
  <1>. QED BY <1>1, <1>2 DEF QueueInv

LEMMA LocksFinite == ASSUME QueueInv
                     PROVE  /\ IsFiniteSet(LocksUnderWay)
                            /\ Cardinality(LocksUnderWay) \in Nat
                            /\ \A c \in LocksUnderWay : RequeuePosition(c) \in Nat
  <1>1. IsFiniteSet(LocksUnderWay)
    BY FS_Subset DEF QueueInv, Sound, LocksUnderWay
  <1>2. ASSUME NEW c \in LocksUnderWay PROVE Cardinality(LocksUnderWay \ {c}) \in Nat
    BY <1>1, FS_Difference, FS_CardinalityType
  <1>. QED BY <1>1, <1>2, FS_CardinalityType DEF RequeuePosition

LEMMA RequeuedProper ==
    ASSUME QueueInv, NEW c \in LocksUnderWay
    PROVE  /\ Requeued(c) \in Proper
           /\ Requeued(c).cycle >= device_cycles
           /\ c.cycle >= device_cycles => Requeued(c).cycle = c.cycle
           /\ Requeued(c).paused = c.paused
           /\ Requeued(c).sequence = sequence + RequeuePosition(c)
           /\ Requeued(c).type = c.type /\ Requeued(c).value = c.value
           /\ Requeued(c).external = c.external
  <1>. DEFINE cycle == IF c.cycle > device_cycles THEN c.cycle ELSE device_cycles
              number == sequence + RequeuePosition(c)
  <1>1. c \in Event /\ c \in Proper /\ sequence \in Nat
    BY Clock DEF QueueInv, Sound, LocksUnderWay, Proper
  <1>2. number \in Nat
    BY <1>1, LocksFinite
  <1>3. /\ cycle \in Word /\ cycle >= device_cycles
        /\ c.cycle >= device_cycles => cycle = c.cycle
    BY <1>1, EventFields, Clock DEF QueueInv
  <1>4. Requeued(c) = [c EXCEPT !.sequence = number, !.cycle = cycle]
    BY DEF Requeued
  <1>. HIDE DEF cycle, number
  <1>5. /\ Requeued(c) \in Event
        /\ Requeued(c).sequence = number /\ Requeued(c).cycle = cycle
        /\ Requeued(c).type = c.type /\ Requeued(c).value = c.value
        /\ Requeued(c).paused = c.paused /\ Requeued(c).external = c.external
    BY <1>1, <1>2, <1>3, <1>4 DEF Event
  <1>6. Requeued(c) \in Proper
    BY <1>1, <1>5 DEF Proper
  <1>. QED BY <1>3, <1>5, <1>6 DEF number

\* What a reset may leave in the queue.
Carried == {e \in events : e.external} \union {Requeued(c) : c \in LocksUnderWay}

LEMMA CarriedSound == QueueInv => Sound(Carried)
  <1>. SUFFICES ASSUME QueueInv PROVE Sound(Carried)
    OBVIOUS
  <1>1. IsFiniteSet({Requeued(c) : c \in LocksUnderWay})
    <2>. DEFINE F == [c \in LocksUnderWay |-> Requeued(c)]
    <2>1. IsFiniteSet({F[c] : c \in LocksUnderWay})
      BY LocksFinite, ImageFinite
    <2>2. {F[c] : c \in LocksUnderWay} = {Requeued(c) : c \in LocksUnderWay}
      OBVIOUS
    <2>. QED BY <2>1, <2>2
  <1>2. \A c \in LocksUnderWay : Requeued(c) \in Proper
    BY RequeuedProper
  <1>3. Sound({Requeued(c) : c \in LocksUnderWay})
    BY <1>1, <1>2 DEF Sound
  <1>4. Sound({e \in events : e.external})
    BY SoundSubset DEF QueueInv
  <1>. QED BY <1>3, <1>4, SoundUnion DEF Carried

\* A clock an event of which is left keeps its generation: a warm reset keeps
\* them all, a brown-out drops the events of the oscillator with its generation.
Restarted == /\ events' \subseteq Carried
             /\ sequence' = sequence + Cardinality(LocksUnderWay)
             /\ sequence' <= MaxSequence
             /\ gated' = gated \intersect HostGatedTypes /\ stop_reason' = "running"
             /\ unordered' = FALSE
             /\ generation' \in [ClockTypes -> Nat]
             /\ \A t \in ClockTypes : \/ generation'[t] = generation[t]
                                      \/ \A e \in events' : e.type = t => e.external
             /\ UNCHANGED <<device_cycles, target, advancing, disturbed>>

LEMMA ResetRestarts == QueueInv /\ (WarmReset \/ BrownOutReset) => Restarted
  <1>1. ASSUME QueueInv, WarmReset PROVE Restarted
    BY <1>1 DEF WarmReset, SequenceAfterReset, Restarted, Carried, QueueInv, TypeOK
  <1>2. ASSUME QueueInv, BrownOutReset PROVE Restarted
    <2>1. /\ events' = {e \in events : e.external} \union
                    {Requeued(c) : c \in {l \in LocksUnderWay : l.type # "OSCILLATOR"}}
          /\ generation' = [t \in ClockTypes |-> IF t = "OSCILLATOR" THEN 0 ELSE generation[t]]
          /\ sequence' = sequence + Cardinality(LocksUnderWay) /\ sequence' <= MaxSequence
          /\ gated' = gated \intersect HostGatedTypes /\ stop_reason' = "running"
          /\ unordered' = FALSE
          /\ UNCHANGED <<device_cycles, target, advancing, disturbed>>
      BY <1>2 DEF BrownOutReset, SequenceAfterReset
    <2>2. events' \subseteq Carried
      BY <2>1 DEF Carried
    <2>3. generation' \in [ClockTypes -> Nat]
      BY <1>2, <2>1 DEF QueueInv, TypeOK
    <2>4. \A e \in events' : e.type = "OSCILLATOR" => e.external
      BY <1>2, <2>1, RequeuedProper
    <2>5. \A t \in ClockTypes : t # "OSCILLATOR" => generation'[t] = generation[t]
      BY <2>1
    <2>. QED BY <2>1, <2>2, <2>3, <2>4, <2>5 DEF Restarted
  <1>. QED BY <1>1, <1>2

LEMMA QueueReset == QueueInv /\ Restarted => QueueInv'
  <1>. SUFFICES ASSUME QueueInv, Restarted PROVE QueueInv'
    OBVIOUS
  <1>1. Sound(events')
    BY CarriedSound, SoundSubset DEF Restarted
  <1>2. sequence' \in Nat
    BY LocksFinite DEF Restarted, QueueInv, TypeOK
  <1>3. TypeOK'
    BY <1>1, <1>2 DEF Restarted, QueueInv, TypeOK, Sound, Proper
  <1>. QED BY <1>1, <1>3 DEF QueueInv

LEMMA QueueNext == QueueInv /\ [Next]_vars => QueueInv'
  <1>. SUFFICES ASSUME QueueInv, [Next]_vars PROVE QueueInv'
    OBVIOUS
  <1>1. CASE ScheduleInternal
    BY <1>1, QueueSchedule, SourcesNatural DEF ScheduleInternal
  <1>2. CASE ScheduleExternal
    BY <1>2, QueueSchedule, SourcesNatural, EventQueueAssumption DEF ScheduleExternal
  <1>3. CASE ClockChanged
    BY <1>3, QueueClock
  <1>4. CASE BeginAdvance \/ AdvanceClock
    BY <1>4, QueueAdvance
  <1>5. CASE DispatchEvent \/ EndAdvance \/ AbortAdvance \/ RunAgain \/ DiscardEvents
             \/ CancelEvents \/ UNCHANGED vars
    BY <1>5, TakingSteps, QueueTake
  <1>6. CASE PowerStateChanged
    BY <1>6, QueueGate DEF PowerStateChanged
  <1>7. CASE Retimed
    BY <1>7, RetimedMoves, QueueMove
  <1>8. CASE WarmReset \/ BrownOutReset
    BY <1>8, QueueReset, ResetRestarts
  <1>. QED BY <1>1, <1>2, <1>3, <1>4, <1>5, <1>6, <1>7, <1>8 DEF Next

THEOREM QueueSound == Spec => []QueueInv
  BY QueueInit, QueueNext, PTL DEF Spec

\* The queue always holds well-typed events.
THEOREM TypeCorrect == Spec => []TypeOK
  <1>1. QueueInv => TypeOK
    BY DEF QueueInv
  <1>. QED BY <1>1, QueueSound, PTL
-----------------------------------------------------------------------------
\* Short of what disturbs the queue, an advance never passes its target.
TargetAhead == disturbed \/ ~advancing \/ device_cycles <= target

Timely == NoEventInPast /\ TargetAhead

\* The head of an ordered queue is before all others, so that the clock can pass
\* nothing on its way to it, or to the target if the head is not due.
LEMMA OrderedAdvance ==
    ASSUME QueueInv, Timely, AdvanceClock, ~disturbed'
    PROVE  /\ \E n \in 0 .. CycleLimit : device_cycles' = device_cycles + n
           /\ device_cycles' <= target /\ ~disturbed /\ UNCHANGED events
           /\ \A e \in events : ~e.paused => e.cycle >= device_cycles'
  <1>1. /\ ~disturbed /\ ~unordered /\ advancing /\ UNCHANGED events
    BY DEF AdvanceClock
  <1>2. /\ device_cycles \in Nat /\ device_cycles <= target
        /\ target \in Nat /\ target <= CycleLimit
    BY <1>1, Clock DEF QueueInv, Timely, TargetAhead
  <1>3. PICK next \in NextCycles : \E n \in 1 .. Wrapped(next - device_cycles) :
           device_cycles' = Wrapped(device_cycles + n)
    BY DEF AdvanceClock
  <1>4. \A e \in events : /\ e.cycle \in Nat /\ e.paused \in BOOLEAN
                          /\ ~e.paused => e.cycle >= device_cycles
    BY <1>1, EventFields DEF QueueInv, Sound, Proper, Timely, NoEventInPast
  <1>5. /\ next \in Nat /\ next >= device_cycles /\ next <= target
        /\ \A e \in events : ~e.paused => e.cycle >= next
    <2>1. CASE events = {}
      BY <1>2, <2>1 DEF NextCycles
    <2>2. CASE events # {}
      <3>1. PICK h \in Heads : next = IF Due(h) THEN h.cycle ELSE target
        BY <2>2 DEF NextCycles
      <3>2. h \in events /\ \A f \in events : ~Earlier(f, h)
        BY <1>1, <3>1 DEF Heads, IsHead
      <3>3. CASE Due(h)
        <4>1. ~h.paused /\ h.cycle <= target /\ next = h.cycle
          BY <3>1, <3>3 DEF Due
        <4>2. ASSUME NEW e \in events, ~e.paused PROVE e.cycle >= next
          <5>1. ~(e.cycle < h.cycle)
            BY <1>4, <3>2, <4>1, <4>2 DEF Earlier
          <5>. QED BY <1>4, <3>2, <4>1, <5>1
        <4>. QED BY <1>4, <3>2, <4>1, <4>2
      <3>4. CASE ~Due(h)
        <4>1. next = target
          BY <3>1, <3>4
        <4>2. ASSUME NEW e \in events, ~e.paused PROVE e.cycle >= next
          <5>1. ~h.paused
            BY <3>2, <4>2 DEF Earlier
          <5>2. ~(h.cycle <= target)
            BY <3>4, <5>1 DEF Due
          <5>3. ~(e.cycle < h.cycle)
            BY <1>4, <3>2, <4>2, <5>1 DEF Earlier
          <5>. QED BY <1>2, <1>4, <3>2, <4>1, <5>2, <5>3
        <4>. QED BY <1>2, <4>1, <4>2
      <3>. QED BY <3>3, <3>4
    <2>. QED BY <2>1, <2>2
  <1>6. next - device_cycles \in Word /\ Wrapped(next - device_cycles) = next - device_cycles
    BY <1>2, <1>5, WrappedWord, Numbers DEF Word
  <1>7. PICK n \in 1 .. (next - device_cycles) : device_cycles' = Wrapped(device_cycles + n)
    BY <1>3, <1>6
  <1>8. n \in Nat /\ device_cycles + n <= next /\ n <= CycleLimit
    BY <1>2, <1>5, <1>7, Numbers
  <1>9. Wrapped(device_cycles + n) = device_cycles + n
    BY <1>2, <1>5, <1>8, WrappedWord, Numbers DEF Word
  <1>10. \A e \in events : ~e.paused => e.cycle >= device_cycles'
    BY <1>2, <1>4, <1>5, <1>7, <1>8, <1>9
  <1>11. n \in 0 .. CycleLimit /\ device_cycles' <= target
    BY <1>2, <1>5, <1>7, <1>8, <1>9, Numbers
  <1>. QED BY <1>1, <1>7, <1>9, <1>10, <1>11

LEMMA TimelyInit == Init => Timely
  BY DEF Init, Timely, NoEventInPast, TargetAhead

\* Steps that leave the clock alone and put no event in the past.
LEMMA TimelyStill ==
    ASSUME Timely, UNCHANGED device_cycles,
           ~disturbed' =>
             /\ ~disturbed
             /\ \A e \in events' : ~e.paused => e.cycle >= device_cycles,
           \/ UNCHANGED <<target, advancing>>
           \/ advancing' = FALSE
           \/ device_cycles <= target'
    PROVE  Timely'
  BY DEF Timely, NoEventInPast, TargetAhead

LEMMA TimelyAdd ==
    ASSUME Timely, NEW new, ~new.paused => new.cycle >= device_cycles,
           events' = events \union {new},
           UNCHANGED <<device_cycles, target, advancing, disturbed>>
    PROVE  Timely'
  <1>1. ~disturbed' => /\ ~disturbed
                       /\ \A e \in events' : ~e.paused => e.cycle >= device_cycles
    BY DEF Timely, NoEventInPast
  <1>. QED BY <1>1, TimelyStill

LEMMA TimelySchedule ==
    ASSUME QueueInv, Timely, NEW t \in Types, NEW s \in Nat, NEW d \in 0 .. CycleLimit,
           NEW x \in BOOLEAN, x => t \in HostTypes, schedule_event(t, s, d, x)
    PROVE  Timely'
  <1>. DEFINE new == NewEvent(t, s, 0, d, x)
  <1>1. d <= CycleLimit - device_cycles /\ TypeOK
    BY DEF schedule_event, QueueInv
  <1>2. /\ new.cycle >= device_cycles
        /\ \/ Placed(new) = new
           \/ Placed(new).paused = TRUE
    <2>1. new.cycle = device_cycles + d
      BY DEF NewEvent
    <2>2. new.cycle >= device_cycles
      BY <1>1, <2>1, Clock, Numbers
    <2>3. Placed(new) = new \/ Placed(new).paused = TRUE
      BY DEF Placed, PauseEvent, Clocking
    <2>. QED BY <2>2, <2>3
  <1>3. /\ events' = events \union {Placed(new)}
        /\ UNCHANGED <<device_cycles, target, advancing, disturbed>>
    BY DEF schedule_event
  <1>. HIDE DEF new
  <1>4. ~Placed(new).paused => Placed(new).cycle >= device_cycles
    BY <1>2
  <1>. QED BY <1>3, <1>4, TimelyAdd

\* A lock that is scheduled is not paused and not in the past.
LEMMA LockPlaced ==
    ASSUME QueueInv, NEW t \in ClockTypes, NEW g \in Nat, ScheduleLock(t, g)
    PROVE  \E new \in Proper :
              /\ events' = events \union {new} /\ sequence' = sequence + 1
              /\ sequence < MaxSequence
              /\ new.type = t /\ new.value = g /\ new.sequence = sequence
              /\ ~new.external /\ ~new.paused /\ new.cycle >= device_cycles
              /\ UNCHANGED <<device_cycles, target, advancing, gated, stop_reason, unordered,
                             disturbed>>
  <1>1. PICK d \in 0 .. CycleLimit :
           /\ d <= CycleLimit - device_cycles
           /\ sequence < MaxSequence /\ sequence' = sequence + 1
           /\ events' = events \union {NewEvent(t, 0, g, d, FALSE)}
           /\ UNCHANGED <<device_cycles, target, advancing, gated, stop_reason, unordered,
                          disturbed>>
    BY DEF ScheduleLock
  <1>. DEFINE new == NewEvent(t, 0, g, d, FALSE)
  <1>2. new \in Proper
    BY <1>1, NewEventProper, EventQueueAssumption DEF QueueInv
  <1>3. /\ new.type = t /\ new.value = g /\ new.sequence = sequence
        /\ new.external = FALSE /\ new.paused = FALSE /\ new.cycle = device_cycles + d
    BY DEF NewEvent
  <1>4. new.cycle >= device_cycles
    <2>1. new.cycle = device_cycles + d
      BY <1>3
    <2>. HIDE DEF new
    <2>. QED BY <2>1, Clock, Numbers DEF QueueInv
  <1>. HIDE DEF new
  <1>5. events' = events \union {new}
    BY <1>1 DEF new
  <1>6. ~new.external /\ ~new.paused
    BY <1>3
  <1>. QED BY <1>1, <1>2, <1>3, <1>4, <1>5, <1>6

LEMMA TimelyClock == QueueInv /\ Timely /\ ClockChanged => Timely'
  <1>. SUFFICES ASSUME QueueInv, Timely, NEW t \in ClockTypes,
                       ReconfigureClock(t) \/ ContinueClock(t)
                PROVE  Timely'
    BY DEF ClockChanged
  <1>1. \/ \E g \in Nat : ScheduleLock(t, g)
        \/ UNCHANGED <<events, sequence, device_cycles, target, advancing, gated, stop_reason,
                       unordered, disturbed>>
    <2>1. NextGeneration(t) \in Nat /\ generation[t] \in Nat
      BY DEF NextGeneration, QueueInv, TypeOK
    <2>. QED BY <2>1 DEF ReconfigureClock, ContinueClock
  <1>2. CASE \E g \in Nat : ScheduleLock(t, g)
    <2>1. PICK new : /\ events' = events \union {new} /\ new.cycle >= device_cycles
                     /\ UNCHANGED <<device_cycles, target, advancing, disturbed>>
      BY <1>2, LockPlaced
    <2>. QED BY <2>1, TimelyAdd
  <1>3. CASE UNCHANGED <<events, sequence, device_cycles, target, advancing, gated, stop_reason,
                         unordered, disturbed>>
    BY <1>3 DEF Timely, NoEventInPast, TargetAhead
  <1>. QED BY <1>1, <1>2, <1>3

LEMMA TimelyTakes == QueueInv /\ Timely /\ Takes => Timely'
  <1>. SUFFICES ASSUME QueueInv, Timely, Takes PROVE Timely'
    OBVIOUS
  <1>1. ~disturbed' => /\ ~disturbed
                       /\ \A e \in events' : ~e.paused => e.cycle >= device_cycles
    BY DEF Takes, Timely, NoEventInPast
  <1>2. \/ UNCHANGED <<target, advancing>> \/ advancing' = FALSE \/ device_cycles <= target'
    <2>1. device_cycles <= device_cycles
      BY Clock DEF QueueInv
    <2>. QED BY <2>1 DEF Takes
  <1>. QED BY <1>1, <1>2, TimelyStill DEF Takes

LEMMA TimelyGate ==
    ASSUME QueueInv, Timely, NEW t \in GatedTypes, Gate(t) \/ Ungate(t) PROVE Timely'
  <1>1. UNCHANGED <<device_cycles, target, advancing, disturbed>>
    BY DEF Gate, Ungate
  <1>2. ASSUME ~disturbed, NEW f \in events', ~f.paused PROVE f.cycle >= device_cycles
    <2>1. CASE Gate(t)
      <3>1. PICK e \in events : f = GateMap(t)[e]
        BY <1>2, <2>1, GateRelabels DEF Relabels
      <3>2. e \in Proper /\ TypeOK
        BY DEF QueueInv, Sound
      <3>3. f = e
        <4>1. CASE Clocked(e, t) /\ ~e.paused
          <5>1. f = PauseEvent(e) /\ e.type = t /\ (e.external => e.type \in HostGatedTypes)
            BY <3>1, <4>1 DEF GateMap, Clocked
          <5>. QED BY <1>2, <3>2, <5>1, PausedProper
        <4>2. CASE ~(Clocked(e, t) /\ ~e.paused)
          BY <3>1, <4>2 DEF GateMap
        <4>. QED BY <4>1, <4>2
      <3>. QED BY <1>2, <3>3 DEF Timely, NoEventInPast
    <2>2. CASE Ungate(t)
      <3>1. PICK e \in events : f = UngateMap(t)[e]
        BY <1>2, <2>2, UngateRelabels DEF Relabels
      <3>2. e \in Proper /\ TypeOK
        BY DEF QueueInv, Sound
      <3>3. CASE e.type = t /\ e.paused /\ ~ResumeOverflows(e)
        <4>1. f = ResumeEvent(e)
          BY <3>1, <3>3 DEF UngateMap
        <4>. QED BY <3>2, <3>3, <4>1, ResumedProper
      <3>4. CASE ~(e.type = t /\ e.paused /\ ~ResumeOverflows(e))
        <4>1. f = e
          BY <3>1, <3>4 DEF UngateMap
        <4>. QED BY <1>2, <4>1 DEF Timely, NoEventInPast
      <3>. QED BY <3>3, <3>4
    <2>. QED BY <2>1, <2>2
  <1>3. ~disturbed' => /\ ~disturbed
                       /\ \A e \in events' : ~e.paused => e.cycle >= device_cycles
    BY <1>1, <1>2
  <1>. QED BY <1>1, <1>3, TimelyStill

\* What an undisturbed move makes of an event.
LEMMA MovedWithin ==
    ASSUME QueueInv, Timely, NEW t, NEW S, NEW n, Moves(t, S, n), ~disturbed', NEW e \in S
    PROVE  /\ e \in events /\ e \in Proper /\ e.type = t /\ n \in Int
           /\ Moved(e, n).paused = e.paused /\ SameEvent(Moved(e, n), e)
           /\ e.paused => /\ n >= 0 /\ Moved(e, n).remaining = e.remaining + n
                          /\ e.remaining + n \in Word
           /\ ~e.paused => /\ Moved(e, n).cycle = e.cycle + n /\ e.cycle + n >= device_cycles
                           /\ e.cycle + n \in Word /\ e.cycle >= device_cycles
  <1>1. /\ e \in events /\ e.type = t /\ n \in -MaxShift .. MaxShift /\ ~disturbed
        /\ IF e.paused THEN n >= 0 /\ e.remaining + n <= CycleLimit
           ELSE e.cycle + n <= CycleLimit
                /\ (e.cycle >= device_cycles => e.cycle + n >= device_cycles)
    BY DEF Moves
  <1>2. e \in Proper /\ e \in Event
    BY <1>1 DEF QueueInv, Sound, Proper
  <1>3. /\ Moved(e, n).paused = e.paused
        /\ ~e.paused /\ e.cycle + n \in Word => Moved(e, n).cycle = e.cycle + n
        /\ e.paused /\ e.remaining + n \in Word => Moved(e, n).remaining = e.remaining + n
    BY <1>1, <1>2, MovedProper
  <1>4. /\ e.cycle \in Nat /\ e.remaining \in Nat /\ device_cycles \in Nat /\ n \in Int
    BY <1>1, <1>2, EventFields, Clock, Numbers DEF QueueInv
  <1>5. ~e.paused => e.cycle >= device_cycles
    BY <1>1 DEF Timely, NoEventInPast
  <1>6. e.paused => n >= 0 /\ e.remaining + n \in Word
    BY <1>1, <1>4, Numbers DEF Word
  <1>7. ~e.paused => /\ e.cycle + n >= device_cycles /\ e.cycle + n \in Word
    BY <1>1, <1>4, <1>5, Numbers DEF Word
  <1>. QED BY <1>1, <1>2, <1>3, <1>4, <1>5, <1>6, <1>7, ClockingSame

LEMMA TimelyMove ==
    ASSUME QueueInv, Timely, NEW t, NEW S, NEW n, Moves(t, S, n) PROVE Timely'
  <1>1. ASSUME ~disturbed', NEW f \in events', ~f.paused PROVE f.cycle >= device_cycles
    <2>1. f \in events \ S \/ \E e \in S : f = Moved(e, n)
      BY <1>1 DEF Moves
    <2>2. CASE f \in events \ S
      BY <1>1, <2>2 DEF Moves, Timely, NoEventInPast
    <2>3. CASE \E e \in S : f = Moved(e, n)
      <3>1. PICK e \in S : f = Moved(e, n)
        BY <2>3
      <3>. QED BY <1>1, <3>1, MovedWithin
    <2>. QED BY <2>1, <2>2, <2>3
  <1>2. (~disturbed' => ~disturbed) /\ UNCHANGED <<device_cycles, target, advancing>>
    BY DEF Moves
  <1>. QED BY <1>1, <1>2, TimelyStill

LEMMA TimelyReset == QueueInv /\ Timely /\ Restarted => Timely'
  <1>. SUFFICES ASSUME QueueInv, Timely, Restarted PROVE Timely'
    OBVIOUS
  <1>1. ASSUME ~disturbed, NEW e \in events', ~e.paused PROVE e.cycle >= device_cycles
    <2>1. e \in events \/ \E c \in LocksUnderWay : e = Requeued(c)
      BY <1>1 DEF Restarted, Carried
    <2>. QED BY <1>1, <2>1, RequeuedProper DEF Timely, NoEventInPast
  <1>. QED BY <1>1, TimelyStill DEF Restarted

LEMMA TimelyNext == QueueInv /\ Timely /\ [Next]_vars => Timely'
  <1>. SUFFICES ASSUME QueueInv, Timely, [Next]_vars PROVE Timely'
    OBVIOUS
  <1>1. CASE ScheduleInternal
    BY <1>1, TimelySchedule, SourcesNatural DEF ScheduleInternal
  <1>2. CASE ScheduleExternal
    BY <1>2, TimelySchedule, SourcesNatural, EventQueueAssumption DEF ScheduleExternal
  <1>3. CASE ClockChanged
    BY <1>3, TimelyClock
  <1>4. CASE BeginAdvance
    <2>1. device_cycles <= target'
      BY <1>4, Clock DEF BeginAdvance, QueueInv
    <2>2. UNCHANGED <<device_cycles, events, disturbed>>
      BY <1>4 DEF BeginAdvance
    <2>. QED BY <2>1, <2>2 DEF Timely, NoEventInPast, TargetAhead
  <1>5. CASE AdvanceClock
    <2>1. UNCHANGED <<target, advancing, events>>
      BY <1>5 DEF AdvanceClock
    <2>2. CASE ~disturbed'
      BY <1>5, <2>1, <2>2, OrderedAdvance DEF Timely, NoEventInPast, TargetAhead
    <2>3. CASE disturbed'
      BY <2>3 DEF Timely, NoEventInPast, TargetAhead
    <2>. QED BY <2>2, <2>3
  <1>6. CASE DispatchEvent \/ EndAdvance \/ AbortAdvance \/ RunAgain \/ DiscardEvents
             \/ CancelEvents \/ UNCHANGED vars
    BY <1>6, TakingSteps, TimelyTakes
  <1>7. CASE PowerStateChanged
    BY <1>7, TimelyGate DEF PowerStateChanged
  <1>8. CASE Retimed
    BY <1>8, RetimedMoves, TimelyMove
  <1>9. CASE WarmReset \/ BrownOutReset
    BY <1>9, TimelyReset, ResetRestarts
  <1>. QED BY <1>1, <1>2, <1>3, <1>4, <1>5, <1>6, <1>7, <1>8, <1>9 DEF Next

THEOREM QueueTimely == Spec => []Timely
  BY TimelyInit, TimelyNext, QueueSound, PTL DEF Spec

\* Short of what disturbs the queue, the device clock never passes a pending event
\* that runs, however events are gated, re-timed, discarded or cancelled, so that
\* no cycle - device_cycles of the code wraps.  A cancel of USB that leaves the
\* array unordered does no harm by itself: only the clock moving on before the
\* array is reordered does.
THEOREM NoEventPassed == Spec => []NoEventInPast
  <1>1. Timely => NoEventInPast
    BY DEF Timely
  <1>. QED BY <1>1, QueueTimely, PTL
-----------------------------------------------------------------------------
\* Beyond that, the other properties need of each other that no event carries a
\* generation that its clock has yet to reach.
ClockEvents == \A e \in events : e.type \in ClockTypes => /\ ~e.external
                                                       /\ e.value <= generation[e.type]

IInv == /\ QueueInv /\ Timely
        /\ GateDiscipline
        /\ ClockEvents /\ OneLockPerClock
        /\ SequencesDistinct /\ sequence <= MaxSequence

LEMMA ClocksNotGated == ClockTypes \intersect GatedTypes = {}
  BY EventQueueAssumption

LEMMA IInvInit == Init => IInv
  <1>. SUFFICES ASSUME Init PROVE IInv
    OBVIOUS
  <1>1. events = {} /\ sequence = 0
    BY DEF Init
  <1>. QED BY <1>1, QueueInit, TimelyInit, Numbers DEF IInv, GateDiscipline, ClockEvents,
              OneLockPerClock, LocksUnderWay, SequencesDistinct

\* Every property survives the loss of events.
LEMMA IInvFewer == IInv /\ QueueInv' /\ Timely' /\ Takes => IInv'
  <1>. SUFFICES ASSUME IInv, QueueInv', Timely', Takes PROVE IInv'
    OBVIOUS
  <1>1. /\ events' \in SUBSET events
        /\ UNCHANGED <<sequence, device_cycles, gated, generation, disturbed>>
    BY DEF Takes
  <1>2. GateDiscipline'
    BY <1>1 DEF IInv, GateDiscipline, ResumeOverflows
  <1>3. ClockEvents' /\ SequencesDistinct'
    BY <1>1 DEF IInv, ClockEvents, SequencesDistinct
  <1>4. OneLockPerClock'
    BY <1>1 DEF IInv, OneLockPerClock, LocksUnderWay, CurrentClock
  <1>. QED BY <1>1, <1>2, <1>3, <1>4 DEF IInv

LEMMA IInvAdvance == IInv /\ QueueInv' /\ Timely' /\ (BeginAdvance \/ AdvanceClock) => IInv'
  <1>1. ASSUME IInv, QueueInv', Timely', BeginAdvance PROVE IInv'
    BY <1>1 DEF BeginAdvance, IInv, GateDiscipline, ResumeOverflows, ClockEvents,
       SequencesDistinct, OneLockPerClock, LocksUnderWay, CurrentClock
  <1>2. ASSUME IInv, QueueInv', Timely', AdvanceClock PROVE IInv'
    <2>1. UNCHANGED <<events, sequence, gated, generation>> /\ (disturbed => disturbed')
      BY <1>2 DEF AdvanceClock
    <2>2. ClockEvents' /\ SequencesDistinct' /\ sequence' <= MaxSequence
      BY <1>2, <2>1 DEF IInv, ClockEvents, SequencesDistinct
    <2>3. OneLockPerClock'
      BY <1>2, <2>1 DEF IInv, OneLockPerClock, LocksUnderWay, CurrentClock
    <2>4. ASSUME NEW e \in events, ResumeOverflows(e), ~disturbed'
          PROVE  ResumeOverflows(e)'
      <3>1. PICK n \in 0 .. CycleLimit : device_cycles' = device_cycles + n
        BY <1>2, <2>4, OrderedAdvance DEF IInv
      <3>2. e.remaining \in Nat /\ device_cycles \in Nat
        BY <1>2, EventFields, Clock DEF IInv, QueueInv, Sound, Proper
      <3>. QED BY <2>4, <3>1, <3>2, Numbers DEF ResumeOverflows
    <2>5. GateDiscipline'
      BY <1>2, <2>1, <2>4 DEF IInv, GateDiscipline
    <2>. QED BY <1>2, <2>2, <2>3, <2>5 DEF IInv
  <1>. QED BY <1>1, <1>2

\* An event scheduled under the next number keeps the numbers distinct.
LEMMA AddedDistinct ==
    ASSUME QueueInv, SequencesDistinct, NEW new, new.sequence = sequence,
           events' = events \union {new}, sequence' = sequence + 1
    PROVE  SequencesDistinct'
  <1>1. sequence \in Nat /\ \A e \in events : e.sequence \in Nat
    BY EventFields DEF QueueInv, TypeOK, Sound, Proper
  <1>. QED BY <1>1 DEF SequencesDistinct

\* One that is paused if, and only if, its module looks keeps the discipline.
LEMMA AddedGated ==
    ASSUME IInv, NEW new, events' = events \union {new},
           new.paused => new.type \in gated,
           new.type \in gated \intersect HeldTypes => new.paused,
           UNCHANGED <<device_cycles, gated, disturbed>>
    PROVE  GateDiscipline'
  BY DEF IInv, GateDiscipline, ResumeOverflows

LEMMA IInvSchedule ==
    ASSUME IInv, QueueInv', Timely', NEW t \in Types \ ClockTypes, NEW s \in Nat,
           NEW d \in 0 .. CycleLimit, NEW x \in BOOLEAN, schedule_event(t, s, d, x)
    PROVE  IInv'
  <1>. DEFINE new == Placed(NewEvent(t, s, 0, d, x))
  <1>1. new.type = t /\ new.sequence = sequence
    BY DEF Placed, PauseEvent, Clocking, NewEvent
  <1>2. /\ new.paused => t \in gated
        /\ t \in gated \intersect HeldTypes => new.paused
    BY DEF Placed, PauseEvent, Clocking, NewEvent
  <1>3. /\ events' = events \union {new} /\ sequence' = sequence + 1 /\ sequence < MaxSequence
        /\ UNCHANGED <<device_cycles, gated, generation, disturbed>>
    BY DEF schedule_event
  <1>. HIDE DEF new
  <1>4. GateDiscipline'
    BY <1>1, <1>2, <1>3, AddedGated
  <1>5. ClockEvents' /\ OneLockPerClock'
    BY <1>1, <1>3 DEF IInv, ClockEvents, OneLockPerClock, LocksUnderWay, CurrentClock
  <1>6. SequencesDistinct'
    BY <1>1, <1>3, AddedDistinct DEF IInv
  <1>7. sequence' <= MaxSequence
    BY <1>3, Clock, Numbers DEF IInv, QueueInv
  <1>. QED BY <1>4, <1>5, <1>6, <1>7 DEF IInv

\* Abandoning a lock: those that were under way are of an older generation.
LEMMA Abandoned ==
    ASSUME IInv, NEW t \in ClockTypes, ReconfigureClock(t)
    PROVE  /\ \A e \in events : e.type \in ClockTypes =>
                 ~e.external /\ e.value <= generation'[e.type]
           /\ \A e \in events : CurrentClock(e)' => e.type # t /\ CurrentClock(e)
  <1>1. /\ generation'[t] = generation[t] + 1 /\ generation \in [ClockTypes -> Nat]
        /\ \A u \in ClockTypes : u # t => generation'[u] = generation[u]
    BY Regenerated DEF IInv, QueueInv, TypeOK
  <1>2. \A e \in events : e.value \in Nat
    BY EventFields DEF IInv, QueueInv, Sound, Proper
  <1>3. ASSUME NEW e \in events, e.type \in ClockTypes
        PROVE  ~e.external /\ e.value <= generation[e.type]
    BY <1>3 DEF IInv, ClockEvents
  <1>4. ASSUME NEW e \in events, e.type \in ClockTypes
        PROVE  e.value <= generation'[e.type]
    BY <1>1, <1>2, <1>3, <1>4
  <1>5. ASSUME NEW e \in events, CurrentClock(e)'
        PROVE  e.type # t /\ CurrentClock(e)
    <2>1. e.type \in ClockTypes /\ e.value = generation'[e.type]
      BY <1>5 DEF CurrentClock
    <2>2. e.type # t
      BY <1>1, <1>2, <1>3, <2>1
    <2>. QED BY <1>1, <2>1, <2>2 DEF CurrentClock
  <1>. QED BY <1>3, <1>4, <1>5

\* A lock may be scheduled under the generation of its clock when no other of
\* that generation is under way.
LEMMA IInvLock ==
    ASSUME IInv, QueueInv', Timely', NEW t \in ClockTypes, NEW g \in Nat, ScheduleLock(t, g),
           g <= generation'[t],
           \A e \in events : e.type \in ClockTypes =>
               ~e.external /\ e.value <= generation'[e.type],
           \A e \in events : CurrentClock(e)' => e.type # t /\ CurrentClock(e)
    PROVE  IInv'
  <1>1. PICK new \in Proper :
           /\ events' = events \union {new} /\ sequence' = sequence + 1 /\ sequence < MaxSequence
           /\ new.type = t /\ new.value = g /\ new.sequence = sequence
           /\ ~new.external /\ ~new.paused /\ new.cycle >= device_cycles
           /\ UNCHANGED <<device_cycles, target, advancing, gated, stop_reason, unordered,
                          disturbed>>
    BY LockPlaced DEF IInv
  <1>2. ~new.external /\ ~new.paused
    BY <1>1
  <1>3. new.type \notin gated
    BY <1>1, ClocksNotGated DEF IInv, QueueInv, TypeOK
  <1>4. GateDiscipline'
    BY <1>1, <1>2, <1>3, AddedGated
  <1>5. ClockEvents'
    BY <1>1, <1>2 DEF ClockEvents
  <1>6. OneLockPerClock'
    BY <1>1 DEF IInv, OneLockPerClock, LocksUnderWay
  <1>7. SequencesDistinct'
    BY <1>1, AddedDistinct DEF IInv
  <1>8. sequence' <= MaxSequence
    BY <1>1, Clock, Numbers DEF IInv, QueueInv
  <1>. QED BY <1>4, <1>5, <1>6, <1>7, <1>8 DEF IInv

LEMMA IInvClock == IInv /\ QueueInv' /\ Timely' /\ ClockChanged => IInv'
  <1>. SUFFICES ASSUME IInv, QueueInv', Timely', NEW t \in ClockTypes,
                       ReconfigureClock(t) \/ ContinueClock(t)
                PROVE  IInv'
    BY DEF ClockChanged
  <1>1. CASE ReconfigureClock(t)
    <2>1. /\ NextGeneration(t) \in Nat /\ NextGeneration(t) <= generation'[t]
          /\ QueueInv
      BY <1>1, Regenerated DEF IInv
    <2>2. CASE ScheduleLock(t, NextGeneration(t))
      BY <1>1, <2>1, <2>2, Abandoned, IInvLock
    <2>3. CASE UNCHANGED <<events, sequence, device_cycles, target, advancing, gated, stop_reason,
                           unordered, disturbed>>
      <3>1. GateDiscipline' /\ SequencesDistinct' /\ sequence' <= MaxSequence
        BY <2>3 DEF IInv, GateDiscipline, SequencesDistinct, ResumeOverflows
      <3>2. ClockEvents'
        BY <1>1, <2>3, Abandoned DEF ClockEvents
      <3>3. OneLockPerClock'
        BY <1>1, <2>3, Abandoned DEF IInv, OneLockPerClock, LocksUnderWay
      <3>. QED BY <3>1, <3>2, <3>3 DEF IInv
    <2>. QED BY <1>1, <2>2, <2>3 DEF ReconfigureClock
  <1>2. CASE ContinueClock(t)
    <2>1. /\ ScheduleLock(t, generation[t]) /\ generation' = generation
          /\ generation[t] \in Nat
          /\ \A e \in LocksUnderWay : e.type # t
      BY <1>2 DEF ContinueClock, IInv, QueueInv, TypeOK
    <2>2. \A e \in events : e.type \in ClockTypes =>
              ~e.external /\ e.value <= generation'[e.type]
      BY <2>1 DEF IInv, ClockEvents
    <2>3. \A e \in events : CurrentClock(e)' => e.type # t /\ CurrentClock(e)
      BY <2>1 DEF CurrentClock, LocksUnderWay
    <2>. QED BY <2>1, <2>2, <2>3, IInvLock
  <1>. QED BY <1>1, <1>2

\* Gating and re-timing touch nothing of an event but its clock.
LEMMA IInvRelabel ==
    ASSUME IInv, QueueInv', Timely', NEW h, Relabels(h), GateDiscipline',
           UNCHANGED <<sequence, generation>>
    PROVE  IInv'
  <1>1. \A f \in events' : \E e \in events :
           /\ f = h[e] /\ f.type = e.type /\ f.value = e.value
           /\ f.external = e.external /\ f.sequence = e.sequence
    BY DEF Relabels, SameEvent
  <1>2. ClockEvents'
    BY <1>1 DEF IInv, ClockEvents
  <1>3. SequencesDistinct'
    BY <1>1 DEF IInv, SequencesDistinct
  <1>4. OneLockPerClock'
    BY <1>1 DEF IInv, OneLockPerClock, LocksUnderWay, CurrentClock
  <1>. QED BY <1>2, <1>3, <1>4 DEF IInv

LEMMA IInvGate == ASSUME IInv, QueueInv', Timely', NEW t \in GatedTypes, Gate(t) PROVE IInv'
  <1>1. /\ gated' = gated \union {t}
        /\ UNCHANGED <<sequence, device_cycles, generation, disturbed>>
    BY DEF Gate
  <1>2. QueueInv /\ TypeOK /\ Relabels(GateMap(t))
    BY GateRelabels DEF IInv, QueueInv
  <1>3. ASSUME NEW f \in events'
        PROVE  /\ f.paused => f.type \in gated' \/ ResumeOverflows(f)' \/ disturbed'
               /\ f.type \in gated' \intersect HeldTypes => f.paused
    <2>1. PICK e \in events : f = GateMap(t)[e]
      BY <1>2 DEF Relabels
    <2>2. e \in Proper
      BY <1>2 DEF QueueInv, Sound
    <2>3. CASE Clocked(e, t) /\ ~e.paused
      <3>1. f = PauseEvent(e) /\ e.type = t /\ (e.external => e.type \in HostGatedTypes)
        BY <2>1, <2>3 DEF GateMap, Clocked
      <3>2. f.type = t /\ f.paused = TRUE
        BY <1>2, <2>2, <3>1, PausedProper, ClockingSame DEF SameEvent
      <3>. QED BY <1>1, <3>2
    <2>4. CASE ~(Clocked(e, t) /\ ~e.paused)
      <3>1. f = e
        BY <2>1, <2>4 DEF GateMap
      <3>2. f.type = t /\ t \in HeldTypes => f.paused
        <4>1. f.external => f.type \in HostTypes
          BY <2>2, <3>1 DEF Proper
        <4>2. t \in HeldTypes => t \notin HostTypes
          BY EventQueueAssumption
        <4>. QED BY <2>4, <3>1, <4>1, <4>2 DEF Clocked
      <3>. QED BY <1>1, <3>1, <3>2 DEF IInv, GateDiscipline, ResumeOverflows
    <2>. QED BY <2>3, <2>4
  <1>4. GateDiscipline'
    BY <1>3 DEF GateDiscipline
  <1>. QED BY <1>1, <1>2, <1>4, IInvRelabel

LEMMA IInvUngate ==
    ASSUME IInv, QueueInv', Timely', NEW t \in GatedTypes, Ungate(t) PROVE IInv'
  <1>1. /\ gated' = gated \ {t}
        /\ UNCHANGED <<sequence, device_cycles, generation, disturbed>>
    BY DEF Ungate
  <1>2. QueueInv /\ TypeOK /\ Relabels(UngateMap(t))
    BY UngateRelabels DEF IInv, QueueInv
  <1>3. ASSUME NEW f \in events'
        PROVE  /\ f.paused => f.type \in gated' \/ ResumeOverflows(f)' \/ disturbed'
               /\ f.type \in gated' \intersect HeldTypes => f.paused
    <2>1. PICK e \in events : f = UngateMap(t)[e]
      BY <1>2 DEF Relabels
    <2>2. e \in Proper
      BY <1>2 DEF QueueInv, Sound
    <2>3. CASE e.type = t /\ e.paused /\ ~ResumeOverflows(e)
      <3>1. f = ResumeEvent(e)
        BY <2>1, <2>3 DEF UngateMap
      <3>2. f.type = t /\ f.paused = FALSE
        BY <1>2, <2>2, <2>3, <3>1, ResumedProper, ClockingSame DEF SameEvent
      <3>. QED BY <1>1, <3>2
    <2>4. CASE ~(e.type = t /\ e.paused /\ ~ResumeOverflows(e))
      <3>1. f = e
        BY <2>1, <2>4 DEF UngateMap
      <3>2. f.type = t /\ f.paused => ResumeOverflows(f)'
        BY <1>1, <2>4, <3>1 DEF ResumeOverflows
      <3>. QED BY <1>1, <3>1, <3>2 DEF IInv, GateDiscipline, ResumeOverflows
    <2>. QED BY <2>3, <2>4
  <1>4. GateDiscipline'
    BY <1>3 DEF GateDiscipline
  <1>. QED BY <1>1, <1>2, <1>4, IInvRelabel

LEMMA IInvMove ==
    ASSUME IInv, QueueInv', Timely', NEW t, NEW S, NEW n, Moves(t, S, n) PROVE IInv'
  <1>1. /\ UNCHANGED <<sequence, device_cycles, gated, generation>>
        /\ events' = (events \ S) \union {Moved(e, n) : e \in S}
        /\ S \in SUBSET events /\ n \in -MaxShift .. MaxShift
        /\ ~disturbed' => ~disturbed
    BY DEF Moves
  <1>2. QueueInv /\ Timely /\ TypeOK /\ Relabels(MoveMap(S, n))
    BY MovesRelabels DEF IInv, QueueInv
  <1>3. ASSUME NEW f \in events'
        PROVE  /\ f.paused => f.type \in gated' \/ ResumeOverflows(f)' \/ disturbed'
               /\ f.type \in gated' \intersect HeldTypes => f.paused
    <2>1. CASE f \in events \ S
      BY <1>1, <2>1 DEF IInv, GateDiscipline, ResumeOverflows
    <2>2. CASE \E e \in S : f = Moved(e, n)
      <3>1. PICK e \in S : f = Moved(e, n)
        BY <2>2
      <3>2. e \in events /\ e \in Proper
        <4>1. S \in SUBSET events /\ events \in SUBSET Proper
          BY <1>1, <1>2 DEF QueueInv, Sound
        <4>. QED BY <4>1
      <3>3. f.paused = e.paused /\ f.type = e.type
        <4>1. Moved(e, n).paused = e.paused
          BY <1>1, <3>2, MovedProper
        <4>2. Moved(e, n).type = e.type
          BY ClockingSame DEF SameEvent
        <4>. QED BY <3>1, <4>1, <4>2
      <3>4. ASSUME e.paused, ResumeOverflows(e), ~disturbed' PROVE ResumeOverflows(f)'
        <4>1. n >= 0 /\ f.remaining = e.remaining + n /\ n \in Int
          BY <1>2, <3>1, <3>4, MovedWithin
        <4>2. e.remaining \in Nat /\ device_cycles \in Nat
          BY <1>2, <3>2, EventFields, Clock DEF Proper
        <4>. QED BY <1>1, <3>4, <4>1, <4>2, Numbers DEF ResumeOverflows
      <3>. QED BY <1>1, <3>2, <3>3, <3>4 DEF IInv, GateDiscipline
    <2>. QED BY <1>1, <2>1, <2>2
  <1>4. GateDiscipline'
    BY <1>3 DEF GateDiscipline
  <1>. QED BY <1>1, <1>2, <1>4, IInvRelabel

\* The locks of two clocks are re-queued under two numbers, both below the number
\* of locks: no kind but AUX_PLL and OSCILLATOR is locked, one lock of each.
LEMMA RequeueNumbers ==
    ASSUME IInv
    PROVE  /\ Cardinality(LocksUnderWay) \in Nat
           /\ \A c \in LocksUnderWay : /\ RequeuePosition(c) \in Nat
                                      /\ RequeuePosition(c) < Cardinality(LocksUnderWay)
           /\ \A c, d \in LocksUnderWay : RequeuePosition(c) = RequeuePosition(d) => c = d
  <1>1. IsFiniteSet(LocksUnderWay)
    BY LocksFinite DEF IInv
  <1>2. Cardinality(LocksUnderWay) \in Nat
    BY <1>1, FS_CardinalityType
  <1>3. ASSUME NEW c \in LocksUnderWay
        PROVE  /\ Cardinality(LocksUnderWay \ {c}) = Cardinality(LocksUnderWay) - 1
               /\ Cardinality(LocksUnderWay \ {c}) \in Nat
    <2>1. IsFiniteSet(LocksUnderWay \ {c})
      BY <1>1, FS_RemoveElement
    <2>. QED BY <1>1, <2>1, FS_RemoveElement, FS_CardinalityType
  <1>4. \A c \in LocksUnderWay : /\ RequeuePosition(c) \in Nat
                                 /\ RequeuePosition(c) < Cardinality(LocksUnderWay)
    BY <1>2, <1>3 DEF RequeuePosition
  <1>5. \A c \in LocksUnderWay : c.type \in {"AUX_PLL", "OSCILLATOR"}
    BY EventQueueAssumption DEF LocksUnderWay, CurrentClock
  <1>6. ASSUME NEW c \in LocksUnderWay, NEW d \in LocksUnderWay, c # d
        PROVE  RequeuePosition(c) # RequeuePosition(d)
    <2>1. c.type # d.type
      BY <1>6 DEF IInv, OneLockPerClock
    <2>2. ASSUME NEW a \in LocksUnderWay, NEW b \in LocksUnderWay, a # b
          PROVE  Cardinality(LocksUnderWay \ {a}) # 0
      <3>1. IsFiniteSet(LocksUnderWay \ {a}) /\ b \in LocksUnderWay \ {a}
        BY <1>1, <2>2, FS_RemoveElement
      <3>. QED BY <3>1, FS_EmptySet
    <2>3. CASE c.type = "AUX_PLL"
      BY <1>5, <1>6, <2>1, <2>2, <2>3 DEF RequeuePosition
    <2>4. CASE d.type = "AUX_PLL"
      BY <1>5, <1>6, <2>1, <2>2, <2>4 DEF RequeuePosition
    <2>. QED BY <1>5, <2>1, <2>3, <2>4
  <1>. QED BY <1>2, <1>4, <1>6

LEMMA IInvReset == IInv /\ QueueInv' /\ Timely' /\ Restarted => IInv'
  <1>. SUFFICES ASSUME IInv, QueueInv', Timely', Restarted PROVE IInv'
    OBVIOUS
  <1>. DEFINE locks == LocksUnderWay
              total == Cardinality(LocksUnderWay)
  <1>1. /\ events' \subseteq {e \in events : e.external} \union {Requeued(c) : c \in locks}
        /\ sequence' = sequence + total /\ gated' = gated \intersect HostGatedTypes
        /\ \A t \in ClockTypes : \/ generation'[t] = generation[t]
                                 \/ \A e \in events' : e.type = t => e.external
        /\ UNCHANGED <<device_cycles, disturbed>> /\ sequence' <= MaxSequence
    BY DEF Restarted, Carried
  <1>2. \A c \in locks : /\ c \in events /\ c.type \in ClockTypes
                         /\ c.value = generation[c.type]
    BY DEF LocksUnderWay, CurrentClock
  <1>3. \A c \in locks : /\ Requeued(c).sequence = sequence + RequeuePosition(c)
                         /\ Requeued(c).paused = c.paused
                         /\ Requeued(c).type = c.type /\ Requeued(c).value = c.value
                         /\ Requeued(c).external = c.external
    BY RequeuedProper DEF IInv
  <1>4. /\ total \in Nat /\ sequence \in Nat
        /\ \A c \in locks : RequeuePosition(c) \in Nat /\ RequeuePosition(c) < total
        /\ \A c, d \in locks : RequeuePosition(c) = RequeuePosition(d) => c = d
    BY RequeueNumbers DEF IInv, QueueInv, TypeOK
  <1>5. \A e \in events : e.sequence \in Nat /\ e.sequence < sequence
    BY EventFields DEF IInv, QueueInv, Sound, Proper, SequencesDistinct
  <1>6. \A e \in events' : \/ e \in events /\ e.external
                           \/ \E c \in locks : e = Requeued(c)
    BY <1>1
  <1>. HIDE DEF locks, total
  <1>7. \A e \in events : e.paused => e.type \in GatedTypes
    BY DEF IInv, QueueInv, Sound, Proper
  <1>8. ASSUME NEW f \in events'
        PROVE  /\ f.paused => f.type \in gated' \/ ResumeOverflows(f)' \/ disturbed'
               /\ f.type \in gated' \intersect HeldTypes => f.paused
    <2>1. CASE f \in events /\ f.external
      <3>1. f.paused => f.type \in HostGatedTypes
        BY <2>1 DEF IInv, QueueInv, Sound, Proper
      <3>. QED BY <1>1, <2>1, <3>1 DEF IInv, GateDiscipline, ResumeOverflows
    <2>2. CASE \E c \in locks : f = Requeued(c)
      <3>1. f.type \in ClockTypes /\ ~f.paused
        BY <1>2, <1>3, <1>7, <2>2, ClocksNotGated
      <3>2. f.type \notin gated'
        BY <1>1, <3>1, ClocksNotGated DEF IInv, QueueInv, TypeOK
      <3>. QED BY <3>1, <3>2
    <2>. QED BY <1>6, <2>1, <2>2
  <1>9. GateDiscipline'
    BY <1>8 DEF GateDiscipline
  <1>10. ClockEvents'
    <2>1. \A e \in events' : e.type \in ClockTypes =>
             ~e.external /\ e.value <= generation[e.type]
      BY <1>2, <1>3, <1>6 DEF IInv, ClockEvents
    <2>. QED BY <1>1, <2>1 DEF ClockEvents
  <1>11. OneLockPerClock'
    <2>1. SUFFICES ASSUME NEW e \in events', NEW f \in events', CurrentClock(e)',
                          CurrentClock(f)', e.type = f.type
                   PROVE  e = f
      BY DEF OneLockPerClock, LocksUnderWay
    <2>2. e.type \in ClockTypes /\ f.type \in ClockTypes
      BY <2>1 DEF CurrentClock
    <2>3. PICK c \in locks : e = Requeued(c)
      BY <1>6, <2>2 DEF IInv, ClockEvents
    <2>4. PICK d \in locks : f = Requeued(d)
      BY <1>6, <2>2 DEF IInv, ClockEvents
    <2>5. c.type = d.type
      BY <1>3, <2>1, <2>3, <2>4
    <2>6. c = d
      BY <2>5 DEF IInv, OneLockPerClock, locks
    <2>. QED BY <2>3, <2>4, <2>6
  <1>12. SequencesDistinct'
    <2>1. \A c \in locks : /\ Requeued(c).sequence >= sequence
                           /\ Requeued(c).sequence < sequence + total
      BY <1>3, <1>4
    <2>2. \A e \in events' : e.sequence < sequence'
      BY <1>1, <1>4, <1>5, <1>6, <2>1
    <2>3. ASSUME NEW e \in events', NEW f \in events', e.sequence = f.sequence
          PROVE  e = f
      <3>1. CASE e \in events /\ f \in events
        BY <2>3, <3>1 DEF IInv, SequencesDistinct
      <3>2. CASE \E c \in locks : e = Requeued(c) /\ f \in events
        BY <1>3, <1>4, <1>5, <2>3, <3>2
      <3>3. CASE \E c \in locks : f = Requeued(c) /\ e \in events
        BY <1>3, <1>4, <1>5, <2>3, <3>3
      <3>4. CASE \E c, d \in locks : e = Requeued(c) /\ f = Requeued(d)
        <4>1. PICK c \in locks, d \in locks : e = Requeued(c) /\ f = Requeued(d)
          BY <3>4
        <4>2. sequence + RequeuePosition(c) = sequence + RequeuePosition(d)
          BY <1>3, <2>3, <4>1
        <4>3. RequeuePosition(c) = RequeuePosition(d)
          BY <1>4, <4>2
        <4>. QED BY <1>4, <4>1, <4>3
      <3>. QED BY <1>6, <3>1, <3>2, <3>3, <3>4
    <2>. QED BY <2>2, <2>3 DEF SequencesDistinct
  <1>. QED BY <1>1, <1>9, <1>10, <1>11, <1>12 DEF IInv

LEMMA IInvNext == IInv /\ [Next]_vars => IInv'
  <1>. SUFFICES ASSUME IInv, [Next]_vars PROVE IInv'
    OBVIOUS
  <1>0. QueueInv' /\ Timely'
    BY QueueNext, TimelyNext DEF IInv
  <1>1. CASE ScheduleInternal
    BY <1>0, <1>1, IInvSchedule, SourcesNatural DEF ScheduleInternal
  <1>2. CASE ScheduleExternal
    BY <1>0, <1>2, IInvSchedule, SourcesNatural, EventQueueAssumption DEF ScheduleExternal
  <1>3. CASE ClockChanged
    BY <1>0, <1>3, IInvClock
  <1>4. CASE BeginAdvance \/ AdvanceClock
    BY <1>0, <1>4, IInvAdvance
  <1>5. CASE DispatchEvent \/ EndAdvance \/ AbortAdvance \/ RunAgain \/ DiscardEvents
             \/ CancelEvents \/ UNCHANGED vars
    BY <1>0, <1>5, TakingSteps, IInvFewer DEF IInv
  <1>6. CASE PowerStateChanged
    BY <1>0, <1>6, IInvGate, IInvUngate DEF PowerStateChanged
  <1>7. CASE Retimed
    BY <1>0, <1>7, RetimedMoves, IInvMove DEF IInv
  <1>8. CASE WarmReset \/ BrownOutReset
    BY <1>0, <1>8, IInvReset, ResetRestarts DEF IInv
  <1>. QED BY <1>1, <1>2, <1>3, <1>4, <1>5, <1>6, <1>7, <1>8 DEF Next

\* The inductive invariant that the theorems below are read off from: the clock
\* ahead of no event, the gates kept, one lock to a clock and numbers apart.
THEOREM QueueDisciplined == Spec => []IInv
  BY IInvInit, IInvNext, PTL DEF Spec

\* An event is paused only while its clock is stopped, or when no resume can place
\* it, also after the processor has forgotten the queue error; and no event of a
\* kind that is stopped when it is scheduled runs under a stopped clock.
THEOREM GatesRespected == Spec => []GateDiscipline
  <1>1. IInv => GateDiscipline
    BY DEF IInv
  <1>. QED BY <1>1, QueueDisciplined, PTL

\* Abandoning a lock by its generation leaves at most one per clock for a warm
\* reset to carry over.
THEOREM LocksAlone == Spec => []OneLockPerClock
  <1>1. IInv => OneLockPerClock
    BY DEF IInv
  <1>. QED BY <1>1, QueueDisciplined, PTL

\* Pending events never share a sequence number, also when a warm reset re-queues
\* the locks of clocks beside the events of the host.
THEOREM SequencesUnique == Spec => []SequencesDistinct
  <1>1. IInv => SequencesDistinct
    BY DEF IInv
  <1>. QED BY <1>1, QueueDisciplined, PTL
-----------------------------------------------------------------------------
\* Two events are never each before the other: sifting in the heap cannot swap the
\* same pair for ever.  (That the comparison is no order all the same, being
\* intransitive, is what the run EventHeap_priority shows.)
THEOREM EventLessAsymmetric ==
    ASSUME NEW l \in Event, NEW r \in Event, event_less(l, r)
    PROVE  ~event_less(r, l)
  <1>. USE DEF Earlier, SameSlot
  <1>0. /\ l.source \in Nat /\ l.cycle \in Nat /\ l.paused \in BOOLEAN /\ l.sequence \in Nat
        /\ r.source \in Nat /\ r.cycle \in Nat /\ r.paused \in BOOLEAN /\ r.sequence \in Nat
    BY EventFields
  <1>1. Channel(l) \in Nat /\ Channel(r) \in Nat
    BY <1>0, DmaCountAssumption DEF Channel
  <1>2. CASE Earlier(l, r)
    BY <1>0, <1>2 DEF event_less
  <1>3. CASE SameSlot(l, r) /\ Arbitrated(l, r) /\ DmaBefore(l, r)
    <2>1. ~DmaBefore(r, l)
      BY <1>1, <1>3 DEF DmaBefore
    <2>2. Arbitrated(r, l) /\ ~Earlier(r, l)
      BY <1>0, <1>3 DEF Arbitrated
    <2>. QED BY <2>1, <2>2 DEF event_less
  <1>4. CASE SameSlot(l, r) /\ ~Arbitrated(l, r) /\ l.sequence < r.sequence
    <2>1. ~Arbitrated(r, l) /\ ~Earlier(r, l)
      BY <1>0, <1>4 DEF Arbitrated
    <2>. QED BY <1>0, <1>4, <2>1 DEF event_less
  <1>. QED BY <1>2, <1>3, <1>4 DEF event_less
-----------------------------------------------------------------------------
\* The events no gate, discard or reset may take from the queue.
Lasting(e) == e.external \/ e.type \in ClockTypes

Delivered(e) == advancing /\ e.cycle = device_cycles /\ ~e.paused

CancelledAll(e) == e.type \in CancelledTypes /\ \A f \in events' : f.type # e.type

OwesTheSame(e) == /\ e.type \in HostGatedTypes
                  /\ \E f \in events' : /\ f.sequence = e.sequence /\ f.type = e.type
                                        /\ f.external /\ Left(f)' = Left(e)

\* Pausing and resuming leave what an event has left as it is.
LEMMA PauseLeaves == ASSUME NEW e, ~e.paused, UNCHANGED device_cycles
                     PROVE  Left(PauseEvent(e))' = Left(e)
  <1>1. PauseEvent(e).remaining = RemainingAt(e) /\ PauseEvent(e).paused = TRUE
    BY DEF PauseEvent, Clocking
  <1>2. PauseEvent(e)' = PauseEvent(e)
    BY DEF PauseEvent, Clocking, RemainingAt, Wrapped
  <1>3. (PauseEvent(e).remaining)' = RemainingAt(e) /\ (PauseEvent(e).paused)' = TRUE
    BY <1>1, <1>2
  <1>4. Left(e) = RemainingAt(e)
    BY DEF Left
  <1>5. Left(PauseEvent(e))' = (PauseEvent(e).remaining)'
    BY <1>3 DEF Left
  <1>. QED BY <1>3, <1>4, <1>5

LEMMA ResumeLeaves ==
    ASSUME TypeOK, NEW e \in Proper, e.paused, ~ResumeOverflows(e), UNCHANGED device_cycles
    PROVE  Left(ResumeEvent(e))' = Left(e)
  <1>1. e \in Event /\ e.remaining \in Nat /\ e.remaining \in Word /\ device_cycles \in Nat
    BY EventFields, Clock DEF Proper
  <1>2. /\ ResumeEvent(e).cycle = device_cycles + e.remaining
        /\ ResumeEvent(e).paused = FALSE
    BY DEF ResumeEvent, Clocking
  <1>3. /\ (device_cycles + e.remaining) - device_cycles = e.remaining
        /\ ~(device_cycles + e.remaining < device_cycles)
    BY <1>1
  <1>4. Wrapped(e.remaining) = e.remaining
    BY <1>1, WrappedWord, Numbers DEF Word
  <1>5. RemainingAt(ResumeEvent(e)) = e.remaining
    BY <1>2, <1>3, <1>4 DEF RemainingAt
  <1>6. Left(ResumeEvent(e)) = e.remaining
    BY <1>2, <1>5 DEF Left
  <1>7. Left(ResumeEvent(e))' = Left(ResumeEvent(e))
    BY DEF Left, RemainingAt, Wrapped, ResumeEvent, Clocking
  <1>8. Left(e) = e.remaining
    BY DEF Left
  <1>. QED BY <1>6, <1>7, <1>8

LEMMA GateLeaves ==
    ASSUME IInv, NEW t \in GatedTypes, Gate(t), NEW e \in events, Lasting(e)
    PROVE  e \in events' \/ OwesTheSame(e)
  <1>1. GateMap(t)[e] \in events' /\ UNCHANGED device_cycles
    BY GateRelabels DEF Relabels, IInv, Gate
  <1>2. e \in Proper /\ TypeOK
    BY DEF IInv, QueueInv, Sound
  <1>3. CASE ~(Clocked(e, t) /\ ~e.paused)
    BY <1>1, <1>3 DEF GateMap
  <1>4. CASE Clocked(e, t) /\ ~e.paused
    <2>1. e.type = t /\ (e.external => t \in HostGatedTypes) /\ PauseEvent(e) \in events'
      BY <1>1, <1>4 DEF GateMap, Clocked
    <2>2. e.external /\ t \in HostGatedTypes
      BY <2>1, ClocksNotGated DEF Lasting
    <2>3. SameEvent(PauseEvent(e), e)
      BY ClockingSame
    <2>4. \E f \in events' : f = PauseEvent(e)
      BY <2>1
    <2>5. Left(PauseEvent(e))' = Left(e)
      BY <1>1, <1>4, PauseLeaves
    <2>6. PauseEvent(e)' = PauseEvent(e)
      BY <1>1 DEF PauseEvent, Clocking, RemainingAt, Wrapped
    <2>7. PICK f \in events' : f = PauseEvent(e)
      BY <2>4
    <2>8. Left(f)' = Left(e)
      BY <2>5, <2>6, <2>7 DEF Left, RemainingAt, Wrapped
    <2>. QED BY <2>1, <2>2, <2>3, <2>7, <2>8 DEF OwesTheSame, SameEvent
  <1>. QED BY <1>3, <1>4

LEMMA UngateLeaves ==
    ASSUME IInv, NEW t \in GatedTypes, Ungate(t), NEW e \in events, Lasting(e)
    PROVE  e \in events' \/ OwesTheSame(e)
  <1>1. UngateMap(t)[e] \in events' /\ UNCHANGED device_cycles
    BY UngateRelabels DEF Relabels, IInv, Ungate
  <1>2. e \in Proper /\ TypeOK
    BY DEF IInv, QueueInv, Sound
  <1>3. CASE ~(e.type = t /\ e.paused /\ ~ResumeOverflows(e))
    BY <1>1, <1>3 DEF UngateMap
  <1>4. CASE e.type = t /\ e.paused /\ ~ResumeOverflows(e)
    <2>1. ResumeEvent(e) \in events'
      BY <1>1, <1>4 DEF UngateMap
    <2>2. e.external
      BY <1>4, ClocksNotGated DEF Lasting
    <2>3. t \in HostGatedTypes
      BY <1>2, <1>4, <2>2 DEF Proper
    <2>4. SameEvent(ResumeEvent(e), e)
      BY ClockingSame
    <2>5. Left(ResumeEvent(e))' = Left(e)
      BY <1>1, <1>2, <1>4, ResumeLeaves
    <2>6. ResumeEvent(e)' = ResumeEvent(e)
      BY <1>1 DEF ResumeEvent, Clocking
    <2>7. PICK f \in events' : f = ResumeEvent(e)
      BY <2>1
    <2>8. Left(f)' = Left(e)
      BY <2>5, <2>6, <2>7 DEF Left, RemainingAt, Wrapped
    <2>. QED BY <1>4, <2>2, <2>3, <2>4, <2>7, <2>8 DEF OwesTheSame, SameEvent
  <1>. QED BY <1>3, <1>4

\* Short of a reset, a lasting event is untouched or delivered, or all of its kind
\* are cancelled, or its clock stops or goes on.
LEMMA LastingStay ==
    ASSUME IInv, [Next]_vars, NEW e \in events, Lasting(e), ~WarmReset, ~BrownOutReset
    PROVE  e \in events' \/ Delivered(e) \/ CancelledAll(e) \/ OwesTheSame(e)
  <1>1. CASE ScheduleInternal \/ ScheduleExternal
    <2>1. \E t, s, d, x : schedule_event(t, s, d, x)
      BY <1>1 DEF ScheduleInternal, ScheduleExternal
    <2>. QED BY <2>1 DEF schedule_event
  <1>2. CASE ClockChanged
    <2>1. UNCHANGED events \/ \E t, g : ScheduleLock(t, g)
      BY <1>2 DEF ClockChanged, ReconfigureClock, ContinueClock
    <2>. QED BY <2>1 DEF ScheduleLock
  <1>3. CASE BeginAdvance \/ AdvanceClock \/ EndAdvance \/ AbortAdvance \/ RunAgain
             \/ UNCHANGED vars
    BY <1>3 DEF BeginAdvance, AdvanceClock, EndAdvance, AbortAdvance, RunAgain, vars
  <1>4. CASE DispatchEvent
    BY <1>4 DEF DispatchEvent, Due, Delivered
  <1>5. CASE PowerStateChanged
    BY <1>5, GateLeaves, UngateLeaves DEF PowerStateChanged
  <1>6. CASE DiscardEvents
    BY <1>6 DEF DiscardEvents, Lasting
  <1>7. CASE CancelEvents
    BY <1>7 DEF CancelEvents, CancelledAll
  <1>8. CASE Retimed
    <2>1. PICK t, S, n : Moves(t, S, n)
      BY <1>8, RetimedMoves DEF IInv
    <2>2. /\ events' = (events \ S) \union {Moved(f, n) : f \in S}
          /\ t \in StretchedTypes \union ShiftedTypes
          /\ e \in S => e.type = t
      BY <2>1 DEF Moves
    <2>3. e \in Proper
      BY DEF IInv, QueueInv, Sound
    <2>4. e.type \notin StretchedTypes \union ShiftedTypes
      BY <2>3, EventQueueAssumption DEF Proper, Lasting
    <2>. QED BY <2>2, <2>4
  <1>. QED BY <1>1, <1>2, <1>3, <1>4, <1>5, <1>6, <1>7, <1>8 DEF Next

\* An event of the host leaves the queue by being dispatched at its cycle or with
\* all those of its kind when USB or SPI cancel them, and in no other way: no
\* reset, re-timing or discard touches it, and one that USB pauses or resumes keeps
\* its number and what it has left.
THEOREM HostEventsSurvive == Spec => ExternalSurvives
  <1>1. IInv /\ [Next]_vars =>
          [\A e \in events : e.external =>
              \/ e \in events'
              \/ advancing /\ e.cycle = device_cycles /\ ~e.paused
              \/ e.type \in CancelledTypes /\ \A f \in events' : f.type # e.type
              \/ /\ e.type \in HostGatedTypes
                 /\ \E f \in events' : /\ f.sequence = e.sequence /\ f.type = e.type
                                       /\ f.external /\ Left(f)' = Left(e)]_vars
    <2>. SUFFICES ASSUME IInv, [Next]_vars, NEW e \in events, e.external
                  PROVE  e \in events' \/ Delivered(e) \/ CancelledAll(e) \/ OwesTheSame(e)
      BY DEF Delivered, CancelledAll, OwesTheSame
    <2>1. CASE WarmReset \/ BrownOutReset
      BY <2>1 DEF WarmReset, BrownOutReset
    <2>2. CASE ~WarmReset /\ ~BrownOutReset
      BY <2>2, LastingStay DEF Lasting
    <2>. QED BY <2>1, <2>2
  <1>. QED BY <1>1, QueueDisciplined, PTL DEF Spec, ExternalSurvives
-----------------------------------------------------------------------------
\* A lock is never scheduled under generation 0, which a brown-out goes back to:
\* a lock of before it cannot pass for one of after it.
LocksNumbered == \A e \in events : e.type \in ClockTypes => e.value # 0

LEMMA LocksNumberedNext == IInv /\ LocksNumbered /\ [Next]_vars => LocksNumbered'
  <1>. SUFFICES ASSUME IInv, LocksNumbered, [Next]_vars,
                       NEW e \in events', e.type \in ClockTypes
                PROVE  e.value # 0
    BY DEF LocksNumbered
  <1>0. QueueInv
    BY DEF IInv
  <1>1. CASE ScheduleInternal \/ ScheduleExternal
    <2>1. PICK t, s, d, x : t \notin ClockTypes /\ schedule_event(t, s, d, x)
      BY <1>1, EventQueueAssumption DEF ScheduleInternal, ScheduleExternal
    <2>2. Placed(NewEvent(t, s, 0, d, x)).type = t
      BY DEF Placed, PauseEvent, Clocking, NewEvent
    <2>. QED BY <2>1, <2>2 DEF schedule_event, LocksNumbered
  <1>2. CASE ClockChanged
    <2>1. PICK t \in ClockTypes : ReconfigureClock(t) \/ ContinueClock(t)
      BY <1>2 DEF ClockChanged
    <2>2. \/ UNCHANGED events
          \/ \E g \in Nat : g # 0 /\ ScheduleLock(t, g)
      <3>1. CASE ReconfigureClock(t)
        <4>1. NextGeneration(t) \in Nat /\ NextGeneration(t) # 0
          BY <1>0, <3>1, Regenerated DEF QueueInv, TypeOK
        <4>. QED BY <3>1, <4>1 DEF ReconfigureClock
      <3>2. CASE ContinueClock(t)
        BY <1>0, <3>2 DEF ContinueClock, QueueInv, TypeOK
      <3>. QED BY <2>1, <3>1, <3>2
    <2>3. CASE UNCHANGED events
      BY <2>3 DEF LocksNumbered
    <2>4. CASE \E g \in Nat : g # 0 /\ ScheduleLock(t, g)
      <3>1. PICK g \in Nat : g # 0 /\ ScheduleLock(t, g)
        BY <2>4
      <3>2. PICK new : events' = events \union {new} /\ new.value = g
        BY <1>0, <3>1, LockPlaced
      <3>. QED BY <3>1, <3>2 DEF LocksNumbered
    <2>. QED BY <2>2, <2>3, <2>4
  <1>3. CASE BeginAdvance \/ AdvanceClock
    BY <1>3 DEF BeginAdvance, AdvanceClock, LocksNumbered
  <1>4. CASE DispatchEvent \/ EndAdvance \/ AbortAdvance \/ RunAgain \/ DiscardEvents
             \/ CancelEvents \/ UNCHANGED vars
    BY <1>0, <1>4, TakingSteps DEF Takes, LocksNumbered
  <1>5. CASE PowerStateChanged \/ Retimed
    <2>1. \E h : Relabels(h)
      BY <1>0, <1>5, GateRelabels, UngateRelabels, RetimedMoves, MovesRelabels
         DEF PowerStateChanged
    <2>2. \E f \in events : e.type = f.type /\ e.value = f.value
      BY <2>1 DEF Relabels, SameEvent
    <2>. QED BY <2>2 DEF LocksNumbered
  <1>6. CASE WarmReset \/ BrownOutReset
    <2>1. e \in Carried
      BY <1>0, <1>6, ResetRestarts DEF Restarted
    <2>2. \E f \in events : e.type = f.type /\ e.value = f.value
      BY <1>0, <2>1, RequeuedProper DEF Carried, LocksUnderWay
    <2>. QED BY <2>2 DEF LocksNumbered
  <1>. QED BY <1>1, <1>2, <1>3, <1>4, <1>5, <1>6 DEF Next

THEOREM LocksAreNumbered == Spec => []LocksNumbered
  <1>1. Init => LocksNumbered
    BY DEF Init, LocksNumbered
  <1>. QED BY <1>1, LocksNumberedNext, QueueDisciplined, PTL DEF Spec

\* A lock under way ends at the cycle it was to end at, resets or not, unless its
\* clock is reconfigured or starts again from nothing.
THEOREM LocksUnderWaySurvive == Spec => LocksSurvive
  <1>. DEFINE Survives(e) ==
                 \/ \E f \in events' : f.type = e.type /\ f.value = e.value /\ f.cycle = e.cycle
                 \/ generation'[e.type] # e.value
                 \/ advancing /\ e.cycle = device_cycles
                 \/ disturbed
  <1>1. ASSUME IInv, LocksNumbered, [Next]_vars, NEW e \in LocksUnderWay PROVE Survives(e)
    <2>1. e \in events /\ e.type \in ClockTypes /\ e \in Proper
      BY <1>1 DEF LocksUnderWay, CurrentClock, IInv, QueueInv, Sound
    <2>2. CASE ~WarmReset /\ ~BrownOutReset
      <3>1. ~CancelledAll(e) /\ ~OwesTheSame(e)
        BY <2>1, EventQueueAssumption DEF CancelledAll, OwesTheSame
      <3>. QED BY <1>1, <2>1, <2>2, <3>1, LastingStay DEF Lasting, Delivered
    <2>3. disturbed \/ e.cycle >= device_cycles
      BY <1>1, <2>1, ClocksNotGated DEF IInv, Timely, NoEventInPast, Proper
    <2>4. /\ Requeued(e).type = e.type /\ Requeued(e).value = e.value
          /\ disturbed \/ Requeued(e).cycle = e.cycle
      BY <1>1, <2>3, RequeuedProper DEF IInv
    <2>5. CASE WarmReset
      BY <2>4, <2>5 DEF WarmReset
    <2>6. CASE BrownOutReset
      <3>1. CASE e.type = "OSCILLATOR"
        BY <1>1, <2>1, <2>6, <3>1 DEF BrownOutReset, LocksNumbered
      <3>2. CASE e.type # "OSCILLATOR"
        BY <2>4, <2>6, <3>2 DEF BrownOutReset
      <3>. QED BY <3>1, <3>2
    <2>. QED BY <2>2, <2>5, <2>6
  <1>2. IInv /\ LocksNumbered /\ [Next]_vars => [\A e \in LocksUnderWay : Survives(e)]_vars
    BY <1>1
  <1>. QED BY <1>2, QueueDisciplined, LocksAreNumbered, PTL DEF Spec, LocksSurvive
-----------------------------------------------------------------------------
\* The refinement: what the events owe is the agenda, and every step of a queue
\* that is not disturbed is a step of the agenda or leaves it as it is.
Pending == {Owing(e) : e \in events}

Calm == IInv /\ ~disturbed

LEMMA OwingFields ==
    ASSUME NEW e
    PROVE  /\ Owing(e).id = e.sequence /\ Owing(e).kind = e.type
           /\ Owing(e).running = ~e.paused
           /\ Owing(e).external = e.external /\ Owing(e).left = Left(e)
  BY DEF Owing

LEMMA OwingDistinct ==
    ASSUME IInv, NEW e \in events, NEW f \in events, Owing(e) = Owing(f)
    PROVE  e = f
  <1>1. e.sequence = f.sequence
    BY OwingFields
  <1>. QED BY <1>1 DEF IInv, SequencesDistinct

LEMMA LeftWord == ASSUME TypeOK, NEW e \in Event PROVE Left(e) \in Word
  BY RemainingWord, EventFields DEF Left

\* What an event has left, while no running one is in the past.
LEMMA LeftCalm ==
    ASSUME Calm, NEW e \in events
    PROVE  /\ e.paused => Left(e) = e.remaining
           /\ ~e.paused => Left(e) = e.cycle - device_cycles /\ e.cycle >= device_cycles
           /\ e \in Event /\ e \in Proper
  <1>1. e \in Event /\ e \in Proper /\ TypeOK
    BY DEF Calm, IInv, QueueInv, Sound, Proper
  <1>2. ~e.paused => e.cycle >= device_cycles
    BY DEF Calm, IInv, Timely, NoEventInPast
  <1>3. e.cycle >= device_cycles => RemainingAt(e) = e.cycle - device_cycles
    BY <1>1, RemainingWord
  <1>. QED BY <1>1, <1>2, <1>3 DEF Left

LEMMA OwingTyped ==
    ASSUME TypeOK, NEW e \in Event, e.sequence < MaxSequence
    PROVE  Owing(e) \in Promise!Entry
  <1>1. e.sequence \in 0 .. MaxSequence - 1
    BY EventFields, Numbers
  <1>2. Left(e) \in Word /\ e.type \in Types /\ e.external \in BOOLEAN
    BY LeftWord, EventFields
  <1>3. (~e.paused) \in BOOLEAN
    OBVIOUS
  <1>. QED BY <1>1, <1>2, <1>3 DEF Owing, Promise!Entry

\* While the clock stands still what an event owes does not change.
LEMMA OwingStill == ASSUME UNCHANGED device_cycles PROVE \A e : Owing(e)' = Owing(e)
  BY DEF Owing, Left, RemainingAt, Wrapped

LEMMA PendingStill ==
    ASSUME UNCHANGED device_cycles
    PROVE  Pending' = {Owing(e) : e \in events'}
  BY OwingStill DEF Pending

\* Scheduling adds an entry under a number of its own.
LEMMA AddsEntry ==
    ASSUME Calm, IInv', NEW new, events' = events \union {new},
           new.sequence = sequence, sequence' = sequence + 1, UNCHANGED device_cycles
    PROVE  Promise!Add
  <1>1. Pending' = Pending \union {Owing(new)} /\ Owing(new) \in Pending'
    BY PendingStill DEF Pending
  <1>2. Owing(new) \in Promise!Entry
    <2>1. /\ new \in Event /\ sequence \in Nat /\ sequence' <= MaxSequence /\ TypeOK
      BY Clock DEF Calm, IInv, QueueInv, Sound, Proper
    <2>2. new.sequence < MaxSequence
      BY <2>1, Numbers
    <2>. QED BY <2>1, <2>2, OwingTyped
  <1>3. Owing(new).id \notin {o.id : o \in Pending}
    <2>1. ASSUME NEW e \in events PROVE e.sequence # sequence
      <3>1. e.sequence \in Nat /\ sequence \in Nat /\ e.sequence < sequence
        BY LeftCalm, EventFields, Clock DEF Calm, IInv, QueueInv, SequencesDistinct
      <3>. QED BY <3>1
    <2>. QED BY <2>1, OwingFields DEF Pending
  <1>. QED BY <1>1, <1>2, <1>3 DEF Promise!Add, Promise!Ids, Pending

\* Time passes for all running events alike.
LEMMA AdvancePasses == Calm /\ ~disturbed' /\ AdvanceClock => Promise!Pass
  <1>. SUFFICES ASSUME Calm, ~disturbed', AdvanceClock PROVE Promise!Pass
    OBVIOUS
  <1>1. PICK n \in 0 .. CycleLimit : device_cycles' = device_cycles + n
    BY OrderedAdvance DEF Calm, IInv
  <1>2. /\ UNCHANGED events
        /\ \A e \in events : ~e.paused => e.cycle >= device_cycles'
    BY OrderedAdvance DEF Calm, IInv
  <1>3. device_cycles \in Nat /\ n \in Nat
    BY <1>1, Clock, Numbers DEF Calm, IInv, QueueInv
  <1>. DEFINE aged(o) == IF o.running THEN Promise!Becomes(o, o.id, o.left - n, TRUE) ELSE o
  <1>4. ASSUME NEW e \in events
        PROVE  /\ ~e.paused => n <= Owing(e).left
               /\ Owing(e)' = aged(Owing(e))
    <2>1. e.cycle \in Nat /\ e.cycle <= CycleLimit /\ e.paused \in BOOLEAN
      BY LeftCalm, EventFields
    <2>2. CASE e.paused
      BY <2>2 DEF Owing, Left
    <2>3. CASE ~e.paused
      <3>1. e.cycle >= device_cycles + n /\ Left(e) = e.cycle - device_cycles
        BY <1>1, <1>2, <2>3, LeftCalm
      <3>2. e.cycle - (device_cycles + n) = (e.cycle - device_cycles) - n
        BY <1>3, <2>1
      <3>3. n <= e.cycle - device_cycles
        BY <1>3, <2>1, <3>1
      <3>4. RemainingAt(e)' = e.cycle - (device_cycles + n)
        <4>1. e.cycle - (device_cycles + n) \in Word /\ ~(e.cycle < device_cycles + n)
          BY <1>3, <2>1, <3>1, Numbers DEF Word
        <4>2. Wrapped(e.cycle - (device_cycles + n)) = e.cycle - (device_cycles + n)
          BY <4>1, WrappedWord, Numbers DEF Word
        <4>. QED BY <1>1, <4>1, <4>2 DEF RemainingAt
      <3>5. Left(e)' = e.cycle - (device_cycles + n)
        BY <2>3, <3>4 DEF Left
      <3>6. Owing(e)' = [id |-> e.sequence, kind |-> e.type,
                         left |-> e.cycle - (device_cycles + n),
                         running |-> TRUE, external |-> e.external]
        BY <2>3, <3>5 DEF Owing
      <3>7. Owing(e) = [id |-> e.sequence, kind |-> e.type, left |-> e.cycle - device_cycles,
                        running |-> TRUE, external |-> e.external]
        BY <2>3, <3>1 DEF Owing
      <3>8. aged(Owing(e)) = [id |-> e.sequence, kind |-> e.type,
                              left |-> (e.cycle - device_cycles) - n,
                              running |-> TRUE, external |-> e.external]
        BY <3>7 DEF Promise!Becomes
      <3>. HIDE DEF aged
      <3>9. Owing(e).left = e.cycle - device_cycles
        BY <3>7
      <3>. QED BY <3>2, <3>3, <3>6, <3>8, <3>9
    <2>. QED BY <2>2, <2>3
  <1>5. Pending' = {aged(o) : o \in Pending}
    <2>1. Pending' = {Owing(e)' : e \in events}
      BY <1>2 DEF Pending
    <2>. HIDE DEF aged
    <2>. QED BY <1>4, <2>1 DEF Pending
  <1>6. \A o \in Pending : o.running => n <= o.left
    BY <1>4, OwingFields DEF Pending
  <1>7. n \in Word
    BY <1>1 DEF Word
  <1>. QED BY <1>5, <1>6, <1>7 DEF Promise!Pass, Pending

LEMMA Removing ==
    ASSUME IInv, NEW D \in SUBSET events
    PROVE  {Owing(e) : e \in events \ D} = Pending \ {Owing(e) : e \in D}
  BY OwingDistinct DEF Pending

LEMMA DispatchDelivers == Calm /\ DispatchEvent => Promise!Deliver
  <1>. SUFFICES ASSUME Calm, DispatchEvent PROVE Promise!Deliver
    OBVIOUS
  <1>1. PICK e \in events : /\ ~e.paused /\ e.cycle = device_cycles
                            /\ events' = events \ {e} /\ UNCHANGED device_cycles
    BY DEF DispatchEvent, Due, Heads
  <1>2. Pending' = Pending \ {Owing(e)}
    <2>1. {Owing(f) : f \in events \ {e}} = Pending \ {Owing(f) : f \in {e}}
      BY Removing DEF Calm
    <2>2. {Owing(f) : f \in {e}} = {Owing(e)}
      OBVIOUS
    <2>. QED BY <1>1, <2>1, <2>2, PendingStill
  <1>3. Owing(e).running = TRUE /\ Owing(e).left = 0 /\ Owing(e) \in Pending
    <2>1. device_cycles \in Nat
      BY Clock DEF Calm, IInv, QueueInv
    <2>2. Owing(e).left = e.cycle - device_cycles
      BY <1>1, OwingFields, LeftCalm
    <2>3. Owing(e).running = TRUE /\ Owing(e) \in Pending
      BY <1>1, OwingFields DEF Pending
    <2>. QED BY <1>1, <2>1, <2>2, <2>3
  <1>. QED BY <1>2, <1>3 DEF Promise!Deliver, Pending

\* Pausing, resuming and moving replace events of a set by others.
LEMMA Replacing ==
    ASSUME IInv, NEW S \in SUBSET events, NEW h,
           events' = (events \ S) \union {h[e] : e \in S}, UNCHANGED device_cycles
    PROVE  \A o : o \in Pending' <=> \/ o \in Pending \ {Owing(e) : e \in S}
                                     \/ \E e \in S : o = Owing(h[e])
  <1>1. Pending' = {Owing(e) : e \in events \ S} \union {Owing(h[e]) : e \in S}
    BY PendingStill
  <1>. QED BY <1>1, Removing

LEMMA GateHolds == ASSUME Calm, NEW t \in GatedTypes, Gate(t) PROVE Promise!Hold
  <1>. DEFINE S == {e \in events : Clocked(e, t) /\ ~e.paused}
              H == {Owing(e) : e \in S}
              h == [e \in S |-> PauseEvent(e)]
              moved(o) == Promise!Becomes(o, o.id, o.left, FALSE)
  <1>1. events' = (events \ S) \union {h[e] : e \in S} /\ UNCHANGED device_cycles
    BY DEF Gate
  <1>2. ASSUME NEW e \in S PROVE Owing(h[e]) = moved(Owing(e))
    <2>1. h[e] = PauseEvent(e) /\ ~e.paused
      OBVIOUS
    <2>2. Owing(PauseEvent(e)) = [id |-> e.sequence, kind |-> e.type, left |-> RemainingAt(e),
                                  running |-> FALSE, external |-> e.external]
      BY DEF Owing, Left, PauseEvent, Clocking
    <2>3. Owing(e) = [id |-> e.sequence, kind |-> e.type, left |-> RemainingAt(e),
                      running |-> TRUE, external |-> e.external]
      BY <2>1 DEF Owing, Left
    <2>4. moved(Owing(e)) = Promise!Becomes(Owing(e), Owing(e).id, Owing(e).left, FALSE)
      OBVIOUS
    <2>5. Promise!Becomes(Owing(e), Owing(e).id, Owing(e).left, FALSE)
            = [id |-> e.sequence, kind |-> e.type, left |-> RemainingAt(e),
               running |-> FALSE, external |-> e.external]
      BY <2>3 DEF Promise!Becomes
    <2>. HIDE DEF h, moved
    <2>. QED BY <2>1, <2>2, <2>4, <2>5
  <1>3. S \in SUBSET events
    OBVIOUS
  <1>4. \A e \in S : e.external => e.type \in HostGatedTypes
    BY DEF Clocked
  <1>. HIDE DEF S, h, moved
  <1>6. Pending' = (Pending \ H) \union {moved(o) : o \in H}
    <2>1. \A o : o \in Pending' <=> o \in Pending \ H \/ \E e \in S : o = Owing(h[e])
      BY <1>1, <1>3, Replacing DEF Calm
    <2>. QED BY <1>2, <2>1
  <1>7. H \in SUBSET {o \in Pending : o.external => o.kind \in HostGatedTypes}
    BY <1>3, <1>4, OwingFields DEF Pending
  <1>. QED BY <1>6, <1>7 DEF Promise!Hold, Pending, moved

LEMMA UngateReleases == ASSUME Calm, NEW t \in GatedTypes, Ungate(t) PROVE Promise!Release
  <1>. DEFINE S == {e \in events : e.type = t /\ e.paused /\ ~ResumeOverflows(e)}
              H == {Owing(e) : e \in S}
              h == [e \in S |-> ResumeEvent(e)]
              moved(o) == Promise!Becomes(o, o.id, o.left, TRUE)
  <1>1. events' = (events \ S) \union {h[e] : e \in S} /\ UNCHANGED device_cycles
    BY DEF Ungate
  <1>2. ASSUME NEW e \in S PROVE Owing(h[e]) = moved(Owing(e))
    <2>1. h[e] = ResumeEvent(e) /\ e.paused /\ ~ResumeOverflows(e) /\ e \in events
      OBVIOUS
    <2>2. Left(ResumeEvent(e))' = Left(e)
      <3>1. e \in Proper /\ TypeOK
        BY <2>1, LeftCalm DEF Calm, IInv, QueueInv
      <3>. QED BY <1>1, <2>1, <3>1, ResumeLeaves
    <2>3. Left(ResumeEvent(e))' = Left(ResumeEvent(e)) /\ Left(e) = e.remaining
      BY <1>1, <2>1 DEF Left, RemainingAt, Wrapped, ResumeEvent, Clocking
    <2>4. Owing(ResumeEvent(e)) = [id |-> e.sequence, kind |-> e.type, left |-> e.remaining,
                                   running |-> TRUE, external |-> e.external]
      <3>1. Left(ResumeEvent(e)) = e.remaining
        BY <2>2, <2>3
      <3>2. /\ ResumeEvent(e).sequence = e.sequence /\ ResumeEvent(e).type = e.type
            /\ ResumeEvent(e).paused = FALSE /\ ResumeEvent(e).external = e.external
        BY DEF ResumeEvent, Clocking
      <3>. QED BY <3>1, <3>2 DEF Owing
    <2>5. Owing(e) = [id |-> e.sequence, kind |-> e.type, left |-> e.remaining,
                      running |-> FALSE, external |-> e.external]
      BY <2>1 DEF Owing, Left
    <2>6. moved(Owing(e)) = Promise!Becomes(Owing(e), Owing(e).id, Owing(e).left, TRUE)
      OBVIOUS
    <2>7. Promise!Becomes(Owing(e), Owing(e).id, Owing(e).left, TRUE)
            = [id |-> e.sequence, kind |-> e.type, left |-> e.remaining, running |-> TRUE,
               external |-> e.external]
      BY <2>5 DEF Promise!Becomes
    <2>. HIDE DEF h, moved
    <2>. QED BY <2>1, <2>4, <2>6, <2>7
  <1>3. S \in SUBSET events /\ \A e \in S : e.paused
    OBVIOUS
  <1>. HIDE DEF S, h, moved
  <1>5. Pending' = (Pending \ H) \union {moved(o) : o \in H}
    <2>1. \A o : o \in Pending' <=> o \in Pending \ H \/ \E e \in S : o = Owing(h[e])
      BY <1>1, <1>3, Replacing DEF Calm
    <2>. QED BY <1>2, <2>1
  <1>6. H \in SUBSET {o \in Pending : ~o.running}
    BY <1>3, OwingFields DEF Pending
  <1>. QED BY <1>5, <1>6 DEF Promise!Release, Pending, moved

LEMMA MovesMove ==
    ASSUME Calm, ~disturbed', NEW t, NEW S, NEW n, Moves(t, S, n)
    PROVE  Promise!Move
  <1>. DEFINE M == {Owing(e) : e \in S}
              h == [e \in S |-> Moved(e, n)]
              moved(o) == Promise!Becomes(o, o.id, o.left + n, o.running)
  <1>1. /\ t \in StretchedTypes \union ShiftedTypes /\ n \in -MaxShift .. MaxShift
        /\ S \in SUBSET events /\ \A e \in S : e.type = t
        /\ UNCHANGED device_cycles
    BY DEF Moves
  <1>2. events' = (events \ S) \union {h[e] : e \in S}
    BY DEF Moves
  <1>3. ASSUME NEW e \in S
        PROVE  /\ Owing(h[e]) = moved(Owing(e))
               /\ Owing(e).left + n \in Word
    <2>1. h[e] = Moved(e, n)
      OBVIOUS
    <2>2. /\ e \in events /\ e \in Event /\ n \in Int /\ device_cycles \in Nat
          /\ e.cycle \in Nat /\ e.remaining \in Nat
      BY <1>1, LeftCalm, EventFields, Clock, Numbers DEF Calm, IInv, QueueInv
    <2>3. /\ Moved(e, n).paused = e.paused /\ SameEvent(Moved(e, n), e)
          /\ e.paused => /\ Moved(e, n).remaining = e.remaining + n
                         /\ e.remaining + n \in Word
          /\ ~e.paused => /\ Moved(e, n).cycle = e.cycle + n /\ e.cycle + n >= device_cycles
                          /\ e.cycle + n \in Word
      BY MovedWithin DEF Calm, IInv
    <2>4. Left(Moved(e, n)) = Left(e) + n /\ Left(e) + n \in Word
      <3>1. CASE e.paused
        BY <2>2, <2>3, <3>1 DEF Left
      <3>2. CASE ~e.paused
        <4>1. Left(e) = e.cycle - device_cycles
          BY <2>2, <3>2, LeftCalm
        <4>2. /\ (e.cycle + n) - device_cycles = (e.cycle - device_cycles) + n
              /\ (e.cycle + n) - device_cycles \in Word
              /\ ~(e.cycle + n < device_cycles)
          BY <2>2, <2>3, <3>2, Numbers DEF Word
        <4>3. Wrapped((e.cycle + n) - device_cycles) = (e.cycle + n) - device_cycles
          BY <4>2, WrappedWord, Numbers DEF Word
        <4>4. RemainingAt(Moved(e, n)) = (e.cycle + n) - device_cycles
          <5>. DEFINE m == Moved(e, n)
                      c == e.cycle + n
          <5>1. /\ m.cycle = c /\ ~(c < device_cycles)
                /\ Wrapped(c - device_cycles) = c - device_cycles
            BY <2>3, <3>2, <4>2, <4>3
          <5>. HIDE DEF m, c
          <5>2. RemainingAt(m) = c - device_cycles
            BY <5>1 DEF RemainingAt
          <5>. QED BY <5>2 DEF m, c
        <4>5. Left(Moved(e, n)) = RemainingAt(Moved(e, n))
          BY <2>3, <3>2 DEF Left
        <4>. QED BY <4>1, <4>2, <4>4, <4>5
      <3>. QED BY <3>1, <3>2
    <2>5. Owing(Moved(e, n)) = [id |-> e.sequence, kind |-> e.type, left |-> Left(e) + n,
                                running |-> ~e.paused, external |-> e.external]
      BY <2>3, <2>4 DEF Owing, SameEvent
    <2>6. moved(Owing(e)) = Promise!Becomes(Owing(e), Owing(e).id, Owing(e).left + n,
                                            Owing(e).running)
      OBVIOUS
    <2>7. Promise!Becomes(Owing(e), Owing(e).id, Owing(e).left + n, Owing(e).running)
            = [id |-> e.sequence, kind |-> e.type, left |-> Left(e) + n,
               running |-> ~e.paused, external |-> e.external]
      BY DEF Owing, Promise!Becomes
    <2>. HIDE DEF h, moved
    <2>. QED BY <2>1, <2>4, <2>5, <2>6, <2>7, OwingFields
  <1>. HIDE DEF h, moved
  <1>5. Pending' = (Pending \ M) \union {moved(o) : o \in M}
    <2>1. \A o : o \in Pending' <=> o \in Pending \ M \/ \E e \in S : o = Owing(h[e])
      BY <1>1, <1>2, Replacing DEF Calm
    <2>. QED BY <1>3, <2>1
  <1>6. M \in SUBSET {o \in Pending : o.kind = t}
    BY <1>1, OwingFields DEF Pending
  <1>7. \A o \in M : o.left + n \in Word
    BY <1>3
  <1>. QED BY <1>1, <1>5, <1>6, <1>7 DEF Promise!Move, Pending, moved

LEMMA DiscardDiscards == Calm /\ DiscardEvents => Promise!Discard
  <1>. SUFFICES ASSUME Calm, DiscardEvents PROVE Promise!Discard
    OBVIOUS
  <1>1. PICK t, s : /\ events' = {e \in events : e.external \/ e.type # t
                                                  \/ e.source % DmaCount # s % DmaCount}
                    /\ UNCHANGED device_cycles
    BY DEF DiscardEvents
  <1>. DEFINE D == {e \in events : ~(e.external \/ e.type # t
                                                \/ e.source % DmaCount # s % DmaCount)}
  <1>2. events' = events \ D /\ D \in SUBSET events /\ \A e \in D : ~e.external
    BY <1>1
  <1>. HIDE DEF D
  <1>3. Pending' = Pending \ {Owing(e) : e \in D}
    BY <1>1, <1>2, PendingStill, Removing DEF Calm
  <1>4. {Owing(e) : e \in D} \in SUBSET {o \in Pending : ~o.external}
    BY <1>2, OwingFields DEF Pending
  <1>. QED BY <1>3, <1>4 DEF Promise!Discard, Promise!Internal, Pending

LEMMA CancelCancels == CancelEvents => Promise!Cancel
  <1>. SUFFICES ASSUME CancelEvents PROVE Promise!Cancel
    OBVIOUS
  <1>1. PICK t \in CancelledTypes : /\ events' = {e \in events : e.type # t}
                                    /\ UNCHANGED device_cycles
    BY DEF CancelEvents
  <1>2. Pending' = {o \in Pending : o.kind # t}
    <2>1. Pending' = {Owing(e) : e \in {f \in events : f.type # t}}
      BY <1>1, PendingStill
    <2>. QED BY <2>1, OwingFields DEF Pending
  <1>. QED BY <1>2 DEF Promise!Cancel, Pending

\* A reset that carries over the locks of L.
LEMMA ResetRenumbers ==
    ASSUME Calm, NEW L \in SUBSET LocksUnderWay,
           events' = {e \in events : e.external} \union {Requeued(c) : c \in L},
           sequence + Cardinality(LocksUnderWay) <= MaxSequence, UNCHANGED device_cycles
    PROVE  Promise!Restart
  <1>. DEFINE C == {Owing(c) : c \in L}
              number(c) == sequence + RequeuePosition(c)
              was(o) == CHOOSE c \in L : Owing(c) = o
              renumber == [o \in C |-> number(was(o))]
              Ids == {o.id : o \in Pending}
  <1>0. IInv /\ QueueInv /\ sequence \in Nat
    BY Clock DEF Calm, IInv, QueueInv
  <1>1. L \subseteq events /\ \A c \in L : c.type \in ClockTypes /\ c \in LocksUnderWay
    BY DEF LocksUnderWay, CurrentClock
  <1>2. ASSUME NEW c \in L PROVE ~c.external /\ ~c.paused
    <2>1. c \in Proper /\ c.type \in ClockTypes /\ c \in events
      BY <1>1, LeftCalm
    <2>2. ~c.paused
      BY <2>1, ClocksNotGated DEF Proper
    <2>. QED BY <1>0, <2>1, <2>2 DEF IInv, ClockEvents
  <1>3. ASSUME NEW c \in L PROVE was(Owing(c)) = c
    BY <1>0, <1>1, OwingDistinct
  <1>4. \A c \in L : renumber[Owing(c)] = number(c)
    BY <1>3
  <1>5. ASSUME NEW c \in L PROVE number(c) \in (0 .. MaxSequence - 1) \ Ids
    <2>1. /\ Cardinality(LocksUnderWay) \in Nat
          /\ RequeuePosition(c) \in Nat /\ RequeuePosition(c) < Cardinality(LocksUnderWay)
      BY <1>0, <1>1, RequeueNumbers
    <2>2. ASSUME NEW e \in events PROVE e.sequence # number(c)
      <3>1. e.sequence \in Nat /\ e.sequence < sequence
        BY <1>0, LeftCalm, EventFields DEF IInv, SequencesDistinct
      <3>. QED BY <1>0, <2>1, <3>1
    <2>3. number(c) \notin Ids
      BY <2>2, OwingFields DEF Pending
    <2>4. number(c) \in 0 .. MaxSequence - 1
      BY <1>0, <2>1, Numbers
    <2>. QED BY <2>3, <2>4
  <1>6. renumber \in [C -> (0 .. MaxSequence - 1) \ Ids]
    <2>. HIDE DEF number, was
    <2>. QED BY <1>3, <1>5
  <1>7. ASSUME NEW c \in L, NEW d \in L, number(c) = number(d) PROVE c = d
    <2>1. RequeuePosition(c) = RequeuePosition(d)
      <3>1. RequeuePosition(c) \in Nat /\ RequeuePosition(d) \in Nat
        BY <1>0, <1>1, RequeueNumbers
      <3>. QED BY <1>0, <1>7, <3>1
    <2>. QED BY <1>0, <1>1, <2>1, RequeueNumbers
  <1>. HIDE DEF number, was, renumber
  <1>8. \A o, p \in C : renumber[o] = renumber[p] => o = p
    BY <1>4, <1>7
  <1>9. ASSUME NEW c \in L
        PROVE  Owing(Requeued(c)) = Promise!Becomes(Owing(c), number(c), Owing(c).left, TRUE)
    <2>1. Left(c) = c.cycle - device_cycles /\ c.cycle >= device_cycles
      BY <1>1, <1>2, LeftCalm
    <2>2. /\ Requeued(c).sequence = number(c) /\ Requeued(c).cycle = c.cycle
          /\ ~Requeued(c).paused /\ Requeued(c).external = c.external
          /\ Requeued(c).type = c.type
      BY <1>0, <1>1, <1>2, <2>1, RequeuedProper DEF number
    <2>3. Left(Requeued(c)) = Left(c)
      BY <1>2, <2>2 DEF Left, RemainingAt
    <2>4. Owing(Requeued(c)) = [id |-> number(c), kind |-> c.type, left |-> Left(c),
                                running |-> TRUE, external |-> c.external]
      BY <2>2, <2>3 DEF Owing
    <2>5. Promise!Becomes(Owing(c), number(c), Owing(c).left, TRUE)
            = [id |-> number(c), kind |-> c.type, left |-> Left(c),
               running |-> TRUE, external |-> c.external]
      BY OwingFields DEF Promise!Becomes
    <2>. QED BY <2>4, <2>5
  <1>. DEFINE moved(o) == Promise!Becomes(o, renumber[o], o.left, TRUE)
  <1>10. \A c \in L : Owing(Requeued(c)) = moved(Owing(c))
    BY <1>4, <1>9
  <1>. HIDE DEF moved
  <1>11. Pending' = {o \in Pending : o.external} \union {moved(o) : o \in C}
    <2>1. Pending' = {Owing(e) : e \in {f \in events : f.external}} \union
                        {Owing(Requeued(c)) : c \in L}
      BY PendingStill
    <2>2. {Owing(e) : e \in {f \in events : f.external}} = {o \in Pending : o.external}
      BY OwingFields DEF Pending
    <2>. QED BY <1>10, <2>1, <2>2
  <1>12. C \in SUBSET {o \in Pending : ~o.external}
    BY <1>1, <1>2, OwingFields DEF Pending
  <1>. QED BY <1>6, <1>8, <1>11, <1>12
           DEF Promise!Restart, Promise!Internal, Promise!Ids, Pending, moved

\* What is disturbed remains so.
LEMMA StaysDisturbed == [Next]_vars /\ disturbed => disturbed'
  <1>. SUFFICES ASSUME [Next]_vars, disturbed PROVE disturbed'
    OBVIOUS
  <1>1. CASE ScheduleInternal \/ ScheduleExternal \/ ClockChanged
    BY <1>1 DEF ScheduleInternal, ScheduleExternal, ClockChanged, schedule_event,
       ReconfigureClock, ContinueClock, ScheduleLock
  <1>2. CASE Retimed
    BY <1>2 DEF Retimed, Stretch, StretchFails, Shift
  <1>3. CASE ~(ScheduleInternal \/ ScheduleExternal \/ ClockChanged \/ Retimed)
    BY <1>3 DEF Next, BeginAdvance, AdvanceClock, DispatchEvent, EndAdvance, AbortAdvance,
       RunAgain, PowerStateChanged, Gate, Ungate, DiscardEvents, CancelEvents, WarmReset,
       BrownOutReset, vars
  <1>. QED BY <1>1, <1>2, <1>3

LEMMA StepPromised ==
    ASSUME IInv, IInv', [Next]_vars, ~disturbed'
    PROVE  \/ Promise!Add \/ Promise!Pass \/ Promise!Deliver \/ Promise!Hold
           \/ Promise!Release \/ Promise!Discard \/ Promise!Cancel \/ Promise!Move
           \/ Promise!Restart \/ UNCHANGED Pending
  <1>0. Calm
    BY StaysDisturbed DEF Calm
  <1>1. CASE ScheduleInternal \/ ScheduleExternal
    <2>1. PICK t, s, d, x : schedule_event(t, s, d, x)
      BY <1>1 DEF ScheduleInternal, ScheduleExternal
    <2>2. Placed(NewEvent(t, s, 0, d, x)).sequence = sequence
      BY DEF Placed, PauseEvent, Clocking, NewEvent
    <2>. QED BY <1>0, <2>1, <2>2, AddsEntry DEF schedule_event
  <1>2. CASE ClockChanged
    <2>1. CASE UNCHANGED <<events, device_cycles>>
      BY <2>1, PendingStill DEF Pending
    <2>2. CASE \E t, g : ScheduleLock(t, g)
      <3>1. PICK t, g, d : /\ events' = events \union {NewEvent(t, 0, g, d, FALSE)}
                           /\ sequence' = sequence + 1 /\ UNCHANGED device_cycles
        BY <2>2 DEF ScheduleLock
      <3>2. NewEvent(t, 0, g, d, FALSE).sequence = sequence
        BY DEF NewEvent
      <3>. QED BY <1>0, <3>1, <3>2, AddsEntry
    <2>. QED BY <1>2, <2>1, <2>2 DEF ClockChanged, ReconfigureClock, ContinueClock
  <1>3. CASE BeginAdvance \/ EndAdvance \/ AbortAdvance \/ RunAgain \/ UNCHANGED vars
    <2>1. UNCHANGED <<events, device_cycles>>
      BY <1>3 DEF BeginAdvance, EndAdvance, AbortAdvance, RunAgain, vars
    <2>. QED BY <2>1, PendingStill DEF Pending
  <1>4. CASE AdvanceClock
    BY <1>0, <1>4, AdvancePasses
  <1>5. CASE DispatchEvent
    BY <1>0, <1>5, DispatchDelivers
  <1>6. CASE PowerStateChanged
    BY <1>0, <1>6, GateHolds, UngateReleases DEF PowerStateChanged
  <1>7. CASE DiscardEvents \/ CancelEvents
    BY <1>0, <1>7, DiscardDiscards, CancelCancels
  <1>8. CASE Retimed
    BY <1>0, <1>8, RetimedMoves, MovesMove DEF IInv
  <1>9. CASE WarmReset
    BY <1>0, <1>9, ResetRenumbers DEF WarmReset
  <1>10. CASE BrownOutReset
    <2>. DEFINE L == {l \in LocksUnderWay : l.type # "OSCILLATOR"}
    <2>1. L \in SUBSET LocksUnderWay
      OBVIOUS
    <2>. QED BY <1>0, <1>10, <2>1, ResetRenumbers DEF BrownOutReset
  <1>. QED BY <1>1, <1>2, <1>3, <1>4, <1>5, <1>6, <1>7, <1>8, <1>9, <1>10 DEF Next

\* The queue keeps the promise of the agenda until it is disturbed: an event is
\* delivered when, and only when, its clock has run for the delay it was scheduled
\* with and was re-timed by, however the clock was gated in between, and one of the
\* host is lost only with all of its kind.
THEOREM QueueKeepsPromise == Spec => ImplementsAgenda
  <1>1. Init => Promise!Init
    BY DEF Init, Promise!Init
  <1>2. IInv /\ IInv' /\ [Next]_vars
          => [Promise!Next]_(<<{Owing(e) : e \in events}, disturbed>>)
    <2>. SUFFICES ASSUME IInv, IInv', [Next]_vars
                  PROVE  Promise!Next \/ UNCHANGED <<Pending, disturbed>>
      BY DEF Pending
    <2>1. CASE disturbed'
      BY <2>1 DEF Promise!Next
    <2>2. CASE ~disturbed'
      <3>1. ~disturbed
        BY <2>2, StaysDisturbed
      <3>2. disturbed \in BOOLEAN /\ disturbed' \in BOOLEAN
        BY DEF IInv, QueueInv, TypeOK
      <3>3. UNCHANGED disturbed
        BY <2>2, <3>1, <3>2
      <3>. QED BY <2>2, <3>3, StepPromised DEF Promise!Next
    <2>. QED BY <2>1, <2>2
  <1>. QED BY <1>1, <1>2, QueueDisciplined, PTL DEF Spec, ImplementsAgenda, Promise!Spec
=============================================================================
