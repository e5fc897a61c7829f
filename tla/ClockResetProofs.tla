--------------------------- MODULE ClockResetProofs ---------------------------
(***************************************************************************)
(* Proofs about the clock, the NVM operations, the watchdog and the resets *)
(* of ClockReset, for all delays, periods, configurations that start on a  *)
(* source, causes of warm resets and bounds:                               *)
(*   ClockTyped         TypeOK                                             *)
(*   NoSwitchStranded   NothingStranded                                    *)
(*   LockIsHonest       LockHonest                                         *)
(*   ResetsDeferred     DeferredResets                                     *)
(* The first part is about the oscillator as a value: Sound is what every  *)
(* function of Oscillator keeps of it, and Moves what a function does to   *)
(* its events, so that handlers which call several of them in a row are    *)
(* covered by one call after the other.                                    *)
(***************************************************************************)
EXTENDS ClockReset, FiniteSetTheorems, SequenceTheorems, TLAPS
-----------------------------------------------------------------------------
Event == [phase : Phases, generation : Nat, left : 0 .. SwitchDelay]

\* The modelled bits of OSCCON, cpu->oscillator and its events.
OscillatorValue ==
    [current : Sources, requested : Sources, switch_enable : BOOLEAN, lock : BOOLEAN,
     fail : BOOLEAN, clock_lock : BOOLEAN, generation : Nat, active : BOOLEAN,
     automatic : BOOLEAN, lock_pending : BOOLEAN, source_ready : BOOLEAN,
     events : SUBSET Event]

\* An event of this generation has something to do when it comes.
EventMeant(o, c, e) ==
    /\ e.phase = "LOCK" => o.lock_pending /\ (o.active => o.source_ready)
    /\ e.phase = "SWITCH" => o.active /\ (Direct(o) \/ Available(c, o.requested))

\* What the switch and the lock wait for is on its way.
SwitchComes(o, c) ==
    o.active /\ ~Direct(o) /\ Available(c, o.requested)
      => \E e \in Live(o) : e.phase = IF o.source_ready THEN "LOCK" ELSE "SWITCH"

LockComes(o) ==
    o.lock_pending /\ ~(o.active /\ Direct(o)) => \E e \in Live(o) : e.phase = "LOCK"

Sound(o, c) ==
    /\ o \in OscillatorValue
    /\ \A e \in o.events : e.generation <= o.generation
    /\ \A e, f \in Live(o) : e = f
    /\ \A e \in Live(o) : EventMeant(o, c, e)
    /\ SwitchComes(o, c) /\ LockComes(o)
    /\ o.active => o.automatic \/ o.switch_enable
    /\ o.lock => /\ Pll(o.current) /\ ~o.lock_pending
                 /\ o.active => Direct(o) /\ Live(o) = {}

\* The events that are alive afterwards were so before, or have their whole
\* delay to go; LOCK is not set.
WholeDelay(o, e) == /\ e.phase = "LOCK" => e.left = SwitchDelay
                    /\ e.phase = "SWITCH" /\ Pll(o.requested) => e.left = SourceDelay

Moves(o, n) ==
    /\ n.lock => o.lock
    /\ \/ /\ n.generation = o.generation
          /\ \A e \in Live(n) : e \in Live(o) /\ (e.phase = "SWITCH" => n.requested = o.requested)
       \/ /\ n.generation > o.generation
          /\ \A e \in Live(n) : WholeDelay(n, e)

LEMMA MovesOn ==
  ASSUME NEW l \in OscillatorValue, NEW m \in OscillatorValue, NEW n \in OscillatorValue,
         Moves(l, m), Moves(m, n)
  PROVE  Moves(l, n)
<1>1. l.generation \in Nat /\ m.generation \in Nat /\ n.generation \in Nat
  BY DEF OscillatorValue
<1> QED BY <1>1 DEF Moves, WholeDelay

\* A new generation has no event yet.
LEMMA Supersedes ==
  ASSUME NEW o \in OscillatorValue, \A e \in o.events : e.generation <= o.generation
  PROVE  /\ Superseded(o) \in OscillatorValue
         /\ Superseded(o).generation > o.generation
         /\ \A e \in Superseded(o).events : e.generation <= Superseded(o).generation
         /\ Live(Superseded(o)) = {}
<1>1. Superseded(o) \in OscillatorValue /\ Superseded(o).generation = o.generation + 1
      /\ Superseded(o).events = o.events
  BY DEF Superseded, OscillatorValue
<1>2. o.generation \in Nat /\ \A e \in o.events : e.generation \in Nat
  BY DEF OscillatorValue, Event
<1> QED BY <1>1, <1>2 DEF Live

LEMMA AbortSwitchSound ==
  ASSUME NEW o, NEW c, Sound(o, c)
  PROVE  /\ Sound(AbortSwitch(o), c) /\ Moves(o, AbortSwitch(o))
         /\ ~AbortSwitch(o).active
<1> DEFINE n == AbortSwitch(o)
<1> SUFFICES Sound(n, c) /\ Moves(o, n) /\ ~n.active
  OBVIOUS
<1> HIDE DEF n
<1>1. o \in OscillatorValue
  BY DEF Sound
<1>2. CASE o.active
  <2> DEFINE s == Superseded(o)
  <2>1. /\ s \in OscillatorValue /\ s.generation > o.generation
        /\ \A e \in s.events : e.generation <= s.generation
        /\ Live(s) = {}
    BY Supersedes DEF Sound
  <2>2. s.lock = o.lock /\ s.current = o.current
    BY <1>1 DEF Superseded, OscillatorValue
  <2> HIDE DEF s
  <2>3. n = [Unready(Idle(s)) EXCEPT !.switch_enable = FALSE]
    BY <1>2 DEF AbortSwitch, s, n
  <2>4. /\ n \in OscillatorValue /\ ~n.active /\ ~n.lock_pending
        /\ n.generation = s.generation /\ n.events = s.events /\ n.lock = s.lock
        /\ n.current = s.current
    BY <2>1, <2>3 DEF Unready, Idle, OscillatorValue
  <2>5. Live(n) = {}
    BY <2>1, <2>4 DEF Live
  <2>6. Sound(n, c)
    BY <2>1, <2>2, <2>4, <2>5 DEF Sound, SwitchComes, LockComes
  <2>7. Moves(o, n)
    BY <2>1, <2>2, <2>4, <2>5 DEF Moves
  <2> QED BY <2>4, <2>6, <2>7
<1>3. CASE ~o.active
  <2>1. n = [o EXCEPT !.switch_enable = FALSE]
    BY <1>3 DEF AbortSwitch, n
  <2>2. /\ n \in OscillatorValue /\ ~n.active /\ n.lock_pending = o.lock_pending
        /\ n.generation = o.generation /\ n.events = o.events /\ n.lock = o.lock
        /\ n.current = o.current /\ n.requested = o.requested
    BY <1>1, <1>3, <2>1 DEF OscillatorValue
  <2>3. Live(n) = Live(o)
    BY <2>2 DEF Live
  <2>4. Sound(n, c)
    BY <1>3, <2>2, <2>3 DEF Sound, SwitchComes, LockComes, EventMeant
  <2>5. Moves(o, n)
    BY <2>2, <2>3 DEF Moves
  <2> QED BY <2>2, <2>4, <2>5
<1> QED BY <1>2, <1>3
\* What differs at most in the events.
SameBits(n, m) ==
    /\ n.current = m.current /\ n.requested = m.requested
    /\ n.switch_enable = m.switch_enable /\ n.lock = m.lock
    /\ n.active = m.active /\ n.automatic = m.automatic
    /\ n.lock_pending = m.lock_pending /\ n.source_ready = m.source_ready
    /\ n.generation = m.generation

\* An event scheduled for a generation without one is its only one.
LEMMA ScheduledAlone ==
  ASSUME NEW m \in OscillatorValue, \A e \in m.events : e.generation <= m.generation,
         Live(m) = {}, NEW p \in Phases, NEW d \in 0 .. SwitchDelay
  PROVE  LET n == Scheduled(m, p, d)
         IN  /\ n \in OscillatorValue /\ SameBits(n, m)
             /\ \A e \in n.events : e.generation <= n.generation
             /\ Live(n) = {[phase |-> p, generation |-> m.generation, left |-> d]}
<1> DEFINE n == Scheduled(m, p, d)
           event == [phase |-> p, generation |-> m.generation, left |-> d]
<1>1. event \in Event /\ event.generation = m.generation
  BY DEF Event, OscillatorValue
<1>2. n = [m EXCEPT !.events = m.events \union {event}]
  BY DEF Scheduled
<1> HIDE DEF event, n
<1>3. n \in OscillatorValue /\ SameBits(n, m) /\ n.events = m.events \union {event}
  BY <1>1, <1>2 DEF OscillatorValue, SameBits
<1>4. \A e \in n.events : e.generation <= n.generation
  BY <1>1, <1>3 DEF SameBits, OscillatorValue
<1>5. Live(n) = {event}
  BY <1>1, <1>3 DEF Live, SameBits
<1> QED BY <1>3, <1>4, <1>5 DEF n, event

\* A switch that starts anew waits for one event, or for a source that is not
\* configured.
LEMMA ReadyingSound ==
  ASSUME NEW m \in OscillatorValue, \A e \in m.events : e.generation <= m.generation,
         Live(m) = {}, NEW c,
         m.active, ~m.lock, ~m.lock_pending, ~m.source_ready,
         m.automatic \/ m.switch_enable
  PROVE  LET n == Readying(m, c)
         IN  /\ Sound(n, c) /\ n.generation = m.generation /\ ~n.lock
             /\ \A e \in Live(n) : WholeDelay(n, e)
<1> DEFINE n == Readying(m, c)
           d == IF Pll(m.requested) THEN SourceDelay ELSE SwitchDelay
<1> HIDE DEF n, d
<1>1. CASE Available(c, m.requested)
  <2>1. n = Scheduled(m, "SWITCH", d)
    BY <1>1 DEF n, d, Readying
  <2>2. d \in 0 .. SwitchDelay /\ "SWITCH" \in Phases
    BY OscillatorAssumption DEF d, OscillatorAssumption, Phases
  <2> DEFINE event == [phase |-> "SWITCH", generation |-> m.generation, left |-> d]
  <2>3. /\ n \in OscillatorValue /\ SameBits(n, m)
        /\ \A e \in n.events : e.generation <= n.generation
        /\ Live(n) = {event}
    BY <2>1, <2>2, ScheduledAlone
  <2>4. event.phase = "SWITCH" /\ event.left = d
    OBVIOUS
  <2> HIDE DEF event
  <2>5. Available(c, n.requested) /\ n.active /\ ~n.lock /\ ~n.lock_pending /\ ~n.source_ready
        /\ (n.automatic \/ n.switch_enable)
    BY <1>1, <2>3 DEF SameBits
  <2>6. \A e \in Live(n) : EventMeant(n, c, e)
    BY <2>3, <2>4, <2>5 DEF EventMeant
  <2>7. SwitchComes(n, c) /\ LockComes(n)
    BY <2>3, <2>4, <2>5 DEF SwitchComes, LockComes
  <2>8. \A e \in Live(n) : WholeDelay(n, e)
    BY <2>3, <2>4 DEF WholeDelay, d, SameBits
  <2> QED BY <2>3, <2>5, <2>6, <2>7, <2>8 DEF Sound, SameBits, n
<1>2. CASE ~Available(c, m.requested)
  <2>1. n = m
    BY <1>2 DEF n, Readying
  <2>2. Sound(m, c)
    BY <1>2 DEF Sound, SwitchComes, LockComes
  <2> QED BY <2>1, <2>2 DEF n
<1> QED BY <1>1, <1>2

\* A lock that starts anew, with the source ready or in use.
LEMMA LockingSound ==
  ASSUME NEW m \in OscillatorValue, \A e \in m.events : e.generation <= m.generation,
         Live(m) = {}, NEW c, ~m.lock, m.lock_pending, m.active => m.source_ready,
         m.active => m.automatic \/ m.switch_enable, NEW d \in 0 .. SwitchDelay
  PROVE  LET n == Scheduled(m, "LOCK", d)
         IN  /\ Sound(n, c) /\ n.generation = m.generation /\ ~n.lock
             /\ \A e \in Live(n) : e.phase = "LOCK" /\ e.left = d
<1> DEFINE n == Scheduled(m, "LOCK", d)
           event == [phase |-> "LOCK", generation |-> m.generation, left |-> d]
<1>1. "LOCK" \in Phases /\ event.phase = "LOCK" /\ event.left = d
  BY DEF Phases
<1>2. /\ n \in OscillatorValue /\ SameBits(n, m)
      /\ \A e \in n.events : e.generation <= n.generation
      /\ Live(n) = {event}
  BY <1>1, ScheduledAlone
<1> HIDE DEF event, n
<1>3. /\ ~n.lock /\ n.lock_pending
      /\ n.active => n.source_ready
      /\ n.active => n.automatic \/ n.switch_enable
  BY <1>2 DEF SameBits
<1>4. \A e \in Live(n) : EventMeant(n, c, e)
  BY <1>1, <1>2, <1>3 DEF EventMeant
<1>5. SwitchComes(n, c) /\ LockComes(n)
  BY <1>1, <1>2, <1>3 DEF SwitchComes, LockComes
<1>6. Sound(n, c)
  BY <1>2, <1>3, <1>4, <1>5 DEF Sound
<1> QED BY <1>1, <1>2, <1>3, <1>6 DEF SameBits, n
\* Without a switch the configuration does not matter, and without an event
\* either what is pending is nothing.
LEMMA SoundInactive ==
  ASSUME NEW o, NEW c, NEW d, Sound(o, c), ~o.active
  PROVE  /\ Sound(o, d)
         /\ ~o.lock_pending => Live(o) = {}
<1>1. \A e \in Live(o) : e.phase = "LOCK" /\ o.lock_pending
  <2> TAKE e \in Live(o)
  <2>1. e.phase \in {"SWITCH", "LOCK"}
    BY DEF Sound, OscillatorValue, Event, Phases, Live
  <2> QED BY <2>1 DEF Sound, EventMeant
<1>2. \A e \in Live(o) : EventMeant(o, d, e)
  BY <1>1 DEF EventMeant
<1>3. SwitchComes(o, d)
  BY DEF SwitchComes
<1> QED BY <1>1, <1>2, <1>3 DEF Sound

LEMMA AbortSound ==
  ASSUME NEW o, NEW c, Sound(o, c)
  PROVE  LET n == Abort(o)
         IN  /\ Sound(n, c) /\ Moves(o, n)
             /\ ~n.active /\ ~n.lock_pending /\ Live(n) = {}
<1> DEFINE m == IF ~o.active /\ o.lock_pending THEN Unready(Superseded(o)) ELSE o
           n == Abort(o)
<1>1. o \in OscillatorValue
  BY DEF Sound
<1>2. Sound(m, c) /\ Moves(o, m) /\ (~m.active => ~m.lock_pending)
  <2>1. CASE ~o.active /\ o.lock_pending
    <3> DEFINE s == Superseded(o)
    <3>1. /\ s \in OscillatorValue /\ s.generation > o.generation
          /\ \A e \in s.events : e.generation <= s.generation
          /\ Live(s) = {}
      BY Supersedes DEF Sound
    <3>2. s.lock = o.lock /\ s.current = o.current /\ s.active = o.active
      BY <1>1 DEF Superseded, OscillatorValue
    <3> HIDE DEF s
    <3>3. m = Unready(s)
      BY <2>1 DEF s
    <3> HIDE DEF m
    <3>4. /\ m \in OscillatorValue /\ ~m.active /\ ~m.lock_pending
          /\ m.generation = s.generation /\ m.events = s.events /\ m.lock = s.lock
          /\ m.current = s.current
      BY <2>1, <3>1, <3>2, <3>3 DEF Unready, OscillatorValue
    <3>5. Live(m) = {}
      BY <3>1, <3>4 DEF Live
    <3>6. Sound(m, c)
      BY <3>1, <3>2, <3>4, <3>5 DEF Sound, SwitchComes, LockComes
    <3> QED BY <3>1, <3>2, <3>4, <3>5, <3>6 DEF Moves
  <2>2. CASE ~(~o.active /\ o.lock_pending)
    <3>1. m = o /\ Moves(o, o)
      BY <2>2 DEF Moves
    <3> QED BY <2>2, <3>1
  <2> QED BY <2>1, <2>2
<1>3. n = AbortSwitch(m)
  BY DEF Abort
<1> HIDE DEF m, n
<1>4. Sound(n, c) /\ Moves(m, n) /\ ~n.active
  BY <1>2, <1>3, AbortSwitchSound
<1>5. m \in OscillatorValue /\ n \in OscillatorValue
  BY <1>2, <1>4 DEF Sound
<1>6. ~n.lock_pending
  <2>1. CASE m.active
    BY <1>3, <1>5, <2>1 DEF AbortSwitch, Unready, Idle, Superseded, OscillatorValue
  <2>2. CASE ~m.active
    BY <1>2, <1>3, <1>5, <2>2 DEF AbortSwitch, OscillatorValue
  <2> QED BY <2>1, <2>2
<1>7. Live(n) = {}
  BY <1>4, <1>6, SoundInactive
<1>8. Moves(o, n)
  BY <1>1, <1>2, <1>4, <1>5, MovesOn
<1> QED BY <1>4, <1>6, <1>7, <1>8 DEF n

LEMMA FailedSound ==
  ASSUME NEW o, NEW c, Sound(o, c)
  PROVE  Sound(Failed(o), c) /\ Moves(o, Failed(o))
<1> DEFINE m == Abort(o)
           n == Failed(o)
<1>1. Sound(m, c) /\ Moves(o, m) /\ ~m.active /\ ~m.lock_pending /\ Live(m) = {}
  BY AbortSound
<1>2. n = [m EXCEPT !.current = "FRC", !.lock = FALSE, !.fail = TRUE]
  BY DEF Failed
<1>3. m \in OscillatorValue
  BY <1>1 DEF Sound
<1> HIDE DEF m, n
<1>4. /\ n \in OscillatorValue /\ ~n.active /\ ~n.lock_pending /\ ~n.lock
      /\ n.generation = m.generation /\ n.events = m.events
  BY <1>1, <1>2, <1>3 DEF OscillatorValue, Sources
<1>5. Live(n) = {}
  BY <1>1, <1>4 DEF Live
<1>6. Sound(n, c)
  BY <1>1, <1>4, <1>5 DEF Sound, SwitchComes, LockComes
<1>7. Moves(o, n)
  BY <1>1, <1>4, <1>5 DEF Moves
<1> QED BY <1>6, <1>7 DEF n

LEMMA HighWrittenSound ==
  ASSUME NEW o, NEW c, Sound(o, c), NEW source \in Sources
  PROVE  Sound(HighWritten(o, c, source), c) /\ Moves(o, HighWritten(o, c, source))
<1> DEFINE m == IF o.active THEN AbortSwitch(o) ELSE o
           n == HighWritten(o, c, source)
<1>1. CASE ConfigurationLocked(o, c)
  BY <1>1 DEF HighWritten, Moves
<1>2. CASE ~ConfigurationLocked(o, c)
  <2>1. Sound(m, c) /\ Moves(o, m) /\ ~m.active
    BY AbortSwitchSound DEF Moves
  <2>2. n = [m EXCEPT !.requested = source]
    BY <1>2 DEF HighWritten
  <2>3. m \in OscillatorValue
    BY <2>1 DEF Sound
  <2> HIDE DEF m, n
  <2>4. /\ n \in OscillatorValue /\ ~n.active /\ n.lock_pending = m.lock_pending
        /\ n.generation = m.generation /\ n.events = m.events /\ n.lock = m.lock
        /\ n.current = m.current
    BY <2>1, <2>2, <2>3 DEF OscillatorValue
  <2>5. Live(n) = Live(m)
    BY <2>4 DEF Live
  <2>6. \A e \in Live(m) : e.phase # "SWITCH"
    BY <2>1 DEF Sound, EventMeant
  <2>7. Sound(n, c)
    BY <2>1, <2>4, <2>5, <2>6 DEF Sound, SwitchComes, LockComes, EventMeant
  <2>8. Moves(o, n)
    BY <2>1, <2>4, <2>5, <2>6 DEF Moves, WholeDelay
  <2> QED BY <2>7, <2>8 DEF n
<1> QED BY <1>1, <1>2
LEMMA StartSwitchSound ==
  ASSUME NEW o, NEW c, Sound(o, c)
  PROVE  Sound(StartSwitch(o, c), c) /\ Moves(o, StartSwitch(o, c))
<1> DEFINE s == Superseded(o)
           m == [Unready(s) EXCEPT !.active = TRUE, !.automatic = FALSE,
                    !.switch_enable = TRUE, !.lock = FALSE, !.fail = FALSE]
           n == StartSwitch(o, c)
<1>1. /\ s \in OscillatorValue /\ s.generation > o.generation
      /\ \A e \in s.events : e.generation <= s.generation
      /\ Live(s) = {}
  BY Supersedes DEF Sound
<1>2. n = Readying(m, c)
  BY DEF StartSwitch
<1> HIDE DEF s, n
<1>3. /\ m \in OscillatorValue /\ m.active /\ ~m.lock /\ ~m.lock_pending /\ ~m.source_ready
      /\ m.switch_enable /\ m.generation = s.generation /\ m.events = s.events
  BY <1>1 DEF Unready, OscillatorValue
<1> HIDE DEF m
<1>4. Live(m) = {} /\ \A e \in m.events : e.generation <= m.generation
  BY <1>1, <1>3 DEF Live
<1>5. /\ Sound(n, c) /\ n.generation = m.generation /\ ~n.lock
      /\ \A e \in Live(n) : WholeDelay(n, e)
  BY <1>2, <1>3, <1>4, ReadyingSound
<1>6. Moves(o, n)
  BY <1>1, <1>3, <1>5 DEF Moves
<1> QED BY <1>5, <1>6 DEF n

\* A switch by the hardware, from an oscillator that waits for nothing.
LEMMA StartAutomaticSound ==
  ASSUME NEW o, NEW c, Sound(o, c), ~o.active, ~o.lock_pending, Live(o) = {},
         NEW d, NEW source \in Sources
  PROVE  LET n == StartAutomaticSwitch(o, d, source)
         IN  Sound(n, d) /\ Moves(o, n) /\ ~n.lock
<1> DEFINE asking == [o EXCEPT !.requested = source, !.lock = FALSE, !.fail = FALSE,
                               !.switch_enable = FALSE]
           n == StartAutomaticSwitch(o, d, source)
<1>1. /\ asking \in OscillatorValue /\ ~asking.lock /\ ~asking.active /\ ~asking.lock_pending
      /\ asking.generation = o.generation /\ asking.events = o.events
  BY DEF Sound, OscillatorValue
<1>2. n = IF ImmediatelyReady(source) THEN [asking EXCEPT !.current = source]
          ELSE Readying([Unready(Superseded(asking)) EXCEPT !.active = TRUE,
                                                          !.automatic = TRUE], d)
  BY DEF StartAutomaticSwitch
<1> HIDE DEF asking, n
<1>3. Live(asking) = {} /\ \A e \in asking.events : e.generation <= asking.generation
  BY <1>1 DEF Live, Sound
<1>4. CASE ImmediatelyReady(source)
  <2>1. n = [asking EXCEPT !.current = source]
    BY <1>2, <1>4
  <2>2. /\ n \in OscillatorValue /\ ~n.lock /\ ~n.active /\ ~n.lock_pending
        /\ n.generation = asking.generation /\ n.events = asking.events
    BY <1>1, <2>1 DEF OscillatorValue
  <2>3. Live(n) = {}
    BY <1>3, <2>2 DEF Live
  <2>4. Sound(n, d)
    BY <1>3, <2>2, <2>3 DEF Sound, SwitchComes, LockComes
  <2>5. Moves(o, n)
    BY <1>1, <2>2, <2>3 DEF Moves
  <2> QED BY <2>2, <2>4, <2>5 DEF n
<1>5. CASE ~ImmediatelyReady(source)
  <2> DEFINE s == Superseded(asking)
             m == [Unready(s) EXCEPT !.active = TRUE, !.automatic = TRUE]
  <2>1. /\ s \in OscillatorValue /\ s.generation > asking.generation
        /\ \A e \in s.events : e.generation <= s.generation
        /\ Live(s) = {}
    BY <1>1, <1>3, Supersedes
  <2>2. n = Readying(m, d) /\ ~s.lock
    BY <1>1, <1>2, <1>5 DEF Superseded, OscillatorValue
  <2> HIDE DEF s
  <2>3. /\ m \in OscillatorValue /\ m.active /\ ~m.lock /\ ~m.lock_pending /\ ~m.source_ready
        /\ m.automatic /\ m.generation = s.generation /\ m.events = s.events
    BY <2>1, <2>2 DEF Unready, OscillatorValue
  <2> HIDE DEF m
  <2>4. Live(m) = {} /\ \A e \in m.events : e.generation <= m.generation
    BY <2>1, <2>3 DEF Live
  <2>5. /\ Sound(n, d) /\ n.generation = m.generation /\ ~n.lock
        /\ \A e \in Live(n) : WholeDelay(n, e)
    BY <2>2, <2>3, <2>4, ReadyingSound
  <2>6. Moves(o, n)
    BY <1>1, <2>1, <2>3, <2>5 DEF Moves
  <2> QED BY <2>5, <2>6 DEF n
<1> QED BY <1>4, <1>5

LEMMA LowWrittenSound ==
  ASSUME NEW o, NEW c, Sound(o, c),
         NEW enable \in BOOLEAN, NEW clock_lock \in BOOLEAN, NEW fail \in BOOLEAN
  PROVE  LET n == LowWritten(o, c, enable, clock_lock, fail)
         IN  Sound(n, c) /\ Moves(o, n)
<1> DEFINE written == [o EXCEPT !.clock_lock = @ \/ clock_lock, !.fail = @ /\ fail]
           refused == IF enable THEN [written EXCEPT !.switch_enable = FALSE] ELSE written
           n == LowWritten(o, c, enable, clock_lock, fail)
<1> o \in OscillatorValue
  BY DEF Sound
\* Only bits that no switch depends on change.
<1>1. ASSUME NEW x \in OscillatorValue, x.events = o.events,
             \/ SameBits(x, o)
             \/ /\ ~o.active \/ o.automatic
                /\ SameBits(x, [o EXCEPT !.switch_enable = FALSE])
      PROVE  Sound(x, c) /\ Moves(o, x)
  <2>1. /\ x.current = o.current /\ x.requested = o.requested /\ x.lock = o.lock
        /\ x.active = o.active /\ x.automatic = o.automatic
        /\ x.lock_pending = o.lock_pending /\ x.source_ready = o.source_ready
        /\ x.generation = o.generation
        /\ x.active => x.automatic \/ x.switch_enable
    BY <1>1 DEF SameBits, OscillatorValue, Sound
  <2>2. Live(x) = Live(o) /\ (Direct(x) <=> Direct(o))
    BY <1>1, <2>1 DEF Live, Direct
  <2>3. Sound(x, c)
    BY <1>1, <2>1, <2>2 DEF Sound, SwitchComes, LockComes, EventMeant
  <2>4. Moves(o, x)
    BY <2>1, <2>2 DEF Moves
  <2> QED BY <2>3, <2>4
<1>2. written \in OscillatorValue /\ SameBits(written, o) /\ written.events = o.events
  <2>1. (o.clock_lock \/ clock_lock) \in BOOLEAN /\ (o.fail /\ fail) \in BOOLEAN
    OBVIOUS
  <2> DEFINE a == o.clock_lock \/ clock_lock
             b == o.fail /\ fail
  <2>2. written = [o EXCEPT !.clock_lock = a, !.fail = b]
    OBVIOUS
  <2> HIDE DEF a, b
  <2> QED BY <2>1, <2>2 DEF OscillatorValue, SameBits, a, b
<1>3. Sound(written, c) /\ Moves(o, written)
  BY <1>1, <1>2
<1> HIDE DEF written
<1>4. CASE ~enable \/ SwitchRefused(written, c)
  <2>1. n = IF o.automatic THEN refused ELSE AbortSwitch(refused)
    BY <1>4 DEF LowWritten, written
  <2>2. CASE o.automatic \/ ~o.active \/ ~enable
    <3>1. /\ refused \in OscillatorValue /\ refused.events = o.events
          /\ \/ SameBits(refused, o)
             \/ /\ ~o.active \/ o.automatic
                /\ SameBits(refused, [o EXCEPT !.switch_enable = FALSE])
      BY <1>2, <2>2 DEF OscillatorValue, SameBits
    <3> HIDE DEF refused
    <3>2. Sound(refused, c) /\ Moves(o, refused)
      BY <1>1, <3>1
    <3>3. CASE o.automatic
      BY <2>1, <3>2, <3>3
    <3>4. CASE ~o.automatic
      <4>1. Sound(n, c) /\ Moves(refused, n)
        BY <2>1, <3>2, <3>4, AbortSwitchSound
      <4>2. n \in OscillatorValue
        BY <4>1 DEF Sound
      <4> HIDE DEF n
      <4> QED BY <3>1, <3>2, <4>1, <4>2, MovesOn DEF n
    <3> QED BY <3>3, <3>4
  <2>3. CASE ~o.automatic /\ o.active /\ enable
    \* AbortSwitch clears switch_enable in any case.
    <3>1. AbortSwitch(refused) = AbortSwitch(written)
      BY <1>2, <2>3 DEF AbortSwitch, Unready, Idle, Superseded, SameBits, OscillatorValue
    <3>2. Sound(n, c) /\ Moves(written, n)
      BY <1>3, <2>1, <2>3, <3>1, AbortSwitchSound
    <3>3. n \in OscillatorValue
      BY <3>2 DEF Sound
    <3> HIDE DEF n
    <3> QED BY <1>2, <1>3, <3>2, <3>3, MovesOn DEF n
  <2> QED BY <2>2, <2>3
<1>5. CASE enable /\ ~SwitchRefused(written, c) /\ Direct(written)
  <2> DEFINE s == Superseded(written)
  <2>1. n = [s EXCEPT !.active = TRUE, !.switch_enable = TRUE]
    BY <1>5 DEF LowWritten, written
  <2>2. /\ s \in OscillatorValue /\ s.generation > written.generation
        /\ \A e \in s.events : e.generation <= s.generation
        /\ Live(s) = {}
    BY <1>2, <1>3, Supersedes DEF Sound
  <2>3. /\ s.current = written.current /\ s.requested = written.requested
        /\ s.lock = written.lock /\ s.lock_pending = written.lock_pending
    BY <1>2 DEF Superseded, OscillatorValue
  <2> HIDE DEF s, n
  <2>4. /\ n \in OscillatorValue /\ n.active /\ n.switch_enable
        /\ n.generation = s.generation /\ n.events = s.events
        /\ n.current = s.current /\ n.requested = s.requested
        /\ n.lock = s.lock /\ n.lock_pending = s.lock_pending
    BY <2>1, <2>2 DEF OscillatorValue
  <2>5. Live(n) = {} /\ Direct(n)
    BY <1>5, <2>2, <2>3, <2>4 DEF Live, Direct
  <2>6. Sound(n, c)
    BY <1>3, <2>2, <2>3, <2>4, <2>5 DEF Sound, SwitchComes, LockComes
  <2>7. Moves(written, n)
    BY <2>2, <2>3, <2>4, <2>5 DEF Moves
  <2> QED BY <1>2, <1>3, <2>4, <2>6, <2>7, MovesOn DEF n
<1>6. CASE enable /\ ~SwitchRefused(written, c) /\ ~Direct(written)
  <2> DEFINE m == IF o.active THEN AbortSwitch(written) ELSE written
  <2>1. n = StartSwitch(m, c)
    BY <1>6 DEF LowWritten, written
  <2>2. Sound(m, c) /\ Moves(written, m)
    BY <1>3, AbortSwitchSound DEF Moves
  <2> HIDE DEF m
  <2>3. Sound(n, c) /\ Moves(m, n)
    BY <2>1, <2>2, StartSwitchSound
  <2>4. m \in OscillatorValue /\ n \in OscillatorValue
    BY <2>2, <2>3 DEF Sound
  <2>5. Moves(written, n)
    <3> HIDE DEF n
    <3> QED BY <1>2, <2>2, <2>3, <2>4, MovesOn
  <2>6. Moves(o, n)
    <3> HIDE DEF n
    <3> QED BY <1>2, <1>3, <2>4, <2>5, MovesOn
  <2> QED BY <2>3, <2>6
<1> QED BY <1>4, <1>5, <1>6
LEMMA RestartLockSound ==
  ASSUME NEW o, NEW c, Sound(o, c)
  PROVE  LET n == RestartLock(o, c)
         IN  Sound(n, c) /\ Moves(o, n) /\ ~n.lock /\ n.generation > o.generation
<1> DEFINE ready == o.active /\ o.source_ready
           pends == ready \/ ~o.active
           s == Superseded(o)
           m == [s EXCEPT !.lock_pending = pends, !.source_ready = ready, !.lock = FALSE]
           n == RestartLock(o, c)
<1>1. /\ s \in OscillatorValue /\ s.generation > o.generation
      /\ \A e \in s.events : e.generation <= s.generation
      /\ Live(s) = {}
  BY Supersedes DEF Sound
<1>2. s.active = o.active /\ s.automatic = o.automatic /\ s.switch_enable = o.switch_enable
  BY DEF Superseded, Sound, OscillatorValue
<1>3. ready \in BOOLEAN /\ pends \in BOOLEAN
  OBVIOUS
<1>4. n = IF m.lock_pending THEN Scheduled(m, "LOCK", SwitchDelay) ELSE Readying(m, c)
  BY DEF RestartLock
<1>5. (ready <=> o.active /\ o.source_ready) /\ (pends <=> ready \/ ~o.active)
  OBVIOUS
<1> HIDE DEF ready, pends, s, n
<1>6. /\ m \in OscillatorValue /\ m.active = o.active /\ ~m.lock
      /\ m.lock_pending = pends /\ m.source_ready = ready
      /\ m.automatic = o.automatic /\ m.switch_enable = o.switch_enable
      /\ m.generation = s.generation /\ m.events = s.events
  BY <1>1, <1>2, <1>3 DEF OscillatorValue
<1> HIDE DEF m
<1>7. Live(m) = {} /\ \A e \in m.events : e.generation <= m.generation
  BY <1>1, <1>6 DEF Live
<1>8. m.active => m.automatic \/ m.switch_enable
  BY <1>6 DEF Sound
<1>9. CASE m.lock_pending
  <2>1. SwitchDelay \in 0 .. SwitchDelay
    BY OscillatorAssumption DEF OscillatorAssumption
  <2>2. n = Scheduled(m, "LOCK", SwitchDelay)
    BY <1>4, <1>9
  <2>3. m.active => m.source_ready
    BY <1>5, <1>6, <1>9
  <2>4. /\ Sound(n, c) /\ n.generation = m.generation /\ ~n.lock
        /\ \A e \in Live(n) : e.phase = "LOCK" /\ e.left = SwitchDelay
    BY <1>6, <1>7, <1>8, <1>9, <2>1, <2>2, <2>3, LockingSound
  <2> QED BY <1>1, <1>6, <2>4 DEF Moves, WholeDelay, n
<1>10. CASE ~m.lock_pending
  <2>1. n = Readying(m, c) /\ m.active /\ ~m.source_ready
    BY <1>4, <1>5, <1>6, <1>10
  <2>2. /\ Sound(n, c) /\ n.generation = m.generation /\ ~n.lock
        /\ \A e \in Live(n) : WholeDelay(n, e)
    BY <1>6, <1>7, <1>8, <1>10, <2>1, ReadyingSound
  <2> QED BY <1>1, <1>6, <2>2 DEF Moves, n
<1> QED BY <1>9, <1>10

\* The registers of the configuration, one after the other.
LEMMA FoscselSound ==
  ASSUME NEW o, NEW c, NEW d, Sound(o, c), d.startup \in Sources
  PROVE  LET n == FoscselChanged(o, c, d)
         IN  Moves(o, n) /\ (Sound(n, c) \/ Sound(n, d))
<1> DEFINE n == FoscselChanged(o, c, d)
<1>1. CASE c.startup = d.startup \/ ~d.switch_disable
  <2>1. n = o
    BY <1>1 DEF FoscselChanged
  <2> QED BY <2>1 DEF Moves
<1>2. CASE ~(c.startup = d.startup \/ ~d.switch_disable)
  <2> DEFINE m == Abort(o)
  <2>1. n = StartAutomaticSwitch(m, d, d.startup)
    BY <1>2 DEF FoscselChanged
  <2>2. Sound(m, c) /\ Moves(o, m) /\ ~m.active /\ ~m.lock_pending /\ Live(m) = {}
    BY AbortSound
  <2> HIDE DEF m, n
  <2>3. Sound(n, d) /\ Moves(m, n)
    BY <2>1, <2>2, StartAutomaticSound
  <2>4. o \in OscillatorValue /\ m \in OscillatorValue /\ n \in OscillatorValue
    BY <2>2, <2>3 DEF Sound
  <2>5. Moves(o, n)
    BY <2>2, <2>3, <2>4, MovesOn
  <2> QED BY <2>3, <2>5 DEF n
<1> QED BY <1>1, <1>2

LEMMA FoscSound ==
  ASSUME NEW o, NEW c, NEW d, Sound(o, c) \/ Sound(o, d)
  PROVE  Sound(FoscChanged(o, c, d), d) /\ Moves(o, FoscChanged(o, c, d))
<1> DEFINE n == FoscChanged(o, c, d)
           aborts == o.active /\ ~o.automatic /\ ~c.switch_disable /\ d.switch_disable
           keeps == \/ ~o.active \/ Direct(o) \/ o.requested \notin {"POSC", "POSCPLL"}
                    \/ c.posc = d.posc
<1>1. CASE aborts
  <2>1. n = AbortSwitch(o)
    BY <1>1 DEF FoscChanged
  <2>2. ~n.active /\ Moves(o, n) /\ (Sound(n, c) \/ Sound(n, d))
    BY <2>1, AbortSwitchSound
  <2>3. Sound(n, d)
    BY <2>2, SoundInactive
  <2> QED BY <2>2, <2>3
<1>2. CASE ~aborts /\ keeps
  <2>1. n = o
    BY <1>2 DEF FoscChanged
  <2>2. CASE ~o.active
    BY <2>1, <2>2, SoundInactive DEF Moves
  <2>3. CASE o.active /\ (\/ Direct(o) \/ o.requested \notin {"POSC", "POSCPLL"}
                          \/ c.posc = d.posc)
    <3>1. Direct(o) \/ (Available(c, o.requested) <=> Available(d, o.requested))
      BY <2>3 DEF Available
    <3>2. Sound(o, d)
      BY <3>1 DEF Sound, SwitchComes, LockComes, EventMeant
    <3> QED BY <2>1, <3>2 DEF Moves
  <2> QED BY <1>2, <2>2, <2>3
<1>3. CASE ~aborts /\ ~keeps
  <2> DEFINE s == Superseded(o)
             m == Unready(s)
  <2>1. /\ s \in OscillatorValue /\ s.generation > o.generation
        /\ \A e \in s.events : e.generation <= s.generation
        /\ Live(s) = {}
    BY Supersedes DEF Sound
  <2>2. /\ s.lock = o.lock /\ s.active = o.active /\ s.automatic = o.automatic
        /\ s.switch_enable = o.switch_enable
    BY DEF Superseded, Sound, OscillatorValue
  <2>3. n = Readying(m, d)
    BY <1>3 DEF FoscChanged
  <2>4. o.active /\ ~o.lock /\ (o.automatic \/ o.switch_enable)
    BY <1>3 DEF Sound
  <2> HIDE DEF s, n
  <2>5. /\ m \in OscillatorValue /\ m.active /\ ~m.lock /\ ~m.lock_pending /\ ~m.source_ready
        /\ (m.automatic \/ m.switch_enable)
        /\ m.generation = s.generation /\ m.events = s.events
    BY <2>1, <2>2, <2>4 DEF Unready, OscillatorValue
  <2> HIDE DEF m
  <2>6. Live(m) = {} /\ \A e \in m.events : e.generation <= m.generation
    BY <2>1, <2>5 DEF Live
  <2>7. /\ Sound(n, d) /\ n.generation = m.generation /\ ~n.lock
        /\ \A e \in Live(n) : WholeDelay(n, e)
    BY <2>3, <2>5, <2>6, ReadyingSound
  <2> QED BY <2>1, <2>5, <2>7 DEF Moves, n
<1> QED BY <1>1, <1>2, <1>3

\* A switch to a PLL that is not waited for any more takes effect; the lock goes on.
LEMMA FwdtSound ==
  ASSUME NEW o, NEW c, NEW d, Sound(o, d)
  PROVE  Sound(FwdtChanged(o, c, d), d) /\ Moves(o, FwdtChanged(o, c, d))
<1> DEFINE n == FwdtChanged(o, c, d)
<1>1. CASE FwdtTransfers(o, c, d)
  <2>1. o.active /\ o.source_ready /\ ~Direct(o) /\ ~o.lock
    BY <1>1 DEF FwdtTransfers, Sound
  <2>2. n = [Idle(o) EXCEPT !.current = o.requested, !.switch_enable = FALSE]
    BY <1>1 DEF FwdtChanged, Transferred
  <2> HIDE DEF n
  <2>3. /\ n \in OscillatorValue /\ ~n.active /\ ~n.lock /\ n.lock_pending = o.lock_pending
        /\ n.generation = o.generation /\ n.events = o.events
    BY <2>1, <2>2 DEF Idle, Sound, OscillatorValue
  <2>4. Live(n) = Live(o)
    BY <2>3 DEF Live
  <2>5. ASSUME NEW e \in Live(o) PROVE e.phase = "LOCK" /\ o.lock_pending
    <3>1. e.phase \in {"SWITCH", "LOCK"}
      BY DEF Sound, OscillatorValue, Event, Phases, Live
    <3>2. CASE e.phase = "SWITCH"
      <4>1. Available(d, o.requested)
        BY <2>1, <3>2 DEF Sound, EventMeant
      <4>2. PICK f \in Live(o) : f.phase = "LOCK"
        BY <2>1, <4>1 DEF Sound, SwitchComes
      <4> QED BY <3>2, <4>2 DEF Sound
    <3> QED BY <3>1, <3>2 DEF Sound, EventMeant
  <2>6. Sound(n, d)
    BY <2>1, <2>3, <2>4, <2>5 DEF Sound, SwitchComes, LockComes, EventMeant
  <2>7. Moves(o, n)
    BY <2>3, <2>4, <2>5 DEF Moves
  <2> QED BY <2>6, <2>7 DEF n
<1>2. CASE ~FwdtTransfers(o, c, d)
  <2>1. n = o
    BY <1>2 DEF FwdtChanged
  <2> QED BY <2>1 DEF Moves
<1> QED BY <1>1, <1>2

LEMMA ConfiguredSound ==
  ASSUME NEW o, NEW c, NEW d, Sound(o, c), d.startup \in Sources
  PROVE  Sound(Configured(o, c, d), d) /\ Moves(o, Configured(o, c, d))
<1> DEFINE l == FoscselChanged(o, c, d)
           m == FoscChanged(l, c, d)
           n == FwdtChanged(m, c, d)
<1>1. Moves(o, l) /\ (Sound(l, c) \/ Sound(l, d))
  BY FoscselSound
<1> HIDE DEF l
<1>2. Sound(m, d) /\ Moves(l, m)
  BY <1>1, FoscSound
<1> HIDE DEF m
<1>3. Sound(n, d) /\ Moves(m, n)
  BY <1>2, FwdtSound
<1> HIDE DEF n
<1>4. /\ o \in OscillatorValue /\ l \in OscillatorValue /\ m \in OscillatorValue
      /\ n \in OscillatorValue
  BY <1>1, <1>2, <1>3 DEF Sound
<1>5. Moves(o, m)
  BY <1>1, <1>2, <1>4, MovesOn
<1>6. Moves(o, n)
  BY <1>3, <1>4, <1>5, MovesOn
<1> QED BY <1>3, <1>6 DEF Configured, l, m, n
LEMMA ClockConfigurationSound ==
  ASSUME NEW o, NEW c, Sound(o, c), NEW register
  PROVE  LET n == ClockConfigurationWritten(o, c, register)
         IN  /\ Sound(n, c) /\ Moves(o, n)
             /\ n # o => ~ConfigurationLocked(o, c) /\ RelockRequired(o, register) /\ ~n.lock
                         /\ n.generation > o.generation
BY RestartLockSound DEF ClockConfigurationWritten, Moves

LEMMA KeptSound ==
  ASSUME NEW o, NEW c, Sound(o, c)
  PROVE  LET n == Kept(o)
         IN  /\ Sound(n, c) /\ SameBits(n, o) /\ Live(n) = Live(o)
             /\ n.events \subseteq o.events
<1> DEFINE n == Kept(o)
<1>1. n = [o EXCEPT !.events = {e \in o.events : e.generation = o.generation}]
  BY DEF Kept
<1> HIDE DEF n
<1>2. /\ n \in OscillatorValue /\ SameBits(n, o)
      /\ n.events = {e \in o.events : e.generation = o.generation}
  BY <1>1 DEF Sound, SameBits, OscillatorValue
<1>3. Live(n) = Live(o)
  BY <1>2 DEF Live, SameBits
<1>4. Direct(n) <=> Direct(o)
  BY <1>2 DEF SameBits, Direct
<1>5. Sound(n, c)
  BY <1>2, <1>3, <1>4 DEF Sound, SameBits, SwitchComes, LockComes, EventMeant
<1> QED BY <1>2, <1>3, <1>5 DEF n
-----------------------------------------------------------------------------
(***************************************************************************)
(* Time.  An event that is alive comes no earlier than the PLL needs: with *)
(* s cycles since it began to lock, a lock is reported after SwitchDelay   *)
(* and its source was ready after SourceDelay.                             *)
(***************************************************************************)
EventInTime(o, s, e) ==
    /\ e.phase = "LOCK" => s + e.left >= SwitchDelay
    /\ e.phase = "SWITCH" /\ Pll(o.requested) => s + e.left >= SourceDelay

Timed(o, s) ==
    /\ \A e \in Live(o) : EventInTime(o, s, e)
    /\ o.lock => s = SwitchDelay

LEMMA MovesTimed ==
  ASSUME NEW o \in OscillatorValue, NEW c, NEW n, Sound(n, c), Moves(o, n),
         steady \in 0 .. SwitchDelay, Timed(o, steady)
  PROVE  Timed(n, Steadied(o, n)) /\ Steadied(o, n) \in 0 .. SwitchDelay
<1> DEFINE t == Steadied(o, n)
<1>1. o.generation \in Nat /\ n.generation \in Nat /\ n \in OscillatorValue
  BY DEF Sound, OscillatorValue
<1>2. SwitchDelay \in Nat /\ SourceDelay \in Nat /\ SourceDelay < SwitchDelay
  BY OscillatorAssumption DEF OscillatorAssumption
<1>3. t \in {0, steady} /\ t \in 0 .. SwitchDelay
  BY <1>2 DEF Steadied
<1>4. n.lock => t = SwitchDelay
  BY DEF Steadied, Moves, Timed, Sound
<1>5. CASE n.generation = o.generation
  <2>1. t = steady
    BY <1>5 DEF Steadied
  <2>2. \A e \in Live(n) : EventInTime(n, t, e)
    BY <1>1, <1>5, <2>1 DEF Moves, Timed, EventInTime
  <2> QED BY <1>3, <1>4, <2>2 DEF Timed
<1>6. CASE n.generation # o.generation
  <2>1. \A e \in Live(n) : WholeDelay(n, e)
    BY <1>6 DEF Moves
  <2> HIDE DEF t
  <2>2. \A e \in Live(n) : EventInTime(n, t, e)
    BY <1>2, <1>3, <2>1 DEF EventInTime, WholeDelay
  <2> QED BY <1>3, <1>4, <2>2 DEF Timed, t
<1> QED BY <1>5, <1>6

LEMMA PowerOnSound ==
  ASSUME NEW c, c.startup \in Sources
  PROVE  LET n == PowerOn(c)
         IN  Sound(n, c) /\ Timed(n, SwitchDelay)
<1> DEFINE current == IF c.two_speed THEN "FRC" ELSE c.startup
           locked == Pll(current)
           started == [current |-> current, requested |-> c.startup, switch_enable |-> FALSE,
                       lock |-> locked, fail |-> FALSE, clock_lock |-> FALSE,
                       generation |-> 0, active |-> FALSE, automatic |-> FALSE,
                       lock_pending |-> FALSE, source_ready |-> FALSE, events |-> {}]
           n == PowerOn(c)
<1>1. n = IF c.two_speed /\ c.startup # "FRC" THEN StartAutomaticSwitch(started, c, c.startup)
          ELSE started
  BY DEF PowerOn
<1>2. current \in Sources /\ locked \in BOOLEAN /\ (locked <=> Pll(current))
  BY DEF Sources, Pll
<1> HIDE DEF current, locked, n
<1>3. /\ started \in OscillatorValue /\ started.events = {} /\ ~started.active
      /\ ~started.lock_pending /\ started.current = current /\ started.lock = locked
  BY <1>2 DEF OscillatorValue
<1> HIDE DEF started
<1>4. Live(started) = {}
  BY <1>3 DEF Live
<1>5. Sound(started, c) /\ Timed(started, SwitchDelay)
  BY <1>2, <1>3, <1>4 DEF Sound, SwitchComes, LockComes, Timed
<1>6. CASE n = started
  BY <1>3, <1>5, <1>6 DEF n
<1>7. CASE n = StartAutomaticSwitch(started, c, c.startup)
  <2>1. Sound(n, c) /\ Moves(started, n) /\ ~n.lock
    BY <1>3, <1>4, <1>5, <1>7, StartAutomaticSound
  <2>2. \A e \in Live(n) : WholeDelay(n, e)
    BY <1>4, <2>1 DEF Moves
  <2>3. ASSUME NEW e \in Live(n) PROVE EventInTime(n, SwitchDelay, e)
    <3>1. e.left \in Nat /\ SwitchDelay \in Nat /\ SourceDelay \in Nat
          /\ SourceDelay < SwitchDelay
      BY <2>1, OscillatorAssumption
         DEF Sound, OscillatorValue, Event, Live, OscillatorAssumption
    <3> QED BY <3>1 DEF EventInTime
  <2>4. Timed(n, SwitchDelay)
    BY <2>1, <2>3 DEF Timed
  <2> QED BY <2>1, <2>4 DEF n
<1> QED BY <1>1, <1>6, <1>7
-----------------------------------------------------------------------------
(***************************************************************************)
(* The event of a phase comes.                                             *)
(***************************************************************************)
\* A switch takes effect; the lock it began, if any, goes on.
LEMMA TransferredSound ==
  ASSUME NEW m \in OscillatorValue, NEW c, NEW s, m.active,
         \A e \in m.events : e.generation <= m.generation,
         \A e, f \in Live(m) : e = f,
         \A e \in Live(m) : e.phase = "LOCK" /\ EventInTime(m, s, e),
         m.lock_pending <=> Live(m) # {}, ~m.lock
  PROVE  LET n == Transferred(m)
         IN  Sound(n, c) /\ Timed(n, s)
<1> DEFINE n == Transferred(m)
<1>1. n = [Idle(m) EXCEPT !.current = m.requested, !.switch_enable = FALSE]
  BY DEF Transferred
<1> HIDE DEF n
<1>2. /\ n \in OscillatorValue /\ ~n.active /\ ~n.lock /\ n.lock_pending = m.lock_pending
      /\ n.generation = m.generation /\ n.events = m.events /\ n.requested = m.requested
  BY <1>1 DEF Idle, OscillatorValue
<1>3. Live(n) = Live(m)
  BY <1>2 DEF Live
<1>4. Sound(n, c)
  BY <1>2, <1>3 DEF Sound, SwitchComes, LockComes, EventMeant
<1>5. Timed(n, s)
  BY <1>2, <1>3 DEF Timed, EventInTime
<1> QED BY <1>4, <1>5 DEF n

LEMMA EventCompletedSound ==
  ASSUME NEW o, NEW c, Sound(o, c), NEW event \in o.events, event.left = 0,
         NEW s \in 0 .. SwitchDelay, Timed(o, s)
  PROVE  LET n == EventCompleted(o, c, event)
         IN  Sound(n, c) /\ Timed(n, s)
<1> DEFINE rest == [o EXCEPT !.events = o.events \ {event}]
           n == EventCompleted(o, c, event)
<1>1. o \in OscillatorValue
  BY DEF Sound
<1>2. rest \in OscillatorValue /\ SameBits(rest, o) /\ rest.events = o.events \ {event}
  BY <1>1 DEF OscillatorValue, SameBits
<1>3. /\ Live(rest) = Live(o) \ {event}
      /\ \A e \in rest.events : e.generation <= rest.generation
  BY <1>2 DEF Live, SameBits, Sound
<1>4. n = IF LockCompletes(o, event)
          THEN Unready(LockReported(IF Transfers(o, c, event) THEN Transferred(rest) ELSE rest))
          ELSE IF SwitchCompletes(o, c, event) /\ Pll(o.requested)
          THEN IF Transfers(o, c, event) THEN Transferred(SourceReady(rest))
               ELSE SourceReady(rest)
          ELSE IF Transfers(o, c, event) THEN Transferred(rest) ELSE rest
  BY DEF EventCompleted
<1>5. /\ event.phase \in {"SWITCH", "LOCK"}
      /\ SwitchDelay \in Nat /\ SourceDelay \in Nat
      /\ 0 < SourceDelay /\ SourceDelay < SwitchDelay
  BY <1>1, OscillatorAssumption DEF OscillatorValue, Event, Phases, OscillatorAssumption
<1> HIDE DEF n, rest
<1>6. CASE event \notin Live(o)
  <2>1. event.generation # o.generation
    BY <1>6 DEF Live
  <2>2. n = rest
    BY <1>4, <2>1 DEF LockCompletes, SwitchCompletes, Transfers
  <2>3. Live(rest) = Live(o)
    BY <1>3, <1>6
  <2>4. Direct(rest) <=> Direct(o)
    BY <1>2 DEF SameBits, Direct
  <2>5. Sound(rest, c)
    BY <1>2, <1>3, <2>3, <2>4 DEF Sound, SameBits, SwitchComes, LockComes, EventMeant
  <2>6. Timed(rest, s)
    BY <1>2, <2>3 DEF Timed, SameBits, EventInTime
  <2> QED BY <2>2, <2>5, <2>6 DEF n
<1>7. ASSUME event \in Live(o)
      PROVE  /\ Live(rest) = {} /\ EventMeant(o, c, event) /\ EventInTime(o, s, event)
             /\ event.generation = o.generation
             /\ event.phase = "SWITCH" => ~o.lock_pending \/ Direct(o)
             /\ ~o.lock
  <2>1. \A e \in Live(o) : e = event
    BY <1>7 DEF Sound
  <2>2. Live(rest) = {}
    BY <1>3, <2>1
  <2>3. EventMeant(o, c, event) /\ EventInTime(o, s, event) /\ event.generation = o.generation
    BY <1>7 DEF Sound, Timed, Live
  <2>4. event.phase = "SWITCH" => ~o.lock_pending \/ Direct(o)
    BY <2>1 DEF Sound, LockComes
  <2>5. ~o.lock
    <3>1. CASE o.active
      BY <1>7, <3>1 DEF Sound
    <3>2. CASE ~o.active
      BY <1>7, <3>2, SoundInactive DEF Sound
    <3> QED BY <3>1, <3>2
  <2> QED BY <2>2, <2>3, <2>4, <2>5
<1>8. CASE event \in Live(o) /\ event.phase = "LOCK"
  <2> DEFINE moved == IF Transfers(o, c, event) THEN Transferred(rest) ELSE rest
             told == LockReported(moved)
  <2>1. LockCompletes(o, event)
    BY <1>7, <1>8 DEF LockCompletes, EventMeant
  <2>2. n = Unready(told)
    BY <1>4, <2>1
  <2>3. s = SwitchDelay
    BY <1>5, <1>7, <1>8 DEF EventInTime
  <2>4. Transfers(o, c, event) <=> o.active
    BY <1>7, <1>8, <2>1 DEF Transfers, EventMeant, SwitchCompletes
  <2>5. /\ moved \in OscillatorValue /\ ~moved.active /\ moved.generation = rest.generation
        /\ moved.events = rest.events
    BY <1>2, <2>4 DEF Transferred, Idle, OscillatorValue, SameBits
  <2> HIDE DEF moved
  <2>6. /\ told \in OscillatorValue /\ ~told.active /\ told.generation = rest.generation
        /\ told.events = rest.events /\ told.current = moved.current
        /\ told.lock => Pll(moved.current) \/ moved.lock
    BY <2>5 DEF LockReported, OscillatorValue
  <2>7. ~moved.lock
    BY <1>1, <1>2, <1>7, <1>8, <2>4 DEF moved, Transferred, Idle, OscillatorValue, SameBits
  <2> HIDE DEF told
  <2>8. /\ n \in OscillatorValue /\ ~n.active /\ ~n.lock_pending
        /\ n.generation = rest.generation /\ n.events = rest.events
        /\ n.current = told.current /\ n.lock = told.lock
    BY <2>2, <2>6 DEF Unready, OscillatorValue
  <2>9. Live(n) = {}
    BY <1>7, <1>8, <2>8 DEF Live
  <2>10. Sound(n, c)
    BY <1>3, <2>6, <2>7, <2>8, <2>9 DEF Sound, SwitchComes, LockComes
  <2>11. Timed(n, s)
    BY <2>3, <2>9 DEF Timed
  <2> QED BY <2>10, <2>11 DEF n
<1>9. CASE event \in Live(o) /\ event.phase = "SWITCH"
  <2>1. ~LockCompletes(o, event) /\ o.active
    BY <1>7, <1>9 DEF LockCompletes, EventMeant
  <2>2. /\ SwitchCompletes(o, c, event) <=> Available(c, o.requested)
        /\ Transfers(o, c, event)
           <=> Available(c, o.requested) /\ ~(Pll(o.requested) /\ c.pllk)
    BY <1>7, <1>9, <2>1 DEF SwitchCompletes, Transfers, Sound
  <2>3. CASE ~Available(c, o.requested)
    <3>1. n = rest /\ Direct(o)
      BY <1>4, <1>7, <1>9, <2>1, <2>2, <2>3 DEF EventMeant
    <3>2. Direct(rest) /\ rest.active
      BY <1>2, <2>1, <3>1 DEF SameBits, Direct
    <3>3. Sound(rest, c)
      BY <1>2, <1>3, <1>7, <1>9, <3>2 DEF Sound, SameBits, SwitchComes, LockComes
    <3>4. Timed(rest, s)
      BY <1>1, <1>2, <1>7, <1>9 DEF Timed, SameBits, OscillatorValue
    <3> QED BY <3>1, <3>3, <3>4 DEF n
  <2>4. CASE Available(c, o.requested) /\ Pll(o.requested)
    <3> DEFINE m == [rest EXCEPT !.source_ready = TRUE, !.lock_pending = TRUE]
               r == SourceReady(rest)
               d == SwitchDelay - SourceDelay
    <3>1. /\ m \in OscillatorValue /\ m.generation = rest.generation /\ m.active /\ ~m.lock
          /\ m.lock_pending /\ m.source_ready /\ m.events = rest.events
          /\ m.automatic \/ m.switch_enable
      BY <1>2, <1>7, <1>9, <2>1 DEF OscillatorValue, SameBits, Sound
    <3>2. r = Scheduled(m, "LOCK", d)
      BY DEF SourceReady
    <3>3. d \in 0 .. SwitchDelay
      BY <1>5
    <3> HIDE DEF m, r, d
    <3>4. Live(m) = {} /\ \A e \in m.events : e.generation <= m.generation
      BY <1>3, <1>7, <1>9, <3>1 DEF Live
    <3>5. /\ Sound(r, c) /\ ~r.lock
          /\ \A e \in Live(r) : e.phase = "LOCK" /\ e.left = d
      BY <3>1, <3>2, <3>3, <3>4, LockingSound
    <3>6. s >= SourceDelay
      BY <1>5, <1>7, <1>9, <2>4 DEF EventInTime
    <3>7. \A e \in Live(r) : EventInTime(r, s, e)
      BY <1>5, <3>5, <3>6 DEF EventInTime, d
    <3>8. CASE ~Transfers(o, c, event)
      BY <1>4, <2>1, <2>2, <2>4, <3>5, <3>7, <3>8 DEF Timed, n, r
    <3>9. CASE Transfers(o, c, event)
      <4>1. /\ r \in OscillatorValue /\ r.active /\ r.lock_pending
            /\ \A e \in r.events : e.generation <= r.generation
            /\ Live(r) # {}
        <5>1. "LOCK" \in Phases
          BY DEF Phases
        <5>2. /\ r \in OscillatorValue /\ SameBits(r, m)
              /\ \A e \in r.events : e.generation <= r.generation
              /\ Live(r) = {[phase |-> "LOCK", generation |-> m.generation, left |-> d]}
          BY <3>1, <3>2, <3>3, <3>4, <5>1, ScheduledAlone
        <5> QED BY <3>1, <5>2 DEF SameBits
      <4>2. n = Transferred(r)
        BY <1>4, <2>1, <2>2, <2>4, <3>9 DEF r
      <4>3. \A e, f \in Live(r) : e = f
        BY <3>5 DEF Sound
      <4> QED BY <3>5, <3>7, <4>1, <4>2, <4>3, TransferredSound DEF n
    <3> QED BY <3>8, <3>9
  <2>5. CASE Available(c, o.requested) /\ ~Pll(o.requested)
    <3>1. n = Transferred(rest)
      BY <1>4, <2>1, <2>2, <2>5
    <3>2. ~o.lock_pending
      BY <1>7, <1>9, <2>5 DEF Direct
    <3>3. rest.active /\ ~rest.lock_pending /\ ~rest.lock
      BY <1>1, <1>2, <1>7, <1>9, <2>1, <3>2 DEF SameBits, OscillatorValue
    <3> QED BY <1>2, <1>3, <1>7, <1>9, <3>1, <3>3, TransferredSound DEF n
  <2> QED BY <2>3, <2>4, <2>5
<1> QED BY <1>5, <1>6, <1>8, <1>9
-----------------------------------------------------------------------------
(***************************************************************************)
(* The invariant of the steps.                                             *)
(***************************************************************************)
ClockInv ==
    /\ Sound(osc, config) /\ Timed(osc, steady)
    /\ config \in Configurations /\ steady \in 0 .. SwitchDelay

NvmRecord == [active : BOOLEAN, left : 0 .. NvmDelay, target : Configurations,
              stalls : BOOLEAN, pending : {None} \union WarmCauses, key_stage : 0 .. 2]

MachineInv ==
    /\ key \in [lane : {"low", "high"}, stage : 0 .. 2]
    /\ nvm \in NvmRecord
    /\ control \in [wr : BOOLEAN, wrerr : BOOLEAN]
    /\ watchdog \in [ticks : 0 .. Period - 1, pending : BOOLEAN, software : BOOLEAN]
    /\ power \in {"active", "sleep"}
    /\ cause \in {"POR", "BOR", "WDTO"} \union WarmCauses
    /\ clocked \in BOOLEAN

\* What is due is done before the next cycle passes.
Later(o) == \A e \in o.events : e.left >= 1

NothingOverdue == clocked => Later(osc) /\ (nvm.active => nvm.left >= 1)

TypeInv == ClockInv /\ MachineInv /\ NothingOverdue

LEMMA ClockBecomesKept ==
  ASSUME ClockInv, NEW n, ClockBecomes(n), Sound(n, config), Moves(osc, n), config' = config
  PROVE  ClockInv'
<1>1. Timed(n, Steadied(osc, n)) /\ Steadied(osc, n) \in 0 .. SwitchDelay
  BY MovesTimed DEF ClockInv, Sound
<1> QED BY <1>1 DEF ClockInv, ClockBecomes

LEMMA KeptTimed ==
  ASSUME NEW o, NEW c, Sound(o, c), NEW s, Timed(o, s)
  PROVE  Sound(Kept(o), c) /\ Timed(Kept(o), s)
<1>1. Sound(Kept(o), c) /\ SameBits(Kept(o), o) /\ Live(Kept(o)) = Live(o)
  BY KeptSound
<1> QED BY <1>1 DEF Timed, SameBits, EventInTime

\* A reset, put off or not, and a timeout of the watchdog.
LEMMA ResetsKeepClock ==
  ASSUME ClockInv, config' = config,
         (\E why : Reset(why)) \/ TimedOut
  PROVE  ClockInv'
<1>1. UNCHANGED <<osc, steady>> \/ (osc' = Kept(osc) /\ steady' = steady)
  BY DEF Reset, TimedOut, Deferred, Restarted, Steadied
<1>2. CASE UNCHANGED <<osc, steady>>
  BY <1>2 DEF ClockInv
<1>3. CASE osc' = Kept(osc) /\ steady' = steady
  BY <1>3, KeptTimed DEF ClockInv
<1> QED BY <1>1, <1>2, <1>3

\* The cycle passes: every event comes nearer, and the PLL has had one more.
LEMMA TickKeepsClock ==
  ASSUME ClockInv, NothingOverdue, Tick
  PROVE  ClockInv'
<1> DEFINE Nearer(e) == [e EXCEPT !.left = @ - 1]
           n == [osc EXCEPT !.events = {Nearer(e) : e \in osc.events}]
<1>1. /\ osc' = n /\ config' = config
      /\ steady' = IF steady < SwitchDelay THEN steady + 1 ELSE steady
      /\ osc \in OscillatorValue /\ Later(osc)
  BY DEF Tick, ClockInv, NothingOverdue, Sound
<1>2. SwitchDelay \in Nat /\ SourceDelay \in Nat /\ SourceDelay < SwitchDelay
      /\ steady \in 0 .. SwitchDelay
  BY OscillatorAssumption DEF OscillatorAssumption, ClockInv
<1>3. \A e \in osc.events : /\ Nearer(e) \in Event /\ Nearer(e).phase = e.phase
                            /\ Nearer(e).generation = e.generation
                            /\ Nearer(e).left = e.left - 1
                            /\ e.left \in Nat /\ e.left >= 1
  BY <1>1, <1>2 DEF Later, OscillatorValue, Event
<1> HIDE DEF Nearer
<1>4. n \in OscillatorValue /\ SameBits(n, osc) /\ n.events = {Nearer(e) : e \in osc.events}
  BY <1>1, <1>3 DEF OscillatorValue, SameBits
<1> HIDE DEF n
<1>5. Live(n) = {Nearer(e) : e \in Live(osc)}
  BY <1>3, <1>4 DEF Live, SameBits
<1>6. Live(osc) \subseteq osc.events
  BY DEF Live
<1>7. Direct(n) <=> Direct(osc)
  BY <1>4 DEF Direct, SameBits
<1>8. Sound(osc, config)
  BY DEF ClockInv
<1>9. /\ \A e \in n.events : e.generation <= n.generation
      /\ \A e, f \in Live(n) : e = f
      /\ \A e \in Live(n) : EventMeant(n, config, e)
  BY <1>3, <1>4, <1>5, <1>6, <1>7, <1>8 DEF Sound, EventMeant, SameBits
<1>10. SwitchComes(n, config) /\ LockComes(n)
  BY <1>3, <1>4, <1>5, <1>6, <1>7, <1>8 DEF Sound, SwitchComes, LockComes, SameBits
<1>11. Sound(n, config)
  BY <1>4, <1>5, <1>7, <1>8, <1>9, <1>10 DEF Sound, SameBits
<1>12. ASSUME NEW e \in Live(osc) PROVE EventInTime(n, steady', Nearer(e))
  BY <1>1, <1>2, <1>3, <1>4, <1>6 DEF ClockInv, Timed, EventInTime, SameBits
<1>13. Timed(n, steady')
  BY <1>1, <1>4, <1>5, <1>12 DEF ClockInv, Timed, SameBits
<1>14. steady' \in 0 .. SwitchDelay
  BY <1>1, <1>2
<1> QED BY <1>1, <1>11, <1>13, <1>14 DEF ClockInv

LEMMA WriteClockConfigurationKeepsClock ==
  ASSUME ClockInv, NEW register \in {"pll", "frc"}, WriteClockConfiguration(register)
  PROVE  ClockInv'
<1> DEFINE n == ClockConfigurationWritten(osc, config, register)
<1>1. /\ osc' = n /\ config' = config
      /\ steady' = IF Disturbs(register) THEN 0 ELSE steady
  BY DEF WriteClockConfiguration
<1>2. Disturbs(register) <=> ~ConfigurationLocked(osc, config) /\ RelockRequired(osc, register)
  BY DEF Disturbs, RelockRequired, PllSource, Pll
<1>3. CASE Disturbs(register)
  <2>1. n = RestartLock(osc, config)
    BY <1>2, <1>3 DEF ClockConfigurationWritten
  <2>2. Sound(n, config) /\ Moves(osc, n) /\ ~n.lock /\ n.generation > osc.generation
    BY <2>1, RestartLockSound DEF ClockInv
  <2>3. osc.generation \in Nat /\ n.generation \in Nat
    BY <2>2 DEF ClockInv, Sound, OscillatorValue
  <2> HIDE DEF n
  <2>4. \A e \in Live(n) : WholeDelay(n, e)
    BY <2>2, <2>3 DEF Moves
  <2>5. SwitchDelay \in Nat /\ SourceDelay \in Nat
    BY OscillatorAssumption DEF OscillatorAssumption
  <2>6. Timed(n, 0) /\ 0 \in 0 .. SwitchDelay
    BY <2>2, <2>4, <2>5 DEF Timed, EventInTime, WholeDelay
  <2> QED BY <1>1, <1>3, <2>2, <2>6 DEF ClockInv
<1>4. CASE ~Disturbs(register)
  <2>1. n = osc
    BY <1>2, <1>4 DEF ClockConfigurationWritten
  <2> QED BY <1>1, <1>4, <2>1 DEF ClockInv
<1> QED BY <1>3, <1>4

LEMMA CompleteNvmKeepsClock ==
  ASSUME ClockInv, nvm \in NvmRecord, CompleteNvm
  PROVE  ClockInv'
<1> DEFINE n == Configured(osc, config, nvm.target)
<1>1. nvm.target \in Configurations /\ nvm.target.startup \in Sources
  BY ClockResetAssumption DEF NvmRecord, ClockResetAssumption
<1>2. Sound(n, nvm.target) /\ Moves(osc, n)
  BY <1>1, ConfiguredSound DEF ClockInv
<1>3. /\ osc' = n \/ osc' = Kept(n)
      /\ steady' = Steadied(osc, n) /\ config' = nvm.target
  BY DEF CompleteNvm, Restarted
<1> HIDE DEF n
<1>4. Timed(n, Steadied(osc, n)) /\ Steadied(osc, n) \in 0 .. SwitchDelay
  BY <1>2, MovesTimed DEF ClockInv, Sound
<1>5. Sound(Kept(n), nvm.target) /\ Timed(Kept(n), Steadied(osc, n))
  BY <1>2, <1>4, KeptTimed
<1> QED BY <1>1, <1>2, <1>3, <1>4, <1>5 DEF ClockInv

LEMMA ClockStep ==
  ASSUME ClockInv, nvm \in NvmRecord, NothingOverdue, [Next]_vars
  PROVE  ClockInv'
<1>0. Sound(osc, config)
  BY DEF ClockInv
<1>1. ASSUME UNCHANGED <<osc, config, steady>> PROVE ClockInv'
  BY <1>1 DEF ClockInv
<1>2. CASE \/ Other \/ Exception \/ EnableWatchdog \/ Stall \/ Wake \/ HostAdvance \/ UNCHANGED vars
  BY <1>1, <1>2 DEF Other, Exception, EnableWatchdog, Stall, Wake, HostAdvance, vars
<1>3. CASE \/ \E lane \in {"low", "high"} : WriteKey(lane)
           \/ \E value \in {"55", "AA", "other"} : WriteNvmKey(value)
           \/ \E target \in Configurations, stalls \in BOOLEAN : StartNvm(target, stalls)
  BY <1>1, <1>3 DEF WriteKey, WriteNvmKey, StartNvm
<1>4. CASE ClearWatchdog \/ WatchdogTick
  BY <1>1, <1>4, ResetsKeepClock DEF ClearWatchdog, WatchdogTick
<1>5. CASE ResetInstruction \/ HostReset
  BY <1>5, ResetsKeepClock DEF ResetInstruction, HostReset
<1>6. CASE Sleep
  <2>1. CASE nvm.active
    BY <1>1, <1>6, <2>1 DEF Sleep
  <2>2. CASE ~nvm.active
    BY <1>0, <1>6, <2>2, AbortSound, ClockBecomesKept DEF Sleep
  <2> QED BY <2>1, <2>2
<1>7. CASE \E source \in Sources : WriteHigh(source)
  <2>1. PICK source \in Sources : WriteHigh(source)
    BY <1>7
  <2>2. ClockBecomes(HighWritten(osc, config, source)) /\ config' = config
    BY <2>1 DEF WriteHigh, Unlocked
  <2> QED BY <1>0, <2>2, HighWrittenSound, ClockBecomesKept
<1>8. CASE \E enable, clock_lock, fail \in BOOLEAN : WriteLow(enable, clock_lock, fail)
  <2>1. PICK enable, clock_lock, fail \in BOOLEAN : WriteLow(enable, clock_lock, fail)
    BY <1>8
  <2>2. ClockBecomes(LowWritten(osc, config, enable, clock_lock, fail)) /\ config' = config
    BY <2>1 DEF WriteLow, Unlocked
  <2> QED BY <1>0, <2>2, LowWrittenSound, ClockBecomesKept
<1>9. CASE \E register \in {"pll", "frc"} : WriteClockConfiguration(register)
  BY <1>9, WriteClockConfigurationKeepsClock
<1>10. CASE ClockFails
  BY <1>0, <1>10, FailedSound, ClockBecomesKept DEF ClockFails
<1>11. CASE Tick
  BY <1>11, TickKeepsClock
<1>12. CASE CompleteOscillatorEvent
  <2>1. PICK event \in DueEvents : osc' = EventCompleted(osc, config, event)
    BY <1>12 DEF CompleteOscillatorEvent
  <2>2. event \in osc.events /\ event.left = 0 /\ UNCHANGED <<config, steady>>
    BY <1>12 DEF DueEvents, CompleteOscillatorEvent
  <2>3. Sound(osc', config) /\ Timed(osc', steady)
    BY <1>0, <2>1, <2>2, EventCompletedSound DEF ClockInv
  <2> QED BY <2>2, <2>3 DEF ClockInv
<1>13. CASE CompleteNvm
  BY <1>13, CompleteNvmKeepsClock
<1>14. CASE BrownOutReset \/ PowerOnReset
  <2>1. osc' = PowerOn(config) /\ steady' = SwitchDelay /\ config' = config
    BY <1>14 DEF BrownOutReset, PowerOnReset, Powered
  <2>2. config \in Configurations /\ config.startup \in Sources
    BY ClockResetAssumption DEF ClockInv, ClockResetAssumption
  <2>3. Sound(osc', config) /\ Timed(osc', SwitchDelay)
    BY <2>1, <2>2, PowerOnSound
  <2>4. SwitchDelay \in 0 .. SwitchDelay
    BY OscillatorAssumption DEF OscillatorAssumption
  <2> QED BY <2>1, <2>2, <2>3, <2>4 DEF ClockInv
<1> QED BY <1>2, <1>3, <1>4, <1>5, <1>6, <1>7, <1>8, <1>9, <1>10, <1>11, <1>12, <1>13, <1>14
        DEF Next, Firmware, Clock, Host
-----------------------------------------------------------------------------
\* A reset or a timeout keeps the types; so does the machine between them.
LEMMA ResetsKeepMachine ==
  ASSUME MachineInv, clocked' \in BOOLEAN, control' = control,
         (\E why \in WarmCauses : Reset(why)) \/ TimedOut
  PROVE  MachineInv'
<1>1. 0 \in 0 .. Period - 1 /\ 0 \in 0 .. NvmDelay /\ Initially \in Configurations
  BY ClockResetAssumption DEF ClockResetAssumption
<1>2. NoOperation \in NvmRecord /\ NoKey \in [lane : {"low", "high"}, stage : 0 .. 2]
  BY <1>1 DEF NoOperation, NvmRecord, NoKey
<1>3. ASSUME NEW why \in WarmCauses, Deferred(why), key' \in {key, NoKey} PROVE MachineInv'
  <2>1. nvm' \in NvmRecord
    BY <1>3 DEF Deferred, Recorded, MachineInv, NvmRecord
  <2> QED BY <1>2, <1>3, <2>1 DEF Deferred, MachineInv
<1>4. ASSUME NEW why \in WarmCauses \union {"WDTO"}, Restarted(why, osc) PROVE MachineInv'
  BY <1>1, <1>2, <1>4 DEF Restarted, MachineInv
<1>5. CASE TimedOut
  <2>1. CASE power # "active"
    BY <1>1, <1>5, <2>1 DEF TimedOut, MachineInv
  <2>2. CASE power = "active" /\ nvm.active
    BY <1>1, <1>5, <2>2 DEF TimedOut, MachineInv
  <2>3. CASE power = "active" /\ ~nvm.active
    BY <1>4, <1>5, <2>3 DEF TimedOut
  <2> QED BY <2>1, <2>2, <2>3
<1>6. CASE \E why \in WarmCauses : Reset(why)
  BY <1>3, <1>4, <1>6 DEF Reset
<1> QED BY <1>5, <1>6

LEMMA MachineStep ==
  ASSUME ClockInv, MachineInv, NothingOverdue, [Next]_vars
  PROVE  MachineInv'
<1>1. /\ 0 \in 0 .. Period - 1 /\ 0 \in 0 .. NvmDelay /\ NvmDelay \in 0 .. NvmDelay
      /\ Initially \in Configurations /\ Period \in Nat /\ NvmDelay \in Nat
  BY ClockResetAssumption DEF ClockResetAssumption
<1>2. NoOperation \in NvmRecord /\ NoKey \in [lane : {"low", "high"}, stage : 0 .. 2]
  BY <1>1 DEF NoOperation, NvmRecord, NoKey
<1>3. NvmKeyAfter \in NvmRecord /\ [nvm EXCEPT !.key_stage = 0] \in NvmRecord
  BY DEF NvmKeyAfter, MachineInv, NvmRecord
<1> HIDE DEF NvmRecord
<1>4. CASE \/ Other \/ Exception \/ Stall \/ Wake \/ HostAdvance \/ ClockFails \/ Sleep
           \/ UNCHANGED vars
  BY <1>1, <1>2, <1>3, <1>4
     DEF Other, Exception, Stall, Wake, HostAdvance, ClockFails, Sleep, Instruction, vars, MachineInv
<1>5. CASE \E lane \in {"low", "high"} : WriteKey(lane)
  BY <1>3, <1>5 DEF WriteKey, Instruction, MachineInv
<1>6. CASE \/ \E source \in Sources : WriteHigh(source)
           \/ \E enable, clock_lock, fail \in BOOLEAN : WriteLow(enable, clock_lock, fail)
           \/ \E register \in {"pll", "frc"} : WriteClockConfiguration(register)
  BY <1>2, <1>3, <1>6
     DEF WriteHigh, WriteLow, Unlocked, WriteClockConfiguration, Instruction, MachineInv
<1>7. CASE \E value \in {"55", "AA", "other"} : WriteNvmKey(value)
  <2>1. PICK value \in {"55", "AA", "other"} : WriteNvmKey(value)
    BY <1>7
  <2>2. \A stage \in 0 .. 2 : [nvm EXCEPT !.key_stage = stage] \in NvmRecord
    BY DEF MachineInv, NvmRecord
  <2>3. nvm' \in NvmRecord
    BY <2>1, <2>2 DEF WriteNvmKey
  <2> QED BY <1>2, <2>1, <2>3 DEF WriteNvmKey, Instruction, MachineInv
<1>8. CASE \E target \in Configurations, stalls \in BOOLEAN : StartNvm(target, stalls)
  <2>1. PICK target \in Configurations, stalls \in BOOLEAN : StartNvm(target, stalls)
    BY <1>8
  <2>2. [NoOperation EXCEPT !.active = TRUE, !.left = NvmDelay,
                            !.target = target, !.stalls = stalls] \in NvmRecord
    BY <1>1, <1>2 DEF NvmRecord
  <2>3. nvm' \in NvmRecord
    BY <1>3, <2>1, <2>2 DEF StartNvm
  <2>4. (nvm.active \/ nvm.key_stage = 2) \in BOOLEAN
    BY DEF MachineInv, NvmRecord
  <2>5. control' \in [wr : BOOLEAN, wrerr : BOOLEAN]
    BY <2>1, <2>4 DEF StartNvm
  <2> QED BY <1>2, <2>1, <2>3, <2>5 DEF StartNvm, Instruction, MachineInv
<1>9. CASE ClearWatchdog
  <2>1. clocked' \in BOOLEAN /\ control' = control
    BY <1>9 DEF ClearWatchdog
  <2>2. CASE TooEarly(config)
    BY <1>9, <2>1, <2>2, ResetsKeepMachine DEF ClearWatchdog
  <2>3. CASE ~TooEarly(config)
    BY <1>1, <1>2, <1>3, <1>9, <2>1, <2>3 DEF ClearWatchdog, MachineInv
  <2> QED BY <2>2, <2>3
<1>10. CASE EnableWatchdog
  BY <1>1, <1>2, <1>3, <1>10 DEF EnableWatchdog, Instruction, MachineInv
<1>11. CASE ResetInstruction \/ HostReset
  <2>1. (\E why \in WarmCauses : Reset(why)) /\ control' = control /\ clocked' \in BOOLEAN
    BY <1>11 DEF ResetInstruction, HostReset, MachineInv
  <2> QED BY <2>1, ResetsKeepMachine
<1>12. CASE Tick
  <2>1. nvm' \in NvmRecord
    BY <1>1, <1>12 DEF Tick, MachineInv, NothingOverdue, NvmRecord
  <2> QED BY <1>12, <2>1 DEF Tick, MachineInv
<1>13. CASE CompleteOscillatorEvent
  BY <1>1, <1>13 DEF CompleteOscillatorEvent, MachineInv
<1>14. CASE CompleteNvm
  <2>1. CASE Performed # None
    <3>1. Performed \in WarmCauses \union {"WDTO"}
      BY <2>1 DEF Performed, MachineInv, NvmRecord
    <3>2. control' \in [wr : BOOLEAN, wrerr : BOOLEAN] /\ clocked' = clocked
      BY <1>14 DEF CompleteNvm
    <3>3. PICK clock : Restarted(Performed, clock)
      BY <1>14, <2>1 DEF CompleteNvm
    <3> HIDE DEF NoOperation, NoKey, Performed
    <3> QED BY <1>1, <1>2, <3>1, <3>2, <3>3 DEF Restarted, MachineInv
  <2>2. CASE Performed = None
    <3>1. nvm' = [nvm EXCEPT !.active = FALSE]
      BY <1>14, <2>2 DEF CompleteNvm
    <3>2. nvm' \in NvmRecord
      BY <3>1 DEF MachineInv, NvmRecord
    <3> QED BY <1>1, <1>14, <2>2, <3>2 DEF CompleteNvm, MachineInv
  <2> QED BY <2>1, <2>2
<1>15. CASE BrownOutReset \/ PowerOnReset
  <2>1. control' \in [wr : BOOLEAN, wrerr : BOOLEAN]
    <3>1. control' = control \/ control' = [wr |-> FALSE, wrerr |-> FALSE]
      BY <1>15 DEF BrownOutReset, PowerOnReset
    <3>2. [wr |-> FALSE, wrerr |-> FALSE] \in [wr : BOOLEAN, wrerr : BOOLEAN]
      OBVIOUS
    <3>3. control \in [wr : BOOLEAN, wrerr : BOOLEAN]
      BY DEF MachineInv
    <3> QED BY <3>1, <3>2, <3>3
  <2>2. PICK why \in {"BOR", "POR"} : Powered(why, config)
    BY <1>15 DEF BrownOutReset, PowerOnReset
  <2> QED BY <1>1, <1>2, <2>1, <2>2 DEF Powered, MachineInv
<1>16. CASE WatchdogTick
  <2>1. clocked' \in BOOLEAN /\ control' = control
    BY <1>16 DEF WatchdogTick, MachineInv
  <2>2. CASE TimedOut
    BY <2>1, <2>2, ResetsKeepMachine
  <2>3. CASE ~TimedOut
    <3>1. /\ UNCHANGED <<key, nvm, power, cause>>
          /\ \/ watchdog' = [watchdog EXCEPT !.ticks = 0]
             \/ /\ ~TickReaches(watchdog.ticks + 1)
                /\ watchdog' = [watchdog EXCEPT !.ticks = @ + 1]
      BY <1>16, <2>3 DEF WatchdogTick
    <3>2. watchdog' \in [ticks : 0 .. Period - 1, pending : BOOLEAN, software : BOOLEAN]
      BY <1>1, <3>1 DEF MachineInv, TickReaches
    <3> QED BY <2>1, <3>1, <3>2 DEF MachineInv
  <2> QED BY <2>2, <2>3
<1> QED BY <1>4, <1>5, <1>6, <1>7, <1>8, <1>9, <1>10, <1>11, <1>12, <1>13, <1>14, <1>15, <1>16
        DEF Next, Firmware, Clock, Host

\* What an instruction schedules is due later.
LEMMA ScheduledLater ==
  ASSUME NEW m \in OscillatorValue, Later(m), NEW phase, NEW delay \in Nat, delay >= 1
  PROVE  Later(Scheduled(m, phase, delay))
<1>1. Scheduled(m, phase, delay).events
      = m.events \union {[phase |-> phase, generation |-> m.generation, left |-> delay]}
  BY DEF Scheduled, OscillatorValue
<1> QED BY <1>1 DEF Later

LEMMA ReadyingLater ==
  ASSUME NEW m \in OscillatorValue, Later(m), NEW c
  PROVE  Later(Readying(m, c))
<1>1. SwitchDelay \in Nat /\ SourceDelay \in Nat /\ SourceDelay >= 1 /\ SwitchDelay >= 1
  BY OscillatorAssumption DEF OscillatorAssumption
<1> QED BY <1>1, ScheduledLater DEF Readying

LEMMA SameEvents ==
  ASSUME NEW o \in OscillatorValue
  PROVE  /\ Superseded(o) \in OscillatorValue /\ Superseded(o).events = o.events
         /\ Unready(o) \in OscillatorValue /\ Unready(o).events = o.events
         /\ Idle(o) \in OscillatorValue /\ Idle(o).events = o.events
<1>1. Superseded(o) \in OscillatorValue /\ Superseded(o).events = o.events
  BY DEF Superseded, OscillatorValue
<1>2. Unready(o) \in OscillatorValue /\ Unready(o).events = o.events
  BY DEF Unready, OscillatorValue
<1>3. Idle(o) \in OscillatorValue /\ Idle(o).events = o.events
  BY DEF Idle, OscillatorValue
<1> QED BY <1>1, <1>2, <1>3

LEMMA AbortSwitchLater ==
  ASSUME NEW o \in OscillatorValue
  PROVE  AbortSwitch(o) \in OscillatorValue /\ AbortSwitch(o).events = o.events
<1> DEFINE m == IF o.active THEN Unready(Idle(Superseded(o))) ELSE o
<1>1. m \in OscillatorValue /\ m.events = o.events
  BY SameEvents
<1>2. AbortSwitch(o) = [m EXCEPT !.switch_enable = FALSE]
  BY DEF AbortSwitch
<1> HIDE DEF m
<1> QED BY <1>1, <1>2 DEF OscillatorValue

LEMMA AbortLater ==
  ASSUME NEW o \in OscillatorValue
  PROVE  Abort(o).events = o.events
<1> DEFINE m == IF ~o.active /\ o.lock_pending THEN Unready(Superseded(o)) ELSE o
<1>1. m \in OscillatorValue /\ m.events = o.events
  BY SameEvents
<1>2. Abort(o) = AbortSwitch(m)
  BY DEF Abort
<1> HIDE DEF m
<1> QED BY <1>1, <1>2, AbortSwitchLater

LEMMA HighWrittenLater ==
  ASSUME NEW o \in OscillatorValue, NEW c, NEW source
  PROVE  HighWritten(o, c, source).events = o.events
<1> DEFINE m == IF o.active THEN AbortSwitch(o) ELSE o
<1>1. m.events = o.events
  BY AbortSwitchLater
<1>2. m \in OscillatorValue
  BY AbortSwitchLater
<1>3. HighWritten(o, c, source) \in {o, [m EXCEPT !.requested = source]}
  BY DEF HighWritten
<1> HIDE DEF m
<1> QED BY <1>1, <1>2, <1>3 DEF OscillatorValue

LEMMA StartSwitchLater ==
  ASSUME NEW o \in OscillatorValue, Later(o), NEW c
  PROVE  Later(StartSwitch(o, c))
<1> DEFINE s == Unready(Superseded(o))
           m == [s EXCEPT !.active = TRUE, !.automatic = FALSE,
                    !.switch_enable = TRUE, !.lock = FALSE, !.fail = FALSE]
<1>1. s \in OscillatorValue /\ s.events = o.events
  BY SameEvents
<1>2. StartSwitch(o, c) = Readying(m, c)
  BY DEF StartSwitch
<1> HIDE DEF s
<1>3. m \in OscillatorValue /\ m.events = o.events
  BY <1>1 DEF OscillatorValue
<1> HIDE DEF m
<1> QED BY <1>2, <1>3, ReadyingLater DEF Later

LEMMA LowWrittenLater ==
  ASSUME NEW o \in OscillatorValue, Later(o), NEW c,
         NEW enable \in BOOLEAN, NEW clock_lock \in BOOLEAN, NEW fail \in BOOLEAN
  PROVE  Later(LowWritten(o, c, enable, clock_lock, fail))
<1> DEFINE a == o.clock_lock \/ clock_lock
           b == o.fail /\ fail
           written == [o EXCEPT !.clock_lock = a, !.fail = b]
           refused == IF enable THEN [written EXCEPT !.switch_enable = FALSE] ELSE written
           direct == [Superseded(written) EXCEPT !.active = TRUE, !.switch_enable = TRUE]
           m == IF o.active THEN AbortSwitch(written) ELSE written
<1>1. LowWritten(o, c, enable, clock_lock, fail)
        \in {refused, AbortSwitch(refused), direct, StartSwitch(m, c)}
  BY DEF LowWritten
<1>2. a \in BOOLEAN /\ b \in BOOLEAN
  OBVIOUS
<1> HIDE DEF a, b
<1>3. written \in OscillatorValue /\ written.events = o.events
  BY <1>2 DEF OscillatorValue
<1> HIDE DEF written
<1>4. refused \in OscillatorValue /\ refused.events = o.events
  BY <1>3 DEF OscillatorValue
<1>5. direct.events = o.events
  BY <1>3 DEF Superseded, OscillatorValue
<1>6. m.events = o.events
  BY <1>3, AbortSwitchLater
<1>7. m \in OscillatorValue
  BY <1>3, AbortSwitchLater
<1> HIDE DEF refused, direct, m
<1> QED BY <1>1, <1>4, <1>5, <1>6, <1>7, AbortSwitchLater, StartSwitchLater DEF Later

LEMMA ClockConfigurationLater ==
  ASSUME NEW o \in OscillatorValue, Later(o), NEW c, NEW register
  PROVE  Later(ClockConfigurationWritten(o, c, register))
<1> DEFINE ready == o.active /\ o.source_ready
           pends == ready \/ ~o.active
           s == Superseded(o)
           m == [s EXCEPT !.lock_pending = pends, !.source_ready = ready, !.lock = FALSE]
<1>1. ready \in BOOLEAN /\ pends \in BOOLEAN
  OBVIOUS
<1>2. ClockConfigurationWritten(o, c, register)
        \in {o, Scheduled(m, "LOCK", SwitchDelay), Readying(m, c)}
  BY DEF ClockConfigurationWritten, RestartLock
<1>3. s \in OscillatorValue /\ s.events = o.events
  BY SameEvents
<1> HIDE DEF ready, pends, s
<1>4. m \in OscillatorValue /\ m.events = o.events
  BY <1>1, <1>3 DEF OscillatorValue
<1>5. SwitchDelay \in Nat /\ SwitchDelay >= 1
  BY OscillatorAssumption DEF OscillatorAssumption
<1> HIDE DEF m
<1> QED BY <1>2, <1>4, <1>5, ScheduledLater, ReadyingLater DEF Later

LEMMA OverdueStep ==
  ASSUME TypeInv, MachineInv', [Next]_vars
  PROVE  NothingOverdue'
<1>1. osc \in OscillatorValue /\ Sound(osc, config) /\ nvm \in NvmRecord
  BY DEF TypeInv, ClockInv, MachineInv, Sound
<1>2. ASSUME AtBoundary PROVE Later(osc) /\ (nvm.active => nvm.left >= 1)
  <2>1. ASSUME NEW e \in osc.events PROVE e.left >= 1
    <3>1. e.left \in 0 .. SwitchDelay /\ e.left # 0
      BY <1>1, <1>2 DEF OscillatorValue, Event, AtBoundary, DueEvents
    <3>2. SwitchDelay \in Nat
      BY OscillatorAssumption DEF OscillatorAssumption
    <3> QED BY <3>1, <3>2
  <2>2. nvm.active => nvm.left \in 0 .. NvmDelay /\ nvm.left # 0
    BY <1>1, <1>2 DEF AtBoundary, NvmDue, NvmRecord
  <2>3. NvmDelay \in Nat
    BY ClockResetAssumption DEF ClockResetAssumption
  <2> QED BY <2>1, <2>2, <2>3 DEF Later
<1>3. NvmKeyAfter.active = nvm.active /\ NvmKeyAfter.left = nvm.left
  BY <1>1 DEF NvmKeyAfter, NvmRecord
<1>4. ASSUME ~clocked' PROVE NothingOverdue'
  BY <1>4 DEF NothingOverdue
<1>5. ASSUME AtBoundary, Later(osc)', nvm'.active = nvm.active, nvm'.left = nvm.left
      PROVE  NothingOverdue'
  BY <1>2, <1>5 DEF NothingOverdue
<1>6. CASE \/ Other \/ EnableWatchdog \/ Stall \/ HostAdvance
           \/ \E lane \in {"low", "high"} : WriteKey(lane)
  <2>1. AtBoundary /\ osc' = osc /\ nvm' \in {nvm, NvmKeyAfter}
    BY <1>6 DEF Other, EnableWatchdog, Stall, HostAdvance, WriteKey, Instruction, Executes
  <2> QED BY <1>2, <1>3, <1>5, <2>1 DEF Later
<1>7. CASE Exception \/ \E value \in {"55", "AA", "other"} : WriteNvmKey(value)
  <2>1. AtBoundary /\ osc' = osc /\ \E stage : nvm' = [nvm EXCEPT !.key_stage = stage]
    BY <1>7 DEF Exception, WriteNvmKey, Instruction, Executes
  <2>2. nvm'.active = nvm.active /\ nvm'.left = nvm.left
    BY <1>1, <2>1 DEF NvmRecord
  <2> QED BY <1>2, <1>5, <2>1, <2>2 DEF Later
<1>8. CASE \E source \in Sources : WriteHigh(source)
  <2>1. PICK source \in Sources : WriteHigh(source)
    BY <1>8
  <2>2. AtBoundary /\ osc' = HighWritten(osc, config, source) /\ nvm' = NvmKeyAfter
    BY <2>1 DEF WriteHigh, Unlocked, Instruction, Executes, ClockBecomes
  <2>3. osc'.events = osc.events
    BY <1>1, <2>2, HighWrittenLater
  <2> QED BY <1>2, <1>3, <1>5, <2>2, <2>3 DEF Later
<1>9. CASE \E enable, clock_lock, fail \in BOOLEAN : WriteLow(enable, clock_lock, fail)
  <2>1. PICK enable, clock_lock, fail \in BOOLEAN : WriteLow(enable, clock_lock, fail)
    BY <1>9
  <2>2. /\ AtBoundary /\ nvm' = NvmKeyAfter
        /\ osc' = LowWritten(osc, config, enable, clock_lock, fail)
    BY <2>1 DEF WriteLow, Unlocked, Instruction, Executes, ClockBecomes
  <2>3. Later(osc')
    BY <1>1, <1>2, <2>2, LowWrittenLater
  <2> QED BY <1>3, <1>5, <2>2, <2>3
<1>10. CASE \E register \in {"pll", "frc"} : WriteClockConfiguration(register)
  <2>1. PICK register \in {"pll", "frc"} : WriteClockConfiguration(register)
    BY <1>10
  <2>2. /\ AtBoundary /\ nvm' = NvmKeyAfter
        /\ osc' = ClockConfigurationWritten(osc, config, register)
    BY <2>1 DEF WriteClockConfiguration, Instruction, Executes
  <2>3. Later(osc')
    BY <1>1, <1>2, <2>2, ClockConfigurationLater
  <2> QED BY <1>3, <1>5, <2>2, <2>3
<1>11. CASE \E target \in Configurations, stalls \in BOOLEAN : StartNvm(target, stalls)
  <2>1. PICK target \in Configurations, stalls \in BOOLEAN : StartNvm(target, stalls)
    BY <1>11
  <2>2. AtBoundary /\ osc' = osc
        /\ nvm' = IF nvm.active \/ nvm.key_stage # 2 THEN NvmKeyAfter
                  ELSE [NoOperation EXCEPT !.active = TRUE, !.left = NvmDelay,
                                           !.target = target, !.stalls = stalls]
    BY <2>1 DEF StartNvm, Instruction, Executes
  <2>3. NvmDelay \in Nat /\ NvmDelay >= 1
    BY ClockResetAssumption DEF ClockResetAssumption
  <2>4. nvm'.active => nvm'.left >= 1
    BY <1>2, <1>3, <2>2, <2>3 DEF NoOperation
  <2> QED BY <1>2, <2>2, <2>4 DEF NothingOverdue, Later
<1>12. CASE Sleep
  <2>1. AtBoundary /\ nvm' = NvmKeyAfter /\ osc' \in {osc, Abort(osc)}
    BY <1>12 DEF Sleep, Instruction, Executes, ClockBecomes
  <2>2. osc'.events = osc.events
    BY <1>1, <2>1, AbortLater
  <2> QED BY <1>2, <1>3, <1>5, <2>1, <2>2 DEF Later
\* A reset that is put off keeps the operation, and one that is not has none.
<1>13. ASSUME AtBoundary, (\E why : Reset(why)) \/ TimedOut PROVE NothingOverdue'
  <2>1. CASE osc' = osc /\ nvm'.active = nvm.active /\ nvm'.left = nvm.left
    BY <1>2, <1>13, <2>1 DEF NothingOverdue, Later
  <2>2. CASE osc' = Kept(osc) /\ nvm' = NoOperation
    <3>1. osc'.events \subseteq osc.events
      BY <1>1, <2>2, KeptSound
    <3> QED BY <1>2, <1>13, <2>2, <3>1 DEF NothingOverdue, Later, NoOperation
  <2>3. \/ osc' = osc /\ nvm'.active = nvm.active /\ nvm'.left = nvm.left
        \/ osc' = Kept(osc) /\ nvm' = NoOperation
    BY <1>1, <1>13 DEF Reset, TimedOut, Deferred, Restarted, NvmRecord
  <2> QED BY <2>1, <2>2, <2>3
<1>14. CASE ClearWatchdog
  <2>1. AtBoundary
    BY <1>14 DEF ClearWatchdog, Executes
  <2>2. CASE TooEarly(config)
    BY <1>13, <1>14, <2>1, <2>2 DEF ClearWatchdog
  <2>3. CASE ~TooEarly(config)
    BY <1>2, <1>3, <1>5, <1>14, <2>1, <2>3 DEF ClearWatchdog, Later
  <2> QED BY <2>2, <2>3
<1>15. CASE ResetInstruction
  BY <1>13, <1>15 DEF ResetInstruction, Executes
<1>16. CASE Tick
  BY <1>4, <1>16 DEF Tick
<1>17. CASE CompleteOscillatorEvent \/ CompleteNvm
  BY <1>4, <1>17 DEF CompleteOscillatorEvent, CompleteNvm
<1>18. CASE HostReset \/ BrownOutReset \/ PowerOnReset \/ WatchdogTick \/ Wake \/ ClockFails
  BY <1>4, <1>18
     DEF HostReset, BrownOutReset, PowerOnReset, WatchdogTick, Wake, ClockFails, Powered, AtBoundary
<1>19. CASE UNCHANGED vars
  BY <1>19 DEF vars, TypeInv, NothingOverdue, Later
<1> QED BY <1>6, <1>7, <1>8, <1>9, <1>10, <1>11, <1>12, <1>14, <1>15, <1>16, <1>17, <1>18, <1>19
        DEF Next, Firmware, Clock, Host
-----------------------------------------------------------------------------
(***************************************************************************)
(* What was put off during an operation.  The history agrees with what the *)
(* code keeps of it: the first warm reset and a flag of the watchdog.      *)
(***************************************************************************)
PutOffInv ==
    /\ asked \in Seq(WarmCauses \union {"WDTO"})
    /\ ~nvm.active => nvm.pending = None /\ ~watchdog.pending /\ asked = <<>>
    /\ nvm.pending = None <=> \A i \in DOMAIN asked : asked[i] = "WDTO"
    /\ nvm.pending # None => \E i \in DOMAIN asked : FirstWarm(i) /\ asked[i] = nvm.pending
    /\ watchdog.pending <=> \E i \in DOMAIN asked : asked[i] = "WDTO"

LEMMA EmptyOrFirst ==
  ASSUME NEW S, NEW q \in Seq(S)
  PROVE  q = <<>> <=> ~ \E i \in DOMAIN q : TRUE
<1>1. DOMAIN q = 1 .. Len(q) /\ Len(q) \in Nat /\ (q = <<>> <=> Len(q) = 0)
  BY EmptySeq, LenProperties
<1>2. Len(q) # 0 => 1 \in DOMAIN q
  BY <1>1
<1> QED BY <1>1, <1>2

LEMMA CausesDiffer == None \notin WarmCauses /\ "WDTO" \notin WarmCauses /\ None # "WDTO"
BY ClockResetAssumption DEF ClockResetAssumption, None

\* A reset is noted once, after what was asked for before it.
Continues(noted, why) ==
    /\ noted \in Seq(WarmCauses \union {"WDTO"})
    /\ DOMAIN asked \subseteq DOMAIN noted
    /\ \A i \in DOMAIN asked : noted[i] = asked[i]
    /\ \A i \in DOMAIN noted : i \in DOMAIN asked \/ noted[i] = why
    /\ \E i \in DOMAIN noted : noted[i] = why /\ (i \in DOMAIN asked \/ i = Len(asked) + 1)

LEMMA NotedAppends ==
  ASSUME PutOffInv, NEW why \in WarmCauses \union {"WDTO"}
  PROVE  Continues(Noted(why), why)
<1>1. asked \in Seq(WarmCauses \union {"WDTO"})
  BY DEF PutOffInv
<1>2. CASE \E i \in DOMAIN asked : asked[i] = why
  BY <1>1, <1>2 DEF Noted, Continues
<1>3. CASE ~ \E i \in DOMAIN asked : asked[i] = why
  <2>1. Noted(why) = Append(asked, why)
    BY <1>3 DEF Noted
  <2>2. /\ Append(asked, why) \in Seq(WarmCauses \union {"WDTO"})
        /\ Len(Append(asked, why)) = Len(asked) + 1
        /\ \A i \in 1 .. Len(asked) : Append(asked, why)[i] = asked[i]
        /\ Append(asked, why)[Len(asked) + 1] = why
    BY <1>1, AppendProperties
  <2>3. /\ DOMAIN asked = 1 .. Len(asked) /\ Len(asked) \in Nat
        /\ DOMAIN Append(asked, why) = 1 .. Len(asked) + 1
    BY <1>1, <2>2
  <2> QED BY <2>1, <2>2, <2>3 DEF Continues
<1> QED BY <1>2, <1>3

LEMMA DeferredNoted ==
  ASSUME PutOffInv, nvm \in NvmRecord, nvm.active, NEW why \in WarmCauses, Deferred(why)
  PROVE  PutOffInv'
<1>1. asked' = Noted(why) /\ nvm'.pending = Recorded(why) /\ nvm'.active
      /\ watchdog' = watchdog
  BY DEF Deferred, NvmRecord
<1>2. why # None /\ why # "WDTO" /\ None # "WDTO"
  BY CausesDiffer
<1>3. asked \in Seq(WarmCauses \union {"WDTO"}) /\ DOMAIN asked = 1 .. Len(asked)
      /\ Len(asked) \in Nat
  BY DEF PutOffInv
<1>4. /\ asked' \in Seq(WarmCauses \union {"WDTO"})
      /\ DOMAIN asked \subseteq DOMAIN asked'
      /\ \A i \in DOMAIN asked : asked'[i] = asked[i]
      /\ \A i \in DOMAIN asked' : i \in DOMAIN asked \/ asked'[i] = why
      /\ \E i \in DOMAIN asked' : asked'[i] = why /\ (i \in DOMAIN asked \/ i = Len(asked) + 1)
  <2>1. Continues(Noted(why), why)
    BY NotedAppends
  <2>2. Continues(asked', why)
    BY <1>1, <2>1
  <2> QED BY <2>2 DEF Continues
<1>5. watchdog'.pending <=> \E i \in DOMAIN asked' : asked'[i] = "WDTO"
  BY <1>1, <1>2, <1>4 DEF PutOffInv
<1>6. nvm'.pending # None /\ ~ \A i \in DOMAIN asked' : asked'[i] = "WDTO"
  BY <1>1, <1>2, <1>4 DEF Recorded
<1>7. \E i \in DOMAIN asked' : FirstWarm(i)' /\ asked'[i] = nvm'.pending
  <2>1. CASE nvm.pending = None
    <3>1. \A i \in DOMAIN asked : asked[i] = "WDTO"
      BY <2>1 DEF PutOffInv
    <3>2. PICK i \in DOMAIN asked' : asked'[i] = why /\ (i \in DOMAIN asked \/ i = Len(asked) + 1)
      BY <1>4
    <3>3. i = Len(asked) + 1
      BY <1>2, <1>4, <3>1, <3>2
    <3>4. \A j \in 1 .. i - 1 : asked'[j] = "WDTO"
      BY <1>3, <1>4, <3>1, <3>3
    <3> QED BY <1>1, <1>2, <2>1, <3>2, <3>4 DEF FirstWarm, Recorded
  <2>2. CASE nvm.pending # None
    <3>1. PICK i \in DOMAIN asked : FirstWarm(i) /\ asked[i] = nvm.pending
      BY <2>2 DEF PutOffInv
    <3>2. \A j \in 1 .. i - 1 : j \in DOMAIN asked
      BY <1>3, <3>1
    <3>3. FirstWarm(i)'
      BY <1>4, <3>1, <3>2 DEF FirstWarm
    <3> QED BY <1>1, <1>4, <2>2, <3>1, <3>3 DEF Recorded
  <2> QED BY <2>1, <2>2
<1> QED BY <1>1, <1>4, <1>5, <1>6, <1>7 DEF PutOffInv

LEMMA TimeoutNoted ==
  ASSUME PutOffInv, nvm.active, nvm' = nvm, asked' = Noted("WDTO"), watchdog'.pending
  PROVE  PutOffInv'
<1>1. asked \in Seq(WarmCauses \union {"WDTO"}) /\ DOMAIN asked = 1 .. Len(asked)
      /\ Len(asked) \in Nat
  BY DEF PutOffInv
<1>2. /\ asked' \in Seq(WarmCauses \union {"WDTO"})
      /\ DOMAIN asked \subseteq DOMAIN asked'
      /\ \A i \in DOMAIN asked : asked'[i] = asked[i]
      /\ \A i \in DOMAIN asked' : i \in DOMAIN asked \/ asked'[i] = "WDTO"
      /\ \E i \in DOMAIN asked' : asked'[i] = "WDTO"
  <2>1. Continues(Noted("WDTO"), "WDTO")
    BY NotedAppends
  <2>2. Continues(asked', "WDTO")
    BY <2>1
  <2> QED BY <2>2 DEF Continues
<1>3. nvm'.pending = None <=> \A i \in DOMAIN asked' : asked'[i] = "WDTO"
  BY <1>2 DEF PutOffInv
<1>4. nvm'.pending # None => \E i \in DOMAIN asked' : FirstWarm(i)' /\ asked'[i] = nvm'.pending
  <2> SUFFICES ASSUME nvm.pending # None
               PROVE  \E i \in DOMAIN asked' : FirstWarm(i)' /\ asked'[i] = nvm.pending
    OBVIOUS
  <2>1. PICK i \in DOMAIN asked : FirstWarm(i) /\ asked[i] = nvm.pending
    BY DEF PutOffInv
  <2>2. \A j \in 1 .. i - 1 : j \in DOMAIN asked
    BY <1>1, <2>1
  <2>3. FirstWarm(i)'
    BY <1>2, <2>1, <2>2 DEF FirstWarm
  <2> QED BY <1>2, <2>1, <2>3
<1> QED BY <1>2, <1>3, <1>4 DEF PutOffInv

\* Nothing is put off when no operation is under way.
LEMMA NothingPutOff ==
  ASSUME ~nvm'.active, nvm'.pending = None, ~watchdog'.pending, asked' = <<>>
  PROVE  PutOffInv'
BY DEF PutOffInv

LEMMA ResetsNoted ==
  ASSUME PutOffInv, MachineInv, (\E why \in WarmCauses : Reset(why)) \/ TimedOut
  PROVE  PutOffInv'
<1>1. nvm \in NvmRecord
  BY DEF MachineInv
<1>2. ASSUME NEW why, NEW clock, Restarted(why, clock) PROVE PutOffInv'
  BY <1>2, NothingPutOff DEF Restarted, NoOperation
<1>3. CASE \E why \in WarmCauses : Reset(why)
  BY <1>1, <1>2, <1>3, DeferredNoted DEF Reset
<1>4. CASE TimedOut
  <2>1. CASE power # "active"
    <3>1. UNCHANGED <<nvm, asked>> /\ watchdog' = [watchdog EXCEPT !.ticks = 0]
      BY <1>4, <2>1 DEF TimedOut
    <3>2. watchdog'.pending = watchdog.pending
      BY <3>1 DEF MachineInv
    <3> QED BY <3>1, <3>2 DEF PutOffInv, FirstWarm
  <2>2. CASE power = "active" /\ nvm.active
    <3>1. /\ nvm' = nvm /\ asked' = Noted("WDTO")
          /\ watchdog' = [watchdog EXCEPT !.ticks = 0, !.pending = TRUE]
      BY <1>4, <2>2 DEF TimedOut
    <3>2. watchdog'.pending
      BY <3>1 DEF MachineInv
    <3> QED BY <2>2, <3>1, <3>2, TimeoutNoted
  <2>3. CASE power = "active" /\ ~nvm.active
    BY <1>2, <1>4, <2>3 DEF TimedOut
  <2> QED BY <2>1, <2>2, <2>3
<1> QED BY <1>3, <1>4

LEMMA PutOffStep ==
  ASSUME PutOffInv, MachineInv, [Next]_vars
  PROVE  PutOffInv'
<1>1. nvm \in NvmRecord /\ watchdog \in [ticks : 0 .. Period - 1, pending : BOOLEAN, software : BOOLEAN]
  BY DEF MachineInv
<1>2. ASSUME asked' = asked, nvm'.active = nvm.active, nvm'.pending = nvm.pending,
             watchdog'.pending = watchdog.pending
      PROVE  PutOffInv'
  BY <1>2 DEF PutOffInv, FirstWarm
<1>3. NvmKeyAfter.active = nvm.active /\ NvmKeyAfter.pending = nvm.pending
  BY <1>1 DEF NvmKeyAfter, NvmRecord
<1>4. ASSUME NEW stage PROVE [nvm EXCEPT !.key_stage = stage].active = nvm.active
                             /\ [nvm EXCEPT !.key_stage = stage].pending = nvm.pending
  BY <1>1 DEF NvmRecord
<1>5. ASSUME NEW ticks PROVE [watchdog EXCEPT !.ticks = ticks].pending = watchdog.pending
  BY <1>1
<1>6. CASE \/ Other \/ Exception \/ Stall \/ HostAdvance \/ ClockFails \/ UNCHANGED vars
           \/ \E lane \in {"low", "high"} : WriteKey(lane)
           \/ \E value \in {"55", "AA", "other"} : WriteNvmKey(value)
  <2>1. asked' = asked /\ watchdog' = watchdog
        /\ (nvm' \in {nvm, NvmKeyAfter} \/ \E stage : nvm' = [nvm EXCEPT !.key_stage = stage])
    BY <1>6 DEF Other, Exception, Stall, HostAdvance, ClockFails, vars, WriteKey, WriteNvmKey
  <2> QED BY <1>2, <1>3, <1>4, <2>1
<1>7. CASE \/ \E source \in Sources : WriteHigh(source)
           \/ \E enable, clock_lock, fail \in BOOLEAN : WriteLow(enable, clock_lock, fail)
           \/ \E register \in {"pll", "frc"} : WriteClockConfiguration(register)
  <2>1. asked' = asked /\ watchdog' = watchdog /\ nvm' = NvmKeyAfter
    BY <1>7 DEF WriteHigh, WriteLow, Unlocked, WriteClockConfiguration
  <2> QED BY <1>2, <1>3, <2>1
<1>8. CASE Sleep \/ Wake \/ EnableWatchdog
  <2>1. asked' = asked /\ nvm' \in {nvm, NvmKeyAfter}
    BY <1>8 DEF Sleep, Wake, EnableWatchdog
  <2>2. watchdog'.pending = watchdog.pending
    BY <1>1, <1>8 DEF Sleep, Wake, EnableWatchdog
  <2> QED BY <1>2, <1>3, <2>1, <2>2
<1>9. CASE \E target \in Configurations, stalls \in BOOLEAN : StartNvm(target, stalls)
  <2>1. PICK target \in Configurations, stalls \in BOOLEAN : StartNvm(target, stalls)
    BY <1>9
  <2>2. CASE nvm.active
    BY <1>2, <1>3, <2>1, <2>2 DEF StartNvm
  <2>3. CASE ~nvm.active
    <3>1. asked' = <<>> /\ watchdog' = watchdog /\ ~watchdog.pending /\ nvm.pending = None
      BY <2>1, <2>3 DEF StartNvm, PutOffInv
    <3>2. nvm'.pending = None
      BY <1>3, <2>1, <3>1 DEF StartNvm, NoOperation
    <3> QED BY <3>1, <3>2 DEF PutOffInv
  <2> QED BY <2>2, <2>3
<1>10. CASE ClearWatchdog
  <2>1. CASE TooEarly(config)
    BY <1>10, <2>1, ResetsNoted DEF ClearWatchdog
  <2>2. CASE ~TooEarly(config)
    BY <1>2, <1>3, <1>5, <1>10, <2>2 DEF ClearWatchdog
  <2> QED BY <2>1, <2>2
<1>11. CASE ResetInstruction \/ HostReset
  BY <1>11, ResetsNoted DEF ResetInstruction, HostReset
<1>12. CASE Tick
  <2>1. nvm'.active = nvm.active /\ nvm'.pending = nvm.pending
    BY <1>1, <1>12 DEF Tick, NvmRecord
  <2> QED BY <1>2, <1>12, <2>1 DEF Tick
<1>13. CASE CompleteOscillatorEvent
  BY <1>2, <1>5, <1>13 DEF CompleteOscillatorEvent
<1>14. CASE CompleteNvm
  <2>1. CASE Performed # None
    BY <1>14, <2>1, NothingPutOff DEF CompleteNvm, Restarted, NoOperation
  <2>2. CASE Performed = None
    <3>1. nvm.pending = None /\ ~watchdog.pending
      BY <2>2, CausesDiffer DEF Performed
    <3>2. asked = <<>>
      <4>1. ~ \E i \in DOMAIN asked : TRUE
        BY <3>1 DEF PutOffInv
      <4>2. asked \in Seq(WarmCauses \union {"WDTO"})
        BY DEF PutOffInv
      <4> QED BY <4>1, <4>2, EmptyOrFirst
    <3>3. asked' = asked /\ nvm' = [nvm EXCEPT !.active = FALSE]
          /\ watchdog' \in {watchdog, [watchdog EXCEPT !.ticks = 0]}
      BY <1>14, <2>2 DEF CompleteNvm
    <3>4. ~nvm'.active /\ nvm'.pending = None /\ ~watchdog'.pending
      BY <1>1, <1>5, <3>1, <3>3 DEF NvmRecord
    <3> QED BY <3>2, <3>3, <3>4, NothingPutOff
  <2> QED BY <2>1, <2>2
<1>15. CASE BrownOutReset \/ PowerOnReset
  BY <1>15, NothingPutOff DEF BrownOutReset, PowerOnReset, Powered, NoOperation
<1>16. CASE WatchdogTick
  <2>1. CASE TimedOut
    BY <2>1, ResetsNoted
  <2>2. CASE ~TimedOut
    BY <1>2, <1>5, <1>16, <2>2 DEF WatchdogTick
  <2> QED BY <2>1, <2>2
<1> QED BY <1>6, <1>7, <1>8, <1>9, <1>10, <1>11, <1>12, <1>13, <1>14, <1>15, <1>16
        DEF Next, Firmware, Clock, Host
-----------------------------------------------------------------------------
IInv == TypeInv /\ PutOffInv

LEMMA InitInv == Init => IInv
<1> SUFFICES ASSUME Init PROVE IInv
  OBVIOUS
<1>1. /\ Initially \in Configurations /\ Initially.startup \in Sources
      /\ 0 \in 0 .. Period - 1 /\ 0 \in 0 .. NvmDelay /\ SwitchDelay \in 0 .. SwitchDelay
  BY ClockResetAssumption, OscillatorAssumption
     DEF ClockResetAssumption, OscillatorAssumption
<1>2. ClockInv
  BY <1>1, PowerOnSound DEF Init, ClockInv
<1>3. nvm \in NvmRecord
  BY <1>1 DEF Init, NoOperation, NvmRecord
<1>4. MachineInv
  <2>1. /\ NoKey \in [lane : {"low", "high"}, stage : 0 .. 2]
        /\ [wr |-> FALSE, wrerr |-> FALSE] \in [wr : BOOLEAN, wrerr : BOOLEAN]
    BY DEF NoKey
  <2>2. watchdog \in [ticks : 0 .. Period - 1, pending : BOOLEAN, software : BOOLEAN]
    BY <1>1 DEF Init
  <2> QED BY <1>3, <2>1, <2>2 DEF Init, MachineInv
<1>5. NothingOverdue
  BY DEF Init, NothingOverdue
<1>6. PutOffInv
  BY DEF Init, NoOperation, PutOffInv
<1> QED BY <1>2, <1>4, <1>5, <1>6 DEF IInv, TypeInv

LEMMA StepInv == IInv /\ [Next]_vars => IInv'
<1> SUFFICES ASSUME IInv, [Next]_vars PROVE IInv'
  OBVIOUS
<1>1. ClockInv /\ MachineInv /\ NothingOverdue /\ PutOffInv /\ nvm \in NvmRecord
  BY DEF IInv, TypeInv, MachineInv
<1>2. ClockInv'
  BY <1>1, ClockStep
<1>3. MachineInv'
  BY <1>1, MachineStep
<1>4. NothingOverdue'
  BY <1>1, <1>3, OverdueStep DEF TypeInv
<1>5. PutOffInv'
  BY <1>1, PutOffStep
<1> QED BY <1>2, <1>3, <1>4, <1>5 DEF IInv, TypeInv

LEMMA AlwaysInv == Spec => []IInv
BY InitInv, StepInv, PTL DEF Spec

\* The registers, the operation, the watchdog and the clock have their types at
\* every step: no event waits longer than its delay or is of a generation to
\* come, and the watchdog never reaches its period without a timeout.
THEOREM ClockTyped == Spec => []TypeOK
<1>1. IInv => TypeOK
  <2> SUFFICES ASSUME IInv PROVE TypeOK
    OBVIOUS
  <2>1. Sound(osc, config) /\ config \in Configurations /\ steady \in 0 .. SwitchDelay
        /\ MachineInv
    BY DEF IInv, TypeInv, ClockInv
  <2>2. OscillatorType
    BY <2>1 DEF OscillatorType, Sound, OscillatorValue, Event
  <2> QED BY <2>1, <2>2 DEF TypeOK, MachineInv, NvmRecord
<1> QED BY <1>1, AlwaysInv, PTL

\* A switch or a lock under way has exactly the event that will end it, whatever
\* the program writes or programs and whatever is reset meanwhile.
THEOREM NoSwitchStranded == Spec => []NothingStranded
<1>1. IInv => NothingStranded
  <2> SUFFICES ASSUME IInv PROVE NothingStranded
    OBVIOUS
  <2>1. Sound(osc, config)
    BY DEF IInv, TypeInv, ClockInv
  <2>2. Cardinality(Live(osc)) <= 1
    <3>1. CASE Live(osc) = {}
      BY <3>1, FS_EmptySet
    <3>2. CASE Live(osc) # {}
      <4>1. PICK e : e \in Live(osc)
        BY <3>2
      <4>2. Live(osc) = {e}
        BY <2>1, <4>1 DEF Sound
      <4> QED BY <4>2, FS_Singleton
    <3> QED BY <3>1, <3>2
  <2> QED BY <2>1, <2>2 DEF NothingStranded, Sound, SwitchComes, LockComes
<1> QED BY <1>1, AlwaysInv, PTL

\* LOCK is never reported for a PLL that was switched, written or programmed
\* less than its time ago, by an event of now or of before.
THEOREM LockIsHonest == Spec => []LockHonest
<1>1. IInv => LockHonest
  BY DEF IInv, TypeInv, ClockInv, Sound, Timed, LockHonest
<1> QED BY <1>1, AlwaysInv, PTL

\* The end of an operation performs the first warm reset that was asked for
\* during it, else the watchdog's, and interrupts only when there was none.
THEOREM ResetsDeferred == Spec => DeferredResets
<1> DEFINE Performs == ended # ended' /\ ended' # None
                       => /\ ended' = Owed
                          /\ ended' # "interrupt"
                             => cause' = Owed /\ power' = "active" /\ ~watchdog'.pending
<1>1. ASSUME IInv, [Next]_vars PROVE [Performs]_vars
  <2> SUFFICES ASSUME ended # ended', ended' # None PROVE Performs
    OBVIOUS
  <2>1. CompleteNvm
    BY <1>1 DEF Next, Firmware, Clock, Host, vars, Other, Exception, Sleep, ClearWatchdog,
         EnableWatchdog, ResetInstruction, WriteKey, WriteHigh, WriteLow, Unlocked,
         WriteClockConfiguration, WriteNvmKey, StartNvm, Stall, Tick, CompleteOscillatorEvent,
         HostReset, BrownOutReset, PowerOnReset, Powered, WatchdogTick, Wake, HostAdvance,
         ClockFails
  <2>2. PutOffInv /\ nvm.pending \in {None} \union WarmCauses
    BY <1>1 DEF IInv, TypeInv, MachineInv, NvmRecord
  <2>3. "interrupt" \notin WarmCauses /\ None # "interrupt"
    BY ClockResetAssumption DEF ClockResetAssumption, None
  <2>4. Owed = IF Performed = None THEN "interrupt" ELSE Performed
    <3>1. CASE nvm.pending # None
      <4>1. PICK i \in DOMAIN asked : FirstWarm(i) /\ asked[i] = nvm.pending
        BY <2>2, <3>1 DEF PutOffInv
      <4>2. asked \in Seq(WarmCauses \union {"WDTO"}) /\ DOMAIN asked = 1 .. Len(asked)
            /\ Len(asked) \in Nat
        BY <2>2 DEF PutOffInv
      <4>3. ASSUME NEW j \in DOMAIN asked, FirstWarm(j) PROVE j = i
        BY <4>1, <4>2, <4>3 DEF FirstWarm
      <4>4. (CHOOSE j \in DOMAIN asked : FirstWarm(j)) = i
        BY <4>1, <4>3
      <4>5. Owed = nvm.pending
        BY <4>1, <4>4 DEF Owed
      <4> QED BY <3>1, <4>5 DEF Performed
    <3>2. CASE nvm.pending = None
      <4>1. \A i \in DOMAIN asked : asked[i] = "WDTO"
        BY <2>2, <3>2 DEF PutOffInv
      <4>2. ~ \E i \in DOMAIN asked : FirstWarm(i)
        BY <4>1 DEF FirstWarm
      <4>3. asked # <<>> <=> watchdog.pending
        <5>1. asked \in Seq(WarmCauses \union {"WDTO"})
          BY <2>2 DEF PutOffInv
        <5>2. asked # <<>> <=> \E i \in DOMAIN asked : TRUE
          BY <5>1, EmptyOrFirst
        <5> QED BY <2>2, <4>1, <5>2 DEF PutOffInv
      <4> QED BY <3>2, <4>2, <4>3, CausesDiffer DEF Owed, Performed
    <3> QED BY <3>1, <3>2
  <2>5. ended' = Owed
    BY <2>1, <2>4 DEF CompleteNvm
  <2>6. ASSUME ended' # "interrupt" PROVE cause' = Owed /\ power' = "active" /\ ~watchdog'.pending
    <3>1. Performed # None
      BY <2>1, <2>6 DEF CompleteNvm
    <3> QED BY <2>1, <2>4, <3>1 DEF CompleteNvm, Restarted
  <2> QED BY <2>5, <2>6
<1> QED BY <1>1, AlwaysInv, PTL DEF Spec, DeferredResets
=============================================================================
