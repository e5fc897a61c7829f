------------------------------ MODULE CrcProofs ------------------------------
(***************************************************************************)
(* Proofs about the CRC generator of Crc, for all capacities, bits a cycle *)
(* and settings:                                                           *)
(*   CrcEventsAgree   EventsAgree                                          *)
(*   WordsFit         the FIFO and the data keep to their sizes            *)
(* The functions of Crc are composed in different orders by its actions,   *)
(* so their lemmas speak of any value c of the generator: Held is what     *)
(* every value on the way has, Sound what the ends of handlers have, and   *)
(* Going that nothing waits.  The shift register is the result of a fold   *)
(* and may be anything here.                                               *)
(***************************************************************************)
EXTENDS Crc, SequenceTheorems, TLAPS
-----------------------------------------------------------------------------
Event == [kind : {"crc", "pmd"}, generation : Nat, left : 0 .. 1, disabled : BOOLEAN]
Bits == {0, 1}
Word(setting) == [1 .. setting.width -> Bits]

Fields == {"setting", "on", "go", "fifo", "latch", "shift", "data", "active", "generation", "power",
           "ran", "off", "disabled", "pmd_generation", "events", "raised", "written", "changes",
           "seed", "words"}

\* A generator, of which the shift register and the history may be anything.
Shape(c) ==
    /\ DOMAIN c = Fields /\ c = [field \in Fields |-> c[field]]
    /\ c.setting \in Settings /\ c.power \in {"active", "idle", "sleep"}
    /\ {c.on, c.go, c.active, c.ran, c.off, c.disabled, c.raised} \subseteq BOOLEAN
    /\ {c.generation, c.pmd_generation, c.written, c.changes} \subseteq Nat
    /\ c.events \in SUBSET Event

Typed(c) ==
    /\ Shape(c)
    /\ c.fifo \in Seq(Word(c.setting)) /\ Len(c.fifo) <= Capacity
    /\ c.latch \in [1 .. c.setting.low -> Bits]
    /\ c.data \in Seq(Bits) /\ Len(c.data) < c.setting.width

\* Events that are not abandoned.
Live(c) == {e \in c.events : e.kind = "crc" /\ e.generation = c.generation}
LivePmd(c) == {e \in c.events : e.kind = "pmd" /\ e.generation = c.pmd_generation}

\* No event is of a generation to come, and PMD is in effect or on its way.
Numbered(c) ==
    /\ Typed(c)
    /\ \A e \in c.events : e.generation <= IF e.kind = "crc" THEN c.generation ELSE c.pmd_generation
    /\ \A e \in LivePmd(c) : e.disabled = c.off
    /\ c.disabled = c.off \/ LivePmd(c) # {}

\* What holds in the middle of a handler, too.
Held(c) == Numbered(c) /\ (~c.on => ~c.go /\ c.fifo = <<>>)

\* A generator that is running has one event and something to do.
Sound(c) ==
    /\ Held(c)
    /\ \A e, f \in Live(c) : e = f
    /\ c.active <=> Live(c) # {}
    /\ c.active => c.on /\ c.go /\ (c.data # <<>> \/ c.fifo # <<>>)
    /\ c.data # <<>> => c.active

\* One that could run does.
Going(c) == c.on /\ c.go /\ c.fifo # <<>> => c.active

IInv == Sound(crc) /\ Going(crc)
-----------------------------------------------------------------------------
\* The queue between the dispatch of an event and what is scheduled next.
LEMMA ScheduleSound ==
    ASSUME NEW c, Held(c), Live(c) = {}, c.on, c.go, c.data # <<>> \/ c.fifo # <<>>
    PROVE  Sound(Schedule(c)) /\ Going(Schedule(c))
<1> DEFINE n == Schedule(c)
<1>1. CrcEvent(c) \in Event
  BY DEF CrcEvent, Event, Held, Numbered, Typed, Shape, Fields
<1>2. /\ Typed(n) /\ n.active /\ n.on /\ n.go /\ n.events = c.events \union {CrcEvent(c)}
      /\ n.generation = c.generation /\ n.pmd_generation = c.pmd_generation
      /\ n.off = c.off /\ n.disabled = c.disabled /\ n.data = c.data /\ n.fifo = c.fifo
  BY <1>1 DEF Schedule, Held, Numbered, Typed, Shape, Fields
<1> HIDE DEF n
<1>3. LivePmd(n) = LivePmd(c) /\ Live(n) = {CrcEvent(c)}
  BY <1>2 DEF LivePmd, Live, CrcEvent
<1>4. CrcEvent(c).kind = "crc" /\ CrcEvent(c).generation = c.generation /\ c.generation \in Nat
  BY DEF CrcEvent, Held, Numbered, Typed, Shape, Fields
<1>5. Held(n)
  BY <1>2, <1>3, <1>4 DEF Held, Numbered
<1>6. Sound(n) /\ Going(n)
  BY <1>2, <1>3, <1>5 DEF Sound, Going
<1> QED BY <1>6 DEF n

LEMMA StartSound ==
    ASSUME NEW c, Sound(c)
    PROVE  Sound(StartIfReady(c)) /\ Going(StartIfReady(c))
<1>1. CASE c.on /\ c.go /\ ~c.active /\ c.fifo # <<>>
  BY <1>1, ScheduleSound DEF StartIfReady, Sound
<1>2. CASE ~(c.on /\ c.go /\ ~c.active /\ c.fifo # <<>>)
  BY <1>2 DEF StartIfReady, Going
<1> QED BY <1>1, <1>2

\* A new generation abandons the event there is.
LEMMA Abandoned ==
    ASSUME NEW c, Numbered(c), NEW n, Typed(n), n.generation = c.generation + 1,
           n.events = c.events, n.pmd_generation = c.pmd_generation, n.off = c.off,
           n.disabled = c.disabled, ~n.active, n.data = <<>>, ~n.go, n.on \/ n.fifo = <<>>
    PROVE  Sound(n) /\ Going(n)
<1>1. c.generation \in Nat /\ \A e \in c.events : e.generation \in Nat
  BY DEF Numbered, Typed, Shape, Fields, Event
<1>2. Live(n) = {} /\ LivePmd(n) = LivePmd(c)
  BY <1>1 DEF Live, LivePmd, Numbered
<1>3. Held(n)
  BY <1>1, <1>2 DEF Held, Numbered
<1> QED BY <1>2, <1>3 DEF Sound, Going

LEMMA AbortSound ==
    ASSUME CrcAssumption, NEW c, Numbered(c), ~c.go, c.on
    PROVE  Sound(Abort(c)) /\ Going(Abort(c))
<1> DEFINE none == <<>>
           n == [c EXCEPT !.generation = @ + 1, !.active = FALSE, !.data = none,
                          !.seed = c.shift, !.words = c.fifo]
<1>1. n = Abort(c)
  BY DEF Abort
<1> HIDE DEF none
<1>2. c.setting.width \in Nat \ {0}
  BY DEF Numbered, Typed, Shape, Fields, CrcAssumption
<1>3. <<>> \in Seq(Bits) /\ Len(<<>>) = 0
  BY EmptySeq
<1>4. Shape(c)
  BY DEF Numbered, Typed
<1>5. /\ Shape(n) /\ n.generation = c.generation + 1 /\ n.events = c.events
      /\ n.pmd_generation = c.pmd_generation /\ n.off = c.off /\ n.disabled = c.disabled
      /\ ~n.active /\ n.data = none /\ ~n.go /\ n.on
      /\ n.setting = c.setting /\ n.fifo = c.fifo /\ n.latch = c.latch
  <2>1. /\ n.generation = c.generation + 1 /\ n.events = c.events
        /\ n.pmd_generation = c.pmd_generation /\ n.off = c.off /\ n.disabled = c.disabled
        /\ n.active = FALSE /\ n.data = none /\ n.go = c.go /\ n.on = c.on
        /\ n.setting = c.setting /\ n.fifo = c.fifo /\ n.latch = c.latch
    BY <1>4 DEF Shape, Fields
  <2>2. Shape(n)
    <3>1. DOMAIN n = Fields /\ n = [field \in Fields |-> n[field]]
      BY <1>4 DEF Shape
    <3>2. n.setting \in Settings /\ n.power \in {"active", "idle", "sleep"}
      BY <1>4 DEF Shape, Fields
    <3>3. {n.on, n.go, n.active, n.ran, n.off, n.disabled, n.raised} \subseteq BOOLEAN
      <4>1. /\ n.on = c.on /\ n.go = c.go /\ n.ran = c.ran /\ n.off = c.off
            /\ n.disabled = c.disabled /\ n.raised = c.raised /\ n.active = FALSE
        BY <1>4 DEF Shape, Fields
      <4> HIDE DEF n
      <4> QED BY <1>4, <4>1 DEF Shape
    <3>4. {n.generation, n.pmd_generation, n.written, n.changes} \subseteq Nat
      BY <1>4 DEF Shape, Fields
    <3>5. n.events \in SUBSET Event
      BY <1>4 DEF Shape, Fields
    <3> QED BY <3>1, <3>2, <3>3, <3>4, <3>5 DEF Shape
  <2> QED BY <2>1, <2>2
<1> HIDE DEF n
<1>6. Typed(n)
  BY <1>2, <1>3, <1>5 DEF Numbered, Typed, none
<1>7. Sound(n) /\ Going(n)
  BY <1>5, <1>6, Abandoned DEF none
<1> QED BY <1>1, <1>7

LEMMA ResetSound ==
    ASSUME CrcAssumption, NEW c, Numbered(c)
    PROVE  Sound(ResetRuntime(c)) /\ Going(ResetRuntime(c))
<1> DEFINE none == <<>>
           latch == Zero(c.setting.low)
           shift == Zero(Degree(c))
           n == [c EXCEPT !.fifo = none, !.latch = latch, !.shift = shift, !.data = none,
                          !.active = FALSE, !.generation = @ + 1, !.go = FALSE,
                          !.seed = shift, !.words = none]
<1>1. n = ResetRuntime(c)
  BY DEF ResetRuntime
<1> HIDE DEF none, latch, shift
<1>2. c.setting.width \in Nat \ {0} /\ c.setting.low \in Nat /\ Capacity \in Nat \ {0}
  BY DEF Numbered, Typed, Shape, Fields, CrcAssumption
<1>3. <<>> \in Seq(Bits) /\ <<>> \in Seq(Word(c.setting)) /\ Len(<<>>) = 0
  BY EmptySeq
<1>4. Zero(c.setting.low) \in [1 .. c.setting.low -> Bits]
  BY DEF Zero, Bits
<1>5. Shape(c)
  BY DEF Numbered, Typed
<1>6. /\ Shape(n) /\ n.generation = c.generation + 1 /\ n.events = c.events
      /\ n.pmd_generation = c.pmd_generation /\ n.off = c.off /\ n.disabled = c.disabled
      /\ ~n.active /\ n.data = none /\ ~n.go /\ n.fifo = none
      /\ n.setting = c.setting /\ n.latch = latch
  <2>1. /\ n.generation = c.generation + 1 /\ n.events = c.events
        /\ n.pmd_generation = c.pmd_generation /\ n.off = c.off /\ n.disabled = c.disabled
        /\ n.active = FALSE /\ n.data = none /\ n.go = FALSE /\ n.fifo = none
        /\ n.setting = c.setting /\ n.latch = latch
    BY <1>5 DEF Shape, Fields
  <2>2. Shape(n)
    <3>1. DOMAIN n = Fields /\ n = [field \in Fields |-> n[field]]
      BY <1>5 DEF Shape
    <3>2. n.setting \in Settings /\ n.power \in {"active", "idle", "sleep"}
      BY <1>5 DEF Shape, Fields
    <3>3. {n.on, n.go, n.active, n.ran, n.off, n.disabled, n.raised} \subseteq BOOLEAN
      BY <1>5 DEF Shape, Fields
    <3>4. {n.generation, n.pmd_generation, n.written, n.changes} \subseteq Nat
      BY <1>5 DEF Shape, Fields
    <3>5. n.events \in SUBSET Event
      BY <1>5 DEF Shape, Fields
    <3> QED BY <3>1, <3>2, <3>3, <3>4, <3>5 DEF Shape
  <2> QED BY <2>1, <2>2
<1> HIDE DEF n
<1>7. Typed(n)
  BY <1>2, <1>3, <1>4, <1>6 DEF Typed, none, latch
<1>8. Sound(n) /\ Going(n)
  BY <1>6, <1>7, Abandoned DEF none
<1> QED BY <1>1, <1>8

LEMMA PushSound ==
    ASSUME NEW c, Sound(c), Going(c), c.on, NEW word \in Word(c.setting), CrcAssumption
    PROVE  Sound(Push(c, word)) /\ Going(Push(c, word))
<1> DEFINE n == [c EXCEPT !.fifo = Append(@, word), !.words = Append(@, word)]
<1>1. CASE Len(c.fifo) >= Capacity
  BY <1>1 DEF Push
<1>2. CASE ~(Len(c.fifo) >= Capacity)
  <2>1. Len(c.fifo) \in Nat /\ Capacity \in Nat
    BY LenProperties DEF Sound, Held, Numbered, Typed, Shape, Fields, CrcAssumption
  <2>2. /\ Append(c.fifo, word) \in Seq(Word(c.setting))
        /\ Len(Append(c.fifo, word)) = Len(c.fifo) + 1
    BY AppendProperties DEF Sound, Held, Numbered, Typed, Shape, Fields
  <2>3. Append(c.fifo, word) # <<>>
    BY <2>1, <2>2, EmptySeq
  <2>4. Shape(c)
    BY DEF Sound, Held, Numbered, Typed
  <2>5. /\ Shape(n) /\ n.events = c.events /\ n.generation = c.generation
        /\ n.pmd_generation = c.pmd_generation /\ n.off = c.off /\ n.disabled = c.disabled
        /\ n.on = c.on /\ n.go = c.go /\ n.active = c.active /\ n.data = c.data
        /\ n.fifo = Append(c.fifo, word) /\ n.setting = c.setting /\ n.latch = c.latch
    BY <2>4 DEF Shape, Fields
  <2> HIDE DEF n
  <2>6. Typed(n) /\ n.fifo # <<>>
    BY <1>2, <2>1, <2>2, <2>3, <2>5 DEF Sound, Held, Numbered, Typed
  <2>7. Live(n) = Live(c) /\ LivePmd(n) = LivePmd(c)
    BY <2>5 DEF Live, LivePmd
  <2>8. Sound(n)
    BY <2>5, <2>6, <2>7 DEF Sound, Held, Numbered
  <2>9. Push(c, word) = StartIfReady(n)
    BY <1>2 DEF Push, n
  <2> QED BY <2>8, <2>9, StartSound
<1> QED BY <1>1, <1>2

\* Registers that nothing depends on.
LEMMA LatchSound ==
    ASSUME NEW c, Sound(c), Going(c), NEW latch \in [1 .. c.setting.low -> Bits]
    PROVE  LET n == [c EXCEPT !.latch = latch] IN Sound(n) /\ Going(n)
<1> DEFINE n == [c EXCEPT !.latch = latch]
<1>1. /\ Typed(n) /\ n.events = c.events /\ n.generation = c.generation
      /\ n.pmd_generation = c.pmd_generation /\ n.off = c.off /\ n.disabled = c.disabled
      /\ n.on = c.on /\ n.go = c.go /\ n.active = c.active /\ n.data = c.data /\ n.fifo = c.fifo
  BY DEF Sound, Held, Numbered, Typed, Shape, Fields
<1> HIDE DEF n
<1>2. Live(n) = Live(c) /\ LivePmd(n) = LivePmd(c)
  BY <1>1 DEF Live, LivePmd
<1>3. Sound(n) /\ Going(n)
  BY <1>1, <1>2 DEF Sound, Held, Numbered, Going
<1> QED BY <1>3 DEF n

\* What a handler does to the setting: nothing.
LEMMA SettingKept ==
    ASSUME NEW c, NEW word
    PROVE  Push(c, word).setting = c.setting
BY DEF Push, StartIfReady, Schedule

\* A part of a word.
LEMMA PartOf ==
    ASSUME NEW n \in Nat, NEW s \in [1 .. n -> Bits], NEW i \in 1 .. n + 1, NEW j \in 0 .. n,
           i <= j + 1
    PROVE  /\ SubSeq(s, i, j) \in Seq(Bits) /\ Len(SubSeq(s, i, j)) = j - i + 1
           /\ SubSeq(s, i, j) \in [1 .. j - i + 1 -> Bits]
<1>1. i \in Int /\ j \in Int /\ \A k \in i .. j : s[k] \in Bits
  OBVIOUS
<1>2. SubSeq(s, i, j) \in Seq(Bits) /\ Len(SubSeq(s, i, j)) = IF i <= j THEN j - i + 1 ELSE 0
  BY ONLY <1>1, SubSeqProperties
<1>3. (IF i <= j THEN j - i + 1 ELSE 0) = j - i + 1
  OBVIOUS
<1> QED BY <1>2, <1>3, LenProperties

LEMMA WriteHalfSound ==
    ASSUME CrcAssumption, NEW c, Sound(c), Going(c), NEW half, NEW word \in Word(c.setting)
    PROVE  Sound(WriteHalf(c, half, word)) /\ Going(WriteHalf(c, half, word))
<1> DEFINE w == c.setting.width
           l == c.setting.low
           whole == SubSeq(word, 1, w - l) \o c.latch
<1>1. w \in Nat \ {0} /\ l \in 0 .. w /\ c.setting.halves \in BOOLEAN /\ c.on \in BOOLEAN
  BY DEF Sound, Held, Numbered, Typed, Shape, Fields, CrcAssumption
<1>2. word \in Seq(Bits) /\ Len(word) = w
  BY <1>1 DEF Word
<1>3. SubSeq(word, w - l + 1, w) \in [1 .. l -> Bits]
  <2>1. w - (w - l + 1) + 1 = l /\ w - l + 1 \in 1 .. w + 1 /\ w \in 0 .. w
    BY <1>1
  <2>2. w \in Nat /\ word \in [1 .. w -> Bits] /\ w - l + 1 <= w + 1
    BY <1>1 DEF Word
  <2> HIDE DEF w, l
  <2>3. SubSeq(word, w - l + 1, w) \in [1 .. w - (w - l + 1) + 1 -> Bits]
    BY <2>1, <2>2, PartOf
  <2> QED BY <2>1, <2>3
<1>4. whole \in Word(c.setting)
  <2>1. (w - l) - 1 + 1 = w - l /\ w - l \in 0 .. w /\ 1 \in 1 .. w + 1 /\ 1 <= (w - l) + 1
    BY <1>1
  <2>2. SubSeq(word, 1, w - l) \in Seq(Bits) /\ Len(SubSeq(word, 1, w - l)) = w - l
    <3>1. w \in Nat /\ word \in [1 .. w -> Bits]
      BY <1>1 DEF Word
    <3> HIDE DEF w, l
    <3>2. /\ SubSeq(word, 1, w - l) \in Seq(Bits)
          /\ Len(SubSeq(word, 1, w - l)) = (w - l) - 1 + 1
      BY <2>1, <3>1, PartOf
    <3> QED BY <2>1, <3>2
  <2>3. c.latch \in Seq(Bits) /\ Len(c.latch) = l
    BY <1>1 DEF Sound, Held, Numbered, Typed, Shape, Fields
  <2>4. whole \in Seq(Bits) /\ Len(whole) = (w - l) + l
    BY <2>2, <2>3, ConcatProperties
  <2>5. (w - l) + l = w
    BY <1>1
  <2> QED BY <2>4, <2>5, LenProperties DEF Word
<1> HIDE DEF whole
<1>5. CASE ~c.on
  BY <1>5 DEF WriteHalf
<1>6. CASE c.on /\ ~c.setting.halves
  BY <1>6, PushSound DEF WriteHalf
<1>7. CASE c.on /\ c.setting.halves /\ half = "low"
  BY <1>7, <1>3, LatchSound DEF WriteHalf
<1>8. CASE c.on /\ c.setting.halves /\ half # "low"
  <2>1. Sound(Push(c, whole)) /\ Going(Push(c, whole)) /\ Push(c, whole).setting = c.setting
    BY <1>8, <1>4, PushSound, SettingKept
  <2>2. Zero(l) \in [1 .. l -> Bits]
    BY DEF Zero, Bits
  <2>3. WriteHalf(c, half, word) = [Push(c, whole) EXCEPT !.latch = Zero(l)]
    BY <1>8 DEF WriteHalf, whole
  <2> HIDE DEF w, l
  <2> QED BY <2>1, <2>2, <2>3, LatchSound DEF l
<1> QED BY <1>1, <1>5, <1>6, <1>7, <1>8

\* What is left of a word after some of its bits have gone in.
LEMMA RestOf ==
    ASSUME CrcAssumption, NEW w \in Nat, NEW d \in Seq(Bits), d # <<>>, Len(d) <= w,
           NEW some, some = IF Len(d) < BitsPerCycle THEN Len(d) ELSE BitsPerCycle
    PROVE  SubSeq(d, some + 1, Len(d)) \in Seq(Bits) /\ Len(SubSeq(d, some + 1, Len(d))) < w
<1>1. Len(d) \in Nat \ {0} /\ d \in [1 .. Len(d) -> Bits]
  BY EmptySeq, LenProperties
<1>2. some \in 1 .. Len(d)
  BY <1>1 DEF CrcAssumption
<1> DEFINE n == Len(d)
<1> HIDE DEF n
<1>3. /\ n \in Nat /\ d \in [1 .. n -> Bits] /\ some + 1 \in 1 .. n + 1 /\ n \in 0 .. n
      /\ some + 1 <= n + 1 /\ n - (some + 1) + 1 < w
  <2>1. n \in Nat \ {0} /\ d \in [1 .. n -> Bits] /\ some \in 1 .. n /\ n <= w
    BY <1>1, <1>2 DEF n
  <2> QED BY <2>1
<1>4. SubSeq(d, some + 1, n) \in Seq(Bits) /\ Len(SubSeq(d, some + 1, n)) = n - (some + 1) + 1
  BY <1>3, PartOf
<1> QED BY <1>3, <1>4 DEF n

\* The next word of the FIFO, in the order in which its bits go in.
LEMMA NextWord ==
    ASSUME CrcAssumption, NEW c, Typed(c), c.fifo # <<>>
    PROVE  /\ InOrder(c, Head(c.fifo)) \in Seq(Bits) /\ InOrder(c, Head(c.fifo)) # <<>>
           /\ Len(InOrder(c, Head(c.fifo))) = c.setting.width
           /\ Tail(c.fifo) \in Seq(Word(c.setting)) /\ Len(Tail(c.fifo)) <= Capacity
<1> DEFINE word == Head(c.fifo)
           w == c.setting.width
<1>1. w \in Nat \ {0} /\ Capacity \in Nat
  BY DEF CrcAssumption, Typed, Shape
<1>2. /\ word \in Word(c.setting) /\ Tail(c.fifo) \in Seq(Word(c.setting))
      /\ Len(Tail(c.fifo)) = Len(c.fifo) - 1
  BY HeadTailProperties DEF Typed
<1>3. Len(c.fifo) \in Nat /\ Len(c.fifo) <= Capacity
  BY LenProperties DEF Typed
<1>4. word \in [1 .. w -> Bits]
  BY <1>2 DEF Word
<1> HIDE DEF word, w
<1>5. word \in Seq(Bits) /\ Len(word) = w
  BY <1>1, <1>4
<1>6. Reverse(word) \in [1 .. w -> Bits]
  <2>1. \A i \in 1 .. w : word[(w - i) + 1] \in Bits
    BY <1>1, <1>4
  <2> QED BY <1>5, <2>1 DEF Reverse
<1>7. Reverse(word) \in Seq(Bits) /\ Len(Reverse(word)) = w
  BY <1>1, <1>6
<1>8. InOrder(c, word) \in Seq(Bits) /\ Len(InOrder(c, word)) = w
  BY <1>5, <1>7 DEF InOrder
<1>9. InOrder(c, word) # <<>>
  BY <1>1, <1>8, EmptySeq
<1> QED BY <1>1, <1>2, <1>3, <1>8, <1>9 DEF word, w

\* What a turn of the shift register leaves as it was.
Kept(n, c) ==
    /\ n.events = c.events /\ n.generation = c.generation /\ n.pmd_generation = c.pmd_generation
    /\ n.off = c.off /\ n.disabled = c.disabled /\ n.on = c.on

LEMMA KeptNumbered ==
    ASSUME NEW c, Numbered(c), NEW n, Typed(n), Kept(n, c)
    PROVE  Numbered(n) /\ Live(n) = Live(c)
<1>1. Live(n) = Live(c) /\ LivePmd(n) = LivePmd(c)
  BY DEF Live, LivePmd, Kept
<1> QED BY <1>1 DEF Numbered, Kept

\* Members changed one at a time.
LEMMA ShapeKept ==
    ASSUME NEW c, Shape(c), NEW x
    PROVE  /\ Shape([c EXCEPT !.fifo = x]) /\ Shape([c EXCEPT !.data = x])
           /\ Shape([c EXCEPT !.shift = x]) /\ Shape([c EXCEPT !.raised = TRUE])
           /\ Shape([c EXCEPT !.active = FALSE]) /\ Shape([c EXCEPT !.go = FALSE])
<1>1. Shape([c EXCEPT !.fifo = x])
  BY DEF Shape, Fields
<1>2. Shape([c EXCEPT !.data = x])
  BY DEF Shape, Fields
<1>3. Shape([c EXCEPT !.shift = x])
  BY DEF Shape, Fields
<1>4. Shape([c EXCEPT !.raised = TRUE])
  BY DEF Shape, Fields
<1>5. Shape([c EXCEPT !.active = FALSE])
  BY DEF Shape, Fields
<1>6. Shape([c EXCEPT !.go = FALSE])
  BY DEF Shape, Fields
<1> QED BY <1>1, <1>2, <1>3, <1>4, <1>5, <1>6

LEMMA MarksKept ==
    ASSUME NEW c, Sound(c), NEW n, Typed(n), Kept(n, c), n.go = c.go, n.active = c.active,
           n.data = c.data, n.fifo = c.fifo
    PROVE  Sound(n) /\ (Going(c) => Going(n))
<1>1. Numbered(n) /\ Live(n) = Live(c)
  BY KeptNumbered DEF Sound, Held
<1> QED BY <1>1 DEF Sound, Held, Going, Kept

\* A word is loaded when the shift register has taken the one before.
LEMMA LoadKept ==
    ASSUME CrcAssumption, NEW c, Typed(c), c.fifo # <<>>
    PROVE  LET n == Load(c)
           IN  /\ Shape(n) /\ Kept(n, c) /\ n.latch = c.latch /\ n.setting = c.setting
               /\ n.fifo \in Seq(Word(c.setting)) /\ Len(n.fifo) <= Capacity
               /\ n.data \in Seq(Bits) /\ n.data # <<>> /\ Len(n.data) = c.setting.width
<1> DEFINE data == InOrder(c, Head(c.fifo))
           rest == Tail(c.fifo)
           n == [c EXCEPT !.data = data, !.fifo = rest]
           m == [n EXCEPT !.raised = TRUE]
<1>1. /\ data \in Seq(Bits) /\ data # <<>> /\ Len(data) = c.setting.width
      /\ rest \in Seq(Word(c.setting)) /\ Len(rest) <= Capacity
  BY NextWord
<1>2. Load(c) \in {n, m}
  BY DEF Load, Raise
<1> HIDE DEF data, rest
<1>3. Shape(n) /\ n.data = data /\ n.fifo = rest /\ n.latch = c.latch /\ n.setting = c.setting
  <2>1. n = [[c EXCEPT !.data = data] EXCEPT !.fifo = rest]
    BY DEF Typed, Shape, Fields
  <2>2. Shape(n)
    BY <2>1, ShapeKept DEF Typed
  <2> QED BY <2>2 DEF Typed, Shape, Fields
<1>4. Kept(n, c)
  BY DEF Typed, Shape, Fields, Kept
<1> HIDE DEF n
<1>5. /\ Shape(m) /\ m.data = n.data /\ m.fifo = n.fifo /\ m.latch = n.latch /\ m.setting = n.setting
      /\ Kept(m, n)
  <2>1. Shape(m)
    BY <1>3, ShapeKept
  <2> QED BY <1>3, <2>1 DEF Shape, Fields, Kept
<1> HIDE DEF m
<1> QED BY <1>1, <1>2, <1>3, <1>4, <1>5 DEF Kept

\* A turn of the shift register, with the word that is loaded for it.
LEMMA TurnKept ==
    ASSUME CrcAssumption, NEW c, Typed(c), c.data # <<>> \/ c.fifo # <<>>
    PROVE  LET n == ShiftBits(IF c.data = <<>> THEN Load(c) ELSE c)
           IN  Typed(n) /\ Kept(n, c)
<1> DEFINE l == IF c.data = <<>> THEN Load(c) ELSE c
           w == c.setting.width
           some == IF Len(l.data) < BitsPerCycle THEN Len(l.data) ELSE BitsPerCycle
           shift == FoldLeft(LAMBDA s, bit : ShiftBit(l, s, bit), l.shift, SubSeq(l.data, 1, some))
           data == SubSeq(l.data, some + 1, Len(l.data))
           n == [l EXCEPT !.shift = shift, !.data = data]
<1>1. w \in Nat \ {0} /\ Len(c.data) \in Nat
  BY LenProperties DEF Typed, Shape, CrcAssumption
<1>2. /\ Shape(l) /\ Kept(l, c) /\ l.latch = c.latch /\ l.setting = c.setting
      /\ l.fifo \in Seq(Word(c.setting)) /\ Len(l.fifo) <= Capacity
      /\ l.data \in Seq(Bits) /\ l.data # <<>> /\ Len(l.data) <= w
  <2>1. CASE c.data = <<>>
    BY <1>1, <2>1, LoadKept
  <2>2. CASE c.data # <<>>
    BY <1>1, <2>2 DEF Typed, Kept
  <2> QED BY <2>1, <2>2
<1>3. n = ShiftBits(l)
  BY DEF ShiftBits
<1> HIDE DEF l, w
<1>4. data \in Seq(Bits) /\ Len(data) < w
  BY <1>1, <1>2, RestOf
<1> HIDE DEF some, shift, data
<1>5. /\ Shape(n) /\ Kept(n, l) /\ n.latch = l.latch /\ n.setting = l.setting
      /\ n.fifo = l.fifo /\ n.data = data
  <2>1. n = [[l EXCEPT !.shift = shift] EXCEPT !.data = data]
    BY <1>2 DEF Shape, Fields
  <2>2. Shape(n)
    BY <1>2, <2>1, ShapeKept
  <2>3. Kept(n, l)
    BY <1>2 DEF Shape, Fields, Kept
  <2>4. n.latch = l.latch /\ n.setting = l.setting /\ n.fifo = l.fifo /\ n.data = data
    BY <1>2 DEF Shape, Fields
  <2> QED BY <2>2, <2>3, <2>4
<1> HIDE DEF n
<1>6. Kept(n, c)
  BY <1>2, <1>5 DEF Kept
<1>7. Typed(n)
  BY <1>2, <1>4, <1>5 DEF Typed, w
<1> QED BY <1>3, <1>6, <1>7 DEF l

LEMMA RaiseKept ==
    ASSUME NEW c, Sound(c), Going(c), NEW on_empty
    PROVE  Sound(Raise(c, on_empty)) /\ Going(Raise(c, on_empty))
<1> DEFINE n == [c EXCEPT !.raised = TRUE]
<1>1. Shape(c)
  BY DEF Sound, Held, Numbered, Typed
<1>2. Shape(n) /\ Kept(n, c) /\ n.go = c.go /\ n.active = c.active /\ n.data = c.data
      /\ n.fifo = c.fifo /\ n.latch = c.latch /\ n.setting = c.setting
  <2>1. Shape(n)
    BY <1>1, ShapeKept
  <2> QED BY <1>1, <2>1 DEF Shape, Fields, Kept
<1> HIDE DEF n
<1>3. Typed(n)
  BY <1>2 DEF Sound, Held, Numbered, Typed
<1>4. Sound(n) /\ Going(n)
  BY <1>2, <1>3, MarksKept
<1> QED BY <1>4 DEF Raise, n

\* When the last bit of the last word is in, the generator stops.
LEMMA StopSound ==
    ASSUME NEW c, Numbered(c), Live(c) = {}, c.data = <<>>, c.fifo = <<>>
    PROVE  LET n == [c EXCEPT !.active = FALSE, !.go = FALSE] IN Sound(n) /\ Going(n)
<1> DEFINE n == [c EXCEPT !.active = FALSE, !.go = FALSE]
<1>1. Shape(c)
  BY DEF Numbered, Typed
<1>2. Shape(n) /\ Kept(n, c) /\ n.go = FALSE /\ n.active = FALSE /\ n.data = c.data
      /\ n.fifo = c.fifo /\ n.latch = c.latch /\ n.setting = c.setting
  <2>1. n = [[c EXCEPT !.active = FALSE] EXCEPT !.go = FALSE]
    BY <1>1 DEF Shape, Fields
  <2>2. Shape(n)
    BY <1>1, <2>1, ShapeKept
  <2> QED BY <1>1, <2>2 DEF Shape, Fields, Kept
<1> HIDE DEF n
<1>3. Typed(n)
  BY <1>2 DEF Numbered, Typed
<1>4. Numbered(n) /\ Live(n) = {}
  BY <1>2, <1>3, KeptNumbered
<1>5. Sound(n) /\ Going(n)
  BY <1>2, <1>4 DEF Sound, Held, Going
<1> QED BY <1>5 DEF n

\* An event of the generator, taken off the queue.  While its clock stands still it
\* is put off by a cycle.
LEMMA RunCrcSound ==
    ASSUME CrcAssumption, NEW c, Sound(c), Going(c), NEW t, NEW event \in c.events,
           event.kind = "crc", Numbered(t), t.events = c.events \ {event},
           t.generation = c.generation, t.on = c.on, t.go = c.go, t.active = c.active,
           t.data = c.data, t.fifo = c.fifo
    PROVE  Sound(RunCrc(t, event)) /\ Going(RunCrc(t, event))
<1>1. CASE event.generation # c.generation
  <2>1. Live(t) = Live(c)
    BY <1>1 DEF Live
  <2>2. RunCrc(t, event) = t
    BY <1>1 DEF RunCrc
  <2> QED BY <2>1, <2>2 DEF Sound, Held, Going
<1>2. CASE event.generation = c.generation
  <2>1. event \in Live(c)
    BY <1>2 DEF Live
  <2>2. c.active /\ c.on /\ c.go /\ (c.data # <<>> \/ c.fifo # <<>>)
    BY <2>1 DEF Sound
  <2>3. Live(t) = {}
    BY <2>1 DEF Sound, Live
  <2>4. Held(t)
    BY <2>2 DEF Held
  <2>5. CASE Stopped(t)
    <3>1. RunCrc(t, event) = Schedule(t)
      BY <1>2, <2>2, <2>5 DEF RunCrc
    <3> QED BY <2>2, <2>3, <2>4, <3>1, ScheduleSound
  <2>6. CASE ~Stopped(t)
    <3> DEFINE done == ShiftBits(IF t.data = <<>> THEN Load(t) ELSE t)
    <3>1. RunCrc(t, event) = IF done.data = <<>> /\ done.fifo = <<>>
                             THEN Raise([done EXCEPT !.active = FALSE, !.go = FALSE], FALSE)
                             ELSE Schedule(done)
      BY <1>2, <2>2, <2>6 DEF RunCrc
    <3>2. Typed(done) /\ Kept(done, t)
      BY <2>2, TurnKept DEF Numbered
    <3>3. done.go = t.go
      BY DEF ShiftBits, Load, Raise
    <3> HIDE DEF done
    <3>4. Numbered(done) /\ Live(done) = {}
      BY <2>3, <3>2, KeptNumbered
    <3>5. CASE done.data = <<>> /\ done.fifo = <<>>
      <4> DEFINE n == [done EXCEPT !.active = FALSE, !.go = FALSE]
      <4>1. Sound(n) /\ Going(n)
        BY <3>4, <3>5, StopSound
      <4>2. RunCrc(t, event) = Raise(n, FALSE)
        BY <3>1, <3>5
      <4> HIDE DEF n
      <4> QED BY <4>1, <4>2, RaiseKept
    <3>6. CASE ~(done.data = <<>> /\ done.fifo = <<>>)
      <4>1. done.on /\ done.go
        BY <2>2, <3>2, <3>3 DEF Kept
      <4>2. Held(done)
        BY <3>4, <4>1 DEF Held
      <4> QED BY <3>1, <3>4, <3>6, <4>1, <4>2, ScheduleSound
    <3> QED BY <3>5, <3>6
  <2> QED BY <2>5, <2>6
<1> QED BY <1>1, <1>2

\* An event of PMD: the module is off or on from now.
LEMMA RunPmdSound ==
    ASSUME NEW c, Sound(c), Going(c), NEW t, Typed(t),
           NEW event \in c.events, event.kind = "pmd", t.events = c.events \ {event},
           t.generation = c.generation, t.pmd_generation = c.pmd_generation, t.off = c.off,
           t.disabled = c.disabled, t.on = c.on, t.go = c.go, t.active = c.active,
           t.data = c.data, t.fifo = c.fifo
    PROVE  Sound(RunPmd(t, event)) /\ Going(RunPmd(t, event))
<1>1. Live(t) = Live(c)
  BY DEF Live
<1>2. CASE event.generation # c.pmd_generation
  <2>1. LivePmd(t) = LivePmd(c)
    BY <1>2 DEF LivePmd
  <2>2. RunPmd(t, event) = t
    BY <1>2 DEF RunPmd
  <2> QED BY <1>1, <2>1, <2>2 DEF Sound, Held, Numbered, Going
<1>3. CASE event.generation = c.pmd_generation
  <2> DEFINE n == [t EXCEPT !.disabled = event.disabled]
  <2>1. event.disabled = c.off
    BY <1>3 DEF LivePmd, Sound, Held, Numbered
  <2>2. event.disabled \in BOOLEAN
    BY DEF Sound, Held, Numbered, Typed, Shape, Event
  <2>3. Shape(n)
    BY <2>2 DEF Typed, Shape, Fields
  <2>4. /\ n.disabled = c.off /\ n.off = c.off /\ n.generation = c.generation
        /\ n.pmd_generation = c.pmd_generation /\ n.events = t.events /\ n.on = c.on /\ n.go = c.go
        /\ n.active = c.active /\ n.data = c.data /\ n.fifo = c.fifo /\ n.latch = t.latch
        /\ n.setting = t.setting
    BY <2>1 DEF Typed, Shape, Fields
  <2> HIDE DEF n
  <2>5. Typed(n)
    BY <2>3, <2>4 DEF Typed
  <2>6. Live(n) = Live(c) /\ LivePmd(n) \subseteq LivePmd(c) /\ n.events \subseteq c.events
    BY <1>1, <2>4 DEF Live, LivePmd
  <2>7. Sound(n) /\ Going(n)
    BY <2>4, <2>5, <2>6 DEF Sound, Held, Numbered, Going
  <2>8. RunPmd(t, event) = IF event.disabled THEN n ELSE StartIfReady(n)
    <3>1. CASE event.disabled
      BY <1>3, <2>2, <3>1 DEF RunPmd, n
    <3>2. CASE ~event.disabled
      <4>1. event.disabled = FALSE
        BY <2>2, <3>2
      <4>2. RunPmd(t, event) = StartIfReady([t EXCEPT !.disabled = FALSE])
        BY <1>3, <3>2 DEF RunPmd
      <4> QED BY <3>2, <4>1, <4>2 DEF n
    <3> QED BY <3>1, <3>2
  <2> QED BY <2>7, <2>8, StartSound
<1> QED BY <1>2, <1>3

\* The start and the end of every step.
LEMMA NowSound ==
    ASSUME IInv
    PROVE  /\ Sound(Now) /\ Going(Now) /\ Kept(Now, crc) /\ Now.setting = crc.setting
           /\ Now.go = crc.go /\ Now.active = crc.active /\ Now.data = crc.data /\ Now.fifo = crc.fifo
           /\ Now.latch = crc.latch /\ Now.changes = crc.changes /\ Now.pmd_generation = crc.pmd_generation
<1>1. Shape(crc)
  BY DEF IInv, Sound, Held, Numbered, Typed
<1>2. /\ Kept(Now, crc) /\ Now.setting = crc.setting
      /\ Now.go = crc.go /\ Now.active = crc.active /\ Now.data = crc.data /\ Now.fifo = crc.fifo
      /\ Now.latch = crc.latch /\ Now.changes = crc.changes
  BY <1>1 DEF Now, Shape, Fields, Kept
<1>3. Shape(Now)
  BY <1>1 DEF Now, Shape, Fields
<1>4. Typed(Now)
  BY <1>2, <1>3 DEF IInv, Sound, Held, Numbered, Typed
<1> QED BY <1>2, <1>4, MarksKept DEF IInv, Kept

LEMMA ExecutedSound ==
    ASSUME NEW c, Sound(c), Going(c)
    PROVE  Sound(Executed(c)) /\ Going(Executed(c))
<1> DEFINE n == Executed(c)
<1>1. Shape(c)
  BY DEF Sound, Held, Numbered, Typed
<1>2. Shape(n)
  <2>1. DOMAIN n = Fields /\ n = [field \in Fields |-> n[field]]
    BY <1>1 DEF Executed, Shape
  <2>2. /\ n.setting \in Settings /\ n.power \in {"active", "idle", "sleep"}
        /\ n.events \in SUBSET Event
    BY <1>1 DEF Executed, Shape, Fields
  <2>3. {n.on, n.go, n.active, n.ran, n.off, n.disabled, n.raised} \subseteq BOOLEAN
    BY <1>1 DEF Executed, Shape, Fields
  <2>4. {n.generation, n.pmd_generation, n.written, n.changes} \subseteq Nat
    BY <1>1 DEF Executed, Shape, Fields
  <2> QED BY <2>1, <2>2, <2>3, <2>4 DEF Shape
<1>3. Kept(n, c) /\ n.go = c.go /\ n.active = c.active /\ n.data = c.data
      /\ n.fifo = c.fifo /\ n.latch = c.latch /\ n.setting = c.setting
  BY <1>1 DEF Executed, Shape, Fields, Kept
<1> HIDE DEF n
<1>4. Typed(n)
  BY <1>2, <1>3 DEF Sound, Held, Numbered, Typed
<1>5. Sound(n) /\ Going(n)
  BY <1>3, <1>4, MarksKept
<1> QED BY <1>5 DEF n

\* Registers that no event depends on.
LEMMA RegistersKept ==
    ASSUME NEW c, Sound(c), Going(c), NEW n, Shape(n), Kept(n, c), n.setting = c.setting,
           n.go = c.go, n.active = c.active, n.data = c.data, n.fifo = c.fifo, n.latch = c.latch
    PROVE  Sound(n) /\ Going(n)
<1>1. Typed(n)
  BY DEF Sound, Held, Numbered, Typed
<1> QED BY <1>1, MarksKept
-----------------------------------------------------------------------------
LEMMA InitInv ==
    ASSUME CrcAssumption, Init PROVE IInv
<1>1. PICK setting \in Settings : crc = Fresh(setting)
  BY DEF Init
<1>2. setting.width \in Nat \ {0} /\ setting.low \in Nat /\ Capacity \in Nat
  BY DEF CrcAssumption
<1>3. <<>> \in Seq(Bits) /\ <<>> \in Seq(Word(setting)) /\ Len(<<>>) = 0
  BY EmptySeq
<1>4. Zero(setting.low) \in [1 .. setting.low -> Bits]
  BY DEF Zero, Bits
<1>5. Shape(crc)
  <2>1. DOMAIN crc = Fields /\ crc = [field \in Fields |-> crc[field]]
    BY <1>1 DEF Fresh, Fields
  <2>2. /\ crc.setting \in Settings /\ crc.power \in {"active", "idle", "sleep"}
        /\ crc.events \in SUBSET Event
    BY <1>1 DEF Fresh
  <2>3. {crc.on, crc.go, crc.active, crc.ran, crc.off, crc.disabled, crc.raised} \subseteq BOOLEAN
    BY <1>1 DEF Fresh
  <2>4. {crc.generation, crc.pmd_generation, crc.written, crc.changes} \subseteq Nat
    BY <1>1 DEF Fresh
  <2> QED BY <2>1, <2>2, <2>3, <2>4 DEF Shape
<1>6. /\ crc.setting = setting /\ crc.fifo = <<>> /\ crc.data = <<>> /\ crc.latch = Zero(setting.low)
      /\ crc.events = {} /\ ~crc.active /\ ~crc.go /\ ~crc.on /\ crc.disabled = crc.off
  BY <1>1 DEF Fresh
<1>7. Typed(crc)
  BY <1>2, <1>3, <1>4, <1>5, <1>6 DEF Typed
<1> QED BY <1>6, <1>7 DEF IInv, Sound, Held, Numbered, Going, Live, LivePmd

LEMMA WriteControlKeeps ==
    ASSUME CrcAssumption, IInv, NEW on \in BOOLEAN, NEW go \in BOOLEAN, WriteControl(on, go)
    PROVE  IInv'
<1> DEFINE w == [Now EXCEPT !.on = on, !.go = go]
           after == CASE ~on -> ResetRuntime(w)
                      [] on /\ crc.go /\ ~go -> Abort(w)
                      [] on /\ ~crc.go /\ go -> StartIfReady(w)
                      [] OTHER -> w
<1>1. /\ Sound(Now) /\ Going(Now) /\ Now.go = crc.go
  BY NowSound
<1>2. /\ w.on = on /\ w.go = go /\ w.events = Now.events /\ w.generation = Now.generation
      /\ w.pmd_generation = Now.pmd_generation /\ w.off = Now.off /\ w.disabled = Now.disabled
      /\ w.active = Now.active /\ w.data = Now.data /\ w.fifo = Now.fifo /\ w.latch = Now.latch
      /\ w.setting = Now.setting /\ Shape(w)
  <2>1. Shape(Now)
    BY <1>1 DEF Sound, Held, Numbered, Typed
  <2> HIDE DEF Now
  <2>2. Shape(w)
    <3>1. DOMAIN w = Fields /\ w = [field \in Fields |-> w[field]]
      BY <2>1 DEF Shape
    <3>2. /\ w.setting \in Settings /\ w.power \in {"active", "idle", "sleep"}
          /\ w.events \in SUBSET Event
      BY <2>1 DEF Shape, Fields
    <3>3. {w.on, w.go, w.active, w.ran, w.off, w.disabled, w.raised} \subseteq BOOLEAN
      BY <2>1 DEF Shape, Fields
    <3>4. {w.generation, w.pmd_generation, w.written, w.changes} \subseteq Nat
      BY <2>1 DEF Shape, Fields
    <3> QED BY <3>1, <3>2, <3>3, <3>4 DEF Shape
  <2> QED BY <2>1, <2>2 DEF Shape, Fields
<1>3. crc' = Executed(IF crc.disabled THEN Now ELSE after)
  BY DEF WriteControl
<1> HIDE DEF w
<1>4. Typed(w)
  BY <1>1, <1>2 DEF Sound, Held, Numbered, Typed
<1>5. Numbered(w) /\ Live(w) = Live(Now)
  <2>1. Live(w) = Live(Now) /\ LivePmd(w) = LivePmd(Now)
    BY <1>2 DEF Live, LivePmd
  <2> QED BY <1>1, <1>2, <1>4, <2>1 DEF Sound, Held, Numbered
<1>6. Sound(after) /\ Going(after)
  <2>1. CASE ~on
    BY <1>5, <2>1, ResetSound
  <2>2. CASE on /\ crc.go /\ ~go
    BY <1>2, <1>5, <2>2, AbortSound
  <2>3. CASE on /\ ~crc.go /\ go
    <3>1. Sound(w)
      BY <1>1, <1>2, <1>5, <2>3 DEF Sound, Held
    <3> QED BY <2>3, <3>1, StartSound
  <2>4. CASE on /\ go = crc.go
    <3>1. Sound(w) /\ Going(w)
      BY <1>1, <1>2, <1>5, <2>4 DEF Sound, Held, Going
    <3>2. after = w
      BY <2>4
    <3> QED BY <3>1, <3>2
  <2>5. crc.go \in BOOLEAN
    BY DEF IInv, Sound, Held, Numbered, Typed, Shape
  <2> QED BY <2>1, <2>2, <2>3, <2>4, <2>5
<1> HIDE DEF after
<1>7. Sound(crc') /\ Going(crc')
  BY <1>1, <1>3, <1>6, ExecutedSound
<1> QED BY <1>7 DEF IInv, Sound, Going, Held, Numbered, Typed, Shape, Live, LivePmd

LEMMA WriteShiftKeeps ==
    ASSUME IInv, NEW value, WriteShift(value)
    PROVE  IInv'
<1> DEFINE n == [Now EXCEPT !.shift = value, !.seed = value, !.words = crc.fifo]
<1>1. Sound(Now) /\ Going(Now)
  BY NowSound
<1>2. Shape(Now)
  BY <1>1 DEF Sound, Held, Numbered, Typed
<1>3. Sound(n) /\ Going(n)
  <2> HIDE DEF Now
  <2>1. Shape(n)
    BY <1>2 DEF Shape, Fields
  <2>2. /\ Kept(n, Now) /\ n.setting = Now.setting /\ n.go = Now.go /\ n.active = Now.active
        /\ n.data = Now.data /\ n.fifo = Now.fifo /\ n.latch = Now.latch
    BY <1>2 DEF Shape, Fields, Kept
  <2> HIDE DEF n
  <2> QED BY <1>1, <2>1, <2>2, RegistersKept
<1>4. crc' = Executed(IF crc.disabled \/ crc.go THEN Now ELSE n)
  BY DEF WriteShift
<1> HIDE DEF n
<1>5. Sound(crc') /\ Going(crc')
  BY <1>1, <1>3, <1>4, ExecutedSound
<1> QED BY <1>5 DEF IInv, Sound, Going, Held, Numbered, Typed, Shape, Live, LivePmd

LEMMA WriteDataKeeps ==
    ASSUME CrcAssumption, IInv, NEW word \in crc.setting.values, NEW half, WriteData(half, word)
    PROVE  IInv'
<1> DEFINE n == [Now EXCEPT !.written = @ + 1]
<1>1. Sound(Now) /\ Going(Now) /\ Now.setting = crc.setting
  BY NowSound
<1>2. Shape(Now)
  BY <1>1 DEF Sound, Held, Numbered, Typed
<1>3. word \in Word(Now.setting)
  BY <1>1, <1>2 DEF Shape, Word, Bits, CrcAssumption
<1>4. crc' = IF crc.disabled THEN n ELSE WriteHalf(n, half, word)
  BY DEF WriteData
<1>5. Sound(n) /\ Going(n) /\ n.setting = Now.setting
  <2> HIDE DEF Now
  <2>1. Shape(n)
    BY <1>2 DEF Shape, Fields
  <2>2. /\ Kept(n, Now) /\ n.setting = Now.setting /\ n.go = Now.go /\ n.active = Now.active
        /\ n.data = Now.data /\ n.fifo = Now.fifo /\ n.latch = Now.latch
    BY <1>2 DEF Shape, Fields, Kept
  <2> HIDE DEF n
  <2> QED BY <1>1, <2>1, <2>2, RegistersKept
<1> HIDE DEF n
<1>6. Sound(crc') /\ Going(crc')
  BY <1>3, <1>4, <1>5, WriteHalfSound
<1> QED BY <1>6 DEF IInv, Sound, Going, Held, Numbered, Typed, Shape, Live, LivePmd

LEMMA WritePmdKeeps ==
    ASSUME IInv, WritePmd
    PROVE  IInv'
<1> DEFINE event == [kind |-> "pmd", left |-> 1, disabled |-> ~crc.off,
                     generation |-> crc.pmd_generation + 1]
           n == [Now EXCEPT !.off = ~@, !.pmd_generation = @ + 1, !.events = @ \union {event}]
<1>1. /\ Sound(Now) /\ Going(Now) /\ Now.pmd_generation = crc.pmd_generation
      /\ Now.off = crc.off
  BY NowSound DEF Kept
<1>2. Shape(Now)
  BY <1>1 DEF Sound, Held, Numbered, Typed
<1>3. /\ event \in Event /\ event.kind = "pmd" /\ event.disabled = ~Now.off
      /\ event.generation = Now.pmd_generation + 1
  BY <1>1, <1>2 DEF Event, Shape
<1>4. crc' = Executed(n)
  BY DEF WritePmd
<1> HIDE DEF Now, event
<1>5. /\ Shape(n) /\ n.setting = Now.setting /\ n.go = Now.go /\ n.active = Now.active
      /\ n.data = Now.data /\ n.fifo = Now.fifo /\ n.latch = Now.latch /\ n.on = Now.on
      /\ n.generation = Now.generation /\ n.off = ~Now.off /\ n.disabled = Now.disabled
      /\ n.pmd_generation = Now.pmd_generation + 1 /\ n.events = Now.events \union {event}
  <2>1. DOMAIN n = Fields /\ n = [field \in Fields |-> n[field]]
    BY <1>2 DEF Shape
  <2>2. /\ n.setting \in Settings /\ n.power \in {"active", "idle", "sleep"}
        /\ n.events \in SUBSET Event
    BY <1>2, <1>3 DEF Shape, Fields
  <2>3. {n.on, n.go, n.active, n.ran, n.off, n.disabled, n.raised} \subseteq BOOLEAN
    BY <1>2 DEF Shape, Fields
  <2>4. {n.generation, n.pmd_generation, n.written, n.changes} \subseteq Nat
    BY <1>2 DEF Shape, Fields
  <2>5. Shape(n)
    BY <2>1, <2>2, <2>3, <2>4 DEF Shape
  <2>6. /\ n.setting = Now.setting /\ n.go = Now.go /\ n.active = Now.active
        /\ n.data = Now.data /\ n.fifo = Now.fifo /\ n.latch = Now.latch /\ n.on = Now.on
        /\ n.generation = Now.generation /\ n.off = ~Now.off /\ n.disabled = Now.disabled
        /\ n.pmd_generation = Now.pmd_generation + 1 /\ n.events = Now.events \union {event}
    BY <1>2 DEF Shape, Fields
  <2> QED BY <2>5, <2>6
<1> HIDE DEF n
<1>6. Typed(n)
  BY <1>1, <1>5 DEF Sound, Held, Numbered, Typed
<1>7. /\ \A e \in Now.events : e.generation \in Nat /\ e.kind \in {"crc", "pmd"}
      /\ Now.pmd_generation \in Nat /\ Now.generation \in Nat
  BY <1>2 DEF Shape, Event
<1>8. Live(n) = Live(Now) /\ LivePmd(n) = {event}
  BY <1>1, <1>3, <1>5, <1>7 DEF Live, LivePmd, Sound, Held, Numbered
<1>9. Numbered(n)
  <2>1. \A e \in n.events : e.generation <= IF e.kind = "crc" THEN n.generation ELSE n.pmd_generation
    BY <1>1, <1>3, <1>5, <1>7 DEF Sound, Held, Numbered
  <2> QED BY <1>3, <1>5, <1>6, <1>8, <2>1 DEF Numbered
<1>10. Sound(n) /\ Going(n)
  BY <1>1, <1>5, <1>8, <1>9 DEF Sound, Held, Going
<1>11. Sound(crc') /\ Going(crc')
  BY <1>4, <1>10, ExecutedSound
<1> QED BY <1>11 DEF IInv, Sound, Going, Held, Numbered, Typed, Shape, Live, LivePmd

LEMMA ChangePowerKeeps ==
    ASSUME IInv, NEW power \in {"active", "idle", "sleep"}, ChangePower(power)
    PROVE  IInv'
<1> DEFINE n == [Now EXCEPT !.power = power, !.changes = @ + 1]
<1>1. Sound(Now) /\ Going(Now)
  BY NowSound
<1>2. Shape(Now)
  BY <1>1 DEF Sound, Held, Numbered, Typed
<1>3. crc' = n
  BY DEF ChangePower
<1>4. Sound(n) /\ Going(n)
  <2> HIDE DEF Now
  <2>1. Shape(n)
    <3>1. DOMAIN n = Fields /\ n = [field \in Fields |-> n[field]]
      BY <1>2 DEF Shape
    <3>2. /\ n.setting \in Settings /\ n.power \in {"active", "idle", "sleep"}
          /\ n.events \in SUBSET Event
      BY <1>2 DEF Shape, Fields
    <3>3. {n.on, n.go, n.active, n.ran, n.off, n.disabled, n.raised} \subseteq BOOLEAN
      BY <1>2 DEF Shape, Fields
    <3>4. {n.generation, n.pmd_generation, n.written, n.changes} \subseteq Nat
      BY <1>2 DEF Shape, Fields
    <3> QED BY <3>1, <3>2, <3>3, <3>4 DEF Shape
  <2>2. /\ Kept(n, Now) /\ n.setting = Now.setting /\ n.go = Now.go /\ n.active = Now.active
        /\ n.data = Now.data /\ n.fifo = Now.fifo /\ n.latch = Now.latch
    BY <1>2 DEF Shape, Fields, Kept
  <2> HIDE DEF n
  <2> QED BY <1>1, <2>1, <2>2, RegistersKept
<1> HIDE DEF n
<1>5. Sound(crc') /\ Going(crc')
  BY <1>3, <1>4
<1> QED BY <1>5 DEF IInv, Sound, Going, Held, Numbered, Typed, Shape, Live, LivePmd

LEMMA DispatchKeeps ==
    ASSUME CrcAssumption, IInv, Dispatch
    PROVE  IInv'
<1>1. PICK event \in Due : crc' = IF event.kind = "pmd"
                                   THEN RunPmd([Now EXCEPT !.events = @ \ {event}], event)
                                   ELSE RunCrc([Now EXCEPT !.events = @ \ {event}], event)
  BY DEF Dispatch
<1> DEFINE t == [Now EXCEPT !.events = @ \ {event}]
<1>2. Sound(Now) /\ Going(Now) /\ Now.events = crc.events
  BY NowSound DEF Kept
<1>3. Shape(Now) /\ event \in Now.events
  BY <1>2 DEF Sound, Held, Numbered, Typed, Due
<1>4. event.kind \in {"crc", "pmd"}
  BY <1>3 DEF Shape, Event
<1>5. crc' = IF event.kind = "pmd" THEN RunPmd(t, event) ELSE RunCrc(t, event)
  BY <1>1
<1> HIDE DEF Now
<1>6. /\ Shape(t) /\ t.setting = Now.setting /\ t.go = Now.go /\ t.active = Now.active
      /\ t.data = Now.data /\ t.fifo = Now.fifo /\ t.latch = Now.latch /\ t.on = Now.on
      /\ t.generation = Now.generation /\ t.off = Now.off /\ t.disabled = Now.disabled
      /\ t.pmd_generation = Now.pmd_generation /\ t.events = Now.events \ {event}
  <2>1. Shape(t)
    BY <1>3 DEF Shape, Fields
  <2>2. /\ t.setting = Now.setting /\ t.go = Now.go /\ t.active = Now.active
        /\ t.data = Now.data /\ t.fifo = Now.fifo /\ t.latch = Now.latch /\ t.on = Now.on
        /\ t.generation = Now.generation /\ t.off = Now.off /\ t.disabled = Now.disabled
        /\ t.pmd_generation = Now.pmd_generation /\ t.events = Now.events \ {event}
    BY <1>3 DEF Shape, Fields
  <2> QED BY <2>1, <2>2
<1> HIDE DEF t
<1>7. Typed(t)
  BY <1>2, <1>6 DEF Sound, Held, Numbered, Typed
<1>8. CASE event.kind = "pmd"
  <2>1. Sound(crc') /\ Going(crc')
    BY <1>2, <1>3, <1>5, <1>6, <1>7, <1>8, RunPmdSound
  <2> QED BY <2>1 DEF IInv, Sound, Going, Held, Numbered, Typed, Shape, Live, LivePmd
<1>9. CASE event.kind = "crc"
  <2>1. Numbered(t)
    <3>1. LivePmd(t) = LivePmd(Now)
      BY <1>6, <1>9 DEF LivePmd
    <3> QED BY <1>2, <1>6, <1>7, <3>1 DEF Sound, Held, Numbered
  <2>2. crc' = RunCrc(t, event)
    BY <1>5, <1>9
  <2>3. Sound(crc') /\ Going(crc')
    BY <1>2, <1>3, <1>6, <1>9, <2>1, <2>2, RunCrcSound
  <2> QED BY <2>3 DEF IInv, Sound, Going, Held, Numbered, Typed, Shape, Live, LivePmd
<1> QED BY <1>4, <1>8, <1>9

LEMMA CycleKeeps ==
    ASSUME IInv, CycleEnds
    PROVE  IInv'
<1> DEFINE Later(event) == [event EXCEPT !.left = @ - 1]
           events == {Later(event) : event \in Now.events}
           n == [Now EXCEPT !.ran = FALSE, !.events = events]
<1>1. Sound(Now) /\ Going(Now) /\ Now.events = crc.events
  BY NowSound DEF Kept
<1>2. Shape(Now)
  BY <1>1 DEF Sound, Held, Numbered, Typed
<1>3. crc' = n
  BY DEF CycleEnds
<1>4. \A e \in Now.events : e.left = 1
  BY <1>1, <1>2 DEF CycleEnds, Due, Shape, Event
<1> HIDE DEF Now
<1>5. \A e \in Now.events : /\ Later(e) \in Event /\ Later(e).kind = e.kind
                             /\ Later(e).generation = e.generation /\ Later(e).disabled = e.disabled
  BY <1>2, <1>4 DEF Shape, Event
<1> HIDE DEF Later
<1>6. events \in SUBSET Event
  BY <1>5
<1> HIDE DEF events
<1>7. /\ Shape(n) /\ n.setting = Now.setting /\ n.go = Now.go /\ n.active = Now.active
      /\ n.data = Now.data /\ n.fifo = Now.fifo /\ n.latch = Now.latch /\ n.on = Now.on
      /\ n.generation = Now.generation /\ n.off = Now.off /\ n.disabled = Now.disabled
      /\ n.pmd_generation = Now.pmd_generation /\ n.events = events
  <2>1. Shape(n)
    BY <1>2, <1>6 DEF Shape, Fields
  <2>2. /\ n.setting = Now.setting /\ n.go = Now.go /\ n.active = Now.active
        /\ n.data = Now.data /\ n.fifo = Now.fifo /\ n.latch = Now.latch /\ n.on = Now.on
        /\ n.generation = Now.generation /\ n.off = Now.off /\ n.disabled = Now.disabled
        /\ n.pmd_generation = Now.pmd_generation /\ n.events = events
    BY <1>2 DEF Shape, Fields
  <2> QED BY <2>1, <2>2
<1> HIDE DEF n
<1>8. Typed(n)
  BY <1>1, <1>7 DEF Sound, Held, Numbered, Typed
<1>9. /\ Live(n) = {Later(e) : e \in Live(Now)}
      /\ LivePmd(n) = {Later(e) : e \in LivePmd(Now)}
  BY <1>5, <1>7 DEF Live, LivePmd, events
<1>10. Numbered(n)
  <2>1. \A e \in n.events : e.generation <= IF e.kind = "crc" THEN n.generation ELSE n.pmd_generation
    BY <1>1, <1>5, <1>7 DEF events, Sound, Held, Numbered
  <2>2. \A e \in LivePmd(n) : e.disabled = n.off
    BY <1>1, <1>5, <1>7, <1>9 DEF Sound, Held, Numbered, LivePmd
  <2>3. n.disabled = n.off \/ LivePmd(n) # {}
    BY <1>1, <1>7, <1>9 DEF Sound, Held, Numbered
  <2> QED BY <1>8, <2>1, <2>2, <2>3 DEF Numbered
<1>11. Sound(n) /\ Going(n)
  <2>1. (\A e, f \in Live(n) : e = f) /\ (Live(n) # {} <=> Live(Now) # {})
    BY <1>1, <1>9 DEF Sound
  <2> QED BY <1>1, <1>7, <1>10, <2>1 DEF Sound, Held, Going
<1>12. Sound(crc') /\ Going(crc')
  BY <1>3, <1>11
<1> QED BY <1>12 DEF IInv, Sound, Going, Held, Numbered, Typed, Shape, Live, LivePmd

LEMMA StepInv ==
    ASSUME CrcAssumption, IInv, [Next]_crc PROVE IInv'
<1>1. ASSUME NEW on \in BOOLEAN, NEW go \in BOOLEAN, WriteControl(on, go) PROVE IInv'
  BY <1>1, WriteControlKeeps
<1>2. ASSUME NEW value \in crc.setting.seeds, WriteShift(value) PROVE IInv'
  BY <1>2, WriteShiftKeeps
<1>3. ASSUME NEW word \in crc.setting.values, NEW half \in {"low", "high"}, WriteData(half, word)
      PROVE  IInv'
  BY <1>3, WriteDataKeeps
<1>4. CASE WritePmd
  BY <1>4, WritePmdKeeps
<1>5. CASE Dispatch
  BY <1>5, DispatchKeeps
<1>6. CASE CycleEnds
  BY <1>6, CycleKeeps
<1>7. ASSUME NEW power \in {"active", "idle", "sleep"}, ChangePower(power) PROVE IInv'
  BY <1>7, ChangePowerKeeps
<1>8. CASE UNCHANGED crc
  <2>1. Sound(crc') /\ Going(crc')
    BY <1>8 DEF IInv
  <2> QED BY <2>1 DEF IInv, Sound, Going, Held, Numbered, Typed, Shape, Live, LivePmd
<1> QED BY <1>1, <1>2, <1>3, <1>4, <1>5, <1>6, <1>7, <1>8 DEF Next

LEMMA AlwaysInv ==
    ASSUME CrcAssumption PROVE Spec => []IInv
<1>1. Init => IInv
  BY InitInv
<1>2. IInv /\ [Next]_crc => IInv'
  BY StepInv
<1> QED BY <1>1, <1>2, PTL DEF Spec
-----------------------------------------------------------------------------
\* A generator that runs has its one event and something to work on, one that
\* could run does, and a change of PMD is in effect or has its event: aborts,
\* power states and PMD leave events behind that no longer count (the generation
\* dspic33_device_internal_run_crc compares).
THEOREM CrcEventsAgree ==
    ASSUME CrcAssumption PROVE Spec => []EventsAgree
<1>1. IInv => EventsAgree
  <2> SUFFICES ASSUME IInv PROVE EventsAgree
    OBVIOUS
  <2>1. crc.active = (Live(crc) # {})
    BY DEF IInv, Sound, Held, Numbered, Typed, Shape
  <2>2. (Live(crc) # {}) = (\E event \in crc.events :
                              event.kind = "crc" /\ event.generation = crc.generation)
    BY DEF Live
  <2>3. LivePmd(crc) # {} => \E event \in crc.events : /\ event.kind = "pmd"
                                /\ event.generation = crc.pmd_generation /\ event.disabled = crc.off
    BY DEF IInv, Sound, Held, Numbered, LivePmd
  <2> QED BY <2>1, <2>2, <2>3 DEF IInv, Sound, Held, Numbered, Going, EventsAgree
<1> QED BY <1>1, AlwaysInv, PTL

\* The FIFO never holds more than its capacity and the data is less than a word,
\* although words are cut off, halved and written while the generator is off.
THEOREM WordsFit ==
    ASSUME CrcAssumption
    PROVE  Spec => [](Len(crc.fifo) <= Capacity /\ Len(crc.data) < crc.setting.width)
<1>1. IInv => Len(crc.fifo) <= Capacity /\ Len(crc.data) < crc.setting.width
  BY DEF IInv, Sound, Held, Numbered, Typed
<1> QED BY <1>1, AlwaysInv, PTL
=============================================================================
