-------------------------------- MODULE Crc --------------------------------
(***************************************************************************)
(* The CRC generator (memory/crc.c, its registers in memory/registers.c):  *)
(* words wait in a FIFO and go through the shift register two bits a       *)
(* cycle, an event each cycle, while the program, DMA and the power        *)
(* management change what it works on.  The width, the order of the bits   *)
(* and the polynomial stay what they are while there are words; writes of  *)
(* single bytes of CRCDAT are left out.                                    *)
(***************************************************************************)
EXTENDS Integers, Sequences, SequencesExt, FiniteSets

CONSTANTS Capacity,       \* crc_capacity
          BitsPerCycle,   \* CRC_BITS_PER_CYCLE
          Settings        \* of the configuration, of which the program keeps one.  halves: a word
                          \* is wider than CRCDATL; low: bits of a low half; values, seeds:
                          \* what is written to CRCDAT and CRCWDAT; words, changes: bounds

CrcAssumption ==
    /\ {Capacity, BitsPerCycle} \subseteq Nat \ {0}
    /\ \A setting \in Settings :
          /\ setting.width \in Nat \ {0} /\ setting.polynomial \in Seq({0, 1})
          /\ setting.little \in BOOLEAN /\ setting.halves \in BOOLEAN
          /\ setting.empty_interrupt \in BOOLEAN /\ setting.stop_idle \in BOOLEAN
          /\ setting.values \subseteq [1..setting.width -> {0, 1}]
          /\ setting.low \in 0..setting.width /\ setting.seeds \subseteq [DOMAIN setting.polynomial -> {0, 1}]
          /\ {setting.words, setting.changes} \subseteq Nat

VARIABLE crc   \* the registers, cpu->io.crc, its events, and history

\* Words, the polynomial (without its leading term) and the shift register are
\* their bits, the most significant first.
Degree(c) == Len(c.setting.polynomial)
Zero(n) == [i \in 1..n |-> 0]

Fresh(setting) ==
    [setting |-> setting, on |-> FALSE, go |-> FALSE, fifo |-> <<>>, latch |-> Zero(setting.low),
     shift |-> Zero(Len(setting.polynomial)), data |-> <<>>,     \* bits_remaining of shift_data
     active |-> FALSE, generation |-> 0, power |-> "active", ran |-> FALSE,
     off |-> FALSE, disabled |-> FALSE, pmd_generation |-> 0, events |-> {}, raised |-> FALSE,
     written |-> 0, changes |-> 0,
     \* history: what the shift register was when it was last written or a word was
     \* cut off, and the words that were in the FIFO then or came since
     seed |-> Zero(Len(setting.polynomial)), words |-> <<>>]

Init == \E setting \in Settings : crc = Fresh(setting)
-----------------------------------------------------------------------------
CrcEvent(c) == [kind |-> "crc", generation |-> c.generation, left |-> 1, disabled |-> FALSE]

\* crc_schedule
Schedule(c) == [c EXCEPT !.active = TRUE, !.events = @ \union {CrcEvent(c)}]

\* dspic33_device_internal_crc_abort
Abort_KeepsActive(c) ==   \* mutant: still active
    [c EXCEPT !.generation = @ + 1, !.data = <<>>, !.seed = c.shift, !.words = c.fifo]

\* The rest of the word in the shift register is lost.
Abort(c) ==
    [c EXCEPT !.generation = @ + 1, !.active = FALSE, !.data = <<>>,
              !.seed = c.shift, !.words = c.fifo]

\* dspic33_device_internal_crc_reset_runtime
ResetRuntime(c) ==
    [c EXCEPT !.fifo = <<>>, !.latch = Zero(c.setting.low), !.shift = Zero(Degree(c)), !.data = <<>>,
              !.active = FALSE, !.generation = @ + 1, !.go = FALSE,
              !.seed = Zero(Degree(c)), !.words = <<>>]

\* dspic33_device_internal_crc_start_if_ready
StartIfReady(c) == IF c.on /\ c.go /\ ~c.active /\ c.fifo # <<>> THEN Schedule(c) ELSE c

\* dspic33_device_internal_crc_push
Push_OneMore(c, word) ==   \* mutant: a full FIFO takes the word
    IF Len(c.fifo) > Capacity THEN c
    ELSE StartIfReady([c EXCEPT !.fifo = Append(@, word), !.words = Append(@, word)])

Push(c, word) ==
    IF Len(c.fifo) >= Capacity THEN c
    ELSE StartIfReady([c EXCEPT !.fifo = Append(@, word), !.words = Append(@, word)])

Raise(c, on_empty) == IF c.setting.empty_interrupt = on_empty THEN [c EXCEPT !.raised = TRUE] ELSE c

\* The bits of a word in the order in which they go in.
InOrder(c, word) == IF c.setting.little THEN Reverse(word) ELSE word

\* crc_load_shift_data
Load(c) ==
    LET loaded == [c EXCEPT !.data = InOrder(c, Head(c.fifo)), !.fifo = Tail(@)]
    IN  IF loaded.fifo = <<>> THEN Raise(loaded, TRUE) ELSE loaded

Xor(a, b) == IF a = b THEN 0 ELSE 1

\* crc_shift_bits, one of its turns
ShiftBit_NoFeedback(c, shift, bit) ==   \* mutant: the data is not part of the feedback
    LET moved == Append(Tail(shift), 0)
    IN  IF Head(shift) = 1 THEN [i \in 1..Degree(c) |-> Xor(moved[i], c.setting.polynomial[i])]
        ELSE moved

ShiftBit(c, shift, bit) ==
    LET moved == Append(Tail(shift), 0)
    IN  IF Xor(Head(shift), bit) = 1
        THEN [i \in 1..Degree(c) |-> Xor(moved[i], c.setting.polynomial[i])]
        ELSE moved

ShiftBits(c) ==
    LET some == IF Len(c.data) < BitsPerCycle THEN Len(c.data) ELSE BitsPerCycle
    IN  [c EXCEPT !.shift = FoldLeft(LAMBDA shift, bit : ShiftBit(c, shift, bit), @,
                                     SubSeq(c.data, 1, some)),
                  !.data = SubSeq(@, some + 1, Len(@))]

Stopped(c) == c.disabled \/ c.power = "sleep" \/ (c.power = "idle" /\ c.setting.stop_idle)

\* dspic33_device_internal_run_crc
RunCrc(c, event) ==
    IF event.generation # c.generation \/ ~c.active \/ ~c.on \/ ~c.go THEN c
    ELSE IF Stopped(c) THEN Schedule(c)
    ELSE LET done == ShiftBits(IF c.data = <<>> THEN Load(c) ELSE c)
         IN  IF done.data = <<>> /\ done.fifo = <<>>
             THEN Raise([done EXCEPT !.active = FALSE, !.go = FALSE], FALSE)
             ELSE Schedule(done)

\* dspic33_device_internal_run_crc_pmd
RunPmd(c, event) ==
    IF event.generation # c.pmd_generation THEN c
    ELSE IF event.disabled THEN [c EXCEPT !.disabled = TRUE]
    ELSE StartIfReady([c EXCEPT !.disabled = FALSE])

\* update_crc_data: a word wider than CRCDATL is complete with its high half.
WriteHalf(c, half, word) ==
    CASE ~c.on -> c
      [] c.on /\ ~c.setting.halves -> Push(c, word)
      [] c.on /\ c.setting.halves /\ half = "low" ->
            [c EXCEPT !.latch = SubSeq(word, c.setting.width - c.setting.low + 1, c.setting.width)]
      [] OTHER ->
            [Push(c, SubSeq(word, 1, c.setting.width - c.setting.low) \o c.latch)
                EXCEPT !.latch = Zero(c.setting.low)]
-----------------------------------------------------------------------------
Due == {event \in crc.events : event.left = 0}
Now == [crc EXCEPT !.raised = FALSE]

\* An instruction takes at least a cycle.
Executes == Due = {} /\ crc.power = "active" /\ ~crc.ran /\ crc.changes < crc.setting.changes
Executed(c) == [c EXCEPT !.ran = TRUE, !.changes = @ + 1]

\* update_crc_control
WriteControl(on, go) ==
    /\ Executes
    /\ LET written == [Now EXCEPT !.on = on, !.go = go]
           after == CASE ~on -> ResetRuntime(written)
                      [] on /\ crc.go /\ ~go -> Abort(written)
                      [] on /\ ~crc.go /\ go -> StartIfReady(written)
                      [] OTHER -> written
       IN  crc' = Executed(IF crc.disabled THEN Now ELSE after)

\* CRCWDAT can be written only while nothing runs (dspic33_device_internal_update_crc_register).
WriteShift(value) ==
    /\ Executes
    /\ crc' = Executed(IF crc.disabled \/ crc.go THEN Now
                       ELSE [Now EXCEPT !.shift = value, !.seed = value, !.words = crc.fifo])

\* CRCDAT, written by the program or by DMA, which also runs in Idle.
WriteData(half, word) ==
    /\ Due = {} /\ crc.power # "sleep" /\ crc.written < crc.setting.words
    /\ crc' = LET written == [Now EXCEPT !.written = @ + 1]
              IN  IF crc.disabled THEN written ELSE WriteHalf(written, half, word)

\* dspic33_device_internal_update_crc_pmd
WritePmd ==
    /\ Executes
    /\ crc' = Executed([Now EXCEPT !.off = ~@, !.pmd_generation = @ + 1,
                                   !.events = @ \union {[kind |-> "pmd", left |-> 1, disabled |-> ~crc.off,
                                                         generation |-> crc.pmd_generation + 1]}])

ChangePower(power) ==
    /\ Due = {} /\ ~crc.ran /\ (crc.power = "active") # (power = "active")
    /\ crc.changes < crc.setting.changes
    /\ crc' = [Now EXCEPT !.power = power, !.changes = @ + 1]

Dispatch ==
    \E event \in Due :
       LET taken == [Now EXCEPT !.events = @ \ {event}]
       IN  crc' = IF event.kind = "pmd" THEN RunPmd(taken, event) ELSE RunCrc(taken, event)

CycleEnds ==
    /\ Due = {} /\ (crc.ran \/ crc.events # {})
    /\ crc' = [Now EXCEPT !.ran = FALSE, !.events = {[event EXCEPT !.left = @ - 1] : event \in @}]

Next ==
    \/ \E on, go \in BOOLEAN : WriteControl(on, go)
    \/ \E value \in crc.setting.seeds : WriteShift(value)
    \/ \E word \in crc.setting.values, half \in {"low", "high"} : WriteData(half, word)
    \/ WritePmd \/ Dispatch \/ CycleEnds
    \/ \E power \in {"active", "idle", "sleep"} : ChangePower(power)

Spec == Init /\ [][Next]_crc
-----------------------------------------------------------------------------
TypeOK ==
    /\ crc.setting \in Settings /\ Len(crc.fifo) <= Capacity
    /\ Len(crc.shift) = Degree(crc) /\ Len(crc.data) < crc.setting.width
    /\ \A event \in crc.events : event.left \in 0..1 /\ event.kind \in {"crc", "pmd"}

\* A generator that runs has its one event and what it needs to go on, one that
\* could run does, and PMD is in effect or on its way.
EventsAgree ==
    /\ crc.active => crc.on /\ crc.go /\ (crc.data # <<>> \/ crc.fifo # <<>>)
    /\ crc.active = (\E event \in crc.events :
                        event.kind = "crc" /\ event.generation = crc.generation)
    /\ crc.on /\ crc.go /\ crc.fifo # <<>> => crc.active
    /\ crc.data # <<>> => crc.active
    /\ \/ crc.disabled = crc.off
       \/ \E event \in crc.events :
             event.kind = "pmd" /\ event.generation = crc.pmd_generation /\ event.disabled = crc.off

\* Long division of a message by the polynomial, over GF(2).
Remainder(polynomial, message) ==
    LET degree == Len(polynomial)
        Divide(rest, i) ==
           IF rest[i] = 0 THEN rest
           ELSE [j \in DOMAIN rest |->
                   CASE j = i -> 0
                     [] j > i /\ j <= i + degree -> Xor(rest[j], polynomial[j - i])
                     [] OTHER -> rest[j]]
        steps == Len(message) - degree
        divided == FoldLeft(Divide, message, [i \in 1..steps |-> i])
    IN  SubSeq(divided, steps + 1, Len(message))

\* Between two words the shift register is the remainder of what was written to
\* it and the words that have gone in since, in the order they were accepted.
WordsKept ==
    LET taken == Len(crc.words) - Len(crc.fifo)
        bits == FlattenSeq([i \in 1..taken |-> InOrder(crc, crc.words[i])])
        length == Len(bits) + Degree(crc)
        message == [i \in 1..length |-> Xor(IF i <= Degree(crc) THEN crc.seed[i] ELSE 0,
                                            IF i <= Len(bits) THEN bits[i] ELSE 0)]
    IN  /\ crc.fifo = SubSeq(crc.words, taken + 1, Len(crc.words))
        /\ crc.data = <<>> => crc.shift = Remainder(crc.setting.polynomial, message)

=============================================================================
