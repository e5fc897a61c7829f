-------------------------------- MODULE Spi --------------------------------
(***************************************************************************)
(* One SPI channel (communication/spi.c, its registers in                  *)
(* serial/read_completion.c, its pins in serial/dma.c): a master shifts a  *)
(* word by events of its own, a slave by the edges or the words of the     *)
(* host, with a slave select that may end a transfer at any bit and with   *)
(* frame pulses that admit one.                                            *)
(*                                                                         *)
(* Words are numbered; 0 is what a slave shifts out that was given none.   *)
(* One tick is the period of a bit.  The levels of the pins the channel    *)
(* drives, the bytes the host reads, and received values are left out; the *)
(* interrupt of a standard transfer, a cycle late, is raised at once.      *)
(* Excluded: an event queue that cannot grow, SSEN together with frames,   *)
(* and a change of SSEN while the channel is on.                           *)
(***************************************************************************)
EXTENDS Integers, Sequences, FiniteSets, SequencesExt

CONSTANTS Settings,       \* what SPIxCON1 and SPIxCON2 may hold
          EnhancedSize,   \* 8, the depth of the FIFOs of the enhanced mode
          Width,          \* bits of a word
          MaxWords,       \* bound: words the program writes
          MaxGeneration   \* bound: the program and the host stop; below SPI_EVENT_GENERATION_MASK

Framings == {"none", "master", "slave"}

SpiAssumption ==
    /\ Settings \subseteq [master : BOOLEAN, enhanced : BOOLEAN, ssen : BOOLEAN,
                           framing : Framings, delayed : BOOLEAN, sampled : BOOLEAN,
                           stop_idle : BOOLEAN]
    /\ \A setting \in Settings : setting.ssen => setting.framing = "none"
    /\ EnhancedSize \in Nat \ {0} /\ Width \in Nat \ {0}
    /\ MaxWords \in Nat /\ MaxGeneration \in Nat

VARIABLE spi   \* the registers and cpu->io.spi_* of the channel, its events and history

Kinds == {"internal", "sample", "frame_input", "frame_start", "frame_data", "frame_clear"}
SpiEvent == [kind : Kinds, generation : Nat, word : Nat, left : 0..Width + 1]

Fresh(setting) ==
    [setting |-> setting, on |-> FALSE, clock |-> TRUE, disabled |-> FALSE, power |-> "active",
     selected |-> FALSE, tx |-> <<>>, rx |-> 0, overflow |-> FALSE,
     busy |-> FALSE, shift |-> 0, retained |-> FALSE, bits |-> 0, generation |-> 0,
     frame_active |-> FALSE, output_pending |-> FALSE, clear_pending |-> FALSE,
     events |-> {}, raised |-> {},            \* interrupts of the last step
     \* history: words accepted, the last one shifted out or cleared; a start
     \* whose event is not to come
     written |-> 0, gone |-> 0, stranded |-> FALSE]

Init == \E setting \in Settings : spi = Fresh(setting)
-----------------------------------------------------------------------------
Master(s) == s.setting.master
Capacity(s) == IF s.setting.enhanced THEN EnhancedSize ELSE 1
MasterFrameMaster(s) == Master(s) /\ s.setting.framing = "master"
MasterFrameSlave(s) == Master(s) /\ s.setting.framing = "slave"
SlaveFrameMaster(s) == ~Master(s) /\ s.setting.framing = "master"

PowerEnabled(s) ==
    /\ s.power = "idle" => ~s.setting.stop_idle
    /\ s.power = "sleep" => ~Master(s)

Selected(s) ==
    (IF s.setting.framing # "none" THEN s.setting.framing = "slave"
                                   ELSE ~Master(s) /\ s.setting.ssen)
    => s.selected

Raise(s, irqs) == [s EXCEPT !.raised = @ \union irqs]

\* spi_raise_mode: in the enhanced mode SISEL picks the condition that interrupts.
RaiseModes(s, modes) == IF s.setting.enhanced THEN Raise(s, modes) ELSE s

Event(s, kind, left) ==
    [kind |-> kind, generation |-> s.generation, word |-> s.shift, left |-> left]

Scheduled(s, events) == [s EXCEPT !.events = @ \union events]

FlagsClear(s) ==
    [s EXCEPT !.busy = FALSE, !.retained = FALSE, !.bits = 0, !.frame_active = FALSE,
              !.output_pending = FALSE, !.clear_pending = FALSE]

\* dspic33_device_internal_spi_clear_buffers
ClearBuffers(s) ==
    [FlagsClear(s) EXCEPT !.tx = <<>>, !.rx = 0, !.shift = 0, !.generation = @ + 1,
                          !.gone = s.written, !.stranded = FALSE]

RemoveInternalEvents(s) == [s EXCEPT !.events = {}]

\* dspic33_device_internal_spi_schedule_current
ScheduleCurrent(s) ==
    IF ~s.busy \/ ~Master(s) \/ ~s.clock THEN s
    ELSE IF ~PowerEnabled(s) THEN [s EXCEPT !.stranded = TRUE]
    ELSE Scheduled([s EXCEPT !.stranded = FALSE],
            {Event(s, "internal", Width + 1)}
            \union (IF s.setting.sampled THEN {Event(s, "sample", i) : i \in 1..Width} ELSE {}))

\* spi_start_next_admitted: a frame master asks for the frame first, also while
\* a word is on its way; a slave that can be deselected keeps the word.
Retains(s) == ~Master(s) /\ s.setting.ssen

StartNextAdmitted(s, admitted) ==
    IF ~admitted /\ MasterFrameMaster(s) /\ s.tx # <<>> /\ ~s.output_pending
    THEN Scheduled([s EXCEPT !.output_pending = TRUE], {Event(s, "frame_start", 1)})
    ELSE IF \/ s.busy \/ s.tx = <<>> \/ ~s.on \/ s.disabled
            \/ Retains(s) /\ ~Selected(s)
            \/ MasterFrameSlave(s) /\ ~admitted
    THEN s
    ELSE LET started == [s EXCEPT !.busy = TRUE, !.shift = Head(s.tx), !.retained = Retains(s),
                                  !.tx = IF Retains(s) THEN @ ELSE Tail(@), !.bits = 0]
             framed == CASE MasterFrameMaster(s) -> started
                         [] SlaveFrameMaster(s) ->
                              [started EXCEPT !.output_pending = TRUE, !.clear_pending = FALSE,
                                              !.frame_active = FALSE]
                         [] OTHER -> [started EXCEPT !.frame_active = FALSE]
             told == (IF Len(s.tx) = EnhancedSize THEN {"room"} ELSE {})
                     \union (IF started.tx = <<>> THEN {"empty"} ELSE {})
         IN  ScheduleCurrent(RaiseModes(framed, told))

StartNext(s) == StartNextAdmitted(s, FALSE)

\* spi_receive_word
ReceiveWord(s) ==
    CASE s.overflow -> s
      [] ~s.overflow /\ s.rx >= Capacity(s) ->
           Raise([s EXCEPT !.overflow = TRUE], {"error", "transfer"})
      [] OTHER -> RaiseModes([s EXCEPT !.rx = @ + 1],
                             {"received"} \union IF s.rx + 1 = EnhancedSize THEN {"full"} ELSE {})

\* dspic33_device_internal_spi_complete_transfer
CompleteTransfer_KeepsRetained(s) ==   \* mutant: the word that was kept goes out again
    LET free == [FlagsClear(s) EXCEPT !.gone = IF s.shift = 0 THEN @ ELSE s.shift]
        next == StartNext(ReceiveWord(free))
    IN  CASE ~s.setting.enhanced -> Raise(next, {"transfer"})
          [] s.setting.enhanced /\ ~next.busy /\ next.tx = <<>> -> Raise(next, {"idle"})
          [] OTHER -> next

CompleteTransfer(s) ==
    LET free == [FlagsClear(s) EXCEPT !.gone = IF s.shift = 0 THEN @ ELSE s.shift,
                                      !.tx = IF s.retained THEN Tail(@) ELSE @]
        next == StartNext(ReceiveWord(free))
    IN  CASE ~s.setting.enhanced -> Raise(next, {"transfer"})
          [] s.setting.enhanced /\ ~next.busy /\ next.tx = <<>> -> Raise(next, {"idle"})
          [] OTHER -> next

\* dspic33_device_internal_spi_update_slave_selection: what a slave was
\* shifting out goes back to the FIFO, also when the program never wrote it.
Deselected(s) ==
    [FlagsClear(s) EXCEPT !.tx = IF s.retained THEN @ ELSE <<s.shift>> \o @,
                          !.generation = @ + 1]

UpdateSlaveSelection(s, was) ==
    IF was = s.selected \/ ~Retains(s) THEN s
    ELSE IF s.selected THEN StartNext(s)
    ELSE IF s.busy THEN Deselected(s)
    ELSE s

ScheduleFrameInputSample(s) == Scheduled(s, {Event(s, "frame_input", 1)})

\* A slave that has been given no word shifts what is in its register.
Underrun(s) == IF s.busy THEN s ELSE [s EXCEPT !.busy = TRUE, !.shift = 0]

\* run_spi, for a word of the host: a master takes it in place of the end of
\* its transfer.
ExternalWord(s) ==
    IF s.disabled \/ ~s.on \/ ~PowerEnabled(s) \/ ~Selected(s) \/ (Master(s) /\ ~s.busy) THEN s
    ELSE CompleteTransfer(IF Master(s) THEN [s EXCEPT !.generation = @ + 1] ELSE Underrun(s))

FrameStart(s) ==
    LET seen == [s EXCEPT !.output_pending = FALSE]
        clear == Event(s, "frame_clear", Width)
    IN  CASE MasterFrameSlave(s) -> StartNextAdmitted(seen, TRUE)
          [] MasterFrameMaster(s) ->
               LET raised == Scheduled([seen EXCEPT !.frame_active = TRUE], {clear})
               IN  IF s.setting.delayed THEN StartNextAdmitted(raised, TRUE)
                   ELSE Scheduled(raised, {Event(s, "frame_data", 1)})
          [] OTHER -> seen

\* run_spi, for the events of the channel.
RunSpi(s, event) ==
    IF s.disabled \/ ~s.on \/ event.generation # s.generation THEN s
    ELSE CASE event.kind = "internal" ->
                IF ~s.busy THEN s
                ELSE IF ~PowerEnabled(s) THEN ClearBuffers(s) ELSE CompleteTransfer(s)
           [] event.kind = "sample" -> s       \* a bit of the received value
           [] event.kind = "frame_input" ->
                IF MasterFrameSlave(s) /\ Selected(s)
                THEN Scheduled(s, {Event(s, "frame_start", 1)}) ELSE s
           [] event.kind = "frame_start" -> FrameStart(s)
           [] event.kind = "frame_data" ->
                IF MasterFrameSlave(s) \/ MasterFrameMaster(s)
                THEN StartNextAdmitted(s, TRUE) ELSE s
           [] event.kind = "frame_clear" -> [s EXCEPT !.frame_active = FALSE]
-----------------------------------------------------------------------------
Due == {event \in spi.events : event.left = 0}
Now == [spi EXCEPT !.raised = {}]
Quiet == spi.generation < MaxGeneration
Executes == spi.power = "active" /\ Due = {} /\ ~spi.disabled

\* SPIxSTAT: SPIEN, and SPIROV, which can only be cleared.
WriteStatus(on, overflow) ==
    /\ Executes /\ Quiet
    /\ LET written == [Now EXCEPT !.on = on, !.overflow = @ /\ overflow]
       IN  spi' = IF on THEN written ELSE ClearBuffers(written)

\* SPIxCON1 and SPIxCON2 (dspic33_device_internal_update_spi_register).
WriteControl(setting) ==
    /\ Executes /\ Quiet
    /\ setting.ssen # spi.setting.ssen => ~spi.on
    /\ LET written == [Now EXCEPT !.setting = setting]
           changed(field) == setting[field] # spi.setting[field]
           framed == [written EXCEPT !.frame_active = FALSE, !.output_pending = FALSE,
                                     !.clear_pending = FALSE]
       IN  spi' = CASE changed("master") \/ changed("enhanced") -> ClearBuffers(written)
                    [] changed("framing") \/ changed("delayed") ->
                         StartNext(IF spi.busy THEN framed
                              ELSE RemoveInternalEvents([framed EXCEPT !.generation = @ + 1]))
                    [] OTHER -> written

\* DISSCK: enabling the clock abandons what is on its way, a frame that was
\* asked for with it.
EnableClock_KeepsGeneration ==   \* mutant: an end that is on its way stays good
    ScheduleCurrent([Now EXCEPT !.clock = TRUE])

EnableClock ==
    ScheduleCurrent([Now EXCEPT !.clock = TRUE, !.generation = @ + 1,
                                !.stranded = @ \/ \E event \in spi.events :
                                                event.kind \in {"frame_start", "frame_data"}])

WriteClock(clock) ==
    /\ Executes /\ Quiet /\ clock # spi.clock
    /\ spi' = IF clock THEN EnableClock ELSE [Now EXCEPT !.clock = FALSE]

\* A word that finds no room is dropped (SPITBF); the DMA may write in Idle.
WriteBuffer ==
    /\ Due = {} /\ spi.power # "sleep" /\ spi.written < MaxWords
    /\ spi' = IF ~spi.on \/ spi.disabled \/ Len(spi.tx) >= Capacity(spi) THEN Now
              ELSE LET pushed == [Now EXCEPT !.written = @ + 1,
                                             !.tx = Append(@, spi.written + 1)]
                       full == Len(pushed.tx) = EnhancedSize
                   IN  StartNext(RaiseModes(pushed, IF full THEN {"loaded"} ELSE {}))

\* The read completes in dspic33_device_internal_spi_read_complete.
ReadBuffer ==
    /\ Executes /\ spi.rx > 0
    /\ spi' = RaiseModes([Now EXCEPT !.rx = @ - 1], IF spi.rx = 1 THEN {"drained"} ELSE {})

\* dspic33_device_internal_spi_update_power_state
ChangePower(power) ==
    /\ Due = {} /\ (spi.power = "active") # (power = "active") /\ Quiet
    /\ LET changed == [Now EXCEPT !.power = power]
       IN  spi' = IF Master(spi) /\ ~PowerEnabled(changed)
                  THEN ClearBuffers(RemoveInternalEvents(changed)) ELSE changed

\* The change of PMDx takes effect (run_platform_pmd).
DisableEvent(disabled) ==
    /\ Due = {} /\ disabled # spi.disabled /\ Quiet
    /\ spi' = LET changed == [Now EXCEPT !.disabled = disabled]
              IN  IF disabled THEN ClearBuffers(changed) ELSE changed

HostWord == Due = {} /\ Quiet /\ spi' = ExternalWord(Now)

\* run_spi_select, and the select pin of spi_pin_input, which also ends the
\* bits of a word.
HostSelect(selected, by_pin) ==
    /\ Due = {} /\ Quiet /\ selected # spi.selected
    /\ LET chosen == [Now EXCEPT !.selected = selected,
                                 !.bits = IF by_pin /\ ~selected THEN 0 ELSE @]
           told == UpdateSlaveSelection(chosen, spi.selected)
       IN  spi' = IF MasterFrameSlave(spi) THEN ScheduleFrameInputSample(told) ELSE told

\* spi_pin_input, for an edge of the clock: it samples a bit, or shifts the
\* next one out, which also moves the frame pulse a slave gives.
PinEdge(s, samples) ==
    IF ~s.selected \/ ~s.on \/ s.disabled \/ ~PowerEnabled(s) \/ Master(s) THEN s
    ELSE IF ~samples
    THEN IF ~SlaveFrameMaster(s) \/ ~s.busy THEN s
         ELSE IF s.output_pending
         THEN [s EXCEPT !.output_pending = FALSE, !.clear_pending = TRUE, !.frame_active = TRUE]
         ELSE [s EXCEPT !.clear_pending = FALSE, !.frame_active = @ /\ ~s.clear_pending]
    ELSE IF SlaveFrameMaster(s) /\ (s.output_pending \/ s.clear_pending) THEN s
    ELSE LET bit == [Underrun(s) EXCEPT !.bits = @ + 1]
         IN  IF bit.bits = Width THEN CompleteTransfer(bit) ELSE bit

HostEdge(samples) == Due = {} /\ spi' = PinEdge(Now, samples)

Dispatch ==
    \E event \in Due :
       spi' = RunSpi([Now EXCEPT !.events = @ \ {event}], event)

Tick ==
    /\ Due = {} /\ spi.events # {}
    /\ spi' = [Now EXCEPT !.events = {[event EXCEPT !.left = @ - 1] : event \in @}]

Program ==
    \/ \E on, overflow \in BOOLEAN : WriteStatus(on, overflow)
    \/ \E setting \in Settings : WriteControl(setting)
    \/ \E clock \in BOOLEAN : WriteClock(clock)
    \/ WriteBuffer \/ ReadBuffer
    \/ \E power \in {"active", "idle", "sleep"} : ChangePower(power)
    \/ \E disabled \in BOOLEAN : DisableEvent(disabled)

Host ==
    \/ HostWord
    \/ \E selected, by_pin \in BOOLEAN : HostSelect(selected, by_pin)
    \/ \E samples \in BOOLEAN : HostEdge(samples)

Next == Program \/ Host \/ Dispatch \/ Tick

Spec == Init /\ [][Next]_spi
-----------------------------------------------------------------------------
TypeOK ==
    /\ spi.setting \in Settings /\ spi.power \in {"active", "idle", "sleep"}
    /\ spi.rx <= Capacity(spi) /\ spi.bits \in 0..Width - 1
    /\ spi.events \subseteq SpiEvent
    /\ \A event \in spi.events : event.generation <= spi.generation

Live == {event \in spi.events : event.generation = spi.generation}

\* The end and the samples that still count are those of the word that is being
\* shifted, and a master that shifts a word with its clock on has its one end to
\* come.  A word waits only for the select, for its frame, or for a start that
\* went astray: in Idle, and when the clock was enabled before the frame began.
EventsAgree ==
    /\ \A event \in Live :
          event.kind \in {"internal", "sample"}
          => Master(spi) /\ spi.busy /\ event.word = spi.shift
    /\ Master(spi) /\ spi.busy /\ spi.clock /\ ~spi.stranded
       => Cardinality({event \in Live : event.kind = "internal"}) = 1
    /\ spi.on /\ ~spi.disabled /\ ~spi.busy /\ spi.tx # <<>>
       => \/ Retains(spi) /\ ~spi.selected
          \/ MasterFrameSlave(spi)
          \/ \E event \in Live : event.kind \in {"frame_start", "frame_data"}
          \/ spi.stranded

\* Words are shifted out in the order in which they were accepted, and what a
\* deselection cuts short is shifted again, whatever gets in between.
WordsKept ==
    LET sending == (IF spi.busy /\ ~spi.retained THEN <<spi.shift>> ELSE <<>>) \o spi.tx
        given == SelectSeq(sending, LAMBDA word : word # 0)
    IN  given = [i \in 1..(spi.written - spi.gone) |-> spi.gone + i]

=============================================================================
