-------------------------------- MODULE Pmp --------------------------------
(***************************************************************************)
(* The parallel master port (communication/pmp.c, the host's calls in      *)
(* communication/serial/dma.c).  As a master it moves one word at a time;  *)
(* BUSY ends a cycle before the word is on the port, so that the next      *)
(* transfer may begin while the former one completes.  As a slave it has   *)
(* buffers which the host and the program fill and empty.  The events of   *)
(* the master are paused with its clock; of those of one cycle the first   *)
(* scheduled comes first (EventOrder).                                     *)
(*                                                                         *)
(* Transfers the program starts and bytes of the host are numbered.  Left  *)
(* out: the width of the bus, the enables of strobes and chip selects (all *)
(* set), and registers that change the mode while the port is on.          *)
(***************************************************************************)
EXTENDS Integers, Sequences, FiniteSets, SequencesExt

CONSTANTS Buffers,     \* of a slave: 4
          QueueSize,   \* DSPIC33_PMP_QUEUE_SIZE
          Addresses,   \* of the address counter
          Settings     \* mode; cycles: pmp_transfer_cycles; step: INCM; stop_idle; each: IRQM;
                       \* transfers, responses, bytes, changes: bounds

PmpAssumption ==
    /\ {Buffers, QueueSize, Addresses} \subseteq Nat \ {0}
    /\ Settings \subseteq [mode : {"master", "legacy", "buffered", "addressable"},
                           cycles : Nat \ {0}, step : {-1, 0, 1}, stop_idle : BOOLEAN,
                           interrupt : {"none", "each", "last"}, transfers : Nat, responses : Nat,
                           bytes : Nat, changes : Nat]

VARIABLE pmp   \* PMCON, PMMODE, PMADDR, PMDIN, PMSTAT, cpu->io.pmp, its events in order, and history

Indices == 0..Buffers - 1
NoTransfer == [number |-> 0, reading |-> FALSE, generation |-> 0]

Fresh(setting) ==
    [setting |-> setting, on |-> FALSE, power |-> "active", off |-> FALSE, disabled |-> FALSE,
     pmd_generation |-> 0, ran |-> FALSE, stopped |-> FALSE, raised |-> FALSE,
     address |-> 0, busy |-> FALSE, active |-> FALSE, generation |-> 0, current |-> NoTransfer,
     completing_active |-> FALSE, completing |-> NoTransfer,
     events |-> <<>>, output |-> <<>>, input |-> <<>>,
     full |-> {}, empty |-> {}, ibf |-> FALSE, obe |-> FALSE, overflow |-> FALSE, underflow |-> FALSE,
     held |-> [i \in Indices |-> 0], read_index |-> 0, write_index |-> 0,
     changes |-> 0,
     \* history: transfers started, the last write the host took; responses given
     \* and those used; bytes of the host that were taken, how many the program got
     started |-> 0, gone |-> 0, given |-> 0, bytes |-> 0, fetched |-> 0, reads |-> <<>>]

Init == \E setting \in Settings : pmp = Fresh(setting)
-----------------------------------------------------------------------------
Master(p) == p.setting.mode = "master"
Buffered(p) == p.setting.mode \in {"buffered", "addressable"}

ClockAvailable(p) ==
    ~p.disabled /\ p.power # "sleep" /\ (p.power = "idle" => ~p.setting.stop_idle)

MasterEnabled(p) == ClockAvailable(p) /\ p.on /\ Master(p)
SlaveConfigured(p) == ~p.disabled /\ p.on /\ ~Master(p)

MasterEvent(event) == event.kind \in {"complete", "clear"}

Schedule(p, kind, generation, left) ==
    [p EXCEPT !.events = Append(@, [kind |-> kind, generation |-> generation, left |-> left,
                                    paused |-> FALSE, disabled |-> FALSE])]

\* pmp_pause_master_events and pmp_resume_master_events
PowerStateChanged_NoResume(p) ==   \* mutant: what is paused stays so
    [p EXCEPT !.events = [i \in DOMAIN @ |->
       [@[i] EXCEPT !.paused = @ \/ (MasterEvent(p.events[i]) /\ ~ClockAvailable(p))]]]

PowerStateChanged(p) ==
    [p EXCEPT !.events = [i \in DOMAIN @ |->
       [@[i] EXCEPT !.paused = MasterEvent(p.events[i]) /\ ~ClockAvailable(p)]]]

\* pmp_update_address
UpdateAddress(p) == [p EXCEPT !.address = (@ + p.setting.step) % Addresses]

\* pmp_abort
Abort(p) ==
    LET lost == (IF p.active /\ ~p.current.reading THEN 1 ELSE 0)
                + (IF p.completing_active /\ ~p.completing.reading THEN 1 ELSE 0)
    IN  [p EXCEPT !.generation = @ + 1, !.events = SelectSeq(@, LAMBDA event : ~MasterEvent(event)),
                  !.active = FALSE, !.completing_active = FALSE, !.busy = FALSE,
                  !.current = NoTransfer, !.completing = NoTransfer, !.started = @ - lost]

\* pmp_start_transfer
StartTransfer(p, reading) ==
    LET number == IF reading THEN 0 ELSE p.started + 1
        started == [p EXCEPT !.generation = @ + 1, !.active = TRUE, !.busy = p.setting.cycles > 1,
                             !.started = IF reading THEN @ ELSE @ + 1,
                             !.current = [number |-> number, reading |-> reading,
                                          generation |-> p.generation + 1]]
        whole == Schedule(started, "complete", started.generation, p.setting.cycles)
    IN  IF p.setting.cycles = 1 THEN whole
        ELSE Schedule(whole, "clear", started.generation, p.setting.cycles - 1)

\* dspic33_device_internal_pmp_clear_busy
ClearBusy(p, event) ==
    IF ~p.active \/ event.generation # p.generation THEN p
    ELSE UpdateAddress([p EXCEPT !.completing = p.current, !.completing_active = TRUE,
                                 !.active = FALSE, !.current = NoTransfer, !.busy = FALSE])

Pushed(p, number) ==
    IF Len(p.output) = QueueSize THEN [p EXCEPT !.stopped = TRUE]
    ELSE [p EXCEPT !.output = Append(@, number)]

Interrupt(p, index) ==
    IF \/ p.setting.interrupt = "each"
       \/ p.setting.interrupt = "last" /\ Buffered(p) /\ index = Buffers - 1
    THEN [p EXCEPT !.raised = TRUE] ELSE p

\* The response whose time has come, if there is one (pmp_response_pop).
Responded(p) ==
    IF p.input # <<>> /\ Head(p.input).left = 0
    THEN [p EXCEPT !.input = Tail(@), !.reads = Append(@, Head(p.input).number)]
    ELSE p

\* dspic33_device_internal_run_pmp
Completed(p, transfer) ==
    LET moved == IF transfer.reading THEN Responded(p) ELSE Pushed(p, transfer.number)
    IN  IF p.setting.interrupt = "each" /\ ~moved.stopped THEN [moved EXCEPT !.raised = TRUE] ELSE moved

RunPmp_CurrentFirst(p, event) ==   \* mutant: a completion is taken for that of the new transfer
    CASE p.active ->
            Completed(UpdateAddress([p EXCEPT !.active = FALSE, !.current = NoTransfer,
                                              !.busy = FALSE]), p.current)
      [] ~p.active /\ p.completing_active ->
            Completed([p EXCEPT !.completing_active = FALSE, !.completing = NoTransfer], p.completing)
      [] OTHER -> p

RunPmp(p, event) ==
    CASE p.completing_active /\ event.generation = p.completing.generation ->
            Completed([p EXCEPT !.completing_active = FALSE, !.completing = NoTransfer], p.completing)
      [] ~(p.completing_active /\ event.generation = p.completing.generation)
         /\ p.active /\ event.generation = p.generation ->
            Completed(UpdateAddress([p EXCEPT !.active = FALSE, !.current = NoTransfer,
                                              !.busy = FALSE]), p.current)
      [] OTHER -> p

\* pmp_refresh_slave_status
RefreshSlaveStatus(p) ==
    IF ~Buffered(p) THEN p
    ELSE [p EXCEPT !.ibf = p.full = Indices, !.obe = p.empty = Indices]

\* dspic33_device_internal_pmp_slave_write_event: a full buffer keeps its byte.
SlaveWrite_NoCheck(p, address) ==   \* mutant: the byte that is there is lost unreported
    LET index == IF p.setting.mode = "addressable" THEN address
                 ELSE IF Buffered(p) THEN p.write_index ELSE 0
        came == [p EXCEPT !.bytes = @ + 1, !.held[index] = p.bytes + 1,
                          !.full = IF Buffered(p) THEN @ \union {index} ELSE @,
                          !.ibf = ~Buffered(p) \/ @,
                          !.write_index = IF p.setting.mode = "buffered" THEN (@ + 1) % Buffers ELSE @]
    IN  Interrupt(RefreshSlaveStatus(came), index)

SlaveWrite(p, address) ==
    IF ~SlaveConfigured(p) THEN p
    ELSE LET index == CASE p.setting.mode = "addressable" -> address
                        [] p.setting.mode = "buffered" -> p.write_index
                        [] p.setting.mode = "legacy" -> 0
             occupied == IF Buffered(p) THEN index \in p.full ELSE p.ibf
             moved == [p EXCEPT !.write_index = IF p.setting.mode = "buffered" THEN (@ + 1) % Buffers
                                                                              ELSE @]
             after == IF occupied THEN [moved EXCEPT !.overflow = TRUE]
                      ELSE [moved EXCEPT !.bytes = @ + 1, !.held[index] = p.bytes + 1,
                                         !.full = IF Buffered(p) THEN @ \union {index} ELSE @,
                                         !.ibf = ~Buffered(p) \/ @]
         IN  Interrupt(RefreshSlaveStatus(after), index)

\* dspic33_device_internal_pmp_slave_read_event
SlaveRead(p, address) ==
    IF ~SlaveConfigured(p) THEN p
    ELSE LET index == CASE p.setting.mode = "addressable" -> address
                        [] p.setting.mode = "buffered" -> p.read_index
                        [] p.setting.mode = "legacy" -> 0
             vacant == IF Buffered(p) THEN index \in p.empty ELSE p.obe
             moved == [p EXCEPT !.read_index = IF p.setting.mode = "buffered" THEN (@ + 1) % Buffers
                                                                             ELSE @,
                                !.underflow = @ \/ vacant,
                                !.empty = IF Buffered(p) THEN @ \union {index} ELSE @,
                                !.obe = ~Buffered(p) \/ @, !.started = @ + 1]
             pushed == Pushed(RefreshSlaveStatus(moved), p.started + 1)
         IN  IF pushed.stopped THEN pushed ELSE Interrupt(pushed, index)

\* pmp_read_slave_buffer and pmp_write_slave_buffer: an access of a word empties
\* or fills two buffers.
Emptied(p, indices) ==
    [p EXCEPT !.fetched = @ + Cardinality({i \in indices : p.held[i] # 0}),
              !.held = [i \in Indices |-> IF i \in indices THEN 0 ELSE @[i]]]

ReadBuffers(p, indices) ==
    IF Buffered(p) THEN RefreshSlaveStatus([Emptied(p, indices) EXCEPT !.full = @ \ indices])
    ELSE IF 0 \in indices THEN [Emptied(p, {0}) EXCEPT !.ibf = FALSE] ELSE p

WriteBuffers(p, indices) ==
    IF Buffered(p) THEN RefreshSlaveStatus([p EXCEPT !.empty = @ \ indices])
    ELSE IF 0 \in indices THEN [p EXCEPT !.obe = FALSE] ELSE p
-----------------------------------------------------------------------------
Ready == {i \in DOMAIN pmp.events : pmp.events[i].left = 0 /\ ~pmp.events[i].paused}
Now == [pmp EXCEPT !.raised = FALSE]
Running == Ready = {} /\ ~pmp.stopped
Executes == Running /\ pmp.power = "active" /\ ~pmp.ran
Changeable == Executes /\ pmp.changes < pmp.setting.changes
Executed(p) == [p EXCEPT !.ran = TRUE]
Changed(p) == [p EXCEPT !.ran = TRUE, !.changes = @ + 1]

\* PMCON: PMPEN (dspic33_device_internal_update_pmp_register).
WriteControl ==
    /\ Changeable
    /\ LET written == [Now EXCEPT !.on = ~@]
           after == IF pmp.on THEN Abort(written)
                    ELSE [Emptied(written, Indices) EXCEPT
                             !.full = {}, !.ibf = FALSE, !.overflow = FALSE,
                             !.empty = Indices, !.obe = TRUE, !.underflow = FALSE,
                             !.read_index = 0, !.write_index = 0]
       IN  pmp' = Changed(IF pmp.disabled THEN Now ELSE after)

\* PMDIN of a master, by the program or by DMA: a transfer starts unless one is active.
WriteData ==
    /\ Running /\ pmp.power # "sleep" /\ ~pmp.ran /\ Master(pmp) /\ pmp.generation < pmp.setting.transfers
    /\ pmp' = Executed(IF pmp.active \/ ~MasterEnabled(pmp) THEN Now ELSE StartTransfer(Now, FALSE))

ReadData ==
    /\ Executes /\ Master(pmp) /\ pmp.generation < pmp.setting.transfers
    /\ pmp' = Executed(IF pmp.active \/ ~MasterEnabled(pmp) THEN Now ELSE StartTransfer(Now, TRUE))

\* PMDIN1 and PMDIN2, PMDOUT1 and PMDOUT2 of a slave, a byte or a word of them.
Accessed == {{i} : i \in Indices} \union {{2 * i, 2 * i + 1} : i \in 0..(Buffers \div 2) - 1}

ReadInput(indices) ==
    /\ Executes /\ SlaveConfigured(pmp)
    /\ pmp' = Executed(ReadBuffers(Now, indices))

WriteOutput(indices) ==
    /\ Executes /\ SlaveConfigured(pmp)
    /\ pmp' = Executed(WriteBuffers(Now, indices))

\* PMSTAT: IBOV and OBUF can be cleared.
ClearStatus ==
    /\ Executes /\ ~pmp.disabled /\ (pmp.overflow \/ pmp.underflow)
    /\ pmp' = Executed([Now EXCEPT !.overflow = FALSE, !.underflow = FALSE])

\* dspic33_device_internal_update_pmp_pmd
WritePmd ==
    /\ Changeable
    /\ LET counted == [Now EXCEPT !.off = ~@, !.pmd_generation = @ + 1]
       IN  pmp' = Changed([counted EXCEPT !.events = Append(@,
                              [kind |-> "pmd", generation |-> pmp.pmd_generation + 1, left |-> 1,
                               paused |-> FALSE, disabled |-> ~pmp.off])])

ChangePower(power) ==
    /\ Running /\ ~pmp.ran /\ (pmp.power = "active") # (power = "active")
    /\ pmp.changes < pmp.setting.changes
    /\ pmp' = PowerStateChanged([Now EXCEPT !.power = power, !.changes = @ + 1])

\* dspic33_pmp_transmit, dspic33_pmp_respond and the calls of a master outside.
HostTransmit ==
    /\ Running /\ pmp.output # <<>>
    /\ pmp' = [Now EXCEPT !.output = Tail(@), !.gone = Head(pmp.output)]

\* dspic33_device_internal_pmp_response_push
Inserted(queue, response) ==
    LET earlier == SelectSeq(queue, LAMBDA r : r.left <= response.left)
    IN  SubSeq(queue, 1, Len(earlier)) \o <<response>> \o SubSeq(queue, Len(earlier) + 1, Len(queue))

HostRespond(delay) ==
    /\ Running /\ Len(pmp.input) < QueueSize /\ pmp.given < pmp.setting.responses
    /\ pmp' = [Now EXCEPT !.given = @ + 1,
                          !.input = Inserted(@, [number |-> pmp.given + 1, left |-> delay])]

HostWrite(address) ==
    /\ Running /\ ~Master(pmp) /\ pmp.bytes < pmp.setting.bytes
    /\ pmp' = SlaveWrite(Now, address)

HostRead(address) ==
    /\ Running /\ ~Master(pmp) /\ pmp.started < pmp.setting.transfers
    /\ pmp' = SlaveRead(Now, address)

\* dspic33_device_internal_run_pmp_pmd
RunPmd(p, event) ==
    IF event.generation # p.pmd_generation THEN p
    ELSE PowerStateChanged([p EXCEPT !.disabled = event.disabled])

First_Latest(ready) == CHOOSE i \in ready : \A j \in ready : i >= j   \* mutant: the last scheduled

First(ready) == CHOOSE i \in ready : \A j \in ready : i <= j

Dispatch ==
    /\ Ready # {} /\ ~pmp.stopped
    /\ LET event == pmp.events[First(Ready)]
           taken == [Now EXCEPT !.events = RemoveAt(@, First(Ready))]
       IN  pmp' = CASE event.kind = "complete" -> RunPmp(taken, event)
                    [] event.kind = "clear" -> ClearBusy(taken, event)
                    [] event.kind = "pmd" -> RunPmd(taken, event)

CycleEnds ==
    /\ Running /\ (pmp.ran \/ pmp.events # <<>> \/ \E i \in DOMAIN pmp.input : pmp.input[i].left > 0)
    /\ pmp' = [Now EXCEPT !.ran = FALSE,
                          !.events = [i \in DOMAIN @ |->
                             IF @[i].paused THEN @[i] ELSE [@[i] EXCEPT !.left = @ - 1]],
                          !.input = [i \in DOMAIN @ |->
                             [@[i] EXCEPT !.left = IF @ = 0 THEN 0 ELSE @ - 1]]]

Next ==
    \/ WriteControl \/ WriteData \/ ReadData \/ ClearStatus \/ WritePmd
    \/ \E indices \in Accessed : ReadInput(indices) \/ WriteOutput(indices)
    \/ \E power \in {"active", "idle", "sleep"} : ChangePower(power)
    \/ HostTransmit \/ \E delay \in 0..2 : HostRespond(delay)
    \/ \E address \in Indices : HostWrite(address) \/ HostRead(address)
    \/ Dispatch \/ CycleEnds

Spec == Init /\ [][Next]_pmp
-----------------------------------------------------------------------------
TypeOK ==
    /\ pmp.setting \in Settings /\ pmp.address \in 0..Addresses - 1
    /\ Len(pmp.output) <= QueueSize /\ Len(pmp.input) <= QueueSize
    /\ pmp.full \subseteq Indices /\ pmp.empty \subseteq Indices
    /\ \A i \in DOMAIN pmp.events : pmp.events[i].left \in 0..pmp.setting.cycles

Pending(kind, generation) ==
    {i \in DOMAIN pmp.events : pmp.events[i].kind = kind /\ pmp.events[i].generation = generation}

\* No event of the master is stale: each transfer has those that end it, and
\* BUSY is set until a cycle before; they stand still exactly while the clock
\* does, and the flags of all buffers are those of each.
EventsAgree ==
    /\ pmp.active =>
          /\ Cardinality(Pending("complete", pmp.generation)) = 1
          /\ Cardinality(Pending("clear", pmp.generation)) = IF pmp.setting.cycles > 1 THEN 1 ELSE 0
    /\ pmp.completing_active => Cardinality(Pending("complete", pmp.completing.generation)) = 1
    /\ Len(SelectSeq(pmp.events, MasterEvent)) =
          (IF pmp.active THEN IF pmp.setting.cycles > 1 THEN 2 ELSE 1 ELSE 0)
          + (IF pmp.completing_active THEN 1 ELSE 0)
    /\ pmp.busy = (pmp.active /\ pmp.setting.cycles > 1)
    /\ \A i \in DOMAIN pmp.events :
          pmp.events[i].paused = (MasterEvent(pmp.events[i]) /\ ~ClockAvailable(pmp))
    /\ pmp.on /\ Buffered(pmp) => pmp.ibf = (pmp.full = Indices) /\ pmp.obe = (pmp.empty = Indices)
    /\ \/ pmp.disabled = pmp.off
       \/ Pending("pmd", pmp.pmd_generation) # {}

\* What the program wrote to the port is on its way or at the host, once and in
\* order; a response is used once, never before its time or after a later one;
\* and a byte of the host is read or still there, or its loss is reported.
WordsKept ==
    LET Number(active, transfer) == IF active /\ ~transfer.reading THEN <<transfer.number>> ELSE <<>>
        port == pmp.output \o Number(pmp.completing_active, pmp.completing)
                \o Number(pmp.active, pmp.current)
    IN  /\ ~pmp.stopped => port = [i \in 1..(pmp.started - pmp.gone) |-> pmp.gone + i]
        /\ \A i, j \in DOMAIN pmp.input : i < j => pmp.input[i].left <= pmp.input[j].left
        /\ \A i, j \in DOMAIN pmp.reads : i # j => pmp.reads[i] # pmp.reads[j]
        /\ {i \in Indices : pmp.held[i] # 0} = IF Buffered(pmp) THEN pmp.full
                                               ELSE IF pmp.ibf THEN {0} ELSE {}
        /\ pmp.bytes = pmp.fetched + Cardinality({i \in Indices : pmp.held[i] # 0})

=============================================================================
