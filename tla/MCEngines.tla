----------------------------- MODULE MCEngines -----------------------------
(***************************************************************************)
(* One of the timers, engines, ports and loops at a time: they share no    *)
(* state but the event queue, the clock and the interrupt flags.  The      *)
(* module extends that of the timers, whose BoundariesKept it checks.      *)
(***************************************************************************)
EXTENDS Timers, Sequences

CONSTANT Devices

Running == [on |-> TRUE, external |-> FALSE, gated |-> FALSE, prescale |-> 1]
Controls == {Running, [Running EXCEPT !.prescale = 2], [Running EXCEPT !.external = TRUE],
             [Running EXCEPT !.gated = TRUE]}
TimerBase == [max |-> 3, ratio |-> 1, stop |-> {}, sync |-> FALSE, used |-> {"a"},
              controls |-> Controls, changes |-> 1]
PairBase == [TimerBase EXCEPT !.max = 1, !.used = {"b", "c"}]
TimerSettings == {[TimerBase EXCEPT !.sync = TRUE, !.ratio = 2, !.changes = 2],
                  [TimerBase EXCEPT !.stop = {"a"}, !.max = 2, !.changes = 2],
                  [PairBase EXCEPT !.stop = {"c"},
                                   !.controls = {Running, [Running EXCEPT !.prescale = 2]}],
                  [PairBase EXCEPT !.controls = {Running, [Running EXCEPT !.external = TRUE,
                                                                          !.prescale = 2]}]}

CrcBase == [width |-> 3, polynomial |-> <<0, 1, 1>>, little |-> FALSE, halves |-> FALSE, low |-> 0,
            empty_interrupt |-> FALSE, stop_idle |-> TRUE,
            values |-> { <<1, 0, 1>>, <<0, 1, 1>> }, words |-> 3, seeds |-> { <<1, 1, 0>> },
            changes |-> 4]
CrcSettings == {CrcBase,
                [CrcBase EXCEPT !.little = TRUE, !.polynomial = <<0, 1>>, !.seeds = { <<1, 1>> },
                                !.empty_interrupt = TRUE, !.stop_idle = FALSE],
                [CrcBase EXCEPT !.width = 4, !.low = 2, !.halves = TRUE, !.words = 4, !.changes = 3,
                                !.values = { <<1, 0, 1, 1>>, <<0, 1, 1, 0>> }]}

LastDay == [second |-> 3, minute |-> 1, hour |-> 1, weekday |-> 2, day |-> 2, month |-> 2, year |-> 1]
FirstDay == [second |-> 0, minute |-> 0, hour |-> 0, weekday |-> 0, day |-> 1, month |-> 1, year |-> 0]
NoTime == [second |-> 4, minute |-> 1, hour |-> 2, weekday |-> 0, day |-> 2, month |-> 2, year |-> 0]
RtccBase == [mask |-> 0, starts |-> {FirstDay}, cal |-> {-1}, windows |-> {LastDay}, changes |-> 1,
             seconds |-> 500]
RtccSettings ==
    {RtccBase}
    \union {[RtccBase EXCEPT !.mask = mask, !.cal = {-1, 1}, !.windows = {NoTime, LastDay},
                             !.starts = {LastDay}, !.seconds = 2, !.changes = 2] : mask \in {1, 5}}
    \union {[RtccBase EXCEPT !.mask = mask, !.starts = {[LastDay EXCEPT !.second = 1]}, !.seconds = 3]
               : mask \in {0, 2, 3, 4} \union 6..10}

PmpBase == [mode |-> "master", cycles |-> 2, step |-> 1, stop_idle |-> TRUE, interrupt |-> "each",
            transfers |-> 3, responses |-> 2, bytes |-> 0, changes |-> 3]
SlaveBase == [PmpBase EXCEPT !.responses = 0, !.bytes = 3, !.changes = 2]
PmpSettings == {PmpBase,
                [PmpBase EXCEPT !.cycles = 1, !.stop_idle = FALSE],
                [PmpBase EXCEPT !.cycles = 3, !.step = 0, !.interrupt = "none"],
                [SlaveBase EXCEPT !.mode = "legacy"],
                [SlaveBase EXCEPT !.mode = "buffered", !.interrupt = "last"],
                [SlaveBase EXCEPT !.mode = "addressable", !.bytes = 2]}

Plain(kind) == [kind |-> kind, count |-> 0, end |-> 0]
Do(count, end) == [kind |-> "do", count |-> count, end |-> end]
Repeat(count) == [kind |-> "repeat", count |-> count, end |-> 0]
WriteCount(count) == [kind |-> "dcount", count |-> count, end |-> 0]
Skip == Plain("nop")
RepeatingHandler == << Plain("ack"), Plain("push"), Repeat(1), Skip, Plain("pop"), Plain("retfie") >>
LoopingHandler(main) == << Plain("ack"), Do(1, main + 4), Skip, Skip, Plain("retfie") >>
Main(main, handler, nesting) ==
    [code |-> main \o handler, main |-> Len(main), levels |-> {1, 2}, nesting |-> nesting]
LoopSettings == {Main(<< Do(1, 6), Skip, Do(2, 5), Skip, Skip, Skip, Skip >>, RepeatingHandler, TRUE),
                 Main(<< Do(3, 5), Skip, Plain("edt"), Skip, Skip, Skip >>, LoopingHandler(6), TRUE),
                 Main(<< Do(2, 4), Skip, Plain("edt"), Skip, Repeat(2), Skip, Skip >>,
                      RepeatingHandler, TRUE),
                 Main(<< Do(2, 4), WriteCount(1), Skip, Skip, Repeat(0), Skip >>,
                      RepeatingHandler, FALSE),
                 Main(<< Do(1, 7), Skip, Skip, Do(0, 6), Skip, Skip, Skip, Skip >>,
                      LoopingHandler(8), TRUE),
                 Main(<< Do(2, 3), Skip, Plain("edt"), Do(1, 7), Repeat(1), Skip, Skip, Skip >>,
                      LoopingHandler(8), TRUE)}

VARIABLES device, crc, rtcc, pmp, loops
vars == <<device, crc, timers, rtcc, pmp, loops>>

C == INSTANCE Crc WITH Settings <- CrcSettings, Capacity <- 2, BitsPerCycle <- 2
R == INSTANCE Rtcc WITH Settings <- RtccSettings, Edges <- 8, HalfSecondEdge <- 4,
                        CalibrationEdge <- 1, SyncEdges <- 2, Seconds <- 4, Minutes <- 2,
                        Hours <- 2, Weekdays <- 3, Years <- 2, Digit <- 2,
                        MonthDays <- << 1, 1 >>, LeapMonth <- 2
P == INSTANCE Pmp WITH Settings <- PmpSettings, Buffers <- 2, QueueSize <- 2, Addresses <- 2
L == INSTANCE Loops WITH Settings <- LoopSettings, MaxDepth <- 4, EntryCycles <- << 6, 3 >>

ASSUME /\ C!CrcAssumption /\ R!RtccAssumption /\ P!PmpAssumption
       /\ L!LoopsAssumption

\* What is not looked at stays as one of its initial states.
IdleTimers == CHOOSE setting \in TimerSettings : TRUE
IdleLoops == CHOOSE setting \in LoopSettings : TRUE

EnginesInit ==
    /\ device \in Devices
    /\ IF device = "crc" THEN C!Init ELSE crc = C!Fresh(CrcBase)
    /\ IF device = "timers" THEN Init ELSE timers = Fresh(IdleTimers)
    /\ IF device = "rtcc" THEN R!Init ELSE rtcc = R!Fresh(RtccBase, FirstDay)
    /\ IF device = "pmp" THEN P!Init ELSE pmp = P!Fresh(PmpBase)
    /\ IF device = "loops" THEN L!Init ELSE loops = L!Fresh(IdleLoops)

EnginesNext ==
    \/ device = "crc" /\ C!Next /\ UNCHANGED <<device, timers, rtcc, pmp, loops>>
    \/ device = "timers" /\ Next /\ UNCHANGED <<device, crc, rtcc, pmp, loops>>
    \/ device = "rtcc" /\ R!Next /\ UNCHANGED <<device, crc, timers, pmp, loops>>
    \/ device = "pmp" /\ P!Next /\ UNCHANGED <<device, crc, timers, rtcc, loops>>
    \/ device = "loops" /\ L!Next /\ UNCHANGED <<device, crc, timers, rtcc, pmp>>

EnginesSpec == EnginesInit /\ [][EnginesNext]_vars
-----------------------------------------------------------------------------
\* Registers, counters and events keep to their types, and what a device says it is
\* doing and its events agree, through module disables, power saving and what the
\* program writes in between.
EnginesAgree ==
    CASE device = "crc" -> C!TypeOK /\ C!EventsAgree
      [] device = "timers" -> TypeOK /\ EventsAgree
      [] device = "rtcc" -> R!TypeOK /\ R!EventsAgree
      [] device = "pmp" -> P!TypeOK /\ P!EventsAgree
      [] device = "loops" -> L!TypeOK

\* The CRC is the remainder of what was written to it, in whatever pieces time and
\* the program let it shift; the parallel port moves each word once and in order.
WordsKept == C!WordsKept /\ P!WordsKept

\* The clock and calendar are the seconds counted since they were last written, through
\* carries, calibration and stops, and RTCSYNC warns of the edge that changes them.
CalendarKept == R!CalendarKept

\* DO and REPEAT execute what their structure says, whatever interrupts them.
LoopsAgree == L!LoopsAgree

=============================================================================
