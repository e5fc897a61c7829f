-------------------------------- MODULE Rtcc --------------------------------
(***************************************************************************)
(* The real-time clock and calendar (timing/rtcc.c): edges of the          *)
(* oscillator come from the host, a prescaler makes half seconds and       *)
(* seconds of them, once a minute it is calibrated, seconds carry through  *)
(* the calendar and are compared with the alarm, and the program sees      *)
(* both through windows whose pointer counts down.  A second that the      *)
(* calendar does not have stops it.                                        *)
(*                                                                         *)
(* The fields are numbers below small radices instead of BCD, a digit of   *)
(* which is below Digit; a field that is not BCD or not of the calendar is *)
(* one above its radix.  The key of RTCWREN is that of ClockReset.         *)
(***************************************************************************)
EXTENDS Integers, Sequences, FiniteSets, Functions

CONSTANTS Edges, HalfSecondEdge, CalibrationEdge, SyncEdges,   \* RTCC_*
          Seconds, Minutes, Hours, Weekdays, Years, Digit,     \* radices: 60, 60, 24, 7, 100, 10
          MonthDays,                                           \* month_day_counts
          LeapMonth,                                           \* 2
          Settings   \* mask: AMASK; starts: the calendar the program had written; cal: what it
                     \* writes to CAL; windows: what it writes to a window; changes, seconds: bounds

Months == Len(MonthDays)
Calendar == [second : 0..Seconds, minute : 0..Minutes, hour : 0..Hours, weekday : 0..Weekdays,
             day : 0..10, month : 0..Months + 1, year : 0..Years]

RtccAssumption ==
    /\ 0 < CalibrationEdge /\ 2 * CalibrationEdge < HalfSecondEdge /\ HalfSecondEdge < Edges - SyncEdges
    /\ LeapMonth \in 1..Months /\ \A month \in 1..Months : MonthDays[month] \in 1..9
    /\ \A setting \in Settings :
          /\ setting.mask \in 0..10 /\ setting.starts \subseteq Calendar
          /\ setting.cal \subseteq -CalibrationEdge..CalibrationEdge
          /\ setting.windows \subseteq Calendar /\ {setting.changes, setting.seconds} \subseteq Nat

VARIABLE rtcc   \* RCFGCAL, ALCFGRPT, OSCCON.LPOSCEN, cpu->io.rtcc, the PMD event, and history

Fresh(setting, calendar) ==
    [setting |-> setting, on |-> TRUE, oscillator |-> TRUE, wren |-> FALSE, cal |-> 0, pointer |-> 0,
     sync |-> FALSE, half |-> FALSE, prescaler |-> 0, pending |-> FALSE, calendar |-> calendar,
     alarm |-> calendar, alarm_on |-> FALSE, chime |-> FALSE, repeat |-> 0, alarm_pointer |-> 0,
     output |-> FALSE, raised |-> 0, off |-> FALSE, disabled |-> FALSE, generation |-> 0,
     events |-> {}, changes |-> 0,
     \* history: the calendar as last written, the seconds and the edges since
     \* then and since the last second, and what calibration has added
     start |-> calendar, seconds |-> 0, edges |-> 0, adjusted |-> <<>>]

Init == \E setting \in Settings : \E calendar \in setting.starts : rtcc = Fresh(setting, calendar)
-----------------------------------------------------------------------------
\* rtcc_month_days
DaysOf_NoLeap(year, month) == MonthDays[month]   \* mutant: no leap years

DaysOf(year, month) == MonthDays[month] + IF month = LeapMonth /\ year % 4 = 0 THEN 1 ELSE 0

\* rtcc_calendar_valid
Valid(c) ==
    /\ c.second < Seconds /\ c.minute < Minutes /\ c.hour < Hours /\ c.weekday < Weekdays
    /\ c.month \in 1..Months /\ c.year < Years
    /\ c.day \in 1..DaysOf(c.year, c.month)

\* rtcc_increment_calendar
NextMonth(c) ==
    IF c.month = Months THEN [c EXCEPT !.month = 1, !.year = (@ + 1) % Years]
    ELSE [c EXCEPT !.month = @ + 1]

NextDay(c) ==
    LET weekday == [c EXCEPT !.weekday = (@ + 1) % Weekdays]
    IN  IF c.day = DaysOf(c.year, c.month) THEN NextMonth([weekday EXCEPT !.day = 1])
        ELSE [weekday EXCEPT !.day = @ + 1]

NextHour(c) == IF c.hour = Hours - 1 THEN NextDay([c EXCEPT !.hour = 0]) ELSE [c EXCEPT !.hour = @ + 1]

NextMinute(c) ==
    IF c.minute = Minutes - 1 THEN NextHour([c EXCEPT !.minute = 0]) ELSE [c EXCEPT !.minute = @ + 1]

Incremented(c) ==
    CASE ~Valid(c) -> c
      [] Valid(c) /\ c.second = Seconds - 1 -> NextMinute([c EXCEPT !.second = 0])
      [] OTHER -> [c EXCEPT !.second = @ + 1]

\* rtcc_apply_calibration
Calibrated_StaysPending(r) ==   \* mutant: the calibration is not over
    [r EXCEPT !.prescaler = @ + r.cal, !.adjusted = Append(@, r.cal)]

Calibrated(r) == [r EXCEPT !.prescaler = @ + r.cal, !.pending = FALSE, !.adjusted = Append(@, r.cal)]

\* rtcc_alarm_matches: a mask compares the fields up to its own.
Compared(mask, c) ==
    CASE mask = 2 -> <<c.second % Digit>>
      [] mask = 3 -> <<c.second>>
      [] mask = 4 -> <<c.second, c.minute % Digit>>
      [] mask = 5 -> <<c.second, c.minute>>
      [] mask = 6 -> <<c.second, c.minute, c.hour>>
      [] mask = 7 -> <<c.second, c.minute, c.hour, c.weekday>>
      [] mask = 8 -> <<c.second, c.minute, c.hour, c.day>>
      [] mask = 9 -> <<c.second, c.minute, c.hour, c.day, c.month>>

AlarmMatches(r, full) ==
    /\ r.alarm_on /\ r.setting.mask <= 9
    /\ \/ r.setting.mask = 0
       \/ full /\ r.setting.mask = 1
       \/ full /\ r.setting.mask > 1
          /\ Compared(r.setting.mask, r.calendar) = Compared(r.setting.mask, r.alarm)

\* rtcc_alarm_event; the repeat count has eight bits, here two.
AlarmEvent(r) ==
    LET told == [r EXCEPT !.output = ~@, !.raised = @ + 1]
    IN  IF r.chime THEN [told EXCEPT !.repeat = (@ - 1) % 4]
        ELSE IF r.repeat = 0 THEN [told EXCEPT !.alarm_on = FALSE]
        ELSE [told EXCEPT !.repeat = @ - 1]

Operating(r) == ~r.disabled /\ r.on /\ r.oscillator

\* The seconds of a year's cycle and of the weekdays: history goes no further.
Cycle == Seconds * Minutes * Hours * Weekdays
         * FoldFunction(+, 0, [y \in 0..Years - 1 |->
              FoldFunction(+, 0, [m \in 1..Months |->
                 MonthDays[m] + IF m = LeapMonth /\ y % 4 = 0 THEN 1 ELSE 0])])

FullSecond(r) ==
    LET next == Incremented(r.calendar)
    IN  [r EXCEPT !.prescaler = 0, !.calendar = next, !.half = FALSE, !.edges = 0, !.adjusted = <<>>,
                  !.pending = r.calendar.second = Seconds - 1 /\ next.second = 0,
                  !.seconds = IF Valid(r.calendar) THEN (@ + 1) % Cycle ELSE @]

SyncOf(r) == [r EXCEPT !.sync = r.prescaler >= Edges - SyncEdges]

\* rtcc_clock_edge
ClockEdge(r) ==
    IF ~Operating(r) THEN r
    ELSE LET counted == [r EXCEPT !.prescaler = @ + 1, !.edges = @ + 1]
             half == counted.prescaler = HalfSecondEdge
             full == ~half /\ counted.prescaler >= Edges
             calibrates == counted.prescaler = CalibrationEdge /\ counted.pending
             moved == SyncOf(CASE half -> [counted EXCEPT !.half = TRUE]
                               [] full -> FullSecond(counted)
                               [] calibrates -> [Calibrated(counted) EXCEPT !.half = FALSE]
                               [] OTHER -> counted)
         IN  IF (moved.prescaler = HalfSecondEdge \/ full) /\ AlarmMatches(moved, full)
             THEN AlarmEvent(moved) ELSE moved

\* The fields of a window, and the register with some of them written.
CalendarWindow == <<{"second", "minute"}, {"hour", "weekday"}, {"day", "month"}, {"year"}>>
LowFields == {"second", "hour", "day", "year"}

Fields(pointer, bytes) ==
    CASE bytes = "word" -> CalendarWindow[pointer + 1]
      [] bytes = "low" -> CalendarWindow[pointer + 1] \intersect LowFields
      [] bytes = "high" -> CalendarWindow[pointer + 1] \ LowFields

WindowWritten(c, fields, value) == [f \in DOMAIN c |-> IF f \in fields THEN value[f] ELSE c[f]]

\* A new start of the history.
Restart(r) == [r EXCEPT !.start = r.calendar, !.seconds = 0]

\* rtcc_decrement_pointer
Decremented(pointer) == IF pointer = 0 THEN 0 ELSE pointer - 1
-----------------------------------------------------------------------------
Due == {event \in rtcc.events : event.left = 0}
Now == [rtcc EXCEPT !.raised = 0]
Executes == rtcc.events = {} /\ rtcc.changes < rtcc.setting.changes
Executed(r) == [r EXCEPT !.changes = @ + 1]
Unless(disabled, r) == Executed(IF disabled THEN Now ELSE r)

\* update_rtcc_control; keyed: the two key writes came just before.
WriteControl(on, wren, keyed, cal, pointer) ==
    /\ Executes
    /\ rtcc' = Unless(rtcc.disabled,
                      [Now EXCEPT !.wren = wren /\ (rtcc.wren \/ keyed),
                                  !.on = IF rtcc.wren THEN on ELSE @,
                                  !.cal = cal, !.pointer = pointer])

WriteAlarmControl(on, chime, repeat, pointer) ==
    /\ Executes
    /\ rtcc' = Unless(rtcc.disabled, [Now EXCEPT !.alarm_on = on, !.chime = chime, !.repeat = repeat,
                                                 !.alarm_pointer = pointer])

\* update_rtcc_window: the write of the seconds starts the prescaler anew.
WriteCalendar(bytes, value) ==
    /\ Executes
    /\ LET fields == Fields(rtcc.pointer, bytes)
           written == Restart([Now EXCEPT !.calendar = WindowWritten(@, fields, value)])
           cleared == [written EXCEPT !.prescaler = 0, !.pending = FALSE, !.sync = FALSE, !.half = FALSE,
                                      !.edges = 0, !.adjusted = <<>>]
           after == CASE ~rtcc.wren -> Now
                      [] rtcc.wren /\ rtcc.pointer = 0 -> cleared
                      [] OTHER -> written
       IN  rtcc' = Unless(rtcc.disabled,
                          [after EXCEPT !.pointer = IF bytes = "low" THEN @ ELSE Decremented(@)])

\* The alarm has no year.
WriteAlarm(bytes, value) ==
    /\ Executes
    /\ LET fields == IF rtcc.wren THEN Fields(rtcc.alarm_pointer, bytes) \ {"year"} ELSE {}
       IN  rtcc' = Unless(rtcc.disabled,
                          [Now EXCEPT !.alarm = WindowWritten(@, fields, value),
                                      !.alarm_pointer = IF bytes = "low" THEN @ ELSE Decremented(@)])

\* dspic33_device_internal_rtcc_read_window
ReadWindow ==
    /\ Executes /\ ~rtcc.disabled
    /\ \/ rtcc' = Executed([Now EXCEPT !.pointer = Decremented(@)])
       \/ rtcc' = Executed([Now EXCEPT !.alarm_pointer = Decremented(@)])

\* OSCCON.LPOSCEN
WriteOscillator ==
    /\ Executes
    /\ rtcc' = Executed([Now EXCEPT !.oscillator = ~@])

\* update_rtcc_pmd
WritePmd ==
    /\ Executes
    /\ rtcc' = Executed([Now EXCEPT !.off = ~@, !.generation = @ + 1,
                                    !.events = {[left |-> 1, disabled |-> ~rtcc.off,
                                                 generation |-> rtcc.generation + 1]}])

\* Edges of the oscillator fall due before or after an event of the program.
HostClock(edges) ==
    /\ Due = {} /\ rtcc.seconds <= rtcc.setting.seconds
    /\ rtcc' = FoldFunction(LAMBDA edge, r : ClockEdge(r), Now, [i \in 1..edges |-> i])

CycleEnds ==
    /\ Due = {} /\ rtcc.events # {}
    /\ rtcc' = [Now EXCEPT !.events = {[event EXCEPT !.left = @ - 1] : event \in @}]

\* dspic33_device_internal_run_rtcc, its PMD source
RunPmd ==
    \E event \in Due :
       rtcc' = [Now EXCEPT !.events = @ \ {event},
                           !.disabled = IF event.generation = rtcc.generation THEN event.disabled ELSE @]

\* dspic33_internal_perform_warm_reset keeps all but the module's disable.
WarmReset ==
    /\ rtcc.changes < rtcc.setting.changes
    /\ rtcc' = Executed([Now EXCEPT !.off = FALSE, !.disabled = FALSE, !.generation = 0, !.events = {}])

Next ==
    \/ \E on, wren, keyed \in BOOLEAN, cal \in rtcc.setting.cal, pointer \in 0..3 :
          WriteControl(on, wren, keyed, cal, pointer)
    \/ \E on, chime \in BOOLEAN, repeat \in 0..1, pointer \in 0..2 :
          WriteAlarmControl(on, chime, repeat, pointer)
    \/ \E bytes \in {"word", "low", "high"}, value \in rtcc.setting.windows :
          WriteCalendar(bytes, value) \/ WriteAlarm(bytes, value)
    \/ ReadWindow \/ WriteOscillator \/ WritePmd \/ RunPmd \/ CycleEnds \/ WarmReset
    \/ \E edges \in {1, SyncEdges} : HostClock(edges)

Spec == Init /\ [][Next]_rtcc
-----------------------------------------------------------------------------
TypeOK ==
    /\ rtcc.setting \in Settings /\ rtcc.calendar \in Calendar /\ rtcc.alarm \in Calendar
    /\ rtcc.prescaler \in 0..Edges - 1 /\ rtcc.repeat \in 0..3
    /\ rtcc.pointer \in 0..3 /\ rtcc.alarm_pointer \in 0..3 /\ rtcc.seconds \in 0..Cycle - 1

EventsAgree ==
    \/ rtcc.disabled = rtcc.off
    \/ \E event \in rtcc.events : event.generation = rtcc.generation /\ event.disabled = rtcc.off

\* Days since the first of the calendar, counted month by month.
YearDays(year) ==
    FoldFunction(+, 0, MonthDays) + IF year % 4 = 0 THEN 1 ELSE 0

DaysBefore(c) ==
    FoldFunction(+, 0, [year \in 0..c.year - 1 |-> YearDays(year)])
    + FoldFunction(+, 0, [month \in 1..c.month - 1 |-> MonthDays[month]])
    + (IF c.month > LeapMonth /\ c.year % 4 = 0 THEN 1 ELSE 0) + c.day - 1

Day == Seconds * Minutes * Hours
SecondsBefore(c) == DaysBefore(c) * Day + (c.hour * Minutes + c.minute) * Seconds + c.second

\* The calendar is as many seconds after the one last written as have passed, in
\* date, time and weekday, and one that does not exist stays; the prescaler has
\* counted every edge of the second, calibrated once in the first second of a
\* minute it has counted to and never else; and RTCSYNC is set whenever the next
\* SyncEdges edges may carry.
CalendarKept ==
    /\ IF Valid(rtcc.start)
       THEN LET then == SecondsBefore(rtcc.start) + rtcc.seconds
                century == FoldFunction(+, 0, [year \in 0..Years - 1 |-> YearDays(year)])
            IN  /\ Valid(rtcc.calendar)
                /\ SecondsBefore(rtcc.calendar) = then % (century * Day)
                /\ rtcc.calendar.weekday =
                      (rtcc.start.weekday + then \div Day - DaysBefore(rtcc.start)) % Weekdays
       ELSE rtcc.calendar = rtcc.start
    /\ rtcc.prescaler = rtcc.edges + FoldFunction(+, 0, rtcc.adjusted)
    /\ Len(rtcc.adjusted) <= 1
    /\ rtcc.seconds > 0 /\ Valid(rtcc.calendar)
       => (rtcc.adjusted # <<>>) = (rtcc.calendar.second = 0 /\ rtcc.edges >= CalibrationEdge)
    /\ rtcc.prescaler >= Edges - SyncEdges => rtcc.sync

=============================================================================
