------------------------------- MODULE Clock --------------------------------
(***************************************************************************)
(* The wall clock of src/source/Kernel/Utility/Time.cpp.                  *)
(*                                                                         *)
(* SystemTime is a record of the fields the code keeps; SecondsSinceEpoch *)
(* counts from 1 January EpochYear, 00:00:00 UTC.  The calendar           *)
(* conversions (GetTime, AdjustForTimezone, IncrementAndRollover) are     *)
(* operators translated from the code, and Calendar is the reference     *)
(* the running clock is checked against; GetTime, which the RTC read      *)
(* stands in for at start-up, is not compared with it by any run.  The    *)
(* clock itself is driven by the RTC interrupt (RTCTimerHandler ->        *)
(* UpdateTime).                                                            *)
(***************************************************************************)
EXTENDS Integers

CONSTANTS
    EpochYear,      \* Time::EpochYear (2000)
    TickRate,       \* GlobalTickRate: RTC interrupts per second
    MsPerTick,      \* GlobalMilliseconds / GlobalTickRate
    StartTimes,     \* local time the RTC reads, as seconds after the epoch
    UTCOffsets,     \* SystemTime->UTCOffset (hours)
    MaxTicks,       \* model bound: RTC interrupts explored from a start
    OOBRows         \* what a read past DayOfYearTable[364] may return

ASSUME /\ EpochYear \in Nat /\ TickRate \in Nat \ {0} /\ MsPerTick \in Nat
       /\ StartTimes \subseteq Nat /\ UTCOffsets \subseteq -12..12
       /\ \A l \in StartTimes, o \in UTCOffsets : l - 3600 * o >= 0
       /\ MaxTicks \in Nat /\ OOBRows # {}

CYCLE1YN == 24 * 60 * 60 * 365
CYCLE1YL == 24 * 60 * 60 * 366
SecsPerDay == 24 * 60 * 60

\* uint8_t arithmetic on the hour fields.
U8(x) == x % 256

-----------------------------------------------------------------------------
(***************************************************************************)
(* Reference: the Gregorian date and time n seconds after the epoch.       *)
(***************************************************************************)
GregorianLeap(y) == (y % 4 = 0 /\ y % 100 # 0) \/ y % 400 = 0
YearLength(y) == IF GregorianLeap(y) THEN 366 ELSE 365
MonthLength(m, y) ==
    CASE m = 2 -> IF GregorianLeap(y) THEN 29 ELSE 28
      [] m \in {4, 6, 9, 11} -> 30
      [] OTHER -> 31

RECURSIVE YearOf(_, _), MonthOf(_, _, _)
YearOf(days, y) ==
    IF days < YearLength(y) THEN [year |-> y, day |-> days]
    ELSE YearOf(days - YearLength(y), y + 1)
MonthOf(d, m, y) ==
    IF d < MonthLength(m, y) THEN [month |-> m, day |-> d + 1]
    ELSE MonthOf(d - MonthLength(m, y), m + 1, y)

Calendar(n) ==
    LET y   == YearOf(n \div SecsPerDay, EpochYear)
        md  == MonthOf(y.day, 1, y.year)
        sod == n % SecsPerDay
    IN  [Year |-> y.year, Month |-> md.month, Day |-> md.day, YearDay |-> y.day + 1,
         Hour |-> sod \div 3600, Minute |-> (sod % 3600) \div 60, Second |-> sod % 60]

\* The fields a calendar comparison looks at.
DateFields(t) ==
    [Year |-> t.Year, Month |-> t.Month, Day |-> t.Day, YearDay |-> t.YearDay,
     Hour |-> t.Hour, Minute |-> t.Minute, Second |-> t.Second]

-----------------------------------------------------------------------------
(***************************************************************************)
(* The code's conversions.                                                 *)
(***************************************************************************)

IsLeapYear(year) ==
    IF year % 400 = 0 THEN TRUE
    ELSE year % 100 # 0 /\ year % 4 = 0

\* Mutant: February always has 28 days.
DaysInMonthNoLeap(month, year) ==
    CASE month \in {1, 3, 5, 7, 8, 10, 12} -> 31
      [] month \in {4, 6, 9, 11} -> 30
      [] month = 2 -> 28
      [] OTHER -> 0

\* DaysInMonth(month) reads SystemTime->Year: it is passed as year.
DaysInMonth(month, year) ==
    CASE month \in {1, 3, 5, 7, 8, 10, 12} -> 31
      [] month \in {4, 6, 9, 11} -> 30
      [] month = 2 -> IF IsLeapYear(year) THEN 29 ELSE 28
      [] OTHER -> 0

(***************************************************************************)
(* DayOfYearTable[d]: {month, day} of the 365 days of a common year.  A  *)
(* row past the end is a read of the next object in memory: oob stands    *)
(* for whatever the build placed there.                                    *)
(***************************************************************************)
DayOfYearTable(d, oob) ==
    IF d < 365 THEN LET md == MonthOf(d, 1, EpochYear + 1)
                    IN  <<md.month, md.day>>
    ELSE oob

(***************************************************************************)
(* The year loop of GetTime: its threshold tests year + 1 for a leap year *)
(* but it subtracts the length of year.  sse is a uint64_t: a subtraction *)
(* below zero wraps, and the loop then runs for about 2^64 / CYCLE1YN      *)
(* iterations: the result is "wrapped".                                    *)
(***************************************************************************)
RECURSIVE YearLoop(_, _)
YearLoop(sse, year) ==
    IF sse > (IF IsLeapYear(year + 1) THEN CYCLE1YL ELSE CYCLE1YN)
    THEN LET left == sse - (IF IsLeapYear(year) THEN CYCLE1YL ELSE CYCLE1YN)
         IN  IF left < 0 THEN [sse |-> left, year |-> year, wrapped |-> TRUE]
             ELSE YearLoop(left, year + 1)
    ELSE [sse |-> sse, year |-> year, wrapped |-> FALSE]

(***************************************************************************)
(* while(sse > unit) { count++; sse -= unit; }: the loop stops with a rest *)
(* in 1..unit (a whole unit is left over, not counted), or at 0.           *)
(***************************************************************************)
Peel(sse, unit) ==
    LET count == IF sse = 0 THEN 0 ELSE (sse - 1) \div unit
    IN  [count |-> count, rest |-> sse - count * unit]

Hour12(hour) == IF hour > 12 THEN hour - 12 ELSE hour

(***************************************************************************)
(* AdjustForTimezone() on the record t with offset off.                    *)
(***************************************************************************)
AdjustForTimezone(t, off) ==
    LET a ==
        IF off > 0 THEN
            LET h == U8(t.Hour + off) IN
            IF h <= 23 THEN [t EXCEPT !.Hour = h]
            ELSE IF t.Day + 1 <= DaysInMonth(t.Month, t.Year)
                 THEN [t EXCEPT !.YearDay = @ + 1, !.Day = @ + 1, !.Hour = h - 24]
            ELSE IF t.Month + 1 > 12
                 THEN [t EXCEPT !.Year = @ + 1, !.Month = 1, !.YearDay = 1,
                                !.Day = 1, !.Hour = h - 24]
            ELSE [t EXCEPT !.Month = @ + 1, !.YearDay = 1, !.Day = 1, !.Hour = h - 24]
        ELSE IF -off > t.Hour THEN
            LET h == U8(t.Hour + 24 - off) IN
            IF t.Day > 1 THEN [t EXCEPT !.YearDay = @ - 1, !.Day = @ - 1, !.Hour = h]
            ELSE IF t.Month > 1
                 THEN [t EXCEPT !.Month = @ - 1, !.YearDay = @ - 1,
                                !.Day = DaysInMonth(t.Month - 1, t.Year), !.Hour = h]
            ELSE [t EXCEPT !.Year = @ - 1, !.Month = 12,
                           !.YearDay = IF IsLeapYear(t.Year - 1) THEN 366 ELSE 365,
                           !.Day = DaysInMonth(12, t.Year - 1), !.Hour = h]
        ELSE [t EXCEPT !.Hour = U8(@ + off)]
    IN  [a EXCEPT !.Hour12F = Hour12(a.Hour), !.AM = ~(a.Hour >= 12)]

(***************************************************************************)
(* GetTime(): SecondsSinceEpoch to SystemTime, then AdjustForTimezone.    *)
(***************************************************************************)
GetTime(sse, off, oob) ==
    LET y    == YearLoop(sse, EpochYear)
        days == Peel(y.sse, SecsPerDay)
        hrs  == Peel(days.rest, 3600)
        mins == Peel(hrs.rest, 60)
        row  == DayOfYearTable(days.count, oob)
        t    == [Year |-> y.year, Month |-> row[1], Day |-> row[2],
                 YearDay |-> days.count, Hour |-> hrs.count,
                 Hour12F |-> Hour12(hrs.count), AM |-> ~(hrs.count >= 12),
                 Minute |-> mins.count, Second |-> mins.rest]
    IN  IF y.wrapped THEN "wrapped" ELSE AdjustForTimezone(t, off)


\* IsAM(): (Hour + UTCOffset) > 12.
IsAM(t, off) == t.Hour + off > 12

(***************************************************************************)
(* IncrementAndRollover(): one second later, rolling every field over in *)
(* one nested chain; Hour12F = 0 becomes 12 at the end.                    *)
(***************************************************************************)
\* Mutant: the seconds roll over one tick late.
SecondRollsAt60(s) == s = 60

\* if(SystemTime->Second == 59)
SecondRolls(s) == s = 59

IncrementAndRollover(t, off) ==
    LET midnight(r) == [r EXCEPT !.Hour = 0, !.Hour12F = 0, !.AM = TRUE,
                                 !.Minute = 0, !.Second = 0]
        n ==
        IF ~SecondRolls(t.Second)
        THEN [t EXCEPT !.Second = (IF @ > 60 THEN @ - 60 ELSE @) + 1]
        ELSE IF t.Minute # 59 THEN [t EXCEPT !.Minute = @ + 1, !.Second = 0]
        ELSE IF t.Hour # 23
             THEN LET h == t.Hour + 1 IN
                  [t EXCEPT !.Hour = h, !.Hour12F = Hour12(h),
                            !.AM = IsAM([t EXCEPT !.Hour = h], off),
                            !.Minute = 0, !.Second = 0]
        ELSE IF t.Day # DaysInMonth(t.Month, t.Year)
             THEN midnight([t EXCEPT !.Day = @ + 1, !.YearDay = @ + 1])
        ELSE IF t.Month # 12
             THEN midnight([t EXCEPT !.Month = @ + 1, !.Day = 1, !.YearDay = @ + 1])
        ELSE midnight([t EXCEPT !.Year = @ + 1, !.Month = 1, !.Day = 1, !.YearDay = 1])
    IN  IF n.Hour12F = 0 THEN [n EXCEPT !.Hour12F = 12] ELSE n

-----------------------------------------------------------------------------
(***************************************************************************)
(* The running clock.                                                      *)
(***************************************************************************)
VARIABLES
    st,        \* *Kernel::SystemTime (the calendar fields)
    sse,       \* SystemTime->SecondsSinceEpoch
    ms,        \* SystemTime->MillisecondsSinceEpoch, less its value at the RTC read
    counter,   \* Time::Counter, the RTC interrupts so far
    offset     \* SystemTime->UTCOffset

vars == <<st, sse, ms, counter, offset>>

TimeRecords ==
    [Year : Nat, Month : 1..12, Day : 1..31, YearDay : 1..366, Hour : 0..23,
     Hour12F : 1..12, AM : BOOLEAN, Minute : 0..59, Second : 0..59]

TypeOK ==
    /\ st \in TimeRecords
    /\ sse \in Nat /\ ms \in Nat
    /\ counter \in 0..MaxTicks /\ offset \in UTCOffsets

(***************************************************************************)
(* RTC::ReadTime (not under src/) sets the fields to the local time of    *)
(* SecondsSinceEpoch, with the code's 12-hour convention.                 *)
(***************************************************************************)
Init ==
    /\ offset \in UTCOffsets
    /\ \E local \in StartTimes : sse = local - 3600 * offset
    /\ st = LET c == Calendar(sse + 3600 * offset)
            IN  [Year |-> c.Year, Month |-> c.Month, Day |-> c.Day,
                 YearDay |-> c.YearDay, Hour |-> c.Hour,
                 Hour12F |-> IF Hour12(c.Hour) = 0 THEN 12 ELSE Hour12(c.Hour),
                 AM |-> c.Hour < 12, Minute |-> c.Minute, Second |-> c.Second]
    /\ ms = 0
    /\ counter = 0

\* RTCTimerHandler(): TimerOn = true, then UpdateTime().
UpdateTime ==
    /\ counter < MaxTicks
    /\ ms' = ms + MsPerTick
    /\ IF counter % TickRate = 0
       THEN st' = IncrementAndRollover(st, offset) /\ sse' = sse + 1
       ELSE UNCHANGED <<st, sse>>
    /\ counter' = counter + 1
    /\ UNCHANGED offset

Spec == Init /\ [][UpdateTime]_vars

-----------------------------------------------------------------------------
(***************************************************************************)
(* Properties.                                                             *)
(***************************************************************************)

(***************************************************************************)
(* The calendar fields that IncrementAndRollover keeps stay the local time *)
(* of SecondsSinceEpoch that UpdateTime advances with them: across minute, *)
(* hour, day, month, year and leap-day rollovers (the nested chain and    *)
(* DaysInMonth reading SystemTime->Year).                                 *)
(***************************************************************************)
ClockTracksEpoch ==
    DateFields(st) = Calendar(sse + 3600 * offset)

=============================================================================
