------------------------------ MODULE Datetime ------------------------------
(***************************************************************************)
(* The packed Datetime of pkg/container/types/datetime.go: ParseDatetime   *)
(* from either string format, FromClock, and the accessors sec, MicroSec, *)
(* Clock and ToDate, checked against a reference reading of the layout    *)
(* the code documents: "the higher 44 bits holds number of seconds since  *)
(* January 1, year 1 ... and lower 20 bits holds number of microseconds". *)
(*                                                                         *)
(* An int64 value v is kept as the pair [hi |-> v >> 20, lo |-> v & 0xfffff] *)
(* (v = hi * 2^20 + lo), so that the shifts are exact and the values fit  *)
(* TLC's integers.                                                         *)
(***************************************************************************)
EXTENDS Integers, Sequences, TLC

CONSTANTS
    Nums,       \* interval counts given to AddInterval
    Inputs      \* strings handed to ParseDatetime: the fields read from them, and
                \* the fraction as its bytes minus '0'

Digit == 0..9

secsPerMinute == 60
secsPerHour == 60 * secsPerMinute
secsPerDay == 24 * secsPerHour
MinDatetimeYear == 1
MaxDatetimeYear == 9999

\* (secs << 20) + msec, for msec >= 0
Pack(secs, msec) == [hi |-> secs + msec \div 2^20, lo |-> msec % 2^20]

\* Go's / and % on int64 truncate towards zero.
GoQuo(a, b) == IF a >= 0 THEN a \div b ELSE -((-a) \div b)
GoRem(a, b) == a - b * GoQuo(a, b)

-----------------------------------------------------------------------------
(* Calendar helpers of the types package that are not in datetime.go.      *)

isLeap(year) == (year % 4 = 0 /\ year % 100 # 0) \/ year % 400 = 0

\* leapYearMonthDays[month-1] and flatYearMonthDays[month-1]
MonthDays(year, month) ==
    IF month = 2 THEN (IF isLeap(year) THEN 29 ELSE 28)
    ELSE IF month \in {4, 6, 9, 11} THEN 30 ELSE 31

\* days from 0001-01-01 in the proleptic Gregorian calendar; the day may lie
\* outside its month
CivilDays(year, month, day) ==
    LET py == year - 1
        before[k \in 0..12] == IF k = 0 THEN 0 ELSE before[k - 1] + MonthDays(year, k)
    IN  365 * py + py \div 4 - py \div 100 + py \div 400 + before[month - 1] + day - 1

\* types.FromCalendar: the day number of a date
FromCalendar(year, month, day) == CivilDays(year, month, day)

\* Datetime's calendar check applies to Date as well.
validDate(year, month, day) ==
    /\ year \in MinDatetimeYear..MaxDatetimeYear
    /\ month \in 1..12
    /\ day \in 1..MonthDays(year, month)

\* The fraction s[20:] rounded half away from zero to precision digits;
\* carry is 1 when it rounds up to a whole second.
getMsec(frac, precision) ==
    LET lead[k \in 0..precision] ==
            IF k = 0 THEN 0
            ELSE 10 * lead[k - 1] + (IF k <= Len(frac) THEN frac[k] ELSE 0)
        up == Len(frac) > precision /\ frac[precision + 1] >= 5
        v  == lead[precision] + (IF up THEN 1 ELSE 0)
    IN  IF \E k \in 1..Len(frac) : frac[k] \notin Digit
        THEN [msec |-> 0, carry |-> 0, err |-> TRUE]
        ELSE IF v = 10^precision
        THEN [msec |-> 0, carry |-> 1, err |-> FALSE]
        ELSE [msec |-> v * 10^(6 - precision), carry |-> 0, err |-> FALSE]

-----------------------------------------------------------------------------
(* datetime.go                                                             *)

validTimeInDay(h, m, s) == h \in 0..23 /\ m \in 0..59 /\ s \in 0..59

FromClock(year, month, day, hour, min, sec, msec) ==
    LET days == FromCalendar(year, month, day)
        secs == days * secsPerDay + hour * secsPerHour + min * secsPerMinute + sec
    IN  Pack(secs, msec)

sec(dt) == dt.hi

\* int64(dt) << 44 >> 44: bit 19 is copied into the upper 44 bits.
MicroSec(dt) == IF dt.lo >= 2^19 THEN dt.lo - 2^20 ELSE dt.lo

ToDate(dt) == GoQuo(sec(dt), secsPerDay)

Clock_NoHourMod(dt) ==
    LET t == GoRem(sec(dt), secsPerDay)
    IN  <<GoQuo(t, secsPerHour), GoQuo(t, secsPerMinute), GoRem(t, secsPerMinute)>>

Clock(dt) ==
    LET t == GoRem(sec(dt), secsPerDay)
    IN  <<GoQuo(t, secsPerHour), GoQuo(GoRem(t, secsPerHour), secsPerMinute), GoRem(t, secsPerMinute)>>

\* return -1, errIncorrectDatetimeValue
Failed == [dt |-> Pack(-1, 2^20 - 1), err |-> TRUE]

\* ParseDate(s) then d.ToTime(), for a string shorter than 14 bytes
ParseDate(in) ==
    IF validDate(in.y, in.mo, in.d)
    THEN [dt |-> Pack(FromCalendar(in.y, in.mo, in.d) * secsPerDay, 0), err |-> FALSE]
    ELSE Failed

\* the fraction after the seconds, or none
Fraction(in) ==
    IF in.frac = <<>> THEN [msec |-> 0, carry |-> 0, err |-> FALSE]
    ELSE getMsec(in.frac, in.prec)

Done_NoCarry(in) ==
    LET m == Fraction(in)
    IN  [dt |-> FromClock(in.y, in.mo, in.d, in.h, in.mi, in.s, m.msec), err |-> FALSE]

Done(in) ==
    LET m == Fraction(in)
    IN  [dt |-> FromClock(in.y, in.mo, in.d, in.h, in.mi, in.s + m.carry, m.msec), err |-> FALSE]

\* yyyy-mm-dd hh:mm:ss(.msec)
ParseDash(in) ==
    IF \/ in.shape \in {"trunc", "badsep"}
       \/ ~validDate(in.y, in.mo, in.d)
       \/ ~validTimeInDay(in.h, in.mi, in.s)
       \/ in.shape = "badtail"
       \/ Fraction(in).err
    THEN Failed
    ELSE Done(in)

\* yyyymmddhhmmss(.msec)
ParseCompact(in) ==
    IF in.shape = "badtail" \/ Fraction(in).err THEN Failed ELSE Done(in)

ParseDatetime(in) ==
    CASE in.form = "date" -> ParseDate(in)
      [] in.form = "dash" -> ParseDash(in)
      [] OTHER            -> ParseCompact(in)

-----------------------------------------------------------------------------
(* Go's time.Time in a zone without daylight saving: seconds since        *)
(* 0001-01-01 00:00:00 and nanoseconds 0..10^9-1. Date normalises every  *)
(* field that is out of range into the next larger one.                   *)

YearLen(year) == IF isLeap(year) THEN 366 ELSE 365

\* the year holding day doy of year y (doy may lie before or past it)
RECURSIVE CivilYear(_, _)
CivilYear(doy, y) ==
    CASE doy < 0            -> CivilYear(doy + YearLen(y - 1), y - 1)
      [] doy >= YearLen(y)  -> CivilYear(doy - YearLen(y), y + 1)
      [] OTHER              -> [y |-> y, doy |-> doy]

CivilOf(days) ==
    LET c == CivilYear(days, 1)
        before[k \in 0..12] == IF k = 0 THEN 0 ELSE before[k - 1] + MonthDays(c.y, k)
        mo == CHOOSE k \in 1..12 : before[k - 1] <= c.doy /\ c.doy < before[k]
    IN  [y |-> c.y, mo |-> mo, d |-> c.doy - before[mo - 1] + 1]

GoDate(year, month, day, hour, minute, second, nsec) ==
    LET y  == year + (month - 1) \div 12
        m  == ((month - 1) % 12) + 1
        ss == CivilDays(y, m, 1) * secsPerDay + (day - 1) * secsPerDay
                + hour * secsPerHour + minute * secsPerMinute + second
    IN  [s |-> ss + nsec \div 10^9, ns |-> nsec % 10^9]

GoAdd(t, secs, nsec) == [s |-> t.s + secs + (t.ns + nsec) \div 10^9, ns |-> (t.ns + nsec) % 10^9]

GoCivil(t) == CivilOf(t.s \div secsPerDay)
GoClock(t) ==
    LET tod == t.s % secsPerDay
    IN  [h |-> tod \div secsPerHour, mi |-> (tod % secsPerHour) \div secsPerMinute, s |-> tod % secsPerMinute]

GoAddDate(t, years, months, days) ==
    LET c == GoCivil(t)
        k == GoClock(t)
    IN  GoDate(c.y + years, c.mo + months, c.d + days, k.h, k.mi, k.s, t.ns)

-----------------------------------------------------------------------------
(* Interval arithmetic of datetime.go, through Go's time.                  *)

\* Date.Calendar: the year, month and day of a day number
Calendar(date) == CivilOf(date)

\* LastDay(year, month): days in the month, month counted from 1
LastDay(year, month) == MonthDays(year, month)

validDatetime(year, month, day) ==
    /\ year \in MinDatetimeYear..MaxDatetimeYear
    /\ month \in 1..12
    /\ day > 0
    /\ day <= MonthDays(year, month)

ConvertToGoTime(dt) ==
    LET c == Calendar(ToDate(dt))
        k == Clock(dt)
    IN  GoDate(c.y, c.mo, c.d, k[1], k[2], k[3], MicroSec(dt) * 1000)

ClampedDays_NewMonth(date, addDay, addMonth, addYear) ==
    IF addMonth = 0 /\ addYear = 0 THEN addDay
    ELSE LET originDay == GoCivil(date).d
             newDate   == GoCivil(GoAddDate(date, addYear, addMonth, addDay))
         IN  IF originDay # newDate.d
             THEN LastDay(newDate.y, newDate.mo) - originDay
             ELSE addDay

\* the day added so that a month step that overflowed lands on the last
\* day of the month it aimed at (date_add('2022-01-31', interval 1 month))
ClampedDays(date, addDay, addMonth, addYear) ==
    IF addMonth = 0 /\ addYear = 0 THEN addDay
    ELSE LET originDay == GoCivil(date).d
             newDate   == GoCivil(GoAddDate(date, addYear, addMonth, addDay))
         IN  IF originDay # newDate.d
             THEN LastDay(newDate.y, newDate.mo - 1) - originDay
             ELSE addDay

AddDateTime(date, addMsec, addSec, addMin, addHour, addDay, addMonth, addYear, isDate) ==
    LET d0 == GoAdd(date, addSec + addMin * secsPerMinute + addHour * secsPerHour, addMsec * 1000)
        d1 == GoAddDate(d0, addYear, addMonth, ClampedDays(d0, addDay, addMonth, addYear))
        c  == GoCivil(d1)
        k  == GoClock(d1)
        ok == IF isDate THEN validDate(c.y, c.mo, c.d) ELSE validDatetime(c.y, c.mo, c.d)
    IN  IF ok
        THEN [dt |-> FromClock(c.y, c.mo, c.d, k.h, k.mi, k.s, d1.ns \div 1000), ok |-> TRUE]
        ELSE [dt |-> Pack(0, 0), ok |-> FALSE]

IntervalTypes ==
    {"MicroSecond", "Second", "Minute", "Hour", "Day", "Week", "Month", "Quarter", "Year"}

\* the one field of the switch that nums goes to, and its multiplier
IntervalField ==
    [MicroSecond |-> <<"msec", 1>>, Second |-> <<"sec", 1>>, Minute |-> <<"min", 1>>,
     Hour |-> <<"hour", 1>>, Day |-> <<"day", 1>>, Week |-> <<"day", 7>>,
     Month |-> <<"month", 1>>, Quarter |-> <<"month", 3>>, Year |-> <<"year", 1>>]

AddInterval(dt, nums, its, isDate) ==
    LET f   == IntervalField[its]
        add(x) == IF f[1] = x THEN f[2] * nums ELSE 0
    IN  AddDateTime(ConvertToGoTime(dt), add("msec"), add("sec"), add("min"), add("hour"),
                    add("day"), add("month"), add("year"), isDate)

-----------------------------------------------------------------------------
(* The string forms.  A string is the record ParseDatetime reads: the     *)
(* yyyy-mm-dd hh:mm:ss fields and the fraction's bytes minus '0'.  The    *)
(* fields are printed with %04d and %02d, which keep their value for the *)
(* years 1..9999 Datetime allows.                                          *)

\* Sec, Minute and Hour: one field of Clock.
Hour(dt)   == Clock(dt)[1]
Minute(dt) == Clock(dt)[2]
Sec(dt)    == Clock(dt)[3]

\* The digits fmt's %d prints for n >= 0, most significant first.
RECURSIVE Decimal(_)
Decimal(n) == IF n < 10 THEN <<n>> ELSE Append(Decimal(n \div 10), n % 10)

\* %0wd: the digits of n, zero-padded on the left to w.
Padded(n, w) ==
    LET d == Decimal(n)
    IN  IF Len(d) >= w THEN d ELSE [k \in 1..w - Len(d) |-> 0] \o d

\* '\n' minus '0'
NewlineByte == 10 - 48

\* dt.String(): "yyyy-mm-dd hh:mm:ss"
String(dt) ==
    LET c == Calendar(ToDate(dt))
    IN  [form |-> "dash", shape |-> "ok", y |-> c.y, mo |-> c.mo, d |-> c.d,
         h |-> Hour(dt), mi |-> Minute(dt), s |-> Sec(dt), frac |-> <<>>]

\* Variant: the microseconds printed with %d, not zero-padded.
String2_Unpadded(dt, precision) ==
    IF precision > 0
    THEN [String(dt) EXCEPT !.frac = SubSeq(Decimal(dt.lo) \o <<NewlineByte>>, 1, precision)]
    ELSE String(dt)

\* dt.String2(precision): with precision > 0, "." and the first precision
\* bytes of Sprintf("%06d\n", int64(dt) & 0xfffff).
String2(dt, precision) ==
    IF precision > 0
    THEN [String(dt) EXCEPT !.frac = SubSeq(Padded(dt.lo, 6) \o <<NewlineByte>>, 1, precision)]
    ELSE String(dt)


-----------------------------------------------------------------------------
(* One call of ParseDatetime on one of the Inputs, then one AddInterval on *)
(* the Datetime it returned.                                               *)

VARIABLES
    input,      \* the string being parsed
    returned,   \* whether ParseDatetime has returned
    result,     \* the Datetime and error it returned
    interval,   \* the AddInterval call made on it, if one was
    added       \* the Datetime and validity AddInterval returned

vars == <<input, returned, result, interval, added>>

Init ==
    /\ input \in Inputs
    /\ returned = FALSE
    /\ result = [dt |-> Pack(0, 0), err |-> FALSE]
    /\ interval = [made |-> FALSE, nums |-> 0, its |-> "Second", isDate |-> FALSE]
    /\ added = [dt |-> Pack(0, 0), ok |-> FALSE]

Parse ==
    /\ ~returned
    /\ returned' = TRUE
    /\ result' = ParseDatetime(input)
    /\ UNCHANGED <<input, interval, added>>

CallAddInterval ==
    /\ returned /\ ~result.err
    /\ ~interval.made
    /\ \E n \in Nums, its \in IntervalTypes, isDate \in BOOLEAN :
          /\ interval' = [made |-> TRUE, nums |-> n, its |-> its, isDate |-> isDate]
          /\ added' = AddInterval(result.dt, n, its, isDate)
    /\ UNCHANGED <<input, returned, result>>

Next == Parse \/ CallAddInterval

Spec == Init /\ [][Next]_vars

-----------------------------------------------------------------------------
(* Reference reading of a string: the calendar counted year by year, and  *)
(* a carry from rounding applied as one more second on the clock.         *)

RECURSIVE YearDaysBefore(_)
YearDaysBefore(year) ==
    IF year <= 1 THEN 0
    ELSE YearDaysBefore(year - 1) + (IF isLeap(year - 1) THEN 366 ELSE 365)

DayNumber(f) ==
    YearDaysBefore(f.y) + (f.d - 1)
        + LET acc[k \in 0..12] == IF k = 0 THEN 0 ELSE acc[k - 1] + MonthDays(f.y, k)
          IN acc[f.mo - 1]

NextSecond(f) ==
    CASE f.s < 59                   -> [f EXCEPT !.s = @ + 1]
      [] f.mi < 59                  -> [f EXCEPT !.s = 0, !.mi = @ + 1]
      [] f.h < 23                   -> [f EXCEPT !.s = 0, !.mi = 0, !.h = @ + 1]
      [] f.d < MonthDays(f.y, f.mo) -> [f EXCEPT !.s = 0, !.mi = 0, !.h = 0, !.d = @ + 1]
      [] f.mo < 12                  -> [f EXCEPT !.s = 0, !.mi = 0, !.h = 0, !.d = 1, !.mo = @ + 1]
      [] OTHER                      -> [y |-> f.y + 1, mo |-> 1, d |-> 1, h |-> 0, mi |-> 0, s |-> 0]

\* microseconds of the fraction rounded half up to prec digits, 0..10^6
RoundedMicros(in) ==
    LET p == in.prec
        digits[k \in 0..p + 1] ==
            IF k = 0 THEN 0
            ELSE 10 * digits[k - 1] + (IF k <= Len(in.frac) THEN in.frac[k] ELSE 0)
    IN  ((digits[p + 1] + 5) \div 10) * 10^(6 - p)

WellFormed(in) ==
    /\ in.shape = "ok"
    /\ \A k \in 1..Len(in.frac) : in.frac[k] \in Digit
    /\ validDate(in.y, in.mo, in.d)
    /\ in.form # "date" => validTimeInDay(in.h, in.mi, in.s)

\* the date and time the string denotes, and its microseconds
Meant(in) ==
    LET t0 == IF in.form = "date"
              THEN [y |-> in.y, mo |-> in.mo, d |-> in.d, h |-> 0, mi |-> 0, s |-> 0]
              ELSE [y |-> in.y, mo |-> in.mo, d |-> in.d, h |-> in.h, mi |-> in.mi, s |-> in.s]
        us == IF in.form = "date" THEN 0 ELSE RoundedMicros(in)
    IN  [fields |-> IF us = 10^6 THEN NextSecond(t0) ELSE t0, micro |-> us % 10^6]

\* The date and time, as [s, us] since 0001-01-01, that adding nums units
\* to the parsed string denotes: a fixed unit moves the instant; a month,
\* quarter or year moves the calendar month and keeps the day, or takes the
\* last day of a shorter month. The result must lie in years 1..9999.
IntervalMeant(in, nums, its) ==
    LET m   == Meant(in)
        f   == m.fields
        tod == f.h * secsPerHour + f.mi * secsPerMinute + f.s
        fixedSecs == [Second |-> 1, Minute |-> secsPerMinute, Hour |-> secsPerHour,
                      Day |-> secsPerDay, Week |-> 7 * secsPerDay]
        months == [Month |-> 1, Quarter |-> 3, Year |-> 12]
    IN  CASE its = "MicroSecond" ->
               LET u == m.micro + nums
               IN  [s |-> DayNumber(f) * secsPerDay + tod + u \div 10^6, us |-> u % 10^6]
          [] its \in DOMAIN fixedSecs ->
               [s |-> DayNumber(f) * secsPerDay + tod + nums * fixedSecs[its], us |-> m.micro]
          [] OTHER ->
               LET tm == f.y * 12 + (f.mo - 1) + nums * months[its]
                   g  == [y |-> tm \div 12, mo |-> (tm % 12) + 1, d |-> 1]
                   d  == IF f.d <= MonthDays(g.y, g.mo) THEN f.d ELSE MonthDays(g.y, g.mo)
               IN  IF g.y < MinDatetimeYear THEN [s |-> -1, us |-> 0]
                   ELSE [s |-> DayNumber([g EXCEPT !.d = d]) * secsPerDay + tod, us |-> m.micro]


Parsed == returned /\ ~result.err

-----------------------------------------------------------------------------
(* Properties                                                              *)

\* ParseDatetime accepts exactly the well-formed strings of its three
\* formats, and the value it returns holds, in its upper bits, the seconds
\* since 0001-01-01 of the date and time written (rounded to the precision,
\* carrying into the next second, minute, day, month or year) and, in its
\* lower 20 bits, the rounded microseconds.
ParseMatchesReference ==
    returned =>
        IF WellFormed(input)
        THEN LET m == Meant(input)
                 f == m.fields
             IN  /\ ~result.err
                 /\ result.dt.hi = DayNumber(f) * secsPerDay
                                     + f.h * secsPerHour + f.mi * secsPerMinute + f.s
                 /\ result.dt.lo = m.micro
        ELSE result.err

\* Hour, Minute, Sec (through Clock) and ToDate of a parsed Datetime give
\* back the time of day and the day the string denotes, after rounding.
ClockMatchesReference ==
    Parsed =>
        LET f == Meant(input).fields
        IN  /\ <<Hour(result.dt), Minute(result.dt), Sec(result.dt)>> = <<f.h, f.mi, f.s>>
            /\ ToDate(result.dt) = DayNumber(f)

\* What String2 prints at the precision a value was parsed with reads back
\* as the same value, and what String prints as the same value without its
\* microseconds: formatting (calendar, clock, the zero-padded fraction of
\* the low 20 bits) and parsing agree, carries included.
FormatRoundTrip ==
    Parsed =>
        /\ ParseDatetime(String2(result.dt, input.prec) @@ ("prec" :> input.prec)) = result
        /\ ParseDatetime(String(result.dt) @@ ("prec" :> 0)) = [result EXCEPT !.dt.lo = 0]

\* MicroSec of a parsed Datetime is the microsecond part the string denotes.
MicroSecMatchesLayout ==
    Parsed => MicroSec(result.dt) = Meant(input).micro

\* DATE_ADD/DATE_SUB on a parsed Datetime: AddInterval reports a valid
\* result exactly when the date and time the interval leads to lies in
\* years 1..9999, and then returns that date and time, with the day of a
\* month step clamped to the end of the target month.
AddIntervalMatchesReference ==
    interval.made =>
        LET r == IntervalMeant(input, interval.nums, interval.its)
        IN  /\ added.ok = (r.s >= 0)
            /\ added.ok => added.dt = [hi |-> r.s, lo |-> r.us]

=============================================================================
