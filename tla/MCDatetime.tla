----------------------------- MODULE MCDatetime -----------------------------
(***************************************************************************)
(* Strings for ParseDatetime. A string is given by its format, the fields *)
(* its digits spell, its fraction and the precision asked for, and a      *)
(* shape: well formed, too short for its format ("trunc"), a wrong        *)
(* separator ("badsep") or a wrong tail after the seconds ("badtail").    *)
(* Years 1 and 4 give a common and a leap year and the first day of the   *)
(* calendar; the fields reach every carry of a rounded-up fraction.       *)
(***************************************************************************)
EXTENDS Datetime

Dates == [y : {1, 4}, mo : {2, 12}, d : {1, 28, 29, 31}]

Times == [h : {0, 23, 24}, mi : {59, 60}, s : {0, 59, 60}]

\* fractions and precisions: none, rounding up to a whole second at
\* precisions 0, 3 and 6, rounding down, a leading zero, rounding up
\* within the second, a non-digit (a byte minus '0', here ':')
Tails ==
    { [frac |-> <<>>, prec |-> 0],
      [frac |-> <<5>>, prec |-> 0],
      [frac |-> <<9, 9, 9, 5>>, prec |-> 3],
      [frac |-> <<1, 2, 3, 4>>, prec |-> 3],
      [frac |-> <<0, 5>>, prec |-> 2],
      [frac |-> <<4, 9, 9, 9, 9, 9, 9>>, prec |-> 6],
      [frac |-> <<9, 9, 9, 9, 9, 9, 5>>, prec |-> 6],
      [frac |-> <<10>>, prec |-> 0] }

Str(form, shape, dt, tm, tail) ==
    [form |-> form, shape |-> shape, y |-> dt.y, mo |-> dt.mo, d |-> dt.d,
     h |-> tm.h, mi |-> tm.mi, s |-> tm.s, frac |-> tail.frac, prec |-> tail.prec]

NoTime == [h |-> 0, mi |-> 0, s |-> 0]
NoTail == [frac |-> <<>>, prec |-> 0]

ValidDates == {dt \in Dates : validDate(dt.y, dt.mo, dt.d)}
ValidTimes == {tm \in Times : validTimeInDay(tm.h, tm.mi, tm.s)}

\* every date-only string, every yyyy-mm-dd hh:mm:ss string, and the
\* compact strings whose fields are a valid date and time
MCInputs ==
    { Str("date", "ok", dt, NoTime, NoTail) : dt \in Dates }
    \cup { Str("dash", "ok", dt, tm, tl) : dt \in Dates, tm \in Times, tl \in Tails }
    \cup { Str("dash", sh, dt, tm, NoTail) :
               sh \in {"trunc", "badsep", "badtail"}, dt \in Dates, tm \in Times }
    \cup { Str("compact", "ok", dt, tm, tl) : dt \in ValidDates, tm \in ValidTimes, tl \in Tails }
    \cup { Str("compact", "badtail", dt, tm, NoTail) : dt \in ValidDates, tm \in ValidTimes }

\* "0001-01-01 00:00:00.6" at precision 1: 600000 microseconds
MCInputsMicro ==
    { Str("dash", "ok", [y |-> 1, mo |-> 1, d |-> 1], NoTime, [frac |-> <<6>>, prec |-> 1]) }

\* no AddInterval call
MCNoNums == {}

MCNums == {-1, 0, 1}

=============================================================================
