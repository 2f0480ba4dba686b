------------------------------- MODULE TimeText -------------------------------
(***************************************************************************)
(* The dates and durations beside the search results                       *)
(* (frontend/shared/libs/time.ts): conditionalDatetime for messages and    *)
(* humanReadableDuration for documents, as functions of the time at which  *)
(* something was written and the time at which the page is rendered.       *)
(*                                                                         *)
(* Times are whole seconds since 1970 in UTC; a text is the record of its  *)
(* parts, with Omitted for a part that is left out.  Local time has a      *)
(* fixed offset to UTC.                                                    *)
(***************************************************************************)
EXTENDS Integers

CONSTANT Offset     \* of the browser's time zone, in seconds

ASSUME OffsetAssumption == Offset \in Int

Omitted == -1

MIN_SECONDS == 60
HOUR_SECONDS == 60 * MIN_SECONDS
DAY_SECONDS == 24 * HOUR_SECONDS
WEEK_SECONDS == 7 * DAY_SECONDS
YEAR_SECONDS == 1461 * 6 * HOUR_SECONDS    \* 365.25 days

-----------------------------------------------------------------------------
(* JavaScript's Date, between 1970 and 2099 *)

DayNumber(t) == t \div DAY_SECONDS
YearStart(y) == 365 * y + (y + 1) \div 4    \* the day number of January 1, 1970 + y
Year(t) == (4 * DayNumber(t) + 2) \div 1461
IsLeap(y) == y % 4 = 2

\* The month and the day of the month, as the number of the day in a leap year.
MonthAndDate(t) == LET y == Year(t)
                       n == DayNumber(t) - YearStart(y)
                   IN  IF IsLeap(y) \/ n < 59 THEN n ELSE n + 1

Local(t) == t + Offset
getDay(t) == (DayNumber(Local(t)) + 4) % 7
getHours(t) == (Local(t) % DAY_SECONDS) \div HOUR_SECONDS
getMinutes(t) == (Local(t) % HOUR_SECONDS) \div MIN_SECONDS
getFullYear(t) == Year(Local(t))
getUTCFullYear(t) == Year(t)

-----------------------------------------------------------------------------
(* conditionalDatetime, with meridian *)

hhmm(t) == 
    [hours |-> IF getHours(t) % 12 = 0 THEN 12 ELSE getHours(t) % 12, 
     minutes |-> getMinutes(t), half |-> IF getHours(t) < 12 THEN "am" ELSE "pm"]

TimeOnly(t) == [time |-> hhmm(t), day |-> Omitted, monthAndDate |-> Omitted, year |-> Omitted]

secondsAgo(t, at) == at - t

IsToday(t, at) == secondsAgo(t, at) < 86400 /\ getDay(t) = getDay(at)

humanReadableDatetime(t, includeYear) ==
    [TimeOnly(t) EXCEPT !.day = getDay(t), !.monthAndDate = MonthAndDate(Local(t)), 
                        !.year = IF includeYear THEN getUTCFullYear(t) ELSE Omitted]

conditionalDatetime(t, at) ==
    CASE IsToday(t, at) -> TimeOnly(t)
      [] ~IsToday(t, at) /\ secondsAgo(t, at) <= 86400 * 6 -> [TimeOnly(t) EXCEPT !.day = getDay(t)]
      [] OTHER -> humanReadableDatetime(t, secondsAgo(t, at) > 86400 * 364)

-----------------------------------------------------------------------------
(* humanReadableDuration *)

\* Math.round(n / d)
Round(n, d) == (2 * n + d) \div (2 * d)

InUnit(n, unit) == [count |-> Round(n, unit), unit |-> unit]

\* The condition for hours compares the minutes, which are 60 and more by then.
humanReadableDuration(date1, date2) ==
    LET ago == date2 - date1
        diffSeconds == IF ago > 1 THEN ago ELSE 1
        diffMinutesBelow(n) == diffSeconds < n * MIN_SECONDS
    IN  CASE diffSeconds < 60 -> InUnit(diffSeconds, 1)
          [] diffSeconds >= 60 /\ diffMinutesBelow(60) -> InUnit(diffSeconds, MIN_SECONDS)
          [] ~diffMinutesBelow(60) /\ diffMinutesBelow(24) -> InUnit(diffSeconds, HOUR_SECONDS)
          [] ~diffMinutesBelow(60) /\ diffSeconds < 7 * DAY_SECONDS -> InUnit(diffSeconds, DAY_SECONDS)
          [] diffSeconds >= 7 * DAY_SECONDS /\ diffSeconds < 52 * WEEK_SECONDS -> InUnit(diffSeconds, WEEK_SECONDS)
          [] OTHER -> InUnit(diffSeconds, YEAR_SECONDS)

-----------------------------------------------------------------------------
(* What they promise *)

SameDay(t, u) == DayNumber(Local(t)) = DayNumber(Local(u))

\* "HH:MM a/pm if today", and only then, although the code compares ages and weekdays.
TimeAloneIsToday(t, at) == (conditionalDatetime(t, at) = TimeOnly(t)) <=> SameDay(t, at)

\* Two messages that were not written in the same minute are not shown with the same text,
\* although most texts leave out the year, and many the date.
Unambiguous(t, u, at) ==
    t \div MIN_SECONDS # u \div MIN_SECONDS =>
        conditionalDatetime(t, at) # conditionalDatetime(u, at)

\* What is shown of a duration is within half of the unit that it is shown in.
DurationIsRounded(date1, date2) ==
    LET shown == humanReadableDuration(date1, date2)
        error == (date2 - date1) - shown.count * shown.unit
    IN  2 * error <= shown.unit /\ -2 * error <= shown.unit
=============================================================================
