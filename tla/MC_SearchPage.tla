---------------------------- MODULE MC_SearchPage ----------------------------
(***************************************************************************)
(* The search page for TLC, and the dates beside its results, which are    *)
(* functions: the hours around the turn of the year 2019/2020, seen then,  *)
(* a week later and a year later.                                          *)
(***************************************************************************)
EXTENDS SearchPage, TimeText

NewYear == 18262 * DAY_SECONDS      \* January 1, 2020, in UTC
Written == {NewYear + h * HOUR_SECONDS + m : h \in -26..26, m \in {0, 1800}}
Rendered == {NewYear + d * DAY_SECONDS + 26 * HOUR_SECONDS + 1800 : d \in {0, 1, 5, 6, 7, 363, 364, 365, 366}}
Ages == (1..7300) \cup {n * HOUR_SECONDS : n \in 1..200} \cup {n * DAY_SECONDS : n \in 8..800}

\* The dates and the durations keep what TimeText promises of them.
ASSUME DatesAreClear ==
    /\ \A at \in Rendered, t \in Written : TimeAloneIsToday(t, at)
    /\ \A at \in Rendered, t, u \in Written : Unambiguous(t, u, at)
    /\ \A n \in Ages : DurationIsRounded(NewYear, NewYear + n)
=============================================================================
