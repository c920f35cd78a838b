------------------------------- MODULE Schedule -------------------------------
(***************************************************************************)
(* When the next round of a repeating poll opens (addInterval and the walk *)
(* in rollSeries).  Times are counted in days: the code computes with      *)
(* milliseconds, in the same way.                                          *)
(***************************************************************************)
EXTENDS Integers

CONSTANTS
    Months,     \* bound: months of the calendar
    MonthStart  \* the day on which each of them begins, and the day after the last

MonthLength(m) == MonthStart[m + 1] - MonthStart[m]

ASSUME ScheduleAssumption ==
    /\ Months \in Nat \ {0}
    /\ MonthStart \in [1..(Months + 1) -> Nat]
    /\ MonthStart[1] = 0
    /\ \A m \in 1..Months : MonthLength(m) \in 28..31

Days == 0..(MonthStart[Months + 1] - 1)
In(d, m) == MonthStart[m] <= d /\ d < MonthStart[m + 1]
MonthOf(d) == CHOOSE m \in 1..Months : In(d, m)
DayOfMonth(d) == d - MonthStart[MonthOf(d)] + 1

Intervals == {"daily", "weekly", "monthly"}

\* Mutant: a month is a fixed number of days.
AddIntervalBug(d, interval) ==
    d + CASE interval = "daily"   -> 1
          [] interval = "weekly"  -> 7
          [] interval = "monthly" -> 30

\* The same day of the next month: a day that month does not have runs over
\* into the month after it, as Date.setMonth has it, and either way that is as
\* many days on as this month has.
AddInterval(d, interval) ==
    d + CASE interval = "daily"   -> 1
          [] interval = "weekly"  -> 7
          [] interval = "monthly" -> MonthLength(MonthOf(d))

\* The first time from d on at which a round of this length would not be over
\* at the time now.
Walk(d, interval, length, now) ==
    LET from[e \in Nat] == IF e + length > now THEN e ELSE from[AddInterval(e, interval)]
    IN from[d]
=============================================================================
