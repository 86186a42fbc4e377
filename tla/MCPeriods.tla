------------------------------ MODULE MCPeriods ------------------------------
(* The period arithmetic checked against its meaning for every deployment of *)
(* a stretch of the calendar: a state is one pair of dates and a rate.        *)
EXTENDS Periods, TLC

CONSTANTS FromDay, ToDay, Rates

VARIABLES start, end, rate

stretch == << start, end, rate >>

CalendarInit == start \in FromDay..ToDay /\ end = start /\ rate \in Rates

\* The deployment is one day longer, or ends before it starts, or is a single
\* day again.
CalendarNext ==
  /\ \/ end >= start /\ end < ToDay /\ end' = end + 1
     \/ end = start /\ start > FromDay /\ end' = start - 1
     \/ end # start /\ end' = start
  /\ UNCHANGED << start, rate >>

Months == periods_between(start, end)

Billed[i \in 0..Len(Months)] ==
  IF i = 0 THEN 0 ELSE Billed[i - 1] + coverage(Months[i], start, end).days

\* The months of a deployment are the months its days fall in, each once and in
\* order; a deployment that ends before it starts has none.
MonthsAreThoseTouched ==
  /\ { Months[i] : i \in DOMAIN Months } = { period_of(d) : d \in start..end }
  /\ \A i, j \in DOMAIN Months : i < j => before(Months[i], Months[j])

\* "Does the sum of the monthly rows equal what we actually billed?": every
\* working day of the deployment is billed in exactly one month.
NoDayLostOrBilledTwice == Billed[Len(Months)] = working_days(start, end)

\* When an extension takes over in the middle of a month, what the two
\* deployments bill for that month is the month's rate, but for one cent of
\* rounding.
SplitMonthReconciles ==
  \A i \in DOMAIN Months :
    LET p == Months[i]
        first  == coverage(p, first_day(p), end)
        second == coverage(p, end + 1, NoDate)
        sum    == prorate(rate, first)
                    + IF covers(second) THEN prorate(rate, second) ELSE 0
    IN  end >= first_day(p) => sum \in { rate, rate + 1 }

\* A month is billed whole exactly when no working day of it is missing, and
\* never above its rate.
WholeMonthsBillWhole ==
  \A i \in DOMAIN Months :
    LET cover  == coverage(Months[i], start, end)
        billed == amounts_for(cover, rate, rate).revenue
    IN  /\ billed <= rate
        /\ ~ is_partial(cover) => billed = rate

\* The billing calendar, for any dates and rate.
CalendarHolds ==
  /\ MonthsAreThoseTouched
  /\ NoDayLostOrBilledTwice
  /\ SplitMonthReconciles
  /\ WholeMonthsBillWhole
=============================================================================
