------------------------------- MODULE Periods -------------------------------
(***************************************************************************)
(* Billing period arithmetic, app/engines/billing/periods.py.  A date is   *)
(* its ordinal: day 1 is the first of January of FirstYear.  Money is in   *)
(* cents.                                                                  *)
(***************************************************************************)
EXTENDS Integers, Sequences, FiniteSets

CONSTANTS
  FirstYear,     \* the first year of the calendar
  FirstWeekday,  \* the weekday of its first day, Monday being 0
  Years          \* the number of years of the calendar (a bound)

ASSUME CalendarInputs ==
  /\ FirstYear \in Nat /\ FirstWeekday \in 0..6 /\ Years \in Nat \ { 0 }

Period == [ year : FirstYear..(FirstYear + Years - 1), month : 1..12 ]

\* calendar.monthrange(year, month)[1].
month_days(p) ==
  CASE p.month \in { 4, 6, 9, 11 } -> 30
    [] p.month = 2 ->
         IF p.year % 4 = 0 /\ (p.year % 100 # 0 \/ p.year % 400 = 0)
         THEN 29 ELSE 28
    [] OTHER -> 31

PeriodAt(i) == [ year |-> FirstYear + (i \div 12), month |-> (i % 12) + 1 ]

Position(p) == 12 * (p.year - FirstYear) + p.month - 1

\* The first day of the period at each position, and of the one after the last.
Firsts[i \in 0..(12 * Years)] ==
  IF i = 0 THEN 1 ELSE Firsts[i - 1] + month_days(PeriodAt(i - 1))

first_day(p) == Firsts[Position(p)]

last_day(p) == first_day(p) + month_days(p) - 1

Date == 1..(Firsts[12 * Years] - 1)

weekday(d) == (d - 1 + FirstWeekday) % 7

next_period(p) ==
  IF p.month = 12
  THEN [ year |-> p.year + 1, month |-> 1 ]
  ELSE [ p EXCEPT !.month = @ + 1 ]

before(p, q) ==
  p.year < q.year \/ (p.year = q.year /\ p.month < q.month)

period_of(d) == CHOOSE p \in Period : first_day(p) <= d /\ d <= last_day(p)

\* Every calendar month from the one of start to the one of end.
periods_between(start, end) ==
  LET final == period_of(end)
      more[p \in Period] ==
        IF before(p, final) THEN << p >> \o more[next_period(p)]
        ELSE IF p = final THEN << p >> ELSE << >>
  IN  IF end < start THEN << >> ELSE more[period_of(start)]

\* Mondays to Fridays from start to end, both included.
working_days(start, end) == Cardinality({ d \in start..end : weekday(d) < 5 })

Later(x, y)   == IF x >= y THEN x ELSE y
Earlier(x, y) == IF x <= y THEN x ELSE y

NoDate == 0   \* a date column that is NULL

\* The overlap of a deployment with one month; days is 0 and from is past to
\* where the code returns None.
coverage(p, start, end) ==
  LET from == Later(start, first_day(p))
      to   == IF end = NoDate THEN last_day(p) ELSE Earlier(end, last_day(p))
  IN  [ from |-> from, to |-> to,
        days |-> working_days(from, to),
        full |-> working_days(first_day(p), last_day(p)) ]

covers(cover) == cover.from <= cover.to

is_partial(cover) == cover.days < cover.full

\* n / d to the nearest whole cent, halves up.
round_half_up(n, d) == (2 * n + d) \div (2 * d)

\* Mutant: the share of the month is cut off to whole cents.
prorate_down(monthly, cover) == (monthly * cover.days) \div cover.full

\* Every month has working days, so the share of it is days / full.
prorate(monthly, cover) == round_half_up(monthly * cover.days, cover.full)

amounts_for(cover, monthly_revenue, monthly_cost) ==
  LET revenue == prorate(monthly_revenue, cover)
      cost    == prorate(monthly_cost, cover)
  IN  [ revenue |-> revenue, cost |-> cost, profit |-> revenue - cost ]
=============================================================================
