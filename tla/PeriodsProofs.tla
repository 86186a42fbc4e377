--------------------------- MODULE PeriodsProofs ---------------------------
(***************************************************************************)
(* The calendar of Periods, proved for every first year, first weekday and *)
(* number of years: the months follow each other without a gap, and every  *)
(* date lies in exactly one of them.                                       *)
(***************************************************************************)
EXTENDS Periods, WellFoundedInduction, SequenceTheorems, FiniteSetTheorems,
        TLAPS

\* A set of naturals has a least element: what the inductions below are made
\* from, each on the least counterexample.
LEMMA NatHasLeast ==
  ASSUME NEW T, T \subseteq Nat, T # {}
  PROVE  \E x \in T : \A y \in T : x <= y
<1> DEFINE R == OpToRel(<, Nat)
<1>1. R = { ss \in Nat \X Nat : ss[1] < ss[2] }
  BY DEF OpToRel
<1>2. IsWellFoundedOn(R, Nat)
  BY NatLessThanWellFounded
<1>3. ASSUME NEW x \in Nat, NEW y \in Nat, y < x
      PROVE  << y, x >> \in R
  BY <1>1, <1>3
<1> HIDE DEF R
<1>4. PICK x \in T : \A y \in T : ~ (<< y, x >> \in R)
  BY <1>2, WFMin
<1>5. ASSUME NEW y \in T
      PROVE  x <= y
  <2>1. x \in Nat /\ y \in Nat
    OBVIOUS
  <2>2. ~ (y < x)
    BY <1>3, <1>4, <2>1
  <2>3. QED
    BY <2>1, <2>2
<1>6. QED
  BY <1>5

\* Induction on the naturals for a set: one that holds 0 and the successor of
\* each of its members holds them all.
LEMMA NatSetInduction ==
  ASSUME NEW S, 0 \in S, \A n \in Nat : n \in S => n + 1 \in S
  PROVE  Nat \subseteq S
<1> SUFFICES ASSUME Nat \ S # {}
             PROVE  FALSE
  OBVIOUS
<1>1. PICK n \in Nat \ S : \A m \in Nat \ S : n <= m
  <2> DEFINE T == Nat \ S
  <2>1. T \subseteq Nat /\ T # {}
    OBVIOUS
  <2> HIDE DEF T
  <2>2. \E x \in T : \A y \in T : x <= y
    BY <2>1, NatHasLeast
  <2>3. QED
    BY <2>2 DEF T
<1>2. n # 0 /\ n \in Nat
  OBVIOUS
<1>3. n - 1 \in Nat /\ ~ (n <= n - 1)
  BY <1>2
<1>4. n - 1 \in S
  BY <1>1, <1>3
<1>5. (n - 1) + 1 \in S
  BY <1>3, <1>4
<1>6. QED
  BY <1>2, <1>5

\* f adds the steps up, from first, as far as position n.
IsRunningTotal(f, first, step, n) ==
  f = [ i \in 0..n |-> IF i = 0 THEN first ELSE f[i - 1] + step[i - 1] ]

\* A running total of any steps exists, up to any position.
LEMMA RunningTotals ==
  ASSUME NEW first, NEW step, NEW n \in Nat
  PROVE  \E f : IsRunningTotal(f, first, step, n)
<1> DEFINE Total(f, m) == IsRunningTotal(f, first, step, m)
           S == { m \in Nat : \E f : Total(f, m) }
<1>1. 0 \in S
  <2> DEFINE f == [ i \in 0..0 |-> first ]
  <2>1. Total(f, 0)
    BY DEF IsRunningTotal
  <2>2. QED
    BY <2>1
<1>2. ASSUME NEW m \in Nat, m \in S
      PROVE  m + 1 \in S
  <2>1. PICK f : Total(f, m)
    BY <1>2
  <2> DEFINE g == [ i \in 0..(m + 1) |-> IF i = m + 1 THEN f[m] + step[m] ELSE f[i] ]
  <2>2. Total(g, m + 1)
    BY <2>1 DEF IsRunningTotal
  <2> HIDE DEF g
  <2>3. \E h : Total(h, m + 1)
    BY <2>2, Zenon
  <2>4. QED
    BY <2>3
<1> HIDE DEF S
<1>3. Nat \subseteq S
  BY <1>1, <1>2, NatSetInduction
<1>4. QED
  BY <1>3 DEF S

-----------------------------------------------------------------------------
(* The first days of the months.                                           *)

\* A month has 28 to 31 days.
LEMMA MonthDays ==
  ASSUME NEW p
  PROVE  month_days(p) \in 28..31
  BY DEF month_days

\* Firsts is what its definition says.
LEMMA FirstsUnfolds ==
  Firsts = [ i \in 0..(12 * Years) |->
               IF i = 0 THEN 1 ELSE Firsts[i - 1] + month_days(PeriodAt(i - 1)) ]
<1> DEFINE step == [ i \in Nat |-> month_days(PeriodAt(i)) ]
           Is(f) == f = [ i \in 0..(12 * Years) |->
                            IF i = 0 THEN 1 ELSE f[i - 1] + month_days(PeriodAt(i - 1)) ]
<1>1. 12 * Years \in Nat
  BY CalendarInputs
<1>2. PICK f : IsRunningTotal(f, 1, step, 12 * Years)
  <2> HIDE DEF step
  <2>1. QED
    BY <1>1, RunningTotals
<1>3. Is(f)
  <2>1. ASSUME NEW i \in 0..(12 * Years), i # 0
        PROVE  step[i - 1] = month_days(PeriodAt(i - 1))
    BY <1>1, <2>1
  <2> HIDE DEF step
  <2>2. QED
    BY <1>2, <2>1 DEF IsRunningTotal
<1>4. Firsts = CHOOSE g : Is(g)
  BY DEF Firsts
<1> HIDE DEF Is
<1>5. Is(Firsts)
  BY <1>3, <1>4
<1>6. QED
  BY <1>5 DEF Is

\* The first day of a month, as a step from the one before.
LEMMA FirstsSteps ==
  /\ Firsts[0] = 1
  /\ \A i \in 0..(12 * Years - 1) :
       Firsts[i + 1] = Firsts[i] + month_days(PeriodAt(i))
<1>1. 12 * Years \in Nat /\ 12 * Years > 0
  BY CalendarInputs
<1>2. Firsts[0] = 1
  BY <1>1, FirstsUnfolds
<1>3. ASSUME NEW i \in 0..(12 * Years - 1)
      PROVE  Firsts[i + 1] = Firsts[i] + month_days(PeriodAt(i))
  <2>1. i + 1 \in 0..(12 * Years) /\ i + 1 # 0 /\ (i + 1) - 1 = i
    BY <1>1
  <2>2. Firsts[i + 1] = Firsts[(i + 1) - 1] + month_days(PeriodAt((i + 1) - 1))
    BY <2>1, FirstsUnfolds
  <2>3. QED
    BY <2>1, <2>2
<1>4. QED
  BY <1>2, <1>3

\* First days are naturals that go up from month to month.
LEMMA FirstsGoUp ==
  /\ \A i \in 0..(12 * Years) : Firsts[i] \in Nat /\ Firsts[i] > i
  /\ \A i, j \in 0..(12 * Years) : i < j => Firsts[i] < Firsts[j]
<1>0. 12 * Years \in Nat
  BY CalendarInputs
<1>1. ASSUME NEW i \in 0..(12 * Years), i + 1 <= 12 * Years, Firsts[i] \in Nat
      PROVE  Firsts[i + 1] \in Nat /\ Firsts[i + 1] >= Firsts[i] + 28
  <2>1. i \in 0..(12 * Years - 1)
    BY <1>0, <1>1
  <2>2. month_days(PeriodAt(i)) \in 28..31
    BY MonthDays
  <2>3. Firsts[i + 1] = Firsts[i] + month_days(PeriodAt(i))
    BY <2>1, FirstsSteps
  <2>4. QED
    BY <1>1, <2>2, <2>3
<1>2. \A i \in 0..(12 * Years) : Firsts[i] \in Nat /\ Firsts[i] > i
  <2> DEFINE S == { i \in Nat : i <= 12 * Years => Firsts[i] \in Nat /\ Firsts[i] > i }
  <2>1. 0 \in S
    BY FirstsSteps
  <2>2. ASSUME NEW n \in Nat, n \in S
        PROVE  n + 1 \in S
    <3>1. CASE n + 1 <= 12 * Years
      <4>1. n \in 0..(12 * Years) /\ Firsts[n] \in Nat /\ Firsts[n] > n
        BY <1>0, <2>2, <3>1
      <4>2. QED
        BY <1>1, <3>1, <4>1
    <3>2. CASE ~ (n + 1 <= 12 * Years)
      BY <3>2
    <3>3. QED
      BY <3>1, <3>2
  <2> HIDE DEF S
  <2>3. Nat \subseteq S
    BY <2>1, <2>2, NatSetInduction
  <2>4. QED
    BY <1>0, <2>3 DEF S
<1>3. ASSUME NEW i \in 0..(12 * Years)
      PROVE  \A j \in 0..(12 * Years) : i < j => Firsts[i] < Firsts[j]
  <2> DEFINE S == { j \in Nat : i < j /\ j <= 12 * Years => Firsts[i] < Firsts[j] }
  <2>1. 0 \in S
    BY <1>0
  <2>2. ASSUME NEW n \in Nat, n \in S
        PROVE  n + 1 \in S
    <3>1. CASE i <= n /\ n + 1 <= 12 * Years
      <4>1. n \in 0..(12 * Years) /\ Firsts[n] \in Nat /\ Firsts[i] \in Nat
        BY <1>0, <1>2, <3>1
      <4>2. Firsts[i] <= Firsts[n]
        BY <2>2, <3>1, <4>1
      <4>3. Firsts[n + 1] \in Nat /\ Firsts[n + 1] >= Firsts[n] + 28
        BY <1>1, <3>1, <4>1
      <4>4. QED
        BY <4>1, <4>2, <4>3
    <3>2. CASE ~ (i <= n /\ n + 1 <= 12 * Years)
      BY <1>0, <3>2
    <3>3. QED
      BY <3>1, <3>2
  <2> HIDE DEF S
  <2>3. Nat \subseteq S
    BY <2>1, <2>2, NatSetInduction
  <2>4. QED
    BY <1>0, <2>3 DEF S
<1>4. QED
  BY <1>2, <1>3

\* Position and PeriodAt are inverses: months are numbered from 0.
LEMMA PositionsAreMonths ==
  /\ \A p \in Period : Position(p) \in 0..(12 * Years - 1) /\ PeriodAt(Position(p)) = p
  /\ \A i \in 0..(12 * Years - 1) : PeriodAt(i) \in Period /\ Position(PeriodAt(i)) = i
<1>1. ASSUME NEW p \in Period
      PROVE  Position(p) \in 0..(12 * Years - 1) /\ PeriodAt(Position(p)) = p
  <2>1. /\ p.year \in FirstYear..(FirstYear + Years - 1)
        /\ p.month \in 1..12
        /\ p = [ year |-> p.year, month |-> p.month ]
    BY DEF Period
  <2> DEFINE y == p.year - FirstYear
             m == p.month - 1
  <2>2. y \in 0..(Years - 1) /\ m \in 0..11 /\ Years \in Nat /\ FirstYear \in Nat
    BY <2>1, CalendarInputs
  <2>3. Position(p) = 12 * y + m
    BY <2>1, <2>2 DEF Position
  <2> HIDE DEF y, m
  <2>4. /\ 12 * y + m \in 0..(12 * Years - 1)
        /\ (12 * y + m) \div 12 = y
        /\ (12 * y + m) % 12 = m
    BY <2>2
  <2>5. FirstYear + y = p.year /\ m + 1 = p.month
    BY <2>1, CalendarInputs DEF y, m
  <2>6. QED
    BY <2>1, <2>3, <2>4, <2>5 DEF PeriodAt
<1>2. ASSUME NEW i \in 0..(12 * Years - 1)
      PROVE  PeriodAt(i) \in Period /\ Position(PeriodAt(i)) = i
  <2>1. Years \in Nat /\ FirstYear \in Nat /\ i \in Nat /\ i <= 12 * Years - 1
    BY CalendarInputs
  <2>2. i \div 12 \in 0..(Years - 1) /\ i % 12 \in 0..11 /\ i = 12 * (i \div 12) + (i % 12)
    BY <2>1
  <2>3. QED
    BY <2>1, <2>2 DEF PeriodAt, Position, Period
<1>3. QED
  BY <1>1, <1>2

-----------------------------------------------------------------------------
(* Months and the dates in them.                                           *)

\* The first day of a month and the day after its last, by position.
LEMMA MonthBounds ==
  ASSUME NEW p \in Period
  PROVE  /\ first_day(p) = Firsts[Position(p)]
         /\ last_day(p) = Firsts[Position(p) + 1] - 1
         /\ first_day(p) \in Date /\ last_day(p) \in Date
         /\ first_day(p) + 27 <= last_day(p)
<1> DEFINE i == Position(p)
<1>1. i \in 0..(12 * Years - 1) /\ PeriodAt(i) = p /\ 12 * Years \in Nat
  BY PositionsAreMonths, CalendarInputs
<1>2. first_day(p) = Firsts[i]
  BY DEF first_day
<1> HIDE DEF i
<1>3. Firsts[i + 1] = Firsts[i] + month_days(p)
  BY <1>1, FirstsSteps
<1>4. last_day(p) = Firsts[i + 1] - 1
  <2>1. month_days(p) \in 28..31 /\ Firsts[i] \in Nat
    BY <1>1, MonthDays, FirstsGoUp
  <2>2. QED
    BY <1>2, <1>3, <2>1 DEF last_day
<1>5. month_days(p) \in 28..31
  BY MonthDays
<1>6. /\ Firsts[i] \in Nat /\ Firsts[i] > i
      /\ Firsts[i + 1] \in Nat
      /\ Firsts[12 * Years] \in Nat
      /\ Firsts[i + 1] <= Firsts[12 * Years]
  <2>1. i \in 0..(12 * Years) /\ i + 1 \in 0..(12 * Years) /\ 12 * Years \in 0..(12 * Years)
    BY <1>1
  <2>2. i + 1 = 12 * Years \/ i + 1 < 12 * Years
    BY <1>1
  <2>3. QED
    BY <2>1, <2>2, FirstsGoUp
<1>7. first_day(p) \in Date /\ last_day(p) \in Date
  BY <1>1, <1>2, <1>3, <1>4, <1>5, <1>6 DEF Date
<1>8. first_day(p) + 27 <= last_day(p)
  BY <1>2, <1>3, <1>4, <1>5, <1>6
<1>9. QED
  BY <1>2, <1>4, <1>7, <1>8 DEF i

\* The order of months is the order of their positions, and months do not
\* overlap.
LEMMA MonthsInOrder ==
  ASSUME NEW p \in Period, NEW q \in Period
  PROVE  /\ before(p, q) <=> Position(p) < Position(q)
         /\ before(p, q) => last_day(p) < first_day(q)
         /\ p = q <=> Position(p) = Position(q)
<1>1. Position(p) < Position(q) <=> before(p, q)
  <2>1. /\ p.year \in Nat /\ p.month \in 1..12
        /\ q.year \in Nat /\ q.month \in 1..12
        /\ FirstYear \in Nat
    BY CalendarInputs DEF Period
  <2>2. QED
    BY <2>1 DEF before, Position
<1>2. p = q <=> Position(p) = Position(q)
  BY PositionsAreMonths
<1>3. ASSUME Position(p) < Position(q)
      PROVE  last_day(p) < first_day(q)
  <2>1. /\ Position(p) \in 0..(12 * Years - 1)
        /\ Position(q) \in 0..(12 * Years - 1)
        /\ 12 * Years \in Nat
    BY PositionsAreMonths, CalendarInputs
  <2>2. /\ Position(p) + 1 \in 0..(12 * Years)
        /\ Position(q) \in 0..(12 * Years)
        /\ \/ Position(p) + 1 = Position(q)
           \/ Position(p) + 1 < Position(q)
    BY <1>3, <2>1
  <2>3. /\ Firsts[Position(p) + 1] \in Nat /\ Firsts[Position(q)] \in Nat
        /\ Firsts[Position(p) + 1] <= Firsts[Position(q)]
    BY <2>2, FirstsGoUp
  <2>4. QED
    BY <2>3, MonthBounds
<1>4. QED
  BY <1>1, <1>2, <1>3

\* period_of(d) is the month that date d is in, and the only one.
LEMMA DateHasItsPeriod ==
  ASSUME NEW d \in Date
  PROVE  /\ period_of(d) \in Period
         /\ first_day(period_of(d)) <= d /\ d <= last_day(period_of(d))
         /\ \A p \in Period :
              first_day(p) <= d /\ d <= last_day(p) => p = period_of(d)
<1>0. 12 * Years \in Nat /\ 12 * Years > 0 /\ d \in Nat /\ d > 0
  <2>1. Firsts[12 * Years] \in Nat
    BY CalendarInputs, FirstsGoUp
  <2>2. QED
    BY <2>1, CalendarInputs DEF Date
<1>1. \E p \in Period : first_day(p) <= d /\ d <= last_day(p)
  <2> DEFINE T == { i \in 0..(12 * Years) : Firsts[i] > d }
  <2>1. 12 * Years \in T
    <3>1. 12 * Years \in 0..(12 * Years)
      BY <1>0
    <3>2. Firsts[12 * Years] \in Nat
      BY <3>1, FirstsGoUp
    <3>3. QED
      BY <3>1, <3>2 DEF Date
  <2>2. T \subseteq Nat /\ T # {}
    BY <2>1
  <2> HIDE DEF T
  <2>3. PICK i \in T : \A j \in T : i <= j
    BY <2>2, NatHasLeast
  <2> USE DEF T
  <2>4. i \in 0..(12 * Years) /\ Firsts[i] > d
    BY <2>3
  <2>5. i # 0
    BY <1>0, <2>4, FirstsSteps
  <2>6. i - 1 \in 0..(12 * Years - 1) /\ i - 1 \in 0..(12 * Years) /\ i - 1 < i
    BY <1>0, <2>4, <2>5
  <2>7. Firsts[i - 1] <= d
    <3>1. i - 1 \notin T
      BY <2>2, <2>3, <2>6
    <3>2. Firsts[i - 1] \in Nat
      BY <2>6, FirstsGoUp
    <3>3. QED
      BY <1>0, <2>6, <3>1, <3>2
  <2> DEFINE p == PeriodAt(i - 1)
  <2>8. p \in Period /\ Position(p) = i - 1
    BY <2>6, PositionsAreMonths
  <2> HIDE DEF p
  <2>9. first_day(p) = Firsts[i - 1] /\ last_day(p) = Firsts[i] - 1
    <3>1. (i - 1) + 1 = i
      BY <2>4
    <3>2. QED
      BY <2>8, <3>1, MonthBounds
  <2>10. first_day(p) <= d /\ d <= last_day(p)
    <3>1. Firsts[i] \in Nat
      BY <2>4, FirstsGoUp
    <3>2. QED
      BY <1>0, <2>4, <2>7, <2>9, <3>1
  <2>11. QED
    BY <2>8, <2>10
<1>2. /\ period_of(d) \in Period
      /\ first_day(period_of(d)) <= d /\ d <= last_day(period_of(d))
  BY <1>1 DEF period_of
<1>3. ASSUME NEW p \in Period, first_day(p) <= d, d <= last_day(p),
             NEW q \in Period, first_day(q) <= d, d <= last_day(q)
      PROVE  ~ before(p, q)
  <2>1. first_day(q) \in Date /\ last_day(p) \in Date
    BY MonthBounds
  <2>2. first_day(q) \in Int /\ last_day(p) \in Int
    BY <2>1 DEF Date
  <2>3. ~ (last_day(p) < first_day(q))
    BY <1>0, <1>3, <2>2
  <2>4. QED
    BY <2>3, MonthsInOrder
<1>4. ASSUME NEW p \in Period, first_day(p) <= d, d <= last_day(p)
      PROVE  p = period_of(d)
  <2>1. ~ before(p, period_of(d)) /\ ~ before(period_of(d), p)
    BY <1>2, <1>3, <1>4
  <2>2. /\ Position(p) \in 0..(12 * Years - 1)
        /\ Position(period_of(d)) \in 0..(12 * Years - 1)
    BY <1>2, PositionsAreMonths
  <2>3. Position(p) = Position(period_of(d))
    BY <1>0, <1>2, <2>1, <2>2, MonthsInOrder
  <2>4. QED
    BY <1>2, <2>3, MonthsInOrder
<1>5. QED
  BY <1>2, <1>4

\* Later dates are in later months, or in the same one.
LEMMA PeriodsFollowDates ==
  ASSUME NEW d \in Date, NEW e \in Date, d <= e
  PROVE  Position(period_of(d)) <= Position(period_of(e))
<1> DEFINE p == period_of(d)
           q == period_of(e)
<1>1. /\ p \in Period /\ first_day(p) <= d /\ d <= last_day(p)
      /\ q \in Period /\ first_day(q) <= e /\ e <= last_day(q)
  BY DateHasItsPeriod
<1> HIDE DEF p, q
<1>2. first_day(p) \in Date /\ last_day(q) \in Date
  BY <1>1, MonthBounds
<1>3. first_day(p) \in Int /\ last_day(q) \in Int /\ d \in Int /\ e \in Int
  BY <1>2 DEF Date
<1>4. ~ (last_day(q) < first_day(p))
  BY <1>1, <1>3
<1>5. ~ (Position(q) < Position(p))
  BY <1>1, <1>4, MonthsInOrder
<1>6. Position(p) \in Int /\ Position(q) \in Int
  BY <1>1, PositionsAreMonths, CalendarInputs
<1>7. QED
  BY <1>5, <1>6 DEF p, q

-----------------------------------------------------------------------------
(* The months of a deployment.                                             *)

\* The months from one position to another.
MonthsAt(i, j) == [ k \in 1..(j - i + 1) |-> PeriodAt(i + k - 1) ]

\* What the months listed from each month to final must satisfy.
Lists(f, final) ==
  f = [ p \in Period |->
          IF before(p, final) THEN << p >> \o f[next_period(p)]
          ELSE IF p = final THEN << p >> ELSE << >> ]

\* The month after one that has another after it.
LEMMA NextPeriod ==
  ASSUME NEW p \in Period, NEW q \in Period, before(p, q)
  PROVE  next_period(p) \in Period /\ Position(next_period(p)) = Position(p) + 1
<1>1. /\ p.year \in FirstYear..(FirstYear + Years - 1) /\ p.month \in 1..12
      /\ q.year \in FirstYear..(FirstYear + Years - 1) /\ q.month \in 1..12
      /\ p = [ year |-> p.year, month |-> p.month ]
      /\ FirstYear \in Nat /\ Years \in Nat
  BY CalendarInputs DEF Period
<1>2. CASE p.month = 12
  <2>1. p.year < q.year
    BY <1>1, <1>2 DEF before
  <2>2. next_period(p) = [ year |-> p.year + 1, month |-> 1 ]
    BY <1>2 DEF next_period
  <2>3. QED
    BY <1>1, <1>2, <2>1, <2>2 DEF Period, Position
<1>3. CASE p.month # 12
  <2>1. next_period(p) = [ year |-> p.year, month |-> p.month + 1 ]
    BY <1>1, <1>3 DEF next_period
  <2>2. QED
    BY <1>1, <1>3, <2>1 DEF Period, Position
<1>4. QED
  BY <1>2, <1>3

\* A run of months is a sequence of them, as long as they are apart.
LEMMA RunIsASequence ==
  ASSUME NEW i \in Nat, NEW j \in 0..(12 * Years - 1), i <= j
  PROVE  /\ MonthsAt(i, j) \in Seq(Period)
         /\ Len(MonthsAt(i, j)) = j - i + 1
         /\ DOMAIN MonthsAt(i, j) = 1..(j - i + 1)
         /\ \A k \in 1..(j - i + 1) : MonthsAt(i, j)[k] = PeriodAt(i + k - 1)
<1> DEFINE n == j - i + 1
           run == MonthsAt(i, j)
<1>0. 12 * Years \in Nat /\ j \in Nat /\ n \in Nat
  BY CalendarInputs
<1>1. run = [ k \in 1..n |-> PeriodAt(i + k - 1) ]
  BY DEF MonthsAt
<1>2. \A k \in 1..n : PeriodAt(i + k - 1) \in Period
  <2>1. \A k \in 1..n : i + k - 1 \in 0..(12 * Years - 1)
    BY <1>0
  <2>2. QED
    BY <2>1, PositionsAreMonths
<1> HIDE DEF n, run
<1>3. run \in [ 1..n -> Period ]
  BY <1>1, <1>2
<1>4. run \in Seq(Period) /\ Len(run) = n /\ DOMAIN run = 1..n
  BY <1>0, <1>3
<1>5. \A k \in 1..n : run[k] = PeriodAt(i + k - 1)
  BY <1>1
<1>6. QED
  BY <1>4, <1>5 DEF n, run

\* A run of months is its first month and the run of the others.
LEMMA RunExtends ==
  ASSUME NEW i \in Nat, NEW j \in 0..(12 * Years - 1), i < j
  PROVE  MonthsAt(i, j) = << PeriodAt(i) >> \o MonthsAt(i + 1, j)
<1>0. 12 * Years \in Nat /\ j \in Nat
  BY CalendarInputs
<1> DEFINE head == << PeriodAt(i) >>
           rest == MonthsAt(i + 1, j)
<1>2. /\ rest \in Seq(Period) /\ Len(rest) = j - i
      /\ \A k \in 1..(j - i) : rest[k] = PeriodAt(i + k)
  <2>1. i + 1 \in Nat /\ i + 1 <= j /\ j - (i + 1) + 1 = j - i
    BY <1>0
  <2>2. /\ rest \in Seq(Period) /\ Len(rest) = j - i
        /\ \A k \in 1..(j - i) : rest[k] = PeriodAt((i + 1) + k - 1)
    BY <2>1, RunIsASequence
  <2>3. \A k \in 1..(j - i) : (i + 1) + k - 1 = i + k
    BY <1>0
  <2>4. QED
    BY <2>2, <2>3
<1>3. /\ head \in Seq(Period) /\ Len(head) = 1 /\ head[1] = PeriodAt(i)
  <2>1. PeriodAt(i) \in Period
    BY <1>0, PositionsAreMonths
  <2>2. QED
    BY <2>1
<1>4. /\ MonthsAt(i, j) \in Seq(Period) /\ Len(MonthsAt(i, j)) = j - i + 1
      /\ \A k \in 1..(j - i + 1) : MonthsAt(i, j)[k] = PeriodAt(i + k - 1)
  BY RunIsASequence
<1> HIDE DEF head, rest
<1>5. /\ head \o rest \in Seq(Period) /\ Len(head \o rest) = j - i + 1
      /\ \A k \in 1..(j - i + 1) :
           (head \o rest)[k] = IF k <= 1 THEN head[k] ELSE rest[k - 1]
  <2>1. Len(head) + Len(rest) = j - i + 1
    BY <1>0, <1>2, <1>3
  <2>2. /\ head \o rest \in Seq(Period)
        /\ Len(head \o rest) = Len(head) + Len(rest)
        /\ \A k \in 1..(Len(head) + Len(rest)) :
             (head \o rest)[k] = IF k <= Len(head) THEN head[k] ELSE rest[k - Len(head)]
    BY <1>2, <1>3, ConcatProperties, Zenon
  <2>3. QED
    BY <1>3, <2>1, <2>2
<1>6. \A k \in 1..(j - i + 1) : MonthsAt(i, j)[k] = (head \o rest)[k]
  <2>1. ASSUME NEW k \in 1..(j - i + 1)
        PROVE  MonthsAt(i, j)[k] = (head \o rest)[k]
    <3>1. CASE k = 1
      <4>1. i + 1 - 1 = i /\ 1 \in 1..(j - i + 1)
        BY <1>0
      <4>2. MonthsAt(i, j)[1] = PeriodAt(i)
        <5>1. MonthsAt(i, j)[1] = PeriodAt(i + 1 - 1)
          BY <1>4, <4>1
        <5>2. QED
          BY <4>1, <5>1
      <4>3. (head \o rest)[1] = head[1]
        BY <1>5, <4>1
      <4>4. QED
        BY <1>3, <3>1, <4>2, <4>3
    <3>2. CASE k # 1
      <4>1. k - 1 \in 1..(j - i) /\ ~ (k <= 1) /\ i + (k - 1) = i + k - 1
        BY <1>0, <3>2
      <4>2. QED
        BY <1>2, <1>4, <1>5, <4>1
    <3>3. QED
      BY <3>1, <3>2
  <2>2. QED
    BY <2>1
<1>7. MonthsAt(i, j) = head \o rest
  BY <1>4, <1>5, <1>6, SeqEqual
<1>8. QED
  BY <1>7 DEF head, rest

\* Whatever lists the months to final lists the run of them.
LEMMA ListsAreRuns ==
  ASSUME NEW final \in Period, NEW f, Lists(f, final)
  PROVE  \A p \in Period : Position(p) <= Position(final) =>
           f[p] = MonthsAt(Position(p), Position(final))
<1> DEFINE j == Position(final)
           S == { n \in Nat : \A p \in Period :
                    Position(p) + n = j => f[p] = MonthsAt(Position(p), j) }
<1>0. j \in 0..(12 * Years - 1) /\ 12 * Years \in Nat
  BY PositionsAreMonths, CalendarInputs
<1> HIDE DEF j
<1>1. 0 \in S
  <2>1. ASSUME NEW p \in Period, Position(p) + 0 = j
        PROVE  f[p] = MonthsAt(Position(p), j)
    <3>1. Position(p) \in Nat /\ Position(p) = j /\ PeriodAt(j) = p
      BY <1>0, <2>1, PositionsAreMonths
    <3>2. p = final
      BY <3>1, MonthsInOrder DEF j
    <3>3. ~ before(p, final)
      BY <1>0, <3>1, MonthsInOrder DEF j
    <3>4. f[p] = << p >>
      BY <3>2, <3>3 DEF Lists
    <3>5. MonthsAt(j, j) = << PeriodAt(j) >>
      <4>1. j - j + 1 = 1 /\ \A k \in 1..1 : j + k - 1 = j
        BY <1>0
      <4>2. MonthsAt(j, j) = [ k \in 1..1 |-> PeriodAt(j) ]
        BY <4>1 DEF MonthsAt
      <4>3. QED
        BY <4>2
    <3>6. QED
      BY <3>1, <3>4, <3>5
  <2>2. QED
    BY <2>1
<1>2. ASSUME NEW n \in Nat, n \in S
      PROVE  n + 1 \in S
  <2>1. ASSUME NEW p \in Period, Position(p) + (n + 1) = j
        PROVE  f[p] = MonthsAt(Position(p), j)
    <3>1. Position(p) \in Nat /\ Position(p) < j /\ PeriodAt(Position(p)) = p
      BY <1>0, <2>1, PositionsAreMonths
    <3>2. before(p, final)
      BY <3>1, MonthsInOrder DEF j
    <3>3. next_period(p) \in Period /\ Position(next_period(p)) = Position(p) + 1
      BY <3>2, NextPeriod
    <3>4. f[next_period(p)] = MonthsAt(Position(p) + 1, j)
      <4>1. Position(next_period(p)) + n = j
        BY <2>1, <3>1, <3>3
      <4>2. QED
        BY <1>2, <3>3, <4>1
    <3>5. f[p] = << p >> \o f[next_period(p)]
      BY <3>2 DEF Lists
    <3>6. QED
      BY <1>0, <3>1, <3>4, <3>5, RunExtends
  <2>2. QED
    BY <2>1
<1> HIDE DEF S
<1>3. Nat \subseteq S
  BY <1>1, <1>2, NatSetInduction
<1>4. ASSUME NEW p \in Period, Position(p) <= j
      PROVE  f[p] = MonthsAt(Position(p), j)
  <2>1. Position(p) \in Nat
    BY <1>0, PositionsAreMonths
  <2>2. j - Position(p) \in S /\ Position(p) + (j - Position(p)) = j
    BY <1>0, <1>3, <1>4, <2>1
  <2>3. QED
    BY <2>2 DEF S
<1>5. QED
  BY <1>4 DEF j

\* The runs of months to final are such a list.
LEMMA RunsAreListed ==
  ASSUME NEW final \in Period
  PROVE  \E f : Lists(f, final)
<1> DEFINE j == Position(final)
           f == [ p \in Period |->
                    IF Position(p) <= j THEN MonthsAt(Position(p), j) ELSE << >> ]
<1>0. j \in 0..(12 * Years - 1) /\ 12 * Years \in Nat
  BY PositionsAreMonths, CalendarInputs
<1>1. ASSUME NEW p \in Period
      PROVE  f[p] = IF before(p, final) THEN << p >> \o f[next_period(p)]
                    ELSE IF p = final THEN << p >> ELSE << >>
  <2>0. /\ Position(p) \in Nat /\ PeriodAt(Position(p)) = p
        /\ before(p, final) <=> Position(p) < j
        /\ p = final <=> Position(p) = j
    BY <1>0, PositionsAreMonths, MonthsInOrder
  <2>1. f[p] = IF Position(p) <= j THEN MonthsAt(Position(p), j) ELSE << >>
    OBVIOUS
  <2>2. CASE before(p, final)
    <3>1. next_period(p) \in Period /\ Position(next_period(p)) = Position(p) + 1
      BY <2>2, NextPeriod
    <3>2. f[next_period(p)] = MonthsAt(Position(p) + 1, j)
      <4>1. Position(next_period(p)) <= j
        BY <1>0, <2>0, <2>2, <3>1
      <4>2. f[next_period(p)] = MonthsAt(Position(next_period(p)), j)
        BY <3>1, <4>1
      <4>3. QED
        BY <3>1, <4>2
    <3> HIDE DEF f, j
    <3>3. MonthsAt(Position(p), j) = << p >> \o MonthsAt(Position(p) + 1, j)
      BY <1>0, <2>0, <2>2, RunExtends
    <3>4. Position(p) <= j
      BY <1>0, <2>0, <2>2
    <3>5. QED
      BY <2>1, <2>2, <3>2, <3>3, <3>4
  <2>3. CASE p = final
    <3>1. MonthsAt(Position(p), j) = << p >>
      <4>1. j - j + 1 = 1 /\ \A k \in 1..1 : j + k - 1 = j
        BY <1>0
      <4> HIDE DEF j
      <4>2. MonthsAt(j, j) = [ k \in 1..1 |-> PeriodAt(j) ]
        BY <4>1 DEF MonthsAt
      <4>3. PeriodAt(j) = p /\ Position(p) = j
        BY <2>0, <2>3
      <4>4. QED
        BY <4>2, <4>3
    <3> HIDE DEF f, j
    <3>2. ~ before(p, final) /\ Position(p) <= j
      BY <1>0, <2>0, <2>3
    <3>3. QED
      BY <2>1, <2>3, <3>1, <3>2
  <2>4. CASE ~ before(p, final) /\ p # final
    <3> HIDE DEF f, j
    <3>1. ~ (Position(p) <= j)
      BY <1>0, <2>0, <2>4
    <3>2. QED
      BY <2>1, <2>4, <3>1
  <2>5. QED
    BY <2>2, <2>3, <2>4
<1>2. f = [ p \in Period |-> f[p] ]
  OBVIOUS
<1> HIDE DEF f
<1>3. Lists(f, final)
  BY <1>1, <1>2 DEF Lists
<1>4. QED
  BY <1>3

\* The months of a deployment run from the month of its start to the month of
\* its end; there are none when it ends before it starts.
LEMMA MonthsBetween ==
  ASSUME NEW start \in Date, NEW end \in Date
  PROVE  periods_between(start, end) =
           IF end < start THEN << >>
           ELSE MonthsAt(Position(period_of(start)), Position(period_of(end)))
<1> DEFINE final == period_of(end)
           more == CHOOSE f : Lists(f, final)
<1>1. final \in Period /\ period_of(start) \in Period
  BY DateHasItsPeriod
<1>2. periods_between(start, end) = IF end < start THEN << >> ELSE more[period_of(start)]
  BY DEF periods_between, Lists
<1> HIDE DEF final
<1>3. Lists(more, final)
  BY <1>1, RunsAreListed
<1> HIDE DEF more
<1>4. CASE end < start
  BY <1>2, <1>4
<1>5. CASE ~ (end < start)
  <2>1. start \in Int /\ end \in Int
    BY DEF Date
  <2>2. Position(period_of(start)) <= Position(final)
    BY <1>5, <2>1, PeriodsFollowDates DEF final
  <2>3. more[period_of(start)] = MonthsAt(Position(period_of(start)), Position(final))
    BY <1>1, <1>3, <2>2, ListsAreRuns
  <2>4. QED
    BY <1>2, <1>5, <2>3 DEF final
<1>6. QED
  BY <1>4, <1>5

\* The months of a deployment are months of the calendar, the first the month of
\* its start, and none begins after its end.
LEMMA MonthsAreWithin ==
  ASSUME NEW start \in Date, NEW end \in Date,
         NEW i \in DOMAIN periods_between(start, end)
  PROVE  /\ periods_between(start, end)[i] \in Period
         /\ first_day(periods_between(start, end)[i]) <= end
         /\ start <= last_day(periods_between(start, end)[i])
<1> DEFINE months == periods_between(start, end)
           a == Position(period_of(start))
           b == Position(period_of(end))
<1>0. /\ 12 * Years \in Nat
      /\ period_of(start) \in Period /\ period_of(end) \in Period
      /\ a \in 0..(12 * Years - 1) /\ b \in 0..(12 * Years - 1)
      /\ start \in Int /\ end \in Int
  <2>1. start \in Int /\ end \in Int /\ 12 * Years \in Nat
    BY CalendarInputs DEF Date
  <2>2. period_of(start) \in Period /\ period_of(end) \in Period
    BY DateHasItsPeriod
  <2>3. QED
    BY <2>1, <2>2, PositionsAreMonths
<1>1. ~ (end < start) /\ months = MonthsAt(a, b)
  <2>1. months = IF end < start THEN << >> ELSE MonthsAt(a, b)
    BY MonthsBetween
  <2>2. months # << >>
    OBVIOUS
  <2>3. QED
    BY <2>1, <2>2
<1>2. a <= b
  BY <1>0, <1>1, PeriodsFollowDates
<1> HIDE DEF months, a, b
<1>3. /\ i \in 1..(b - a + 1)
      /\ months[i] = PeriodAt(a + i - 1)
  <2>1. DOMAIN MonthsAt(a, b) = 1..(b - a + 1)
    BY <1>0, <1>2, RunIsASequence
  <2>2. i \in 1..(b - a + 1)
    BY <1>1, <2>1 DEF months
  <2>3. \A k \in 1..(b - a + 1) : MonthsAt(a, b)[k] = PeriodAt(a + k - 1)
    BY <1>0, <1>2, RunIsASequence
  <2>4. QED
    BY <1>1, <2>2, <2>3
<1> DEFINE k == a + i - 1
           p == PeriodAt(k)
<1>4. k \in 0..(12 * Years - 1) /\ k <= b /\ a <= k
  BY <1>0, <1>2, <1>3
<1>5. p \in Period /\ Position(p) = k
  BY <1>4, PositionsAreMonths
<1> HIDE DEF k, p
<1>6. first_day(p) <= end
  <2>1. p = period_of(end) \/ last_day(p) < first_day(period_of(end))
    BY <1>0, <1>4, <1>5, MonthsInOrder DEF b
  <2>2. first_day(period_of(end)) <= end
    BY DateHasItsPeriod
  <2>3. /\ first_day(p) \in Date /\ last_day(p) \in Date
        /\ first_day(p) + 27 <= last_day(p)
        /\ first_day(period_of(end)) \in Date
    BY <1>0, <1>5, MonthBounds
  <2>4. QED
    BY <1>0, <2>1, <2>2, <2>3 DEF Date
<1>7. start <= last_day(p)
  <2>1. p = period_of(start) \/ last_day(period_of(start)) < first_day(p)
    BY <1>0, <1>4, <1>5, MonthsInOrder DEF a
  <2>2. start <= last_day(period_of(start))
    BY DateHasItsPeriod
  <2>3. /\ first_day(p) \in Date /\ last_day(p) \in Date
        /\ first_day(p) + 27 <= last_day(p)
        /\ last_day(period_of(start)) \in Date
    BY <1>0, <1>5, MonthBounds
  <2>4. QED
    BY <1>0, <2>1, <2>2, <2>3 DEF Date
<1>8. QED
  BY <1>3, <1>5, <1>6, <1>7 DEF months, p, k

-----------------------------------------------------------------------------
(* Working days and amounts.                                               *)

\* The working days of a stretch are counted.
LEMMA WorkingDaysAreCounted ==
  ASSUME NEW a \in Int, NEW b \in Int
  PROVE  /\ IsFiniteSet({ d \in a..b : weekday(d) < 5 })
         /\ working_days(a, b) \in Nat
<1>1. IsFiniteSet(a..b)
  BY FS_Interval
<1>2. { d \in a..b : weekday(d) < 5 } \in SUBSET (a..b)
  OBVIOUS
<1>3. IsFiniteSet({ d \in a..b : weekday(d) < 5 })
  BY <1>1, <1>2, FS_Subset
<1>4. QED
  BY <1>3, FS_CardinalityType DEF working_days

\* A longer stretch has no fewer working days.
LEMMA WorkingDaysGrow ==
  ASSUME NEW a \in Int, NEW b \in Int, NEW c \in Int, NEW d \in Int,
         c <= a, b <= d
  PROVE  working_days(a, b) <= working_days(c, d)
<1> DEFINE S == { e \in a..b : weekday(e) < 5 }
           T == { e \in c..d : weekday(e) < 5 }
<1>1. S \in SUBSET T /\ IsFiniteSet(T)
  BY WorkingDaysAreCounted
<1>2. Cardinality(S) <= Cardinality(T)
  <2> HIDE DEF S, T
  <2>1. QED
    BY <1>1, FS_Subset
<1>3. QED
  BY <1>2 DEF working_days

\* Every month has working days, so a share of it can be taken.
LEMMA MonthsHaveWorkingDays ==
  ASSUME NEW p \in Period
  PROVE  working_days(first_day(p), last_day(p)) \in Nat \ { 0 }
<1> DEFINE a == first_day(p)
           b == last_day(p)
           S == { d \in a..b : weekday(d) < 5 }
<1>1. a \in Nat /\ b \in Nat /\ a + 27 <= b
  BY MonthBounds DEF Date
<1> HIDE DEF a, b
<1>2. IsFiniteSet(S) /\ working_days(a, b) \in Nat
  BY <1>1, WorkingDaysAreCounted
<1>3. \E d \in { a, a + 1, a + 2 } : weekday(d) < 5
  <2>1. FirstWeekday \in Int
    BY CalendarInputs
  <2> DEFINE w == a - 1 + FirstWeekday
  <2>2. /\ weekday(a) = w % 7
        /\ weekday(a + 1) = (w + 1) % 7
        /\ weekday(a + 2) = (w + 2) % 7
        /\ w \in Int
    <3>1. a + 1 - 1 + FirstWeekday = w + 1 /\ a + 2 - 1 + FirstWeekday = w + 2
      BY <1>1, <2>1
    <3>2. QED
      BY <1>1, <2>1, <3>1 DEF weekday
  <2> HIDE DEF w
  <2>3. w % 7 < 5 \/ (w + 1) % 7 < 5 \/ (w + 2) % 7 < 5
    BY <2>2
  <2>4. QED
    BY <2>2, <2>3
<1>4. S # {}
  BY <1>1, <1>3
<1>5. Cardinality(S) # 0
  <2> HIDE DEF S
  <2>1. QED
    BY <1>2, <1>4, FS_EmptySet
<1>6. QED
  BY <1>2, <1>5 DEF working_days, a, b

\* The days a deployment covers of a month, and the days of the month.
LEMMA CoverageCounts ==
  ASSUME NEW p \in Period, NEW start \in Date, NEW end \in Date \cup { NoDate }
  PROVE  LET cover == coverage(p, start, end) IN
         /\ cover.days \in Nat /\ cover.full \in Nat \ { 0 }
         /\ cover.days <= cover.full
<1> DEFINE from == Later(start, first_day(p))
           to   == IF end = NoDate THEN last_day(p) ELSE Earlier(end, last_day(p))
<1>1. /\ first_day(p) \in Int /\ last_day(p) \in Int
      /\ start \in Int /\ end \in Int
  BY MonthBounds DEF Date, NoDate
<1>2. from \in Int /\ to \in Int /\ first_day(p) <= from /\ to <= last_day(p)
  BY <1>1 DEF Later, Earlier
<1> HIDE DEF from, to
<1>3. /\ working_days(from, to) \in Nat
      /\ working_days(from, to) <= working_days(first_day(p), last_day(p))
  BY <1>1, <1>2, WorkingDaysAreCounted, WorkingDaysGrow
<1>4. working_days(first_day(p), last_day(p)) \in Nat \ { 0 }
  BY MonthsHaveWorkingDays
<1>5. /\ coverage(p, start, end).days = working_days(from, to)
      /\ coverage(p, start, end).full = working_days(first_day(p), last_day(p))
  BY DEF coverage, from, to
<1>6. QED
  BY <1>3, <1>4, <1>5

\* The amounts of a month are whole cents, and profit is what revenue leaves
\* over cost.
LEMMA AmountsAreWhole ==
  ASSUME NEW cover, cover.days \in Nat, cover.full \in Nat \ { 0 },
         NEW revenue \in Int, NEW cost \in Int
  PROVE  LET amounts == amounts_for(cover, revenue, cost) IN
         /\ amounts.revenue \in Int /\ amounts.cost \in Int
         /\ amounts.profit \in Int
         /\ amounts.profit = amounts.revenue - amounts.cost
<1>1. ASSUME NEW monthly \in Int
      PROVE  prorate(monthly, cover) \in Int
  <2>1. monthly * cover.days \in Int
    OBVIOUS
  <2> DEFINE n == 2 * (monthly * cover.days) + cover.full
             d == 2 * cover.full
  <2>2. n \in Int /\ d \in Nat \ { 0 }
    BY <2>1
  <2>3. prorate(monthly, cover) = n \div d
    BY DEF prorate, round_half_up
  <2> HIDE DEF n, d
  <2>4. QED
    BY <2>2, <2>3
<1>2. QED
  BY <1>1 DEF amounts_for

=============================================================================
