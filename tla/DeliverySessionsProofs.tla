----------------------- MODULE DeliverySessionsProofs -----------------------
(***************************************************************************)
(* That the requests of DeliverySessions, one session at a time, are those *)
(* of Delivery, for any consultants, submissions, dates and amounts.       *)
(***************************************************************************)
EXTENDS DeliverySessions, TLAPS

-----------------------------------------------------------------------------
(* Delivery reads the same operators of DeliveryData as DeliverySessions.  *)

\* The calendar.
LEMMA SameCalendar ==
  /\ Alone!Period = Period /\ Alone!Date = Date /\ Alone!NoDate = NoDate
  /\ \A p : Alone!first_day(p) = first_day(p) /\ Alone!last_day(p) = last_day(p)
  /\ \A d : Alone!period_of(d) = period_of(d)
  /\ \A d, e : Alone!periods_between(d, e) = periods_between(d, e)
  /\ \A d, e : Alone!working_days(d, e) = working_days(d, e)
<1>1. /\ Alone!Period = Period /\ Alone!NoDate = NoDate
      /\ \A i : Alone!PeriodAt(i) = PeriodAt(i)
      /\ \A p : /\ Alone!Position(p) = Position(p)
                /\ Alone!month_days(p) = month_days(p)
                /\ Alone!next_period(p) = next_period(p)
      /\ \A p, q : Alone!before(p, q) <=> before(p, q)
      /\ \A d : Alone!weekday(d) = weekday(d)
  BY DEF Alone!Period, Period, Alone!NoDate, NoDate, Alone!PeriodAt, PeriodAt,
         Alone!Position, Position, Alone!month_days, month_days, Alone!next_period,
         next_period, Alone!before, before, Alone!weekday, weekday
<1>2. Alone!Firsts = Firsts
  BY <1>1 DEF Alone!Firsts, Firsts
<1>3. Alone!Date = Date
  BY <1>2 DEF Alone!Date, Date
<1>4. \A p : Alone!first_day(p) = first_day(p)
  BY <1>1, <1>2 DEF Alone!first_day, first_day
<1>5. \A p : Alone!last_day(p) = last_day(p)
  BY <1>1, <1>4 DEF Alone!last_day, last_day
<1>6. \A d : Alone!period_of(d) = period_of(d)
  BY <1>1, <1>4, <1>5 DEF Alone!period_of, period_of
<1>7. \A d, e : Alone!periods_between(d, e) = periods_between(d, e)
  BY DEF Alone!periods_between, periods_between, Alone!period_of, period_of,
         Alone!first_day, first_day, Alone!last_day, last_day, Alone!Firsts, Firsts,
         Alone!Period, Period, Alone!PeriodAt, PeriodAt, Alone!Position, Position,
         Alone!month_days, month_days, Alone!next_period, next_period,
         Alone!before, before
<1>8. \A d, e : Alone!working_days(d, e) = working_days(d, e)
  BY DEF Alone!working_days, working_days, Alone!weekday, weekday,
         Alone!Cardinality, Cardinality
<1>9. QED
  BY <1>1, <1>3, <1>4, <1>5, <1>6, <1>7, <1>8

\* What a month bills.
LEMMA SameAmounts ==
  /\ \A p, d, e : Alone!coverage(p, d, e) = coverage(p, d, e)
  /\ \A cover, m, n : Alone!amounts_for(cover, m, n) = amounts_for(cover, m, n)
<1>1. \A p, d, e : Alone!coverage(p, d, e) = coverage(p, d, e)
  BY SameCalendar DEF Alone!coverage, coverage, Alone!Later, Later, Alone!Earlier, Earlier
<1>2. \A m, cover : Alone!prorate(m, cover) = prorate(m, cover)
  BY DEF Alone!prorate, prorate, Alone!round_half_up, round_half_up
<1>3. \A cover, m, n : Alone!amounts_for(cover, m, n) = amounts_for(cover, m, n)
  BY <1>2 DEF Alone!amounts_for, amounts_for
<1>4. QED
  BY <1>1, <1>3

\* The tables.
LEMMA SameTables ==
  /\ Alone!EmptyTable = EmptyTable
  /\ \A table, key, row : Alone!Put(table, key, row) = Put(table, key, row)
  /\ \A table, rows : Alone!PutAll(table, rows) = PutAll(table, rows)
  /\ \A table, keys : Alone!Select(table, keys) = Select(table, keys)
<1>1. Alone!EmptyTable = EmptyTable
  BY DEF Alone!EmptyTable, EmptyTable
<1>2. \A table, key, row : Alone!Put(table, key, row) = Put(table, key, row)
  BY DEF Alone!Put, Put
<1>3. \A table, rows : Alone!PutAll(table, rows) = PutAll(table, rows)
  BY DEF Alone!PutAll, PutAll
<1>4. \A table, keys : Alone!Select(table, keys) = Select(table, keys)
  BY DEF Alone!Select, Select
<1>5. QED
  BY <1>1, <1>2, <1>3, <1>4

\* What requests make of deployments.
LEMMA SameDeployments ==
  /\ \A row : Alone!effective_end(row) = effective_end(row)
  /\ \A row, consultant : Alone!synced(consultant, row) = synced(consultant, row)
  /\ \A s, start, end, bill, cost :
       Alone!new_deployment(s, start, end, bill, cost)
         = new_deployment(s, start, end, bill, cost)
  /\ \A s : Alone!deployed(s) <=> deployed(s)
  /\ \A row, date : /\ Alone!may_end(row, date) <=> may_end(row, date)
                    /\ Alone!ended(row, date) = ended(row, date)
  /\ \A row, start : Alone!may_extend(row, start) <=> may_extend(row, start)
  /\ \A row, start, end, bill, cost :
       Alone!successor(row, start, end, bill, cost) = successor(row, start, end, bill, cost)
  /\ \A row : Alone!edits(row) = edits(row)
  /\ Alone!open_deployments = open_deployments
<1>1. \A row : Alone!effective_end(row) = effective_end(row)
  BY DEF Alone!effective_end, effective_end, Alone!NoDate, NoDate
<1>2. \A row, consultant : Alone!synced(consultant, row) = synced(consultant, row)
  BY <1>1 DEF Alone!synced, synced
<1>3. \A start : Alone!status_on(start) = status_on(start)
  BY DEF Alone!status_on, status_on
<1>4. \A s, start, end, bill, cost :
        Alone!new_deployment(s, start, end, bill, cost)
          = new_deployment(s, start, end, bill, cost)
  BY <1>3 DEF Alone!new_deployment, new_deployment, Alone!NoDate, NoDate
<1>5. \A s : Alone!deployed(s) <=> deployed(s)
  BY DEF Alone!deployed, deployed
<1>6. \A row, date : /\ Alone!may_end(row, date) <=> may_end(row, date)
                     /\ Alone!ended(row, date) = ended(row, date)
  BY DEF Alone!may_end, may_end, Alone!ended, ended
<1>7. \A row, start : Alone!may_extend(row, start) <=> may_extend(row, start)
  BY <1>1 DEF Alone!may_extend, may_extend, Alone!NoDate, NoDate
<1>8. \A amount, old : Alone!given(amount, old) = given(amount, old)
  BY DEF Alone!given, given
<1>9. \A row, start, end, bill, cost :
        Alone!successor(row, start, end, bill, cost) = successor(row, start, end, bill, cost)
  BY <1>3, <1>8 DEF Alone!successor, successor, Alone!NoDate, NoDate
<1>10. \A row : Alone!edits(row) = edits(row)
  BY DEF Alone!edits, edits
<1>11. Alone!open_deployments = open_deployments
  BY DEF Alone!open_deployments, open_deployments
<1>12. QED
  BY <1>1, <1>2, <1>4, <1>5, <1>6, <1>7, <1>9, <1>10, <1>11

\* What they make of the months.
LEMMA SameMonths ==
  /\ \A table, rows : Alone!generated(table, rows) = generated(table, rows)
  /\ \A record, p, date : Alone!cancels(record, p, date) <=> cancels(record, p, date)
  /\ \A revenue, cost, status :
       Alone!entered(revenue, cost, status) = entered(revenue, cost, status)
  /\ \A record, revenue, cost, status :
       Alone!updated(record, revenue, cost, status) = updated(record, revenue, cost, status)
  /\ \A record, revenue, cost :
       Alone!confirmed(record, revenue, cost) = confirmed(record, revenue, cost)
  /\ Alone!Unset = Unset
<1>1. Alone!REALISED_BILLING_STATUSES = REALISED_BILLING_STATUSES /\ Alone!Unset = Unset
  BY DEF Alone!REALISED_BILLING_STATUSES, REALISED_BILLING_STATUSES, Alone!Unset, Unset
<1>2. \A record, p, date : Alone!cancels(record, p, date) <=> cancels(record, p, date)
  BY SameCalendar DEF Alone!cancels, cancels
<1>3. \A row : Alone!projection_periods(row) = projection_periods(row)
  BY SameDeployments, SameCalendar DEF Alone!projection_periods, projection_periods
<1>4. \A row, p : Alone!projection(row, p) = projection(row, p)
  BY SameDeployments, SameAmounts DEF Alone!projection, projection
<1>5. \A amounts : Alone!projected(amounts) = projected(amounts)
  BY DEF Alone!projected, projected
<1>6. \A record, amounts : Alone!refreshed(record, amounts) = refreshed(record, amounts)
  BY <1>1, <1>5 DEF Alone!refreshed, refreshed
<1>7. \A table, rows : Alone!generated(table, rows) = generated(table, rows)
  BY <1>3, <1>4, <1>5, <1>6 DEF Alone!generated, generated
<1>8. \A revenue, cost, status :
        Alone!entered(revenue, cost, status) = entered(revenue, cost, status)
  BY <1>1 DEF Alone!entered, entered
<1>9. \A amount, old : Alone!given(amount, old) = given(amount, old)
  BY DEF Alone!given, given
<1>10. \A record, revenue, cost :
         Alone!corrected(record, revenue, cost) = corrected(record, revenue, cost)
  BY <1>9 DEF Alone!corrected, corrected
<1>11. \A record, revenue, cost, status :
         Alone!updated(record, revenue, cost, status) = updated(record, revenue, cost, status)
  <2> SUFFICES ASSUME NEW record, NEW revenue, NEW cost, NEW status
               PROVE  Alone!updated(record, revenue, cost, status)
                        = updated(record, revenue, cost, status)
    OBVIOUS
  <2>1. PICK row : row = corrected(record, revenue, cost)
                     /\ row = Alone!corrected(record, revenue, cost)
    BY <1>10
  <2> QED  BY <1>1, <2>1 DEF Alone!updated, updated
<1>12. \A record, revenue, cost :
         Alone!confirmed(record, revenue, cost) = confirmed(record, revenue, cost)
  BY <1>10 DEF Alone!confirmed, confirmed
<1>13. QED
  BY <1>1, <1>2, <1>7, <1>8, <1>11, <1>12
-----------------------------------------------------------------------------
(* What the only session knows.                                            *)

DeploymentColumns ==
  { "resource", "submission", "start", "end", "actual", "status", "bill", "cost" }

BillingColumns == { "status", "revenue", "cost", "profit", "estimated", "signed" }

AvailabilityColumns == { "status", "from" }

\* A row with these columns.
Has(columns, row) == row = [ c \in columns |-> row[c] ]

\* A table of such rows.
Stored(table, columns) ==
  /\ table = [ k \in DOMAIN table |-> table[k] ]
  /\ \A k \in DOMAIN table : Has(columns, table[k])

TablesOK ==
  /\ Stored(deployments, DeploymentColumns)
  /\ \A d \in DOMAIN deployments : deployments[d].resource \in Resources
  /\ Stored(billing, BillingColumns)
  /\ Stored(availability, AvailabilityColumns) /\ DOMAIN availability = Resources

\* What a session loaded is what is stored, and what it will write are rows.
Held(table, columns, was, now) ==
  /\ Stored(now, columns)
  /\ \A k \in DOMAIN now : k \in DOMAIN was => k \in DOMAIN table /\ was[k] = table[k]

Holding(t) ==
  /\ t = Transaction(t.pc, t.was, t.now)
  /\ t.was = Rows(t.was.deployments, t.was.billing, t.was.availability)
  /\ t.now = Rows(t.now.deployments, t.now.billing, t.now.availability)
  /\ Held(deployments, DeploymentColumns, t.was.deployments, t.now.deployments)
  /\ \A d \in DOMAIN t.now.deployments : t.now.deployments[d].resource \in Resources
  /\ Held(billing, BillingColumns, t.was.billing, t.now.billing)
  /\ Held(availability, AvailabilityColumns, t.was.availability, t.now.availability)
  /\ DOMAIN t.now.availability \subseteq Resources

\* It writes a deployment, and its consultant follows.
Synced(t, d, row) ==
  /\ t.now.deployments = Row(d, row)
  /\ t.now.availability = Row(row.resource, synced(availability[row.resource], row))

Creating(t) ==
  \E d \in DeploymentIds, start \in StartInputs, end \in EndInputs, bill \in RateInputs,
     s \in SubmissionIds, cost \in CostInputs :
    /\ d \notin DOMAIN deployments /\ s \in selected /\ ~ deployed(s)
    /\ t.pc = "commit" /\ t.now.billing = EmptyTable
    /\ Synced(t, d, new_deployment(s, start, end, bill, cost))

Extending(t) ==
  \E d \in DeploymentIds, start \in StartInputs, end \in EndInputs, bill \in RateInputs,
     e \in DeploymentIds, cost \in CostInputs \cup { NoAmount } :
    /\ d \in DOMAIN deployments /\ e \notin DOMAIN deployments
    /\ may_extend(deployments[d], start)
    /\ t.pc = "commit" /\ t.now.billing = EmptyTable
    /\ Synced(t, e, successor(deployments[d], start, end, bill, cost))

\* The projections of a deployment, as ending it leaves them.
cut(d, date) ==
  [ k \in { i \in DOMAIN billing : i[1] = d /\ billing[i].status = "PROJECTED" } |->
      IF cancels(billing[k], k[2], date)
      THEN [ billing[k] EXCEPT !.status = "CANCELLED" ] ELSE billing[k] ]

Ending(t) ==
  \E d \in DeploymentIds, date \in Dates :
    /\ d \in DOMAIN deployments /\ may_end(deployments[d], date)
    /\ Synced(t, d, ended(deployments[d], date))
    /\ \/ t.pc = "projections"
       \/ t.pc = "commit" /\ t.now.billing = cut(d, date)

Updating(t) ==
  \E d \in DeploymentIds :
    /\ d \in DOMAIN deployments
    /\ t.pc = "commit" /\ t.now.billing = EmptyTable /\ t.now.availability = EmptyTable
    /\ \E row \in edits(deployments[d]) : t.now.deployments = Row(d, row)

\* One deployment that has a rate, or those open.
Projects(ds) ==
  \/ ds = open_deployments
  \/ \E d \in DeploymentIds :
       d \in DOMAIN deployments /\ deployments[d].bill # NoAmount /\ ds = { d }

Generating(t) ==
  \E ds :
    /\ Projects(ds)
    /\ t.now.deployments = Select(deployments, ds) /\ t.now.availability = EmptyTable
    /\ \/ t.pc = "records"
       \/ t.pc = "commit" /\ t.now.billing = generated(billing, Select(deployments, ds))

\* One month, entered, corrected or confirmed.
Charging(t) ==
  \E d \in DeploymentIds, date \in Dates, revenue \in AmountInputs, cost \in AmountInputs :
  \E k : 
    /\ k = << d, period_of(date) >>
    /\ t.pc = "commit"
    /\ t.now.deployments = EmptyTable /\ t.now.availability = EmptyTable
    /\ \/ \E status \in BillingInputs :
            /\ d \in DOMAIN deployments /\ k \notin DOMAIN billing
            /\ revenue # NoAmount /\ cost # NoAmount
            /\ t.now.billing = Row(k, entered(revenue, cost, status))
       \/ \E status \in BillingInputs \cup { Unset } :
            /\ k \in DOMAIN billing
            /\ t.now.billing = Row(k, updated(billing[k], revenue, cost, status))
       \/ /\ k \in DOMAIN billing /\ billing[k].status # "CANCELLED"
          /\ t.now.billing = Row(k, confirmed(billing[k], revenue, cost))

Planned(t) ==
  \/ Creating(t) \/ Extending(t) \/ Ending(t) \/ Updating(t) \/ Generating(t) \/ Charging(t)

Fresh(t) == t = Idle \/ (Holding(t) /\ Planned(t))

IInv == TablesOK /\ DOMAIN tx = Sessions

\* What it knows stays so while nobody writes.
LEMMA StillFresh ==
  ASSUME NEW t, Fresh(t), UNCHANGED tables
  PROVE  Fresh(t)'
<1> USE DEF tables
<1>1. Holding(t) => Holding(t)'
  BY DEF Holding
<1>2. \A d, row : Synced(t, d, row) => Synced(t, d, row)'
  BY DEF Synced, synced
<1>3. Creating(t) => Creating(t)'
  <2> SUFFICES ASSUME Creating(t) PROVE Creating(t)'
    OBVIOUS
  <2>1. PICK d \in DeploymentIds, start \in StartInputs, end \in EndInputs,
             bill \in RateInputs, s \in SubmissionIds, cost \in CostInputs :
          /\ d \notin DOMAIN deployments /\ s \in selected /\ ~ deployed(s)
          /\ t.pc = "commit" /\ t.now.billing = EmptyTable
          /\ Synced(t, d, new_deployment(s, start, end, bill, cost))
    BY DEF Creating
  <2>2. PICK row : row = new_deployment(s, start, end, bill, cost)
    OBVIOUS
  <2>3. row = new_deployment(s, start, end, bill, cost)'
    BY <2>2 DEF new_deployment, status_on
  <2>4. ~ deployed(s)'
    BY <2>1 DEF deployed
  <2>5. Synced(t, d, row)'
    BY <1>2, <2>1, <2>2
  <2>6. Synced(t, d, new_deployment(s, start, end, bill, cost))'
    BY <2>3, <2>5 DEF Synced
  <2> QED  BY <2>1, <2>4, <2>6 DEF Creating
<1>4. Extending(t) => Extending(t)'
  <2> SUFFICES ASSUME Extending(t) PROVE Extending(t)'
    OBVIOUS
  <2>1. PICK d \in DeploymentIds, start \in StartInputs, end \in EndInputs,
             bill \in RateInputs, e \in DeploymentIds, cost \in CostInputs \cup { NoAmount } :
          /\ d \in DOMAIN deployments /\ e \notin DOMAIN deployments
          /\ may_extend(deployments[d], start)
          /\ t.pc = "commit" /\ t.now.billing = EmptyTable
          /\ Synced(t, e, successor(deployments[d], start, end, bill, cost))
    BY DEF Extending
  <2>2. PICK row : row = successor(deployments[d], start, end, bill, cost)
    OBVIOUS
  <2>3. row = successor(deployments[d], start, end, bill, cost)'
    BY <2>2 DEF successor, status_on
  <2>4. Synced(t, e, row)'
    BY <1>2, <2>1, <2>2
  <2>5. Synced(t, e, successor(deployments[d], start, end, bill, cost))'
    BY <2>3, <2>4 DEF Synced
  <2>6. may_extend(deployments[d], start)'
    BY <2>1
  <2> QED  BY <2>1, <2>5, <2>6 DEF Extending
<1>7. Ending(t) => Ending(t)'
  <2> SUFFICES ASSUME Ending(t) PROVE Ending(t)'
    OBVIOUS
  <2>1. PICK d \in DeploymentIds, date \in Dates :
          /\ d \in DOMAIN deployments /\ may_end(deployments[d], date)
          /\ Synced(t, d, ended(deployments[d], date))
          /\ \/ t.pc = "projections"
             \/ t.pc = "commit" /\ t.now.billing = cut(d, date)
    BY DEF Ending
  <2>2. PICK row : row = ended(deployments[d], date)
    OBVIOUS
  <2>3. row = ended(deployments[d], date)'
    BY <2>2
  <2>4. Synced(t, d, row)'
    BY <1>2, <2>1, <2>2
  <2>5. Synced(t, d, ended(deployments[d], date))'
    BY <2>3, <2>4 DEF Synced
  <2>6. cut(d, date) = cut(d, date)'
    BY DEF cut
  <2> QED  BY <2>1, <2>5, <2>6 DEF Ending
<1>8. Updating(t) => Updating(t)'
  BY DEF Updating
<1>5. Generating(t) => Generating(t)'
  BY DEF Generating, Projects, open_deployments
<1>6. Charging(t) => Charging(t)'
  BY DEF Charging
<1> QED  BY <1>1, <1>3, <1>4, <1>5, <1>6, <1>7, <1>8 DEF Fresh, Planned

\* Over fresh rows, a flush writes the rows as the request has made them.
LEMMA FlushPuts ==
  ASSUME NEW table, NEW columns, NEW was, NEW now,
         Stored(table, columns), Held(table, columns, was, now)
  PROVE  /\ flush(table, was, now) = PutAll(table, now)
         /\ Stored(PutAll(table, now), columns)
<1>1. ASSUME NEW k \in DOMAIN now, k \in DOMAIN was
      PROVE  merge(table[k], was[k], now[k]) = now[k]
  <2>1. /\ was[k] = table[k]
        /\ table[k] = [ c \in columns |-> table[k][c] ]
        /\ now[k] = [ c \in columns |-> now[k][c] ]
    BY <1>1 DEF Held, Stored, Has
  <2>2. PICK row, new : row = table[k] /\ new = now[k]
    OBVIOUS
  <2>3. merge(row, row, new) = [ c \in columns |-> new[c] ]
    BY <2>1, <2>2 DEF merge
  <2> QED  BY <2>1, <2>2, <2>3
<1>2. [ k \in DOMAIN now |-> IF k \in DOMAIN was
                             THEN merge(table[k], was[k], now[k]) ELSE now[k] ]
        = [ k \in DOMAIN now |-> now[k] ]
  BY <1>1
<1>3. now = [ k \in DOMAIN now |-> now[k] ]
  BY DEF Held, Stored
<1>4. flush(table, was, now) = PutAll(table, now)
  BY <1>2, <1>3 DEF flush
<1>5. Stored(PutAll(table, now), columns)
  BY DEF PutAll, Stored, Held
<1> QED  BY <1>4, <1>5

-----------------------------------------------------------------------------
(* Rows keep their columns.                                                *)

\* The consultant's row keeps its columns.
LEMMA SyncedColumns ==
  ASSUME NEW old, NEW row, Has(AvailabilityColumns, old)
  PROVE  Has(AvailabilityColumns, synced(old, row))
<1>1. \A status, from : Has(AvailabilityColumns, [ status |-> status, from |-> from ])
  BY DEF Has, AvailabilityColumns
<1> QED  BY <1>1 DEF synced

\* A deployment that is new, ended, extended or edited.
LEMMA DeploymentColumnsKept ==
  ASSUME NEW row, Has(DeploymentColumns, row), row.resource \in Resources
  PROVE  /\ \A date : /\ Has(DeploymentColumns, ended(row, date))
                      /\ ended(row, date).resource = row.resource
         /\ \A start, end, bill, cost :
              /\ Has(DeploymentColumns, successor(row, start, end, bill, cost))
              /\ successor(row, start, end, bill, cost).resource = row.resource
         /\ \A new \in edits(row) :
              Has(DeploymentColumns, new) /\ new.resource = row.resource
<1>1. row = [ c \in DeploymentColumns |-> row[c] ]
  BY DEF Has
<1>2. ASSUME NEW date
      PROVE  /\ Has(DeploymentColumns, ended(row, date))
             /\ ended(row, date).resource = row.resource
  BY <1>1 DEF ended, Has, DeploymentColumns
<1>3. ASSUME NEW start, NEW end, NEW bill, NEW cost
      PROVE  /\ Has(DeploymentColumns, successor(row, start, end, bill, cost))
             /\ successor(row, start, end, bill, cost).resource = row.resource
  <2>1. PICK status, amount, spent :
          /\ status = status_on(start) /\ amount = given(bill, row.bill)
          /\ spent = given(cost, row.cost)
    OBVIOUS
  <2>2. successor(row, start, end, bill, cost) =
          [ row EXCEPT !.submission = NoSubmission, !.start = start, !.end = end,
                       !.actual = NoDate, !.status = status, !.bill = amount,
                       !.cost = spent ]
    BY <1>1, <2>1 DEF successor, DeploymentColumns
  <2> QED  BY <1>1, <2>2 DEF Has, DeploymentColumns
<1>4. ASSUME NEW new \in edits(row)
      PROVE  Has(DeploymentColumns, new) /\ new.resource = row.resource
  BY <1>1 DEF edits, Has, DeploymentColumns
<1> QED  BY <1>2, <1>3, <1>4

\* A deployment made of a submission has them too.
LEMMA NewDeploymentColumns ==
  ASSUME NEW s \in SubmissionIds, NEW start, NEW end, NEW bill, NEW cost
  PROVE  /\ Has(DeploymentColumns, new_deployment(s, start, end, bill, cost))
         /\ new_deployment(s, start, end, bill, cost).resource \in Resources
  BY DeliveryInputs DEF new_deployment, Has, DeploymentColumns

\* A month that is entered, corrected, confirmed, cancelled or projected.
LEMMA BillingColumnsKept ==
  ASSUME NEW record, Has(BillingColumns, record)
  PROVE  /\ \A revenue, cost, status : Has(BillingColumns, updated(record, revenue, cost, status))
         /\ \A revenue, cost : Has(BillingColumns, confirmed(record, revenue, cost))
         /\ Has(BillingColumns, [ record EXCEPT !.status = "CANCELLED" ])
<1>1. record = [ c \in BillingColumns |-> record[c] ]
  BY DEF Has
<1>2. ASSUME NEW revenue, NEW cost
      PROVE  Has(BillingColumns, corrected(record, revenue, cost))
  <2>1. PICK a, b, p : /\ a = given(revenue, record.revenue) /\ b = given(cost, record.cost)
                       /\ p = a - b
    OBVIOUS
  <2>2. corrected(record, revenue, cost) =
          [ record EXCEPT !.revenue = a, !.cost = b, !.profit = p ]
    BY <1>1, <2>1 DEF corrected, BillingColumns
  <2> QED  BY <1>1, <2>2 DEF Has, BillingColumns
<1>3. ASSUME NEW revenue, NEW cost, NEW status
      PROVE  Has(BillingColumns, updated(record, revenue, cost, status))
  <2>1. PICK row : row = corrected(record, revenue, cost)
    OBVIOUS
  <2>2. row = [ c \in BillingColumns |-> row[c] ]
    BY <1>2, <2>1 DEF Has
  <2>3. PICK a, b, e : updated(record, revenue, cost, status) =
                         [ row EXCEPT !.status = a, !.signed = b, !.estimated = e ]
    BY <2>1 DEF updated
  <2> QED  BY <2>2, <2>3 DEF Has, BillingColumns
<1>4. ASSUME NEW revenue, NEW cost
      PROVE  Has(BillingColumns, confirmed(record, revenue, cost))
  <2>1. PICK row : row = corrected(record, revenue, cost)
    OBVIOUS
  <2>2. row = [ c \in BillingColumns |-> row[c] ]
    BY <1>2, <2>1 DEF Has
  <2> QED  BY <2>1, <2>2 DEF confirmed, Has, BillingColumns
<1> QED  BY <1>1, <1>3, <1>4 DEF Has, BillingColumns

\* So has a month that is entered or projected,
LEMMA NewBillingColumns ==
  /\ \A revenue, cost, status : Has(BillingColumns, entered(revenue, cost, status))
  /\ \A amounts : Has(BillingColumns, projected(amounts))
  BY DEF entered, projected, Has, BillingColumns

\* and every month that is generated.
LEMMA GeneratedColumns ==
  ASSUME NEW table, NEW rows, Stored(table, BillingColumns)
  PROVE  Stored(generated(table, rows), BillingColumns)
<1>1. ASSUME NEW record, NEW amounts, Has(BillingColumns, record)
      PROVE  Has(BillingColumns, refreshed(record, amounts))
  <2>1. PICK row : row = projected(amounts) /\ Has(BillingColumns, row)
    BY NewBillingColumns
  <2>2. Has(BillingColumns, [ row EXCEPT !.signed = record.signed ])
    BY <2>1 DEF Has, BillingColumns
  <2> QED  BY <1>1, <2>1, <2>2 DEF refreshed
<1>2. ASSUME NEW k \in DOMAIN generated(table, rows)
      PROVE  Has(BillingColumns, generated(table, rows)[k])
  <2>1. PICK amounts : amounts = projection(rows[k[1]], k[2])
    OBVIOUS
  <2>2. generated(table, rows)[k] = IF k \in DOMAIN table
                                    THEN refreshed(table[k], amounts) ELSE projected(amounts)
    BY <2>1 DEF generated
  <2>3. k \in DOMAIN table => Has(BillingColumns, table[k])
    BY DEF Stored
  <2> QED  BY <1>1, <2>2, <2>3, NewBillingColumns
<1>3. generated(table, rows) =
        [ k \in DOMAIN generated(table, rows) |-> generated(table, rows)[k] ]
  BY DEF generated
<1> QED  BY <1>2, <1>3 DEF Stored

\* Tables of no row, of one, and of some of another's.
LEMMA NoRows ==
  ASSUME NEW columns
  PROVE  Stored(EmptyTable, columns) /\ DOMAIN EmptyTable = {}
  BY DEF Stored, EmptyTable

\* A table of one row, and of some of the rows of another.
LEMMA OneRow ==
  ASSUME NEW key, NEW row
  PROVE  /\ DOMAIN Row(key, row) = { key } /\ Row(key, row)[key] = row
         /\ \A columns : Has(columns, row) => Stored(Row(key, row), columns)
  BY DEF Stored, Row

LEMMA SomeRows ==
  ASSUME NEW table, NEW keys
  PROVE  /\ DOMAIN Select(table, keys) = DOMAIN table \cap keys
         /\ \A k \in DOMAIN Select(table, keys) : Select(table, keys)[k] = table[k]
         /\ \A columns : Stored(table, columns) => Stored(Select(table, keys), columns)
  BY DEF Stored, Select

\* A session holds nothing of a table, one row of it, or some.
LEMMA NothingHeld ==
  ASSUME NEW table, NEW columns, NEW was
  PROVE  Held(table, columns, was, EmptyTable)
  BY NoRows DEF Held

LEMMA NewRowHeld ==
  ASSUME NEW table, NEW columns, NEW key, NEW row, Has(columns, row)
  PROVE  Held(table, columns, EmptyTable, Row(key, row))
  BY NoRows, OneRow DEF Held

LEMMA OneRowHeld ==
  ASSUME NEW table, NEW columns, NEW key \in DOMAIN table, NEW row, Has(columns, row)
  PROVE  Held(table, columns, Row(key, table[key]), Row(key, row))
<1>1. Stored(Row(key, row), columns)
  BY OneRow
<1>2. DOMAIN Row(key, row) = { key } /\ Row(key, table[key])[key] = table[key]
  BY OneRow
<1> QED  BY <1>1, <1>2 DEF Held

-----------------------------------------------------------------------------
(* Requests begin, and read.                                               *)

\* The session is at u, and nothing is written.
LeadsTo(x, u) == tx' = [ tx EXCEPT ![x] = u ] /\ UNCHANGED tables /\ Fresh(u)

\* A deployment and its consultant.
LEMMA SyncBegins ==
  ASSUME IInv, NEW x \in Sessions, NEW pc, NEW loaded, NEW d, NEW row,
         Has(DeploymentColumns, row), row.resource \in Resources,
         \/ loaded = EmptyTable
         \/ d \in DOMAIN deployments /\ loaded = Row(d, deployments[d]),
         BeginSync(x, pc, loaded, d, row)
  PROVE  \E u : /\ tx' = [ tx EXCEPT ![x] = u ] /\ UNCHANGED tables
                /\ Holding(u) /\ u.pc = pc /\ u.now.billing = EmptyTable
                /\ Synced(u, d, row)
<1>1. PICK c \in Resources : c = row.resource
  OBVIOUS
<1>2. PICK old : old = availability[c] /\ Has(AvailabilityColumns, old)
  BY DEF IInv, TablesOK, Stored
<1>3. PICK new : new = synced(old, row) /\ Has(AvailabilityColumns, new)
  BY <1>2, SyncedColumns
<1>4. PICK was : was = Rows(loaded, EmptyTable, Row(c, old))
  OBVIOUS
<1>5. PICK now : now = Rows(Row(d, row), EmptyTable, Row(c, new))
  OBVIOUS
<1>6. PICK u : u = Transaction(pc, was, now)
  OBVIOUS
<1>7. tx' = [ tx EXCEPT ![x] = u ] /\ UNCHANGED tables
  BY <1>1, <1>2, <1>3, <1>4, <1>5, <1>6 DEF BeginSync, Begin
<1>8. /\ u.pc = pc /\ u.was = was /\ u.now = now
      /\ was.deployments = loaded /\ was.billing = EmptyTable /\ was.availability = Row(c, old)
      /\ now.deployments = Row(d, row) /\ now.billing = EmptyTable
      /\ now.availability = Row(c, new)
  BY <1>4, <1>5, <1>6 DEF Transaction, Rows
<1>9. Held(deployments, DeploymentColumns, loaded, Row(d, row))
  <2>1. CASE loaded = EmptyTable
    BY <2>1, NewRowHeld
  <2>2. CASE d \in DOMAIN deployments /\ loaded = Row(d, deployments[d])
    BY <2>2, OneRowHeld
  <2> QED  BY <2>1, <2>2
<1>10. Held(billing, BillingColumns, EmptyTable, EmptyTable)
  BY NothingHeld
<1>11. Held(availability, AvailabilityColumns, Row(c, old), Row(c, new))
  BY <1>2, <1>3, OneRowHeld DEF IInv, TablesOK
<1>12. Holding(u)
  <2>1. DOMAIN Row(c, new) \subseteq Resources
    BY DEF Row
  <2>2. \A e \in DOMAIN Row(d, row) : Row(d, row)[e].resource \in Resources
    BY DEF Row
  <2> QED  BY <1>4, <1>5, <1>6, <1>8, <1>9, <1>10, <1>11, <2>1, <2>2 DEF Holding
<1>13. Synced(u, d, row)
  BY <1>1, <1>2, <1>3, <1>8 DEF Synced
<1> QED  BY <1>7, <1>8, <1>12, <1>13

\* Rows of one table.
LEMMA PlainBegins ==
  ASSUME IInv, NEW x \in Sessions, NEW pc, NEW was, NEW now,
         was = Rows(was.deployments, was.billing, was.availability),
         now = Rows(now.deployments, now.billing, now.availability),
         Held(deployments, DeploymentColumns, was.deployments, now.deployments),
         \A d \in DOMAIN now.deployments : now.deployments[d].resource \in Resources,
         Held(billing, BillingColumns, was.billing, now.billing),
         now.availability = EmptyTable,
         Begin(x, pc, was, now)
  PROVE  \E u : /\ tx' = [ tx EXCEPT ![x] = u ] /\ UNCHANGED tables
                /\ Holding(u) /\ u.pc = pc /\ u.now = now
<1>1. PICK u : u = Transaction(pc, was, now)
  OBVIOUS
<1>2. u.pc = pc /\ u.was = was /\ u.now = now
  BY <1>1 DEF Transaction
<1>3. Held(availability, AvailabilityColumns, was.availability, now.availability)
  BY NothingHeld
<1>4. DOMAIN now.availability \subseteq Resources
  BY NoRows
<1>5. Holding(u)
  BY <1>1, <1>2, <1>3, <1>4 DEF Holding
<1> QED  BY <1>1, <1>2, <1>5 DEF Begin

\* The fields of what is read and written.
LEMMA Fields ==
  \A ds, records, consultants :
    /\ Rows(ds, records, consultants).deployments = ds
    /\ Rows(ds, records, consultants).billing = records
    /\ Rows(ds, records, consultants).availability = consultants
  BY DEF Rows

\* POST /deployments: the submission is selected and has none.
LEMMA CreateBegins ==
  ASSUME IInv, NEW x \in Sessions,
         NEW d \in DeploymentIds, NEW start \in StartInputs, NEW end \in EndInputs,
         NEW bill \in RateInputs, NEW s \in SubmissionIds, NEW cost \in CostInputs,
         StartCreate(x, d, s, start, end, bill, cost)
  PROVE  \E u : LeadsTo(x, u)
<1>1. PICK row : row = new_deployment(s, start, end, bill, cost)
  OBVIOUS
<1>2. Has(DeploymentColumns, row) /\ row.resource \in Resources
  BY <1>1, NewDeploymentColumns
<1>3. BeginSync(x, "commit", EmptyTable, d, row)
  BY <1>1 DEF StartCreate
<1>4. PICK u : /\ tx' = [ tx EXCEPT ![x] = u ] /\ UNCHANGED tables
               /\ Holding(u) /\ u.pc = "commit" /\ u.now.billing = EmptyTable
               /\ Synced(u, d, row)
  BY <1>2, <1>3, SyncBegins
<1>5. d \notin DOMAIN deployments /\ s \in selected /\ ~ deployed(s)
  BY DEF StartCreate, unused
<1>6. Creating(u)
  BY <1>1, <1>4, <1>5 DEF Creating
<1> QED  BY <1>4, <1>6 DEF LeadsTo, Fresh, Planned

\* POST /deployments/{id}/extend: the old row is read, the new one written.
LEMMA ExtendBegins ==
  ASSUME IInv, NEW x \in Sessions,
         NEW d \in DeploymentIds, NEW start \in StartInputs, NEW end \in EndInputs,
         NEW bill \in RateInputs, NEW e \in DeploymentIds,
         NEW cost \in CostInputs \cup { NoAmount },
         StartExtend(x, d, e, start, end, bill, cost)
  PROVE  \E u : LeadsTo(x, u)
<1>0. /\ d \in DOMAIN deployments /\ e \notin DOMAIN deployments
      /\ may_extend(deployments[d], start)
  BY DEF StartExtend, unused
<1>1. PICK row : row = successor(deployments[d], start, end, bill, cost)
  OBVIOUS
<1>2. Has(DeploymentColumns, row) /\ row.resource \in Resources
  BY <1>0, <1>1, DeploymentColumnsKept DEF IInv, TablesOK, Stored
<1>3. BeginSync(x, "commit", EmptyTable, e, row)
  BY <1>1 DEF StartExtend
<1>4. PICK u : /\ tx' = [ tx EXCEPT ![x] = u ] /\ UNCHANGED tables
               /\ Holding(u) /\ u.pc = "commit" /\ u.now.billing = EmptyTable
               /\ Synced(u, e, row)
  BY <1>2, <1>3, SyncBegins
<1>5. Extending(u)
  BY <1>0, <1>1, <1>4 DEF Extending
<1> QED  BY <1>4, <1>5 DEF LeadsTo, Fresh, Planned

\* POST /deployments/{id}/end: the projections are still to be read.
LEMMA EndBegins ==
  ASSUME IInv, NEW x \in Sessions, NEW d \in DeploymentIds, NEW date \in Dates,
         StartEnd(x, d, date)
  PROVE  \E u : LeadsTo(x, u)
<1>0. d \in DOMAIN deployments /\ may_end(deployments[d], date)
  BY DEF StartEnd
<1>1. PICK row : row = ended(deployments[d], date)
  OBVIOUS
<1>2. Has(DeploymentColumns, row) /\ row.resource \in Resources
  BY <1>0, <1>1, DeploymentColumnsKept DEF IInv, TablesOK, Stored
<1>3. BeginSync(x, "projections", Row(d, deployments[d]), d, row)
  BY <1>1 DEF StartEnd
<1>4. PICK u : /\ tx' = [ tx EXCEPT ![x] = u ] /\ UNCHANGED tables
               /\ Holding(u) /\ u.pc = "projections" /\ u.now.billing = EmptyTable
               /\ Synced(u, d, row)
  <2>1. PICK loaded : loaded = Row(d, deployments[d])
    OBVIOUS
  <2> QED  BY <1>0, <1>2, <1>3, <2>1, SyncBegins
<1>5. Ending(u)
  BY <1>0, <1>1, <1>4 DEF Ending
<1> QED  BY <1>4, <1>5 DEF LeadsTo, Fresh, Planned

\* PATCH /deployments/{id}.
LEMMA UpdateBegins ==
  ASSUME IInv, NEW x \in Sessions, NEW d \in DeploymentIds, StartUpdate(x, d)
  PROVE  \E u : LeadsTo(x, u)
<1>0. d \in DOMAIN deployments
  BY DEF StartUpdate
<1>1. PICK row \in edits(deployments[d]) :
        Begin(x, "commit", Rows(Row(d, deployments[d]), EmptyTable, EmptyTable),
              Rows(Row(d, row), EmptyTable, EmptyTable))
  BY DEF StartUpdate
<1>2. Has(DeploymentColumns, row) /\ row.resource \in Resources
  BY <1>0, <1>1, DeploymentColumnsKept DEF IInv, TablesOK, Stored
<1>3. PICK was : was = Rows(Row(d, deployments[d]), EmptyTable, EmptyTable)
  OBVIOUS
<1>4. PICK now : now = Rows(Row(d, row), EmptyTable, EmptyTable)
  OBVIOUS
<1>5. /\ was.deployments = Row(d, deployments[d]) /\ was.billing = EmptyTable
      /\ was.availability = EmptyTable
      /\ now.deployments = Row(d, row) /\ now.billing = EmptyTable
      /\ now.availability = EmptyTable
  BY <1>3, <1>4, Fields
<1>6. Held(deployments, DeploymentColumns, was.deployments, now.deployments)
  BY <1>0, <1>2, <1>5, OneRowHeld
<1>7. Held(billing, BillingColumns, was.billing, now.billing)
  BY <1>5, NothingHeld
<1>8. \A e \in DOMAIN now.deployments : now.deployments[e].resource \in Resources
  BY <1>2, <1>5 DEF Row
<1>9. PICK u : /\ tx' = [ tx EXCEPT ![x] = u ] /\ UNCHANGED tables
               /\ Holding(u) /\ u.pc = "commit" /\ u.now = now
  <2>1. Begin(x, "commit", was, now)
    BY <1>1, <1>3, <1>4
  <2>2. /\ was = Rows(was.deployments, was.billing, was.availability)
        /\ now = Rows(now.deployments, now.billing, now.availability)
    BY <1>3, <1>4, <1>5
  <2> QED  BY <1>5, <1>6, <1>7, <1>8, <2>1, <2>2, PlainBegins
<1>10. Updating(u)
  BY <1>0, <1>5, <1>9 DEF Updating
<1> QED  BY <1>9, <1>10 DEF LeadsTo, Fresh, Planned

\* POST /billing/generate-projections: the months are still to be read.
LEMMA GenerateBegins ==
  ASSUME IInv, NEW x \in Sessions, NEW ds, Projects(ds), StartGenerate(x, ds)
  PROVE  \E u : LeadsTo(x, u)
<1>1. PICK chosen : chosen = Select(deployments, ds)
  OBVIOUS
<1>2. PICK now : now = Rows(chosen, EmptyTable, EmptyTable)
  OBVIOUS
<1>3. /\ now.deployments = chosen /\ now.billing = EmptyTable
      /\ now.availability = EmptyTable
  BY <1>2, Fields
<1>4. Held(deployments, DeploymentColumns, chosen, chosen)
  BY <1>1, SomeRows DEF Held, IInv, TablesOK
<1>5. Held(billing, BillingColumns, EmptyTable, EmptyTable)
  BY NothingHeld
<1>6. \A e \in DOMAIN chosen : chosen[e].resource \in Resources
  BY <1>1 DEF Select, IInv, TablesOK
<1>7. PICK u : /\ tx' = [ tx EXCEPT ![x] = u ] /\ UNCHANGED tables
               /\ Holding(u) /\ u.pc = "records" /\ u.now = now
  <2>1. Begin(x, "records", now, now)
    BY <1>1, <1>2 DEF StartGenerate
  <2>2. now = Rows(now.deployments, now.billing, now.availability)
    BY <1>2, <1>3
  <2> QED  BY <1>3, <1>4, <1>5, <1>6, <2>1, <2>2, PlainBegins
<1>8. Generating(u)
  BY <1>1, <1>3, <1>7 DEF Generating
<1> QED  BY <1>7, <1>8 DEF LeadsTo, Fresh, Planned

\* One month, as it is and as it will be.
LEMMA ChargeBegins ==
  ASSUME IInv, NEW x \in Sessions, NEW d \in DeploymentIds, NEW date \in Dates,
         NEW revenue \in AmountInputs, NEW cost \in AmountInputs,
         NEW k, k = << d, period_of(date) >>,
         \/ \E status \in BillingInputs : StartRecord(x, k, revenue, cost, status)
         \/ \E status \in BillingInputs \cup { Unset } :
              StartUpdateRecord(x, k, revenue, cost, status)
         \/ StartConfirm(x, k, revenue, cost)
  PROVE  \E u : LeadsTo(x, u)
<1> DEFINE Leads(u, row) == /\ tx' = [ tx EXCEPT ![x] = u ] /\ UNCHANGED tables
                            /\ Holding(u) /\ u.pc = "commit"
                            /\ u.now = Rows(EmptyTable, Row(k, row), EmptyTable)
<1>1. ASSUME NEW was, NEW row, Has(BillingColumns, row),
             \/ was = EmptyTable
             \/ k \in DOMAIN billing /\ was = Row(k, billing[k]),
             Begin(x, "commit", Rows(EmptyTable, was, EmptyTable),
                   Rows(EmptyTable, Row(k, row), EmptyTable))
      PROVE  \E u : Leads(u, row)
  <2>1. PICK old : old = Rows(EmptyTable, was, EmptyTable)
    OBVIOUS
  <2>2. PICK now : now = Rows(EmptyTable, Row(k, row), EmptyTable)
    OBVIOUS
  <2>3. /\ old.deployments = EmptyTable /\ old.billing = was
        /\ old.availability = EmptyTable
        /\ now.deployments = EmptyTable /\ now.billing = Row(k, row)
        /\ now.availability = EmptyTable
    BY <2>1, <2>2, Fields
  <2>4. Held(deployments, DeploymentColumns, old.deployments, now.deployments)
    BY <2>3, NothingHeld
  <2>5. Held(billing, BillingColumns, was, Row(k, row))
    BY <1>1, NewRowHeld, OneRowHeld
  <2>6. \A e \in DOMAIN now.deployments : now.deployments[e].resource \in Resources
    BY <2>3, NoRows
  <2>7. PICK u : /\ tx' = [ tx EXCEPT ![x] = u ] /\ UNCHANGED tables
                 /\ Holding(u) /\ u.pc = "commit" /\ u.now = now
    <3>1. Begin(x, "commit", old, now)
      BY <1>1, <2>1, <2>2
    <3>2. /\ old = Rows(old.deployments, old.billing, old.availability)
          /\ now = Rows(now.deployments, now.billing, now.availability)
      BY <2>1, <2>2, <2>3
    <3> QED  BY <2>3, <2>4, <2>5, <2>6, <3>1, <3>2, PlainBegins
  <2> QED  BY <2>2, <2>7
<1>2. ASSUME NEW u, NEW row, Leads(u, row)
      PROVE  /\ u.now.deployments = EmptyTable /\ u.now.availability = EmptyTable
             /\ u.now.billing = Row(k, row)
  BY <1>2, Fields
<1>3. k \in DOMAIN billing => Has(BillingColumns, billing[k])
  BY DEF IInv, TablesOK, Stored
<1>4. ASSUME NEW status \in BillingInputs, StartRecord(x, k, revenue, cost, status)
      PROVE  \E u : LeadsTo(x, u)
  <2>1. PICK row : row = entered(revenue, cost, status)
    OBVIOUS
  <2>2. PICK u : Leads(u, row)
    <3>1. Has(BillingColumns, row)
      BY <2>1, NewBillingColumns
    <3>2. Begin(x, "commit", Rows(EmptyTable, EmptyTable, EmptyTable),
                Rows(EmptyTable, Row(k, row), EmptyTable))
      BY <1>4, <2>1 DEF StartRecord, Nothing
    <3> HIDE DEF Leads
    <3> QED  BY <1>1, <3>1, <3>2
  <2>3. /\ d \in DOMAIN deployments /\ k \notin DOMAIN billing
        /\ revenue # NoAmount /\ cost # NoAmount
    BY <1>4 DEF StartRecord
  <2>4. Charging(u)
    <3>1. /\ u.pc = "commit"
          /\ u.now.deployments = EmptyTable /\ u.now.availability = EmptyTable
          /\ u.now.billing = Row(k, entered(revenue, cost, status))
      BY <1>2, <2>1, <2>2
    <3> HIDE DEF Leads
    <3> QED  BY <2>3, <3>1 DEF Charging
  <2> QED  BY <2>2, <2>4 DEF LeadsTo, Fresh, Planned
<1>5. ASSUME NEW status \in BillingInputs \cup { Unset },
             StartUpdateRecord(x, k, revenue, cost, status)
      PROVE  \E u : LeadsTo(x, u)
  <2>0. k \in DOMAIN billing
    BY <1>5 DEF StartUpdateRecord
  <2>1. PICK row : row = updated(billing[k], revenue, cost, status)
    OBVIOUS
  <2>2. PICK u : Leads(u, row)
    <3>1. Has(BillingColumns, row)
      BY <1>3, <2>0, <2>1, BillingColumnsKept
    <3>2. Begin(x, "commit", Rows(EmptyTable, Row(k, billing[k]), EmptyTable),
                Rows(EmptyTable, Row(k, row), EmptyTable))
      BY <1>5, <2>1 DEF StartUpdateRecord, StartCorrect
    <3> HIDE DEF Leads
    <3> QED  BY <1>1, <2>0, <3>1, <3>2
  <2>3. Charging(u)
    <3>1. /\ u.pc = "commit"
          /\ u.now.deployments = EmptyTable /\ u.now.availability = EmptyTable
          /\ u.now.billing = Row(k, updated(billing[k], revenue, cost, status))
      BY <1>2, <2>1, <2>2
    <3> HIDE DEF Leads
    <3> QED  BY <2>0, <3>1 DEF Charging
  <2> QED  BY <2>2, <2>3 DEF LeadsTo, Fresh, Planned
<1>6. ASSUME StartConfirm(x, k, revenue, cost)
      PROVE  \E u : LeadsTo(x, u)
  <2>0. k \in DOMAIN billing /\ billing[k].status # "CANCELLED"
    BY <1>6 DEF StartConfirm
  <2>1. PICK row : row = confirmed(billing[k], revenue, cost)
    OBVIOUS
  <2>2. PICK u : Leads(u, row)
    <3>1. Has(BillingColumns, row)
      BY <1>3, <2>0, <2>1, BillingColumnsKept
    <3>2. Begin(x, "commit", Rows(EmptyTable, Row(k, billing[k]), EmptyTable),
                Rows(EmptyTable, Row(k, row), EmptyTable))
      BY <1>6, <2>1 DEF StartConfirm, StartCorrect
    <3> HIDE DEF Leads
    <3> QED  BY <1>1, <2>0, <3>1, <3>2
  <2>3. Charging(u)
    <3>1. /\ u.pc = "commit"
          /\ u.now.deployments = EmptyTable /\ u.now.availability = EmptyTable
          /\ u.now.billing = Row(k, confirmed(billing[k], revenue, cost))
      BY <1>2, <2>1, <2>2
    <3> HIDE DEF Leads
    <3> QED  BY <2>0, <3>1 DEF Charging
  <2> QED  BY <2>2, <2>3 DEF LeadsTo, Fresh, Planned
<1> QED  BY <1>4, <1>5, <1>6

\* Whatever begins is planned.
LEMMA StartBegins ==
  ASSUME IInv, NEW x \in Sessions, Start(x)
  PROVE  \E u : LeadsTo(x, u)
<1>1. ASSUME NEW d \in DeploymentIds, NEW start \in StartInputs, NEW end \in EndInputs,
             NEW bill \in RateInputs, NEW s \in SubmissionIds, NEW cost \in CostInputs,
             StartCreate(x, d, s, start, end, bill, cost)
      PROVE  \E u : LeadsTo(x, u)
  BY <1>1, CreateBegins
<1>2. ASSUME NEW d \in DeploymentIds, NEW start \in StartInputs, NEW end \in EndInputs,
             NEW bill \in RateInputs, NEW e \in DeploymentIds,
             NEW cost \in CostInputs \cup { NoAmount },
             StartExtend(x, d, e, start, end, bill, cost)
      PROVE  \E u : LeadsTo(x, u)
  BY <1>2, ExtendBegins
<1>3. ASSUME NEW d \in DeploymentIds, NEW date \in Dates, StartEnd(x, d, date)
      PROVE  \E u : LeadsTo(x, u)
  BY <1>3, EndBegins
<1>4. ASSUME NEW d \in DeploymentIds, StartUpdate(x, d)
      PROVE  \E u : LeadsTo(x, u)
  BY <1>4, UpdateBegins
<1>5. ASSUME NEW ds, Projects(ds), StartGenerate(x, ds)
      PROVE  \E u : LeadsTo(x, u)
  BY <1>5, GenerateBegins
<1>6. ASSUME NEW d \in DeploymentIds, NEW date \in Dates, NEW revenue \in AmountInputs,
             NEW cost \in AmountInputs, NEW k, k = << d, period_of(date) >>,
             \/ \E status \in BillingInputs : StartRecord(x, k, revenue, cost, status)
             \/ \E status \in BillingInputs \cup { Unset } :
                  StartUpdateRecord(x, k, revenue, cost, status)
             \/ StartConfirm(x, k, revenue, cost)
      PROVE  \E u : LeadsTo(x, u)
  BY <1>6, ChargeBegins
<1> QED
  BY <1>1, <1>2, <1>3, <1>4, <1>5, <1>6 DEF Start, Projects

\* The months it finds are those stored.
LEMMA MonthsRead ==
  ASSUME IInv, NEW x \in Sessions, NEW t, t = tx[x], Holding(t),
         NEW found, NEW made, ReadMonths(x, found, made),
         Held(billing, BillingColumns, found, made)
  PROVE  \E u : /\ tx' = [ tx EXCEPT ![x] = u ] /\ UNCHANGED tables
                /\ Holding(u) /\ u.pc = "commit" /\ u.now.billing = made
                /\ u.now.deployments = t.now.deployments
                /\ u.now.availability = t.now.availability
<1>1. PICK was : was = Rows(t.was.deployments, found, t.was.availability)
  OBVIOUS
<1>2. PICK now : now = Rows(t.now.deployments, made, t.now.availability)
  OBVIOUS
<1>3. PICK u : u = Transaction("commit", was, now)
  OBVIOUS
<1>4. /\ was.deployments = t.was.deployments /\ was.billing = found
      /\ was.availability = t.was.availability
      /\ now.deployments = t.now.deployments /\ now.billing = made
      /\ now.availability = t.now.availability
  BY <1>1, <1>2, Fields
<1>5. u.pc = "commit" /\ u.was = was /\ u.now = now
  BY <1>3 DEF Transaction
<1>6. Holding(u)
  <2>1. u = Transaction(u.pc, u.was, u.now)
    BY <1>3, <1>5
  <2>2. /\ u.was = Rows(u.was.deployments, u.was.billing, u.was.availability)
        /\ u.now = Rows(u.now.deployments, u.now.billing, u.now.availability)
    BY <1>1, <1>2, <1>4, <1>5
  <2>3. /\ Held(deployments, DeploymentColumns, u.was.deployments, u.now.deployments)
        /\ \A d \in DOMAIN u.now.deployments : u.now.deployments[d].resource \in Resources
        /\ Held(billing, BillingColumns, u.was.billing, u.now.billing)
        /\ Held(availability, AvailabilityColumns, u.was.availability, u.now.availability)
        /\ DOMAIN u.now.availability \subseteq Resources
    BY <1>4, <1>5 DEF Holding
  <2> QED  BY <2>1, <2>2, <2>3 DEF Holding
<1>7. [ t EXCEPT !.pc = "commit", !.was.billing = found, !.now.billing = made ] = u
  <2>1. PICK was1 : was1 = t.was
    OBVIOUS
  <2>2. PICK now1 : now1 = t.now
    OBVIOUS
  <2>3. /\ t = [ pc |-> t.pc, was |-> was1, now |-> now1 ]
        /\ was1 = [ deployments |-> was1.deployments, billing |-> was1.billing,
                    availability |-> was1.availability ]
        /\ now1 = [ deployments |-> now1.deployments, billing |-> now1.billing,
                    availability |-> now1.availability ]
    BY <2>1, <2>2 DEF Holding, Transaction, Rows
  <2>4. [ was1 EXCEPT !.billing = found ] = was /\ [ now1 EXCEPT !.billing = made ] = now
    BY <1>1, <1>2, <2>1, <2>2, <2>3 DEF Rows
  <2>5. PICK t1, t2, t3 : /\ t1 = [ t EXCEPT !.pc = "commit" ]
                          /\ t2 = [ t1 EXCEPT !.was = [ @ EXCEPT !.billing = found ] ]
                          /\ t3 = [ t2 EXCEPT !.now = [ @ EXCEPT !.billing = made ] ]
    OBVIOUS
  <2>6. t1 = [ pc |-> "commit", was |-> was1, now |-> now1 ]
    BY <2>3, <2>5
  <2>0. PICK was2, now2 : /\ was2 = [ was1 EXCEPT !.billing = found ]
                          /\ now2 = [ now1 EXCEPT !.billing = made ]
    OBVIOUS
  <2>7. t2 = [ pc |-> "commit", was |-> was2, now |-> now1 ]
    <3>1. t1.was = was1
      BY <2>6
    <3>2. [ t1.was EXCEPT !.billing = found ] = was2
      BY <3>1, <2>0
    <3>3. t2 = [ t1 EXCEPT !.was = was2 ]
      BY <3>2, <2>5
    <3> QED  BY <3>3, <2>6
  <2>8. t3 = [ pc |-> "commit", was |-> was2, now |-> now2 ]
    <3>1. t2.now = now1
      BY <2>7
    <3>2. [ t2.now EXCEPT !.billing = made ] = now2
      BY <3>1, <2>0
    <3>3. t3 = [ t2 EXCEPT !.now = now2 ]
      BY <3>2, <2>5
    <3> QED  BY <3>3, <2>7
  <2>9. [ t EXCEPT !.pc = "commit", !.was.billing = found, !.now.billing = made ] = t3
    BY <2>5
  <2> QED  BY <1>3, <2>0, <2>4, <2>8, <2>9 DEF Transaction
<1>8. tx' = [ tx EXCEPT ![x] = u ] /\ UNCHANGED tables
  <2>1. x \in DOMAIN tx
    BY DEF IInv
  <2> QED  BY <1>7, <2>1 DEF ReadMonths
<1> QED  BY <1>4, <1>5, <1>6, <1>8

\* The projections a request that ends a deployment finds are cut at the end.
LEMMA ProjectionsRead ==
  ASSUME IInv, NEW x \in Sessions, Fresh(tx[x]), ReadProjections(x)
  PROVE  \E u : LeadsTo(x, u)
<1>1. PICK t : t = tx[x]
  OBVIOUS
<1>2. t.pc = "projections"
  BY <1>1 DEF ReadProjections
<1>3. Holding(t) /\ Ending(t)
  BY <1>1, <1>2 DEF Fresh, Idle, Transaction, Planned, Creating, Extending, Updating,
                    Generating, Charging
<1>4. PICK d \in DeploymentIds, date \in Dates :
        /\ d \in DOMAIN deployments /\ may_end(deployments[d], date)
        /\ Synced(t, d, ended(deployments[d], date))
  BY <1>3 DEF Ending
<1>5. PICK row : row = ended(deployments[d], date) /\ row.actual = date
  <2>1. PICK old : old = deployments[d]
    OBVIOUS
  <2>2. old = [ c \in DeploymentColumns |-> old[c] ]
    BY <1>4, <2>1 DEF IInv, TablesOK, Stored, Has
  <2>3. ended(old, date).actual = date
    BY <2>2 DEF ended, DeploymentColumns
  <2> QED  BY <2>1, <2>3
<1>6. t.now.deployments = Row(d, row)
  BY <1>4, <1>5 DEF Synced
<1> DEFINE keys == { k \in DOMAIN billing : k[1] = d /\ billing[k].status = "PROJECTED" }
<1>7. PICK found : found = Select(billing, keys)
  OBVIOUS
<1>8. PICK made : made = cut(d, date)
  OBVIOUS
<1>9. /\ DOMAIN found = keys /\ \A k \in keys : found[k] = billing[k]
  BY <1>7 DEF Select
<1>10. { k \in DOMAIN billing : /\ k[1] \in DOMAIN t.now.deployments
                                /\ billing[k].status = "PROJECTED" } = keys
  BY <1>6 DEF Row
<1>11. [ k \in DOMAIN found |->
           IF cancels(found[k], k[2], t.now.deployments[k[1]].actual)
           THEN [ found[k] EXCEPT !.status = "CANCELLED" ] ELSE found[k] ] = made
  <2>1. \A k \in keys : t.now.deployments[k[1]].actual = date
    BY <1>5, <1>6 DEF Row
  <2>2. \A k \in keys :
          (IF cancels(found[k], k[2], t.now.deployments[k[1]].actual)
           THEN [ found[k] EXCEPT !.status = "CANCELLED" ] ELSE found[k])
            = (IF cancels(billing[k], k[2], date)
               THEN [ billing[k] EXCEPT !.status = "CANCELLED" ] ELSE billing[k])
    BY <1>9, <2>1
  <2> QED  BY <1>8, <1>9, <2>2 DEF cut
<1>12. ReadMonths(x, found, made)
  <2>1. found = Select(billing, { k \in DOMAIN billing :
                                    /\ k[1] \in DOMAIN t.now.deployments
                                    /\ billing[k].status = "PROJECTED" })
    BY <1>7, <1>10
  <2> HIDE DEF keys
  <2> QED  BY <1>1, <1>11, <2>1 DEF ReadProjections
<1>13. Held(billing, BillingColumns, found, made)
  <2>1. \A k \in keys : Has(BillingColumns, billing[k])
    BY DEF IInv, TablesOK, Stored
  <2>2. Stored(made, BillingColumns)
    <3>1. ASSUME NEW k \in keys PROVE Has(BillingColumns, made[k])
      <4>1. Has(BillingColumns, [ billing[k] EXCEPT !.status = "CANCELLED" ])
        BY <2>1, BillingColumnsKept
      <4>2. made[k] = IF cancels(billing[k], k[2], date)
                      THEN [ billing[k] EXCEPT !.status = "CANCELLED" ] ELSE billing[k]
        BY <1>8 DEF cut
      <4> QED  BY <2>1, <4>1, <4>2
    <3>2. DOMAIN made = keys /\ made = [ k \in DOMAIN made |-> made[k] ]
      BY <1>8 DEF cut
    <3> QED  BY <3>1, <3>2 DEF Stored
  <2>3. DOMAIN made = keys
    BY <1>8 DEF cut
  <2> QED  BY <1>9, <2>2, <2>3 DEF Held
<1>14. PICK u : /\ tx' = [ tx EXCEPT ![x] = u ] /\ UNCHANGED tables
                /\ Holding(u) /\ u.pc = "commit" /\ u.now.billing = made
                /\ u.now.deployments = t.now.deployments
                /\ u.now.availability = t.now.availability
  <2> HIDE DEF keys
  <2> QED  BY <1>1, <1>3, <1>12, <1>13, MonthsRead
<1>15. Ending(u)
  BY <1>4, <1>8, <1>14 DEF Ending, Synced
<1> QED  BY <1>14, <1>15 DEF LeadsTo, Fresh, Planned

\* The months the generator finds are those it refreshes.
LEMMA RecordsRead ==
  ASSUME IInv, NEW x \in Sessions, Fresh(tx[x]), ReadRecords(x)
  PROVE  \E u : LeadsTo(x, u)
<1>1. PICK t : t = tx[x]
  OBVIOUS
<1>2. t.pc = "records"
  BY <1>1 DEF ReadRecords
<1>3. Holding(t) /\ Generating(t)
  BY <1>1, <1>2 DEF Fresh, Idle, Transaction, Planned, Creating, Extending, Updating,
                    Ending, Charging
<1>4. PICK ds : /\ Projects(ds)
                /\ t.now.deployments = Select(deployments, ds)
                /\ t.now.availability = EmptyTable
  BY <1>3 DEF Generating
<1>5. PICK chosen : chosen = Select(deployments, ds)
  OBVIOUS
<1>6. PICK found : found = Select(billing, { k \in DOMAIN billing : k[1] \in DOMAIN chosen })
  OBVIOUS
<1>7. PICK made : made = generated(found, chosen)
  OBVIOUS
<1>8. made = generated(billing, chosen)
  <2> DEFINE Keys == UNION { { e } \X projection_periods(chosen[e]) : e \in DOMAIN chosen }
             one(table, k) == LET amounts == projection(chosen[k[1]], k[2])
                              IN  IF k \in DOMAIN table
                                  THEN refreshed(table[k], amounts) ELSE projected(amounts)
  <2>1. ASSUME NEW k \in Keys PROVE one(found, k) = one(billing, k)
    <3>1. k[1] \in DOMAIN chosen
      OBVIOUS
    <3>2. k \in DOMAIN found <=> k \in DOMAIN billing
      BY <1>6, <3>1 DEF Select
    <3>3. k \in DOMAIN billing => found[k] = billing[k]
      BY <1>6, <3>1 DEF Select
    <3> QED  BY <3>2, <3>3
  <2>2. /\ generated(found, chosen) = [ k \in Keys |-> one(found, k) ]
        /\ generated(billing, chosen) = [ k \in Keys |-> one(billing, k) ]
    BY DEF generated
  <2> HIDE DEF Keys, one
  <2> QED  BY <1>7, <2>1, <2>2
<1>9. Held(billing, BillingColumns, found, made)
  <2>1. Stored(made, BillingColumns)
    BY <1>8, GeneratedColumns DEF IInv, TablesOK
  <2>2. \A k \in DOMAIN found : k \in DOMAIN billing /\ found[k] = billing[k]
    BY <1>6 DEF Select
  <2> QED  BY <2>1, <2>2 DEF Held
<1>10. ReadMonths(x, found, made)
  BY <1>1, <1>4, <1>5, <1>6, <1>7 DEF ReadRecords
<1>11. PICK u : /\ tx' = [ tx EXCEPT ![x] = u ] /\ UNCHANGED tables
                /\ Holding(u) /\ u.pc = "commit" /\ u.now.billing = made
                /\ u.now.deployments = t.now.deployments
                /\ u.now.availability = t.now.availability
  BY <1>1, <1>3, <1>9, <1>10, MonthsRead
<1>12. Generating(u)
  BY <1>4, <1>5, <1>8, <1>11 DEF Generating
<1> QED  BY <1>11, <1>12 DEF LeadsTo, Fresh, Planned

-----------------------------------------------------------------------------
(* Commits: each is the request of Delivery that was begun.                *)

\* A table into which one row, no row or rows of its own are put.
LEMMA PutRows ==
  ASSUME NEW table, table = [ k \in DOMAIN table |-> table[k] ]
  PROVE  /\ \A key, row : PutAll(table, Row(key, row)) = Put(table, key, row)
         /\ PutAll(table, EmptyTable) = table
         /\ \A keys : PutAll(table, Select(table, keys)) = table
<1>1. ASSUME NEW key, NEW row
      PROVE  PutAll(table, Row(key, row)) = Put(table, key, row)
  BY DEF PutAll, Row, Put
<1>2. PutAll(table, EmptyTable) = table
  BY DEF PutAll, EmptyTable
<1>3. ASSUME NEW keys
      PROVE  PutAll(table, Select(table, keys)) = table
  BY DEF PutAll, Select
<1> QED  BY <1>1, <1>2, <1>3

\* An UPDATE of one row.
LEMMA PutOver ==
  ASSUME NEW table, table = [ k \in DOMAIN table |-> table[k] ],
         NEW key \in DOMAIN table, NEW row
  PROVE  PutAll(table, Row(key, row)) = [ table EXCEPT ![key] = row ]
BY DEF PutAll, Row

\* A commit over fresh rows writes them as the request has made them.
LEMMA CommitWrites ==
  ASSUME IInv, NEW x \in Sessions, NEW t, t = tx[x], Holding(t), Commit(x)
  PROVE  /\ deployments' = PutAll(deployments, t.now.deployments)
         /\ billing' = PutAll(billing, t.now.billing)
         /\ availability' = PutAll(availability, t.now.availability)
         /\ tx' = [ tx EXCEPT ![x] = Idle ]
         /\ UNCHANGED << today, selected >>
         /\ TablesOK'
<1>1. /\ deployments' = flush(deployments, t.was.deployments, t.now.deployments)
      /\ billing' = flush(billing, t.was.billing, t.now.billing)
      /\ availability' = flush(availability, t.was.availability, t.now.availability)
      /\ tx' = [ tx EXCEPT ![x] = Idle ]
      /\ UNCHANGED << today, selected >>
  BY DEF Commit
<1>2. /\ deployments' = PutAll(deployments, t.now.deployments)
      /\ Stored(PutAll(deployments, t.now.deployments), DeploymentColumns)
  <2>1. /\ Stored(deployments, DeploymentColumns)
        /\ Held(deployments, DeploymentColumns, t.was.deployments, t.now.deployments)
    BY DEF IInv, TablesOK, Holding
  <2> QED  BY <1>1, <2>1, FlushPuts
<1>3. /\ billing' = PutAll(billing, t.now.billing)
      /\ Stored(PutAll(billing, t.now.billing), BillingColumns)
  <2>1. /\ Stored(billing, BillingColumns)
        /\ Held(billing, BillingColumns, t.was.billing, t.now.billing)
    BY DEF IInv, TablesOK, Holding
  <2> QED  BY <1>1, <2>1, FlushPuts
<1>4. /\ availability' = PutAll(availability, t.now.availability)
      /\ Stored(PutAll(availability, t.now.availability), AvailabilityColumns)
  <2>1. /\ Stored(availability, AvailabilityColumns)
        /\ Held(availability, AvailabilityColumns, t.was.availability, t.now.availability)
    BY DEF IInv, TablesOK, Holding
  <2> QED  BY <1>1, <2>1, FlushPuts
<1>5. \A d \in DOMAIN deployments' : deployments'[d].resource \in Resources
  <2>1. /\ \A d \in DOMAIN deployments : deployments[d].resource \in Resources
        /\ \A d \in DOMAIN t.now.deployments : t.now.deployments[d].resource \in Resources
    BY DEF IInv, TablesOK, Holding
  <2> QED  BY <1>2, <2>1 DEF PutAll
<1>6. DOMAIN availability' = Resources
  BY <1>4 DEF PutAll, IInv, TablesOK, Holding
<1>7. TablesOK'
  BY <1>2, <1>3, <1>4, <1>5, <1>6 DEF TablesOK, Stored, Has
<1> QED  BY <1>1, <1>2, <1>3, <1>4, <1>7

\* The rows a transaction holds are written and nothing else.
Writes(t) ==
  /\ deployments' = PutAll(deployments, t.now.deployments)
  /\ billing' = PutAll(billing, t.now.billing)
  /\ availability' = PutAll(availability, t.now.availability)
  /\ UNCHANGED << today, selected >>

\* Every table is a function of its keys.
LEMMA StoredRows ==
  ASSUME TablesOK
  PROVE  /\ deployments = [ d \in DOMAIN deployments |-> deployments[d] ]
         /\ billing = [ k \in DOMAIN billing |-> billing[k] ]
         /\ availability = [ c \in DOMAIN availability |-> availability[c] ]
         /\ DOMAIN availability = Resources
BY DEF TablesOK, Stored

\* A deployment and its consultant are written as Delivery writes them.
LEMMA SyncIsSynchronise ==
  ASSUME TablesOK, NEW t, Holding(t), Writes(t), NEW d, NEW row, Synced(t, d, row)
  PROVE  Alone!Synchronise(d, row)
<1>1. t.now.deployments = Row(d, row) /\ d \in DOMAIN t.now.deployments
  <2>1. t.now.deployments = Row(d, row)
    BY DEF Synced
  <2>2. d \in DOMAIN Row(d, row)
    BY OneRow
  <2> QED  BY <2>1, <2>2
<1>2. row.resource \in Resources
  <2>1. t.now.deployments[d] = row
    BY <1>1, OneRow
  <2> QED  BY <1>1, <2>1 DEF Holding
<1>3. deployments' = Alone!Put(deployments, d, row)
  BY <1>1, StoredRows, PutRows, SameTables DEF Writes
<1>4. availability' = [ availability EXCEPT ![row.resource]
                          = synced(availability[row.resource], row) ]
  <2>1. PICK c, new : c = row.resource /\ new = synced(availability[c], row)
    OBVIOUS
  <2>2. t.now.availability = Row(c, new)
    BY <2>1 DEF Synced
  <2>3. PutAll(availability, Row(c, new)) = [ availability EXCEPT ![c] = new ]
    <3>1. c \in DOMAIN availability
      BY <1>2, <2>1, StoredRows
    <3>2. availability = [ i \in DOMAIN availability |-> availability[i] ]
      BY StoredRows
    <3> QED  BY <3>1, <3>2, PutOver
  <2> QED  BY <2>1, <2>2, <2>3 DEF Writes
<1>5. synced(availability[row.resource], row) = Alone!synced(availability[row.resource], row)
  BY SameDeployments
<1> QED  BY <1>3, <1>4, <1>5 DEF Alone!Synchronise

\* A request that made no month writes none.
LEMMA NoMonthsWritten ==
  ASSUME TablesOK, NEW t, Writes(t), t.now.billing = EmptyTable
  PROVE  billing' = billing
BY StoredRows, PutRows DEF Writes

\* What each planned request commits is the request itself.
LEMMA CreateCommits ==
  ASSUME TablesOK, NEW t, Holding(t), Writes(t), Creating(t)
  PROVE  Alone!Next
<1>1. PICK d \in DeploymentIds, start \in StartInputs, end \in EndInputs,
           bill \in RateInputs, s \in SubmissionIds, cost \in CostInputs :
        /\ d \notin DOMAIN deployments /\ s \in selected /\ ~ deployed(s)
        /\ t.now.billing = EmptyTable
        /\ Synced(t, d, new_deployment(s, start, end, bill, cost))
  BY DEF Creating
<1>2. PICK row : row = new_deployment(s, start, end, bill, cost)
  OBVIOUS
<1>3. Alone!Synchronise(d, row)
  BY <1>1, <1>2, SyncIsSynchronise
<1>4. ~ Alone!deployed(s) /\ row = Alone!new_deployment(s, start, end, bill, cost)
  BY <1>1, <1>2, SameDeployments
<1>5. UNCHANGED << today, selected, billing >>
  BY <1>1, NoMonthsWritten DEF Writes
<1>6. Alone!CreateFromSubmission(d, s, start, end, bill, cost)
  BY <1>1, <1>3, <1>4, <1>5 DEF Alone!CreateFromSubmission
<1> QED  BY <1>6 DEF Alone!Next

\* An extension.
LEMMA ExtendCommits ==
  ASSUME TablesOK, NEW t, Holding(t), Writes(t), Extending(t)
  PROVE  Alone!Next
<1>1. PICK d \in DeploymentIds, start \in StartInputs, end \in EndInputs,
           bill \in RateInputs, e \in DeploymentIds, cost \in CostInputs \cup { NoAmount } :
        /\ d \in DOMAIN deployments /\ e \notin DOMAIN deployments
        /\ may_extend(deployments[d], start)
        /\ t.now.billing = EmptyTable
        /\ Synced(t, e, successor(deployments[d], start, end, bill, cost))
  BY DEF Extending
<1>2. PICK row : row = successor(deployments[d], start, end, bill, cost)
  OBVIOUS
<1>3. Alone!Synchronise(e, row)
  BY <1>1, <1>2, SyncIsSynchronise
<1>4. /\ Alone!may_extend(deployments[d], start)
      /\ row = Alone!successor(deployments[d], start, end, bill, cost)
  BY <1>1, <1>2, SameDeployments
<1>5. UNCHANGED << today, selected, billing >>
  BY <1>1, NoMonthsWritten DEF Writes
<1>6. Alone!ExtendDeployment(d, e, start, end, bill, cost)
  BY <1>1, <1>3, <1>4, <1>5 DEF Alone!ExtendDeployment
<1> QED  BY <1>6 DEF Alone!Next

\* The cancelled projections put over the months are the months of the end.
LEMMA CutMonths ==
  ASSUME TablesOK, NEW d, NEW date
  PROVE  PutAll(billing, cut(d, date))
           = [ k \in DOMAIN billing |->
                 IF k[1] = d /\ Alone!cancels(billing[k], k[2], date)
                 THEN [ billing[k] EXCEPT !.status = "CANCELLED" ] ELSE billing[k] ]
<1> DEFINE cancelled(k) == [ billing[k] EXCEPT !.status = "CANCELLED" ]
<1>1. DOMAIN PutAll(billing, cut(d, date)) = DOMAIN billing
  BY DEF PutAll, cut
<1>2. ASSUME NEW k \in DOMAIN billing
      PROVE  PutAll(billing, cut(d, date))[k]
               = IF k[1] = d /\ Alone!cancels(billing[k], k[2], date)
                 THEN cancelled(k) ELSE billing[k]
  <2>1. Alone!cancels(billing[k], k[2], date) <=> cancels(billing[k], k[2], date)
    BY SameMonths
  <2>2. cancels(billing[k], k[2], date) => billing[k].status = "PROJECTED"
    BY DEF cancels
  <2> HIDE DEF cancelled
  <2>3. CASE k[1] = d /\ billing[k].status = "PROJECTED"
    <3>1. k \in DOMAIN cut(d, date)
      BY <1>2, <2>3 DEF cut
    <3>2. cut(d, date)[k] = IF cancels(billing[k], k[2], date)
                            THEN cancelled(k) ELSE billing[k]
      BY <1>2, <2>3 DEF cut, cancelled
    <3>3. PutAll(billing, cut(d, date))[k] = cut(d, date)[k]
      BY <1>2, <3>1 DEF PutAll
    <3> QED  BY <2>1, <2>3, <3>2, <3>3
  <2>4. CASE ~ (k[1] = d /\ billing[k].status = "PROJECTED")
    <3>1. k \notin DOMAIN cut(d, date)
      BY <1>2, <2>4 DEF cut
    <3>2. PutAll(billing, cut(d, date))[k] = billing[k]
      BY <1>2, <3>1 DEF PutAll
    <3> QED  BY <2>1, <2>2, <2>4, <3>2
  <2> QED  BY <2>3, <2>4
<1>3. PutAll(billing, cut(d, date))
        = [ k \in DOMAIN billing |-> PutAll(billing, cut(d, date))[k] ]
  BY <1>1 DEF PutAll
<1> QED  BY <1>2, <1>3

\* An end, with the projections past it cancelled.
LEMMA EndCommits ==
  ASSUME TablesOK, NEW t, Holding(t), Writes(t), Ending(t), t.pc = "commit"
  PROVE  Alone!Next
<1>1. PICK d \in DeploymentIds, date \in Dates :
        /\ d \in DOMAIN deployments /\ may_end(deployments[d], date)
        /\ Synced(t, d, ended(deployments[d], date))
        /\ t.now.billing = cut(d, date)
  BY DEF Ending
<1>2. PICK row : row = ended(deployments[d], date)
  OBVIOUS
<1>3. Alone!Synchronise(d, row)
  BY <1>1, <1>2, SyncIsSynchronise
<1>4. Alone!may_end(deployments[d], date) /\ row = Alone!ended(deployments[d], date)
  BY <1>1, <1>2, SameDeployments
<1>5. billing' = PutAll(billing, cut(d, date)) /\ UNCHANGED << today, selected >>
  BY <1>1 DEF Writes
<1>6. Alone!EndDeployment(d, date)
  BY <1>1, <1>3, <1>4, <1>5, CutMonths DEF Alone!EndDeployment
<1> QED  BY <1>6 DEF Alone!Next

\* A PATCH.
LEMMA UpdateCommits ==
  ASSUME TablesOK, NEW t, Holding(t), Writes(t), Updating(t)
  PROVE  Alone!Next
<1>1. PICK d, row :
        /\ d \in DeploymentIds /\ d \in DOMAIN deployments /\ row \in edits(deployments[d])
        /\ t.now.billing = EmptyTable /\ t.now.availability = EmptyTable
        /\ t.now.deployments = Row(d, row)
  BY DEF Updating
<1>2. deployments' = Alone!Put(deployments, d, row)
  BY <1>1, StoredRows, PutRows, SameTables DEF Writes
<1>3. row \in Alone!edits(deployments[d])
  BY <1>1, SameDeployments
<1>4. UNCHANGED << today, selected, billing, availability >>
  BY <1>1, NoMonthsWritten, StoredRows, PutRows DEF Writes
<1>5. Alone!UpdateDeployment(d)
  BY <1>1, <1>2, <1>3, <1>4 DEF Alone!UpdateDeployment
<1> QED  BY <1>1, <1>5 DEF Alone!Next

\* A generation, of the rows and months that were read.
LEMMA GenerateCommits ==
  ASSUME TablesOK, NEW t, Holding(t), Writes(t), Generating(t), t.pc = "commit"
  PROVE  Alone!Next
<1>1. PICK ds :
        /\ Projects(ds)
        /\ t.now.deployments = Select(deployments, ds) /\ t.now.availability = EmptyTable
        /\ t.now.billing = generated(billing, Select(deployments, ds))
  BY DEF Generating
<1>2. billing' = Alone!PutAll(billing, Alone!generated(billing, Alone!Select(deployments, ds)))
  BY <1>1, SameTables, SameMonths DEF Writes
<1>3. UNCHANGED << today, selected, deployments, availability >>
  BY <1>1, StoredRows, PutRows DEF Writes
<1>4. Alone!GenerateProjections(ds)
  BY <1>2, <1>3 DEF Alone!GenerateProjections
<1>5. Alone!open_deployments = open_deployments
  BY DEF Alone!open_deployments, open_deployments
<1> QED  BY <1>1, <1>4, <1>5 DEF Alone!Next, Projects

\* A month entered, corrected or confirmed.
LEMMA ChargeCommits ==
  ASSUME TablesOK, NEW t, Holding(t), Writes(t), Charging(t)
  PROVE  Alone!Next
<1>0. PICK d \in DeploymentIds, date \in Dates, revenue \in AmountInputs,
           cost \in AmountInputs : \E k :
        /\ k = << d, period_of(date) >>
        /\ t.now.deployments = EmptyTable /\ t.now.availability = EmptyTable
        /\ \/ \E status \in BillingInputs :
                /\ d \in DOMAIN deployments /\ k \notin DOMAIN billing
                /\ revenue # NoAmount /\ cost # NoAmount
                /\ t.now.billing = Row(k, entered(revenue, cost, status))
           \/ \E status \in BillingInputs \cup { Unset } :
                /\ k \in DOMAIN billing
                /\ t.now.billing = Row(k, updated(billing[k], revenue, cost, status))
           \/ /\ k \in DOMAIN billing /\ billing[k].status # "CANCELLED"
              /\ t.now.billing = Row(k, confirmed(billing[k], revenue, cost))
  BY DEF Charging
<1>1. PICK k :
        /\ k = << d, period_of(date) >>
        /\ t.now.deployments = EmptyTable /\ t.now.availability = EmptyTable
        /\ \/ \E status \in BillingInputs :
                /\ d \in DOMAIN deployments /\ k \notin DOMAIN billing
                /\ revenue # NoAmount /\ cost # NoAmount
                /\ t.now.billing = Row(k, entered(revenue, cost, status))
           \/ \E status \in BillingInputs \cup { Unset } :
                /\ k \in DOMAIN billing
                /\ t.now.billing = Row(k, updated(billing[k], revenue, cost, status))
           \/ /\ k \in DOMAIN billing /\ billing[k].status # "CANCELLED"
              /\ t.now.billing = Row(k, confirmed(billing[k], revenue, cost))
  BY <1>0
<1>2. UNCHANGED << today, selected, deployments, availability >>
  BY <1>1, StoredRows, PutRows DEF Writes
<1>3. \A row : t.now.billing = Row(k, row) => billing' = Alone!Put(billing, k, row)
  BY StoredRows, PutRows, SameTables DEF Writes
<1>4. ASSUME NEW status \in BillingInputs,
             d \in DOMAIN deployments, k \notin DOMAIN billing,
             revenue # NoAmount, cost # NoAmount,
             t.now.billing = Row(k, entered(revenue, cost, status))
      PROVE  Alone!CreateRecord(k, revenue, cost, status)
  <2>1. billing' = Alone!Put(billing, k, entered(revenue, cost, status))
    BY <1>3, <1>4
  <2>2. entered(revenue, cost, status) = Alone!entered(revenue, cost, status)
    BY SameMonths
  <2>3. k[1] \in DOMAIN deployments
    BY <1>1, <1>4
  <2> QED  BY <1>2, <1>4, <2>1, <2>2, <2>3 DEF Alone!CreateRecord
<1>5. ASSUME NEW status \in BillingInputs \cup { Unset },
             k \in DOMAIN billing,
             t.now.billing = Row(k, updated(billing[k], revenue, cost, status))
      PROVE  Alone!UpdateRecord(k, revenue, cost, status)
  <2>1. billing' = Alone!Put(billing, k, updated(billing[k], revenue, cost, status))
    BY <1>3, <1>5
  <2>2. updated(billing[k], revenue, cost, status)
          = Alone!updated(billing[k], revenue, cost, status)
    BY SameMonths
  <2> QED  BY <1>2, <1>5, <2>1, <2>2 DEF Alone!UpdateRecord
<1>6. ASSUME k \in DOMAIN billing, billing[k].status # "CANCELLED",
             t.now.billing = Row(k, confirmed(billing[k], revenue, cost))
      PROVE  Alone!Confirm(k, revenue, cost)
  <2>1. billing' = Alone!Put(billing, k, confirmed(billing[k], revenue, cost))
    BY <1>3, <1>6
  <2>2. confirmed(billing[k], revenue, cost) = Alone!confirmed(billing[k], revenue, cost)
    BY SameMonths
  <2> QED  BY <1>2, <1>6, <2>1, <2>2 DEF Alone!Confirm
<1>7. k = << d, Alone!period_of(date) >> /\ Alone!Unset = Unset
  BY <1>1, SameCalendar, SameMonths
<1>8. \/ \E status \in BillingInputs : Alone!CreateRecord(k, revenue, cost, status)
      \/ \E status \in BillingInputs \cup { Alone!Unset } :
           Alone!UpdateRecord(k, revenue, cost, status)
      \/ Alone!Confirm(k, revenue, cost)
  BY <1>1, <1>4, <1>5, <1>6, <1>7
<1> QED  BY <1>7, <1>8 DEF Alone!Next

\* Whatever a session commits while it is alone is a request of Delivery.
LEMMA CommitIsRequest ==
  ASSUME IInv, NEW x \in Sessions, Fresh(tx[x]), Commit(x)
  PROVE  Alone!Next /\ TablesOK' /\ tx' = [ tx EXCEPT ![x] = Idle ]
<1>1. PICK t : t = tx[x]
  OBVIOUS
<1>2. t.pc = "commit"
  BY <1>1 DEF Commit
<1>3. Holding(t) /\ Planned(t)
  BY <1>1, <1>2 DEF Fresh, Idle, Transaction
<1>4. Writes(t) /\ TablesOK' /\ tx' = [ tx EXCEPT ![x] = Idle ]
  BY <1>1, <1>3, CommitWrites DEF Writes
<1>5. TablesOK
  BY DEF IInv
<1>6. Alone!Next
  BY <1>2, <1>3, <1>4, <1>5, CreateCommits, ExtendCommits, EndCommits, UpdateCommits,
     GenerateCommits, ChargeCommits DEF Planned
<1> QED  BY <1>4, <1>6

\* The steps of SpecUndisturbed.
Undisturbed == \/ Request
               \/ Elsewhere /\ \A x \in Sessions : tx[x] = Idle

\* The tables are tables, and what the session at work knows is never stale.
OnlyFresh(x) == IInv /\ \E u : u = tx[x] /\ Fresh(u)

\* It begins with no rows, and what is not written stays.
LEMMA EmptyTablesAreOK ==
  no_rows => TablesOK
<1> SUFFICES ASSUME no_rows PROVE TablesOK
  OBVIOUS
<1>1. /\ Stored(deployments, DeploymentColumns) /\ Stored(billing, BillingColumns)
      /\ DOMAIN deployments = {}
  BY NoRows DEF no_rows
<1>2. Stored(availability, AvailabilityColumns) /\ DOMAIN availability = Resources
  BY DEF no_rows, Stored, Has, AvailabilityColumns
<1> QED  BY <1>1, <1>2 DEF TablesOK

LEMMA TablesStayOK ==
  ASSUME TablesOK, UNCHANGED << deployments, billing, availability >>
  PROVE  TablesOK'
BY DEF TablesOK, Stored, Has

\* Reading, the session knows what is stored and nothing is written; committing
\* or giving up, it forgets all.
LEMMA OnlySessionSteps ==
  ASSUME NEW x, Sessions = { x }, OnlyFresh(x), [Undisturbed]_vars
  PROVE  OnlyFresh(x)' /\ [Alone!Next]_(Alone!tables)
<1>1. PICK now : now = tx[x] /\ Fresh(now)
  BY DEF OnlyFresh
<1>2. Fresh(tx[x]) /\ IInv /\ x \in Sessions /\ x \in DOMAIN tx
  BY <1>1 DEF OnlyFresh, IInv
<1>3. ASSUME UNCHANGED tables PROVE UNCHANGED Alone!tables
  BY <1>3 DEF tables, Alone!tables
<1>4. ASSUME TablesOK', NEW u, tx' = [ tx EXCEPT ![x] = u ], Fresh(u)'
      PROVE  OnlyFresh(x)'
  <2>1. tx'[x] = u /\ DOMAIN tx' = Sessions
    BY <1>2, <1>4 DEF IInv
  <2>2. IInv'
    BY <1>4, <2>1 DEF IInv
  <2> QED  BY <1>4, <2>1, <2>2 DEF OnlyFresh
<1>5. Fresh(Idle)'
  BY DEF Fresh
<1>6. ASSUME UNCHANGED tables PROVE TablesOK'
  BY <1>2, <1>6, TablesStayOK DEF IInv, tables
<1>7. ASSUME NEW u, LeadsTo(x, u)
      PROVE  OnlyFresh(x)' /\ UNCHANGED Alone!tables
  <2>1. /\ tx' = [ tx EXCEPT ![x] = u ] /\ Fresh(u) /\ UNCHANGED tables
    BY <1>7 DEF LeadsTo
  <2>2. Fresh(u)'
    BY <2>1, StillFresh
  <2> QED  BY <1>3, <1>4, <1>6, <2>1, <2>2
<1>8. CASE Rollback(x)
  <2>1. tx' = [ tx EXCEPT ![x] = Idle ] /\ UNCHANGED tables
    BY <1>8 DEF Rollback
  <2> QED  BY <1>3, <1>4, <1>5, <1>6, <2>1
<1>9. CASE Commit(x)
  <2>1. Alone!Next /\ TablesOK' /\ tx' = [ tx EXCEPT ![x] = Idle ]
    BY <1>2, <1>9, CommitIsRequest
  <2> QED  BY <1>4, <1>5, <2>1
<1>10. CASE Elsewhere /\ tx[x] = Idle
  <2>1. /\ tx' = tx /\ UNCHANGED << deployments, billing, availability >>
    BY <1>10 DEF Elsewhere, Tick, Reconsider
  <2>2. OnlyFresh(x)'
    <3>1. TablesOK'
      BY <1>2, <2>1, TablesStayOK DEF IInv
    <3>2. IInv'
      BY <1>2, <2>1, <3>1 DEF IInv
    <3>3. tx'[x] = Idle
      BY <1>10, <2>1
    <3> QED  BY <1>5, <3>2, <3>3 DEF OnlyFresh
  <2>3. Alone!Next
    BY <1>10 DEF Elsewhere, Tick, Reconsider, Alone!Tick, Alone!Reconsider, Alone!Next
  <2> QED  BY <2>2, <2>3
<1>11. CASE UNCHANGED vars
  <2>1. UNCHANGED tables /\ tx' = tx
    BY <1>11 DEF vars, tables
  <2>2. TablesOK' /\ Fresh(now)'
    BY <1>1, <1>6, <2>1, StillFresh
  <2>3. IInv' /\ now = tx'[x]
    BY <1>1, <1>2, <2>1, <2>2 DEF IInv
  <2> QED  BY <1>3, <2>1, <2>2, <2>3 DEF OnlyFresh
<1>12. ASSUME Request
       PROVE  Start(x) \/ ReadProjections(x) \/ ReadRecords(x) \/ Commit(x) \/ Rollback(x)
  BY <1>12 DEF Request
<1>13. ASSUME Start(x) \/ ReadProjections(x) \/ ReadRecords(x)
       PROVE  \E u : LeadsTo(x, u)
  BY <1>2, <1>13, StartBegins, ProjectionsRead, RecordsRead
<1>14. ASSUME Elsewhere, \A y \in Sessions : tx[y] = Idle
       PROVE  Elsewhere /\ tx[x] = Idle
  BY <1>2, <1>14
<1> QED
  BY <1>7, <1>8, <1>9, <1>10, <1>11, <1>12, <1>13, <1>14 DEF Undisturbed

\* While a single session is at work, what a request of app/services/delivery.py
\* loads, computes, flushes and commits is the one step that Delivery makes of
\* it: what is proved of Delivery holds of the code as long as requests do not
\* overlap and no day passes in the middle of one.
THEOREM OneDeliverySessionIsAtomic ==
  ASSUME NEW x, Sessions = { x }
  PROVE  SpecUndisturbed => RequestsAreAtomic
<1>1. Init => OnlyFresh(x) /\ Alone!Init
  <2> SUFFICES ASSUME Init PROVE OnlyFresh(x) /\ Alone!Init
    OBVIOUS
  <2>1. IInv /\ tx[x] = Idle
    BY EmptyTablesAreOK DEF Init, IInv
  <2>2. OnlyFresh(x)
    BY <2>1 DEF OnlyFresh, Fresh
  <2>3. Alone!Init
    BY SameTables, SameCalendar DEF Init, no_rows, Alone!Init, Alone!no_rows
  <2> QED  BY <2>2, <2>3
<1>2. OnlyFresh(x) /\ [Undisturbed]_vars => OnlyFresh(x)' /\ [Alone!Next]_(Alone!tables)
  BY OnlySessionSteps
<1>3. SpecUndisturbed => Init /\ [][Undisturbed]_vars
  BY DEF SpecUndisturbed, Undisturbed
<1> QED
  BY <1>1, <1>2, <1>3, PTL DEF RequestsAreAtomic, Alone!Spec
=============================================================================
