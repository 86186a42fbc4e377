--------------------------- MODULE DeliveryProofs ---------------------------
(***************************************************************************)
(* What is proved of Delivery: the tables keep their types, the amounts of *)
(* every month reconcile, what counts as revenue is signed, generating     *)
(* projections twice is generating them once, and no projection survives   *)
(* the end of its deployment.                                              *)
(***************************************************************************)
EXTENDS Delivery, PeriodsProofs

\* A billing record as every request leaves it.
GoodRecord(record) ==
  /\ record \in BillingRow
  /\ record.profit = record.revenue - record.cost
  /\ record.status \in REALISED_BILLING_STATUSES =>
       record.signed /\ ~ record.estimated

\* A deployment as every request leaves it; its start is one that was asked
\* for, so that the calendar reaches to its horizon.
GoodDeployment(row) == row \in DeploymentRow /\ row.start \in StartInputs

IInv ==
  /\ today \in Dates
  /\ selected \subseteq SubmissionIds
  /\ IsTable(deployments, DeploymentIds, DeploymentRow)
  /\ \A d \in DOMAIN deployments : GoodDeployment(deployments[d])
  /\ IsTable(billing, DeploymentIds \X Period, BillingRow)
  /\ \A k \in DOMAIN billing : GoodRecord(billing[k]) /\ k[1] \in DOMAIN deployments
  /\ availability \in [ Resources -> AvailabilityRow ]

-----------------------------------------------------------------------------
(* What the requests write.                                                *)

\* The end of a deployment is a date or none.
LEMMA EffectiveEnd ==
  ASSUME NEW row \in DeploymentRow
  PROVE  effective_end(row) \in Date \cup { NoDate }
  BY DEF DeploymentRow, DateColumn, effective_end

\* What a consultant's row is left as has its type.
LEMMA SyncedIsARow ==
  ASSUME NEW old \in AvailabilityRow, NEW row \in DeploymentRow
  PROVE  synced(old, row) \in AvailabilityRow
<1>1. effective_end(row) \in DateColumn
  BY EffectiveEnd DEF DateColumn
<1>2. row.status \in DeploymentStatus
  BY DEF DeploymentRow
<1> DEFINE finish == effective_end(row)
           A(s) == [ status |-> s, from |-> finish ]
<1>3. /\ A("DEPLOYED") \in AvailabilityRow
      /\ A("AVAILABLE") \in AvailabilityRow
      /\ A("AVAILABLE_SOON") \in AvailabilityRow
  BY <1>1 DEF AvailabilityRow
<1>4. CASE row.status = "ACTIVE"
  BY <1>3, <1>4 DEF synced
<1>5. CASE row.status = "PENDING_START"
  BY <1>3, <1>5 DEF synced
<1>6. CASE row.status = "ENDED"
  BY <1>3, <1>6 DEF synced
<1>7. CASE row.status = "ON_HOLD"
  BY <1>7 DEF synced
<1>8. QED
  BY <1>2, <1>4, <1>5, <1>6, <1>7 DEF DeploymentStatus

\* The rows that POST /deployments, /end and /extend write.
LEMMA NewDeployment ==
  ASSUME NEW s \in SubmissionIds, NEW start \in StartInputs, NEW end \in EndInputs,
         NEW bill \in RateInputs, NEW cost \in CostInputs
  PROVE  GoodDeployment(new_deployment(s, start, end, bill, cost))
<1>1. candidate[s] \in Resources
  BY DeliveryInputs
<1>2. status_on(start) \in DeploymentStatus
  BY DEF status_on, DeploymentStatus
<1>3. /\ start \in Date /\ end \in Date \cup { NoDate }
      /\ bill \in Nat \cup { NoAmount } /\ cost \in Nat
  BY DeliveryInputs
<1>4. QED
  BY <1>1, <1>2, <1>3 DEF GoodDeployment, DeploymentRow, DateColumn, new_deployment

LEMMA EndedDeployment ==
  ASSUME NEW row, GoodDeployment(row), NEW date \in Dates
  PROVE  /\ GoodDeployment(ended(row, date))
         /\ ended(row, date).actual = date
<1>1. date \in Date
  BY DeliveryInputs
<1>2. QED
  BY <1>1 DEF GoodDeployment, DeploymentRow, DateColumn, DeploymentStatus, ended

LEMMA SuccessorDeployment ==
  ASSUME NEW row, GoodDeployment(row),
         NEW start \in StartInputs, NEW end \in EndInputs,
         NEW bill \in RateInputs, NEW cost \in CostInputs \cup { NoAmount }
  PROVE  GoodDeployment(successor(row, start, end, bill, cost))
<1>1. status_on(start) \in DeploymentStatus
  BY DEF status_on, DeploymentStatus
<1>2. /\ start \in Date /\ end \in Date \cup { NoDate }
      /\ bill \in Nat \cup { NoAmount }
      /\ cost \in Nat \/ cost = NoAmount
  BY DeliveryInputs
<1>3. /\ given(bill, row.bill) \in Nat \cup { NoAmount }
      /\ given(cost, row.cost) \in Nat
  BY <1>2 DEF given, GoodDeployment, DeploymentRow
<1>4. successor(row, start, end, bill, cost) =
        [ resource |-> row.resource, submission |-> NoSubmission,
          start |-> start, end |-> end, actual |-> NoDate,
          status |-> status_on(start),
          bill |-> given(bill, row.bill), cost |-> given(cost, row.cost) ]
  <2> DEFINE status == status_on(start)
             newbill == given(bill, row.bill)
             newcost == given(cost, row.cost)
  <2>1. PICK r, s, a, e, x, t, b, c :
          row = [ resource |-> r, submission |-> s, start |-> a, end |-> e,
                  actual |-> x, status |-> t, bill |-> b, cost |-> c ]
    BY DEF GoodDeployment, DeploymentRow
  <2>2. successor(row, start, end, bill, cost) =
          [ row EXCEPT !.submission = NoSubmission, !.start = start, !.end = end,
                       !.actual = NoDate, !.status = status,
                       !.bill = newbill, !.cost = newcost ]
    BY DEF successor
  <2> HIDE DEF status, newbill, newcost
  <2>3. successor(row, start, end, bill, cost) =
          [ resource |-> r, submission |-> NoSubmission,
            start |-> start, end |-> end, actual |-> NoDate,
            status |-> status, bill |-> newbill, cost |-> newcost ]
    BY <2>1, <2>2
  <2>4. row.resource = r
    BY <2>1
  <2>5. QED
    BY <2>3, <2>4 DEF status, newbill, newcost
<1>5. row.resource \in Resources
  BY DEF GoodDeployment, DeploymentRow
<1>6. QED
  BY <1>1, <1>2, <1>3, <1>4, <1>5 DEF GoodDeployment, DeploymentRow, DateColumn

LEMMA EditedDeployment ==
  ASSUME NEW row, GoodDeployment(row), NEW edited \in edits(row)
  PROVE  GoodDeployment(edited) /\ edited.actual = row.actual
<1>1. /\ EndInputs \subseteq Date \cup { NoDate }
      /\ RateInputs \subseteq Nat \cup { NoAmount }
      /\ CostInputs \subseteq Nat
      /\ StatusInputs \subseteq DeploymentStatus
  BY DeliveryInputs
<1>2. QED
  BY <1>1 DEF edits, GoodDeployment, DeploymentRow, DateColumn

\* A record typed by hand.
LEMMA EnteredIsGood ==
  ASSUME NEW revenue \in Nat, NEW cost \in Nat, NEW status \in BillingInputs
  PROVE  GoodRecord(entered(revenue, cost, status))
<1> DEFINE realised == status \in REALISED_BILLING_STATUSES
           profit == revenue - cost
<1>1. status \in BillingStatus
  BY DeliveryInputs
<1>2. profit \in Int /\ realised \in BOOLEAN
  OBVIOUS
<1>3. entered(revenue, cost, status) =
        [ status |-> status, revenue |-> revenue, cost |-> cost, profit |-> profit,
          estimated |-> FALSE, signed |-> realised ]
  BY DEF entered
<1>4. profit = revenue - cost /\ (status \in REALISED_BILLING_STATUSES => realised)
  OBVIOUS
<1> HIDE DEF realised, profit
<1>5. QED
  BY <1>1, <1>2, <1>3, <1>4 DEF GoodRecord, BillingRow

\* A correction of the amounts leaves the rest, and the profit agrees with them.
LEMMA CorrectedRecord ==
  ASSUME NEW r, GoodRecord(r), NEW revenue \in AmountInputs, NEW cost \in AmountInputs
  PROVE  \E v, c \in Int :
           corrected(r, revenue, cost) =
             [ status |-> r.status, revenue |-> v, cost |-> c, profit |-> v - c,
               estimated |-> r.estimated, signed |-> r.signed ]
<1>1. PICK s, v, c, p, e, g :
        r = [ status |-> s, revenue |-> v, cost |-> c, profit |-> p,
              estimated |-> e, signed |-> g ]
  BY DEF GoodRecord, BillingRow
<1> DEFINE newv == given(revenue, r.revenue)
           newc == given(cost, r.cost)
<1>2. newv \in Int /\ newc \in Int
  <2>1. r.revenue \in Int /\ r.cost \in Int
    BY DEF GoodRecord, BillingRow
  <2>2. QED
    BY <2>1, DeliveryInputs DEF given
<1>3. corrected(r, revenue, cost) =
        [ r EXCEPT !.revenue = newv, !.cost = newc, !.profit = newv - newc ]
  BY DEF corrected
<1> HIDE DEF newv, newc
<1>4. corrected(r, revenue, cost) =
        [ status |-> s, revenue |-> newv, cost |-> newc, profit |-> newv - newc,
          estimated |-> e, signed |-> g ]
  BY <1>1, <1>3
<1>5. r.status = s /\ r.estimated = e /\ r.signed = g
  BY <1>1
<1>6. QED
  BY <1>2, <1>4, <1>5

\* Updating a record keeps it good; its status is the one given, or its own.
LEMMA UpdatedIsGood ==
  ASSUME NEW r, GoodRecord(r), NEW revenue \in AmountInputs, NEW cost \in AmountInputs,
         NEW status \in BillingInputs \cup { Unset }
  PROVE  /\ GoodRecord(updated(r, revenue, cost, status))
         /\ updated(r, revenue, cost, status).status = IF status = Unset THEN r.status ELSE status
<1>1. PICK v, c \in Int :
        corrected(r, revenue, cost) =
          [ status |-> r.status, revenue |-> v, cost |-> c, profit |-> v - c,
            estimated |-> r.estimated, signed |-> r.signed ]
  BY CorrectedRecord
<1> DEFINE realises == status \in REALISED_BILLING_STATUSES
           news == IF status = Unset THEN r.status ELSE status
           newg == r.signed \/ realises
           newe == r.estimated /\ ~ realises
<1>2. updated(r, revenue, cost, status) =
        [ status |-> news, revenue |-> v, cost |-> c, profit |-> v - c,
          estimated |-> newe, signed |-> newg ]
  <2>1. updated(r, revenue, cost, status) =
          [ corrected(r, revenue, cost) EXCEPT
              !.status    = IF status = Unset THEN corrected(r, revenue, cost).status ELSE status,
              !.signed    = corrected(r, revenue, cost).signed \/ realises,
              !.estimated = corrected(r, revenue, cost).estimated /\ ~ realises ]
    BY DEF updated
  <2>2. /\ corrected(r, revenue, cost).status = r.status
        /\ corrected(r, revenue, cost).signed = r.signed
        /\ corrected(r, revenue, cost).estimated = r.estimated
    BY <1>1
  <2>3. PICK old, new :
          /\ old = corrected(r, revenue, cost)
          /\ new = updated(r, revenue, cost, status)
          /\ new = [ old EXCEPT !.status = news, !.signed = newg, !.estimated = newe ]
    BY <2>1, <2>2, Zenon
  <2> DEFINE s == r.status
             e == r.estimated
             g == r.signed
             p == v - c
  <2>4. old =
          [ status |-> s, revenue |-> v, cost |-> c, profit |-> p,
            estimated |-> e, signed |-> g ]
    BY <1>1, <2>3
  <2> HIDE DEF news, newg, newe, s, e, g, p
  <2>5. new = [ old EXCEPT !.status = news, !.signed = newg, !.estimated = newe ]
    BY <2>3
  <2>6. new =
          [ status |-> news, revenue |-> v, cost |-> c, profit |-> p,
            estimated |-> newe, signed |-> newg ]
    BY <2>4, <2>5
  <2>7. QED
    BY <2>3, <2>6 DEF p
<1>3. news \in BillingStatus
  <2>1. BillingInputs \subseteq BillingStatus /\ r.status \in BillingStatus
    BY DeliveryInputs DEF GoodRecord, BillingRow
  <2>2. QED
    BY <2>1
<1>4. newe \in BOOLEAN /\ newg \in BOOLEAN
  OBVIOUS
<1>5. news \in REALISED_BILLING_STATUSES => newg /\ ~ newe
  <2>1. CASE realises
    BY <2>1
  <2>2. CASE ~ realises
    <3>1. news \in REALISED_BILLING_STATUSES => news = r.status
      BY <2>2
    <3>2. QED
      BY <3>1 DEF GoodRecord
  <2>3. QED
    BY <2>1, <2>2
<1> HIDE DEF news, newe, newg
<1>6. v - c \in Int
  OBVIOUS
<1>7. GoodRecord(updated(r, revenue, cost, status))
  BY <1>2, <1>3, <1>4, <1>5, <1>6 DEF GoodRecord, BillingRow
<1>8. updated(r, revenue, cost, status).status = news
  BY <1>2
<1>9. QED
  BY <1>7, <1>8 DEF news

\* So does confirming it.
LEMMA ConfirmedIsGood ==
  ASSUME NEW r, GoodRecord(r), NEW revenue \in AmountInputs, NEW cost \in AmountInputs
  PROVE  /\ GoodRecord(confirmed(r, revenue, cost))
         /\ confirmed(r, revenue, cost).status = "CONFIRMED"
<1>1. PICK v, c \in Int :
        corrected(r, revenue, cost) =
          [ status |-> r.status, revenue |-> v, cost |-> c, profit |-> v - c,
            estimated |-> r.estimated, signed |-> r.signed ]
  BY CorrectedRecord
<1>2. confirmed(r, revenue, cost) =
        [ status |-> "CONFIRMED", revenue |-> v, cost |-> c, profit |-> v - c,
          estimated |-> FALSE, signed |-> TRUE ]
  <2> DEFINE s == r.status
             e == r.estimated
             g == r.signed
             p == v - c
  <2>1. PICK old, new :
          /\ old = corrected(r, revenue, cost)
          /\ new = confirmed(r, revenue, cost)
          /\ new = [ old EXCEPT !.status = "CONFIRMED", !.signed = TRUE, !.estimated = FALSE ]
    BY Zenon DEF confirmed
  <2>2. old =
          [ status |-> s, revenue |-> v, cost |-> c, profit |-> p,
            estimated |-> e, signed |-> g ]
    BY <1>1, <2>1
  <2> HIDE DEF s, e, g, p
  <2>3. new = [ old EXCEPT !.status = "CONFIRMED", !.signed = TRUE, !.estimated = FALSE ]
    BY <2>1
  <2>4. new =
          [ status |-> "CONFIRMED", revenue |-> v, cost |-> c, profit |-> p,
            estimated |-> FALSE, signed |-> TRUE ]
    BY <2>2, <2>3
  <2>5. QED
    BY <2>1, <2>4 DEF p
<1>3. v - c \in Int
  OBVIOUS
<1>4. QED
  BY <1>2, <1>3 DEF GoodRecord, BillingRow, BillingStatus

\* And cancelling a projection.
LEMMA CancelledIsGood ==
  ASSUME NEW r, GoodRecord(r)
  PROVE  /\ GoodRecord([ r EXCEPT !.status = "CANCELLED" ])
         /\ [ r EXCEPT !.status = "CANCELLED" ].status = "CANCELLED"
<1>1. PICK s, v, c, p, e, g :
        r = [ status |-> s, revenue |-> v, cost |-> c, profit |-> p,
              estimated |-> e, signed |-> g ]
  BY DEF GoodRecord, BillingRow
<1>2. [ r EXCEPT !.status = "CANCELLED" ] =
        [ status |-> "CANCELLED", revenue |-> v, cost |-> c, profit |-> p,
          estimated |-> e, signed |-> g ]
  BY <1>1
<1>3. v \in Int /\ c \in Int /\ p \in Int /\ e \in BOOLEAN /\ g \in BOOLEAN /\ p = v - c
  BY <1>1 DEF GoodRecord, BillingRow
<1>4. QED
  BY <1>2, <1>3 DEF GoodRecord, BillingRow, BillingStatus, REALISED_BILLING_STATUSES

-----------------------------------------------------------------------------
(* Projections.                                                            *)

\* A deployment is projected over months of the calendar, and when it has an
\* end none of them begins after it.
LEMMA ProjectionPeriods ==
  ASSUME NEW row, GoodDeployment(row), NEW p \in projection_periods(row)
  PROVE  /\ p \in Period
         /\ effective_end(row) # NoDate => first_day(p) <= effective_end(row)
<1> DEFINE end == IF effective_end(row) # NoDate THEN effective_end(row)
                  ELSE row.start + Horizon
           months == periods_between(row.start, end)
<1>1. row.start \in Date /\ effective_end(row) \in Date \cup { NoDate }
  BY EffectiveEnd DEF GoodDeployment, DeploymentRow
<1>2. row.start + Horizon \in Date
  BY DeliveryInputs DEF GoodDeployment
<1>3. end \in Date
  BY <1>1, <1>2
<1>4. \E i \in DOMAIN months : p = months[i]
  <2>1. projection_periods(row) = { months[i] : i \in DOMAIN months }
    BY DEF projection_periods
  <2> HIDE DEF months
  <2>2. QED
    BY <2>1
<1> HIDE DEF end
<1>5. p \in Period /\ first_day(p) <= end
  BY <1>1, <1>3, <1>4, MonthsAreWithin
<1>6. QED
  BY <1>5 DEF end

\* What a projection amounts to.
LEMMA ProjectionAmounts ==
  ASSUME NEW row, GoodDeployment(row), row.bill # NoAmount,
         NEW p \in Period
  PROVE  /\ projection(row, p).revenue \in Int
         /\ projection(row, p).cost \in Int
         /\ projection(row, p).profit \in Int
         /\ projection(row, p).profit = projection(row, p).revenue - projection(row, p).cost
<1> DEFINE cover == coverage(p, row.start, effective_end(row))
<1>1. row.start \in Date /\ effective_end(row) \in Date \cup { NoDate }
  BY EffectiveEnd DEF GoodDeployment, DeploymentRow
<1>2. cover.days \in Nat /\ cover.full \in Nat \ { 0 }
  BY <1>1, CoverageCounts
<1>3. row.bill \in Int /\ row.cost \in Int
  BY DEF GoodDeployment, DeploymentRow
<1>4. projection(row, p) = amounts_for(cover, row.bill, row.cost)
  BY DEF projection
<1> HIDE DEF cover
<1>5. QED
  BY <1>2, <1>3, <1>4, AmountsAreWhole

\* A new projection, and a month that is refreshed, are good records; only the
\* generator's own months read as projected.
LEMMA ProjectedIsGood ==
  ASSUME NEW amounts, amounts.revenue \in Int, amounts.cost \in Int,
         amounts.profit \in Int, amounts.profit = amounts.revenue - amounts.cost
  PROVE  /\ GoodRecord(projected(amounts))
         /\ \A r : GoodRecord(r) => GoodRecord(refreshed(r, amounts))
<1> DEFINE v == amounts.revenue
           c == amounts.cost
           p == amounts.profit
<1>1. projected(amounts) =
        [ status |-> "PROJECTED", revenue |-> v, cost |-> c, profit |-> p,
          estimated |-> TRUE, signed |-> FALSE ]
  BY DEF projected
<1>2. v \in Int /\ c \in Int /\ p \in Int /\ p = v - c
  OBVIOUS
<1> HIDE DEF v, c, p
<1>3. GoodRecord(projected(amounts))
  BY <1>1, <1>2 DEF GoodRecord, BillingRow, BillingStatus, REALISED_BILLING_STATUSES
<1>4. ASSUME NEW r, GoodRecord(r)
      PROVE  GoodRecord(refreshed(r, amounts))
  <2>1. CASE r.status \in REALISED_BILLING_STATUSES
    BY <1>4, <2>1 DEF refreshed
  <2>2. CASE r.status \notin REALISED_BILLING_STATUSES
    <3> DEFINE g == r.signed
    <3>1. g \in BOOLEAN
      BY <1>4 DEF GoodRecord, BillingRow
    <3>2. PICK old, new :
            /\ old = projected(amounts)
            /\ new = refreshed(r, amounts)
            /\ new = [ old EXCEPT !.signed = g ]
      BY <2>2, Zenon DEF refreshed
    <3> HIDE DEF g
    <3>3. old = [ status |-> "PROJECTED", revenue |-> v, cost |-> c, profit |-> p,
                  estimated |-> TRUE, signed |-> FALSE ]
      BY <1>1, <3>2
    <3>4. new = [ old EXCEPT !.signed = g ]
      BY <3>2
    <3>5. new = [ status |-> "PROJECTED", revenue |-> v, cost |-> c, profit |-> p,
                  estimated |-> TRUE, signed |-> g ]
      BY <3>3, <3>4
    <3>6. GoodRecord(new)
      BY <1>2, <3>1, <3>5 DEF GoodRecord, BillingRow, BillingStatus, REALISED_BILLING_STATUSES
    <3>7. QED
      BY <3>2, <3>6
  <2>3. QED
    BY <2>1, <2>2
<1>5. QED
  BY <1>3, <1>4

\* What the generator makes of deployments that have a rate: good records of
\* months of the calendar, none past the end of its deployment.
LEMMA GeneratedIsGood ==
  ASSUME NEW table, IsTable(table, DeploymentIds \X Period, BillingRow),
         \A k \in DOMAIN table : GoodRecord(table[k]),
         NEW rows, DOMAIN rows \subseteq DeploymentIds,
         \A d \in DOMAIN rows : GoodDeployment(rows[d]) /\ rows[d].bill # NoAmount
  PROVE  /\ IsTable(generated(table, rows), DeploymentIds \X Period, BillingRow)
         /\ \A k \in DOMAIN generated(table, rows) :
              /\ GoodRecord(generated(table, rows)[k])
              /\ k[1] \in DOMAIN rows /\ k[2] \in projection_periods(rows[k[1]])
<1> DEFINE Keys == UNION { { d } \X projection_periods(rows[d]) : d \in DOMAIN rows }
           made == generated(table, rows)
<1>1. ASSUME NEW k \in Keys
      PROVE  /\ k = << k[1], k[2] >>
             /\ k[1] \in DOMAIN rows /\ k[2] \in projection_periods(rows[k[1]])
             /\ k \in DeploymentIds \X Period
  <2>1. PICK d \in DOMAIN rows : k \in { d } \X projection_periods(rows[d])
    OBVIOUS
  <2>2. k = << k[1], k[2] >> /\ k[1] = d /\ k[2] \in projection_periods(rows[d])
    BY <2>1
  <2>3. k[2] \in Period
    BY <2>2, ProjectionPeriods
  <2>4. QED
    BY <2>2, <2>3
<1>2. /\ made = [ k \in DOMAIN made |-> made[k] ]
      /\ DOMAIN made = Keys
      /\ \A k \in Keys :
           made[k] = LET amounts == projection(rows[k[1]], k[2]) IN
                     IF k \in DOMAIN table
                     THEN refreshed(table[k], amounts) ELSE projected(amounts)
  BY DEF generated
<1> HIDE DEF Keys, made
<1>3. ASSUME NEW k \in Keys
      PROVE  GoodRecord(made[k])
  <2> DEFINE amounts == projection(rows[k[1]], k[2])
  <2>1. /\ amounts.revenue \in Int /\ amounts.cost \in Int
        /\ amounts.profit \in Int /\ amounts.profit = amounts.revenue - amounts.cost
    <3>1. k[1] \in DOMAIN rows /\ k[2] \in Period
      BY <1>1
    <3>2. QED
      BY <3>1, ProjectionAmounts
  <2>2. made[k] = IF k \in DOMAIN table
                  THEN refreshed(table[k], amounts) ELSE projected(amounts)
    BY <1>2
  <2> HIDE DEF amounts
  <2>3. /\ GoodRecord(projected(amounts))
        /\ \A r : GoodRecord(r) => GoodRecord(refreshed(r, amounts))
    BY <2>1, ProjectedIsGood
  <2>4. CASE k \in DOMAIN table
    BY <2>2, <2>3, <2>4
  <2>5. CASE k \notin DOMAIN table
    BY <2>2, <2>3, <2>5
  <2>6. QED
    BY <2>4, <2>5
<1>4. \A k \in Keys : made[k] \in BillingRow
  BY <1>3 DEF GoodRecord
<1>5. IsTable(made, DeploymentIds \X Period, BillingRow)
  BY <1>1, <1>2, <1>4 DEF IsTable
<1>6. QED
  BY <1>1, <1>2, <1>3, <1>5 DEF made

\* Generating again makes the same of every month: a realised one is left
\* alone, and the others are made of the deployment, not of what was there.
LEMMA GeneratingAgain ==
  ASSUME NEW table, NEW rows
  PROVE  generated(PutAll(table, generated(table, rows)), rows) = generated(table, rows)
<1> DEFINE Keys == UNION { { d } \X projection_periods(rows[d]) : d \in DOMAIN rows }
           Amounts(k) == projection(rows[k[1]], k[2])
           once == generated(table, rows)
           both == PutAll(table, once)
           twice == generated(both, rows)
<1>1. once = [ k \in Keys |-> IF k \in DOMAIN table
                               THEN refreshed(table[k], Amounts(k)) ELSE projected(Amounts(k)) ]
  BY DEF generated
<1>2. twice = [ k \in Keys |-> IF k \in DOMAIN both
                                THEN refreshed(both[k], Amounts(k)) ELSE projected(Amounts(k)) ]
  BY DEF generated
<1>3. \A k \in Keys : k \in DOMAIN both /\ both[k] = once[k]
  <2> HIDE DEF Keys, Amounts
  <2>1. DOMAIN once = Keys
    BY <1>1
  <2> HIDE DEF once
  <2>2. QED
    BY <2>1 DEF PutAll
<1>4. ASSUME NEW a
      PROVE  /\ refreshed(projected(a), a) = projected(a)
             /\ \A r : refreshed(refreshed(r, a), a) = refreshed(r, a)
  <2>1. /\ projected(a).status = "PROJECTED" /\ projected(a).signed = FALSE
        /\ "PROJECTED" \notin REALISED_BILLING_STATUSES
    BY DEF projected, REALISED_BILLING_STATUSES
  <2>2. \A r : r.status \notin REALISED_BILLING_STATUSES =>
          refreshed(r, a) = [ projected(a) EXCEPT !.signed = r.signed ]
    BY Zenon DEF refreshed
  <2>3. \A r : r.status \in REALISED_BILLING_STATUSES => refreshed(r, a) = r
    BY Zenon DEF refreshed
  <2>4. refreshed(projected(a), a) = projected(a)
    <3>1. PICK v, c, p : projected(a) =
            [ status |-> "PROJECTED", revenue |-> v, cost |-> c, profit |-> p,
              estimated |-> TRUE, signed |-> FALSE ]
      BY DEF projected
    <3>2. PICK old, new : /\ old = projected(a) /\ new = refreshed(projected(a), a)
                          /\ new = [ old EXCEPT !.signed = FALSE ]
      BY <2>1, <2>2, Zenon
    <3>3. new = [ old EXCEPT !.signed = FALSE ]
      BY <3>2
    <3>4. old = [ status |-> "PROJECTED", revenue |-> v, cost |-> c, profit |-> p,
                  estimated |-> TRUE, signed |-> FALSE ]
      BY <3>1, <3>2
    <3>5. new = [ status |-> "PROJECTED", revenue |-> v, cost |-> c, profit |-> p,
                  estimated |-> TRUE, signed |-> FALSE ]
      BY <3>3, <3>4
    <3>6. QED
      BY <3>2, <3>4, <3>5
  <2>5. ASSUME NEW r
        PROVE  refreshed(refreshed(r, a), a) = refreshed(r, a)
    <3>1. CASE r.status \in REALISED_BILLING_STATUSES
      BY <2>3, <3>1
    <3>2. CASE r.status \notin REALISED_BILLING_STATUSES
      <4> DEFINE g == r.signed
      <4>1. PICK v, c, p : projected(a) =
              [ status |-> "PROJECTED", revenue |-> v, cost |-> c, profit |-> p,
                estimated |-> TRUE, signed |-> FALSE ]
        BY DEF projected
      <4>2. PICK old, new : /\ old = projected(a) /\ new = refreshed(r, a)
                            /\ new = [ old EXCEPT !.signed = g ]
        BY <2>2, <3>2, Zenon
      <4> HIDE DEF g
      <4>3. new = [ old EXCEPT !.signed = g ]
        BY <4>2
      <4>4. old = [ status |-> "PROJECTED", revenue |-> v, cost |-> c, profit |-> p,
                    estimated |-> TRUE, signed |-> FALSE ]
        BY <4>1, <4>2
      <4>5. new.status = "PROJECTED" /\ new.signed = g
        BY <4>3, <4>4
      <4>6. refreshed(new, a) = [ projected(a) EXCEPT !.signed = new.signed ]
        BY <2>1, <2>2, <4>5
      <4>7. refreshed(new, a) = [ old EXCEPT !.signed = g ]
        BY <4>2, <4>5, <4>6, Zenon
      <4>8. QED
        BY <4>2, <4>3, <4>7, Zenon
    <3>3. QED
      BY <3>1, <3>2
  <2>6. QED
    BY <2>4, <2>5
<1>5. ASSUME NEW k \in Keys
      PROVE  refreshed(once[k], Amounts(k)) = once[k]
  <2>1. once[k] = IF k \in DOMAIN table
                  THEN refreshed(table[k], Amounts(k)) ELSE projected(Amounts(k))
    BY <1>1, Zenon
  <2> HIDE DEF once, Amounts
  <2>2. QED
    BY <1>4, <2>1, Zenon
<1> HIDE DEF Keys, Amounts, once, both, twice
<1>6. /\ \A k \in Keys : twice[k] = once[k]
      /\ twice = [ k \in Keys |-> twice[k] ]
      /\ once = [ k \in Keys |-> once[k] ]
  BY <1>1, <1>2, <1>3, <1>5
<1>7. twice = once
  BY <1>6
<1>8. QED
  BY <1>7 DEF twice, once, both

-----------------------------------------------------------------------------
(* The invariant.                                                          *)

\* Nothing is wrong with no rows.
LEMMA InitIsGood ==
  Init => IInv
<1> SUFFICES ASSUME Init
             PROVE  IInv
  OBVIOUS
<1>1. DOMAIN EmptyTable = {} /\ EmptyTable = [ k \in DOMAIN EmptyTable |-> EmptyTable[k] ]
  BY DEF EmptyTable
<1>2. [ status |-> "NOT_AVAILABLE", from |-> NoDate ] \in AvailabilityRow
  BY DEF AvailabilityRow, DateColumn
<1>3. deployments = EmptyTable /\ billing = EmptyTable
  BY DEF Init, no_rows
<1>4. /\ IsTable(deployments, DeploymentIds, DeploymentRow)
      /\ \A d \in DOMAIN deployments : GoodDeployment(deployments[d])
      /\ IsTable(billing, DeploymentIds \X Period, BillingRow)
      /\ \A k \in DOMAIN billing : GoodRecord(billing[k]) /\ k[1] \in DOMAIN deployments
  BY <1>1, <1>3 DEF IsTable
<1>5. today \in Dates /\ selected \subseteq SubmissionIds
  BY DEF Init, no_rows
<1>6. availability \in [ Resources -> AvailabilityRow ]
  BY <1>2 DEF Init, no_rows
<1>7. QED
  BY <1>4, <1>5, <1>6 DEF IInv

\* Writing a deployment and its consultant keeps the invariant.
LEMMA SynchroniseKeeps ==
  ASSUME IInv, NEW d \in DeploymentIds, NEW row, GoodDeployment(row),
         Synchronise(d, row)
  PROVE  /\ IsTable(deployments', DeploymentIds, DeploymentRow)
         /\ DOMAIN deployments' = DOMAIN deployments \cup { d }
         /\ \A e \in DOMAIN deployments' :
              /\ GoodDeployment(deployments'[e])
              /\ deployments'[e] = IF e = d THEN row ELSE deployments[e]
         /\ availability' \in [ Resources -> AvailabilityRow ]
<1>1. deployments' = Put(deployments, d, row) /\ row \in DeploymentRow
  BY DEF Synchronise, GoodDeployment
<1>2. /\ IsTable(deployments', DeploymentIds, DeploymentRow)
      /\ DOMAIN deployments' = DOMAIN deployments \cup { d }
      /\ \A e \in DOMAIN deployments' : deployments'[e] = IF e = d THEN row ELSE deployments[e]
  <2>1. IsTable(deployments, DeploymentIds, DeploymentRow)
    BY DEF IInv
  <2>2. QED
    BY <1>1, <2>1 DEF IsTable, Put
<1>3. \A e \in DOMAIN deployments' : GoodDeployment(deployments'[e])
  BY <1>2 DEF IInv
<1>4. availability' \in [ Resources -> AvailabilityRow ]
  <2> DEFINE c == row.resource
             new == synced(availability[c], row)
  <2>1. c \in Resources /\ availability \in [ Resources -> AvailabilityRow ]
    BY <1>1 DEF IInv, DeploymentRow
  <2>2. new \in AvailabilityRow
    BY <1>1, <2>1, SyncedIsARow
  <2>3. availability' = [ availability EXCEPT ![c] = new ]
    BY DEF Synchronise
  <2> HIDE DEF new, c
  <2>4. QED
    BY <2>1, <2>2, <2>3
<1>5. QED
  BY <1>2, <1>3, <1>4

\* Writing one record of a deployment's month keeps the invariant.
LEMMA RecordKeeps ==
  ASSUME IInv, NEW k \in DeploymentIds \X Period, k[1] \in DOMAIN deployments,
         NEW r, GoodRecord(r), billing' = Put(billing, k, r),
         UNCHANGED << today, selected, deployments, availability >>
  PROVE  /\ IInv'
         /\ DOMAIN billing' = DOMAIN billing \cup { k }
         /\ \A i \in DOMAIN billing' : billing'[i] = IF i = k THEN r ELSE billing[i]
<1>1. IsTable(billing, DeploymentIds \X Period, BillingRow) /\ r \in BillingRow
  BY DEF IInv, GoodRecord
<1>2. /\ IsTable(billing', DeploymentIds \X Period, BillingRow)
      /\ DOMAIN billing' = DOMAIN billing \cup { k }
      /\ \A i \in DOMAIN billing' : billing'[i] = IF i = k THEN r ELSE billing[i]
  BY <1>1 DEF IsTable, Put
<1>3. \A i \in DOMAIN billing' : GoodRecord(billing'[i]) /\ i[1] \in DOMAIN deployments
  BY <1>2 DEF IInv
<1>4. QED
  BY <1>2, <1>3 DEF IInv

\* The actions, in the order of Next.
LEMMA NextCases ==
  ASSUME Next
  PROVE  \/ Tick
         \/ \E s \in SubmissionIds : Reconsider(s)
         \/ \E d \in DeploymentIds, start \in StartInputs, end \in EndInputs,
               bill \in RateInputs, s \in SubmissionIds, cost \in CostInputs :
              CreateFromSubmission(d, s, start, end, bill, cost)
         \/ \E d \in DeploymentIds, start \in StartInputs, end \in EndInputs,
               bill \in RateInputs, e \in DeploymentIds,
               cost \in CostInputs \cup { NoAmount } :
              ExtendDeployment(d, e, start, end, bill, cost)
         \/ \E d \in DeploymentIds, date \in Dates : EndDeployment(d, date)
         \/ \E d \in DeploymentIds : UpdateDeployment(d)
         \/ \E ds : /\ \A d \in ds \cap DOMAIN deployments : deployments[d].bill # NoAmount
                   /\ GenerateProjections(ds)
         \/ \E d \in DeploymentIds, p \in Period,
               revenue \in AmountInputs, cost \in AmountInputs, status \in BillingInputs :
              CreateRecord(<< d, p >>, revenue, cost, status)
         \/ \E d \in DeploymentIds, p \in Period, revenue \in AmountInputs,
               cost \in AmountInputs, status \in BillingInputs \cup { Unset } :
              UpdateRecord(<< d, p >>, revenue, cost, status)
         \/ \E d \in DeploymentIds, p \in Period,
               revenue \in AmountInputs, cost \in AmountInputs :
              Confirm(<< d, p >>, revenue, cost)
<1>1. \A date \in Dates : period_of(date) \in Period
  BY DateHasItsPeriod, DeliveryInputs
<1>2. \A d : d \in DOMAIN deployments /\ deployments[d].bill # NoAmount =>
        \A e \in { d } \cap DOMAIN deployments : deployments[e].bill # NoAmount
  OBVIOUS
<1>3. \A d \in open_deployments \cap DOMAIN deployments : deployments[d].bill # NoAmount
  BY DEF open_deployments
<1>4. QED
  BY <1>1, <1>2, <1>3, Zenon DEF Next

\* What GenerateProjections writes.
LEMMA GenerateKeeps ==
  ASSUME IInv, NEW ds, GenerateProjections(ds),
         \A d \in ds \cap DOMAIN deployments : deployments[d].bill # NoAmount
  PROVE  /\ IInv'
         /\ \A k \in DOMAIN billing' :
              \/ k \in DOMAIN billing /\ billing'[k] = billing[k]
              \/ k[1] \in DOMAIN deployments /\ k[2] \in projection_periods(deployments[k[1]])
<1> DEFINE rows == Select(deployments, ds)
           made == generated(billing, rows)
<1>1. /\ DOMAIN rows = DOMAIN deployments \cap ds
      /\ \A d \in DOMAIN rows : rows[d] = deployments[d]
  BY DEF Select
<1>2. /\ DOMAIN rows \subseteq DeploymentIds
      /\ \A d \in DOMAIN rows : GoodDeployment(rows[d]) /\ rows[d].bill # NoAmount
  <2>1. DOMAIN deployments \subseteq DeploymentIds
    BY DEF IInv, IsTable
  <2> HIDE DEF rows
  <2>2. QED
    BY <1>1, <2>1 DEF IInv
<1> HIDE DEF rows
<1>3. /\ IsTable(billing, DeploymentIds \X Period, BillingRow)
      /\ \A k \in DOMAIN billing : GoodRecord(billing[k]) /\ k[1] \in DOMAIN deployments
  BY DEF IInv
<1>4. /\ IsTable(made, DeploymentIds \X Period, BillingRow)
      /\ \A k \in DOMAIN made :
           /\ GoodRecord(made[k])
           /\ k[1] \in DOMAIN rows /\ k[2] \in projection_periods(rows[k[1]])
  BY <1>2, <1>3, GeneratedIsGood
<1>5. billing' = PutAll(billing, made)
  BY DEF GenerateProjections, rows
<1> HIDE DEF made
<1>6. /\ IsTable(billing', DeploymentIds \X Period, BillingRow)
      /\ DOMAIN billing' = DOMAIN billing \cup DOMAIN made
      /\ \A i \in DOMAIN billing' :
           billing'[i] = IF i \in DOMAIN made THEN made[i] ELSE billing[i]
  BY <1>3, <1>4, <1>5 DEF IsTable, PutAll
<1>7. \A k \in DOMAIN billing' : GoodRecord(billing'[k]) /\ k[1] \in DOMAIN deployments
  BY <1>1, <1>3, <1>4, <1>6
<1>8. UNCHANGED << today, selected, deployments, availability >>
  BY DEF GenerateProjections
<1>9. IInv'
  BY <1>6, <1>7, <1>8 DEF IInv
<1>10. QED
  BY <1>1, <1>4, <1>6, <1>9

\* Ending a deployment keeps the invariant.
LEMMA EndKeeps ==
  ASSUME IInv, NEW d \in DeploymentIds, NEW date \in Dates, EndDeployment(d, date)
  PROVE  /\ IInv'
         /\ DOMAIN deployments' = DOMAIN deployments
         /\ \A e \in DOMAIN deployments : e # d => deployments'[e] = deployments[e]
         /\ deployments'[d].actual = date
<1> DEFINE row == ended(deployments[d], date)
           cancelled(k) == k[1] = d /\ cancels(billing[k], k[2], date)
<1>1. /\ d \in DOMAIN deployments /\ Synchronise(d, row)
      /\ billing' = [ k \in DOMAIN billing |->
                        IF cancelled(k) THEN [ billing[k] EXCEPT !.status = "CANCELLED" ]
                        ELSE billing[k] ]
      /\ UNCHANGED << today, selected >>
  BY DEF EndDeployment
<1>2. GoodDeployment(row) /\ row.actual = date
  BY <1>1, EndedDeployment DEF IInv
<1> HIDE DEF row, cancelled
<1>3. /\ IsTable(deployments', DeploymentIds, DeploymentRow)
      /\ DOMAIN deployments' = DOMAIN deployments \cup { d }
      /\ \A e \in DOMAIN deployments' :
           /\ GoodDeployment(deployments'[e])
           /\ deployments'[e] = IF e = d THEN row ELSE deployments[e]
      /\ availability' \in [ Resources -> AvailabilityRow ]
  BY <1>1, <1>2, SynchroniseKeeps
<1>4. /\ billing' = [ k \in DOMAIN billing' |-> billing'[k] ]
      /\ DOMAIN billing' = DOMAIN billing
      /\ \A k \in DOMAIN billing : GoodRecord(billing'[k])
  <2>1. ASSUME NEW k \in DOMAIN billing
        PROVE  GoodRecord(billing'[k])
    <3>1. GoodRecord(billing[k])
      BY DEF IInv
    <3>2. CASE cancelled(k)
      <4>1. billing'[k] = [ billing[k] EXCEPT !.status = "CANCELLED" ]
        BY <1>1, <3>2
      <4>2. QED
        BY <3>1, <4>1, CancelledIsGood
    <3>3. CASE ~ cancelled(k)
      <4>1. billing'[k] = billing[k]
        BY <1>1, <3>3
      <4>2. QED
        BY <3>1, <4>1
    <3>4. QED
      BY <3>2, <3>3
  <2>2. QED
    BY <1>1, <2>1
<1>5. /\ IsTable(billing', DeploymentIds \X Period, BillingRow)
      /\ \A k \in DOMAIN billing' : GoodRecord(billing'[k]) /\ k[1] \in DOMAIN deployments'
  <2>1. /\ DOMAIN billing \subseteq DeploymentIds \X Period
        /\ \A k \in DOMAIN billing : k[1] \in DOMAIN deployments
    BY DEF IInv, IsTable
  <2>2. \A k \in DOMAIN billing' : billing'[k] \in BillingRow
    BY <1>4 DEF GoodRecord
  <2>3. QED
    BY <1>3, <1>4, <2>1, <2>2 DEF IsTable
<1>6. today' \in Dates /\ selected' \subseteq SubmissionIds
  BY <1>1 DEF IInv
<1>7. IInv'
  BY <1>3, <1>5, <1>6 DEF IInv
<1>8. QED
  BY <1>1, <1>2, <1>3, <1>7

\* Every step keeps the invariant.
LEMMA StepKeeps ==
  ASSUME IInv, Next
  PROVE  IInv'
<1>1. CASE Tick
  BY <1>1 DEF IInv, Tick, IsTable
<1>2. ASSUME NEW s \in SubmissionIds, Reconsider(s)
      PROVE  IInv'
  BY <1>2 DEF IInv, Reconsider, IsTable
<1>3. ASSUME NEW d \in DeploymentIds, NEW start \in StartInputs, NEW end \in EndInputs,
             NEW bill \in RateInputs, NEW s \in SubmissionIds, NEW cost \in CostInputs,
             CreateFromSubmission(d, s, start, end, bill, cost)
      PROVE  IInv'
  <2> DEFINE row == new_deployment(s, start, end, bill, cost)
  <2>1. Synchronise(d, row) /\ UNCHANGED << today, selected, billing >>
    BY <1>3 DEF CreateFromSubmission
  <2>2. GoodDeployment(row)
    BY NewDeployment
  <2> HIDE DEF row
  <2>3. /\ IsTable(deployments', DeploymentIds, DeploymentRow)
        /\ DOMAIN deployments' = DOMAIN deployments \cup { d }
        /\ \A e \in DOMAIN deployments' : GoodDeployment(deployments'[e])
        /\ availability' \in [ Resources -> AvailabilityRow ]
    BY <2>1, <2>2, SynchroniseKeeps
  <2>4. QED
    BY <2>1, <2>3 DEF IInv
<1>4. ASSUME NEW d \in DeploymentIds, NEW start \in StartInputs, NEW end \in EndInputs,
             NEW bill \in RateInputs, NEW e \in DeploymentIds,
             NEW cost \in CostInputs \cup { NoAmount },
             ExtendDeployment(d, e, start, end, bill, cost)
      PROVE  IInv'
  <2> DEFINE row == successor(deployments[d], start, end, bill, cost)
  <2>1. /\ d \in DOMAIN deployments
        /\ Synchronise(e, row) /\ UNCHANGED << today, selected, billing >>
    BY <1>4 DEF ExtendDeployment
  <2>2. GoodDeployment(row)
    BY <2>1, SuccessorDeployment DEF IInv
  <2> HIDE DEF row
  <2>3. /\ IsTable(deployments', DeploymentIds, DeploymentRow)
        /\ DOMAIN deployments' = DOMAIN deployments \cup { e }
        /\ \A f \in DOMAIN deployments' : GoodDeployment(deployments'[f])
        /\ availability' \in [ Resources -> AvailabilityRow ]
    BY <2>1, <2>2, SynchroniseKeeps
  <2>4. QED
    BY <2>1, <2>3 DEF IInv
<1>5. ASSUME NEW d \in DeploymentIds, NEW date \in Dates, EndDeployment(d, date)
      PROVE  IInv'
  BY <1>5, EndKeeps
<1>6. ASSUME NEW d \in DeploymentIds, UpdateDeployment(d)
      PROVE  IInv'
  <2>1. PICK row \in edits(deployments[d]) :
          /\ d \in DOMAIN deployments
          /\ deployments' = Put(deployments, d, row)
          /\ UNCHANGED << today, selected, billing, availability >>
    BY <1>6 DEF UpdateDeployment
  <2>2. GoodDeployment(row)
    BY <2>1, EditedDeployment DEF IInv
  <2>3. /\ IsTable(deployments', DeploymentIds, DeploymentRow)
        /\ DOMAIN deployments' = DOMAIN deployments
        /\ \A e \in DOMAIN deployments' :
             deployments'[e] = IF e = d THEN row ELSE deployments[e]
    BY <2>1, <2>2 DEF IInv, IsTable, Put, GoodDeployment
  <2>4. \A e \in DOMAIN deployments' : GoodDeployment(deployments'[e])
    BY <2>2, <2>3 DEF IInv
  <2>5. QED
    BY <2>1, <2>3, <2>4 DEF IInv
<1>7. ASSUME NEW ds, GenerateProjections(ds),
             \A d \in ds \cap DOMAIN deployments : deployments[d].bill # NoAmount
      PROVE  IInv'
  BY <1>7, GenerateKeeps
<1>8. ASSUME NEW d \in DeploymentIds, NEW p \in Period, NEW revenue \in AmountInputs,
             NEW cost \in AmountInputs, NEW status \in BillingInputs,
             CreateRecord(<< d, p >>, revenue, cost, status)
      PROVE  IInv'
  <2> DEFINE k == << d, p >>
             r == entered(revenue, cost, status)
  <2>1. /\ k[1] \in DOMAIN deployments /\ revenue # NoAmount /\ cost # NoAmount
        /\ billing' = Put(billing, k, r)
        /\ UNCHANGED << today, selected, deployments, availability >>
    BY <1>8 DEF CreateRecord
  <2>2. GoodRecord(r)
    BY <2>1, EnteredIsGood, DeliveryInputs
  <2>3. k \in DeploymentIds \X Period
    OBVIOUS
  <2> HIDE DEF k, r
  <2>4. QED
    BY <2>1, <2>2, <2>3, RecordKeeps
<1>9. ASSUME NEW d \in DeploymentIds, NEW p \in Period, NEW revenue \in AmountInputs,
             NEW cost \in AmountInputs, NEW status \in BillingInputs \cup { Unset },
             UpdateRecord(<< d, p >>, revenue, cost, status)
      PROVE  IInv'
  <2> DEFINE k == << d, p >>
             r == updated(billing[k], revenue, cost, status)
  <2>1. /\ k \in DOMAIN billing
        /\ billing' = Put(billing, k, r)
        /\ UNCHANGED << today, selected, deployments, availability >>
    BY <1>9 DEF UpdateRecord
  <2>2. GoodRecord(r) /\ k[1] \in DOMAIN deployments
    BY <2>1, UpdatedIsGood DEF IInv
  <2>3. k \in DeploymentIds \X Period
    OBVIOUS
  <2> HIDE DEF k, r
  <2>4. QED
    BY <2>1, <2>2, <2>3, RecordKeeps
<1>10. ASSUME NEW d \in DeploymentIds, NEW p \in Period, NEW revenue \in AmountInputs,
              NEW cost \in AmountInputs, Confirm(<< d, p >>, revenue, cost)
       PROVE  IInv'
  <2> DEFINE k == << d, p >>
             r == confirmed(billing[k], revenue, cost)
  <2>1. /\ k \in DOMAIN billing
        /\ billing' = Put(billing, k, r)
        /\ UNCHANGED << today, selected, deployments, availability >>
    BY <1>10 DEF Confirm
  <2>2. GoodRecord(r) /\ k[1] \in DOMAIN deployments
    BY <2>1, ConfirmedIsGood DEF IInv
  <2>3. k \in DeploymentIds \X Period
    OBVIOUS
  <2> HIDE DEF k, r
  <2>4. QED
    BY <2>1, <2>2, <2>3, RecordKeeps
<1>11. QED
  BY <1>1, <1>2, <1>3, <1>4, <1>5, <1>6, <1>7, <1>8, <1>9, <1>10, NextCases

\* The invariant holds in every reachable state.
LEMMA Invariant ==
  Spec => []IInv
<1>1. IInv /\ UNCHANGED tables => IInv'
  BY DEF IInv, tables, IsTable
<1>2. IInv /\ [Next]_tables => IInv'
  BY <1>1, StepKeeps
<1>3. QED
  BY <1>2, InitIsGood, PTL DEF Spec

\* TypeOK: the tables keep their columns' types, and no record is left without
\* its deployment, whatever is asked of app/services/delivery.py.
THEOREM TypeCorrect ==
  Spec => []TypeOK
<1>1. IInv => TypeOK
  BY DEF IInv, TypeOK
<1>2. QED
  BY <1>1, Invariant, PTL

\* ProfitReconciles: however a month was projected, typed, corrected, confirmed
\* or cancelled, its profit is its revenue less its cost.
THEOREM ProfitsReconcile ==
  Spec => []ProfitReconciles
<1>1. IInv => ProfitReconciles
  BY DEF IInv, GoodRecord, ProfitReconciles
<1>2. QED
  BY <1>1, Invariant, PTL

\* RealisedIsSigned: no estimate is counted as revenue.
THEOREM RevenueIsSigned ==
  Spec => []RealisedIsSigned
<1>1. IInv => RealisedIsSigned
  BY DEF IInv, GoodRecord, RealisedIsSigned
<1>2. QED
  BY <1>1, Invariant, PTL

\* GenerationIsIdempotent: a second run of generate_projections changes nothing.
THEOREM GeneratingTwiceIsOnce ==
  Spec => []GenerationIsIdempotent
<1>1. GenerationIsIdempotent
  BY GeneratingAgain DEF GenerationIsIdempotent
<1>2. QED
  BY <1>1, PTL

-----------------------------------------------------------------------------
(* The end of a deployment.                                                *)

\* The month of record k is not a projection past the end of its deployment.
Happened(k) ==
  /\ deployments[k[1]].actual # NoDate
  /\ billing[k].status = "PROJECTED"
  => first_day(k[2]) <= deployments[k[1]].actual

\* In the states of the invariant that is what NoProjectionAfterEnd says.
LEMMA HappenedIsEnough ==
  ASSUME IInv
  PROVE  NoProjectionAfterEnd <=> \A k \in DOMAIN billing : Happened(k)
<1>1. /\ DOMAIN billing \subseteq DeploymentIds \X Period
      /\ \A k \in DOMAIN billing : k[1] \in DOMAIN deployments
  BY DEF IInv, IsTable
<1>2. ASSUME \A k \in DOMAIN billing : Happened(k)
      PROVE  NoProjectionAfterEnd
  <2>1. ASSUME NEW d \in DOMAIN deployments, NEW p \in PeriodsOf(d)
        PROVE  /\ deployments[d].actual # NoDate
               /\ billing[<< d, p >>].status = "PROJECTED"
               => first_day(p) <= deployments[d].actual
    <3>1. << d, p >> \in DOMAIN billing
      BY DEF PeriodsOf
    <3>2. Happened(<< d, p >>)
      BY <1>2, <3>1
    <3>3. << d, p >>[1] = d /\ << d, p >>[2] = p
      OBVIOUS
    <3>4. QED
      BY <3>2, <3>3 DEF Happened
  <2>2. QED
    BY <2>1 DEF NoProjectionAfterEnd
<1>3. ASSUME NoProjectionAfterEnd, NEW k \in DOMAIN billing
      PROVE  Happened(k)
  <2>1. k = << k[1], k[2] >> /\ k[1] \in DOMAIN deployments /\ k[2] \in Period
    BY <1>1
  <2>2. k[2] \in PeriodsOf(k[1])
    BY <2>1 DEF PeriodsOf
  <2>3. QED
    BY <1>3, <2>1, <2>2, Zenon DEF NoProjectionAfterEnd, Happened
<1>4. QED
  BY <1>2, <1>3

\* The months a request leaves alone, of deployments whose end it leaves alone.
LEMMA StillHappened ==
  ASSUME NEW k, Happened(k), billing'[k] = billing[k],
         deployments'[k[1]].actual = deployments[k[1]].actual
  PROVE  Happened(k)'
  BY DEF Happened

\* A step writes no projection past an end, unless someone types one.
LEMMA StepHappened ==
  ASSUME "PROJECTED" \notin BillingInputs,
         IInv, Next, \A k \in DOMAIN billing : Happened(k)
  PROVE  \A k \in DOMAIN billing' : Happened(k)'
<1>0. /\ DOMAIN billing \subseteq DeploymentIds \X Period
      /\ \A k \in DOMAIN billing : k[1] \in DOMAIN deployments
      /\ \A d \in DOMAIN deployments : GoodDeployment(deployments[d])
      /\ IsTable(deployments, DeploymentIds, DeploymentRow)
  BY DEF IInv, IsTable
<1>1. CASE UNCHANGED << deployments, billing >>
  BY <1>1 DEF Happened
<1>2. ASSUME NEW d, d \notin DOMAIN deployments, NEW row,
             deployments' = Put(deployments, d, row), UNCHANGED billing
      PROVE  \A k \in DOMAIN billing' : Happened(k)'
  <2>1. ASSUME NEW k \in DOMAIN billing
        PROVE  Happened(k)'
    <3>1. k[1] \in DOMAIN deployments /\ k[1] # d
      BY <1>0, <1>2
    <3>2. deployments'[k[1]] = deployments[k[1]]
      BY <1>2, <3>1 DEF Put
    <3>3. QED
      BY <1>2, <3>2, StillHappened
  <2>2. QED
    BY <1>2, <2>1
<1>3. ASSUME NEW d \in DeploymentIds, NEW date \in Dates, EndDeployment(d, date)
      PROVE  \A k \in DOMAIN billing' : Happened(k)'
  <2>1. /\ DOMAIN billing' = DOMAIN billing
        /\ \A k \in DOMAIN billing :
             billing'[k] = IF k[1] = d /\ cancels(billing[k], k[2], date)
                           THEN [ billing[k] EXCEPT !.status = "CANCELLED" ]
                           ELSE billing[k]
    BY <1>3 DEF EndDeployment
  <2>2. /\ \A e \in DOMAIN deployments : e # d => deployments'[e] = deployments[e]
        /\ deployments'[d].actual = date
    BY <1>3, EndKeeps
  <2>3. ASSUME NEW k \in DOMAIN billing
        PROVE  Happened(k)'
    <3>1. CASE k[1] # d
      <4>1. billing'[k] = billing[k] /\ deployments'[k[1]] = deployments[k[1]]
        BY <1>0, <2>1, <2>2, <3>1
      <4>2. QED
        BY <4>1, StillHappened
    <3>2. CASE k[1] = d /\ cancels(billing[k], k[2], date)
      <4>1. billing'[k].status = "CANCELLED"
        <5>1. GoodRecord(billing[k])
          BY DEF IInv
        <5>2. billing'[k] = [ billing[k] EXCEPT !.status = "CANCELLED" ]
          BY <2>1, <3>2
        <5>3. QED
          BY <5>1, <5>2, CancelledIsGood
      <4>2. QED
        BY <4>1 DEF Happened
    <3>3. CASE k[1] = d /\ ~ cancels(billing[k], k[2], date)
      <4>1. billing'[k] = billing[k] /\ deployments'[k[1]].actual = date
        BY <2>1, <2>2, <3>3
      <4>2. billing[k].status = "PROJECTED" => ~ (first_day(k[2]) > date)
        BY <3>3 DEF cancels
      <4>3. first_day(k[2]) \in Date /\ date \in Date
        BY <1>0, MonthBounds, DeliveryInputs
      <4>4. first_day(k[2]) \in Int /\ date \in Int
        BY <4>3 DEF Date
      <4>5. billing[k].status = "PROJECTED" => first_day(k[2]) <= date
        BY <4>2, <4>4
      <4>6. QED
        BY <4>1, <4>5 DEF Happened
    <3>4. QED
      BY <3>1, <3>2, <3>3
  <2>4. QED
    BY <2>1, <2>3
<1>4. ASSUME NEW d \in DeploymentIds, UpdateDeployment(d)
      PROVE  \A k \in DOMAIN billing' : Happened(k)'
  <2>1. PICK row \in edits(deployments[d]) :
          /\ d \in DOMAIN deployments
          /\ deployments' = Put(deployments, d, row)
          /\ UNCHANGED billing
    BY <1>4 DEF UpdateDeployment
  <2>2. row.actual = deployments[d].actual
    BY <1>0, <2>1, EditedDeployment
  <2>3. \A e \in DOMAIN deployments : deployments'[e] = IF e = d THEN row ELSE deployments[e]
    BY <2>1 DEF Put
  <2>4. \A k \in DOMAIN billing : deployments'[k[1]].actual = deployments[k[1]].actual
    BY <1>0, <2>2, <2>3
  <2>5. QED
    BY <2>1, <2>4, StillHappened
<1>5. ASSUME NEW ds, GenerateProjections(ds),
             \A d \in ds \cap DOMAIN deployments : deployments[d].bill # NoAmount
      PROVE  \A k \in DOMAIN billing' : Happened(k)'
  <2>1. deployments' = deployments
    BY <1>5 DEF GenerateProjections
  <2>2. ASSUME NEW k \in DOMAIN billing'
        PROVE  Happened(k)'
    <3>1. CASE k \in DOMAIN billing /\ billing'[k] = billing[k]
      BY <2>1, <3>1, StillHappened
    <3>2. CASE k[1] \in DOMAIN deployments /\ k[2] \in projection_periods(deployments[k[1]])
      <4> DEFINE row == deployments[k[1]]
      <4>1. GoodDeployment(row)
        BY <1>0, <3>2
      <4>2. effective_end(row) # NoDate => first_day(k[2]) <= effective_end(row)
        BY <3>2, <4>1, ProjectionPeriods
      <4>3. row.actual # NoDate => effective_end(row) = row.actual
        BY DEF effective_end
      <4>4. QED
        BY <2>1, <4>2, <4>3 DEF Happened
    <3>3. QED
      BY <1>5, <3>1, <3>2, GenerateKeeps
  <2>3. QED
    BY <2>2
<1>6. ASSUME NEW i \in DeploymentIds \X Period, i[1] \in DOMAIN deployments,
             NEW r, billing' = Put(billing, i, r),
             r.status = "PROJECTED" => i \in DOMAIN billing /\ billing[i].status = "PROJECTED",
             UNCHANGED deployments
      PROVE  \A k \in DOMAIN billing' : Happened(k)'
  <2>1. /\ DOMAIN billing' = DOMAIN billing \cup { i }
        /\ \A k \in DOMAIN billing' : billing'[k] = IF k = i THEN r ELSE billing[k]
    BY <1>6 DEF Put
  <2>2. ASSUME NEW k \in DOMAIN billing'
        PROVE  Happened(k)'
    <3>1. CASE k # i
      BY <1>6, <2>1, <3>1, StillHappened
    <3>2. CASE k = i
      <4>1. billing'[k].status = "PROJECTED" =>
              k \in DOMAIN billing /\ billing[k].status = "PROJECTED"
        BY <1>6, <2>1, <3>2
      <4>2. QED
        BY <1>6, <4>1 DEF Happened
    <3>3. QED
      BY <3>1, <3>2
  <2>3. QED
    BY <2>2
<1>7. ASSUME NEW d \in DeploymentIds, NEW p \in Period, NEW revenue \in AmountInputs,
             NEW cost \in AmountInputs, NEW status \in BillingInputs,
             CreateRecord(<< d, p >>, revenue, cost, status)
      PROVE  \A k \in DOMAIN billing' : Happened(k)'
  <2> DEFINE i == << d, p >>
             r == entered(revenue, cost, status)
  <2>1. /\ i[1] \in DOMAIN deployments
        /\ billing' = Put(billing, i, r) /\ UNCHANGED deployments
    BY <1>7 DEF CreateRecord
  <2>2. r.status # "PROJECTED"
    BY DEF entered
  <2>3. i \in DeploymentIds \X Period
    OBVIOUS
  <2> HIDE DEF i, r
  <2>4. QED
    BY <1>6, <2>1, <2>2, <2>3
<1>8. ASSUME NEW d \in DeploymentIds, NEW p \in Period, NEW revenue \in AmountInputs,
             NEW cost \in AmountInputs, NEW status \in BillingInputs \cup { Unset },
             UpdateRecord(<< d, p >>, revenue, cost, status)
      PROVE  \A k \in DOMAIN billing' : Happened(k)'
  <2> DEFINE i == << d, p >>
             r == updated(billing[i], revenue, cost, status)
  <2>1. /\ i \in DOMAIN billing
        /\ billing' = Put(billing, i, r) /\ UNCHANGED deployments
    BY <1>8 DEF UpdateRecord
  <2>2. r.status = IF status = Unset THEN billing[i].status ELSE status
    BY <2>1, UpdatedIsGood DEF IInv
  <2>3. status # Unset => status \in BillingInputs
    OBVIOUS
  <2>4. r.status = "PROJECTED" => billing[i].status = "PROJECTED"
    BY <2>2, <2>3
  <2>5. i \in DeploymentIds \X Period
    OBVIOUS
  <2> HIDE DEF i, r
  <2>6. QED
    BY <1>0, <1>6, <2>1, <2>4, <2>5
<1>9. ASSUME NEW d \in DeploymentIds, NEW p \in Period, NEW revenue \in AmountInputs,
             NEW cost \in AmountInputs, Confirm(<< d, p >>, revenue, cost)
      PROVE  \A k \in DOMAIN billing' : Happened(k)'
  <2> DEFINE i == << d, p >>
             r == confirmed(billing[i], revenue, cost)
  <2>1. /\ i \in DOMAIN billing
        /\ billing' = Put(billing, i, r) /\ UNCHANGED deployments
    BY <1>9 DEF Confirm
  <2>2. r.status = "CONFIRMED"
    BY <2>1, ConfirmedIsGood DEF IInv
  <2>3. i \in DeploymentIds \X Period
    OBVIOUS
  <2> HIDE DEF i, r
  <2>4. QED
    BY <1>0, <1>6, <2>1, <2>2, <2>3
<1>10. CASE Tick \/ \E s \in SubmissionIds : Reconsider(s)
  BY <1>1, <1>10 DEF Tick, Reconsider
<1>11. ASSUME NEW d \in DeploymentIds, NEW start, NEW end, NEW bill, NEW s, NEW cost,
              CreateFromSubmission(d, s, start, end, bill, cost)
       PROVE  \A k \in DOMAIN billing' : Happened(k)'
  BY <1>2, <1>11 DEF CreateFromSubmission, Synchronise
<1>12. ASSUME NEW d \in DeploymentIds, NEW start, NEW end, NEW bill,
              NEW e \in DeploymentIds, NEW cost,
              ExtendDeployment(d, e, start, end, bill, cost)
       PROVE  \A k \in DOMAIN billing' : Happened(k)'
  BY <1>2, <1>12 DEF ExtendDeployment, Synchronise
<1>13. QED
  BY <1>3, <1>4, <1>5, <1>7, <1>8, <1>9, <1>10, <1>11, <1>12, NextCases

\* NoProjectionAfterEnd: whatever is generated, corrected or ended again, no
\* projection of a deployment begins after its actual end, as long as nobody
\* types the status PROJECTED into a record by hand.
THEOREM NothingIsProjectedAfterTheEnd ==
  ASSUME "PROJECTED" \notin BillingInputs
  PROVE  Spec => []NoProjectionAfterEnd
<1> DEFINE AllHappened == \A k \in DOMAIN billing : Happened(k)
<1>1. Init => AllHappened
  BY DEF Init, no_rows, EmptyTable
<1>2. IInv /\ AllHappened /\ [Next]_tables => AllHappened'
  <2>1. ASSUME IInv, AllHappened, Next
        PROVE  AllHappened'
    BY <2>1, StepHappened
  <2>2. AllHappened /\ UNCHANGED tables => AllHappened'
    BY DEF tables, Happened
  <2>3. QED
    BY <2>1, <2>2
<1>3. IInv /\ AllHappened => NoProjectionAfterEnd
  BY HappenedIsEnough
<1> HIDE DEF AllHappened
<1>4. QED
  BY <1>1, <1>2, <1>3, Invariant, PTL DEF Spec

=============================================================================
