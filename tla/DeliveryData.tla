---------------------------- MODULE DeliveryData ----------------------------
(***************************************************************************)
(* Deployments and their monthly billing: the tables of                    *)
(* app/models/delivery.py, what app/services/delivery.py computes from the *)
(* rows it loads, and the properties the tables must have.  Delivery runs  *)
(* the requests one at a time; DeliverySessions interleaves them.          *)
(***************************************************************************)
EXTENDS Periods, Tables

CONSTANTS
  Resources,      \* consultants
  SubmissionIds,  \* submissions
  candidate,      \* submission -> the consultant it puts forward
  DeploymentIds,  \* ids a new deployment may take (bounds their number)
  NoSubmission,   \* the submission_id of an extension (NULL)
  Dates,          \* the dates on which something may happen
  StartInputs,    \* the dates on which deployments start
  EndInputs,      \* the dates on which they are planned to end, NoDate for none
  Horizon,        \* days an open-ended deployment is projected ahead
  RateInputs,     \* monthly bill rates users agree, NoAmount for none
  CostInputs,     \* monthly costs users agree
  AmountInputs,   \* revenue or cost amounts users type, NoAmount for none
  NoAmount,       \* a field absent from a request, or a rate that is NULL
  StatusInputs,   \* deployment statuses users set directly
  BillingInputs   \* billing statuses users set directly

DeploymentStatus == { "PENDING_START", "ACTIVE", "ON_HOLD", "ENDED" }

BillingStatus == { "PROJECTED", "CONFIRMED", "INVOICED", "CANCELLED" }

REALISED_BILLING_STATUSES == { "CONFIRMED", "INVOICED" }

ASSUME DeliveryInputs ==
  /\ candidate \in [ SubmissionIds -> Resources ]
  /\ NoSubmission \notin SubmissionIds
  /\ Dates \subseteq Date /\ Dates # {} /\ Horizon \in Nat
  /\ StartInputs \subseteq Date /\ EndInputs \subseteq Date \cup { NoDate }
  /\ \A start \in StartInputs : start + Horizon \in Date   \* the calendar is long enough
  /\ RateInputs \subseteq Nat \cup { NoAmount } /\ CostInputs \subseteq Nat
  /\ NoAmount \notin Int
  /\ AmountInputs \subseteq Nat \cup { NoAmount }
  /\ StatusInputs \subseteq DeploymentStatus
  /\ BillingInputs \subseteq BillingStatus

VARIABLES
  today,         \* the date utcnow() gives
  selected,      \* the submissions whose status is SELECTED
  deployments,   \* table: deployment id -> deployment
  billing,       \* table: <<deployment id, period>> -> billing record
  availability   \* consultant -> status and available_from

tables == << today, selected, deployments, billing, availability >>

DateColumn == Date \cup { NoDate }

DeploymentRow ==
  [ resource   : Resources,
    submission : SubmissionIds \cup { NoSubmission },
    start : Date, end : DateColumn, actual : DateColumn,
    status : DeploymentStatus, bill : Nat \cup { NoAmount }, cost : Nat ]

BillingRow ==
  [ status : BillingStatus, revenue : Int, cost : Int, profit : Int,
    estimated : BOOLEAN, signed : BOOLEAN ]   \* signed: confirmed_by is set

\* NOT_AVAILABLE is how a parsed profile starts; these services write the rest.
AvailabilityRow ==
  [ status : { "NOT_AVAILABLE", "AVAILABLE", "AVAILABLE_SOON", "DEPLOYED" },
    from   : DateColumn ]

-----------------------------------------------------------------------------
effective_end(deployment) ==
  IF deployment.actual # NoDate THEN deployment.actual ELSE deployment.end

status_on(start) == IF start <= today THEN "ACTIVE" ELSE "PENDING_START"

\* What _sync_resource_availability leaves in the consultant's row.
synced(old, deployment) ==
  CASE deployment.status = "ACTIVE" ->
         [ status |-> "DEPLOYED", from |-> effective_end(deployment) ]
    [] deployment.status = "PENDING_START" ->
         [ status |-> "AVAILABLE_SOON", from |-> effective_end(deployment) ]
    [] deployment.status = "ENDED" ->
         LET ended == effective_end(deployment) IN
         [ status |-> IF ended <= today THEN "AVAILABLE" ELSE "AVAILABLE_SOON",
           from   |-> ended ]
    [] OTHER -> old

new_deployment(s, start, end, bill, cost) ==
  [ resource |-> candidate[s], submission |-> s,
    start |-> start, end |-> end, actual |-> NoDate,
    status |-> status_on(start), bill |-> bill, cost |-> cost ]

\* Whether the submission has been deployed already.
deployed(s) == \E d \in DOMAIN deployments : deployments[d].submission = s

may_end(deployment, date) == date >= deployment.start

ended(deployment, date) ==
  [ deployment EXCEPT !.actual = date, !.status = "ENDED" ]

Unset == ""   \* a status absent from a request

given(amount, old) == IF amount = NoAmount THEN old ELSE amount

\* An extension must start after the deployment it extends ends.
may_extend(deployment, start) ==
  effective_end(deployment) # NoDate => start > effective_end(deployment)

successor(deployment, start, end, bill, cost) ==
  [ deployment EXCEPT
      !.submission = NoSubmission, !.start = start, !.end = end,
      !.actual = NoDate, !.status = status_on(start),
      !.bill = given(bill, @), !.cost = given(cost, @) ]

PeriodsOf(d) == { p \in Period : << d, p >> \in DOMAIN billing }

\* Mutant: the month after the end is kept.
cancels_late(record, p, date) ==
  record.status = "PROJECTED" /\ first_day(p) > date + 31

\* Whether ending a deployment on date cancels the record of month p.
cancels(record, p, date) ==
  record.status = "PROJECTED" /\ first_day(p) > date

projection_periods(deployment) ==
  LET end == IF effective_end(deployment) # NoDate
             THEN effective_end(deployment)
             ELSE deployment.start + Horizon
      months == periods_between(deployment.start, end)
  IN  { months[i] : i \in DOMAIN months }

projection(deployment, p) ==
  amounts_for(coverage(p, deployment.start, effective_end(deployment)),
              deployment.bill, deployment.cost)

projected(amounts) ==
  [ status |-> "PROJECTED", revenue |-> amounts.revenue,
    cost |-> amounts.cost, profit |-> amounts.profit,
    estimated |-> TRUE, signed |-> FALSE ]

\* Mutant: a refreshed month is added to, not replaced.
refreshed_adding(record, amounts) ==
  IF record.status \in REALISED_BILLING_STATUSES
  THEN record
  ELSE projected([ revenue |-> record.revenue + amounts.revenue,
                   cost    |-> record.cost + amounts.cost,
                   profit  |-> record.profit + amounts.profit ])

\* A month the generator found: a realised one is left as it is.
refreshed(record, amounts) ==
  IF record.status \in REALISED_BILLING_STATUSES
  THEN record
  ELSE [ projected(amounts) EXCEPT !.signed = record.signed ]

\* The records generate_projections makes of the deployments in rows, having
\* found the records in table.
generated(table, rows) ==
  [ k \in UNION { { d } \X projection_periods(rows[d]) : d \in DOMAIN rows } |->
      LET amounts == projection(rows[k[1]], k[2]) IN
      IF k \in DOMAIN table
      THEN refreshed(table[k], amounts) ELSE projected(amounts) ]

\* The deployments that are projected when no deployment is named.
open_deployments ==
  { d \in DOMAIN deployments :
      /\ deployments[d].status \in { "ACTIVE", "PENDING_START" }
      /\ deployments[d].bill # NoAmount }

\* The rows a PATCH may make of a deployment, one field at a time.
edits(deployment) ==
  { [ deployment EXCEPT !.end = end ] : end \in EndInputs }
    \cup { [ deployment EXCEPT !.status = status ] : status \in StatusInputs }
    \cup { [ deployment EXCEPT !.bill = bill ] : bill \in RateInputs }
    \cup { [ deployment EXCEPT !.cost = cost ] : cost \in CostInputs }

entered(revenue, cost, status) ==
  [ status |-> status, revenue |-> revenue, cost |-> cost,
    profit |-> revenue - cost, estimated |-> FALSE,
    signed |-> status \in REALISED_BILLING_STATUSES ]

\* Mutant: the profit stays as it was projected.
corrected_but_profit(record, revenue, cost) ==
  [ record EXCEPT !.revenue = given(revenue, @), !.cost = given(cost, @) ]

\* The record with the amounts given; profit is always derived again.
corrected(record, revenue, cost) ==
  [ record EXCEPT
      !.revenue = given(revenue, @),
      !.cost    = given(cost, @),
      !.profit  = given(revenue, record.revenue) - given(cost, record.cost) ]

\* Mutant: a status is written like any other field.
updated_plainly(record, revenue, cost, status) ==
  [ corrected(record, revenue, cost) EXCEPT
      !.status = IF status = Unset THEN @ ELSE status ]

updated(record, revenue, cost, status) ==
  LET realises == status \in REALISED_BILLING_STATUSES IN
  [ corrected(record, revenue, cost) EXCEPT
      !.status    = IF status = Unset THEN @ ELSE status,
      !.signed    = @ \/ realises,
      !.estimated = @ /\ ~ realises ]

confirmed(record, revenue, cost) ==
  [ corrected(record, revenue, cost) EXCEPT
      !.status = "CONFIRMED", !.signed = TRUE, !.estimated = FALSE ]

-----------------------------------------------------------------------------
\* No deployments yet, on the first of the dates.
no_rows ==
  /\ today \in Dates /\ \A d \in Dates : today <= d
  /\ selected = {}
  /\ deployments = EmptyTable
  /\ billing = EmptyTable
  /\ availability =
       [ c \in Resources |-> [ status |-> "NOT_AVAILABLE", from |-> NoDate ] ]

\* Time passes.
Tick ==
  /\ \E d \in Dates : d > today /\ today' = d /\ \A e \in Dates : e > today => d <= e
  /\ UNCHANGED << selected, deployments, billing, availability >>

\* The pipeline moves a submission to SELECTED, or away from it.
Reconsider(s) ==
  /\ selected' = IF s \in selected THEN selected \ { s } ELSE selected \cup { s }
  /\ UNCHANGED << today, deployments, billing, availability >>

-----------------------------------------------------------------------------
(* What is claimed.                                                        *)

\* Every row has its columns' types and belongs to a deployment.
TypeOK ==
  /\ today \in Dates
  /\ selected \subseteq SubmissionIds
  /\ IsTable(deployments, DeploymentIds, DeploymentRow)
  /\ IsTable(billing, DeploymentIds \X Period, BillingRow)
  /\ \A k \in DOMAIN billing : k[1] \in DOMAIN deployments
  /\ availability \in [ Resources -> AvailabilityRow ]

\* "Profit and margin are always re-derived": no month where the three amounts
\* disagree, which "is how a total stops reconciling".
ProfitReconciles ==
  \A k \in DOMAIN billing :
    billing[k].profit = billing[k].revenue - billing[k].cost

\* A month counted as revenue is one that somebody answered for, and never an
\* estimate: one that was confirmed, invoiced or typed by hand does not show as
\* one the generator made.
RealisedIsSigned ==
  \A k \in DOMAIN billing :
    billing[k].status \in REALISED_BILLING_STATUSES =>
      billing[k].signed /\ ~ billing[k].estimated

\* "Months after the real end never happened": once a deployment has ended, no
\* projection of it begins after its actual end.
NoProjectionAfterEnd ==
  \A d \in DOMAIN deployments : \A p \in PeriodsOf(d) :
    /\ deployments[d].actual # NoDate
    /\ billing[<< d, p >>].status = "PROJECTED"
    => first_day(p) <= deployments[d].actual

\* Generating twice is generating once, whatever the months look like.
GenerationIsIdempotent ==
  LET rows == Select(deployments, open_deployments)
      once == generated(billing, rows)
  IN  generated(PutAll(billing, once), rows) = once

=============================================================================
