------------------------------ MODULE Delivery ------------------------------
(***************************************************************************)
(* Deployments and billing, one action per request of                      *)
(* app/services/delivery.py, each running alone in its transaction.        *)
(***************************************************************************)
EXTENDS DeliveryData

Init == no_rows

\* A deployment row is written and the consultant's availability follows it.
Synchronise(d, row) ==
  /\ deployments' = Put(deployments, d, row)
  /\ availability' = [ availability EXCEPT ![row.resource] = synced(@, row) ]

\* POST /deployments.
CreateFromSubmission(d, s, start, end, bill, cost) ==
  /\ d \notin DOMAIN deployments
  /\ s \in selected
  /\ ~ deployed(s)
  /\ Synchronise(d, new_deployment(s, start, end, bill, cost))
  /\ UNCHANGED << today, selected, billing >>

\* POST /deployments/{id}/end.
EndDeployment(d, date) ==
  /\ d \in DOMAIN deployments
  /\ may_end(deployments[d], date)
  /\ Synchronise(d, ended(deployments[d], date))
  /\ billing' =
       [ k \in DOMAIN billing |->
           IF k[1] = d /\ cancels(billing[k], k[2], date)
           THEN [ billing[k] EXCEPT !.status = "CANCELLED" ]
           ELSE billing[k] ]
  /\ UNCHANGED << today, selected >>

\* POST /deployments/{id}/extend.
ExtendDeployment(d, e, start, end, bill, cost) ==
  /\ d \in DOMAIN deployments /\ e \notin DOMAIN deployments
  /\ may_extend(deployments[d], start)
  /\ Synchronise(e, successor(deployments[d], start, end, bill, cost))
  /\ UNCHANGED << today, selected, billing >>

\* PATCH /deployments/{id}: the row alone.
UpdateDeployment(d) ==
  /\ d \in DOMAIN deployments
  /\ \E row \in edits(deployments[d]) : deployments' = Put(deployments, d, row)
  /\ UNCHANGED << today, selected, billing, availability >>

\* POST /billing/generate-projections, for one deployment or for those open.
GenerateProjections(ds) ==
  /\ billing' = PutAll(billing, generated(billing, Select(deployments, ds)))
  /\ UNCHANGED << today, selected, deployments, availability >>

\* Mutant: the deployment is not looked up.
CreateRecord_for_any(k, revenue, cost, status) ==
  /\ k \notin DOMAIN billing
  /\ revenue # NoAmount /\ cost # NoAmount
  /\ billing' = Put(billing, k, entered(revenue, cost, status))
  /\ UNCHANGED << today, selected, deployments, availability >>

\* POST /billing/records.
CreateRecord(k, revenue, cost, status) ==
  /\ k[1] \in DOMAIN deployments
  /\ k \notin DOMAIN billing
  /\ revenue # NoAmount /\ cost # NoAmount
  /\ billing' = Put(billing, k, entered(revenue, cost, status))
  /\ UNCHANGED << today, selected, deployments, availability >>

\* PATCH /billing/records/{id}.
UpdateRecord(k, revenue, cost, status) ==
  /\ k \in DOMAIN billing
  /\ billing' = Put(billing, k, updated(billing[k], revenue, cost, status))
  /\ UNCHANGED << today, selected, deployments, availability >>

\* POST /billing/records/{id}/confirm.
Confirm(k, revenue, cost) ==
  /\ k \in DOMAIN billing
  /\ billing[k].status # "CANCELLED"
  /\ billing' = Put(billing, k, confirmed(billing[k], revenue, cost))
  /\ UNCHANGED << today, selected, deployments, availability >>

Next ==
  \/ Tick
  \/ \E s \in SubmissionIds : Reconsider(s)
  \/ \E d \in DeploymentIds, start \in StartInputs, end \in EndInputs :
     \E bill \in RateInputs :
       \/ \E s \in SubmissionIds, cost \in CostInputs :
            CreateFromSubmission(d, s, start, end, bill, cost)
       \/ \E e \in DeploymentIds, cost \in CostInputs \cup { NoAmount } :
            ExtendDeployment(d, e, start, end, bill, cost)
  \/ \E d \in DeploymentIds :
       \/ \E date \in Dates : EndDeployment(d, date)
       \/ UpdateDeployment(d)
       \/ /\ d \in DOMAIN deployments
          /\ deployments[d].bill # NoAmount
          /\ GenerateProjections({ d })
  \/ GenerateProjections(open_deployments)
  \/ \E d \in DeploymentIds, date \in Dates, revenue, cost \in AmountInputs :
       LET k == << d, period_of(date) >> IN
       \/ \E status \in BillingInputs : CreateRecord(k, revenue, cost, status)
       \/ \E status \in BillingInputs \cup { Unset } :
            UpdateRecord(k, revenue, cost, status)
       \/ Confirm(k, revenue, cost)

Spec == Init /\ [][Next]_tables
=============================================================================
