-------------------------- MODULE DeliverySessions --------------------------
(***************************************************************************)
(* The requests of Delivery taken apart the way their database sessions    *)
(* run them (app/db/session.py): a request reads, computes on the rows it  *)
(* loaded, and flushes and commits at its end, with other requests         *)
(* committing in between.  Nothing is locked, nothing is read again, and   *)
(* an UPDATE carries only the columns the request changed (PostgreSQL READ *)
(* COMMITTED, SQLAlchemy unit of work).                                    *)
(***************************************************************************)
EXTENDS DeliveryData

CONSTANT Sessions   \* the requests that may be in flight at the same time

VARIABLE tx         \* what each session has read and what it will write

vars == << today, selected, deployments, billing, availability, tx >>

Rows(ds, records, consultants) ==
  [ deployments |-> ds, billing |-> records, availability |-> consultants ]

Nothing == Rows(EmptyTable, EmptyTable, EmptyTable)

\* was: the rows as they were loaded; now: as the request has made them.
Transaction(pc, was, now) == [ pc |-> pc, was |-> was, now |-> now ]

Idle == Transaction("idle", Nothing, Nothing)

Init ==
  /\ no_rows
  /\ tx = [ x \in Sessions |-> Idle ]

Begin(x, pc, was, now) ==
  /\ tx[x].pc = "idle"
  /\ tx' = [ tx EXCEPT ![x] = Transaction(pc, was, now) ]
  /\ UNCHANGED tables

\* A deployment and its consultant are loaded (or the deployment is new), and
\* the consultant's availability follows it.
BeginSync(x, pc, loaded, d, row) ==
  LET c == row.resource IN
  Begin(x, pc, Rows(loaded, EmptyTable, Row(c, availability[c])),
        Rows(Row(d, row), EmptyTable, Row(c, synced(availability[c], row))))

\* Ids are fresh: no row has the id, and no request in flight has drawn it.
unused(d) ==
  d \notin DOMAIN deployments
    \cup UNION { DOMAIN tx[x].now.deployments : x \in Sessions }

StartCreate(x, d, s, start, end, bill, cost) ==
  /\ unused(d)
  /\ s \in selected
  /\ ~ deployed(s)
  /\ BeginSync(x, "commit", EmptyTable, d, new_deployment(s, start, end, bill, cost))

StartExtend(x, d, e, start, end, bill, cost) ==
  /\ d \in DOMAIN deployments /\ unused(e)
  /\ may_extend(deployments[d], start)
  /\ BeginSync(x, "commit", EmptyTable, e,
               successor(deployments[d], start, end, bill, cost))

\* Mutant: the projections are not looked at.
StartEnd_alone(x, d, date) ==
  /\ d \in DOMAIN deployments
  /\ may_end(deployments[d], date)
  /\ BeginSync(x, "commit", Row(d, deployments[d]), d, ended(deployments[d], date))

StartEnd(x, d, date) ==
  /\ d \in DOMAIN deployments
  /\ may_end(deployments[d], date)
  /\ BeginSync(x, "projections", Row(d, deployments[d]), d,
               ended(deployments[d], date))

StartUpdate(x, d) ==
  /\ d \in DOMAIN deployments
  /\ \E row \in edits(deployments[d]) :
       Begin(x, "commit", Rows(Row(d, deployments[d]), EmptyTable, EmptyTable),
             Rows(Row(d, row), EmptyTable, EmptyTable))

StartGenerate(x, ds) ==
  LET rows == Rows(Select(deployments, ds), EmptyTable, EmptyTable) IN
  Begin(x, "records", rows, rows)

StartRecord(x, k, revenue, cost, status) ==
  /\ k[1] \in DOMAIN deployments
  /\ k \notin DOMAIN billing
  /\ revenue # NoAmount /\ cost # NoAmount
  /\ Begin(x, "commit", Nothing,
           Rows(EmptyTable, Row(k, entered(revenue, cost, status)), EmptyTable))

\* A month is loaded and will be written back as row.
StartCorrect(x, k, row) ==
  Begin(x, "commit", Rows(EmptyTable, Row(k, billing[k]), EmptyTable),
        Rows(EmptyTable, Row(k, row), EmptyTable))

StartUpdateRecord(x, k, revenue, cost, status) ==
  /\ k \in DOMAIN billing
  /\ StartCorrect(x, k, updated(billing[k], revenue, cost, status))

StartConfirm(x, k, revenue, cost) ==
  /\ k \in DOMAIN billing
  /\ billing[k].status # "CANCELLED"
  /\ StartCorrect(x, k, confirmed(billing[k], revenue, cost))

\* The months an open transaction finds, and what it makes of them.
ReadMonths(x, found, made) ==
  /\ tx' = [ tx EXCEPT ![x].pc = "commit",
                       ![x].was.billing = found, ![x].now.billing = made ]
  /\ UNCHANGED tables

\* end(): the projections of the deployment, those past its end cancelled.
ReadProjections(x) ==
  LET ending == tx[x].now.deployments
      found  == Select(billing, { k \in DOMAIN billing :
                                    /\ k[1] \in DOMAIN ending
                                    /\ billing[k].status = "PROJECTED" })
  IN
  /\ tx[x].pc = "projections"
  /\ ReadMonths(x, found,
       [ k \in DOMAIN found |->
           IF cancels(found[k], k[2], ending[k[1]].actual)
           THEN [ found[k] EXCEPT !.status = "CANCELLED" ] ELSE found[k] ])

\* generate_projections(): the months already there, refreshed, and the others.
ReadRecords(x) ==
  LET rows  == tx[x].now.deployments
      found == Select(billing, { k \in DOMAIN billing : k[1] \in DOMAIN rows })
  IN
  /\ tx[x].pc = "records"
  /\ ReadMonths(x, found, generated(found, rows))

\* Flush and commit; (deployment_id, period_year, period_month) is unique.
Commit(x) ==
  LET t == tx[x] IN
  /\ t.pc = "commit"
  /\ keys_are_free(billing, t.was.billing, t.now.billing)
  /\ deployments' = flush(deployments, t.was.deployments, t.now.deployments)
  /\ billing' = flush(billing, t.was.billing, t.now.billing)
  /\ availability' = flush(availability, t.was.availability, t.now.availability)
  /\ tx' = [ tx EXCEPT ![x] = Idle ]
  /\ UNCHANGED << today, selected >>

\* A check or a constraint fails, or the client goes away.
Rollback(x) ==
  /\ tx[x].pc # "idle"
  /\ tx' = [ tx EXCEPT ![x] = Idle ]
  /\ UNCHANGED tables

Start(x) ==
  \/ \E d \in DeploymentIds, start \in StartInputs, end \in EndInputs :
     \E bill \in RateInputs :
       \/ \E s \in SubmissionIds, cost \in CostInputs :
            StartCreate(x, d, s, start, end, bill, cost)
       \/ \E e \in DeploymentIds, cost \in CostInputs \cup { NoAmount } :
            StartExtend(x, d, e, start, end, bill, cost)
  \/ \E d \in DeploymentIds :
       \/ \E date \in Dates : StartEnd(x, d, date)
       \/ StartUpdate(x, d)
       \/ /\ d \in DOMAIN deployments
          /\ deployments[d].bill # NoAmount
          /\ StartGenerate(x, { d })
  \/ StartGenerate(x, open_deployments)
  \/ \E d \in DeploymentIds, date \in Dates, revenue, cost \in AmountInputs :
       LET k == << d, period_of(date) >> IN
       \/ \E status \in BillingInputs : StartRecord(x, k, revenue, cost, status)
       \/ \E status \in BillingInputs \cup { Unset } :
            StartUpdateRecord(x, k, revenue, cost, status)
       \/ StartConfirm(x, k, revenue, cost)

Request ==
  \E x \in Sessions :
    Start(x) \/ ReadProjections(x) \/ ReadRecords(x) \/ Commit(x) \/ Rollback(x)

Elsewhere ==
  /\ Tick \/ \E s \in SubmissionIds : Reconsider(s)
  /\ UNCHANGED tx

Spec == Init /\ [][Request \/ Elsewhere]_vars

\* No day passes and no submission changes while a request is in flight.
SpecUndisturbed ==
  Init /\ [][\/ Request
             \/ Elsewhere /\ \A x \in Sessions : tx[x] = Idle]_vars

Alone == INSTANCE Delivery

\* With one session, undisturbed, the reads and the commit of a request amount
\* to the one step that Delivery gives it.
RequestsAreAtomic == Alone!Spec

\* "It never touches a row a human has confirmed": a session that inserts or
\* refreshes projections (it loads deployments and writes none of them) leaves
\* the months realised by the time it commits as they are.
GeneratorSparesRealised ==
  [][ \A x \in Sessions :
        /\ tx[x].pc = "commit" /\ tx'[x].pc = "idle"
        /\ tx[x].was.deployments # EmptyTable
        /\ tx[x].was.deployments = tx[x].now.deployments
        => \A k \in DOMAIN billing :
             billing[k].status \in REALISED_BILLING_STATUSES =>
               billing'[k] = billing[k] ]_vars

=============================================================================
