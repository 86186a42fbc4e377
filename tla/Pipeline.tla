------------------------------ MODULE Pipeline ------------------------------
(***************************************************************************)
(* The sales pipeline of app/services/pipeline.py, one action per request, *)
(* each request running alone in its database transaction.  A request the  *)
(* service refuses is rolled back as a whole, so it is no step.            *)
(***************************************************************************)
EXTENDS PipelineData

Init == no_rows

\* POST /opportunities: ensure() for a requirement that has none (for one that
\* has, it returns the existing row and changes nothing).
OpenOpportunity(r) ==
  /\ r \notin DOMAIN opportunities
  /\ opportunities' = Put(opportunities, r, new_opportunity)
  /\ UNCHANGED << submissions, interviews, awaiting_review >>

\* POST /opportunities/{id}/stage.
ChangeStage(r, target, noted) ==
  /\ r \in DOMAIN opportunities
  /\ may_change_stage(opportunities[r].stage, target, noted, submissions, r)
  /\ opportunities' =
       Put(opportunities, r, change_stage(opportunities[r], target))
  /\ UNCHANGED << submissions, interviews, awaiting_review >>

\* POST /opportunities/{id}/decision.
RecordDecision(r, decision, reasoned) ==
  /\ r \in DOMAIN opportunities
  /\ decision = "DECLINE" => reasoned
  /\ opportunities' = [ opportunities EXCEPT ![r].decision = decision ]
  /\ UNCHANGED << submissions, interviews, awaiting_review >>

\* POST /submissions.  The new row is flushed before the stage is advanced, so
\* the COUNT query sees it.
CreateSubmission(s, r, c, status) ==
  LET opportunity == IF r \in DOMAIN opportunities
                     THEN opportunities[r] ELSE new_opportunity
      new   == new_submission(r, c, status)
      table == Put(submissions, s, new)
  IN
  /\ s \notin DOMAIN submissions
  /\ may_submit(r, c)
  /\ seat_is_free(submissions, s, new)
  /\ may_advance(opportunity.stage, status, table, r)
  /\ submissions' = table
  /\ opportunities' =
       Put(opportunities, r, advance_opportunity(opportunity, status))
  /\ UNCHANGED << interviews, awaiting_review >>

\* SubmissionService.change_status, called by three handlers.  The session does
\* not autoflush: the COUNT query behind may_advance still sees the old status.
\* The unique constraint is checked by the flush that ends the request.
MoveSubmission(s, target) ==
  LET old == submissions[s]
      r   == old.requirement
      new == change_status(old, target)
  IN
  /\ may_advance(opportunities[r].stage, target, submissions, r)
  /\ seat_is_free(submissions, s, new)
  /\ submissions' = Put(submissions, s, new)
  /\ opportunities' =
       Put(opportunities, r, advance_opportunity(opportunities[r], target))

\* POST /submissions/{id}/status.
ChangeStatus(s, target, reasoned) ==
  /\ s \in DOMAIN submissions
  /\ submissions[s].status # target
  /\ target = "REJECTED" => reasoned
  /\ MoveSubmission(s, target)
  /\ UNCHANGED << interviews, awaiting_review >>

\* POST /interviews, for a time in the future (one in the past is refused).
ScheduleInterview(s) ==
  /\ s \in DOMAIN submissions
  /\ next_round(s) \in Rounds    \* the bound MaxRounds
  /\ interviews' = Put(interviews, << s, next_round(s) >>,
                       [ outcome |-> "SCHEDULED", reminded |-> TRUE ])
  /\ IF submissions[s].status \in { "INTERVIEW", "SELECTED" }
     THEN UNCHANGED << submissions, opportunities >>
     ELSE MoveSubmission(s, "INTERVIEW")
  /\ UNCHANGED awaiting_review

\* POST /interviews/{id}/outcome.
RecordOutcome(s, n, outcome) ==
  /\ << s, n >> \in DOMAIN interviews
  /\ interviews' = [ interviews EXCEPT ![<< s, n >>].outcome = outcome ]
  /\ IF outcome = "PASSED" /\ submissions[s].status # "SELECTED"
     THEN MoveSubmission(s, "SELECTED")
     ELSE UNCHANGED << submissions, opportunities >>
  /\ UNCHANGED awaiting_review

Next ==
  \/ \E r \in Requirements :
       \/ OpenOpportunity(r)
       \/ \E target \in StageInputs, noted \in BOOLEAN :
            ChangeStage(r, target, noted)
       \/ \E decision \in DecisionInputs, reasoned \in BOOLEAN :
            RecordDecision(r, decision, reasoned)
       \/ \E s \in SubmissionIds, c \in Resources, status \in StatusInputs :
            CreateSubmission(s, r, c, status)
  \/ \E s \in SubmissionIds :
       \/ \E target \in StatusInputs, reasoned \in BOOLEAN :
            ChangeStatus(s, target, reasoned)
       \/ ScheduleInterview(s)
       \/ \E n \in Rounds, outcome \in OutcomeInputs :
            RecordOutcome(s, n, outcome)
  \/ \E c \in Resources : AcceptProfile(c)

Spec == Init /\ [][Next]_tables

-----------------------------------------------------------------------------
\* The submissions table seen as seats: who holds the seat of each pair.
holder ==
  [ p \in Requirements \X Resources |->
      LET holders == find_live(submissions, p[1], p[2]) IN
      IF holders = {} THEN {} ELSE { CHOOSE s \in holders : TRUE } ]

Seats == INSTANCE SeatRegistry WITH
           Seat <- Requirements \X Resources, Candidate <- SubmissionIds

\* The pipeline implements a registry in which a seat is claimed only while it
\* is free and passes to another submission only by being released first.
SeatsAreExclusive == Seats!Spec

=============================================================================
