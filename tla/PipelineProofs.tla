--------------------------- MODULE PipelineProofs ---------------------------
(***************************************************************************)
(* Proofs about Pipeline, for any requirements, consultants, submissions   *)
(* and number of interview rounds.                                         *)
(***************************************************************************)
EXTENDS Pipeline, TLAPS

(* Lemmas about the helpers.                                               *)

\* Writing a row of the right type under a key of the right type keeps the
\* table a table, and touches no other row.
LEMMA PutTable ==
  ASSUME NEW t, NEW Keys, NEW Rows, IsTable(t, Keys, Rows),
         NEW key \in Keys, NEW row \in Rows
  PROVE  /\ IsTable(Put(t, key, row), Keys, Rows)
         /\ DOMAIN Put(t, key, row) = DOMAIN t \cup { key }
         /\ Put(t, key, row)[key] = row
         /\ \A k \in DOMAIN t \ { key } : Put(t, key, row)[k] = t[k]
  BY DEF IsTable, Put

LEMMA EmptyIsTable ==
  ASSUME NEW Keys, NEW Rows
  PROVE  IsTable(EmptyTable, Keys, Rows) /\ DOMAIN EmptyTable = {}
  BY DEF IsTable, EmptyTable

\* Every hint is a stage of the ladder.
LEMMA HintsAreOpenStages ==
  ASSUME NEW status \in DOMAIN SUBMISSION_STAGE_HINTS
  PROVE  /\ SUBMISSION_STAGE_HINTS[status] \in OpportunityStage
         /\ ~ is_terminal(SUBMISSION_STAGE_HINTS[status])
<1>1. SUBMISSION_STAGE_HINTS[status]
        \in { "CV_SUBMITTED", "INTERVIEW", "SELECTED" }
  BY DEF SUBMISSION_STAGE_HINTS
<1>2. /\ STAGE_ORDER[5] = "CV_SUBMITTED" /\ STAGE_ORDER[6] = "INTERVIEW"
      /\ STAGE_ORDER[8] = "SELECTED" /\ { 5, 6, 8 } \subseteq DOMAIN STAGE_ORDER
  BY DEF STAGE_ORDER
<1> QED
  BY <1>1, <1>2 DEF OpportunityStage, is_terminal, TERMINAL_STAGES

\* A stage change gives a well-typed row whose closure matches its stage,
\* provided the closure matched before.
LEMMA ChangeStageRow ==
  ASSUME NEW o \in OpportunityRow, NEW target \in OpportunityStage,
         o.closed <=> is_terminal(o.stage)
  PROVE  /\ change_stage(o, target) \in OpportunityRow
         /\ change_stage(o, target).closed
              <=> is_terminal(change_stage(o, target).stage)
  BY DEF OpportunityRow, change_stage, is_terminal

LEMMA AdvanceRow ==
  ASSUME NEW o \in OpportunityRow, NEW status,
         o.closed <=> is_terminal(o.stage)
  PROVE  /\ advance_opportunity(o, status) \in OpportunityRow
         /\ advance_opportunity(o, status).closed
              <=> is_terminal(advance_opportunity(o, status).stage)
<1>1. CASE advances(o.stage, status)
  BY <1>1, HintsAreOpenStages, ChangeStageRow
     DEF advances, advance_opportunity
<1>2. CASE ~ advances(o.stage, status)
  BY <1>2 DEF advance_opportunity
<1> QED BY <1>1, <1>2

LEMMA NewOpportunityRow ==
  /\ new_opportunity \in OpportunityRow
  /\ new_opportunity.closed <=> is_terminal(new_opportunity.stage)
<1>1. STAGE_ORDER[1] = "REQUIREMENT_IDENTIFIED" /\ 1 \in DOMAIN STAGE_ORDER
  BY DEF STAGE_ORDER
<1>2. "REQUIREMENT_IDENTIFIED" \in OpportunityStage
  BY <1>1 DEF OpportunityStage
<1> QED
  BY <1>2 DEF new_opportunity, OpportunityRow, is_terminal, TERMINAL_STAGES

\* A new submission, and one whose status changed, blocks exactly while live.
LEMMA NewSubmissionRow ==
  ASSUME NEW r \in Requirements, NEW c \in Resources,
         NEW status \in SubmissionStatus
  PROVE  /\ new_submission(r, c, status) \in SubmissionRow
         /\ new_submission(r, c, status).requirement = r
         /\ new_submission(r, c, status).resource = c
         /\ new_submission(r, c, status).blocks
              <=> live(new_submission(r, c, status))
<1>1. /\ (status # "DRAFT") \in BOOLEAN
      /\ (status \in BLOCKING_SUBMISSION_STATUSES) \in BOOLEAN
  OBVIOUS
<1> QED
  BY <1>1 DEF new_submission, SubmissionRow, live

LEMMA ChangeStatusRow ==
  ASSUME NEW old \in SubmissionRow, NEW target \in SubmissionStatus
  PROVE  /\ change_status(old, target) \in SubmissionRow
         /\ change_status(old, target).requirement = old.requirement
         /\ change_status(old, target).resource = old.resource
         /\ change_status(old, target).blocks
              <=> live(change_status(old, target))
<1>1. /\ (old.sent \/ target # "DRAFT") \in BOOLEAN
      /\ (target \in BLOCKING_SUBMISSION_STATUSES) \in BOOLEAN
  OBVIOUS
<1> QED
  BY <1>1 DEF change_status, SubmissionRow, live

-----------------------------------------------------------------------------
(* The inductive invariant.  OneLiveSubmission is not inductive alone: the  *)
(* unique constraint speaks of blocks_resubmission, so it needs the mirror; *)
(* the checks made on a row need its type, and ClosureMatchesStage is what  *)
(* makes a move off a terminal stage clear the closure.                     *)

IInv ==
  /\ TypeOK
  /\ BlocksMirrorsStatus
  /\ OneLiveSubmission
  /\ ClosureMatchesStage
  /\ NoUnreviewedConsultant

\* Writing one opportunity whose closure matches its stage.
LEMMA WriteOpportunity ==
  ASSUME IInv, NEW r \in Requirements, NEW o \in OpportunityRow,
         o.closed <=> is_terminal(o.stage),
         opportunities' = Put(opportunities, r, o)
  PROVE  /\ IsTable(opportunities', Requirements, OpportunityRow)
         /\ DOMAIN opportunities' = DOMAIN opportunities \cup { r }
         /\ ClosureMatchesStage'
<1>1. /\ IsTable(opportunities', Requirements, OpportunityRow)
      /\ DOMAIN opportunities' = DOMAIN opportunities \cup { r }
      /\ opportunities'[r] = o
      /\ \A k \in DOMAIN opportunities \ { r } :
           opportunities'[k] = opportunities[k]
  <2>1. IsTable(opportunities, Requirements, OpportunityRow)
    BY DEF IInv, TypeOK
  <2>2. /\ IsTable(Put(opportunities, r, o), Requirements, OpportunityRow)
        /\ DOMAIN Put(opportunities, r, o) = DOMAIN opportunities \cup { r }
        /\ Put(opportunities, r, o)[r] = o
        /\ \A k \in DOMAIN opportunities \ { r } :
             Put(opportunities, r, o)[k] = opportunities[k]
    BY <2>1, PutTable
  <2> QED
    BY <2>2
<1>2. ASSUME NEW k \in DOMAIN opportunities'
      PROVE  opportunities'[k].closed <=> is_terminal(opportunities'[k].stage)
  <2>1. CASE k = r
    BY <1>1, <2>1
  <2>2. CASE k # r
    BY <1>1, <2>2, Zenon DEF IInv, ClosureMatchesStage
  <2> QED BY <2>1, <2>2
<1> QED
  BY <1>1, <1>2 DEF ClosureMatchesStage

\* Writing one submission whose blocks column mirrors its status, in a seat the
\* unique constraint finds free.
LEMMA WriteSubmission ==
  ASSUME IInv, NEW s \in SubmissionIds, NEW row \in SubmissionRow,
         row.blocks <=> live(row),
         seat_is_free(submissions, s, row),
         row.resource \notin awaiting_review,
         submissions' = Put(submissions, s, row),
         UNCHANGED awaiting_review
  PROVE  /\ IsTable(submissions', SubmissionIds, SubmissionRow)
         /\ DOMAIN submissions' = DOMAIN submissions \cup { s }
         /\ submissions'[s] = row
         /\ \A t \in DOMAIN submissions \ { s } : submissions'[t] = submissions[t]
         /\ BlocksMirrorsStatus'
         /\ OneLiveSubmission'
         /\ NoUnreviewedConsultant'
<1>1. /\ IsTable(submissions', SubmissionIds, SubmissionRow)
      /\ DOMAIN submissions' = DOMAIN submissions \cup { s }
      /\ submissions'[s] = row
      /\ \A t \in DOMAIN submissions \ { s } : submissions'[t] = submissions[t]
  <2>1. IsTable(submissions, SubmissionIds, SubmissionRow)
    BY DEF IInv, TypeOK
  <2>2. /\ IsTable(Put(submissions, s, row), SubmissionIds, SubmissionRow)
        /\ DOMAIN Put(submissions, s, row) = DOMAIN submissions \cup { s }
        /\ Put(submissions, s, row)[s] = row
        /\ \A k \in DOMAIN submissions \ { s } :
             Put(submissions, s, row)[k] = submissions[k]
    BY <2>1 DEF IsTable, Put
  <2> QED
    BY <2>2
<1>2. ASSUME NEW t \in DOMAIN submissions'
      PROVE  submissions'[t].blocks <=> live(submissions'[t])
  <2>1. CASE t = s
    BY <1>1, <2>1
  <2>2. CASE t # s
    BY <1>1, <2>2, Zenon DEF IInv, BlocksMirrorsStatus
  <2> QED BY <2>1, <2>2
<1>3. NoUnreviewedConsultant'
  BY <1>1 DEF IInv, NoUnreviewedConsultant
<1>4. ASSUME NEW r \in Requirements, NEW c \in Resources,
             NEW t \in find_live(submissions', r, c), t # s
      PROVE  t \in find_live(submissions, r, c) /\ submissions[t].blocks
  BY <1>1, <1>4 DEF IInv, find_live, BlocksMirrorsStatus, live
<1>5. ASSUME NEW r \in Requirements, NEW c \in Resources,
             NEW t \in find_live(submissions', r, c), t # s,
             s \in find_live(submissions', r, c)
      PROVE  FALSE
  <2>1. /\ row.requirement = r /\ row.resource = c /\ row.blocks
    BY <1>1, <1>5 DEF find_live, live
  <2>2. /\ t \in DOMAIN submissions \ { s } /\ submissions[t].blocks
        /\ submissions[t].requirement = r /\ submissions[t].resource = c
    BY <1>4, <1>5 DEF find_live
  <2> QED
    BY <2>1, <2>2 DEF seat_is_free
<1>6. OneLiveSubmission'
  BY <1>4, <1>5 DEF IInv, OneLiveSubmission
<1> QED
  BY <1>1, <1>2, <1>3, <1>6 DEF BlocksMirrorsStatus

\* change_status, whoever calls it.
LEMMA MoveKeeps ==
  ASSUME IInv, PipelineInputs, NEW s \in DOMAIN submissions,
         NEW target \in SubmissionStatus, MoveSubmission(s, target),
         UNCHANGED awaiting_review
  PROVE  /\ IsTable(submissions', SubmissionIds, SubmissionRow)
         /\ IsTable(opportunities', Requirements, OpportunityRow)
         /\ DOMAIN submissions' = DOMAIN submissions
         /\ DOMAIN opportunities \subseteq DOMAIN opportunities'
         /\ \A t \in DOMAIN submissions' :
              submissions'[t].requirement \in DOMAIN opportunities'
         /\ BlocksMirrorsStatus' /\ OneLiveSubmission'
         /\ ClosureMatchesStage' /\ NoUnreviewedConsultant'
<1> DEFINE old == submissions[s]
           new == change_status(old, target)
           r   == old.requirement
           o   == advance_opportunity(opportunities[r], target)
<1>1. /\ s \in SubmissionIds /\ old \in SubmissionRow
      /\ r \in Requirements /\ r \in DOMAIN opportunities
      /\ opportunities[r] \in OpportunityRow
      /\ opportunities[r].closed <=> is_terminal(opportunities[r].stage)
      /\ old.resource \notin awaiting_review
  BY DEF IInv, TypeOK, IsTable, SubmissionRow, ClosureMatchesStage,
         NoUnreviewedConsultant
<1>2. /\ new \in SubmissionRow /\ (new.blocks <=> live(new))
      /\ new.requirement = r /\ new.resource = old.resource
  BY <1>1, ChangeStatusRow
<1>3. o \in OpportunityRow /\ (o.closed <=> is_terminal(o.stage))
  BY <1>1, AdvanceRow
<1>4. /\ seat_is_free(submissions, s, new)
      /\ submissions' = Put(submissions, s, new)
      /\ opportunities' = Put(opportunities, r, o)
  BY DEF MoveSubmission
<1> HIDE DEF new, o
<1>5. /\ IsTable(submissions', SubmissionIds, SubmissionRow)
      /\ DOMAIN submissions' = DOMAIN submissions \cup { s }
      /\ submissions'[s] = new
      /\ \A t \in DOMAIN submissions \ { s } : submissions'[t] = submissions[t]
      /\ BlocksMirrorsStatus' /\ OneLiveSubmission' /\ NoUnreviewedConsultant'
  BY <1>1, <1>2, <1>4, WriteSubmission
<1>6. /\ IsTable(opportunities', Requirements, OpportunityRow)
      /\ DOMAIN opportunities' = DOMAIN opportunities \cup { r }
      /\ ClosureMatchesStage'
  BY <1>1, <1>3, <1>4, WriteOpportunity
<1> QED
  BY <1>1, <1>2, <1>5, <1>6 DEF IInv, TypeOK

LEMMA InitEstablishes == Init => IInv
<1> SUFFICES ASSUME Init PROVE IInv
  OBVIOUS
<1>1. /\ opportunities = EmptyTable /\ submissions = EmptyTable
      /\ interviews = EmptyTable /\ awaiting_review \subseteq Resources
  BY DEF Init, no_rows
<1>2. DOMAIN opportunities = {} /\ DOMAIN submissions = {} /\ DOMAIN interviews = {}
  BY <1>1, EmptyIsTable
<1>3. /\ IsTable(opportunities, Requirements, OpportunityRow)
      /\ IsTable(submissions, SubmissionIds, SubmissionRow)
      /\ IsTable(interviews, SubmissionIds \X Rounds, InterviewRow)
  BY <1>1, EmptyIsTable
<1>4. TypeOK
  BY <1>1, <1>2, <1>3 DEF TypeOK
<1>5. BlocksMirrorsStatus /\ NoUnreviewedConsultant /\ ClosureMatchesStage
  BY <1>2 DEF BlocksMirrorsStatus, NoUnreviewedConsultant, ClosureMatchesStage
<1>6. \A r, c : find_live(submissions, r, c) = {}
  BY <1>2 DEF find_live
<1>7. OneLiveSubmission
  BY <1>6 DEF OneLiveSubmission
<1> QED
  BY <1>4, <1>5, <1>7 DEF IInv

\* The conjuncts of IInv that say nothing about what an action leaves alone.
LEMMA Untouched ==
  ASSUME IInv
  PROVE  /\ UNCHANGED << submissions, awaiting_review >> =>
              /\ BlocksMirrorsStatus' /\ OneLiveSubmission'
              /\ NoUnreviewedConsultant'
         /\ UNCHANGED opportunities => ClosureMatchesStage'
  BY DEF IInv, BlocksMirrorsStatus, OneLiveSubmission, NoUnreviewedConsultant,
         ClosureMatchesStage, find_live

LEMMA NextPreserves == IInv /\ [Next]_tables => IInv'
<1> SUFFICES ASSUME IInv, [Next]_tables PROVE IInv'
  OBVIOUS
<1> USE PipelineInputs
<1>1. ASSUME NEW r \in Requirements, OpenOpportunity(r)
      PROVE  IInv'
  <2>1. /\ IsTable(opportunities', Requirements, OpportunityRow)
        /\ DOMAIN opportunities' = DOMAIN opportunities \cup { r }
        /\ ClosureMatchesStage'
    BY <1>1, NewOpportunityRow, WriteOpportunity DEF OpenOpportunity
  <2> QED
    BY <1>1, <2>1, Untouched DEF OpenOpportunity, IInv, TypeOK
<1>2. ASSUME NEW r \in Requirements, NEW target \in StageInputs,
             NEW noted \in BOOLEAN, ChangeStage(r, target, noted)
      PROVE  IInv'
  <2>1. /\ opportunities[r] \in OpportunityRow
        /\ opportunities[r].closed <=> is_terminal(opportunities[r].stage)
        /\ target \in OpportunityStage
    BY <1>2 DEF ChangeStage, IInv, TypeOK, IsTable, ClosureMatchesStage
  <2> DEFINE o == change_stage(opportunities[r], target)
  <2>2. o \in OpportunityRow /\ (o.closed <=> is_terminal(o.stage))
    BY <2>1, ChangeStageRow
  <2>3. opportunities' = Put(opportunities, r, o)
    BY <1>2 DEF ChangeStage
  <2> HIDE DEF o
  <2>4. /\ IsTable(opportunities', Requirements, OpportunityRow)
        /\ DOMAIN opportunities' = DOMAIN opportunities \cup { r }
        /\ ClosureMatchesStage'
    BY <2>2, <2>3, WriteOpportunity
  <2> QED
    BY <1>2, <2>4, Untouched DEF ChangeStage, IInv, TypeOK
<1>3. ASSUME NEW r \in Requirements, NEW decision \in DecisionInputs,
             NEW reasoned \in BOOLEAN, RecordDecision(r, decision, reasoned)
      PROVE  IInv'
  <2>1. /\ opportunities' = [ opportunities EXCEPT ![r].decision = decision ]
        /\ r \in DOMAIN opportunities
        /\ decision \in OpportunityDecision
    BY <1>3 DEF RecordDecision
  <2>2. IsTable(opportunities', Requirements, OpportunityRow)
    <3>1. IsTable(opportunities, Requirements, OpportunityRow)
      BY DEF IInv, TypeOK
    <3>2. \A o \in OpportunityRow :
            [ o EXCEPT !.decision = decision ] \in OpportunityRow
      BY <2>1 DEF OpportunityRow
    <3>3. opportunities' =
            [ k \in DOMAIN opportunities |->
                IF k = r THEN [ opportunities[r] EXCEPT !.decision = decision ]
                         ELSE opportunities[k] ]
      BY <2>1
    <3> QED
      BY <3>1, <3>2, <3>3 DEF IsTable
  <2>3. DOMAIN opportunities' = DOMAIN opportunities
    BY <2>1
  <2>4. ASSUME NEW k \in DOMAIN opportunities
        PROVE  /\ opportunities'[k].closed = opportunities[k].closed
               /\ opportunities'[k].stage = opportunities[k].stage
    BY <2>1 DEF IInv, TypeOK, IsTable, OpportunityRow
  <2>5. ClosureMatchesStage'
    BY <2>3, <2>4 DEF IInv, ClosureMatchesStage, is_terminal
  <2> QED
    BY <1>3, <2>2, <2>3, <2>5, Untouched DEF RecordDecision, IInv, TypeOK
<1>4. ASSUME NEW r \in Requirements, NEW s \in SubmissionIds,
             NEW c \in Resources, NEW status \in StatusInputs,
             CreateSubmission(s, r, c, status)
      PROVE  IInv'
  <2> DEFINE old == IF r \in DOMAIN opportunities
                    THEN opportunities[r] ELSE new_opportunity
             o   == advance_opportunity(old, status)
             new == new_submission(r, c, status)
  <2>1. old \in OpportunityRow /\ (old.closed <=> is_terminal(old.stage))
    <3>1. CASE r \in DOMAIN opportunities
      BY <3>1 DEF IInv, TypeOK, IsTable, ClosureMatchesStage
    <3>2. CASE r \notin DOMAIN opportunities
      BY <3>2, NewOpportunityRow
    <3> QED BY <3>1, <3>2
  <2>2. o \in OpportunityRow /\ (o.closed <=> is_terminal(o.stage))
    <3> HIDE DEF old
    <3> QED BY <2>1, AdvanceRow
  <2>3. /\ new \in SubmissionRow /\ (new.blocks <=> live(new))
        /\ new.requirement = r /\ new.resource = c
    BY NewSubmissionRow
  <2>4. /\ submissions' = Put(submissions, s, new)
        /\ opportunities' = Put(opportunities, r, o)
        /\ seat_is_free(submissions, s, new)
        /\ c \notin awaiting_review
        /\ UNCHANGED << interviews, awaiting_review >>
    BY <1>4 DEF CreateSubmission, may_submit
  <2> HIDE DEF o, new
  <2>5. /\ IsTable(opportunities', Requirements, OpportunityRow)
        /\ DOMAIN opportunities' = DOMAIN opportunities \cup { r }
        /\ ClosureMatchesStage'
    BY <2>2, <2>4, WriteOpportunity
  <2>6. /\ IsTable(submissions', SubmissionIds, SubmissionRow)
        /\ DOMAIN submissions' = DOMAIN submissions \cup { s }
        /\ submissions'[s] = new
        /\ \A t \in DOMAIN submissions \ { s } : submissions'[t] = submissions[t]
        /\ BlocksMirrorsStatus' /\ OneLiveSubmission' /\ NoUnreviewedConsultant'
    BY <2>3, <2>4, WriteSubmission
  <2> QED
    BY <2>3, <2>4, <2>5, <2>6 DEF IInv, TypeOK
<1>5. ASSUME NEW s \in SubmissionIds, NEW target \in StatusInputs,
             NEW reasoned \in BOOLEAN, ChangeStatus(s, target, reasoned)
      PROVE  IInv'
  <2>1. /\ s \in DOMAIN submissions /\ target \in SubmissionStatus
        /\ MoveSubmission(s, target)
        /\ UNCHANGED << interviews, awaiting_review >>
    BY <1>5 DEF ChangeStatus
  <2> QED
    BY <2>1, MoveKeeps DEF IInv, TypeOK
<1>6. ASSUME NEW s \in SubmissionIds, ScheduleInterview(s)
      PROVE  IInv'
  <2>1. /\ IsTable(interviews', SubmissionIds \X Rounds, InterviewRow)
        /\ DOMAIN interviews'
             = DOMAIN interviews \cup { << s, next_round(s) >> }
    <3> DEFINE i   == << s, next_round(s) >>
               row == [ outcome |-> "SCHEDULED", reminded |-> TRUE ]
    <3>1. /\ i \in SubmissionIds \X Rounds
          /\ interviews' = Put(interviews, i, row)
      BY <1>6 DEF ScheduleInterview
    <3>2. row \in InterviewRow
      BY DEF InterviewRow, InterviewOutcome
    <3>3. IsTable(interviews, SubmissionIds \X Rounds, InterviewRow)
      BY DEF IInv, TypeOK
    <3> HIDE DEF i, row
    <3>4. /\ IsTable(interviews', SubmissionIds \X Rounds, InterviewRow)
          /\ DOMAIN interviews' = DOMAIN interviews \cup { i }
      BY <3>1, <3>2, <3>3, PutTable
    <3> QED BY <3>4 DEF i
  <2>2. \A i \in DOMAIN interviews' : i[1] \in DOMAIN submissions
    BY <1>6, <2>1 DEF ScheduleInterview, IInv, TypeOK
  <2>3. s \in DOMAIN submissions /\ UNCHANGED awaiting_review
    BY <1>6 DEF ScheduleInterview
  <2>4. CASE UNCHANGED << submissions, opportunities >>
    BY <2>1, <2>2, <2>3, <2>4, Untouched DEF IInv, TypeOK
  <2>5. CASE MoveSubmission(s, "INTERVIEW")
    BY <2>1, <2>2, <2>3, <2>5, MoveKeeps DEF IInv, TypeOK, SubmissionStatus
  <2> QED
    BY <1>6, <2>4, <2>5 DEF ScheduleInterview
<1>7. ASSUME NEW s \in SubmissionIds, NEW n \in Rounds,
             NEW outcome \in OutcomeInputs, RecordOutcome(s, n, outcome)
      PROVE  IInv'
  <2>1. /\ << s, n >> \in DOMAIN interviews
        /\ interviews' = [ interviews EXCEPT ![<< s, n >>].outcome = outcome ]
        /\ outcome \in InterviewOutcome
        /\ UNCHANGED awaiting_review
    BY <1>7 DEF RecordOutcome
  <2>2. /\ IsTable(interviews', SubmissionIds \X Rounds, InterviewRow)
        /\ DOMAIN interviews' = DOMAIN interviews
    BY <2>1 DEF IInv, TypeOK, IsTable, InterviewRow
  <2>3. /\ \A i \in DOMAIN interviews' : i[1] \in DOMAIN submissions
        /\ s \in DOMAIN submissions
    BY <2>1, <2>2 DEF IInv, TypeOK
  <2>4. CASE UNCHANGED << submissions, opportunities >>
    BY <2>1, <2>2, <2>3, <2>4, Untouched DEF IInv, TypeOK
  <2>5. CASE MoveSubmission(s, "SELECTED")
    BY <2>1, <2>2, <2>3, <2>5, MoveKeeps DEF IInv, TypeOK, SubmissionStatus
  <2> QED
    BY <1>7, <2>4, <2>5 DEF RecordOutcome
<1>8. ASSUME NEW c \in Resources, AcceptProfile(c)
      PROVE  IInv'
  <2>1. /\ TypeOK' /\ ClosureMatchesStage'
    BY <1>8, Untouched DEF AcceptProfile, IInv, TypeOK
  <2>2. /\ BlocksMirrorsStatus' /\ OneLiveSubmission' /\ NoUnreviewedConsultant'
    BY <1>8 DEF AcceptProfile, IInv, BlocksMirrorsStatus, OneLiveSubmission,
                NoUnreviewedConsultant, find_live
  <2> QED BY <2>1, <2>2 DEF IInv
<1>9. CASE UNCHANGED tables
  BY <1>9, Untouched DEF tables, IInv, TypeOK
<1> QED
  BY <1>1, <1>2, <1>3, <1>4, <1>5, <1>6, <1>7, <1>8, <1>9 DEF Next

-----------------------------------------------------------------------------
(* What holds in every reachable state.                                    *)

LEMMA Invariant == Spec => []IInv
  BY InitEstablishes, NextPreserves, PTL DEF Spec

\* Every row keeps its columns' types and its foreign keys.
THEOREM TypeCorrect == Spec => []TypeOK
<1>1. IInv => TypeOK
  BY DEF IInv
<1> QED
  BY <1>1, Invariant, PTL

\* No consultant is ever twice live on the same requirement.
THEOREM OneLive == Spec => []OneLiveSubmission
<1>1. IInv => OneLiveSubmission
  BY DEF IInv
<1> QED
  BY <1>1, Invariant, PTL

\* The blocking column never disagrees with the status, nor the closure of an
\* opportunity with its stage.
THEOREM ColumnsKeepAgreeing == Spec => []ColumnsAgree
<1>1. IInv => ColumnsAgree
  BY DEF IInv, ColumnsAgree
<1> QED
  BY <1>1, Invariant, PTL

\* No consultant awaiting review was ever submitted.
THEOREM NoneUnreviewed == Spec => []NoUnreviewedConsultant
<1>1. IInv => NoUnreviewedConsultant
  BY DEF IInv
<1> QED
  BY <1>1, Invariant, PTL

-----------------------------------------------------------------------------
(* The pipeline implements SeatRegistry.                                   *)

\* While no pair has two live submissions, the holder of a seat is the set of
\* the live submissions of its pair.
LEMMA HolderIsLive ==
  ASSUME OneLiveSubmission, NEW p \in Requirements \X Resources
  PROVE  holder[p] = find_live(submissions, p[1], p[2])
<1> DEFINE L == find_live(submissions, p[1], p[2])
<1>1. \A s, t \in L : s = t
  BY DEF OneLiveSubmission
<1>2. holder[p] = IF L = {} THEN {} ELSE { CHOOSE s \in L : TRUE }
  BY DEF holder
<1> HIDE DEF L
<1>3. CASE L = {}
  BY <1>2, <1>3 DEF L
<1>4. CASE L # {}
  <2>1. (CHOOSE s \in L : TRUE) \in L
    BY <1>4
  <2>2. L = { CHOOSE s \in L : TRUE }
    BY <1>1, <2>1
  <2> QED
    BY <1>2, <1>4, <2>2 DEF L
<1> QED
  BY <1>3, <1>4

\* Writing one submission claims its seat, releases it, or changes no seat.
LEMMA WriteMapsToSeats ==
  ASSUME IInv, IInv', NEW s \in SubmissionIds, NEW row \in SubmissionRow,
         row.blocks <=> live(row),
         seat_is_free(submissions, s, row),
         s \in DOMAIN submissions =>
           /\ submissions[s].requirement = row.requirement
           /\ submissions[s].resource = row.resource,
         submissions' = Put(submissions, s, row)
  PROVE  [Seats!Next]_holder
<1> DEFINE pair == << row.requirement, row.resource >>
           L(p) == find_live(submissions, p[1], p[2])
           M(p) == find_live(submissions', p[1], p[2])
<1>1. /\ pair \in Requirements \X Resources
      /\ pair[1] = row.requirement /\ pair[2] = row.resource
  BY DEF SubmissionRow
<1>2. /\ DOMAIN submissions' = DOMAIN submissions \cup { s }
      /\ submissions'[s] = row
      /\ \A t \in DOMAIN submissions \ { s } : submissions'[t] = submissions[t]
  BY DEF Put
<1>3. \A p \in Requirements \X Resources : holder[p] = L(p)
  BY HolderIsLive DEF IInv
<1>4. \A p \in Requirements \X Resources : holder'[p] = M(p)
  <2>1. OneLiveSubmission'
    BY DEF IInv
  <2>2. ASSUME NEW p \in Requirements \X Resources
        PROVE  \A x, y \in M(p) : x = y
    BY <2>1 DEF OneLiveSubmission
  <2>3. holder' = [ p \in Requirements \X Resources |->
                      IF M(p) = {} THEN {} ELSE { CHOOSE x \in M(p) : TRUE } ]
    BY DEF holder
  <2> HIDE DEF M
  <2>4. ASSUME NEW p \in Requirements \X Resources
        PROVE  holder'[p] = M(p)
    <3>1. CASE M(p) = {}
      BY <2>3, <3>1
    <3>2. CASE M(p) # {}
      <4>1. (CHOOSE x \in M(p) : TRUE) \in M(p)
        BY <3>2
      <4>2. M(p) = { CHOOSE x \in M(p) : TRUE }
        BY <2>2, <4>1
      <4> QED BY <2>3, <3>2, <4>2
    <3> QED BY <3>1, <3>2
  <2> QED BY <2>4
<1>5. ASSUME NEW p \in Requirements \X Resources, p # pair
      PROVE  M(p) = L(p)
  <2>1. p[1] # row.requirement \/ p[2] # row.resource
    BY <1>1, <1>5
  <2> QED
    BY <1>2, <2>1 DEF find_live
<1>6. M(pair) = (L(pair) \ { s }) \cup IF live(row) THEN { s } ELSE {}
  BY <1>1, <1>2 DEF find_live
<1>7. live(row) => L(pair) \ { s } = {}
  <2>1. ASSUME live(row), NEW t \in L(pair), t # s PROVE FALSE
    BY <1>1, <2>1 DEF find_live, seat_is_free, IInv, BlocksMirrorsStatus
  <2> QED BY <2>1
<1>8. \A x, y \in L(pair) : x = y
  BY <1>1 DEF IInv, OneLiveSubmission
<1>9. /\ holder = [ p \in Requirements \X Resources |-> holder[p] ]
      /\ holder' = [ p \in Requirements \X Resources |-> holder'[p] ]
  BY DEF holder
<1> HIDE DEF pair, L, M
<1>10. holder' = [ holder EXCEPT ![pair] = M(pair) ]
  BY <1>1, <1>3, <1>4, <1>5, <1>9
<1>11. holder[pair] = L(pair)
  BY <1>1, <1>3
<1>12. CASE live(row) /\ L(pair) = {}
  <2>1. Seats!Claim(pair, s)
    BY <1>6, <1>10, <1>11, <1>12 DEF Seats!Claim
  <2> QED
    BY <1>1, <2>1 DEF Seats!Next
<1>13. CASE ~ live(row) /\ s \in L(pair)
  <2>1. M(pair) = {}
    BY <1>6, <1>8, <1>13
  <2>2. Seats!Release(pair)
    BY <1>10, <1>11, <1>13, <2>1 DEF Seats!Release
  <2> QED
    BY <1>1, <2>2 DEF Seats!Next
<1>14. CASE M(pair) = L(pair)
  BY <1>9, <1>10, <1>11, <1>14
<1> QED
  BY <1>6, <1>7, <1>12, <1>13, <1>14

LEMMA MoveMapsToSeats ==
  ASSUME IInv, IInv', NEW s \in DOMAIN submissions,
         NEW target \in SubmissionStatus, MoveSubmission(s, target)
  PROVE  [Seats!Next]_holder
<1> DEFINE new == change_status(submissions[s], target)
<1>1. s \in SubmissionIds /\ submissions[s] \in SubmissionRow
  BY DEF IInv, TypeOK, IsTable
<1>2. /\ new \in SubmissionRow /\ (new.blocks <=> live(new))
      /\ new.requirement = submissions[s].requirement
      /\ new.resource = submissions[s].resource
  BY <1>1, ChangeStatusRow
<1>3. seat_is_free(submissions, s, new) /\ submissions' = Put(submissions, s, new)
  BY DEF MoveSubmission
<1> HIDE DEF new
<1> QED
  BY <1>1, <1>2, <1>3, WriteMapsToSeats

LEMMA StepMapsToSeats == IInv /\ IInv' /\ [Next]_tables => [Seats!Next]_holder
<1> SUFFICES ASSUME IInv, IInv', [Next]_tables PROVE [Seats!Next]_holder
  OBVIOUS
<1> USE PipelineInputs
<1>1. CASE UNCHANGED submissions
  BY <1>1 DEF holder, find_live
<1>2. ASSUME NEW r \in Requirements, NEW s \in SubmissionIds,
             NEW c \in Resources, NEW status \in StatusInputs,
             CreateSubmission(s, r, c, status)
      PROVE  [Seats!Next]_holder
  <2> DEFINE new == new_submission(r, c, status)
  <2>1. new \in SubmissionRow /\ (new.blocks <=> live(new))
    BY NewSubmissionRow
  <2>2. /\ s \notin DOMAIN submissions
        /\ seat_is_free(submissions, s, new)
        /\ submissions' = Put(submissions, s, new)
    BY <1>2 DEF CreateSubmission
  <2> HIDE DEF new
  <2> QED
    BY <2>1, <2>2, WriteMapsToSeats
<1>3. ASSUME NEW s \in SubmissionIds, NEW target \in StatusInputs,
             NEW reasoned \in BOOLEAN, ChangeStatus(s, target, reasoned)
      PROVE  [Seats!Next]_holder
  BY <1>3, MoveMapsToSeats DEF ChangeStatus
<1>4. ASSUME NEW s \in SubmissionIds, ScheduleInterview(s)
      PROVE  [Seats!Next]_holder
  BY <1>1, <1>4, MoveMapsToSeats DEF ScheduleInterview, SubmissionStatus
<1>5. ASSUME NEW s \in SubmissionIds, NEW n \in Rounds,
             NEW outcome \in OutcomeInputs, RecordOutcome(s, n, outcome)
      PROVE  [Seats!Next]_holder
  <2>1. s \in DOMAIN submissions
    BY <1>5 DEF RecordOutcome, IInv, TypeOK
  <2> QED
    BY <1>1, <1>5, <2>1, MoveMapsToSeats DEF RecordOutcome, SubmissionStatus
<1>6. ASSUME NEW r \in Requirements, OpenOpportunity(r)
      PROVE  UNCHANGED submissions
  BY <1>6 DEF OpenOpportunity
<1>7. ASSUME NEW r \in Requirements, NEW target \in StageInputs,
             NEW noted \in BOOLEAN, ChangeStage(r, target, noted)
      PROVE  UNCHANGED submissions
  BY <1>7 DEF ChangeStage
<1>8. ASSUME NEW r \in Requirements, NEW decision \in DecisionInputs,
             NEW reasoned \in BOOLEAN, RecordDecision(r, decision, reasoned)
      PROVE  UNCHANGED submissions
  BY <1>8 DEF RecordDecision
<1>9. ASSUME NEW c \in Resources, AcceptProfile(c)
      PROVE  UNCHANGED submissions
  BY <1>9 DEF AcceptProfile
<1>10. CASE UNCHANGED tables
  BY <1>1, <1>10 DEF tables
<1> QED
  BY <1>1, <1>2, <1>3, <1>4, <1>5, <1>6, <1>7, <1>8, <1>9, <1>10 DEF Next

\* Every step of the pipeline claims one free seat, releases one, or leaves
\* all seats alone: a seat never passes from one submission to another directly.
THEOREM PipelineImplementsSeats == Spec => SeatsAreExclusive
<1>1. Init => Seats!Init
  <2> SUFFICES ASSUME Init PROVE holder = [ seat \in Requirements \X Resources |-> {} ]
    BY DEF Seats!Init
  <2>1. submissions = EmptyTable /\ DOMAIN EmptyTable = {}
    BY DEF Init, no_rows, EmptyTable
  <2>2. \A p \in Requirements \X Resources : find_live(submissions, p[1], p[2]) = {}
    BY <2>1 DEF find_live
  <2> QED
    BY <2>2 DEF holder
<1> QED
  BY <1>1, Invariant, StepMapsToSeats, PTL DEF Spec, SeatsAreExclusive, Seats!Spec

-----------------------------------------------------------------------------
(* The board follows the submissions.                                      *)

\* A position on the ladder is a number; past its end stand the closures.
LEMMA StageIndexIsNat ==
  ASSUME NEW stage \in OpportunityStage
  PROVE  stage_index(stage) \in Nat
<1> DEFINE at(i) == STAGE_ORDER[i] = stage
           place == CHOOSE i \in DOMAIN STAGE_ORDER : at(i)
<1>1. Len(STAGE_ORDER) = 12 /\ DOMAIN STAGE_ORDER = 1..12
  BY DEF STAGE_ORDER
<1>2. CASE is_terminal(stage)
  BY <1>1, <1>2 DEF stage_index
<1>3. CASE ~ is_terminal(stage)
  <2>1. \E i \in DOMAIN STAGE_ORDER : at(i)
    BY <1>3 DEF OpportunityStage, is_terminal
  <2>2. place \in DOMAIN STAGE_ORDER
    BY <2>1, Zenon
  <2>3. stage_index(stage) = place - 1
    BY <1>3, Zenon DEF stage_index
  <2> HIDE DEF place
  <2> QED
    BY <1>1, <2>2, <2>3
<1> QED
  BY <1>2, <1>3

\* The automatic move: never back, never out of a closure or into one, and as
\* far as the hint unless the opportunity is closed.
LEMMA AdvanceIsForward ==
  ASSUME NEW o \in OpportunityRow, NEW status
  PROVE  LET a == advance_opportunity(o, status) IN
         /\ a.stage # o.stage =>
              /\ ~ is_terminal(o.stage)
              /\ is_forward(o.stage, a.stage)
              /\ ~ is_terminal(a.stage)
              /\ a.stage = SUBMISSION_STAGE_HINTS[status]
              /\ advances(o.stage, status)
         /\ status \in DOMAIN SUBMISSION_STAGE_HINTS =>
              \/ is_terminal(a.stage)
              \/ stage_index(SUBMISSION_STAGE_HINTS[status])
                   <= stage_index(a.stage)
<1> DEFINE a    == advance_opportunity(o, status)
           hint == SUBMISSION_STAGE_HINTS[status]
<1>1. o.stage \in OpportunityStage /\ stage_index(o.stage) \in Nat
  BY StageIndexIsNat DEF OpportunityRow
<1>2. status \in DOMAIN SUBMISSION_STAGE_HINTS =>
        ~ is_terminal(hint) /\ stage_index(hint) \in Nat
  BY HintsAreOpenStages, StageIndexIsNat
<1>3. CASE advances(o.stage, status)
  <2>1. a.stage = hint
    BY <1>3 DEF advance_opportunity, change_stage, OpportunityRow
  <2>2. /\ status \in DOMAIN SUBMISSION_STAGE_HINTS
        /\ ~ is_terminal(o.stage) /\ is_forward(o.stage, hint)
    BY <1>3 DEF advances, is_forward
  <2> HIDE DEF a, hint
  <2>3. stage_index(hint) <= stage_index(a.stage)
    BY <1>2, <2>1, <2>2
  <2> QED
    BY <1>2, <1>3, <2>1, <2>2, <2>3 DEF a, hint
<1>4. CASE ~ advances(o.stage, status)
  <2>1. a = o
    BY <1>4 DEF advance_opportunity
  <2>2. status \in DOMAIN SUBMISSION_STAGE_HINTS =>
          is_terminal(o.stage) \/ stage_index(hint) <= stage_index(o.stage)
    <3>1. status \in DOMAIN SUBMISSION_STAGE_HINTS =>
            is_terminal(o.stage) \/ ~ (stage_index(hint) > stage_index(o.stage))
      BY <1>4 DEF advances
    <3> HIDE DEF hint
    <3> QED
      BY <1>1, <1>2, <3>1
  <2> QED
    BY <2>1, <2>2
<1> QED
  BY <1>3, <1>4

\* A request that writes a submission writes its opportunity with it.
Submits(s, row, o) ==
  /\ row \in SubmissionRow /\ o \in OpportunityRow
  /\ IF row.requirement \in DOMAIN opportunities
     THEN o = opportunities[row.requirement] ELSE o = new_opportunity
  /\ submissions' = Put(submissions, s, row)
  /\ opportunities' = Put(opportunities, row.requirement,
                          advance_opportunity(o, row.status))
  /\ /\ advances(o.stage, row.status)
     /\ SUBMISSION_STAGE_HINTS[row.status] \in STAGES_REQUIRING_SUBMISSION
     => \/ has_live_submission(submissions, row.requirement)
        \/ s \notin DOMAIN submissions /\ live(row)

\* A stage that needs a submission is entered by hand only over one.
MovesByHand ==
  \A r \in DOMAIN opportunities' :
    /\ r \in DOMAIN opportunities =>
         opportunities[r].stage # opportunities'[r].stage
    /\ opportunities'[r].stage \in STAGES_REQUIRING_SUBMISSION
    => has_live_submission(submissions, r)

LEMMA MoveSubmits ==
  ASSUME IInv, NEW s \in DOMAIN submissions, NEW target \in SubmissionStatus,
         MoveSubmission(s, target)
  PROVE  \E row, o : Submits(s, row, o)
<1> DEFINE old == submissions[s]
           row == change_status(old, target)
           o   == opportunities[old.requirement]
<1>1. /\ old \in SubmissionRow /\ old.requirement \in DOMAIN opportunities
      /\ o \in OpportunityRow
  BY DEF IInv, TypeOK, IsTable
<1>2. /\ row \in SubmissionRow /\ row.requirement = old.requirement
      /\ row.status = target
  BY <1>1, ChangeStatusRow DEF change_status, SubmissionRow
<1>3. /\ submissions' = Put(submissions, s, row)
      /\ opportunities' =
           Put(opportunities, old.requirement, advance_opportunity(o, target))
      /\ may_advance(o.stage, target, submissions, old.requirement)
  BY DEF MoveSubmission
<1> HIDE DEF row, o
<1>4. Submits(s, row, o)
  BY <1>1, <1>2, <1>3 DEF Submits, may_advance, may_change_stage, o
<1> QED
  BY <1>4

LEMMA CreateSubmits ==
  ASSUME IInv, NEW s \in SubmissionIds, NEW r \in Requirements,
         NEW c \in Resources, NEW status \in SubmissionStatus,
         CreateSubmission(s, r, c, status)
  PROVE  \E row, o : Submits(s, row, o)
<1> DEFINE row == new_submission(r, c, status)
           o   == IF r \in DOMAIN opportunities
                  THEN opportunities[r] ELSE new_opportunity
<1>1. o \in OpportunityRow
  BY NewOpportunityRow DEF IInv, TypeOK, IsTable
<1>2. /\ row \in SubmissionRow /\ row.requirement = r /\ row.status = status
      /\ row.blocks <=> live(row)
  BY NewSubmissionRow DEF new_submission
<1>3. /\ s \notin DOMAIN submissions
      /\ submissions' = Put(submissions, s, row)
      /\ opportunities' = Put(opportunities, r, advance_opportunity(o, status))
  BY DEF CreateSubmission
<1>4. advances(o.stage, status) => live(row)
  <2>1. DOMAIN SUBMISSION_STAGE_HINTS \subseteq BLOCKING_SUBMISSION_STATUSES
    BY DEF SUBMISSION_STAGE_HINTS, BLOCKING_SUBMISSION_STATUSES, SubmissionStatus
  <2> HIDE DEF row
  <2> QED
    BY <1>2, <2>1 DEF advances, live
<1>5. IF r \in DOMAIN opportunities
      THEN o = opportunities[r] ELSE o = new_opportunity
  OBVIOUS
<1> HIDE DEF row, o
<1>6. Submits(s, row, o)
  BY <1>1, <1>2, <1>3, <1>4, <1>5 DEF Submits
<1> QED
  BY <1>6

\* Every step writes one submission with its opportunity, or none.
LEMMA StepSubmitsOrNot ==
  ASSUME IInv, Next
  PROVE  \/ \E s, row, o : Submits(s, row, o)
         \/ UNCHANGED submissions /\ MovesByHand
<1> USE PipelineInputs
<1>1. ASSUME NEW r \in Requirements, OpenOpportunity(r)
      PROVE  UNCHANGED submissions /\ MovesByHand
  <2>1. /\ UNCHANGED submissions
        /\ opportunities' = Put(opportunities, r, new_opportunity)
    BY <1>1 DEF OpenOpportunity
  <2>2. new_opportunity.stage \notin STAGES_REQUIRING_SUBMISSION
    BY DEF new_opportunity, STAGES_REQUIRING_SUBMISSION
  <2> QED
    BY <2>1, <2>2 DEF MovesByHand, Put
<1>2. ASSUME NEW r \in Requirements, NEW target \in StageInputs,
             NEW noted \in BOOLEAN, ChangeStage(r, target, noted)
      PROVE  UNCHANGED submissions /\ MovesByHand
  <2> DEFINE o == change_stage(opportunities[r], target)
  <2>1. /\ UNCHANGED submissions
        /\ opportunities' = Put(opportunities, r, o)
        /\ target \in STAGES_REQUIRING_SUBMISSION =>
             has_live_submission(submissions, r)
    BY <1>2 DEF ChangeStage, may_change_stage
  <2>2. o.stage = target
    BY <1>2 DEF ChangeStage, IInv, TypeOK, IsTable, change_stage, OpportunityRow
  <2> HIDE DEF o
  <2> QED
    BY <2>1, <2>2 DEF MovesByHand, Put
<1>3. ASSUME NEW r \in Requirements, NEW decision \in DecisionInputs,
             NEW reasoned \in BOOLEAN, RecordDecision(r, decision, reasoned)
      PROVE  UNCHANGED submissions /\ MovesByHand
  <2>1. /\ UNCHANGED submissions
        /\ opportunities' = [ opportunities EXCEPT ![r].decision = decision ]
        /\ r \in DOMAIN opportunities /\ opportunities[r] \in OpportunityRow
    BY <1>3 DEF RecordDecision, IInv, TypeOK, IsTable
  <2>2. \A k \in DOMAIN opportunities' :
          /\ k \in DOMAIN opportunities
          /\ opportunities'[k].stage = opportunities[k].stage
    BY <2>1 DEF OpportunityRow
  <2> QED
    BY <2>1, <2>2 DEF MovesByHand
<1>4. ASSUME NEW r \in Requirements, NEW s \in SubmissionIds, NEW c \in Resources,
             NEW status \in StatusInputs, CreateSubmission(s, r, c, status)
      PROVE  \E row, o : Submits(s, row, o)
  BY <1>4, CreateSubmits
<1>5. ASSUME UNCHANGED << submissions, opportunities >>
      PROVE  UNCHANGED submissions /\ MovesByHand
  BY <1>5 DEF MovesByHand
<1>6. ASSUME NEW s \in SubmissionIds, NEW target \in StatusInputs,
             NEW reasoned \in BOOLEAN, ChangeStatus(s, target, reasoned)
      PROVE  \E row, o : Submits(s, row, o)
  BY <1>6, MoveSubmits DEF ChangeStatus
<1>7. ASSUME NEW s \in SubmissionIds, ScheduleInterview(s)
      PROVE  \/ \E row, o : Submits(s, row, o)
             \/ UNCHANGED << submissions, opportunities >>
  BY <1>7, MoveSubmits DEF ScheduleInterview, SubmissionStatus
<1>8. ASSUME NEW s \in SubmissionIds, NEW n \in Rounds,
             NEW outcome \in OutcomeInputs, RecordOutcome(s, n, outcome)
      PROVE  \/ \E row, o : Submits(s, row, o)
             \/ UNCHANGED << submissions, opportunities >>
  <2>1. s \in DOMAIN submissions
    BY <1>8 DEF RecordOutcome, IInv, TypeOK
  <2> QED
    BY <1>8, <2>1, MoveSubmits DEF RecordOutcome, SubmissionStatus
<1>9. ASSUME NEW c \in Resources, AcceptProfile(c)
      PROVE  UNCHANGED << submissions, opportunities >>
  BY <1>9 DEF AcceptProfile
<1> QED
  BY <1>1, <1>2, <1>3, <1>4, <1>5, <1>6, <1>7, <1>8, <1>9 DEF Next

LEMMA SubmittingFollows ==
  ASSUME IInv, NEW s, NEW row, NEW o, Submits(s, row, o)
  PROVE  /\ \A r \in DOMAIN opportunities :
              opportunities'[r].stage # opportunities[r].stage =>
                /\ ~ is_terminal(opportunities[r].stage)
                /\ is_forward(opportunities[r].stage, opportunities'[r].stage)
                /\ ~ is_terminal(opportunities'[r].stage)
         /\ \A t \in DOMAIN submissions' :
              LET new   == submissions'[t]
                  stage == opportunities'[new.requirement].stage
              IN  /\ t \in DOMAIN submissions => submissions[t].status # new.status
                  /\ new.status \in DOMAIN SUBMISSION_STAGE_HINTS
                  => \/ is_terminal(stage)
                     \/ stage_index(SUBMISSION_STAGE_HINTS[new.status])
                          <= stage_index(stage)
         /\ \A r \in DOMAIN opportunities' :
              LET stage == opportunities'[r].stage IN
                /\ r \in DOMAIN opportunities => opportunities[r].stage # stage
                /\ stage \in STAGES_REQUIRING_SUBMISSION
                => \/ has_live_submission(submissions, r)
                   \/ \E t \in DOMAIN submissions' \ DOMAIN submissions :
                        /\ submissions'[t].requirement = r
                        /\ live(submissions'[t])
<1> DEFINE a == advance_opportunity(o, row.status)
           k == row.requirement
<1>1. /\ DOMAIN opportunities' = DOMAIN opportunities \cup { k }
      /\ opportunities'[k] = a
      /\ \A r \in DOMAIN opportunities \ { k } :
           opportunities'[r] = opportunities[r]
  BY DEF Submits, Put
<1>2. /\ DOMAIN submissions' = DOMAIN submissions \cup { s }
      /\ submissions'[s] = row
      /\ \A t \in DOMAIN submissions \ { s } : submissions'[t] = submissions[t]
  BY DEF Submits, Put
<1>3. /\ a.stage # o.stage =>
           /\ ~ is_terminal(o.stage)
           /\ is_forward(o.stage, a.stage)
           /\ ~ is_terminal(a.stage)
           /\ a.stage = SUBMISSION_STAGE_HINTS[row.status]
           /\ advances(o.stage, row.status)
      /\ row.status \in DOMAIN SUBMISSION_STAGE_HINTS =>
           \/ is_terminal(a.stage)
           \/ stage_index(SUBMISSION_STAGE_HINTS[row.status])
                <= stage_index(a.stage)
  BY AdvanceIsForward DEF Submits
<1>4. k \in DOMAIN opportunities => o = opportunities[k]
  BY DEF Submits
<1>5. k \notin DOMAIN opportunities =>
        o.stage \notin STAGES_REQUIRING_SUBMISSION
  BY DEF Submits, new_opportunity, STAGES_REQUIRING_SUBMISSION
<1>6. /\ a.stage # o.stage
      /\ a.stage \in STAGES_REQUIRING_SUBMISSION
      => \/ has_live_submission(submissions, k)
         \/ s \notin DOMAIN submissions /\ live(row)
  BY <1>3 DEF Submits
<1> HIDE DEF a
<1>7. ASSUME NEW r \in DOMAIN opportunities,
             opportunities'[r].stage # opportunities[r].stage
      PROVE  /\ ~ is_terminal(opportunities[r].stage)
             /\ is_forward(opportunities[r].stage, opportunities'[r].stage)
             /\ ~ is_terminal(opportunities'[r].stage)
  BY <1>1, <1>3, <1>4, <1>7
<1>8. ASSUME NEW t \in DOMAIN submissions',
             t \in DOMAIN submissions =>
               submissions[t].status # submissions'[t].status
      PROVE  t = s
  BY <1>2, <1>8
<1>9. ASSUME NEW r \in DOMAIN opportunities',
             r \in DOMAIN opportunities =>
               opportunities[r].stage # opportunities'[r].stage,
             opportunities'[r].stage \in STAGES_REQUIRING_SUBMISSION
      PROVE  \/ has_live_submission(submissions, r)
             \/ \E t \in DOMAIN submissions' \ DOMAIN submissions :
                  /\ submissions'[t].requirement = r
                  /\ live(submissions'[t])
  <2>1. r = k
    BY <1>1, <1>9
  <2>2. a.stage # o.stage
    BY <1>1, <1>4, <1>5, <1>9, <2>1
  <2>3. \/ has_live_submission(submissions, k)
        \/ s \notin DOMAIN submissions /\ live(row)
    BY <1>1, <1>6, <1>9, <2>1, <2>2
  <2> QED
    BY <1>2, <2>1, <2>3
<1> QED
  BY <1>1, <1>2, <1>3, <1>7, <1>8, <1>9

\* The stage follows the submissions: only forward, out of no closure and into
\* none, and as far as the submission that has just moved.
THEOREM StageFollows == Spec => StageFollowsSubmissions
<1> DEFINE Forward ==
      submissions' # submissions =>
        \A r \in DOMAIN opportunities :
          opportunities'[r].stage # opportunities[r].stage =>
            /\ ~ is_terminal(opportunities[r].stage)
            /\ is_forward(opportunities[r].stage, opportunities'[r].stage)
            /\ ~ is_terminal(opportunities'[r].stage)
           KeepsUp ==
      \A s \in DOMAIN submissions' :
        LET new   == submissions'[s]
            stage == opportunities'[new.requirement].stage
        IN  /\ s \in DOMAIN submissions => submissions[s].status # new.status
            /\ new.status \in DOMAIN SUBMISSION_STAGE_HINTS
            => \/ is_terminal(stage)
               \/ stage_index(SUBMISSION_STAGE_HINTS[new.status])
                    <= stage_index(stage)
<1>1. ASSUME IInv, Next PROVE Forward /\ KeepsUp
  <2>1. CASE UNCHANGED submissions
    BY <2>1
  <2>2. ASSUME NEW s, NEW row, NEW o, Submits(s, row, o)
        PROVE  Forward /\ KeepsUp
    BY <1>1, <2>2, SubmittingFollows
  <2> QED
    BY <1>1, <2>1, <2>2, StepSubmitsOrNot
<1>2. IInv /\ [Next]_tables => [Forward]_tables /\ [KeepsUp]_tables
  BY <1>1
<1> QED
  BY <1>2, Invariant, PTL
     DEF Spec, StageFollowsSubmissions, AutomaticMovesOnlyForward, StageKeepsUp

\* Whoever asks for it, a stage that says a CV is with the client is entered
\* over a live submission.
THEOREM StageIsBacked == Spec => StageBackedBySubmission
<1> DEFINE Backed ==
      \A r \in DOMAIN opportunities' :
        LET stage == opportunities'[r].stage IN
          /\ r \in DOMAIN opportunities => opportunities[r].stage # stage
          /\ stage \in STAGES_REQUIRING_SUBMISSION
          => \/ has_live_submission(submissions, r)
             \/ \E s \in DOMAIN submissions' \ DOMAIN submissions :
                  /\ submissions'[s].requirement = r
                  /\ live(submissions'[s])
<1>1. ASSUME IInv, Next PROVE Backed
  <2>1. CASE MovesByHand
    BY <2>1 DEF MovesByHand
  <2>2. ASSUME NEW s, NEW row, NEW o, Submits(s, row, o)
        PROVE  Backed
    BY <1>1, <2>2, SubmittingFollows
  <2> QED
    BY <1>1, <2>1, <2>2, StepSubmitsOrNot
<1>2. IInv /\ [Next]_tables => [Backed]_tables
  BY <1>1
<1> QED
  BY <1>2, Invariant, PTL DEF Spec, StageBackedBySubmission

=============================================================================
