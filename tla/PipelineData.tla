---------------------------- MODULE PipelineData ----------------------------
(***************************************************************************)
(* The tables of the sales pipeline (app/models/pipeline.py), what its     *)
(* services compute from the rows they load (app/services/pipeline.py),    *)
(* and the properties the tables must have.  Pipeline runs the requests    *)
(* one at a time; PipelineSessions interleaves their transactions.         *)
(***************************************************************************)
EXTENDS Stages, Tables, FiniteSets

CONSTANTS
  Requirements,    \* requirement ids
  Resources,       \* consultant ids
  SubmissionIds,   \* ids a new submission row may take (bounds their number)
  MaxRounds,       \* bound on the interview rounds of a submission
  StageInputs,     \* the stages users ask for
  StatusInputs,    \* the submission statuses users ask for
  OutcomeInputs,   \* the interview outcomes users record
  DecisionInputs   \* the pursuit decisions users record

ASSUME PipelineInputs ==
  /\ MaxRounds \in Nat
  /\ StageInputs \subseteq OpportunityStage
  /\ StatusInputs \subseteq SubmissionStatus
  /\ OutcomeInputs \subseteq InterviewOutcome
  /\ DecisionInputs \subseteq OpportunityDecision

VARIABLES
  opportunities,   \* table: requirement id -> its one opportunity
  submissions,     \* table: submission id -> submission
  interviews,      \* table: <<submission id, round_number>> -> interview
  awaiting_review  \* the consultants whose parsed profile nobody accepted yet

tables == << opportunities, submissions, interviews, awaiting_review >>

Rounds == 1..MaxRounds

\* closed stands for the pair closed_reason, closed_at; moved is the latest row
\* of opportunity_stage_history, << from_stage, to_stage >>.
OpportunityRow ==
  [ stage    : OpportunityStage,
    closed   : BOOLEAN,
    decision : OpportunityDecision \cup { "NONE" },
    moved    : (OpportunityStage \cup { "NONE" }) \X OpportunityStage ]

\* sent stands for "submitted_at is set", blocks for blocks_resubmission
\* (TRUE, or FALSE where the column is NULL).
SubmissionRow ==
  [ requirement : Requirements,
    resource    : Resources,
    status      : SubmissionStatus,
    sent        : BOOLEAN,
    blocks      : BOOLEAN ]

\* reminded stands for reminder_sent_at and the "interview:<id>" notification.
InterviewRow == [ outcome : InterviewOutcome, reminded : BOOLEAN ]

-----------------------------------------------------------------------------
(* What the services compute from the rows they loaded.                    *)

live(submission) == submission.status \in BLOCKING_SUBMISSION_STATUSES

\* The submissions of the pair that would block a new one.
find_live(table, r, c) ==
  { s \in DOMAIN table :
      /\ table[s].requirement = r
      /\ table[s].resource = c
      /\ live(table[s]) }

\* The answer of the COUNT query, as the services use it: is there any.
has_live_submission(table, r) ==
  \E s \in DOMAIN table : table[s].requirement = r /\ live(table[s])

new_opportunity ==
  LET first == "REQUIREMENT_IDENTIFIED" IN
  [ stage |-> first, closed |-> FALSE, decision |-> "NONE",
    moved |-> << "NONE", first >> ]

\* Mutant: the COUNT query is forgotten.
may_change_stage_unbacked(stage, target, noted, table, r) ==
  can_transition(stage, target) /\ (target \in STAGES_REQUIRING_REASON => noted)

\* What change_stage checks; table is what its COUNT query sees.
may_change_stage(stage, target, noted, table, r) ==
  /\ can_transition(stage, target)
  /\ target \in STAGES_REQUIRING_REASON => noted
  /\ target \in STAGES_REQUIRING_SUBMISSION => has_live_submission(table, r)

change_stage(opportunity, target) ==
  [ opportunity EXCEPT
      !.stage  = target,
      !.closed = \/ is_terminal(target)
                 \/ @ /\ ~ is_terminal(opportunity.stage),
      !.moved  = << opportunity.stage, target >> ]

\* Mutant: any stage but the hinted one is moved to it.
advances_backward(stage, status) ==
  /\ status \in DOMAIN SUBMISSION_STAGE_HINTS
  /\ ~ is_terminal(stage)
  /\ SUBMISSION_STAGE_HINTS[status] # stage

\* Whether a submission reaching status pulls its opportunity forward.
advances(stage, status) ==
  /\ status \in DOMAIN SUBMISSION_STAGE_HINTS
  /\ ~ is_terminal(stage)
  /\ stage_index(SUBMISSION_STAGE_HINTS[status]) > stage_index(stage)

\* The automatic move goes through change_stage with a note of its own; when
\* its COUNT query finds nothing the whole request fails.
may_advance(stage, status, table, r) ==
  advances(stage, status) =>
    may_change_stage(stage, SUBMISSION_STAGE_HINTS[status], TRUE, table, r)

advance_opportunity(opportunity, status) ==
  IF advances(opportunity.stage, status)
  THEN change_stage(opportunity, SUBMISSION_STAGE_HINTS[status])
  ELSE opportunity

\* What create() checks of the consultant and of the pair.
may_submit(r, c) ==
  /\ c \notin awaiting_review
  /\ find_live(submissions, r, c) = {}

\* Mutant: the two ids swapped.
new_submission_swapped(r, c, status) ==
  [ requirement |-> c, resource |-> r, status |-> status,
    sent |-> status # "DRAFT",
    blocks |-> status \in BLOCKING_SUBMISSION_STATUSES ]

new_submission(r, c, status) ==
  [ requirement |-> r, resource |-> c, status |-> status,
    sent |-> status # "DRAFT",
    blocks |-> status \in BLOCKING_SUBMISSION_STATUSES ]

\* Mutant: the blocking column is left as it was.
change_status_keeping_blocks(submission, target) ==
  [ submission EXCEPT !.status = target, !.sent = @ \/ target # "DRAFT" ]

change_status(submission, target) ==
  [ submission EXCEPT
      !.status = target,
      !.sent   = @ \/ target # "DRAFT",
      !.blocks = target \in BLOCKING_SUBMISSION_STATUSES ]

RoundsOf(s) == { n \in Rounds : << s, n >> \in DOMAIN interviews }

\* Mutant: the first round counts as the second.
next_round_off_by_one(s) ==
  IF RoundsOf(s) = {} THEN 2
  ELSE 1 + CHOOSE n \in RoundsOf(s) : \A k \in RoundsOf(s) : k <= n

\* max(round_number) + 1, or 1 for the first interview.
next_round(s) ==
  IF RoundsOf(s) = {}
  THEN 1
  ELSE 1 + CHOOSE n \in RoundsOf(s) : \A k \in RoundsOf(s) : k <= n

\* Mutant: the table has no such constraint.
seat_is_free_unconstrained(table, s, row) == TRUE

\* The constraint submission_active_unique, checked when row is flushed under
\* the id s: NULL never collides, and there is at most one TRUE per pair.
seat_is_free(table, s, row) ==
  row.blocks =>
    \A t \in DOMAIN table \ { s } :
      ~ /\ table[t].requirement = row.requirement
        /\ table[t].resource = row.resource
        /\ table[t].blocks

\* An empty pipeline, over any consultants whose review is outstanding.
no_rows ==
  /\ opportunities = EmptyTable
  /\ submissions = EmptyTable
  /\ interviews = EmptyTable
  /\ awaiting_review \in SUBSET Resources

\* ResourceService.accept_cv: a human accepts the parsed profile.
AcceptProfile(c) ==
  /\ c \in awaiting_review
  /\ awaiting_review' = awaiting_review \ { c }
  /\ UNCHANGED << opportunities, submissions, interviews >>

-----------------------------------------------------------------------------
(* What is claimed.                                                        *)

\* Every row has its columns' types, and every submission hangs off the
\* opportunity that ensure() made for its requirement.
TypeOK ==
  /\ IsTable(opportunities, Requirements, OpportunityRow)
  /\ IsTable(submissions, SubmissionIds, SubmissionRow)
  /\ IsTable(interviews, SubmissionIds \X Rounds, InterviewRow)
  /\ awaiting_review \subseteq Resources
  /\ \A s \in DOMAIN submissions :
       submissions[s].requirement \in DOMAIN opportunities
  /\ \A i \in DOMAIN interviews : i[1] \in DOMAIN submissions

\* The rule the module exists to enforce: a consultant is never submitted twice
\* to the same requirement while a live submission exists.
OneLiveSubmission ==
  \A r \in Requirements, c \in Resources :
    \A s, t \in find_live(submissions, r, c) : s = t

\* blocks_resubmission mirrors the status, so that the unique constraint means
\* what OneLiveSubmission says.
BlocksMirrorsStatus ==
  \A s \in DOMAIN submissions : submissions[s].blocks <=> live(submissions[s])

\* An opportunity carries a closure exactly while its stage is terminal:
\* closing records one, reopening clears it.
ClosureMatchesStage ==
  \A r \in DOMAIN opportunities :
    opportunities[r].closed <=> is_terminal(opportunities[r].stage)

\* What is written twice agrees: blocks_resubmission with the status, so that
\* the unique constraint means OneLiveSubmission, and the closure with the stage.
ColumnsAgree == BlocksMirrorsStatus /\ ClosureMatchesStage

\* No consultant whose parsed profile is still awaiting review was ever put in
\* front of a client.
NoUnreviewedConsultant ==
  \A s \in DOMAIN submissions : submissions[s].resource \notin awaiting_review

\* A request that moves or creates a submission moves the stage only forward,
\* and leaves a closed opportunity closed.
AutomaticMovesOnlyForward ==
  [][ submissions' # submissions =>
        \A r \in DOMAIN opportunities :
          opportunities'[r].stage # opportunities[r].stage =>
            /\ ~ is_terminal(opportunities[r].stage)
            /\ is_forward(opportunities[r].stage, opportunities'[r].stage)
            /\ ~ is_terminal(opportunities'[r].stage) ]_tables

\* A submission that reaches a status with a hint leaves its opportunity closed
\* or at least as far as the hint: the board never shows an opportunity behind
\* the candidate that has just moved.
StageKeepsUp ==
  [][ \A s \in DOMAIN submissions' :
        LET new   == submissions'[s]
            stage == opportunities'[new.requirement].stage
        IN  /\ s \in DOMAIN submissions => submissions[s].status # new.status
            /\ new.status \in DOMAIN SUBMISSION_STAGE_HINTS
            => \/ is_terminal(stage)
               \/ stage_index(SUBMISSION_STAGE_HINTS[new.status])
                    <= stage_index(stage) ]_tables

\* The board follows the submissions: forward, as far as the hint, out of no
\* closure.
StageFollowsSubmissions == AutomaticMovesOnlyForward /\ StageKeepsUp

\* A stage that claims a CV went to the client is entered only over a
\* submission that was already live, or that the same request puts on record.
StageBackedBySubmission ==
  [][ \A r \in DOMAIN opportunities' :
        LET stage == opportunities'[r].stage IN
          /\ r \in DOMAIN opportunities => opportunities[r].stage # stage
          /\ stage \in STAGES_REQUIRING_SUBMISSION
          => \/ has_live_submission(submissions, r)
             \/ \E s \in DOMAIN submissions' \ DOMAIN submissions :
                  /\ submissions'[s].requirement = r
                  /\ live(submissions'[s]) ]_tables

=============================================================================
