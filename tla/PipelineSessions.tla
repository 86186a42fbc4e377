-------------------------- MODULE PipelineSessions --------------------------
(***************************************************************************)
(* The same requests as Pipeline, taken apart the way their database       *)
(* sessions run them (app/db/session.py): a request awaits one query after *)
(* another, keeps the rows it loaded, and writes when it flushes and       *)
(* commits.  No row is locked before it is written and nothing re-reads a  *)
(* row already loaded, so other requests commit in between (PostgreSQL     *)
(* READ COMMITTED).  An UPDATE carries only the columns the request        *)
(* changed with respect to the row it loaded.                              *)
(***************************************************************************)
EXTENDS PipelineData

CONSTANTS
  Sessions,   \* the requests that may be in flight at the same time
  None        \* a request field that this kind of request does not have

VARIABLE tx   \* the transaction each session is in

vars == << opportunities, submissions, interviews, awaiting_review, tx >>

\* pc names what the request does next; the three tables are the session's
\* identity map, the rows it has loaded; n is an interview round.
Transaction(pc, kind, r, c, s, n, target) ==
  [ pc |-> pc, kind |-> kind, r |-> r, c |-> c, s |-> s, n |-> n,
    target |-> target, opportunities |-> EmptyTable,
    submissions |-> EmptyTable, interviews |-> EmptyTable ]

Idle == Transaction("idle", None, None, None, None, None, None)

Init ==
  /\ no_rows
  /\ tx = [ x \in Sessions |-> Idle ]

\* The steps of a session that only read: they change its transaction alone.
Reads(x, after) ==
  /\ tx' = [ tx EXCEPT ![x] = after ]
  /\ UNCHANGED tables

-----------------------------------------------------------------------------
(* The first reads of each request, with the checks made on them.          *)

Starts(x) == tx[x].pc = "idle"

\* ensure() finds no opportunity (one it finds is returned: nothing to do).
StartOpen(x, r) ==
  /\ Starts(x)
  /\ r \notin DOMAIN opportunities
  /\ Reads(x, Transaction("commit", "open", r, None, None, None, None))

StartStage(x, r, target, noted) ==
  /\ Starts(x)
  /\ r \in DOMAIN opportunities
  /\ can_transition(opportunities[r].stage, target)
  /\ target \in STAGES_REQUIRING_REASON => noted
  /\ Reads(x, [ Transaction("count", "stage", r, None, None, None, target)
                EXCEPT !.opportunities = Put(@, r, opportunities[r]) ])

StartDecision(x, r, decision, reasoned) ==
  /\ Starts(x)
  /\ r \in DOMAIN opportunities
  /\ decision = "DECLINE" => reasoned
  /\ Reads(x, [ Transaction("commit", "decision", r, None, None, None, decision)
                EXCEPT !.opportunities = Put(@, r, opportunities[r]) ])

StartCreate(x, r, c, status) ==
  /\ Starts(x)
  /\ may_submit(r, c)
  /\ Reads(x, Transaction("opportunity", "create", r, c, None, None, status))

StartStatus(x, s, target, reasoned) ==
  /\ Starts(x)
  /\ s \in DOMAIN submissions
  /\ submissions[s].status # target
  /\ target = "REJECTED" => reasoned
  /\ Reads(x, [ Transaction("opportunity", "status", submissions[s].requirement,
                            None, s, None, target)
                EXCEPT !.submissions = Put(@, s, submissions[s]) ])

StartInterview(x, s) ==
  /\ Starts(x)
  /\ s \in DOMAIN submissions
  /\ Reads(x, [ Transaction("round", "interview", submissions[s].requirement,
                            None, s, None, "INTERVIEW")
                EXCEPT !.submissions = Put(@, s, submissions[s]) ])

StartOutcome(x, s, n, outcome) ==
  /\ Starts(x)
  /\ << s, n >> \in DOMAIN interviews
  /\ Reads(x, [ Transaction("submission", "outcome", submissions[s].requirement,
                            None, s, n, outcome)
                EXCEPT !.interviews =
                         Put(@, << s, n >>, interviews[<< s, n >>]) ])

-----------------------------------------------------------------------------
(* The later reads.                                                        *)

At(x, pc) == tx[x].pc = pc

\* The status change the request makes; schedule and record_outcome make one
\* only when the submission they loaded is not there yet.
status_target(t) == IF t.kind = "outcome" THEN "SELECTED" ELSE t.target

changes_status(t) ==
  \/ t.kind = "status"
  \/ /\ t.kind = "interview"
     /\ t.submissions[t.s].status \notin { "INTERVIEW", "SELECTED" }
  \/ /\ t.kind = "outcome"
     /\ t.target = "PASSED"
     /\ t.submissions[t.s].status # "SELECTED"

\* schedule: max(round_number), then the flush of the new interview.
ReadRound(x) ==
  LET t == [ tx[x] EXCEPT !.n = next_round(tx[x].s) ] IN
  /\ At(x, "round")
  /\ t.n \in Rounds    \* the bound MaxRounds
  /\ Reads(x, [ t EXCEPT !.pc = IF changes_status(t)
                                THEN "opportunity" ELSE "commit" ])

\* record_outcome: the submission of the interview.
ReadSubmission(x) ==
  LET s == tx[x].s
      t == [ tx[x] EXCEPT !.submissions = Put(@, s, submissions[s]) ]
  IN
  /\ At(x, "submission")
  /\ Reads(x, [ t EXCEPT !.pc = IF changes_status(t)
                                THEN "opportunity" ELSE "commit" ])

\* The opportunity, for the automatic move; create() may find none.
ReadOpportunity(x) ==
  LET r == tx[x].r IN
  /\ At(x, "opportunity")
  /\ Reads(x, [ tx[x] EXCEPT
                  !.pc = "count",
                  !.opportunities = IF r \in DOMAIN opportunities
                                    THEN Put(@, r, opportunities[r]) ELSE @ ])

\* The opportunity as the session knows it: the row it loaded, or the one
\* ensure() has just added.
known_opportunity(t) ==
  IF t.r \in DOMAIN t.opportunities
  THEN t.opportunities[t.r] ELSE new_opportunity

\* The COUNT query behind a stage that needs a submission.  It runs in the
\* database: it sees what others have committed and what this session has
\* flushed, which is the row create() added but not a status just assigned.
CountLive(x) ==
  LET t     == tx[x]
      stage == known_opportunity(t).stage
  IN
  /\ At(x, "count")
  /\ CASE t.kind = "stage" ->
            may_change_stage(stage, t.target, TRUE, submissions, t.r)
       [] t.kind = "create" ->
            advances(stage, t.target) =>
              can_transition(stage, SUBMISSION_STAGE_HINTS[t.target])
       [] OTHER ->
            may_advance(stage, status_target(t), submissions, t.r)
  /\ Reads(x, [ t EXCEPT !.pc = "commit" ])

-----------------------------------------------------------------------------
(* Flush and commit: the columns that differ from the rows loaded.         *)

\* change_stage against the row as it now is: closing always writes the closure
\* columns, reopening clears them, any other move leaves them out.
write_stage(row, loaded, target) ==
  [ row EXCEPT
      !.stage  = target,
      !.closed = \/ is_terminal(target)
                 \/ @ /\ ~ is_terminal(loaded.stage),
      !.moved  = << loaded.stage, target >> ]

write_advance(row, loaded, status) ==
  IF advances(loaded.stage, status)
  THEN write_stage(row, loaded, SUBMISSION_STAGE_HINTS[status])
  ELSE row

\* Mutant: leaving DRAFT does not set the date.
write_status_undated(row, loaded, target) ==
  LET blocks == target \in BLOCKING_SUBMISSION_STATUSES IN
  [ row EXCEPT !.status = target,
               !.blocks = IF blocks = loaded.blocks THEN @ ELSE blocks ]

\* Mutant: returning to DRAFT clears the date.
write_status_redated(row, loaded, target) ==
  LET blocks == target \in BLOCKING_SUBMISSION_STATUSES IN
  [ row EXCEPT !.status = target,
               !.sent   = target # "DRAFT",
               !.blocks = IF blocks = loaded.blocks THEN @ ELSE blocks ]

\* change_status against the row as it now is.
write_status(row, loaded, target) ==
  LET new == change_status(loaded, target) IN
  [ row EXCEPT
      !.status = target,
      !.sent   = @ \/ (new.sent /\ ~ loaded.sent),
      !.blocks = IF new.blocks = loaded.blocks THEN @ ELSE new.blocks ]

Commits(x, kinds) ==
  /\ At(x, "commit")
  /\ tx[x].kind \in kinds
  /\ tx' = [ tx EXCEPT ![x] = Idle ]
  /\ UNCHANGED awaiting_review

\* requirement_id is unique: the insert fails when another session's ensure()
\* was first.
CommitOpen(x) ==
  /\ Commits(x, { "open" })
  /\ tx[x].r \notin DOMAIN opportunities
  /\ opportunities' = Put(opportunities, tx[x].r, new_opportunity)
  /\ UNCHANGED << submissions, interviews >>

CommitStage(x) ==
  LET t == tx[x] IN
  /\ Commits(x, { "stage" })
  /\ opportunities' =
       Put(opportunities, t.r,
           write_stage(opportunities[t.r], t.opportunities[t.r], t.target))
  /\ UNCHANGED << submissions, interviews >>

CommitDecision(x) ==
  LET t == tx[x] IN
  /\ Commits(x, { "decision" })
  /\ opportunities' =
       [ opportunities EXCEPT ![t.r].decision =
           IF t.target = t.opportunities[t.r].decision THEN @ ELSE t.target ]
  /\ UNCHANGED << submissions, interviews >>

CommitCreate(x) ==
  LET t   == tx[x]
      new == new_submission(t.r, t.c, t.target)
  IN
  /\ Commits(x, { "create" })
  /\ \E s \in SubmissionIds \ DOMAIN submissions :
       /\ seat_is_free(submissions, s, new)
       /\ submissions' = Put(submissions, s, new)
  /\ \/ /\ t.r \in DOMAIN t.opportunities
        /\ opportunities' =
             Put(opportunities, t.r,
                 write_advance(opportunities[t.r], t.opportunities[t.r],
                               t.target))
     \/ /\ t.r \notin DOMAIN t.opportunities
        /\ t.r \notin DOMAIN opportunities
        /\ opportunities' =
             Put(opportunities, t.r,
                 advance_opportunity(new_opportunity, t.target))
  /\ UNCHANGED interviews

\* What schedule and record_outcome write to the interview; (submission_id,
\* round_number) is unique.
WriteInterview(t) ==
  \/ /\ t.kind = "status"
     /\ UNCHANGED interviews
  \/ /\ t.kind = "interview"
     /\ << t.s, t.n >> \notin DOMAIN interviews
     /\ interviews' = Put(interviews, << t.s, t.n >>,
                          [ outcome |-> "SCHEDULED", reminded |-> TRUE ])
  \/ /\ t.kind = "outcome"
     /\ interviews' =
          [ interviews EXCEPT ![<< t.s, t.n >>].outcome =
              IF t.target = t.interviews[<< t.s, t.n >>].outcome
              THEN @ ELSE t.target ]

CommitMove(x) ==
  LET t      == tx[x]
      target == status_target(t)
      row    == write_status(submissions[t.s], t.submissions[t.s], target)
  IN
  /\ Commits(x, { "status", "interview", "outcome" })
  /\ WriteInterview(t)
  /\ IF changes_status(t)
     THEN /\ seat_is_free(submissions, t.s, row)
          /\ submissions' = Put(submissions, t.s, row)
          /\ opportunities' =
               Put(opportunities, t.r,
                   write_advance(opportunities[t.r], t.opportunities[t.r],
                                 target))
     ELSE UNCHANGED << submissions, opportunities >>

\* A check fails, a constraint is violated, the client goes away: get_session
\* rolls the transaction back.
Rollback(x) ==
  /\ ~ Starts(x)
  /\ Reads(x, Idle)

Start(x) ==
  \/ \E r \in Requirements :
       \/ StartOpen(x, r)
       \/ \E target \in StageInputs, noted \in BOOLEAN :
            StartStage(x, r, target, noted)
       \/ \E decision \in DecisionInputs, reasoned \in BOOLEAN :
            StartDecision(x, r, decision, reasoned)
       \/ \E c \in Resources, status \in StatusInputs :
            StartCreate(x, r, c, status)
  \/ \E s \in SubmissionIds :
       \/ \E target \in StatusInputs, reasoned \in BOOLEAN :
            StartStatus(x, s, target, reasoned)
       \/ StartInterview(x, s)
       \/ \E n \in Rounds, outcome \in OutcomeInputs :
            StartOutcome(x, s, n, outcome)

Next ==
  \/ \E x \in Sessions :
       \/ Start(x)
       \/ ReadRound(x) \/ ReadSubmission(x) \/ ReadOpportunity(x)
       \/ CountLive(x)
       \/ CommitOpen(x) \/ CommitStage(x) \/ CommitDecision(x)
       \/ CommitCreate(x) \/ CommitMove(x)
       \/ Rollback(x)
  \/ \E c \in Resources : AcceptProfile(c) /\ UNCHANGED tx

Spec == Init /\ [][Next]_vars

-----------------------------------------------------------------------------
(* What survives any interleaving.                                         *)

\* The constraint submission_active_unique: at most one row of a pair blocks.
OneBlockingRow ==
  \A s, t \in DOMAIN submissions :
    /\ submissions[s].blocks /\ submissions[t].blocks
    /\ submissions[s].requirement = submissions[t].requirement
    /\ submissions[s].resource = submissions[t].resource
    => s = t

\* A submission that has left DRAFT is dated, whoever moved it.
SentIsDated ==
  \A s \in DOMAIN submissions :
    submissions[s].status # "DRAFT" => submissions[s].sent

\* An opportunity whose stage is terminal carries a closure, whoever closed or
\* reopened it in between.
ClosedHasReason ==
  \A r \in DOMAIN opportunities :
    is_terminal(opportunities[r].stage) => opportunities[r].closed

\* The interview rounds of a submission are numbered from 1 without gaps.
RoundsContiguous ==
  \A i \in DOMAIN interviews :
    i[2] > 1 => << i[1], i[2] - 1 >> \in DOMAIN interviews

\* Requests that overlap in any way may spoil what PipelineData claims, but not
\* this: a pair has one blocking row, what left DRAFT has its date, and what is
\* closed says why.
RacesCannotBreak == OneBlockingRow /\ SentIsDated /\ ClosedHasReason

(* What holds only when requests do not overlap.                           *)

Alone == INSTANCE Pipeline

\* With one session, the reads and the commit of a request amount to the one
\* step Pipeline gives it.
RequestsAreAtomic == Alone!Spec

=============================================================================
