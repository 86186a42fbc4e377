----------------------- MODULE PipelineSessionsProofs -----------------------
(***************************************************************************)
(* Proofs about PipelineSessions: what no interleaving breaks, for any     *)
(* number of sessions, requirements, consultants, submissions and rounds.  *)
(***************************************************************************)
EXTENDS PipelineSessions, TLAPS

-----------------------------------------------------------------------------
(* What holds of a request under way.                                      *)

\* A transaction is a record of its ten fields.
Whole(t) ==
  t = [ pc |-> t.pc, kind |-> t.kind, r |-> t.r, c |-> t.c, s |-> t.s,
        n |-> t.n, target |-> t.target, opportunities |-> t.opportunities,
        submissions |-> t.submissions, interviews |-> t.interviews ]

\* The session has loaded the opportunity, which exists since.
Knows(t) ==
  /\ t.r \in DOMAIN opportunities
  /\ t.r \in DOMAIN t.opportunities
  /\ t.opportunities[t.r] \in OpportunityRow

Opening(t) == t.kind = "open" /\ t.pc = "commit" /\ t.r \in Requirements

Staging(t) ==
  /\ t.kind = "stage" /\ t.pc \in { "count", "commit" }
  /\ Knows(t) /\ t.target \in OpportunityStage

Deciding(t) ==
  /\ t.kind = "decision" /\ t.pc = "commit"
  /\ Knows(t) /\ t.target \in OpportunityDecision

Creating(t) ==
  /\ t.kind = "create" /\ t.pc \in { "opportunity", "count", "commit" }
  /\ t.r \in Requirements /\ t.c \in Resources /\ t.target \in SubmissionStatus
  /\ t.r \in DOMAIN t.opportunities => Knows(t)

\* The submission it moves, once loaded: what was dated then is dated now.
Loaded(t) ==
  /\ t.submissions[t.s] \in SubmissionRow
  /\ t.submissions[t.s].sent => submissions[t.s].sent

\* A round that has been drawn is the first or follows one that is taken.
Drawn(t) ==
  /\ t.n \in Rounds
  /\ t.n > 1 => << t.s, t.n - 1 >> \in DOMAIN interviews

Moving(t) ==
  /\ t.kind \in { "status", "interview", "outcome" }
  /\ t.pc \in { "round", "submission", "opportunity", "count", "commit" }
  /\ t.s \in DOMAIN submissions /\ t.r = submissions[t.s].requirement
  /\ t.kind = "outcome" => /\ t.target \in InterviewOutcome
                           /\ << t.s, t.n >> \in DOMAIN interviews
  /\ t.kind # "outcome" => t.target \in SubmissionStatus
  /\ t.pc = "round" => t.kind = "interview"
  /\ t.pc = "submission" => t.kind = "outcome"
  /\ t.kind = "interview" /\ t.pc # "round" => Drawn(t)
  /\ t.pc # "submission" => Loaded(t)
  /\ t.pc = "count" \/ (t.pc = "commit" /\ changes_status(t)) => Knows(t)

InFlight(t) ==
  /\ Whole(t)
  /\ \/ t.pc = "idle"
     \/ Opening(t) \/ Staging(t) \/ Deciding(t) \/ Creating(t) \/ Moving(t)

\* The rounds of each submission are numbered through.
Numbered ==
  \A s \in SubmissionIds : \E m \in 0..MaxRounds : RoundsOf(s) = 1..m

FlightsOK ==
  /\ tx = [ x \in Sessions |-> tx[x] ]
  /\ \A x \in Sessions : InFlight(tx[x])

\* The columns alone; what is in flight relies on them and conversely.
TablesOK == TypeOK /\ OneBlockingRow /\ SentIsDated /\ ClosedHasReason /\ Numbered

IInv == TablesOK /\ FlightsOK

-----------------------------------------------------------------------------
(* Why one session alone is never wrong about the tables.                  *)

\* What the only session has read is what there is, and what it has checked
\* still holds.
FreshStage(t) ==
  /\ t.target \in StageInputs
  /\ t.opportunities[t.r] = opportunities[t.r]
  /\ t.pc = "commit" =>
       may_change_stage(opportunities[t.r].stage, t.target, TRUE, submissions, t.r)

FreshDecision(t) ==
  /\ t.target \in DecisionInputs
  /\ t.opportunities[t.r] = opportunities[t.r]

FreshCreate(t) ==
  /\ t.target \in StatusInputs
  /\ may_submit(t.r, t.c)
  /\ t.pc # "opportunity" =>
       /\ t.r \in DOMAIN opportunities <=> t.r \in DOMAIN t.opportunities
       /\ t.r \in DOMAIN opportunities =>
            t.opportunities[t.r] = opportunities[t.r]
  /\ t.pc = "commit" =>
       LET stage == known_opportunity(t).stage IN
       advances(stage, t.target) =>
         can_transition(stage, SUBMISSION_STAGE_HINTS[t.target])

FreshMove(t) ==
  /\ t.kind = "status" => /\ t.target \in StatusInputs
                          /\ submissions[t.s].status # t.target
  /\ t.kind = "interview" =>
       /\ t.target = "INTERVIEW"
       /\ t.pc # "round" => t.n = next_round(t.s)
  /\ t.kind = "outcome" =>
       /\ t.target \in OutcomeInputs
       /\ t.interviews[<< t.s, t.n >>] = interviews[<< t.s, t.n >>]
  /\ t.pc # "submission" => t.submissions[t.s] = submissions[t.s]
  /\ t.pc \in { "opportunity", "count" } => changes_status(t)
  /\ t.pc \in { "count", "commit" } /\ changes_status(t) =>
       t.opportunities[t.r] = opportunities[t.r]
  /\ t.pc = "commit" /\ changes_status(t) =>
       may_advance(opportunities[t.r].stage, status_target(t), submissions, t.r)

Fresh(t) ==
  t.pc # "idle" =>
    /\ t.kind = "stage" => FreshStage(t)
    /\ t.kind = "decision" => FreshDecision(t)
    /\ t.kind = "create" => FreshCreate(t)
    /\ t.kind \in { "status", "interview", "outcome" } => FreshMove(t)

-----------------------------------------------------------------------------
(* Steps that leave the tables alone.                                      *)

\* Nothing that a request in flight relies on is taken back.
Grows ==
  /\ DOMAIN opportunities \subseteq DOMAIN opportunities'
  /\ DOMAIN submissions \subseteq DOMAIN submissions'
  /\ DOMAIN interviews \subseteq DOMAIN interviews'
  /\ \A s \in DOMAIN submissions :
       /\ submissions'[s].requirement = submissions[s].requirement
       /\ submissions[s].sent => submissions'[s].sent

\* A request in flight relies on nothing that the others may take back.
LEMMA GrowthKeepsFlights ==
  ASSUME NEW t, InFlight(t), Grows
  PROVE  InFlight(t)'
<1>1. Knows(t) => Knows(t)'
  BY DEF Knows, Grows
<1>2. Drawn(t) => Drawn(t)'
  BY DEF Drawn, Grows
<1>3. t.s \in DOMAIN submissions => (Loaded(t) => Loaded(t)')
  BY DEF Loaded, Grows
<1>4. t.s \in DOMAIN submissions =>
        /\ t.s \in DOMAIN submissions'
        /\ submissions'[t.s].requirement = submissions[t.s].requirement
  BY DEF Grows
<1>5. << t.s, t.n >> \in DOMAIN interviews => << t.s, t.n >> \in DOMAIN interviews'
  BY DEF Grows
<1>6. changes_status(t)' <=> changes_status(t)
  BY DEF changes_status
<1>7. Whole(t)' <=> Whole(t)
  BY DEF Whole
<1>8. Moving(t) => Moving(t)'
  BY <1>1, <1>2, <1>3, <1>4, <1>5, <1>6 DEF Moving
<1>9. /\ Opening(t) => Opening(t)'
      /\ Staging(t) => Staging(t)'
      /\ Deciding(t) => Deciding(t)'
      /\ Creating(t) => Creating(t)'
  BY <1>1 DEF Opening, Staging, Deciding, Creating
<1> QED
  BY <1>7, <1>8, <1>9 DEF InFlight

\* A step of one session that grows the tables and leaves it fit.
LEMMA OthersStayInFlight ==
  ASSUME FlightsOK, Grows, NEW x \in Sessions, NEW t, InFlight(t)',
         tx' = [ tx EXCEPT ![x] = t ]
  PROVE  FlightsOK'
<1>1. \A y \in Sessions : tx'[y] = IF y = x THEN t ELSE tx[y]
  BY DEF FlightsOK
<1>2. tx' = [ y \in Sessions |-> tx'[y] ]
  BY DEF FlightsOK
<1>3. ASSUME NEW y \in Sessions PROVE InFlight(tx[y])'
  <2>1. CASE y = x
    BY <1>1, <2>1 DEF InFlight, Whole, Opening, Staging, Deciding, Creating, Moving,
                      Knows, Loaded, Drawn, changes_status
  <2>2. CASE y # x
    <3>1. \A u : InFlight(u) => InFlight(u)'
      BY GrowthKeepsFlights
    <3> QED
      BY <1>1, <2>2, <3>1 DEF FlightsOK
  <2> QED
    BY <2>1, <2>2
<1> QED
  BY <1>2, <1>3 DEF FlightsOK

\* A step that only reads leads the session to a transaction that is fit, and
\* that is right about the tables if the one before it was.
LeadsTo(x, u) ==
  Reads(x, u) /\ InFlight(u) /\ (Fresh(tx[x]) => Fresh(u))

\* A session with nothing under way relies on nothing.
LEMMA IdleIsFit == InFlight(Idle) /\ InFlight(Idle)'
  BY DEF InFlight, Whole, Idle, Transaction

\* A read leaves every claim standing when the transaction it leads to is fit.
LEMMA ReadsKeep ==
  ASSUME IInv, NEW x \in Sessions, NEW t, InFlight(t), Reads(x, t)
  PROVE  IInv'
<1>1. UNCHANGED tables /\ tx' = [ tx EXCEPT ![x] = t ]
  BY DEF Reads
<1>2. Grows
  BY <1>1 DEF Grows, tables
<1>3. TablesOK'
  BY <1>1 DEF IInv, TablesOK, TypeOK, OneBlockingRow, SentIsDated,
              ClosedHasReason, Numbered, RoundsOf, tables
<1>4. InFlight(t)'
  BY <1>2, GrowthKeepsFlights
<1>5. FlightsOK'
  BY <1>1, <1>2, <1>4, OthersStayInFlight DEF IInv
<1> QED
  BY <1>3, <1>5 DEF IInv

\* A row just loaded is the one row of its table in the identity map.
LEMMA LoadOne ==
  ASSUME NEW key, NEW row
  PROVE  /\ key \in DOMAIN Put(EmptyTable, key, row)
         /\ Put(EmptyTable, key, row)[key] = row
  BY DEF Put, EmptyTable

\* Whatever a request reads first, what it then relies on is so.
LEMMA StartReads ==
  ASSUME IInv, NEW x \in Sessions, Start(x)
  PROVE  \E u : LeadsTo(x, u)
<1> USE PipelineInputs
<1> USE DEF IInv, TablesOK, TypeOK, IsTable
<1>1. ASSUME NEW r \in Requirements, StartOpen(x, r)
      PROVE  \E u : LeadsTo(x, u)
  <2> DEFINE t == Transaction("commit", "open", r, None, None, None, None)
  <2>1. Whole(t) /\ Opening(t)
    BY DEF Whole, Opening, Transaction
  <2>2. Reads(x, t)
    BY <1>1 DEF StartOpen
  <2>3. Fresh(t)
    BY <2>1 DEF Fresh, Opening
  <2> HIDE DEF t
  <2> QED
    BY <2>1, <2>2, <2>3 DEF InFlight, LeadsTo
<1>2. ASSUME NEW r \in Requirements, NEW target \in StageInputs,
             NEW noted \in BOOLEAN, StartStage(x, r, target, noted)
      PROVE  \E u : LeadsTo(x, u)
  <2> DEFINE t == [ Transaction("count", "stage", r, None, None, None, target)
                    EXCEPT !.opportunities = Put(@, r, opportunities[r]) ]
  <2>1. /\ Whole(t) /\ t.kind = "stage" /\ t.pc = "count" /\ t.r = r
        /\ t.target = target
        /\ t.opportunities = Put(EmptyTable, r, opportunities[r])
    BY DEF Whole, Transaction
  <2>2. Reads(x, t) /\ r \in DOMAIN opportunities
    BY <1>2 DEF StartStage
  <2> HIDE DEF t
  <2>3. Knows(t)
    BY <2>1, <2>2, LoadOne DEF Knows
  <2>4. Fresh(t)
    BY <2>1, LoadOne DEF Fresh, FreshStage
  <2> QED
    BY <2>1, <2>2, <2>3, <2>4 DEF InFlight, Staging, LeadsTo
<1>3. ASSUME NEW r \in Requirements, NEW decision \in DecisionInputs,
             NEW reasoned \in BOOLEAN, StartDecision(x, r, decision, reasoned)
      PROVE  \E u : LeadsTo(x, u)
  <2> DEFINE t ==
        [ Transaction("commit", "decision", r, None, None, None, decision)
          EXCEPT !.opportunities = Put(@, r, opportunities[r]) ]
  <2>1. /\ Whole(t) /\ t.kind = "decision" /\ t.pc = "commit" /\ t.r = r
        /\ t.target = decision
        /\ t.opportunities = Put(EmptyTable, r, opportunities[r])
    BY DEF Whole, Transaction
  <2>2. Reads(x, t) /\ r \in DOMAIN opportunities
    BY <1>3 DEF StartDecision
  <2> HIDE DEF t
  <2>3. Knows(t)
    BY <2>1, <2>2, LoadOne DEF Knows
  <2>4. Fresh(t)
    BY <2>1, LoadOne DEF Fresh, FreshDecision
  <2> QED
    BY <2>1, <2>2, <2>3, <2>4 DEF InFlight, Deciding, LeadsTo
<1>4. ASSUME NEW r \in Requirements, NEW c \in Resources,
             NEW status \in StatusInputs, StartCreate(x, r, c, status)
      PROVE  \E u : LeadsTo(x, u)
  <2> DEFINE t == Transaction("opportunity", "create", r, c, None, None, status)
  <2>1. Whole(t) /\ Creating(t)
    BY DEF Whole, Creating, Transaction, EmptyTable
  <2>2. /\ Reads(x, t) /\ may_submit(r, c)
        /\ t.kind = "create" /\ t.pc = "opportunity" /\ t.target = status
        /\ t.r = r /\ t.c = c
    BY <1>4 DEF StartCreate, Transaction
  <2> HIDE DEF t
  <2>3. Fresh(t)
    BY <2>2 DEF Fresh, FreshCreate
  <2> QED
    BY <2>1, <2>2, <2>3 DEF InFlight, LeadsTo
<1>5. ASSUME NEW s \in SubmissionIds, NEW target \in StatusInputs,
             NEW reasoned \in BOOLEAN, StartStatus(x, s, target, reasoned)
      PROVE  \E u : LeadsTo(x, u)
  <2> DEFINE t ==
        [ Transaction("opportunity", "status", submissions[s].requirement,
                      None, s, None, target)
          EXCEPT !.submissions = Put(@, s, submissions[s]) ]
  <2>1. /\ Whole(t) /\ t.kind = "status" /\ t.pc = "opportunity" /\ t.s = s
        /\ t.r = submissions[s].requirement /\ t.target = target
        /\ t.submissions = Put(EmptyTable, s, submissions[s])
    BY DEF Whole, Transaction
  <2>2. /\ Reads(x, t) /\ s \in DOMAIN submissions
        /\ submissions[s].status # target
    BY <1>5 DEF StartStatus
  <2> HIDE DEF t
  <2>3. Loaded(t)
    BY <2>1, <2>2, LoadOne DEF Loaded
  <2>4. Fresh(t)
    BY <2>1, <2>2, LoadOne DEF Fresh, FreshMove, changes_status
  <2> QED
    BY <2>1, <2>2, <2>3, <2>4 DEF InFlight, Moving, LeadsTo
<1>6. ASSUME NEW s \in SubmissionIds, StartInterview(x, s)
      PROVE  \E u : LeadsTo(x, u)
  <2> DEFINE t ==
        [ Transaction("round", "interview", submissions[s].requirement,
                      None, s, None, "INTERVIEW")
          EXCEPT !.submissions = Put(@, s, submissions[s]) ]
  <2>1. /\ Whole(t) /\ t.kind = "interview" /\ t.pc = "round" /\ t.s = s
        /\ t.r = submissions[s].requirement /\ t.target = "INTERVIEW"
        /\ t.submissions = Put(EmptyTable, s, submissions[s])
    BY DEF Whole, Transaction
  <2>2. Reads(x, t) /\ s \in DOMAIN submissions
    BY <1>6 DEF StartInterview
  <2> HIDE DEF t
  <2>3. Loaded(t)
    BY <2>1, <2>2, LoadOne DEF Loaded
  <2>4. Fresh(t)
    BY <2>1, LoadOne DEF Fresh, FreshMove
  <2> QED
    BY <2>1, <2>2, <2>3, <2>4 DEF InFlight, Moving, SubmissionStatus, LeadsTo
<1>7. ASSUME NEW s \in SubmissionIds, NEW n \in Rounds,
             NEW outcome \in OutcomeInputs, StartOutcome(x, s, n, outcome)
      PROVE  \E u : LeadsTo(x, u)
  <2> DEFINE t ==
        [ Transaction("submission", "outcome", submissions[s].requirement,
                      None, s, n, outcome)
          EXCEPT !.interviews = Put(@, << s, n >>, interviews[<< s, n >>]) ]
  <2>1. /\ Whole(t) /\ t.kind = "outcome" /\ t.pc = "submission" /\ t.s = s
        /\ t.n = n /\ t.r = submissions[s].requirement /\ t.target = outcome
        /\ t.interviews =
             Put(EmptyTable, << s, n >>, interviews[<< s, n >>])
    BY DEF Whole, Transaction
  <2>2. /\ Reads(x, t)
        /\ << s, n >> \in DOMAIN interviews
        /\ s \in DOMAIN submissions
    BY <1>7 DEF StartOutcome
  <2> HIDE DEF t
  <2>3. Fresh(t)
    BY <2>1, LoadOne DEF Fresh, FreshMove
  <2> QED
    BY <2>1, <2>2, <2>3 DEF InFlight, Moving, LeadsTo
<1> QED
  BY <1>1, <1>2, <1>3, <1>4, <1>5, <1>6, <1>7 DEF Start

\* Rounds numbered through 1..m have m + 1 for the next one.
LEMMA NextRound ==
  ASSUME NEW s, NEW m \in Nat, RoundsOf(s) = 1..m
  PROVE  next_round(s) = m + 1
<1>1. CASE m = 0
  BY <1>1 DEF next_round
<1>2. CASE m # 0
  <2> DEFINE top(n) == n \in RoundsOf(s) /\ \A k \in RoundsOf(s) : k <= n
             last == CHOOSE n \in RoundsOf(s) : \A k \in RoundsOf(s) : k <= n
  <2>1. \A n : top(n) <=> n = m
    BY <1>2
  <2>2. last = m
    BY <2>1
  <2>3. RoundsOf(s) # {}
    BY <1>2
  <2>4. next_round(s) = 1 + last
    BY <2>3, Zenon DEF next_round
  <2> HIDE DEF last
  <2> QED
    BY <2>2, <2>4
<1> QED
  BY <1>1, <1>2

\* What the later reads change of a transaction, and what they keep.
Kept(t, u) ==
  /\ t.kind = u.kind /\ t.r = u.r /\ t.c = u.c /\ t.s = u.s
  /\ t.target = u.target /\ t.interviews = u.interviews

\* Each later read changes one field of the transaction, and its pc.
LEMMA PcChanged ==
  ASSUME NEW u, NEW t, Whole(u), NEW pc, t = [ u EXCEPT !.pc = pc ]
  PROVE  /\ Whole(t) /\ Kept(t, u) /\ t.pc = pc /\ t.n = u.n
         /\ t.opportunities = u.opportunities
         /\ t.submissions = u.submissions
<1>1. t = [ pc |-> pc, kind |-> u.kind, r |-> u.r, c |-> u.c, s |-> u.s,
         n |-> u.n, target |-> u.target, opportunities |-> u.opportunities,
         submissions |-> u.submissions, interviews |-> u.interviews ]
  BY DEF Whole
<1> QED
  BY <1>1 DEF Whole, Kept

LEMMA RoundChanged ==
  ASSUME NEW u, NEW t, Whole(u), NEW n, t = [ u EXCEPT !.n = n ]
  PROVE  /\ Whole(t) /\ Kept(t, u) /\ t.pc = u.pc /\ t.n = n
         /\ t.opportunities = u.opportunities
         /\ t.submissions = u.submissions
<1>1. t = [ pc |-> u.pc, kind |-> u.kind, r |-> u.r, c |-> u.c, s |-> u.s,
         n |-> n, target |-> u.target, opportunities |-> u.opportunities,
         submissions |-> u.submissions, interviews |-> u.interviews ]
  BY DEF Whole
<1> QED
  BY <1>1 DEF Whole, Kept

LEMMA OpportunitiesChanged ==
  ASSUME NEW u, NEW t, Whole(u), NEW o, t = [ u EXCEPT !.opportunities = o ]
  PROVE  /\ Whole(t) /\ Kept(t, u) /\ t.pc = u.pc /\ t.n = u.n
         /\ t.opportunities = o
         /\ t.submissions = u.submissions
<1>1. t = [ pc |-> u.pc, kind |-> u.kind, r |-> u.r, c |-> u.c, s |-> u.s,
         n |-> u.n, target |-> u.target, opportunities |-> o,
         submissions |-> u.submissions, interviews |-> u.interviews ]
  BY DEF Whole
<1> QED
  BY <1>1 DEF Whole, Kept

LEMMA SubmissionsChanged ==
  ASSUME NEW u, NEW t, Whole(u), NEW w, t = [ u EXCEPT !.submissions = w ]
  PROVE  /\ Whole(t) /\ Kept(t, u) /\ t.pc = u.pc /\ t.n = u.n
         /\ t.opportunities = u.opportunities
         /\ t.submissions = w
<1>1. t = [ pc |-> u.pc, kind |-> u.kind, r |-> u.r, c |-> u.c, s |-> u.s,
         n |-> u.n, target |-> u.target, opportunities |-> u.opportunities,
         submissions |-> w, interviews |-> u.interviews ]
  BY DEF Whole
<1> QED
  BY <1>1 DEF Whole, Kept

\* The later reads leave the transaction fit for what it does next.
LEMMA LaterReads ==
  ASSUME IInv, NEW x \in Sessions
  PROVE  /\ ReadRound(x) => \E u : LeadsTo(x, u)
         /\ ReadSubmission(x) => \E u : LeadsTo(x, u)
         /\ ReadOpportunity(x) => \E u : LeadsTo(x, u)
         /\ CountLive(x) => \E u : LeadsTo(x, u)
<1> DEFINE u == tx[x]
<1>1. InFlight(u)
  BY DEF IInv, FlightsOK
<1>2. ASSUME ReadRound(x) PROVE \E t : LeadsTo(x, t)
  <2> DEFINE v == [ u EXCEPT !.n = next_round(u.s) ]
             t == [ v EXCEPT !.pc = IF changes_status(v)
                                    THEN "opportunity" ELSE "commit" ]
  <2>1. Reads(x, t) /\ u.pc = "round" /\ v.n \in Rounds
    BY <1>2 DEF ReadRound, At
  <2>2. Whole(u) /\ Moving(u) /\ u.kind = "interview"
    BY <1>1, <2>1 DEF InFlight, Opening, Staging, Deciding, Creating, Moving
  <2>3. /\ Whole(t) /\ t.kind = "interview" /\ t.s = u.s /\ t.r = u.r
        /\ t.target = u.target /\ t.submissions = u.submissions
        /\ t.n = next_round(u.s) /\ t.n \in Rounds
        /\ t.pc = IF changes_status(t) THEN "opportunity" ELSE "commit"
    <3>1. /\ Whole(v) /\ Kept(v, u) /\ v.n = next_round(u.s)
          /\ v.submissions = u.submissions
      BY <2>2, RoundChanged
    <3> HIDE DEF v, u
    <3>2. /\ Whole(t) /\ Kept(t, v) /\ t.n = v.n
          /\ t.pc = IF changes_status(v) THEN "opportunity" ELSE "commit"
          /\ t.submissions = v.submissions
      BY <3>1, PcChanged
    <3> HIDE DEF t
    <3> QED
      BY <2>1, <2>2, <3>1, <3>2 DEF Kept, changes_status
  <2> HIDE DEF t, v, u
  <2>4. PICK m \in 0..MaxRounds : RoundsOf(u.s) = 1..m
    BY <2>2 DEF IInv, TablesOK, Numbered, Moving, TypeOK, IsTable
  <2>5. t.n = m + 1
    BY <2>3, <2>4, NextRound, PipelineInputs
  <2>6. t.n > 1 => t.n - 1 \in RoundsOf(u.s)
    BY <2>4, <2>5, PipelineInputs
  <2>7. Drawn(t)
    BY <2>3, <2>6 DEF Drawn, RoundsOf
  <2>8. Moving(t)
    BY <2>2, <2>3, <2>7 DEF Moving, Loaded
  <2>9. Fresh(u) => Fresh(t)
    BY <2>1, <2>2, <2>3 DEF Fresh, FreshMove, changes_status
  <2> QED
    BY <2>1, <2>3, <2>8, <2>9 DEF InFlight, LeadsTo, u
<1>3. ASSUME ReadSubmission(x) PROVE \E t : LeadsTo(x, t)
  <2> DEFINE v == [ u EXCEPT !.submissions = Put(@, u.s, submissions[u.s]) ]
             t == [ v EXCEPT !.pc = IF changes_status(v)
                                    THEN "opportunity" ELSE "commit" ]
  <2>1. Reads(x, t) /\ u.pc = "submission"
    BY <1>3 DEF ReadSubmission, At
  <2>2. Whole(u) /\ Moving(u) /\ u.kind = "outcome"
    BY <1>1, <2>1 DEF InFlight, Opening, Staging, Deciding, Creating, Moving
  <2>3. /\ Whole(t) /\ t.kind = "outcome" /\ t.s = u.s /\ t.r = u.r
        /\ t.target = u.target /\ t.n = u.n /\ t.interviews = u.interviews
        /\ t.submissions[u.s] = submissions[u.s]
        /\ t.pc = IF changes_status(t) THEN "opportunity" ELSE "commit"
    <3>1. /\ Whole(v) /\ Kept(v, u) /\ v.n = u.n
          /\ v.submissions = Put(u.submissions, u.s, submissions[u.s])
      BY <2>2, SubmissionsChanged
    <3> HIDE DEF v, u
    <3>2. /\ Whole(t) /\ Kept(t, v) /\ t.n = v.n
          /\ t.pc = IF changes_status(v) THEN "opportunity" ELSE "commit"
          /\ t.submissions = v.submissions
      BY <3>1, PcChanged
    <3> HIDE DEF t
    <3>3. t.submissions[u.s] = submissions[u.s]
      BY <3>1, <3>2 DEF Put
    <3> QED
      BY <2>1, <2>2, <3>1, <3>2, <3>3 DEF Kept, changes_status
  <2> HIDE DEF t, v, u
  <2>4. Loaded(t)
    BY <2>2, <2>3 DEF Loaded, Moving, IInv, TablesOK, TypeOK, IsTable
  <2>5. Moving(t)
    BY <2>2, <2>3, <2>4 DEF Moving
  <2>6. Fresh(u) => Fresh(t)
    BY <2>1, <2>2, <2>3 DEF Fresh, FreshMove, changes_status
  <2> QED
    BY <2>1, <2>3, <2>5, <2>6 DEF InFlight, LeadsTo, u
<1>4. ASSUME ReadOpportunity(x) PROVE \E t : LeadsTo(x, t)
  <2> DEFINE o == IF u.r \in DOMAIN opportunities
                  THEN Put(u.opportunities, u.r, opportunities[u.r])
                  ELSE u.opportunities
             t == [ u EXCEPT !.pc = "count", !.opportunities = o ]
  <2>1. Reads(x, t) /\ u.pc = "opportunity"
    BY <1>4 DEF ReadOpportunity, At
  <2>2. Whole(u) /\ (Creating(u) \/ Moving(u))
    BY <1>1, <2>1 DEF InFlight, Opening, Staging, Deciding
  <2>3. /\ Whole(t) /\ t.kind = u.kind /\ t.s = u.s /\ t.r = u.r /\ t.c = u.c
        /\ t.target = u.target /\ t.n = u.n /\ t.submissions = u.submissions
        /\ t.interviews = u.interviews
        /\ t.pc = "count" /\ t.opportunities = o
    <3> HIDE DEF o, u
    <3> DEFINE v == [ u EXCEPT !.pc = "count" ]
    <3>1. t = [ v EXCEPT !.opportunities = o ]
      OBVIOUS
    <3>2. /\ Whole(v) /\ Kept(v, u) /\ v.pc = "count" /\ v.n = u.n
          /\ v.submissions = u.submissions
      BY <2>2, PcChanged
    <3> HIDE DEF v, t
    <3> QED
      BY <3>1, <3>2, OpportunitiesChanged DEF Kept
  <2> HIDE DEF t, u
  <2>4. u.r \in DOMAIN opportunities => Knows(t)
    BY <2>3 DEF Knows, Put, IInv, TablesOK, TypeOK, IsTable
  <2>5. CASE Creating(u)
    <3>1. Creating(t)
      BY <2>3, <2>4, <2>5 DEF Creating, Knows
    <3>2. /\ t.r \in DOMAIN opportunities <=> t.r \in DOMAIN t.opportunities
          /\ t.r \in DOMAIN opportunities =>
               t.opportunities[t.r] = opportunities[t.r]
      BY <2>3, <2>5 DEF Creating, Knows, o, Put
    <3>3. Fresh(u) => Fresh(t)
      BY <2>1, <2>3, <2>5, <3>2 DEF Creating, Fresh, FreshCreate
    <3> QED
      BY <2>1, <2>3, <3>1, <3>3 DEF InFlight, LeadsTo, u
  <2>6. CASE Moving(u)
    <3>1. Knows(t)
      BY <2>4, <2>6 DEF Moving, IInv, TablesOK, TypeOK
    <3>2. Moving(t)
      BY <2>1, <2>3, <2>6, <3>1 DEF Moving, Loaded, Drawn
    <3>3. t.opportunities[t.r] = opportunities[t.r]
      <4>1. u.r \in DOMAIN opportunities
        BY <2>6 DEF Moving, IInv, TablesOK, TypeOK
      <4> QED
        BY <2>3, <4>1 DEF o, Put
    <3>4. Fresh(u) => Fresh(t)
      BY <2>1, <2>3, <2>6, <3>3 DEF Moving, Fresh, FreshMove, changes_status
    <3> QED
      BY <2>1, <2>3, <3>2, <3>4 DEF InFlight, LeadsTo, u
  <2> QED
    BY <2>2, <2>5, <2>6
<1>5. ASSUME CountLive(x) PROVE \E t : LeadsTo(x, t)
  <2> DEFINE t == [ u EXCEPT !.pc = "commit" ]
  <2>1. /\ Reads(x, t) /\ u.pc = "count"
        /\ u.kind = "stage" =>
             may_change_stage(known_opportunity(u).stage, u.target, TRUE,
                              submissions, u.r)
        /\ u.kind = "create" =>
             (advances(known_opportunity(u).stage, u.target) =>
                can_transition(known_opportunity(u).stage,
                               SUBMISSION_STAGE_HINTS[u.target]))
        /\ u.kind \notin { "stage", "create" } =>
             may_advance(known_opportunity(u).stage, status_target(u),
                         submissions, u.r)
    BY <1>5 DEF CountLive, At
  <2>2. Whole(u) /\ (Staging(u) \/ Creating(u) \/ Moving(u))
    BY <1>1, <2>1 DEF InFlight, Opening, Deciding
  <2>3. /\ Whole(t) /\ t.kind = u.kind /\ t.s = u.s /\ t.r = u.r /\ t.c = u.c
        /\ t.target = u.target /\ t.n = u.n /\ t.submissions = u.submissions
        /\ t.interviews = u.interviews
        /\ t.pc = "commit" /\ t.opportunities = u.opportunities
    BY <2>2, PcChanged DEF Kept
  <2> HIDE DEF t, u
  <2>4. Knows(u) => Knows(t)
    BY <2>3 DEF Knows
  <2>5. /\ Staging(u) => Staging(t)
        /\ Creating(u) => Creating(t)
    BY <2>3, <2>4 DEF Staging, Creating
  <2>6. Moving(u) => Moving(t)
    BY <2>1, <2>3, <2>4 DEF Moving, Loaded, Drawn
  <2>7. /\ known_opportunity(t) = known_opportunity(u)
        /\ status_target(t) = status_target(u)
        /\ changes_status(t) <=> changes_status(u)
    BY <2>3 DEF known_opportunity, status_target, changes_status
  <2>8. Staging(u) \/ (Moving(u) /\ Knows(u)) =>
          known_opportunity(u) = u.opportunities[u.r]
    BY DEF Staging, Knows, known_opportunity
  <2>9. CASE Staging(u)
    <3>1. Fresh(u) => Fresh(t)
      BY <2>1, <2>3, <2>8, <2>9 DEF Staging, Fresh, FreshStage
    <3> QED
      BY <2>1, <2>3, <2>5, <2>9, <3>1 DEF InFlight, LeadsTo, u
  <2>10. CASE Creating(u)
    <3>1. Fresh(u) => Fresh(t)
      BY <2>1, <2>3, <2>7, <2>10 DEF Creating, Fresh, FreshCreate
    <3> QED
      BY <2>1, <2>3, <2>5, <2>10, <3>1 DEF InFlight, LeadsTo, u
  <2>11. CASE Moving(u)
    <3>1. Knows(u) /\ u.kind \notin { "stage", "create" }
      BY <2>1, <2>11 DEF Moving
    <3>2. Fresh(u) => Fresh(t)
      BY <2>1, <2>3, <2>7, <2>8, <2>11, <3>1 DEF Moving, Fresh, FreshMove
    <3> QED
      BY <2>1, <2>3, <2>6, <2>11, <3>2 DEF InFlight, LeadsTo, u
  <2> QED
    BY <2>2, <2>9, <2>10, <2>11
<1> QED
  BY <1>2, <1>3, <1>4, <1>5

-----------------------------------------------------------------------------
(* What a commit writes.                                                   *)

\* Writing a row of the right type keeps a table a table, and its other rows.
LEMMA PutTable ==
  ASSUME NEW t, NEW Keys, NEW Rows, IsTable(t, Keys, Rows),
         NEW key \in Keys, NEW row \in Rows
  PROVE  /\ IsTable(Put(t, key, row), Keys, Rows)
         /\ DOMAIN Put(t, key, row) = DOMAIN t \cup { key }
         /\ Put(t, key, row)[key] = row
         /\ \A k \in DOMAIN t \ { key } : Put(t, key, row)[k] = t[k]
  BY DEF IsTable, Put

\* A row of the table opportunities that says why it is closed, if it is.
Accounted(o) == o \in OpportunityRow /\ (is_terminal(o.stage) => o.closed)

\* Every hint is a stage of the ladder.
LEMMA HintsAreOpenStages ==
  ASSUME NEW status \in DOMAIN SUBMISSION_STAGE_HINTS
  PROVE  /\ SUBMISSION_STAGE_HINTS[status] \in OpportunityStage
         /\ ~ is_terminal(SUBMISSION_STAGE_HINTS[status])
<1>1. SUBMISSION_STAGE_HINTS[status]
        \in { "CV_SUBMITTED", "INTERVIEW", "SELECTED" }
  BY DEF SUBMISSION_STAGE_HINTS
<1>2. /\ STAGE_ORDER[5] = "CV_SUBMITTED" /\ STAGE_ORDER[6] = "INTERVIEW"
      /\ STAGE_ORDER[8] = "SELECTED" /\ { 5, 6, 8 } \subseteq DOMAIN STAGE_ORDER
  BY DEF STAGE_ORDER
<1> QED
  BY <1>1, <1>2 DEF OpportunityStage, is_terminal, TERMINAL_STAGES

\* A stage is written together with what a closed stage needs, whatever row the
\* session had loaded.
LEMMA WriteStageRow ==
  ASSUME NEW row \in OpportunityRow, NEW loaded \in OpportunityRow,
         NEW target \in OpportunityStage
  PROVE  Accounted(write_stage(row, loaded, target))
<1>1. /\ (is_terminal(target) \/ (row.closed /\ ~ is_terminal(loaded.stage)))
           \in BOOLEAN
      /\ << loaded.stage, target >>
           \in (OpportunityStage \cup { "NONE" }) \X OpportunityStage
  BY DEF OpportunityRow
<1> QED
  BY <1>1 DEF write_stage, Accounted, OpportunityRow

\* The automatic move writes such a row too, over one that was.
LEMMA WriteAdvanceRow ==
  ASSUME NEW row, Accounted(row), NEW loaded \in OpportunityRow, NEW status
  PROVE  Accounted(write_advance(row, loaded, status))
<1>1. CASE advances(loaded.stage, status)
  BY <1>1, HintsAreOpenStages, WriteStageRow
     DEF advances, write_advance, Accounted
<1>2. CASE ~ advances(loaded.stage, status)
  BY <1>2 DEF write_advance
<1> QED BY <1>1, <1>2

\* So does ensure().
LEMMA NewOpportunityRow == Accounted(new_opportunity)
<1>1. STAGE_ORDER[1] = "REQUIREMENT_IDENTIFIED" /\ 1 \in DOMAIN STAGE_ORDER
  BY DEF STAGE_ORDER
<1>2. "REQUIREMENT_IDENTIFIED" \in OpportunityStage
  BY <1>1 DEF OpportunityStage
<1> QED
  BY <1>2 DEF Accounted, new_opportunity, OpportunityRow, is_terminal,
              TERMINAL_STAGES

\* The first move of an opportunity that create() has just added.
LEMMA FirstAdvanceRow ==
  ASSUME NEW status
  PROVE  Accounted(advance_opportunity(new_opportunity, status))
<1> DEFINE o == new_opportunity
           target == SUBMISSION_STAGE_HINTS[status]
<1>1. o \in OpportunityRow
  BY NewOpportunityRow DEF Accounted
<1>2. CASE advances(o.stage, status)
  <2>1. advance_opportunity(o, status) = write_stage(o, o, target)
    BY <1>2 DEF advance_opportunity, change_stage, write_stage
  <2>2. target \in OpportunityStage
    BY <1>2, HintsAreOpenStages DEF advances
  <2> HIDE DEF o, target
  <2> QED
    BY <1>1, <2>1, <2>2, WriteStageRow DEF o
<1>3. CASE ~ advances(o.stage, status)
  BY <1>3, NewOpportunityRow DEF advance_opportunity
<1> QED BY <1>2, <1>3

\* Writing one opportunity that is accounted for.
LEMMA WriteOpportunity ==
  ASSUME TablesOK, NEW r \in Requirements, NEW o, Accounted(o),
         opportunities' = Put(opportunities, r, o)
  PROVE  /\ IsTable(opportunities', Requirements, OpportunityRow)
         /\ DOMAIN opportunities' = DOMAIN opportunities \cup { r }
         /\ ClosedHasReason'
<1>1. IsTable(opportunities, Requirements, OpportunityRow) /\ o \in OpportunityRow
  BY DEF TablesOK, TypeOK, Accounted
<1>2. /\ IsTable(opportunities', Requirements, OpportunityRow)
      /\ DOMAIN opportunities' = DOMAIN opportunities \cup { r }
      /\ opportunities'[r] = o
      /\ \A k \in DOMAIN opportunities \ { r } :
           opportunities'[k] = opportunities[k]
  <2>1. /\ IsTable(Put(opportunities, r, o), Requirements, OpportunityRow)
        /\ DOMAIN Put(opportunities, r, o) = DOMAIN opportunities \cup { r }
        /\ Put(opportunities, r, o)[r] = o
        /\ \A k \in DOMAIN opportunities \ { r } :
             Put(opportunities, r, o)[k] = opportunities[k]
    BY <1>1 DEF IsTable, Put
  <2> QED
    BY <2>1
<1>3. ASSUME NEW k \in DOMAIN opportunities',
             is_terminal(opportunities'[k].stage)
      PROVE  opportunities'[k].closed
  <2>1. CASE k = r
    BY <1>2, <1>3, <2>1 DEF Accounted
  <2>2. CASE k # r
    BY <1>2, <1>3, <2>2 DEF TablesOK, ClosedHasReason
  <2> QED BY <2>1, <2>2
<1> QED
  BY <1>2, <1>3 DEF ClosedHasReason, is_terminal

\* Writing one dated submission in a seat the constraint finds free.
LEMMA WriteSubmission ==
  ASSUME TablesOK, NEW s \in SubmissionIds, NEW row \in SubmissionRow,
         row.status # "DRAFT" => row.sent,
         seat_is_free(submissions, s, row),
         submissions' = Put(submissions, s, row)
  PROVE  /\ IsTable(submissions', SubmissionIds, SubmissionRow)
         /\ DOMAIN submissions' = DOMAIN submissions \cup { s }
         /\ submissions'[s] = row
         /\ \A k \in DOMAIN submissions \ { s } : submissions'[k] = submissions[k]
         /\ OneBlockingRow'
         /\ SentIsDated'
<1>1. IsTable(submissions, SubmissionIds, SubmissionRow)
  BY DEF TablesOK, TypeOK
<1>2. /\ IsTable(submissions', SubmissionIds, SubmissionRow)
      /\ DOMAIN submissions' = DOMAIN submissions \cup { s }
      /\ submissions'[s] = row
      /\ \A k \in DOMAIN submissions \ { s } : submissions'[k] = submissions[k]
  BY <1>1, PutTable
<1>3. SentIsDated'
  BY <1>2 DEF TablesOK, SentIsDated
<1>4. ASSUME NEW a \in DOMAIN submissions', NEW b \in DOMAIN submissions',
             submissions'[a].blocks, submissions'[b].blocks,
             submissions'[a].requirement = submissions'[b].requirement,
             submissions'[a].resource = submissions'[b].resource
      PROVE  a = b
  <2>1. CASE a # s /\ b # s
    BY <1>2, <1>4, <2>1 DEF TablesOK, OneBlockingRow
  <2>2. CASE a = s /\ b # s
    BY <1>2, <1>4, <2>2 DEF seat_is_free
  <2>3. CASE a # s /\ b = s
    BY <1>2, <1>4, <2>3 DEF seat_is_free
  <2> QED BY <2>1, <2>2, <2>3
<1>5. OneBlockingRow'
  BY <1>4 DEF OneBlockingRow
<1> QED
  BY <1>2, <1>3, <1>5

\* The submission after a request moved it, whatever happened to it since it
\* was loaded: the row is dated, and as dated as before.
LEMMA WriteStatusRow ==
  ASSUME NEW row \in SubmissionRow, NEW loaded \in SubmissionRow,
         loaded.sent => row.sent, NEW target \in SubmissionStatus
  PROVE  LET w == write_status(row, loaded, target) IN
         /\ w \in SubmissionRow
         /\ w.requirement = row.requirement
         /\ w.status # "DRAFT" => w.sent
         /\ row.sent => w.sent
<1> DEFINE new    == change_status(loaded, target)
           sent   == row.sent \/ (new.sent /\ ~ loaded.sent)
           blocks == IF new.blocks = loaded.blocks
                     THEN row.blocks ELSE new.blocks
           w      == write_status(row, loaded, target)
<1>1. /\ new.sent = (loaded.sent \/ target # "DRAFT")
      /\ new.blocks = (target \in BLOCKING_SUBMISSION_STATUSES)
  BY DEF change_status, SubmissionRow
<1>2. w = [ row EXCEPT !.status = target, !.sent = sent, !.blocks = blocks ]
  BY DEF write_status
<1>3. sent \in BOOLEAN /\ blocks \in BOOLEAN
  <2>1. sent \in BOOLEAN
    OBVIOUS
  <2>2. row.blocks \in BOOLEAN /\ new.blocks \in BOOLEAN
    <3>1. (target \in BLOCKING_SUBMISSION_STATUSES) \in BOOLEAN
      OBVIOUS
    <3> QED
      BY <1>1, <3>1 DEF SubmissionRow
  <2> HIDE DEF new, sent
  <2> QED
    BY <2>1, <2>2
<1>4. target # "DRAFT" => sent
  BY <1>1 DEF SubmissionRow
<1>5. row.sent => sent
  OBVIOUS
<1> HIDE DEF w, sent, blocks
<1> QED
  BY <1>2, <1>3, <1>4, <1>5 DEF SubmissionRow, w

\* A commit that leaves the tables right and takes nothing back.
LEMMA CommitKeeps ==
  ASSUME IInv, NEW x \in Sessions, NEW K, Commits(x, K), TablesOK', Grows
  PROVE  IInv'
<1>1. tx' = [ tx EXCEPT ![x] = Idle ]
  BY DEF Commits
<1>2. FlightsOK'
  BY <1>1, IdleIsFit, OthersStayInFlight DEF IInv
<1> QED
  BY <1>2 DEF IInv

\* What a request relies on when it commits.
LEMMA Committing ==
  ASSUME IInv, NEW x \in Sessions, NEW K, Commits(x, K)
  PROVE  LET t == tx[x] IN
         /\ K = { "open" } => Opening(t)
         /\ K = { "stage" } => Staging(t)
         /\ K = { "decision" } => Deciding(t)
         /\ K = { "create" } => Creating(t)
         /\ K = { "status", "interview", "outcome" } => Moving(t)
<1>1. InFlight(tx[x]) /\ tx[x].pc = "commit" /\ tx[x].kind \in K
  BY DEF IInv, FlightsOK, Commits, At
<1> QED
  BY <1>1 DEF InFlight, Opening, Staging, Deciding, Creating, Moving

\* The requests that only write opportunities.
LEMMA OpportunityCommitsKeep ==
  ASSUME IInv, NEW x \in Sessions
  PROVE  /\ CommitOpen(x) => IInv'
         /\ CommitStage(x) => IInv'
         /\ CommitDecision(x) => IInv'
<1> DEFINE t == tx[x]
<1>1. ASSUME NEW r \in Requirements, NEW o, Accounted(o),
             opportunities' = Put(opportunities, r, o),
             UNCHANGED << submissions, interviews, awaiting_review >>
      PROVE  TablesOK' /\ Grows
  <2>1. /\ IsTable(opportunities', Requirements, OpportunityRow)
        /\ DOMAIN opportunities' = DOMAIN opportunities \cup { r }
        /\ ClosedHasReason'
    BY <1>1, WriteOpportunity DEF IInv
  <2>2. TypeOK'
    BY <1>1, <2>1 DEF IInv, TablesOK, TypeOK
  <2>3. OneBlockingRow' /\ SentIsDated' /\ Numbered'
    BY <1>1 DEF IInv, TablesOK, OneBlockingRow, SentIsDated, Numbered, RoundsOf
  <2>4. Grows
    BY <1>1, <2>1 DEF Grows
  <2> QED
    BY <2>1, <2>2, <2>3, <2>4 DEF TablesOK
<1>2. ASSUME CommitOpen(x) PROVE IInv'
  <2>1. Commits(x, { "open" }) /\ Opening(t)
    BY <1>2, Committing DEF CommitOpen
  <2>2. TablesOK' /\ Grows
    BY <1>1, <1>2, <2>1, NewOpportunityRow DEF CommitOpen, Commits, Opening
  <2> QED
    BY <2>1, <2>2, CommitKeeps
<1>3. ASSUME CommitStage(x) PROVE IInv'
  <2> DEFINE o == write_stage(opportunities[t.r], t.opportunities[t.r], t.target)
  <2>1. Commits(x, { "stage" }) /\ Staging(t)
    BY <1>3, Committing DEF CommitStage
  <2>2. t.r \in Requirements /\ opportunities[t.r] \in OpportunityRow
    BY <2>1 DEF Staging, Knows, IInv, TablesOK, TypeOK, IsTable
  <2>3. Accounted(o)
    BY <2>1, <2>2, WriteStageRow DEF Staging, Knows
  <2>4. /\ opportunities' = Put(opportunities, t.r, o)
        /\ UNCHANGED << submissions, interviews, awaiting_review >>
    BY <1>3 DEF CommitStage, Commits
  <2> HIDE DEF o, t
  <2>5. TablesOK' /\ Grows
    BY <1>1, <2>2, <2>3, <2>4
  <2> QED
    BY <2>1, <2>5, CommitKeeps
<1>4. ASSUME CommitDecision(x) PROVE IInv'
  <2> DEFINE decision == IF t.target = t.opportunities[t.r].decision
                         THEN opportunities[t.r].decision ELSE t.target
             o == [ opportunities[t.r] EXCEPT !.decision = decision ]
  <2>1. Commits(x, { "decision" }) /\ Deciding(t)
    BY <1>4, Committing DEF CommitDecision
  <2>2. /\ t.r \in Requirements /\ t.r \in DOMAIN opportunities
        /\ opportunities[t.r] \in OpportunityRow
        /\ is_terminal(opportunities[t.r].stage) => opportunities[t.r].closed
    BY <2>1 DEF Deciding, Knows, IInv, TablesOK, TypeOK, IsTable, ClosedHasReason
  <2>3. decision \in OpportunityDecision \cup { "NONE" }
    BY <2>1, <2>2 DEF Deciding, OpportunityRow
  <2>4. /\ opportunities' = [ opportunities EXCEPT ![t.r].decision = decision ]
        /\ UNCHANGED << submissions, interviews, awaiting_review >>
    BY <1>4 DEF CommitDecision, Commits
  <2> HIDE DEF decision, t
  <2>5. o \in OpportunityRow /\ o.stage = opportunities[t.r].stage
                             /\ o.closed = opportunities[t.r].closed
    BY <2>2, <2>3 DEF OpportunityRow
  <2>6. Accounted(o)
    BY <2>2, <2>5 DEF Accounted
  <2>7. opportunities' = [ opportunities EXCEPT ![t.r] = o ]
    BY <2>4
  <2> HIDE DEF o
  <2>8. opportunities' = Put(opportunities, t.r, o)
    BY <2>2, <2>7 DEF Put, IInv, TablesOK, TypeOK, IsTable
  <2>9. TablesOK' /\ Grows
    BY <1>1, <2>2, <2>4, <2>6, <2>8
  <2> QED
    BY <2>1, <2>9, CommitKeeps
<1> QED
  BY <1>2, <1>3, <1>4

\* The new row starts dated unless it is a draft.
LEMMA NewSubmissionRow ==
  ASSUME NEW r \in Requirements, NEW c \in Resources,
         NEW status \in SubmissionStatus
  PROVE  LET new == new_submission(r, c, status) IN
         /\ new \in SubmissionRow
         /\ new.requirement = r
         /\ new.status # "DRAFT" => new.sent
<1>1. /\ (status # "DRAFT") \in BOOLEAN
      /\ (status \in BLOCKING_SUBMISSION_STATUSES) \in BOOLEAN
  OBVIOUS
<1> QED
  BY <1>1 DEF new_submission, SubmissionRow

\* A submission and its opportunity are written by the same commit, and the
\* interviews are left alone.
LEMMA CreateCommitKeeps ==
  ASSUME IInv, NEW x \in Sessions, CommitCreate(x)
  PROVE  IInv'
<1> DEFINE t   == tx[x]
           new == new_submission(t.r, t.c, t.target)
<1>1. Commits(x, { "create" }) /\ Creating(t)
  BY Committing DEF CommitCreate
<1>2. /\ t.r \in Requirements
      /\ new \in SubmissionRow /\ new.requirement = t.r
      /\ new.status # "DRAFT" => new.sent
  BY <1>1, NewSubmissionRow DEF Creating
<1>3. PICK s \in SubmissionIds \ DOMAIN submissions :
        /\ seat_is_free(submissions, s, new)
        /\ submissions' = Put(submissions, s, new)
  BY DEF CommitCreate
<1>4. UNCHANGED << interviews, awaiting_review >>
  BY DEF CommitCreate, Commits
<1>5. PICK o : Accounted(o) /\ opportunities' = Put(opportunities, t.r, o)
  <2>1. CASE t.r \in DOMAIN t.opportunities
    <3>1. /\ Knows(t)
          /\ opportunities' =
               Put(opportunities, t.r,
                   write_advance(opportunities[t.r], t.opportunities[t.r],
                                 t.target))
      BY <1>1, <2>1 DEF Creating, CommitCreate
    <3>2. Accounted(opportunities[t.r])
      BY <3>1 DEF Knows, IInv, TablesOK, TypeOK, IsTable, ClosedHasReason,
                  Accounted
    <3> QED
      BY <3>1, <3>2, WriteAdvanceRow DEF Knows
  <2>2. CASE t.r \notin DOMAIN t.opportunities
    <3>1. opportunities' =
            Put(opportunities, t.r,
                advance_opportunity(new_opportunity, t.target))
      BY <2>2 DEF CommitCreate
    <3> QED
      BY <3>1, FirstAdvanceRow
  <2> QED
    BY <2>1, <2>2
<1> HIDE DEF new, t
<1>6. /\ IsTable(submissions', SubmissionIds, SubmissionRow)
      /\ DOMAIN submissions' = DOMAIN submissions \cup { s }
      /\ submissions'[s] = new
      /\ \A k \in DOMAIN submissions \ { s } : submissions'[k] = submissions[k]
      /\ OneBlockingRow' /\ SentIsDated'
  BY <1>2, <1>3, WriteSubmission DEF IInv
<1>7. /\ IsTable(opportunities', Requirements, OpportunityRow)
      /\ DOMAIN opportunities' = DOMAIN opportunities \cup { t.r }
      /\ ClosedHasReason'
  BY <1>2, <1>5, WriteOpportunity DEF IInv
<1>8. \A k \in DOMAIN submissions' :
        submissions'[k].requirement \in DOMAIN opportunities'
  BY <1>2, <1>6, <1>7 DEF IInv, TablesOK, TypeOK
<1>9. TypeOK'
  BY <1>4, <1>6, <1>7, <1>8 DEF IInv, TablesOK, TypeOK
<1>10. Numbered'
  BY <1>4 DEF IInv, TablesOK, Numbered, RoundsOf
<1>11. Grows
  BY <1>3, <1>4, <1>6, <1>7 DEF Grows
<1> QED
  BY <1>1, <1>6, <1>7, <1>9, <1>10, <1>11, CommitKeeps DEF TablesOK

\* What the commit of a move writes to the interviews: a round that follows the
\* last, or the outcome of one.
LEMMA InterviewWrites ==
  ASSUME IInv, NEW t, Moving(t), t.pc = "commit", WriteInterview(t)
  PROVE  /\ IsTable(interviews', SubmissionIds \X Rounds, InterviewRow)
         /\ DOMAIN interviews \subseteq DOMAIN interviews'
         /\ DOMAIN interviews' \subseteq DOMAIN interviews \cup { << t.s, t.n >> }
         /\ Numbered'
<1>1. /\ IsTable(interviews, SubmissionIds \X Rounds, InterviewRow)
      /\ t.s \in SubmissionIds
  BY DEF IInv, TablesOK, TypeOK, IsTable, Moving
<1>2. CASE UNCHANGED interviews
  BY <1>1, <1>2 DEF IInv, TablesOK, Numbered, RoundsOf
<1>3. CASE t.kind = "interview"
  <2> DEFINE row == [ outcome |-> "SCHEDULED", reminded |-> TRUE ]
  <2>1. /\ << t.s, t.n >> \notin DOMAIN interviews
        /\ interviews' = Put(interviews, << t.s, t.n >>, row)
        /\ Drawn(t)
    BY <1>3 DEF WriteInterview, Moving
  <2>2. row \in InterviewRow
    BY DEF InterviewRow, InterviewOutcome
  <2>3. << t.s, t.n >> \in SubmissionIds \X Rounds
    BY <1>1, <2>1 DEF Drawn
  <2> HIDE DEF row
  <2>4. /\ IsTable(interviews', SubmissionIds \X Rounds, InterviewRow)
        /\ DOMAIN interviews' = DOMAIN interviews \cup { << t.s, t.n >> }
    BY <1>1, <2>1, <2>2, <2>3 DEF IsTable, Put
  <2>5. ASSUME NEW s \in SubmissionIds
        PROVE  \E m \in 0..MaxRounds : RoundsOf(s)' = 1..m
    <3>1. PICK m \in 0..MaxRounds : RoundsOf(s) = 1..m
      BY DEF IInv, TablesOK, Numbered
    <3>2. CASE s # t.s
      <4>1. RoundsOf(s)' = RoundsOf(s)
        BY <2>4, <3>2 DEF RoundsOf
      <4> QED
        BY <3>1, <4>1
    <3>3. CASE s = t.s
      <4>1. RoundsOf(s)' = RoundsOf(s) \cup { t.n }
        BY <2>1, <2>4, <3>3 DEF RoundsOf, Drawn
      <4>2. /\ t.n \in 1..MaxRounds /\ t.n \notin 1..m
            /\ t.n > 1 => t.n - 1 \in 1..m
        BY <2>1, <3>1, <3>3, PipelineInputs DEF RoundsOf, Drawn, Rounds
      <4>3. t.n = m + 1
        BY <4>2, PipelineInputs
      <4>4. (1..m) \cup { m + 1 } = 1..(m + 1)
        OBVIOUS
      <4> QED
        BY <3>1, <4>1, <4>2, <4>3, <4>4, PipelineInputs
    <3> QED
      BY <3>2, <3>3
  <2> QED
    BY <2>4, <2>5 DEF Numbered
<1>4. CASE t.kind = "outcome"
  <2> DEFINE i == << t.s, t.n >>
             outcome == IF t.target = t.interviews[i].outcome
                        THEN interviews[i].outcome ELSE t.target
  <2>1. /\ interviews' = [ interviews EXCEPT ![i].outcome = outcome ]
        /\ i \in DOMAIN interviews /\ t.target \in InterviewOutcome
    BY <1>4 DEF WriteInterview, Moving
  <2>2. interviews[i] \in InterviewRow
    BY <1>1, <2>1 DEF IsTable
  <2>3. outcome \in InterviewOutcome
    BY <2>1, <2>2 DEF InterviewRow
  <2> HIDE DEF i, outcome
  <2>4. [ interviews[i] EXCEPT !.outcome = outcome ] \in InterviewRow
    BY <2>2, <2>3 DEF InterviewRow
  <2>5. /\ DOMAIN interviews' = DOMAIN interviews
        /\ interviews' = [ k \in DOMAIN interviews |->
             IF k = i THEN [ interviews[i] EXCEPT !.outcome = outcome ]
                      ELSE interviews[k] ]
    BY <2>1
  <2>6. IsTable(interviews', SubmissionIds \X Rounds, InterviewRow)
    BY <1>1, <2>4, <2>5 DEF IsTable
  <2>7. Numbered'
    BY <2>5 DEF IInv, TablesOK, Numbered, RoundsOf
  <2> QED
    BY <2>5, <2>6, <2>7
<1> QED
  BY <1>2, <1>3, <1>4 DEF WriteInterview

\* A move writes the interview, the submission and the opportunity at once.
LEMMA MoveCommitKeeps ==
  ASSUME IInv, NEW x \in Sessions, CommitMove(x)
  PROVE  IInv'
<1> DEFINE t      == tx[x]
           target == status_target(t)
           old    == submissions[t.s]
           row    == write_status(old, t.submissions[t.s], target)
           o      == write_advance(opportunities[t.r], t.opportunities[t.r],
                                   target)
<1>1. Commits(x, { "status", "interview", "outcome" }) /\ Moving(t)
  BY Committing DEF CommitMove
<1>2. t.pc = "commit" /\ WriteInterview(t) /\ UNCHANGED awaiting_review
  BY DEF CommitMove, Commits, At
<1>3. /\ t.s \in DOMAIN submissions /\ t.s \in SubmissionIds
      /\ old \in SubmissionRow /\ t.r = old.requirement /\ t.r \in Requirements
      /\ t.submissions[t.s] \in SubmissionRow
      /\ t.submissions[t.s].sent => old.sent
  BY <1>1, <1>2 DEF Moving, Loaded, IInv, TablesOK, TypeOK, IsTable,
                    SubmissionRow
<1>4. target \in SubmissionStatus
  BY <1>1 DEF Moving, status_target, SubmissionStatus
<1>5. /\ IsTable(interviews', SubmissionIds \X Rounds, InterviewRow)
      /\ DOMAIN interviews \subseteq DOMAIN interviews'
      /\ DOMAIN interviews' \subseteq DOMAIN interviews \cup { << t.s, t.n >> }
      /\ Numbered'
  BY <1>1, <1>2, InterviewWrites
<1>6. \A i \in DOMAIN interviews' : i[1] \in DOMAIN submissions
  BY <1>3, <1>5 DEF IInv, TablesOK, TypeOK
<1>7. CASE ~ changes_status(t)
  <2>1. UNCHANGED << submissions, opportunities >>
    BY <1>7 DEF CommitMove
  <2>2. TypeOK'
    BY <1>2, <1>5, <1>6, <2>1 DEF IInv, TablesOK, TypeOK
  <2>3. OneBlockingRow' /\ SentIsDated' /\ ClosedHasReason'
    BY <2>1 DEF IInv, TablesOK, OneBlockingRow, SentIsDated, ClosedHasReason
  <2>4. Grows
    BY <1>5, <2>1 DEF Grows
  <2> QED
    BY <1>1, <1>5, <2>2, <2>3, <2>4, CommitKeeps DEF TablesOK
<1>8. CASE changes_status(t)
  <2>1. /\ seat_is_free(submissions, t.s, row)
        /\ submissions' = Put(submissions, t.s, row)
        /\ opportunities' = Put(opportunities, t.r, o)
    BY <1>8 DEF CommitMove
  <2>2. /\ row \in SubmissionRow /\ row.requirement = old.requirement
        /\ row.status # "DRAFT" => row.sent
        /\ old.sent => row.sent
    BY <1>3, <1>4, WriteStatusRow
  <2>3. Knows(t) /\ Accounted(opportunities[t.r])
    BY <1>1, <1>2, <1>8 DEF Moving, Knows, IInv, TablesOK, TypeOK, IsTable,
                            ClosedHasReason, Accounted
  <2>4. Accounted(o)
    BY <2>3, WriteAdvanceRow DEF Knows
  <2> HIDE DEF row, o, t
  <2>5. /\ IsTable(submissions', SubmissionIds, SubmissionRow)
        /\ DOMAIN submissions' = DOMAIN submissions \cup { t.s }
        /\ submissions'[t.s] = row
        /\ \A k \in DOMAIN submissions \ { t.s } :
             submissions'[k] = submissions[k]
        /\ OneBlockingRow' /\ SentIsDated'
    BY <1>3, <2>1, <2>2, WriteSubmission DEF IInv
  <2>6. /\ IsTable(opportunities', Requirements, OpportunityRow)
        /\ DOMAIN opportunities' = DOMAIN opportunities \cup { t.r }
        /\ ClosedHasReason'
    BY <1>3, <2>1, <2>4, WriteOpportunity DEF IInv
  <2>7. \A k \in DOMAIN submissions' :
          submissions'[k].requirement \in DOMAIN opportunities'
    BY <1>3, <2>2, <2>5, <2>6 DEF IInv, TablesOK, TypeOK
  <2>8. TypeOK'
    BY <1>2, <1>5, <1>6, <2>5, <2>6, <2>7 DEF IInv, TablesOK, TypeOK
  <2>9. Grows
    BY <1>3, <1>5, <2>2, <2>5, <2>6 DEF Grows
  <2> QED
    BY <1>1, <1>5, <2>5, <2>6, <2>8, <2>9, CommitKeeps DEF TablesOK
<1> QED
  BY <1>7, <1>8

-----------------------------------------------------------------------------
(* What holds in every reachable state.                                    *)

\* No rows, and no request under way.
LEMMA InitEstablishes == Init => IInv
<1> SUFFICES ASSUME Init PROVE IInv
  OBVIOUS
<1>1. /\ opportunities = EmptyTable /\ submissions = EmptyTable
      /\ interviews = EmptyTable /\ awaiting_review \subseteq Resources
      /\ tx = [ x \in Sessions |-> Idle ]
  BY DEF Init, no_rows
<1>2. /\ DOMAIN EmptyTable = {}
      /\ \A Keys, Rows : IsTable(EmptyTable, Keys, Rows)
  BY DEF IsTable, EmptyTable
<1>3. TypeOK
  BY <1>1, <1>2 DEF TypeOK
<1>4. OneBlockingRow /\ SentIsDated /\ ClosedHasReason
  BY <1>1, <1>2 DEF OneBlockingRow, SentIsDated, ClosedHasReason
<1>5. Numbered
  <2>1. \A s \in SubmissionIds : RoundsOf(s) = 1..0
    BY <1>1, <1>2 DEF RoundsOf
  <2>2. 0 \in 0..MaxRounds
    BY PipelineInputs
  <2> QED
    BY <2>1, <2>2 DEF Numbered
<1>6. FlightsOK
  BY <1>1, IdleIsFit DEF FlightsOK
<1> QED
  BY <1>3, <1>4, <1>5, <1>6 DEF IInv, TablesOK

\* Every step of every session keeps the invariant.
LEMMA NextPreserves == IInv /\ [Next]_vars => IInv'
<1> SUFFICES ASSUME IInv, [Next]_vars PROVE IInv'
  OBVIOUS
<1>1. ASSUME NEW x \in Sessions, Rollback(x)
      PROVE  IInv'
  BY <1>1, IdleIsFit, ReadsKeep DEF Rollback
<1>2. ASSUME NEW c \in Resources, AcceptProfile(c), UNCHANGED tx
      PROVE  IInv'
  <2>1. TablesOK'
    BY <1>2 DEF AcceptProfile, IInv, TablesOK, TypeOK, OneBlockingRow,
                SentIsDated, ClosedHasReason, Numbered, RoundsOf
  <2>2. Grows
    BY <1>2 DEF AcceptProfile, Grows
  <2>3. FlightsOK'
    <3>1. \A u : InFlight(u) => InFlight(u)'
      BY <2>2, GrowthKeepsFlights
    <3> QED
      BY <1>2, <3>1 DEF IInv, FlightsOK
  <2> QED
    BY <2>1, <2>3 DEF IInv
<1>3. CASE UNCHANGED vars
  <2>1. TablesOK'
    BY <1>3 DEF vars, IInv, TablesOK, TypeOK, OneBlockingRow, SentIsDated,
                ClosedHasReason, Numbered, RoundsOf
  <2>2. FlightsOK'
    <3>1. Grows /\ UNCHANGED tx
      BY <1>3 DEF vars, Grows
    <3>2. \A u : InFlight(u) => InFlight(u)'
      BY <3>1, GrowthKeepsFlights
    <3> QED
      BY <3>1, <3>2 DEF IInv, FlightsOK
  <2> QED
    BY <2>1, <2>2 DEF IInv
<1> QED
  <2>1. ASSUME NEW x \in Sessions, NEW u, LeadsTo(x, u) PROVE IInv'
    BY <2>1, ReadsKeep DEF LeadsTo
  <2> QED
    BY <1>1, <1>2, <1>3, <2>1, StartReads, LaterReads, OpportunityCommitsKeep,
       CreateCommitKeeps, MoveCommitKeeps DEF Next

\* The invariant holds throughout.
LEMMA Invariant == Spec => []IInv
  BY InitEstablishes, NextPreserves, PTL DEF Spec

\* However requests overlap, a pair has one blocking row, what left DRAFT has
\* its date and what is closed says why: app/services/pipeline.py takes no lock
\* and re-reads nothing, yet these three survive.
THEOREM NothingBreaksThese == Spec => []RacesCannotBreak
<1>1. IInv => RacesCannotBreak
  BY DEF IInv, TablesOK, RacesCannotBreak
<1> QED
  BY <1>1, Invariant, PTL

\* Two requests that draw the same round cannot both commit it, and none leaves
\* a gap: the rounds of a submission run from 1.
THEOREM RoundsHaveNoGaps == Spec => []RoundsContiguous
<1>1. ASSUME IInv PROVE RoundsContiguous
  <2> SUFFICES ASSUME NEW i \in DOMAIN interviews, i[2] > 1
               PROVE  << i[1], i[2] - 1 >> \in DOMAIN interviews
    BY DEF RoundsContiguous
  <2>1. i \in SubmissionIds \X Rounds /\ i = << i[1], i[2] >>
    BY <1>1 DEF IInv, TablesOK, TypeOK, IsTable
  <2>2. PICK m \in 0..MaxRounds : RoundsOf(i[1]) = 1..m
    BY <1>1, <2>1 DEF IInv, TablesOK, Numbered
  <2>3. i[2] \in RoundsOf(i[1])
    BY <2>1 DEF RoundsOf
  <2>4. i[2] - 1 \in RoundsOf(i[1])
    BY <2>2, <2>3, PipelineInputs
  <2> QED
    BY <2>4 DEF RoundsOf
<1> QED
  BY <1>1, Invariant, PTL

\* Every row keeps its columns' types and its foreign keys, whatever overlaps.
THEOREM TypeCorrect == Spec => []TypeOK
<1>1. IInv => TypeOK
  BY DEF IInv, TablesOK
<1> QED
  BY <1>1, Invariant, PTL

-----------------------------------------------------------------------------
(* With one session, the requests are those of Pipeline.                   *)

\* Pipeline reads the same operators of PipelineData as PipelineSessions does.
LEMMA SameStages ==
  /\ Alone!SUBMISSION_STAGE_HINTS = SUBMISSION_STAGE_HINTS
  /\ Alone!STAGES_REQUIRING_SUBMISSION = STAGES_REQUIRING_SUBMISSION
  /\ Alone!STAGES_REQUIRING_REASON = STAGES_REQUIRING_REASON
  /\ Alone!BLOCKING_SUBMISSION_STATUSES = BLOCKING_SUBMISSION_STATUSES
  /\ \A stage : /\ Alone!is_terminal(stage) <=> is_terminal(stage)
                /\ Alone!stage_index(stage) = stage_index(stage)
  /\ \A from, to : Alone!can_transition(from, to) <=> can_transition(from, to)
<1>1. /\ Alone!STAGE_ORDER = STAGE_ORDER
      /\ Alone!TERMINAL_STAGES = TERMINAL_STAGES
  BY DEF Alone!STAGE_ORDER, STAGE_ORDER, Alone!TERMINAL_STAGES, TERMINAL_STAGES
<1>2. /\ Alone!SUBMISSION_STAGE_HINTS = SUBMISSION_STAGE_HINTS
      /\ Alone!STAGES_REQUIRING_SUBMISSION = STAGES_REQUIRING_SUBMISSION
      /\ Alone!STAGES_REQUIRING_REASON = STAGES_REQUIRING_REASON
      /\ Alone!BLOCKING_SUBMISSION_STATUSES = BLOCKING_SUBMISSION_STATUSES
  BY <1>1 DEF Alone!SUBMISSION_STAGE_HINTS, SUBMISSION_STAGE_HINTS,
              Alone!STAGES_REQUIRING_SUBMISSION, STAGES_REQUIRING_SUBMISSION,
              Alone!STAGES_REQUIRING_REASON, STAGES_REQUIRING_REASON,
              Alone!BLOCKING_SUBMISSION_STATUSES, BLOCKING_SUBMISSION_STATUSES,
              Alone!SubmissionStatus, SubmissionStatus
<1>3. \A stage : Alone!is_terminal(stage) <=> is_terminal(stage)
  BY <1>1 DEF Alone!is_terminal, is_terminal
<1>4. \A stage : Alone!stage_index(stage) = stage_index(stage)
  BY <1>1, <1>3 DEF Alone!stage_index, stage_index
<1>5. \A from, to : Alone!can_transition(from, to) <=> can_transition(from, to)
  BY <1>3 DEF Alone!can_transition, can_transition
<1> QED
  BY <1>2, <1>3, <1>4, <1>5

\* It makes the same checks on them.
LEMMA SameChecks ==
  /\ \A r, c : Alone!may_submit(r, c) <=> may_submit(r, c)
  /\ \A stage, target, noted, table, r :
       Alone!may_change_stage(stage, target, noted, table, r)
         <=> may_change_stage(stage, target, noted, table, r)
  /\ \A stage, status : Alone!advances(stage, status) <=> advances(stage, status)
  /\ \A stage, status, table, r :
       Alone!may_advance(stage, status, table, r)
         <=> may_advance(stage, status, table, r)
  /\ \A table, s, row :
       Alone!seat_is_free(table, s, row) <=> seat_is_free(table, s, row)
<1>1. \A submission : Alone!live(submission) <=> live(submission)
  BY SameStages DEF Alone!live, live
<1>2. \A r, c : Alone!may_submit(r, c) <=> may_submit(r, c)
  BY <1>1 DEF Alone!may_submit, may_submit, Alone!find_live, find_live
<1>3. \A table, r :
        Alone!has_live_submission(table, r) <=> has_live_submission(table, r)
  BY <1>1 DEF Alone!has_live_submission, has_live_submission
<1>4. \A stage, target, noted, table, r :
        Alone!may_change_stage(stage, target, noted, table, r)
          <=> may_change_stage(stage, target, noted, table, r)
  BY <1>3, SameStages DEF Alone!may_change_stage, may_change_stage
<1>5. \A stage, status :
        Alone!advances(stage, status) <=> advances(stage, status)
  BY SameStages DEF Alone!advances, advances
<1>6. \A stage, status, table, r :
        Alone!may_advance(stage, status, table, r)
          <=> may_advance(stage, status, table, r)
  BY <1>4, <1>5, SameStages DEF Alone!may_advance, may_advance
<1>7. \A table, s, row :
        Alone!seat_is_free(table, s, row) <=> seat_is_free(table, s, row)
  BY DEF Alone!seat_is_free, seat_is_free
<1> QED
  BY <1>2, <1>4, <1>5, <1>6, <1>7

\* And it writes the same rows.
LEMMA SameRows ==
  /\ Alone!Rounds = Rounds
  /\ \A table, key, row : Alone!Put(table, key, row) = Put(table, key, row)
  /\ Alone!new_opportunity = new_opportunity
  /\ \A o, target : Alone!change_stage(o, target) = change_stage(o, target)
  /\ \A o, status :
       Alone!advance_opportunity(o, status) = advance_opportunity(o, status)
  /\ \A r, c, status :
       Alone!new_submission(r, c, status) = new_submission(r, c, status)
  /\ \A submission, target :
       Alone!change_status(submission, target)
         = change_status(submission, target)
  /\ \A s : Alone!next_round(s) = next_round(s)
<1>1. Alone!Rounds = Rounds
  BY DEF Alone!Rounds, Rounds
<1>2. \A table, key, row : Alone!Put(table, key, row) = Put(table, key, row)
  BY DEF Alone!Put, Put
<1>3. Alone!new_opportunity = new_opportunity
  BY DEF Alone!new_opportunity, new_opportunity
<1>4. \A o, target : Alone!change_stage(o, target) = change_stage(o, target)
  BY SameStages DEF Alone!change_stage, change_stage
<1>5. \A o, status :
        Alone!advance_opportunity(o, status) = advance_opportunity(o, status)
  BY <1>4, SameChecks, SameStages
     DEF Alone!advance_opportunity, advance_opportunity
<1>6. \A r, c, status :
        Alone!new_submission(r, c, status) = new_submission(r, c, status)
  BY SameStages DEF Alone!new_submission, new_submission
<1>7. \A submission, target :
        Alone!change_status(submission, target)
          = change_status(submission, target)
  BY SameStages DEF Alone!change_status, change_status
<1>8. \A s : Alone!next_round(s) = next_round(s)
  BY DEF Alone!next_round, next_round, Alone!RoundsOf, RoundsOf,
         Alone!Rounds, Rounds
<1> QED
  BY <1>1, <1>2, <1>3, <1>4, <1>5, <1>6, <1>7, <1>8

\* What a request knows stays so while nobody writes.
LEMMA StillFresh ==
  ASSUME NEW t, Fresh(t),
         UNCHANGED << opportunities, submissions, interviews >>,
         awaiting_review' \subseteq awaiting_review
  PROVE  Fresh(t)'
<1>1. /\ FreshStage(t) => FreshStage(t)'
      /\ FreshDecision(t) => FreshDecision(t)'
  BY DEF FreshStage, FreshDecision, may_change_stage, has_live_submission
<1>2. FreshCreate(t) => FreshCreate(t)'
  BY DEF FreshCreate, may_submit, find_live, known_opportunity
<1>3. FreshMove(t) => FreshMove(t)'
  BY DEF FreshMove, changes_status, next_round, RoundsOf, may_advance,
         may_change_stage, has_live_submission, status_target
<1> QED
  BY <1>1, <1>2, <1>3 DEF Fresh

\* Over the row it loaded, a request writes what its service computed.
LEMMA FreshWrites ==
  /\ \A o, target : write_stage(o, o, target) = change_stage(o, target)
  /\ \A o, status : write_advance(o, o, status) = advance_opportunity(o, status)
  /\ \A row \in SubmissionRow : \A target :
       write_status(row, row, target) = change_status(row, target)
<1>1. \A o, target : write_stage(o, o, target) = change_stage(o, target)
  BY DEF write_stage, change_stage
<1>2. \A o, status : write_advance(o, o, status) = advance_opportunity(o, status)
  BY <1>1 DEF write_advance, advance_opportunity
<1>3. ASSUME NEW row \in SubmissionRow, NEW target
      PROVE  write_status(row, row, target) = change_status(row, target)
  <2> DEFINE blocks == target \in BLOCKING_SUBMISSION_STATUSES
             new    == change_status(row, target)
  <2>1. /\ new.sent = (row.sent \/ target # "DRAFT")
        /\ new.blocks = blocks
    BY DEF change_status, SubmissionRow
  <2>2. (row.sent \/ (new.sent /\ ~ row.sent)) = (row.sent \/ target # "DRAFT")
    BY <2>1 DEF SubmissionRow
  <2>3. (IF new.blocks = row.blocks THEN row.blocks ELSE new.blocks) = blocks
    BY <2>1
  <2>4. write_status(row, row, target)
          = [ row EXCEPT !.status = target,
                         !.sent   = row.sent \/ target # "DRAFT",
                         !.blocks = blocks ]
    BY <2>2, <2>3 DEF write_status
  <2> QED
    BY <2>4 DEF change_status
<1> QED
  BY <1>1, <1>2, <1>3

\* Over fresh rows the commits that write only opportunities are requests of
\* Pipeline.
LEMMA OpportunityCommitsAreRequests ==
  ASSUME IInv, NEW x \in Sessions, Fresh(tx[x])
  PROVE  /\ CommitOpen(x) => Alone!Next
         /\ CommitStage(x) => Alone!Next
         /\ CommitDecision(x) => Alone!Next
<1> DEFINE t == tx[x]
<1>1. ASSUME CommitOpen(x) PROVE Alone!Next
  <2>1. t.r \in Requirements
    BY <1>1, Committing DEF CommitOpen, Opening
  <2>2. Alone!OpenOpportunity(t.r)
    BY <1>1, SameRows DEF CommitOpen, Commits, Alone!OpenOpportunity
  <2> QED
    BY <2>1, <2>2 DEF Alone!Next
<1>2. ASSUME CommitStage(x) PROVE Alone!Next
  <2>1. Staging(t) /\ t.pc = "commit"
    BY <1>2, Committing DEF CommitStage, Commits, At
  <2>2. FreshStage(t)
    BY <2>1 DEF Fresh, Staging
  <2>3. t.r \in Requirements
    BY <2>1 DEF Staging, Knows, IInv, TablesOK, TypeOK, IsTable
  <2>4. opportunities' =
          Put(opportunities, t.r, change_stage(opportunities[t.r], t.target))
    BY <1>2, <2>2, FreshWrites DEF CommitStage, FreshStage
  <2>5. /\ UNCHANGED << submissions, interviews, awaiting_review >>
        /\ t.r \in DOMAIN opportunities
    BY <1>2, <2>1 DEF CommitStage, Commits, Staging, Knows
  <2> HIDE DEF t
  <2>6. Alone!ChangeStage(t.r, t.target, TRUE)
    BY <2>1, <2>2, <2>4, <2>5, SameRows, SameChecks
       DEF Alone!ChangeStage, FreshStage
  <2> QED
    BY <2>2, <2>3, <2>6 DEF Alone!Next, FreshStage
<1>3. ASSUME CommitDecision(x) PROVE Alone!Next
  <2>1. Deciding(t) /\ FreshDecision(t)
    BY <1>3, Committing DEF CommitDecision, Commits, At, Fresh, Deciding
  <2>2. t.r \in Requirements /\ t.r \in DOMAIN opportunities
    BY <2>1 DEF Deciding, Knows, IInv, TablesOK, TypeOK, IsTable
  <2>3. opportunities[t.r] \in OpportunityRow
    BY <2>2 DEF IInv, TablesOK, TypeOK, IsTable
  <2>4. opportunities' = [ opportunities EXCEPT ![t.r].decision = t.target ]
    BY <1>3, <2>1 DEF CommitDecision, FreshDecision
  <2>5. Alone!RecordDecision(t.r, t.target, TRUE)
    BY <1>3, <2>2, <2>4 DEF Alone!RecordDecision, CommitDecision, Commits
  <2> QED
    BY <2>1, <2>2, <2>5 DEF Alone!Next, FreshDecision
<1> QED
  BY <1>1, <1>2, <1>3

\* So is the commit of create(), whose COUNT query saw the row it added.
LEMMA CreateCommitIsRequest ==
  ASSUME IInv, NEW x \in Sessions, Fresh(tx[x]), CommitCreate(x)
  PROVE  Alone!Next
<1> DEFINE t     == tx[x]
           new   == new_submission(t.r, t.c, t.target)
           o     == IF t.r \in DOMAIN opportunities
                    THEN opportunities[t.r] ELSE new_opportunity
<1>1. Creating(t) /\ t.pc = "commit" /\ FreshCreate(t)
  BY Committing DEF CommitCreate, Commits, At, Fresh, Creating
<1>2. /\ t.r \in Requirements /\ t.c \in Resources /\ t.target \in StatusInputs
      /\ t.target \in SubmissionStatus /\ may_submit(t.r, t.c)
  BY <1>1 DEF Creating, FreshCreate
<1>3. known_opportunity(t) = o
  BY <1>1 DEF FreshCreate, known_opportunity
<1>4. opportunities' =
        Put(opportunities, t.r, advance_opportunity(o, t.target))
  BY <1>1, FreshWrites DEF FreshCreate, CommitCreate
<1>5. PICK s \in SubmissionIds \ DOMAIN submissions :
        /\ seat_is_free(submissions, s, new)
        /\ submissions' = Put(submissions, s, new)
  BY DEF CommitCreate
<1>6. UNCHANGED << interviews, awaiting_review >>
  BY DEF CommitCreate, Commits
<1> DEFINE table == Put(submissions, s, new)
<1>7. may_advance(o.stage, t.target, table, t.r)
  <2> SUFFICES ASSUME advances(o.stage, t.target)
               PROVE  may_change_stage(o.stage, SUBMISSION_STAGE_HINTS[t.target],
                                       TRUE, table, t.r)
    BY DEF may_advance
  <2>1. can_transition(o.stage, SUBMISSION_STAGE_HINTS[t.target])
    BY <1>1, <1>3 DEF FreshCreate
  <2>2. t.target \in BLOCKING_SUBMISSION_STATUSES
    BY DEF advances, SUBMISSION_STAGE_HINTS, BLOCKING_SUBMISSION_STATUSES,
           SubmissionStatus
  <2>3. new.requirement = t.r /\ live(new)
    BY <2>2 DEF new_submission, live
  <2> HIDE DEF new
  <2>4. s \in DOMAIN table /\ table[s] = new
    BY DEF Put
  <2>5. has_live_submission(table, t.r)
    BY <2>3, <2>4 DEF has_live_submission
  <2> QED
    BY <2>1, <2>5 DEF may_change_stage
<1> HIDE DEF t
<1>8. Alone!CreateSubmission(s, t.r, t.c, t.target)
  <2>1. /\ Alone!new_submission(t.r, t.c, t.target) = new
        /\ Alone!Put(submissions, s, new) = table
        /\ Alone!new_opportunity = new_opportunity
        /\ Alone!may_submit(t.r, t.c)
        /\ Alone!seat_is_free(submissions, s, new)
        /\ Alone!may_advance(o.stage, t.target, table, t.r)
        /\ opportunities' =
             Alone!Put(opportunities, t.r,
                       Alone!advance_opportunity(o, t.target))
    BY <1>2, <1>4, <1>5, <1>7, SameRows, SameChecks
  <2> QED
    BY <1>5, <1>6, <2>1, Zenon DEF Alone!CreateSubmission
<1> QED
  BY <1>2, <1>8 DEF Alone!Next

\* So is the commit of a move, with or without the interview it came from.
LEMMA MoveCommitIsRequest ==
  ASSUME IInv, NEW x \in Sessions, Fresh(tx[x]), CommitMove(x)
  PROVE  Alone!Next
<1> DEFINE t      == tx[x]
           target == status_target(t)
           i      == << t.s, t.n >>
<1>1. /\ Moving(t) /\ t.pc = "commit" /\ FreshMove(t)
      /\ t.kind \in { "status", "interview", "outcome" }
  BY Committing DEF CommitMove, Commits, At, Fresh, Moving
<1>2. /\ t.s \in SubmissionIds /\ t.s \in DOMAIN submissions
      /\ submissions[t.s] \in SubmissionRow
      /\ t.r = submissions[t.s].requirement
      /\ t.submissions[t.s] = submissions[t.s]
  BY <1>1 DEF Moving, FreshMove, IInv, TablesOK, TypeOK, IsTable
<1>3. WriteInterview(t) /\ UNCHANGED awaiting_review
  BY DEF CommitMove, Commits
<1>4. ASSUME changes_status(t) PROVE Alone!MoveSubmission(t.s, target)
  <2> DEFINE row == change_status(submissions[t.s], target)
             o   == advance_opportunity(opportunities[t.r], target)
  <2>1. /\ t.opportunities[t.r] = opportunities[t.r]
        /\ may_advance(opportunities[t.r].stage, target, submissions, t.r)
    BY <1>1, <1>4 DEF FreshMove
  <2>2. /\ write_status(submissions[t.s], t.submissions[t.s], target) = row
        /\ write_advance(opportunities[t.r], t.opportunities[t.r], target) = o
    BY <1>2, <2>1, FreshWrites
  <2>3. /\ seat_is_free(submissions, t.s, row)
        /\ submissions' = Put(submissions, t.s, row)
        /\ opportunities' = Put(opportunities, t.r, o)
    BY <1>4, <2>2, Zenon DEF CommitMove
  <2> HIDE DEF t, target
  <2>4. /\ Alone!change_status(submissions[t.s], target) = row
        /\ Alone!advance_opportunity(opportunities[t.r], target) = o
        /\ Alone!may_advance(opportunities[t.r].stage, target, submissions, t.r)
        /\ Alone!seat_is_free(submissions, t.s, row)
        /\ submissions' = Alone!Put(submissions, t.s, row)
        /\ opportunities' = Alone!Put(opportunities, t.r, o)
    BY <2>1, <2>3, SameRows, SameChecks
  <2> QED
    BY <1>2, <2>4, Zenon DEF Alone!MoveSubmission
<1>5. ~ changes_status(t) => UNCHANGED << submissions, opportunities >>
  BY DEF CommitMove
<1>6. CASE t.kind = "status"
  <2>1. /\ changes_status(t) /\ target = t.target
        /\ t.target \in StatusInputs /\ submissions[t.s].status # t.target
        /\ UNCHANGED interviews
    BY <1>1, <1>3, <1>6
       DEF FreshMove, changes_status, status_target, WriteInterview
  <2>2. Alone!ChangeStatus(t.s, t.target, TRUE)
    BY <1>2, <1>3, <1>4, <2>1 DEF Alone!ChangeStatus
  <2> QED
    BY <1>2, <2>1, <2>2 DEF Alone!Next
<1>7. CASE t.kind = "interview"
  <2>1. /\ target = "INTERVIEW"
        /\ t.n = next_round(t.s) /\ t.n \in Rounds
        /\ interviews' = Put(interviews, i,
                             [ outcome |-> "SCHEDULED", reminded |-> TRUE ])
    BY <1>1, <1>3, <1>7 DEF FreshMove, Moving, Drawn, status_target, WriteInterview
  <2>2. changes_status(t)
          <=> submissions[t.s].status \notin { "INTERVIEW", "SELECTED" }
    BY <1>2, <1>7 DEF changes_status
  <2> HIDE DEF t
  <2>3. Alone!ScheduleInterview(t.s)
    BY <1>2, <1>3, <1>4, <1>5, <2>1, <2>2, SameRows DEF Alone!ScheduleInterview
  <2> QED
    BY <1>2, <2>3 DEF Alone!Next
<1>8. CASE t.kind = "outcome"
  <2>1. /\ t.target \in OutcomeInputs /\ i \in DOMAIN interviews
        /\ t.interviews[i] = interviews[i]
        /\ interviews' = [ interviews EXCEPT ![i].outcome =
                             IF t.target = t.interviews[i].outcome
                             THEN interviews[i].outcome ELSE t.target ]
    BY <1>1, <1>3, <1>8 DEF FreshMove, Moving, WriteInterview
  <2>2. interviews' = [ interviews EXCEPT ![i].outcome = t.target ]
    BY <2>1
  <2>3. /\ target = "SELECTED"
        /\ changes_status(t) <=> /\ t.target = "PASSED"
                                 /\ submissions[t.s].status # "SELECTED"
    BY <1>2, <1>8 DEF changes_status, status_target
  <2>4. t.n \in Rounds
    BY <2>1 DEF IInv, TablesOK, TypeOK, IsTable
  <2> HIDE DEF t
  <2>5. Alone!RecordOutcome(t.s, t.n, t.target)
    BY <1>3, <1>4, <1>5, <2>1, <2>2, <2>3 DEF Alone!RecordOutcome
  <2> QED
    BY <1>2, <2>1, <2>4, <2>5, SameRows DEF Alone!Next
<1> QED
  BY <1>1, <1>6, <1>7, <1>8

\* With one session, what it knows is never stale.
LEMMA OnlySessionStaysFresh ==
  ASSUME NEW x, Sessions = { x }, IInv, Fresh(tx[x]), [Next]_vars
  PROVE  Fresh(tx[x])'
<1> USE DEF IInv, FlightsOK
<1>1. ASSUME NEW u, LeadsTo(x, u) PROVE Fresh(tx[x])'
  <2>1. Fresh(u) /\ tx'[x] = u /\ UNCHANGED tables
    BY <1>1 DEF LeadsTo, Reads
  <2>2. Fresh(u)'
    BY <2>1, StillFresh DEF tables
  <2> QED
    BY <2>1, <2>2 DEF Fresh, FreshStage, FreshDecision, FreshCreate, FreshMove,
                      changes_status, status_target, known_opportunity
<1>2. ASSUME tx'[x] = Idle PROVE Fresh(tx[x])'
  BY <1>2 DEF Fresh, Idle, Transaction
<1>3. ASSUME NEW K, Commits(x, K) PROVE Fresh(tx[x])'
  BY <1>2, <1>3 DEF Commits
<1>4. CASE Rollback(x)
  BY <1>2, <1>4 DEF Rollback, Reads
<1>5. ASSUME UNCHANGED << opportunities, submissions, interviews, tx >>,
             awaiting_review' \subseteq awaiting_review
      PROVE  Fresh(tx[x])'
  <2>1. \A u : Fresh(u) => Fresh(u)'
    BY <1>5, StillFresh
  <2> QED
    BY <1>5, <2>1
<1>6. ASSUME NEW c \in Resources, AcceptProfile(c), UNCHANGED tx
      PROVE  Fresh(tx[x])'
  BY <1>5, <1>6 DEF AcceptProfile
<1>7. CASE UNCHANGED vars
  BY <1>5, <1>7 DEF vars
<1> QED
  BY <1>1, <1>3, <1>4, <1>6, <1>7, StartReads, LaterReads
     DEF Next, CommitOpen, CommitStage, CommitDecision, CommitCreate, CommitMove

\* Whatever the only session does is a request of Pipeline or no step of it.
LEMMA StepIsRequest ==
  ASSUME NEW x, Sessions = { x }, IInv, Fresh(tx[x]), [Next]_vars
  PROVE  [Alone!Next]_(Alone!tables)
<1>1. ASSUME UNCHANGED tables PROVE UNCHANGED Alone!tables
  BY <1>1 DEF tables, Alone!tables
<1>2. ASSUME NEW u, LeadsTo(x, u) PROVE UNCHANGED tables
  BY <1>2 DEF LeadsTo, Reads
<1>3. CASE Rollback(x)
  BY <1>1, <1>3 DEF Rollback, Reads
<1>4. ASSUME NEW c \in Resources, AcceptProfile(c) PROVE Alone!Next
  <2>1. Alone!AcceptProfile(c)
    BY <1>4 DEF AcceptProfile, Alone!AcceptProfile
  <2> QED
    BY <2>1 DEF Alone!Next
<1>5. CASE UNCHANGED vars
  BY <1>1, <1>5 DEF vars, tables
<1>6. ASSUME \/ CommitOpen(x) \/ CommitStage(x) \/ CommitDecision(x)
             \/ CommitCreate(x) \/ CommitMove(x)
      PROVE  Alone!Next
  BY <1>6, OpportunityCommitsAreRequests, CreateCommitIsRequest,
     MoveCommitIsRequest
<1> QED
  BY <1>1, <1>2, <1>3, <1>4, <1>5, <1>6, StartReads, LaterReads DEF Next

\* While a single session is at work, the reads, checks and commit of a request
\* in app/services/pipeline.py are the one step that Pipeline makes of it: what
\* is proved of Pipeline holds of the code as long as requests do not overlap.
THEOREM OneSessionIsAtomic ==
  ASSUME NEW x, Sessions = { x }
  PROVE  Spec => RequestsAreAtomic
<1>1. Init => Fresh(tx[x]) /\ Alone!Init
  BY DEF Init, no_rows, Alone!Init, Alone!no_rows, EmptyTable, Alone!EmptyTable,
         Fresh, Idle, Transaction
<1>2. IInv /\ Fresh(tx[x]) /\ [Next]_vars => Fresh(tx[x])'
  BY OnlySessionStaysFresh
<1>3. IInv /\ Fresh(tx[x]) /\ [Next]_vars => [Alone!Next]_(Alone!tables)
  BY StepIsRequest
<1> QED
  BY <1>1, <1>2, <1>3, Invariant, PTL DEF Spec, RequestsAreAtomic, Alone!Spec
=============================================================================
