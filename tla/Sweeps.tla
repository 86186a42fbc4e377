------------------------------- MODULE Sweeps -------------------------------
(***************************************************************************)
(* The scheduled alerts (app/services/notifications.py, and the bench      *)
(* sweep of app/services/reverse_matching.py).  A sweep loads the rows it  *)
(* watches once, looks for each whether its fact has alerted already, and  *)
(* commits all its alerts at the end; sweeps run by hand overlap those of  *)
(* the schedule, a worker may die, and what is watched moves meanwhile.    *)
(***************************************************************************)
EXTENDS Integers, Tables

CONSTANTS
  Subjects,      \* the rows that are watched
  KindOf,        \* which sweep watches each of them
  DueInputs,     \* the dates each may be given, in the unit of its kind
  Instants,      \* the hours at which something happens
  Workers,       \* the sweeps that may run at the same time
  MaxMoves,      \* bound on the changes made to what is watched
  MaxFailures    \* bound on the sweeps that die

Kinds ==
  { "submission_sla", "document_expiry", "follow_up_overdue",
    "project_ending", "zero_bench" }

ASSUME SweepInputs ==
  /\ KindOf \in [ Subjects -> Kinds ]
  /\ DueInputs \in [ Subjects -> SUBSET Nat ]
  /\ Instants \subseteq Nat /\ Instants # {}
  /\ MaxMoves \in Nat /\ MaxFailures \in Nat

VARIABLES
  now,             \* the hour
  watched,         \* of each subject: when it is due, and whether it is live
  notifications,   \* table: dedupe_key -> notification
  sweeping,        \* what each worker is doing
  moves, failures  \* how often the bounded things have happened

watching == << now, watched, notifications, sweeping, moves, failures >>

-----------------------------------------------------------------------------
(* What counts as a fact.                                                  *)

\* Deadlines and follow-ups are instants, the other dates are days.
in_hours(kind) == kind \in { "submission_sla", "follow_up_overdue" }

remaining(kind, due, at) == due - (IF in_hours(kind) THEN at ELSE at \div 24)

SLA_MILESTONES == { 48, 24, 8, 2 }

PROJECT_ENDING_MILESTONES == { 60, 30, 14 }

bench_milestones == { 90, 60, 30, 15, 7 }

document_reminder_days == { 90, 60, 30, 7 }

\* Mutant: only the exact distance counts.
tightest_if_exact(milestones, left) ==
  { m \in milestones : m = left }

\* The tightest milestone a countdown has reached, as a set of at most one
\* (sla_milestone, milestone_for and the loop of sweep_project_ending).
tightest(milestones, left) ==
  { m \in milestones :
      0 <= left /\ left <= m /\ \A n \in milestones : left <= n => m <= n }

\* reminder_milestone, and 0 for a document that has expired.
document_milestone(left) ==
  IF left < 0 THEN { 0 } ELSE { m \in document_reminder_days : m = left }

\* The milestones a subject has reached: none or one.  A follow-up is named by
\* the day it was due instead.
reached(kind, due, at) ==
  LET left == remaining(kind, due, at) IN
  CASE kind = "submission_sla"    -> tightest(SLA_MILESTONES, left)
    [] kind = "document_expiry"   -> document_milestone(left)
    [] kind = "follow_up_overdue" -> { due \div 24 }
    [] kind = "project_ending"    -> tightest(PROJECT_ENDING_MILESTONES, left)
    [] kind = "zero_bench"        -> tightest(bench_milestones, left)

\* Mutant: an alert of fifteen days has no severity.
severity_without_fifteen(kind, milestone, left) ==
  IF milestone = 15 THEN "UNKNOWN" ELSE "CRITICAL"

severity(kind, milestone, left) ==
  CASE kind = "submission_sla" ->
         IF milestone = 2 THEN "CRITICAL"
         ELSE IF milestone = 48 THEN "INFO" ELSE "WARNING"
    [] kind = "document_expiry" ->
         IF milestone <= 15 THEN "CRITICAL" ELSE "WARNING"
    [] kind = "follow_up_overdue" ->
         IF (0 - left) \div 24 >= 3 THEN "CRITICAL" ELSE "WARNING"
    [] kind = "project_ending" ->
         IF milestone <= 30 THEN "WARNING" ELSE "INFO"
    [] kind = "zero_bench" ->
         IF milestone = 7 THEN "CRITICAL"
         ELSE IF milestone \in { 15, 30 } THEN "WARNING" ELSE "INFO"

\* Mutant: documents that have expired are looked at no more.
selected_unexpired(kind, row, at) ==
  row.live /\ remaining(kind, row.due, at) \in 0..90

\* The WHERE clause of each sweep.
selected(kind, row, at) ==
  LET left == remaining(kind, row.due, at) IN
  CASE kind = "submission_sla"    -> row.live /\ left \in 1..48
    [] kind = "document_expiry"   -> left <= 90
    [] kind = "follow_up_overdue" -> row.live /\ left < 0
    [] kind = "project_ending"    -> row.live /\ left \in 0..60
    [] kind = "zero_bench"        -> row.live

\* Mutant: one alert per subject, whatever it is about.
dedupe_key_of_subject(s, milestone) == << s, 0 >>

\* "sla:<requirement>:<milestone>" and so on.
dedupe_key(s, milestone) == << s, milestone >>

-----------------------------------------------------------------------------
\* loaded: the rows as the sweep found them; left: those not yet examined;
\* fresh: its alerts, not yet committed.
Idle == [ kind |-> "none", at |-> 0, loaded |-> EmptyTable, left |-> {},
          fresh |-> EmptyTable ]

SweepsInit ==
  /\ now \in { i \in Instants : \A j \in Instants : i <= j }
  /\ watched \in [ Subjects -> [ due : UNION { DueInputs[s] : s \in Subjects },
                                 live : { TRUE } ] ]
  /\ \A s \in Subjects : watched[s].due \in DueInputs[s]
  /\ notifications = EmptyTable
  /\ sweeping = [ x \in Workers |-> Idle ]
  /\ moves = 0 /\ failures = 0

\* The beat schedule, or POST /notifications/sweep and /bench-sweep.
StartSweep(x, kind) ==
  LET rows == { s \in Subjects :
                  KindOf[s] = kind /\ selected(kind, watched[s], now) }
  IN
  /\ sweeping[x] = Idle
  /\ rows # {}    \* with none the sweep ends at once
  /\ sweeping' = [ sweeping EXCEPT ![x] =
                     [ kind |-> kind, at |-> now,
                       loaded |-> Select(watched, rows), left |-> rows,
                       fresh |-> EmptyTable ] ]
  /\ UNCHANGED << now, watched, notifications, moves, failures >>

\* The alerts a row gives rise to: none, or one under its key.
alerts(kind, s, due, at) ==
  LET keys == { dedupe_key(s, m) : m \in reached(kind, due, at) } IN
  [ k \in keys |->
      [ severity |-> severity(kind, CHOOSE m \in reached(kind, due, at) : TRUE,
                              remaining(kind, due, at)),
        about    |-> due ] ]

\* raise_once (and _already_raised, _raise_alert): look, and add what is not
\* there; what this sweep has flushed itself it can see.
Examine(x, s) ==
  LET t   == sweeping[x]
      new == alerts(t.kind, s, t.loaded[s].due, t.at)
      seen == DOMAIN notifications \cup DOMAIN t.fresh
  IN
  /\ s \in t.left
  /\ sweeping' =
       [ sweeping EXCEPT
           ![x].left = @ \ { s },
           ![x].fresh = PutAll(@, Select(new, DOMAIN new \ seen)) ]
  /\ UNCHANGED << now, watched, notifications, moves, failures >>

Finished(x) == sweeping[x] # Idle /\ sweeping[x].left = {}

\* One transaction for the whole sweep; dedupe_key is unique.
Commit(x) ==
  /\ Finished(x)
  /\ keys_are_free(notifications, EmptyTable, sweeping[x].fresh)
  /\ notifications' = PutAll(notifications, sweeping[x].fresh)
  /\ sweeping' = [ sweeping EXCEPT ![x] = Idle ]
  /\ UNCHANGED << now, watched, moves, failures >>

\* The unique key is taken: IntegrityError, and every alert of the run is lost.
Collide(x) ==
  /\ Finished(x)
  /\ ~ keys_are_free(notifications, EmptyTable, sweeping[x].fresh)
  /\ sweeping' = [ sweeping EXCEPT ![x] = Idle ]
  /\ UNCHANGED << now, watched, notifications, moves, failures >>

\* The worker dies, or one row makes the sweep raise (run_for_resource may).
Fail(x) ==
  /\ sweeping[x] # Idle
  /\ failures < MaxFailures
  /\ failures' = failures + 1
  /\ sweeping' = [ sweeping EXCEPT ![x] = Idle ]
  /\ UNCHANGED << now, watched, notifications, moves >>

\* Somebody moves a deadline, a follow-up, an expiry or an end date, or closes,
\* reopens, redeploys or releases what is watched.
Move(s) ==
  /\ moves < MaxMoves
  /\ moves' = moves + 1
  /\ \E due \in DueInputs[s], live \in BOOLEAN :
       /\ KindOf[s] = "document_expiry" => live
       /\ watched' = [ watched EXCEPT ![s] = [ due |-> due, live |-> live ] ]
  /\ UNCHANGED << now, notifications, sweeping, failures >>

Tick ==
  /\ \E later \in Instants : later > now /\ now' = later
  /\ UNCHANGED << watched, notifications, sweeping, moves, failures >>

\* Beat starts every sweep again and again, and a worker that does not die
\* gets on with its sweep.  People and the calendar are under no obligation.
Starts(kind) == \E x \in Workers : StartSweep(x, kind)

GetsOn(x) == (\E s \in Subjects : Examine(x, s)) \/ Commit(x) \/ Collide(x)

Sweep(x) ==
  \/ \E kind \in Kinds : StartSweep(x, kind)
  \/ GetsOn(x)

SweepsNext ==
  \/ \E x \in Workers : Sweep(x) \/ Fail(x)
  \/ \E s \in Subjects : Move(s)
  \/ Tick

SweepsSpec ==
  /\ SweepsInit /\ [][SweepsNext]_watching
  /\ \A kind \in { KindOf[s] : s \in Subjects } : SF_watching(Starts(kind))
  /\ \A x \in Workers : WF_watching(GetsOn(x))

-----------------------------------------------------------------------------
Severity == { "INFO", "WARNING", "CRITICAL" }

\* What is stored is an alert about a subject; what a sweep is about to raise is
\* one about a row it has examined, for the date it found there.
SweepsTypeOK ==
  /\ now \in Instants
  /\ watched \in [ Subjects -> [ due : Nat, live : BOOLEAN ] ]
  /\ \A k \in DOMAIN notifications :
       /\ k[1] \in Subjects
       /\ notifications[k] \in [ severity : Severity, about : Nat ]
  /\ \A x \in Workers :
       LET t == sweeping[x] IN
       /\ t.kind \in Kinds \cup { "none" }
       /\ DOMAIN t.loaded \subseteq { s \in Subjects : KindOf[s] = t.kind }
       /\ \A k \in DOMAIN t.fresh :
            /\ k[1] \in DOMAIN t.loaded \ t.left
            /\ t.fresh[k].severity \in Severity
            /\ t.fresh[k].about = t.loaded[k[1]].due
  /\ moves \in 0..MaxMoves /\ failures \in 0..MaxFailures

watched_by(kind) == { s \in Subjects : KindOf[s] = kind }

\* Not even a sweep that fails, or two that collide over another row, keep an
\* expired document from being announced in the end, unless it is renewed.
ExpiredIsAnnounced ==
  \A s \in watched_by("document_expiry") :
    LET expired == remaining("document_expiry", watched[s].due, now) < 0
    IN expired ~> (<< s, 0 >> \in DOMAIN notifications \/ ~ expired)

\* "Rescheduling the action produces a fresh alert when that one slips": every
\* date an opportunity's next action slips past is announced as long as it
\* stands, also after an earlier date of the same action was.
SlippedIsAnnounced ==
  \A s \in watched_by("follow_up_overdue") : \A due \in DueInputs[s] :
    LET slipped == watched[s] = [ due |-> due, live |-> TRUE ] /\ due < now
    IN slipped ~> (<< s, due \div 24 >> \in DOMAIN notifications \/ ~ slipped)

\* The hours or days in which nothing may be left unsaid: the last milestone.
LastCall ==
  [ kind \in Kinds |-> IF kind = "submission_sla" THEN 0..2
                       ELSE IF kind = "zero_bench" THEN 0..7 ELSE {} ]

\* The rows of a sweep that have reached it.
last_calls(t) ==
  { s \in DOMAIN t.loaded :
      remaining(t.kind, t.loaded[s].due, t.at) \in LastCall[t.kind] }

\* The dates that the CRITICAL alerts of a subject are about.
called(table, s) ==
  { table[k].about : k \in { j \in DOMAIN table :
                               j[1] = s /\ table[j].severity = "CRITICAL" } }

Commits(x) ==
  /\ Finished(x) /\ sweeping'[x] = Idle /\ failures' = failures
  /\ keys_are_free(notifications, EmptyTable, sweeping[x].fresh)

\* A sweep that commits leaves a CRITICAL alert about the very date of every
\* deadline it found within the last two hours and of every roll-off it found
\* within a week, however many milestones went by without one: all but those of
\* subjects that had one about another date before, whose key names no date.
LastCallIsMade ==
  [][ \A x \in Workers : Commits(x) =>
        \A s \in last_calls(sweeping[x]) :
          LET due == sweeping[x].loaded[s].due IN
          called(notifications, s) \subseteq { due } =>
            due \in called(notifications', s) ]_watching

\* "90/60/30/15/7 days before a deployment ends" (worker/celery_app.py): of any
\* deployment and any deadline, also after one that was announced has moved.
EveryLastCallIsMade ==
  [][ \A x \in Workers : Commits(x) =>
        \A s \in last_calls(sweeping[x]) :
          sweeping[x].loaded[s].due \in called(notifications', s) ]_watching
=============================================================================
