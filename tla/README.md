# Glimmora, modelled in TLA+

Glimmora is the back end of an IT staffing firm: client requirements come in,
consultants are matched and submitted to them, interviewed, selected, deployed
and billed. It is a FastAPI application over PostgreSQL (SQLAlchemy, one
session per request) with a Celery worker for scheduled sweeps. This directory
holds a formal model of its logic, the model-checking runs over it and
machine-checked proofs. Paths below are relative to `src/app/`.

## 1. Inventory

| Component | State it keeps | Operations | Correct when |
|---|---|---|---|
| **Sales pipeline** (`services/pipeline.py`, `engines/pipeline/stages.py`, `models/pipeline.py`) | one opportunity per requirement with a stage, closure and decision; submissions with a status and a blocking column; interviews by round | open, change stage, decide, submit, change status, schedule, record outcome | no consultant is live twice on a requirement; stages move automatically only forward; closures match stages |
| **Deployments and billing** (`services/delivery.py`, `engines/billing/periods.py`) | deployments, one billing row per deployment and month, the consultant's availability | deploy, end, extend, edit, generate projections, enter, correct, confirm | amounts reconcile; no working day is lost or billed twice; projections never count as revenue nor survive the end |
| **Database session** (`db/session.py`) | the rows a request has loaded and changed | flush, commit, rollback | each request is all or nothing |
| **Requirements** (`services/requirements.py`) | status, review status, active and archived flags, rates | capture, parse, edit, accept, reject, change status, archive | nothing parsed is worked on before a review; rows stay sound |
| **Notifications and sweeps** (`services/notifications.py`, `services/documents.py`, `worker/`) | alerts under a unique dedupe key | four sweeps, on a schedule and by hand | a fact alerts once, and does alert |
| **Reverse matching, bench radar** (`services/reverse_matching.py`, `engines/matching/bench.py`) | stored suggestions, bench alerts | run, sweep | the last milestone of a roll-off is not missed |
| **Matching and scoring configurations** (`services/matching.py`, `services/scoring.py`, `services/simulation.py`) | versioned rules, one active per kind; matches and scores of a requirement | create, activate, seed, run, score, simulate | one version active, one score current, one run's matches |
| **Opportunity scoring** (`engines/scoring/`) | none: arithmetic over rows | score | what is missing is redistributed; suppressors only lower; figures reconcile |
| **Authentication, users** (`services/auth.py`, `services/user.py`, `core/deps.py`, `core/permissions.py`) | refresh-token families, failure ledger, lockout, roles | log in, refresh, log out, change password, administer | a family has one good token; guessing stops and lockouts end; an administrator remains; roles are kept to |
| **Workbook import** (`services/importing.py`, `engines/importing/`) | batches and their rows | stage, commit, discard | an import is what it says it is, writes the valid rows and is not repeated |
| **Talent cloud, storage** (`services/resources.py`, `storage/service.py`) | consultants, codes, documents, visa status, stored bytes | add, parse a CV, edit, archive, add and delete documents | rows and bytes agree; the visa status follows the documents |
| **Accounts** (`services/accounts.py`) | accounts, routes, contacts, activities | edit, mark, delete, log | one preferred route and one primary contact per account |
| **Rate limiter** (`core/rate_limit.py`) | a counter per client and window, in Redis | hit | a refused client comes back |
| **Extraction breaker** (`ai/registry.py`) | failures counted, opening time | try, retry, fall back, open, cool down | a closed breaker has room for a failure |
| Dashboards, exports, audit, extraction providers, web shell, seeds | none of their own, or append-only | read, format, log | no state machines |

Components interact through the database and by calls inside one transaction:
`SubmissionService` calls `OpportunityService.change_stage`, `InterviewService`
calls `SubmissionService.change_status`, the pipeline looks requirements up by
id, `DeploymentService` reads submissions and writes consultants, the sweeps
read what all of these write, scoring reads matches and rules. What is shared
outside the database: the breaker, in one process; the rate limiter's counter,
in Redis; the bytes of documents, in an object store.

What is hard: every request runs its own transaction at READ COMMITTED, takes
no row lock, keeps the first copy of each row it loads, does not flush before
it queries (`autoflush=False`), and writes only the columns it changed. So a
rule that spans two columns, two rows or two tables is kept by the order of
reads and writes of the requests that happen to overlap, or by a constraint
where there is one. Sweeps are missed, overlap and die; the failure ledger
commits apart from the login it records; the store knows no rollback; a process
dies between two Redis commands; calls outlive the breaker that should have
stopped them. The places, by line, are under `hazards` in `PROJECT.json`.

## 2. Plan

Done, in this order: the pipeline one request at a time, its proofs, its
interleaving; billing periods; deliveries one request at a time and their
interleaving; requirements, their review gate and its composition with the
pipeline; sweeps with liveness; configurations, matches and scores; access,
lockout, endpoints; imports of all entities; talent and the store; the directory; the rate
limit and the breaker; the arithmetic of the opportunity score. Then the proofs:
the pipeline, the requirements, the guards, the calendar, the interleaved
pipeline and that it refines the atomic one, deliveries one request at a time
and that the interleaved ones refine them, the records, the sweeps, and the
arithmetic of the opportunity score.

Left, proof work about a model that exists: what overlapping sessions of
`DeliverySessions` keep, its types first.

Constants and their assumptions sit in the modules that use them, invariants
are conjunctions of named parts, and no module declares a RECURSIVE operator.

## 3. Modules

| Module | Models |
|---|---|
| `Tables` | tables as partial functions; what a flush of loaded and changed rows does to them; unique keys |
| `Stages` | `engines/pipeline/stages.py` and the enums of `models/pipeline.py` |
| `PipelineData` | the pipeline's tables, what the services compute from loaded rows, the properties |
| `Pipeline` | one action per request, alone in its transaction |
| `SeatRegistry` | the abstract promise: a seat per (requirement, consultant), held by one submission at a time |
| `PipelineSessions` | the same requests as reads, a COUNT query, and a flush-and-commit, of any number of sessions |
| `PipelineProofs` | theorems about `Pipeline` |
| `PipelineSessionsProofs` | theorems about `PipelineSessions`, and that it implements `Pipeline` |
| `Periods` | `engines/billing/periods.py` over a real Gregorian calendar |
| `PeriodsProofs` | lemmas about the calendar, its months and its working days |
| `DeliveryData`, `Delivery`, `DeliverySessions` | the same split for `services/delivery.py` |
| `DeliveryProofs` | theorems about `Delivery` |
| `DeliverySessionsProofs` | that `DeliverySessions` with one session implements `Delivery` |
| `Extraction` | what `services/requirements.py` makes of a parser's result |
| `Requirements` | every request on a requirement, overlapping with any others |
| `ReviewGate` | the abstract promise of the review (AD-7) |
| `Demand` | `Requirements` and `Pipeline` composed over one table |
| `Sweeps` | the scheduled alerts, with a clock, overlapping workers and deaths |
| `SweepsProofs` | theorems about `Sweeps` |
| `Configurations` | rules, matches and scores, by overlapping requests |
| `Scoring` | `engines/scoring` and what `services/scoring.py` feeds it |
| `Access` | accounts of users and refresh tokens, by overlapping requests |
| `Lockout` | failed logins, their ledger and time |
| `Endpoints` | roles, permissions, guards and what each endpoint writes |
| `RateLimit` | the counter in Redis, between processes that die |
| `Breaker` | the breaker around a provider that fails |
| `GuardsProofs` | theorems about `Lockout`, `RateLimit`, `Breaker`, `Endpoints`, the calendar and `Scoring` |
| `Imports` | staging, commit and discard of workbooks of all five entities, beside what is made, changed and removed by hand |
| `Talent` | consultants, documents and the store |
| `Directory` | accounts, routes, contacts and activities |
| `RecordsProofs` | theorems about `Requirements`, `Configurations`, `Access`, `Imports`, `Talent` and `Directory`, and about all of them together |
| `MC*` | the instances TLC checks; `MCPeriods` and `MCGuards`, `MCRecords` also say what is checked |

**Two ways of modelling a request.** In `Pipeline` and `Delivery` a request is
one action: its conjuncts are the handler's checks in the order of the code and
its primed variables everything it writes, automatic moves included. A refused
request is rolled back as a whole and is no step. Everywhere else a request is
a `Start…` action, which reads committed rows, makes the checks and records in
the request's own variable what it read and what it will write, and a
`Commit…` action, which flushes the difference; `Rollback…` may strike in
between. Writes of one request are one step, which is what other transactions
can observe. `PipelineSessions` and `DeliverySessions` have more reads where
the code has more. `late`, in the request's variable, is not state of the
program: it records that another request committed since this one read, for
the properties that say which rules overlaps alone can break.

**Pipeline.** An opportunity row has `stage`, `closed` (for `closed_reason`,
`closed_at`), `decision`, and `moved`, the latest row of its stage history. A
submission has `status`, `sent` (`submitted_at` is set) and `blocks`
(`blocks_resubmission`, FALSE for NULL); the unique constraint is
`seat_is_free`. One order matters and is kept: `create` flushes the submission
before the COUNT query runs, `change_status` does not, so reviving the only
submission of an opportunity can be refused for want of a live one.

**Delivery.** Dates are ordinals of a calendar whose first year and weekday are
constants; money is in cents; the ratio of working days is an exact rational
rounded half up. (The code divides with 28 digits first; the result differs by
a cent only where half a cent falls on one working day of a 22-day month, which
needs a rate that is an odd multiple of 11 cents; the rates used are none.)
`synced` is `_sync_resource_availability`, `cancels` the condition of
`_cancel_projections_after`, `generated` what the generator makes of the months
it found. `edits` is PATCH, one field at a time, which synchronises nothing.

**Requirements.** A row has status, review, the active and archived flags, the
two rates and the parsed fields. `Commit` writes the columns that differ from
the row as loaded (`merge`), so that two edits can interleave by column.
`Demand` runs the pipeline's requests over the same table: `ensure` and
`create` ask for a requirement's id and for nothing else of it.

**Sweeps.** A sweep loads the rows it watches once (`StartSweep`), looks for
each whether its key has alerted (`Examine`, `raise_once`), and commits all its
alerts together (`Commit`) or loses them all to a taken key (`Collide`) or to a
death (`Fail`). Time jumps (`Tick`), which is how hours are missed, and people
move what is watched (`Move`). Deadlines and follow-ups are hours, the other
dates days. An alert keeps the date it is about, its key does not, except a
follow-up's: this is what `LastCallIsMade` makes an exception for.

**Lockout, RateLimit, Breaker** have one variable for what is shared and one
for the step each login, process or call is at. Counters stop at the value
above which nothing tells them apart. Time is what it can do: a lock ends, an
attempt leaves the window, a key expires, an open breaker cools down.

**Endpoints** has, router by router, the guard of each endpoint, the
permissions it needs, the tables its call writes and the rules it loads, which
seeds them; a call answers with what it changed. Tokens carry a role; the row
of the user, which an administrator changes, decides.

**Imports.** `things` is one table of what workbooks are about: accounts,
contacts, projects, requirements and consultants, each with the columns by
which rows are told apart, a name and a country or an address, in the
lower-case form in which they are compared. `is_match` is what
`_find_existing` looks for, entity by entity: a contact without an address is
never found, deleted consultants and requirements are not looked at, archived
accounts and projects are, an account without a country in the row is found by
its name alone. `CommitImport` stops where the code does: at the constraint on
name and country, which a missing country escapes, and, for a batch of contacts,
at the constructor in `_create_contact`. `Add`, `Alter` and `Remove` are the
requests of the other screens on the same five tables, `DELETE /contacts` among
them, which alone removes a row for good. Each of these is one step: how two of
them overlap is in `Directory`, `Talent` and `Requirements`. A process that
dies amid a commit is a request that goes no further.

**Talent.** `objects` is the store. Bytes are put before the commit and deleted
before the commit; `adding` and `removing` are the requests that have touched
the store and not yet ended. `NextDay` may strike a request under way.

**Scoring.** What may be missing is a set of at most one value, so that "not
known" is handled by the code's own rule everywhere. The state is the rows the
score is computed from; a step is an edit of one of them.

## 4. Runs

| Run | Shows |
|---|---|
| `pipeline` | With requests one at a time: types and references (`TypeOK`), no double submission (`OneLiveSubmission`), the columns that say one thing twice agree (`ColumnsAgree`), automatic moves only pull an opportunity forward and keep up with its submissions (`StageFollowsSubmissions`), a stage that needs a live submission is entered only with one (`StageBackedBySubmission`), and the pipeline implements `SeatRegistry` (`SeatsAreExclusive`). |
| `sessions_alone` | With one session, the reads and the commit of a request amount to the one step `Pipeline` gives it (`RequestsAreAtomic`), so the two models agree on the code. |
| `sessions_racing` | What two interleaved sessions cannot break (`RacesCannotBreak`: the constraint, the dating of what was sent, the closure of what is closed), and rounds without gaps (`RoundsContiguous`). |
| `sessions_double_live` *(violated)* | Two racing status changes defeat the duplicate guard. |
| `delivery_billing` | With requests one at a time, across a year end: types, amounts that reconcile, revenue that somebody signed, no projection after the end, a generator that changes nothing the second time. |
| `delivery_alone` | The interleaved delivery model implements the atomic one. |
| `delivery_overwritten` *(violated)* | A month confirmed while projections are generated is written over. |
| `guards` | A lockout ends (`LockoutEnds`) and stops guessing (`GuessingStops`); a refused client comes back (`RefusedComesBack`); a closed breaker has room (`ClosedHasRoom`); managers change nothing (`ManagementObserves`); an owed change of password comes first (`OwedPasswordFirst`); months lose no working day, split months add up and whole months bill whole (`CalendarHolds`); the opportunity score is what its parts say (`ScoreHolds`) and good news never lowers it (`GoodNewsNeverHurts`). |
| `sweeps` | Types, of alerts stored and about to be raised (`SweepsTypeOK`); expired documents and slipped follow-ups are announced in the end (`ExpiredIsAnnounced`, `SlippedIsAnnounced`); a sweep that commits leaves a critical alert about the very date of every deadline and roll-off it found in its last hours or days (`LastCallIsMade`), unless one about another date of that subject stood before; while dates move, hours are skipped, workers overlap and die. |
| `sweeps_moved` *(violated)* | Without that exception (`EveryLastCallIsMade`): a last call is made, the date moves on, and comes round without a call. |
| `records` | Two overlapping requests: the review gate holds (`ReviewIsAGate`, a refinement); new consultants can always be numbered (`NextCodeIsFree`); a re-import makes nothing of a row while what an earlier import made of it stands, whichever of the five entities it is of and whatever is made, changed, archived and deleted by hand besides (`ReimportMakesNothing`); the visa status follows the documents (`VisaFollowsDocuments`); files and bytes part only when a request is undone (`OnlyUndoneRequestsLoseFiles`); and of rules that overlaps do break, that nothing else breaks them (`OnlyOverlaps…`, `RulesStayInOrder`, `ImportsAreAccounted`). |
| `demand_draft` *(violated)* | A consultant is submitted to a requirement whose parse nobody has reviewed. |

**Properties that name overlaps.** Most rules over two rows have no lock and
no constraint behind them, and two overlapping requests do break them. What can
be asked of such code, and what these properties ask, is that each request's
own checks, unmarkings and revocations are enough for the rows it read: if a
rule holds and the request that ends was overtaken by none, it holds after.
That covers sequences of requests of any kind and length, with overlaps in
between that did break it and others that repaired it.

**The four violated properties** are each a sentence of the code's own
comments; the sentence, the lines and the course of events are under
`findings`. Other places where two sessions break a rule are not claimed:
`OneLiveSubmission`, `ColumnsAgree`, `ProfitReconciles` and
`NoProjectionAfterEnd` are properties of requests one at a time. An automatic
stage move that overlaps a closure writes the stage over it
(`services/pipeline.py:520`), and an extension agreed ahead makes a consultant
available who is still at work (`services/delivery.py:310`).

**Observations without a run.** The family that a refused refresh revokes is
restored by the rollback its own error brings about (`services/auth.py:142`;
`StartRefusedRefresh`, which may only roll back). Reading a score or a
preview seeds default rules (`services/matching.py:87`), although
`api/v1/scoring.py:272` says reads have no side effects; this is the exception
in `ManagementObserves`. The flags of an account are NOT NULL with a default of
FALSE (`models/accounts.py:95`), so that "absent stays None, never False"
(`services/scoring.py:104`) does not apply to an account that exists.
`update_project` does not make the checks of `create_project`
(`services/accounts.py:373`). A rate in another currency is compared with the floor set in riyals as it stands
(`services/scoring.py:235`, `engines/scoring/config.py:49`), and so it is in
`Scoring`. No contact can be imported: `_create_contact` gives the constructor
of `Contact` a `job_title` (`services/importing.py:425`), which the model calls
`title` (`models/accounts.py:160`), so that a commit of contacts raises and is
taken back (`cannot_create`, `FailImport`); `services/exporting.py:116` reads
the same attribute. Duplicates are looked for when a file is staged and not
when it is committed (`services/importing.py:318`): two uploads of a spreadsheet
that are both staged before either is committed can both be committed, and make
their rows twice, which `ReimportMakesNothing`, speaking of what is staged after
an import, does not exclude.

### Bounds

One requirement, two consultants and two submissions are enough for a pair to
be taken, freed and taken again beside another consultant's progress;
requirements do not interact. Stage, status and outcome inputs represent each
case the code tells apart (a stage before, at and after the hint, one that
needs a submission, a terminal one). Two sessions suffice for each race: rules
are broken by a commit between one request's read and its own commit; a third
request repeats one of the roles. In `sessions_racing` the constraint
`RoundsOrRivals` has a behaviour follow the interviews of one submission or
the rivalry of two; the requests on one side do not read what the other side
writes, except the status an outcome sets, which `sessions_alone` covers.

Deliveries use dates on both sides of a new year, so that ending in December
cancels a projection of January; `Horizon` is 40 days instead of 360, which
reaches a month or two ahead. The calendar part of `guards` takes every pair of
dates from 29 December 2027 to 2 March 2028 (`FromDay`, `ToDay`, counted from
the start of 2027): a year end, a leap February, weekends at both edges; and
two rates, one that rounds and one that does not.

`guards` and `records` each merge modules that share no state: their product
would add only steps that commute, so a behaviour takes the steps of one,
chosen at the start, and a property of one module is evaluated in the
behaviours about it (elsewhere its variables rest in their initial state).
`CHECK_DEADLOCK` is off in runs where ids, versions or days get used up, or an
enumeration ends. In `guards`, three attempts, a limit of two, a threshold of
three and two retries leave room for counts below, at and above; with three
calls some are under way when others open or close the breaker. `RoutesOrContacts` keeps routes and contacts of `Directory` apart,
`MatchesOrScores` the matches and the scores of `Configurations`, which no request
reads together; scores are numbered in the order they come. A document expires
today or never, and a day passes.

`sweeps` has one subject of each of four kinds and two workers; instants 0 and
48 skip every hour between; one move of what is watched and one death at any
point. A behaviour is about the permit and the follow-up, or about the deadline
and the roll-off: the two pairs share no row, no key and no sweep, and a sweep
commits without regard to those of other kinds. The permit can be renewed, the
follow-up put off, and the deadline and the roll-off have two dates each, both of
which have an hour in their last call, so that a date moves between two last
calls and before the first. `project_ending` follows the same steps and is in
no run.

The imports in `records` have one entity to a behaviour, beside the accounts
that contacts and projects are of (`OneEntity`): no other table is read for it.
Two batches are the earlier import and the later one, of the same workbook or of
two that have rows alike, with a row that cannot be read and a name with and
without a country or an address. Two changes by hand are enough to archive and
make anew, or to rename into and out of a name that is imported. Three things
are numbered in the order they come, and within a batch in that of its rows,
since ids are compared for nothing but equality.

Symmetry is used on ids and sessions, which are only compared for equality,
and in no run with a liveness property.

`Scoring` computes with the rules the program ships. Four consultants and two
offers fall on both sides of the match gate, of the viable rate and of the
margin bands, with costs by the hour in dollars or unknown.

### Fairness

Only what the code or its schedule makes happen again:

- *Sweeps*: Celery beat starts each kind again and again, so a start that is
  enabled again and again is taken (SF, per kind); a worker that does not die
  gets on (WF). The run asks it only where something is to happen in the end, of
  documents and follow-ups. Nobody has to move a deadline, and time need not pass.
- *Lockout*: time passes, so a lock ends and an attempt is forgotten (WF).
  Nobody has to log in, or to stop.
- *Rate limit*: keys with a time to live expire (WF); the property is about a
  client that keeps trying (WF on `Hit`); processes may die between INCR and
  EXPIRE but not every time (SF on `Expire`).

Everywhere else requests are made by people and no fairness is assumed.

## 5. Proofs

Each theorem holds for every value of the constants that satisfies the named
assumptions of its module; all are proved for the specification itself, by an
inductive invariant, its three facts and one temporal step. The assumptions only
say of which sets the inputs are taken, that the markers for "no value" are no
values, and that counts are counts.

**`PipelineProofs`**, from `PipelineInputs`: `TypeCorrect`, `OneLive`,
`ColumnsKeepAgreeing`, `NoneUnreviewed`, the refinement
`PipelineImplementsSeats`, and the action properties `StageFollows` and
`StageIsBacked`. The invariant is the conjunction of the first four.
`OneLiveSubmission` alone is not inductive: `change_status` has no duplicate
check of its own and relies on the unique constraint, which speaks of `blocks`,
so `BlocksMirrorsStatus` is carried along; `TypeOK` carries that every
submission's requirement has an opportunity. For the refinement, `holder` maps
a pair to its live submission: `OneLiveSubmission` makes the CHOOSE in it a
function of the state that changes for at most one pair per step. The two
action properties follow from the invariant, one request at a time: what
`advance` may do to a stage is stated once, for the stages of any two states.

**`PipelineSessionsProofs`**, from the same, for any number of overlapping
requests: `NothingBreaksThese`, `RoundsHaveNoGaps`, `TypeCorrect`, and, for one
session, `OneSessionIsAtomic`. `RacesCannotBreak` and `RoundsContiguous` speak
of stored rows only, and a commit writes what was decided on rows loaded
earlier. So the invariant has a part for the tables (`TablesOK`) and one for
every request in flight (`FlightsOK`): which rows it has loaded, that they are
still there, that what was dated then is dated now, and that the round it drew
is no further than the next one. That part survives the steps of others because
the tables only grow in what it mentions (`Grows`). For the refinement a
stronger statement is carried, which one session satisfies and two do not:
everything the request has read is still what is stored (`Fresh`). Then its
commit is the step of `Pipeline` with the same inputs, and all its other steps
are stutters; what is proved of `Pipeline` holds of the code as long as
requests do not overlap.

**`RecordsProofs`, requirements**, from `RequirementInputs` and `NotNumbers`:
`RowsKeepTypes`, `RequirementsImplementGate` (the refinement `ReviewIsAGate`)
and `OverlapsAloneBreakRows`, for any number of overlapping requests. A request
in flight writes over a row that has changed since it was read, so the
invariant `RInv` has to speak of what is in flight: what a request is about to
write respects the review of the row it loaded (`Respects`), and a row that was
reviewed when a request loaded it is so still (`StillReviewed`). Together they
make a column-by-column merge keep the gate. `SInv` adds that a request keeps
the row it loaded sound (`KeepsSound`), which, when it was not overtaken, is
the row it writes.

**`PeriodsProofs`** has no listed theorem of its own: it is the lemmas on the
Gregorian calendar that the next two need. That months follow one another
without a gap, that every date is in the month `period_for` gives, and that the
working days up to a date add up are statements about a function on the
naturals. Each is proved without the library's induction theorems: a
counterexample would have a least one (`NatSetInduction`, an induction over a
set of naturals), and the function's defining equation refutes it.

**`DeliveryProofs`**, from `DeliveryInputs` and the calendar's constants:
`TypeCorrect`, `ProfitsReconcile`, `RevenueIsSigned`, `GeneratingTwiceIsOnce`
and `NothingIsProjectedAfterTheEnd`. The invariant says of every record what
every request leaves it as (`GoodRecord`) and of every deployment that it
starts on a date that was asked for, so that the calendar reaches as far as its
projection. `NothingIsProjectedAfterTheEnd` has a hypothesis: nobody types the
status PROJECTED into a record by hand. The API lets a user do it (its default
is CONFIRMED, `api/v1/delivery.py:138`), and such a record may be of a month
after the deployment has ended, which nothing withdraws; it is the user's own
statement, not a projection the generator left behind. The runs take CONFIRMED
alone.

**`DeliverySessionsProofs`**, from `DeliveryInputs`: `OneDeliverySessionIsAtomic`,
that one session, undisturbed, implements `Delivery` (`RequestsAreAtomic`). As
for the pipeline, what is carried is that the request knows what is stored
(`Fresh`): it holds rows as they are in the tables (`Holding`), and what it will
write is what one of the requests makes of them (`Planned`), a request that ends
a deployment or generates projections having one read still to make. A flush
writes only the columns that changed; over rows that are fresh, and have their
table's columns, this is to write the rows (`FlushPuts`). `SpecUndisturbed` lets
no day pass and no submission be reconsidered while the request runs, and this
is needed: `status_on` and `synced` read the date when the request begins.
`Delivery` is an instance with the same constants, so its operators are first
shown to be those of `DeliveryData` (`SameCalendar` to `SameMonths`).

**`GuardsProofs`**: `LedgerStopsGuessing`, from `AttemptsAreAllowed` and for any
number of logins (the type invariant bounds the ledger, so that a full ledger
that stays full refuses every login that starts); `RoomWhileClosed`, from
`BreakerCounts`; `GuardsKeepTypes`, from these and `LimitIsCount`;
`PasswordComesFirst` and `ManagersObserve`, which go through every endpoint by
what makes it `Harmless`: it only reads, or it needs a permission that no
manager has, or it writes what is one's own; and `TheCalendarHolds`, for any
stretch of dates and any rates in whole cents. The last one is arithmetic: the
working days of a month's parts add up to those of the month, and each part is
rounded to the cent by no more than half a cent.

The last section of `GuardsProofs` is about the opportunity score, from
`ScoringInputs`: rates are amounts of cents in one of the four units, in any
currency; a consultant has at most one of them and a match of 0 to 100; an
engagement lasts a month at least.

- `ScoreIsItsParts` (`ScoreHolds`). The weighted sum is rounded four times:
  each of up to three contributions to hundredths, then their sum to a whole
  number. `EvenErrsByAHalf` bounds each error; together the contributions err by
  at most a hundredth and a half, and the components are whole numbers, so that
  the last rounding cannot carry the score past the best of them or below the
  worst (`HundredthsRoundWithin`). This needs the shares to be of the weight that is
  known (`SharesOfKnown`); divided by the whole weight they fall below the worst.
  The ceilings are a minimum over a set of codes, whichever come together. The
  figures reconcile because value, cost and profit are the same monthly amounts
  times the same months; only the spreading of one-off costs is rounded.
- `GoodNewsHelps` (`GoodNewsNeverHurts`) is monotonicity along the whole chain:
  rounding rises with its argument (`RoundingRises`, also past the product that
  floating point rounds the other way, `GatedRises`), a table of bands with what
  is met (`PointsRise`), the margin with the rate at a fixed cost
  (`MarginGrows`: a truncated quotient and a rounded remainder, which could have
  jumped where the quotient does), the commercial score with the margin, value
  and duration (`WorthRises`), and the weighted sum with each part of it when
  the same parts are known (`WeightedRises`). The hypothesis "with the same
  components known" is the code's own: a component that becomes known takes
  weight from the others, and may lower the score.
- Currencies that are not configured make a figure unknown and never zero; the
  proofs take any string for a currency.

**`SweepsProofs`**, from `SweepInputs`, for anything that is watched, whenever it
is due and however it moves, and any number of sweeps that overlap, collide and
die: `SweepsTypeCorrect` and `TheLastCallIsMade`. A sweep commits what it decided
on rows as it loaded them, so the invariant says of each sweep under way that
every row it has examined in its last hours or days has its final alert, under
its key, among the alerts stored or among those the sweep is about to add
(`Told`); that an alert about a final milestone is CRITICAL (`GoodAlerts`), and
one the sweep is about to add is about the date it loaded (`AboutExamined`). A commit of
another sweep adds alerts and takes none away, which keeps both. The final
alert that is found stored is CRITICAL, so it is about the very date unless the
subject has one about another. What is left is arithmetic: in the last two
hours, or the last week, the tightest milestone that is reached is the final one
(`LastCallReachesFinal`), however many were missed.

**`RecordsProofs`**, for any number of overlapping requests in each of its
modules: `RulesKeepTypes` and `OverlapsAloneEndRules` from `KindsOfRules`;
`AccessKeepsTypes` and `OverlapsAloneEndOrder` from `SomeUser`;
`ImportsKeepTypes`, `ImportsFindWhatTheyMade` and `OverlapsAloneMiscount` from
`FilesOfRows`;
`TalentKeepsTypes`, `CodesStayFree`, `UndoneRequestsAloneLoseFiles` and
`VisasFollow` from `TalentInputs`; `DirectoryKeepsTypes` and `MarksStaySingle`
from `RoutesLeadElsewhere`. All of these modules have
requests that read, decide and then write a column at a time, so their
invariants have one form. A request under way is described by what it read,
which is still there, and by what it is about to write, which are rows. Until
it is overtaken (`late`), it is also described by what its writing would keep
of the order there is: `RunKeepsOrder` for rules, `KeepsOrder` for users and
tokens, the marks it takes away (`RouteMark`, `ContactMark`) in the directory,
the batch as it was in `ImportOf`. A commit by anyone else makes the others
late, after which nothing need be known of them but their types; that is
exactly what the properties say of overlaps.

- For `ImportsFindWhatTheyMade` it does not matter whether requests overlap: the
  invariant has that whatever a row says was created is there and of the
  batch's entity. No contact is ever created by an import, so the one request
  that removes a row for good takes away nothing an import tells of. What is
  there, and still what the row said of it, is found by `is_match`, which is a
  case for each entity.
- `OverlapsAloneMiscount` counts: until a request on a batch is overtaken, the
  batch is as it was when the request read it, and the ids it draws are unused
  and distinct, so a commit adds as many rows as it says, each with a thing of
  its own.
- For `CodesStayFree` the invariant has that no code exceeds the number of rows,
  also of a request that has drawn its code and not inserted yet: rows are
  never deleted, so their number is a bound that only grows.
- For `UndoneRequestsAloneLoseFiles` overlaps do not matter either: a document is
  stored under a key that is new, so what one request stores is never what
  another stores or removes (`KeysApart`), and commits in any order leave a file
  record for every object. The first form of the property excused requests that
  were overtaken; the proof never used it, and the property now does without.
- For `VisasFollow` the invariant says of a request that has not been overtaken
  that the status it will write is what the documents, as it will leave them,
  give (`VisasInv`), for each consultant whose documents it changes.
- `RecordsAreOfTheirModules`: every behaviour of the modules side by side is one
  of each, so that `RecordsKeepTypes` follows from what is proved of each, and
  all the other theorems hold of the whole as well.

*Only model-checked*:

- liveness (`ExpiredIsAnnounced`, `SlippedIsAnnounced`, `LockoutEnds`,
  `RefusedComesBack`): it needs fairness and ENABLED, which are beyond the
  installed provers;
- what the runs with a violation show: a counterexample is its own proof.

## 6. Not modelled

- Free text and floating point: what extraction providers make of a text, the
  scorers of the matching engine and of reverse matching, explanations,
  narratives, simulations' differences. What is made of their results is
  modelled.
- Scoring rules other than the shipped defaults; what versions do is in
  `Configurations`.
- Rows that nothing reads back to decide: audit log, history rows other than
  the latest stage move, communications, skills, notes, names, descriptive
  fields and their PATCH.
- In deliveries: one-off costs, hourly and daily rates, margins, currencies,
  revenue summaries. `generate_for_all` reads its deployments and their months
  each at one moment.
- In the pipeline: proposed rates; a review of a consultant other than its
  acceptance, and reviews that become outstanding again.
- In `Access`: that a password must be changed before anything else is asked
  for (`Endpoints` has it), and the expiry of refresh tokens.
- In `Imports`: column schemas, coercion, reading the workbook; two requests by
  hand that overlap and both find a name without a country free.
- In `Scoring`: the number of positions, by which value and profit are
  multiplied at the end (`engines/scoring/commercial.py:146`, 202-210), the
  confidence of the commercial terms and of the composed score
  (`engines/scoring/opportunity.py:177`): only addressability's is composed.
- In `Directory`: projects and their positions.
- Notifications: the inbox (mark read), recipients, wording.
- `Endpoints`: redaction of fields by role, shapes of requests and answers.
- The in-memory rate limiter of development; SQLite, which serialises writers;
  seeds, migrations, middleware and configuration, which keep no state of the
  business.

Components marked `not_modelled` in `PROJECT.json` are among these; those
marked `partly` say there what they leave out.
