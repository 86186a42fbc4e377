----------------------------- MODULE GuardsProofs -----------------------------
(***************************************************************************)
(* What is proved of the parts MCGuards checks side by side: the lockout,  *)
(* the rate limit, the breaker, the permissions of the endpoints, the      *)
(* billing calendar and the opportunity score.                             *)
(***************************************************************************)
EXTENDS MCGuards, PeriodsProofs

(***************************************************************************)
(* The lockout: any number of logins, any LOGIN_MAX_ATTEMPTS.              *)
(***************************************************************************)
\* Logins, the account and the ledger start with their types.
LEMMA LockoutStarts == LockoutInit => LockoutTypeOK
  BY AttemptsAreAllowed
     DEF LockoutInit, LockoutTypeOK, AccountRow, LoginSteps, NoLogin, NoRow

\* The row takes any count within the bound and any state of the lock.
LEMMA CountedRow ==
  ASSUME account \in AccountRow, NEW n \in 0..MaxAttempts,
         NEW lock \in { "none", "past", "in_force" }
  PROVE  [ account EXCEPT !.failures = n, !.lock = lock ] \in AccountRow
  BY DEF AccountRow

\* So does the row a failure leaves: its count is capped.
LEMMA CappedRow ==
  ASSUME NEW row \in AccountRow, account \in AccountRow
  PROVE  after_failure(row) \in AccountRow
<1>1. capped(row.failures + 1) \in 0..MaxAttempts
  BY AttemptsAreAllowed DEF AccountRow, capped
<1> QED
  BY <1>1 DEF AccountRow, after_failure

\* Every step keeps them.
LEMMA LockoutPreserves == LockoutTypeOK /\ [LockoutNext]_lockout => LockoutTypeOK'
<1> SUFFICES ASSUME LockoutTypeOK, [LockoutNext]_lockout PROVE LockoutTypeOK'
  OBVIOUS
<1> USE AttemptsAreAllowed
<1>1. NoLogin \in [ at : LoginSteps, row : AccountRow ]
  BY DEF NoLogin, NoRow, LoginSteps, AccountRow
<1>2. ASSUME NEW x \in Logins, NEW step \in LoginSteps, goes(x, step),
             UNCHANGED << account, attempts >>
      PROVE  LockoutTypeOK'
  BY <1>2 DEF goes, LockoutTypeOK
<1>3. ASSUME NEW x \in Logins, ends(x)
      PROVE  login' \in [ Logins -> [ at : LoginSteps, row : AccountRow ] ]
  BY <1>1, <1>3 DEF ends, LockoutTypeOK
<1>4. ASSUME NEW x \in Logins, NEW correct \in BOOLEAN, StartLogin(x, correct)
      PROVE  LockoutTypeOK'
  BY <1>2, <1>4 DEF StartLogin, LoginSteps
<1>5. ASSUME NEW x \in Logins, CommitLogin(x) PROVE LockoutTypeOK'
  <2>1. reset(login[x].row) \in AccountRow
    <3> DEFINE row == login[x].row
               n == IF row.failures = 0 THEN account.failures ELSE 0
               lock == IF row.lock = "none" THEN account.lock ELSE "none"
    <3>1. account \in AccountRow
      BY DEF LockoutTypeOK
    <3>2. n \in 0..MaxAttempts /\ lock \in { "none", "past", "in_force" }
      BY <3>1 DEF AccountRow
    <3>3. reset(row) = [ account EXCEPT !.failures = n, !.lock = lock ]
      BY DEF reset
    <3> HIDE DEF n, lock
    <3>4. [ account EXCEPT !.failures = n, !.lock = lock ] \in AccountRow
      BY <3>1, <3>2, CountedRow
    <3> QED
      BY <3>3, <3>4
  <2> QED
    BY <1>3, <1>5, <2>1 DEF CommitLogin, LockoutTypeOK
<1>6. ASSUME NEW x \in Logins, ReadFailure(x) PROVE LockoutTypeOK'
  BY <1>2, <1>6 DEF ReadFailure, LoginSteps
<1>7. ASSUME NEW x \in Logins, CommitFailure(x) PROVE LockoutTypeOK'
  <2>1. login[x].row \in AccountRow
    BY DEF LockoutTypeOK
  <2>2. account' \in AccountRow
    BY <1>7, <2>1, CappedRow DEF CommitFailure, LockoutTypeOK
  <2>3. attempts' \in 0..MaxAttempts
    BY <1>7 DEF CommitFailure, LockoutTypeOK, capped
  <2> QED
    BY <1>3, <1>7, <2>2, <2>3 DEF CommitFailure, LockoutTypeOK
<1>8. ASSUME NEW x \in Logins, LoginIsLost(x) PROVE LockoutTypeOK'
  BY <1>3, <1>8 DEF LoginIsLost, LockoutTypeOK
<1>9. ASSUME ResetPassword \/ LockEnds \/ \E active \in BOOLEAN : SetActive(active)
      PROVE  LockoutTypeOK'
  <2>1. account \in AccountRow
    BY DEF LockoutTypeOK
  <2>2. CASE ResetPassword
    <3>1. 0 \in 0..MaxAttempts /\ "none" \in { "none", "past", "in_force" }
      OBVIOUS
    <3>2. account' \in AccountRow
      BY <2>1, <2>2, <3>1, CountedRow, Zenon DEF ResetPassword
    <3> QED
      BY <2>2, <3>2 DEF ResetPassword, LockoutTypeOK
  <2>3. CASE LockEnds
    BY <2>1, <2>3 DEF LockEnds, LockoutTypeOK, AccountRow
  <2>4. ASSUME NEW active \in BOOLEAN, SetActive(active) PROVE LockoutTypeOK'
    BY <2>1, <2>4 DEF SetActive, LockoutTypeOK, AccountRow
  <2> QED
    BY <1>9, <2>2, <2>3, <2>4
<1>10. CASE AttemptIsForgotten
  BY <1>10 DEF AttemptIsForgotten, LockoutTypeOK
<1>11. CASE UNCHANGED lockout
  BY <1>11 DEF lockout, LockoutTypeOK
<1> QED
  BY <1>4, <1>5, <1>6, <1>7, <1>8, <1>9, <1>10, <1>11 DEF LockoutNext

\* A login that stops failing, or only goes on with it, adds no failing one.
LEMMA NoMoreFailing ==
  ASSUME LockoutTypeOK, NEW x \in Logins,
         \/ ends(x)
         \/ login[x].at = "failing" /\ goes(x, "recording")
  PROVE  failing' \subseteq failing
<1>1. \A y \in Logins \ { x } : login'[y] = login[y]
  BY DEF ends, goes, LockoutTypeOK
<1>2. login'[x].at \in { "failing", "recording" } =>
        login[x].at \in { "failing", "recording" }
  BY DEF ends, goes, LockoutTypeOK, NoLogin
<1> QED
  BY <1>1, <1>2 DEF failing

\* While the ledger is full, whoever had not passed the check is refused.
LEMMA FullLedgerStops ==
  ASSUME LockoutTypeOK, [LockoutNext]_lockout, attempts = MaxAttempts
  PROVE  failing' \subseteq failing
<1>1. ASSUME NEW x \in Logins, NEW correct \in BOOLEAN, StartLogin(x, correct)
      PROVE  FALSE
  BY <1>1, AttemptsAreAllowed DEF StartLogin, locked_out
<1>2. ASSUME NEW x \in Logins,
             CommitLogin(x) \/ ReadFailure(x) \/ CommitFailure(x) \/ LoginIsLost(x)
      PROVE  failing' \subseteq failing
  BY <1>2, NoMoreFailing DEF CommitLogin, ReadFailure, CommitFailure, LoginIsLost
<1>3. ASSUME UNCHANGED login PROVE failing' \subseteq failing
  BY <1>3 DEF failing
<1> QED
  BY <1>1, <1>2, <1>3
     DEF LockoutNext, ResetPassword, SetActive, LockEnds, AttemptIsForgotten, lockout

\* However many logins overlap: once the ledger is full, no login that had not
\* passed the check before can fail any more.
THEOREM LedgerStopsGuessing == LockoutSpec => GuessingStops
<1>1. LockoutSpec => []LockoutTypeOK
  BY LockoutStarts, LockoutPreserves, PTL DEF LockoutSpec
<1> DEFINE A == attempts = MaxAttempts /\ attempts' = MaxAttempts
                  => failing' \subseteq failing
<1>2. LockoutTypeOK /\ [LockoutNext]_lockout => [A]_lockout
  BY FullLedgerStops
<1> QED
  BY <1>1, <1>2, PTL DEF LockoutSpec, GuessingStops

(***************************************************************************)
(* The rate limit: any number of processes, any limit.                     *)
(***************************************************************************)
\* One more request keeps the counter within its bound.
LEMMA IncrementedKey ==
  ASSUME key \in Key
  PROVE  incremented \in Key
<1>1. key.count \in 0..Limit + 1 /\ key.ttl \in { "no key", "none", "running" }
  BY DEF Key, Counts
<1>2. /\ (IF key.count > Limit THEN key.count ELSE key.count + 1) \in 0..Limit + 1
      /\ (IF key.ttl = "no key" THEN "none" ELSE key.ttl) \in { "none", "running" }
  <2> DEFINE n == key.count
  <2>1. n \in 0..Limit + 1 /\ Limit \in Nat
    BY <1>1, LimitIsCount
  <2> HIDE DEF n
  <2>2. n \in Nat /\ n <= Limit + 1
    BY <2>1
  <2>3. (IF n > Limit THEN n ELSE n + 1) \in 0..Limit + 1
    BY <2>1, <2>2
  <2>4. QED
    BY <1>1, <2>3 DEF n
<1>3. QED
  BY <1>2 DEF incremented, Key, Counts

\* However many processes count, and die, the counter and its time to live keep
\* their types.
LEMMA LimitKeepsTypes == LimitSpec => []LimitTypeOK
<1>1. NoKey \in Key
  BY LimitIsCount DEF NoKey, Key, Counts
<1>2. LimitInit => LimitTypeOK
  BY <1>1 DEF LimitInit, LimitTypeOK
<1>3. LimitTypeOK /\ [LimitNext]_limits => LimitTypeOK'
  <2> SUFFICES ASSUME LimitTypeOK, [LimitNext]_limits
               PROVE  LimitTypeOK'
    OBVIOUS
  <2>1. ASSUME NEW p \in Processes, Hit(p)
        PROVE  LimitTypeOK'
    <3>1. key' \in Key
      BY <2>1, IncrementedKey DEF Hit, LimitTypeOK
    <3>2. hit' \in [ Processes -> { "idle", "expiring" } ]
      BY <2>1 DEF Hit, LimitTypeOK
    <3>3. QED
      BY <3>1, <3>2 DEF LimitTypeOK
  <2>2. ASSUME NEW p \in Processes, Expire(p)
        PROVE  LimitTypeOK'
    BY <2>2 DEF Expire, LimitTypeOK, Key
  <2>3. ASSUME NEW p \in Processes, HitIsLost(p)
        PROVE  LimitTypeOK'
    BY <2>3 DEF HitIsLost, LimitTypeOK
  <2>4. CASE KeyExpires
    BY <1>1, <2>4 DEF KeyExpires, LimitTypeOK
  <2>5. CASE UNCHANGED limits
    BY <2>5 DEF limits, LimitTypeOK
  <2>6. QED
    BY <2>1, <2>2, <2>3, <2>4, <2>5 DEF LimitNext
<1>4. QED
  BY <1>2, <1>3, PTL DEF LimitSpec

(***************************************************************************)
(* The breaker: any calls, threshold and number of retries.                *)
(***************************************************************************)
\* A closed breaker has room, and its counters their types.
BreakerInv == BreakerTypeOK /\ ClosedHasRoom

\* A breaker starts closed, with nothing counted.
LEMMA BreakerStarts == BreakerInit => BreakerInv
  BY BreakerCounts
     DEF BreakerInit, Closed, BreakerInv, BreakerTypeOK, BreakerState, ClosedHasRoom

\* A failure is counted up to the threshold, where it opens the breaker.
LEMMA RecordFailure ==
  ASSUME BreakerInv
  PROVE  /\ record_failure \in BreakerState
         /\ record_failure.opened = "no" => record_failure.failures < Threshold
<1>1. breaker.failures \in 0..Threshold /\ Threshold \in Nat \ { 0 }
  BY BreakerCounts DEF BreakerInv, BreakerTypeOK, BreakerState
<1> QED
  BY <1>1 DEF BreakerInv, BreakerTypeOK, BreakerState, ClosedHasRoom, record_failure

\* Every step of a call keeps the invariant.
LEMMA BreakerPreserves == BreakerInv /\ [BreakerNext]_breaking => BreakerInv'
<1> SUFFICES ASSUME BreakerInv, [BreakerNext]_breaking PROVE BreakerInv'
  OBVIOUS
<1>1. Closed \in BreakerState /\ Closed.failures < Threshold
  BY BreakerCounts DEF Closed, BreakerState
<1>2. ASSUME NEW c \in Calls, StartExtraction(c) PROVE BreakerInv'
  BY <1>1, <1>2, BreakerCounts
     DEF StartExtraction, after_cooldown, BreakerInv, BreakerTypeOK, ClosedHasRoom
<1>3. ASSUME NEW c \in Calls, ProviderAnswers(c) PROVE BreakerInv'
  BY <1>1, <1>3, BreakerCounts
     DEF ProviderAnswers, BreakerInv, BreakerTypeOK, ClosedHasRoom
<1>4. ASSUME NEW c \in Calls, TryAgain(c) PROVE BreakerInv'
  BY <1>4, BreakerCounts DEF TryAgain, BreakerInv, BreakerTypeOK, ClosedHasRoom
<1>5. ASSUME NEW c \in Calls, FallBack(c) PROVE BreakerInv'
  BY <1>5, RecordFailure, BreakerCounts
     DEF FallBack, BreakerInv, BreakerTypeOK, ClosedHasRoom
<1>6. CASE CoolsDown
  BY <1>6 DEF CoolsDown, BreakerInv, BreakerTypeOK, BreakerState, ClosedHasRoom
<1>7. CASE UNCHANGED breaking
  BY <1>7 DEF breaking, BreakerInv, BreakerTypeOK, ClosedHasRoom
<1> QED
  BY <1>2, <1>3, <1>4, <1>5, <1>6, <1>7 DEF BreakerNext

\* However many calls are under way, and whenever they count their failures: a
\* breaker that lets calls through has counted fewer than open it.
THEOREM RoomWhileClosed == BreakerSpec => []ClosedHasRoom
<1>1. BreakerInv => ClosedHasRoom
  BY DEF BreakerInv
<1> QED
  BY <1>1, BreakerStarts, BreakerPreserves, PTL DEF BreakerSpec

(***************************************************************************)
(* Their types together.                                                   *)
(***************************************************************************)
\* For any logins, calls and processes, side by side: what the guards keep has
\* its type.
THEOREM GuardsKeepTypes ==
  LockoutSpec /\ LimitSpec /\ BreakerSpec => []GuardsTypeOK
<1>1. LockoutSpec => []LockoutTypeOK
  BY LockoutStarts, LockoutPreserves, PTL DEF LockoutSpec
<1>2. BreakerSpec => []BreakerTypeOK
  <2>1. BreakerInv => BreakerTypeOK
    BY DEF BreakerInv
  <2>2. QED
    BY <2>1, BreakerStarts, BreakerPreserves, PTL DEF BreakerSpec
<1>3. LockoutTypeOK /\ LimitTypeOK /\ BreakerTypeOK => GuardsTypeOK
  BY DEF GuardsTypeOK
<1>4. QED
  BY <1>1, <1>2, <1>3, LimitKeepsTypes, PTL

(***************************************************************************)
(* The endpoints.                                                          *)
(***************************************************************************)
\* What those who change the business hold, and managers do not.
Changing ==
  { "account:create", "account:delete", "account:update", "activity:write",
    "billing:write", "commercial:run", "communication:write", "contact:write",
    "cv:parse", "deployment:write", "document:write", "import:run",
    "interview:write", "jd:parse", "matching:run", "opportunity:write",
    "project:write", "requirement:create", "requirement:delete",
    "requirement:update", "resource:create", "resource:delete",
    "resource:update", "reverse_matching:run", "scoring:run",
    "scoring_config:edit", "submission:write", "user:create",
    "user:deactivate", "user:update" }

\* A handler that only an active user reaches and that, if a manager may call
\* it, leaves the business alone.
Harmless(handler) ==
  /\ handler.guard = "active"
  /\ handler.needs \subseteq Management =>
       /\ handler.writes \subseteq OwnAffairs
       /\ \/ handler.loads = {}
          \/ handler.writes = {} /\ handler.loads \subseteq RuleKinds

\* None of these permissions is a manager's.
LEMMA NotForManagement == \A permission \in Changing : permission \notin Management
  BY DEF Changing, Management, Shared

\* A handler is harmless when it only reads, when it needs one of these
\* permissions, and when it writes what is one's own.
LEMMA ReadersAreHarmless ==
  ASSUME NEW permission
  PROVE  Harmless(Look(permission))
  BY DEF Harmless, Look, Handler

LEMMA ChangersAreHarmless ==
  ASSUME NEW permission, permission \notin Management, NEW tables, NEW kinds
  PROVE  Harmless(Do(permission, tables)) /\ Harmless(Run(permission, tables, kinds))
  BY DEF Harmless, Do, Run, Handler

LEMMA OwnersAreHarmless ==
  ASSUME NEW permission
  PROVE  /\ Harmless(Do(permission, { "audit_logs" }))
         /\ Harmless(Do(permission, { "own_inbox" }))
         /\ Harmless(Run(permission, {}, RuleKinds))
         /\ Harmless(Handler("active", {}, {}, {}))
  BY DEF Harmless, Do, Run, Handler, OwnAffairs

\* Every handler but those of auth.py is harmless.
LEMMA HandlersAreHarmless ==
  \A router \in DOMAIN api \ { "auth" } :
    \A endpoint \in DOMAIN api[router] : Harmless(api[router][endpoint])
<1>1. \A e \in DOMAIN accounts_router : Harmless(accounts_router[e])
  <2>1. /\ "account:create" \notin Management
        /\ "account:delete" \notin Management
        /\ "account:update" \notin Management
    BY NotForManagement DEF Changing
  <2>2. QED
    BY <2>1, ReadersAreHarmless, ChangersAreHarmless
       DEF accounts_router
<1>2. \A e \in DOMAIN contacts_router : Harmless(contacts_router[e])
  <2>1. "contact:write" \notin Management
    BY NotForManagement DEF Changing
  <2>2. QED
    BY <2>1, ReadersAreHarmless, ChangersAreHarmless
       DEF contacts_router
<1>3. \A e \in DOMAIN projects_router : Harmless(projects_router[e])
  <2>1. "project:write" \notin Management
    BY NotForManagement DEF Changing
  <2>2. QED
    BY <2>1, ReadersAreHarmless, ChangersAreHarmless
       DEF projects_router
<1>4. \A e \in DOMAIN activities_router : Harmless(activities_router[e])
  <2>1. "activity:write" \notin Management
    BY NotForManagement DEF Changing
  <2>2. QED
    BY <2>1, ReadersAreHarmless, ChangersAreHarmless
       DEF activities_router
<1>5. \A e \in DOMAIN requirements_router : Harmless(requirements_router[e])
  <2>1. /\ "requirement:create" \notin Management
        /\ "requirement:delete" \notin Management
        /\ "requirement:update" \notin Management
    BY NotForManagement DEF Changing
  <2>2. QED
    BY <2>1, ReadersAreHarmless, ChangersAreHarmless
       DEF requirements_router
<1>6. \A e \in DOMAIN parsing_router : Harmless(parsing_router[e])
  <2>1. /\ "jd:parse" \notin Management
        /\ "requirement:update" \notin Management
    BY NotForManagement DEF Changing
  <2>2. QED
    BY <2>1, ReadersAreHarmless, ChangersAreHarmless
       DEF parsing_router
<1>7. \A e \in DOMAIN resources_router : Harmless(resources_router[e])
  <2>1. /\ "resource:create" \notin Management
        /\ "resource:delete" \notin Management
        /\ "resource:update" \notin Management
    BY NotForManagement DEF Changing
  <2>2. QED
    BY <2>1, ReadersAreHarmless, ChangersAreHarmless
       DEF resources_router
<1>8. \A e \in DOMAIN cv_router : Harmless(cv_router[e])
  <2>1. /\ "cv:parse" \notin Management
        /\ "resource:update" \notin Management
    BY NotForManagement DEF Changing
  <2>2. QED
    BY <2>1, ReadersAreHarmless, ChangersAreHarmless
       DEF cv_router
<1>9. \A e \in DOMAIN documents_router : Harmless(documents_router[e])
  <2>1. "document:write" \notin Management
    BY NotForManagement DEF Changing
  <2>2. QED
    BY <2>1, ReadersAreHarmless, ChangersAreHarmless, OwnersAreHarmless
       DEF documents_router
<1>10. \A e \in DOMAIN matching_router : Harmless(matching_router[e])
  <2>1. "matching:run" \notin Management
    BY NotForManagement DEF Changing
  <2>2. QED
    BY <2>1, ReadersAreHarmless, ChangersAreHarmless
       DEF matching_router
<1>11. \A e \in DOMAIN scoring_configurations_router : Harmless(scoring_configurations_router[e])
  <2>1. "scoring_config:edit" \notin Management
    BY NotForManagement DEF Changing
  <2>2. QED
    BY <2>1, ReadersAreHarmless, ChangersAreHarmless
       DEF scoring_configurations_router
<1>12. \A e \in DOMAIN reverse_matching_router : Harmless(reverse_matching_router[e])
  <2>1. "reverse_matching:run" \notin Management
    BY NotForManagement DEF Changing
  <2>2. QED
    BY <2>1, ReadersAreHarmless, ChangersAreHarmless
       DEF reverse_matching_router
<1>13. \A e \in DOMAIN scoring_router : Harmless(scoring_router[e])
  <2>1. /\ "commercial:run" \notin Management
        /\ "scoring:run" \notin Management
    BY NotForManagement DEF Changing
  <2>2. QED
    BY <2>1, ReadersAreHarmless, ChangersAreHarmless, OwnersAreHarmless
       DEF scoring_router
<1>14. \A e \in DOMAIN opportunities_router : Harmless(opportunities_router[e])
  <2>1. "opportunity:write" \notin Management
    BY NotForManagement DEF Changing
  <2>2. QED
    BY <2>1, ReadersAreHarmless, ChangersAreHarmless
       DEF opportunities_router
<1>15. \A e \in DOMAIN submissions_router : Harmless(submissions_router[e])
  <2>1. "submission:write" \notin Management
    BY NotForManagement DEF Changing
  <2>2. QED
    BY <2>1, ReadersAreHarmless, ChangersAreHarmless
       DEF submissions_router
<1>16. \A e \in DOMAIN interviews_router : Harmless(interviews_router[e])
  <2>1. "interview:write" \notin Management
    BY NotForManagement DEF Changing
  <2>2. QED
    BY <2>1, ReadersAreHarmless, ChangersAreHarmless
       DEF interviews_router
<1>17. \A e \in DOMAIN communications_router : Harmless(communications_router[e])
  <2>1. "communication:write" \notin Management
    BY NotForManagement DEF Changing
  <2>2. QED
    BY <2>1, ReadersAreHarmless, ChangersAreHarmless
       DEF communications_router
<1>18. \A e \in DOMAIN deployments_router : Harmless(deployments_router[e])
  <2>1. "deployment:write" \notin Management
    BY NotForManagement DEF Changing
  <2>2. QED
    BY <2>1, ReadersAreHarmless, ChangersAreHarmless
       DEF deployments_router
<1>19. \A e \in DOMAIN billing_router : Harmless(billing_router[e])
  <2>1. "billing:write" \notin Management
    BY NotForManagement DEF Changing
  <2>2. QED
    BY <2>1, ReadersAreHarmless, ChangersAreHarmless
       DEF billing_router
<1>20. \A e \in DOMAIN dashboard_router : Harmless(dashboard_router[e])
  BY ReadersAreHarmless DEF dashboard_router
<1>21. \A e \in DOMAIN notifications_router : Harmless(notifications_router[e])
  <2>1. "user:create" \notin Management
    BY NotForManagement DEF Changing
  <2>2. QED
    BY <2>1, ReadersAreHarmless, ChangersAreHarmless, OwnersAreHarmless
       DEF notifications_router
<1>22. \A e \in DOMAIN imports_router : Harmless(imports_router[e])
  <2>1. "import:run" \notin Management
    BY NotForManagement DEF Changing
  <2>2. QED
    BY <2>1, ReadersAreHarmless, ChangersAreHarmless
       DEF imports_router
<1>23. \A e \in DOMAIN exports_router : Harmless(exports_router[e])
  BY ReadersAreHarmless, OwnersAreHarmless DEF exports_router
<1>24. \A e \in DOMAIN users_router : Harmless(users_router[e])
  <2>1. /\ "user:create" \notin Management
        /\ "user:deactivate" \notin Management
        /\ "user:update" \notin Management
    BY NotForManagement DEF Changing
  <2>2. QED
    BY <2>1, ReadersAreHarmless, ChangersAreHarmless, OwnersAreHarmless
       DEF users_router
<1>25. \A e \in DOMAIN audit_router : Harmless(audit_router[e])
  BY ReadersAreHarmless DEF audit_router
<1>26. \A e \in DOMAIN roles_router : Harmless(roles_router[e])
  BY ReadersAreHarmless DEF roles_router
<1>27. QED
  BY <1>1, <1>2, <1>3, <1>4, <1>5, <1>6, <1>7, <1>8, <1>9,
     <1>10, <1>11, <1>12, <1>13, <1>14, <1>15, <1>16, <1>17, <1>18,
     <1>19, <1>20, <1>21, <1>22, <1>23, <1>24, <1>25, <1>26
     DEF api

\* The handlers of auth.py write the user's own account.
LEMMA HandlersOfAuth ==
  \A endpoint \in DOMAIN api.auth :
    /\ api.auth[endpoint].writes \subseteq OwnAffairs
    /\ api.auth[endpoint].loads = {}
<1>1. api.auth = auth_router
  BY DEF api
<1>2. \A endpoint \in DOMAIN auth_router :
        /\ auth_router[endpoint].writes \subseteq OwnAffairs
        /\ auth_router[endpoint].loads = {}
  BY DEF auth_router, Handler, OwnAffairs
<1>3. QED
  BY <1>1, <1>2

\* What is written by a handler that loads no rules, and by one that may.
LEMMA Writing ==
  ASSUME NEW handler
  PROVE  /\ handler.loads = {} => written(handler) = handler.writes
         /\ written(handler) = handler.writes
              \/ /\ written(handler) = handler.writes \cup { "scoring_configurations" }
                 /\ \E kind \in handler.loads : kind \notin rules
  BY DEF written, seeds

\* Whoever calls while he owes a change of password is answered by auth.py only:
\* every other handler is behind the guard that asks for it, and nothing about
\* the user changes between a call and its answer.
THEOREM PasswordComesFirst == EndpointsSpec => []OwedPasswordFirst
<1>1. EndpointsInit => OwedPasswordFirst
  BY DEF EndpointsInit, OwedPasswordFirst, Silence
<1>2. OwedPasswordFirst /\ [EndpointsNext]_calling => OwedPasswordFirst'
  <2> SUFFICES ASSUME OwedPasswordFirst, [EndpointsNext]_calling
               PROVE  OwedPasswordFirst'
    OBVIOUS
  <2>1. ASSUME NEW router \in DOMAIN api, NEW endpoint \in DOMAIN api[router],
               Call(router, endpoint)
        PROVE  OwedPasswordFirst'
    <3>1. Harmless(api[router][endpoint])
      BY <2>1, HandlersAreHarmless DEF Call
    <3>2. ~ user.must_change_password /\ user' = user
      BY <2>1, <3>1 DEF Call, Harmless, admits, get_current_active_user
    <3>3. QED
      BY <3>2 DEF OwedPasswordFirst
  <2>2. ASSUME NEW endpoint \in { "login", "refresh" }, SignIn(endpoint)
        PROVE  OwedPasswordFirst'
    BY <2>2 DEF SignIn, Answer, OwedPasswordFirst
  <2>3. ASSUME logout \/ me \/ change_password
        PROVE  OwedPasswordFirst'
    BY <2>3 DEF logout, me, change_password, Answer, OwedPasswordFirst
  <2>4. ASSUME Return \/ TokenExpires \/ AccountIsManaged
        PROVE  OwedPasswordFirst'
    <3>1. answer' = Silence
      BY <2>4 DEF Return, TokenExpires, AccountIsManaged
    <3>2. QED
      BY <3>1 DEF Silence, OwedPasswordFirst
  <2>5. CASE UNCHANGED calling
    BY <2>5 DEF calling, OwedPasswordFirst
  <2>6. QED
    BY <2>1, <2>2, <2>3, <2>4, <2>5 DEF EndpointsNext
<1>3. QED
  BY <1>1, <1>2, PTL DEF EndpointsSpec

\* A manager who calls any handler, whatever role the token was given for and
\* whatever an administrator did meanwhile, writes no business row; but a score
\* explained while some kind of rules has no version makes the default ones.
THEOREM ManagersObserve == EndpointsSpec => ManagementObserves
<1> DEFINE A == answer'.role = "MANAGEMENT" =>
                  \/ answer'.changed \subseteq OwnAffairs
                  \/ answer'.changed = { "scoring_configurations" } /\ rules # RuleKinds
<1>1. ASSUME EndpointsNext
      PROVE  A
  <2>1. ASSUME NEW router \in DOMAIN api, NEW endpoint \in DOMAIN api[router],
               Call(router, endpoint), user.role = "MANAGEMENT"
        PROVE  A
    <3> DEFINE handler == api[router][endpoint]
    <3>1. Harmless(handler) /\ admits(handler)
      BY <2>1, HandlersAreHarmless DEF Call
    <3>2. answer'.changed = written(handler)
      BY <2>1 DEF Call, Answer
    <3> HIDE DEF handler
    <3>3. handler.needs \subseteq Management
      BY <2>1, <3>1 DEF Harmless, admits, require, ROLE_PERMISSIONS
    <3>4. /\ handler.writes \subseteq OwnAffairs
          /\ \/ handler.loads = {}
             \/ handler.writes = {} /\ handler.loads \subseteq RuleKinds
      BY <3>1, <3>3 DEF Harmless
    <3>5. CASE written(handler) = handler.writes
      BY <3>2, <3>4, <3>5
    <3>6. CASE /\ written(handler) = handler.writes \cup { "scoring_configurations" }
               /\ \E kind \in handler.loads : kind \notin rules
      BY <3>2, <3>4, <3>6
    <3>7. QED
      BY <3>5, <3>6, Writing
  <2>2. ASSUME NEW router \in DOMAIN api, NEW endpoint \in DOMAIN api[router],
               Call(router, endpoint), user.role # "MANAGEMENT"
        PROVE  A
    BY <2>2 DEF Call, Answer
  <2>3. ASSUME NEW endpoint \in DOMAIN api.auth, Answer("auth", endpoint)
        PROVE  A
    <3>1. /\ answer'.changed = written(api.auth[endpoint])
      BY <2>3 DEF Answer
    <3>2. QED
      BY <3>1, HandlersOfAuth, Writing
  <2>4. { "login", "refresh", "logout", "me", "change_password" } \subseteq DOMAIN api.auth
    <3>1. api.auth = auth_router
      BY DEF api
    <3>2. QED
      BY <3>1 DEF auth_router
  <2>5. ASSUME Return \/ TokenExpires \/ AccountIsManaged
        PROVE  A
    <3>1. answer' = Silence
      BY <2>5 DEF Return, TokenExpires, AccountIsManaged
    <3>2. QED
      BY <3>1 DEF Silence
  <2>6. QED
    <3> HIDE DEF A
    <3>1. ASSUME NEW endpoint \in { "login", "refresh" }, SignIn(endpoint)
          PROVE  A
      BY <2>3, <2>4, <3>1 DEF SignIn
    <3>2. ASSUME logout \/ me \/ change_password
          PROVE  A
      BY <2>3, <2>4, <3>2 DEF logout, me, change_password
    <3>3. QED
      BY <1>1, <2>1, <2>2, <2>5, <3>1, <3>2 DEF EndpointsNext
<1>2. [EndpointsNext]_calling => [A]_calling
  BY <1>1
<1>3. QED
  BY <1>2, PTL DEF EndpointsSpec, ManagementObserves

(***************************************************************************)
(* The billing calendar: any stretch of dates, any rates.                  *)
(***************************************************************************)
-----------------------------------------------------------------------------
(* Whole division.                                                         *)

\* The quotient of a whole division, and what it leaves.
LEMMA WholeDivision ==
  ASSUME NEW n \in Int, NEW d \in Nat \ { 0 }
  PROVE  /\ n \div d \in Int
         /\ d * (n \div d) <= n /\ n < d * (n \div d) + d
  OBVIOUS

\* Multiples of a positive number are ordered like their factors.
LEMMA Multiples ==
  ASSUME NEW d \in Nat \ { 0 }, NEW x \in Int, NEW y \in Int
  PROVE  d * x < d * y <=> x < y
<1>1. \A w \in Nat : d * w \in Nat
  <2> DEFINE S == { w \in Nat : d * w \in Nat }
  <2>1. 0 \in S
    OBVIOUS
  <2>2. ASSUME NEW w \in Nat, w \in S
        PROVE  w + 1 \in S
    <3>1. d * (w + 1) = d * w + d
      OBVIOUS
    <3>2. QED
      BY <2>2, <3>1
  <2> HIDE DEF S
  <2>3. Nat \subseteq S
    BY <2>1, <2>2, NatSetInduction
  <2>4. QED
    BY <2>3 DEF S
<1>2. d * x \in Int /\ d * y \in Int
  OBVIOUS
<1>3. ASSUME x < y
      PROVE  d * x < d * y
  <2>1. PICK w \in Nat : y = x + 1 + w
    <3>1. y - x - 1 \in Nat /\ y = x + 1 + (y - x - 1)
      BY <1>3
    <3>2. QED
      BY <3>1
  <2>2. d * y = d * x + d + d * w
    BY <2>1
  <2>3. QED
    BY <1>1, <1>2, <2>2
<1>4. ASSUME ~ (x < y)
      PROVE  ~ (d * x < d * y)
  <2>1. PICK w \in Nat : x = y + w
    <3>1. x - y \in Nat /\ x = y + (x - y)
      BY <1>4
    <3>2. QED
      BY <3>1
  <2>2. d * x = d * y + d * w
    BY <2>1
  <2>3. QED
    BY <1>1, <1>2, <2>2
<1>5. QED
  BY <1>3, <1>4

\* Two shares of a whole, each divided down, lose less than two.
LEMMA SharesOfAWhole ==
  ASSUME NEW n \in Int, NEW m \in Int, NEW k \in Int, NEW d \in Nat \ { 0 },
         n + m = d * k
  PROVE  (n \div d) + (m \div d) \in { k - 1, k }
<1> DEFINE q == n \div d
           r == m \div d
<1>1. /\ q \in Int /\ d * q <= n /\ n < d * q + d
      /\ r \in Int /\ d * r <= m /\ m < d * r + d
  BY WholeDivision
<1> HIDE DEF q, r
<1>2. /\ d * (q + r) = d * q + d * r /\ d * (q + r + 2) = d * q + d * r + d + d
      /\ d * q \in Int /\ d * r \in Int /\ d * k \in Int
  BY <1>1
<1>3. ~ (d * k < d * (q + r)) /\ d * k < d * (q + r + 2)
  BY <1>1, <1>2
<1>4. ~ (k < q + r) /\ k < q + r + 2
  BY <1>1, <1>3, Multiples
<1>5. q + r \in { k - 1, k }
  BY <1>1, <1>4
<1>6. QED
  BY <1>5 DEF q, r

-----------------------------------------------------------------------------
(* Shares of a month.                                                      *)

\* A share of a rate is never above it, and the whole of it is all of it.
LEMMA ProrateBounds ==
  ASSUME NEW price \in Nat, NEW cover,
         cover.days \in Nat, cover.full \in Nat \ { 0 }, cover.days <= cover.full
  PROVE  /\ prorate(price, cover) \in Int
         /\ prorate(price, cover) <= price
         /\ cover.days = cover.full => prorate(price, cover) = price
<1> DEFINE x == cover.days
           f == cover.full
           n == 2 * (price * x) + f
           d == 2 * f
           q == n \div d
<1>1. prorate(price, cover) = q
  BY DEF prorate, round_half_up
<1>2. x \in Nat /\ f \in Nat \ { 0 } /\ x <= f
  OBVIOUS
<1> HIDE DEF x, f
<1>3. price * x <= price * f /\ price * x \in Int /\ price * f \in Int
  <2>1. CASE price = 0
    BY <1>2, <2>1
  <2>2. CASE price # 0
    <3>1. ~ (price * f < price * x)
      BY <1>2, <2>2, Multiples
    <3>2. price * x \in Int /\ price * f \in Int
      BY <1>2
    <3>3. QED
      BY <3>1, <3>2
  <2>3. QED
    BY <2>1, <2>2
<1>4. d * price = 2 * (price * f) /\ d * (price + 1) = 2 * (price * f) + d
  BY <1>2
<1>5. n \in Int /\ d \in Nat \ { 0 } /\ n < d * (price + 1)
  <2>1. d \in Nat \ { 0 }
    BY <1>2
  <2>2. n \in Int
    BY <1>2, <1>3
  <2>3. n < d * (price + 1)
    <3>1. 2 * (price * x) <= 2 * (price * f) /\ d = f + f
      BY <1>2, <1>3
    <3>2. n < 2 * (price * f) + d
      BY <1>2, <1>3, <3>1
    <3>3. QED
      BY <1>4, <3>2
  <2>4. QED
    BY <2>1, <2>2, <2>3
<1>6. x = f => d * price <= n
  BY <1>2, <1>3, <1>4
<1> HIDE DEF n, d
<1>7. q \in Int /\ d * q <= n /\ n < d * q + d
  BY <1>5, WholeDivision
<1> HIDE DEF q
<1>8. q < price + 1
  <2>1. d * q \in Int /\ d * (price + 1) \in Int
    BY <1>5, <1>7
  <2>2. d * q < d * (price + 1)
    BY <1>5, <1>7, <2>1
  <2>3. QED
    BY <1>5, <1>7, <2>2, Multiples
<1>9. x = f => price < q + 1
  <2>1. d * (q + 1) = d * q + d /\ d * q \in Int /\ d * price \in Int
    BY <1>5, <1>7
  <2>2. x = f => d * price < d * (q + 1)
    BY <1>5, <1>6, <1>7, <2>1
  <2>3. QED
    BY <1>5, <1>7, <2>2, Multiples
<1>10. QED
  BY <1>1, <1>7, <1>8, <1>9 DEF x, f

\* Two shares that make up a month make up its rate, but for a cent.
LEMMA ProrateSplits ==
  ASSUME NEW price \in Nat, NEW one, NEW two,
         one.days \in Nat, two.days \in Nat, one.full \in Nat \ { 0 },
         two.full = one.full, one.days + two.days = one.full
  PROVE  prorate(price, one) + prorate(price, two) \in { price, price + 1 }
<1> DEFINE x == one.days
           y == two.days
           f == one.full
           n == 2 * (price * x) + f
           m == 2 * (price * y) + f
           d == 2 * f
<1>1. prorate(price, one) = n \div d /\ prorate(price, two) = m \div d
  BY DEF prorate, round_half_up
<1>2. x \in Nat /\ y \in Nat /\ f \in Nat \ { 0 } /\ x + y = f
  OBVIOUS
<1> HIDE DEF x, y, f
<1>3. price * x + price * y = price * f
  BY <1>2
<1>4. d * (price + 1) = 2 * (price * f) + d
  BY <1>2
<1>5. /\ n \in Int /\ m \in Int /\ d \in Nat \ { 0 }
      /\ n + m = d * (price + 1)
  BY <1>2, <1>3, <1>4
<1> HIDE DEF n, m, d
<1>6. (n \div d) + (m \div d) \in { (price + 1) - 1, price + 1 }
  BY <1>5, SharesOfAWhole
<1>7. QED
  BY <1>1, <1>6

-----------------------------------------------------------------------------
(* Working days.                                                           *)

\* The working days of two stretches, one after the other, add up.
LEMMA WorkingDaysSplit ==
  ASSUME NEW a \in Int, NEW b \in Int, NEW c \in Int, a - 1 <= b, b <= c
  PROVE  working_days(a, c) = working_days(a, b) + working_days(b + 1, c)
<1> DEFINE S == { e \in a..b : weekday(e) < 5 }
           T == { e \in (b + 1)..c : weekday(e) < 5 }
           U == { e \in a..c : weekday(e) < 5 }
<1>1. IsFiniteSet(S) /\ IsFiniteSet(T)
  BY WorkingDaysAreCounted
<1>2. U = S \cup T /\ S \cap T = {}
  OBVIOUS
<1>3. working_days(a, c) = Cardinality(U) /\ working_days(a, b) = Cardinality(S)
      /\ working_days(b + 1, c) = Cardinality(T)
  BY DEF working_days
<1> HIDE DEF S, T, U
<1>4. Cardinality(S \cup T) = Cardinality(S) + Cardinality(T) - Cardinality(S \cap T)
  BY <1>1, FS_Union
<1>5. Cardinality({}) = 0
  BY FS_EmptySet
<1>6. Cardinality(S) \in Nat /\ Cardinality(T) \in Nat
  BY <1>1, FS_CardinalityType
<1>7. Cardinality(U) = Cardinality(S) + Cardinality(T) - Cardinality({})
  BY <1>2, <1>4, Zenon
<1>8. QED
  BY <1>3, <1>5, <1>6, <1>7

\* No days, no working days.
LEMMA NoWorkingDays ==
  ASSUME NEW a \in Int, NEW b \in Int, b < a
  PROVE  working_days(a, b) = 0
<1>1. { e \in a..b : weekday(e) < 5 } = {}
  OBVIOUS
<1>2. QED
  BY <1>1, FS_EmptySet DEF working_days

\* Dates are whole numbers, and so is what lies between two of them.
LEMMA DatesAreNumbers ==
  ASSUME NEW d \in Date, NEW e \in Date
  PROVE  /\ d \in Int /\ e \in Int
         /\ \A f \in d..e : f \in Date /\ f \in Int /\ d <= f /\ f <= e
<1>1. Firsts[12 * Years] \in Nat
  BY CalendarInputs, FirstsGoUp
<1>2. QED
  BY <1>1 DEF Date

-----------------------------------------------------------------------------
(* The months of a deployment, by position.                                *)

\* The months of a deployment that does not end before it starts: month i is
\* i - 1 positions after the month of the start, the last is that of the end.
LEMMA MonthsByPosition ==
  ASSUME start \in Date, end \in Date, start <= end
  PROVE  LET a == Position(period_of(start))
             b == Position(period_of(end))
         IN  /\ a \in 0..(12 * Years - 1) /\ b \in 0..(12 * Years - 1) /\ a <= b
             /\ Len(Months) = b - a + 1 /\ DOMAIN Months = 1..(b - a + 1)
             /\ \A i \in DOMAIN Months :
                  /\ Months[i] = PeriodAt(a + i - 1)
                  /\ Months[i] \in Period /\ Position(Months[i]) = a + i - 1
             /\ Months[b - a + 1] = period_of(end)
<1> DEFINE a == Position(period_of(start))
           b == Position(period_of(end))
<1>0. 12 * Years \in Nat /\ start \in Int /\ end \in Int
  BY CalendarInputs DEF Date
<1>1. period_of(start) \in Period /\ period_of(end) \in Period
  BY DateHasItsPeriod
<1>2. /\ a \in 0..(12 * Years - 1) /\ b \in 0..(12 * Years - 1) /\ a <= b
      /\ PeriodAt(b) = period_of(end)
  BY <1>1, PositionsAreMonths, PeriodsFollowDates
<1>3. Months = MonthsAt(a, b)
  <2>1. ~ (end < start)
    BY <1>0
  <2>2. QED
    BY <2>1, MonthsBetween DEF Months
<1> HIDE DEF a, b
<1>4. /\ Len(Months) = b - a + 1 /\ DOMAIN Months = 1..(b - a + 1)
      /\ \A i \in 1..(b - a + 1) : Months[i] = PeriodAt(a + i - 1)
  <2>1. a \in Nat
    BY <1>0, <1>2
  <2>2. /\ Len(MonthsAt(a, b)) = b - a + 1 /\ DOMAIN MonthsAt(a, b) = 1..(b - a + 1)
        /\ \A i \in 1..(b - a + 1) : MonthsAt(a, b)[i] = PeriodAt(a + i - 1)
    BY <1>2, <2>1, RunIsASequence
  <2>3. QED
    BY <1>3, <2>2
<1>5. ASSUME NEW i \in 1..(b - a + 1)
      PROVE  PeriodAt(a + i - 1) \in Period /\ Position(PeriodAt(a + i - 1)) = a + i - 1
  <2>1. a + i - 1 \in 0..(12 * Years - 1)
    BY <1>0, <1>2
  <2>2. QED
    BY <2>1, PositionsAreMonths
<1>6. Months[b - a + 1] = period_of(end)
  <2>1. b - a + 1 \in 1..(b - a + 1) /\ a + (b - a + 1) - 1 = b
    BY <1>0, <1>2
  <2>2. QED
    BY <1>2, <1>4, <2>1
<1>7. QED
  BY <1>2, <1>4, <1>5, <1>6 DEF a, b

\* A deployment that ends before it starts has no months.
LEMMA NoMonths ==
  ASSUME start \in Date, end \in Date, end < start
  PROVE  Months = << >> /\ Len(Months) = 0 /\ DOMAIN Months = {} /\ start..end = {}
<1>1. start \in Int /\ end \in Int
  BY DEF Date
<1>2. Months = << >>
  BY MonthsBetween DEF Months
<1>3. QED
  BY <1>1, <1>2

\* MonthsAreThoseTouched, for any deployment.
LEMMA TouchedMonths ==
  ASSUME start \in Date, end \in Date
  PROVE  MonthsAreThoseTouched
<1>0. start \in Int /\ end \in Int
  BY DEF Date
<1>1. CASE end < start
  BY <1>1, NoMonths DEF MonthsAreThoseTouched
<1>2. CASE start <= end
  <2> DEFINE a == Position(period_of(start))
             b == Position(period_of(end))
  <2>1. /\ a \in 0..(12 * Years - 1) /\ b \in 0..(12 * Years - 1) /\ a <= b
        /\ DOMAIN Months = 1..(b - a + 1)
        /\ \A i \in DOMAIN Months :
             /\ Months[i] = PeriodAt(a + i - 1)
             /\ Months[i] \in Period /\ Position(Months[i]) = a + i - 1
    BY <1>2, MonthsByPosition
  <2>2. 12 * Years \in Nat
    BY CalendarInputs
  <2>3. ASSUME NEW d \in start..end
        PROVE  \E i \in DOMAIN Months : Months[i] = period_of(d)
    <3>1. d \in Date /\ start <= d /\ d <= end
      BY <1>0, DatesAreNumbers
    <3>2. a <= Position(period_of(d)) /\ Position(period_of(d)) <= b
      BY <3>1, PeriodsFollowDates
    <3>3. /\ period_of(d) \in Period
          /\ Position(period_of(d)) \in 0..(12 * Years - 1)
          /\ PeriodAt(Position(period_of(d))) = period_of(d)
      BY <3>1, DateHasItsPeriod, PositionsAreMonths
    <3> DEFINE k == Position(period_of(d))
    <3> HIDE DEF a, b
    <3>4. k - a + 1 \in 1..(b - a + 1) /\ a + (k - a + 1) - 1 = k
      BY <2>1, <2>2, <3>2, <3>3
    <3>5. Months[k - a + 1] = period_of(d)
      BY <2>1, <3>3, <3>4
    <3>6. QED
      BY <2>1, <3>4, <3>5
  <2>4. ASSUME NEW i \in DOMAIN Months
        PROVE  \E d \in start..end : Months[i] = period_of(d)
    <3> DEFINE p == Months[i]
    <3>1. p \in Period /\ first_day(p) <= end /\ start <= last_day(p)
      BY MonthsAreWithin DEF Months
    <3> HIDE DEF p
    <3>2. /\ first_day(p) \in Date /\ last_day(p) \in Date
          /\ first_day(p) + 27 <= last_day(p)
      BY <3>1, MonthBounds
    <3> DEFINE d == Later(start, first_day(p))
    <3>3. d \in start..end /\ d \in Date /\ first_day(p) <= d /\ d <= last_day(p)
      BY <1>0, <1>2, <3>1, <3>2 DEF Date, Later
    <3> HIDE DEF d
    <3>4. p = period_of(d)
      BY <3>1, <3>3, DateHasItsPeriod
    <3>5. QED
      BY <3>3, <3>4 DEF p
  <2>5. ASSUME NEW i \in DOMAIN Months, NEW j \in DOMAIN Months, i < j
        PROVE  before(Months[i], Months[j])
    <3> HIDE DEF a, b
    <3>1. Position(Months[i]) < Position(Months[j])
      BY <2>1, <2>2, <2>5
    <3>2. QED
      BY <2>1, <3>1, MonthsInOrder
  <2>6. { Months[i] : i \in DOMAIN Months } = { period_of(d) : d \in start..end }
    BY <2>3, <2>4
  <2>7. QED
    BY <2>5, <2>6 DEF MonthsAreThoseTouched
<1>3. QED
  BY <1>0, <1>1, <1>2

-----------------------------------------------------------------------------
(* What is billed.                                                         *)

\* Billed adds up the days of the months, one at a time.
LEMMA BilledSteps ==
  ASSUME Len(Months) \in Nat
  PROVE  /\ Billed[0] = 0
         /\ \A i \in 1..Len(Months) :
              Billed[i] = Billed[i - 1] + coverage(Months[i], start, end).days
<1> DEFINE n == Len(Months)
           days(i) == coverage(Months[i], start, end).days
           step == [ i \in Nat |-> days(i + 1) ]
           Is(f) == f = [ i \in 0..n |-> IF i = 0 THEN 0 ELSE f[i - 1] + days(i) ]
<1>1. Billed = CHOOSE f : Is(f)
  BY DEF Billed
<1> HIDE DEF n, days
<1>2. n \in Nat
  BY DEF n
<1>3. \A i \in 0..n : i # 0 => step[i - 1] = days(i)
  <2>1. ASSUME NEW i \in 0..n, i # 0
        PROVE  step[i - 1] = days(i)
    <3>1. i - 1 \in Nat /\ (i - 1) + 1 = i
      BY <1>2, <2>1
    <3>2. QED
      BY <3>1
  <2>2. QED
    BY <2>1
<1> HIDE DEF step
<1>4. \E f : Is(f)
  <2>1. PICK f : IsRunningTotal(f, 0, step, n)
    BY <1>2, RunningTotals
  <2>2. Is(f)
    BY <1>3, <2>1 DEF IsRunningTotal
  <2> HIDE DEF Is
  <2>3. QED
    BY <2>2
<1> HIDE DEF Is
<1>5. Is(Billed)
  BY <1>1, <1>4
<1>6. Billed = [ i \in 0..n |-> IF i = 0 THEN 0 ELSE Billed[i - 1] + days(i) ]
  BY <1>5 DEF Is
<1>7. Billed[0] = 0 /\ \A i \in 1..n : Billed[i] = Billed[i - 1] + days(i)
  BY <1>2, <1>6
<1>8. QED
  BY <1>7 DEF n, days

\* NoDayLostOrBilledTwice, for any deployment: up to month i the days billed
\* are the working days from the start to the end of that month.
LEMMA DaysBilledOnce ==
  ASSUME start \in Date, end \in Date
  PROVE  NoDayLostOrBilledTwice
<1>0. start \in Int /\ end \in Int
  BY DatesAreNumbers
<1>1. CASE end < start
  <2>1. Len(Months) = 0
    BY <1>1, NoMonths
  <2>2. Billed[0] = 0
    BY <2>1, BilledSteps
  <2>3. working_days(start, end) = 0
    BY <1>0, <1>1, NoWorkingDays
  <2>4. QED
    BY <2>1, <2>2, <2>3 DEF NoDayLostOrBilledTwice
<1>2. CASE start <= end
  <2> DEFINE a == Position(period_of(start))
             b == Position(period_of(end))
             n == b - a + 1
             to(i) == Earlier(end, last_day(Months[i]))
  <2>1. /\ a \in 0..(12 * Years - 1) /\ b \in 0..(12 * Years - 1) /\ a <= b
        /\ Len(Months) = n /\ DOMAIN Months = 1..n
        /\ \A i \in DOMAIN Months :
             Months[i] \in Period /\ Position(Months[i]) = a + i - 1
        /\ Months[n] = period_of(end)
    BY <1>2, MonthsByPosition
  <2>2. 12 * Years \in Nat
    BY CalendarInputs
  <2>3. n \in Nat \ { 0 }
    BY <2>1, <2>2
  <2>4. /\ Billed[0] = 0
        /\ \A i \in 1..n : Billed[i] = Billed[i - 1] + coverage(Months[i], start, end).days
    BY <2>1, <2>3, BilledSteps
  <2>5. ASSUME NEW i \in 1..n
        PROVE  /\ Months[i] \in Period
               /\ first_day(Months[i]) \in Int /\ last_day(Months[i]) \in Int
               /\ first_day(Months[i]) + 27 <= last_day(Months[i])
               /\ first_day(Months[i]) <= end /\ start <= last_day(Months[i])
               /\ coverage(Months[i], start, end).days =
                    working_days(Later(start, first_day(Months[i])), to(i))
    <3>1. Months[i] \in Period
      BY <2>1
    <3>2. /\ first_day(Months[i]) \in Date /\ last_day(Months[i]) \in Date
          /\ first_day(Months[i]) + 27 <= last_day(Months[i])
      BY <3>1, MonthBounds
    <3>3. first_day(Months[i]) \in Int /\ last_day(Months[i]) \in Int
      BY <3>2, DatesAreNumbers
    <3>4. first_day(Months[i]) <= end /\ start <= last_day(Months[i])
      <4>1. i \in DOMAIN periods_between(start, end)
        BY <2>1 DEF Months
      <4>2. QED
        BY <4>1, MonthsAreWithin DEF Months
    <3>5. end # NoDate
      BY DEF Date, NoDate
    <3>6. QED
      BY <3>1, <3>2, <3>3, <3>4, <3>5 DEF coverage
  <2>6. ASSUME NEW i \in 1..n, i + 1 \in 1..n
        PROVE  first_day(Months[i + 1]) = last_day(Months[i]) + 1
    <3>1. /\ Months[i] \in Period /\ Position(Months[i]) = a + i - 1
          /\ Months[i + 1] \in Period /\ Position(Months[i + 1]) = a + (i + 1) - 1
      BY <2>1, <2>6
    <3>2. a + (i + 1) - 1 = (a + i - 1) + 1
      BY <2>1, <2>2
    <3> HIDE DEF a, b, n
    <3>3. /\ last_day(Months[i]) = Firsts[(a + i - 1) + 1] - 1
          /\ first_day(Months[i + 1]) = Firsts[(a + i - 1) + 1]
      BY <3>1, <3>2, MonthBounds
    <3>4. first_day(Months[i + 1]) \in Int
      BY <2>5, <2>6
    <3>5. QED
      BY <3>3, <3>4
  <2>7. first_day(Months[1]) <= start
    <3>1. 1 \in DOMAIN Months /\ Months[1] \in Period /\ Position(Months[1]) = a + 1 - 1
      BY <2>1, <2>3
    <3>2. period_of(start) \in Period /\ a + 1 - 1 = a
      BY <2>1, <2>2, DateHasItsPeriod
    <3>3. Months[1] = period_of(start)
      BY <3>1, <3>2, MonthsInOrder
    <3>4. QED
      BY <3>3, DateHasItsPeriod
  <2>8. last_day(Months[n]) >= end
    BY <2>1, DateHasItsPeriod
  <2> HIDE DEF a, b, n
  <2> DEFINE S == { i \in Nat : i + 1 <= n => Billed[i + 1] = working_days(start, to(i + 1)) }
  <2>9. 0 \in S
    <3>1. 1 \in 1..n
      BY <2>3
    <3>2. Later(start, first_day(Months[1])) = start
      BY <1>0, <2>5, <2>7, <3>1 DEF Later
    <3>3. to(1) \in Int
      BY <1>0, <2>5, <3>1 DEF Earlier
    <3>4. Billed[1] = Billed[1 - 1] + working_days(start, to(1))
      BY <2>4, <2>5, <3>1, <3>2
    <3> HIDE DEF to
    <3>5. working_days(start, to(1)) \in Nat
      BY <1>0, <3>3, WorkingDaysAreCounted
    <3>6. Billed[1] = working_days(start, to(1))
      <4> DEFINE w == working_days(start, to(1))
      <4>1. w \in Nat /\ Billed[1] = Billed[1 - 1] + w
        BY <3>4, <3>5
      <4> HIDE DEF w
      <4>2. Billed[1] = w
        BY <2>4, <4>1
      <4>3. QED
        BY <4>2 DEF w
    <3>7. QED
      BY <3>6
  <2>10. ASSUME NEW i \in Nat, i \in S
         PROVE  i + 1 \in S
    <3>1. CASE ~ ((i + 1) + 1 <= n)
      BY <3>1
    <3>2. CASE (i + 1) + 1 <= n
      <4> DEFINE j == i + 1
      <4>1. j \in 1..n /\ j + 1 \in 1..n /\ (j + 1) - 1 = j
        BY <2>3, <3>2
      <4>2. Billed[j] = working_days(start, to(j))
        BY <2>3, <2>10, <3>2
      <4> HIDE DEF j
      <4>3. first_day(Months[j + 1]) = last_day(Months[j]) + 1
        BY <2>6, <4>1
      <4>4. /\ first_day(Months[j + 1]) <= end
            /\ last_day(Months[j]) \in Int /\ last_day(Months[j + 1]) \in Int
            /\ start <= last_day(Months[j])
            /\ first_day(Months[j + 1]) + 27 <= last_day(Months[j + 1])
        BY <2>5, <4>1
      <4>5. /\ to(j) = last_day(Months[j])
            /\ Later(start, first_day(Months[j + 1])) = last_day(Months[j]) + 1
            /\ to(j + 1) \in Int /\ last_day(Months[j]) <= to(j + 1)
        BY <1>0, <4>3, <4>4 DEF Later, Earlier
      <4>6. Billed[j + 1] = Billed[j] + working_days(last_day(Months[j]) + 1, to(j + 1))
        BY <2>4, <2>5, <4>1, <4>5
      <4>7. working_days(start, to(j + 1)) =
              working_days(start, last_day(Months[j]))
                + working_days(last_day(Months[j]) + 1, to(j + 1))
        <5>1. start - 1 <= last_day(Months[j])
          BY <1>0, <4>4
        <5> HIDE DEF to
        <5>2. QED
          BY <1>0, <4>4, <4>5, <5>1, WorkingDaysSplit
      <4>8. Billed[j + 1] = working_days(start, to(j + 1))
        BY <4>2, <4>5, <4>6, <4>7
      <4>9. QED
        BY <4>8 DEF j
    <3>3. QED
      BY <3>1, <3>2
  <2> HIDE DEF S
  <2>11. Nat \subseteq S
    BY <2>9, <2>10, NatSetInduction
  <2>12. n - 1 \in S /\ (n - 1) + 1 = n
    BY <2>3, <2>11
  <2>13. Billed[n] = working_days(start, to(n))
    BY <2>3, <2>12 DEF S
  <2>14. to(n) = end
    <3>1. n \in 1..n
      BY <2>3
    <3>2. last_day(Months[n]) \in Int
      BY <2>5, <3>1
    <3>3. QED
      BY <1>0, <2>8, <3>2 DEF Earlier
  <2>15. QED
    BY <2>1, <2>13, <2>14 DEF NoDayLostOrBilledTwice
<1>3. QED
  BY <1>0, <1>1, <1>2

-----------------------------------------------------------------------------
(* What a month bills.                                                     *)

\* SplitMonthReconciles, for any deployment and rate.
LEMMA SplitsReconcile ==
  ASSUME start \in Date, end \in Date, rate \in Nat
  PROVE  SplitMonthReconciles
<1> SUFFICES ASSUME NEW i \in DOMAIN Months, end >= first_day(Months[i])
             PROVE  LET first  == coverage(Months[i], first_day(Months[i]), end)
                        second == coverage(Months[i], end + 1, NoDate)
                    IN  prorate(rate, first)
                          + (IF covers(second) THEN prorate(rate, second) ELSE 0)
                            \in { rate, rate + 1 }
  BY DEF SplitMonthReconciles
<1> DEFINE p == Months[i]
           f == first_day(p)
           l == last_day(p)
           first  == coverage(p, f, end)
           second == coverage(p, end + 1, NoDate)
<1>1. p \in Period
  BY MonthsAreWithin DEF Months
<1>2. start \in Int /\ end \in Int /\ end # NoDate
  BY DatesAreNumbers DEF Date, NoDate
<1> HIDE DEF p
<1>3. f \in Int /\ l \in Int /\ f + 27 <= l
  BY <1>1, MonthBounds, DatesAreNumbers
<1>4. working_days(f, l) \in Nat \ { 0 }
  BY <1>1, MonthsHaveWorkingDays
<1>5. f <= end
  BY <1>2, <1>3 DEF p
<1>6. /\ first.days = working_days(f, Earlier(end, l)) /\ first.full = working_days(f, l)
      /\ second.from = Later(end + 1, f) /\ second.to = l
      /\ second.days = working_days(Later(end + 1, f), l)
      /\ second.full = working_days(f, l)
  <2>1. Later(f, f) = f
    BY <1>3 DEF Later
  <2>2. QED
    BY <1>2, <2>1 DEF coverage
<1> HIDE DEF f, l, first, second
<1>7. Later(end + 1, f) = end + 1
  BY <1>2, <1>3, <1>5 DEF Later
<1>8. CASE end >= l
  <2>1. first.days = first.full /\ first.full \in Nat \ { 0 }
    <3>1. Earlier(end, l) = l
      BY <1>2, <1>3, <1>8 DEF Earlier
    <3>2. QED
      BY <1>4, <1>6, <3>1
  <2>2. first.days \in Nat /\ first.days <= first.full
    BY <2>1
  <2>3. prorate(rate, first) = rate
    BY <2>1, <2>2, ProrateBounds
  <2>4. ~ covers(second)
    BY <1>2, <1>3, <1>6, <1>7, <1>8 DEF covers
  <2>5. QED
    BY <2>3, <2>4 DEF first, second, f, p
<1>9. CASE end < l
  <2>1. Earlier(end, l) = end
    BY <1>2, <1>3, <1>9 DEF Earlier
  <2>2. f - 1 <= end /\ end <= l /\ end + 1 \in Int
    BY <1>2, <1>3, <1>5, <1>9
  <2>3. working_days(f, l) = working_days(f, end) + working_days(end + 1, l)
    BY <1>2, <1>3, <2>2, WorkingDaysSplit
  <2>4. working_days(f, end) \in Nat /\ working_days(end + 1, l) \in Nat
    BY <1>2, <1>3, <2>2, WorkingDaysAreCounted
  <2>5. /\ first.days \in Nat /\ second.days \in Nat /\ first.full \in Nat \ { 0 }
        /\ second.full = first.full /\ first.days + second.days = first.full
    BY <1>4, <1>6, <1>7, <2>1, <2>3, <2>4
  <2>6. prorate(rate, first) + prorate(rate, second) \in { rate, rate + 1 }
    BY <2>5, ProrateSplits
  <2>7. covers(second)
    BY <1>2, <1>3, <1>6, <1>7, <1>9 DEF covers
  <2>8. QED
    BY <2>6, <2>7 DEF first, second, f, p
<1>10. QED
  BY <1>2, <1>3, <1>8, <1>9

\* WholeMonthsBillWhole, for any deployment and rate.
LEMMA WholeMonthsAreWhole ==
  ASSUME start \in Date, end \in Date, rate \in Nat
  PROVE  WholeMonthsBillWhole
<1> SUFFICES ASSUME NEW i \in DOMAIN Months
             PROVE  LET cover  == coverage(Months[i], start, end)
                        billed == amounts_for(cover, rate, rate).revenue
                    IN  /\ billed <= rate
                        /\ ~ is_partial(cover) => billed = rate
  BY DEF WholeMonthsBillWhole
<1> DEFINE cover == coverage(Months[i], start, end)
<1>1. Months[i] \in Period
  BY MonthsAreWithin DEF Months
<1>2. cover.days \in Nat /\ cover.full \in Nat \ { 0 } /\ cover.days <= cover.full
  BY <1>1, CoverageCounts
<1>3. amounts_for(cover, rate, rate).revenue = prorate(rate, cover)
  BY DEF amounts_for
<1> HIDE DEF cover
<1>4. /\ prorate(rate, cover) <= rate
      /\ cover.days = cover.full => prorate(rate, cover) = rate
  BY <1>2, ProrateBounds
<1>5. ~ is_partial(cover) => cover.days = cover.full
  BY <1>2 DEF is_partial
<1>6. QED
  BY <1>3, <1>4, <1>5 DEF cover

-----------------------------------------------------------------------------
(* The calendar.                                                           *)

\* The dates and the rate a state of the calendar is about.
CalendarInv ==
  /\ start \in FromDay..ToDay
  /\ end \in FromDay..ToDay
  /\ rate \in Rates

\* For any stretch of the calendar and any rates, in whole cents: a deployment's
\* months are those its days fall in, its working days are billed once each, a
\* month an extension splits bills its rate but for a cent, and a whole month
\* bills exactly its rate.
THEOREM TheCalendarHolds ==
  ASSUME FromDay \in Date, ToDay \in Date, Rates \subseteq Nat
  PROVE  CalendarInit /\ [][CalendarNext]_stretch => []CalendarHolds
<1>1. CalendarInit => CalendarInv
  BY DEF CalendarInit, CalendarInv
<1>2. CalendarInv /\ [CalendarNext]_stretch => CalendarInv'
  <2>1. FromDay \in Int /\ ToDay \in Int
    BY DatesAreNumbers
  <2> SUFFICES ASSUME CalendarInv, [CalendarNext]_stretch
               PROVE  CalendarInv'
    OBVIOUS
  <2>2. CASE CalendarNext
    BY <2>1, <2>2 DEF CalendarInv, CalendarNext
  <2>3. CASE UNCHANGED stretch
    BY <2>3 DEF CalendarInv, stretch
  <2>4. QED
    BY <2>2, <2>3
<1>3. CalendarInv => CalendarHolds
  <2> SUFFICES ASSUME CalendarInv
               PROVE  CalendarHolds
    OBVIOUS
  <2>1. start \in Date /\ end \in Date /\ rate \in Nat
    BY DatesAreNumbers DEF CalendarInv
  <2>2. QED
    BY <2>1, TouchedMonths, DaysBilledOnce, SplitsReconcile, WholeMonthsAreWhole
       DEF CalendarHolds
<1>4. QED
  BY <1>1, <1>2, <1>3, PTL

-----------------------------------------------------------------------------
(***************************************************************************)
(* The opportunity score: any consultants, offers, durations and one-offs. *)
(***************************************************************************)
-----------------------------------------------------------------------------
(* Rounding.                                                               *)

\* Rounding to even errs by a half at the most.
LEMMA EvenErrsByAHalf ==
  ASSUME NEW n \in Int, NEW d \in Nat \ { 0 }
  PROVE  /\ half_even(n, d) \in Int
         /\ 2 * (half_even(n, d) * d - n) \in -d .. d
<1>1. PICK f : f = n \div d
  OBVIOUS
<1>2. PICK m : m = n % d
  OBVIOUS
<1>3. f \in Int /\ m \in 0 .. d - 1 /\ n = f * d + m
  BY <1>1, <1>2
<1>4. half_even(n, d) = IF 2 * m > d \/ (2 * m = d /\ f % 2 = 1) THEN f + 1 ELSE f
  BY <1>1, <1>2 DEF half_even
<1>5. PICK w : w = f * d
  OBVIOUS
<1>6. w \in Int /\ (f + 1) * d = w + d
  BY <1>3, <1>5
<1>7. CASE 2 * m > d \/ (2 * m = d /\ f % 2 = 1)
  <2>1. half_even(n, d) = f + 1
    BY <1>4, <1>7
  <2>2. 2 * (w + d - n) \in -d .. d
    BY <1>3, <1>5, <1>6, <1>7
  <2> QED  BY <1>3, <1>6, <2>1, <2>2
<1>8. CASE ~ (2 * m > d \/ (2 * m = d /\ f % 2 = 1))
  <2>1. half_even(n, d) = f
    BY <1>4, <1>8
  <2>2. 2 * m <= d
    BY <1>3, <1>8
  <2>3. 2 * (w - n) \in -d .. d
    BY <1>3, <1>5, <1>6, <2>2
  <2> QED  BY <1>3, <1>5, <2>1, <2>3
<1> QED  BY <1>7, <1>8

\* So does rounding half up.
LEMMA UpErrsByAHalf ==
  ASSUME NEW n \in Int, NEW d \in Nat \ { 0 }
  PROVE  /\ half_up(n, d) \in Int
         /\ 2 * (half_up(n, d) * d - n) \in -d .. d
         /\ n >= 0 => half_up(n, d) >= 0
<1>1. PICK q : q = (2 * n + d) \div (2 * d)
  OBVIOUS
<1>2. 2 * n + d \in Int /\ 2 * d \in Nat \ { 0 }
  OBVIOUS
<1>3. /\ q \in Int
      /\ (2 * d) * q <= 2 * n + d /\ 2 * n + d < (2 * d) * q + 2 * d
  BY <1>1, <1>2, WholeDivision
<1>4. PICK w : w = q * d
  OBVIOUS
<1>5. w \in Int /\ (2 * d) * q = 2 * w
  BY <1>3, <1>4
<1>6. 2 * (w - n) \in -d .. d
  BY <1>3, <1>5
<1>7. ASSUME n >= 0, ~ (q >= 0) PROVE FALSE
  <2>1. -1 - q \in Nat /\ 0 <= d * (-1 - q)
    BY <1>3, <1>7
  <2>2. d * (-1 - q) = -d - w
    BY <1>3, <1>4
  <2> QED  BY <1>3, <1>5, <1>7, <2>1, <2>2
<1> QED  BY <1>1, <1>3, <1>4, <1>6, <1>7 DEF half_up

\* Hundredths that lie between two whole numbers, or just beside, still do when
\* they are rounded.
LEMMA HundredthsRoundWithin ==
  ASSUME NEW n \in Int, NEW a \in Int, NEW b \in Int,
         100 * a - 2 <= n, n <= 100 * b + 2
  PROVE  half_even(n, 100) \in a .. b
<1>1. PICK h : h = half_even(n, 100)
  OBVIOUS
<1>2. 100 \in Nat \ { 0 }
  OBVIOUS
<1>3. h \in Int /\ 2 * (h * 100 - n) \in -100 .. 100
  BY <1>1, <1>2, EvenErrsByAHalf
<1>4. a <= h /\ h <= b
  BY <1>3
<1> QED  BY <1>1, <1>3, <1>4

-----------------------------------------------------------------------------
(* Good news.                                                              *)

\* How rounding comes about.
LEMMA EvenParts ==
  ASSUME NEW n \in Int, NEW d \in Nat \ { 0 }
  PROVE  \E f \in Int, m \in 0 .. d - 1 :
           /\ n = d * f + m
           /\ half_even(n, d) =
                IF 2 * m > d \/ (2 * m = d /\ f % 2 = 1) THEN f + 1 ELSE f
<1>1. n \div d \in Int /\ n % d \in 0 .. d - 1 /\ n = d * (n \div d) + (n % d)
  OBVIOUS
<1> QED  BY <1>1 DEF half_even

\* Rounding keeps the order of fractions.
LEMMA RoundingIsMonotone ==
  ASSUME NEW n \in Int, NEW d \in Nat \ { 0 }, NEW n2 \in Int, NEW d2 \in Nat \ { 0 },
         n * d2 <= n2 * d
  PROVE  half_even(n, d) <= half_even(n2, d2)
<1> DEFINE up(f, m, e) == 2 * m > e \/ (2 * m = e /\ f % 2 = 1)
<1>1. PICK f \in Int, m \in 0 .. d - 1 :
        n = d * f + m /\ half_even(n, d) = IF up(f, m, d) THEN f + 1 ELSE f
  BY EvenParts
<1>2. PICK f2 \in Int, m2 \in 0 .. d2 - 1 :
        n2 = d2 * f2 + m2 /\ half_even(n2, d2) = IF up(f2, m2, d2) THEN f2 + 1 ELSE f2
  BY EvenParts
<1>3. PICK D \in Nat \ { 0 } : D = d * d2
  <2>1. d * 0 < d * d2
    BY Multiples
  <2> QED  BY <2>1
<1>4. PICK a \in Int : a = d2 * m
  OBVIOUS
<1>5. PICK b \in Int : b = d * m2
  OBVIOUS
<1>6. n * d2 = D * f + a /\ n2 * d = D * f2 + b
  BY <1>1, <1>2, <1>3, <1>4, <1>5
<1>7. 0 <= a /\ a < D
  BY <1>3, <1>4, Multiples
<1>8. 0 <= b /\ b < D
  BY <1>3, <1>5, Multiples
<1>9. D * f + a <= D * f2 + b
  BY <1>6
<1>10. f <= f2
  <2>1. D * (f2 + 1) = D * f2 + D
    OBVIOUS
  <2>2. D * f < D * (f2 + 1)
    BY <1>7, <1>8, <1>9, <2>1
  <2>3. f < f2 + 1
    BY <2>2, Multiples
  <2> QED  BY <2>3
<1>11. CASE f < f2
  BY <1>1, <1>2, <1>11
<1>12. CASE f = f2
  <2>1. a <= b
    BY <1>9, <1>12
  <2>2. ASSUME up(f, m, d) PROVE up(f2, m2, d2)
    <3>1. d2 * (2 * m) = 2 * a /\ d2 * d = D /\ d * (2 * m2) = 2 * b /\ d * d2 = D
      BY <1>3, <1>4, <1>5
    <3>2. CASE 2 * m > d
      <4>1. d2 * d < d2 * (2 * m)
        BY <3>2, Multiples
      <4>2. d * d2 < d * (2 * m2)
        BY <2>1, <3>1, <4>1
      <4>3. d2 < 2 * m2
        BY <4>2, Multiples
      <4> QED  BY <4>3
    <3>3. CASE 2 * m = d /\ f % 2 = 1
      <4>1. ~ (d * (2 * m2) < d * d2)
        BY <2>1, <3>1, <3>3
      <4>2. ~ (2 * m2 < d2)
        BY <4>1, Multiples
      <4> QED  BY <1>12, <3>3, <4>2
    <3> QED  BY <2>2, <3>2, <3>3
  <2> QED  BY <1>1, <1>2, <1>12, <2>2
<1> QED  BY <1>10, <1>11, <1>12

\* Nor is it disturbed by whole hundreds.
LEMMA HundredsStandApart ==
  ASSUME NEW n \in Int, NEW d \in Nat \ { 0 }, NEW q \in Int
  PROVE  half_even(d * (100 * q) + n, d) = 100 * q + half_even(n, d)
<1>1. PICK f \in Int, m \in 0 .. d - 1 :
        /\ n = d * f + m
        /\ half_even(n, d) =
             IF 2 * m > d \/ (2 * m = d /\ f % 2 = 1) THEN f + 1 ELSE f
  BY EvenParts
<1>2. PICK n2 \in Int : n2 = d * (100 * q) + n
  OBVIOUS
<1>3. PICK f2 \in Int, m2 \in 0 .. d - 1 :
        /\ n2 = d * f2 + m2
        /\ half_even(n2, d) =
             IF 2 * m2 > d \/ (2 * m2 = d /\ f2 % 2 = 1) THEN f2 + 1 ELSE f2
  BY EvenParts
<1>4. PICK g \in Int : g = 100 * q + f
  OBVIOUS
<1>5. d * g + m = d * f2 + m2
  <2>1. d * g = d * (100 * q) + d * f
    BY <1>4
  <2> QED  BY <1>1, <1>2, <1>3, <2>1
<1>6. d * (g + 1) = d * g + d /\ d * (f2 + 1) = d * f2 + d
  OBVIOUS
<1>7. d * g < d * (f2 + 1) /\ d * f2 < d * (g + 1)
  BY <1>5, <1>6
<1>8. g < f2 + 1 /\ f2 < g + 1
  BY <1>7, Multiples
<1>9. g = f2
  BY <1>8
<1>10. m = m2
  <2>1. d * g \in Int
    OBVIOUS
  <2> QED  BY <1>5, <1>9, <2>1
<1>11. f2 % 2 = f % 2
  <2>1. f2 = f + 2 * (50 * q)
    BY <1>4, <1>9
  <2> QED  BY <2>1
<1> QED  BY <1>1, <1>2, <1>3, <1>4, <1>9, <1>10, <1>11

\* A share of the revenue, in hundredths of a percent.
LEMMA MarginIsAFraction ==
  ASSUME NEW r \in Nat \ { 0 }, NEW profit \in Int
  PROVE  margin_percent(r, profit) = half_even(10000 * profit, r)
<1>1. PICK percent \in Int : percent = profit * 100
  OBVIOUS
<1>2. PICK q \in Int : q = percent \div r
  OBVIOUS
<1>3. PICK m \in Int : m = percent % r
  OBVIOUS
<1>4. percent = r * q + m
  BY <1>2, <1>3
<1>5. 10000 * profit = r * (100 * q) + m * 100
  BY <1>1, <1>4
<1>6. margin_percent(r, profit) = q * 100 + half_even(m * 100, r)
  BY <1>1, <1>2, <1>3 DEF margin_percent
<1>7. PICK n \in Int : n = m * 100
  OBVIOUS
<1>8. half_even(r * (100 * q) + n, r) = 100 * q + half_even(n, r)
  BY HundredsStandApart
<1> QED  BY <1>5, <1>6, <1>7, <1>8

\* A better rate for the same cost leaves no smaller margin.
LEMMA MarginGrows ==
  ASSUME NEW r \in Nat \ { 0 }, NEW r2 \in Nat, r <= r2, NEW c \in Nat
  PROVE  /\ margin_percent(r, r - c) \in Int /\ margin_percent(r2, r2 - c) \in Int
         /\ margin_percent(r, r - c) <= margin_percent(r2, r2 - c)
<1>1. r2 \in Nat \ { 0 }
  OBVIOUS
<1>2. PICK n \in Int : n = 10000 * (r - c)
  OBVIOUS
<1>3. PICK n2 \in Int : n2 = 10000 * (r2 - c)
  OBVIOUS
<1>4. c * r <= c * r2
  <2>1. CASE c = 0
    BY <2>1
  <2>2. CASE c # 0
    <3>1. ~ (r2 < r)
      OBVIOUS
    <3>2. ~ (c * r2 < c * r)
      BY <2>2, <3>1, Multiples
    <3> QED  BY <3>2
  <2> QED  BY <2>1, <2>2
<1>5. n * r2 <= n2 * r
  <2>1. n * r2 = 10000 * (r * r2) - 10000 * (c * r2)
    BY <1>2
  <2>2. n2 * r = 10000 * (r * r2) - 10000 * (c * r)
    BY <1>3
  <2>3. PICK x \in Int : x = r * r2
    OBVIOUS
  <2>4. PICK y \in Int, z \in Int : y = c * r /\ z = c * r2
    OBVIOUS
  <2> QED  BY <1>4, <2>1, <2>2, <2>3, <2>4
<1>6. half_even(n, r) <= half_even(n2, r2)
  BY <1>1, <1>5, RoundingIsMonotone
<1>7. half_even(n, r) \in Int /\ half_even(n2, r2) \in Int
  BY <1>1, EvenErrsByAHalf
<1>8. /\ margin_percent(r, r - c) = half_even(n, r)
      /\ margin_percent(r2, r2 - c) = half_even(n2, r2)
  BY <1>1, <1>2, <1>3, MarginIsAFraction
<1> QED  BY <1>6, <1>7, <1>8

\* More rounds to more, either way.
LEMMA RoundingRises ==
  ASSUME NEW n \in Int, NEW n2 \in Int, n <= n2, NEW d \in Nat \ { 0 }
  PROVE  half_even(n, d) <= half_even(n2, d) /\ half_up(n, d) <= half_up(n2, d)
<1>1. n * d <= n2 * d
  <2>1. ~ (d * n2 < d * n)
    BY Multiples
  <2> QED  BY <2>1
<1>2. half_even(n, d) <= half_even(n2, d)
  BY <1>1, RoundingIsMonotone
<1>3. half_up(n, d) <= half_up(n2, d)
  <2>1. PICK x \in Int : x = 2 * n + d
    OBVIOUS
  <2>2. PICK y \in Int : y = 2 * n2 + d
    OBVIOUS
  <2>3. PICK e \in Nat \ { 0 } : e = 2 * d
    OBVIOUS
  <2>4. PICK p \in Int : p = x \div e
    OBVIOUS
  <2>5. PICK q \in Int : q = y \div e
    OBVIOUS
  <2>6. e * p <= x /\ y < e * q + e
    BY <2>4, <2>5, WholeDivision
  <2>7. e * (q + 1) = e * q + e
    OBVIOUS
  <2>8. e * p < e * (q + 1)
    BY <2>1, <2>2, <2>6, <2>7
  <2>9. p < q + 1
    BY <2>8, Multiples
  <2> QED  BY <2>1, <2>2, <2>3, <2>4, <2>5, <2>9 DEF half_up
<1> QED  BY <1>2, <1>3

\* The row that gives the points, when any is met.
LEMMA HighestBand ==
  ASSUME NEW value, NEW table, NEW floor, NEW n \in Nat,
         table \subseteq Nat \X Nat, \A row \in table : row[1] <= n,
         { row \in table : value >= row[1] } # {}
  PROVE  \E row \in table :
           /\ value >= row[1]
           /\ \A other \in table : value >= other[1] => row[1] >= other[1]
           /\ band_points(value, table, floor) = row[2]
<1> DEFINE met == { row \in table : value >= row[1] }
           U == { n - row[1] : row \in met }
<1>1. U \subseteq Nat /\ U # {}
  <2>1. \A row \in met : n - row[1] \in Nat
    OBVIOUS
  <2> QED  BY <2>1, Zenon
<1>2. PICK u \in U : \A w \in U : u <= w
  <2> HIDE DEF U
  <2> QED  BY <1>1, NatHasLeast
<1>3. \E row \in met : \A other \in met : row[1] >= other[1]
  <2>1. PICK row \in met : u = n - row[1]
    BY <1>2
  <2>2. \A other \in met : n - row[1] <= n - other[1]
    BY <1>2, <2>1
  <2>3. \A other \in met : row[1] \in Int /\ other[1] \in Int
    OBVIOUS
  <2>4. \A other \in met : row[1] >= other[1]
    BY <2>2, <2>3
  <2> QED  BY <2>1, <2>4, Zenon
<1>4. PICK highest : highest = CHOOSE row \in met : \A other \in met : row[1] >= other[1]
  OBVIOUS
<1>5. highest \in met /\ \A other \in met : highest[1] >= other[1]
  BY <1>3, <1>4
<1>6. band_points(value, table, floor) = highest[2]
  BY <1>4 DEF band_points
<1> QED  BY <1>5, <1>6

\* Bands that rise, none of them below the floor.
Rising(table, floor, n) ==
  /\ floor \in Nat /\ n \in Nat
  /\ table \subseteq Nat \X Nat
  /\ \A row \in table : row[1] <= n /\ floor <= row[2]
  /\ \A row, other \in table : row[1] <= other[1] => row[2] <= other[2]

\* What a rising table gives rises with the value.
LEMMA PointsRise ==
  ASSUME NEW value \in Int, NEW value2 \in Int, value <= value2,
         NEW table, NEW floor, NEW n, Rising(table, floor, n)
  PROVE  /\ band_points(value, table, floor) \in Nat
         /\ band_points(value2, table, floor) \in Nat
         /\ band_points(value, table, floor) <= band_points(value2, table, floor)
<1>0. /\ n \in Nat /\ floor \in Nat /\ table \subseteq Nat \X Nat
      /\ \A row \in table : row[1] <= n
  BY DEF Rising
<1>1. ASSUME NEW v \in Int, NEW w \in Int, v <= w,
             { row \in table : v >= row[1] } # {}
      PROVE  /\ band_points(v, table, floor) \in Nat /\ band_points(w, table, floor) \in Nat
             /\ floor <= band_points(v, table, floor)
             /\ band_points(v, table, floor) <= band_points(w, table, floor)
  <2>1. PICK row \in table :
          /\ v >= row[1]
          /\ \A other \in table : v >= other[1] => row[1] >= other[1]
          /\ band_points(v, table, floor) = row[2]
    BY <1>0, <1>1, HighestBand
  <2>2. row[1] \in Nat /\ w >= row[1]
    BY <1>0, <1>1, <2>1
  <2>3. { other \in table : w >= other[1] } # {}
    BY <2>2
  <2>4. PICK row2 \in table :
          /\ w >= row2[1]
          /\ \A other \in table : w >= other[1] => row2[1] >= other[1]
          /\ band_points(w, table, floor) = row2[2]
    BY <1>0, <2>3, HighestBand
  <2>5. row[1] <= row2[1]
    BY <1>0, <2>2, <2>4
  <2> QED  BY <1>0, <2>1, <2>4, <2>5 DEF Rising
<1>2. CASE { row \in table : value >= row[1] } # {}
  BY <1>1, <1>2
<1>3. CASE { row \in table : value >= row[1] } = {}
  <2>1. band_points(value, table, floor) = floor
    BY <1>3 DEF band_points
  <2>2. CASE { row \in table : value2 >= row[1] } = {}
    <3>1. band_points(value2, table, floor) = floor
      BY <2>2 DEF band_points
    <3> QED  BY <1>0, <2>1, <3>1
  <2>3. CASE { row \in table : value2 >= row[1] } # {}
    <3>1. value2 <= value2
      OBVIOUS
    <3>2. band_points(value2, table, floor) \in Nat /\ floor <= band_points(value2, table, floor)
      BY <1>1, <2>3, <3>1
    <3> QED  BY <1>0, <2>1, <3>2
  <2> QED  BY <2>2, <2>3
<1> QED  BY <1>2, <1>3

-----------------------------------------------------------------------------
(* The components lie between 0 and 100.                                   *)

\* The least and the greatest of some whole numbers between two others.
LEMMA Extremes ==
  ASSUME NEW a \in Int, NEW b \in Int, NEW T \in SUBSET (a .. b), T # {}
  PROVE  /\ Min(T) \in T /\ \A v \in T : Min(T) <= v
         /\ Max(T) \in T /\ \A v \in T : v <= Max(T)
<1>0. \A v \in T : v \in Int /\ v - a \in Nat /\ b - v \in Nat
  OBVIOUS
<1>1. \E v \in T : \A w \in T : v <= w
  <2> DEFINE U == { v - a : v \in T }
  <2>1. U \subseteq Nat /\ U # {}
    BY <1>0
  <2>2. PICK u \in U : \A w \in U : u <= w
    <3> HIDE DEF U
    <3> QED  BY <2>1, NatHasLeast
  <2>3. PICK v \in T : u = v - a
    BY <2>2
  <2>4. \A w \in T : v - a <= w - a
    BY <2>2, <2>3
  <2> QED  BY <1>0, <2>4
<1>2. \E v \in T : \A w \in T : v >= w
  <2> DEFINE U == { b - v : v \in T }
  <2>1. U \subseteq Nat /\ U # {}
    BY <1>0
  <2>2. PICK u \in U : \A w \in U : u <= w
    <3> HIDE DEF U
    <3> QED  BY <2>1, NatHasLeast
  <2>3. PICK v \in T : u = b - v
    BY <2>2
  <2>4. \A w \in T : b - v <= b - w
    BY <2>2, <2>3
  <2> QED  BY <1>0, <2>4
<1>3. Min(T) \in T /\ \A v \in T : Min(T) <= v
  BY <1>1 DEF Min
<1>4. Max(T) \in T /\ \A v \in T : Max(T) >= v
  BY <1>2 DEF Max
<1> QED  BY <1>3, <1>4

\* The points come from one of the rows, or from the floor.
LEMMA BandsGivePoints ==
  ASSUME NEW value, NEW table, NEW floor, NEW n \in Nat,
         table \subseteq Nat \X Nat, \A row \in table : row[1] <= n
  PROVE  band_points(value, table, floor) \in { floor } \cup { row[2] : row \in table }
<1> DEFINE met == { row \in table : value >= row[1] }
           U == { n - row[1] : row \in met }
<1>1. CASE met = {}
  BY <1>1 DEF band_points
<1>2. CASE met # {}
  <2>1. U \subseteq Nat /\ U # {}
    <3>1. \A row \in met : n - row[1] \in Nat
      OBVIOUS
    <3> QED  BY <1>2, <3>1, Zenon
  <2>2. PICK u \in U : \A w \in U : u <= w
    <3> HIDE DEF U
    <3> QED  BY <2>1, NatHasLeast
  <2>3. \E row \in met : \A other \in met : row[1] >= other[1]
    <3>1. PICK row \in met : u = n - row[1]
      BY <2>2
    <3>2. \A other \in met : n - row[1] <= n - other[1]
      BY <2>2, <3>1
    <3>3. \A other \in met : row[1] \in Int /\ other[1] \in Int
      OBVIOUS
    <3>4. \A other \in met : row[1] >= other[1]
      BY <3>2, <3>3
    <3> QED  BY <3>1, <3>4, Zenon
  <2>4. PICK highest : highest = CHOOSE row \in met : \A other \in met : row[1] >= other[1]
    OBVIOUS
  <2>5. highest \in met
    BY <2>3, <2>4
  <2>6. band_points(value, table, floor) = highest[2]
    BY <1>2, <2>4 DEF band_points
  <2> QED  BY <2>5, <2>6
<1> QED  BY <1>1, <1>2

\* The gate is one of its four shares.
LEMMA GateIsAShare ==
  ASSUME NEW match
  PROVE  supply_gate_for(match) \in { 35, 60, 85, 100 }
<1> DEFINE table == { << 70, 100 >>, << 55, 85 >>, << 40, 60 >> }
<1>1. 70 \in Nat /\ table \subseteq Nat \X Nat /\ \A row \in table : row[1] <= 70
  OBVIOUS
<1>2. { row[2] : row \in table } = { 100, 85, 60 }
  OBVIOUS
<1>3. \A m : band_points(m, table, 35) \in { 35 } \cup { row[2] : row \in table }
  <2> HIDE DEF table
  <2> QED  BY <1>1, BandsGivePoints
<1>4. \A m : band_points(m, table, 35) \in { 35, 60, 85, 100 }
  <2> HIDE DEF table
  <2> QED  BY <1>2, <1>3
<1> QED  BY <1>4 DEF supply_gate_for

\* Points: eight shares of a hundred.
LEMMA PointsAreAShare ==
  ASSUME NEW states, NEW some
  PROVE  points_of(states, some) \in 0 .. 100
  BY DEF points_of, Points

\* Addressability stays between 0 and 100.
LEMMA AddressabilityIsAScore ==
  ASSUME NEW states, NEW match
  PROVE  score_addressability(states, match).score \in 0 .. 100
<1>1. PICK raw : raw = points_of(states, { "MET" })
  OBVIOUS
<1>2. PICK gate : gate = supply_gate_for(match)
  OBVIOUS
<1>3. raw \in 0 .. 100 /\ gate \in { 35, 60, 85, 100 }
  BY <1>1, <1>2, PointsAreAShare, GateIsAShare
<1>4. raw * gate \in 0 .. 10000
  BY <1>3
<1>5. half_even(raw * gate, 100) \in 0 .. 100
  <2>1. PICK n \in Int : n = raw * gate
    BY <1>3
  <2>2. 100 * 0 - 2 <= n /\ n <= 100 * 100 + 2
    BY <1>3, <1>4, <2>1
  <2>3. half_even(n, 100) \in 0 .. 100
    <3>1. 0 \in Int /\ 100 \in Int
      OBVIOUS
    <3> QED  BY <2>2, <3>1, HundredthsRoundWithin
  <2> QED  BY <2>1, <2>3
<1>6. gated(raw, gate) \in 0 .. 100
  BY <1>5 DEF gated
<1> QED  BY <1>1, <1>2, <1>6 DEF score_addressability

\* What a commercial score is made of never exceeds a hundred.
LEMMA WorthIsAScore ==
  ASSUME NEW figures, NEW term
  PROVE  score_commercial(figures, term) \subseteq 0 .. 100
<1>1. ASSUME NEW m PROVE band_points(m, margin_bands, 0) \in 0 .. 60
  <2>1. PICK largest \in Nat : largest = 3500
    BY SMT
  <2>2. margin_bands \subseteq Nat \X Nat /\ \A row \in margin_bands : row[1] <= largest
    BY <2>1, SMT DEF margin_bands
  <2>3. { row[2] : row \in margin_bands } \subseteq 0 .. 60
    BY SMT DEF margin_bands
  <2>4. band_points(m, margin_bands, 0) \in { 0 } \cup { row[2] : row \in margin_bands }
    BY <2>2, BandsGivePoints
  <2> QED  BY <2>3, <2>4
<1>2. ASSUME NEW v PROVE band_points(v, value_bands, 5) \in 0 .. 25
  <2>1. PICK largest \in Nat : largest = 150000000
    BY SMT
  <2>2. value_bands \subseteq Nat \X Nat /\ \A row \in value_bands : row[1] <= largest
    BY <2>1, SMT DEF value_bands
  <2>3. { row[2] : row \in value_bands } \subseteq 0 .. 25
    BY SMT DEF value_bands
  <2>4. band_points(v, value_bands, 5) \in { 5 } \cup { row[2] : row \in value_bands }
    BY <2>2, BandsGivePoints
  <2> QED  BY <2>3, <2>4
<1>3. band_points(term, duration_bands, 3) \in 0 .. 15
  <2>1. PICK largest \in Nat : largest = 24
    BY SMT
  <2>2. duration_bands \subseteq Nat \X Nat /\ \A row \in duration_bands : row[1] <= largest
    BY <2>1, SMT DEF duration_bands
  <2>3. { row[2] : row \in duration_bands } \subseteq 0 .. 15
    BY SMT DEF duration_bands
  <2>4. band_points(term, duration_bands, 3) \in { 3 } \cup { row[2] : row \in duration_bands }
    BY <2>2, BandsGivePoints
  <2> QED  BY <2>3, <2>4
<1> QED  BY <1>1, <1>2, <1>3 DEF score_commercial

\* The addressability rises with every factor.
Answered == { "MET", "NOT_MET", "NOT_APPLICABLE" }

\* Points rise when no factor leaves the states they are given for.
LEMMA PointsOfRise ==
  ASSUME NEW states, NEW states2, NEW some,
         \A f \in DOMAIN Points : states[f] \in some => states2[f] \in some
  PROVE  points_of(states, some) <= points_of(states2, some)
<1> DEFINE p(s, f) == IF s[f] \in some THEN Points[f] ELSE 0
<1>1. ASSUME NEW f \in DOMAIN Points
      PROVE  p(states, f) \in Nat /\ p(states2, f) \in Nat /\ p(states, f) <= p(states2, f)
  <2>1. Points[f] \in Nat
    BY DEF Points
  <2> QED  BY <2>1
<1>2. DOMAIN Points =
        { "outsourcing_friendly", "existing_customer", "partner_route", "approved_vendor",
          "decision_maker", "requirement_active", "can_submit", "viable_rate" }
  BY DEF Points
<1>3. \A s : points_of(s, some) =
        p(s, "outsourcing_friendly") + p(s, "existing_customer")
          + p(s, "partner_route") + p(s, "approved_vendor")
          + p(s, "decision_maker") + p(s, "requirement_active")
          + p(s, "can_submit") + p(s, "viable_rate")
  BY DEF points_of
<1> HIDE DEF p
<1> QED  BY <1>1, <1>2, <1>3

\* A set of values, of which a better one takes the place of a known one.
Rises(old, new) == \A v \in old : new # {} /\ \A w \in new : v <= w

\* A better match never narrows the gate.
LEMMA GateRises ==
  ASSUME NEW match \in SUBSET Int, NEW match2 \in SUBSET Int, Rises(match, match2)
  PROVE  supply_gate_for(match) <= supply_gate_for(match2)
<1> DEFINE table == { << 70, 100 >>, << 55, 85 >>, << 40, 60 >> }
<1>1. Rising(table, 35, 70)
  BY DEF Rising
<1>2. supply_gate_for(match2) \in { 35, 60, 85, 100 }
  BY GateIsAShare
<1>3. CASE match = {}
  BY <1>2, <1>3 DEF supply_gate_for
<1>4. CASE match # {}
  <2>1. PICK m : m = CHOOSE x \in match : TRUE
    OBVIOUS
  <2>2. PICK m2 : m2 = CHOOSE x \in match2 : TRUE
    OBVIOUS
  <2>3. m \in match /\ match2 # {} /\ m2 \in match2
    BY <1>4, <2>1, <2>2 DEF Rises
  <2>4. m \in Int /\ m2 \in Int /\ m <= m2
    BY <2>3 DEF Rises
  <2>5. supply_gate_for(match) = band_points(m, table, 35)
    BY <1>4, <2>1 DEF supply_gate_for
  <2>6. supply_gate_for(match2) = band_points(m2, table, 35)
    BY <2>2, <2>3 DEF supply_gate_for
  <2>7. band_points(m, table, 35) <= band_points(m2, table, 35)
    <3> HIDE DEF table
    <3> QED  BY <1>1, <2>4, PointsRise
  <2> QED  BY <2>5, <2>6, <2>7
<1> QED  BY <1>3, <1>4

\* Named, so that the provers instantiate the lemmas below.
Percents == 0 .. 100

Gates == { 35, 60, 85, 100 }

\* Also past the one product that falls short.
LEMMA GatedRises ==
  ASSUME NEW raw \in Percents, NEW raw2 \in Percents, raw <= raw2,
         NEW gate \in Gates, NEW gate2 \in Gates, gate <= gate2
  PROVE  gated(raw, gate) <= gated(raw2, gate2)
<1> USE DEF Percents, Gates
<1>1. PICK n \in Int : n = raw * gate
  OBVIOUS
<1>2. PICK n2 \in Int : n2 = raw2 * gate2
  OBVIOUS
<1>3. n <= n2
  BY <1>1, <1>2
<1>4. PICK h \in Int : h = half_even(n, 100) /\ 2 * (h * 100 - n) \in -100 .. 100
  <2>1. 100 \in Nat \ { 0 }
    OBVIOUS
  <2> QED  BY <2>1, EvenErrsByAHalf
<1>5. PICK h2 \in Int : h2 = half_even(n2, 100) /\ 2 * (h2 * 100 - n2) \in -100 .. 100
  <2>1. 100 \in Nat \ { 0 }
    OBVIOUS
  <2> QED  BY <2>1, EvenErrsByAHalf
<1>6. h <= h2
  <2>1. 100 \in Nat \ { 0 }
    OBVIOUS
  <2> QED  BY <1>3, <1>4, <1>5, <2>1, RoundingRises
<1>7. /\ gated(raw, gate) = IF raw = 90 /\ gate = 35 THEN 31 ELSE h
      /\ gated(raw2, gate2) = IF raw2 = 90 /\ gate2 = 35 THEN 31 ELSE h2
  BY <1>1, <1>2, <1>4, <1>5 DEF gated
<1>8. CASE raw = 90 /\ gate = 35
  <2>1. n2 >= 3150
    BY <1>1, <1>3, <1>8
  <2>2. h2 >= 31
    BY <1>5, <2>1
  <2> QED  BY <1>7, <1>8, <2>2
<1>9. CASE ~ (raw = 90 /\ gate = 35) /\ raw2 = 90 /\ gate2 = 35
  <2>1. gate = 35 /\ raw <= 89
    BY <1>9
  <2>2. n <= 3115
    BY <1>1, <2>1
  <2>3. h <= 31
    BY <1>4, <2>2
  <2> QED  BY <1>7, <1>9, <2>3
<1>10. CASE ~ (raw = 90 /\ gate = 35) /\ ~ (raw2 = 90 /\ gate2 = 35)
  BY <1>6, <1>7, <1>10
<1> QED  BY <1>8, <1>9, <1>10

\* Score and confidence rise with the factors and with the match.
LEMMA AddressabilityRises ==
  ASSUME NEW states, NEW states2, NEW match \in SUBSET Int, NEW match2 \in SUBSET Int,
         Rises(match, match2),
         \A f \in DOMAIN Points :
           /\ states[f] = "MET" => states2[f] = "MET"
           /\ states[f] \in Answered => states2[f] \in Answered
  PROVE  LET old == score_addressability(states, match)
             new == score_addressability(states2, match2)
         IN  old.score <= new.score /\ old.confidence <= new.confidence
<1>1. points_of(states, { "MET" }) <= points_of(states2, { "MET" })
  <2>1. \A f \in DOMAIN Points : states[f] \in { "MET" } => states2[f] \in { "MET" }
    OBVIOUS
  <2> QED  BY <2>1, PointsOfRise
<1>2. answered(states) <= answered(states2)
  <2>1. points_of(states, Answered) <= points_of(states2, Answered)
    BY PointsOfRise
  <2> QED  BY <2>1 DEF answered, Answered
<1>3. gated(points_of(states, { "MET" }), supply_gate_for(match))
        <= gated(points_of(states2, { "MET" }), supply_gate_for(match2))
  <2>1. PICK raw \in Percents : raw = points_of(states, { "MET" })
    BY PointsAreAShare DEF Percents
  <2>2. PICK raw2 \in Percents : raw2 = points_of(states2, { "MET" })
    BY PointsAreAShare DEF Percents
  <2>3. PICK gate \in Gates : gate = supply_gate_for(match)
    BY GateIsAShare DEF Gates
  <2>4. PICK gate2 \in Gates : gate2 = supply_gate_for(match2)
    BY GateIsAShare DEF Gates
  <2>5. gate <= gate2
    BY <2>3, <2>4, GateRises
  <2>6. raw <= raw2
    BY <1>1, <2>1, <2>2 DEF Percents
  <2>7. gated(raw, gate) <= gated(raw2, gate2)
    BY <2>5, <2>6, GatedRises
  <2> QED  BY <2>1, <2>2, <2>3, <2>4, <2>7
<1> QED  BY <1>2, <1>3 DEF score_addressability

-----------------------------------------------------------------------------
(* What is missing is redistributed.                                       *)

\* A component's contribution is its share of the known weight, in hundredths,
\* to within a half.
LEMMA ContributionErrsByAHalf ==
  ASSUME NEW v \in Int, NEW w \in Nat, NEW total \in Nat \ { 0 }
  PROVE  /\ half_even(v * 100 * w, total) \in Int
         /\ 2 * (half_even(v * 100 * w, total) * total - v * 100 * w) \in -total .. total
<1>1. PICK n \in Int : n = v * 100 * w
  OBVIOUS
<1>2. /\ half_even(n, total) \in Int
      /\ 2 * (half_even(n, total) * total - n) \in -total .. total
  BY EvenErrsByAHalf
<1> QED  BY <1>1, <1>2

\* Two components, or three, that weigh what is known between them.
LEMMA SharesOfKnown ==
  ASSUME NEW a \in Int, NEW b \in Int, NEW known \in SUBSET DOMAIN weights,
         "addressability" \in known,
         NEW value, \A k \in known : value[k] \in a .. b
  PROVE  half_even(over(known,
                     half_even(value["talent_match"] * 100 * weights["talent_match"],
                               known_weight(known)),
                     half_even(value["addressability"] * 100 * weights["addressability"],
                               known_weight(known)),
                     half_even(value["commercial"] * 100 * weights["commercial"],
                               known_weight(known))), 100) \in a .. b
<1> DEFINE W == known_weight(known)
           c(k) == half_even(value[k] * 100 * weights[k], W)
           sum == over(known, c("talent_match"), c("addressability"), c("commercial"))
<1>1. /\ weights["talent_match"] = 40 /\ weights["addressability"] = 35
      /\ weights["commercial"] = 25
      /\ DOMAIN weights = { "talent_match", "addressability", "commercial" }
  BY DEF weights
<1> DEFINE errs_by_a_half(v, w, total) ==
      /\ half_even(v * 100 * w, total) \in Int
      /\ 2 * (half_even(v * 100 * w, total) * total - v * 100 * w) \in -total .. total
<1>0. \A v \in Int, w \in Nat, total \in Nat \ { 0 } : errs_by_a_half(v, w, total)
  BY ContributionErrsByAHalf
<1>10. ASSUME NEW v \in Int
      PROVE  \A w \in { 40, 35, 25 }, total \in { 100, 75, 60, 35 } : errs_by_a_half(v, w, total)
  <2>1. \A w \in { 40, 35, 25 } : w \in Nat
    OBVIOUS
  <2>2. \A w \in { 100, 75, 60, 35 } : w \in Nat \ { 0 }
    OBVIOUS
  <2> HIDE DEF errs_by_a_half
  <2> QED  BY <1>0, <2>1, <2>2, Zenon
<1>2. PICK r : r = value["addressability"]
  OBVIOUS
<1>3. PICK t : t = value["talent_match"]
  OBVIOUS
<1>4. PICK m : m = value["commercial"]
  OBVIOUS
<1>5. r \in Int /\ a <= r /\ r <= b
  BY <1>2
<1>6. CASE "talent_match" \in known /\ "commercial" \in known
  <2>1. W = 100
    BY <1>1, <1>6 DEF known_weight, over, weights
  <2>2. t \in Int /\ a <= t /\ t <= b /\ m \in Int /\ a <= m /\ m <= b
    BY <1>3, <1>4, <1>6
  <2>3. PICK x : x = half_even(t * 100 * 40, 100)
    OBVIOUS
  <2>4. PICK y : y = half_even(r * 100 * 35, 100)
    OBVIOUS
  <2>5. PICK z : z = half_even(m * 100 * 25, 100)
    OBVIOUS
  <2>6. sum = x + y + z
    BY <1>1, <1>2, <1>3, <1>4, <1>6, <2>1, <2>3, <2>4, <2>5 DEF over
  <2>7. /\ x \in Int /\ 2 * (x * 100 - t * 100 * 40) \in -100 .. 100
        /\ y \in Int /\ 2 * (y * 100 - r * 100 * 35) \in -100 .. 100
        /\ z \in Int /\ 2 * (z * 100 - m * 100 * 25) \in -100 .. 100
    BY <1>5, <2>2, <2>3, <2>4, <2>5, <1>10
  <2>8. sum \in Int /\ 100 * a - 2 <= sum /\ sum <= 100 * b + 2
    BY <1>5, <2>2, <2>6, <2>7
  <2> QED  BY <2>8, HundredthsRoundWithin
<1>7. CASE "talent_match" \in known /\ "commercial" \notin known
  <2>1. W = 75
    BY <1>1, <1>7 DEF known_weight, over, weights
  <2>2. t \in Int /\ a <= t /\ t <= b
    BY <1>3, <1>7
  <2>3. PICK x : x = half_even(t * 100 * 40, 75)
    OBVIOUS
  <2>4. PICK y : y = half_even(r * 100 * 35, 75)
    OBVIOUS
  <2>5. sum = x + y + 0
    BY <1>1, <1>2, <1>3, <1>7, <2>1, <2>3, <2>4 DEF over
  <2>6. /\ x \in Int /\ 2 * (x * 75 - t * 100 * 40) \in -75 .. 75
        /\ y \in Int /\ 2 * (y * 75 - r * 100 * 35) \in -75 .. 75
    BY <1>5, <2>2, <2>3, <2>4, <1>10
  <2>7. sum \in Int /\ 100 * a - 2 <= sum /\ sum <= 100 * b + 2
    BY <1>5, <2>2, <2>5, <2>6
  <2> QED  BY <2>7, HundredthsRoundWithin
<1>8. CASE "talent_match" \notin known /\ "commercial" \in known
  <2>1. W = 60
    BY <1>1, <1>8 DEF known_weight, over, weights
  <2>2. m \in Int /\ a <= m /\ m <= b
    BY <1>4, <1>8
  <2>3. PICK y : y = half_even(r * 100 * 35, 60)
    OBVIOUS
  <2>4. PICK z : z = half_even(m * 100 * 25, 60)
    OBVIOUS
  <2>5. sum = 0 + y + z
    BY <1>1, <1>2, <1>4, <1>8, <2>1, <2>3, <2>4 DEF over
  <2>6. /\ y \in Int /\ 2 * (y * 60 - r * 100 * 35) \in -60 .. 60
        /\ z \in Int /\ 2 * (z * 60 - m * 100 * 25) \in -60 .. 60
    BY <1>5, <2>2, <2>3, <2>4, <1>10
  <2>7. sum \in Int /\ 100 * a - 2 <= sum /\ sum <= 100 * b + 2
    BY <1>5, <2>2, <2>5, <2>6
  <2> QED  BY <2>7, HundredthsRoundWithin
<1>9. CASE "talent_match" \notin known /\ "commercial" \notin known
  <2>1. W = 35
    BY <1>1, <1>9 DEF known_weight, over, weights
  <2>2. PICK y : y = half_even(r * 100 * 35, 35)
    OBVIOUS
  <2>3. sum = 0 + y + 0
    BY <1>1, <1>2, <1>9, <2>1, <2>2 DEF over
  <2>4. y \in Int /\ 2 * (y * 35 - r * 100 * 35) \in -35 .. 35
    BY <1>5, <2>2, <1>10
  <2>5. sum \in Int /\ 100 * a - 2 <= sum /\ sum <= 100 * b + 2
    BY <1>5, <2>3, <2>4
  <2> QED  BY <2>5, HundredthsRoundWithin
<1> QED  BY <1>6, <1>7, <1>8, <1>9

\* What a score is composed of, named.
Parts(data, reach, worthiness) ==
  [ talent_match |-> talent_match(data), addressability |-> { reach.score },
    commercial |-> worthiness ]

\* The components that have a value.
KnownOf(parts) == { k \in DOMAIN weights : parts[k] # {} }

\* What compose returns, field by field.
LEMMA Composed ==
  ASSUME NEW data, NEW reach, NEW figures, NEW worthiness
  PROVE  LET parts == Parts(data, reach, worthiness)
             result == compose(data, reach, figures, worthiness)
         IN  /\ result.components = parts
             /\ result.known = KnownOf(parts)
             /\ result.score = weighted(parts, KnownOf(parts))
             /\ result.codes = collected(data, reach, figures)
             /\ result.band = apply_suppressors(band_for(result.score), result.codes)
  BY DEF compose, Parts, KnownOf

\* MissingIsRedistributed, of any result.
LiesBetweenItsParts(result) ==
  LET values == UNION { result.components[k] : k \in result.known }
  IN  values \subseteq 0 .. 100 /\ result.score \in Min(values) .. Max(values)

\* Contributions are shares of the known weight: the rounding of up to three of
\* them adds less than the hundredths that rounding the sum absorbs.
LEMMA ScoreLiesBetweenItsParts ==
  ASSUME NEW data, NEW reach, NEW figures, NEW worthiness,
         talent_match(data) \subseteq 0 .. 100, reach.score \in 0 .. 100,
         worthiness \subseteq 0 .. 100
  PROVE  LiesBetweenItsParts(compose(data, reach, figures, worthiness))
<1>1. PICK result : result = compose(data, reach, figures, worthiness)
  OBVIOUS
<1>2. PICK parts : parts = Parts(data, reach, worthiness)
  OBVIOUS
<1>3. PICK known : known = KnownOf(parts)
  OBVIOUS
<1>4. PICK values : values = UNION { parts[k] : k \in known }
  OBVIOUS
<1>5. /\ result.components = parts /\ result.known = known
      /\ result.score = weighted(parts, known)
  BY <1>1, <1>2, <1>3, Composed
<1>6. DOMAIN weights = { "talent_match", "addressability", "commercial" }
  BY DEF weights
<1>7. \A k \in DOMAIN weights : parts[k] \subseteq 0 .. 100
  <2>1. /\ parts["talent_match"] = talent_match(data)
        /\ parts["addressability"] = { reach.score }
        /\ parts["commercial"] = worthiness
    BY <1>2 DEF Parts
  <2> QED  BY <1>6, <2>1
<1>8. known \in SUBSET DOMAIN weights /\ "addressability" \in known
  BY <1>2, <1>3, <1>6 DEF KnownOf, Parts
<1>9. values \subseteq 0 .. 100 /\ values # {}
  <2>1. reach.score \in values
    BY <1>2, <1>4, <1>8 DEF Parts
  <2> QED  BY <1>4, <1>7, <1>8, <2>1
<1>10. /\ Min(values) \in 0 .. 100 /\ \A v \in values : Min(values) <= v
       /\ Max(values) \in 0 .. 100 /\ \A v \in values : v <= Max(values)
  <2>1. 0 \in Int /\ 100 \in Int
    OBVIOUS
  <2> QED  BY <1>9, <2>1, Extremes
<1>11. PICK value : value = [ k \in DOMAIN weights |-> CHOOSE v \in parts[k] : TRUE ]
  OBVIOUS
<1>12. \A k \in known : value[k] \in Min(values) .. Max(values)
  <2> SUFFICES ASSUME NEW k \in known PROVE value[k] \in Min(values) .. Max(values)
    OBVIOUS
  <2>1. value[k] = CHOOSE v \in parts[k] : TRUE
    BY <1>8, <1>11
  <2>2. parts[k] # {} /\ parts[k] \subseteq values
    BY <1>3, <1>4 DEF KnownOf
  <2>3. value[k] \in values
    BY <2>1, <2>2
  <2>4. value[k] \in Int
    <3>1. \A v \in values : v \in Int
      BY <1>9
    <3> QED  BY <2>3, <3>1
  <2> QED  BY <1>10, <2>3, <2>4
<1>13. weighted(parts, known) =
         half_even(over(known,
                     half_even(value["talent_match"] * 100 * weights["talent_match"],
                               known_weight(known)),
                     half_even(value["addressability"] * 100 * weights["addressability"],
                               known_weight(known)),
                     half_even(value["commercial"] * 100 * weights["commercial"],
                               known_weight(known))), 100)
  <2>1. /\ value["talent_match"] = CHOOSE v \in parts["talent_match"] : TRUE
        /\ value["addressability"] = CHOOSE v \in parts["addressability"] : TRUE
        /\ value["commercial"] = CHOOSE v \in parts["commercial"] : TRUE
    BY <1>6, <1>11
  <2> QED  BY <2>1, Zenon DEF weighted
<1>14. weighted(parts, known) \in Min(values) .. Max(values)
  <2>1. Min(values) \in Int /\ Max(values) \in Int
    BY <1>10
  <2> QED  BY <1>8, <1>12, <1>13, <2>1, SharesOfKnown
<1> QED  BY <1>1, <1>4, <1>5, <1>9, <1>14 DEF LiesBetweenItsParts

\* Whatever the score and the codes, the band is below all of them.
LEMMA BandIsBelowItsCeilings ==
  ASSUME NEW uncapped \in 1 .. 4, NEW codes \in SUBSET (1 .. 4)
  PROVE  /\ apply_suppressors(uncapped, codes) \in 1 .. uncapped
         /\ \A n \in codes : apply_suppressors(uncapped, codes) <= SUPPRESSORS[n]
<1> DEFINE T == { uncapped } \cup { SUPPRESSORS[n] : n \in codes }
<1>1. \A n \in codes : SUPPRESSORS[n] \in 1 .. 2
  BY DEF SUPPRESSORS, REVIEW, DEPRIORITIZE
<1>2. T \in SUBSET (1 .. 4) /\ T # {}
  BY <1>1
<1>3. 1 \in Int /\ 4 \in Int
  OBVIOUS
<1>4. Min(T) \in T /\ \A v \in T : Min(T) <= v
  <2> HIDE DEF T
  <2> QED  BY <1>2, <1>3, Extremes
<1>5. Min(T) \in 1 .. 4
  <2> HIDE DEF T
  <2> QED  BY <1>2, <1>4
<1>6. uncapped \in T /\ \A n \in codes : SUPPRESSORS[n] \in T
  OBVIOUS
<1>7. Min(T) \in 1 .. uncapped /\ \A n \in codes : Min(T) <= SUPPRESSORS[n]
  <2> HIDE DEF T
  <2>1. PICK m : m = Min(T)
    OBVIOUS
  <2>2. m \in 1 .. 4 /\ m <= uncapped /\ \A n \in codes : m <= SUPPRESSORS[n]
    BY <1>4, <1>5, <1>6, <2>1
  <2>3. m \in 1 .. uncapped
    BY <2>2
  <2> QED  BY <2>1, <2>2, <2>3, Zenon
<1> QED  BY <1>7 DEF apply_suppressors

\* CapsHold, of any result.
LEMMA CeilingsCap ==
  ASSUME NEW data, NEW reach, NEW figures, NEW worthiness
  PROVE  LET result == compose(data, reach, figures, worthiness)
         IN  /\ result.band <= band_for(result.score)
             /\ data.deadline = "past" => result.band = DEPRIORITIZE
             /\ result.codes # {} => result.band <= REVIEW
<1>1. PICK result : result = compose(data, reach, figures, worthiness)
  OBVIOUS
<1>2. PICK uncapped : uncapped = band_for(result.score)
  OBVIOUS
<1>3. PICK codes : codes = collected(data, reach, figures)
  OBVIOUS
<1>4. result.codes = codes /\ result.band = apply_suppressors(uncapped, codes)
  BY <1>1, <1>2, <1>3, Composed
<1>5. uncapped \in 1 .. 4
  BY <1>2 DEF band_for, PURSUE_NOW, PURSUE, REVIEW, DEPRIORITIZE
<1>6. codes \in SUBSET (1 .. 4) /\ (data.deadline = "past" => 2 \in codes)
  <2>1. codes \subseteq 1 .. 4
    BY <1>3 DEF collected
  <2>2. ASSUME data.deadline = "past" PROVE 2 \in codes
    BY <1>3, <2>2 DEF collected
  <2> QED  BY <2>1, <2>2
<1>7. /\ result.band \in 1 .. uncapped
      /\ \A n \in codes : result.band <= SUPPRESSORS[n]
  BY <1>4, <1>5, <1>6, BandIsBelowItsCeilings
<1>8. SUPPRESSORS[2] = 1 /\ DEPRIORITIZE = 1 /\ REVIEW = 2
        /\ \A n \in 1 .. 4 : SUPPRESSORS[n] \in 1 .. 2
  BY DEF SUPPRESSORS, REVIEW, DEPRIORITIZE
<1>9. result.band <= uncapped
  BY <1>5, <1>7
<1>10. ASSUME data.deadline = "past" PROVE result.band = DEPRIORITIZE
  BY <1>5, <1>6, <1>7, <1>8, <1>10
<1>11. ASSUME codes # {} PROVE result.band <= REVIEW
  <2>1. PICK n \in codes : n \in 1 .. 4
    BY <1>6, <1>11
  <2> QED  BY <1>5, <1>7, <1>8, <2>1
<1> QED  BY <1>1, <1>2, <1>4, <1>9, <1>10, <1>11

-----------------------------------------------------------------------------
(* The figures.                                                            *)

\* At most one value.
AtMostOne(values) == \A v, w \in values : v = w

\* A rate is at most one amount a month.
LEMMA OneMonthly ==
  ASSUME NEW price \in SUBSET Prices, AtMostOne(price)
  PROVE  monthly(price) \subseteq Int /\ AtMostOne(monthly(price))
<1>1. ASSUME NEW p \in Prices
      PROVE  convert(p) \subseteq Int /\ AtMostOne(convert(p))
  <2>1. p.amount \in Nat
    BY DEF Prices
  <2>2. \A c \in DOMAIN CURRENCY_RATES : CURRENCY_RATES[c] \in Nat
    BY DEF CURRENCY_RATES
  <2>3. 1000 \in Nat \ { 0 }
    OBVIOUS
  <2>4. ASSUME NEW c \in DOMAIN CURRENCY_RATES
        PROVE  half_up(p.amount * CURRENCY_RATES[c], 1000) \in Int
    <3>1. PICK n \in Int : n = p.amount * CURRENCY_RATES[c]
      BY <2>1, <2>2
    <3>2. half_up(n, 1000) \in Int
      BY <2>3, UpErrsByAHalf
    <3> QED  BY <3>1, <3>2
  <2> QED  BY <2>1, <2>4 DEF convert, AtMostOne
<1>2. ASSUME NEW amount \in Int, NEW p \in Prices
      PROVE  to_monthly(amount, p.unit) \in Int
  <2>1. p.unit \in { "HOURLY", "DAILY", "MONTHLY", "ANNUAL" }
    BY DEF Prices
  <2>2. half_up(amount, 12) \in Int
    <3>1. 12 \in Nat \ { 0 }
      OBVIOUS
    <3> QED  BY <3>1, UpErrsByAHalf
  <2> QED  BY <2>1, <2>2 DEF to_monthly
<1> QED  BY <1>1, <1>2 DEF monthly, AtMostOne

\* EngagementReconciles, of one rate and one cost.
LEMMA FiguresReconcile ==
  ASSUME NEW bill \in SUBSET Prices, AtMostOne(bill), NEW cost \in SUBSET Prices,
         AtMostOne(cost), NEW term \in Nat \ { 0 }, NEW one_off \in Nat
  PROVE  LET figures == calculate(bill, cost, term, one_off)
             spread == one_off_monthly(one_off, term) * term
         IN  /\ \A v \in figures.contract_value, p \in figures.total_profit,
                   k \in figures.monthly_cost : v = p + k * term
             /\ 2 * (spread - one_off) \in -term .. term
<1>1. PICK extra : extra = one_off_monthly(one_off, term)
  OBVIOUS
<1>2. extra \in Int /\ 2 * (extra * term - one_off) \in -term .. term
  BY <1>1, UpErrsByAHalf DEF one_off_monthly
<1>3. PICK revenue : revenue = monthly(bill)
  OBVIOUS
<1>4. PICK costs : costs = { c + extra : c \in monthly(cost) }
  OBVIOUS
<1>5. revenue \subseteq Int /\ AtMostOne(revenue)
  BY <1>3, OneMonthly
<1>6. costs \subseteq Int /\ AtMostOne(costs)
  <2>1. monthly(cost) \subseteq Int /\ AtMostOne(monthly(cost))
    BY OneMonthly
  <2> QED  BY <1>2, <1>4, <2>1 DEF AtMostOne
<1>7. PICK figures : figures = calculate(bill, cost, term, one_off)
  OBVIOUS
<1>8. /\ figures.monthly_cost = costs
      /\ figures.contract_value = { r * term : r \in revenue }
      /\ figures.total_profit = { (r - c) * term : r \in revenue, c \in costs }
  BY <1>1, <1>3, <1>4, <1>7 DEF calculate
<1>9. ASSUME NEW v \in figures.contract_value, NEW p \in figures.total_profit,
             NEW k \in figures.monthly_cost
      PROVE  v = p + k * term
  <2>1. PICK r \in revenue : v = r * term
    BY <1>8
  <2>2. PICK r2 \in revenue, c \in costs : p = (r2 - c) * term
    BY <1>8
  <2>3. r2 = r /\ k = c /\ r \in Int /\ c \in Int
    BY <1>5, <1>6, <1>8 DEF AtMostOne
  <2>4. r * term = (r - c) * term + c * term
    BY <2>3
  <2> QED  BY <2>1, <2>2, <2>3, <2>4
<1> QED  BY <1>1, <1>2, <1>7, <1>9

-----------------------------------------------------------------------------
(* The rows hold what the inputs allow.                                    *)
ScoreInv ==
  /\ open \in BOOLEAN
  /\ offer = {} \/ \E o \in Offers : offer = { o }
  /\ months = {} \/ \E d \in Durations : months = { d }
  /\ best = {} \/ \E c \in Candidates : best = { c }

\* Such rows have the score their parts say.
LEMMA InvScores == ScoreInv => ScoreHolds
<1> SUFFICES ASSUME ScoreInv PROVE ScoreHolds
  OBVIOUS
<1>1. PICK data : data = rows
  OBVIOUS
<1>2. /\ data.offer = offer /\ data.months = months /\ data.best = best
      /\ data.deadline = deadline
  BY <1>1 DEF rows
<1>3. duration(data) \in Nat \ { 0 }
  BY <1>2, ScoringInputs DEF duration, ScoreInv
<1>4. offer \in SUBSET Prices /\ AtMostOne(offer)
  BY ScoringInputs DEF ScoreInv, AtMostOne
<1>5. PICK cost : cost = UNION { b.cost : b \in best }
  OBVIOUS
<1>6. cost \in SUBSET Prices /\ AtMostOne(cost)
  BY <1>5, ScoringInputs DEF ScoreInv, AtMostOne
<1>7. talent_match(data) \subseteq 0 .. 100
  BY <1>2, ScoringInputs DEF talent_match, ScoreInv
<1>8. PICK figures : figures = engagement(data, 0)
  OBVIOUS
<1>9. PICK reach : reach = score_addressability(factors(data), talent_match(data))
  OBVIOUS
<1>10. PICK worthiness : worthiness = score_commercial(figures, duration(data))
  OBVIOUS
<1>11. PICK result : result = score_requirement(data)
  OBVIOUS
<1>12. result = compose(data, reach, figures, worthiness)
  BY <1>8, <1>9, <1>10, <1>11 DEF score_requirement
<1>13. reach.score \in 0 .. 100 /\ worthiness \subseteq 0 .. 100
  BY <1>9, <1>10, AddressabilityIsAScore, WorthIsAScore
<1>14. MissingIsRedistributed
  <2>1. LiesBetweenItsParts(compose(data, reach, figures, worthiness))
    BY <1>7, <1>13, ScoreLiesBetweenItsParts
  <2>2. LiesBetweenItsParts(score_requirement(rows))
    BY <1>1, <1>11, <1>12, <2>1
  <2> QED  BY <2>2 DEF MissingIsRedistributed, LiesBetweenItsParts
<1>15. CapsHold
  BY <1>1, <1>2, <1>11, <1>12, CeilingsCap DEF CapsHold
<1>16. EngagementReconciles
  <2> SUFFICES ASSUME NEW one_off \in OneOffs
               PROVE  LET sums == engagement(data, one_off)
                          term == duration(data)
                          spread == one_off_monthly(one_off, term) * term
                      IN  /\ \A v \in sums.contract_value, p \in sums.total_profit,
                                k \in sums.monthly_cost : v = p + k * term
                          /\ 2 * (spread - one_off) \in -term .. term
    BY <1>1 DEF EngagementReconciles
  <2>1. engagement(data, one_off) = calculate(offer, cost, duration(data), one_off)
    BY <1>2, <1>5 DEF engagement
  <2>2. one_off \in Nat
    BY ScoringInputs
  <2> QED  BY <1>3, <1>4, <1>6, <2>1, <2>2, FiguresReconcile
<1> QED  BY <1>14, <1>15, <1>16 DEF ScoreHolds

\* Every request leaves such rows.
LEMMA ScoreInvStays == ScoreInv /\ [ScoringNext]_worth => ScoreInv'
<1> SUFFICES ASSUME ScoreInv, [ScoringNext]_worth PROVE ScoreInv'
  OBVIOUS
<1>1. CASE EditRequirement
  BY <1>1 DEF EditRequirement, ScoreInv
<1>2. CASE CloseOrReopen
  BY <1>2 DEF CloseOrReopen, ScoreInv
<1>3. CASE RunMatching
  BY <1>3 DEF RunMatching, ScoreInv
<1>4. CASE DeadlinePasses
  BY <1>4 DEF DeadlinePasses, ScoreInv
<1>5. ASSUME NEW f \in Flags, EditAccount(f) PROVE ScoreInv'
  BY <1>5 DEF EditAccount, ScoreInv
<1>6. ASSUME NEW some \in { "none", "some", "decider" }, EditContacts(some)
      PROVE  ScoreInv'
  BY <1>6 DEF EditContacts, ScoreInv
<1>7. CASE UNCHANGED worth
  BY <1>7 DEF worth, ScoreInv
<1> QED  BY <1>1, <1>2, <1>3, <1>4, <1>5, <1>6, <1>7 DEF ScoringNext

\* Rows as they may be, and rows that are no worse than others.
GoodRows(data) ==
  /\ data.open \in BOOLEAN
  /\ data.offer \in SUBSET Prices /\ AtMostOne(data.offer)
  /\ data.best \in SUBSET Candidates /\ AtMostOne(data.best)
  /\ duration(data) \in Nat \ { 0 }

\* NoWorse, of any two sets of rows.
Better(data, data2) ==
  /\ \A f \in Flags : NoMore(fact(data, f), fact(data2, f))
  /\ NoMore(has_decision_maker(data), has_decision_maker(data2))
  /\ data.open => data2.open
  /\ data2.deadline = "past" => data.deadline = "past"
  /\ \A o \in data.offer : \E n \in data2.offer :
       n.unit = o.unit /\ n.currency = o.currency /\ o.amount <= n.amount
  /\ \A b \in data.best : \E n \in data2.best :
       /\ n.cost = b.cost /\ n.work_auth_expired = b.work_auth_expired
       /\ b.match <= n.match
  /\ duration(data) <= duration(data2)

\* The units of a rate.
Units == { "HOURLY", "DAILY", "MONTHLY", "ANNUAL" }

\* The amount a month rises with the rate.
LEMMA MonthlyRises ==
  ASSUME NEW v \in Int, NEW w \in Int, v <= w,
         NEW unit \in Units
  PROVE  /\ to_monthly(v, unit) \in Int /\ to_monthly(w, unit) \in Int
         /\ to_monthly(v, unit) <= to_monthly(w, unit)
         /\ v >= 0 => to_monthly(v, unit) >= 0
<1>1. 12 \in Nat \ { 0 }
  OBVIOUS
<1>2. half_up(v, 12) \in Int /\ half_up(w, 12) \in Int /\ half_up(v, 12) <= half_up(w, 12)
  BY <1>1, UpErrsByAHalf, RoundingRises
<1>3. v >= 0 => half_up(v, 12) >= 0
  BY <1>1, UpErrsByAHalf
<1> QED  BY <1>2, <1>3 DEF to_monthly, Units

\* What a factor says of a fact that gets no worse.
LEMMA ResolveRises ==
  ASSUME NEW old, NEW new, NoMore(old, new)
  PROVE  /\ resolve(old) = "MET" => resolve(new) = "MET"
         /\ resolve(old) \in Answered => resolve(new) \in Answered
         /\ resolve(old) \in { "UNKNOWN", "MET", "NOT_MET" }
         /\ old = { TRUE } => new = { TRUE }
  BY DEF NoMore, resolve, Answered

\* No factor leaves MET, nor what is answered.
LEMMA FactorsRise ==
  ASSUME NEW data, NEW data2, GoodRows(data), GoodRows(data2), Better(data, data2)
  PROVE  \A f \in DOMAIN Points :
           /\ factors(data)[f] = "MET" => factors(data2)[f] = "MET"
           /\ factors(data)[f] \in Answered => factors(data2)[f] \in Answered
<1> DEFINE up(f) ==
      /\ factors(data)[f] = "MET" => factors(data2)[f] = "MET"
      /\ factors(data)[f] \in Answered => factors(data2)[f] \in Answered
<1>1. \A f \in Flags : NoMore(fact(data, f), fact(data2, f))
  BY DEF Better
<1>2. up("outsourcing_friendly") /\ up("existing_customer") /\ up("approved_vendor")
  BY <1>1, ResolveRises DEF Flags, factors
<1>3. up("partner_route")
  <2>1. PICK route, route2 : /\ route = fact(data, "route") /\ route2 = fact(data2, "route")
                             /\ NoMore(route, route2)
    BY <1>1 DEF Flags
  <2>2. PICK customer, customer2 :
          /\ customer = fact(data, "customer") /\ customer2 = fact(data2, "customer")
          /\ NoMore(customer, customer2)
    BY <1>1 DEF Flags
  <2>3. /\ factors(data)["partner_route"] =
             IF route # { TRUE } /\ customer = { TRUE } THEN "NOT_APPLICABLE"
             ELSE resolve(route)
        /\ factors(data2)["partner_route"] =
             IF route2 # { TRUE } /\ customer2 = { TRUE } THEN "NOT_APPLICABLE"
             ELSE resolve(route2)
    BY <2>1, <2>2 DEF factors
  <2> QED  BY <2>1, <2>2, <2>3 DEF NoMore, resolve, Answered
<1>4. up("decision_maker")
  BY ResolveRises DEF Better, factors
<1>5. up("requirement_active")
  <2>1. NoMore({ data.open }, { data2.open })
    BY DEF NoMore, Better, GoodRows
  <2> QED  BY <2>1, ResolveRises DEF factors
<1>6. up("can_submit")
  <2>1. NoMore({ data.deadline # "past" }, { data2.deadline # "past" })
    BY DEF NoMore, Better
  <2> QED  BY <2>1, ResolveRises DEF factors
<1>7. up("viable_rate")
  <2> DEFINE viable(d) == { r >= rate_floor_monthly : r \in monthly_rate(d) }
  <2>1. NoMore(viable(data), viable(data2))
    <3>1. CASE data.offer = {}
      BY <3>1 DEF NoMore, monthly_rate
    <3>2. CASE data.offer # {}
      <4>1. PICK o \in data.offer : data.offer = { o }
        BY <3>2 DEF GoodRows, AtMostOne
      <4>2. PICK n \in data2.offer :
              n.unit = o.unit /\ n.currency = o.currency /\ o.amount <= n.amount
        BY DEF Better
      <4>3. data2.offer = { n }
        BY DEF GoodRows, AtMostOne
      <4>4. /\ o.amount \in Int /\ n.amount \in Int
            /\ o.unit \in Units
        BY DEF GoodRows, Prices, Units
      <4>5. PICK r \in Int : r = to_monthly(o.amount, o.unit)
        BY <4>2, <4>4, MonthlyRises
      <4>6. PICK r2 \in Int : r2 = to_monthly(n.amount, n.unit)
        BY <4>2, <4>4, MonthlyRises
      <4>7. r <= r2
        BY <4>2, <4>4, <4>5, <4>6, MonthlyRises
      <4>8. monthly_rate(data) = { r } /\ monthly_rate(data2) = { r2 }
        BY <4>1, <4>3, <4>5, <4>6 DEF monthly_rate
      <4>9. PICK v : v = (r >= rate_floor_monthly)
        OBVIOUS
      <4>10. PICK v2 : v2 = (r2 >= rate_floor_monthly)
        OBVIOUS
      <4>11. viable(data) = { v } /\ viable(data2) = { v2 }
        BY <4>8, <4>9, <4>10, Zenon
      <4>12. rate_floor_monthly \in Int
        BY SMT DEF rate_floor_monthly
      <4>13. CASE r >= rate_floor_monthly
        <5>1. r2 >= rate_floor_monthly
          BY <4>7, <4>12, <4>13
        <5>2. (r >= rate_floor_monthly) = TRUE /\ (r2 >= rate_floor_monthly) = TRUE
          BY <4>12, <4>13, <5>1, SMT
        <5>3. v = TRUE /\ v2 = TRUE
          BY <4>9, <4>10, <5>2, Zenon
        <5> HIDE DEF viable
        <5> QED  BY <4>11, <5>3 DEF NoMore
      <4>14. CASE ~ (r >= rate_floor_monthly)
        <5>1. (r >= rate_floor_monthly) = FALSE
          BY <4>12, <4>14, SMT
        <5>2. (r2 >= rate_floor_monthly) = TRUE \/ (r2 >= rate_floor_monthly) = FALSE
          BY <4>12, SMT
        <5>3. v = FALSE /\ (v2 = TRUE \/ v2 = FALSE)
          BY <4>9, <4>10, <5>1, <5>2, Zenon
        <5> HIDE DEF viable
        <5> QED  BY <4>11, <5>3 DEF NoMore
      <4> QED  BY <4>13, <4>14
    <3> QED  BY <3>1, <3>2
  <2>2. /\ factors(data)["viable_rate"] = resolve(viable(data))
        /\ factors(data2)["viable_rate"] = resolve(viable(data2))
    BY DEF factors
  <2> HIDE DEF viable
  <2> QED  BY <2>1, <2>2, ResolveRises
<1>8. DOMAIN Points =
        { "outsourcing_friendly", "existing_customer", "partner_route", "approved_vendor",
          "decision_maker", "requirement_active", "can_submit", "viable_rate" }
  BY DEF Points
<1> HIDE DEF up
<1>9. \A f \in DOMAIN Points : up(f)
  BY <1>2, <1>3, <1>4, <1>5, <1>6, <1>7, <1>8
<1> QED  BY <1>9 DEF up

\* A better rate, in the same currency and unit, is better by the month.
LEMMA RateRises ==
  ASSUME NEW o \in Prices, NEW n \in Prices, n.unit = o.unit, n.currency = o.currency,
         o.amount <= n.amount, monthly({ o }) # {}
  PROVE  \E r \in Nat, r2 \in Nat :
           r <= r2 /\ monthly({ o }) = { r } /\ monthly({ n }) = { r2 }
<1>1. /\ o.amount \in Nat /\ n.amount \in Nat
      /\ o.unit \in Units
  BY DEF Prices, Units
<1>2. /\ monthly({ o }) = { to_monthly(a, o.unit) : a \in convert(o) }
      /\ monthly({ n }) = { to_monthly(a, o.unit) : a \in convert(n) }
  BY DEF monthly
<1>3. \E a \in Nat, b \in Nat : a <= b /\ convert(o) = { a } /\ convert(n) = { b }
  <2>1. CASE o.currency = "QAR"
    BY <1>1, <2>1 DEF convert
  <2>2. CASE o.currency # "QAR"
    <3>1. o.currency \in DOMAIN CURRENCY_RATES
      BY <1>2, <2>2 DEF convert
    <3>2. PICK rate_of \in Nat : rate_of = CURRENCY_RATES[o.currency]
      BY <3>1 DEF CURRENCY_RATES
    <3>3. PICK x \in Nat : x = o.amount * rate_of
      BY <1>1
    <3>4. PICK y \in Nat : y = n.amount * rate_of
      BY <1>1
    <3>5. x <= y
      BY <1>1, <3>3, <3>4
    <3>6. 1000 \in Nat \ { 0 }
      OBVIOUS
    <3>7. /\ half_up(x, 1000) \in Int /\ half_up(x, 1000) >= 0
          /\ half_up(y, 1000) \in Int /\ half_up(y, 1000) >= 0
          /\ half_up(x, 1000) <= half_up(y, 1000)
      <4>1. x \in Int /\ y \in Int /\ x >= 0 /\ y >= 0
        OBVIOUS
      <4> QED  BY <3>5, <3>6, <4>1, UpErrsByAHalf, RoundingRises
    <3>8. /\ convert(o) = { half_up(x, 1000) }
          /\ convert(n) = { half_up(y, 1000) }
      BY <2>2, <3>1, <3>2, <3>3, <3>4 DEF convert
    <3> QED  BY <3>7, <3>8
  <2> QED  BY <2>1, <2>2
<1>4. PICK a \in Nat, b \in Nat : a <= b /\ convert(o) = { a } /\ convert(n) = { b }
  BY <1>3
<1>5. /\ to_monthly(a, o.unit) \in Int /\ to_monthly(b, o.unit) \in Int
      /\ to_monthly(a, o.unit) <= to_monthly(b, o.unit)
      /\ to_monthly(a, o.unit) >= 0
  <2>1. a \in Int /\ b \in Int /\ a >= 0
    BY <1>4
  <2> QED  BY <1>1, <1>4, <2>1, MonthlyRises
<1> QED  BY <1>2, <1>4, <1>5

\* The figures of the same consultant at a better rate, for as long or longer.
FiguresAre(figures, r, c, term) ==
  /\ figures.monthly_revenue = { r }
  /\ figures.contract_value = { r * term }
  /\ figures.margin = { margin_percent(r, r - c) }

\* Nothing spread over the months is nothing a month.
LEMMA NoOneOff ==
  ASSUME NEW term \in Nat \ { 0 }
  PROVE  one_off_monthly(0, term) = 0
<1>1. PICK h \in Int : h = half_up(0, term) /\ 2 * (h * term - 0) \in -term .. term
  <2>1. 0 \in Int
    OBVIOUS
  <2>2. /\ half_up(0, term) \in Int
        /\ 2 * (half_up(0, term) * term - 0) \in -term .. term
    BY <2>1, UpErrsByAHalf
  <2> QED  BY <2>2
<1>2. PICK x \in Int : x = term * h
  OBVIOUS
<1>3. 2 * x <= term /\ -term <= 2 * x
  BY <1>1, <1>2
<1>4. h < 1
  <2>1. term * h < term * 1
    BY <1>2, <1>3
  <2> QED  BY <2>1, Multiples
<1>5. -1 < h
  <2>1. term * (-1) < term * h
    BY <1>2, <1>3
  <2> QED  BY <2>1, Multiples
<1> QED  BY <1>1, <1>4, <1>5 DEF one_off_monthly

\* The cost of the consultant who matches best, by the month.
spent_on(data) == monthly(UNION { b.cost : b \in data.best })

\* The figures of a revenue and a cost that may be missing.
FiguresOf(figures, revenue, spent, term) ==
  /\ figures.monthly_revenue = revenue
  /\ figures.contract_value = { r * term : r \in revenue }
  /\ figures.margin = { margin_percent(r, r - c) : r \in revenue, c \in spent }

\* The figures the score is computed from.
LEMMA EngagementFigures ==
  ASSUME NEW data, GoodRows(data)
  PROVE  FiguresOf(engagement(data, 0), monthly(data.offer),
                   { c + 0 : c \in spent_on(data) }, duration(data))
<1>1. one_off_monthly(0, duration(data)) = 0
  BY NoOneOff DEF GoodRows
<1>2. engagement(data, 0) =
        calculate(data.offer, UNION { b.cost : b \in data.best }, duration(data), 0)
  BY DEF engagement
<1> QED  BY <1>1, <1>2 DEF calculate, FiguresOf, spent_on

\* With both known there is one of each figure.
LEMMA OneOfEach ==
  ASSUME NEW figures, NEW r, NEW c, NEW term, FiguresOf(figures, { r }, { c }, term)
  PROVE  FiguresAre(figures, r, c, term)
  BY DEF FiguresOf, FiguresAre

\* A margin that was known stays known, at the same cost and no lower a revenue.
LEMMA FiguresRise ==
  ASSUME NEW data, NEW data2, GoodRows(data), GoodRows(data2), Better(data, data2),
         engagement(data, 0).margin # {}
  PROVE  \E r \in Nat, r2 \in Nat, c \in Nat :
           /\ r <= r2
           /\ FiguresAre(engagement(data, 0), r, c, duration(data))
           /\ FiguresAre(engagement(data2, 0), r2, c, duration(data2))
<1>1. /\ FiguresOf(engagement(data, 0), monthly(data.offer),
                   { c + 0 : c \in spent_on(data) }, duration(data))
      /\ FiguresOf(engagement(data2, 0), monthly(data2.offer),
                   { c + 0 : c \in spent_on(data2) }, duration(data2))
  BY EngagementFigures
<1>2. monthly(data.offer) # {} /\ spent_on(data) # {}
  BY <1>1 DEF FiguresOf
<1>3. PICK o \in data.offer : data.offer = { o }
  <2>1. data.offer # {}
    BY <1>2 DEF monthly
  <2> QED  BY <2>1 DEF GoodRows, AtMostOne
<1>4. PICK n \in data2.offer : n.unit = o.unit /\ n.currency = o.currency /\ o.amount <= n.amount
  BY DEF Better
<1>5. data2.offer = { n } /\ o \in Prices /\ n \in Prices
  BY DEF GoodRows, AtMostOne
<1>6. PICK r \in Nat, r2 \in Nat :
        r <= r2 /\ monthly(data.offer) = { r } /\ monthly(data2.offer) = { r2 }
  <2>1. monthly({ o }) # {}
    BY <1>2, <1>3
  <2>2. \E r \in Nat, r2 \in Nat :
          r <= r2 /\ monthly({ o }) = { r } /\ monthly({ n }) = { r2 }
    BY <1>4, <1>5, <2>1, RateRises
  <2> QED  BY <1>3, <1>5, <2>2
<1>7. PICK b \in data.best : data.best = { b }
  <2>1. data.best # {}
    BY <1>2 DEF monthly, spent_on
  <2> QED  BY <2>1 DEF GoodRows, AtMostOne
<1>8. PICK m \in data2.best : m.cost = b.cost
  BY DEF Better
<1>9. data2.best = { m } /\ b \in Candidates
  BY DEF GoodRows, AtMostOne
<1>10. spent_on(data) = monthly(b.cost) /\ spent_on(data2) = monthly(b.cost)
  BY <1>7, <1>8, <1>9 DEF spent_on
<1>11. PICK p \in Prices : b.cost = { p }
  <2>1. b.cost # {}
    BY <1>2, <1>10 DEF monthly
  <2>2. b.cost \in SUBSET Prices /\ \A p, q \in b.cost : p = q
    BY <1>9, ScoringInputs
  <2> QED  BY <2>1, <2>2
<1>12. PICK c \in Nat : monthly(b.cost) = { c }
  <2>1. p.amount <= p.amount
    BY DEF Prices
  <2> QED  BY <1>2, <1>10, <1>11, <2>1, RateRises
<1>13. { x + 0 : x \in { c } } = { c }
  OBVIOUS
<1>14. /\ FiguresAre(engagement(data, 0), r, c, duration(data))
       /\ FiguresAre(engagement(data2, 0), r2, c, duration(data2))
  <2>1. /\ FiguresOf(engagement(data, 0), { r }, { c }, duration(data))
        /\ FiguresOf(engagement(data2, 0), { r2 }, { c }, duration(data2))
    BY <1>1, <1>6, <1>10, <1>12, <1>13
  <2> QED  BY <2>1, OneOfEach
<1> QED  BY <1>6, <1>14

\* The commercial score rises with them, and a margin that is none does not come
\* back.
LEMMA WorthRises ==
  ASSUME NEW data, NEW data2, GoodRows(data), GoodRows(data2), Better(data, data2),
         NEW figures, figures = engagement(data, 0), figures.margin # {},
         NEW figures2, figures2 = engagement(data2, 0)
  PROVE  /\ \E p \in Nat, p2 \in Nat :
              /\ p <= p2
              /\ score_commercial(figures, duration(data)) = { p }
              /\ score_commercial(figures2, duration(data2)) = { p2 }
         /\ (\E m \in figures2.margin : m <= 0) => \E m \in figures.margin : m <= 0
<1>1. PICK r \in Nat, r2 \in Nat, c \in Nat :
        /\ r <= r2
        /\ FiguresAre(figures, r, c, duration(data))
        /\ FiguresAre(figures2, r2, c, duration(data2))
  BY FiguresRise
<1>2. PICK term \in Nat \ { 0 } : term = duration(data)
  BY DEF GoodRows
<1>3. PICK term2 \in Nat \ { 0 } : term2 = duration(data2)
  BY DEF GoodRows
<1>4. term <= term2
  BY <1>2, <1>3 DEF Better
<1>5. PICK v \in Nat : v = r * term
  OBVIOUS
<1>6. PICK v2 \in Nat : v2 = r2 * term2
  OBVIOUS
<1>7. v <= v2
  <2>1. term * r <= term * r2
    <3>1. ~ (term * r2 < term * r)
      BY <1>1, Multiples
    <3> QED  BY <3>1
  <2>2. r2 * term <= r2 * term2
    <3>1. CASE r2 = 0
      BY <3>1
    <3>2. CASE r2 # 0
      <4>1. ~ (r2 * term2 < r2 * term)
        BY <1>4, <3>2, Multiples
      <4> QED  BY <4>1
    <3> QED  BY <3>1, <3>2
  <2> QED  BY <1>5, <1>6, <2>1, <2>2
<1>8. PICK m \in Int : m = margin_percent(r, r - c)
  <2>1. CASE r = 0
    BY <2>1 DEF margin_percent
  <2>2. CASE r # 0
    BY <2>2, MarginGrows
  <2> QED  BY <2>1, <2>2
<1>9. PICK m2 \in Int : m2 = margin_percent(r2, r2 - c)
  <2>1. CASE r2 = 0
    BY <2>1 DEF margin_percent
  <2>2. CASE r2 # 0
    BY <2>2, MarginGrows
  <2> QED  BY <2>1, <2>2
<1>10. m <= m2 \/ m = 0
  <2>1. CASE r = 0
    BY <1>8, <2>1 DEF margin_percent
  <2>2. CASE r # 0
    BY <1>1, <1>8, <1>9, <2>2, MarginGrows
  <2> QED  BY <2>1, <2>2
<1>11. /\ band_points(m, margin_bands, 0) \in Nat
       /\ band_points(m2, margin_bands, 0) \in Nat
       /\ band_points(m, margin_bands, 0) <= band_points(m2, margin_bands, 0)
  <2>1. Rising(margin_bands, 0, 3500)
    BY SMT DEF Rising, margin_bands
  <2>2. CASE m <= m2
    BY <2>1, <2>2, PointsRise
  <2>3. CASE m = 0
    <3>1. band_points(m, margin_bands, 0) = 0
      BY <2>3, SMT DEF band_points, margin_bands
    <3>2. m2 <= m2
      OBVIOUS
    <3>3. band_points(m2, margin_bands, 0) \in Nat
      BY <2>1, <3>2, PointsRise
    <3> QED  BY <3>1, <3>3
  <2> QED  BY <1>10, <2>2, <2>3
<1>12. /\ band_points(v, value_bands, 5) \in Nat
       /\ band_points(v2, value_bands, 5) \in Nat
       /\ band_points(v, value_bands, 5) <= band_points(v2, value_bands, 5)
  <2>1. PICK largest : largest = 150000000
    BY SMT
  <2>2. Rising(value_bands, 5, largest)
    BY <2>1, SMT DEF Rising, value_bands
  <2>3. v \in Int /\ v2 \in Int
    OBVIOUS
  <2> QED  BY <1>7, <2>2, <2>3, PointsRise
<1>13. /\ band_points(term, duration_bands, 3) \in Nat
       /\ band_points(term2, duration_bands, 3) \in Nat
       /\ band_points(term, duration_bands, 3) <= band_points(term2, duration_bands, 3)
  <2>1. Rising(duration_bands, 3, 24)
    BY SMT DEF Rising, duration_bands
  <2>2. term \in Int /\ term2 \in Int
    OBVIOUS
  <2> QED  BY <1>4, <2>1, <2>2, PointsRise
<1>14. /\ figures.margin = { m } /\ figures.contract_value = { v }
       /\ figures2.margin = { m2 } /\ figures2.contract_value = { v2 }
  BY <1>1, <1>2, <1>3, <1>5, <1>6, <1>8, <1>9 DEF FiguresAre
<1>15. \E p \in Nat, p2 \in Nat :
         /\ p <= p2
         /\ score_commercial(figures, duration(data)) = { p }
         /\ score_commercial(figures2, duration(data2)) = { p2 }
  <2>1. PICK a \in Nat, b \in Nat, d \in Nat :
          /\ a = band_points(m, margin_bands, 0)
          /\ b = band_points(v, value_bands, 5)
          /\ d = band_points(term, duration_bands, 3)
    BY <1>11, <1>12, <1>13
  <2>2. PICK a2 \in Nat, b2 \in Nat, d2 \in Nat :
          /\ a2 = band_points(m2, margin_bands, 0)
          /\ b2 = band_points(v2, value_bands, 5)
          /\ d2 = band_points(term2, duration_bands, 3)
    BY <1>11, <1>12, <1>13
  <2>3. score_commercial(figures, duration(data)) = { a + b + d }
    BY <1>2, <1>14, <2>1 DEF score_commercial
  <2>4. score_commercial(figures2, duration(data2)) = { a2 + b2 + d2 }
    BY <1>3, <1>14, <2>2 DEF score_commercial
  <2>5. a + b + d <= a2 + b2 + d2
    BY <1>11, <1>12, <1>13, <2>1, <2>2
  <2> QED  BY <2>3, <2>4, <2>5
<1>16. m2 <= 0 => m <= 0
  BY <1>10
<1> QED  BY <1>14, <1>15, <1>16

\* With the same components known, the score rises with each of them.
LEMMA WeightedRises ==
  ASSUME NEW parts, NEW parts2, NEW known \in SUBSET DOMAIN weights,
         "addressability" \in known,
         NEW old, NEW new,
         \A k \in known : /\ old[k] \in Int /\ new[k] \in Int /\ old[k] <= new[k]
                          /\ parts[k] = { old[k] } /\ parts2[k] = { new[k] }
  PROVE  /\ weighted(parts, known) \in Int /\ weighted(parts2, known) \in Int
         /\ weighted(parts, known) <= weighted(parts2, known)
<1>1. /\ weights["talent_match"] = 40 /\ weights["addressability"] = 35
      /\ weights["commercial"] = 25
      /\ DOMAIN weights = { "talent_match", "addressability", "commercial" }
  BY DEF weights
<1>2. PICK W \in Nat \ { 0 } : W = known_weight(known)
  BY DEF known_weight, over, weights
<1> DEFINE c(p, k) == half_even((CHOOSE v \in p[k] : TRUE) * 100 * weights[k], W)
<1>3. ASSUME NEW k \in known
      PROVE  c(parts, k) \in Int /\ c(parts2, k) \in Int /\ c(parts, k) <= c(parts2, k)
  <2>1. (CHOOSE v \in parts[k] : TRUE) = old[k] /\ (CHOOSE v \in parts2[k] : TRUE) = new[k]
    OBVIOUS
  <2>2. PICK w \in Nat : w = weights[k]
    BY <1>1
  <2>3. PICK n \in Int : n = old[k] * 100 * w
    OBVIOUS
  <2>4. PICK n2 \in Int : n2 = new[k] * 100 * w
    OBVIOUS
  <2>5. n <= n2
    BY <1>1, <2>2, <2>3, <2>4
  <2>6. /\ half_even(n, W) \in Int /\ half_even(n2, W) \in Int
        /\ half_even(n, W) <= half_even(n2, W)
    BY <2>5, EvenErrsByAHalf, RoundingRises
  <2> QED  BY <2>1, <2>2, <2>3, <2>4, <2>6
<1> DEFINE sum(p) == over(known, c(p, "talent_match"), c(p, "addressability"),
                          c(p, "commercial"))
<1>4. sum(parts) \in Int /\ sum(parts2) \in Int /\ sum(parts) <= sum(parts2)
  <2> HIDE DEF c
  <2> QED  BY <1>3 DEF over
<1>5. weighted(parts, known) = half_even(sum(parts), 100)
        /\ weighted(parts2, known) = half_even(sum(parts2), 100)
  BY <1>2 DEF weighted
<1>6. /\ half_even(sum(parts), 100) \in Int /\ half_even(sum(parts2), 100) \in Int
      /\ half_even(sum(parts), 100) <= half_even(sum(parts2), 100)
  <2>1. 100 \in Nat \ { 0 }
    OBVIOUS
  <2> HIDE DEF sum
  <2> QED  BY <1>4, <2>1, EvenErrsByAHalf, RoundingRises
<1> QED  BY <1>5, <1>6

\* The band rises with the score, and with every ceiling that is lifted.
LEMMA BandRises ==
  ASSUME NEW uncapped \in 1 .. 4, NEW uncapped2 \in 1 .. 4, uncapped <= uncapped2,
         NEW codes \in SUBSET (1 .. 4), NEW codes2 \in SUBSET codes
  PROVE  apply_suppressors(uncapped, codes) <= apply_suppressors(uncapped2, codes2)
<1> DEFINE T(u, some) == { u } \cup { SUPPRESSORS[n] : n \in some }
<1>1. \A n \in codes : SUPPRESSORS[n] \in 1 .. 2
  BY DEF SUPPRESSORS, REVIEW, DEPRIORITIZE
<1>2. /\ T(uncapped, codes) \in SUBSET (1 .. 4) /\ T(uncapped, codes) # {}
      /\ T(uncapped2, codes2) \in SUBSET (1 .. 4) /\ T(uncapped2, codes2) # {}
  BY <1>1
<1>3. 1 \in Int /\ 4 \in Int
  OBVIOUS
<1>4. PICK low : low = Min(T(uncapped, codes))
  OBVIOUS
<1>5. PICK low2 : low2 = Min(T(uncapped2, codes2))
  OBVIOUS
<1>6. /\ low2 \in T(uncapped2, codes2) /\ low \in T(uncapped, codes)
      /\ \A v \in T(uncapped, codes) : low <= v
  <2> HIDE DEF T
  <2> QED  BY <1>2, <1>3, <1>4, <1>5, Extremes
<1>7. low \in 1 .. 4 /\ low2 \in 1 .. 4
  BY <1>2, <1>6
<1>8. uncapped \in T(uncapped, codes) /\ \A n \in codes : SUPPRESSORS[n] \in T(uncapped, codes)
  OBVIOUS
<1>9. low2 = uncapped2 \/ \E n \in codes2 : low2 = SUPPRESSORS[n]
  BY <1>6
<1>10. low <= low2
  <2> HIDE DEF T
  <2>1. CASE low2 = uncapped2
    <3>1. low <= uncapped
      BY <1>6, <1>8
    <3> QED  BY <1>7, <2>1, <3>1
  <2>2. CASE \E n \in codes2 : low2 = SUPPRESSORS[n]
    <3>1. low2 \in T(uncapped, codes)
      BY <1>8, <2>2
    <3> QED  BY <1>6, <3>1
  <2> QED  BY <1>9, <2>1, <2>2
<1> QED  BY <1>4, <1>5, <1>10 DEF apply_suppressors

\* What GoodNewsNeverHurts says of two results.
NotHurt(old, new) ==
  /\ \A v \in new.components.addressability, w \in old.components.addressability : v >= w
  /\ new.confidence >= old.confidence
  /\ new.known = old.known => new.score >= old.score /\ new.band >= old.band

\* Better rows are never scored lower.
LEMMA ScoreRises ==
  ASSUME NEW data, NEW data2, GoodRows(data), GoodRows(data2), Better(data, data2)
  PROVE  NotHurt(score_requirement(data), score_requirement(data2))
<1>1. PICK figures : figures = engagement(data, 0)
  OBVIOUS
<1>2. PICK figures2 : figures2 = engagement(data2, 0)
  OBVIOUS
<1>3. PICK match : match = talent_match(data)
  OBVIOUS
<1>4. PICK match2 : match2 = talent_match(data2)
  OBVIOUS
<1>5. PICK reach : reach = score_addressability(factors(data), match)
  OBVIOUS
<1>6. PICK reach2 : reach2 = score_addressability(factors(data2), match2)
  OBVIOUS
<1>7. PICK worthiness : worthiness = score_commercial(figures, duration(data))
  OBVIOUS
<1>8. PICK worthiness2 : worthiness2 = score_commercial(figures2, duration(data2))
  OBVIOUS
<1>9. PICK parts : parts = Parts(data, reach, worthiness)
  OBVIOUS
<1>10. PICK parts2 : parts2 = Parts(data2, reach2, worthiness2)
  OBVIOUS
<1>11. PICK old : old = compose(data, reach, figures, worthiness)
  OBVIOUS
<1>12. PICK new : new = compose(data2, reach2, figures2, worthiness2)
  OBVIOUS
<1>13. old = score_requirement(data) /\ new = score_requirement(data2)
  BY <1>1, <1>2, <1>3, <1>4, <1>5, <1>6, <1>7, <1>8, <1>11, <1>12 DEF score_requirement
<1>14. /\ old.components = parts /\ old.known = KnownOf(parts)
       /\ old.score = weighted(parts, KnownOf(parts))
       /\ old.codes = collected(data, reach, figures)
       /\ old.band = apply_suppressors(band_for(old.score), old.codes)
  BY <1>9, <1>11, Composed
<1>15. /\ new.components = parts2 /\ new.known = KnownOf(parts2)
       /\ new.score = weighted(parts2, KnownOf(parts2))
       /\ new.codes = collected(data2, reach2, figures2)
       /\ new.band = apply_suppressors(band_for(new.score), new.codes)
  BY <1>10, <1>12, Composed
<1>16. old.confidence = reach.confidence /\ new.confidence = reach2.confidence
  BY <1>11, <1>12 DEF compose
<1>17. /\ match = { b.match : b \in data.best }
       /\ match2 = { b.match : b \in data2.best }
       /\ \A b \in data.best \cup data2.best : b.match \in Int
  BY <1>3, <1>4, ScoringInputs DEF talent_match, GoodRows
<1>18. match \in SUBSET Int /\ match2 \in SUBSET Int
  BY <1>17
<1>19. Rises(match, match2)
  BY <1>17 DEF GoodRows, AtMostOne, Better, Rises
<1>20. reach.score <= reach2.score /\ reach.confidence <= reach2.confidence
  BY <1>5, <1>6, <1>18, <1>19, FactorsRise, AddressabilityRises
<1>21. reach.score \in 0 .. 100 /\ reach2.score \in 0 .. 100
  BY <1>5, <1>6, AddressabilityIsAScore
<1>22. /\ parts["talent_match"] = match /\ parts2["talent_match"] = match2
       /\ parts["addressability"] = { reach.score }
       /\ parts2["addressability"] = { reach2.score }
       /\ parts["commercial"] = worthiness /\ parts2["commercial"] = worthiness2
  BY <1>3, <1>4, <1>9, <1>10 DEF Parts
<1>23. DOMAIN weights = { "talent_match", "addressability", "commercial" }
  BY DEF weights
<1>24. reach.confidence \in Int /\ reach2.confidence \in Int
  <2>1. /\ reach.confidence = points_of(factors(data), { "MET", "NOT_MET", "NOT_APPLICABLE" })
        /\ reach2.confidence = points_of(factors(data2), { "MET", "NOT_MET", "NOT_APPLICABLE" })
    BY <1>5, <1>6 DEF score_addressability, answered
  <2>2. \A s, some : points_of(s, some) \in Int
    BY PointsAreAShare
  <2> QED  BY <2>1, <2>2
<1>25. ASSUME new.known = old.known
       PROVE  new.score >= old.score /\ new.band >= old.band
  <2>1. PICK known : known = KnownOf(parts) /\ known = KnownOf(parts2)
    BY <1>14, <1>15, <1>25
  <2>2. known \in SUBSET DOMAIN weights /\ "addressability" \in known
    BY <1>22, <1>23, <2>1 DEF KnownOf
  <2>3. figures2.margin # {} => figures.margin # {}
    <3>1. figures2.margin # {} => figures2.contract_value # {}
      <4>1. PICK revenue, spent, term : FiguresOf(figures2, revenue, spent, term)
        BY <1>2, EngagementFigures
      <4> QED  BY <4>1 DEF FiguresOf
    <3>2. ASSUME NEW m \in figures2.margin, NEW v \in figures2.contract_value
          PROVE  worthiness2 # {}
      BY <1>8 DEF score_commercial
    <3>3. worthiness # {} => figures.margin # {}
      BY <1>7 DEF score_commercial
    <3>4. worthiness2 # {} => worthiness # {}
      BY <1>22, <1>23, <2>1 DEF KnownOf
    <3> QED  BY <3>1, <3>2, <3>3, <3>4
  <2>4. ASSUME NEW k \in known
        PROVE  \E v \in Int, w \in Int : v <= w /\ parts[k] = { v } /\ parts2[k] = { w }
    <3>1. CASE k = "talent_match"
      <4>1. match # {}
        BY <1>22, <2>1, <2>4, <3>1 DEF KnownOf
      <4>2. PICK b \in data.best : data.best = { b }
        BY <1>17, <4>1 DEF GoodRows, AtMostOne
      <4>3. PICK n \in data2.best : b.match <= n.match
        BY DEF Better
      <4>4. data2.best = { n }
        BY DEF GoodRows, AtMostOne
      <4>5. match = { b.match } /\ match2 = { n.match }
        BY <1>17, <4>2, <4>4
      <4> QED  BY <1>17, <1>22, <3>1, <4>3, <4>5
    <3>2. CASE k = "addressability"
      <4>1. PICK v \in Int : v = reach.score
        BY <1>21
      <4>2. PICK w \in Int : w = reach2.score
        BY <1>21
      <4> QED  BY <1>20, <1>22, <3>2, <4>1, <4>2
    <3>3. CASE k = "commercial"
      <4>1. worthiness # {}
        BY <1>22, <2>1, <2>4, <3>3 DEF KnownOf
      <4>2. figures.margin # {}
        BY <1>7, <4>1 DEF score_commercial
      <4>3. PICK p \in Nat, p2 \in Nat :
              p <= p2 /\ worthiness = { p } /\ worthiness2 = { p2 }
        BY <1>1, <1>2, <1>7, <1>8, <4>2, WorthRises
      <4>4. p \in Int /\ p2 \in Int
        OBVIOUS
      <4> QED  BY <1>22, <3>3, <4>3, <4>4
    <3> QED  BY <1>23, <2>2, <3>1, <3>2, <3>3
  <2>5. PICK values : values = [ k \in DOMAIN weights |-> CHOOSE v \in parts[k] : TRUE ]
    OBVIOUS
  <2>6. PICK values2 : values2 = [ k \in DOMAIN weights |-> CHOOSE v \in parts2[k] : TRUE ]
    OBVIOUS
  <2>7. \A k \in known :
          /\ values[k] \in Int /\ values2[k] \in Int /\ values[k] <= values2[k]
          /\ parts[k] = { values[k] } /\ parts2[k] = { values2[k] }
    <3> SUFFICES ASSUME NEW k \in known
                 PROVE  /\ values[k] \in Int /\ values2[k] \in Int /\ values[k] <= values2[k]
                        /\ parts[k] = { values[k] } /\ parts2[k] = { values2[k] }
      OBVIOUS
    <3>1. PICK v \in Int, w \in Int : v <= w /\ parts[k] = { v } /\ parts2[k] = { w }
      BY <2>4
    <3>2. values[k] = v /\ values2[k] = w
      BY <2>2, <2>5, <2>6, <3>1
    <3> QED  BY <3>1, <3>2
  <2>8. old.score \in Int /\ new.score \in Int /\ old.score <= new.score
    <3>1. /\ weighted(parts, known) \in Int /\ weighted(parts2, known) \in Int
          /\ weighted(parts, known) <= weighted(parts2, known)
      BY <2>2, <2>7, WeightedRises
    <3> QED  BY <1>14, <1>15, <2>1, <3>1
  <2>9. new.codes \in SUBSET old.codes /\ old.codes \in SUBSET (1 .. 4)
    <3>1. reach2.score < 40 => reach.score < 40
      BY <1>20, <1>21
    <3>2. data2.deadline = "past" => data.deadline = "past"
      BY DEF Better
    <3>3. (\E b \in data2.best : b.work_auth_expired)
            => \E b \in data.best : b.work_auth_expired
      <4> SUFFICES ASSUME NEW n \in data2.best, n.work_auth_expired
                   PROVE  \E b \in data.best : b.work_auth_expired
        OBVIOUS
      <4>1. match2 # {}
        BY <1>17
      <4>2. match # {}
        BY <1>22, <1>23, <2>1, <4>1 DEF KnownOf
      <4>3. PICK b \in data.best : TRUE
        BY <1>17, <4>2
      <4>4. PICK n2 \in data2.best : n2.work_auth_expired = b.work_auth_expired
        BY <4>3 DEF Better
      <4>5. n2 = n
        BY DEF GoodRows, AtMostOne
      <4> QED  BY <4>4, <4>5
    <3>4. (\E m \in figures2.margin : m <= 0) => \E m \in figures.margin : m <= 0
      BY <1>1, <1>2, <2>3, WorthRises
    <3>5. ASSUME NEW n \in 1 .. 4, n \in new.codes PROVE n \in old.codes
      <4>1. n = 1 \/ n = 2 \/ n = 3 \/ n = 4
        OBVIOUS
      <4>2. CASE n = 1
        BY <1>14, <1>15, <3>1, <3>5, <4>2 DEF collected
      <4>3. CASE n = 2
        BY <1>14, <1>15, <3>2, <3>5, <4>3 DEF collected
      <4>4. CASE n = 3
        BY <1>14, <1>15, <3>3, <3>5, <4>4 DEF collected
      <4>5. CASE n = 4
        BY <1>14, <1>15, <3>4, <3>5, <4>5 DEF collected
      <4> QED  BY <4>1, <4>2, <4>3, <4>4, <4>5
    <3>6. new.codes \in SUBSET (1 .. 4) /\ old.codes \in SUBSET (1 .. 4)
      BY <1>14, <1>15 DEF collected
    <3> QED  BY <3>5, <3>6
  <2>10. /\ band_for(old.score) \in 1 .. 4 /\ band_for(new.score) \in 1 .. 4
         /\ band_for(old.score) <= band_for(new.score)
    BY <2>8 DEF band_for, PURSUE_NOW, PURSUE, REVIEW, DEPRIORITIZE
  <2>11. old.band <= new.band
    BY <1>14, <1>15, <2>9, <2>10, BandRises
  <2> QED  BY <2>8, <2>11
<1> QED  BY <1>13, <1>14, <1>15, <1>16, <1>20, <1>21, <1>22, <1>24, <1>25 DEF NotHurt

\* What no row loses or lowers in a step is what the lemmas call better.
LEMMA InvRows == ScoreInv => GoodRows(rows)
<1> SUFFICES ASSUME ScoreInv PROVE GoodRows(rows)
  OBVIOUS
<1>1. PICK data : data = rows
  OBVIOUS
<1>2. data.open = open /\ data.offer = offer /\ data.months = months /\ data.best = best
  BY <1>1 DEF rows
<1>3. duration(data) \in Nat \ { 0 }
  BY <1>2, ScoringInputs DEF duration, ScoreInv
<1>4. offer \in SUBSET Prices /\ AtMostOne(offer)
  BY ScoringInputs DEF ScoreInv, AtMostOne
<1>5. best \in SUBSET Candidates /\ AtMostOne(best)
  BY DEF ScoreInv, AtMostOne
<1> QED  BY <1>1, <1>2, <1>3, <1>4, <1>5 DEF GoodRows, ScoreInv

\* A step that takes nothing back leaves better rows.
LEMMA NoWorseIsBetter ==
  ASSUME ScoreInv, ScoreInv', NoWorse
  PROVE  Better(rows, rows')
<1>1. PICK data : data = rows
  OBVIOUS
<1>2. PICK data2 : data2 = rows'
  OBVIOUS
<1>3. /\ data.open = open /\ data.offer = offer /\ data.best = best
      /\ data.deadline = deadline
  BY <1>1 DEF rows
<1>4. /\ data2.open = open' /\ data2.offer = offer' /\ data2.best = best'
      /\ data2.deadline = deadline'
  BY <1>2 DEF rows
<1>5. ASSUME NEW o \in offer
      PROVE  \E n \in offer' : n.unit = o.unit /\ n.currency = o.currency /\ o.amount <= n.amount
  <2>1. PICK n \in offer' : [ n EXCEPT !.amount = o.amount ] = o /\ n.amount >= o.amount
    BY DEF NoWorse
  <2>2. o \in Prices /\ n \in Prices
    BY ScoringInputs DEF ScoreInv
  <2>3. /\ [ n EXCEPT !.amount = o.amount ].unit = n.unit
        /\ [ n EXCEPT !.amount = o.amount ].currency = n.currency
    BY <2>2 DEF Prices
  <2>4. o.amount <= n.amount
    BY <2>1, <2>2 DEF Prices
  <2> QED  BY <2>1, <2>3, <2>4
<1>6. ASSUME NEW b \in best
      PROVE  \E n \in best' : /\ n.cost = b.cost /\ n.work_auth_expired = b.work_auth_expired
                              /\ b.match <= n.match
  <2>1. PICK n \in best' : [ n EXCEPT !.match = b.match ] = b /\ n.match >= b.match
    BY DEF NoWorse
  <2>2. /\ b \in [ match : 0 .. 100, cost : SUBSET Prices, work_auth_expired : BOOLEAN ]
        /\ n \in [ match : 0 .. 100, cost : SUBSET Prices, work_auth_expired : BOOLEAN ]
    BY ScoringInputs DEF ScoreInv
  <2>3. /\ [ n EXCEPT !.match = b.match ].cost = n.cost
        /\ [ n EXCEPT !.match = b.match ].work_auth_expired = n.work_auth_expired
    BY <2>2
  <2>4. b.match <= n.match
    BY <2>1, <2>2
  <2> QED  BY <2>1, <2>3, <2>4
<1>7. duration(data) <= duration(data2)
  <2>1. GoodRows(rows) /\ GoodRows(rows)'
    BY InvRows, PTL
  <2>2. duration(data) \in Nat /\ duration(data2) \in Nat
    BY <1>1, <1>2, <2>1 DEF GoodRows
  <2> QED  BY <1>1, <1>2, <2>2 DEF NoWorse
<1>8. /\ \A f \in Flags : NoMore(fact(data, f), fact(data2, f))
      /\ NoMore(has_decision_maker(data), has_decision_maker(data2))
      /\ data.open => data2.open
      /\ data2.deadline = "past" => data.deadline = "past"
  BY <1>1, <1>2, <1>3, <1>4 DEF NoWorse
<1> QED  BY <1>1, <1>2, <1>3, <1>4, <1>5, <1>6, <1>7, <1>8 DEF Better

\* The opportunity score is what its parts say: it lies between the worst and
\* the best component that is known, its band below every ceiling that applies,
\* and the figures add up to the cent; for any rates, matches, durations and
\* one-off costs, and whatever of them is missing.
THEOREM ScoreIsItsParts == ScoringSpec => []ScoreHolds
<1>1. ScoringInit => ScoreInv
  BY DEF ScoringInit, ScoreInv
<1> QED  BY <1>1, ScoreInvStays, InvScores, PTL DEF ScoringSpec

\* Good news never hurts: when a step takes no fact back and lowers no figure,
\* neither addressability nor its confidence falls, and with the same components
\* known neither do the score and its band; for any offers, candidates and
\* durations.
THEOREM GoodNewsHelps == ScoringSpec => GoodNewsNeverHurts
<1> DEFINE A == NoWorse =>
        \A old \in { score_requirement(rows) }, new \in { score_requirement(rows') } :
            /\ \A v \in new.components.addressability, w \in old.components.addressability :
                 v >= w
            /\ new.confidence >= old.confidence
            /\ new.known = old.known => new.score >= old.score /\ new.band >= old.band
<1>1. ScoringInit => ScoreInv
  BY DEF ScoringInit, ScoreInv
<1>2. ScoreInv /\ ScoreInv' => A
  <2> SUFFICES ASSUME ScoreInv, ScoreInv', NoWorse
               PROVE  NotHurt(score_requirement(rows), score_requirement(rows'))
    BY DEF NotHurt
  <2>1. PICK data : data = rows
    OBVIOUS
  <2>2. PICK data2 : data2 = rows'
    OBVIOUS
  <2>3. GoodRows(rows) /\ GoodRows(rows)'
    BY InvRows, PTL
  <2>4. Better(data, data2)
    BY <2>1, <2>2, NoWorseIsBetter
  <2>5. GoodRows(data) /\ GoodRows(data2)
    BY <2>1, <2>2, <2>3
  <2>6. NotHurt(score_requirement(data), score_requirement(data2))
    BY <2>4, <2>5, ScoreRises
  <2> QED  BY <2>1, <2>2, <2>6
<1>3. ScoringSpec => [][A]_worth
  <2>1. ScoreInv /\ [ScoringNext]_worth => [A]_worth
    BY ScoreInvStays, <1>2
  <2> QED  BY <1>1, ScoreInvStays, <2>1, PTL DEF ScoringSpec
<1> QED  BY <1>3 DEF GoodNewsNeverHurts
=============================================================================
