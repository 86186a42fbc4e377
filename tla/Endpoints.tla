------------------------------ MODULE Endpoints ------------------------------
(***************************************************************************)
(* Who may call which endpoint and what the call writes: the permissions   *)
(* of app/core/permissions.py, the guards of app/core/deps.py and, router  *)
(* by router, the handlers of app/api/v1 with the tables their services    *)
(* write.  One user of the system calls; an administrator looks after the  *)
(* user's account.  What a handler does to the rows is in the other        *)
(* modules; here a table stands for itself and the rows that hang off it   *)
(* (skills, histories, files).                                             *)
(***************************************************************************)
EXTENDS FiniteSets

\* ScoringConfigKind: scoring rules are versioned per kind.
RuleKinds == { "MATCH_WEIGHTS", "ADDRESSABILITY_RULES", "COMMERCIAL_BANDS",
               "OPPORTUNITY_WEIGHTS" }

VARIABLES
  user,  \* the user's row: role, is_active, must_change_password
  token,    \* the role the user's access token claims, or "none"
  session,  \* whether the refresh token the user holds is good
  rules,    \* the kinds of scoring rules that have an active version
  answer    \* the call that was just answered, or Silence

calling == << user, token, session, rules, answer >>

(***************************************************************************)
(* Roles and permissions.                                                  *)
(***************************************************************************)
Role == { "ADMIN", "MANAGEMENT", "SALES", "HR_RESOURCING" }

\* What the three business roles may all do.
Shared ==
  { "role:read", "scoring_config:read", "account:read", "contact:read", "project:read",
    "activity:read", "requirement:read", "resource:read", "matching:read",
    "reverse_matching:read", "scoring:read", "opportunity:read", "submission:read",
    "interview:read", "communication:read", "deployment:read", "export:run",
    "notification:read" }

\* Mutant: the people who read the billing also confirm it.
Management_confirming ==
  Shared \cup { "user:read", "audit:view", "document:read", "billing:read",
                "dashboard:management", "billing:write" }

Management ==
  Shared \cup { "user:read", "audit:view", "document:read", "billing:read",
                "dashboard:management" }

Sales ==
  Shared \cup
  { "account:create", "account:update", "account:delete", "contact:write",
    "project:write", "activity:write", "requirement:create", "requirement:update",
    "requirement:delete", "jd:parse", "matching:run", "scoring:run", "commercial:run",
    "opportunity:write", "submission:write", "interview:write", "communication:write",
    "deployment:write", "billing:read", "billing:write", "dashboard:sales",
    "import:run" }

HrResourcing ==
  Shared \cup
  { "activity:write", "requirement:update", "jd:parse", "resource:create",
    "resource:update", "resource:delete", "cv:parse", "document:read",
    "document:write", "matching:run", "reverse_matching:run", "submission:write",
    "interview:write", "communication:write", "deployment:write", "dashboard:hr",
    "import:run" }

\* What is left to the administrator.
AdminOnly ==
  { "user:create", "user:update", "user:deactivate", "scoring_config:edit",
    "dashboard:admin" }

ALL_PERMISSIONS == Management \cup Sales \cup HrResourcing \cup AdminOnly

ROLE_PERMISSIONS(role) ==
  CASE role = "ADMIN" -> ALL_PERMISSIONS
    [] role = "MANAGEMENT" -> Management
    [] role = "SALES" -> Sales
    [] role = "HR_RESOURCING" -> HrResourcing

(***************************************************************************)
(* Handlers: whom they let in, the permissions they need, the tables they  *)
(* may write and the kinds of rules they load.                             *)
(***************************************************************************)
Handler(guard, needs, writes, loads) ==
  [ guard |-> guard, needs |-> needs, writes |-> writes, loads |-> loads ]

Look(permission) == Handler("active", { permission }, {}, {})

Do(permission, tables) == Handler("active", { permission }, tables, {})

Run(permission, tables, kinds) == Handler("active", { permission }, tables, kinds)

\* accounts.py: accounts, their routes and timeline.
accounts_router ==
  [ list_accounts    |-> Look("account:read"),
    create_account   |-> Do("account:create", { "accounts", "audit_logs" }),
    get_account      |-> Look("account:read"),
    update_account   |-> Do("account:update", { "accounts", "audit_logs" }),
    archive_account  |-> Do("account:delete", { "accounts", "audit_logs" }),
    list_routes      |-> Look("account:read"),
    add_route        |-> Do("account:update", { "routes", "audit_logs" }),
    remove_route     |-> Do("account:update", { "routes", "audit_logs" }),
    account_timeline |-> Look("activity:read") ]

contacts_router ==
  [ list_contacts  |-> Look("contact:read"),
    create_contact |-> Do("contact:write", { "contacts", "audit_logs" }),
    get_contact    |-> Look("contact:read"),
    update_contact |-> Do("contact:write", { "contacts", "audit_logs" }),
    delete_contact |-> Do("contact:write", { "contacts", "activities", "audit_logs" }) ]

projects_router ==
  [ list_projects     |-> Look("project:read"),
    create_project    |-> Do("project:write", { "projects", "audit_logs" }),
    get_project       |-> Look("project:read"),
    update_project    |-> Do("project:write", { "projects", "audit_logs" }),
    archive_project   |-> Do("project:write", { "projects", "audit_logs" }),
    list_technologies |-> Look("project:read") ]

activities_router ==
  [ list_activities    |-> Look("activity:read"),
    list_follow_ups    |-> Look("activity:read"),
    create_activity    |-> Do("activity:write", { "activities" }),
    update_activity    |-> Do("activity:write", { "activities" }),
    complete_follow_up |-> Do("activity:write", { "activities" }),
    delete_activity    |-> Do("activity:write", { "activities" }) ]

\* requirements.py: demand as it is captured and moved through its statuses.
requirements_router ==
  [ list_requirements   |-> Look("requirement:read"),
    deadline_board      |-> Look("requirement:read"),
    create_requirement  |-> Do("requirement:create", { "requirements", "skills", "audit_logs" }),
    get_requirement     |-> Look("requirement:read"),
    update_requirement  |-> Do("requirement:update", { "requirements", "skills", "audit_logs" }),
    archive_requirement |-> Do("requirement:delete", { "requirements", "audit_logs" }),
    change_status       |-> Do("requirement:update", { "requirements", "audit_logs" }) ]

\* requirements.py: job descriptions read by the parser and reviewed.
parsing_router ==
  [ requirement_history |-> Look("requirement:read"),
    parse_text     |-> Do("jd:parse", { "requirements", "skills", "audit_logs" }),
    parse_document |-> Do("jd:parse", { "requirements", "skills", "audit_logs" }),
    parse_result   |-> Look("requirement:read"),
    accept_parse   |-> Do("requirement:update", { "requirements", "skills", "audit_logs" }),
    reject_parse   |-> Do("requirement:update", { "requirements", "audit_logs" }),
    search_skills  |-> Look("requirement:read") ]

\* resources.py: consultants.
resources_router ==
  [ list_resources   |-> Look("resource:read"),
    list_available   |-> Look("resource:read"),
    list_bench       |-> Look("resource:read"),
    check_duplicate  |-> Look("resource:read"),
    create_resource  |-> Do("resource:create", { "resources", "skills", "audit_logs" }),
    get_resource     |-> Look("resource:read"),
    update_resource  |-> Do("resource:update", { "resources", "skills", "audit_logs" }),
    archive_resource |-> Do("resource:delete", { "resources", "audit_logs" }) ]

cv_router ==
  [ parse_cv        |-> Do("cv:parse", { "resources", "skills", "documents", "audit_logs" }),
    cv_parse_result |-> Look("resource:read"),
    accept_cv       |-> Do("resource:update", { "resources", "skills", "audit_logs" }) ]

\* A change to a document that authorises work changes the consultant's visa
\* status; a download is put on record.
documents_router ==
  [ list_documents     |-> Look("document:read"),
    upload_document    |-> Do("document:write", { "documents", "resources", "audit_logs" }),
    expiring_documents |-> Look("document:read"),
    update_document    |-> Do("document:write", { "documents", "resources", "audit_logs" }),
    delete_document    |-> Do("document:write", { "documents", "resources", "audit_logs" }),
    download_document  |-> Do("document:read", { "audit_logs" }) ]

matching_router ==
  [ run_matching |-> Run("matching:run", { "matches", "audit_logs" }, { "MATCH_WEIGHTS" }),
    get_matches  |-> Look("matching:read"),
    get_match    |-> Look("matching:read") ]

scoring_configurations_router ==
  [ list_configurations    |-> Look("scoring_config:read"),
    create_configuration   |->
      Do("scoring_config:edit", { "scoring_configurations", "audit_logs" }),
    activate_configuration |->
      Do("scoring_config:edit", { "scoring_configurations", "audit_logs" }) ]

reverse_matching_router ==
  [ run_reverse_matching |->
      Run("reverse_matching:run", { "matches", "audit_logs" }, { "MATCH_WEIGHTS" }),
    get_reverse_matches  |-> Look("reverse_matching:read"),
    bench_radar          |-> Look("reverse_matching:read"),
    run_bench_sweep      |->
      Run("reverse_matching:run", { "matches", "notifications", "audit_logs" },
          { "MATCH_WEIGHTS" }) ]

\* A score is computed with the rules of every kind.  explain computes one when
\* none is stored and keeps it to itself; simulate recomputes what is stored, so
\* that the rules it loads are there.
scoring_router ==
  [ recompute          |-> Run("scoring:run", { "scores", "audit_logs" }, RuleKinds),
    explain            |-> Run("scoring:read", {}, RuleKinds),
    history            |-> Look("scoring:read"),
    ranked             |-> Look("scoring:read"),
    commercial_preview |-> Run("commercial:run", {}, { "COMMERCIAL_BANDS" }),
    simulate           |-> Look("scoring_config:edit") ]

\* pipeline.py: opportunities.  Opening one links the scores of its requirement.
opportunities_router ==
  [ stages             |-> Look("opportunity:read"),
    board              |-> Look("opportunity:read"),
    open_opportunity   |->
      Do("opportunity:write", { "opportunities", "scores", "audit_logs" }),
    get_opportunity    |-> Look("opportunity:read"),
    update_opportunity |-> Do("opportunity:write", { "opportunities" }),
    change_stage       |-> Do("opportunity:write", { "opportunities", "audit_logs" }),
    record_decision    |-> Do("opportunity:write", { "opportunities", "audit_logs" }),
    stage_history      |-> Look("opportunity:read") ]

\* A submission opens the opportunity it belongs to, and moves it along.
submissions_router ==
  [ check_duplicate          |-> Look("submission:read"),
    list_submissions         |-> Look("submission:read"),
    create_submission        |->
      Do("submission:write", { "submissions", "opportunities", "scores", "audit_logs" }),
    get_submission           |-> Look("submission:read"),
    change_submission_status |->
      Do("submission:write", { "submissions", "opportunities", "audit_logs" }),
    submission_history       |-> Look("submission:read") ]

\* Scheduling moves the submission and raises a reminder; a pass moves it too.
interviews_router ==
  [ upcoming_interviews      |-> Look("interview:read"),
    schedule_interview       |->
      Do("interview:write", { "interviews", "submissions", "opportunities",
                              "notifications", "audit_logs" }),
    record_interview_outcome |->
      Do("interview:write", { "interviews", "submissions", "opportunities", "audit_logs" }) ]

communications_router ==
  [ timeline          |-> Look("communication:read"),
    log_communication |-> Do("communication:write", { "communications" }) ]

\* delivery.py: deployments keep the availability of their consultant in step,
\* and an end cancels the projections after it.
deployments_router ==
  [ ending_soon       |-> Look("deployment:read"),
    list_deployments  |-> Look("deployment:read"),
    create_deployment |->
      Do("deployment:write", { "deployments", "resources", "audit_logs" }),
    get_deployment    |-> Look("deployment:read"),
    update_deployment |-> Do("deployment:write", { "deployments" }),
    end_deployment    |->
      Do("deployment:write", { "deployments", "resources", "billing_records", "audit_logs" }),
    extend_deployment |->
      Do("deployment:write", { "deployments", "resources", "audit_logs" }) ]

billing_router ==
  [ list_billing_records   |-> Look("billing:read"),
    create_billing_record  |-> Do("billing:write", { "billing_records", "audit_logs" }),
    update_billing_record  |-> Do("billing:write", { "billing_records", "audit_logs" }),
    generate_projections   |-> Do("billing:write", { "billing_records" }),
    confirm_billing_record |-> Do("billing:write", { "billing_records", "audit_logs" }),
    billing_summary        |-> Look("billing:read"),
    monthly_revenue        |-> Look("billing:read") ]

dashboard_router ==
  [ funnel               |-> Look("opportunity:read"),
    management_dashboard |-> Look("dashboard:management"),
    sales_dashboard      |-> Look("dashboard:sales"),
    hr_dashboard         |-> Look("dashboard:hr"),
    admin_dashboard      |-> Look("dashboard:admin") ]

\* platform.py: the user's own inbox, and the sweeps that fill everybody's.
notifications_router ==
  [ inbox         |-> Look("notification:read"),
    unread_count  |-> Look("notification:read"),
    mark_read     |-> Do("notification:read", { "own_inbox" }),
    mark_all_read |-> Do("notification:read", { "own_inbox" }),
    run_sweeps    |-> Do("user:create", { "notifications" }) ]

\* A commit creates what its workbook holds, whatever the importer may create
\* otherwise.
imports_router ==
  [ importable_entities |-> Look("import:run"),
    import_template     |-> Look("import:run"),
    upload              |-> Do("import:run", { "imports", "audit_logs" }),
    list_batches        |-> Look("import:run"),
    preview             |-> Look("import:run"),
    commit              |->
      Do("import:run", { "imports", "accounts", "contacts", "projects", "requirements",
                         "resources", "skills", "audit_logs" }),
    discard             |-> Do("import:run", { "imports" }),
    error_report        |-> Look("import:run") ]

exports_router == [ export |-> Do("export:run", { "audit_logs" }) ]

users_router ==
  [ list_users      |-> Look("user:read"),
    create_user     |-> Do("user:create", { "users", "audit_logs" }),
    get_user        |-> Look("user:read"),
    update_user     |-> Do("user:update", { "users", "audit_logs" }),
    deactivate_user |-> Do("user:deactivate", { "users", "audit_logs" }),
    reset_password  |-> Do("user:update", { "users", "audit_logs" }),
    my_profile      |-> Handler("active", {}, {}, {}) ]

\* auth.py: the user's own sessions and password.
auth_router ==
  [ login           |-> Handler("anyone", {}, { "own_account", "audit_logs" }, {}),
    refresh         |-> Handler("anyone", {}, { "own_account", "audit_logs" }, {}),
    logout          |-> Handler("anyone", {}, { "own_account", "audit_logs" }, {}),
    me              |-> Handler("current", {}, {}, {}),
    change_password |-> Handler("current", {}, { "own_account", "audit_logs" }, {}) ]

audit_router ==
  [ list_audit_logs |-> Look("audit:view"), list_actions |-> Look("audit:view") ]

roles_router == [ list_roles |-> Look("role:read") ]

\* router.py.
api ==
  [ accounts |-> accounts_router, contacts |-> contacts_router,
    projects |-> projects_router, activities |-> activities_router,
    requirements |-> requirements_router, parsing |-> parsing_router,
    resources |-> resources_router, cvs |-> cv_router, documents |-> documents_router,
    matching |-> matching_router, configurations |-> scoring_configurations_router,
    reverse_matching |-> reverse_matching_router, scoring |-> scoring_router,
    opportunities |-> opportunities_router, submissions |-> submissions_router,
    interviews |-> interviews_router, communications |-> communications_router,
    deployments |-> deployments_router, billing |-> billing_router,
    dashboards |-> dashboard_router, notifications |-> notifications_router,
    imports |-> imports_router, exports |-> exports_router, users |-> users_router,
    auth |-> auth_router, audit |-> audit_router, roles |-> roles_router ]

(***************************************************************************)
(* The guards.                                                             *)
(***************************************************************************)
Silence == [ router |-> "none", endpoint |-> "none", role |-> "none", changed |-> {} ]

\* The user the token names: active, and in the role the token was given for.
get_current_user == token # "none" /\ user.is_active /\ token = user.role

\* Mutant: the forced change of password is left to the screens.
get_current_active_user_trusting == get_current_user

get_current_active_user == get_current_user /\ ~ user.must_change_password

require(needs) == needs \subseteq ROLE_PERMISSIONS(user.role)

admits(handler) ==
  CASE handler.guard = "anyone" -> TRUE
    [] handler.guard = "current" -> get_current_user
    [] handler.guard = "active" -> get_current_active_user /\ require(handler.needs)

(***************************************************************************)
(* Calls.                                                                  *)
(***************************************************************************)
\* Rules of a kind that has no active version are made from the defaults when
\* they are loaded.
seeds(handler) == handler.loads \ rules

written(handler) ==
  handler.writes \cup IF seeds(handler) = {} THEN {} ELSE { "scoring_configurations" }

Answer(router, endpoint) ==
  answer' = [ router |-> router, endpoint |-> endpoint, role |-> user.role,
              changed |-> written(api[router][endpoint]) ]

\* A request to any endpoint but those of auth.py that is let in and succeeds.
Call(router, endpoint) ==
  /\ answer = Silence /\ router # "auth"
  /\ admits(api[router][endpoint])
  /\ Answer(router, endpoint)
  /\ \/ router # "configurations" /\ rules' = rules \cup seeds(api[router][endpoint])
     \/ router = "configurations"
        /\ IF api[router][endpoint].writes = {} THEN UNCHANGED rules
           ELSE \E kind \in RuleKinds : rules' = rules \cup { kind }
  /\ UNCHANGED << user, token, session >>

\* POST /auth/login, or POST /auth/refresh with a refresh token that is good: an
\* access token for the role of the moment.
SignIn(endpoint) ==
  /\ answer = Silence /\ admits(api.auth[endpoint])
  /\ user.is_active /\ (endpoint = "refresh" => session)
  /\ token' = user.role /\ session' = TRUE
  /\ Answer("auth", endpoint) /\ UNCHANGED << user, rules >>

\* POST /auth/logout; the client forgets its tokens.
logout ==
  /\ answer = Silence /\ admits(api.auth.logout)
  /\ token' = "none" /\ session' = FALSE
  /\ Answer("auth", "logout") /\ UNCHANGED << user, rules >>

\* GET /auth/me.
me ==
  /\ answer = Silence /\ admits(api.auth.me)
  /\ Answer("auth", "me") /\ UNCHANGED << user, token, session, rules >>

\* POST /auth/change-password: the access token outlives the refresh tokens.
change_password ==
  /\ answer = Silence /\ admits(api.auth.change_password)
  /\ user' = [ user EXCEPT !.must_change_password = FALSE ]
  /\ session' = FALSE
  /\ Answer("auth", "change_password") /\ UNCHANGED << token, rules >>

\* The answer has been read.
Return ==
  /\ answer # Silence /\ answer' = Silence
  /\ UNCHANGED << user, token, session, rules >>

\* The access token runs out.
TokenExpires ==
  /\ answer = Silence /\ token # "none" /\ token' = "none"
  /\ UNCHANGED << user, session, rules, answer >>

\* An administrator changes the role, deactivates or reactivates the user, or
\* resets the password.
AccountIsManaged ==
  /\ answer = Silence
  /\ \/ \E role \in Role \ { user.role } :
          user' = [ user EXCEPT !.role = role ] /\ UNCHANGED session
     \/ /\ user' = [ user EXCEPT !.is_active = ~ @ ]
        /\ session' = (session /\ ~ user.is_active)
     \/ user' = [ user EXCEPT !.must_change_password = TRUE ] /\ session' = FALSE
  /\ UNCHANGED << token, rules, answer >>

EndpointsInit ==
  /\ user \in [ role : Role, is_active : { TRUE }, must_change_password : { TRUE } ]
  /\ token = "none" /\ session = FALSE /\ rules = {} /\ answer = Silence

EndpointsNext ==
  \/ \E router \in DOMAIN api : \E endpoint \in DOMAIN api[router] : Call(router, endpoint)
  \/ \E endpoint \in { "login", "refresh" } : SignIn(endpoint)
  \/ logout
  \/ me
  \/ change_password
  \/ Return
  \/ TokenExpires
  \/ AccountIsManaged

EndpointsSpec == EndpointsInit /\ [][EndpointsNext]_calling

(***************************************************************************)
(* Properties.                                                             *)
(***************************************************************************)
\* What a user keeps for himself, and the trail every call may leave.
OwnAffairs == { "own_account", "own_inbox", "audit_logs" }

\* "Management observes the whole business and changes nothing operational": the
\* only business rows a manager's calls ever write are the default scoring rules
\* of a kind that had none, when a score is explained.
ManagementObserves ==
  [][ answer'.role = "MANAGEMENT" =>
        \/ answer'.changed \subseteq OwnAffairs
        \/ answer'.changed = { "scoring_configurations" } /\ rules # RuleKinds ]_calling

\* While a user owes a change of password, the only calls that answer are those
\* about the user's own session.
OwedPasswordFirst == user.must_change_password => answer.router \in { "none", "auth" }

=============================================================================
