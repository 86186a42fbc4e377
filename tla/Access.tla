------------------------------- MODULE Access -------------------------------
(***************************************************************************)
(* Who may use the platform: user accounts and the refresh tokens of their *)
(* sign-ins (app/services/auth.py, app/services/user.py).  A request reads *)
(* committed rows, decides, and writes at its commit what it changed.      *)
(* Module Lockout has the failed logins; that a password must be changed   *)
(* before anything else is asked for narrows the actors and is left out.   *)
(***************************************************************************)
EXTENDS FiniteSets, Naturals, Tables

CONSTANTS
  Users,        \* users, each standing for its e-mail address too
  Tokens,       \* refresh token ids
  Visits        \* the requests that may be in flight at the same time

ASSUME SomeUser == Users # {}

VARIABLES
  users,      \* table: user -> account
  tokens,     \* table: token -> refresh token
  tx          \* what each request has read and is about to write

access == << users, tokens, tx >>

\* Two of the four roles: the others differ from SALES in permissions only.
Role == { "ADMIN", "SALES" }

UserRow == [ role : Role, active : BOOLEAN ]

\* A token that expired is one that nobody refreshes any more.
TokenRow == [ user : Users, family : Tokens, revoked : BOOLEAN ]

Idle == [ pc |-> "idle" ]

\* late tells that another request has committed after this one read.
Request(pc, u_was, u_now, t_was, t_now) ==
  [ pc |-> pc, u_was |-> u_was, u_now |-> u_now, t_was |-> t_was,
    t_now |-> t_now, late |-> FALSE ]

AccessInit ==
  LET u == CHOOSE u \in Users : TRUE IN
    /\ users = Row(u, [ role |-> "ADMIN", active |-> TRUE ])
    /\ tokens = EmptyTable
    /\ tx = [ x \in Visits |-> Idle ]

Starts(x, request) ==
  /\ tx[x] = Idle
  /\ tx' = [ tx EXCEPT ![x] = request ]
  /\ UNCHANGED << users, tokens >>

Reads(x, u_was, u_now, t_was, t_now) ==
  Starts(x, Request("writing", u_was, u_now, t_was, t_now))

-----------------------------------------------------------------------------
(* Helpers of the services.                                                *)

fresh(t) ==
  /\ t \notin DOMAIN tokens
  /\ \A x \in Visits : tx[x] # Idle => t \notin DOMAIN tx[x].t_now

\* _issue_session: a token of a new family.
issued(u, t) == Row(t, [ user |-> u, family |-> t, revoked |-> FALSE ])

revoked(rows) == [ t \in DOMAIN rows |-> [ rows[t] EXCEPT !.revoked = TRUE ] ]

\* revoke_family writes the rows that are not revoked yet.
family_of(t) ==
  Select(tokens, { s \in DOMAIN tokens :
                     tokens[s].family = tokens[t].family /\ ~ tokens[s].revoked })

\* revoke_all_for_user.
tokens_of(u) ==
  Select(tokens, { s \in DOMAIN tokens : tokens[s].user = u /\ ~ tokens[s].revoked })

\* Mutant: administrators that were deactivated count.
count_admins(u) ==
  Cardinality({ v \in DOMAIN users \ { u } : users[v].role = "ADMIN" })

count_active_admins(u) ==
  Cardinality({ v \in DOMAIN users \ { u } :
                  users[v].role = "ADMIN" /\ users[v].active })

\* _assert_not_last_admin.
may_lose(u, role, active) ==
  users[u].role = "ADMIN" /\ (~ active \/ role # "ADMIN")
    => count_active_admins(u) > 0

\* The guard of the user administration: require(USER_...), of the users as they
\* are when the request starts.
administers(a) ==
  /\ a \in DOMAIN users
  /\ users[a].role = "ADMIN" /\ users[a].active

-----------------------------------------------------------------------------
(* Signing in and out.                                                     *)

\* POST /auth/login with the right password, of an active user that is not
\* locked out.
StartLogin(x, u, t) ==
  /\ u \in DOMAIN users /\ users[u].active
  /\ fresh(t)
  /\ Reads(x, EmptyTable, EmptyTable, EmptyTable, issued(u, t))

rotated(t) == revoked(Row(t, tokens[t]))

is_good(t) ==
  /\ t \in DOMAIN tokens
  /\ ~ tokens[t].revoked /\ users[tokens[t].user].active

\* POST /auth/refresh with a token that is good, of a user that is active.
StartRefresh(x, t, new) ==
  /\ is_good(t)
  /\ fresh(new)
  /\ Reads(x, EmptyTable, EmptyTable, Row(t, tokens[t]),
           Put(rotated(t), new, tokens[t]))

\* The same with a token that was revoked or of an inactive user: the family is
\* revoked, and the error raised next undoes it with the rest of the request.
StartRefusedRefresh(x, t) ==
  /\ t \in DOMAIN tokens
  /\ ~ is_good(t)
  /\ Starts(x, Request("refused", EmptyTable, EmptyTable,
                       family_of(t), revoked(family_of(t))))

\* POST /auth/logout.
StartLogout(x, t) ==
  /\ t \in DOMAIN tokens
  /\ Reads(x, EmptyTable, EmptyTable, family_of(t),
           revoked(family_of(t)))

-----------------------------------------------------------------------------
(* Passwords and accounts.                                                 *)

RevokesAll(x, u, row) ==
  Reads(x, Row(u, users[u]), Row(u, row), tokens_of(u), revoked(tokens_of(u)))

\* POST /auth/change-password, by the user.
StartChangePassword(x, u) ==
  /\ u \in DOMAIN users /\ users[u].active
  /\ RevokesAll(x, u, users[u])

\* POST /users/{id}/reset-password, by an administrator.
StartResetPassword(x, a, u) ==
  /\ administers(a) /\ u \in DOMAIN users
  /\ RevokesAll(x, u, users[u])

\* POST /users.
StartCreateUser(x, a, u, role) ==
  /\ administers(a) /\ u \notin DOMAIN users
  /\ Reads(x, EmptyTable,
           Row(u, [ role |-> role, active |-> TRUE ]),
           EmptyTable, EmptyTable)

\* PATCH /users/{id}, of the role or of is_active or both.
StartUpdateUser(x, a, u, role, active) ==
  LET row == [ users[u] EXCEPT !.role = role, !.active = active ] IN
  /\ administers(a) /\ u \in DOMAIN users
  /\ may_lose(u, role, users[u].active => active)
  /\ users[u].active /\ ~ active => u # a
  /\ IF users[u].active /\ ~ active
     THEN RevokesAll(x, u, row)
     ELSE Reads(x, Row(u, users[u]), Row(u, row), EmptyTable, EmptyTable)

\* DELETE /users/{id}: the user is deactivated, once.
StartDeactivateUser(x, a, u) ==
  /\ administers(a) /\ u \in DOMAIN users
  /\ u # a /\ users[u].active
  /\ may_lose(u, users[u].role, FALSE)
  /\ RevokesAll(x, u, [ users[u] EXCEPT !.active = FALSE ])

-----------------------------------------------------------------------------
(* Ends of a request.                                                      *)

\* The other requests in flight, made late by a commit of x.
overtaken(x) ==
  [ y \in Visits |->
      IF y = x THEN Idle
      ELSE IF tx[y] = Idle THEN Idle ELSE [ tx[y] EXCEPT !.late = TRUE ] ]

\* The address of a new user is unique in the table.
CommitAccess(x) ==
  LET t == tx[x] IN
  /\ t.pc = "writing"
  /\ keys_are_free(users, t.u_was, t.u_now)
  /\ users' = flush(users, t.u_was, t.u_now)
  /\ tokens' = flush(tokens, t.t_was, t.t_now)
  /\ tx' = overtaken(x)

RollbackAccess(x) ==
  /\ tx[x] # Idle
  /\ tx' = [ tx EXCEPT ![x] = Idle ]
  /\ UNCHANGED << users, tokens >>

StartAccess(x) ==
  \E u \in Users :
    \/ StartChangePassword(x, u)
    \/ \E t \in Tokens : StartLogin(x, u, t)
    \/ \E a \in Users :
         \/ StartResetPassword(x, a, u) \/ StartDeactivateUser(x, a, u)
         \/ \E role \in Role :
              \/ StartCreateUser(x, a, u, role)
              \/ \E active \in BOOLEAN : StartUpdateUser(x, a, u, role, active)

StartToken(x) ==
  \E t \in Tokens :
    \/ StartRefusedRefresh(x, t)
    \/ StartLogout(x, t)
    \/ \E new \in Tokens : StartRefresh(x, t, new)

AccessNext ==
  \E x \in Visits :
    StartAccess(x) \/ StartToken(x) \/ CommitAccess(x) \/ RollbackAccess(x)

AccessSpec == AccessInit /\ [][AccessNext]_access

-----------------------------------------------------------------------------
\* Every stored row has its columns' types, and a token's user exists.
AccessTypeOK ==
  /\ IsTable(users, Users, UserRow)
  /\ IsTable(tokens, Tokens, TokenRow)
  /\ \A t \in DOMAIN tokens : tokens[t].user \in DOMAIN users

\* What the services keep true of accounts and tokens together: somebody can
\* administer, a user who is not active holds no token, and a family of tokens
\* has one that is good at most.
Orderly ==
  /\ \E u \in DOMAIN users : users[u].role = "ADMIN" /\ users[u].active
  /\ \A t \in DOMAIN tokens :
       ~ tokens[t].revoked =>
         /\ users[tokens[t].user].active
         /\ \A s \in DOMAIN tokens \ { t } :
              tokens[s].family = tokens[t].family => tokens[s].revoked

\* No request that another one overtook has just committed.
NoneLate == \A x \in Visits : tx[x] # Idle /\ tx'[x] = Idle => ~ tx[x].late

\* A sign-in that is over, by a sign-out or a change of the password or of the
\* account.
over(f) ==
  /\ f \in DOMAIN tokens
  /\ \A t \in DOMAIN tokens : tokens[t].family = f => tokens[t].revoked

\* Nothing but a request that another one overtook ends that order, or revives a
\* sign-in that is over: the checks of a request are enough for the rows it reads.
OnlyOverlapsEndOrder ==
  [][ NoneLate =>
        /\ Orderly => Orderly'
        /\ \A f \in Tokens : over(f) => over(f)' ]_access
=============================================================================
