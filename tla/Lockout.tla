------------------------------ MODULE Lockout -------------------------------
(***************************************************************************)
(* Failed logins of one address (app/services/auth.py): the ledger of      *)
(* attempts, the account's counter and lock, and time.  The check for a    *)
(* lockout, the verification, the ledger's commit and the request's commit *)
(* are steps of their own; other logins come in between.                   *)
(***************************************************************************)
EXTENDS Naturals

CONSTANTS
  Logins,       \* the login requests that may be in flight at the same time
  MaxAttempts   \* LOGIN_MAX_ATTEMPTS

ASSUME AttemptsAreAllowed == MaxAttempts \in Nat \ { 0 }

VARIABLES
  account,    \* the user's row; exists tells whether the address has one
  attempts,   \* the failed logins of the last LOGIN_LOCKOUT_MINUTES
  login       \* the step each request is at and the row it has loaded

lockout == << account, attempts, login >>

\* MaxAttempts stands for itself and for all counts above it.
capped(n) == IF n > MaxAttempts THEN MaxAttempts ELSE n

\* lock is the state of locked_until: not set, gone by, or still to come.
AccountRow ==
  [ exists : BOOLEAN, active : BOOLEAN, failures : 0..MaxAttempts,
    lock : { "none", "past", "in_force" } ]

LoginSteps == { "idle", "succeeding", "failing", "recording" }

NoRow == [ exists |-> FALSE, active |-> FALSE, failures |-> 0, lock |-> "none" ]

NoLogin == [ at |-> "idle", row |-> NoRow ]

LockoutInit ==
  /\ \E exists \in BOOLEAN :
       account = [ exists |-> exists, active |-> exists, failures |-> 0,
                   lock |-> "none" ]
  /\ attempts = 0
  /\ login = [ x \in Logins |-> NoLogin ]

goes(x, step) == login' = [ login EXCEPT ![x] = [ at |-> step, row |-> account ] ]

ends(x) == login' = [ login EXCEPT ![x] = NoLogin ]

\* Mutant: a login is refused by the account's lock alone.
locked_out_by_account == account.lock = "in_force"

\* _assert_not_locked_out.
locked_out == account.lock = "in_force" \/ attempts >= MaxAttempts

\* Mutant: a login that is refused counts as a failure.
StartLogin_counting_refusals(x, correct) ==
  /\ login[x].at = "idle"
  /\ goes(x, IF correct /\ account.active /\ ~ locked_out
             THEN "succeeding" ELSE "failing")
  /\ UNCHANGED << account, attempts >>

\* POST /auth/login, as far as the verification of the password; a wrong one,
\* an unknown address and an inactive user all fail.  When the address is
\* locked out the login is refused, and nothing is recorded.
StartLogin(x, correct) ==
  /\ login[x].at = "idle"
  /\ ~ locked_out
  /\ goes(x, IF correct /\ account.active
             THEN "succeeding" ELSE "failing")
  /\ UNCHANGED << account, attempts >>

\* The columns a success resets, as far as they were set when it loaded them.
reset(row) ==
  [ account EXCEPT !.failures = IF row.failures = 0 THEN @ ELSE 0,
                   !.lock     = IF row.lock = "none" THEN @ ELSE "none" ]

CommitLogin(x) ==
  /\ login[x].at = "succeeding"
  /\ account' = reset(login[x].row)
  /\ ends(x)
  /\ UNCHANGED attempts

\* _record_failure loads the row again, in a session of its own.
ReadFailure(x) ==
  /\ login[x].at = "failing"
  /\ goes(x, "recording")
  /\ UNCHANGED << account, attempts >>

\* Mutant: what is counted is the attempts that are left.
after_failure_counting_down(row) == [ account EXCEPT !.failures = row.failures - 1 ]

\* The row when the ledger commits what it made of the row it had loaded: the
\* new locked_until is later than the one it replaces, so it is written.
after_failure(row) ==
  [ account EXCEPT
      !.failures = capped(row.failures + 1),
      !.lock = IF row.failures + 1 >= MaxAttempts THEN "in_force" ELSE @ ]

\* The ledger commits by itself; then the request fails and is rolled back.
CommitFailure(x) ==
  /\ login[x].at = "recording"
  /\ attempts' = capped(attempts + 1)
  /\ account' = IF account.exists THEN after_failure(login[x].row) ELSE account
  /\ ends(x)

\* The process dies or the database is lost before the commit.
LoginIsLost(x) ==
  /\ login[x].at # "idle"
  /\ ends(x)
  /\ UNCHANGED << account, attempts >>

\* POST /users/{id}/reset-password; and PATCH of is_active.
ResetPassword ==
  /\ account.exists
  /\ account' = [ account EXCEPT !.failures = 0, !.lock = "none" ]
  /\ UNCHANGED << attempts, login >>

SetActive(active) ==
  /\ account.exists /\ account.active # active
  /\ account' = [ account EXCEPT !.active = active ]
  /\ UNCHANGED << attempts, login >>

\* LOGIN_LOCKOUT_MINUTES after the failure that set it, a lock is over.
LockEnds ==
  /\ account.lock = "in_force"
  /\ account' = [ account EXCEPT !.lock = "past" ]
  /\ UNCHANGED << attempts, login >>

\* As long after a failed login, the ledger's count leaves it out.
AttemptIsForgotten ==
  /\ attempts > 0
  /\ attempts' = attempts - 1
  /\ UNCHANGED << account, login >>

LockoutNext ==
  \/ \E x \in Logins :
       \/ \E correct \in BOOLEAN : StartLogin(x, correct)
       \/ CommitLogin(x) \/ ReadFailure(x) \/ CommitFailure(x) \/ LoginIsLost(x)
  \/ ResetPassword \/ \E active \in BOOLEAN : SetActive(active)
  \/ LockEnds \/ AttemptIsForgotten

\* Time passes.
LockoutSpec ==
  LockoutInit /\ [][LockoutNext]_lockout
    /\ WF_lockout(LockEnds) /\ WF_lockout(AttemptIsForgotten)

-----------------------------------------------------------------------------
LockoutTypeOK ==
  /\ account \in AccountRow
  /\ attempts \in 0..MaxAttempts
  /\ login \in [ Logins -> [ at : LoginSteps, row : AccountRow ] ]

\* Being locked out ends by itself: what is refused under a lockout is no
\* failure, so trying on does not prolong it.
LockoutEnds == locked_out ~> ~ locked_out

\* The logins that may still fail.
failing == { x \in Logins : login[x].at \in { "failing", "recording" } }

\* Once the ledger is full, the failures that follow are those of logins that
\* had passed the check before: guesses do not go on.
GuessingStops ==
  [][ attempts = MaxAttempts /\ attempts' = MaxAttempts
        => failing' \subseteq failing ]_lockout
=============================================================================
