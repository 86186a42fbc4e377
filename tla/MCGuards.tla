------------------------------ MODULE MCGuards ------------------------------
(***************************************************************************)
(* What stands around the records, for TLC: the lockout, the rate limit,   *)
(* the breaker before a provider, the permissions of the endpoints, the    *)
(* calendar billing goes by and the opportunity score.  They share no      *)
(* state, so their product would show nothing that each alone does not: a  *)
(* behaviour takes the steps of one of them, chosen at the start.          *)
(***************************************************************************)
EXTENDS Lockout, RateLimit, Breaker, Endpoints, MCPeriods, MCScoring

VARIABLE topic

guards == << lockout, limits, breaking, calling, stretch, worth, topic >>

\* Nothing moves but what is listed in the other conjuncts.
Rest(g) ==
  /\ topic = g /\ UNCHANGED topic
  /\ g # "lockout" => UNCHANGED lockout
  /\ g # "limit" => UNCHANGED limits
  /\ g # "breaker" => UNCHANGED breaking
  /\ g # "endpoints" => UNCHANGED calling
  /\ g # "calendar" => UNCHANGED stretch
  /\ g # "score" => UNCHANGED worth

\* The parts that are not the subject of the behaviour have one initial state.
Init ==
  /\ LockoutInit /\ LimitInit /\ BreakerInit /\ EndpointsInit /\ ScoringInit
  /\ topic \in { "lockout", "limit", "breaker", "endpoints", "calendar", "score" }
  /\ topic # "lockout" => account.exists
  /\ topic # "score" => deadline = "none"
  /\ topic # "endpoints" => user.role = "SALES"
  /\ IF topic = "calendar" THEN CalendarInit
     ELSE start = FromDay + 1 /\ end = FromDay /\ rate = CHOOSE r \in Rates : TRUE

Next ==
  \/ Rest("lockout") /\ LockoutNext
  \/ Rest("limit") /\ LimitNext
  \/ Rest("breaker") /\ BreakerNext
  \/ Rest("endpoints") /\ EndpointsNext
  \/ Rest("calendar") /\ CalendarNext
  \/ Rest("score") /\ ScoringNext

\* Every variable has its type.
GuardsTypeOK == LockoutTypeOK /\ LimitTypeOK /\ BreakerTypeOK

\* The fairness of LockoutSpec and of LimitSpec, where it is about them.
Spec ==
  /\ Init /\ [][Next]_guards
  /\ WF_guards(Rest("lockout") /\ LockEnds)
  /\ WF_guards(Rest("lockout") /\ AttemptIsForgotten)
  /\ WF_guards(Rest("limit") /\ KeyExpires)
  /\ \A p \in Processes :
       /\ WF_guards(Rest("limit") /\ Hit(p))
       /\ SF_guards(Rest("limit") /\ Expire(p))
=============================================================================
