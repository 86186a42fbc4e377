----------------------------- MODULE RateLimit ------------------------------
(***************************************************************************)
(* The limit on the requests of one client (app/core/rate_limit.py), as it *)
(* is kept in Redis and shared by the API processes: a counter with a time *)
(* to live.  Redis is external; a process may die between two commands.    *)
(***************************************************************************)
EXTENDS Naturals

CONSTANTS
  Processes,   \* API processes that count a request of the client
  Limit        \* requests allowed in a window

ASSUME LimitIsCount == Limit \in Nat

VARIABLES
  key,   \* the counter: its value, and the state of its time to live
  hit    \* the step each process is at, and whether its request was allowed

limits == << key, hit >>

\* Values above Limit + 1 tell nothing apart.
Counts == 0..Limit + 1

\* ttl is that of the TTL command: no such key, a key without one, or with.
Key == [ count : Counts, ttl : { "no key", "none", "running" } ]

NoKey == [ count |-> 0, ttl |-> "no key" ]

LimitInit == key = NoKey /\ hit = [ p \in Processes |-> "idle" ]

\* INCR of a key keeps its time to live, and creates the key without one.
incremented ==
  [ count |-> IF key.count > Limit THEN key.count ELSE key.count + 1,
    ttl |-> IF key.ttl = "no key" THEN "none" ELSE key.ttl ]

\* Mutant: the window is set by the request that counts one.
sets_window_first_only(counter) == counter.count = 1

\* The window is set by every request that finds the key without one.
sets_window(counter) == counter.ttl = "none"

\* hit: INCR and TTL are one transaction.
Hit(p) ==
  /\ hit[p] = "idle"
  /\ key' = incremented
  /\ hit' = [ hit EXCEPT ![p] =
                IF sets_window(incremented) THEN "expiring" ELSE "idle" ]

\* EXPIRE, in a command of its own.
Expire(p) ==
  /\ hit[p] = "expiring"
  /\ key' = IF key.ttl = "no key" THEN key ELSE [ key EXCEPT !.ttl = "running" ]
  /\ hit' = [ hit EXCEPT ![p] = "idle" ]

\* The process dies, or Redis does not answer: the request is let through.
HitIsLost(p) ==
  /\ hit[p] = "expiring"
  /\ hit' = [ hit EXCEPT ![p] = "idle" ]
  /\ UNCHANGED key

\* The window is over.
KeyExpires ==
  /\ key.ttl = "running"
  /\ key' = NoKey
  /\ UNCHANGED hit

LimitNext ==
  \/ \E p \in Processes : Hit(p) \/ Expire(p) \/ HitIsLost(p)
  \/ KeyExpires

\* Of a client that keeps trying, while processes do not always die.
LimitSpec ==
  /\ LimitInit /\ [][LimitNext]_limits
  /\ WF_limits(KeyExpires)
  /\ \A p \in Processes : WF_limits(Hit(p)) /\ SF_limits(Expire(p))

-----------------------------------------------------------------------------
LimitTypeOK == key \in Key /\ hit \in [ Processes -> { "idle", "expiring" } ]

\* The counter of a client that keeps trying starts again some time, even when
\* a process died before it had set the window.
RefusedComesBack == key.count > Limit ~> key.count <= Limit
=============================================================================
