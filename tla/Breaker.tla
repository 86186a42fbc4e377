------------------------------ MODULE Breaker -------------------------------
(***************************************************************************)
(* Extraction with a language model (app/ai/registry.py): a call tries the *)
(* provider a number of times and falls back to the parser; a breaker that *)
(* all calls of the process share keeps them from a provider that fails.   *)
(* The provider is external; other calls run while one awaits it.          *)
(***************************************************************************)
EXTENDS Naturals

CONSTANTS
  Calls,       \* the extractions that may be under way at the same time
  Threshold,   \* AI_CIRCUIT_BREAKER_FAILURES
  Retries      \* LLM_MAX_RETRIES

ASSUME BreakerCounts == Threshold \in Nat \ { 0 } /\ Retries \in Nat \ { 0 }

VARIABLES
  breaker,   \* the failures counted, and whether the breaker has opened
  attempt    \* the attempts each call has begun; 0 when it is not under way

breaking == << breaker, attempt >>

\* opened is opened_at: not set, within the cooldown, or before it.  Failures
\* above the threshold tell nothing apart.
BreakerState ==
  [ failures : 0..Threshold, opened : { "no", "cooling", "cooled" } ]

Closed == [ failures |-> 0, opened |-> "no" ]

BreakerInit == breaker = Closed /\ attempt = [ c \in Calls |-> 0 ]

\* Mutant: an open breaker closes without forgetting what it has counted.
after_cooldown_counting ==
  IF breaker.opened = "cooled" THEN [ breaker EXCEPT !.opened = "no" ] ELSE breaker

\* is_open resets the breaker once it has cooled down.
after_cooldown == IF breaker.opened = "cooled" THEN Closed ELSE breaker

is_open == breaker.opened = "cooling"

\* extract_requirement: an open breaker leaves the text to the parser at once.
StartExtraction(c) ==
  /\ attempt[c] = 0
  /\ ~ is_open
  /\ breaker' = after_cooldown
  /\ attempt' = [ attempt EXCEPT ![c] = 1 ]

ProviderAnswers(c) ==
  /\ attempt[c] > 0
  /\ breaker' = Closed
  /\ attempt' = [ attempt EXCEPT ![c] = 0 ]

TryAgain(c) ==
  /\ attempt[c] \in 1..(Retries - 1)
  /\ attempt' = [ attempt EXCEPT ![c] = @ + 1 ]
  /\ UNCHANGED breaker

record_failure ==
  [ failures |-> IF breaker.failures = Threshold THEN Threshold
                 ELSE breaker.failures + 1,
    opened |-> IF breaker.failures + 1 >= Threshold /\ breaker.opened = "no"
               THEN "cooling" ELSE breaker.opened ]

\* The last attempt failed: the call counts once and the parser answers.
FallBack(c) ==
  /\ attempt[c] = Retries
  /\ breaker' = record_failure
  /\ attempt' = [ attempt EXCEPT ![c] = 0 ]

CoolsDown ==
  /\ breaker.opened = "cooling"
  /\ breaker' = [ breaker EXCEPT !.opened = "cooled" ]
  /\ UNCHANGED attempt

BreakerNext ==
  \/ \E c \in Calls :
       StartExtraction(c) \/ ProviderAnswers(c) \/ TryAgain(c) \/ FallBack(c)
  \/ CoolsDown

BreakerSpec == BreakerInit /\ [][BreakerNext]_breaking

-----------------------------------------------------------------------------
BreakerTypeOK ==
  breaker \in BreakerState /\ attempt \in [ Calls -> 0..Retries ]

\* Calls that were under way when the breaker opened go on counting and closing
\* it, and still a breaker that lets calls through has counted fewer failures
\* than it takes to open it: the next one does not open it by an old count.
ClosedHasRoom == breaker.opened = "no" => breaker.failures < Threshold

=============================================================================
