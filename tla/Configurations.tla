--------------------------- MODULE Configurations ---------------------------
(***************************************************************************)
(* Versions of the rules, and what one requirement is given under them:    *)
(* matches, replaced by every run, and scores, appended by every run       *)
(* (app/services/matching.py, scoring.py, simulation.py).  A request reads *)
(* committed rows and writes at its commit.                                *)
(***************************************************************************)
EXTENDS FiniteSetsExt, Integers, Tables

CONSTANTS
  Kinds,        \* kinds of rules; MATCH_WEIGHTS and some that scores read
  MaxVersion,   \* bound on the versions of a kind
  MaxScores,    \* bound on the scores kept
  Resources,    \* consultants that may match
  Requests      \* the requests that may be in flight at the same time

ASSUME KindsOfRules ==
  "MATCH_WEIGHTS" \in Kinds /\ MaxVersion \in Nat /\ MaxScores \in Nat

VARIABLES
  configs,   \* table: << kind, version >> -> scoring configuration
  matches,   \* table: resource -> match of the requirement
  scores,    \* table: number -> opportunity score of the requirement
  run        \* what each request has read and is about to write

rules == << configs, matches, scores, run >>

\* scoring_configuration_version is the key of the table.
Versions == Kinds \X (1..MaxVersion)

ConfigRow == [ is_active : BOOLEAN ]

MatchRow == [ weights_version : 1..MaxVersion ]

ScoreRow == [ is_current : BOOLEAN ]

\* A request under way: the rows of configurations and scores it changes, as
\* they were and as they will be; whether it replaces the matches, which ones
\* and by which; late tells that another request has committed since.
NoRun == [ busy |-> FALSE ]

changes(table, new) ==
  Select(new, { k \in DOMAIN new : k \in DOMAIN table => table[k] # new[k] })

ConfigurationsInit ==
  /\ configs = EmptyTable /\ matches = EmptyTable /\ scores = EmptyTable
  /\ run = [ x \in Requests |-> NoRun ]

Runs(x, c, replaces, m, s) ==
  /\ run[x] = NoRun
  /\ DOMAIN c \subseteq Versions
  /\ run' = [ run EXCEPT ![x] =
                [ busy |-> TRUE,
                  c_was |-> Select(configs, DOMAIN changes(configs, c)),
                  c_now |-> changes(configs, c),
                  replaces |-> replaces,
                  m_was |-> IF replaces THEN DOMAIN matches ELSE {},
                  m_now |-> m,
                  s_was |-> Select(scores, DOMAIN changes(scores, s)),
                  s_now |-> changes(scores, s),
                  late |-> FALSE ] ]
  /\ UNCHANGED << configs, matches, scores >>

-----------------------------------------------------------------------------
(* Rules.                                                                  *)

versions_of(table, kind) == { v \in 1..MaxVersion : << kind, v >> \in DOMAIN table }

highest(table, kind) == Max(versions_of(table, kind) \cup { 0 })

\* Mutant: the version that was active stays so.
activated_too(table, key) == Put(table, key, [ is_active |-> TRUE ])

\* activate: the others of the kind that are active are switched off.
activated(table, key) ==
  [ k \in DOMAIN table |->
      [ is_active |-> k = key \/ (table[k].is_active /\ k[1] # key[1]) ] ]

\* create: the next version, made active when the request asks for it.
created(table, kind, activate) ==
  LET key == << kind, highest(table, kind) + 1 >>
      added == Put(table, key, [ is_active |-> FALSE ])
  IN  IF activate THEN activated(added, key) ELSE added

active_versions(table, kind) ==
  { v \in versions_of(table, kind) : table[<< kind, v >>].is_active }

\* ScoringConfigService.active, of each of the kinds: when none of its versions
\* is active, one more with the defaults is made and activated.
seeded(table, kinds) ==
  LET missing == { k \in kinds : active_versions(table, k) = {} }
      keys == { << k, highest(table, k) + 1 >> : k \in missing }
  IN  PutAll(table, [ key \in keys |-> [ is_active |-> TRUE ] ])

\* What the request reads for the kinds: the first active version found.
readings(table, kinds) ==
  { v \in [ kinds -> 1..MaxVersion ] :
      \A k \in kinds : v[k] \in active_versions(table, k) }

\* POST /matching/configurations.
StartCreate(x, kind, activate) ==
  Runs(x, created(configs, kind, activate), FALSE, EmptyTable, scores)

\* POST /matching/configurations/{id}/activate.
StartActivate(x, key) ==
  /\ key \in DOMAIN configs
  /\ Runs(x, activated(configs, key), FALSE, EmptyTable, scores)

-----------------------------------------------------------------------------
(* What is computed under them.                                            *)

\* POST /matching/requirements/{id}/run: the filters let some resources through.
StartMatching(x, included) ==
  LET c == seeded(configs, { "MATCH_WEIGHTS" }) IN
  \E v \in readings(c, { "MATCH_WEIGHTS" }) :
    Runs(x, c, TRUE,
         [ r \in included |-> [ weights_version |-> v["MATCH_WEIGHTS"] ] ], scores)

\* _persist of the score: no other snapshot stays current, none is deleted.
persisted_score(n) ==
  [ k \in DOMAIN scores \cup { n } |-> [ is_current |-> k = n ] ]

\* POST /scoring/requirements/{id}/recompute.
StartScoring(x, n) ==
  /\ n \notin DOMAIN scores
  /\ \A y \in Requests : run[y].busy => n \notin DOMAIN run[y].s_now
  /\ Runs(x, seeded(configs, Kinds), FALSE, EmptyTable, persisted_score(n))

\* POST /scoring/simulate/{id} and previews read the rules and keep no score; a
\* kind that has no active version is seeded all the same.
StartSimulation(x, draft) ==
  /\ draft \in DOMAIN configs /\ ~ configs[draft].is_active
  /\ \E k \in DOMAIN scores : scores[k].is_current
  /\ Runs(x, seeded(configs, Kinds \ { draft[1] }), FALSE, EmptyTable, scores)

\* _persist of the matches deletes the rows it finds and inserts its own; the
\* rows that another request inserts meanwhile stay.
replaced(t) ==
  IF t.replaces THEN PutAll(Select(matches, DOMAIN matches \ t.m_was), t.m_now)
  ELSE matches

\* A version, or the match of a resource, that another request inserted first
\* is the end of the request: the keys are unique.
CommitRun(x) ==
  LET t == run[x] IN
  /\ t.busy
  /\ keys_are_free(configs, t.c_was, t.c_now)
  /\ DOMAIN t.m_now \cap (DOMAIN matches \ t.m_was) = {}
  /\ configs' = flush(configs, t.c_was, t.c_now)
  /\ matches' = replaced(t)
  /\ scores' = flush(scores, t.s_was, t.s_now)
  /\ run' = [ y \in Requests |->
                IF y # x /\ run[y].busy THEN [ run[y] EXCEPT !.late = TRUE ]
                ELSE NoRun ]

RollbackRun(x) ==
  /\ run[x].busy
  /\ run' = [ run EXCEPT ![x] = NoRun ]
  /\ UNCHANGED << configs, matches, scores >>

StartRun(x) ==
  \/ \E kind \in Kinds, activate \in BOOLEAN : StartCreate(x, kind, activate)
  \/ \E key \in Versions : StartActivate(x, key) \/ StartSimulation(x, key)
  \/ \E included \in SUBSET Resources : StartMatching(x, included)
  \/ \E n \in 1..MaxScores : StartScoring(x, n)

ConfigurationsNext ==
  \E x \in Requests : StartRun(x) \/ CommitRun(x) \/ RollbackRun(x)

ConfigurationsSpec == ConfigurationsInit /\ [][ConfigurationsNext]_rules

-----------------------------------------------------------------------------
ConfigurationsTypeOK ==
  /\ IsTable(configs, Versions, ConfigRow)
  /\ IsTable(matches, Resources, MatchRow)
  /\ IsTable(scores, 1..MaxScores, ScoreRow)

\* Nobody commits over what another request has changed since it read.
NobodyLate == \A x \in Requests : run[x].busy /\ ~ run'[x].busy => ~ run[x].late

\* Each kind of rules has one active version at most.
SingleRules == \A k \in Kinds : Cardinality(active_versions(configs, k)) <= 1

\* One of the scores a requirement was given is the current one.
SingleScore ==
  Cardinality({ n \in DOMAIN scores : scores[n].is_current })
    = IF scores = EmptyTable THEN 0 ELSE 1

\* The matches that are ranked side by side come from one run under one version
\* of the weights.
SingleRun ==
  \A r, s \in DOMAIN matches : matches[r].weights_version = matches[s].weights_version

\* Each of these is ended by a request that another one overtook and by nothing
\* else: for requests that do not overlap, what they switch off, retire and
\* delete is all there is.
RulesStayInOrder ==
  [][ NobodyLate =>
        /\ SingleRules => SingleRules'
        /\ SingleScore => SingleScore'
        /\ SingleRun => SingleRun' ]_rules
=============================================================================
