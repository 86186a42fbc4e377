------------------------- MODULE MCPipelineSessions -------------------------
(* PipelineSessions for TLC: ids and sessions are interchangeable.          *)
EXTENDS PipelineSessions, TLC

Permuted ==
  Permutations(Resources) \cup Permutations(SubmissionIds)
    \cup Permutations(Sessions)

\* A behaviour follows the interviews of one submission, or two submissions and
\* their opportunity: with interviews come no status or stage typed by hand.
under_way(kinds) == \E x \in Sessions : tx[x].kind \in kinds

RoundsOrRivals ==
  interviews # EmptyTable \/ under_way({ "interview", "outcome" })
    => /\ Cardinality(DOMAIN submissions) = 1
       /\ ~ under_way({ "stage", "status" })
=============================================================================
