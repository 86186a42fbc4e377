------------------------- MODULE MCDeliverySessions -------------------------
(* DeliverySessions for TLC.                                                 *)
EXTENDS DeliverySessions, TLC

SameCandidate == [ s \in SubmissionIds |-> CHOOSE c \in Resources : TRUE ]

Permuted ==
  Permutations(SubmissionIds) \cup Permutations(DeploymentIds)
    \cup Permutations(Sessions)
=============================================================================
