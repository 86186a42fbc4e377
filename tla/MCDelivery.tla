----------------------------- MODULE MCDelivery -----------------------------
(* Delivery for TLC.                                                         *)
EXTENDS Delivery, TLC

\* Both submissions put the same consultant forward.
SameCandidate == [ s \in SubmissionIds |-> CHOOSE c \in Resources : TRUE ]

Permuted == Permutations(SubmissionIds) \cup Permutations(DeploymentIds)
=============================================================================
