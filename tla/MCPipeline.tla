----------------------------- MODULE MCPipeline -----------------------------
(* Pipeline for TLC: the ids are model values, interchangeable within their *)
(* sort, since nothing in the pipeline compares them but for equality.      *)
EXTENDS Pipeline, TLC

Permuted == Permutations(Resources) \cup Permutations(SubmissionIds)
=============================================================================
