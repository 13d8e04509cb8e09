---------------------------- MODULE MCAiPipeline ----------------------------
(* A few requests of one user against a pipeline with one slot, one waiting *)
(* place and one follower permit, so that each limit is met.                *)
EXTENDS AiPipeline, TLC

Symmetric == Permutations(Requests) \cup Permutations(Prints)

=============================================================================
