---------------------------- MODULE MCRefinement -----------------------------
(* The refinement of JobQueue on the instances of MCScheduler. *)
EXTENDS SchedulerRefinement, MCScheduler
=============================================================================
