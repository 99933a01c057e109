------------------------------ MODULE MCEngineJobs ------------------------------
(***************************************************************************)
(* Instances of EngineJobs for TLC.  Sessions are interchangeable; so are  *)
(* executions, whose ids also name the worker threads.                     *)
(***************************************************************************)
EXTENDS EngineJobs, TLC

Symmetry == Permutations(Jobs) \cup Permutations(Sessions)

================================================================================
