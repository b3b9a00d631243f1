------------------------------- MODULE MCQueue -------------------------------
(* WorkerPoolQueue for model checking; the bounds are in the configurations. *)
EXTENDS WorkerPoolQueue
=============================================================================
