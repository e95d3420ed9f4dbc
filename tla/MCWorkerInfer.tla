---------------------------- MODULE MCWorkerInfer ----------------------------
(* Two requests at a time on a worker whose model has one other split. *)
EXTENDS WorkerInfer
=============================================================================
