---------------------------- MODULE MCThreadPool ----------------------------
(* ThreadPool on a pool small enough to check; None is a model value.      *)
EXTENDS ThreadPool
=============================================================================
