-------------------------- MODULE MCChildLifecycle --------------------------
(***************************************************************************)
(* ChildLifecycle with one process that either child may fork, at a time   *)
(* when a listing of /proc has seen it or when it is too late for that.    *)
(***************************************************************************)
EXTENDS ChildLifecycle
=============================================================================
