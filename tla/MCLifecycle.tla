----------------------------- MODULE MCLifecycle -----------------------------
(* Lifecycle on small instances: the sets are model values in the .cfg files. *)
EXTENDS Lifecycle
=============================================================================
