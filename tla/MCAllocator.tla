----------------------------- MODULE MCAllocator -----------------------------
(* Allocator on small instances. *)
EXTENDS Allocator

AsItComes == {Null, Wild}  \* malloc returns fresh pages, or memory used before
=============================================================================
