---------------------------- MODULE MCHttpServer ----------------------------
(* HttpServer on small instances. *)
EXTENDS HttpServer, TLC

CONSTANTS c1, c2   \* two connections

\* c1's request ends after two bytes and fits in the buffer, c2's does not.
MCHeaderEnd   == [c \in Conns |-> IF c = c1 THEN 2 ELSE BUFFER_SIZE]
MCClientBytes == [c \in Conns |-> IF c = c1 THEN BUFFER_SIZE - 1 ELSE BUFFER_SIZE]

\* Just enough to fill the buffer, for the liveness run.
MCFewBytes == [c \in Conns |-> BUFFER_SIZE - 1]

\* The workers are interchangeable, and so are the descriptors.
Symmetry == Permutations(Workers) \cup Permutations(FDs)
=============================================================================
