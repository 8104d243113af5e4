---------------------------- MODULE MCDemoServer ----------------------------
(* DemoServer on small instances. *)
EXTENDS DemoServer

CONSTANTS c1, c2   \* two connections

\* c1's request just fits the buffer, c2's does not.
MCHeaderEnd   == [c \in Conns |-> IF c = c1 THEN BUFFER_SIZE - 1 ELSE BUFFER_SIZE]
MCClientBytes == [c \in Conns |-> BUFFER_SIZE]
=============================================================================
