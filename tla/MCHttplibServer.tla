--------------------------- MODULE MCHttplibServer ---------------------------
(* HttplibServer on a small instance. *)
EXTENDS HttplibServer

CONSTANTS c1, c2   \* two connections

\* What each client sends at most: c1 only holds its connection, c2 sends a request
\* with a body and, of another one, no more than the first line.
Post == <<"line", "headers", "body">>
Requests == [c \in Conns |->
    IF c = c1 THEN <<>>
    ELSE [p \in 1..4 |-> IF p = 4 THEN [part |-> "line", of |-> 2, last |-> FALSE]
                         ELSE [part |-> Post[p], of |-> 1, last |-> p = 3]]]
=============================================================================
