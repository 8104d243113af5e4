--------------------------- MODULE ConnectionLife ---------------------------
(***************************************************************************)
(* What web::HttpServerImpl promises to each client, without epoll, pool,  *)
(* contexts and descriptors: a connection that has been taken up is        *)
(* answered at most once, only for a whole request, and is closed only     *)
(* behind that answer or when no answer can be given: its client is lost,  *)
(* or has left or used up the buffer without a whole request being there.  *)
(* One thing ends all of them: the answer to a client that is lost, which  *)
(* may raise SIGPIPE.  HttpServer implements this module.                  *)
(***************************************************************************)
EXTENDS Naturals

CONSTANTS
    Conns,
    MayRefuse   \* whether the server may give up a connection it just accepted

VARIABLES
    life,      \* "none", "backlog", "accepted", "open", "closed"
    asked,     \* clients whose whole request, one that fits, has been sent
    spent,     \* clients that have left or have sent all the server can hold
    lost,      \* clients that have reset, whom no response reaches
    replies    \* responses written to each client

vars == <<life, asked, spent, lost, replies>>

Init ==
    /\ life = [c \in Conns |-> "none"]
    /\ asked = {} /\ spent = {} /\ lost = {}
    /\ replies = [c \in Conns |-> 0]

Becomes(c, stage) == life' = [life EXCEPT ![c] = stage]

-----------------------------------------------------------------------------
(* The client *)

Connect(c) ==
    /\ life[c] = "none"
    /\ Becomes(c, "backlog")
    /\ UNCHANGED <<asked, spent, lost, replies>>

\* More of the request, and perhaps the last the server will see of the client;
\* who is spent asks no more.
Move(c) ==
    /\ life[c] \in {"backlog", "accepted", "open"}
    /\ asked' \in {asked, asked \cup {c}}
    /\ spent' \in {spent, spent \cup {c}}
    /\ lost' \in {lost, lost \cup {c}}
    /\ c \in spent => UNCHANGED asked
    /\ UNCHANGED <<life, replies>>

-----------------------------------------------------------------------------
(* The server *)

Accept(c) ==
    /\ life[c] = "backlog"
    /\ Becomes(c, "accepted")
    /\ UNCHANGED <<asked, spent, lost, replies>>

TakeUp(c) ==
    /\ life[c] = "accepted"
    /\ Becomes(c, "open")
    /\ UNCHANGED <<asked, spent, lost, replies>>

Refuse(c) ==
    /\ MayRefuse
    /\ life[c] = "accepted"
    /\ Becomes(c, "closed")
    /\ UNCHANGED <<asked, spent, lost, replies>>

Answer(c) ==
    /\ life[c] = "open" /\ c \in asked \ lost /\ replies[c] = 0
    /\ replies' = [replies EXCEPT ![c] = 1]
    /\ UNCHANGED <<life, asked, spent, lost>>

Close(c) ==
    /\ life[c] = "open"
    /\ replies[c] = 1 \/ c \in lost \/ c \in spent \ asked
    /\ Becomes(c, "closed")
    /\ UNCHANGED <<asked, spent, lost, replies>>

\* The answer to c ends the server, and every connection with it.
End(c) ==
    /\ life[c] = "open" /\ c \in asked \cap lost /\ replies[c] = 0
    /\ life' = [d \in Conns |-> IF life[d] = "none" THEN "none" ELSE "closed"]
    /\ UNCHANGED <<asked, spent, lost, replies>>

-----------------------------------------------------------------------------

Next ==
    \E c \in Conns :
        \/ Connect(c) \/ Move(c)
        \/ Accept(c) \/ TakeUp(c) \/ Refuse(c)
        \/ Answer(c) \/ Close(c) \/ End(c)

Spec == Init /\ [][Next]_vars
=============================================================================
