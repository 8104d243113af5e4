------------------------------ MODULE Allocator ------------------------------
(***************************************************************************)
(* web::Allocator of include/web/allocator.h, the free list from which the *)
(* class's operator new takes every ConnectionContext.  One static object  *)
(* serves all servers of the process and has no lock, so a step is one     *)
(* access to freeStore or to a block's next field.                         *)
(*                                                                         *)
(* A block is <<chunk, position>>.  Two values are not blocks: Null, and   *)
(* Wild for any other address.  malloc does not clear its memory: Leftover *)
(* is what a fresh block may hold where next will be (the address of a     *)
(* block from an earlier life of that memory is left out).                 *)
(***************************************************************************)
EXTENDS Integers, FiniteSets

CONSTANTS
    Threads,
    CHUNK,
    Null,
    Wild,
    Leftover,
    MaxChunks     \* bound: how often malloc is called

ASSUME ChunkAssumption ==
    CHUNK \in Nat /\ CHUNK >= 2 /\ MaxChunks \in Nat
ASSUME ValuesAssumption ==
    /\ Null # Wild
    /\ Leftover \subseteq {Null, Wild} /\ Leftover # {}
    /\ {Null, Wild} \cap ((1..MaxChunks) \X (1..CHUNK)) = {}

VARIABLES
    freeStore,
    next,         \* obj::next, where a block in use holds its object instead
    chunks,       \* how often malloc has been called
    pc,
    p,            \* the local p of allocate, the argument of deallocate
    held,         \* blocks each thread has been given and not given back
    strayed       \* history: something was handed out that malloc never returned

vars == <<freeStore, next, chunks, pc, p, held, strayed>>

Chunk(k) == {k} \X (1..CHUNK)
Blocks   == (1..MaxChunks) \X (1..CHUNK)
Owned    == (1..chunks) \X (1..CHUNK)     \* what malloc has returned so far
InUse    == UNION {held[t] : t \in Threads}

TypeOK ==
    /\ freeStore \in Blocks \cup {Null, Wild}
    /\ next \in [Blocks \cup {Wild} -> Blocks \cup {Null, Wild}]
    /\ chunks \in 0..MaxChunks
    /\ pc \in [Threads -> {"idle", "malloc", "link", "take", "advance", "push"}]
    /\ p \in [Threads -> Blocks \cup {Null, Wild}]
    /\ held \in [Threads -> SUBSET (Blocks \cup {Wild})]
    /\ strayed \in BOOLEAN

Init ==
    /\ freeStore = Null
    /\ next = [b \in Blocks \cup {Wild} |-> Wild]
    /\ chunks = 0
    /\ pc = [t \in Threads |-> "idle"]
    /\ p = [t \in Threads |-> Null]
    /\ held = [t \in Threads |-> {}]
    /\ strayed = FALSE

Goto(t, step) == pc' = [pc EXCEPT ![t] = step]

\* allocate: if (!freeStore)
Allocate(t) ==
    /\ pc[t] = "idle"
    /\ freeStore = Null => chunks < MaxChunks
    /\ Goto(t, IF freeStore = Null THEN "malloc" ELSE "take")
    /\ UNCHANGED <<freeStore, next, chunks, p, held, strayed>>

\* freeStore = malloc(size * CHUNK); p = freeStore
Malloc(t) ==
    /\ pc[t] = "malloc"
    /\ chunks < MaxChunks
    /\ chunks' = chunks + 1
    /\ freeStore' = <<chunks + 1, 1>>
    /\ p' = [p EXCEPT ![t] = <<chunks + 1, 1>>]
    /\ \E garbage \in [Chunk(chunks + 1) -> Leftover] :
          next' = [b \in Blocks \cup {Wild} |->
                      IF b \in Chunk(chunks + 1) THEN garbage[b] ELSE next[b]]
    /\ Goto(t, "link")
    /\ UNCHANGED <<held, strayed>>

\* Mutant of Link: the loop runs once too often.
LinkTooFar(t) ==
    LET k == p[t][1]
        i == p[t][2]
    IN  /\ pc[t] = "link"
        /\ next' = [next EXCEPT ![p[t]] = <<k, i + 1>>]
        /\ p' = [p EXCEPT ![t] = <<k, i + 1>>]
        /\ Goto(t, IF i = CHUNK THEN "take" ELSE "link")
        /\ UNCHANGED <<freeStore, chunks, held, strayed>>

\* One round of the loop.  The last block is reached and never linked.
Link(t) ==
    LET k == p[t][1]
        i == p[t][2]
    IN  /\ pc[t] = "link"
        /\ next' = [next EXCEPT ![p[t]] = <<k, i + 1>>]
        /\ p' = [p EXCEPT ![t] = <<k, i + 1>>]
        /\ Goto(t, IF i + 1 = CHUNK THEN "take" ELSE "link")
        /\ UNCHANGED <<freeStore, chunks, held, strayed>>

\* p = freeStore
Take(t) ==
    /\ pc[t] = "take"
    /\ p' = [p EXCEPT ![t] = freeStore]
    /\ Goto(t, "advance")
    /\ UNCHANGED <<freeStore, next, chunks, held, strayed>>

\* Mutant of Advance: the block stays at the head of the list.
AdvanceForgotten(t) ==
    /\ pc[t] = "advance"
    /\ p[t] # Null
    /\ next' = [next EXCEPT ![p[t]] = Wild]
    /\ held' = [held EXCEPT ![t] = @ \cup {p[t]}]
    /\ strayed' = (strayed \/ p[t] \notin Owned)
    /\ Goto(t, "idle")
    /\ UNCHANGED <<freeStore, chunks, p>>

\* freeStore = freeStore->next; return p.  The caller's object then covers the
\* block's next field.  With p null the process is gone.
Advance(t) ==
    /\ pc[t] = "advance"
    /\ p[t] # Null
    /\ freeStore' = next[p[t]]
    /\ next' = [next EXCEPT ![p[t]] = Wild]
    /\ held' = [held EXCEPT ![t] = @ \cup {p[t]}]
    /\ strayed' = (strayed \/ p[t] \notin Owned)
    /\ Goto(t, "idle")
    /\ UNCHANGED <<chunks, p>>

\* Mutant of Deallocate: the block is not linked to the rest of the list.
DeallocateUnlinked(t) ==
    /\ pc[t] = "idle"
    /\ \E b \in held[t] :
          /\ p' = [p EXCEPT ![t] = b]
          /\ held' = [held EXCEPT ![t] = @ \ {b}]
          /\ next' = [next EXCEPT ![b] = Null]
    /\ Goto(t, "push")
    /\ UNCHANGED <<freeStore, chunks, strayed>>

\* deallocate: static_cast<struct obj*>(p)->next = freeStore
Deallocate(t) ==
    /\ pc[t] = "idle"
    /\ \E b \in held[t] :
          /\ p' = [p EXCEPT ![t] = b]
          /\ held' = [held EXCEPT ![t] = @ \ {b}]
          /\ next' = [next EXCEPT ![b] = freeStore]
    /\ Goto(t, "push")
    /\ UNCHANGED <<freeStore, chunks, strayed>>

\* freeStore = static_cast<struct obj*>(p)
PushFront(t) ==
    /\ pc[t] = "push"
    /\ freeStore' = p[t]
    /\ Goto(t, "idle")
    /\ UNCHANGED <<next, chunks, p, held, strayed>>

Next ==
    \E t \in Threads :
        \/ Allocate(t) \/ Malloc(t) \/ Link(t) \/ Take(t) \/ Advance(t)
        \/ Deallocate(t) \/ PushFront(t)

Spec == Init /\ [][Next]_vars

-----------------------------------------------------------------------------
(* Properties *)

\* What may stand behind the last block of the list: the loop that links a chunk
\* leaves its last block as malloc returned it.
Ends == {Null} \cup Leftover

\* allocate never returns memory that already holds somebody's object: what it
\* returns is a block of malloc's that nobody uses, or (which is the end of all
\* promises) what malloc had left in the last block of a chunk.
HandedOutOnce ==
    ~strayed => \A t \in Threads :
        pc[t] = "advance" => p[t] \in (Owned \ InUse) \cup (Leftover \ {Null})

\* The list as operator new will walk it.
Walk[n \in Nat] ==
    IF n = 0 THEN freeStore
    ELSE IF Walk[n - 1] \in Owned THEN next[Walk[n - 1]] ELSE Walk[n - 1]

Listed == {Walk[n] : n \in 0..CHUNK * chunks} \cap Owned

\* Between two calls, until then, the list ends, and holds exactly the blocks that
\* nobody uses: whatever the order of returns and the contents of fresh memory,
\* none is lost and none is shared.
Conserved ==
    ~strayed /\ (\A t \in Threads : pc[t] = "idle") =>
        /\ Walk[CHUNK * chunks] \in Ends
        /\ Listed = Owned \ InUse

\* allocator.h:41, when there is no space left it is requested: allocate only
\* hands out memory it has obtained from malloc.
OnlyRequestedMemory == InUse \subseteq Owned
=============================================================================
