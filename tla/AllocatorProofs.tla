--------------------------- MODULE AllocatorProofs ---------------------------
(***************************************************************************)
(* Proofs about Allocator, whatever fresh memory holds.  Its types hold    *)
(* for any threads.  The rest is about what its code is meant for, one     *)
(* thread: for any CHUNK and any number of chunks, and whatever the order  *)
(* in which blocks are given back, the free list has exactly the blocks    *)
(* that nobody uses, each once, until it hands out what is none of them.   *)
(***************************************************************************)
EXTENDS Allocator, FiniteSetTheorems, WellFoundedInduction, TLAPS

(***************************************************************************)
(* The inductive invariant                                                 *)
(***************************************************************************)

OneUser(t) == Threads = {t}

\* The first n blocks from head on, along a function nxt, are those of S, each once,
\* and e comes behind them.
Enumerates(L, n, e, nxt, head, S) ==
    /\ L \in [1..n -> S]
    /\ \A i, k \in 1..n : L[i] = L[k] => i = k
    /\ \A b \in S : \E i \in 1..n : L[i] = b
    /\ head = IF n = 0 THEN e ELSE L[1]
    /\ \A i \in 1..n : nxt[L[i]] = IF i = n THEN e ELSE L[i + 1]

IsList(nxt, head, S) ==
    \E n \in Nat, e \in Ends : \E L : Enumerates(L, n, e, nxt, head, S)

Free(t) == Owned \ held[t]

\* The chunk that malloc has just returned, linked up to its block i.
Linked(i) ==
    \A j \in 1..CHUNK :
        IF j < i THEN next[<<chunks, j>>] = <<chunks, j + 1>>
                 ELSE next[<<chunks, j>>] \in Leftover

\* The free list, and what allocate and deallocate are about to do with it.
Kept(t) ==
    /\ held[t] \subseteq Owned
    /\ pc[t] \in {"idle", "malloc", "take", "advance"} => IsList(next, freeStore, Free(t))
    /\ pc[t] = "malloc" => freeStore = Null
    /\ pc[t] \in {"take", "advance"} => freeStore # Null
    /\ pc[t] = "advance" => p[t] = freeStore
    /\ pc[t] = "link" =>
          /\ Free(t) = Chunk(chunks) /\ freeStore = <<chunks, 1>> /\ chunks >= 1
          /\ \E i \in 1..CHUNK - 1 : p[t] = <<chunks, i>> /\ Linked(i)
    /\ pc[t] = "push" =>
          /\ p[t] \in Free(t) /\ next[p[t]] = freeStore
          /\ IsList(next, freeStore, Free(t) \ {p[t]})

\* Types, and the block that the loop of allocate has come to.
TypeInv ==
    /\ TypeOK
    /\ \A t \in Threads : pc[t] = "link" => p[t] \in (1..chunks) \X (1..CHUNK - 1)

Inv(t) == TypeInv /\ (~strayed => Kept(t))

LEMMA Sizes == /\ CHUNK \in Nat /\ CHUNK >= 2 /\ MaxChunks \in Nat
               /\ Null # Wild /\ Null \notin Blocks /\ Wild \notin Blocks
               /\ Leftover \subseteq {Null, Wild} /\ Leftover # {}
               /\ Null \in Ends /\ Ends \subseteq {Null, Wild}
BY ChunkAssumption, ValuesAssumption DEF Blocks, Ends

LEMMA InUseIsHeld ==
    ASSUME NEW t, OneUser(t) PROVE InUse = held[t]
BY DEF OneUser, InUse

(***************************************************************************)
(* Lists                                                                   *)
(***************************************************************************)

\* The first block of a list, or what an empty one ends with.
LEMMA ListHead ==
    ASSUME NEW S, S \cap Ends = {}, NEW nxt, NEW head, IsList(nxt, head, S)
    PROVE  /\ head \in S \/ (head \in Ends /\ S = {})
           /\ head = Null => S = {}
<1>1. PICK n \in Nat, e \in Ends : \E L : Enumerates(L, n, e, nxt, head, S)
    BY DEF IsList
<1>2. PICK L : Enumerates(L, n, e, nxt, head, S)
    BY <1>1
<1>3. CASE n = 0
    BY <1>2, <1>3 DEF Enumerates
<1>4. CASE n # 0
    <2>1. 1 \in 1..n
        BY <1>4
    <2>2. L[1] \in S /\ head = L[1]
        BY <1>2, <1>4, <2>1 DEF Enumerates
    <2> QED
        BY <2>2, Sizes
<1> QED
    BY <1>3, <1>4

LEMMA ListEmpty == \A nxt : IsList(nxt, Null, {})
<1> SUFFICES ASSUME NEW nxt PROVE IsList(nxt, Null, {})
    OBVIOUS
<1>1. Enumerates([i \in 1..0 |-> Null], 0, Null, nxt, Null, {})
    BY DEF Enumerates
<1> QED
    BY <1>1, Sizes DEF IsList

\* A list whose blocks keep their next fields.
LEMMA ListKept ==
    ASSUME NEW S, NEW head, NEW nxt, NEW new, IsList(nxt, head, S),
           \A b \in S : new[b] = nxt[b]
    PROVE  IsList(new, head, S)
BY DEF IsList, Enumerates

\* The rest of a list, behind its head.
LEMMA ListPop ==
    ASSUME NEW S, NEW head, NEW nxt, IsList(nxt, head, S), S # {}
    PROVE  head \in S /\ IsList(nxt, nxt[head], S \ {head})
<1>1. PICK n \in Nat, e \in Ends : \E L : Enumerates(L, n, e, nxt, head, S)
    BY DEF IsList
<1>2. PICK L : Enumerates(L, n, e, nxt, head, S)
    BY <1>1
<1>3. n - 1 \in Nat /\ n >= 1 /\ 1 \in 1..n
    BY <1>2 DEF Enumerates
<1>4. /\ L \in [1..n -> S] /\ head = L[1] /\ head \in S
      /\ \A i, k \in 1..n : L[i] = L[k] => i = k
      /\ \A b \in S : \E i \in 1..n : L[i] = b
      /\ \A i \in 1..n : nxt[L[i]] = IF i = n THEN e ELSE L[i + 1]
    BY <1>2, <1>3 DEF Enumerates
<1> DEFINE M == [i \in 1..n - 1 |-> L[i + 1]]
<1>5. ASSUME NEW i \in 1..n - 1
      PROVE  /\ i + 1 \in 1..n /\ i + 1 # 1
             /\ M[i] = L[i + 1] /\ M[i] \in S \ {head}
    BY <1>3, <1>4
<1>6. ASSUME NEW i \in 1..n - 1, NEW k \in 1..n - 1, M[i] = M[k]
      PROVE  i = k
    <2>1. i + 1 = k + 1
        BY <1>4, <1>5, <1>6
    <2> QED
        BY <2>1
<1>7. ASSUME NEW b \in S \ {head}
      PROVE  \E i \in 1..n - 1 : M[i] = b
    <2>1. PICK i \in 1..n : L[i] = b
        BY <1>4
    <2>2. i # 1 /\ i - 1 \in 1..n - 1 /\ (i - 1) + 1 = i
        BY <1>3, <1>4, <2>1
    <2> QED
        BY <2>1, <2>2
<1>8. nxt[head] = IF n - 1 = 0 THEN e ELSE M[1]
    BY <1>3, <1>4
<1>9. ASSUME NEW i \in 1..n - 1
      PROVE  nxt[M[i]] = IF i = n - 1 THEN e ELSE M[i + 1]
    <2>1. nxt[L[i + 1]] = IF i + 1 = n THEN e ELSE L[(i + 1) + 1]
        BY <1>4, <1>5
    <2>2. i # n - 1 => i + 1 \in 1..n - 1 /\ i + 1 # n
        BY <1>3
    <2>3. i = n - 1 => i + 1 = n
        BY <1>3
    <2> QED
        BY <1>5, <2>1, <2>2, <2>3
<1>10. M \in [1..n - 1 -> S \ {head}]
    BY <1>5
<1> HIDE DEF M
<1>11. Enumerates(M, n - 1, e, nxt, nxt[head], S \ {head})
    BY <1>6, <1>7, <1>8, <1>9, <1>10 DEF Enumerates
<1> QED
    BY <1>3, <1>4, <1>11 DEF IsList

\* A list with a block put before its head.
LEMMA ListPush ==
    ASSUME NEW S, NEW b, b \notin S, NEW nxt, IsList(nxt, nxt[b], S)
    PROVE  IsList(nxt, b, S \cup {b})
<1> DEFINE head == nxt[b]
<1>1. PICK n \in Nat, e \in Ends : \E L : Enumerates(L, n, e, nxt, head, S)
    BY DEF IsList
<1>2. PICK L : Enumerates(L, n, e, nxt, head, S)
    BY <1>1
<1>3. /\ L \in [1..n -> S] /\ head = IF n = 0 THEN e ELSE L[1]
      /\ \A i, k \in 1..n : L[i] = L[k] => i = k
      /\ \A x \in S : \E i \in 1..n : L[i] = x
      /\ \A i \in 1..n : nxt[L[i]] = IF i = n THEN e ELSE L[i + 1]
    BY <1>2 DEF Enumerates
<1> DEFINE M == [i \in 1..n + 1 |-> IF i = 1 THEN b ELSE L[i - 1]]
<1>4. ASSUME NEW i \in 1..n + 1
      PROVE  \/ i = 1 /\ M[i] = b
             \/ i # 1 /\ i - 1 \in 1..n /\ M[i] = L[i - 1] /\ M[i] \in S
    BY <1>3
<1>5. 1 \in 1..n + 1 /\ n + 1 \in Nat /\ M[1] = b
    OBVIOUS
<1>6. ASSUME NEW i \in 1..n + 1, NEW k \in 1..n + 1, M[i] = M[k]
      PROVE  i = k
    <2>1. CASE i = 1 \/ k = 1
        BY <1>4, <1>6, <2>1
    <2>2. CASE i # 1 /\ k # 1
        <3>1. i - 1 = k - 1
            BY <1>3, <1>4, <1>6, <2>2
        <3> QED
            BY <3>1
    <2> QED
        BY <2>1, <2>2
<1>7. ASSUME NEW x \in S
      PROVE  \E i \in 1..n + 1 : M[i] = x
    <2>1. PICK i \in 1..n : L[i] = x
        BY <1>3
    <2>2. i + 1 \in 1..n + 1 /\ i + 1 # 1 /\ (i + 1) - 1 = i
        OBVIOUS
    <2> QED
        BY <2>1, <2>2
<1>8. ASSUME NEW i \in 1..n + 1
      PROVE  nxt[M[i]] = IF i = n + 1 THEN e ELSE M[i + 1]
    <2>1. i # n + 1 => i + 1 \in 1..n + 1 /\ i + 1 # 1 /\ (i + 1) - 1 = i /\ i \in 1..n
        OBVIOUS
    <2>2. i # n + 1 => M[i + 1] = L[i]
        BY <2>1
    <2>3. CASE i = 1
        BY <1>3, <1>4, <2>2, <2>3
    <2>4. CASE i # 1
        <3>1. nxt[L[i - 1]] = IF i - 1 = n THEN e ELSE L[(i - 1) + 1]
            BY <1>3, <1>4, <2>4
        <3> QED
            BY <1>4, <2>2, <2>4, <3>1
    <2> QED
        BY <2>3, <2>4
<1>9. M \in [1..n + 1 -> S \cup {b}]
    BY <1>4
<1> HIDE DEF M
<1>10. Enumerates(M, n + 1, e, nxt, b, S \cup {b})
    BY <1>5, <1>6, <1>7, <1>8, <1>9 DEF Enumerates
<1> QED
    BY <1>5, <1>10 DEF IsList

\* A chunk whose blocks are linked, all but the last, is a list.
LEMMA LinkedChunk ==
    ASSUME NEW k \in Nat, NEW nxt,
           \A j \in 1..CHUNK : IF j < CHUNK THEN nxt[<<k, j>>] = <<k, j + 1>>
                                           ELSE nxt[<<k, j>>] \in Leftover
    PROVE  IsList(nxt, <<k, 1>>, Chunk(k))
<1> DEFINE M == [i \in 1..CHUNK |-> <<k, i>>]
           e == nxt[<<k, CHUNK>>]
<1>1. CHUNK \in Nat /\ CHUNK # 0 /\ CHUNK \in 1..CHUNK
    BY Sizes
<1>2. M \in [1..CHUNK -> Chunk(k)]
    BY DEF Chunk
<1>3. \A i, j \in 1..CHUNK : M[i] = M[j] => i = j
    OBVIOUS
<1>4. \A b \in Chunk(k) : \E i \in 1..CHUNK : M[i] = b
    BY DEF Chunk
<1>5. ASSUME NEW i \in 1..CHUNK
      PROVE  nxt[M[i]] = IF i = CHUNK THEN e ELSE M[i + 1]
    <2>1. i # CHUNK => i < CHUNK /\ i + 1 \in 1..CHUNK
        BY <1>1
    <2> QED
        BY <2>1
<1>6. M[1] = <<k, 1>>
    BY <1>1
<1>7. e \in Ends
    BY <1>1 DEF Ends
<1> HIDE DEF M, e
<1>8. Enumerates(M, CHUNK, e, nxt, <<k, 1>>, Chunk(k))
    BY <1>1, <1>2, <1>3, <1>4, <1>5, <1>6 DEF Enumerates
<1> QED
    BY <1>1, <1>7, <1>8 DEF IsList

(***************************************************************************)
(* What a walk along the list finds                                        *)
(***************************************************************************)

\* A set of numbers that is not empty has a least one.
LEMMA LeastNumber ==
    ASSUME NEW S \in SUBSET Nat, S # {}
    PROVE  \E n \in S : \A m \in S : n <= m
<1> DEFINE R == OpToRel(<, Nat)
<1>1. IsWellFoundedOn(R, Nat)
    BY NatLessThanWellFounded
<1>2. ASSUME NEW m \in Nat, NEW n \in Nat, <<m, n>> \notin R
      PROVE  n <= m
    BY <1>2 DEF OpToRel
<1> HIDE DEF R
<1>3. PICK n \in S : \A m \in S : <<m, n>> \notin R
    BY <1>1, WFMin
<1>4. ASSUME NEW m \in S PROVE n <= m
    BY <1>2, <1>3
<1> QED
    BY <1>4

\* There are chunks * CHUNK blocks, and no list of different ones is longer.
LEMMA ListLength ==
    ASSUME chunks \in Nat, NEW S, S \subseteq Owned, NEW n \in Nat,
           NEW L \in [1..n -> S], \A i, k \in 1..n : L[i] = L[k] => i = k
    PROVE  n <= CHUNK * chunks
<1>1. /\ IsFiniteSet(1..chunks) /\ Cardinality(1..chunks) = chunks
      /\ IsFiniteSet(1..CHUNK) /\ Cardinality(1..CHUNK) = CHUNK
      /\ Cardinality(1..n) = n
    BY Sizes, FS_Interval
<1>2. IsFiniteSet(Owned) /\ Cardinality(Owned) = chunks * CHUNK
    <2>1. ASSUME NEW A, NEW B, IsFiniteSet(A), IsFiniteSet(B)
          PROVE  /\ IsFiniteSet(A \X B)
                 /\ Cardinality(A \X B) = Cardinality(A) * Cardinality(B)
        BY <2>1, FS_Product, Zenon
    <2>2. /\ IsFiniteSet(Owned)
          /\ Cardinality(Owned) = Cardinality(1..chunks) * Cardinality(1..CHUNK)
        BY <1>1, <2>1, Zenon DEF Owned
    <2> QED
        BY <1>1, <2>2
<1>3. L \in Injection(1..n, Owned)
    <2>1. L \in [1..n -> Owned]
        OBVIOUS
    <2> QED
        BY <2>1 DEF Injection, IsInjective
<1>4. Cardinality(1..n) <= Cardinality(Owned)
    BY <1>2, <1>3, FS_Injection
<1>5. chunks * CHUNK = CHUNK * chunks
    BY Sizes
<1> QED
    BY <1>1, <1>2, <1>4, <1>5

\* The walk takes the list's blocks in their order and then stays where it ends.
LEMMA WalkAlong ==
    ASSUME NEW e, e \notin Owned, NEW S, S \subseteq Owned, NEW n \in Nat, NEW L,
           Enumerates(L, n, e, next, freeStore, S)
    PROVE  \A m \in Nat : Walk[m] = IF m < n THEN L[m + 1] ELSE e
<1> DEFINE W    == [m \in Nat |-> IF m < n THEN L[m + 1] ELSE e]
           G(f) == [m \in Nat |->
                       IF m = 0 THEN freeStore
                       ELSE IF f[m - 1] \in Owned THEN next[f[m - 1]] ELSE f[m - 1]]
<1>1. /\ freeStore = IF n = 0 THEN e ELSE L[1]
      /\ \A i \in 1..n : L[i] \in Owned /\ next[L[i]] = IF i = n THEN e ELSE L[i + 1]
    BY DEF Enumerates
<1>2. W[0] = freeStore
    BY <1>1
<1>3. ASSUME NEW m \in Nat, m # 0
      PROVE  W[m] = IF W[m - 1] \in Owned THEN next[W[m - 1]] ELSE W[m - 1]
    <2>1. m - 1 \in Nat /\ (m - 1) + 1 = m
        BY <1>3
    <2>2. CASE m <= n
        <3>1. m \in 1..n /\ m - 1 < n /\ (m < n <=> m # n)
            BY <1>3, <2>2
        <3>2. W[m - 1] = L[m] /\ W[m] = IF m = n THEN e ELSE L[m + 1]
            BY <2>1, <3>1
        <3> QED
            BY <1>1, <3>1, <3>2
    <2>3. CASE ~(m <= n)
        <3>1. ~(m < n) /\ ~(m - 1 < n)
            BY <2>1, <2>3
        <3>2. W[m - 1] = e /\ W[m] = e
            BY <2>1, <3>1
        <3> QED
            BY <3>2
    <2> QED
        BY <2>2, <2>3
<1>4. W = G(W)
    BY <1>2, <1>3
<1>5. Walk = CHOOSE f : f = G(f)
    BY DEF Walk
<1>6. Walk = G(Walk)
    <2> HIDE DEF W, G
    <2> QED
        BY <1>4, <1>5
<1>7. /\ Walk[0] = freeStore
      /\ \A m \in Nat : m # 0 =>
            Walk[m] = IF Walk[m - 1] \in Owned THEN next[Walk[m - 1]] ELSE Walk[m - 1]
    BY <1>6
<1> DEFINE Bad == {m \in Nat : Walk[m] # W[m]}
<1>8. Bad = {}
    <2> SUFFICES ASSUME Bad # {} PROVE FALSE
        OBVIOUS
    <2>1. PICK m \in Bad : \A k \in Bad : m <= k
        BY LeastNumber
    <2>2. m \in Nat /\ Walk[m] # W[m]
        OBVIOUS
    <2>3. m # 0
        BY <1>2, <1>7, <2>2
    <2>4. m - 1 \in Nat /\ m - 1 \notin Bad
        BY <2>1, <2>2, <2>3
    <2>5. Walk[m - 1] = W[m - 1]
        BY <2>4
    <2> HIDE DEF W
    <2> QED
        BY <1>3, <1>7, <2>2, <2>3, <2>5
<1> QED
    BY <1>8

(***************************************************************************)
(* The invariant holds                                                     *)
(***************************************************************************)

LEMMA TypeInvInit == Init => TypeInv
<1> SUFFICES ASSUME Init PROVE TypeInv
    OBVIOUS
<1>1. TypeOK
    <2>1. 0 \in 0..MaxChunks
        BY Sizes
    <2>2. strayed \in BOOLEAN
        BY DEF Init
    <2> QED
        BY <2>1, <2>2 DEF Init, TypeOK
<1>2. \A t \in Threads : pc[t] # "link"
    BY DEF Init
<1> QED
    BY <1>1, <1>2 DEF TypeInv

\* No step leaves the types, whoever takes it and whatever it has been handed.
LEMMA TypeInvStep == TypeInv /\ [Next]_vars => TypeInv'
<1> SUFFICES ASSUME TypeInv, [Next]_vars PROVE TypeInv'
    OBVIOUS
<1> USE Sizes DEF TypeInv, TypeOK, Goto
<1>1. 1..chunks \subseteq 1..MaxChunks /\ chunks \in Nat
    OBVIOUS
<1>2. ASSUME NEW t \in Threads, Allocate(t)
      PROVE  TypeInv'
    BY <1>2 DEF Allocate
<1>3. ASSUME NEW t \in Threads, Malloc(t)
      PROVE  TypeInv'
    <2>1. /\ chunks + 1 \in 1..MaxChunks /\ 1 \in 1..CHUNK /\ 1 \in 1..CHUNK - 1
          /\ chunks' = chunks + 1 /\ chunks' \in 0..MaxChunks
          /\ 1..chunks \subseteq 1..chunks'
        BY <1>1, <1>3 DEF Malloc
    <2>2. <<chunks + 1, 1>> \in Blocks
        BY <2>1 DEF Blocks
    <2>3. next' \in [Blocks \cup {Wild} -> Blocks \cup {Null, Wild}]
        <3>1. PICK garbage \in [Chunk(chunks + 1) -> Leftover] :
                  next' = [b \in Blocks \cup {Wild} |->
                              IF b \in Chunk(chunks + 1) THEN garbage[b] ELSE next[b]]
            BY <1>3 DEF Malloc
        <3> QED
            BY <3>1
    <2>4. /\ p' = [p EXCEPT ![t] = <<chunks + 1, 1>>]
          /\ freeStore' = <<chunks + 1, 1>>
          /\ pc' = [pc EXCEPT ![t] = "link"]
          /\ UNCHANGED <<held, strayed>>
        BY <1>3 DEF Malloc
    <2>5. TypeOK'
        BY <2>1, <2>2, <2>3, <2>4
    <2>6. ASSUME NEW u \in Threads, pc'[u] = "link"
          PROVE  p'[u] \in (1..chunks') \X (1..CHUNK - 1)
        <3>1. CASE u = t
            BY <2>1, <2>4, <3>1
        <3>2. CASE u # t
            BY <2>1, <2>4, <2>6, <3>2
        <3> QED
            BY <3>1, <3>2
    <2> QED
        BY <2>5, <2>6
<1>4. ASSUME NEW t \in Threads, Link(t)
      PROVE  TypeInv'
    <2>1. PICK k \in 1..chunks, i \in 1..CHUNK - 1 : p[t] = <<k, i>>
        BY <1>4 DEF Link
    <2>2. /\ next' = [next EXCEPT ![<<k, i>>] = <<k, i + 1>>]
          /\ p' = [p EXCEPT ![t] = <<k, i + 1>>]
          /\ pc' = [pc EXCEPT ![t] = IF i + 1 = CHUNK THEN "take" ELSE "link"]
          /\ UNCHANGED <<freeStore, chunks, held, strayed>>
        BY <1>4, <2>1 DEF Link
    <2>3. /\ i + 1 \in 1..CHUNK /\ (i + 1 # CHUNK => i + 1 \in 1..CHUNK - 1)
          /\ k \in 1..MaxChunks
        BY <1>1, <2>1
    <2>4. <<k, i + 1>> \in Blocks
        BY <2>3 DEF Blocks
    <2>5. TypeOK'
        BY <2>2, <2>4
    <2>6. ASSUME NEW u \in Threads, pc'[u] = "link"
          PROVE  p'[u] \in (1..chunks) \X (1..CHUNK - 1)
        <3>1. CASE u = t
            BY <2>1, <2>2, <2>3, <2>6, <3>1
        <3>2. CASE u # t
            BY <2>2, <2>6, <3>2
        <3> QED
            BY <3>1, <3>2
    <2> QED
        BY <2>2, <2>5, <2>6
<1>5. ASSUME NEW t \in Threads, Take(t) \/ PushFront(t)
      PROVE  TypeInv'
    BY <1>5 DEF Take, PushFront
<1>6. ASSUME NEW t \in Threads, Advance(t)
      PROVE  TypeInv'
    <2>1. p[t] \in Blocks \cup {Wild}
        BY <1>6 DEF Advance
    <2> QED
        BY <1>6, <2>1 DEF Advance
<1>7. ASSUME NEW t \in Threads, Deallocate(t)
      PROVE  TypeInv'
    <2>1. PICK b \in held[t] :
              /\ p' = [p EXCEPT ![t] = b]
              /\ held' = [held EXCEPT ![t] = @ \ {b}]
              /\ next' = [next EXCEPT ![b] = freeStore]
        BY <1>7 DEF Deallocate
    <2>2. b \in Blocks \cup {Wild}
        OBVIOUS
    <2> QED
        BY <1>7, <2>1, <2>2 DEF Deallocate
<1>8. CASE UNCHANGED vars
    BY <1>8 DEF vars
<1> QED
    BY <1>2, <1>3, <1>4, <1>5, <1>6, <1>7, <1>8 DEF Next

LEMMA KeptInit ==
    ASSUME NEW t, OneUser(t), Init PROVE Kept(t)
<1>1. held[t] = {} /\ Owned = {} /\ pc[t] = "idle" /\ freeStore = Null
    BY Sizes DEF Init, OneUser, Owned
<1> QED
    BY <1>1, ListEmpty DEF Kept, Free

\* What is used everywhere of the only thread's state.
LEMMA Basics ==
    ASSUME NEW t, OneUser(t), TypeInv, Kept(t)
    PROVE  /\ TypeOK /\ t \in Threads
           /\ chunks \in Nat /\ chunks <= MaxChunks
           /\ Owned \subseteq Blocks /\ held[t] \subseteq Owned
           /\ Free(t) \subseteq Owned
           /\ Owned \cap Ends = {} /\ Free(t) \cap Ends = {}
<1>1. /\ TypeOK /\ t \in Threads /\ held[t] \subseteq Owned
      /\ chunks \in 0..MaxChunks
    BY DEF Kept, OneUser, TypeInv, TypeOK
<1>2. 1..chunks \subseteq 1..MaxChunks
    BY <1>1, Sizes
<1>3. Owned \subseteq Blocks
    BY <1>2 DEF Owned, Blocks
<1> QED
    BY <1>1, <1>3, Sizes DEF Free

LEMMA AllocateStep ==
    ASSUME NEW t, OneUser(t), TypeInv, Kept(t), Allocate(t)
    PROVE  Kept(t)'
<1>1. /\ pc[t] = "idle" /\ UNCHANGED <<freeStore, next, chunks, p, held>>
      /\ \/ freeStore = Null /\ pc' = [pc EXCEPT ![t] = "malloc"]
         \/ freeStore # Null /\ pc' = [pc EXCEPT ![t] = "take"]
    BY DEF Allocate, Goto
<1>2. Free(t)' = Free(t) /\ Owned' = Owned
    BY <1>1 DEF Free, Owned
<1> QED
    BY <1>1, <1>2, Basics DEF Kept, TypeOK

\* malloc is called when every block is in use; then the new chunk is free.
LEMMA MallocStep ==
    ASSUME NEW t, OneUser(t), TypeInv, Kept(t), Malloc(t)
    PROVE  Kept(t)'
<1> DEFINE k == chunks + 1
<1>1. /\ pc[t] = "malloc" /\ chunks < MaxChunks
      /\ chunks' = k /\ freeStore' = <<k, 1>>
      /\ p' = [p EXCEPT ![t] = <<k, 1>>]
      /\ pc' = [pc EXCEPT ![t] = "link"] /\ held' = held
    BY DEF Malloc, Goto
<1>2. PICK garbage \in [Chunk(k) -> Leftover] :
          next' = [b \in Blocks \cup {Wild} |->
                      IF b \in Chunk(k) THEN garbage[b] ELSE next[b]]
    BY DEF Malloc
<1>3. k \in 1..MaxChunks /\ k >= 1 /\ 1 \in 1..CHUNK /\ 1 \in 1..CHUNK - 1
    BY <1>1, Basics, Sizes
<1>4. /\ Chunk(k) \subseteq Blocks
      /\ \A j \in 1..CHUNK : <<k, j>> \in Chunk(k)
      /\ Owned' = Owned \cup Chunk(k) /\ Owned \cap Chunk(k) = {}
    <2>1. Chunk(k) \subseteq Blocks /\ \A j \in 1..CHUNK : <<k, j>> \in Chunk(k)
        BY <1>3 DEF Blocks, Chunk
    <2>2. 1..chunks' = (1..chunks) \cup {k} /\ k \notin 1..chunks
        BY <1>1, Basics
    <2> QED
        BY <2>1, <2>2, Zenon DEF Chunk, Owned
<1>5. Free(t) = {}
    BY <1>1, Basics, ListHead DEF Kept
<1>6. Free(t)' = Chunk(k)
    BY <1>1, <1>4, <1>5, Basics DEF Free
<1>7. Linked(1)'
    <2>1. ASSUME NEW j \in 1..CHUNK
          PROVE  next'[<<k, j>>] \in Leftover /\ ~(j < 1)
        BY <1>2, <1>4, Sizes
    <2> QED
        BY <1>1, <2>1 DEF Linked
<1>8. held'[t] \subseteq Owned' /\ pc'[t] = "link" /\ p'[t] = <<k, 1>>
    BY <1>1, <1>4, Basics DEF TypeOK
<1> QED
    BY <1>1, <1>3, <1>6, <1>7, <1>8 DEF Kept, Chunk

LEMMA LinkStep ==
    ASSUME NEW t, OneUser(t), TypeInv, Kept(t), Link(t)
    PROVE  Kept(t)'
<1>1. /\ pc[t] = "link" /\ chunks >= 1
      /\ Free(t) = Chunk(chunks) /\ freeStore = <<chunks, 1>>
    BY DEF Link, Kept
<1>2. PICK i \in 1..CHUNK - 1 : p[t] = <<chunks, i>> /\ Linked(i)
    BY <1>1 DEF Kept
<1>3. /\ next' = [next EXCEPT ![<<chunks, i>>] = <<chunks, i + 1>>]
      /\ p' = [p EXCEPT ![t] = <<chunks, i + 1>>]
      /\ pc' = [pc EXCEPT ![t] = IF i + 1 = CHUNK THEN "take" ELSE "link"]
      /\ UNCHANGED <<freeStore, chunks, held>>
    BY <1>2 DEF Link, Goto
<1>4. /\ i \in 1..CHUNK /\ i + 1 \in 1..CHUNK /\ i \in Nat
      /\ i + 1 # CHUNK => i + 1 \in 1..CHUNK - 1
      /\ chunks \in 1..MaxChunks /\ chunks \in Nat
    BY <1>1, Basics, Sizes
<1>5. \A j \in 1..CHUNK : <<chunks, j>> \in Blocks
    BY <1>4 DEF Blocks
<1>6. Linked(i + 1)'
    <2>1. ASSUME NEW j \in 1..CHUNK
          PROVE  IF j < i + 1 THEN next'[<<chunks, j>>] = <<chunks, j + 1>>
                              ELSE next'[<<chunks, j>>] \in Leftover
        <3>1. CASE j = i
            BY <1>3, <1>4, <1>5, <3>1, Basics DEF TypeOK
        <3>2. CASE j # i
            <4>1. next'[<<chunks, j>>] = next[<<chunks, j>>]
                BY <1>3, <1>5, <3>2, Basics DEF TypeOK
            <4>2. j < i + 1 <=> j < i
                BY <1>4, <3>2
            <4> QED
                BY <1>2, <4>1, <4>2 DEF Linked
        <3> QED
            BY <3>1, <3>2
    <2> QED
        BY <1>3, <2>1 DEF Linked
<1>7. /\ Free(t)' = Free(t) /\ Owned' = Owned /\ held' = held
      /\ Chunk(chunks)' = Chunk(chunks)
      /\ pc'[t] = (IF i + 1 = CHUNK THEN "take" ELSE "link")
      /\ p'[t] = <<chunks, i + 1>>
    BY <1>3, Basics DEF Free, Owned, Chunk, TypeOK
<1>8. CASE i + 1 = CHUNK
    <2>1. IsList(next', freeStore, Chunk(chunks))
        <3>1. \A j \in 1..CHUNK :
                  IF j < CHUNK THEN next'[<<chunks, j>>] = <<chunks, j + 1>>
                               ELSE next'[<<chunks, j>>] \in Leftover
            BY <1>3, <1>6, <1>8 DEF Linked
        <3> QED
            BY <1>1, <1>4, <3>1, LinkedChunk
    <2>2. freeStore # Null
        BY <1>1, <1>4, <1>5, Sizes
    <2> QED
        BY <1>1, <1>3, <1>7, <1>8, <2>1, <2>2, Basics DEF Kept
<1>9. CASE i + 1 # CHUNK
    BY <1>1, <1>3, <1>4, <1>6, <1>7, <1>9, Basics DEF Kept
<1> QED
    BY <1>8, <1>9

LEMMA TakeStep ==
    ASSUME NEW t, OneUser(t), TypeInv, Kept(t), Take(t)
    PROVE  Kept(t)'
<1>1. /\ pc[t] = "take" /\ UNCHANGED <<freeStore, next, chunks, held>>
      /\ p' = [p EXCEPT ![t] = freeStore]
      /\ pc' = [pc EXCEPT ![t] = "advance"]
    BY DEF Take, Goto
<1>2. Free(t)' = Free(t) /\ Owned' = Owned
    BY <1>1 DEF Free, Owned
<1> QED
    BY <1>1, <1>2, Basics DEF Kept, TypeOK

\* The block that is handed out leaves the list before its next field is lost.
LEMMA AdvanceStep ==
    ASSUME NEW t, OneUser(t), TypeInv, Kept(t), Advance(t), ~strayed'
    PROVE  Kept(t)'
<1> DEFINE b == freeStore
           S == Free(t)
<1>1. /\ p[t] = b /\ b \in Owned /\ IsList(next, b, S)
      /\ freeStore' = next[b]
      /\ next' = [next EXCEPT ![b] = Wild]
      /\ held' = [held EXCEPT ![t] = @ \cup {b}]
      /\ pc' = [pc EXCEPT ![t] = "idle"]
      /\ UNCHANGED <<chunks, p>>
    BY DEF Advance, Goto, Kept
<1>2. b \in S /\ IsList(next, next[b], S \ {b})
    <2>1. b \in S
        BY <1>1, Basics, ListHead
    <2> QED
        BY <1>1, <2>1, ListPop
<1>3. b \in Owned /\ b \in Blocks /\ b \notin held[t]
    BY <1>2, Basics DEF Free
<1>4. \A x \in S \ {b} : next'[x] = next[x]
    BY <1>1, <1>3, Basics DEF TypeOK
<1>5. IsList(next', next[b], S \ {b})
    BY <1>2, <1>4, ListKept
<1>6. Free(t)' = S \ {b} /\ held'[t] \subseteq Owned' /\ pc'[t] = "idle"
    BY <1>1, <1>3, Basics DEF Free, Owned, TypeOK
<1> QED
    BY <1>1, <1>5, <1>6 DEF Kept

LEMMA DeallocateStep ==
    ASSUME NEW t, OneUser(t), TypeInv, Kept(t), Deallocate(t)
    PROVE  Kept(t)'
<1>1. PICK b \in held[t] :
          /\ p' = [p EXCEPT ![t] = b]
          /\ held' = [held EXCEPT ![t] = @ \ {b}]
          /\ next' = [next EXCEPT ![b] = freeStore]
    BY DEF Deallocate
<1>2. /\ pc[t] = "idle" /\ pc' = [pc EXCEPT ![t] = "push"]
      /\ UNCHANGED <<freeStore, chunks>>
      /\ IsList(next, freeStore, Free(t))
    BY DEF Deallocate, Goto, Kept
<1>3. b \in Owned /\ b \in Blocks /\ b \notin Free(t)
    BY Basics DEF Free
<1>4. /\ Free(t)' = Free(t) \cup {b} /\ held'[t] \subseteq Owned'
      /\ pc'[t] = "push" /\ p'[t] = b /\ next'[b] = freeStore
    BY <1>1, <1>2, <1>3, Basics DEF Free, Owned, TypeOK
<1>5. IsList(next', freeStore, Free(t))
    <2>1. \A x \in Free(t) : next'[x] = next[x]
        BY <1>1, <1>3, Basics DEF TypeOK
    <2> QED
        BY <1>2, <2>1, ListKept
<1>6. Free(t)' \ {b} = Free(t)
    BY <1>3, <1>4
<1> QED
    BY <1>2, <1>4, <1>5, <1>6 DEF Kept

LEMMA PushFrontStep ==
    ASSUME NEW t, OneUser(t), TypeInv, Kept(t), PushFront(t)
    PROVE  Kept(t)'
<1> DEFINE b == p[t]
           S == Free(t)
<1>1. /\ b \in S /\ next[b] = freeStore /\ IsList(next, freeStore, S \ {b})
      /\ freeStore' = b /\ pc' = [pc EXCEPT ![t] = "idle"]
      /\ UNCHANGED <<next, chunks, p, held>>
    BY DEF PushFront, Goto, Kept
<1>2. b \notin S \ {b} /\ (S \ {b}) \cup {b} = S
    BY <1>1
<1>3. IsList(next, b, S)
    <2>1. IsList(next, b, (S \ {b}) \cup {b})
        BY <1>1, <1>2, ListPush
    <2> QED
        BY <1>2, <2>1
<1>4. Free(t)' = S /\ Owned' = Owned /\ pc'[t] = "idle"
    BY <1>1, Basics DEF Free, Owned, TypeOK
<1> QED
    BY <1>1, <1>3, <1>4, Basics DEF Kept

LEMMA KeptStep ==
    ASSUME NEW t, OneUser(t), TypeInv, Kept(t), [Next]_vars, ~strayed'
    PROVE  Kept(t)'
<1>1. CASE Next
    BY <1>1, AllocateStep, MallocStep, LinkStep, TakeStep, AdvanceStep, DeallocateStep,
       PushFrontStep
    DEF Next, OneUser
<1>2. CASE UNCHANGED vars
    BY <1>2 DEF vars, Kept, Free, Owned, Linked, Chunk
<1> QED
    BY <1>1, <1>2

\* What has strayed stays so.
LEMMA StrayedStep == [Next]_vars /\ strayed => strayed'
BY DEF Next, Allocate, Malloc, Link, Take, Advance, Deallocate, PushFront, vars

LEMMA InvAlways ==
    ASSUME NEW t, OneUser(t) PROVE Spec => []Inv(t)
<1>1. Init => Inv(t)
    BY TypeInvInit, KeptInit DEF Inv
<1>2. Inv(t) /\ [Next]_vars => Inv(t)'
    BY TypeInvStep, KeptStep, StrayedStep DEF Inv
<1> QED
    BY <1>1, <1>2, PTL DEF Spec

(***************************************************************************)
(* Theorems                                                                *)
(***************************************************************************)

\* All state has its type, whatever the order of calls, the threads that call and
\* the contents of fresh memory.
THEOREM TypeOKAlways == Spec => []TypeOK
<1>1. TypeInv => TypeOK
    BY DEF TypeInv
<1> QED
    BY <1>1, TypeInvInit, TypeInvStep, PTL DEF Spec

\* Used by one thread, and whatever malloc returns: until something else has been
\* handed out, allocate returns a block that malloc has given it and that nobody
\* uses, or what malloc had left in the last block of a chunk.
THEOREM HandedOutOnceAlways ==
    ASSUME NEW t, Threads = {t} PROVE Spec => []HandedOutOnce
<1> USE DEF OneUser
<1>1. Inv(t) => HandedOutOnce
    <2> SUFFICES ASSUME Inv(t), ~strayed, pc[t] = "advance"
                 PROVE  p[t] \in (Owned \ InUse) \cup (Leftover \ {Null})
        BY DEF HandedOutOnce
    <2>1. TypeInv /\ Kept(t)
        BY DEF Inv
    <2>2. p[t] = freeStore /\ freeStore # Null /\ IsList(next, freeStore, Free(t))
        BY <2>1 DEF Kept
    <2>3. p[t] \in Free(t) \/ p[t] \in Ends
        BY <2>1, <2>2, Basics, ListHead
    <2> QED
        BY <2>2, <2>3, InUseIsHeld DEF Free, Ends
<1> QED
    BY <1>1, InvAlways, PTL

\* Used by one thread, and whatever malloc returns: until something else has been
\* handed out, the list ends, between two calls, and has every block that nobody
\* uses, each once: no order of returns loses a block or shares one.
THEOREM ConservedAlways ==
    ASSUME NEW t, Threads = {t} PROVE Spec => []Conserved
<1> USE DEF OneUser
<1>1. Inv(t) => Conserved
    <2> SUFFICES ASSUME Inv(t), ~strayed, pc[t] = "idle"
                 PROVE  /\ Walk[CHUNK * chunks] \in Ends
                        /\ Listed = Free(t)
        BY InUseIsHeld DEF Conserved, Free
    <2>1. TypeInv /\ Kept(t)
        BY DEF Inv
    <2>2. PICK n \in Nat, e \in Ends :
              \E L : Enumerates(L, n, e, next, freeStore, Free(t))
        BY <2>1 DEF Kept, IsList
    <2>3. PICK L : Enumerates(L, n, e, next, freeStore, Free(t))
        BY <2>2
    <2>4. e \notin Owned /\ Free(t) \subseteq Owned /\ chunks \in Nat
        BY <2>1, Basics
    <2>5. \A m \in Nat : Walk[m] = IF m < n THEN L[m + 1] ELSE e
        BY <2>3, <2>4, WalkAlong
    <2>6. /\ L \in [1..n -> Free(t)]
          /\ \A i, k \in 1..n : L[i] = L[k] => i = k
          /\ \A b \in Free(t) : \E i \in 1..n : L[i] = b
        BY <2>3 DEF Enumerates
    <2>7. n <= CHUNK * chunks
        BY <2>4, <2>6, ListLength
    <2>8. CHUNK * chunks \in Nat
        BY <2>4, Sizes
    <2>9. Walk[CHUNK * chunks] \in Ends
        BY <2>5, <2>7, <2>8
    <2>10. ASSUME NEW m \in 0..CHUNK * chunks, Walk[m] \in Owned
           PROVE  Walk[m] \in Free(t)
        <3>1. m \in Nat /\ m < n
            BY <2>4, <2>5, <2>8, <2>10
        <3>2. m + 1 \in 1..n
            BY <3>1
        <3> QED
            BY <2>5, <2>6, <3>1, <3>2
    <2>11. ASSUME NEW b \in Free(t)
           PROVE  b \in Listed
        <3>1. PICK i \in 1..n : L[i] = b
            BY <2>6
        <3>2. i - 1 \in 0..CHUNK * chunks /\ i - 1 \in Nat /\ i - 1 < n /\ (i - 1) + 1 = i
            BY <2>7, <2>8
        <3>3. Walk[i - 1] = b /\ b \in Owned
            BY <2>4, <2>5, <3>1, <3>2
        <3> QED
            BY <3>2, <3>3 DEF Listed
    <2> QED
        BY <2>9, <2>10, <2>11 DEF Listed
<1> QED
    BY <1>1, InvAlways, PTL
=============================================================================
