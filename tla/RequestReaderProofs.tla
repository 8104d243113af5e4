------------------------- MODULE RequestReaderProofs -------------------------
(***************************************************************************)
(* Proofs about RequestReader, for any streams, any segments and any size  *)
(* of the buffer: when a request is recognised, and that it is the one     *)
(* that was sent.                                                          *)
(***************************************************************************)
EXTENDS RequestReader, SequenceTheorems, FiniteSetTheorems,
        WellFoundedInduction, TLAPS

(***************************************************************************)
(* Numbers and parts of sequences                                          *)
(***************************************************************************)

\* A set of numbers that is not empty has a least one.
LEMMA LeastNumber ==
    ASSUME NEW S \in SUBSET Nat, S # {}
    PROVE  \E n \in S : \A m \in S : n <= m
<1> DEFINE R == OpToRel(<, Nat)
<1>1. IsWellFoundedOn(R, Nat)
    BY NatLessThanWellFounded
<1>2. ASSUME NEW m \in Nat, NEW n \in Nat, <<m, n>> \notin R
      PROVE  n <= m
    BY <1>2 DEF OpToRel
<1> HIDE DEF R
<1>3. PICK n \in S : \A m \in S : <<m, n>> \notin R
    BY <1>1, WFMin
<1>4. ASSUME NEW m \in S PROVE n <= m
    BY <1>2, <1>3
<1> QED
    BY <1>4

LEMMA LeastIs ==
    ASSUME NEW S \in SUBSET Nat, S # {}
    PROVE  /\ Least(S) \in S
           /\ \A m \in S : Least(S) <= m
<1>1. \E n \in S : \A m \in S : n <= m
    BY LeastNumber
<1> QED
    BY <1>1, Zenon DEF Least

\* Where the first element is that is ch, as SelectInSeq finds it, or 0.
Where(s, ch) == {i \in 1..Len(s) : s[i] = ch}
First(s, ch) == IF Where(s, ch) # {} THEN Min(Where(s, ch)) ELSE 0

LEMMA FirstIs ==
    ASSUME NEW s \in Seq(Chars), NEW ch
    PROVE  /\ First(s, ch) \in 0..Len(s)
           /\ First(s, ch) # 0 => /\ s[First(s, ch)] = ch
                                 /\ \A k \in 1..First(s, ch) - 1 : s[k] # ch
           /\ First(s, ch) = 0 => \A k \in 1..Len(s) : s[k] # ch
<1>1. Len(s) \in Nat
    BY LenProperties
<1>2. CASE Where(s, ch) = {}
    BY <1>1, <1>2 DEF First, Where
<1>3. CASE Where(s, ch) # {}
    <2>1. Where(s, ch) \in SUBSET Nat
        BY <1>1 DEF Where
    <2>2. \E i \in Where(s, ch) : \A k \in Where(s, ch) : i <= k
        BY <1>3, <2>1, LeastNumber
    <2>3. Min(Where(s, ch)) \in Where(s, ch) /\ \A k \in Where(s, ch) : Min(Where(s, ch)) <= k
        BY <2>2, Zenon DEF Min
    <2>4. First(s, ch) \in Where(s, ch) /\ \A k \in Where(s, ch) : First(s, ch) <= k
        BY <1>3, <2>3 DEF First
    <2>5. /\ First(s, ch) \in 1..Len(s) /\ s[First(s, ch)] = ch
          /\ \A k \in 1..Len(s) : s[k] = ch => First(s, ch) <= k
        BY <2>4 DEF Where
    <2>6. ASSUME NEW k \in 1..First(s, ch) - 1 PROVE s[k] # ch
        BY <1>1, <2>5
    <2> QED
        BY <1>1, <2>5, <2>6
<1> QED
    BY <1>2, <1>3

\* A part of a sequence from its first element on.
LEMMA Prefix ==
    ASSUME NEW s \in Seq(Chars), NEW n \in 0..Len(s)
    PROVE  /\ SubSeq(s, 1, n) \in Seq(Chars)
           /\ Len(SubSeq(s, 1, n)) = n
           /\ \A i \in 1..n : SubSeq(s, 1, n)[i] = s[i]
<1>1. n \in Nat /\ Len(s) \in Nat
    BY LenProperties
<1> QED
    BY <1>1, SubSeqProperties

(***************************************************************************)
(* The end of the header                                                   *)
(***************************************************************************)

\* What std::string keeps of a buffer: all before the first NUL.
LEMMA CStringIs ==
    ASSUME NEW s \in Seq(Chars)
    PROVE  \E n \in 0..Len(s) :
              /\ CString(s) = SubSeq(s, 1, n)
              /\ \A k \in 1..n : s[k] # NUL
              /\ n < Len(s) => s[n + 1] = NUL
<1>1. CString(s) = IF First(s, NUL) = 0 THEN s ELSE SubSeq(s, 1, First(s, NUL) - 1)
    BY DEF CString, SelectInSeq, First, Where
<1>2. Len(s) \in Nat /\ s = SubSeq(s, 1, Len(s))
    <2>1. Len(s) \in Nat /\ Len(s) \in 0..Len(s)
        BY LenProperties
    <2>2. /\ SubSeq(s, 1, Len(s)) \in Seq(Chars) /\ Len(SubSeq(s, 1, Len(s))) = Len(s)
          /\ \A i \in 1..Len(s) : SubSeq(s, 1, Len(s))[i] = s[i]
        BY <2>1, Prefix
    <2> QED
        BY <2>1, <2>2, SeqEqual
<1>3. CASE First(s, NUL) = 0
    <2> DEFINE n == Len(s)
    <2>1. n \in 0..Len(s) /\ \A k \in 1..n : s[k] # NUL
        BY <1>2, <1>3, FirstIs
    <2>2. CString(s) = SubSeq(s, 1, n) /\ ~ (n < Len(s))
        BY <1>1, <1>2, <1>3
    <2> HIDE DEF n
    <2> QED
        BY <2>1, <2>2
<1>4. CASE First(s, NUL) # 0
    <2> DEFINE n == First(s, NUL) - 1
    <2>1. First(s, NUL) \in 1..Len(s)
        BY <1>2, <1>4, FirstIs
    <2>2. n \in 0..Len(s) /\ n + 1 = First(s, NUL)
        BY <1>2, <2>1
    <2>3. CString(s) = SubSeq(s, 1, n)
        BY <1>1, <1>4
    <2>4. /\ \A k \in 1..n : s[k] # NUL
          /\ s[First(s, NUL)] = NUL
        BY <1>4, FirstIs
    <2>5. s[n + 1] = NUL
        BY <2>2, <2>4
    <2> HIDE DEF n
    <2> QED
        BY <2>2, <2>3, <2>4, <2>5
<1> QED
    BY <1>3, <1>4

\* Where the header ends, as Complete finds it.
LEMMA CompleteIs ==
    ASSUME NEW s \in Seq(Chars)
    PROVE  Complete(s) <=> \E i \in 1..Len(s) - 3 :
              /\ s[i] = CR /\ s[i + 1] = LF /\ s[i + 2] = CR /\ s[i + 3] = LF
<1>1. Len(s) \in Nat
    BY LenProperties
<1>2. ASSUME NEW i \in 1..Len(s) - 3
      PROVE  SubSeq(s, i, i + 3) = <<CR, LF, CR, LF>>
             <=> s[i] = CR /\ s[i + 1] = LF /\ s[i + 2] = CR /\ s[i + 3] = LF
    <2>1. i \in 1..Len(s) + 1 /\ i + 3 \in i - 1..Len(s) /\ i \in Nat /\ i + 3 - i + 1 = 4
        BY <1>1
    <2>2. /\ SubSeq(s, i, i + 3) \in Seq(Chars)
          /\ Len(SubSeq(s, i, i + 3)) = 4
          /\ \A k \in 1..4 : SubSeq(s, i, i + 3)[k] = s[i + k - 1]
        BY <1>1, <2>1, SubSeqProperties
    <2> DEFINE t == SubSeq(s, i, i + 3)
    <2>3. /\ t \in Seq(Chars) /\ Len(t) = 4 /\ t[1] = s[i] /\ t[2] = s[i + 1]
          /\ t[3] = s[i + 2] /\ t[4] = s[i + 3]
        <3>1. t[1] = s[i + 1 - 1] /\ t[2] = s[i + 2 - 1] /\ t[3] = s[i + 3 - 1]
              /\ t[4] = s[i + 4 - 1]
            BY <2>2
        <3>2. i + 1 - 1 = i /\ i + 2 - 1 = i + 1 /\ i + 3 - 1 = i + 2 /\ i + 4 - 1 = i + 3
            BY <2>1
        <3> QED
            BY <2>2, <3>1, <3>2
    <2> HIDE DEF t
    <2>4. t = <<CR, LF, CR, LF>> <=> t[1] = CR /\ t[2] = LF /\ t[3] = CR /\ t[4] = LF
        <3> DEFINE u == <<CR, LF, CR, LF>>
        <3>1. u \in Seq(Chars) /\ Len(u) = 4 /\ u[1] = CR /\ u[2] = LF /\ u[3] = CR /\ u[4] = LF
            BY DEF Chars
        <3> HIDE DEF u
        <3>2. t = u <=> \A k \in 1..4 : t[k] = u[k]
            BY <2>3, <3>1, SeqEqual
        <3>3. (\A k \in 1..4 : t[k] = u[k]) <=> t[1] = u[1] /\ t[2] = u[2] /\ t[3] = u[3] /\ t[4] = u[4]
            OBVIOUS
        <3>4. t = u <=> t[1] = CR /\ t[2] = LF /\ t[3] = CR /\ t[4] = LF
            BY <3>1, <3>2, <3>3
        <3> QED
            BY <3>4 DEF u
    <2> QED
        BY <2>3, <2>4 DEF t
<1> QED
    BY <1>2, Zenon DEF Complete

\* The offsets at which a header ends, and the first of them.
Ends == {i \in Visible : /\ i > 3
                         /\ stream[i - 3] = CR /\ stream[i - 2] = LF
                         /\ stream[i - 1] = CR /\ stream[i] = LF}

LEMMA HeaderEndIs ==
    ASSUME stream \in Seq(Chars)
    PROVE  /\ HeaderEnd \in Nat \ {0}
           /\ \A m \in 0..Len(stream) : HeaderEnd <= m <=> \E e \in Ends : e <= m
<1>1. Len(stream) \in Nat /\ DOMAIN stream = 1..Len(stream) /\ BUFFER_SIZE \in Nat \ {0, 1}
    BY LenProperties, SizeAssumption
<1>2. HeaderEnd = IF Ends = {} THEN Len(stream) + BUFFER_SIZE ELSE Least(Ends)
    BY Zenon DEF HeaderEnd, Ends
<1>3. Ends \in SUBSET 4..Len(stream)
    BY <1>1 DEF Ends, Visible
<1>4. CASE Ends = {}
    BY <1>1, <1>2, <1>4
<1>5. CASE Ends # {}
    <2>1. Least(Ends) \in Ends /\ \A e \in Ends : Least(Ends) <= e
        <3>1. Ends \in SUBSET Nat
            BY <1>1, <1>3
        <3> QED
            BY <3>1, <1>5, LeastIs
    <2> QED
        BY <1>1, <1>2, <1>3, <1>5, <2>1
<1> QED
    BY <1>4, <1>5

\* The buffer holds a request exactly from the first end of a header on,
\* however the bytes arrived: find is given a prefix of the stream, cut at a
\* NUL, and a NUL in the prefix is a NUL in the stream.
LEMMA Recognised ==
    ASSUME stream \in Seq(Chars), NEW m \in 0..Len(stream)
    PROVE  Complete(CString(SubSeq(stream, 1, m))) <=> HeaderEnd <= m
<1> DEFINE buffer == SubSeq(stream, 1, m)
           raw    == CString(buffer)
<1>1. Len(stream) \in Nat /\ DOMAIN stream = 1..Len(stream) /\ m \in Nat
    BY LenProperties
<1>2. /\ buffer \in Seq(Chars) /\ Len(buffer) = m
      /\ \A i \in 1..m : buffer[i] = stream[i]
    BY Prefix
<1> HIDE DEF buffer
<1>3. PICK n \in 0..m : /\ raw = SubSeq(buffer, 1, n)
                        /\ \A k \in 1..n : buffer[k] # NUL
                        /\ n < m => buffer[n + 1] = NUL
    BY <1>2, CStringIs
<1>4. /\ raw \in Seq(Chars) /\ Len(raw) = n
      /\ \A i \in 1..n : raw[i] = stream[i]
      /\ \A i \in 1..n : stream[i] # NUL
      /\ n < m => stream[n + 1] = NUL
    <2>1. raw \in Seq(Chars) /\ Len(raw) = n /\ \A i \in 1..n : raw[i] = buffer[i]
        BY <1>2, <1>3, Prefix
    <2>2. \A i \in 1..n : i \in 1..m
        BY <1>1
    <2>3. n < m => n + 1 \in 1..m
        BY <1>1
    <2> QED
        BY <1>2, <1>3, <2>1, <2>2, <2>3
<1> HIDE DEF raw
<1>5. ASSUME Complete(raw) PROVE \E e \in Ends : e <= m
    <2>1. PICK i \in 1..n - 3 : /\ raw[i] = CR /\ raw[i + 1] = LF
                                /\ raw[i + 2] = CR /\ raw[i + 3] = LF
        BY <1>4, <1>5, CompleteIs
    <2>2. /\ i \in 1..n /\ i + 1 \in 1..n /\ i + 2 \in 1..n /\ i + 3 \in 1..n
          /\ i + 3 <= m /\ i + 3 \in 1..Len(stream) /\ i + 3 > 3
          /\ i + 3 - 3 = i /\ i + 3 - 2 = i + 1 /\ i + 3 - 1 = i + 2
          /\ \A k \in 1..i + 3 : k \in 1..n
        BY <1>1
    <2>3. /\ stream[i] = CR /\ stream[i + 1] = LF
          /\ stream[i + 2] = CR /\ stream[i + 3] = LF
        BY <1>4, <2>1, <2>2
    <2>4. i + 3 \in Visible
        BY <1>1, <1>4, <2>2 DEF Visible
    <2>5. i + 3 \in Ends
        BY <2>2, <2>3, <2>4 DEF Ends
    <2> QED
        BY <2>2, <2>5
<1>6. ASSUME NEW e \in Ends, e <= m PROVE Complete(raw)
    <2>1. /\ e \in 1..Len(stream) /\ e > 3 /\ \A k \in 1..e : stream[k] # NUL
          /\ stream[e - 3] = CR /\ stream[e - 2] = LF
          /\ stream[e - 1] = CR /\ stream[e] = LF
        BY <1>1 DEF Ends, Visible
    <2>2. e <= n
        <3>1. SUFFICES ASSUME n < e PROVE FALSE
            BY <1>1, <2>1
        <3>2. n < m /\ n + 1 \in 1..e
            BY <1>1, <1>6, <2>1, <3>1
        <3> QED
            BY <1>4, <2>1, <3>2
    <2> DEFINE i == e - 3
    <2>3. /\ i \in 1..n - 3 /\ i + 1 = e - 2 /\ i + 2 = e - 1 /\ i + 3 = e
          /\ i \in 1..n /\ i + 1 \in 1..n /\ i + 2 \in 1..n /\ i + 3 \in 1..n
        BY <1>1, <2>1, <2>2
    <2>4. raw[i] = CR /\ raw[i + 1] = LF /\ raw[i + 2] = CR /\ raw[i + 3] = LF
        BY <1>4, <2>1, <2>3
    <2> HIDE DEF i
    <2> QED
        BY <1>4, <2>3, <2>4, CompleteIs
<1>7. Complete(raw) <=> HeaderEnd <= m
    BY <1>5, <1>6, HeaderEndIs
<1> QED
    BY <1>7 DEF raw, buffer

(***************************************************************************)
(* The decision                                                            *)
(***************************************************************************)

Offsets == /\ stream \in Seq(Chars)
           /\ bytes_read \in 0..Lesser(Len(stream), BUFFER_SIZE - 1)
           /\ outcome \in {"reading", "index", "data", "not_found", "closed"}

\* DecidedAtHeaderEnd is inductive once the types are known.
HeaderInv == Offsets /\ DecidedAtHeaderEnd

\* The numbers of a stream.
LEMMA Facts ==
    ASSUME stream \in Seq(Chars)
    PROVE  /\ BUFFER_SIZE \in Nat \ {0, 1} /\ Len(stream) \in Nat
           /\ HeaderEnd \in Nat \ {0}
           /\ Lesser(Len(stream), BUFFER_SIZE - 1) \in Nat
           /\ Lesser(Len(stream), BUFFER_SIZE - 1) <= Len(stream)
           /\ Lesser(Len(stream), BUFFER_SIZE - 1) <= BUFFER_SIZE - 1
           /\ \/ Lesser(Len(stream), BUFFER_SIZE - 1) = Len(stream)
              \/ Lesser(Len(stream), BUFFER_SIZE - 1) = BUFFER_SIZE - 1
BY LenProperties, SizeAssumption, HeaderEndIs DEF Lesser

LEMMA HeaderInit ==
    ASSUME Init
    PROVE  HeaderInv
<1>1. stream \in Seq(Chars) /\ bytes_read = 0 /\ outcome = "reading"
    BY StreamsAssumption DEF Init
<1> QED
    BY <1>1, Facts DEF HeaderInv, Offsets, DecidedAtHeaderEnd

LEMMA PageIs ==
    \A path : Page(path) \in {"index", "data", "not_found"}
BY DEF Page

\* One read.  What it recognises depends on how much of the stream has
\* arrived, and on nothing else.
LEMMA HeaderRead ==
    ASSUME HeaderInv, Read
    PROVE  HeaderInv'
<1>1. PICK n \in 1..Lesser(Len(stream) - bytes_read, Room) :
         /\ bytes_read' = bytes_read + n
         /\ IF Complete(CString(SubSeq(stream, 1, bytes_read + n)))
            THEN outcome' = Page(request'.path)
            ELSE outcome' = IF bytes_read' >= BUFFER_SIZE - 1 THEN "closed" ELSE "reading"
    BY DEF Read
<1>2. /\ stream \in Seq(Chars) /\ stream' = stream /\ outcome = "reading"
      /\ bytes_read \in 0..Lesser(Len(stream), BUFFER_SIZE - 1)
    BY DEF HeaderInv, Offsets, Read
<1>3. HeaderEnd' = HeaderEnd
    BY <1>2 DEF HeaderEnd, Visible
<1>4. /\ bytes_read' \in Nat /\ bytes_read' <= Len(stream) /\ bytes_read' <= BUFFER_SIZE - 1
      /\ bytes_read' \in 0..Lesser(Len(stream), BUFFER_SIZE - 1)
    BY <1>1, <1>2, Facts DEF Lesser, Room
<1>5. Complete(CString(SubSeq(stream, 1, bytes_read'))) <=> HeaderEnd <= bytes_read'
    BY <1>2, <1>4, Facts, Recognised
<1>6. CASE Complete(CString(SubSeq(stream, 1, bytes_read')))
    <2>1. outcome' \in {"index", "data", "not_found"}
        BY <1>1, <1>6, PageIs
    <2>2. bytes_read' >= HeaderEnd'
        BY <1>2, <1>3, <1>4, <1>5, <1>6, Facts
    <2> QED
        BY <1>2, <1>4, <2>1, <2>2 DEF HeaderInv, Offsets, DecidedAtHeaderEnd
<1>7. CASE ~ Complete(CString(SubSeq(stream, 1, bytes_read')))
    <2>1. outcome' = IF bytes_read' >= BUFFER_SIZE - 1 THEN "closed" ELSE "reading"
        BY <1>1, <1>7
    <2>2. bytes_read' < HeaderEnd'
        BY <1>2, <1>3, <1>4, <1>5, <1>7, Facts
    <2>3. CASE bytes_read' >= BUFFER_SIZE - 1
        <3>1. HeaderEnd' > Lesser(Len(stream'), BUFFER_SIZE - 1)
            BY <1>2, <1>3, <1>4, <2>2, <2>3, Facts
        <3>2. outcome' = "closed"
            BY <2>1, <2>3
        <3> QED
            BY <1>2, <1>4, <3>1, <3>2 DEF HeaderInv, Offsets, DecidedAtHeaderEnd
    <2>4. CASE ~ (bytes_read' >= BUFFER_SIZE - 1)
        <3>1. outcome' = "reading" /\ bytes_read' < BUFFER_SIZE - 1
            BY <1>2, <1>4, <2>1, <2>4, Facts
        <3> QED
            BY <1>2, <1>4, <2>2, <3>1 DEF HeaderInv, Offsets, DecidedAtHeaderEnd
    <2> QED
        BY <2>3, <2>4
<1> QED
    BY <1>6, <1>7

LEMMA HeaderStep ==
    ASSUME HeaderInv, [Next]_vars
    PROVE  HeaderInv'
<1>1. CASE Read
    BY <1>1, HeaderRead
<1>2. CASE ReadEnd
    <2>1. /\ stream' = stream /\ bytes_read' = bytes_read /\ outcome = "reading"
          /\ bytes_read = Len(stream) /\ outcome' = "closed"
          /\ stream \in Seq(Chars) /\ bytes_read < HeaderEnd
        BY <1>2 DEF ReadEnd, HeaderInv, Offsets, DecidedAtHeaderEnd
    <2>2. HeaderEnd' = HeaderEnd
        BY <2>1 DEF HeaderEnd, Visible
    <2>3. HeaderEnd' > Lesser(Len(stream'), BUFFER_SIZE - 1)
        BY <2>1, <2>2, Facts
    <2> QED
        BY <2>1, <2>3 DEF HeaderInv, Offsets, DecidedAtHeaderEnd
<1>3. CASE UNCHANGED vars
    BY <1>3 DEF vars, HeaderInv, Offsets, DecidedAtHeaderEnd, HeaderEnd, Visible
<1> QED
    BY <1>1, <1>2, <1>3 DEF Next, Decided

(***************************************************************************)
(* The words of a line                                                     *)
(***************************************************************************)

\* Induction on numbers, for a set of them.
LEMMA AllNumbers ==
    ASSUME NEW S \in SUBSET Nat, 0 \in S, \A n \in S : n + 1 \in S
    PROVE  S = Nat
<1>1. SUFFICES ASSUME Nat \ S # {} PROVE FALSE
    OBVIOUS
<1>2. PICK n \in Nat \ S : \A m \in Nat \ S : n <= m
    BY <1>1, LeastNumber
<1>3. n - 1 \in Nat /\ n - 1 + 1 = n /\ ~ (n <= n - 1)
    BY <1>2
<1> QED
    BY <1>2, <1>3

Nothing == [words |-> <<>>, open |-> FALSE]

\* What the fold computes: it takes the last of a set of positions and what
\* it has computed for the others.
Greatest(S) == CHOOSE x \in S : \A y \in S : x >= y
Folded(line, iter) ==
    [S \in SUBSET (1..Len(line)) |->
        IF S = {} THEN Nothing
        ELSE Extract(iter[S \ {Greatest(S)}], line[Greatest(S)])]

LEMMA FoldIs ==
    ASSUME NEW line \in Seq(Chars)
    PROVE  Words(line) = (CHOOSE iter : iter = Folded(line, iter))[1..Len(line)].words
<1>1. DOMAIN line = 1..Len(line)
    BY LenProperties
<1> QED
    BY <1>1, Zenon DEF Words, FoldLeft, MapThenFoldSet, Folded, Greatest, Nothing, Max

\* A set of numbers that has a bound has a greatest one.
LEMMA GreatestIs ==
    ASSUME NEW n \in Nat, NEW S \in SUBSET (1..n), S # {}
    PROVE  Greatest(S) \in S /\ \A y \in S : Greatest(S) >= y
<1> DEFINE U == {u \in Nat : \A y \in S : u >= y}
<1>1. n \in U
    OBVIOUS
<1>2. PICK u \in U : \A v \in U : u <= v
    <2>1. U \in SUBSET Nat /\ U # {}
        BY <1>1
    <2> HIDE DEF U
    <2> QED
        BY <2>1, LeastNumber
<1>3. u \in S
    <2>1. SUFFICES ASSUME u \notin S PROVE FALSE
        OBVIOUS
    <2>2. u \in Nat /\ \A y \in S : u >= y
        BY <1>2
    <2>3. \A y \in S : y \in Nat /\ y >= 1 /\ y # u
        BY <2>1
    <2>4. u - 1 \in Nat /\ \A y \in S : u - 1 >= y
        <3>1. ASSUME NEW y \in S PROVE u - 1 \in Nat /\ u - 1 >= y
            BY <2>2, <2>3
        <3> QED
            BY <3>1
    <2>5. ~ (u <= u - 1)
        BY <2>2
    <2> QED
        BY <1>2, <2>4, <2>5
<1>4. \E x \in S : \A y \in S : x >= y
    BY <1>2, <1>3
<1> QED
    BY <1>4, Zenon DEF Greatest

\* A function that the definition of the fold describes, for the sets of the
\* first k positions.
FoldedTo(line, k, iter) ==
    iter = [S \in SUBSET (1..k) |->
               IF S = {} THEN Nothing
               ELSE Extract(iter[S \ {Greatest(S)}], line[Greatest(S)])]

LEMMA FoldExists ==
    ASSUME NEW line \in Seq(Chars), NEW n \in Nat
    PROVE  \E iter : FoldedTo(line, n, iter)
<1> DEFINE K == {k \in Nat : \E iter : FoldedTo(line, k, iter)}
           g(S, iter) == IF S = {} THEN Nothing
                         ELSE Extract(iter[S \ {Greatest(S)}], line[Greatest(S)])
<1>1. 0 \in K
    <2> DEFINE iter == [S \in SUBSET (1..0) |-> Nothing]
    <2>1. \A S \in SUBSET (1..0) : S = {}
        OBVIOUS
    <2>2. FoldedTo(line, 0, iter)
        BY <2>1 DEF FoldedTo
    <2> QED
        BY <2>2
<1>2. ASSUME NEW k \in K PROVE k + 1 \in K
    <2>1. PICK f : FoldedTo(line, k, f)
        OBVIOUS
    <2>0. k \in Nat /\ k + 1 \in Nat
        OBVIOUS
    <2> DEFINE h == [S \in SUBSET (1..k + 1) |-> g(S, f)]
    <2>2. ASSUME NEW S \in SUBSET (1..k) PROVE f[S] = g(S, f) /\ h[S] = f[S]
        <3>1. S \in SUBSET (1..k + 1)
            OBVIOUS
        <3>2. f[S] = g(S, f)
            BY <2>1, Zenon DEF FoldedTo
        <3> QED
            BY <3>1, <3>2
    <2>3. ASSUME NEW S \in SUBSET (1..k + 1), S # {}
          PROVE  S \ {Greatest(S)} \in SUBSET (1..k)
        <3>1. Greatest(S) \in S /\ \A y \in S : Greatest(S) >= y
            BY <2>0, <2>3, GreatestIs
        <3>2. ASSUME NEW y \in S \ {Greatest(S)} PROVE y \in 1..k
            <4>1. y \in 1..k + 1 /\ Greatest(S) \in 1..k + 1 /\ Greatest(S) >= y /\ y # Greatest(S)
                BY <3>1
            <4> QED
                BY <2>0, <4>1
        <3> QED
            BY <3>2
    <2>4. ASSUME NEW S \in SUBSET (1..k + 1) PROVE g(S, f) = g(S, h)
        <3>1. CASE S = {}
            BY <3>1
        <3>2. CASE S # {}
            <4>1. h[S \ {Greatest(S)}] = f[S \ {Greatest(S)}]
                BY <2>2, <2>3, <3>2
            <4> HIDE DEF h
            <4> QED
                BY <3>2, <4>1
        <3> QED
            BY <3>1, <3>2
    <2>5. h = [S \in SUBSET (1..k + 1) |-> g(S, h)]
        BY <2>4, Zenon
    <2>6. FoldedTo(line, k + 1, h)
        BY <2>5, Zenon DEF FoldedTo
    <2> QED
        BY <2>6
<1>3. K \in SUBSET Nat
    OBVIOUS
<1> HIDE DEF K
<1>4. n \in K
    BY <1>1, <1>2, <1>3, AllNumbers
<1> QED
    BY <1>4 DEF K

\* What operator>> has extracted after each character of a line.
Extracts(line, state) ==
    /\ state[0] = Nothing
    /\ \A k \in 0..Len(line) - 1 : state[k + 1] = Extract(state[k], line[k + 1])
    /\ Words(line) = state[Len(line)].words

LEMMA FoldSteps ==
    ASSUME NEW line \in Seq(Chars)
    PROVE  \E state : Extracts(line, state)
<1> DEFINE n == Len(line)
           iter == CHOOSE f : f = Folded(line, f)
           state == [k \in 0..n |-> iter[1..k]]
<1>1. n \in Nat
    BY LenProperties
<1>2. \E f : f = Folded(line, f)
    <2>1. PICK f : FoldedTo(line, n, f)
        BY <1>1, FoldExists
    <2>2. f = Folded(line, f)
        BY <2>1, Zenon DEF FoldedTo, Folded
    <2> QED
        BY <2>2
<1>3. iter = Folded(line, iter)
    BY <1>2, Zenon
<1> HIDE DEF iter
<1>4. \A S \in SUBSET (1..n) :
         iter[S] = IF S = {} THEN Nothing ELSE Extract(iter[S \ {Greatest(S)}], line[Greatest(S)])
    BY <1>3, Zenon DEF Folded
<1>5. state[0] = Nothing
    <2>1. 1..0 = {} /\ 1..0 \in SUBSET (1..n) /\ 0 \in 0..n
        BY <1>1
    <2> QED
        BY <1>4, <2>1
<1>6. ASSUME NEW k \in 0..n - 1 PROVE state[k + 1] = Extract(state[k], line[k + 1])
    <2>1. /\ k \in 0..n /\ k + 1 \in 0..n /\ k + 1 \in 1..k + 1
          /\ 1..k + 1 \in SUBSET (1..n) /\ 1..k + 1 # {} /\ k + 1 \in Nat
        BY <1>1
    <2>2. Greatest(1..k + 1) = k + 1
        <3>1. /\ Greatest(1..k + 1) \in 1..k + 1
              /\ \A y \in 1..k + 1 : Greatest(1..k + 1) >= y
            BY <2>1, GreatestIs
        <3> QED
            BY <2>1, <3>1
    <2>3. (1..k + 1) \ {k + 1} = 1..k
        BY <2>1
    <2>4. iter[1..k + 1] = Extract(iter[1..k], line[k + 1])
        BY <1>4, <2>1, <2>2, <2>3
    <2> QED
        BY <2>1, <2>4
<1>7. Words(line) = state[n].words
    <2>1. n \in 0..n
        BY <1>1
    <2>2. Words(line) = iter[1..n].words
        BY FoldIs DEF iter
    <2> QED
        BY <2>1, <2>2
<1> HIDE DEF state
<1>8. Extracts(line, state)
    BY <1>5, <1>6, <1>7 DEF Extracts
<1> QED
    BY <1>8

\* The words extracted from the first k characters of a line are its runs of
\* other characters than spaces: the j-th word is the run from begin[j] to
\* end[j], and the last word may go on if the k-th character is in it.
RunsTo(line, k, state, count, begin, end) ==
    /\ state \in [words : Seq(Seq(Chars)), open : BOOLEAN]
    /\ count \in Nat
    /\ begin \in [1..count -> 1..k]
    /\ end \in [1..count -> 1..k]
    /\ Len(state.words) = count
    /\ \A j \in 1..count : /\ begin[j] <= end[j]
                           /\ state.words[j] = SubSeq(line, begin[j], end[j])
    /\ \A i, j \in 1..count : i < j => end[i] + 1 < begin[j]
    /\ \A i \in 1..k : line[i] \notin Space
                       <=> \E j \in 1..count : begin[j] <= i /\ i <= end[j]
    /\ state.open <=> count > 0 /\ end[count] = k

\* A part of a sequence that grows by one element.
LEMMA PartGrows ==
    ASSUME NEW s \in Seq(Chars), NEW m \in Nat, NEW n \in Nat,
           1 <= m, m <= n + 1, n < Len(s)
    PROVE  /\ SubSeq(s, m, n) \in Seq(Chars)
           /\ SubSeq(s, m, n + 1) \in Seq(Chars)
           /\ Append(SubSeq(s, m, n), s[n + 1]) = SubSeq(s, m, n + 1)
<1> DEFINE t == SubSeq(s, m, n)
           u == SubSeq(s, m, n + 1)
<1>1. Len(s) \in Nat /\ s[n + 1] \in Chars
    <2>1. Len(s) \in Nat
        BY LenProperties
    <2>2. n + 1 \in 1..Len(s)
        BY <2>1
    <2> QED
        BY <2>1, <2>2, ElementOfSeq
<1>2. \A i \in m..n + 1 : s[i] \in Chars
    <2>1. \A i \in m..n + 1 : i \in 1..Len(s)
        BY <1>1
    <2> QED
        BY <2>1, ElementOfSeq
<1>3. /\ t \in Seq(Chars) /\ Len(t) = n - m + 1
      /\ \A i \in 1..n - m + 1 : t[i] = s[m + i - 1]
    <2>1. m \in Int /\ n \in Int /\ \A i \in m..n : s[i] \in Chars
        BY <1>2
    <2>2. /\ t \in Seq(Chars) /\ Len(t) = IF m <= n THEN n - m + 1 ELSE 0
          /\ \A i \in 1..n - m + 1 : t[i] = s[m + i - 1]
        BY <2>1, SubSeqProperties
    <2> HIDE DEF t
    <2> QED
        BY <2>2
<1>4. /\ u \in Seq(Chars) /\ Len(u) = n - m + 2
      /\ \A i \in 1..n - m + 2 : u[i] = s[m + i - 1]
    <2>1. m \in Int /\ n + 1 \in Int /\ n + 1 - m + 1 = n - m + 2
        OBVIOUS
    <2>2. /\ u \in Seq(Chars) /\ Len(u) = IF m <= n + 1 THEN n + 1 - m + 1 ELSE 0
          /\ \A i \in 1..n + 1 - m + 1 : u[i] = s[m + i - 1]
        BY <1>2, <2>1, SubSeqProperties
    <2> HIDE DEF u
    <2> QED
        BY <2>1, <2>2
<1> HIDE DEF t, u
<1> DEFINE v == Append(t, s[n + 1])
<1>5. /\ v \in Seq(Chars) /\ Len(v) = n - m + 1 + 1
      /\ \A i \in 1..n - m + 1 : v[i] = t[i]
      /\ v[n - m + 1 + 1] = s[n + 1]
    BY <1>1, <1>3, AppendProperties
<1> HIDE DEF v
<1>6. ASSUME NEW i \in 1..Len(v) PROVE v[i] = u[i]
    <2>1. CASE i \in 1..n - m + 1
        BY <1>3, <1>4, <1>5, <2>1
    <2>2. CASE i = n - m + 1 + 1
        <3>1. m + i - 1 = n + 1 /\ i \in 1..n - m + 2
            BY <2>2
        <3> QED
            BY <1>4, <1>5, <2>2, <3>1
    <2> QED
        BY <1>5, <2>1, <2>2
<1>7. v = u
    <2>1. Len(v) = Len(u)
        BY <1>4, <1>5
    <2> QED
        BY <1>4, <1>5, <1>6, <2>1, SeqEqual
<1> QED
    BY <1>3, <1>4, <1>7 DEF t, u, v

\* A character that ends a word, or comes behind its end.
LEMMA RunsSpace ==
    ASSUME NEW line \in Seq(Chars), NEW k \in Nat, k < Len(line),
           NEW state, NEW count, NEW begin, NEW end,
           RunsTo(line, k, state, count, begin, end), line[k + 1] \in Space
    PROVE  RunsTo(line, k + 1, Extract(state, line[k + 1]), count, begin, end)
<1> DEFINE next == Extract(state, line[k + 1])
<1>1. next = [state EXCEPT !.open = FALSE]
    BY DEF Extract
<1>2. /\ next \in [words : Seq(Seq(Chars)), open : BOOLEAN]
      /\ next.words = state.words /\ next.open = FALSE
    BY <1>1 DEF RunsTo
<1> HIDE DEF next
<1>3. begin \in [1..count -> 1..k + 1] /\ end \in [1..count -> 1..k + 1]
    <2>1. begin \in [1..count -> 1..k] /\ end \in [1..count -> 1..k]
        BY DEF RunsTo
    <2>2. 1..k \subseteq 1..k + 1
        OBVIOUS
    <2> QED
        BY <2>1, <2>2
<1>4. ASSUME count > 0 PROVE end[count] # k + 1
    BY <1>4 DEF RunsTo
<1>5. ASSUME NEW i \in 1..k + 1
      PROVE  line[i] \notin Space <=> \E j \in 1..count : begin[j] <= i /\ i <= end[j]
    <2>1. CASE i \in 1..k
        BY <2>1 DEF RunsTo
    <2>2. CASE i = k + 1
        <3>1. ASSUME NEW j \in 1..count PROVE ~ (i <= end[j])
            BY <2>2 DEF RunsTo
        <3> QED
            BY <2>2, <3>1
    <2> QED
        BY <2>1, <2>2
<1>6. RunsTo(line, k + 1, next, count, begin, end)
    BY <1>2, <1>3, <1>4, <1>5 DEF RunsTo
<1> QED
    BY <1>6 DEF next

\* A character that goes on with the last word.
LEMMA RunsOn ==
    ASSUME NEW line \in Seq(Chars), NEW k \in Nat, k < Len(line),
           NEW state, NEW count, NEW begin, NEW end,
           RunsTo(line, k, state, count, begin, end),
           line[k + 1] \notin Space, state.open
    PROVE  RunsTo(line, k + 1, Extract(state, line[k + 1]), count, begin,
                  [end EXCEPT ![count] = k + 1])
<1> DEFINE ch   == line[k + 1]
           next == Extract(state, ch)
           stop == [end EXCEPT ![count] = k + 1]
           last == Append(state.words[count], ch)
<1>1. /\ count \in Nat /\ count > 0 /\ count \in 1..count /\ end[count] = k
      /\ begin[count] \in 1..k /\ begin[count] <= k /\ begin[count] <= k + 1
      /\ Len(state.words) = count /\ state.words \in Seq(Seq(Chars))
    BY DEF RunsTo
<1>2. /\ last \in Seq(Chars) /\ last = SubSeq(line, begin[count], k + 1)
    <2>1. state.words[count] = SubSeq(line, begin[count], k)
        BY <1>1 DEF RunsTo
    <2>2. begin[count] \in Nat /\ 1 <= begin[count] /\ begin[count] <= k + 1
        BY <1>1
    <2> DEFINE from == begin[count]
    <2>3. from \in Nat /\ 1 <= from /\ from <= k + 1
        BY <2>2
    <2> HIDE DEF from, last, next, stop
    <2>4. /\ Append(SubSeq(line, from, k), line[k + 1]) = SubSeq(line, from, k + 1)
          /\ SubSeq(line, from, k + 1) \in Seq(Chars)
        BY <2>3, PartGrows
    <2>5. last = Append(SubSeq(line, from, k), line[k + 1])
        BY <2>1, Zenon DEF last, from, ch
    <2> QED
        BY <2>4, <2>5, Zenon DEF from
<1> HIDE DEF last
<1>3. next = [state EXCEPT !.words[count] = last]
    BY <1>1 DEF Extract, last
<1>4. /\ next \in [words : Seq(Seq(Chars)), open : BOOLEAN]
      /\ next.words = [state.words EXCEPT ![count] = last] /\ next.open = state.open
    <2>1. [state.words EXCEPT ![count] = last] \in Seq(Seq(Chars))
        BY <1>1, <1>2, ExceptSeq
    <2>2. state \in [words : Seq(Seq(Chars)), open : BOOLEAN]
        BY DEF RunsTo
    <2>3. next = [state EXCEPT !.words = [state.words EXCEPT ![count] = last]]
        BY <1>3, <2>2
    <2> QED
        BY <2>1, <2>2, <2>3
<1>5. /\ Len(next.words) = count
      /\ \A j \in 1..count : next.words[j] = IF j = count THEN last ELSE state.words[j]
    BY <1>1, <1>2, <1>4, ExceptSeq, SMTT(30)
<1> HIDE DEF next, ch
<1>6. /\ begin \in [1..count -> 1..k + 1] /\ stop \in [1..count -> 1..k + 1]
      /\ stop[count] = k + 1
      /\ \A j \in 1..count : j # count => stop[j] = end[j]
    <2>1. begin \in [1..count -> 1..k] /\ end \in [1..count -> 1..k]
        BY DEF RunsTo
    <2>2. 1..k \subseteq 1..k + 1 /\ k + 1 \in 1..k + 1
        OBVIOUS
    <2>3. begin \in [1..count -> 1..k + 1] /\ end \in [1..count -> 1..k + 1]
        BY <2>1, <2>2
    <2> QED
        BY <1>1, <2>2, <2>3
<1> HIDE DEF stop
<1>7. ASSUME NEW j \in 1..count
      PROVE  begin[j] <= stop[j] /\ next.words[j] = SubSeq(line, begin[j], stop[j])
    <2>1. CASE j = count
        <3>1. next.words[count] = SubSeq(line, begin[count], stop[count])
            BY <1>1, <1>2, <1>5, <1>6
        <3>2. begin[count] <= stop[count]
            BY <1>1, <1>6
        <3> QED
            BY <2>1, <3>1, <3>2
    <2>2. CASE j # count
        BY <1>5, <1>6, <2>2 DEF RunsTo
    <2> QED
        BY <2>1, <2>2
<1>8. ASSUME NEW i \in 1..count, NEW j \in 1..count, i < j
      PROVE  stop[i] + 1 < begin[j]
    <2>1. i # count
        BY <1>1, <1>8
    <2> QED
        BY <1>6, <1>8, <2>1 DEF RunsTo
<1>9. ASSUME NEW i \in 1..k + 1
      PROVE  line[i] \notin Space <=> \E j \in 1..count : begin[j] <= i /\ i <= stop[j]
    <2>1. CASE i = k + 1
        <3>1. begin[count] <= i /\ i <= stop[count]
            BY <1>1, <1>6, <2>1
        <3> QED
            BY <1>1, <2>1, <3>1
    <2>2. CASE i \in 1..k
        <3>1. ASSUME NEW j \in 1..count
              PROVE  begin[j] <= i /\ i <= end[j] <=> begin[j] <= i /\ i <= stop[j]
            <4>1. CASE j = count
                <5>1. i <= end[count] /\ i <= stop[count]
                    BY <1>1, <1>6, <2>2
                <5> QED
                    BY <4>1, <5>1
            <4>2. CASE j # count
                BY <1>6, <4>2
            <4> QED
                BY <4>1, <4>2
        <3>2. line[i] \notin Space <=> \E j \in 1..count : begin[j] <= i /\ i <= end[j]
            BY <2>2 DEF RunsTo
        <3> QED
            BY <3>1, <3>2
    <2> QED
        BY <2>1, <2>2
<1>10. RunsTo(line, k + 1, next, count, begin, stop)
    BY <1>1, <1>4, <1>5, <1>6, <1>7, <1>8, <1>9 DEF RunsTo
<1> QED
    BY <1>10 DEF next, ch, stop

\* A character that begins a word.
LEMMA RunsNew ==
    ASSUME NEW line \in Seq(Chars), NEW k \in Nat, k < Len(line),
           NEW state, NEW count, NEW begin, NEW end,
           RunsTo(line, k, state, count, begin, end),
           line[k + 1] \notin Space, ~ state.open
    PROVE  RunsTo(line, k + 1, Extract(state, line[k + 1]), count + 1,
                  [j \in 1..count + 1 |-> IF j = count + 1 THEN k + 1 ELSE begin[j]],
                  [j \in 1..count + 1 |-> IF j = count + 1 THEN k + 1 ELSE end[j]])
<1> DEFINE ch    == line[k + 1]
           next  == Extract(state, ch)
           start == [j \in 1..count + 1 |-> IF j = count + 1 THEN k + 1 ELSE begin[j]]
           stop  == [j \in 1..count + 1 |-> IF j = count + 1 THEN k + 1 ELSE end[j]]
<1>1. /\ count \in Nat /\ Len(state.words) = count /\ state.words \in Seq(Seq(Chars))
      /\ begin \in [1..count -> 1..k] /\ end \in [1..count -> 1..k]
    BY DEF RunsTo
<1>2. ch \in Chars /\ <<ch>> \in Seq(Chars) /\ SubSeq(line, k + 1, k + 1) = <<ch>>
    <2>1. Len(line) \in Nat /\ k + 1 \in 1..Len(line)
        BY LenProperties
    <2>2. ch \in Chars
        BY <2>1, ElementOfSeq
    <2>3. Append(SubSeq(line, k + 1, k), ch) = SubSeq(line, k + 1, k + 1)
        BY PartGrows
    <2>4. SubSeq(line, k + 1, k) = <<>>
        BY SubSeqEmpty
    <2>5. <<ch>> \in Seq(Chars) /\ Append(<<>>, ch) = <<ch>>
        BY <2>2
    <2> QED
        BY <2>2, <2>3, <2>4, <2>5
<1>3. next = [words |-> Append(state.words, <<ch>>), open |-> TRUE]
    BY DEF Extract
<1>4. /\ next \in [words : Seq(Seq(Chars)), open : BOOLEAN] /\ next.open = TRUE
      /\ Len(next.words) = count + 1
      /\ \A j \in 1..count : next.words[j] = state.words[j]
      /\ next.words[count + 1] = <<ch>>
    <2> DEFINE w == Append(state.words, <<ch>>)
    <2>1. /\ w \in Seq(Seq(Chars)) /\ Len(w) = count + 1
          /\ \A j \in 1..count : w[j] = state.words[j]
          /\ w[count + 1] = <<ch>>
        BY <1>1, <1>2, AppendProperties, SMTT(30)
    <2>2. next = [words |-> w, open |-> TRUE]
        BY <1>3
    <2> HIDE DEF w, next
    <2>3. next.words = w /\ next.open = TRUE
          /\ next \in [words : Seq(Seq(Chars)), open : BOOLEAN]
        BY <2>1, <2>2
    <2> QED
        BY <2>1, <2>3
<1> HIDE DEF next, ch
<1>5. /\ start \in [1..count + 1 -> 1..k + 1] /\ stop \in [1..count + 1 -> 1..k + 1]
      /\ start[count + 1] = k + 1 /\ stop[count + 1] = k + 1
      /\ \A j \in 1..count : start[j] = begin[j] /\ stop[j] = end[j]
    <2>1. /\ count + 1 \in 1..count + 1 /\ k + 1 \in 1..k + 1
          /\ \A j \in 1..count : j \in 1..count + 1 /\ j # count + 1
        BY <1>1
    <2>2. ASSUME NEW j \in 1..count + 1
          PROVE  /\ (IF j = count + 1 THEN k + 1 ELSE begin[j]) \in 1..k + 1
                 /\ (IF j = count + 1 THEN k + 1 ELSE end[j]) \in 1..k + 1
        <3>1. CASE j = count + 1
            BY <2>1, <3>1
        <3>2. CASE j # count + 1
            <4>1. j \in 1..count
                BY <1>1, <3>2
            <4>2. begin[j] \in 1..k /\ end[j] \in 1..k
                BY <1>1, <4>1
            <4> QED
                BY <3>2, <4>2
        <3> QED
            BY <3>1, <3>2
    <2>3. start \in [1..count + 1 -> 1..k + 1] /\ stop \in [1..count + 1 -> 1..k + 1]
        BY <2>2, Zenon
    <2> QED
        BY <2>1, <2>3
<1> HIDE DEF start, stop
<1>6. \A j \in 1..count + 1 : j \in 1..count \/ j = count + 1
    BY <1>1
<1>7. ASSUME NEW j \in 1..count + 1
      PROVE  start[j] <= stop[j] /\ next.words[j] = SubSeq(line, start[j], stop[j])
    <2>1. CASE j = count + 1
        <3>1. next.words[count + 1] = SubSeq(line, start[count + 1], stop[count + 1])
            BY <1>2, <1>4, <1>5
        <3>2. start[count + 1] <= stop[count + 1]
            BY <1>5
        <3> QED
            BY <2>1, <3>1, <3>2
    <2>2. CASE j \in 1..count
        BY <1>4, <1>5, <2>2, ZenonT(30) DEF RunsTo
    <2> QED
        BY <1>6, <2>1, <2>2
<1>8. ASSUME NEW j \in 1..count PROVE end[j] < k
    <2>1. j \in Nat /\ count > 0 /\ count \in 1..count /\ end[count] # k
        BY <1>1 DEF RunsTo
    <2>2. end[count] < k
        BY <1>1, <2>1
    <2>3. CASE j = count
        BY <2>2, <2>3
    <2>4. CASE j < count
        <3>1. end[j] + 1 < begin[count] /\ begin[count] \in 1..k /\ end[j] \in 1..k
            BY <1>1, <2>1, <2>4 DEF RunsTo
        <3> QED
            BY <3>1
    <2> QED
        BY <1>1, <2>1, <2>3, <2>4
<1>9. ASSUME NEW i \in 1..count + 1, NEW j \in 1..count + 1, i < j
      PROVE  stop[i] + 1 < start[j]
    <2>1. i \in 1..count
        BY <1>1, <1>9
    <2>2. CASE j = count + 1
        BY <1>1, <1>5, <1>8, <2>1, <2>2
    <2>3. CASE j \in 1..count
        BY <1>5, <1>9, <2>1, <2>3 DEF RunsTo
    <2> QED
        BY <1>6, <2>2, <2>3
<1>10. ASSUME NEW i \in 1..k + 1
       PROVE  line[i] \notin Space <=> \E j \in 1..count + 1 : start[j] <= i /\ i <= stop[j]
    <2>1. CASE i = k + 1
        <3>1. count + 1 \in 1..count + 1
            BY <1>1
        <3> QED
            BY <1>5, <2>1, <3>1
    <2>2. CASE i \in 1..k
        <3>1. line[i] \notin Space <=> \E j \in 1..count : begin[j] <= i /\ i <= end[j]
            BY <2>2 DEF RunsTo
        <3>2. ~ (start[count + 1] <= i)
            BY <1>5, <2>2
        <3>3. 1..count \subseteq 1..count + 1
            BY <1>1
        <3> QED
            BY <1>5, <1>6, <3>1, <3>2, <3>3
    <2> QED
        BY <2>1, <2>2
<1>11. RunsTo(line, k + 1, next, count + 1, start, stop)
    <2>1. count + 1 \in Nat /\ count + 1 > 0
        BY <1>1
    <2> QED
        BY <1>4, <1>5, <1>7, <1>9, <1>10, <2>1 DEF RunsTo
<1> QED
    BY <1>11 DEF next, ch, start, stop

\* What operator>> has extracted from a whole line.
LEMMA WordsAreRuns ==
    ASSUME NEW line \in Seq(Chars)
    PROVE  \E state, count, begin, end :
              /\ RunsTo(line, Len(line), state, count, begin, end)
              /\ Words(line) = state.words
<1>1. Len(line) \in Nat
    BY LenProperties
<1>2. PICK state : Extracts(line, state)
    BY FoldSteps
<1> DEFINE K == {k \in Nat : k <= Len(line) =>
                    \E count, begin, end : RunsTo(line, k, state[k], count, begin, end)}
<1>3. 0 \in K
    <2> DEFINE none == [j \in 1..0 |-> 0]
    <2>1. /\ Nothing \in [words : Seq(Seq(Chars)), open : BOOLEAN]
          /\ Nothing.words = <<>> /\ Nothing.open = FALSE /\ Len(Nothing.words) = 0
          /\ 1..0 = {} /\ none \in [1..0 -> 1..0]
        BY DEF Nothing
    <2> HIDE DEF none
    <2>2. RunsTo(line, 0, Nothing, 0, none, none)
        BY <2>1 DEF RunsTo
    <2> QED
        BY <1>2, <2>2 DEF Extracts
<1>4. ASSUME NEW k \in K PROVE k + 1 \in K
    <2>1. SUFFICES ASSUME k + 1 <= Len(line)
                   PROVE  \E count, begin, end :
                             RunsTo(line, k + 1, state[k + 1], count, begin, end)
        OBVIOUS
    <2>2. k \in Nat /\ k < Len(line) /\ k \in 0..Len(line) - 1
        BY <1>1, <2>1
    <2>3. PICK count, begin, end : RunsTo(line, k, state[k], count, begin, end)
        BY <1>1, <2>2
    <2>4. state[k + 1] = Extract(state[k], line[k + 1])
        BY <1>2, <2>2 DEF Extracts
    <2>5. CASE line[k + 1] \in Space
        BY <2>2, <2>3, <2>4, <2>5, RunsSpace
    <2>6. CASE line[k + 1] \notin Space /\ state[k].open
        <3> DEFINE stop == [end EXCEPT ![count] = k + 1]
        <3>1. RunsTo(line, k + 1, state[k + 1], count, begin, stop)
            <4>1. RunsTo(line, k + 1, Extract(state[k], line[k + 1]), count, begin, stop)
                BY <2>2, <2>3, <2>6, RunsOn, Zenon
            <4> QED
                BY <2>4, <4>1
        <3> HIDE DEF stop
        <3> QED
            BY <3>1
    <2>7. CASE line[k + 1] \notin Space /\ ~ state[k].open
        <3> DEFINE start == [j \in 1..count + 1 |-> IF j = count + 1 THEN k + 1 ELSE begin[j]]
                   stop  == [j \in 1..count + 1 |-> IF j = count + 1 THEN k + 1 ELSE end[j]]
        <3>1. RunsTo(line, k + 1, state[k + 1], count + 1, start, stop)
            BY <2>2, <2>3, <2>4, <2>7, RunsNew
        <3> HIDE DEF start, stop
        <3> QED
            BY <3>1
    <2> QED
        BY <2>5, <2>6, <2>7
<1>5. K \in SUBSET Nat
    OBVIOUS
<1> HIDE DEF K
<1>6. Len(line) \in K
    BY <1>1, <1>3, <1>4, <1>5, AllNumbers
<1>7. PICK count, begin, end : RunsTo(line, Len(line), state[Len(line)], count, begin, end)
    BY <1>1, <1>6 DEF K
<1> QED
    BY <1>2, <1>7 DEF Extracts

(***************************************************************************)
(* The first line                                                          *)
(***************************************************************************)

\* A part of a prefix is that part of the sequence.
LEMMA PartOfPrefix ==
    ASSUME NEW s \in Seq(Chars), NEW n \in 0..Len(s), NEW a \in Nat \ {0},
           NEW b \in 0..n
    PROVE  SubSeq(SubSeq(s, 1, n), a, b) = SubSeq(s, a, b)
<1> DEFINE prefix == SubSeq(s, 1, n)
           t == SubSeq(prefix, a, b)
           u == SubSeq(s, a, b)
           size == IF a <= b THEN b - a + 1 ELSE 0
<1>1. Len(s) \in Nat /\ n \in Nat /\ b \in Nat /\ b <= n /\ n <= Len(s)
    BY LenProperties
<1>2. prefix \in Seq(Chars) /\ Len(prefix) = n /\ \A i \in 1..n : prefix[i] = s[i]
    BY Prefix
<1> HIDE DEF prefix
<1>3. \A i \in a..b : i \in 1..n /\ i \in 1..Len(s)
    BY <1>1
<1>4. \A i \in a..b : prefix[i] = s[i] /\ s[i] \in Chars /\ prefix[i] \in Chars
    BY <1>2, <1>3, ElementOfSeq
<1>5. /\ t \in Seq(Chars) /\ Len(t) = size
      /\ \A i \in 1..b - a + 1 : t[i] = prefix[a + i - 1]
    <2>1. a \in Int /\ b \in Int
        BY <1>1
    <2> QED
        BY <1>4, <2>1, SubSeqProperties
<1>6. /\ u \in Seq(Chars) /\ Len(u) = size
      /\ \A i \in 1..b - a + 1 : u[i] = s[a + i - 1]
    <2>1. a \in Int /\ b \in Int
        BY <1>1
    <2> QED
        BY <1>4, <2>1, SubSeqProperties
<1> HIDE DEF t, u
<1>7. ASSUME NEW i \in 1..size PROVE t[i] = u[i]
    <2>1. i \in 1..b - a + 1 /\ a + i - 1 \in a..b
        BY <1>1
    <2> QED
        BY <1>4, <1>5, <1>6, <2>1
<1> HIDE DEF size
<1>8. t = u
    BY <1>5, <1>6, <1>7, SeqEqual
<1> QED
    BY <1>8 DEF t, u, prefix

\* The positions of the characters of words in the first line of the stream.
Inside == {i \in {k \in DOMAIN stream : \A m \in 1..k : stream[m] # LF} :
              stream[i] \notin Space}

\* Of what the buffer holds when it has the end of a header, getline takes the
\* first line of the stream: its line feed has arrived, and no NUL before it.
LEMMA FirstLineIs ==
    ASSUME stream \in Seq(Chars), NEW m \in 0..Len(stream), HeaderEnd <= m
    PROVE  \E n \in 0..Len(stream) :
              /\ FirstLine(CString(SubSeq(stream, 1, m))) = SubSeq(stream, 1, n)
              /\ \A i : i \in Inside <=> i \in 1..n /\ stream[i] \notin Space
<1> DEFINE raw == CString(SubSeq(stream, 1, m))
           eol == First(raw, LF)
           line == SubSeq(raw, 1, eol - 1)
<1>1. Len(stream) \in Nat /\ DOMAIN stream = 1..Len(stream) /\ m \in Nat
    BY LenProperties
<1>2. PICK n \in 0..m : /\ raw = SubSeq(stream, 1, n)
                        /\ n < m => stream[n + 1] = NUL
    <2> DEFINE buffer == SubSeq(stream, 1, m)
    <2>1. /\ buffer \in Seq(Chars) /\ Len(buffer) = m
          /\ \A i \in 1..m : buffer[i] = stream[i]
        BY Prefix
    <2>2. \A n \in 0..m : SubSeq(buffer, 1, n) = SubSeq(stream, 1, n)
        BY PartOfPrefix
    <2> HIDE DEF buffer
    <2>3. PICK n \in 0..m : CString(buffer) = SubSeq(buffer, 1, n)
                            /\ (n < m => buffer[n + 1] = NUL)
        BY <2>1, CStringIs
    <2>4. n < m => n + 1 \in 1..m
        BY <1>1
    <2> QED
        BY <2>1, <2>2, <2>3, <2>4 DEF buffer
<1>3. /\ raw \in Seq(Chars) /\ Len(raw) = n /\ n \in 0..Len(stream)
      /\ \A i \in 1..n : raw[i] = stream[i]
    <2>1. n \in 0..Len(stream)
        BY <1>1
    <2> QED
        BY <1>2, <2>1, Prefix
<1> HIDE DEF raw
<1>4. PICK e \in Ends : e <= m
    BY HeaderEndIs
<1>5. /\ e \in 1..Len(stream) /\ e > 3 /\ stream[e - 2] = LF
      /\ \A k \in 1..e : stream[k] # NUL
    BY <1>1 DEF Ends, Visible
<1>6. e - 2 \in 1..n
    <2>1. SUFFICES ASSUME n < e PROVE FALSE
        BY <1>1, <1>5
    <2>2. n < m /\ n + 1 \in 1..e
        BY <1>1, <1>4, <1>5, <2>1
    <2> QED
        BY <1>2, <1>5, <2>2
<1>7. /\ eol \in 1..n /\ stream[eol] = LF
      /\ \A k \in 1..eol - 1 : stream[k] # LF
    <2>1. /\ eol \in 0..n
          /\ eol # 0 => raw[eol] = LF /\ \A k \in 1..eol - 1 : raw[k] # LF
          /\ eol = 0 => \A k \in 1..n : raw[k] # LF
        BY <1>3, FirstIs
    <2> HIDE DEF eol
    <2>2. eol # 0
        BY <1>3, <1>5, <1>6, <2>1
    <2>3. eol \in 1..n /\ \A k \in 1..eol - 1 : k \in 1..n
        BY <1>1, <2>1, <2>2
    <2> QED
        BY <1>3, <2>1, <2>2, <2>3
<1>8. FirstLine(raw) = IF line # <<>> /\ Last(line) = CR THEN Front(line) ELSE line
    <2>1. eol # 0
        BY <1>7
    <2>2. FirstLine(raw) = IF (IF eol = 0 THEN raw ELSE line) # <<>>
                              /\ Last(IF eol = 0 THEN raw ELSE line) = CR
                           THEN Front(IF eol = 0 THEN raw ELSE line)
                           ELSE IF eol = 0 THEN raw ELSE line
        BY Zenon DEF FirstLine, SelectInSeq, First, Where
    <2> QED
        BY <2>1, <2>2, Zenon
<1> HIDE DEF eol
<1>9. \A i : i \in Inside <=> i \in 1..eol - 1 /\ stream[i] \notin Space
    <2>1. \A i \in 1..eol - 1 : i \in 1..Len(stream) /\ \A k \in 1..i : k \in 1..eol - 1
        BY <1>1, <1>7
    <2>2. \A i \in 1..Len(stream) : i \notin 1..eol - 1 => eol \in 1..i
        BY <1>1, <1>7
    <2> QED
        BY <1>1, <1>7, <2>1, <2>2 DEF Inside
<1>10. line = SubSeq(stream, 1, eol - 1) /\ eol - 1 \in 0..Len(stream)
    <2>1. eol - 1 \in 0..n /\ eol - 1 \in 0..Len(stream)
        BY <1>1, <1>7
    <2>2. SubSeq(SubSeq(stream, 1, n), 1, eol - 1) = SubSeq(stream, 1, eol - 1)
        BY <1>3, <2>1, PartOfPrefix
    <2> QED
        BY <1>2, <2>1, <2>2
<1> HIDE DEF line
<1>11. /\ line \in Seq(Chars) /\ Len(line) = eol - 1
       /\ \A i \in 1..eol - 1 : line[i] = stream[i]
    BY <1>10, Prefix
<1>12. CASE line # <<>> /\ Last(line) = CR
    <2>1. eol - 1 > 0
        BY <1>7, <1>11, <1>12, EmptySeq
    <2>2. /\ eol - 2 \in 0..eol - 1 /\ eol - 2 \in 0..Len(stream) /\ eol - 1 \in 1..eol - 1
          /\ eol - 1 - 1 = eol - 2
        BY <1>1, <1>7, <1>10, <2>1
    <2>3. FirstLine(raw) = SubSeq(stream, 1, eol - 2)
        <3>1. Front(line) = SubSeq(line, 1, eol - 2)
            BY <1>11, <2>2 DEF Front
        <3>2. SubSeq(line, 1, eol - 2) = SubSeq(stream, 1, eol - 2)
            BY <1>10, <2>2, PartOfPrefix
        <3> QED
            BY <1>8, <1>12, <3>1, <3>2
    <2>4. stream[eol - 1] \in Space
        BY <1>11, <1>12, <2>2 DEF Last, Space
    <2>5. \A i : i \in 1..eol - 1 /\ stream[i] \notin Space
                 <=> i \in 1..eol - 2 /\ stream[i] \notin Space
        <3>1. \A i : i \in 1..eol - 1 <=> i \in 1..eol - 2 \/ i = eol - 1
            BY <1>7, <2>1
        <3> QED
            BY <2>4, <3>1, Zenon
    <2>6. \A i : i \in Inside <=> i \in 1..eol - 2 /\ stream[i] \notin Space
        BY <1>9, <2>5, Zenon
    <2> QED
        BY <2>2, <2>3, <2>6 DEF raw
<1>13. CASE ~ (line # <<>> /\ Last(line) = CR)
    <2>1. FirstLine(raw) = SubSeq(stream, 1, eol - 1)
        BY <1>8, <1>10, <1>13
    <2> QED
        BY <1>9, <1>10, <2>1 DEF raw
<1> QED
    BY <1>12, <1>13

(***************************************************************************)
(* The words of the stream                                                 *)
(***************************************************************************)

Starts == {i \in Inside : i - 1 \notin Inside}
Nth(k) == {i \in Starts : Cardinality({m \in Starts : m <= i}) = k}
Run(i) == {m \in Inside : m >= i /\ i..m \subseteq Inside}

\* WordOf, with names for its parts.
LEMMA WordOfIs ==
    ASSUME NEW k
    PROVE  WordOf(k) = IF Nth(k) = {} THEN <<>>
                       ELSE SubSeq(stream, Least(Nth(k)),
                                   Least(Nth(k)) + Cardinality(Run(Least(Nth(k)))) - 1)
BY Zenon DEF WordOf, Nth, Run, Starts, Inside

\* The reference counts the beginnings of runs; here the runs are numbered.
Numbered(count, begin, end) ==
    /\ count \in Nat
    /\ begin \in [1..count -> Nat]
    /\ end \in [1..count -> Nat]
    /\ \A j \in 1..count : begin[j] <= end[j]
    /\ \A i, j \in 1..count : i < j => end[i] + 1 < begin[j]
    /\ Inside \in SUBSET Nat
    /\ \A i \in Nat : i \in Inside <=> \E j \in 1..count : begin[j] <= i /\ i <= end[j]

\* What begins a run is begin of one of them: runs do not touch.
LEMMA StartsAre ==
    ASSUME NEW count, NEW begin, NEW end, Numbered(count, begin, end)
    PROVE  /\ \A j \in 1..count : begin[j] \in Starts
           /\ \A i \in Starts : \E j \in 1..count : i = begin[j]
           /\ Starts \in SUBSET Nat
<1>1. ASSUME NEW j \in 1..count PROVE begin[j] \in Starts
    <2>1. count \in Nat /\ begin[j] \in Nat /\ end[j] \in Nat /\ begin[j] <= end[j]
        BY DEF Numbered
    <2>2. begin[j] \in Inside
        BY <2>1 DEF Numbered
    <2>3. ASSUME begin[j] - 1 \in Inside PROVE FALSE
        <3>1. begin[j] - 1 \in Nat
            BY <2>3 DEF Numbered
        <3>2. PICK i \in 1..count : begin[i] <= begin[j] - 1 /\ begin[j] - 1 <= end[i]
            BY <2>3, <3>1 DEF Numbered
        <3>3. i \in Nat /\ j \in Nat /\ begin[i] \in Nat /\ end[i] \in Nat
            BY DEF Numbered
        <3>4. CASE i = j
            BY <2>1, <3>2, <3>4
        <3>5. CASE i < j
            <4>1. end[i] + 1 < begin[j]
                BY <3>5 DEF Numbered
            <4> QED
                BY <2>1, <3>2, <3>3, <4>1
        <3>6. CASE j < i
            <4>1. end[j] + 1 < begin[i]
                BY <3>6 DEF Numbered
            <4> QED
                BY <2>1, <3>2, <3>3, <4>1
        <3> QED
            BY <3>3, <3>4, <3>5, <3>6
    <2> QED
        BY <2>2, <2>3 DEF Starts
<1>2. ASSUME NEW i \in Starts PROVE \E j \in 1..count : i = begin[j]
    <2>1. i \in Inside /\ i - 1 \notin Inside /\ i \in Nat
        BY DEF Starts, Numbered
    <2>2. PICK j \in 1..count : begin[j] <= i /\ i <= end[j]
        BY <2>1 DEF Numbered
    <2>3. begin[j] \in Nat /\ end[j] \in Nat
        BY DEF Numbered
    <2>4. ASSUME begin[j] # i PROVE FALSE
        <3>1. i - 1 \in Nat /\ begin[j] <= i - 1 /\ i - 1 <= end[j]
            BY <2>1, <2>2, <2>3, <2>4
        <3> QED
            BY <2>1, <3>1 DEF Numbered
    <2> QED
        BY <2>4
<1>3. Starts \in SUBSET Nat
    BY DEF Starts, Numbered
<1> QED
    BY <1>1, <1>2, <1>3

\* The j-th run is the one that has j beginnings up to its own.
LEMMA CountedOnce ==
    ASSUME NEW count, NEW begin, NEW end, Numbered(count, begin, end),
           NEW j \in 1..count
    PROVE  Cardinality({m \in Starts : m <= begin[j]}) = j
<1> DEFINE T == {m \in Starts : m <= begin[j]}
           f == [i \in 1..j |-> begin[i]]
<1>1. /\ count \in Nat /\ j \in Nat /\ j > 0
      /\ \A i \in 1..count : begin[i] \in Nat /\ end[i] \in Nat /\ begin[i] <= end[i]
    BY DEF Numbered
<1>2. ASSUME NEW i \in 1..count, NEW k \in 1..count, i < k
      PROVE  begin[i] < begin[k]
    <2>1. end[i] + 1 < begin[k]
        BY <1>2 DEF Numbered
    <2> QED
        BY <1>1, <2>1
<1>3. ASSUME NEW i \in 1..j PROVE i \in 1..count /\ begin[i] \in T
    <2>1. i \in 1..count /\ i <= j
        BY <1>1
    <2>2. begin[i] <= begin[j]
        <3>1. CASE i = j
            BY <1>1, <2>1, <3>1
        <3>2. CASE i < j
            BY <1>1, <1>2, <2>1, <3>2
        <3> QED
            BY <1>1, <2>1, <3>1, <3>2
    <2> QED
        BY <2>1, <2>2, StartsAre
<1>4. ASSUME NEW m \in T PROVE \E i \in 1..j : begin[i] = m
    <2>1. PICK i \in 1..count : m = begin[i]
        BY StartsAre
    <2>2. ~ (j < i)
        <3>1. SUFFICES ASSUME j < i PROVE FALSE
            OBVIOUS
        <3>2. begin[j] < begin[i] /\ begin[i] <= begin[j]
            BY <1>2, <2>1, <3>1
        <3> QED
            BY <1>1, <3>2
    <2> QED
        BY <1>1, <2>1, <2>2
<1> HIDE DEF T
<1>5. f \in Bijection(1..j, T)
    <2>1. f \in [1..j -> T]
        BY <1>3
    <2>2. ASSUME NEW i \in 1..j, NEW k \in 1..j, f[i] = f[k] PROVE i = k
        <3>1. i \in 1..count /\ k \in 1..count /\ begin[i] = begin[k]
            BY <1>3, <2>2
        <3>2. ~ (i < k) /\ ~ (k < i)
            BY <1>1, <1>2, <3>1
        <3> QED
            BY <1>1, <3>1, <3>2
    <2>3. ASSUME NEW m \in T PROVE \E i \in 1..j : f[i] = m
        BY <1>4
    <2> QED
        BY <2>1, <2>2, <2>3 DEF Bijection, Injection, Surjection, IsInjective
<1> HIDE DEF f
<1>6. IsFiniteSet(1..j) /\ Cardinality(1..j) = j
    <2>1. 1 \in Int /\ j \in Int /\ ~ (1 > j) /\ j - 1 + 1 = j
        BY <1>1
    <2> QED
        BY <2>1, FS_Interval
<1>7. Cardinality(T) = j
    <2>1. ExistsBijection(1..j, T)
        BY <1>5 DEF ExistsBijection
    <2> QED
        BY <1>6, <2>1, FS_Bijection
<1> QED
    BY <1>7 DEF T

\* A run goes to its end and no further.
LEMMA RunIs ==
    ASSUME NEW count, NEW begin, NEW end, Numbered(count, begin, end),
           NEW j \in 1..count
    PROVE  Run(begin[j]) = begin[j]..end[j]
<1>1. /\ count \in Nat /\ j \in Nat
      /\ begin[j] \in Nat /\ end[j] \in Nat /\ begin[j] <= end[j]
    BY DEF Numbered
<1>2. ASSUME NEW m \in begin[j]..end[j] PROVE m \in Inside
    <2>1. m \in Nat /\ begin[j] <= m /\ m <= end[j]
        BY <1>1
    <2> QED
        BY <2>1 DEF Numbered
<1>3. ASSUME NEW m \in begin[j]..end[j] PROVE m \in Run(begin[j])
    <2>1. m >= begin[j] /\ begin[j]..m \subseteq begin[j]..end[j]
        BY <1>1
    <2> QED
        BY <1>2, <2>1 DEF Run
<1>4. end[j] + 1 \notin Inside
    <2>1. SUFFICES ASSUME end[j] + 1 \in Inside PROVE FALSE
        OBVIOUS
    <2>2. PICK i \in 1..count : begin[i] <= end[j] + 1 /\ end[j] + 1 <= end[i]
        BY <1>1, <2>1 DEF Numbered
    <2>3. i \in Nat /\ begin[i] \in Nat /\ end[i] \in Nat
        BY DEF Numbered
    <2>4. CASE i = j
        BY <1>1, <2>2, <2>4
    <2>5. CASE i < j
        <3>1. end[i] + 1 < begin[j]
            BY <2>5 DEF Numbered
        <3> QED
            BY <1>1, <2>2, <2>3, <3>1
    <2>6. CASE j < i
        <3>1. end[j] + 1 < begin[i]
            BY <2>6 DEF Numbered
        <3> QED
            BY <1>1, <2>2, <2>3, <3>1
    <2> QED
        BY <1>1, <2>3, <2>4, <2>5, <2>6
<1>5. ASSUME NEW m \in Run(begin[j]) PROVE m \in begin[j]..end[j]
    <2>1. m \in Nat /\ m >= begin[j] /\ begin[j]..m \subseteq Inside
        BY DEF Run, Numbered
    <2>2. ~ (end[j] < m)
        <3>1. SUFFICES ASSUME end[j] < m PROVE FALSE
            OBVIOUS
        <3>2. end[j] + 1 \in begin[j]..m
            BY <1>1, <2>1, <3>1
        <3> QED
            BY <1>4, <2>1, <3>2
    <2> QED
        BY <1>1, <2>1, <2>2
<1> QED
    BY <1>3, <1>5

\* The k-th word of the reference is the k-th run, and empty behind the last.
LEMMA WordsNumbered ==
    ASSUME NEW count, NEW begin, NEW end, Numbered(count, begin, end),
           NEW k \in Nat \ {0}
    PROVE  WordOf(k) = IF k <= count THEN SubSeq(stream, begin[k], end[k]) ELSE <<>>
<1>1. count \in Nat
    BY DEF Numbered
<1>2. ASSUME NEW i \in Nth(k) PROVE k \in 1..count /\ i = begin[k]
    <2>1. i \in Starts /\ Cardinality({m \in Starts : m <= i}) = k
        BY DEF Nth
    <2>2. PICK j \in 1..count : i = begin[j]
        BY <2>1, StartsAre
    <2>3. j = k
        BY <2>1, <2>2, CountedOnce
    <2> QED
        BY <2>2, <2>3
<1>3. CASE k <= count
    <2>1. k \in 1..count
        BY <1>1, <1>3
    <2>2. begin[k] \in Nth(k)
        BY <2>1, CountedOnce, StartsAre DEF Nth
    <2>3. Nth(k) = {begin[k]}
        BY <1>2, <2>2
    <2>4. begin[k] \in Nat /\ end[k] \in Nat /\ begin[k] <= end[k]
        BY <2>1 DEF Numbered
    <2>5. Least(Nth(k)) = begin[k]
        <3>1. Nth(k) \in SUBSET Nat /\ Nth(k) # {}
            BY <2>3, <2>4
        <3> QED
            BY <2>3, <3>1, LeastIs
    <2>6. Cardinality(Run(begin[k])) = end[k] - begin[k] + 1
        <3>1. Run(begin[k]) = begin[k]..end[k]
            BY <2>1, RunIs
        <3>2. begin[k] \in Int /\ end[k] \in Int /\ ~ (begin[k] > end[k])
            BY <2>4
        <3> QED
            BY <3>1, <3>2, FS_Interval
    <2>7. begin[k] + Cardinality(Run(begin[k])) - 1 = end[k]
        BY <2>4, <2>6
    <2>8. Nth(k) # {}
        BY <2>2
    <2>9. WordOf(k) = SubSeq(stream, begin[k], begin[k] + Cardinality(Run(begin[k])) - 1)
        BY <2>5, <2>8, WordOfIs, Zenon
    <2> QED
        BY <1>3, <2>7, <2>9
<1>4. CASE ~ (k <= count)
    <2>1. Nth(k) = {}
        BY <1>1, <1>2, <1>4
    <2> QED
        BY <1>4, <2>1, WordOfIs, Zenon
<1> QED
    BY <1>3, <1>4

\* What parse stores is the request of the whole stream, once the end of the
\* header has arrived.
LEMMA ParseIs ==
    ASSUME stream \in Seq(Chars), NEW m \in 0..Len(stream), HeaderEnd <= m
    PROVE  /\ Parse(CString(SubSeq(stream, 1, m)))
              = [method |-> WordOf(1), path |-> WordOf(2), protocol |-> WordOf(3),
                 is_complete |-> TRUE]
           /\ WordOf(1) \in Seq(Chars) /\ WordOf(2) \in Seq(Chars) /\ WordOf(3) \in Seq(Chars)
<1> DEFINE line == FirstLine(CString(SubSeq(stream, 1, m)))
           words == Words(line)
           word(k) == IF k <= Len(words) THEN words[k] ELSE <<>>
<1>1. Len(stream) \in Nat
    BY LenProperties
<1>2. PICK n \in 0..Len(stream) :
         /\ line = SubSeq(stream, 1, n)
         /\ \A i : i \in Inside <=> i \in 1..n /\ stream[i] \notin Space
    BY FirstLineIs
<1>3. /\ line \in Seq(Chars) /\ Len(line) = n
      /\ \A i \in 1..n : line[i] = stream[i]
    BY <1>2, Prefix
<1> HIDE DEF line
<1>4. PICK state, count, begin, end :
         /\ RunsTo(line, n, state, count, begin, end)
         /\ words = state.words
    BY <1>3, WordsAreRuns
<1>5. Numbered(count, begin, end)
    <2>1. ASSUME NEW i \in Nat
          PROVE  i \in Inside <=> \E j \in 1..count : begin[j] <= i /\ i <= end[j]
        <3>1. CASE i \in 1..n
            BY <1>2, <1>3, <1>4, <3>1 DEF RunsTo
        <3>2. CASE i \notin 1..n
            <4>1. ASSUME NEW j \in 1..count, begin[j] <= i, i <= end[j] PROVE FALSE
                <5>1. begin[j] \in 1..n /\ end[j] \in 1..n
                    BY <1>4 DEF RunsTo
                <5> QED
                    BY <3>2, <4>1, <5>1
            <4> QED
                BY <1>2, <3>2, <4>1
        <3> QED
            BY <3>1, <3>2
    <2>2. Inside \in SUBSET Nat
        BY <1>2
    <2>3. /\ count \in Nat
          /\ begin \in [1..count -> Nat] /\ end \in [1..count -> Nat]
        <3>1. count \in Nat /\ begin \in [1..count -> 1..n] /\ end \in [1..count -> 1..n]
            BY <1>4 DEF RunsTo
        <3>2. 1..n \subseteq Nat
            BY <1>1
        <3> QED
            BY <3>1, <3>2
    <2>4. /\ \A j \in 1..count : begin[j] <= end[j]
          /\ \A i, j \in 1..count : i < j => end[i] + 1 < begin[j]
        BY <1>4 DEF RunsTo
    <2> QED
        BY <2>1, <2>2, <2>3, <2>4 DEF Numbered
<1>6. ASSUME NEW k \in Nat \ {0}
      PROVE  word(k) = WordOf(k) /\ WordOf(k) \in Seq(Chars)
    <2>1. count \in Nat /\ Len(words) = count /\ words \in Seq(Seq(Chars))
        BY <1>4 DEF RunsTo
    <2>2. CASE k <= count
        <3>1. k \in 1..count
            BY <2>1, <2>2
        <3>2. words[k] = SubSeq(line, begin[k], end[k]) /\ begin[k] \in 1..n /\ end[k] \in 1..n
            BY <1>4, <3>1 DEF RunsTo
        <3>3. SubSeq(line, begin[k], end[k]) = SubSeq(stream, begin[k], end[k])
            <4>1. begin[k] \in Nat \ {0} /\ end[k] \in 0..n
                BY <3>2
            <4> QED
                BY <1>2, <4>1, PartOfPrefix
        <3>4. words[k] \in Seq(Chars)
            BY <2>1, <3>1, ElementOfSeq
        <3>5. WordOf(k) = SubSeq(stream, begin[k], end[k])
            BY <1>5, <2>2, WordsNumbered
        <3> QED
            BY <2>1, <2>2, <3>2, <3>3, <3>4, <3>5
    <2>3. CASE ~ (k <= count)
        <3>1. WordOf(k) = <<>> /\ <<>> \in Seq(Chars)
            BY <1>5, <2>3, WordsNumbered, EmptySeq
        <3> QED
            BY <2>1, <2>3, <3>1
    <2> QED
        BY <2>2, <2>3
<1>7. Parse(CString(SubSeq(stream, 1, m)))
         = [method |-> word(1), path |-> word(2), protocol |-> word(3), is_complete |-> TRUE]
    BY Zenon DEF Parse, line
<1> HIDE DEF word
<1>8. 1 \in Nat \ {0} /\ 2 \in Nat \ {0} /\ 3 \in Nat \ {0}
    OBVIOUS
<1>9. /\ word(1) = WordOf(1) /\ word(2) = WordOf(2) /\ word(3) = WordOf(3)
      /\ WordOf(1) \in Seq(Chars) /\ WordOf(2) \in Seq(Chars) /\ WordOf(3) \in Seq(Chars)
    BY <1>6, <1>8
<1> QED
    BY <1>7, <1>9

(***************************************************************************)
(* The answer                                                              *)
(***************************************************************************)

\* All the properties together are inductive: a request is parsed at HeaderEnd
\* and not touched again.
Inv == HeaderInv /\ TypeOK /\ AnsweredForItsRequest

LEMMA InvInit ==
    ASSUME Init
    PROVE  Inv
<1>1. stream \in Seq(Chars) /\ bytes_read = 0 /\ outcome = "reading"
    BY StreamsAssumption DEF Init
<1>2. request \in [method : Seq(Chars), path : Seq(Chars), protocol : Seq(Chars),
                   is_complete : BOOLEAN]
    BY EmptySeq DEF Init, NoRequest
<1> QED
    BY <1>1, <1>2, HeaderInit DEF Inv, HeaderInv, Offsets, TypeOK, AnsweredForItsRequest

\* A read that completes the header stores the request of the stream.
LEMMA InvRead ==
    ASSUME Inv, Read
    PROVE  TypeOK' /\ AnsweredForItsRequest'
<1>1. PICK n \in 1..Lesser(Len(stream) - bytes_read, Room) :
         /\ bytes_read' = bytes_read + n
         /\ IF Complete(CString(SubSeq(stream, 1, bytes_read + n)))
            THEN /\ request' = Parse(CString(SubSeq(stream, 1, bytes_read + n)))
                 /\ outcome' = Page(request'.path)
            ELSE /\ UNCHANGED request
                 /\ outcome' = IF bytes_read' >= BUFFER_SIZE - 1 THEN "closed" ELSE "reading"
    BY DEF Read
<1>2. stream \in Seq(Chars) /\ stream' = stream
    BY DEF Inv, TypeOK, Read
<1>3. HeaderInv'
    BY HeaderRead DEF Inv
<1>4. /\ bytes_read' \in 0..Lesser(Len(stream'), BUFFER_SIZE - 1)
      /\ outcome' \in {"reading", "index", "data", "not_found", "closed"}
      /\ stream' \in Seq(Chars)
    BY <1>3 DEF HeaderInv, Offsets
<1>5. bytes_read' \in 0..Len(stream)
    BY <1>2, <1>4, Facts
<1>6. CASE Complete(CString(SubSeq(stream, 1, bytes_read')))
    <2>1. HeaderEnd <= bytes_read'
        BY <1>2, <1>5, <1>6, Recognised
    <2>2. /\ request' = Parse(CString(SubSeq(stream, 1, bytes_read')))
          /\ outcome' = Page(request'.path)
        BY <1>1, <1>6
    <2>3. /\ request' = [method |-> WordOf(1), path |-> WordOf(2), protocol |-> WordOf(3),
                         is_complete |-> TRUE]
          /\ WordOf(1) \in Seq(Chars) /\ WordOf(2) \in Seq(Chars) /\ WordOf(3) \in Seq(Chars)
        BY <1>2, <1>5, <2>1, <2>2, ParseIs
    <2>4. outcome' = Page(WordOf(2))
        BY <2>2, <2>3
    <2>5. /\ WordOf(1)' = WordOf(1) /\ WordOf(2)' = WordOf(2) /\ WordOf(3)' = WordOf(3)
        BY <1>2 DEF WordOf
    <2>6. TypeOK'
        BY <1>4, <2>3 DEF TypeOK
    <2>7. /\ outcome' = "index" <=> WordOf(2) \in IndexPaths
          /\ outcome' = "data" <=> WordOf(2) \in DataPaths
        BY <2>4, PathAssumption DEF Page
    <2> QED
        BY <2>3, <2>5, <2>6, <2>7 DEF AnsweredForItsRequest
<1>7. CASE ~ Complete(CString(SubSeq(stream, 1, bytes_read')))
    <2>1. request' = request /\ outcome' \in {"closed", "reading"}
        BY <1>1, <1>7
    <2>2. TypeOK'
        BY <1>4, <2>1 DEF Inv, TypeOK
    <2> QED
        BY <2>1, <2>2 DEF AnsweredForItsRequest
<1> QED
    BY <1>6, <1>7

LEMMA InvStep ==
    ASSUME Inv, [Next]_vars
    PROVE  Inv'
<1>1. HeaderInv'
    BY HeaderStep DEF Inv
<1>2. CASE Read
    BY <1>1, <1>2, InvRead DEF Inv
<1>3. CASE ReadEnd
    <2>1. TypeOK'
        BY <1>3 DEF ReadEnd, Inv, TypeOK
    <2>2. AnsweredForItsRequest'
        BY <1>3 DEF ReadEnd, AnsweredForItsRequest
    <2> QED
        BY <1>1, <2>1, <2>2 DEF Inv
<1>4. CASE UNCHANGED vars
    <2>1. TypeOK'
        BY <1>4 DEF vars, Inv, TypeOK
    <2>2. AnsweredForItsRequest'
        <3>1. stream' = stream /\ request' = request /\ outcome' = outcome
            BY <1>4 DEF vars
        <3>2. WordOf(1)' = WordOf(1) /\ WordOf(2)' = WordOf(2) /\ WordOf(3)' = WordOf(3)
            BY <3>1 DEF WordOf
        <3> QED
            BY <3>1, <3>2 DEF Inv, AnsweredForItsRequest
    <2> QED
        BY <1>1, <2>1, <2>2 DEF Inv
<1> QED
    BY <1>2, <1>3, <1>4 DEF Next, Decided

LEMMA Invariance == Spec => []Inv
BY InvInit, InvStep, PTL DEF Spec

\* The variables keep their types: what parse stores are words over the
\* characters, and no more than BUFFER_SIZE - 1 bytes are ever in the buffer.
THEOREM TypeOKAlways == Spec => []TypeOK
<1>1. Inv => TypeOK
    BY DEF Inv
<1> QED
    BY <1>1, Invariance, PTL

\* Every request that is answered is the one in the stream, and the page is
\* that of its path, wherever the segments were cut and however many bytes
\* behind the header had arrived when build_response was called.
THEOREM AnsweredForItsRequestAlways == Spec => []AnsweredForItsRequest
<1>1. Inv => AnsweredForItsRequest
    BY DEF Inv
<1> QED
    BY <1>1, Invariance, PTL

\* HttpServer's abstraction: a stream has one offset from which on the bytes
\* read make a request (HandleClientClient's parse after every read), for any
\* stream, any cuts and any size of the buffer.
THEOREM DecidedAtHeaderEndAlways == Spec => []DecidedAtHeaderEnd
<1>1. Inv => DecidedAtHeaderEnd
    BY DEF Inv, HeaderInv
<1> QED
    BY <1>1, Invariance, PTL
=============================================================================
