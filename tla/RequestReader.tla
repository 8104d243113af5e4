---------------------------- MODULE RequestReader ----------------------------
(***************************************************************************)
(* How a request is read in pieces, recognised and answered: the reading   *)
(* part of HandleClientClient with HttpRequest::parse (include/web/        *)
(* http_request.h) and the choice of build_response (src/web/              *)
(* connect_context.cpp).  HttpServer only counts bytes and says that a     *)
(* request ends at HeaderEnd; this module has the bytes and shows why.     *)
(*                                                                         *)
(* A client sends one of Streams, cut into segments at any place, and then *)
(* leaves.                                                                 *)
(***************************************************************************)
EXTENDS Integers, SequencesExt

CONSTANTS
    CR, LF, SP, NUL,  \* the characters parse distinguishes
    Letters,          \* some others
    Streams,          \* what clients may send
    BUFFER_SIZE,
    IndexPaths,       \* "/" and "/index.html"
    DataPaths         \* "/api/data"

Chars == {CR, LF, SP, NUL} \cup Letters

ASSUME StreamsAssumption == Streams \subseteq Seq(Chars)
ASSUME SizeAssumption    == BUFFER_SIZE \in Nat \ {0, 1}
ASSUME PathAssumption    == IndexPaths \cap DataPaths = {}

Space == {CR, LF, SP}   \* isspace
Lesser(m, n) == IF m <= n THEN m ELSE n

VARIABLES
    stream,      \* what this client sends
    bytes_read,  \* how much of it is in the buffer
    request,     \* method, path and protocol
    outcome      \* "reading", the page sent, or "closed" without an answer

vars == <<stream, bytes_read, request, outcome>>

TypeOK ==
    /\ stream \in Seq(Chars)
    /\ bytes_read \in 0..Lesser(Len(stream), BUFFER_SIZE - 1)
    /\ request \in [method : Seq(Chars), path : Seq(Chars), protocol : Seq(Chars),
                    is_complete : BOOLEAN]
    /\ outcome \in {"reading", "index", "data", "not_found", "closed"}

NoRequest == [method |-> <<>>, path |-> <<>>, protocol |-> <<>>,
              is_complete |-> FALSE]

Init == /\ stream \in Streams
        /\ bytes_read = 0
        /\ request = NoRequest
        /\ outcome = "reading"

-----------------------------------------------------------------------------
(* HttpRequest::parse *)

\* Mutant of CString: the buffer is taken as bytes_read bytes.
CStringOfAll(buffer) == buffer

\* The std::string made of a char*: up to the first NUL.
CString(buffer) ==
    LET end == SelectInSeq(buffer, LAMBDA ch : ch = NUL)
    IN  IF end = 0 THEN buffer ELSE SubSeq(buffer, 1, end - 1)

\* raw.find("\r\n\r\n")
Complete(raw) ==
    \E i \in 1..Len(raw) - 3 : SubSeq(raw, i, i + 3) = <<CR, LF, CR, LF>>

\* Mutant of FirstLine: the line is what has been read so far.
FirstLineToTheEnd(raw) == raw

\* getline, and pop_back of a '\r'.
FirstLine(raw) ==
    LET eol  == SelectInSeq(raw, LAMBDA ch : ch = LF)
        line == IF eol = 0 THEN raw ELSE SubSeq(raw, 1, eol - 1)
    IN  IF line # <<>> /\ Last(line) = CR THEN Front(line) ELSE line

\* What operator>> extracts, character by character: the words so far, and
\* whether the last of them may go on.
Extract(state, ch) ==
    IF ch \in Space THEN [state EXCEPT !.open = FALSE]
    ELSE IF state.open
         THEN [state EXCEPT !.words[Len(state.words)] = Append(@, ch)]
         ELSE [words |-> Append(state.words, <<ch>>), open |-> TRUE]

Words(line) == FoldLeft(Extract, [words |-> <<>>, open |-> FALSE], line).words

\* f >> method >> path >> protocol; a missing word leaves its string empty.
Parse(raw) ==
    LET words == Words(FirstLine(raw))
        word(k) == IF k <= Len(words) THEN words[k] ELSE <<>>
    IN  [method |-> word(1), path |-> word(2), protocol |-> word(3),
         is_complete |-> TRUE]

\* build_response
Page(path) == IF path \in IndexPaths THEN "index"
              ELSE IF path \in DataPaths THEN "data"
              ELSE "not_found"

-----------------------------------------------------------------------------
(* HandleClientClient, with OnMessage *)

\* Mutant of Room: no room is kept for the terminating NUL.
RoomForNulForgotten == BUFFER_SIZE - bytes_read

\* BUFFER_SIZE - ctx->bytes_read - 1
Room == BUFFER_SIZE - bytes_read - 1

\* read returns the n bytes of the next segment.
Read ==
    /\ outcome = "reading"
    /\ \E n \in 1..Lesser(Len(stream) - bytes_read, Room) :
          LET raw == CString(SubSeq(stream, 1, bytes_read + n))
          IN  /\ bytes_read' = bytes_read + n
              /\ IF Complete(raw)
                 THEN /\ request' = Parse(raw)
                      /\ outcome' = Page(request'.path)
                 ELSE /\ UNCHANGED request
                      /\ outcome' = IF bytes_read' >= BUFFER_SIZE - 1
                                    THEN "closed" ELSE "reading"
    /\ UNCHANGED stream

\* read returns 0: the client has sent everything and left.
ReadEnd ==
    /\ outcome = "reading"
    /\ bytes_read = Len(stream)
    /\ outcome' = "closed"
    /\ UNCHANGED <<stream, bytes_read, request>>

Decided == outcome # "reading" /\ UNCHANGED vars

Next == Read \/ ReadEnd \/ Decided
Spec == Init /\ [][Next]_vars

-----------------------------------------------------------------------------
(* Reference: the request of a whole stream, by positions *)

Least(S) == CHOOSE i \in S : \A k \in S : i <= k

Visible == {i \in DOMAIN stream : \A k \in 1..i : stream[k] # NUL}

\* Where the header of the stream ends, beyond its end if it does not.
HeaderEnd ==
    LET ends == {i \in Visible : /\ i > 3
                                 /\ stream[i - 3] = CR /\ stream[i - 2] = LF
                                 /\ stream[i - 1] = CR /\ stream[i] = LF}
    IN  IF ends = {} THEN Len(stream) + BUFFER_SIZE ELSE Least(ends)

\* The k-th run of characters other than spaces before the first line feed.
WordOf(k) ==
    LET line   == {i \in DOMAIN stream : \A m \in 1..i : stream[m] # LF}
        inside == {i \in line : stream[i] \notin Space}
        starts == {i \in inside : i - 1 \notin inside}
        nth    == {i \in starts : Cardinality({m \in starts : m <= i}) = k}
        run(i) == {m \in inside : m >= i /\ i..m \subseteq inside}
    IN  IF nth = {} THEN <<>>
        ELSE LET i == Least(nth) IN SubSeq(stream, i, i + Cardinality(run(i)) - 1)

\* The request is the stream's, wherever the segments were cut and however many
\* bytes behind the header had arrived when it was recognised.
AnsweredForItsRequest ==
    outcome \in {"index", "data", "not_found"} =>
        /\ request = [method |-> WordOf(1), path |-> WordOf(2),
                      protocol |-> WordOf(3), is_complete |-> TRUE]
        /\ outcome = "index" <=> WordOf(2) \in IndexPaths
        /\ outcome = "data" <=> WordOf(2) \in DataPaths

\* HttpServer's abstraction is right: a stream has one offset from which on the
\* bytes read make a request, none before and all after; a request that ends
\* within the buffer is answered and no other.
DecidedAtHeaderEnd ==
    CASE outcome = "reading" -> bytes_read < HeaderEnd /\ bytes_read < BUFFER_SIZE - 1
      [] outcome = "closed"  -> HeaderEnd > Lesser(Len(stream), BUFFER_SIZE - 1)
      [] OTHER               -> bytes_read >= HeaderEnd
=============================================================================
