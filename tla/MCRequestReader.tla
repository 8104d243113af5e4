--------------------------- MODULE MCRequestReader ---------------------------
(* RequestReader with one letter, of which the paths are made: all short     *)
(* streams, and all with a header end behind up to LineLength characters and *)
(* up to TailLength more behind it.                                          *)
EXTENDS RequestReader

CONSTANTS p, LineLength, TailLength

MCIndexPaths == {<<p>>}
MCDataPaths  == {<<p, p>>}

MCStreams ==
    BoundedSeq(Chars, LineLength)
        \cup {line \o <<CR, LF, CR, LF>> \o tail :
                 line \in BoundedSeq(Chars, LineLength),
                 tail \in BoundedSeq(Chars, TailLength)}
=============================================================================
