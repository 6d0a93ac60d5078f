---------------------------- MODULE MCSendAttempt ----------------------------
(* Finite instances of SendAttempt.                                        *)
EXTENDS SendAttempt

\* One piece of every kind, with characters of both widths, all different.
Parts ==
    {Piece("text", NoComma, <<3, 4>>, -1), Piece("name", NoComma, <<>>, -1),
     Piece("Bold", NoComma, <<6, 5>>, -1), Piece("Mention", NoComma, <<7>>, -1),
     Piece("Pre", <<9>>, <<8, 11>>, -1), Piece("TextURL", <<10, 13>>, <<15>>, -1),
     Piece("TextURL", NoComma, <<12>>, -1),
     Piece("Random", NoComma, <<17>>, 2), Piece("Random", NoComma, <<19>>, -1),
     Piece("Other", NoComma, <<14>>, -1)}

AllBodies == UNION {[1..n -> Parts] : n \in 0..3}

\* A name, one that reads as a tag, and the default.
SomeNames ==
    {<<Piece("text", NoComma, <<16, 21>>, -1)>>,
     <<Piece("text", NoComma, <<18>>, -1), Piece("Italic", NoComma, <<20>>, -1)>>}

\* Quiet hours over midnight, within a day, and a start that is not set with an
\* end that cannot be read; waits that reach the cap, and a jitter whose ends are swapped.
SomeViews ==
    {[success |-> 1, failure |-> 1, lo |-> 0, hi |-> 1, quietStart |-> 3, quietEnd |-> 1],
     [success |-> 1, failure |-> 2, lo |-> 0, hi |-> 0, quietStart |-> 1, quietEnd |-> 2],
     [success |-> 2, failure |-> 1, lo |-> 1, hi |-> 0, quietStart |-> Never, quietEnd |-> 4]}
=============================================================================
