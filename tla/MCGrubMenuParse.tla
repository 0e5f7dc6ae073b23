--------------------------- MODULE MCGrubMenuParse ---------------------------
EXTENDS GrubMenuParse

\* Bound on the number of lines of a menu text.
MaxLines == 6

\* Lines without the scanner's line-too-long error.
ReadableLine == {l \in Line : l.op # "toolong"}

MCTextsReadable == SeqOf(ReadableLine, MaxLines)

\* Shorter texts that may also contain a line bufio.Scanner rejects.
MCTextsAll == SeqOf(Line, 4)

\* Both kinds of text.
MCTexts == MCTextsReadable \cup MCTextsAll
=============================================================================
