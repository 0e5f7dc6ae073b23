---------------------------- MODULE GrubMenuParse ----------------------------
(***************************************************************************)
(* One call of Grub2.parseEntries on a menu text drawn from Texts, and     *)
(* what the result must say about that text.  The reference definitions   *)
(* below describe the nesting of a menu text declaratively (no stack, no   *)
(* counters), from the rules of the spec: "}" closes the open menuentry    *)
(* body if there is one, otherwise the innermost open submenu; a stray "}" *)
(* at top level is ignored.                                                *)
(***************************************************************************)
EXTENDS GrubMenu, FiniteSets

CONSTANT Texts          \* the menu texts the daemon may be given

VARIABLES text, result

vars == <<text, result>>

Unparsed == [entries |-> <<>>, err |-> "unparsed"]

TypeOK ==
    /\ text \in Seq(Line)
    /\ result.err \in {NoErr, ErrNested, ErrTitle, ErrScan, "unparsed"}
    /\ \A i \in 1..Len(result.entries) :
          /\ result.entries[i].entryType \in {MENUENTRY, SUBMENU}
          /\ result.entries[i].title \in Titles
          /\ result.entries[i].num \in Nat
          /\ result.entries[i].parent \in 0..(i - 1)

Init == text \in Texts /\ result = Unparsed

\* readEntries -> parseEntries(string(fileContent))
Parse ==
    /\ result = Unparsed
    /\ result' = ParseEntries(text)
    /\ UNCHANGED text

Next == Parse

Spec == Init /\ [][Next]_vars

-----------------------------------------------------------------------------
(* Reference: the nesting of a text, stated line by line.                  *)

IsDirective(l) == l.op \in {"menuentry", "submenu"}

\* Line k lies inside the body of a menuentry not yet closed by a "}".
InBody(t, k) ==
    \E j \in 1..(k - 1) :
        /\ t[j].op = "menuentry"
        /\ \A m \in (j + 1)..(k - 1) : t[m].op # "close"

RECURSIVE Depth(_, _)
\* Number of submenu scopes open when line k is reached.
Depth(t, k) ==
    IF k = 1 THEN 0
    ELSE Depth(t, k - 1)
         + (IF t[k - 1].op = "submenu" THEN 1 ELSE 0)
         - (IF t[k - 1].op = "close" /\ ~InBody(t, k - 1)
               /\ Depth(t, k - 1) > 0 THEN 1 ELSE 0)

\* The line of the submenu whose scope holds line k, 0 at top level.
EnclosingLine(t, k) ==
    LET cands == {j \in 1..(k - 1) : t[j].op = "submenu"
                                     /\ Depth(t, j) = Depth(t, k) - 1}
    IN  IF Depth(t, k) = 0 THEN 0
        ELSE CHOOSE j \in cands : \A i \in cands : i <= j

DirectiveLines(t) ==
    SelectSeq([k \in 1..Len(t) |-> k], LAMBDA k : IsDirective(t[k]))

\* The text is well-formed: no directive in a body, every title readable,
\* every line readable.
WellFormed(t) ==
    \A k \in 1..Len(t) :
        /\ IsDirective(t[k]) => ~InBody(t, k) /\ t[k].title # BadTitle
        /\ t[k].op # "toolong"

Parsed == result # Unparsed
E == result.entries

-----------------------------------------------------------------------------
(* Properties.                                                             *)

\* parseEntries fails exactly on the texts the spec calls malformed, and
\* a well-formed text yields one entry per directive line, in order.
ErrorIffMalformed ==
    Parsed =>
        /\ (result.err = NoErr) <=> WellFormed(text)
        /\ result.err = NoErr =>
              /\ Len(E) = Len(DirectiveLines(text))
              /\ \A i \in 1..Len(E) :
                    E[i].title = text[DirectiveLines(text)[i]].title

\* The parent of every entry is the submenu whose scope holds its line:
\* the parentMenus stack, level counter and inMenuEntry flag of
\* parseEntries together track the brace structure of the text.
ParentIsEnclosingSubmenu ==
    (Parsed /\ result.err = NoErr) =>
        LET D == DirectiveLines(text)
        IN  \A i \in 1..Len(E) :
              LET enc == EnclosingLine(text, D[i])
              IN  IF enc = 0 THEN E[i].parent = 0
                  ELSE E[i].parent > 0 /\ D[E[i].parent] = enc

SiblingsBefore(i, type) ==
    Cardinality({f \in 1..(i - 1) : E[f].entryType = type
                                    /\ E[f].parent = E[i].parent})

\* A menuentry's num is its position among the menuentries of the same
\* submenu (the per-level numCount is reset when a submenu opens).
MenuEntryIndexIsSiblingPosition ==
    (Parsed /\ result.err = NoErr) =>
        \A i \in 1..Len(E) :
            E[i].entryType = MENUENTRY => E[i].num = SiblingsBefore(i, MENUENTRY)

\* The first line the scanner cannot read, 0 when there is none.
FirstTooLong(t) ==
    LET ks == {k \in 1..Len(t) : t[k].op = "toolong"}
    IN  IF ks = {} THEN 0 ELSE CHOOSE k \in ks : \A j \in ks : k <= j

\* On bufio.ErrTooLong parseEntries returns sl.Err() without clearEntries,
\* so grub.entries keeps what the loop built before the line it could not
\* read.  A scan error is reported only when the lines before the first
\* unreadable line are well-formed (a malformed directive there wins), and
\* the entries left behind are exactly that prefix's directives, in order.
ScanErrorKeepsPrefixEntries ==
    (Parsed /\ result.err = ErrScan) =>
        LET P == SubSeq(text, 1, FirstTooLong(text) - 1)
        IN  /\ FirstTooLong(text) > 0
            /\ WellFormed(P)
            /\ Len(E) = Len(DirectiveLines(P))
            /\ \A i \in 1..Len(E) : E[i].title = P[DirectiveLines(P)[i]].title
=============================================================================
