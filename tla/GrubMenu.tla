------------------------------ MODULE GrubMenu ------------------------------
(***************************************************************************)
(* The boot-menu parser of the grub2 daemon (src/grub2/grub2.go):          *)
(* Grub2.parseEntries, Grub2.parseTitle and the title views built on the   *)
(* parsed entries.  The menu file is abstracted to a sequence of lines,    *)
(* each already classified the way parseEntries classifies a trimmed      *)
(* line: a "menuentry " or "submenu " directive with the title that        *)
(* parseTitle extracts (or BadTitle when neither quote regexp matches), a  *)
(* bare "}", a line too long for bufio.Scanner, or any other line.         *)
(***************************************************************************)
EXTENDS Integers, Sequences, SequencesExt

CONSTANTS
    Titles,     \* titles a directive may carry (strings, "" included)
    BadTitle    \* a directive whose quotes match neither _ENTRY_REGEXP

\* Entry types of entry.go.
MENUENTRY == "MENUENTRY"
SUBMENU   == "SUBMENU"

\* Error results of parseEntries; NoErr is the nil error.
NoErr      == "none"
ErrNested  == "nested"     \* directive inside the scope of a menuentry
ErrTitle   == "title"      \* "parse entry title failed"
ErrScan    == "scan"       \* sl.Err(): bufio.ErrTooLong

Line ==
    [op : {"menuentry", "submenu"}, title : Titles \cup {BadTitle}]
    \cup [op : {"close", "other", "toolong"}, title : {BadTitle}]

\* An entry; parent is the index of the enclosing submenu entry, 0 for nil.
Entry(type, title, num, parent) ==
    [entryType |-> type, title |-> title, num |-> num, parent |-> parent]

\* parseTitle: the first quote regexp that matches yields the title.
ParseTitleOk(line) == line.title # BadTitle

(***************************************************************************)
(* Local state of the parseEntries loop.  numCount is the map[int]int of   *)
(* per-level counters (a missing key reads as 0); parentMenus is the stack *)
(* of enclosing submenus with the nil sentinel at the bottom.              *)
(***************************************************************************)
InitScan(maxLevel) ==
    [entries     |-> <<>>,
     inMenuEntry |-> FALSE,
     level       |-> 0,
     numCount    |-> [l \in 0..maxLevel |-> 0],
     parentMenus |-> <<0>>,
     err         |-> NoErr]

(***************************************************************************)
(* Faulty variants of the loop body below, each a plausible slip in this   *)
(* code; the runs show that the properties of GrubMenuParse tell them      *)
(* apart from the real code.                                               *)
(***************************************************************************)
\* clearEntries() and return errors.New(s)
Fail(st, e) == [st EXCEPT !.entries = <<>>, !.err = e]

\* "}" closing a submenu lowers the level but leaves its parentMenus slot.
CloseScopeKeepingParent(st) ==
    IF st.inMenuEntry THEN [st EXCEPT !.inMenuEntry = FALSE]
    ELSE IF st.level > 0
         THEN [st EXCEPT !.level = @ - 1]
         ELSE st

\* A submenu that does not reset the counter of the level it opens.
AddSubmenuWithoutReset(st, line) ==
    IF st.inMenuEntry THEN Fail(st, ErrNested)
    ELSE IF ~ParseTitleOk(line) THEN Fail(st, ErrTitle)
    ELSE [st EXCEPT
            !.entries = Append(@, Entry(SUBMENU, line.title,
                                        st.numCount[st.level],
                                        Last(st.parentMenus))),
            !.parentMenus = Append(@, Len(st.entries) + 1),
            !.level = @ + 1]

\* A submenu that pushes the index one past its own entry.
AddSubmenuPushingNext(st, line) ==
    IF st.inMenuEntry THEN Fail(st, ErrNested)
    ELSE IF ~ParseTitleOk(line) THEN Fail(st, ErrTitle)
    ELSE [st EXCEPT
            !.entries = Append(@, Entry(SUBMENU, line.title,
                                        st.numCount[st.level],
                                        Last(st.parentMenus))),
            !.parentMenus = Append(@, Len(st.entries) + 2),
            !.level = @ + 1,
            !.numCount[st.level + 1] = 0]

\* "}" tested against the open submenus before the open body.
CloseScopeSubmenuFirst(st) ==
    IF st.level > 0
    THEN [st EXCEPT !.level = @ - 1, !.parentMenus = Front(@)]
    ELSE IF st.inMenuEntry THEN [st EXCEPT !.inMenuEntry = FALSE]
         ELSE st

-----------------------------------------------------------------------------
AddMenuEntry(st, line) ==
    IF st.inMenuEntry THEN Fail(st, ErrNested)
    ELSE IF ~ParseTitleOk(line) THEN Fail(st, ErrTitle)
    ELSE [st EXCEPT
            !.entries = Append(@, Entry(MENUENTRY, line.title,
                                        st.numCount[st.level],
                                        Last(st.parentMenus))),
            !.numCount[st.level] = @ + 1,
            !.inMenuEntry = TRUE]

AddSubmenu(st, line) ==
    IF st.inMenuEntry THEN Fail(st, ErrNested)
    ELSE IF ~ParseTitleOk(line) THEN Fail(st, ErrTitle)
    ELSE [st EXCEPT
            !.entries = Append(@, Entry(SUBMENU, line.title,
                                        st.numCount[st.level],
                                        Last(st.parentMenus))),
            !.parentMenus = Append(@, Len(st.entries) + 1),
            !.level = @ + 1,
            !.numCount[st.level + 1] = 0]

CloseScope(st) ==
    IF st.inMenuEntry THEN [st EXCEPT !.inMenuEntry = FALSE]
    ELSE IF st.level > 0
         THEN [st EXCEPT !.level = @ - 1, !.parentMenus = Front(@)]
         ELSE st

\* Faulty variant: the scan error handled like the directive errors, with
\* clearEntries.
ScanLineClearingOnScanError(st, line) ==
    IF st.err # NoErr THEN st
    ELSE CASE line.op = "menuentry" -> AddMenuEntry(st, line)
           [] line.op = "submenu"   -> AddSubmenu(st, line)
           [] line.op = "close"     -> CloseScope(st)
           [] line.op = "toolong"   -> Fail(st, ErrScan)
           [] OTHER                 -> st

\* One iteration of the scan loop; after an error the loop has returned.
ScanLine(st, line) ==
    IF st.err # NoErr THEN st
    ELSE CASE line.op = "menuentry" -> AddMenuEntry(st, line)
           [] line.op = "submenu"   -> AddSubmenu(st, line)
           [] line.op = "close"     -> CloseScope(st)
           [] line.op = "toolong"   -> [st EXCEPT !.err = ErrScan]
           [] OTHER                 -> st

\* Grub2.parseEntries: clearEntries() then the scan loop.
ParseEntries(text) ==
    LET r == FoldLeft(ScanLine, InitScan(Len(text)), text)
    IN  [entries |-> r.entries, err |-> r.err]

(***************************************************************************)
(* Title views over the parsed entries.                                    *)
(***************************************************************************)
RECURSIVE FullTitle(_, _)
\* Entry.getFullTitle: the parent's full title, ">", the own title.
FullTitle(entries, i) ==
    IF entries[i].parent = 0 THEN entries[i].title
    ELSE FullTitle(entries, entries[i].parent) \o ">" \o entries[i].title

\* Grub2.getEntryTitles: full titles of every menuentry, in order.
EntryTitles(entries) ==
    LET idx == SelectSeq([i \in 1..Len(entries) |-> i],
                         LAMBDA i : entries[i].entryType = MENUENTRY)
    IN  [k \in 1..Len(idx) |-> FullTitle(entries, idx[k])]

\* Grub2.GetSimpleEntryTitles: titles of the top-level menuentries.
SimpleEntryTitles(entries) ==
    LET top == SelectSeq(entries, LAMBDA e : e.entryType = MENUENTRY
                                              /\ e.parent = 0)
    IN  [k \in 1..Len(top) |-> top[k].title]
=============================================================================
