CONSTANTS
    Titles = {"a", "b"}
    BadTitle = BadTitle
    Texts <- MCTexts
SPECIFICATION Spec
INVARIANT TypeOK
INVARIANT ErrorIffMalformed
INVARIANT ParentIsEnclosingSubmenu
INVARIANT MenuEntryIndexIsSiblingPosition
INVARIANT ScanErrorKeepsPrefixEntries
CHECK_DEADLOCK FALSE
