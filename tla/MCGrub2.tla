------------------------------- MODULE MCGrub2 -------------------------------
EXTENDS Grub2

\* Classified lines of grub.cfg.
ME(t) == [op |-> "menuentry", title |-> t]
SM(t) == [op |-> "submenu", title |-> t]
CL    == [op |-> "close", title |-> BadTitle]

\* Two top-level entries; one whose title reads as a number.
MenuFlat    == <<ME("a"), CL, ME("0"), CL>>
\* A top-level entry and a submenu holding one entry ("S>c").
MenuNested  == <<ME("a"), CL, SM("S"), ME("c"), CL, CL>>
\* A kernel update removed "a".
MenuUpdated == <<ME("0"), CL>>
\* A menuentry directive inside a menuentry body: parseEntries fails.
MenuBroken  == <<ME("a"), ME("0"), CL>>

MCMenuTexts == {MenuFlat, MenuNested, MenuUpdated, MenuBroken}

MCNumeralValue == [s \in {"0", "1", "5", "-2"} |->
                     CASE s = "0" -> 0 [] s = "1" -> 1 [] s = "5" -> 5 [] s = "-2" -> -2]
\* GRUB_DEFAULT as a title, a full title, an index, an out-of-range
\* index, "saved".
MCDefaultValues == {"", "a", "0", "S>c", "1", "saved"}

\* GRUB_TIMEOUT: a numeral, the disabled sentinel written out, a number
\* too wide for int32.
MCTimeoutValues == {"", "5", "-2", "4294967296"}

MCGfxValues == {"1024x768"}
\* Timeouts a client may set: disabled, five seconds.
MCTimeoutInputs == {-2, 5}

MCThemeFiles == {"", "/boot/grub/themes/deepin/theme.txt"}
=============================================================================
