----------------------------- MODULE MCKeybinding -----------------------------
EXTENDS Keybinding

MCOtherCmds == {"Pause"}
=============================================================================
