-------------------------- MODULE MCHeadphoneClicks --------------------------
EXTENDS HeadphoneClicks

\* One media key other than play suffices to interleave its ExecCmd.
MCOtherCmds == {"Pause"}
=============================================================================
