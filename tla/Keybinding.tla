------------------------------ MODULE Keybinding ------------------------------
(***************************************************************************)
(* The keybinding manager (src/keybinding/manager.go) on Wayland, as its   *)
(* two signal loops run it: the session loop handles KWin's global         *)
(* shortcuts, among them the headset's media keys (HeadphoneClicks), and   *)
(* the system loop the Gesture daemon's keyboard events, among them        *)
(* NumLock, while newManager restores the NumLock state (NumLock).  The    *)
(* loops, the AfterFunc callbacks and newManager's goroutine run           *)
(* concurrently; the two parts share no variable, so the manager's steps   *)
(* are the interleaving of theirs.                                         *)
(***************************************************************************)
EXTENDS Naturals

CONSTANTS MaxPresses, OtherCmds, MaxNumLockPresses

VARIABLES clickNum, press, timers, executed, presses,
          led, saved, saveEnabled, grabbed, queue, handler, init, nlPresses,
          clean

HC == INSTANCE HeadphoneClicks
NL == INSTANCE NumLock

hcVars == <<clickNum, press, timers, executed, presses>>
nlVars == <<led, saved, saveEnabled, grabbed, queue, handler, init, nlPresses,
            clean>>
vars == <<hcVars, nlVars>>

TypeOK == HC!TypeOK /\ NL!TypeOK

Init == HC!Init /\ NL!Init

Next ==
    \/ HC!Next /\ UNCHANGED nlVars
    \/ NL!NumLockNext /\ UNCHANGED hcVars

\* The fairness of the NumLock part: the system loop and newManager's
\* goroutine keep running.  Presses, grabs and the session loop's media
\* keys are the user's and are not obliged.
Spec == Init /\ [][Next]_vars /\ NL!Fairness

-----------------------------------------------------------------------------
(* Properties of the two parts, checked on the manager as a whole.         *)

\* At most one playMeadiaByHeadphone callback waits to read m.clickNum.
AtMostOneTimerPending == HC!AtMostOneTimerPending

\* No playMeadiaByHeadphone callback reads a zero click count.
TimerReadsAClick == HC!TimerReadsAClick

\* With save-numlock-state set and no failure, grab or early press, the
\* saved NumLock state is the keyboard's once all events are handled.
SavedMatchesLed == NL!SavedMatchesLed

\* Once the presses stop, the system loop catches up: eventually the
\* saved NumLock state is the keyboard's for good.
LedEventuallySaved == NL!LedEventuallySaved
=============================================================================
