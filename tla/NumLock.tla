------------------------------- MODULE NumLock -------------------------------
(***************************************************************************)
(* The NumLock state of the keybinding manager on Wayland                  *)
(* (src/keybinding/manager.go): its restore at login and its saving when   *)
(* the user presses the key.                                               *)
(*                                                                         *)
(* newManager starts the system signal loop and then calls                 *)
(* initNumLockState, which reads the saved numlock-state and the           *)
(* save-numlock-state setting, picks a default from the battery when       *)
(* nothing is saved, and applies the state with setNumLockState.  A        *)
(* NumLock press toggles the LED and the Gesture daemon's KeyboardEvent    *)
(* reaches handleKeyEventByWayland("numlock") on the system signal loop,   *)
(* one signal at a time: it asks KWin whether Xwayland holds a grab,       *)
(* sleeps 200 ms, reads the LEDs from KWin and saves what it read.         *)
(* Every D-Bus call may fail; a failure returns from the handler.          *)
(* setNumLockState is outside the repository: it may fail, and whether a   *)
(* change it makes comes back as a KeyboardEvent is left open.             *)
(***************************************************************************)
EXTENDS Naturals

CONSTANT MaxNumLockPresses   \* bound on the user's NumLock presses

States == {"On", "Off"}
Unknown == "Unknown"

VARIABLES
    led,          \* the keyboard's NumLock state as KWin reports it
    saved,        \* gsettings numlock-state (m.NumLockState)
    saveEnabled,  \* gsettings save-numlock-state
    grabbed,      \* Xwayland holds a keyboard grab (xwaylandGrabed)
    queue,        \* KeyboardEvent signals for NumLock not yet handled
    handler,      \* "idle", or "leds": between the grab check and getLeds
    init,         \* initNumLockState: pc and the saved value it read
    nlPresses,    \* presses so far
    clean         \* history: no call failed, no press was skipped for a
                  \* grab and no press came before the restore finished

nlVars == <<led, saved, saveEnabled, grabbed, queue, handler, init,
            nlPresses, clean>>

TypeOK ==
    /\ led \in States
    /\ saved \in States \cup {Unknown}
    /\ saveEnabled \in BOOLEAN /\ grabbed \in BOOLEAN /\ clean \in BOOLEAN
    /\ queue \in 0..(2 * MaxNumLockPresses + 1)
    /\ handler \in {"idle", "leds"}
    /\ init \in [pc : {"read", "apply", "done"}, nl : States \cup {Unknown}]
    /\ nlPresses \in 0..MaxNumLockPresses

\* Any state at boot; the settings as the user left them.
Init ==
    /\ led \in States
    /\ saved \in States \cup {Unknown}
    /\ saveEnabled \in BOOLEAN
    /\ grabbed = FALSE
    /\ queue = 0
    /\ handler = "idle"
    /\ init = [pc |-> "read", nl |-> Unknown]
    /\ nlPresses = 0
    /\ clean = TRUE

Flip(s) == IF s = "On" THEN "Off" ELSE "On"

-----------------------------------------------------------------------------
(* The user and KWin.                                                      *)

Press ==
    /\ nlPresses < MaxNumLockPresses
    /\ led' = Flip(led)
    /\ queue' = queue + 1
    /\ nlPresses' = nlPresses + 1
    /\ clean' = (clean /\ init.pc = "done")
    /\ UNCHANGED <<saved, saveEnabled, grabbed, handler, init>>

\* An X client takes or releases a keyboard grab.
Grab ==
    /\ grabbed' = ~grabbed
    /\ UNCHANGED <<led, saved, saveEnabled, queue, handler, init, nlPresses,
                   clean>>

-----------------------------------------------------------------------------
(* initNumLockState, on newManager's goroutine after the loop started.     *)

\* nlState := NumLockState.Get(); saveStateEnabled := GetBoolean(...)
InitRead ==
    /\ init.pc = "read"
    /\ init' = [pc |-> "apply", nl |-> saved]
    /\ UNCHANGED <<led, saved, saveEnabled, grabbed, queue, handler,
                   nlPresses, clean>>

\* With nothing saved: a laptop (HasBattery true) gets Off, anything else
\* (a desktop, or the call failed) On, saved when saving is enabled.
\* Either state is then applied, the saved one only when saving is enabled.
\* setNumLockState fails (ok = FALSE) or changes the LED, which may come
\* back as a KeyboardEvent (echo).
InitApply(battery, ok, echo) ==
    /\ init.pc = "apply"
    /\ LET state == IF battery THEN "Off" ELSE "On"
           target == IF init.nl = Unknown THEN state ELSE init.nl
           applies == init.nl = Unknown \/ saveEnabled
       IN  /\ saved' = IF init.nl = Unknown /\ saveEnabled THEN state
                       ELSE saved
           /\ led' = IF applies /\ ok THEN target ELSE led
           /\ queue' = IF applies /\ ok /\ echo /\ target # led
                       THEN queue + 1 ELSE queue
           /\ clean' = (clean /\ (applies => ok))
    /\ init' = [init EXCEPT !.pc = "done"]
    /\ UNCHANGED <<saveEnabled, grabbed, handler, nlPresses>>

-----------------------------------------------------------------------------
(* handleKeyEventByWayland("numlock") on the system signal loop.           *)

\* Faulty variant: an event is taken only while another one is queued
\* behind it, so the last one waits for the next press.
HandleGrabBehindOne(ok) ==
    /\ handler = "idle"
    /\ queue > 1
    /\ queue' = queue - 1
    /\ handler' = IF ok /\ ~grabbed THEN "leds" ELSE "idle"
    /\ clean' = (clean /\ ok /\ ~grabbed)
    /\ UNCHANGED <<led, saved, saveEnabled, grabbed, init, nlPresses>>

\* SessionBus and org.kde.KWin.xwaylandGrabed: a failure returns, and so
\* does a grab (the OSD branch runs only when not grabbed).
HandleGrab(ok) ==
    /\ handler = "idle"
    /\ queue > 0
    /\ queue' = queue - 1
    /\ handler' = IF ok /\ ~grabbed THEN "leds" ELSE "idle"
    /\ clean' = (clean /\ ok /\ ~grabbed)
    /\ UNCHANGED <<led, saved, saveEnabled, grabbed, init, nlPresses>>

\* Faulty variant: the NumLock bit of getLeds read inverted.
HandleLedsInverted(ok) ==
    /\ handler = "leds"
    /\ handler' = "idle"
    /\ saved' = IF ok /\ saveEnabled THEN Flip(led) ELSE saved
    /\ clean' = (clean /\ ok)
    /\ UNCHANGED <<led, saveEnabled, grabbed, queue, init, nlPresses>>

\* After the 200 ms sleep: SessionBus and org.kde.kwin.Xkb.getLeds (a
\* failure returns); bit 0x1 is NumLock; the state is saved when
\* save-numlock-state is set, and the OSD shown.
HandleLeds(ok) ==
    /\ handler = "leds"
    /\ handler' = "idle"
    /\ saved' = IF ok /\ saveEnabled THEN led ELSE saved
    /\ clean' = (clean /\ ok)
    /\ UNCHANGED <<led, saveEnabled, grabbed, queue, init, nlPresses>>

NumLockNext ==
    \/ Press \/ Grab \/ InitRead
    \/ \E battery, ok, echo \in BOOLEAN : InitApply(battery, ok, echo)
    \/ \E ok \in BOOLEAN : HandleGrab(ok) \/ HandleLeds(ok)

\* The system signal loop's goroutine keeps dispatching queued signals, and
\* initNumLockState runs to its end on newManager's goroutine: every call
\* it makes returns, with or without an error.  The user's presses and
\* the grabs of X clients are not obliged to happen.
Fairness ==
    /\ WF_nlVars(InitRead)
    /\ WF_nlVars(\E battery, ok, echo \in BOOLEAN : InitApply(battery, ok, echo))
    /\ WF_nlVars(\E ok \in BOOLEAN : HandleGrab(ok))
    /\ WF_nlVars(\E ok \in BOOLEAN : HandleLeds(ok))

Spec == Init /\ [][NumLockNext]_nlVars /\ Fairness

-----------------------------------------------------------------------------
(* Properties.                                                             *)

\* With save-numlock-state set, once the restore has finished and every
\* NumLock event is handled, the saved state is the keyboard's: whatever
\* the order of presses, the 200 ms sleeps and the restore's own change,
\* the next login restores what the user left, unless a call failed, a
\* grab hid a press, or a press came before the restore finished.
SavedMatchesLed ==
    (clean /\ saveEnabled /\ init.pc = "done" /\ queue = 0
           /\ handler = "idle") => saved = led

\* Once the user has stopped pressing NumLock, the system loop works off
\* every queued KeyboardEvent and the restore finishes, so that from some
\* point on the saved state is the keyboard's for good (unless a call
\* failed, a grab hid a press or a press came before the restore): no
\* event is left waiting and no handler stops between its grab check and
\* its save.
LedEventuallySaved ==
    <>[]((clean /\ saveEnabled) => saved = led)
=============================================================================
