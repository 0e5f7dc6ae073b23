--------------------------- MODULE HeadphoneClicks ---------------------------
(***************************************************************************)
(* Counting of headset play-button clicks in the keybinding manager        *)
(* (src/keybinding/manager.go), on Wayland.                                *)
(*                                                                         *)
(* KWin's globalShortcutPressed signals are handled one at a time on the   *)
(* session signal loop; a media key reaches handleKeyEventByWayland.  A    *)
(* play press increments m.clickNum and, when the counter reads 1, arms    *)
(* time.AfterFunc(600ms, playMeadiaByHeadphone).  That callback runs on a  *)
(* goroutine of its own: it maps the counter to Play, Next or Previous     *)
(* (one, two or three clicks), resets the counter and sends the command    *)
(* to the media player.  Any other media key is sent at once.              *)
(*                                                                         *)
(* m.clickNum is shared by the loop and the callbacks without a lock, so   *)
(* every load and store is a step of its own.  After its store the press   *)
(* loads the counter again for the == 1 test; the Go compiler may instead  *)
(* reuse the value it stored, and the model lets either happen.  The 600   *)
(* ms delay is not modelled: the callback may run at any point after it is *)
(* armed, in particular while a press is being handled.                    *)
(***************************************************************************)
EXTENDS Naturals, Sequences

CONSTANTS
    MaxPresses,    \* bound on the media key presses of a behaviour
    OtherCmds      \* media commands other than play (next, pause, ...)

\* The commands getMediaPlayAction can return.
PlayCmds == {"Play", "Next", "Previous"}
Commands == PlayCmds \cup OtherCmds

VARIABLES
    clickNum,   \* m.clickNum
    press,      \* the loop handling a play press: pc and the value it loaded
    timers,     \* sequence of armed callbacks: pc, count read, command
    executed,   \* commands sent to mediaPlayerController.ExecCmd, in order
    presses     \* media key presses handled so far

vars == <<clickNum, press, timers, executed, presses>>

TimerPcs == {"armed", "reset", "exec", "done"}

TypeOK ==
    /\ clickNum \in 0..MaxPresses
    /\ press \in [pc : {"idle", "write", "check"}, val : 0..MaxPresses]
    /\ timers \in Seq([pc : TimerPcs, n : 0..MaxPresses, cmd : PlayCmds])
    /\ executed \in Seq(Commands)
    /\ presses \in 0..MaxPresses

Init ==
    /\ clickNum = 0
    /\ press = [pc |-> "idle", val |-> 0]
    /\ timers = << >>
    /\ executed = << >>
    /\ presses = 0

\* Faulty variant: cmd is declared without Play as its initial value and the
\* else branch is missing, so one click yields the zero ActionCmd "".
GetMediaPlayActionNoDefault(num) ==
    CASE num = 2 -> "Next"
      [] num = 3 -> "Previous"
      [] OTHER   -> ""

\* getMediaPlayAction: two clicks skip forward, three go back, any other
\* count toggles playback.
GetMediaPlayAction(num) ==
    CASE num = 2 -> "Next"
      [] num = 3 -> "Previous"
      [] OTHER   -> "Play"

-----------------------------------------------------------------------------
(* The session signal loop.                                                *)

\* A play press: the load of m.clickNum in m.clickNum = m.clickNum + 1.
PressPlay ==
    /\ press.pc = "idle"
    /\ presses < MaxPresses
    /\ press' = [pc |-> "write", val |-> clickNum]
    /\ presses' = presses + 1
    /\ UNCHANGED <<clickNum, timers, executed>>

\* The store of the incremented value.
PressWrite ==
    /\ press.pc = "write"
    /\ clickNum' = press.val + 1
    /\ press' = [press EXCEPT !.pc = "check"]
    /\ UNCHANGED <<timers, executed, presses>>

\* Faulty variant: the callback is armed whenever the counter is positive.
PressCheckPositive(reload) ==
    /\ press.pc = "check"
    /\ LET seen == IF reload THEN clickNum ELSE press.val + 1
       IN timers' = IF seen >= 1
                    THEN Append(timers, [pc |-> "armed", n |-> 0, cmd |-> "Play"])
                    ELSE timers
    /\ press' = [pc |-> "idle", val |-> 0]
    /\ UNCHANGED <<clickNum, executed, presses>>

\* if m.clickNum == 1 { time.AfterFunc(...) }: the test sees the counter as
\* loaded again (reload) or the value just stored.
PressCheck(reload) ==
    /\ press.pc = "check"
    /\ LET seen == IF reload THEN clickNum ELSE press.val + 1
       IN timers' = IF seen = 1
                    THEN Append(timers, [pc |-> "armed", n |-> 0, cmd |-> "Play"])
                    ELSE timers
    /\ press' = [pc |-> "idle", val |-> 0]
    /\ UNCHANGED <<clickNum, executed, presses>>

\* Any other media key: mediaPlayerController.ExecCmd(cmd) on the loop.
PressOther(cmd) ==
    /\ press.pc = "idle"
    /\ presses < MaxPresses
    /\ executed' = Append(executed, cmd)
    /\ presses' = presses + 1
    /\ UNCHANGED <<clickNum, press, timers>>

-----------------------------------------------------------------------------
(* playMeadiaByHeadphone, on the callback's goroutine.                     *)

\* Faulty variant: the counter is reset before it is read.
TimerReadAfterReset(i) ==
    /\ timers[i].pc = "armed"
    /\ clickNum' = 0
    /\ timers' = [timers EXCEPT ![i] = [pc |-> "exec", n |-> 0,
                                        cmd |-> GetMediaPlayAction(0)]]
    /\ UNCHANGED <<press, executed, presses>>

\* cmd := getMediaPlayAction(m.clickNum)
TimerRead(i) ==
    /\ timers[i].pc = "armed"
    /\ timers' = [timers EXCEPT ![i] = [pc |-> "reset", n |-> clickNum,
                                        cmd |-> GetMediaPlayAction(clickNum)]]
    /\ UNCHANGED <<clickNum, press, executed, presses>>

\* m.clickNum = 0
TimerReset(i) ==
    /\ timers[i].pc = "reset"
    /\ clickNum' = 0
    /\ timers' = [timers EXCEPT ![i].pc = "exec"]
    /\ UNCHANGED <<press, executed, presses>>

\* mediaPlayerController.ExecCmd(cmd)
TimerExec(i) ==
    /\ timers[i].pc = "exec"
    /\ executed' = Append(executed, timers[i].cmd)
    /\ timers' = [timers EXCEPT ![i].pc = "done"]
    /\ UNCHANGED <<clickNum, press, presses>>

Next ==
    \/ PressPlay \/ PressWrite
    \/ \E reload \in BOOLEAN : PressCheck(reload)
    \/ \E cmd \in OtherCmds : PressOther(cmd)
    \/ \E i \in DOMAIN timers : TimerRead(i) \/ TimerReset(i) \/ TimerExec(i)

Spec == Init /\ [][Next]_vars

-----------------------------------------------------------------------------
(* Properties.                                                             *)

\* Callbacks that have not yet read the counter.
Pending == {i \in DOMAIN timers : timers[i].pc = "armed"}

\* However the loop's presses and the callbacks interleave, at most one
\* armed playMeadiaByHeadphone is waiting to read m.clickNum, so one burst
\* of clicks is never answered by two commands.
AtMostOneTimerPending ==
    \A i, j \in Pending : i = j

\* A callback never reads a zero counter: playMeadiaByHeadphone does not
\* toggle playback when no click is waiting for it.
TimerReadsAClick ==
    \A i \in DOMAIN timers : timers[i].pc # "armed" => timers[i].n >= 1

\* Callbacks that have read the counter and not yet reset it.
Reading == {i \in DOMAIN timers : timers[i].pc = "reset"}

\* Whenever the loop is between presses, clicks counted in m.clickNum
\* are waiting for a callback that will read them (or is about to reset
\* them): a click is never left in the counter with nothing to act on it,
\* which would leave every later play press without a callback.
PendingClicksHaveATimer ==
    (press.pc = "idle" /\ clickNum > 0) => Pending \cup Reading # {}
=============================================================================
