--------------------------- MODULE ModuleLifecycle ---------------------------
(***************************************************************************)
(* Start and Stop of the audio module (src/audio/module.go) and of the     *)
(* bluetooth module (src/bluetooth/main.go), as the daemon's loader calls  *)
(* them.  Both export an object on the shared session-bus service and     *)
(* own a well-known name; bluetooth also exports its obex agent there and  *)
(* declares a dependency on audio.                                         *)
(*                                                                         *)
(* The loader is not in this repository.  It is modelled as an actor that *)
(* calls one Start or Stop at a time, and starts bluetooth only while it  *)
(* holds audio as started (GetDependencies).  Every bus or system call    *)
(* that can fail is a nondeterministic choice; service.Export also fails   *)
(* when the path is still exported on the service.  Audio's Start first    *)
(* waits in a polling loop for com.deepin.api.SoundThemePlayer to leave    *)
(* the system bus; that player is another actor.                           *)
(***************************************************************************)
EXTENDS Naturals

CONSTANTS
    AudioPath, BtPath, ObexPath,   \* object paths on the session service
    AudioName, BtName              \* well-known names

Paths == {AudioPath, BtPath, ObexPath}
Names == {AudioName, BtName}

VARIABLES
    audio,      \* Module.audio # nil
    bt,         \* globalBluetooth # nil
    exported,   \* paths exported on loader.GetService()
    owned,      \* names owned by the service
    player,     \* SoundThemePlayer owns its name on the system bus
    audioPc,    \* "idle", or "wait": Start is in waitSoundThemePlayerExit
    loaded      \* modules the loader holds as started

vars == <<audio, bt, exported, owned, player, audioPc, loaded>>

\* Where a failing m.start() of audio stops.
AudioOutcomes == {"pulse", "init", "export", "name", "ok"}
\* Where a failing Start of bluetooth stops.
BtOutcomes == {"export", "name", "sysbus", "agent", "obex", "notify", "ok"}

TypeOK ==
    /\ audio \in BOOLEAN /\ bt \in BOOLEAN
    /\ exported \subseteq Paths /\ owned \subseteq Names
    /\ player \in BOOLEAN
    /\ audioPc \in {"idle", "wait"}
    /\ loaded \subseteq {"audio", "bluetooth"}

Init ==
    /\ audio = FALSE /\ bt = FALSE
    /\ exported = {} /\ owned = {}
    /\ player \in BOOLEAN
    /\ audioPc = "idle"
    /\ loaded = {}

-----------------------------------------------------------------------------
(* The sound-theme player comes and goes (it is D-Bus activated to play   *)
(* the login sound and exits when done).                                  *)
PlayerStart ==
    /\ ~player
    /\ player' = TRUE
    /\ UNCHANGED <<audio, bt, exported, owned, audioPc, loaded>>

PlayerExit ==
    /\ player
    /\ player' = FALSE
    /\ UNCHANGED <<audio, bt, exported, owned, audioPc, loaded>>

-----------------------------------------------------------------------------
(***************************************************************************)
(* Audio: Module.Start, m.start, waitSoundThemePlayerExit, Module.Stop.    *)
(***************************************************************************)
\* The loader calls Start: with m.audio set it returns at once; otherwise
\* it enters the wait loop.
AudioStart ==
    /\ audioPc = "idle"
    /\ "audio" \notin loaded
    /\ IF audio
       THEN /\ loaded' = loaded \cup {"audio"}
            /\ UNCHANGED audioPc
       ELSE /\ audioPc' = "wait"
            /\ UNCHANGED loaded
    /\ UNCHANGED <<audio, bt, exported, owned, player>>

\* waitSoundThemePlayerExit returns once GetNameOwner of
\* com.deepin.api.SoundThemePlayer fails: the player has left the bus.
SoundThemePlayerGone == ~player

\* GetNameOwner fails once the player is gone (or the system bus cannot be
\* reached); then m.start runs: startPulseaudio, newAudio and init, Export,
\* RequestName, each of which may fail.  Start logs the error and returns
\* nil whatever happened, so the loader holds audio as started.
AudioStartRun(o) ==
    /\ audioPc = "wait"
    /\ SoundThemePlayerGone
    /\ o \in AudioOutcomes
    /\ (AudioPath \in exported /\ o \in {"export", "name", "ok"}) => o = "export"
    /\ audio' = (o # "pulse")
    /\ exported' = IF o \in {"name", "ok"} THEN exported \cup {AudioPath}
                   ELSE exported
    /\ owned' = IF o = "ok" THEN owned \cup {AudioName} ELSE owned
    /\ audioPc' = "idle"
    /\ loaded' = loaded \cup {"audio"}
    /\ UNCHANGED <<bt, player>>

\* Faulty variant: Stop forgets service.StopExport.
AudioStopKeepingExport ==
    /\ audioPc = "idle"
    /\ "audio" \in loaded
    /\ owned' = IF audio THEN owned \ {AudioName} ELSE owned
    /\ audio' = FALSE
    /\ loaded' = loaded \ {"audio"}
    /\ UNCHANGED <<bt, exported, player, audioPc>>

\* destroy, StopExport, ReleaseName (errors only logged), m.audio = nil.
AudioStop ==
    /\ audioPc = "idle"
    /\ "audio" \in loaded
    /\ exported' = IF audio THEN exported \ {AudioPath} ELSE exported
    /\ owned' = IF audio THEN owned \ {AudioName} ELSE owned
    /\ audio' = FALSE
    /\ loaded' = loaded \ {"audio"}
    /\ UNCHANGED <<bt, player, audioPc>>

-----------------------------------------------------------------------------
(***************************************************************************)
(* Bluetooth: daemon.Start and daemon.Stop.                                *)
(***************************************************************************)
\* Faulty variant: the agent is exported on the session service instead of
\* the system bus connection.
BtStartAgentOnSession(o) ==
    /\ audioPc = "idle"
    /\ "audio" \in loaded
    /\ "bluetooth" \notin loaded
    /\ ~bt
    /\ o \in BtOutcomes
    /\ BtPath \in exported => o = "export"
    /\ bt' = (o # "export")
    /\ exported' = exported \cup
                     (IF o \in {"obex", "notify", "ok"}
                      THEN {BtPath, "agent"} ELSE {})
    /\ owned' = owned
    /\ loaded' = loaded
    /\ UNCHANGED <<audio, player, audioPc>>

\* GetDependencies: the loader starts bluetooth only with audio started.
\* Start is a no-op while globalBluetooth is set.  Otherwise newBluetooth,
\* Export (on failure globalBluetooth = nil), RequestName,
\* NewSystemService, the agent's Export on the system bus, the obex
\* agent's Export, initNotifications; the first failure returns it.  The
\* init goroutine is started only on success.
BtStart(o) ==
    /\ audioPc = "idle"
    /\ "audio" \in loaded
    /\ "bluetooth" \notin loaded
    /\ IF bt
       THEN /\ UNCHANGED <<bt, exported, owned>>
            /\ loaded' = loaded \cup {"bluetooth"}
       ELSE /\ o \in BtOutcomes
            /\ BtPath \in exported => o = "export"
            /\ (ObexPath \in exported /\ o \in {"obex", "notify", "ok"})
                   => o = "obex"
            /\ bt' = (o # "export")
            /\ exported' =
                 exported \cup
                   (IF o = "export" THEN {} ELSE {BtPath}) \cup
                   (IF o \in {"notify", "ok"} THEN {ObexPath} ELSE {})
            /\ owned' = IF o \in {"export", "name"} THEN owned
                        ELSE owned \cup {BtName}
            /\ loaded' = IF o = "ok" THEN loaded \cup {"bluetooth"}
                         ELSE loaded
    /\ UNCHANGED <<audio, player, audioPc>>

\* ReleaseName (error logged), destroy, globalBluetooth = nil.  The body of
\* Bluetooth.destroy is not in this repository: it may or may not stop the
\* exports of the bluetooth object and the obex agent.
BtStop ==
    /\ audioPc = "idle"
    /\ "bluetooth" \in loaded
    /\ owned' = IF bt THEN owned \ {BtName} ELSE owned
    /\ exported' \in IF bt THEN {exported, exported \ {BtPath, ObexPath}}
                    ELSE {exported}
    /\ bt' = FALSE
    /\ loaded' = loaded \ {"bluetooth"}
    /\ UNCHANGED <<audio, player, audioPc>>

Next ==
    \/ PlayerStart \/ PlayerExit
    \/ AudioStart
    \/ \E o \in AudioOutcomes : AudioStartRun(o)
    \/ AudioStop
    \/ \E o \in BtOutcomes : BtStart(o)
    \/ BtStop

Spec == Init /\ [][Next]_vars

-----------------------------------------------------------------------------
(* Properties.                                                             *)

\* After audio's Stop (or a Start that failed before newAudio), nothing of
\* the audio module is left on the bus: a later Start can export again.
AudioStoppedLeavesNothing ==
    (~audio /\ audioPc = "idle") =>
        AudioPath \notin exported /\ AudioName \notin owned
=============================================================================
