-------------------------------- MODULE Grub2 --------------------------------
(***************************************************************************)
(* The grub2 settings daemon of src/grub2/grub2.go: loading grub.cfg and   *)
(* /etc/default/grub, resolving the DefaultEntry and Timeout properties,   *)
(* the setters behind its read-write D-Bus properties, writeSettings, and  *)
(* the environment around the process: grub.cfg rewritten by a kernel     *)
(* update or grub-mkconfig, and the daemon exiting and being started again *)
(* by D-Bus activation.                                                    *)
(*                                                                         *)
(* Text is abstracted to the strings that matter: the defaults file is a   *)
(* map from GRUB_ keys to their unquoted values (Absent for a key with no  *)
(* line), and numbers are converted through the NumeralValue table, which  *)
(* gives the value strconv.ParseInt(s, 10, 32) accepts for each numeral    *)
(* string of the model; a string outside its domain fails to parse.        *)
(***************************************************************************)
EXTENDS GrubMenu, FiniteSets, TLC

CONSTANTS
    MenuTexts,      \* contents grub.cfg may have
    DefaultValues,  \* strings GRUB_DEFAULT may hold, or a client may set
    TimeoutValues,  \* strings GRUB_TIMEOUT may hold
    GfxValues,      \* strings GRUB_GFXMODE may hold, or a client may set
    NumeralValue,   \* [numeral string -> int32 value] of strconv.ParseInt
    TimeoutInputs,  \* int32 values a client may write to Timeout
    ThemeFiles,     \* paths the theme subsystem may use as its main file
    Absent          \* no line for the key in /etc/default/grub

KDefault == "GRUB_DEFAULT"
KTimeout == "GRUB_TIMEOUT"
KGfxmode == "GRUB_GFXMODE"
KTheme   == "GRUB_THEME"
Keys == {KDefault, KTimeout, KGfxmode, KTheme}

\* _GRUB_TIMEOUT_DISABLE
TimeoutDisable == -2

Values == DefaultValues \cup TimeoutValues \cup GfxValues \cup ThemeFiles

\* Contents /etc/default/grub may have.
ConfFiles ==
    { (KDefault :> d) @@ (KTimeout :> t) @@ (KGfxmode :> g) @@ (KTheme :> m) :
        d \in DefaultValues \cup {Absent}, t \in TimeoutValues \cup {Absent},
        g \in GfxValues \cup {Absent}, m \in ThemeFiles \cup {Absent} }

ASSUME /\ "" \in DefaultValues
       /\ DOMAIN NumeralValue \subseteq Values
       /\ \A n \in TimeoutInputs \ {TimeoutDisable} :
             \E s \in DOMAIN NumeralValue : NumeralValue[s] = n

VARIABLES
    menuFile,       \* content of /boot/grub/grub.cfg
    confFile,       \* content of /etc/default/grub, one of ConfFiles
    confBadLine,    \* the defaults file has a GRUB_ line without "="
    themeFile,      \* grub.theme.mainFile
    running,        \* the daemon process has loaded and serves D-Bus
    entries,        \* grub.entries
    settings,       \* grub.settings; a missing key reads as ""
    DefaultEntry,   \* exported property
    Timeout,        \* exported property
    saved           \* history: what the last successful write persisted

vars == <<menuFile, confFile, confBadLine, themeFile, running, entries,
          settings, DefaultEntry, Timeout, saved>>

NoSave == [entries |-> <<>>, de |-> Absent, to |-> 0]

-----------------------------------------------------------------------------
(* Conversions and the resolver.                                           *)

\* strconv.ParseInt(s, 10, 32)
ParseInt32(s) ==
    IF s \in DOMAIN NumeralValue THEN [ok |-> TRUE, n |-> NumeralValue[s]]
                                 ELSE [ok |-> FALSE, n |-> 0]

\* strconv.FormatInt(int64(n), 10)
FormatInt(n) == CHOOSE s \in DOMAIN NumeralValue : NumeralValue[s] = n

InSlice(v, seq) == \E i \in 1..Len(seq) : seq[i] = v

\* Faulty variants: the disabled sentinel does not clear the value; a key
\* with no line is kept missing instead of reading as ""; setTheme writes
\* the key of the setter it was copied from; getDefaultEntry without the
\* check for a value that names a top-level entry.
SetTimeoutKeepingDisabled(sets, timeout) ==
    IF timeout = TimeoutDisable THEN sets
    ELSE [sets EXCEPT ![KTimeout] = FormatInt(timeout)]

ParseSettingsKeepingMissing(file) == file

SetThemeInDefaultKey(sets, file) == [sets EXCEPT ![KDefault] = file]

GetDefaultEntryIndexFirst(ents, sets) ==
    LET entryTitles  == EntryTitles(ents)
        simpleTitles == SimpleEntryTitles(ents)
        firstEntry   == IF Len(simpleTitles) > 0 THEN simpleTitles[1] ELSE ""
        value        == sets[KDefault]
        parsed       == ParseInt32(value)
        index        == IF parsed.ok THEN parsed.n ELSE 0
    IN  IF value = "" THEN firstEntry
        ELSE IF InSlice(value, entryTitles) /\ ~InSlice(value, simpleTitles)
             THEN firstEntry
        ELSE IF index >= 0 /\ index < Len(simpleTitles)
             THEN simpleTitles[index + 1]
             ELSE firstEntry

\* Grub2.getDefaultEntry
GetDefaultEntry(ents, sets) ==
    LET entryTitles  == EntryTitles(ents)
        simpleTitles == SimpleEntryTitles(ents)
        firstEntry   == IF Len(simpleTitles) > 0 THEN simpleTitles[1] ELSE ""
        value        == sets[KDefault]
        parsed       == ParseInt32(value)
        index        == IF parsed.ok THEN parsed.n ELSE 0
    IN  IF value = "" THEN firstEntry
        ELSE IF InSlice(value, simpleTitles) THEN value
        ELSE IF InSlice(value, entryTitles) THEN firstEntry
        ELSE IF index >= 0 /\ index < Len(simpleTitles)
             THEN simpleTitles[index + 1]
             ELSE firstEntry

\* Grub2.getTimeout
GetTimeout(sets) ==
    LET parsed == ParseInt32(sets[KTimeout])
    IN  IF sets[KTimeout] = "" THEN TimeoutDisable
        ELSE IF ~parsed.ok THEN TimeoutDisable
        ELSE parsed.n

\* Grub2.setDefaultEntry
SetDefaultEntryIn(sets, title) == [sets EXCEPT ![KDefault] = title]

\* Grub2.setTimeout
SetTimeoutIn(sets, timeout) ==
    IF timeout = TimeoutDisable THEN [sets EXCEPT ![KTimeout] = ""]
    ELSE [sets EXCEPT ![KTimeout] = FormatInt(timeout)]

\* Grub2.setTheme
SetThemeIn(sets, file) == [sets EXCEPT ![KTheme] = file]

\* The scan loop of Grub2.parseSettings: every GRUB_ line sets its key to
\* its unquoted value (a line without "=" makes kv[1] index out of range,
\* see Load); a key with no line reads as "".
ParseSettings(file) ==
    LET sets == [k \in Keys |-> IF file[k] = Absent THEN "" ELSE file[k]]
    IN  sets

\* The end of parseSettings: DefaultEntry and Timeout from the settings,
\* then setDefaultEntry and setTimeout write them back into the map.
SyncSettings(ents, sets) ==
    LET de == GetDefaultEntry(ents, sets)
        to == GetTimeout(sets)
    IN  [defaultEntry |-> de, timeout |-> to,
         settings |-> SetTimeoutIn(SetDefaultEntryIn(sets, de), to)]

-----------------------------------------------------------------------------
TypeOK ==
    /\ menuFile \in MenuTexts
    /\ confFile \in [Keys -> Values \cup {Absent}]
    /\ confBadLine \in BOOLEAN
    /\ themeFile \in ThemeFiles
    /\ running \in BOOLEAN
    /\ settings \in [Keys -> Values]
    /\ Timeout \in Int
    /\ DefaultEntry \in DefaultValues \cup Titles

Init ==
    /\ menuFile \in MenuTexts
    /\ confFile \in ConfFiles
    /\ confBadLine \in BOOLEAN
    /\ themeFile \in ThemeFiles
    /\ running = FALSE
    /\ entries = <<>>
    /\ settings = [k \in Keys |-> ""]
    /\ DefaultEntry = ""
    /\ Timeout = 0
    /\ saved = NoSave

(***************************************************************************)
(* main: NewGrub2, grub.load() (readEntries then readSettings), then       *)
(* dbus.InstallOnSystem.  An error of parseEntries, or the panic of        *)
(* parseSettings on a GRUB_ line without "=", ends in logFatal: the        *)
(* process exits and nothing is served.                                    *)
(***************************************************************************)
Load ==
    /\ ~running
    /\ LET parsed == ParseEntries(menuFile)
           synced == SyncSettings(parsed.entries, ParseSettings(confFile))
       IN  /\ parsed.err = NoErr
           /\ ~confBadLine
           /\ entries' = parsed.entries
           /\ DefaultEntry' = synced.defaultEntry
           /\ Timeout' = synced.timeout
           /\ settings' = synced.settings
           /\ running' = TRUE
    /\ UNCHANGED <<menuFile, confFile, confBadLine, themeFile, saved>>

\* The same start when load() panics: the process exits at once.
LoadFails ==
    /\ ~running
    /\ ParseEntries(menuFile).err # NoErr \/ confBadLine
    /\ UNCHANGED vars

\* The process ends (killed, session end); in-memory state is lost.
Exit ==
    /\ running
    /\ running' = FALSE
    /\ UNCHANGED <<menuFile, confFile, confBadLine, themeFile, entries,
                   settings, DefaultEntry, Timeout, saved>>

\* A client writes the DefaultEntry property; dlib stores the field and
\* the setter stores it in the settings map.
SetDefaultEntry(title) ==
    /\ running
    /\ DefaultEntry' = title
    /\ settings' = SetDefaultEntryIn(settings, title)
    /\ UNCHANGED <<menuFile, confFile, confBadLine, themeFile, running,
                   entries, Timeout, saved>>

\* A client writes the Timeout property.
SetTimeout(timeout) ==
    /\ running
    /\ Timeout' = timeout
    /\ settings' = SetTimeoutIn(settings, timeout)
    /\ UNCHANGED <<menuFile, confFile, confBadLine, themeFile, running,
                   entries, DefaultEntry, saved>>

\* Grub2.setGfxmode
SetGfxmode(mode) ==
    /\ running
    /\ settings' = [settings EXCEPT ![KGfxmode] = mode]
    /\ UNCHANGED <<menuFile, confFile, confBadLine, themeFile, running,
                   entries, DefaultEntry, Timeout, saved>>

\* Grub2.setTheme
SetTheme(file) ==
    /\ running
    /\ settings' = SetThemeIn(settings, file)
    /\ UNCHANGED <<menuFile, confFile, confBadLine, themeFile, running,
                   entries, DefaultEntry, Timeout, saved>>

\* Grub2.getSettingContentToSave: one line per non-empty value.
SettingContent(sets) == [k \in Keys |-> IF sets[k] = "" THEN Absent ELSE sets[k]]

\* Grub2.writeSettings: setTheme(theme.mainFile), then the file is
\* replaced; if WriteFile fails the map keeps the new theme.
WriteSettings ==
    /\ running
    /\ LET sets == SetThemeIn(settings, themeFile)
       IN  /\ settings' = sets
           /\ \/ /\ confFile' = SettingContent(sets)
                 /\ saved' = [entries |-> entries, de |-> DefaultEntry,
                              to |-> Timeout]
              \/ UNCHANGED <<confFile, saved>>
    /\ UNCHANGED <<menuFile, confBadLine, themeFile, running, entries,
                   DefaultEntry, Timeout>>

\* grub.cfg is regenerated (kernel update, grub-mkconfig).
MenuChange ==
    /\ menuFile' \in MenuTexts \ {menuFile}
    /\ UNCHANGED <<confFile, confBadLine, themeFile, running, entries,
                   settings, DefaultEntry, Timeout, saved>>

\* The theme subsystem switches its main file.
ThemeChange ==
    /\ themeFile' \in ThemeFiles \ {themeFile}
    /\ UNCHANGED <<menuFile, confFile, confBadLine, running, entries,
                   settings, DefaultEntry, Timeout, saved>>

Next ==
    \/ Load
    \/ LoadFails
    \/ Exit
    \/ \E t \in DefaultValues : SetDefaultEntry(t)
    \/ \E n \in TimeoutInputs : SetTimeout(n)
    \/ \E m \in GfxValues : SetGfxmode(m)
    \/ \E f \in ThemeFiles : SetTheme(f)
    \/ WriteSettings
    \/ MenuChange
    \/ ThemeChange

Spec == Init /\ [][Next]_vars

-----------------------------------------------------------------------------
(* Properties.                                                             *)

Selectable(ents) == {SimpleEntryTitles(ents)[i] : i \in 1..Len(SimpleEntryTitles(ents))}

\* Whenever the daemon reports a directly selectable entry as DefaultEntry,
\* the GRUB_DEFAULT it keeps in the settings map resolves to that entry:
\* the write-back at the end of parseSettings and the setters keep the
\* property and the map in step.
DefaultEntryIsStable ==
    running /\ DefaultEntry \in Selectable(entries)
        => GetDefaultEntry(entries, settings) = DefaultEntry

\* The Timeout property always equals what GRUB_TIMEOUT in the settings
\* map resolves to (the -2 sentinel stored as an empty value).
TimeoutIsStable ==
    running => GetTimeout(settings) = Timeout

\* After writeSettings persisted a selectable DefaultEntry and a Timeout,
\* a restarted daemon on the same boot menu reports the same two values.
SavedDefaultsSurviveRestart ==
    [][ (Load /\ saved # NoSave /\ saved.entries = entries'
              /\ saved.de \in Selectable(saved.entries))
        => DefaultEntry' = saved.de /\ Timeout' = saved.to ]_vars
=============================================================================
