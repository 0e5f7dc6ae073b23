----------------------------- MODULE GroupCache -----------------------------
(***************************************************************************)
(* The /etc/group cache of the accounts service                            *)
(* (src/accounts/users/prop.go) and EnableNoPasswdLogin, which reads it.   *)
(*                                                                         *)
(* getGroupInfoWithCache re-reads /etc/group only when the file's mtime    *)
(* differs from groupFileTimestamp (or nothing was cached yet); every      *)
(* reader holds groupFileLocker around it.  EnableNoPasswdLogin asks       *)
(* isGroupExists, may run groupadd, asks isUserInGroup and then runs       *)
(* gpasswd: each of these is a separate step, and D-Bus calls run          *)
(* concurrently, so other callers and other tools editing /etc/group may   *)
(* act in between.  Only the nopasswdlogin group is represented; the file  *)
(* always holds other groups too, so a parsed file is never an empty map.  *)
(*                                                                         *)
(* Time: a file write stamps the file with the current tick of the         *)
(* filesystem clock.  With FineClock no two writes share a tick (the       *)
(* nanosecond mtime the code relies on); otherwise several writes may      *)
(* fall in one tick, as with a coarse timestamp granularity.               *)
(***************************************************************************)
EXTENDS Naturals, FiniteSets

CONSTANTS
    Users,      \* user names
    Callers,    \* concurrent D-Bus calls of EnableNoPasswdLogin
    MaxTime,    \* bound on the filesystem clock
    FineClock   \* TRUE: every write gets a fresh mtime

VARIABLES
    clock,      \* the filesystem clock
    exists,     \* /etc/group has the nopasswdlogin group
    members,    \* its member list
    mtime,      \* the file's modification time
    cacheTs,    \* groupFileTimestamp
    cache,      \* groupFileInfo: [filled, exists, members]
    pc,         \* pc[c]: the step of caller c
    call,       \* call[c]: user, enabled and the exists flag of caller c
    result,     \* result[c]: what the last completed call of c returned
    touched     \* touched[c]: someone else changed the members since c's
                \* isUserInGroup (history, for the properties)

vars == <<clock, exists, members, mtime, cacheTs, cache, pc, call, result,
          touched>>

NoResult == [ok |-> FALSE, user |-> "none", enabled |-> FALSE]

-----------------------------------------------------------------------------
\* The file as parseGroup sees it.
FileInfo == [filled |-> TRUE, exists |-> exists, members |-> members]

\* Faulty variant: the stamp recorded is the time of the read, not the
\* file's mtime.
GetGroupInfoStampingNow ==
    IF cacheTs = mtime /\ cache.filled
    THEN [info |-> cache, ts |-> cacheTs]
    ELSE [info |-> FileInfo, ts |-> clock]

\* getGroupInfoWithCache: the cached map while the mtime is unchanged and
\* the map is not empty, else the file, parsed, with its mtime as stamp.
GetGroupInfoWithCache ==
    IF cacheTs = mtime /\ cache.filled
    THEN [info |-> cache, ts |-> cacheTs]
    ELSE [info |-> FileInfo, ts |-> mtime]

\* Store what getGroupInfoWithCache returned back into the globals.
ReadCache(r) == cache' = r.info /\ cacheTs' = r.ts

\* A write of /etc/group at the current tick; with FineClock a write
\* waits for a tick later than the file's mtime.
CanWrite == FineClock => clock > mtime

TypeOK ==
    /\ clock \in 0..MaxTime
    /\ exists \in BOOLEAN
    /\ members \in SUBSET Users
    /\ mtime \in 0..clock
    /\ cacheTs \in 0..mtime
    /\ cache.filled \in BOOLEAN /\ cache.exists \in BOOLEAN
    /\ cache.members \in SUBSET Users
    /\ pc \in [Callers -> {"idle", "exists", "groupadd", "member", "act"}]
    /\ result \in [Callers -> [ok : BOOLEAN, user : Users \cup {"none"},
                               enabled : BOOLEAN]]

Init ==
    /\ clock = 1
    /\ exists \in BOOLEAN
    /\ members \in IF exists THEN SUBSET Users ELSE {{}}
    /\ mtime = 1
    /\ cacheTs = 0
    /\ cache = [filled |-> FALSE, exists |-> FALSE, members |-> {}]
    /\ pc = [c \in Callers |-> "idle"]
    /\ call = [c \in Callers |-> [user |-> "none", enabled |-> FALSE,
                                  exists |-> FALSE]]
    /\ result = [c \in Callers |-> NoResult]
    /\ touched = [c \in Callers |-> FALSE]

-----------------------------------------------------------------------------
Tick ==
    /\ clock < MaxTime
    /\ clock' = clock + 1
    /\ UNCHANGED <<exists, members, mtime, cacheTs, cache, pc, call, result,
                   touched>>

\* Another tool (usermod, gpasswd in a terminal) adds or removes a member.
ExternalEdit(u) ==
    /\ exists
    /\ CanWrite
    /\ members' = IF u \in members THEN members \ {u} ELSE members \cup {u}
    /\ mtime' = clock
    /\ touched' = [c \in Callers |-> TRUE]
    /\ UNCHANGED <<clock, exists, cacheTs, cache, pc, call, result>>

\* CanNoPasswdLogin from any other D-Bus call: isUserInGroup refreshes
\* the cache.
CanNoPasswdLogin ==
    /\ ReadCache(GetGroupInfoWithCache)
    /\ UNCHANGED <<clock, exists, members, mtime, pc, call, result, touched>>

-----------------------------------------------------------------------------
(***************************************************************************)
(* EnableNoPasswdLogin(username, enabled), one action per step.            *)
(***************************************************************************)
EnableStart(c, u, en) ==
    /\ pc[c] = "idle"
    /\ pc' = [pc EXCEPT ![c] = "exists"]
    /\ call' = [call EXCEPT ![c] = [user |-> u, enabled |-> en,
                                    exists |-> FALSE]]
    /\ UNCHANGED <<clock, exists, members, mtime, cacheTs, cache, result,
                   touched>>

\* if !isGroupExists(groupNameNoPasswdLogin)
CheckGroup(c) ==
    /\ pc[c] = "exists"
    /\ LET r == GetGroupInfoWithCache
       IN  /\ ReadCache(r)
           /\ pc' = [pc EXCEPT ![c] = IF r.info.exists THEN "member"
                                      ELSE "groupadd"]
    /\ UNCHANGED <<clock, exists, members, mtime, call, result, touched>>

\* doAction("groupadd", ...), error ignored: it fails when the group
\* exists by now.
GroupAdd(c) ==
    /\ pc[c] = "groupadd"
    /\ IF ~exists
       THEN /\ CanWrite
            /\ exists' = TRUE
            /\ mtime' = clock
       ELSE UNCHANGED <<exists, mtime>>
    /\ pc' = [pc EXCEPT ![c] = "member"]
    /\ UNCHANGED <<clock, members, cacheTs, cache, call, result, touched>>

\* exists := isUserInGroup(username, groupNameNoPasswdLogin)
CheckMember(c) ==
    /\ pc[c] = "member"
    /\ LET r == GetGroupInfoWithCache
       IN  /\ ReadCache(r)
           /\ call' = [call EXCEPT ![c].exists =
                         r.info.exists /\ call[c].user \in r.info.members]
    /\ pc' = [pc EXCEPT ![c] = "act"]
    /\ touched' = [touched EXCEPT ![c] = FALSE]
    /\ UNCHANGED <<clock, exists, members, mtime, result>>

\* A write of the member list by caller c, seen by the other callers.
TouchOthers(c) ==
    touched' = [d \in Callers |-> IF d = c THEN touched[d] ELSE TRUE]

Finish(c, ok) ==
    /\ pc' = [pc EXCEPT ![c] = "idle"]
    /\ result' = [result EXCEPT ![c] = [ok |-> ok, user |-> call[c].user,
                                        enabled |-> call[c].enabled]]

\* Faulty variant: the branch that removes the user is missing.
ActAddOnly(c) ==
    /\ pc[c] = "act"
    /\ LET u == call[c].user IN
       IF call[c].enabled /\ ~call[c].exists
       THEN IF exists
            THEN /\ CanWrite
                 /\ members' = members \cup {u}
                 /\ mtime' = clock
                 /\ TouchOthers(c)
                 /\ Finish(c, TRUE)
            ELSE /\ Finish(c, FALSE)
                 /\ UNCHANGED <<members, mtime, touched>>
       ELSE /\ Finish(c, TRUE)
            /\ UNCHANGED <<members, mtime, touched>>
    /\ UNCHANGED <<clock, exists, cacheTs, cache, call>>

\* gpasswd -a when enabling a non-member, gpasswd -d when disabling a
\* member, nothing otherwise.  gpasswd fails without the group, and -d
\* fails for a user that is no member.
Act(c) ==
    /\ pc[c] = "act"
    /\ LET u == call[c].user IN
       CASE call[c].enabled /\ ~call[c].exists ->
              IF exists
              THEN /\ CanWrite
                   /\ members' = members \cup {u}
                   /\ mtime' = clock
                   /\ TouchOthers(c)
                   /\ Finish(c, TRUE)
              ELSE /\ Finish(c, FALSE)
                   /\ UNCHANGED <<members, mtime, touched>>
         [] ~call[c].enabled /\ call[c].exists ->
              IF exists /\ u \in members
              THEN /\ CanWrite
                   /\ members' = members \ {u}
                   /\ mtime' = clock
                   /\ TouchOthers(c)
                   /\ Finish(c, TRUE)
              ELSE /\ Finish(c, FALSE)
                   /\ UNCHANGED <<members, mtime, touched>>
         [] OTHER ->
              /\ Finish(c, TRUE)
              /\ UNCHANGED <<members, mtime, touched>>
    /\ UNCHANGED <<clock, exists, cacheTs, cache, call>>

Next ==
    \/ Tick
    \/ \E u \in Users : ExternalEdit(u)
    \/ CanNoPasswdLogin
    \/ \E c \in Callers :
          \/ \E u \in Users, en \in BOOLEAN : EnableStart(c, u, en)
          \/ CheckGroup(c)
          \/ GroupAdd(c)
          \/ CheckMember(c)
          \/ Act(c)

Spec == Init /\ [][Next]_vars

-----------------------------------------------------------------------------
(* Properties.                                                             *)

\* Whenever groupFileTimestamp equals the file's mtime and the map is
\* filled, getGroupInfoWithCache's answer is what the file holds: the
\* timestamp check of getGroupInfoWithCache never serves stale groups.
CacheMatchesFileAtSameStamp ==
    (cacheTs = mtime /\ cache.filled) =>
        /\ cache.exists = exists
        /\ cache.members = IF exists THEN members ELSE {}

\* When EnableNoPasswdLogin returns nil and nobody else changed the member
\* list since its isUserInGroup check, the user's membership in
\* nopasswdlogin is what the call asked for.
EnableTakesEffect ==
    [][\A c \in Callers :
         (pc[c] = "act" /\ pc'[c] = "idle" /\ result'[c].ok /\ ~touched[c]) =>
            ((call[c].user \in members') = call[c].enabled)]_vars
=============================================================================
