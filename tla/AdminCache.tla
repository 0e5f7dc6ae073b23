----------------------------- MODULE AdminCache -----------------------------
(***************************************************************************)
(* The /etc/sudoers cache of the accounts service,                         *)
(* getAdmGroupAndUser in src/accounts/users/prop.go.  The parsed admin     *)
(* groups and users live in the globals _admGroups and _admUsers, valid    *)
(* while _admTimestampMap[file] equals the file's mtime in whole seconds.  *)
(* The function runs without any lock: it stats the file, compares, and   *)
(* on a miss parses the file and stores the two slices and then the        *)
(* stamp.  Concurrent D-Bus calls (IsAdminUser, GetGroups...) run it in    *)
(* parallel; each store is a separate step.  The sudoers contents are      *)
(* abstracted to a small set of parse results.                             *)
(*                                                                         *)
(* Its only caller is getAdminUserList, whose only caller is IsAdminUser:  *)
(* after getAdmGroupAndUser returns, the call takes groupFileLocker, reads *)
(* /etc/group through getGroupInfoWithCache and adds the members of every *)
(* admin group to the admin users.  GroupCache shows that cache to return  *)
(* the file as it is when the read is made (with nanosecond mtimes), so    *)
(* here the locked read is a read of the file.  /etc/group is abstracted   *)
(* to the members of the groups sudoers may name.                          *)
(***************************************************************************)
EXTENDS Naturals

CONSTANTS
    Contents,   \* possible parse results [groups, users] of /etc/sudoers
    Callers,    \* concurrent callers of getAdmGroupAndUser
    MaxTime,    \* bound on the clock, in seconds
    FineClock,  \* TRUE: no two writes of the file within one second
    GroupFiles, \* possible member functions of /etc/group
    Users       \* user names IsAdminUser may be asked about

VARIABLES
    clock,      \* time in seconds
    content,    \* what /etc/sudoers parses to
    mtime,      \* its ModTime().Unix()
    admGroups,  \* _admGroups
    admUsers,   \* _admUsers
    admTs,      \* _admTimestampMap[file], 0 when absent
    pc,         \* pc[c]: the step of caller c
    local,      \* local[c]: the timestamp, groups and users caller c holds
    answer,     \* answer[c]: the groups and users the last call returned,
                \* and a bit that flips on every return
    groupFile,  \* what /etc/group lists
    verdict     \* verdict[c]: the user, the answer and a parity bit of
                \* c's last IsAdminUser

vars == <<clock, content, mtime, admGroups, admUsers, admTs, pc, local,
          answer, groupFile, verdict>>

NoAnswer == [groups |-> {}, users |-> {}, parity |-> 0]

\* Every group and user name some version of the file lists.
AllGroups == UNION {r.groups : r \in Contents}
AllUsers == UNION {r.users : r \in Contents}

\* The answer of a call of c returning groups g and users u.
Answer(c, g, u) == [groups |-> g, users |-> u,
                    parity |-> 1 - answer[c].parity]
NoLocal == [ts |-> 0, groups |-> {}, users |-> {}, user |-> "none"]
NoVerdict == [user |-> "none", admin |-> FALSE, parity |-> 0]

\* Faulty variant: the loop over the admin groups adds no members.
AdminUserListNoGroups(groups, users, g) == users

\* getAdminUserList's merge: the admin users, then the members of every
\* admin group that /etc/group has.
AdminUserList(groups, users, g) ==
    users \cup UNION {g[grp] : grp \in groups \cap DOMAIN g}

TypeOK ==
    /\ clock \in 1..MaxTime
    /\ content \in Contents
    /\ mtime \in 1..clock
    /\ admTs \in 0..MaxTime
    /\ admGroups \subseteq AllGroups
    /\ admUsers \subseteq AllUsers
    /\ pc \in [Callers -> {"idle", "parse", "storeGroups", "storeUsers",
                           "storeTs", "group"}]
    /\ groupFile \in GroupFiles
    /\ verdict \in [Callers -> [user : Users \cup {"none"}, admin : BOOLEAN,
                                parity : {0, 1}]]

Init ==
    /\ clock = 1
    /\ content \in Contents
    /\ mtime = 1
    /\ admGroups = {} /\ admUsers = {}
    /\ admTs = 0
    /\ pc = [c \in Callers |-> "idle"]
    /\ local = [c \in Callers |-> NoLocal]
    /\ answer = [c \in Callers |-> NoAnswer]
    /\ groupFile \in GroupFiles
    /\ verdict = [c \in Callers |-> NoVerdict]

-----------------------------------------------------------------------------
Tick ==
    /\ clock < MaxTime
    /\ clock' = clock + 1
    /\ UNCHANGED <<content, mtime, admGroups, admUsers, admTs, pc, local,
                   answer, groupFile, verdict>>

\* visudo or a package script rewrites /etc/sudoers.
EditSudoers ==
    /\ FineClock => clock > mtime
    /\ content' \in Contents \ {content}
    /\ mtime' = clock
    /\ UNCHANGED <<clock, admGroups, admUsers, admTs, pc, local, answer,
                   groupFile, verdict>>

\* groupadd, usermod or gpasswd rewrites /etc/group.
EditGroups ==
    /\ groupFile' \in GroupFiles \ {groupFile}
    /\ UNCHANGED <<clock, content, mtime, admGroups, admUsers, admTs, pc,
                   local, answer, verdict>>

(***************************************************************************)
(* IsAdminUser(u) -> getAdminUserList -> getAdmGroupAndUser(file), one     *)
(* action per step.                                                        *)
(***************************************************************************)
\* os.Stat and the stamp matches: the globals are returned as they are now.
StatHit(c, u) ==
    /\ pc[c] = "idle"
    /\ admTs = mtime
    /\ answer' = [answer EXCEPT ![c] = Answer(c, admGroups, admUsers)]
    /\ local' = [local EXCEPT ![c] = [ts |-> admTs, groups |-> admGroups,
                                      users |-> admUsers, user |-> u]]
    /\ pc' = [pc EXCEPT ![c] = "group"]
    /\ UNCHANGED <<clock, content, mtime, admGroups, admUsers, admTs,
                   groupFile, verdict>>

\* os.Stat and no match: the file is parsed, stamped with this mtime.
StatMiss(c, u) ==
    /\ pc[c] = "idle"
    /\ admTs # mtime
    /\ local' = [local EXCEPT ![c] = [NoLocal EXCEPT !.ts = mtime, !.user = u]]
    /\ pc' = [pc EXCEPT ![c] = "parse"]
    /\ UNCHANGED <<clock, content, mtime, admGroups, admUsers, admTs, answer,
                   groupFile, verdict>>

\* os.Open and the scan loop read the file as it is now.
Parse(c) ==
    /\ pc[c] = "parse"
    /\ local' = [local EXCEPT ![c].groups = content.groups,
                              ![c].users = content.users]
    /\ pc' = [pc EXCEPT ![c] = "storeGroups"]
    /\ UNCHANGED <<clock, content, mtime, admGroups, admUsers, admTs, answer,
                   groupFile, verdict>>

\* _admGroups, _admUsers = groups, users: two unsynchronised stores.
StoreGroups(c) ==
    /\ pc[c] = "storeGroups"
    /\ admGroups' = local[c].groups
    /\ pc' = [pc EXCEPT ![c] = "storeUsers"]
    /\ UNCHANGED <<clock, content, mtime, admUsers, admTs, local, answer,
                   groupFile, verdict>>

\* Faulty variant: both globals are given the groups.
StoreUsersFromGroups(c) ==
    /\ pc[c] = "storeUsers"
    /\ admUsers' = local[c].groups
    /\ pc' = [pc EXCEPT ![c] = "storeTs"]
    /\ UNCHANGED <<clock, content, mtime, admGroups, admTs, local, answer,
                   groupFile, verdict>>

StoreUsers(c) ==
    /\ pc[c] = "storeUsers"
    /\ admUsers' = local[c].users
    /\ pc' = [pc EXCEPT ![c] = "storeTs"]
    /\ UNCHANGED <<clock, content, mtime, admGroups, admTs, local, answer,
                   groupFile, verdict>>

StoreTs(c) ==
    /\ pc[c] = "storeTs"
    /\ admTs' = local[c].ts
    /\ answer' = [answer EXCEPT ![c] =
                     Answer(c, local[c].groups, local[c].users)]
    /\ pc' = [pc EXCEPT ![c] = "group"]
    /\ UNCHANGED <<clock, content, mtime, admGroups, admUsers, local,
                   groupFile, verdict>>

\* getAdminUserList under groupFileLocker: getGroupInfoWithCache, the merge
\* of the admin groups' members; IsAdminUser looks the user up in the
\* result.
GroupRead(c) ==
    /\ pc[c] = "group"
    /\ LET l == local[c]
       IN  verdict' = [verdict EXCEPT ![c] =
              [user |-> l.user,
               admin |-> l.user \in AdminUserList(l.groups, l.users, groupFile),
               parity |-> 1 - @.parity]]
    /\ pc' = [pc EXCEPT ![c] = "idle"]
    /\ local' = [local EXCEPT ![c] = NoLocal]
    /\ UNCHANGED <<clock, content, mtime, admGroups, admUsers, admTs, answer,
                   groupFile>>

Next ==
    \/ Tick
    \/ EditSudoers
    \/ EditGroups
    \/ \E c \in Callers :
          \/ \E u \in Users : StatHit(c, u) \/ StatMiss(c, u)
          \/ Parse(c) \/ StoreGroups(c) \/ StoreUsers(c) \/ StoreTs(c)
          \/ GroupRead(c)

Spec == Init /\ [][Next]_vars

-----------------------------------------------------------------------------
(* Properties.                                                             *)

\* Once no call is inside getAdmGroupAndUser, a stamp equal to the file's
\* mtime means _admGroups and _admUsers are the parse of the file as it
\* is: a later call that hits the cache answers with the current list.
CacheMatchesFileAtSameStamp ==
    ((\A c \in Callers : pc[c] \in {"idle", "group"}) /\ admTs = mtime) =>
        [groups |-> admGroups, users |-> admUsers] = content

\* The refinement mapping: a call takes effect when it reads the file (a
\* hit, or the Parse of a miss); from the Parse until its return the caller
\* already holds its result in local[c].
AbstractResult ==
    [c \in Callers |->
        IF pc[c] \in {"storeGroups", "storeUsers", "storeTs"}
        THEN [groups |-> local[c].groups, users |-> local[c].users,
              parity |-> 1 - answer[c].parity]
        ELSE answer[c]]

List == INSTANCE AdminList WITH sudoers <- content, result <- AbstractResult

\* getAdmGroupAndUser implements AdminList: every call, hit or miss,
\* returns the admin groups and users /etc/sudoers lists at one moment
\* during the call, however calls, edits and the clock interleave.
ImplementsAdminList == List!Spec

\* The refinement mapping for IsAdminUser: the call has read sudoers from
\* its hit or its Parse on, and holds that read until GroupRead returns.
AbstractSnap ==
    [c \in Callers |->
        IF pc[c] \in {"storeGroups", "storeUsers", "storeTs", "group"}
        THEN [user |-> local[c].user, groups |-> local[c].groups,
              users |-> local[c].users]
        ELSE [user |-> "none", groups |-> {}, users |-> {}]]

Admins == INSTANCE AdminUsers WITH sudoers <- content, snap <- AbstractSnap

\* IsAdminUser implements AdminUsers: its verdict is the one /etc/sudoers
\* at one moment of the call and /etc/group at a later moment give, the
\* sudoers cache and the member merge of getAdminUserList notwithstanding.
ImplementsAdminUsers == Admins!Spec
=============================================================================
