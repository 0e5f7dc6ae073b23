------------------------------ MODULE AdminUsers ------------------------------
(***************************************************************************)
(* What IsAdminUser (src/accounts/users/prop.go) promises its callers.     *)
(* A user is an admin when /etc/sudoers lists the user, or lists a group   *)
(* whose /etc/group entry names the user.  The call reads the two files    *)
(* one after the other: it takes the admin list of /etc/sudoers at one     *)
(* moment (Begin) and the members of /etc/group at a later moment of the   *)
(* same call (Return).  The contents are abstract: a sudoers version is a  *)
(* record of the groups and users it lists, a group file a function from  *)
(* group names to members.                                                 *)
(***************************************************************************)
EXTENDS Naturals

CONSTANTS
    Contents,   \* possible [groups, users] parses of /etc/sudoers
    GroupFiles, \* possible member functions of /etc/group
    Callers,    \* concurrent callers of IsAdminUser
    Users       \* user names a caller may ask about

VARIABLES
    sudoers,    \* what /etc/sudoers lists now
    groupFile,  \* what /etc/group lists now
    snap,       \* snap[c]: the user asked about and the sudoers lists read
    verdict     \* verdict[c]: user, answer and parity of c's last return

None == [user |-> "none", groups |-> {}, users |-> {}]
NoVerdict == [user |-> "none", admin |-> FALSE, parity |-> 0]

\* The admin verdict on u from one sudoers version and one group file.
IsAdmin(s, g, u) == u \in s.users \/ \E grp \in s.groups \cap DOMAIN g : u \in g[grp]

Init ==
    /\ sudoers \in Contents
    /\ groupFile \in GroupFiles
    /\ snap = [c \in Callers |-> None]
    /\ verdict = [c \in Callers |-> NoVerdict]

EditSudoers ==
    /\ sudoers' \in Contents \ {sudoers}
    /\ UNCHANGED <<groupFile, snap, verdict>>

EditGroups ==
    /\ groupFile' \in GroupFiles \ {groupFile}
    /\ UNCHANGED <<sudoers, snap, verdict>>

\* The call of c about u reads /etc/sudoers.
Begin(c, u) ==
    /\ snap[c] = None
    /\ snap' = [snap EXCEPT ![c] = [user |-> u, groups |-> sudoers.groups,
                                    users |-> sudoers.users]]
    /\ UNCHANGED <<sudoers, groupFile, verdict>>

\* It reads /etc/group and returns.
Return(c) ==
    /\ snap[c] # None
    /\ verdict' = [verdict EXCEPT ![c] =
                     [user |-> snap[c].user,
                      admin |-> IsAdmin(snap[c], groupFile, snap[c].user),
                      parity |-> 1 - @.parity]]
    /\ snap' = [snap EXCEPT ![c] = None]
    /\ UNCHANGED <<sudoers, groupFile>>

Next ==
    \/ EditSudoers \/ EditGroups
    \/ \E c \in Callers : (\E u \in Users : Begin(c, u)) \/ Return(c)

Spec == Init /\ [][Next]_<<sudoers, groupFile, snap, verdict>>
=============================================================================
