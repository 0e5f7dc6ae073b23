------------------------------ MODULE AdminList ------------------------------
(***************************************************************************)
(* What getAdmGroupAndUser (src/accounts/users/prop.go) promises the      *)
(* D-Bus methods that call it: each call returns the admin groups and      *)
(* users that /etc/sudoers lists at one moment between the call and its   *)
(* return.  A call is one atomic step; the file changes in steps of its    *)
(* own.  result[c] holds what caller c's last call returned, with a bit    *)
(* that flips on every call so that two calls returning the same list are *)
(* two steps, not one.                                                     *)
(***************************************************************************)
EXTENDS Naturals

CONSTANTS
    Contents,   \* possible [groups, users] parses of /etc/sudoers
    Callers     \* callers of getAdmGroupAndUser

VARIABLES
    sudoers,    \* what the file lists now
    result      \* result[c]: groups, users and parity of c's last return

NoResult == [groups |-> {}, users |-> {}, parity |-> 0]

Init ==
    /\ sudoers \in Contents
    /\ result = [c \in Callers |-> NoResult]

\* The file is rewritten.
Edit ==
    /\ sudoers' \in Contents \ {sudoers}
    /\ UNCHANGED result

\* A call returns the file's current lists.
Call(c) ==
    /\ result' = [result EXCEPT ![c] = [groups |-> sudoers.groups,
                                        users |-> sudoers.users,
                                        parity |-> 1 - @.parity]]
    /\ UNCHANGED sudoers

Next == Edit \/ \E c \in Callers : Call(c)

Spec == Init /\ [][Next]_<<sudoers, result>>
=============================================================================
