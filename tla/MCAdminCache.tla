--------------------------- MODULE MCAdminCache ---------------------------
(***************************************************************************)
(* Three versions of /etc/sudoers: the Deepin default (%sudo and root), a *)
(* version that also names the wheel group, and one that adds a user.      *)
(* Three versions of /etc/group: alice in no admin group, in sudo, in      *)
(* wheel.                                                                  *)
(***************************************************************************)
EXTENDS AdminCache

MCContents ==
    { [groups |-> {"sudo"}, users |-> {"root"}],
      [groups |-> {"sudo", "wheel"}, users |-> {"root"}],
      [groups |-> {"sudo"}, users |-> {"root", "alice"}] }

MCGroupFiles ==
    { [grp \in {"sudo", "wheel"} |-> {}],
      [grp \in {"sudo", "wheel"} |-> IF grp = "sudo" THEN {"alice"} ELSE {}],
      [grp \in {"sudo", "wheel"} |-> IF grp = "wheel" THEN {"alice"} ELSE {}] }

MCUsers == {"alice"}

MCCallers1 == {"c1"}
MCCallers2 == {"c1", "c2"}
=============================================================================
