----------------------------- MODULE MCSessions -----------------------------
(***************************************************************************)
(* Instances of Sessions for TLC.                                          *)
(***************************************************************************)
EXTENDS Sessions, TLC

\* A list that would make an admin and a super user, and a single low role.
Lists == {{"superUser", "admin"}, {"userLL"}}

Symmetric == Permutations(Browsers) \cup Permutations(Slots)
=============================================================================
