------------------------------ MODULE MCBackup ------------------------------
(***************************************************************************)
(* Instances of Backup for TLC.                                            *)
(***************************************************************************)
EXTENDS Backup, TLC

CONSTANTS p1, p2, p3
Three == {p1, p2, p3}

\* Two products, the first of which may be given a new photo once.
TwoProducts == [v \in Three |-> IF v = p3 THEN p1 ELSE v]
=============================================================================
