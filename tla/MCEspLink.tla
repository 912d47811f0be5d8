----------------------------- MODULE MCEspLink -----------------------------
(***************************************************************************)
(* Constant values for the runs of EspLink.                                *)
(***************************************************************************)
EXTENDS EspLink, TLC

CONSTANTS s1, s2, s3

TwoSockets == {s1, s2}
ThreeSockets == {s1, s2, s3}
SocketSymmetry == Permutations(Sockets)

=============================================================================
