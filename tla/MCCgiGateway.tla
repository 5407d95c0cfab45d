---------------------------- MODULE MCCgiGateway ----------------------------
(* Small instances of CgiGateway for TLC. *)
EXTENDS CgiGateway

TwoFds == {1, 2}
ThreeSeconds == {1, 2, 3}
TwoRequests == {1, 2}
=============================================================================
