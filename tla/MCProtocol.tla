------------------------------ MODULE MCProtocol ------------------------------
(* The protocol state machine on a small set of connection ids, for TLC.     *)
EXTENDS Protocol

MCConnIds == {0, 7, 9}
=============================================================================
