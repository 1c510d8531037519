----------------------------- MODULE MCProtocol -----------------------------
(***************************************************************************)
(* Finite instances of the protocol for TLC.                               *)
(***************************************************************************)
EXTENDS ProtocolProperties, TLC

CONSTANTS zero, a1, a2, b1, b2, none, noterms
=============================================================================
