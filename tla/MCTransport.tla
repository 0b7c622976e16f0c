---------------------------- MODULE MCTransport ----------------------------
(***************************************************************************)
(* Calls of up to three bytes over a kernel that holds two.                *)
(***************************************************************************)
EXTENDS Transport

MCSizes == 1..3
=============================================================================
