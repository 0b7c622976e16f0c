---------------------------- MODULE MCFtpSession ----------------------------
(***************************************************************************)
(* Two sessions that share the directory list.                             *)
(***************************************************************************)
EXTENDS FtpSession

CONSTANTS s1, s2

MCSessions == {s1, s2}
=============================================================================
