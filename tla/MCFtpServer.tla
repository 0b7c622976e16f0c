---------------------------- MODULE MCFtpServer ----------------------------
(***************************************************************************)
(* Small servers: the constants of the program (a backlog of 4, 200 thread *)
(* objects) are scaled down so that a few clients reach them.              *)
(***************************************************************************)
EXTENDS FtpServer
=============================================================================
