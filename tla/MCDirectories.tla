--------------------------- MODULE MCDirectories ---------------------------
(***************************************************************************)
(* Three threads call the shared directory list with three names.          *)
(***************************************************************************)
EXTENDS Directories, TLC

CONSTANTS t1, t2, t3

MCThreads == {t1, t2, t3}
MCNames == 1..3
=============================================================================
