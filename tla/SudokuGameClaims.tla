-------------------------- MODULE SudokuGameClaims --------------------------
(***************************************************************************)
(* A statement of the report of tp1 that the program does not keep.        *)
(***************************************************************************)
EXTENDS MCSudokuGame

\* The report says that "ERROR" answers a verification when a digit is
\* repeated; the status that board_verify sets outlives the repetition.  An
\* "ERROR" that the buffer held before does not count.
ErrorTrue ==
    client = "prompt" /\ ~Unanswered /\ screen = Body("ERROR") => ~loaded \/ Conflict(board)
=============================================================================
