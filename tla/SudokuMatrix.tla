---------------------------- MODULE SudokuMatrix ----------------------------
(***************************************************************************)
(* What a sudoku board promises, whatever its layout in memory: a matrix   *)
(* of digits in which a player fills one cell at a time, never one that    *)
(* was given, and which can be put back to what was given.                 *)
(***************************************************************************)
EXTENDS Naturals

CONSTANTS Size,   \* rows, columns and digits
          Given   \* the digits of the puzzle, 0 where a cell is blank

VARIABLE matrix

Cells == (1..Size) \X (1..Size)

Init == matrix = Given

Fill(cell, digit) ==
    /\ Given[cell] = 0
    /\ matrix' = [matrix EXCEPT ![cell] = digit]

Clear == matrix' = Given

Next == Clear \/ \E cell \in Cells, digit \in 0..Size : Fill(cell, digit)

Spec == Init /\ [][Next]_matrix
=============================================================================
