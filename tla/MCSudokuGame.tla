---------------------------- MODULE MCSudokuGame ----------------------------
(***************************************************************************)
(* A board of 4 x 4 cells, two of them blank.  Of the puts, one solves its *)
(* cell, one repeats a digit, two erase and one names a given cell.        *)
(***************************************************************************)
EXTENDS SudokuGame

Rows == <<<<0, 0, 3, 4>>,
          <<3, 4, 1, 2>>,
          <<2, 1, 4, 3>>,
          <<4, 3, 2, 1>>>>

MCOriginal ==
    [o \in Offsets |->
        LET c == CHOOSE c \in Coords \X Coords : Offset(c[1], c[2]) = o
        IN Rows[c[1]][c[2]]]

MCPuts == {<<1, 1, 1>>, <<1, 1, 0>>, <<1, 2, 1>>, <<1, 2, 0>>, <<2, 1, 4>>}
=============================================================================
