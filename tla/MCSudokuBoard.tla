--------------------------- MODULE MCSudokuBoard ---------------------------
(***************************************************************************)
(* A board of 4 x 4 cells with two given digits.                           *)
(***************************************************************************)
EXTENDS SudokuBoard

MCOriginal ==
    [o \in Offsets |-> CASE o = Offset(1, 1) -> 1
                         [] o = Offset(3, 2) -> 2
                         [] OTHER -> 0]
=============================================================================
