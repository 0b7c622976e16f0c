---------------------------- MODULE SudokuBoard ----------------------------
(***************************************************************************)
(* The board of the sudoku server (board.c): the characters of the file as *)
(* they lie in memory, the copy of the original, and the check of the      *)
(* rules with one bit per digit.  The side of a sector is a parameter: it  *)
(* is 3 in the program, where a row has 9 cells and 18 characters.         *)
(***************************************************************************)
EXTENDS Naturals, FiniteSets, SequencesExt

CONSTANTS Side,       \* side of a sector
          Original,   \* board_original
          MaxFilled   \* bound: cells that a player fills at once

N == Side * Side
Coords == 1..N
Digits == 0..N
\* Mutant of CharsPerRow: the separators are not counted.
CharsPerRowDigits == N

CharsPerRow == 2 * N

\* Where row i, column j lies: every digit is followed by a separator.
Offset(i, j) == CharsPerRow * (i - 1) + 2 * (j - 1)
Offsets == {Offset(i, j) : i \in Coords, j \in Coords}

ASSUME SideAssumption == Side \in Nat \ {0}
ASSUME OriginalAssumption == Original \in [Offsets -> Digits]
ASSUME MaxFilledAssumption == MaxFilled \in Nat

VARIABLE board   \* the board_t of the server: its characters and its status

Statuses == {"BOARD_OK", "BOARD_NON_MODIFIABLE_VALUE", "BOARD_INVALID"}
Boards == [board : [Offsets -> Digits], status : Statuses]

Value(b, i, j) == b.board[Offset(i, j)]
OriginalValue(i, j) == Original[Offset(i, j)]
\* Mutant of ValueSet: a digit is written as its character code.
ValueSetCode(b, i, j, value) == [b EXCEPT !.board[Offset(i, j)] = value + 48]

ValueSet(b, i, j, value) == [b EXCEPT !.board[Offset(i, j)] = value]

\* board_put leaves the cells that the file fills alone.
AfterPut(b, i, j, value) ==
    IF OriginalValue(i, j) # 0 THEN [b EXCEPT !.status = "BOARD_NON_MODIFIABLE_VALUE"]
    ELSE ValueSet(b, i, j, value)

\* Mutant of Mark: the bit of the last digit replaces the others.
MarkLast(acc, value) ==
    [bits |-> {value} \ {0}, invalid |-> acc.invalid \/ value \in acc.bits]

\* One step of the loops of the check: the bit of a digit says that its unit
\* has it already; a blank cell sets no bit.
Mark(acc, value) ==
    [bits |-> acc.bits \cup ({value} \ {0}),
     invalid |-> acc.invalid \/ value \in acc.bits]

Repeats(values) == FoldLeft(Mark, [bits |-> {}, invalid |-> FALSE], values).invalid

RowVerify(b) == \E i \in Coords : Repeats([j \in Coords |-> Value(b, i, j)])
ColVerify(b) == \E i \in Coords : Repeats([j \in Coords |-> Value(b, j, i)])

\* A sector is read row by row.
CellVerify(b) ==
    \E i, j \in 1..Side :
        Repeats([n \in Coords |-> Value(b, Side * (i - 1) + ((n - 1) \div Side) + 1,
                                           Side * (j - 1) + ((n - 1) % Side) + 1)])

\* Mutant of AfterVerify: rows only.
AfterVerifyRows(b) == IF RowVerify(b) THEN [b EXCEPT !.status = "BOARD_INVALID"] ELSE b

\* board_verify sets the status and never clears it.
AfterVerify(b) ==
    IF RowVerify(b) \/ ColVerify(b) \/ CellVerify(b)
    THEN [b EXCEPT !.status = "BOARD_INVALID"] ELSE b

OriginalBoard == [board |-> Original, status |-> "BOARD_OK"]

-----------------------------------------------------------------------------
Put(i, j, value) == board' = AfterPut(board, i, j, value)
Verify == board' = AfterVerify(board)
Reset == board' = OriginalBoard

Filled(b) == Cardinality({o \in Offsets : b.board[o] # Original[o]})

BoardInit == board = OriginalBoard

BoardNext ==
    \/ \E i, j \in Coords, value \in Digits : Put(i, j, value) /\ Filled(board') <= MaxFilled
    \/ Verify
    \/ Reset

BoardSpec == BoardInit /\ [][BoardNext]_board

-----------------------------------------------------------------------------
\* The structure holds one digit for every cell (board_t).
BoardTypeOK == board \in Boards

SameSector(c, d) ==
    /\ (c[1] - 1) \div Side = (d[1] - 1) \div Side
    /\ (c[2] - 1) \div Side = (d[2] - 1) \div Side

Peers ==
    {p \in (Coords \X Coords) \X (Coords \X Coords) :
        /\ p[1] # p[2]
        /\ p[1][1] = p[2][1] \/ p[1][2] = p[2][2] \/ SameSector(p[1], p[2])}

\* The rules of sudoku, stated of pairs of cells.
Conflict(b) ==
    \E p \in Peers :
        /\ Value(b, p[1][1], p[1][2]) = Value(b, p[2][1], p[2][2])
        /\ Value(b, p[1][1], p[1][2]) # 0

\* The scans with one bit per digit find a repeated digit in exactly the
\* boards that break the rules (board_row_verify, board_col_verify,
\* board_cell_verify), so a board marked OK that is verified stays OK only if
\* it breaks none.
VerifyExact ==
    AfterVerify([board EXCEPT !.status = "BOARD_OK"]).status = "BOARD_INVALID"
        <=> Conflict(board)

\* The characters in memory are a matrix: a put changes the one cell it names
\* and no other, never a given one, and a reset restores all of them
\* (board_value_get, board_value_set, board_value_get_original, board_reset).
Matrix == INSTANCE SudokuMatrix WITH
    Size <- N,
    Given <- [c \in Coords \X Coords |-> OriginalValue(c[1], c[2])],
    matrix <- [c \in Coords \X Coords |-> Value(board, c[1], c[2])]

ImplementsMatrix == Matrix!Spec
=============================================================================
