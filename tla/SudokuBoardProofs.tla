------------------------- MODULE SudokuBoardProofs -------------------------
(***************************************************************************)
(* For sectors of any side and any puzzle: the characters of the board     *)
(* behave as a matrix, and the checks with one bit per digit find exactly  *)
(* the boards that break the rules.                                        *)
(***************************************************************************)
EXTENDS SudokuBoard, OrderLemmas, TLAPS

LEMMA SizeNat == N \in Nat \ {0}
BY SideAssumption DEF N

LEMMA OffsetNat ==
    ASSUME NEW i \in Coords, NEW j \in Coords
    PROVE  Offset(i, j) \in Offsets
BY DEF Offsets

\* No two cells share a character: a cell of a lower row comes first ...
LEMMA OffsetGrows ==
    ASSUME NEW i \in Coords, NEW j \in Coords, NEW k \in Coords, NEW l \in Coords, i < k
    PROVE  Offset(i, j) < Offset(k, l)
<1>1. N \in Nat /\ i \in Nat /\ j \in Nat /\ k \in Nat /\ l \in Nat
    BY SizeNat DEF Coords
<1>2. N * (k - i) >= N
    BY <1>1, AtLeastOnce, k - i \in Nat, k - i >= 1
<1>3. CharsPerRow * (k - 1) = CharsPerRow * (i - 1) + 2 * (N * (k - i))
    BY <1>1 DEF CharsPerRow
<1>4. 1 <= l /\ j <= N
    BY <1>1 DEF Coords
<1>5. CharsPerRow * (k - 1) \in Int /\ CharsPerRow * (i - 1) \in Int /\ N * (k - i) \in Int
    BY <1>1 DEF CharsPerRow
<1>. QED BY <1>1, <1>2, <1>3, <1>4, <1>5 DEF Offset

\* ... and so does a cell to the left.
LEMMA OffsetInjective ==
    ASSUME NEW i \in Coords, NEW j \in Coords, NEW k \in Coords, NEW l \in Coords,
           Offset(i, j) = Offset(k, l)
    PROVE  i = k /\ j = l
<1>1. N \in Nat /\ i \in Nat /\ j \in Nat /\ k \in Nat /\ l \in Nat
    BY SizeNat DEF Coords
<1>2. Offset(i, j) \in Int /\ Offset(k, l) \in Int
    BY <1>1 DEF Offset, CharsPerRow
<1>3. i = k
    BY <1>1, <1>2, OffsetGrows
<1>4. CharsPerRow * (i - 1) \in Int
    BY <1>1 DEF CharsPerRow
<1>. QED BY <1>1, <1>3, <1>4 DEF Offset

-----------------------------------------------------------------------------
LEMMA PutTyped ==
    ASSUME BoardTypeOK, NEW i \in Coords, NEW j \in Coords, NEW value \in Digits,
           Put(i, j, value)
    PROVE  BoardTypeOK'
BY OffsetNat DEF BoardTypeOK, Boards, Statuses, Put, AfterPut, ValueSet

\* The structure always holds one digit for every cell (board_t).
THEOREM BoardTyped == BoardSpec => []BoardTypeOK
<1>1. BoardInit => BoardTypeOK
    BY OriginalAssumption DEF BoardInit, OriginalBoard, BoardTypeOK, Boards, Statuses
<1>2. BoardTypeOK /\ [BoardNext]_board => BoardTypeOK'
  <2>. SUFFICES ASSUME BoardTypeOK, [BoardNext]_board
                PROVE  BoardTypeOK'
    OBVIOUS
  <2>1. CASE \E i, j \in Coords, value \in Digits : Put(i, j, value)
    BY <2>1, PutTyped
  <2>2. CASE Verify
    BY <2>2 DEF Verify, AfterVerify, BoardTypeOK, Boards, Statuses
  <2>3. CASE Reset
    BY <2>3, OriginalAssumption DEF Reset, OriginalBoard, BoardTypeOK, Boards, Statuses
  <2>4. CASE UNCHANGED board
    BY <2>4 DEF BoardTypeOK
  <2>. QED BY <2>1, <2>2, <2>3, <2>4 DEF BoardNext
<1>. QED BY <1>1, <1>2, PTL DEF BoardSpec

-----------------------------------------------------------------------------
Digit(b) == [c \in Coords \X Coords |-> Value(b, c[1], c[2])]
GivenDigit == [c \in Coords \X Coords |-> OriginalValue(c[1], c[2])]

\* A put fills the cell that it names in the matrix, or changes nothing.
LEMMA PutFills ==
    ASSUME BoardTypeOK, NEW i \in Coords, NEW j \in Coords, NEW value \in Digits,
           Put(i, j, value)
    PROVE  Matrix!Fill(<<i, j>>, value) \/ UNCHANGED Digit(board)
<1>1. CASE OriginalValue(i, j) # 0
    BY <1>1 DEF Put, AfterPut, Digit, Value, BoardTypeOK, Boards
<1>2. CASE OriginalValue(i, j) = 0
  <2>1. board' = [board EXCEPT !.board[Offset(i, j)] = value]
    BY <1>2 DEF Put, AfterPut, ValueSet
  <2>2. ASSUME NEW k \in Coords, NEW l \in Coords
        PROVE  Value(board', k, l) = IF <<k, l>> = <<i, j>> THEN value ELSE Value(board, k, l)
    BY <2>1, OffsetNat, OffsetInjective DEF Value, BoardTypeOK, Boards
  <2>3. Digit(board') = [Digit(board) EXCEPT ![<<i, j>>] = value]
    <3>1. \A c \in Coords \X Coords :
              Value(board', c[1], c[2]) = IF c = <<i, j>> THEN value ELSE Value(board, c[1], c[2])
      BY <2>2
    <3>. QED BY <3>1 DEF Digit
  <2>4. GivenDigit[<<i, j>>] = 0
    BY <1>2 DEF GivenDigit
  <2>. QED BY <2>3, <2>4 DEF Matrix!Fill, Digit, GivenDigit
<1>. QED BY <1>1, <1>2

\* The board implements the matrix of digits: each cell has a character of
\* its own, which only a put on that cell or a reset changes (board_put,
\* board_reset).
THEOREM BoardIsMatrix == BoardSpec => ImplementsMatrix
<1>1. BoardInit => Matrix!Init
    BY DEF BoardInit, OriginalBoard, Matrix!Init, Value, OriginalValue
<1>2. BoardTypeOK /\ [BoardNext]_board => [Matrix!Next]_(Digit(board))
  <2>. SUFFICES ASSUME BoardTypeOK, [BoardNext]_board
                PROVE  Matrix!Next \/ UNCHANGED Digit(board)
    OBVIOUS
  <2>1. CASE \E i, j \in Coords, value \in Digits : Put(i, j, value)
    <3>1. PICK i \in Coords, j \in Coords, value \in Digits : Put(i, j, value)
      BY <2>1
    <3>2. CASE Matrix!Fill(<<i, j>>, value)
      BY <3>2 DEF Matrix!Next, Matrix!Cells, Coords, Digits
    <3>. QED BY <3>1, <3>2, PutFills
  <2>2. CASE Verify
    BY <2>2 DEF Verify, AfterVerify, Digit, Value, BoardTypeOK, Boards
  <2>3. CASE Reset
    BY <2>3 DEF Reset, OriginalBoard, Matrix!Next, Matrix!Clear, Value, OriginalValue
  <2>4. CASE UNCHANGED board
    BY <2>4 DEF Digit, Value
  <2>. QED BY <2>1, <2>2, <2>3, <2>4 DEF BoardNext
<1>. QED BY <1>1, <1>2, BoardTyped, PTL DEF BoardSpec, ImplementsMatrix, Matrix!Spec, Digit

-----------------------------------------------------------------------------
\* The greatest element of a set of numbers with a bound.
LEMMA MaxOf ==
    ASSUME NEW n \in Nat, NEW s, s \subseteq 1..n, s # {}
    PROVE  Max(s) \in s
<1>1. \E x \in s : \A y \in s : y <= x
    BY s \subseteq Nat, \A y \in s : y <= n, Greatest
<1>2. \E x \in s : \A y \in s : x >= y
    BY <1>1
<1>. QED BY <1>2 DEF Max

\* What the loops of the check know of the cells at the positions s.
Scan(v, s) ==
    [bits |-> {v[i] : i \in s} \ {0},
     invalid |-> \E i, j \in s : i # j /\ v[i] = v[j] /\ v[i] # 0]

LEMMA ScanStep ==
    ASSUME NEW v, NEW s, NEW x \in s
    PROVE  Scan(v, s) = Mark(Scan(v, s \ {x}), v[x])
<1>. DEFINE r == s \ {x}
<1>1. {v[i] : i \in s} \ {0} = ({v[i] : i \in r} \ {0}) \cup ({v[x]} \ {0})
    OBVIOUS
<1>2. (\E i, j \in s : i # j /\ v[i] = v[j] /\ v[i] # 0)
        <=> \/ \E i, j \in r : i # j /\ v[i] = v[j] /\ v[i] # 0
            \/ v[x] \in {v[i] : i \in r} \ {0}
    OBVIOUS
<1>. QED BY <1>1, <1>2 DEF Scan, Mark

\* The fold over the positions of v is the scan of all of them.
LEMMA RepeatsExact ==
    ASSUME NEW n \in Nat, NEW v, DOMAIN v = 1..n
    PROVE  Repeats(v) <=> \E i, j \in 1..n : i # j /\ v[i] = v[j] /\ v[i] # 0
<1>. DEFINE Step(f, s) == IF s = {} THEN [bits |-> {}, invalid |-> FALSE]
                           ELSE Mark(f[s \ {Max(s)}], v[Max(s)])
            Loop(f) == f = [s \in SUBSET (1..n) |-> Step(f, s)]
            scan == [s \in SUBSET (1..n) |-> Scan(v, s)]
            fold == CHOOSE f : Loop(f)
<1>1. Repeats(v) = fold[1..n].invalid
    BY DEF Repeats, FoldLeft, MapThenFoldSet
<1>2. Loop(scan)
  <2>1. ASSUME NEW s \in SUBSET (1..n) PROVE Scan(v, s) = Step(scan, s)
    <3>1. CASE s = {}
      BY <3>1 DEF Scan
    <3>2. CASE s # {}
      <4>1. Max(s) \in s
        BY <3>2, MaxOf
      <4>2. Scan(v, s) = Mark(Scan(v, s \ {Max(s)}), v[Max(s)])
        BY <4>1, ScanStep
      <4>3. scan[s \ {Max(s)}] = Scan(v, s \ {Max(s)})
        OBVIOUS
      <4>. QED BY <3>2, <4>2, <4>3
    <3>. QED BY <3>1, <3>2
  <2>. QED BY <2>1
<1>3. Loop(fold)
  <2>. HIDE DEF Loop, scan
  <2>. QED BY <1>2
<1>4. ASSUME NEW s \in SUBSET (1..n) PROVE fold[s] = Scan(v, s)
  <2>. DEFINE Wrong == {r \in SUBSET (1..n) : fold[r] # Scan(v, r)}
  <2>. HIDE DEF fold
  <2>1. SUFFICES ASSUME Wrong # {} PROVE FALSE
    OBVIOUS
  <2>2. PICK r \in Wrong : \A q \in Wrong : ~(<<q, r>> \in StrictSubsetOrdering(Nat))
    <3>1. IsWellFoundedOn(StrictSubsetOrdering(Nat), FiniteSubsetsOf(Nat))
      BY FS_StrictSubsetOrderingWellFounded
    <3>2. \A q \in SUBSET (1..n) : IsFiniteSet(q)
      <4>1. IsFiniteSet(1..n)
        BY FS_Interval
      <4>. QED BY <4>1, FS_Subset
    <3>3. Wrong \subseteq FiniteSubsetsOf(Nat)
      BY <3>2 DEF FiniteSubsetsOf
    <3>. HIDE DEF Wrong
    <3>. QED BY <2>1, <3>1, <3>3, WFMin
  <2>3. r \in SUBSET (1..n) /\ fold[r] # Scan(v, r) /\ fold[r] = Step(fold, r)
    BY <1>3, <2>2
  <2>4. CASE r = {}
    BY <2>3, <2>4 DEF Scan
  <2>5. CASE r # {}
    <3>. DEFINE x == Max(r)
    <3>1. x \in r
      BY <2>3, <2>5, MaxOf
    <3>. HIDE DEF x
    <3>2. r \ {x} \notin Wrong
      <4>1. <<r \ {x}, r>> \in StrictSubsetOrdering(Nat)
        <5>1. r \subseteq Nat /\ r \ {x} \subseteq r /\ r \ {x} # r
          BY <2>3, <3>1
        <5>2. <<r \ {x}, r>> \in (SUBSET Nat) \X (SUBSET Nat)
          BY <5>1
        <5>. QED BY <5>1, <5>2 DEF StrictSubsetOrdering
      <4>. HIDE DEF Wrong
      <4>. QED BY <2>2, <4>1
    <3>3. fold[r \ {x}] = Scan(v, r \ {x})
      BY <2>3, <3>2
    <3>4. Scan(v, r) = Mark(Scan(v, r \ {x}), v[x])
      BY <3>1, ScanStep
    <3>. QED BY <2>3, <2>5, <3>3, <3>4 DEF x
  <2>. QED BY <2>4, <2>5
<1>5. fold[1..n] = Scan(v, 1..n)
  <2>. HIDE DEF fold
  <2>. QED BY <1>4
<1>. QED BY <1>1, <1>5 DEF Scan

\* Two cells at the positions j and k of a unit hold the same digit.
Twice(v) == \E j, k \in Coords : j # k /\ v[j] = v[k] /\ v[j] # 0

LEMMA UnitExact ==
    ASSUME NEW v, DOMAIN v = Coords
    PROVE  Repeats(v) <=> Twice(v)
BY SizeNat, RepeatsExact DEF Coords, Twice

\* The row and the column of the n-th cell of a sector.
SectorRow(i, n) == Side * (i - 1) + ((n - 1) \div Side) + 1
SectorCol(j, n) == Side * (j - 1) + ((n - 1) % Side) + 1

\* A number below N is a digit in base Side and another.
LEMMA TwoDigits ==
    ASSUME NEW n \in Coords
    PROVE  /\ (n - 1) \div Side \in 0..(Side - 1) /\ (n - 1) % Side \in 0..(Side - 1)
           /\ n = Side * ((n - 1) \div Side) + ((n - 1) % Side) + 1
<1>1. n - 1 \in Nat /\ n <= N /\ n \in Nat /\ Side \in Nat \ {0}
    BY SizeNat, SideAssumption DEF Coords
<1>. DEFINE q == (n - 1) \div Side
            r == (n - 1) % Side
<1>2. q \in Nat /\ r \in 0..(Side - 1) /\ n - 1 = Side * q + r
    BY <1>1, Division
<1>. HIDE DEF q, r
<1>3. Side * q + r < Side * Side
    BY <1>1, <1>2 DEF N
<1>4. q < Side
    BY <1>1, <1>2, <1>3, QuotientBelow
<1>5. Side * q \in Int
    BY <1>1, <1>2
<1>6. q \in 0..(Side - 1) /\ n = Side * q + r + 1
    BY <1>1, <1>2, <1>4, <1>5
<1>. QED BY <1>2, <1>6 DEF q, r

LEMMA FromTwoDigits ==
    ASSUME NEW q \in 0..(Side - 1), NEW r \in 0..(Side - 1)
    PROVE  /\ Side * q + r + 1 \in Coords
           /\ (Side * q + r) \div Side = q /\ (Side * q + r) % Side = r
<1>1. Side \in Nat \ {0} /\ q \in Nat /\ r \in Nat /\ Side - 1 - q \in Nat
    BY SideAssumption
<1>2. (Side * q + r) \div Side = q /\ (Side * q + r) % Side = r
    BY <1>1, DivisionOfSum
<1>3. Side * (Side - 1 - q) \in Nat /\ Side * q \in Nat /\ Side * Side \in Nat
    BY <1>1
<1>4. Side * (Side - 1 - q) = Side * Side - Side - Side * q
    BY <1>1
<1>5. Side * q + r + 1 \in 1..(Side * Side)
    BY <1>1, <1>3, <1>4
<1>. QED BY <1>2, <1>5 DEF Coords, N

\* The n-th cell of a sector is a cell of the board that lies in it, ...
LEMMA CellOfSector ==
    ASSUME NEW i \in 1..Side, NEW j \in 1..Side, NEW n \in Coords
    PROVE  /\ SectorRow(i, n) \in Coords /\ SectorCol(j, n) \in Coords
           /\ (SectorRow(i, n) - 1) \div Side = i - 1
           /\ (SectorCol(j, n) - 1) \div Side = j - 1
<1>. DEFINE q == (n - 1) \div Side
            r == (n - 1) % Side
<1>1. q \in 0..(Side - 1) /\ r \in 0..(Side - 1)
    BY TwoDigits
<1>2. SectorRow(i, n) = Side * (i - 1) + q + 1 /\ SectorCol(j, n) = Side * (j - 1) + r + 1
    BY DEF SectorRow, SectorCol
<1>. HIDE DEF q, r
<1>3. i - 1 \in 0..(Side - 1) /\ j - 1 \in 0..(Side - 1)
    BY SideAssumption
<1>4. /\ Side * (i - 1) + q + 1 \in Coords /\ (Side * (i - 1) + q) \div Side = i - 1
      /\ Side * (j - 1) + r + 1 \in Coords /\ (Side * (j - 1) + r) \div Side = j - 1
    BY <1>1, <1>3, FromTwoDigits
<1>5. Side * (i - 1) + q \in Int /\ Side * (j - 1) + r \in Int
    BY <1>1, <1>3, SideAssumption
<1>6. SectorRow(i, n) - 1 = Side * (i - 1) + q /\ SectorCol(j, n) - 1 = Side * (j - 1) + r
    BY <1>2, <1>5
<1>. QED BY <1>2, <1>4, <1>6

\* ... another one for every n, ...
LEMMA CellsOfSectorApart ==
    ASSUME NEW i \in 1..Side, NEW j \in 1..Side, NEW n \in Coords, NEW m \in Coords,
           SectorRow(i, n) = SectorRow(i, m), SectorCol(j, n) = SectorCol(j, m)
    PROVE  n = m
<1>. DEFINE q(x) == (x - 1) \div Side
            r(x) == (x - 1) % Side
<1>1. ASSUME NEW x \in {n, m}
      PROVE  /\ q(x) \in 0..(Side - 1) /\ r(x) \in 0..(Side - 1)
             /\ x = Side * q(x) + r(x) + 1
             /\ SectorRow(i, x) = Side * (i - 1) + q(x) + 1
             /\ SectorCol(j, x) = Side * (j - 1) + r(x) + 1
    BY TwoDigits DEF SectorRow, SectorCol
<1>2. Side * (i - 1) \in Int /\ Side * (j - 1) \in Int
    BY SideAssumption
<1>. HIDE DEF q, r
<1>3. q(n) \in Int /\ q(m) \in Int /\ r(n) \in Int /\ r(m) \in Int
    BY <1>1
<1>4. Side * (i - 1) + q(n) + 1 = Side * (i - 1) + q(m) + 1
    BY <1>1
<1>5. Side * (j - 1) + r(n) + 1 = Side * (j - 1) + r(m) + 1
    BY <1>1
<1>6. q(n) = q(m)
    BY <1>2, <1>3, <1>4
<1>7. r(n) = r(m)
    BY <1>2, <1>3, <1>5
<1>. QED BY <1>1, <1>6, <1>7

\* ... and every cell is the n-th cell of its sector for some n.
LEMMA SectorOfCell ==
    ASSUME NEW k \in Coords, NEW l \in Coords
    PROVE  /\ (k - 1) \div Side + 1 \in 1..Side /\ (l - 1) \div Side + 1 \in 1..Side
           /\ \E n \in Coords : /\ SectorRow((k - 1) \div Side + 1, n) = k
                              /\ SectorCol((l - 1) \div Side + 1, n) = l
<1>. DEFINE q == (k - 1) \div Side
            r == (k - 1) % Side
            s == (l - 1) \div Side
            t == (l - 1) % Side
            n == Side * r + t + 1
<1>1. /\ q \in 0..(Side - 1) /\ r \in 0..(Side - 1) /\ k = Side * q + r + 1
      /\ s \in 0..(Side - 1) /\ t \in 0..(Side - 1) /\ l = Side * s + t + 1
    BY TwoDigits
<1>. HIDE DEF q, r, s, t
<1>2. n \in Coords /\ (Side * r + t) \div Side = r /\ (Side * r + t) % Side = t
    BY <1>1, FromTwoDigits
<1>3. Side * r + t \in Int /\ Side * q \in Int /\ Side * s \in Int
    BY <1>1, SideAssumption
<1>4. n - 1 = Side * r + t /\ (q + 1) - 1 = q /\ (s + 1) - 1 = s
    BY <1>1, <1>3, SideAssumption
<1>5. SectorRow(q + 1, n) = k /\ SectorCol(s + 1, n) = l
    BY <1>1, <1>2, <1>4 DEF SectorRow, SectorCol
<1>6. q + 1 \in 1..Side /\ s + 1 \in 1..Side
    BY <1>1, SideAssumption
<1>. HIDE DEF n
<1>. QED BY <1>2, <1>5, <1>6 DEF q, s

-----------------------------------------------------------------------------
LEMMA RowExact ==
    ASSUME NEW b
    PROVE  RowVerify(b) <=>
             \E i \in Coords, j, k \in Coords :
                 j # k /\ Value(b, i, j) = Value(b, i, k) /\ Value(b, i, j) # 0
<1>1. ASSUME NEW i \in Coords
      PROVE  Repeats([j \in Coords |-> Value(b, i, j)]) <=>
               \E j, k \in Coords :
                 j # k /\ Value(b, i, j) = Value(b, i, k) /\ Value(b, i, j) # 0
  <2>. DEFINE v == [j \in Coords |-> Value(b, i, j)]
  <2>1. \A j \in Coords : v[j] = Value(b, i, j)
    OBVIOUS
  <2>2. DOMAIN v = Coords
    OBVIOUS
  <2>. HIDE DEF v
  <2>3. Repeats(v) <=> Twice(v)
    BY <2>2, UnitExact
  <2>. QED BY <2>1, <2>3 DEF Twice, v
<1>. QED BY <1>1 DEF RowVerify

LEMMA ColExact ==
    ASSUME NEW b
    PROVE  ColVerify(b) <=>
             \E i \in Coords, j, k \in Coords :
                 j # k /\ Value(b, j, i) = Value(b, k, i) /\ Value(b, j, i) # 0
<1>1. ASSUME NEW i \in Coords
      PROVE  Repeats([j \in Coords |-> Value(b, j, i)]) <=>
               \E j, k \in Coords :
                 j # k /\ Value(b, j, i) = Value(b, k, i) /\ Value(b, j, i) # 0
  <2>. DEFINE v == [j \in Coords |-> Value(b, j, i)]
  <2>1. \A j \in Coords : v[j] = Value(b, j, i)
    OBVIOUS
  <2>2. DOMAIN v = Coords
    OBVIOUS
  <2>. HIDE DEF v
  <2>3. Repeats(v) <=> Twice(v)
    BY <2>2, UnitExact
  <2>. QED BY <2>1, <2>3 DEF Twice, v
<1>. QED BY <1>1 DEF ColVerify

SectorValue(b, i, j, n) == Value(b, SectorRow(i, n), SectorCol(j, n))

LEMMA CellExact ==
    ASSUME NEW b
    PROVE  CellVerify(b) <=>
             \E i, j \in 1..Side, n, m \in Coords :
                 /\ n # m
                 /\ SectorValue(b, i, j, n) = SectorValue(b, i, j, m)
                 /\ SectorValue(b, i, j, n) # 0
<1>1. ASSUME NEW i \in 1..Side, NEW j \in 1..Side
      PROVE  Repeats([n \in Coords |-> SectorValue(b, i, j, n)]) <=>
               \E n, m \in Coords :
                 /\ n # m
                 /\ SectorValue(b, i, j, n) = SectorValue(b, i, j, m)
                 /\ SectorValue(b, i, j, n) # 0
  <2>. DEFINE v == [n \in Coords |-> SectorValue(b, i, j, n)]
  <2>1. \A n \in Coords : v[n] = SectorValue(b, i, j, n)
    OBVIOUS
  <2>2. DOMAIN v = Coords
    OBVIOUS
  <2>. HIDE DEF v
  <2>3. Repeats(v) <=> Twice(v)
    BY <2>2, UnitExact
  <2>. QED BY <2>1, <2>3 DEF Twice, v
<1>2. CellVerify(b) <=>
        \E i, j \in 1..Side : Repeats([n \in Coords |-> SectorValue(b, i, j, n)])
    BY DEF CellVerify, SectorValue, SectorRow, SectorCol
<1>. QED BY <1>1, <1>2

\* What the three checks look at are the pairs of cells that a rule relates.
LEMMA ChecksExact ==
    ASSUME NEW b
    PROVE  RowVerify(b) \/ ColVerify(b) \/ CellVerify(b) <=> Conflict(b)
<1>1. ASSUME RowVerify(b) PROVE Conflict(b)
  <2>1. PICK i \in Coords, j \in Coords, k \in Coords :
            j # k /\ Value(b, i, j) = Value(b, i, k) /\ Value(b, i, j) # 0
    BY <1>1, RowExact
  <2>2. <<<<i, j>>, <<i, k>>>> \in Peers
    BY <2>1 DEF Peers
  <2>. QED BY <2>1, <2>2 DEF Conflict
<1>2. ASSUME ColVerify(b) PROVE Conflict(b)
  <2>1. PICK i \in Coords, j \in Coords, k \in Coords :
            j # k /\ Value(b, j, i) = Value(b, k, i) /\ Value(b, j, i) # 0
    BY <1>2, ColExact
  <2>2. <<<<j, i>>, <<k, i>>>> \in Peers
    BY <2>1 DEF Peers
  <2>. QED BY <2>1, <2>2 DEF Conflict
<1>3. ASSUME CellVerify(b) PROVE Conflict(b)
  <2>1. PICK i \in 1..Side, j \in 1..Side, n \in Coords, m \in Coords :
            /\ n # m
            /\ SectorValue(b, i, j, n) = SectorValue(b, i, j, m)
            /\ SectorValue(b, i, j, n) # 0
    BY <1>3, CellExact
  <2>. DEFINE c == <<SectorRow(i, n), SectorCol(j, n)>>
              d == <<SectorRow(i, m), SectorCol(j, m)>>
  <2>2. c \in Coords \X Coords /\ d \in Coords \X Coords /\ SameSector(c, d)
    BY CellOfSector DEF SameSector
  <2>3. c # d
    BY <2>1, CellsOfSectorApart
  <2>4. <<c, d>> \in Peers
    BY <2>2, <2>3 DEF Peers
  <2>. QED BY <2>1, <2>4 DEF Conflict, SectorValue
<1>4. ASSUME Conflict(b) PROVE RowVerify(b) \/ ColVerify(b) \/ CellVerify(b)
  <2>1. PICK p \in Peers :
            /\ Value(b, p[1][1], p[1][2]) = Value(b, p[2][1], p[2][2])
            /\ Value(b, p[1][1], p[1][2]) # 0
    BY <1>4 DEF Conflict
  <2>2. PICK k \in Coords, l \in Coords, x \in Coords, y \in Coords :
            p = <<<<k, l>>, <<x, y>>>>
    BY DEF Peers
  <2>3. /\ Value(b, k, l) = Value(b, x, y) /\ Value(b, k, l) # 0
        /\ k # x \/ l # y
        /\ k = x \/ l = y \/ SameSector(<<k, l>>, <<x, y>>)
    BY <2>1, <2>2 DEF Peers
  <2>4. CASE k = x
    BY <2>3, <2>4, RowExact
  <2>5. CASE l = y
    BY <2>3, <2>5, ColExact
  <2>6. CASE SameSector(<<k, l>>, <<x, y>>)
    <3>. DEFINE i == (k - 1) \div Side + 1
                j == (l - 1) \div Side + 1
    <3>1. i = (x - 1) \div Side + 1 /\ j = (y - 1) \div Side + 1
      BY <2>6 DEF SameSector
    <3>2. i \in 1..Side /\ j \in 1..Side
      BY SectorOfCell
    <3>3. PICK n \in Coords : SectorRow(i, n) = k /\ SectorCol(j, n) = l
      BY SectorOfCell
    <3>4. PICK m \in Coords : SectorRow(i, m) = x /\ SectorCol(j, m) = y
      BY <3>1, SectorOfCell
    <3>. HIDE DEF i, j
    <3>5. n # m /\ SectorValue(b, i, j, n) = SectorValue(b, i, j, m)
              /\ SectorValue(b, i, j, n) # 0
      BY <2>3, <3>3, <3>4 DEF SectorValue
    <3>. QED BY <3>2, <3>5, CellExact
  <2>. QED BY <2>3, <2>4, <2>5, <2>6
<1>. QED BY <1>1, <1>2, <1>3, <1>4

\* The checks with one bit per digit find exactly the boards that break the
\* rules, whatever the board holds (board_row_verify, board_col_verify,
\* board_cell_verify).
THEOREM VerifyIsExact == BoardSpec => []VerifyExact
<1>1. BoardTypeOK => VerifyExact
  <2>. SUFFICES ASSUME BoardTypeOK PROVE VerifyExact
    OBVIOUS
  <2>. DEFINE b == [board EXCEPT !.status = "BOARD_OK"]
  <2>1. b.board = board.board /\ b.status = "BOARD_OK"
    BY DEF BoardTypeOK, Boards
  <2>2. [b EXCEPT !.status = "BOARD_INVALID"].status = "BOARD_INVALID"
    BY DEF BoardTypeOK, Boards
  <2>. HIDE DEF b
  <2>3. AfterVerify(b).status = "BOARD_INVALID" <=> RowVerify(b) \/ ColVerify(b) \/ CellVerify(b)
    BY <2>1, <2>2 DEF AfterVerify
  <2>4. Conflict(b) <=> Conflict(board)
    BY <2>1 DEF Conflict, Value
  <2>. QED BY <2>3, <2>4, ChecksExact DEF VerifyExact, b
<1>. QED BY <1>1, BoardTyped, PTL
=============================================================================
