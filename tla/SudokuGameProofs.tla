-------------------------- MODULE SudokuGameProofs --------------------------
(***************************************************************************)
(* For any puzzle and any puts the player may type: what the player reads  *)
(* answers the command typed last, "OK" is only said of a board that       *)
(* breaks no rule, and the board changes only as the player says.          *)
(***************************************************************************)
EXTENDS SudokuGame, SudokuBoardProofs, SequenceTheorems

\* What AnswersInStep and OkTrue say of an answer to a command that left the
\* board b, of a server that read it from its file or not.
Right(answer, command, b, read) ==
    /\ answer.part = "body" /\ Answers(answer, command, b, read)
    /\ answer = Body("OK") => ~read \/ ~Conflict(b)

\* What the client has sent, by where it is.
ClientFits ==
    /\ client \in {"connect", "prompt", "header", "body"} => unsent = <<>>
    /\ client = "send" => unsent # <<>>
    /\ client \in {"send", "header", "body"} => typed \in Commands

\* Nothing moves before the connection is there, and no answer before it is
\* accepted.
LinkFits ==
    /\ link = "none" => toServer = <<>>
    /\ link # "accepted" =>
          /\ server \notin {"process", "header", "body"}
          /\ got = <<>> /\ toClient = <<>>
          /\ received = Blank /\ screen = Nothing /\ answered = [command |-> <<>>, board |-> board]
    /\ server \in {"create", "listen", "deaf"} => link # "accepted"
    /\ client = "connect" => link = "none"

\* Between commands: the server has answered the last one.
Idle ==
    /\ server \in {"listen", "receive"} /\ got = <<>> /\ toServer = <<>>
    /\ client \notin {"connect", "send"}
    /\ client = "header" => toClient = <<Header, reply>>
    /\ client = "body" => toClient = <<reply>>

\* Of the command typed last, the server has the first g bytes and not all of
\* them, the stream those up to s, and the client the others.
Underway(g, s) ==
    /\ g <= s /\ s <= Len(typed) /\ g < Len(typed)
    /\ got = SubSeq(typed, 1, g)
    /\ toServer = SubSeq(typed, g + 1, s)
    /\ unsent = SubSeq(typed, s + 1, Len(typed))

Sending ==
    /\ server \in {"listen", "receive"} /\ typed \in Commands
    /\ client \notin {"connect", "prompt", "body"}
    /\ client \in {"send", "header"} => toClient = <<>>
    /\ \E g, s \in 0..4 : Underway(g, s)

\* The server has the whole command, and the client waits or has left.
Answering ==
    /\ server \in {"process", "header", "body"} /\ typed \in Commands
    /\ got = typed /\ toServer = <<>> /\ unsent = <<>>
    /\ client \notin {"connect", "prompt", "send"}
    /\ client = "header" => toClient = IF server = "body" THEN <<Header>> ELSE <<>>
    /\ client = "body" => server = "body" /\ toClient = <<>>
    /\ server # "process" => Right(reply, typed, board, loaded)

\* As long as the server runs, the two are in one of these three phases.
StreamsFit == ServerGone \/ link = "none" \/ Idle \/ Sending \/ Answering

\* Also when the server has gone, what it left is right.
AnswersFit ==
    /\ client \in {"connect", "prompt", "send"} => toClient = <<>>
    /\ client = "header" => \/ toClient \in {<<>>, <<Header>>}
                            \/ toClient = <<Header, reply>> /\ Right(reply, typed, board, loaded)
    /\ client = "body" => toClient = <<>> \/ (toClient = <<reply>> /\ Right(reply, typed, board, loaded))

\* A client that has only the length of an answer gets the rest from a server
\* that lives.
BodyDue ==
    (client = "header" /\ toClient = <<Header>>) \/ (client = "body" /\ toClient = <<>>) =>
        server \in {"body", "killed"} /\ got = typed

\* What the buffer holds was right when it was received.
BufferFits ==
    \/ received = Blank /\ answered.command = <<>>
    \/ Right(Whole(received), answered.command, answered.board, loaded)

\* The board is the one of the last answer, but for a command whose answer is
\* under way or was cut.
Kept ==
    \/ board.board = answered.board.board
    \/ typed[1] \in {P, R} /\ client \notin {"connect", "prompt", "send"}
    \/ ServerGone /\ client # "body" /\ toClient = <<>>

\* The client prints the answer, or what its buffer held before.
ScreenFits ==
    client = "prompt" =>
        \/ screen = Nothing
        \/ Right(screen, typed, board, loaded)
        \/ /\ screen = received /\ server = "killed" /\ got = typed
           /\ typed[1] \notin {P, R} => board.board = answered.board.board

IInv ==
    /\ TypeOK
    /\ board.status # "BOARD_NON_MODIFIABLE_VALUE"
    /\ ClientFits /\ LinkFits /\ StreamsFit /\ AnswersFit
    /\ BodyDue /\ BufferFits /\ Kept /\ ScreenFits

USE DEF printed

-----------------------------------------------------------------------------
\* The four letters are apart, and a put has three parameters.
LEMMA CommandShape ==
    ASSUME NEW c \in Commands
    PROVE  /\ c \in Seq(Nat) /\ Len(c) \in Nat /\ DOMAIN c = 1..Len(c)
           /\ c[1] \in {P, V, R, G}
           /\ c[1] = P => /\ Len(c) = 4
                          /\ c[2] \in Coords /\ c[3] \in Coords /\ c[4] \in Digits
           /\ c[1] # P => Len(c) = 1
           /\ c[1] = R => c = <<R>>
<1>. Coords \subseteq Nat /\ Digits \subseteq Nat
    BY SizeNat DEF Coords, Digits
<1>1. CASE c \in {<<V>>, <<R>>, <<G>>}
  <2>1. PICK x \in {V, R, G} : c = <<x>>
    BY <1>1
  <2>2. x \in Nat /\ x # P
    BY DEF P, V, R, G
  <2>3. c \in Seq(Nat) /\ Len(c) = 1 /\ c[1] = x /\ DOMAIN c = 1..1
    BY <2>1, <2>2
  <2>. QED BY <2>1, <2>2, <2>3
<1>2. CASE c \in {<<P>> \o p : p \in Puts}
  <2>0. PICK p \in Puts : c = <<P>> \o p
    BY <1>2
  <2>1. PICK i \in Coords, j \in Coords, value \in Digits : p = <<i, j, value>>
    <3>1. p \in Coords \X Coords \X Digits
      BY PutsAssumption
    <3>2. p[1] \in Coords /\ p[2] \in Coords /\ p[3] \in Digits /\ p = <<p[1], p[2], p[3]>>
      BY <3>1
    <3>. QED BY <3>2
  <2>. DEFINE t == <<i, j, value>>
  <2>2. /\ <<P>> \in Seq(Nat) /\ Len(<<P>>) = 1 /\ <<P>>[1] = P
        /\ t \in Seq(Nat) /\ Len(t) = 3 /\ t[1] = i /\ t[2] = j /\ t[3] = value
    BY DEF P
  <2>. HIDE DEF t
  <2>3. c = <<P>> \o t
    BY <2>0, <2>1 DEF t
  <2>. DEFINE s == <<P>>
  <2>. HIDE DEF s
  <2>4. /\ s \o t \in Seq(Nat) /\ Len(s \o t) = Len(s) + Len(t)
        /\ \A n \in 1..(Len(s) + Len(t)) :
              (s \o t)[n] = IF n <= Len(s) THEN s[n] ELSE t[n - Len(s)]
    <3>1. s \in Seq(Nat) /\ t \in Seq(Nat)
      BY <2>2 DEF s
    <3>. QED BY <3>1, ConcatProperties
  <2>5. Len(c) = 4 /\ c \in Seq(Nat) /\ c[1] = P /\ c[2] = t[1] /\ c[3] = t[2] /\ c[4] = t[3]
    BY <2>2, <2>3, <2>4 DEF s
  <2>. QED BY <2>2, <2>5 DEF P, V, R, G
<1>. QED BY <1>1, <1>2 DEF Commands

LEMMA CommandLength ==
    ASSUME NEW c \in Commands
    PROVE  c \in Seq(Nat) /\ Len(c) \in {1, 4} /\ (c[1] = P <=> Len(c) = 4)
<1>1. CASE c[1] = P
    BY <1>1, CommandShape
<1>2. CASE c[1] # P
    BY <1>2, CommandShape
<1>. QED BY <1>1, <1>2

\* Consecutive bytes of a command, without the first of them ...
LEMMA FirstByte ==
    ASSUME NEW c \in Commands, NEW a \in Nat, NEW b \in Nat, 1 <= a, b <= Len(c),
           a <= b \/ SubSeq(c, a, b) # <<>>
    PROVE  /\ a <= b /\ SubSeq(c, a, b) # <<>> /\ Len(SubSeq(c, a, b)) = b - a + 1
           /\ Head(SubSeq(c, a, b)) = c[a]
           /\ Tail(SubSeq(c, a, b)) = SubSeq(c, a + 1, b)
<1>1. c \in Seq(Nat) /\ Len(c) \in Nat
    BY CommandShape
<1>2. a <= b
    BY SubSeqEmpty
<1>3. a \in 1..Len(c) /\ b \in a..Len(c) /\ \A i \in a..b : c[i] \in Nat
    BY <1>1, <1>2
<1>4. Len(SubSeq(c, a, b)) = b - a + 1
    BY <1>2, <1>3, SubSeqProperties
<1>5. SubSeq(c, a, b) # <<>>
    BY <1>2, <1>4
<1>. QED BY <1>1, <1>2, <1>3, <1>4, <1>5, HeadTailOfSubSeq

LEMMA FirstOfStream ==
    ASSUME NEW c \in Commands, NEW a \in Nat, NEW b \in Nat, 1 <= a, b <= Len(c),
           NEW stream, stream = SubSeq(c, a, b), stream # <<>>
    PROVE  a <= b /\ Head(stream) = c[a] /\ Tail(stream) = SubSeq(c, a + 1, b)
BY FirstByte

\* ... and with one more.
LEMMA OneByteMore ==
    ASSUME NEW c \in Commands, NEW a \in Nat, NEW b \in Nat, 1 <= a, b < Len(c), a <= b + 1
    PROVE  Append(SubSeq(c, a, b), c[b + 1]) = SubSeq(c, a, b + 1)
<1>1. c \in Seq(Nat) /\ Len(c) \in Nat
    BY CommandShape
<1>2. a \in 1..Len(c) /\ b + 1 \in a..Len(c) /\ (b + 1) - 1 = b
    BY <1>1
<1>3. SubSeq(c, a, b + 1) = SubSeq(c, a, b) \o <<c[b + 1]>>
    BY <1>1, <1>2, SubSeqRecursiveSecond
<1>4. SubSeq(c, a, b) \in Seq(Nat) /\ c[b + 1] \in Nat
  <2>1. \A i \in a..b : c[i] \in Nat
    BY <1>1, <1>2
  <2>. QED BY <1>1, <1>2, <2>1, SubSeqProperties
<1>. QED BY <1>3, <1>4, AppendIsConcat

LEMMA AppendToShort ==
    ASSUME NEW x, NEW y
    PROVE  Append(<<>>, y) = <<y>> /\ Append(<<x>>, y) = <<x, y>>
<1>. DEFINE S == {x, y}
<1>1. <<>> \in Seq(S) /\ <<x>> \in Seq(S) /\ <<y>> \in Seq(S) /\ <<x, y>> \in Seq(S)
    OBVIOUS
<1>2. Append(<<>>, y) = <<y>>
    BY <1>1, AppendIsConcat, ConcatEmptySeq
<1>. DEFINE s == Append(<<x>>, y)
<1>3. s \in Seq(S) /\ Len(s) = 2 /\ s[1] = x /\ s[2] = y
    BY <1>1, AppendProperties, Len(<<x>>) = 1
<1>. HIDE DEF s
<1>4. s = <<x, y>>
    BY <1>3
<1>. QED BY <1>2, <1>4 DEF s

LEMMA WholeCommand ==
    ASSUME NEW c \in Commands
    PROVE  /\ SubSeq(c, 1, 0) = <<>> /\ SubSeq(c, 1, Len(c)) = c /\ c # <<>>
           /\ \A k \in Nat : SubSeq(c, k + 1, k) = <<>>
<1>1. c \in Seq(Nat) /\ Len(c) \in Nat \ {0}
    BY CommandShape
<1>2. \A k \in Nat : SubSeq(c, k + 1, k) = <<>>
    BY SubSeqEmpty
<1>. QED BY <1>1, <1>2, SubSeqFull, SubSeqEmpty

-----------------------------------------------------------------------------
\* The loop of server_send_board reaches the middle of the box of each cell in
\* its turn.
LEMMA DrawnInTurn ==
    ASSUME NEW k \in 1..(N * N)
    PROVE  DrawnAt[k] = Middle(((k - 1) \div N) + 1, ((k - 1) % N) + 1)
<1>. DEFINE M(n) == Middle(((n - 1) \div N) + 1, ((n - 1) % N) + 1)
            Step1(f, n) == IF n = 1 THEN CharsPerLine + 2
                           ELSE Advance(f[n - 1], ((n - 2) % N) + 1)
            Loop(f) == f = [n \in 1..(N * N) |-> Step1(f, n)]
            places == [n \in 1..(N * N) |-> M(n)]
            drawn == CHOOSE f : Loop(f)
<1>1. DrawnAt = drawn
    BY DEF DrawnAt
<1>2. N \in Nat \ {0} /\ N * N \in Nat \ {0}
    BY SizeNat
<1>3. M(1) = CharsPerLine + 2
  <2>1. 0 \div N = 0 /\ 0 % N = 0
    BY <1>2, DivisionOfSum, N * 0 + 0 = 0
  <2>. QED BY <2>1, <1>2 DEF Middle, CharsPerLine
<1>4. ASSUME NEW n \in 2..(N * N) PROVE M(n) = Advance(M(n - 1), ((n - 2) % N) + 1)
  <2>. DEFINE q == (n - 2) \div N
              r == (n - 2) % N
  <2>1. n - 2 \in Nat /\ n - 1 \in Nat /\ (n - 1) - 1 = n - 2
    BY <1>2
  <2>2. q \in Nat /\ r \in 0..(N - 1) /\ n - 2 = N * q + r
    BY <1>2, <2>1, Division
  <2>3. M(n - 1) = Middle(q + 1, r + 1)
    BY <2>1
  <2>. HIDE DEF q, r
  <2>4. N * q \in Nat
    BY <1>2, <2>2
  <2>5. CASE r = N - 1
    <3>1. N * (q + 1) = N * q + N
      BY <1>2, <2>2
    <3>2. n - 1 = N * (q + 1) + 0
      BY <1>2, <2>1, <2>2, <2>4, <2>5, <3>1
    <3>3. (n - 1) \div N = q + 1 /\ (n - 1) % N = 0
      BY <1>2, <2>2, <3>2, DivisionOfSum, q + 1 \in Nat, 0 \in 0..(N - 1)
    <3>4. M(n) = Middle(q + 2, 1)
      BY <2>2, <3>3
    <3>. DEFINE c == CharsPerLine
    <3>5. c \in Nat /\ c = 4 * N + 2
      BY <1>2 DEF CharsPerLine
    <3>. HIDE DEF c
    <3>6. /\ Middle(q + 2, 1) = c * (2 * q + 3) + 2
          /\ Middle(q + 1, N) = c * (2 * q + 1) + 4 * (N - 1) + 2
      <4>1. 2 * (q + 2) - 1 = 2 * q + 3 /\ 2 * (q + 1) - 1 = 2 * q + 1 /\ 4 * (1 - 1) = 0
        BY <2>2
      <4>2. c * (2 * q + 3) \in Nat /\ Middle(q + 2, 1) = c * (2 * q + 3) + 0 + 2
        BY <2>2, <3>5, <4>1 DEF Middle, c
      <4>. QED BY <4>1, <4>2 DEF Middle, c
    <3>7. c * (2 * q + 3) = c * (2 * q + 1) + 2 * c /\ c * (2 * q + 1) \in Nat
      BY <2>2, <3>5
    <3>8. Advance(Middle(q + 1, N), N) = Middle(q + 1, N) + 2 + c + 4
      BY DEF Advance, c
    <3>. QED BY <1>2, <2>3, <2>5, <3>4, <3>5, <3>6, <3>7, <3>8 DEF r
  <2>6. CASE r # N - 1
    <3>1. r + 1 \in 0..(N - 1) /\ n - 1 = N * q + (r + 1)
      BY <1>2, <2>1, <2>2, <2>4, <2>6
    <3>2. (n - 1) \div N = q /\ (n - 1) % N = r + 1
      BY <1>2, <2>2, <3>1, DivisionOfSum
    <3>3. M(n) = Middle(q + 1, r + 2)
      BY <2>2, <3>2
    <3>. DEFINE d == CharsPerLine * (2 * (q + 1) - 1)
    <3>4. d \in Int
      BY <1>2, <2>2 DEF CharsPerLine
    <3>. HIDE DEF d
    <3>5. Middle(q + 1, r + 2) = d + 4 * (r + 1) + 2 /\ Middle(q + 1, r + 1) = d + 4 * r + 2
      BY <1>2, <2>2 DEF Middle, d
    <3>6. Advance(Middle(q + 1, r + 1), r + 1) = Middle(q + 1, r + 1) + 4
      BY <1>2, <2>2, <2>6 DEF Advance
    <3>. QED BY <2>2, <2>3, <3>3, <3>4, <3>5, <3>6 DEF r
  <2>. QED BY <2>5, <2>6
<1>5. Loop(places)
  <2>1. ASSUME NEW n \in 1..(N * N) PROVE M(n) = Step1(places, n)
    <3>1. CASE n = 1
      BY <1>3, <3>1
    <3>2. CASE n # 1
      <4>1. n \in 2..(N * N) /\ n - 1 \in 1..(N * N)
        BY <1>2, <3>2
      <4>. HIDE DEF M
      <4>. QED BY <1>4, <3>2, <4>1
    <3>. QED BY <3>1, <3>2
  <2>. HIDE DEF M
  <2>. QED BY <2>1
<1>6. Loop(drawn)
  <2>. HIDE DEF Loop, places
  <2>. QED BY <1>5
<1>. DEFINE Reached == {n \in 0..(N * N) : n = 0 \/ drawn[n] = M(n)}
<1>. HIDE DEF drawn, M
<1>7. ASSUME NEW n \in 0..(N * N), n < N * N, n \in Reached PROVE n + 1 \in Reached
  <2>1. n + 1 \in 1..(N * N) /\ drawn[n + 1] = Step1(drawn, n + 1)
    BY <1>2, <1>6, <1>7
  <2>2. CASE n = 0
    BY <1>2, <1>3, <2>1, <2>2
  <2>3. CASE n # 0
    <3>1. n + 1 \in 2..(N * N) /\ (n + 1) - 1 = n /\ drawn[n] = M(n) /\ n + 1 # 1
      BY <1>2, <1>7, <2>3
    <3>. QED BY <1>4, <2>1, <3>1
  <2>. QED BY <2>2, <2>3
<1>8. 0..(N * N) \subseteq Reached
  <2>1. 0 \in Reached
    BY <1>2
  <2>. HIDE DEF Reached
  <2>. QED BY <1>2, <1>7, <2>1, UpTo
<1>. QED BY <1>1, <1>2, <1>8 DEF M

\* So every digit is drawn in the box of its cell.
LEMMA DrawnInBoxes ==
    ASSUME NEW b
    PROVE  Drawing(b) = {d \in {<<Middle(i, j), Value(b, i, j)>> : i, j \in Coords} : d[2] # 0}
<1>1. ASSUME NEW i \in Coords, NEW j \in Coords PROVE DrawnAt[N * (i - 1) + j] = Middle(i, j)
  <2>. DEFINE k == N * (i - 1) + j
  <2>1. N \in Nat \ {0} /\ i \in Nat /\ j \in Nat /\ i - 1 \in Nat /\ j - 1 \in 0..(N - 1) /\ N - i \in Nat
    BY SizeNat DEF Coords
  <2>2. N * (i - 1) \in Nat /\ N * (N - i) \in Nat /\ N * N \in Nat
        /\ N * (N - i) = N * N - N - N * (i - 1)
    BY <2>1
  <2>3. k \in 1..(N * N) /\ k - 1 = N * (i - 1) + (j - 1)
    BY <2>1, <2>2
  <2>. HIDE DEF k
  <2>4. (k - 1) \div N = i - 1 /\ (k - 1) % N = j - 1
    <3>1. /\ (N * (i - 1) + (j - 1)) \div N = i - 1
          /\ (N * (i - 1) + (j - 1)) % N = j - 1
      BY <2>1, DivisionOfSum
    <3>. QED BY <2>3, <3>1
  <2>5. DrawnAt[k] = Middle((i - 1) + 1, (j - 1) + 1)
    BY <2>3, <2>4, DrawnInTurn
  <2>. QED BY <2>1, <2>5 DEF k
<1>2. {<<DrawnAt[N * (i - 1) + j], Value(b, i, j)>> : i, j \in Coords}
        = {<<Middle(i, j), Value(b, i, j)>> : i, j \in Coords}
    BY <1>1
<1>. QED BY <1>2 DEF Drawing

-----------------------------------------------------------------------------
LEMMA AnswersTyped ==
    ASSUME TypeOK, UNCHANGED <<reply, received, screen, answered>>
    PROVE  AnswersTypeOK'
BY DEF TypeOK, AnswersTypeOK

\* The server may end anywhere ...
LEMMA ServerStops ==
    ASSUME IInv, server' \in {"ended", "killed"},
           server' = "ended" => server \in {"receive", "deaf"},
           UNCHANGED <<clientVars, loaded, got, reply, board, streams, link>>
    PROVE  IInv'
<1>1. TypeOK'
    BY AnswersTyped DEF IInv, TypeOK, BoardTypeOK, clientVars, streams
<1>2. ClientFits' /\ LinkFits'
    BY DEF IInv, ClientFits, LinkFits, clientVars, streams
<1>3. StreamsFit'
    BY DEF StreamsFit, ServerGone
<1>4. AnswersFit'
    BY DEF IInv, AnswersFit, clientVars, streams
<1>5. BodyDue' /\ BufferFits' /\ Kept' /\ ScreenFits'
    BY DEF IInv, BodyDue, BufferFits, Kept, ScreenFits, ServerGone, clientVars, streams
<1>. QED BY <1>1, <1>2, <1>3, <1>4, <1>5 DEF IInv

\* ... and so may the client.
LEMMA ClientStops ==
    ASSUME IInv, client' \in {"ended", "failed", "killed"},
           UNCHANGED <<typed, unsent, printed, serverVars, streams, link>>
    PROVE  IInv'
<1>1. TypeOK'
    BY AnswersTyped DEF IInv, TypeOK, BoardTypeOK, serverVars, streams
<1>2. ClientFits' /\ LinkFits'
    BY DEF IInv, ClientFits, LinkFits, serverVars, streams
<1>3. StreamsFit'
  <2>1. CASE ServerGone \/ link = "none"
    BY <2>1 DEF StreamsFit, ServerGone, serverVars
  <2>2. CASE Idle
    BY <2>2 DEF StreamsFit, Idle, serverVars, streams
  <2>3. CASE Sending
    BY <2>3 DEF StreamsFit, Sending, Underway, serverVars, streams
  <2>4. CASE Answering
    BY <2>4 DEF StreamsFit, Answering, serverVars, streams
  <2>. QED BY <2>1, <2>2, <2>3, <2>4 DEF IInv, StreamsFit
<1>4. AnswersFit'
    BY DEF AnswersFit
<1>5. BodyDue' /\ BufferFits' /\ Kept' /\ ScreenFits'
    BY DEF IInv, BodyDue, BufferFits, Kept, ScreenFits, ServerGone, serverVars, streams
<1>. QED BY <1>1, <1>2, <1>3, <1>4, <1>5 DEF IInv, serverVars

\* The set up of the server, with or without a client in the backlog.
LEMMA ServerSetUp ==
    ASSUME IInv, Create \/ CreateFails \/ Accept \/ AcceptFails
    PROVE  IInv'
<1>1. CASE CreateFails /\ server' = "killed"
    BY <1>1, ServerStops DEF CreateFails
<1>2. CASE Create \/ (CreateFails /\ server' = "deaf")
  <2>. USE <1>2 DEF Create, CreateFails
  <2>1. TypeOK'
    BY AnswersTyped DEF IInv, TypeOK, BoardTypeOK, clientVars, streams
  <2>2. ClientFits' /\ LinkFits' /\ AnswersFit'
    BY DEF IInv, ClientFits, LinkFits, AnswersFit, clientVars, streams
  <2>3. StreamsFit'
    BY DEF IInv, StreamsFit, ServerGone, Idle, Sending, Answering
  <2>4. BodyDue' /\ BufferFits' /\ Kept' /\ ScreenFits'
    BY DEF IInv, LinkFits, BodyDue, BufferFits, Kept, ScreenFits, clientVars, streams
  <2>. QED BY <2>1, <2>2, <2>3, <2>4 DEF IInv
<1>3. CASE Accept \/ AcceptFails
  <2>. USE <1>3 DEF Accept, AcceptFails
  <2>0. /\ link # "accepted" /\ toClient = <<>> /\ received = Blank /\ screen = Nothing
        /\ answered = [command |-> <<>>, board |-> board]
    BY DEF IInv, LinkFits
  <2>1. TypeOK'
    BY AnswersTyped DEF IInv, TypeOK, BoardTypeOK, clientVars, streams
  <2>2. ClientFits' /\ LinkFits'
    BY DEF IInv, ClientFits, LinkFits, clientVars, streams
  <2>3. StreamsFit'
    <3>1. CASE link = "none"
      BY <3>1 DEF StreamsFit
    <3>2. CASE Idle
      BY <3>2 DEF StreamsFit, Idle, clientVars, streams
    <3>3. CASE Sending
      BY <3>3 DEF StreamsFit, Sending, Underway, clientVars, streams
    <3>. QED BY <3>1, <3>2, <3>3 DEF IInv, StreamsFit, Answering, ServerGone
  <2>4. AnswersFit'
    BY <2>0 DEF AnswersFit, clientVars, streams
  <2>5. BodyDue' /\ BufferFits' /\ Kept' /\ ScreenFits'
    BY <2>0 DEF IInv, BodyDue, BufferFits, Kept, ScreenFits, clientVars, streams
  <2>. QED BY <2>1, <2>2, <2>3, <2>4, <2>5 DEF IInv
<1>. QED BY <1>1, <1>2, <1>3 DEF CreateFails

LEMMA ClientSetUp ==
    ASSUME IInv, Connect \/ ConnectFails
    PROVE  IInv'
<1>1. CASE ConnectFails /\ client' # "prompt"
    BY <1>1, ClientStops DEF ConnectFails
<1>2. CASE Connect \/ (ConnectFails /\ client' = "prompt")
  <2>. USE <1>2 DEF Connect, ConnectFails
  <2>0. /\ client = "connect" /\ link = "none" /\ toServer = <<>> /\ got = <<>>
        /\ toClient = <<>> /\ received = Blank /\ screen = Nothing
        /\ answered = [command |-> <<>>, board |-> board]
    BY DEF IInv, LinkFits
  <2>1. TypeOK'
    BY AnswersTyped DEF IInv, TypeOK, BoardTypeOK, serverVars, streams
  <2>2. ClientFits' /\ LinkFits'
    BY <2>0 DEF IInv, ClientFits, LinkFits, serverVars, streams
  <2>3. StreamsFit'
    BY <2>0 DEF StreamsFit, Idle, serverVars, streams
  <2>4. AnswersFit'
    BY <2>0 DEF AnswersFit, serverVars, streams
  <2>5. BodyDue' /\ BufferFits' /\ Kept' /\ ScreenFits'
    BY <2>0 DEF BodyDue, BufferFits, Kept, ScreenFits, serverVars, streams
  <2>. QED BY <2>1, <2>2, <2>3, <2>4, <2>5 DEF IInv, serverVars
<1>. QED BY <1>1, <1>2

LEMMA TypeKeeps ==
    ASSUME IInv, Type
    PROVE  IInv'
<1>. USE DEF Type
<1>1. PICK c \in Commands : typed' = c /\ unsent' = c
    OBVIOUS
<1>2. TypeOK'
  <2>1. unsent' = SubSeq(typed', 0 + 1, Len(typed'))
    BY <1>1, WholeCommand
  <2>2. AnswersTypeOK'
    BY AnswersTyped DEF IInv, serverVars
  <2>. QED BY <1>1, <2>1, <2>2 DEF IInv, TypeOK, BoardTypeOK, serverVars, streams
<1>3. ClientFits' /\ LinkFits'
    BY <1>1, WholeCommand DEF IInv, ClientFits, LinkFits, serverVars, streams
<1>4. StreamsFit'
  <2>1. CASE ServerGone \/ link = "none"
    BY <2>1 DEF StreamsFit, ServerGone, serverVars
  <2>2. CASE Idle
    <3>1. Len(c) \in Nat \ {0}
      BY CommandShape
    <3>2. Underway(0, 0)'
      BY <1>1, <2>2, <3>1, WholeCommand DEF Underway, Idle, serverVars, streams
    <3>3. toClient' = <<>>
      BY DEF IInv, AnswersFit, streams
    <3>. QED BY <1>1, <2>2, <3>2, <3>3 DEF StreamsFit, Idle, Sending, serverVars
  <2>. QED BY <2>1, <2>2 DEF IInv, StreamsFit, Sending, Answering
<1>5. AnswersFit'
    BY DEF IInv, AnswersFit, streams
<1>6. BodyDue' /\ BufferFits' /\ Kept' /\ ScreenFits'
    BY DEF IInv, BodyDue, BufferFits, Kept, ScreenFits, ServerGone, serverVars, streams
<1>. QED BY <1>2, <1>3, <1>4, <1>5, <1>6 DEF IInv, serverVars

-----------------------------------------------------------------------------
LEMMA SendByteKeeps ==
    ASSUME IInv, SendByte
    PROVE  IInv'
<1>. USE DEF SendByte
<1>. DEFINE L == Len(typed)
<1>1. /\ typed \in Commands /\ unsent # <<>> /\ L \in 1..4 /\ toClient = <<>>
      /\ \E n \in 0..4 : unsent = SubSeq(typed, n + 1, L)
  <2>1. typed \in Commands /\ unsent # <<>> /\ toClient = <<>>
    BY DEF IInv, ClientFits, AnswersFit
  <2>2. L \in 1..4
    BY <2>1, CommandLength
  <2>3. \E n \in 0..4 : unsent = SubSeq(typed, n + 1, L)
    BY DEF IInv, TypeOK
  <2>. QED BY <2>1, <2>2, <2>3
<1>. HIDE DEF L
<1>2. ASSUME NEW n \in 0..4, unsent = SubSeq(typed, n + 1, L)
      PROVE  /\ n < L /\ Len(unsent) = L - n /\ Head(unsent) = typed[n + 1]
             /\ Tail(unsent) = SubSeq(typed, n + 2, L)
  <2>1. n + 1 \in Nat /\ L \in Nat /\ 1 <= n + 1 /\ (n + 1) + 1 = n + 2
    BY <1>1
  <2>2. /\ n + 1 <= L /\ Len(unsent) = L - (n + 1) + 1 /\ Head(unsent) = typed[n + 1]
        /\ Tail(unsent) = SubSeq(typed, (n + 1) + 1, L)
    <3>1. L = Len(typed) /\ L <= Len(typed) /\ SubSeq(typed, n + 1, L) # <<>>
      BY <1>1, <1>2 DEF L
    <3>2. /\ n + 1 <= L /\ Len(SubSeq(typed, n + 1, L)) = L - (n + 1) + 1
          /\ Head(SubSeq(typed, n + 1, L)) = typed[n + 1]
          /\ Tail(SubSeq(typed, n + 1, L)) = SubSeq(typed, (n + 1) + 1, L)
      BY <1>1, <2>1, <3>1, FirstByte
    <3>. QED BY <1>2, <3>2
  <2>. QED BY <2>1, <2>2
<1>3. PICK n \in 0..4 : unsent = SubSeq(typed, n + 1, L)
    BY <1>1
<1>4. n < L /\ Len(unsent) = L - n /\ Tail(unsent) = SubSeq(typed, n + 2, L)
    BY <1>2, <1>3
<1>5. TypeOK'
  <2>1. n + 1 \in 0..4 /\ unsent' = SubSeq(typed', (n + 1) + 1, Len(typed'))
    <3>1. n + 1 \in 0..4 /\ (n + 1) + 1 = n + 2
      BY <1>1, <1>4
    <3>. QED BY <1>4, <3>1 DEF L
  <2>2. client' \in {"header", "send", "killed"}
    OBVIOUS
  <2>. QED BY <2>1, <2>2, AnswersTyped DEF IInv, TypeOK, BoardTypeOK, serverVars
<1>6. ClientFits' /\ LinkFits'
  <2>1. CASE Len(unsent) = 1
    <3>1. unsent' = SubSeq(typed, L + 1, L)
      BY <1>1, <1>4, <2>1
    <3>2. unsent' = <<>>
      BY <1>1, <3>1, SubSeqEmpty
    <3>. QED BY <1>1, <2>1, <3>2 DEF IInv, ClientFits, LinkFits, serverVars
  <2>2. CASE Len(unsent) # 1
    <3>1. n + 2 \in Nat /\ L \in Nat /\ 1 <= n + 2 /\ n + 2 <= L
      BY <1>1, <1>4, <2>2
    <3>2. SubSeq(typed, n + 2, L) # <<>>
      <4>1. L <= Len(typed)
        BY <1>1 DEF L
      <4>. QED BY <1>1, <3>1, <4>1, FirstByte
    <3>3. unsent' # <<>>
      BY <1>4, <3>2
    <3>. QED BY <1>1, <2>2, <3>3 DEF IInv, ClientFits, LinkFits, serverVars
  <2>. QED BY <2>1, <2>2
<1>7. StreamsFit'
  <2>1. CASE ServerGone \/ link = "none"
    BY <2>1 DEF StreamsFit, ServerGone, serverVars
  <2>2. CASE Sending /\ ~(ServerGone \/ link = "none")
    <3>1. PICK g \in 0..4, s \in 0..4 : Underway(g, s)
      BY <2>2 DEF Sending
    <3>2. s < L /\ Head(unsent) = typed[s + 1] /\ Tail(unsent) = SubSeq(typed, s + 2, L)
      BY <1>2, <3>1 DEF Underway, L
    <3>3. g <= s /\ g < L
      BY <3>1 DEF Underway, L
    <3>4. Append(SubSeq(typed, g + 1, s), typed[s + 1]) = SubSeq(typed, g + 1, s + 1)
      <4>1. g + 1 \in Nat /\ s \in Nat /\ 1 <= g + 1 /\ s < Len(typed) /\ g + 1 <= s + 1
        BY <3>2, <3>3 DEF L
      <4>. QED BY <1>1, <4>1, OneByteMore
    <3>5. toServer' = SubSeq(typed, g + 1, s + 1)
      BY <2>2, <3>1, <3>2, <3>4 DEF Underway
    <3>6. s + 1 \in 0..4 /\ g <= s + 1 /\ s + 1 <= L /\ (s + 1) + 1 = s + 2
      BY <1>1, <3>2, <3>3
    <3>7. Underway(g, s + 1)'
      BY <3>1, <3>2, <3>3, <3>5, <3>6 DEF Underway, L, serverVars
    <3>8. \E h, t \in 0..4 : Underway(h, t)'
      BY <3>6, <3>7
    <3>9. client' \in {"send", "header"}
      BY <2>2
    <3>. QED BY <1>1, <2>2, <3>8, <3>9 DEF StreamsFit, Sending, serverVars
  <2>. QED BY <2>1, <2>2 DEF IInv, StreamsFit, Idle, Answering
<1>8. AnswersFit'
    BY <1>1 DEF AnswersFit
<1>9. BodyDue' /\ BufferFits' /\ Kept' /\ ScreenFits'
    BY <1>1 DEF IInv, BodyDue, BufferFits, Kept, ScreenFits, ServerGone, serverVars
<1>. QED BY <1>5, <1>6, <1>7, <1>8, <1>9 DEF IInv, serverVars

LEMMA ReceiveHeaderKeeps ==
    ASSUME IInv, ReceiveHeader
    PROVE  IInv'
<1>. USE DEF ReceiveHeader
<1>1. TypeOK'
    BY AnswersTyped DEF IInv, TypeOK, BoardTypeOK, serverVars
<1>2. \/ toClient = <<Header>> /\ toClient' = <<>>
      \/ /\ toClient = <<Header, reply>> /\ toClient' = <<reply>>
         /\ Right(reply, typed, board, loaded)
  <2>1. \/ toClient = <<Header>>
        \/ toClient = <<Header, reply>> /\ Right(reply, typed, board, loaded)
    BY DEF IInv, AnswersFit
  <2>2. Tail(<<Header>>) = <<>> /\ Tail(<<Header, reply>>) = <<reply>>
    OBVIOUS
  <2>. QED BY <2>1, <2>2
<1>3. ClientFits' /\ LinkFits'
    BY DEF IInv, ClientFits, LinkFits, serverVars
<1>4. StreamsFit'
  <2>1. CASE ServerGone \/ link = "none"
    BY <2>1 DEF StreamsFit, ServerGone, serverVars
  <2>2. CASE Idle
    BY <1>2, <2>2 DEF StreamsFit, Idle, serverVars
  <2>3. CASE Answering
    BY <1>2, <2>3 DEF StreamsFit, Answering, serverVars
  <2>. QED BY <2>1, <2>2, <2>3 DEF IInv, StreamsFit, Sending
<1>5. AnswersFit'
    BY <1>2 DEF AnswersFit, serverVars
<1>6. BodyDue' /\ BufferFits' /\ Kept' /\ ScreenFits'
  <2>1. BodyDue'
    BY <1>2 DEF IInv, BodyDue, serverVars
  <2>2. BufferFits' /\ ScreenFits'
    BY DEF IInv, BufferFits, ScreenFits, serverVars
  <2>3. Kept'
    BY <1>2 DEF IInv, Kept, serverVars
  <2>. QED BY <2>1, <2>2, <2>3
<1>. QED BY <1>1, <1>3, <1>4, <1>5, <1>6 DEF IInv, serverVars

LEMMA ReceiveBodyKeeps ==
    ASSUME IInv, ReceiveBody
    PROVE  IInv'
<1>. USE DEF ReceiveBody
<1>1. /\ toClient = <<reply>> /\ toClient' = <<>>
      /\ received' = reply /\ screen' = reply /\ answered' = [command |-> typed, board |-> board]
      /\ Right(reply, typed, board, loaded)
  <2>1. toClient = <<reply>> /\ Right(reply, typed, board, loaded)
    BY DEF IInv, AnswersFit
  <2>2. Head(<<reply>>) = reply /\ Tail(<<reply>>) = <<>>
    OBVIOUS
  <2>. QED BY <2>1, <2>2
<1>2. TypeOK'
  <2>1. IsAnswer(reply) /\ Whole(reply) = reply
    BY <1>1 DEF IInv, TypeOK, AnswersTypeOK, Right, Nothing, Whole
  <2>2. typed \in Commands /\ board \in Boards
    BY DEF IInv, ClientFits, TypeOK, BoardTypeOK
  <2>3. /\ received' = Blank \/ IsAnswer(Whole(received'))
        /\ screen' \in {Nothing, received'}
        /\ answered'.command \in Commands /\ answered'.board \in Boards
    BY <1>1, <2>1, <2>2
  <2>4. /\ client' = "prompt" /\ board' = board /\ server' = server /\ link' = link
        /\ loaded' = loaded /\ typed' = typed /\ unsent' = unsent /\ reply' = reply
    BY DEF serverVars
  <2>. QED BY <2>3, <2>4 DEF IInv, AnswersTypeOK, TypeOK, BoardTypeOK
<1>3. ClientFits' /\ LinkFits'
    BY <1>1 DEF IInv, ClientFits, LinkFits, serverVars
<1>4. StreamsFit'
  <2>1. CASE ServerGone \/ link = "none"
    BY <2>1 DEF StreamsFit, ServerGone, serverVars
  <2>2. CASE Idle
    BY <2>2 DEF StreamsFit, Idle, serverVars
  <2>. QED BY <2>1, <2>2 DEF IInv, StreamsFit, Sending, Answering
<1>5. AnswersFit'
    BY <1>1 DEF AnswersFit, serverVars
<1>6. BodyDue' /\ BufferFits' /\ Kept' /\ ScreenFits'
  <2>1. Whole(reply) = reply
    BY <1>1 DEF Right, Whole
  <2>. QED BY <1>1, <2>1 DEF BodyDue, BufferFits, Kept, ScreenFits, serverVars
<1>. QED BY <1>2, <1>3, <1>4, <1>5, <1>6 DEF IInv, serverVars

\* What an interrupted answer leaves on the screen was right before.
LEMMA AnswerCutKeeps ==
    ASSUME IInv, AnswerCut
    PROVE  IInv'
<1>. USE DEF AnswerCut
<1>1. received' = received \/ (received.part = "body" /\ \E n : received' = Beginning(received, n))
    OBVIOUS
<1>2. (received' = Blank <=> received = Blank) /\ Whole(received') = Whole(received)
    BY <1>1 DEF Whole, Beginning, Blank
<1>3. /\ client = "body" => screen' = received' /\ server = "killed" /\ got = typed
      /\ client # "body" => screen' = Nothing
  <2>1. client = "body" => server \in {"body", "killed"} /\ got = typed /\ typed # <<>>
    BY WholeCommand DEF IInv, BodyDue, ClientFits
  <2>2. client = "body" => server = "killed"
    BY <2>1 DEF IInv, LinkFits, ServerGone
  <2>. QED BY <2>1, <2>2
<1>4. TypeOK'
    BY <1>2, <1>3 DEF IInv, TypeOK, AnswersTypeOK, BoardTypeOK, serverVars, streams
<1>5. ClientFits'
    BY DEF IInv, ClientFits, serverVars, streams
<1>6. LinkFits'
  <2>1. link # "accepted" => client # "body" /\ received' = received
    BY <1>3, WholeCommand DEF IInv, LinkFits, ClientFits
  <2>. QED BY <1>3, <2>1 DEF IInv, LinkFits, serverVars, streams
<1>7. StreamsFit'
    BY DEF StreamsFit, ServerGone, serverVars
<1>8. AnswersFit' /\ BodyDue'
    BY DEF AnswersFit, BodyDue, streams
<1>9. BufferFits'
    BY <1>2 DEF IInv, BufferFits, serverVars
<1>10. Kept'
    BY DEF IInv, Kept, LinkFits, ServerGone, serverVars, streams
<1>11. ScreenFits'
  <2>1. CASE client = "body"
    BY <1>3, <2>1 DEF IInv, Kept, ScreenFits, serverVars
  <2>2. CASE client # "body"
    BY <1>3, <2>2 DEF ScreenFits
  <2>. QED BY <2>1, <2>2
<1>. QED BY <1>4, <1>5, <1>6, <1>7, <1>8, <1>9, <1>10, <1>11 DEF IInv, serverVars

-----------------------------------------------------------------------------
\* The server tells a put by its first byte, and so takes as many bytes as the
\* command has.
LEMMA ReceiveByteKeeps ==
    ASSUME IInv, ReceiveByte
    PROVE  IInv'
<1>. USE DEF ReceiveByte
<1>. DEFINE L == Len(typed)
<1>1. server' \in {"receive", "process"}
    OBVIOUS
<1>2. TypeOK'
    BY <1>1, AnswersTyped DEF IInv, TypeOK, BoardTypeOK, clientVars
<1>3. ClientFits' /\ LinkFits'
    BY <1>1 DEF IInv, ClientFits, LinkFits, clientVars
<1>4. StreamsFit'
  <2>1. Sending
    BY DEF IInv, StreamsFit, ServerGone, Idle, Answering
  <2>2. typed \in Commands /\ L \in {1, 4} /\ (typed[1] = P <=> L = 4)
    <3>1. typed \in Commands
      BY <2>1 DEF Sending
    <3>. QED BY <3>1, CommandLength
  <2>3. PICK g \in 0..4, s \in 0..4 : Underway(g, s)
    BY <2>1 DEF Sending
  <2>. HIDE DEF L
  <2>4. g <= s /\ s <= L /\ g < L
    BY <2>3 DEF Underway, L
  <2>5. /\ g < s /\ Head(toServer) = typed[g + 1]
        /\ Tail(toServer) = SubSeq(typed, (g + 1) + 1, s)
    <3>1. g + 1 \in Nat /\ s \in Nat /\ 1 <= g + 1 /\ s <= Len(typed)
      BY <2>4 DEF L
    <3>2. toServer = SubSeq(typed, g + 1, s) /\ toServer # <<>>
      BY <2>3 DEF Underway
    <3>3. g + 1 <= s /\ Head(toServer) = typed[g + 1]
          /\ Tail(toServer) = SubSeq(typed, (g + 1) + 1, s)
      BY <2>2, <3>1, <3>2, FirstOfStream
    <3>. QED BY <3>1, <3>3
  <2>6. got' = SubSeq(typed, 1, g + 1)
    <3>1. 1 \in Nat /\ g \in Nat /\ 1 <= 1 /\ g < Len(typed) /\ 1 <= g + 1
      BY <2>4 DEF L
    <3>. QED BY <2>2, <2>3, <2>5, <3>1, OneByteMore DEF Underway
  <2>7. Len(got') = g + 1 /\ got'[1] = typed[1]
    <3>1. typed \in Seq(Nat) /\ Len(typed) \in Nat
      BY <2>2, CommandShape
    <3>2. 1 \in Int /\ g + 1 \in Int /\ \A i \in 1..(g + 1) : typed[i] \in Nat
      BY <2>4, <3>1 DEF L
    <3>3. /\ Len(SubSeq(typed, 1, g + 1)) = (g + 1) - 1 + 1
          /\ \A i \in 1..((g + 1) - 1 + 1) : SubSeq(typed, 1, g + 1)[i] = typed[1 + i - 1]
      BY <3>2, SubSeqProperties
    <3>. QED BY <2>6, <3>3
  <2>8. CASE server' = "receive"
    <3>1. g + 1 < L
      BY <2>2, <2>4, <2>7, <2>8
    <3>2. g + 1 \in 0..4 /\ g + 1 <= s
      BY <2>4, <2>5
    <3>3. Underway(g + 1, s)'
      BY <2>3, <2>4, <2>5, <2>6, <3>1, <3>2 DEF Underway, L, clientVars
    <3>4. \E h, t \in 0..4 : Underway(h, t)'
      BY <3>2, <3>3
    <3>. QED BY <2>1, <2>8, <3>4 DEF StreamsFit, Sending, clientVars
  <2>9. CASE server' = "process"
    <3>1. g + 1 = L /\ s = L
      <4>1. typed[1] # P \/ g + 1 >= 4
        BY <2>7, <2>9
      <4>. QED BY <2>2, <2>4, <2>5, <4>1
    <3>2. got' = typed
      BY <2>2, <2>6, <3>1, WholeCommand DEF L
    <3>3. toServer' = <<>> /\ unsent = <<>>
      <4>1. toServer' = SubSeq(typed, L + 1, L) /\ unsent = SubSeq(typed, L + 1, L)
        BY <2>3, <2>5, <3>1 DEF Underway, L
      <4>2. L \in Nat
        BY <2>2
      <4>. QED BY <2>2, <4>1, <4>2, WholeCommand
    <3>4. client # "send"
      BY <3>3 DEF IInv, ClientFits
    <3>. QED BY <2>1, <2>2, <2>9, <3>2, <3>3, <3>4 DEF StreamsFit, Answering, Sending, clientVars
  <2>. QED BY <1>1, <2>8, <2>9
<1>5. AnswersFit'
    BY DEF IInv, AnswersFit, clientVars
<1>6. BodyDue' /\ BufferFits' /\ Kept' /\ ScreenFits'
    BY <1>1 DEF IInv, BodyDue, BufferFits, Kept, ScreenFits, ServerGone, clientVars
<1>. QED BY <1>2, <1>3, <1>4, <1>5, <1>6 DEF IInv

-----------------------------------------------------------------------------
\* Text is no drawing, and a drawing no text.
LEMMA BodyFacts ==
    ASSUME NEW text
    PROVE  Body(text).part = "body" /\ Body(text).text = text
           /\ (Body(text) = Body("OK") => text = "OK")
<1>1. Body(text).part = "body" /\ Body(text).text = text /\ Body("OK").text = "OK"
    BY DEF Body
<1>. QED BY <1>1

LEMMA BoardBodyFacts ==
    ASSUME NEW b, b \in Boards
    PROVE  /\ BoardBody(b).part = "body" /\ BoardBody(b).text = "board"
           /\ BoardBody(b) # Body("OK")
           /\ BoardBody(b).board = {d \in {<<Middle(i, j), Value(b, i, j)>> : i, j \in Coords} :
                                      d[2] # 0}
           /\ BoardBody(b).board \subseteq (Nat \X Digits)
<1>1. /\ BoardBody(b).part = "body" /\ BoardBody(b).text = "board"
      /\ BoardBody(b).board = Drawing(b)
    BY DEF BoardBody
<1>2. BoardBody(b) # Body("OK")
    BY <1>1, Body("OK").text = "OK", "board" # "OK" DEF Body
<1>3. ASSUME NEW i \in Coords, NEW j \in Coords
      PROVE  <<Middle(i, j), Value(b, i, j)>> \in Nat \X Digits
  <2>1. Value(b, i, j) \in Digits
    BY OffsetNat DEF Value, Boards
  <2>2. i \in Nat /\ j \in Nat /\ i >= 1 /\ j >= 1 /\ N \in Nat
    BY SizeNat DEF Coords
  <2>3. CharsPerLine \in Nat /\ 2 * i - 1 \in Nat /\ 4 * (j - 1) \in Nat
    BY <2>2 DEF CharsPerLine
  <2>4. CharsPerLine * (2 * i - 1) \in Nat
    BY <2>3
  <2>5. Middle(i, j) \in Nat
    BY <2>3, <2>4 DEF Middle
  <2>. QED BY <2>1, <2>5
<1>. QED BY <1>1, <1>2, <1>3, DrawnInBoxes

\* What each command leaves: the board is one, its status is none of a put that
\* was refused, and the answer is one and is right.
Processed(command, b, answer) ==
    /\ b \in Boards /\ b.status # "BOARD_NON_MODIFIABLE_VALUE"
    /\ IsAnswer(answer) /\ Right(answer, command, b, loaded)

LEMMA PutRight ==
    ASSUME board \in Boards, board.status # "BOARD_NON_MODIFIABLE_VALUE",
           got \in Commands, loaded = TRUE, ProcessPut
    PROVE  Processed(got, board', reply')
<1>. USE DEF ProcessPut
<1>1. got[1] = P /\ got[2] \in Coords /\ got[3] \in Coords /\ got[4] \in Digits /\ P # V /\ P # R
    BY CommandShape DEF P, V, R
<1>. DEFINE after == AfterPut(board, got[2], got[3], got[4])
<1>2. CASE OriginalValue(got[2], got[3]) # 0
  <2>1. after = [board EXCEPT !.status = "BOARD_NON_MODIFIABLE_VALUE"]
    BY <1>2 DEF AfterPut
  <2>2. after.status = "BOARD_NON_MODIFIABLE_VALUE"
    BY <2>1 DEF Boards
  <2>. HIDE DEF after
  <2>3. board' = [after EXCEPT !.status = "BOARD_OK"] /\ reply' = Body("fixed")
    BY <2>2 DEF after
  <2>4. board' \in Boards /\ board'.status = "BOARD_OK"
    BY <2>1, <2>3 DEF Boards, Statuses
  <2>5. IsAnswer(reply') /\ reply'.part = "body" /\ reply'.text = "fixed" /\ reply' # Body("OK")
    BY <2>3, BodyFacts DEF Texts, IsAnswer
  <2>6. Right(reply', got, board', loaded)
    BY <1>1, <1>2, <2>5 DEF Right, Answers
  <2>. QED BY <2>4, <2>5, <2>6 DEF Processed
<1>3. CASE OriginalValue(got[2], got[3]) = 0
  <2>1. after = [board EXCEPT !.board[Offset(got[2], got[3])] = got[4]]
    BY <1>3 DEF AfterPut, ValueSet
  <2>2. after.status = board.status
    BY <2>1 DEF Boards
  <2>. HIDE DEF after
  <2>3. board' = after /\ reply' = BoardBody(after)
    BY <2>2 DEF after
  <2>4. Offset(got[2], got[3]) \in Offsets
    BY <1>1, OffsetNat
  <2>5. board' \in Boards /\ Value(board', got[2], got[3]) = got[4]
    BY <1>1, <2>1, <2>3, <2>4 DEF Boards, Value
  <2>6. /\ reply'.part = "body" /\ reply'.text = "board" /\ reply' # Body("OK")
        /\ reply'.board = {d \in {<<Middle(i, j), Value(board', i, j)>> : i, j \in Coords} :
                              d[2] # 0}
        /\ IsAnswer(reply')
    BY <2>3, <2>5, BoardBodyFacts DEF IsAnswer
  <2>7. Right(reply', got, board', loaded)
    BY <1>1, <1>3, <2>5, <2>6 DEF Right, Answers
  <2>. QED BY <2>2, <2>3, <2>5, <2>6, <2>7 DEF Processed
<1>. QED BY <1>1, <1>2, <1>3

LEMMA VerifyRight ==
    ASSUME board \in Boards, board.status # "BOARD_NON_MODIFIABLE_VALUE",
           got \in Commands, loaded = TRUE, ProcessVerify
    PROVE  Processed(got, board', reply')
<1>. USE DEF ProcessVerify
<1>1. got[1] = V /\ V # P /\ V # R
    BY DEF P, V, R
<1>2. board' = AfterVerify(board)
    BY DEF Verify
<1>3. /\ board' \in Boards /\ board'.status # "BOARD_NON_MODIFIABLE_VALUE"
      /\ board'.status # "BOARD_INVALID" => ~Conflict(board')
  <2>1. CASE RowVerify(board) \/ ColVerify(board) \/ CellVerify(board)
    BY <1>2, <2>1 DEF AfterVerify, Boards, Statuses
  <2>2. CASE ~(RowVerify(board) \/ ColVerify(board) \/ CellVerify(board))
    BY <1>2, <2>2, ChecksExact DEF AfterVerify
  <2>. QED BY <2>1, <2>2
<1>4. CASE board'.status = "BOARD_INVALID"
  <2>1. IsAnswer(reply') /\ reply'.part = "body" /\ reply'.text = "ERROR" /\ reply' # Body("OK")
    BY <1>4, BodyFacts DEF Texts, IsAnswer
  <2>2. Right(reply', got, board', loaded)
    BY <1>1, <2>1 DEF Right, Answers
  <2>. QED BY <1>3, <2>1, <2>2 DEF Processed
<1>5. CASE board'.status # "BOARD_INVALID"
  <2>1. IsAnswer(reply') /\ reply'.part = "body" /\ reply'.text = "OK"
    BY <1>5, BodyFacts DEF Texts, IsAnswer
  <2>2. Right(reply', got, board', loaded)
    BY <1>1, <1>3, <1>5, <2>1 DEF Right, Answers
  <2>. QED BY <1>3, <2>1, <2>2 DEF Processed
<1>. QED BY <1>4, <1>5

LEMMA ResetRight ==
    ASSUME board \in Boards, got \in Commands, loaded = TRUE, ProcessReset
    PROVE  Processed(got, board', reply')
<1>1. got[1] = R /\ R # P /\ R # V /\ board' = OriginalBoard /\ reply' = BoardBody(board')
    BY DEF ProcessReset, Reset, P, V, R
<1>2. board' \in Boards /\ board'.status = "BOARD_OK" /\ board'.board = Original
    BY <1>1, OriginalAssumption DEF OriginalBoard, Boards, Statuses
<1>3. /\ reply'.part = "body" /\ reply'.text = "board" /\ reply' # Body("OK")
      /\ reply'.board = {d \in {<<Middle(i, j), Value(board', i, j)>> : i, j \in Coords} :
                            d[2] # 0}
      /\ IsAnswer(reply')
    BY <1>1, <1>2, BoardBodyFacts DEF IsAnswer
<1>4. Right(reply', got, board', loaded)
    BY <1>1, <1>2, <1>3 DEF Right, Answers
<1>. QED BY <1>2, <1>3, <1>4 DEF Processed

LEMMA GetRight ==
    ASSUME board \in Boards, board.status # "BOARD_NON_MODIFIABLE_VALUE",
           got \in Commands, loaded = TRUE, ProcessGet
    PROVE  Processed(got, board', reply')
<1>1. got[1] = G /\ G # P /\ G # V /\ G # R /\ board' = board /\ reply' = BoardBody(board')
    BY DEF ProcessGet, P, V, R, G
<1>2. /\ reply'.part = "body" /\ reply'.text = "board" /\ reply' # Body("OK")
      /\ reply'.board = {d \in {<<Middle(i, j), Value(board', i, j)>> : i, j \in Coords} :
                            d[2] # 0}
      /\ IsAnswer(reply')
    BY <1>1, BoardBodyFacts DEF IsAnswer
<1>3. Right(reply', got, board', loaded)
    BY <1>1, <1>2 DEF Right, Answers
<1>. QED BY <1>1, <1>2, <1>3 DEF Processed

LEMMA UnreadRight ==
    ASSUME board \in Boards, board.status # "BOARD_NON_MODIFIABLE_VALUE",
           got \in Commands, loaded = FALSE, ProcessUnread
    PROVE  Processed(got, board', reply')
<1>1. board' = board
    BY DEF ProcessUnread
<1>2. P # V /\ P # R /\ P # G /\ V # R /\ V # G /\ R # G
    BY DEF P, V, R, G
<1>3. PICK text \in {"fixed", "OK", "ERROR", "cut"} :
          /\ reply' = Body(text)
          /\ got[1] = V <=> text \in {"OK", "ERROR"}
          /\ got[1] = P <=> text = "fixed"
  <2>1. CASE got[1] = P
    BY <1>2, <2>1 DEF ProcessUnread
  <2>2. CASE got[1] = V
    BY <1>2, <2>2 DEF ProcessUnread
  <2>3. CASE got[1] # P /\ got[1] # V
    BY <1>2, <2>3 DEF ProcessUnread
  <2>. QED BY <2>1, <2>2, <2>3
<1>4. IsAnswer(reply') /\ reply'.part = "body" /\ reply'.text = text
    BY <1>3, BodyFacts DEF Texts, IsAnswer
<1>5. Right(reply', got, board', loaded)
    BY <1>3, <1>4 DEF Right, Answers
<1>. QED BY <1>1, <1>4, <1>5 DEF Processed

\* A verification changes the status alone, and a get nothing.
LEMMA BoardKept ==
    ASSUME board \in Boards, Process
    PROVE  got[1] \in {P, R} \/ board'.board = board.board
BY DEF Process, ProcessPut, ProcessVerify, Verify, AfterVerify, ProcessReset, ProcessGet,
       ProcessUnread, Boards

LEMMA ProcessKeeps ==
    ASSUME IInv, Process
    PROVE  IInv'
<1>. USE DEF Process
<1>1. Answering
    BY DEF IInv, StreamsFit, LinkFits, ServerGone, Idle, Sending
<1>2. got = typed /\ got \in Commands /\ board \in Boards /\ loaded \in BOOLEAN
    BY <1>1 DEF IInv, Answering, TypeOK, BoardTypeOK
<1>3. Processed(typed, board', reply')
    BY <1>2, PutRight, VerifyRight, ResetRight, GetRight, UnreadRight DEF IInv
<1>4. TypeOK'
    BY <1>3 DEF IInv, TypeOK, AnswersTypeOK, BoardTypeOK, clientVars, Processed
<1>5. ClientFits' /\ LinkFits'
    BY DEF IInv, ClientFits, LinkFits, clientVars, streams
<1>6. StreamsFit'
    BY <1>1, <1>3 DEF StreamsFit, Answering, Processed, clientVars, streams
<1>7. AnswersFit'
    BY <1>1 DEF AnswersFit, Answering, clientVars, streams
<1>8. BodyDue' /\ BufferFits' /\ ScreenFits'
    BY <1>1 DEF IInv, BodyDue, BufferFits, ScreenFits, Answering, clientVars, streams
<1>9. Kept'
  <2>1. typed[1] \in {P, R} \/ board'.board = board.board
    BY <1>2, BoardKept
  <2>. QED BY <1>1, <2>1 DEF IInv, Kept, Answering, ServerGone, clientVars, streams
<1>. QED BY <1>3, <1>4, <1>5, <1>6, <1>7, <1>8, <1>9 DEF IInv, Processed

LEMMA SendHeaderKeeps ==
    ASSUME IInv, SendHeader
    PROVE  IInv'
<1>. USE DEF SendHeader, SendPart
<1>1. Answering /\ server = "header" /\ got' = got
    BY DEF IInv, StreamsFit, LinkFits, ServerGone, Idle, Sending
<1>2. server' \in {"body", "killed"} /\ (server' = "killed" => ClientGone)
    OBVIOUS
<1>3. client = "header" => toClient' = <<Header>>
    BY <1>1 DEF Answering, ClientGone
<1>4. client \in {"header", "ended", "failed", "killed"}
    BY <1>1 DEF Answering, IInv, TypeOK
<1>5. TypeOK'
    BY <1>1, <1>2, AnswersTyped DEF IInv, TypeOK, BoardTypeOK, clientVars
<1>6. ClientFits' /\ LinkFits'
    BY <1>1, <1>2 DEF IInv, ClientFits, LinkFits, clientVars
<1>7. StreamsFit'
  <2>1. CASE server' = "killed"
    BY <2>1 DEF StreamsFit, ServerGone
  <2>2. CASE server' = "body"
    BY <1>1, <1>3, <1>4, <2>2 DEF StreamsFit, Answering, clientVars
  <2>. QED BY <1>2, <2>1, <2>2
<1>8. AnswersFit'
    BY <1>3, <1>4 DEF AnswersFit, clientVars
<1>9. BodyDue' /\ BufferFits' /\ Kept' /\ ScreenFits'
    BY <1>1, <1>2, <1>4 DEF IInv, BodyDue, BufferFits, Kept, ScreenFits, ServerGone, Answering,
                            clientVars
<1>. QED BY <1>5, <1>6, <1>7, <1>8, <1>9 DEF IInv

LEMMA SendBodyKeeps ==
    ASSUME IInv, SendBody
    PROVE  IInv'
<1>. USE DEF SendBody, SendPart
<1>1. Answering /\ server = "body" /\ got' = <<>> /\ link = "accepted"
    BY DEF IInv, StreamsFit, LinkFits, ServerGone, Idle, Sending
<1>2. server' \in {"receive", "killed"}
    OBVIOUS
<1>3. /\ client = "header" => toClient' = <<Header, reply>>
      /\ client = "body" => toClient' = <<reply>>
  <2>1. Append(<<Header>>, reply) = <<Header, reply>> /\ Append(<<>>, reply) = <<reply>>
    BY AppendToShort
  <2>2. /\ client = "header" => toClient = <<Header>>
        /\ client = "body" => toClient = <<>>
        /\ client \in {"header", "body"} => toClient' = Append(toClient, reply)
    BY <1>1 DEF Answering, ClientGone
  <2>. QED BY <2>1, <2>2
<1>4. client \in {"header", "body", "ended", "failed", "killed"}
    BY <1>1 DEF Answering, IInv, TypeOK
<1>5. TypeOK'
    BY <1>2, AnswersTyped DEF IInv, TypeOK, BoardTypeOK, clientVars
<1>6. ClientFits' /\ LinkFits'
    BY <1>1, <1>2 DEF IInv, ClientFits, LinkFits, clientVars
<1>7. StreamsFit'
  <2>1. CASE server' = "killed"
    BY <2>1 DEF StreamsFit, ServerGone
  <2>2. CASE server' = "receive"
    BY <1>1, <1>3, <1>4, <2>2 DEF StreamsFit, Idle, Answering, clientVars
  <2>. QED BY <1>2, <2>1, <2>2
<1>8. AnswersFit'
    BY <1>1, <1>3, <1>4 DEF AnswersFit, Answering, clientVars
<1>9. BodyDue'
  <2>1. reply.part = "body" /\ Header.part = "header"
    BY <1>1 DEF Answering, Right, Header
  <2>2. <<Header, reply>> # <<Header>> /\ <<reply>> # <<>>
    OBVIOUS
  <2>. QED BY <1>3, <2>2 DEF BodyDue, clientVars
<1>10. BufferFits' /\ Kept' /\ ScreenFits'
    BY <1>1, <1>3, <1>4 DEF IInv, BufferFits, Kept, ScreenFits, ServerGone, clientVars
<1>. QED BY <1>5, <1>6, <1>7, <1>8, <1>9, <1>10 DEF IInv

-----------------------------------------------------------------------------
LEMMA InitFits == Init => IInv
<1>. SUFFICES ASSUME Init PROVE IInv
    OBVIOUS
<1>. USE DEF Init
<1>1. TypeOK
  <2>1. BoardTypeOK
    BY OriginalAssumption DEF BoardInit, OriginalBoard, BoardTypeOK, Boards, Statuses
  <2>2. \E sent \in 0..4 : unsent = SubSeq(typed, sent + 1, Len(typed))
    <3>1. Len(<<>>) = 0 /\ SubSeq(<<>>, 1, 0) = <<>>
      BY SubSeqEmpty
    <3>. QED BY <3>1
  <2>3. answered.board \in Boards
    BY <2>1 DEF BoardTypeOK
  <2>. QED BY <2>1, <2>2, <2>3 DEF TypeOK, AnswersTypeOK
<1>2. board.status # "BOARD_NON_MODIFIABLE_VALUE"
    BY DEF BoardInit, OriginalBoard
<1>3. ClientFits /\ LinkFits /\ StreamsFit /\ AnswersFit
    BY DEF ClientFits, LinkFits, StreamsFit, AnswersFit
<1>4. BodyDue /\ BufferFits /\ Kept /\ ScreenFits
    BY DEF BodyDue, BufferFits, Kept, ScreenFits
<1>. QED BY <1>1, <1>2, <1>3, <1>4 DEF IInv

LEMMA StepFits == IInv /\ [Next]_vars => IInv'
<1>. SUFFICES ASSUME IInv, [Next]_vars PROVE IInv'
    OBVIOUS
<1>1. CASE Connect \/ ConnectFails
    BY <1>1, ClientSetUp
<1>2. CASE Create \/ CreateFails \/ Accept \/ AcceptFails
    BY <1>2, ServerSetUp
<1>3. CASE Type
    BY <1>3, TypeKeeps
<1>4. CASE Leave \/ ClientKilled
    BY <1>4, ClientStops DEF Leave, ClientKilled
<1>5. CASE EndOfStream \/ ServerKilled
    BY <1>5, ServerStops DEF EndOfStream, ServerKilled, Clientless
<1>6. CASE SendByte
    BY <1>6, SendByteKeeps
<1>7. CASE ReceiveHeader
    BY <1>7, ReceiveHeaderKeeps
<1>8. CASE ReceiveBody
    BY <1>8, ReceiveBodyKeeps
<1>9. CASE AnswerCut
    BY <1>9, AnswerCutKeeps
<1>10. CASE ReceiveByte
    BY <1>10, ReceiveByteKeeps
<1>11. CASE Process
    BY <1>11, ProcessKeeps
<1>12. CASE SendHeader
    BY <1>12, SendHeaderKeeps
<1>13. CASE SendBody
    BY <1>13, SendBodyKeeps
<1>14. CASE UNCHANGED vars
  <2>. USE <1>14 DEF vars, clientVars, serverVars, streams
  <2>1. TypeOK'
    <3>1. /\ client' = client /\ board' = board /\ server' = server /\ link' = link
          /\ loaded' = loaded /\ typed' = typed /\ unsent' = unsent /\ reply' = reply
          /\ received' = received /\ screen' = screen /\ answered' = answered
      OBVIOUS
    <3>. QED BY <3>1, AnswersTyped DEF IInv, TypeOK, BoardTypeOK
  <2>2. ClientFits' /\ LinkFits' /\ AnswersFit'
    BY DEF IInv, ClientFits, LinkFits, AnswersFit
  <2>3. StreamsFit'
    BY DEF IInv, StreamsFit, ServerGone, Idle, Sending, Underway, Answering
  <2>4. BodyDue' /\ BufferFits' /\ Kept' /\ ScreenFits'
    BY DEF IInv, BodyDue, BufferFits, Kept, ScreenFits, ServerGone
  <2>. QED BY <2>1, <2>2, <2>3, <2>4 DEF IInv
<1>. QED BY <1>1, <1>2, <1>3, <1>4, <1>5, <1>6, <1>7, <1>8, <1>9, <1>10, <1>11, <1>12,
            <1>13, <1>14 DEF Next, ClientStep, ServerStep

LEMMA GameInvariant == Spec => []IInv
BY InitFits, StepFits, PTL DEF Spec

-----------------------------------------------------------------------------
\* The client and the server stay in step byte by byte, whoever is killed and
\* whatever fails: every buffer holds a part of one command or of one answer.
THEOREM GameTyped == Spec => []TypeOK
BY GameInvariant, PTL DEF IInv

\* What the player reads at a prompt is the answer to the command typed last
\* and shows the board as the server has it; or the server was killed within
\* that answer, and it is what the buffer kept of the answer before, which was
\* right for the command and the board it answered (sudoku_play,
\* protocol_receive_string, server_process_command).
THEOREM GameAnswers == Spec => []AnswersInStep
<1>1. IInv => AnswersInStep
  <2>. SUFFICES ASSUME IInv, client = "prompt", screen # Nothing PROVE AnswersInStep
    BY DEF AnswersInStep
  <2>1. CASE Right(screen, typed, board, loaded)
    BY <2>1 DEF Right, AnswersInStep
  <2>2. CASE screen = received /\ server = "killed" /\ got = typed
    <3>1. CASE Right(Whole(received), answered.command, answered.board, loaded)
      <4>1. received # Blank
        BY <3>1 DEF Right, Whole, Blank
      <4>. QED BY <2>2, <3>1, <4>1 DEF Right, AnswersInStep, Unanswered
    <3>. QED BY <2>2, <3>1 DEF IInv, BufferFits, AnswersInStep, Unanswered
  <2>. QED BY <2>1, <2>2 DEF IInv, ScreenFits
<1>. QED BY <1>1, GameInvariant, PTL

\* Whether a board breaks a rule does not depend on its status.
LEMMA ConflictOfDigits ==
    ASSUME NEW b, NEW c, b.board = c.board
    PROVE  Conflict(b) <=> Conflict(c)
BY DEF Conflict, Value

\* "OK" on the screen is true of the board of the server, whatever was played
\* and verified before; where it is what the buffer kept, it is true of the
\* board before the put or reset that was not answered (board_verify,
\* server_process_command, protocol_receive_string).
THEOREM GameOk == Spec => []OkTrue
<1>1. IInv => OkTrue
  <2>. SUFFICES ASSUME IInv, client = "prompt", screen = Body("OK") PROVE OkTrue
    BY DEF OkTrue
  <2>1. CASE Right(screen, typed, board, loaded)
    BY <2>1 DEF Right, OkTrue
  <2>2. CASE /\ screen = received /\ server = "killed" /\ got = typed
             /\ typed[1] \notin {P, R} => board.board = answered.board.board
    <3>1. screen.part = "body" /\ screen # Blank /\ Whole(screen) = screen
      BY BodyFacts DEF Whole, Blank
    <3>2. ~loaded \/ ~Conflict(answered.board)
      BY <2>2, <3>1 DEF IInv, BufferFits, Right
    <3>. QED BY <2>2, <3>2, ConflictOfDigits DEF OkTrue, Unanswered
  <2>3. screen # Nothing
    BY BodyFacts DEF Nothing
  <2>. QED BY <2>1, <2>2, <2>3 DEF IInv, ScreenFits
<1>. QED BY <1>1, GameInvariant, PTL

\* Only a whole command that was typed changes the board, and changes what it
\* names (protocol_receive_command, server_process_command).
THEOREM GameOnlyAsTyped == Spec => OnlyAsTyped
<1>. DEFINE Changed(o) == board'.board[o] # board.board[o]
            Cause(o) == \/ typed = <<R>>
                        \/ /\ typed[1] = P
                           /\ o = Offset(typed[2], typed[3])
                           /\ board'.board[o] = typed[4]
<1>1. IInv /\ [Next]_vars => [\A o \in Offsets : Changed(o) => Cause(o)]_vars
  <2>. SUFFICES ASSUME IInv, Next, NEW o \in Offsets, Changed(o) PROVE Cause(o)
    OBVIOUS
  <2>1. Process
    BY DEF Next, ClientStep, ServerStep, Connect, ConnectFails, AcceptFails, Type, Leave,
           ClientKilled, ServerKilled, SendByte, ReceiveHeader, ReceiveBody, AnswerCut,
           Create, CreateFails, Accept, ReceiveByte, EndOfStream, SendHeader, SendBody,
           SendPart, serverVars
  <2>2. got = typed /\ typed \in Commands /\ board \in Boards
    BY <2>1 DEF IInv, StreamsFit, LinkFits, ServerGone, Idle, Sending, Answering, Process,
                TypeOK, BoardTypeOK
  <2>3. CASE ProcessPut
    <3>1. typed[1] = P /\ typed[2] \in Coords /\ typed[3] \in Coords /\ typed[4] \in Digits
      BY <2>2, <2>3, CommandShape DEF ProcessPut
    <3>2. board'.board = AfterPut(board, typed[2], typed[3], typed[4]).board
      <4>1. AfterPut(board, typed[2], typed[3], typed[4]) \in Boards
        BY <2>2, <3>1, OffsetNat DEF AfterPut, ValueSet, Boards, Statuses
      <4>. QED BY <2>2, <2>3, <4>1 DEF ProcessPut, Boards
    <3>. QED BY <2>2, <3>1, <3>2, OffsetNat DEF AfterPut, ValueSet, Boards
  <2>4. CASE ProcessVerify
    BY <2>2, <2>4 DEF ProcessVerify, Verify, AfterVerify, Boards
  <2>5. CASE ProcessReset
    BY <2>2, <2>5, CommandShape DEF ProcessReset
  <2>6. CASE ProcessGet \/ ProcessUnread
    BY <2>6 DEF ProcessGet, ProcessUnread
  <2>. QED BY <2>1, <2>3, <2>4, <2>5, <2>6 DEF Process
<1>. QED BY <1>1, GameInvariant, PTL DEF Spec, OnlyAsTyped
=============================================================================
