----------------------------- MODULE SudokuGame -----------------------------
(***************************************************************************)
(* One game of sudoku: the client of tp1 (sudoku_play), the server         *)
(* (sudoku_run_server) and the two byte streams between them, from the set *)
(* up of the connection, whose failures neither program stops at.  A       *)
(* command is sent byte by byte and an answer as a header and a body;      *)
(* either process may be killed between any two of these steps.  A client  *)
(* whose answer is cut prints what its buffer held before, so the buffer   *)
(* is kept, and in `answered` what it answers.                             *)
(***************************************************************************)
EXTENDS SudokuBoard

CONSTANT Puts   \* the puts that the player may type, as <<row, column, value>>

ASSUME PutsAssumption == Puts \subseteq (Coords \X Coords \X Digits)

VARIABLES client,     \* where the client is
          typed,      \* the bytes of the last command that was typed
          unsent,     \* the bytes of it that are still to be sent
          toServer,   \* bytes on their way to the server
          server,     \* where the server is
          link,       \* the connection: none, in the backlog, or accepted
          loaded,     \* whether the server found the file of the board
          got,        \* the bytes of a command that the server has received
          reply,      \* the string that the server is sending
          toClient,   \* headers and bodies on their way to the client
          received,   \* the client's buffer, which one answer leaves to the next
          screen,     \* what the last command made the client print
          answered    \* history: the command answered last, and the board then

streams == <<toServer, toClient>>
printed == <<received, screen, answered>>
clientVars == <<client, typed, unsent, printed>>
serverVars == <<server, loaded, got, reply, board>>
vars == <<clientVars, serverVars, streams, link>>

\* The characters of the commands on the wire.
P == 80
V == 86
R == 82
G == 71

\* What protocol_send_command sends: the parameters follow a put only.
Commands == {<<P>> \o p : p \in Puts} \cup {<<V>>, <<R>>, <<G>>}

ClientGone == client \in {"ended", "failed", "killed"}
ServerGone == server \in {"ended", "killed"}

\* The server receives from a descriptor that is no connection.
Clientless == server = "deaf" \/ (server = "receive" /\ link # "accepted")

CharsPerLine == 4 * N + 2

\* Mutant of Advance: the step to the next row forgets the edge of the frame.
AdvanceEdge(place, j) == IF j = N THEN place + CharsPerLine + 4 ELSE place + 4

\* From the place of a digit in column j to that of the next: the loop of
\* server_send_board skips the line that separates two rows.
Advance(place, j) == IF j = N THEN place + 2 + CharsPerLine + 4 ELSE place + 4

\* Where the n-th digit is written into the frame.
DrawnAt ==
    LET at[n \in 1..N * N] ==
            IF n = 1 THEN CharsPerLine + 2 ELSE Advance(at[n - 1], ((n - 2) % N) + 1)
    IN at

\* The digits of a board and the places of the frame that they are written to.
Drawing(b) ==
    {d \in {<<DrawnAt[N * (i - 1) + j], Value(b, i, j)>> : i, j \in Coords} : d[2] # 0}

Header == [part |-> "header"]
Body(text) == [part |-> "body", text |-> text]
BoardBody(b) == [part |-> "body", text |-> "board", board |-> Drawing(b)]
Nothing == [part |-> "nothing"]
Blank == [part |-> "blank"]
Beginning(answer, n) == [part |-> "beginning", of |-> answer, chars |-> n]
Whole(answer) == IF answer.part = "beginning" THEN answer.of ELSE answer

\* strlen of an answer, its newline included: the number in the header.
Length(answer) ==
    CASE answer.text = "OK" -> 3
      [] answer.text = "ERROR" -> 6
      [] answer.text = "fixed" -> 36
      [] answer.text = "cut" -> CharsPerLine + 2
      [] answer.text = "board" -> CharsPerLine * (2 * N + 1)

-----------------------------------------------------------------------------
Init ==
    /\ BoardInit
    /\ client = "connect" /\ typed = <<>> /\ unsent = <<>>
    /\ received = Blank /\ screen = Nothing
    /\ answered = [command |-> <<>>, board |-> board]
    /\ server = "create" /\ loaded = FALSE /\ got = <<>> /\ reply = Nothing
    /\ link = "none"
    /\ toServer = <<>> /\ toClient = <<>>

\* skt_create with its bind and listen.
Create ==
    /\ server = "create"
    /\ server' = "listen"
    /\ UNCHANGED <<clientVars, loaded, got, reply, board, streams, link>>

\* An address that is not resolved is followed all the same, and one that is
\* not bound is freed twice, so that the process may end; without listen the
\* descriptor is closed and the accept that follows fails unnoticed.
CreateFails ==
    /\ server = "create"
    /\ server' \in {"killed", "deaf"}
    /\ UNCHANGED <<clientVars, loaded, got, reply, board, streams, link>>

\* server_wait_user, and board_read: without its file the board is all zero
\* bytes, which BOARD_OK covers; `board` then stands for nothing.
Accept ==
    /\ server = "listen" /\ link = "queued"
    /\ server' = "receive" /\ link' = "accepted"
    /\ loaded' \in BOOLEAN
    /\ UNCHANGED <<clientVars, got, reply, board, streams>>

\* skt_accept calls itself connected whatever accept returns.
AcceptFails ==
    /\ server = "listen"
    /\ server' = "receive"
    /\ loaded' \in BOOLEAN
    /\ UNCHANGED <<clientVars, got, reply, board, streams, link>>

\* The server listens until it ends, also after an accept that failed.
Connect ==
    /\ client = "connect" /\ server \in {"listen", "receive"}
    /\ client' = "prompt" /\ link' = "queued"
    /\ UNCHANGED <<typed, unsent, printed, serverVars, streams>>

\* skt_connect follows an address that was not resolved; otherwise the status
\* of the client keeps what its memory held, which may be CLIENT_CONNECTED.
ConnectFails ==
    /\ client = "connect"
    /\ client' \in {"killed", "failed", "prompt"}
    /\ UNCHANGED <<typed, unsent, printed, serverVars, streams, link>>

\* A valid line was read: input that the checks refuse asks for another line,
\* and what it leaves in row and value the next put overwrites.
Type ==
    /\ client = "prompt"
    /\ \E command \in Commands : typed' = command /\ unsent' = command
    /\ client' = "send"
    /\ UNCHANGED <<printed, serverVars, streams, link>>

\* One skt_send of the client.  Without a connection, or to a server that is
\* gone, the byte is lost; the latter may end the client by SIGPIPE.
SendByte ==
    /\ client = "send"
    /\ unsent' = Tail(unsent)
    /\ \/ client' = IF Len(unsent) = 1 THEN "header" ELSE "send"
       \/ ServerGone /\ link # "none" /\ client' = "killed"
    /\ toServer' = IF ServerGone \/ link = "none" THEN toServer
                   ELSE Append(toServer, Head(unsent))
    /\ UNCHANGED <<typed, printed, serverVars, toClient, link>>

\* protocol_receive_string, first the length and then as many bytes.
ReceiveHeader ==
    /\ client = "header" /\ toClient # <<>>
    /\ client' = "body"
    /\ toClient' = Tail(toClient)
    /\ UNCHANGED <<typed, unsent, printed, serverVars, toServer, link>>

ReceiveBody ==
    /\ client = "body" /\ toClient # <<>>
    /\ client' = "prompt"
    /\ received' = Head(toClient) /\ screen' = received'
    /\ answered' = [command |-> typed, board |-> board]
    /\ toClient' = Tail(toClient)
    /\ UNCHANGED <<typed, unsent, serverVars, toServer, link>>

\* Mutant of AnswerCut: the receive of the body waits for ever.
AnswerCutHeader ==
    /\ client = "header" /\ toClient = <<>>
    /\ ServerGone \/ link = "none"
    /\ client' = "prompt" /\ screen' = Nothing
    /\ UNCHANGED <<typed, unsent, received, answered, serverVars, streams, link>>

\* Mutant of AnswerCut: the client prints the buffer without a length as well.
AnswerCutStale ==
    /\ client \in {"header", "body"} /\ toClient = <<>>
    /\ ServerGone \/ link = "none"
    /\ client' = "prompt" /\ screen' = received
    /\ UNCHANGED <<typed, unsent, received, answered, serverVars, streams, link>>

\* No length reads as zero and prints nothing.  After a length, which is that
\* of the reply that was being sent, the client ends its buffer there and
\* prints it: the last answer, of an earlier command, or a beginning of it.
\* Either way it asks for another command.
AnswerCut ==
    /\ client \in {"header", "body"} /\ toClient = <<>>
    /\ ServerGone \/ link = "none"
    /\ client' = "prompt"
    /\ received' = IF client = "body" /\ received.part = "body" /\ Length(reply) < Length(received)
                   THEN Beginning(received, Length(reply) - 1) ELSE received
    /\ screen' = IF client = "body" THEN received' ELSE Nothing
    /\ UNCHANGED <<typed, unsent, answered, serverVars, streams, link>>

\* "exit" or the end of the input: the client closes without a word.
Leave ==
    /\ client = "prompt"
    /\ client' = "ended"
    /\ UNCHANGED <<typed, unsent, printed, serverVars, streams, link>>

\* Also by strtok's null pointer, when the input ends within a put, or by a
\* line that is longer than its buffer.
ClientKilled ==
    /\ ~ClientGone
    /\ client' = "killed"
    /\ UNCHANGED <<typed, unsent, printed, serverVars, streams, link>>

-----------------------------------------------------------------------------
\* One skt_receive of protocol_receive_command.
ReceiveByte ==
    /\ server = "receive" /\ link = "accepted" /\ toServer # <<>>
    /\ got' = Append(got, Head(toServer))
    /\ toServer' = Tail(toServer)
    /\ server' = IF got'[1] = P /\ Len(got') < 4 THEN "receive" ELSE "process"
    /\ UNCHANGED <<clientVars, loaded, reply, board, toClient, link>>

\* Mutant of EndOfStream: only the receive of a command's first byte notices.
EndBetweenCommands ==
    /\ \/ Clientless
       \/ server = "receive" /\ toServer = <<>> /\ ClientGone /\ got = <<>>
    /\ server' = "ended"
    /\ UNCHANGED <<clientVars, loaded, got, reply, board, streams, link>>

\* After the end of the stream, or without a client, the receives that are
\* left fail as well, and the status of the last one ends the loop: half a put
\* is never applied.
EndOfStream ==
    /\ \/ Clientless
       \/ server = "receive" /\ toServer = <<>> /\ ClientGone
    /\ server' = "ended"
    /\ UNCHANGED <<clientVars, loaded, got, reply, board, streams, link>>

\* Mutant of ProcessPut: the status of a refused put is kept.
ProcessPutKeeping ==
    /\ got[1] = P
    /\ board' = AfterPut(board, got[2], got[3], got[4])
    /\ reply' = IF board'.status = "BOARD_NON_MODIFIABLE_VALUE"
                THEN Body("fixed") ELSE BoardBody(board')

\* Mutant of ProcessPut: row and column are swapped.
ProcessPutSwapped ==
    /\ got[1] = P
    /\ board' = [AfterPut(board, got[3], got[2], got[4]) EXCEPT !.status = board.status]
    /\ reply' = BoardBody(board')

ProcessPut ==
    /\ got[1] = P
    /\ LET after == AfterPut(board, got[2], got[3], got[4])
       IN IF after.status = "BOARD_NON_MODIFIABLE_VALUE"
          THEN /\ board' = [after EXCEPT !.status = "BOARD_OK"]
               /\ reply' = Body("fixed")
          ELSE board' = after /\ reply' = BoardBody(after)

ProcessVerify ==
    /\ got[1] = V
    /\ Verify
    /\ reply' = Body(IF board'.status = "BOARD_INVALID" THEN "ERROR" ELSE "OK")

ProcessReset == got[1] = R /\ Reset /\ reply' = BoardBody(board')

ProcessGet == got[1] = G /\ reply' = BoardBody(board) /\ UNCHANGED board

\* Without the file: no byte is the blank '0', so that every cell is given,
\* the check shifts by more bits than a number has, and the board that is sent
\* stops at its first zero byte.
ProcessUnread ==
    /\ reply' \in CASE got[1] = P -> {Body("fixed")}
                    [] got[1] = V -> {Body("OK"), Body("ERROR")}
                    [] OTHER -> {Body("cut")}
    /\ UNCHANGED board

\* server_process_command, up to the sending of its answer.
Process ==
    /\ server = "process"
    /\ IF loaded THEN ProcessPut \/ ProcessVerify \/ ProcessReset \/ ProcessGet
       ELSE ProcessUnread
    /\ server' = "header"
    /\ UNCHANGED <<clientVars, loaded, got, streams, link>>

\* One skt_send of protocol_send_string.
SendPart(from, part, to) ==
    /\ server = from
    /\ \/ server' = to
       \/ ClientGone /\ server' = "killed"
    /\ toClient' = IF ClientGone THEN toClient ELSE Append(toClient, part)
    /\ got' = IF from = "body" THEN <<>> ELSE got
    /\ UNCHANGED <<clientVars, loaded, reply, board, toServer, link>>

SendHeader == SendPart("header", Header, "body")
SendBody == SendPart("body", reply, "receive")

ServerKilled ==
    /\ ~ServerGone
    /\ server' = "killed"
    /\ UNCHANGED <<clientVars, loaded, got, reply, board, streams, link>>

-----------------------------------------------------------------------------
ClientStep == SendByte \/ ReceiveHeader \/ ReceiveBody \/ AnswerCut
ServerStep ==
    Create \/ CreateFails \/ Accept
        \/ ReceiveByte \/ EndOfStream \/ Process \/ SendHeader \/ SendBody

Next ==
    \/ Connect \/ ConnectFails \/ AcceptFails
    \/ Type \/ Leave \/ ClientKilled \/ ServerKilled
    \/ ClientStep
    \/ ServerStep

Spec == Init /\ [][Next]_vars

\* Each process goes on when the system lets it; nobody has to connect, to
\* type, to leave or to be killed, and an accept need not fail.
FairSpec == Spec /\ WF_vars(ClientStep) /\ WF_vars(ServerStep)

-----------------------------------------------------------------------------
Texts == {Body(text) : text \in {"fixed", "OK", "ERROR", "cut"}}

IsAnswer(answer) ==
    answer \in Texts \/ (answer.part = "body" /\ answer.board \subseteq (Nat \X Digits))

\* The middle of the box of a cell in the frame.
Middle(i, j) == CharsPerLine * (2 * i - 1) + 4 * (j - 1) + 2

AnswersTypeOK ==
    /\ reply = Nothing \/ IsAnswer(reply)
    /\ received = Blank \/ IsAnswer(Whole(received))
    /\ screen \in {Nothing, received}
    /\ answered.command \in Commands \cup {<<>>} /\ answered.board \in Boards

TypeOK ==
    /\ BoardTypeOK
    /\ client \in {"connect", "prompt", "send", "header", "body", "ended", "failed", "killed"}
    /\ server \in {"create", "listen", "deaf", "receive", "process", "header", "body",
                   "ended", "killed"}
    /\ link \in {"none", "queued", "accepted"} /\ loaded \in BOOLEAN
    /\ typed \in Commands \cup {<<>>}
    /\ \E sent \in 0..4 : unsent = SubSeq(typed, sent + 1, Len(typed))
    /\ AnswersTypeOK

\* What an answer says of a command and of the board after it, which was read
\* from its file or not: a put is refused for given cells only, the board that
\* is shown is b, each digit in the box of its cell, and holds the digit put;
\* without a board file no board is shown.
Answers(answer, command, b, read) ==
    /\ command[1] = V <=> answer.text \in {"OK", "ERROR"}
    /\ command[1] = P =>
          (answer.text = "fixed" <=> ~read \/ OriginalValue(command[2], command[3]) # 0)
    /\ answer.text = "board" =>
          /\ read
          /\ answer.board = {d \in {<<Middle(i, j), Value(b, i, j)>> : i, j \in Coords} :
                                d[2] # 0}
          /\ command[1] = P => Value(b, command[2], command[3]) = command[4]
          /\ command[1] = R => b.board = Original

\* The server was killed between the two sends of the answer to this command,
\* which it has carried out.
Unanswered == server = "killed" /\ got = typed

\* What the player reads at the prompt answers the last command and shows the
\* board of the server.  Only for the one command within whose answer the
\* server was killed does the player read the answer to the command before it,
\* or a beginning of that, and it was right then (sudoku_play waits for each
\* answer and keeps its buffer; server_process_command).
AnswersInStep ==
    client = "prompt" /\ screen # Nothing =>
        \/ screen.part = "body" /\ Answers(screen, typed, board, loaded)
        \/ /\ Unanswered
           /\ IF screen = Blank THEN answered.command = <<>>
              ELSE Answers(Whole(screen), answered.command, answered.board, loaded)

\* "OK" on the screen means that the board of the server, if it has one, breaks
\* no rule, through all the puts and verifications that came before; an "OK"
\* that was left in the buffer says so of the board before the put or reset
\* within whose answer the server was killed.
OkTrue ==
    client = "prompt" /\ screen = Body("OK") =>
        \/ ~loaded
        \/ ~Conflict(board)
        \/ Unanswered /\ typed[1] \in {P, R} /\ ~Conflict(answered.board)

\* The board changes only as the last command typed says, and never by half a
\* command of a client that was killed (protocol_receive_command).
OnlyAsTyped ==
    [][\A o \in Offsets : board'.board[o] # board.board[o] =>
          \/ typed = <<R>>
          \/ /\ typed[1] = P
             /\ o = Offset(typed[2], typed[3])
             /\ board'.board[o] = typed[4]]_vars

\* Every command that is typed ends in another prompt, answered or not, also
\* by a client that plays without a connection, unless one of the signals ends
\* the client (sudoku_play).
Answered == client = "send" ~> client \in {"prompt", "killed"}

\* The server does not outlive its only client, wherever that client left: in
\* the backlog, between two bytes or before an answer; nor does it go on
\* without one after a set-up that failed (sudoku_run_server).
ServerEnds == (ClientGone /\ link # "none") \/ Clientless ~> ServerGone
=============================================================================
