# Verification of the programming-workshop programs

The repository holds two of the four programs it names: `tp1_sockets`, a sudoku
played over a TCP connection (C), and `tp3_ftp_multiclient_server`, a
multithreaded FTP-like server and its client (C++11). This directory models
both in TLA+, checks small instances with TLC, and proves the results that matter
most for every value of the constants with TLAPS.

In a directory with these files, `tlc -config server_safety.cfg MCFtpServer.tla`
makes a run, and `tlapm FtpServerProofs.tla` checks the proofs of a module.

## 1. Inventory

| Component | Source | State | Operations |
|---|---|---|---|
| Directory list | `common_server.{h,cpp}` | `directories` (a `std::set`), `dir_m` | `add_directory`, `remove_directory`, `get_list`, `directories_size` |
| Server life cycle | `server_main.cpp`, `common_server.cpp`, `common_client.cpp` | `clients`, `m`, `is_running`, the listening socket, the acceptor's local vector of threads, the addresses saved in clients | `run_server`, `respond_client`, `close_all_sockets`, `close_dead_sockets`, `quit`, `stop` |
| Sockets | `common_socket.cpp`, `socket.c` | a descriptor, in tp1 a status | set-up, `accept`, `send`, `receive`, `shutdown` |
| Sessions and commands | `common_command.cpp`, `common_server.cpp` | `possible_user`, `logged`, `quit` of each connection | USER, PASS, SYST, HELP, PWD, MKD, RMD, LIST, QUIT, unknown |
| Client program | `common_client.cpp`, `client_main.cpp` | where it is in its loop, the last response | `run_client`, `receive_list`, `quit_received` |
| Line protocol | `common_protocol.cpp`, `CommandCreator` | the line read so far | `receive_string`, `send_string`, `create_command` |
| Configuration | `common_config.cpp` | a stream, a map of messages | the constructor, `get_message` |
| Errors | `common_error.cpp` | the text of an exception | none that changes it |
| Sudoku board | `board.{h,c}` | characters of the board, of the original, a status | get, put, verify, reset, read |
| Sudoku game | `sudoku.c`, `server.c`, `client.c`, `protocol.c` | positions of the two processes, bytes in two streams | set-up, put, verify, reset, get, exit |

How they interact. The FTP server has one main thread (console, then `stop`), one
acceptor, and one handler per connection. Main and the acceptor share the client
list and the flag; both run `close_all_sockets`. Handlers share only the
directory list with each other, and with main and the acceptor their descriptor and
the thread object that is joined. Clients interact with handlers by lines.
The sudoku has one client and one server, both sequential, that exchange a
command and an answer in turns over byte streams.

What is hard. `push_back` on the client list takes no mutex while
`close_all_sockets` runs on the other thread. Thread objects are moved by a growing vector while
their addresses are saved. Descriptors are numbers, and numbers are reused.
`receive_string` ignores the end of a connection. LIST reads the shared list twice,
without a lock in between. In the sudoku, a process may end between any two
bytes, the status of the board outlives the command that set it, and neither
program stops at a failure of the set-up. `send` and `recv` take and give parts
of buffers, and the ends of streams and files are found by status bits that are
easily read too late. The
complete list, line by line, is under `hazards` in `PROJECT.json`.

What makes each part correct:
- directory list: every call is atomic; no call waits for ever;
- server: a handler only ever touches its own client's connection; threads are
  joined before the process ends; the process ends abnormally only for known
  causes; new clients are served; a stop ends;
- sessions: answers match requests, nothing is told before the login, what is
  told of the list was true at an instant of the request, also when the server ends;
- sockets: every byte comes once and in order up to the end, and calls return;
- texts: every message of the configuration is one line under its key, every
  line is taken for the command that it is;
- board: a put changes its cell only, the check is exact;
- game: what the player reads is true of the server's board, half a command is
  never applied, and no process waits for ever.

## 2. Modules

| Module | Models | Built on |
|---|---|---|
| `ByteStream` | what send and receive promise: bytes in order, each once, up to an end | |
| `Transport` | the loops of send and receive over a kernel that takes and gives parts | refines `ByteStream` |
| `Config` | the constructor's getlines over a file | |
| `RequestLine` | a line and the command it is taken for | |
| `AtomicDirectories` | what the directory list promises: atomic calls | |
| `Directories` | the four operations, one access of the set per step | refines `AtomicDirectories` |
| `FtpServer` | threads, list, vector, descriptors, peers, stop | |
| `FtpSession` | client programs, handlers and commands, one shared list, the end of the server | uses the atomicity shown of `Directories` |
| `SudokuMatrix` | what a board promises: a matrix of digits | |
| `SudokuBoard` | the characters in memory, the check with bits | refines `SudokuMatrix` |
| `SudokuGame` | both processes from the set-up on, streams, kills | extends `SudokuBoard` |
| `*Claims` | statements of comments and of the report that the code does not keep | extend the above |
| `*Proofs` | theorems (`TextsProofs`: of `Config` and `RequestLine`) | extend the above and `TLAPS` |
| `OrderLemmas` | facts about numbers that several proofs need | the theorem modules of TLAPS |
| `MC*` | model values and small puzzles for TLC | extend the above |

### Transport
One direction of a connection. Bytes are numbers in the order in which they are
handed to `send`. `SendSome` and `ReceiveSome` are one turn of a loop, for any
part of what is left; `Break` and `SenderGoes` end the connection at any byte.
`skt_send`, `skt_receive` and `Socket::send`, `Socket::receive` are the same
loops, and `sender`, `receiver` hold how a call returned: a status in tp1, an
exception or a number in tp3. `ByteStream` sees what was handed over, what was
returned, and whether the end was reached. The other modules use streams of
bytes or lines, which is what this one shows of the loops.

### Config and RequestLine
`Config` reads a file as `Config::Config` does: `Getline` is `std::getline` with
the position and the eof and fail bits of the stream, and leaves the string
alone when the stream is not good; `ReadLine` is a turn of the loop with its two
getlines and `emplace`. A file that cannot be opened makes the loop turn until
memory is exhausted (`NoMemory`, at `MaxString`). `RequestLine` collects the
bytes of a line and parts it as `create_command` does, the wrap of `npos`
included. `MCTexts` runs both, one after the other.

### Directories
Each public operation is a call (`Call`), the lock (`Lock`), its accesses of the
set and `Return`, which destroys the `lock_guard`. The copy loop of `get_list` takes one
step per element (`Copy`). A name is its rank in the order of the set, so
iteration is in increasing order and an iterator is a lower bound. An `erase` of
another thread can therefore happen between any two steps of a copy, if the
mutex lets it.

### FtpServer
`pc` holds the next step of main and of the acceptor; `handler` that of each
handler. `close_all_sockets` is one set of actions run by either thread:
`LockAll`, `CheckAndShut` (the loop's test and `shutdown` of `clients.back()`),
`CloseDescriptor`, `CheckJoinable`, `Join`, `Pop`. Each `clients.back()` of the
source is looked up anew, as it is there. In detail:
- `push_back` spans two steps, `Accept` (ends with the push about to begin) and
  `Push` (its effect). `raced` records how main used the list in between;
  `Push` then chooses among the outcomes such a race has: the pop is undone, the
  element is lost, both, neither, or the process crashes on freed storage. The
  history variable `overlapped` records that a push met main inside
  `close_all_sockets`; after that the list is no longer what either thread expects.
- The thread of an accepted client may not be created. The exception ends the
  loop of the acceptor: the connection stays open, has no handler and is in no
  list (`Started` are the clients whose thread was created).
- `CloseDead` is what `close_dead_sockets` does with each dead client: waits for
  its thread and joins it, shuts the connection down, closes the descriptor, and
  erases it from the list. `IsDead` is FALSE for every client of the list.
- `Accept` grows the vector as `emplace_back` does, and `dangling` gathers the
  clients whose saved address then is stale. `joinable()` on such an address
  reads a moved-from thread, which has no thread, or anything else, which may crash.
- `table` is the kernel's map from descriptors to connections, `fd` the number a
  handler captured. `accept` takes the lowest free number.
- `Send` fails, or raises `SIGPIPE` (the code neither blocks it nor passes
  `MSG_NOSIGNAL`), or succeeds; a send to a peer that is gone provokes a reset.
- `receive_string` on a connection that has ended spins (`Spin`), until memory is
  exhausted (`Exhausted`, which need never happen).

A line is one of "cmd", "quit", "nl": what it does to the handler's loop.

### FtpSession
A request is a record. What the server writes is a
sequence of fragments. `Sends` adds fragments, and `ReadLine` takes fragments up
to the first with a delimiter, as `receive_string` does. A directory may have
the empty name (`MKD` with no space after it): its entry in a listing has no
delimiter, so that the next line is read as part of it, and a response that names
it is never built because `format_cmd` pops a character of an empty string.
`ServerEnds` ends a session at any step, by the stop or with the process: the
client reads what had come and then spins in `receive_string` (`FindsEnd`) until
memory is exhausted (`NoMemory`). `entitled`, `asked` and `window` are history
variables: what the user has shown to know, the last LIST, MKD or RMD, and what
the list was, as far as that request could see it, since it was typed.

### SudokuBoard and SudokuGame
The characters are a function of their offsets, `Offset(i, j)` is the layout of
`board.h` with its separators, the scan with one bit per digit is a fold
(`Mark`). The side of a sector is a parameter. `SudokuGame` starts with
`skt_create` and `skt_connect`. `link` is the connection; `Accept` finds it in
the backlog, and after a failure the programs go on as they do: a server whose
`accept` failed receives from no connection (`Clientless`), a client whose
status happened to be CLIENT_CONNECTED plays without one. `loaded` says whether
`board_read` found its file; without it `ProcessUnread` answers. A command goes byte by
byte and an answer as header and body; `got` is what the server has of a
command. `Advance` is the step of the loop that draws the digits into the
frame, and an answer holds the digits at the places where they were drawn.
`ClientKilled`, `ServerKilled` and `SIGPIPE` may end a process between
any two of those. `received` is the buffer of `sudoku_play`, which one answer
leaves to the next: when the server ends after a header, `AnswerCut` ends the
buffer at the length that was announced and prints what it held, an earlier
answer (`Whole`) or a `Beginning` of it, or an empty line. `answered` is a history
variable: the command answered last and the board then.

## 3. Runs

| Run | Instance | Shows |
|---|---|---|
| `transport` | 6 bytes, calls of 1 to 3, a kernel that holds 2 | `ShortOnlyAtEnd`, `SuccessMeansSent`, `ImplementsStream`, `SendReturns`, `ReceiveReturns` |
| `texts` | files of up to 7 characters, lines of up to 8 bytes | `ConfigFaithful`, `ConfigEnds`, `RequestRead` |
| `directories` | 3 threads, 3 names | found-out facts stay true, copies are faithful, every call is atomic (refinement), some call always returns |
| `server_safety` | 2 connections, 1 line each, 2 descriptors, vector of 2 | `OwnDescriptor`, `ExitJoined`, `ExitCloses`, `AbortCauses`, `HandlersListed` |
| `server_liveness` | 2 connections, 2 descriptors, vector of 1 | `AbortCauses` (stale addresses), `AddressesValid`, `StopWaitsOnlyForHandlers`, `Greeted` |
| `sessions` | 2 sessions, names {0, 1} (0 is the empty name) | `InStep`, `OnlyEntitled`, `ToldTrue`, `Answered` |
| `sudoku_board` | 4 x 4 board, 2 cells filled at once | `VerifyExact`, `ImplementsMatrix` |
| `sudoku` | 4 x 4 board with 2 blanks, 5 puts | `AnswersInStep`, `OkTrue`, `OnlyAsTyped`, `Answered`, `ServerEnds` |

Each run also checks the type invariant of its module. The other four runs each
refute one statement (section 4).

Bounds and why they are enough.
- A window of two bytes and calls of up to three make every call be taken and
  given in parts, calls of the two ends overlap in every way, and six bytes hold
  two whole calls; the safety properties are proved for all bounds.
- Seven characters hold two lines with their keys, with and without a last
  newline, repeated keys, an empty message and a "=" in a message; `MaxString` is past what a file of
  that length can yield. Eight bytes hold a keyword of four letters, a space,
  an argument and the newline; three-letter keywords meet the test of five characters.
- Three threads are needed for a third to come between two others; three names
  let a copy stand before, at and behind the name that changes.
- Two connections give the race of a push with a pop, a descriptor number that
  is used again, and one handler that reads another's bytes. One line per client
  is enough for a handler to be in each of its states. A backlog of 1 stands
  for `WAITING_CLIENTS` (4), so that a connection waits; `InitThreads` stands for 200: with
  2 the vector is not full before the clients are out, and the list can hold two
  clients with good addresses; with 1 the second client makes it grow and the
  first one's address goes stale.
- Two sessions and one proper name meet: created by one, removed by the other
  while the first lists it. One name more than the empty one gives an entry that comes after
  the entry without a delimiter.
- A 4 x 4 board has rows, columns and sectors that differ, and blanks. Two
  cells filled by the player and two given digits can repeat in each kind of unit, and a pair in two kinds. The
  layout, put, reset and check are proved for every side.
- The puts of `sudoku`: the digit that solves a cell, a digit that repeats,
  erasures and a given cell, which are the cases `server_process_command` tells apart.

Deadlock is checked where a system never stops (`directories`, `sudoku_board`)
and not in the other runs, where programs really end.

### Fairness
Weak fairness of main, of the acceptor, of each handler, of each client program,
of the two sudoku processes, of the two loops of `Transport` and of the constructor of `Config`: they are threads and processes of a system
that schedules all of them, and each of their actions is enabled until it is
taken by its own thread, except for the mutexes. `std::mutex` does not promise
a waiting thread its turn, so no strong fairness is assumed of a lock, and
`SomeCallReturns` promises that some call returns and not that each does.
Nothing is assumed of peers (they need not send, read or leave), of the operator, of
players, of kills, of set-ups, of the creation of threads or of memory running
out. The kernel makes progress in a call whenever it can, which is what blocking
sockets give.

## 4. Divergences that the runs show

1. `server_quit_hangs`: a handler whose client has gone, or whose connection was
   shut down by the stop, spins in `receive_string`; `close_all_sockets` waits
   in `join()` and the process does not end.
2. `server_stops_listening`: nothing ever clears `is_alive`, so the connections
   of clients that left stay open; with no descriptor free `Socket::accept`
   closes the listening socket and the acceptor gives up, though nobody is attended.
3. `mkd_unnamed`: `MKD` without a name creates the directory and ends the
   handler before it answers.
4. `sudoku_false_error`: after a verification found an error, later ones answer
   ERROR for boards that break no rule.

Other behaviours are part of the models without a run of their own. Most are
named as exceptions in the properties, and removing such an exception makes TLC
show the behaviour:
- the operator's command before the socket is bound, or after the acceptor gave
  up, aborts the process (`AbortCauses`);
- a push that overlaps the `close_all_sockets` of main may lose a client, make the
  stop pop a client other than the one it joined, or crash (`overlapped`, in
  `OwnDescriptor`, `ExitCloses`, `AbortCauses` and `HandlersListed`). It is the only
  exception for clients that come during the stop: one accepted after
  `close_all_sockets` and before `is_running = false` is closed and joined by the
  acceptor, and these four properties say so;
- after 200 clients, saved thread addresses are stale and the stop aborts
  (`AddressesValid`, `AbortCauses`, `HandlersListed`);
- a client accepted during the stop may get the number of a connection that was
  just closed, and the handler that still uses the number then reads and answers
  the newcomer. `OwnDescriptor` says that this happens in the stop only, to a
  connection that was shut down, and never to a client that the list still has;
- a thread that cannot be created leaves a connection open that nobody serves
  (`ExitCloses`, `GaveUp`);
- an entry of the empty name blocks the client's listing (`Answered`, `Jammed`);
- a client does not act on 221, since `quit_received` is looked at only when the
  line typed is empty, and one whose handler or server has ended spins (`Answered`);
- `MKD ` with a space and no name is an invalid command (`RequestRead`);
- the end of a configuration file adds an empty key (`ConfigFaithful`), and a file that
  cannot be opened is read for ever (`ConfigEnds`);
- a sudoku server without its board file answers all the same (`AnswersInStep`, `loaded`);
- a sudoku client whose answer was cut after its header prints its old buffer:
  an answer to an earlier command, "OK" for a board that no longer is
  (`AnswersInStep`, `OkTrue`, `Unanswered`).

No property speaks of `SIGPIPE`. The model of the FTP server has it (`Send`): a send to a
client that has left provokes a reset, and the next one may end the process. LIST
sends three times (`common_command.cpp:63-68`), so a client that merely leaves can end the
server. The liveness properties allow for a process that ended so.

## 5. Proofs

All constants are arbitrary, under the assumptions named in the modules: at
least one connection and descriptor, a vector that is created with some
elements, names that are natural numbers, an owner `Nobody` that is no thread,
lengths of calls and a window of at least one byte, sectors of some side, a puzzle
with a digit or a blank in every cell, puts of digits at cells, letters that are
not the delimiters, keywords of three letters or four (those of `Command.h` are),
and strings that can grow by more than a file is long.

Every invariant and every action property that a run checks is proved, and the
three refinements are. Each proof found its inductive invariant first; TLC
checked it on the run's instance before it was proved.

`DirectoriesProofs`
- `DirectoriesTyped`, `Safety` (`FindingsHold`), `CopiesFaithful` (`CopyFaithful`): the
  inductive invariant joins the types, exclusion (a
  thread is inside the operations exactly when it owns `dir_m`), what a thread found
  out, the copy made so far, and that the locals of a thread outside a call are
  fresh. `FindingsHold` alone is not inductive: it needs exclusion, because only the
  owner's steps change the set.
- `Refinement`: `Spec => ImplementsAtomic`. A step that computes an answer is
  the atomic step; all others are calls, returns or stutter.

`FtpServerProofs`, for any number of connections, lines and descriptors
- `Invariance` of `IInv`: types; `Exclusion` (a thread is in `close_all_sockets`
  exactly when it owns `m`); `ListNotEmpty` (between the test and the pop the
  list has a client: pushes only add, and no other thread pops), without which
  `back()` and `pop_back()` would be undefined and the types would not be kept;
  `Fresh` (a connection not accepted has no thread); `JoinedDone`;
  `EndedJoined`.
- `ServerTyped`, `NoThreadOutlivesExit` (`ExitJoined`) follow from it.
  A client counts as started when its thread was created, and one whose thread
  was not never gets one (`StaysOut`).
- `AddressesStay` (`AddressesValid`): the first growth happens with the first
  client, when there is nothing to move, and doubles the vector.
- `HandlersFound` (`HandlersListed`) and `ExitClosesAll` (`ExitCloses`) need a second
  invariant, `LInv`: only accepted clients are in the list or come back to it, and
  as long as no push overlapped main's `close_all_sockets`, the thread inside it
  stays at the last client from `CheckAndShut` to `Pop` (`AtLast`), although each call
  looks `back()` up anew; what it pops is closed and, unless an address is stale,
  joined; so threads and descriptors that are not finished with belong to clients
  in the list or about to be put there (`Found`, `Open`).
- `DescriptorsOwned` (`OwnDescriptor`) needs a third, `OInv`, which rests on the
  second: nothing is shut down before a thread closes the list (`Untouched`), so
  that numbers are not given out twice until then; a descriptor is closed after its
  connection was shut down (`ShutFirst`); a client is in the list once (`Once`), so
  that the one which closes its descriptor is also the one that is popped; and
  the clients that stay in the list hold theirs (`Held`).
- `AbortsExplained` (`AbortCauses`): the steps that end the process are few
  (`EndsWhy`), and at each of them one of the causes holds already. That the
  listening socket is open when `stop` shuts it down, unless the acceptor has not
  bound it or gave up, is a fourth invariant (`SInv`); that no thread is left when
  the vector is destroyed follows from `Found` and `Emptied`.
- The exception `overlapped`, once true, stays true, and each of the invariants
  keeps what holds without it apart.

`TransportProofs`, for any window, lengths of calls and number of bytes
- `Invariance` of `IInv`: what was returned, what is in the receiver's buffer and
  what is on the wire are consecutive runs of bytes (`Consecutive`), and together
  they are all that the kernel took as long as the connection is not broken
  (`Accounts`), which also says that a call under way is not finished.
- `TransportTyped`, `ShortIsLast` (`ShortOnlyAtEnd`), `SuccessIsSent` (`SuccessMeansSent`)
  follow. `RefinesStream`: `Spec => ImplementsStream`. Every step hands bytes over, returns the
  next ones, reaches the end, or stutters.

`FtpSessionProofs`, for any number of sessions and any names
- The invariant says, for each session, which requests and fragments may be under
  way at each step of its client and of its handler (`RequestHeld`, `ClientFits`,
  `OneAnswer`); that the handler takes for a login only what the user earned, also
  with USER or PASS still unread (`LoginEarned`); that the window holds what the
  request asks of the list now (`Watched`); and that each code and each listing on
  its way is true when it is read (`CodesTrue`, `ListTrue`). Other sessions touch a
  session only through the list, which makes its window grow (`OthersSame`).
- `SessionTyped`, `SessionsInStep` (`InStep`), `TellsEntitledOnly` (`OnlyEntitled`) and
  `TellsTrue` (`ToldTrue`) follow. `ToldTrue` is not inductive: it speaks of what the
  client has read, and needs the truth of what is still in the stream, which a
  change of the list by another session must not disturb.

`TextsProofs`, for any alphabet and lines and files of any length
- `RequestsRead` (`RequestRead`): the first space parts the line also where `find`
  gives `npos` and the sums wrap, and the test of five characters hides nothing
  but a keyword of three letters with a space after it.
- `ConfigurationTyped` (`ConfigTypeOK`) and `ConfigurationFaithful` (`ConfigFaithful`): with
  every turn the stream goes from the start of a line to the start of the next or
  to the end (`KeyRead`, `MessageRead`), and the lines before it are loaded (`FInv`,
  `LoadsLine`). At the end of the file one more turn may load the empty key.

`SudokuBoardProofs`, for any side and puzzle
- `BoardTyped`, and `BoardIsMatrix` (`ImplementsMatrix`): `Offset` is injective
  (rows are at least a row's characters apart), so a put changes one cell.
- `VerifyIsExact` (`VerifyExact`): the fold over a unit knows the digits seen and
  whether one repeated (`Scan`, `RepeatsExact`), and rows, columns and sectors are
  exactly the sets of cells that the rules speak of (`RowExact`, `ColExact`, `CellExact`).

`SudokuGameProofs`, for any puzzle and puts
- While the server runs, client and server are in one of three phases: the last
  command is answered (`Idle`); its bytes are consecutive runs, with the server, in
  the stream and with the client, and not all have come (`Sending`); the server has
  all of it (`Answering`). What the client has of an answer, or will find after the
  server has gone, is right (`AnswersFit`), and what its buffer holds is right for
  the command and the board of `answered`, which the old buffer is printed for.
- `GameTyped`, `GameAnswers` (`AnswersInStep`) and `GameOk` (`OkTrue`) follow, and
  `GameOnlyAsTyped` (`OnlyAsTyped`), since the board changes in `Answering` only, where
  `got` is the whole command. That each digit is drawn in the box of its cell is
  `DrawnInTurn`: the steps over the frame add up to the place of the box.

`OrderLemmas` has what the others need of induction. The provers cannot use the
induction theorems of the library, whose hypothesis is an operator. `Least`, that
a set of numbers that is not empty has a least element, is proved from the well-foundedness of strict
inclusion, and each induction is then an argument about the least number for
which a claim fails. The recursive functions that the models define by folds are
reached in this way.

Only model-checked: liveness, which TLAPS does not prove under fairness
(`SendReturns`, `ReceiveReturns`, `ConfigEnds`, `SomeCallReturns`,
`StopWaitsOnlyForHandlers`, `Greeted`, both `Answered`, `ServerEnds`), and the four
statements that the code does not keep, which are refuted.

## 6. Mutants

Every property of a passing run is broken by a plausible bug, written before the
definition it replaces and marked "Mutant of": a lock that does not wait, a
thread detached in place of joined, a descriptor not closed, an
address taken before the vector grows, an `accept` that a shutdown does not
wake, a check of the password without the name, a listing without its first
entry, a client removed from the wrong end of the list, an `is_alive` that the
constructor leaves unset, a put with row and column swapped, a status that is kept, a receive that
does not notice the end, an old buffer printed where no length came, and so on. `PROJECT.json` pairs them with the
properties.

## 7. Not modelled, and why

- Validation of command lines and `Error`: no state that changes afterwards.
- A client of tp3 that cannot connect: it ends before its session begins.
- A look-up of a key that the configuration does not have dereferences the end
  of a map; which response the process would make of that is not modelled.
- Texts of answers: what they say is their code, or the board. The bytes
  of one line arriving in several pieces are in `RequestLine` and `Transport`, and left out of `FtpSession`;
  `FtpServer` keeps the splitting of lines where two threads read one connection.
- A board file that is malformed or too long, and a typed line of the sudoku that
  is too long for its buffer: what the overrun memory holds is not modelled.
- The lines that a sudoku client refuses: they send nothing, and each later
  command overwrites what they left in the client.
- The race on `is_running` is read as atomic: the loop calls `accept` between its
  reads.
- An end of the console's input, at which `Server::quit` turns for ever: an
  operator who never quits.
- TP2 and TP4 are not in the repository.

## 8. Plan

Done, in the order of importance: directory list with refinement and proofs;
server life cycle, threads that cannot be created, with proofs; sessions, and their
end by the server, with proofs; transport with refinement and proofs; the texts
with proofs; board with refinement and proofs; game, its set-up and a missing
board, with proofs.

To do:
1. a refinement of `FtpSession`: what a session promises its user, with one step
   per request, and the proof that the fragments implement it;
2. what the proofs of liveness would rest on as invariants: that a thread in
   `close_all_sockets` always has a step but for a `join`, and that a client which
   waits has a request or a fragment under way.
