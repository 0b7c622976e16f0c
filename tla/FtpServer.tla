----------------------------- MODULE FtpServer -----------------------------
(***************************************************************************)
(* The life of the FTP server: the main thread (server_main.cpp,           *)
(* Server::quit, Server::stop), the acceptor thread (Server::run_server)   *)
(* and one handler thread per connection (Server::respond_client), with    *)
(* the state they share: the client list and its mutex, the vector of      *)
(* thread objects, the flag is_running, the listening socket and the       *)
(* process's descriptors.                                                  *)
(*                                                                         *)
(* A connection is its number in the order of acceptance; a line is what   *)
(* it makes the handler do.  0 is "no connection" and "no descriptor".     *)
(***************************************************************************)
EXTENDS Naturals, Sequences, SequencesExt

CONSTANTS MaxConns,        \* bound: connections that peers open
          MaxLines,        \* bound: lines that a peer sends
          FdLimit,         \* descriptors that the process may have for connections
          WaitingClients,  \* WAITING_CLIENTS, the backlog of listen()
          InitThreads      \* elements that the vector of threads starts with

ASSUME MaxConnsAssumption == MaxConns \in Nat \ {0}
ASSUME MaxLinesAssumption == MaxLines \in Nat
ASSUME FdLimitAssumption == FdLimit \in Nat \ {0}
ASSUME WaitingClientsAssumption == WaitingClients \in Nat
ASSUME InitThreadsAssumption == InitThreads \in Nat \ {0}

Conns == 1..MaxConns
Descriptors == 1..FdLimit
Lines == {"cmd", "quit", "nl"}   \* any command, QUIT, the empty line

VARIABLES
    proc,        \* the process: running, or how it ended
    pc,          \* next step of main and of the acceptor
    m,           \* owner of Server::m
    is_running,  \* Server::is_running
    listening,   \* state of Server::socket
    clients,     \* Server::clients
    raced,       \* clients popped (0: list read) by main during the push under way
    overlapped,  \* a push of the acceptor overlapped main's close_all_sockets
    cur,         \* the client close_all_sockets is at
    joined,      \* clients whose thread has been joined
    dangling,    \* clients whose saved thread pointer is stale
    capacity,    \* capacity of run_server's vector of threads
    connected,   \* connections opened by peers
    accepted,    \* connections accepted
    peer,        \* what is known of each connection's other end
    inbox,       \* lines sent by each peer and not read
    down,        \* connections shut down by the server
    table,       \* the connection each descriptor denotes
    fd,          \* the descriptor each client was accepted with
    handler,     \* next step of each client's thread
    junk         \* the thread has bytes of an unfinished line in its string

stopVars == <<m, is_running, cur>>
listVars == <<clients, raced, overlapped>>
threadVars == <<joined, dangling, capacity>>
netVars == <<connected, accepted, peer, inbox>>
socketVars == <<down, table, fd>>
handlerVars == <<handler, junk>>
vars == <<proc, pc, listening, stopVars, listVars, threadVars, netVars, socketVars, handlerVars>>

Init ==
    /\ proc = "running"
    /\ pc = [main |-> "console", acceptor |-> "bind"]
    /\ m = "nobody" /\ is_running = TRUE /\ cur = 0
    /\ listening = "none"
    /\ clients = <<>> /\ raced = {} /\ overlapped = FALSE
    /\ joined = {} /\ dangling = {} /\ capacity = InitThreads
    /\ connected = 0 /\ accepted = 0
    /\ peer = [c \in Conns |-> "up"]
    /\ inbox = [c \in Conns |-> <<>>]
    /\ down = {}
    /\ table = [d \in Descriptors |-> 0]
    /\ fd = [c \in Conns |-> 0]
    /\ handler = [c \in Conns |-> "none"]
    /\ junk = [c \in Conns |-> FALSE]

Goto(t, label) == pc' = [pc EXCEPT ![t] = label]
Ends(how) == proc' = how

\* The connection that the descriptor held by c's thread denotes now.
Denotes(c) == IF fd[c] = 0 THEN 0 ELSE table[fd[c]]

-----------------------------------------------------------------------------
(* Peers.  Any program may connect, send lines and go away.                *)

\* Linux completes connections up to one more than the backlog.
PeerConnects ==
    /\ connected < MaxConns
    /\ listening = "open"
    /\ connected - accepted <= WaitingClients
    /\ connected' = connected + 1
    /\ \E script \in BoundedSeq(Lines, MaxLines) :
          inbox' = [inbox EXCEPT ![connected + 1] = script]
    /\ UNCHANGED <<proc, pc, listening, stopVars, listVars, threadVars, accepted, peer,
                   socketVars, handlerVars>>

\* A peer that closes with bytes of the server unread resets the connection.
PeerCloses(c) ==
    /\ c <= connected
    /\ peer[c] = "up"
    /\ \E how \in {"gone", "reset"} : peer' = [peer EXCEPT ![c] = how]
    /\ UNCHANGED <<proc, pc, listening, stopVars, listVars, threadVars, connected, accepted,
                   inbox, socketVars, handlerVars>>

-----------------------------------------------------------------------------
(* Handler threads.                                                        *)

Step(c, label) == handler' = [handler EXCEPT ![c] = label]

\* Socket::send on the handler's descriptor.  Without MSG_NOSIGNAL a broken
\* connection raises SIGPIPE; a pending reset or a closed descriptor is an
\* error, which respond_client catches.  What arrives at a peer that is gone
\* makes it reset the connection.
Send(c, next) ==
    LET x == Denotes(c)
        broken == x # 0 /\ (x \in down \/ peer[x] = "reset")
    IN  /\ \/ /\ x # 0 /\ ~broken
              /\ Step(c, next)
              /\ \E p \in {peer[x]} \cup (IF peer[x] = "gone" THEN {"reset"} ELSE {}) :
                    peer' = [peer EXCEPT ![x] = p]
              /\ UNCHANGED proc
           \/ /\ x = 0 \/ (broken /\ peer[x] = "reset")
              /\ Step(c, "done")
              /\ UNCHANGED <<proc, peer>>
           \/ /\ broken
              /\ Ends("killed")
              /\ UNCHANGED <<handler, peer>>
        /\ UNCHANGED <<pc, listening, stopVars, listVars, threadVars, connected, accepted,
                       inbox, socketVars, junk>>

\* send_hello.
Hello(c) == handler[c] = "hello" /\ Send(c, "recv")

\* Mutant of Respond: after QUIT the handler closes its own descriptor.
RespondClosing(c) ==
    \/ handler[c] = "respond" /\ Send(c, "recv")
    \/ /\ handler[c] = "bye"
       /\ Step(c, "done")
       /\ table' = [table EXCEPT ![fd[c]] = 0]
       /\ UNCHANGED <<proc, pc, listening, stopVars, listVars, threadVars, netVars, down, fd, junk>>

\* The answer to a command; QUIT has set cli.quit before its answer is sent.
Respond(c) ==
    \/ handler[c] = "respond" /\ Send(c, "recv")
    \/ handler[c] = "bye" /\ Send(c, "done")

\* Threads that read bytes of connection x besides c's.
OtherReaders(c, x) == {o \in Conns \ {c} : handler[o] = "recv" /\ Denotes(o) = x}

\* receive_string reads a byte at a time: threads that read from the same
\* connection may each get a part of a line, and the part of the one that gets
\* the delimiter is an unknown command or nothing but the delimiter.
Receive(c) ==
    LET x == Denotes(c)
    IN  /\ handler[c] = "recv"
        /\ x # 0
        /\ inbox[x] # <<>>
        /\ \E others \in SUBSET OtherReaders(c, x) :
              /\ Head(inbox[x]) = "nl" => others = {}
              /\ \E part \in IF others = {} THEN {Head(inbox[x])} ELSE {"cmd", "nl"} :
                    LET line == IF junk[c] THEN "cmd" ELSE part
                    IN  Step(c, CASE line = "cmd" -> "respond"
                                  [] line = "quit" -> "bye"
                                  [] line = "nl" -> "done")
              /\ junk' = [o \in Conns |-> o # c /\ (junk[o] \/ o \in others)]
        /\ inbox' = [inbox EXCEPT ![x] = Tail(@)]
        /\ UNCHANGED <<proc, pc, listening, stopVars, listVars, threadVars, connected, accepted,
                       peer, socketVars>>

\* recv returns 0 or -1 at once.
AtEnd(x) == x # 0 => inbox[x] = <<>> /\ (peer[x] # "up" \/ x \in down)

\* receive_string ignores the result of receive: it goes on adding a byte to
\* its string and trying again ...
Spin(c) ==
    /\ handler[c] = "recv"
    /\ AtEnd(Denotes(c))
    /\ ~junk[c]
    /\ junk' = [junk EXCEPT ![c] = TRUE]
    /\ UNCHANGED <<proc, pc, listening, stopVars, listVars, threadVars, netVars, socketVars,
                   handler>>

\* ... until there is no memory for the string, an exception that
\* respond_client catches.
Exhausted(c) ==
    /\ handler[c] = "recv"
    /\ AtEnd(Denotes(c))
    /\ junk[c]
    /\ Step(c, "done")
    /\ UNCHANGED <<proc, pc, listening, stopVars, listVars, threadVars, netVars, socketVars, junk>>

HandlerStep(c) == Hello(c) \/ Receive(c) \/ Respond(c) \/ Spin(c)

-----------------------------------------------------------------------------
(* close_all_sockets, run by main and by the acceptor.  Each clients.back()*)
(* is evaluated anew.                                                      *)

\* Main uses the list; a push of the acceptor may be under way.
Access(t, popped) ==
    raced' = IF t = "main" /\ pc["acceptor"] = "pushing" THEN raced \cup {popped} ELSE raced

\* std::lock_guard<std::mutex> lock(m).
LockAll(t) ==
    /\ pc[t] = "lock"
    /\ m = "nobody"
    /\ m' = t
    /\ Goto(t, "check")
    /\ UNCHANGED <<proc, listening, is_running, cur, listVars, threadVars, netVars, socketVars,
                   handlerVars>>

\* Mutant of ReturnLabel: the acceptor goes on as if it were in stop().
ReturnLabelStop(t) == IF is_running THEN "set_flag" ELSE "join_acceptor"

\* Where close_all_sockets returns to: stop() or main(), run_server().
ReturnLabel(t) ==
    IF t = "acceptor" THEN "destroy" ELSE IF is_running THEN "set_flag" ELSE "join_acceptor"

\* while (!clients.empty()) clients.back().shutdown_socket(): the shutdown.
CheckAndShut(t) ==
    /\ pc[t] = "check"
    /\ Access(t, 0)
    /\ \/ /\ clients = <<>>
          /\ m' = "nobody"
          /\ Goto(t, ReturnLabel(t))
          /\ UNCHANGED <<cur, down>>
       \/ /\ clients # <<>>
          /\ cur' = Last(clients)
          /\ down' = down \cup ({Denotes(Last(clients))} \ {0})
          /\ Goto(t, "close")
          /\ UNCHANGED m
    /\ UNCHANGED <<proc, listening, is_running, clients, overlapped, threadVars, netVars, table, fd,
                   handlerVars>>

\* Mutant of CloseDescriptor: the connection is shut down and not closed.
ShutWithoutClose(t) ==
    /\ pc[t] = "close"
    /\ Goto(t, "join")
    /\ UNCHANGED <<proc, listening, stopVars, listVars, threadVars, netVars, socketVars, handlerVars>>

\* The close of shutdown_socket.  A push in between may have moved the list,
\* and the descriptor's number read from its old storage denotes nothing.
CloseDescriptor(t) ==
    /\ pc[t] = "close"
    /\ \/ table' = [table EXCEPT ![fd[cur]] = 0]
       \/ Last(clients) # cur /\ UNCHANGED table
    /\ Goto(t, "join")
    /\ UNCHANGED <<proc, listening, stopVars, listVars, threadVars, netVars, down, fd, handlerVars>>

\* clients.back().close_thread(): joinable().  What a stale pointer points to
\* is a moved-from thread object or anything else.
CheckJoinable(t) ==
    LET c == Last(clients)
    IN  /\ pc[t] = "join"
        /\ Access(t, 0)
        /\ cur' = c
        /\ \/ /\ c \in joined \cup dangling
              /\ Goto(t, "pop")
              /\ UNCHANGED proc
           \/ /\ c \notin joined \cup dangling
              /\ Goto(t, "wait")
              /\ UNCHANGED proc
           \/ /\ c \in dangling
              /\ Ends("crashed")
              /\ UNCHANGED pc
        /\ UNCHANGED <<listening, m, is_running, clients, overlapped, threadVars, netVars, socketVars,
                       handlerVars>>

\* Mutant of Join: the thread is detached, not waited for.
JoinDetached(t) ==
    /\ pc[t] = "wait"
    /\ joined' = joined \cup {cur}
    /\ Goto(t, "pop")
    /\ UNCHANGED <<proc, listening, stopVars, listVars, dangling, capacity, netVars, socketVars,
                   handlerVars>>

\* Mutant of Join: the thread is waited for and stays joinable.
JoinForgotten(t) ==
    /\ pc[t] = "wait"
    /\ handler[cur] = "done"
    /\ Goto(t, "pop")
    /\ UNCHANGED <<proc, listening, stopVars, listVars, threadVars, netVars, socketVars, handlerVars>>

\* join() returns once the thread has ended; the object that the vector moved
\* meanwhile stays joinable.
Join(t) ==
    /\ pc[t] = "wait"
    /\ handler[cur] = "done"
    /\ joined' = IF cur \in dangling THEN joined ELSE joined \cup {cur}
    /\ Goto(t, "pop")
    /\ UNCHANGED <<proc, listening, stopVars, listVars, dangling, capacity, netVars, socketVars,
                   handlerVars>>

\* Mutant of Pop: the first client leaves the list instead of the last.
PopFirst(t) ==
    /\ pc[t] = "pop"
    /\ Access(t, Head(clients))
    /\ clients' = Tail(clients)
    /\ Goto(t, "check")
    /\ UNCHANGED <<proc, listening, stopVars, overlapped, threadVars, netVars, socketVars,
                   handlerVars>>

\* clients.pop_back().
Pop(t) ==
    /\ pc[t] = "pop"
    /\ Access(t, Last(clients))
    /\ clients' = Front(clients)
    /\ Goto(t, "check")
    /\ UNCHANGED <<proc, listening, stopVars, overlapped, threadVars, netVars, socketVars,
                   handlerVars>>

CloseAll(t) ==
    LockAll(t) \/ CheckAndShut(t) \/ CloseDescriptor(t) \/ CheckJoinable(t) \/ Join(t) \/ Pop(t)

-----------------------------------------------------------------------------
(* The acceptor thread, run_server.                                        *)

\* socket = Socket(port); an error of the constructor is caught.
Bind ==
    /\ pc["acceptor"] = "bind"
    /\ \/ listening' = "open" /\ Goto("acceptor", "loop")
       \/ Goto("acceptor", "lock") /\ UNCHANGED listening
    /\ UNCHANGED <<proc, stopVars, listVars, threadVars, netVars, socketVars, handlerVars>>

\* while (is_running).
Loop ==
    /\ pc["acceptor"] = "loop"
    /\ Goto("acceptor", IF is_running THEN "accept" ELSE "lock")
    /\ UNCHANGED <<proc, listening, stopVars, listVars, threadVars, netVars, socketVars, handlerVars>>

Free == {d \in Descriptors : table[d] = 0}

\* Mutant of Moved: the address is taken before the vector grows.
MovedWithLast == 1..(accepted + 1)

\* The clients whose thread objects a growth of the vector moves.
Moved == 1..accepted

\* accept() takes the lowest free descriptor.  emplace_back starts the thread
\* and, when the vector is full, moves it to storage of twice the size.  If no
\* thread can be created the loop ends with an exception, and the connection
\* and the listening socket stay open.
Accept ==
    LET c == accepted + 1
        full == InitThreads + accepted = capacity
    IN  /\ pc["acceptor"] = "accept"
        /\ listening = "open"
        /\ accepted < connected
        /\ \E d \in Free : /\ \A e \in Free : d <= e
                           /\ table' = [table EXCEPT ![d] = c]
                           /\ fd' = [fd EXCEPT ![c] = d]
        /\ accepted' = c
        /\ \/ /\ handler' = [handler EXCEPT ![c] = "hello"]
              /\ capacity' = IF full THEN 2 * capacity ELSE capacity
              /\ dangling' = IF full THEN Moved ELSE dangling
              /\ Goto("acceptor", "pushing")
           \/ /\ Goto("acceptor", "lock")
              /\ UNCHANGED <<handler, capacity, dangling>>
        /\ UNCHANGED <<proc, listening, stopVars, listVars, joined, connected, peer, inbox, down,
                       junk>>

\* Mutant of AcceptFails: the shutdown of the socket does not wake accept().
AcceptDeaf ==
    /\ pc["acceptor"] = "accept"
    /\ listening = "open" /\ Free = {}
    /\ listening' = "closed"
    /\ Goto("acceptor", "lock")
    /\ UNCHANGED <<proc, stopVars, listVars, threadVars, netVars, socketVars, handlerVars>>

\* accept() returns -1: the listening socket was shut down or closed, or no
\* descriptor is free.  Socket::accept closes the listening socket and throws.
AcceptFails ==
    /\ pc["acceptor"] = "accept"
    /\ listening # "open" \/ Free = {}
    /\ listening' = "closed"
    /\ Goto("acceptor", "lock")
    /\ UNCHANGED <<proc, stopVars, listVars, threadVars, netVars, socketVars, handlerVars>>

\* clients.push_back(client), without m.  A pop that overlaps it may be lost,
\* the push may be lost with it, and an access of moved storage may crash.
Push ==
    LET c == accepted
        popped == raced \ {0}
    IN  /\ pc["acceptor"] = "pushing"
        /\ overlapped' = (overlapped \/ m = "main" \/ raced # {})
        /\ raced' = {}
        /\ \/ /\ \E undone \in {<<>>} \cup {<<d>> : d \in popped},
                   added \in {<<c>>} \cup (IF popped = {} THEN {} ELSE {<<>>}) :
                    clients' = clients \o undone \o added
              /\ Goto("acceptor", "close_dead")
              /\ UNCHANGED proc
           \/ /\ raced # {}
              /\ Ends("crashed")
              /\ UNCHANGED <<clients, pc>>
        /\ UNCHANGED <<listening, stopVars, threadVars, netVars, socketVars, handlerVars>>

\* Mutant of IsDead: the constructor leaves is_alive unset, and each new client
\* is found dead.
IsDeadAlways(c) == TRUE

\* Client::is_dead() of a client in the list: the constructor sets is_alive and
\* nothing clears it.
IsDead(c) == FALSE

\* The list without the clients that close_dead_sockets erases.
AliveClients ==
    IF \E c \in ToSet(clients) : IsDead(c)
    THEN SelectSeq(clients, LAMBDA c : ~IsDead(c))
    ELSE clients

\* close_dead_sockets(): close_thread() waits for the thread of a dead client,
\* then its socket is shut down and closed and it leaves the list.
CloseDead ==
    LET dead == {c \in ToSet(clients) : IsDead(c)}
    IN  /\ pc["acceptor"] = "close_dead"
        /\ m = "nobody"
        /\ \A c \in dead : handler[c] = "done"
        /\ joined' = joined \cup (dead \ dangling)
        /\ down' = down \cup ({Denotes(c) : c \in dead} \ {0})
        /\ table' = [d \in Descriptors |-> IF \E c \in dead : fd[c] = d THEN 0 ELSE table[d]]
        /\ clients' = AliveClients
        /\ Goto("acceptor", "loop")
        /\ UNCHANGED <<proc, listening, stopVars, raced, overlapped, dangling, capacity, netVars,
                       fd, handlerVars>>

\* The clients that have, or had, a thread.
Started == {c \in 1..accepted : handler[c] # "none"}

\* The end of run_server destroys the vector of threads; the destructor of a
\* joinable thread calls std::terminate.
Destroy ==
    /\ pc["acceptor"] = "destroy"
    /\ \/ /\ Started \subseteq joined
          /\ Goto("acceptor", "ended")
          /\ UNCHANGED proc
       \/ /\ ~(Started \subseteq joined)
          /\ Ends("terminated")
          /\ UNCHANGED pc
    /\ UNCHANGED <<listening, stopVars, listVars, threadVars, netVars, socketVars, handlerVars>>

Acceptor ==
    Bind \/ Loop \/ Accept \/ AcceptFails \/ Push \/ CloseDead \/ CloseAll("acceptor") \/ Destroy

-----------------------------------------------------------------------------
(* The main thread.                                                        *)

\* quit() reads the operator's command and calls stop().
Quit ==
    /\ pc["main"] = "console"
    /\ Goto("main", "lock")
    /\ UNCHANGED <<proc, listening, stopVars, listVars, threadVars, netVars, socketVars, handlerVars>>

SetFlag ==
    /\ pc["main"] = "set_flag"
    /\ is_running' = FALSE
    /\ Goto("main", "shut_listener")
    /\ UNCHANGED <<proc, listening, m, cur, listVars, threadVars, netVars, socketVars, handlerVars>>

\* socket.shutdown(): on a socket that is not open it throws, and unwinding
\* main destroys the joinable server_acceptor.
ShutListener ==
    /\ pc["main"] = "shut_listener"
    /\ \/ /\ listening = "open"
          /\ listening' = "shut"
          /\ Goto("main", "close_listener")
          /\ UNCHANGED proc
       \/ /\ listening # "open"
          /\ Ends("terminated")
          /\ UNCHANGED <<listening, pc>>
    /\ UNCHANGED <<stopVars, listVars, threadVars, netVars, socketVars, handlerVars>>

CloseListener ==
    /\ pc["main"] = "close_listener"
    /\ listening' = "closed"
    /\ Goto("main", "lock")
    /\ UNCHANGED <<proc, stopVars, listVars, threadVars, netVars, socketVars, handlerVars>>

\* server_acceptor.join() and the end of main().
JoinAcceptor ==
    /\ pc["main"] = "join_acceptor"
    /\ pc["acceptor"] = "ended"
    /\ Goto("main", "ended")
    /\ Ends("exited")
    /\ UNCHANGED <<listening, stopVars, listVars, threadVars, netVars, socketVars, handlerVars>>

Main == SetFlag \/ ShutListener \/ CloseListener \/ CloseAll("main") \/ JoinAcceptor

-----------------------------------------------------------------------------
Environment == PeerConnects \/ (\E c \in Conns : PeerCloses(c)) \/ Quit

Next ==
    /\ proc = "running"
    /\ \/ Environment
       \/ Main
       \/ Acceptor
       \/ \E c \in Conns : HandlerStep(c) \/ Exhausted(c)

Spec == Init /\ [][Next]_vars

Running(A) == proc = "running" /\ A

\* The scheduler runs every thread that can go on.  Nothing makes a peer or
\* the operator act, or memory run out.
FairSpec ==
    /\ Spec
    /\ WF_vars(Running(Main))
    /\ WF_vars(Running(Acceptor))
    /\ \A c \in Conns : WF_vars(Running(HandlerStep(c)))

-----------------------------------------------------------------------------
Threads == {"main", "acceptor"}
JoiningSteps == {"join", "wait", "pop"}
ClosingSteps == {"check", "close"} \cup JoiningSteps
MainSteps == {"console", "lock", "set_flag", "shut_listener", "close_listener", "join_acceptor",
              "ended"} \cup ClosingSteps
AcceptorSteps == {"bind", "loop", "accept", "pushing", "close_dead", "lock", "destroy", "ended"}
                     \cup ClosingSteps

TypeOK ==
    /\ proc \in {"running", "exited", "terminated", "killed", "crashed"}
    /\ pc \in [Threads -> MainSteps \cup AcceptorSteps]
    /\ pc["main"] \in MainSteps
    /\ pc["acceptor"] \in AcceptorSteps
    /\ m \in Threads \cup {"nobody"}
    /\ is_running \in BOOLEAN
    /\ listening \in {"none", "open", "shut", "closed"}
    /\ clients \in Seq(Conns)
    /\ raced \in SUBSET (0..MaxConns)
    /\ overlapped \in BOOLEAN
    /\ cur \in 0..MaxConns
    /\ joined \in SUBSET Conns
    /\ dangling \in SUBSET Conns
    /\ capacity \in Nat
    /\ connected \in 0..MaxConns
    /\ accepted \in 0..connected
    /\ peer \in [Conns -> {"up", "gone", "reset"}]
    /\ inbox \in [Conns -> Seq(Lines)]
    /\ down \in SUBSET Conns
    /\ table \in [Descriptors -> 0..MaxConns]
    /\ fd \in [Conns -> 0..FdLimit]
    /\ handler \in [Conns -> {"none", "hello", "recv", "respond", "bye", "done"}]
    /\ junk \in [Conns -> BOOLEAN]

Active(c) == handler[c] \notin {"none", "done"}
Stopping == pc["main"] # "console"

\* run_server has left its loop.
GaveUp == pc["acceptor"] \in {"lock", "destroy", "ended"} \cup ClosingSteps

\* The descriptor number that a client was accepted with denotes that client's
\* connection until the server has shut it down.  Then it denotes nothing, or,
\* once the stop has begun, the connection of a client accepted afterwards:
\* before the stop no handler reads from or answers to another client.  And a
\* client in the list still has its own descriptor, up to the close of the one
\* close_all_sockets is at: no shutdown() or close() hits another client
\* (Server::respond_client's socket_id, Client::shutdown_socket).  The exception
\* is a push of the acceptor that overlapped main's close_all_sockets.
OwnDescriptor ==
    \/ overlapped
    \/ /\ \A c \in 1..accepted :
             Denotes(c) # c => c \in down /\ (Denotes(c) = 0 \/ (Denotes(c) > c /\ Stopping))
       /\ \A c \in ToSet(clients) :
             Denotes(c) = c \/ (c = Last(clients) /\ \E t \in Threads : pc[t] \in JoiningSteps)

\* The process comes to its normal end only when every thread of a client has
\* ended and been joined (Server::stop: "closes all the sockets, producing the
\* acceptor thread to close all threads").
ExitJoined ==
    proc = "exited" => \A c \in Started : handler[c] = "done" /\ c \in joined

\* By then every descriptor has been closed too, those of clients accepted
\* while the server was stopping included (between the end of stop()'s
\* close_all_sockets and is_running = false, too), but for that of a client
\* whose thread could not be created.  The exception is a push that overlapped
\* main's close_all_sockets, which may lose clients.
ExitCloses ==
    proc = "exited" =>
        overlapped \/ \A d \in Descriptors : table[d] # 0 => handler[table[d]] = "none"

\* The server aborts (std::terminate, or a use of memory that is gone) only
\* when stop() found the listening socket not open because the acceptor had not
\* bound it yet or had given up, when a push of the acceptor overlapped main's
\* close_all_sockets, or when so many clients were served that saved thread
\* pointers went stale.  A client accepted during the stop is no such cause.
AbortCauses ==
    proc \in {"terminated", "crashed"} =>
        \/ /\ proc = "terminated"
           /\ pc["main"] = "shut_listener"
           /\ pc["acceptor"] = "bind" \/ GaveUp
        \/ overlapped
        \/ dangling # {}

\* The address saved for a client stays that of its thread object until more
\* clients were served than the vector was created with elements (200).
AddressesValid == accepted <= InitThreads => dangling = {}

\* Every running handler can be found by close_all_sockets, before and during
\* the stop: its client is in the list or about to be pushed.  The exceptions
\* are a handler whose saved thread pointer went stale, which is popped without
\* being joined, and a push that overlapped main's close_all_sockets.
HandlersListed ==
    \A c \in Conns :
        Active(c) => \/ c \in ToSet(clients)
                     \/ c = accepted /\ pc["acceptor"] = "pushing"
                     \/ c \in dangling
                     \/ overlapped

\* Once the operator asked for the stop, only a handler that is still active
\* can keep the process from ending: main and the acceptor do not wait for
\* each other or for the mutex for ever.
StopWaitsOnlyForHandlers ==
    Stopping ~> (proc # "running" \/ \E c \in Conns : Active(c))

\* A connection that waits to be accepted is served even if all the others
\* are idle, stuck or gone: it is greeted, unless the acceptor stopped
\* accepting or the process ended.
Greeted ==
    \A c \in Conns :
        c \in (accepted + 1)..connected
            ~> (handler[c] \notin {"none", "hello"} \/ Stopping \/ GaveUp \/ proc # "running")
=============================================================================
