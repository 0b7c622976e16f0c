----------------------------- MODULE FtpSession -----------------------------
(***************************************************************************)
(* Sessions of the FTP service: the client program (Client::run_client) at *)
(* one end of each connection, its handler on the server                   *)
(* (Server::respond_client and the commands of common_command.cpp) at the  *)
(* other, and the directory list that all handlers share.                  *)
(*                                                                         *)
(* What the server sends is a sequence of fragments <<code, name>>: a      *)
(* response, or an entry of a listing, whose first characters are "drw".   *)
(* A directory name is its rank in the list's order; 0 is the empty name,  *)
(* the only one without a delimiter at its end.  Calls on the list are     *)
(* atomic, which is what module Directories shows of them.                 *)
(*                                                                         *)
(* The server may end a session at any step: at the operator's command,    *)
(* which shuts the connections down one after the other, or because its    *)
(* process is killed, which ends them all.                                 *)
(***************************************************************************)
EXTENDS Naturals, Sequences, FiniteSets, SequencesExt

CONSTANTS Sessions,   \* clients, each with a connection and a handler
          Names       \* arguments of MKD and RMD

ASSUME NamesAssumption == Names \subseteq Nat

Unnamed == 0
Entry == "drw"

\* SYST, HELP and PWD differ in the code of their answer only.
InfoCode == [SYST |-> "215", HELP |-> "214", PWD |-> "257"]

\* Commands as the user may type them; "empty" is an empty line or the end of
\* the input, "OTHER" what identify_command does not know.
Requests ==
    [op : {"USER", "PASS"}, arg : {"right", "wrong"}]
        \cup [op : {"MKD", "RMD"}, arg : Names]
        \cup [op : DOMAIN InfoCode \cup {"LIST", "QUIT", "OTHER", "empty"}, arg : {"none"}]

NoRequest == [op |-> "none", arg |-> "none"]

VARIABLES
    client,         \* next step of each client program
    toServer,       \* the request in the connection or being attended
    toClient,       \* fragments sent and not read
    shown,          \* entries shown by the listing under way or last read
    code,           \* code of the last response read
    handler,        \* next step of each handler
    possible_user,  \* Client::possible_user
    logged,         \* Client::logged
    directories,    \* Server::directories
    entitled,       \* history: the user has given the right name and password
    asked,          \* history: the LIST, MKD or RMD under way or answered last
    window          \* history: what it could see of the list since then

clientVars == <<client, shown, code, entitled, asked>>
handlerVars == <<handler, possible_user, logged>>
vars == <<clientVars, toServer, toClient, handlerVars, directories, window>>

Init ==
    /\ client = [s \in Sessions |-> "hello"]
    /\ toServer = [s \in Sessions |-> NoRequest]
    /\ toClient = [s \in Sessions |-> <<>>]
    /\ shown = [s \in Sessions |-> {}]
    /\ code = [s \in Sessions |-> "none"]
    /\ handler = [s \in Sessions |-> "hello"]
    /\ possible_user = [s \in Sessions |-> "none"]
    /\ logged = [s \in Sessions |-> FALSE]
    /\ directories = {}
    /\ entitled = [s \in Sessions |-> "none"]
    /\ asked = [s \in Sessions |-> NoRequest]
    /\ window = [s \in Sessions |-> {}]

-----------------------------------------------------------------------------
(* The client program.                                                     *)

\* Mutant of Delimited: the farewell has no delimiter.
DelimitedButBye(fragment) == fragment \notin {<<Entry, Unnamed>>, <<"221", Unnamed>>}

\* The bytes of a fragment end with the delimiter, RECEIVED_STRING_DELIMITER.
Delimited(fragment) == fragment # <<Entry, Unnamed>>

\* receive_string: a line is the fragments up to the first delimited one, and
\* its code is the first one's.
ReadLine(s) ==
    \E n \in 1..Len(toClient[s]) :
        /\ Delimited(toClient[s][n])
        /\ \A i \in 1..(n - 1) : ~Delimited(toClient[s][i])
        /\ toClient' = [toClient EXCEPT ![s] = SubSeq(@, n + 1, Len(@))]
        /\ code' = [code EXCEPT ![s] = toClient[s][1][1]]
        /\ shown' = [shown EXCEPT ![s] = @ \cup
                        {toClient[s][i][2] : i \in {j \in 1..n : toClient[s][j][1] = Entry}}]
    /\ UNCHANGED <<entitled, asked, toServer, handlerVars, directories, window>>

ClientAt(s, label) == client' = [client EXCEPT ![s] = label]

\* receive_hello.
ReceiveHello(s) ==
    /\ client[s] = "hello"
    /\ ReadLine(s)
    /\ ClientAt(s, "input")

\* What the user has shown to know, for OnlyEntitled.
Entitlement(s, r) ==
    CASE r.op = "USER" /\ entitled[s] # "password" -> IF r.arg = "right" THEN "user" ELSE "none"
      [] r.op = "PASS" /\ entitled[s] = "user" /\ r.arg = "right" -> "password"
      [] OTHER -> entitled[s]

\* What a request sees of the list: all of it, or whether a name is in it.
Seen(request, dirs) == IF request.op = "LIST" THEN dirs ELSE dirs \cap {request.arg}

\* get_user_input and the request; the empty line is sent too, and ends the
\* program.  quit_received is evaluated for an empty line only, where it does
\* not count.  After the server has ended the session, sending may fail.
Type(s) ==
    /\ client[s] = "input"
    /\ \E r \in Requests :
          /\ toServer' = [toServer EXCEPT ![s] = IF handler[s] \in {"done", "gone"} THEN @ ELSE r]
          /\ \/ ClientAt(s, IF r.op = "empty" THEN "done" ELSE "response")
             \/ handler[s] = "gone" /\ ClientAt(s, "failed")
          /\ entitled' = [entitled EXCEPT ![s] = Entitlement(s, r)]
          /\ LET sees == r.op \in {"LIST", "MKD", "RMD"}
             IN  /\ asked' = [asked EXCEPT ![s] = IF sees THEN r ELSE NoRequest]
                 /\ window' = [window EXCEPT ![s] = IF sees THEN {Seen(r, directories)} ELSE {}]
    /\ shown' = [shown EXCEPT ![s] = {}]
    /\ code' = [code EXCEPT ![s] = "none"]
    /\ UNCHANGED <<toClient, handlerVars, directories>>

ReceiveResponse(s) ==
    /\ client[s] = "response"
    /\ ReadLine(s)
    /\ ClientAt(s, IF code'[s] = "150" THEN "list" ELSE "input")

\* receive_list, until a line whose code is ID_LIST_END.
ReceiveList(s) ==
    /\ client[s] = "list"
    /\ ReadLine(s)
    /\ ClientAt(s, IF code'[s] = "226" THEN "input" ELSE "list")

\* receive_string does not look at the result of receive: once the session has
\* ended and no line is left, it goes on adding a byte to its string ...
FindsEnd(s) ==
    /\ client[s] \in {"hello", "response", "list"}
    /\ handler[s] = "gone"
    /\ ~\E n \in 1..Len(toClient[s]) : Delimited(toClient[s][n])
    /\ ClientAt(s, "spinning")
    /\ UNCHANGED <<shown, code, entitled, asked, toServer, toClient, handlerVars, directories, window>>

\* ... until there is no memory for it, an exception that ends the program.
NoMemory(s) ==
    /\ client[s] = "spinning"
    /\ ClientAt(s, "failed")
    /\ UNCHANGED <<shown, code, entitled, asked, toServer, toClient, handlerVars, directories, window>>

Reads(s) == ReceiveHello(s) \/ ReceiveResponse(s) \/ ReceiveList(s) \/ FindsEnd(s)

-----------------------------------------------------------------------------
(* The handler.                                                            *)

Sends(s, fragments) == toClient' = [toClient EXCEPT ![s] = @ \o fragments]
HandlerAt(s, label) == handler' = [handler EXCEPT ![s] = label]
Serves(s, op) == handler[s] = "respond" /\ toServer[s].op = op
Response(c) == <<<<c, Unnamed>>>>

\* The request has been attended: the handler reads the next one.
Attended(s, next) ==
    /\ HandlerAt(s, next)
    /\ toServer' = [toServer EXCEPT ![s] = NoRequest]

\* send_hello.
SendHello(s) ==
    /\ handler[s] = "hello"
    /\ Sends(s, Response("220"))
    /\ HandlerAt(s, "recv")
    /\ UNCHANGED <<clientVars, toServer, possible_user, logged, directories, window>>

\* receive_string and create_command; a string of one character ends the loop.
ReceiveRequest(s) ==
    /\ handler[s] = "recv"
    /\ toServer[s] # NoRequest
    /\ \/ toServer[s].op # "empty" /\ HandlerAt(s, "respond") /\ UNCHANGED toServer
       \/ toServer[s].op = "empty" /\ Attended(s, "done")
    /\ UNCHANGED <<clientVars, toClient, possible_user, logged, directories, window>>

User(s) ==
    /\ Serves(s, "USER")
    /\ Sends(s, Response("331"))
    /\ possible_user' = [possible_user EXCEPT ![s] = toServer[s].arg]
    /\ Attended(s, "recv")
    /\ UNCHANGED <<clientVars, logged, directories, window>>

\* Mutant of ValidCredentials: the password is enough.
ValidPassword(s) == toServer[s].arg = "right"

\* valid_credentials.
ValidCredentials(s) == possible_user[s] = "right" /\ toServer[s].arg = "right"

\* Mutant of Pass: the else is missing.
PassTwice(s) ==
    /\ Serves(s, "PASS")
    /\ Sends(s, (IF ValidCredentials(s) THEN Response("230") ELSE <<>>) \o Response("530"))
    /\ logged' = [logged EXCEPT ![s] = @ \/ ValidCredentials(s)]
    /\ Attended(s, "recv")
    /\ UNCHANGED <<clientVars, possible_user, directories, window>>

Pass(s) ==
    /\ Serves(s, "PASS")
    /\ Sends(s, Response(IF ValidCredentials(s) THEN "230" ELSE "530"))
    /\ logged' = [logged EXCEPT ![s] = @ \/ ValidCredentials(s)]
    /\ Attended(s, "recv")
    /\ UNCHANGED <<clientVars, possible_user, directories, window>>

\* SYST, HELP and PWD.
Info(s) ==
    /\ \E op \in DOMAIN InfoCode :
          /\ Serves(s, op)
          /\ Sends(s, Response(IF logged[s] THEN InfoCode[op] ELSE "530"))
    /\ Attended(s, "recv")
    /\ UNCHANGED <<clientVars, possible_user, logged, directories, window>>

\* Every command but USER, PASS, QUIT and the unknown one needs a login.
NotLogged(s) ==
    /\ \E op \in {"MKD", "RMD", "LIST"} : Serves(s, op)
    /\ ~logged[s]
    /\ Sends(s, Response("530"))
    /\ Attended(s, "recv")
    /\ UNCHANGED <<clientVars, possible_user, logged, directories, window>>

\* The list changes; the requests under way may see the new one.
Becomes(dirs) ==
    /\ directories' = dirs
    /\ window' = [s \in Sessions |->
          IF asked[s] = NoRequest THEN {} ELSE window[s] \cup {Seen(asked[s], dirs)}]

\* Mutant of AnswerNaming: the response is built and not sent.
AnswerUnsent(s, c) == Attended(s, "recv") /\ UNCHANGED toClient

\* format_cmd removes the delimiter of the name; for the name that has none,
\* the response is not built: an exception ends the handler.
AnswerNaming(s, c) ==
    \/ /\ toServer[s].arg # Unnamed
       /\ Sends(s, Response(c))
       /\ Attended(s, "recv")
    \/ /\ toServer[s].arg = Unnamed
       /\ Attended(s, "done")
       /\ UNCHANGED toClient

\* Mutant of Mkd: the result of add_directory is not looked at.
MkdAlways(s) ==
    /\ Serves(s, "MKD")
    /\ logged[s]
    /\ Becomes(directories \cup {toServer[s].arg})
    /\ AnswerNaming(s, "257")
    /\ UNCHANGED <<clientVars, possible_user, logged>>

Mkd(s) ==
    /\ Serves(s, "MKD")
    /\ logged[s]
    /\ \/ /\ toServer[s].arg \notin directories
          /\ Becomes(directories \cup {toServer[s].arg})
          /\ AnswerNaming(s, "257")
       \/ /\ toServer[s].arg \in directories
          /\ Sends(s, Response("550"))
          /\ Attended(s, "recv")
          /\ UNCHANGED <<directories, window>>
    /\ UNCHANGED <<clientVars, possible_user, logged>>

Rmd(s) ==
    /\ Serves(s, "RMD")
    /\ logged[s]
    /\ \/ /\ toServer[s].arg \in directories
          /\ Becomes(directories \ {toServer[s].arg})
          /\ AnswerNaming(s, "250")
       \/ /\ toServer[s].arg \notin directories
          /\ Sends(s, Response("550"))
          /\ Attended(s, "recv")
          /\ UNCHANGED <<directories, window>>
    /\ UNCHANGED <<clientVars, possible_user, logged>>

\* LIST: the beginning ...
ListBegin(s) ==
    /\ Serves(s, "LIST")
    /\ logged[s]
    /\ Sends(s, Response("150"))
    /\ HandlerAt(s, "list_size")
    /\ UNCHANGED <<clientVars, toServer, possible_user, logged, directories, window>>

\* ... directories_size() ...
ListSize(s) ==
    /\ handler[s] = "list_size"
    /\ HandlerAt(s, IF Cardinality(directories) > 0 THEN "list_entries" ELSE "list_end")
    /\ UNCHANGED <<clientVars, toServer, toClient, possible_user, logged, directories, window>>

\* The walk through std::set, in the order of the names.
InOrder ==
    CHOOSE names \in [1..Cardinality(directories) -> directories] :
        \A i, j \in 1..Cardinality(directories) : i < j => names[i] < names[j]

\* Mutant of Entries: positions in the list in place of names.
EntriesByPosition == [i \in 1..Cardinality(directories) |-> <<Entry, i>>]

\* Mutant of Entries: the iterator starts behind the first name.
EntriesButFirst == [i \in 1..(Cardinality(directories) - 1) |-> <<Entry, InOrder[i + 1]>>]

Entries == [i \in 1..Cardinality(directories) |-> <<Entry, InOrder[i]>>]

\* ... get_list(), another access of the list ...
ListEntries(s) ==
    /\ handler[s] = "list_entries"
    /\ Sends(s, Entries)
    /\ HandlerAt(s, "list_end")
    /\ UNCHANGED <<clientVars, toServer, possible_user, logged, directories, window>>

\* ... and the end.
ListEnd(s) ==
    /\ handler[s] = "list_end"
    /\ Sends(s, Response("226"))
    /\ Attended(s, "recv")
    /\ UNCHANGED <<clientVars, possible_user, logged, directories, window>>

\* cli.quit ends respond_client's loop; the connection stays open.
Quit(s) ==
    /\ Serves(s, "QUIT")
    /\ Sends(s, Response("221"))
    /\ Attended(s, "done")
    /\ UNCHANGED <<clientVars, possible_user, logged, directories, window>>

Invalid(s) ==
    /\ Serves(s, "OTHER")
    /\ Sends(s, Response("530"))
    /\ Attended(s, "recv")
    /\ UNCHANGED <<clientVars, possible_user, logged, directories, window>>

Handles(s) ==
    \/ SendHello(s) \/ ReceiveRequest(s) \/ User(s) \/ Pass(s) \/ Info(s) \/ NotLogged(s)
    \/ Mkd(s) \/ Rmd(s) \/ ListBegin(s) \/ ListSize(s) \/ ListEntries(s) \/ ListEnd(s)
    \/ Quit(s) \/ Invalid(s)

\* The server ends the session; what was not received may be lost.
ServerEnds(s) ==
    /\ HandlerAt(s, "gone")
    /\ \E n \in 0..Len(toClient[s]) : toClient' = [toClient EXCEPT ![s] = SubSeq(@, 1, n)]
    /\ toServer' = [toServer EXCEPT ![s] = NoRequest]
    /\ possible_user' = [possible_user EXCEPT ![s] = "none"]
    /\ logged' = [logged EXCEPT ![s] = FALSE]
    /\ UNCHANGED <<clientVars, directories, window>>

-----------------------------------------------------------------------------
Next == \E s \in Sessions : Type(s) \/ Reads(s) \/ NoMemory(s) \/ Handles(s) \/ ServerEnds(s)

Spec == Init /\ [][Next]_vars

\* Programs keep reading and handlers keep serving; users need not type, and
\* neither has the server to end nor memory to run out.
FairSpec == Spec /\ \A s \in Sessions : WF_vars(Reads(s)) /\ WF_vars(Handles(s))

-----------------------------------------------------------------------------
Codes ==
    {"220", "331", "230", "530", "250", "550", "150", "226", "221"}
        \cup {InfoCode[op] : op \in DOMAIN InfoCode}

TypeOK ==
    /\ client \in [Sessions -> {"hello", "input", "response", "list", "done", "spinning", "failed"}]
    /\ toServer \in [Sessions -> Requests \cup {NoRequest}]
    /\ toClient \in [Sessions -> Seq((Codes \X {Unnamed}) \cup ({Entry} \X Names))]
    /\ shown \in [Sessions -> SUBSET Names]
    /\ code \in [Sessions -> Codes \cup {Entry, "none"}]
    /\ handler \in [Sessions -> {"hello", "recv", "respond", "list_size", "list_entries",
                                 "list_end", "done", "gone"}]
    /\ possible_user \in [Sessions -> {"none", "right", "wrong"}]
    /\ logged \in [Sessions -> BOOLEAN]
    /\ directories \subseteq Names
    /\ entitled \in [Sessions -> {"none", "user", "password"}]
    /\ asked \in [Sessions -> Requests \cup {NoRequest}]
    /\ window \in [Sessions -> SUBSET SUBSET Names]

\* At the prompt nothing is left unread and no request unattended: a response
\* never gets taken for that of a later command.
InStep ==
    \A s \in Sessions : client[s] = "input" => toClient[s] = <<>> /\ toServer[s] = NoRequest

\* Codes that a session gets after its login only.
LoggedCodes == {"215", "214", "257", "150", "226", "250", "550", Entry}

\* What a session is told after a login, it is told only once its user has
\* typed the right name and then the right password.
OnlyEntitled ==
    \A s \in Sessions : code[s] \in LoggedCodes => entitled[s] = "password"

\* What a user is told of the list was true at an instant between the request
\* and the answer, whatever others do to it meanwhile: a listing is the list of
\* one instant, though its size is looked up apart; a name that was created or
\* removed was absent and then present, or the reverse; one that was refused was
\* present, or absent.
ToldTrue ==
    \A s \in Sessions :
        LET n == asked[s].arg
        IN  /\ code[s] = "226" => shown[s] \in window[s]
            /\ asked[s].op = "MKD" /\ code[s] = "257" => window[s] = {{}, {n}}
            /\ asked[s].op = "MKD" /\ code[s] = "550" => {n} \in window[s]
            /\ asked[s].op = "RMD" /\ code[s] = "250" => window[s] = {{}, {n}}
            /\ asked[s].op = "RMD" /\ code[s] = "550" => {} \in window[s]

\* An entry of the empty name was sent to the client: it has no delimiter, and
\* what follows is read as part of it.
Jammed(s) == Unnamed \in shown[s] \/ <<Entry, Unnamed>> \in ToSet(toClient[s])

\* Every request is answered and every listing comes to its end, and what a
\* handler has sent before it ended, or the server the session, is still read:
\* a client waits in vain only for a handler that has ended, with nothing left
\* to read, or because an entry of the empty name jams it.
Answered ==
    \A s \in Sessions :
        client[s] \in {"hello", "response", "list"}
            ~> \/ client[s] = "input"
               \/ handler[s] \in {"done", "gone"} /\ toClient[s] = <<>>
               \/ Jammed(s)
=============================================================================
