------------------------- MODULE FtpSessionProofs -------------------------
(***************************************************************************)
(* Proofs about the sessions, for any set of clients and any names.  What  *)
(* a client is told is right because its session is in step: the invariant *)
(* says which requests and fragments may be under way at each step of the  *)
(* client and of its handler (ClientFits, OneAnswer), that each code on    *)
(* its way is true when it is read (CodesTrue, ListTrue), since the window *)
(* only grows until the next request (Watched), and that a handler never   *)
(* takes for a login what its user has not earned (LoginEarned).           *)
(***************************************************************************)
EXTENDS FtpSession, OrderLemmas, SequenceTheorems

Listing == {"list_size", "list_entries", "list_end"}

\* What a handler is at fits the request that its session has under way.
RequestHeld(s) ==
    /\ handler[s] \in {"hello", "done", "gone"} => toServer[s] = NoRequest
    /\ handler[s] = "respond" => toServer[s] # NoRequest /\ toServer[s].op # "empty"
    /\ handler[s] \in Listing => toServer[s].op = "LIST" /\ logged[s]

\* What a client is at fits what its handler is at.
ClientFits(s) ==
    /\ client[s] = "hello" => toServer[s] = NoRequest /\ handler[s] \in {"hello", "recv", "gone"}
    /\ handler[s] = "hello" => client[s] = "hello"
    /\ client[s] = "input" => /\ toServer[s] = NoRequest
                              /\ toClient[s] = <<>>
                              /\ handler[s] \in {"recv", "done", "gone"}
    /\ client[s] = "response" => toServer[s].op # "empty"
    /\ client[s] = "list" => /\ handler[s] \in Listing \cup {"recv", "gone"}
                             /\ handler[s] = "recv" => toServer[s] = NoRequest
    /\ client[s] = "done" => /\ toServer[s] = NoRequest \/ toServer[s].op = "empty"
                             /\ handler[s] \in {"recv", "done", "gone"}
    /\ client[s] \in {"spinning", "failed"} => handler[s] = "gone"

\* From its k-th fragment on, t is entries and at its very end that of a listing.
ListingFrom(t, k) ==
    \A i \in k..Len(t) : t[i][1] = Entry \/ (t[i][1] = "226" /\ i = Len(t))

\* What is on its way to a client is the rest of one answer.
OneAnswer(s) ==
    LET t == toClient[s]
    IN  /\ client[s] = "hello" => \/ t = <<>>
                                  \/ t = Response("220") /\ handler[s] # "hello"
        /\ client[s] = "response" =>
              /\ ListingFrom(t, 2)
              /\ t # <<>> => /\ t[1][1] \notin {Entry, "226"}
                             /\ t[1][1] # "150" => Len(t) = 1
                             /\ handler[s] = "done" => t[1][1] # "150"
              /\ toServer[s] # NoRequest /\ handler[s] \in {"recv", "respond"} => t = <<>>
              /\ handler[s] \in Listing => t # <<>> /\ t[1][1] = "150"
              /\ handler[s] \in {"list_size", "list_entries"} => Len(t) = 1
        /\ client[s] = "list" =>
              /\ ListingFrom(t, 1)
              /\ handler[s] \in {"list_size", "list_entries"} => t = <<>>
        /\ handler[s] \in Listing => \A i \in 1..Len(t) : t[i][1] # "226"

\* The handler takes for a login what the user was entitled to, as far as the
\* requests that it has attended go.
LoginEarned(s) ==
    /\ logged[s] => entitled[s] = "password"
    /\ handler[s] \notin {"done", "gone"} =>
          /\ toServer[s].op # "USER" /\ possible_user[s] = "right" =>
                entitled[s] \in {"user", "password"}
          /\ toServer[s].op = "USER" /\ toServer[s].arg = "right" =>
                entitled[s] \in {"user", "password"}
          /\ toServer[s].op = "PASS" /\ toServer[s].arg = "right" /\ possible_user[s] = "right" =>
                entitled[s] = "password"

\* The window holds what the request asks of the list now.
Watched(s) ==
    /\ asked[s] = NoRequest \/ asked[s].op \in {"LIST", "MKD", "RMD"}
    /\ asked[s] = NoRequest => window[s] = {}
    /\ asked[s] # NoRequest => Seen(asked[s], directories) \in window[s]
    /\ asked[s].op \in {"MKD", "RMD"} => window[s] \subseteq {{}, {asked[s].arg}}
    /\ toServer[s] # NoRequest =>
          asked[s] = IF toServer[s].op \in {"LIST", "MKD", "RMD"} THEN toServer[s] ELSE NoRequest

\* What a code, but that of the end of a listing, tells the user is true.
CodeTrue(s, c) ==
    LET n == asked[s].arg
    IN  /\ c \in LoggedCodes => entitled[s] = "password"
        /\ asked[s].op = "MKD" /\ c = "257" => window[s] = {{}, {n}}
        /\ asked[s].op = "MKD" /\ c = "550" => {n} \in window[s]
        /\ asked[s].op = "RMD" /\ c = "250" => window[s] = {{}, {n}}
        /\ asked[s].op = "RMD" /\ c = "550" => {} \in window[s]

CodesTrue(s) ==
    /\ CodeTrue(s, code[s])
    /\ \A i \in 1..Len(toClient[s]) : CodeTrue(s, toClient[s][i][1])

EntriesIn(t) == {t[i][2] : i \in {j \in 1..Len(t) : t[j][1] = Entry}}

\* All the entries of a listing have been sent.
AllSent(s) ==
    handler[s] = "list_end" \/ \E i \in 1..Len(toClient[s]) : toClient[s][i][1] = "226"

\* The entries shown and those on their way are a list of one instant.
ListTrue(s) ==
    LET t == toClient[s]
    IN  /\ code[s] = "226" => shown[s] \in window[s]
        /\ client[s] = "response" => shown[s] = {}
        /\ client[s] = "list" /\ handler[s] \in {"list_size", "list_entries"} => shown[s] = {}
        /\ client[s] \in {"response", "list"} /\ AllSent(s) =>
              shown[s] \cup EntriesIn(t) \in window[s]

SInv(s) ==
    /\ RequestHeld(s)
    /\ ClientFits(s)
    /\ OneAnswer(s)
    /\ LoginEarned(s)
    /\ Watched(s)
    /\ CodesTrue(s)
    /\ ListTrue(s)

IInv ==
    /\ TypeOK
    /\ IsFiniteSet(directories)
    /\ \A s \in Sessions : SInv(s)

-----------------------------------------------------------------------------
USE DEF vars, clientVars, handlerVars

Fragments == (Codes \X {Unnamed}) \cup ({Entry} \X Names)

\* The codes, one by one.
LEMMA CodesListed ==
    Codes = {"220", "331", "230", "530", "250", "550", "150", "226", "221", "215", "214", "257"}
BY DEF Codes, InfoCode

\* What a request looks like.
LEMMA RequestShape ==
    ASSUME NEW r \in Requests
    PROVE /\ r # NoRequest
          /\ r.op \in {"USER", "PASS", "MKD", "RMD", "SYST", "HELP", "PWD", "LIST", "QUIT",
                       "OTHER", "empty"}
          /\ r.op \in {"USER", "PASS"} => r.arg \in {"right", "wrong"}
          /\ r.op \in {"MKD", "RMD"} => r.arg \in Names
BY DEF Requests, NoRequest, InfoCode

\* One fragment more at the end of what is on its way.
LEMMA OneMore ==
    ASSUME NEW t \in Seq(Fragments), NEW c \in Codes
    PROVE /\ t \o Response(c) \in Seq(Fragments)
          /\ Len(t \o Response(c)) = Len(t) + 1
          /\ \A i \in 1..Len(t) : (t \o Response(c))[i] = t[i]
          /\ (t \o Response(c))[Len(t) + 1] = <<c, Unnamed>>
          /\ EntriesIn(t \o Response(c)) = EntriesIn(t)
<1>. DEFINE u == t \o Response(c)
<1>1. <<c, Unnamed>> \in Fragments /\ Response(c) \in Seq(Fragments) /\ Len(Response(c)) = 1
  BY DEF Fragments, Response
<1>2. /\ u \in Seq(Fragments)
      /\ Len(u) = Len(t) + 1
      /\ \A i \in 1..Len(t) : u[i] = t[i]
      /\ u[Len(t) + 1] = <<c, Unnamed>>
  BY <1>1 DEF Response
<1>3. c # Entry
  BY CodesListed DEF Entry
<1>4. EntriesIn(u) = EntriesIn(t)
  <2>. HIDE DEF u
  <2>1. \A i \in 1..Len(u) : u[i][1] = Entry => i \in 1..Len(t)
    BY <1>2, <1>3
  <2>. QED
    BY <1>2, <2>1 DEF EntriesIn
<1>. QED
  BY <1>2, <1>4

LEMMA InitIInv == Init => IInv
<1>. SUFFICES ASSUME Init PROVE IInv
  OBVIOUS
<1>1. TypeOK
  BY DEF Init, TypeOK, Fragments
<1>2. IsFiniteSet(directories)
  BY FS_EmptySet DEF Init
<1>3. ASSUME NEW s \in Sessions PROVE SInv(s)
  BY DEF Init, SInv, RequestHeld, ClientFits, OneAnswer, LoginEarned, Watched, CodesTrue, CodeTrue,
         ListTrue, AllSent, EntriesIn, NoRequest, ListingFrom, LoggedCodes, Listing, Entry
<1>. QED
  BY <1>1, <1>2, <1>3 DEF IInv

-----------------------------------------------------------------------------
(* A session that does not move.                                           *)

Same(q) ==
    /\ client'[q] = client[q] /\ shown'[q] = shown[q] /\ code'[q] = code[q]
    /\ entitled'[q] = entitled[q] /\ asked'[q] = asked[q]
    /\ toServer'[q] = toServer[q] /\ toClient'[q] = toClient[q]
    /\ handler'[q] = handler[q] /\ possible_user'[q] = possible_user[q] /\ logged'[q] = logged[q]

\* What the list becomes, as session q sees it.
Changes(q) ==
    \/ directories' = directories /\ window'[q] = window[q]
    \/ \E dirs \in SUBSET Names : Becomes(dirs)

\* What was in the window stays there, and a code stays true, when the list
\* changes.
LEMMA ListChanges ==
    ASSUME IInv, NEW q \in Sessions, Changes(q), asked'[q] = asked[q], entitled'[q] = entitled[q]
    PROVE /\ window[q] \subseteq window'[q]
          /\ \A c : CodeTrue(q, c) => CodeTrue(q, c)'
          /\ toServer'[q] \in {toServer[q], NoRequest} => Watched(q)'
<1>1. Watched(q)
  BY DEF IInv, SInv
<1>2. CASE directories' = directories /\ window'[q] = window[q]
  <2>1. \A c : CodeTrue(q, c) => CodeTrue(q, c)'
    BY <1>2 DEF CodeTrue
  <2>2. toServer'[q] \in {toServer[q], NoRequest} => Watched(q)'
    BY <1>1, <1>2 DEF Watched, NoRequest
  <2>. QED
    BY <1>2, <2>1, <2>2
<1>3. ASSUME NEW dirs \in SUBSET Names, Becomes(dirs)
      PROVE /\ window[q] \subseteq window'[q]
            /\ \A c : CodeTrue(q, c) => CodeTrue(q, c)'
            /\ toServer'[q] \in {toServer[q], NoRequest} => Watched(q)'
  <2>1. window'[q] = IF asked[q] = NoRequest THEN {} ELSE window[q] \cup {Seen(asked[q], dirs)}
    BY <1>3 DEF Becomes
  <2>2. directories' = dirs
    BY <1>3 DEF Becomes
  <2>3. window[q] \subseteq window'[q]
    BY <1>1, <2>1 DEF Watched
  <2>4. asked[q].op \in {"MKD", "RMD"} => window'[q] \subseteq {{}, {asked[q].arg}}
    <3>1. asked[q].op \in {"MKD", "RMD"} => Seen(asked[q], dirs) \in {{}, {asked[q].arg}}
      BY DEF Seen
    <3>. QED
      BY <1>1, <2>1, <3>1 DEF Watched
  <2>5. ASSUME NEW c, CodeTrue(q, c) PROVE CodeTrue(q, c)'
    <3>1. asked[q].op \in {"MKD", "RMD"} /\ window[q] = {{}, {asked[q].arg}} => window'[q] = window[q]
      <4>1. HAVE asked[q].op \in {"MKD", "RMD"} /\ window[q] = {{}, {asked[q].arg}}
      <4>2. window'[q] \subseteq window[q]
        BY <2>4, <4>1
      <4>. QED
        BY <2>3, <4>2
    <3>. QED
      BY <2>3, <2>5, <3>1 DEF CodeTrue
  <2>6. toServer'[q] \in {toServer[q], NoRequest} => Watched(q)'
    BY <1>1, <2>1, <2>2, <2>4 DEF Watched, NoRequest
  <2>. QED
    BY <2>3, <2>5, <2>6
<1>. QED
  BY <1>2, <1>3 DEF Changes

LEMMA SameKept ==
    ASSUME IInv, NEW q \in Sessions, Same(q), Changes(q)
    PROVE SInv(q)'
<1>1. SInv(q)
  BY DEF IInv
<1>2. RequestHeld(q)' /\ ClientFits(q)' /\ OneAnswer(q)' /\ LoginEarned(q)'
  BY <1>1 DEF SInv, Same, RequestHeld, ClientFits, OneAnswer, LoginEarned
<1>3. /\ window[q] \subseteq window'[q]
      /\ \A c : CodeTrue(q, c) => CodeTrue(q, c)'
      /\ Watched(q)'
  BY ListChanges DEF Same
<1>4. CodesTrue(q)'
  BY <1>1, <1>3 DEF SInv, Same, CodesTrue
<1>5. ListTrue(q)'
  BY <1>1, <1>3 DEF SInv, Same, ListTrue, AllSent
<1>. QED
  BY <1>2, <1>3, <1>4, <1>5 DEF SInv

-----------------------------------------------------------------------------
(* The handler attends a request.                                          *)

\* While a request other than LIST is attended nothing is on its way.
LEMMA NothingUnread ==
    ASSUME IInv, NEW s \in Sessions, handler[s] = "respond"
    PROVE /\ client[s] = "response"
          /\ toClient[s] = <<>>
          /\ toServer[s] \in Requests
          /\ shown[s] = {}
<1>1. RequestHeld(s) /\ ClientFits(s) /\ OneAnswer(s) /\ ListTrue(s)
  BY DEF IInv, SInv
<1>2. toServer[s] # NoRequest /\ toServer[s].op # "empty" /\ toServer[s] \in Requests
  BY <1>1 DEF RequestHeld, IInv, TypeOK
<1>3. client[s] = "response"
  BY <1>1, <1>2 DEF ClientFits, IInv, TypeOK, Listing
<1>. QED
  BY <1>1, <1>2, <1>3 DEF OneAnswer, ListTrue

\* The answer to a request other than LIST, or none.
LEMMA AnswerKept ==
    ASSUME IInv, NEW s \in Sessions, handler[s] = "respond",
           NEW next \in {"recv", "done"}, Attended(s, next),
           UNCHANGED clientVars, Changes(s),
           NEW c \in Codes \ {"150", "226"}, CodeTrue(s, c)',
           Sends(s, Response(c)) \/ toClient' = toClient,
           LoginEarned(s)'
    PROVE SInv(s)'
<1>1. SInv(s) /\ TypeOK
  BY DEF IInv
<1>2. client[s] = "response" /\ toClient[s] = <<>> /\ shown[s] = {}
  BY NothingUnread
<1>3. handler'[s] = next /\ toServer'[s] = NoRequest /\ client'[s] = "response" /\ shown'[s] = {}
      /\ code'[s] = code[s]
  BY <1>1, <1>2 DEF Attended, HandlerAt, TypeOK
<1>4. toClient'[s] \in {<<>>, <<<<c, Unnamed>>>>}
  BY <1>1, <1>2 DEF Sends, TypeOK, Response
<1>5. c \notin {Entry, "150", "226"}
  BY CodesListed DEF Entry
<1>6. RequestHeld(s)'
  BY <1>3 DEF RequestHeld, Listing
<1>7. ClientFits(s)'
  BY <1>3 DEF ClientFits, NoRequest
<1>8. OneAnswer(s)'
  BY <1>3, <1>4, <1>5 DEF OneAnswer, ListingFrom, Listing
<1>9. /\ \A d : CodeTrue(s, d) => CodeTrue(s, d)'
      /\ Watched(s)'
  BY <1>3, ListChanges
<1>10. CodesTrue(s)'
  BY <1>1, <1>3, <1>4, <1>9 DEF SInv, CodesTrue
<1>11. ListTrue(s)'
  <2>1. ~AllSent(s)'
    BY <1>3, <1>4, <1>5 DEF AllSent
  <2>2. code[s] = "226" => shown[s] \in window'[s]
    BY <1>1, <1>9, ListChanges DEF SInv, ListTrue
  <2>. QED
    BY <1>2, <1>3, <2>1, <2>2 DEF ListTrue
<1>. QED
  BY <1>6, <1>7, <1>8, <1>9, <1>10, <1>11 DEF SInv

\* The actions that end so.
LEMMA AnswersKept ==
    ASSUME IInv, NEW s \in Sessions,
           User(s) \/ Pass(s) \/ Info(s) \/ NotLogged(s) \/ Quit(s) \/ Invalid(s)
    PROVE SInv(s)'
<1>1. SInv(s) /\ TypeOK
  BY DEF IInv
<1>2. handler[s] = "respond" /\ toServer[s] \in Requests
  <2>1. handler[s] = "respond"
    BY DEF User, Pass, Info, NotLogged, Quit, Invalid, Serves
  <2>. QED
    BY <2>1, NothingUnread
<1>3. /\ asked[s] = IF toServer[s].op \in {"LIST", "MKD", "RMD"} THEN toServer[s] ELSE NoRequest
      /\ LoginEarned(s)
  BY <1>1, <1>2, RequestShape DEF SInv, Watched
<1>4. UNCHANGED clientVars /\ directories' = directories /\ window' = window
  BY DEF User, Pass, Info, NotLogged, Quit, Invalid
<1>5. Changes(s)
  BY <1>4 DEF Changes
<1>6. CASE User(s)
  <2>1. handler'[s] = "recv" /\ toServer'[s] = NoRequest /\ possible_user'[s] = toServer[s].arg
        /\ logged' = logged /\ toServer[s].op = "USER" /\ entitled' = entitled
    BY <1>1, <1>4, <1>6 DEF User, Attended, HandlerAt, Serves, TypeOK
  <2>2. LoginEarned(s)'
    BY <1>2, <1>3, <2>1 DEF LoginEarned, NoRequest
  <2>3. "331" \in Codes \ {"150", "226"} /\ CodeTrue(s, "331")'
    BY CodesListed DEF CodeTrue, LoggedCodes, Entry
  <2>. QED
    BY <1>2, <1>4, <1>5, <1>6, <2>2, <2>3, AnswerKept DEF User
<1>7. CASE Pass(s)
  <2>1. PICK c \in {"230", "530"} : Sends(s, Response(c))
    BY <1>7 DEF Pass
  <2>2. handler'[s] = "recv" /\ toServer'[s] = NoRequest /\ possible_user' = possible_user
        /\ (logged'[s] => logged[s] \/ ValidCredentials(s)) /\ toServer[s].op = "PASS"
        /\ entitled' = entitled
    BY <1>1, <1>4, <1>7 DEF Pass, Attended, HandlerAt, Serves, TypeOK
  <2>3. LoginEarned(s)'
    BY <1>2, <1>3, <2>2 DEF LoginEarned, NoRequest, ValidCredentials
  <2>4. c \in Codes \ {"150", "226"} /\ CodeTrue(s, c)'
    BY CodesListed DEF CodeTrue, LoggedCodes, Entry
  <2>. QED
    BY <1>2, <1>4, <1>5, <1>7, <2>1, <2>3, <2>4, AnswerKept DEF Pass
<1>8. CASE Info(s)
  <2>1. PICK op \in DOMAIN InfoCode :
            Serves(s, op) /\ Sends(s, Response(IF logged[s] THEN InfoCode[op] ELSE "530"))
    BY <1>8 DEF Info
  <2>2. PICK c \in Codes \ {"150", "226"} :
            Sends(s, Response(c)) /\ (c \in LoggedCodes => logged[s])
    BY <2>1, CodesListed DEF InfoCode, LoggedCodes, Entry
  <2>3. handler'[s] = "recv" /\ toServer'[s] = NoRequest /\ possible_user' = possible_user
        /\ logged' = logged /\ toServer[s].op \in {"SYST", "HELP", "PWD"} /\ entitled' = entitled
        /\ asked' = asked
    BY <1>1, <1>4, <1>8, <2>1 DEF Info, Attended, HandlerAt, Serves, TypeOK, InfoCode
  <2>4. LoginEarned(s)'
    BY <1>2, <1>3, <2>3 DEF LoginEarned, NoRequest
  <2>5. CodeTrue(s, c)'
    <3>1. asked'[s].op = "none"
      BY <1>3, <2>3 DEF NoRequest
    <3>2. c \in LoggedCodes => entitled'[s] = "password"
      BY <1>3, <2>2, <2>3 DEF LoginEarned
    <3>. QED
      BY <3>1, <3>2 DEF CodeTrue
  <2>. QED
    BY <1>2, <1>4, <1>5, <1>8, <2>2, <2>4, <2>5, AnswerKept DEF Info
<1>9. CASE NotLogged(s) \/ Invalid(s)
  <2>1. handler'[s] = "recv" /\ toServer'[s] = NoRequest /\ possible_user' = possible_user
        /\ logged' = logged /\ toServer[s].op \notin {"USER", "PASS"} /\ entitled' = entitled
    BY <1>1, <1>4, <1>9 DEF NotLogged, Invalid, Attended, HandlerAt, Serves, TypeOK
  <2>2. LoginEarned(s)'
    BY <1>2, <1>3, <2>1 DEF LoginEarned, NoRequest
  <2>3. "530" \in Codes \ {"150", "226"} /\ CodeTrue(s, "530")'
    BY CodesListed DEF CodeTrue, LoggedCodes, Entry
  <2>. QED
    BY <1>2, <1>4, <1>5, <1>9, <2>2, <2>3, AnswerKept DEF NotLogged, Invalid
<1>10. CASE Quit(s)
  <2>1. handler'[s] = "done" /\ logged' = logged /\ entitled' = entitled
    BY <1>1, <1>4, <1>10 DEF Quit, Attended, HandlerAt, Serves, TypeOK
  <2>2. LoginEarned(s)'
    BY <1>3, <2>1 DEF LoginEarned
  <2>3. "221" \in Codes \ {"150", "226"} /\ CodeTrue(s, "221")'
    BY CodesListed DEF CodeTrue, LoggedCodes, Entry
  <2>. QED
    BY <1>2, <1>4, <1>5, <1>10, <2>2, <2>3, AnswerKept DEF Quit
<1>. QED
  BY <1>6, <1>7, <1>8, <1>9, <1>10

\* A set of at most two elements that holds one of them, and the other added.
LEMMA OneOrTwo ==
    ASSUME NEW a, NEW b, NEW W, W \subseteq {a, b}
    PROVE /\ a \in W => W \cup {b} = {a, b}
          /\ b \in W => W \cup {a} = {a, b}
OBVIOUS

\* MKD and RMD see the list as it was and as it becomes.
LEMMA MkdKept ==
    ASSUME IInv, NEW s \in Sessions, Mkd(s)
    PROVE SInv(s)'
<1>. DEFINE n == toServer[s].arg
<1>1. SInv(s) /\ TypeOK /\ handler[s] = "respond" /\ toServer[s].op = "MKD" /\ logged[s]
  BY DEF IInv, Mkd, Serves
<1>2. toServer[s] \in Requests /\ n \in Names /\ directories \subseteq Names
  BY <1>1, NothingUnread, RequestShape DEF TypeOK
<1>3. /\ asked[s] = toServer[s]
      /\ asked[s] # NoRequest
      /\ entitled[s] = "password"
      /\ window[s] \subseteq {{}, {n}}
      /\ directories \cap {n} \in window[s]
  BY <1>1, <1>2, RequestShape DEF SInv, Watched, LoginEarned, Seen
<1>4. /\ UNCHANGED clientVars
      /\ logged' = logged /\ possible_user' = possible_user
      /\ \E next \in {"recv", "done"} : Attended(s, next)
  BY DEF Mkd, AnswerNaming
<1>5. handler'[s] \in {"recv", "done"} /\ toServer'[s] = NoRequest
  BY <1>1, <1>4 DEF Attended, HandlerAt, TypeOK
<1>6. LoginEarned(s)'
  BY <1>3, <1>4, <1>5 DEF LoginEarned
<1>7. CASE n \notin directories /\ Becomes(directories \cup {n}) /\ AnswerNaming(s, "257")
  <2>1. Changes(s)
    BY <1>2, <1>7 DEF Changes
  <2>2. window'[s] = window[s] \cup {(directories \cup {n}) \cap {n}}
    BY <1>1, <1>3, <1>7 DEF Becomes, Seen
  <2>3. {} \in window[s] /\ (directories \cup {n}) \cap {n} = {n}
    BY <1>3, <1>7
  <2>4. window'[s] = {{}, {n}}
    <3>1. {} \in window[s] /\ window'[s] = window[s] \cup {{n}}
      BY <1>3, <2>2, <2>3
    <3>. QED
      BY <1>3, <3>1, OneOrTwo
  <2>5. CodeTrue(s, "257")'
    BY <1>1, <1>3, <1>4, <2>4 DEF CodeTrue
  <2>6. "257" \in Codes \ {"150", "226"}
    BY CodesListed
  <2>. QED
    BY <1>1, <1>4, <1>6, <1>7, <2>1, <2>5, <2>6, AnswerKept DEF AnswerNaming
<1>8. CASE n \in directories /\ Sends(s, Response("550")) /\ UNCHANGED <<directories, window>>
  <2>1. Changes(s)
    BY <1>8 DEF Changes
  <2>2. {n} \in window[s]
    <3>1. directories \cap {n} = {n}
      BY <1>8
    <3>. QED
      BY <1>3, <3>1
  <2>3. CodeTrue(s, "550")'
    BY <1>1, <1>3, <1>4, <1>8, <2>2 DEF CodeTrue
  <2>4. "550" \in Codes \ {"150", "226"}
    BY CodesListed
  <2>. QED
    BY <1>1, <1>4, <1>6, <1>8, <2>1, <2>3, <2>4, AnswerKept
<1>. QED
  BY <1>7, <1>8 DEF Mkd

LEMMA RmdKept ==
    ASSUME IInv, NEW s \in Sessions, Rmd(s)
    PROVE SInv(s)'
<1>. DEFINE n == toServer[s].arg
<1>1. SInv(s) /\ TypeOK /\ handler[s] = "respond" /\ toServer[s].op = "RMD" /\ logged[s]
  BY DEF IInv, Rmd, Serves
<1>2. toServer[s] \in Requests /\ n \in Names /\ directories \subseteq Names
  BY <1>1, NothingUnread, RequestShape DEF TypeOK
<1>3. /\ asked[s] = toServer[s]
      /\ asked[s] # NoRequest
      /\ entitled[s] = "password"
      /\ window[s] \subseteq {{}, {n}}
      /\ directories \cap {n} \in window[s]
  BY <1>1, <1>2, RequestShape DEF SInv, Watched, LoginEarned, Seen
<1>4. /\ UNCHANGED clientVars
      /\ logged' = logged /\ possible_user' = possible_user
      /\ \E next \in {"recv", "done"} : Attended(s, next)
  BY DEF Rmd, AnswerNaming
<1>5. handler'[s] \in {"recv", "done"} /\ toServer'[s] = NoRequest
  BY <1>1, <1>4 DEF Attended, HandlerAt, TypeOK
<1>6. LoginEarned(s)'
  BY <1>3, <1>4, <1>5 DEF LoginEarned
<1>7. CASE n \in directories /\ Becomes(directories \ {n}) /\ AnswerNaming(s, "250")
  <2>1. Changes(s)
    BY <1>2, <1>7 DEF Changes
  <2>2. window'[s] = window[s] \cup {(directories \ {n}) \cap {n}}
    BY <1>1, <1>3, <1>7 DEF Becomes, Seen
  <2>3. directories \cap {n} = {n} /\ (directories \ {n}) \cap {n} = {}
    BY <1>7
  <2>4. window'[s] = {{}, {n}}
    <3>1. {n} \in window[s] /\ window'[s] = window[s] \cup {{}}
      BY <1>3, <2>2, <2>3
    <3>. QED
      BY <1>3, <3>1, OneOrTwo
  <2>5. CodeTrue(s, "250")'
    BY <1>1, <1>3, <1>4, <2>4 DEF CodeTrue
  <2>6. "250" \in Codes \ {"150", "226"}
    BY CodesListed
  <2>. QED
    BY <1>1, <1>4, <1>6, <1>7, <2>1, <2>5, <2>6, AnswerKept DEF AnswerNaming
<1>8. CASE n \notin directories /\ Sends(s, Response("550")) /\ UNCHANGED <<directories, window>>
  <2>1. Changes(s)
    BY <1>8 DEF Changes
  <2>2. {} \in window[s]
    <3>1. directories \cap {n} = {}
      BY <1>8
    <3>. QED
      BY <1>3, <3>1
  <2>3. CodeTrue(s, "550")'
    BY <1>1, <1>3, <1>4, <1>8, <2>2 DEF CodeTrue
  <2>4. "550" \in Codes \ {"150", "226"}
    BY CodesListed
  <2>. QED
    BY <1>1, <1>4, <1>6, <1>8, <2>1, <2>3, <2>4, AnswerKept
<1>. QED
  BY <1>7, <1>8 DEF Rmd

-----------------------------------------------------------------------------
(* The greeting, the requests and the listing.                             *)

LEMMA SendHelloKept ==
    ASSUME IInv, NEW s \in Sessions, SendHello(s)
    PROVE SInv(s)'
<1>1. SInv(s) /\ TypeOK /\ handler[s] = "hello"
  BY DEF IInv, SendHello
<1>2. client[s] = "hello" /\ toServer[s] = NoRequest /\ toClient[s] = <<>>
  BY <1>1 DEF SInv, ClientFits, OneAnswer, Response
<1>3. handler'[s] = "recv" /\ toClient'[s] = Response("220")
  BY <1>1, <1>2 DEF SendHello, Sends, HandlerAt, TypeOK, Response
<1>4. /\ UNCHANGED clientVars /\ toServer' = toServer /\ logged' = logged
      /\ possible_user' = possible_user /\ directories' = directories /\ window' = window
  BY DEF SendHello
<1>5. RequestHeld(s)' /\ ClientFits(s)' /\ OneAnswer(s)' /\ LoginEarned(s)'
  BY <1>1, <1>2, <1>3, <1>4 DEF SInv, RequestHeld, ClientFits, OneAnswer, LoginEarned, Listing
<1>6. Changes(s)
  BY <1>4 DEF Changes
<1>7. (\A c : CodeTrue(s, c) => CodeTrue(s, c)') /\ Watched(s)'
  BY <1>4, <1>6, ListChanges
<1>8. CodesTrue(s)'
  <2>1. CodeTrue(s, "220")
    BY DEF CodeTrue, LoggedCodes, Entry
  <2>2. Len(toClient'[s]) = 1 /\ toClient'[s][1] = <<"220", Unnamed>>
    BY <1>3 DEF Response
  <2>. QED
    BY <1>1, <1>4, <1>7, <2>1, <2>2 DEF SInv, CodesTrue
<1>9. ListTrue(s)'
  BY <1>1, <1>2, <1>4 DEF SInv, ListTrue
<1>. QED
  BY <1>5, <1>7, <1>8, <1>9 DEF SInv

LEMMA ReceiveRequestKept ==
    ASSUME IInv, NEW s \in Sessions, ReceiveRequest(s)
    PROVE SInv(s)'
<1>1. SInv(s) /\ TypeOK /\ handler[s] = "recv" /\ toServer[s] # NoRequest
  BY DEF IInv, ReceiveRequest
<1>2. client[s] \in {"response", "done"}
  BY <1>1 DEF SInv, ClientFits, TypeOK
<1>3. \/ toServer[s].op # "empty" /\ handler'[s] = "respond" /\ toServer'[s] = toServer[s]
      \/ toServer[s].op = "empty" /\ handler'[s] = "done" /\ toServer'[s] = NoRequest
  BY <1>1 DEF ReceiveRequest, Attended, HandlerAt, TypeOK
<1>4. /\ UNCHANGED clientVars /\ toClient' = toClient /\ logged' = logged
      /\ possible_user' = possible_user /\ directories' = directories /\ window' = window
  BY DEF ReceiveRequest
<1>5. RequestHeld(s)'
  BY <1>1, <1>3 DEF RequestHeld, Listing
<1>6. ClientFits(s)'
  BY <1>1, <1>2, <1>3, <1>4 DEF SInv, ClientFits, NoRequest
<1>7. OneAnswer(s)'
  BY <1>1, <1>2, <1>3, <1>4 DEF SInv, OneAnswer, Listing
<1>8. LoginEarned(s)'
  BY <1>1, <1>3, <1>4 DEF SInv, LoginEarned
<1>9. Changes(s)
  BY <1>4 DEF Changes
<1>10. (\A c : CodeTrue(s, c) => CodeTrue(s, c)') /\ Watched(s)'
  BY <1>3, <1>4, <1>9, ListChanges
<1>11. CodesTrue(s)'
  BY <1>1, <1>4, <1>10 DEF SInv, CodesTrue
<1>12. ListTrue(s)'
  BY <1>1, <1>2, <1>3, <1>4 DEF SInv, ListTrue, AllSent
<1>. QED
  BY <1>5, <1>6, <1>7, <1>8, <1>10, <1>11, <1>12 DEF SInv

\* The beginning of a listing.
LEMMA ListBeginKept ==
    ASSUME IInv, NEW s \in Sessions, ListBegin(s)
    PROVE SInv(s)'
<1>1. SInv(s) /\ TypeOK /\ handler[s] = "respond" /\ toServer[s].op = "LIST" /\ logged[s]
  BY DEF IInv, ListBegin, Serves
<1>2. client[s] = "response" /\ toClient[s] = <<>> /\ shown[s] = {}
  BY <1>1, NothingUnread
<1>3. handler'[s] = "list_size" /\ toClient'[s] = Response("150")
  BY <1>1, <1>2 DEF ListBegin, Sends, HandlerAt, TypeOK, Response
<1>4. /\ UNCHANGED clientVars /\ toServer' = toServer /\ logged' = logged
      /\ possible_user' = possible_user /\ directories' = directories /\ window' = window
  BY DEF ListBegin
<1>5. Len(toClient'[s]) = 1 /\ toClient'[s][1] = <<"150", Unnamed>>
  BY <1>3 DEF Response
<1>6. RequestHeld(s)' /\ ClientFits(s)' /\ LoginEarned(s)'
  BY <1>1, <1>2, <1>3, <1>4 DEF SInv, RequestHeld, ClientFits, LoginEarned, Listing
<1>7. OneAnswer(s)'
  BY <1>2, <1>3, <1>4, <1>5 DEF OneAnswer, ListingFrom, Entry, Listing
<1>8. Changes(s)
  BY <1>4 DEF Changes
<1>9. (\A c : CodeTrue(s, c) => CodeTrue(s, c)') /\ Watched(s)'
  BY <1>4, <1>8, ListChanges
<1>10. CodesTrue(s)'
  <2>1. CodeTrue(s, "150")
    BY <1>1 DEF CodeTrue, SInv, LoginEarned
  <2>. QED
    BY <1>1, <1>4, <1>5, <1>9, <2>1 DEF SInv, CodesTrue
<1>11. ListTrue(s)'
  <2>1. ~AllSent(s)'
    BY <1>3, <1>5 DEF AllSent
  <2>. QED
    BY <1>1, <1>2, <1>4, <2>1 DEF SInv, ListTrue
<1>. QED
  BY <1>6, <1>7, <1>9, <1>10, <1>11 DEF SInv

\* A listing of nothing has nothing to send but its end.
LEMMA ListSizeKept ==
    ASSUME IInv, NEW s \in Sessions, ListSize(s)
    PROVE SInv(s)'
<1>1. SInv(s) /\ TypeOK /\ IsFiniteSet(directories) /\ handler[s] = "list_size"
  BY DEF IInv, ListSize
<1>2. toServer[s].op = "LIST" /\ toServer[s] # NoRequest /\ client[s] \in {"response", "list"}
  BY <1>1 DEF SInv, RequestHeld, ClientFits, TypeOK, Listing, NoRequest
<1>3. /\ handler'[s] \in {"list_entries", "list_end"}
      /\ handler'[s] = "list_end" => directories = {}
  BY <1>1, FS_EmptySet, FS_CardinalityType DEF ListSize, HandlerAt, TypeOK
<1>4. /\ UNCHANGED clientVars /\ toServer' = toServer /\ logged' = logged /\ toClient' = toClient
      /\ possible_user' = possible_user /\ directories' = directories /\ window' = window
  BY DEF ListSize
<1>5. RequestHeld(s)' /\ ClientFits(s)' /\ OneAnswer(s)' /\ LoginEarned(s)'
  BY <1>1, <1>2, <1>3, <1>4 DEF SInv, RequestHeld, ClientFits, OneAnswer, LoginEarned, Listing
<1>6. Changes(s)
  BY <1>4 DEF Changes
<1>7. (\A c : CodeTrue(s, c) => CodeTrue(s, c)') /\ Watched(s)'
  BY <1>4, <1>6, ListChanges
<1>8. CodesTrue(s)'
  BY <1>1, <1>4, <1>7 DEF SInv, CodesTrue
<1>9. ListTrue(s)'
  <2>1. directories \in window[s]
    BY <1>1, <1>2 DEF SInv, Watched, Seen
  <2>2. shown[s] = {}
    BY <1>1, <1>2 DEF SInv, ListTrue
  <2>3. EntriesIn(toClient[s]) = {}
    BY <1>1, <1>2 DEF SInv, OneAnswer, EntriesIn, Entry
  <2>4. handler'[s] = "list_end" => shown[s] \cup EntriesIn(toClient[s]) \in window[s]
    BY <1>3, <2>1, <2>2, <2>3
  <2>5. \A i \in 1..Len(toClient[s]) : toClient[s][i][1] # "226"
    BY <1>1 DEF SInv, OneAnswer, Listing
  <2>. QED
    BY <1>1, <1>4, <2>2, <2>4, <2>5 DEF SInv, ListTrue, AllSent
<1>. QED
  BY <1>5, <1>7, <1>8, <1>9 DEF SInv

\* What is sent of the list is the list.
LEMMA EntriesAll ==
    ASSUME directories \subseteq Names, IsFiniteSet(directories)
    PROVE /\ Entries \in Seq({Entry} \X Names)
          /\ \A i \in 1..Len(Entries) : Entries[i][1] = Entry
          /\ EntriesIn(Entries) = directories
<1>. DEFINE n == Cardinality(directories)
<1>1. n \in Nat /\ directories \subseteq Nat
  BY NamesAssumption, FS_CardinalityType
<1>2. InOrder \in Listings(directories)
  <2>1. Listings(directories) # {}
    BY <1>1, ListingExists
  <2>2. InOrder = CHOOSE f \in [1..n -> directories] : \A i, j \in 1..n : i < j => f[i] < f[j]
    BY DEF InOrder
  <2>. QED
    BY <2>1, <2>2 DEF Listings
<1>3. InOrder \in [1..n -> directories] /\ \A x \in directories : \E i \in 1..n : InOrder[i] = x
  BY <1>1, <1>2, ListingsComplete DEF Listings
<1>4. /\ Entries \in [1..n -> {Entry} \X Names]
      /\ \A i \in 1..n : Entries[i] = <<Entry, InOrder[i]>>
  BY <1>3 DEF Entries
<1>. HIDE DEF n
<1>5. Entries \in Seq({Entry} \X Names) /\ Len(Entries) = n
  BY <1>1, <1>4
<1>6. EntriesIn(Entries) = directories
  <2>1. \A i \in 1..n : Entries[i][1] = Entry /\ Entries[i][2] = InOrder[i]
    BY <1>4
  <2>2. EntriesIn(Entries) = {Entries[i][2] : i \in 1..n}
    <3>1. {j \in 1..Len(Entries) : Entries[j][1] = Entry} = 1..n
      BY <1>5, <2>1
    <3>. QED
      BY <3>1 DEF EntriesIn
  <2>3. EntriesIn(Entries) \subseteq directories
    BY <1>3, <2>1, <2>2
  <2>4. ASSUME NEW x \in directories PROVE x \in EntriesIn(Entries)
    <3>1. PICK i \in 1..n : InOrder[i] = x
      BY <1>3
    <3>. QED
      BY <2>1, <2>2, <3>1
  <2>. QED
    BY <2>3, <2>4
<1>. QED
  BY <1>4, <1>5, <1>6

LEMMA ListEntriesKept ==
    ASSUME IInv, NEW s \in Sessions, ListEntries(s)
    PROVE /\ toClient'[s] \in Seq(Fragments)
          /\ SInv(s)'
<1>. DEFINE t == toClient[s]
<1>1. SInv(s) /\ TypeOK /\ IsFiniteSet(directories) /\ handler[s] = "list_entries"
  BY DEF IInv, ListEntries
<1>2. /\ toServer[s].op = "LIST" /\ toServer[s] # NoRequest /\ logged[s]
      /\ client[s] \in {"response", "list"} /\ shown[s] = {}
  BY <1>1 DEF SInv, RequestHeld, ClientFits, ListTrue, TypeOK, Listing, NoRequest
<1>3. handler'[s] = "list_end" /\ toClient'[s] = t \o Entries
  BY <1>1 DEF ListEntries, Sends, HandlerAt, TypeOK
<1>4. /\ UNCHANGED clientVars /\ toServer' = toServer /\ logged' = logged
      /\ possible_user' = possible_user /\ directories' = directories /\ window' = window
  BY DEF ListEntries
<1>5. /\ Entries \in Seq({Entry} \X Names)
      /\ \A i \in 1..Len(Entries) : Entries[i][1] = Entry
      /\ EntriesIn(Entries) = directories
  BY <1>1, EntriesAll DEF TypeOK
<1>6. t \in Seq(Fragments) /\ Entries \in Seq(Fragments)
  BY <1>1, <1>5 DEF TypeOK, Fragments
<1>7. /\ client[s] = "response" => Len(t) = 1 /\ t[1][1] = "150"
      /\ client[s] = "list" => t = <<>>
  BY <1>1, <1>2, <1>6 DEF SInv, OneAnswer, Listing
<1>. DEFINE u == t \o Entries
<1>8. /\ u \in Seq(Fragments) /\ Len(u) = Len(t) + Len(Entries)
      /\ \A i \in 1..Len(t) : u[i] = t[i]
      /\ \A i \in (Len(t) + 1)..Len(u) : u[i] = Entries[i - Len(t)]
      /\ \A j \in 1..Len(Entries) : u[Len(t) + j] = Entries[j]
  BY <1>6
<1>9. toClient'[s] = u /\ Len(t) \in Nat /\ Len(Entries) \in Nat /\ Len(u) \in Nat
  BY <1>3, <1>6, <1>8
<1>. HIDE DEF t, u
<1>10. \A i \in (Len(t) + 1)..Len(u) : u[i][1] = Entry
  BY <1>5, <1>8, <1>9
<1>11. \A i \in 1..Len(t) : u[i][1] = "150" /\ i = 1
  BY <1>2, <1>7, <1>8
<1>12. EntriesIn(u) = directories
  <2>1. EntriesIn(u) \subseteq EntriesIn(Entries)
    <3>1. ASSUME NEW i \in 1..Len(u), u[i][1] = Entry PROVE u[i][2] \in EntriesIn(Entries)
      <4>1. i \in (Len(t) + 1)..Len(u)
        BY <1>9, <1>11, <3>1 DEF Entry
      <4>2. i - Len(t) \in 1..Len(Entries) /\ u[i] = Entries[i - Len(t)]
        BY <1>8, <1>9, <4>1
      <4>. QED
        BY <1>5, <4>2 DEF EntriesIn
    <3>. QED
      BY <3>1 DEF EntriesIn
  <2>2. EntriesIn(Entries) \subseteq EntriesIn(u)
    <3>1. ASSUME NEW j \in 1..Len(Entries) PROVE Entries[j][2] \in EntriesIn(u)
      <4>1. Len(t) + j \in 1..Len(u) /\ u[Len(t) + j] = Entries[j]
        BY <1>8, <1>9
      <4>. QED
        BY <1>5, <4>1 DEF EntriesIn
    <3>. QED
      BY <3>1 DEF EntriesIn
  <2>. QED
    BY <1>5, <2>1, <2>2
<1>13. RequestHeld(s)' /\ ClientFits(s)' /\ LoginEarned(s)'
  BY <1>1, <1>2, <1>3, <1>4 DEF SInv, RequestHeld, ClientFits, LoginEarned, Listing
<1>14. OneAnswer(s)'
  <2>1. client[s] = "response" => ListingFrom(u, 2) /\ u # <<>> /\ u[1][1] = "150"
    <3>1. HAVE client[s] = "response"
    <3>2. Len(t) = 1 /\ Len(u) >= 1
      BY <1>7, <1>8, <1>9, <3>1
    <3>3. u[1][1] = "150" /\ u # <<>>
      BY <1>11, <3>2
    <3>4. ListingFrom(u, 2)
      BY <1>10, <3>2 DEF ListingFrom
    <3>. QED
      BY <3>3, <3>4
  <2>2. client[s] = "list" => ListingFrom(u, 1)
    BY <1>6, <1>7, <1>9, <1>10 DEF ListingFrom
  <2>3. \A i \in 1..Len(u) : u[i][1] # "226"
    BY <1>9, <1>10, <1>11 DEF Entry
  <2>. QED
    BY <1>2, <1>3, <1>4, <1>9, <2>1, <2>2, <2>3 DEF OneAnswer, Entry
<1>15. Changes(s)
  BY <1>4 DEF Changes
<1>16. (\A c : CodeTrue(s, c) => CodeTrue(s, c)') /\ Watched(s)'
  BY <1>4, <1>15, ListChanges
<1>17. CodesTrue(s)'
  <2>1. CodeTrue(s, "150") /\ CodeTrue(s, Entry)
    BY <1>1, <1>2 DEF CodeTrue, SInv, LoginEarned, Entry
  <2>2. \A i \in 1..Len(u) : u[i][1] \in {"150", Entry}
    BY <1>9, <1>10, <1>11
  <2>. QED
    BY <1>1, <1>4, <1>9, <1>16, <2>1, <2>2 DEF SInv, CodesTrue
<1>18. ListTrue(s)'
  <2>1. directories \in window[s]
    BY <1>1, <1>2 DEF SInv, Watched, Seen
  <2>. QED
    BY <1>1, <1>2, <1>3, <1>4, <1>9, <1>12, <2>1 DEF SInv, ListTrue
<1>. QED
  BY <1>8, <1>9, <1>13, <1>14, <1>16, <1>17, <1>18 DEF SInv

LEMMA ListEndKept ==
    ASSUME IInv, NEW s \in Sessions, ListEnd(s)
    PROVE SInv(s)'
<1>. DEFINE t == toClient[s]
            u == t \o Response("226")
<1>1. SInv(s) /\ TypeOK /\ handler[s] = "list_end"
  BY DEF IInv, ListEnd
<1>2. /\ toServer[s].op = "LIST" /\ toServer[s] # NoRequest /\ logged[s]
      /\ client[s] \in {"response", "list"}
  BY <1>1 DEF SInv, RequestHeld, ClientFits, TypeOK, Listing, NoRequest
<1>3. handler'[s] = "recv" /\ toServer'[s] = NoRequest /\ toClient'[s] = u
  BY <1>1 DEF ListEnd, Attended, Sends, HandlerAt, TypeOK
<1>4. /\ UNCHANGED clientVars /\ logged' = logged
      /\ possible_user' = possible_user /\ directories' = directories /\ window' = window
  BY DEF ListEnd
<1>5. t \in Seq(Fragments) /\ "226" \in Codes
  BY <1>1, CodesListed DEF TypeOK, Fragments
<1>6. /\ u \in Seq(Fragments) /\ Len(u) = Len(t) + 1
      /\ \A i \in 1..Len(t) : u[i] = t[i]
      /\ u[Len(t) + 1] = <<"226", Unnamed>>
      /\ EntriesIn(u) = EntriesIn(t)
      /\ Len(t) \in Nat
  BY <1>5, OneMore
<1>7. /\ client[s] = "response" => ListingFrom(t, 2) /\ t # <<>> /\ t[1][1] = "150"
      /\ client[s] = "list" => ListingFrom(t, 1)
      /\ \A i \in 1..Len(t) : t[i][1] # "226"
  BY <1>1 DEF SInv, OneAnswer, Listing
<1>8. t # <<>> => Len(t) >= 1
  BY <1>5
<1>. HIDE DEF t, u
<1>9. RequestHeld(s)' /\ ClientFits(s)' /\ LoginEarned(s)'
  BY <1>1, <1>2, <1>3, <1>4 DEF SInv, RequestHeld, ClientFits, LoginEarned, Listing, NoRequest
<1>10. OneAnswer(s)'
  <2>1. ASSUME client[s] = "response" PROVE ListingFrom(u, 2) /\ u # <<>> /\ u[1][1] = "150"
    <3>1. \A i \in 2..Len(u) : i \in 2..Len(t) \/ i = Len(t) + 1
      BY <1>6
    <3>2. ListingFrom(u, 2)
      BY <1>6, <1>7, <2>1, <3>1 DEF ListingFrom
    <3>3. u[1][1] = "150" /\ Len(u) > 1
      BY <1>6, <1>7, <1>8, <2>1
    <3>. QED
      BY <3>2, <3>3
  <2>2. ASSUME client[s] = "list" PROVE ListingFrom(u, 1)
    <3>1. \A i \in 1..Len(u) : i \in 1..Len(t) \/ i = Len(t) + 1
      BY <1>6
    <3>. QED
      BY <1>6, <1>7, <2>2, <3>1 DEF ListingFrom
  <2>. QED
    BY <1>2, <1>3, <1>4, <2>1, <2>2 DEF OneAnswer, Entry, Listing
<1>11. Changes(s)
  BY <1>4 DEF Changes
<1>12. (\A c : CodeTrue(s, c) => CodeTrue(s, c)') /\ Watched(s)'
  BY <1>3, <1>4, <1>11, ListChanges
<1>13. CodesTrue(s)'
  <2>1. CodeTrue(s, "226")
    BY <1>1, <1>2 DEF CodeTrue, SInv, LoginEarned
  <2>2. \A i \in 1..Len(t) : CodeTrue(s, t[i][1])
    BY <1>1 DEF SInv, CodesTrue, t
  <2>3. \A i \in 1..Len(u) : CodeTrue(s, u[i][1])
    <3>1. \A i \in 1..Len(u) : i \in 1..Len(t) \/ i = Len(t) + 1
      BY <1>6
    <3>. QED
      BY <1>6, <2>1, <2>2, <3>1
  <2>. QED
    BY <1>1, <1>3, <1>4, <1>12, <2>3 DEF SInv, CodesTrue
<1>14. ListTrue(s)'
  <2>1. shown[s] \cup EntriesIn(t) \in window[s]
    BY <1>1, <1>2 DEF SInv, ListTrue, AllSent, t
  <2>2. /\ code[s] = "226" => shown[s] \in window[s]
        /\ client[s] = "response" => shown[s] = {}
    BY <1>1 DEF SInv, ListTrue
  <2>. QED
    BY <1>3, <1>4, <1>6, <2>1, <2>2 DEF ListTrue
<1>. QED
  BY <1>9, <1>10, <1>12, <1>13, <1>14 DEF SInv

\* The server ends a session: a beginning of what is on its way is left.
LEMMA ServerEndsKept ==
    ASSUME IInv, NEW s \in Sessions, ServerEnds(s)
    PROVE /\ toClient'[s] \in Seq(Fragments)
          /\ SInv(s)'
<1>. DEFINE t == toClient[s]
<1>1. SInv(s) /\ TypeOK
  BY DEF IInv
<1>2. PICK n \in 0..Len(t) : toClient' = [toClient EXCEPT ![s] = SubSeq(@, 1, n)]
  BY DEF ServerEnds
<1>. DEFINE u == SubSeq(t, 1, n)
<1>3. /\ handler'[s] = "gone" /\ toServer'[s] = NoRequest /\ toClient'[s] = u
      /\ possible_user'[s] = "none" /\ logged'[s] = FALSE
  BY <1>1, <1>2 DEF ServerEnds, HandlerAt, TypeOK
<1>4. UNCHANGED clientVars /\ directories' = directories /\ window' = window
  BY DEF ServerEnds
<1>5. t \in Seq(Fragments) /\ Len(t) \in Nat
  BY <1>1 DEF TypeOK, Fragments
<1>6. u \in Seq(Fragments) /\ Len(u) = n /\ \A i \in 1..n : u[i] = t[i]
  BY <1>5
<1>7. n = Len(t) => u = t
  BY <1>5, <1>6
<1>8. t = <<>> \/ n = 0 => u = <<>>
  BY <1>5, <1>6
<1>9. Len(t) = 1 => n \in {0, 1} /\ (n = 1 => u = t)
  BY <1>7
<1>. HIDE DEF t, u
<1>10. RequestHeld(s)' /\ LoginEarned(s)'
  BY <1>3 DEF RequestHeld, LoginEarned, Listing
<1>11. ClientFits(s)'
  BY <1>1, <1>3, <1>4, <1>8 DEF SInv, ClientFits, NoRequest, t
<1>12. OneAnswer(s)'
  <2>1. client[s] = "hello" => t = <<>> \/ t = Response("220")
    BY <1>1 DEF SInv, OneAnswer, t
  <2>2. client[s] = "hello" => u = <<>> \/ u = Response("220")
    BY <1>8, <1>9, <2>1 DEF Response
  <2>3. ASSUME client[s] = "response"
        PROVE /\ ListingFrom(u, 2)
              /\ u # <<>> => u[1][1] \notin {Entry, "226"} /\ (u[1][1] # "150" => Len(u) = 1)
    <3>1. /\ ListingFrom(t, 2)
          /\ t # <<>> => t[1][1] \notin {Entry, "226"} /\ (t[1][1] # "150" => Len(t) = 1)
      BY <1>1, <2>3 DEF SInv, OneAnswer, t
    <3>2. ListingFrom(u, 2)
      BY <1>5, <1>6, <3>1 DEF ListingFrom
    <3>3. u # <<>> => t # <<>> /\ u[1] = t[1] /\ n >= 1
      BY <1>5, <1>6, <1>8
    <3>. QED
      BY <1>5, <1>6, <3>1, <3>2, <3>3
  <2>4. ASSUME client[s] = "list" PROVE ListingFrom(u, 1)
    BY <1>1, <1>5, <1>6, <2>4 DEF SInv, OneAnswer, ListingFrom, t
  <2>. QED
    BY <1>3, <1>4, <2>2, <2>3, <2>4 DEF OneAnswer, Listing
<1>13. Changes(s)
  BY <1>4 DEF Changes
<1>14. (\A c : CodeTrue(s, c) => CodeTrue(s, c)') /\ Watched(s)'
  BY <1>3, <1>4, <1>13, ListChanges
<1>15. CodesTrue(s)'
  BY <1>1, <1>3, <1>4, <1>5, <1>6, <1>14 DEF SInv, CodesTrue, t
<1>16. ListTrue(s)'
  <2>1. /\ code[s] = "226" => shown[s] \in window[s]
        /\ client[s] = "response" => shown[s] = {}
    BY <1>1 DEF SInv, ListTrue
  <2>2. ASSUME client[s] \in {"response", "list"}, AllSent(s)'
        PROVE shown[s] \cup EntriesIn(u) \in window[s]
    <3>1. PICK i \in 1..n : u[i][1] = "226"
      BY <1>3, <1>6, <2>2 DEF AllSent
    <3>2. t[i][1] = "226" /\ i \in 1..Len(t)
      BY <1>5, <1>6, <3>1
    <3>3. i = Len(t)
      BY <1>1, <1>5, <2>2, <3>2 DEF SInv, OneAnswer, ListingFrom, Entry, t
    <3>4. u = t
      BY <1>7, <3>3
    <3>. QED
      BY <1>1, <2>2, <3>2, <3>4 DEF SInv, ListTrue, AllSent, t
  <2>. QED
    BY <1>3, <1>4, <2>1, <2>2 DEF ListTrue
<1>. QED
  BY <1>3, <1>6, <1>10, <1>11, <1>12, <1>14, <1>15, <1>16 DEF SInv

-----------------------------------------------------------------------------
(* The client program.                                                     *)

\* The line that is read is the first one; what it shows is no longer on its
\* way.
LEMMA LineRead ==
    ASSUME IInv, NEW s \in Sessions, ReadLine(s)
    PROVE \E n \in 1..Len(toClient[s]) :
            /\ \A i \in 1..(n - 1) : ~Delimited(toClient[s][i])
            /\ toClient'[s] \in Seq(Fragments)
            /\ Len(toClient'[s]) = Len(toClient[s]) - n
            /\ \A i \in 1..Len(toClient'[s]) : toClient'[s][i] = toClient[s][i + n]
            /\ code'[s] = toClient[s][1][1]
            /\ shown'[s] \cup EntriesIn(toClient'[s]) = shown[s] \cup EntriesIn(toClient[s])
            /\ n = 1 /\ toClient[s][1][1] # Entry => shown'[s] = shown[s]
<1>. DEFINE t == toClient[s]
<1>1. PICK n \in 1..Len(t) :
        /\ \A i \in 1..(n - 1) : ~Delimited(t[i])
        /\ toClient' = [toClient EXCEPT ![s] = SubSeq(@, n + 1, Len(@))]
        /\ code' = [code EXCEPT ![s] = t[1][1]]
        /\ shown' = [shown EXCEPT ![s] = @ \cup
                        {t[i][2] : i \in {j \in 1..n : t[j][1] = Entry}}]
  BY DEF ReadLine
<1>2. TypeOK /\ t \in Seq(Fragments) /\ Len(t) \in Nat
  BY DEF IInv, TypeOK, Fragments
<1>. DEFINE u == SubSeq(t, n + 1, Len(t))
            read == {t[i][2] : i \in {j \in 1..n : t[j][1] = Entry}}
<1>3. toClient'[s] = u /\ code'[s] = t[1][1] /\ shown'[s] = shown[s] \cup read
  BY <1>1, <1>2 DEF TypeOK
<1>4. u \in Seq(Fragments) /\ Len(u) = Len(t) - n /\ \A i \in 1..Len(u) : u[i] = t[i + n]
  BY <1>2
<1>. HIDE DEF t, u
<1>5. EntriesIn(t) = read \cup EntriesIn(u)
  <2>1. ASSUME NEW i \in 1..Len(t), t[i][1] = Entry PROVE t[i][2] \in read \cup EntriesIn(u)
    <3>1. CASE i \in 1..n
      BY <2>1, <3>1
    <3>2. CASE i \notin 1..n
      <4>1. i - n \in 1..Len(u) /\ u[i - n] = t[i]
        BY <1>2, <1>4, <3>2
      <4>. QED
        BY <2>1, <4>1 DEF EntriesIn
    <3>. QED
      BY <3>1, <3>2
  <2>2. ASSUME NEW i \in 1..n, t[i][1] = Entry PROVE t[i][2] \in EntriesIn(t)
    <3>1. i \in 1..Len(t)
      BY <1>2
    <3>. QED
      BY <2>2, <3>1 DEF EntriesIn
  <2>3. ASSUME NEW i \in 1..Len(u), u[i][1] = Entry PROVE u[i][2] \in EntriesIn(t)
    <3>1. i + n \in 1..Len(t) /\ u[i] = t[i + n]
      BY <1>2, <1>4
    <3>. QED
      BY <2>3, <3>1 DEF EntriesIn
  <2>4. EntriesIn(t) \subseteq read \cup EntriesIn(u)
    BY <2>1 DEF EntriesIn
  <2>5. read \subseteq EntriesIn(t)
    BY <2>2
  <2>6. EntriesIn(u) \subseteq EntriesIn(t)
    BY <2>3 DEF EntriesIn
  <2>. QED
    BY <2>4, <2>5, <2>6
<1>6. n = 1 /\ t[1][1] # Entry => read = {}
  OBVIOUS
<1>. QED
  BY <1>1, <1>3, <1>4, <1>5, <1>6 DEF t

\* What is told to the client by the line, and what is left.
LEMMA LineTrue ==
    ASSUME IInv, NEW s \in Sessions, ReadLine(s)
    PROVE CodesTrue(s)' /\ Watched(s)' /\ RequestHeld(s)' /\ LoginEarned(s)'
<1>1. SInv(s) /\ TypeOK /\ Len(toClient[s]) \in Nat
  BY DEF IInv, TypeOK
<1>2. PICK n \in 1..Len(toClient[s]) :
        /\ Len(toClient'[s]) = Len(toClient[s]) - n
        /\ \A i \in 1..Len(toClient'[s]) : toClient'[s][i] = toClient[s][i + n]
        /\ code'[s] = toClient[s][1][1]
  BY LineRead
<1>3. /\ asked' = asked /\ entitled' = entitled /\ toServer' = toServer /\ handler' = handler
      /\ possible_user' = possible_user /\ logged' = logged
      /\ directories' = directories /\ window' = window
  BY DEF ReadLine
<1>4. Changes(s)
  BY <1>3 DEF Changes
<1>5. (\A c : CodeTrue(s, c) => CodeTrue(s, c)') /\ Watched(s)'
  BY <1>3, <1>4, ListChanges
<1>6. CodesTrue(s)'
  <2>1. \A i \in 1..Len(toClient[s]) : CodeTrue(s, toClient[s][i][1])
    BY <1>1 DEF SInv, CodesTrue
  <2>2. 1 \in 1..Len(toClient[s]) /\ \A i \in 1..Len(toClient'[s]) : i + n \in 1..Len(toClient[s])
    <3>1. Len(toClient'[s]) = Len(toClient[s]) - n
      BY <1>2
    <3>. QED
      BY <1>1, <3>1
  <2>3. \A c : (\E j \in 1..Len(toClient[s]) : c = toClient[s][j][1]) => CodeTrue(s, c)'
    BY <1>5, <2>1
  <2>4. \E j \in 1..Len(toClient[s]) : code'[s] = toClient[s][j][1]
    BY <1>2, <2>2
  <2>5. \A i \in 1..Len(toClient'[s]) :
            \E j \in 1..Len(toClient[s]) : toClient'[s][i][1] = toClient[s][j][1]
    BY <1>2, <2>2
  <2>. QED
    BY <2>3, <2>4, <2>5 DEF CodesTrue
<1>7. RequestHeld(s)' /\ LoginEarned(s)'
  BY <1>1, <1>3 DEF SInv, RequestHeld, LoginEarned
<1>. QED
  BY <1>5, <1>6, <1>7

LEMMA ReceiveHelloKept ==
    ASSUME IInv, NEW s \in Sessions, ReceiveHello(s)
    PROVE SInv(s)'
<1>. DEFINE t == toClient[s]
            u == toClient'[s]
<1>1. SInv(s) /\ TypeOK /\ client[s] = "hello" /\ ReadLine(s) /\ client'[s] = "input"
  BY DEF IInv, ReceiveHello, ClientAt, TypeOK
<1>2. PICK n \in 1..Len(t) :
        /\ u \in Seq(Fragments)
        /\ Len(u) = Len(t) - n
        /\ code'[s] = t[1][1]
  BY <1>1, LineRead
<1>3. toServer' = toServer /\ handler' = handler
  BY <1>1 DEF ReadLine
<1>4. t = Response("220") /\ toServer[s] = NoRequest /\ handler[s] \in {"recv", "gone"}
  <2>1. t # <<>>
    BY <1>2
  <2>. QED
    BY <1>1, <2>1 DEF SInv, OneAnswer, ClientFits
<1>5. u = <<>> /\ code'[s] = "220"
  BY <1>2, <1>4 DEF Response
<1>6. ClientFits(s)'
  BY <1>1, <1>3, <1>4, <1>5 DEF ClientFits
<1>7. OneAnswer(s)'
  BY <1>1, <1>3, <1>4 DEF OneAnswer, Listing
<1>8. ListTrue(s)'
  BY <1>1, <1>5 DEF ListTrue
<1>. QED
  BY <1>1, <1>6, <1>7, <1>8, LineTrue DEF SInv

LEMMA ReceiveResponseKept ==
    ASSUME IInv, NEW s \in Sessions, ReceiveResponse(s)
    PROVE SInv(s)'
<1>. DEFINE t == toClient[s]
            u == toClient'[s]
<1>1. SInv(s) /\ TypeOK /\ client[s] = "response" /\ ReadLine(s)
  BY DEF IInv, ReceiveResponse
<1>2. t \in Seq(Fragments) /\ Len(t) \in Nat
  BY <1>1 DEF TypeOK, Fragments
<1>3. PICK n \in 1..Len(t) :
        /\ \A i \in 1..(n - 1) : ~Delimited(t[i])
        /\ u \in Seq(Fragments)
        /\ Len(u) = Len(t) - n
        /\ \A i \in 1..Len(u) : u[i] = t[i + n]
        /\ code'[s] = t[1][1]
        /\ shown'[s] \cup EntriesIn(u) = shown[s] \cup EntriesIn(t)
        /\ n = 1 /\ t[1][1] # Entry => shown'[s] = shown[s]
  BY <1>1, LineRead
<1>4. /\ asked' = asked /\ toServer' = toServer /\ handler' = handler /\ window' = window
  BY <1>1 DEF ReadLine
<1>5. client'[s] = IF t[1][1] = "150" THEN "list" ELSE "input"
  <2>1. client'[s] = IF code'[s] = "150" THEN "list" ELSE "input"
    BY <1>1 DEF ReceiveResponse, ClientAt, TypeOK
  <2>. QED
    BY <1>3, <2>1
<1>6. /\ ListingFrom(t, 2)
      /\ t[1][1] \notin {Entry, "226"}
      /\ t[1][1] # "150" => Len(t) = 1
      /\ toServer[s] # NoRequest /\ handler[s] \in {"recv", "respond"} => t = <<>>
      /\ handler[s] \in Listing => t[1][1] = "150"
      /\ handler[s] \in {"list_size", "list_entries"} => Len(t) = 1
      /\ handler[s] \in Listing => \A i \in 1..Len(t) : t[i][1] # "226"
      /\ t # <<>>
  <2>1. t # <<>>
    BY <1>2, <1>3
  <2>. QED
    BY <1>1, <2>1 DEF SInv, OneAnswer
<1>7. n = 1
  <2>1. Delimited(t[1])
    BY <1>6 DEF Delimited
  <2>2. n > 1 => 1 \in 1..(n - 1)
    BY <1>2
  <2>. QED
    BY <1>2, <1>3, <2>1, <2>2
<1>8. shown'[s] = {}
  BY <1>1, <1>3, <1>6, <1>7 DEF SInv, ListTrue
<1>9. \/ toServer[s] = NoRequest /\ handler[s] \in {"recv", "done", "gone"}
      \/ handler[s] \in Listing
  BY <1>1, <1>6 DEF SInv, RequestHeld, ClientFits, TypeOK, Listing
<1>10. CASE t[1][1] = "150"
  <2>1. client'[s] = "list" /\ code'[s] = "150"
    BY <1>3, <1>5, <1>10
  <2>2. ListingFrom(u, 1)
    <3>1. ASSUME NEW i \in 1..Len(u) PROVE u[i][1] = Entry \/ (u[i][1] = "226" /\ i = Len(u))
      <4>1. i + 1 \in 2..Len(t) /\ u[i] = t[i + 1] /\ Len(u) = Len(t) - 1
        BY <1>2, <1>3, <1>7
      <4>. QED
        BY <1>2, <1>6, <4>1 DEF ListingFrom
    <3>. QED
      BY <3>1 DEF ListingFrom
  <2>3. handler[s] \in {"list_size", "list_entries"} => u = <<>>
    BY <1>3, <1>6, <1>7
  <2>4. handler[s] \in Listing => \A i \in 1..Len(u) : u[i][1] # "226"
    BY <1>2, <1>3, <1>6, <1>7
  <2>5. handler[s] # "done"
    BY <1>1, <1>6, <1>10 DEF SInv, OneAnswer
  <2>6. ClientFits(s)'
    BY <1>4, <1>9, <2>1, <2>5 DEF ClientFits, Listing
  <2>7. OneAnswer(s)'
    BY <1>4, <2>1, <2>2, <2>3, <2>4 DEF OneAnswer
  <2>8. ListTrue(s)'
    <3>1. ASSUME AllSent(s)' PROVE shown'[s] \cup EntriesIn(u) \in window[s]
      <4>1. CASE handler[s] = "list_end"
        BY <1>1, <1>3, <4>1 DEF SInv, ListTrue, AllSent
      <4>2. CASE handler[s] # "list_end"
        <5>1. PICK i \in 1..Len(u) : u[i][1] = "226"
          BY <1>4, <3>1, <4>2 DEF AllSent
        <5>2. i + 1 \in 1..Len(t) /\ t[i + 1][1] = "226"
          BY <1>2, <1>3, <1>7, <5>1
        <5>. QED
          BY <1>1, <1>3, <5>2 DEF SInv, ListTrue, AllSent
      <4>. QED
        BY <4>1, <4>2
    <3>. QED
      BY <1>4, <1>8, <2>1, <3>1 DEF ListTrue
  <2>. QED
    BY <1>1, <2>6, <2>7, <2>8, LineTrue DEF SInv
<1>11. CASE t[1][1] # "150"
  <2>1. client'[s] = "input" /\ code'[s] # "226"
    BY <1>3, <1>5, <1>6, <1>11
  <2>2. u = <<>> /\ handler[s] \notin Listing
    BY <1>3, <1>6, <1>7, <1>11
  <2>3. ClientFits(s)'
    BY <1>4, <1>9, <2>1, <2>2 DEF ClientFits
  <2>4. OneAnswer(s)'
    BY <1>4, <2>1, <2>2 DEF OneAnswer
  <2>5. ListTrue(s)'
    BY <2>1 DEF ListTrue
  <2>. QED
    BY <1>1, <2>3, <2>4, <2>5, LineTrue DEF SInv
<1>. QED
  BY <1>10, <1>11

LEMMA ReceiveListKept ==
    ASSUME IInv, NEW s \in Sessions, ReceiveList(s)
    PROVE SInv(s)'
<1>. DEFINE t == toClient[s]
            u == toClient'[s]
<1>1. SInv(s) /\ TypeOK /\ client[s] = "list" /\ ReadLine(s)
  BY DEF IInv, ReceiveList
<1>2. t \in Seq(Fragments) /\ Len(t) \in Nat
  BY <1>1 DEF TypeOK, Fragments
<1>3. PICK n \in 1..Len(t) :
        /\ \A i \in 1..(n - 1) : ~Delimited(t[i])
        /\ u \in Seq(Fragments)
        /\ Len(u) = Len(t) - n
        /\ \A i \in 1..Len(u) : u[i] = t[i + n]
        /\ code'[s] = t[1][1]
        /\ shown'[s] \cup EntriesIn(u) = shown[s] \cup EntriesIn(t)
  BY <1>1, LineRead
<1>4. /\ asked' = asked /\ toServer' = toServer /\ handler' = handler /\ window' = window
  BY <1>1 DEF ReadLine
<1>5. client'[s] = IF t[1][1] = "226" THEN "input" ELSE "list"
  <2>1. client'[s] = IF code'[s] = "226" THEN "input" ELSE "list"
    BY <1>1 DEF ReceiveList, ClientAt, TypeOK
  <2>. QED
    BY <1>3, <2>1
<1>6. /\ ListingFrom(t, 1)
      /\ handler[s] \in {"list_size", "list_entries"} => t = <<>>
      /\ handler[s] \in Listing => \A i \in 1..Len(t) : t[i][1] # "226"
      /\ t # <<>>
  <2>1. t # <<>>
    BY <1>2, <1>3
  <2>. QED
    BY <1>1, <2>1 DEF SInv, OneAnswer
<1>7. CASE t[1][1] = "226"
  <2>1. Len(t) = 1 /\ n = 1
    <3>1. 1 \in 1..Len(t)
      BY <1>2, <1>3
    <3>2. Len(t) = 1
      BY <1>6, <1>7, <3>1 DEF ListingFrom, Entry
    <3>. HIDE DEF t
    <3>. QED
      BY <3>2
  <2>2. u = <<>> /\ EntriesIn(u) = {}
    BY <1>3, <2>1 DEF EntriesIn
  <2>3. handler[s] \notin Listing
    BY <1>6, <1>7, <2>1
  <2>4. toServer[s] = NoRequest /\ handler[s] \in {"recv", "gone"}
    BY <1>1, <2>3 DEF SInv, ClientFits, RequestHeld
  <2>5. client'[s] = "input" /\ code'[s] = "226"
    BY <1>3, <1>5, <1>7
  <2>6. ClientFits(s)'
    BY <1>4, <2>2, <2>4, <2>5 DEF ClientFits
  <2>7. OneAnswer(s)'
    BY <1>4, <2>2, <2>3, <2>5 DEF OneAnswer
  <2>8. ListTrue(s)'
    <3>1. shown[s] \cup EntriesIn(t) \in window[s]
      BY <1>1, <1>7, <2>1 DEF SInv, ListTrue, AllSent
    <3>2. shown'[s] \in window'[s]
      BY <1>3, <1>4, <2>2, <3>1
    <3>. QED
      BY <2>5, <3>2 DEF ListTrue
  <2>. QED
    BY <1>1, <2>6, <2>7, <2>8, LineTrue DEF SInv
<1>8. CASE t[1][1] # "226"
  <2>1. client'[s] = "list" /\ code'[s] # "226"
    BY <1>3, <1>5, <1>8
  <2>2. \A i \in 1..Len(u) : i + n \in 1..Len(t) /\ u[i] = t[i + n]
    BY <1>2, <1>3
  <2>3. ListingFrom(u, 1)
    <3>1. ASSUME NEW i \in 1..Len(u) PROVE u[i][1] = Entry \/ (u[i][1] = "226" /\ i = Len(u))
      <4>1. i + n \in 1..Len(t) /\ u[i] = t[i + n]
        BY <2>2
      <4>2. t[i + n][1] = Entry \/ (t[i + n][1] = "226" /\ i + n = Len(t))
        BY <1>6, <4>1 DEF ListingFrom
      <4>. QED
        BY <1>2, <1>3, <4>1, <4>2
    <3>. QED
      BY <3>1 DEF ListingFrom
  <2>4. handler[s] \in Listing => \A i \in 1..Len(u) : u[i][1] # "226"
    BY <1>6, <2>2
  <2>5. handler[s] \notin {"list_size", "list_entries"}
    BY <1>6
  <2>6. ClientFits(s)'
    BY <1>1, <1>4, <2>1 DEF SInv, ClientFits, Listing
  <2>7. OneAnswer(s)'
    BY <1>4, <2>1, <2>3, <2>4, <2>5 DEF OneAnswer
  <2>8. ListTrue(s)'
    <3>1. ASSUME AllSent(s)' PROVE shown'[s] \cup EntriesIn(u) \in window[s]
      <4>1. AllSent(s)
        BY <1>4, <2>2, <3>1 DEF AllSent
      <4>. QED
        BY <1>1, <1>3, <4>1 DEF SInv, ListTrue
    <3>. QED
      BY <1>4, <2>1, <2>5, <3>1 DEF ListTrue
  <2>. QED
    BY <1>1, <2>6, <2>7, <2>8, LineTrue DEF SInv
<1>. QED
  BY <1>7, <1>8

\* After the end of its session a client waits, and fails.
LEMMA SpinsKept ==
    ASSUME IInv, NEW s \in Sessions, FindsEnd(s) \/ NoMemory(s)
    PROVE SInv(s)'
<1>1. SInv(s) /\ TypeOK
  BY DEF IInv
<1>2. handler[s] = "gone" /\ client'[s] \in {"spinning", "failed"}
  BY <1>1 DEF FindsEnd, NoMemory, ClientAt, SInv, ClientFits, TypeOK
<1>3. /\ shown' = shown /\ code' = code /\ entitled' = entitled /\ asked' = asked
      /\ toServer' = toServer /\ toClient' = toClient /\ handler' = handler
      /\ possible_user' = possible_user /\ logged' = logged /\ directories' = directories
      /\ window' = window
  BY DEF FindsEnd, NoMemory, handlerVars
<1>4. RequestHeld(s)' /\ LoginEarned(s)'
  BY <1>1, <1>3 DEF SInv, RequestHeld, LoginEarned
<1>5. ClientFits(s)' /\ OneAnswer(s)'
  BY <1>2, <1>3 DEF ClientFits, OneAnswer, Listing
<1>6. Changes(s)
  BY <1>3 DEF Changes
<1>7. (\A c : CodeTrue(s, c) => CodeTrue(s, c)') /\ Watched(s)'
  BY <1>3, <1>6, ListChanges
<1>8. CodesTrue(s)'
  BY <1>1, <1>3, <1>7 DEF SInv, CodesTrue
<1>9. ListTrue(s)'
  BY <1>1, <1>2, <1>3 DEF SInv, ListTrue
<1>. QED
  BY <1>4, <1>5, <1>7, <1>8, <1>9 DEF SInv

\* A new request: nothing of an earlier one is left that it could be mixed
\* up with.
LEMMA TypeKept ==
    ASSUME IInv, NEW s \in Sessions, Type(s)
    PROVE SInv(s)'
<1>1. SInv(s) /\ TypeOK /\ client[s] = "input"
  BY DEF IInv, Type
<1>2. toServer[s] = NoRequest /\ toClient[s] = <<>> /\ handler[s] \in {"recv", "done", "gone"}
  BY <1>1 DEF SInv, ClientFits
<1>3. PICK r \in Requests :
        /\ toServer' = [toServer EXCEPT ![s] = IF handler[s] \in {"done", "gone"} THEN @ ELSE r]
        /\ \/ ClientAt(s, IF r.op = "empty" THEN "done" ELSE "response")
           \/ handler[s] = "gone" /\ ClientAt(s, "failed")
        /\ entitled' = [entitled EXCEPT ![s] = Entitlement(s, r)]
        /\ LET sees == r.op \in {"LIST", "MKD", "RMD"}
           IN  /\ asked' = [asked EXCEPT ![s] = IF sees THEN r ELSE NoRequest]
               /\ window' = [window EXCEPT ![s] = IF sees THEN {Seen(r, directories)} ELSE {}]
  BY DEF Type
<1>4. /\ shown'[s] = {} /\ code'[s] = "none" /\ toClient' = toClient /\ handler' = handler
      /\ possible_user' = possible_user /\ logged' = logged /\ directories' = directories
  BY <1>1 DEF Type, TypeOK, handlerVars
<1>. DEFINE sees == r.op \in {"LIST", "MKD", "RMD"}
<1>5. /\ toServer'[s] = IF handler[s] \in {"done", "gone"} THEN NoRequest ELSE r
      /\ entitled'[s] = Entitlement(s, r)
      /\ asked'[s] = IF sees THEN r ELSE NoRequest
      /\ window'[s] = IF sees THEN {Seen(r, directories)} ELSE {}
  BY <1>1, <1>2, <1>3 DEF TypeOK
<1>6. \/ client'[s] = IF r.op = "empty" THEN "done" ELSE "response"
      \/ handler[s] = "gone" /\ client'[s] = "failed"
  BY <1>1, <1>3 DEF ClientAt, TypeOK
<1>7. RequestHeld(s)'
  BY <1>2, <1>4, <1>5 DEF RequestHeld, Listing
<1>8. ClientFits(s)'
  BY <1>2, <1>4, <1>5, <1>6 DEF ClientFits, NoRequest
<1>9. OneAnswer(s)'
  BY <1>2, <1>4, <1>6 DEF OneAnswer, ListingFrom, Listing
<1>10. LoginEarned(s)'
  <2>1. LoginEarned(s) /\ entitled[s] \in {"none", "user", "password"}
    BY <1>1 DEF SInv, TypeOK
  <2>2. /\ entitled[s] = "password" => entitled'[s] = "password"
        /\ r.op = "USER" /\ r.arg = "right" => entitled'[s] \in {"user", "password"}
        /\ r.op = "PASS" /\ r.arg = "right" /\ entitled[s] = "user" => entitled'[s] = "password"
        /\ r.op # "USER" /\ entitled[s] \in {"user", "password"} =>
              entitled'[s] \in {"user", "password"}
    BY <1>5, <2>1 DEF Entitlement
  <2>3. /\ logged[s] => entitled[s] = "password"
        /\ handler[s] \notin {"done", "gone"} /\ possible_user[s] = "right" =>
              entitled[s] \in {"user", "password"}
    BY <1>2, <2>1 DEF LoginEarned, NoRequest
  <2>. QED
    BY <1>4, <1>5, <2>2, <2>3 DEF LoginEarned
<1>11. Watched(s)'
  <2>1. sees => asked'[s] = r /\ r # NoRequest /\ window'[s] = {Seen(r, directories)}
    BY <1>5, RequestShape
  <2>2. ~sees => asked'[s] = NoRequest /\ window'[s] = {}
    BY <1>5
  <2>3. r.op \in {"MKD", "RMD"} => Seen(r, directories) \in {{}, {r.arg}}
    BY DEF Seen
  <2>4. toServer'[s] # NoRequest => toServer'[s] = r
    BY <1>5
  <2>5. CASE sees
    BY <1>4, <2>1, <2>3, <2>4, <2>5 DEF Watched
  <2>6. CASE ~sees
    BY <1>4, <2>2, <2>4, <2>6 DEF Watched, NoRequest
  <2>. QED
    BY <2>5, <2>6
<1>12. CodesTrue(s)'
  BY <1>2, <1>4 DEF CodesTrue, CodeTrue, LoggedCodes, Entry
<1>13. ListTrue(s)'
  <2>1. ~AllSent(s)'
    BY <1>2, <1>4 DEF AllSent
  <2>. QED
    BY <1>4, <2>1 DEF ListTrue
<1>. QED
  BY <1>7, <1>8, <1>9, <1>10, <1>11, <1>12, <1>13 DEF SInv

-----------------------------------------------------------------------------
(* Types.                                                                  *)

LEMMA ReadsTyped ==
    ASSUME IInv, NEW s \in Sessions, Reads(s) \/ NoMemory(s)
    PROVE TypeOK'
<1>1. TypeOK
  BY DEF IInv
<1>2. /\ client' \in [Sessions -> {"hello", "input", "response", "list", "done", "spinning",
                                   "failed"}]
      /\ entitled' = entitled /\ asked' = asked /\ toServer' = toServer /\ handler' = handler
      /\ possible_user' = possible_user /\ logged' = logged /\ directories' = directories
      /\ window' = window
  BY <1>1 DEF Reads, ReceiveHello, ReceiveResponse, ReceiveList, FindsEnd, NoMemory, ClientAt,
              ReadLine, TypeOK
<1>3. /\ toClient' \in [Sessions -> Seq(Fragments)]
      /\ shown' \in [Sessions -> SUBSET Names]
      /\ code' \in [Sessions -> Codes \cup {Entry, "none"}]
  <2>1. CASE ReadLine(s)
    <3>. DEFINE t == toClient[s]
    <3>1. PICK n \in 1..Len(t) :
            /\ toClient' = [toClient EXCEPT ![s] = SubSeq(@, n + 1, Len(@))]
            /\ code' = [code EXCEPT ![s] = t[1][1]]
            /\ shown' = [shown EXCEPT ![s] = @ \cup
                            {t[i][2] : i \in {j \in 1..n : t[j][1] = Entry}}]
      BY <2>1 DEF ReadLine
    <3>2. t \in Seq(Fragments) /\ Len(t) \in Nat
      BY <1>1 DEF TypeOK, Fragments
    <3>3. SubSeq(t, n + 1, Len(t)) \in Seq(Fragments)
      BY <3>2
    <3>4. t[1][1] \in Codes \cup {Entry}
      <4>1. t[1] \in Fragments
        BY <3>2
      <4>. QED
        BY <4>1 DEF Fragments
    <3>5. \A i \in 1..n : t[i][1] = Entry => t[i][2] \in Names
      <4>1. ASSUME NEW i \in 1..n, t[i][1] = Entry PROVE t[i][2] \in Names
        <5>1. t[i] \in Fragments
          BY <3>2
        <5>2. Entry \notin Codes
          BY CodesListed DEF Entry
        <5>. QED
          BY <4>1, <5>1, <5>2 DEF Fragments
      <4>. QED
        BY <4>1
    <3>6. toClient' \in [Sessions -> Seq(Fragments)]
      BY <1>1, <3>1, <3>3 DEF TypeOK, Fragments
    <3>7. code' \in [Sessions -> Codes \cup {Entry, "none"}]
      BY <1>1, <3>1, <3>4 DEF TypeOK
    <3>8. shown' \in [Sessions -> SUBSET Names]
      <4>. DEFINE read == {t[i][2] : i \in {j \in 1..n : t[j][1] = Entry}}
      <4>1. read \subseteq Names
        BY <3>5
      <4>2. shown' = [shown EXCEPT ![s] = @ \cup read]
        BY <3>1
      <4>. HIDE DEF read
      <4>. QED
        BY <1>1, <4>1, <4>2 DEF TypeOK
    <3>. QED
      BY <3>6, <3>7, <3>8
  <2>2. CASE FindsEnd(s) \/ NoMemory(s)
    BY <1>1, <2>2 DEF FindsEnd, NoMemory, TypeOK, Fragments
  <2>. QED
    BY <2>1, <2>2 DEF Reads, ReceiveHello, ReceiveResponse, ReceiveList
<1>. QED
  BY <1>1, <1>2, <1>3 DEF TypeOK, Fragments

LEMMA TypeTyped ==
    ASSUME IInv, NEW s \in Sessions, Type(s)
    PROVE TypeOK'
<1>1. TypeOK
  BY DEF IInv
<1>2. PICK r \in Requests :
        /\ toServer' = [toServer EXCEPT ![s] = IF handler[s] \in {"done", "gone"} THEN @ ELSE r]
        /\ \/ ClientAt(s, IF r.op = "empty" THEN "done" ELSE "response")
           \/ handler[s] = "gone" /\ ClientAt(s, "failed")
        /\ entitled' = [entitled EXCEPT ![s] = Entitlement(s, r)]
        /\ LET sees == r.op \in {"LIST", "MKD", "RMD"}
           IN  /\ asked' = [asked EXCEPT ![s] = IF sees THEN r ELSE NoRequest]
               /\ window' = [window EXCEPT ![s] = IF sees THEN {Seen(r, directories)} ELSE {}]
  BY DEF Type
<1>3. /\ client' \in [Sessions -> {"hello", "input", "response", "list", "done", "spinning",
                                   "failed"}]
      /\ toServer' \in [Sessions -> Requests \cup {NoRequest}]
      /\ asked' \in [Sessions -> Requests \cup {NoRequest}]
  BY <1>1, <1>2 DEF TypeOK, ClientAt
<1>4. entitled' \in [Sessions -> {"none", "user", "password"}]
  BY <1>1, <1>2 DEF TypeOK, Entitlement
<1>5. window' \in [Sessions -> SUBSET SUBSET Names]
  <2>1. Seen(r, directories) \in SUBSET Names
    BY <1>1 DEF TypeOK, Seen
  <2>. QED
    BY <1>1, <1>2, <2>1 DEF TypeOK
<1>6. /\ shown' \in [Sessions -> SUBSET Names]
      /\ code' \in [Sessions -> Codes \cup {Entry, "none"}]
  BY <1>1 DEF Type, TypeOK
<1>7. /\ toClient' = toClient /\ handler' = handler /\ possible_user' = possible_user
      /\ logged' = logged /\ directories' = directories
  BY DEF Type
<1>. QED
  BY <1>1, <1>3, <1>4, <1>5, <1>6, <1>7 DEF TypeOK

HandlerSteps ==
    {"hello", "recv", "respond", "list_size", "list_entries", "list_end", "done", "gone"}

\* What a step of the handler, or the end of its session, may touch.
LEMMA HandlesMoves ==
    ASSUME NEW s \in Sessions, Handles(s) \/ ServerEnds(s)
    PROVE /\ UNCHANGED clientVars
          /\ \E h \in HandlerSteps : HandlerAt(s, h)
          /\ \E held \in {toServer[s], NoRequest} :
                toServer' = toServer \/ toServer' = [toServer EXCEPT ![s] = held]
          /\ toClient' = toClient \/ \E t : toClient' = [toClient EXCEPT ![s] = t]
<1>1. CASE SendHello(s) \/ ReceiveRequest(s)
  BY <1>1 DEF SendHello, ReceiveRequest, HandlerAt, Attended, Sends, HandlerSteps
<1>2. CASE User(s) \/ Pass(s) \/ Info(s) \/ NotLogged(s) \/ Quit(s) \/ Invalid(s)
  <2>1. \E next \in {"recv", "done"} : Attended(s, next)
    BY <1>2 DEF User, Pass, Info, NotLogged, Quit, Invalid
  <2>2. \E t : Sends(s, t)
    BY <1>2 DEF User, Pass, Info, NotLogged, Quit, Invalid
  <2>3. UNCHANGED clientVars
    BY <1>2 DEF User, Pass, Info, NotLogged, Quit, Invalid
  <2>. QED
    BY <2>1, <2>2, <2>3 DEF Attended, Sends, HandlerSteps
<1>3. CASE Mkd(s) \/ Rmd(s)
  <2>1. \E next \in {"recv", "done"} : Attended(s, next)
    BY <1>3 DEF Mkd, Rmd, AnswerNaming
  <2>2. toClient' = toClient \/ \E t : Sends(s, t)
    BY <1>3 DEF Mkd, Rmd, AnswerNaming
  <2>3. UNCHANGED clientVars
    BY <1>3 DEF Mkd, Rmd
  <2>. QED
    BY <2>1, <2>2, <2>3 DEF Attended, Sends, HandlerSteps
<1>4. CASE ListBegin(s) \/ ListSize(s) \/ ListEntries(s) \/ ListEnd(s)
  BY <1>4 DEF ListBegin, ListSize, ListEntries, ListEnd, HandlerAt, Attended, Sends, HandlerSteps
<1>5. CASE ServerEnds(s)
  BY <1>5 DEF ServerEnds, HandlerAt, HandlerSteps
<1>. QED
  BY <1>1, <1>2, <1>3, <1>4, <1>5 DEF Handles

LEMMA HandlesTyped ==
    ASSUME IInv, NEW s \in Sessions, Handles(s) \/ ServerEnds(s)
    PROVE TypeOK' /\ IsFiniteSet(directories')
<1>1. TypeOK /\ IsFiniteSet(directories)
  BY DEF IInv
<1>2. UNCHANGED clientVars
  BY HandlesMoves
<1>3. /\ handler' \in [Sessions -> HandlerSteps]
      /\ toServer' \in [Sessions -> Requests \cup {NoRequest}]
  <2>1. /\ handler \in [Sessions -> HandlerSteps]
        /\ toServer \in [Sessions -> Requests \cup {NoRequest}]
    BY <1>1 DEF TypeOK, HandlerSteps
  <2>. QED
    BY <2>1, HandlesMoves DEF HandlerAt
<1>4. /\ possible_user' \in [Sessions -> {"none", "right", "wrong"}]
      /\ logged' \in [Sessions -> BOOLEAN]
  <2>1. CASE User(s)
    <3>1. toServer[s].arg \in {"right", "wrong"}
      <4>1. toServer[s] \in Requests /\ toServer[s].op = "USER"
        BY <2>1, NothingUnread DEF User, Serves
      <4>. QED
        BY <4>1, RequestShape
    <3>. QED
      BY <1>1, <2>1, <3>1 DEF User, TypeOK
  <2>2. CASE Pass(s)
    BY <1>1, <2>2 DEF Pass, TypeOK
  <2>3. CASE ServerEnds(s)
    BY <1>1, <2>3 DEF ServerEnds, TypeOK
  <2>4. CASE ~User(s) /\ ~Pass(s) /\ ~ServerEnds(s)
    <3>1. possible_user' = possible_user /\ logged' = logged
      BY <2>4 DEF Handles, SendHello, ReceiveRequest, Info, NotLogged, Mkd, Rmd, ListBegin, ListSize,
                  ListEntries, ListEnd, Quit, Invalid
    <3>. QED
      BY <1>1, <3>1 DEF TypeOK
  <2>. QED
    BY <2>1, <2>2, <2>3, <2>4
<1>5. /\ directories' \in SUBSET Names /\ IsFiniteSet(directories')
      /\ window' \in [Sessions -> SUBSET SUBSET Names]
  <2>1. CASE Mkd(s) \/ Rmd(s)
    <3>. DEFINE n == toServer[s].arg
    <3>1. n \in Names
      <4>1. toServer[s] \in Requests /\ toServer[s].op \in {"MKD", "RMD"}
        BY <2>1, NothingUnread DEF Mkd, Rmd, Serves
      <4>. QED
        BY <4>1, RequestShape
    <3>2. \/ UNCHANGED <<directories, window>>
          \/ \E dirs \in {directories \cup {n}, directories \ {n}} : Becomes(dirs)
      BY <2>1 DEF Mkd, Rmd
    <3>3. \A dirs \in {directories \cup {n}, directories \ {n}} :
              dirs \in SUBSET Names /\ IsFiniteSet(dirs)
      <4>1. IsFiniteSet(directories \cup {n}) /\ IsFiniteSet(directories \ {n})
        BY <1>1, FS_AddElement, FS_RemoveElement
      <4>2. directories \cup {n} \in SUBSET Names /\ directories \ {n} \in SUBSET Names
        BY <1>1, <3>1 DEF TypeOK
      <4>. QED
        BY <4>1, <4>2
    <3>4. ASSUME NEW dirs \in SUBSET Names, IsFiniteSet(dirs), Becomes(dirs)
          PROVE /\ directories' \in SUBSET Names /\ IsFiniteSet(directories')
                /\ window' \in [Sessions -> SUBSET SUBSET Names]
      <4>1. \A q \in Sessions : Seen(asked[q], dirs) \in SUBSET Names
        BY <3>4 DEF Seen
      <4>. QED
        BY <1>1, <3>4, <4>1 DEF Becomes, TypeOK
    <3>. QED
      BY <1>1, <3>2, <3>3, <3>4 DEF TypeOK
  <2>2. CASE ~Mkd(s) /\ ~Rmd(s)
    <3>1. directories' = directories /\ window' = window
      BY <2>2 DEF Handles, SendHello, ReceiveRequest, User, Pass, Info, NotLogged, ListBegin, ListSize,
                  ListEntries, ListEnd, Quit, Invalid, ServerEnds
    <3>. QED
      BY <1>1, <3>1 DEF TypeOK
  <2>. QED
    BY <2>1, <2>2
<1>6. toClient' \in [Sessions -> Seq(Fragments)]
  <2>1. toClient \in [Sessions -> Seq(Fragments)]
    BY <1>1 DEF TypeOK, Fragments
  <2>2. CASE ServerEnds(s) \/ ListEntries(s)
    <3>1. toClient'[s] \in Seq(Fragments)
      BY <2>2, ServerEndsKept, ListEntriesKept
    <3>2. \E t : toClient' = [toClient EXCEPT ![s] = t]
      BY <2>2 DEF ServerEnds, ListEntries, Sends
    <3>. QED
      BY <2>1, <3>1, <3>2
  <2>3. CASE ~ServerEnds(s) /\ ~ListEntries(s)
    <3>1. toClient' = toClient \/ \E c \in Codes : Sends(s, Response(c))
      BY <2>3, CodesListed
         DEF Handles, SendHello, ReceiveRequest, User, Pass, Info, NotLogged, Mkd, Rmd, ListBegin,
             ListSize, ListEnd, Quit, Invalid, AnswerNaming, InfoCode
    <3>2. ASSUME NEW c \in Codes, Sends(s, Response(c)) PROVE toClient' \in [Sessions -> Seq(Fragments)]
      <4>1. toClient[s] \o Response(c) \in Seq(Fragments)
        BY <2>1, OneMore
      <4>. QED
        BY <2>1, <3>2, <4>1 DEF Sends
    <3>. QED
      BY <2>1, <3>1, <3>2
  <2>. QED
    BY <2>2, <2>3
<1>. QED
  BY <1>1, <1>2, <1>3, <1>4, <1>5, <1>6 DEF TypeOK, Fragments, HandlerSteps

-----------------------------------------------------------------------------
\* A step of session s leaves every other one where it is.
LEMMA OthersSame ==
    ASSUME IInv, NEW s \in Sessions, NEW q \in Sessions, q # s,
           Type(s) \/ Reads(s) \/ NoMemory(s) \/ Handles(s) \/ ServerEnds(s)
    PROVE Same(q) /\ Changes(q)
<1>1. TypeOK
  BY DEF IInv
<1>2. CASE Type(s)
  <2>1. Same(q)
    BY <1>1, <1>2 DEF Type, ClientAt, Same, TypeOK
  <2>2. directories' = directories /\ window'[q] = window[q]
    BY <1>1, <1>2 DEF Type, TypeOK
  <2>. QED
    BY <2>1, <2>2 DEF Changes
<1>3. CASE Reads(s) \/ NoMemory(s)
  <2>1. Same(q)
    BY <1>1, <1>3 DEF Reads, ReceiveHello, ReceiveResponse, ReceiveList, FindsEnd, NoMemory, ClientAt,
                      ReadLine, Same, TypeOK
  <2>2. directories' = directories /\ window' = window
    BY <1>3 DEF Reads, ReceiveHello, ReceiveResponse, ReceiveList, FindsEnd, NoMemory, ReadLine
  <2>. QED
    BY <2>1, <2>2 DEF Changes
<1>4. CASE Handles(s) \/ ServerEnds(s)
  <2>1. UNCHANGED clientVars
    BY <1>4, HandlesMoves
  <2>2. handler'[q] = handler[q] /\ toServer'[q] = toServer[q]
    <3>1. handler'[q] = handler[q]
      BY <1>1, <1>4, HandlesMoves DEF HandlerAt, TypeOK
    <3>2. PICK held : toServer' = toServer \/ toServer' = [toServer EXCEPT ![s] = held]
      BY <1>4, HandlesMoves
    <3>3. toServer'[q] = toServer[q]
      BY <1>1, <3>2 DEF TypeOK
    <3>. QED
      BY <3>1, <3>3
  <2>3. toClient'[q] = toClient[q]
    BY <1>1, <1>4, HandlesMoves DEF TypeOK
  <2>4. possible_user'[q] = possible_user[q] /\ logged'[q] = logged[q]
    BY <1>1, <1>4 DEF Handles, SendHello, ReceiveRequest, User, Pass, Info, NotLogged, Mkd, Rmd,
                      ListBegin, ListSize, ListEntries, ListEnd, Quit, Invalid, ServerEnds, TypeOK
  <2>5. Changes(q)
    <3>1. CASE directories' = directories /\ window' = window
      BY <3>1 DEF Changes
    <3>2. CASE Mkd(s) \/ Rmd(s)
      <4>1. \/ UNCHANGED <<directories, window>>
            \/ Becomes(directories')
        BY <3>2 DEF Mkd, Rmd, Becomes
      <4>2. directories' \in SUBSET Names
        BY <1>4, HandlesTyped DEF TypeOK
      <4>. QED
        BY <4>1, <4>2 DEF Changes
    <3>. QED
      BY <1>4, <3>1, <3>2 DEF Handles, SendHello, ReceiveRequest, User, Pass, Info, NotLogged,
                              ListBegin, ListSize, ListEntries, ListEnd, Quit, Invalid, ServerEnds
  <2>. QED
    BY <2>1, <2>2, <2>3, <2>4, <2>5 DEF Same
<1>. QED
  BY <1>2, <1>3, <1>4

LEMMA NextIInv == IInv /\ [Next]_vars => IInv'
<1>1. ASSUME IInv, NEW s \in Sessions,
             Type(s) \/ Reads(s) \/ NoMemory(s) \/ Handles(s) \/ ServerEnds(s)
      PROVE IInv'
  <2>1. TypeOK' /\ IsFiniteSet(directories')
    <3>1. CASE Type(s)
      <4>1. directories' = directories
        BY <3>1 DEF Type
      <4>. QED
        BY <1>1, <3>1, <4>1, TypeTyped DEF IInv
    <3>2. CASE Reads(s) \/ NoMemory(s)
      <4>1. directories' = directories
        BY <3>2 DEF Reads, ReceiveHello, ReceiveResponse, ReceiveList, FindsEnd, NoMemory, ReadLine
      <4>. QED
        BY <1>1, <3>2, <4>1, ReadsTyped DEF IInv
    <3>3. CASE Handles(s) \/ ServerEnds(s)
      BY <1>1, <3>3, HandlesTyped
    <3>. QED
      BY <1>1, <3>1, <3>2, <3>3
  <2>2. SInv(s)'
    <3>1. CASE Type(s)
      BY <1>1, <3>1, TypeKept
    <3>2. CASE Reads(s) \/ NoMemory(s)
      BY <1>1, <3>2, ReceiveHelloKept, ReceiveResponseKept, ReceiveListKept, SpinsKept DEF Reads
    <3>3. CASE Handles(s)
      BY <1>1, <3>3, SendHelloKept, ReceiveRequestKept, AnswersKept, MkdKept, RmdKept, ListBeginKept,
         ListSizeKept, ListEntriesKept, ListEndKept DEF Handles
    <3>4. CASE ServerEnds(s)
      BY <1>1, <3>4, ServerEndsKept
    <3>. QED
      BY <1>1, <3>1, <3>2, <3>3, <3>4
  <2>3. ASSUME NEW q \in Sessions, q # s PROVE SInv(q)'
    BY <1>1, <2>3, OthersSame, SameKept
  <2>. QED
    BY <2>1, <2>2, <2>3 DEF IInv
<1>2. ASSUME IInv, UNCHANGED vars PROVE IInv'
  <2>1. TypeOK' /\ IsFiniteSet(directories')
    BY <1>2 DEF IInv, TypeOK
  <2>2. ASSUME NEW q \in Sessions PROVE SInv(q)'
    <3>1. Same(q) /\ Changes(q)
      BY <1>2 DEF Same, Changes
    <3>. QED
      BY <1>2, <3>1, SameKept
  <2>. QED
    BY <2>1, <2>2 DEF IInv
<1>. QED
  BY <1>1, <1>2 DEF Next

LEMMA Invariance == Spec => []IInv
BY InitIInv, NextIInv, PTL DEF Spec

\* The state of the sessions has its types, whatever the names and the number
\* of clients (Client::run_client, Server::respond_client).
THEOREM SessionTyped == Spec => []TypeOK
<1>1. IInv => TypeOK
  BY DEF IInv
<1>. QED
  BY <1>1, Invariance, PTL

\* A client at its prompt has nothing left unread and no request unattended: no
\* response is ever taken for that of a later command (Client::run_client).
THEOREM SessionsInStep == Spec => []InStep
<1>1. IInv => InStep
  BY DEF IInv, SInv, ClientFits, InStep
<1>. QED
  BY <1>1, Invariance, PTL

\* What is told after a login only is told to those only whose user has typed
\* the right name and then the right password (PassCommand::valid_credentials,
\* and the login that the other commands' send_response ask for).
THEOREM TellsEntitledOnly == Spec => []OnlyEntitled
<1>1. IInv => OnlyEntitled
  BY DEF IInv, SInv, CodesTrue, CodeTrue, OnlyEntitled
<1>. QED
  BY <1>1, Invariance, PTL

\* What a user is told of the list was true at an instant between request and
\* answer, whatever the other sessions do to it: a listing is the list of one
\* instant, although its size and its names are looked up apart
\* (ListCommand::send_response).
THEOREM TellsTrue == Spec => []ToldTrue
<1>1. IInv => ToldTrue
  BY DEF IInv, SInv, CodesTrue, CodeTrue, ListTrue, ToldTrue
<1>. QED
  BY <1>1, Invariance, PTL
=============================================================================
