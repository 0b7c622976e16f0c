-------------------------- MODULE FtpServerProofs --------------------------
(***************************************************************************)
(* Proofs about Server, its threads and its list of clients, for any       *)
(* number of connections, lines and descriptors.  They hold because main   *)
(* and the acceptor take turns in close_all_sockets (Exclusion), because a *)
(* client is given a thread only once and its thread is joined only when   *)
(* it has ended (Fresh, JoinedDone), and because the acceptor destroys the *)
(* vector of threads before main ends (EndedJoined).  What they say of the *)
(* list rests on a second invariant, LInv, and what they say of the        *)
(* descriptors on a third, OInv, below.                                    *)
(***************************************************************************)
EXTENDS FtpServer, SequenceTheorems, TLAPS

\* close_all_sockets runs in one thread at a time, the owner of m.
Exclusion == \A t \in Threads : pc[t] \in ClosingSteps <=> m = t

\* Its calls of back() and pop_back() find a client.
ListNotEmpty == \A t \in Threads : pc[t] \in {"close", "join", "wait", "pop"} => clients # <<>>

CurKnown == \A t \in Threads : pc[t] = "wait" => cur \in Conns

\* A thread is started when its connection is accepted, and not before.
Fresh ==
    /\ \A c \in Conns : c > accepted => handler[c] = "none"
    /\ pc["acceptor"] = "pushing" => accepted \in Conns

\* A thread that was joined has ended.
JoinedDone == \A c \in joined : handler[c] = "done"

\* The acceptor ends with all threads joined, and main after it.
EndedJoined ==
    /\ pc["acceptor"] = "ended" => Started \subseteq joined
    /\ proc = "exited" => pc["acceptor"] = "ended"

IInv ==
    /\ TypeOK
    /\ Exclusion
    /\ ListNotEmpty
    /\ CurKnown
    /\ Fresh
    /\ JoinedDone
    /\ EndedJoined

-----------------------------------------------------------------------------
\* The labels and the groups of variables, expanded everywhere below.
USE DEF Threads, JoiningSteps, ClosingSteps, MainSteps, AcceptorSteps, Conns, Descriptors, Lines, Started,
        vars, stopVars, listVars, threadVars, netVars, socketVars, handlerVars

LEMMA InitIInv == Init => IInv
<1>. SUFFICES ASSUME Init PROVE IInv
    OBVIOUS
<1>1. TypeOK
  <2>1. pc \in [Threads -> MainSteps \cup AcceptorSteps] /\ pc["main"] \in MainSteps
        /\ pc["acceptor"] \in AcceptorSteps
    BY DEF Init
  <2>2. inbox \in [Conns -> Seq(Lines)] /\ clients \in Seq(Conns)
    BY DEF Init
  <2>3. /\ capacity \in Nat /\ cur \in 0..MaxConns /\ connected \in 0..MaxConns
        /\ accepted \in 0..connected
    BY MaxConnsAssumption, InitThreadsAssumption DEF Init
  <2>4. table \in [Descriptors -> 0..MaxConns] /\ fd \in [Conns -> 0..FdLimit]
    BY MaxConnsAssumption, FdLimitAssumption DEF Init
  <2>5. /\ peer \in [Conns -> {"up", "gone", "reset"}]
        /\ handler \in [Conns -> {"none", "hello", "recv", "respond", "bye", "done"}]
        /\ junk \in [Conns -> BOOLEAN]
    BY DEF Init
  <2>6. /\ proc \in {"running", "exited", "terminated", "killed", "crashed"}
        /\ m \in Threads \cup {"nobody"} /\ is_running \in BOOLEAN /\ overlapped \in BOOLEAN
        /\ listening \in {"none", "open", "shut", "closed"}
        /\ raced \in SUBSET (0..MaxConns) /\ joined \in SUBSET Conns
        /\ dangling \in SUBSET Conns /\ down \in SUBSET Conns
    BY DEF Init
  <2>. QED BY <2>1, <2>2, <2>3, <2>4, <2>5, <2>6 DEF TypeOK
<1>2. Exclusion /\ ListNotEmpty /\ CurKnown /\ Fresh /\ JoinedDone /\ EndedJoined
  <2>1. pc["main"] = "console" /\ pc["acceptor"] = "bind"
    BY DEF Init
  <2>. QED BY <2>1 DEF Init, Exclusion, ListNotEmpty, CurKnown, Fresh, JoinedDone, EndedJoined
<1>. QED BY <1>1, <1>2 DEF IInv

-----------------------------------------------------------------------------
(* Peers and handlers.                                                     *)

\* Their steps leave main, the acceptor and the list alone: only the threads
\* of the clients move, from a step to a later one, and the process may end.
LEMMA Aside ==
    ASSUME IInv, proc = "running", NEW c \in Conns,
           UNCHANGED <<pc, m, clients, cur, joined, accepted>>,
           proc' \in {"running", "killed"},
           handler' = handler
               \/ (handler[c] \notin {"none", "done"}
                   /\ \E label : handler' = [handler EXCEPT ![c] = label]),
           TypeOK'
    PROVE  IInv'
<1>1. \A o \in Conns : /\ handler[o] = "none" => handler'[o] = "none"
                       /\ handler[o] = "done" => handler'[o] = "done"
  <2>1. CASE handler' = handler
    BY <2>1
  <2>2. CASE handler[c] \notin {"none", "done"} /\ \E label : handler' = [handler EXCEPT ![c] = label]
    <3>1. PICK label : handler' = [handler EXCEPT ![c] = label]
      BY <2>2
    <3>. QED BY <2>2, <3>1 DEF IInv, TypeOK
  <2>. QED BY <2>1, <2>2
<1>2. Exclusion' /\ ListNotEmpty' /\ CurKnown'
    BY DEF IInv, Exclusion, ListNotEmpty, CurKnown
<1>3. Fresh' /\ JoinedDone'
    BY <1>1 DEF IInv, TypeOK, Fresh, JoinedDone
<1>4. EndedJoined'
  <2>1. 1..accepted \subseteq Conns
    BY MaxConnsAssumption DEF IInv, TypeOK
  <2>2. Started' \subseteq Started
    BY <1>1, <2>1
  <2>. QED BY <2>2 DEF IInv, EndedJoined
<1>. QED BY <1>2, <1>3, <1>4 DEF IInv

LEMMA PeersIInv ==
    ASSUME IInv, proc = "running",
           PeerConnects \/ (\E c \in Conns : PeerCloses(c)) \/ Quit
    PROVE  IInv'
<1>1. CASE PeerConnects
  <2>1. \A script \in BoundedSeq(Lines, MaxLines) : script \in Seq(Lines)
    <3>1. SeqOf(Lines, MaxLines) \subseteq Seq(Lines)
      BY MaxLinesAssumption, SeqDef DEF SeqOf
    <3>. QED BY <3>1 DEF BoundedSeq
  <2>2. inbox' \in [Conns -> Seq(Lines)]
    BY <1>1, <2>1 DEF PeerConnects, IInv, TypeOK
  <2>3. connected' \in 0..MaxConns /\ accepted' \in 0..connected'
    BY <1>1, MaxConnsAssumption DEF PeerConnects, IInv, TypeOK
  <2>4. TypeOK'
    BY <1>1, <2>2, <2>3 DEF PeerConnects, IInv, TypeOK
  <2>. QED BY <1>1, <2>4
          DEF PeerConnects, IInv, Exclusion, ListNotEmpty, CurKnown, Fresh, JoinedDone, EndedJoined
<1>2. CASE \E c \in Conns : PeerCloses(c)
    BY <1>2 DEF PeerCloses, IInv, TypeOK, Exclusion, ListNotEmpty, CurKnown, Fresh,
            JoinedDone, EndedJoined
<1>3. CASE Quit
    BY <1>3 DEF Quit, Goto, IInv, TypeOK, Exclusion, ListNotEmpty, CurKnown, Fresh,
            JoinedDone, EndedJoined
<1>. QED BY <1>1, <1>2, <1>3

LEMMA DenotesTyped ==
    ASSUME IInv, NEW c \in Conns
    PROVE  Denotes(c) \in {0} \cup Conns
<1>1. fd[c] \in 0..FdLimit
    BY DEF IInv, TypeOK
<1>2. fd[c] # 0 => table[fd[c]] \in 0..MaxConns
    BY <1>1, FdLimitAssumption DEF IInv, TypeOK
<1>. QED BY <1>2, MaxConnsAssumption DEF Denotes

LEMMA SendIInv ==
    ASSUME IInv, proc = "running", NEW c \in Conns, handler[c] \notin {"none", "done"},
           Send(c, "recv") \/ Send(c, "done")
    PROVE  IInv'
<1>1. UNCHANGED <<pc, listening, stopVars, listVars, threadVars, connected, accepted, inbox,
                  socketVars, junk>>
    BY DEF Send
<1>2. proc' \in {"running", "killed"}
    BY DEF Send, Ends
<1>3. \/ handler' = handler
      \/ handler' = [handler EXCEPT ![c] = "recv"]
      \/ handler' = [handler EXCEPT ![c] = "done"]
    BY DEF Send, Step
<1>4. peer' \in [Conns -> {"up", "gone", "reset"}]
  <2>1. \/ peer' = peer
        \/ \E p \in {peer[Denotes(c)], "reset"} : peer' = [peer EXCEPT ![Denotes(c)] = p]
    BY DEF Send
  <2>. QED BY <2>1 DEF IInv, TypeOK
<1>5. handler' \in [Conns -> {"none", "hello", "recv", "respond", "bye", "done"}]
    BY <1>3 DEF IInv, TypeOK
<1>6. TypeOK'
    BY <1>1, <1>2, <1>4, <1>5 DEF IInv, TypeOK
<1>7. handler' = handler \/ \E label : handler' = [handler EXCEPT ![c] = label]
    BY <1>3
<1>. QED BY <1>1, <1>2, <1>6, <1>7, Aside

LEMMA ReceiveMoves ==
    ASSUME IInv, NEW c \in Conns, Receive(c)
    PROVE  \E label \in {"respond", "bye", "done"} : handler' = [handler EXCEPT ![c] = label]
<1>1. PICK others \in SUBSET OtherReaders(c, Denotes(c)) :
        \E part \in IF others = {} THEN {Head(inbox[Denotes(c)])} ELSE {"cmd", "nl"} :
            LET line == IF junk[c] THEN "cmd" ELSE part
            IN  Step(c, CASE line = "cmd" -> "respond"
                          [] line = "quit" -> "bye"
                          [] line = "nl" -> "done")
    BY DEF Receive
<1>2. PICK part \in IF others = {} THEN {Head(inbox[Denotes(c)])} ELSE {"cmd", "nl"} :
            LET line == IF junk[c] THEN "cmd" ELSE part
            IN  Step(c, CASE line = "cmd" -> "respond"
                          [] line = "quit" -> "bye"
                          [] line = "nl" -> "done")
    BY <1>1
<1>3. part \in Lines
  <2>1. Denotes(c) \in Conns
    BY MaxConnsAssumption DEF Receive, Denotes, IInv, TypeOK
  <2>2. Head(inbox[Denotes(c)]) \in Lines
    BY <2>1 DEF Receive, IInv, TypeOK
  <2>. QED BY <2>2
<1>4. (IF junk[c] THEN "cmd" ELSE part) \in Lines
    BY <1>3
<1>. QED BY <1>2, <1>4 DEF Step

LEMMA ReceiveIInv ==
    ASSUME IInv, proc = "running", NEW c \in Conns, Receive(c)
    PROVE  IInv'
<1>1. UNCHANGED <<proc, pc, listening, stopVars, listVars, threadVars, connected, accepted,
                  peer, socketVars>>
    BY DEF Receive
<1>2. \E label \in {"respond", "bye", "done"} : handler' = [handler EXCEPT ![c] = label]
    BY ReceiveMoves
<1>3. handler' \in [Conns -> {"none", "hello", "recv", "respond", "bye", "done"}]
    BY <1>2 DEF IInv, TypeOK
<1>4. inbox' \in [Conns -> Seq(Lines)]
  <2>1. Denotes(c) \in Conns /\ inbox[Denotes(c)] # <<>>
    BY DenotesTyped DEF Receive
  <2>2. Tail(inbox[Denotes(c)]) \in Seq(Lines)
    BY <2>1 DEF IInv, TypeOK
  <2>3. inbox' = [inbox EXCEPT ![Denotes(c)] = Tail(inbox[Denotes(c)])]
    BY DEF Receive
  <2>. QED BY <2>2, <2>3 DEF IInv, TypeOK
<1>5. junk' \in [Conns -> BOOLEAN]
    BY DEF Receive, IInv, TypeOK
<1>6. TypeOK'
    BY <1>1, <1>3, <1>4, <1>5 DEF IInv, TypeOK
<1>7. handler[c] = "recv" /\ \E label : handler' = [handler EXCEPT ![c] = label]
    BY <1>2 DEF Receive
<1>. QED BY <1>1, <1>6, <1>7, Aside

LEMMA HandlerIInv ==
    ASSUME IInv, proc = "running", NEW c \in Conns, HandlerStep(c) \/ Exhausted(c)
    PROVE  IInv'
<1>1. CASE Hello(c) \/ Respond(c)
    BY <1>1, SendIInv DEF Hello, Respond
<1>2. CASE Receive(c)
    BY <1>2, ReceiveIInv
<1>3. CASE Spin(c)
  <2>1. TypeOK'
    BY <1>3 DEF Spin, IInv, TypeOK
  <2>. QED BY <1>3, <2>1, Aside DEF Spin
<1>4. CASE Exhausted(c)
  <2>1. TypeOK'
    BY <1>4 DEF Exhausted, Step, IInv, TypeOK
  <2>2. handler[c] = "recv" /\ handler' = [handler EXCEPT ![c] = "done"]
    BY <1>4 DEF Exhausted, Step
  <2>3. \E label : handler' = [handler EXCEPT ![c] = label]
    BY <2>2
  <2>. QED BY <1>4, <2>1, <2>2, <2>3, Aside DEF Exhausted
<1>. QED BY <1>1, <1>2, <1>3, <1>4 DEF HandlerStep

-----------------------------------------------------------------------------
(* close_all_sockets.                                                      *)

LEMMA LastTyped ==
    ASSUME NEW S, NEW s \in Seq(S), s # <<>>
    PROVE  Last(s) \in S /\ Front(s) \in Seq(S)
<1>1. Len(s) \in Nat \ {0}
    BY EmptySeq
<1>2. Last(s) \in S
    BY <1>1 DEF Last
<1>3. Front(s) \in Seq(S)
    BY <1>1 DEF Front
<1>. QED BY <1>2, <1>3

LEMMA MembersTyped ==
    ASSUME NEW S, NEW s \in Seq(S)
    PROVE  \A c \in ToSet(s) : c \in S
<1>1. DOMAIN s = 1..Len(s) /\ \A i \in 1..Len(s) : s[i] \in S
    OBVIOUS
<1>. QED BY <1>1 DEF ToSet

LEMMA LastListed ==
    ASSUME NEW S, NEW s \in Seq(S), s # <<>>
    PROVE  Last(s) \in ToSet(s)
<1>1. Len(s) \in Nat \ {0} /\ DOMAIN s = 1..Len(s)
    BY EmptySeq
<1>. QED BY <1>1 DEF Last, ToSet

LEMMA LockAllIInv ==
    ASSUME IInv, proc = "running", NEW t \in Threads, LockAll(t)
    PROVE  IInv'
BY DEF LockAll, Goto, IInv, TypeOK, Exclusion, ListNotEmpty, CurKnown, Fresh,
            JoinedDone, EndedJoined

LEMMA AccessTyped ==
    ASSUME IInv, NEW t \in Threads, NEW popped \in 0..MaxConns, Access(t, popped)
    PROVE  raced' \in SUBSET (0..MaxConns)
<1>1. raced' \subseteq raced \cup {popped}
    BY DEF Access
<1>2. raced \subseteq 0..MaxConns
    BY DEF IInv, TypeOK
<1>. QED BY <1>1, <1>2

LEMMA CheckAndShutIInv ==
    ASSUME IInv, proc = "running", NEW t \in Threads, CheckAndShut(t)
    PROVE  IInv'
<1>1. raced' \in SUBSET (0..MaxConns)
    BY AccessTyped, MaxConnsAssumption DEF CheckAndShut
<1>2. UNCHANGED <<proc, listening, is_running, clients, overlapped, threadVars, netVars, table, fd,
                  handlerVars>>
    BY DEF CheckAndShut
<1>3. CASE clients = <<>>
  <2>1. /\ m = t /\ m' = "nobody" /\ UNCHANGED <<cur, down>>
        /\ pc' = [pc EXCEPT ![t] = ReturnLabel(t)]
    BY <1>3 DEF CheckAndShut, Goto, IInv, Exclusion
  <2>2. /\ t = "acceptor" => ReturnLabel(t) = "destroy"
        /\ t = "main" => ReturnLabel(t) \in {"set_flag", "join_acceptor"}
    BY DEF ReturnLabel
  <2>3. TypeOK'
    BY <1>1, <1>2, <2>1, <2>2 DEF IInv, TypeOK
  <2>4. Exclusion' /\ ListNotEmpty' /\ CurKnown'
    BY <1>2, <2>1, <2>2 DEF IInv, TypeOK, Exclusion, ListNotEmpty, CurKnown
  <2>5. Fresh' /\ JoinedDone' /\ EndedJoined'
    BY <1>2, <2>1, <2>2 DEF CheckAndShut, IInv, TypeOK, Fresh, JoinedDone, EndedJoined
  <2>. QED BY <2>3, <2>4, <2>5 DEF IInv
<1>4. CASE clients # <<>>
  <2>1. Last(clients) \in Conns
    BY <1>4, LastTyped DEF IInv, TypeOK
  <2>2. {Denotes(Last(clients))} \ {0} \subseteq Conns
    BY <2>1, DenotesTyped
  <2>3. down' \in SUBSET Conns
    BY <1>4, <2>2 DEF CheckAndShut, IInv, TypeOK
  <2>4. cur' \in Conns /\ UNCHANGED m /\ pc' = [pc EXCEPT ![t] = "close"]
    BY <1>4, <2>1 DEF CheckAndShut, Goto
  <2>5. cur' \in 0..MaxConns
    BY <2>4, MaxConnsAssumption
  <2>6. TypeOK'
    BY <1>1, <1>2, <2>3, <2>4, <2>5 DEF IInv, TypeOK
  <2>7. Exclusion' /\ ListNotEmpty' /\ CurKnown'
    BY <1>2, <1>4, <2>4 DEF CheckAndShut, IInv, TypeOK, Exclusion, ListNotEmpty, CurKnown
  <2>8. Fresh' /\ JoinedDone' /\ EndedJoined'
    BY <1>2, <2>4 DEF CheckAndShut, IInv, TypeOK, Fresh, JoinedDone, EndedJoined
  <2>. QED BY <2>6, <2>7, <2>8 DEF IInv
<1>. QED BY <1>3, <1>4

LEMMA CloseDescriptorIInv ==
    ASSUME IInv, proc = "running", NEW t \in Threads, CloseDescriptor(t)
    PROVE  IInv'
<1>1. table' \in [Descriptors -> 0..MaxConns]
    BY MaxConnsAssumption DEF CloseDescriptor, IInv, TypeOK
<1>. QED BY <1>1 DEF CloseDescriptor, Goto, IInv, TypeOK, Exclusion, ListNotEmpty, CurKnown, Fresh,
            JoinedDone, EndedJoined

LEMMA CheckJoinableIInv ==
    ASSUME IInv, proc = "running", NEW t \in Threads, CheckJoinable(t)
    PROVE  IInv'
<1>1. pc[t] = "join" /\ clients # <<>>
    BY DEF CheckJoinable, IInv, ListNotEmpty
<1>2. cur' = Last(clients) /\ cur' \in Conns
    BY <1>1, LastTyped DEF CheckJoinable, IInv, TypeOK
<1>3. raced' \in SUBSET (0..MaxConns)
    BY MaxConnsAssumption DEF CheckJoinable, Access, IInv, TypeOK
<1>4. CASE Goto(t, "pop") /\ UNCHANGED proc
    BY <1>1, <1>2, <1>3, <1>4 DEF CheckJoinable, Goto, IInv, TypeOK, Exclusion, ListNotEmpty, CurKnown, Fresh,
            JoinedDone, EndedJoined
<1>5. CASE Goto(t, "wait") /\ UNCHANGED proc
    BY <1>1, <1>2, <1>3, <1>5 DEF CheckJoinable, Goto, IInv, TypeOK, Exclusion, ListNotEmpty, CurKnown, Fresh,
            JoinedDone, EndedJoined
<1>6. CASE Ends("crashed") /\ UNCHANGED pc
    BY <1>1, <1>2, <1>3, <1>6 DEF CheckJoinable, Ends, IInv, TypeOK, Exclusion, ListNotEmpty, CurKnown, Fresh,
            JoinedDone, EndedJoined
<1>. QED BY <1>4, <1>5, <1>6 DEF CheckJoinable

LEMMA JoinIInv ==
    ASSUME IInv, proc = "running", NEW t \in Threads, Join(t)
    PROVE  IInv'
BY DEF Join, Goto, IInv, TypeOK, Exclusion, ListNotEmpty, CurKnown, Fresh,
            JoinedDone, EndedJoined

LEMMA PopIInv ==
    ASSUME IInv, proc = "running", NEW t \in Threads, Pop(t)
    PROVE  IInv'
<1>1. pc[t] = "pop" /\ clients # <<>>
    BY DEF Pop, IInv, ListNotEmpty
<1>2. Last(clients) \in Conns /\ clients' \in Seq(Conns)
    BY <1>1, LastTyped DEF Pop, IInv, TypeOK
<1>3. raced' \in SUBSET (0..MaxConns)
    BY <1>2, AccessTyped, MaxConnsAssumption DEF Pop
<1>. QED BY <1>1, <1>2, <1>3 DEF Pop, Goto, IInv, TypeOK, Exclusion, ListNotEmpty, CurKnown, Fresh,
            JoinedDone, EndedJoined

-----------------------------------------------------------------------------
(* The acceptor.                                                           *)

LEMMA AcceptIInv ==
    ASSUME IInv, proc = "running", Accept
    PROVE  IInv'
<1>1. accepted + 1 \in Conns /\ accepted \in Nat /\ connected \in Nat /\ accepted < connected
    BY MaxConnsAssumption DEF Accept, IInv, TypeOK
<1>2. accepted' = accepted + 1 /\ accepted' \in 0..connected'
    BY <1>1 DEF Accept
<1>3. PICK d \in Free : /\ table' = [table EXCEPT ![d] = accepted + 1]
                        /\ fd' = [fd EXCEPT ![accepted + 1] = d]
    BY DEF Accept
<1>4. table' \in [Descriptors -> 0..MaxConns] /\ fd' \in [Conns -> 0..FdLimit]
    BY <1>1, <1>3, MaxConnsAssumption, FdLimitAssumption DEF Free, IInv, TypeOK
<1>5. dangling' \in SUBSET Conns /\ capacity' \in Nat
  <2>1. 1..accepted \subseteq Conns
    BY <1>1, MaxConnsAssumption
  <2>2. dangling' \subseteq dangling \cup 1..accepted
    BY DEF Accept, Moved
  <2>3. capacity' \in Nat
    BY DEF Accept, IInv, TypeOK
  <2>. QED BY <2>1, <2>2, <2>3 DEF IInv, TypeOK
<1>6. /\ handler' = [handler EXCEPT ![accepted + 1] = "hello"] \/ handler' = handler
      /\ pc' = [pc EXCEPT !["acceptor"] = "pushing"] \/ pc' = [pc EXCEPT !["acceptor"] = "lock"]
    BY DEF Accept, Goto
<1>7. TypeOK'
  <2>1. /\ pc' \in [Threads -> MainSteps \cup AcceptorSteps]
        /\ pc'["main"] \in MainSteps /\ pc'["acceptor"] \in AcceptorSteps
        /\ handler' \in [Conns -> {"none", "hello", "recv", "respond", "bye", "done"}]
    <3>1. pc' \in [Threads -> MainSteps \cup AcceptorSteps]
      BY <1>6 DEF IInv, TypeOK
    <3>2. pc'["main"] = pc["main"] /\ pc'["acceptor"] \in {"pushing", "lock"}
      BY <1>6 DEF IInv, TypeOK
    <3>3. handler' \in [Conns -> {"none", "hello", "recv", "respond", "bye", "done"}]
      BY <1>6 DEF IInv, TypeOK
    <3>. QED BY <3>1, <3>2, <3>3 DEF IInv, TypeOK
  <2>2. overlapped' \in BOOLEAN
    BY DEF Accept, IInv, TypeOK
  <2>. QED BY <1>2, <1>4, <1>5, <2>1, <2>2 DEF Accept, IInv, TypeOK
<1>8. Fresh'
  <2>1. ASSUME NEW c \in Conns, c > accepted' PROVE handler'[c] = "none"
    <3>1. c # accepted + 1 /\ c > accepted
      BY <1>1, <1>2, <2>1
    <3>. QED BY <1>6, <3>1 DEF IInv, TypeOK, Fresh
  <2>. QED BY <1>1, <1>2, <2>1 DEF Fresh
<1>9. JoinedDone'
  <2>1. accepted + 1 \notin joined
    BY <1>1 DEF IInv, Fresh, JoinedDone
  <2>. QED BY <1>6, <2>1 DEF Accept, IInv, TypeOK, JoinedDone
<1>10. Exclusion' /\ ListNotEmpty' /\ CurKnown' /\ EndedJoined'
    BY <1>6 DEF Accept, IInv, TypeOK, Exclusion, ListNotEmpty, CurKnown, EndedJoined
<1>. QED BY <1>7, <1>8, <1>9, <1>10 DEF IInv

LEMMA PushIInv ==
    ASSUME IInv, proc = "running", Push
    PROVE  IInv'
<1>1. accepted \in Conns /\ pc["acceptor"] = "pushing"
    BY DEF Push, IInv, Fresh
<1>2. raced' = {} /\ overlapped' \in BOOLEAN
    BY DEF Push, IInv, TypeOK
<1>3. CASE Ends("crashed") /\ UNCHANGED <<clients, pc>>
    BY <1>1, <1>2, <1>3 DEF Push, Ends, IInv, TypeOK, Exclusion, ListNotEmpty, CurKnown, Fresh,
            JoinedDone, EndedJoined
<1>4. CASE Goto("acceptor", "close_dead") /\ UNCHANGED proc /\ ~UNCHANGED <<clients, pc>>
  <2>1. PICK undone \in {<<>>} \cup {<<d>> : d \in raced \ {0}}, added \in {<<>>, <<accepted>>} :
            clients' = clients \o undone \o added
    BY <1>4, <1>1 DEF Push, Goto, IInv, TypeOK
  <2>2. undone \in Seq(Conns) /\ added \in Seq(Conns)
    <3>1. raced \ {0} \subseteq Conns
      BY MaxConnsAssumption DEF IInv, TypeOK
    <3>2. <<>> \in Seq(Conns) /\ \A d \in Conns : <<d>> \in Seq(Conns)
      OBVIOUS
    <3>3. undone = <<>> \/ \E d \in raced \ {0} : undone = <<d>>
      OBVIOUS
    <3>4. added = <<>> \/ added = <<accepted>>
      OBVIOUS
    <3>. QED BY <1>1, <3>1, <3>2, <3>3, <3>4
  <2>3. clients' \in Seq(Conns)
    BY <2>1, <2>2 DEF IInv, TypeOK
  <2>4. clients # <<>> => clients' # <<>>
    BY <2>1, <2>2 DEF IInv, TypeOK
  <2>. QED BY <1>1, <1>2, <1>4, <2>3, <2>4, SMTT(30) DEF Push, Goto, IInv, TypeOK, Exclusion, ListNotEmpty, CurKnown, Fresh,
            JoinedDone, EndedJoined
<1>. QED BY <1>1, <1>3, <1>4 DEF Push, Goto, IInv, TypeOK

\* is_alive is set for every client in the list: none is taken for dead.
LEMMA NoneDead ==
    ASSUME IInv, CloseDead
    PROVE  /\ pc["acceptor"] = "close_dead"
           /\ pc' = [pc EXCEPT !["acceptor"] = "loop"]
           /\ UNCHANGED <<proc, listening, m, is_running, cur, clients, raced, overlapped, joined,
                          dangling, capacity, connected, accepted, peer, inbox, down, table, fd,
                          handler, junk>>
<1>1. {c \in ToSet(clients) : IsDead(c)} = {}
    BY DEF IsDead
<1>2. clients' = clients
    BY DEF CloseDead, AliveClients, IsDead
<1>3. joined' = joined /\ down' = down
    BY <1>1 DEF CloseDead
<1>4. table' = [d \in Descriptors |-> table[d]]
    BY <1>1, Zenon DEF CloseDead
<1>5. table' = table
    BY <1>4 DEF IInv, TypeOK
<1>. QED BY <1>2, <1>3, <1>5 DEF CloseDead, Goto

LEMMA AcceptorIInv ==
    ASSUME IInv, proc = "running", Bind \/ Loop \/ AcceptFails \/ CloseDead \/ Destroy
    PROVE  IInv'
<1>1. CASE Bind
    BY <1>1 DEF Bind, Goto, IInv, TypeOK, Exclusion, ListNotEmpty, CurKnown, Fresh,
            JoinedDone, EndedJoined
<1>2. CASE Loop
    BY <1>2 DEF Loop, Goto, IInv, TypeOK, Exclusion, ListNotEmpty, CurKnown, Fresh,
            JoinedDone, EndedJoined
<1>3. CASE AcceptFails
    BY <1>3 DEF AcceptFails, Goto, IInv, TypeOK, Exclusion, ListNotEmpty, CurKnown, Fresh,
            JoinedDone, EndedJoined
<1>4. CASE CloseDead
  <2>1. /\ pc["acceptor"] = "close_dead"
        /\ pc' = [pc EXCEPT !["acceptor"] = "loop"]
        /\ UNCHANGED <<proc, listening, m, is_running, cur, clients, raced, overlapped, joined,
                       dangling, capacity, connected, accepted, peer, inbox, down, table, fd,
                       handler, junk>>
    BY <1>4, NoneDead
  <2>2. TypeOK'
    BY <2>1 DEF IInv, TypeOK
  <2>3. Exclusion' /\ ListNotEmpty' /\ CurKnown'
    BY <2>1 DEF IInv, TypeOK, Exclusion, ListNotEmpty, CurKnown
  <2>4. Fresh' /\ JoinedDone' /\ EndedJoined'
    BY <2>1 DEF IInv, TypeOK, Fresh, JoinedDone, EndedJoined
  <2>. QED BY <2>2, <2>3, <2>4 DEF IInv
<1>5. CASE Destroy
    BY <1>5 DEF Destroy, Goto, Ends, IInv, TypeOK, Exclusion, ListNotEmpty, CurKnown, Fresh,
            JoinedDone, EndedJoined
<1>. QED BY <1>1, <1>2, <1>3, <1>4, <1>5

-----------------------------------------------------------------------------
LEMMA MainIInv ==
    ASSUME IInv, proc = "running", SetFlag \/ ShutListener \/ CloseListener \/ JoinAcceptor
    PROVE  IInv'
<1>1. CASE SetFlag
  <2>1. TypeOK'
    BY <1>1 DEF SetFlag, Goto, IInv, TypeOK
  <2>2. Exclusion' /\ ListNotEmpty' /\ CurKnown'
    BY <1>1 DEF SetFlag, Goto, IInv, TypeOK, Exclusion, ListNotEmpty, CurKnown
  <2>3. Fresh' /\ JoinedDone' /\ EndedJoined'
    BY <1>1 DEF SetFlag, Goto, IInv, TypeOK, Fresh, JoinedDone, EndedJoined
  <2>. QED BY <2>1, <2>2, <2>3 DEF IInv
<1>2. CASE ShutListener
    BY <1>2 DEF ShutListener, Goto, Ends, IInv, TypeOK, Exclusion, ListNotEmpty, CurKnown, Fresh,
            JoinedDone, EndedJoined
<1>3. CASE CloseListener
    BY <1>3 DEF CloseListener, Goto, IInv, TypeOK, Exclusion, ListNotEmpty, CurKnown, Fresh,
            JoinedDone, EndedJoined
<1>4. CASE JoinAcceptor
    BY <1>4 DEF JoinAcceptor, Goto, Ends, IInv, TypeOK, Exclusion, ListNotEmpty, CurKnown, Fresh,
            JoinedDone, EndedJoined
<1>. QED BY <1>1, <1>2, <1>3, <1>4

LEMMA StepIInv == IInv /\ [Next]_vars => IInv'
<1>. SUFFICES ASSUME IInv, [Next]_vars PROVE IInv'
    OBVIOUS
<1>1. CASE UNCHANGED vars
    BY <1>1 DEF IInv, TypeOK, Exclusion, ListNotEmpty, CurKnown, Fresh,
            JoinedDone, EndedJoined
<1>2. CASE proc = "running" /\ Environment
    BY <1>2, PeersIInv DEF Environment
<1>3. CASE proc = "running" /\ \E t \in Threads : CloseAll(t)
    BY <1>3, LockAllIInv, CheckAndShutIInv, CloseDescriptorIInv, CheckJoinableIInv, JoinIInv,
       PopIInv DEF CloseAll
<1>4. CASE proc = "running" /\ (SetFlag \/ ShutListener \/ CloseListener \/ JoinAcceptor)
    BY <1>4, MainIInv
<1>5. CASE proc = "running" /\ (Bind \/ Loop \/ AcceptFails \/ CloseDead \/ Destroy)
    BY <1>5, AcceptorIInv
<1>6. CASE proc = "running" /\ (Accept \/ Push)
    BY <1>6, AcceptIInv, PushIInv
<1>7. CASE proc = "running" /\ \E c \in Conns : HandlerStep(c) \/ Exhausted(c)
    BY <1>7, HandlerIInv
<1>. QED BY <1>1, <1>2, <1>3, <1>4, <1>5, <1>6, <1>7 DEF Next, Main, Acceptor

\* The invariant holds in every state of the server: exclusion in
\* close_all_sockets, threads joined only when they have ended.
THEOREM Invariance == Spec => []IInv
BY InitIInv, StepIInv, PTL DEF Spec

\* The variables keep their types (Server).
THEOREM ServerTyped == Spec => []TypeOK
BY Invariance, PTL DEF IInv

\* For any number of clients, lines and descriptors: when the process comes to
\* its normal end, every thread of a client has ended and been
\* joined (run_server, close_all_sockets, main).
THEOREM NoThreadOutlivesExit == Spec => []ExitJoined
<1>1. IInv => ExitJoined
    BY DEF IInv, JoinedDone, EndedJoined, ExitJoined
<1>. QED BY <1>1, Invariance, PTL

-----------------------------------------------------------------------------
(* The vector of threads.                                                  *)

\* The first growth comes with the first thread and makes room for the others.
Roomy ==
    /\ accepted = 0 => capacity = InitThreads
    /\ accepted > 0 => GaveUp \/ capacity >= 2 * InitThreads
    /\ AddressesValid

\* run_server does not go back to its loop.
LEMMA StaysOut == IInv /\ [Next]_vars /\ GaveUp => GaveUp'
<1>. SUFFICES ASSUME IInv, [Next]_vars, GaveUp PROVE GaveUp'
    OBVIOUS
<1>1. CASE Acceptor
  <2>1. CASE CloseAll("acceptor")
    <3>1. pc' = pc \/ \E label \in ClosingSteps \cup {"destroy"} : pc' = [pc EXCEPT !["acceptor"] = label]
      BY <2>1 DEF CloseAll, LockAll, CheckAndShut, ReturnLabel, CloseDescriptor, CheckJoinable,
                  Join, Pop, Goto
    <3>. QED BY <3>1 DEF GaveUp, IInv, TypeOK
  <2>2. CASE Destroy
    BY <2>2 DEF Destroy, Goto, GaveUp, IInv, TypeOK
  <2>3. ~(Bind \/ Loop \/ Accept \/ AcceptFails \/ Push \/ CloseDead)
    BY DEF Bind, Loop, Accept, AcceptFails, Push, CloseDead, GaveUp
  <2>. QED BY <1>1, <2>1, <2>2, <2>3 DEF Acceptor
<1>2. CASE Main
  <2>1. pc' = pc \/ pc' = [pc EXCEPT !["main"] = pc'["main"]]
    BY <1>2 DEF Main, SetFlag, ShutListener, CloseListener, JoinAcceptor, CloseAll, LockAll,
                CheckAndShut, CloseDescriptor, CheckJoinable, Join, Pop, Goto, IInv, TypeOK
  <2>. QED BY <2>1 DEF GaveUp, IInv, TypeOK
<1>3. CASE Environment \/ (\E c \in Conns : HandlerStep(c) \/ Exhausted(c)) \/ UNCHANGED vars
  <2>1. pc' = pc \/ pc' = [pc EXCEPT !["main"] = "lock"]
    BY <1>3 DEF Environment, PeerConnects, PeerCloses, Quit, Goto, HandlerStep, Hello, Respond,
                Send, Receive, Spin, Exhausted
  <2>. QED BY <2>1 DEF GaveUp, IInv, TypeOK
<1>. QED BY <1>1, <1>2, <1>3 DEF Next

LEMMA StepRoomy == IInv /\ Roomy /\ [Next]_vars => Roomy'
<1>. SUFFICES ASSUME IInv, Roomy, [Next]_vars PROVE Roomy'
    OBVIOUS
<1>1. CASE Accept
  <2>1. accepted \in Nat /\ capacity \in Nat /\ accepted' = accepted + 1
    BY <1>1 DEF Accept, IInv, TypeOK
  <2>2. pc["acceptor"] = "accept" /\ ~GaveUp
    BY <1>1 DEF Accept, GaveUp
  <2>3. \/ pc' = [pc EXCEPT !["acceptor"] = "lock"] /\ UNCHANGED <<capacity, dangling>>
        \/ /\ capacity' = IF InitThreads + accepted = capacity THEN 2 * capacity ELSE capacity
           /\ dangling' = IF InitThreads + accepted = capacity THEN 1..accepted ELSE dangling
    BY <1>1 DEF Accept, Moved, Goto
  <2>4. CASE pc' = [pc EXCEPT !["acceptor"] = "lock"] /\ UNCHANGED <<capacity, dangling>>
    <3>1. GaveUp'
      BY <2>4 DEF GaveUp, IInv, TypeOK
    <3>2. accepted' > 0 /\ (accepted' <= InitThreads => accepted <= InitThreads)
      BY <2>1, InitThreadsAssumption
    <3>3. accepted' <= InitThreads => dangling' = {}
      BY <2>4, <3>2 DEF Roomy, AddressesValid
    <3>. QED BY <3>1, <3>2, <3>3 DEF Roomy, AddressesValid
  <2>5. CASE /\ InitThreads + accepted = capacity
             /\ capacity' = 2 * capacity /\ dangling' = 1..accepted
    <3>1. accepted > 0 => accepted >= InitThreads
      BY <2>1, <2>2, <2>5, InitThreadsAssumption DEF Roomy
    <3>2. accepted = 0 => dangling' = {}
      BY <2>5
    <3>3. capacity' >= 2 * InitThreads /\ accepted' > 0
      BY <2>1, <2>5, InitThreadsAssumption
    <3>4. accepted' <= InitThreads => accepted = 0
      BY <2>1, <3>1, InitThreadsAssumption
    <3>. QED BY <3>2, <3>3, <3>4 DEF Roomy, AddressesValid
  <2>6. CASE InitThreads + accepted # capacity /\ UNCHANGED <<capacity, dangling>>
    <3>1. accepted > 0
      BY <2>1, <2>6 DEF Roomy, AddressesValid
    <3>. QED BY <2>1, <2>2, <2>6, <3>1, InitThreadsAssumption DEF Roomy, AddressesValid
  <2>. QED BY <2>3, <2>4, <2>5, <2>6
<1>2. CASE UNCHANGED <<accepted, capacity, dangling>>
    BY <1>2, StaysOut DEF Roomy, AddressesValid
<1>3. Accept \/ UNCHANGED <<accepted, capacity, dangling>>
    BY DEF Next, Environment, PeerConnects, PeerCloses, Quit, Main, SetFlag, ShutListener,
           CloseListener, JoinAcceptor, Acceptor, Bind, Loop, AcceptFails, Push, CloseDead, Destroy,
           CloseAll, LockAll, CheckAndShut, CloseDescriptor, CheckJoinable, Join, Pop,
           HandlerStep, Hello, Respond, Send, Receive, Spin, Exhausted
<1>. QED BY <1>1, <1>2, <1>3

\* For any size of the vector of threads: the address saved for a client stays
\* that of its thread object until more clients were served than the vector
\* was created with elements (run_server).
THEOREM AddressesStay == Spec => []AddressesValid
<1>1. Init => Roomy
    BY InitThreadsAssumption DEF Init, Roomy, AddressesValid
<1>2. Roomy => AddressesValid
    BY DEF Roomy
<1>. QED BY <1>1, <1>2, StepRoomy, Invariance, PTL DEF Spec

-----------------------------------------------------------------------------
(* The list of clients.  As long as no push overlapped main's use of it, it *)
(* leads to every thread and every descriptor that is still to be joined or *)
(* closed, but for the threads whose saved addresses went stale.            *)

\* Only accepted clients are in the list, or come back to it.
Listed == clients \in Seq(1..accepted) /\ raced \subseteq 0..accepted

Tracked(c) == c \in ToSet(clients) \/ (c = accepted /\ pc["acceptor"] = "pushing")

\* Threads that have been started and not joined can be found.
Found == \A c \in Conns : handler[c] # "none" => Tracked(c) \/ c \in joined \cup dangling

\* A descriptor of a connection is the one its client was accepted with.
Numbered == \A d \in Descriptors : table[d] # 0 => table[d] \in 1..accepted /\ fd[table[d]] = d

\* Descriptors that are open belong to clients that can be found.
Open == \A d \in Descriptors : table[d] # 0 => handler[table[d]] = "none" \/ Tracked(table[d])

\* close_all_sockets is at the last client all the time, and pops it when its
\* descriptor is closed and its thread joined.
AtLast ==
    \A t \in Threads :
        /\ pc[t] \in {"close", "join", "wait", "pop"} => cur = Last(clients)
        /\ pc[t] \in JoiningSteps => \A d \in Descriptors : table[d] # Last(clients)
        /\ pc[t] = "pop" => Last(clients) \in joined \cup dangling

\* The acceptor destroys the vector of threads when the list is empty.
Emptied == pc["acceptor"] \in {"destroy", "ended"} => clients = <<>>

LInv ==
    /\ Listed /\ Numbered
    /\ dangling \subseteq 1..accepted
    /\ overlapped \/ (Open /\ AtLast /\ Emptied /\ Found)

\* A step that leaves list, descriptors and saved addresses alone.
LEMMA LFrame ==
    ASSUME IInv, LInv, UNCHANGED <<clients, overlapped, accepted, table, fd, dangling>>,
           raced' \subseteq 0..accepted,
           \A c \in Conns : handler'[c] = "none" <=> handler[c] = "none",
           joined \subseteq joined',
           pc'["acceptor"] = "pushing" <=> pc["acceptor"] = "pushing",
           pc'["acceptor"] \in {"destroy", "ended"} =>
               pc["acceptor"] \in {"destroy", "ended"} \/ clients = <<>>,
           AtLast => AtLast'
    PROVE  LInv'
<1>1. Listed' /\ Numbered' /\ dangling' \subseteq 1..accepted'
    BY DEF LInv, Listed, Numbered
<1>2. \A c : Tracked(c)' <=> Tracked(c)
    BY DEF Tracked
<1>3. Found => Found'
    BY <1>2 DEF Found
<1>4. Open => Open'
  <2>1. \A d \in Descriptors : table[d] # 0 => table[d] \in Conns
    BY MaxConnsAssumption DEF LInv, Numbered, IInv, TypeOK
  <2>. QED BY <1>2, <2>1 DEF Open
<1>5. Emptied => Emptied'
    BY DEF Emptied
<1>. QED BY <1>1, <1>3, <1>4, <1>5 DEF LInv

\* What main's use of the list leaves in raced.
LEMMA RacedListed ==
    ASSUME IInv, LInv, NEW t \in Threads, NEW popped \in 0..accepted, Access(t, popped)
    PROVE  raced' \subseteq 0..accepted
BY DEF Access, LInv, Listed

\* A step that goes on in close_all_sockets nowhere.
LEMMA AtLastStays ==
    ASSUME UNCHANGED <<clients, table, dangling>>, joined \subseteq joined', AtLast,
           \A t \in Threads : pc'[t] \in {"close", "join", "wait", "pop"} =>
                                  pc'[t] = pc[t] /\ cur' = cur
    PROVE  AtLast'
BY DEF AtLast

LEMMA LOthers ==
    ASSUME IInv, LInv, proc = "running",
           Environment \/ \E c \in Conns : HandlerStep(c) \/ Exhausted(c)
    PROVE  LInv'
<1>1. UNCHANGED <<clients, overlapped, accepted, table, fd, dangling, raced, cur, joined>>
    BY DEF Environment, PeerConnects, PeerCloses, Quit, HandlerStep, Hello, Respond, Send,
           Receive, Spin, Exhausted
<1>2. pc' = pc \/ (pc["main"] = "console" /\ pc' = [pc EXCEPT !["main"] = "lock"])
    BY DEF Environment, PeerConnects, PeerCloses, Quit, Goto, HandlerStep, Hello, Respond, Send,
           Receive, Spin, Exhausted
<1>3. /\ \A t \in Threads : pc'[t] \in {"close", "join", "wait", "pop"} => pc'[t] = pc[t]
      /\ pc'["acceptor"] = pc["acceptor"]
    BY <1>2 DEF IInv, TypeOK
<1>4. \A c \in Conns : handler'[c] = "none" <=> handler[c] = "none"
  <2>1. CASE Environment
    BY <2>1 DEF Environment, PeerConnects, PeerCloses, Quit
  <2>2. ASSUME NEW c \in Conns, HandlerStep(c) \/ Exhausted(c)
        PROVE  \A o \in Conns : handler'[o] = "none" <=> handler[o] = "none"
    <3>1. handler[c] # "none"
      BY <2>2 DEF HandlerStep, Hello, Respond, Receive, Spin, Exhausted
    <3>2. handler' = handler \/ \E label \in {"recv", "respond", "bye", "done"} :
                                    handler' = [handler EXCEPT ![c] = label]
      <4>1. CASE Hello(c) \/ Respond(c)
        BY <4>1 DEF Hello, Respond, Send, Step
      <4>2. CASE Receive(c)
        BY <4>2, ReceiveMoves
      <4>3. CASE Spin(c) \/ Exhausted(c)
        BY <4>3 DEF Spin, Exhausted, Step
      <4>. QED BY <2>2, <4>1, <4>2, <4>3 DEF HandlerStep
    <3>. QED BY <3>1, <3>2 DEF IInv, TypeOK
  <2>. QED BY <2>1, <2>2
<1>5. AtLast => AtLast'
    BY <1>1, <1>3, AtLastStays
<1>6. raced' \subseteq 0..accepted
    BY <1>1 DEF LInv, Listed
<1>. QED BY <1>1, <1>3, <1>4, <1>5, <1>6, LFrame

LEMMA LMoves ==
    ASSUME IInv, LInv, proc = "running",
           \/ SetFlag \/ ShutListener \/ CloseListener \/ JoinAcceptor
           \/ Bind \/ Loop \/ AcceptFails \/ CloseDead \/ Destroy
           \/ \E t \in Threads : LockAll(t)
    PROVE  LInv'
<1>1. UNCHANGED <<clients, overlapped, accepted, table, fd, dangling, raced, cur, joined, handler>>
    BY NoneDead DEF SetFlag, ShutListener, CloseListener, JoinAcceptor, Bind, Loop, AcceptFails,
           Destroy, LockAll
<1>2. PICK t \in Threads :
          \/ pc' = pc
          \/ /\ pc' = [pc EXCEPT ![t] = pc'[t]]
             /\ pc'[t] \notin {"close", "join", "wait", "pop", "console", "pushing", "destroy"}
             /\ pc[t] # "pushing"
             /\ t = "acceptor" /\ pc'[t] = "ended" => pc[t] = "destroy"
    BY DEF SetFlag, ShutListener, CloseListener, JoinAcceptor, Bind, Loop, AcceptFails,
           CloseDead, Destroy, LockAll, Goto, IInv, TypeOK
<1>3. /\ \A s \in Threads : pc'[s] \in {"close", "join", "wait", "pop"} => pc'[s] = pc[s]
      /\ pc'["acceptor"] = "pushing" <=> pc["acceptor"] = "pushing"
      /\ pc'["acceptor"] \in {"destroy", "ended"} => pc["acceptor"] \in {"destroy", "ended"}
    BY <1>2 DEF IInv, TypeOK
<1>4. AtLast => AtLast'
    BY <1>1, <1>3, AtLastStays
<1>5. raced' \subseteq 0..accepted
    BY <1>1 DEF LInv, Listed
<1>. QED BY <1>1, <1>3, <1>4, <1>5, LFrame

\* While one thread closes the list, the other is elsewhere.
LEMMA Alone ==
    ASSUME IInv, NEW t \in Threads, pc[t] \in ClosingSteps
    PROVE  \A s \in Threads \ {t} : pc[s] \notin ClosingSteps
BY DEF IInv, Exclusion

LEMMA LCheckAndShut ==
    ASSUME IInv, LInv, proc = "running", NEW t \in Threads, CheckAndShut(t)
    PROVE  LInv'
<1>1. UNCHANGED <<clients, overlapped, accepted, table, fd, dangling, joined, handler>>
    BY DEF CheckAndShut
<1>2. /\ pc' = [pc EXCEPT ![t] = pc'[t]]
      /\ pc[t] = "check"
      /\ \/ clients # <<>> /\ pc'[t] = "close" /\ cur' = Last(clients)
         \/ /\ clients = <<>>
            /\ pc'[t] = IF t = "acceptor" THEN "destroy"
                        ELSE IF is_running THEN "set_flag" ELSE "join_acceptor"
    BY DEF CheckAndShut, Goto, ReturnLabel, IInv, TypeOK
<1>3. raced' \subseteq 0..accepted
  <2>1. 0 \in 0..accepted
    BY MaxConnsAssumption DEF IInv, TypeOK
  <2>. QED BY <2>1, RacedListed DEF CheckAndShut
<1>4. /\ pc'["acceptor"] = "pushing" <=> pc["acceptor"] = "pushing"
      /\ pc'["acceptor"] \in {"destroy", "ended"} =>
             pc["acceptor"] \in {"destroy", "ended"} \/ clients = <<>>
    BY <1>2 DEF IInv, TypeOK
<1>5. AtLast'
  <2>1. \A s \in Threads \ {t} : pc'[s] = pc[s] /\ pc[s] \notin ClosingSteps
    BY <1>2, Alone DEF IInv, TypeOK
  <2>2. pc'[t] \notin {"join", "wait", "pop"} /\ (pc'[t] = "close" => cur' = Last(clients))
    BY <1>2
  <2>. QED BY <1>1, <2>1, <2>2 DEF AtLast
<1>. QED BY <1>1, <1>3, <1>4, <1>5, LFrame

LEMMA LCloseDescriptor ==
    ASSUME IInv, LInv, proc = "running", NEW t \in Threads, CloseDescriptor(t)
    PROVE  LInv'
<1>1. UNCHANGED <<clients, raced, overlapped, accepted, dangling, joined, fd, cur, handler>>
    BY DEF CloseDescriptor
<1>2. pc[t] = "close" /\ pc' = [pc EXCEPT ![t] = "join"]
    BY DEF CloseDescriptor, Goto
<1>3. \/ table' = [table EXCEPT ![fd[cur]] = 0]
      \/ Last(clients) # cur /\ UNCHANGED table
    BY DEF CloseDescriptor
<1>4. /\ pc'["acceptor"] = "pushing" <=> pc["acceptor"] = "pushing"
      /\ pc'["acceptor"] \in {"destroy", "ended"} <=> pc["acceptor"] \in {"destroy", "ended"}
    BY <1>2 DEF IInv, TypeOK
<1>5. \A d \in Descriptors : table'[d] # 0 => table'[d] = table[d]
    BY <1>3 DEF IInv, TypeOK
<1>6. Listed' /\ Numbered' /\ dangling' \subseteq 1..accepted'
    BY <1>1, <1>5 DEF LInv, Listed, Numbered
<1>7. ASSUME Open, AtLast, Emptied PROVE Open' /\ AtLast' /\ Emptied'
  <2>1. Open' /\ Emptied'
    BY <1>1, <1>4, <1>5, <1>7 DEF Open, Emptied, Tracked
  <2>2. cur = Last(clients)
    BY <1>2, <1>7 DEF AtLast
  <2>3. cur \in Conns
    BY <1>2, <2>2, LastTyped DEF IInv, TypeOK, ListNotEmpty
  <2>4. ASSUME NEW d \in Descriptors PROVE table'[d] # Last(clients)
    <3>1. table'[d] = Last(clients) => table[d] = cur /\ cur # 0
      BY <1>5, <2>2, <2>3
    <3>2. table[d] = cur /\ cur # 0 => fd[cur] = d
      BY DEF LInv, Numbered
    <3>3. fd[cur] = d => table'[d] = 0
      BY <1>3, <2>2, FdLimitAssumption DEF IInv, TypeOK
    <3>. QED BY <2>2, <2>3, <3>1, <3>2, <3>3
  <2>5. \A s \in Threads \ {t} : pc'[s] = pc[s] /\ pc[s] \notin ClosingSteps
    BY <1>2, Alone DEF IInv, TypeOK
  <2>6. pc'[t] = "join"
    BY <1>2 DEF IInv, TypeOK
  <2>7. AtLast'
    BY <1>1, <2>2, <2>4, <2>5, <2>6 DEF AtLast
  <2>. QED BY <2>1, <2>7
<1>8. Found => Found'
  <2>1. \A c : Tracked(c)' <=> Tracked(c)
    BY <1>1, <1>4 DEF Tracked
  <2>. QED BY <1>1, <2>1 DEF Found
<1>. QED BY <1>1, <1>6, <1>7, <1>8 DEF LInv

LEMMA LCheckJoinable ==
    ASSUME IInv, LInv, proc = "running", NEW t \in Threads, CheckJoinable(t)
    PROVE  LInv'
<1>1. UNCHANGED <<clients, overlapped, accepted, table, fd, dangling, joined, handler>>
    BY DEF CheckJoinable
<1>2. /\ pc[t] = "join" /\ cur' = Last(clients)
      /\ \/ pc' = pc
         \/ pc' = [pc EXCEPT ![t] = "pop"] /\ Last(clients) \in joined \cup dangling
         \/ pc' = [pc EXCEPT ![t] = "wait"]
    BY DEF CheckJoinable, Goto
<1>3. raced' \subseteq 0..accepted
  <2>1. 0 \in 0..accepted
    BY MaxConnsAssumption DEF IInv, TypeOK
  <2>. QED BY <2>1, RacedListed DEF CheckJoinable
<1>4. /\ pc'["acceptor"] = "pushing" <=> pc["acceptor"] = "pushing"
      /\ pc'["acceptor"] \in {"destroy", "ended"} <=> pc["acceptor"] \in {"destroy", "ended"}
    BY <1>2 DEF IInv, TypeOK
<1>5. AtLast => AtLast'
  <2>1. \A s \in Threads \ {t} : pc'[s] = pc[s] /\ pc[s] \notin ClosingSteps
    BY <1>2, Alone DEF IInv, TypeOK
  <2>2. \/ pc'[t] \in {"join", "wait"}
        \/ pc'[t] = "pop" /\ Last(clients) \in joined \cup dangling
    BY <1>2 DEF IInv, TypeOK
  <2>. QED BY <1>1, <1>2, <2>1, <2>2 DEF AtLast
<1>. QED BY <1>1, <1>3, <1>4, <1>5, LFrame

LEMMA LJoin ==
    ASSUME IInv, LInv, proc = "running", NEW t \in Threads, Join(t)
    PROVE  LInv'
<1>1. UNCHANGED <<clients, overlapped, accepted, table, fd, dangling, raced, cur, handler>>
    BY DEF Join
<1>2. /\ pc[t] = "wait" /\ pc' = [pc EXCEPT ![t] = "pop"]
      /\ joined' = IF cur \in dangling THEN joined ELSE joined \cup {cur}
    BY DEF Join, Goto
<1>3. /\ pc'["acceptor"] = "pushing" <=> pc["acceptor"] = "pushing"
      /\ pc'["acceptor"] \in {"destroy", "ended"} <=> pc["acceptor"] \in {"destroy", "ended"}
    BY <1>2 DEF IInv, TypeOK
<1>4. AtLast => AtLast'
  <2>1. \A s \in Threads \ {t} : pc'[s] = pc[s] /\ pc[s] \notin ClosingSteps
    BY <1>2, Alone DEF IInv, TypeOK
  <2>2. pc'[t] = "pop"
    BY <1>2 DEF IInv, TypeOK
  <2>3. cur \in joined' \cup dangling
    BY <1>2
  <2>. QED BY <1>1, <1>2, <2>1, <2>2, <2>3 DEF AtLast
<1>5. joined \subseteq joined'
    BY <1>2
<1>6. raced' \subseteq 0..accepted
    BY <1>1 DEF LInv, Listed
<1>. QED BY <1>1, <1>3, <1>4, <1>5, <1>6, LFrame

\* pop_back takes the last client away, and leaves the others where they are.
LEMMA FrontIs ==
    ASSUME NEW S, NEW s \in Seq(S), s # <<>>
    PROVE  /\ Len(s) \in Nat \ {0}
           /\ Len(Front(s)) = Len(s) - 1
           /\ \A i \in 1..Len(Front(s)) : Front(s)[i] = s[i]
           /\ DOMAIN Front(s) = 1..Len(Front(s))
<1>1. Len(s) \in Nat \ {0}
    BY EmptySeq
<1>2. \A i \in 1..(Len(s) - 1) : s[i] \in S /\ 1 + i - 1 = i
    BY <1>1
<1>3. /\ Front(s) \in Seq(S)
      /\ Len(Front(s)) = IF 1 <= Len(s) - 1 THEN Len(s) - 1 - 1 + 1 ELSE 0
      /\ \A i \in 1..(Len(s) - 1 - 1 + 1) : Front(s)[i] = s[1 + i - 1]
    BY <1>1, <1>2, SubSeqProperties DEF Front
<1>4. \A n \in Nat \ {0} : n - 1 - 1 + 1 = n - 1 /\ (~(1 <= n - 1) => n - 1 = 0)
    OBVIOUS
<1>5. Len(Front(s)) = Len(s) - 1
    BY <1>1, <1>3, <1>4
<1>. QED BY <1>1, <1>2, <1>3, <1>4, <1>5

LEMMA FrontAndLast ==
    ASSUME NEW S, NEW s \in Seq(S), s # <<>>
    PROVE  ToSet(s) \subseteq ToSet(Front(s)) \cup {Last(s)}
<1>1. /\ Len(s) \in Nat \ {0} /\ Len(Front(s)) = Len(s) - 1
      /\ \A i \in 1..Len(Front(s)) : Front(s)[i] = s[i]
      /\ DOMAIN Front(s) = 1..Len(Front(s))
    BY FrontIs
<1>2. \A i \in 1..Len(s) : i \in 1..(Len(s) - 1) \/ i = Len(s)
    BY <1>1
<1>3. DOMAIN s = 1..Len(s)
    OBVIOUS
<1>. QED BY <1>1, <1>2, <1>3 DEF ToSet, Last

LEMMA LPop ==
    ASSUME IInv, LInv, proc = "running", NEW t \in Threads, Pop(t)
    PROVE  LInv'
<1>1. UNCHANGED <<overlapped, accepted, table, fd, dangling, joined, cur, handler>>
    BY DEF Pop
<1>2. pc[t] = "pop" /\ pc' = [pc EXCEPT ![t] = "check"] /\ clients' = Front(clients)
    BY DEF Pop, Goto
<1>3. clients # <<>>
    BY <1>2 DEF IInv, ListNotEmpty
<1>4. pc'["acceptor"] = pc["acceptor"] \/ {pc["acceptor"], pc'["acceptor"]} \subseteq {"pop", "check"}
    BY <1>2 DEF IInv, TypeOK
<1>5. Listed'
  <2>1. Last(clients) \in 1..accepted /\ clients' \in Seq(1..accepted)
    BY <1>2, <1>3, LastTyped DEF LInv, Listed
  <2>2. Last(clients) \in 0..accepted
    BY <2>1
  <2>. QED BY <1>1, <2>1, <2>2, RacedListed DEF Pop, Listed
<1>6. Numbered' /\ dangling' \subseteq 1..accepted'
    BY <1>1 DEF LInv, Numbered
<1>7. \A c : Tracked(c) => c = Last(clients) \/ Tracked(c)'
  <2>1. ToSet(clients) \subseteq ToSet(Front(clients)) \cup {Last(clients)}
    BY <1>3, FrontAndLast DEF IInv, TypeOK
  <2>. QED BY <1>1, <1>2, <1>4, <2>1 DEF Tracked
<1>8. ASSUME Open, AtLast, Emptied PROVE Open' /\ AtLast' /\ Emptied'
  <2>1. \A d \in Descriptors : table[d] # Last(clients)
    BY <1>2, <1>8 DEF AtLast
  <2>2. Open'
    BY <1>1, <1>7, <1>8, <2>1 DEF Open
  <2>3. \A s \in Threads : pc'[s] \notin {"close", "join", "wait", "pop"}
    BY <1>2, Alone DEF IInv, TypeOK
  <2>4. Emptied'
    BY <1>3, <1>4, <1>8 DEF Emptied
  <2>. QED BY <2>2, <2>3, <2>4 DEF AtLast
<1>9. ASSUME AtLast, Found PROVE Found'
  <2>1. Last(clients) \in joined \cup dangling
    BY <1>2, <1>9 DEF AtLast
  <2>. QED BY <1>1, <1>7, <1>9, <2>1 DEF Found
<1>. QED BY <1>1, <1>5, <1>6, <1>8, <1>9 DEF LInv

LEMMA SeqGrows ==
    ASSUME NEW S, NEW T, S \subseteq T
    PROVE  Seq(S) \subseteq Seq(T)
<1>. SUFFICES ASSUME NEW s \in Seq(S) PROVE s \in Seq(T)
    OBVIOUS
<1>1. Len(s) \in Nat /\ s \in [1..Len(s) -> S]
    OBVIOUS
<1>2. s \in [1..Len(s) -> T]
    BY <1>1
<1>. QED BY <1>1, <1>2, SeqDef

LEMMA ConcatTyped ==
    ASSUME NEW S, NEW s \in Seq(S), NEW t \in Seq(S), NEW u \in Seq(S)
    PROVE  s \o t \o u \in Seq(S)
OBVIOUS

LEMMA LAccept ==
    ASSUME IInv, LInv, proc = "running", Accept
    PROVE  LInv'
<1>1. /\ accepted \in Nat /\ accepted + 1 \in Conns /\ accepted' = accepted + 1
      /\ UNCHANGED <<clients, raced, overlapped, cur, joined>>
    BY MaxConnsAssumption DEF Accept, IInv, TypeOK
<1>2. pc["acceptor"] = "accept" /\ pc'["main"] = pc["main"] /\ handler[accepted + 1] = "none"
    BY <1>1 DEF Accept, Goto, IInv, TypeOK, Fresh
<1>3. \/ /\ handler' = [handler EXCEPT ![accepted + 1] = "hello"]
         /\ pc' = [pc EXCEPT !["acceptor"] = "pushing"]
         /\ dangling' = dangling \/ dangling' = 1..accepted
      \/ pc' = [pc EXCEPT !["acceptor"] = "lock"] /\ UNCHANGED <<handler, dangling>>
    BY DEF Accept, Goto, Moved
<1>4. PICK d \in Descriptors : /\ table[d] = 0
                               /\ table' = [table EXCEPT ![d] = accepted + 1]
                               /\ fd' = [fd EXCEPT ![accepted + 1] = d]
    BY DEF Accept, Free
<1>5. /\ table'[d] = accepted + 1 /\ \A e \in Descriptors \ {d} : table'[e] = table[e]
      /\ fd'[accepted + 1] = d /\ \A c \in Conns \ {accepted + 1} : fd'[c] = fd[c]
    BY <1>1, <1>4 DEF IInv, TypeOK
<1>6. Numbered'
  <2>1. ASSUME NEW e \in Descriptors, table'[e] # 0
        PROVE  table'[e] \in 1..accepted' /\ fd'[table'[e]] = e
    <3>1. CASE e = d
      BY <1>1, <1>5, <3>1
    <3>2. CASE e # d
      <4>1. table'[e] = table[e] /\ table[e] \in 1..accepted /\ fd[table[e]] = e
        BY <1>5, <2>1, <3>2 DEF LInv, Numbered
      <4>2. table[e] \in Conns /\ table[e] # accepted + 1 /\ table[e] \in 1..(accepted + 1)
        BY <1>1, <4>1, MaxConnsAssumption
      <4>. QED BY <1>1, <1>5, <4>1, <4>2
    <3>. QED BY <3>1, <3>2
  <2>. QED BY <2>1 DEF Numbered
<1>7. Listed'
  <2>1. 1..accepted \subseteq 1..(accepted + 1) /\ 0..accepted \subseteq 0..(accepted + 1)
    BY <1>1
  <2>2. Seq(1..accepted) \subseteq Seq(1..(accepted + 1))
    BY <2>1, SeqGrows
  <2>. QED BY <1>1, <2>1, <2>2 DEF LInv, Listed
<1>8. dangling' \subseteq 1..accepted'
  <2>1. 1..accepted \subseteq 1..(accepted + 1)
    BY <1>1
  <2>. QED BY <1>1, <1>3, <2>1 DEF LInv
<1>9. \A c : Tracked(c) => Tracked(c)'
    BY <1>1, <1>2 DEF Tracked
<1>10. \A c \in Conns : c = accepted + 1 => handler'[c] = "none" \/ Tracked(c)'
    BY <1>1, <1>2, <1>3 DEF Tracked, IInv, TypeOK
<1>11. \A c \in Conns \ {accepted + 1} : handler'[c] = handler[c]
    BY <1>1, <1>3 DEF IInv, TypeOK
<1>12. Open => Open'
  <2>1. ASSUME Open, NEW c, NEW e \in Descriptors, c = table'[e], c # 0
        PROVE  handler'[c] = "none" \/ Tracked(c)'
    <3>1. CASE e = d
      <4>1. c = accepted + 1 /\ c \in Conns
        BY <1>1, <1>5, <2>1, <3>1
      <4>. QED BY <1>10, <4>1
    <3>2. CASE e # d
      <4>1. c = table[e] /\ c \in 1..accepted
        BY <1>5, <2>1, <3>2 DEF LInv, Numbered
      <4>2. c \in Conns \ {accepted + 1}
        BY <1>1, <4>1, MaxConnsAssumption
      <4>3. handler[c] = "none" \/ Tracked(c)
        BY <2>1, <4>1 DEF Open
      <4>. QED BY <1>9, <1>11, <4>2, <4>3
    <3>. QED BY <3>1, <3>2
  <2>. QED BY <2>1 DEF Open, Tracked
<1>13. AtLast => AtLast'
  <2>1. \A t \in Threads : pc'[t] \in {"close", "join", "wait", "pop"} => pc'[t] = pc[t]
    BY <1>2, <1>3 DEF IInv, TypeOK
  <2>2. dangling \subseteq dangling'
    BY <1>3 DEF LInv
  <2>3. ASSUME NEW t \in Threads, pc[t] \in JoiningSteps PROVE table'[d] # Last(clients)
    <3>1. clients # <<>> /\ clients \in Seq(1..accepted)
      BY <2>3 DEF IInv, ListNotEmpty, LInv, Listed
    <3>2. Last(clients) \in 1..accepted
      BY <3>1, LastTyped
    <3>. QED BY <1>1, <1>5, <3>2
  <2>. QED BY <1>1, <1>5, <2>1, <2>2, <2>3 DEF AtLast
<1>14. Emptied'
    BY <1>3 DEF Emptied, IInv, TypeOK
<1>15. Found => Found'
  <2>1. dangling \subseteq dangling'
    BY <1>3 DEF LInv
  <2>. QED BY <1>1, <1>9, <1>10, <1>11, <2>1 DEF Found
<1>. QED BY <1>1, <1>6, <1>7, <1>8, <1>12, <1>13, <1>14, <1>15 DEF LInv

\* What push_back adds.
LEMMA AppendHolds ==
    ASSUME NEW S, NEW s \in Seq(S), NEW c \in S, NEW t, t = s \o <<>> \o <<c>>
    PROVE  ToSet(t) = ToSet(s) \cup {c}
<1>1. s \o <<>> = s
    OBVIOUS
<1>2. t = Append(s, c)
    BY <1>1
<1>3. /\ Len(s) \in Nat /\ Len(Append(s, c)) = Len(s) + 1
      /\ Append(s, c)[Len(s) + 1] = c /\ \A i \in 1..Len(s) : Append(s, c)[i] = s[i]
    OBVIOUS
<1>4. DOMAIN s = 1..Len(s) /\ DOMAIN Append(s, c) = 1..(Len(s) + 1)
    BY <1>3
<1>5. \A i : i \in 1..(Len(s) + 1) <=> i \in 1..Len(s) \/ i = Len(s) + 1
    BY <1>3
<1>6. ToSet(Append(s, c)) = ToSet(s) \cup {c}
    BY <1>3, <1>4, <1>5 DEF ToSet
<1>. QED BY <1>2, <1>6

\* A push that overlaps no use of the list adds the client, and nothing else.
LEMMA PushAlone ==
    ASSUME IInv, proc = "running", Push, ~overlapped'
    PROVE  /\ ~overlapped /\ m # "main"
           /\ pc' = [pc EXCEPT !["acceptor"] = "close_dead"]
           /\ clients' = clients \o <<>> \o <<accepted>>
           /\ ToSet(clients') = ToSet(clients) \cup {accepted}
           /\ \A t \in Threads : pc[t] \notin ClosingSteps /\ pc'[t] \notin ClosingSteps
<1>1. ~overlapped /\ m # "main" /\ raced = {}
    BY DEF Push
<1>2. clients' = clients \o <<>> \o <<accepted>> /\ pc' = [pc EXCEPT !["acceptor"] = "close_dead"]
    BY <1>1 DEF Push, Goto
<1>3. ToSet(clients') = ToSet(clients) \cup {accepted}
  <2>1. clients \in Seq(Conns)
    BY DEF IInv, TypeOK
  <2>2. accepted \in Conns /\ clients' = clients \o <<>> \o <<accepted>>
    BY <1>2 DEF Push, IInv, Fresh
  <2>3. \A s \in Seq(Conns), c \in Conns : \A t :
            t = s \o <<>> \o <<c>> => ToSet(t) = ToSet(s) \cup {c}
    BY AppendHolds, Zenon
  <2>. QED BY <2>1, <2>2, <2>3, Zenon
<1>4. \A t \in Threads : pc[t] \notin ClosingSteps
    BY <1>1 DEF Push, IInv, Exclusion
<1>5. \A t \in Threads : pc'[t] \notin ClosingSteps
    BY <1>2, <1>4 DEF IInv, TypeOK
<1>. QED BY <1>1, <1>2, <1>3, <1>4, <1>5

LEMMA LPush ==
    ASSUME IInv, LInv, proc = "running", Push
    PROVE  LInv'
<1>1. /\ accepted \in Conns /\ accepted \in 1..accepted /\ pc["acceptor"] = "pushing" /\ raced' = {}
      /\ UNCHANGED <<accepted, table, fd, dangling, joined, cur, handler>>
    BY MaxConnsAssumption DEF Push, IInv, Fresh
<1>2. Numbered' /\ dangling' \subseteq 1..accepted'
    BY <1>1 DEF LInv, Numbered
<1>3. Listed'
  <2>1. PICK undone \in {<<>>} \cup {<<d>> : d \in raced \ {0}}, added \in {<<>>, <<accepted>>} :
            clients' = clients \o undone \o added \/ clients' = clients
    BY DEF Push
  <2>2. undone \in Seq(1..accepted)
    <3>1. raced \ {0} \subseteq 1..accepted
      BY <1>1 DEF LInv, Listed
    <3>2. <<>> \in Seq(1..accepted) /\ \A d \in 1..accepted : <<d>> \in Seq(1..accepted)
      OBVIOUS
    <3>3. undone = <<>> \/ \E d \in raced \ {0} : undone = <<d>>
      OBVIOUS
    <3>. QED BY <3>1, <3>2, <3>3
  <2>3. added \in Seq(1..accepted)
    <3>1. <<>> \in Seq(1..accepted) /\ <<accepted>> \in Seq(1..accepted)
      BY <1>1
    <3>. QED BY <3>1
  <2>4. clients' \in Seq(1..accepted)
    <3>1. clients \in Seq(1..accepted)
      BY DEF LInv, Listed
    <3>2. clients \o undone \o added \in Seq(1..accepted)
      BY <2>2, <2>3, <3>1, ConcatTyped
    <3>. QED BY <2>1, <3>1, <3>2
  <2>. QED BY <1>1, <2>4 DEF Listed
<1>4. CASE overlapped'
    BY <1>2, <1>3, <1>4 DEF LInv
<1>5. CASE ~overlapped'
  <2>1. ~overlapped /\ ToSet(clients') = ToSet(clients) \cup {accepted}
    BY <1>5, PushAlone
  <2>2. \A c : Tracked(c) => Tracked(c)'
    BY <1>1, <2>1 DEF Tracked
  <2>3. Open' /\ Found'
    BY <1>1, <2>1, <2>2 DEF LInv, Open, Found
  <2>4. AtLast'
    BY <1>5, PushAlone DEF AtLast
  <2>5. Emptied'
    BY <1>5, PushAlone DEF Emptied, IInv, TypeOK
  <2>. QED BY <1>2, <1>3, <2>3, <2>4, <2>5 DEF LInv
<1>. QED BY <1>4, <1>5

LEMMA StepLInv == IInv /\ LInv /\ [Next]_vars => LInv'
<1>. SUFFICES ASSUME IInv, LInv, [Next]_vars PROVE LInv'
    OBVIOUS
<1>1. CASE UNCHANGED vars
  <2>1. AtLast => AtLast'
    BY <1>1, AtLastStays
  <2>2. raced' \subseteq 0..accepted
    BY <1>1 DEF LInv, Listed
  <2>. QED BY <1>1, <2>1, <2>2, LFrame
<1>2. CASE Next
    BY <1>2, LOthers, LMoves, LCheckAndShut, LCloseDescriptor, LCheckJoinable, LJoin, LPop,
       LAccept, LPush
       DEF Next, Main, Acceptor, CloseAll
<1>. QED BY <1>1, <1>2

\* The list leads to all that is still to be joined or closed, unless a push
\* overlapped main's use of it or a saved address went stale.
THEOREM ListInvariance == Spec => []LInv
<1>1. Init => LInv
  <2>. SUFFICES ASSUME Init PROVE LInv
    OBVIOUS
  <2>1. Numbered /\ dangling \subseteq 1..accepted /\ Open
    BY DEF Init, Numbered, Open
  <2>2. Listed
    BY DEF Init, Listed
  <2>3. \A t \in Threads : pc[t] \in {"console", "bind"}
    BY DEF Init
  <2>4. AtLast /\ Emptied /\ Found
    BY <2>3 DEF Init, AtLast, Emptied, Found
  <2>. QED BY <2>1, <2>2, <2>4 DEF LInv
<1>. QED BY <1>1, StepLInv, Invariance, PTL DEF Spec

\* For any number of clients: close_all_sockets can find every handler that
\* runs, in the list or about to be pushed, before and during the stop, unless
\* its own saved address went stale or a push overlapped main's use of the list
\* (run_server, close_all_sockets, Client::close_thread).
THEOREM HandlersFound == Spec => []HandlersListed
<1>1. IInv /\ LInv => HandlersListed
    BY DEF IInv, JoinedDone, LInv, Found, Tracked, Active, HandlersListed
<1>. QED BY <1>1, Invariance, ListInvariance, PTL

\* For any number of clients and descriptors: at the normal end of the process
\* the descriptor of every client that got a thread has been closed, of one
\* accepted during the stop too, unless a push overlapped main's use of the
\* list (close_all_sockets, run_server).
THEOREM ExitClosesAll == Spec => []ExitCloses
<1>1. IInv /\ LInv => ExitCloses
    BY DEF IInv, EndedJoined, LInv, Open, Emptied, Tracked, ToSet, ExitCloses
<1>. QED BY <1>1, Invariance, ListInvariance, PTL

-----------------------------------------------------------------------------
(* The descriptors.                                                        *)

Own ==
    \A c \in 1..accepted :
        Denotes(c) # c => c \in down /\ (Denotes(c) = 0 \/ (Denotes(c) > c /\ Stopping))

\* The acceptor's last call, after which it accepts nobody.
Closing == pc["acceptor"] \in ClosingSteps \cup {"destroy", "ended"}

\* Until a thread closes the list no connection is shut down.
Untouched == ~Stopping /\ ~Closing => down = {}

\* A descriptor is closed after its connection was shut down.
ShutFirst == \A t \in Threads : pc[t] = "close" => cur \in down

\* No client is in the list twice.
Distinct(s) == \A i, j \in 1..Len(s) : s[i] = s[j] => i = j
Once ==
    /\ Distinct(clients)
    /\ pc["acceptor"] = "pushing" => accepted \notin ToSet(clients)

\* One thread has closed the descriptor of the last client, and not popped it.
Joining == \E t \in Threads : pc[t] \in JoiningSteps

\* The other clients in the list have their own descriptors.
Held == \A c \in Conns : Tracked(c) => Denotes(c) = c \/ (c = Last(clients) /\ Joining)

OInv ==
    /\ Untouched
    /\ overlapped \/ (Own /\ ShutFirst /\ Once /\ Held)

\* A step that leaves list and descriptors alone, and closes nothing next.
LEMMA OFrame ==
    ASSUME IInv, OInv, UNCHANGED <<clients, overlapped, accepted, socketVars>>,
           \A t \in Threads : pc'[t] = "close" => pc[t] = "close" /\ cur' = cur,
           pc'["acceptor"] = "pushing" <=> pc["acceptor"] = "pushing",
           Joining => Joining',
           Stopping => Stopping',
           Closing => Closing'
    PROVE  OInv'
<1>1. Untouched'
    BY DEF OInv, Untouched
<1>2. \A c : Denotes(c)' = Denotes(c) /\ (Tracked(c)' <=> Tracked(c))
    BY DEF Denotes, Tracked
<1>3. Own => Own'
    BY <1>2 DEF Own
<1>4. ShutFirst => ShutFirst'
    BY DEF ShutFirst
<1>5. Once => Once'
    BY DEF Once
<1>6. Held => Held'
    BY <1>2 DEF Held
<1>. QED BY <1>1, <1>3, <1>4, <1>5, <1>6 DEF OInv

LEMMA OOthers ==
    ASSUME IInv, OInv, proc = "running",
           Environment \/ \E c \in Conns : HandlerStep(c) \/ Exhausted(c)
    PROVE  OInv'
<1>1. UNCHANGED <<clients, overlapped, accepted, socketVars, cur>>
    BY DEF Environment, PeerConnects, PeerCloses, Quit, HandlerStep, Hello, Respond, Send,
           Receive, Spin, Exhausted
<1>2. pc' = pc \/ (pc["main"] = "console" /\ pc' = [pc EXCEPT !["main"] = "lock"])
    BY DEF Environment, PeerConnects, PeerCloses, Quit, Goto, HandlerStep, Hello, Respond, Send,
           Receive, Spin, Exhausted
<1>3. /\ \A t \in Threads : pc'[t] = "close" => pc[t] = "close"
      /\ \A t \in Threads : pc[t] \in JoiningSteps => pc'[t] = pc[t]
      /\ Stopping => Stopping'
      /\ pc'["acceptor"] = pc["acceptor"]
    BY <1>2 DEF IInv, TypeOK, Stopping
<1>4. Joining => Joining'
    BY <1>3 DEF Joining
<1>. QED BY <1>1, <1>3, <1>4, OFrame DEF Closing

LEMMA OMoves ==
    ASSUME IInv, OInv, proc = "running",
           \/ SetFlag \/ ShutListener \/ CloseListener \/ JoinAcceptor
           \/ Bind \/ Loop \/ AcceptFails \/ CloseDead \/ Destroy
           \/ \E t \in Threads : LockAll(t) \/ CheckJoinable(t) \/ Join(t)
    PROVE  OInv'
<1>1. UNCHANGED <<clients, overlapped, accepted, socketVars>>
    BY NoneDead DEF SetFlag, ShutListener, CloseListener, JoinAcceptor, Bind, Loop, AcceptFails,
           Destroy, LockAll, CheckJoinable, Join
<1>2. PICK t \in Threads :
          \/ pc' = pc
          \/ /\ pc' = [pc EXCEPT ![t] = pc'[t]]
             /\ pc'[t] \notin {"close", "console", "pushing"} /\ pc[t] \notin {"pushing", "ended"}
             /\ pc[t] \in JoiningSteps => pc'[t] \in JoiningSteps
             /\ pc[t] \in ClosingSteps \cup {"destroy"} =>
                    pc'[t] \in ClosingSteps \cup {"destroy", "ended"}
    BY NoneDead DEF SetFlag, ShutListener, CloseListener, JoinAcceptor, Bind, Loop, AcceptFails,
           Destroy, LockAll, CheckJoinable, Join, Goto, IInv, TypeOK
<1>3. /\ \A s \in Threads : pc'[s] = "close" => pc[s] = "close"
      /\ pc["main"] # "console" => pc'["main"] # "console"
      /\ pc'["acceptor"] = "pushing" <=> pc["acceptor"] = "pushing"
      /\ Closing => Closing'
    BY <1>2 DEF IInv, TypeOK, Closing
<1>4. Joining => Joining'
  <2>1. \A s \in Threads : pc[s] \in JoiningSteps => pc'[s] \in JoiningSteps
    BY <1>2 DEF IInv, TypeOK
  <2>. QED BY <2>1 DEF Joining
<1>5. \A s \in Threads : pc'[s] = "close" => cur' = cur
  <2>1. cur' = cur \/ \E s \in Threads : m = s /\ pc'[s] # "close" /\ \A o \in Threads \ {s} : pc'[o] = pc[o]
    BY NoneDead DEF SetFlag, ShutListener, CloseListener, JoinAcceptor, Bind, Loop, AcceptFails,
           Destroy, LockAll, CheckJoinable, Join, Goto, IInv, TypeOK, Exclusion
  <2>. QED BY <1>3, <2>1 DEF IInv, Exclusion
<1>. QED BY <1>1, <1>3, <1>4, <1>5, OFrame DEF Stopping

LEMMA OCheckAndShut ==
    ASSUME IInv, LInv, OInv, proc = "running", NEW t \in Threads, CheckAndShut(t)
    PROVE  OInv'
<1>1. UNCHANGED <<clients, overlapped, accepted, table, fd>>
    BY DEF CheckAndShut
<1>2. pc[t] = "check" /\ \A s \in Threads \ {t} : pc'[s] = pc[s] /\ pc[s] \notin ClosingSteps
    BY Alone DEF CheckAndShut, Goto, IInv, TypeOK
<1>3. pc'[t] \in {"close", "destroy", "set_flag", "join_acceptor"}
    BY DEF CheckAndShut, Goto, ReturnLabel, IInv, TypeOK
<1>4. pc'[t] \in {"set_flag", "join_acceptor"} => t = "main"
    BY DEF CheckAndShut, Goto, ReturnLabel, IInv, TypeOK
<1>5. Stopping' \/ Closing'
    BY <1>2, <1>3, <1>4 DEF Stopping, Closing, IInv, TypeOK
<1>6. \A c : Denotes(c)' = Denotes(c) /\ (Tracked(c)' <=> Tracked(c))
    BY <1>1, <1>2, <1>3 DEF Denotes, Tracked
<1>7. ASSUME Own, ShutFirst, Once, Held PROVE Own' /\ ShutFirst' /\ Once' /\ Held'
  <2>1. down \subseteq down' /\ (Stopping => Stopping')
    BY <1>2, <1>3 DEF CheckAndShut, Stopping, IInv, TypeOK
  <2>2. Own'
    BY <1>1, <1>6, <1>7, <2>1 DEF Own
  <2>3. ~Joining
    BY <1>2 DEF Joining
  <2>4. Held'
    BY <1>6, <1>7, <2>3 DEF Held
  <2>5. Once'
    BY <1>1, <1>2, <1>3, <1>7 DEF Once
  <2>6. ASSUME pc'[t] = "close" PROVE cur' \in down'
    <3>1. clients # <<>> /\ cur' = Last(clients) /\ down' = down \cup ({Denotes(Last(clients))} \ {0})
      BY <2>6 DEF CheckAndShut, Goto, ReturnLabel, IInv, TypeOK
    <3>2. Last(clients) \in Conns
      BY <3>1, LastTyped DEF IInv, TypeOK
    <3>3. Tracked(Last(clients))
      BY <3>1, LastListed DEF IInv, TypeOK, Tracked
    <3>4. Denotes(Last(clients)) = Last(clients)
      BY <1>7, <2>3, <3>2, <3>3 DEF Held
    <3>5. Last(clients) # 0
      BY <3>2
    <3>. QED BY <3>1, <3>4, <3>5
  <2>. QED BY <1>2, <2>2, <2>4, <2>5, <2>6 DEF ShutFirst
<1>. QED BY <1>1, <1>5, <1>7 DEF OInv, Untouched

LEMMA OCloseDescriptor ==
    ASSUME IInv, LInv, OInv, proc = "running", NEW t \in Threads, CloseDescriptor(t)
    PROVE  OInv'
<1>1. UNCHANGED <<clients, overlapped, accepted, down, fd, cur>>
    BY DEF CloseDescriptor
<1>2. pc[t] = "close" /\ pc' = [pc EXCEPT ![t] = "join"]
    BY DEF CloseDescriptor, Goto
<1>3. /\ \A s \in Threads : pc'[s] # "close"
      /\ pc["main"] # "console" <=> pc'["main"] # "console"
      /\ pc'["acceptor"] = "pushing" <=> pc["acceptor"] = "pushing"
      /\ Closing => Closing'
      /\ pc'[t] = "join"
    BY <1>2, Alone DEF IInv, TypeOK, Closing
<1>4. Untouched'
    BY <1>1, <1>3 DEF OInv, Untouched, Stopping
<1>5. ASSUME ~overlapped, Own, ShutFirst, Once, Held PROVE Own' /\ ShutFirst' /\ Once' /\ Held'
  <2>1. cur = Last(clients) /\ clients # <<>>
    BY <1>2, <1>5 DEF LInv, AtLast, IInv, ListNotEmpty
  <2>2. cur \in Conns /\ Tracked(cur) /\ cur \in 1..accepted
    BY <2>1, LastTyped, LastListed DEF LInv, Listed, IInv, TypeOK, Tracked
  <2>3. ~Joining
    BY <1>2, Alone DEF Joining
  <2>4. Denotes(cur) = cur /\ cur # 0
    BY <1>5, <2>2, <2>3 DEF Held
  <2>5. fd[cur] # 0 /\ table[fd[cur]] = cur /\ fd[cur] \in Descriptors
    <3>1. fd[cur] \in 0..FdLimit
      BY <2>2 DEF IInv, TypeOK
    <3>2. fd[cur] # 0 /\ table[fd[cur]] = cur
      BY <2>4 DEF Denotes
    <3>. QED BY <3>1, <3>2, FdLimitAssumption
  <2>6. table' = [table EXCEPT ![fd[cur]] = 0]
    BY <2>1 DEF CloseDescriptor
  <2>7. ASSUME NEW c \in Conns
        PROVE  Denotes(c)' = IF fd[c] = fd[cur] THEN 0 ELSE Denotes(c)
    <3>1. fd[c] \in 0..FdLimit
      BY DEF IInv, TypeOK
    <3>2. Denotes(c)' = IF fd[c] = 0 THEN 0 ELSE table'[fd[c]]
      BY <1>1 DEF Denotes
    <3>3. fd[c] # 0 => table'[fd[c]] = IF fd[c] = fd[cur] THEN 0 ELSE table[fd[c]]
      BY <2>6, <3>1, FdLimitAssumption DEF IInv, TypeOK
    <3>. QED BY <2>5, <3>2, <3>3 DEF Denotes
  <2>8. \A c \in Conns : fd[c] = fd[cur] => Denotes(c) = cur
    BY <2>4 DEF Denotes
  <2>9. Own'
    <3>1. 1..accepted \subseteq Conns
      BY MaxConnsAssumption DEF IInv, TypeOK
    <3>2. cur \in down
      BY <1>2, <1>5 DEF ShutFirst
    <3>3. ASSUME NEW c \in 1..accepted, Denotes(c)' # c
          PROVE  c \in down /\ (Denotes(c)' = 0 \/ (Denotes(c)' > c /\ Stopping'))
      <4>1. CASE fd[c] = fd[cur]
        <5>1. Denotes(c)' = 0 /\ Denotes(c) = cur
          BY <2>7, <2>8, <3>1, <4>1
        <5>2. c \in down
          BY <1>5, <3>2, <5>1 DEF Own
        <5>. QED BY <5>1, <5>2
      <4>2. CASE fd[c] # fd[cur]
        <5>1. Denotes(c)' = Denotes(c)
          BY <2>7, <3>1, <4>2
        <5>2. c \in down /\ (Denotes(c) = 0 \/ (Denotes(c) > c /\ Stopping))
          BY <1>5, <3>3, <5>1 DEF Own
        <5>. QED BY <1>3, <5>1, <5>2 DEF Stopping
      <4>. QED BY <4>1, <4>2
    <3>. QED BY <1>1, <3>3 DEF Own
  <2>10. Held'
    <3>1. Joining'
      BY <1>3 DEF Joining
    <3>2. ASSUME NEW c \in Conns, Tracked(c)' PROVE Denotes(c)' = c \/ c = Last(clients)
      <4>1. Tracked(c)
        BY <1>1, <1>3, <3>2 DEF Tracked
      <4>2. Denotes(c) = c
        BY <1>5, <2>3, <4>1 DEF Held
      <4>. QED BY <2>1, <2>7, <2>8, <4>2
    <3>. QED BY <1>1, <3>1, <3>2 DEF Held
  <2>11. ShutFirst' /\ Once'
    BY <1>1, <1>3, <1>5 DEF ShutFirst, Once
  <2>. QED BY <2>9, <2>10, <2>11
<1>. QED BY <1>1, <1>4, <1>5 DEF OInv

LEMMA OPop ==
    ASSUME IInv, LInv, OInv, proc = "running", NEW t \in Threads, Pop(t)
    PROVE  OInv'
<1>1. UNCHANGED <<overlapped, accepted, socketVars, cur>>
    BY DEF Pop
<1>2. pc[t] = "pop" /\ pc' = [pc EXCEPT ![t] = "check"] /\ clients' = Front(clients)
    BY DEF Pop, Goto
<1>3. /\ \A s \in Threads : pc'[s] # "close"
      /\ pc["main"] # "console" <=> pc'["main"] # "console"
      /\ pc'["acceptor"] = "pushing" <=> pc["acceptor"] = "pushing"
      /\ Closing => Closing'
    BY <1>2, Alone DEF IInv, TypeOK, Closing
<1>4. Untouched'
    BY <1>1, <1>3 DEF OInv, Untouched, Stopping
<1>5. ASSUME Own, ShutFirst, Once, Held PROVE Own' /\ ShutFirst' /\ Once' /\ Held'
  <2>1. Own'
    BY <1>1, <1>3, <1>5 DEF Own, Denotes, Stopping
  <2>2. ShutFirst'
    BY <1>3 DEF ShutFirst
  <2>3. clients \in Seq(Conns) /\ clients # <<>>
    BY <1>2 DEF IInv, TypeOK, ListNotEmpty
  <2>4. /\ Len(clients) \in Nat \ {0}
        /\ Len(clients') = Len(clients) - 1
        /\ \A i \in 1..Len(clients') : clients'[i] = clients[i]
        /\ DOMAIN clients' = 1..Len(clients')
    BY <1>2, <2>3, FrontIs
  <2>5. 1..Len(clients') \subseteq 1..Len(clients) /\ Len(clients) \notin 1..Len(clients')
    BY <2>4
  <2>6. \A c \in ToSet(clients') : c \in ToSet(clients) /\ c # Last(clients)
    <3>1. SUFFICES ASSUME NEW i \in 1..Len(clients')
                   PROVE  clients'[i] \in ToSet(clients) /\ clients'[i] # Last(clients)
      BY <2>4 DEF ToSet
    <3>2. clients'[i] = clients[i] /\ i \in 1..Len(clients) /\ i # Len(clients)
      BY <2>4, <2>5
    <3>3. Len(clients) \in 1..Len(clients)
      BY <2>4
    <3>4. clients[i] # clients[Len(clients)]
      BY <1>5, <3>2, <3>3 DEF Once, Distinct
    <3>. QED BY <2>3, <3>2, <3>4 DEF ToSet, Last
  <2>7. Once'
    <3>1. Distinct(clients')
      BY <1>5, <2>4, <2>5 DEF Once, Distinct
    <3>2. pc'["acceptor"] = "pushing" => accepted \notin ToSet(clients')
      BY <1>3, <1>5, <2>6 DEF Once
    <3>. QED BY <1>1, <3>1, <3>2 DEF Once
  <2>8. Held'
    <3>1. ASSUME NEW c \in Conns, Tracked(c)' PROVE Denotes(c) = c
      <4>1. Tracked(c) /\ c # Last(clients)
        <5>1. CASE c \in ToSet(clients')
          BY <2>6, <5>1 DEF Tracked
        <5>2. CASE c = accepted /\ pc'["acceptor"] = "pushing"
          BY <1>3, <1>5, <2>3, <5>2, LastListed DEF Tracked, Once
        <5>. QED BY <1>1, <3>1, <5>1, <5>2 DEF Tracked
      <4>. QED BY <1>5, <4>1 DEF Held
    <3>. QED BY <1>1, <3>1 DEF Held, Denotes
  <2>. QED BY <2>1, <2>2, <2>7, <2>8
<1>. QED BY <1>1, <1>4, <1>5 DEF OInv

LEMMA OAccept ==
    ASSUME IInv, LInv, OInv, proc = "running", Accept
    PROVE  OInv'
<1>1. /\ accepted \in Nat /\ accepted + 1 \in Conns /\ accepted' = accepted + 1
      /\ UNCHANGED <<clients, overlapped, cur, down>>
    BY MaxConnsAssumption DEF Accept, IInv, TypeOK
<1>2. /\ pc'["main"] = pc["main"] /\ pc["acceptor"] = "accept"
      /\ pc'["acceptor"] \in {"pushing", "lock"}
    BY DEF Accept, Goto, IInv, TypeOK
<1>3. Untouched'
    BY <1>1, <1>2 DEF OInv, Untouched, Stopping, Closing
<1>4. PICK d \in Descriptors : /\ table[d] = 0
                               /\ table' = [table EXCEPT ![d] = accepted + 1]
                               /\ fd' = [fd EXCEPT ![accepted + 1] = d]
    BY DEF Accept, Free
<1>5. ASSUME NEW c, c = accepted + 1 PROVE Denotes(c)' = c
  <2>1. fd'[c] = d /\ d # 0 /\ table'[d] = c
    BY <1>1, <1>4, <1>5, FdLimitAssumption DEF IInv, TypeOK
  <2>. QED BY <2>1 DEF Denotes
<1>6. ASSUME NEW c \in 1..accepted
      PROVE  c \in Conns /\ (Denotes(c)' = Denotes(c) \/ (Denotes(c) = 0 /\ Denotes(c)' = accepted + 1))
  <2>1. c \in Conns /\ c # accepted + 1
    BY <1>1, MaxConnsAssumption
  <2>2. fd'[c] = fd[c] /\ fd[c] \in 0..FdLimit
    BY <1>4, <2>1 DEF IInv, TypeOK
  <2>3. fd[c] # 0 => table'[fd[c]] = IF fd[c] = d THEN accepted + 1 ELSE table[fd[c]]
    BY <1>4, <2>2, FdLimitAssumption DEF IInv, TypeOK
  <2>. QED BY <1>4, <2>1, <2>2, <2>3 DEF Denotes
<1>7. ASSUME Own, ShutFirst, Once, Held PROVE Own' /\ ShutFirst' /\ Once' /\ Held'
  <2>1. Own'
    <3>1. ASSUME NEW c \in 1..accepted', Denotes(c)' # c
          PROVE  c \in down /\ (Denotes(c)' = 0 \/ (Denotes(c)' > c /\ Stopping))
      <4>1. c \in 1..accepted
        <5>1. c # accepted + 1
          BY <1>5, <3>1
        <5>. QED BY <1>1, <3>1, <5>1
      <4>2. CASE Denotes(c)' = Denotes(c)
        BY <1>7, <3>1, <4>1, <4>2 DEF Own
      <4>3. CASE Denotes(c) = 0 /\ Denotes(c)' = accepted + 1
        <5>1. c \in down
          BY <1>7, <4>1, <4>3 DEF Own
        <5>2. Stopping
          BY <1>2, <5>1 DEF OInv, Untouched, Closing
        <5>. QED BY <1>1, <4>1, <4>3, <5>1, <5>2
      <4>. QED BY <1>6, <4>1, <4>2, <4>3
    <3>. QED BY <1>1, <1>2, <3>1 DEF Own, Stopping
  <2>2. ShutFirst'
    BY <1>1, <1>2, <1>7 DEF ShutFirst
  <2>3. \A c \in ToSet(clients) : c \in 1..accepted
    BY MembersTyped DEF LInv, Listed
  <2>4. Once'
    BY <1>1, <1>7, <2>3 DEF Once
  <2>5. Joining' <=> Joining
    BY <1>2 DEF Joining
  <2>6. Held'
    <3>1. ASSUME NEW c \in Conns, Tracked(c)'
          PROVE  Denotes(c)' = c \/ (c = Last(clients) /\ Joining)
      <4>1. CASE c \in ToSet(clients)
        <5>1. c \in 1..accepted
          BY <2>3, <4>1
        <5>2. Denotes(c) = c \/ (c = Last(clients) /\ Joining)
          BY <1>7, <4>1 DEF Held, Tracked
        <5>3. c # 0
          BY <5>1
        <5>. QED BY <1>6, <5>1, <5>2, <5>3
      <4>2. CASE c = accepted + 1
        BY <1>5, <4>2
      <4>. QED BY <1>1, <3>1, <4>1, <4>2 DEF Tracked
    <3>. QED BY <1>1, <2>5, <3>1 DEF Held
  <2>. QED BY <2>1, <2>2, <2>4, <2>6
<1>. QED BY <1>1, <1>3, <1>7 DEF OInv

\* What push_back adds to a list without repetitions.
LEMMA AppendOnce ==
    ASSUME NEW S, NEW s \in Seq(S), NEW c \in S, c \notin ToSet(s), NEW t, t = s \o <<>> \o <<c>>,
           Distinct(s)
    PROVE  Distinct(t)
<1>1. t = Append(s, c) /\ Len(s) \in Nat
    OBVIOUS
<1>2. Len(t) = Len(s) + 1 /\ t[Len(s) + 1] = c /\ \A i \in 1..Len(s) : t[i] = s[i]
    BY <1>1
<1>3. \A i \in 1..Len(s) : s[i] # c
    BY DEF ToSet
<1>4. \A i : i \in 1..(Len(s) + 1) <=> i \in 1..Len(s) \/ i = Len(s) + 1
    BY <1>1
<1>. QED BY <1>2, <1>3, <1>4 DEF Distinct

LEMMA OPush ==
    ASSUME IInv, LInv, OInv, proc = "running", Push
    PROVE  OInv'
<1>1. /\ accepted \in Conns /\ accepted \in 1..accepted
      /\ UNCHANGED <<accepted, socketVars, cur>>
    BY MaxConnsAssumption DEF Push, IInv, Fresh
<1>2. /\ pc["acceptor"] = "pushing" /\ pc'["main"] = pc["main"]
      /\ pc'["acceptor"] \in {"pushing", "close_dead"}
    BY DEF Push, Goto, IInv, TypeOK
<1>3. Untouched'
    BY <1>1, <1>2 DEF OInv, Untouched, Stopping, Closing
<1>4. CASE overlapped'
    BY <1>3, <1>4 DEF OInv
<1>5. CASE ~overlapped'
  <2>1. /\ ~overlapped /\ pc' = [pc EXCEPT !["acceptor"] = "close_dead"]
        /\ clients' = clients \o <<>> \o <<accepted>>
        /\ ToSet(clients') = ToSet(clients) \cup {accepted}
        /\ \A t \in Threads : pc[t] \notin ClosingSteps /\ pc'[t] \notin ClosingSteps
    BY <1>5, PushAlone
  <2>2. Own /\ Once /\ Held
    BY <2>1 DEF OInv
  <2>3. Own'
    BY <1>1, <1>2, <2>2 DEF Own, Denotes, Stopping
  <2>4. ShutFirst'
    BY <2>1 DEF ShutFirst
  <2>5. Once'
    <3>1. accepted \notin ToSet(clients) /\ Distinct(clients)
      BY <1>2, <2>2 DEF Once
    <3>2. clients \in Seq(Conns)
      BY DEF IInv, TypeOK
    <3>3. Distinct(clients')
      <4>1. \A q \in Seq(Conns), c \in Conns : \A t :
                t = q \o <<>> \o <<c>> /\ c \notin ToSet(q) /\ Distinct(q) => Distinct(t)
        BY AppendOnce, Zenon
      <4>2. clients' = clients \o <<>> \o <<accepted>> /\ accepted \in Conns
        BY <1>1, <2>1
      <4>. QED BY <3>1, <3>2, <4>1, <4>2, Zenon
    <3>4. pc'["acceptor"] # "pushing"
      BY <2>1 DEF IInv, TypeOK
    <3>. QED BY <3>3, <3>4 DEF Once
  <2>6. Held'
    <3>1. ~Joining
      BY <2>1 DEF Joining
    <3>2. \A c : Tracked(c)' => Tracked(c)
      BY <1>1, <1>2, <2>1 DEF Tracked, IInv, TypeOK
    <3>3. \A c \in Conns : Tracked(c)' => Denotes(c)' = c
      BY <1>1, <2>2, <3>1, <3>2 DEF Held, Denotes
    <3>. QED BY <3>3 DEF Held
  <2>. QED BY <1>3, <2>3, <2>4, <2>5, <2>6 DEF OInv
<1>. QED BY <1>4, <1>5

LEMMA StepOInv == IInv /\ LInv /\ OInv /\ [Next]_vars => OInv'
<1>. SUFFICES ASSUME IInv, LInv, OInv, [Next]_vars PROVE OInv'
    OBVIOUS
<1>1. CASE UNCHANGED vars
    BY <1>1, OFrame DEF Stopping, Closing, Joining
<1>2. CASE Next
    BY <1>2, OOthers, OMoves, OCheckAndShut, OCloseDescriptor, OPop, OAccept, OPush
       DEF Next, Main, Acceptor, CloseAll
<1>. QED BY <1>1, <1>2

\* A connection is shut down by the thread that closes the list, its descriptor
\* is closed after that, and only then given to a later client.
THEOREM DescriptorInvariance == Spec => []OInv
<1>1. Init => OInv
  <2>. SUFFICES ASSUME Init PROVE OInv
    OBVIOUS
  <2>1. Untouched /\ Own
    BY DEF Init, Untouched, Own
  <2>2. clients = <<>> /\ ToSet(clients) = {} /\ \A t \in Threads : pc[t] \in {"console", "bind"}
    BY DEF Init, ToSet
  <2>3. Once /\ Held /\ ShutFirst
    BY <2>2 DEF Once, Distinct, Held, Tracked, ShutFirst
  <2>. QED BY <2>1, <2>3 DEF OInv
<1>. QED BY <1>1, StepOInv, Invariance, ListInvariance, PTL DEF Spec

\* For any number of clients and descriptors: the number a client was accepted
\* with denotes its connection until the server has shut it down, and then
\* nothing, or during the stop a client accepted later; and the clients in the
\* list keep theirs, so that no shutdown() or close() hits another client,
\* unless a push overlapped main's use of the list (Server::run_server,
\* Server::close_all_sockets, Client::shutdown_socket).
THEOREM DescriptorsOwned == Spec => []OwnDescriptor
<1>1. IInv /\ OInv => OwnDescriptor
  <2>. SUFFICES ASSUME IInv, OInv, ~overlapped PROVE OwnDescriptor
    BY DEF OwnDescriptor
  <2>1. Own /\ Held
    BY DEF OInv
  <2>2. \A c \in ToSet(clients) : c \in Conns /\ Tracked(c)
    BY MembersTyped DEF IInv, TypeOK, Tracked
  <2>. QED BY <2>1, <2>2 DEF OwnDescriptor, Own, Held, Joining
<1>. QED BY <1>1, Invariance, DescriptorInvariance, PTL

-----------------------------------------------------------------------------
(* How the process aborts.  A state from which no step is possible keeps   *)
(* the cause it ended with.                                                *)

\* Up to the shutdown of the listening socket it is open, or the acceptor has
\* not opened it yet, or has left its loop.
SInv ==
    /\ pc["main"] = "set_flag" => is_running
    /\ pc["main"] \in {"shut_listener", "close_listener"} => ~is_running
    /\ is_running \/ pc["main"] = "shut_listener" =>
           listening = "open" \/ pc["acceptor"] = "bind" \/ GaveUp

LEMMA StepSInv == IInv /\ SInv /\ [Next]_vars => SInv'
<1>. SUFFICES ASSUME IInv, SInv, [Next]_vars PROVE SInv'
    OBVIOUS
<1>0. GaveUp => GaveUp'
    BY StaysOut
<1>1. CASE Environment \/ (\E c \in Conns : HandlerStep(c) \/ Exhausted(c)) \/ UNCHANGED vars
  <2>1. UNCHANGED <<is_running, listening>> /\ (pc' = pc \/ pc' = [pc EXCEPT !["main"] = "lock"])
    BY <1>1 DEF Environment, PeerConnects, PeerCloses, Quit, Goto, HandlerStep, Hello, Respond,
                Send, Receive, Spin, Exhausted
  <2>. QED BY <2>1 DEF SInv, GaveUp, IInv, TypeOK
<1>2. CASE SetFlag \/ ShutListener \/ CloseListener \/ JoinAcceptor
    BY <1>2 DEF SetFlag, ShutListener, CloseListener, JoinAcceptor, Goto, SInv, GaveUp, IInv, TypeOK
<1>3. CASE Bind \/ Loop \/ Accept \/ AcceptFails \/ Push \/ CloseDead \/ Destroy
  <2>1. /\ pc'["main"] = pc["main"] /\ is_running' = is_running
        /\ pc["acceptor"] # "bind" \/ listening' = "open" \/ pc'["acceptor"] = "lock"
        /\ listening' = listening \/ listening' = "open" \/ pc'["acceptor"] = "lock"
    BY <1>3, NoneDead DEF Bind, Loop, Accept, AcceptFails, Push, Destroy, Goto, IInv, TypeOK
  <2>2. pc'["acceptor"] = "lock" => GaveUp'
    BY DEF GaveUp
  <2>. QED BY <1>0, <2>1, <2>2 DEF SInv
<1>4. ASSUME NEW t \in Threads, CloseAll(t) PROVE SInv'
  <2>1. UNCHANGED <<is_running, listening>>
    BY <1>4 DEF CloseAll, LockAll, CheckAndShut, CloseDescriptor, CheckJoinable, Join, Pop
  <2>2. /\ pc' = pc \/ pc' = [pc EXCEPT ![t] = pc'[t]]
        /\ pc[t] # "bind"
        /\ pc'[t] = pc[t] \/ pc'[t] \in ClosingSteps \cup {"destroy", "set_flag", "join_acceptor"}
        /\ pc'[t] = "set_flag" => pc[t] = "set_flag" \/ is_running
    BY <1>4 DEF CloseAll, LockAll, CheckAndShut, CloseDescriptor, CheckJoinable, Join, Pop, Goto,
                ReturnLabel, IInv, TypeOK
  <2>3. /\ pc'["main"] = "set_flag" => is_running
        /\ pc'["main"] \in {"shut_listener", "close_listener"} => pc'["main"] = pc["main"]
        /\ pc["acceptor"] = "bind" => pc'["acceptor"] = "bind"
    BY <2>2 DEF SInv, IInv, TypeOK
  <2>. QED BY <1>0, <2>1, <2>3 DEF SInv
<1>. QED BY <1>1, <1>2, <1>3, <1>4 DEF Next, Main, Acceptor

\* std::terminate: at a listening socket that is not open, and in the
\* destructor of a thread that close_all_sockets did not join.  A crash: at a
\* stale address, and in a list that two threads changed at once.
LEMMA EndsWhy ==
    ASSUME IInv, LInv, SInv, Next, proc' \in {"terminated", "crashed"}
    PROVE  \/ /\ proc' = "terminated"
              /\ pc'["main"] = "shut_listener"
              /\ pc'["acceptor"] = "bind" \/ GaveUp'
           \/ overlapped'
           \/ dangling' # {}
<1>1. proc = "running"
    BY DEF Next
<1>2. ~(Environment \/ \E c \in Conns : HandlerStep(c) \/ Exhausted(c))
    BY <1>1 DEF Environment, PeerConnects, PeerCloses, Quit, HandlerStep, Hello, Respond, Send,
                Receive, Spin, Exhausted, Ends
<1>3. CASE \E t \in Threads : CloseAll(t)
  <2>1. PICK t \in Threads : CloseAll(t)
    BY <1>3
  <2>2. Last(clients) \in dangling /\ UNCHANGED dangling
    BY <1>1, <2>1 DEF CloseAll, LockAll, CheckAndShut, CloseDescriptor, CheckJoinable, Join, Pop, Ends
  <2>. QED BY <2>2
<1>4. ~(SetFlag \/ CloseListener \/ JoinAcceptor \/ Bind \/ Loop \/ Accept \/ AcceptFails \/ CloseDead)
    BY <1>1, NoneDead DEF SetFlag, CloseListener, JoinAcceptor, Bind, Loop, Accept, AcceptFails, Ends
<1>5. CASE Push
    BY <1>1, <1>5 DEF Push
<1>6. CASE ShutListener
    BY <1>1, <1>6 DEF ShutListener, Ends, SInv, GaveUp
<1>7. CASE Destroy
  <2>1. UNCHANGED <<overlapped, dangling>> /\ pc["acceptor"] = "destroy" /\ ~(Started \subseteq joined)
    BY <1>1, <1>7 DEF Destroy, Ends
  <2>2. ASSUME ~overlapped, dangling = {} PROVE FALSE
    <3>1. clients = <<>> /\ \A c \in Conns : handler[c] # "none" => c \in joined
      BY <2>1, <2>2 DEF LInv, Emptied, Found, Tracked, ToSet
    <3>2. Started \subseteq Conns
      BY MaxConnsAssumption DEF IInv, TypeOK
    <3>. QED BY <2>1, <3>1, <3>2
  <2>. QED BY <2>1, <2>2
<1>. QED BY <1>2, <1>3, <1>4, <1>5, <1>6, <1>7 DEF Next, Main, Acceptor

\* For any number of clients and any size of the vector of threads: the server
\* calls std::terminate or uses memory that is gone only if stop() came before
\* the listening socket was bound or after the acceptor had given up, if a push
\* overlapped main's use of the list, or after a saved address went stale
\* (Server::stop, close_all_sockets, run_server).
THEOREM AbortsExplained == Spec => []AbortCauses
<1>1. Init => AbortCauses /\ SInv
    BY DEF Init, AbortCauses, SInv
<1>2. IInv /\ LInv /\ SInv /\ AbortCauses /\ [Next]_vars => AbortCauses'
  <2>. SUFFICES ASSUME IInv, LInv, SInv, AbortCauses, [Next]_vars PROVE AbortCauses'
    OBVIOUS
  <2>1. CASE Next
    BY <2>1, EndsWhy DEF AbortCauses
  <2>2. CASE UNCHANGED vars
    BY <2>2 DEF AbortCauses, GaveUp
  <2>. QED BY <2>1, <2>2
<1>. QED BY <1>1, <1>2, StepSInv, Invariance, ListInvariance, PTL DEF Spec

=============================================================================
