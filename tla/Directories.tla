---------------------------- MODULE Directories ----------------------------
(***************************************************************************)
(* The directory list shared by the threads of the FTP server              *)
(* (Server::directories, guarded by Server::dir_m), one access of the      *)
(* std::set per step: look-up, insertion, removal and the element-by-      *)
(* element copy of get_list are separate steps that other threads may      *)
(* interleave with, unless the mutex keeps them out.                       *)
(*                                                                         *)
(* A name is its rank in the order of the std::set, so get_list visits     *)
(* names in increasing order.                                              *)
(***************************************************************************)
EXTENDS Naturals, FiniteSets

CONSTANTS Threads,   \* the threads that attend clients
          Names,     \* directory names
          Nobody     \* the owner of a free mutex

ASSUME NamesAssumption == Names \subseteq Nat
ASSUME NobodyAssumption == Nobody \notin Threads

Requests == [op : {"add", "remove", "list", "size"}, name : Names]
NoRequest == [op |-> "none", name |-> 0]

VARIABLES directories,  \* Server::directories
          dir_m,        \* owner of Server::dir_m
          pc,           \* next step of each thread's call
          request,      \* operation and argument of each thread's call
          list,         \* names that each thread's get_list has copied
          it,           \* get_list's iterator: it is at the least name >= it
          answer        \* value that each thread's call is about to return

vars == <<directories, dir_m, pc, request, list, it, answer>>

Succeeded(b) == <<"bool", b>>
Listing(S) == <<"list", S>>
Count(n) == <<"size", n>>
NoAnswer == <<"none", 0>>

Init ==
    /\ directories = {}
    /\ dir_m = Nobody
    /\ pc = [t \in Threads |-> "idle"]
    /\ request = [t \in Threads |-> NoRequest]
    /\ list = [t \in Threads |-> {}]
    /\ it = [t \in Threads |-> 0]
    /\ answer = [t \in Threads |-> NoAnswer]

Goto(t, label) == pc' = [pc EXCEPT ![t] = label]

\* A command's send_response calls one of the four operations.
Call(t) ==
    /\ pc[t] = "idle"
    /\ \E r \in Requests : request' = [request EXCEPT ![t] = r]
    /\ Goto(t, "lock")
    /\ UNCHANGED <<directories, dir_m, list, it, answer>>

\* Mutant of Lock: the operation goes on without waiting for the mutex.
LockUnguarded(t) ==
    /\ pc[t] = "lock"
    /\ dir_m' = t
    /\ Goto(t, CASE request[t].op = "list" -> "copy"
                 [] request[t].op = "size" -> "size"
                 [] OTHER -> "find")
    /\ UNCHANGED <<directories, request, list, it, answer>>

\* std::lock_guard<std::mutex> lock(dir_m), the first line of each operation.
Lock(t) ==
    /\ pc[t] = "lock"
    /\ dir_m = Nobody
    /\ dir_m' = t
    /\ Goto(t, CASE request[t].op = "list" -> "copy"
                 [] request[t].op = "size" -> "size"
                 [] OTHER -> "find")
    /\ UNCHANGED <<directories, request, list, it, answer>>

Finish(t, value) ==
    /\ answer' = [answer EXCEPT ![t] = value]
    /\ Goto(t, "return")

\* The comparison of find with end(): add_directory goes on when the name is
\* absent, remove_directory when it is present.
Find(t) ==
    /\ pc[t] = "find"
    /\ LET present == request[t].name \in directories
       IN  \/ /\ request[t].op = "add" /\ ~present
              /\ Goto(t, "insert")
              /\ UNCHANGED answer
           \/ /\ request[t].op = "remove" /\ present
              /\ Goto(t, "erase")
              /\ UNCHANGED answer
           \/ /\ request[t].op = "add" <=> present
              /\ Finish(t, Succeeded(FALSE))
    /\ UNCHANGED <<directories, dir_m, request, list, it>>

Insert(t) ==
    /\ pc[t] = "insert"
    /\ directories' = directories \cup {request[t].name}
    /\ Finish(t, Succeeded(TRUE))
    /\ UNCHANGED <<dir_m, request, list, it>>

Erase(t) ==
    /\ pc[t] = "erase"
    /\ directories' = directories \ {request[t].name}
    /\ Finish(t, Succeeded(TRUE))
    /\ UNCHANGED <<dir_m, request, list, it>>

\* The names the iterator of get_list has yet to visit.
Ahead(t) == {d \in directories : d >= it[t]}

\* Mutant of Copy: the iterator is advanced before it is read.
CopyAdvanced(t) ==
    /\ pc[t] = "copy"
    /\ \E d \in Ahead(t) :
          /\ \A e \in Ahead(t) : d <= e
          /\ list' = [list EXCEPT ![t] = @ \cup {d + 1}]
          /\ it' = [it EXCEPT ![t] = d + 1]
    /\ UNCHANGED <<directories, dir_m, pc, request, answer>>

\* One pass of get_list's loop: list += *it; it++.
Copy(t) ==
    /\ pc[t] = "copy"
    /\ \E d \in Ahead(t) :
          /\ \A e \in Ahead(t) : d <= e
          /\ list' = [list EXCEPT ![t] = @ \cup {d}]
          /\ it' = [it EXCEPT ![t] = d + 1]
    /\ UNCHANGED <<directories, dir_m, pc, request, answer>>

\* Mutant of CopyEnd: at end() the loop starts again.
CopyRestarts(t) ==
    /\ pc[t] = "copy"
    /\ Ahead(t) = {}
    /\ list' = [list EXCEPT ![t] = {}]
    /\ it' = [it EXCEPT ![t] = 0]
    /\ UNCHANGED <<directories, dir_m, pc, request, answer>>

\* The iterator has reached end().
CopyEnd(t) ==
    /\ pc[t] = "copy"
    /\ Ahead(t) = {}
    /\ Finish(t, Listing(list[t]))
    /\ UNCHANGED <<directories, dir_m, request, list, it>>

Size(t) ==
    /\ pc[t] = "size"
    /\ Finish(t, Count(Cardinality(directories)))
    /\ UNCHANGED <<directories, dir_m, request, list, it>>

\* Leaving the operation destroys its locals and the lock_guard.
Return(t) ==
    /\ pc[t] = "return"
    /\ dir_m' = Nobody
    /\ request' = [request EXCEPT ![t] = NoRequest]
    /\ list' = [list EXCEPT ![t] = {}]
    /\ it' = [it EXCEPT ![t] = 0]
    /\ answer' = [answer EXCEPT ![t] = NoAnswer]
    /\ Goto(t, "idle")
    /\ UNCHANGED directories

\* What a thread does once it is inside a call.
Body(t) ==
    \/ Lock(t) \/ Find(t) \/ Insert(t) \/ Erase(t)
    \/ Copy(t) \/ CopyEnd(t) \/ Size(t) \/ Return(t)

Next == \E t \in Threads : Call(t) \/ Body(t)

Spec == Init /\ [][Next]_vars

\* Threads inside a call keep running; nothing makes a client call, and
\* std::mutex does not promise a waiting thread that its turn comes.
FairSpec == Spec /\ \A t \in Threads : WF_vars(Body(t))

-----------------------------------------------------------------------------
Holding == {"find", "insert", "erase", "copy", "size", "return"}
Answers ==
    {NoAnswer} \cup ({"bool"} \X BOOLEAN) \cup ({"list"} \X SUBSET Names) \cup ({"size"} \X Nat)

\* The mutex has an owner exactly when that thread is between lock and return.
TypeOK ==
    /\ directories \subseteq Names
    /\ dir_m \in Threads \cup {Nobody}
    /\ pc \in [Threads -> Holding \cup {"idle", "lock"}]
    /\ request \in [Threads -> Requests \cup {NoRequest}]
    /\ list \in [Threads -> SUBSET Names]
    /\ it \in [Threads -> Nat]
    /\ answer \in [Threads -> Answers]

\* No two threads are inside the list's operations at once.
Exclusion == \A t \in Threads : pc[t] \in Holding <=> dir_m = t

\* What a thread found out about its name still holds when it acts on it.
FindingsHold ==
    \A t \in Threads :
        /\ pc[t] = "insert" => /\ request[t].op = "add"
                               /\ request[t].name \notin directories
        /\ pc[t] = "erase" => /\ request[t].op = "remove"
                              /\ request[t].name \in directories

\* The copy made so far is the part of the present list behind the iterator.
CopyFaithful ==
    \A t \in Threads :
        pc[t] = "copy" => list[t] = {d \in directories : d < it[t]}

-----------------------------------------------------------------------------
\* A call that computed its answer has taken effect.
Phase ==
    [t \in Threads |-> CASE pc[t] = "idle" -> "idle"
                         [] pc[t] = "return" -> "done"
                         [] OTHER -> "called"]

Atomic == INSTANCE AtomicDirectories WITH phase <- Phase

\* Every call of add_directory, remove_directory, get_list and
\* directories_size is atomic: it takes effect and computes its answer at one
\* instant between its call and its return ("Thread-safe" in the comments of
\* common_server.cpp).
ImplementsAtomic == Atomic!Spec

\* The mutex never gets stuck: while threads are waiting to enter an
\* operation, operations keep finishing.
SomeCallReturns ==
    (\E t \in Threads : pc[t] = "lock") ~> (\E t \in Threads : pc[t] = "return")
=============================================================================
