------------------------- MODULE AtomicDirectories -------------------------
(***************************************************************************)
(* What the directory list of the FTP server promises to the threads that  *)
(* attend clients: every call takes effect, and computes its answer, at    *)
(* one instant between the call and its return.                            *)
(***************************************************************************)
EXTENDS Naturals, FiniteSets

CONSTANTS Threads,   \* the threads that attend clients
          Names      \* directory names

Requests == [op : {"add", "remove", "list", "size"}, name : Names]
NoRequest == [op |-> "none", name |-> 0]

VARIABLES directories,  \* the shared list
          phase,        \* where each thread's call is
          request,      \* each thread's call
          answer        \* what each thread's call is about to return

vars == <<directories, phase, request, answer>>

Succeeded(b) == <<"bool", b>>
Listing(S) == <<"list", S>>
Count(n) == <<"size", n>>
NoAnswer == <<"none", 0>>

\* The list after call r takes effect on the list S.
Effect(r, S) ==
    CASE r.op = "add" -> S \cup {r.name}
      [] r.op = "remove" -> S \ {r.name}
      [] OTHER -> S

\* The answer to call r taking effect on the list S: an add succeeds on an
\* absent name, a remove on a present one.
Answer(r, S) ==
    CASE r.op = "add" -> Succeeded(r.name \notin S)
      [] r.op = "remove" -> Succeeded(r.name \in S)
      [] r.op = "list" -> Listing(S)
      [] r.op = "size" -> Count(Cardinality(S))

Init ==
    /\ directories = {}
    /\ phase = [t \in Threads |-> "idle"]
    /\ request = [t \in Threads |-> NoRequest]
    /\ answer = [t \in Threads |-> NoAnswer]

Call(t) ==
    /\ phase[t] = "idle"
    /\ \E r \in Requests : request' = [request EXCEPT ![t] = r]
    /\ phase' = [phase EXCEPT ![t] = "called"]
    /\ UNCHANGED <<directories, answer>>

TakeEffect(t) ==
    /\ phase[t] = "called"
    /\ directories' = Effect(request[t], directories)
    /\ answer' = [answer EXCEPT ![t] = Answer(request[t], directories)]
    /\ phase' = [phase EXCEPT ![t] = "done"]
    /\ UNCHANGED request

Return(t) ==
    /\ phase[t] = "done"
    /\ phase' = [phase EXCEPT ![t] = "idle"]
    /\ request' = [request EXCEPT ![t] = NoRequest]
    /\ answer' = [answer EXCEPT ![t] = NoAnswer]
    /\ UNCHANGED directories

Next == \E t \in Threads : Call(t) \/ TakeEffect(t) \/ Return(t)

Spec == Init /\ [][Next]_vars
=============================================================================
