------------------------- MODULE DirectoriesProofs -------------------------
(***************************************************************************)
(* For any threads and any names: the invariants of the shared directory   *)
(* list, and that it implements AtomicDirectories.                         *)
(***************************************************************************)
EXTENDS Directories, FiniteSetTheorems, TLAPS

\* A call runs the operation that was requested.
OperationKnown ==
    \A t \in Threads :
        /\ pc[t] # "idle" => request[t] \in Requests
        /\ pc[t] = "find" => request[t].op \in {"add", "remove"}
        /\ pc[t] = "copy" => request[t].op = "list"
        /\ pc[t] = "size" => request[t].op = "size"

\* get_list starts with an empty copy and its iterator at begin().
CopyFresh ==
    \A t \in Threads : pc[t] \in {"idle", "lock"} => list[t] = {} /\ it[t] = 0

\* The inductive invariant.
IInv ==
    /\ TypeOK
    /\ Exclusion
    /\ FindingsHold
    /\ CopyFaithful
    /\ OperationKnown
    /\ CopyFresh
    /\ IsFiniteSet(directories)

LEMMA AnswersTyped ==
    /\ NoAnswer \in Answers
    /\ \A b \in BOOLEAN : Succeeded(b) \in Answers
    /\ \A S \in SUBSET Names : Listing(S) \in Answers
    /\ \A n \in Nat : Count(n) \in Answers
BY DEF NoAnswer, Succeeded, Listing, Count, Answers

LEMMA InitIInv == Init => IInv
BY NobodyAssumption, FS_EmptySet, AnswersTyped
   DEF Init, IInv, TypeOK, Exclusion, FindingsHold, CopyFaithful, OperationKnown,
       CopyFresh, Holding, Answers

LEMMA NextTypeOK == IInv /\ [Next]_vars => TypeOK'
<1> SUFFICES ASSUME IInv, [Next]_vars
             PROVE  TypeOK'
    OBVIOUS
<1> USE DEF IInv, TypeOK, Goto, Finish, Holding
<1>1. CASE UNCHANGED vars
    BY <1>1 DEF vars
<1>2. ASSUME NEW t \in Threads, Call(t)
      PROVE  TypeOK'
    BY <1>2 DEF Call
<1>3. ASSUME NEW t \in Threads, Lock(t)
      PROVE  TypeOK'
    BY <1>3 DEF Lock
<1>4. ASSUME NEW t \in Threads, Find(t)
      PROVE  TypeOK'
    BY <1>4, AnswersTyped DEF Find
<1>5. ASSUME NEW t \in Threads, Insert(t)
      PROVE  TypeOK'
    BY <1>5, AnswersTyped DEF Insert, FindingsHold, Requests, OperationKnown
<1>6. ASSUME NEW t \in Threads, Erase(t)
      PROVE  TypeOK'
    BY <1>6, AnswersTyped DEF Erase
<1>7. ASSUME NEW t \in Threads, Copy(t)
      PROVE  TypeOK'
    BY <1>7, NamesAssumption DEF Copy, Ahead
<1>8. ASSUME NEW t \in Threads, CopyEnd(t)
      PROVE  TypeOK'
    BY <1>8, AnswersTyped DEF CopyEnd
<1>9. ASSUME NEW t \in Threads, Size(t)
      PROVE  TypeOK'
    BY <1>9, FS_CardinalityType, AnswersTyped DEF Size
<1>10. ASSUME NEW t \in Threads, Return(t)
       PROVE  TypeOK'
    BY <1>10, AnswersTyped DEF Return, Answers
<1>11. QED
    BY <1>1, <1>2, <1>3, <1>4, <1>5, <1>6, <1>7, <1>8, <1>9, <1>10 DEF Next, Body

\* Only the owner of the mutex changes the list, so what the owner found out
\* and copied stays true of the list.
LEMMA NextLocked ==
    IInv /\ [Next]_vars => (Exclusion /\ FindingsHold /\ CopyFaithful)'
<1> SUFFICES ASSUME IInv, [Next]_vars
             PROVE  (Exclusion /\ FindingsHold /\ CopyFaithful)'
    OBVIOUS
<1> USE NobodyAssumption, NamesAssumption
    DEF IInv, TypeOK, Exclusion, FindingsHold, CopyFaithful, OperationKnown, CopyFresh,
        Goto, Finish, Holding
<1>1. CASE UNCHANGED vars
    BY <1>1 DEF vars
<1>2. ASSUME NEW t \in Threads, Call(t)
      PROVE  (Exclusion /\ FindingsHold /\ CopyFaithful)'
    BY <1>2 DEF Call
<1>3. ASSUME NEW t \in Threads, Lock(t)
      PROVE  (Exclusion /\ FindingsHold /\ CopyFaithful)'
    BY <1>3 DEF Lock
<1>4. ASSUME NEW t \in Threads, Find(t)
      PROVE  (Exclusion /\ FindingsHold /\ CopyFaithful)'
    <2>1. UNCHANGED <<directories, dir_m, request, list, it>> /\ pc[t] = "find" /\ dir_m = t
        BY <1>4 DEF Find
    <2>2. PICK label \in {"insert", "erase", "return"} : pc' = [pc EXCEPT ![t] = label]
        BY <1>4 DEF Find
    <2>3. Exclusion'
        BY <1>4 DEF Find
    <2>4. FindingsHold'
        <3>1. \A s \in Threads \ {t} : pc'[s] = pc[s] /\ pc[s] \notin Holding
            BY <2>1, <2>2
        <3>2. /\ pc'[t] = "insert" => request[t].op = "add" /\ request[t].name \notin directories
              /\ pc'[t] = "erase" => request[t].op = "remove" /\ request[t].name \in directories
            BY <1>4 DEF Find
        <3>3. QED
            BY <2>1, <3>1, <3>2
    <2>5. CopyFaithful'
        BY <2>1, <2>2
    <2>6. QED
        BY <2>3, <2>4, <2>5
<1>5. ASSUME NEW t \in Threads, Insert(t)
      PROVE  (Exclusion /\ FindingsHold /\ CopyFaithful)'
    BY <1>5 DEF Insert
<1>6. ASSUME NEW t \in Threads, Erase(t)
      PROVE  (Exclusion /\ FindingsHold /\ CopyFaithful)'
    BY <1>6 DEF Erase
<1>7. ASSUME NEW t \in Threads, Copy(t)
      PROVE  (Exclusion /\ FindingsHold /\ CopyFaithful)'
    <2>1. PICK d \in Ahead(t) : /\ \A e \in Ahead(t) : d <= e
                                /\ list' = [list EXCEPT ![t] = @ \cup {d}]
                                /\ it' = [it EXCEPT ![t] = d + 1]
        BY <1>7 DEF Copy
    <2>2. UNCHANGED <<directories, dir_m, pc, request>> /\ pc[t] = "copy"
        BY <1>7 DEF Copy
    <2>3. list[t] \cup {d} = {e \in directories : e < d + 1}
        <3>1. \A e \in directories : e < d + 1 <=> e < it[t] \/ e = d
            BY <2>1 DEF Ahead
        <3>2. QED
            BY <2>1, <2>2, <3>1 DEF Ahead
    <2>4. CopyFaithful'
        BY <2>1, <2>2, <2>3
    <2>5. QED
        BY <2>2, <2>4
<1>8. ASSUME NEW t \in Threads, CopyEnd(t)
      PROVE  (Exclusion /\ FindingsHold /\ CopyFaithful)'
    BY <1>8 DEF CopyEnd
<1>9. ASSUME NEW t \in Threads, Size(t)
      PROVE  (Exclusion /\ FindingsHold /\ CopyFaithful)'
    BY <1>9 DEF Size
<1>10. ASSUME NEW t \in Threads, Return(t)
       PROVE  (Exclusion /\ FindingsHold /\ CopyFaithful)'
    BY <1>10 DEF Return
<1>11. QED
    BY <1>1, <1>2, <1>3, <1>4, <1>5, <1>6, <1>7, <1>8, <1>9, <1>10 DEF Next, Body

LEMMA NextLocals ==
    IInv /\ [Next]_vars => (OperationKnown /\ CopyFresh /\ IsFiniteSet(directories))'
<1> SUFFICES ASSUME IInv, [Next]_vars
             PROVE  (OperationKnown /\ CopyFresh /\ IsFiniteSet(directories))'
    OBVIOUS
<1> USE FS_AddElement, FS_RemoveElement
    DEF IInv, TypeOK, FindingsHold, OperationKnown, CopyFresh, Goto, Finish, Holding
<1>1. CASE UNCHANGED vars
    BY <1>1 DEF vars
<1>2. ASSUME NEW t \in Threads, Call(t)
      PROVE  (OperationKnown /\ CopyFresh /\ IsFiniteSet(directories))'
    BY <1>2 DEF Call
<1>3. ASSUME NEW t \in Threads, Lock(t)
      PROVE  (OperationKnown /\ CopyFresh /\ IsFiniteSet(directories))'
    BY <1>3 DEF Lock, Requests
<1>4. ASSUME NEW t \in Threads, Find(t)
      PROVE  (OperationKnown /\ CopyFresh /\ IsFiniteSet(directories))'
    <2>1. /\ UNCHANGED <<directories, request, list, it>>
          /\ pc[t] = "find"
          /\ \E l \in {"insert", "erase", "return"} : pc' = [pc EXCEPT ![t] = l]
        BY <1>4 DEF Find
    <2>2. QED
        BY <2>1
<1>5. ASSUME NEW t \in Threads, Insert(t)
      PROVE  (OperationKnown /\ CopyFresh /\ IsFiniteSet(directories))'
    BY <1>5 DEF Insert
<1>6. ASSUME NEW t \in Threads, Erase(t)
      PROVE  (OperationKnown /\ CopyFresh /\ IsFiniteSet(directories))'
    BY <1>6 DEF Erase
<1>7. ASSUME NEW t \in Threads, Copy(t)
      PROVE  (OperationKnown /\ CopyFresh /\ IsFiniteSet(directories))'
    BY <1>7 DEF Copy
<1>8. ASSUME NEW t \in Threads, CopyEnd(t)
      PROVE  (OperationKnown /\ CopyFresh /\ IsFiniteSet(directories))'
    BY <1>8 DEF CopyEnd
<1>9. ASSUME NEW t \in Threads, Size(t)
      PROVE  (OperationKnown /\ CopyFresh /\ IsFiniteSet(directories))'
    BY <1>9 DEF Size
<1>10. ASSUME NEW t \in Threads, Return(t)
       PROVE  (OperationKnown /\ CopyFresh /\ IsFiniteSet(directories))'
    BY <1>10 DEF Return
<1>11. QED
    BY <1>1, <1>2, <1>3, <1>4, <1>5, <1>6, <1>7, <1>8, <1>9, <1>10 DEF Next, Body

\* The inductive invariant holds in every reachable state, for any number of
\* threads and any names.
THEOREM Invariance == Spec => []IInv
<1>1. Init => IInv
    BY InitIInv
<1>2. IInv /\ [Next]_vars => IInv'
    BY NextTypeOK, NextLocked, NextLocals DEF IInv
<1>3. QED
    BY <1>1, <1>2, PTL DEF Spec

\* The list holds names and every call is at one of its steps (Server).
THEOREM DirectoriesTyped == Spec => []TypeOK
BY Invariance, PTL DEF IInv

\* No two threads are inside the list's operations at once, and what a thread
\* found out about its name is still true when it acts on it (add_directory,
\* remove_directory).
THEOREM Safety == Spec => [](Exclusion /\ FindingsHold)
BY Invariance, PTL DEF IInv

\* A listing under way is the part of the present list that its iterator has
\* passed, however many threads change the list (get_list).
THEOREM CopiesFaithful == Spec => []CopyFaithful
BY Invariance, PTL DEF IInv

-----------------------------------------------------------------------------
\* The phase of a call as a function of its next step.
PhaseOf(label) ==
    CASE label = "idle" -> "idle"
      [] label = "return" -> "done"
      [] OTHER -> "called"

LEMMA PhaseStep ==
    ASSUME TypeOK, NEW t \in Threads, NEW label, Goto(t, label)
    PROVE  Phase' = [Phase EXCEPT ![t] = PhaseOf(label)]
BY DEF TypeOK, Goto, Phase, PhaseOf

\* A step that computes the answer is the instant at which the call takes
\* effect.
LEMMA FinishTakesEffect ==
    ASSUME IInv, NEW t \in Threads, pc[t] \in Holding \ {"return"},
           NEW value, Finish(t, value), UNCHANGED request,
           value = Atomic!Answer(request[t], directories),
           directories' = Atomic!Effect(request[t], directories)
    PROVE  Atomic!TakeEffect(t)
<1>1. Phase[t] = "called"
    BY DEF Phase, Holding
<1>2. Phase' = [Phase EXCEPT ![t] = "done"]
    BY PhaseStep DEF IInv, Finish, PhaseOf
<1>3. QED
    BY <1>1, <1>2 DEF Finish, Atomic!TakeEffect

\* Both modules count elements in the same way.
LEMMA SameCardinality == \A S : Atomic!Cardinality(S) = Cardinality(S)
BY DEF Cardinality, Atomic!Cardinality

LEMMA StepImplements == IInv /\ [Next]_vars => [Atomic!Next]_(Atomic!vars)
<1> SUFFICES ASSUME IInv, [Next]_vars
             PROVE  [Atomic!Next]_(Atomic!vars)
    OBVIOUS
<1> USE DEF IInv, Atomic!Effect, Atomic!Answer
<1>1. CASE UNCHANGED vars
    BY <1>1 DEF vars, Phase, Atomic!vars
<1>2. ASSUME NEW t \in Threads, Call(t)
      PROVE  Atomic!Call(t)
    <2>1. Phase' = [Phase EXCEPT ![t] = "called"]
        BY <1>2, PhaseStep DEF Call, PhaseOf
    <2>2. QED
        BY <1>2, <2>1 DEF Call, Phase, Requests, Atomic!Call, Atomic!Requests
<1>3. ASSUME NEW t \in Threads, Lock(t)
      PROVE  UNCHANGED Atomic!vars
    <2>1. Phase' = [Phase EXCEPT ![t] = "called"] /\ Phase[t] = "called"
        BY <1>3, PhaseStep DEF Lock, PhaseOf, Phase
    <2>2. QED
        BY <1>3, <2>1 DEF Lock, Phase, Atomic!vars
<1>4. ASSUME NEW t \in Threads, Find(t)
      PROVE  Atomic!TakeEffect(t) \/ UNCHANGED Atomic!vars
    <2>1. CASE \E l \in {"insert", "erase"} : Goto(t, l) /\ UNCHANGED answer
        <3>1. Phase' = [Phase EXCEPT ![t] = "called"] /\ Phase[t] = "called"
            BY <1>4, <2>1, PhaseStep DEF Find, PhaseOf, Phase
        <3>2. QED
            BY <1>4, <2>1, <3>1 DEF Find, Phase, Atomic!vars
    <2>2. CASE /\ request[t].op = "add" <=> request[t].name \in directories
               /\ Finish(t, Succeeded(FALSE))
        <3> pc[t] \in Holding \ {"return"} /\ UNCHANGED <<directories, request>>
            BY <1>4 DEF Find, Holding
        <3>1. CASE request[t].op = "add"
            <4>1. directories \cup {request[t].name} = directories
                BY <2>2, <3>1
            <4>2. Succeeded(FALSE) = Succeeded(request[t].name \notin directories)
                BY <2>2, <3>1
            <4>3. QED
                <5>1. Succeeded(FALSE) = Atomic!Answer(request[t], directories)
                    BY <3>1, <4>2 DEF Succeeded, Atomic!Succeeded
                <5>2. directories' = Atomic!Effect(request[t], directories)
                    BY <3>1, <4>1
                <5>3. QED
                    BY <2>2, <5>1, <5>2, FinishTakesEffect
        <3>2. CASE request[t].op = "remove"
            <4>1. directories \ {request[t].name} = directories
                BY <2>2, <3>2
            <4>2. Succeeded(FALSE) = Succeeded(request[t].name \in directories)
                <5>1. (request[t].name \in directories) = FALSE
                    BY <2>2, <3>2
                <5>2. QED
                    BY <5>1 DEF Succeeded
            <4>3. QED
                <5>1. Succeeded(FALSE) = Atomic!Answer(request[t], directories)
                    BY <3>2, <4>2 DEF Succeeded, Atomic!Succeeded
                <5>2. directories' = Atomic!Effect(request[t], directories)
                    BY <3>2, <4>1
                <5>3. QED
                    BY <2>2, <5>1, <5>2, FinishTakesEffect
        <3>3. QED
            BY <1>4, <3>1, <3>2 DEF Find, OperationKnown
    <2>3. QED
        BY <1>4, <2>1, <2>2 DEF Find
<1>5. ASSUME NEW t \in Threads, Insert(t)
      PROVE  Atomic!TakeEffect(t)
    BY <1>5, FinishTakesEffect
       DEF Insert, Holding, FindingsHold, Succeeded, Atomic!Succeeded
<1>6. ASSUME NEW t \in Threads, Erase(t)
      PROVE  Atomic!TakeEffect(t)
    BY <1>6, FinishTakesEffect
       DEF Erase, Holding, FindingsHold, Succeeded, Atomic!Succeeded
<1>7. ASSUME NEW t \in Threads, Copy(t)
      PROVE  UNCHANGED Atomic!vars
    BY <1>7 DEF Copy, Phase, Atomic!vars
<1>8. ASSUME NEW t \in Threads, CopyEnd(t)
      PROVE  Atomic!TakeEffect(t)
    <2>1. list[t] = directories
        <3>1. list[t] = {d \in directories : d < it[t]}
            BY <1>8 DEF CopyEnd, CopyFaithful
        <3>2. it[t] \in Nat /\ directories \subseteq Nat
            BY NamesAssumption DEF TypeOK
        <3>3. \A d \in directories : ~(d >= it[t])
            BY <1>8 DEF CopyEnd, Ahead
        <3>4. \A d \in directories : d < it[t]
            BY <3>2, <3>3
        <3>5. QED
            BY <3>1, <3>4
    <2>2. request[t].op = "list" /\ UNCHANGED <<directories, request>>
        BY <1>8 DEF CopyEnd, OperationKnown
    <2>3. Listing(list[t]) = Atomic!Answer(request[t], directories)
        BY <2>1, <2>2 DEF Listing, Atomic!Listing
    <2>4. directories' = Atomic!Effect(request[t], directories)
        BY <2>2
    <2>5. QED
        BY <1>8, <2>2, <2>3, <2>4, FinishTakesEffect DEF CopyEnd, Holding
<1>9. ASSUME NEW t \in Threads, Size(t)
      PROVE  Atomic!TakeEffect(t)
    <2>1. request[t].op = "size" /\ UNCHANGED <<directories, request>>
        BY <1>9 DEF Size, OperationKnown
    <2>2. Count(Cardinality(directories)) = Atomic!Answer(request[t], directories)
        BY <2>1, SameCardinality DEF Count, Atomic!Count
    <2>3. directories' = Atomic!Effect(request[t], directories)
        BY <2>1
    <2>4. QED
        BY <1>9, <2>1, <2>2, <2>3, FinishTakesEffect DEF Size, Holding
<1>10. ASSUME NEW t \in Threads, Return(t)
       PROVE  Atomic!Return(t)
    <2>1. Phase' = [Phase EXCEPT ![t] = "idle"]
        BY <1>10, PhaseStep DEF Return, PhaseOf
    <2>2. QED
        BY <1>10, <2>1 DEF Return, Phase, NoRequest, NoAnswer,
           Atomic!Return, Atomic!NoRequest, Atomic!NoAnswer
<1>11. QED
    BY <1>1, <1>2, <1>3, <1>4, <1>5, <1>6, <1>7, <1>8, <1>9, <1>10
       DEF Next, Body, Atomic!Next

\* The locked std::set implements the atomic list: concurrent MKD, RMD and
\* LIST commands behave as if executed one at a time.
THEOREM Refinement == Spec => ImplementsAtomic
<1>1. Init => Atomic!Init
    BY DEF Init, Phase, NoRequest, NoAnswer, Atomic!Init, Atomic!NoRequest, Atomic!NoAnswer
<1>2. IInv /\ [Next]_vars => [Atomic!Next]_(Atomic!vars)
    BY StepImplements
<1>3. QED
    BY <1>1, <1>2, Invariance, PTL DEF Spec, ImplementsAtomic, Atomic!Spec
=============================================================================
