----------------------------- MODULE ByteStream -----------------------------
(***************************************************************************)
(* What the send and receive functions of both programs promise: the bytes *)
(* handed to the one come out of the other in their order, each once, up   *)
(* to an end after which none comes any more.  Bytes are numbered.         *)
(***************************************************************************)
EXTENDS Naturals, Sequences

VARIABLES handed,   \* bytes handed to send
          taken,    \* bytes that receive has returned
          ended     \* no more bytes come

vars == <<handed, taken, ended>>

Init == handed = 0 /\ taken = <<>> /\ ended = FALSE

Hand ==
    /\ handed' \in Nat /\ handed' > handed
    /\ UNCHANGED <<taken, ended>>

Take ==
    /\ ~ended
    /\ \E n \in (Len(taken) + 1)..handed : taken' = [i \in 1..n |-> i]
    /\ ended' \in BOOLEAN
    /\ UNCHANGED handed

End == ended' = TRUE /\ UNCHANGED <<handed, taken>>

Next == Hand \/ Take \/ End

Spec == Init /\ [][Next]_vars
=============================================================================
