----------------------------- MODULE Transport -----------------------------
(***************************************************************************)
(* One direction of a connection: the loop that sends a buffer, the loop   *)
(* that receives into one, and the kernel in between, which takes and      *)
(* gives as many bytes of a call as it likes.  skt_send and skt_receive of *)
(* tp1 are the same loops as Socket::send and Socket::receive of tp3; they *)
(* differ in what they report: a status there, an exception or a number    *)
(* here.                                                                   *)
(*                                                                         *)
(* Bytes are numbered in the order in which they are handed to send.  send *)
(* fails when the connection is at its end, and not otherwise: it does not *)
(* return 0, and no signal handler interrupts it.                          *)
(***************************************************************************)
EXTENDS Naturals, Sequences

CONSTANTS MaxBytes,   \* bound: bytes handed to send
          Sizes,      \* lengths of the buffers of the calls
          Window      \* bytes that the kernel holds

ASSUME MaxBytesAssumption == MaxBytes \in Nat
ASSUME SizesAssumption == Sizes \subseteq Nat \ {0}
ASSUME WindowAssumption == Window \in Nat \ {0}

VARIABLES
    link,            \* the connection: up, closed by the sender or broken
    wire,            \* bytes accepted by the kernel and not received
    sender,          \* what the sender does or how its last call returned
    handed,          \* bytes handed to send
    send_len,        \* len of the last send
    bytes_sent,      \* bytes_sent of the last send
    receiver,        \* what the receiver does or how its last call returned
    receive_len,     \* len of the last receive
    buf,             \* buf[0..bytes_received) of the receive under way
    taken            \* bytes that the receives have returned

sendVars == <<sender, handed, send_len, bytes_sent>>
receiveVars == <<receiver, receive_len, buf, taken>>
vars == <<link, wire, sendVars, receiveVars>>

Init ==
    /\ link = "up" /\ wire = <<>>
    /\ sender = "idle" /\ handed = 0 /\ send_len = 0 /\ bytes_sent = 0
    /\ receiver = "idle" /\ receive_len = 0 /\ buf = <<>> /\ taken = <<>>

-----------------------------------------------------------------------------
(* Sending.                                                                *)

SendCall ==
    /\ sender \notin {"sending", "gone"}
    /\ \E n \in Sizes :
          /\ handed + n <= MaxBytes
          /\ handed' = handed + n
          /\ send_len' = n
    /\ bytes_sent' = 0
    /\ sender' = "sending"
    /\ UNCHANGED <<link, wire, receiveVars>>

\* Mutant of Chunk: every iteration sends from the start of the buffer.
ChunkFromStart(n) == [i \in 1..n |-> handed - send_len + i]

\* n bytes from &buf[bytes_sent].
Chunk(n) == [i \in 1..n |-> handed - send_len + bytes_sent + i]

\* Mutant of AfterChunk: a partial send is the last one.
AfterChunkSent(sent) == "sent"

\* while (socket_running && bytes_sent < len): SKT_SEND_SUCCESS, or return.
AfterChunk(sent) == IF sent = send_len THEN "sent" ELSE "sending"

\* Mutant of Remaining: bytes_sent is not subtracted from len.
RemainingAll == send_len

Remaining == send_len - bytes_sent

\* The kernel still accepts bytes before it knows that the connection is
\* broken, and loses them.
SendSome ==
    /\ sender = "sending"
    /\ \E n \in 1..Remaining :
          /\ \/ link = "up" /\ Len(wire) + n <= Window /\ wire' = wire \o Chunk(n)
             \/ link = "broken" /\ UNCHANGED wire
          /\ bytes_sent' = bytes_sent + n
          /\ sender' = AfterChunk(bytes_sent + n)
    /\ UNCHANGED <<link, handed, send_len, receiveVars>>

\* Mutant of SendFails: on -1 the buffer is sent again.
SendFailsRetrying ==
    /\ sender = "sending"
    /\ link = "broken"
    /\ bytes_sent' = 0
    /\ UNCHANGED <<link, wire, sender, handed, send_len, receiveVars>>

\* send returns -1: SKT_SEND_FAILURE, or Socket::send throws.  Without
\* MSG_NOSIGNAL it may instead raise SIGPIPE, which ends the process.
SendFails ==
    /\ sender = "sending"
    /\ link = "broken"
    /\ sender' \in {"failed", "gone"}
    /\ UNCHANGED <<link, wire, handed, send_len, bytes_sent, receiveVars>>

\* The sender closes its socket or ends, in the middle of a call if killed.
SenderGoes ==
    /\ sender # "gone"
    /\ sender' = "gone"
    /\ link' = IF link = "up" THEN "closed" ELSE link
    /\ UNCHANGED <<wire, handed, send_len, bytes_sent, receiveVars>>

\* The receiver goes away, or an end resets: what was on its way may be lost.
Break ==
    /\ link # "broken"
    /\ link' = "broken"
    /\ \E n \in 0..Len(wire) : wire' = SubSeq(wire, 1, n)
    /\ UNCHANGED <<sendVars, receiveVars>>

-----------------------------------------------------------------------------
(* Receiving.                                                              *)

ReceiveCall ==
    /\ receiver # "receiving"
    /\ receive_len' \in Sizes
    /\ receiver' = "receiving"
    /\ UNCHANGED <<link, wire, sendVars, buf, taken>>

Returns(how, bytes) ==
    /\ receiver' = how
    /\ taken' = taken \o bytes
    /\ buf' = <<>>

\* recv writes at &buf[bytes_received].
ReceiveSome ==
    /\ receiver = "receiving"
    /\ \E n \in 1..(receive_len - Len(buf)) :
          /\ n <= Len(wire)
          /\ wire' = SubSeq(wire, n + 1, Len(wire))
          /\ LET filled == buf \o SubSeq(wire, 1, n)
             IN  IF Len(buf) + n = receive_len
                 THEN Returns("full", filled)
                 ELSE buf' = filled /\ UNCHANGED <<receiver, taken>>
    /\ UNCHANGED <<link, sendVars, receive_len>>

AtEnd == link # "up" /\ wire = <<>>

\* Mutant of Stops: the loop ends when recv has no bytes to give for now.
StopsEmpty == wire = <<>>

\* recv returns 0 or -1.
Stops == AtEnd

\* Mutant of ReceiveEnds: the end is an end only between two calls.
ReceiveEndsEmpty ==
    /\ receiver = "receiving" /\ Stops /\ buf = <<>>
    /\ Returns("nothing", buf)
    /\ UNCHANGED <<link, wire, sendVars, receive_len>>

\* With some bytes the receive is a success, SKT_RECEPTION_SUCCESS and their
\* number; without any it is SKT_RECEPTION_END and -1 even after an error, as
\* bytes_received is never negative.
ReceiveEnds ==
    /\ receiver = "receiving"
    /\ Stops
    /\ Returns(IF buf = <<>> THEN "nothing" ELSE "short", buf)
    /\ UNCHANGED <<link, wire, sendVars, receive_len>>

-----------------------------------------------------------------------------
SendStep == SendSome \/ SendFails
ReceiveStep == ReceiveSome \/ ReceiveEnds

Next == SendCall \/ SendStep \/ SenderGoes \/ Break \/ ReceiveCall \/ ReceiveStep

Spec == Init /\ [][Next]_vars

\* A call that can go on goes on; nobody has to call, to leave or to reset.
FairSpec == Spec /\ WF_vars(SendStep) /\ WF_vars(ReceiveStep)

-----------------------------------------------------------------------------
TypeOK ==
    /\ link \in {"up", "closed", "broken"}
    /\ wire \in Seq(1..MaxBytes) /\ Len(wire) <= Window
    /\ sender \in {"idle", "sending", "sent", "failed", "gone"}
    /\ handed \in 0..MaxBytes
    /\ send_len \in Sizes \cup {0} /\ bytes_sent \in 0..send_len
    /\ receiver \in {"idle", "receiving", "full", "short", "nothing"}
    /\ receive_len \in Sizes \cup {0}
    /\ buf \in Seq(1..MaxBytes) /\ Len(buf) <= receive_len
    /\ taken \in Seq(1..MaxBytes)

\* The loops make of the kernel's pieces a stream: whatever the lengths of the
\* calls at the two ends, bytes are returned in order, none twice, none left
\* out before another, and none after the end.
Stream == INSTANCE ByteStream WITH ended <- AtEnd /\ buf = <<>>

ImplementsStream == Stream!Spec

\* A receive that returns fewer bytes than it was asked for is the last one to
\* return any: the callers that take it for a success (protocol_receive_string,
\* protocol_receive_command) learn of the end with their next receive.
ShortOnlyAtEnd == receiver \in {"short", "nothing"} => AtEnd

\* A send that reports success has left no byte behind: while the connection
\* is up, all that was handed to send is received or on its way.
SuccessMeansSent ==
    sender = "sent" /\ link = "up" => Len(taken) + Len(buf) + Len(wire) = handed

\* A send does not wait for ever but for a receiver that does not receive, and
\* not on a connection that has ended.
SendReturns ==
    []<>(sender # "sending" \/ (Len(wire) = Window /\ link = "up" /\ receiver # "receiving"))

\* A receive does not wait for ever but for a sender that sends nothing.
ReceiveReturns ==
    []<>(receiver # "receiving" \/ (wire = <<>> /\ link = "up" /\ sender # "sending"))
=============================================================================
