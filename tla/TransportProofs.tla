-------------------------- MODULE TransportProofs --------------------------
(***************************************************************************)
(* What holds of a connection whatever the lengths of the calls, the       *)
(* window of the kernel and the number of bytes.                           *)
(***************************************************************************)
EXTENDS Transport, SequenceTheorems, TLAPS

\* Bytes that the kernel has accepted.
Accepted == handed - send_len + bytes_sent

\* The bytes that follow byte b.
Run(s, b) == \A i \in 1..Len(s) : s[i] = b + i

\* What was returned, the buffer and the wire hold consecutive bytes.
Consecutive ==
    Run(taken, 0) /\ Run(buf, Len(taken)) /\ Run(wire, Len(taken) + Len(buf))

Shape ==
    /\ link \in {"up", "closed", "broken"}
    /\ sender \in {"idle", "sending", "sent", "failed", "gone"}
    /\ receiver \in {"idle", "receiving", "full", "short", "nothing"}
    /\ wire \in Seq(Nat) /\ buf \in Seq(Nat) /\ taken \in Seq(Nat)
    /\ handed \in 0..MaxBytes /\ send_len \in Nat /\ bytes_sent \in Nat /\ receive_len \in Nat
    /\ bytes_sent <= send_len /\ send_len <= handed
    /\ send_len \in Sizes \cup {0} /\ receive_len \in Sizes \cup {0}
    /\ Len(wire) <= Window

\* What links the two ends: nothing is lost before the connection breaks, and
\* a call under way is not finished.
Accounts ==
    /\ Len(taken) + Len(buf) + Len(wire) <= Accepted
    /\ link # "broken" => Len(taken) + Len(buf) + Len(wire) = Accepted
    /\ sender = "gone" => link # "up"
    /\ link = "closed" => sender = "gone"
    /\ link = "up" /\ sender # "sending" => bytes_sent = send_len
    /\ sender = "sent" => bytes_sent = send_len
    /\ receiver = "receiving" => Len(buf) < receive_len
    /\ receiver # "receiving" => buf = <<>>

IInv == Shape /\ Consecutive /\ Accounts /\ ShortOnlyAtEnd

USE MaxBytesAssumption, SizesAssumption, WindowAssumption

\* The two operations on sequences that the loops use.
LEMMA Joined ==
    ASSUME NEW s \in Seq(Nat), NEW t \in Seq(Nat), NEW b \in Nat, Run(s, b), Run(t, b + Len(s))
    PROVE  s \o t \in Seq(Nat) /\ Len(s \o t) = Len(s) + Len(t) /\ Run(s \o t, b)
<1>1. s \o t \in Seq(Nat) /\ Len(s \o t) = Len(s) + Len(t)
  OBVIOUS
<1>2. ASSUME NEW i \in 1..(Len(s) + Len(t)) PROVE (s \o t)[i] = b + i
  <2>1. CASE i <= Len(s)
    BY <2>1 DEF Run
  <2>2. CASE i > Len(s)
    <3>1. (s \o t)[i] = t[i - Len(s)] /\ i - Len(s) \in 1..Len(t)
      BY <2>2
    <3>2. t[i - Len(s)] = b + Len(s) + (i - Len(s))
      BY <3>1 DEF Run
    <3> QED BY <3>1, <3>2
  <2> QED BY <2>1, <2>2
<1> QED BY <1>1, <1>2 DEF Run

LEMMA Parted ==
    ASSUME NEW s \in Seq(Nat), NEW b \in Nat, Run(s, b), NEW n \in Nat, n <= Len(s)
    PROVE  /\ SubSeq(s, 1, n) \in Seq(Nat) /\ Len(SubSeq(s, 1, n)) = n
           /\ Run(SubSeq(s, 1, n), b)
           /\ SubSeq(s, n + 1, Len(s)) \in Seq(Nat)
           /\ Len(SubSeq(s, n + 1, Len(s))) = Len(s) - n
           /\ Run(SubSeq(s, n + 1, Len(s)), b + n)
<1>1. /\ SubSeq(s, 1, n) \in Seq(Nat) /\ Len(SubSeq(s, 1, n)) = n
      /\ \A i \in 1..n : SubSeq(s, 1, n)[i] = s[i]
  OBVIOUS
<1>2. /\ SubSeq(s, n + 1, Len(s)) \in Seq(Nat)
      /\ Len(SubSeq(s, n + 1, Len(s))) = Len(s) - n
      /\ \A i \in 1..(Len(s) - n) : SubSeq(s, n + 1, Len(s))[i] = s[n + i]
  OBVIOUS
<1>3. Run(SubSeq(s, 1, n), b)
  BY <1>1 DEF Run
<1>4. Run(SubSeq(s, n + 1, Len(s)), b + n)
  BY <1>2 DEF Run
<1> QED BY <1>1, <1>2, <1>3, <1>4

\* No bytes follow any byte.
LEMMA Empty == \A b \in Nat : Run(<<>>, b)
BY DEF Run

\* Lengths are natural numbers, and only the empty sequence has length 0.
LEMMA Lengths ==
    IInv => /\ Len(taken) \in Nat /\ Len(buf) \in Nat /\ Len(wire) \in Nat
            /\ wire = <<>> <=> Len(wire) = 0
            /\ buf = <<>> <=> Len(buf) = 0
BY DEF IInv, Shape

\* Initially nothing has been handed over.
LEMMA InitIInv == Init => IInv
BY DEF Init, IInv, Shape, Consecutive, Accounts, ShortOnlyAtEnd, Accepted, Run

\* Steps that leave the bytes where they are: calls, a failed send, the end of
\* the sender and no step at all.
LEMMA OthersIInv ==
    IInv /\ (SendCall \/ SendFails \/ SenderGoes \/ ReceiveCall \/ UNCHANGED vars) => IInv'
<1> SUFFICES ASSUME IInv, SendCall \/ SendFails \/ SenderGoes \/ ReceiveCall \/ UNCHANGED vars
             PROVE  IInv'
  OBVIOUS
<1> USE DEF vars, sendVars, receiveVars
<1>1. Consecutive'
  BY DEF IInv, Consecutive, SendCall, SendFails, SenderGoes, ReceiveCall
<1>2. Shape'
  <2>1. CASE SendCall
    <3>1. PICK n \in Sizes : handed + n <= MaxBytes /\ handed' = handed + n /\ send_len' = n
      BY <2>1 DEF SendCall
    <3>2. n \in Nat
      OBVIOUS
    <3> QED BY <2>1, <3>1, <3>2 DEF IInv, Shape, SendCall
  <2>2. CASE ~SendCall
    BY <2>2 DEF IInv, Shape, SendFails, SenderGoes, ReceiveCall
  <2> QED BY <2>1, <2>2
<1>3. Accounts'
  <2>1. CASE SendCall
    <3>1. PICK n \in Sizes : handed' = handed + n /\ send_len' = n
      BY <2>1 DEF SendCall
    <3>2. n \in Nat
      OBVIOUS
    <3>3. Accepted' = handed /\ Accepted <= handed
      BY <2>1, <3>1, <3>2 DEF Accepted, SendCall, IInv, Shape
    <3>4. link # "broken" => Accepted = handed
      BY <2>1 DEF IInv, Shape, Accounts, SendCall, Accepted
    <3>5. /\ sender' = "sending" /\ sender # "gone"
          /\ UNCHANGED <<link, wire, receiver, receive_len, buf, taken>>
      BY <2>1 DEF SendCall
    <3>6. Accepted \in Int /\ handed \in Int
      BY DEF IInv, Shape, Accepted
    <3>7. sender' # "gone" /\ link # "closed" /\ sender' # "sent"
      BY <3>5 DEF IInv, Accounts
    <3>8. /\ Len(taken) + Len(buf) + Len(wire) <= Accepted'
          /\ link # "broken" => Len(taken) + Len(buf) + Len(wire) = Accepted'
      BY <3>3, <3>4, <3>6, Lengths DEF IInv, Accounts
    <3> QED BY <3>5, <3>7, <3>8 DEF IInv, Accounts
  <2>2. CASE ReceiveCall
    <3>1. receive_len' \in Nat /\ receive_len' > 0
      BY <2>2 DEF ReceiveCall
    <3> QED BY <2>2, <3>1, Lengths DEF IInv, Accounts, Accepted, ReceiveCall
  <2>3. CASE SendFails \/ SenderGoes \/ UNCHANGED vars
    BY <2>3 DEF IInv, Shape, Accounts, Accepted, SendFails, SenderGoes
  <2> QED BY <2>1, <2>2, <2>3
<1>4. ShortOnlyAtEnd'
  BY DEF IInv, Shape, ShortOnlyAtEnd, AtEnd, SendCall, SendFails, SenderGoes, ReceiveCall
<1> QED BY <1>1, <1>2, <1>3, <1>4 DEF IInv

\* The kernel accepts a piece of the buffer.
LEMMA SendSomeIInv == IInv /\ SendSome => IInv'
<1> SUFFICES ASSUME IInv, SendSome PROVE IInv'
  OBVIOUS
<1>1. PICK n \in 1..Remaining :
         /\ \/ link = "up" /\ Len(wire) + n <= Window /\ wire' = wire \o Chunk(n)
            \/ link = "broken" /\ UNCHANGED wire
         /\ bytes_sent' = bytes_sent + n
         /\ sender' = AfterChunk(bytes_sent + n)
  BY DEF SendSome
<1>2. /\ sender = "sending"
      /\ UNCHANGED <<link, handed, send_len, receiver, receive_len, buf, taken>>
      /\ n \in Nat /\ n > 0 /\ bytes_sent + n <= send_len
  BY <1>1 DEF SendSome, Remaining, receiveVars, IInv, Shape
<1>3. sender' \in {"sent", "sending"} /\ (sender' # "sending" => bytes_sent' = send_len)
  BY <1>1, <1>2 DEF AfterChunk
<1>4. Accepted \in Nat /\ Accepted' = Accepted + n
  BY <1>1, <1>2 DEF IInv, Shape, Accepted
<1>5. /\ wire' \in Seq(Nat) /\ Len(wire') <= Window
      /\ Run(wire', Len(taken) + Len(buf))
      /\ Len(wire') \in {Len(wire), Len(wire) + n}
      /\ link # "broken" => Len(wire') = Len(wire) + n
      /\ wire' = <<>> => wire = <<>>
  <2>1. CASE link = "up"
    <3>1. /\ Chunk(n) \in Seq(Nat) /\ Len(Chunk(n)) = n
          /\ Run(Chunk(n), Accepted)
      BY <1>2, <1>4 DEF Chunk, Accepted, Run
    <3> DEFINE base == Len(taken) + Len(buf)
    <3>2. wire \in Seq(Nat) /\ base \in Nat /\ Run(wire, base) /\ base + Len(wire) = Accepted
      BY <2>1, Lengths DEF IInv, Shape, Consecutive, Accounts
    <3>3. wire' = wire \o Chunk(n) /\ Len(wire) + n <= Window
      BY <1>1, <2>1
    <3> HIDE DEF base
    <3>4. Run(Chunk(n), base + Len(wire))
      BY <3>1, <3>2
    <3>5. wire' \in Seq(Nat) /\ Len(wire') = Len(wire) + Len(Chunk(n)) /\ Run(wire', base)
      BY <3>1, <3>2, <3>3, <3>4, Joined
    <3>6. wire' # <<>>
      BY <1>2, <3>1, <3>5, Lengths
    <3> QED BY <1>2, <3>1, <3>3, <3>5, <3>6 DEF base
  <2>2. CASE link = "broken"
    BY <1>1, <2>2 DEF IInv, Shape, Consecutive
  <2> QED BY <1>1, <2>1, <2>2
<1>6. Shape'
  BY <1>1, <1>2, <1>3, <1>5 DEF IInv, Shape
<1>7. Consecutive'
  BY <1>2, <1>5 DEF IInv, Consecutive
<1>8. Accounts'
  <2>1. /\ Len(taken) + Len(buf) + Len(wire') <= Accepted'
        /\ link # "broken" => Len(taken) + Len(buf) + Len(wire') = Accepted'
    <3>1. /\ Len(taken) + Len(buf) + Len(wire) <= Accepted
          /\ link # "broken" => Len(taken) + Len(buf) + Len(wire) = Accepted
      BY DEF IInv, Accounts
    <3>2. /\ Len(wire') \in {Len(wire), Len(wire) + n}
          /\ link # "broken" => Len(wire') = Len(wire) + n
          /\ n \in Nat /\ Accepted \in Nat /\ Accepted' = Accepted + n
      BY <1>2, <1>4, <1>5
    <3>3. Len(taken) \in Nat /\ Len(buf) \in Nat /\ Len(wire) \in Nat
      BY Lengths
    <3> QED BY <3>1, <3>2, <3>3
  <2> QED BY <1>2, <1>3, <2>1 DEF IInv, Accounts
<1>9. ShortOnlyAtEnd'
  <2>1. AtEnd => link = "broken" /\ wire' = wire
    BY <1>1 DEF AtEnd
  <2> QED BY <1>2, <2>1 DEF IInv, ShortOnlyAtEnd, AtEnd
<1> QED BY <1>6, <1>7, <1>8, <1>9 DEF IInv

\* The connection breaks.
LEMMA BreakIInv == IInv /\ Break => IInv'
<1> SUFFICES ASSUME IInv, Break PROVE IInv'
  OBVIOUS
<1>1. PICK n \in 0..Len(wire) : wire' = SubSeq(wire, 1, n)
  BY DEF Break
<1>2. /\ n \in Nat /\ n <= Len(wire) /\ link' = "broken"
      /\ UNCHANGED <<sender, handed, send_len, bytes_sent, receiver, receive_len, buf, taken>>
  BY DEF Break, sendVars, receiveVars
<1>3. wire' \in Seq(Nat) /\ Len(wire') = n /\ Run(wire', Len(taken) + Len(buf))
  BY <1>1, <1>2, Parted, Lengths DEF IInv, Shape, Consecutive
<1>4. wire = <<>> => wire' = <<>>
  BY <1>2, <1>3, Lengths
<1>5. Shape'
  BY <1>2, <1>3, Lengths DEF IInv, Shape
<1>6. Consecutive'
  BY <1>2, <1>3 DEF IInv, Consecutive
<1>7. Accepted \in Int /\ Accepted' = Accepted
  BY <1>2 DEF IInv, Shape, Accepted
<1>8. Accounts'
  BY <1>2, <1>3, <1>7, Lengths DEF IInv, Accounts
<1>9. ShortOnlyAtEnd'
  BY <1>2, <1>4 DEF IInv, ShortOnlyAtEnd, AtEnd
<1> QED BY <1>5, <1>6, <1>8, <1>9 DEF IInv

\* Bytes are received; the last ones of a call make it return.
LEMMA ReceiveSomeIInv == IInv /\ ReceiveSome => IInv'
<1> SUFFICES ASSUME IInv, ReceiveSome PROVE IInv'
  OBVIOUS
<1>01. Len(taken) \in Nat /\ Len(buf) \in Nat /\ Len(wire) \in Nat /\ receive_len \in Nat
  BY Lengths DEF IInv, Shape
<1>0. /\ taken \in Seq(Nat) /\ buf \in Seq(Nat) /\ wire \in Seq(Nat)
      /\ Run(taken, 0) /\ Run(buf, Len(taken)) /\ Run(wire, Len(taken) + Len(buf))
  BY Lengths DEF IInv, Shape, Consecutive
<1>1. PICK n \in Nat :
         /\ n > 0 /\ Len(buf) + n <= receive_len
         /\ n <= Len(wire)
         /\ wire' = SubSeq(wire, n + 1, Len(wire))
         /\ LET filled == buf \o SubSeq(wire, 1, n)
            IN  IF Len(buf) + n = receive_len
                THEN Returns("full", filled)
                ELSE buf' = filled /\ UNCHANGED <<receiver, taken>>
  <2>1. \A n \in 1..(receive_len - Len(buf)) : n \in Nat /\ n > 0 /\ Len(buf) + n <= receive_len
    BY <1>01
  <2> QED BY <2>1 DEF ReceiveSome
<1> DEFINE filled == buf \o SubSeq(wire, 1, n)
<1>02. n > 0 /\ n <= Len(wire) /\ Len(buf) + n <= receive_len
  BY <1>1
<1>2. /\ receiver = "receiving"
      /\ UNCHANGED <<link, sender, handed, send_len, bytes_sent, receive_len>>
  BY <1>1 DEF ReceiveSome, sendVars
<1>3. /\ wire' \in Seq(Nat) /\ Len(wire') = Len(wire) - n
      /\ Run(wire', Len(taken) + Len(buf) + n)
      /\ SubSeq(wire, 1, n) \in Seq(Nat) /\ Len(SubSeq(wire, 1, n)) = n
      /\ Run(SubSeq(wire, 1, n), Len(taken) + Len(buf))
  BY <1>01, <1>02, <1>0, <1>1, <1>2, Parted
<1>4. filled \in Seq(Nat) /\ Len(filled) = Len(buf) + n /\ Run(filled, Len(taken))
  <2>1. buf \in Seq(Nat) /\ Len(taken) \in Nat /\ Run(buf, Len(taken))
    BY <1>01, <1>0
  <2> DEFINE piece == SubSeq(wire, 1, n)
  <2>2. piece \in Seq(Nat) /\ Len(piece) = n /\ Run(piece, Len(taken) + Len(buf))
    BY <1>3
  <2> HIDE DEF piece
  <2>3. buf \o piece \in Seq(Nat) /\ Len(buf \o piece) = Len(buf) + n /\ Run(buf \o piece, Len(taken))
    BY <2>1, <2>2, Joined
  <2> QED BY <2>3 DEF piece
<1>5. \/ /\ Len(buf) + n = receive_len
         /\ receiver' = "full" /\ taken' = taken \o filled /\ buf' = <<>>
      \/ Len(buf) + n < receive_len /\ buf' = filled /\ UNCHANGED <<receiver, taken>>
  <2>1. Len(buf) + n = receive_len \/ Len(buf) + n < receive_len
    BY <1>01, <1>02
  <2>2. Len(buf) + n = receive_len
           => receiver' = "full" /\ taken' = taken \o filled /\ buf' = <<>>
    BY <1>1 DEF Returns
  <2>3. Len(buf) + n # receive_len => buf' = filled /\ UNCHANGED <<receiver, taken>>
    BY <1>1
  <2> HIDE DEF filled
  <2> QED BY <2>1, <2>2, <2>3, <1>01, <1>02
<1> HIDE DEF filled
<1>6. /\ buf' \in Seq(Nat) /\ taken' \in Seq(Nat)
      /\ Run(taken', 0) /\ Run(buf', Len(taken'))
      /\ Len(taken') \in Nat /\ Len(buf') \in Nat
      /\ Len(taken') + Len(buf') = Len(taken) + Len(buf) + n
      /\ receiver' = "receiving" => Len(buf') < receive_len
      /\ receiver' # "receiving" => buf' = <<>>
      /\ receiver' \in {"full", "receiving"}
  <2>1. CASE buf' = filled /\ UNCHANGED <<receiver, taken>> /\ Len(buf) + n < receive_len
    <3>1. taken' \in Seq(Nat) /\ Run(taken', 0) /\ Len(taken') = Len(taken) /\ receiver' = "receiving"
      BY <1>01, <1>02, <1>0, <1>2, <2>1
    <3>2. buf' \in Seq(Nat) /\ Run(buf', Len(taken')) /\ Len(buf') = Len(buf) + n
      BY <1>4, <2>1
    <3> QED BY <1>01, <1>02, <1>0, <1>2, <2>1, <3>1, <3>2
  <2>2. CASE receiver' = "full" /\ taken' = taken \o filled /\ buf' = <<>>
    <3>1. taken \in Seq(Nat) /\ Run(taken, 0) /\ Run(filled, 0 + Len(taken))
      BY <1>01, <1>02, <1>0, <1>4
    <3>2. taken' \in Seq(Nat) /\ Len(taken') = Len(taken) + Len(filled) /\ Run(taken', 0)
      BY <1>4, <2>2, <3>1, Joined
    <3>3. buf' \in Seq(Nat) /\ Len(buf') = 0 /\ Run(buf', Len(taken'))
      BY <2>2, <3>2, Empty
    <3> QED BY <1>01, <1>02, <1>0, <1>2, <1>4, <2>2, <3>2, <3>3
  <2> QED BY <1>5, <2>1, <2>2
<1>7. Shape'
  BY <1>2, <1>3, <1>6, Lengths DEF IInv, Shape
<1>8. Consecutive'
  BY <1>3, <1>6 DEF Consecutive
<1>9. Accepted \in Int /\ Accepted' = Accepted
  BY <1>2 DEF IInv, Shape, Accepted
<1>10. Accounts'
  <2>1. Len(taken') + Len(buf') + Len(wire') = Len(taken) + Len(buf) + Len(wire)
    <3>1. Len(wire') = Len(wire) - n
      BY <1>3
    <3>2. /\ Len(taken') \in Nat /\ Len(buf') \in Nat
          /\ Len(taken') + Len(buf') = Len(taken) + Len(buf) + n
      BY <1>6
    <3> QED BY <1>01, <1>02, <3>1, <3>2
  <2> QED BY <1>2, <1>6, <1>9, <2>1 DEF IInv, Accounts
<1>11. ShortOnlyAtEnd'
  BY <1>6 DEF ShortOnlyAtEnd
<1> QED BY <1>7, <1>8, <1>10, <1>11 DEF IInv

\* recv has met the end.
LEMMA ReceiveEndsIInv == IInv /\ ReceiveEnds => IInv'
<1> SUFFICES ASSUME IInv, ReceiveEnds PROVE IInv'
  OBVIOUS
<1>1. /\ receiver = "receiving" /\ link # "up" /\ wire = <<>>
      /\ receiver' \in {"nothing", "short"} /\ taken' = taken \o buf /\ buf' = <<>>
      /\ UNCHANGED <<link, wire, sender, handed, send_len, bytes_sent, receive_len>>
  BY DEF ReceiveEnds, Stops, Returns, AtEnd, sendVars
<1>2. taken' \in Seq(Nat) /\ Len(taken') = Len(taken) + Len(buf) /\ Run(taken', 0)
  BY <1>1, Joined, Lengths DEF IInv, Shape, Consecutive
<1>3. Shape'
  BY <1>1, <1>2 DEF IInv, Shape
<1>4. Consecutive'
  BY <1>1, <1>2, Empty, Lengths DEF Consecutive
<1>5. Accepted \in Int /\ Accepted' = Accepted
  BY <1>1 DEF IInv, Shape, Accepted
<1>6. Accounts'
  BY <1>1, <1>2, <1>5, Lengths DEF IInv, Accounts
<1>7. ShortOnlyAtEnd'
  BY <1>1 DEF ShortOnlyAtEnd, AtEnd
<1> QED BY <1>3, <1>4, <1>6, <1>7 DEF IInv

\* The invariant holds of every step.
LEMMA NextIInv == IInv /\ [Next]_vars => IInv'
BY OthersIInv, SendSomeIInv, BreakIInv, ReceiveSomeIInv, ReceiveEndsIInv
   DEF Next, SendStep, ReceiveStep

\* Every reachable state satisfies the invariant.
THEOREM Invariance == Spec => []IInv
<1> QED BY InitIInv, NextIInv, PTL DEF Spec

\* Consecutive bytes after b, up to the last one that there can be, are bytes.
LEMMA RunTyped ==
    ASSUME NEW s \in Seq(Nat), NEW b \in Nat, Run(s, b), b + Len(s) <= MaxBytes
    PROVE  s \in Seq(1..MaxBytes)
<1>1. Len(s) \in Nat /\ s \in [1..Len(s) -> Nat]
  BY LenProperties
<1>2. \A i \in 1..Len(s) : s[i] \in 1..MaxBytes
  BY <1>1 DEF Run
<1>3. s \in [1..Len(s) -> 1..MaxBytes]
  BY <1>1, <1>2
<1> QED BY <1>1, <1>3, SeqDef

\* The variables keep their types; no byte is received that was not sent.
THEOREM TransportTyped == Spec => []TypeOK
<1>1. ASSUME IInv PROVE TypeOK
  <2>1. Len(taken) + Len(buf) + Len(wire) <= MaxBytes
    BY <1>1 DEF IInv, Shape, Accounts, Accepted
  <2>2. taken \in Seq(1..MaxBytes)
    BY <1>1, <2>1, RunTyped DEF IInv, Shape, Consecutive
  <2>3. buf \in Seq(1..MaxBytes)
    BY <1>1, <2>1, RunTyped DEF IInv, Shape, Consecutive
  <2>4. wire \in Seq(1..MaxBytes)
    <3>1. Len(taken) + Len(buf) \in Nat
      BY <1>1 DEF IInv, Shape
    <3> QED BY <1>1, <2>1, <3>1, RunTyped DEF IInv, Shape, Consecutive
  <2>5. Len(buf) <= receive_len
    BY <1>1 DEF IInv, Shape, Accounts
  <2> QED BY <1>1, <2>2, <2>3, <2>4, <2>5 DEF IInv, Shape, TypeOK
<1> QED BY <1>1, Invariance, PTL

\* A receive that returns fewer bytes than it was asked for has met the end of
\* the connection (skt_receive, Socket::receive).
THEOREM ShortIsLast == Spec => []ShortOnlyAtEnd
<1>1. IInv => ShortOnlyAtEnd  BY DEF IInv
<1> QED BY <1>1, Invariance, PTL

\* While the connection is up, a send that succeeded has left nothing behind
\* (skt_send, Socket::send).
THEOREM SuccessIsSent == Spec => []SuccessMeansSent
<1>1. IInv => SuccessMeansSent
  <2> SUFFICES ASSUME IInv, sender = "sent", link = "up"
               PROVE  Len(taken) + Len(buf) + Len(wire) = handed
    BY DEF SuccessMeansSent
  <2>1. Accepted = handed
    BY DEF IInv, Shape, Accounts, Accepted
  <2> QED BY <2>1 DEF IInv, Accounts
<1> QED BY <1>1, Invariance, PTL

-----------------------------------------------------------------------------
\* No more is accepted than was handed over ...
AcceptedBound == Accepted \in Int /\ handed \in Int /\ Accepted <= handed

LEMMA AcceptedAtMost == IInv => AcceptedBound
BY DEF IInv, Shape, Accepted, AcceptedBound

\* ... so what receive has returned is determined by how much it is.
LEMMA TakenFacts ==
    ASSUME IInv', handed' = handed, Len(taken') > Len(taken), Len(taken) \in Nat
    PROVE  \E n \in (Len(taken) + 1)..handed : taken' = [i \in 1..n |-> i]
<1>1. /\ taken' \in Seq(Nat) /\ Run(taken', 0) /\ Len(taken') \in Nat /\ handed' \in Nat
      /\ Len(taken') <= handed'
  <2>1. Len(buf') \in Nat /\ Len(wire') \in Nat /\ Len(taken') \in Nat
    BY DEF IInv, Shape
  <2>2. Accepted' \in Int /\ handed' \in Int /\ Accepted' <= handed'
    <3>1. AcceptedBound'
      BY AcceptedAtMost, PTL
    <3> QED BY <3>1 DEF AcceptedBound
  <2> QED BY <2>1, <2>2 DEF IInv, Shape, Consecutive, Accounts
<1>2. Len(taken') \in (Len(taken) + 1)..handed
  BY <1>1
<1>3. taken' = [i \in 1..Len(taken') |-> i]
  BY <1>1 DEF Run
<1> QED BY <1>2, <1>3

\* The loops and the kernel implement the stream: no byte is lost before
\* another that arrives, none comes twice or out of order, none after the end.
THEOREM RefinesStream == Spec => ImplementsStream
<1>1. Init => Stream!Init
  BY DEF Init, Stream!Init, AtEnd
<1>2. ASSUME IInv, IInv', [Next]_vars PROVE [Stream!Next]_(Stream!vars)
  <2> USE DEF Stream!vars
  <2>1. CASE SendCall
    <3>1. UNCHANGED <<link, wire, buf, taken>> /\ handed' \in Nat /\ handed' > handed
      <4>1. PICK k \in Sizes : handed' = handed + k
        BY <2>1 DEF SendCall
      <4>2. k \in Nat \ {0} /\ handed \in Nat
        BY <1>2, SizesAssumption DEF IInv, Shape
      <4> QED BY <2>1, <4>1, <4>2 DEF SendCall, receiveVars
    <3> QED BY <3>1 DEF Stream!Next, Stream!Hand, AtEnd
  <2>2. CASE SendSome
    <3>1. UNCHANGED <<link, buf, taken, handed>>
      BY <2>2 DEF SendSome, receiveVars
    <3>2. AtEnd => AtEnd'
      BY <2>2 DEF SendSome, AtEnd
    <3> QED BY <3>1, <3>2 DEF Stream!Next, Stream!End, AtEnd
  <2>3. CASE SendFails \/ ReceiveCall
    <3>1. UNCHANGED <<link, wire, buf, taken, handed>>
      BY <2>3 DEF SendFails, ReceiveCall, sendVars, receiveVars
    <3> QED BY <3>1 DEF AtEnd
  <2>4. CASE SenderGoes \/ Break
    <3>1. UNCHANGED <<buf, taken, handed>>
      BY <2>4 DEF SenderGoes, Break, sendVars, receiveVars
    <3>2. AtEnd => AtEnd'
      BY <2>4 DEF SenderGoes, Break, AtEnd, IInv, Shape
    <3> QED BY <3>1, <3>2 DEF Stream!Next, Stream!End, AtEnd
  <2>5. CASE ReceiveSome
    <3>1. handed' = handed /\ link' = link /\ wire # <<>>
      BY <2>5 DEF ReceiveSome, sendVars, IInv, Shape
    <3>2. taken' = taken \/ Len(taken') > Len(taken)
      BY <2>5 DEF ReceiveSome, Returns, IInv, Shape
    <3>3. CASE Len(taken') > Len(taken)
      BY <3>1, <3>3, TakenFacts, <1>2 DEF Stream!Next, Stream!Take, AtEnd
    <3>4. CASE taken' = taken
      BY <3>1, <3>4 DEF Stream!Next, Stream!End, AtEnd
    <3> QED BY <3>2, <3>3, <3>4
  <2>6. CASE ReceiveEnds
    <3>1. handed' = handed /\ taken' = taken \o buf /\ AtEnd /\ AtEnd' /\ buf' = <<>>
      BY <2>6 DEF ReceiveEnds, Returns, sendVars, AtEnd, Stops
    <3>2. CASE buf = <<>>
      BY <3>1, <3>2 DEF IInv, Shape
    <3>3. CASE buf # <<>>
      <4>1. Len(taken') > Len(taken)
        BY <3>1, <3>3, <1>2 DEF IInv, Shape
      <4> QED BY <3>1, <3>3, <4>1, TakenFacts, <1>2 DEF Stream!Next, Stream!Take, AtEnd
    <3> QED BY <3>2, <3>3
  <2>7. CASE UNCHANGED vars
    BY <2>7 DEF vars, sendVars, receiveVars, AtEnd
  <2> QED BY <1>2, <2>1, <2>2, <2>3, <2>4, <2>5, <2>6, <2>7 DEF Next, SendStep, ReceiveStep
<1> QED BY <1>1, <1>2, Invariance, PTL DEF Spec, ImplementsStream, Stream!Spec
=============================================================================
