---------------------------- MODULE TextsProofs ----------------------------
(***************************************************************************)
(* Proofs about the texts that the server reads, for any files, lines and  *)
(* characters.  A line is divided at its first space, which is all that    *)
(* the positions of create_command say.  The constructor of Config is      *)
(* followed from line to line of the file: the lines before the stream are *)
(* loaded (FInv), because the two getlines of a turn end exactly at the    *)
(* first "=" of a line and at its end.                                     *)
(***************************************************************************)
EXTENDS Config, RequestLine, OrderLemmas, SequenceTheorems

\* The minimum of numbers is one of them.
LEMMA MinIs ==
    ASSUME NEW T, T \subseteq Nat, T # {}
    PROVE  Min(T) \in T /\ \A x \in T : Min(T) <= x
<1>1. \E x \in T : \A y \in T : x =< y
    BY Least
<1>. QED BY <1>1 DEF Min

\* A part of a sequence.
LEMMA PartOf ==
    ASSUME NEW S, NEW s \in Seq(S), NEW i \in 1..(Len(s) + 1), NEW j \in 0..Len(s), i <= j + 1
    PROVE  /\ SubSeq(s, i, j) \in Seq(S)
           /\ Len(SubSeq(s, i, j)) = j - i + 1
           /\ \A k \in 1..(j - i + 1) : SubSeq(s, i, j)[k] = s[i + k - 1]
<1>1. i \in Int /\ j \in Int /\ Len(s) \in Nat /\ \A k \in i..j : s[k] \in S
    OBVIOUS
<1>2. /\ SubSeq(s, i, j) \in Seq(S)
      /\ Len(SubSeq(s, i, j)) = IF i <= j THEN j - i + 1 ELSE 0
      /\ \A k \in 1..(j - i + 1) : SubSeq(s, i, j)[k] = s[i + k - 1]
    BY <1>1, SubSeqProperties
<1>3. ~(i <= j) => j - i + 1 = 0
    BY <1>1
<1>. QED BY <1>2, <1>3

-----------------------------------------------------------------------------
(* Requests.                                                               *)

Characters == Bytes \cup {"sp", "nl"}

\* The first space of the line, or 0.
LEMMA SpaceIs ==
    ASSUME line \in Seq(Characters)
    PROVE  /\ Space \in 0..Len(line)
           /\ Space = 0 => \A i \in 1..Len(line) : line[i] # "sp"
           /\ Space # 0 => line[Space] = "sp"
<1>. DEFINE I == {i \in 1..Len(line) : line[i] = "sp"}
<1>1. Space = IF I # {} THEN Min(I) ELSE 0
    BY DEF Space, SelectInSeq
<1>2. Len(line) \in Nat /\ I \subseteq Nat
    OBVIOUS
<1>3. I # {} => Min(I) \in I
    BY <1>2, MinIs
<1>. QED BY <1>1, <1>2, <1>3

\* No keyword has a delimiter in it.
LEMMA KeywordIs ==
    ASSUME NEW k \in Keywords
    PROVE  /\ Len(k) \in {3, 4}
           /\ \A i \in 1..Len(k) : k[i] # "sp" /\ k[i] # "nl"
BY KeywordsAssumption, BytesAssumption

LEMMA CreateCommandReads ==
    ASSUME line \in Seq(Characters), Complete, Len(line) > 1
    PROVE  CreateCommand = IF Word \in Keywords /\ ~(Argument = <<"nl">> /\ Len(Word) = 3)
                           THEN <<"command", Word, Argument>>
                           ELSE <<"invalid">>
<1>1. PICK n \in Nat : n = Len(line) /\ n > 1 /\ line[n] = "nl"
    BY DEF Complete, Last
<1>2. PICK x \in 0..n : /\ x = Space /\ x # n
                        /\ x # 0 => line[x] = "sp"
    BY <1>1, SpaceIs
<1>3. CASE x = 0
  <2>1. Word = SubSeq(line, 1, n - 1) /\ Argument = <<>>
    BY <1>1, <1>2, <1>3 DEF Word, Argument
  <2>2. Len(Word) = n - 1
    <3>1. 1 \in 1..(n + 1) /\ n - 1 \in 0..n /\ 1 <= (n - 1) + 1 /\ (n - 1) - 1 + 1 = n - 1
      BY <1>1
    <3>2. Len(SubSeq(line, 1, n - 1)) = (n - 1) - 1 + 1
      BY <1>1, <3>1, PartOf
    <3>. QED BY <2>1, <3>1, <3>2
  <2>3. CASE n > 5
    <3>1. line \notin Keywords
      BY <1>1, KeywordIs
    <3>2. Word \notin Keywords
      <4>1. n - 1 \notin {3, 4}
        BY <2>3
      <4>. QED BY <2>2, <4>1, KeywordIs
    <3>. QED BY <1>1, <1>2, <1>3, <2>3, <3>1, <3>2 DEF CreateCommand, Identify
  <2>4. CASE ~(n > 5)
    <3>1. Front(line) = Word
      BY <1>1, <2>1 DEF Front
    <3>2. Argument # <<"nl">>
      BY <2>1
    <3>. QED BY <1>1, <2>1, <2>4, <3>1, <3>2 DEF CreateCommand, Identify
  <2>. QED BY <2>3, <2>4
<1>4. CASE x # 0
  <2>1. Word = SubSeq(line, 1, x - 1) /\ Argument = SubSeq(line, x + 1, n)
    BY <1>1, <1>2, <1>4 DEF Word, Argument
  <2>2. x \in 1..(n - 1) /\ line[x] = "sp"
    BY <1>1, <1>2, <1>4
  <2>3. Len(Word) = x - 1
    <3>1. 1 \in 1..(n + 1) /\ x - 1 \in 0..n /\ 1 <= (x - 1) + 1 /\ (x - 1) - 1 + 1 = x - 1
      BY <2>2
    <3>2. Len(SubSeq(line, 1, x - 1)) = (x - 1) - 1 + 1
      BY <1>1, <3>1, PartOf
    <3>. QED BY <2>1, <3>1, <3>2
  <2>4. /\ Argument \in Seq(Characters) /\ Len(Argument) = n - x
        /\ \A k \in 1..(n - x) : Argument[k] = line[(x + 1) + k - 1]
    <3>1. x + 1 \in 1..(n + 1) /\ n \in 0..n /\ x + 1 <= n + 1 /\ n - (x + 1) + 1 = n - x
      BY <2>2
    <3>2. /\ SubSeq(line, x + 1, n) \in Seq(Characters)
          /\ Len(SubSeq(line, x + 1, n)) = n - (x + 1) + 1
          /\ \A k \in 1..(n - (x + 1) + 1) : SubSeq(line, x + 1, n)[k] = line[(x + 1) + k - 1]
      BY <1>1, <3>1, PartOf
    <3>. QED BY <2>1, <3>1, <3>2
  <2>5. CASE n > 5
    <3>1. ASSUME Argument = <<"nl">>, Len(Word) = 3 PROVE FALSE
      <4>1. Len(Argument) = 1
        BY <3>1
      <4>2. n - x = 1 /\ x - 1 = 3
        BY <2>3, <2>4, <3>1, <4>1
      <4>. QED BY <2>5, <4>2
    <3>. QED BY <1>1, <1>2, <1>4, <2>1, <2>5, <3>1 DEF CreateCommand, Identify
  <2>6. CASE ~(n > 5)
    <3>1. Front(line) \notin Keywords
      <4>1. 1 \in 1..(n + 1) /\ n - 1 \in 0..n /\ 1 <= (n - 1) + 1 /\ (n - 1) - 1 + 1 = n - 1
        BY <1>1
      <4>2. /\ Len(SubSeq(line, 1, n - 1)) = (n - 1) - 1 + 1
            /\ \A k \in 1..((n - 1) - 1 + 1) : SubSeq(line, 1, n - 1)[k] = line[1 + k - 1]
        BY <1>1, <4>1, PartOf
      <4>3. 1 + x - 1 = x /\ x \in 1..((n - 1) - 1 + 1)
        BY <2>2
      <4>4. Front(line)[x] = "sp" /\ x \in 1..Len(Front(line))
        BY <1>1, <2>2, <4>2, <4>3 DEF Front
      <4>. QED BY <4>4, KeywordIs
    <3>2. ASSUME Word \in Keywords PROVE Argument = <<"nl">> /\ Len(Word) = 3
      <4>1. x - 1 \in {3, 4}
        BY <2>3, <3>2, KeywordIs
      <4>2. n - x = 1 /\ x - 1 = 3 /\ (x + 1) + 1 - 1 = n
        BY <2>2, <2>6, <4>1
      <4>3. Len(Argument) = 1 /\ Argument[1] = "nl"
        <5>1. 1 \in 1..(n - x)
          BY <4>2
        <5>2. Argument[1] = line[(x + 1) + 1 - 1]
          BY <2>4, <5>1
        <5>. QED BY <1>1, <2>4, <4>2, <5>2
      <4>4. Argument = <<"nl">>
        BY <2>4, <4>3
      <4>. QED BY <2>3, <4>2, <4>4
    <3>. QED BY <1>1, <2>6, <3>1, <3>2 DEF CreateCommand, Identify
  <2>. QED BY <2>5, <2>6
<1>. QED BY <1>3, <1>4

LEMMA SameLine ==
    ASSUME line' = line
    PROVE  Word' = Word /\ Argument' = Argument /\ Complete' = Complete
<1>1. Space' = Space
    BY DEF Space, SelectInSeq
<1>2. Complete' = Complete
    BY DEF Complete
<1>. QED BY <1>1, <1>2 DEF Word, Argument

\* A request is there only as long as the line it was read from.
RequestInv ==
    /\ line \in Seq(Characters)
    /\ request # <<"none">> => Complete
    /\ RequestRead

\* Every line of any length is divided at its first space, and taken for the
\* keyword that is its first word (create_command, identify_command).
THEOREM RequestsRead == RequestSpec => []RequestRead
<1>1. RequestInit => RequestInv
    BY DEF RequestInit, RequestInv, RequestRead
<1>2. RequestInv /\ [RequestNext]_requestVars => RequestInv'
  <2>. SUFFICES ASSUME RequestInv, [RequestNext]_requestVars PROVE RequestInv'
    OBVIOUS
  <2>1. CASE UNCHANGED requestVars
    BY <2>1, SameLine DEF requestVars, RequestInv, RequestRead
  <2>2. CASE ReceiveByte
    <3>1. request' = <<"none">>
      BY <2>2 DEF ReceiveByte, RequestInv
    <3>2. line' \in Seq(Characters)
      BY <2>2 DEF ReceiveByte, RequestInv, Characters
    <3>. QED BY <3>1, <3>2 DEF RequestInv, RequestRead
  <2>3. CASE TakeRequest
    <3>1. UNCHANGED line /\ Complete /\ line \in Seq(Characters)
      BY <2>3 DEF TakeRequest, RequestInv
    <3>2. Len(line) > 1 => line # <<"nl">>
      <4>1. Len(<<"nl">>) = 1 /\ ~(1 > 1)
        OBVIOUS
      <4>. QED BY <4>1, Zenon
    <3>3. ~(Len(line) > 1) => line = <<"nl">>
      <4>1. Len(line) \in Nat /\ Len(line) # 0 /\ line[Len(line)] = "nl"
        BY <3>1 DEF Complete, Last
      <4>2. ~(Len(line) > 1) => Len(line) = 1 /\ line[1] = "nl"
        BY <4>1
      <4>. QED BY <3>1, <4>2
    <3>4. request' = IF line = <<"nl">> THEN <<"end">>
                     ELSE IF Word \in Keywords /\ ~(Argument = <<"nl">> /\ Len(Word) = 3)
                     THEN <<"command", Word, Argument>>
                     ELSE <<"invalid">>
      BY <2>3, <3>1, <3>2, <3>3, CreateCommandReads DEF TakeRequest
    <3>5. Word' = Word /\ Argument' = Argument /\ Complete'
      BY <3>1, SameLine
    <3>. QED BY <3>1, <3>4, <3>5 DEF RequestInv, RequestRead
  <2>4. CASE NextLine
    BY <2>4 DEF NextLine, RequestInv, RequestRead
  <2>. QED BY <2>1, <2>2, <2>3, <2>4 DEF RequestNext
<1>3. RequestInv => RequestRead
    BY DEF RequestInv
<1>. QED BY <1>1, <1>2, <1>3, PTL DEF RequestSpec

-----------------------------------------------------------------------------
(* The file of the configuration.                                          *)

FileCharacters == Letters \cup {"=", "nl"}

LEMMA TextIs ==
    ASSUME NEW s
    PROVE  s \in Texts <=> s \in Seq(FileCharacters) /\ Len(s) \in 0..MaxFile
<1>1. ASSUME s \in Texts PROVE s \in Seq(FileCharacters) /\ Len(s) \in 0..MaxFile
  <2>1. PICK m \in 0..MaxFile : s \in [1..m -> FileCharacters]
    BY <1>1 DEF Texts, BoundedSeq, SeqOf, FileCharacters
  <2>2. m \in Nat
    BY BoundsAssumption
  <2>3. s \in Seq(FileCharacters)
    BY <2>1, <2>2, SeqDef
  <2>4. Len(s) = m
    BY <2>1, <2>2, <2>3
  <2>. QED BY <2>3, <2>4
<1>2. ASSUME s \in Seq(FileCharacters), Len(s) \in 0..MaxFile PROVE s \in Texts
  <2>1. s \in [1..Len(s) -> FileCharacters]
    BY <1>2
  <2>. QED BY <1>2, <2>1 DEF Texts, BoundedSeq, SeqOf, FileCharacters
<1>. QED BY <1>1, <1>2

LEMMA PartIsText ==
    ASSUME file \in Texts, NEW i \in 1..(Len(file) + 1), NEW j \in 0..Len(file), i <= j + 1
    PROVE  SubSeq(file, i, j) \in Texts /\ Len(SubSeq(file, i, j)) = j - i + 1
<1>1. file \in Seq(FileCharacters) /\ Len(file) \in 0..MaxFile
    BY TextIs
<1>2. SubSeq(file, i, j) \in Seq(FileCharacters) /\ Len(SubSeq(file, i, j)) = j - i + 1
    BY <1>1, PartOf
<1>3. j - i + 1 \in 0..MaxFile
    BY <1>1, BoundsAssumption
<1>. QED BY <1>2, <1>3, TextIs

Stream(p, end, failed) == [pos |-> p, eof |-> end, fail |-> failed]

Streams == [pos : 1..(Len(file) + 1), eof : BOOLEAN, fail : BOOLEAN]

\* getline at place p: it stops at the next delimiter, or at the end.
LEMMA FoundIs ==
    ASSUME file \in Texts, NEW p \in 1..(Len(file) + 1), NEW delimiter
    PROVE  \/ \E i \in p..Len(file) :
                /\ file[i] = delimiter /\ \A j \in p..(i - 1) : file[j] # delimiter
                /\ Found(Stream(p, FALSE, FALSE), delimiter) =
                       [text |-> SubSeq(file, p, i - 1), s |-> Stream(i + 1, FALSE, FALSE)]
           \/ /\ \A j \in p..Len(file) : file[j] # delimiter
              /\ Found(Stream(p, FALSE, FALSE), delimiter) =
                     [text |-> SubSeq(file, p, Len(file)),
                      s |-> Stream(Len(file) + 1, TRUE, p > Len(file))]
<1>. DEFINE at == {i \in p..Len(file) : file[i] = delimiter}
            s == Stream(p, FALSE, FALSE)
<1>1. s.pos = p /\ s.eof = FALSE /\ s.fail = FALSE
    BY DEF Stream
<1>2. Len(file) \in Nat
    BY TextIs
<1>3. ASSUME NEW i \in Nat PROVE [s EXCEPT !.pos = i] = Stream(i, FALSE, FALSE)
  <2>1. s \in [pos : Nat, eof : BOOLEAN, fail : BOOLEAN] /\ p \in Nat
    BY <1>2 DEF Stream
  <2>. HIDE DEF s
  <2>2. PICK t \in [pos : Nat, eof : BOOLEAN, fail : BOOLEAN] : t = [s EXCEPT !.pos = i]
    BY <2>1
  <2>3. t.pos = i /\ t.eof = FALSE /\ t.fail = FALSE
    BY <1>1, <2>1, <2>2
  <2>4. t = [pos |-> t.pos, eof |-> t.eof, fail |-> t.fail]
    OBVIOUS
  <2>. QED BY <2>2, <2>3, <2>4 DEF Stream
<1>4. Found(s, delimiter) =
        IF at # {}
        THEN [text |-> SubSeq(file, p, Min(at) - 1), s |-> [s EXCEPT !.pos = Min(at) + 1]]
        ELSE [text |-> SubSeq(file, p, Len(file)),
              s |-> [pos |-> Len(file) + 1, eof |-> TRUE, fail |-> p > Len(file)]]
    BY <1>1 DEF Found
<1>. HIDE DEF s
<1>5. CASE at # {}
  <2>1. at \subseteq Nat
    BY <1>2
  <2>2. PICK i : i = Min(at) /\ i \in at /\ \A j \in at : i <= j
    BY <1>5, <2>1, MinIs
  <2>3. \A j \in p..(i - 1) : j \in p..Len(file) /\ ~(i <= j)
    BY <1>2, <2>2
  <2>4. \A j \in p..(i - 1) : file[j] # delimiter
    BY <2>2, <2>3
  <2>5. Found(s, delimiter) = [text |-> SubSeq(file, p, i - 1), s |-> Stream(i + 1, FALSE, FALSE)]
    <3>1. i + 1 \in Nat
      BY <1>2, <2>2
    <3>2. [s EXCEPT !.pos = i + 1] = Stream(i + 1, FALSE, FALSE)
      BY <1>3, <3>1
    <3>3. Found(s, delimiter) =
            [text |-> SubSeq(file, p, Min(at) - 1), s |-> [s EXCEPT !.pos = Min(at) + 1]]
      BY <1>4, <1>5
    <3>. HIDE DEF at
    <3>. QED BY <2>2, <3>2, <3>3
  <2>. QED BY <2>2, <2>4, <2>5 DEF s
<1>6. CASE at = {}
  <2>1. \A j \in p..Len(file) : file[j] # delimiter
    BY <1>6
  <2>2. Found(s, delimiter) = [text |-> SubSeq(file, p, Len(file)),
                               s |-> Stream(Len(file) + 1, TRUE, p > Len(file))]
    BY <1>4, <1>6 DEF Stream
  <2>. QED BY <2>1, <2>2 DEF s
<1>. QED BY <1>5, <1>6

LEMMA StreamFails ==
    ASSUME NEW p \in Nat, NEW end \in BOOLEAN, NEW failed \in BOOLEAN
    PROVE  [Stream(p, end, failed) EXCEPT !.fail = TRUE] = Stream(p, end, TRUE)
<1>1. PICK s \in [pos : Nat, eof : BOOLEAN, fail : BOOLEAN] : s = Stream(p, end, failed)
    BY DEF Stream
<1>2. s.pos = p /\ s.eof = end
    BY <1>1 DEF Stream
<1>3. PICK t \in [pos : Nat, eof : BOOLEAN, fail : BOOLEAN] : t = [s EXCEPT !.fail = TRUE]
    OBVIOUS
<1>4. t.pos = p /\ t.eof = end /\ t.fail = TRUE
    BY <1>2, <1>3
<1>5. t = [pos |-> t.pos, eof |-> t.eof, fail |-> t.fail]
    OBVIOUS
<1>. QED BY <1>1, <1>3, <1>4, <1>5 DEF Stream

\* What getline makes of a stream: of one that is good, and of the others.
LEMMA GetlineEnds ==
    ASSUME NEW p \in Nat, NEW end \in BOOLEAN, NEW failed \in BOOLEAN, end \/ failed,
           NEW old, NEW delimiter
    PROVE  Getline(Stream(p, end, failed), old, delimiter) =
               [text |-> old, s |-> Stream(p, end, TRUE)]
<1>1. Stream(p, end, failed).eof = end /\ Stream(p, end, failed).fail = failed
    BY DEF Stream
<1>2. Stream(p, end, failed).eof \/ Stream(p, end, failed).fail
    BY <1>1, Zenon
<1>. QED BY <1>2, StreamFails, Zenon DEF Getline

LEMMA GetlineFinds ==
    ASSUME NEW p \in Nat, NEW old, NEW delimiter
    PROVE  Getline(Stream(p, FALSE, FALSE), old, delimiter) =
               Found(Stream(p, FALSE, FALSE), delimiter)
<1>1. Stream(p, FALSE, FALSE).eof = FALSE /\ Stream(p, FALSE, FALSE).fail = FALSE
    BY DEF Stream
<1>2. ~(Stream(p, FALSE, FALSE).eof \/ Stream(p, FALSE, FALSE).fail)
    BY <1>1
<1>. QED BY <1>2, Zenon DEF Getline

LEMMA StreamTyped ==
    ASSUME NEW p \in 1..(Len(file) + 1), NEW end \in BOOLEAN, NEW failed \in BOOLEAN
    PROVE  Stream(p, end, failed) \in Streams
BY DEF Streams, Stream

LEMMA StreamIs ==
    ASSUME NEW s \in Streams
    PROVE  \E p \in 1..(Len(file) + 1), end \in BOOLEAN, failed \in BOOLEAN :
               s = Stream(p, end, failed)
<1>1. s.pos \in 1..(Len(file) + 1) /\ s.eof \in BOOLEAN /\ s.fail \in BOOLEAN
    BY DEF Streams
<1>2. s = Stream(s.pos, s.eof, s.fail)
    BY DEF Streams, Stream
<1>. QED BY <1>1, <1>2, Zenon

LEMMA GetlineTyped ==
    ASSUME file \in Texts, NEW s \in Streams, NEW old, NEW delimiter
    PROVE  \E text : \E t \in Streams :
               /\ Getline(s, old, delimiter) = [text |-> text, s |-> t]
               /\ text \in Texts \/ text = old
<1>1. Len(file) \in Nat
    BY TextIs
<1>2. PICK p \in 1..(Len(file) + 1), end \in BOOLEAN, failed \in BOOLEAN : s = Stream(p, end, failed)
    BY StreamIs
<1>3. p \in Nat
    BY <1>1
<1>4. CASE s.eof \/ s.fail
  <2>1. Getline(s, old, delimiter) = [text |-> old, s |-> [s EXCEPT !.fail = TRUE]]
    BY <1>4, Zenon DEF Getline
  <2>2. [s EXCEPT !.fail = TRUE] \in Streams
    BY DEF Streams
  <2>. QED BY <2>1, <2>2
<1>5. CASE ~(s.eof \/ s.fail)
  <2>1. Getline(s, old, delimiter) = Found(Stream(p, FALSE, FALSE), delimiter)
    <3>1. s = Stream(p, FALSE, FALSE)
      <4>1. s.eof = end /\ s.fail = failed
        BY <1>2 DEF Stream
      <4>2. end = FALSE /\ failed = FALSE
        BY <1>5, <4>1
      <4>. QED BY <1>2, <4>2
    <3>2. Getline(Stream(p, FALSE, FALSE), old, delimiter) = Found(Stream(p, FALSE, FALSE), delimiter)
      BY <1>3, GetlineFinds
    <3>. QED BY <3>1, <3>2, Zenon
  <2>2. CASE \E i \in p..Len(file) :
                Found(Stream(p, FALSE, FALSE), delimiter) =
                    [text |-> SubSeq(file, p, i - 1), s |-> Stream(i + 1, FALSE, FALSE)]
    <3>1. PICK i \in p..Len(file) :
                Found(Stream(p, FALSE, FALSE), delimiter) =
                    [text |-> SubSeq(file, p, i - 1), s |-> Stream(i + 1, FALSE, FALSE)]
      BY <2>2
    <3>2. i - 1 \in 0..Len(file) /\ p <= (i - 1) + 1 /\ i + 1 \in 1..(Len(file) + 1)
      BY <1>1
    <3>3. SubSeq(file, p, i - 1) \in Texts
      BY <3>2, PartIsText
    <3>4. Stream(i + 1, FALSE, FALSE) \in Streams
      BY <3>2, StreamTyped
    <3>. QED BY <2>1, <3>1, <3>3, <3>4
  <2>3. CASE Found(Stream(p, FALSE, FALSE), delimiter) =
                [text |-> SubSeq(file, p, Len(file)),
                 s |-> Stream(Len(file) + 1, TRUE, p > Len(file))]
    <3>1. Len(file) \in 0..Len(file) /\ p <= Len(file) + 1 /\ Len(file) + 1 \in 1..(Len(file) + 1)
      BY <1>1
    <3>2. SubSeq(file, p, Len(file)) \in Texts
      BY <3>1, PartIsText
    <3>3. (p > Len(file)) \in BOOLEAN
      OBVIOUS
    <3>4. Stream(Len(file) + 1, TRUE, p > Len(file)) \in Streams
      BY <3>1, <3>3, StreamTyped
    <3>. QED BY <2>1, <2>3, <3>2, <3>4
  <2>. QED BY <2>2, <2>3, FoundIs
<1>. QED BY <1>4, <1>5

LEMMA GetlineParts ==
    ASSUME file \in Texts, NEW s \in Streams, NEW old, NEW delimiter
    PROVE  /\ Getline(s, old, delimiter).text \in Texts \/ Getline(s, old, delimiter).text = old
           /\ Getline(s, old, delimiter).s \in Streams
<1>1. PICK text, t : /\ t \in Streams
                     /\ Getline(s, old, delimiter) = [text |-> text, s |-> t]
                     /\ text \in Texts \/ text = old
    BY GetlineTyped
<1>2. PICK g : g = Getline(s, old, delimiter)
    OBVIOUS
<1>3. g = [text |-> text, s |-> t]
    BY <1>1, <1>2, Zenon
<1>4. g.text = text /\ g.s = t
    BY <1>3
<1>5. g.text \in Texts \/ g.text = old
    BY <1>1, <1>4, Zenon
<1>6. g.s \in Streams
    BY <1>1, <1>4, Zenon
<1>. QED BY <1>2, <1>5, <1>6, Zenon

-----------------------------------------------------------------------------
\* What the variables of the constructor are.
TInv ==
    /\ file \in Texts
    /\ stream \in Streams
    /\ aux_str1 \in Texts
    /\ aux_str2 \in Seq(FileCharacters) /\ Len(aux_str2) <= MaxString
    /\ DOMAIN configmap \subseteq Texts
    /\ \A k \in DOMAIN configmap : Len(configmap[k]) \in 1..MaxString
    /\ reading \in {"reading", "read", "failed"}

LEMMA ReadLineTyped ==
    ASSUME TInv, ReadLine
    PROVE  TInv'
<1>1. PICK t1, s1 : /\ t1 = Getline(stream, aux_str1, "=").text
                    /\ s1 = Getline(stream, aux_str1, "=").s
                    /\ t1 \in Texts \/ t1 = aux_str1
                    /\ s1 \in Streams
    BY GetlineParts, Zenon DEF TInv
<1>2. PICK t2, s2 : /\ t2 = Getline(s1, aux_str2, "nl").text
                    /\ s2 = Getline(s1, aux_str2, "nl").s
                    /\ t2 \in Texts \/ t2 = aux_str2
                    /\ s2 \in Streams
    BY <1>1, GetlineParts, Zenon DEF TInv
<1>3. /\ aux_str1' = t1 /\ aux_str2' = Append(t2, "nl") /\ stream' = s2
      /\ configmap' = Emplace(t1, Append(t2, "nl"))
      /\ UNCHANGED <<file, reading>> /\ Len(aux_str2) < MaxString
  <2>1. aux_str1' = t1
    BY <1>1, Zenon DEF ReadLine, AsLine, Ended
  <2>2. s1 = Getline(stream, aux_str1, "=").s
    BY <1>1
  <2>3. stream' = s2
    BY <1>2, <2>2, Zenon DEF ReadLine, AsLine, Ended
  <2>4. aux_str2' = Append(t2, "nl")
    BY <1>2, <2>2, Zenon DEF ReadLine, AsLine, Ended
  <2>5. configmap' = Emplace(t1, Append(t2, "nl"))
    BY <1>1, <2>4, Zenon DEF ReadLine, AsLine, Ended
  <2>. QED BY <2>1, <2>3, <2>4, <2>5, Zenon DEF ReadLine, AsLine, Ended
<1>4. t1 \in Texts
    BY <1>1 DEF TInv
<1>5. t2 \in Seq(FileCharacters) /\ Len(t2) < MaxString
  <2>1. t2 \in Texts => t2 \in Seq(FileCharacters) /\ Len(t2) \in 0..MaxFile
    BY TextIs
  <2>. QED BY <1>2, <1>3, <2>1, BoundsAssumption DEF TInv
<1>6. /\ Append(t2, "nl") \in Seq(FileCharacters)
      /\ Len(Append(t2, "nl")) \in 1..MaxString
    BY <1>5, BoundsAssumption DEF FileCharacters
<1>7. /\ DOMAIN configmap' = DOMAIN configmap \cup {t1}
      /\ \A k \in DOMAIN configmap' : \/ k \in DOMAIN configmap /\ configmap'[k] = configmap[k]
                                      \/ configmap'[k] = Append(t2, "nl")
    BY <1>3 DEF Emplace
<1>8. Streams' = Streams
    BY <1>3 DEF Streams
<1>9. Len(aux_str2') <= MaxString
    BY <1>3, <1>6, BoundsAssumption
<1>10. file' \in Texts /\ stream' \in Streams' /\ aux_str1' \in Texts
    BY <1>2, <1>3, <1>4, <1>8, Zenon DEF TInv
<1>11. aux_str2' \in Seq(FileCharacters)
    BY <1>3, <1>6
<1>12. DOMAIN configmap' \subseteq Texts
    BY <1>4, <1>7 DEF TInv
<1>13. \A k \in DOMAIN configmap' : Len(configmap'[k]) \in 1..MaxString
    BY <1>6, <1>7 DEF TInv
<1>14. reading' \in {"reading", "read", "failed"}
    BY <1>3 DEF TInv
<1>. QED BY <1>9, <1>10, <1>11, <1>12, <1>13, <1>14 DEF TInv, Texts, FileCharacters

LEMMA ConfigTyped == ConfigSpec => []TInv
<1>1. ConfigInit => TInv
  <2>. SUFFICES ASSUME ConfigInit PROVE TInv
    OBVIOUS
  <2>1. Len(file) \in Nat /\ file \in Texts
    BY TextIs DEF ConfigInit
  <2>2. 1 \in 1..(Len(file) + 1)
    BY <2>1
  <2>3. stream \in Streams
    <3>1. PICK opened \in BOOLEAN : stream = Stream(1, FALSE, ~opened)
      BY DEF ConfigInit, Stream
    <3>2. (~opened) \in BOOLEAN
      OBVIOUS
    <3>. QED BY <2>2, <3>1, <3>2, StreamTyped
  <2>4. <<>> \in Texts /\ <<>> \in Seq(FileCharacters) /\ Len(<<>>) <= MaxString
    <3>1. <<>> \in Seq(FileCharacters) /\ Len(<<>>) = 0
      OBVIOUS
    <3>2. 0 \in 0..MaxFile /\ 0 <= MaxString
      BY BoundsAssumption
    <3>. QED BY <3>1, <3>2, TextIs
  <2>. QED BY <2>1, <2>3, <2>4 DEF ConfigInit, TInv
<1>2. TInv /\ [ConfigNext]_configVars => TInv'
  <2>. SUFFICES ASSUME TInv, [ConfigNext]_configVars PROVE TInv'
    OBVIOUS
  <2>1. CASE ReadLine
    BY <2>1, ReadLineTyped
  <2>2. CASE Finish \/ NoMemory \/ UNCHANGED configVars
    <3>1. /\ UNCHANGED <<file, stream, aux_str1, aux_str2, configmap>>
          /\ reading' \in {reading, "read", "failed"}
      BY <2>2 DEF Finish, Ended, NoMemory, configVars
    <3>2. Streams' = Streams
      BY <3>1 DEF Streams
    <3>. QED BY <3>1, <3>2 DEF TInv
  <2>. QED BY <2>1, <2>2 DEF ConfigNext
<1>. QED BY <1>1, <1>2, PTL DEF ConfigSpec

\* The constructor's variables keep their types, and no string outgrows the
\* memory, for any file (Config::Config).
THEOREM ConfigurationTyped == ConfigSpec => []ConfigTypeOK
<1>1. TInv => ConfigTypeOK
  <2>. SUFFICES ASSUME TInv PROVE ConfigTypeOK
    OBVIOUS
  <2>1. PICK p \in 1..(Len(file) + 1), end \in BOOLEAN, failed \in BOOLEAN :
            stream = Stream(p, end, failed)
    BY StreamIs DEF TInv
  <2>2. stream.pos = p /\ stream.eof = end /\ stream.fail = failed
    BY <2>1 DEF Stream
  <2>. QED BY <2>2 DEF TInv, ConfigTypeOK
<1>. QED BY <1>1, ConfigTyped, PTL

-----------------------------------------------------------------------------
\* What the configuration holds of the lines that start before place p.
First(i) == \A j \in Starts : KeyAt(j) = KeyAt(i) => i <= j

Has(m, i) == KeyAt(i) \in DOMAIN m /\ m[KeyAt(i)] = Append(MessageAt(i), "nl")

Loaded(m, p) == \A i \in Starts : i < p /\ First(i) => Has(m, i)

Keys(p) == {KeyAt(i) : i \in {j \in Starts : j < p}}

Whole == \A i \in Starts : Equals(i) # {}

Good(p) == p \in Starts \/ p = Len(file) + 1

\* Between two turns of the loop a stream that is good stands where a line
\* starts, or at the end, and the lines before are loaded.
FInv == Whole =>
    \/ reading = "failed"
    \/ stream.fail /\ ~stream.eof /\ reading = "reading"
    \/ /\ ~stream.fail /\ ~stream.eof /\ reading = "reading"
       /\ Good(stream.pos)
       /\ Loaded(configmap, stream.pos)
       /\ DOMAIN configmap \subseteq Keys(stream.pos)
    \/ /\ stream.eof
       /\ Loaded(configmap, Len(file) + 1)
       /\ DOMAIN configmap \subseteq Keys(Len(file) + 1) \cup {<<>>}

\* A line that has a "=": where its key ends, and where the line does.
LEMMA LineIs ==
    ASSUME file \in Texts, NEW p \in Starts, Equals(p) # {}
    PROVE  /\ p \in 1..Len(file)
           /\ LineEnd(p) \in p..(Len(file) + 1)
           /\ Min(Equals(p)) \in p..(LineEnd(p) - 1)
           /\ file[Min(Equals(p))] = "="
           /\ \A j \in p..(Min(Equals(p)) - 1) : file[j] # "="
           /\ \A j \in p..(LineEnd(p) - 1) : file[j] # "nl"
           /\ LineEnd(p) <= Len(file) => file[LineEnd(p)] = "nl"
<1>1. Len(file) \in Nat /\ p \in 1..Len(file)
    BY TextIs DEF Starts
<1>. DEFINE ends == {j \in p..Len(file) : file[j] = "nl"} \cup {Len(file) + 1}
<1>2. ends \subseteq Nat /\ ends # {}
    BY <1>1
<1>3. LineEnd(p) = Min(ends)
    BY Zenon DEF LineEnd
<1>4. LineEnd(p) \in ends /\ \A j \in ends : LineEnd(p) <= j
    BY <1>2, <1>3, MinIs
<1>5. LineEnd(p) \in p..(Len(file) + 1)
    BY <1>1, <1>4
<1>6. LineEnd(p) <= Len(file) => file[LineEnd(p)] = "nl"
    BY <1>1, <1>4
<1>7. ASSUME NEW j \in p..(LineEnd(p) - 1) PROVE file[j] # "nl"
    BY <1>1, <1>4, <1>5, <1>7
<1>8. Equals(p) \subseteq Nat
    BY <1>1, <1>5 DEF Equals
<1>9. Min(Equals(p)) \in Equals(p) /\ \A j \in Equals(p) : Min(Equals(p)) <= j
    BY <1>8, MinIs
<1>10. Min(Equals(p)) \in p..(LineEnd(p) - 1) /\ file[Min(Equals(p))] = "="
    BY <1>9 DEF Equals
<1>11. ASSUME NEW j \in p..(Min(Equals(p)) - 1) PROVE file[j] # "="
  <2>1. j \in p..(LineEnd(p) - 1) /\ ~(Min(Equals(p)) <= j)
    BY <1>1, <1>5, <1>10
  <2>. QED BY <1>9, <2>1 DEF Equals
<1>. QED BY <1>1, <1>5, <1>6, <1>7, <1>10, <1>11

\* The two getlines of a turn that starts where a line does.
LEMMA KeyRead ==
    ASSUME file \in Texts, NEW p \in Starts, Equals(p) # {}, NEW old
    PROVE  Getline(Stream(p, FALSE, FALSE), old, "=") =
               [text |-> KeyAt(p), s |-> Stream(Min(Equals(p)) + 1, FALSE, FALSE)]
<1>. DEFINE q == Min(Equals(p))
<1>1. /\ Len(file) \in Nat /\ p \in 1..Len(file)
      /\ LineEnd(p) \in p..(Len(file) + 1)
      /\ q \in p..(LineEnd(p) - 1) /\ file[q] = "="
      /\ \A j \in p..(q - 1) : file[j] # "="
    BY LineIs, TextIs
<1>2. KeyAt(p) = SubSeq(file, p, q - 1)
    BY DEF KeyAt
<1>. HIDE DEF q
<1>3. p \in 1..(Len(file) + 1) /\ p \in Nat /\ q \in p..Len(file)
    BY <1>1
<1>4. Getline(Stream(p, FALSE, FALSE), old, "=") = Found(Stream(p, FALSE, FALSE), "=")
    BY <1>3, GetlineFinds
<1>5. PICK i \in p..Len(file) :
          /\ file[i] = "=" /\ \A j \in p..(i - 1) : file[j] # "="
          /\ Found(Stream(p, FALSE, FALSE), "=") =
                 [text |-> SubSeq(file, p, i - 1), s |-> Stream(i + 1, FALSE, FALSE)]
    BY <1>1, <1>3, FoundIs
<1>6. i = q
  <2>1. ~(i < q)
    BY <1>1, <1>5
  <2>2. ~(q < i)
    BY <1>1, <1>3, <1>5
  <2>. QED BY <1>1, <2>1, <2>2
<1>. QED BY <1>2, <1>4, <1>5, <1>6 DEF q

LEMMA MessageRead ==
    ASSUME file \in Texts, NEW p \in Starts, Equals(p) # {}, NEW old
    PROVE  /\ Getline(Stream(Min(Equals(p)) + 1, FALSE, FALSE), old, "nl").text = MessageAt(p)
           /\ \/ /\ LineEnd(p) <= Len(file)
                 /\ Getline(Stream(Min(Equals(p)) + 1, FALSE, FALSE), old, "nl").s =
                        Stream(LineEnd(p) + 1, FALSE, FALSE)
              \/ /\ LineEnd(p) = Len(file) + 1
                 /\ Getline(Stream(Min(Equals(p)) + 1, FALSE, FALSE), old, "nl").s.eof
<1>. DEFINE q == Min(Equals(p))
            e == LineEnd(p)
<1>1. /\ Len(file) \in Nat /\ p \in 1..Len(file)
      /\ e \in p..(Len(file) + 1)
      /\ q \in p..(e - 1) /\ file[q] = "="
      /\ \A j \in p..(e - 1) : file[j] # "nl"
      /\ e <= Len(file) => file[e] = "nl"
    BY LineIs, TextIs
<1>2. MessageAt(p) = SubSeq(file, q + 1, e - 1)
    BY DEF MessageAt
<1>. HIDE DEF q, e
<1>3. q + 1 \in 1..(Len(file) + 1) /\ q + 1 \in Nat
    BY <1>1
<1>. DEFINE g == Getline(Stream(q + 1, FALSE, FALSE), old, "nl")
<1>4. g = Found(Stream(q + 1, FALSE, FALSE), "nl")
    BY <1>3, GetlineFinds
<1>5. CASE e <= Len(file)
  <2>1. e \in (q + 1)..Len(file) /\ file[e] = "nl"
    BY <1>1, <1>5
  <2>2. PICK i \in (q + 1)..Len(file) :
            /\ file[i] = "nl" /\ \A j \in (q + 1)..(i - 1) : file[j] # "nl"
            /\ Found(Stream(q + 1, FALSE, FALSE), "nl") =
                   [text |-> SubSeq(file, q + 1, i - 1), s |-> Stream(i + 1, FALSE, FALSE)]
    BY <1>3, <2>1, FoundIs
  <2>3. i = e
    <3>1. ~(i < e)
      BY <1>1, <2>2
    <3>2. ~(e < i)
      BY <1>1, <2>1, <2>2
    <3>. QED BY <1>1, <2>2, <3>1, <3>2
  <2>4. g = [text |-> SubSeq(file, q + 1, e - 1), s |-> Stream(e + 1, FALSE, FALSE)]
    BY <1>4, <2>2, <2>3, Zenon
  <2>. HIDE DEF g
  <2>5. g.text = SubSeq(file, q + 1, e - 1) /\ g.s = Stream(e + 1, FALSE, FALSE)
    BY <2>4
  <2>. QED BY <1>2, <1>5, <2>5 DEF g, q, e
<1>6. CASE e = Len(file) + 1
  <2>1. \A j \in (q + 1)..Len(file) : file[j] # "nl"
    BY <1>1, <1>6
  <2>2. Found(Stream(q + 1, FALSE, FALSE), "nl") =
            [text |-> SubSeq(file, q + 1, Len(file)),
             s |-> Stream(Len(file) + 1, TRUE, q + 1 > Len(file))]
    BY <1>3, <2>1, FoundIs
  <2>3. Len(file) = e - 1
    BY <1>1, <1>6
  <2>4. g = [text |-> SubSeq(file, q + 1, Len(file)),
             s |-> Stream(Len(file) + 1, TRUE, q + 1 > Len(file))]
    BY <1>4, <2>2, Zenon
  <2>. HIDE DEF g
  <2>5. g.text = SubSeq(file, q + 1, Len(file))
    BY <2>4
  <2>6. g.s.eof
    BY <2>4 DEF Stream
  <2>. QED BY <1>2, <1>6, <2>3, <2>5, <2>6 DEF g, q, e
<1>7. e <= Len(file) \/ e = Len(file) + 1
    BY <1>1
<1>. QED BY <1>5, <1>6, <1>7, Zenon

\* What a turn makes of the configuration that the lines before left.
LEMMA LoadsLine ==
    ASSUME file \in Texts, NEW p \in Starts, Equals(p) # {}, NEW m, NEW w,
           Loaded(m, p), DOMAIN m \subseteq Keys(p),
           w = [k \in DOMAIN m \cup {KeyAt(p)} |->
                   IF k \in DOMAIN m THEN m[k] ELSE Append(MessageAt(p), "nl")]
    PROVE  Loaded(w, LineEnd(p) + 1) /\ DOMAIN w \subseteq Keys(LineEnd(p) + 1)
<1>1. /\ Len(file) \in Nat /\ p \in 1..Len(file) /\ LineEnd(p) \in p..(Len(file) + 1)
      /\ \A j \in p..(LineEnd(p) - 1) : file[j] # "nl"
    BY LineIs, TextIs
<1>2. ASSUME NEW i \in Starts, i < LineEnd(p) + 1, i # p PROVE i < p
  <2>1. i \in 1..Len(file) /\ (i = 1 \/ file[i - 1] = "nl")
    BY DEF Starts
  <2>2. ~(i - 1 \in p..(LineEnd(p) - 1))
    <3>1. CASE i = 1
      BY <1>1, <3>1
    <3>2. CASE i # 1
      BY <1>1, <2>1, <3>2
    <3>. QED BY <3>1, <3>2
  <2>. QED BY <1>1, <1>2, <2>1, <2>2
<1>3. ASSUME NEW i \in Starts, i < LineEnd(p) + 1, First(i) PROVE Has(w, i)
  <2>1. CASE i = p
    <3>1. KeyAt(p) \notin DOMAIN m
      <4>1. SUFFICES ASSUME KeyAt(p) \in DOMAIN m PROVE FALSE
        OBVIOUS
      <4>2. PICK j \in Starts : j < p /\ KeyAt(j) = KeyAt(p)
        BY <4>1 DEF Keys
      <4>3. p <= j
        BY <1>3, <2>1, <4>2 DEF First
      <4>4. j \in Nat
        BY <1>1 DEF Starts
      <4>. QED BY <1>1, <4>2, <4>3, <4>4
    <3>2. KeyAt(p) \in DOMAIN w /\ w[KeyAt(p)] = Append(MessageAt(p), "nl")
      BY <3>1
    <3>. QED BY <2>1, <3>2 DEF Has
  <2>2. CASE i # p
    <3>1. i < p
      BY <1>2, <1>3, <2>2
    <3>2. Has(m, i)
      BY <1>3, <3>1 DEF Loaded
    <3>. QED BY <3>2 DEF Has
  <2>. QED BY <2>1, <2>2
<1>4. ASSUME NEW k \in DOMAIN w PROVE k \in Keys(LineEnd(p) + 1)
  <2>1. CASE k = KeyAt(p)
    <3>1. p < LineEnd(p) + 1
      BY <1>1
    <3>. QED BY <2>1, <3>1 DEF Keys
  <2>2. CASE k \in DOMAIN m
    <3>1. PICK j \in Starts : j < p /\ k = KeyAt(j)
      BY <2>2 DEF Keys
    <3>2. j \in Nat
      BY <1>1 DEF Starts
    <3>3. j < LineEnd(p) + 1
      BY <1>1, <3>1, <3>2
    <3>. QED BY <3>1, <3>3 DEF Keys
  <2>. QED BY <2>1, <2>2
<1>. QED BY <1>3, <1>4 DEF Loaded

\* What the places of the file are does not change.
LEMMA SameFile ==
    ASSUME file' = file
    PROVE  /\ Starts' = Starts
           /\ \A i : Equals(i)' = Equals(i) /\ KeyAt(i)' = KeyAt(i) /\ MessageAt(i)' = MessageAt(i)
<1>1. Starts' = Starts
    BY DEF Starts
<1>2. ASSUME NEW i PROVE Equals(i)' = Equals(i)
    BY DEF Equals, LineEnd
<1>3. ASSUME NEW i PROVE KeyAt(i)' = KeyAt(i)
    BY <1>2, Zenon DEF KeyAt, Equals, LineEnd
<1>4. ASSUME NEW i PROVE MessageAt(i)' = MessageAt(i)
    BY <1>2, Zenon DEF MessageAt, Equals, LineEnd
<1>. QED BY <1>1, <1>2, <1>3, <1>4

LEMMA SamePlaces ==
    ASSUME file' = file
    PROVE  /\ Whole' = Whole
           /\ \A p : Good(p)' = Good(p) /\ Keys(p)' = Keys(p)
           /\ \A i : First(i)' = First(i)
<1>1. Starts' = Starts
    BY SameFile
<1>2. \A i : Equals(i)' = Equals(i) /\ KeyAt(i)' = KeyAt(i) /\ MessageAt(i)' = MessageAt(i)
    BY SameFile
<1>3. Whole' = Whole
    BY <1>1, <1>2 DEF Whole
<1>4. ASSUME NEW p PROVE Good(p)' = Good(p) /\ Keys(p)' = Keys(p)
    BY <1>1, <1>2 DEF Good, Keys
<1>5. ASSUME NEW i PROVE First(i)' = First(i)
    BY <1>1, <1>2 DEF First
<1>. QED BY <1>3, <1>4, <1>5

\* What the two getlines of a turn leave.
LEMMA TurnIs ==
    ASSUME TInv, ReadLine
    PROVE  \E t1, s1, g2 :
               /\ [text |-> t1, s |-> s1] = Getline(stream, aux_str1, "=")
               /\ g2 = Getline(s1, aux_str2, "nl")
               /\ stream' = g2.s
               /\ configmap' = [k \in DOMAIN configmap \cup {t1} |->
                       IF k \in DOMAIN configmap THEN configmap[k] ELSE Append(g2.text, "nl")]
<1>1. PICK t1, s1 : Getline(stream, aux_str1, "=") = [text |-> t1, s |-> s1]
  <2>1. file \in Texts /\ stream \in Streams
    BY DEF TInv
  <2>. QED BY <2>1, GetlineTyped
<1>2. PICK g : g = Getline(stream, aux_str1, "=")
    OBVIOUS
<1>3. g.text = t1 /\ g.s = s1
    BY <1>1, <1>2
<1>4. PICK g2 : g2 = Getline(s1, aux_str2, "nl")
    OBVIOUS
<1>5. stream' = g2.s
    BY <1>2, <1>3, <1>4, Zenon DEF ReadLine, AsLine, Ended
<1>6. aux_str2' = Append(g2.text, "nl")
    BY <1>2, <1>3, <1>4, Zenon DEF ReadLine, AsLine, Ended
<1>7. configmap' = Emplace(t1, Append(g2.text, "nl"))
    BY <1>2, <1>3, <1>6, Zenon DEF ReadLine, AsLine, Ended
<1>. QED BY <1>1, <1>4, <1>5, <1>7, Zenon DEF Emplace

LEMMA ReadLineLoads ==
    ASSUME TInv, FInv, ReadLine
    PROVE  FInv'
<1>1. file' = file /\ reading = "reading" /\ reading' = "reading" /\ ~stream.eof
    BY Zenon DEF ReadLine, AsLine, Ended
<1>2. PICK t1, s1, g2 :
          /\ [text |-> t1, s |-> s1] = Getline(stream, aux_str1, "=")
          /\ g2 = Getline(s1, aux_str2, "nl")
          /\ stream' = g2.s
          /\ configmap' = [k \in DOMAIN configmap \cup {t1} |->
                  IF k \in DOMAIN configmap THEN configmap[k] ELSE Append(g2.text, "nl")]
    BY TurnIs
<1>3. PICK m, w : m = configmap /\ w = configmap'
    OBVIOUS
<1>4. /\ Whole' = Whole /\ Len(file)' = Len(file)
      /\ \A p : Good(p)' = Good(p) /\ Keys(p)' = Keys(p)
      /\ \A p : Loaded(configmap, p)' = Loaded(w, p)
  <2>1. Whole' = Whole /\ \A p : Good(p)' = Good(p) /\ Keys(p)' = Keys(p)
    BY <1>1, SamePlaces
  <2>2. ASSUME NEW p PROVE Loaded(configmap, p)' = Loaded(w, p)
    <3>1. Starts' = Starts /\ \A i : KeyAt(i)' = KeyAt(i) /\ MessageAt(i)' = MessageAt(i)
      BY <1>1, SameFile
    <3>2. \A i : First(i)' = First(i)
      BY <1>1, SamePlaces
    <3>. QED BY <1>3, <3>1, <3>2 DEF Loaded, Has
  <2>. QED BY <1>1, <2>1, <2>2
<1>. SUFFICES ASSUME Whole PROVE FInv'
    BY <1>4 DEF FInv
<1>5. Len(file) \in Nat
    BY TextIs DEF TInv
<1>6. CASE stream.fail
  <2>1. [text |-> t1, s |-> s1] = [text |-> aux_str1, s |-> [stream EXCEPT !.fail = TRUE]]
    BY <1>2, <1>6, Zenon DEF Getline
  <2>2. s1 = [stream EXCEPT !.fail = TRUE]
    BY <2>1
  <2>3. s1.fail /\ ~s1.eof
    BY <1>1, <2>2 DEF TInv, Streams
  <2>4. g2 = [text |-> aux_str2, s |-> [s1 EXCEPT !.fail = TRUE]]
    BY <1>2, <2>3, Zenon DEF Getline
  <2>5. g2.s.fail /\ ~g2.s.eof
    BY <2>2, <2>3, <2>4 DEF TInv, Streams
  <2>. QED BY <1>1, <1>2, <2>5 DEF FInv
<1>7. CASE ~stream.fail
  <2>1. PICK p : p = stream.pos
    OBVIOUS
  <2>2. Good(p) /\ Loaded(m, p) /\ DOMAIN m \subseteq Keys(p)
    BY <1>1, <1>3, <1>7, <2>1 DEF FInv
  <2>3. stream = Stream(p, FALSE, FALSE)
    BY <1>1, <1>7, <2>1 DEF TInv, Streams, Stream
  <2>4. CASE p \in Starts
    <3>1. Equals(p) # {} /\ file \in Texts
      BY <2>4 DEF Whole, TInv
    <3>2. t1 = KeyAt(p) /\ s1 = Stream(Min(Equals(p)) + 1, FALSE, FALSE)
      <4>1. [text |-> t1, s |-> s1] =
                [text |-> KeyAt(p), s |-> Stream(Min(Equals(p)) + 1, FALSE, FALSE)]
        BY <1>2, <2>3, <2>4, <3>1, KeyRead, Zenon
      <4>. QED BY <4>1
    <3>3. /\ g2.text = MessageAt(p)
          /\ \/ LineEnd(p) <= Len(file) /\ g2.s = Stream(LineEnd(p) + 1, FALSE, FALSE)
             \/ LineEnd(p) = Len(file) + 1 /\ g2.s.eof
      BY <1>2, <2>4, <3>1, <3>2, MessageRead, Zenon
    <3>4. w = [k \in DOMAIN m \cup {KeyAt(p)} |->
                   IF k \in DOMAIN m THEN m[k] ELSE Append(MessageAt(p), "nl")]
      BY <1>2, <1>3, <3>2, <3>3, Zenon
    <3>5. Loaded(w, LineEnd(p) + 1) /\ DOMAIN w \subseteq Keys(LineEnd(p) + 1)
      BY <2>2, <2>4, <3>1, <3>4, LoadsLine
    <3>6. LineEnd(p) \in 1..(Len(file) + 1) /\ (LineEnd(p) <= Len(file) => file[LineEnd(p)] = "nl")
      BY <1>5, <2>4, <3>1, LineIs
    <3>7. CASE LineEnd(p) <= Len(file) /\ g2.s = Stream(LineEnd(p) + 1, FALSE, FALSE)
      <4>1. Good(LineEnd(p) + 1)
        BY <1>5, <3>6, <3>7 DEF Good, Starts
      <4>2. PICK x : x = LineEnd(p) + 1
        OBVIOUS
      <4>3. stream'.pos = x /\ ~stream'.eof /\ ~stream'.fail
        BY <1>2, <3>7, <4>2 DEF Stream
      <4>4. Good(x)' /\ Loaded(configmap, x)' /\ DOMAIN configmap' \subseteq Keys(x)'
        BY <1>3, <1>4, <3>5, <4>1, <4>2
      <4>. QED BY <1>1, <4>3, <4>4 DEF FInv
    <3>8. CASE LineEnd(p) = Len(file) + 1 /\ g2.s.eof
      <4>1. PICK x : x = Len(file) + 1
        OBVIOUS
      <4>2. \A i \in Starts : i < x /\ i < LineEnd(p) + 1
        BY <1>5, <3>8, <4>1 DEF Starts
      <4>3. Loaded(w, x)
        BY <3>5, <4>2 DEF Loaded
      <4>4. DOMAIN w \subseteq Keys(x)
        BY <3>5, <4>2 DEF Keys
      <4>5. Loaded(configmap, x)' /\ DOMAIN configmap' \subseteq Keys(x)'
        BY <1>3, <1>4, <4>3, <4>4
      <4>6. stream'.eof /\ x = Len(file') + 1
        BY <1>1, <1>2, <3>8, <4>1
      <4>. QED BY <4>5, <4>6 DEF FInv
    <3>. QED BY <3>3, <3>7, <3>8
  <2>5. CASE p = Len(file) + 1
    <3>1. p \in 1..(Len(file) + 1) /\ p \in Nat /\ file \in Texts
      BY <1>5, <2>5 DEF TInv
    <3>2. Getline(stream, aux_str1, "=") =
              [text |-> SubSeq(file, p, Len(file)), s |-> Stream(Len(file) + 1, TRUE, p > Len(file))]
      <4>1. Getline(stream, aux_str1, "=") = Found(Stream(p, FALSE, FALSE), "=")
        BY <2>3, <3>1, GetlineFinds
      <4>2. p..Len(file) = {}
        BY <1>5, <2>5
      <4>3. Found(Stream(p, FALSE, FALSE), "=") =
                [text |-> SubSeq(file, p, Len(file)), s |-> Stream(Len(file) + 1, TRUE, p > Len(file))]
        BY <3>1, <4>2, FoundIs
      <4>. QED BY <4>1, <4>3, Zenon
    <3>3. [text |-> t1, s |-> s1] =
              [text |-> SubSeq(file, p, Len(file)), s |-> Stream(Len(file) + 1, TRUE, p > Len(file))]
      BY <1>2, <3>2, Zenon
    <3>4. t1 = SubSeq(file, p, Len(file)) /\ s1 = Stream(Len(file) + 1, TRUE, p > Len(file))
      BY <3>3
    <3>5. t1 = <<>>
      <4>1. Len(file) \in 0..Len(file) /\ p <= Len(file) + 1 /\ file \in Seq(FileCharacters)
        BY <1>5, <2>5, <3>1, TextIs
      <4>2. t1 \in Seq(FileCharacters) /\ Len(t1) = Len(file) - p + 1
        BY <3>1, <3>4, <4>1, PartOf
      <4>3. Len(t1) = 0
        BY <1>5, <2>5, <4>2
      <4>. QED BY <4>2, <4>3
    <3>6. s1.eof /\ s1 \in [pos : Nat, eof : BOOLEAN, fail : BOOLEAN]
      BY <1>5, <3>4 DEF Stream
    <3>7. g2 = [text |-> aux_str2, s |-> [s1 EXCEPT !.fail = TRUE]]
      BY <1>2, <3>6, Zenon DEF Getline
    <3>8. g2.s.eof
      BY <3>6, <3>7
    <3>9. DOMAIN w = DOMAIN m \cup {<<>>} /\ \A k \in DOMAIN m : w[k] = m[k]
      BY <1>2, <1>3, <3>5
    <3>10. Loaded(w, p)
      BY <2>2, <3>9 DEF Loaded, Has
    <3>11. DOMAIN w \subseteq Keys(p) \cup {<<>>}
      BY <2>2, <3>9
    <3>12. Loaded(configmap, p)' /\ DOMAIN configmap' \subseteq Keys(p)' \cup {<<>>}
      BY <1>3, <1>4, <3>10, <3>11
    <3>13. stream'.eof /\ p = Len(file') + 1
      BY <1>1, <1>2, <2>5, <3>8
    <3>. QED BY <3>12, <3>13 DEF FInv
  <2>. QED BY <2>2, <2>4, <2>5 DEF Good
<1>. QED BY <1>6, <1>7

\* If every line of the file has a "=", the server finds each message under its
\* key, as one line, and nothing else but under the empty key (Config::Config).
THEOREM ConfigurationFaithful == ConfigSpec => []ConfigFaithful
<1>1. ConfigInit => FInv
  <2>. SUFFICES ASSUME ConfigInit, Whole PROVE FInv
    BY DEF FInv
  <2>1. Len(file) \in Nat
    BY TextIs DEF ConfigInit
  <2>2. stream.pos = 1 /\ ~stream.eof /\ reading = "reading" /\ DOMAIN configmap = {}
    BY DEF ConfigInit
  <2>3. Good(1)
    BY <2>1 DEF Good, Starts
  <2>4. \A i \in Starts : ~(i < 1)
    BY <2>1 DEF Starts
  <2>5. Loaded(configmap, 1)
    BY <2>4 DEF Loaded
  <2>. QED BY <2>2, <2>3, <2>5 DEF FInv
<1>2. TInv /\ FInv /\ [ConfigNext]_configVars => FInv'
  <2>. SUFFICES ASSUME TInv, FInv, [ConfigNext]_configVars PROVE FInv'
    OBVIOUS
  <2>1. CASE ReadLine
    BY <2>1, ReadLineLoads
  <2>2. CASE Finish \/ NoMemory \/ UNCHANGED configVars
    <3>1. /\ file' = file /\ stream' = stream /\ configmap' = configmap
          /\ \/ reading' = reading
             \/ reading' = "read" /\ stream.eof
             \/ reading' = "failed"
      BY <2>2 DEF Finish, Ended, NoMemory, configVars
    <3>2. Whole' = Whole /\ \A p : Good(p)' = Good(p) /\ Keys(p)' = Keys(p)
      BY <3>1, SamePlaces
    <3>3. PICK m : m = configmap
      OBVIOUS
    <3>4. ASSUME NEW p PROVE Loaded(configmap, p)' = Loaded(configmap, p)
      <4>1. Starts' = Starts /\ \A i : KeyAt(i)' = KeyAt(i) /\ MessageAt(i)' = MessageAt(i)
        BY <3>1, SameFile
      <4>2. \A i : First(i)' = First(i)
        BY <3>1, SamePlaces
      <4>. QED BY <3>1, <4>1, <4>2 DEF Loaded, Has
    <3>5. PICK p, n : p = stream.pos /\ n = Len(file) + 1
      OBVIOUS
    <3>6. p = stream'.pos /\ n = Len(file') + 1
      BY <3>1, <3>5
    <3>7. /\ Loaded(configmap, p)' = Loaded(configmap, p)
          /\ Loaded(configmap, n)' = Loaded(configmap, n)
          /\ Keys(p)' = Keys(p) /\ Keys(n)' = Keys(n) /\ Good(p)' = Good(p)
      BY <3>2, <3>4
    <3>. SUFFICES ASSUME Whole PROVE FInv'
      BY <3>2 DEF FInv
    <3>8. CASE reading = "failed"
      BY <2>2, <3>8 DEF FInv, Finish, Ended, NoMemory, configVars
    <3>9. CASE stream.fail /\ ~stream.eof /\ reading = "reading"
      BY <3>1, <3>9 DEF FInv
    <3>10. CASE /\ ~stream.fail /\ ~stream.eof /\ reading = "reading"
                /\ Good(p) /\ Loaded(configmap, p) /\ DOMAIN configmap \subseteq Keys(p)
      <4>1. Good(p)' /\ Loaded(configmap, p)' /\ DOMAIN configmap' \subseteq Keys(p)'
        BY <3>1, <3>7, <3>10
      <4>2. ~stream'.fail /\ ~stream'.eof /\ reading' \in {"reading", "failed"}
        BY <3>1, <3>10
      <4>. QED BY <3>6, <4>1, <4>2 DEF FInv
    <3>11. CASE /\ stream.eof
                /\ Loaded(configmap, n) /\ DOMAIN configmap \subseteq Keys(n) \cup {<<>>}
      <4>1. Loaded(configmap, n)' /\ DOMAIN configmap' \subseteq Keys(n)' \cup {<<>>}
        BY <3>1, <3>7, <3>11
      <4>2. stream'.eof
        BY <3>1, <3>11
      <4>. QED BY <3>6, <4>1, <4>2 DEF FInv
    <3>. QED BY <3>5, <3>8, <3>9, <3>10, <3>11 DEF FInv
  <2>. QED BY <2>1, <2>2 DEF ConfigNext
<1>3. TInv /\ FInv => ConfigFaithful
  <2>. SUFFICES ASSUME TInv, FInv, reading = "read", Whole PROVE ConfigFaithful
    BY DEF ConfigFaithful, Whole
  <2>1. Loaded(configmap, Len(file) + 1) /\ DOMAIN configmap \subseteq Keys(Len(file) + 1) \cup {<<>>}
    BY DEF FInv
  <2>2. \A i \in Starts : i < Len(file) + 1
    <3>1. Len(file) \in Nat
      BY TextIs DEF TInv
    <3>. QED BY <3>1 DEF Starts
  <2>3. ASSUME NEW i \in Starts, \A j \in Starts : KeyAt(j) = KeyAt(i) => i <= j
        PROVE  KeyAt(i) \in DOMAIN configmap /\ configmap[KeyAt(i)] = Append(MessageAt(i), "nl")
    BY <2>1, <2>2, <2>3 DEF Loaded, First, Has
  <2>4. Keys(Len(file) + 1) \subseteq {KeyAt(i) : i \in Starts}
    BY DEF Keys
  <2>. QED BY <2>1, <2>3, <2>4 DEF ConfigFaithful
<1>. QED BY <1>1, <1>2, <1>3, ConfigTyped, PTL DEF ConfigSpec
=============================================================================
