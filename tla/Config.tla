------------------------------- MODULE Config -------------------------------
(***************************************************************************)
(* The configuration of the FTP server: the constructor of Config reads    *)
(* "key=message" lines with two getlines per turn of its loop, until the   *)
(* stream is at its end.  A text is a sequence of characters, "=" and "nl" *)
(* among them; the others are only themselves.                             *)
(***************************************************************************)
EXTENDS Naturals, Sequences, FiniteSets, SequencesExt

CONSTANTS Letters,    \* characters besides "=" and "nl"
          MaxFile,    \* bound: length of the file
          MaxString   \* bound: length that a string can grow to

ASSUME LettersAssumption == "=" \notin Letters /\ "nl" \notin Letters
ASSUME BoundsAssumption == MaxFile \in Nat /\ MaxString \in Nat /\ MaxString > MaxFile + 1

VARIABLES
    file,        \* contents of config_file
    stream,      \* Config::configstream: position and state bits
    aux_str1,    \* the key read last
    aux_str2,    \* the message read last
    configmap,   \* Config::configmap
    reading      \* the constructor: reading, read, or ended by an exception

configVars == <<file, stream, aux_str1, aux_str2, configmap, reading>>

Texts == BoundedSeq(Letters \cup {"=", "nl"}, MaxFile)

\* A file that cannot be opened sets the fail bit and not the eof bit.
ConfigInit ==
    /\ file \in Texts
    /\ \E opened \in BOOLEAN : stream = [pos |-> 1, eof |-> FALSE, fail |-> ~opened]
    /\ aux_str1 = <<>> /\ aux_str2 = <<>>
    /\ configmap = [k \in {} |-> <<>>]
    /\ reading = "reading"

\* The characters up to the delimiter, which is taken and not kept; the end of
\* the file sets the eof bit, and the fail bit if no character came before it.
Found(s, delimiter) ==
    LET at == {i \in s.pos..Len(file) : file[i] = delimiter}
    IN  IF at # {}
        THEN [text |-> SubSeq(file, s.pos, Min(at) - 1), s |-> [s EXCEPT !.pos = Min(at) + 1]]
        ELSE [text |-> SubSeq(file, s.pos, Len(file)),
              s |-> [pos |-> Len(file) + 1, eof |-> TRUE, fail |-> s.pos > Len(file)]]

\* std::getline: a stream that is not good leaves the string as it was.
Getline(s, old, delimiter) ==
    IF s.eof \/ s.fail THEN [text |-> old, s |-> [s EXCEPT !.fail = TRUE]]
                       ELSE Found(s, delimiter)

\* Mutant of Emplace: a later message replaces an earlier one.
EmplaceLast(key, message) ==
    [k \in DOMAIN configmap \cup {key} |-> IF k = key THEN message ELSE configmap[k]]

\* configmap.emplace: a key that is there keeps its message.
Emplace(key, message) ==
    [k \in DOMAIN configmap \cup {key} |->
        IF k \in DOMAIN configmap THEN configmap[k] ELSE message]

\* Mutant of AsLine: the newline that getline took away is not put back.
AsLineBare(text) == text

\* aux_str2.push_back('\n').
AsLine(text) == Append(text, "nl")

\* Mutant of Ended: the loop waits for an empty line.
EndedByEmptyLine == aux_str2 = <<"nl">>

\* configstream.eof(), the test of the loop.
Ended == stream.eof

\* One turn of the loop.
ReadLine ==
    LET key == Getline(stream, aux_str1, "=")
        message == Getline(key.s, aux_str2, "nl")
    IN  /\ reading = "reading" /\ ~Ended
        /\ Len(aux_str2) < MaxString
        /\ aux_str1' = key.text
        /\ aux_str2' = AsLine(message.text)
        /\ stream' = message.s
        /\ configmap' = Emplace(key.text, aux_str2')
        /\ UNCHANGED <<file, reading>>

\* while (!configstream.eof()).
Finish ==
    /\ reading = "reading" /\ Ended
    /\ reading' = "read"
    /\ UNCHANGED <<file, stream, aux_str1, aux_str2, configmap>>

\* There is no memory for the string: an exception that main catches.
NoMemory ==
    /\ reading = "reading"
    /\ Len(aux_str2) = MaxString
    /\ reading' = "failed"
    /\ UNCHANGED <<file, stream, aux_str1, aux_str2, configmap>>

ConfigNext == ReadLine \/ Finish \/ NoMemory

ConfigSpec == ConfigInit /\ [][ConfigNext]_configVars

-----------------------------------------------------------------------------
ConfigTypeOK ==
    /\ stream.pos \in 1..(Len(file) + 1)
    /\ stream.eof \in BOOLEAN /\ stream.fail \in BOOLEAN
    /\ DOMAIN configmap \subseteq Texts
    /\ \A k \in DOMAIN configmap : Len(configmap[k]) \in 1..MaxString
    /\ reading \in {"reading", "read", "failed"}

\* The places where lines of the file start, and where they end.
Starts == {i \in 1..Len(file) : i = 1 \/ file[i - 1] = "nl"}
LineEnd(i) == Min({j \in i..Len(file) : file[j] = "nl"} \cup {Len(file) + 1})
Equals(i) == {j \in i..LineEnd(i) - 1 : file[j] = "="}
KeyAt(i) == SubSeq(file, i, Min(Equals(i)) - 1)
MessageAt(i) == SubSeq(file, Min(Equals(i)) + 1, LineEnd(i) - 1)

\* If every line has a "=", a message is found under the key of the first line
\* that has it, as one line; there are no other keys but the empty one, which
\* the end of the file leaves behind (Config::Config, Config::get_message).
\* This is what makes each response of the server a line.
ConfigFaithful ==
    reading = "read" /\ (\A i \in Starts : Equals(i) # {}) =>
        /\ \A i \in Starts :
              (\A j \in Starts : KeyAt(j) = KeyAt(i) => i <= j) =>
                  /\ KeyAt(i) \in DOMAIN configmap
                  /\ configmap[KeyAt(i)] = Append(MessageAt(i), "nl")
        /\ DOMAIN configmap \subseteq {KeyAt(i) : i \in Starts} \cup {<<>>}

\* The constructor ends for every file that could be opened.
ConfigEnds == (reading = "reading" /\ ~stream.fail) ~> reading = "read"
=============================================================================
