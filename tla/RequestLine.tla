----------------------------- MODULE RequestLine -----------------------------
(***************************************************************************)
(* How the server reads a request: receive_string collects the bytes of a  *)
(* line, respond_client ends the session at an empty one, create_command   *)
(* parts the others into a command and its argument, and identify_command  *)
(* compares the command with the keywords.                                 *)
(***************************************************************************)
EXTENDS Naturals, Sequences, FiniteSets, SequencesExt

CONSTANTS Bytes,      \* bytes besides "sp" and "nl"
          Keywords,   \* CMD_USER ... CMD_QUIT, as sequences of bytes
          MaxLine     \* bound: length of a line

ASSUME BytesAssumption == "sp" \notin Bytes /\ "nl" \notin Bytes
\* Those of Command.h have three letters or four.
ASSUME KeywordsAssumption == Keywords \subseteq Seq(Bytes) /\ \A k \in Keywords : Len(k) \in {3, 4}
ASSUME MaxLineAssumption == MaxLine \in Nat \ {0}

VARIABLES line,      \* client_query
          request    \* what the line was taken for; <<"none">> until it is complete

requestVars == <<line, request>>

RequestInit == line = <<>> /\ request = <<"none">>

\* while (aux != RECEIVED_STRING_DELIMITER).
Complete == line # <<>> /\ Last(line) = "nl"

\* receive_string, one byte.
ReceiveByte ==
    /\ ~Complete /\ Len(line) < MaxLine
    /\ \E b \in Bytes \cup {"sp", "nl"} : line' = Append(line, b)
    /\ UNCHANGED request

Space == SelectInSeq(line, LAMBDA b : b = "sp")

\* Mutant of Identify: a keyword is recognised by how it begins.
IdentifyPrefix(cmd, argument) ==
    IF \E k \in Keywords : IsPrefix(k, cmd) THEN <<"command", cmd, argument>> ELSE <<"invalid">>

Identify(cmd, argument) ==
    IF cmd \in Keywords THEN <<"command", cmd, argument>> ELSE <<"invalid">>

\* Mutant of CreateCommand: a line of five characters is searched too.
CreateCommandFive ==
    IF Len(line) > 4
    THEN Identify(SubSeq(line, 1, Space - 1), SubSeq(line, Space + 1, Len(line)))
    ELSE Identify(Front(line), <<>>)

\* Without a space find() is npos, npos + 1 is 0 and 0 - 1 is npos again: the
\* whole line, newline included, is the command, and no keyword.
CreateCommand ==
    IF Len(line) > 5
    THEN Identify(IF Space = 0 THEN line ELSE SubSeq(line, 1, Space - 1),
                  SubSeq(line, Space + 1, Len(line)))
    ELSE Identify(Front(line), <<>>)

\* respond_client and respond_query with a complete line.
TakeRequest ==
    /\ Complete /\ request = <<"none">>
    /\ request' = IF Len(line) > 1 THEN CreateCommand ELSE <<"end">>
    /\ UNCHANGED line

\* The response was sent and the loop goes on.
NextLine == Head(request) \in {"command", "invalid"} /\ line' = <<>> /\ request' = <<"none">>

RequestNext == ReceiveByte \/ TakeRequest \/ NextLine

RequestSpec == RequestInit /\ [][RequestNext]_requestVars

-----------------------------------------------------------------------------
\* The first word of the line; what follows the space after it.
Word == SubSeq(line, 1, IF Space = 0 THEN Len(line) - 1 ELSE Space - 1)
Argument == IF Space = 0 THEN <<>> ELSE SubSeq(line, Space + 1, Len(line))

\* A line is taken for the keyword that is its first word and the rest of it,
\* the newline kept, and for an invalid command if that word is no keyword;
\* the tests of lengths change nothing but that a keyword of three letters
\* which is followed by a space and nothing else is not recognised.
RequestRead ==
    request # <<"none">> =>
        request = IF line = <<"nl">> THEN <<"end">>
                  ELSE IF Word \in Keywords /\ ~(Argument = <<"nl">> /\ Len(Word) = 3)
                  THEN <<"command", Word, Argument>>
                  ELSE <<"invalid">>
=============================================================================
