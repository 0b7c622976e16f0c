------------------------------ MODULE MCTexts ------------------------------
(***************************************************************************)
(* The texts that the server reads: its configuration, every file of up to *)
(* seven characters, and then requests, every line of up to eight bytes.   *)
(* Nothing of the one reaches the other, so requests follow one file only. *)
(* Keywords have three letters or four, as those of the program have.      *)
(***************************************************************************)
EXTENDS Config, RequestLine

MCLetters == {"a", "b"}
MCKeywords == {<<"a", "a", "a">>, <<"a", "a", "a", "b">>}

Init == ConfigInit /\ RequestInit

Next ==
    \/ ConfigNext /\ UNCHANGED requestVars
    \/ reading = "read" /\ file = <<>> /\ RequestNext /\ UNCHANGED configVars

Spec == Init /\ [][Next]_<<configVars, requestVars>> /\ WF_configVars(ReadLine \/ Finish)
=============================================================================
