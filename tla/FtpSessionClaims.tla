-------------------------- MODULE FtpSessionClaims --------------------------
(***************************************************************************)
(* What a comment of the commands says of them, and the code does not do. *)
(* It is refuted by a run of its own.                                      *)
(***************************************************************************)
EXTENDS MCFtpSession

\* "Creates a directory if it's not present and sends a response to the client
\* if the operation has been successful or not" (MkdCommand::send_response), as
\* long as the server does not end the session.
MkdAnswered ==
    \A s \in Sessions :
        Serves(s, "MKD") /\ client[s] = "response" ~> client[s] = "input" \/ handler[s] = "gone"
=============================================================================
