--------------------------- MODULE FtpServerClaims ---------------------------
(***************************************************************************)
(* What the comments of the server say of it, and the code does not do.    *)
(* Each of these is refuted by a run of its own.                           *)
(***************************************************************************)
EXTENDS FtpServer, FiniteSets

\* "If server's quit command has been received, closes all the sockets,
\* producing the acceptor thread to close all threads" (Server::stop): the
\* operator's command ends the process.
QuitEnds == Stopping ~> proc # "running"

\* "Constantly waits for incoming clients. If a client is accepted, launches a
\* thread for that client and checks if other clients ceased operation closing
\* their threads and sockets" (Server::run_server): before the stop, the server
\* gives up listening only when clients that are still attended hold all the
\* descriptors.
KeepsListening ==
    [][listening = "open" /\ listening' = "closed" =>
           Cardinality({c \in Conns : Active(c)}) >= FdLimit]_vars
=============================================================================
