--------------------------- MODULE MCProxyServer ---------------------------
(***************************************************************************)
(* Instances of the server.  The chains are computed from the sessions, so *)
(* Callers and Requesters are definitions here.                            *)
(***************************************************************************)
EXTENDS ProxyServer, TLC

MCCallers == (Sessions \X {"up", "down"}) \cup {Acceptor}
MCRequesters == {Acceptor}

\* Sessions are interchangeable: no operator orders or chooses among them.
SymSessions == Permutations(Sessions)
=============================================================================
