------------------------ MODULE MCConnectionAdmitter -----------------------
(***************************************************************************)
(* The admitter on its own: one accepting thread that requests, as in the  *)
(* server, and two threads that release whatever they like, as often as    *)
(* they like.  MaxQueue leaves room for a queue of two and MaxConnections  *)
(* of two lets the count pass through 0, the limit and the overshoot.      *)
(***************************************************************************)
EXTENDS ConnectionAdmitter, TLC

SymSessions == Permutations(Sessions)
=============================================================================
