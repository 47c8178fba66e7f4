--------------------------- MODULE MCNodeManager ---------------------------
(***************************************************************************)
(* Instances of the node manager.                                          *)
(***************************************************************************)
EXTENDS NodeManager

CONSTANTS t1, t2, b1

MCAutoTags == <<t1>>

\* What an administrator may upload: a node, and a rule that names it.
MCUploads == {[outs |-> <<[tag |-> t2, body |-> b1]>>, rules |-> <<t2>>]}

\* Bound: what happened after handlers overlapped is followed until all of
\* them have answered.
OneRace == Serial \/ \E w \in Web : at[w] # "idle"

=============================================================================
