--------------------------- MODULE MCLoadBalancer --------------------------
(***************************************************************************)
(* Instances of the load balancer: three sessions while one node may be    *)
(* removed, and nodes that are probed, edited and fail, without sessions.  *)
(***************************************************************************)
EXTENDS LoadBalancer, TLC

CONSTANTS s1, s2, s3, i1, i2, n1, n2

MCInitNodes == <<n1, n2>>
MCOneNode == <<n1>>

\* The first two sessions are of the same client.
MCip == [s \in Sessions |-> IF s = s3 THEN i2 ELSE i1]

\* Those two, and the threads, may be exchanged.
SameClient == Permutations({s1, s2}) \cup Permutations(Threads)

\* Bound: the nodes answer and nobody probes them, and of the edits only the
\* removal of the second node is followed, under one strategy.
Quiet ==
  /\ up = Tags /\ \A p \in Probers : task[p] = <<>> \/ Head(task[p]).do # "probe"
  /\ edits = 0 \/ (nodes = <<n1>> /\ strategy = "least_connections")
=============================================================================
