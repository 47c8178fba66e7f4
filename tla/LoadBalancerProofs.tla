------------------------- MODULE LoadBalancerProofs ------------------------
(***************************************************************************)
(* For any number of io threads, sessions, nodes and web handlers: a       *)
(* node's count passes its capacity by less than the number of io threads  *)
(* and follows the sessions it is a count of; its status follows its       *)
(* failures; once it is removed it stays out of service; and the affinity  *)
(* table keeps its bound and its one record of a client.                   *)
(***************************************************************************)
EXTENDS LoadBalancer, SequenceLemmas, FiniteSetTheorems, TLAPS

Cand == [tag : Tags, latency : Nat, conns : Nat, weight : Nat]

Health == [status : Statuses, failures : 0..FailureThreshold, latency : Nat]

\* A thread that reads the count of a node is at the head of its list, and has
\* put the node down as its last candidate.
Loading(t) ==
  /\ todo[t] # <<>> /\ cands[t] # <<>>
  /\ cands[t][Len(cands[t])].tag = Head(todo[t])

Types ==
  /\ nodes \in Seq(Tags)
  /\ conns \in [Tags -> Nat]
  /\ weights \in [Tags -> Nat]
  /\ rr \in Nat
  /\ health \in [Tags -> Health]
  /\ at \in [Threads -> Places]
  /\ ses \in [Threads -> Sessions \cup {NoTag}]
  /\ todo \in [Threads -> Seq(Tags)]
  /\ cands \in [Threads -> Seq(Cand)]
  /\ choice = [t \in Threads |-> choice[t]]
  /\ \A t \in Threads : at[t] = "load" => Loading(t)

LEMMA InitTypes == Init => Types
<1> SUFFICES ASSUME Init PROVE Types
    OBVIOUS
<1>1. [status |-> "available", failures |-> 0, latency |-> 0] \in Health
  BY BalancerAssumption DEF Health, Statuses
<1>2. nodes \in Seq(Tags) /\ weights \in [Tags -> Nat] /\ rr \in Nat
  BY BalancerAssumption DEF Init
<1>3. <<>> \in Seq(Tags) /\ <<>> \in Seq(Cand)
  OBVIOUS
<1> QED
  BY <1>1, <1>2, <1>3, BalancerAssumption DEF Init, Types, Places

\* What a probe makes of a node's record is a record.
LEMMA ProbedIsHealth ==
  ASSUME NEW h \in Health, NEW ms \in Nat, NEW outcome
  PROVE  Probed(h, outcome, ms) \in Health /\ marked(h) \in Health
<1>1. FailureThreshold \in 0..FailureThreshold /\ 0 \in 0..FailureThreshold
  BY BalancerAssumption
<1>2. marked(h) \in Health
  BY <1>1 DEF marked, Health, Statuses
<1>3. failed_probe(h) \in Health
  <2> DEFINE f == IF h.failures < FailureThreshold THEN h.failures + 1 ELSE FailureThreshold
             x == IF f >= FailureThreshold THEN "unavailable" ELSE "unstable"
  <2>1. f \in 0..FailureThreshold
    BY BalancerAssumption DEF Health
  <2>2. x \in Statuses
    BY DEF Statuses
  <2>3. failed_probe(h) = [h EXCEPT !.failures = f, !.status = x]
    BY DEF failed_probe
  <2> HIDE DEF f, x
  <2> QED BY <2>1, <2>2, <2>3 DEF Health
<1>4. [status |-> "available", failures |-> 0, latency |-> ms] \in Health
  BY <1>1 DEF Health, Statuses
<1> QED
  BY <1>2, <1>3, <1>4 DEF Probed

\* A step of thread t that leaves the nodes alone.
LEMMA ThreadTypes ==
  ASSUME Types, NEW t \in Threads,
         UNCHANGED <<nodes, weights, health>>,
         conns' \in [Tags -> Nat], rr' \in Nat,
         NEW place \in Places, at' = [at EXCEPT ![t] = place],
         ses' \in [Threads -> Sessions \cup {NoTag}],
         NEW list \in Seq(Tags), todo' = [todo EXCEPT ![t] = list],
         NEW found \in Seq(Cand), cands' = [cands EXCEPT ![t] = found],
         choice' = [u \in Threads |-> choice'[u]],
         place = "load" =>
           list # <<>> /\ found # <<>> /\ found[Len(found)].tag = Head(list)
  PROVE  Types'
<1>1. \A u \in Threads : at'[u] = "load" => Loading(u)'
  <2> TAKE u \in Threads
  <2> HAVE at'[u] = "load"
  <2>1. CASE u = t
    <3>1. at'[t] = place /\ todo'[t] = list /\ cands'[t] = found
      BY DEF Types
    <3> QED BY <2>1, <3>1 DEF Loading
  <2>2. CASE u # t
    <3>1. at'[u] = at[u] /\ todo'[u] = todo[u] /\ cands'[u] = cands[u]
      BY <2>2 DEF Types
    <3> QED BY <3>1 DEF Loading, Types
  <2> QED BY <2>1, <2>2
<1>2. at' \in [Threads -> Places] /\ todo' \in [Threads -> Seq(Tags)]
      /\ cands' \in [Threads -> Seq(Cand)]
  BY DEF Types
<1> QED
  BY <1>1, <1>2 DEF Types

\* A step that leaves the threads alone.
LEMMA OtherTypes ==
  ASSUME Types, UNCHANGED <<rr, at, ses, todo, cands, choice>>,
         nodes' \in Seq(Tags), conns' \in [Tags -> Nat], weights' \in [Tags -> Nat],
         health' \in [Tags -> Health]
  PROVE  Types'
BY DEF Types, Loading

-----------------------------------------------------------------------------
\* The nodes thread t has found room on and may still be about to count on.
\* The last candidate does not belong to them while its count is being read.
FoundAt(place, found, c) ==
  IF place \in {"record", "take"} THEN {c}
  ELSE IF place = "health" THEN {found[k].tag : k \in 1..Len(found)}
  ELSE IF place = "load" THEN {found[k].tag : k \in 1..(Len(found) - 1)}
  ELSE {}

Found(t) == FoundAt(at[t], cands[t], choice[t])

Finders(n) == {t \in Threads : n \in Found(t)}

\* What is counted on a node and what may still be.
Room ==
  \A n \in Tags :
    conns[n] + Cardinality(Finders(n)) <= Capacity - 1 + Cardinality(Threads)

LEMMA FindersFinite ==
  ASSUME NEW n
  PROVE  /\ IsFiniteSet(Finders(n)) /\ Cardinality(Finders(n)) \in Nat
         /\ Cardinality(Finders(n)) <= Cardinality(Threads)
         /\ Cardinality(Threads) \in Nat
<1>1. IsFiniteSet(Threads) /\ Finders(n) \subseteq Threads
  BY BalancerAssumption DEF Finders
<1> QED
  BY <1>1, FS_Subset, FS_CardinalityType

LEMMA InitRoom == Init => Room
<1> SUFFICES ASSUME Init, NEW n \in Tags
             PROVE  conns[n] + Cardinality(Finders(n)) <= Capacity - 1 + Cardinality(Threads)
    BY DEF Room
<1>1. conns[n] = 0
  BY DEF Init
<1> QED
  BY <1>1, FindersFinite, BalancerAssumption

\* A step of thread t may make a node lighter, find room on it, or count on it.
LEMMA ThreadRoom ==
  ASSUME Types, conns' \in [Tags -> Nat], Room, NEW t \in Threads,
         \A u \in Threads \ {t} : Found(u)' = Found(u),
         \A n \in Tags :
           \/ conns'[n] <= conns[n] /\ (n \in Found(t)' => n \in Found(t))
           \/ conns'[n] < Capacity
           \/ conns'[n] = conns[n] + 1 /\ n \in Found(t) /\ n \notin Found(t)'
  PROVE  Room'
<1> SUFFICES ASSUME NEW n \in Tags
             PROVE  conns'[n] + Cardinality(Finders(n)')
                      <= Capacity - 1 + Cardinality(Threads)
    BY DEF Room
<1>0. conns[n] \in Nat /\ conns'[n] \in Nat /\ Capacity \in Nat
  BY BalancerAssumption DEF Types
<1>1. IsFiniteSet(Threads) /\ Finders(n)' \subseteq Threads /\ Finders(n) \subseteq Threads
  BY BalancerAssumption DEF Finders
<1>2. /\ Cardinality(Finders(n)') \in Nat
      /\ Cardinality(Finders(n)') <= Cardinality(Threads)
      /\ Cardinality(Threads) \in Nat
      /\ IsFiniteSet(Finders(n)) /\ Cardinality(Finders(n)) \in Nat
  BY <1>1, FS_Subset, FS_CardinalityType
<1>3. conns[n] + Cardinality(Finders(n)) <= Capacity - 1 + Cardinality(Threads)
  BY DEF Room
<1>4. CASE conns'[n] <= conns[n] /\ (n \in Found(t)' => n \in Found(t))
  <2>1. Finders(n)' \subseteq Finders(n)
    BY <1>4 DEF Finders
  <2>2. Cardinality(Finders(n)') <= Cardinality(Finders(n))
    BY <2>1, <1>2, FS_Subset
  <2> QED BY <2>2, <1>0, <1>2, <1>3, <1>4
<1>5. CASE conns'[n] < Capacity
  BY <1>5, <1>0, <1>2
<1>6. CASE conns'[n] = conns[n] + 1 /\ n \in Found(t) /\ n \notin Found(t)'
  <2>1. Finders(n)' \subseteq Finders(n) \ {t} /\ t \in Finders(n)
    BY <1>6 DEF Finders
  <2>2. IsFiniteSet(Finders(n) \ {t})
        /\ Cardinality(Finders(n) \ {t}) = Cardinality(Finders(n)) - 1
    BY <2>1, <1>2, FS_RemoveElement
  <2>3. Cardinality(Finders(n)') <= Cardinality(Finders(n)) - 1
    BY <2>1, <2>2, FS_Subset
  <2> QED BY <2>3, <1>0, <1>2, <1>3, <1>6
<1> QED
  BY <1>4, <1>5, <1>6

\* A step that leaves the threads alone and makes no node heavier.
LEMMA OtherRoom ==
  ASSUME Types, conns' \in [Tags -> Nat], Room, UNCHANGED <<at, cands, choice>>,
         \A n \in Tags : conns'[n] <= conns[n]
  PROVE  Room'
<1> SUFFICES ASSUME NEW n \in Tags
             PROVE  conns'[n] + Cardinality(Finders(n)')
                      <= Capacity - 1 + Cardinality(Threads)
    BY DEF Room
<1>1. Finders(n)' = Finders(n)
  BY DEF Finders, Found
<1>2. conns[n] + Cardinality(Finders(n)) <= Capacity - 1 + Cardinality(Threads)
  BY DEF Room
<1>3. conns[n] \in Nat /\ conns'[n] \in Nat /\ conns'[n] <= conns[n]
  BY DEF Types
<1>4. /\ Cardinality(Finders(n)) \in Nat /\ Cardinality(Threads) \in Nat
      /\ Capacity \in Nat
  BY FindersFinite, BalancerAssumption
<1> QED
  BY <1>1, <1>2, <1>3, <1>4

\* A step of thread t finds nothing for another one.
LEMMA OthersFound ==
  ASSUME Types, NEW t \in Threads, NEW u \in Threads \ {t}, NEW place, NEW found, NEW c,
         at' = [at EXCEPT ![t] = place], cands' = [cands EXCEPT ![t] = found],
         choice' = [choice EXCEPT ![t] = c]
  PROVE  Found(u)' = Found(u)
BY DEF Types, Found

\* A step of thread t to another place, with what it has found there.
LEMMA ThreadStep ==
  ASSUME Types, Room, NEW t \in Threads,
         UNCHANGED <<nodes, weights, health>>, conns' \in [Tags -> Nat], rr' \in Nat,
         ses' \in [Threads -> Sessions \cup {NoTag}],
         NEW place \in Places, at' = [at EXCEPT ![t] = place],
         NEW list \in Seq(Tags), todo' = [todo EXCEPT ![t] = list],
         NEW found \in Seq(Cand), cands' = [cands EXCEPT ![t] = found],
         NEW c, choice' = [choice EXCEPT ![t] = c],
         place = "load" =>
           list # <<>> /\ found # <<>> /\ found[Len(found)].tag = Head(list),
         \A n \in Tags :
           \/ conns'[n] <= conns[n] /\ (n \in FoundAt(place, found, c) => n \in Found(t))
           \/ conns'[n] < Capacity
           \/ conns'[n] = conns[n] + 1 /\ n \in Found(t) /\ n \notin FoundAt(place, found, c)
  PROVE  Types' /\ Room'
<1>1. choice' = [u \in Threads |-> choice'[u]]
  BY DEF Types
<1>2. Types'
  BY <1>1, ThreadTypes
<1>3. Found(t)' = FoundAt(place, found, c)
  BY DEF Types, Found
<1>4. \A u \in Threads \ {t} : Found(u)' = Found(u)
  BY OthersFound
<1>5. Room'
  BY <1>3, <1>4, ThreadRoom
<1> QED
  BY <1>2, <1>5

\* Raising or lowering the count of one node changes that of no other, and of
\* none if there is no such node.
LEMMA OneCount ==
  ASSUME Types, NEW n, NEW x, n \in Tags => x \in Nat, conns' = [conns EXCEPT ![n] = x]
  PROVE  /\ conns' \in [Tags -> Nat]
         /\ \A m \in Tags : conns'[m] = IF m = n THEN x ELSE conns[m]
<1>1. CASE n \in Tags
  BY <1>1 DEF Types
<1>2. CASE n \notin Tags
  <2>1. conns' = conns
    BY <1>2 DEF Types
  <2> QED BY <1>2, <2>1 DEF Types
<1> QED BY <1>1, <1>2

\* What a step leaves alone, it may be said to set to what it was.
LEMMA Same ==
  ASSUME Types, NEW t \in Threads
  PROVE  /\ at = [at EXCEPT ![t] = at[t]] /\ at[t] \in Places
         /\ todo = [todo EXCEPT ![t] = todo[t]] /\ todo[t] \in Seq(Tags)
         /\ cands = [cands EXCEPT ![t] = cands[t]] /\ cands[t] \in Seq(Cand)
         /\ choice = [choice EXCEPT ![t] = choice[t]]
BY DEF Types

\* Every step of a thread, by the place it goes to and what it takes there.
LEMMA DecideStep ==
  ASSUME Types, Room, NEW t \in Threads, NEW s \in Sessions, Decide(t, s)
  PROVE  Types' /\ Room'
<1>1. /\ UNCHANGED <<nodes, weights, health, conns, rr, todo, cands>>
      /\ ses' \in [Threads -> Sessions \cup {NoTag}]
  BY DEF Decide, lists, pickers, probes, Types
<1>2. conns \in [Tags -> Nat] /\ rr \in Nat
  BY DEF Types
<1>3. ASSUME NEW place \in {"status", "list"}, NEW c,
             at' = [at EXCEPT ![t] = place], choice' = [choice EXCEPT ![t] = c]
      PROVE  Types' /\ Room'
  <2>1. place \in Places /\ place # "load" /\ FoundAt(place, cands[t], c) = {}
    BY <1>3 DEF Places, FoundAt
  <2>2. \A n \in Tags : conns'[n] <= conns[n] /\ n \notin FoundAt(place, cands[t], c)
    BY <1>1, <1>2, <2>1
  <2> QED
    BY <1>1, <1>2, <1>3, <2>1, <2>2, Same, ThreadStep
<1>4. ASSUME NEW n, Goto(t, "idle", "status"), choice' = [choice EXCEPT ![t] = n]
      PROVE  Types' /\ Room'
  BY <1>3, <1>4 DEF Goto
<1>5. ASSUME Goto(t, "idle", "list"), choice' = choice
      PROVE  Types' /\ Room'
  <2>1. choice' = [choice EXCEPT ![t] = choice[t]]
    BY <1>5, Same
  <2> QED BY <1>3, <1>5, <2>1 DEF Goto
<1> QED
  BY <1>4, <1>5 DEF Decide

LEMMA AffinityStep ==
  ASSUME Types, Room, NEW t \in Threads,
         AffinityStatus(t) \/ AffinityCount(t) \/ AffinityDrop(t)
  PROVE  Types' /\ Room'
<1>1. UNCHANGED <<nodes, weights, health, conns, rr, ses, todo, cands, choice>>
  BY DEF AffinityStatus, AffinityCount, AffinityDrop, DecisionKeeps, deciding, lists,
         pickers, probes
<1>2. PICK place \in {"count", "drop", "list", "take"} :
        at' = [at EXCEPT ![t] = place] /\ (place = "take" => fits(choice[t]))
  BY DEF AffinityStatus, AffinityCount, AffinityDrop, Goto
<1>3. place \in Places
      /\ FoundAt(place, cands[t], choice[t]) = IF place = "take" THEN {choice[t]} ELSE {}
  BY <1>2 DEF Places, FoundAt
<1>4. conns \in [Tags -> Nat] /\ rr \in Nat /\ ses \in [Threads -> Sessions \cup {NoTag}]
  BY DEF Types
<1>5. \A n \in Tags :
        \/ conns'[n] <= conns[n] /\ n \notin FoundAt(place, cands[t], choice[t])
        \/ conns'[n] < Capacity
  BY <1>1, <1>2, <1>3, <1>4 DEF fits
<1>6. place # "load"
  BY <1>2
<1> QED
  BY <1>1, <1>2, <1>3, <1>4, <1>5, <1>6, Same, ThreadStep

LEMMA ListStep ==
  ASSUME Types, Room, NEW t \in Threads, ListNodes(t)
  PROVE  Types' /\ Room'
<1>1. /\ UNCHANGED <<nodes, weights, health, conns, rr, ses, choice>>
      /\ at' = [at EXCEPT ![t] = "health"]
      /\ todo' = [todo EXCEPT ![t] = nodes]
      /\ cands' = [cands EXCEPT ![t] = <<>>]
  BY DEF ListNodes, DecisionKeeps, lists, pickers, probes, Goto
<1>2. FoundAt("health", <<>>, choice[t]) = {} /\ "health" \in Places
  BY DEF FoundAt, Places
<1>3. /\ conns \in [Tags -> Nat] /\ rr \in Nat /\ ses \in [Threads -> Sessions \cup {NoTag}]
      /\ nodes \in Seq(Tags) /\ <<>> \in Seq(Cand)
  BY DEF Types
<1>4. \A n \in Tags :
        conns'[n] <= conns[n] /\ n \notin FoundAt("health", <<>>, choice[t])
  BY <1>1, <1>2, <1>3
<1> QED
  BY <1>1, <1>2, <1>3, <1>4, Same, ThreadStep

\* A node goes to the end of the candidates while its count is not known yet.
LEMMA HealthStep ==
  ASSUME Types, Room, NEW t \in Threads, NodeHealth(t)
  PROVE  Types' /\ Room'
<1>1. UNCHANGED <<nodes, weights, health, conns, rr, ses, choice>>
  BY DEF NodeHealth, DecisionKeeps, lists, pickers, probes
<1>2. /\ conns \in [Tags -> Nat] /\ rr \in Nat /\ ses \in [Threads -> Sessions \cup {NoTag}]
      /\ todo[t] # <<>> /\ todo[t] \in Seq(Tags) /\ cands[t] \in Seq(Cand)
  BY DEF NodeHealth, Types
<1>3. Head(todo[t]) \in Tags /\ Tail(todo[t]) \in Seq(Tags)
  BY <1>2
<1>4. CASE /\ Goto(t, "health", "health")
           /\ todo' = [todo EXCEPT ![t] = Tail(@)]
           /\ UNCHANGED cands
  <2>1. /\ at' = [at EXCEPT ![t] = "health"] /\ at[t] = "health"
        /\ todo' = [todo EXCEPT ![t] = Tail(todo[t])]
    BY <1>4 DEF Goto
  <2>2. FoundAt("health", cands[t], choice[t]) = Found(t) /\ "health" \in Places
    BY <2>1 DEF Found, Places
  <2>3. \A n \in Tags :
          /\ conns'[n] <= conns[n]
          /\ n \in FoundAt("health", cands[t], choice[t]) => n \in Found(t)
    BY <1>1, <1>2, <2>2
  <2>4. /\ cands' = [cands EXCEPT ![t] = cands[t]]
        /\ choice' = [choice EXCEPT ![t] = choice[t]]
    BY <1>1, <1>4, Same
  <2> QED
    BY <1>1, <1>2, <1>3, <2>1, <2>2, <2>3, <2>4, ThreadStep
<1>5. ASSUME NEW ms \in Nat, Goto(t, "health", "load"), UNCHANGED todo,
             cands' = [cands EXCEPT ![t] =
                         Append(@, [tag |-> Head(todo[t]), latency |-> ms,
                                    conns |-> 0, weight |-> 0])]
      PROVE  Types' /\ Room'
  <2> DEFINE new == [tag |-> Head(todo[t]), latency |-> ms, conns |-> 0, weight |-> 0]
             found == Append(cands[t], new)
  <2>1. new \in Cand
    BY <1>3, <1>5 DEF Cand
  <2>2. /\ at' = [at EXCEPT ![t] = "load"] /\ at[t] = "health"
        /\ cands' = [cands EXCEPT ![t] = found]
    BY <1>5 DEF Goto
  <2>3. new.tag = Head(todo[t])
    OBVIOUS
  <2> HIDE DEF new
  <2>4. /\ found \in Seq(Cand) /\ found # <<>> /\ Len(found) = Len(cands[t]) + 1
        /\ found[Len(found)] = new
        /\ \A k \in 1..Len(cands[t]) : found[k] = cands[t][k]
    BY <1>2, <2>1
  <2> HIDE DEF found
  <2>5. Len(found) - 1 = Len(cands[t])
    BY <1>2, <2>4
  <2>6. FoundAt("load", found, choice[t]) = Found(t) /\ "load" \in Places
    BY <2>2, <2>4, <2>5 DEF Found, FoundAt, Places
  <2>7. \A n \in Tags :
          /\ conns'[n] <= conns[n]
          /\ n \in FoundAt("load", found, choice[t]) => n \in Found(t)
    BY <1>1, <1>2, <2>6
  <2>8. /\ todo' = [todo EXCEPT ![t] = todo[t]]
        /\ choice' = [choice EXCEPT ![t] = choice[t]]
    BY <1>1, <1>5, Same
  <2>9. found[Len(found)].tag = Head(todo[t])
    BY <2>3, <2>4
  <2> QED
    BY <1>1, <1>2, <2>2, <2>4, <2>6, <2>7, <2>8, <2>9, ThreadStep
<1>6. health[Head(todo[t])].latency \in Nat
  BY <1>3 DEF Types, Health
<1> QED
  BY <1>4, <1>5, <1>6 DEF NodeHealth

\* The count just read decides whether the last candidate stays.
LEMMA LoadStep ==
  ASSUME Types, Room, NEW t \in Threads, NodeLoad(t)
  PROVE  Types' /\ Room'
<1> DEFINE m == Head(todo[t])
           last == Len(cands[t])
<1>1. /\ UNCHANGED <<nodes, weights, health, conns, rr, ses, choice>>
      /\ at' = [at EXCEPT ![t] = "health"] /\ at[t] = "load"
      /\ todo' = [todo EXCEPT ![t] = Tail(todo[t])]
  BY DEF NodeLoad, DecisionKeeps, lists, pickers, probes, Goto
<1>2. /\ conns \in [Tags -> Nat] /\ rr \in Nat /\ ses \in [Threads -> Sessions \cup {NoTag}]
      /\ weights \in [Tags -> Nat]
      /\ todo[t] \in Seq(Tags) /\ cands[t] \in Seq(Cand) /\ "health" \in Places
  BY DEF Types, Places
<1>3. todo[t] # <<>> /\ cands[t] # <<>> /\ cands[t][last].tag = m
  BY <1>1 DEF Types, Loading
<1>4. Tail(todo[t]) \in Seq(Tags) /\ m \in Tags /\ last \in Nat \ {0}
  BY <1>2, <1>3
<1>5. choice' = [choice EXCEPT ![t] = choice[t]]
  BY <1>1, Same
<1>6. Found(t) = {cands[t][k].tag : k \in 1..(last - 1)}
  BY <1>1 DEF Found, FoundAt
<1>7. CASE cands' = [cands EXCEPT ![t] = Front(@)]
  <2> DEFINE found == Front(cands[t])
  <2>1. cands' = [cands EXCEPT ![t] = found]
    BY <1>7
  <2>2. /\ found \in Seq(Cand) /\ Len(found) = last - 1
        /\ \A k \in 1..(last - 1) : found[k] = cands[t][k]
    BY <1>2, <1>4 DEF Front
  <2> HIDE DEF found
  <2>3. FoundAt("health", found, choice[t]) = Found(t)
    BY <1>6, <2>2 DEF FoundAt
  <2>4. \A n \in Tags :
          /\ conns'[n] <= conns[n]
          /\ n \in FoundAt("health", found, choice[t]) => n \in Found(t)
    BY <1>1, <1>2, <2>3
  <2> HIDE DEF m, last
  <2> QED
    BY <1>1, <1>2, <1>4, <1>5, <2>1, <2>2, <2>4, ThreadStep
<1>8. CASE /\ fits(m)
           /\ cands' = [cands EXCEPT ![t][last] =
                          [@ EXCEPT !.conns = conns[m], !.weight = weights[m]]]
  <2> DEFINE rec == [cands[t][last] EXCEPT !.conns = conns[m], !.weight = weights[m]]
             found == [cands[t] EXCEPT ![last] = rec]
  <2>1. cands' = [cands EXCEPT ![t] = found]
    BY <1>8
  <2>2. cands[t][last] \in Cand
    BY <1>2, <1>4
  <2>3. rec \in Cand /\ rec.tag = m
    BY <2>2, <1>2, <1>3, <1>4 DEF Cand
  <2> HIDE DEF rec
  <2>4. /\ found \in Seq(Cand) /\ Len(found) = last
        /\ \A k \in 1..last : found[k] = IF k = last THEN rec ELSE cands[t][k]
    BY <1>2, <1>4, <2>3
  <2> HIDE DEF found
  <2>5. \A n : n \in FoundAt("health", found, choice[t]) => n \in Found(t) \/ n = m
    BY <1>4, <1>6, <2>3, <2>4 DEF FoundAt
  <2>6. conns'[m] < Capacity
    BY <1>1, <1>8 DEF fits
  <2>7. \A n \in Tags :
          \/ /\ conns'[n] <= conns[n]
             /\ n \in FoundAt("health", found, choice[t]) => n \in Found(t)
          \/ conns'[n] < Capacity
    BY <1>1, <1>2, <2>5, <2>6
  <2> HIDE DEF m, last
  <2> QED
    BY <1>1, <1>2, <1>4, <1>5, <2>1, <2>4, <2>7, ThreadStep
<1> QED
  BY <1>7, <1>8 DEF NodeLoad

\* A handler that returns may still count on nothing.
LEMMA ReturnStep ==
  ASSUME Types, Room, NEW t \in Threads, Return(t),
         UNCHANGED <<nodes, weights, health, rr, todo, cands>>,
         conns' \in [Tags -> Nat],
         \A n \in Tags : conns'[n] <= conns[n] \/ (conns'[n] = conns[n] + 1 /\ n \in Found(t))
  PROVE  Types' /\ Room'
<1>1. /\ at' = [at EXCEPT ![t] = "idle"] /\ choice' = [choice EXCEPT ![t] = NoTag]
      /\ ses' \in [Threads -> Sessions \cup {NoTag}] /\ rr \in Nat
  BY DEF Return, Types
<1>2. FoundAt("idle", cands[t], NoTag) = {} /\ "idle" \in Places
  BY DEF FoundAt, Places
<1>3. \A n \in Tags :
        \/ conns'[n] <= conns[n] /\ n \notin FoundAt("idle", cands[t], NoTag)
        \/ /\ conns'[n] = conns[n] + 1 /\ n \in Found(t)
           /\ n \notin FoundAt("idle", cands[t], NoTag)
  BY <1>2
<1> QED
  BY <1>1, <1>2, <1>3, Same, ThreadStep

LEMMA NoCandidateStep ==
  ASSUME Types, Room, NEW t \in Threads, NoCandidate(t)
  PROVE  Types' /\ Room'
<1>1. Return(t) /\ UNCHANGED <<nodes, weights, health, conns, rr, todo, cands>>
  BY DEF NoCandidate, lists, pickers, probes
<1>2. conns \in [Tags -> Nat] /\ conns' = conns
  BY <1>1 DEF Types
<1>3. conns' \in [Tags -> Nat]
  BY <1>2
<1>4. \A n \in Tags : conns'[n] <= conns[n]
  BY <1>2
<1> QED
  BY <1>1, <1>3, <1>4, ReturnStep

\* Whatever the strategy, it picks one of the candidates.
LEMMA PickStep ==
  ASSUME Types, Room, NEW t \in Threads, rr' \in Nat, NEW i, Chosen(t, i)
  PROVE  Types' /\ Room'
<1> DEFINE c == cands[t][i].tag
<1>1. /\ UNCHANGED <<nodes, weights, health, conns, ses, todo>>
      /\ at' = [at EXCEPT ![t] = "record"] /\ at[t] = "health"
      /\ cands' = [cands EXCEPT ![t] = <<>>]
      /\ choice' = [choice EXCEPT ![t] = c]
      /\ i \in DOMAIN cands[t]
  BY DEF Chosen, Examined, DecisionKeeps, lists, probes
<1>2. /\ conns \in [Tags -> Nat] /\ ses \in [Threads -> Sessions \cup {NoTag}]
      /\ cands[t] \in Seq(Cand) /\ "record" \in Places /\ <<>> \in Seq(Cand)
  BY DEF Types, Places
<1>3. FoundAt("record", <<>>, c) = {c}
  BY DEF FoundAt
<1>4. c \in Found(t)
  BY <1>1, <1>2 DEF Found, FoundAt
<1> HIDE DEF c
<1>5. \A n \in Tags :
        /\ conns'[n] <= conns[n]
        /\ n \in FoundAt("record", <<>>, c) => n \in Found(t)
  BY <1>1, <1>2, <1>3, <1>4
<1> QED
  BY <1>1, <1>2, <1>5, Same, ThreadStep

LEMMA RecordStep ==
  ASSUME Types, Room, NEW t \in Threads, Record(t)
  PROVE  Types' /\ Room'
<1>1. /\ UNCHANGED <<nodes, weights, health, conns, rr, ses, todo, cands, choice>>
      /\ at' = [at EXCEPT ![t] = "take"] /\ at[t] = "record"
  BY DEF Record, DecisionKeeps, deciding, lists, pickers, probes, Goto
<1>2. /\ conns \in [Tags -> Nat] /\ ses \in [Threads -> Sessions \cup {NoTag}]
      /\ rr \in Nat /\ "take" \in Places
  BY DEF Types, Places
<1>3. FoundAt("take", cands[t], choice[t]) = Found(t)
  BY <1>1 DEF Found, FoundAt
<1>4. \A n \in Tags :
        /\ conns'[n] <= conns[n]
        /\ n \in FoundAt("take", cands[t], choice[t]) => n \in Found(t)
  BY <1>1, <1>2, <1>3
<1> QED
  BY <1>1, <1>2, <1>4, Same, ThreadStep

LEMMA TakeStep ==
  ASSUME Types, Room, NEW t \in Threads, Take(t)
  PROVE  Types' /\ Room'
<1>1. /\ Return(t) /\ UNCHANGED <<nodes, weights, health, rr, todo, cands>>
      /\ conns' = [conns EXCEPT ![choice[t]] = @ + 1] /\ at[t] = "take"
  BY DEF Take, lists, pickers, probes
<1>2. conns \in [Tags -> Nat]
  BY DEF Types
<1>3. /\ conns' \in [Tags -> Nat]
      /\ \A n \in Tags :
           conns'[n] = IF n = choice[t] THEN conns[choice[t]] + 1 ELSE conns[n]
  <2>1. choice[t] \in Tags => conns[choice[t]] + 1 \in Nat
    BY <1>2
  <2> QED BY <1>1, <2>1, OneCount
<1>4. choice[t] \in Found(t)
  BY <1>1 DEF Found, FoundAt
<1>5. ASSUME NEW n \in Tags
      PROVE  conns'[n] <= conns[n] \/ (conns'[n] = conns[n] + 1 /\ n \in Found(t))
  <2>1. CASE n = choice[t]
    BY <1>3, <1>4, <2>1
  <2>2. CASE n # choice[t]
    <3>1. conns'[n] <= conns[n]
      BY <1>2, <1>3, <2>2
    <3> QED BY <3>1
  <2> QED BY <2>1, <2>2
<1> QED
  BY <1>1, <1>3, <1>5, ReturnStep

\* dec_node_connections makes no count greater, and none negative.
LEMMA DecLowers ==
  ASSUME Types, NEW n, Dec(n)
  PROVE  conns' \in [Tags -> Nat] /\ \A m \in Tags : conns'[m] <= conns[m]
<1>1. conns \in [Tags -> Nat]
  BY DEF Types
<1>2. conns' = [conns EXCEPT ![n] = IF conns[n] > 0 THEN conns[n] - 1 ELSE 0]
  BY DEF Dec
<1>3. n \in Tags => (IF conns[n] > 0 THEN conns[n] - 1 ELSE 0) \in Nat
  BY <1>1
<1>4. /\ conns' \in [Tags -> Nat]
      /\ \A m \in Tags :
           conns'[m] = IF m = n THEN IF conns[n] > 0 THEN conns[n] - 1 ELSE 0 ELSE conns[m]
  BY <1>2, <1>3, OneCount
<1> QED
  BY <1>1, <1>4

LEMMA CloseStep ==
  ASSUME Types, Room, NEW t \in Threads, NEW s \in Sessions, CloseSession(t, s)
  PROVE  Types' /\ Room'
<1>1. UNCHANGED <<nodes, weights, health, conns, rr, todo, cands, choice>>
  BY DEF CloseSession, SessionKeeps, lists, pickers, probes
<1>2. conns \in [Tags -> Nat] /\ rr \in Nat
  BY DEF Types
<1>3. \A n \in Tags : conns'[n] <= conns[n]
  BY <1>1, <1>2
<1>4. CASE UNCHANGED <<at, ses>>
  <2>1. Types'
    BY <1>1, <1>4, OtherTypes DEF Types
  <2> QED
    BY <1>1, <1>2, <1>3, <1>4, <2>1, OtherRoom
<1>5. ASSUME NEW place \in {"give", "clear"}, at' = [at EXCEPT ![t] = place],
             ses' = [ses EXCEPT ![t] = s]
      PROVE  Types' /\ Room'
  <2>1. place \in Places /\ place # "load" /\ FoundAt(place, cands[t], choice[t]) = {}
    BY <1>5 DEF Places, FoundAt
  <2>2. ses' \in [Threads -> Sessions \cup {NoTag}]
    BY <1>5 DEF Types
  <2>3. \A n \in Tags : conns'[n] <= conns[n] /\ n \notin FoundAt(place, cands[t], choice[t])
    BY <1>3, <2>1
  <2> QED
    BY <1>1, <1>2, <1>5, <2>1, <2>2, <2>3, Same, ThreadStep
<1> QED
  BY <1>4, <1>5 DEF CloseSession, Goto

LEMMA GiveStep ==
  ASSUME Types, Room, NEW t \in Threads, GiveBack(t)
  PROVE  Types' /\ Room'
<1>1. /\ UNCHANGED <<nodes, weights, health, rr, ses, todo, cands, choice>>
      /\ at' = [at EXCEPT ![t] = "clear"] /\ Dec(node[ses[t]])
  BY DEF GiveBack, SessionKeeps, lists, pickers, probes, Goto
<1>2. FoundAt("clear", cands[t], choice[t]) = {} /\ "clear" \in Places
  BY DEF FoundAt, Places
<1>3. /\ conns' \in [Tags -> Nat] /\ \A n \in Tags : conns'[n] <= conns[n]
  BY <1>1, DecLowers
<1>4. rr \in Nat /\ ses \in [Threads -> Sessions \cup {NoTag}]
  BY DEF Types
<1>5. \A n \in Tags : conns'[n] <= conns[n] /\ n \notin FoundAt("clear", cands[t], choice[t])
  BY <1>2, <1>3
<1> QED
  BY <1>1, <1>2, <1>3, <1>4, <1>5, Same, ThreadStep

LEMMA ClearStep ==
  ASSUME Types, Room, NEW t \in Threads, ClearTunnel(t)
  PROVE  Types' /\ Room'
<1>1. Return(t) /\ UNCHANGED <<nodes, weights, health, conns, rr, todo, cands>>
  BY DEF ClearTunnel, SessionKeeps, lists, pickers, probes
<1>2. conns \in [Tags -> Nat] /\ conns' = conns
  BY <1>1 DEF Types
<1>3. conns' \in [Tags -> Nat]
  BY <1>2
<1>4. \A n \in Tags : conns'[n] <= conns[n]
  BY <1>2
<1> QED
  BY <1>1, <1>3, <1>4, ReturnStep

\* Steps of probers, administrators and clients.
Aside ==
  \/ \E s \in Sessions : ConnectFails(s) \/ TunnelUp(s)
  \/ Age \/ StartRound
  \/ \E p \in Probers : Check(p)
  \/ \E w \in Web : Administer(w)
  \/ \E n \in Tags : Flip(n)

LEMMA AsideKeeps ==
  ASSUME Aside
  PROVE  UNCHANGED <<rr, at, ses, todo, cands, choice>>
BY DEF Aside, ConnectFails, TunnelUp, Age, StartRound, Check, BeginProbe, EndProbe, RecordProbe,
   Administer, LowerRemoved, MarkRemoved, CheckNodes, Reschedule, AddNode, RemoveNode, RenameNode,
   SetWeight, Flip, Request, ProberKeeps, SessionKeeps, deciding, pickers

LEMMA AsideHealth ==
  ASSUME Types, Aside
  PROVE  health' \in [Tags -> Health]
<1>0. health \in [Tags -> Health]
  BY DEF Types
<1>1. ASSUME NEW p \in Probers, RecordProbe(p)
      PROVE  health' \in [Tags -> Health]
  <2> DEFINE x == Head(task[p]).tag
  <2>1. PICK ms \in Latencies :
          health' = [health EXCEPT ![x] = Probed(health[x], answer[p], ms)]
    BY <1>1 DEF RecordProbe
  <2>2. ms \in Nat
    BY BalancerAssumption
  <2> HIDE DEF x
  <2>3. x \in Tags => Probed(health[x], answer[p], ms) \in Health
    BY <1>0, <2>2, ProbedIsHealth
  <2> QED BY <1>0, <2>1, <2>3
<1>2. ASSUME NEW w \in Web, MarkRemoved(w)
      PROVE  health' \in [Tags -> Health]
  <2> DEFINE x == Head(task[w]).tag
  <2>1. health' = [health EXCEPT ![x] = marked(health[x])]
    BY <1>2 DEF MarkRemoved
  <2> HIDE DEF x
  <2>2. x \in Tags => marked(health[x]) \in Health
    BY <1>0, ProbedIsHealth
  <2> QED BY <1>0, <2>1, <2>2
<1>3. ASSUME ~\E p \in Probers : RecordProbe(p), ~\E w \in Web : MarkRemoved(w)
      PROVE  health' = health
  BY <1>3, Aside DEF Aside, ConnectFails, TunnelUp, Age, StartRound, Check, BeginProbe, EndProbe,
     Administer, LowerRemoved, CheckNodes, Reschedule, AddNode, RemoveNode, RenameNode,
     SetWeight, Flip, Request, SessionKeeps, probes
<1> QED
  BY <1>0, <1>1, <1>2, <1>3

LEMMA AsideCounts ==
  ASSUME Types, Aside
  PROVE  conns' \in [Tags -> Nat] /\ \A n \in Tags : conns'[n] <= conns[n]
<1>1. ASSUME NEW w \in Web, LowerRemoved(w)
      PROVE  conns' \in [Tags -> Nat] /\ \A n \in Tags : conns'[n] <= conns[n]
  BY <1>1, DecLowers DEF LowerRemoved
<1>2. ASSUME ~\E w \in Web : LowerRemoved(w)
      PROVE  conns' = conns
  BY <1>2, Aside DEF Aside, ConnectFails, TunnelUp, Age, StartRound, Check, BeginProbe, EndProbe,
     RecordProbe, Administer, MarkRemoved, CheckNodes, Reschedule, AddNode, RemoveNode,
     RenameNode, SetWeight, Flip, Request
<1>3. conns' = conns => conns' \in [Tags -> Nat] /\ \A n \in Tags : conns'[n] <= conns[n]
  BY DEF Types
<1> QED
  BY <1>1, <1>2, <1>3

LEMMA AsideLists ==
  ASSUME Types, Aside
  PROVE  nodes' \in Seq(Tags) /\ weights' \in [Tags -> Nat]
<1>0. nodes \in Seq(Tags) /\ weights \in [Tags -> Nat]
  BY DEF Types
<1>1. ASSUME NEW w \in Web, NEW n \in Tags, AddNode(w, n)
      PROVE  nodes' \in Seq(Tags) /\ weights' = weights
  BY <1>0, <1>1 DEF AddNode
<1>2. ASSUME NEW w \in Web, NEW n \in Tags, RemoveNode(w, n)
      PROVE  nodes' \in Seq(Tags) /\ weights' = weights
  <2>1. PICK k \in DOMAIN nodes :
          nodes' = SubSeq(nodes, 1, k - 1) \o SubSeq(nodes, k + 1, Len(nodes))
    BY <1>2 DEF RemoveNode
  <2>2. /\ SubSeq(nodes, 1, k - 1) \in Seq(Tags)
        /\ SubSeq(nodes, k + 1, Len(nodes)) \in Seq(Tags)
    BY <1>0
  <2>3. weights' = weights
    BY <1>2 DEF RemoveNode
  <2> QED BY <2>1, <2>2, <2>3
<1>3. ASSUME NEW w \in Web, NEW n \in Tags, NEW m \in Tags, RenameNode(w, n, m)
      PROVE  nodes' \in Seq(Tags) /\ weights' = weights
  <2>1. Len(nodes) \in Nat /\ DOMAIN nodes = 1..Len(nodes)
    BY <1>0
  <2>2. nodes' \in [1..Len(nodes) -> Tags]
    BY <1>0, <1>3, <2>1 DEF RenameNode
  <2>3. nodes' \in Seq(Tags)
    BY <2>1, <2>2
  <2> QED BY <1>3, <2>3 DEF RenameNode
<1>4. ASSUME NEW w \in Web, NEW n \in Tags, NEW x \in Weights, SetWeight(w, n, x)
      PROVE  nodes' = nodes /\ weights' \in [Tags -> Nat]
  <2>1. x \in Nat
    BY BalancerAssumption
  <2> QED BY <1>0, <1>4, <2>1 DEF SetWeight
<1>5. ASSUME \A w \in Web : \A n \in Tags :
               /\ ~AddNode(w, n) /\ ~RemoveNode(w, n)
               /\ \A m \in Tags : ~RenameNode(w, n, m)
               /\ \A x \in Weights : ~SetWeight(w, n, x)
      PROVE  nodes' = nodes /\ weights' = weights
  BY <1>5, Aside DEF Aside, ConnectFails, TunnelUp, Age, StartRound, Check, BeginProbe, EndProbe,
     RecordProbe, Administer, LowerRemoved, MarkRemoved, CheckNodes, Reschedule, Flip,
     SessionKeeps, lists
<1> QED
  BY <1>0, <1>1, <1>2, <1>3, <1>4, <1>5

LEMMA AsideStep ==
  ASSUME Types, Room, Aside
  PROVE  Types' /\ Room'
<1>1. Types'
  BY AsideKeeps, AsideHealth, AsideCounts, AsideLists, OtherTypes
<1>2. Room'
  BY AsideKeeps, AsideCounts, OtherRoom
<1> QED
  BY <1>1, <1>2

LEMMA RoomNext ==
  ASSUME Types, Room, [Next]_vars
  PROVE  Types' /\ Room'
<1>1. ASSUME NEW t \in Threads, Route(t)
      PROVE  Types' /\ Room'
  <2>1. CASE AffinityStatus(t) \/ AffinityCount(t) \/ AffinityDrop(t)
    BY <2>1, AffinityStep
  <2>2. CASE ListNodes(t)
    BY <2>2, ListStep
  <2>3. CASE NodeHealth(t)
    BY <2>3, HealthStep
  <2>4. CASE NodeLoad(t)
    BY <2>4, LoadStep
  <2>5. CASE NoCandidate(t)
    BY <2>5, NoCandidateStep
  <2>6. CASE PickRoundRobin(t)
    <3>1. PICK i : Chosen(t, i)
      BY <2>6 DEF PickRoundRobin
    <3>2. rr' \in Nat
      BY <2>6 DEF PickRoundRobin, Types
    <3> QED BY <3>1, <3>2, PickStep
  <2>7. CASE PickWeighted(t)
    <3>1. PICK i : Chosen(t, i)
      BY <2>7 DEF PickWeighted
    <3>2. rr' \in Nat
      BY <2>7 DEF PickWeighted, Types
    <3> QED BY <3>1, <3>2, PickStep
  <2>8. CASE PickLeast(t)
    <3>1. PICK i : Chosen(t, i)
      BY <2>8 DEF PickLeast
    <3>2. rr' \in Nat
      BY <2>8 DEF PickLeast, pickers, Types
    <3> QED BY <3>1, <3>2, PickStep
  <2>9. CASE Record(t)
    BY <2>9, RecordStep
  <2>10. CASE Take(t)
    BY <2>10, TakeStep
  <2> QED
    BY <1>1, <2>1, <2>2, <2>3, <2>4, <2>5, <2>6, <2>7, <2>8, <2>9, <2>10 DEF Route
<1>2. ASSUME NEW t \in Threads, Close(t)
      PROVE  Types' /\ Room'
  BY <1>2, GiveStep, ClearStep DEF Close
<1>3. ASSUME NEW t \in Threads, NEW s \in Sessions, Decide(t, s) \/ CloseSession(t, s)
      PROVE  Types' /\ Room'
  BY <1>3, DecideStep, CloseStep
<1>4. CASE Aside
  BY <1>4, AsideStep
<1>5. CASE UNCHANGED vars
  <2>1. UNCHANGED <<rr, at, ses, todo, cands, choice, nodes, conns, weights, health>>
    BY <1>5 DEF vars, lists, pickers, probes, deciding
  <2>2. \A n \in Tags : conns'[n] <= conns[n]
    BY <2>1 DEF Types
  <2>3. Types'
    BY <2>1, OtherTypes DEF Types
  <2> QED BY <2>1, <2>2, <2>3, OtherRoom DEF Types
<1> QED
  BY <1>1, <1>2, <1>3, <1>4, <1>5 DEF Next, Aside

\* A node's capacity is tested in one lock region and its count raised in
\* another, but with any number of sessions and nodes the count passes the
\* capacity by less than the number of io threads (load_balancer.cpp:42, 67-69
\* and session.cpp:525).
THEOREM CapacityOvershoot == Spec => []OvershootBounded
<1>1. Init => Types /\ Room
  BY InitTypes, InitRoom
<1>2. Types /\ Room /\ [Next]_vars => (Types /\ Room)'
  BY RoomNext
<1>3. Types /\ Room => OvershootBounded
  <2> SUFFICES ASSUME Types, Room, NEW n \in Tags
               PROVE  conns[n] <= Capacity + Cardinality(Threads) - 1
      BY DEF OvershootBounded
  <2>1. conns[n] \in Nat /\ Capacity \in Nat
    BY BalancerAssumption DEF Types
  <2>2. conns[n] + Cardinality(Finders(n)) <= Capacity - 1 + Cardinality(Threads)
    BY DEF Room
  <2> QED BY <2>1, <2>2, FindersFinite
<1> QED
  BY <1>1, <1>2, <1>3, PTL DEF Spec

-----------------------------------------------------------------------------
(* The count of a node and the sessions it is a count of *)

Deciding(t) == at[t] \notin {"idle", "give", "clear"}

\* Every session that is being routed has one thread of its own; one whose
\* tunnel is being closed may have several.
Owners ==
  /\ phase = [s \in Sessions |-> phase[s]]
  /\ node = [s \in Sessions |-> node[s]]
  /\ active = [s \in Sessions |-> active[s]]
  /\ \A t \in Threads : Deciding(t) => ses[t] \in Sessions /\ phase[ses[t]] = "routing"
  /\ \A t, u \in Threads : Deciding(t) /\ Deciding(u) /\ t # u => ses[t] # ses[u]
  /\ \A t \in Threads :
       at[t] \in {"give", "clear"} => ses[t] \in Sessions /\ phase[ses[t]] = "tunnel"
  /\ \A s \in Sessions : phase[s] \in {"new", "routing"} => node[s] = NoTag

LEMMA InitOwners == Init => Owners /\ CountsFollowSessions
<1> SUFFICES ASSUME Init PROVE Owners /\ CountsFollowSessions
    OBVIOUS
<1>1. Owners
  BY DEF Init, Owners, Deciding
<1>2. ASSUME NEW n \in Tags PROVE conns[n] = 0 /\ Counted(n) = {}
  BY BalancerAssumption DEF Init, Counted
<1>3. Cardinality({}) = 0
  BY FS_EmptySet
<1> QED
  BY <1>1, <1>2, <1>3 DEF CountsFollowSessions

\* What may happen to one count: nothing, a session more, a session less, or a
\* loss that is on record.
LEMMA CountStep ==
  ASSUME Types, NEW n \in Tags,
         conns[n] <= Cardinality(Counted(n)),
         ~skewed => conns[n] = Cardinality(Counted(n)),
         skewed => skewed',
         conns'[n] \in Nat,
         \/ Counted(n)' = Counted(n) /\ conns'[n] <= conns[n]
            /\ (conns'[n] = conns[n] \/ skewed')
         \/ \E s \in Sessions \ Counted(n) :
              Counted(n)' = Counted(n) \cup {s} /\ conns'[n] = conns[n] + 1
         \/ \E s \in Counted(n) :
              /\ Counted(n)' = Counted(n) \ {s}
              /\ conns'[n] = IF conns[n] > 0 THEN conns[n] - 1 ELSE 0
  PROVE  /\ conns'[n] <= Cardinality(Counted(n)')
         /\ ~skewed' => conns'[n] = Cardinality(Counted(n)')
<1>1. IsFiniteSet(Counted(n)) /\ Cardinality(Counted(n)) \in Nat /\ conns[n] \in Nat
  <2>1. Counted(n) \subseteq Sessions
    BY DEF Counted
  <2> QED BY <2>1, BalancerAssumption, FS_Subset, FS_CardinalityType DEF Types
<1>2. CASE /\ Counted(n)' = Counted(n) /\ conns'[n] <= conns[n]
           /\ (conns'[n] = conns[n] \/ skewed')
  BY <1>1, <1>2
<1>3. ASSUME NEW s \in Sessions \ Counted(n),
             Counted(n)' = Counted(n) \cup {s}, conns'[n] = conns[n] + 1
      PROVE  /\ conns'[n] <= Cardinality(Counted(n)')
             /\ ~skewed' => conns'[n] = Cardinality(Counted(n)')
  <2>1. Cardinality(Counted(n)') = Cardinality(Counted(n)) + 1
    BY <1>1, <1>3, FS_AddElement
  <2> QED BY <1>1, <1>3, <2>1
<1>4. ASSUME NEW s \in Counted(n),
             Counted(n)' = Counted(n) \ {s},
             conns'[n] = IF conns[n] > 0 THEN conns[n] - 1 ELSE 0
      PROVE  /\ conns'[n] <= Cardinality(Counted(n)')
             /\ ~skewed' => conns'[n] = Cardinality(Counted(n)')
  <2>1. Cardinality(Counted(n)') = Cardinality(Counted(n)) - 1
        /\ Cardinality(Counted(n)') \in Nat
    BY <1>1, <1>4, FS_RemoveElement, FS_CardinalityType
  <2> QED BY <1>1, <1>4, <2>1
<1> QED
  BY <1>2, <1>3, <1>4

\* A step that changes neither the sessions counted nor the counts.
LEMMA CountsKept ==
  ASSUME Types, CountsFollowSessions, UNCHANGED <<conns, skewed>>,
         \A n \in Tags : Counted(n)' = Counted(n)
  PROVE  CountsFollowSessions'
BY DEF CountsFollowSessions

\* Between its first step and the last, a decision concerns nobody else.
LEMMA RouteOwners ==
  ASSUME Types, Owners, CountsFollowSessions, NEW t \in Threads,
         Deciding(t), NEW place, place \notin {"idle", "give", "clear"},
         at' = [at EXCEPT ![t] = place],
         UNCHANGED <<ses, phase, node, active, conns, skewed>>
  PROVE  Owners' /\ CountsFollowSessions'
<1>1. \A u \in Threads : Deciding(u)' <=> Deciding(u)
  BY DEF Deciding, Types
<1>2. \A u \in Threads : /\ at'[u] \in {"give", "clear"} <=> at[u] \in {"give", "clear"}
                         /\ at'[u] = "clear" <=> at[u] = "clear"
  BY DEF Deciding, Types
<1>3. Owners'
  BY <1>1, <1>2 DEF Owners
<1>4. \A s \in Sessions : Returned(s)' <=> Returned(s)
  BY <1>2 DEF Returned
<1>5. \A n \in Tags : Counted(n)' = Counted(n)
  BY <1>4 DEF Counted
<1> QED
  BY <1>3, <1>5, CountsKept

LEMMA DecideOwners ==
  ASSUME Types, Owners, CountsFollowSessions, NEW t \in Threads, NEW s \in Sessions,
         Decide(t, s)
  PROVE  Owners' /\ CountsFollowSessions'
<1>1. /\ phase[s] = "new" /\ phase' = [phase EXCEPT ![s] = "routing"]
      /\ ses' = [ses EXCEPT ![t] = s] /\ at[t] = "idle"
      /\ UNCHANGED <<node, active, conns, skewed>>
  BY DEF Decide, Goto, history
<1>2. PICK place \in {"status", "list"} : at' = [at EXCEPT ![t] = place]
  BY DEF Decide, Goto
<1>3. /\ at'[t] \in {"status", "list"} /\ ses'[t] = s
      /\ \A u \in Threads \ {t} : at'[u] = at[u] /\ ses'[u] = ses[u]
  BY <1>1, <1>2 DEF Types
<1>4. phase'[s] = "routing" /\ \A r \in Sessions \ {s} : phase'[r] = phase[r]
  BY <1>1 DEF Owners
<1>5. \A u \in Threads : Deciding(u)' <=> Deciding(u) \/ u = t
  BY <1>3 DEF Deciding
<1>6. \A u \in Threads : Deciding(u) => ses[u] # s
  BY <1>1 DEF Owners
<1>7. ~Deciding(t) /\ at[t] \notin {"give", "clear"}
  BY <1>1 DEF Deciding
<1>8. \A u \in Threads : at'[u] \in {"give", "clear"} =>
        u # t /\ at[u] \in {"give", "clear"} /\ ses[u] # s
  <2>1. \A u \in Threads : at[u] \in {"give", "clear"} => ses[u] # s
    BY <1>1 DEF Owners
  <2> QED BY <1>3, <2>1
<1>9. Owners'
  <2>1. /\ phase' = [r \in Sessions |-> phase'[r]]
        /\ node' = [r \in Sessions |-> node'[r]]
        /\ active' = [r \in Sessions |-> active'[r]]
    BY <1>1 DEF Owners
  <2>2. \A u \in Threads : Deciding(u)' => ses'[u] \in Sessions /\ phase'[ses'[u]] = "routing"
    BY <1>3, <1>4, <1>5, <1>6 DEF Owners
  <2>3. \A u, v \in Threads : Deciding(u)' /\ Deciding(v)' /\ u # v => ses'[u] # ses'[v]
    BY <1>3, <1>5, <1>6 DEF Owners
  <2>4. \A u \in Threads :
          at'[u] \in {"give", "clear"} => ses'[u] \in Sessions /\ phase'[ses'[u]] = "tunnel"
    BY <1>3, <1>4, <1>8 DEF Owners
  <2>5. \A r \in Sessions : phase'[r] \in {"new", "routing"} => node'[r] = NoTag
    BY <1>1, <1>4 DEF Owners
  <2> QED BY <2>1, <2>2, <2>3, <2>4, <2>5 DEF Owners
<1>10. \A r \in Sessions : Returned(r)' <=> Returned(r)
  BY <1>1, <1>3, <1>4, <1>7 DEF Returned
<1>11. \A n \in Tags : Counted(n)' = Counted(n)
  BY <1>1, <1>10 DEF Counted
<1> QED
  BY <1>1, <1>9, <1>11, CountsKept

\* A decision ends: its session goes on with node n, which is NoTag if there
\* was no candidate.
LEMMA EndOwners ==
  ASSUME Types, Owners, NEW t \in Threads, Deciding(t), Return(t),
         phase' = [phase EXCEPT ![ses[t]] = "connecting"],
         NEW n, node' = [node EXCEPT ![ses[t]] = n], UNCHANGED active
  PROVE  /\ Owners'
         /\ ses[t] \in Sessions /\ node[ses[t]] = NoTag
         /\ \A r \in Sessions : Returned(r)' <=> Returned(r)
         /\ ~Returned(ses[t])
<1>1. ses[t] \in Sessions /\ phase[ses[t]] = "routing" /\ node[ses[t]] = NoTag
  BY DEF Owners
<1> DEFINE s == ses[t]
<1>2. /\ at'[t] = "idle" /\ \A u \in Threads \ {t} : at'[u] = at[u] /\ ses'[u] = ses[u]
  BY DEF Return, Types
<1>3. /\ phase'[s] = "connecting" /\ node'[s] = n
      /\ \A r \in Sessions \ {s} : phase'[r] = phase[r] /\ node'[r] = node[r]
  BY <1>1 DEF Owners
<1>4. \A u \in Threads : Deciding(u)' <=> Deciding(u) /\ u # t
  BY <1>2 DEF Deciding
<1>5. \A u \in Threads : Deciding(u) /\ u # t => ses[u] # s
  BY DEF Owners
<1>6. \A u \in Threads : at'[u] \in {"give", "clear"} =>
        u # t /\ at[u] \in {"give", "clear"} /\ ses[u] # s
  <2>1. \A u \in Threads : at[u] \in {"give", "clear"} => ses[u] # s
    BY <1>1 DEF Owners
  <2> QED BY <1>2, <2>1
<1>7. \A u \in Threads : at[u] = "clear" => at'[u] = "clear"
  BY <1>2 DEF Deciding
<1>12. /\ \A u \in Threads : Deciding(u) => ses[u] \in Sessions /\ phase[ses[u]] = "routing"
       /\ \A u \in Threads :
            at[u] \in {"give", "clear"} => ses[u] \in Sessions /\ phase[ses[u]] = "tunnel"
  BY DEF Owners
<1> HIDE DEF s
<1>8. /\ phase' = [r \in Sessions |-> phase'[r]]
      /\ node' = [r \in Sessions |-> node'[r]]
      /\ active' = [r \in Sessions |-> active'[r]]
  BY DEF Owners
<1>9. Owners'
  <2>1. \A u \in Threads : Deciding(u)' => ses'[u] \in Sessions /\ phase'[ses'[u]] = "routing"
    BY <1>2, <1>3, <1>4, <1>5, <1>12
  <2>2. \A u, v \in Threads : Deciding(u)' /\ Deciding(v)' /\ u # v => ses'[u] # ses'[v]
    BY <1>2, <1>4 DEF Owners
  <2>3. \A u \in Threads :
          at'[u] \in {"give", "clear"} => ses'[u] \in Sessions /\ phase'[ses'[u]] = "tunnel"
    BY <1>2, <1>3, <1>6, <1>12
  <2>4. \A r \in Sessions : phase'[r] \in {"new", "routing"} => node'[r] = NoTag
    BY <1>3 DEF Owners
  <2> QED BY <1>8, <2>1, <2>2, <2>3, <2>4 DEF Owners
<1>10. \A r \in Sessions : Returned(r)' <=> Returned(r)
  <2> TAKE r \in Sessions
  <2>1. CASE r = s
    BY <1>1, <1>3, <2>1 DEF Returned, s
  <2>2. CASE r # s
    <3>1. phase'[r] = phase[r] /\ active'[r] = active[r]
      BY <1>3, <2>2
    <3>2. (\E u \in Threads : at'[u] = "clear" /\ ses'[u] = r)
            <=> (\E u \in Threads : at[u] = "clear" /\ ses[u] = r)
      BY <1>2, <1>6, <1>7
    <3> QED BY <3>1, <3>2 DEF Returned
  <2> QED BY <2>1, <2>2
<1>11. ~Returned(ses[t])
  BY <1>1 DEF Returned
<1> QED
  BY <1>1, <1>9, <1>10, <1>11

\* A decision that ends on a node counts its session there.
LEMMA TakeOwners ==
  ASSUME Types, Owners, CountsFollowSessions, NEW t \in Threads, Take(t)
  PROVE  Owners' /\ CountsFollowSessions'
<1>1. /\ Deciding(t) /\ Return(t)
      /\ phase' = [phase EXCEPT ![ses[t]] = "connecting"]
      /\ node' = [node EXCEPT ![ses[t]] = choice[t]]
      /\ conns' = [conns EXCEPT ![choice[t]] = conns[choice[t]] + 1]
      /\ UNCHANGED <<active, skewed>>
  BY DEF Take, Deciding, history
<1> DEFINE s == ses[t]
<1>2. /\ Owners' /\ s \in Sessions /\ node[s] = NoTag
      /\ \A r \in Sessions : Returned(r)' <=> Returned(r)
      /\ ~Returned(s)
  BY <1>1, EndOwners
<1>3. node'[s] = choice[t] /\ \A r \in Sessions \ {s} : node'[r] = node[r]
  BY <1>1, <1>2 DEF Owners
<1>4. /\ conns' \in [Tags -> Nat]
      /\ \A n \in Tags :
           conns'[n] = IF n = choice[t] THEN conns[choice[t]] + 1 ELSE conns[n]
  <2>1. choice[t] \in Tags => conns[choice[t]] + 1 \in Nat
    BY DEF Types
  <2> QED BY <1>1, <2>1, OneCount
<1> HIDE DEF s
<1>5. ASSUME NEW n \in Tags
      PROVE  /\ conns'[n] <= Cardinality(Counted(n)')
             /\ ~skewed' => conns'[n] = Cardinality(Counted(n)')
  <2>1. /\ conns[n] <= Cardinality(Counted(n))
        /\ ~skewed => conns[n] = Cardinality(Counted(n))
    BY DEF CountsFollowSessions
  <2>2. conns[n] \in Nat /\ conns'[n] \in Nat /\ n # NoTag
    BY <1>4, BalancerAssumption DEF Types
  <2>3. s \notin Counted(n)
    BY <1>2, <2>2 DEF Counted
  <2>4. CASE n = choice[t]
    <3>1. Counted(n)' = Counted(n) \cup {s}
      BY <1>2, <1>3, <2>4 DEF Counted
    <3>2. conns'[n] = conns[n] + 1
      BY <1>4, <2>4
    <3> QED
      BY <1>1, <1>2, <2>1, <2>2, <2>3, <3>1, <3>2, CountStep
  <2>5. CASE n # choice[t]
    <3>1. Counted(n)' = Counted(n)
      BY <1>2, <1>3, <2>2, <2>5 DEF Counted
    <3>2. conns'[n] = conns[n] /\ skewed' = skewed
      BY <1>1, <1>4, <2>5
    <3> QED
      BY <2>1, <3>1, <3>2
  <2> QED
    BY <2>4, <2>5
<1> QED
  BY <1>2, <1>5 DEF CountsFollowSessions

LEMMA NoCandidateOwners ==
  ASSUME Types, Owners, CountsFollowSessions, NEW t \in Threads, NoCandidate(t)
  PROVE  Owners' /\ CountsFollowSessions'
<1>1. /\ Deciding(t) /\ Return(t)
      /\ phase' = [phase EXCEPT ![ses[t]] = "connecting"]
      /\ UNCHANGED <<conns, node, active, skewed>>
  BY DEF NoCandidate, Examined, Deciding, history
<1>2. node' = [node EXCEPT ![ses[t]] = node[ses[t]]]
  <2>1. ses[t] \in Sessions
    BY <1>1 DEF Owners
  <2> QED BY <1>1, <2>1 DEF Owners
<1>3. Owners' /\ \A r \in Sessions : Returned(r)' <=> Returned(r)
  BY <1>1, <1>2, EndOwners
<1>4. \A n \in Tags : Counted(n)' = Counted(n)
  BY <1>1, <1>3 DEF Counted
<1> QED
  BY <1>1, <1>3, <1>4, CountsKept

\* The connection is made, or it is not.
LEMMA ConnectOwners ==
  ASSUME Types, Owners, CountsFollowSessions, NEW s \in Sessions,
         ConnectFails(s) \/ TunnelUp(s)
  PROVE  Owners' /\ CountsFollowSessions'
<1>1. /\ phase[s] = "connecting"
      /\ UNCHANGED <<conns, at, ses, node, skewed>>
  BY DEF ConnectFails, TunnelUp, history
<1>2. PICK p \in {"failed", "tunnel"} : phase' = [phase EXCEPT ![s] = p]
  BY DEF ConnectFails, TunnelUp
<1>3. active' = [active EXCEPT ![s] = TRUE] \/ (active' = active /\ phase' = [phase EXCEPT ![s] = "failed"])
  BY DEF ConnectFails, TunnelUp
<1>4. phase'[s] = p /\ \A r \in Sessions \ {s} : phase'[r] = phase[r] /\ active'[r] = active[r]
  BY <1>2, <1>3 DEF Owners
<1>5. \A u \in Threads : /\ Deciding(u) => ses[u] \in Sessions \ {s}
                         /\ at[u] \in {"give", "clear"} => ses[u] \in Sessions \ {s}
  BY <1>1 DEF Owners
<1>6. /\ phase' = [r \in Sessions |-> phase'[r]]
      /\ node' = [r \in Sessions |-> node'[r]]
      /\ active' = [r \in Sessions |-> active'[r]]
  BY <1>1, <1>2, <1>3 DEF Owners
<1>7. \A u \in Threads : Deciding(u)' <=> Deciding(u)
  BY <1>1 DEF Deciding
<1>8. Owners'
  <2>1. \A u \in Threads : Deciding(u)' => ses'[u] \in Sessions /\ phase'[ses'[u]] = "routing"
    BY <1>1, <1>4, <1>5, <1>7 DEF Owners
  <2>2. \A u, v \in Threads : Deciding(u)' /\ Deciding(v)' /\ u # v => ses'[u] # ses'[v]
    BY <1>1, <1>7 DEF Owners
  <2>3. \A u \in Threads :
          at'[u] \in {"give", "clear"} => ses'[u] \in Sessions /\ phase'[ses'[u]] = "tunnel"
    BY <1>1, <1>4, <1>5 DEF Owners
  <2>4. \A r \in Sessions : phase'[r] \in {"new", "routing"} => node'[r] = NoTag
    BY <1>1, <1>2, <1>4 DEF Owners
  <2> QED BY <1>6, <2>1, <2>2, <2>3, <2>4 DEF Owners
<1>9. \A r \in Sessions : Returned(r)' <=> Returned(r)
  <2>1. Returned(s)' <=> Returned(s)
    <3>1. ~Returned(s)
      BY <1>1 DEF Returned
    <3>2. ~\E u \in Threads : at'[u] = "clear" /\ ses'[u] = s
      BY <1>1, <1>5
    <3>3. phase'[s] = "tunnel" => active'[s]
      BY <1>3, <1>4 DEF Owners
    <3> QED BY <3>1, <3>2, <3>3 DEF Returned
  <2>2. ASSUME NEW r \in Sessions \ {s} PROVE Returned(r)' <=> Returned(r)
    BY <1>1, <1>4, <2>2 DEF Returned
  <2> QED BY <2>1, <2>2
<1>10. \A n \in Tags : Counted(n)' = Counted(n)
  BY <1>1, <1>9 DEF Counted
<1> QED
  BY <1>1, <1>8, <1>10, CountsKept

\* A step of thread t on session s, whose tunnel is up, that no decision and no
\* other session takes notice of.
LEMMA TunnelOwners ==
  ASSUME Types, Owners, NEW t \in Threads, NEW s \in Sessions, phase[s] = "tunnel",
         ~Deciding(t), UNCHANGED <<phase, node>>,
         active' = [r \in Sessions |-> active'[r]],
         \A r \in Sessions \ {s} : active'[r] = active[r],
         NEW place \in {"idle", "give", "clear"}, at' = [at EXCEPT ![t] = place],
         NEW x, ses' = [ses EXCEPT ![t] = x], place # "idle" => x = s,
         at[t] = "clear" => ses[t] = s
  PROVE  /\ Owners'
         /\ \A r \in Sessions \ {s} : Returned(r)' <=> Returned(r)
         /\ Returned(s)' <=> ~active'[s] \/ \E u \in Threads : at'[u] = "clear" /\ ses'[u] = s
<1>1. /\ at'[t] = place /\ ses'[t] = x
      /\ \A u \in Threads \ {t} : at'[u] = at[u] /\ ses'[u] = ses[u]
  BY DEF Types
<1>3. \A u \in Threads : Deciding(u)' <=> Deciding(u)
  BY <1>1 DEF Deciding
<1>4. Owners'
  <2>1. /\ phase' = [r \in Sessions |-> phase'[r]]
        /\ node' = [r \in Sessions |-> node'[r]]
        /\ active' = [r \in Sessions |-> active'[r]]
    BY DEF Owners
  <2>2. \A u \in Threads : Deciding(u)' => ses'[u] \in Sessions /\ phase'[ses'[u]] = "routing"
    BY <1>1, <1>3 DEF Owners
  <2>3. \A u, v \in Threads : Deciding(u)' /\ Deciding(v)' /\ u # v => ses'[u] # ses'[v]
    BY <1>1, <1>3 DEF Owners
  <2>4. \A u \in Threads :
          at'[u] \in {"give", "clear"} => ses'[u] \in Sessions /\ phase'[ses'[u]] = "tunnel"
    BY <1>1 DEF Owners
  <2>5. \A r \in Sessions : phase'[r] \in {"new", "routing"} => node'[r] = NoTag
    BY DEF Owners
  <2> QED BY <2>1, <2>2, <2>3, <2>4, <2>5 DEF Owners
<1>5. ASSUME NEW r \in Sessions \ {s} PROVE Returned(r)' <=> Returned(r)
  <2>1. (\E u \in Threads : at'[u] = "clear" /\ ses'[u] = r)
          <=> (\E u \in Threads : at[u] = "clear" /\ ses[u] = r)
    BY <1>1
  <2> QED BY <2>1 DEF Returned
<1>6. Returned(s)' <=> ~active'[s] \/ \E u \in Threads : at'[u] = "clear" /\ ses'[u] = s
  BY DEF Returned
<1> QED
  BY <1>4, <1>5, <1>6

LEMMA CloseOwners ==
  ASSUME Types, Owners, CountsFollowSessions, NEW t \in Threads, NEW s \in Sessions,
         CloseSession(t, s)
  PROVE  Owners' /\ CountsFollowSessions'
<1>1. /\ phase[s] = "tunnel" /\ at[t] = "idle"
      /\ UNCHANGED <<conns, phase, node, active, skewed>>
  BY DEF CloseSession, Goto, history
<1>2. ~Deciding(t) /\ active' = active /\ active' = [r \in Sessions |-> active'[r]]
  BY <1>1 DEF Deciding, Owners
<1>3. CASE active[s]
  <2>1. PICK place \in {"give", "clear"} :
          /\ at' = [at EXCEPT ![t] = place] /\ ses' = [ses EXCEPT ![t] = s]
          /\ place = "clear" => node[s] = NoTag
    BY <1>3 DEF CloseSession, Goto
  <2>5. place \in {"idle", "give", "clear"} /\ at[t] # "clear" /\ UNCHANGED <<phase, node>>
    BY <1>1
  <2>2. /\ Owners' /\ \A r \in Sessions \ {s} : Returned(r)' <=> Returned(r)
        /\ Returned(s)' <=> ~active'[s] \/ \E u \in Threads : at'[u] = "clear" /\ ses'[u] = s
    BY <1>1, <1>2, <2>1, <2>5, TunnelOwners
  <2>3. ASSUME node[s] # NoTag PROVE Returned(s)' <=> Returned(s)
    <3>1. at'[t] = "give" /\ \A u \in Threads \ {t} : at'[u] = at[u] /\ ses'[u] = ses[u]
      BY <2>1, <2>3 DEF Types
    <3> QED BY <1>1, <2>2, <3>1 DEF Returned
  <2>4. ASSUME NEW n \in Tags PROVE Counted(n)' = Counted(n)
    <3>1. node[s] = n => node[s] # NoTag
      BY BalancerAssumption
    <3> QED BY <1>1, <2>2, <2>3, <3>1 DEF Counted
  <2> QED
    BY <1>1, <2>2, <2>4, CountsKept
<1>4. CASE ~active[s]
  <2>1. UNCHANGED <<at, ses>>
    BY <1>4 DEF CloseSession
  <2>2. \A n \in Tags : Counted(n)' = Counted(n)
    BY <1>1, <2>1 DEF Counted, Returned
  <2>3. Owners'
    BY <1>1, <2>1 DEF Owners, Deciding
  <2> QED
    BY <1>1, <2>2, <2>3, CountsKept
<1> QED
  BY <1>3, <1>4

\* The first end of a tunnel takes its session off the node; the second may take
\* off another.
LEMMA GiveOwners ==
  ASSUME Types, Owners, CountsFollowSessions, NEW t \in Threads, GiveBack(t)
  PROVE  Owners' /\ CountsFollowSessions'
<1>0. PICK s : s = ses[t]
  OBVIOUS
<1>1. /\ at[t] = "give" /\ at' = [at EXCEPT ![t] = "clear"] /\ ses' = ses
      /\ Dec(node[s])
      /\ skewed' = (skewed \/ Returned(s))
      /\ UNCHANGED <<phase, node, active>>
  BY <1>0 DEF GiveBack, Goto, sessionVars
<1>2. s \in Sessions /\ phase[s] = "tunnel" /\ ~Deciding(t)
  BY <1>0, <1>1 DEF Owners, Deciding
<1>3. ses' = [ses EXCEPT ![t] = s]
  BY <1>0, <1>1 DEF Types
<1>4. active' = active /\ active' = [r \in Sessions |-> active'[r]]
  BY <1>1 DEF Owners
<1>5. /\ Owners' /\ \A r \in Sessions \ {s} : Returned(r)' <=> Returned(r)
      /\ Returned(s)' <=> ~active'[s] \/ \E u \in Threads : at'[u] = "clear" /\ ses'[u] = s
  <2>1. "clear" \in {"idle", "give", "clear"} /\ at[t] # "clear" /\ UNCHANGED <<phase, node>>
    BY <1>1
  <2>2. /\ at' = [at EXCEPT ![t] = "clear"] /\ ("clear" # "idle" => s = s)
        /\ (at[t] = "clear" => ses[t] = s)
        /\ \A r \in Sessions \ {s} : active'[r] = active[r]
    BY <1>1, <1>4
  <2> QED BY <1>2, <1>3, <1>4, <2>1, <2>2, TunnelOwners
<1>6. Returned(s)'
  <2>1. at'[t] = "clear" /\ ses'[t] = s
    BY <1>1, <1>3 DEF Types
  <2> QED BY <1>5, <2>1
<1>7. /\ conns' \in [Tags -> Nat]
      /\ \A n \in Tags : conns'[n] = IF n # node[s] THEN conns[n]
                                     ELSE IF conns[n] > 0 THEN conns[n] - 1 ELSE 0
  <2> DEFINE x == IF conns[node[s]] > 0 THEN conns[node[s]] - 1 ELSE 0
  <2>1. conns' = [conns EXCEPT ![node[s]] = x]
    BY <1>1 DEF Dec
  <2>2. node[s] \in Tags => x \in Nat
    BY DEF Types
  <2>3. /\ conns' \in [Tags -> Nat]
        /\ \A n \in Tags : conns'[n] = IF n = node[s] THEN x ELSE conns[n]
    <3> HIDE DEF x
    <3> QED BY <2>1, <2>2, OneCount
  <2> QED BY <2>3
<1>8. ASSUME NEW n \in Tags
      PROVE  /\ conns'[n] <= Cardinality(Counted(n)')
             /\ ~skewed' => conns'[n] = Cardinality(Counted(n)')
  <2>1. /\ conns[n] <= Cardinality(Counted(n))
        /\ ~skewed => conns[n] = Cardinality(Counted(n))
    BY DEF CountsFollowSessions
  <2>2. conns[n] \in Nat /\ conns'[n] \in Nat
    BY <1>7 DEF Types
  <2>3. skewed => skewed'
    BY <1>1
  <2>4. Counted(n)' = Counted(n) \ {s}
    BY <1>1, <1>2, <1>5, <1>6 DEF Counted
  <2>5. CASE node[s] # n
    <3>1. s \notin Counted(n)
      BY <2>5 DEF Counted
    <3>2. Counted(n)' = Counted(n) /\ conns'[n] = conns[n]
      BY <1>7, <2>4, <2>5, <3>1
    <3>3. conns'[n] <= conns[n] /\ (conns'[n] = conns[n] \/ skewed')
      BY <2>2, <3>2
    <3> QED
      BY <2>1, <2>2, <2>3, <3>2, <3>3, CountStep
  <2>6. CASE node[s] = n /\ Returned(s)
    <3>1. s \notin Counted(n)
      BY <2>6 DEF Counted
    <3>2. Counted(n)' = Counted(n) /\ skewed'
      BY <1>1, <2>4, <2>6, <3>1
    <3>3. conns'[n] <= conns[n]
      BY <1>7, <2>2, <2>6
    <3> QED
      BY <2>1, <2>2, <2>3, <3>2, <3>3, CountStep
  <2>7. CASE node[s] = n /\ ~Returned(s)
    <3>1. s \in Counted(n)
      BY <1>2, <2>7 DEF Counted
    <3>2. conns'[n] = IF conns[n] > 0 THEN conns[n] - 1 ELSE 0
      BY <1>7, <2>7
    <3> QED
      BY <2>1, <2>2, <2>3, <2>4, <3>1, <3>2, CountStep
  <2> QED
    BY <2>5, <2>6, <2>7
<1> QED
  BY <1>5, <1>8 DEF CountsFollowSessions

LEMMA ClearOwners ==
  ASSUME Types, Owners, CountsFollowSessions, NEW t \in Threads, ClearTunnel(t)
  PROVE  Owners' /\ CountsFollowSessions'
<1>4. PICK s : s = ses[t]
  OBVIOUS
<1>1. /\ at[t] = "clear" /\ at' = [at EXCEPT ![t] = "idle"]
      /\ ses' = [ses EXCEPT ![t] = NoTag]
      /\ active' = [active EXCEPT ![s] = FALSE]
      /\ UNCHANGED <<conns, phase, node, skewed>>
  BY <1>4 DEF ClearTunnel, Return, history
<1>2. s \in Sessions /\ phase[s] = "tunnel" /\ ~Deciding(t)
  BY <1>1, <1>4 DEF Owners, Deciding
<1>3. Returned(s)
  BY <1>1, <1>2, <1>4 DEF Returned
<1>5. /\ Owners' /\ \A r \in Sessions \ {s} : Returned(r)' <=> Returned(r)
      /\ Returned(s)'
  <2>1. "idle" \in {"idle", "give", "clear"} /\ UNCHANGED <<phase, node>>
    BY <1>1
  <2>3. /\ active' = [r \in Sessions |-> active'[r]] /\ ~active'[s]
        /\ \A r \in Sessions \ {s} : active'[r] = active[r]
    BY <1>1, <1>2 DEF Owners
  <2>2. /\ Owners' /\ \A r \in Sessions \ {s} : Returned(r)' <=> Returned(r)
        /\ Returned(s)' <=> ~active'[s] \/ \E u \in Threads : at'[u] = "clear" /\ ses'[u] = s
    BY <1>1, <1>2, <1>4, <2>1, <2>3, TunnelOwners
  <2> QED BY <2>2, <2>3
<1>6. \A n \in Tags : Counted(n)' = Counted(n)
  BY <1>1, <1>3, <1>5 DEF Counted
<1> QED
  BY <1>1, <1>5, <1>6, CountsKept

\* The steps of a decision between its first and its last.
LEMMA RouteSteps ==
  ASSUME Types, Owners, CountsFollowSessions, NEW t \in Threads, Route(t)
  PROVE  Owners' /\ CountsFollowSessions'
<1>1. ASSUME UNCHANGED <<ses, phase, node, active, conns, skewed>>,
             NEW place \in {"status", "count", "drop", "list", "health", "load", "record", "take"},
             at' = [at EXCEPT ![t] = place], Deciding(t)
      PROVE  Owners' /\ CountsFollowSessions'
  BY <1>1, RouteOwners
<1>2. CASE \/ AffinityStatus(t) \/ AffinityCount(t) \/ AffinityDrop(t) \/ ListNodes(t)
           \/ NodeLoad(t) \/ Record(t)
  <2>1. UNCHANGED <<ses, phase, node, active, conns, skewed>>
    BY <1>2 DEF AffinityStatus, AffinityCount, AffinityDrop, ListNodes, NodeLoad, Record,
       DecisionKeeps, sessionVars, history
  <2>2. Deciding(t)
    BY <1>2 DEF AffinityStatus, AffinityCount, AffinityDrop, ListNodes, NodeLoad, Record,
       Goto, Deciding
  <2>3. PICK place \in {"count", "drop", "list", "health", "take"} :
          at' = [at EXCEPT ![t] = place]
    BY <1>2 DEF AffinityStatus, AffinityCount, AffinityDrop, ListNodes, NodeLoad, Record, Goto
  <2> QED BY <1>1, <2>1, <2>2, <2>3
<1>3. CASE NodeHealth(t)
  <2>1. UNCHANGED <<ses, phase, node, active, conns, skewed>>
    BY <1>3 DEF NodeHealth, DecisionKeeps, sessionVars, history
  <2>2. Deciding(t)
    BY <1>3 DEF NodeHealth, Goto, Deciding
  <2>3. PICK place \in {"health", "load"} : at' = [at EXCEPT ![t] = place]
    BY <1>3 DEF NodeHealth, Goto
  <2> QED BY <1>1, <2>1, <2>2, <2>3
<1>4. CASE PickRoundRobin(t) \/ PickWeighted(t) \/ PickLeast(t)
  <2>1. PICK i : Chosen(t, i)
    BY <1>4 DEF PickRoundRobin, PickWeighted, PickLeast
  <2>2. UNCHANGED <<ses, phase, node, active, conns, skewed>>
    BY <2>1 DEF Chosen, DecisionKeeps, sessionVars, history
  <2>3. Deciding(t) /\ at' = [at EXCEPT ![t] = "record"]
    BY <2>1 DEF Chosen, Examined, Deciding
  <2> QED BY <1>1, <2>2, <2>3
<1>5. CASE NoCandidate(t) \/ Take(t)
  BY <1>5, NoCandidateOwners, TakeOwners
<1> QED
  BY <1>2, <1>3, <1>4, <1>5 DEF Route

\* A step that takes no notice of sessions.
LEMMA OtherOwners ==
  ASSUME Owners, UNCHANGED <<at, ses, phase, node, active>>
  PROVE  Owners' /\ \A n \in Tags : Counted(n)' = Counted(n)
BY DEF Owners, Deciding, Counted, Returned

LEMMA LowerOwners ==
  ASSUME Types, Owners, CountsFollowSessions, NEW w \in Web, LowerRemoved(w)
  PROVE  Owners' /\ CountsFollowSessions'
<1> DEFINE x == Head(task[w]).tag
<1>1. /\ UNCHANGED <<at, ses, phase, node, active>>
      /\ conns' = [conns EXCEPT ![x] = IF conns[x] > 0 THEN conns[x] - 1 ELSE 0]
      /\ skewed' = (skewed \/ conns[x] > 0)
  BY DEF LowerRemoved, Dec, ProberKeeps, sessionVars
<1> HIDE DEF x
<1>2. Owners' /\ \A n \in Tags : Counted(n)' = Counted(n)
  BY <1>1, OtherOwners
<1>3. /\ conns' \in [Tags -> Nat]
      /\ \A n \in Tags : conns'[n] = IF n # x THEN conns[n]
                                     ELSE IF conns[n] > 0 THEN conns[n] - 1 ELSE 0
  <2> DEFINE c == IF conns[x] > 0 THEN conns[x] - 1 ELSE 0
  <2>1. x \in Tags => c \in Nat
    BY DEF Types
  <2>2. /\ conns' \in [Tags -> Nat]
        /\ \A n \in Tags : conns'[n] = IF n = x THEN c ELSE conns[n]
    <3>1. conns' = [conns EXCEPT ![x] = c]
      BY <1>1
    <3> HIDE DEF c
    <3> QED BY <2>1, <3>1, OneCount
  <2> QED BY <2>2
<1>4. ASSUME NEW n \in Tags
      PROVE  /\ conns'[n] <= Cardinality(Counted(n)')
             /\ ~skewed' => conns'[n] = Cardinality(Counted(n)')
  <2>1. /\ conns[n] <= Cardinality(Counted(n))
        /\ ~skewed => conns[n] = Cardinality(Counted(n))
    BY DEF CountsFollowSessions
  <2>2. conns[n] \in Nat /\ conns'[n] \in Nat
    BY <1>3 DEF Types
  <2>6. conns[x] > 0 => skewed'
    BY <1>1
  <2>3. conns'[n] <= conns[n] /\ (conns'[n] = conns[n] \/ skewed')
    BY <1>3, <2>2, <2>6
  <2>4. skewed => skewed'
    BY <1>1
  <2>5. Counted(n)' = Counted(n)
    BY <1>2
  <2> QED
    BY <2>1, <2>2, <2>3, <2>4, <2>5, CountStep
<1> QED
  BY <1>2, <1>4 DEF CountsFollowSessions

LEMMA AsideOwners ==
  ASSUME Types, Owners, CountsFollowSessions, Aside
  PROVE  Owners' /\ CountsFollowSessions'
<1>1. ASSUME NEW s \in Sessions, ConnectFails(s) \/ TunnelUp(s)
      PROVE  Owners' /\ CountsFollowSessions'
  BY <1>1, ConnectOwners
<1>2. ASSUME NEW w \in Web, LowerRemoved(w)
      PROVE  Owners' /\ CountsFollowSessions'
  BY <1>2, LowerOwners
<1>3. ASSUME \A s \in Sessions : ~ConnectFails(s) /\ ~TunnelUp(s),
             \A w \in Web : ~LowerRemoved(w)
      PROVE  UNCHANGED <<at, ses, phase, node, active, conns, skewed>>
  <2>1. CASE Age
    BY <2>1 DEF Age, sessionVars, history
  <2>2. CASE StartRound
    BY <2>2 DEF StartRound, ProberKeeps, sessionVars, history
  <2>3. ASSUME NEW p \in Probers, Check(p)
        PROVE  UNCHANGED <<at, ses, phase, node, active, conns, skewed>>
    BY <2>3 DEF Check, BeginProbe, EndProbe, RecordProbe, ProberKeeps, sessionVars, history
  <2>4. ASSUME NEW w \in Web, Administer(w)
        PROVE  UNCHANGED <<at, ses, phase, node, active, conns, skewed>>
    BY <1>3, <2>4 DEF Administer, MarkRemoved, CheckNodes, Reschedule, AddNode, RemoveNode,
       RenameNode, SetWeight, Request, ProberKeeps, sessionVars
  <2>5. ASSUME NEW n \in Tags, Flip(n)
        PROVE  UNCHANGED <<at, ses, phase, node, active, conns, skewed>>
    BY <2>5 DEF Flip, ProberKeeps, sessionVars, history
  <2> QED BY <1>3, <2>1, <2>2, <2>3, <2>4, <2>5 DEF Aside
<1>4. ASSUME UNCHANGED <<at, ses, phase, node, active, conns, skewed>>
      PROVE  Owners' /\ CountsFollowSessions'
  <2>1. Owners' /\ \A n \in Tags : Counted(n)' = Counted(n)
    BY <1>4, OtherOwners
  <2> QED BY <1>4, <2>1, CountsKept
<1> QED
  BY <1>1, <1>2, <1>3, <1>4

\* No step of anybody disturbs whose counts the nodes keep.
LEMMA OwnersKept ==
  ASSUME Types, Room, Owners, CountsFollowSessions, [Next]_vars
  PROVE  Owners' /\ CountsFollowSessions'
<1>1. ASSUME NEW t \in Threads, Route(t) \/ Close(t)
      PROVE  Owners' /\ CountsFollowSessions'
  BY <1>1, RouteSteps, GiveOwners, ClearOwners DEF Close
<1>2. ASSUME NEW t \in Threads, NEW s \in Sessions, Decide(t, s) \/ CloseSession(t, s)
      PROVE  Owners' /\ CountsFollowSessions'
  BY <1>2, DecideOwners, CloseOwners
<1>3. ASSUME Aside PROVE Owners' /\ CountsFollowSessions'
  BY <1>3, AsideOwners
<1>4. ASSUME UNCHANGED vars PROVE Owners' /\ CountsFollowSessions'
  <2>1. UNCHANGED <<at, ses, phase, node, active, conns, skewed>>
    BY <1>4 DEF vars, sessionVars, history
  <2>2. Owners' /\ \A n \in Tags : Counted(n)' = Counted(n)
    BY <2>1, OtherOwners
  <2> QED BY <2>1, <2>2, CountsKept
<1> QED
  BY <1>1, <1>2, <1>3, <1>4 DEF Next, Aside

\* For any number of threads, sessions, nodes and administrators a node is never
\* thought to carry more sessions than were counted on it, and carries exactly
\* those until a removal of a node (vm_node_manager.cpp:248) or two ends of a
\* tunnel closing it at once (session.cpp:114-164) lower a count for no session.
THEOREM CountsFollow == Spec => []CountsFollowSessions
<1>1. Init => Types /\ Room /\ Owners /\ CountsFollowSessions
  BY InitTypes, InitRoom, InitOwners
<1>2. Types /\ Room /\ Owners /\ CountsFollowSessions /\ [Next]_vars
        => (Types /\ Room /\ Owners /\ CountsFollowSessions)'
  BY RoomNext, OwnersKept
<1> QED
  BY <1>1, <1>2, PTL DEF Spec

-----------------------------------------------------------------------------
(* The nodes' health *)

Agrees(h) ==
  /\ h.failures \in 0..FailureThreshold
  /\ h.status = "unavailable" <=> h.failures = FailureThreshold
  /\ h.status = "available" <=> h.failures = 0

\* Whatever a probe or a removal makes of a record, its status and its failures
\* agree.
LEMMA AgreesAfter ==
  ASSUME NEW h \in Health, Agrees(h), NEW ms, NEW outcome
  PROVE  Agrees(Probed(h, outcome, ms)) /\ Agrees(marked(h))
<1>1. FailureThreshold \in Nat /\ FailureThreshold > 0
  BY BalancerAssumption
<1>2. Agrees(marked(h))
  BY <1>1 DEF Agrees, marked, Health
<1>3. Agrees(failed_probe(h))
  <2> DEFINE f == IF h.failures < FailureThreshold THEN h.failures + 1 ELSE FailureThreshold
             x == IF f >= FailureThreshold THEN "unavailable" ELSE "unstable"
  <2>1. f \in 0..FailureThreshold /\ f > 0
    BY <1>1 DEF Agrees
  <2>2. failed_probe(h) = [h EXCEPT !.failures = f, !.status = x]
    BY DEF failed_probe
  <2>3. failed_probe(h).failures = f /\ failed_probe(h).status = x
    BY <2>2 DEF Health
  <2> HIDE DEF f
  <2> QED BY <1>1, <2>1, <2>3 DEF Agrees
<1>4. CASE outcome = "ok"
  BY <1>1, <1>2, <1>4 DEF Probed, Agrees
<1>5. CASE outcome # "ok"
  BY <1>2, <1>3, <1>5 DEF Probed
<1> QED BY <1>4, <1>5

\* Only the end of a probe and mark_unavailable write the record of a node.
LEMMA HealthWritten ==
  ASSUME [Next]_vars
  PROVE  \/ health' = health
         \/ \E p \in Probers : RecordProbe(p)
         \/ \E w \in Web : MarkRemoved(w)
<1>1. ASSUME NEW t \in Threads, Route(t) \/ Close(t)
      PROVE  health' = health
  BY <1>1 DEF Route, Close, AffinityStatus, AffinityCount, AffinityDrop, ListNodes, NodeHealth,
     NodeLoad, NoCandidate, PickRoundRobin, PickWeighted, PickLeast, Chosen, Record, Take,
     GiveBack, ClearTunnel, DecisionKeeps, SessionKeeps, probes
<1>2. ASSUME NEW t \in Threads, NEW s \in Sessions, Decide(t, s) \/ CloseSession(t, s)
      PROVE  health' = health
  BY <1>2 DEF Decide, CloseSession, SessionKeeps, probes
<1>3. ASSUME NEW s \in Sessions, ConnectFails(s) \/ TunnelUp(s)
      PROVE  health' = health
  BY <1>3 DEF ConnectFails, TunnelUp, SessionKeeps, probes
<1>4. ASSUME Age \/ StartRound PROVE health' = health
  BY <1>4 DEF Age, StartRound, probes
<1>5. ASSUME NEW p \in Probers, Check(p), ~RecordProbe(p)
      PROVE  health' = health
  BY <1>5 DEF Check, BeginProbe, EndProbe
<1>6. ASSUME NEW w \in Web, Administer(w), ~MarkRemoved(w)
      PROVE  health' = health
  BY <1>6 DEF Administer, LowerRemoved, CheckNodes, Reschedule, AddNode, RemoveNode, RenameNode,
     SetWeight, Request
<1>7. ASSUME NEW n \in Tags, Flip(n) PROVE health' = health
  BY <1>7 DEF Flip
<1>8. ASSUME UNCHANGED vars PROVE health' = health
  BY <1>8 DEF vars, probes
<1> QED
  BY <1>1, <1>2, <1>3, <1>4, <1>5, <1>6, <1>7, <1>8 DEF Next

\* A record that is replaced by one that agrees.
LEMMA HealthReplaced ==
  ASSUME Types, HealthAgrees, NEW k, NEW h,
         k \in Tags => Agrees(h), health' = [health EXCEPT ![k] = h]
  PROVE  HealthAgrees'
<1> SUFFICES ASSUME NEW n \in Tags PROVE Agrees(health'[n])
    BY DEF HealthAgrees, Agrees
<1>1. CASE n = k BY <1>1 DEF Types
<1>2. CASE n # k BY <1>2 DEF Types, HealthAgrees, Agrees
<1> QED BY <1>1, <1>2

LEMMA HealthKept ==
  ASSUME Types, HealthAgrees, [Next]_vars
  PROVE  HealthAgrees'
<1>1. CASE health' = health
  BY <1>1 DEF HealthAgrees
<1>2. ASSUME NEW k, k \in Tags PROVE health[k] \in Health /\ Agrees(health[k])
  BY <1>2 DEF Types, HealthAgrees, Agrees
<1>3. ASSUME NEW p \in Probers, RecordProbe(p) PROVE HealthAgrees'
  <2>1. PICK ms \in Latencies :
          health' = [health EXCEPT ![Head(task[p]).tag] =
                       Probed(health[Head(task[p]).tag], answer[p], ms)]
    BY <1>3 DEF RecordProbe
  <2>2. Head(task[p]).tag \in Tags
          => Agrees(Probed(health[Head(task[p]).tag], answer[p], ms))
    BY <1>2, AgreesAfter
  <2> QED BY <2>1, <2>2, HealthReplaced
<1>4. ASSUME NEW w \in Web, MarkRemoved(w) PROVE HealthAgrees'
  <2>1. health' = [health EXCEPT ![Head(task[w]).tag] = marked(health[Head(task[w]).tag])]
    BY <1>4 DEF MarkRemoved
  <2>2. Head(task[w]).tag \in Tags => Agrees(marked(health[Head(task[w]).tag]))
    BY <1>2, AgreesAfter
  <2> QED BY <2>1, <2>2, HealthReplaced
<1> QED
  BY <1>1, <1>3, <1>4, HealthWritten

\* However the probes of the periodic check and of web handlers cross with the
\* marks that removals leave, a node is unavailable exactly when it failed as
\* often as the threshold says, and available exactly when nothing failed since.
THEOREM HealthFollows == Spec => []HealthAgrees
<1>1. Init => Types /\ HealthAgrees
  <2>1. Init => HealthAgrees
    BY BalancerAssumption DEF Init, HealthAgrees
  <2> QED BY <2>1, InitTypes
<1>2. Types /\ Room /\ HealthAgrees /\ [Next]_vars => (Types /\ Room /\ HealthAgrees)'
  <2> SUFFICES ASSUME Types, Room, HealthAgrees, [Next]_vars
               PROVE  (Types /\ Room /\ HealthAgrees)'
      OBVIOUS
  <2>1. Types' /\ Room'
    BY RoomNext
  <2> QED BY <2>1, HealthKept
<1>3. Init => Room
  BY InitRoom
<1> QED
  BY <1>1, <1>2, <1>3, PTL DEF Spec
-----------------------------------------------------------------------------
\* Why a removed node stays out: nobody may begin to probe it, since it is not
\* in the list, and nobody is at a probe of it that began before.
Job == [do : {"probe", "dec", "mark"}, tag : Tags]

Jobs ==
  /\ task \in [Probers -> Seq(Job)]
  /\ answer \in [Probers -> {"none", "waiting", "ok", "failed"}]
  /\ \A p \in Probers : answer[p] # "none" => task[p] # <<>> /\ Head(task[p]).do = "probe"

Out(n) ==
  health[n].status = "unavailable" /\ ~Contains(nodes, n) /\ ~UnderWay(n)

RemovedAreOut == removed \subseteq Tags /\ \A n \in removed : Out(n)

\* A prober goes on to other jobs and another answer.
LEMMA JobsAfter ==
  ASSUME Jobs, NEW p \in Probers,
         NEW list \in Seq(Job), task' = [task EXCEPT ![p] = list],
         NEW a \in {"none", "waiting", "ok", "failed"}, answer' = [answer EXCEPT ![p] = a],
         a # "none" => list # <<>> /\ Head(list).do = "probe"
  PROVE  /\ Jobs'
         /\ \A n : UnderWay(n)' => UnderWay(n) \/ (a # "none" /\ Head(list).tag = n)
<1>1. task' \in [Probers -> Seq(Job)] /\ answer' \in [Probers -> {"none", "waiting", "ok", "failed"}]
  BY DEF Jobs
<1>2. task'[p] = list /\ answer'[p] = a
  BY DEF Jobs
<1>3. \A q \in Probers : q # p => task'[q] = task[q] /\ answer'[q] = answer[q]
  BY DEF Jobs
<1>4. Jobs'
  BY <1>1, <1>2, <1>3 DEF Jobs
<1>5. ASSUME NEW n, UnderWay(n)' PROVE UnderWay(n) \/ (a # "none" /\ Head(list).tag = n)
  <2>1. PICK q \in Probers : answer'[q] # "none" /\ Head(task'[q]).tag = n
    BY <1>5 DEF UnderWay
  <2>2. CASE q = p BY <2>1, <2>2, <1>2
  <2>3. CASE q # p BY <2>1, <2>3, <1>3 DEF UnderWay
  <2> QED BY <2>2, <2>3
<1> QED
  BY <1>4, <1>5

\* What a prober has at hand, and that it is done with it.
LEMMA JobAtHand ==
  ASSUME Jobs, NEW p \in Probers, task[p] # <<>>
  PROVE  Head(task[p]) \in Job /\ Tail(task[p]) \in Seq(Job)
BY DEF Jobs

\* The probes of a list of nodes are jobs.
LEMMA ProbesAreJobs ==
  ASSUME NEW list \in Seq(Tags)
  PROVE  Probes(list) \in Seq(Job)
<1>1. /\ Len(list) \in Nat /\ DOMAIN list = 1..Len(list)
      /\ \A k \in DOMAIN list : [do |-> "probe", tag |-> list[k]] \in Job
  BY DEF Job
<1>2. Probes(list) \in [1..Len(list) -> Job]
  BY <1>1 DEF Probes
<1> QED
  BY <1>1, <1>2

\* A step that tells a prober, which waits for no answer, what to do.
LEMMA JobsGiven ==
  ASSUME Jobs, NEW p \in Probers, answer[p] = "none",
         NEW list \in Seq(Job), task' = [task EXCEPT ![p] = list], answer' = answer
  PROVE  Jobs' /\ \A n : UnderWay(n)' => UnderWay(n)
<1>1. answer' = [answer EXCEPT ![p] = "none"]
  BY DEF Jobs
<1> QED
  BY <1>1, JobsAfter

\* A step that brings no removed node back.
LEMMA OutKept ==
  ASSUME RemovedAreOut, removed' \subseteq removed,
         \A n \in removed' : health'[n] = health[n] \/ health'[n].status = "unavailable",
         \A n \in removed' : Contains(nodes', n) => Contains(nodes, n),
         \A n \in removed' : UnderWay(n)' => UnderWay(n)
  PROVE  RemovedAreOut'
BY DEF RemovedAreOut, Out

\* Jobs, answers and the list are those of probers and administrators.
LEMMA ProbesWritten ==
  ASSUME [Next]_vars
  PROVE  \/ UNCHANGED <<nodes, health, task, answer, removed>>
         \/ StartRound
         \/ \E p \in Probers : Check(p)
         \/ \E w \in Web : Administer(w)
<1>1. ASSUME NEW t \in Threads, Route(t) \/ Close(t)
      PROVE  UNCHANGED <<nodes, health, task, answer, removed>>
  BY <1>1 DEF Route, Close, AffinityStatus, AffinityCount, AffinityDrop, ListNodes, NodeHealth,
     NodeLoad, NoCandidate, PickRoundRobin, PickWeighted, PickLeast, Chosen, Record, Take,
     GiveBack, ClearTunnel, DecisionKeeps, SessionKeeps, probes, lists, history
<1>2. ASSUME NEW t \in Threads, NEW s \in Sessions, Decide(t, s) \/ CloseSession(t, s)
      PROVE  UNCHANGED <<nodes, health, task, answer, removed>>
  BY <1>2 DEF Decide, CloseSession, SessionKeeps, probes, lists, history
<1>3. ASSUME NEW s \in Sessions, ConnectFails(s) \/ TunnelUp(s)
      PROVE  UNCHANGED <<nodes, health, task, answer, removed>>
  BY <1>3 DEF ConnectFails, TunnelUp, SessionKeeps, probes, lists, history
<1>4. ASSUME Age PROVE UNCHANGED <<nodes, health, task, answer, removed>>
  BY <1>4 DEF Age, probes, lists, history
<1>5. ASSUME NEW n \in Tags, Flip(n)
      PROVE  UNCHANGED <<nodes, health, task, answer, removed>>
  BY <1>5 DEF Flip, lists, history
<1>6. ASSUME UNCHANGED vars PROVE UNCHANGED <<nodes, health, task, answer, removed>>
  BY <1>6 DEF vars, probes, lists, history
<1> QED
  BY <1>1, <1>2, <1>3, <1>4, <1>5, <1>6 DEF Next

LEMMA StartRoundOut ==
  ASSUME Types, Jobs, RemovedAreOut, StartRound
  PROVE  Jobs' /\ RemovedAreOut'
<1>1. Periodic \in Probers /\ answer[Periodic] = "none" /\ Probes(nodes) \in Seq(Job)
  BY ProbesAreJobs DEF Probers, Jobs, StartRound, Types
<1>2. /\ task' = [task EXCEPT ![Periodic] = Probes(nodes)]
      /\ UNCHANGED <<answer, nodes, health, removed>>
  BY DEF StartRound, lists, history
<1>3. Jobs' /\ \A n : UnderWay(n)' => UnderWay(n)
  BY <1>1, <1>2, JobsGiven
<1> QED
  BY <1>2, <1>3, OutKept

LEMMA BeginProbeOut ==
  ASSUME Types, Jobs, RemovedAreOut, NEW p \in Probers, BeginProbe(p)
  PROVE  Jobs' /\ RemovedAreOut'
<1>1. /\ task[p] # <<>> /\ Head(task[p]).do = "probe" /\ answer[p] = "none"
      /\ UNCHANGED <<nodes, health, removed>>
  BY DEF BeginProbe, lists, history
<1>2. CASE /\ Contains(nodes, Head(task[p]).tag)
           /\ answer' = [answer EXCEPT ![p] = "waiting"]
           /\ UNCHANGED task
  <2>1. task' = [task EXCEPT ![p] = task[p]] /\ task[p] \in Seq(Job)
    BY <1>2 DEF Jobs
  <2>2. /\ Jobs'
        /\ \A n : UnderWay(n)' => UnderWay(n) \/ Head(task[p]).tag = n
    BY <1>1, <1>2, <2>1, JobsAfter
  <2>3. Head(task[p]).tag \notin removed
    BY <1>2 DEF RemovedAreOut, Out
  <2> QED BY <1>1, <2>2, <2>3, OutKept
<1>3. CASE Finish(p) /\ UNCHANGED answer
  <2>1. Jobs' /\ \A n : UnderWay(n)' => UnderWay(n)
    BY <1>1, <1>3, JobAtHand, JobsGiven DEF Finish
  <2> QED BY <1>1, <2>1, OutKept
<1> QED
  BY <1>2, <1>3 DEF BeginProbe

LEMMA EndProbeOut ==
  ASSUME Types, Jobs, RemovedAreOut, NEW p \in Probers, EndProbe(p)
  PROVE  Jobs' /\ RemovedAreOut'
<1>1. /\ answer[p] = "waiting" /\ task[p] # <<>> /\ Head(task[p]).do = "probe"
      /\ UNCHANGED <<nodes, health, removed, task>>
  BY DEF EndProbe, lists, history, Jobs
<1>2. PICK a \in {"ok", "failed"} : answer' = [answer EXCEPT ![p] = a]
  BY DEF EndProbe
<1>3. task' = [task EXCEPT ![p] = task[p]] /\ task[p] \in Seq(Job)
  BY <1>1 DEF Jobs
<1>4. /\ Jobs'
      /\ \A n : UnderWay(n)' => UnderWay(n) \/ Head(task[p]).tag = n
  BY <1>1, <1>2, <1>3, JobsAfter
<1>5. UnderWay(Head(task[p]).tag)
  BY <1>1 DEF UnderWay
<1>6. \A n : UnderWay(n)' => UnderWay(n)
  BY <1>4, <1>5
<1> QED
  BY <1>1, <1>4, <1>6, OutKept

\* The outcome of a probe that was under way is written for a node that is not
\* among the removed ones.
LEMMA RecordProbeOut ==
  ASSUME Types, Jobs, RemovedAreOut, NEW p \in Probers, RecordProbe(p)
  PROVE  Jobs' /\ RemovedAreOut'
<1>1. /\ answer[p] # "none" /\ task[p] # <<>>
      /\ answer' = [answer EXCEPT ![p] = "none"]
      /\ task' = [task EXCEPT ![p] = Tail(task[p])]
      /\ UNCHANGED <<nodes, removed>>
  BY DEF RecordProbe, Finish, lists, history, Jobs
<1>2. Jobs' /\ \A n : UnderWay(n)' => UnderWay(n)
  BY <1>1, JobAtHand, JobsAfter
<1>3. PICK h : health' = [health EXCEPT ![Head(task[p]).tag] = h]
  BY DEF RecordProbe
<1>4. Head(task[p]).tag \notin removed
  BY <1>1 DEF RemovedAreOut, Out, UnderWay
<1>5. \A n \in removed : health'[n] = health[n]
  BY <1>3, <1>4 DEF Types, RemovedAreOut
<1> QED
  BY <1>1, <1>2, <1>5, OutKept

LEMMA WebIsFree ==
  ASSUME Jobs, NEW w \in Web, task[w] = <<>> \/ Head(task[w]).do # "probe"
  PROVE  w \in Probers /\ answer[w] = "none"
BY DEF Probers, Jobs

LEMMA LowerRemovedOut ==
  ASSUME Types, Jobs, RemovedAreOut, NEW w \in Web, LowerRemoved(w)
  PROVE  Jobs' /\ RemovedAreOut'
<1>1. /\ task[w] # <<>> /\ Head(task[w]).do = "dec"
      /\ task' = [task EXCEPT ![w] = Tail(task[w])]
      /\ UNCHANGED <<nodes, health, answer, removed>>
  BY DEF LowerRemoved, Finish, lists
<1>2. Jobs' /\ \A n : UnderWay(n)' => UnderWay(n)
  BY <1>1, WebIsFree, JobAtHand, JobsGiven
<1> QED
  BY <1>1, <1>2, OutKept

\* mark_unavailable puts a node among the removed ones only if it is out.
LEMMA MarkRemovedOut ==
  ASSUME Types, Jobs, RemovedAreOut, NEW w \in Web, MarkRemoved(w)
  PROVE  Jobs' /\ RemovedAreOut'
<1> DEFINE k == Head(task[w]).tag
<1>1. /\ task[w] # <<>> /\ Head(task[w]).do = "mark"
      /\ task' = [task EXCEPT ![w] = Tail(task[w])]
      /\ health' = [health EXCEPT ![k] = marked(health[k])]
      /\ removed' = IF Contains(nodes, k) \/ UnderWay(k) THEN removed ELSE removed \cup {k}
      /\ UNCHANGED <<nodes, answer>>
  BY DEF MarkRemoved, Finish, lists
<1>2. Jobs' /\ \A n : UnderWay(n)' => UnderWay(n)
  BY <1>1, WebIsFree, JobAtHand, JobsGiven
<1>3. w \in Probers /\ k \in Tags
  BY <1>1, WebIsFree, JobAtHand DEF Job
<1>4. health'[k].status = "unavailable" /\ \A n \in Tags \ {k} : health'[n] = health[n]
  BY <1>1, <1>3 DEF Types, Health, marked
<1>5. removed' \subseteq Tags
  BY <1>1, <1>3 DEF RemovedAreOut
<1>6. ASSUME NEW n \in removed' PROVE Out(n)'
  <2>1. n \in Tags /\ ~Contains(nodes, n) /\ ~UnderWay(n)
    BY <1>1, <1>5, <1>6 DEF RemovedAreOut, Out
  <2>2. health'[n].status = "unavailable"
    <3>1. CASE n = k BY <3>1, <1>4
    <3>2. CASE n # k BY <3>2, <1>1, <1>4, <2>1 DEF RemovedAreOut, Out
    <3> QED BY <3>1, <3>2
  <2> QED BY <1>1, <1>2, <2>1, <2>2 DEF Out
<1> QED
  BY <1>2, <1>5, <1>6 DEF RemovedAreOut

\* A request gives a web handler jobs.  The node it adds to the list is removed
\* no longer.
LEMMA RequestOut ==
  ASSUME Types, Jobs, RemovedAreOut, NEW w \in Web, task[w] = <<>>,
         NEW list \in Seq(Job), task' = [task EXCEPT ![w] = list],
         UNCHANGED <<health, answer>>, removed' \subseteq removed,
         \A n \in removed' : Contains(nodes', n) => Contains(nodes, n)
  PROVE  Jobs' /\ RemovedAreOut'
<1>1. Jobs' /\ \A n : UnderWay(n)' => UnderWay(n)
  BY WebIsFree, JobsGiven
<1> QED
  BY <1>1, OutKept

LEMMA AddNodeOut ==
  ASSUME Types, Jobs, RemovedAreOut, NEW w \in Web, NEW n \in Tags, AddNode(w, n)
  PROVE  Jobs' /\ RemovedAreOut'
<1>1. /\ task[w] = <<>> /\ task' = [task EXCEPT ![w] = Probes(<<n>>)]
      /\ nodes' = Append(nodes, n) /\ removed' = removed \ {n}
      /\ UNCHANGED <<health, answer>>
  BY DEF AddNode, Request
<1>2. Probes(<<n>>) \in Seq(Job)
  <2>1. <<n>> \in Seq(Tags)
    OBVIOUS
  <2> QED BY <2>1, ProbesAreJobs
<1>3. \A m \in removed' : Contains(nodes', m) => Contains(nodes, m)
  BY <1>1 DEF Contains, Types
<1> QED
  BY <1>1, <1>2, <1>3, RequestOut

LEMMA RemoveNodeOut ==
  ASSUME Types, Jobs, RemovedAreOut, NEW w \in Web, NEW n \in Tags, RemoveNode(w, n)
  PROVE  Jobs' /\ RemovedAreOut'
<1> DEFINE list == <<[do |-> "dec", tag |-> n], [do |-> "mark", tag |-> n]>>
<1>1. /\ task[w] = <<>> /\ task' = [task EXCEPT ![w] = list]
      /\ UNCHANGED <<health, answer, removed>>
  BY DEF RemoveNode, Request
<1>2. list \in Seq(Job)
  BY DEF Job
<1>3. PICK k \in DOMAIN nodes :
        nodes' = SubSeq(nodes, 1, k - 1) \o SubSeq(nodes, k + 1, Len(nodes))
  BY DEF RemoveNode
<1>4. nodes \in Seq(Tags) /\ k \in 1..Len(nodes) /\ Len(nodes) \in Nat
  <2>1. nodes \in Seq(Tags)
    BY DEF Types
  <2>2. DOMAIN nodes = 1..Len(nodes) /\ Len(nodes) \in Nat
    BY <2>1
  <2> QED BY <1>3, <2>1, <2>2
<1>5. \A i \in 1..Len(nodes') : \E j \in 1..Len(nodes) : nodes'[i] = nodes[j]
  <2> DEFINE before == SubSeq(nodes, 1, k - 1)
             after == SubSeq(nodes, k + 1, Len(nodes))
  <2>1. /\ before \in Seq(Tags) /\ Len(before) = k - 1
        /\ \A i \in 1..(k - 1) : before[i] = nodes[i]
    BY <1>4
  <2>2. /\ after \in Seq(Tags) /\ Len(after) = Len(nodes) - k
        /\ \A i \in 1..(Len(nodes) - k) : after[i] = nodes[k + i]
    BY <1>4
  <2> HIDE DEF before, after
  <2>3. /\ Len(before \o after) = Len(before) + Len(after)
        /\ \A i \in 1..(Len(before) + Len(after)) :
             (before \o after)[i] =
               IF i <= Len(before) THEN before[i] ELSE after[i - Len(before)]
    <3>1. before \in Seq(Tags) /\ after \in Seq(Tags)
      BY <2>1, <2>2
    <3> QED BY <3>1
  <2>4. nodes' = before \o after
    BY <1>3 DEF before, after
  <2> QED
    <3> SUFFICES ASSUME NEW i \in 1..Len(nodes')
                 PROVE  \E j \in 1..Len(nodes) : nodes'[i] = nodes[j]
        OBVIOUS
    <3>1. i \in 1..(Len(nodes) - 1)
      BY <1>4, <2>1, <2>2, <2>3, <2>4
    <3>0. i \in 1..(Len(before) + Len(after))
      BY <1>4, <2>1, <2>2, <3>1
    <3>2. CASE i <= k - 1
      <4>1. i \in 1..(k - 1) /\ i \in 1..Len(nodes)
        BY <1>4, <3>1, <3>2
      <4>2. nodes'[i] = before[i]
        BY <2>1, <2>3, <2>4, <3>0, <3>2
      <4> QED BY <2>1, <4>1, <4>2
    <3>3. CASE ~(i <= k - 1)
      <4>1. nodes'[i] = after[i - (k - 1)] /\ i - (k - 1) \in 1..(Len(nodes) - k)
        <5>1. nodes'[i] = after[i - Len(before)]
          BY <2>1, <2>3, <2>4, <3>0, <3>3
        <5> QED BY <1>4, <2>1, <3>1, <3>3, <5>1
      <4>2. nodes'[i] = nodes[k + (i - (k - 1))] /\ k + (i - (k - 1)) \in 1..Len(nodes)
        <5>1. nodes'[i] = nodes[k + (i - (k - 1))]
          BY <2>2, <4>1
        <5>2. k + (i - (k - 1)) = i + 1 /\ i + 1 \in 1..Len(nodes)
          BY <1>4, <3>1
        <5> QED BY <5>1, <5>2
      <4> QED BY <4>2
    <3> QED BY <3>2, <3>3
<1>6. \A m : Contains(nodes', m) => Contains(nodes, m)
  BY <1>5 DEF Contains
<1> QED
  BY <1>1, <1>2, <1>6, RequestOut

LEMMA RenameNodeOut ==
  ASSUME Types, Jobs, RemovedAreOut, NEW w \in Web, NEW n \in Tags, NEW m \in Tags,
         RenameNode(w, n, m)
  PROVE  Jobs' /\ RemovedAreOut'
<1>1. /\ task[w] = <<>> /\ UNCHANGED <<task, health, answer>>
      /\ nodes' = [k \in DOMAIN nodes |-> IF nodes[k] = n THEN m ELSE nodes[k]]
      /\ removed' = removed \ {m}
  BY DEF RenameNode, Request
<1>2. task' = [task EXCEPT ![w] = task[w]] /\ task[w] \in Seq(Job)
  BY <1>1, WebIsFree DEF Jobs
<1>3. Len(nodes') = Len(nodes)
        /\ \A k \in 1..Len(nodes) : nodes'[k] = IF nodes[k] = n THEN m ELSE nodes[k]
  BY <1>1 DEF Types
<1>4. \A j \in removed' : Contains(nodes', j) => Contains(nodes, j)
  BY <1>1, <1>3 DEF Contains
<1> QED
  BY <1>1, <1>2, <1>4, RequestOut

LEMMA OtherRequestsOut ==
  ASSUME Types, Jobs, RemovedAreOut, NEW w \in Web,
         CheckNodes(w) \/ Reschedule(w) \/ \E n \in Tags, x \in Weights : SetWeight(w, n, x)
  PROVE  Jobs' /\ RemovedAreOut'
<1>1. task[w] = <<>> /\ UNCHANGED <<nodes, health, answer, removed>>
  BY DEF CheckNodes, Reschedule, SetWeight, Request, lists
<1>2. PICK list \in Seq(Job) : task' = [task EXCEPT ![w] = list]
  <2>1. CASE CheckNodes(w)
    BY <2>1, ProbesAreJobs DEF CheckNodes, Types
  <2>2. CASE task' = task
    <3>1. task' = [task EXCEPT ![w] = task[w]] /\ task[w] \in Seq(Job)
      BY <1>1, <2>2, WebIsFree DEF Jobs
    <3> QED BY <3>1
  <2> QED BY <2>1, <2>2 DEF Reschedule, SetWeight
<1> QED
  BY <1>1, <1>2, RequestOut

LEMMA RemovedStay ==
  ASSUME Types, Jobs, RemovedAreOut, [Next]_vars
  PROVE  Jobs' /\ RemovedAreOut'
<1>1. CASE UNCHANGED <<nodes, health, task, answer, removed>>
  <2>1. Jobs' /\ \A n : UnderWay(n)' => UnderWay(n)
    BY <1>1 DEF Jobs, UnderWay
  <2> QED BY <1>1, <2>1, OutKept
<1>2. ASSUME NEW p \in Probers, Check(p) PROVE Jobs' /\ RemovedAreOut'
  BY <1>2, BeginProbeOut, EndProbeOut, RecordProbeOut DEF Check
<1>3. ASSUME NEW w \in Web, Administer(w) PROVE Jobs' /\ RemovedAreOut'
  BY <1>3, LowerRemovedOut, MarkRemovedOut, AddNodeOut, RemoveNodeOut, RenameNodeOut,
     OtherRequestsOut DEF Administer
<1> QED
  BY <1>1, <1>2, <1>3, StartRoundOut, ProbesWritten

\* mark_unavailable keeps a removed node out for good, however many checks and
\* requests run beside the removal, unless a probe of the node was under way.
THEOREM RemovedForGood == Spec => []RemovedStaysOut
<1>1. Init => Types /\ Room /\ Jobs /\ RemovedAreOut
  <2>1. Init => Jobs /\ RemovedAreOut
    <3>1. <<>> \in Seq(Job)
      OBVIOUS
    <3> QED BY <3>1 DEF Init, Jobs, RemovedAreOut
  <2> QED BY <2>1, InitTypes, InitRoom
<1>2. Types /\ Room /\ Jobs /\ RemovedAreOut /\ [Next]_vars
        => (Types /\ Room /\ Jobs /\ RemovedAreOut)'
  <2> SUFFICES ASSUME Types, Room, Jobs, RemovedAreOut, [Next]_vars
               PROVE  (Types /\ Room /\ Jobs /\ RemovedAreOut)'
      OBVIOUS
  <2>1. Types' /\ Room'
    BY RoomNext
  <2> QED BY <2>1, RemovedStay
<1>3. RemovedAreOut => RemovedStaysOut
  BY DEF RemovedAreOut, Out, RemovedStaysOut
<1> QED
  BY <1>1, <1>2, <1>3, PTL DEF Spec

-----------------------------------------------------------------------------
(* The affinity table *)

AffinityRecord == [ip : IPs, tag : Tags, stale : BOOLEAN]

\* No client has two records.
OneEach(table) == \A k, m \in DOMAIN table : table[k].ip = table[m].ip => k = m

Table ==
  affinity \in Seq(AffinityRecord) /\ Len(affinity) <= MaxRecords /\ OneEach(affinity)

\* Without the records of one client the table is one of records, one of each
\* client, and shorter if there was one to take away.
LEMMA OthersAreRecords ==
  ASSUME Table, NEW i
  PROVE  /\ Others(i) \in Seq(AffinityRecord) /\ OneEach(Others(i))
         /\ \A k \in 1..Len(Others(i)) : Others(i)[k].ip # i
         /\ Len(Others(i)) <= Len(affinity)
         /\ Records(i) # {} => Len(Others(i)) < Len(affinity)
<1> DEFINE S == DOMAIN affinity \ Records(i)
<1> DEFINE t == Subsequence(affinity, S)
<1>1. affinity \in Seq(AffinityRecord)
  BY DEF Table
<1>2. t \in Seq(AffinityRecord) /\ \E place : Enumerates(place, affinity, S, Len(affinity), t)
  <2> HIDE DEF S
  <2> QED BY <1>1, SubsequencePlaces
<1>3. t = Others(i)
  BY DEF Others
<1> HIDE DEF t
<1>4. PICK place : Enumerates(place, affinity, S, Len(affinity), t)
  BY <1>2
<1>5. \A k \in 1..Len(t) : /\ place[k] \in 1..Len(affinity) /\ place[k] \in S
                           /\ t[k] = affinity[place[k]]
  <2> HIDE DEF S
  <2> QED BY <1>4 DEF Enumerates
<1>6. \A k \in 1..Len(t) : t[k].ip # i
  BY <1>1, <1>5 DEF Records
<1>7. ASSUME NEW k \in 1..Len(t), NEW m \in 1..Len(t), t[k].ip = t[m].ip
      PROVE  k = m
  <2>1. place[k] = place[m]
    BY <1>1, <1>5, <1>7 DEF Table, OneEach
  <2>2. (k < m => place[k] < place[m]) /\ (m < k => place[m] < place[k])
    <3> HIDE DEF S
    <3> QED BY <1>4 DEF Enumerates
  <2>3. place[k] \in Int
    BY <1>5
  <2> QED
    BY <2>1, <2>2, <2>3
<1>8. OneEach(t)
  BY <1>2, <1>7 DEF OneEach
<1>9. Len(t) <= Len(affinity) /\ (\A k \in 1..Len(affinity) : k \notin S => Len(t) < Len(affinity))
  <2> HIDE DEF S
  <2> QED BY <1>4 DEF Enumerates
<1>10. ASSUME Records(i) # {} PROVE Len(t) < Len(affinity)
  <2>1. PICK k \in Records(i) : TRUE
    BY <1>10
  <2>2. k \in 1..Len(affinity) /\ k \notin S
    BY <1>1, <2>1 DEF Records
  <2> QED
    BY <1>9, <2>2
<1> QED
  BY <1>2, <1>3, <1>6, <1>8, <1>9, <1>10

\* update makes room before it puts a new record in front.
LEMMA RememberKeepsTable ==
  ASSUME Table, NEW i \in IPs, NEW n \in Tags, Remember(i, n)
  PROVE  Table'
<1> DEFINE kept == IF Records(i) # {} \/ Len(affinity) < MaxRecords THEN Others(i)
                   ELSE SubSeq(affinity, 1, MaxRecords - 1)
<1> DEFINE new == [ip |-> i, tag |-> n, stale |-> FALSE]
<1>1. MaxRecords \in Nat /\ MaxRecords > 0 /\ affinity \in Seq(AffinityRecord)
      /\ Len(affinity) \in Nat /\ Len(affinity) <= MaxRecords /\ OneEach(affinity)
  BY BalancerAssumption DEF Table
<1>2. new \in AffinityRecord
  BY DEF AffinityRecord
<1>3. /\ kept \in Seq(AffinityRecord) /\ Len(kept) <= MaxRecords - 1 /\ OneEach(kept)
      /\ \A k \in 1..Len(kept) : kept[k].ip # i
  <2>1. CASE Records(i) # {} \/ Len(affinity) < MaxRecords
    <3>1. Len(Others(i)) \in Nat
      BY OthersAreRecords
    <3> QED
      BY <1>1, <2>1, <3>1, OthersAreRecords
  <2>2. CASE Records(i) = {} /\ Len(affinity) = MaxRecords
    <3>1. kept = SubSeq(affinity, 1, MaxRecords - 1)
      BY <2>2, <1>1
    <3>2. /\ kept \in Seq(AffinityRecord) /\ Len(kept) = MaxRecords - 1
          /\ \A k \in 1..Len(kept) : k \in DOMAIN affinity /\ kept[k] = affinity[k]
      BY <1>1, <2>2, <3>1
    <3> HIDE DEF kept
    <3>3. OneEach(kept)
      BY <1>1, <3>2 DEF OneEach
    <3>4. \A k \in 1..Len(kept) : kept[k].ip # i
      BY <2>2, <3>2 DEF Records
    <3> QED
      BY <3>2, <3>3, <3>4
  <2> QED
    BY <1>1, <2>1, <2>2
<1>4. affinity' = <<new>> \o kept
  BY DEF Remember
<1> HIDE DEF kept, new
<1>5. Len(kept) \in Nat
  BY <1>3
<1>6. /\ affinity' \in Seq(AffinityRecord) /\ Len(affinity') = Len(kept) + 1
      /\ affinity'[1] = new
      /\ \A k \in 2..Len(affinity') : k - 1 \in 1..Len(kept) /\ affinity'[k] = kept[k - 1]
  BY <1>2, <1>3, <1>4
<1>7. OneEach(affinity)'
  <2> SUFFICES ASSUME NEW k \in 1..Len(affinity'), NEW m \in 1..Len(affinity'),
                      affinity'[k].ip = affinity'[m].ip
               PROVE  k = m
    BY <1>6 DEF OneEach
  <2>1. new.ip = i
    BY DEF new
  <2>0. ASSUME NEW j \in 2..Len(affinity') PROVE affinity'[j].ip # i
    <3>1. j - 1 \in 1..Len(kept) /\ affinity'[j] = kept[j - 1]
      BY <1>6
    <3> QED BY <1>3, <3>1
  <2>2. CASE k = 1
    <3>1. m = 1 \/ m \in 2..Len(affinity')
      BY <1>5, <1>6
    <3>2. affinity'[m].ip = i
      BY <1>6, <2>1, <2>2
    <3> QED BY <2>0, <2>2, <3>1, <3>2
  <2>3. CASE m = 1
    <3>1. k = 1 \/ k \in 2..Len(affinity')
      BY <1>5, <1>6
    <3>2. affinity'[k].ip = i
      BY <1>6, <2>1, <2>3
    <3> QED BY <2>0, <2>3, <3>1, <3>2
  <2>4. CASE k # 1 /\ m # 1
    <3>1. k \in 2..Len(affinity') /\ m \in 2..Len(affinity')
      BY <2>4
    <3>2. kept[k - 1].ip = kept[m - 1].ip
      BY <1>6, <3>1
    <3>3. k - 1 = m - 1
      BY <1>3, <1>6, <3>1, <3>2 DEF OneEach
    <3> QED
      BY <3>3
  <2> QED
    BY <2>2, <2>3, <2>4
<1>8. Len(affinity') <= MaxRecords
  BY <1>1, <1>3, <1>5, <1>6
<1> QED
  BY <1>6, <1>7, <1>8 DEF Table

\* Ageing changes no client and no node of a record.
LEMMA AgeKeepsTable == ASSUME Table, Age PROVE Table'
<1>1. PICK k \in DOMAIN affinity :
        affinity' = [m \in DOMAIN affinity |-> [affinity[m] EXCEPT !.stale = @ \/ m >= k]]
  BY DEF Age
<1>2. affinity \in Seq(AffinityRecord) /\ DOMAIN affinity = 1..Len(affinity) /\ Len(affinity) \in Nat
  BY DEF Table
<1>3. ASSUME NEW m \in 1..Len(affinity)
      PROVE  affinity'[m] \in AffinityRecord /\ affinity'[m].ip = affinity[m].ip
  <2>1. affinity[m] \in AffinityRecord
    BY <1>2
  <2>2. affinity'[m] = [affinity[m] EXCEPT !.stale = affinity[m].stale \/ m >= k]
    BY <1>1, <1>2
  <2>3. (affinity[m].stale \/ m >= k) \in BOOLEAN
    OBVIOUS
  <2> QED
    BY <2>1, <2>2, <2>3 DEF AffinityRecord
<1>4. affinity' \in [1..Len(affinity) -> AffinityRecord]
  <2>1. DOMAIN affinity' = 1..Len(affinity) /\ affinity' = [m \in 1..Len(affinity) |-> affinity'[m]]
    BY <1>1, <1>2
  <2> QED
    BY <1>3, <2>1
<1>5. affinity' \in Seq(AffinityRecord) /\ Len(affinity') = Len(affinity)
  BY <1>2, <1>4
<1> QED
  BY <1>2, <1>3, <1>5 DEF Table, OneEach

\* A decision that looks at a node, records it or is about to count on it.
Choosing == {"status", "count", "drop", "record", "take"}

ChoiceIsTag == \A t \in Threads : at[t] \in Choosing => choice[t] \in Tags

\* A thread goes on to another place with another choice.
LEMMA ChoiceMoves ==
  ASSUME Types, ChoiceIsTag, NEW t \in Threads, NEW place, at' = [at EXCEPT ![t] = place],
         NEW c, choice' = [choice EXCEPT ![t] = c], place \in Choosing => c \in Tags
  PROVE  ChoiceIsTag'
<1> SUFFICES ASSUME NEW u \in Threads, at'[u] \in Choosing PROVE choice'[u] \in Tags
    BY DEF ChoiceIsTag
<1>1. CASE u = t
  BY <1>1 DEF Types
<1>2. CASE u # t
  BY <1>2 DEF Types, ChoiceIsTag
<1> QED BY <1>1, <1>2

LEMMA ChoiceStays ==
  ASSUME Types, NEW t \in Threads
  PROVE  choice = [choice EXCEPT ![t] = choice[t]] /\ at = [at EXCEPT ![t] = at[t]]
BY DEF Types

LEMMA RouteChoices ==
  ASSUME Types, ChoiceIsTag, NEW t \in Threads, Route(t)
  PROVE  ChoiceIsTag'
<1>1. CASE AffinityStatus(t) \/ AffinityCount(t)
  <2>1. PICK place \in Choosing : at' = [at EXCEPT ![t] = place]
    BY <1>1 DEF AffinityStatus, AffinityCount, Goto, Choosing
  <2>2. UNCHANGED choice /\ at[t] \in Choosing
    BY <1>1 DEF AffinityStatus, AffinityCount, Goto, Choosing, deciding
  <2>3. choice[t] \in Tags
    BY <2>2 DEF ChoiceIsTag
  <2> QED BY <2>1, <2>2, <2>3, ChoiceStays, ChoiceMoves
<1>2. CASE AffinityDrop(t) \/ ListNodes(t) \/ NodeLoad(t)
  <2>1. PICK place \in {"list", "health"} : at' = [at EXCEPT ![t] = place]
    BY <1>2 DEF AffinityDrop, ListNodes, NodeLoad, Goto
  <2>2. UNCHANGED choice
    BY <1>2 DEF AffinityDrop, ListNodes, NodeLoad, deciding
  <2> QED BY <2>1, <2>2, ChoiceStays, ChoiceMoves DEF Choosing
<1>3. CASE NodeHealth(t)
  <2>1. PICK place \in {"health", "load"} : at' = [at EXCEPT ![t] = place]
    BY <1>3 DEF NodeHealth, Goto
  <2>2. UNCHANGED choice
    BY <1>3 DEF NodeHealth
  <2> QED BY <2>1, <2>2, ChoiceStays, ChoiceMoves DEF Choosing
<1>4. CASE PickRoundRobin(t) \/ PickWeighted(t) \/ PickLeast(t)
  <2>1. PICK i : Chosen(t, i)
    BY <1>4 DEF PickRoundRobin, PickWeighted, PickLeast
  <2>2. cands[t] \in Seq(Cand) /\ i \in DOMAIN cands[t]
    BY <2>1 DEF Chosen, Types
  <2>3. cands[t][i].tag \in Tags
    <3>1. cands[t][i] \in Cand
      BY <2>2
    <3> QED BY <3>1 DEF Cand
  <2> QED BY <2>1, <2>3, ChoiceMoves DEF Chosen
<1>5. CASE Record(t)
  <2>1. at[t] = "record" /\ at' = [at EXCEPT ![t] = "take"] /\ UNCHANGED choice
    BY <1>5 DEF Record, Goto, deciding
  <2>2. choice[t] \in Tags
    BY <2>1 DEF ChoiceIsTag, Choosing
  <2> QED BY <2>1, <2>2, ChoiceStays, ChoiceMoves
<1>6. CASE NoCandidate(t) \/ Take(t)
  <2>1. at' = [at EXCEPT ![t] = "idle"] /\ choice' = [choice EXCEPT ![t] = NoTag]
    BY <1>6 DEF NoCandidate, Take, Return
  <2>2. "idle" \notin Choosing
    BY DEF Choosing
  <2> QED BY <2>1, <2>2, ChoiceMoves
<1> QED
  BY <1>1, <1>2, <1>3, <1>4, <1>5, <1>6 DEF Route

LEMMA ChoicesKept ==
  ASSUME Types, ChoiceIsTag, Table, [Next]_vars
  PROVE  ChoiceIsTag'
<1>1. ASSUME NEW t \in Threads, NEW s \in Sessions, Decide(t, s)
      PROVE  ChoiceIsTag'
  <2>1. CASE at' = [at EXCEPT ![t] = "list"] /\ UNCHANGED choice
    <3>1. "list" \notin Choosing
      BY DEF Choosing
    <3> QED BY <2>1, <3>1, ChoiceStays, ChoiceMoves
  <2>2. CASE \E n \in Remembered(ip[s]) :
               at' = [at EXCEPT ![t] = "status"] /\ choice' = [choice EXCEPT ![t] = n]
    <3>1. ASSUME NEW n \in Remembered(ip[s]) PROVE n \in Tags
      <4>1. PICK k \in DOMAIN affinity : n = affinity[k].tag
        BY DEF Remembered, Records
      <4>2. affinity[k] \in AffinityRecord
        BY DEF Table
      <4> QED BY <4>1, <4>2 DEF AffinityRecord
    <3> QED BY <2>2, <3>1, ChoiceMoves
  <2> QED BY <1>1, <2>1, <2>2 DEF Decide, Goto
<1>2. ASSUME NEW t \in Threads, NEW s \in Sessions, CloseSession(t, s)
      PROVE  ChoiceIsTag'
  <2>1. UNCHANGED choice /\ (UNCHANGED at \/ \E p \in {"give", "clear"} : at' = [at EXCEPT ![t] = p])
    BY <1>2 DEF CloseSession, Goto
  <2>2. ASSUME UNCHANGED at PROVE ChoiceIsTag'
    BY <2>1, <2>2 DEF ChoiceIsTag
  <2> QED BY <2>1, <2>2, ChoiceStays, ChoiceMoves DEF Choosing
<1>3. ASSUME NEW t \in Threads, Close(t)
      PROVE  ChoiceIsTag'
  <2>0. "clear" \notin Choosing /\ "idle" \notin Choosing
    BY DEF Choosing
  <2>1. CASE GiveBack(t)
    <3>1. at' = [at EXCEPT ![t] = "clear"] /\ UNCHANGED choice
      BY <2>1 DEF GiveBack, Goto
    <3> QED BY <2>0, <3>1, ChoiceStays, ChoiceMoves
  <2>2. CASE ClearTunnel(t)
    <3>1. at' = [at EXCEPT ![t] = "idle"] /\ choice' = [choice EXCEPT ![t] = NoTag]
      BY <2>2 DEF ClearTunnel, Return
    <3> QED BY <2>0, <3>1, ChoiceMoves
  <2> QED BY <1>3, <2>1, <2>2 DEF Close
<1>4. CASE Aside \/ UNCHANGED vars
  <2>1. UNCHANGED <<at, choice>>
    BY <1>4, AsideKeeps DEF vars, deciding
  <2> QED BY <2>1 DEF ChoiceIsTag
<1> QED
  BY <1>1, <1>2, <1>3, <1>4, RouteChoices DEF Next, Aside

\* Only a decision and the passing of time write the table.
LEMMA TableWritten ==
  ASSUME [Next]_vars
  PROVE  \/ affinity' = affinity \/ Age
         \/ \E t \in Threads : AffinityDrop(t) \/ Record(t)
<1>1. ASSUME NEW t \in Threads, Route(t) \/ Close(t), ~AffinityDrop(t), ~Record(t)
      PROVE  affinity' = affinity
  BY <1>1 DEF Route, Close, AffinityStatus, AffinityCount, ListNodes, NodeHealth,
     NodeLoad, NoCandidate, PickRoundRobin, PickWeighted, PickLeast, Chosen, Take,
     GiveBack, ClearTunnel, SessionKeeps
<1>2. ASSUME NEW t \in Threads, NEW s \in Sessions, Decide(t, s) \/ CloseSession(t, s)
      PROVE  affinity' = affinity
  BY <1>2 DEF Decide, CloseSession, SessionKeeps
<1>3. ASSUME Aside, ~Age PROVE affinity' = affinity
  BY <1>3 DEF Aside, ConnectFails, TunnelUp, StartRound, Check, BeginProbe, EndProbe, RecordProbe,
     Administer, LowerRemoved, MarkRemoved, CheckNodes, Reschedule, AddNode, RemoveNode, RenameNode,
     SetWeight, Flip, Request, ProberKeeps, SessionKeeps
<1>4. ASSUME UNCHANGED vars PROVE affinity' = affinity
  BY <1>4 DEF vars
<1> QED
  BY <1>1, <1>2, <1>3, <1>4 DEF Next, Aside

LEMMA TableKept ==
  ASSUME Types, Owners, ChoiceIsTag, Table, [Next]_vars
  PROVE  Table'
<1>1. ASSUME affinity' = affinity PROVE Table'
  BY <1>1 DEF Table
<1>2. ASSUME NEW t \in Threads, AffinityDrop(t) PROVE Table'
  <2>1. affinity' = Others(Client(t))
    BY <1>2 DEF AffinityDrop
  <2>2. Len(affinity) \in Nat /\ Len(Others(Client(t))) \in Nat /\ MaxRecords \in Nat
    BY OthersAreRecords, BalancerAssumption DEF Table
  <2> QED BY <2>1, <2>2, OthersAreRecords DEF Table
<1>3. ASSUME NEW t \in Threads, Record(t) PROVE Table'
  <2>1. at[t] = "record"
    BY <1>3 DEF Record, Goto
  <2>2. ses[t] \in Sessions /\ choice[t] \in Tags
    BY <2>1 DEF Owners, Deciding, ChoiceIsTag, Choosing
  <2>3. Client(t) \in IPs
    BY <2>2, BalancerAssumption DEF Client
  <2>4. affinity' = affinity \/ Remember(Client(t), choice[t])
    BY <1>3 DEF Record
  <2> QED BY <1>1, <2>2, <2>3, <2>4, RememberKeepsTable
<1> QED
  BY <1>1, <1>2, <1>3, AgeKeepsTable, TableWritten

\* A client has at most one record.
LEMMA OneRecord ==
  ASSUME Table, NEW i
  PROVE  Cardinality(Records(i)) <= 1
<1>1. \A k, m \in Records(i) : k = m
  BY DEF Table, OneEach, Records
<1>2. CASE Records(i) = {}
  BY <1>2, FS_EmptySet
<1>3. ASSUME NEW k \in Records(i) PROVE Cardinality(Records(i)) <= 1
  <2>1. Records(i) = {k}
    BY <1>1
  <2>2. Cardinality({k}) = 1
    BY FS_Singleton
  <2> QED BY <2>1, <2>2
<1> QED BY <1>2, <1>3

\* What an administrator sets, and what the probes have measured.
Settings ==
  /\ strategy \in AllStrategies /\ sticky \in BOOLEAN
  /\ \A n \in Tags : health[n].latency \in Latencies \cup {0}

LEMMA SettingsKept ==
  ASSUME Types, Settings, [Next]_vars
  PROVE  Settings'
<1>1. strategy' \in AllStrategies /\ sticky' \in BOOLEAN
  <2>1. CASE \E w \in Web : Reschedule(w)
    BY <2>1, BalancerAssumption DEF Reschedule, Settings
  <2>2. CASE UNCHANGED <<strategy, sticky>>
    BY <2>2 DEF Settings
  <2>3. ASSUME NEW t \in Threads, Route(t) \/ Close(t) PROVE UNCHANGED <<strategy, sticky>>
    BY <2>3 DEF Route, Close, AffinityStatus, AffinityCount, AffinityDrop, ListNodes, NodeHealth,
       NodeLoad, NoCandidate, PickRoundRobin, PickWeighted, PickLeast, Chosen, Record, Take,
       GiveBack, ClearTunnel, DecisionKeeps, SessionKeeps, lists
  <2>4. ASSUME NEW t \in Threads, NEW s \in Sessions, Decide(t, s) \/ CloseSession(t, s)
        PROVE  UNCHANGED <<strategy, sticky>>
    BY <2>4 DEF Decide, CloseSession, SessionKeeps, lists
  <2>5. ASSUME Aside, ~\E w \in Web : Reschedule(w) PROVE UNCHANGED <<strategy, sticky>>
    BY <2>5 DEF Aside, ConnectFails, TunnelUp, Age, StartRound, Check, BeginProbe, EndProbe,
       RecordProbe, Administer, LowerRemoved, MarkRemoved, CheckNodes, AddNode, RemoveNode,
       RenameNode, SetWeight, Flip, SessionKeeps, lists
  <2>6. ASSUME UNCHANGED vars PROVE UNCHANGED <<strategy, sticky>>
    BY <2>6 DEF vars, lists
  <2> QED BY <2>1, <2>2, <2>3, <2>4, <2>5, <2>6 DEF Next, Aside
<1>2. ASSUME NEW n \in Tags PROVE health'[n].latency \in Latencies \cup {0}
  <2>1. health[n] \in Health /\ health[n].latency \in Latencies \cup {0}
    BY DEF Types, Settings
  <2>2. ASSUME NEW p \in Probers, RecordProbe(p) PROVE health'[n].latency \in Latencies \cup {0}
    <3>1. PICK ms \in Latencies :
            health' = [health EXCEPT ![Head(task[p]).tag] =
                         Probed(health[Head(task[p]).tag], answer[p], ms)]
      BY <2>2 DEF RecordProbe
    <3>2. health'[n] = health[n] \/ health'[n] = Probed(health[n], answer[p], ms)
      BY <3>1 DEF Types
    <3>3. Probed(health[n], answer[p], ms).latency \in Latencies \cup {0}
      BY <2>1 DEF Probed, failed_probe, Health
    <3> QED BY <2>1, <3>2, <3>3
  <2>3. ASSUME NEW w \in Web, MarkRemoved(w) PROVE health'[n].latency \in Latencies \cup {0}
    <3>1. health' = [health EXCEPT ![Head(task[w]).tag] = marked(health[Head(task[w]).tag])]
      BY <2>3 DEF MarkRemoved
    <3>2. health'[n] = health[n] \/ health'[n] = marked(health[n])
      BY <3>1 DEF Types
    <3>3. marked(health[n]).latency = health[n].latency
      BY <2>1 DEF marked, Health
    <3> QED BY <2>1, <3>2, <3>3
  <2> QED BY <2>1, <2>2, <2>3, HealthWritten
<1> QED
  BY <1>1, <1>2 DEF Settings

Phases == {"new", "routing", "connecting", "failed", "tunnel"}

\* What is known of each session.
Stages ==
  \A s \in Sessions : /\ phase[s] \in Phases /\ node[s] \in Tags \cup {NoTag}
                      /\ active[s] \in BOOLEAN

\* A step that says something new of one session.
LEMMA StageMoves ==
  ASSUME Owners, Stages, NEW s \in Sessions,
         NEW p \in Phases, phase' = [phase EXCEPT ![s] = p],
         NEW n \in Tags \cup {NoTag}, node' = [node EXCEPT ![s] = n],
         NEW a \in BOOLEAN, active' = [active EXCEPT ![s] = a]
  PROVE  Stages'
<1> SUFFICES ASSUME NEW r \in Sessions
             PROVE  phase'[r] \in Phases /\ node'[r] \in Tags \cup {NoTag} /\ active'[r] \in BOOLEAN
    BY DEF Stages
<1>1. CASE r = s BY <1>1 DEF Owners
<1>2. CASE r # s BY <1>2 DEF Owners, Stages
<1> QED BY <1>1, <1>2

LEMMA StageStays ==
  ASSUME Owners, Stages, NEW s \in Sessions
  PROVE  /\ phase[s] \in Phases /\ phase = [phase EXCEPT ![s] = phase[s]]
         /\ node[s] \in Tags \cup {NoTag} /\ node = [node EXCEPT ![s] = node[s]]
         /\ active[s] \in BOOLEAN /\ active = [active EXCEPT ![s] = active[s]]
BY DEF Owners, Stages

\* Only these steps say something new of a session.
LEMMA StagesWritten ==
  ASSUME [Next]_vars
  PROVE  \/ UNCHANGED <<phase, node, active>>
         \/ \E t \in Threads : NoCandidate(t) \/ Take(t) \/ ClearTunnel(t)
         \/ \E t \in Threads, s \in Sessions : Decide(t, s)
         \/ \E s \in Sessions : ConnectFails(s) \/ TunnelUp(s)
<1>1. ASSUME NEW t \in Threads, Route(t) \/ Close(t), ~NoCandidate(t), ~Take(t), ~ClearTunnel(t)
      PROVE  UNCHANGED <<phase, node, active>>
  BY <1>1 DEF Route, Close, AffinityStatus, AffinityCount, AffinityDrop, ListNodes, NodeHealth,
     NodeLoad, PickRoundRobin, PickWeighted, PickLeast, Chosen, Record, GiveBack, DecisionKeeps,
     sessionVars
<1>2. ASSUME NEW t \in Threads, NEW s \in Sessions, CloseSession(t, s)
      PROVE  UNCHANGED <<phase, node, active>>
  BY <1>2 DEF CloseSession
<1>3. ASSUME Aside, \A s \in Sessions : ~ConnectFails(s) /\ ~TunnelUp(s)
      PROVE  UNCHANGED <<phase, node, active>>
  BY <1>3 DEF Aside, Age, StartRound, Check, BeginProbe, EndProbe, RecordProbe, Administer,
     LowerRemoved, MarkRemoved, CheckNodes, Reschedule, AddNode, RemoveNode, RenameNode, SetWeight,
     Flip, Request, ProberKeeps, sessionVars
<1>4. ASSUME UNCHANGED vars PROVE UNCHANGED <<phase, node, active>>
  BY <1>4 DEF vars, sessionVars
<1> QED
  BY <1>1, <1>2, <1>3, <1>4 DEF Next, Aside

LEMMA StagesKept ==
  ASSUME Types, Owners, ChoiceIsTag, Stages, [Next]_vars
  PROVE  Stages'
<1>1. CASE UNCHANGED <<phase, node, active>>
  BY <1>1 DEF Stages
<1>2. ASSUME NEW t \in Threads, NoCandidate(t) PROVE Stages'
  <2>1. /\ at[t] = "health" /\ phase' = [phase EXCEPT ![ses[t]] = "connecting"]
        /\ UNCHANGED <<node, active>>
    BY <1>2 DEF NoCandidate, Examined
  <2>2. ses[t] \in Sessions
    BY <2>1 DEF Owners, Deciding
  <2> QED BY <2>1, <2>2, StageStays, StageMoves DEF Phases
<1>3. ASSUME NEW t \in Threads, Take(t) PROVE Stages'
  <2>1. /\ at[t] = "take" /\ phase' = [phase EXCEPT ![ses[t]] = "connecting"]
        /\ node' = [node EXCEPT ![ses[t]] = choice[t]] /\ UNCHANGED active
    BY <1>3 DEF Take
  <2>2. ses[t] \in Sessions /\ choice[t] \in Tags
    BY <2>1 DEF Owners, Deciding, ChoiceIsTag, Choosing
  <2> QED BY <2>1, <2>2, StageStays, StageMoves DEF Phases
<1>4. ASSUME NEW t \in Threads, ClearTunnel(t) PROVE Stages'
  <2>1. /\ at[t] = "clear" /\ active' = [active EXCEPT ![ses[t]] = FALSE]
        /\ UNCHANGED <<phase, node>>
    BY <1>4 DEF ClearTunnel
  <2>2. ses[t] \in Sessions
    BY <2>1 DEF Owners
  <2> QED BY <2>1, <2>2, StageStays, StageMoves
<1>5. ASSUME NEW t \in Threads, NEW s \in Sessions, Decide(t, s) PROVE Stages'
  <2>1. phase' = [phase EXCEPT ![s] = "routing"] /\ UNCHANGED <<node, active>>
    BY <1>5 DEF Decide
  <2> QED BY <2>1, StageStays, StageMoves DEF Phases
<1>6. ASSUME NEW s \in Sessions, ConnectFails(s) PROVE Stages'
  <2>1. phase' = [phase EXCEPT ![s] = "failed"] /\ UNCHANGED <<node, active>>
    BY <1>6 DEF ConnectFails
  <2> QED BY <2>1, StageStays, StageMoves DEF Phases
<1>7. ASSUME NEW s \in Sessions, TunnelUp(s) PROVE Stages'
  <2>1. /\ phase' = [phase EXCEPT ![s] = "tunnel"] /\ active' = [active EXCEPT ![s] = TRUE]
        /\ UNCHANGED node
    BY <1>7 DEF TunnelUp
  <2> QED BY <2>1, StageStays, StageMoves DEF Phases
<1> QED
  BY <1>1, <1>2, <1>3, <1>4, <1>5, <1>6, <1>7, StagesWritten

LEMMA InitTable == Init => ChoiceIsTag /\ Table /\ Settings /\ Stages
<1> SUFFICES ASSUME Init PROVE ChoiceIsTag /\ Table /\ Settings /\ Stages
    OBVIOUS
<1>1. ChoiceIsTag
  BY DEF Init, ChoiceIsTag, Choosing
<1>2. Table
  <2>1. affinity = <<>> /\ MaxRecords \in Nat
    BY BalancerAssumption DEF Init
  <2> QED BY <2>1 DEF Table, OneEach
<1>3. Settings
  BY BalancerAssumption DEF Init, Settings
<1>4. Stages
  BY DEF Init, Stages, Phases
<1> QED BY <1>1, <1>2, <1>3, <1>4

\* Any number of decisions, each of which looks a client up, drops its record
\* and records it again in lock regions of their own, and any ageing between
\* them, leave the affinity table within its bound with at most one record of
\* each client, which names a node (ip_affinity_table.cpp).
THEOREM BalancerTypes == Spec => []LBTypeOK
<1> DEFINE IInv == /\ Types /\ Room /\ Owners /\ CountsFollowSessions
                   /\ ChoiceIsTag /\ Table /\ Settings /\ Stages
<1>1. Init => IInv
  BY InitTypes, InitRoom, InitOwners, InitTable
<1>2. IInv /\ [Next]_vars => IInv'
  <2> SUFFICES ASSUME IInv, [Next]_vars PROVE IInv'
      OBVIOUS
  <2>1. Types' /\ Room'
    BY RoomNext
  <2>2. Owners' /\ CountsFollowSessions'
    BY OwnersKept
  <2>3. ChoiceIsTag' /\ Table' /\ Settings' /\ Stages'
    BY ChoicesKept, TableKept, SettingsKept, StagesKept
  <2> QED BY <2>1, <2>2, <2>3
<1>3. IInv => LBTypeOK
  <2> SUFFICES ASSUME IInv PROVE LBTypeOK
      OBVIOUS
  <2>1. \A k \in DOMAIN affinity : affinity[k].ip \in IPs /\ affinity[k].tag \in Tags
    <3> SUFFICES ASSUME NEW k \in DOMAIN affinity
                 PROVE  affinity[k].ip \in IPs /\ affinity[k].tag \in Tags
        OBVIOUS
    <3>1. affinity[k] \in AffinityRecord
      BY DEF Table
    <3> QED BY <3>1 DEF AffinityRecord
  <2>2. \A n \in Tags : health[n].status \in Statuses
    <3> SUFFICES ASSUME NEW n \in Tags PROVE health[n].status \in Statuses
        OBVIOUS
    <3>1. health[n] \in Health
      BY DEF Types
    <3> QED BY <3>1 DEF Health
  <2>3. /\ phase \in [Sessions -> Phases] /\ node \in [Sessions -> Tags \cup {NoTag}]
        /\ active \in [Sessions -> BOOLEAN]
    BY DEF Owners, Stages
  <2>4. \A i \in IPs : Cardinality(Records(i)) <= 1
    BY OneRecord
  <2> QED BY <2>1, <2>2, <2>3, <2>4 DEF LBTypeOK, Types, Table, Settings, Phases
<1> QED
  BY <1>1, <1>2, <1>3, PTL DEF Spec
=============================================================================
