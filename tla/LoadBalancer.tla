---------------------------- MODULE LoadBalancer ---------------------------
(***************************************************************************)
(* Which node a proxied session is counted on:                             *)
(*   concurrency/load_balancer.cpp, ip_affinity_table.cpp and              *)
(*   node_health_checker.cpp, with their callers in proxy_core/session.cpp *)
(*   (do_route_decision, close_session), web_server/api_router.cpp and     *)
(*   v2rayn_manager/vm_node_manager.cpp.                                   *)
(*                                                                         *)
(* The io threads decide and close; the probers are the periodic health    *)
(* check and the web handlers.  Every action is one lock region, or one    *)
(* access of an atomic; between two of them any other thread may run.      *)
(*                                                                         *)
(* A node that was never probed reads as available, without failures and   *)
(* with latency 0, and a node that is not in m_node_connections as 0.      *)
(* consecutive_failures is only compared with the threshold and stays      *)
(* there.  The failover handler is never called, and nothing calls         *)
(* cleanup_expired, invalidate_node or set_node_capacity_threshold.        *)
(***************************************************************************)
EXTENDS Integers, FiniteSets, Sequences, SequencesExt, Subsequences

CONSTANTS
  Threads,    \* io threads
  Sessions,   \* sessions whose route is the proxy
  IPs,        \* client addresses
  ip,         \* the client address of each session
  Tags,       \* tags of nodes
  NoTag,      \* the empty string, and no tag at all
  InitNodes,  \* the list of nodes at startup
  Periodic,   \* the thread of the periodic check
  Web,        \* threads that run web handlers
  Capacity,   \* node_capacity_threshold
  FailureThreshold,  \* health_failure_threshold
  MaxRecords, \* ip_affinity_max_records
  Latencies,  \* how many milliseconds a probe may take
  Weights,    \* the weights an administrator may set
  DefaultWeight,     \* the weight of a node that was given none
  Strategies, \* the strategies that may be chosen
  MaxEdits    \* bound: how many requests the administrator makes

Probers == {Periodic} \cup Web

AllStrategies ==
  {"round_robin", "weighted_round_robin", "least_connections", "lowest_latency"}

ASSUME BalancerAssumption ==
  /\ IsFiniteSet(Threads) /\ IsFiniteSet(Sessions)
  /\ ip \in [Sessions -> IPs]
  /\ InitNodes \in Seq(Tags)
  /\ NoTag \notin Tags /\ NoTag \notin Threads
  /\ Periodic \notin Web
  /\ Capacity \in Nat \ {0}
  /\ FailureThreshold \in Nat \ {0}
  /\ MaxRecords \in Nat \ {0}
  /\ Latencies \subseteq Nat
  /\ Weights \subseteq 1..100 /\ DefaultWeight \in Nat \ {0}
  /\ Strategies \subseteq AllStrategies
  /\ MaxEdits \in Nat

VARIABLES
  nodes,    \* vm_node_manager's list of tags
  conns,    \* load_balancer::m_node_connections
  weights,  \* m_node_weights
  strategy, \* m_strategy
  sticky,   \* m_ip_affinity_enabled
  rr,       \* m_rr_index
  wrr,      \* m_wrr_current_weights
  affinity, \* m_lru, the latest first; m_index finds its records
  health,   \* node_health_checker::m_health
  task,     \* what each prober has left to do
  answer,   \* what the probe a prober is at has found
  up,       \* the nodes that accept connections
  at,       \* where each io thread is
  ses,      \* the session it runs a handler of
  todo,     \* get_candidates: the nodes it has not looked at
  cands,    \* get_candidates: those it has found fit
  choice,   \* the node it is looking at, or has chosen
  phase,    \* of each session
  node,     \* m_selected_node_tag
  active,   \* m_tunnel_active
  ends,     \* how many directions of its tunnel have begun to close it
  edits,    \* history: the requests made so far
  skewed,   \* history: a count was lowered for no session
  removed   \* history: nodes removed while no probe of them was under way

lists  == <<nodes, weights, strategy, sticky>>
pickers == <<rr, wrr>>
probes == <<health, task, answer, up>>
deciding == <<todo, cands, choice>>
sessionVars == <<phase, node, active, ends>>
history == <<edits, skewed, removed>>
vars == <<lists, conns, pickers, affinity, probes, at, ses, deciding, sessionVars, history>>

Places ==
  {"idle", "status", "count", "drop", "list", "health", "load", "record", "take",
   "give", "clear"}

Init ==
  /\ nodes = InitNodes
  /\ conns = [n \in Tags |-> 0]
  /\ weights = [n \in Tags |-> DefaultWeight]
  /\ strategy \in Strategies
  /\ sticky \in BOOLEAN
  /\ rr = 0 /\ wrr = <<>> /\ affinity = <<>>
  /\ health = [n \in Tags |-> [status |-> "available", failures |-> 0, latency |-> 0]]
  /\ task = [p \in Probers |-> <<>>]
  /\ answer = [p \in Probers |-> "none"]
  /\ up = Tags
  /\ at = [t \in Threads |-> "idle"]
  /\ ses = [t \in Threads |-> NoTag]
  /\ todo = [t \in Threads |-> <<>>]
  /\ cands = [t \in Threads |-> <<>>]
  /\ choice = [t \in Threads |-> NoTag]
  /\ phase = [s \in Sessions |-> "new"]
  /\ node = [s \in Sessions |-> NoTag]
  /\ active = [s \in Sessions |-> FALSE]
  /\ ends = [s \in Sessions |-> 0]
  /\ edits = 0 /\ skewed = FALSE /\ removed = {}

Goto(t, from, to) ==
  /\ at[t] = from
  /\ at' = [at EXCEPT ![t] = to]

\* What a thread is doing concerns the client of its session.
Client(t) == ip[ses[t]]

-----------------------------------------------------------------------------
(* ip_affinity_table *)

Records(i) == {k \in DOMAIN affinity : affinity[k].ip = i}

Others(i) == Subsequence(affinity, DOMAIN affinity \ Records(i))

\* lookup: the record is there and not too old.  It is not written to.
Remembered(i) == {affinity[k].tag : k \in {k \in Records(i) : ~affinity[k].stale}}

\* Fault: the table never throws a record out.
RememberAll(i, n) ==
  affinity' = <<[ip |-> i, tag |-> n, stale |-> FALSE]>> \o Others(i)

\* update: the client's record goes to the front, and a new one makes room for
\* itself by taking away the last ones.
Remember(i, n) ==
  LET kept == IF Records(i) # {} \/ Len(affinity) < MaxRecords THEN Others(i)
              ELSE SubSeq(affinity, 1, MaxRecords - 1)
  IN affinity' = <<[ip |-> i, tag |-> n, stale |-> FALSE]>> \o kept

\* Time passes: the records are in the order of last_access, so those that
\* are too old are the last ones.
Age ==
  /\ \E k \in DOMAIN affinity :
       affinity' = [m \in DOMAIN affinity |->
                      [affinity[m] EXCEPT !.stale = @ \/ m >= k]]
  /\ UNCHANGED <<lists, conns, pickers, probes, at, ses, deciding, sessionVars, history>>

-----------------------------------------------------------------------------
(* The strategies: which places of a non-empty sequence of candidates may  *)
(* be picked.  There is always exactly one.                                *)

\* Of the places in S, the first one of those with the fewest connections.
fewest(c, S) ==
  {i \in S : \A j \in S : c[i].conns < c[j].conns \/ (c[i].conns = c[j].conns /\ i <= j)}

least_connections(c) == fewest(c, DOMAIN c)

\* Those within 10 ms of the fastest whose latency is known.  If none is known
\* min_latency + 10 overflows; whatever that gives, the result is the same.
lowest_latency(c) ==
  LET known == {c[i].latency : i \in DOMAIN c} \ {0}
      least == CHOOSE l \in known : \A m \in known : l <= m
  IN fewest(c, {i \in DOMAIN c : known = {} \/ c[i].latency <= least + 10})

round_robin(c) == {i \in DOMAIN c : i = (rr % Len(c)) + 1}

TotalWeight(c) ==
  LET sum[i \in 0..Len(c)] == IF i = 0 THEN 0 ELSE sum[i - 1] + c[i].weight
  IN sum[Len(c)]

\* m_wrr_current_weights is cut or filled up with zeros to as many as there are
\* candidates; every one gains its weight.
raised(c) ==
  [i \in DOMAIN c |-> (IF i <= Len(wrr) THEN wrr[i] ELSE 0) + c[i].weight]

heaviest(w) ==
  {i \in DOMAIN w : \A j \in DOMAIN w : w[i] > w[j] \/ (w[i] = w[j] /\ i <= j)}

pay(w, i, total) == [w EXCEPT ![i] = @ - total]

-----------------------------------------------------------------------------
(* do_route_decision with select_node: one handler, on one thread *)

\* With affinity, the client's record is looked up first.
Decide(t, s) ==
  /\ phase[s] = "new"
  /\ phase' = [phase EXCEPT ![s] = "routing"]
  /\ ses' = [ses EXCEPT ![t] = s]
  /\ \/ /\ sticky
        /\ \E n \in Remembered(ip[s]) :
             /\ Goto(t, "idle", "status")
             /\ choice' = [choice EXCEPT ![t] = n]
     \/ /\ ~sticky \/ Remembered(ip[s]) = {}
        /\ Goto(t, "idle", "list")
        /\ UNCHANGED choice
  /\ UNCHANGED <<lists, conns, pickers, affinity, probes, todo, cands, node, active,
                 ends, history>>

\* The handler returns and its variables are gone.
Return(t) ==
  /\ at' = [at EXCEPT ![t] = "idle"]
  /\ ses' = [ses EXCEPT ![t] = NoTag]
  /\ choice' = [choice EXCEPT ![t] = NoTag]

\* What a decision step leaves alone.
DecisionKeeps ==
  UNCHANGED <<lists, probes, ses, sessionVars, history>>

\* Fault: a node at its capacity is a candidate.
fits_at(n) == conns[n] <= Capacity

fits(n) == conns[n] < Capacity

\* get_status of the remembered node.
AffinityStatus(t) ==
  /\ \/ Goto(t, "status", "count") /\ health[choice[t]].status # "unavailable"
     \/ Goto(t, "status", "drop") /\ health[choice[t]].status = "unavailable"
  /\ UNCHANGED <<conns, pickers, affinity, deciding>> /\ DecisionKeeps

\* get_node_connections of the remembered node.
AffinityCount(t) ==
  /\ \/ Goto(t, "count", "take") /\ fits(choice[t])
     \/ Goto(t, "count", "drop") /\ ~fits(choice[t])
  /\ UNCHANGED <<conns, pickers, affinity, deciding>> /\ DecisionKeeps

\* invalidate(client_ip)
AffinityDrop(t) ==
  /\ Goto(t, "drop", "list")
  /\ affinity' = Others(Client(t))
  /\ UNCHANGED <<conns, pickers, deciding>> /\ DecisionKeeps

\* get_candidates copies the list of nodes and looks at one after the other.
ListNodes(t) ==
  /\ Goto(t, "list", "health")
  /\ todo' = [todo EXCEPT ![t] = nodes]
  /\ cands' = [cands EXCEPT ![t] = <<>>]
  /\ UNCHANGED <<conns, pickers, affinity, choice>> /\ DecisionKeeps

\* get_status and get_latency_ms; a node that is unavailable is passed over.
\* The latency is kept as that of the candidate the node may become.
NodeHealth(t) ==
  /\ todo[t] # <<>>
  /\ LET n == Head(todo[t]) IN
       \/ /\ health[n].status = "unavailable"
          /\ Goto(t, "health", "health")
          /\ todo' = [todo EXCEPT ![t] = Tail(@)]
          /\ UNCHANGED cands
       \/ /\ health[n].status # "unavailable"
          /\ Goto(t, "health", "load")
          /\ cands' = [cands EXCEPT ![t] =
                         Append(@, [tag |-> n, latency |-> health[n].latency,
                                    conns |-> 0, weight |-> 0])]
          /\ UNCHANGED todo
  /\ UNCHANGED <<conns, pickers, affinity, choice>> /\ DecisionKeeps

\* The node's count and weight; at its capacity it is no candidate.
NodeLoad(t) ==
  /\ Goto(t, "load", "health")
  /\ LET n == Head(todo[t]) IN
       \/ ~fits(n) /\ cands' = [cands EXCEPT ![t] = Front(@)]
       \/ fits(n) /\ cands' = [cands EXCEPT ![t][Len(cands[t])] =
                                 [@ EXCEPT !.conns = conns[n], !.weight = weights[n]]]
  /\ todo' = [todo EXCEPT ![t] = Tail(@)]
  /\ UNCHANGED <<conns, pickers, affinity, choice>> /\ DecisionKeeps

Examined(t) == at[t] = "health" /\ todo[t] = <<>>

\* The session connects to v2ray whether a node was found or not.
NoCandidate(t) ==
  /\ Examined(t) /\ cands[t] = <<>>
  /\ Return(t)
  /\ phase' = [phase EXCEPT ![ses[t]] = "connecting"]
  /\ UNCHANGED <<lists, conns, pickers, affinity, probes, todo, cands, node, active,
                 ends, history>>

Chosen(t, i) ==
  /\ Examined(t) /\ i \in DOMAIN cands[t]
  /\ at' = [at EXCEPT ![t] = "record"]
  /\ choice' = [choice EXCEPT ![t] = cands[t][i].tag]
  /\ cands' = [cands EXCEPT ![t] = <<>>]
  /\ UNCHANGED <<conns, affinity, todo>> /\ DecisionKeeps

PickRoundRobin(t) ==
  /\ strategy = "round_robin"
  /\ \E i \in round_robin(cands[t]) : Chosen(t, i)
  /\ rr' = rr + 1
  /\ UNCHANGED wrr

PickWeighted(t) ==
  /\ strategy = "weighted_round_robin"
  /\ \E i \in heaviest(raised(cands[t])) :
       /\ Chosen(t, i)
       /\ wrr' = pay(raised(cands[t]), i, TotalWeight(cands[t]))
  /\ UNCHANGED rr

PickLeast(t) ==
  /\ \/ /\ strategy = "least_connections"
        /\ \E i \in least_connections(cands[t]) : Chosen(t, i)
     \/ /\ strategy = "lowest_latency"
        /\ \E i \in lowest_latency(cands[t]) : Chosen(t, i)
  /\ UNCHANGED pickers

\* m_affinity.update, unless affinity has been switched off meanwhile.
Record(t) ==
  /\ Goto(t, "record", "take")
  /\ \/ sticky /\ Remember(Client(t), choice[t])
     \/ ~sticky /\ UNCHANGED affinity
  /\ UNCHANGED <<conns, pickers, deciding>> /\ DecisionKeeps

\* m_selected_node_tag, inc_node_connections, and the connection to v2ray.
Take(t) ==
  /\ at[t] = "take"
  /\ Return(t)
  /\ conns' = [conns EXCEPT ![choice[t]] = @ + 1]
  /\ node' = [node EXCEPT ![ses[t]] = choice[t]]
  /\ phase' = [phase EXCEPT ![ses[t]] = "connecting"]
  /\ UNCHANGED <<lists, pickers, affinity, probes, todo, cands, active, ends, history>>

-----------------------------------------------------------------------------
(* The session afterwards *)

SessionKeeps == UNCHANGED <<lists, pickers, affinity, probes, todo, cands>>

ThreadFree == \E t \in Threads : at[t] = "idle"

\* v2ray did not answer or refused: close_session finds no tunnel, and the
\* node keeps its count.
ConnectFails(s) ==
  /\ ThreadFree
  /\ phase[s] = "connecting"
  /\ phase' = [phase EXCEPT ![s] = "failed"]
  /\ UNCHANGED <<conns, at, ses, choice, node, active, ends, history>> /\ SessionKeeps

TunnelUp(s) ==
  /\ ThreadFree
  /\ phase[s] = "connecting"
  /\ phase' = [phase EXCEPT ![s] = "tunnel"]
  /\ active' = [active EXCEPT ![s] = TRUE]
  /\ UNCHANGED <<conns, at, ses, choice, node, ends, history>> /\ SessionKeeps

\* Each direction of a tunnel calls close_session once, which tests
\* m_tunnel_active first and clears it last.
CloseSession(t, s) ==
  /\ phase[s] = "tunnel" /\ ends[s] < 2
  /\ ends' = [ends EXCEPT ![s] = @ + 1]
  /\ \/ /\ active[s]
        /\ Goto(t, "idle", IF node[s] # NoTag THEN "give" ELSE "clear")
        /\ ses' = [ses EXCEPT ![t] = s]
     \/ /\ ~active[s] /\ at[t] = "idle"
        /\ UNCHANGED <<at, ses>>
  /\ UNCHANGED <<conns, choice, phase, node, active, history>> /\ SessionKeeps

\* Fault: the last connection is not given back.
DecKeepsOne(n) == conns' = [conns EXCEPT ![n] = IF @ > 1 THEN @ - 1 ELSE @]

\* dec_node_connections forgets the node at 0 and does nothing to an unknown one.
Dec(n) == conns' = [conns EXCEPT ![n] = IF @ > 0 THEN @ - 1 ELSE 0]

\* The node of session s has been given back.
Returned(s) ==
  phase[s] = "tunnel" /\ (~active[s] \/ \E t \in Threads : at[t] = "clear" /\ ses[t] = s)

GiveBack(t) ==
  /\ Goto(t, "give", "clear")
  /\ Dec(node[ses[t]])
  /\ skewed' = (skewed \/ Returned(ses[t]))
  /\ UNCHANGED <<ses, choice, sessionVars, edits, removed>> /\ SessionKeeps

ClearTunnel(t) ==
  /\ at[t] = "clear"
  /\ Return(t)
  /\ active' = [active EXCEPT ![ses[t]] = FALSE]
  /\ UNCHANGED <<conns, phase, node, ends, history>> /\ SessionKeeps

-----------------------------------------------------------------------------
(* The health checks and the administrator *)

ProberKeeps ==
  UNCHANGED <<pickers, affinity, at, ses, deciding, sessionVars>>

Probes(list) == [k \in DOMAIN list |-> [do |-> "probe", tag |-> list[k]]]

\* Someone connects to node n and has not yet recorded the outcome.
UnderWay(n) == \E p \in Probers : answer[p] # "none" /\ Head(task[p]).tag = n

\* periodic_check, again and again.
StartRound ==
  /\ task[Periodic] = <<>>
  /\ task' = [task EXCEPT ![Periodic] = Probes(nodes)]
  /\ UNCHANGED <<lists, conns, health, answer, up, history>> /\ ProberKeeps

Finish(p) == task' = [task EXCEPT ![p] = Tail(@)]

\* do_probe: a node that is not in the list any more is not probed.
BeginProbe(p) ==
  /\ task[p] # <<>> /\ Head(task[p]).do = "probe" /\ answer[p] = "none"
  /\ \/ /\ Contains(nodes, Head(task[p]).tag)
        /\ answer' = [answer EXCEPT ![p] = "waiting"]
        /\ UNCHANGED task
     \/ /\ ~Contains(nodes, Head(task[p]).tag)
        /\ Finish(p)
        /\ UNCHANGED answer
  /\ UNCHANGED <<lists, conns, health, up, history>> /\ ProberKeeps

\* The connection is made, or refused, or not made in time.
EndProbe(p) ==
  /\ answer[p] = "waiting"
  /\ \/ Head(task[p]).tag \in up /\ answer' = [answer EXCEPT ![p] = "ok"]
     \/ Head(task[p]).tag \notin up /\ answer' = [answer EXCEPT ![p] = "failed"]
  /\ UNCHANGED <<lists, conns, health, task, up, history>> /\ ProberKeeps

\* A node that does not answer is unstable, and unavailable when it failed to
\* answer often enough in a row.
failed_probe(h) ==
  LET failures == IF h.failures < FailureThreshold THEN h.failures + 1 ELSE FailureThreshold
  IN [h EXCEPT !.failures = failures,
               !.status = IF failures >= FailureThreshold THEN "unavailable"
                          ELSE "unstable"]

\* Fault: a success is not the end of a series of failures.
ProbedKeepsCount(h, outcome, ms) ==
  IF outcome = "ok" THEN [h EXCEPT !.status = "available", !.latency = ms]
  ELSE failed_probe(h)

\* Fault: an unavailable node stays so.
ProbedForGood(h, outcome, ms) ==
  IF h.status = "unavailable" THEN h
  ELSE IF outcome = "ok" THEN [status |-> "available", failures |-> 0, latency |-> ms]
  ELSE failed_probe(h)

\* One that does is available.
Probed(h, outcome, ms) ==
  IF outcome = "ok" THEN [status |-> "available", failures |-> 0, latency |-> ms]
  ELSE failed_probe(h)

RecordProbe(p) ==
  /\ answer[p] \in {"ok", "failed"}
  /\ \E ms \in Latencies :
       health' = [health EXCEPT ![Head(task[p]).tag] = Probed(@, answer[p], ms)]
  /\ answer' = [answer EXCEPT ![p] = "none"]
  /\ Finish(p)
  /\ UNCHANGED <<lists, conns, up, history>> /\ ProberKeeps

\* remove_node takes one off the node's count, whoever it is counted for.
LowerRemoved(w) ==
  /\ task[w] # <<>> /\ Head(task[w]).do = "dec"
  /\ Dec(Head(task[w]).tag)
  /\ skewed' = (skewed \/ conns[Head(task[w]).tag] > 0)
  /\ Finish(w)
  /\ UNCHANGED <<lists, health, answer, up, edits, removed>> /\ ProberKeeps

\* Fault: the node keeps the status it has.
marked_as_it_was(h) == h

\* mark_unavailable
marked(h) == [h EXCEPT !.status = "unavailable", !.failures = FailureThreshold]

MarkRemoved(w) ==
  /\ task[w] # <<>> /\ Head(task[w]).do = "mark"
  /\ LET n == Head(task[w]).tag IN
       /\ health' = [health EXCEPT ![n] = marked(@)]
       /\ removed' = IF Contains(nodes, n) \/ UnderWay(n) THEN removed ELSE removed \cup {n}
  /\ Finish(w)
  /\ UNCHANGED <<lists, conns, answer, up, edits, skewed>> /\ ProberKeeps

\* A web handler with nothing else to do takes a request.
Request(w) ==
  /\ task[w] = <<>>
  /\ edits < MaxEdits
  /\ edits' = edits + 1
  /\ UNCHANGED <<conns, health, answer, up, skewed>> /\ ProberKeeps

\* add_node checks the new node at once.
AddNode(w, n) ==
  /\ Request(w)
  /\ ~Contains(nodes, n)
  /\ nodes' = Append(nodes, n)
  /\ task' = [task EXCEPT ![w] = Probes(<<n>>)]
  /\ removed' = removed \ {n}
  /\ UNCHANGED <<weights, strategy, sticky>>

RemoveNode(w, n) ==
  /\ Request(w)
  /\ Len(nodes) > 1
  /\ \E k \in DOMAIN nodes :
       /\ nodes[k] = n
       /\ nodes' = SubSeq(nodes, 1, k - 1) \o SubSeq(nodes, k + 1, Len(nodes))
  /\ task' = [task EXCEPT ![w] = <<[do |-> "dec", tag |-> n], [do |-> "mark", tag |-> n]>>]
  /\ UNCHANGED <<weights, strategy, sticky, removed>>

\* update_node with another tag tells nobody.
RenameNode(w, n, m) ==
  /\ Request(w)
  /\ Contains(nodes, n) /\ ~Contains(nodes, m)
  /\ nodes' = [k \in DOMAIN nodes |-> IF nodes[k] = n THEN m ELSE nodes[k]]
  /\ removed' = removed \ {m}
  /\ UNCHANGED <<weights, strategy, sticky, task>>

CheckNodes(w) ==
  /\ Request(w)
  /\ task' = [task EXCEPT ![w] = Probes(nodes)]
  /\ UNCHANGED <<lists, removed>>

SetWeight(w, n, x) ==
  /\ Request(w)
  /\ weights' = [weights EXCEPT ![n] = x]
  /\ UNCHANGED <<nodes, strategy, sticky, task, removed>>

Reschedule(w) ==
  /\ Request(w)
  /\ \/ strategy' \in Strategies /\ UNCHANGED sticky
     \/ sticky' \in BOOLEAN /\ UNCHANGED strategy
  /\ UNCHANGED <<nodes, weights, task, removed>>

\* A node begins or ceases to accept connections.
Flip(n) ==
  /\ up' = IF n \in up THEN up \ {n} ELSE up \cup {n}
  /\ UNCHANGED <<lists, conns, health, task, answer, history>> /\ ProberKeeps

-----------------------------------------------------------------------------
Route(t) ==
  \/ AffinityStatus(t) \/ AffinityCount(t) \/ AffinityDrop(t)
  \/ ListNodes(t) \/ NodeHealth(t) \/ NodeLoad(t) \/ NoCandidate(t)
  \/ PickRoundRobin(t) \/ PickWeighted(t) \/ PickLeast(t) \/ Record(t) \/ Take(t)

Close(t) == GiveBack(t) \/ ClearTunnel(t)

Check(p) == BeginProbe(p) \/ EndProbe(p) \/ RecordProbe(p)

Administer(w) ==
  \/ LowerRemoved(w) \/ MarkRemoved(w) \/ CheckNodes(w) \/ Reschedule(w)
  \/ \E n \in Tags :
       \/ AddNode(w, n) \/ RemoveNode(w, n)
       \/ \E m \in Tags : RenameNode(w, n, m)
       \/ \E x \in Weights : SetWeight(w, n, x)

Next ==
  \/ \E t \in Threads :
       Route(t) \/ Close(t) \/ \E s \in Sessions : Decide(t, s) \/ CloseSession(t, s)
  \/ \E s \in Sessions : ConnectFails(s) \/ TunnelUp(s)
  \/ Age
  \/ StartRound
  \/ \E p \in Probers : Check(p)
  \/ \E w \in Web : Administer(w)
  \/ \E n \in Tags : Flip(n)

\* Started handlers run to their end, and the periodic check never ends.
Fairness ==
  /\ \A t \in Threads : WF_vars(Route(t) \/ Close(t))
  /\ WF_vars(StartRound)
  /\ \A p \in Probers : WF_vars(Check(p))
  /\ \A w \in Web : WF_vars(LowerRemoved(w) \/ MarkRemoved(w))

Spec == Init /\ [][Next]_vars /\ Fairness

-----------------------------------------------------------------------------
(* Properties *)

Statuses == {"available", "unstable", "unavailable"}

\* Type correctness, with the affinity table a bounded one of one record per
\* client address.
LBTypeOK ==
  /\ nodes \in Seq(Tags)
  /\ conns \in [Tags -> Nat]
  /\ weights \in [Tags -> Nat]
  /\ strategy \in AllStrategies /\ sticky \in BOOLEAN
  /\ Len(affinity) <= MaxRecords
  /\ \A k \in DOMAIN affinity : affinity[k].ip \in IPs /\ affinity[k].tag \in Tags
  /\ \A i \in IPs : Cardinality(Records(i)) <= 1
  /\ \A n \in Tags : health[n].status \in Statuses /\ health[n].latency \in Latencies \cup {0}
  /\ at \in [Threads -> Places]
  /\ phase \in [Sessions -> {"new", "routing", "connecting", "failed", "tunnel"}]
  /\ node \in [Sessions -> Tags \cup {NoTag}]
  /\ active \in [Sessions -> BOOLEAN]

\* A node's capacity is tested in one lock region and its count raised in
\* another, but only by as many decisions as there are io threads: the count
\* never passes the capacity by that many.
OvershootBounded == \A n \in Tags : conns[n] <= Capacity + Cardinality(Threads) - 1

\* Sessions that were counted on node n and have not given it back.  One whose
\* connection failed never does.
Counted(n) == {s \in Sessions : node[s] = n /\ ~Returned(s)}

\* A node is never thought to carry more sessions than were given to it; and
\* its count is theirs exactly until a removal of a node, or the two ends of a
\* tunnel closing it at once, lower a count for no session.
CountsFollowSessions ==
  \A n \in Tags : /\ conns[n] <= Cardinality(Counted(n))
                  /\ ~skewed => conns[n] = Cardinality(Counted(n))

\* Probes, removals and the marks they leave may interleave: a node is
\* unavailable if and only if it failed as often as the threshold says, and
\* available if and only if nothing failed since it last answered.
HealthAgrees ==
  \A n \in Tags :
    /\ health[n].failures \in 0..FailureThreshold
    /\ health[n].status = "unavailable" <=> health[n].failures = FailureThreshold
    /\ health[n].status = "available" <=> health[n].failures = 0

\* remove_node marks the node unavailable so that the affinity table stops
\* sending its clients there: once it is marked nothing makes a removed node
\* available again, unless a probe of it was under way.
RemovedStaysOut == \A n \in removed : health[n].status = "unavailable"

\* A node that stays in the list and answers comes back into service: the
\* outcomes of older probes, of whichever thread, do not keep it out.
Recovers ==
  \A n \in Tags :
    <>[](Contains(nodes, n) /\ n \in up) => <>[](health[n].status = "available")
=============================================================================
