---------------------------- MODULE ProxyServer ----------------------------
(***************************************************************************)
(* proxy_core/session.cpp on its pool of io threads, together with the     *)
(* state its sessions share: the admitter (ConnectionAdmitter), the        *)
(* overload protector's connection count, the connection registry and the  *)
(* timeout scanner.                                                        *)
(*                                                                         *)
(* A session is one chain of asynchronous operations ("up") until its      *)
(* tunnel is established; then it is two, client to remote ("up") and      *)
(* remote to client ("down"), with no strand between them.  A chain waits  *)
(* in a location of ChainLocations for its pending operation; when that    *)
(* completes, one of Threads io threads runs the handler.  A handler that  *)
(* only touches its own session is one action.  close_session is several:  *)
(* what it does to the shared counters interleaves with other handlers.    *)
(*                                                                         *)
(* do_accept re-arms itself only after session::start() has returned, so   *)
(* at most one thread (Acceptor) is ever inside start() and request_admit. *)
(***************************************************************************)
EXTENDS ConnectionAdmitter

CONSTANTS
  Acceptor, \* the accept handler, which runs session::start()
  Threads,  \* proxy_thread_count
  Protocols,   \* what clients speak: a subset of {"socks", "http"}
  MayTimeOut   \* whether connections live long enough for the scanner

VARIABLES
  step,     \* the pending operation of each chain
  closed,   \* sessions whose sockets close_session has closed
  username, \* m_username of each session
  total,    \* overload_protector::m_total_connections
  registry, \* connection_registry: state of each registered session
  due       \* sessions the running scan found timed out and not yet handled

sesVars == <<step, closed, username, total, registry, due>>
vars == <<admVars, sesVars>>

Chains == Sessions \X {"up", "down"}

ASSUME ServerAssumption ==
  /\ Acceptor \notin Chains
  /\ Callers = Chains \cup {Acceptor}
  /\ Requesters = {Acceptor}
  /\ Threads \in Nat \ {0}
  /\ Protocols \subseteq {"socks", "http"}
  /\ MayTimeOut \in BOOLEAN

Up(s)   == <<s, "up">>
Down(s) == <<s, "down">>

\* Before the tunnel: what the client still owes, or what is being sent to it.
PreAuth  == {"greeting", "method_reply", "method_refusal", "auth"}
PostAuth == {"auth_reply", "request", "connect_direct", "connect_proxy"}
Tunnel   == {"tunnel_reply", "read", "write", "aborted"}

\* A last reply is being written; auth_refusal and farewell end in a close.
Refusals == {"auth_refusal", "farewell"}

\* close_session has closed the sockets and is on its way to the registry.
Closing == {"close_release", "close_unregister"}

\* dropped: the last handler returned without close_session and without
\* starting another operation, so the session object is destroyed.
ChainLocations ==
  PreAuth \cup PostAuth \cup Tunnel \cup Refusals \cup Closing \cup
  {"unborn", "starting", "refused", "none", "dropped", "done"}

RegistryStates == {"absent", "authenticating", "handshaking", "active"}

Init ==
  /\ AdmInit
  /\ step = [c \in Chains |-> IF c[2] = "up" THEN "unborn" ELSE "none"]
  /\ closed = {}
  /\ username = [s \in Sessions |-> Anonymous]
  /\ total = 0
  /\ registry = [s \in Sessions |-> "absent"]
  /\ due = {}

\* Handlers in the middle of their work; each occupies an io thread.
Running ==
  {c \in Chains : step[c] \in Closing} \cup {c \in {Acceptor} : at[c] # "idle"}

ThreadFree == Cardinality(Running) < Threads

\* do_accept runs start() to its end before it accepts the next connection.
Accepting == at[Acceptor] = "idle"

\* overload_protector: the connection limit, and the clamped decrement.
AtTotalLimit == total >= MaxConnections

DecTotal == total' = IF total > 0 THEN total - 1 ELSE total

Move(c, from, to) ==
  /\ step[c] = from
  /\ step' = [step EXCEPT ![c] = to]

\* Fault: m_connections[session_id] creates the record it does not find.
UpdateStateCreates(s, state) == registry' = [registry EXCEPT ![s] = state]

\* connection_registry::update_state and mark_active find the record or do nothing.
UpdateState(s, state) ==
  registry' = IF registry[s] = "absent" THEN registry
              ELSE [registry EXCEPT ![s] = state]

Unregister(s) == registry' = [registry EXCEPT ![s] = "absent"]

-----------------------------------------------------------------------------
(* session::start, on the accepting thread *)

\* Overloaded (connections, descriptors or memory) or rate limited: closed
\* before it was counted.
StartRefused(s) ==
  /\ ThreadFree
  /\ Accepting
  /\ Move(Up(s), "unborn", "refused")
  /\ closed' = closed \cup {s}
  /\ UNCHANGED <<admVars, username, total, registry, due>>

\* Only this thread increments the count, so the test and the increment are
\* one step: a decrement in between leaves the test true.
StartCounted(s) ==
  /\ ThreadFree
  /\ ~AtTotalLimit
  /\ Move(Up(s), "unborn", "starting")
  /\ total' = total + 1
  /\ RequestAdmit(Acceptor, s, Anonymous)
  /\ UNCHANGED <<closed, username, registry, due>>

\* request_admit asks the overload protector again, whose count now includes
\* this session.
Admission ==
  /\ \/ GateRejects(Acceptor)
     \/ ~AtTotalLimit /\ GatePasses(Acceptor)
     \/ CheckUserLimit(Acceptor)
     \/ CheckTotalLimit(Acceptor)
     \/ EnqueueConnection(Acceptor)
     \/ CountConnection(Acceptor)
     \/ CountUser(Acceptor)
  /\ UNCHANGED sesVars

\* Fault: the rejected session stays counted.
StartRejectedStillCounted(s) ==
  /\ at[Acceptor] = "rejected"
  /\ Move(Up(s), "starting", "refused")
  /\ closed' = closed \cup {s}
  /\ Return(Acceptor)
  /\ UNCHANGED <<username, total, registry, due>>

StartRejected(s) ==
  /\ at[Acceptor] = "rejected"
  /\ Move(Up(s), "starting", "refused")
  /\ DecTotal
  /\ closed' = closed \cup {s}
  /\ Return(Acceptor)
  /\ UNCHANGED <<username, registry, due>>

\* A queued session is logged as queued and served like an accepted one.
StartServed(s) ==
  /\ at[Acceptor] \in {"accepted", "queued"}
  /\ Move(Up(s), "starting", "greeting")
  /\ registry' = [registry EXCEPT ![s] = "authenticating"]
  /\ Return(Acceptor)
  /\ UNCHANGED <<closed, username, total, due>>

-----------------------------------------------------------------------------
(* The handlers up to the tunnel.  A short read restarts the same read. *)

Handler(s, from, to) ==
  /\ ThreadFree
  /\ Move(Up(s), from, to)
  /\ UNCHANGED <<admVars, closed, total, due>>

\* SOCKS5 greeting: offer username/password, or say no method is acceptable.
SocksGreeting(s) ==
  /\ "socks" \in Protocols
  /\ \E reply \in {"method_reply", "method_refusal"} : Handler(s, "greeting", reply)
  /\ UNCHANGED <<username, registry>>

MethodReplied(s) ==
  /\ Handler(s, "method_reply", "auth")
  /\ UNCHANGED <<username, registry>>

\* The write of a method reply or of an accepting auth reply failed.
Dropped(s) ==
  /\ \E from \in {"method_reply", "method_refusal", "auth_reply"} :
       Handler(s, from, "dropped")
  /\ UNCHANGED <<username, registry>>

SocksAuthenticated(s) ==
  /\ Handler(s, "auth", "auth_reply")
  /\ \E u \in Names : username' = [username EXCEPT ![s] = u]
  /\ UpdateState(s, "handshaking")

SocksAuthFailed(s) ==
  /\ Handler(s, "auth", "auth_refusal")
  /\ UNCHANGED <<username, registry>>

AuthReplied(s) ==
  /\ Handler(s, "auth_reply", "request")
  /\ UNCHANGED <<username, registry>>

\* do_route_decision: direct resolves and connects, proxy goes through v2ray.
Routed == {"connect_direct", "connect_proxy"}

SocksRequest(s) ==
  /\ \E next \in Routed \cup {"farewell"} : Handler(s, "request", next)
  /\ UNCHANGED <<username, registry>>

\* The claimed name is stored before it is checked (session.cpp:272).
HttpConnect(s) ==
  /\ "http" \in Protocols
  /\ \/ /\ Handler(s, "greeting", "farewell")
        /\ UNCHANGED <<username, registry>>
     \/ /\ Handler(s, "greeting", "farewell")
        /\ \E u \in Names : username' = [username EXCEPT ![s] = u]
        /\ UNCHANGED registry
     \/ /\ \E next \in Routed : Handler(s, "greeting", next)
        /\ \E u \in Names : username' = [username EXCEPT ![s] = u]
        /\ UpdateState(s, "handshaking")

ConnectFailed(s) ==
  /\ \E from \in Routed : Handler(s, from, "farewell")
  /\ UNCHANGED <<username, registry>>

\* Fault: the registry is not told that the tunnel is up.
ConnectedUnmarked(s) ==
  /\ \E from \in Routed : Handler(s, from, "tunnel_reply")
  /\ UNCHANGED <<username, registry>>

Connected(s) ==
  /\ \E from \in Routed : Handler(s, from, "tunnel_reply")
  /\ UpdateState(s, "active")
  /\ UNCHANGED username

-----------------------------------------------------------------------------
(* The tunnel *)

\* do_stream starts both directions.
StartStream(s) ==
  /\ ThreadFree
  /\ step[Up(s)] = "tunnel_reply"
  /\ step' = [step EXCEPT ![Up(s)] = "read", ![Down(s)] = "read"]
  /\ UNCHANGED <<admVars, closed, username, total, registry, due>>

\* An operation started on a closed socket can only fail.
Begin(c, op) == step' = [step EXCEPT ![c] = IF c[1] \in closed THEN "aborted" ELSE op]

ReadDone(c) ==
  /\ ThreadFree
  /\ step[c] = "read"
  /\ UpdateState(c[1], "active")
  /\ Begin(c, "write")
  /\ UNCHANGED <<admVars, closed, username, total, due>>

WriteDone(c) ==
  /\ ThreadFree
  /\ step[c] = "write"
  /\ Begin(c, "read")
  /\ UNCHANGED <<admVars, closed, username, total, registry, due>>

-----------------------------------------------------------------------------
(* close_session *)

\* Fault: a failed write does not close the session.
ClosingFromReads ==
  {"greeting", "method_refusal", "auth", "request", "connect_proxy",
   "tunnel_reply", "read", "aborted"} \cup Refusals

\* The handlers that call close_session when their operation fails, or that
\* end their session whatever its outcome.
ClosingFrom ==
  {"greeting", "method_refusal", "auth", "request", "connect_proxy"}
    \cup Refusals \cup Tunnel

\* Fault: fetch_sub without the test for zero.
CloseSessionUnclamped(c) ==
  /\ ThreadFree
  /\ step[c] \in ClosingFrom
  /\ step' = [step EXCEPT ![c] = "close_release"]
  /\ closed' = closed \cup {c[1]}
  /\ total' = total - 1
  /\ UNCHANGED <<admVars, username, registry, due>>

CloseSession(c) ==
  /\ ThreadFree
  /\ step[c] \in ClosingFrom
  /\ step' = [step EXCEPT ![c] = "close_release"]
  /\ closed' = closed \cup {c[1]}
  /\ DecTotal
  /\ UNCHANGED <<admVars, username, registry, due>>

CloseRelease(c) ==
  /\ Move(c, "close_release", "close_unregister")
  /\ ReleaseConnection(c, c[1], username[c[1]])
  /\ UNCHANGED <<closed, username, total, registry, due>>

Releasing(c) ==
  /\ c \in Chains
  /\ ReleaseStep(c)
  /\ UNCHANGED sesVars

CloseUnregister(c) ==
  /\ at[c] = "released"
  /\ Move(c, "close_unregister", "done")
  /\ Unregister(c[1])
  /\ Return(c)
  /\ UNCHANGED <<closed, username, total, due>>

-----------------------------------------------------------------------------
(* timeout_scanner::scan_loop and the callback main.cpp gives it *)

\* Whatever its state, a record is a candidate once it is old enough.
TimeoutCandidates == {s \in Sessions : registry[s] # "absent"}

\* The scan works on a copy of the records and calls back for those too old.
ScanRegistry ==
  /\ MayTimeOut
  /\ due = {}
  /\ due' \in SUBSET TimeoutCandidates
  /\ UNCHANGED <<admVars, step, closed, username, total, registry>>

TimeoutCallback(s) ==
  /\ s \in due
  /\ due' = due \ {s}
  /\ Unregister(s)
  /\ UNCHANGED <<admVars, step, closed, username, total>>

-----------------------------------------------------------------------------
SessionNext(s) ==
  \/ StartRefused(s)
  \/ StartCounted(s)
  \/ StartRejected(s)
  \/ StartServed(s)
  \/ SocksGreeting(s)
  \/ MethodReplied(s)
  \/ Dropped(s)
  \/ SocksAuthenticated(s)
  \/ SocksAuthFailed(s)
  \/ AuthReplied(s)
  \/ SocksRequest(s)
  \/ HttpConnect(s)
  \/ ConnectFailed(s)
  \/ Connected(s)
  \/ StartStream(s)
  \/ TimeoutCallback(s)

ChainNext(c) ==
  \/ ReadDone(c)
  \/ WriteDone(c)
  \/ CloseSession(c)
  \/ CloseRelease(c)
  \/ Releasing(c)
  \/ CloseUnregister(c)

Next ==
  \/ Admission
  \/ \E s \in Sessions : SessionNext(s)
  \/ \E c \in Chains : ChainNext(c)
  \/ ScanRegistry

Spec == Init /\ [][Next]_vars

\* The io threads run a handler they have begun, and run it to its end; an
\* operation on a closed socket completes (operation_aborted).  Nothing
\* obliges a client or a remote to send, or to hang up.
Fairness ==
  /\ WF_vars(Admission)
  /\ \A s \in Sessions : WF_vars(StartRejected(s) \/ StartServed(s))
  /\ \A c \in Chains :
       /\ WF_vars(CloseRelease(c) \/ Releasing(c) \/ CloseUnregister(c))
       /\ WF_vars(c[1] \in closed /\ CloseSession(c))

FairSpec == Spec /\ Fairness

-----------------------------------------------------------------------------
ServerTypeOK ==
  /\ AdmTypeOK
  /\ step \in [Chains -> ChainLocations]
  /\ closed \in SUBSET Sessions
  /\ username \in [Sessions -> Users]
  /\ total \in Nat
  /\ registry \in [Sessions -> RegistryStates]
  /\ due \in SUBSET Sessions

\* Sessions that inc_total_connections counted and no dec_total_connections
\* has uncounted yet.
Counted == {s \in Sessions : step[Up(s)] \notin {"unborn", "refused"} /\ s \notin closed}

\* The overload count is incremented once per session and decremented on
\* three paths, on one of them twice.  Whatever the order, it never stays
\* above the sessions it still stands for: closing sessions frees capacity.
TotalNeverOvercounts == total <= Cardinality(Counted)

\* Where the up chain of a session registered in each state may be: the
\* scanner picks its timeout by that state (auth 30 s, handshake 15 s,
\* lifetime 8 h).
LocationsOf ==
  [authenticating |-> PreAuth \cup Refusals \cup Closing \cup {"dropped"},
   handshaking    |-> PostAuth \cup Closing \cup {"farewell", "dropped"},
   active         |-> Tunnel \cup Closing]

\* The registry never disagrees with the session, and a session that has
\* unregistered once, on whichever chain, stays unregistered although the
\* other chain may still be marking it active.
RegistryAgrees ==
  \A s \in Sessions :
    registry[s] # "absent" =>
      /\ step[Up(s)] \in LocationsOf[registry[s]]
      /\ step[Down(s)] # "done"

\* Once unregistered, by its own close or by the scanner, a session's record
\* is not brought back by a late update_state or mark_active.
NoResurrection ==
  [][\A s \in Sessions :
       registry[s] = "absent" /\ registry'[s] # "absent" => step[Up(s)] = "starting"]_vars

\* A chain that has begun close_session finishes it: m_queue_mutex is always
\* given back, and the release of a slot cannot wait for another release.
ClosesFinish == \A c \in Chains : step[c] \in Closing ~> step[c] = "done"

\* When one direction of a tunnel closes, the other one ends too: no session
\* stays half open.
TunnelsTearDown ==
  \A s \in Sessions :
    step[Down(s)] # "none" /\ s \in closed ~> \A side \in {"up", "down"} : step[<<s, side>>] = "done"
=============================================================================
