------------------------- MODULE ProxyServerProofs -------------------------
(***************************************************************************)
(* Proofs about ProxyServer, for every number of sessions, threads and     *)
(* protocols: what is proved of the admitter holds of the server's; the    *)
(* registry follows the sessions; and the connection count never runs      *)
(* ahead of them.                                                          *)
(***************************************************************************)
EXTENDS ProxyServer, ConnectionAdmitterProofs

(* Types *)

SesTypeOK ==
  /\ step \in [Chains -> ChainLocations]
  /\ closed \in SUBSET Sessions
  /\ username \in [Sessions -> Users]
  /\ total \in Nat
  /\ registry \in [Sessions -> RegistryStates]
  /\ due \in SUBSET Sessions

\* Each session has its two chains, each chain its session, and the admitter
\* is called by chains and by the accepting thread.
LEMMA ChainFacts ==
  /\ \A s \in Sessions : Up(s) \in Chains /\ Down(s) \in Chains /\ Up(s) # Down(s)
  /\ \A s \in Sessions : Up(s)[1] = s /\ Down(s)[1] = s
  /\ \A s, r \in Sessions : (Up(s) = Up(r) => s = r) /\ Up(s) # Down(r)
  /\ \A c \in Chains : c[1] \in Sessions /\ (c = Up(c[1]) \/ c = Down(c[1])) /\ c \in Callers
  /\ Acceptor \in Requesters /\ Acceptor \in Callers /\ Acceptor \notin Chains
BY ServerAssumption DEF Chains, Up, Down

\* Every location a handler moves to is one of ChainLocations.
LEMMA LocationFacts ==
  /\ PreAuth \cup PostAuth \cup Tunnel \cup Refusals \cup Closing \cup Routed
       \cup {"unborn", "starting", "refused", "none", "dropped", "done"} \subseteq ChainLocations
  /\ ClosingFrom \subseteq ChainLocations
BY DEF ChainLocations, PreAuth, PostAuth, Tunnel, Refusals, Closing, Routed, ClosingFrom

\* update_state keeps the registry a registry.
LEMMA UpdateStateType ==
  ASSUME SesTypeOK, NEW s \in Sessions, NEW st \in RegistryStates, UpdateState(s, st)
  PROVE  registry' \in [Sessions -> RegistryStates]
BY DEF UpdateState, SesTypeOK

\* A handler of the chain before the tunnel.
LEMMA HandlerType ==
  ASSUME SesTypeOK, NEW s \in Sessions, NEW from, NEW to \in ChainLocations, Handler(s, from, to)
  PROVE  step' \in [Chains -> ChainLocations] /\ UNCHANGED <<closed, total, due>>
BY DEF Handler, Move, SesTypeOK

\* No session is born, counted or registered at the start.
LEMMA SesInitType == Init => SesTypeOK
BY EntryType DEF Init, SesTypeOK, Chains, ChainLocations, RegistryStates

\* A handler keeps the types of what it touches; DecTotal in particular keeps
\* the count a natural number however often a session is closed.
LEMMA SessionStepType ==
  ASSUME SesTypeOK, NEW s \in Sessions, SessionNext(s)
  PROVE  SesTypeOK'
<1>. USE DEF SesTypeOK, Move
<1>1. CASE StartRefused(s)
  BY <1>1, ChainFacts, LocationFacts DEF StartRefused
<1>2. CASE StartCounted(s)
  BY <1>2, ChainFacts, LocationFacts DEF StartCounted
<1>3. CASE StartRejected(s)
  BY <1>3, ChainFacts, LocationFacts DEF StartRejected, DecTotal
<1>4. CASE StartServed(s)
  <2>1. "greeting" \in ChainLocations /\ "authenticating" \in RegistryStates
    BY DEF ChainLocations, PreAuth, RegistryStates
  <2>. QED BY <1>4, <2>1, ChainFacts DEF StartServed
<1>5. CASE SocksGreeting(s)
  BY <1>5, HandlerType DEF SocksGreeting, ChainLocations, PreAuth
<1>6. CASE MethodReplied(s)
  BY <1>6, HandlerType DEF MethodReplied, ChainLocations, PreAuth
<1>7. CASE Dropped(s)
  BY <1>7, HandlerType DEF Dropped, ChainLocations
<1>8. CASE SocksAuthenticated(s)
  <2>1. "auth_reply" \in ChainLocations /\ "handshaking" \in RegistryStates
    BY DEF ChainLocations, PostAuth, RegistryStates
  <2>2. username' \in [Sessions -> Users]
    BY <1>8 DEF SocksAuthenticated, Users
  <2>. QED BY <1>8, <2>1, <2>2, HandlerType, UpdateStateType DEF SocksAuthenticated
<1>9. CASE SocksAuthFailed(s)
  BY <1>9, HandlerType DEF SocksAuthFailed, ChainLocations, Refusals
<1>10. CASE AuthReplied(s)
  BY <1>10, HandlerType DEF AuthReplied, ChainLocations, PostAuth
<1>11. CASE SocksRequest(s)
  BY <1>11, HandlerType DEF SocksRequest, Routed, ChainLocations, PostAuth, Refusals
<1>12. CASE HttpConnect(s)
  <2>1. Routed \cup {"farewell"} \subseteq ChainLocations /\ "handshaking" \in RegistryStates
    BY DEF Routed, ChainLocations, PostAuth, Refusals, RegistryStates
  <2>2. username' \in [Sessions -> Users]
    BY <1>12 DEF HttpConnect, Users
  <2>. QED BY <1>12, <2>1, <2>2, HandlerType, UpdateStateType DEF HttpConnect
<1>13. CASE ConnectFailed(s)
  BY <1>13, HandlerType DEF ConnectFailed, ChainLocations, Refusals
<1>14. CASE Connected(s)
  <2>1. "tunnel_reply" \in ChainLocations /\ "active" \in RegistryStates
    BY DEF ChainLocations, Tunnel, RegistryStates
  <2>. QED BY <1>14, <2>1, HandlerType, UpdateStateType DEF Connected
<1>15. CASE StartStream(s)
  BY <1>15 DEF StartStream, ChainLocations, Tunnel
<1>16. CASE TimeoutCallback(s)
  BY <1>16 DEF TimeoutCallback, Unregister, RegistryStates
<1>. QED BY <1>1, <1>2, <1>3, <1>4, <1>5, <1>6, <1>7, <1>8, <1>9, <1>10, <1>11, <1>12,
            <1>13, <1>14, <1>15, <1>16 DEF SessionNext

\* The handlers of a tunnel and of close_session keep the types.
LEMMA ChainStepType ==
  ASSUME SesTypeOK, NEW c \in Chains, ChainNext(c)
  PROVE  SesTypeOK'
<1>. USE DEF SesTypeOK, Move
<1>1. c[1] \in Sessions
  BY ChainFacts
<1>2. CASE ReadDone(c)
  <2>1. {"write", "aborted"} \subseteq ChainLocations /\ "active" \in RegistryStates
    BY DEF ChainLocations, Tunnel, RegistryStates
  <2>. QED BY <1>1, <1>2, <2>1, UpdateStateType DEF ReadDone, Begin
<1>3. CASE WriteDone(c)
  BY <1>3 DEF WriteDone, Begin, ChainLocations, Tunnel
<1>4. CASE CloseSession(c)
  BY <1>1, <1>4 DEF CloseSession, DecTotal, ChainLocations, Closing
<1>5. CASE CloseRelease(c)
  BY <1>5 DEF CloseRelease, ChainLocations, Closing
<1>6. CASE Releasing(c)
  BY <1>6 DEF Releasing, sesVars
<1>7. CASE CloseUnregister(c)
  BY <1>7 DEF CloseUnregister, Unregister, RegistryStates, ChainLocations
<1>. QED BY <1>2, <1>3, <1>4, <1>5, <1>6, <1>7 DEF ChainNext

\* The sessions' own state keeps its types in every execution.
LEMMA SessionTypes == Spec => []SesTypeOK
<1>1. SesTypeOK /\ UNCHANGED vars => SesTypeOK'
  BY DEF SesTypeOK, vars, sesVars
<1>2. SesTypeOK /\ Next => SesTypeOK'
  <2>1. SesTypeOK /\ Admission => SesTypeOK'
    BY DEF SesTypeOK, Admission, sesVars
  <2>2. SesTypeOK /\ ScanRegistry => SesTypeOK'
    BY DEF SesTypeOK, ScanRegistry, TimeoutCandidates
  <2>. QED BY <2>1, <2>2, SessionStepType, ChainStepType DEF Next
<1>. QED BY <1>1, <1>2, SesInitType, PTL DEF Spec

-----------------------------------------------------------------------------
(* The server drives the admitter as the admitter assumes *)

\* A chain that closes releases under the name its session has by then.
LEMMA CloseReleases ==
  ASSUME SesTypeOK, NEW c \in Chains, CloseRelease(c)
  PROVE  AdmNext
<1>1. c \in Callers /\ c[1] \in Sessions
  BY ChainFacts
<1>2. username[c[1]] \in Users
  BY <1>1 DEF SesTypeOK
<1>3. ReleaseConnection(c, c[1], username[c[1]])
  BY DEF CloseRelease
<1>. QED BY <1>1, <1>2, <1>3 DEF AdmNext

\* A step of a session is a request or a return of the accepting thread, or
\* leaves the admitter alone.
LEMMA SessionAdmits ==
  ASSUME NEW s \in Sessions, SessionNext(s)
  PROVE  AdmNext \/ UNCHANGED admVars
<1>1. CASE StartCounted(s)
  BY <1>1, ChainFacts DEF StartCounted, AdmNext
<1>2. CASE StartRejected(s) \/ StartServed(s)
  BY <1>2, ChainFacts DEF StartRejected, StartServed, AdmNext
<1>3. CASE StartRefused(s) \/ StartStream(s) \/ TimeoutCallback(s)
  BY <1>3 DEF StartRefused, StartStream, TimeoutCallback
<1>4. CASE \E from, to : Handler(s, from, to)
  BY <1>4 DEF Handler
<1>5. ASSUME \/ SocksGreeting(s) \/ MethodReplied(s) \/ Dropped(s) \/ SocksAuthenticated(s)
             \/ SocksAuthFailed(s) \/ AuthReplied(s) \/ SocksRequest(s) \/ HttpConnect(s)
             \/ ConnectFailed(s) \/ Connected(s)
      PROVE  \E from, to : Handler(s, from, to)
  BY <1>5 DEF SocksGreeting, MethodReplied, Dropped, SocksAuthenticated, SocksAuthFailed,
              AuthReplied, SocksRequest, HttpConnect, ConnectFailed, Connected
<1>. QED BY <1>1, <1>2, <1>3, <1>4, <1>5 DEF SessionNext

\* Every step of the server is a step of the admitter or leaves it alone.
LEMMA ServerStepAdmits ==
  ASSUME SesTypeOK, Next
  PROVE  AdmNext \/ UNCHANGED admVars
<1>1. CASE Admission
  <2>1. RequestStep(Acceptor)
    BY <1>1 DEF Admission, RequestStep
  <2>. QED BY <2>1, ChainFacts DEF AdmNext
<1>2. CASE \E s \in Sessions : SessionNext(s)
  BY <1>2, SessionAdmits
<1>3. ASSUME NEW c \in Chains, ChainNext(c)
      PROVE  AdmNext \/ UNCHANGED admVars
  <2>1. CASE CloseRelease(c)
    BY <2>1, CloseReleases
  <2>2. CASE Releasing(c)
    BY <2>2, ChainFacts DEF Releasing, AdmNext
  <2>3. CASE CloseUnregister(c)
    BY <2>3, ChainFacts DEF CloseUnregister, AdmNext
  <2>4. CASE ReadDone(c) \/ WriteDone(c) \/ CloseSession(c)
    BY <2>4 DEF ReadDone, WriteDone, CloseSession
  <2>. QED BY <1>3, <2>1, <2>2, <2>3, <2>4 DEF ChainNext
<1>4. CASE ScanRegistry
  BY <1>4 DEF ScanRegistry
<1>. QED BY <1>1, <1>2, <1>3, <1>4 DEF Next

\* However the sessions' handlers interleave, what they do to the admitter is
\* what ConnectionAdmitter allows: requests by the accepting thread alone, and
\* every call run to its end before the same caller makes another.
LEMMA ServerUsesAdmitter == Spec => AdmSpec
<1>1. Init => AdmInit
  BY DEF Init
<1>2. SesTypeOK /\ [Next]_vars => [AdmNext]_admVars
  <2>1. UNCHANGED vars => UNCHANGED admVars
    BY DEF vars
  <2>. QED BY <2>1, ServerStepAdmits
<1>. QED BY <1>1, <1>2, SessionTypes, PTL DEF Spec, AdmSpec

\* The types of the server's whole state, shared counters included: closing a
\* session once per tunnel direction takes no counter below zero.
THEOREM ServerTypes == Spec => []ServerTypeOK
<1>1. AdmTypeOK /\ SesTypeOK => ServerTypeOK
  BY DEF ServerTypeOK, SesTypeOK
<1>. QED BY <1>1, ServerUsesAdmitter, AdmitterTypes, SessionTypes, PTL

\* One accepting thread: the server's admitted connections pass the configured
\* limit by at most one, its queue never, and it is a first-come limiter.
THEOREM ServerLimits ==
  Spec => /\ [](active <= MaxConnections + 1)
          /\ []QueueBounded
          /\ ImplementsLimiter
<1>1. Cardinality(Requesters) = 1
  BY ServerAssumption, FS_Singleton
<1>2. ActiveBounded => active <= MaxConnections + 1
  BY <1>1 DEF ActiveBounded
<1>. QED BY <1>2, ServerUsesAdmitter, ActiveOvershoot, QueueFits, AdmitterIsLimiter, PTL

-----------------------------------------------------------------------------
(* The registry *)

\* update_state and mark_active change their own session's record, and never
\* create one.
LEMMA UpdateStateKeeps ==
  ASSUME SesTypeOK, NEW s \in Sessions, NEW st, UpdateState(s, st)
  PROVE  \A r \in Sessions :
           /\ registry[r] = "absent" => registry'[r] = "absent"
           /\ r # s => registry'[r] = registry[r]
           /\ r = s /\ registry[r] # "absent" => registry'[r] = st
BY DEF UpdateState, SesTypeOK

\* unregister_connection erases its own record and no other.
LEMMA UnregisterKeeps ==
  ASSUME SesTypeOK, NEW s \in Sessions, Unregister(s)
  PROVE  \A r \in Sessions :
           registry'[r] = IF r = s THEN "absent" ELSE registry[r]
BY DEF Unregister, SesTypeOK

\* No step but start()'s registration brings a record into being.
LEMMA RecordsCreated ==
  ASSUME SesTypeOK, Next, NEW r \in Sessions,
         registry[r] = "absent", registry'[r] # "absent"
  PROVE  step[Up(r)] = "starting"
<1>. DEFINE Kept == registry'[r] = "absent"
<1>1. ASSUME UNCHANGED registry PROVE Kept
  BY <1>1
<1>2. ASSUME NEW s \in Sessions, SessionNext(s)
      PROVE  Kept \/ step[Up(r)] = "starting"
  <2>1. CASE StartServed(s)
    BY <2>1 DEF StartServed, Move, SesTypeOK
  <2>2. CASE \E st : UpdateState(s, st)
    BY <2>2, UpdateStateKeeps
  <2>3. CASE Unregister(s)
    BY <2>3, UnregisterKeeps
  <2>4. StartServed(s) \/ (\E st : UpdateState(s, st)) \/ Unregister(s) \/ UNCHANGED registry
    BY <1>2 DEF SessionNext, StartRefused, StartCounted, StartRejected, SocksGreeting,
                MethodReplied, Dropped, SocksAuthenticated, SocksAuthFailed, AuthReplied,
                SocksRequest, HttpConnect, ConnectFailed, Connected, StartStream,
                TimeoutCallback
  <2>. QED BY <1>1, <2>1, <2>2, <2>3, <2>4
<1>3. ASSUME NEW c \in Chains, ChainNext(c)
      PROVE  Kept
  <2>1. c[1] \in Sessions
    BY ChainFacts
  <2>2. CASE ReadDone(c)
    BY <2>1, <2>2, UpdateStateKeeps DEF ReadDone
  <2>3. CASE CloseUnregister(c)
    BY <2>1, <2>3, UnregisterKeeps DEF CloseUnregister
  <2>4. CASE WriteDone(c) \/ CloseSession(c) \/ CloseRelease(c) \/ Releasing(c)
    BY <1>1, <2>4 DEF WriteDone, CloseSession, CloseRelease, Releasing, sesVars
  <2>. QED BY <1>3, <2>2, <2>3, <2>4 DEF ChainNext
<1>4. CASE Admission \/ ScanRegistry
  BY <1>1, <1>4 DEF Admission, ScanRegistry, sesVars
<1>. QED BY <1>2, <1>3, <1>4 DEF Next

\* A record removed by the close of one direction or by the scanner is not
\* brought back by the other direction's late mark_active.
THEOREM RecordsStayGone == Spec => NoResurrection
<1>1. SesTypeOK /\ [Next]_vars => [\A s \in Sessions :
         registry[s] = "absent" /\ registry'[s] # "absent" => step[Up(s)] = "starting"]_vars
  BY RecordsCreated
<1>. QED BY <1>1, SessionTypes, PTL DEF Spec, NoResurrection

\* Where the chains of a session with an established tunnel may be.
StreamLocations == {"read", "write", "aborted", "done"} \cup Closing

\* A session has a second chain only once its first has reached the stream.
DownFollows ==
  \A s \in Sessions :
    step[Down(s)] # "none" => step[Down(s)] \in StreamLocations /\ step[Up(s)] \in StreamLocations

\* A session's step moves its up chain from before the stream, or starts the
\* stream, or moves nothing.
LEMMA SessionMoves ==
  ASSUME NEW s \in Sessions, SessionNext(s)
  PROVE  \/ UNCHANGED step
         \/ /\ step[Up(s)] \notin StreamLocations
            /\ \E to : step' = [step EXCEPT ![Up(s)] = to]
         \/ StartStream(s)
<1>. USE DEF Move, StreamLocations, Closing
<1>1. CASE StartRefused(s) \/ StartCounted(s) \/ StartRejected(s) \/ StartServed(s)
  BY <1>1 DEF StartRefused, StartCounted, StartRejected, StartServed
<1>2. CASE SocksGreeting(s) \/ MethodReplied(s) \/ Dropped(s) \/ SocksAuthenticated(s)
            \/ SocksAuthFailed(s) \/ AuthReplied(s) \/ SocksRequest(s) \/ HttpConnect(s)
            \/ ConnectFailed(s) \/ Connected(s)
  <2>1. \E from \in {"greeting", "method_reply", "method_refusal", "auth", "auth_reply",
                     "request"} \cup Routed : \E to : Handler(s, from, to)
    BY <1>2 DEF SocksGreeting, MethodReplied, Dropped, SocksAuthenticated, SocksAuthFailed,
                AuthReplied, SocksRequest, HttpConnect, ConnectFailed, Connected
  <2>. QED BY <2>1 DEF Handler, Routed
<1>3. CASE TimeoutCallback(s)
  BY <1>3 DEF TimeoutCallback
<1>. QED BY <1>1, <1>2, <1>3 DEF SessionNext

\* A chain's own step takes it into the stream or on within it.
LEMMA ChainMoves ==
  ASSUME NEW c \in Chains, ChainNext(c)
  PROVE  \/ UNCHANGED step
         \/ /\ step[c] # "none"
            /\ \E to \in StreamLocations : step' = [step EXCEPT ![c] = to]
<1>. USE DEF Move, StreamLocations, Closing, Begin
<1>1. CASE ReadDone(c) \/ WriteDone(c)
  BY <1>1 DEF ReadDone, WriteDone
<1>2. CASE CloseSession(c)
  BY <1>2 DEF CloseSession, ClosingFrom, Refusals, Tunnel
<1>3. CASE CloseRelease(c) \/ CloseUnregister(c)
  BY <1>3 DEF CloseRelease, CloseUnregister
<1>4. CASE Releasing(c)
  BY <1>4 DEF Releasing, sesVars
<1>. QED BY <1>1, <1>2, <1>3, <1>4 DEF ChainNext

\* The two directions of a tunnel start together: a session with a down chain
\* has its up chain in the tunnel or on its way out of it.
LEMMA DownFollowsUp == Spec => []DownFollows
<1>1. Init => DownFollows
  BY ChainFacts DEF Init, DownFollows, Down
<1>2. DownFollows /\ UNCHANGED vars => DownFollows'
  BY DEF DownFollows, vars, sesVars
<1>3. ASSUME SesTypeOK, DownFollows, Next
      PROVE  DownFollows'
  <2>. USE <1>3 DEF DownFollows, SesTypeOK
  <2>1. ASSUME NEW s \in Sessions, SessionNext(s)
        PROVE  DownFollows'
    <3>1. CASE StartStream(s)
      BY <3>1, ChainFacts DEF StartStream, StreamLocations
    <3>2. CASE UNCHANGED step
      BY <3>2
    <3>3. CASE step[Up(s)] \notin StreamLocations
                 /\ \E to : step' = [step EXCEPT ![Up(s)] = to]
      BY <3>3, ChainFacts
    <3>. QED BY <2>1, <3>1, <3>2, <3>3, SessionMoves
  <2>2. ASSUME NEW c \in Chains, ChainNext(c)
        PROVE  DownFollows'
    BY <2>2, ChainMoves, ChainFacts
  <2>3. CASE Admission \/ ScanRegistry
    BY <2>3 DEF Admission, ScanRegistry, sesVars
  <2>. QED BY <1>3, <2>1, <2>2, <2>3 DEF Next
<1>. QED BY <1>1, <1>2, <1>3, SessionTypes, PTL DEF Spec

Registered == {"authenticating", "handshaking", "active"}

\* A move of the up chain that keeps it among the places of its state.
Carries(from, to) == \A st \in Registered : from \in LocationsOf[st] => to \in LocationsOf[st]

\* The places of each registry state, spelled out.
LEMMA LocationsAre ==
  /\ LocationsOf["authenticating"] = PreAuth \cup Refusals \cup Closing \cup {"dropped"}
  /\ LocationsOf["handshaking"] = PostAuth \cup Closing \cup {"farewell", "dropped"}
  /\ LocationsOf["active"] = Tunnel \cup Closing
  /\ RegistryStates = Registered \cup {"absent"}
  /\ "absent" \notin Registered
BY DEF LocationsOf, RegistryStates, Registered

\* Moves of the up chain that leave the record alone, or that set it to a
\* state of the place they go to, keep the registry in agreement.
LEMMA UpMoveAgrees ==
  ASSUME SesTypeOK, RegistryAgrees, NEW s \in Sessions, NEW from, NEW to, Move(Up(s), from, to),
         \/ UNCHANGED registry /\ Carries(from, to)
         \/ \E st \in Registered : UpdateState(s, st) /\ to \in LocationsOf[st]
  PROVE  RegistryAgrees'
<1>1. SUFFICES ASSUME NEW r \in Sessions, registry'[r] # "absent"
               PROVE  step'[Up(r)] \in LocationsOf[registry'[r]] /\ step'[Down(r)] # "done"
  BY DEF RegistryAgrees
<1>2. registry[r] # "absent"
  BY <1>1, UpdateStateKeeps
<1>3. /\ registry[r] \in Registered
      /\ step[Up(r)] \in LocationsOf[registry[r]]
      /\ step[Down(r)] # "done"
  BY <1>2, LocationsAre DEF RegistryAgrees, SesTypeOK
<1>4. step'[Down(r)] # "done"
  BY <1>3, ChainFacts DEF Move, SesTypeOK
<1>5. CASE r # s
  <2>1. registry'[r] = registry[r]
    BY <1>5, UpdateStateKeeps
  <2>2. step'[Up(r)] = step[Up(r)]
    BY <1>5, ChainFacts DEF Move, SesTypeOK
  <2>. QED BY <1>3, <1>4, <2>1, <2>2
<1>6. CASE r = s
  <2>1. step[Up(s)] = from /\ step'[Up(s)] = to
    BY ChainFacts DEF Move, SesTypeOK
  <2>2. CASE UNCHANGED registry /\ Carries(from, to)
    BY <1>3, <1>4, <1>6, <2>1, <2>2 DEF Carries
  <2>3. CASE \E st \in Registered : UpdateState(s, st) /\ to \in LocationsOf[st]
    BY <1>2, <1>4, <1>6, <2>1, <2>3, UpdateStateKeeps
  <2>. QED BY <2>2, <2>3
<1>. QED BY <1>5, <1>6

\* A handler before the tunnel keeps the registry in agreement.
LEMMA HandlersAgree ==
  ASSUME SesTypeOK, RegistryAgrees, NEW s \in Sessions,
         \/ SocksGreeting(s) \/ MethodReplied(s) \/ Dropped(s) \/ SocksAuthenticated(s)
         \/ SocksAuthFailed(s) \/ AuthReplied(s) \/ SocksRequest(s) \/ HttpConnect(s)
         \/ ConnectFailed(s) \/ Connected(s)
  PROVE  RegistryAgrees'
<1>. USE LocationsAre DEF Carries, Registered, PreAuth, PostAuth, Tunnel, Refusals, Closing
<1>1. ASSUME NEW from, NEW to, Handler(s, from, to), UNCHANGED registry, Carries(from, to)
      PROVE  RegistryAgrees'
  BY <1>1, UpMoveAgrees DEF Handler
<1>2. ASSUME NEW from, NEW to, NEW st \in Registered,
             Handler(s, from, to), UpdateState(s, st), to \in LocationsOf[st]
      PROVE  RegistryAgrees'
  BY <1>2, UpMoveAgrees DEF Handler
<1>3. CASE SocksGreeting(s)
  BY <1>1, <1>3 DEF SocksGreeting
<1>4. CASE MethodReplied(s)
  BY <1>1, <1>4 DEF MethodReplied
<1>5. CASE Dropped(s)
  BY <1>1, <1>5 DEF Dropped
<1>6. CASE SocksAuthenticated(s)
  BY <1>2, <1>6 DEF SocksAuthenticated
<1>7. CASE SocksAuthFailed(s)
  BY <1>1, <1>7 DEF SocksAuthFailed
<1>8. CASE AuthReplied(s)
  BY <1>1, <1>8 DEF AuthReplied
<1>9. CASE SocksRequest(s)
  BY <1>1, <1>9 DEF SocksRequest, Routed
<1>10. CASE HttpConnect(s)
  <2>1. CASE Handler(s, "greeting", "farewell") /\ UNCHANGED registry
    BY <1>1, <2>1
  <2>2. CASE (\E next \in Routed : Handler(s, "greeting", next)) /\ UpdateState(s, "handshaking")
    BY <1>2, <2>2 DEF Routed
  <2>. QED BY <1>10, <2>1, <2>2 DEF HttpConnect
<1>11. CASE ConnectFailed(s)
  BY <1>1, <1>11 DEF ConnectFailed, Routed
<1>12. CASE Connected(s)
  BY <1>2, <1>12 DEF Connected
<1>. QED BY <1>3, <1>4, <1>5, <1>6, <1>7, <1>8, <1>9, <1>10, <1>11, <1>12

\* Moves of the down chain that leave the record alone and do not end.
LEMMA DownMoveAgrees ==
  ASSUME SesTypeOK, RegistryAgrees, NEW s \in Sessions, NEW to, to # "done",
         step' = [step EXCEPT ![Down(s)] = to], UNCHANGED registry
  PROVE  RegistryAgrees'
<1>1. \A r \in Sessions : /\ step'[Up(r)] = step[Up(r)]
                          /\ step'[Down(r)] = step[Down(r)] \/ step'[Down(r)] = to
  BY ChainFacts DEF SesTypeOK
<1>. QED BY <1>1 DEF RegistryAgrees

\* Unregistering a session frees its chains to be anywhere.
LEMMA UnregisterAgrees ==
  ASSUME SesTypeOK, RegistryAgrees, NEW s \in Sessions, Unregister(s),
         \A r \in Sessions \ {s} : step'[Up(r)] = step[Up(r)] /\ step'[Down(r)] = step[Down(r)]
  PROVE  RegistryAgrees'
BY UnregisterKeeps DEF RegistryAgrees

\* The second chain's mark_active finds no record, or one whose session is
\* still in its tunnel.
LEMMA DownReadAgrees ==
  ASSUME SesTypeOK, RegistryAgrees, DownFollows, NEW s \in Sessions, ReadDone(Down(s))
  PROVE  RegistryAgrees'
<1>1. PICK to \in {"write", "aborted"} : step' = [step EXCEPT ![Down(s)] = to]
  BY DEF ReadDone, Begin
<1>2. UpdateState(s, "active") /\ step[Down(s)] = "read"
  BY ChainFacts DEF ReadDone
<1>3. SUFFICES ASSUME NEW r \in Sessions, registry'[r] # "absent"
               PROVE  step'[Up(r)] \in LocationsOf[registry'[r]] /\ step'[Down(r)] # "done"
  BY DEF RegistryAgrees
<1>4. /\ step'[Up(r)] = step[Up(r)]
      /\ step'[Down(r)] = step[Down(r)] \/ step'[Down(r)] = to
  BY <1>1, ChainFacts DEF SesTypeOK
<1>5. /\ registry[r] \in Registered
      /\ step[Up(r)] \in LocationsOf[registry[r]]
      /\ step[Down(r)] # "done"
  BY <1>2, <1>3, UpdateStateKeeps, LocationsAre DEF RegistryAgrees, SesTypeOK
<1>6. CASE r # s
  BY <1>2, <1>4, <1>5, <1>6, UpdateStateKeeps
<1>7. CASE r = s
  <2>1. registry'[r] = "active"
    BY <1>2, <1>5, <1>7, UpdateStateKeeps, LocationsAre
  <2>2. step[Up(r)] \in StreamLocations
    BY <1>2, <1>7 DEF DownFollows
  <2>3. step[Up(r)] # "done"
    BY <1>5, LocationsAre
       DEF Registered, PreAuth, PostAuth, Tunnel, Refusals, Closing
  <2>4. step[Up(r)] \in LocationsOf["active"]
    BY <2>2, <2>3, LocationsAre DEF StreamLocations, Tunnel
  <2>. QED BY <1>4, <1>5, <2>1, <2>4
<1>. QED BY <1>6, <1>7

\* Every step of a session keeps the registry in agreement.
LEMMA SessionAgrees ==
  ASSUME SesTypeOK, RegistryAgrees, DownFollows, NEW s \in Sessions, SessionNext(s)
  PROVE  RegistryAgrees'
<1>1. CASE StartRefused(s) \/ StartCounted(s) \/ StartRejected(s)
  <2>1. \A to : Carries("unborn", to) /\ Carries("starting", to)
    BY LocationsAre DEF Carries, Registered, PreAuth, PostAuth, Tunnel, Refusals, Closing
  <2>2. UNCHANGED registry
    BY <1>1 DEF StartRefused, StartCounted, StartRejected
  <2>3. \E from \in {"unborn", "starting"} : \E to : Move(Up(s), from, to)
    BY <1>1 DEF StartRefused, StartCounted, StartRejected
  <2>. QED BY <2>1, <2>2, <2>3, UpMoveAgrees
<1>2. CASE StartServed(s)
  <2>1. /\ step[Up(s)] = "starting"
        /\ step' = [step EXCEPT ![Up(s)] = "greeting"]
        /\ registry' = [registry EXCEPT ![s] = "authenticating"]
    BY <1>2 DEF StartServed, Move
  <2>2. step[Down(s)] = "none"
    BY <2>1 DEF DownFollows, StreamLocations, Closing
  <2>3. "greeting" \in LocationsOf["authenticating"]
    BY LocationsAre DEF PreAuth
  <2>4. \A r \in Sessions : /\ step'[Down(r)] = step[Down(r)]
                            /\ step'[Up(r)] = IF r = s THEN "greeting" ELSE step[Up(r)]
                            /\ registry'[r] = IF r = s THEN "authenticating" ELSE registry[r]
    BY <2>1, ChainFacts DEF SesTypeOK
  <2>. QED BY <2>2, <2>3, <2>4 DEF RegistryAgrees
<1>3. CASE StartStream(s)
  <2>1. /\ step[Up(s)] = "tunnel_reply" /\ registry' = registry
        /\ step' = [step EXCEPT ![Up(s)] = "read", ![Down(s)] = "read"]
    BY <1>3 DEF StartStream
  <2>2. \A r \in Sessions :
          /\ step'[Up(r)] = IF r = s THEN "read" ELSE step[Up(r)]
          /\ step'[Down(r)] = IF r = s THEN "read" ELSE step[Down(r)]
    BY <2>1, ChainFacts DEF SesTypeOK
  <2>3. \A st \in Registered : "tunnel_reply" \in LocationsOf[st] => "read" \in LocationsOf[st]
    BY LocationsAre DEF Registered, PreAuth, PostAuth, Tunnel, Refusals, Closing
  <2>4. \A r \in Sessions : registry[r] # "absent" => registry[r] \in Registered
    BY LocationsAre DEF SesTypeOK
  <2>5. ASSUME NEW r \in Sessions, registry[r] # "absent"
        PROVE  step'[Up(r)] \in LocationsOf[registry[r]] /\ step'[Down(r)] # "done"
    <3>1. /\ registry[r] \in Registered
          /\ step[Up(r)] \in LocationsOf[registry[r]] /\ step[Down(r)] # "done"
      BY <2>4, <2>5 DEF RegistryAgrees
    <3>2. CASE r = s
      <4>1. step[Up(s)] = "tunnel_reply" /\ step'[Up(r)] = "read" /\ step'[Down(r)] = "read"
        BY <2>1, <2>2, <3>2
      <4>. QED BY <2>3, <3>1, <3>2, <4>1
    <3>3. CASE r # s
      BY <2>2, <3>1, <3>3
    <3>. QED BY <3>2, <3>3
  <2>. QED BY <2>1, <2>5 DEF RegistryAgrees
<1>4. CASE TimeoutCallback(s)
  BY <1>4, UnregisterAgrees DEF TimeoutCallback
<1>. QED BY <1>1, <1>2, <1>3, <1>4, HandlersAgree DEF SessionNext

\* Every step of a tunnel's chain, and of its close, keeps the registry in
\* agreement.
LEMMA ChainAgrees ==
  ASSUME SesTypeOK, RegistryAgrees, DownFollows, NEW c \in Chains, ChainNext(c)
  PROVE  RegistryAgrees'
<1>. DEFINE s == c[1]
<1>1. s \in Sessions /\ (c = Up(s) \/ c = Down(s))
  BY ChainFacts
<1>2. ASSUME NEW from, NEW to \in Closing \cup {"read", "write", "aborted"}, Move(c, from, to),
             UNCHANGED registry, Carries(from, to)
      PROVE  RegistryAgrees'
  <2>1. CASE c = Up(s)
    BY <1>1, <1>2, <2>1, UpMoveAgrees
  <2>2. CASE c = Down(s)
    BY <1>1, <1>2, <2>2, DownMoveAgrees DEF Move, Closing
  <2>. QED BY <1>1, <2>1, <2>2
<1>3. \A from : /\ \A to \in Closing : Carries(from, to)
                /\ \A to \in {"read", "aborted"} : Carries("write", to)
  BY LocationsAre DEF Carries, Registered, PreAuth, PostAuth, Tunnel, Refusals, Closing
<1>4. CASE ReadDone(c)
  <2>1. CASE c = Up(s)
    <3>1. PICK to \in {"write", "aborted"} : Move(c, "read", to)
      BY <1>4 DEF ReadDone, Begin, Move
    <3>2. "active" \in Registered /\ to \in LocationsOf["active"] /\ UpdateState(s, "active")
      BY <1>4, LocationsAre DEF ReadDone, Tunnel, Registered
    <3>. QED BY <1>1, <2>1, <3>1, <3>2, UpMoveAgrees
  <2>2. CASE c = Down(s)
    BY <1>1, <1>4, <2>2, DownReadAgrees
  <2>. QED BY <1>1, <2>1, <2>2
<1>5. CASE WriteDone(c)
  <2>1. PICK to \in {"read", "aborted"} : Move(c, "write", to)
    BY <1>5 DEF WriteDone, Begin, Move
  <2>. QED BY <1>2, <1>3, <1>5, <2>1 DEF WriteDone
<1>6. CASE CloseSession(c)
  <2>1. Move(c, step[c], "close_release") /\ "close_release" \in Closing
    BY <1>6 DEF CloseSession, Move, Closing
  <2>. QED BY <1>2, <1>3, <1>6, <2>1 DEF CloseSession
<1>7. CASE CloseRelease(c)
  <2>1. Move(c, "close_release", "close_unregister") /\ "close_unregister" \in Closing
    BY <1>7 DEF CloseRelease, Closing
  <2>. QED BY <1>2, <1>3, <1>7, <2>1 DEF CloseRelease
<1>8. CASE Releasing(c)
  BY <1>8 DEF Releasing, sesVars, RegistryAgrees
<1>9. CASE CloseUnregister(c)
  <2>1. \A r \in Sessions \ {s} : step'[Up(r)] = step[Up(r)] /\ step'[Down(r)] = step[Down(r)]
    BY <1>1, <1>9, ChainFacts DEF CloseUnregister, Move, SesTypeOK
  <2>. QED BY <1>1, <1>9, <2>1, UnregisterAgrees DEF CloseUnregister
<1>. QED BY <1>4, <1>5, <1>6, <1>7, <1>8, <1>9 DEF ChainNext

\* However the closes of a tunnel's two directions, late mark_active calls and
\* stale scans interleave, the registry shows each session in the state its
\* handlers have reached, or not at all.
THEOREM RegistryFollows == Spec => []RegistryAgrees
<1>1. Init => RegistryAgrees
  BY DEF Init, RegistryAgrees
<1>2. RegistryAgrees /\ UNCHANGED vars => RegistryAgrees'
  BY DEF RegistryAgrees, vars, sesVars
<1>3. SesTypeOK /\ RegistryAgrees /\ DownFollows /\ Next => RegistryAgrees'
  <2>1. RegistryAgrees /\ (Admission \/ ScanRegistry) => RegistryAgrees'
    BY DEF RegistryAgrees, Admission, ScanRegistry, sesVars
  <2>. QED BY <2>1, SessionAgrees, ChainAgrees DEF Next
<1>. QED BY <1>1, <1>2, <1>3, SessionTypes, DownFollowsUp, PTL DEF Spec

-----------------------------------------------------------------------------
(* The overload protector's count *)

\* A session whose start() has not run has no closed socket.
UnbornOpen == \A s \in Sessions : step[Up(s)] = "unborn" => s \notin closed

Uncounted == {"unborn", "refused"}

\* A step that neither closes a session nor takes one into or out of
\* Uncounted leaves the counted sessions as they are.
QuietCount ==
  /\ UNCHANGED <<closed, total>>
  /\ \A r \in Sessions :
       \/ step'[Up(r)] = step[Up(r)]
       \/ step[Up(r)] \notin Uncounted /\ step'[Up(r)] \notin Uncounted

\* The three ways a step may change the count and the sessions it stands for.
CountChange ==
  \/ UNCHANGED total /\ Counted' = Counted
  \/ \E s \in Sessions \ Counted : total' = total + 1 /\ Counted' = Counted \cup {s}
  \/ \E s \in Sessions : DecTotal /\ Counted' = Counted \ {s}

\* A quiet step changes neither the count nor the sessions it stands for.
LEMMA QuietCounts ==
  ASSUME UnbornOpen, QuietCount
  PROVE  UnbornOpen' /\ CountChange
<1>1. Counted' = Counted
  BY DEF QuietCount, Counted, Uncounted
<1>2. UnbornOpen'
  BY DEF QuietCount, UnbornOpen, Uncounted
<1>. QED BY <1>1, <1>2 DEF CountChange, QuietCount

\* start() counts its session and uncounts it when it is rejected; the other
\* handlers before the tunnel are quiet.
LEMMA SessionCounts ==
  ASSUME SesTypeOK, UnbornOpen, NEW s \in Sessions, SessionNext(s)
  PROVE  UnbornOpen' /\ CountChange
<1>. USE DEF Uncounted
<1>1. ASSUME NEW from, NEW to, Move(Up(s), from, to)
      PROVE  \A r \in Sessions : /\ step'[Up(r)] = IF r = s THEN to ELSE step[Up(r)]
                                 /\ step[Up(s)] = from
  BY <1>1, ChainFacts DEF Move, SesTypeOK
<1>2. CASE StartRefused(s)
  <2>1. /\ \A r \in Sessions : step'[Up(r)] = IF r = s THEN "refused" ELSE step[Up(r)]
        /\ step[Up(s)] = "unborn" /\ closed' = closed \cup {s} /\ total' = total
    BY <1>1, <1>2 DEF StartRefused
  <2>2. Counted' = Counted
    BY <2>1 DEF Counted
  <2>3. UnbornOpen'
    BY <2>1 DEF UnbornOpen
  <2>. QED BY <2>1, <2>2, <2>3 DEF CountChange
<1>3. CASE StartCounted(s)
  <2>1. /\ \A r \in Sessions : step'[Up(r)] = IF r = s THEN "starting" ELSE step[Up(r)]
        /\ step[Up(s)] = "unborn" /\ closed' = closed /\ total' = total + 1
    BY <1>1, <1>3 DEF StartCounted
  <2>2. s \in Sessions \ Counted
    BY <2>1 DEF Counted
  <2>3. Counted' = Counted \cup {s}
    BY <2>1 DEF Counted, UnbornOpen
  <2>4. UnbornOpen'
    BY <2>1 DEF UnbornOpen
  <2>. QED BY <2>1, <2>2, <2>3, <2>4 DEF CountChange
<1>4. CASE StartRejected(s)
  <2>1. /\ \A r \in Sessions : step'[Up(r)] = IF r = s THEN "refused" ELSE step[Up(r)]
        /\ step[Up(s)] = "starting" /\ closed' = closed \cup {s} /\ DecTotal
    BY <1>1, <1>4 DEF StartRejected
  <2>2. Counted' = Counted \ {s}
    BY <2>1 DEF Counted
  <2>3. UnbornOpen'
    BY <2>1 DEF UnbornOpen
  <2>. QED BY <2>1, <2>2, <2>3 DEF CountChange
<1>5. CASE StartServed(s)
  <2>1. QuietCount
    BY <1>1, <1>5 DEF StartServed, QuietCount
  <2>. QED BY <2>1, QuietCounts
<1>6. ASSUME NEW from, NEW to, Handler(s, from, to), {from, to} \cap Uncounted = {}
      PROVE  UnbornOpen' /\ CountChange
  <2>1. QuietCount
    BY <1>1, <1>6 DEF Handler, QuietCount
  <2>. QED BY <2>1, QuietCounts
<1>7. CASE SocksGreeting(s) \/ MethodReplied(s) \/ Dropped(s) \/ SocksAuthenticated(s)
            \/ SocksAuthFailed(s) \/ AuthReplied(s) \/ SocksRequest(s) \/ HttpConnect(s)
            \/ ConnectFailed(s) \/ Connected(s)
  <2>. DEFINE Named == {"greeting", "method_reply", "method_refusal", "auth", "auth_reply",
                        "auth_refusal", "request", "connect_direct", "connect_proxy",
                        "tunnel_reply", "farewell", "dropped"}
  <2>1. \E from, to \in Named : Handler(s, from, to)
    BY <1>7 DEF SocksGreeting, MethodReplied, Dropped, SocksAuthenticated, SocksAuthFailed,
                AuthReplied, SocksRequest, HttpConnect, ConnectFailed, Connected, Routed
  <2>2. \A from, to \in Named : {from, to} \cap Uncounted = {}
    OBVIOUS
  <2>. QED BY <1>6, <2>1, <2>2
<1>8. CASE StartStream(s)
  <2>1. step[Up(s)] = "tunnel_reply" /\ UNCHANGED <<closed, total>>
    BY <1>8 DEF StartStream
  <2>2. \A r \in Sessions : step'[Up(r)] = IF r = s THEN "read" ELSE step[Up(r)]
    BY <1>8, ChainFacts DEF StartStream, SesTypeOK
  <2>3. QuietCount
    <3>1. ASSUME NEW r \in Sessions
          PROVE  \/ step'[Up(r)] = step[Up(r)]
                 \/ step[Up(r)] \notin Uncounted /\ step'[Up(r)] \notin Uncounted
      <4>1. CASE r = s
        BY <2>1, <2>2, <4>1
      <4>2. CASE r # s
        BY <2>2, <4>2
      <4>. QED BY <4>1, <4>2
    <3>. QED BY <2>1, <3>1 DEF QuietCount
  <2>. QED BY <2>3, QuietCounts
<1>9. CASE TimeoutCallback(s)
  <2>1. QuietCount
    BY <1>9 DEF TimeoutCallback, QuietCount
  <2>. QED BY <2>1, QuietCounts
<1>. QED BY <1>2, <1>3, <1>4, <1>5, <1>7, <1>8, <1>9 DEF SessionNext

\* A move of one chain, seen from the up chains.
LEMMA UpChainMoved ==
  ASSUME SesTypeOK, NEW c \in Chains, NEW to, step' = [step EXCEPT ![c] = to]
  PROVE  \A r \in Sessions : step'[Up(r)] = IF c = Up(r) THEN to ELSE step[Up(r)]
BY ChainFacts DEF SesTypeOK

\* Of a chain's steps only the first one of close_session touches the count.
LEMMA ChainCounts ==
  ASSUME SesTypeOK, DownFollows, UnbornOpen, NEW c \in Chains, ChainNext(c)
  PROVE  UnbornOpen' /\ CountChange
<1>. DEFINE s == c[1]
<1>1. s \in Sessions /\ (c = Up(s) \/ c = Down(s))
  BY ChainFacts
<1>2. CASE CloseSession(c)
  <2>1. /\ step[c] \in ClosingFrom /\ step' = [step EXCEPT ![c] = "close_release"]
        /\ closed' = closed \cup {s} /\ DecTotal
    BY <1>2 DEF CloseSession
  <2>2. step[Up(s)] \notin Uncounted
    <3>1. step[c] \notin Uncounted \cup {"none"}
      BY <2>1 DEF ClosingFrom, Refusals, Tunnel, Uncounted
    <3>2. CASE c = Up(s)
      BY <3>1, <3>2
    <3>3. CASE c = Down(s)
      BY <1>1, <3>1, <3>3 DEF DownFollows, StreamLocations, Closing, Uncounted
    <3>. QED BY <1>1, <3>2, <3>3
  <2>3. \A r \in Sessions : step'[Up(r)] = step[Up(r)] \/ (r = s /\ step'[Up(r)] = "close_release")
    <3>1. \A r \in Sessions : c = Up(r) => r = s
      BY ChainFacts
    <3>2. step' = [step EXCEPT ![c] = "close_release"]
      BY <2>1
    <3>3. \A r \in Sessions : step'[Up(r)] = IF c = Up(r) THEN "close_release" ELSE step[Up(r)]
      BY <3>2, UpChainMoved
    <3>. QED BY <3>1, <3>3
  <2>4. Counted' = Counted \ {s}
    BY <2>1, <2>2, <2>3 DEF Counted, Uncounted
  <2>5. UnbornOpen'
    BY <2>1, <2>2, <2>3 DEF UnbornOpen, Uncounted
  <2>. QED BY <1>1, <2>1, <2>4, <2>5 DEF CountChange
<1>3. CASE ReadDone(c) \/ WriteDone(c) \/ CloseRelease(c) \/ Releasing(c) \/ CloseUnregister(c)
  <2>1. UNCHANGED <<closed, total>>
    BY <1>3 DEF ReadDone, WriteDone, CloseRelease, Releasing, CloseUnregister, sesVars
  <2>2. CASE UNCHANGED step
    <3>1. QuietCount
      BY <2>1, <2>2 DEF QuietCount
    <3>. QED BY <3>1, QuietCounts
  <2>3. CASE \E from, to \in {"read", "write", "aborted", "close_release", "close_unregister",
                               "done"} : Move(c, from, to)
    <3>1. \A r \in Sessions :
            \/ step'[Up(r)] = step[Up(r)]
            \/ step[Up(r)] \notin Uncounted /\ step'[Up(r)] \notin Uncounted
      BY <1>1, <2>3, ChainFacts DEF Move, SesTypeOK, Uncounted
    <3>2. QuietCount
      BY <2>1, <3>1 DEF QuietCount
    <3>. QED BY <3>2, QuietCounts
  <2>. QED BY <1>3, <2>2, <2>3
         DEF ReadDone, WriteDone, CloseRelease, Releasing, CloseUnregister, Begin, Move, sesVars
<1>. QED BY <1>2, <1>3 DEF ChainNext

\* There are finitely many sessions: each is the up chain of a caller.
LEMMA SessionsFinite == IsFiniteSet(Sessions)
<1>. DEFINE f == [s \in Sessions |-> Up(s)]
<1>1. f \in Injection(Sessions, Callers)
  BY ChainFacts DEF Injection, IsInjective
<1>. QED BY <1>1, CallersAssumption, FS_Injection

\* The overload count never stands above the sessions that are counted and
\* not yet closed: neither a rejected start nor two closes of one tunnel, in
\* any order, make a full gateway out of an empty one.
THEOREM CountFreesUp == Spec => []TotalNeverOvercounts
<1>1. Init => UnbornOpen /\ TotalNeverOvercounts
  <2>1. Init => Counted = {}
    BY ChainFacts DEF Init, Counted, Up
  <2>2. Init => total = 0 /\ Cardinality(Counted) = 0
    BY <2>1, FS_EmptySet DEF Init
  <2>3. Init => UnbornOpen
    BY DEF Init, UnbornOpen
  <2>. QED BY <2>2, <2>3 DEF TotalNeverOvercounts
<1>2. UnbornOpen /\ TotalNeverOvercounts /\ UNCHANGED vars
        => UnbornOpen' /\ TotalNeverOvercounts'
  BY DEF UnbornOpen, TotalNeverOvercounts, Counted, vars, sesVars
<1>3. ASSUME SesTypeOK, DownFollows, UnbornOpen, Next
      PROVE  UnbornOpen' /\ CountChange
  <2>1. CASE Admission \/ ScanRegistry
    <3>1. QuietCount
      BY <2>1 DEF Admission, ScanRegistry, QuietCount, sesVars
    <3>. QED BY <1>3, <3>1, QuietCounts
  <2>. QED BY <1>3, <2>1, SessionCounts, ChainCounts DEF Next
<1>4. ASSUME SesTypeOK, TotalNeverOvercounts, CountChange
      PROVE  TotalNeverOvercounts'
  <2>1. IsFiniteSet(Counted) /\ Cardinality(Counted) \in Nat /\ total \in Nat
    BY <1>4, SessionsFinite, FS_Subset, FS_CardinalityType DEF Counted, SesTypeOK
  <2>2. \A s : /\ s \notin Counted => Cardinality(Counted \cup {s}) = Cardinality(Counted) + 1
               /\ Cardinality(Counted \ {s}) \in {Cardinality(Counted), Cardinality(Counted) - 1}
               /\ Cardinality(Counted \ {s}) \in Nat
    BY <2>1, FS_AddElement, FS_RemoveElement, FS_CardinalityType
  <2>3. total <= Cardinality(Counted)
    BY <1>4 DEF TotalNeverOvercounts
  <2>4. total' <= Cardinality(Counted')
    BY <1>4, <2>1, <2>2, <2>3 DEF CountChange, DecTotal
  <2>. QED BY <2>4 DEF TotalNeverOvercounts
<1>. QED BY <1>1, <1>2, <1>3, <1>4, SessionTypes, DownFollowsUp, PTL DEF Spec
=============================================================================
