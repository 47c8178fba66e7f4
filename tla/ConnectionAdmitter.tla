------------------------ MODULE ConnectionAdmitter ------------------------
(***************************************************************************)
(* concurrency/connection_admitter.cpp: the gateway's admission counters   *)
(* and waiting queue, at the grain of its atomics and lock regions.        *)
(*                                                                         *)
(* request_admit tests the limits and takes a slot in separate atomic      *)
(* operations; release_connection gives a slot back, then its user's       *)
(* count, then moves waiters from the queue into free slots under          *)
(* m_queue_mutex.  Any number of threads may be inside release_connection  *)
(* at once.  A region that holds a mutex and touches only what that mutex  *)
(* guards is one action; a region that also touches m_active_connections   *)
(* or m_user_connections while it holds m_queue_mutex is split, and        *)
(* queueLock records its holder.                                           *)
(*                                                                         *)
(* The callbacks on_admit and on_timeout are null at the only call site    *)
(* (session.cpp:80), which also never asks for the reconnect priority; the *)
(* rate limiter and the overload protector answer in Gate, which the       *)
(* environment decides here and ProxyServer ties to its counters.          *)
(***************************************************************************)
EXTENDS Integers, Sequences, FiniteSets

CONSTANTS
  Callers,        \* threads of control that call the admitter
  Requesters,     \* those of them that call request_admit
  Sessions,       \* session ids
  Names,          \* user names that clients log in with
  Anonymous,      \* the empty user name
  NoCaller,       \* "m_queue_mutex is free"
  NoSession,      \* the session of a caller that is not inside the admitter
  MaxConnections, \* m_max_connections
  MaxPerUser,     \* m_max_connections_per_user
  MaxQueue,       \* m_max_queue_size
  QueueEnabled    \* m_queue_enabled

Users == Names \cup {Anonymous}

ASSUME CallersAssumption ==
  /\ IsFiniteSet(Callers)
  /\ Requesters \subseteq Callers
  /\ Requesters # {}
  /\ NoCaller \notin Callers

ASSUME NamesAssumption == Anonymous \notin Names

ASSUME LimitsAssumption ==
  /\ MaxConnections \in Nat
  /\ MaxPerUser \in Nat
  /\ MaxQueue \in Nat
  /\ QueueEnabled \in BOOLEAN

VARIABLES
  active,    \* m_active_connections
  userConns, \* m_user_connections; an absent entry is 0
  queue,     \* m_queue, entries [sid, user]
  queueLock, \* holder of m_queue_mutex across more than one action
  at,        \* where each caller is inside the admitter
  arg        \* the [sid, user] each caller is working on

admVars == <<active, userConns, queue, queueLock, at, arg>>

Entry == [sid : Sessions \cup {NoSession}, user : Users]

NoEntry == [sid |-> NoSession, user |-> Anonymous]

\* Control locations of a caller: outside, inside request_admit, its three
\* kinds of answer, inside release_connection, and its return.
Answers == {"accepted", "queued", "rejected"}

Locations ==
  {"idle", "gate", "user_limit", "total_limit", "enqueue", "count",
   "count_user", "dec_user", "dequeue", "promote", "promote_user",
   "released"} \cup Answers

Goto(c, from, to) ==
  /\ at[c] = from
  /\ at' = [at EXCEPT ![c] = to]

AdmInit ==
  /\ active = 0
  /\ userConns = [u \in Users |-> 0]
  /\ queue = <<>>
  /\ queueLock = NoCaller
  /\ at = [c \in Callers |-> "idle"]
  /\ arg = [c \in Callers |-> NoEntry]

-----------------------------------------------------------------------------
(* request_admit *)

RequestAdmit(c, s, u) ==
  /\ c \in Requesters
  /\ Goto(c, "idle", "gate")
  /\ arg' = [arg EXCEPT ![c] = [sid |-> s, user |-> u]]
  /\ UNCHANGED <<active, userConns, queue, queueLock>>

\* rejected_rate, rejected_banned or rejected_overload
GateRejects(c) ==
  /\ Goto(c, "gate", "rejected")
  /\ UNCHANGED <<active, userConns, queue, queueLock, arg>>

GatePasses(c) ==
  /\ Goto(c, "gate", "user_limit")
  /\ UNCHANGED <<active, userConns, queue, queueLock, arg>>

\* Fault: the limit itself still passes.
CheckUserLimitLax(c) ==
  /\ Goto(c, "user_limit",
          IF userConns[arg[c].user] > MaxPerUser THEN "rejected" ELSE "total_limit")
  /\ UNCHANGED <<active, userConns, queue, queueLock, arg>>

\* Only a name with an entry is tested: the first connection of a name passes
\* even when max_per_user is 0.
AtUserLimit(u) == userConns[u] > 0 /\ userConns[u] >= MaxPerUser

CheckUserLimit(c) ==
  /\ Goto(c, "user_limit",
          IF AtUserLimit(arg[c].user) THEN "rejected" ELSE "total_limit")
  /\ UNCHANGED <<active, userConns, queue, queueLock, arg>>

\* Fault: the limit itself still passes.
CheckTotalLimitLax(c) ==
  /\ Goto(c, "total_limit", IF active <= MaxConnections THEN "count" ELSE "enqueue")
  /\ UNCHANGED <<active, userConns, queue, queueLock, arg>>

CheckTotalLimit(c) ==
  /\ Goto(c, "total_limit",
          IF active < MaxConnections THEN "count"
          ELSE IF QueueEnabled THEN "enqueue" ELSE "rejected")
  /\ UNCHANGED <<active, userConns, queue, queueLock, arg>>

\* The size test and the push share one m_queue_mutex region.
EnqueueConnection(c) ==
  /\ queueLock = NoCaller
  /\ IF Len(queue) >= MaxQueue
     THEN /\ Goto(c, "enqueue", "rejected")
          /\ UNCHANGED queue
     ELSE /\ Goto(c, "enqueue", "queued")
          /\ queue' = Append(queue, arg[c])
  /\ UNCHANGED <<active, userConns, queueLock, arg>>

CountConnection(c) ==
  /\ Goto(c, "count", "count_user")
  /\ active' = active + 1
  /\ UNCHANGED <<userConns, queue, queueLock, arg>>

CountUser(c) ==
  /\ Goto(c, "count_user", "accepted")
  /\ userConns' = [userConns EXCEPT ![arg[c].user] = @ + 1]
  /\ UNCHANGED <<active, queue, queueLock, arg>>

-----------------------------------------------------------------------------
(* release_connection *)

\* Fault: fetch_sub without the test for zero.
ReleaseConnectionUnclamped(c, s, u) ==
  /\ Goto(c, "idle", "dec_user")
  /\ arg' = [arg EXCEPT ![c] = [sid |-> s, user |-> u]]
  /\ active' = active - 1
  /\ UNCHANGED <<userConns, queue, queueLock>>

\* The compare-and-swap loop: one decrement, or none at zero.
ReleaseConnection(c, s, u) ==
  /\ Goto(c, "idle", "dec_user")
  /\ arg' = [arg EXCEPT ![c] = [sid |-> s, user |-> u]]
  /\ active' = IF active > 0 THEN active - 1 ELSE active
  /\ UNCHANGED <<userConns, queue, queueLock>>

\* An entry that falls to zero is erased.
ReleaseUser(c) ==
  /\ Goto(c, "dec_user", "dequeue")
  /\ userConns' = [userConns EXCEPT ![arg[c].user] = IF @ > 0 THEN @ - 1 ELSE @]
  /\ arg' = [arg EXCEPT ![c] = NoEntry]
  /\ UNCHANGED <<active, queue, queueLock>>

\* Fault: pops without taking m_queue_mutex.
PopWaitingUnlocked(c) ==
  /\ queue # <<>>
  /\ active < MaxConnections
  /\ Goto(c, "dequeue", "promote")
  /\ arg' = [arg EXCEPT ![c] = Head(queue)]
  /\ queue' = Tail(queue)
  /\ queueLock' = c
  /\ UNCHANGED <<active, userConns>>

\* Fault: promotes the newest waiter.
PopNewest(c) ==
  /\ queueLock = NoCaller
  /\ queue # <<>>
  /\ active < MaxConnections
  /\ Goto(c, "dequeue", "promote")
  /\ arg' = [arg EXCEPT ![c] = queue[Len(queue)]]
  /\ queue' = SubSeq(queue, 1, Len(queue) - 1)
  /\ queueLock' = c
  /\ UNCHANGED <<active, userConns>>

\* dequeue_connections holds m_queue_mutex from here to PromoteUser.
PopWaiting(c) ==
  /\ queueLock = NoCaller
  /\ queue # <<>>
  /\ active < MaxConnections
  /\ Goto(c, "dequeue", "promote")
  /\ arg' = [arg EXCEPT ![c] = Head(queue)]
  /\ queue' = Tail(queue)
  /\ queueLock' = c
  /\ UNCHANGED <<active, userConns>>

PromoteConnection(c) ==
  /\ Goto(c, "promote", "promote_user")
  /\ active' = active + 1
  /\ UNCHANGED <<userConns, queue, queueLock, arg>>

\* m_queue_mutex is dropped for the callback and taken again by the loop.
PromoteUser(c) ==
  /\ Goto(c, "promote_user", "dequeue")
  /\ userConns' = [userConns EXCEPT ![arg[c].user] = @ + 1]
  /\ arg' = [arg EXCEPT ![c] = NoEntry]
  /\ queueLock' = NoCaller
  /\ UNCHANGED <<active, queue>>

\* Fault: returns with m_queue_mutex still held.
ExpireWaitingKeepsLock(c) ==
  /\ queueLock = NoCaller
  /\ queue = <<>> \/ active >= MaxConnections
  /\ Goto(c, "dequeue", "released")
  /\ queueLock' = c
  /\ UNCHANGED <<active, userConns, queue, arg>>

\* The loop ends and check_queue_timeouts drops every entry older than
\* m_queue_timeout_seconds: the queue is in arrival order, so a prefix.
ExpireWaiting(c) ==
  /\ queueLock = NoCaller
  /\ queue = <<>> \/ active >= MaxConnections
  /\ Goto(c, "dequeue", "released")
  /\ \E expired \in 0..Len(queue) :
       queue' = SubSeq(queue, expired + 1, Len(queue))
  /\ UNCHANGED <<active, userConns, queueLock, arg>>

\* The caller reads the answer and goes on with its own code.
Return(c) ==
  /\ at[c] \in Answers \cup {"released"}
  /\ at' = [at EXCEPT ![c] = "idle"]
  /\ arg' = [arg EXCEPT ![c] = NoEntry]
  /\ UNCHANGED <<active, userConns, queue, queueLock>>

-----------------------------------------------------------------------------
RequestStep(c) ==
  \/ GateRejects(c)
  \/ GatePasses(c)
  \/ CheckUserLimit(c)
  \/ CheckTotalLimit(c)
  \/ EnqueueConnection(c)
  \/ CountConnection(c)
  \/ CountUser(c)

ReleaseStep(c) ==
  \/ ReleaseUser(c)
  \/ PopWaiting(c)
  \/ PromoteConnection(c)
  \/ PromoteUser(c)
  \/ ExpireWaiting(c)

\* request_admit is only ever called with the empty name (session.cpp:79);
\* release_connection with whatever the client claimed (session.cpp:128).
AdmNext ==
  \E c \in Callers :
    \/ \E s \in Sessions : RequestAdmit(c, s, Anonymous)
    \/ \E s \in Sessions, u \in Users : ReleaseConnection(c, s, u)
    \/ RequestStep(c)
    \/ ReleaseStep(c)
    \/ Return(c)

AdmSpec == AdmInit /\ [][AdmNext]_admVars

-----------------------------------------------------------------------------
AdmTypeOK ==
  /\ active \in Nat
  /\ userConns \in [Users -> Nat]
  /\ queue \in Seq(Entry)
  /\ queueLock \in Callers \cup {NoCaller}
  /\ at \in [Callers -> Locations]
  /\ arg \in [Callers -> Entry]

CallersAt(locations) == {c \in Callers : at[c] \in locations}

\* Callers past the limit test that have not yet taken their slot.
Counting  == CallersAt({"count"})
Promoting == CallersAt({"promote"})

\* request_admit tests m_active_connections at line 48 and adds to it at
\* line 83, and dequeue_connections does the same under a lock request_admit
\* does not take.  However those interleave, and however often slots are
\* released twice, the count exceeds the limit by at most one slot for each
\* caller that can be inside request_admit.
ActiveBounded == active <= MaxConnections + Cardinality(Requesters)

\* Every slot that has been promised but not yet counted is part of the bound.
PromisedBounded ==
  active + Cardinality(Counting) + Cardinality(Promoting)
    <= MaxConnections + Cardinality(Requesters)

\* m_queue never outgrows m_max_queue_size: dequeue's unlock/relock around the
\* callback must not let an enqueue slip past the size test.
QueueBounded == Len(queue) <= MaxQueue

\* Callers that passed the per-user test and have not yet counted their user.
Admitting == CallersAt({"total_limit", "enqueue", "count", "count_user"})
Draining  == CallersAt({"promote", "promote_user"})

\* The limit the test enforces: a name always gets its first connection.
UserLimit == IF MaxPerUser = 0 THEN 1 ELSE MaxPerUser

\* The per-user limit is tested when a request arrives (line 43) and not again
\* when a waiter is promoted (line 124).  The waiters that passed the test
\* before the count filled up can push it past the limit, by the length of
\* the queue and the callers in flight, and by no more: a caller that passes
\* the test sees at most UserLimit - 1.  A limit of 0 acts like a limit of 1,
\* since line 43 passes every name that has no entry yet.
UserOvershootBounded ==
  userConns[Anonymous] + Len(queue) + Cardinality(Admitting) + Cardinality(Draining)
    < UserLimit + MaxQueue + Cardinality(Requesters)

\* Only a caller in the middle of a promotion holds m_queue_mutex, and there
\* is one at a time: no promotion can be interleaved with another.
PromotionExclusive ==
  \A c \in Callers : c \in Draining <=> queueLock = c

\* A popped waiter is still in the line until its slot is counted.
Line ==
  IF Promoting = {} THEN queue
  ELSE <<arg[CHOOSE c \in Promoting : TRUE]>> \o queue

Limiter == INSTANCE SlotLimiter
             WITH Slots <- MaxConnections, Slack <- Cardinality(Requesters),
                  LineLength <- MaxQueue, Waiter <- Entry,
                  held <- active, line <- Line

\* The admitter, with its atomics and locks, behaves as the abstract limiter:
\* first come first promoted, no waiter lost or promoted twice.
ImplementsLimiter == Limiter!Spec
=============================================================================
