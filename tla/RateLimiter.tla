----------------------------- MODULE RateLimiter ----------------------------
(***************************************************************************)
(* concurrency/rate_limiter.cpp with its callers: session::start and       *)
(* request_admit, which one thread runs for one connection after the       *)
(* other, and the handlers that find a wrong password, on any io thread.   *)
(*                                                                         *)
(* Every call is one region of m_mutex and looks at the clock itself.      *)
(* Time is kept as ages, in ticks: how long ago a window was opened, and   *)
(* how long a ban still lasts.  An address without a record reads as one   *)
(* whose window of connections is over, without failures and without ban;  *)
(* records are never erased, so that a failure always finds one.           *)
(***************************************************************************)
EXTENDS Integers

CONSTANTS
  IPs,          \* client addresses
  MaxConn,      \* m_max_conn_per_ip_per_sec
  MaxFails,     \* m_max_auth_fails_per_min
  Second,       \* ticks in the window of connections
  Minute,       \* ticks in the window of failures
  BanDuration,  \* m_ban_duration_sec, in ticks
  MaxPending    \* bound: sessions of one address that wait for a password

ASSUME RateAssumption ==
  /\ MaxConn \in Nat \ {0} /\ MaxFails \in Nat \ {0}
  /\ Second \in Nat \ {0} /\ Minute \in Nat \ {0} /\ BanDuration \in Nat
  /\ MaxPending \in Nat \ {0}

VARIABLES
  conns,    \* conn_count, and how old conn_window_start is
  fails,    \* auth_fail_count, and how old auth_window_start is
  ban,      \* the ticks until banned_until
  at,       \* how far start() has got with a connection
  client,   \* the address it is from
  pending,  \* sessions that may still send a wrong password
  let_in,   \* history: how many were let in, and
  wrong     \* history: how many passwords were wrong, so many ticks ago

vars == <<conns, fails, ban, at, client, pending, let_in, wrong>>

\* Beyond the limits neither a count nor an age makes a difference.
Capped(n, max) == IF n < max THEN n ELSE max

\* How much of a log is from the last m ticks.
Recent(log, m) ==
  LET sum[k \in {0} \cup {a + 1 : a \in DOMAIN log}] ==
        IF k = 0 THEN 0 ELSE sum[k - 1] + log[k - 1]
  IN sum[m]

Init ==
  /\ conns = [i \in IPs |-> [count |-> 0, age |-> Second]]
  /\ \E boot \in 0..Minute : fails = [i \in IPs |-> [count |-> 0, age |-> boot]]
  /\ ban = [i \in IPs |-> 0]
  /\ at = "idle" /\ client \in IPs
  /\ pending = [i \in IPs |-> 0]
  /\ let_in = [i \in IPs |-> [a \in 0..(Second - 1) |-> 0]]
  /\ wrong = [i \in IPs |-> [a \in 0..(Minute - 1) |-> 0]]

-----------------------------------------------------------------------------
(* The three calls *)

counted(record) ==
  IF record.age >= Second THEN [count |-> 1, age |-> 0]
  ELSE [record EXCEPT !.count = Capped(@ + 1, MaxConn + 1)]

CountConnection(i) == conns' = [conns EXCEPT ![i] = counted(@)]

\* check_connection_rate counts, and lets the first one of a window pass.
check_connection_rate(i, passes) ==
  /\ CountConnection(i)
  /\ passes <=> conns[i].age >= Second \/ conns'[i].count <= MaxConn

check_auth_rate(i) ==
  /\ ban[i] = 0
  /\ fails[i].age >= Minute \/ fails[i].count < MaxFails

\* Fault: one failure more is needed.
banned_nowLax(count) == count > MaxFails

banned_now(count) == count >= MaxFails

record_auth_failure(i) ==
  LET count == IF fails[i].age >= Minute THEN 1 ELSE Capped(fails[i].count + 1, MaxFails + 1)
  IN /\ fails' = [fails EXCEPT ![i] =
                    [count |-> count, age |-> IF @.age >= Minute THEN 0 ELSE @.age]]
     /\ ban' = IF banned_now(count) THEN [ban EXCEPT ![i] = BanDuration] ELSE ban

-----------------------------------------------------------------------------
(* session::start and request_admit *)

\* Fault: a connection is counted by request_admit alone.
AcceptUncounted(i) ==
  /\ at = "idle"
  /\ client' = i /\ at' = "started"
  /\ UNCHANGED <<conns, fails, ban, pending, let_in, wrong>>

\* The first count, in start().
Accept(i) ==
  /\ at = "idle"
  /\ client' = i
  /\ \/ check_connection_rate(i, TRUE) /\ at' = "started"
     \/ check_connection_rate(i, FALSE) /\ at' = "idle"
  /\ UNCHANGED <<fails, ban, pending, let_in, wrong>>

\* The second count of the same connection, in request_admit.
AdmitRate ==
  /\ at = "started"
  /\ \/ check_connection_rate(client, TRUE) /\ at' = "rated"
     \/ check_connection_rate(client, FALSE) /\ at' = "idle"
  /\ UNCHANGED <<fails, ban, client, pending, let_in, wrong>>

LetIn ==
  /\ check_auth_rate(client)
  /\ pending[client] < MaxPending
  /\ pending' = [pending EXCEPT ![client] = @ + 1]
  /\ let_in' = [let_in EXCEPT ![client][0] = Capped(@ + 1, MaxConn + 2)]
  /\ UNCHANGED <<conns, fails, ban, wrong>>

\* Fault: to ask again prolongs the ban.
AdmitAuthProlongs ==
  /\ at = "rated" /\ at' = "idle"
  /\ \/ LetIn
     \/ /\ ~check_auth_rate(client)
        /\ ban' = [ban EXCEPT ![client] = BanDuration]
        /\ UNCHANGED <<conns, fails, pending, let_in, wrong>>
  /\ UNCHANGED client

AdmitAuth ==
  /\ at = "rated" /\ at' = "idle"
  /\ \/ LetIn
     \/ /\ ~check_auth_rate(client)
        /\ UNCHANGED <<conns, fails, ban, pending, let_in, wrong>>
  /\ UNCHANGED client

\* The gateway is overloaded, or the connection refused for another reason.
TurnAway ==
  /\ at # "idle" /\ at' = "idle"
  /\ UNCHANGED <<conns, fails, ban, client, pending, let_in, wrong>>

-----------------------------------------------------------------------------
(* The sessions that were let in, and the clock *)

\* A session may send one password, however long ago it was let in.
WrongPassword(i) ==
  /\ pending[i] > 0
  /\ pending' = [pending EXCEPT ![i] = @ - 1]
  /\ record_auth_failure(i)
  /\ wrong' = [wrong EXCEPT ![i][0] = Capped(@ + 1, 2 * MaxFails - 1)]
  /\ UNCHANGED <<conns, at, client, let_in>>

\* It was the right one, or the client left.
Leave(i) ==
  /\ pending[i] > 0
  /\ pending' = [pending EXCEPT ![i] = @ - 1]
  /\ UNCHANGED <<conns, fails, ban, at, client, let_in, wrong>>

Older(log) == [a \in DOMAIN log |-> IF a = 0 THEN 0 ELSE log[a - 1]]

Tick ==
  /\ conns' = [i \in IPs |-> [conns[i] EXCEPT !.age = Capped(@ + 1, Second)]]
  /\ fails' = [i \in IPs |-> [fails[i] EXCEPT !.age = Capped(@ + 1, Minute)]]
  /\ ban' = [i \in IPs |-> IF ban[i] > 0 THEN ban[i] - 1 ELSE 0]
  /\ let_in' = [i \in IPs |-> Older(let_in[i])]
  /\ wrong' = [i \in IPs |-> Older(wrong[i])]
  /\ UNCHANGED <<at, client, pending>>

Next ==
  \/ \E i \in IPs : Accept(i) \/ WrongPassword(i) \/ Leave(i)
  \/ AdmitRate \/ AdmitAuth \/ TurnAway
  \/ Tick

\* Time passes.
Spec == Init /\ [][Next]_vars /\ WF_vars(Tick)

-----------------------------------------------------------------------------
(* Properties *)

\* Windows do not slide: of two that follow each other, the end of one and the
\* beginning of the next lie within one second.  Yet no second sees more than
\* max_conn_per_ip_per_sec connections of an address let in (one more if that
\* is odd), since each is counted twice.
LetInPerSecond == \A i \in IPs : Recent(let_in[i], Second) <= 2 * ((MaxConn + 1) \div 2)

\* Nor can wrong passwords hide between two windows for long: one less than
\* twice max_auth_fails_per_min of them within a minute, from however many
\* sessions at once, and the address is banned.
GuessingBans ==
  BanDuration >= Minute =>
    \A i \in IPs : Recent(wrong[i], Minute) >= 2 * MaxFails - 1 => ban[i] > 0

\* A ban ends, although the client keeps asking and sessions that were let in
\* before may prolong it: the address is let in again.
BansEnd == \A i \in IPs : ~check_auth_rate(i) ~> check_auth_rate(i)
=============================================================================
