------------------------- MODULE RateLimiterProofs -------------------------
(***************************************************************************)
(* For any limits, windows and number of addresses: the rate limiter's     *)
(* counts, ages and bans stay within their bounds, and no connection       *)
(* reaches request_admit uncounted; whoever is refused for guessing is     *)
(* banned; no second sees more connections of an address than two halves   *)
(* of a window, and no minute nearly two windows of wrong passwords        *)
(* without a ban.                                                          *)
(***************************************************************************)
EXTENDS RateLimiter, SequenceLemmas

\* Counts, ages and bans are in their ranges, and a connection that is on its
\* way in was counted.
RLTypeOK ==
  /\ \A i \in IPs : conns[i].count \in 0..(MaxConn + 1) /\ conns[i].age \in 0..Second
  /\ \A i \in IPs : fails[i].count \in 0..(MaxFails + 1) /\ fails[i].age \in 0..Minute
  /\ ban \in [IPs -> 0..BanDuration]
  /\ at \in {"idle", "started", "rated"}
  /\ at # "idle" => conns[client].count > 0
  /\ pending \in [IPs -> 0..MaxPending]

\* The records are functions of the address, and the connection has one.
Tables ==
  /\ conns \in [IPs -> [count : 0..(MaxConn + 1), age : 0..Second]]
  /\ fails \in [IPs -> [count : 0..(MaxFails + 1), age : 0..Minute]]
  /\ client \in IPs

RateInv == Tables /\ RLTypeOK

LEMMA CapLimits == ASSUME NEW n \in Nat, NEW max \in Nat
                   PROVE  /\ Capped(n, max) \in 0..max
                          /\ n > 0 /\ max > 0 => Capped(n, max) > 0
  BY DEF Capped

LEMMA RateInit == Init => RateInv
  BY RateAssumption DEF Init, RateInv, Tables, RLTypeOK

\* Counting a connection leaves a record with a count.
LEMMA CountedOnce ==
  ASSUME RateInv, NEW i \in IPs, CountConnection(i)
  PROVE  /\ conns' \in [IPs -> [count : 0..(MaxConn + 1), age : 0..Second]]
         /\ conns'[i].count > 0
         /\ \A j \in IPs \ {i} : conns'[j] = conns[j]
  <1>1. MaxConn \in Nat \ {0} /\ Second \in Nat \ {0}
    BY RateAssumption
  <1>2. conns[i] \in [count : 0..(MaxConn + 1), age : 0..Second]
    BY DEF RateInv, Tables
  <1>3. conns[i].count + 1 \in Nat /\ MaxConn + 1 \in Nat
        /\ conns[i].count + 1 > 0 /\ MaxConn + 1 > 0
    BY <1>1, <1>2
  <1>4. Capped(conns[i].count + 1, MaxConn + 1) \in 0..(MaxConn + 1)
        /\ Capped(conns[i].count + 1, MaxConn + 1) > 0
    BY <1>3, CapLimits
  <1>5. counted(conns[i]) \in [count : 0..(MaxConn + 1), age : 0..Second]
        /\ counted(conns[i]).count > 0
    BY <1>1, <1>2, <1>4 DEF counted
  <1> QED
    BY <1>5 DEF CountConnection, RateInv, Tables

\* Either of the two counts of a connection.
LEMMA RateCounted ==
  ASSUME RateInv, NEW i \in IPs, CountConnection(i), client' = i,
         at' \in {"idle", "started", "rated"}, UNCHANGED <<fails, ban, pending>>
  PROVE  RateInv'
  <1>1. /\ conns' \in [IPs -> [count : 0..(MaxConn + 1), age : 0..Second]]
        /\ conns'[i].count > 0
    BY CountedOnce
  <1> QED
    BY <1>1 DEF RateInv, Tables, RLTypeOK

LEMMA RateAccept ==
  ASSUME RateInv, NEW i \in IPs, Accept(i)
  PROVE  RateInv'
  BY RateCounted DEF Accept, check_connection_rate

LEMMA RateAdmit ==
  ASSUME RateInv, AdmitRate
  PROVE  RateInv'
  <1>1. client \in IPs
    BY DEF RateInv, Tables
  <1> QED
    BY <1>1, RateCounted DEF AdmitRate, check_connection_rate

LEMMA RateAuth ==
  ASSUME RateInv, AdmitAuth \/ TurnAway
  PROVE  RateInv'
  <1>1. /\ UNCHANGED <<conns, fails, ban, client>> /\ at' = "idle"
        /\ pending' = pending \/ LetIn
    BY DEF AdmitAuth, LetIn, TurnAway
  <1>2. pending' \in [IPs -> 0..MaxPending]
    BY <1>1, RateAssumption DEF LetIn, RateInv, RLTypeOK, Tables
  <1> QED
    BY <1>1, <1>2 DEF RateInv, Tables, RLTypeOK

LEMMA RateLeft ==
  ASSUME RateInv, NEW i \in IPs, pending[i] > 0, pending' = [pending EXCEPT ![i] = @ - 1]
  PROVE  pending' \in [IPs -> 0..MaxPending]
  BY RateAssumption DEF RateInv, RLTypeOK

LEMMA RateWrong ==
  ASSUME RateInv, NEW i \in IPs, WrongPassword(i)
  PROVE  RateInv'
  <1> DEFINE count == IF fails[i].age >= Minute THEN 1
                      ELSE Capped(fails[i].count + 1, MaxFails + 1)
             age == IF fails[i].age >= Minute THEN 0 ELSE fails[i].age
  <1>1. MaxFails \in Nat \ {0} /\ Minute \in Nat \ {0} /\ BanDuration \in Nat
    BY RateAssumption
  <1>2. fails[i] \in [count : 0..(MaxFails + 1), age : 0..Minute]
    BY DEF RateInv, Tables
  <1>3. Capped(fails[i].count + 1, MaxFails + 1) \in 0..(MaxFails + 1)
    <2>1. fails[i].count + 1 \in Nat /\ MaxFails + 1 \in Nat
      BY <1>1, <1>2
    <2> QED
      BY <2>1, CapLimits
  <1>4. count \in 0..(MaxFails + 1) /\ age \in 0..Minute
    BY <1>1, <1>2, <1>3
  <1>5. /\ fails' = [fails EXCEPT ![i] = [count |-> count, age |-> age]]
        /\ ban' = [ban EXCEPT ![i] = BanDuration] \/ ban' = ban
    BY DEF WrongPassword, record_auth_failure
  <1> HIDE DEF count, age
  <1>6. fails' \in [IPs -> [count : 0..(MaxFails + 1), age : 0..Minute]]
    BY <1>4, <1>5 DEF RateInv, Tables
  <1>7. ban' \in [IPs -> 0..BanDuration]
    BY <1>1, <1>5 DEF RateInv, RLTypeOK
  <1>8. pending' \in [IPs -> 0..MaxPending]
    BY RateLeft DEF WrongPassword
  <1>9. UNCHANGED <<conns, at, client>>
    BY DEF WrongPassword
  <1> QED
    BY <1>6, <1>7, <1>8, <1>9 DEF RateInv, Tables, RLTypeOK

LEMMA RateLeave ==
  ASSUME RateInv, NEW i \in IPs, Leave(i)
  PROVE  RateInv'
  BY RateLeft DEF Leave, RateInv, Tables, RLTypeOK

LEMMA RateTick ==
  ASSUME RateInv, Tick
  PROVE  RateInv'
  <1>1. /\ MaxConn \in Nat /\ MaxFails \in Nat
        /\ Second \in Nat /\ Minute \in Nat /\ BanDuration \in Nat
    BY RateAssumption
  <1>2. ASSUME NEW i \in IPs
        PROVE  /\ [conns[i] EXCEPT !.age = Capped(@ + 1, Second)]
                    \in [count : 0..(MaxConn + 1), age : 0..Second]
               /\ [fails[i] EXCEPT !.age = Capped(@ + 1, Minute)]
                    \in [count : 0..(MaxFails + 1), age : 0..Minute]
    <2>1. /\ conns[i] \in [count : 0..(MaxConn + 1), age : 0..Second]
          /\ fails[i] \in [count : 0..(MaxFails + 1), age : 0..Minute]
      BY DEF RateInv, Tables
    <2>2. /\ Capped(conns[i].age + 1, Second) \in 0..Second
          /\ Capped(fails[i].age + 1, Minute) \in 0..Minute
      <3>1. conns[i].age + 1 \in Nat /\ fails[i].age + 1 \in Nat
        BY <1>1, <2>1
      <3> QED
        BY <1>1, <3>1, CapLimits
    <2> QED
      BY <2>1, <2>2
  <1>3. /\ conns' \in [IPs -> [count : 0..(MaxConn + 1), age : 0..Second]]
        /\ fails' \in [IPs -> [count : 0..(MaxFails + 1), age : 0..Minute]]
    BY <1>2 DEF Tick
  <1>4. ban' \in [IPs -> 0..BanDuration]
    BY <1>1 DEF Tick, RateInv, RLTypeOK
  <1>5. conns'[client].count = conns[client].count
    BY DEF Tick, RateInv, Tables
  <1>6. UNCHANGED <<at, client, pending>>
    BY DEF Tick
  <1> QED
    BY <1>3, <1>4, <1>5, <1>6 DEF RateInv, Tables, RLTypeOK

\* Every step keeps the records in their ranges.
LEMMA RateStep == ASSUME RateInv, [Next]_vars
                  PROVE  RateInv'
  <1>1. ASSUME UNCHANGED vars
        PROVE  RateInv'
    BY <1>1 DEF vars, RateInv, Tables, RLTypeOK
  <1> QED
    BY <1>1, RateAccept, RateAdmit, RateAuth, RateWrong, RateLeave, RateTick DEF Next

\* Every connection that request_admit sees was counted, and no window, count or
\* ban leaves its range, however long the gateway runs.
THEOREM RateTypes == Spec => []RLTypeOK
  <1>1. RateInv /\ [Next]_vars => RateInv'
    BY RateStep
  <1>2. RateInv => RLTypeOK
    BY DEF RateInv
  <1> QED
    BY RateInit, <1>1, <1>2, PTL DEF Spec

-----------------------------------------------------------------------------
(* Who is refused for guessing is banned: check_auth_rate's second test, the *)
(* full window of failures, turns nobody away whom the ban would let in.     *)

RefusedIsBanned ==
  BanDuration >= Minute => \A i \in IPs : ~check_auth_rate(i) => ban[i] > 0

\* The ban of a full window lasts at least as long as the window.
BanOutlasts ==
  BanDuration >= Minute =>
    \A i \in IPs : fails[i].age < Minute /\ fails[i].count >= MaxFails
                    => ban[i] + fails[i].age >= Minute

BanInv == RateInv /\ BanOutlasts

LEMMA OutlastsInit == Init => BanOutlasts
  BY RateAssumption DEF Init, BanOutlasts

LEMMA OutlastsWrong ==
  ASSUME BanInv, NEW i \in IPs, WrongPassword(i)
  PROVE  BanOutlasts'
  <1> DEFINE count == IF fails[i].age >= Minute THEN 1
                      ELSE Capped(fails[i].count + 1, MaxFails + 1)
             age == IF fails[i].age >= Minute THEN 0 ELSE fails[i].age
  <1>1. MaxFails \in Nat \ {0} /\ Minute \in Nat \ {0} /\ BanDuration \in Nat
    BY RateAssumption
  <1>2. /\ fails' = [fails EXCEPT ![i] = [count |-> count, age |-> age]]
        /\ ban' = IF count >= MaxFails THEN [ban EXCEPT ![i] = BanDuration] ELSE ban
    BY DEF WrongPassword, record_auth_failure, banned_now
  <1>3. age \in Nat
    BY <1>1 DEF BanInv, RateInv, Tables
  <1> HIDE DEF count, age
  <1>4. /\ fails'[i] = [count |-> count, age |-> age]
        /\ \A j \in IPs \ {i} : fails'[j] = fails[j]
    BY <1>2 DEF BanInv, RateInv, Tables
  <1>5. /\ count >= MaxFails => ban'[i] = BanDuration
        /\ \A j \in IPs \ {i} : ban'[j] = ban[j]
    BY <1>2 DEF BanInv, RateInv, RLTypeOK
  <1> QED
    BY <1>1, <1>3, <1>4, <1>5 DEF BanInv, BanOutlasts

LEMMA OutlastsTick ==
  ASSUME BanInv, Tick
  PROVE  BanOutlasts'
  <1>1. Minute \in Nat /\ BanDuration \in Nat /\ MaxFails \in Nat
    BY RateAssumption
  <1> SUFFICES ASSUME BanDuration >= Minute, NEW i \in IPs,
                      fails'[i].age < Minute, fails'[i].count >= MaxFails
               PROVE  ban'[i] + fails'[i].age >= Minute
    BY DEF BanOutlasts
  <1>2. fails[i].age \in Nat /\ fails[i].count \in Nat /\ ban[i] \in Nat
    BY <1>1 DEF BanInv, RateInv, Tables, RLTypeOK
  <1>3. /\ fails'[i].age = Capped(fails[i].age + 1, Minute)
        /\ fails'[i].count = fails[i].count
        /\ ban'[i] = IF ban[i] > 0 THEN ban[i] - 1 ELSE 0
    BY DEF Tick, BanInv, RateInv, Tables
  <1>4. fails[i].age + 1 < Minute /\ fails'[i].age = fails[i].age + 1
    BY <1>1, <1>2, <1>3 DEF Capped
  <1>5. ban[i] + fails[i].age >= Minute
    BY <1>1, <1>2, <1>3, <1>4 DEF BanInv, BanOutlasts
  <1> QED
    BY <1>1, <1>2, <1>3, <1>4, <1>5

\* With the shipped durations nobody is kept out by old failures alone once the
\* ban is over, however windows and bans cross.
THEOREM RefusedAreBanned == Spec => []RefusedIsBanned
  <1>1. BanInv /\ [Next]_vars => BanInv'
    <2> SUFFICES ASSUME BanInv, [Next]_vars
                 PROVE  BanInv'
      OBVIOUS
    <2>1. RateInv'
      BY RateStep DEF BanInv
    <2>2. ASSUME fails' = fails, ban' = ban
          PROVE  BanOutlasts'
      BY <2>2 DEF BanInv, BanOutlasts
    <2>3. CASE UNCHANGED vars
      BY <2>1, <2>2, <2>3 DEF BanInv, vars
    <2>4. CASE \E i \in IPs : Accept(i) \/ Leave(i)
      BY <2>1, <2>2, <2>4 DEF BanInv, Accept, Leave
    <2>5. CASE AdmitRate \/ AdmitAuth \/ TurnAway
      BY <2>1, <2>2, <2>5 DEF BanInv, AdmitRate, AdmitAuth, LetIn, TurnAway
    <2> QED
      BY <2>1, <2>3, <2>4, <2>5, OutlastsWrong, OutlastsTick DEF Next, BanInv
  <1>2. BanInv => RefusedIsBanned
    <2> SUFFICES ASSUME BanInv, BanDuration >= Minute, NEW i \in IPs, ~check_auth_rate(i)
                 PROVE  ban[i] > 0
      BY DEF RefusedIsBanned
    <2>1. /\ Minute \in Nat /\ MaxFails \in Nat /\ fails[i].age \in Nat
          /\ fails[i].count \in Nat /\ ban[i] \in Nat
      BY RateAssumption DEF BanInv, RateInv, Tables, RLTypeOK
    <2> QED
      BY <2>1 DEF check_auth_rate, BanInv, BanOutlasts
  <1>3. Init => BanInv
    BY RateInit, OutlastsInit DEF BanInv
  <1> QED
    BY <1>1, <1>2, <1>3, PTL DEF Spec

-----------------------------------------------------------------------------
(* Sums over the last ticks                                                  *)

\* What happened at each of the last n ticks.
Logs(n) == [0..(n - 1) -> Nat]

\* The recursion of Recent.
LEMMA RecentSum ==
  ASSUME NEW n \in Nat \ {0}, NEW log \in Logs(n)
  PROVE  /\ Recent(log, 0) = 0
         /\ \A m \in 1..n : /\ Recent(log, m - 1) \in Nat /\ Recent(log, m) \in Nat
                            /\ Recent(log, m) = Recent(log, m - 1) + log[m - 1]
<1> DEFINE D == {0} \cup {a + 1 : a \in DOMAIN log}
<1> DEFINE Rec(f) == [k \in D |-> IF k = 0 THEN 0 ELSE f[k - 1] + log[k - 1]]
<1> DEFINE g == CHOOSE f : f = Rec(f)
<1> DEFINE e == [k \in 1..n |-> [x \in Nat |-> x + log[k - 1]]]
<1>1. D = 0..n
  <2>1. DOMAIN log = 0..(n - 1)
    BY DEF Logs
  <2>2. D = {0} \cup {a + 1 : a \in 0..(n - 1)}
    BY <2>1
  <2>3. ASSUME NEW k \in 0..n PROVE k \in D
    <3>1. CASE k = 0 BY <2>2, <3>1
    <3>2. CASE k # 0
      <4>1. k - 1 \in 0..(n - 1) /\ k = (k - 1) + 1
        BY <3>2
      <4> QED BY <2>2, <4>1
    <3> QED BY <3>1, <3>2
  <2>4. ASSUME NEW k \in D PROVE k \in 0..n
    <3> HIDE DEF D
    <3>1. k = 0 \/ \E a \in 0..(n - 1) : k = a + 1
      BY <2>2
    <3> QED BY <3>1
  <2> HIDE DEF D
  <2> QED BY <2>3, <2>4
<1>2. \A k \in 1..n : log[k - 1] \in Nat
  BY DEF Logs
<1>3. \A k \in 1..n : \A x \in Nat : e[k][x] = x + log[k - 1] /\ e[k][x] \in Nat
  BY <1>2
<1>4. PICK f \in [0..n -> Nat] : StartsAndSteps(f, n, 0, e)
  <2> HIDE DEF e
  <2> QED BY <1>3, RecursionExists
<1>5. f = Rec(f)
  <2>1. \A k \in 1..n : f[k] = f[k - 1] + log[k - 1]
    <3> SUFFICES ASSUME NEW k \in 1..n PROVE f[k] = f[k - 1] + log[k - 1]
      OBVIOUS
    <3>1. k - 1 \in 0..n
      OBVIOUS
    <3>2. f[k - 1] \in Nat
      BY <1>4, <3>1
    <3>3. f[k] = e[k][f[k - 1]]
      BY <1>4 DEF StartsAndSteps
    <3> HIDE DEF e
    <3> QED BY <1>3, <3>2, <3>3
  <2>2. f[0] = 0
    BY <1>4 DEF StartsAndSteps
  <2> HIDE DEF D
  <2> QED BY <1>1, <2>1, <2>2
<1>6. g = Rec(g)
  <2> HIDE DEF Rec
  <2> QED BY <1>5
<1>7. \A m : Recent(log, m) = g[m]
  BY DEF Recent
<1> HIDE DEF D
<1>8. \A k \in 0..n : g[k] = IF k = 0 THEN 0 ELSE g[k - 1] + log[k - 1]
  <2> HIDE DEF g
  <2> QED BY <1>1, <1>6
<1> HIDE DEF g
<1> DEFINE S == [k \in 0..n |-> Nat]
<1>9. \A k \in 0..n : g[k] \in Nat
  <2>1. \A k \in 0..n : g[k] \in S[k]
    <3>1. g[0] \in S[0]
      BY <1>8
    <3>2. ASSUME NEW k \in 1..n, g[k - 1] \in S[k - 1] PROVE g[k] \in S[k]
      <4>1. k \in 0..n /\ k - 1 \in 0..n /\ k # 0
        OBVIOUS
      <4>2. g[k - 1] \in Nat
        BY <3>2, <4>1
      <4>3. g[k] = g[k - 1] + log[k - 1] /\ log[k - 1] \in Nat
        BY <1>2, <1>8, <4>1
      <4> QED BY <4>1, <4>2, <4>3
    <3> HIDE DEF S
    <3> QED BY <3>1, <3>2, StaysIn
  <2> QED BY <2>1
<1> HIDE DEF S
<1>10. ASSUME NEW m \in 1..n
       PROVE  g[m - 1] \in Nat /\ g[m] \in Nat /\ g[m] = g[m - 1] + log[m - 1]
  <2>1. m \in 0..n /\ m - 1 \in 0..n /\ m # 0
    OBVIOUS
  <2> QED BY <1>8, <1>9, <2>1
<1>11. g[0] = 0
  BY <1>8
<1> QED
  BY <1>7, <1>10, <1>11

LEMMA RecentIsNat ==
  ASSUME NEW n \in Nat \ {0}, NEW log \in Logs(n), NEW m \in 0..n
  PROVE  Recent(log, m) \in Nat
<1>1. CASE m = 0 BY <1>1, RecentSum
<1>2. CASE m # 0
  <2>1. m \in 1..n BY <1>2
  <2> QED BY <2>1, RecentSum
<1> QED BY <1>1, <1>2

\* More ticks hold more.
LEMMA RecentGrows ==
  ASSUME NEW n \in Nat \ {0}, NEW log \in Logs(n), NEW m \in 0..n, NEW k \in 0..m
  PROVE  Recent(log, k) <= Recent(log, m)
<1> DEFINE X == {j \in Nat : k <= j /\ j <= n => Recent(log, k) <= Recent(log, j)}
<1>1. 0 \in X
  <2>1. Recent(log, 0) \in Nat
    BY RecentIsNat
  <2> QED BY <2>1
<1>2. ASSUME NEW j \in X PROVE j + 1 \in X
  <2> SUFFICES ASSUME k <= j + 1, j + 1 <= n PROVE Recent(log, k) <= Recent(log, j + 1)
    OBVIOUS
  <2>1. CASE k = j + 1
    <3>1. Recent(log, k) \in Nat
      BY RecentIsNat
    <3> QED BY <2>1, <3>1
  <2>2. CASE k <= j
    <3>1. j + 1 \in 1..n /\ (j + 1) - 1 = j /\ log[j] \in Nat
      BY DEF Logs
    <3>2. Recent(log, j) \in Nat /\ Recent(log, j + 1) = Recent(log, j) + log[j]
      BY <3>1, RecentSum
    <3>3. Recent(log, k) <= Recent(log, j) /\ Recent(log, k) \in Nat
      BY <2>2, RecentIsNat
    <3> QED BY <3>1, <3>2, <3>3
  <2> QED BY <2>1, <2>2
<1>3. X = Nat
  <2> HIDE DEF X
  <2> QED BY <1>1, <1>2, SetInduction DEF X
<1> QED
  <2>1. m \in X
    <3> HIDE DEF X
    <3> QED BY <1>3
  <2> QED BY <2>1

\* A tick: what was of the last m ticks is of the last m + 1.
LEMMA OlderRecent ==
  ASSUME NEW n \in Nat \ {0}, NEW log \in Logs(n), NEW m \in 0..(n - 1)
  PROVE  Older(log) \in Logs(n) /\ Recent(Older(log), m + 1) = Recent(log, m)
<1> DEFINE old == Older(log)
<1>1. old \in Logs(n) /\ old[0] = 0 /\ \A a \in 1..(n - 1) : old[a] = log[a - 1]
  BY DEF Older, Logs
<1> HIDE DEF old
<1> DEFINE X == {k \in Nat : k <= n - 1 => Recent(old, k + 1) = Recent(log, k)}
<1>2. 0 \in X
  <2>1. 1 \in 1..n /\ 1 - 1 = 0
    OBVIOUS
  <2>2. Recent(old, 1) = Recent(old, 0) + old[0] /\ Recent(old, 0) = 0 /\ Recent(log, 0) = 0
    BY <1>1, <2>1, RecentSum
  <2> QED BY <1>1, <2>2
<1>3. ASSUME NEW k \in X PROVE k + 1 \in X
  <2> SUFFICES ASSUME k + 1 <= n - 1 PROVE Recent(old, (k + 1) + 1) = Recent(log, k + 1)
    OBVIOUS
  <2>1. /\ k + 1 \in 1..n /\ (k + 1) - 1 = k
        /\ (k + 1) + 1 \in 1..n /\ ((k + 1) + 1) - 1 = k + 1 /\ k + 1 \in 1..(n - 1)
    OBVIOUS
  <2>2. Recent(log, k + 1) = Recent(log, k) + log[k]
    BY <2>1, RecentSum
  <2>3. Recent(old, (k + 1) + 1) = Recent(old, k + 1) + old[k + 1]
    BY <1>1, <2>1, RecentSum
  <2>4. Recent(old, k + 1) = Recent(log, k) /\ old[k + 1] = log[k]
    BY <1>1, <2>1
  <2> QED BY <2>2, <2>3, <2>4
<1>4. X = Nat
  <2> HIDE DEF X
  <2> QED BY <1>2, <1>3, SetInduction DEF X
<1>5. Recent(old, m + 1) = Recent(log, m)
  <2>1. m \in X
    <3> HIDE DEF X
    <3> QED BY <1>4
  <2> QED BY <2>1
<1> QED BY <1>1, <1>5 DEF old

\* What happens now is of the last ticks, however few of them.
LEMMA NowRecent ==
  ASSUME NEW n \in Nat \ {0}, NEW log \in Logs(n), NEW x \in Nat, x <= log[0] + 1, NEW m \in 0..n
  PROVE  /\ [log EXCEPT ![0] = x] \in Logs(n)
         /\ Recent([log EXCEPT ![0] = x], m) <= Recent(log, m) + 1
<1> DEFINE now == [log EXCEPT ![0] = x]
<1>1. now \in Logs(n) /\ now[0] = x /\ \A a \in 1..(n - 1) : now[a] = log[a]
  BY DEF Logs
<1>0. log[0] \in Nat
  BY DEF Logs
<1> HIDE DEF now
<1> DEFINE X == {k \in Nat : k <= n => Recent(now, k) <= Recent(log, k) + 1}
<1>2. 0 \in X
  <2>1. Recent(now, 0) = 0 /\ Recent(log, 0) = 0
    BY <1>1, RecentSum
  <2> QED BY <2>1
<1>3. ASSUME NEW k \in X PROVE k + 1 \in X
  <2> SUFFICES ASSUME k + 1 <= n PROVE Recent(now, k + 1) <= Recent(log, k + 1) + 1
    OBVIOUS
  <2>1. k + 1 \in 1..n /\ (k + 1) - 1 = k /\ k \in 0..(n - 1)
    OBVIOUS
  <2>2. /\ Recent(log, k + 1) = Recent(log, k) + log[k] /\ Recent(log, k) \in Nat
        /\ Recent(now, k + 1) = Recent(now, k) + now[k] /\ Recent(now, k) \in Nat
    BY <1>1, <2>1, RecentSum
  <2>3. CASE k = 0
    <3>1. Recent(now, 0) = 0 /\ Recent(log, 0) = 0
      BY <1>1, RecentSum
    <3> QED BY <1>0, <1>1, <2>2, <2>3, <3>1
  <2>4. CASE k # 0
    <3>1. now[k] = log[k] /\ log[k] \in Nat
      BY <1>1, <2>1, <2>4 DEF Logs
    <3> QED BY <2>1, <2>2, <3>1
  <2> QED BY <2>3, <2>4
<1>4. X = Nat
  <2> HIDE DEF X
  <2> QED BY <1>2, <1>3, SetInduction DEF X
<1>5. Recent(now, m) <= Recent(log, m) + 1
  <2>1. m \in X
    <3> HIDE DEF X
    <3> QED BY <1>4
  <2> QED BY <2>1
<1> QED BY <1>1, <1>5 DEF now

\* A log without entries.
LEMMA NothingRecent ==
  ASSUME NEW n \in Nat \ {0}, NEW m \in 0..n
  PROVE  /\ [a \in 0..(n - 1) |-> 0] \in Logs(n)
         /\ Recent([a \in 0..(n - 1) |-> 0], m) = 0
<1> DEFINE log == [a \in 0..(n - 1) |-> 0]
<1>1. log \in Logs(n) /\ \A a \in 0..(n - 1) : log[a] = 0
  BY DEF Logs
<1> HIDE DEF log
<1> DEFINE X == {k \in Nat : k <= n => Recent(log, k) = 0}
<1>2. 0 \in X
  <2>1. Recent(log, 0) = 0
    BY <1>1, RecentSum
  <2> QED BY <2>1
<1>3. ASSUME NEW k \in X PROVE k + 1 \in X
  <2> SUFFICES ASSUME k + 1 <= n PROVE Recent(log, k + 1) = 0
    OBVIOUS
  <2>1. k + 1 \in 1..n /\ (k + 1) - 1 = k /\ k \in 0..(n - 1) /\ Recent(log, k) = 0
    OBVIOUS
  <2>2. Recent(log, k + 1) = Recent(log, k) + log[k]
    BY <1>1, <2>1, RecentSum
  <2> QED BY <1>1, <2>1, <2>2
<1>4. X = Nat
  <2> HIDE DEF X
  <2> QED BY <1>2, <1>3, SetInduction DEF X
<1>5. Recent(log, m) = 0
  <2>1. m \in X
    <3> HIDE DEF X
    <3> QED BY <1>4
  <2> QED BY <2>1
<1> QED BY <1>1, <1>5 DEF log

\* A tick later no more is of a window that has grown by at most that tick.
LEMMA OlderNoMore ==
  ASSUME NEW n \in Nat \ {0}, NEW log \in Logs(n), NEW m \in 0..n, NEW k \in 0..n, k \in {m, m + 1}
  PROVE  Recent(Older(log), k) <= Recent(log, m)
<1>1. Recent(log, m) \in Nat
  BY RecentIsNat
<1>2. CASE k = 0
  <2>1. 0 \in 0..(n - 1)
    OBVIOUS
  <2>2. Older(log) \in Logs(n)
    BY <2>1, OlderRecent
  <2>3. Recent(Older(log), 0) = 0
    BY <2>2, RecentSum
  <2> QED BY <1>1, <1>2, <2>3
<1>3. CASE k # 0
  <2>1. k - 1 \in 0..(n - 1) /\ k - 1 \in 0..m /\ (k - 1) + 1 = k
    BY <1>3
  <2>2. Recent(Older(log), k) = Recent(log, k - 1)
    BY <2>1, OlderRecent
  <2>3. Recent(log, k - 1) <= Recent(log, m)
    BY <2>1, RecentGrows
  <2> QED BY <2>2, <2>3
<1> QED BY <1>2, <1>3

-----------------------------------------------------------------------------
(* Connections let in *)

\* The connections of a full window, of which each is counted twice.
Half == (MaxConn + 1) \div 2

\* Of a window in which that many may still have been let in before its age:
\* no more were, and none of the second before it were more than a half.
Fits(log, age, quota) ==
  /\ log \in Logs(Second) /\ quota \in 0..Half
  /\ Recent(log, age) <= quota
  /\ Recent(log, Second) <= Half + quota

LEMMA HalfIsNat == Half \in Nat /\ 2 * Half <= MaxConn + 1 /\ MaxConn <= 2 * Half
  BY RateAssumption DEF Half

LEMMA FitsMore ==
  ASSUME NEW log, NEW age \in 0..Second, NEW q, Fits(log, age, q), NEW more \in 0..Half, q <= more
  PROVE  Fits(log, age, more)
<1>1. Second \in Nat \ {0} /\ Half \in Nat
  BY RateAssumption, HalfIsNat
<1>2. log \in Logs(Second) /\ Second \in 0..Second
  BY <1>1 DEF Fits
<1>3. Recent(log, age) \in Nat /\ Recent(log, Second) \in Nat
  BY <1>1, <1>2, RecentIsNat
<1> QED BY <1>1, <1>2, <1>3 DEF Fits

\* The window is over: all of the last second was of it.
LEMMA FitsNew ==
  ASSUME NEW log, NEW q, Fits(log, Second, q), NEW first \in 0..Half
  PROVE  Fits(log, 0, first)
<1>1. Second \in Nat \ {0} /\ Half \in Nat
  BY RateAssumption, HalfIsNat
<1>2. log \in Logs(Second) /\ Second \in 0..Second
  BY <1>1 DEF Fits
<1>3. Recent(log, 0) = 0 /\ Recent(log, Second) \in Nat
  BY <1>1, <1>2, RecentIsNat, RecentSum
<1> QED BY <1>1, <1>2, <1>3 DEF Fits

LEMMA FitsNow ==
  ASSUME NEW log, NEW age \in 0..Second, NEW q, Fits(log, age, q), q + 1 <= Half,
         NEW x \in Nat, x <= log[0] + 1
  PROVE  Fits([log EXCEPT ![0] = x], age, q + 1)
<1> DEFINE now == [log EXCEPT ![0] = x]
<1>1. Second \in Nat \ {0} /\ Half \in Nat
  BY RateAssumption, HalfIsNat
<1>2. log \in Logs(Second) /\ Second \in 0..Second
  BY <1>1 DEF Fits
<1>3. /\ now \in Logs(Second)
      /\ Recent(now, age) <= Recent(log, age) + 1
      /\ Recent(now, Second) <= Recent(log, Second) + 1
  BY <1>1, <1>2, NowRecent
<1> HIDE DEF now
<1>4. /\ Recent(log, age) \in Nat /\ Recent(log, Second) \in Nat
      /\ Recent(now, age) \in Nat /\ Recent(now, Second) \in Nat
  BY <1>1, <1>2, <1>3, RecentIsNat
<1>5. Fits(now, age, q + 1)
  BY <1>1, <1>2, <1>3, <1>4 DEF Fits
<1> QED BY <1>5 DEF now

LEMMA FitsOlder ==
  ASSUME NEW log, NEW age \in 0..Second, NEW q, Fits(log, age, q)
  PROVE  Fits(Older(log), Capped(age + 1, Second), q)
<1>1. Second \in Nat \ {0} /\ Half \in Nat
  BY RateAssumption, HalfIsNat
<1>2. log \in Logs(Second) /\ Second \in 0..Second /\ 0 \in 0..(Second - 1)
  BY <1>1 DEF Fits
<1> DEFINE older == Capped(age + 1, Second)
<1>3. older \in 0..Second /\ older \in {age, age + 1}
  BY <1>1 DEF Capped
<1> HIDE DEF older
<1>4. Older(log) \in Logs(Second)
  BY <1>1, <1>2, OlderRecent
<1>5. /\ Recent(Older(log), older) <= Recent(log, age)
      /\ Recent(Older(log), Second) <= Recent(log, Second)
  BY <1>1, <1>2, <1>3, OlderNoMore
<1>6. /\ Recent(log, age) \in Nat /\ Recent(log, Second) \in Nat
      /\ Recent(Older(log), older) \in Nat /\ Recent(Older(log), Second) \in Nat
  BY <1>1, <1>2, <1>3, <1>4, RecentIsNat
<1>7. Fits(Older(log), older, q)
  BY <1>1, <1>4, <1>5, <1>6 DEF Fits
<1> QED BY <1>7 DEF older

-----------------------------------------------------------------------------
(* Wrong passwords *)

\* How many of the last ticks a ban that lasts b more does not cover.
Since(b) == IF b <= Minute THEN Minute - b ELSE 0

Lesser(a, b) == IF a < b THEN a ELSE b

\* As long as the window is not full it holds all failures that are younger than
\* itself, and fewer than a full one are older; a full one left none unbanned.
Watched(log, age, count, b) ==
  /\ log \in Logs(Minute)
  /\ count < MaxFails => /\ Recent(log, Lesser(age, Since(b))) <= count
                         /\ Recent(log, Since(b)) <= (MaxFails - 1) + count
  /\ count >= MaxFails => Recent(log, Since(b)) = 0

LEMMA SinceRange ==
  ASSUME NEW b \in Nat, NEW age \in 0..Minute
  PROVE  Since(b) \in 0..Minute /\ Lesser(age, Since(b)) \in 0..Minute
  BY RateAssumption DEF Since, Lesser

LEMMA WatchedOlder ==
  ASSUME NEW log, NEW age \in 0..Minute, NEW count \in Nat, NEW b \in Nat, Watched(log, age, count, b)
  PROVE  Watched(Older(log), Capped(age + 1, Minute), count, IF b > 0 THEN b - 1 ELSE 0)
<1> DEFINE less == IF b > 0 THEN b - 1 ELSE 0
           older == Capped(age + 1, Minute)
           m == Since(b)
           k == Since(less)
           mw == Lesser(age, m)
           kw == Lesser(older, k)
<1>1. Minute \in Nat \ {0} /\ MaxFails \in Nat \ {0} /\ 0 \in 0..(Minute - 1)
  BY RateAssumption
<1>2. older \in 0..Minute /\ less \in Nat
  BY <1>1 DEF Capped
<1>3. /\ m \in 0..Minute /\ k \in 0..Minute /\ k \in {m, m + 1}
      /\ mw \in 0..Minute /\ kw \in 0..Minute /\ kw \in {mw, mw + 1}
  BY <1>1 DEF Since, Lesser, Capped
<1> HIDE DEF less, older, m, k, mw, kw
<1>4. log \in Logs(Minute)
  BY DEF Watched
<1>5. Older(log) \in Logs(Minute)
  BY <1>1, <1>4, OlderRecent
<1>6. Recent(Older(log), k) <= Recent(log, m) /\ Recent(Older(log), kw) <= Recent(log, mw)
  BY <1>1, <1>3, <1>4, OlderNoMore
<1>7. /\ Recent(log, m) \in Nat /\ Recent(log, mw) \in Nat
      /\ Recent(Older(log), k) \in Nat /\ Recent(Older(log), kw) \in Nat
  BY <1>1, <1>3, <1>4, <1>5, RecentIsNat
<1>8. /\ count < MaxFails => Recent(log, mw) <= count /\ Recent(log, m) <= (MaxFails - 1) + count
      /\ count >= MaxFails => Recent(log, m) = 0
  BY DEF Watched, m, mw
<1>9. /\ count < MaxFails => Recent(Older(log), kw) <= count
                             /\ Recent(Older(log), k) <= (MaxFails - 1) + count
      /\ count >= MaxFails => Recent(Older(log), k) = 0
  BY <1>1, <1>6, <1>7, <1>8
<1>10. Watched(Older(log), older, count, less)
  BY <1>5, <1>9 DEF Watched, k, kw
<1> QED BY <1>10 DEF older, less

\* One more failure, which opens a window or counts in the one that is open.
LEMMA WatchedNow ==
  ASSUME NEW log, NEW age \in 0..Minute, NEW count \in Nat, NEW b \in Nat, Watched(log, age, count, b),
         NEW x \in Nat, x <= log[0] + 1, BanDuration >= Minute,
         NEW window \in 0..Minute, NEW counts \in Nat, NEW bars \in Nat,
         \/ age >= Minute /\ window = 0 /\ counts = 1
         \/ age < Minute /\ window = age /\ counts = Capped(count + 1, MaxFails + 1),
         bars = IF counts >= MaxFails THEN BanDuration ELSE b
  PROVE  Watched([log EXCEPT ![0] = x], window, counts, bars)
<1> DEFINE now == [log EXCEPT ![0] = x]
           m == Since(b)
           mw == Lesser(age, m)
           kw == Lesser(window, m)
<1>1. Minute \in Nat \ {0} /\ MaxFails \in Nat \ {0} /\ BanDuration \in Nat
  BY RateAssumption
<1>2. log \in Logs(Minute)
  BY DEF Watched
<1>3. m \in 0..Minute /\ mw \in 0..Minute /\ kw \in 0..Minute
  BY SinceRange
<1>4. now \in Logs(Minute)
  BY <1>1, <1>2, <1>3, NowRecent
<1>5. Recent(now, m) <= Recent(log, m) + 1 /\ Recent(now, kw) <= Recent(log, kw) + 1
  BY <1>1, <1>2, <1>3, NowRecent
<1>6. /\ age >= Minute => mw = m /\ kw \in {0, m} /\ (window = 0 => kw = 0)
      /\ window = age => kw = mw
  BY <1>1, <1>3 DEF Lesser
<1> HIDE DEF now, m, mw, kw
<1>7. /\ Recent(log, m) \in Nat /\ Recent(log, mw) \in Nat /\ Recent(log, kw) \in Nat
      /\ Recent(now, m) \in Nat /\ Recent(now, kw) \in Nat /\ Recent(now, 0) = 0
  BY <1>1, <1>2, <1>3, <1>4, RecentIsNat, RecentSum
<1>8. /\ count < MaxFails => Recent(log, mw) <= count /\ Recent(log, m) <= (MaxFails - 1) + count
      /\ count >= MaxFails => Recent(log, m) = 0
  BY DEF Watched, m, mw
<1>9. CASE counts >= MaxFails
  <2>1. Since(bars) = 0
    BY <1>1, <1>9 DEF Since
  <2>2. Watched(now, window, counts, bars)
    BY <1>1, <1>4, <1>7, <1>9, <2>1 DEF Watched
  <2> QED BY <2>2 DEF now
<1>10. CASE counts < MaxFails
  <2>1. bars = b
    BY <1>1, <1>10
  <2>2. Recent(now, kw) <= counts /\ Recent(now, m) <= (MaxFails - 1) + counts
    <3>1. CASE age >= Minute /\ window = 0 /\ counts = 1
      BY <1>1, <1>5, <1>6, <1>7, <1>8, <3>1
    <3>2. CASE age < Minute /\ window = age /\ counts = Capped(count + 1, MaxFails + 1)
      <4>1. counts = count + 1
        BY <1>1, <1>10, <3>2 DEF Capped
      <4> QED BY <1>1, <1>5, <1>6, <1>7, <1>8, <1>10, <3>2, <4>1
    <3> QED BY <3>1, <3>2
  <2>3. ~(counts >= MaxFails)
    BY <1>1, <1>10
  <2>4. Watched(now, window, counts, bars)
    BY <1>4, <2>1, <2>2, <2>3 DEF Watched, m, kw
  <2> QED BY <2>4 DEF now
<1> QED BY <1>1, <1>9, <1>10

-----------------------------------------------------------------------------
(* Both along the steps *)

\* How many of the window's connections can have been let in: of two counts one
\* connection, and not the one that is still on its way.
Quota(i) ==
  IF client # i \/ at = "idle" THEN Capped((conns[i].count + 1) \div 2, Half)
  ELSE IF at = "started" THEN conns[i].count \div 2
  ELSE (conns[i].count - 1) \div 2

Paced ==
  /\ at # "idle" => conns[client].count <= MaxConn
  /\ let_in \in [IPs -> Logs(Second)]
  /\ \A i \in IPs : Fits(let_in[i], conns[i].age, Quota(i))

LetInInv == RateInv /\ Paced

LEMMA QuotaRange ==
  ASSUME LetInInv, NEW i \in IPs
  PROVE  Quota(i) \in 0..Half
  BY DEF LetInInv, Paced, Fits

LEMMA PacedInit == Init => Paced
<1> SUFFICES ASSUME Init PROVE Paced
  OBVIOUS
<1>1. Second \in Nat \ {0} /\ Half \in Nat
  BY RateAssumption, HalfIsNat
<1> DEFINE none == [a \in 0..(Second - 1) |-> 0]
<1>2. Second \in 0..Second /\ none \in Logs(Second) /\ Recent(none, Second) = 0
  BY <1>1, NothingRecent
<1>3. at = "idle" /\ let_in = [i \in IPs |-> none] /\ \A i \in IPs : conns[i].count = 0 /\ conns[i].age = Second
  BY DEF Init
<1> HIDE DEF none
<1>4. \A i \in IPs : Quota(i) = 0
  <2>1. (0 + 1) \div 2 = 0 /\ Capped(0, Half) = 0
    BY <1>1 DEF Capped
  <2>2. \A i \in IPs : conns[i].count = 0
    BY <1>3
  <2>3. \A i \in IPs : Quota(i) = Capped((0 + 1) \div 2, Half)
    BY <1>3, <2>2 DEF Quota
  <2> QED BY <2>1, <2>3
<1>5. Fits(none, Second, 0)
  BY <1>1, <1>2 DEF Fits
<1> QED BY <1>2, <1>3, <1>4, <1>5 DEF Paced

\* Either of the two counts.
LEMMA PacedCount ==
  ASSUME LetInInv, NEW i \in IPs, CountConnection(i), client' = i, let_in' = let_in,
         \/ at = "idle" /\ at' \in {"idle", "started"}
         \/ at = "started" /\ client = i /\ at' \in {"idle", "rated"},
         at' # "idle" => conns[i].age >= Second \/ conns'[i].count <= MaxConn
  PROVE  Paced'
<1> DEFINE c == conns[i].count
           d == conns'[i].count
<1>1. Second \in Nat \ {0} /\ MaxConn \in Nat \ {0}
  BY RateAssumption
<1>2. Half \in Nat /\ 2 * Half <= MaxConn + 1 /\ MaxConn <= 2 * Half
  BY HalfIsNat
<1>3. conns \in [IPs -> [count : 0..(MaxConn + 1), age : 0..Second]] /\ client \in IPs
  BY DEF LetInInv, RateInv, Tables
<1>4. conns'[i] = counted(conns[i]) /\ \A j \in IPs \ {i} : conns'[j] = conns[j]
  BY <1>3 DEF CountConnection
<1>5. c \in 0..(MaxConn + 1) /\ conns[i].age \in 0..Second
  BY <1>3
<1>6. at # "idle" => client = i /\ c <= MaxConn
  BY DEF LetInInv, Paced
<1>7. \A j \in IPs : Fits(let_in[j], conns[j].age, Quota(j))
  BY DEF LetInInv, Paced
<1>8. ASSUME NEW j \in IPs \ {i} PROVE Fits(let_in[j], conns'[j].age, Quota(j)')
  <2>1. Quota(j)' = Quota(j)
    BY <1>4 DEF Quota
  <2> QED BY <1>4, <1>7, <2>1
<1>9. /\ Fits(let_in[i], conns'[i].age, Quota(i)')
      /\ at' # "idle" => d <= MaxConn
  <2>1. CASE conns[i].age >= Second
    <3>1. conns[i].age = Second /\ d = 1 /\ conns'[i].age = 0
      BY <1>1, <1>4, <1>5, <2>1 DEF counted
    <3>2. Quota(i)' \in 0..Half
      <4>1. (d + 1) \div 2 = 1 /\ d \div 2 = 0 /\ (d - 1) \div 2 = 0
        BY <3>1
      <4> HIDE DEF d
      <4>2. Quota(i)' \in {Capped(1, Half), 0}
        BY <4>1 DEF Quota, d
      <4> QED BY <1>2, <4>2 DEF Capped
    <3>3. Fits(let_in[i], Second, Quota(i))
      BY <1>7, <3>1
    <3> HIDE DEF d
    <3>4. Fits(let_in[i], 0, Quota(i)')
      BY <3>2, <3>3, FitsNew
    <3> QED BY <1>1, <3>1, <3>4
  <2>2. CASE conns[i].age < Second
    <3>1. conns'[i] = [conns[i] EXCEPT !.count = Capped(c + 1, MaxConn + 1)]
      BY <1>1, <1>4, <1>5, <2>2 DEF counted
    <3>2. conns'[i].age = conns[i].age /\ d = Capped(c + 1, MaxConn + 1)
      BY <1>3, <3>1
    <3>3. at' # "idle" => d <= MaxConn
      BY <1>1, <1>5, <2>2
    <3> DEFINE old == Quota(i)
               new == Quota(i)'
    <3>4. /\ at = "idle" => old = Capped((c + 1) \div 2, Half)
          /\ at = "started" => old = c \div 2
      BY <1>6 DEF Quota
    <3>5. /\ at' = "idle" => new = Capped((d + 1) \div 2, Half)
          /\ at' = "started" => new = d \div 2
          /\ at' = "rated" => new = (d - 1) \div 2
      BY DEF Quota
    <3> HIDE DEF c, d, old, new
    <3>6. old <= new /\ new \in 0..Half
      <4>1. CASE at = "idle" /\ at' = "idle"
        BY <1>1, <1>2, <1>5, <3>2, <3>4, <3>5, <4>1 DEF Capped
      <4>2. CASE at = "idle" /\ at' = "started"
        BY <1>1, <1>2, <1>5, <3>2, <3>3, <3>4, <3>5, <4>2 DEF Capped
      <4>3. CASE at = "started" /\ at' = "idle"
        BY <1>1, <1>2, <1>5, <1>6, <3>2, <3>4, <3>5, <4>3 DEF Capped
      <4>4. CASE at = "started" /\ at' = "rated"
        BY <1>1, <1>2, <1>5, <1>6, <3>2, <3>3, <3>4, <3>5, <4>4 DEF Capped
      <4> QED BY <4>1, <4>2, <4>3, <4>4
    <3>7. Fits(let_in[i], conns[i].age, old)
      BY <1>7 DEF old
    <3>8. Fits(let_in[i], conns[i].age, new)
      BY <1>5, <3>6, <3>7, FitsMore
    <3> QED BY <3>2, <3>3, <3>8 DEF new
  <2> QED BY <1>1, <1>5, <2>1, <2>2
<1>10. let_in' \in [IPs -> Logs(Second)]
  BY DEF LetInInv, Paced
<1> QED BY <1>8, <1>9, <1>10 DEF Paced

\* The connection is let in, or turned away for whatever reason.
LEMMA PacedAuth ==
  ASSUME LetInInv, AdmitAuth \/ TurnAway
  PROVE  Paced'
<1> DEFINE c == conns[client].count
           old == Quota(client)
           new == Quota(client)'
<1>1. Second \in Nat \ {0} /\ MaxConn \in Nat \ {0}
  BY RateAssumption
<1>2. Half \in Nat /\ 2 * Half <= MaxConn + 1 /\ MaxConn <= 2 * Half
  BY HalfIsNat
<1>3. /\ conns \in [IPs -> [count : 0..(MaxConn + 1), age : 0..Second]] /\ client \in IPs
      /\ at \in {"idle", "started", "rated"}
  BY DEF LetInInv, RateInv, Tables, RLTypeOK
<1>4. UNCHANGED <<conns, client>> /\ at' = "idle" /\ at # "idle"
  BY DEF AdmitAuth, TurnAway, LetIn
<1>5. c \in 1..MaxConn /\ conns[client].age \in 0..Second
  <2>1. c > 0 /\ c <= MaxConn
    BY <1>4 DEF LetInInv, Paced, RateInv, RLTypeOK
  <2> QED BY <1>3, <2>1
<1>6. \A j \in IPs : Fits(let_in[j], conns[j].age, Quota(j))
  BY DEF LetInInv, Paced
<1>7. /\ old = IF at = "started" THEN c \div 2 ELSE (c - 1) \div 2
      /\ new = Capped((c + 1) \div 2, Half)
  BY <1>4 DEF Quota
<1>8. ASSUME NEW j \in IPs, j # client PROVE Quota(j)' = Quota(j)
  BY <1>4, <1>8 DEF Quota
<1>9. let_in \in [IPs -> Logs(Second)]
  BY DEF LetInInv, Paced
<1>10. CASE LetIn /\ at = "rated"
  <2> DEFINE x == Capped(let_in[client][0] + 1, MaxConn + 2)
             now == [let_in[client] EXCEPT ![0] = x]
  <2>1. let_in' = [let_in EXCEPT ![client] = now]
    BY <1>10 DEF LetIn
  <2>2. let_in[client] \in Logs(Second) /\ let_in[client][0] \in Nat
    BY <1>1, <1>3, <1>9 DEF Logs
  <2>3. x \in Nat /\ x <= let_in[client][0] + 1
    BY <1>1, <2>2 DEF Capped
  <2> HIDE DEF c, old, new, x
  <2>4. new = old + 1 /\ old + 1 <= Half
    <3>1. old = (c - 1) \div 2
      BY <1>7, <1>10
    <3>2. (c + 1) \div 2 = (c - 1) \div 2 + 1 /\ (c + 1) \div 2 <= Half
      <4>1. \A a \in Nat : (a + 2) \div 2 = a \div 2 + 1 /\ a \div 2 \in Nat
        OBVIOUS
      <4>2. c - 1 \in Nat /\ (c - 1) + 2 = c + 1
        BY <1>1, <1>5
      <4>3. (c + 1) \div 2 = (c - 1) \div 2 + 1
        BY <4>1, <4>2
      <4>4. (c + 1) \div 2 <= Half
        BY <1>1, <1>2, <1>5
      <4> QED BY <4>3, <4>4
    <3>3. (c + 1) \div 2 \in Nat
      BY <1>1, <1>5
    <3>4. new = (c + 1) \div 2
      BY <1>2, <1>7, <3>2, <3>3 DEF Capped
    <3> QED BY <3>1, <3>2, <3>4
  <2>5. Fits(let_in[client], conns[client].age, old)
    BY <1>3, <1>6 DEF old
  <2>6. Fits(now, conns[client].age, new)
    BY <1>5, <2>3, <2>4, <2>5, FitsNow
  <2>7. now \in Logs(Second)
    BY <2>6 DEF Fits
  <2> HIDE DEF now
  <2>8. let_in' \in [IPs -> Logs(Second)] /\ let_in'[client] = now
        /\ \A j \in IPs : j # client => let_in'[j] = let_in[j]
    BY <1>3, <1>9, <2>1, <2>7
  <2>9. ASSUME NEW j \in IPs PROVE Fits(let_in'[j], conns'[j].age, Quota(j)')
    <3>1. CASE j = client
      BY <1>4, <2>6, <2>8, <3>1 DEF new
    <3>2. CASE j # client
      BY <1>4, <1>6, <1>8, <2>8, <3>2
    <3> QED BY <3>1, <3>2
  <2> QED BY <1>4, <2>8, <2>9 DEF Paced
<1>11. CASE let_in' = let_in
  <2> HIDE DEF c, old, new
  <2>1. old <= new /\ new \in 0..Half
    <3>1. /\ c \div 2 \in Nat /\ (c - 1) \div 2 \in Nat /\ (c + 1) \div 2 \in Nat
          /\ c \div 2 <= (c + 1) \div 2 /\ (c - 1) \div 2 <= (c + 1) \div 2
          /\ c \div 2 <= Half /\ (c - 1) \div 2 <= Half
      BY <1>1, <1>2, <1>5
    <3>2. old \in Nat /\ old <= (c + 1) \div 2 /\ old <= Half
      BY <1>7, <3>1
    <3> QED BY <1>2, <1>7, <3>1, <3>2 DEF Capped
  <2>2. Fits(let_in[client], conns[client].age, old)
    BY <1>3, <1>6 DEF old
  <2>3. Fits(let_in[client], conns[client].age, new)
    BY <1>5, <2>1, <2>2, FitsMore
  <2>4. ASSUME NEW j \in IPs PROVE Fits(let_in'[j], conns'[j].age, Quota(j)')
    <3>1. CASE j = client
      BY <1>4, <1>11, <2>3, <3>1 DEF new
    <3>2. CASE j # client
      BY <1>4, <1>6, <1>8, <1>11, <3>2
    <3> QED BY <3>1, <3>2
  <2> QED BY <1>4, <1>9, <1>11, <2>4 DEF Paced
<1> QED
  <2>1. (LetIn /\ at = "rated") \/ let_in' = let_in
    BY DEF AdmitAuth, TurnAway
  <2> QED BY <1>10, <1>11, <2>1

LEMMA PacedTick ==
  ASSUME LetInInv, Tick
  PROVE  Paced'
<1>1. Second \in Nat \ {0}
  BY RateAssumption
<1>2. conns \in [IPs -> [count : 0..(MaxConn + 1), age : 0..Second]] /\ client \in IPs
  BY DEF LetInInv, RateInv, Tables
<1>3. ASSUME NEW i \in IPs
      PROVE  /\ conns'[i].age = Capped(conns[i].age + 1, Second) /\ conns'[i].count = conns[i].count
             /\ let_in'[i] = Older(let_in[i]) /\ conns[i].age \in 0..Second
  BY <1>2 DEF Tick
<1>4. UNCHANGED <<at, client>> /\ let_in' = [i \in IPs |-> Older(let_in[i])]
  BY DEF Tick
<1>5. ASSUME NEW i \in IPs PROVE Quota(i)' = Quota(i)
  BY <1>3, <1>4 DEF Quota
<1>6. ASSUME NEW i \in IPs
      PROVE  Fits(let_in'[i], conns'[i].age, Quota(i)') /\ let_in'[i] \in Logs(Second)
  <2>1. Fits(let_in[i], conns[i].age, Quota(i))
    BY DEF LetInInv, Paced
  <2>2. Fits(Older(let_in[i]), Capped(conns[i].age + 1, Second), Quota(i))
    BY <1>3, <2>1, FitsOlder
  <2>3. Fits(let_in'[i], conns'[i].age, Quota(i)')
    BY <1>3, <1>5, <2>2
  <2> QED BY <2>3 DEF Fits
<1>7. let_in' \in [IPs -> Logs(Second)]
  BY <1>4, <1>6
<1>8. at' # "idle" => conns'[client'].count <= MaxConn
  BY <1>2, <1>3, <1>4 DEF LetInInv, Paced
<1> QED BY <1>6, <1>7, <1>8 DEF Paced

\* Within any second no more connections of an address are let in than two half
\* windows hold, whatever instants start and request_admit count them at, however
\* the windows lie and whoever else connects in between.
THEOREM LetInIsBounded == Spec => []LetInPerSecond
<1>1. Init => LetInInv
  BY RateInit, PacedInit DEF LetInInv
<1>2. LetInInv /\ [Next]_vars => LetInInv'
  <2> SUFFICES ASSUME LetInInv, [Next]_vars PROVE LetInInv'
    OBVIOUS
  <2>1. RateInv'
    BY RateStep DEF LetInInv
  <2>2. CASE UNCHANGED <<conns, at, client, let_in>>
    BY <2>1, <2>2 DEF LetInInv, Paced, Quota
  <2>3. ASSUME NEW i \in IPs, Accept(i) PROVE Paced'
    BY <2>3, PacedCount DEF Accept, check_connection_rate
  <2>4. ASSUME AdmitRate PROVE Paced'
    <3>1. client \in IPs
      BY DEF LetInInv, RateInv, Tables
    <3> QED BY <2>4, <3>1, PacedCount DEF AdmitRate, check_connection_rate
  <2>5. CASE \E i \in IPs : WrongPassword(i) \/ Leave(i)
    BY <2>2, <2>5 DEF WrongPassword, Leave
  <2>6. CASE UNCHANGED vars
    BY <2>2, <2>6 DEF vars
  <2> QED
    BY <2>1, <2>3, <2>4, <2>5, <2>6, PacedAuth, PacedTick DEF Next, LetInInv
<1>3. LetInInv => LetInPerSecond
  <2> SUFFICES ASSUME LetInInv, NEW i \in IPs PROVE Recent(let_in[i], Second) <= 2 * Half
    BY DEF LetInPerSecond, Half
  <2>1. Second \in Nat \ {0} /\ Half \in Nat /\ Second \in 0..Second
    BY RateAssumption, HalfIsNat
  <2>2. Fits(let_in[i], conns[i].age, Quota(i))
    BY DEF LetInInv, Paced
  <2>3. Recent(let_in[i], Second) \in Nat
    BY <2>1, <2>2, RecentIsNat DEF Fits
  <2> QED BY <2>1, <2>2, <2>3 DEF Fits
<1> QED BY <1>1, <1>2, <1>3, PTL DEF Spec

AllWatched ==
  BanDuration >= Minute =>
    /\ wrong \in [IPs -> Logs(Minute)]
    /\ \A i \in IPs : Watched(wrong[i], fails[i].age, fails[i].count, ban[i])

GuessInv == RateInv /\ AllWatched

LEMMA WatchedInit == Init => AllWatched
<1> SUFFICES ASSUME Init PROVE AllWatched
  OBVIOUS
<1>1. Minute \in Nat \ {0} /\ MaxFails \in Nat \ {0}
  BY RateAssumption
<1> DEFINE none == [a \in 0..(Minute - 1) |-> 0]
<1>2. none \in Logs(Minute) /\ \A m \in 0..Minute : Recent(none, m) = 0
  BY <1>1, NothingRecent
<1>3. wrong = [i \in IPs |-> none]
  BY DEF Init
<1> HIDE DEF none
<1>4. ASSUME NEW i \in IPs PROVE Watched(wrong[i], fails[i].age, fails[i].count, ban[i])
  <2>1. wrong[i] = none /\ fails[i].count = 0 /\ fails[i].age \in 0..Minute /\ ban[i] = 0
    BY <1>3 DEF Init
  <2>2. Since(0) \in 0..Minute /\ Lesser(fails[i].age, Since(0)) \in 0..Minute
    BY <2>1, SinceRange
  <2> QED BY <1>1, <1>2, <2>1, <2>2 DEF Watched
<1> QED BY <1>2, <1>3, <1>4 DEF AllWatched

LEMMA WatchedWrong ==
  ASSUME GuessInv, NEW i \in IPs, WrongPassword(i)
  PROVE  AllWatched'
<1> SUFFICES ASSUME BanDuration >= Minute
             PROVE  /\ wrong' \in [IPs -> Logs(Minute)]
                    /\ \A j \in IPs : Watched(wrong'[j], fails'[j].age, fails'[j].count, ban'[j])
  BY DEF AllWatched
<1> DEFINE count == IF fails[i].age >= Minute THEN 1
                    ELSE Capped(fails[i].count + 1, MaxFails + 1)
           age == IF fails[i].age >= Minute THEN 0 ELSE fails[i].age
           bars == IF count >= MaxFails THEN BanDuration ELSE ban[i]
           x == Capped(wrong[i][0] + 1, 2 * MaxFails - 1)
           now == [wrong[i] EXCEPT ![0] = x]
<1>1. MaxFails \in Nat \ {0} /\ Minute \in Nat \ {0} /\ BanDuration \in Nat
  BY RateAssumption
<1>2. /\ fails' = [fails EXCEPT ![i] = [count |-> count, age |-> age]]
      /\ ban' = IF count >= MaxFails THEN [ban EXCEPT ![i] = BanDuration] ELSE ban
      /\ wrong' = [wrong EXCEPT ![i] = now]
  BY DEF WrongPassword, record_auth_failure, banned_now
<1>3. /\ fails \in [IPs -> [count : 0..(MaxFails + 1), age : 0..Minute]]
      /\ ban \in [IPs -> 0..BanDuration]
      /\ wrong \in [IPs -> Logs(Minute)]
      /\ \A j \in IPs : Watched(wrong[j], fails[j].age, fails[j].count, ban[j])
  BY DEF GuessInv, AllWatched, RateInv, Tables, RLTypeOK
<1>4. /\ fails[i].age \in 0..Minute /\ fails[i].count \in Nat /\ ban[i] \in Nat
  BY <1>1, <1>3
<1>5. wrong[i] \in Logs(Minute) /\ wrong[i][0] \in Nat
  BY <1>1, <1>3 DEF Logs
<1>6. x \in Nat /\ x <= wrong[i][0] + 1
  BY <1>1, <1>5 DEF Capped
<1>7. count \in Nat /\ age \in 0..Minute /\ bars \in Nat
  BY <1>1, <1>4 DEF Capped
<1>8. \/ fails[i].age >= Minute /\ age = 0 /\ count = 1
      \/ fails[i].age < Minute /\ age = fails[i].age /\ count = Capped(fails[i].count + 1, MaxFails + 1)
  BY <1>1, <1>4
<1>9. bars = IF count >= MaxFails THEN BanDuration ELSE ban[i]
  OBVIOUS
<1> HIDE DEF count, age, bars, x
<1>10. Watched(now, age, count, bars)
  BY <1>3, <1>4, <1>6, <1>7, <1>8, <1>9, WatchedNow
<1>11. now \in Logs(Minute)
  BY <1>10 DEF Watched
<1> HIDE DEF now
<1>12. /\ wrong' \in [IPs -> Logs(Minute)] /\ wrong'[i] = now
       /\ fails'[i].count = count /\ fails'[i].age = age /\ ban'[i] = bars
  BY <1>2, <1>3, <1>9, <1>11
<1>13. \A j \in IPs \ {i} : wrong'[j] = wrong[j] /\ fails'[j] = fails[j] /\ ban'[j] = ban[j]
  BY <1>2, <1>3
<1> QED BY <1>3, <1>10, <1>12, <1>13

LEMMA WatchedTick ==
  ASSUME GuessInv, Tick
  PROVE  AllWatched'
<1> SUFFICES ASSUME BanDuration >= Minute
             PROVE  /\ wrong' \in [IPs -> Logs(Minute)]
                    /\ \A i \in IPs : Watched(wrong'[i], fails'[i].age, fails'[i].count, ban'[i])
  BY DEF AllWatched
<1>1. MaxFails \in Nat /\ Minute \in Nat /\ BanDuration \in Nat
  BY RateAssumption
<1>2. ASSUME NEW i \in IPs
      PROVE  /\ Watched(wrong'[i], fails'[i].age, fails'[i].count, ban'[i])
             /\ wrong'[i] \in Logs(Minute)
  <2>1. fails[i] \in [count : 0..(MaxFails + 1), age : 0..Minute] /\ ban[i] \in Nat
    BY <1>1 DEF GuessInv, RateInv, Tables, RLTypeOK
  <2>2. /\ fails'[i].age = Capped(fails[i].age + 1, Minute) /\ fails'[i].count = fails[i].count
        /\ ban'[i] = IF ban[i] > 0 THEN ban[i] - 1 ELSE 0
        /\ wrong'[i] = Older(wrong[i])
    BY <2>1 DEF Tick
  <2>3. Watched(wrong[i], fails[i].age, fails[i].count, ban[i])
    BY DEF GuessInv, AllWatched
  <2>4. fails[i].age \in 0..Minute /\ fails[i].count \in Nat
    BY <1>1, <2>1
  <2>5. Watched(wrong'[i], fails'[i].age, fails'[i].count, ban'[i])
    BY <2>1, <2>2, <2>3, <2>4, WatchedOlder
  <2> QED BY <2>5 DEF Watched
<1>3. wrong' \in [IPs -> Logs(Minute)]
  BY <1>2 DEF Tick
<1> QED BY <1>2, <1>3

\* Wherever the windows of failures lie, and however many sessions guess at once:
\* an address from which nearly two full windows of wrong passwords came within a
\* minute is banned.
THEOREM GuessersAreBanned == Spec => []GuessingBans
<1>1. Init => GuessInv
  BY RateInit, WatchedInit DEF GuessInv
<1>2. GuessInv /\ [Next]_vars => GuessInv'
  <2> SUFFICES ASSUME GuessInv, [Next]_vars PROVE GuessInv'
    OBVIOUS
  <2>1. RateInv'
    BY RateStep DEF GuessInv
  <2>2. CASE UNCHANGED <<fails, ban, wrong>>
    BY <2>1, <2>2 DEF GuessInv, AllWatched
  <2>3. CASE \E i \in IPs : Accept(i) \/ Leave(i)
    BY <2>2, <2>3 DEF Accept, Leave
  <2>4. CASE AdmitRate \/ AdmitAuth \/ TurnAway
    BY <2>2, <2>4 DEF AdmitRate, AdmitAuth, LetIn, TurnAway
  <2>5. CASE UNCHANGED vars
    BY <2>2, <2>5 DEF vars
  <2> QED
    BY <2>1, <2>3, <2>4, <2>5, WatchedWrong, WatchedTick DEF Next, GuessInv
<1>3. GuessInv => GuessingBans
  <2> SUFFICES ASSUME GuessInv, BanDuration >= Minute, NEW i \in IPs, ~(ban[i] > 0)
               PROVE  ~(Recent(wrong[i], Minute) >= 2 * MaxFails - 1)
    BY DEF GuessingBans
  <2>0. ban[i] = 0
    BY RateAssumption DEF GuessInv, RateInv, RLTypeOK
  <2>1. MaxFails \in Nat \ {0} /\ Minute \in Nat \ {0}
    BY RateAssumption
  <2>2. fails[i].count \in Nat
    BY <2>1 DEF GuessInv, RateInv, RLTypeOK
  <2>3. Since(ban[i]) = Minute /\ Minute \in 0..Minute
    BY <2>0, <2>1 DEF Since
  <2>4. Watched(wrong[i], fails[i].age, fails[i].count, ban[i])
    BY DEF GuessInv, AllWatched
  <2>5. Recent(wrong[i], Minute) \in Nat
    BY <2>1, <2>3, <2>4, RecentIsNat DEF Watched
  <2> QED BY <2>1, <2>2, <2>3, <2>4, <2>5 DEF Watched
<1> QED BY <1>1, <1>2, <1>3, PTL DEF Spec
=============================================================================
