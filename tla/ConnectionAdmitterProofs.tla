---------------------- MODULE ConnectionAdmitterProofs ----------------------
(***************************************************************************)
(* Proofs about ConnectionAdmitter, for every set of callers and every     *)
(* value of the limits: its types, the exclusion of promotions, the bounds *)
(* of its three counts, and that it implements SlotLimiter.                *)
(***************************************************************************)
EXTENDS ConnectionAdmitter, FiniteSetTheorems, SequenceTheorems, TLAPS

(* Types *)

\* NoEntry, and what a request or a release brings, are entries.
LEMMA EntryType ==
  /\ NoEntry \in Entry
  /\ \A s \in Sessions, u \in Users : [sid |-> s, user |-> u] \in Entry
  /\ Anonymous \in Users
  /\ \A e \in Entry : e.user \in Users
BY DEF NoEntry, Entry, Users

\* What release_connection's clean-up leaves of the queue is a queue.
LEMMA ExpireType ==
  ASSUME NEW q \in Seq(Entry), NEW n \in 0..Len(q)
  PROVE  /\ SubSeq(q, n + 1, Len(q)) \in Seq(Entry)
         /\ Len(SubSeq(q, n + 1, Len(q))) = Len(q) - n
<1>1. Len(q) \in Nat /\ n + 1 \in Int /\ Len(q) \in Int
  BY LenProperties
<1>2. \A i \in (n + 1)..Len(q) : q[i] \in Entry
  BY <1>1, ElementOfSeq
<1>. QED BY <1>1, <1>2, SubSeqProperties

\* The initial counters, queue and locations have their types.
LEMMA AdmInitType == AdmInit => AdmTypeOK
BY EntryType, EmptySeq, CallersAssumption DEF AdmInit, AdmTypeOK, Locations

\* Every step of request_admit and release_connection keeps the types: in
\* particular no release brings m_active_connections or a user's count below 0.
LEMMA AdmStepType ==
  ASSUME AdmTypeOK, AdmNext
  PROVE  AdmTypeOK'
<1>. USE DEF AdmTypeOK
<1>1. PICK c \in Callers :
        \/ \E s \in Sessions : RequestAdmit(c, s, Anonymous)
        \/ \E s \in Sessions, u \in Users : ReleaseConnection(c, s, u)
        \/ RequestStep(c)
        \/ ReleaseStep(c)
        \/ Return(c)
  BY DEF AdmNext
<1>2. arg[c] \in Entry /\ arg[c].user \in Users
  BY EntryType
<1>3. CASE \E s \in Sessions : RequestAdmit(c, s, Anonymous)
  BY <1>3, EntryType DEF RequestAdmit, Goto, Locations
<1>4. CASE \E s \in Sessions, u \in Users : ReleaseConnection(c, s, u)
  BY <1>4, EntryType DEF ReleaseConnection, Goto, Locations
<1>5. CASE RequestStep(c)
  <2>1. CASE GateRejects(c) \/ GatePasses(c)
    BY <2>1 DEF GateRejects, GatePasses, Goto, Locations, Answers
  <2>2. CASE CheckUserLimit(c)
    BY <2>2 DEF CheckUserLimit, Goto, Locations, Answers
  <2>3. CASE CheckTotalLimit(c)
    BY <2>3 DEF CheckTotalLimit, Goto, Locations, Answers
  <2>4. CASE EnqueueConnection(c)
    <3>1. Append(queue, arg[c]) \in Seq(Entry)
      BY <1>2, AppendProperties
    <3>2. queue' \in Seq(Entry)
      BY <2>4, <3>1 DEF EnqueueConnection
    <3>3. at' \in [Callers -> Locations]
      BY <2>4 DEF EnqueueConnection, Goto, Locations, Answers
    <3>. QED BY <2>4, <3>2, <3>3 DEF EnqueueConnection
  <2>5. CASE CountConnection(c)
    BY <2>5 DEF CountConnection, Goto, Locations
  <2>6. CASE CountUser(c)
    BY <2>6, <1>2 DEF CountUser, Goto, Locations, Answers
  <2>. QED BY <1>5, <2>1, <2>2, <2>3, <2>4, <2>5, <2>6 DEF RequestStep
<1>6. CASE ReleaseStep(c)
  <2>1. CASE ReleaseUser(c)
    BY <2>1, <1>2, EntryType DEF ReleaseUser, Goto, Locations
  <2>2. CASE PopWaiting(c)
    BY <2>2, HeadTailProperties DEF PopWaiting, Goto, Locations
  <2>3. CASE PromoteConnection(c)
    BY <2>3 DEF PromoteConnection, Goto, Locations
  <2>4. CASE PromoteUser(c)
    BY <2>4, <1>2, EntryType DEF PromoteUser, Goto, Locations
  <2>5. CASE ExpireWaiting(c)
    BY <2>5, ExpireType DEF ExpireWaiting, Goto, Locations
  <2>. QED BY <1>6, <2>1, <2>2, <2>3, <2>4, <2>5 DEF ReleaseStep
<1>7. CASE Return(c)
  BY <1>7, EntryType DEF Return, Locations
<1>. QED BY <1>1, <1>3, <1>4, <1>5, <1>6, <1>7

\* The admitter's counters, queue, lock and locations keep their types, for
\* any number of callers: releases repeated for a session that has already
\* been released never make a counter negative.
THEOREM AdmitterTypes == AdmSpec => []AdmTypeOK
<1>1. AdmTypeOK /\ UNCHANGED admVars => AdmTypeOK'
  BY DEF AdmTypeOK, admVars
<1>2. AdmTypeOK /\ [AdmNext]_admVars => AdmTypeOK'
  BY <1>1, AdmStepType
<1>. QED BY AdmInitType, <1>2, PTL DEF AdmSpec

-----------------------------------------------------------------------------
(* Who is where *)

\* The caller's part of Goto, whatever it left.
Moves(c, to) == at' = [at EXCEPT ![c] = to]

\* One caller's move changes the number of callers at a set of locations by
\* at most one.
LEMMA MoveCount ==
  ASSUME AdmTypeOK, NEW c \in Callers, NEW to \in Locations,
         Moves(c, to), NEW L
  PROVE  /\ Cardinality(CallersAt(L)) \in Nat
         /\ Cardinality(CallersAt(L)') \in Nat
         /\ Cardinality(CallersAt(L)') =
              Cardinality(CallersAt(L)) + (IF to \in L THEN 1 ELSE 0)
                                        - (IF at[c] \in L THEN 1 ELSE 0)
<1>1. at \in [Callers -> Locations]
  BY DEF AdmTypeOK
<1>2. IsFiniteSet(CallersAt(L)) /\ IsFiniteSet(CallersAt(L)')
  <2>1. CallersAt(L) \subseteq Callers /\ CallersAt(L)' \subseteq Callers
    BY DEF CallersAt
  <2>. QED BY <2>1, CallersAssumption, FS_Subset
<1>3. Cardinality(CallersAt(L)) \in Nat /\ Cardinality(CallersAt(L)') \in Nat
  BY <1>2, FS_CardinalityType
<1>4. c \in CallersAt(L) <=> at[c] \in L
  BY DEF CallersAt
<1>5. CASE to \in L
  <2>1. CallersAt(L)' = CallersAt(L) \cup {c}
    BY <1>1, <1>5 DEF CallersAt, Moves
  <2>2. Cardinality(CallersAt(L) \cup {c}) =
          IF c \in CallersAt(L) THEN Cardinality(CallersAt(L)) ELSE Cardinality(CallersAt(L)) + 1
    BY <1>2, FS_AddElement
  <2>. QED BY <1>3, <1>4, <1>5, <2>1, <2>2
<1>6. CASE to \notin L
  <2>1. CallersAt(L)' = CallersAt(L) \ {c}
    BY <1>1, <1>6 DEF CallersAt, Moves
  <2>2. Cardinality(CallersAt(L) \ {c}) =
          IF c \in CallersAt(L) THEN Cardinality(CallersAt(L)) - 1 ELSE Cardinality(CallersAt(L))
    BY <1>2, FS_RemoveElement
  <2>. QED BY <1>3, <1>4, <1>6, <2>1, <2>2
<1>. QED BY <1>5, <1>6

\* At the start nobody is anywhere but outside.
LEMMA NobodyInside ==
  ASSUME AdmInit, NEW L, "idle" \notin L
  PROVE  CallersAt(L) = {} /\ Cardinality(CallersAt(L)) = 0
BY FS_EmptySet DEF AdmInit, CallersAt

RequestLocations ==
  {"gate", "user_limit", "total_limit", "enqueue", "count", "count_user"} \cup Answers

\* A step of request_admit stays in request_admit or answers, and leaves
\* m_queue_mutex and the request itself alone.
LEMMA RequestMoves ==
  ASSUME NEW c \in Callers, RequestStep(c)
  PROVE  /\ at[c] \in RequestLocations
         /\ \E to \in RequestLocations : at' = [at EXCEPT ![c] = to]
         /\ UNCHANGED <<queueLock, arg>>
<1>. USE DEF Goto, RequestLocations, Answers
<1>1. CASE GateRejects(c) \/ GatePasses(c)
  BY <1>1 DEF GateRejects, GatePasses
<1>2. CASE CheckUserLimit(c)
  BY <1>2 DEF CheckUserLimit
<1>3. CASE CheckTotalLimit(c)
  BY <1>3 DEF CheckTotalLimit
<1>4. CASE EnqueueConnection(c)
  BY <1>4 DEF EnqueueConnection
<1>5. CASE CountConnection(c) \/ CountUser(c)
  BY <1>5 DEF CountConnection, CountUser
<1>. QED BY <1>1, <1>2, <1>3, <1>4, <1>5 DEF RequestStep

-----------------------------------------------------------------------------
(* Promotions exclude each other *)

\* The lock is taken only when free, and held from the pop to the unlock.
LEMMA ExclusionStep ==
  ASSUME AdmTypeOK, PromotionExclusive, AdmNext
  PROVE  PromotionExclusive'
<1>. USE DEF PromotionExclusive, Draining, CallersAt
<1>1. PICK c \in Callers :
        \/ \E s \in Sessions : RequestAdmit(c, s, Anonymous)
        \/ \E s \in Sessions, u \in Users : ReleaseConnection(c, s, u)
        \/ RequestStep(c)
        \/ ReleaseStep(c)
        \/ Return(c)
  BY DEF AdmNext
<1>2. at \in [Callers -> Locations] /\ NoCaller \notin Callers
  BY CallersAssumption DEF AdmTypeOK
<1>3. CASE \E s \in Sessions : RequestAdmit(c, s, Anonymous)
  BY <1>2, <1>3 DEF RequestAdmit, Goto
<1>4. CASE \E s \in Sessions, u \in Users : ReleaseConnection(c, s, u)
  BY <1>2, <1>4 DEF ReleaseConnection, Goto
<1>5. CASE RequestStep(c)
  BY <1>2, <1>5, RequestMoves DEF RequestLocations, Answers
<1>6. CASE ReleaseStep(c)
  <2>1. CASE ReleaseUser(c)
    BY <1>2, <2>1 DEF ReleaseUser, Goto
  <2>2. CASE PopWaiting(c)
    BY <1>2, <2>2 DEF PopWaiting, Goto
  <2>3. CASE PromoteConnection(c)
    BY <1>2, <2>3 DEF PromoteConnection, Goto
  <2>4. CASE PromoteUser(c)
    BY <1>2, <2>4 DEF PromoteUser, Goto
  <2>5. CASE ExpireWaiting(c)
    BY <1>2, <2>5 DEF ExpireWaiting, Goto
  <2>. QED BY <1>6, <2>1, <2>2, <2>3, <2>4, <2>5 DEF ReleaseStep
<1>7. CASE Return(c)
  BY <1>2, <1>7 DEF Return, Answers
<1>. QED BY <1>1, <1>3, <1>4, <1>5, <1>6, <1>7

\* m_queue_mutex is held exactly by the one caller that is between popping a
\* waiter and dropping the lock for the callback (connection_admitter.cpp:113).
THEOREM PromotionsExclude == AdmSpec => []PromotionExclusive
<1>1. AdmInit => PromotionExclusive
  BY CallersAssumption DEF AdmInit, PromotionExclusive, Draining, CallersAt
<1>2. PromotionExclusive /\ UNCHANGED admVars => PromotionExclusive'
  BY DEF PromotionExclusive, Draining, CallersAt, admVars
<1>3. AdmTypeOK /\ PromotionExclusive /\ [AdmNext]_admVars => PromotionExclusive'
  BY <1>2, ExclusionStep
<1>. QED BY <1>1, <1>3, AdmitterTypes, PTL DEF AdmSpec

-----------------------------------------------------------------------------
(* Requests come from the requesters *)

\* Whoever is inside request_admit is a requester, and asks for Anonymous.
RequestsConfined ==
  \A c \in CallersAt(RequestLocations) : c \in Requesters /\ arg[c].user = Anonymous

\* Every way into request_admit is through RequestAdmit by a requester.
LEMMA ConfinedStep ==
  ASSUME AdmTypeOK, RequestsConfined, AdmNext
  PROVE  RequestsConfined'
<1>. USE DEF RequestsConfined, CallersAt
<1>1. PICK c \in Callers :
        \/ \E s \in Sessions : RequestAdmit(c, s, Anonymous)
        \/ \E s \in Sessions, u \in Users : ReleaseConnection(c, s, u)
        \/ RequestStep(c)
        \/ ReleaseStep(c)
        \/ Return(c)
  BY DEF AdmNext
<1>2. at \in [Callers -> Locations] /\ arg \in [Callers -> Entry]
  BY DEF AdmTypeOK
<1>3. CASE \E s \in Sessions : RequestAdmit(c, s, Anonymous)
  BY <1>2, <1>3 DEF RequestAdmit, Goto
<1>4. CASE \E s \in Sessions, u \in Users : ReleaseConnection(c, s, u)
  BY <1>2, <1>4 DEF ReleaseConnection, Goto, RequestLocations, Answers
<1>5. CASE RequestStep(c)
  BY <1>2, <1>5, RequestMoves
<1>6. CASE ReleaseStep(c)
  <2>1. \E to \in Locations \ RequestLocations, e \in Entry :
           at' = [at EXCEPT ![c] = to] /\ (arg' = [arg EXCEPT ![c] = e] \/ arg' = arg)
    <3>1. Head(queue) \in Entry \/ queue = <<>>
      BY HeadTailProperties DEF AdmTypeOK
    <3>. QED BY <1>6, <3>1, EntryType
           DEF ReleaseStep, ReleaseUser, PopWaiting, PromoteConnection, PromoteUser,
               ExpireWaiting, Goto, Locations, RequestLocations, Answers
  <2>. QED BY <1>2, <2>1
<1>7. CASE Return(c)
  BY <1>2, <1>7 DEF Return, RequestLocations, Answers
<1>. QED BY <1>1, <1>3, <1>4, <1>5, <1>6, <1>7

\* Only the accepting threads are ever inside request_admit.
LEMMA Confined == AdmSpec => []RequestsConfined
<1>1. AdmInit => RequestsConfined
  BY DEF AdmInit, RequestsConfined, CallersAt, RequestLocations, Answers
<1>2. RequestsConfined /\ UNCHANGED admVars => RequestsConfined'
  BY DEF RequestsConfined, CallersAt, admVars
<1>3. AdmTypeOK /\ RequestsConfined /\ [AdmNext]_admVars => RequestsConfined'
  BY <1>2, ConfinedStep
<1>. QED BY <1>1, <1>3, AdmitterTypes, PTL DEF AdmSpec

-----------------------------------------------------------------------------
(* The limits *)

\* Callers between a test of request_admit and its count are requesters, and
\* at most one caller is in the middle of a promotion.
LEMMA InFlight ==
  ASSUME AdmTypeOK, RequestsConfined, PromotionExclusive
  PROVE  /\ Cardinality(Requesters) \in Nat \ {0}
         /\ \A L : L \subseteq RequestLocations =>
                 Cardinality(CallersAt(L)) <= Cardinality(Requesters)
         /\ \A L : L \subseteq {"promote", "promote_user"} =>
                 Cardinality(CallersAt(L)) <= 1
         /\ queueLock = NoCaller => Cardinality(Draining) = 0 /\ Cardinality(Promoting) = 0
<1>1. IsFiniteSet(Requesters)
  BY CallersAssumption, FS_Subset
<1>2. Cardinality(Requesters) \in Nat \ {0}
  BY <1>1, CallersAssumption, FS_CardinalityType, FS_EmptySet
<1>3. ASSUME NEW L, L \subseteq RequestLocations
      PROVE  Cardinality(CallersAt(L)) <= Cardinality(Requesters)
  <2>1. CallersAt(L) \subseteq Requesters
    BY <1>3 DEF RequestsConfined, CallersAt
  <2>. QED BY <1>1, <2>1, FS_Subset
<1>4. ASSUME NEW L, L \subseteq {"promote", "promote_user"}
      PROVE  Cardinality(CallersAt(L)) <= 1
  <2>1. CallersAt(L) \subseteq {queueLock}
    BY <1>4 DEF PromotionExclusive, Draining, CallersAt
  <2>2. IsFiniteSet({queueLock}) /\ Cardinality({queueLock}) = 1
    BY FS_Singleton
  <2>. QED BY <2>1, <2>2, FS_Subset
<1>5. ASSUME queueLock = NoCaller
      PROVE  Cardinality(Draining) = 0 /\ Cardinality(Promoting) = 0
  <2>1. Draining = {} /\ Promoting = {}
    BY <1>5, CallersAssumption DEF PromotionExclusive, Draining, Promoting, CallersAt
  <2>. QED BY <2>1, FS_EmptySet
<1>. QED BY <1>2, <1>3, <1>4, <1>5

\* The steps that neither pass the test of the limit nor take a slot.
QuietStep(c) ==
  \/ \E s \in Sessions : RequestAdmit(c, s, Anonymous)
  \/ \E s \in Sessions, u \in Users : ReleaseConnection(c, s, u)
  \/ GateRejects(c)
  \/ GatePasses(c)
  \/ CheckUserLimit(c)
  \/ CheckTotalLimit(c) /\ active >= MaxConnections
  \/ EnqueueConnection(c)
  \/ CountUser(c)
  \/ ReleaseUser(c)
  \/ PromoteUser(c)
  \/ ExpireWaiting(c)
  \/ Return(c)

\* A quiet step leaves its caller where no slot is promised.
LEMMA QuietMoves ==
  ASSUME AdmTypeOK, NEW c \in Callers, QuietStep(c)
  PROVE  /\ \E to \in Locations \ {"count", "promote"} : Moves(c, to)
         /\ active' \in Nat
         /\ active' <= active
<1>1. active \in Nat /\ MaxConnections \in Nat
  BY LimitsAssumption DEF AdmTypeOK
<1>2. \E to \in Locations \ {"count", "promote"} : Moves(c, to)
  <2>. USE DEF Goto, Locations, Answers, Moves
  <2>1. CASE CheckTotalLimit(c) /\ active >= MaxConnections
    <3>1. ~(active < MaxConnections)
      BY <1>1, <2>1
    <3>2. Moves(c, "enqueue") \/ Moves(c, "rejected")
      BY <2>1, <3>1 DEF CheckTotalLimit
    <3>. QED BY <3>2
  <2>2. CASE CheckUserLimit(c)
    BY <2>2 DEF CheckUserLimit
  <2>3. CASE EnqueueConnection(c)
    BY <2>3 DEF EnqueueConnection
  <2>4. CASE \/ \E s \in Sessions : RequestAdmit(c, s, Anonymous)
             \/ \E s \in Sessions, u \in Users : ReleaseConnection(c, s, u)
    BY <2>4 DEF RequestAdmit, ReleaseConnection
  <2>5. CASE GateRejects(c) \/ GatePasses(c) \/ CountUser(c) \/ ReleaseUser(c)
              \/ PromoteUser(c) \/ ExpireWaiting(c) \/ Return(c)
    BY <2>5 DEF GateRejects, GatePasses, CountUser, ReleaseUser, PromoteUser, ExpireWaiting, Return
  <2>. QED BY <2>1, <2>2, <2>3, <2>4, <2>5 DEF QuietStep
<1>3. CASE \E s \in Sessions, u \in Users : ReleaseConnection(c, s, u)
  <2>1. active' = IF active > 0 THEN active - 1 ELSE active
    BY <1>3 DEF ReleaseConnection
  <2>. QED BY <1>1, <1>2, <2>1
<1>4. CASE ~\E s \in Sessions, u \in Users : ReleaseConnection(c, s, u)
  <2>1. active' = active
    BY <1>4 DEF QuietStep, RequestAdmit, GateRejects, GatePasses, CheckUserLimit,
                CheckTotalLimit, EnqueueConnection, CountUser, ReleaseUser, PromoteUser,
                ExpireWaiting, Return
  <2>. QED BY <1>1, <1>2, <2>1
<1>. QED BY <1>3, <1>4

\* Slots promised but not counted: a test adds one only when the slots in use
\* are below the limit, and then one caller per requester and one promotion
\* are all that can be in flight.
LEMMA PromisedStep ==
  ASSUME AdmTypeOK, RequestsConfined, PromotionExclusive, PromisedBounded, AdmNext
  PROVE  PromisedBounded'
<1>. DEFINE Slack == Cardinality(Requesters)
<1>. SUFFICES active' + Cardinality(Counting') + Cardinality(Promoting') <= MaxConnections + Slack
  BY DEF PromisedBounded
<1>1. PICK c \in Callers :
        \/ QuietStep(c)
        \/ CheckTotalLimit(c) /\ active < MaxConnections
        \/ CountConnection(c)
        \/ PopWaiting(c)
        \/ PromoteConnection(c)
  <2>1. active < MaxConnections \/ active >= MaxConnections
    BY LimitsAssumption DEF AdmTypeOK
  <2>. QED BY <2>1 DEF AdmNext, RequestStep, ReleaseStep, QuietStep
<1>2. /\ active \in Nat /\ MaxConnections \in Nat /\ Slack \in Nat
      /\ active + Cardinality(Counting) + Cardinality(Promoting) <= MaxConnections + Slack
  BY LimitsAssumption, InFlight DEF AdmTypeOK, PromisedBounded
<1>3. /\ Cardinality(Counting) <= Slack
      /\ Cardinality(Promoting) <= 1
      /\ queueLock = NoCaller => Cardinality(Promoting) = 0
  <2>1. {"count"} \subseteq RequestLocations /\ {"promote"} \subseteq {"promote", "promote_user"}
    BY DEF RequestLocations
  <2>. QED BY <2>1, InFlight DEF Counting, Promoting
<1>4. ASSUME NEW to \in Locations, Moves(c, to)
      PROVE  /\ Cardinality(Counting) \in Nat /\ Cardinality(Promoting) \in Nat
             /\ Cardinality(Counting') = Cardinality(Counting)
                  + (IF to = "count" THEN 1 ELSE 0) - (IF at[c] = "count" THEN 1 ELSE 0)
             /\ Cardinality(Promoting') = Cardinality(Promoting)
                  + (IF to = "promote" THEN 1 ELSE 0) - (IF at[c] = "promote" THEN 1 ELSE 0)
  <2>1. /\ Cardinality(Counting) \in Nat
        /\ Cardinality(Counting') = Cardinality(Counting)
             + (IF to = "count" THEN 1 ELSE 0) - (IF at[c] = "count" THEN 1 ELSE 0)
    BY <1>4, MoveCount DEF Counting
  <2>2. /\ Cardinality(Promoting) \in Nat
        /\ Cardinality(Promoting') = Cardinality(Promoting)
             + (IF to = "promote" THEN 1 ELSE 0) - (IF at[c] = "promote" THEN 1 ELSE 0)
    BY <1>4, MoveCount DEF Promoting
  <2>. QED BY <2>1, <2>2
<1>5. CASE QuietStep(c)
  <2>1. active' \in Nat /\ active' <= active
    BY <1>5, QuietMoves
  <2>2. PICK to \in Locations \ {"count", "promote"} : Moves(c, to)
    BY <1>5, QuietMoves
  <2>3. /\ Cardinality(Counting) \in Nat /\ Cardinality(Promoting) \in Nat
        /\ Cardinality(Counting') = Cardinality(Counting) - (IF at[c] = "count" THEN 1 ELSE 0)
        /\ Cardinality(Promoting') = Cardinality(Promoting) - (IF at[c] = "promote" THEN 1 ELSE 0)
    BY <1>4, <2>2
  <2>. QED BY <1>2, <2>1, <2>3
<1>6. CASE CheckTotalLimit(c) /\ active < MaxConnections
  <2>1. active' = active /\ at[c] = "total_limit" /\ Moves(c, "count")
    BY <1>2, <1>6 DEF CheckTotalLimit, Goto, Moves
  <2>2. Cardinality(Promoting) \in Nat /\ Cardinality(Promoting') = Cardinality(Promoting)
    BY <1>4, <2>1 DEF Locations
  <2>3. Cardinality(Counting') \in Nat /\ Cardinality(Counting') <= Slack
    <3>1. RequestsConfined'
      BY ConfinedStep
    <3>2. Counting' \subseteq Requesters
      BY <3>1 DEF RequestsConfined, Counting, CallersAt, RequestLocations
    <3>3. IsFiniteSet(Requesters) /\ IsFiniteSet(Counting')
      BY <3>2, CallersAssumption, FS_Subset
    <3>. QED BY <3>2, <3>3, FS_Subset, FS_CardinalityType
  <2>. QED BY <1>2, <1>3, <1>6, <2>1, <2>2, <2>3
<1>7. CASE CountConnection(c)
  <2>1. active' = active + 1 /\ at[c] = "count" /\ Moves(c, "count_user")
    BY <1>7 DEF CountConnection, Goto, Moves
  <2>2. /\ Cardinality(Counting) \in Nat /\ Cardinality(Counting') = Cardinality(Counting) - 1
        /\ Cardinality(Promoting) \in Nat /\ Cardinality(Promoting') = Cardinality(Promoting)
    BY <1>4, <2>1 DEF Locations
  <2>. QED BY <1>2, <2>1, <2>2
<1>8. CASE PopWaiting(c)
  <2>1. /\ active' = active /\ active < MaxConnections /\ queueLock = NoCaller
        /\ at[c] = "dequeue" /\ Moves(c, "promote")
    BY <1>8 DEF PopWaiting, Goto, Moves
  <2>2. /\ Cardinality(Counting) \in Nat /\ Cardinality(Counting') = Cardinality(Counting)
        /\ Cardinality(Promoting') = Cardinality(Promoting) + 1
    BY <1>4, <2>1 DEF Locations
  <2>. QED BY <1>2, <1>3, <2>1, <2>2
<1>9. CASE PromoteConnection(c)
  <2>1. active' = active + 1 /\ at[c] = "promote" /\ Moves(c, "promote_user")
    BY <1>9 DEF PromoteConnection, Goto, Moves
  <2>2. /\ Cardinality(Counting) \in Nat /\ Cardinality(Counting') = Cardinality(Counting)
        /\ Cardinality(Promoting) \in Nat /\ Cardinality(Promoting') = Cardinality(Promoting) - 1
    BY <1>4, <2>1 DEF Locations
  <2>. QED BY <1>2, <2>1, <2>2
<1>. QED BY <1>1, <1>5, <1>6, <1>7, <1>8, <1>9

\* However request_admit's separate test and increment interleave with those
\* of dequeue_connections, and however often sessions are released twice, the
\* slots in use and promised exceed m_max_connections by at most one per
\* thread that can be inside request_admit.
THEOREM OvershootBounded == AdmSpec => []PromisedBounded
<1>1. AdmInit => PromisedBounded
  <2>1. "idle" \notin {"count"} /\ "idle" \notin {"promote"}
    OBVIOUS
  <2>2. Cardinality(Requesters) \in Nat
    BY CallersAssumption, FS_Subset, FS_CardinalityType
  <2>. QED BY <2>1, <2>2, NobodyInside, LimitsAssumption
         DEF PromisedBounded, Counting, Promoting, AdmInit
<1>2. PromisedBounded /\ UNCHANGED admVars => PromisedBounded'
  BY DEF PromisedBounded, Counting, Promoting, CallersAt, admVars
<1>3. AdmTypeOK /\ RequestsConfined /\ PromotionExclusive /\ PromisedBounded
        /\ [AdmNext]_admVars => PromisedBounded'
  BY <1>2, PromisedStep
<1>. QED BY <1>1, <1>3, AdmitterTypes, Confined, PromotionsExclude, PTL DEF AdmSpec

\* The count itself, what get_active_connections reports, is within the bound.
THEOREM ActiveOvershoot == AdmSpec => []ActiveBounded
<1>1. AdmTypeOK /\ PromisedBounded => ActiveBounded
  <2>1. IsFiniteSet(Counting) /\ IsFiniteSet(Promoting) /\ IsFiniteSet(Requesters)
    BY CallersAssumption, FS_Subset DEF Counting, Promoting, CallersAt
  <2>2. /\ Cardinality(Counting) \in Nat /\ Cardinality(Promoting) \in Nat
        /\ Cardinality(Requesters) \in Nat
    BY <2>1, FS_CardinalityType
  <2>. QED BY <2>2, LimitsAssumption DEF AdmTypeOK, PromisedBounded, ActiveBounded
<1>. QED BY <1>1, AdmitterTypes, OvershootBounded, PTL

-----------------------------------------------------------------------------
(* The queue *)

\* The queue together with the waiter that is being promoted out of it.
QueueDrainBounded == Len(queue) + Cardinality(Draining) <= MaxQueue

\* The steps that leave the queue alone, and nobody's promotion begun or ended.
QueueAlone(c) ==
  \/ \E s \in Sessions : RequestAdmit(c, s, Anonymous)
  \/ \E s \in Sessions, u \in Users : ReleaseConnection(c, s, u)
  \/ GateRejects(c)
  \/ GatePasses(c)
  \/ CheckUserLimit(c)
  \/ CheckTotalLimit(c)
  \/ CountConnection(c)
  \/ CountUser(c)
  \/ ReleaseUser(c)
  \/ PromoteConnection(c)
  \/ Return(c)

\* Such a step changes neither term of the bound.
LEMMA QueueAloneMoves ==
  ASSUME AdmTypeOK, NEW c \in Callers, QueueAlone(c)
  PROVE  queue' = queue /\ Draining' = Draining
<1>. USE DEF Goto
<1>1. at \in [Callers -> Locations]
  BY DEF AdmTypeOK
<1>2. queue' = queue
  BY DEF QueueAlone, RequestAdmit, ReleaseConnection, GateRejects, GatePasses, CheckUserLimit,
         CheckTotalLimit, CountConnection, CountUser, ReleaseUser, PromoteConnection, Return
<1>3. CASE PromoteConnection(c)
  BY <1>1, <1>2, <1>3 DEF PromoteConnection, Draining, CallersAt
<1>4. CASE ~PromoteConnection(c)
  <2>1. /\ at[c] \notin {"promote", "promote_user"}
        /\ at'[c] \notin {"promote", "promote_user"}
        /\ \A d \in Callers \ {c} : at'[d] = at[d]
    <3>1. CASE CheckUserLimit(c)
      BY <1>1, <3>1 DEF CheckUserLimit
    <3>2. CASE CheckTotalLimit(c)
      BY <1>1, <3>2 DEF CheckTotalLimit
    <3>3. CASE Return(c)
      BY <1>1, <3>3 DEF Return, Answers
    <3>4. CASE ~(CheckUserLimit(c) \/ CheckTotalLimit(c) \/ Return(c))
      BY <1>1, <1>4, <3>4
         DEF QueueAlone, RequestAdmit, ReleaseConnection, GateRejects, GatePasses,
             CountConnection, CountUser, ReleaseUser
    <3>. QED BY <3>1, <3>2, <3>3, <3>4
  <2>. QED BY <1>2, <2>1 DEF Draining, CallersAt
<1>. QED BY <1>3, <1>4

\* The size is tested and the entry pushed under the lock a promotion holds.
LEMMA QueueStep ==
  ASSUME AdmTypeOK, RequestsConfined, PromotionExclusive, QueueDrainBounded, AdmNext
  PROVE  QueueDrainBounded'
<1>1. PICK c \in Callers :
        \/ QueueAlone(c)
        \/ EnqueueConnection(c)
        \/ PopWaiting(c)
        \/ PromoteUser(c)
        \/ ExpireWaiting(c)
  BY DEF AdmNext, RequestStep, ReleaseStep, QueueAlone
<1>2. /\ Len(queue) \in Nat /\ MaxQueue \in Nat
      /\ Len(queue) + Cardinality(Draining) <= MaxQueue
      /\ queueLock = NoCaller => Cardinality(Draining) = 0
  BY LenProperties, LimitsAssumption, InFlight DEF AdmTypeOK, QueueDrainBounded, UserLimit
<1>3. ASSUME NEW to \in Locations, Moves(c, to)
      PROVE  /\ Cardinality(Draining) \in Nat
             /\ Cardinality(Draining') = Cardinality(Draining)
                  + (IF to \in {"promote", "promote_user"} THEN 1 ELSE 0)
                  - (IF at[c] \in {"promote", "promote_user"} THEN 1 ELSE 0)
  BY <1>3, MoveCount DEF Draining
<1>4. CASE QueueAlone(c)
  BY <1>2, <1>4, QueueAloneMoves DEF QueueDrainBounded
<1>5. CASE EnqueueConnection(c)
  <2>1. /\ Cardinality(Draining) = 0 /\ at[c] = "enqueue"
        /\ Moves(c, "rejected") \/ Moves(c, "queued")
    BY <1>2, <1>5 DEF EnqueueConnection, Goto, Moves
  <2>2. Cardinality(Draining') = 0
    BY <1>3, <2>1 DEF Locations, Answers
  <2>3. Len(queue') \in Nat /\ Len(queue') <= MaxQueue
    <3>1. CASE Len(queue) >= MaxQueue
      BY <1>2, <1>5, <2>1, <3>1 DEF EnqueueConnection
    <3>2. CASE ~(Len(queue) >= MaxQueue)
      <4>1. queue' = Append(queue, arg[c]) /\ arg[c] \in Entry
        BY <1>5, <3>2 DEF EnqueueConnection, AdmTypeOK
      <4>2. Len(queue') = Len(queue) + 1
        BY <4>1, AppendProperties DEF AdmTypeOK
      <4>. QED BY <1>2, <3>2, <4>2
    <3>. QED BY <3>1, <3>2
  <2>. QED BY <1>2, <2>2, <2>3 DEF QueueDrainBounded
<1>6. CASE PopWaiting(c)
  <2>1. at[c] = "dequeue" /\ Moves(c, "promote")
    BY <1>6 DEF PopWaiting, Goto, Moves
  <2>2. Cardinality(Draining) \in Nat /\ Cardinality(Draining') = Cardinality(Draining) + 1
    BY <1>3, <2>1 DEF Locations
  <2>3. Len(queue') = Len(queue) - 1
    BY <1>6, HeadTailProperties DEF PopWaiting, AdmTypeOK
  <2>. QED BY <1>2, <2>2, <2>3 DEF QueueDrainBounded
<1>7. CASE PromoteUser(c)
  <2>1. queue' = queue /\ at[c] = "promote_user" /\ Moves(c, "dequeue")
    BY <1>7 DEF PromoteUser, Goto, Moves
  <2>2. Cardinality(Draining) \in Nat /\ Cardinality(Draining') = Cardinality(Draining) - 1
    BY <1>3, <2>1 DEF Locations
  <2>. QED BY <1>2, <2>1, <2>2 DEF QueueDrainBounded
<1>8. CASE ExpireWaiting(c)
  <2>1. at[c] = "dequeue" /\ Moves(c, "released")
    BY <1>8 DEF ExpireWaiting, Goto, Moves
  <2>2. Cardinality(Draining) \in Nat /\ Cardinality(Draining') = Cardinality(Draining)
    BY <1>3, <2>1 DEF Locations
  <2>3. PICK n \in 0..Len(queue) : queue' = SubSeq(queue, n + 1, Len(queue))
    BY <1>8 DEF ExpireWaiting
  <2>4. Len(queue') = Len(queue) - n
    BY <2>3, ExpireType DEF AdmTypeOK
  <2>. QED BY <1>2, <2>2, <2>4 DEF QueueDrainBounded
<1>. QED BY <1>1, <1>4, <1>5, <1>6, <1>7, <1>8

\* The queue and the waiter in promotion together fit m_max_queue_size.
LEMMA QueueDrains == AdmSpec => []QueueDrainBounded
<1>1. AdmInit => QueueDrainBounded
  <2>1. "idle" \notin {"promote", "promote_user"}
    OBVIOUS
  <2>2. AdmInit => Cardinality(Draining) = 0
    BY <2>1, NobodyInside DEF Draining
  <2>. QED BY <2>2, EmptySeq, LimitsAssumption DEF QueueDrainBounded, AdmInit
<1>2. QueueDrainBounded /\ UNCHANGED admVars => QueueDrainBounded'
  BY DEF QueueDrainBounded, Draining, CallersAt, admVars
<1>3. AdmTypeOK /\ RequestsConfined /\ PromotionExclusive /\ QueueDrainBounded
        /\ [AdmNext]_admVars => QueueDrainBounded'
  BY <1>2, QueueStep
<1>. QED BY <1>1, <1>3, AdmitterTypes, Confined, PromotionsExclude, PTL DEF AdmSpec

\* m_queue never outgrows m_max_queue_size, although dequeue_connections drops
\* and retakes the lock in the middle of its loop (connection_admitter.cpp:127).
THEOREM QueueFits == AdmSpec => []QueueBounded
<1>1. AdmTypeOK /\ QueueDrainBounded => QueueBounded
  <2>1. IsFiniteSet(Draining)
    BY CallersAssumption, FS_Subset DEF Draining, CallersAt
  <2>2. Cardinality(Draining) \in Nat
    BY <2>1, FS_CardinalityType
  <2>. QED BY <2>2, LenProperties, LimitsAssumption
         DEF AdmTypeOK, QueueDrainBounded, QueueBounded
<1>. QED BY <1>1, AdmitterTypes, QueueDrains, PTL

-----------------------------------------------------------------------------
(* The per-user limit *)

\* Slots of the empty name that are taken, waited for or about to be taken.
UserLoad ==
  userConns[Anonymous] + Len(queue) + Cardinality(Admitting) + Cardinality(Draining)

\* A caller's move, in numbers.
LEMMA LoadMoves ==
  ASSUME AdmTypeOK, NEW c \in Callers, NEW to \in Locations, Moves(c, to)
  PROVE  /\ Cardinality(Admitting) \in Nat /\ Cardinality(Draining) \in Nat
         /\ Cardinality(Admitting') = Cardinality(Admitting)
              + (IF to \in {"total_limit", "enqueue", "count", "count_user"} THEN 1 ELSE 0)
              - (IF at[c] \in {"total_limit", "enqueue", "count", "count_user"} THEN 1 ELSE 0)
         /\ Cardinality(Draining') = Cardinality(Draining)
              + (IF to \in {"promote", "promote_user"} THEN 1 ELSE 0)
              - (IF at[c] \in {"promote", "promote_user"} THEN 1 ELSE 0)
<1>1. /\ Cardinality(Admitting) \in Nat
      /\ Cardinality(Admitting') = Cardinality(Admitting)
           + (IF to \in {"total_limit", "enqueue", "count", "count_user"} THEN 1 ELSE 0)
           - (IF at[c] \in {"total_limit", "enqueue", "count", "count_user"} THEN 1 ELSE 0)
  BY MoveCount DEF Admitting
<1>2. /\ Cardinality(Draining) \in Nat
      /\ Cardinality(Draining') = Cardinality(Draining)
           + (IF to \in {"promote", "promote_user"} THEN 1 ELSE 0)
           - (IF at[c] \in {"promote", "promote_user"} THEN 1 ELSE 0)
  BY MoveCount DEF Draining
<1>. QED BY <1>1, <1>2

\* Passing the user's test is the only step that adds to the load.
PassesUserLimit(c) == CheckUserLimit(c) /\ userConns[arg[c].user] < UserLimit

\* Every other step moves load from one of its terms to another, or drops it.
LEMMA LoadStep ==
  ASSUME AdmTypeOK, RequestsConfined, NEW c \in Callers, ~PassesUserLimit(c),
         \/ \E s \in Sessions : RequestAdmit(c, s, Anonymous)
         \/ \E s \in Sessions, u \in Users : ReleaseConnection(c, s, u)
         \/ RequestStep(c)
         \/ ReleaseStep(c)
         \/ Return(c)
  PROVE  UserLoad' <= UserLoad
<1>. USE DEF UserLoad
<1>1. /\ userConns \in [Users -> Nat] /\ Anonymous \in Users
      /\ userConns[Anonymous] \in Nat /\ Len(queue) \in Nat
      /\ arg[c] \in Entry /\ arg[c].user \in Users
  BY EntryType, LenProperties DEF AdmTypeOK
<1>2. ASSUME NEW to \in Locations, Moves(c, to),
             userConns'[Anonymous] \in Nat, userConns'[Anonymous] <= userConns[Anonymous],
             Len(queue') \in Nat, Len(queue') <= Len(queue),
             to \notin {"promote", "promote_user"} \/ at[c] = "promote",
             \/ to \notin {"total_limit", "enqueue", "count", "count_user"}
             \/ at[c] \in {"total_limit", "enqueue", "count", "count_user"}
      PROVE  UserLoad' <= UserLoad
  <2>1. /\ Cardinality(Admitting) \in Nat /\ Cardinality(Draining) \in Nat
        /\ Cardinality(Admitting') \in Int /\ Cardinality(Admitting') <= Cardinality(Admitting)
        /\ Cardinality(Draining') \in Int /\ Cardinality(Draining') <= Cardinality(Draining)
    BY <1>2, LoadMoves
  <2>. QED BY <1>1, <1>2, <2>1
<1>3. ASSUME UNCHANGED <<userConns, queue>>
      PROVE  /\ userConns'[Anonymous] \in Nat /\ userConns'[Anonymous] <= userConns[Anonymous]
             /\ Len(queue') \in Nat /\ Len(queue') <= Len(queue)
  BY <1>1, <1>3
<1>4. CASE \E s \in Sessions : RequestAdmit(c, s, Anonymous)
  <2>1. Moves(c, "gate") /\ UNCHANGED <<userConns, queue>>
    BY <1>4 DEF RequestAdmit, Goto, Moves
  <2>. QED BY <1>2, <1>3, <2>1 DEF Locations
<1>5. CASE \E s \in Sessions, u \in Users : ReleaseConnection(c, s, u)
  <2>1. Moves(c, "dec_user") /\ UNCHANGED <<userConns, queue>>
    BY <1>5 DEF ReleaseConnection, Goto, Moves
  <2>. QED BY <1>2, <1>3, <2>1 DEF Locations
<1>6. CASE RequestStep(c)
  <2>1. CASE GateRejects(c) \/ GatePasses(c)
    <3>1. (Moves(c, "rejected") \/ Moves(c, "user_limit")) /\ UNCHANGED <<userConns, queue>>
      BY <2>1 DEF GateRejects, GatePasses, Goto, Moves
    <3>. QED BY <1>2, <1>3, <3>1 DEF Locations, Answers
  <2>2. CASE CheckUserLimit(c)
    <3>1. AtUserLimit(arg[c].user)
      BY <1>1, <2>2, LimitsAssumption DEF PassesUserLimit, UserLimit, AtUserLimit
    <3>2. Moves(c, "rejected") /\ UNCHANGED <<userConns, queue>>
      BY <2>2, <3>1 DEF CheckUserLimit, Goto, Moves
    <3>. QED BY <1>2, <1>3, <3>2 DEF Locations, Answers
  <2>3. CASE CheckTotalLimit(c)
    <3>1. /\ at[c] = "total_limit" /\ UNCHANGED <<userConns, queue>>
          /\ Moves(c, "count") \/ Moves(c, "enqueue") \/ Moves(c, "rejected")
      BY <2>3 DEF CheckTotalLimit, Goto, Moves
    <3>. QED BY <1>2, <1>3, <3>1 DEF Locations, Answers
  <2>4. CASE EnqueueConnection(c)
    <3>1. /\ at[c] = "enqueue" /\ userConns' = userConns
          /\ \/ Moves(c, "rejected") /\ queue' = queue
             \/ Moves(c, "queued") /\ queue' = Append(queue, arg[c])
      BY <2>4 DEF EnqueueConnection, Goto, Moves
    <3>2. CASE Moves(c, "rejected") /\ queue' = queue
      BY <1>2, <1>3, <3>1, <3>2 DEF Locations, Answers
    <3>3. CASE Moves(c, "queued") /\ queue' = Append(queue, arg[c])
      <4>1. Len(queue') = Len(queue) + 1
        BY <1>1, <3>3, AppendProperties DEF AdmTypeOK
      <4>2. /\ Cardinality(Admitting) \in Nat /\ Cardinality(Draining) \in Nat
            /\ Cardinality(Admitting') = Cardinality(Admitting) - 1
            /\ Cardinality(Draining') = Cardinality(Draining)
        BY <3>1, <3>3, LoadMoves DEF Locations, Answers
      <4>. QED BY <1>1, <3>1, <4>1, <4>2
    <3>. QED BY <3>1, <3>2, <3>3
  <2>5. CASE CountConnection(c)
    <3>1. at[c] = "count" /\ Moves(c, "count_user") /\ UNCHANGED <<userConns, queue>>
      BY <2>5 DEF CountConnection, Goto, Moves
    <3>. QED BY <1>2, <1>3, <3>1 DEF Locations
  <2>6. CASE CountUser(c)
    <3>1. at[c] = "count_user" /\ Moves(c, "accepted") /\ queue' = queue
      BY <2>6 DEF CountUser, Goto, Moves
    <3>2. arg[c].user = Anonymous
      BY <3>1 DEF RequestsConfined, CallersAt, RequestLocations
    <3>3. userConns'[Anonymous] = userConns[Anonymous] + 1
      BY <1>1, <2>6, <3>2 DEF CountUser
    <3>4. /\ Cardinality(Admitting) \in Nat /\ Cardinality(Draining) \in Nat
          /\ Cardinality(Admitting') = Cardinality(Admitting) - 1
          /\ Cardinality(Draining') = Cardinality(Draining)
      BY <3>1, LoadMoves DEF Locations, Answers
    <3>. QED BY <1>1, <3>1, <3>3, <3>4
  <2>. QED BY <1>6, <2>1, <2>2, <2>3, <2>4, <2>5, <2>6 DEF RequestStep
<1>7. CASE ReleaseStep(c)
  <2>1. CASE ReleaseUser(c)
    <3>1. Moves(c, "dequeue") /\ queue' = queue
      BY <2>1 DEF ReleaseUser, Goto, Moves
    <3>2. userConns'[Anonymous] \in Nat /\ userConns'[Anonymous] <= userConns[Anonymous]
      BY <1>1, <2>1 DEF ReleaseUser
    <3>. QED BY <1>1, <1>2, <3>1, <3>2 DEF Locations
  <2>2. CASE PopWaiting(c)
    <3>1. at[c] = "dequeue" /\ Moves(c, "promote") /\ userConns' = userConns
      BY <2>2 DEF PopWaiting, Goto, Moves
    <3>2. Len(queue') = Len(queue) - 1
      BY <2>2, HeadTailProperties DEF PopWaiting, AdmTypeOK
    <3>3. /\ Cardinality(Admitting) \in Nat /\ Cardinality(Draining) \in Nat
          /\ Cardinality(Admitting') = Cardinality(Admitting)
          /\ Cardinality(Draining') = Cardinality(Draining) + 1
      BY <3>1, LoadMoves DEF Locations
    <3>. QED BY <1>1, <3>1, <3>2, <3>3
  <2>3. CASE PromoteConnection(c)
    <3>1. at[c] = "promote" /\ Moves(c, "promote_user") /\ UNCHANGED <<userConns, queue>>
      BY <2>3 DEF PromoteConnection, Goto, Moves
    <3>. QED BY <1>2, <1>3, <3>1 DEF Locations
  <2>4. CASE PromoteUser(c)
    <3>1. at[c] = "promote_user" /\ Moves(c, "dequeue") /\ queue' = queue
      BY <2>4 DEF PromoteUser, Goto, Moves
    <3>2. userConns'[Anonymous] \in Nat /\ userConns'[Anonymous] <= userConns[Anonymous] + 1
      BY <1>1, <2>4 DEF PromoteUser
    <3>3. /\ Cardinality(Admitting) \in Nat /\ Cardinality(Draining) \in Nat
          /\ Cardinality(Admitting') = Cardinality(Admitting)
          /\ Cardinality(Draining') = Cardinality(Draining) - 1
      BY <3>1, LoadMoves DEF Locations
    <3>. QED BY <1>1, <3>1, <3>2, <3>3
  <2>5. CASE ExpireWaiting(c)
    <3>1. Moves(c, "released") /\ userConns' = userConns
      BY <2>5 DEF ExpireWaiting, Goto, Moves
    <3>2. PICK n \in 0..Len(queue) : queue' = SubSeq(queue, n + 1, Len(queue))
      BY <2>5 DEF ExpireWaiting
    <3>3. Len(queue') \in Nat /\ Len(queue') <= Len(queue)
      BY <1>1, <3>2, ExpireType DEF AdmTypeOK
    <3>. QED BY <1>1, <1>2, <3>1, <3>3 DEF Locations
  <2>. QED BY <1>7, <2>1, <2>2, <2>3, <2>4, <2>5 DEF ReleaseStep
<1>8. CASE Return(c)
  <2>1. Moves(c, "idle") /\ UNCHANGED <<userConns, queue>>
    BY <1>8 DEF Return, Moves
  <2>. QED BY <1>2, <1>3, <2>1 DEF Locations
<1>. QED BY <1>4, <1>5, <1>6, <1>7, <1>8

\* The test that lets a caller through sees a count below the limit, and what
\* else can be in flight is a full queue and the requesters.
LEMMA UserOvershootStep ==
  ASSUME AdmTypeOK, RequestsConfined, PromotionExclusive, QueueDrainBounded,
         UserOvershootBounded, AdmNext
  PROVE  UserOvershootBounded'
<1>. DEFINE Limit == UserLimit + MaxQueue + Cardinality(Requesters)
<1>1. PICK c \in Callers :
        \/ \E s \in Sessions : RequestAdmit(c, s, Anonymous)
        \/ \E s \in Sessions, u \in Users : ReleaseConnection(c, s, u)
        \/ RequestStep(c)
        \/ ReleaseStep(c)
        \/ Return(c)
  BY DEF AdmNext
<1>2. AdmTypeOK'
  BY AdmStepType
<1>3. /\ Limit \in Nat /\ UserLoad < Limit
      /\ UserOvershootBounded' <=> UserLoad' < Limit
  BY LimitsAssumption, InFlight DEF UserOvershootBounded, UserLoad, UserLimit
<1>4. UserLoad \in Nat /\ UserLoad' \in Nat
  <2>1. /\ IsFiniteSet(Admitting) /\ IsFiniteSet(Draining)
        /\ IsFiniteSet(Admitting') /\ IsFiniteSet(Draining')
    BY CallersAssumption, FS_Subset DEF Admitting, Draining, CallersAt
  <2>2. /\ Cardinality(Admitting) \in Nat /\ Cardinality(Draining) \in Nat
        /\ Cardinality(Admitting') \in Nat /\ Cardinality(Draining') \in Nat
    BY <2>1, FS_CardinalityType
  <2>3. /\ userConns[Anonymous] \in Nat /\ Len(queue) \in Nat
        /\ userConns'[Anonymous] \in Nat /\ Len(queue') \in Nat
    BY <1>2, EntryType, LenProperties DEF AdmTypeOK
  <2>4. UserLoad \in Nat
    BY <2>2, <2>3 DEF UserLoad
  <2>5. UserLoad' = userConns'[Anonymous] + Len(queue') + Cardinality(Admitting') + Cardinality(Draining')
    BY DEF UserLoad
  <2>. QED BY <2>2, <2>3, <2>4, <2>5
<1>5. CASE ~PassesUserLimit(c)
  <2>1. UserLoad' <= UserLoad
    BY <1>1, <1>5, LoadStep
  <2>. QED BY <1>3, <1>4, <2>1
<1>6. CASE PassesUserLimit(c)
  <2>1. at[c] = "user_limit" /\ Moves(c, "total_limit") /\ UNCHANGED <<userConns, queue>>
    <3>1. userConns[arg[c].user] \in Nat /\ MaxPerUser \in Nat
      BY EntryType, LimitsAssumption DEF AdmTypeOK
    <3>2. ~AtUserLimit(arg[c].user)
      BY <1>6, <3>1 DEF PassesUserLimit, UserLimit, AtUserLimit
    <3>. QED BY <1>6, <3>2 DEF PassesUserLimit, CheckUserLimit, Goto, Moves
  <2>2. userConns[Anonymous] < UserLimit
    <3>1. arg[c].user = Anonymous
      BY <2>1 DEF RequestsConfined, CallersAt, RequestLocations
    <3>. QED BY <1>6, <3>1 DEF PassesUserLimit
  <2>3. Cardinality(Draining) \in Nat /\ Cardinality(Draining') = Cardinality(Draining)
    BY <2>1, LoadMoves DEF Locations
  <2>4. Cardinality(Admitting') \in Nat /\ Cardinality(Admitting') <= Cardinality(Requesters)
    <3>1. RequestsConfined'
      BY ConfinedStep
    <3>2. Admitting' \subseteq Requesters
      BY <3>1 DEF RequestsConfined, Admitting, CallersAt, RequestLocations
    <3>3. IsFiniteSet(Requesters) /\ IsFiniteSet(Admitting')
      BY <3>2, CallersAssumption, FS_Subset
    <3>. QED BY <3>2, <3>3, FS_Subset, FS_CardinalityType
  <2>5. /\ userConns[Anonymous] \in Nat /\ Len(queue) \in Nat /\ UserLimit \in Nat
        /\ MaxQueue \in Nat /\ Cardinality(Requesters) \in Nat
        /\ Len(queue) + Cardinality(Draining) <= MaxQueue
    BY EntryType, LenProperties, LimitsAssumption, InFlight DEF AdmTypeOK, QueueDrainBounded, UserLimit
  <2>6. UserLoad' = userConns[Anonymous] + Len(queue) + Cardinality(Admitting') + Cardinality(Draining)
    BY <2>1, <2>3 DEF UserLoad
  <2>7. UserLoad' < Limit
    <3>1. ASSUME NEW n \in Nat, NEW q \in Nat, NEW a \in Nat, NEW d \in Nat,
                 NEW l \in Nat, NEW m \in Nat, NEW r \in Nat,
                 n < l, q + d <= m, a <= r
          PROVE  n + q + a + d < l + m + r
      BY <3>1
    <3>2. userConns[Anonymous] + Len(queue) + Cardinality(Admitting') + Cardinality(Draining)
            < UserLimit + MaxQueue + Cardinality(Requesters)
      <4> HIDE DEF Limit
      <4>. QED BY <2>2, <2>3, <2>4, <2>5, <3>1
    <3>. QED BY <2>6, <3>2
  <2>. QED BY <1>3, <2>7
<1>. QED BY <1>5, <1>6

\* The per-user limit is tested once, before the queue, and never when a waiter
\* is promoted (connection_admitter.cpp:43, 124): the empty name can exceed it,
\* by less than the queue and the requesting threads, whatever is released.  The
\* limit counts as 1 when it is 0: a name without an entry passes line 43.
THEOREM UserOvershoot == AdmSpec => []UserOvershootBounded
<1>1. AdmInit => UserOvershootBounded
  <2>1. /\ "idle" \notin {"promote", "promote_user"}
        /\ "idle" \notin {"total_limit", "enqueue", "count", "count_user"}
    OBVIOUS
  <2>2. AdmInit => Cardinality(Draining) = 0 /\ Cardinality(Admitting) = 0
    BY <2>1, NobodyInside DEF Draining, Admitting
  <2>3. Cardinality(Requesters) \in Nat \ {0}
    BY CallersAssumption, FS_Subset, FS_CardinalityType, FS_EmptySet
  <2>4. AdmInit => userConns[Anonymous] = 0 /\ Len(queue) = 0
    BY EntryType, EmptySeq DEF AdmInit
  <2>. QED BY <2>2, <2>3, <2>4, LimitsAssumption DEF UserOvershootBounded, UserLimit
<1>2. UserOvershootBounded /\ UNCHANGED admVars => UserOvershootBounded'
  BY DEF UserOvershootBounded, Admitting, Draining, CallersAt, admVars
<1>3. AdmTypeOK /\ RequestsConfined /\ PromotionExclusive /\ QueueDrainBounded
        /\ UserOvershootBounded /\ [AdmNext]_admVars => UserOvershootBounded'
  BY <1>2, UserOvershootStep
<1>. QED BY <1>1, <1>3, AdmitterTypes, Confined, PromotionsExclude, QueueDrains, PTL DEF AdmSpec

-----------------------------------------------------------------------------
(* The admitter implements SlotLimiter *)

\* Putting a waiter back in front of the line, and taking it out again.
LEMMA FrontOfLine ==
  ASSUME NEW q \in Seq(Entry), NEW e \in Entry
  PROVE  /\ <<e>> \o q \in Seq(Entry)
         /\ <<e>> \o q # <<>>
         /\ Tail(<<e>> \o q) = q
         /\ q # <<>> => <<Head(q)>> \o Tail(q) = q
<1>1. ASSUME NEW r \in Seq(Entry), NEW f \in Entry
      PROVE  /\ <<f>> \o r \in Seq(Entry)
             /\ Len(r) \in Nat
             /\ Len(<<f>> \o r) = Len(r) + 1
             /\ (<<f>> \o r)[1] = f
             /\ \A i \in 1..Len(r) : (<<f>> \o r)[i + 1] = r[i]
  <2>1. <<f>> \in Seq(Entry) /\ Len(<<f>>) = 1 /\ <<f>>[1] = f
    OBVIOUS
  <2>2. Len(r) \in Nat
    BY LenProperties
  <2>3. /\ <<f>> \o r \in Seq(Entry)
        /\ Len(<<f>> \o r) = Len(<<f>>) + Len(r)
        /\ \A i \in 1..Len(<<f>>) + Len(r) :
             (<<f>> \o r)[i] = IF i <= Len(<<f>>) THEN <<f>>[i] ELSE r[i - Len(<<f>>)]
    BY <2>1, ConcatProperties
  <2>4. \A i \in 1..Len(r) : (<<f>> \o r)[i + 1] = r[i]
    BY <2>1, <2>2, <2>3
  <2>. QED BY <2>1, <2>2, <2>3, <2>4
<1>2. <<e>> \o q \in Seq(Entry) /\ <<e>> \o q # <<>>
  BY <1>1, EmptySeq
<1>3. Tail(<<e>> \o q) = q
  <2>1. /\ Tail(<<e>> \o q) \in Seq(Entry)
        /\ Len(Tail(<<e>> \o q)) = Len(q)
        /\ \A i \in 1..Len(q) : Tail(<<e>> \o q)[i] = (<<e>> \o q)[i + 1]
    BY <1>1, <1>2, HeadTailProperties
  <2>2. \A i \in 1..Len(q) : Tail(<<e>> \o q)[i] = q[i]
    BY <1>1, <2>1
  <2>. QED BY <2>1, <2>2, SeqEqual
<1>4. ASSUME q # <<>>
      PROVE  <<Head(q)>> \o Tail(q) = q
  <2>1. /\ Head(q) \in Entry /\ Tail(q) \in Seq(Entry) /\ Len(Tail(q)) = Len(q) - 1
        /\ Len(q) \in Nat \ {0} /\ Head(q) = q[1]
        /\ \A i \in 1..Len(Tail(q)) : Tail(q)[i] = q[i + 1]
    BY <1>4, HeadTailProperties, EmptySeq
  <2>2. /\ <<Head(q)>> \o Tail(q) \in Seq(Entry)
        /\ Len(<<Head(q)>> \o Tail(q)) = Len(q)
        /\ (<<Head(q)>> \o Tail(q))[1] = q[1]
        /\ \A i \in 1..Len(q) - 1 : (<<Head(q)>> \o Tail(q))[i + 1] = q[i + 1]
    BY <1>1, <2>1
  <2>3. ASSUME NEW i \in 1..Len(q)
        PROVE  (<<Head(q)>> \o Tail(q))[i] = q[i]
    <3>1. CASE i = 1
      BY <2>2, <3>1
    <3>2. CASE i # 1
      <4>1. i - 1 \in 1..Len(q) - 1 /\ (i - 1) + 1 = i
        BY <2>1, <3>2
      <4>. QED BY <2>2, <4>1
    <3>. QED BY <3>1, <3>2
  <2>. QED BY <2>2, <2>3, SeqEqual
<1>. QED BY <1>2, <1>3, <1>4

\* Outside a promotion the line is the queue; during one it has the popped
\* waiter in front.
LEMMA LineIs ==
  /\ Promoting = {} => Line = queue
  /\ \A c : Promoting = {c} => Line = <<arg[c]>> \o queue
BY DEF Line

\* Who is promoting: nobody while the lock is free, and nobody else than c.
LEMMA WhoPromotes ==
  ASSUME PromotionExclusive
  PROVE  /\ queueLock = NoCaller => Promoting = {}
         /\ \A c \in Callers : at[c] = "promote" => Promoting = {c}
         /\ \A c \in Callers : at[c] = "promote_user" => Promoting = {}
BY CallersAssumption DEF PromotionExclusive, Promoting, Draining, CallersAt

\* A step of a caller that is not promoting, and leaves the queue alone,
\* leaves the line alone.
LEMMA LineStays ==
  ASSUME AdmTypeOK, NEW c \in Callers, NEW to, Moves(c, to), to # "promote",
         at[c] # "promote", queue' = queue, \A d \in Callers \ {c} : arg'[d] = arg[d]
  PROVE  Line' = Line
<1>1. Promoting' = Promoting
  BY DEF Promoting, CallersAt, Moves, AdmTypeOK
<1>2. CASE Promoting = {}
  BY <1>1, <1>2 DEF Line
<1>3. CASE Promoting # {}
  <2>1. (CHOOSE d \in Promoting : TRUE) \in Promoting
    BY <1>3
  <2>2. \A d \in Promoting : arg'[d] = arg[d]
    BY DEF Promoting, CallersAt
  <2>. QED BY <1>1, <1>3, <2>1, <2>2 DEF Line
<1>. QED BY <1>2, <1>3

\* Every step of the admitter is a step of the limiter or leaves it alone.
LEMMA LimiterStep ==
  ASSUME AdmTypeOK, RequestsConfined, PromotionExclusive, PromisedBounded, AdmNext
  PROVE  [Limiter!Next]_(Limiter!lvars)
<1>. DEFINE Slack == Cardinality(Requesters)
<1>1. PICK c \in Callers :
        \/ \E s \in Sessions : RequestAdmit(c, s, Anonymous)
        \/ \E s \in Sessions, u \in Users : ReleaseConnection(c, s, u)
        \/ RequestStep(c)
        \/ ReleaseStep(c)
        \/ Return(c)
  BY DEF AdmNext
<1>2. /\ active \in Nat /\ MaxConnections \in Nat /\ Slack \in Nat
      /\ queue \in Seq(Entry) /\ arg[c] \in Entry
      /\ at \in [Callers -> Locations] /\ arg \in [Callers -> Entry]
  BY LimitsAssumption, InFlight DEF AdmTypeOK
<1>3. ASSUME active' = active, Line' = Line
      PROVE  [Limiter!Next]_(Limiter!lvars)
  BY <1>3 DEF Limiter!lvars
<1>4. ASSUME NEW x \in {"count", "promote"}, at[c] = x
      PROVE  active < MaxConnections + Slack
  <2>1. IsFiniteSet(Counting) /\ IsFiniteSet(Promoting)
    BY CallersAssumption, FS_Subset DEF Counting, Promoting, CallersAt
  <2>2. /\ Cardinality(Counting) \in Nat /\ Cardinality(Promoting) \in Nat
        /\ Cardinality(Counting) = 0 <=> Counting = {}
        /\ Cardinality(Promoting) = 0 <=> Promoting = {}
    BY <2>1, FS_CardinalityType, FS_EmptySet
  <2>3. Counting # {} \/ Promoting # {}
    BY <1>4 DEF Counting, Promoting, CallersAt
  <2>. QED BY <1>2, <2>2, <2>3 DEF PromisedBounded
<1>5. CASE \E s \in Sessions : RequestAdmit(c, s, Anonymous)
  <2>1. /\ Moves(c, "gate") /\ at[c] = "idle" /\ queue' = queue /\ active' = active
        /\ \A d \in Callers \ {c} : arg'[d] = arg[d]
    BY <1>2, <1>5 DEF RequestAdmit, Goto, Moves
  <2>. QED BY <1>3, <2>1, LineStays
<1>6. CASE \E s \in Sessions, u \in Users : ReleaseConnection(c, s, u)
  <2>1. /\ Moves(c, "dec_user") /\ at[c] = "idle" /\ queue' = queue
        /\ \A d \in Callers \ {c} : arg'[d] = arg[d]
    BY <1>2, <1>6 DEF ReleaseConnection, Goto, Moves
  <2>2. Line' = Line
    BY <2>1, LineStays
  <2>3. active' = IF active > 0 THEN active - 1 ELSE active
    BY <1>6 DEF ReleaseConnection
  <2>4. CASE active > 0
    BY <2>2, <2>3, <2>4 DEF Limiter!Next, Limiter!Release
  <2>5. CASE ~(active > 0)
    BY <1>3, <2>2, <2>3, <2>5
  <2>. QED BY <2>4, <2>5
<1>7. CASE RequestStep(c)
  <2>1. CASE \/ GateRejects(c) \/ GatePasses(c) \/ CheckUserLimit(c)
             \/ CheckTotalLimit(c) \/ CountUser(c)
    <3>1. /\ at[c] # "promote" /\ queue' = queue /\ active' = active /\ arg' = arg
      BY <2>1 DEF GateRejects, GatePasses, CheckUserLimit, CheckTotalLimit, CountUser, Goto
    <3>2. \E to : Moves(c, to) /\ to # "promote"
      BY <2>1 DEF GateRejects, GatePasses, CheckUserLimit, CheckTotalLimit, CountUser, Goto, Moves
    <3>. QED BY <1>3, <3>1, <3>2, LineStays
  <2>2. CASE EnqueueConnection(c)
    <3>1. queueLock = NoCaller /\ at[c] = "enqueue" /\ active' = active /\ arg' = arg
      BY <2>2 DEF EnqueueConnection, Goto
    <3>2. CASE Len(queue) >= MaxQueue
      <4>1. Moves(c, "rejected") /\ queue' = queue
        BY <2>2, <3>2 DEF EnqueueConnection, Goto, Moves
      <4>. QED BY <1>3, <3>1, <4>1, LineStays
    <3>3. CASE ~(Len(queue) >= MaxQueue)
      <4>1. Moves(c, "queued") /\ queue' = Append(queue, arg[c])
        BY <2>2, <3>3 DEF EnqueueConnection, Goto, Moves
      <4>2. Promoting = {} /\ Promoting' = {}
        <5>1. Promoting = {}
          BY <3>1, WhoPromotes
        <5>. QED BY <1>2, <4>1, <5>1 DEF Promoting, CallersAt, Moves
      <4>3. Line = queue /\ Line' = queue'
        BY <4>2 DEF Line
      <4>4. Len(Line) < MaxQueue
        BY <1>2, <3>3, <4>3, LenProperties, LimitsAssumption
      <4>5. Limiter!Wait(arg[c])
        BY <3>1, <4>1, <4>3, <4>4 DEF Limiter!Wait
      <4>. QED BY <1>2, <4>5 DEF Limiter!Next
    <3>. QED BY <3>2, <3>3
  <2>3. CASE CountConnection(c)
    <3>1. /\ Moves(c, "count_user") /\ at[c] = "count" /\ queue' = queue
          /\ active' = active + 1 /\ arg' = arg
      BY <2>3 DEF CountConnection, Goto, Moves
    <3>2. Line' = Line
      BY <3>1, LineStays
    <3>3. active < MaxConnections + Slack
      BY <1>4, <3>1
    <3>. QED BY <3>1, <3>2, <3>3 DEF Limiter!Next, Limiter!Grant
  <2>. QED BY <1>7, <2>1, <2>2, <2>3 DEF RequestStep
<1>8. CASE ReleaseStep(c)
  <2>1. CASE ReleaseUser(c)
    <3>1. /\ Moves(c, "dequeue") /\ at[c] = "dec_user" /\ queue' = queue /\ active' = active
          /\ \A d \in Callers \ {c} : arg'[d] = arg[d]
      BY <1>2, <2>1 DEF ReleaseUser, Goto, Moves
    <3>. QED BY <1>3, <3>1, LineStays
  <2>2. CASE PopWaiting(c)
    <3>1. /\ queueLock = NoCaller /\ queue # <<>> /\ active' = active
          /\ Moves(c, "promote") /\ queue' = Tail(queue) /\ arg'[c] = Head(queue)
      BY <1>2, <2>2 DEF PopWaiting, Goto, Moves
    <3>2. Promoting = {}
      BY <3>1, WhoPromotes
    <3>3. Promoting' = {c}
      BY <1>2, <3>1, <3>2 DEF Promoting, CallersAt, Moves
    <3>4. Line = queue /\ Line' = <<arg'[c]>> \o queue'
      BY <3>2, <3>3 DEF Line
    <3>5. <<Head(queue)>> \o Tail(queue) = queue
      BY <1>2, <3>1, HeadTailProperties, FrontOfLine
    <3>. QED BY <1>3, <3>1, <3>4, <3>5
  <2>3. CASE PromoteConnection(c)
    <3>1. /\ at[c] = "promote" /\ Moves(c, "promote_user") /\ queue' = queue
          /\ active' = active + 1
      BY <2>3 DEF PromoteConnection, Goto, Moves
    <3>2. Promoting = {c}
      BY <3>1, WhoPromotes
    <3>3. Promoting' = {}
      BY <1>2, <3>1, <3>2 DEF Promoting, CallersAt, Moves
    <3>4. Line = <<arg[c]>> \o queue /\ Line' = queue
      BY <3>1, <3>2, <3>3 DEF Line
    <3>5. Line # <<>> /\ Line' = Tail(Line)
      BY <1>2, <3>4, FrontOfLine
    <3>6. active < MaxConnections + Slack
      BY <1>4, <3>1
    <3>. QED BY <3>1, <3>5, <3>6 DEF Limiter!Next, Limiter!Promote
  <2>4. CASE PromoteUser(c)
    <3>1. /\ Moves(c, "dequeue") /\ at[c] = "promote_user" /\ queue' = queue /\ active' = active
          /\ \A d \in Callers \ {c} : arg'[d] = arg[d]
      BY <1>2, <2>4 DEF PromoteUser, Goto, Moves
    <3>. QED BY <1>3, <3>1, LineStays
  <2>5. CASE ExpireWaiting(c)
    <3>1. queueLock = NoCaller /\ Moves(c, "released") /\ active' = active
      BY <2>5 DEF ExpireWaiting, Goto, Moves
    <3>2. PICK n \in 0..Len(queue) : queue' = SubSeq(queue, n + 1, Len(queue))
      BY <2>5 DEF ExpireWaiting
    <3>3. Promoting = {} /\ Promoting' = {}
      <4>1. Promoting = {}
        BY <3>1, WhoPromotes
      <4>. QED BY <1>2, <3>1, <4>1 DEF Promoting, CallersAt, Moves
    <3>4. Line = queue /\ Line' = queue'
      BY <3>3 DEF Line
    <3>5. Len(queue) \in Nat
      BY <1>2, LenProperties
    <3>6. CASE n = 0
      <4>1. queue' = queue
        BY <1>2, <3>2, <3>6, SubSeqFull
      <4>. QED BY <1>3, <3>1, <3>4, <4>1
    <3>7. CASE n # 0
      <4>1. n \in 1..Len(Line)
        BY <3>4, <3>5, <3>7
      <4>2. Limiter!Expire(n)
        BY <3>1, <3>2, <3>4 DEF Limiter!Expire
      <4>. QED BY <4>1, <4>2 DEF Limiter!Next
    <3>. QED BY <3>6, <3>7
  <2>. QED BY <1>8, <2>1, <2>2, <2>3, <2>4, <2>5 DEF ReleaseStep
<1>9. CASE Return(c)
  <2>1. /\ Moves(c, "idle") /\ at[c] # "promote" /\ queue' = queue /\ active' = active
        /\ \A d \in Callers \ {c} : arg'[d] = arg[d]
    BY <1>2, <1>9 DEF Return, Moves, Answers
  <2>. QED BY <1>3, <2>1, LineStays
<1>. QED BY <1>1, <1>5, <1>6, <1>7, <1>8, <1>9

\* With all its threads, atomics and locks the admitter is the abstract
\* limiter: no waiter overtakes another, none is lost between the pop and the
\* count or promoted twice, and the slots never exceed the limit by more than
\* the requesting threads.
THEOREM AdmitterIsLimiter == AdmSpec => ImplementsLimiter
<1>1. AdmInit => Limiter!Init
  <2>1. AdmInit => Promoting = {}
    BY NobodyInside DEF Promoting
  <2>. QED BY <2>1, LineIs DEF AdmInit, Limiter!Init
<1>2. UNCHANGED admVars => UNCHANGED Limiter!lvars
  BY DEF admVars, Limiter!lvars, Line, Promoting, CallersAt
<1>3. AdmTypeOK /\ RequestsConfined /\ PromotionExclusive /\ PromisedBounded
        /\ [AdmNext]_admVars => [Limiter!Next]_(Limiter!lvars)
  BY <1>2, LimiterStep
<1>. QED BY <1>1, <1>3, AdmitterTypes, Confined, PromotionsExclude, OvershootBounded, PTL
     DEF AdmSpec, ImplementsLimiter, Limiter!Spec
=============================================================================
