------------------------- MODULE V2rayProcessProofs ------------------------
(***************************************************************************)
(* Theorems about the supervisor of the v2ray process: its types, and that *)
(* m_pid never names a process that was waited for and that two v2ray      *)
(* processes do not run side by side before the supervisor has given up a  *)
(* living one, whatever children the rest of the gateway has.              *)
(***************************************************************************)
EXTENDS V2rayProcess, FiniteSetTheorems, TLAPS

\* The state after any step has the types, if the state before it has: m_pid
\* is 0 or an id that do_start forked, and the crash count stays in its range.
THEOREM TypesStep == TypeOK /\ [Next]_vars => TypeOK'
  <1> SUFFICES ASSUME TypeOK, [Next]_vars PROVE TypeOK'
    OBVIOUS
  <1> USE ProcessAssumption DEF TypeOK, Callers, Pids, Statuses, Locations,
        CrashLimit, Acquire, GoOn, Return
  <1>1. ASSUME NEW c \in Callers, CallerNext(c) PROVE TypeOK'
    <2>1. CASE AlreadyRunning(c)
      BY <2>1 DEF AlreadyRunning
    <2>2. CASE Starting(c)
      BY <2>2 DEF Starting
    <2>3. CASE ForkFails(c)
      BY <2>3 DEF ForkFails
    <2>4. CASE Fork(c)
      BY <2>4 DEF Fork
    <2>5. CASE InstallHandler(c)
      BY <2>5 DEF InstallHandler
    <2> QED
      BY <1>1, <2>1, <2>2, <2>3, <2>4, <2>5 DEF CallerNext
  <1>2. ASSUME NEW w \in Web, WebNext(w) PROVE TypeOK'
    <2>1. CASE Start(w)
      BY <2>1 DEF Start
    <2>2. CASE StopNothing(w)
      BY <2>2 DEF StopNothing
    <2>3. CASE Stop(w)
      BY <2>3 DEF Stop
    <2>4. CASE Stopped(w)
      BY <2>4 DEF Stopped
    <2> QED
      BY <1>2, <2>1, <2>2, <2>3, <2>4 DEF WebNext
  <1>3. ASSUME MainNext PROVE TypeOK'
    <2>1. CASE CheckChildExit
      BY <2>1 DEF CheckChildExit
    <2>2. CASE Reap
      BY <2>2 DEF Reap
    <2>3. CASE ExitExpected
      BY <2>3 DEF ExitExpected
    <2>4. CASE Crashed
      <3>1. crashes' \in 0..CrashLimit
        BY <2>4 DEF Crashed, Recounted
      <3>2. status' \in Statuses /\ lock' \in Callers \cup {NoCaller}
        BY <2>4 DEF Crashed
      <3>3. at' \in [Callers -> Locations] /\ misled' \in BOOLEAN
        BY <2>4 DEF Crashed, SomeV2rayAlive
      <3> QED
        BY <2>4, <3>1, <3>2, <3>3 DEF Crashed
    <2> QED
      BY <1>3, <2>1, <2>2, <2>3, <2>4 DEF MainNext
  <1>4. ASSUME NEW p \in Pids, Ends(p) PROVE TypeOK'
    BY <1>4 DEF Ends
  <1>5. ASSUME NEW h \in Helpers, HelperStarts(h) \/ HelperReaped(h)
        PROVE  TypeOK'
    BY <1>5 DEF HelperStarts, HelperReaped
  <1>6. CASE UNCHANGED vars
    BY <1>6 DEF vars
  <1> QED
    BY <1>1, <1>2, <1>3, <1>4, <1>5, <1>6 DEF Next

LEMMA TypesInit == Init => TypeOK
  <1> SUFFICES ASSUME Init PROVE TypeOK
    OBVIOUS
  <1>1. proc \in [Pids -> {"absent", "alive", "zombie"}]
    BY DEF Init
  <1>2. at \in [Callers -> Locations]
    BY DEF Init, Locations
  <1>3. lock \in Callers \cup {NoCaller}
    BY DEF Init, Callers
  <1>4. status \in Statuses /\ pid \in V2rays \cup {NoPid} /\ crashes \in 0..CrashLimit
    BY DEF Init, Statuses, CrashLimit
  <1>5. {childExited, stopping, handled, misled} \subseteq BOOLEAN
    BY DEF Init
  <1> QED
    BY <1>1, <1>2, <1>3, <1>4, <1>5 DEF TypeOK

\* The supervisor's state keeps its types, for any number of web threads,
\* process ids and children of popen.
THEOREM SupervisorTypes == Spec => []TypeOK
  BY TypesInit, TypesStep, PTL DEF Spec

-----------------------------------------------------------------------------
(* The pid *)

\* One step keeps m_pid on a child nobody has waited for.  The only waitpid
\* that does not name m_pid is on_child_exit's, which then clears m_pid before
\* it gives m_mutex back; pclose waits for children that m_pid cannot name.
LEMMA PidStep == TypeOK /\ PidIsOwnChild /\ [Next]_vars => PidIsOwnChild'
  <1> SUFFICES ASSUME TypeOK, PidIsOwnChild, [Next]_vars,
                      pid' # NoPid, at'[Main] # "reaped"
               PROVE  proc'[pid'] # "absent"
    BY DEF PidIsOwnChild
  <1> USE ProcessAssumption DEF PidIsOwnChild, TypeOK, Callers, Pids, Acquire, GoOn, Return
  <1>1. ASSUME NEW c \in Callers, CallerNext(c) PROVE proc'[pid'] # "absent"
    <2>1. CASE Fork(c)
      BY <2>1 DEF Fork
    <2>2. ASSUME AlreadyRunning(c) \/ Starting(c) \/ ForkFails(c) \/ InstallHandler(c)
          PROVE  proc'[pid'] # "absent"
      <3>1. UNCHANGED <<proc, pid>> /\ at[Main] # "reaped"
        BY <2>2 DEF AlreadyRunning, Starting, ForkFails, InstallHandler
      <3> QED
        BY <3>1
    <2> QED
      BY <1>1, <2>1, <2>2 DEF CallerNext
  <1>2. ASSUME NEW w \in Web, WebNext(w) PROVE proc'[pid'] # "absent"
    <2>1. CASE Stopped(w)
      BY <2>1 DEF Stopped
    <2>2. ASSUME Start(w) \/ StopNothing(w) \/ Stop(w)
          PROVE  proc'[pid'] # "absent"
      <3>1. UNCHANGED <<proc, pid>> /\ at[Main] # "reaped"
        BY <2>2 DEF Start, StopNothing, Stop
      <3> QED
        BY <3>1
    <2> QED
      BY <1>2, <2>1, <2>2 DEF WebNext
  <1>3. ASSUME MainNext PROVE proc'[pid'] # "absent"
    BY <1>3 DEF MainNext, CheckChildExit, Reap, ExitExpected, Crashed
  <1>4. ASSUME NEW p \in Pids, Ends(p) PROVE proc'[pid'] # "absent"
    BY <1>4 DEF Ends
  <1>5. ASSUME NEW h \in Helpers, HelperStarts(h) \/ HelperReaped(h)
        PROVE  proc'[pid'] # "absent"
    BY <1>5 DEF HelperStarts, HelperReaped
  <1>6. CASE UNCHANGED vars
    BY <1>6 DEF vars
  <1> QED
    BY <1>1, <1>2, <1>3, <1>4, <1>5, <1>6 DEF Next

\* Outside the reaping step of on_child_exit m_pid is 0 or the id of a child
\* that still is one, so kill and waitpid in do_stop never reach a stranger.
THEOREM PidStaysOwn == Spec => []PidIsOwnChild
  <1>1. Init => PidIsOwnChild
    BY DEF Init, PidIsOwnChild
  <1> QED
    BY <1>1, PidStep, SupervisorTypes, PTL DEF Spec

-----------------------------------------------------------------------------
(* One v2ray *)

Inside(c) == at[c] \notin {"idle", "exited"}

\* m_mutex is held exactly by the caller inside the supervisor.
MutexGuards == \A c \in Callers : Inside(c) <=> lock = c

\* do_start forks only after it has seen a status other than running.
ForkNotRunning == \A c \in Callers : at[c] = "fork" => status # "running"

\* do_stop waits for a process only when m_pid names one.
StopHasPid ==
  \A c \in Callers : at[c] \in {"stopping", "restarting"} => pid # NoPid

Alive(v) == proc[v] = "alive"

\* A v2ray that lives is the only one, the status knows of it, and m_pid names
\* it or, when another child was taken for it, nothing.
Known ==
  \A v \in V2rays : Alive(v) =>
    /\ status = "running"
    /\ pid \in {v, NoPid}
    /\ \A u \in V2rays : Alive(u) => u = v

SupervisorInv ==
  /\ TypeOK
  /\ MutexGuards
  /\ ForkNotRunning
  /\ StopHasPid
  /\ misled \/ Known

\* SupervisorInv holds from step to step: whoever is inside the supervisor holds
\* m_mutex, so the status seen before a fork is the status at the fork, and the
\* process do_stop has waited for is the one v2ray there was.  Another child
\* taken for v2ray clears m_pid but not the status, until the crash limit.
LEMMA SupervisorStep == SupervisorInv /\ [Next]_vars => SupervisorInv'
  <1> SUFFICES ASSUME SupervisorInv, [Next]_vars PROVE SupervisorInv'
    OBVIOUS
  <1>0. TypeOK' /\ TypeOK
    BY TypesStep DEF SupervisorInv
  <1>1. /\ V2rays \subseteq Pids /\ V2rays \cap Helpers = {} /\ NoPid \notin Pids
        /\ {Boot, Main} \cap Web = {} /\ Boot # Main /\ NoCaller \notin Callers
    BY ProcessAssumption DEF Pids
  <1>2. /\ at \in [Callers -> Locations]
        /\ proc \in [Pids -> {"absent", "alive", "zombie"}]
        /\ Main \in Callers /\ Web \subseteq Callers
    BY <1>0, <1>1 DEF TypeOK, Callers
  <1> USE DEF MutexGuards, ForkNotRunning, StopHasPid, Known, Alive, Inside
  <1>3. ASSUME NEW c \in Callers, CallerNext(c) PROVE SupervisorInv'
    <2>1. CASE AlreadyRunning(c)
      BY <2>1, <1>0, <1>1, <1>2 DEF AlreadyRunning, SupervisorInv, Return
    <2>2. CASE Starting(c)
      BY <2>2, <1>0, <1>1, <1>2 DEF Starting, SupervisorInv, GoOn
    <2>3. CASE ForkFails(c)
      BY <2>3, <1>0, <1>1, <1>2 DEF ForkFails, SupervisorInv, Return
    <2>4. CASE Fork(c)
      BY <2>4, <1>0, <1>1, <1>2 DEF Fork, SupervisorInv, GoOn
    <2>5. CASE InstallHandler(c)
      BY <2>5, <1>0, <1>1, <1>2 DEF InstallHandler, SupervisorInv, Return
    <2> QED
      BY <1>3, <2>1, <2>2, <2>3, <2>4, <2>5 DEF CallerNext
  <1>4. ASSUME NEW w \in Web, WebNext(w) PROVE SupervisorInv'
    <2>1. CASE Start(w)
      BY <2>1, <1>0, <1>1, <1>2 DEF Start, SupervisorInv, Acquire
    <2>2. CASE StopNothing(w)
      BY <2>2, <1>0, <1>1, <1>2 DEF StopNothing, SupervisorInv, Acquire
    <2>3. CASE Stop(w)
      BY <2>3, <1>0, <1>1, <1>2 DEF Stop, SupervisorInv, Acquire
    <2>4. CASE Stopped(w)
      <3>1. pid \in V2rays /\ \A v \in V2rays : v # pid => proc'[v] = proc[v]
        BY <2>4, <1>0, <1>1, <1>2 DEF Stopped, SupervisorInv, TypeOK
      <3>2. misled' \/ \A v \in V2rays : ~Alive(v)'
        BY <2>4, <3>1, <1>0, <1>1, <1>2 DEF Stopped, SupervisorInv
      <3>3. (MutexGuards /\ ForkNotRunning /\ StopHasPid)'
        BY <2>4, <1>0, <1>1, <1>2 DEF Stopped, SupervisorInv, GoOn, Return
      <3> QED
        BY <1>0, <3>2, <3>3 DEF SupervisorInv
    <2> QED
      BY <1>4, <2>1, <2>2, <2>3, <2>4 DEF WebNext
  <1>5. ASSUME MainNext PROVE SupervisorInv'
    <2>1. CASE CheckChildExit
      BY <2>1, <1>0, <1>1, <1>2 DEF CheckChildExit, SupervisorInv
    <2>2. CASE Reap
      BY <2>2, <1>0, <1>1, <1>2 DEF Reap, SupervisorInv, Acquire, Return
    <2>3. CASE ExitExpected
      BY <2>3, <1>0, <1>1, <1>2 DEF ExitExpected, SupervisorInv, Return
    <2>4. CASE Crashed
      BY <2>4, <1>0, <1>1, <1>2 DEF Crashed, SomeV2rayAlive, SupervisorInv, GoOn, Return
    <2> QED
      BY <1>5, <2>1, <2>2, <2>3, <2>4 DEF MainNext
  <1>6. ASSUME NEW p \in Pids, Ends(p) PROVE SupervisorInv'
    BY <1>6, <1>0, <1>1, <1>2 DEF Ends, SupervisorInv
  <1>7. ASSUME NEW h \in Helpers, HelperStarts(h) \/ HelperReaped(h)
        PROVE  SupervisorInv'
    BY <1>7, <1>0, <1>1, <1>2 DEF HelperStarts, HelperReaped, SupervisorInv
  <1>8. CASE UNCHANGED vars
    BY <1>8, <1>0 DEF vars, SupervisorInv
  <1> QED
    BY <1>3, <1>4, <1>5, <1>6, <1>7, <1>8 DEF Next

LEMMA SupervisorInit == Init => SupervisorInv
  <1> SUFFICES ASSUME Init PROVE SupervisorInv
    OBVIOUS
  <1>1. TypeOK
    BY TypesInit
  <1>2. MutexGuards
    BY ProcessAssumption DEF Init, MutexGuards, Inside, Callers
  <1>3. /\ \A v \in V2rays : ~Alive(v)
        /\ \A c \in Callers : at[c] \in {"start", "idle"}
    BY DEF Init, Alive, Pids
  <1> QED
    BY <1>1, <1>2, <1>3 DEF SupervisorInv, ForkNotRunning, StopHasPid, Known

\* docs/USAGE.md:306: only one v2ray process, for any number of web threads that
\* start, stop and restart it and of children that bcrypt passwords fork, until
\* on_child_exit has counted so many of those as crashes of v2ray that it gives
\* up although v2ray lives.
THEOREM OneUntilMisled == Spec => []OneV2rayUnlessMisled
  <1>1. SupervisorInv => OneV2rayUnlessMisled
    <2> SUFFICES ASSUME Known PROVE OneV2ray
      BY DEF SupervisorInv, OneV2rayUnlessMisled
    <2> DEFINE living == {v \in V2rays : proc[v] = "alive"}
    <2>1. CASE living = {}
      BY <2>1, FS_EmptySet DEF OneV2ray
    <2>2. ASSUME NEW v \in living
          PROVE  OneV2ray
      <3>1. living \subseteq {v}
        BY DEF Known, Alive
      <3>2. IsFiniteSet({v}) /\ Cardinality({v}) = 1
        BY FS_Singleton
      <3>3. Cardinality(living) <= 1
        BY <3>1, <3>2, FS_Subset
      <3> QED
        BY <3>3 DEF OneV2ray
    <2> QED
      BY <2>1, <2>2
  <1> QED
    BY <1>1, SupervisorInit, SupervisorStep, PTL DEF Spec
=============================================================================
