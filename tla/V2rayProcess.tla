---------------------------- MODULE V2rayProcess ---------------------------
(***************************************************************************)
(* v2rayn_manager/v2rayn_process.cpp: the supervisor of the v2ray child    *)
(* process.  start, stop, restart and on_child_exit hold m_mutex from end  *)
(* to end, but processes die, and SIGCHLD sets m_child_exited, between any *)
(* two of their steps.                                                     *)
(*                                                                         *)
(* v2ray is not the only child of the gateway: user_manager verifies and   *)
(* hashes bcrypt passwords in a process it gets from popen, on whatever    *)
(* thread asks (Helpers), and on_child_exit waits for any child            *)
(* (waitpid(-1)).                                                          *)
(*                                                                         *)
(* Process ids are reused once their process has been waited for, so the   *)
(* number of forks is not bounded.                                         *)
(***************************************************************************)
EXTENDS Integers, FiniteSets

CONSTANTS
  V2rays,  \* ids of the processes do_start forks
  Helpers, \* ids of the processes popen forks
  Web,     \* web threads that call start, stop and restart
  Boot,    \* the main thread before its loop: it calls start once
  Main,    \* the main thread's loop: it calls check_child_exit
  NoPid,   \* m_pid = 0
  NoCaller \* "m_mutex is free"

Callers == Web \cup {Boot, Main}
Pids == V2rays \cup Helpers

ASSUME ProcessAssumption ==
  /\ IsFiniteSet(V2rays)
  /\ V2rays \cap Helpers = {}
  /\ NoPid \notin Pids
  /\ NoCaller \notin Callers
  /\ Boot # Main
  /\ {Boot, Main} \cap Web = {}

VARIABLES
  proc,        \* the processes: "absent", "alive" or "zombie"
  status,      \* m_status
  pid,         \* m_pid
  crashes,     \* m_crash_count, counted up to CrashLimit
  childExited, \* m_child_exited
  stopping,    \* m_stopping
  handled,     \* the SIGCHLD handler is installed
  lock,        \* holder of m_mutex
  at,          \* where each caller is inside the supervisor
  misled       \* history: other children's ends made the supervisor give up
               \* while a v2ray was alive

vars == <<proc, status, pid, crashes, childExited, stopping, handled, lock, at, misled>>

\* Three crashes in five minutes: no further restart.  Beyond it the count
\* makes no difference any more.
CrashLimit == 3

Statuses == {"stopped", "starting", "running", "failed"}

\* Inside do_stop for stop and for restart, inside do_start for start, restart
\* and the automatic restart, between the fork and sigaction, and inside
\* on_child_exit before m_mutex and after waitpid.
Locations ==
  {"idle", "stopping", "restarting", "start", "restart", "auto_restart",
   "fork", "install", "exited", "reaped"}

Init ==
  /\ proc = [p \in Pids |-> "absent"]
  /\ status = "stopped"
  /\ pid = NoPid
  /\ crashes = 0
  /\ childExited = FALSE
  /\ stopping = FALSE
  /\ handled = FALSE
  /\ lock = Boot
  /\ at = [c \in Callers |-> IF c = Boot THEN "start" ELSE "idle"]
  /\ misled = FALSE

Booted == at[Boot] = "idle"

\* A caller takes m_mutex and goes on, goes on holding it, or returns.
Acquire(c, from, to) ==
  /\ lock = NoCaller
  /\ at[c] = from
  /\ lock' = c
  /\ at' = [at EXCEPT ![c] = to]

GoOn(c, to) ==
  /\ at' = [at EXCEPT ![c] = to]
  /\ UNCHANGED lock

Return(c) ==
  /\ at' = [at EXCEPT ![c] = "idle"]
  /\ lock' = NoCaller

-----------------------------------------------------------------------------
(* do_start *)

Start(w) ==
  /\ Booted
  /\ Acquire(w, "idle", "start")
  /\ UNCHANGED <<proc, status, pid, crashes, childExited, stopping, handled, misled>>

\* "running" is what the status says, whether or not a process is there.
AlreadyRunning(c) ==
  /\ at[c] \in {"start", "restart", "auto_restart"}
  /\ status = "running"
  /\ Return(c)
  /\ UNCHANGED <<proc, status, pid, crashes, childExited, stopping, handled, misled>>

Starting(c) ==
  /\ at[c] \in {"start", "restart", "auto_restart"}
  /\ status # "running"
  /\ status' = "starting"
  /\ stopping' = FALSE
  /\ GoOn(c, "fork")
  /\ UNCHANGED <<proc, pid, crashes, childExited, handled, misled>>

\* Fault: returns with m_mutex still held.
ForkFailsKeepsLock(c) ==
  /\ at[c] = "fork"
  /\ status' = "failed"
  /\ GoOn(c, "idle")
  /\ UNCHANGED <<proc, pid, crashes, childExited, stopping, handled, misled>>

ForkFails(c) ==
  /\ at[c] = "fork"
  /\ status' = "failed"
  /\ Return(c)
  /\ UNCHANGED <<proc, pid, crashes, childExited, stopping, handled, misled>>

Fork(c) ==
  /\ at[c] = "fork"
  /\ \E v \in V2rays :
       /\ proc[v] = "absent"
       /\ proc' = [proc EXCEPT ![v] = "alive"]
       /\ pid' = v
  /\ status' = "running"
  /\ GoOn(c, "install")
  /\ UNCHANGED <<crashes, childExited, stopping, handled, misled>>

\* The handler is installed anew after every fork, and never before the first.
InstallHandler(c) ==
  /\ at[c] = "install"
  /\ handled' = TRUE
  /\ Return(c)
  /\ UNCHANGED <<proc, status, pid, crashes, childExited, stopping, misled>>

-----------------------------------------------------------------------------
(* do_stop: SIGTERM, thirty looks, then SIGKILL and a wait without a limit *)

\* Nothing to kill: the status stays as it is.
StopNothing(w) ==
  /\ Booted
  /\ pid = NoPid
  /\ stopping' = TRUE
  /\ \/ /\ lock = NoCaller
        /\ at[w] = "idle"
        /\ UNCHANGED <<at, lock, misled>>
     \/ Acquire(w, "idle", "restart")
  /\ UNCHANGED <<proc, status, pid, crashes, childExited, handled, misled>>

Stop(w) ==
  /\ Booted
  /\ pid # NoPid
  /\ stopping' = TRUE
  /\ \E next \in {"stopping", "restarting"} : Acquire(w, "idle", next)
  /\ UNCHANGED <<proc, status, pid, crashes, childExited, handled, misled>>

\* Fault: does not wait for the process it has told to end.
StopUnwaited(w) ==
  /\ at[w] \in {"stopping", "restarting"}
  /\ pid' = NoPid
  /\ status' = "stopped"
  /\ IF at[w] = "stopping" THEN Return(w) ELSE GoOn(w, "restart")
  /\ UNCHANGED <<proc, crashes, childExited, stopping, handled, misled>>

\* waitpid has reaped the process, or found no such child.
Stopped(w) ==
  /\ at[w] \in {"stopping", "restarting"}
  /\ proc[pid] # "alive"
  /\ proc' = [proc EXCEPT ![pid] = "absent"]
  /\ pid' = NoPid
  /\ status' = "stopped"
  /\ IF at[w] = "stopping" THEN Return(w) ELSE GoOn(w, "restart")
  /\ UNCHANGED <<crashes, childExited, stopping, handled, misled>>

-----------------------------------------------------------------------------
(* check_child_exit and on_child_exit *)

CheckChildExit ==
  /\ Booted
  /\ at[Main] = "idle"
  /\ childExited
  /\ childExited' = FALSE
  /\ at' = [at EXCEPT ![Main] = "exited"]
  /\ UNCHANGED <<proc, status, pid, crashes, stopping, handled, lock, misled>>

\* waitpid(-1, WNOHANG): any one child that has ended, or none.
Reap ==
  /\ at[Main] = "exited"
  /\ \/ /\ lock = NoCaller
        /\ \A p \in Pids : proc[p] # "zombie"
        /\ Return(Main)
        /\ UNCHANGED proc
     \/ /\ Acquire(Main, "exited", "reaped")
        /\ \E p \in Pids :
             /\ proc[p] = "zombie"
             /\ proc' = [proc EXCEPT ![p] = "absent"]
  /\ UNCHANGED <<status, pid, crashes, childExited, stopping, handled, misled>>

\* A child was expected to end, or nothing was running.
ExitExpected ==
  /\ at[Main] = "reaped"
  /\ childExited' = FALSE
  /\ stopping \/ status # "running"
  /\ pid' = NoPid
  /\ Return(Main)
  /\ UNCHANGED <<proc, status, crashes, stopping, handled, misled>>

\* The count after one more crash: 1 when the window has passed.
Recounted ==
  LET next == IF crashes < CrashLimit THEN crashes + 1 ELSE CrashLimit
  IN  {1, next}

SomeV2rayAlive == \E v \in V2rays : proc[v] = "alive"

\* Fault: m_pid keeps the id of the process that was waited for.
CrashedKeepsPid ==
  /\ at[Main] = "reaped"
  /\ childExited' = FALSE
  /\ ~stopping /\ status = "running"
  /\ crashes' \in Recounted
  /\ IF crashes' >= CrashLimit
     THEN status' = "failed" /\ misled' = (misled \/ SomeV2rayAlive) /\ Return(Main)
     ELSE UNCHANGED <<status, misled>> /\ GoOn(Main, "auto_restart")
  /\ UNCHANGED <<proc, pid, stopping, handled>>

\* An unexpected end, of whichever child: restart until the limit is reached.
Crashed ==
  /\ at[Main] = "reaped"
  /\ childExited' = FALSE
  /\ ~stopping /\ status = "running"
  /\ pid' = NoPid
  /\ crashes' \in Recounted
  /\ IF crashes' >= CrashLimit
     THEN /\ status' = "failed"
          /\ misled' = (misled \/ SomeV2rayAlive)
          /\ Return(Main)
     ELSE /\ UNCHANGED <<status, misled>>
          /\ GoOn(Main, "auto_restart")
  /\ UNCHANGED <<proc, stopping, handled>>

-----------------------------------------------------------------------------
(* Processes *)

\* A process ends, by itself or killed; SIGCHLD is delivered to the handler
\* if there is one.
Ends(p) ==
  /\ proc[p] = "alive"
  /\ proc' = [proc EXCEPT ![p] = "zombie"]
  /\ childExited' = (childExited \/ handled)
  /\ UNCHANGED <<status, pid, crashes, stopping, handled, lock, at, misled>>

\* popen in password_hasher.
HelperStarts(h) ==
  /\ Booted
  /\ proc[h] = "absent"
  /\ proc' = [proc EXCEPT ![h] = "alive"]
  /\ UNCHANGED <<status, pid, crashes, childExited, stopping, handled, lock, at, misled>>

\* pclose waits for its own child; one that on_child_exit has taken is gone
\* already, and pclose's result is ignored.
HelperReaped(h) ==
  /\ proc[h] = "zombie"
  /\ proc' = [proc EXCEPT ![h] = "absent"]
  /\ UNCHANGED <<status, pid, crashes, childExited, stopping, handled, lock, at, misled>>

-----------------------------------------------------------------------------
CallerNext(c) ==
  \/ AlreadyRunning(c)
  \/ Starting(c)
  \/ ForkFails(c)
  \/ Fork(c)
  \/ InstallHandler(c)

WebNext(w) ==
  \/ Start(w)
  \/ StopNothing(w)
  \/ Stop(w)
  \/ Stopped(w)

MainNext ==
  \/ CheckChildExit
  \/ Reap
  \/ ExitExpected
  \/ Crashed

Next ==
  \/ \E c \in Callers : CallerNext(c)
  \/ \E w \in Web : WebNext(w)
  \/ MainNext
  \/ \E p \in Pids : Ends(p)
  \/ \E h \in Helpers : HelperStarts(h) \/ HelperReaped(h)

Spec == Init /\ [][Next]_vars

\* Threads run on, the main loop looks at the flag every half second, and a
\* process that do_stop waits for ends (SIGKILL).  No process is obliged to
\* end by itself, and no web request to come.
Fairness ==
  /\ \A c \in Callers : WF_vars(CallerNext(c))
  /\ \A w \in Web : WF_vars(Stopped(w))
  /\ WF_vars(MainNext)
  /\ \A v \in V2rays :
       WF_vars((\E w \in Web : at[w] \in {"stopping", "restarting"}) /\ v = pid /\ Ends(v))

FairSpec == Spec /\ Fairness

-----------------------------------------------------------------------------
TypeOK ==
  /\ proc \in [Pids -> {"absent", "alive", "zombie"}]
  /\ status \in Statuses
  /\ pid \in V2rays \cup {NoPid}
  /\ crashes \in 0..CrashLimit
  /\ childExited \in BOOLEAN
  /\ stopping \in BOOLEAN
  /\ handled \in BOOLEAN
  /\ lock \in Callers \cup {NoCaller}
  /\ at \in [Callers -> Locations]
  /\ misled \in BOOLEAN

\* Whenever a caller may send m_pid a signal, that id still belongs to a child
\* that nobody has waited for: do_stop never kills a process that got the id
\* afterwards, although on_child_exit reaps children it does not know.
PidIsOwnChild ==
  pid # NoPid /\ at[Main] # "reaped" => proc[pid] # "absent"

\* docs/USAGE.md:306: only one v2ray process, several conflict over the port.
OneV2ray == Cardinality({v \in V2rays : proc[v] = "alive"}) <= 1

\* Two v2ray processes never run side by side, whatever starts, stops, restarts
\* and ends cross, and whichever children on_child_exit waits for instead of
\* v2ray.  Only once it has taken so many of those for v2ray that it gave up
\* while v2ray was alive may the next start add another one: see OneV2ray.
OneV2rayUnlessMisled == misled \/ OneV2ray

\* m_mutex is given back, however the process it is held over ends or fails to
\* start: web requests and the main loop never wait for it in vain.
MutexReturned == lock # NoCaller ~> lock = NoCaller

\* v2rayn_process.cpp:160, "v2rayN exited unexpectedly, auto-restarting", and
\* docs/USAGE.md:127, "restart the v2ray process" after switching nodes: when
\* do_start returns at once from either restart, a process is running.
RestartsRun ==
  [][\A c \in Callers :
       at[c] \in {"restart", "auto_restart"} /\ at'[c] = "idle" =>
         \E v \in V2rays : proc[v] = "alive"]_vars
=============================================================================
