# TLA+ model of the LAN proxy gateway

This directory holds a TLA+ development of the gateway in `src/`: modules
translated from its C++ code, TLC configurations that check them on small
instances, and theorems about them with proofs that TLAPS checks for every
value of the constants. `PROJECT.json` links every definition to the source
lines it stands for, every property to the fault that breaks it, and every
hazard of the code to the properties that watch it.

    cd tla
    tlc -workers 2 -config MCConnectionAdmitter.cfg MCConnectionAdmitter
    tlapm ConnectionAdmitterProofs.tla

and likewise for the other runs (section 3; `PROJECT.json` names the module and
configuration of each) and the other `...Proofs` modules.

## 1. The system

The gateway accepts SOCKS5 and HTTP CONNECT clients on a LAN port, admits or
refuses them, authenticates them, chooses a route (direct, or through a local
v2ray process), connects, and copies bytes in both directions until either
side ends. A web server edits users, nodes and rules while it runs. Paths below
are under `src/src/`.

### Components

| Component | State | Operations | Interacts with |
|---|---|---|---|
| `proxy_core/session` | sockets, `m_username`, `m_admitted`, `m_tunnel_active`, the pending operation of each direction | `start`, handlers of each asynchronous operation, `close_session` | admitter, overload protector, registry, rate limiter, user manager, route engine, load balancer |
| `proxy_core` `proxy_server`, `server_app` | acceptor, `io_context`, pool of `proxy_thread_count` threads | `do_accept`, `start`, `stop` | creates sessions |
| `concurrency/connection_admitter` | `m_active_connections`, `m_user_connections`, `m_queue` | `request_admit`, `release_connection` | rate limiter, overload protector |
| `concurrency/overload_protector` | `m_total_connections`, per-user counts | `check`, `inc/dec_total_connections` | session, admitter |
| `concurrency/connection_registry` | record (state, user, times) per session id | register, unregister, `update_state`, `mark_active`, `get_timeout_candidates` | session, timeout scanner |
| `concurrency/timeout_scanner` | scan thread | `scan_loop` | registry, callback in `main` |
| `concurrency/rate_limiter` | failures, connections and bans per address | `check_connection_rate`, `check_auth_rate`, `record_auth_failure` | session, admitter |
| `concurrency/load_balancer`, `ip_affinity_table` | count and weight per node, running weights, client-to-node table | `select_node`, `inc/dec_node_connections`, `lookup`, `update`, `invalidate` | session, node manager, health checker, web API |
| `concurrency/node_health_checker` | status, failures and latency per node | periodic and requested probes, `mark_unavailable` | load balancer, node manager, web API |
| `v2rayn_manager/v2rayn_process` | pid, status, child-exited flag, restart count | start, stop, restart, `check_child_exit` | signals, `main` loop |
| `v2rayn_manager/vm_node_manager`, `vm_config_builder`, `v2rayn_config` | node list, active node, files | add, remove, edit, reorder, import, activate, save | web API, v2ray process |
| `v2rayn_manager/vm_link_codec`, `vm_node_validator` | none | `encode`, `decode`, `validate` | node manager |
| `route_decision/route_engine`, `rule_manager` | rules, domain index, default action, file | `decide`, `add_custom_rule`, `reload_rules`, `set_default_action`, `save_to_file` | session, web API |
| `user_manager`, `password_hasher` | users, file | authenticate, add, remove, edit, save | session, web API |
| `config_loader` | settings, file | load, save | `main`, web API |
| `web_server/*` | login failures and locks per name, tokens | REST handlers | all managers |
| `log_monitor`, `concurrency_metrics` | counters | record | everybody |
| `system_tuner` | none | start-up report | `main` |

`dns_cache`, `domain_matcher` and `failover_handler` are compiled but no code
path of the server calls them, and none reaches `geoip_resolver::is_china`:
`decide` is called with an empty address.

### What makes it hard

* **Threads.** All sessions share one `io_context` run by a pool of threads,
  with no strand. The two directions of a tunnel are two chains of handlers
  that run at the same time on the same session, and both end in
  `close_session`.
* **Check, then act.** Limits are tested in one atomic operation or lock region
  and taken in another; `dequeue_connections` drops its lock in the middle of
  its loop.
* **Stale copies.** The timeout scanner acts on a copy of the records; queue
  entries outlive their sessions; a child's exit is handled after another child
  may have been started.
* **Several owners of one count.** `inc/dec_total_connections`,
  `request_admit/release_connection` and the node counts are paired by
  convention over many paths, not by scope.
* **Partial failure.** Files that cannot be saved, replies that cannot be
  written, connects that fail after a count was taken.

`PROJECT.json` lists each of these at its line under `hazards`.

### What makes each component correct

* admitter: the counts never pass the limits by more than the requests in
  flight; nothing goes below zero; the queue is bounded and first come, first
  served; no waiter is lost or promoted twice; its locks are always given back.
* session: a session that begins to close ends; when one direction ends so does
  the other; it gives back exactly what it took.
* registry and scanner: a record shows the state its session is in; a record
  that is gone stays gone; a session that is given up is closed.
* overload count: closing sessions frees capacity.
* process supervisor: a crashed child is started again, one child at a time.
* node manager: what a save writes is the list; memory and file agree after
  every edit, saved or undone; a file is never half written; the active node
  survives a restart; a node survives its conversions.
* load balancer: a node's count is the number of its sessions; its capacity is
  passed by no more than the decisions under way.
* health checker: status and failures agree; a removed node stays out; a node
  that answers comes back.
* rules, users, settings: lookups decide as the rules shown say; what was
  answered with success is saved; files can be read after a crash; with
  `POST /api/auth/login` a name cannot be guessed at more often than its lockout
  allows. (The SOCKS5 and HTTP logins of the proxy try the same names without a
  lockout; against those there is the rate limiter, per address.)
* rate limiter: windows that do not slide still bound what a second lets in;
  guessing leads to a ban, and bans end.

## 2. The modules

| Module | What it is |
|---|---|
| `SlotLimiter` | abstract specification: bounded slots, a bounded first-come line, promotion in one indivisible step |
| `ConnectionAdmitter` | `connection_admitter.cpp` at the grain of its atomics and lock regions, with callers that may be anywhere inside it |
| `ProxyServer` | sessions, accept loop, io threads, overload count, registry, timeout scanner; EXTENDS `ConnectionAdmitter` and performs its actions |
| `V2rayProcess` | `v2rayn_process.cpp` with its callers, the processes it forks, SIGCHLD, and the other children of the gateway |
| `NodeManager` | node list, active node, configuration file and its `.tmp`, for concurrent web handlers, failing disks and restarts |
| `NodeFormat` | the conversions of one node between request, v2ray file and link, and what it goes through |
| `LoadBalancer` | the choice of a node, its counts, the affinity table and the health checker, with the sessions and web handlers that use them |
| `AdminData` | routing rules with their index, user accounts, settings and their files; the login and its lockout |
| `RateLimiter` | `rate_limiter.cpp` with its two callers per connection and its clock |
| `Subsequences` | what the loops leave that copy or erase the elements passing a test |
| `MC...` | instances for TLC |
| `SequenceLemmas` | induction, recursions and copied sequences: the lemmas the proofs share |
| `ConnectionAdmitterProofs`, `ProxyServerProofs`, `V2rayProcessProofs`, `NodeManagerProofs`, `LoadBalancerProofs`, `AdminDataProofs`, `RateLimiterProofs` | theorems |

`ProxyServer` EXTENDS `ConnectionAdmitter` and performs its actions. The others
stand alone, each with as much of its callers as it needs: `LoadBalancer`
repeats the life of a session as far as it touches a node, `RateLimiter` that of
a connection as far as it is counted, and in `ProxyServer` the rate limiter and
the route are free. `NodeManager` treats the settings of a node as one value;
`NodeFormat` opens it.

### ConnectionAdmitter

`active`, `userConns` and `queue` are the class's members; an absent entry of
`m_user_connections` is 0, and the entry erased at zero is the same 0. Only a
name with an entry is tested against `MaxPerUser` (`AtUserLimit`), so that a
limit of 0 acts like one of 1 (`UserLimit`). Each
caller has a control location `at[c]` and the request `arg[c]` it works on.
`request_admit` is `RequestAdmit`, a gate, `CheckUserLimit`, `CheckTotalLimit`,
then `EnqueueConnection` or `CountConnection` and `CountUser`: one action per
atomic operation or lock region. `release_connection` is `ReleaseConnection`,
`ReleaseUser`, then the loop of `dequeue_connections` (`PopWaiting`,
`PromoteConnection`, `PromoteUser`) and the clean-up of expired entries
(`ExpireWaiting`). `dequeue_connections` touches two other counters while it
holds `m_queue_mutex`; that region is several actions and `queueLock` records
the holder. A compare-and-swap loop is one atomic step, which is what it
achieves.

At the only call site `on_admit` and `on_timeout` are null, `is_reconnect` is
false and the name is empty (`session.cpp:78-80`); the model has none of those
branches. `m_queue_enabled` is a constant. The rate limiter and the overload
protector are consulted at the gate; the module lets the environment answer,
`ProxyServer` ties the answer to its count and leaves the rate limiter free to
refuse at any time.

### ProxyServer

`step[c]` is the operation that chain `c` of a session waits for. A session has
an `up` chain from birth and a `down` chain from `do_stream` on. A handler that
touches only its own session is one action; a handler that closes is
`CloseSession` (sockets closed and overload count given back),
`CloseRelease` and the steps inside `release_connection`, then
`CloseUnregister`. `Threads` bounds the number of handlers in the middle of
their work.

`do_accept` re-arms itself only after `session::start()` has returned
(`session.cpp:839-847`), so `Requesters` is the one-element set `{Acceptor}`:
at most one thread is ever inside `start()`. That is why the test and increment
of the overload count in `StartCounted` are one step. (`m_total_connections`
is only decremented by others, which leaves the test true.) Both the overload
protector and the admitter get `max_total_connections` (`main.cpp:92-94,
108-110`), hence the one constant `MaxConnections`. The overload protector
counts a session before the admitter asks it again, so the admitter's own limit
and its queue are reached only while other sessions are half-way through
`close_session`: the configurations about the queue have three sessions and
four threads for this reason.

Abstracted: message bytes and parsing (a handler has as outcomes the operations
it may start next), the clock (any record may be old enough for the scanner
when `MayTimeOut`), file descriptors and memory (a refusal at any time), the
route (direct or proxy), node counts and metrics. A short read starts the same
read again and is no step of the model. Not modelled: exceptions that end the
process (`stoi` on a bad port, `to_v4` on a v6 address, `remote_endpoint` on a
dead socket), and what two threads in one asio socket may do to it, which is
undefined; the model takes the close and the other chain's next operation in
one order or the other.

### V2rayProcess

`status`, `pid`, `crashes`, `childExited` and `stopping` are the members of the
class, `lock` the holder of `m_mutex`, `proc` the operating system's view of
each process. A caller is at one location of `start`, `stop`, `restart` or
`on_child_exit`; the steps are cut where a process may end or the flag be set
in between: before and after `fork`, before `sigaction`, around `waitpid`, and
between `check_child_exit`'s exchange and `m_mutex`. `Ends` is the end of a
process together with the handler, which sets `m_child_exited` if it has been
installed by then. `waitpid(-1)` takes any zombie. The other children
(`Helpers`) are those `password_hasher.cpp` gets from `popen`, on whatever
thread hashes or verifies a bcrypt password; `pclose` waits for its own and
does not mind finding it gone. `misled` is a history: the supervisor counted its
third crash and set the status to failed while a v2ray was alive, because the
ends it counted were those of other children.

The web server starts after `main` has called `start` (`main.cpp:84`), so
`Boot` runs before anybody else. The five-minute window is a choice in
`Recounted`, the count is cut at `CrashLimit`, beyond which it makes no
difference. A process id may be used again once its process was waited for,
which keeps the state space finite without a bound on forks. Not modelled: the
`stop()` in the shutdown of `main`, and `set_on_exit` and `reset_crash_window`,
which nobody calls.

### NodeManager

`nodes` and `active` are the members, `path` and `tmp` what the configuration
file and its `.tmp` hold. A web thread works on one request (`job`); the steps
are its lock regions: the test, the change (`Push`, `Replace`, `Erase`,
`Reorder`, `SetActive`), the save under the shared lock (`Build`, `OpenTmp`,
`Write`, `Rename`, each with its failure), and the roll-back (`PopBack`,
`PutBack`, `Undo`). `NobodySaves` is what a shared lock means to a writer.
Because the lock is shared, two saves use one `.tmp`: `fd` is the name of the
file a thread has open, and becomes `"path"` when another thread renames it
under its hands, so a write then lands in the real file. `Upload` is `PUT
/api/v2rayn/config`, which writes without the lock. `Restart` may come at any
step and reads `path` as `load_from_config` does. `upsets` is a history of what
the promises except, each counted for itself (`Mishaps`): a handler that began
while another was running (`"overlap"`), an upload (`"upload"`), and a write
that the disk cut short (`"cut"`), which nobody notices because
`v2rayn_config.cpp:18-23` does not look at the stream. `Serial` is the absence
of the first, `Undisturbed` that of all three. `reorder_nodes` moves from its
list, so a tag named twice yields a node without one (`Ghost`), as in the code.
Files are a list of VMess outbounds and the outbound tags of the rules.

### NodeFormat

A node is a record with the sections of each transport. `json_to_node`,
`node_to_json`, `build_vmess_outbound`, `parse_outbound`, `encode`, `decode`
and `validate` are operators; a record without a field is JSON without it, and
`value(j, key, default)` is the library's. Texts are the few values that the
conversions tell apart; of a list of hosts there is none, one, and one of two,
which stands for the longer ones. Actions are what can be done to one node
through the web interface and the file, in any order. A link joins the hosts of
HTTP/2 with commas and cuts them again, so a name that is empty or has a comma
is not found again (`vm_link_codec.cpp:102-112`): `LinkKeepsWire` is about nodes
without one (`HostsNamed`), and the run has some that have.

### LoadBalancer

Each thread's place in `select_node` (`at`) is between two lock regions or
atomic accesses: `AffinityStatus`, `AffinityCount`, `AffinityDrop`,
`ListNodes`, then `NodeHealth` and `NodeLoad` of one candidate after the other,
`Chosen` with the strategy's own step, `Record`, and the session's `Take`
(`inc_node_connections`). `close_session` is `CloseSession`, `GiveBack` (`Dec`)
and `ClearTunnel`; two threads may run it for the two ends of one tunnel, and
both see `m_tunnel_active`. A session whose connection fails gives nothing
back. A probe is `BeginProbe` (the node is looked up), `EndProbe` (its outcome
is known) and `RecordProbe` (it is written), so outcomes may be recorded in
another order than they were found. `remove_node` lowers the node's count and
marks it unavailable in two further steps. `Flip` is the environment: a node's
server goes down or comes up.

### AdminData

Three stores, each with its copy in memory, its file and its `.tmp`. `engine`
is `route_engine`'s state, index included: `build_domain_index` runs at
start-up and in `reload_rules` only. The paths were not kept, so `reload_rules`
reads the built-in rules from a file called "reload", which is not there, the
custom ones from nowhere, and leaves no rules at all. Accounts are saved under
`m_mutex` (`UsersFree`), rules from a copy (`Snapshot`), settings straight from
the shared structure. The default action is set by two unprotected assignments
(`SetAction`, `Apply`). `PUT /api/users` and `PUT /api/settings` change memory
field by field and save at the end: a later field of another type ends the
request with 400 and no save (`Refuse`), and the history `refused` has the
stores of which memory was changed so and not copied to a save since. Of the id
of a rule the model keeps whether there is one (`named`): a custom rule that
matches and has none ends the search of the custom rules and is then passed
over (`Decisive`). `NoName` is the empty user name, which `POST /api/users`
takes when the name is missing and a load drops (`Readable`). A login is one
critical section of `g_login_mutex`, except that the account is looked up a
second time (`LoginInfo`). Time is counted in periods of the lockout.

### RateLimiter

`Accept` is the check in `session::start`, `AdmitRate` and `AdmitAuth` are
those in `request_admit`; one thread runs both for one connection after the
other. `WrongPassword` comes from a session that was let in, on any io thread.
Windows and bans are kept as ages in ticks; `let_in` and `wrong` are histories
by age, which the properties are about. Counts are capped one beyond their
limit, where they make no further difference.

## 3. What is checked

| Run | Instance | Distinct states | Properties |
|---|---|---|---|
| `admitter` | 1 requester, 2 releasers, limits 2, queue 2 | 97,601 | `AdmTypeOK` `PromisedBounded` `UserOvershootBounded` `PromotionExclusive` `ImplementsLimiter` |
| `server_sessions` | 2 sessions, 3 threads, SOCKS5 and HTTP, scanner, fairness | 80,916 | `ServerTypeOK` `RegistryAgrees` `NoResurrection` `ClosesFinish` `TunnelsTearDown` |
| `server_queue` | 3 sessions, 4 threads, HTTP, limit 2, queue 1 | 698,241 (symmetry) | `TotalNeverOvercounts` |
| `supervisor` | 2 web threads, 2 v2ray ids, 2 `popen` children, fairness | 26,637 | `PidIsOwnChild` `OneV2rayUnlessMisled` `MutexReturned` |
| `node_edits` | 2 web threads, 2 tags, 1 upset, failing disk, restarts | 1,798,644 | `SnapshotStable` `MemoryMatchesFile` `UniqueTags` `FileAlwaysComplete` `SavedActiveReturns` |
| `node_format` | requests, links and outbounds with every transport, absent and odd fields | 123 | `Runnable` `SharedIsAccepted` `ReloadKeepsWire` `LinkKeepsWire` |
| `balancer` | 3 sessions of 2 clients, 2 io threads, 2 nodes of capacity 1, all strategies, 1 removal | 599,306 (symmetry) | `LBTypeOK` `OvershootBounded` `CountsFollowSessions` |
| `node_health` | periodic check and web thread, 2 tags, 3 edits, fairness | 110,704 | `HealthAgrees` `RemovedStaysOut` `Recovers` |
| `admin_data` | 2 web threads, 2 hosts, 4 rules (one without an id), a named and an unnamed account, logins, 2 requests, 2 upsets, 3 periods | 2,341,735 (symmetry) | `DecidesAsShown` `AnsweredIsSaved` `FilesReadable` `SettingsApplied` `GuessesLimited` |
| `rate_limiter` | 1 address, second of 2 ticks, minute of 3, limits 4 and 2, ban 3, fairness | 17,678 | `LetInPerSecond` `GuessingBans` `BansEnd` |

* **admitter.** However requests, releases and promotions interleave, and
  although anyone may release anything at any time: slots taken plus slots
  promised pass the limit by at most one per requester; the per-user count
  passes its limit by less than the queue and the requester;
  promotions exclude each other; and the whole is the first-come `SlotLimiter`.
* **server_sessions.** The record of a session is in the state of its
  handlers, or absent; nothing but `start()` creates one. The cases are the two
  closes of a tunnel, a late `mark_active` of the other direction, and a scan
  that calls back for a session that has moved on. A begun close ends, so
  `m_queue_mutex` is always given back; when one direction of a tunnel closes,
  the other ends too.
* **server_queue.** The overload count never stands above the sessions it
  stands for, whatever is rejected, queued, or closed by both ends at once.
* **supervisor.** Whichever child `on_child_exit` takes, `m_pid` never names a
  process that was waited for when `do_stop` signals it, and no end or failed
  fork leaves `m_mutex` held. A `popen` child taken for v2ray clears `m_pid`
  while v2ray lives, but the status still says running, so that neither the
  automatic restart nor one that is asked for forks another: two v2ray run side
  by side only after enough such ends have set the status to failed
  (`OneV2rayUnlessMisled`). That this does happen is shown by `one_v2ray`.
* **node_edits.** As long as handlers come one after the other, nothing is
  uploaded and no write is cut short, list and file name the same nodes whatever
  fails to open or be renamed or dies in between, tags stay unique, and a save
  leaves the active node where a restart finds it. Uploads and cut writes
  included, the file is never an empty one while handlers come one after the
  other, and without a cut write it is complete at every moment. A write that is
  cut short is renamed and answered as saved. When handlers
  overlap, only `SnapshotStable` is promised: two saves sharing `.tmp` can lose
  an edit and leave half a file.
* **node_format.** What came through the API can be run; saving and reloading
  never changes what v2ray is told, and a link loses only what links have no
  field for.
* **balancer.** Counts are those of the sessions until an end of a tunnel gives
  back what the other end gave back already, and then are too low, never too
  high; the three tests of the capacity let through no more than one decision
  per thread; the affinity table keeps its bound with one record per client.
* **node_health.** Marks and late outcomes interleave without setting status and
  failures at odds; a removed node is out for good unless a probe of it was
  under way; one that stays and answers comes back.
* **admin_data.** The index, the order of the list and reloads always amount to
  what the rules shown say, where the custom rules that should decide have ids
  (see the disagreements for one without). What was answered with
  success is in the file, always for accounts with a name, and for rules and
  settings unless two saves overlapped; excepted are a failing disk and, until
  the next save of that store, what a request had changed before it was answered
  400. The lockout of `POST /api/auth/login` holds across threads, edits
  of accounts and time.
* **rate_limiter.** Although windows are fixed, no second lets in more than the
  limit (each connection is counted twice, which halves the limit and pays for
  the window's edge); one less than twice the permitted failures within a minute
  always ban; bans end even for a client that keeps asking.

**Bounds.** Two sessions give every pair of chains of the same and of different
sessions; three are needed for a queue, with four threads to hold two closes
open during an accept. Limits of 2 let counts pass zero, the limit and the
overshoot. No counter is capped: every session is born once and every chain
ends, so the state space is finite (a tunnel's read/write loop is a cycle). In
`admitter` releases are unlimited and the clamp at zero keeps counts finite.
`server_queue` uses HTTP, whose way to the tunnel is the shortest; the SOCKS5
handlers differ only before the tunnel and are in `server_sessions`.
`CHECK_DEADLOCK FALSE` appears where `MayTimeOut` is `FALSE`: there all of the
bounded sessions may be over. In `node_edits` `MaxUpsets` is the number of
overlaps, uploads and short writes, and `OneRace` follows what comes of one
until all threads have answered: two threads inside one race are every pair of
handlers, and two nodes and orders of two tags (`MaxNodes`, `MaxOrder`) are the
least in which tags repeat, swap or are removed, and so are two rules
(`MaxRules`). `balancer` explores `Quiet` nodes, which answer and which nobody
probes, three sessions being the least that fill two nodes of capacity one and
overshoot, and follows one removal; `node_health` has no session, since
decisions change no health, and three edits (`MaxEdits`) against two probers.
`MaxRequests` and `MaxUpsets` in `admin_data` count requests that change
something and restarts or failing disks: two saves that cross need two requests,
and two upsets are a failure and the restart that finds what it left. Logins are
not counted, and `MaxTime` is long enough for an account to expire and a lock to
end. The web threads are symmetric there; that run has no liveness property.
In `rate_limiter` a second has two ticks and a minute three,
so that a sliding window can lie across two fixed ones, and `MaxPending`
sessions suffice for more failures than the limit of one window.

**Fairness.** `FairSpec` assumes weak fairness of: the steps of the accepting
thread inside `request_admit` and the end of `start()`, since a thread in a
handler runs on; each chain's steps inside `close_session`, for the same
reason; and the completion of an operation whose socket has been closed, which
asio reports as `operation_aborted`. Clients and remotes are never obliged to
send, answer or hang up, and the scanner is never obliged to run. Weak fairness
of `EnqueueConnection` and of the release steps is enough for the shared mutex
because every holder gives it back and nobody can take it for ever: sessions
are finitely many. In `V2rayProcess`, callers run on, the main loop polls (every
500 ms, `main.cpp:163-166`), and a process that `do_stop` waits for ends, since
it gets SIGKILL after three seconds; no request and no crash is obliged to come.
In `LoadBalancer` a thread inside `select_node`, `close_session` or a probe runs
on, a removal that has begun ends, and the periodic round comes again
(`node_health_checker.cpp:18-29` loops without end); no session, request or
failure is obliged to come. In `RateLimiter` only time is obliged to pass.

### Disagreements

Two runs show where the program does not do what its documentation or its log
says: each checks one property, which TLC finds violated.

| Run | Where | What happens |
|---|---|---|
| `restarts_run` | `v2rayn_process.cpp:25` | after a crash the status still says running: neither the automatic restart nor one asked for later starts anything (docs/USAGE.md:127). The run has no `popen` children: it needs none |
| `one_v2ray` | `v2rayn_process.cpp:121` | three `popen` children taken by `waitpid(-1)` count as crashes; the status is failed while v2ray lives, and the next start forks a second one beside it (docs/USAGE.md:306 asks for one). That passwords are hashed with bcrypt, in such children, is docs/USAGE.md:298 |

The models also contain most of these, which no run is listed for; the
properties above hold with them, because they say what is left to hold.

| Where | What happens |
|---|---|
| `session.cpp:117` | `m_admitted` is never cleared, so a tunnel is subtracted once per direction, and more sessions than `max_total_connections` are served (README.md:30 promises a limit) |
| `session.cpp:79`, `:128` | admitted under the empty name, released under the client's: the empty name's count fills up and refuses everybody |
| `connection_admitter.cpp:115` | a queue entry outlives its session, is promoted, and its slot is never released |
| `session.cpp:94-109` | a session logged as "Queued" is served at once |
| `main.cpp:137` | "Timeout close" removes the record and leaves the session open |
| `v2rayn_process.cpp:121`, `:124` | `on_child_exit` waits for one child per signal seen: if that is a `popen` child, it clears the flag over a v2ray that has ended, whose end is forgotten until another child ends |
| `v2rayn_process.cpp:73` | the SIGCHLD handler is installed after the first fork: a first v2ray that dies at once is not noticed |
| `api_router.cpp:243-257`, `:438-456` | a request whose later field is of another type (a cleared number on the settings page is sent as null) is answered 400 after memory, and for the default action routing, has changed; nothing is saved until another request saves |
| `user_manager.cpp:32` | an account whose name is missing is accepted and saved under the empty name (`api_router.cpp:215`), and dropped when the file is read |
| `v2rayn_config.cpp:16`, `api_router.cpp:378` | saves under the shared lock, and uploads without one, write the same `.tmp` file: handlers that overlap can lose an edit or leave half a file |
| `vm_node_manager.cpp:222`, `:254` | two removals at once, or a reorder that names a tag twice, leave a list without the one node that docs/USAGE.md:92 says is always kept |
| `connection_admitter.cpp:28` | every connection is counted twice against `max_conn_per_ip_per_sec` (`session.cpp:69` is the other) |
| `connection_admitter.cpp:32` | a ban is looked at when a connection is admitted only: a session that is already open may go on to try its password |
| `route_engine.cpp:103` | reloading reads neither file again and leaves no rules, built-in or custom |
| `v2rayn_config.cpp:21` | a full disk cuts the configuration short; the stream is not looked at, the torn file is renamed and the request answered as saved (docs/USAGE.md:126) |
| `route_engine.cpp:36` | a custom rule without an id, which the format of docs/USAGE.md:197-203 does not ask for, is accepted (`api_router.cpp:301`), shown and saved; when it matches it ends the search of the custom rules and decides nothing |
| `session.cpp:510` | `decide` gets no address, so GeoIP (docs/USAGE.md:205-209) and `ip_cidr` rules never match |
| `api_router.cpp:295` | docs/USAGE.md:193-203 describes `/api/routes/custom` with DELETE; the code has `/api/rules`, without |

## 4. What is proved

TLAPS checks these for every finite set of callers or sessions and every value
of the limits, under the assumptions the modules name:

* `CallersAssumption`: finitely many callers, some of which request, none of
  them the value that stands for a free lock;
* `NamesAssumption`: the empty name is not a client's;
* `LimitsAssumption`: the limits are natural numbers (the configuration reads
  them as non-negative integers), the queue is on or off;
* `ServerAssumption`: the callers are the chains and the accept handler, which
  alone requests; at least one io thread;
* `ProcessAssumption`: finitely many ids for v2ray processes, distinct from
  those of `popen`; the web threads, the boot thread and the main loop are
  distinct callers;
* `NodeAssumption`: the empty tag and that of other outbounds are no request's;
* `FormatAssumption`, `ValuesAssumption`: requests, links and outbounds have no
  fields but those that are read; a port is a number, and where the code would
  throw on a field of another type nothing is stored; lists of hosts are those
  that are told apart (see `NodeFormat` above);
* `BalancerAssumption`: finitely many threads and sessions; the empty tag is no
  node's; capacity and threshold are positive, weights within 1..100 as the web
  interface demands;
* `AdminAssumption`: finitely many threads and names; rules as the loader reads
  them; the lockout's limit is positive;
* `RateAssumption`: limits and windows are positive;
* three hypotheses stand in the theorems that need them. `ConfigsAreWhole` and
  `ContentsAreWhole` say that what is written to a file can be told from a
  missing, an empty and a torn file; TLC could not evaluate them.
  `CustomFileIsSorted` says that the file of custom rules there is at first is
  one the gateway wrote: `load_custom_rules` does not sort what it reads
  (`route_engine.cpp:193`), so that a file ordered by hand is followed as it is
  until the first rule is added.

| Theorem | States |
|---|---|
| `AdmitterTypes` | `AdmSpec => []AdmTypeOK` |
| `PromotionsExclude` | `AdmSpec => []PromotionExclusive` |
| `OvershootBounded`, `ActiveOvershoot` | `AdmSpec => []PromisedBounded`, `[]ActiveBounded` |
| `QueueFits` | `AdmSpec => []QueueBounded` |
| `UserOvershoot` | `AdmSpec => []UserOvershootBounded` |
| `AdmitterIsLimiter` | `AdmSpec => ImplementsLimiter` |
| `ServerTypes`, `ServerLimits` | `Spec => []ServerTypeOK`; the admitter's bounds, for the server |
| `RecordsStayGone` | `Spec => NoResurrection` |
| `RegistryFollows` | `Spec => []RegistryAgrees` |
| `CountFreesUp` | `Spec => []TotalNeverOvercounts` |
| `SupervisorTypes` | `Spec => []TypeOK` (of `V2rayProcess`), not a property of a run |
| `PidStaysOwn` | `Spec => []PidIsOwnChild` |
| `OneUntilMisled` | `Spec => []OneV2rayUnlessMisled`, for any children of `popen` |
| `SavesWriteTheList` | `Spec => []SnapshotStable` (of `NodeManager`) |
| `FileStaysWhole` | if `ConfigsAreWhole`: `Spec => []FileAlwaysComplete` |
| `TagsStayUnique`, `MemoryFollowsFile` | if `ConfigsAreWhole`: `Spec => []UniqueTags`, `[]MemoryMatchesFile` |
| `ActiveIsReadBack` | if `ConfigsAreWhole`: `Spec => SavedActiveReturns` |
| `NodesAreRunnable`, `SharedIsTaken` | `FormatSpec => []Runnable`, `[]SharedIsAccepted` (of `NodeFormat`, proved in `NodeManagerProofs`) |
| `ReloadKeeps`, `LinkKeeps` | `FormatSpec => ReloadKeepsWire`, `LinkKeepsWire` |
| `BalancerTypes` | `Spec => []LBTypeOK` (of `LoadBalancer`) |
| `CapacityOvershoot` | `Spec => []OvershootBounded` |
| `CountsFollow` | `Spec => []CountsFollowSessions` |
| `HealthFollows` | `Spec => []HealthAgrees` |
| `RemovedForGood` | `Spec => []RemovedStaysOut` |
| `RoutesAsShown` | if `CustomFileIsSorted`: `Spec => []DecidesAsShown` |
| `SettingsReachRouting` | `Spec => []SettingsApplied` |
| `LockoutHolds` | `Spec => []GuessesLimited` |
| `FilesStayReadable`, `AnswersAreSaved` | if `ContentsAreWhole`: `Spec => []FilesReadable`, `[]AnsweredIsSaved` |
| `RateTypes`, `RefusedAreBanned` | `Spec => []RLTypeOK`, `[]RefusedIsBanned` (of `RateLimiterProofs`) |
| `LetInIsBounded` | `Spec => []LetInPerSecond` |
| `GuessersAreBanned` | `Spec => []GuessingBans` |

**The argument for the admitter.** "At most `MaxConnections` slots plus one per
requester" is not inductive: nothing in it says how many callers are about to
take a slot. `PromisedBounded` adds them: a slot is promised when the test
passes and turns from promised to taken when it is counted. A test passes only
below the limit; at that moment the promises are those of the other requesters
(`RequestsConfined`: only requesters are ever inside `request_admit`) and of at
most one promotion (`PromotionExclusive`: the lock is held exactly from pop to
unlock). The requester that tests is not among the promised, so the sum stays
within the bound. `UserOvershootBounded` counts in the same way what the
per-user test has let through, and needs the queue: waiters tested long ago
still count. Its step from the queue needs `QueueDrainBounded`, that queue and
popped waiters together are at most `MaxQueue`, because a popped waiter leaves
room for another one before its user is counted.

**The refinement.** The abstract line is the queue with the popped waiter put
back in front until its slot is counted (`Line`), so the pop is a stutter and
`PromoteConnection` is the abstract promotion. Each step of the admitter maps
to one abstract step or to a stutter, using the invariants above.

**The server.** Each action is written as a step of the admitter with what the
session does beside it, or leaves the admitter alone (lemma
`ServerUsesAdmitter`, which says nothing of the code); the admitter's theorems
then hold of the server (`ServerLimits`). `RegistryFollows` needs
`DownFollows`: a session whose second chain exists has its first chain in the
tunnel or beyond, so a late `mark_active` finds either no record or a session
still in its tunnel. `CountFreesUp` classifies every step by what it does to
the count and to the set of sessions the count stands for (`CountChange`); each
decrement goes with the removal of at most one session from that set, and a
decrement for a session already removed only lowers the count.

**The supervisor.** `PidIsOwnChild` is inductive with the types: the one wait
that does not name `m_pid` is followed by clearing it. `OneV2rayUnlessMisled`
follows from `SupervisorInv`: the mutex is held exactly by the caller inside
(`MutexGuards`), a fork happens only under a status other than running
(`ForkNotRunning`), `do_stop` waits for a process only when `m_pid` names one
(`StopHasPid`), and, until the supervisor was misled, a v2ray that lives is the
only one, the status is running, and `m_pid` names it or, when another child was
taken for it, nothing (`Known`). An end that is not v2ray's clears `m_pid` and
leaves the status, which keeps the next start from forking.

**The node list.** `SnapshotStable` is inductive with the shape of the state
(`StableInv`): a save that is under way has `nodes` in its configuration, and
every action that changes `nodes` waits until `NobodySaves`.
`FileAlwaysComplete` needs `OneAtATime`: while handlers do not overlap, one
thread at most is not idle; if it has a file open this is the temporary one,
which is empty before the write, and between the write and the rename is not
empty, and torn only if a write was cut short (`Sound`). `MishapsStay` is what
the histories owe: a mishap that has happened stays happened.

**Edits and their undo.** `TagsStayUnique` and `MemoryFollowsFile` share
`EditsInv`: while nothing has happened (`Undisturbed`), each place an edit can
be at says what the list is compared with the file. Before it changes the list
the two agree (`Ready`); between the change and the end of the save, to take
the change back would make them agree (`Undoable`: an added node is the last
one, a changed or erased one is still known with its place); while the save is
under way the temporary file and, after the rename, the file hold the list
(`Here`). Two facts about lists are needed. A reordering keeps the named nodes
and leaves no tag twice although a node moved from stays behind with an empty
tag (`ReorderKeeps`); and what a load copies has the same named nodes
(`LoadedKeeps`). `ActiveIsReadBack` follows from `BuiltActive`: of the rules a
save writes, the first that names a VMess node names the active one, whether
rules were redirected or one was put in front and the last cut off.

**The balancer.** `OvershootBounded` says nothing of the decisions under way.
`Room` adds them: the count of a node and the threads that have found room on
it and not yet counted (`Finders`) are together within the bound; a thread
becomes a finder only while the count is below the capacity.
`CountsFollowSessions` needs `Owners`: a session that is being routed has one
thread of its own, so that it is counted once, and whoever gives back does so
for a session that had a tunnel. `HealthAgrees` follows from the types
(`Types`) and from `Probed` and `marked`, the only writers. `BalancerTypes` is
about the affinity table: a client's record is taken out before its new one is
put in front, so that one client has one, and a table at its bound loses its
last record before it gets another; `Others` is the table without the client,
and a subsequence of a table with one record per client is one.
`RemovedStaysOut` needs `RemovedAreOut`: a removed node is neither in the list,
so that no probe of it begins, nor at a probe that began before; and `Jobs`:
whoever waits for an answer has a probe at the head of its jobs.

**Routing.** `DecidesAsShown` compares two accounts of a lookup. `IndexInv`
ties the index to the rules as they were when it was built: each exact name
maps to the action of the last enabled rule for it, custom ones after built-in
ones, and the suffixes are the enabled ones in order. Rules added since are
only in the list, which is searched first (and whose first match decides where
it has an id; the theorem speaks of hosts whose foremost custom rules all have
one): the proof is that whatever the index holds of custom rules is never
asked, because the custom list, which has not lost a rule since, decides before
it; and that the first match of a sorted list is a match of the greatest
priority.

**Rules, users, settings.** `SettingsInv` adds to `SettingsApplied` only that
each thread is somewhere; the argument is that a thread which assigned and has
not applied is at `"apply"`. `GuessInv` relates the history to the code's
record: of a name that is not locked no guess was forgotten, and its failures
stay below the limit because lock, password and count share one region.
`FilesReadable` needs `Orderly`: of a store that is not spoiled one thread at
most is saving, with the temporary file open. `AnsweredIsSaved` adds `Synced`:
unless a thread has changed the store and not come to saving it (`Pending`), or
has been answered 400 since it was last copied (`refused`), whoever saves is
about to write what memory holds, and without one the file holds it, as far as
a load reads it. That nobody is about to amend the unnamed account
(`NobodyUnnamed`) is what makes a load's omission harmless to the others. That
it is asked per store matters: an `apply` that is pending says nothing of the
accounts.

**The forms of a node.** `FormatInv` says that the stored node has every field
that is read and a port of 16 bits (`NodeShape`), and, if the validator saw it,
what v2ray needs of them (`Fit`). What a request, a link or a file gives is a
node, whatever it lacks (`RequestShape`, `LinkShape`, `OutboundShape`).
`ReadBack` says what a load finds of what a save wrote: all of the node but the
settings of other transports and of TLS when it is off; `WireDepends`, that
v2ray is not told of those either. `Shared` says the same of a link, under the
validator: without it the second reading could take an empty path for `/`, or a
protection of QUIC that is not there for none.

**The rate limiter.** `RateInv` is the type invariant, inductive by the caps.
`BanInv` adds that the ban set by a full window outlasts it, if the ban is at
least a window long (as in the default configuration); then the second test of
`check_auth_rate` refuses nobody the ban would let in. `LetInPerSecond` is
about any second, the code's windows are fixed. `Paced` bounds by the count of
the open window how many were let in since it was opened (`Quota`: half the
counts, less what the connection on its way has been counted), and the second
before by half a window more: when a window ends its own total, at most half a
window, becomes what lies before the next. `GuessingBans` is the same for
failures, with the bans in place of the bound: `Watched` counts the failures no
ban covers (`Since`), those younger than the window by its count, those older
by one less than the limit, and a full window leaves none. Both rest on lemmas
about the sum over a history when the clock ticks and when something happens
now (`OlderRecent`, `NowRecent`).

**Induction.** The library's induction theorems take an operator, which the
provers cannot instantiate. `SequenceLemmas` states induction for a set of
numbers instead (`SetInduction`, from `WFMin` for the order of the numbers) and
draws from it that a recursively given function exists (`RecursionExists`) and
keeps what each step keeps (`StaysIn`), that a set of places has a first and a
last one, and what `Subsequence` copies. Recursive definitions are therefore
functions, each over the places of its sequence.

**Model-checked only.** Liveness under fairness: `ClosesFinish`,
`TunnelsTearDown`, `MutexReturned`, `Recovers`, `BansEnd`. The disagreements are
counterexamples, found by TLC.

## 5. Plan

Done: all modules of section 2, their runs, and the proofs of section 4. Next,
in this order:

1. An abstract account of a save (one step from list to file) that `NodeManager`
   and `AdminData` implement while edits do not overlap.
2. The scanner's clock and the registry's times; `server_app::stop` and the
   shutdown sequence of `main`.
3. The expiry of tokens, and the edits of inbounds in `vm_config_builder`.

## 6. Not modelled

Output (`structured_logger`, `audit_logger`, `ws_sink`), metrics that no
decision reads back, `system_tuner`, the web UI and packaging, the Crow and
websocket wrappers, hashing and token encoding (library functions), the GeoIP
database, and the components no code path calls. Within modelled components:
byte layouts and parsing in the sessions, exceptions that end the process, the
remarks file, the settings apart from the default action, `config_loader`'s
`validate` and command line, handlers that only report, and shutdown.
`PROJECT.json` gives the status and reason of each component.
