------------------------------ MODULE AdminData -----------------------------
(***************************************************************************)
(* What the administrator keeps in files and the gateway in memory:        *)
(*   the routing rules   route_decision/route_engine.cpp, rule_manager.cpp *)
(*   the user accounts   user_manager/user_manager.cpp                     *)
(*   the settings        config_manager/config_loader.cpp                  *)
(* with their handlers in web_server/api_router.cpp, the login among them. *)
(*                                                                         *)
(* Each of the three is changed first and saved afterwards, by whichever   *)
(* thread of the web server has the request, through a .tmp file that is   *)
(* renamed.  The accounts are saved under their mutex, the rules from a    *)
(* copy, the settings with no lock at all.  Whether the save succeeds      *)
(* nobody asks.  Every action is one lock region, one call on a file, or   *)
(* one assignment to what no lock protects.                                *)
(*                                                                         *)
(* Of the settings only default_route_action is kept.  decide is called    *)
(* before the name of the target is resolved, so that it never sees an     *)
(* address: ip_cidr rules and GeoIP match nothing.  No request removes a   *)
(* rule.  Of the id of a rule it matters whether there is one (named): the *)
(* administration pages give it one, the API and the files need not.  Of   *)
(* the fields a request may have wrong it matters whether it changed       *)
(* something before it was refused (refused).                              *)
(***************************************************************************)
EXTENDS Integers, FiniteSets, Sequences, Functions, TLC, Subsequences

CONSTANTS
  Web,          \* threads of the web server
  Hosts,        \* names of targets
  endings,      \* the suffixes each of them ends with
  BuiltinFile,  \* the rules in builtin_rules.json
  CustomFile,   \* the rules in custom_rules.json at first
  NewRules,     \* rules an administrator may add
  Names, Admin, \* user names, and that of the administrator
  NoName,       \* the empty name, which a request may leave out
  LoginNames,   \* names that somebody tries to log in with
  Passwords, AdminPassword,
  Lifetimes,    \* after what time an account may expire; 0 is never
  NoFile, Empty, Torn,  \* no file, one without text, one that does not parse
  LoginLimit,   \* failures that lock an account: 5
  FailRecords,  \* names that failures are counted of: 1000
  MaxRequests,  \* bound: requests that change something
  MaxUpsets,    \* bound: restarts and failures of the disk
  MaxTime       \* bound: periods of 900 seconds

Stores == {"rules", "users", "settings"}
Actions == {"direct", "proxy"}

KnownRules ==
  NewRules \cup {BuiltinFile[i] : i \in DOMAIN BuiltinFile}
           \cup {CustomFile[i] : i \in DOMAIN CustomFile}

ASSUME AdminAssumption ==
  /\ IsFiniteSet(Web) /\ IsFiniteSet(Names)
  /\ endings \in [Hosts -> SUBSET STRING]
  /\ {BuiltinFile, CustomFile} \subseteq Seq(KnownRules)
  /\ \A r \in KnownRules :
       /\ r.type \in STRING /\ r.action \in Actions /\ r.priority \in Int
       /\ r.enabled \in BOOLEAN /\ r.named \in BOOLEAN
  /\ {Admin, NoName} \cup LoginNames \subseteq Names /\ AdminPassword \in Passwords
  /\ Lifetimes \subseteq Nat
  /\ LoginLimit \in Nat \ {0} /\ FailRecords \in Nat
  /\ MaxRequests \in Nat /\ MaxUpsets \in Nat /\ MaxTime \in Nat

VARIABLES
  builtin,  \* route_engine::m_builtin_rules
  custom,   \* m_custom_rules
  exact,    \* m_exact_domain_map
  suffixes, \* m_suffix_domain_list
  fallback, \* m_default_action
  config,   \* config().default_route_action
  users,    \* user_manager::m_users
  fails,    \* g_login_fail_count
  locked,   \* the names of g_login_lock_until whose time has not come
  path,     \* the files
  tmp,      \* what their .tmp files hold
  at,       \* where each web thread is
  store,    \* what it saves
  text,     \* what it is about to write
  fd,       \* the file it has open: "tmp", that one under its final name, ...
  who,      \* the name in its request
  now,      \* the time
  guesses,  \* history: wrong passwords for a name since time last passed
  spoiled,  \* history: stores with a failed save, or two saves at once without a lock
  refused,  \* history: stores whose memory a request answered 400 has changed since
            \* it was last copied to be saved
  reloaded, \* history: the rules were reloaded
  upsets, requests  \* history: how many of each there were

engine == <<builtin, custom, exact, suffixes, fallback>>
logins == <<fails, locked, guesses>>
files == <<path, tmp>>
handler == <<at, store, text, fd, who>>
counters == <<upsets, requests>>
vars == <<engine, config, users, logins, files, handler, now, spoiled, refused, reloaded, counters>>

Memory(s) == CASE s = "rules" -> custom [] s = "users" -> users [] s = "settings" -> config

\* What is loaded when the file is missing or cannot be parsed.
Default(s) == CASE s = "rules" -> <<>> [] s = "users" -> <<>> [] s = "settings" -> "proxy"

\* What a load takes of a content: an account without a name is passed over.
Readable(s, content) ==
  IF s = "users" THEN [n \in DOMAIN content \ {NoName} |-> content[n]] ELSE content

Loaded(s) ==
  IF path[s] \in {NoFile, Empty, Torn} THEN Default(s) ELSE Readable(s, path[s])

-----------------------------------------------------------------------------
(* The rules *)

Enabled(rules, type) ==
  Subsequence(rules, {i \in DOMAIN rules : rules[i].enabled /\ rules[i].type = type})

\* build_domain_index: of two rules about one name the later counts.
exact_of(rules) ==
  LET s == Enabled(rules, "domain_exact")
  IN [p \in {s[i].pattern : i \in DOMAIN s} |->
        s[CHOOSE i \in DOMAIN s : /\ s[i].pattern = p
                                  /\ \A j \in DOMAIN s : s[j].pattern = p => j <= i].action]

build_domain_index(b, c) ==
  /\ exact' = exact_of(b \o c)
  /\ suffixes' = Enabled(b, "domain_suffix") \o Enabled(c, "domain_suffix")

\* Without an address only names can match.
Matches(r, h) ==
  \/ r.type = "domain_exact" /\ r.pattern = h
  \/ r.type = "domain_suffix" /\ r.pattern \in endings[h]

FirstAction(rules) == rules[1].action

match_custom_rules(h) ==
  Subsequence(custom, {i \in DOMAIN custom : custom[i].enabled /\ Matches(custom[i], h)})

match_suffixes(h) ==
  Subsequence(suffixes, {i \in DOMAIN suffixes : suffixes[i].pattern \in endings[h]})

\* The first custom rule that matches decides if it has an id; if not, no other
\* custom rule is looked at, and the lookup goes on with the index.
Decisive(h) ==
  match_custom_rules(h) # <<>> /\ match_custom_rules(h)[1].named

decide(h) ==
  IF Decisive(h) THEN FirstAction(match_custom_rules(h))
  ELSE IF h \in DOMAIN exact THEN exact[h]
  ELSE IF match_suffixes(h) # <<>> THEN FirstAction(match_suffixes(h))
  ELSE fallback

\* The orders std::sort may leave rules in, of which equal ones may change
\* places.
SortedRules(rules) ==
  {s \in {[i \in DOMAIN rules |-> rules[p[i]]] : p \in Bijection(DOMAIN rules, DOMAIN rules)} :
     \A i, j \in DOMAIN rules : i < j => s[i].priority >= s[j].priority}

-----------------------------------------------------------------------------
Idle == [w \in Web |-> "idle"]
Nothing == [w \in Web |-> Empty]
Closed == [w \in Web |-> "none"]
Nobody == [w \in Web |-> Admin]
NoStore == [w \in Web |-> "rules"]
Zeros == [n \in Names |-> 0]

Init ==
  /\ path = [s \in Stores |-> IF s = "rules" THEN CustomFile ELSE NoFile]
  /\ tmp = [s \in Stores |-> NoFile]
  /\ builtin = BuiltinFile /\ custom = CustomFile
  /\ exact = exact_of(BuiltinFile \o CustomFile)
  /\ suffixes = Enabled(BuiltinFile, "domain_suffix") \o Enabled(CustomFile, "domain_suffix")
  /\ config = "proxy" /\ fallback = config
  /\ users = <<>>
  /\ now = 1
  /\ at = Idle /\ store = NoStore /\ text = Nothing /\ fd = Closed /\ who = Nobody
  /\ fails = Zeros /\ locked = {} /\ guesses = Zeros
  /\ spoiled = {} /\ refused = {} /\ reloaded = FALSE
  /\ upsets = 0 /\ requests = 0

Upset == upsets < MaxUpsets /\ upsets' = upsets + 1 /\ UNCHANGED requests

\* Fault: the engine starts with its own default action.
RestartDefaultAction ==
  /\ Upset
  /\ builtin' = BuiltinFile /\ custom' = Loaded("rules")
  /\ build_domain_index(BuiltinFile, Loaded("rules"))
  /\ config' = Loaded("settings") /\ fallback' = "proxy"
  /\ users' = Loaded("users")
  /\ tmp' = [s \in Stores |-> NoFile]
  /\ at' = Idle /\ store' = NoStore /\ text' = Nothing /\ fd' = Closed /\ who' = Nobody
  /\ fails' = Zeros /\ locked' = {} /\ guesses' = Zeros
  /\ spoiled' = {s \in spoiled : path[s] \in {Empty, Torn}}
  /\ refused' = {} /\ reloaded' = FALSE
  /\ UNCHANGED <<path, now>>

\* The gateway is stopped or dies, and starts again with what the files hold.
\* A .tmp file that nobody has open is emptied before it is used: it may as
\* well be gone.
Restart ==
  /\ Upset
  /\ builtin' = BuiltinFile /\ custom' = Loaded("rules")
  /\ build_domain_index(BuiltinFile, Loaded("rules"))
  /\ config' = Loaded("settings") /\ fallback' = config'
  /\ users' = Loaded("users")
  /\ tmp' = [s \in Stores |-> NoFile]
  /\ at' = Idle /\ store' = NoStore /\ text' = Nothing /\ fd' = Closed /\ who' = Nobody
  /\ fails' = Zeros /\ locked' = {} /\ guesses' = Zeros
  /\ spoiled' = {s \in spoiled : path[s] \in {Empty, Torn}}
  /\ refused' = {} /\ reloaded' = FALSE
  /\ UNCHANGED <<path, now>>

\* A lock lasts one period.
Tick ==
  /\ now < MaxTime
  /\ now' = now + 1
  /\ locked' = {}
  /\ guesses' = Zeros
  /\ UNCHANGED <<engine, config, users, fails, files, handler, spoiled, refused,
                 reloaded, counters>>

-----------------------------------------------------------------------------
(* Requests.  A handler goes on to save what it has changed. *)

Request(w) ==
  /\ at[w] = "idle"
  /\ requests < MaxRequests
  /\ requests' = requests + 1
  /\ UNCHANGED <<logins, files, text, fd, now, spoiled, upsets>>

SaveNext(w, s) ==
  /\ at' = [at EXCEPT ![w] = "save"]
  /\ store' = [store EXCEPT ![w] = s]

AddRule(w, r) ==
  /\ Request(w) /\ SaveNext(w, "rules")
  /\ custom' \in SortedRules(Append(custom, r))
  /\ UNCHANGED <<builtin, exact, suffixes, fallback, config, users, who, refused,
                 reloaded>>

\* Fault: the index is left as it is.
ReloadKeepsIndex(w) ==
  /\ Request(w)
  /\ builtin' = <<>> /\ custom' = <<>>
  /\ reloaded' = TRUE
  /\ UNCHANGED <<exact, suffixes, fallback, config, users, at, store, who, refused>>

\* The paths were not kept: the built-in rules are read from a file called
\* "reload", which is not there, and the others from nowhere.
Reload(w) ==
  /\ Request(w)
  /\ builtin' = <<>> /\ custom' = <<>>
  /\ build_domain_index(<<>>, <<>>)
  /\ reloaded' = TRUE
  /\ UNCHANGED <<fallback, config, users, at, store, who, refused>>

SetAction(w, a) ==
  /\ Request(w)
  /\ config' = a
  /\ at' = [at EXCEPT ![w] = "apply"]
  /\ UNCHANGED <<engine, users, store, who, refused, reloaded>>

\* A later field of the request is of another type: 400, and no save.
Refuse(w, s) ==
  /\ at' = [at EXCEPT ![w] = "idle"]
  /\ refused' = refused \cup {s}
  /\ UNCHANGED store

\* set_default_action gets config's own string.
Apply(w) ==
  /\ at[w] = "apply"
  /\ fallback' = config
  /\ \/ SaveNext(w, "settings") /\ UNCHANGED refused
     \/ Refuse(w, "settings")
  /\ UNCHANGED <<builtin, custom, exact, suffixes, config, users, logins, files, text, fd,
                 who, now, spoiled, reloaded, counters>>

Saving(w, s) == store[w] = s /\ at[w] \in {"open", "write", "rename"}

\* Fault: the mutex is never taken.
UsersUnprotected == TRUE

\* user_manager::m_mutex
UsersFree == ~\E w \in Web : Saving(w, "users")

UserRequest(w) ==
  /\ Request(w) /\ UsersFree
  /\ UNCHANGED <<engine, config, reloaded>>

AddUser(w, n, p, days) ==
  /\ UserRequest(w) /\ SaveNext(w, "users")
  /\ n \notin DOMAIN users
  /\ LET new == [password |-> p, active |-> TRUE,
                 expire |-> IF days > 0 THEN now + days ELSE 0]
     IN users' = [m \in DOMAIN users \cup {n} |-> IF m = n THEN new ELSE users[m]]
  /\ UNCHANGED <<who, refused>>

RemoveUser(w, n) ==
  /\ UserRequest(w) /\ SaveNext(w, "users")
  /\ n \in DOMAIN users
  /\ users' = [m \in DOMAIN users \ {n} |-> users[m]]
  /\ UNCHANGED <<who, refused>>

\* PUT: the status, then the password, of a user there may be or not be.
Amend(n, field, x) ==
  users' = IF n \in DOMAIN users THEN [users EXCEPT ![n] = (field :> x) @@ @] ELSE users

SetStatus(w, n, active) ==
  /\ UserRequest(w)
  /\ Amend(n, "active", active)
  /\ \/ SaveNext(w, "users") /\ UNCHANGED <<who, refused>>
     \/ /\ at' = [at EXCEPT ![w] = "password"]
        /\ who' = [who EXCEPT ![w] = n]
        /\ UNCHANGED <<store, refused>>
     \/ /\ n \in DOMAIN users
        /\ Refuse(w, "users") /\ UNCHANGED who

SetPassword(w, n, p) ==
  /\ \/ UserRequest(w) /\ UNCHANGED who
     \/ /\ at[w] = "password" /\ who[w] = n /\ UsersFree
        /\ who' = [who EXCEPT ![w] = Admin]
        /\ UNCHANGED <<engine, config, logins, files, text, fd, now, spoiled, reloaded,
                       counters>>
  /\ SaveNext(w, "users")
  /\ Amend(n, "password", p)
  /\ UNCHANGED refused

-----------------------------------------------------------------------------
(* POST /api/auth/login, under g_login_mutex *)

authenticate(n, p) ==
  IF n = Admin THEN p = AdminPassword
  ELSE /\ n \in DOMAIN users
       /\ users[n].active /\ users[n].password = p
       /\ users[n].expire = 0 \/ now <= users[n].expire

\* cleanup_expired_login_records: of too many records all are forgotten.
TooMany == Cardinality({n \in Names : fails[n] > 0}) > FailRecords

Cleaned(record) == IF TooMany THEN Zeros ELSE record

LoginKeeps ==
  UNCHANGED <<engine, config, users, files, store, text, fd, now, spoiled, refused, reloaded,
              counters>>

Login(w, n) ==
  /\ at[w] = "idle"
  /\ ~\E v \in Web : at[v] = "info"
  /\ LoginKeeps

LoginLocked(w, n) ==
  /\ Login(w, n)
  /\ n \in locked
  /\ fails' = Cleaned(fails)
  /\ guesses' = Cleaned(guesses)
  /\ UNCHANGED <<locked, at, who>>

\* Fault: a lock does not last.
LoginRefusedUnlocked(w, n, p) ==
  /\ Login(w, n)
  /\ n \notin locked /\ UsersFree /\ ~authenticate(n, p)
  /\ fails' = [Cleaned(fails) EXCEPT ![n] = IF @ + 1 >= LoginLimit THEN 0 ELSE @ + 1]
  /\ guesses' = [Cleaned(guesses) EXCEPT ![n] = @ + 1]
  /\ UNCHANGED <<locked, at, who>>

LoginRefused(w, n, p) ==
  /\ Login(w, n)
  /\ n \notin locked /\ UsersFree /\ ~authenticate(n, p)
  /\ \/ /\ Cleaned(fails)[n] + 1 >= LoginLimit
        /\ locked' = locked \cup {n}
        /\ fails' = [Cleaned(fails) EXCEPT ![n] = 0]
     \/ /\ Cleaned(fails)[n] + 1 < LoginLimit
        /\ fails' = [Cleaned(fails) EXCEPT ![n] = @ + 1]
        /\ UNCHANGED locked
  /\ guesses' = [Cleaned(guesses) EXCEPT ![n] = @ + 1]
  /\ UNCHANGED <<at, who>>

\* A user's record is read again; the administrator's login is done.
LoginAccepted(w, n, p) ==
  /\ Login(w, n)
  /\ n \notin locked /\ UsersFree /\ authenticate(n, p)
  /\ fails' = IF n = Admin THEN [Cleaned(fails) EXCEPT ![n] = 0] ELSE Cleaned(fails)
  /\ guesses' = IF n = Admin THEN [Cleaned(guesses) EXCEPT ![n] = 0] ELSE Cleaned(guesses)
  /\ at' = IF n = Admin THEN at ELSE [at EXCEPT ![w] = "info"]
  /\ who' = IF n = Admin THEN who ELSE [who EXCEPT ![w] = n]
  /\ UNCHANGED locked

\* A user who was removed meanwhile reads as an active one that never expires.
LoginInfo(w) ==
  LET n == who[w]
      good == n \in DOMAIN users =>
                users[n].active /\ (users[n].expire = 0 \/ now < users[n].expire)
  IN /\ at[w] = "info" /\ UsersFree
     /\ at' = [at EXCEPT ![w] = "idle"]
     /\ who' = [who EXCEPT ![w] = Admin]
     /\ fails' = IF good THEN [fails EXCEPT ![n] = 0] ELSE fails
     /\ guesses' = IF good THEN [guesses EXCEPT ![n] = 0] ELSE guesses
     /\ UNCHANGED locked
     /\ LoginKeeps

-----------------------------------------------------------------------------
(* Saving *)

SaveKeeps ==
  UNCHANGED <<engine, config, users, logins, who, now, reloaded, requests>>

\* The accounts wait for their mutex, and hold it to the end; whoever saves
\* something else takes a copy of it.
Snapshot(w) ==
  LET s == store[w] IN
  /\ at[w] = "save"
  /\ s = "users" => UsersFree
  /\ at' = [at EXCEPT ![w] = "open"]
  /\ text' = [text EXCEPT ![w] = Memory(s)]
  /\ spoiled' = IF s # "users" /\ \E v \in Web \ {w} : Saving(v, s)
                THEN spoiled \cup {s} ELSE spoiled
  /\ refused' = refused \ {s}
  /\ UNCHANGED <<files, store, fd, upsets>> /\ SaveKeeps

\* Fault: the file itself is opened.
OpenInPlace(w) ==
  /\ at[w] = "open"
  /\ at' = [at EXCEPT ![w] = "write"]
  /\ path' = [path EXCEPT ![store[w]] = Empty]
  /\ fd' = [fd EXCEPT ![w] = "path"]
  /\ UNCHANGED <<tmp, store, text, spoiled, refused, upsets>> /\ SaveKeeps

OpenTmp(w) ==
  /\ at[w] = "open"
  /\ at' = [at EXCEPT ![w] = "write"]
  /\ tmp' = [tmp EXCEPT ![store[w]] = Empty]
  /\ fd' = [fd EXCEPT ![w] = "tmp"]
  /\ UNCHANGED <<path, store, text, spoiled, refused, upsets>> /\ SaveKeeps

Ended(w) ==
  /\ at' = [at EXCEPT ![w] = "idle"]
  /\ text' = [text EXCEPT ![w] = Empty]
  /\ UNCHANGED store

\* What thread w has open becomes content.
Put(w, content) ==
  LET s == store[w] IN
  /\ tmp' = IF fd[w] = "tmp" THEN [tmp EXCEPT ![s] = content] ELSE tmp
  /\ path' = IF fd[w] = "path" THEN [path EXCEPT ![s] = content] ELSE path

\* The text is written from the start of the file.  Over another text it may
\* leave the end of that one behind.
Write(w) ==
  LET s == store[w]
      there == IF fd[w] = "tmp" THEN tmp[s] ELSE IF fd[w] = "path" THEN path[s] ELSE Empty
  IN /\ at[w] = "write"
     /\ at' = [at EXCEPT ![w] = "rename"]
     /\ \E content \in IF there \in {Empty, text[w]} THEN {text[w]} ELSE {text[w], Torn} :
          Put(w, content)
     /\ UNCHANGED <<store, text, fd, spoiled, refused, upsets>> /\ SaveKeeps

\* Whoever else has the file open goes on writing to it under its new name.
Rename(w) ==
  LET s == store[w] IN
  /\ at[w] = "rename" /\ tmp[s] # NoFile
  /\ path' = [path EXCEPT ![s] = tmp[s]]
  /\ tmp' = [tmp EXCEPT ![s] = NoFile]
  /\ fd' = [v \in Web |-> IF v = w THEN "none"
                          ELSE IF store[v] # s \/ fd[v] = "none" THEN fd[v]
                          ELSE IF fd[v] = "tmp" THEN "path" ELSE "gone"]
  /\ Ended(w)
  /\ UNCHANGED <<spoiled, refused, upsets>> /\ SaveKeeps

\* Somebody renamed it already.
NothingToRename(w) ==
  /\ at[w] = "rename" /\ tmp[store[w]] = NoFile
  /\ fd' = [fd EXCEPT ![w] = "none"]
  /\ Ended(w)
  /\ UNCHANGED <<files, spoiled, refused, upsets>> /\ SaveKeeps

\* The disk refuses: the file cannot be opened, its text is cut short (and the
\* state of the stream not looked at), or it cannot be renamed.
DiskFails(w) ==
  /\ Upset
  /\ \/ /\ at[w] = "open"
        /\ Ended(w) /\ UNCHANGED <<files, fd>>
     \/ /\ at[w] = "write"
        /\ at' = [at EXCEPT ![w] = "rename"]
        /\ Put(w, Torn) /\ UNCHANGED <<store, text, fd>>
     \/ /\ at[w] = "rename"
        /\ fd' = [fd EXCEPT ![w] = "none"]
        /\ Ended(w) /\ UNCHANGED files
  /\ spoiled' = spoiled \cup {store[w]}
  /\ UNCHANGED <<engine, config, users, logins, who, now, refused, reloaded>>

-----------------------------------------------------------------------------
Administer(w) ==
  \/ \E r \in NewRules : AddRule(w, r)
  \/ Reload(w)
  \/ \E a \in Actions : SetAction(w, a)
  \/ \E n \in Names \ {Admin}, p \in Passwords, days \in Lifetimes : AddUser(w, n, p, days)
  \/ \E n \in Names \ {Admin, NoName} :
       \/ RemoveUser(w, n)
       \/ \E p \in Passwords : SetPassword(w, n, p)
       \/ \E active \in BOOLEAN : SetStatus(w, n, active)

LogIn(w) ==
  \/ \E n \in LoginNames :
       \/ LoginLocked(w, n)
       \/ \E p \in Passwords : LoginRefused(w, n, p) \/ LoginAccepted(w, n, p)
  \/ LoginInfo(w)

Save(w) ==
  \/ Snapshot(w) \/ OpenTmp(w) \/ Write(w) \/ Rename(w) \/ NothingToRename(w) \/ DiskFails(w)

Next ==
  \/ Restart
  \/ Tick
  \/ \E w \in Web : Administer(w) \/ Apply(w) \/ LogIn(w) \/ Save(w)

Spec == Init /\ [][Next]_vars

-----------------------------------------------------------------------------
(* Properties *)

\* The rules that apply to host h, of those the administrator is shown.
Applying(rules, h) ==
  {i \in DOMAIN rules : rules[i].enabled /\ Matches(rules[i], h)}

\* The custom rules of the highest priority that apply to host h.
Foremost(h) ==
  LET mine == Applying(custom, h)
  IN {i \in mine : \A j \in mine : custom[j].priority <= custom[i].priority}

\* What the rules shown say of host h: a custom rule of the highest priority
\* decides, or the last built-in one for just this name, or the first built-in
\* one for its ending, or the default action.
Shown(h) ==
  LET names == {i \in Applying(builtin, h) : builtin[i].type = "domain_exact"}
      ends == Applying(builtin, h) \ names
  IN IF Foremost(h) # {} THEN {custom[i].action : i \in Foremost(h)}
     ELSE IF names # {}
     THEN {builtin[i].action : i \in {i \in names : \A j \in names : j <= i}}
     ELSE IF ends # {}
     THEN {builtin[i].action : i \in {i \in ends : \A j \in ends : i <= j}}
     ELSE {fallback}

\* Sessions are routed by an index that is built from the rules at times, and
\* by the order of a list that is sorted at other times; yet as the rules shown
\* say, through additions, reloads and restarts, wherever the rules that should
\* decide have an id.  A custom rule without one is shown, but ends the search of
\* the custom rules and decides nothing.
DecidesAsShown ==
  \A h \in Hosts : (\A i \in Foremost(h) : custom[i].named) => decide(h) \in Shown(h)

Quiet(s) == \A w \in Web : store[w] = s => at[w] \in {"idle", "password", "info"}

\* Requests that were answered with success are in the files, however many came
\* at once: always for accounts that have a name, and for what is saved without a
\* lock unless two saves overlapped.  A failing disk, which nobody is told of, is
\* excepted, and so is, until the next save, what a request has changed that was
\* then answered 400.
AnsweredIsSaved ==
  \A s \in Stores \ (spoiled \cup refused) :
    Quiet(s) /\ (\A w \in Web : at[w] \notin {"apply", "password"})
      /\ ~(s = "rules" /\ reloaded)
      => Loaded(s) = Readable(s, Memory(s))

\* A crash at any moment leaves files that can be read, but for a store whose
\* disk has failed or, of those saved without a lock, two of whose saves overlapped.
FilesReadable == \A s \in Stores \ spoiled : path[s] \notin {Empty, Torn}

\* Whatever requests cross, routing ends up with the default action the settings
\* name.
SettingsApplied == (\A w \in Web : at[w] # "apply") => fallback = config

\* While time stands still nobody can try more than LoginLimit wrong passwords
\* for a name with POST /api/auth/login, across users coming and going and other
\* threads' logins; unless the records were forgotten, being too many, or the
\* gateway was restarted.  (The logins of the proxy itself have no such lock.)
GuessesLimited == \A n \in Names : guesses[n] <= LoginLimit
=============================================================================
