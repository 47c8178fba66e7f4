-------------------------- MODULE AdminDataProofs --------------------------
(***************************************************************************)
(* Promises of the administration that hold for any number of web threads, *)
(* requests and restarts: routing gets the default action of the settings, *)
(* a locked name cannot be guessed on, without accidents of the disk what  *)
(* was answered is in the files, which can be read at every moment, and    *)
(* hosts are routed as the rules shown say, where those have ids.          *)
(***************************************************************************)
EXTENDS AdminData, SequenceLemmas, TLAPS

-----------------------------------------------------------------------------
(* The default action *)

\* Where the web threads are is a function of the thread.
Placed == at = [w \in Web |-> at[w]]

SettingsInv == Placed /\ SettingsApplied

\* A step that leaves both copies alone, and after which every thread that was
\* about to bring them together still is.
LEMMA StillApplying ==
  ASSUME SettingsInv, Placed', UNCHANGED <<config, fallback>>,
         \A v \in Web : at[v] = "apply" => at'[v] = "apply"
  PROVE  SettingsInv'
  BY DEF SettingsInv, SettingsApplied

\* The same of a handler that is not one of them, and goes on to another place.
LEMMA GoesOn ==
  ASSUME SettingsInv, NEW w \in Web, at[w] # "apply", NEW to,
         at' = [at EXCEPT ![w] = to], UNCHANGED <<config, fallback>>
  PROVE  SettingsInv'
  <1>1. Placed'
    BY DEF SettingsInv, Placed
  <1>2. \A v \in Web : at[v] = "apply" => at'[v] = "apply"
    BY DEF SettingsInv, Placed
  <1> QED
    BY <1>1, <1>2, StillApplying

LEMMA StaysThere ==
  ASSUME SettingsInv, UNCHANGED <<at, config, fallback>>
  PROVE  SettingsInv'
  BY DEF SettingsInv, SettingsApplied, Placed

LEMMA SettingsInit == Init => SettingsInv
  BY DEF Init, SettingsInv, SettingsApplied, Placed, Idle

LEMMA SettingsRestart ==
  ASSUME SettingsInv, Restart
  PROVE  SettingsInv'
  BY DEF Restart, SettingsInv, SettingsApplied, Placed, Idle

\* What an administrator asks for.
LEMMA SettingsAdminister ==
  ASSUME SettingsInv, NEW w \in Web, Administer(w)
  PROVE  SettingsInv'
  <1>1. ASSUME NEW r \in NewRules, AddRule(w, r)
        PROVE  SettingsInv'
    <2>1. at[w] # "apply" /\ at' = [at EXCEPT ![w] = "save"]
      BY <1>1 DEF AddRule, Request, SaveNext
    <2>2. UNCHANGED <<config, fallback>>
      BY <1>1 DEF AddRule
    <2> QED
      BY <2>1, <2>2, GoesOn
  <1>2. ASSUME Reload(w)
        PROVE  SettingsInv'
    BY <1>2, StaysThere DEF Reload
  <1>3. ASSUME NEW a \in Actions, SetAction(w, a)
        PROVE  SettingsInv'
    <2>1. at' = [at EXCEPT ![w] = "apply"]
      BY <1>3 DEF SetAction
    <2>2. Placed' /\ at'[w] = "apply"
      BY <2>1 DEF SettingsInv, Placed
    <2> QED
      BY <2>2 DEF SettingsInv, SettingsApplied
  <1>4. ASSUME NEW n \in Names, RemoveUser(w, n)
        PROVE  SettingsInv'
    <2>1. at[w] # "apply" /\ at' = [at EXCEPT ![w] = "save"]
      BY <1>4 DEF RemoveUser, UserRequest, Request, SaveNext
    <2>2. UNCHANGED <<config, fallback>>
      BY <1>4 DEF RemoveUser, UserRequest, engine
    <2> QED
      BY <2>1, <2>2, GoesOn
  <1>5. ASSUME NEW n \in Names, NEW p \in Passwords, SetPassword(w, n, p)
        PROVE  SettingsInv'
    <2>1. at[w] # "apply" /\ at' = [at EXCEPT ![w] = "save"]
      BY <1>5 DEF SetPassword, UserRequest, Request, SaveNext
    <2>2. UNCHANGED <<config, fallback>>
      BY <1>5 DEF SetPassword, UserRequest, engine
    <2> QED
      BY <2>1, <2>2, GoesOn
  <1>6. ASSUME NEW n \in Names, NEW p \in Passwords, NEW days \in Lifetimes,
               AddUser(w, n, p, days)
        PROVE  SettingsInv'
    <2>1. at[w] # "apply" /\ at' = [at EXCEPT ![w] = "save"]
      BY <1>6 DEF AddUser, UserRequest, Request, SaveNext
    <2>2. UNCHANGED <<config, fallback>>
      BY <1>6 DEF AddUser, UserRequest, engine
    <2> QED
      BY <2>1, <2>2, GoesOn
  <1>7. ASSUME NEW n \in Names, NEW b \in BOOLEAN, SetStatus(w, n, b)
        PROVE  SettingsInv'
    <2>1. at[w] # "apply"
      BY <1>7 DEF SetStatus, UserRequest, Request
    <2>2. \E to \in {"save", "password", "idle"} : at' = [at EXCEPT ![w] = to]
      BY <1>7 DEF SetStatus, SaveNext, Refuse
    <2>3. UNCHANGED <<config, fallback>>
      BY <1>7 DEF SetStatus, UserRequest, engine
    <2> QED
      BY <2>1, <2>2, <2>3, GoesOn
  <1> QED
    BY <1>1, <1>2, <1>3, <1>4, <1>5, <1>6, <1>7 DEF Administer

LEMMA SettingsApply ==
  ASSUME SettingsInv, NEW w \in Web, Apply(w)
  PROVE  SettingsInv'
  <1>1. Placed'
    BY DEF Apply, SaveNext, Refuse, SettingsInv, Placed
  <1>2. fallback' = config'
    BY DEF Apply
  <1> QED
    BY <1>1, <1>2 DEF SettingsInv, SettingsApplied

LEMMA SettingsLogIn ==
  ASSUME SettingsInv, NEW w \in Web, LogIn(w)
  PROVE  SettingsInv'
  <1>1. UNCHANGED <<config, fallback>>
    BY DEF LogIn, LoginLocked, LoginRefused, LoginAccepted, LoginInfo, Login, LoginKeeps,
           engine
  <1>2. \/ at' = at
        \/ at[w] # "apply" /\ at' = [at EXCEPT ![w] = "info"]
        \/ at[w] # "apply" /\ at' = [at EXCEPT ![w] = "idle"]
    BY DEF LogIn, LoginLocked, LoginRefused, LoginAccepted, LoginInfo, Login
  <1> QED
    BY <1>1, <1>2, GoesOn, StaysThere

LEMMA SettingsSave ==
  ASSUME SettingsInv, NEW w \in Web, Save(w)
  PROVE  SettingsInv'
  <1>1. UNCHANGED <<config, fallback>>
    BY DEF Save, Snapshot, OpenTmp, Write, Rename, NothingToRename, DiskFails, SaveKeeps,
           engine
  <1>2. /\ at[w] # "apply"
        /\ \E to \in {"open", "write", "rename", "idle"} : at' = [at EXCEPT ![w] = to]
    BY DEF Save, Snapshot, OpenTmp, Write, Rename, NothingToRename, DiskFails, Ended
  <1> QED
    BY <1>1, <1>2, GoesOn

LEMMA SettingsStep ==
  ASSUME SettingsInv, [Next]_vars
  PROVE  SettingsInv'
  <1>1. ASSUME Restart
        PROVE  SettingsInv'
    BY <1>1, SettingsRestart
  <1>2. ASSUME Tick
        PROVE  SettingsInv'
    BY <1>2, StaysThere DEF Tick, engine, handler
  <1>3. ASSUME UNCHANGED vars
        PROVE  SettingsInv'
    BY <1>3, StaysThere DEF vars, engine, handler
  <1> QED
    BY <1>1, <1>2, <1>3, SettingsAdminister, SettingsApply, SettingsLogIn, SettingsSave
       DEF Next

\* Settings written by any number of threads at once, without a lock, crossed by
\* rule edits, logins and restarts: once no handler is between the assignment
\* and set_default_action, routing uses the default action the settings name.
THEOREM SettingsReachRouting == Spec => []SettingsApplied
  <1>1. SettingsInv => SettingsApplied
    BY DEF SettingsInv
  <1> QED
    BY SettingsInit, SettingsStep, <1>1, PTL DEF Spec

-----------------------------------------------------------------------------
(* Wrong passwords *)

\* What the failures counted of a name say of the guesses made: of a name that
\* is not locked no guess was forgotten.
Counts ==
  /\ fails \in [Names -> 0..(LoginLimit - 1)]
  /\ guesses \in [Names -> Nat]

GuessInv ==
  /\ Counts
  /\ GuessesLimited
  /\ \A n \in Names \ locked : guesses[n] <= fails[n]

\* Forgetting all failures forgets all guesses too.
LEMMA CleanedCounts ==
  ASSUME GuessInv
  PROVE  /\ Cleaned(fails) \in [Names -> 0..(LoginLimit - 1)]
         /\ Cleaned(guesses) \in [Names -> Nat]
         /\ \A n \in Names : Cleaned(guesses)[n] <= LoginLimit
         /\ \A n \in Names \ locked : Cleaned(guesses)[n] <= Cleaned(fails)[n]
  <1>1. LoginLimit \in Nat \ {0}
    BY AdminAssumption
  <1>2. CASE TooMany
    BY <1>1, <1>2 DEF Cleaned, Zeros
  <1>3. CASE ~TooMany
    BY <1>1, <1>3 DEF Cleaned, GuessInv, Counts, GuessesLimited
  <1> QED
    BY <1>2, <1>3

LEMMA GuessInit == Init => GuessInv
  BY AdminAssumption DEF Init, GuessInv, Counts, GuessesLimited, Zeros

LEMMA GuessKept ==
  ASSUME GuessInv, UNCHANGED logins
  PROVE  GuessInv'
  BY DEF GuessInv, Counts, GuessesLimited, logins

\* What a login leaves of the counts: those that may have been cleaned, or, of a
\* name that is let in, none.
LEMMA GuessForgotten ==
  ASSUME GuessInv, NEW f \in [Names -> 0..(LoginLimit - 1)], NEW g \in [Names -> Nat],
         \A m \in Names : g[m] <= LoginLimit,
         \A m \in Names \ locked : g[m] <= f[m],
         UNCHANGED locked, NEW n,
         \/ fails' = f /\ guesses' = g
         \/ fails' = [f EXCEPT ![n] = 0] /\ guesses' = [g EXCEPT ![n] = 0]
  PROVE  GuessInv'
  <1>1. LoginLimit \in Nat \ {0}
    BY AdminAssumption
  <1>2. CASE fails' = f /\ guesses' = g
    BY <1>2 DEF GuessInv, Counts, GuessesLimited
  <1>3. CASE fails' = [f EXCEPT ![n] = 0] /\ guesses' = [g EXCEPT ![n] = 0]
    <2>1. Counts'
      <3>1. 0 \in 0..(LoginLimit - 1) /\ 0 \in Nat
        BY <1>1
      <3>2. fails' \in [Names -> 0..(LoginLimit - 1)]
        BY <1>3, <3>1
      <3>3. guesses' \in [Names -> Nat]
        BY <1>3, <3>1
      <3> QED
        BY <3>2, <3>3 DEF Counts
    <2>2. \A m \in Names : /\ fails'[m] = IF m = n THEN 0 ELSE f[m]
                           /\ guesses'[m] = IF m = n THEN 0 ELSE g[m]
      BY <1>3
    <2> QED
      BY <1>1, <2>1, <2>2 DEF GuessInv, GuessesLimited
  <1> QED
    BY <1>2, <1>3

LEMMA GuessLocked ==
  ASSUME GuessInv, NEW w \in Web, NEW n \in Names, LoginLocked(w, n)
  PROVE  GuessInv'
  BY CleanedCounts, GuessForgotten DEF LoginLocked

\* A wrong password is counted in both, or locks the name.
LEMMA GuessRefused ==
  ASSUME GuessInv, NEW w \in Web, NEW n \in Names, NEW p \in Passwords,
         LoginRefused(w, n, p)
  PROVE  GuessInv'
  <1> DEFINE f == Cleaned(fails)
             g == Cleaned(guesses)
  <1>1. LoginLimit \in Nat \ {0}
    BY AdminAssumption
  <1>2. /\ f \in [Names -> 0..(LoginLimit - 1)] /\ g \in [Names -> Nat]
        /\ \A m \in Names : g[m] <= LoginLimit
        /\ \A m \in Names \ locked : g[m] <= f[m]
    BY CleanedCounts
  <1>3. n \notin locked /\ guesses' = [g EXCEPT ![n] = @ + 1]
    BY DEF LoginRefused
  <1>4. /\ f[n] \in 0..(LoginLimit - 1) /\ g[n] \in Nat /\ g[n] <= f[n]
        /\ guesses' \in [Names -> Nat]
        /\ guesses'[n] = g[n] + 1 /\ \A m \in Names \ {n} : guesses'[m] = g[m]
    <2> HIDE DEF f, g
    <2> QED
      BY <1>2, <1>3
  <1>5. CASE f[n] + 1 >= LoginLimit
    <2>1. locked' = locked \cup {n} /\ fails' = [f EXCEPT ![n] = 0]
      BY <1>1, <1>4, <1>5 DEF LoginRefused
    <2> HIDE DEF f, g
    <2>2. fails' \in [Names -> 0..(LoginLimit - 1)] /\ \A m \in Names \ {n} : fails'[m] = f[m]
      BY <1>1, <1>2, <2>1
    <2> QED
      BY <1>1, <1>2, <1>4, <2>1, <2>2 DEF GuessInv, Counts, GuessesLimited
  <1>6. CASE f[n] + 1 < LoginLimit
    <2>1. locked' = locked /\ fails' = [f EXCEPT ![n] = @ + 1]
      BY <1>1, <1>4, <1>6 DEF LoginRefused
    <2> HIDE DEF f, g
    <2>2. /\ fails' \in [Names -> 0..(LoginLimit - 1)]
          /\ fails'[n] = f[n] + 1 /\ \A m \in Names \ {n} : fails'[m] = f[m]
      BY <1>1, <1>2, <1>4, <1>6, <2>1
    <2> QED
      BY <1>1, <1>2, <1>4, <1>6, <2>1, <2>2 DEF GuessInv, Counts, GuessesLimited
  <1>7. f[n] + 1 >= LoginLimit \/ f[n] + 1 < LoginLimit
    <2> HIDE DEF f, g
    <2> QED
      BY <1>1, <1>4
  <1> QED
    BY <1>5, <1>6, <1>7

LEMMA GuessAccepted ==
  ASSUME GuessInv, NEW w \in Web, NEW n \in Names, NEW p \in Passwords,
         LoginAccepted(w, n, p)
  PROVE  GuessInv'
  <1>1. /\ UNCHANGED locked
        /\ \/ fails' = Cleaned(fails) /\ guesses' = Cleaned(guesses)
           \/ /\ fails' = [Cleaned(fails) EXCEPT ![n] = 0]
              /\ guesses' = [Cleaned(guesses) EXCEPT ![n] = 0]
    BY DEF LoginAccepted
  <1> QED
    BY <1>1, CleanedCounts, GuessForgotten

LEMMA GuessInfo ==
  ASSUME GuessInv, NEW w \in Web, LoginInfo(w)
  PROVE  GuessInv'
  <1>1. /\ UNCHANGED locked
        /\ \/ fails' = fails /\ guesses' = guesses
           \/ /\ fails' = [fails EXCEPT ![who[w]] = 0]
              /\ guesses' = [guesses EXCEPT ![who[w]] = 0]
    BY DEF LoginInfo
  <1>2. /\ fails \in [Names -> 0..(LoginLimit - 1)] /\ guesses \in [Names -> Nat]
        /\ \A m \in Names : guesses[m] <= LoginLimit
        /\ \A m \in Names \ locked : guesses[m] <= fails[m]
    BY DEF GuessInv, Counts, GuessesLimited
  <1> QED
    BY <1>1, <1>2, GuessForgotten

\* Time passes, or the gateway starts again: no guess counts any more.
LEMMA GuessReset ==
  ASSUME GuessInv, Restart \/ Tick
  PROVE  GuessInv'
  <1>1. LoginLimit \in Nat \ {0}
    BY AdminAssumption
  <1>2. guesses' = Zeros /\ (fails' = Zeros \/ fails' = fails)
    BY DEF Restart, Tick
  <1> QED
    BY <1>1, <1>2 DEF GuessInv, Counts, GuessesLimited, Zeros

LEMMA GuessStep ==
  ASSUME GuessInv, [Next]_vars
  PROVE  GuessInv'
  <1>1. ASSUME NEW w \in Web, Administer(w)
        PROVE  UNCHANGED logins
    BY <1>1 DEF Administer, AddRule, Reload, SetAction, RemoveUser, SetPassword, AddUser,
                SetStatus, UserRequest, Request
  <1>2. ASSUME NEW w \in Web, Apply(w) \/ Save(w)
        PROVE  UNCHANGED logins
    BY <1>2 DEF Apply, Save, Snapshot, OpenTmp, Write, Rename, NothingToRename, DiskFails,
                SaveKeeps
  <1>3. ASSUME NEW w \in Web, LogIn(w)
        PROVE  GuessInv'
    <2>1. LoginNames \subseteq Names
      BY AdminAssumption
    <2> QED
      BY <1>3, <2>1, GuessLocked, GuessRefused, GuessAccepted, GuessInfo DEF LogIn
  <1>4. ASSUME UNCHANGED vars
        PROVE  UNCHANGED logins
    BY <1>4 DEF vars
  <1> QED
    BY <1>1, <1>2, <1>3, <1>4, GuessKept, GuessReset DEF Next

\* However the logins of many threads, edits of users and the cleaning of the
\* records interleave, no name takes more than LoginLimit wrong passwords while
\* time stands still.
THEOREM LockoutHolds == Spec => []GuessesLimited
  <1>1. GuessInv => GuessesLimited
    BY DEF GuessInv
  <1> QED
    BY GuessInit, GuessStep, <1>1, PTL DEF Spec

-----------------------------------------------------------------------------
(* The files.  Of a store that is not spoiled one thread at most is saving,  *)
(* with the temporary file open, which is empty until all is written.       *)

Whole(file) == file \notin {Empty, Torn}

\* What may be written to a file.
Content(c) == c \notin {NoFile, Empty, Torn}

\* A list of rules, a table of users and the name of an action can be told from
\* a missing file and from the two unfinished ones, and these from each other.
ContentsAreWhole ==
  /\ \A f : f = [x \in DOMAIN f |-> f[x]] => Content(f)
  /\ \A c \in Actions \cup {CustomFile, <<>>} : Content(c)
  /\ Whole(NoFile)

MemoryIsWhole == Content(custom) /\ Content(users) /\ Content(config)

Functional ==
  /\ at = [w \in Web |-> at[w]]
  /\ store \in [Web -> Stores]
  /\ text = [w \in Web |-> text[w]]
  /\ fd = [w \in Web |-> fd[w]]
  /\ path = [s \in Stores |-> path[s]]
  /\ tmp = [s \in Stores |-> tmp[s]]

Orderly(s) ==
  /\ Whole(path[s])
  /\ \A w \in Web : Saving(w, s) =>
       /\ \A v \in Web \ {w} : ~Saving(v, s)
       /\ at[w] \in {"open", "write"} => Content(text[w])
       /\ at[w] \in {"write", "rename"} => fd[w] = "tmp"
       /\ at[w] = "write" => tmp[s] = Empty
       /\ at[w] = "rename" => Content(tmp[s])

ReadInv == Functional /\ MemoryIsWhole /\ \A s \in Stores \ spoiled : Orderly(s)

LEMMA LoadedIsWhole ==
  ASSUME ContentsAreWhole, NEW s \in Stores
  PROVE  Content(Loaded(s))
  <1>1. Content(<<>>)
    BY DEF ContentsAreWhole
  <1>2. Content("proxy")
    BY DEF ContentsAreWhole, Actions
  <1>3. Content(Default(s))
    BY <1>1, <1>2 DEF Default, Stores
  <1>4. ASSUME Whole(path[s]), path[s] # NoFile
        PROVE  Content(Readable(s, path[s]))
    <2>1. CASE s = "users"
      <3>1. Readable(s, path[s]) = [n \in DOMAIN Readable(s, path[s]) |-> Readable(s, path[s])[n]]
        BY <2>1 DEF Readable
      <3> QED
        BY <3>1 DEF ContentsAreWhole
    <2>2. CASE s # "users"
      BY <1>4, <2>2 DEF Readable, Whole, Content
    <2> QED
      BY <2>1, <2>2
  <1> QED
    BY <1>3, <1>4 DEF Loaded, Whole

LEMMA MemoryRead ==
  ASSUME MemoryIsWhole, NEW s \in Stores
  PROVE  Content(Memory(s))
  BY DEF MemoryIsWhole, Memory, Stores

LEMMA ReadInit == ASSUME ContentsAreWhole, Init PROVE ReadInv
  <1>1. Content(<<>>)
    BY DEF ContentsAreWhole
  <1>2. Content("proxy") /\ Content(CustomFile) /\ Whole(NoFile)
    BY DEF ContentsAreWhole, Actions
  <1>3. MemoryIsWhole
    BY <1>1, <1>2 DEF Init, MemoryIsWhole
  <1>4. Functional
    BY DEF Init, Functional, Idle, NoStore, Nothing, Closed, Stores
  <1>5. \A s \in Stores : Orderly(s)
    BY <1>2 DEF Init, Orderly, Saving, Idle, Content, Whole
  <1> QED
    BY <1>3, <1>4, <1>5 DEF ReadInv

\* A store whose files and savers a step leaves as they are.
LEMMA OrderlyKept ==
  ASSUME NEW s, Orderly(s), path'[s] = path[s], tmp'[s] = tmp[s],
         \A w \in Web : Saving(w, s)' =>
           Saving(w, s) /\ at'[w] = at[w] /\ text'[w] = text[w] /\ fd'[w] = fd[w]
  PROVE  Orderly(s)'
  BY DEF Orderly

\* A step of a handler that is not writing, to a place where it is not either.
LEMMA ReadAside ==
  ASSUME ReadInv, NEW w \in Web, at[w] \notin {"open", "write", "rename"},
         UNCHANGED <<files, text, fd, spoiled>>, MemoryIsWhole',
         NEW to, to \notin {"open", "write", "rename"}, at' = [at EXCEPT ![w] = to],
         NEW s1 \in Stores, store' = [store EXCEPT ![w] = s1]
  PROVE  ReadInv'
  <1>1. Functional'
    BY DEF ReadInv, Functional, files
  <1>2. ASSUME NEW s \in Stores \ spoiled
        PROVE  Orderly(s)'
    <2>1. at'[w] = to
      BY DEF ReadInv, Functional
    <2>2. \A v \in Web : v # w => at'[v] = at[v] /\ store'[v] = store[v]
      BY DEF ReadInv, Functional
    <2>3. \A v \in Web : Saving(v, s)' => Saving(v, s) /\ at'[v] = at[v]
      BY <2>1, <2>2 DEF Saving
    <2> QED
      BY <2>3, OrderlyKept DEF ReadInv, files
  <1> QED
    BY <1>1, <1>2 DEF ReadInv

\* What a step leaves alone, it may be said to set to what it was.
LEMMA ReadSame ==
  ASSUME ReadInv, NEW w \in Web
  PROVE  /\ at = [at EXCEPT ![w] = at[w]]
         /\ store = [store EXCEPT ![w] = store[w]] /\ store[w] \in Stores
  BY DEF ReadInv, Functional

\* What Amend makes of the users is a table of users.
LEMMA AmendIsWhole ==
  ASSUME ContentsAreWhole, MemoryIsWhole, NEW n, NEW field, NEW x, Amend(n, field, x)
  PROVE  Content(users')
  <1>1. CASE n \in DOMAIN users
    <2>1. users' = [users EXCEPT ![n] = (field :> x) @@ users[n]]
      BY <1>1 DEF Amend
    <2>2. users' = [m \in DOMAIN users' |-> users'[m]]
      BY <2>1
    <2> QED
      BY <2>2 DEF ContentsAreWhole
  <1>2. CASE n \notin DOMAIN users
    BY <1>2 DEF Amend, MemoryIsWhole
  <1> QED
    BY <1>1, <1>2

LEMMA ReadRules ==
  ASSUME ContentsAreWhole, ReadInv, NEW w \in Web,
         \/ \E r \in NewRules : AddRule(w, r)
         \/ Reload(w)
         \/ \E a \in Actions : SetAction(w, a)
         \/ Apply(w)
  PROVE  ReadInv'
  <1>1. ASSUME NEW r \in NewRules, AddRule(w, r)
        PROVE  ReadInv'
    <2>1. PICK q : custom' = [i \in DOMAIN Append(custom, r) |-> Append(custom, r)[q[i]]]
      BY <1>1 DEF AddRule, SortedRules
    <2>2. custom' = [i \in DOMAIN custom' |-> custom'[i]]
      BY <2>1
    <2>3. MemoryIsWhole'
      BY <1>1, <2>2 DEF AddRule, ContentsAreWhole, ReadInv, MemoryIsWhole
    <2>4. at[w] = "idle" /\ UNCHANGED <<files, text, fd, spoiled>>
          /\ at' = [at EXCEPT ![w] = "save"] /\ store' = [store EXCEPT ![w] = "rules"]
      BY <1>1 DEF AddRule, Request, SaveNext
    <2> QED
      BY <2>3, <2>4, ReadAside DEF Stores
  <1>2. CASE Reload(w)
    <2>1. Content(custom')
      BY <1>2 DEF Reload, ContentsAreWhole
    <2>2. MemoryIsWhole'
      BY <1>2, <2>1 DEF Reload, ReadInv, MemoryIsWhole
    <2>3. at[w] = "idle" /\ UNCHANGED <<files, text, fd, spoiled, at, store>>
      BY <1>2 DEF Reload, Request
    <2> QED
      BY <2>2, <2>3, ReadSame, ReadAside
  <1>3. ASSUME NEW a \in Actions, SetAction(w, a)
        PROVE  ReadInv'
    <2>1. MemoryIsWhole'
      BY <1>3 DEF SetAction, ContentsAreWhole, ReadInv, MemoryIsWhole, engine
    <2>2. at[w] = "idle" /\ UNCHANGED <<files, text, fd, spoiled, store>>
          /\ at' = [at EXCEPT ![w] = "apply"]
      BY <1>3 DEF SetAction, Request
    <2> QED
      BY <2>1, <2>2, ReadSame, ReadAside
  <1>4. CASE Apply(w)
    <2>1. MemoryIsWhole'
      BY <1>4 DEF Apply, ReadInv, MemoryIsWhole
    <2>2. at[w] = "apply" /\ UNCHANGED <<files, text, fd, spoiled>>
      BY <1>4 DEF Apply
    <2>3. CASE SaveNext(w, "settings")
      BY <2>1, <2>2, <2>3, ReadAside DEF SaveNext, Stores
    <2>4. CASE Refuse(w, "settings")
      BY <2>1, <2>2, <2>4, ReadSame, ReadAside DEF Refuse
    <2> QED
      BY <1>4, <2>3, <2>4 DEF Apply
  <1> QED
    BY <1>1, <1>2, <1>3, <1>4

LEMMA ReadUsers ==
  ASSUME ContentsAreWhole, ReadInv, NEW w \in Web, NEW n,
         \/ RemoveUser(w, n)
         \/ \E p \in Passwords : SetPassword(w, n, p)
         \/ \E p \in Passwords, days \in Lifetimes : AddUser(w, n, p, days)
         \/ \E active \in BOOLEAN : SetStatus(w, n, active)
  PROVE  ReadInv'
  <1>1. Content(users')
    <2>1. CASE RemoveUser(w, n)
      <3>1. users' = [m \in DOMAIN users' |-> users'[m]]
        BY <2>1 DEF RemoveUser
      <3> QED BY <3>1 DEF ContentsAreWhole
    <2>2. ASSUME NEW p \in Passwords, NEW days \in Lifetimes, AddUser(w, n, p, days)
          PROVE  Content(users')
      <3>1. users' = [m \in DOMAIN users' |-> users'[m]]
        BY <2>2 DEF AddUser
      <3> QED BY <3>1 DEF ContentsAreWhole
    <2>3. ASSUME NEW p \in Passwords, SetPassword(w, n, p)
          PROVE  Content(users')
      BY <2>3, AmendIsWhole DEF SetPassword, ReadInv
    <2>4. ASSUME NEW a \in BOOLEAN, SetStatus(w, n, a)
          PROVE  Content(users')
      BY <2>4, AmendIsWhole DEF SetStatus, ReadInv
    <2> QED
      BY <2>1, <2>2, <2>3, <2>4
  <1>2. UNCHANGED <<custom, config, files, text, fd, spoiled>>
    BY DEF RemoveUser, SetPassword, AddUser, SetStatus, UserRequest, Request, engine
  <1>3. MemoryIsWhole'
    BY <1>1, <1>2 DEF ReadInv, MemoryIsWhole
  <1>4. /\ at[w] \in {"idle", "password"}
        /\ \/ SaveNext(w, "users")
           \/ /\ \E to \in {"password", "idle"} : at' = [at EXCEPT ![w] = to]
              /\ UNCHANGED store
    BY DEF RemoveUser, SetPassword, AddUser, SetStatus, UserRequest, Request, Refuse
  <1>5. CASE SaveNext(w, "users")
    BY <1>2, <1>3, <1>4, <1>5, ReadAside DEF SaveNext, Stores
  <1>6. ASSUME NEW to \in {"password", "idle"}, at' = [at EXCEPT ![w] = to], UNCHANGED store
        PROVE  ReadInv'
    BY <1>2, <1>3, <1>4, <1>6, ReadSame, ReadAside
  <1> QED
    BY <1>4, <1>5, <1>6

LEMMA ReadLogIn ==
  ASSUME ReadInv, NEW w \in Web, LogIn(w)
  PROVE  ReadInv'
  <1>1. UNCHANGED <<custom, users, config, files, text, fd, spoiled, store>>
    BY DEF LogIn, LoginLocked, LoginRefused, LoginAccepted, LoginInfo, Login, LoginKeeps, engine
  <1>2. MemoryIsWhole'
    BY <1>1 DEF ReadInv, MemoryIsWhole
  <1>3. at[w] \in {"idle", "info"}
    BY DEF LogIn, LoginLocked, LoginRefused, LoginAccepted, LoginInfo, Login
  <1>4. at' = at \/ \E to \in {"info", "idle"} : at' = [at EXCEPT ![w] = to]
    BY DEF LogIn, LoginLocked, LoginRefused, LoginAccepted, LoginInfo
  <1> QED
    BY <1>1, <1>2, <1>3, <1>4, ReadSame, ReadAside

\* A step of a save.  It leaves the other stores alone; its own store is orderly
\* afterwards, unless it is spoiled.
LEMMA ReadSaving ==
  ASSUME ReadInv, Functional', NEW w \in Web, UNCHANGED <<store, custom, users, config>>,
         spoiled \subseteq spoiled',
         \A v \in Web \ {w} : at'[v] = at[v] /\ text'[v] = text[v],
         \A v \in Web \ {w} : store[v] # store[w] => fd'[v] = fd[v],
         \A s \in Stores \ {store[w]} : path'[s] = path[s] /\ tmp'[s] = tmp[s],
         store[w] \notin spoiled' => Orderly(store[w])'
  PROVE  ReadInv'
  <1>1. MemoryIsWhole'
    BY DEF ReadInv, MemoryIsWhole
  <1>2. ASSUME NEW s \in Stores \ spoiled'
        PROVE  Orderly(s)'
    <2>1. CASE s = store[w]
      BY <1>2, <2>1
    <2>2. CASE s # store[w]
      <3>1. Orderly(s)
        BY <1>2 DEF ReadInv
      <3>2. ASSUME NEW v \in Web, Saving(v, s)'
            PROVE  Saving(v, s) /\ at'[v] = at[v] /\ text'[v] = text[v] /\ fd'[v] = fd[v]
        BY <2>2, <3>2 DEF Saving
      <3> QED
        BY <1>2, <2>2, <3>1, <3>2, OrderlyKept
    <2> QED
      BY <2>1, <2>2
  <1> QED
    BY <1>1, <1>2 DEF ReadInv

\* The same of a step that gives up or ends the save of w.
LEMMA OrderlyEnds ==
  ASSUME ReadInv, NEW w \in Web, NEW s, s = store[w], Orderly(s), Saving(w, s),
         UNCHANGED store, at' = [at EXCEPT ![w] = "idle"], Whole(path'[s])
  PROVE  Orderly(s)'
  <1>1. \A v \in Web : ~Saving(v, s)'
    BY DEF Saving, Orderly, ReadInv, Functional
  <1> QED
    BY <1>1 DEF Orderly

\* And of one that goes on with it.
LEMMA OrderlyGoesOn ==
  ASSUME ReadInv, NEW w \in Web, NEW s, s = store[w],
         \A v \in Web \ {w} : ~Saving(v, s),
         NEW to \in {"open", "write", "rename"}, at' = [at EXCEPT ![w] = to],
         UNCHANGED store, Whole(path'[s]),
         to \in {"open", "write"} => Content(text'[w]),
         to \in {"write", "rename"} => fd'[w] = "tmp",
         to = "write" => tmp'[s] = Empty,
         to = "rename" => Content(tmp'[s])
  PROVE  Orderly(s)'
  <1>1. at'[w] = to /\ \A v \in Web \ {w} : ~Saving(v, s)'
    BY DEF Saving, ReadInv, Functional
  <1> QED
    BY <1>1 DEF Orderly, Saving

LEMMA ReadSave ==
  ASSUME ReadInv, NEW w \in Web, Save(w)
  PROVE  ReadInv'
  <1> DEFINE s == store[w]
  <1>0. s \in Stores /\ Functional /\ (s \notin spoiled => Orderly(s))
    BY DEF ReadInv, Functional
  <1>1. UNCHANGED <<store, custom, users, config>> /\ spoiled \subseteq spoiled'
    BY DEF Save, Snapshot, OpenTmp, Write, Rename, NothingToRename, DiskFails, SaveKeeps,
           Ended, engine
  <1>2. CASE Snapshot(w)
    <2>1. /\ Functional'
          /\ at' = [at EXCEPT ![w] = "open"] /\ text'[w] = Memory(s)
          /\ \A v \in Web \ {w} : at'[v] = at[v] /\ text'[v] = text[v]
          /\ UNCHANGED <<path, tmp, fd, store>>
      BY <1>0, <1>2 DEF Snapshot, Functional, files
    <2>2. ASSUME s \notin spoiled'
          PROVE  s \notin spoiled /\ \A v \in Web \ {w} : ~Saving(v, s)
      BY <1>2, <2>2 DEF Snapshot, UsersFree
    <2>3. Content(text'[w])
      BY <1>0, <2>1, MemoryRead DEF ReadInv
    <2>4. ASSUME s \notin spoiled'
          PROVE  Orderly(s)'
      <3>1. Whole(path'[s])
        BY <1>0, <2>1, <2>2, <2>4 DEF Orderly
      <3> QED
        BY <2>1, <2>2, <2>3, <2>4, <3>1, OrderlyGoesOn
    <2> QED
      BY <1>1, <2>1, <2>4, ReadSaving
  <1>3. CASE OpenTmp(w)
    <2>1. /\ Functional'
          /\ at[w] = "open" /\ at' = [at EXCEPT ![w] = "write"]
          /\ \A v \in Web \ {w} : at'[v] = at[v] /\ fd'[v] = fd[v]
          /\ fd'[w] = "tmp" /\ tmp'[s] = Empty
          /\ \A r \in Stores \ {s} : tmp'[r] = tmp[r]
          /\ UNCHANGED <<path, text, store, spoiled>>
      BY <1>0, <1>3 DEF OpenTmp, Functional
    <2>2. ASSUME s \notin spoiled'
          PROVE  Orderly(s)'
      <3>1. /\ Saving(w, s) /\ Orderly(s) /\ Whole(path'[s]) /\ Content(text'[w])
            /\ \A v \in Web \ {w} : ~Saving(v, s)
        BY <1>0, <2>1, <2>2 DEF Saving, Orderly
      <3> QED
        BY <2>1, <3>1, OrderlyGoesOn
    <2> QED
      BY <1>1, <2>1, <2>2, ReadSaving
  <1>4. CASE Write(w)
    <2>1. /\ at[w] = "write" /\ at' = [at EXCEPT ![w] = "rename"]
          /\ \A v \in Web \ {w} : at'[v] = at[v]
          /\ UNCHANGED <<text, fd, store, spoiled>>
      BY <1>0, <1>4 DEF Write, Functional
    <2>2. Functional' /\ \A r \in Stores \ {s} : path'[r] = path[r] /\ tmp'[r] = tmp[r]
      BY <1>0, <1>4 DEF Write, Put, Functional
    <2>3. ASSUME s \notin spoiled'
          PROVE  Orderly(s)'
      <3>1. /\ Saving(w, s) /\ Orderly(s) /\ Whole(path[s]) /\ Content(text[w])
            /\ fd[w] = "tmp" /\ tmp[s] = Empty
            /\ \A v \in Web \ {w} : ~Saving(v, s)
        BY <1>0, <2>1, <2>3 DEF Saving, Orderly
      <3>2. tmp'[s] = text[w] /\ path' = path
        BY <1>0, <1>4, <3>1 DEF Write, Put, Functional
      <3> QED
        BY <2>1, <3>1, <3>2, OrderlyGoesOn
    <2> QED
      BY <1>1, <2>1, <2>2, <2>3, ReadSaving
  <1>5. CASE Rename(w)
    <2>1. /\ Functional'
          /\ at[w] = "rename" /\ at' = [at EXCEPT ![w] = "idle"]
          /\ \A v \in Web \ {w} : at'[v] = at[v] /\ text'[v] = text[v]
          /\ \A v \in Web \ {w} : store[v] # s => fd'[v] = fd[v]
          /\ path'[s] = tmp[s]
          /\ \A r \in Stores \ {s} : path'[r] = path[r] /\ tmp'[r] = tmp[r]
          /\ UNCHANGED <<store, spoiled>>
      BY <1>0, <1>5 DEF Rename, Ended, Functional
    <2>2. ASSUME s \notin spoiled'
          PROVE  Orderly(s)'
      <3>1. Saving(w, s) /\ Orderly(s) /\ Whole(path'[s])
        BY <1>0, <2>1, <2>2 DEF Saving, Orderly, Content, Whole
      <3> QED
        BY <2>1, <3>1, OrderlyEnds
    <2> QED
      BY <1>1, <2>1, <2>2, ReadSaving
  <1>6. CASE NothingToRename(w)
    <2>1. /\ Functional'
          /\ at[w] = "rename" /\ at' = [at EXCEPT ![w] = "idle"]
          /\ \A v \in Web \ {w} : at'[v] = at[v] /\ text'[v] = text[v] /\ fd'[v] = fd[v]
          /\ UNCHANGED <<path, tmp, store, spoiled>>
      BY <1>0, <1>6 DEF NothingToRename, Ended, Functional, files
    <2>2. ASSUME s \notin spoiled'
          PROVE  Orderly(s)'
      <3>1. Saving(w, s) /\ Orderly(s) /\ Whole(path'[s])
        BY <1>0, <2>1, <2>2 DEF Saving, Orderly, Content, Whole
      <3> QED
        BY <2>1, <3>1, OrderlyEnds
    <2> QED
      BY <1>1, <2>1, <2>2, ReadSaving
  <1>7. CASE DiskFails(w)
    <2>1. s \in spoiled'
      BY <1>7 DEF DiskFails
    <2>2. /\ Functional'
          /\ \A v \in Web \ {w} : at'[v] = at[v] /\ text'[v] = text[v] /\ fd'[v] = fd[v]
          /\ \A r \in Stores \ {s} : path'[r] = path[r] /\ tmp'[r] = tmp[r]
      BY <1>0, <1>7 DEF DiskFails, Ended, Put, Functional, files
    <2> QED
      BY <1>1, <2>1, <2>2, ReadSaving
  <1> QED
    BY <1>2, <1>3, <1>4, <1>5, <1>6, <1>7 DEF Save

\* Whatever a crash leaves in the file of a store that was not spoiled can be
\* read; the others are not spoiled any more if theirs can be.
LEMMA ReadRestart ==
  ASSUME ContentsAreWhole, ReadInv, Restart
  PROVE  ReadInv'
  <1>1. MemoryIsWhole'
    <2>1. Content(Loaded("rules")) /\ Content(Loaded("users")) /\ Content(Loaded("settings"))
      BY LoadedIsWhole DEF Stores
    <2> QED
      BY <2>1 DEF Restart, MemoryIsWhole
  <1>2. Functional'
    BY DEF Restart, ReadInv, Functional, Idle, NoStore, Nothing, Closed, Stores
  <1>3. ASSUME NEW s \in Stores \ spoiled'
        PROVE  Orderly(s)'
    <2>1. Whole(path'[s])
      BY <1>3 DEF Restart, ReadInv, Orderly, Whole
    <2>2. \A w \in Web : ~Saving(w, s)'
      BY DEF Restart, Idle, Saving
    <2> QED
      BY <2>1, <2>2 DEF Orderly
  <1> QED
    BY <1>1, <1>2, <1>3 DEF ReadInv

\* What concerns neither the files nor who saves.
LEMMA ReadKept ==
  ASSUME ReadInv, UNCHANGED <<custom, users, config, files, handler, spoiled>>
  PROVE  ReadInv'
  BY DEF ReadInv, Functional, MemoryIsWhole, Orderly, Saving, files, handler

LEMMA ReadStep ==
  ASSUME ContentsAreWhole, ReadInv, [Next]_vars
  PROVE  ReadInv'
  <1>1. ASSUME NEW w \in Web, Administer(w)
        PROVE  ReadInv'
    BY <1>1, ReadRules, ReadUsers DEF Administer
  <1>2. ASSUME NEW w \in Web, Apply(w)
        PROVE  ReadInv'
    BY <1>2, ReadRules
  <1>3. ASSUME Tick \/ UNCHANGED vars
        PROVE  ReadInv'
    BY <1>3, ReadKept DEF Tick, vars, engine
  <1> QED
    BY <1>1, <1>2, <1>3, ReadLogIn, ReadSave, ReadRestart DEF Next

\* However requests cross and whenever the gateway dies, the file of a store can
\* be read, unless the disk failed it or two saves without a lock overlapped; as
\* far as contents can be told from files that are empty or torn.
THEOREM FilesStayReadable == ASSUME ContentsAreWhole PROVE Spec => []FilesReadable
  <1>1. Init => ReadInv
    BY ReadInit
  <1>2. ReadInv /\ [Next]_vars => ReadInv'
    BY ReadStep
  <1>3. ReadInv => FilesReadable
    BY DEF ReadInv, Orderly, Whole, FilesReadable
  <1> QED
    BY <1>1, <1>2, <1>3, PTL DEF Spec

-----------------------------------------------------------------------------
(* What was answered.  Unless it is unsure what a store's file should hold,  *)
(* it holds what memory does, or the one thread that saves is about to make *)
(* it so; but for the account without a name, which no load takes.          *)

\* A thread has changed the store, or is about to, and has not come to saving it.
Pending(s) ==
  \E w \in Web : \/ at[w] = "save" /\ store[w] = s
                 \/ at[w] = "apply" /\ s = "settings"
                 \/ at[w] = "password" /\ s = "users"

Unsure(s) == s \in spoiled \cup refused \/ Pending(s) \/ (s = "rules" /\ reloaded)

Synced(s) ==
  /\ (\A w \in Web : ~Saving(w, s)) => Loaded(s) = Readable(s, Memory(s))
  /\ \A w \in Web : Saving(w, s) =>
       /\ at[w] \in {"open", "write"} => text[w] = Memory(s)
       /\ at[w] = "rename" => tmp[s] = Memory(s)

SyncInv == \A s \in Stores : ~Unsure(s) => Synced(s)

\* There is nobody without a name among no users, nor among those loaded.
LEMMA NobodyUnnamed ==
  /\ \A s \in Stores : Readable(s, Default(s)) = Default(s)
  /\ \A s \in Stores : Readable(s, Loaded(s)) = Loaded(s)
  <1>1. \A s \in Stores : Readable(s, Default(s)) = Default(s)
    <2>1. DOMAIN <<>> \ {NoName} = {}
      OBVIOUS
    <2>2. [n \in {} |-> <<>>[n]] = <<>>
      OBVIOUS
    <2> QED
      BY <2>1, <2>2 DEF Readable, Default, Stores
  <1>2. ASSUME NEW s \in Stores, NEW c
        PROVE  Readable(s, Readable(s, c)) = Readable(s, c)
    <2>1. CASE s = "users"
      <3> DEFINE r == Readable(s, c)
      <3>1. r = [n \in DOMAIN c \ {NoName} |-> c[n]]
        BY <2>1 DEF Readable
      <3>2. DOMAIN r \ {NoName} = DOMAIN r /\ r = [n \in DOMAIN r |-> r[n]]
        BY <3>1
      <3> HIDE DEF r
      <3>3. Readable(s, r) = r
        BY <2>1, <3>2 DEF Readable
      <3> QED
        BY <3>3 DEF r
    <2>2. CASE s # "users"
      BY <2>2 DEF Readable
    <2> QED
      BY <2>1, <2>2
  <1>3. \A s \in Stores : Readable(s, Loaded(s)) = Loaded(s)
    BY <1>1, <1>2 DEF Loaded
  <1> QED
    BY <1>1, <1>3

LEMMA SyncInit == ASSUME ContentsAreWhole, Init PROVE SyncInv
  <1>1. Content(CustomFile)
    BY DEF ContentsAreWhole
  <1>2. \A s \in Stores : Loaded(s) = Readable(s, Memory(s))
    <2>1. Memory("users") = Default("users") /\ Memory("settings") = Default("settings")
      BY DEF Init, Memory, Default
    <2>2. Loaded("users") = Default("users") /\ Loaded("settings") = Default("settings")
      BY DEF Init, Loaded, Stores
    <2>3. Memory("rules") = CustomFile /\ Loaded("rules") = Readable("rules", CustomFile)
      BY <1>1 DEF Init, Memory, Loaded, Stores, Content
    <2> QED
      BY <2>1, <2>2, <2>3, NobodyUnnamed DEF Stores
  <1>3. \A s \in Stores, w \in Web : ~Saving(w, s)
    BY DEF Init, Idle, Saving
  <1> QED
    BY <1>2, <1>3 DEF SyncInv, Synced

LEMMA SyncKept ==
  ASSUME NEW s, Synced(s), Memory(s)' = Memory(s),
         path'[s] = path[s], tmp'[s] = tmp[s],
         \A w \in Web : Saving(w, s)' <=> Saving(w, s),
         \A w \in Web : Saving(w, s) => at'[w] = at[w] /\ text'[w] = text[w]
  PROVE  Synced(s)'
  <1>1. Loaded(s)' = Loaded(s) /\ Readable(s, Memory(s))' = Readable(s, Memory(s))
    BY DEF Loaded, Default, Readable
  <1> QED
    BY <1>1 DEF Synced

\* What is in memory of a store that a step does not change.
LEMMA MemoryKept ==
  ASSUME NEW s \in Stores,
         s = "rules" => custom' = custom, s = "users" => users' = users,
         s = "settings" => config' = config
  PROVE  Memory(s)' = Memory(s)
  BY DEF Memory, Stores

\* A step of a handler that is not saving, and changes no store without leaving
\* it unsure.
LEMMA SyncAside ==
  ASSUME ReadInv, SyncInv, NEW w \in Web, at[w] \notin {"save", "open", "write", "rename"},
         UNCHANGED <<files, text, fd, spoiled>>, reloaded => reloaded',
         refused \subseteq refused',
         NEW to, to \notin {"open", "write", "rename"}, at' = [at EXCEPT ![w] = to],
         NEW s1 \in Stores, store' = [store EXCEPT ![w] = s1],
         at[w] = "apply" => Unsure("settings")', at[w] = "password" => Unsure("users")',
         custom' = custom \/ Unsure("rules")', users' = users \/ Unsure("users")',
         config' = config \/ Unsure("settings")'
  PROVE  SyncInv'
  <1> SUFFICES ASSUME NEW s \in Stores, ~Unsure(s)'
               PROVE  Synced(s)'
    BY DEF SyncInv
  <1>1. at'[w] = to /\ \A v \in Web \ {w} : at'[v] = at[v] /\ store'[v] = store[v]
    BY DEF ReadInv, Functional
  <1>2. Memory(s)' = Memory(s)
    BY MemoryKept
  <1>3. ~Pending(s)
    BY <1>1 DEF Unsure, Pending
  <1>4. ~Unsure(s)
    BY <1>3 DEF Unsure
  <1>5. \A v \in Web : Saving(v, s)' <=> Saving(v, s)
    BY <1>1 DEF Saving
  <1>6. \A v \in Web : Saving(v, s) => at'[v] = at[v]
    BY <1>1 DEF Saving
  <1> QED
    BY <1>2, <1>4, <1>5, <1>6, SyncKept DEF SyncInv, files

\* A handler that has changed store s goes on to save it, and is the last of
\* those that were about to change it if it was one.
LEMMA SavesNext ==
  ASSUME ReadInv, NEW w \in Web, NEW s \in Stores, SaveNext(w, s)
  PROVE  /\ at' = [at EXCEPT ![w] = "save"] /\ store' = [store EXCEPT ![w] = s]
         /\ Unsure(s)'
  <1>1. at'[w] = "save" /\ store'[w] = s
    BY DEF SaveNext, ReadInv, Functional
  <1> QED
    BY <1>1 DEF SaveNext, Unsure, Pending

LEMMA SyncRules ==
  ASSUME ReadInv, SyncInv, NEW w \in Web,
         \/ \E r \in NewRules : AddRule(w, r)
         \/ Reload(w)
         \/ \E a \in Actions : SetAction(w, a)
         \/ Apply(w)
  PROVE  SyncInv'
  <1>1. ASSUME NEW r \in NewRules, AddRule(w, r)
        PROVE  SyncInv'
    <2>1. at[w] = "idle" /\ SaveNext(w, "rules")
          /\ UNCHANGED <<files, text, fd, spoiled, refused, users, config, reloaded>>
      BY <1>1 DEF AddRule, Request
    <2> QED
      BY <2>1, SavesNext, SyncAside DEF Stores
  <1>2. CASE Reload(w)
    <2>1. at[w] = "idle" /\ reloaded'
          /\ UNCHANGED <<files, text, fd, spoiled, refused, users, config, at, store>>
      BY <1>2 DEF Reload, Request
    <2>2. Unsure("rules")'
      BY <2>1 DEF Unsure
    <2> QED
      BY <2>1, <2>2, ReadSame, SyncAside
  <1>3. ASSUME NEW a \in Actions, SetAction(w, a)
        PROVE  SyncInv'
    <2>1. at[w] = "idle" /\ at' = [at EXCEPT ![w] = "apply"]
          /\ UNCHANGED <<files, text, fd, spoiled, refused, users, custom, reloaded, store>>
      BY <1>3 DEF SetAction, Request, engine
    <2>2. Unsure("settings")'
      BY <2>1 DEF Unsure, Pending, ReadInv, Functional
    <2> QED
      BY <2>1, <2>2, ReadSame, SyncAside
  <1>4. CASE Apply(w)
    <2>1. at[w] = "apply"
          /\ UNCHANGED <<files, text, fd, spoiled, users, custom, config, reloaded>>
      BY <1>4 DEF Apply
    <2>2. CASE SaveNext(w, "settings") /\ UNCHANGED refused
      BY <2>1, <2>2, SavesNext, SyncAside DEF Stores
    <2>3. CASE Refuse(w, "settings")
      <3>1. Unsure("settings")' /\ refused \subseteq refused'
        BY <2>3 DEF Refuse, Unsure
      <3> QED
        BY <2>1, <2>3, <3>1, ReadSame, SyncAside DEF Refuse
    <2> QED
      BY <1>4, <2>2, <2>3 DEF Apply
  <1> QED
    BY <1>1, <1>2, <1>3, <1>4

LEMMA SyncUsers ==
  ASSUME ReadInv, SyncInv, NEW w \in Web, NEW n,
         \/ RemoveUser(w, n)
         \/ \E p \in Passwords : SetPassword(w, n, p)
         \/ \E p \in Passwords, days \in Lifetimes : AddUser(w, n, p, days)
         \/ \E active \in BOOLEAN : SetStatus(w, n, active)
  PROVE  SyncInv'
  <1>1. UNCHANGED <<custom, config, files, text, fd, spoiled, reloaded>>
    BY DEF RemoveUser, SetPassword, AddUser, SetStatus, UserRequest, Request, engine
  <1>2. /\ at[w] \in {"idle", "password"}
        /\ \/ SaveNext(w, "users") /\ UNCHANGED refused
           \/ at' = [at EXCEPT ![w] = "password"] /\ UNCHANGED <<store, refused>>
           \/ Refuse(w, "users")
    BY DEF RemoveUser, SetPassword, AddUser, SetStatus, UserRequest, Request
  <1>3. CASE SaveNext(w, "users") /\ UNCHANGED refused
    BY <1>1, <1>2, <1>3, SavesNext, SyncAside DEF Stores
  <1>4. CASE at' = [at EXCEPT ![w] = "password"] /\ UNCHANGED <<store, refused>>
    <2>1. Unsure("users")'
      BY <1>4 DEF Unsure, Pending, ReadInv, Functional
    <2> QED
      BY <1>1, <1>2, <1>4, <2>1, ReadSame, SyncAside
  <1>5. CASE Refuse(w, "users")
    <2>1. Unsure("users")' /\ refused \subseteq refused'
      BY <1>5 DEF Refuse, Unsure
    <2> QED
      BY <1>1, <1>2, <1>5, <2>1, ReadSame, SyncAside DEF Refuse
  <1> QED
    BY <1>2, <1>3, <1>4, <1>5

LEMMA SyncLogIn ==
  ASSUME ReadInv, SyncInv, NEW w \in Web, LogIn(w)
  PROVE  SyncInv'
  <1>1. UNCHANGED <<custom, users, config, files, text, fd, spoiled, refused, store,
                   reloaded>>
    BY DEF LogIn, LoginLocked, LoginRefused, LoginAccepted, LoginInfo, Login, LoginKeeps, engine
  <1>2. at[w] \in {"idle", "info"}
    BY DEF LogIn, LoginLocked, LoginRefused, LoginAccepted, LoginInfo, Login
  <1>3. at' = at \/ \E to \in {"info", "idle"} : at' = [at EXCEPT ![w] = to]
    BY DEF LogIn, LoginLocked, LoginRefused, LoginAccepted, LoginInfo
  <1> QED
    BY <1>1, <1>2, <1>3, ReadSame, SyncAside

\* A step of a save, which concerns the store that is saved.
LEMMA SyncSaving ==
  ASSUME ReadInv, SyncInv, NEW w \in Web, UNCHANGED <<store, custom, users, config, reloaded>>,
         spoiled \subseteq spoiled', refused \ {store[w]} \subseteq refused',
         at[w] \in {"save", "open", "write", "rename"},
         \A v \in Web \ {w} : at'[v] = at[v] /\ text'[v] = text[v],
         \A s \in Stores \ {store[w]} : path'[s] = path[s] /\ tmp'[s] = tmp[s],
         ~Unsure(store[w])' => Synced(store[w])'
  PROVE  SyncInv'
  <1> SUFFICES ASSUME NEW s \in Stores, ~Unsure(s)', s # store[w]
               PROVE  Synced(s)'
    BY DEF SyncInv
  <1>1. Memory(s)' = Memory(s)
    BY MemoryKept
  <1>2. ~Unsure(s)
    <2>1. ~Pending(s)
      BY DEF Unsure, Pending
    <2> QED
      BY <2>1 DEF Unsure
  <1>3. \A v \in Web : Saving(v, s)' <=> Saving(v, s)
    BY DEF Saving
  <1>4. \A v \in Web : Saving(v, s) => v # w
    BY DEF Saving
  <1> QED
    BY <1>1, <1>2, <1>3, <1>4, SyncKept DEF SyncInv

\* Nobody but w comes near the store it is saving.
LEMMA SyncedAlone ==
  ASSUME ReadInv, NEW w \in Web, NEW s, s = store[w], NEW to, at' = [at EXCEPT ![w] = to],
         UNCHANGED store, \A v \in Web \ {w} : ~Saving(v, s),
         to \in {"open", "write"} => text'[w] = Memory(s)',
         to = "rename" => tmp'[s] = Memory(s)',
         to \notin {"open", "write", "rename"} => Loaded(s)' = Readable(s, Memory(s))'
  PROVE  Synced(s)'
  <1>1. at'[w] = to /\ \A v \in Web \ {w} : ~Saving(v, s)'
    BY DEF Saving, ReadInv, Functional
  <1>2. Saving(w, s)' <=> to \in {"open", "write", "rename"}
    BY <1>1 DEF Saving
  <1> QED
    BY <1>1, <1>2 DEF Synced

LEMMA SyncSave ==
  ASSUME ReadInv, SyncInv, NEW w \in Web, Save(w)
  PROVE  SyncInv'
  <1> DEFINE s == store[w]
  <1>0. s \in Stores /\ Functional /\ (s \notin spoiled => Orderly(s)) /\ Content(Memory(s))
    BY MemoryRead DEF ReadInv, Functional
  <1>1. /\ UNCHANGED <<store, custom, users, config, reloaded>> /\ spoiled \subseteq spoiled'
        /\ refused \ {s} \subseteq refused'
        /\ Memory(s)' = Memory(s)
    <2>1. UNCHANGED <<store, custom, users, config, reloaded>> /\ spoiled \subseteq spoiled'
          /\ refused \ {s} \subseteq refused'
      BY DEF Save, Snapshot, OpenTmp, Write, Rename, NothingToRename, DiskFails, SaveKeeps,
             Ended, engine
    <2> QED
      BY <2>1 DEF Memory
  <1>2. CASE Snapshot(w)
    <2>1. /\ at[w] = "save" /\ at' = [at EXCEPT ![w] = "open"] /\ text'[w] = Memory(s)
          /\ \A v \in Web \ {w} : at'[v] = at[v] /\ text'[v] = text[v]
          /\ UNCHANGED <<path, tmp>>
      BY <1>0, <1>2 DEF Snapshot, Functional, files
    <2>2. ASSUME s \notin spoiled'
          PROVE  \A v \in Web \ {w} : ~Saving(v, s)
      BY <1>2, <2>2 DEF Snapshot, UsersFree
    <2>3. ~Unsure(s)' => Synced(s)'
      BY <1>1, <2>1, <2>2, SyncedAlone DEF Unsure
    <2> QED
      BY <1>1, <2>1, <2>3, SyncSaving
  <1>3. ASSUME at[w] \in {"open", "write", "rename"}, ~Unsure(s)', UNCHANGED refused,
               \A v \in Web \ {w} : at'[v] = at[v]
        PROVE  /\ Saving(w, s) /\ Orderly(s) /\ Synced(s)
               /\ \A v \in Web \ {w} : ~Saving(v, s)
    <2>1. ~Pending(s) /\ s \notin spoiled
      BY <1>1, <1>3 DEF Unsure, Pending
    <2>2. ~Unsure(s)
      BY <1>1, <1>3, <2>1 DEF Unsure
    <2> QED
      BY <1>0, <1>3, <2>1, <2>2 DEF SyncInv, Saving, Orderly
  <1>4. CASE OpenTmp(w)
    <2>1. /\ at[w] = "open" /\ at' = [at EXCEPT ![w] = "write"]
          /\ \A v \in Web \ {w} : at'[v] = at[v]
          /\ \A r \in Stores \ {s} : tmp'[r] = tmp[r]
          /\ UNCHANGED <<path, text, refused>>
      BY <1>0, <1>4 DEF OpenTmp, Functional
    <2>2. ASSUME ~Unsure(s)' PROVE Synced(s)'
      <3>1. text'[w] = Memory(s)'
        BY <1>1, <1>3, <2>1, <2>2 DEF Synced
      <3> QED
        BY <1>1, <1>3, <2>1, <2>2, <3>1, SyncedAlone
    <2> QED
      BY <1>1, <2>1, <2>2, SyncSaving
  <1>5. CASE Write(w)
    <2>1. /\ at[w] = "write" /\ at' = [at EXCEPT ![w] = "rename"]
          /\ \A v \in Web \ {w} : at'[v] = at[v]
          /\ UNCHANGED <<text, refused>>
          /\ \A r \in Stores \ {s} : path'[r] = path[r] /\ tmp'[r] = tmp[r]
      BY <1>0, <1>5 DEF Write, Put, Functional
    <2>2. ASSUME ~Unsure(s)' PROVE Synced(s)'
      <3>1. text[w] = Memory(s) /\ fd[w] = "tmp" /\ tmp[s] = Empty
        BY <1>3, <2>1, <2>2 DEF Synced, Orderly
      <3>2. tmp'[s] = Memory(s)'
        BY <1>0, <1>1, <1>5, <3>1 DEF Write, Put, Functional
      <3> QED
        BY <1>1, <1>3, <2>1, <2>2, <3>2, SyncedAlone
    <2> QED
      BY <1>1, <2>1, <2>2, SyncSaving
  <1>6. CASE Rename(w)
    <2>1. /\ at[w] = "rename" /\ at' = [at EXCEPT ![w] = "idle"]
          /\ \A v \in Web \ {w} : at'[v] = at[v] /\ text'[v] = text[v]
          /\ path'[s] = tmp[s] /\ UNCHANGED refused
          /\ \A r \in Stores \ {s} : path'[r] = path[r] /\ tmp'[r] = tmp[r]
      BY <1>0, <1>6 DEF Rename, Ended, Functional
    <2>2. ASSUME ~Unsure(s)' PROVE Synced(s)'
      <3>1. path'[s] = Memory(s)
        BY <1>3, <2>1, <2>2 DEF Synced
      <3>2. Loaded(s)' = Readable(s, Memory(s))'
        BY <1>0, <1>1, <3>1 DEF Loaded, Content, Readable
      <3> QED
        BY <1>1, <1>3, <2>1, <2>2, <3>2, SyncedAlone
    <2> QED
      BY <1>1, <2>1, <2>2, SyncSaving
  <1>7. CASE NothingToRename(w)
    <2>1. /\ at[w] = "rename" /\ tmp[s] = NoFile
          /\ \A v \in Web \ {w} : at'[v] = at[v] /\ text'[v] = text[v]
          /\ UNCHANGED <<path, tmp, refused>>
      BY <1>0, <1>7 DEF NothingToRename, Ended, Functional, files
    <2>2. ASSUME ~Unsure(s)' PROVE FALSE
      <3>1. tmp[s] = Memory(s)
        BY <1>3, <2>1, <2>2 DEF Synced
      <3> QED
        BY <1>0, <2>1, <3>1 DEF Content
    <2> QED
      BY <1>1, <2>1, <2>2, SyncSaving
  <1>8. CASE DiskFails(w)
    <2>1. Unsure(s)'
      BY <1>1, <1>8 DEF DiskFails, Unsure
    <2>2. /\ at[w] \in {"open", "write", "rename"}
          /\ \A v \in Web \ {w} : at'[v] = at[v] /\ text'[v] = text[v]
          /\ \A r \in Stores \ {s} : path'[r] = path[r] /\ tmp'[r] = tmp[r]
      BY <1>0, <1>8 DEF DiskFails, Ended, Put, Functional, files
    <2> QED
      BY <1>1, <2>1, <2>2, SyncSaving
  <1> QED
    BY <1>2, <1>4, <1>5, <1>6, <1>7, <1>8 DEF Save

LEMMA SyncRestart == ASSUME Restart PROVE SyncInv'
  <1>1. \A s \in Stores : Loaded(s)' = Loaded(s)
    BY DEF Restart, Loaded, Default, Readable
  <1>2. \A s \in Stores : Readable(s, Memory(s))' = Loaded(s)
    <2>1. \A s \in Stores : Memory(s)' = Loaded(s)
      BY DEF Restart, Memory, Stores
    <2>2. \A s \in Stores : Readable(s, Memory(s))' = Readable(s, Loaded(s))
      BY <2>1 DEF Readable
    <2> QED
      BY <2>2, NobodyUnnamed
  <1>3. \A s \in Stores, w \in Web : ~Saving(w, s)'
    BY DEF Restart, Idle, Saving
  <1> QED
    BY <1>1, <1>2, <1>3 DEF SyncInv, Synced

LEMMA SyncStep ==
  ASSUME ReadInv, SyncInv, [Next]_vars
  PROVE  SyncInv'
  <1>1. ASSUME NEW w \in Web, Administer(w)
        PROVE  SyncInv'
    BY <1>1, SyncRules, SyncUsers DEF Administer
  <1>2. ASSUME NEW w \in Web, Apply(w)
        PROVE  SyncInv'
    BY <1>2, SyncRules
  <1>3. ASSUME Tick \/ UNCHANGED vars
        PROVE  SyncInv'
    <2>1. UNCHANGED <<custom, users, config, files, handler, spoiled, refused, reloaded>>
      BY <1>3 DEF Tick, vars, engine
    <2> SUFFICES ASSUME NEW s \in Stores, ~Unsure(s)'
                 PROVE  Synced(s)'
      BY DEF SyncInv
    <2>2. ~Unsure(s) /\ \A w \in Web : Saving(w, s)' <=> Saving(w, s)
      BY <2>1 DEF Unsure, Pending, Saving, handler
    <2>3. Memory(s)' = Memory(s)
      BY <2>1, MemoryKept
    <2> QED
      BY <2>1, <2>2, <2>3, SyncKept DEF SyncInv, files, handler
  <1> QED
    BY <1>1, <1>2, <1>3, SyncLogIn, SyncSave, SyncRestart DEF Next

\* What the administrator was told is done is in the files, whichever threads
\* cross and however they come and go: for accounts that have a name always, and
\* for rules and settings unless two of their saves overlapped.  Excepted are a
\* failing disk, a reload of the rules, and what a request changed that was then
\* answered 400, until the store is next saved.
THEOREM AnswersAreSaved == ASSUME ContentsAreWhole PROVE Spec => []AnsweredIsSaved
  <1>1. Init => ReadInv /\ SyncInv
    BY ReadInit, SyncInit
  <1>2. ReadInv /\ SyncInv /\ [Next]_vars => (ReadInv /\ SyncInv)'
    BY ReadStep, SyncStep
  <1>3. SyncInv => AnsweredIsSaved
    <2> SUFFICES ASSUME SyncInv, NEW s \in Stores \ (spoiled \cup refused), Quiet(s),
                        \A w \in Web : at[w] \notin {"apply", "password"},
                        ~(s = "rules" /\ reloaded)
                 PROVE  Loaded(s) = Readable(s, Memory(s))
      BY DEF AnsweredIsSaved
    <2>1. ~Unsure(s)
      BY DEF Unsure, Pending, Quiet
    <2>2. \A w \in Web : ~Saving(w, s)
      BY DEF Saving, Quiet
    <2> QED
      BY <2>1, <2>2 DEF SyncInv, Synced
  <1> QED
    BY <1>1, <1>2, <1>3, PTL DEF Spec

-----------------------------------------------------------------------------
(* Routing.  decide looks at the list of custom rules, then at an index that *)
(* was built from the built-in rules and the custom ones of some time ago.   *)

\* By falling priority, as add_custom_rule leaves them.
Sorted(rules) ==
  \A i, j \in DOMAIN rules : i < j => rules[i].priority >= rules[j].priority

\* The rules there were are still there.
Among(older, newer) == \A i \in DOMAIN older : \E j \in DOMAIN newer : newer[j] = older[i]

\* The index is that of the built-in rules and these custom ones.
IndexOf(rules) ==
  /\ exact = exact_of(builtin \o rules)
  /\ suffixes = Enabled(builtin, "domain_suffix") \o Enabled(rules, "domain_suffix")

\* The index may have been built before custom rules were added; those it was
\* built from are all still in the list, which is looked at first.
IndexInv ==
  /\ builtin \in Seq(KnownRules) /\ custom \in Seq(KnownRules) /\ Sorted(custom)
  /\ \E older \in Seq(KnownRules) : Among(older, custom) /\ IndexOf(older)

\* The enabled rules for exactly the name h.
NamedFor(rules, h) ==
  {k \in 1..Len(rules) : /\ rules[k].enabled /\ rules[k].type = "domain_exact"
                         /\ rules[k].pattern = h}

\* The enabled rules of a type, and only they.
LEMMA EnabledRules ==
  ASSUME NEW rules \in Seq(KnownRules), NEW type
  PROVE  /\ Enabled(rules, type) \in Seq(KnownRules)
         /\ \A i \in 1..Len(Enabled(rules, type)) :
              \E k \in 1..Len(rules) : /\ rules[k].enabled /\ rules[k].type = type
                                       /\ Enabled(rules, type)[i] = rules[k]
         /\ \A k \in 1..Len(rules) : rules[k].enabled /\ rules[k].type = type =>
              \E i \in 1..Len(Enabled(rules, type)) : Enabled(rules, type)[i] = rules[k]
  <1> DEFINE S == {i \in DOMAIN rules : rules[i].enabled /\ rules[i].type = type}
  <1>1. Enabled(rules, type) = Subsequence(rules, S)
    BY DEF Enabled
  <1>2. /\ Subsequence(rules, S) \in Seq(KnownRules)
        /\ SameElements(Subsequence(rules, S), rules, S)
    <2> HIDE DEF S
    <2> QED BY SubsequenceElements
  <1>3. \A k \in 1..Len(rules) : k \in S <=> rules[k].enabled /\ rules[k].type = type
    OBVIOUS
  <1> HIDE DEF S
  <1> QED
    BY <1>1, <1>2, <1>3 DEF SameElements

\* Of the rules for a name the index holds the last.
LEMMA ExactOf ==
  ASSUME NEW rules \in Seq(KnownRules), NEW h
  PROVE  /\ h \in DOMAIN exact_of(rules) <=> NamedFor(rules, h) # {}
         /\ h \in DOMAIN exact_of(rules) =>
              \E k \in NamedFor(rules, h) :
                /\ \A j \in NamedFor(rules, h) : j <= k
                /\ exact_of(rules)[h] = rules[k].action
  <1> DEFINE S == {i \in DOMAIN rules : rules[i].enabled /\ rules[i].type = "domain_exact"}
  <1> DEFINE s == Subsequence(rules, S)
  <1>1. s \in Seq(KnownRules) /\ \E place : Enumerates(place, rules, S, Len(rules), s)
    <2> HIDE DEF S
    <2> QED BY SubsequencePlaces
  <1>2. s = Enabled(rules, "domain_exact")
    BY DEF Enabled
  <1> HIDE DEF s
  <1>3. PICK place : Enumerates(place, rules, S, Len(rules), s)
    BY <1>1
  <1> DEFINE D == {i \in 1..Len(s) : s[i].pattern = h}
  <1>4. \A i \in D : place[i] \in NamedFor(rules, h) /\ s[i] = rules[place[i]]
    <2> TAKE i \in D
    <2>1. i \in 1..Len(s) /\ s[i].pattern = h
      OBVIOUS
    <2>2. place[i] \in 1..Len(rules) /\ place[i] \in S /\ s[i] = rules[place[i]]
      <3> HIDE DEF S
      <3> QED BY <2>1, <1>3 DEF Enumerates
    <2> QED
      BY <2>1, <2>2 DEF NamedFor
  <1>5. \A k \in NamedFor(rules, h) : \E i \in D : place[i] = k
    <2> TAKE k \in NamedFor(rules, h)
    <2>1. k \in 1..Len(rules) /\ k \in S /\ rules[k].pattern = h
      BY DEF NamedFor
    <2>2. PICK i \in 1..Len(s) : place[i] = k
      <3> HIDE DEF S
      <3> QED BY <2>1, <1>3 DEF Enumerates
    <2>3. s[i] = rules[k]
      <3> HIDE DEF S
      <3> QED BY <2>2, <1>3 DEF Enumerates
    <2> QED
      BY <2>1, <2>2, <2>3
  <1>6. \A i, j \in D : j <= i => place[j] <= place[i]
    <2> TAKE i, j \in D
    <2>1. i \in 1..Len(s) /\ j \in 1..Len(s)
      OBVIOUS
    <2>2. place[i] \in 1..Len(rules) /\ place[j] \in 1..Len(rules)
          /\ (j < i => place[j] < place[i])
      <3> HIDE DEF S
      <3> QED BY <2>1, <1>3 DEF Enumerates
    <2> QED
      BY <2>1, <2>2
  <1>7. DOMAIN exact_of(rules) = {s[i].pattern : i \in DOMAIN s}
    BY <1>2 DEF exact_of
  <1>8. h \in DOMAIN exact_of(rules) <=> D # {}
    BY <1>1, <1>7
  <1>9. D # {} <=> NamedFor(rules, h) # {}
    <2> HIDE DEF D
    <2> QED BY <1>4, <1>5
  <1>10. ASSUME D # {}
         PROVE  \E k \in NamedFor(rules, h) :
                  /\ \A j \in NamedFor(rules, h) : j <= k
                  /\ exact_of(rules)[h] = rules[k].action
    <2> DEFINE Last(i) == i \in DOMAIN s /\ s[i].pattern = h
                          /\ \A j \in DOMAIN s : s[j].pattern = h => j <= i
    <2> DEFINE last == CHOOSE i \in DOMAIN s : /\ s[i].pattern = h
                                   /\ \A j \in DOMAIN s : s[j].pattern = h => j <= i
    <2>1. \E m \in D : \A j \in D : j <= m
      <3>1. Len(s) \in Nat /\ D \in SUBSET (1..Len(s))
        BY <1>1
      <3> HIDE DEF D
      <3> QED BY <3>1, <1>10, Greatest
    <2>2. last \in D /\ \A j \in D : j <= last
      <3>1. \E i \in DOMAIN s : s[i].pattern = h /\ \A j \in DOMAIN s : s[j].pattern = h => j <= i
        BY <2>1, <1>1
      <3>2. last \in DOMAIN s /\ s[last].pattern = h /\ \A j \in DOMAIN s : s[j].pattern = h => j <= last
        BY <3>1
      <3> HIDE DEF last
      <3> QED BY <3>2, <1>1
    <2>3. exact_of(rules)[h] = s[last].action
      <3>1. h \in {s[i].pattern : i \in DOMAIN s}
        BY <1>7, <1>8, <1>10
      <3> QED
        BY <3>1, <1>2 DEF exact_of
    <2> HIDE DEF last, D
    <2>4. place[last] \in NamedFor(rules, h) /\ exact_of(rules)[h] = rules[place[last]].action
      BY <2>2, <2>3, <1>4
    <2>5. \A j \in NamedFor(rules, h) : j <= place[last]
      BY <2>2, <1>5, <1>6
    <2> QED
      BY <2>4, <2>5
  <1> HIDE DEF D
  <1> QED
    BY <1>8, <1>9, <1>10

\* What a rule in use says.
LEMMA KnownRule ==
  ASSUME NEW r \in KnownRules
  PROVE  /\ r.type \in STRING /\ r.action \in Actions /\ r.priority \in Int
         /\ r.enabled \in BOOLEAN /\ r.named \in BOOLEAN
  BY AdminAssumption

\* The first custom rule that matches is one of the highest priority.
LEMMA CustomDecides ==
  ASSUME IndexInv, NEW h \in Hosts, match_custom_rules(h) # <<>>
  PROVE  \E k \in Foremost(h) : /\ match_custom_rules(h)[1] = custom[k]
                                 /\ FirstAction(match_custom_rules(h)) = custom[k].action
  <1> DEFINE S == {i \in DOMAIN custom : custom[i].enabled /\ Matches(custom[i], h)}
  <1>1. custom \in Seq(KnownRules) /\ Sorted(custom)
    BY DEF IndexInv
  <1>2. match_custom_rules(h) = Subsequence(custom, S)
    BY DEF match_custom_rules
  <1>3. PICK k \in 1..Len(custom) : /\ k \in S /\ Subsequence(custom, S)[1] = custom[k]
                                   /\ \A j \in 1..Len(custom) : j \in S => k <= j
    <2>1. Subsequence(custom, S) # <<>>
      BY <1>2
    <2> HIDE DEF S
    <2> QED BY <1>1, <2>1, SubsequenceFirst
  <1>4. S = Applying(custom, h)
    BY DEF Applying
  <1>5. \A j \in S : custom[j].priority <= custom[k].priority
    <2> TAKE j \in S
    <2>1. j \in 1..Len(custom) /\ k <= j
      BY <1>1, <1>3
    <2>2. custom[j] \in KnownRules /\ custom[k] \in KnownRules
      BY <1>1, <2>1
    <2>3. custom[j].priority \in Int /\ custom[k].priority \in Int
      BY <2>2, KnownRule
    <2>4. k < j => custom[k].priority >= custom[j].priority
      BY <1>1, <2>1 DEF Sorted
    <2> QED
      BY <2>1, <2>3, <2>4
  <1>6. FirstAction(match_custom_rules(h)) = custom[k].action
    BY <1>2, <1>3 DEF FirstAction
  <1>7. match_custom_rules(h)[1] = custom[k]
    BY <1>2, <1>3
  <1> HIDE DEF S
  <1>8. k \in Foremost(h)
    BY <1>3, <1>4, <1>5 DEF Foremost
  <1> QED
    BY <1>6, <1>7, <1>8

\* When no custom rule matches, none of those the index was built from does.
LEMMA NoCustom ==
  ASSUME IndexInv, NEW h \in Hosts, match_custom_rules(h) = <<>>,
         NEW older \in Seq(KnownRules), Among(older, custom)
  PROVE  /\ Foremost(h) = {}
         /\ \A i \in 1..Len(older) : ~(older[i].enabled /\ Matches(older[i], h))
  <1> DEFINE S == {i \in DOMAIN custom : custom[i].enabled /\ Matches(custom[i], h)}
  <1>1. custom \in Seq(KnownRules)
    BY DEF IndexInv
  <1>2. \A k \in 1..Len(custom) : k \notin S
    <2>1. Subsequence(custom, S) = <<>>
      BY DEF match_custom_rules
    <2> HIDE DEF S
    <2> QED BY <1>1, <2>1, SubsequenceFirst
  <1>3. \A k \in DOMAIN custom : ~(custom[k].enabled /\ Matches(custom[k], h))
    BY <1>1, <1>2
  <1>4. \A i \in 1..Len(older) : \E j \in DOMAIN custom : custom[j] = older[i]
    BY DEF Among
  <1> QED
    BY <1>3, <1>4 DEF Applying, Foremost

\* What a host that no custom rule is about finds in the index is as the
\* built-in rules say, whatever older rules are still in there.
LEMMA ExactDecides ==
  ASSUME IndexInv, NEW h \in Hosts, match_custom_rules(h) = <<>>
  PROVE  LET names == {i \in Applying(builtin, h) : builtin[i].type = "domain_exact"}
         IN /\ h \in DOMAIN exact <=> names # {}
            /\ h \in DOMAIN exact => exact[h] \in Shown(h)
  <1> DEFINE names == {i \in Applying(builtin, h) : builtin[i].type = "domain_exact"}
  <1>1. PICK older \in Seq(KnownRules) : Among(older, custom) /\ IndexOf(older)
    BY DEF IndexInv
  <1> DEFINE all == builtin \o older
  <1>2. /\ builtin \in Seq(KnownRules) /\ all \in Seq(KnownRules)
        /\ Len(all) = Len(builtin) + Len(older) /\ Len(builtin) \in Nat /\ Len(older) \in Nat
        /\ \A k \in 1..Len(builtin) : all[k] = builtin[k]
        /\ \A k \in 1..Len(all) : k > Len(builtin) =>
             k - Len(builtin) \in 1..Len(older) /\ all[k] = older[k - Len(builtin)]
    BY <1>1 DEF IndexInv
  <1>3. exact = exact_of(all)
    BY <1>1 DEF IndexOf
  <1> HIDE DEF all
  <1>4. /\ Foremost(h) = {}
        /\ \A i \in 1..Len(older) : ~(older[i].enabled /\ Matches(older[i], h))
    BY <1>1, NoCustom
  <1>5. NamedFor(all, h) = names
    <2>1. ASSUME NEW k \in NamedFor(all, h) PROVE k \in names
      <3>1. /\ k \in 1..Len(all) /\ all[k].enabled /\ all[k].type = "domain_exact"
            /\ all[k].pattern = h
        BY DEF NamedFor
      <3>2. Matches(all[k], h)
        BY <3>1 DEF Matches
      <3>3. ~(k > Len(builtin))
        BY <1>2, <1>4, <3>1, <3>2
      <3>4. k \in DOMAIN builtin /\ all[k] = builtin[k]
        BY <1>2, <3>1, <3>3
      <3> QED
        BY <3>1, <3>2, <3>4 DEF Applying
    <2>2. ASSUME NEW k \in names PROVE k \in NamedFor(all, h)
      <3>1. /\ k \in DOMAIN builtin /\ builtin[k].enabled /\ Matches(builtin[k], h)
            /\ builtin[k].type = "domain_exact"
        BY DEF Applying
      <3>2. k \in 1..Len(all) /\ all[k] = builtin[k]
        BY <1>2, <3>1
      <3> QED
        BY <3>1, <3>2 DEF Matches, NamedFor
    <2> HIDE DEF names
    <2> QED BY <2>1, <2>2
  <1>6. /\ h \in DOMAIN exact <=> names # {}
        /\ h \in DOMAIN exact =>
              \E k \in names : (\A j \in names : j <= k) /\ exact[h] = all[k].action
    <2> HIDE DEF names
    <2> QED BY <1>2, <1>3, <1>5, ExactOf
  <1>7. ASSUME h \in DOMAIN exact PROVE exact[h] \in Shown(h)
    <2>1. PICK k \in names : (\A j \in names : j <= k) /\ exact[h] = all[k].action
      BY <1>6, <1>7
    <2>2. k \in DOMAIN builtin
      BY DEF Applying
    <2>3. all[k] = builtin[k]
      <3>1. k \in 1..Len(builtin)
        BY <1>2, <2>2
      <3> QED BY <1>2, <3>1
    <2>4. exact[h] \in {builtin[i].action : i \in {i \in names : \A j \in names : j <= i}}
      <3> HIDE DEF names
      <3> QED BY <2>1, <2>3
    <2>5. names # {}
      <3> HIDE DEF names
      <3> QED BY <2>1
    <2> QED
      BY <1>4, <2>4, <2>5 DEF Shown
  <1> HIDE DEF names
  <1> QED
    BY <1>6, <1>7 DEF names

\* The same of the endings, and of the default action.
LEMMA SuffixDecides ==
  ASSUME IndexInv, NEW h \in Hosts, match_custom_rules(h) = <<>>, h \notin DOMAIN exact
  PROVE  IF match_suffixes(h) # <<>> THEN FirstAction(match_suffixes(h)) \in Shown(h)
         ELSE fallback \in Shown(h)
  <1> DEFINE names == {i \in Applying(builtin, h) : builtin[i].type = "domain_exact"}
  <1> DEFINE ends == Applying(builtin, h) \ names
  <1> DEFINE S == {i \in DOMAIN builtin : builtin[i].enabled /\ builtin[i].type = "domain_suffix"}
  <1> DEFINE M == {i \in DOMAIN suffixes : suffixes[i].pattern \in endings[h]}
  <1> DEFINE b == Subsequence(builtin, S)
  <1>1. PICK older \in Seq(KnownRules) : Among(older, custom) /\ IndexOf(older)
    BY DEF IndexInv
  <1> DEFINE c == Enabled(older, "domain_suffix")
  <1>2. /\ Foremost(h) = {}
        /\ \A i \in 1..Len(older) : ~(older[i].enabled /\ Matches(older[i], h))
    BY <1>1, NoCustom
  <1>3. names = {}
    BY ExactDecides
  <1>4. b \in Seq(KnownRules) /\ \E place : Enumerates(place, builtin, S, Len(builtin), b)
    <2>1. builtin \in Seq(KnownRules)
      BY DEF IndexInv
    <2> HIDE DEF S
    <2> QED BY <2>1, SubsequencePlaces
  <1>5. /\ c \in Seq(KnownRules)
        /\ \A i \in 1..Len(c) :
             \E k \in 1..Len(older) : /\ older[k].enabled /\ older[k].type = "domain_suffix"
                                     /\ c[i] = older[k]
    BY <1>1, EnabledRules
  <1>6. suffixes = b \o c
    BY <1>1 DEF IndexOf, Enabled
  <1> HIDE DEF b, c
  <1>7. /\ suffixes \in Seq(KnownRules) /\ Len(b) \in Nat
        /\ Len(suffixes) = Len(b) + Len(c)
        /\ \A k \in 1..Len(b) : k \in DOMAIN suffixes /\ suffixes[k] = b[k]
        /\ \A k \in 1..Len(suffixes) : k > Len(b) =>
             k - Len(b) \in 1..Len(c) /\ suffixes[k] = c[k - Len(b)]
    BY <1>4, <1>5, <1>6
  <1>8. PICK place : Enumerates(place, builtin, S, Len(builtin), b)
    BY <1>4
  <1>9. ASSUME NEW k \in M
        PROVE  k \in 1..Len(b) /\ place[k] \in ends /\ suffixes[k] = builtin[place[k]]
    <2>1. k \in 1..Len(suffixes) /\ suffixes[k].pattern \in endings[h]
      BY <1>7
    <2>2. ~(k > Len(b))
      <3>1. SUFFICES ASSUME k > Len(b) PROVE FALSE
        OBVIOUS
      <3>2. PICK j \in 1..Len(older) : /\ older[j].enabled /\ older[j].type = "domain_suffix"
                                      /\ suffixes[k] = older[j]
        BY <2>1, <3>1, <1>5, <1>7
      <3>3. Matches(older[j], h)
        BY <2>1, <3>2 DEF Matches
      <3> QED
        BY <1>2, <3>2, <3>3
    <2>3. k \in 1..Len(b)
      BY <2>1, <2>2, <1>7
    <2>4. suffixes[k] = b[k]
      BY <2>3, <1>7
    <2>5. place[k] \in 1..Len(builtin) /\ place[k] \in S /\ b[k] = builtin[place[k]]
      <3> HIDE DEF S
      <3> QED BY <2>3, <1>8 DEF Enumerates
    <2>6. Matches(builtin[place[k]], h)
      BY <2>1, <2>4, <2>5 DEF Matches
    <2> QED
      BY <2>3, <2>4, <2>5, <2>6 DEF Applying
  <1>10. ASSUME NEW j \in ends
         PROVE  \E i \in M : i \in 1..Len(b) /\ place[i] = j
    <2>1. /\ j \in DOMAIN builtin /\ builtin[j].enabled /\ Matches(builtin[j], h)
          /\ builtin[j].type # "domain_exact"
      BY DEF Applying
    <2>2. builtin[j].type = "domain_suffix" /\ builtin[j].pattern \in endings[h]
      BY <2>1 DEF Matches
    <2>3. j \in S /\ j \in 1..Len(builtin)
      BY <2>1, <2>2 DEF IndexInv
    <2>4. PICK i \in 1..Len(b) : place[i] = j
      <3> HIDE DEF S
      <3> QED BY <2>3, <1>8 DEF Enumerates
    <2>5. b[i] = builtin[j]
      <3> HIDE DEF S
      <3> QED BY <2>4, <1>8 DEF Enumerates
    <2> QED
      BY <2>2, <2>4, <2>5, <1>7
  <1>11. match_suffixes(h) = Subsequence(suffixes, M)
    BY DEF match_suffixes
  <1>12. CASE match_suffixes(h) # <<>>
    <2>1. PICK k \in 1..Len(suffixes) : /\ k \in M /\ Subsequence(suffixes, M)[1] = suffixes[k]
                                       /\ \A j \in 1..Len(suffixes) : j \in M => k <= j
      <3>1. Subsequence(suffixes, M) # <<>>
        BY <1>11, <1>12
      <3> HIDE DEF M
      <3> QED BY <1>7, <3>1, SubsequenceFirst
    <2>2. k \in 1..Len(b) /\ place[k] \in ends /\ suffixes[k] = builtin[place[k]]
      BY <2>1, <1>9
    <2>3. \A j \in ends : place[k] <= j
      <3> TAKE j \in ends
      <3>1. PICK i \in M : i \in 1..Len(b) /\ place[i] = j
        BY <1>10
      <3>2. k <= i
        BY <2>1, <3>1, <1>7
      <3>3. place[k] \in 1..Len(builtin) /\ place[i] \in 1..Len(builtin)
            /\ (k < i => place[k] < place[i])
        <4> HIDE DEF S
        <4> QED BY <2>2, <3>1, <1>8 DEF Enumerates
      <3> QED
        BY <2>2, <3>1, <3>2, <3>3
    <2>4. FirstAction(match_suffixes(h)) = builtin[place[k]].action
      BY <1>11, <2>1, <2>2 DEF FirstAction
    <2>5. FirstAction(match_suffixes(h))
            \in {builtin[i].action : i \in {i \in ends : \A j \in ends : i <= j}}
      <3> HIDE DEF ends
      <3> QED BY <2>2, <2>3, <2>4
    <2>6. ends # {}
      BY <2>2
    <2> QED
      BY <1>2, <1>3, <1>12, <2>5, <2>6 DEF Shown
  <1>13. CASE match_suffixes(h) = <<>>
    <2>1. \A k \in 1..Len(suffixes) : k \notin M
      <3>1. Subsequence(suffixes, M) = <<>>
        BY <1>11, <1>13
      <3> HIDE DEF M
      <3> QED BY <1>7, <3>1, SubsequenceFirst
    <2>2. M = {}
      BY <2>1, <1>7
    <2>3. ends = {}
      <3> HIDE DEF ends, M
      <3> QED BY <2>2, <1>10
    <2> QED
      BY <1>2, <1>3, <1>13, <2>3 DEF Shown
  <1> QED
    BY <1>12, <1>13

\* So whatever host is asked for is routed as the rules shown say, when those
\* that should decide have ids.
LEMMA IndexDecides ==
  ASSUME IndexInv
  PROVE  DecidesAsShown
  <1> SUFFICES ASSUME NEW h \in Hosts, \A i \in Foremost(h) : custom[i].named
               PROVE  decide(h) \in Shown(h)
    BY DEF DecidesAsShown
  <1>1. CASE match_custom_rules(h) # <<>>
    <2>1. PICK k \in Foremost(h) : /\ match_custom_rules(h)[1] = custom[k]
                                   /\ FirstAction(match_custom_rules(h)) = custom[k].action
      BY <1>1, CustomDecides
    <2>2. decide(h) = custom[k].action
      BY <1>1, <2>1 DEF decide, Decisive
    <2>3. Foremost(h) # {}
      BY <2>1
    <2> QED
      BY <2>1, <2>2, <2>3 DEF Shown
  <1>2. CASE match_custom_rules(h) = <<>> /\ h \in DOMAIN exact
    BY <1>2, ExactDecides DEF decide, Decisive
  <1>3. CASE match_custom_rules(h) = <<>> /\ h \notin DOMAIN exact
    BY <1>3, SuffixDecides DEF decide, Decisive
  <1> QED
    BY <1>1, <1>2, <1>3

-----------------------------------------------------------------------------
\* What the file of custom rules may hold.
RuleFile(c) == c \in {NoFile, Empty, Torn} \/ (c \in Seq(KnownRules) /\ Sorted(c))

\* What the file, its .tmp file and every handler that may write one of them
\* hold.
RuleFiles ==
  /\ Functional
  /\ RuleFile(path["rules"]) /\ RuleFile(tmp["rules"])
  /\ \A w \in Web : RuleFile(text[w])
                    \/ (at[w] \in {"open", "write", "rename"} /\ store[w] # "rules")

\* What the engine and the files hold together.
RuleInv == IndexInv /\ RuleFiles

\* The file there is at first is one the gateway wrote: load_custom_rules does
\* not sort what it reads.
CustomFileIsSorted == Sorted(CustomFile)

\* The index when it has just been built.
LEMMA IndexBuilt ==
  ASSUME NEW b \in Seq(KnownRules), NEW c \in Seq(KnownRules), Sorted(c),
         builtin' = b, custom' = c, build_domain_index(b, c)
  PROVE  IndexInv'
  <1>1. Among(c, c)
    BY DEF Among
  <1>2. IndexOf(c)'
    BY DEF IndexOf, build_domain_index
  <1>3. Among(c, custom)'
    BY <1>1
  <1>4. (\E older \in Seq(KnownRules) : Among(older, custom) /\ IndexOf(older))'
    BY <1>2, <1>3
  <1> QED
    BY <1>4 DEF IndexInv

LEMMA IndexKept ==
  ASSUME IndexInv, UNCHANGED <<builtin, custom, exact, suffixes>>
  PROVE  IndexInv'
  BY DEF IndexInv, IndexOf

LEMMA EmptySorted == <<>> \in Seq(KnownRules) /\ Sorted(<<>>)
  BY DEF Sorted

LEMMA LoadedRules ==
  ASSUME RuleFile(path["rules"])
  PROVE  Loaded("rules") \in Seq(KnownRules) /\ Sorted(Loaded("rules"))
  BY EmptySorted DEF Loaded, Default, RuleFile, Readable

LEMMA RulesInit == ASSUME CustomFileIsSorted, Init PROVE RuleInv
  <1>1. BuiltinFile \in Seq(KnownRules) /\ CustomFile \in Seq(KnownRules) /\ Sorted(CustomFile)
    BY AdminAssumption DEF CustomFileIsSorted
  <1>2. Among(CustomFile, CustomFile)
    BY DEF Among
  <1>3. IndexInv
    BY <1>1, <1>2 DEF Init, IndexInv, IndexOf
  <1>4. Functional
    BY DEF Init, Functional, Idle, NoStore, Nothing, Closed, Stores
  <1>5. RuleFiles
    BY <1>1, <1>4 DEF Init, RuleFiles, RuleFile, Stores, Nothing
  <1> QED
    BY <1>3, <1>5 DEF RuleInv

LEMMA RulesRestart == ASSUME RuleInv, Restart PROVE RuleInv'
  <1>1. BuiltinFile \in Seq(KnownRules)
    BY AdminAssumption
  <1>2. RuleFile(path["rules"])
    BY DEF RuleInv, RuleFiles
  <1>3. IndexInv'
    <2>1. Loaded("rules") \in Seq(KnownRules) /\ Sorted(Loaded("rules"))
      BY <1>2, LoadedRules
    <2>2. builtin' = BuiltinFile /\ custom' = Loaded("rules")
          /\ build_domain_index(BuiltinFile, Loaded("rules"))
      BY DEF Restart
    <2> QED
      BY <1>1, <2>1, <2>2, IndexBuilt
  <1>4. Functional'
    BY DEF Restart, RuleInv, RuleFiles, Functional, Idle, NoStore, Nothing, Closed, Stores
  <1>5. RuleFiles'
    BY <1>2, <1>4 DEF Restart, RuleFiles, RuleFile, Stores, Nothing
  <1> QED
    BY <1>3, <1>5 DEF RuleInv

\* A step of a handler that is not writing, to a place where it is not either.
LEMMA RulesAside ==
  ASSUME RuleInv, IndexInv', NEW w \in Web, at[w] \notin {"open", "write", "rename"},
         UNCHANGED <<files, text, fd>>,
         NEW to, at' = [at EXCEPT ![w] = to],
         NEW s1 \in Stores, store' = [store EXCEPT ![w] = s1]
  PROVE  RuleInv'
  <1>1. Functional'
    BY DEF RuleInv, RuleFiles, Functional, files
  <1>2. \A v \in Web : v # w => at'[v] = at[v] /\ store'[v] = store[v]
    BY DEF RuleInv, RuleFiles, Functional
  <1>3. RuleFiles'
    BY <1>1, <1>2 DEF RuleInv, RuleFiles, files
  <1> QED
    BY <1>3 DEF RuleInv

LEMMA RulesSame ==
  ASSUME RuleInv, NEW w \in Web
  PROVE  /\ at = [at EXCEPT ![w] = at[w]]
         /\ store = [store EXCEPT ![w] = store[w]] /\ store[w] \in Stores
  BY DEF RuleInv, RuleFiles, Functional

\* A sorted list of the same rules.
LEMMA RuleAdded ==
  ASSUME IndexInv, NEW r \in NewRules, custom' \in SortedRules(Append(custom, r)),
         UNCHANGED <<builtin, exact, suffixes>>
  PROVE  IndexInv'
  <1> DEFINE all == Append(custom, r)
  <1>1. PICK q \in Bijection(DOMAIN all, DOMAIN all) :
          /\ custom' = [i \in DOMAIN all |-> all[q[i]]]
          /\ \A i, j \in DOMAIN all : i < j => custom'[i].priority >= custom'[j].priority
    BY DEF SortedRules
  <1>2. custom \in Seq(KnownRules) /\ r \in KnownRules
    BY DEF IndexInv, KnownRules
  <1>3. /\ all \in Seq(KnownRules) /\ DOMAIN all = 1..Len(all) /\ Len(all) \in Nat
        /\ \A i \in DOMAIN custom : i \in DOMAIN all /\ all[i] = custom[i]
    BY <1>2
  <1> HIDE DEF all
  <1>4. q \in [DOMAIN all -> DOMAIN all] /\ \A i \in DOMAIN all : \E j \in DOMAIN all : q[j] = i
    BY <1>1 DEF Bijection, Injection, Surjection
  <1>5. custom' \in [1..Len(all) -> KnownRules]
    <2>1. \A i \in 1..Len(all) : all[q[i]] \in KnownRules
      BY <1>3, <1>4
    <2> QED
      BY <1>1, <1>3, <2>1
  <1>6. custom' \in Seq(KnownRules) /\ DOMAIN custom' = DOMAIN all
    BY <1>3, <1>5
  <1>7. Sorted(custom)'
    BY <1>1, <1>6 DEF Sorted
  <1>8. PICK older \in Seq(KnownRules) : Among(older, custom) /\ IndexOf(older)
    BY DEF IndexInv
  <1>9. Among(older, custom)'
    <2>1. SUFFICES ASSUME NEW i \in DOMAIN older
                   PROVE  \E j \in DOMAIN custom' : custom'[j] = older[i]
      BY DEF Among
    <2>2. PICK j \in DOMAIN custom : custom[j] = older[i]
      BY <1>8 DEF Among
    <2>3. PICK k \in DOMAIN all : q[k] = j
      BY <2>2, <1>3, <1>4
    <2>4. custom'[k] = all[j]
      BY <2>3, <1>1
    <2> QED
      BY <2>2, <2>3, <2>4, <1>3, <1>6
  <1>10. IndexOf(older)'
    BY <1>8 DEF IndexOf
  <1>11. builtin' \in Seq(KnownRules)
    BY DEF IndexInv
  <1>12. (\E older2 \in Seq(KnownRules) : Among(older2, custom) /\ IndexOf(older2))'
    BY <1>9, <1>10
  <1> QED
    BY <1>6, <1>7, <1>11, <1>12 DEF IndexInv

\* What an administrator asks for.
LEMMA RulesAdminister ==
  ASSUME RuleInv, NEW w \in Web, Administer(w) \/ Apply(w)
  PROVE  RuleInv'
  <1>1. ASSUME NEW r \in NewRules, AddRule(w, r)
        PROVE  RuleInv'
    <2>1. IndexInv'
      BY <1>1, RuleAdded DEF AddRule, RuleInv
    <2>2. at[w] = "idle" /\ UNCHANGED <<files, text, fd>>
          /\ at' = [at EXCEPT ![w] = "save"] /\ store' = [store EXCEPT ![w] = "rules"]
      BY <1>1 DEF AddRule, Request, SaveNext
    <2> QED
      BY <2>1, <2>2, RulesAside DEF Stores
  <1>2. CASE Reload(w)
    <2>1. IndexInv'
      BY <1>2, EmptySorted, IndexBuilt DEF Reload
    <2>2. at[w] = "idle" /\ UNCHANGED <<files, text, fd, at, store>>
      BY <1>2 DEF Reload, Request
    <2> QED
      BY <2>1, <2>2, RulesSame, RulesAside
  <1>3. ASSUME NEW a \in Actions, SetAction(w, a)
        PROVE  RuleInv'
    <2>1. IndexInv'
      BY <1>3, IndexKept DEF SetAction, engine, RuleInv
    <2>2. at[w] = "idle" /\ UNCHANGED <<files, text, fd, store>>
          /\ at' = [at EXCEPT ![w] = "apply"]
      BY <1>3 DEF SetAction, Request
    <2> QED
      BY <2>1, <2>2, RulesSame, RulesAside
  <1>4. CASE Apply(w)
    <2>1. IndexInv'
      BY <1>4, IndexKept DEF Apply, RuleInv
    <2>2. at[w] = "apply" /\ UNCHANGED <<files, text, fd>>
      BY <1>4 DEF Apply
    <2>3. CASE SaveNext(w, "settings")
      BY <2>1, <2>2, <2>3, RulesAside DEF SaveNext, Stores
    <2>4. CASE Refuse(w, "settings")
      BY <2>1, <2>2, <2>4, RulesSame, RulesAside DEF Refuse
    <2> QED
      BY <1>4, <2>3, <2>4 DEF Apply
  <1>5. ASSUME NEW n, NEW p, NEW x,
               \/ RemoveUser(w, n) \/ AddUser(w, n, p, x)
               \/ SetStatus(w, n, x) \/ SetPassword(w, n, p)
        PROVE  RuleInv'
    <2>1. UNCHANGED <<builtin, custom, exact, suffixes, files, text, fd>>
      BY <1>5 DEF RemoveUser, AddUser, SetStatus, SetPassword, UserRequest, Request, engine
    <2>2. at[w] \notin {"open", "write", "rename"}
      BY <1>5 DEF RemoveUser, AddUser, SetStatus, SetPassword, UserRequest, Request
    <2>3. \/ at' = [at EXCEPT ![w] = "save"] /\ store' = [store EXCEPT ![w] = "users"]
          \/ /\ \E to \in {"password", "idle"} : at' = [at EXCEPT ![w] = to]
             /\ UNCHANGED store
      BY <1>5 DEF RemoveUser, AddUser, SetStatus, SetPassword, SaveNext, Refuse
    <2>4. IndexInv'
      BY <2>1, IndexKept DEF RuleInv
    <2> QED
      BY <2>1, <2>2, <2>3, <2>4, RulesSame, RulesAside DEF Stores
  <1> QED
    BY <1>1, <1>2, <1>3, <1>4, <1>5 DEF Administer

LEMMA RulesLogIn ==
  ASSUME RuleInv, NEW w \in Web, LogIn(w)
  PROVE  RuleInv'
  <1>1. UNCHANGED <<builtin, custom, exact, suffixes, files, text, fd, store>>
    BY DEF LogIn, LoginLocked, LoginRefused, LoginAccepted, LoginInfo, LoginKeeps, Login, engine
  <1>2. at[w] \in {"idle", "info"}
    BY DEF LogIn, LoginLocked, LoginRefused, LoginAccepted, LoginInfo, Login
  <1>3. UNCHANGED at \/ \E to : at' = [at EXCEPT ![w] = to]
    BY DEF LogIn, LoginLocked, LoginRefused, LoginAccepted, LoginInfo
  <1>4. IndexInv'
    BY <1>1, IndexKept DEF RuleInv
  <1> QED
    BY <1>1, <1>2, <1>3, <1>4, RulesSame, RulesAside

\* What is written to the file of the rules is what was read from the engine.
LEMMA RulesSave ==
  ASSUME RuleInv, NEW w \in Web, Save(w)
  PROVE  RuleInv'
  <1> DEFINE s == store[w]
  <1>0. s \in Stores /\ Functional /\ "rules" \in Stores
    BY DEF RuleInv, RuleFiles, Functional, Stores
  <1>1. UNCHANGED <<builtin, custom, exact, suffixes, store>>
    BY DEF Save, Snapshot, OpenTmp, Write, Rename, NothingToRename, DiskFails, SaveKeeps,
           Ended, engine
  <1>2. IndexInv'
    BY <1>1, IndexKept DEF RuleInv
  <1>3. RuleFile(Empty) /\ RuleFile(Torn) /\ RuleFile(NoFile) /\ RuleFile(custom)
    BY DEF RuleFile, RuleInv, IndexInv
  <1>4. /\ RuleFile(path["rules"]) /\ RuleFile(tmp["rules"])
        /\ \A v \in Web : RuleFile(text[v])
                    \/ (at[v] \in {"open", "write", "rename"} /\ store[v] # "rules")
    BY DEF RuleInv, RuleFiles
  <1>5. CASE Snapshot(w)
    <2>1. /\ Functional' /\ at'[w] = "open" /\ text'[w] = Memory(s)
          /\ \A v \in Web \ {w} : at'[v] = at[v] /\ text'[v] = text[v]
          /\ UNCHANGED <<path, tmp>>
      BY <1>0, <1>5 DEF Snapshot, Functional, files
    <2>2. s = "rules" => text'[w] = custom
      BY <2>1 DEF Memory
    <2> QED
      BY <1>1, <1>2, <1>3, <1>4, <2>1, <2>2 DEF RuleInv, RuleFiles
  <1>6. CASE OpenTmp(w)
    <2>1. /\ Functional' /\ at[w] = "open" /\ at'[w] = "write"
          /\ \A v \in Web \ {w} : at'[v] = at[v]
          /\ tmp'["rules"] \in {tmp["rules"], Empty}
          /\ UNCHANGED <<path, text>>
      BY <1>0, <1>6 DEF OpenTmp, Functional
    <2> QED
      BY <1>1, <1>2, <1>3, <1>4, <2>1 DEF RuleInv, RuleFiles
  <1>7. CASE Write(w)
    <2>1. /\ at[w] = "write" /\ at'[w] = "rename" /\ Functional'
          /\ \A v \in Web \ {w} : at'[v] = at[v]
          /\ UNCHANGED text
      BY <1>0, <1>7 DEF Write, Put, Functional
    <2>2. PICK content \in {text[w], Torn} : Put(w, content)
      BY <1>7 DEF Write
    <2>3. s = "rules" => RuleFile(content)
      BY <1>3, <1>4, <2>2
    <2>4. /\ path'["rules"] = path["rules"] \/ (s = "rules" /\ path'["rules"] = content)
          /\ tmp'["rules"] = tmp["rules"] \/ (s = "rules" /\ tmp'["rules"] = content)
      BY <1>0, <2>2 DEF Put, Functional
    <2> QED
      BY <1>1, <1>2, <1>3, <1>4, <2>1, <2>3, <2>4 DEF RuleInv, RuleFiles
  <1>8. CASE Rename(w) \/ NothingToRename(w)
    <2>1. /\ Functional' /\ text'[w] = Empty
          /\ \A v \in Web \ {w} : at'[v] = at[v] /\ text'[v] = text[v]
          /\ path'["rules"] \in {path["rules"], tmp["rules"]}
          /\ tmp'["rules"] \in {tmp["rules"], NoFile}
      BY <1>0, <1>8 DEF Rename, NothingToRename, Ended, Functional, files
    <2> QED
      BY <1>1, <1>2, <1>3, <1>4, <2>1 DEF RuleInv, RuleFiles
  <1>9. CASE DiskFails(w)
    <2>1. /\ Functional'
          /\ \/ text'[w] = Empty
             \/ text'[w] = text[w] /\ at[w] = "write" /\ at'[w] = "rename"
          /\ \A v \in Web \ {w} : at'[v] = at[v] /\ text'[v] = text[v]
          /\ path'["rules"] \in {path["rules"], Torn}
          /\ tmp'["rules"] \in {tmp["rules"], Torn}
      BY <1>0, <1>9 DEF DiskFails, Ended, Put, Functional, files
    <2> QED
      BY <1>1, <1>2, <1>3, <1>4, <2>1 DEF RuleInv, RuleFiles
  <1> QED
    BY <1>5, <1>6, <1>7, <1>8, <1>9 DEF Save

LEMMA RulesStep == ASSUME RuleInv, [Next]_vars PROVE RuleInv'
  <1>1. ASSUME Tick \/ UNCHANGED vars
        PROVE  RuleInv'
    <2>1. UNCHANGED <<builtin, custom, exact, suffixes, files, handler>>
      BY <1>1 DEF Tick, vars, engine
    <2>2. IndexInv'
      BY <2>1, IndexKept DEF RuleInv
    <2>3. RuleFiles'
      BY <2>1 DEF RuleInv, RuleFiles, Functional, files, handler
    <2> QED
      BY <2>2, <2>3 DEF RuleInv
  <1> QED
    BY <1>1, RulesRestart, RulesAdminister, RulesLogIn, RulesSave DEF Next

\* Through additions, reloads, saves that cross or fail and restarts, every host
\* is routed as the rules that are shown say: by a custom rule of the highest
\* priority about it, or the last built-in one for its name, or the first one
\* for its ending, or the default action; but for a host that a custom rule of
\* the highest priority without an id is about.
THEOREM RoutesAsShown == ASSUME CustomFileIsSorted PROVE Spec => []DecidesAsShown
  <1>1. Init => RuleInv
    BY RulesInit
  <1>2. RuleInv /\ [Next]_vars => RuleInv'
    BY RulesStep
  <1>3. RuleInv => DecidesAsShown
    BY IndexDecides DEF RuleInv
  <1> QED
    BY <1>1, <1>2, <1>3, PTL DEF Spec
=============================================================================
