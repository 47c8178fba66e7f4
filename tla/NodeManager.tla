---------------------------- MODULE NodeManager ----------------------------
(***************************************************************************)
(* v2rayn_manager/vm_node_manager.cpp with the configuration file it       *)
(* shares with v2ray: web handlers add, import, update, remove and reorder *)
(* nodes, choose the active one, and save the list after each edit.        *)
(*                                                                         *)
(* An edit takes m_nodes_mutex several times: to test, to change the list, *)
(* to save it (shared) and to roll it back.  A save writes <path>.tmp and  *)
(* renames it; the lock is shared, so two saves may use the same .tmp, and *)
(* PUT /api/v2rayn/config writes it without the lock.  The program may die *)
(* at any step and is started again from the file.                         *)
(*                                                                         *)
(* A node is a tag and a body (its other settings, see NodeFormat).  A     *)
(* request the validator refuses changes nothing and is not a step.        *)
(* m_active_node_tag is assigned under the shared lock; the tags are short *)
(* and a racing reader sees one value or the other.  The remarks file is   *)
(* not modelled.                                                           *)
(***************************************************************************)
EXTENDS Integers, FiniteSets, Sequences, SequencesExt, Subsequences

CONSTANTS
  Web,        \* threads that run web handlers
  Tags,       \* the tags a request may name
  VmessTags,  \* those that begin with "vmess-"
  AutoTags,   \* "vmess-1", "vmess-2", ... in the order they are tried
  NoTag,      \* the empty string
  OtherTag,   \* the outboundTag of a rule that is not about VMess
  Bodies,     \* the settings of a node, apart from its tag
  Blank,      \* the settings of a node that was moved from
  Uploads,    \* the files PUT /api/v2rayn/config may write
  NoFile,     \* there is no such file
  Empty,      \* it is there, with nothing written yet
  Torn,       \* it holds something that does not parse
  NoConfig,   \* nothing to write
  MaxNodes,   \* bound: nobody adds to a list of this many nodes
  MaxOrder,   \* bound: the longest list of tags a reorder names
  MaxUpsets,  \* bound: no more than this many upsets (see below)
  MaxRules    \* bound: routing rules beyond these are forgotten

ASSUME NodeAssumption ==
  /\ VmessTags \subseteq Tags
  /\ AutoTags \in Seq(VmessTags)
  /\ {NoTag, OtherTag} \cap Tags = {}
  /\ {MaxNodes, MaxOrder, MaxUpsets} \subseteq Nat
  /\ MaxRules \in Nat \ {0}

VARIABLES
  nodes,  \* m_nodes
  active, \* m_active_node_tag
  path,   \* what the configuration file holds
  tmp,    \* what <path>.tmp holds
  at,     \* where each web thread is
  job,    \* what its handler was asked for and remembers
  cfg,    \* the configuration it has built and not yet written
  fd,     \* the name of the file it has open: "tmp", "path" or "gone"
  upsets  \* history: how often a handler began during another's, a file was
          \* uploaded, and a write was cut short

vars == <<nodes, active, path, tmp, at, job, cfg, fd, upsets>>

Mishaps == {"overlap", "upload", "cut"}

Ghost == [tag |-> NoTag, body |-> Blank]
NoJob == [kind |-> "none", tag |-> NoTag, node |-> Ghost]

-----------------------------------------------------------------------------
(* The node list *)

Position(s, t) == SelectInSeq(s, LAMBDA n : n.tag = t)
HasTag(s, t) == \E i \in DOMAIN s : s[i].tag = t
Named(s) == {s[i] : i \in {j \in DOMAIN s : s[j].tag # NoTag}}

\* Fault: an update does not look at the other nodes' tags.
is_tag_uniqueOnlyForAdd(t, old) == old # NoTag \/ ~HasTag(nodes, t)

\* No other node than the one called old has the tag t.
is_tag_unique(t, old) == \A i \in DOMAIN nodes : nodes[i].tag = t => t = old

\* The first automatic tag nobody has.
generate_auto_tag ==
  LET free == {i \in DOMAIN AutoTags : ~HasTag(nodes, AutoTags[i])}
  IN AutoTags[CHOOSE i \in free : \A j \in free : i <= j]

\* Nodes are moved to the front in the order of their tags.  A node that was
\* moved from stays in the old list with an empty tag, and what the old list
\* still holds is appended unless a node of that tag is there: the first of
\* the emptied nodes is appended as well.
Move(acc, t) ==
  LET i == Position(acc.rest, t)
  IN IF i = 0 THEN acc
     ELSE [front |-> Append(acc.front, acc.rest[i]), rest |-> [acc.rest EXCEPT ![i] = Ghost]]

move_to_front(s, order) ==
  LET moved[k \in 0..Len(order)] ==
        IF k = 0 THEN [front |-> <<>>, rest |-> s] ELSE Move(moved[k - 1], order[k])
  IN moved[Len(order)]

append_rest(front, rest) ==
  LET kept[k \in 0..Len(rest)] ==
        IF k = 0 THEN front
        ELSE IF HasTag(kept[k - 1], rest[k].tag) THEN kept[k - 1]
        ELSE Append(kept[k - 1], rest[k])
  IN kept[Len(rest)]

reorder_nodes(s, order) ==
  LET moved == move_to_front(s, order) IN append_rest(moved.front, moved.rest)

-----------------------------------------------------------------------------
(* The configuration file *)

\* v2rayn_config::load: a file that is missing or does not parse is nothing.
Loaded(file) ==
  IF file \in {NoFile, Empty, Torn}
  THEN [outs |-> <<>>, rules |-> <<>>] ELSE file

\* Fault: the rule for the active node is added only to an empty list.
build_rulesIfEmpty(rules, tag) ==
  IF tag = NoTag THEN rules
  ELSE IF rules = <<>> THEN <<tag>>
  ELSE [i \in DOMAIN rules |-> IF rules[i] \in VmessTags THEN tag ELSE rules[i]]

\* Every rule about VMess is redirected to the active node; without one, a
\* rule for it is put in front.
build_rules(rules, tag) ==
  IF tag = NoTag THEN rules
  ELSE IF \E i \in DOMAIN rules : rules[i] \in VmessTags
  THEN [i \in DOMAIN rules |-> IF rules[i] \in VmessTags THEN tag ELSE rules[i]]
  ELSE LET all == <<tag>> \o rules
       IN SubSeq(all, 1, IF Len(all) < MaxRules THEN Len(all) ELSE MaxRules)

build_full_config(existing) ==
  LET tag == IF active = NoTag /\ nodes # <<>> THEN nodes[1].tag ELSE active
  IN [outs |-> nodes, rules |-> build_rules(existing.rules, tag)]

\* What load_from_config makes of a file: the outbounds that have a tag, and
\* the first rule about VMess names the active node.
LoadedNodes(c) == Subsequence(c.outs, {i \in DOMAIN c.outs : c.outs[i].tag # NoTag})
LoadedActive(c) ==
  LET vm == Subsequence(c.rules, {i \in DOMAIN c.rules : c.rules[i] \in VmessTags})
      ns == LoadedNodes(c)
  IN IF vm # <<>> THEN vm[1] ELSE IF ns # <<>> THEN ns[1].tag ELSE NoTag

-----------------------------------------------------------------------------
(* Who is where *)

Locations ==
  {"idle", "push", "replace", "erase", "save", "built", "open", "written",
   "failed"}

\* A save holds m_nodes_mutex (shared) from reading the list to the rename.
Saving(w) == at[w] \in {"built", "open", "written"} /\ job[w].kind # "upload"
NobodySaves == \A w \in Web : ~Saving(w)

Init ==
  /\ \E first \in [1..1 -> [tag : Tags, body : Bodies]] \cup {<<>>} :
       /\ nodes = first
       /\ active = IF first = <<>> THEN NoTag ELSE first[1].tag
       /\ path = [outs |-> first, rules |-> IF first = <<>> THEN <<OtherTag>>
                                ELSE <<OtherTag, first[1].tag>>]
  /\ tmp = NoFile
  /\ at = [w \in Web |-> "idle"]
  /\ job = [w \in Web |-> NoJob]
  /\ cfg = [w \in Web |-> NoConfig]
  /\ fd = [w \in Web |-> "none"]
  /\ upsets = [m \in Mishaps |-> 0]

Upset(m) ==
  /\ upsets["overlap"] + upsets["upload"] + upsets["cut"] < MaxUpsets
  /\ upsets' = [upsets EXCEPT ![m] = @ + 1]

\* A handler begins, and remembers whether another is under way.
Begin(w, kind, tag, node, to) ==
  /\ at[w] = "idle"
  /\ at' = [at EXCEPT ![w] = to]
  /\ job' = [job EXCEPT ![w] = [kind |-> kind, tag |-> tag, node |-> node]]
  /\ IF \A v \in Web \ {w} : at[v] = "idle" THEN UNCHANGED upsets ELSE Upset("overlap")

\* A handler answers and forgets.
End(w) ==
  /\ at' = [at EXCEPT ![w] = "idle"]
  /\ job' = [job EXCEPT ![w] = NoJob]
  /\ cfg' = [cfg EXCEPT ![w] = NoConfig]
  /\ fd' = [fd EXCEPT ![w] = "none"]

disk == <<path, tmp>>
memory == <<nodes, active>>

-----------------------------------------------------------------------------
(* The handlers up to the save *)

\* The tag is compared with the others' before m_nodes_mutex is taken.
AddNode(w) ==
  /\ Len(nodes) < MaxNodes
  /\ \E n \in [tag : Tags, body : Bodies] :
       /\ is_tag_unique(n.tag, NoTag)
       /\ Begin(w, "add", NoTag, n, "push")
  /\ UNCHANGED <<memory, disk, cfg, fd>>

ImportLink(w) ==
  /\ Len(nodes) < MaxNodes
  /\ \E i \in DOMAIN AutoTags : ~HasTag(nodes, AutoTags[i])
  /\ \E b \in Bodies :
       Begin(w, "import", NoTag, [tag |-> generate_auto_tag, body |-> b], "push")
  /\ UNCHANGED <<memory, disk, cfg, fd>>

\* Fault: the list is changed without m_nodes_mutex.
PushUnlocked(w) ==
  /\ at[w] = "push"
  /\ nodes' = Append(nodes, job[w].node)
  /\ at' = [at EXCEPT ![w] = "save"]
  /\ UNCHANGED <<active, disk, job, cfg, fd, upsets>>

Push(w) ==
  /\ at[w] = "push"
  /\ NobodySaves
  /\ nodes' = Append(nodes, job[w].node)
  /\ at' = [at EXCEPT ![w] = "save"]
  /\ UNCHANGED <<active, disk, job, cfg, fd, upsets>>

UpdateNode(w) ==
  /\ \E old \in Tags, n \in [tag : Tags, body : Bodies] :
       /\ is_tag_unique(n.tag, old)
       /\ Begin(w, "update", old, n, "replace")
  /\ UNCHANGED <<memory, disk, cfg, fd>>

\* What was replaced is remembered in place of the request's old tag; the new
\* tag is kept to find the node again.
Replace(w) ==
  LET i == Position(nodes, job[w].tag) IN
  /\ at[w] = "replace"
  /\ NobodySaves
  /\ i # 0
  /\ nodes' = [nodes EXCEPT ![i] = job[w].node]
  /\ job' = [job EXCEPT ![w] = [kind |-> "update", tag |-> @.node.tag,
                                node |-> nodes[i]]]
  /\ at' = [at EXCEPT ![w] = "save"]
  /\ UNCHANGED <<active, disk, cfg, fd, upsets>>

\* The size is tested in a lock region of its own.
RemoveNode(w) ==
  /\ Len(nodes) > 1
  /\ \E t \in Tags : Begin(w, "remove", t, Ghost, "erase")
  /\ UNCHANGED <<memory, disk, cfg, fd>>

Erase(w) ==
  LET i == Position(nodes, job[w].tag) IN
  /\ at[w] = "erase"
  /\ NobodySaves
  /\ i # 0
  /\ nodes' = RemoveAt(nodes, i)
  /\ job' = [job EXCEPT ![w].node = nodes[i]]
  /\ at' = [at EXCEPT ![w] = "save"]
  /\ UNCHANGED <<active, disk, cfg, fd, upsets>>

\* "No such node": nothing was changed.
NotFound(w) ==
  /\ at[w] \in {"replace", "erase"}
  /\ NobodySaves
  /\ ~HasTag(nodes, job[w].tag)
  /\ End(w)
  /\ UNCHANGED <<memory, disk, upsets>>

\* The new order is not saved.
Reorder(w) ==
  /\ at[w] = "idle"
  /\ NobodySaves
  /\ \E k \in 1..MaxOrder : \E order \in [1..k -> Tags] :
       nodes' = reorder_nodes(nodes, order)
  /\ IF \A v \in Web : at[v] = "idle" THEN UNCHANGED upsets ELSE Upset("overlap")
  /\ UNCHANGED <<active, disk, at, job, cfg, fd>>

\* POST vmess/active, and vmess/apply with or without a tag.  The choice is
\* made before the save and stays if the save fails.
SetActive(w) ==
  /\ \/ \E t \in Tags : HasTag(nodes, t) /\ active' = t
     \/ UNCHANGED active
  /\ Begin(w, "apply", NoTag, Ghost, "save")
  /\ UNCHANGED <<nodes, disk, cfg, fd>>

\* PUT /api/v2rayn/config writes what it was sent, without m_nodes_mutex.
Upload(w) ==
  /\ at[w] = "idle"
  /\ \E c \in Uploads : cfg' = [cfg EXCEPT ![w] = c]
  /\ at' = [at EXCEPT ![w] = "built"]
  /\ job' = [job EXCEPT ![w] = [kind |-> "upload", tag |-> NoTag, node |-> Ghost]]
  /\ Upset(IF \A v \in Web : at[v] = "idle" THEN "upload" ELSE "overlap")
  /\ UNCHANGED <<memory, disk, fd>>

-----------------------------------------------------------------------------
(* save_to_config *)

Build(w) ==
  /\ at[w] = "save"
  /\ cfg' = [cfg EXCEPT ![w] = build_full_config(Loaded(path))]
  /\ at' = [at EXCEPT ![w] = "built"]
  /\ UNCHANGED <<memory, disk, job, fd, upsets>>

\* Fault: the configuration file itself is opened and emptied.
OpenInPlace(w) ==
  /\ at[w] = "built"
  /\ path' = Empty
  /\ fd' = [fd EXCEPT ![w] = "path"]
  /\ at' = [at EXCEPT ![w] = "open"]
  /\ UNCHANGED <<memory, tmp, job, cfg, upsets>>

\* A new file, unless somebody has just created it: then the same, emptied.
OpenTmp(w) ==
  /\ at[w] = "built"
  /\ tmp' = Empty
  /\ fd' = [fd EXCEPT ![w] = "tmp"]
  /\ at' = [at EXCEPT ![w] = "open"]
  /\ UNCHANGED <<memory, path, job, cfg, upsets>>

OpenFails(w) ==
  /\ at[w] = "built"
  /\ at' = [at EXCEPT ![w] = "failed"]
  /\ UNCHANGED <<memory, disk, job, cfg, fd, upsets>>

\* What the file that w has open holds afterwards, whatever its name is now.
Put(w, text) ==
  /\ tmp' = IF fd[w] = "tmp" THEN text ELSE tmp
  /\ path' = IF fd[w] = "path" THEN text ELSE path

\* The text is written from the start of the file.  Over a longer text it
\* leaves the end of that one behind.
Write(w) ==
  LET there == IF fd[w] = "tmp" THEN tmp ELSE IF fd[w] = "path" THEN path ELSE Empty IN
  /\ at[w] = "open"
  /\ \E text \in IF there \in {Empty, cfg[w]} THEN {cfg[w]} ELSE {cfg[w], Torn} :
       Put(w, text)
  /\ at' = [at EXCEPT ![w] = "written"]
  /\ UNCHANGED <<memory, job, cfg, fd, upsets>>

\* A full disk cuts the text short, and nobody looks at the stream's state.
WriteShort(w) ==
  /\ at[w] = "open"
  /\ Put(w, Torn)
  /\ at' = [at EXCEPT ![w] = "written"]
  /\ Upset("cut")
  /\ UNCHANGED <<memory, job, cfg, fd>>

\* The rename ends the save; the handler answers "ok".  Whoever else has the
\* file open goes on writing to it under its new name.
Rename(w) ==
  /\ at[w] = "written"
  /\ tmp # NoFile
  /\ path' = tmp
  /\ tmp' = NoFile
  /\ at' = [at EXCEPT ![w] = "idle"]
  /\ job' = [job EXCEPT ![w] = NoJob]
  /\ cfg' = [cfg EXCEPT ![w] = NoConfig]
  /\ fd' = [v \in Web |-> IF v = w \/ fd[v] = "none" THEN "none"
                          ELSE IF fd[v] = "tmp" THEN "path" ELSE "gone"]
  /\ UNCHANGED <<memory, upsets>>

\* No such file (somebody renamed it already), or the disk refuses.  A .tmp
\* that nobody has open is emptied before it is used: it may as well be gone.
RenameFails(w) ==
  /\ at[w] = "written"
  /\ at' = [at EXCEPT ![w] = "failed"]
  /\ tmp' = IF \E v \in Web \ {w} : fd[v] = "tmp" THEN tmp ELSE NoFile
  /\ fd' = [fd EXCEPT ![w] = "none"]
  /\ UNCHANGED <<memory, path, job, cfg, upsets>>

-----------------------------------------------------------------------------
(* The roll-back, under m_nodes_mutex, and the answer "failed" *)

\* add_node takes back the last node, import_from_link only its own.  (Of an
\* empty list pop_back is undefined; it takes three handlers to get there.)
PopBack(w) ==
  /\ nodes # <<>>
  /\ job[w].kind = "import" => Last(nodes).tag = job[w].node.tag
  /\ nodes' = Front(nodes)

\* The node is looked for under its new tag.
PutBack(w) ==
  LET i == Position(nodes, job[w].tag) IN
  /\ i # 0
  /\ nodes' = [nodes EXCEPT ![i] = job[w].node]

\* Fault: a removal that could not be saved stays.
UndoForgetsRemoval(w) ==
  \/ job[w].kind \in {"add", "import"} /\ PopBack(w)
  \/ job[w].kind = "update" /\ PutBack(w)
  \/ job[w].kind = "remove" /\ UNCHANGED nodes

Undo(w) ==
  \/ job[w].kind \in {"add", "import"} /\ PopBack(w)
  \/ job[w].kind = "update" /\ PutBack(w)
  \/ job[w].kind = "remove" /\ nodes' = Append(nodes, job[w].node)

RollBack(w) ==
  /\ at[w] = "failed"
  /\ NobodySaves
  /\ Undo(w)
  /\ End(w)
  /\ UNCHANGED <<active, disk, upsets>>

\* There is nothing to take back.
NothingToUndo(w) ==
  /\ at[w] = "failed"
  /\ \/ job[w].kind \in {"apply", "upload"}
     \/ job[w].kind = "import" /\ (nodes = <<>> \/ Last(nodes).tag # job[w].node.tag)
     \/ job[w].kind = "update" /\ ~HasTag(nodes, job[w].tag)
  /\ End(w)
  /\ UNCHANGED <<memory, disk, upsets>>

\* The program dies and is started again: load_from_config.
Restart ==
  /\ nodes' = LoadedNodes(Loaded(path))
  /\ active' = LoadedActive(Loaded(path))
  /\ at' = [w \in Web |-> "idle"]
  /\ job' = [w \in Web |-> NoJob]
  /\ cfg' = [w \in Web |-> NoConfig]
  /\ fd' = [w \in Web |-> "none"]
  /\ tmp' = NoFile
  /\ UNCHANGED <<path, upsets>>

WebStep(w) ==
  \/ AddNode(w) \/ ImportLink(w) \/ Push(w) \/ UpdateNode(w) \/ Replace(w)
  \/ RemoveNode(w) \/ Erase(w) \/ NotFound(w) \/ Reorder(w) \/ SetActive(w)
  \/ Upload(w) \/ Build(w) \/ OpenTmp(w) \/ OpenFails(w) \/ Write(w)
  \/ WriteShort(w) \/ Rename(w) \/ RenameFails(w) \/ RollBack(w)
  \/ NothingToUndo(w)

Next == Restart \/ \E w \in Web : WebStep(w)

Spec == Init /\ [][Next]_vars

-----------------------------------------------------------------------------
(* Properties *)

\* From reading the list to renaming the file, what a save writes is the list
\* as it is: the shared lock keeps every edit out, however many save at once.
SnapshotStable == \A w \in Web : Saving(w) => cfg[w].outs = nodes

\* Handlers came one after the other.
Serial == upsets["overlap"] = 0

\* And nobody uploaded a configuration, and no write was cut short.
Undisturbed == \A m \in Mishaps : upsets[m] = 0

\* As long as edits come one after the other, nothing is uploaded and no write
\* is cut short, each leaves the named nodes of the list and of the file the
\* same, whether it was saved, taken back because the file could not be opened
\* or renamed, or cut off by a crash.
MemoryMatchesFile ==
  Undisturbed /\ (\A w \in Web : at[w] = "idle") => Named(nodes) = Named(Loaded(path).outs)

\* As long as edits come one after the other, nothing is uploaded and no write
\* is cut short, no two nodes share a tag.
UniqueTags ==
  Undisturbed => \A i, j \in DOMAIN nodes : nodes[i].tag = nodes[j].tag => i = j

\* As long as edits and uploads come one after the other, the file that has the
\* configuration's name is never an empty one, and it is complete at every
\* moment unless a write was cut short: a restart (or v2ray's) finds no other
\* half of one, wherever the program dies.  A write that is cut short is renamed
\* all the same, and answered as saved.
FileAlwaysComplete ==
  Serial => path # Empty /\ (upsets["cut"] = 0 => path # Torn)

\* As long as edits come one after the other, nothing is uploaded and no write
\* is cut short, a save leaves a file from which load_from_config reads back the
\* active node, if its tag begins with "vmess-".
SavedActiveReturns ==
  [][Undisturbed /\ (\E w \in Web : Rename(w)) /\ active \in VmessTags
     => LoadedActive(Loaded(path)') = active]_vars
=============================================================================
