------------------------- MODULE NodeManagerProofs -------------------------
(***************************************************************************)
(* What the shared lock around save_to_config gives, however many handlers *)
(* run: a save writes the list as it is.  And why edits that come one      *)
(* after the other leave half a file under the configuration's name only   *)
(* when a write was cut short, and why, without that and without uploads,  *)
(* they never give a tag to two nodes and leave the list and the file with *)
(* the same nodes, wherever else the disk refuses or the program dies.     *)
(* The last part is about one node and the forms it takes (NodeFormat).    *)
(***************************************************************************)
EXTENDS NodeManager, NodeFormat, SequenceLemmas, TLAPS

\* The handlers' places and what they remember are functions of the thread.
Shape ==
  /\ at \in [Web -> Locations]
  /\ job = [w \in Web |-> job[w]]
  /\ cfg = [w \in Web |-> cfg[w]]

StableInv == Shape /\ SnapshotStable

\* Handlers that write nothing of their own to the list keep what is there.
LEMMA QuietStep ==
  ASSUME NEW w \in Web, StableInv,
         Shape', UNCHANGED nodes, ~Saving(w)',
         \A v \in Web \ {w} : at'[v] = at[v] /\ job'[v] = job[v] /\ cfg'[v] = cfg[v]
  PROVE  SnapshotStable'
  BY DEF StableInv, Shape, SnapshotStable, Saving

\* A step that changes the list while nobody saves, and after which nobody saves
\* who did not before.
LEMMA EditStep ==
  ASSUME NEW w \in Web, StableInv, NobodySaves,
         Shape', ~Saving(w)',
         \A v \in Web \ {w} : at'[v] = at[v] /\ job'[v] = job[v] /\ cfg'[v] = cfg[v]
  PROVE  SnapshotStable'
  BY DEF StableInv, Shape, SnapshotStable, Saving, NobodySaves

LEMMA StableInit == Init => StableInv
  BY DEF Init, StableInv, Shape, SnapshotStable, Saving, Locations

\* A handler that begins below "built" saves nothing yet.
LEMMA BeginStep ==
  ASSUME NEW w \in Web, StableInv, NEW kind, NEW tag, NEW body,
         NEW to \in {"push", "replace", "erase", "save"},
         Begin(w, kind, tag, body, to), UNCHANGED <<nodes, cfg>>
  PROVE  StableInv'
  <1>1. Shape'
    BY DEF StableInv, Shape, Begin, Locations
  <1>2. at'[w] = to /\ ~Saving(w)'
    BY DEF StableInv, Shape, Begin, Saving
  <1>3. \A v \in Web \ {w} : at'[v] = at[v] /\ job'[v] = job[v] /\ cfg'[v] = cfg[v]
    BY DEF StableInv, Shape, Begin
  <1> QED
    BY <1>1, <1>2, <1>3, QuietStep DEF StableInv

\* What End leaves: w idle, everybody else as before.
LEMMA EndStep ==
  ASSUME NEW w \in Web, StableInv, End(w)
  PROVE  /\ Shape'
         /\ ~Saving(w)'
         /\ \A v \in Web \ {w} : at'[v] = at[v] /\ job'[v] = job[v] /\ cfg'[v] = cfg[v]
  BY DEF StableInv, Shape, End, Saving, Locations

\* A handler that leaves the save, or has not reached it, without ending.
LEMMA MoveStep ==
  ASSUME NEW w \in Web, StableInv, NEW to \in {"save", "failed"},
         at' = [at EXCEPT ![w] = to], job' = [job EXCEPT ![w] = job'[w]],
         UNCHANGED cfg
  PROVE  /\ Shape'
         /\ ~Saving(w)'
         /\ \A v \in Web \ {w} : at'[v] = at[v] /\ job'[v] = job[v] /\ cfg'[v] = cfg[v]
  <1>1. Shape'
    BY DEF StableInv, Shape, Locations
  <1>2. at'[w] = to
    BY DEF StableInv, Shape
  <1> QED
    BY <1>1, <1>2 DEF StableInv, Shape, Saving

\* A handler that goes on inside the save.
LEMMA InsideStep ==
  ASSUME NEW w \in Web, StableInv, NEW to \in {"open", "written"},
         at[w] \in {"built", "open"}, at' = [at EXCEPT ![w] = to],
         UNCHANGED <<nodes, job, cfg>>
  PROVE  StableInv'
  <1>1. Shape'
    BY DEF StableInv, Shape, Locations
  <1>2. SnapshotStable'
    <2> SUFFICES ASSUME NEW v \in Web, Saving(v)'
                 PROVE  cfg'[v].outs = nodes'
      BY DEF SnapshotStable
    <2>1. Saving(v)
      BY DEF StableInv, Shape, Saving
    <2> QED
      BY <2>1 DEF StableInv, SnapshotStable
  <1> QED
    BY <1>1, <1>2 DEF StableInv

LEMMA StableStep ==
  ASSUME StableInv, [Next]_vars
  PROVE  StableInv'
  <1>1. CASE UNCHANGED vars
    BY <1>1 DEF vars, StableInv, Shape, SnapshotStable, Saving
  <1>2. CASE Restart
    BY <1>2 DEF Restart, StableInv, Shape, SnapshotStable, Saving, Locations
  <1>3. ASSUME NEW w \in Web, WebStep(w) PROVE StableInv'
    <2>1. CASE AddNode(w)
      <3>1. PICK n : Begin(w, "add", NoTag, n, "push")
        BY <2>1 DEF AddNode
      <3> QED
        BY <2>1, <3>1, BeginStep DEF AddNode, memory
    <2>2. CASE ImportLink(w)
      <3>1. PICK n : Begin(w, "import", NoTag, n, "push")
        BY <2>2 DEF ImportLink
      <3> QED
        BY <2>2, <3>1, BeginStep DEF ImportLink, memory
    <2>3. CASE Push(w)
      <3>1. job' = [job EXCEPT ![w] = job'[w]]
        BY <2>3 DEF Push, StableInv, Shape
      <3> QED
        BY <2>3, <3>1, MoveStep, EditStep DEF Push, StableInv
    <2>4. CASE UpdateNode(w)
      <3>1. PICK old, n : Begin(w, "update", old, n, "replace")
        BY <2>4 DEF UpdateNode
      <3> QED
        BY <2>4, <3>1, BeginStep DEF UpdateNode, memory
    <2>5. CASE Replace(w)
      <3>1. job' = [job EXCEPT ![w] = job'[w]]
        BY <2>5 DEF Replace, StableInv, Shape
      <3> QED
        BY <2>5, <3>1, MoveStep, EditStep DEF Replace, StableInv
    <2>6. CASE RemoveNode(w)
      <3>1. PICK t : Begin(w, "remove", t, Ghost, "erase")
        BY <2>6 DEF RemoveNode
      <3> QED
        BY <2>6, <3>1, BeginStep DEF RemoveNode, memory
    <2>7. CASE Erase(w)
      <3>1. job' = [job EXCEPT ![w] = job'[w]]
        BY <2>7 DEF Erase, StableInv, Shape
      <3> QED
        BY <2>7, <3>1, MoveStep, EditStep DEF Erase, StableInv
    <2>8. CASE NotFound(w)
      BY <2>8, EndStep, QuietStep DEF NotFound, memory, StableInv
    <2>9. CASE Reorder(w)
      <3>1. NobodySaves /\ UNCHANGED <<at, job, cfg>>
        BY <2>9 DEF Reorder
      <3> QED
        BY <3>1 DEF StableInv, Shape, SnapshotStable, Saving, NobodySaves
    <2>10. CASE SetActive(w)
      <3>1. Begin(w, "apply", NoTag, Ghost, "save") /\ UNCHANGED <<nodes, cfg>>
        BY <2>10 DEF SetActive
      <3> QED
        BY <3>1, BeginStep
    <2>11. CASE Upload(w)
      <3>1. Shape' /\ UNCHANGED nodes
        BY <2>11 DEF Upload, StableInv, Shape, Locations, memory
      <3>2. job'[w].kind = "upload"
        BY <2>11 DEF Upload, StableInv, Shape
      <3>3. \A v \in Web \ {w} : at'[v] = at[v] /\ job'[v] = job[v] /\ cfg'[v] = cfg[v]
        BY <2>11 DEF Upload, StableInv, Shape
      <3> QED
        BY <3>1, <3>2, <3>3, QuietStep DEF StableInv, Saving
    <2>12. CASE Build(w)
      <3>1. cfg'[w].outs = nodes /\ UNCHANGED <<nodes, job>>
        BY <2>12 DEF Build, build_full_config, memory, StableInv, Shape
      <3>2. Shape'
        BY <2>12 DEF Build, StableInv, Shape, Locations
      <3>3. \A v \in Web \ {w} : at'[v] = at[v] /\ cfg'[v] = cfg[v]
        BY <2>12 DEF Build, StableInv, Shape
      <3> QED
        BY <3>1, <3>2, <3>3 DEF StableInv, SnapshotStable, Saving
    <2>13. CASE OpenTmp(w)
      BY <2>13, InsideStep DEF OpenTmp, memory
    <2>14. CASE OpenFails(w)
      <3>1. job' = [job EXCEPT ![w] = job'[w]]
        BY <2>14 DEF OpenFails, StableInv, Shape
      <3> QED
        BY <2>14, <3>1, MoveStep, QuietStep DEF OpenFails, memory, StableInv
    <2>15. CASE Write(w)
      BY <2>15, InsideStep DEF Write, memory
    <2>16. CASE WriteShort(w)
      BY <2>16, InsideStep DEF WriteShort, memory
    <2>17. CASE Rename(w)
      <3>1. Shape' /\ UNCHANGED nodes /\ ~Saving(w)'
        BY <2>17 DEF Rename, StableInv, Shape, Locations, memory, Saving
      <3>2. \A v \in Web \ {w} : at'[v] = at[v] /\ job'[v] = job[v] /\ cfg'[v] = cfg[v]
        BY <2>17 DEF Rename, StableInv, Shape
      <3> QED
        BY <3>1, <3>2, QuietStep DEF StableInv
    <2>18. CASE RenameFails(w)
      <3>1. job' = [job EXCEPT ![w] = job'[w]]
        BY <2>18 DEF RenameFails, StableInv, Shape
      <3> QED
        BY <2>18, <3>1, MoveStep, QuietStep DEF RenameFails, memory, StableInv
    <2>19. CASE RollBack(w)
      BY <2>19, EndStep, EditStep DEF RollBack, StableInv
    <2>20. CASE NothingToUndo(w)
      BY <2>20, EndStep, QuietStep DEF NothingToUndo, memory, StableInv
    <2> QED
      BY <1>3, <2>1, <2>2, <2>3, <2>4, <2>5, <2>6, <2>7, <2>8, <2>9, <2>10, <2>11,
         <2>12, <2>13, <2>14, <2>15, <2>16, <2>17, <2>18, <2>19, <2>20 DEF WebStep
  <1> QED
    BY <1>1, <1>2, <1>3 DEF Next

\* However many handlers save at once, and whatever fails: between reading the
\* list and renaming the file, what is written is the list as it stands.
THEOREM SavesWriteTheList == Spec => []SnapshotStable
  <1>1. StableInv /\ [Next]_vars => StableInv'
    BY StableStep
  <1>2. StableInv => SnapshotStable
    BY DEF StableInv
  <1> QED
    BY StableInit, <1>1, <1>2, PTL DEF Spec
-----------------------------------------------------------------------------
\* Why the file is complete at every moment while edits come one after the
\* other, but for a write that was cut short: who has a file open has the
\* temporary one open, has built what it will write, and nobody empties the file
\* between the write and the rename.
Whole(file) == file \notin {NoFile, Empty, Torn}

\* A configuration that is written or uploaded is neither of the two unfinished
\* files, which differ, and is there.
ConfigsAreWhole ==
  /\ \A o, r : Whole([outs |-> o, rules |-> r])
  /\ \A c \in Uploads : Whole(c)
  /\ Torn # Empty

\* Once a write was cut short a file may be what it left.
Sound(file) == Whole(file) \/ (file = Torn /\ upsets["cut"] # 0)

Functional ==
  /\ at \in [Web -> Locations]
  /\ cfg = [w \in Web |-> cfg[w]]
  /\ fd = [w \in Web |-> fd[w]]
  /\ upsets \in [Mishaps -> Nat]

Alone(w) == \A v \in Web \ {w} : at[v] = "idle"

OneAtATime ==
  /\ Sound(path)
  /\ \A w \in Web :
       /\ at[w] # "idle" => Alone(w)
       /\ at[w] \in {"built", "open"} => Whole(cfg[w])
       /\ at[w] = "open" => fd[w] = "tmp" /\ tmp = Empty
       /\ at[w] = "written" => fd[w] = "tmp" /\ Sound(tmp)

SerialInv == Functional /\ (Serial => OneAtATime)

LEMMA SerialInit == ASSUME ConfigsAreWhole, Init PROVE SerialInv
  <1>1. Sound(path)
    BY DEF Init, ConfigsAreWhole, Sound
  <1> QED
    BY <1>1 DEF Init, SerialInv, Functional, OneAtATime, Locations

\* No mishap is forgotten: who is undisturbed was, and a file that is sound
\* stays sound.
LEMMA MishapsStay ==
  ASSUME upsets \in [Mishaps -> Nat],
         UNCHANGED upsets \/ \E m \in Mishaps : Upset(m)
  PROVE  /\ upsets' \in [Mishaps -> Nat]
         /\ Serial' => Serial
         /\ Undisturbed' => Undisturbed
         /\ Upset("overlap") => ~Serial'
         /\ \A m \in Mishaps : Upset(m) => ~Undisturbed'
         /\ upsets["cut"] # 0 => upsets'["cut"] # 0
  <1>1. CASE UNCHANGED upsets
    <2>1. \A m \in Mishaps : ~Upset(m)
      BY <1>1 DEF Upset
    <2> QED
      BY <1>1, <2>1 DEF Serial, Undisturbed, Mishaps
  <1>2. ASSUME NEW m \in Mishaps, Upset(m)
        PROVE  /\ upsets' \in [Mishaps -> Nat]
               /\ \A k \in Mishaps : upsets'[k] = 0 => upsets[k] = 0 /\ k # m
    BY <1>2 DEF Upset
  <1>3. {"overlap", "cut"} \subseteq Mishaps
    BY DEF Mishaps
  <1> QED
    BY <1>1, <1>2, <1>3 DEF Serial, Undisturbed

\* A step of one thread, while all others are idle, to a place where it has
\* what that place asks for.
LEMMA SerialStep ==
  ASSUME NEW w \in Web, SerialInv, Functional',
         NEW to, at' = [at EXCEPT ![w] = to],
         Serial' =>
           /\ Serial /\ (at[w] # "idle" \/ Alone(w))
           /\ Sound(path)'
           /\ to \in {"built", "open"} => Whole(cfg'[w])
           /\ to = "open" => fd'[w] = "tmp" /\ tmp' = Empty
           /\ to = "written" => fd'[w] = "tmp" /\ Sound(tmp)'
  PROVE  SerialInv'
  <1> SUFFICES ASSUME Serial' PROVE OneAtATime'
    BY DEF SerialInv
  <1>1. Alone(w)
    BY DEF SerialInv, OneAtATime
  <1>2. at'[w] = to /\ \A v \in Web \ {w} : at'[v] = "idle"
    BY <1>1 DEF SerialInv, Functional, Alone
  <1> QED
    BY <1>2 DEF OneAtATime, Alone

\* A handler that begins while another runs is an upset.
LEMMA BeginSerial ==
  ASSUME NEW w \in Web, SerialInv, NEW kind, NEW tag, NEW body,
         NEW to \in {"push", "replace", "erase", "save"},
         Begin(w, kind, tag, body, to), UNCHANGED <<path, cfg, fd>>
  PROVE  SerialInv'
  <1>1. UNCHANGED upsets \/ Upset("overlap")
    BY DEF Begin
  <1>2. Functional'
    BY <1>1, MishapsStay DEF SerialInv, Functional, Begin, Locations, Mishaps
  <1>3. Serial' => Serial /\ Alone(w)
    BY <1>1, MishapsStay DEF SerialInv, Functional, Begin, Alone, Mishaps
  <1>4. Serial' => Sound(path)'
    BY <1>1, <1>3, MishapsStay DEF SerialInv, Functional, OneAtATime, Sound, Mishaps
  <1> QED
    BY <1>2, <1>3, <1>4, SerialStep DEF Begin

\* A handler that runs goes to a place outside the save and leaves the file.
LEMMA OutsideSerial ==
  ASSUME NEW w \in Web, SerialInv, at[w] # "idle",
         NEW to \in {"idle", "save", "failed"}, at' = [at EXCEPT ![w] = to],
         cfg' = [v \in Web |-> cfg'[v]], fd' = [v \in Web |-> fd'[v]],
         UNCHANGED <<path, upsets>>
  PROVE  SerialInv'
  <1>1. Functional'
    BY DEF SerialInv, Functional, Locations
  <1>2. Serial' => Serial /\ Sound(path)'
    BY DEF SerialInv, Serial, OneAtATime, Sound
  <1> QED
    BY <1>1, <1>2, SerialStep

LEMMA EndSerial ==
  ASSUME NEW w \in Web, SerialInv, at[w] # "idle", End(w), UNCHANGED <<path, upsets>>
  PROVE  SerialInv'
  <1>1. cfg' = [v \in Web |-> cfg'[v]] /\ fd' = [v \in Web |-> fd'[v]]
    BY DEF SerialInv, Functional, End
  <1> QED
    BY <1>1, OutsideSerial DEF End

LEMMA EditsSerial ==
  ASSUME NEW w \in Web, SerialInv,
         \/ AddNode(w) \/ ImportLink(w) \/ Push(w) \/ UpdateNode(w) \/ Replace(w)
         \/ RemoveNode(w) \/ Erase(w) \/ NotFound(w) \/ Reorder(w) \/ SetActive(w)
         \/ RollBack(w) \/ NothingToUndo(w)
  PROVE  SerialInv'
  <1>0. cfg = [v \in Web |-> cfg[v]] /\ fd = [v \in Web |-> fd[v]]
    BY DEF SerialInv, Functional
  <1>1. CASE \/ AddNode(w) \/ ImportLink(w) \/ UpdateNode(w) \/ RemoveNode(w)
             \/ SetActive(w)
    <2>1. UNCHANGED <<path, cfg, fd>>
      BY <1>1 DEF AddNode, ImportLink, UpdateNode, RemoveNode, SetActive, disk
    <2>2. ASSUME NEW kind, NEW tag, NEW body, NEW to \in {"push", "replace", "erase", "save"},
                 Begin(w, kind, tag, body, to)
          PROVE  SerialInv'
      BY <2>1, <2>2, BeginSerial
    <2>3. CASE AddNode(w)
      <3>1. PICK n : Begin(w, "add", NoTag, n, "push")
        BY <2>3 DEF AddNode
      <3> QED BY <2>2, <3>1
    <2>4. CASE ImportLink(w)
      <3>1. PICK n : Begin(w, "import", NoTag, n, "push")
        BY <2>4 DEF ImportLink
      <3> QED BY <2>2, <3>1
    <2>5. CASE UpdateNode(w)
      <3>1. PICK old, n : Begin(w, "update", old, n, "replace")
        BY <2>5 DEF UpdateNode
      <3> QED BY <2>2, <3>1
    <2>6. CASE RemoveNode(w)
      <3>1. PICK t : Begin(w, "remove", t, Ghost, "erase")
        BY <2>6 DEF RemoveNode
      <3> QED BY <2>2, <3>1
    <2>7. CASE SetActive(w)
      <3>1. Begin(w, "apply", NoTag, Ghost, "save")
        BY <2>7 DEF SetActive
      <3> QED BY <2>2, <3>1
    <2> QED
      BY <1>1, <2>3, <2>4, <2>5, <2>6, <2>7
  <1>2. CASE Push(w) \/ Replace(w) \/ Erase(w)
    <2>1. /\ at[w] # "idle" /\ at' = [at EXCEPT ![w] = "save"]
          /\ UNCHANGED <<path, cfg, fd, upsets>>
      BY <1>2 DEF Push, Replace, Erase, disk
    <2> QED
      BY <1>0, <2>1, OutsideSerial
  <1>3. CASE NotFound(w) \/ RollBack(w) \/ NothingToUndo(w)
    <2>1. at[w] # "idle" /\ End(w) /\ UNCHANGED <<path, upsets>>
      BY <1>3 DEF NotFound, RollBack, NothingToUndo, disk
    <2> QED
      BY <2>1, EndSerial
  <1>4. CASE Reorder(w)
    <2>1. /\ at' = [at EXCEPT ![w] = "idle"]
          /\ UNCHANGED <<at, path, cfg, fd>>
      BY <1>4 DEF Reorder, SerialInv, Functional, disk
    <2>2. UNCHANGED upsets \/ Upset("overlap")
      BY <1>4 DEF Reorder
    <2>3. Functional' /\ (Serial' => Serial /\ Alone(w))
      BY <1>4, <2>1, <2>2, MishapsStay DEF Reorder, SerialInv, Functional, Alone, Mishaps
    <2>4. Serial' => Sound(path)'
      BY <2>1, <2>2, <2>3, MishapsStay DEF SerialInv, Functional, OneAtATime, Sound, Mishaps
    <2> QED
      BY <2>1, <2>3, <2>4, SerialStep
  <1> QED
    BY <1>1, <1>2, <1>3, <1>4

LEMMA SaveSerial ==
  ASSUME NEW w \in Web, SerialInv, ConfigsAreWhole,
         \/ Upload(w) \/ Build(w) \/ OpenTmp(w) \/ OpenFails(w) \/ Write(w)
         \/ WriteShort(w) \/ Rename(w) \/ RenameFails(w)
  PROVE  SerialInv'
  <1>0. /\ cfg = [v \in Web |-> cfg[v]] /\ fd = [v \in Web |-> fd[v]]
        /\ at \in [Web -> Locations] /\ upsets \in [Mishaps -> Nat]
        /\ Serial => OneAtATime
    BY DEF SerialInv, Functional
  <1>1. CASE Upload(w)
    <2>1. UNCHANGED path /\ at' = [at EXCEPT ![w] = "built"]
          /\ \E m \in Mishaps : Upset(m) /\ ((\E v \in Web : at[v] # "idle") => m = "overlap")
      BY <1>1 DEF Upload, disk, Mishaps
    <2>2. Functional' /\ (Serial' => Serial /\ Alone(w))
      BY <1>0, <1>1, <2>1, MishapsStay DEF Upload, Functional, Locations, Alone
    <2>3. Serial' => Sound(path)' /\ Whole(cfg'[w])
      BY <1>0, <1>1, <2>1, <2>2, MishapsStay DEF Upload, OneAtATime, Sound, ConfigsAreWhole
    <2> QED
      BY <2>1, <2>2, <2>3, SerialStep
  <1>7. CASE WriteShort(w)
    <2>1. /\ Upset("cut") /\ "cut" \in Mishaps /\ UNCHANGED <<cfg, fd>>
          /\ at[w] = "open" /\ at' = [at EXCEPT ![w] = "written"]
      BY <1>7 DEF WriteShort, Mishaps
    <2>2. Functional' /\ (Serial' => Serial) /\ upsets'["cut"] # 0
      <3>1. upsets'["cut"] = upsets["cut"] + 1 /\ upsets["cut"] \in Nat
        BY <1>0, <2>1 DEF Upset
      <3> QED
        BY <1>0, <2>1, <3>1, MishapsStay DEF Functional, Locations
    <2>3. ASSUME Serial' PROVE Sound(path)' /\ fd'[w] = "tmp" /\ Sound(tmp)'
      <3>1. Sound(path) /\ fd[w] = "tmp"
        BY <1>0, <2>1, <2>2, <2>3 DEF OneAtATime
      <3>2. tmp' = Torn /\ path' = path
        BY <1>7, <3>1 DEF WriteShort, Put
      <3> QED
        BY <2>1, <2>2, <3>1, <3>2 DEF Sound
    <2> QED
      BY <2>1, <2>2, <2>3, SerialStep
  <1>2. CASE Build(w)
    <2>1. Functional' /\ UNCHANGED <<path, upsets>>
      BY <1>0, <1>2 DEF Build, Functional, Locations, disk
    <2>2. Whole(cfg'[w])
      BY <1>0, <1>2 DEF Build, build_full_config, ConfigsAreWhole
    <2> QED
      BY <1>0, <1>2, <2>1, <2>2, SerialStep DEF Build, Serial, OneAtATime, Sound
  <1>3. CASE OpenTmp(w)
    <2>1. Functional' /\ UNCHANGED <<path, cfg, upsets>> /\ fd'[w] = "tmp" /\ tmp' = Empty
      BY <1>0, <1>3 DEF OpenTmp, Functional, Locations
    <2> QED
      BY <1>0, <1>3, <2>1, SerialStep DEF OpenTmp, Serial, OneAtATime, Sound
  <1>4. CASE Write(w)
    <2>1. Functional' /\ UNCHANGED <<cfg, fd, upsets>> /\ at[w] = "open"
          /\ at' = [at EXCEPT ![w] = "written"]
      BY <1>0, <1>4 DEF Write, Functional, Locations
    <2>2. ASSUME Serial PROVE Sound(path)' /\ fd'[w] = "tmp" /\ Sound(tmp)'
      <3>1. Sound(path) /\ Whole(cfg[w]) /\ fd[w] = "tmp" /\ tmp = Empty
        BY <1>0, <2>1, <2>2 DEF OneAtATime
      <3>2. tmp' = cfg[w] /\ path' = path
        BY <1>4, <3>1 DEF Write, Put
      <3> QED
        BY <2>1, <3>1, <3>2 DEF Sound
    <2> QED
      BY <2>1, <2>2, SerialStep DEF Serial
  <1>5. CASE Rename(w)
    <2>1. Functional' /\ UNCHANGED upsets /\ at[w] = "written" /\ path' = tmp
          /\ at' = [at EXCEPT ![w] = "idle"]
      BY <1>0, <1>5 DEF Rename, Functional, Locations
    <2> QED
      BY <1>0, <2>1, SerialStep DEF Serial, OneAtATime, Sound
  <1>6. CASE OpenFails(w) \/ RenameFails(w)
    <2>1. /\ at[w] # "idle" /\ at' = [at EXCEPT ![w] = "failed"]
          /\ cfg' = [v \in Web |-> cfg'[v]] /\ fd' = [v \in Web |-> fd'[v]]
          /\ UNCHANGED <<path, upsets>>
      BY <1>0, <1>6 DEF OpenFails, RenameFails, disk
    <2> QED
      BY <2>1, OutsideSerial
  <1> QED
    BY <1>1, <1>2, <1>3, <1>4, <1>5, <1>6, <1>7

LEMMA SerialNext ==
  ASSUME ConfigsAreWhole, SerialInv, [Next]_vars
  PROVE  SerialInv'
  <1>1. CASE UNCHANGED vars
    BY <1>1 DEF vars, SerialInv, Functional, OneAtATime, Serial, Alone, Sound
  <1>2. CASE Restart
    BY <1>2 DEF Restart, SerialInv, Functional, OneAtATime, Serial, Alone, Locations, Sound
  <1>3. ASSUME NEW w \in Web, WebStep(w) PROVE SerialInv'
    BY <1>3, EditsSerial, SaveSerial DEF WebStep
  <1> QED
    BY <1>1, <1>2, <1>3 DEF Next

\* Edits and uploads that come one after the other never leave an empty file
\* under the configuration's name, and half a configuration only if a write was
\* cut short: not when a file cannot be opened or renamed, and not wherever the
\* program dies; provided a configuration can be told from a file that is empty
\* or torn.
THEOREM FileStaysWhole == ASSUME ConfigsAreWhole PROVE Spec => []FileAlwaysComplete
  <1>1. Init => SerialInv
    BY SerialInit
  <1>2. SerialInv /\ [Next]_vars => SerialInv'
    BY SerialNext
  <1>3. SerialInv => FileAlwaysComplete
    BY DEF SerialInv, OneAtATime, Sound, Whole, FileAlwaysComplete, ConfigsAreWhole
  <1> QED
    BY <1>1, <1>2, <1>3, PTL DEF Spec

-----------------------------------------------------------------------------
(* The node list *)

Node == [tag : Tags \cup {NoTag}, body : Bodies \cup {Blank}]

\* No two nodes share a tag.
Distinct(s) == \A i, j \in DOMAIN s : s[i].tag = s[j].tag => i = j

\* No two nodes share a tag, but for those without one.
NamedDistinct(s) ==
  \A i, j \in DOMAIN s : s[i].tag = s[j].tag /\ s[i].tag # NoTag => i = j

\* The first node of a tag, if there is one.
LEMMA PositionFirst ==
  ASSUME NEW s \in Seq(Node), NEW t
  PROVE  /\ Position(s, t) \in 0..Len(s)
         /\ Position(s, t) # 0 <=> HasTag(s, t)
         /\ Position(s, t) # 0 => Position(s, t) \in DOMAIN s /\ s[Position(s, t)].tag = t
<1> DEFINE I == {i \in 1..Len(s) : s[i].tag = t}
<1>0. Len(s) \in Nat /\ DOMAIN s = 1..Len(s)
  OBVIOUS
<1>1. Position(s, t) = IF I # {} THEN Min(I) ELSE 0
  BY DEF Position, SelectInSeq
<1>2. I # {} <=> HasTag(s, t)
  BY <1>0 DEF HasTag
<1>3. ASSUME I # {} PROVE Min(I) \in I
  <2>1. \E m \in I : \A j \in I : m <= j
    <3>1. I \in SUBSET Nat
      OBVIOUS
    <3> HIDE DEF I
    <3> QED BY <1>3, <3>1, Least
  <2> HIDE DEF I
  <2> QED BY <2>1 DEF Min
<1>4. CASE I = {}
  BY <1>0, <1>1, <1>2, <1>4
<1>5. CASE I # {}
  <2>1. Position(s, t) \in I
    BY <1>1, <1>3, <1>5
  <2>2. Position(s, t) \in 1..Len(s) /\ s[Position(s, t)].tag = t
    BY <2>1
  <2> QED BY <1>0, <1>2, <1>5, <2>2
<1> QED BY <1>4, <1>5

\* An emptied place holds a node.
LEMMA GhostIsNode == Ghost \in Node
BY DEF Ghost, Node

\* Another node at the end.
LEMMA AppendNode ==
  ASSUME NEW s \in Seq(Node), NEW n \in Node
  PROVE  /\ Append(s, n) \in Seq(Node) /\ Append(s, n) # <<>>
         /\ Last(Append(s, n)) = n /\ Front(Append(s, n)) = s
         /\ Distinct(s) /\ ~HasTag(s, n.tag) => Distinct(Append(s, n))
         /\ Named(Append(s, n)) = Named(s) \cup (IF n.tag = NoTag THEN {} ELSE {n})
<1> DEFINE a == Append(s, n)
<1>1. /\ a \in Seq(Node) /\ Len(a) = Len(s) + 1 /\ Len(s) \in Nat /\ a[Len(s) + 1] = n
      /\ \A i \in 1..Len(s) : a[i] = s[i]
  OBVIOUS
<1>2. Front(a) = s
  BY DEF Front
<1>3. DOMAIN a = 1..(Len(s) + 1) /\ DOMAIN s = 1..Len(s)
  OBVIOUS
<1> HIDE DEF a
<1>4. ASSUME Distinct(s), ~HasTag(s, n.tag) PROVE Distinct(a)
  <2>1. \A i \in 1..Len(s) : s[i].tag # n.tag
    BY <1>3, <1>4 DEF HasTag
  <2> SUFFICES ASSUME NEW i \in 1..(Len(s) + 1), NEW j \in 1..(Len(s) + 1), a[i].tag = a[j].tag
               PROVE  i = j
    BY <1>3 DEF Distinct
  <2>2. CASE i = Len(s) + 1 \/ j = Len(s) + 1
    BY <1>1, <2>1, <2>2
  <2>3. CASE i \in 1..Len(s) /\ j \in 1..Len(s)
    BY <1>1, <1>3, <1>4, <2>3 DEF Distinct
  <2> QED BY <1>1, <2>2, <2>3
<1>5. Named(a) = Named(s) \cup (IF n.tag = NoTag THEN {} ELSE {n})
  <2>1. ASSUME NEW x \in Named(a) PROVE x \in Named(s) \cup (IF n.tag = NoTag THEN {} ELSE {n})
    <3>1. PICK i \in 1..(Len(s) + 1) : x = a[i] /\ a[i].tag # NoTag
      BY <1>3 DEF Named
    <3>2. CASE i = Len(s) + 1 BY <1>1, <3>1, <3>2
    <3>3. CASE i \in 1..Len(s) BY <1>1, <1>3, <3>1, <3>3 DEF Named
    <3> QED BY <1>1, <3>2, <3>3
  <2>2. ASSUME NEW x \in Named(s) PROVE x \in Named(a)
    <3>1. PICK i \in 1..Len(s) : x = s[i] /\ s[i].tag # NoTag
      BY <1>3 DEF Named
    <3> QED BY <1>1, <1>3, <3>1 DEF Named
  <2>3. n.tag # NoTag => n \in Named(a)
    BY <1>1, <1>3 DEF Named
  <2> QED BY <2>1, <2>2, <2>3
<1>6. Last(a) = n
  BY <1>1 DEF Last
<1> QED BY <1>1, <1>2, <1>4, <1>5, <1>6 DEF a

\* Another node in the place of one.
LEMMA ReplaceNode ==
  ASSUME NEW s \in Seq(Node), NEW i \in DOMAIN s, NEW n \in Node
  PROVE  /\ [s EXCEPT ![i] = n] \in Seq(Node)
         /\ DOMAIN [s EXCEPT ![i] = n] = DOMAIN s
         /\ [s EXCEPT ![i] = n][i] = n
         /\ \A j \in DOMAIN s : j # i => [s EXCEPT ![i] = n][j] = s[j]
         /\ [[s EXCEPT ![i] = n] EXCEPT ![i] = s[i]] = s
         /\ Distinct(s) /\ (\A j \in DOMAIN s : s[j].tag = n.tag => j = i)
              => Distinct([s EXCEPT ![i] = n])
<1>0. Len(s) \in Nat /\ DOMAIN s = 1..Len(s)
  OBVIOUS
<1> DEFINE a == [s EXCEPT ![i] = n]
<1>1. a \in Seq(Node) /\ DOMAIN a = DOMAIN s /\ a[i] = n /\ \A j \in DOMAIN s : j # i => a[j] = s[j]
  OBVIOUS
<1>2. [a EXCEPT ![i] = s[i]] = s
  <2> DEFINE b == [a EXCEPT ![i] = s[i]]
  <2>1. b = [j \in DOMAIN a |-> b[j]] /\ s = [j \in DOMAIN s |-> s[j]]
    OBVIOUS
  <2>2. \A j \in DOMAIN s : b[j] = s[j]
    <3> HIDE DEF a
    <3> QED BY <1>1
  <2> HIDE DEF b
  <2>3. b = s
    <3> HIDE DEF a
    <3> QED BY <1>1, <2>1, <2>2
  <2> QED BY <2>3 DEF b
<1> HIDE DEF a
<1>3. ASSUME Distinct(s), \A j \in DOMAIN s : s[j].tag = n.tag => j = i
      PROVE  Distinct(a)
  BY <1>1, <1>3 DEF Distinct
<1> QED BY <1>1, <1>2, <1>3 DEF a

\* One node less, and the same one at the end.
LEMMA RemoveNodeAt ==
  ASSUME NEW s \in Seq(Node), NEW i \in DOMAIN s, Distinct(s)
  PROVE  /\ RemoveAt(s, i) \in Seq(Node)
         /\ Distinct(RemoveAt(s, i)) /\ ~HasTag(RemoveAt(s, i), s[i].tag)
         /\ Named(RemoveAt(s, i)) \cup (IF s[i].tag = NoTag THEN {} ELSE {s[i]}) = Named(s)
<1> DEFINE a == RemoveAt(s, i)
<1>0. Len(s) \in Nat /\ DOMAIN s = 1..Len(s) /\ i \in 1..Len(s) /\ i \in Int
  OBVIOUS
<1>1. /\ a \in Seq(Node) /\ Len(a) = Len(s) - 1
      /\ \A j \in 1..Len(a) : a[j] = IF j < i THEN s[j] ELSE s[j + 1]
  <2>1. /\ SubSeq(s, 1, i - 1) \in Seq(Node) /\ Len(SubSeq(s, 1, i - 1)) = i - 1
        /\ \A j \in 1..(i - 1) : SubSeq(s, 1, i - 1)[j] = s[j]
    BY <1>0
  <2>2. /\ SubSeq(s, i + 1, Len(s)) \in Seq(Node) /\ Len(SubSeq(s, i + 1, Len(s))) = Len(s) - i
        /\ \A j \in 1..(Len(s) - i) : SubSeq(s, i + 1, Len(s))[j] = s[i + j]
    BY <1>0
  <2> DEFINE x == SubSeq(s, 1, i - 1)
  <2> DEFINE y == SubSeq(s, i + 1, Len(s))
  <2>3. a = x \o y
    BY DEF RemoveAt
  <2> HIDE DEF x, y, a
  <2>4. x \in Seq(Node) /\ y \in Seq(Node) /\ Len(x) = i - 1 /\ Len(y) = Len(s) - i
    BY <2>1, <2>2 DEF x, y
  <2>0. /\ x \o y \in Seq(Node) /\ Len(x \o y) = Len(x) + Len(y)
        /\ \A j \in 1..(Len(x) + Len(y)) :
             (x \o y)[j] = IF j <= Len(x) THEN x[j] ELSE y[j - Len(x)]
    BY <2>4
  <2>5. Len(x) + Len(y) = Len(s) - 1
    <3>1. (i - 1) + (Len(s) - i) = Len(s) - 1
      BY <1>0
    <3> QED BY <2>4, <3>1
  <2>6. a \in Seq(Node) /\ Len(a) = Len(s) - 1
    BY <2>0, <2>3, <2>5
  <2>7. ASSUME NEW j \in 1..(Len(s) - 1) PROVE a[j] = IF j < i THEN s[j] ELSE s[j + 1]
    <3>1. CASE j < i
      <4>1. j \in 1..(i - 1) /\ j <= Len(x)
        BY <1>0, <2>4, <3>1
      <4>2. j \in 1..(Len(x) + Len(y))
        BY <2>5
      <4>3. (x \o y)[j] = x[j]
        BY <2>0, <4>1, <4>2
      <4>4. x[j] = s[j]
        BY <2>1, <4>1 DEF x
      <4> QED BY <2>3, <3>1, <4>3, <4>4
    <3>2. CASE ~(j < i)
      <4>1. j - (i - 1) \in 1..(Len(s) - i) /\ i + (j - (i - 1)) = j + 1 /\ j > Len(x)
        BY <1>0, <2>4, <3>2
      <4>2. j \in 1..(Len(x) + Len(y)) /\ ~(j <= Len(x))
        <5>1. j \in 1..(Len(x) + Len(y))
          BY <2>5
        <5>2. ~(j <= Len(x))
          BY <2>4, <4>1
        <5> QED BY <5>1, <5>2
      <4>3. (x \o y)[j] = y[j - Len(x)]
        BY <2>0, <4>2
      <4>4. y[j - (i - 1)] = s[j + 1]
        BY <2>2, <4>1 DEF y
      <4> QED BY <2>3, <2>4, <3>2, <4>3, <4>4
    <3> QED BY <3>1, <3>2
  <2> QED BY <2>7, <2>6
<1> HIDE DEF a
<1>2. DOMAIN a = 1..(Len(s) - 1)
  BY <1>1
<1> DEFINE from == [j \in DOMAIN a |-> IF j < i THEN j ELSE j + 1]
<1>3. /\ \A j \in DOMAIN a : from[j] \in DOMAIN s /\ from[j] # i /\ a[j] = s[from[j]]
      /\ \A j, k \in DOMAIN a : from[j] = from[k] => j = k
  BY <1>0, <1>1, <1>2
<1>4. \A k \in DOMAIN s : k # i => \E j \in DOMAIN a : from[j] = k
  <2> SUFFICES ASSUME NEW k \in DOMAIN s, k # i PROVE \E j \in DOMAIN a : from[j] = k
    OBVIOUS
  <2>1. CASE k < i
    <3>1. k \in DOMAIN a /\ from[k] = k
      BY <1>0, <1>2, <2>1
    <3> QED BY <3>1
  <2>2. CASE k > i
    <3>1. k - 1 \in DOMAIN a /\ ~(k - 1 < i) /\ (k - 1) + 1 = k
      BY <1>0, <1>2, <2>2
    <3>2. from[k - 1] = k
      BY <3>1
    <3> QED BY <3>1, <3>2
  <2> QED BY <1>0, <2>1, <2>2
<1> HIDE DEF from
<1>5. Distinct(a)
  BY <1>3 DEF Distinct
<1>6. ~HasTag(a, s[i].tag)
  BY <1>3 DEF Distinct, HasTag
<1>7. \A x : x \in Named(a) \cup (IF s[i].tag = NoTag THEN {} ELSE {s[i]}) <=> x \in Named(s)
  <2>1. ASSUME NEW x \in Named(a) PROVE x \in Named(s)
    BY <1>3 DEF Named
  <2>2. s[i].tag # NoTag => s[i] \in Named(s)
    BY DEF Named
  <2>3. ASSUME NEW x \in Named(s), x # s[i] PROVE x \in Named(a)
    <3>1. PICK k \in DOMAIN s : x = s[k] /\ s[k].tag # NoTag
      BY DEF Named
    <3>2. PICK j \in DOMAIN a : from[j] = k
      BY <1>4, <2>3, <3>1
    <3> QED BY <1>3, <3>1, <3>2 DEF Named
  <2>4. s[i] \in Named(s) => s[i].tag # NoTag
    BY DEF Named
  <2> QED BY <2>1, <2>2, <2>3, <2>4
<1> QED BY <1>1, <1>5, <1>6, <1>7 DEF a

-----------------------------------------------------------------------------
\* The nodes that were moved to the front and what the old list still holds:
\* together the named nodes of s, and each of them once.
Accounts == [front : Seq(Node), rest : Seq(Node)]

Moved(acc, s) ==
  /\ Distinct(acc.front) /\ ~HasTag(acc.front, NoTag)
  /\ NamedDistinct(acc.rest)
  /\ \A i \in DOMAIN acc.front : ~HasTag(acc.rest, acc.front[i].tag)
  /\ Named(acc.front) \cup Named(acc.rest) = Named(s)

\* One tag of the new order, whether a node has it or not.
LEMMA MoveKeeps ==
  ASSUME NEW s \in Seq(Node), NEW acc \in Accounts, Moved(acc, s), NEW t \in Tags
  PROVE  Move(acc, t) \in Accounts /\ Moved(Move(acc, t), s)
<1> DEFINE i == Position(acc.rest, t)
<1> DEFINE front == Append(acc.front, acc.rest[i])
<1> DEFINE rest == [acc.rest EXCEPT ![i] = Ghost]
<1>0. acc.front \in Seq(Node) /\ acc.rest \in Seq(Node) /\ NoTag \notin Tags
  BY NodeAssumption DEF Accounts
<1>1. CASE i = 0
  BY <1>1 DEF Move
<1>2. CASE i # 0
  <2>1. Move(acc, t) = [front |-> front, rest |-> rest]
    BY <1>2 DEF Move
  <2>2. i \in DOMAIN acc.rest /\ acc.rest[i].tag = t
    BY <1>0, <1>2, PositionFirst
  <2>3. acc.rest[i] \in Node /\ acc.rest[i].tag # NoTag
    BY <1>0, <2>2
  <2> DEFINE n == acc.rest[i]
  <2> HIDE DEF i, n
  <2>4. ~HasTag(acc.front, n.tag)
    BY <2>2 DEF Moved, HasTag, n
  <2>5. /\ front \in Seq(Node) /\ Distinct(front) /\ Named(front) = Named(acc.front) \cup {n}
    BY <1>0, <2>3, <2>4, AppendNode DEF Moved, n
  <2>6. /\ rest \in Seq(Node) /\ DOMAIN rest = DOMAIN acc.rest /\ rest[i] = Ghost
        /\ \A j \in DOMAIN acc.rest : j # i => rest[j] = acc.rest[j]
    BY <1>0, <2>2, ReplaceNode, GhostIsNode
  <2>7. DOMAIN front = 1..(Len(acc.front) + 1) /\ DOMAIN acc.front = 1..Len(acc.front)
        /\ Len(acc.front) \in Nat
        /\ front[Len(acc.front) + 1] = n /\ \A j \in 1..Len(acc.front) : front[j] = acc.front[j]
    BY <1>0 DEF n
  <2> HIDE DEF front, rest
  <2>8. ~HasTag(front, NoTag)
    BY <2>3, <2>7 DEF Moved, HasTag, n
  <2>9. NamedDistinct(rest)
    BY <2>6 DEF Moved, NamedDistinct, Ghost
  <2>10. ASSUME NEW j \in DOMAIN front PROVE ~HasTag(rest, front[j].tag)
    <3>1. front[j].tag # NoTag
      BY <2>8 DEF HasTag
    <3>2. CASE j \in DOMAIN acc.front
      BY <2>6, <2>7, <3>1, <3>2 DEF Moved, HasTag, Ghost
    <3>3. CASE j = Len(acc.front) + 1
      <4>1. \A k \in DOMAIN acc.rest : acc.rest[k].tag = n.tag => k = i
        BY <2>2, <2>3 DEF Moved, NamedDistinct, n
      <4> QED BY <2>3, <2>6, <2>7, <3>1, <3>3, <4>1 DEF HasTag, Ghost
    <3> QED BY <2>7, <3>2, <3>3
  <2>11. Named(front) \cup Named(rest) = Named(s)
    <3>1. ASSUME NEW x \in Named(rest) PROVE x \in Named(acc.rest)
      BY <2>6 DEF Named, Ghost
    <3>2. ASSUME NEW x \in Named(acc.rest), x # n PROVE x \in Named(rest)
      BY <2>6, <3>2 DEF Named, n
    <3>3. n \in Named(acc.rest)
      BY <2>2, <2>3 DEF Named, n
    <3> QED BY <2>5, <3>1, <3>2, <3>3 DEF Moved
  <2>12. Move(acc, t) \in Accounts
    BY <2>1, <2>5, <2>6 DEF Accounts
  <2>13. Move(acc, t).front = front /\ Move(acc, t).rest = rest
    BY <2>1
  <2> QED BY <2>5, <2>8, <2>9, <2>10, <2>11, <2>12, <2>13 DEF Moved
<1> QED BY <1>1, <1>2

\* The whole of the new order.
LEMMA MoveToFront ==
  ASSUME NEW s \in Seq(Node), Distinct(s), NEW order \in Seq(Tags)
  PROVE  move_to_front(s, order) \in Accounts /\ Moved(move_to_front(s, order), s)
<1> DEFINE n == Len(order)
<1> DEFINE A == {acc \in Accounts : Moved(acc, s)}
<1> DEFINE a == [front |-> <<>>, rest |-> s]
<1> DEFINE e == [k \in 1..n |-> [acc \in A |-> Move(acc, order[k])]]
<1> DEFINE Rec(f) == [k \in 0..n |-> IF k = 0 THEN a ELSE Move(f[k - 1], order[k])]
<1>1. n \in Nat /\ \A k \in 1..n : order[k] \in Tags
  OBVIOUS
<1>2. a \in A
  <2>1. a \in Accounts
    BY DEF Accounts
  <2>2. Moved(a, s)
    BY DEF Moved, Distinct, NamedDistinct, HasTag, Named
  <2> QED BY <2>1, <2>2
<1>3. ASSUME NEW k \in 1..n, NEW acc \in A PROVE Move(acc, order[k]) \in A /\ e[k][acc] \in A
  <2>1. Move(acc, order[k]) \in A
    BY <1>1, MoveKeeps
  <2> QED BY <2>1
<1>4. PICK f \in [0..n -> A] : StartsAndSteps(f, n, a, e)
  <2> HIDE DEF n, A, a, e
  <2> QED BY <1>1, <1>2, <1>3, RecursionExists
<1>5. f = Rec(f)
  <2>1. \A k \in 1..n : f[k] = Move(f[k - 1], order[k])
    <3> SUFFICES ASSUME NEW k \in 1..n PROVE f[k] = Move(f[k - 1], order[k])
      OBVIOUS
    <3>1. f[k - 1] \in A
      <4> HIDE DEF A, n
      <4> QED BY <1>1
    <3>2. f[k] = e[k][f[k - 1]]
      <4> HIDE DEF A, n, e, a
      <4> QED BY <1>4 DEF StartsAndSteps
    <3>3. e[k][f[k - 1]] = Move(f[k - 1], order[k])
      <4> HIDE DEF A, n
      <4> QED BY <3>1
    <3> QED BY <3>2, <3>3
  <2>2. f[0] = a
    <3> HIDE DEF A, n, e, a
    <3> QED BY <1>4 DEF StartsAndSteps
  <2> HIDE DEF A, n, e, a
  <2> QED BY <1>1, <2>1, <2>2
<1> DEFINE g == CHOOSE h : h = Rec(h)
<1>6. g = Rec(g)
  <2> HIDE DEF Rec
  <2> QED BY <1>5
<1>7. move_to_front(s, order) = g[n]
  BY DEF move_to_front
<1>8. \A k \in 0..n : g[k] = IF k = 0 THEN a ELSE Move(g[k - 1], order[k])
  <2> HIDE DEF g, n, a
  <2> QED BY <1>6
<1> DEFINE S == [k \in 0..n |-> A]
<1>9. \A k \in 0..n : g[k] \in S[k]
  <2>1. g[0] \in S[0]
    <3> HIDE DEF g, n, a, A
    <3> QED BY <1>1, <1>2, <1>8
  <2>2. ASSUME NEW k \in 1..n, g[k - 1] \in S[k - 1] PROVE g[k] \in S[k]
    <3> HIDE DEF g, n, a, A
    <3>1. g[k - 1] \in A /\ g[k] = Move(g[k - 1], order[k])
      BY <1>1, <1>8, <2>2
    <3> QED BY <1>1, <1>3, <3>1
  <2> HIDE DEF g, n, S
  <2> QED BY <1>1, <2>1, <2>2, StaysIn
<1>10. g[n] \in A
  <2> HIDE DEF g, A, n
  <2> QED BY <1>1, <1>9
<1> HIDE DEF g, n
<1> QED BY <1>7, <1>10

\* What is appended after k nodes of the old list.
AppendedAfter(k, front, rest, now) ==
  /\ Distinct(now)
  /\ \A x : x \in Named(now) <=>
              \/ x \in Named(front)
              \/ \E i \in 1..k : x = rest[i] /\ rest[i].tag # NoTag

\* One node of the old list: it is appended unless its tag is there, which for a
\* named node means that it was appended or moved itself.
LEMMA AppendKeeps ==
  ASSUME NEW s \in Seq(Node), NEW acc \in Accounts, Moved(acc, s),
         NEW k \in 1..Len(acc.rest), NEW now \in Seq(Node),
         AppendedAfter(k - 1, acc.front, acc.rest, now)
  PROVE  AppendedAfter(k, acc.front, acc.rest,
                       IF HasTag(now, acc.rest[k].tag) THEN now ELSE Append(now, acc.rest[k]))
<1> DEFINE n == acc.rest[k]
<1>0. acc.front \in Seq(Node) /\ acc.rest \in Seq(Node) /\ n \in Node
      /\ k \in Nat /\ k - 1 \in Nat /\ DOMAIN acc.rest = 1..Len(acc.rest) /\ Len(acc.rest) \in Nat
      /\ \A i \in 1..(k - 1) : i \in DOMAIN acc.rest /\ i # k
  BY DEF Accounts
<1>1. \A x : (\E i \in 1..k : x = acc.rest[i] /\ acc.rest[i].tag # NoTag)
         <=> \/ \E i \in 1..(k - 1) : x = acc.rest[i] /\ acc.rest[i].tag # NoTag
             \/ x = n /\ n.tag # NoTag
  BY <1>0
<1> HIDE DEF n
<1>2. CASE HasTag(now, n.tag)
  <2>1. n.tag # NoTag => n \in Named(now)
    <3> SUFFICES ASSUME n.tag # NoTag PROVE n \in Named(now)
      OBVIOUS
    <3>1. PICK i \in DOMAIN now : now[i].tag = n.tag
      BY <1>2 DEF HasTag
    <3>2. now[i] \in Named(now)
      BY <3>1 DEF Named
    <3>3. CASE now[i] \in Named(acc.front)
      <4>1. PICK j \in DOMAIN acc.front : now[i] = acc.front[j]
        BY <3>3 DEF Named
      <4> QED BY <1>0, <3>1, <4>1 DEF Moved, HasTag, n
    <3>4. ASSUME NEW j \in 1..(k - 1), now[i] = acc.rest[j] PROVE FALSE
      BY <1>0, <3>1, <3>4 DEF Moved, NamedDistinct, n
    <3> QED BY <3>2, <3>3, <3>4 DEF AppendedAfter
  <2> QED BY <1>1, <1>2, <2>1 DEF AppendedAfter, n
<1>3. CASE ~HasTag(now, n.tag)
  <2>1. /\ Distinct(Append(now, n))
        /\ Named(Append(now, n)) = Named(now) \cup (IF n.tag = NoTag THEN {} ELSE {n})
    BY <1>0, <1>3, AppendNode DEF AppendedAfter
  <2> QED BY <1>1, <1>3, <2>1 DEF AppendedAfter, n
<1> QED BY <1>2, <1>3

\* The whole of the old list.
LEMMA AppendRest ==
  ASSUME NEW s \in Seq(Node), NEW acc \in Accounts, Moved(acc, s)
  PROVE  /\ append_rest(acc.front, acc.rest) \in Seq(Node)
         /\ Distinct(append_rest(acc.front, acc.rest))
         /\ Named(append_rest(acc.front, acc.rest)) = Named(s)
<1> DEFINE n == Len(acc.rest)
<1> DEFINE A == Seq(Node)
<1> DEFINE a == acc.front
<1> DEFINE Keep(now, k) == IF HasTag(now, acc.rest[k].tag) THEN now ELSE Append(now, acc.rest[k])
<1> DEFINE e == [k \in 1..n |-> [now \in A |-> Keep(now, k)]]
<1> DEFINE Rec(f) == [k \in 0..n |-> IF k = 0 THEN a ELSE Keep(f[k - 1], k)]
<1>1. n \in Nat /\ a \in A /\ acc.rest \in Seq(Node) /\ \A k \in 1..n : acc.rest[k] \in Node
  BY DEF Accounts
<1>2. ASSUME NEW k \in 1..n, NEW now \in A PROVE Keep(now, k) \in A /\ e[k][now] = Keep(now, k)
  <2>1. Keep(now, k) \in A
    BY <1>1
  <2> QED BY <2>1
<1>3. PICK f \in [0..n -> A] : StartsAndSteps(f, n, a, e)
  <2>1. \A k \in 1..n : \A now \in A : e[k][now] \in A
    <3> HIDE DEF n, A, a, e, Keep
    <3> QED BY <1>2
  <2> HIDE DEF n, A, a, e, Keep
  <2> QED BY <1>1, <2>1, RecursionExists
<1>4. f = Rec(f)
  <2>1. \A k \in 1..n : f[k - 1] \in A /\ f[k] = Keep(f[k - 1], k)
    <3> SUFFICES ASSUME NEW k \in 1..n PROVE f[k - 1] \in A /\ f[k] = Keep(f[k - 1], k)
      OBVIOUS
    <3>1. f[k - 1] \in A
      <4> HIDE DEF A, n
      <4> QED BY <1>1
    <3>2. f[k] = e[k][f[k - 1]]
      <4> HIDE DEF A, n, e, a
      <4> QED BY <1>3 DEF StartsAndSteps
    <3> HIDE DEF A, n, e, a, Keep
    <3> QED BY <1>2, <3>1, <3>2
  <2>2. f[0] = a
    <3> HIDE DEF A, n, e, a
    <3> QED BY <1>3 DEF StartsAndSteps
  <2> HIDE DEF A, n, e, a, Keep
  <2> QED BY <1>1, <2>1, <2>2
<1> DEFINE g == CHOOSE h : h = Rec(h)
<1>5. g = Rec(g)
  <2> HIDE DEF Rec
  <2> QED BY <1>4
<1>6. append_rest(acc.front, acc.rest) = g[n]
  BY DEF append_rest
<1>7. \A k \in 0..n : g[k] = IF k = 0 THEN a ELSE Keep(g[k - 1], k)
  <2> HIDE DEF g, n, a, Keep
  <2> QED BY <1>5
<1> DEFINE S == [k \in 0..n |-> {now \in A : AppendedAfter(k, acc.front, acc.rest, now)}]
<1>8. \A k \in 0..n : g[k] \in S[k]
  <2>1. g[0] \in S[0]
    <3>1. AppendedAfter(0, acc.front, acc.rest, a)
      BY DEF AppendedAfter, Moved
    <3>2. g[0] = a
      <4> HIDE DEF g, n, a, Keep
      <4> QED BY <1>1, <1>7
    <3> HIDE DEF g, n, a
    <3> QED BY <1>1, <3>1, <3>2
  <2>2. ASSUME NEW k \in 1..n, g[k - 1] \in S[k - 1] PROVE g[k] \in S[k]
    <3>1. g[k - 1] \in A /\ AppendedAfter(k - 1, acc.front, acc.rest, g[k - 1])
      <4> HIDE DEF g, n, A
      <4> QED BY <1>1, <2>2
    <3>2. g[k] = Keep(g[k - 1], k)
      <4> HIDE DEF g, n, a, Keep
      <4> QED BY <1>1, <1>7
    <3>3. AppendedAfter(k, acc.front, acc.rest, Keep(g[k - 1], k))
      <4> HIDE DEF g
      <4> QED BY <3>1, AppendKeeps
    <3> HIDE DEF g, n, Keep, A
    <3> QED BY <1>1, <1>2, <3>1, <3>2, <3>3
  <2> HIDE DEF g, n, S
  <2> QED BY <1>1, <2>1, <2>2, StaysIn
<1>9. g[n] \in A /\ AppendedAfter(n, acc.front, acc.rest, g[n])
  <2> HIDE DEF g, A, n
  <2> QED BY <1>1, <1>8
<1> HIDE DEF g
<1>10. Named(g[n]) = Named(s)
  <2>1. \A x : x \in Named(acc.rest) <=> \E i \in 1..n : x = acc.rest[i] /\ acc.rest[i].tag # NoTag
    BY <1>1 DEF Named
  <2>2. \A x : x \in Named(g[n]) <=> x \in Named(s)
    BY <1>9, <2>1 DEF AppendedAfter, Moved
  <2>3. \A x : x \in Named(g[n]) => x \in Named(s)
    BY <2>2
  <2> QED BY <2>2
<1> QED BY <1>6, <1>9, <1>10 DEF AppendedAfter

\* A reorder loses no named node, brings none back, and doubles none.
LEMMA ReorderKeeps ==
  ASSUME NEW s \in Seq(Node), Distinct(s), NEW order \in Seq(Tags)
  PROVE  /\ reorder_nodes(s, order) \in Seq(Node) /\ Distinct(reorder_nodes(s, order))
         /\ Named(reorder_nodes(s, order)) = Named(s)
BY MoveToFront, AppendRest DEF reorder_nodes

-----------------------------------------------------------------------------
(* The configuration file *)

Configs == [outs : Seq(Node), rules : Seq(Tags \cup {OtherTag})]

\* load_from_config reads back the named nodes.
LEMMA LoadedKeeps ==
  ASSUME NEW c \in Configs, Distinct(c.outs)
  PROVE  /\ LoadedNodes(c) \in Seq(Node) /\ Distinct(LoadedNodes(c))
         /\ Named(LoadedNodes(c)) = Named(c.outs)
<1> DEFINE s == c.outs
<1> DEFINE S == {i \in DOMAIN s : s[i].tag # NoTag}
<1> DEFINE t == Subsequence(s, S)
<1>0. s \in Seq(Node) /\ DOMAIN s = 1..Len(s) /\ Len(s) \in Nat
  BY DEF Configs
<1>1. LoadedNodes(c) = t
  BY DEF LoadedNodes
<1>2. t \in Seq(Node) /\ \E place : Enumerates(place, s, S, Len(s), t)
  <2> HIDE DEF s, S
  <2> QED BY <1>0, SubsequencePlaces
<1> HIDE DEF t
<1>3. PICK place : Enumerates(place, s, S, Len(s), t)
  BY <1>2
<1>9. DOMAIN t = 1..Len(t) /\ Len(t) \in Nat
  BY <1>2
<1>4. /\ \A i \in 1..Len(t) : place[i] \in 1..Len(s) /\ place[i] \in S /\ t[i] = s[place[i]]
      /\ \A i, j \in 1..Len(t) : i < j => place[i] < place[j]
      /\ \A k \in 1..Len(s) : k \in S => \E i \in 1..Len(t) : place[i] = k
  <2> HIDE DEF s, S
  <2> QED BY <1>3 DEF Enumerates
<1>5. Distinct(t)
  <2> SUFFICES ASSUME NEW i \in 1..Len(t), NEW j \in 1..Len(t), t[i].tag = t[j].tag PROVE i = j
    BY <1>9 DEF Distinct
  <2>0. /\ place[i] \in DOMAIN s /\ t[i] = s[place[i]]
        /\ place[j] \in DOMAIN s /\ t[j] = s[place[j]]
    BY <1>0, <1>4
  <2>1. place[i] = place[j]
    BY <2>0 DEF Distinct
  <2>2. place[i] \in Int /\ place[j] \in Int
    BY <1>4
  <2>3. ~(i < j) /\ ~(j < i)
    <3> HIDE DEF s, S
    <3> QED BY <1>4, <2>1, <2>2
  <2> QED BY <1>9, <2>3
<1>6. \A x : x \in Named(t) <=> x \in Named(s)
  <2>1. ASSUME NEW x \in Named(t) PROVE x \in Named(s)
    BY <1>0, <1>4, <1>9 DEF Named
  <2>2. ASSUME NEW x \in Named(s) PROVE x \in Named(t)
    <3>1. PICK k \in 1..Len(s) : x = s[k] /\ s[k].tag # NoTag
      BY <1>0 DEF Named
    <3>2. PICK i \in 1..Len(t) : place[i] = k
      BY <1>0, <1>4, <3>1
    <3> QED BY <1>4, <1>9, <3>1, <3>2 DEF Named
  <2> QED BY <2>1, <2>2
<1> HIDE DEF s
<1>7. Named(t) = Named(s)
  BY <1>6
<1> QED BY <1>1, <1>2, <1>5, <1>7 DEF s

\* The active node that is read back has a tag, or there is none.
LEMMA LoadedActiveTag ==
  ASSUME NEW c \in Configs, Distinct(c.outs)
  PROVE  LoadedActive(c) \in Tags \cup {NoTag}
<1> DEFINE S == {i \in DOMAIN c.rules : c.rules[i] \in VmessTags}
<1> DEFINE vm == Subsequence(c.rules, S)
<1> DEFINE r == c.rules
<1>1. c.rules \in Seq(Tags \cup {OtherTag}) /\ VmessTags \subseteq Tags
  BY NodeAssumption DEF Configs
<1>2. vm # <<>> => \E k \in 1..Len(c.rules) : k \in S /\ vm[1] = c.rules[k]
  <2>1. r \in Seq(Tags \cup {OtherTag})
    BY <1>1
  <2>2. Subsequence(r, S) # <<>> =>
          \E k \in 1..Len(r) : /\ k \in S /\ Subsequence(r, S)[1] = r[k]
                               /\ \A j \in 1..Len(r) : j \in S => k <= j
    <3> HIDE DEF S, r
    <3> QED BY <2>1, SubsequenceFirst
  <2> QED BY <2>2
<1>3. vm # <<>> => vm[1] \in Tags
  <2> HIDE DEF vm
  <2> QED BY <1>1, <1>2
<1>4. LoadedNodes(c) # <<>> => LoadedNodes(c)[1] \in Node
  BY LoadedKeeps
<1>5. LoadedActive(c) = IF vm # <<>> THEN vm[1]
                        ELSE IF LoadedNodes(c) # <<>> THEN LoadedNodes(c)[1].tag ELSE NoTag
  BY DEF LoadedActive
<1> HIDE DEF vm
<1> QED BY <1>3, <1>4, <1>5 DEF Node

\* Whatever rules there were, the rule that is found first is about the active
\* node.
LEMMA BuiltActive ==
  ASSUME NEW rules \in Seq(Tags \cup {OtherTag}), NEW outs \in Seq(Node), NEW tag \in Tags \cup {NoTag}
  PROVE  /\ build_rules(rules, tag) \in Seq(Tags \cup {OtherTag})
         /\ tag \in VmessTags =>
              LoadedActive([outs |-> outs, rules |-> build_rules(rules, tag)]) = tag
<1> DEFINE R == Seq(Tags \cup {OtherTag})
<1> DEFINE b == build_rules(rules, tag)
<1>0. /\ VmessTags \subseteq Tags /\ NoTag \notin Tags /\ MaxRules \in Nat /\ MaxRules > 0
      /\ Len(rules) \in Nat /\ DOMAIN rules = 1..Len(rules)
  BY NodeAssumption
<1>1. CASE tag = NoTag
  BY <1>0, <1>1 DEF build_rules
<1>2. CASE tag # NoTag
  <2>0. tag \in Tags
    BY <1>2
  <2>1. /\ b \in R /\ DOMAIN b = 1..Len(b) /\ Len(b) \in Nat
        /\ \A k \in 1..Len(b) : b[k] \in VmessTags => b[k] = tag \/ \E j \in 1..(k - 1) : b[j] = tag
        /\ \E k \in 1..Len(b) : b[k] = tag
    <3>1. CASE \E i \in DOMAIN rules : rules[i] \in VmessTags
      <4>1. b = [i \in DOMAIN rules |-> IF rules[i] \in VmessTags THEN tag ELSE rules[i]]
        BY <1>2, <3>1 DEF build_rules
      <4>2. b \in R /\ Len(b) = Len(rules)
        BY <1>0, <2>0, <4>1
      <4>3. \A k \in 1..Len(b) : b[k] \in VmessTags => b[k] = tag
        BY <1>0, <4>1, <4>2
      <4>4. \E k \in 1..Len(b) : b[k] = tag
        BY <1>0, <3>1, <4>1, <4>2
      <4> HIDE DEF b
      <4> QED BY <1>0, <4>2, <4>3, <4>4
    <3>2. CASE ~\E i \in DOMAIN rules : rules[i] \in VmessTags
      <4> DEFINE all == <<tag>> \o rules
      <4> DEFINE m == IF Len(all) < MaxRules THEN Len(all) ELSE MaxRules
      <4>1. b = SubSeq(all, 1, m)
        BY <1>2, <3>2 DEF build_rules
      <4>2. /\ all \in R /\ Len(all) = Len(rules) + 1 /\ all[1] = tag
            /\ \A k \in 2..Len(all) : k - 1 \in 1..Len(rules) /\ all[k] = rules[k - 1]
        BY <1>0, <2>0
      <4> HIDE DEF all, b
      <4>3. m \in 1..Len(all)
        BY <1>0, <4>2
      <4> HIDE DEF m
      <4>4. b \in R /\ Len(b) = m /\ \A k \in 1..m : b[k] = all[k]
        BY <4>1, <4>2, <4>3
      <4>5. ASSUME NEW k \in 1..m, k # 1 PROVE b[k] \notin VmessTags
        <5>1. k \in 2..Len(all)
          BY <1>0, <4>2, <4>3, <4>5
        <5> QED BY <1>0, <3>2, <4>2, <4>4, <5>1
      <4>6. b[1] = tag /\ 1 \in 1..m
        BY <1>0, <4>2, <4>3, <4>4
      <4>7. DOMAIN b = 1..Len(b) /\ Len(b) \in Nat
        BY <4>4
      <4> QED BY <4>4, <4>5, <4>6, <4>7
    <3> QED BY <3>1, <3>2
  <2> DEFINE S == {i \in DOMAIN b : b[i] \in VmessTags}
  <2> DEFINE vm == Subsequence(b, S)
  <2>2. LoadedActive([outs |-> outs, rules |-> b]) =
          IF vm # <<>> THEN vm[1]
          ELSE IF LoadedNodes([outs |-> outs, rules |-> b]) # <<>>
               THEN LoadedNodes([outs |-> outs, rules |-> b])[1].tag ELSE NoTag
    BY DEF LoadedActive
  <2>3. /\ vm = <<>> <=> \A k \in 1..Len(b) : k \notin S
        /\ vm # <<>> => \E k \in 1..Len(b) : /\ k \in S /\ vm[1] = b[k]
                                             /\ \A j \in 1..Len(b) : j \in S => k <= j
    <3> HIDE DEF S, b
    <3> QED BY <2>1, SubsequenceFirst
  <2>4. ASSUME tag \in VmessTags PROVE vm # <<>> /\ vm[1] = tag
    <3> HIDE DEF b, vm
    <3>1. PICK i \in 1..Len(b) : b[i] = tag
      BY <2>1
    <3>2. i \in S
      BY <2>1, <2>4, <3>1
    <3>3. vm # <<>>
      BY <2>3, <3>2
    <3>4. PICK k \in 1..Len(b) : k \in S /\ vm[1] = b[k] /\ \A j \in 1..Len(b) : j \in S => k <= j
      BY <2>3, <3>3
    <3>5. ASSUME NEW j \in 1..(k - 1), b[j] = tag PROVE FALSE
      <4>1. j \in 1..Len(b) /\ ~(k <= j)
        BY <2>1
      <4>2. j \in S
        BY <2>1, <2>4, <3>5, <4>1
      <4> QED BY <3>4, <4>1, <4>2
    <3>6. b[k] \in VmessTags
      BY <3>4
    <3>7. b[k] = tag
      <4> HIDE DEF S
      <4> QED BY <2>1, <3>5, <3>6
    <3> QED BY <3>3, <3>4, <3>7
  <2> HIDE DEF vm, b
  <2>5. tag \in VmessTags => LoadedActive([outs |-> outs, rules |-> b]) = tag
    BY <2>2, <2>4
  <2> QED BY <2>1, <2>5 DEF b
<1> QED BY <1>1, <1>2

\* A tag that no node has, of those that are tried.
LEMMA AutoTagIsFree ==
  ASSUME \E i \in DOMAIN AutoTags : ~HasTag(nodes, AutoTags[i])
  PROVE  generate_auto_tag \in Tags /\ ~HasTag(nodes, generate_auto_tag)
<1> DEFINE free == {i \in DOMAIN AutoTags : ~HasTag(nodes, AutoTags[i])}
<1>1. free \in SUBSET Nat /\ free # {} /\ \A i \in free : AutoTags[i] \in Tags
  BY NodeAssumption
<1>2. \E m \in free : \A j \in free : m <= j
  <2> HIDE DEF free
  <2> QED BY <1>1, Least
<1> DEFINE m == CHOOSE i \in free : \A j \in free : i <= j
<1>3. m \in free
  <2> HIDE DEF free
  <2> QED BY <1>2
<1>4. generate_auto_tag = AutoTags[m]
  BY DEF generate_auto_tag
<1> HIDE DEF m
<1> QED BY <1>1, <1>3, <1>4

-----------------------------------------------------------------------------
(* Edits that come one after the other *)

\* A list that names the nodes of the file.
Restored(list) == list \in Seq(Node) /\ Distinct(list) /\ Named(list) = Named(path.outs)

\* What a roll-back would make of the list.
Undone(w) ==
  IF job[w].kind \in {"add", "import"} THEN Front(nodes)
  ELSE IF job[w].kind = "update"
       THEN [nodes EXCEPT ![Position(nodes, job[w].tag)] = job[w].node]
  ELSE IF job[w].kind = "remove" THEN Append(nodes, job[w].node) ELSE nodes

\* An edit that is in the list can be taken back.
Undoable(w) ==
  /\ job[w].kind \in {"add", "import", "update", "remove", "apply"}
  /\ job[w].kind \in {"add", "import"} => nodes # <<>> /\ Last(nodes).tag = job[w].node.tag
  /\ job[w].kind = "update" => HasTag(nodes, job[w].tag)
  /\ Restored(Undone(w))

\* An edit that is not yet in the list will leave every tag to one node.
Asked(w) ==
  /\ Restored(nodes)
  /\ at[w] = "push" => /\ job[w].kind \in {"add", "import"} /\ job[w].node \in Node
                       /\ ~HasTag(nodes, job[w].node.tag)
  /\ at[w] = "replace" => /\ job[w].kind = "update" /\ job[w].node \in Node
                          /\ \A i \in DOMAIN nodes :
                               nodes[i].tag = job[w].node.tag => nodes[i].tag = job[w].tag
  /\ at[w] = "erase" => job[w].kind = "remove"

\* What is written is the list, and the active node is read back from it.
Ready(c) ==
  /\ c \in Configs /\ c.outs = nodes
  /\ active \in VmessTags => LoadedActive(c) = active

\* What a handler has at the place where it is.
Here(w) ==
  /\ at[w] = "idle" => Restored(nodes)
  /\ at[w] \in {"push", "replace", "erase"} => Asked(w)
  /\ at[w] \in {"save", "built", "open", "written", "failed"} => Undoable(w)
  /\ at[w] \in {"built", "open"} => Ready(cfg[w])
  /\ at[w] = "written" => Ready(tmp)

\* Every tag has one node, in memory and in the file.
Lists ==
  /\ nodes \in Seq(Node) /\ Distinct(nodes) /\ active \in Tags \cup {NoTag}
  /\ path \in Configs /\ Distinct(path.outs)

Edits ==
  /\ Lists
  /\ (\A v \in Web : at[v] = "idle") => Restored(nodes)
  /\ \A w \in Web : at[w] # "idle" => Here(w)

\* What a handler remembers is a record of three fields.
Jobs ==
  job = [w \in Web |-> [kind |-> job[w].kind, tag |-> job[w].tag, node |-> job[w].node]]

EditsInv == SerialInv /\ Jobs /\ (Undisturbed => Edits)

\* While nothing has happened, whoever takes a step is alone and has
\* what its place asks for.
LEMMA EditorHas ==
  ASSUME EditsInv, NEW w \in Web, WebStep(w), Undisturbed'
  PROVE  /\ Undisturbed /\ Alone(w) /\ Lists /\ Here(w)
         /\ \A v \in Web \ {w} : at'[v] = "idle"
<1>0. /\ UNCHANGED upsets \/ \E m \in Mishaps : Upset(m)
      /\ upsets \in [Mishaps -> Nat] /\ at \in [Web -> Locations]
  BY DEF EditsInv, SerialInv, Functional, Mishaps, WebStep, AddNode, ImportLink, Push, UpdateNode,
     Replace, RemoveNode, Erase, NotFound, Reorder, SetActive, Upload, Build, OpenTmp, OpenFails,
     Write, WriteShort, Rename, RenameFails, RollBack, NothingToUndo, Begin
<1>4. Undisturbed /\ Serial /\ ~\E m \in Mishaps : Upset(m)
  BY <1>0, MishapsStay DEF Undisturbed, Serial, Mishaps
<1>1. (at[w] = "idle" => Alone(w)) /\ \A v \in Web \ {w} : at'[v] = at[v]
  BY <1>0, <1>4 DEF Alone, Mishaps, WebStep, AddNode, ImportLink, Push, UpdateNode,
     Replace, RemoveNode, Erase, NotFound, Reorder, SetActive, Upload, Build, OpenTmp, OpenFails,
     Write, WriteShort, Rename, RenameFails, RollBack, NothingToUndo, Begin, End
<1>2. Alone(w) /\ Lists
  BY <1>1, <1>4 DEF EditsInv, SerialInv, OneAtATime, Edits
<1>3. Here(w)
  BY <1>1, <1>2, <1>4 DEF EditsInv, Edits, Alone, Here
<1> QED BY <1>1, <1>2, <1>3, <1>4 DEF Alone

\* It is enough that the one who took a step has what its new place asks for.
LEMMA EditorLeaves ==
  ASSUME NEW w \in Web, \A v \in Web \ {w} : at'[v] = "idle", Lists', Here(w)'
  PROVE  Edits'
BY DEF Edits, Here

\* A step that leaves the list, the file and the job alone.
LEMMA UndoableStays ==
  ASSUME NEW w \in Web, Undoable(w), UNCHANGED <<nodes, path, job>>
  PROVE  Undoable(w)'
BY DEF Undoable, Undone, Restored

\* A request is taken.
LEMMA BeginEdits ==
  ASSUME EditsInv, NEW w \in Web, Undisturbed',
         AddNode(w) \/ ImportLink(w) \/ UpdateNode(w) \/ RemoveNode(w) \/ SetActive(w)
  PROVE  Edits'
<1>0. WebStep(w) /\ UNCHANGED <<nodes, disk>>
  BY DEF WebStep, AddNode, ImportLink, UpdateNode, RemoveNode, SetActive, memory
<1>1. Lists /\ Here(w) /\ \A v \in Web \ {w} : at'[v] = "idle"
  BY <1>0, EditorHas
<1>2. at[w] = "idle" /\ Restored(nodes)
  BY <1>1 DEF AddNode, ImportLink, UpdateNode, RemoveNode, SetActive, Begin, Here
<1>3. Lists'
  <2>1. active' \in Tags \cup {NoTag}
    BY <1>1 DEF AddNode, ImportLink, UpdateNode, RemoveNode, SetActive, memory, Lists
  <2> QED BY <1>0, <1>1, <2>1 DEF Lists, disk
<1>4. Restored(nodes)'
  BY <1>0, <1>2 DEF Restored, disk
<1>5. at = [v \in Web |-> at[v]] /\ job = [v \in Web |-> job[v]]
  BY DEF EditsInv, SerialInv, Functional, Jobs
<1>6. ASSUME NEW kind, NEW tag, NEW body, NEW to, Begin(w, kind, tag, body, to)
      PROVE  /\ at'[w] = to /\ job'[w].kind = kind /\ job'[w].tag = tag /\ job'[w].node = body
  BY <1>5, <1>6 DEF Begin
<1>7. CASE AddNode(w)
  <2>1. PICK n \in [tag : Tags, body : Bodies] :
          is_tag_unique(n.tag, NoTag) /\ Begin(w, "add", NoTag, n, "push")
    BY <1>7 DEF AddNode
  <2>2. n \in Node /\ ~HasTag(nodes', n.tag)
    BY <1>0, <2>1, NodeAssumption DEF is_tag_unique, HasTag, Node
  <2> QED BY <1>1, <1>3, <1>4, <1>6, <2>1, <2>2, EditorLeaves DEF Here, Asked
<1>8. CASE ImportLink(w)
  <2>1. PICK b \in Bodies :
          Begin(w, "import", NoTag, [tag |-> generate_auto_tag, body |-> b], "push")
    BY <1>8 DEF ImportLink
  <2>2. generate_auto_tag \in Tags /\ ~HasTag(nodes, generate_auto_tag)
    BY <1>8, AutoTagIsFree DEF ImportLink
  <2> DEFINE n == [tag |-> generate_auto_tag, body |-> b]
  <2>3. n \in Node /\ n.tag = generate_auto_tag
    BY <2>2 DEF Node
  <2>4. ~HasTag(nodes', n.tag)
    BY <1>0, <2>2, <2>3
  <2> HIDE DEF n
  <2>5. Begin(w, "import", NoTag, n, "push")
    BY <2>1 DEF n
  <2> QED BY <1>1, <1>3, <1>4, <1>6, <2>3, <2>4, <2>5, EditorLeaves DEF Here, Asked
<1>9. CASE UpdateNode(w)
  <2>1. PICK old \in Tags, n \in [tag : Tags, body : Bodies] :
          is_tag_unique(n.tag, old) /\ Begin(w, "update", old, n, "replace")
    BY <1>9 DEF UpdateNode
  <2>2. n \in Node /\ \A i \in DOMAIN nodes' : nodes'[i].tag = n.tag => nodes'[i].tag = old
    BY <1>0, <2>1 DEF is_tag_unique, Node
  <2> QED BY <1>1, <1>3, <1>4, <1>6, <2>1, <2>2, EditorLeaves DEF Here, Asked
<1>10. CASE RemoveNode(w)
  <2>1. PICK t : Begin(w, "remove", t, Ghost, "erase")
    BY <1>10 DEF RemoveNode
  <2> QED BY <1>1, <1>3, <1>4, <1>6, <2>1, EditorLeaves DEF Here, Asked
<1>11. CASE SetActive(w)
  <2>1. Begin(w, "apply", NoTag, Ghost, "save")
    BY <1>11 DEF SetActive
  <2>2. Undone(w)' = nodes'
    BY <1>6, <2>1 DEF Undone
  <2>3. Undoable(w)'
    BY <1>4, <1>6, <2>1, <2>2 DEF Undoable, Restored
  <2> QED BY <1>1, <1>3, <1>6, <2>1, <2>3, EditorLeaves DEF Here
<1> QED BY <1>7, <1>8, <1>9, <1>10, <1>11

\* The list is changed, and can be changed back.
LEMMA ChangeEdits ==
  ASSUME EditsInv, NEW w \in Web, Undisturbed', Push(w) \/ Replace(w) \/ Erase(w)
  PROVE  Edits'
<1>0. WebStep(w) /\ UNCHANGED <<active, path>>
  BY DEF WebStep, Push, Replace, Erase, disk
<1>1. Lists /\ Here(w) /\ \A v \in Web \ {w} : at'[v] = "idle"
  BY <1>0, EditorHas
<1>2. at'[w] = "save" /\ at = [v \in Web |-> at[v]] /\ job = [v \in Web |-> job[v]]
  BY DEF EditsInv, SerialInv, Functional, Jobs, Push, Replace, Erase
<1>3. Asked(w) /\ nodes \in Seq(Node) /\ Distinct(nodes) /\ Named(nodes) = Named(path.outs)
  BY <1>1 DEF Push, Replace, Erase, Here, Asked, Restored
<1>4. SUFFICES nodes' \in Seq(Node) /\ Distinct(nodes') /\ Undoable(w)'
  BY <1>0, <1>1, <1>2, EditorLeaves DEF Lists, Here
<1>5. CASE Push(w)
  <2> DEFINE n == job[w].node
  <2>1. /\ n \in Node /\ ~HasTag(nodes, n.tag) /\ job[w].kind \in {"add", "import"}
        /\ nodes' = Append(nodes, n) /\ job' = job
    BY <1>3, <1>5 DEF Push, Asked
  <2> HIDE DEF n
  <2>2. /\ nodes' \in Seq(Node) /\ Distinct(nodes') /\ nodes' # <<>>
        /\ Last(nodes') = n /\ Front(nodes') = nodes
    BY <1>3, <2>1, AppendNode
  <2>3. Undone(w)' = nodes
    BY <2>1, <2>2 DEF Undone
  <2> QED BY <1>0, <1>3, <2>1, <2>2, <2>3 DEF Undoable, Restored, n
<1>6. CASE Replace(w)
  <2> DEFINE n == job[w].node
  <2> DEFINE i == Position(nodes, job[w].tag)
  <2>1. /\ n \in Node /\ nodes' = [nodes EXCEPT ![i] = n] /\ i # 0
        /\ job'[w] = [kind |-> "update", tag |-> n.tag, node |-> nodes[i]]
        /\ \A j \in DOMAIN nodes : nodes[j].tag = n.tag => nodes[j].tag = job[w].tag
    BY <1>2, <1>3, <1>6 DEF Replace, Asked
  <2>2. i \in DOMAIN nodes /\ nodes[i].tag = job[w].tag
    BY <1>3, <2>1, PositionFirst
  <2> HIDE DEF n, i
  <2>3. \A j \in DOMAIN nodes : nodes[j].tag = n.tag => j = i
    BY <1>3, <2>1, <2>2 DEF Distinct
  <2>4. /\ nodes' \in Seq(Node) /\ DOMAIN nodes' = DOMAIN nodes /\ nodes'[i] = n
        /\ Distinct(nodes') /\ [nodes' EXCEPT ![i] = nodes[i]] = nodes
    BY <1>3, <2>1, <2>2, <2>3, ReplaceNode
  <2>5. HasTag(nodes', n.tag) /\ Position(nodes', n.tag) = i
    <3>1. HasTag(nodes', n.tag)
      BY <2>2, <2>4 DEF HasTag
    <3>2. /\ Position(nodes', n.tag) \in DOMAIN nodes'
          /\ nodes'[Position(nodes', n.tag)].tag = nodes'[i].tag
      BY <2>4, <3>1, PositionFirst
    <3> QED BY <2>2, <2>4, <3>1, <3>2 DEF Distinct
  <2>6. job'[w].kind = "update" /\ job'[w].tag = n.tag /\ job'[w].node = nodes[i]
    BY <2>1
  <2>7. Undone(w)' = nodes
    <3>1. Undone(w)' = [nodes' EXCEPT ![Position(nodes', job'[w].tag)] = job'[w].node]
      BY <2>6 DEF Undone
    <3> QED BY <2>4, <2>5, <2>6, <3>1
  <2>8. HasTag(nodes', job'[w].tag)
    BY <2>5, <2>6
  <2> QED BY <1>0, <1>3, <2>4, <2>6, <2>7, <2>8 DEF Undoable, Restored
<1>7. CASE Erase(w)
  <2> DEFINE i == Position(nodes, job[w].tag)
  <2>1. /\ nodes' = RemoveAt(nodes, i) /\ i # 0
        /\ job'[w].kind = "remove" /\ job'[w].node = nodes[i]
    <3>1. /\ nodes' = RemoveAt(nodes, i) /\ i # 0 /\ job[w].kind = "remove"
          /\ job' = [job EXCEPT ![w] = [job[w] EXCEPT !.node = nodes[i]]]
      BY <1>3, <1>7 DEF Erase, Asked
    <3>2. job[w] = [kind |-> job[w].kind, tag |-> job[w].tag, node |-> job[w].node]
      BY DEF EditsInv, Jobs
    <3> HIDE DEF i
    <3>3. job'[w] = [job[w] EXCEPT !.node = nodes[i]]
      BY <1>2, <3>1
    <3> QED BY <3>1, <3>2, <3>3
  <2>2. i \in DOMAIN nodes
    BY <1>3, <2>1, PositionFirst
  <2> HIDE DEF i
  <2>3. /\ nodes' \in Seq(Node) /\ Distinct(nodes') /\ ~HasTag(nodes', nodes[i].tag)
        /\ Named(nodes') \cup (IF nodes[i].tag = NoTag THEN {} ELSE {nodes[i]}) = Named(nodes)
    BY <1>3, <2>1, <2>2, RemoveNodeAt
  <2>4. Undone(w)' = Append(nodes', nodes[i])
    BY <2>1 DEF Undone
  <2>5. nodes[i] \in Node
    BY <1>3, <2>2
  <2> DEFINE n == nodes[i]
  <2> HIDE DEF n
  <2>6. /\ Append(nodes', n) \in Seq(Node) /\ Distinct(Append(nodes', n))
        /\ Named(Append(nodes', n)) = Named(path'.outs)
    <3>1. /\ Append(nodes', n) \in Seq(Node) /\ Distinct(Append(nodes', n))
          /\ Named(Append(nodes', n)) = Named(nodes') \cup (IF n.tag = NoTag THEN {} ELSE {n})
      BY <2>3, <2>5, AppendNode DEF n
    <3> QED BY <1>0, <1>3, <2>3, <3>1 DEF n
  <2>7. Undoable(w)'
    BY <2>1, <2>4, <2>6 DEF Undoable, Restored, n
  <2> QED BY <2>3, <2>7
<1> QED BY <1>5, <1>6, <1>7

\* The list keeps its named nodes, and its handler ends or none was under way.
LEMMA EndEdits ==
  ASSUME EditsInv, NEW w \in Web, Undisturbed',
         NotFound(w) \/ Reorder(w) \/ RollBack(w) \/ NothingToUndo(w)
  PROVE  Edits'
<1>0. WebStep(w) /\ UNCHANGED <<active, path>>
  BY DEF WebStep, NotFound, Reorder, RollBack, NothingToUndo, disk, memory
<1>1. Lists /\ Here(w) /\ \A v \in Web \ {w} : at'[v] = "idle"
  BY <1>0, EditorHas
<1>2. at = [v \in Web |-> at[v]]
  BY DEF EditsInv, SerialInv, Functional
<1>3. at'[w] = "idle"
  BY <1>2 DEF NotFound, Reorder, RollBack, NothingToUndo, End
<1>4. SUFFICES nodes' \in Seq(Node) /\ Distinct(nodes') /\ Named(nodes') = Named(path.outs)
  BY <1>0, <1>1, <1>3, EditorLeaves DEF Lists, Here, Restored
<1>5. CASE NotFound(w)
  BY <1>1, <1>5 DEF NotFound, Here, Asked, Restored, memory
<1>6. CASE Reorder(w)
  <2>1. \E order \in Seq(Tags) : nodes' = reorder_nodes(nodes, order)
    <3>1. PICK k \in 1..MaxOrder : \E o \in [1..k -> Tags] : nodes' = reorder_nodes(nodes, o)
      BY <1>6 DEF Reorder
    <3>2. PICK o \in [1..k -> Tags] : nodes' = reorder_nodes(nodes, o)
      BY <3>1
    <3>3. o \in Seq(Tags)
      BY k \in Nat
    <3> QED BY <3>2, <3>3
  <2>2. PICK order \in Seq(Tags) : nodes' = reorder_nodes(nodes, order)
    BY <2>1
  <2>3. Restored(nodes)
    BY <1>1, <1>6 DEF Reorder, Here
  <2> QED BY <2>2, <2>3, ReorderKeeps DEF Restored
<1>7. CASE RollBack(w)
  <2>1. Undoable(w)
    BY <1>1, <1>7 DEF RollBack, Here
  <2>2. nodes' = Undone(w)
    BY <1>7, <2>1 DEF RollBack, Undo, PopBack, PutBack, Undone, Undoable
  <2> QED BY <2>1, <2>2 DEF Undoable, Restored
<1>8. CASE NothingToUndo(w)
  <2>1. Undoable(w) /\ nodes' = nodes
    BY <1>1, <1>8 DEF NothingToUndo, Here, memory
  <2>2. job[w].kind = "apply"
    BY <1>8, <2>1 DEF NothingToUndo, Undoable
  <2>3. Undone(w) = nodes
    BY <2>2 DEF Undone
  <2> QED BY <2>1, <2>3 DEF Undoable, Restored
<1> QED BY <1>5, <1>6, <1>7, <1>8

\* The list is saved.
LEMMA SaveEdits ==
  ASSUME EditsInv, ConfigsAreWhole, NEW w \in Web, Undisturbed',
         \/ Upload(w) \/ Build(w) \/ OpenTmp(w) \/ OpenFails(w) \/ Write(w)
         \/ WriteShort(w) \/ Rename(w) \/ RenameFails(w)
  PROVE  Edits'
<1>0. WebStep(w) /\ UNCHANGED <<nodes, active>>
  BY DEF WebStep, Upload, Build, OpenTmp, OpenFails, Write, WriteShort, Rename, RenameFails, memory
<1>1. Undisturbed /\ Lists /\ Here(w) /\ \A v \in Web \ {w} : at'[v] = "idle"
  BY <1>0, EditorHas
<1>2. at = [v \in Web |-> at[v]] /\ cfg = [v \in Web |-> cfg[v]]
      /\ upsets \in [Mishaps -> Nat]
  BY DEF EditsInv, SerialInv, Functional
<1>3. OneAtATime
  BY <1>1 DEF EditsInv, SerialInv, Undisturbed, Serial, Mishaps
<1>4. CASE Upload(w) \/ WriteShort(w)
  <2>1. PICK m \in Mishaps : Upset(m)
    BY <1>4 DEF Upload, WriteShort, Mishaps
  <2> QED BY <1>2, <2>1, MishapsStay
<1>5. CASE Build(w)
  <2>1. /\ at'[w] = "built" /\ UNCHANGED <<path, job>>
        /\ cfg'[w] = build_full_config(Loaded(path)) /\ Undoable(w)
    BY <1>1, <1>2, <1>5 DEF Build, disk, Here
  <2>2. Loaded(path) = path /\ path.rules \in Seq(Tags \cup {OtherTag})
    <3>1. path = [outs |-> path.outs, rules |-> path.rules] /\ path.rules \in Seq(Tags \cup {OtherTag})
      BY <1>1 DEF Lists, Configs
    <3>2. path \notin {NoFile, Empty, Torn}
      BY <3>1 DEF ConfigsAreWhole, Whole
    <3> QED BY <3>1, <3>2 DEF Loaded
  <2> DEFINE tag == IF active = NoTag /\ nodes # <<>> THEN nodes[1].tag ELSE active
  <2>3. tag \in Tags \cup {NoTag}
    <3>1. nodes # <<>> => nodes[1] \in Node
      BY <1>1 DEF Lists
    <3> QED BY <1>1, <3>1 DEF Lists, Node
  <2>4. active \in VmessTags => tag = active
    BY NodeAssumption
  <2>5. cfg'[w] = [outs |-> nodes, rules |-> build_rules(path.rules, tag)]
    BY <2>1, <2>2 DEF build_full_config
  <2> HIDE DEF tag
  <2>6. /\ build_rules(path.rules, tag) \in Seq(Tags \cup {OtherTag})
        /\ tag \in VmessTags =>
             LoadedActive([outs |-> nodes, rules |-> build_rules(path.rules, tag)]) = tag
    BY <1>1, <2>2, <2>3, BuiltActive DEF Lists
  <2>7. Ready(cfg[w])'
    BY <1>0, <1>1, <2>4, <2>5, <2>6 DEF Ready, Configs, Lists
  <2>8. Undoable(w)'
    BY <1>0, <2>1, UndoableStays
  <2>9. Lists'
    BY <1>0, <1>1, <2>1 DEF Lists
  <2> QED BY <1>1, <2>1, <2>7, <2>8, <2>9, EditorLeaves DEF Here
<1>6. CASE OpenTmp(w) \/ OpenFails(w) \/ RenameFails(w)
  <2>1. /\ at'[w] \in {"open", "failed"}
        /\ at'[w] = "open" => at[w] = "built"
        /\ UNCHANGED <<path, job, cfg>> /\ Undoable(w)
    BY <1>1, <1>2, <1>6 DEF OpenTmp, OpenFails, RenameFails, disk, Here
  <2>2. Undoable(w)'
    BY <1>0, <2>1, UndoableStays
  <2>3. Lists'
    BY <1>0, <1>1, <2>1 DEF Lists
  <2>4. at'[w] = "open" => Ready(cfg[w])'
    BY <1>0, <1>1, <2>1 DEF Here, Ready
  <2>5. Here(w)'
    BY <2>1, <2>2, <2>4 DEF Here
  <2> QED BY <1>1, <2>3, <2>5, EditorLeaves
<1>7. CASE Write(w)
  <2>1. /\ at[w] = "open" /\ at'[w] = "written" /\ UNCHANGED <<job, cfg>>
        /\ Undoable(w) /\ Ready(cfg[w])
    BY <1>1, <1>2, <1>7 DEF Write, Here
  <2>2. fd[w] = "tmp" /\ tmp = Empty
    BY <1>3, <2>1 DEF OneAtATime
  <2>3. tmp' = cfg[w] /\ path' = path
    BY <1>7, <2>2 DEF Write, Put
  <2>4. Undoable(w)'
    BY <1>0, <2>1, <2>3, UndoableStays
  <2>5. Lists'
    BY <1>0, <1>1, <2>3 DEF Lists
  <2>6. Ready(tmp)'
    BY <1>0, <2>1, <2>3 DEF Ready
  <2> QED BY <1>1, <2>1, <2>4, <2>5, <2>6, EditorLeaves DEF Here
<1>8. CASE Rename(w)
  <2>1. at'[w] = "idle" /\ path' = tmp /\ Ready(tmp)
    BY <1>1, <1>2, <1>8 DEF Rename, Here
  <2>2. path' \in Configs /\ path'.outs = nodes
    BY <2>1 DEF Ready
  <2>3. Lists' /\ Restored(nodes)'
    BY <1>0, <1>1, <2>2 DEF Lists, Restored
  <2> QED BY <1>1, <2>1, <2>3, EditorLeaves DEF Here
<1> QED BY <1>4, <1>5, <1>6, <1>7, <1>8

\* A restart finds what the last finished save wrote.
LEMMA RestartEdits ==
  ASSUME EditsInv, ConfigsAreWhole, Restart, Undisturbed'
  PROVE  Edits'
<1>1. Undisturbed /\ path' = path /\ \A w \in Web : at'[w] = "idle"
  BY DEF Restart, Undisturbed
<1>2. path \in Configs /\ Distinct(path.outs)
  BY <1>1 DEF EditsInv, Edits, Lists
<1>3. path = [outs |-> path.outs, rules |-> path.rules]
  BY <1>2 DEF Configs
<1>4. path \notin {NoFile, Empty, Torn}
  BY <1>3 DEF ConfigsAreWhole, Whole
<1>5. nodes' = LoadedNodes(path) /\ active' = LoadedActive(path)
  BY <1>4 DEF Restart, Loaded
<1>6. /\ nodes' \in Seq(Node) /\ Distinct(nodes') /\ Named(nodes') = Named(path'.outs)
      /\ active' \in Tags \cup {NoTag}
  BY <1>1, <1>2, <1>5, LoadedKeeps, LoadedActiveTag
<1> QED BY <1>1, <1>2, <1>6 DEF Edits, Lists, Restored

LEMMA EditsInit == ASSUME ConfigsAreWhole, Init PROVE EditsInv
<1>0. SerialInv
  BY SerialInit
<1>1. PICK first \in [1..1 -> [tag : Tags, body : Bodies]] \cup {<<>>} :
        /\ nodes = first
        /\ active = IF first = <<>> THEN NoTag ELSE first[1].tag
        /\ path = [outs |-> first, rules |-> IF first = <<>> THEN <<OtherTag>>
                                ELSE <<OtherTag, first[1].tag>>]
  BY DEF Init
<1>2. CASE first = <<>>
  <2>1. Lists /\ Restored(nodes)
    BY <1>1, <1>2 DEF Lists, Restored, Configs, Distinct
  <2> QED BY <1>0, <2>1 DEF Init, EditsInv, Edits, Jobs, NoJob
<1>3. CASE first # <<>>
  <2>1. first \in [1..1 -> [tag : Tags, body : Bodies]] /\ first[1].tag \in Tags
    BY <1>3
  <2>2. first \in Seq(Node) /\ DOMAIN first = 1..1
    <3>1. [tag : Tags, body : Bodies] \subseteq Node
      BY DEF Node
    <3>2. first \in [1..1 -> Node]
      BY <2>1, <3>1
    <3>3. first = <<first[1]>> /\ first[1] \in Node /\ DOMAIN first = 1..1
      BY <3>2
    <3>4. <<first[1]>> \in Seq(Node)
      BY <3>3
    <3> QED BY <3>3, <3>4
  <2>3. <<OtherTag, first[1].tag>> \in Seq(Tags \cup {OtherTag})
    BY <2>1
  <2>4. Lists /\ Restored(nodes)
    BY <1>1, <1>3, <2>1, <2>2, <2>3 DEF Lists, Restored, Configs, Distinct
  <2> QED BY <1>0, <2>4 DEF Init, EditsInv, Edits, Jobs, NoJob
<1> QED BY <1>2, <1>3

\* No step gives a handler something else to remember.
LEMMA JobsNext ==
  ASSUME Jobs, [Next]_vars
  PROVE  Jobs'
<1>1. ASSUME UNCHANGED job PROVE Jobs'
  BY <1>1 DEF Jobs
<1>2. ASSUME NEW w \in Web, NEW k, NEW t, NEW n,
             job' = [job EXCEPT ![w] = [kind |-> k, tag |-> t, node |-> n]]
      PROVE  Jobs'
  <2> SUFFICES ASSUME NEW v \in Web
               PROVE  job'[v] = [kind |-> job'[v].kind, tag |-> job'[v].tag, node |-> job'[v].node]
    BY <1>2 DEF Jobs
  <2>1. CASE v = w BY <1>2, <2>1 DEF Jobs
  <2>2. CASE v # w BY <1>2, <2>2 DEF Jobs
  <2> QED BY <2>1, <2>2
<1>3. CASE Restart
  BY <1>3 DEF Restart, Jobs, NoJob
<1>4. ASSUME NEW w \in Web, WebStep(w) PROVE Jobs'
  <2>1. CASE \/ AddNode(w) \/ ImportLink(w) \/ UpdateNode(w) \/ RemoveNode(w) \/ SetActive(w)
    <3>1. \E k, t, n : job' = [job EXCEPT ![w] = [kind |-> k, tag |-> t, node |-> n]]
      BY <2>1 DEF AddNode, ImportLink, UpdateNode, RemoveNode, SetActive, Begin
    <3> QED BY <1>2, <3>1
  <2>2. CASE Replace(w)
    <3>1. job' = [job EXCEPT ![w] = [kind |-> "update", tag |-> job[w].node.tag,
                                     node |-> nodes[Position(nodes, job[w].tag)]]]
      BY <2>2 DEF Replace, Jobs
    <3> QED BY <1>2, <3>1
  <2>3. CASE Erase(w)
    <3> DEFINE n == nodes[Position(nodes, job[w].tag)]
    <3>1. job' = [job EXCEPT ![w] = [job[w] EXCEPT !.node = n]]
      BY <2>3 DEF Erase
    <3> HIDE DEF n
    <3>2. job[w] = [kind |-> job[w].kind, tag |-> job[w].tag, node |-> job[w].node]
      BY DEF Jobs
    <3>3. [job[w] EXCEPT !.node = n] = [kind |-> job[w].kind, tag |-> job[w].tag, node |-> n]
      BY <3>2
    <3>4. job' = [job EXCEPT ![w] = [kind |-> job[w].kind, tag |-> job[w].tag, node |-> n]]
      BY <3>1, <3>3
    <3> QED BY <1>2, <3>4
  <2>4. CASE Upload(w)
    <3>1. job' = [job EXCEPT ![w] = [kind |-> "upload", tag |-> NoTag, node |-> Ghost]]
      BY <2>4 DEF Upload
    <3> QED BY <1>2, <3>1
  <2>5. CASE NotFound(w) \/ Rename(w) \/ RollBack(w) \/ NothingToUndo(w)
    <3>1. job' = [job EXCEPT ![w] = [kind |-> "none", tag |-> NoTag, node |-> Ghost]]
      BY <2>5 DEF NotFound, Rename, RollBack, NothingToUndo, End, NoJob
    <3> QED BY <1>2, <3>1
  <2>6. CASE \/ Push(w) \/ Reorder(w) \/ Build(w) \/ OpenTmp(w) \/ OpenFails(w) \/ Write(w)
            \/ WriteShort(w) \/ RenameFails(w)
    BY <1>1, <2>6 DEF Push, Reorder, Build, OpenTmp, OpenFails, Write, WriteShort, RenameFails
  <2> QED BY <1>4, <2>1, <2>2, <2>3, <2>4, <2>5, <2>6 DEF WebStep
<1>5. CASE UNCHANGED vars
  BY <1>1, <1>5 DEF vars
<1> QED BY <1>3, <1>4, <1>5 DEF Next

LEMMA EditsNext ==
  ASSUME ConfigsAreWhole, EditsInv, [Next]_vars
  PROVE  EditsInv'
<1>1. SerialInv'
  BY SerialNext DEF EditsInv
<1>2. Jobs'
  BY JobsNext DEF EditsInv
<1>3. ASSUME Undisturbed' PROVE Edits'
  <2>1. CASE UNCHANGED vars
    BY <1>3, <2>1 DEF vars, EditsInv, Undisturbed, Edits, Lists, Here, Asked, Undoable, Undone, Restored, Ready
  <2>2. CASE Restart
    BY <1>3, <2>2, RestartEdits
  <2>3. ASSUME NEW w \in Web, WebStep(w) PROVE Edits'
    BY <1>3, <2>3, BeginEdits, ChangeEdits, EndEdits, SaveEdits DEF WebStep
  <2> QED BY <2>1, <2>2, <2>3 DEF Next
<1> QED BY <1>1, <1>2, <1>3 DEF EditsInv

\* Edits that come one after the other, without an upload or a write that is cut
\* short, leave every tag to one node, however the list is reordered, whatever
\* cannot be opened or renamed and is taken back, and wherever the program dies
\* (vm_node_manager.cpp:155-272).
THEOREM TagsStayUnique == ASSUME ConfigsAreWhole PROVE Spec => []UniqueTags
<1>1. EditsInv => UniqueTags
  BY DEF EditsInv, Edits, Lists, Distinct, UniqueTags
<1>2. Init => EditsInv
  BY EditsInit
<1>3. EditsInv /\ [Next]_vars => EditsInv'
  BY EditsNext
<1> QED BY <1>1, <1>2, <1>3, PTL DEF Spec

\* When no edit is under way, none overlapped another, nothing was uploaded and
\* no write cut short, the list and the file name the same nodes: an edit is in
\* both, or it was taken back.
THEOREM MemoryFollowsFile == ASSUME ConfigsAreWhole PROVE Spec => []MemoryMatchesFile
<1>1. EditsInv => MemoryMatchesFile
  <2> SUFFICES ASSUME EditsInv, Undisturbed, \A w \in Web : at[w] = "idle"
               PROVE  Named(nodes) = Named(Loaded(path).outs)
    BY DEF MemoryMatchesFile
  <2>1. Restored(nodes) /\ path \in Configs
    BY DEF EditsInv, Edits, Lists
  <2>2. path = [outs |-> path.outs, rules |-> path.rules]
    BY <2>1 DEF Configs
  <2>3. path \notin {NoFile, Empty, Torn}
    BY <2>2 DEF ConfigsAreWhole, Whole
  <2>4. Loaded(path) = path
    BY <2>3 DEF Loaded
  <2> QED BY <2>1, <2>4 DEF Restored
<1>2. Init => EditsInv
  BY EditsInit
<1>3. EditsInv /\ [Next]_vars => EditsInv'
  BY EditsNext
<1> QED BY <1>1, <1>2, <1>3, PTL DEF Spec

\* From the file that a save leaves, load_from_config reads back the node that
\* is active, whichever rules the file had before; for edits that come one after
\* the other, without an upload or a write that is cut short.
THEOREM ActiveIsReadBack == ASSUME ConfigsAreWhole PROVE Spec => SavedActiveReturns
<1>1. EditsInv /\ [Next]_vars
        => [Undisturbed /\ (\E w \in Web : Rename(w)) /\ active \in VmessTags
              => LoadedActive(Loaded(path)') = active]_vars
  <2> SUFFICES ASSUME EditsInv, Undisturbed, NEW w \in Web, Rename(w), active \in VmessTags
               PROVE  LoadedActive(Loaded(path)') = active
    OBVIOUS
  <2>1. Undisturbed' /\ WebStep(w)
    BY DEF Rename, Undisturbed, WebStep
  <2>2. Here(w)
    BY <2>1, EditorHas
  <2>3. path' = tmp /\ Ready(tmp)
    BY <2>2 DEF Rename, Here
  <2>4. tmp = [outs |-> tmp.outs, rules |-> tmp.rules]
    BY <2>3 DEF Ready, Configs
  <2>5. tmp \notin {NoFile, Empty, Torn}
    BY <2>4 DEF ConfigsAreWhole, Whole
  <2>6. Loaded(path)' = tmp
    BY <2>3, <2>5 DEF Loaded
  <2> QED BY <2>3, <2>6 DEF Ready
<1>2. Init => EditsInv
  BY EditsInit
<1>3. EditsInv /\ [Next]_vars => EditsInv'
  BY EditsNext
<1> QED BY <1>1, <1>2, <1>3, PTL DEF Spec, SavedActiveReturns

-----------------------------------------------------------------------------
(* The forms of one node *)

\* What is left of a number that is cut to 16 bits.
IsPort(p) == p \in Nat /\ p < 65536

\* A node has all its fields, as far as anything reads them, and a port.
NodeShape(n) ==
  /\ n = [address |-> n.address, port |-> n.port, id |-> n.id, aid |-> n.aid,
          security |-> n.security, network |-> n.network, tls |-> n.tls, remark |-> n.remark,
          tcp |-> n.tcp, ws |-> n.ws, h2 |-> n.h2, quic |-> n.quic, kcp |-> n.kcp, tlsc |-> n.tlsc]
  /\ IsPort(n.port)
  /\ n.tcp = [header |-> n.tcp.header]
  /\ n.ws = [path |-> n.ws.path, host |-> n.ws.host]
  /\ n.h2 = [path |-> n.h2.path, hosts |-> n.h2.hosts] /\ HostList(n.h2.hosts)
  /\ n.quic = [security |-> n.quic.security, key |-> n.quic.key, header |-> n.quic.header]
  /\ n.kcp = [tuning |-> n.kcp.tuning, header |-> n.kcp.header]
  /\ n.tlsc = [insecure |-> n.tlsc.insecure, sni |-> n.tlsc.sni]

\* A port that fits is kept.
LEMMA PortFits ==
  /\ \A p \in Int : IsPort(uint16(p))
  /\ \A p : IsPort(p) => uint16(p) = p
BY DEF uint16, IsPort

\* What is read from a request is a node.
LEMMA RequestShape ==
  ASSUME NEW j, value(j, "port", 443) \in Int,
         HostList(h2_section(At(j, "h2")).hosts)
  PROVE  NodeShape(json_to_node(j))
<1>1. IsPort(uint16(value(j, "port", 443)))
  BY PortFits
<1> QED
  BY <1>1 DEF NodeShape, json_to_node, tcp_section, ws_section,
     h2_section, quic_section, kcp_section, tls_section

\* A node written as a request is read back as it was.
LEMMA WrittenShape ==
  ASSUME NEW n, NodeShape(n), NEW b \in BOOLEAN
  PROVE  NodeShape(json_to_node(node_to_json(n, b)))
<1> DEFINE j == node_to_json(n, b)
<1>1. j.port = n.port /\ j.h2 = n.h2 /\ "port" \in DOMAIN j /\ "h2" \in DOMAIN j
  BY DEF NodeShape, node_to_json
<1> HIDE DEF j
<1>2. value(j, "port", 443) \in Int
  BY <1>1 DEF value, NodeShape, IsPort
<1>3. HostList(h2_section(At(j, "h2")).hosts)
  <2>1. At(j, "h2") = n.h2
    BY <1>1 DEF At
  <2>2. "hosts" \in DOMAIN n.h2
    BY DEF NodeShape
  <2>3. h2_section(n.h2).hosts = n.h2.hosts
    BY <2>2 DEF h2_section, value
  <2> QED BY <2>1, <2>3 DEF NodeShape
<1>4. NodeShape(json_to_node(j))
  BY <1>2, <1>3, RequestShape
<1> QED BY <1>4 DEF j

\* What is cut out of a text is a list of hosts.
LEMMA SplitShape ==
  ASSUME NEW host
  PROVE  HostList(Split(host))
BY DEF HostList, Split

\* What is read from a link is a node.
LEMMA LinkShape ==
  ASSUME NEW l, Readable(l, "port", 443) \in Int
  PROVE  NodeShape(decode(l))
<1> DEFINE n == decode(l)
<1>1. IsPort(uint16(Readable(l, "port", 443)))
  BY PortFits
<1>2. IsPort(n.port)
  BY <1>1 DEF decode
<1>3. n.tcp = decode_tcp(l) /\ n.ws = decode_ws(l) /\ n.h2 = decode_h2(l) /\ n.quic = decode_quic(l)
      /\ n.kcp = decode_kcp(l) /\ n.tlsc = decode_tlsc(l)
  BY DEF decode
<1>4. n = [address |-> n.address, port |-> n.port, id |-> n.id, aid |-> n.aid,
          security |-> n.security, network |-> n.network, tls |-> n.tls, remark |-> n.remark,
          tcp |-> n.tcp, ws |-> n.ws, h2 |-> n.h2, quic |-> n.quic, kcp |-> n.kcp, tlsc |-> n.tlsc]
  BY DEF decode
<1> HIDE DEF n
<1>5. n.tcp = [header |-> n.tcp.header]
  BY <1>3 DEF decode_tcp
<1>6. n.ws = [path |-> n.ws.path, host |-> n.ws.host]
  <2>1. CASE NetOf(l) = "ws"
    <3>1. decode_ws(l) = [path |-> OrRoot(value(l, "path", "")), host |-> value(l, "host", "")]
      BY <2>1 DEF decode_ws
    <3>2. n.ws = [path |-> OrRoot(value(l, "path", "")), host |-> value(l, "host", "")]
      BY <1>3, <3>1
    <3> QED BY <3>2
  <2>2. CASE NetOf(l) # "ws"
    <3>1. decode_ws(l) = ws_section(<<>>)
      BY <2>2 DEF decode_ws
    <3>2. n.ws = ws_section(<<>>)
      BY <1>3, <3>1
    <3> QED BY <3>2 DEF ws_section
  <2> QED BY <2>1, <2>2
<1>7. n.h2 = [path |-> n.h2.path, hosts |-> n.h2.hosts] /\ HostList(n.h2.hosts)
  <2>1. CASE NetOf(l) = "h2"
    <3>1. decode_h2(l) = [path |-> OrRoot(value(l, "path", "")), hosts |-> Split(value(l, "host", ""))]
      BY <2>1 DEF decode_h2
    <3> DEFINE a == OrRoot(value(l, "path", ""))
               b == Split(value(l, "host", ""))
    <3>2. HostList(b)
      BY SplitShape
    <3> HIDE DEF a, b
    <3>3. n.h2 = [path |-> a, hosts |-> b]
      BY <1>3, <3>1 DEF a, b
    <3> QED BY <3>2, <3>3
  <2>2. CASE NetOf(l) # "h2"
    <3>1. value(<<>>, "hosts", <<>>) = <<>>
      BY DEF value
    <3>2. HostList(<<>>)
      BY DEF HostList
    <3>3. decode_h2(l) = h2_section(<<>>)
      BY <2>2 DEF decode_h2
    <3>4. n.h2 = h2_section(<<>>)
      BY <1>3, <3>3
    <3> QED BY <3>1, <3>2, <3>4 DEF h2_section
  <2> QED BY <2>1, <2>2
<1>8. n.quic = [security |-> n.quic.security, key |-> n.quic.key, header |-> n.quic.header]
  <2>1. CASE NetOf(l) = "quic"
    <3> DEFINE s == IF value(l, "host", "") = "" THEN "none" ELSE l.host
    <3>1. decode_quic(l) = [security |-> s, key |-> value(l, "path", ""), header |-> value(l, "type", "none")]
      BY <2>1 DEF decode_quic
    <3> HIDE DEF s
    <3>2. n.quic = [security |-> s, key |-> value(l, "path", ""), header |-> value(l, "type", "none")]
      BY <1>3, <3>1
    <3> QED BY <3>2
  <2>2. CASE NetOf(l) # "quic"
    <3>1. decode_quic(l) = quic_section(<<>>)
      BY <2>2 DEF decode_quic
    <3>2. n.quic = quic_section(<<>>)
      BY <1>3, <3>1
    <3> QED BY <3>2 DEF quic_section
  <2> QED BY <2>1, <2>2
<1>9. n.kcp = [tuning |-> n.kcp.tuning, header |-> n.kcp.header]
  BY <1>3 DEF decode_kcp
<1>10. n.tlsc = [insecure |-> n.tlsc.insecure, sni |-> n.tlsc.sni]
  BY <1>3 DEF decode_tlsc
<1>11. NodeShape(n)
  BY <1>2, <1>4, <1>5, <1>6, <1>7, <1>8, <1>9, <1>10 DEF NodeShape
<1> QED BY <1>11 DEF n

\* What is read from a file is a node.
LEMMA OutboundShape ==
  ASSUME NEW o, NEW remark, value(o, "port", 443) \in Int,
         HostList(h2_section(settings_of(o, "h2")).hosts)
  PROVE  NodeShape(parse_outbound(o, remark))
<1>1. IsPort(uint16(value(o, "port", 443)))
  BY PortFits
<1> QED
  BY <1>1 DEF NodeShape, parse_outbound, tcp_section, ws_section,
     h2_section, quic_section, kcp_section, tls_section

\* What v2ray is told depends on the settings of the network and of TLS alone.
LEMMA WireDepends ==
  ASSUME NEW m, NEW n, m.address = n.address, m.port = n.port, m.id = n.id, m.aid = n.aid,
         m.security = n.security, m.network = n.network, tls_mode(m.tls) = tls_mode(n.tls),
         n.network = "tcp" => m.tcp = n.tcp, n.network = "ws" => m.ws = n.ws,
         n.network = "h2" => m.h2 = n.h2, n.network = "quic" => m.quic = n.quic,
         n.network = "kcp" => m.kcp = n.kcp, n.tls = "tls" => m.tlsc = n.tlsc
  PROVE  build_vmess_outbound(m) = build_vmess_outbound(n)
<1>1. build_settings(m) = build_settings(n)
  <2>1. CASE n.network = "tcp" BY <2>1 DEF build_settings
  <2>2. CASE n.network = "ws" BY <2>2 DEF build_settings
  <2>3. CASE n.network = "h2" BY <2>3 DEF build_settings
  <2>4. CASE n.network = "quic" BY <2>4 DEF build_settings
  <2>5. CASE n.network = "kcp" BY <2>5 DEF build_settings
  <2>6. CASE n.network \notin {"tcp", "ws", "h2", "quic", "kcp"} BY <2>6 DEF build_settings
  <2> QED BY <2>1, <2>2, <2>3, <2>4, <2>5, <2>6
<1>2. build_tls(m) = build_tls(n)
  <2>1. CASE n.tls = "tls"
    <3>1. m.tls = "tls"
      BY <2>1 DEF tls_mode
    <3> QED BY <2>1, <3>1 DEF build_tls
  <2>2. CASE n.tls # "tls"
    <3>1. m.tls # "tls"
      BY <2>2 DEF tls_mode
    <3> QED BY <2>2, <3>1 DEF build_tls
  <2> QED BY <2>1, <2>2
<1> QED BY <1>1, <1>2 DEF build_vmess_outbound

\* What a load reads back of what a save wrote.
LEMMA ReadBack ==
  ASSUME NEW n, NodeShape(n), NEW remark, NEW p, p = parse_outbound(build_vmess_outbound(n), remark)
  PROVE  /\ p.address = n.address /\ p.port = n.port /\ p.id = n.id /\ p.aid = n.aid
         /\ p.security = n.security /\ p.network = n.network /\ p.tls = tls_mode(n.tls)
         /\ n.network = "tcp" => p.tcp = n.tcp
         /\ n.network = "ws" => p.ws = n.ws
         /\ n.network = "h2" => p.h2 = n.h2
         /\ n.network = "quic" => p.quic = n.quic
         /\ n.network = "kcp" => p.kcp = n.kcp
         /\ n.tls = "tls" => p.tlsc = n.tlsc
         /\ NodeShape(p)
<1> DEFINE o == build_vmess_outbound(n)
           pp == parse_outbound(o, remark)
<1>1. /\ value(o, "address", "") = n.address /\ value(o, "port", 443) = n.port
      /\ value(o, "id", "") = n.id /\ value(o, "aid", 0) = n.aid
      /\ value(o, "security", "auto") = n.security /\ value(o, "network", "tcp") = n.network
      /\ value(o, "tls", "none") = tls_mode(n.tls)
  BY DEF build_vmess_outbound, value
<1>2. At(o, "settings") = build_settings(n) /\ At(o, "tlsSettings") = build_tls(n)
  BY DEF build_vmess_outbound, At
<1> HIDE DEF o
<1>3. \A net : settings_of(o, net) = IF n.network = net THEN build_settings(n) ELSE <<>>
  BY <1>1, <1>2 DEF settings_of
<1>4. tls_mode(tls_mode(n.tls)) = tls_mode(n.tls) /\ (n.tls = "tls" <=> tls_mode(n.tls) = "tls")
  BY DEF tls_mode
<1>5. tls_of(o) = IF n.tls = "tls" THEN build_tls(n) ELSE <<>>
  BY <1>1, <1>2, <1>4 DEF tls_of
<1>6. uint16(n.port) = n.port
  BY PortFits DEF NodeShape
<1>7. p = pp
  BY DEF o
<1>8. /\ p.address = n.address /\ p.port = n.port /\ p.id = n.id /\ p.aid = n.aid
      /\ p.security = n.security /\ p.network = n.network /\ p.tls = tls_mode(n.tls)
  <2>1. /\ pp.address = n.address /\ pp.port = n.port /\ pp.id = n.id /\ pp.aid = n.aid
    BY <1>1, <1>6 DEF parse_outbound
  <2>2. pp.security = n.security /\ pp.network = n.network /\ pp.tls = tls_mode(n.tls)
    BY <1>1, <1>4 DEF parse_outbound
  <2> QED BY <1>7, <2>1, <2>2
<1>9. /\ p.tcp = tcp_section(settings_of(o, "tcp")) /\ p.ws = ws_section(settings_of(o, "ws"))
      /\ p.h2 = h2_section(settings_of(o, "h2")) /\ p.quic = quic_section(settings_of(o, "quic"))
      /\ p.kcp = kcp_section(settings_of(o, "kcp")) /\ p.tlsc = tls_section(tls_of(o))
  <2>1. /\ pp.tcp = tcp_section(settings_of(o, "tcp")) /\ pp.ws = ws_section(settings_of(o, "ws"))
        /\ pp.h2 = h2_section(settings_of(o, "h2")) /\ pp.quic = quic_section(settings_of(o, "quic"))
        /\ pp.kcp = kcp_section(settings_of(o, "kcp")) /\ pp.tlsc = tls_section(tls_of(o))
    BY DEF parse_outbound
  <2> QED BY <1>7, <2>1
<1>10. ASSUME n.network = "tcp" PROVE p.tcp = n.tcp
  <2>1. p.tcp = tcp_section(n.tcp)
    BY <1>3, <1>9, <1>10 DEF build_settings
  <2> QED BY <2>1 DEF tcp_section, value, NodeShape
<1>11. ASSUME n.network = "ws" PROVE p.ws = n.ws
  <2>1. n.ws = [path |-> n.ws.path, host |-> n.ws.host]
    BY DEF NodeShape
  <2>2. CASE n.ws.host = ""
    <3>1. p.ws = ws_section([path |-> n.ws.path])
      BY <1>3, <1>9, <1>11, <2>2 DEF build_settings
    <3> QED BY <2>1, <2>2, <3>1 DEF ws_section, value
  <2>3. CASE n.ws.host # ""
    <3>1. p.ws = ws_section(n.ws)
      BY <1>3, <1>9, <1>11, <2>3 DEF build_settings
    <3> QED BY <2>1, <3>1 DEF ws_section, value
  <2> QED BY <2>2, <2>3
<1>12. ASSUME n.network = "h2" PROVE p.h2 = n.h2
  <2>1. n.h2 = [path |-> n.h2.path, hosts |-> n.h2.hosts]
    BY DEF NodeShape
  <2>2. CASE n.h2.hosts = <<>>
    <3>1. p.h2 = h2_section([path |-> n.h2.path])
      BY <1>3, <1>9, <1>12, <2>2 DEF build_settings
    <3> QED BY <2>1, <2>2, <3>1 DEF h2_section, value
  <2>3. CASE n.h2.hosts # <<>>
    <3>1. p.h2 = h2_section(n.h2)
      BY <1>3, <1>9, <1>12, <2>3 DEF build_settings
    <3> QED BY <2>1, <3>1 DEF h2_section, value
  <2> QED BY <2>2, <2>3
<1>13. ASSUME n.network = "quic" PROVE p.quic = n.quic
  <2>1. p.quic = quic_section(n.quic)
    BY <1>3, <1>9, <1>13 DEF build_settings
  <2> QED BY <2>1 DEF quic_section, value, NodeShape
<1>14. ASSUME n.network = "kcp" PROVE p.kcp = n.kcp
  <2>1. p.kcp = kcp_section(n.kcp)
    BY <1>3, <1>9, <1>14 DEF build_settings
  <2> QED BY <2>1 DEF kcp_section, value, NodeShape
<1>15. ASSUME n.tls = "tls" PROVE p.tlsc = n.tlsc
  <2>1. n.tlsc = [insecure |-> n.tlsc.insecure, sni |-> n.tlsc.sni]
    BY DEF NodeShape
  <2>2. CASE n.tlsc.sni = ""
    <3>1. p.tlsc = tls_section([insecure |-> n.tlsc.insecure])
      BY <1>5, <1>9, <1>15, <2>2 DEF build_tls
    <3> QED BY <2>1, <2>2, <3>1 DEF tls_section, value
  <2>3. CASE n.tlsc.sni # ""
    <3>1. p.tlsc = tls_section(n.tlsc)
      BY <1>5, <1>9, <1>15, <2>3 DEF build_tls
    <3> QED BY <2>1, <3>1 DEF tls_section, value
  <2> QED BY <2>2, <2>3
<1>16. NodeShape(p)
  <2>1. value(o, "port", 443) \in Int
    <3>1. n.port \in Int
      BY DEF NodeShape, IsPort
    <3> QED BY <1>1, <3>1
  <2>2. HostList(h2_section(settings_of(o, "h2")).hosts)
    <3>1. CASE n.network = "h2"
      BY <1>9, <1>12, <3>1 DEF NodeShape
    <3>2. CASE n.network # "h2"
      <4>1. h2_section(settings_of(o, "h2")).hosts = <<>>
        BY <1>3, <3>2 DEF h2_section, value
      <4> QED BY <4>1 DEF HostList
    <3> QED BY <3>1, <3>2
  <2> QED BY <1>7, <2>1, <2>2, OutboundShape
<1> QED
  BY <1>8, <1>10, <1>11, <1>12, <1>13, <1>14, <1>15, <1>16

\* A list of named hosts is read back from the text it became.
LEMMA HostsReturn ==
  ASSUME NEW hosts, HostList(hosts), hosts \notin {<<"">>, <<"a,b">>}
  PROVE  Split(Join(hosts)) = hosts
<1>1. CASE hosts = <<>>
  BY <1>1 DEF Join, Split
<1>2. CASE hosts = <<"a", "b">>
  <2>1. Join(hosts) = "a,b"
    BY <1>2 DEF Join
  <2> QED BY <1>2, <2>1 DEF Split
<1>3. CASE hosts = <<hosts[1]>>
  <2> DEFINE h == hosts[1]
  <2>1. hosts = <<h>>
    BY <1>3
  <2> HIDE DEF h
  <2>2. Join(hosts) = h
    BY <2>1 DEF Join
  <2>3. h # "" /\ h # "a,b"
    BY <2>1
  <2> QED BY <2>1, <2>2, <2>3 DEF Split
<1> QED BY <1>1, <1>2, <1>3 DEF HostList

\* What the other side reads of a link, if the validator takes the node.
LEMMA Shared ==
  ASSUME NEW n, NodeShape(n), validate(n), NEW d, d = decode(encode(n))
  PROVE  /\ d.address = n.address /\ d.port = n.port /\ d.id = n.id /\ d.aid = n.aid
         /\ d.security = n.security /\ d.network = n.network /\ d.tls = n.tls /\ d.remark = n.remark
         /\ n.network = "tcp" => d.tcp = n.tcp
         /\ n.network = "ws" => d.ws = n.ws
         /\ n.network = "h2" => d.h2.path = n.h2.path
         /\ n.network = "h2" /\ HostsNamed(n) => d.h2 = n.h2
         /\ n.network = "quic" => d.quic = n.quic
         /\ d.kcp.tuning = "default"
         /\ n.network = "kcp" => d.kcp = [tuning |-> "default", header |-> n.kcp.header]
         /\ n.tls = "tls" => d.tlsc = [insecure |-> FALSE, sni |-> n.tlsc.sni]
<1> DEFINE l == encode(n)
           dd == decode(l)
<1>1. /\ value(l, "add", "") = n.address /\ value(l, "id", "") = n.id
      /\ value(l, "scy", "auto") = n.security /\ value(l, "net", "tcp") = n.network
      /\ value(l, "ps", "") = n.remark
  BY DEF encode, value
<1>2. /\ value(l, "tls", "") = encode_tls(n) /\ l.tls = encode_tls(n)
      /\ value(l, "type", "none") = encode_type(n)
      /\ value(l, "host", "") = encode_host(n) /\ l.host = encode_host(n)
      /\ value(l, "path", "") = encode_path(n) /\ value(l, "sni", "") = encode_sni(n)
  BY DEF encode, value
<1>3. Readable(l, "port", 443) = n.port /\ Readable(l, "aid", 0) = n.aid
  <2>1. /\ value(l, "port", <<>>) = <<n.port>> /\ l.port = <<n.port>>
        /\ value(l, "aid", <<>>) = <<n.aid>> /\ l.aid = <<n.aid>>
    BY DEF encode, value
  <2> HIDE DEF l
  <2> QED BY <2>1 DEF Readable
<1> HIDE DEF l
<1>4. NetOf(l) = n.network
  BY <1>1 DEF NetOf
<1>5. uint16(n.port) = n.port
  BY PortFits DEF NodeShape
<1>6. n.tls \in {"none", "tls"} /\ n.network \in {"tcp", "ws", "h2", "quic", "kcp"} /\ ValidSettings(n)
  BY DEF validate
<1>7. decode_tls(l) = n.tls
  BY <1>2, <1>6 DEF decode_tls, encode_tls
<1>8. d = dd
  BY DEF l
<1>9. /\ d.address = n.address /\ d.port = n.port /\ d.id = n.id /\ d.aid = n.aid
      /\ d.security = n.security /\ d.network = n.network /\ d.tls = n.tls /\ d.remark = n.remark
  <2>1. /\ dd.address = n.address /\ dd.port = n.port /\ dd.id = n.id /\ dd.aid = n.aid
        /\ dd.security = n.security
    BY <1>1, <1>3, <1>5 DEF decode
  <2>2. dd.network = n.network /\ dd.tls = n.tls /\ dd.remark = n.remark
    BY <1>1, <1>4, <1>7 DEF decode
  <2> QED BY <1>8, <2>1, <2>2
<1>10. /\ d.tcp = decode_tcp(l) /\ d.ws = decode_ws(l) /\ d.h2 = decode_h2(l)
       /\ d.quic = decode_quic(l) /\ d.kcp = decode_kcp(l) /\ d.tlsc = decode_tlsc(l)
  <2>1. /\ dd.tcp = decode_tcp(l) /\ dd.ws = decode_ws(l) /\ dd.h2 = decode_h2(l)
        /\ dd.quic = decode_quic(l) /\ dd.kcp = decode_kcp(l) /\ dd.tlsc = decode_tlsc(l)
    BY DEF decode
  <2> QED BY <1>8, <2>1
<1>11. ASSUME n.network = "tcp" PROVE d.tcp = n.tcp
  <2>1. encode_type(n) = n.tcp.header
    BY <1>11 DEF encode_type
  <2> QED BY <1>2, <1>4, <1>10, <1>11, <2>1 DEF decode_tcp, NodeShape
<1>12. ASSUME n.network = "ws" PROVE d.ws = n.ws
  <2>1. encode_host(n) = n.ws.host /\ encode_path(n) = n.ws.path
    BY <1>12 DEF encode_host, encode_path
  <2>2. OrRoot(n.ws.path) = n.ws.path
    BY <1>6, <1>12 DEF OrRoot, ValidSettings
  <2>3. d.ws = [path |-> n.ws.path, host |-> n.ws.host]
    BY <1>2, <1>4, <1>10, <1>12, <2>1, <2>2 DEF decode_ws
  <2> QED BY <2>3 DEF NodeShape
<1>13. ASSUME n.network = "h2"
       PROVE  d.h2.path = n.h2.path /\ (HostsNamed(n) => d.h2 = n.h2)
  <2>1. encode_host(n) = Join(n.h2.hosts) /\ encode_path(n) = n.h2.path
    BY <1>13 DEF encode_host, encode_path
  <2>2. OrRoot(n.h2.path) = n.h2.path
    BY <1>6, <1>13 DEF OrRoot, ValidSettings
  <2>3. d.h2 = [path |-> n.h2.path, hosts |-> Split(Join(n.h2.hosts))]
    BY <1>2, <1>4, <1>10, <1>13, <2>1, <2>2 DEF decode_h2
  <2>4. HostList(n.h2.hosts) /\ n.h2 = [path |-> n.h2.path, hosts |-> n.h2.hosts]
    BY DEF NodeShape
  <2>5. ASSUME HostsNamed(n) PROVE d.h2 = n.h2
    <3>1. Split(Join(n.h2.hosts)) = n.h2.hosts
      BY <1>13, <2>4, <2>5, HostsReturn DEF HostsNamed
    <3>2. d.h2 = [path |-> n.h2.path, hosts |-> n.h2.hosts]
      BY <2>3, <3>1
    <3> QED BY <2>4, <3>2
  <2> QED BY <2>3, <2>5
<1>14. ASSUME n.network = "quic" PROVE d.quic = n.quic
  <2>1. encode_host(n) = n.quic.security /\ encode_path(n) = n.quic.key /\ encode_type(n) = n.quic.header
    BY <1>14 DEF encode_host, encode_path, encode_type
  <2>2. n.quic.security # ""
    BY <1>6, <1>14 DEF ValidSettings
  <2>3. d.quic = [security |-> n.quic.security, key |-> n.quic.key, header |-> n.quic.header]
    BY <1>2, <1>4, <1>10, <1>14, <2>1, <2>2 DEF decode_quic
  <2> QED BY <2>3 DEF NodeShape
<1>15. d.kcp.tuning = "default"
  BY <1>10 DEF decode_kcp
<1>16. ASSUME n.network = "kcp" PROVE d.kcp = [tuning |-> "default", header |-> n.kcp.header]
  <2>1. encode_type(n) = n.kcp.header
    BY <1>16 DEF encode_type
  <2> QED BY <1>2, <1>4, <1>10, <1>16, <2>1 DEF decode_kcp
<1>17. ASSUME n.tls = "tls" PROVE d.tlsc = [insecure |-> FALSE, sni |-> n.tlsc.sni]
  BY <1>2, <1>7, <1>10, <1>17 DEF decode_tlsc, encode_sni
<1> QED
  BY <1>9, <1>11, <1>12, <1>13, <1>14, <1>15, <1>16, <1>17

\* The other side takes the link.
LEMMA SharedTaken ==
  ASSUME NEW n, NodeShape(n), validate(n)
  PROVE  validate(decode(encode(n)))
<1> DEFINE d == decode(encode(n))
<1>1. /\ d.address = n.address /\ d.port = n.port /\ d.id = n.id /\ d.aid = n.aid
      /\ d.security = n.security /\ d.network = n.network /\ d.tls = n.tls /\ d.remark = n.remark
      /\ n.network = "tcp" => d.tcp = n.tcp
      /\ n.network = "ws" => d.ws = n.ws
      /\ n.network = "h2" => d.h2.path = n.h2.path
      /\ n.network = "quic" => d.quic = n.quic
      /\ d.kcp.tuning = "default"
  <2>1. d = decode(encode(n))
    OBVIOUS
  <2> HIDE DEF d
  <2> QED BY <2>1, Shared
<1> HIDE DEF d
<1>2. ValidSettings(d)
  BY <1>1 DEF ValidSettings, validate
<1>3. validate(d)
  BY <1>1, <1>2 DEF validate
<1> QED BY <1>3 DEF d

(***************************************************************************)
(* Whatever is written, read, shared and edited, the node has its fields   *)
(* and, if the validator saw it, what v2ray needs of them.                 *)
(***************************************************************************)
Fit(n) ==
  /\ n.port # 0 /\ n.id = "uuid" /\ n.network \in {"tcp", "ws", "h2", "quic", "kcp"}
  /\ n.network = "ws" => n.ws.path # ""
  /\ n.network = "h2" => n.h2.path # ""

FormatInv == NodeShape(node) /\ (source = "api" => Fit(node))

\* The validator looks at all of that.
LEMMA ValidIsFit ==
  ASSUME NEW n, validate(n)
  PROVE  Fit(n)
BY DEF validate, ValidSettings, Fit

\* What is posted, edited or imported is stored only if the validator takes it.
LEMMA AcceptKeeps ==
  ASSUME FormatInv, NEW n, NodeShape(n), Accept(n)
  PROVE  FormatInv'
<1>1. CASE validate(n)
  <2>1. node' = n /\ Fit(n)
    BY <1>1, ValidIsFit DEF Accept
  <2> QED BY <2>1 DEF FormatInv
<1>2. CASE ~validate(n)
  <2>1. node' = node /\ source' = source
    BY <1>2 DEF Accept, formatVars
  <2> QED BY <2>1 DEF FormatInv
<1> QED BY <1>1, <1>2

\* What is found in a file is a node.
LEMMA FoundShape == \A n \in Found : NodeShape(n)
BY OutboundShape, ValuesAssumption DEF Found

\* So is the first one.
LEMMA FormatInitInv ==
  ASSUME FormatInit
  PROVE  FormatInv
<1>1. NodeShape(node)
  BY FoundShape DEF FormatInit
<1> QED BY <1>1 DEF FormatInv, FormatInit

\* Every operation keeps it.
LEMMA FormatStep ==
  ASSUME FormatInv, [FormatNext]_formatVars
  PROVE  FormatInv'
<1>1. NodeShape(node)
  BY DEF FormatInv
<1>2. CASE Post
  <2>1. \A n \in Requested : NodeShape(n)
    BY RequestShape, ValuesAssumption DEF Requested
  <2> QED BY <1>2, <2>1, AcceptKeeps DEF Post
<1>3. CASE EditFromList
  <2> DEFINE n == json_to_node(node_to_json(node, TRUE))
  <2>1. NodeShape(n) /\ Accept(n)
    BY <1>1, <1>3, WrittenShape DEF EditFromList
  <2> HIDE DEF n
  <2> QED BY <2>1, AcceptKeeps
<1>4. CASE EditFromPage
  <2> DEFINE n == json_to_node(node_to_json(node, FALSE))
  <2>1. NodeShape(n) /\ Accept(n)
    BY <1>1, <1>4, WrittenShape DEF EditFromPage
  <2> HIDE DEF n
  <2> QED BY <2>1, AcceptKeeps
<1>5. CASE FromLink
  <2>1. \A n \in Linked : NodeShape(n)
    BY LinkShape, ValuesAssumption DEF Linked
  <2> QED BY <1>5, <2>1, AcceptKeeps DEF FromLink
<1>6. CASE ShareLink
  <2> DEFINE n == decode(encode(node))
  <2>1. Readable(encode(node), "port", 443) = node.port
    <3> DEFINE l == encode(node)
    <3>1. value(l, "port", <<>>) = <<node.port>> /\ l.port = <<node.port>>
      BY DEF encode, value
    <3> HIDE DEF l
    <3>2. Readable(l, "port", 443) = node.port
      BY <3>1 DEF Readable
    <3> QED BY <3>2 DEF l
  <2>2. node.port \in Int
    BY <1>1 DEF NodeShape, IsPort
  <2>3. NodeShape(n) /\ Accept(n)
    BY <1>6, <2>1, <2>2, LinkShape DEF ShareLink
  <2> HIDE DEF n
  <2> QED BY <2>3, AcceptKeeps
<1>7. CASE SaveAndReload
  <2> DEFINE p == parse_outbound(build_vmess_outbound(node), node.remark)
  <2>1. node' = p /\ source' = source
    BY <1>7 DEF SaveAndReload
  <2> HIDE DEF p
  <2>2. /\ NodeShape(p) /\ p.port = node.port /\ p.id = node.id /\ p.network = node.network
        /\ node.network = "ws" => p.ws = node.ws
        /\ node.network = "h2" => p.h2 = node.h2
    BY <1>1, ReadBack DEF p
  <2>3. Fit(node) => Fit(p)
    BY <2>2 DEF Fit
  <2> QED BY <2>1, <2>2, <2>3 DEF FormatInv
<1>8. CASE LoadForeign
  <2>1. source' = "file" /\ NodeShape(node')
    BY <1>8, FoundShape DEF LoadForeign
  <2> QED BY <2>1 DEF FormatInv
<1>9. CASE UNCHANGED formatVars
  <2>1. node' = node /\ source' = source
    BY <1>9 DEF formatVars
  <2> QED BY <2>1 DEF FormatInv
<1> QED
  BY <1>2, <1>3, <1>4, <1>5, <1>6, <1>7, <1>8, <1>9 DEF FormatNext

\* A node that came through the API can be handed to v2ray, however often it was
\* saved, shared and edited since (vm_node_validator.cpp:4-128, vm_node_manager.cpp:83-150).
THEOREM NodesAreRunnable == FormatSpec => []Runnable
<1>1. FormatInv => Runnable
  <2> SUFFICES ASSUME FormatInv, source = "api"
               PROVE  /\ node.port # 0
                      /\ node.id \notin {"", "bad", "***", "1234****cdef"}
                      /\ node.network \in {"tcp", "ws", "h2", "quic", "kcp"}
                      /\ node.network \in {"ws", "h2"} => node[node.network].path # ""
    BY DEF Runnable
  <2>1. Fit(node)
    BY DEF FormatInv
  <2> QED BY <2>1 DEF Fit
<1>2. FormatInit => FormatInv
  BY FormatInitInv
<1>3. FormatInv /\ [FormatNext]_formatVars => FormatInv'
  BY FormatStep
<1> QED BY <1>1, <1>2, <1>3, PTL DEF FormatSpec

\* The link of a node the validator takes is one it takes on the other side
\* (vm_link_codec.cpp:40-175).
THEOREM SharedIsTaken == FormatSpec => []SharedIsAccepted
<1>1. FormatInv => SharedIsAccepted
  BY SharedTaken DEF FormatInv, SharedIsAccepted
<1>2. FormatInit => FormatInv
  BY FormatInitInv
<1>3. FormatInv /\ [FormatNext]_formatVars => FormatInv'
  BY FormatStep
<1> QED BY <1>1, <1>2, <1>3, PTL DEF FormatSpec

\* What a save writes of a node is what the next save writes of the one that was
\* read back (vm_config_builder.cpp:86-180, vm_node_manager.cpp:83-150).
THEOREM ReloadKeeps == FormatSpec => ReloadKeepsWire
<1>1. FormatInv /\ [FormatNext]_formatVars
        => [SaveAndReload => build_vmess_outbound(node') = build_vmess_outbound(node)]_formatVars
  <2> SUFFICES ASSUME FormatInv, SaveAndReload
               PROVE  build_vmess_outbound(node') = build_vmess_outbound(node)
    OBVIOUS
  <2> DEFINE p == parse_outbound(build_vmess_outbound(node), node.remark)
  <2>1. node' = p /\ NodeShape(node)
    BY DEF SaveAndReload, FormatInv
  <2> HIDE DEF p
  <2>2. /\ p.address = node.address /\ p.port = node.port /\ p.id = node.id /\ p.aid = node.aid
        /\ p.security = node.security /\ p.network = node.network /\ p.tls = tls_mode(node.tls)
        /\ node.network = "tcp" => p.tcp = node.tcp
        /\ node.network = "ws" => p.ws = node.ws
        /\ node.network = "h2" => p.h2 = node.h2
        /\ node.network = "quic" => p.quic = node.quic
        /\ node.network = "kcp" => p.kcp = node.kcp
        /\ node.tls = "tls" => p.tlsc = node.tlsc
    BY <2>1, ReadBack DEF p
  <2>3. tls_mode(p.tls) = tls_mode(node.tls)
    BY <2>2 DEF tls_mode
  <2>4. build_vmess_outbound(p) = build_vmess_outbound(node)
    BY <2>2, <2>3, WireDepends
  <2> QED BY <2>1, <2>4
<1>2. FormatInit => FormatInv
  BY FormatInitInv
<1>3. FormatInv /\ [FormatNext]_formatVars => FormatInv'
  BY FormatStep
<1> QED BY <1>1, <1>2, <1>3, PTL DEF FormatSpec, ReloadKeepsWire

\* A shared node is the same to v2ray on the other side, apart from what a link
\* has no field for (vm_link_codec.cpp:91-123, 138-170).
THEOREM LinkKeeps == FormatSpec => LinkKeepsWire
<1>1. FormatInv /\ [FormatNext]_formatVars
        => [ShareLink /\ validate(node) /\ HostsNamed(node) =>
              build_vmess_outbound(node')
              = build_vmess_outbound([node EXCEPT !.tlsc.insecure = FALSE,
                                                  !.kcp.tuning = "default"])]_formatVars
  <2> SUFFICES ASSUME FormatInv, ShareLink, validate(node), HostsNamed(node)
               PROVE  build_vmess_outbound(node')
                      = build_vmess_outbound([node EXCEPT !.tlsc.insecure = FALSE,
                                                          !.kcp.tuning = "default"])
    OBVIOUS
  <2> DEFINE d == decode(encode(node))
             m == [node EXCEPT !.tlsc.insecure = FALSE, !.kcp.tuning = "default"]
  <2>1. NodeShape(node)
    BY DEF FormatInv
  <2>2. validate(d)
    BY <2>1, SharedTaken
  <2>3. node' = d
    BY <2>2 DEF ShareLink, Accept
  <2>4. /\ m.address = node.address /\ m.port = node.port /\ m.id = node.id /\ m.aid = node.aid
        /\ m.security = node.security /\ m.network = node.network /\ m.tls = node.tls
        /\ m.tcp = node.tcp /\ m.ws = node.ws /\ m.h2 = node.h2 /\ m.quic = node.quic
        /\ m.kcp = [tuning |-> "default", header |-> node.kcp.header]
        /\ m.tlsc = [insecure |-> FALSE, sni |-> node.tlsc.sni]
    BY <2>1 DEF NodeShape
  <2> HIDE DEF d, m
  <2>5. /\ d.address = node.address /\ d.port = node.port /\ d.id = node.id /\ d.aid = node.aid
        /\ d.security = node.security /\ d.network = node.network /\ d.tls = node.tls
        /\ node.network = "tcp" => d.tcp = node.tcp
        /\ node.network = "ws" => d.ws = node.ws
        /\ node.network = "h2" => d.h2 = node.h2
        /\ node.network = "quic" => d.quic = node.quic
        /\ node.network = "kcp" => d.kcp = [tuning |-> "default", header |-> node.kcp.header]
        /\ node.tls = "tls" => d.tlsc = [insecure |-> FALSE, sni |-> node.tlsc.sni]
    <3>1. d = decode(encode(node))
      BY DEF d
    <3> QED BY <2>1, <3>1, Shared
  <2>6. build_vmess_outbound(d) = build_vmess_outbound(m)
    BY <2>4, <2>5, WireDepends
  <2> QED BY <2>3, <2>6 DEF m
<1>2. FormatInit => FormatInv
  BY FormatInitInv
<1>3. FormatInv /\ [FormatNext]_formatVars => FormatInv'
  BY FormatStep
<1> QED BY <1>1, <1>2, <1>3, PTL DEF FormatSpec, LinkKeepsWire
=============================================================================
