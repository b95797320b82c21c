------------------------- MODULE AddonLifecycle_proofs -------------------------
(* What an addon's install, repair and removal keep, for any addons, locations,  *)
(* versions, commands, edits and deaths.                                         *)
EXTENDS AddonLifecycle, FiniteSetTheorems, TLAPS

(* The command that runs: where it is tells what its fields hold.               *)
Removing == {"mark", "unhook", "disallow", "disown", "files", "delete", "prune", "unmark"}
Installing == {"preflight", "collide", "place", "hook", "own", "verify", "snapshot", "migrate", "note", "provide", "state"}
Fields == {"pc", "job", "asked", "todo", "at", "left", "blocked", "target", "seen"}
CmdOK ==
  /\ Fields \subseteq DOMAIN cmd /\ cmd.todo \subseteq Addon /\ cmd.asked \subseteq Addon
  /\ cmd.seen \in [Addon -> Record]
  /\ cmd.pc \in {"mend", "look"} => cmd.job = "repair"
  /\ cmd.pc \in {"copy", "hash"} => cmd.job \in {"install", "repair"}
  /\ cmd.pc \in Installing => cmd.job = "install"
  /\ cmd.job = "repair" => cmd.asked = {} /\ cmd.pc \in {"mend", "look", "copy", "hash"}
  /\ cmd.pc \in Removing \cup {"look", "copy", "hash"} => cmd.at \in Addon
  /\ cmd.pc \in {"disown", "files", "delete"} => cmd.left \subseteq Location
  /\ cmd.pc \in {"delete", "copy", "hash"} => cmd.target \in Location
  /\ cmd.pc \in {"copy", "hash"} => cmd.target \in Owned(cmd.at)

(* A removed addon has no record, and the install-state lists it only until the *)
(* removal prunes it.                                                           *)
GoneInv ==
  /\ gone \subseteq Addon
  /\ \A a \in gone : \/ <<a, "listed">> \in torn
                     \/ sidecar[a] = None /\ (listed[a] = None \/ (At("prune") /\ cmd.at = a))

(* A record names the addon's own locations, with contents of the addon or with *)
(* such of the user's as came too late to be told from them. No addon's file is *)
(* at a place that is not its own.                                              *)
Fits(a, record) ==
  \A l \in Location : record[l] = Nothing \/ (l \in Owned(a) /\ (record[l].of \in {a, "absent"} \/ record[l] \in late))
RecordsFit == \A a \in Addon : /\ sidecar[a] # None => Fits(a, sidecar[a])
                               /\ listed[a] # None => Fits(a, listed[a])
                               /\ Fits(a, cmd.seen[a])
FilesFit == \A l \in Location : \/ file[l] = Nothing \/ file[l].of = "user"
                                \/ file[l].of \in Addon /\ l \in Owned(file[l].of)
LateUsers == \A c \in late : c.of = "user"

(* What the installer is about to remove, to replace or to record is the user's *)
(* only if he came late.                                                        *)
Windows ==
  /\ cmd.pc \in {"delete", "copy", "hash"} => file[cmd.target].of # "user" \/ file[cmd.target] \in late
  /\ At("hash") => file[cmd.target].of \notin Addon \ {cmd.at}
  /\ cmd.pc \in Recording => \A a \in cmd.asked : file[Skill[a]].of # "user" \/ file[Skill[a]] \in late

(* What an install has found of an addon's is there still, but for what it has  *)
(* not come to.                                                                 *)
Coming(a, l) == <<a, l>> \in cmd.left \/ (cmd.pc \in {"copy", "hash"} /\ cmd.at = a /\ cmd.target = l)
FoundThere ==
  cmd.pc \in {"provide", "copy", "hash"} /\ cmd.job = "install" =>
    /\ cmd.todo \subseteq cmd.asked
    /\ \A x \in cmd.left : x \in cmd.asked \X Location /\ x[2] \in Extra[x[1]]
    /\ \A a \in cmd.asked : \A l \in Owned(a) : Coming(a, l) \/ file[l].of # a \/ cmd.seen[a][l] = file[l]

(* A repair goes over records that stay; it differs from one only in what it    *)
(* has placed.                                                                  *)
Mending ==
  /\ cmd.job = "repair" => cmd.todo \subseteq Registered
  /\ cmd.pc \in {"look", "copy", "hash"} /\ cmd.job = "repair" =>
       /\ cmd.at \in Registered /\ cmd.left \subseteq Recorded(cmd.at)
       /\ \A l \in Location \ orphan : cmd.seen[cmd.at][l] = sidecar[cmd.at][l]
  /\ At("hash") => cmd.target \in orphan

(* What is no orphan is in the record of its addon, if it has one: its sidecar  *)
(* or, before the migration, its entry in the install-state.                    *)
RecordOf(a) == IF sidecar[a] = None THEN listed[a] ELSE sidecar[a]
FilesRecorded == \A l \in Location \ orphan, a \in Addon :
                   file[l].of = a /\ RecordOf(a) # None => RecordOf(a)[l] = file[l]

(* A removal leaves behind it, step by step, less of its addon.                 *)
Removed ==
  /\ cmd.pc \in {"disallow", "disown", "files", "delete", "prune"} => cmd.at \notin hook
  /\ cmd.pc \in {"unhook", "disallow", "disown", "files", "delete"} => sidecar[cmd.at] # None
  /\ cmd.pc \in {"disown", "files", "delete"} =>
       \A l \in Location \ orphan : l \in cmd.left \/ (At("delete") /\ l = cmd.target) \/ file[l].of # cmd.at
  /\ At("prune") => sidecar[cmd.at] = None /\ \A l \in Location \ orphan : file[l].of # cmd.at

(* The permission is in the settings once for the user if he allowed it, and    *)
(* once for the installs if the ownership file says that one added it.          *)
Times(a) == IF a \in users THEN 1 ELSE 0
Permitted(a) ==
  IF At("own") /\ a \in cmd.todo THEN allow[a] = 1 /\ a \notin users /\ own[a] = "none"
  ELSE IF At("disown") /\ cmd.at = a THEN allow[a] = Times(a)
  ELSE /\ allow[a] = Times(a) + (IF own[a] = "added" THEN 1 ELSE 0)
       /\ own[a] = "found" => a \in users
       /\ At("own") /\ a \in cmd.asked => allow[a] # 0
       /\ cmd.pc \in {"files", "delete"} /\ cmd.at = a => own[a] = "none"
PermissionsCounted ==
  \A a \in Addon : /\ allow[a] <= 1 + Times(a)
                  /\ \/ <<a, "allowed">> \in torn
                     \/ Permitted(a)

AddonInv == /\ TypeOK /\ CmdOK /\ GoneInv /\ RecordsFit /\ FilesFit /\ LateUsers /\ Windows
            /\ FoundThere /\ Mending /\ FilesRecorded /\ Removed /\ PermissionsCounted

LEMMA InitAddon == Init => AddonInv
<1> SUFFICES ASSUME Init PROVE AddonInv
  OBVIOUS
<1>1. Legacy \subseteq Addon /\ \A a \in Addon : Skill[a] \in Location
  BY AddonAssumption DEF Location
<1>2. ASSUME NEW l \in Location
      PROVE  \/ file[l] = Nothing
             \/ \E a \in Legacy : l = Skill[a] /\ file[l] = [of |-> a, v |-> 1]
  BY <1>2 DEF Init
<1>3. \A a \in Addon : sidecar[a] = None /\ (listed[a] = None \/ a \in Legacy)
  BY DEF Init
<1>4. \A a \in Legacy : listed[a] = [Empty EXCEPT ![Skill[a]] = [of |-> a, v |-> 1]]
  BY <1>1 DEF Init
<1>5. \A a \in Legacy : \A l \in Location : listed[a][l] = IF l = Skill[a] THEN [of |-> a, v |-> 1] ELSE Nothing
  BY <1>1, <1>4 DEF Empty
<1>6. TypeOK
  BY <1>1, <1>2, AddonAssumption DEF Init, TypeOK, Content, Nothing, Record, Empty, Idle
<1>7. CmdOK
  BY DEF Init, CmdOK, Fields, At, Idle, Removing, Installing, Empty, Record, Content, Nothing
<1>8. RecordsFit
  <2>1. \A a \in Legacy : Fits(a, listed[a])
    <3> SUFFICES ASSUME NEW a \in Legacy, NEW l \in Location
                 PROVE  listed[a][l] = Nothing \/ (l \in Owned(a) /\ listed[a][l].of = a)
      BY DEF Fits
    <3>1. listed[a][l] = IF l = Skill[a] THEN [of |-> a, v |-> 1] ELSE Nothing
      BY <1>5
    <3>2. QED BY <3>1 DEF Owned
  <2>2. \A a \in Addon : Fits(a, cmd.seen[a])
    BY DEF Init, Idle, Empty, Fits
  <2>3. QED BY <1>1, <1>3, <2>1, <2>2 DEF RecordsFit
<1>9. FilesFit
  <2> SUFFICES ASSUME NEW l \in Location, file[l] # Nothing PROVE file[l].of \in Addon /\ l \in Owned(file[l].of)
    BY DEF FilesFit
  <2>1. PICK a \in Legacy : l = Skill[a] /\ file[l] = [of |-> a, v |-> 1]
    BY <1>2
  <2>2. file[l].of = a
    BY <2>1
  <2>3. QED BY <1>1, <2>1, <2>2 DEF Owned
<1>10. FilesRecorded
  <2> SUFFICES ASSUME NEW l \in Location, NEW a \in Addon, file[l].of = a
               PROVE  RecordOf(a)[l] = file[l]
    BY DEF FilesRecorded
  <2>1. Nothing.of # a
    BY AddonAssumption DEF Nothing
  <2>2. a \in Legacy /\ l = Skill[a] /\ file[l] = [of |-> a, v |-> 1]
    <3>1. PICK b \in Legacy : l = Skill[b] /\ file[l] = [of |-> b, v |-> 1]
      BY <1>2, <2>1
    <3>2. b = a
      BY <3>1
    <3>3. QED BY <3>1, <3>2
  <2>3. QED BY <1>3, <1>5, <2>2 DEF RecordOf
<1>11. GoneInv /\ LateUsers /\ Windows /\ FoundThere /\ Mending /\ Removed
  BY DEF Init, GoneInv, LateUsers, Windows, FoundThere, Mending, Removed, At, Idle, Recording
<1>12. PermissionsCounted
  BY DEF Init, PermissionsCounted, Permitted, Times, At, Idle
<1>13. QED BY <1>6, <1>7, <1>8, <1>9, <1>10, <1>11, <1>12 DEF AddonInv

(* The contents and the places.                                                *)
LEMMA Contents ==
  /\ Nothing \in Content /\ Absent \in Content /\ Vanished \in Content
  /\ TypeOK => \A a \in Addon : Current(a) \in Content
  /\ Nothing.of = "none" /\ Absent.of = "absent" /\ Vanished.of = "absent" /\ \A a \in Addon : Current(a).of = a
  /\ "none" \notin Addon /\ "absent" \notin Addon /\ "user" \notin Addon
BY AddonAssumption DEF Nothing, Absent, Vanished, Content, Current, TypeOK

LEMMA Places ==
  /\ \A a \in Addon : Skill[a] \in Location /\ Owned(a) \subseteq Location
  /\ \A a, b \in Addon : Skill[a] \in Owned(b) => a = b
BY AddonAssumption DEF Location, Owned

LEMMA Records ==
  /\ None \notin Record /\ Empty \in Record
  /\ TypeOK => \A l \in Location : file[l] \in Content /\ Found(l, Absent) \in Content /\ Found(l, Vanished) \in Content
  /\ TypeOK => \A a \in Addon : sidecar[a] # None => sidecar[a] \in Record
BY AddonAssumption, Contents DEF Record, Empty, Found, TypeOK

(* What the steps with several ways to go do.                                  *)
LEMMA AskedGoes ==
  ASSUME TypeOK, CmdOK, Asked
  PROVE  /\ At("asked") /\ Fields \subseteq DOMAIN cmd' /\ UNCHANGED <<disk, settings, kept, version, ghosts, edits>>
         /\ cmd'.pc \in {"idle", "mark", "collide"} /\ cmd'.todo \subseteq Addon /\ cmd'.asked \subseteq Addon
         /\ cmd'.seen \in [Addon -> Record] /\ cmd'.job \in {"none", "remove", "install"}
         /\ cmd'.seen \in {cmd.seen, Idle.seen}
         /\ cmd'.pc = "collide" => cmd'.job = "install"
         /\ cmd'.pc = "mark" => cmd'.at \in Addon
<1>1. CASE cmd.job = "install" /\ Goto("collide")
  BY <1>1 DEF Asked, CmdOK, Fields, At, Goto, bounds
<1>2. CASE End
  BY <1>2, Records DEF Asked, At, End, Idle, Fields, bounds
<1>3. CASE ~(cmd.job = "install" /\ Goto("collide")) /\ ~End
  <2>1. PICK going \in SUBSET Addon : \E a \in going :
          cmd' = [cmd EXCEPT !.todo = going \ {a}, !.asked = {}, !.job = "remove", !.at = a, !.pc = "mark"]
    BY <1>3 DEF Asked, At, CmdOK, Registered
  <2>2. UNCHANGED <<disk, settings, kept, version, ghosts, bounds>> /\ At("asked")
    BY DEF Asked
  <2>3. QED BY <2>1, <2>2 DEF CmdOK, Fields, At, bounds
<1>4. QED BY <1>1, <1>2, <1>3

LEMMA ForgetGoes ==
  ASSUME CmdOK, Forget
  PROVE  /\ At("files") /\ cmd.left = {} /\ cmd.at \in Addon
         /\ UNCHANGED <<file, listed, marker, settings, kept, version, users, orphan, torn, late, bounds>>
         /\ \/ Leave /\ UNCHANGED <<sidecar, gone>>
            \/ sidecar' = [sidecar EXCEPT ![cmd.at] = None] /\ gone' = gone \cup {cmd.at} /\ Goto("prune")
BY DEF Forget, CmdOK, Removing, At

LEMMA MendGoes ==
  ASSUME Mend
  PROVE  /\ At("mend") /\ UNCHANGED <<disk, settings, kept, version, ghosts, bounds>>
         /\ \/ End
            \/ \E a \in cmd.todo : cmd' = [cmd EXCEPT !.todo = @ \ {a}, !.at = a, !.left = Recorded(a),
                                               !.seen = [@ EXCEPT ![a] = sidecar[a]], !.pc = "look"]
BY DEF Mend

LEMMA CopyGoes ==
  ASSUME TypeOK, CmdOK, Copy
  PROVE  /\ At("copy") /\ UNCHANGED <<sidecar, listed, marker, settings, kept, version, users, gone, torn, late, bounds>>
         /\ cmd.at \in Addon /\ cmd.target \in Location /\ cmd.target \in Owned(cmd.at)
         /\ \/ /\ cmd.job = "repair" /\ cmd' = [cmd EXCEPT !.target = None, !.pc = "look"] /\ UNCHANGED <<file, orphan>>
            \/ /\ file' = [file EXCEPT ![cmd.target] = Current(cmd.at)]
               /\ orphan' = orphan \cup {cmd.target} /\ Goto("hash")
BY DEF Copy, CmdOK, At

LEMMA WriteGoes ==
  ASSUME TypeOK, CmdOK, WriteSidecar
  PROVE  /\ At("provide") /\ cmd.left = {}
         /\ UNCHANGED <<file, listed, marker, settings, kept, version, users, torn, late, bounds>>
         /\ \/ cmd.todo = {} /\ Goto("state") /\ UNCHANGED <<sidecar, gone, orphan>>
            \/ \E a \in cmd.todo : /\ a \in Addon /\ cmd.seen[a] \in Record
                                   /\ sidecar' = [sidecar EXCEPT ![a] = cmd.seen[a]]
                                   /\ orphan' = {l \in orphan : file[l] # cmd.seen[a][l]}
                                   /\ gone' = gone \ {a} /\ cmd' = [cmd EXCEPT !.todo = @ \ {a}]
BY DEF WriteSidecar, Enter, CmdOK

(* Where the command is, and types.                                           *)
LEMMA CommandCmd ==
  ASSUME TypeOK, CmdOK, Command
  PROVE  CmdOK'
<1>1. PICK job \in {"install", "remove"}, asked \in SUBSET Addon : Begin(job, asked) BY DEF Command
<1>2. QED BY <1>1, Records DEF TypeOK, CmdOK, Fields, Removing, Installing, At, Begin, Idle

LEMMA ForgetCmd ==
  ASSUME TypeOK, CmdOK, Forget
  PROVE  CmdOK'
<1>1. CASE Leave BY <1>1 DEF Forget, CmdOK, Fields, Removing, Installing, At, Leave
<1>2. CASE Goto("prune") BY <1>2 DEF Forget, CmdOK, Fields, Removing, Installing, At, Goto
<1>3. QED BY <1>1, <1>2 DEF Forget

LEMMA MendCmd ==
  ASSUME TypeOK, CmdOK, Mend, Mending
  PROVE  CmdOK'
<1>1. CASE End
  BY <1>1, Records DEF CmdOK, Fields, Removing, Installing, End, Idle
<1>2. CASE ~End
  <2>1. PICK a \in cmd.todo : cmd' = [cmd EXCEPT !.todo = @ \ {a}, !.at = a, !.left = Recorded(a),
                                               !.seen = [@ EXCEPT ![a] = sidecar[a]], !.pc = "look"]
    BY <1>2, MendGoes
  <2>2. a \in Addon /\ sidecar[a] \in Record
    BY <2>1, MendGoes, Records DEF CmdOK, Mending, At, Registered
  <2>3. [cmd.seen EXCEPT ![a] = sidecar[a]] \in [Addon -> Record]
    BY <2>2 DEF CmdOK
  <2>4. QED BY <2>1, <2>2, <2>3, MendGoes DEF CmdOK, Fields, Removing, Installing, At
<1>3. QED BY <1>1, <1>2

LEMMA HashGoes ==
  ASSUME TypeOK, CmdOK, Hash
  PROVE  /\ At("hash") /\ UNCHANGED <<disk, settings, kept, version, ghosts, bounds>>
         /\ cmd.at \in Addon /\ cmd.target \in Location /\ cmd.target \in Owned(cmd.at)
         /\ cmd'.seen = [cmd.seen EXCEPT ![cmd.at] = [cmd.seen[cmd.at] EXCEPT ![cmd.target] = Found(cmd.target, Vanished)]]
         /\ cmd'.seen \in [Addon -> Record]
         /\ cmd'.pc = IF cmd.job = "repair" THEN "look" ELSE "provide"
         /\ cmd'.job = cmd.job /\ cmd'.asked = cmd.asked /\ cmd'.todo = cmd.todo /\ cmd'.at = cmd.at /\ cmd'.left = cmd.left
         /\ Fields \subseteq DOMAIN cmd'
<1> DEFINE record == [cmd.seen[cmd.at] EXCEPT ![cmd.target] = Found(cmd.target, Vanished)]
<1>1. /\ At("hash") /\ UNCHANGED <<disk, settings, kept, version, ghosts, bounds>>
      /\ cmd' = [cmd EXCEPT !.seen = [cmd.seen EXCEPT ![cmd.at] = record], !.target = None,
                            !.pc = IF cmd.job = "repair" THEN "look" ELSE "provide"]
  BY DEF Hash
<1>2. cmd.at \in Addon /\ cmd.target \in Location /\ cmd.target \in Owned(cmd.at)
  BY <1>1 DEF CmdOK, At
<1>3. record \in Record
  BY <1>2, Records DEF CmdOK, Record
<1>4. /\ cmd'.seen = [cmd.seen EXCEPT ![cmd.at] = record]
      /\ cmd'.pc = IF cmd.job = "repair" THEN "look" ELSE "provide"
      /\ Fields \subseteq DOMAIN cmd'
      /\ cmd'.job = cmd.job /\ cmd'.asked = cmd.asked /\ cmd'.todo = cmd.todo /\ cmd'.at = cmd.at /\ cmd'.left = cmd.left
  <2> HIDE DEF record
  <2>1. QED BY <1>1 DEF CmdOK, Fields
<1>5. cmd'.seen \in [Addon -> Record]
  <2> HIDE DEF record
  <2>1. QED BY <1>2, <1>3, <1>4 DEF CmdOK
<1>6. QED BY <1>1, <1>2, <1>4, <1>5

LEMMA ProvideGoes ==
  ASSUME CmdOK, FoundThere, Provide
  PROVE  /\ At("provide") /\ cmd.job = "install" /\ UNCHANGED <<disk, settings, kept, version, ghosts, bounds>>
         /\ \/ End
            \/ \E x \in cmd.left :
                 /\ x \in cmd.asked \X Location /\ x[1] \in Addon /\ x[2] \in Location /\ x[2] \in Extra[x[1]]
                 /\ x[2] \in Owned(x[1]) /\ ExtraFree(x[1], x[2])
                 /\ cmd' = [cmd EXCEPT !.left = @ \ {x}, !.at = x[1], !.target = x[2], !.pc = "copy"]
BY DEF Provide, FoundThere, CmdOK, At, Installing, Owned

LEMMA NoteGoes ==
  ASSUME TypeOK, CmdOK, Note
  PROVE  /\ At("note") /\ UNCHANGED <<disk, settings, kept, version, ghosts, bounds>> /\ Fields \subseteq DOMAIN cmd'
         /\ cmd'.pc = "provide" /\ cmd'.todo = cmd.asked /\ cmd'.asked = cmd.asked /\ cmd'.job = "install"
         /\ cmd'.left = {x \in cmd.asked \X Location : x[2] \in Extra[x[1]]}
         /\ cmd'.seen \in [Addon -> Record]
         /\ \A a \in Addon : \A l \in Location :
              cmd'.seen[a][l] = IF a \in cmd.asked /\ l = Skill[a] THEN Found(l, Absent) ELSE Nothing
<1>1. cmd'.seen = [a \in Addon |-> IF a \in cmd.asked THEN [Empty EXCEPT ![Skill[a]] = Found(Skill[a], Absent)] ELSE Empty]
  BY DEF Note, CmdOK, Fields
<1>2. \A a \in Addon : [Empty EXCEPT ![Skill[a]] = Found(Skill[a], Absent)] \in Record
  BY Records, Places DEF Record
<1>3. cmd'.seen \in [Addon -> Record]
  BY <1>1, <1>2, Records
<1>4. \A a \in Addon : \A l \in Location :
        cmd'.seen[a][l] = IF a \in cmd.asked /\ l = Skill[a] THEN Found(l, Absent) ELSE Nothing
  BY <1>1, Places DEF Empty
<1>5. QED BY <1>3, <1>4 DEF Note, CmdOK, Fields, At, Installing

LEMMA ResumeGoes ==
  ASSUME CmdOK, Resume
  PROVE  /\ At("resume") /\ UNCHANGED <<disk, settings, kept, version, ghosts, bounds>>
         /\ \/ \E a \in cmd.todo : a \in Addon /\ cmd' = [cmd EXCEPT !.todo = @ \ {a}, !.at = a, !.pc = "mark"]
            \/ Goto("asked")
BY DEF Resume, CmdOK, Goto

LEMMA ResumeCmd ==
  ASSUME CmdOK, Resume
  PROVE  CmdOK'
<1>1. CASE Goto("asked")
  BY <1>1, ResumeGoes DEF CmdOK, Fields, Removing, Installing, At, Goto
<1>2. CASE ~Goto("asked")
  <2>1. PICK a \in cmd.todo : a \in Addon /\ cmd' = [cmd EXCEPT !.todo = @ \ {a}, !.at = a, !.pc = "mark"]
    BY <1>2, ResumeGoes
  <2>2. QED BY <2>1, ResumeGoes DEF CmdOK, Fields, Removing, Installing, At
<1>3. QED BY <1>1, <1>2

LEMMA ProvideCmd ==
  ASSUME CmdOK, FoundThere, Provide
  PROVE  CmdOK'
<1>1. CASE End
  BY <1>1, Records DEF CmdOK, Fields, Removing, Installing, End, Idle
<1>2. CASE ~End
  <2>1. PICK x \in cmd.left :
                 /\ x[1] \in Addon /\ x[2] \in Location /\ x[2] \in Owned(x[1])
                 /\ cmd' = [cmd EXCEPT !.left = @ \ {x}, !.at = x[1], !.target = x[2], !.pc = "copy"]
    BY <1>2, ProvideGoes
  <2>2. QED BY <2>1, ProvideGoes DEF CmdOK, Fields, Removing, Installing, At
<1>3. QED BY <1>1, <1>2

LEMMA CmdStep ==
  ASSUME TypeOK, CmdOK, Mending, RecordsFit, FoundThere, Next
  PROVE  CmdOK'
<1> USE DEF CmdOK, Fields, Removing, Installing, At, Goto, End, Leave, Idle
<1>1. CASE Begin("full", {})
  BY <1>1, Records DEF Begin, TypeOK
<1>2. CASE Begin("repair", {})
  BY <1>2, Records DEF Begin, Registered
<1>3. CASE Command
  BY <1>3, CommandCmd
<1>4. CASE Resume
  BY <1>4, ResumeCmd
<1>5. CASE Mark \/ Unhook
  BY <1>5 DEF Mark, Unhook
<1>6. CASE Disallow \/ Disown
  BY <1>6 DEF Disallow, Disown, Recorded
<1>7. CASE Check
  BY <1>7 DEF Check
<1>8. CASE Delete
  BY <1>8 DEF Delete
<1>9. CASE Prune \/ Unmark
  BY <1>9 DEF Prune, Unmark
<1>10. CASE Preflight
  BY <1>10 DEF Preflight
<1>11. CASE Collide
  BY <1>11, Records DEF Collide
<1>12. CASE Place
  BY <1>12 DEF Place
<1>13. CASE Hook \/ Own
  BY <1>13 DEF Hook, Own
<1>14. CASE Verify
  BY <1>14, Records DEF Verify
<1>15. CASE Snapshot
  BY <1>15, Records DEF Snapshot
<1>16. CASE Migrate
  BY <1>16 DEF Migrate
<1>17. CASE Note
  BY <1>17, NoteGoes, NoteGoes
<1>18. CASE Provide
  BY <1>18, ProvideCmd
<1>19. CASE Hash
  BY <1>19, HashGoes, HashGoes
<1>20. CASE WriteState
  BY <1>20, Records DEF WriteState
<1>21. CASE Look
  BY <1>21 DEF Look, RecordsFit, Fits, Mending, Recorded, Registered
<1>22. CASE Mended
  BY <1>22 DEF Mended, Enter
<1>23. CASE Die
  BY <1>23, Records DEF Die
<1>24. CASE EditFile
  BY <1>24 DEF EditFile
<1>25. CASE AllowSkill \/ MoveSource
  BY <1>25 DEF AllowSkill, MoveSource
<1>26. CASE Asked
  BY <1>26, AskedGoes
<1>27. CASE Forget
  BY <1>27, ForgetCmd
<1>28. CASE Mend
  BY <1>28, MendCmd
<1>29. CASE Copy
  BY <1>29, CopyGoes
<1>30. CASE WriteSidecar
  BY <1>30, WriteGoes
<1>31. QED BY <1>1, <1>2, <1>3, <1>4, <1>5, <1>6, <1>7, <1>8, <1>9, <1>10, <1>11, <1>12, <1>13, <1>14, <1>15, <1>16, <1>17, <1>18, <1>19, <1>20, <1>21, <1>22, <1>23, <1>24, <1>25, <1>26, <1>27, <1>28, <1>29, <1>30
            DEF Next, RemovalStep, InstallStep

(* What changes what.                                                          *)
LEMMA Frame ==
  ASSUME TypeOK, CmdOK, FoundThere, Next
  PROVE  /\ file' = file \/ Preflight \/ Delete \/ Place \/ Copy \/ EditFile
         /\ sidecar' = sidecar \/ Forget \/ Migrate \/ WriteSidecar \/ Mended
         /\ listed' = listed \/ Prune \/ Verify \/ WriteState
         /\ orphan' = orphan \/ Place \/ Copy \/ WriteSidecar \/ Mended
         /\ hook' = hook \/ Hook \/ Unhook
         /\ gone' = gone \/ Forget \/ WriteSidecar
         /\ torn' = torn \/ Die
         /\ late' = late \/ EditFile
         /\ cmd'.seen \in {cmd.seen, Idle.seen} \/ Note \/ Hash \/ Mend
<1> USE DEF disk, settings, ghosts, bounds, Goto, End, Leave
<1>1. CASE Begin("full", {}) \/ Begin("repair", {}) \/ Command
  BY <1>1 DEF Begin, Command, CmdOK, Fields, Idle
<1>2. CASE Resume
  BY <1>2, ResumeGoes DEF CmdOK, Fields, Idle
<1>3. CASE Mark \/ Unhook
  BY <1>3 DEF Mark, Unhook, CmdOK, Fields, Idle
<1>4. CASE Disallow \/ Disown
  BY <1>4 DEF Disallow, Disown, CmdOK, Fields, Idle
<1>5. CASE Check
  BY <1>5 DEF Check, CmdOK, Fields, Idle
<1>6. CASE Delete
  BY <1>6 DEF Delete, CmdOK, Fields, Idle
<1>7. CASE Prune \/ Unmark
  BY <1>7 DEF Prune, Unmark, CmdOK, Fields, Idle
<1>8. CASE Preflight
  BY <1>8 DEF Preflight, CmdOK, Fields, Idle
<1>9. CASE Collide
  BY <1>9 DEF Collide, CmdOK, Fields, Idle
<1>10. CASE Place
  BY <1>10 DEF Place, CmdOK, Fields, Idle
<1>11. CASE Hook \/ Own
  BY <1>11 DEF Hook, Own, CmdOK, Fields, Idle
<1>12. CASE Verify
  BY <1>12 DEF Verify, CmdOK, Fields, Idle
<1>13. CASE Snapshot
  BY <1>13 DEF Snapshot, CmdOK, Fields, Idle
<1>14. CASE Migrate
  BY <1>14 DEF Migrate, CmdOK, Fields, Idle
<1>15. CASE Note
  BY <1>15, NoteGoes
<1>16. CASE Provide
  BY <1>16, ProvideGoes DEF CmdOK, Fields, Idle
<1>17. CASE Hash
  BY <1>17, HashGoes
<1>18. CASE WriteState
  BY <1>18 DEF WriteState, CmdOK, Fields, Idle
<1>19. CASE Look
  BY <1>19 DEF Look, CmdOK, Fields, Idle
<1>20. CASE Mended
  BY <1>20 DEF Mended, Enter, CmdOK, Fields, Idle
<1>21. CASE Die
  BY <1>21 DEF Die, CmdOK, Fields, Idle
<1>22. CASE EditFile \/ AllowSkill \/ MoveSource
  BY <1>22 DEF EditFile, AllowSkill, MoveSource, CmdOK, Fields, Idle
<1>23. CASE Asked
  BY <1>23, AskedGoes DEF CmdOK, Fields, Idle
<1>24. CASE Forget
  BY <1>24, ForgetGoes DEF CmdOK, Fields, Idle
<1>25. CASE Mend
  BY <1>25, MendGoes
<1>26. CASE Copy
  BY <1>26, CopyGoes DEF CmdOK, Fields, Idle
<1>27. CASE WriteSidecar
  BY <1>27, WriteGoes DEF CmdOK, Fields, Idle
<1>28. QED BY <1>1, <1>2, <1>3, <1>4, <1>5, <1>6, <1>7, <1>8, <1>9, <1>10, <1>11, <1>12, <1>13, <1>14, <1>15, <1>16, <1>17, <1>18, <1>19, <1>20, <1>21, <1>22, <1>23, <1>24, <1>25, <1>26, <1>27
            DEF Next, RemovalStep, InstallStep

(* Types.                                                                      *)
LEMMA PermissionOf ==
  ASSUME PermissionsCounted, TypeOK, NEW b \in Addon
  PROVE  /\ allow[b] \in 0..2 /\ own[b] \in {"none", "added", "found"}
        /\ allow[b] <= 1 + Times(b) /\ (<<b, "allowed">> \in torn \/ Permitted(b))
<1>1. allow[b] \in 0..2 /\ own[b] \in {"none", "added", "found"}
  BY DEF TypeOK
<1>2. allow[b] <= 1 + Times(b) /\ (<<b, "allowed">> \in torn \/ Permitted(b))
  BY DEF PermissionsCounted, Permitted, Times
<1>3. QED BY <1>1, <1>2

LEMMA AllowType ==
  ASSUME TypeOK, PermissionsCounted, AllowSkill
  PROVE  TypeOK'
<1>1. PICK a \in Addon \ users : allow' = [allow EXCEPT ![a] = @ + 1]
  BY DEF AllowSkill
<1>2. a \in Addon /\ Times(a) = 0
  BY <1>1 DEF Times
<1>3. allow[a] + 1 \in 0..2
  <2>1. allow[a] \in 0..2 /\ allow[a] <= 1 + Times(a)
    BY <1>2, PermissionOf
  <2>2. QED BY <2>1, <1>2
<1>4. QED BY <1>1, <1>3 DEF AllowSkill, TypeOK, disk, kept

LEMMA EditType ==
  ASSUME TypeOK, EditFile
  PROVE  TypeOK'
<1>1. PICK l \in Location, c \in {[of |-> "user", v |-> edits + 1], Nothing} :
        file' = [file EXCEPT ![l] = c] /\ late' \in {late, late \cup {c}}
  BY DEF EditFile
<1>2. c \in Content
  BY <1>1, Contents DEF TypeOK, Content
<1>3. QED BY <1>1, <1>2 DEF EditFile, TypeOK, settings, kept

LEMMA PlaceGoes ==
  ASSUME TypeOK, CmdOK, Place
  PROVE  /\ At("place") /\ Goto("hook") /\ UNCHANGED <<sidecar, listed, marker, settings, snapshot, version, users, gone, torn, late, bounds>>
         /\ PutAside(Skills(cmd.asked)) /\ orphan' = orphan \cup Skills(cmd.asked)
         /\ file' \in [Location -> Content]
         /\ \A a \in cmd.asked : file'[Skill[a]] = Current(a)
         /\ \A l \in Location \ Skills(cmd.asked) : file'[l] = file[l]
<1> DEFINE Of(l) == CHOOSE a \in cmd.asked : l = Skill[a]
<1>1. /\ At("place") /\ Goto("hook") /\ UNCHANGED <<sidecar, listed, marker, settings, snapshot, version, users, gone, torn, late, bounds>>
      /\ PutAside(Skills(cmd.asked)) /\ orphan' = orphan \cup Skills(cmd.asked)
      /\ file' = [l \in Location |-> IF \E a \in cmd.asked : l = Skill[a] THEN Current(Of(l)) ELSE file[l]]
  BY DEF Place
<1>2. \A l \in Location : (\E a \in cmd.asked : l = Skill[a]) => Of(l) \in cmd.asked /\ l = Skill[Of(l)]
  OBVIOUS
<1>3. cmd.asked \subseteq Addon /\ \A a \in cmd.asked : Skill[a] \in Location
  BY Places DEF CmdOK
<1> HIDE DEF Of
<1>4. \A a \in cmd.asked : Of(Skill[a]) = a
  BY <1>2, <1>3, AddonAssumption
<1>5. \A a \in cmd.asked : Current(a) \in Content
  BY <1>3, Contents
<1>6. file' \in [Location -> Content]
  BY <1>1, <1>2, <1>5 DEF TypeOK
<1>7. \A a \in cmd.asked : file'[Skill[a]] = Current(a)
  BY <1>1, <1>3, <1>4
<1>8. \A l \in Location \ Skills(cmd.asked) : file'[l] = file[l]
  BY <1>1 DEF Skills
<1>9. QED BY <1>1, <1>6, <1>7, <1>8

LEMMA PlaceType ==
  ASSUME TypeOK, CmdOK, Place
  PROVE  TypeOK'
<1>1. aside' \in [Location -> Nat]
  BY DEF Place, PutAside, TypeOK
<1>2. QED BY <1>1, PlaceGoes DEF TypeOK, settings, bounds

LEMMA StateType ==
  ASSUME TypeOK, WriteState
  PROVE  listed' \in [Addon -> Record \cup {None}]
<1>1. \A a \in Addon : sidecar[a] # None => [sidecar[a] EXCEPT ![Skill[a]] = Found(Skill[a], Absent)] \in Record
  BY Records, Places DEF Record
<1>2. QED BY <1>1 DEF WriteState, TypeOK

LEMMA TypeStep ==
  ASSUME TypeOK, CmdOK, Mending, FoundThere, PermissionsCounted, Next
  PROVE  TypeOK'
<1> USE DEF TypeOK, disk, settings, kept, ghosts, bounds
<1>1. CASE Begin("full", {}) \/ Begin("repair", {}) \/ Command
  BY <1>1 DEF Begin, Command
<1>2. CASE Resume
  BY <1>2, ResumeGoes
<1>3. CASE Mark \/ Unhook
  BY <1>3 DEF Mark, Unhook, CmdOK, Removing, At
<1>4. CASE Disallow \/ Disown
  BY <1>4 DEF Disallow, Disown, CmdOK, Removing, At
<1>5. CASE Check
  BY <1>5 DEF Check
<1>6. CASE Delete
  BY <1>6, Contents DEF Delete
<1>7. CASE Prune \/ Unmark
  BY <1>7 DEF Prune, Unmark
<1>8. CASE Preflight
  BY <1>8, Contents DEF Preflight, PutAside
<1>9. CASE Collide
  BY <1>9 DEF Collide
<1>10. CASE Place
  BY <1>10, PlaceType
<1>11. CASE Hook \/ Own
  BY <1>11 DEF Hook, Own, CmdOK
<1>12. CASE Verify
  BY <1>12 DEF Verify
<1>13. CASE Snapshot
  BY <1>13 DEF Snapshot
<1>14. CASE Migrate
  BY <1>14 DEF Migrate
<1>15. CASE Note
  BY <1>15, NoteGoes
<1>16. CASE Provide
  BY <1>16, ProvideGoes
<1>17. CASE Hash
  BY <1>17, HashGoes
<1>18. CASE WriteState
  BY <1>18, StateType DEF WriteState
<1>19. CASE Look
  BY <1>19 DEF Look
<1>20. CASE Mended
  BY <1>20 DEF Mended, Enter, CmdOK, Mending, Registered, At
<1>21. CASE Die
  BY <1>21 DEF Die
<1>22. CASE EditFile
  BY <1>22, EditType
<1>23. CASE AllowSkill
  BY <1>23, AllowType
<1>24. CASE MoveSource
  BY <1>24, AddonAssumption DEF MoveSource
<1>25. CASE Asked
  BY <1>25, AskedGoes
<1>26. CASE Forget
  BY <1>26, ForgetGoes
<1>27. CASE Mend
  BY <1>27, MendGoes
<1>28. CASE Copy
  BY <1>28, CopyGoes, Contents
<1>29. CASE WriteSidecar
  BY <1>29, WriteGoes
<1>30. QED BY <1>1, <1>2, <1>3, <1>4, <1>5, <1>6, <1>7, <1>8, <1>9, <1>10, <1>11, <1>12, <1>13, <1>14, <1>15, <1>16, <1>17, <1>18, <1>19, <1>20, <1>21, <1>22, <1>23, <1>24, <1>25, <1>26, <1>27, <1>28, <1>29
            DEF Next, RemovalStep, InstallStep

(* A removed addon stays away.                                                 *)
LEMMA GoneForget ==
  ASSUME TypeOK, CmdOK, GoneInv, Forget
  PROVE  GoneInv'
<1>1. CASE Leave /\ UNCHANGED <<sidecar, gone>>
  BY <1>1, ForgetGoes DEF GoneInv, At
<1>2. CASE sidecar' = [sidecar EXCEPT ![cmd.at] = None] /\ gone' = gone \cup {cmd.at} /\ Goto("prune")
  BY <1>2, ForgetGoes DEF GoneInv, TypeOK, At, Goto, CmdOK, Fields
<1>3. QED BY <1>1, <1>2, ForgetGoes

LEMMA GoneStep ==
  ASSUME TypeOK, CmdOK, Mending, FoundThere, GoneInv, Next
  PROVE  GoneInv'
<1> USE DEF GoneInv
<1>1. ASSUME Unmark \/ Forget \/ Prune \/ Migrate \/ WriteSidecar \/ Mended \/ Verify \/ WriteState \/ Die
      PROVE  GoneInv'
  <2>1. CASE Forget
    BY <2>1, GoneForget
  <2>2. CASE Prune
    BY <2>2 DEF Prune, TypeOK, ghosts, CmdOK, Removing, At
  <2>3. CASE Migrate
    BY <2>3 DEF Migrate, TypeOK, ghosts, At
  <2>4. CASE WriteSidecar
    BY <2>4, WriteGoes DEF TypeOK, At
  <2>5. CASE Mended
    BY <2>5 DEF Mended, Enter, Mending, Registered, TypeOK, At, CmdOK
  <2>6. CASE Verify
    BY <2>6 DEF Verify, ghosts, At
  <2>7. CASE WriteState
    BY <2>7 DEF WriteState, ghosts, At
  <2>8. CASE Die
    BY <2>8 DEF Die, At, disk
  <2>9. CASE Unmark
    BY <2>9 DEF Unmark, At, ghosts
  <2>10. QED BY <1>1, <2>1, <2>2, <2>3, <2>4, <2>5, <2>6, <2>7, <2>8, <2>9
<1>2. ASSUME ~(Unmark \/ Forget \/ Prune \/ Migrate \/ WriteSidecar \/ Mended \/ Verify \/ WriteState \/ Die)
      PROVE  GoneInv'
  <2>1. UNCHANGED <<sidecar, listed, gone, torn>>
    BY <1>2, Frame
  <2>2. At("prune") => UNCHANGED cmd
    BY <1>2, AskedGoes, MendGoes, CopyGoes, HashGoes, NoteGoes, ProvideGoes, ResumeGoes, PlaceGoes DEF Next, RemovalStep, InstallStep, At,
       Command, Begin, Mark, Unhook, Disallow, Disown, Check, Delete, Preflight, Collide, Hook, Own, Snapshot,
       Look, EditFile, AllowSkill, MoveSource
  <2>3. QED BY <2>1, <2>2 DEF At
<1>3. QED BY <1>1, <1>2

(* The records fit their addons, and so do the files.                          *)
LEMMA LateGrows ==
  ASSUME TypeOK, CmdOK, FoundThere, Next
  PROVE  late \subseteq late'
BY Frame DEF EditFile

LEMMA FoundFits ==
  ASSUME FilesFit, NEW a \in Addon, NEW l \in Owned(a), NEW missing \in {Absent, Vanished},
         file[l].of # "user" \/ file[l] \in late, \A b \in Addon : file[l].of = b => b = a
  PROVE  Found(l, missing).of \in {a, "absent"} \/ Found(l, missing) \in late
BY Places, Contents DEF FilesFit, Found

LEMMA HashFits ==
  ASSUME TypeOK, CmdOK, FilesFit, RecordsFit, Windows, Hash
  PROVE  \A a \in Addon : Fits(a, cmd'.seen[a])
<1> DEFINE new == Found(cmd.target, Vanished)
           record == [cmd.seen[cmd.at] EXCEPT ![cmd.target] = new]
<1>1. cmd.at \in Addon /\ cmd.target \in Owned(cmd.at) /\ cmd.target \in Location /\ cmd.seen[cmd.at] \in Record
  BY HashGoes DEF CmdOK
<1>2. new.of \in {cmd.at, "absent"} \/ new \in late
  BY <1>1, FoundFits, HashGoes DEF Windows, At
<1> HIDE DEF new
<1>3. \A l \in Location : record[l] = IF l = cmd.target THEN new ELSE cmd.seen[cmd.at][l]
  BY <1>1 DEF Record
<1>4. Fits(cmd.at, record)
  BY <1>1, <1>2, <1>3 DEF RecordsFit, Fits
<1>5. cmd'.seen = [cmd.seen EXCEPT ![cmd.at] = record]
  BY HashGoes DEF new
<1> HIDE DEF record
<1>6. QED BY <1>1, <1>4, <1>5 DEF RecordsFit, CmdOK

LEMMA NoteFits ==
  ASSUME TypeOK, CmdOK, FilesFit, Windows, Note
  PROVE  \A a \in Addon : Fits(a, cmd'.seen[a])
<1>1. \A a \in cmd.asked : a \in Addon /\ (Found(Skill[a], Absent).of \in {a, "absent"} \/ Found(Skill[a], Absent) \in late)
  <2> SUFFICES ASSUME NEW a \in cmd.asked
               PROVE  a \in Addon /\ (Found(Skill[a], Absent).of \in {a, "absent"} \/ Found(Skill[a], Absent) \in late)
    OBVIOUS
  <2>1. a \in Addon /\ Skill[a] \in Owned(a) /\ Skill[a] \in Location
    BY Places DEF CmdOK, Owned
  <2>2. file[Skill[a]].of # "user" \/ file[Skill[a]] \in late
    BY NoteGoes DEF Windows, At, Recording
  <2>3. \A b \in Addon : file[Skill[a]].of = b => b = a
    BY <2>1, Places, Contents DEF FilesFit
  <2>4. QED BY <2>1, <2>2, <2>3, FoundFits
<1>2. QED BY <1>1, NoteGoes DEF Fits, Owned

LEMMA StateFits ==
  ASSUME TypeOK, CmdOK, FilesFit, RecordsFit, Windows, WriteState
  PROVE  \A a \in Addon : listed'[a] # None => Fits(a, listed'[a])
<1> SUFFICES ASSUME NEW a \in Addon, listed'[a] # None PROVE Fits(a, listed'[a])
  OBVIOUS
<1>1. sidecar[a] # None /\ sidecar[a] \in Record /\ Fits(a, sidecar[a])
  BY Records DEF WriteState, RecordsFit
<1>2. CASE a \notin cmd.asked
  BY <1>1, <1>2 DEF WriteState
<1>3. CASE a \in cmd.asked
  <2> DEFINE new == Found(Skill[a], Absent)
  <2>1. Skill[a] \in Owned(a) /\ Skill[a] \in Location
    BY Places DEF Owned
  <2>2. file[Skill[a]].of # "user" \/ file[Skill[a]] \in late
    BY <1>3 DEF WriteState, Windows, At, Recording
  <2>3. \A b \in Addon : file[Skill[a]].of = b => b = a
    BY <2>1, Places, Contents DEF FilesFit
  <2>4. new.of \in {a, "absent"} \/ new \in late
    BY <2>1, <2>2, <2>3, FoundFits
  <2> HIDE DEF new
  <2>5. listed'[a] = [sidecar[a] EXCEPT ![Skill[a]] = new]
    BY <1>1, <1>3 DEF WriteState, new
  <2>6. QED BY <1>1, <2>1, <2>4, <2>5 DEF Fits, Record
<1>4. QED BY <1>2, <1>3

LEMMA RecordsStep ==
  ASSUME TypeOK, CmdOK, Mending, FoundThere, FilesFit, Windows, RecordsFit, Next
  PROVE  RecordsFit'
<1>1. \A a \in Addon : sidecar'[a] # None => Fits(a, sidecar'[a])
  <2>1. CASE sidecar' = sidecar
    BY <2>1 DEF RecordsFit
  <2>2. CASE Forget
    BY <2>2, ForgetGoes DEF RecordsFit, TypeOK
  <2>3. CASE Migrate
    BY <2>3 DEF Migrate, RecordsFit
  <2>4. CASE WriteSidecar
    BY <2>4, WriteGoes DEF RecordsFit, TypeOK
  <2>5. CASE Mended
    BY <2>5 DEF Mended, Enter, RecordsFit, TypeOK
  <2>6. QED BY <2>1, <2>2, <2>3, <2>4, <2>5, Frame
<1>2. \A a \in Addon : listed'[a] # None => Fits(a, listed'[a])
  <2>1. CASE listed' = listed
    BY <2>1 DEF RecordsFit
  <2>2. CASE Prune \/ Verify
    BY <2>2 DEF Prune, Verify, RecordsFit, TypeOK
  <2>3. CASE WriteState
    BY <2>3, StateFits
  <2>4. QED BY <2>1, <2>2, <2>3, Frame
<1>3. \A a \in Addon : Fits(a, cmd'.seen[a])
  <2>1. CASE cmd'.seen \in {cmd.seen, Idle.seen}
    BY <2>1 DEF RecordsFit, Idle, Empty, Fits
  <2>2. CASE Note \/ Hash
    BY <2>2, NoteFits, HashFits
  <2>3. CASE Mend
    <3>1. CASE End
      BY <3>1 DEF End, Idle, Empty, Fits
    <3>2. CASE ~End
      <4>1. PICK a \in cmd.todo : cmd' = [cmd EXCEPT !.todo = @ \ {a}, !.at = a, !.left = Recorded(a),
                                               !.seen = [@ EXCEPT ![a] = sidecar[a]], !.pc = "look"]
        BY <2>3, <3>2, MendGoes
      <4>2. a \in Addon /\ sidecar[a] # None
        BY <2>3, <4>1, MendGoes DEF CmdOK, Mending, At, Registered
      <4>3. cmd'.seen = [cmd.seen EXCEPT ![a] = sidecar[a]]
        BY <4>1 DEF CmdOK, Fields
      <4>4. QED BY <4>2, <4>3 DEF RecordsFit, CmdOK
    <3>3. QED BY <3>1, <3>2
  <2>4. QED BY <2>1, <2>2, <2>3, Frame
<1>4. late \subseteq late'
  BY LateGrows
<1>5. QED BY <1>1, <1>2, <1>3, <1>4 DEF RecordsFit, Fits

LEMMA FilesStep ==
  ASSUME TypeOK, CmdOK, FoundThere, FilesFit, Next
  PROVE  FilesFit'
<1> USE DEF FilesFit
<1>1. CASE file' = file
  BY <1>1
<1>2. CASE Preflight
  BY <1>2 DEF Preflight
<1>3. CASE Delete
  BY <1>3, Contents DEF Delete, TypeOK
<1>4. CASE Place
  <2>1. \A l \in Location : (\E a \in Addon : l = Skill[a] /\ file'[l] = Current(a)) \/ file'[l] = file[l]
    BY <1>4, PlaceGoes DEF Skills, CmdOK
  <2>2. QED BY <2>1, Contents DEF Owned
<1>5. CASE Copy
  <2>1. file' = file \/ file' = [file EXCEPT ![cmd.target] = Current(cmd.at)]
    BY <1>5, CopyGoes
  <2>2. QED BY <1>5, <2>1, CopyGoes, Contents DEF TypeOK
<1>6. CASE EditFile
  BY <1>6, Contents DEF EditFile, TypeOK
<1>7. QED BY <1>1, <1>2, <1>3, <1>4, <1>5, <1>6, Frame

LEMMA LateStep ==
  ASSUME TypeOK, CmdOK, FoundThere, LateUsers, Next
  PROVE  LateUsers'
BY Frame DEF EditFile, LateUsers

(* Which steps lead where.                                                     *)
Outside == EditFile \/ AllowSkill \/ MoveSource

LEMMA OutsideStays ==
  ASSUME Outside
  PROVE  UNCHANGED <<sidecar, listed, cmd, gone, orphan, torn, hook, own>> /\ (file' = file \/ EditFile)
<1>1. CASE EditFile
  BY <1>1 DEF EditFile, settings
<1>2. CASE AllowSkill
  BY <1>2 DEF AllowSkill, disk
<1>3. CASE MoveSource
  BY <1>3 DEF MoveSource, disk, settings, ghosts
<1>4. QED BY <1>1, <1>2, <1>3 DEF Outside

LEMMA BeginMoves ==
  ASSUME Command \/ Begin("full", {})
  PROVE  cmd'.pc \in {"preflight", "resume"}
<1>1. \A job, asked : Begin(job, asked) /\ job # "repair" => cmd'.pc \in {"preflight", "resume"}
  BY DEF Begin, Idle
<1>2. QED BY <1>1 DEF Command

LEMMA RepairMoves ==
  ASSUME Begin("repair", {})
  PROVE  cmd'.pc = "mend" /\ cmd'.todo = Registered /\ cmd'.job = "repair" /\ cmd'.seen = Idle.seen
BY DEF Begin, Idle

LEMMA ProvideMoves ==
  ASSUME CmdOK, FoundThere, Provide
  PROVE  cmd'.pc \in {"idle", "copy"}
<1>1. CASE End
  BY <1>1 DEF End, Idle
<1>2. CASE ~End
  <2>1. PICK x \in cmd.left : cmd' = [cmd EXCEPT !.left = @ \ {x}, !.at = x[1], !.target = x[2], !.pc = "copy"]
    BY <1>2, ProvideGoes
  <2>2. QED BY <2>1 DEF CmdOK, Fields
<1>3. QED BY <1>1, <1>2

LEMMA MendMoves ==
  ASSUME CmdOK, Mend
  PROVE  cmd'.pc \in {"idle", "look"}
<1>1. CASE End
  BY <1>1 DEF End, Idle
<1>2. CASE ~End
  <2>1. PICK a \in cmd.todo : cmd' = [cmd EXCEPT !.todo = @ \ {a}, !.at = a, !.left = Recorded(a),
                                               !.seen = [@ EXCEPT ![a] = sidecar[a]], !.pc = "look"]
    BY <1>2, MendGoes
  <2>2. QED BY <2>1 DEF CmdOK, Fields
<1>3. QED BY <1>1, <1>2

LEMMA Moves ==
  ASSUME TypeOK, CmdOK, FoundThere, Next
  PROVE  /\ cmd'.pc = "delete" => Check \/ Outside
         /\ cmd'.pc = "copy" => Provide \/ Look \/ Outside
         /\ cmd'.pc = "hash" => Copy \/ Outside
         /\ cmd'.pc = "snapshot" => Verify \/ Outside
         /\ cmd'.pc = "migrate" => Snapshot \/ Outside
         /\ cmd'.pc = "note" => Migrate \/ Outside
         /\ cmd'.pc = "provide" => Note \/ Hash \/ WriteSidecar \/ Outside
         /\ cmd'.pc = "state" => WriteSidecar \/ Outside
         /\ cmd'.pc = "look" => Mend \/ Look \/ Copy \/ Hash \/ Outside
         /\ cmd'.pc = "mend" => Begin("repair", {}) \/ Mended \/ Outside
         /\ cmd'.pc = "unhook" => Mark \/ Outside
         /\ cmd'.pc = "disallow" => Unhook \/ Outside
         /\ cmd'.pc = "disown" => Disallow \/ Outside
         /\ cmd'.pc = "files" => Disown \/ Check \/ Delete \/ Outside
         /\ cmd'.pc = "prune" => Forget \/ Outside
         /\ cmd'.pc = "own" => Hook \/ Outside
<1> USE DEF Outside
<1>1. CASE Begin("full", {}) \/ Command
  BY <1>1, BeginMoves
<1>2. CASE Begin("repair", {})
  BY <1>2, RepairMoves
<1>3. CASE Resume
  BY <1>3, ResumeGoes DEF CmdOK, Fields, At, Goto, End, Leave, Idle
<1>4. CASE Mark \/ Unhook
  BY <1>4 DEF Mark, Unhook, CmdOK, Fields, At, Goto, End, Leave, Idle
<1>5. CASE Disallow
  BY <1>5 DEF Disallow, CmdOK, Fields, At, Goto, End, Leave, Idle
<1>6. CASE Disown
  BY <1>6 DEF Disown, CmdOK, Fields, At, Goto, End, Leave, Idle
<1>7. CASE Check
  BY <1>7 DEF Check, CmdOK, Fields, At, Goto, End, Leave, Idle
<1>8. CASE Delete
  BY <1>8 DEF Delete, CmdOK, Fields, At, Goto, End, Leave, Idle
<1>9. CASE Prune \/ Unmark
  BY <1>9 DEF Prune, Unmark, CmdOK, Fields, At, Goto, End, Leave, Idle
<1>10. CASE Preflight
  BY <1>10 DEF Preflight, CmdOK, Fields, At, Goto, End, Leave, Idle
<1>11. CASE Collide
  BY <1>11 DEF Collide, CmdOK, Fields, At, Goto, End, Leave, Idle
<1>12. CASE Place
  BY <1>12 DEF Place, CmdOK, Fields, At, Goto, End, Leave, Idle
<1>13. CASE Hook \/ Own
  BY <1>13 DEF Hook, Own, CmdOK, Fields, At, Goto, End, Leave, Idle
<1>14. CASE Verify
  BY <1>14 DEF Verify, CmdOK, Fields, At, Goto, End, Leave, Idle
<1>15. CASE Snapshot
  BY <1>15 DEF Snapshot, CmdOK, Fields, At, Goto, End, Leave, Idle
<1>16. CASE Migrate
  BY <1>16 DEF Migrate, CmdOK, Fields, At, Goto, End, Leave, Idle
<1>17. CASE Note
  BY <1>17, NoteGoes
<1>18. CASE Provide
  BY <1>18, ProvideMoves
<1>19. CASE Hash
  BY <1>19, HashGoes
<1>20. CASE WriteState
  BY <1>20 DEF WriteState, CmdOK, Fields, At, Goto, End, Leave, Idle
<1>21. CASE Look
  BY <1>21 DEF Look, CmdOK, Fields, At, Goto, End, Leave, Idle
<1>22. CASE Mended
  BY <1>22 DEF Mended, Enter, CmdOK, Fields, At, Goto, End, Leave, Idle
<1>23. CASE Die
  BY <1>23 DEF Die, CmdOK, Fields, At, Goto, End, Leave, Idle
<1>24. CASE EditFile \/ AllowSkill \/ MoveSource
  BY <1>24 DEF EditFile, AllowSkill, MoveSource
<1>25. CASE Asked
  BY <1>25, AskedGoes DEF CmdOK, Fields, At, Goto, End, Leave, Idle
<1>26. CASE Forget
  BY <1>26, ForgetGoes DEF CmdOK, Fields, At, Goto, End, Leave, Idle
<1>27. CASE Mend
  BY <1>27, MendMoves
<1>28. CASE Copy
  BY <1>28, CopyGoes DEF CmdOK, Fields, At, Goto, End, Leave, Idle
<1>29. CASE WriteSidecar
  BY <1>29, WriteGoes DEF CmdOK, Fields, At, Goto, End, Leave, Idle
<1>30. QED BY <1>1, <1>2, <1>3, <1>4, <1>5, <1>6, <1>7, <1>8, <1>9, <1>10, <1>11, <1>12, <1>13, <1>14, <1>15, <1>16, <1>17, <1>18, <1>19, <1>20, <1>21, <1>22, <1>23, <1>24, <1>25, <1>26, <1>27, <1>28, <1>29
            DEF Next, RemovalStep, InstallStep

(* What is about to be removed, replaced or recorded.                          *)
LEMMA CheckGoes ==
  ASSUME CmdOK, Check
  PROVE  \E l \in cmd.left :
           /\ At("files") /\ cmd.at \in Addon /\ l \in Location /\ UNCHANGED <<disk, settings, kept, version, ghosts, bounds>>
           /\ cmd'.at = cmd.at /\ cmd'.left = cmd.left \ {l} /\ cmd'.asked = cmd.asked /\ cmd'.todo = cmd.todo
           /\ \/ /\ cmd'.pc = "delete" /\ cmd'.target = l
                 /\ file[l] # Nothing /\ file[l] = sidecar[cmd.at][l]
              \/ /\ cmd'.pc = "files"
                 /\ file[l] = Nothing \/ sidecar[cmd.at][l] = Absent \/ file[l] # sidecar[cmd.at][l]
BY DEF Check, CmdOK, Fields, At, Removing

LEMMA WindowsOutside ==
  ASSUME TypeOK, CmdOK, Windows, Outside
  PROVE  Windows'
<1>1. CASE file' = file /\ late' = late
  BY <1>1, OutsideStays DEF Windows, Recording, At
<1>2. CASE EditFile
  <2>1. PICK l \in Location, c \in {[of |-> "user", v |-> edits + 1], Nothing} :
          /\ file' = [file EXCEPT ![l] = c]
          /\ late' = IF c # Nothing /\ InWindow(l) THEN late \cup {c} ELSE late
    BY <1>2 DEF EditFile
  <2>2. UNCHANGED cmd
    BY OutsideStays
  <2>3. c = Nothing \/ c.of = "user"
    BY <2>1
  <2>4. \A k \in Location : file'[k] = IF k = l THEN c ELSE file[k]
    BY <2>1 DEF TypeOK
  <2>5. c.of # "user" \/ ~InWindow(l) \/ c \in late'
    BY <2>1, <2>3, Contents
  <2>6. late \subseteq late'
    BY <2>1
  <2>7. c.of \notin Addon
    BY <2>3, Contents
  <2>8. \A a \in cmd.asked : Skill[a] \in Location /\ Skill[a] \in Skills(cmd.asked)
    BY Places DEF CmdOK, Skills
  <2>9. QED BY <2>2, <2>4, <2>5, <2>6, <2>7, <2>8 DEF Windows, InWindow, CmdOK, At
<1>3. QED BY <1>1, <1>2 DEF Outside, AllowSkill, MoveSource, disk, ghosts

LEMMA ChecksRecord ==
  ASSUME TypeOK, CmdOK, RecordsFit, NEW a \in Addon, NEW l \in Location, sidecar[a] # None, file[l] = sidecar[a][l]
  PROVE  file[l].of # "user" \/ file[l] \in late
<1>1. Fits(a, sidecar[a])
  BY DEF RecordsFit
<1>2. QED BY <1>1, Contents DEF Fits

LEMMA WindowsStep ==
  ASSUME TypeOK, CmdOK, Mending, RecordsFit, FoundThere, Removed, Windows, Next
  PROVE  Windows'
<1>1. CASE Outside
  BY <1>1, WindowsOutside
<1>2. CASE ~Outside
  <2>0. late' = late
    BY <1>2, Frame DEF Outside
  <2>1. cmd'.pc = "delete" => file'[cmd'.target].of # "user" \/ file'[cmd'.target] \in late
    <3>1. ASSUME Check, cmd'.pc = "delete" PROVE file'[cmd'.target].of # "user" \/ file'[cmd'.target] \in late
      <4>1. PICK l \in Location : /\ file' = file /\ At("files") /\ cmd.at \in Addon /\ cmd'.target = l
                                  /\ file[l] = sidecar[cmd.at][l]
        BY <3>1, CheckGoes DEF disk
      <4>2. sidecar[cmd.at] # None
        BY <4>1 DEF Removed, At
      <4>3. QED BY <4>1, <4>2, ChecksRecord
    <3>2. QED BY <1>2, <3>1, Moves
  <2>2. cmd'.pc = "copy" => file'[cmd'.target].of # "user" \/ file'[cmd'.target] \in late
    <3>1. ASSUME Provide, cmd'.pc = "copy" PROVE file'[cmd'.target].of # "user" \/ file'[cmd'.target] \in late
      <4>1. ~End
        BY <3>1 DEF End, Idle
      <4>2. PICK x \in cmd.left :
               /\ x[1] \in Addon /\ x[2] \in Location /\ ExtraFree(x[1], x[2])
               /\ cmd' = [cmd EXCEPT !.left = @ \ {x}, !.at = x[1], !.target = x[2], !.pc = "copy"]
        BY <3>1, <4>1, ProvideGoes
      <4>3. cmd'.target = x[2] /\ file' = file
        BY <3>1, <4>2, ProvideGoes DEF CmdOK, Fields, disk
      <4>4. file[x[2]] = Nothing \/ (sidecar[x[1]] # None /\ file[x[2]] = sidecar[x[1]][x[2]])
        BY <4>2 DEF ExtraFree, OwnerOf, Recorded
      <4>5. QED BY <4>2, <4>3, <4>4, ChecksRecord, Contents
    <3>2. ASSUME Look, cmd'.pc = "copy" PROVE file'[cmd'.target].of # "user" \/ file'[cmd'.target] \in late
      <4>1. file' = file /\ file[cmd'.target] = Nothing
        BY <3>2 DEF Look, CmdOK, Fields, At, disk
      <4>2. QED BY <4>1, Contents
    <3>3. QED BY <1>2, <3>1, <3>2, Moves
  <2>3. cmd'.pc = "hash" => file'[cmd'.target].of = cmd'.at /\ cmd'.at \in Addon
    <3>1. ASSUME Copy, cmd'.pc = "hash" PROVE file'[cmd'.target].of = cmd'.at /\ cmd'.at \in Addon
      <4>1. file' = [file EXCEPT ![cmd.target] = Current(cmd.at)] /\ Goto("hash")
        BY <3>1, CopyGoes DEF CmdOK, Fields
      <4>2. QED BY <3>1, <4>1, CopyGoes, Contents DEF TypeOK, CmdOK, Fields, Goto
    <3>2. QED BY <1>2, <3>1, Moves
  <2>4. cmd'.pc \in Recording => \A a \in cmd'.asked : file'[Skill[a]].of # "user" \/ file'[Skill[a]] \in late
    <3> SUFFICES ASSUME cmd'.pc \in Recording, NEW a \in cmd'.asked
                 PROVE  file'[Skill[a]].of # "user" \/ file'[Skill[a]] \in late
      OBVIOUS
    <3>1. CASE Verify
      <4>1. cmd'.pc # "idle" /\ Goto("snapshot")
        BY <3>1 DEF Verify, Recording, End, Idle
      <4>2. a \in cmd.asked /\ a \in Addon /\ file' = file /\ file[Skill[a]] \in {Nothing, Current(a)}
        BY <3>1, <4>1 DEF Verify, CmdOK, Fields, Goto, End, Idle
      <4>3. QED BY <4>2, Contents
    <3>2. CASE Snapshot \/ Migrate
      <4>1. Goto("migrate") \/ Goto("note")
        BY <3>2 DEF Snapshot, Migrate, Recording, End, Idle
      <4>2. a \in cmd.asked /\ file' = file /\ cmd.pc \in Recording
        BY <3>2, <4>1 DEF Snapshot, Migrate, CmdOK, Fields, Goto, Recording, At, disk
      <4>3. QED BY <4>2 DEF Windows
    <3>3. CASE Note \/ Hash
      BY <3>3, NoteGoes, HashGoes DEF Windows, Recording, At, disk
    <3>4. CASE Provide
      <4>1. ~End
        BY <3>4 DEF End, Idle, Recording
      <4>2. a \in cmd.asked /\ file' = file /\ cmd.pc \in Recording
        BY <3>4, <4>1, ProvideGoes DEF CmdOK, Fields, Recording, At, disk
      <4>3. QED BY <4>2 DEF Windows
    <3>5. CASE WriteSidecar
      <4>1. a \in cmd.asked /\ file' = file /\ cmd.pc \in Recording
        BY <3>5, WriteGoes DEF CmdOK, Fields, Goto, Recording, At
      <4>2. QED BY <4>1 DEF Windows
    <3>6. CASE Look
      BY <3>6 DEF Look, CmdOK, Fields, At
    <3>7. CASE Copy
      <4>1. a \in cmd.asked /\ cmd.pc \in Recording /\ a \in Addon
        BY <3>7, CopyGoes DEF CmdOK, Fields, Goto, Recording, At
      <4>2. file' = file \/ (file' = [file EXCEPT ![cmd.target] = Current(cmd.at)] /\ cmd.at \in Addon)
        BY <3>7, CopyGoes
      <4>3. QED BY <4>1, <4>2, Contents, Places DEF Windows, TypeOK
    <3>8. QED BY <1>2, <3>1, <3>2, <3>3, <3>4, <3>5, <3>6, <3>7, Moves DEF Recording
  <2>5. QED BY <2>0, <2>1, <2>2, <2>3, <2>4, Contents DEF Windows, At
<1>3. QED BY <1>1, <1>2

(* What an install finds.                                                      *)
LEMMA FoundOutside ==
  ASSUME TypeOK, CmdOK, FoundThere, Outside
  PROVE  FoundThere'
<1>1. UNCHANGED cmd
  BY OutsideStays
<1>2. \A a \in Addon : \A l \in Location : file'[l].of = a => file'[l] = file[l]
  BY OutsideStays, Contents DEF EditFile, TypeOK
<1>3. \A a \in cmd.asked : a \in Addon /\ Owned(a) \subseteq Location
  BY Places DEF CmdOK
<1>4. QED BY <1>1, <1>2, <1>3 DEF FoundThere, Coming

LEMMA FoundNote ==
  ASSUME TypeOK, CmdOK, Note
  PROVE  FoundThere'
<1>1. \A a \in cmd.asked : a \in Addon /\ Owned(a) \subseteq Location /\ \A l \in Owned(a) : l = Skill[a] \/ l \in Extra[a]
  BY Places DEF CmdOK, Owned
<1>2. UNCHANGED file
  BY NoteGoes DEF disk
<1>3. ASSUME NEW a \in cmd.asked, NEW l \in Owned(a)
      PROVE  <<a, l>> \in cmd'.left \/ file[l].of # a \/ cmd'.seen[a][l] = file[l]
  <2>1. CASE l \in Extra[a]
    BY <1>1, <1>3, <2>1, NoteGoes
  <2>2. CASE l = Skill[a]
    <3>1. cmd'.seen[a][l] = Found(l, Absent)
      BY <1>1, <1>3, <2>2, NoteGoes
    <3>2. QED BY <1>1, <3>1, Contents DEF Found
  <2>3. QED BY <1>1, <1>3, <2>1, <2>2
<1>4. QED BY <1>2, <1>3, NoteGoes DEF FoundThere, Coming

LEMMA FoundProvide ==
  ASSUME TypeOK, CmdOK, FoundThere, Provide
  PROVE  FoundThere'
<1>1. CASE End
  BY <1>1 DEF End, Idle, FoundThere
<1>2. CASE ~End
  <2>1. PICK x \in cmd.left :
           /\ x \in cmd.asked \X Location
           /\ cmd' = [cmd EXCEPT !.left = @ \ {x}, !.at = x[1], !.target = x[2], !.pc = "copy"]
    BY <1>2, ProvideGoes
  <2>2. /\ cmd'.left = cmd.left \ {x} /\ cmd'.at = x[1] /\ cmd'.target = x[2] /\ cmd'.pc = "copy"
        /\ cmd'.seen = cmd.seen /\ cmd'.asked = cmd.asked /\ cmd'.todo = cmd.todo /\ UNCHANGED file
    BY <2>1, ProvideGoes DEF CmdOK, Fields, disk
  <2>3. ASSUME NEW a \in cmd.asked, NEW l \in Owned(a), <<a, l>> \in cmd.left PROVE Coming(a, l)'
    BY <2>1, <2>2, <2>3 DEF Coming
  <2>4. At("provide") /\ cmd.job = "install"
    BY ProvideGoes
  <2>5. QED BY <2>2, <2>3, <2>4 DEF FoundThere, At, Coming
<1>3. QED BY <1>1, <1>2

LEMMA FoundCopy ==
  ASSUME TypeOK, CmdOK, FoundThere, Copy
  PROVE  FoundThere'
<1>1. CASE cmd.job = "repair"
  BY <1>1, CopyGoes DEF FoundThere, CmdOK, Fields, Goto
<1>2. CASE cmd.job # "repair"
  <2>1. /\ file' = [file EXCEPT ![cmd.target] = Current(cmd.at)] /\ Goto("hash") /\ At("copy") /\ cmd.at \in Addon
    BY <1>2, CopyGoes
  <2>2. /\ cmd'.left = cmd.left /\ cmd'.at = cmd.at /\ cmd'.target = cmd.target /\ cmd'.pc = "hash" /\ cmd'.job = cmd.job
        /\ cmd'.seen = cmd.seen /\ cmd'.asked = cmd.asked /\ cmd'.todo = cmd.todo
    BY <2>1 DEF CmdOK, Fields, Goto
  <2>3. \A a \in cmd.asked : \A l \in Owned(a) : Coming(a, l)' \/ file'[l].of # a \/ file'[l] = file[l]
    BY <2>1, <2>2, Places, Contents DEF Coming, TypeOK, CmdOK
  <2>4. \A a \in cmd.asked : \A l \in Owned(a) : Coming(a, l) => Coming(a, l)'
    BY <2>1, <2>2 DEF Coming, At
  <2>5. QED BY <2>1, <2>2, <2>3, <2>4 DEF FoundThere, At
<1>3. QED BY <1>1, <1>2

LEMMA FoundHash ==
  ASSUME TypeOK, CmdOK, FoundThere, Hash
  PROVE  FoundThere'
<1>1. CASE cmd.job = "repair"
  BY <1>1, HashGoes DEF FoundThere
<1>2. CASE cmd.job # "repair"
  <2>1. cmd.job = "install" /\ At("hash") /\ UNCHANGED file /\ cmd.at \in Addon /\ cmd.target \in Location
    BY <1>2, HashGoes DEF CmdOK, At, disk
  <2>2. \A a \in Addon : \A l \in Location :
          cmd'.seen[a][l] = IF a = cmd.at /\ l = cmd.target THEN Found(l, Vanished) ELSE cmd.seen[a][l]
    <3> DEFINE record == [cmd.seen[cmd.at] EXCEPT ![cmd.target] = Found(cmd.target, Vanished)]
    <3>1. \A l \in Location : record[l] = IF l = cmd.target THEN Found(l, Vanished) ELSE cmd.seen[cmd.at][l]
      BY <2>1 DEF CmdOK, Record
    <3>2. cmd'.seen = [cmd.seen EXCEPT ![cmd.at] = record]
      BY HashGoes
    <3> HIDE DEF record
    <3>3. QED BY <2>1, <3>1, <3>2 DEF CmdOK
  <2>3. \A a \in cmd.asked : a \in Addon /\ Owned(a) \subseteq Location
    BY Places DEF CmdOK
  <2>4. ASSUME NEW a \in cmd.asked, NEW l \in Owned(a)
        PROVE  <<a, l>> \in cmd.left \/ file[l].of # a \/ cmd'.seen[a][l] = file[l]
    <3>1. CASE a = cmd.at /\ l = cmd.target
      BY <2>2, <2>3, <2>4, <3>1, Contents DEF Found
    <3>2. CASE ~(a = cmd.at /\ l = cmd.target)
      BY <2>1, <2>2, <2>3, <2>4, <3>2 DEF FoundThere, Coming, At
    <3>3. QED BY <3>1, <3>2
  <2>5. QED BY <2>1, <2>4, HashGoes DEF FoundThere, Coming, At
<1>3. QED BY <1>1, <1>2

LEMMA FoundStep ==
  ASSUME TypeOK, CmdOK, FoundThere, Next
  PROVE  FoundThere'
<1>1. CASE Outside
  BY <1>1, FoundOutside
<1>2. CASE Note \/ Provide \/ Copy \/ Hash
  BY <1>2, FoundNote, FoundProvide, FoundCopy, FoundHash
<1>3. CASE WriteSidecar
  BY <1>3, WriteGoes DEF FoundThere, Coming, CmdOK, Fields, Goto, At
<1>4. CASE Look
  BY <1>4 DEF Look, FoundThere, CmdOK, Fields, At
<1>5. QED BY <1>1, <1>2, <1>3, <1>4, Moves DEF FoundThere

(* A repair.                                                                   *)
LEMMA MendedGoes ==
  ASSUME TypeOK, CmdOK, Mending, Mended
  PROVE  /\ At("look") /\ cmd.left = {} /\ cmd.at \in Addon /\ cmd.seen[cmd.at] \in Record /\ sidecar[cmd.at] # None
         /\ cmd' = [cmd EXCEPT !.pc = "mend", !.at = None]
         /\ sidecar' = [sidecar EXCEPT ![cmd.at] = cmd.seen[cmd.at]]
         /\ orphan' = {l \in orphan : file[l] # cmd.seen[cmd.at][l]}
         /\ \A l \in Location \ orphan : cmd.seen[cmd.at][l] = sidecar[cmd.at][l]
         /\ UNCHANGED <<file, listed, marker, settings, kept, version, users, gone, torn, late, bounds>>
BY DEF Mended, Enter, CmdOK, Mending, Registered, At

LEMMA MendingMend ==
  ASSUME TypeOK, CmdOK, Mending, Mend
  PROVE  Mending'
<1>1. CASE End
  BY <1>1 DEF End, Idle, Mending, At
<1>2. CASE ~End
  <2>1. PICK a \in cmd.todo : cmd' = [cmd EXCEPT !.todo = @ \ {a}, !.at = a, !.left = Recorded(a),
                                               !.seen = [@ EXCEPT ![a] = sidecar[a]], !.pc = "look"]
    BY <1>2, MendGoes
  <2>2. a \in Addon /\ a \in Registered /\ cmd.job = "repair" /\ cmd.todo \subseteq Registered
    BY <2>1, MendGoes DEF CmdOK, Mending, At
  <2>3. cmd'.todo = cmd.todo \ {a} /\ cmd'.at = a /\ cmd'.left = Recorded(a) /\ cmd'.seen[a] = sidecar[a] /\ cmd'.pc = "look"
    BY <2>1, <2>2 DEF CmdOK, Fields
  <2>4. QED BY <2>2, <2>3, MendGoes DEF Mending, At, Registered, Recorded, disk, ghosts
<1>3. QED BY <1>1, <1>2

LEMMA MendingHash ==
  ASSUME TypeOK, CmdOK, Mending, Hash, cmd.job = "repair"
  PROVE  Mending'
<1> DEFINE record == [cmd.seen[cmd.at] EXCEPT ![cmd.target] = Found(cmd.target, Vanished)]
<1>1. At("hash") /\ UNCHANGED <<sidecar, orphan>> /\ cmd.at \in Addon /\ cmd.target \in orphan
  BY HashGoes DEF Mending, disk, ghosts, At
<1>2. \A l \in Location \ orphan : record[l] = cmd.seen[cmd.at][l]
  BY <1>1 DEF CmdOK, Record
<1>3. cmd'.seen = [cmd.seen EXCEPT ![cmd.at] = record]
  BY HashGoes
<1> HIDE DEF record
<1>4. cmd'.seen[cmd.at] = record
  BY <1>1, <1>3 DEF CmdOK
<1>5. QED BY <1>1, <1>2, <1>4, HashGoes DEF Mending, At, Registered, Recorded

LEMMA MendingStep ==
  ASSUME TypeOK, CmdOK, CmdOK', FoundThere, Mending, Next
  PROVE  Mending'
<1>1. CASE Outside
  BY <1>1, OutsideStays DEF Mending, Registered, Recorded, At
<1>2. CASE ~Outside
  <2>1. CASE Copy
    <3>1. /\ cmd'.todo = cmd.todo /\ cmd'.at = cmd.at /\ cmd'.left = cmd.left /\ cmd'.seen = cmd.seen /\ cmd'.job = cmd.job
          /\ cmd'.pc = "look" \/ (cmd'.pc = "hash" /\ cmd'.target = cmd.target /\ cmd.target \in orphan')
          /\ orphan \subseteq orphan' /\ UNCHANGED sidecar /\ At("copy")
      BY <2>1, CopyGoes DEF CmdOK, Fields, Goto
    <3>2. QED BY <3>1 DEF Mending, At, Registered, Recorded
  <2>2. CASE Mend
    BY <2>2, MendingMend
  <2>3. CASE Hash
    <3>1. CASE cmd.job = "repair"
      BY <2>3, <3>1, MendingHash
    <3>2. CASE cmd.job # "repair"
      BY <2>3, <3>2, HashGoes DEF Mending, At
    <3>3. QED BY <3>1, <3>2
  <2>4. CASE Look
    BY <2>4 DEF Look, CmdOK, Fields, At, Mending, Registered, Recorded, disk, ghosts
  <2>5. CASE Mended
    <3>1. cmd'.todo = cmd.todo /\ cmd'.pc = "mend" /\ cmd'.job = cmd.job
      BY <2>5, MendedGoes DEF CmdOK, Fields
    <3>2. Registered \subseteq Registered'
      BY <2>5, MendedGoes, Records DEF Registered, TypeOK
    <3>3. QED BY <3>1, <3>2 DEF Mending, At
  <2>6. CASE Begin("repair", {})
    BY <2>6, RepairMoves DEF Mending, At, Registered, Begin, disk
  <2>7. CASE ~(Copy \/ Mend \/ Hash \/ Look \/ Mended \/ Begin("repair", {}))
    <3>1. cmd'.pc \notin {"hash", "look", "mend"} /\ (cmd'.pc = "copy" => Provide)
      BY <1>2, <2>7, Moves
    <3>2. cmd'.job # "repair"
      <4>1. Provide /\ cmd'.pc = "copy" => cmd'.job = cmd.job
        <5>1. ASSUME Provide, cmd'.pc = "copy" PROVE cmd'.job = cmd.job
          <6>1. ~End
            BY <5>1 DEF End, Idle
          <6>2. PICK x \in cmd.left : cmd' = [cmd EXCEPT !.left = @ \ {x}, !.at = x[1], !.target = x[2], !.pc = "copy"]
            BY <5>1, <6>1, ProvideGoes
          <6>3. QED BY <6>2 DEF CmdOK, Fields
        <5>2. QED BY <5>1
      <4>2. QED BY <3>1, <4>1, ProvideGoes DEF CmdOK
    <3>3. QED BY <3>1, <3>2 DEF Mending, At
  <2>8. QED BY <2>1, <2>2, <2>3, <2>4, <2>5, <2>6, <2>7
<1>3. QED BY <1>1, <1>2

(* What is in place is recorded, and a removal leaves less and less.           *)
LEMMA RecordedForget ==
  ASSUME CmdOK, TypeOK, FilesRecorded, Forget, Removed
  PROVE  FilesRecorded'
<1>1. CASE UNCHANGED sidecar
  BY <1>1, ForgetGoes DEF FilesRecorded, RecordOf
<1>2. CASE sidecar' = [sidecar EXCEPT ![cmd.at] = None]
  <2>1. cmd.at \in Addon /\ \A l \in Location \ orphan : file[l].of # cmd.at
    BY ForgetGoes DEF Removed, At
  <2>2. QED BY <2>1, <1>2, ForgetGoes DEF FilesRecorded, RecordOf, TypeOK
<1>3. QED BY <1>1, <1>2, ForgetGoes

LEMMA FitsOne ==
  ASSUME RecordsFit, LateUsers, NEW a \in Addon, NEW b \in Addon, NEW l \in Location, cmd.seen[a][l].of = b
  PROVE  a = b
<1>1. Fits(a, cmd.seen[a])
  BY DEF RecordsFit
<1>2. QED BY <1>1, Contents DEF Fits, LateUsers

LEMMA RecordedEnter ==
  ASSUME TypeOK, FilesRecorded, RecordsFit, LateUsers, NEW a \in Addon, cmd.seen[a] \in Record, UNCHANGED <<file, listed>>,
         sidecar' = [sidecar EXCEPT ![a] = cmd.seen[a]], orphan' = {l \in orphan : file[l] # cmd.seen[a][l]},
         \A l \in Location \ orphan : file[l].of = a => cmd.seen[a][l] = file[l]
  PROVE  FilesRecorded'
<1> SUFFICES ASSUME NEW l \in Location, l \notin orphan', NEW b \in Addon, file[l].of = b, RecordOf(b)' # None
             PROVE  RecordOf(b)'[l] = file[l]
  BY DEF FilesRecorded
<1>1. sidecar'[a] = cmd.seen[a] /\ sidecar'[a] # None
  BY Records DEF TypeOK
<1>2. CASE b = a
  BY <1>1, <1>2 DEF RecordOf
<1>3. CASE b # a
  <2>1. l \notin orphan
    BY <1>3, FitsOne
  <2>2. sidecar'[b] = sidecar[b] /\ listed' = listed
    BY <1>3 DEF TypeOK
  <2>3. QED BY <2>1, <2>2 DEF RecordOf, FilesRecorded
<1>4. QED BY <1>2, <1>3

LEMMA RecordedWrite ==
  ASSUME TypeOK, CmdOK, FilesRecorded, RecordsFit, LateUsers, FilesFit, FoundThere, WriteSidecar
  PROVE  FilesRecorded'
<1>1. CASE UNCHANGED <<sidecar, gone, orphan>>
  BY <1>1, WriteGoes DEF FilesRecorded, RecordOf
<1>2. CASE ~UNCHANGED <<sidecar, gone, orphan>>
  <2>1. PICK a \in cmd.todo : /\ a \in Addon /\ cmd.seen[a] \in Record
                              /\ sidecar' = [sidecar EXCEPT ![a] = cmd.seen[a]]
                              /\ orphan' = {l \in orphan : file[l] # cmd.seen[a][l]}
    BY <1>2, WriteGoes
  <2>2. /\ At("provide") /\ cmd.left = {} /\ cmd.job = "install" /\ a \in cmd.asked
    BY <2>1, WriteGoes DEF CmdOK, Installing, FoundThere, At
  <2>3. \A l \in Owned(a) : file[l].of = a => cmd.seen[a][l] = file[l]
    BY <2>2 DEF FoundThere, Coming, At
  <2>4. \A l \in Location : file[l].of = a => l \in Owned(a)
    BY <2>1, Contents DEF FilesFit
  <2>5. \A l \in Location \ orphan : file[l].of = a => cmd.seen[a][l] = file[l]
    BY <2>3, <2>4
  <2>6. UNCHANGED <<file, listed>>
    BY WriteGoes
  <2>7. QED BY <2>1, <2>5, <2>6, RecordedEnter
<1>3. QED BY <1>1, <1>2

LEMMA RecordedStep ==
  ASSUME TypeOK, CmdOK, Mending, RecordsFit, LateUsers, FilesFit, FoundThere, Removed, FilesRecorded, Next
  PROVE  FilesRecorded'
<1>1. CASE Outside
  <2>1. \A a \in Addon : \A l \in Location : file'[l].of = a => file'[l] = file[l]
    BY <1>1, OutsideStays, Contents DEF EditFile, TypeOK
  <2>2. QED BY <1>1, <2>1, OutsideStays DEF FilesRecorded, RecordOf
<1>2. CASE Preflight \/ Delete
  <2>1. UNCHANGED <<sidecar, listed, orphan>>
    BY <1>2 DEF Preflight, Delete, ghosts
  <2>2. \A a \in Addon : \A l \in Location : file'[l].of = a => file'[l] = file[l]
    BY <1>2, Contents DEF Preflight, Delete, TypeOK
  <2>3. QED BY <2>1, <2>2 DEF FilesRecorded, RecordOf
<1>3. CASE Place
  BY <1>3, PlaceGoes DEF FilesRecorded, RecordOf
<1>4. CASE Copy
  BY <1>4, CopyGoes DEF FilesRecorded, RecordOf, TypeOK
<1>5. CASE Forget
  BY <1>5, RecordedForget
<1>6. CASE Migrate
  BY <1>6 DEF Migrate, FilesRecorded, RecordOf, ghosts
<1>7. CASE WriteSidecar
  BY <1>7, RecordedWrite
<1>8. CASE Mended
  <2>1. \A l \in Location \ orphan : file[l].of = cmd.at => cmd.seen[cmd.at][l] = file[l]
    BY <1>8, MendedGoes DEF FilesRecorded, RecordOf
  <2>2. QED BY <1>8, <2>1, MendedGoes, RecordedEnter
<1>9. CASE Prune
  BY <1>9 DEF Prune, FilesRecorded, RecordOf, Removed, TypeOK, At, CmdOK, Removing, ghosts
<1>10. CASE Verify
  BY <1>10 DEF Verify, FilesRecorded, RecordOf, ghosts
<1>11. CASE WriteState
  BY <1>11 DEF WriteState, FilesRecorded, RecordOf, ghosts
<1>12. CASE ~(Outside \/ Preflight \/ Delete \/ Place \/ Copy \/ Forget \/ Migrate \/ WriteSidecar \/ Mended \/ Prune \/ Verify \/ WriteState)
  <2>1. UNCHANGED <<file, sidecar, listed, orphan>>
    BY <1>12, Frame DEF Outside
  <2>2. QED BY <2>1 DEF FilesRecorded, RecordOf
<1>13. QED BY <1>1, <1>2, <1>3, <1>4, <1>5, <1>6, <1>7, <1>8, <1>9, <1>10, <1>11, <1>12

LEMMA DisallowGoes ==
  ASSUME CmdOK, Disallow
  PROVE  /\ At("disallow") /\ UNCHANGED <<disk, hook, own, kept, version, ghosts, bounds>>
         /\ cmd'.pc = "resume" \/ (cmd'.pc = "disown" /\ cmd'.at = cmd.at /\ cmd'.left = Recorded(cmd.at))
BY DEF Disallow, Leave, CmdOK, Fields

LEMMA RemovedCheck ==
  ASSUME TypeOK, CmdOK, FilesRecorded, Removed, Check
  PROVE  Removed'
<1>1. PICK l \in cmd.left :
           /\ At("files") /\ cmd.at \in Addon /\ l \in Location /\ UNCHANGED <<disk, settings, kept, version, ghosts, bounds>>
           /\ cmd'.at = cmd.at /\ cmd'.left = cmd.left \ {l}
           /\ \/ cmd'.pc = "delete" /\ cmd'.target = l
              \/ /\ cmd'.pc = "files"
                 /\ file[l] = Nothing \/ sidecar[cmd.at][l] = Absent \/ file[l] # sidecar[cmd.at][l]
  BY CheckGoes
<1>2. cmd'.pc = "files" => l \in orphan \/ file[l].of # cmd.at
  BY <1>1, Contents DEF Removed, FilesRecorded, RecordOf, At
<1>3. QED BY <1>1, <1>2 DEF Removed, At, disk, settings, ghosts

LEMMA RemovedForget ==
  ASSUME CmdOK, TypeOK, Removed, Forget
  PROVE  Removed'
<1>1. CASE Leave
  BY <1>1 DEF Leave, Removed, At, CmdOK, Fields
<1>2. CASE ~Leave
  <2>1. /\ sidecar' = [sidecar EXCEPT ![cmd.at] = None] /\ Goto("prune") /\ UNCHANGED <<file, orphan, hook>> /\ cmd.at \in Addon
    BY <1>2, ForgetGoes DEF settings
  <2>2. /\ \A l \in Location \ orphan : file[l].of # cmd.at
        /\ cmd.at \notin hook
    BY ForgetGoes DEF Removed, At
  <2>3. QED BY <2>1, <2>2 DEF Removed, At, Goto, CmdOK, Fields, TypeOK
<1>3. QED BY <1>1, <1>2

LEMMA RemovedStep ==
  ASSUME TypeOK, CmdOK, FoundThere, FilesRecorded, Removed, Next
  PROVE  Removed'
<1>1. CASE Outside
  <2>1. \A l \in Location : file'[l] = file[l] \/ file'[l].of \notin Addon
    BY <1>1, OutsideStays, Contents DEF EditFile, TypeOK
  <2>2. UNCHANGED <<sidecar, cmd, orphan, hook>>
    BY <1>1, OutsideStays
  <2>3. QED BY <2>1, <2>2 DEF Removed, At, CmdOK, Removing
<1>2. CASE Mark
  BY <1>2 DEF Mark, Leave, Goto, Removed, At, CmdOK, Fields
<1>3. CASE Unhook
  BY <1>3 DEF Unhook, Goto, Removed, At, CmdOK, Fields, disk
<1>4. CASE Disallow
  <2>1. cmd'.pc = "disown" => \A l \in Location \ orphan : l \in Recorded(cmd.at) \/ file[l].of # cmd.at
    BY <1>4, DisallowGoes, Contents DEF Removed, FilesRecorded, RecordOf, Recorded, At, CmdOK, Removing
  <2>2. QED BY <1>4, <2>1, DisallowGoes DEF Removed, At, disk, ghosts
<1>5. CASE Disown
  BY <1>5 DEF Disown, Goto, Removed, At, CmdOK, Fields, disk, ghosts
<1>6. CASE Check
  BY <1>6, RemovedCheck
<1>7. CASE Delete
  BY <1>7, Contents DEF Delete, Removed, At, CmdOK, Fields, Removing, TypeOK, settings, ghosts
<1>8. CASE Forget
  BY <1>8, RemovedForget
<1>9. CASE ~(Outside \/ Mark \/ Unhook \/ Disallow \/ Disown \/ Check \/ Delete \/ Forget)
  BY <1>9, Moves DEF Removed, At
<1>10. QED BY <1>1, <1>2, <1>3, <1>4, <1>5, <1>6, <1>7, <1>8, <1>9

(* The permissions of the skills, counted.                                     *)
LEMMA PermissionDisallow ==
  ASSUME TypeOK, CmdOK, PermissionsCounted, Disallow
  PROVE  PermissionsCounted'
<1> SUFFICES ASSUME NEW b \in Addon PROVE (allow[b] <= 1 + Times(b) /\ (<<b, "allowed">> \in torn \/ Permitted(b)))'
  BY DEF PermissionsCounted
<1>1. /\ allow[b] \in 0..2 /\ own[b] \in {"none", "added", "found"}
      /\ allow[b] <= 1 + Times(b) /\ (<<b, "allowed">> \in torn \/ Permitted(b))
  BY PermissionOf
<1>2. At("disallow") /\ UNCHANGED <<own, users, torn>> /\ cmd.at \in Addon
  BY DEF Disallow, ghosts, CmdOK, Removing, At
<1>3. CASE ~Leave
  <2>1. /\ allow[cmd.at] = 0 \/ own[cmd.at] # "none"
        /\ cmd' = [cmd EXCEPT !.pc = "disown", !.left = Recorded(cmd.at)]
    BY <1>3 DEF Disallow
  <2>2. cmd'.pc = "disown" /\ cmd'.at = cmd.at
    BY <2>1 DEF CmdOK, Fields
  <2>3. allow' = IF own[cmd.at] = "added" /\ allow[cmd.at] > 0 THEN [allow EXCEPT ![cmd.at] = @ - 1] ELSE allow
    BY DEF Disallow
  <2>4. QED BY <1>1, <1>2, <2>1, <2>2, <2>3 DEF Permitted, Times, At, TypeOK
<1>4. CASE Leave
  <2>1. ~(allow[cmd.at] = 0 \/ own[cmd.at] # "none") /\ cmd'.pc = "resume" /\ allow' = allow
    BY <1>2, <1>4 DEF Disallow, Leave, CmdOK, Fields, At
  <2>2. QED BY <1>1, <1>2, <2>1 DEF Permitted, Times, At
<1>5. QED BY <1>3, <1>4

LEMMA PermissionFrame ==
  ASSUME TypeOK, CmdOK, FoundThere, Next
  PROVE  /\ UNCHANGED <<allow, own>> \/ Hook \/ Own \/ Disallow \/ Disown \/ Outside
         /\ users' = users \/ Outside
         /\ cmd.pc = "own" => Own \/ Die \/ Outside
         /\ cmd.pc = "disown" => Disown \/ Die \/ Outside
         /\ cmd'.pc \in {"files", "delete"} =>
              Disown \/ Outside \/ (cmd.pc \in {"files", "delete"} /\ cmd'.at = cmd.at)
<1> USE DEF Outside, disk, settings, ghosts, Goto, End, Leave, At
<1>1. CASE Command
  BY <1>1 DEF Command, Begin, CmdOK, Fields, Idle
<1>2. CASE Begin("full", {}) \/ Begin("repair", {})
  BY <1>2 DEF Begin, CmdOK, Fields, Idle
<1>3. CASE Resume
  BY <1>3, ResumeGoes DEF CmdOK, Fields, Idle
<1>4. CASE Mark \/ Unhook
  BY <1>4 DEF Mark, Unhook, CmdOK, Fields, Idle
<1>5. CASE Disallow \/ Disown
  BY <1>5 DEF Disallow, Disown, CmdOK, Fields, Idle
<1>6. CASE Check
  BY <1>6 DEF Check, CmdOK, Fields, Idle
<1>7. CASE Delete
  BY <1>7 DEF Delete, CmdOK, Fields, Idle
<1>8. CASE Prune \/ Unmark
  BY <1>8 DEF Prune, Unmark, CmdOK, Fields, Idle
<1>9. CASE Preflight
  BY <1>9 DEF Preflight, CmdOK, Fields, Idle
<1>10. CASE Collide
  BY <1>10 DEF Collide, CmdOK, Fields, Idle
<1>11. CASE Place
  BY <1>11 DEF Place, CmdOK, Fields, Idle
<1>12. CASE Hook \/ Own
  BY <1>12 DEF Hook, Own, CmdOK, Fields, Idle
<1>13. CASE Verify
  BY <1>13 DEF Verify, CmdOK, Fields, Idle
<1>14. CASE Snapshot
  BY <1>14 DEF Snapshot, CmdOK, Fields, Idle
<1>15. CASE Migrate
  BY <1>15 DEF Migrate, CmdOK, Fields, Idle
<1>16. CASE Note
  BY <1>16, NoteGoes
<1>17. CASE Provide
  BY <1>17, ProvideGoes, ProvideMoves
<1>18. CASE Hash
  BY <1>18, HashGoes
<1>19. CASE WriteState
  BY <1>19 DEF WriteState, CmdOK, Fields, Idle
<1>20. CASE Look
  BY <1>20 DEF Look, CmdOK, Fields, Idle
<1>21. CASE Mended
  BY <1>21 DEF Mended, Enter, CmdOK, Fields, Idle
<1>22. CASE Die
  BY <1>22 DEF Die, CmdOK, Fields, Idle
<1>23. CASE EditFile
  BY <1>23 DEF EditFile, CmdOK, Fields, Idle
<1>24. CASE AllowSkill \/ MoveSource
  BY <1>24 DEF AllowSkill, MoveSource, CmdOK, Fields, Idle
<1>25. CASE Asked
  BY <1>25, AskedGoes
<1>26. CASE Forget
  BY <1>26, ForgetGoes DEF CmdOK, Fields
<1>27. CASE Mend
  BY <1>27, MendGoes, MendMoves
<1>28. CASE Copy
  BY <1>28, CopyGoes DEF CmdOK, Fields, Idle
<1>29. CASE WriteSidecar
  BY <1>29, WriteGoes DEF CmdOK, Fields, Idle
<1>30. QED BY <1>1, <1>2, <1>3, <1>4, <1>5, <1>6, <1>7, <1>8, <1>9, <1>10, <1>11, <1>12, <1>13, <1>14, <1>15, <1>16, <1>17, <1>18, <1>19, <1>20, <1>21, <1>22, <1>23, <1>24, <1>25, <1>26, <1>27, <1>28, <1>29
            DEF Next, RemovalStep, InstallStep

LEMMA PermissionsStep ==
  ASSUME TypeOK, CmdOK, FoundThere, PermissionsCounted, Next
  PROVE  PermissionsCounted'
<1>1. CASE Disallow
  BY <1>1, PermissionDisallow
<1>2. CASE ~Disallow
  <2> SUFFICES ASSUME NEW b \in Addon
               PROVE  (allow[b] <= 1 + Times(b) /\ (<<b, "allowed">> \in torn \/ Permitted(b)))'
    BY DEF PermissionsCounted
  <2> DEFINE Of == /\ allow[b] \in 0..2 /\ own[b] \in {"none", "added", "found"}
                   /\ allow[b] <= 1 + Times(b) /\ (<<b, "allowed">> \in torn \/ Permitted(b))
  <2>0. Of
    BY PermissionOf
  <2> USE DEF Permitted, Times, At
  <2>1. CASE Disown
    BY <2>0, <2>1 DEF Disown, TypeOK, CmdOK, Fields, Goto, ghosts
  <2>2. CASE Hook
    BY <2>0, <2>2 DEF Hook, TypeOK, CmdOK, Fields, ghosts
  <2>3. CASE Own
    BY <2>0, <2>3 DEF Own, TypeOK, CmdOK, Fields, ghosts
  <2>4. CASE Die
    BY <2>0, <2>4 DEF Die, End, Idle, settings
  <2>5. CASE Outside
    BY <2>0, <2>5 DEF Outside, EditFile, AllowSkill, MoveSource, settings, ghosts, TypeOK
  <2>6. CASE ~(Disown \/ Hook \/ Own \/ Die \/ Outside)
    <3>1. /\ UNCHANGED <<allow, own, users, torn>> /\ cmd.pc \notin {"own", "disown"} /\ cmd'.pc \notin {"own", "disown"}
          /\ cmd'.pc \in {"files", "delete"} => cmd.pc \in {"files", "delete"} /\ cmd'.at = cmd.at
      BY <1>2, <2>6, PermissionFrame, Frame, Moves
    <3>2. QED BY <2>0, <3>1
  <2>7. QED BY <2>1, <2>2, <2>3, <2>4, <2>5, <2>6
<1>3. QED BY <1>1, <1>2

(* Together: the invariant.                                                    *)
LEMMA AddonStep == AddonInv /\ [Next]_vars => AddonInv'
<1> SUFFICES ASSUME AddonInv, [Next]_vars PROVE AddonInv'
  OBVIOUS
<1> USE DEF AddonInv
<1>1. CASE Next
  BY <1>1, CmdStep, TypeStep, GoneStep, RecordsStep, FilesStep, LateStep, WindowsStep, FoundStep,
     MendingStep, RecordedStep, RemovedStep, PermissionsStep
<1>2. CASE UNCHANGED vars
  <2> USE <1>2 DEF vars, disk, settings, kept, ghosts, bounds, At
  <2>1. TypeOK' /\ CmdOK' /\ GoneInv'
    BY DEF TypeOK, CmdOK, GoneInv
  <2>2. RecordsFit' /\ FilesFit' /\ LateUsers' /\ Windows'
    BY DEF RecordsFit, Fits, FilesFit, LateUsers, Windows
  <2>3. FoundThere' /\ Mending' /\ FilesRecorded'
    BY DEF FoundThere, Coming, Mending, Registered, Recorded, FilesRecorded, RecordOf
  <2>4. Removed' /\ PermissionsCounted'
    BY DEF Removed, PermissionsCounted, Permitted, Times
  <2>5. QED BY <2>1, <2>2, <2>3, <2>4
<1>3. QED BY <1>1, <1>2

LEMMA AddonInvariant == Spec => []AddonInv
<1>1. QED BY InitAddon, AddonStep, PTL DEF Spec

(* A removed addon stays gone: no migration turns an old entry of the install-   *)
(* state into a sidecar again (addon_migration.py), unless the removal died      *)
(* between the sidecar and that entry.                                           *)
THEOREM RemovedAddonsStayGone == Spec => []RemovedStaysGone
<1>1. AddonInv => RemovedStaysGone
  BY DEF AddonInv, GoneInv, RemovedStaysGone
<1>2. QED BY <1>1, AddonInvariant, PTL

(* Where a step takes what is at a location without putting it aside, either no  *)
(* content of the user's is there or one that came after the last look.          *)
LEMMA UserFiles ==
  ASSUME AddonInv, Next, NEW l \in Location, file[l].of = "user", file'[l] # file[l], edits' = edits
  PROVE  aside'[l] = aside[l] + 1 \/ file[l] \in late
<1> USE DEF AddonInv
<1>1. Preflight \/ Delete \/ Place \/ Copy \/ EditFile
  BY Frame
<1>2. CASE EditFile
  BY <1>2 DEF EditFile, TypeOK
<1>3. CASE Preflight
  <2>1. PICK away \in SUBSET Skills(cmd.asked) :
          PutAside(away) /\ file' = [k \in Location |-> IF k \in away THEN Nothing ELSE file[k]]
    BY <1>3 DEF Preflight
  <2>2. l \in away
    BY <2>1
  <2>3. QED BY <2>1, <2>2 DEF PutAside
<1>4. CASE Place
  <2>1. l \in Skills(cmd.asked)
    BY <1>4 DEF Place, Skills
  <2>2. QED BY <1>4, <2>1 DEF Place, PutAside
<1>5. CASE Delete \/ Copy
  <2>1. cmd.pc \in {"delete", "copy"} /\ l = cmd.target
    BY <1>5, CopyGoes DEF Delete, At, TypeOK
  <2>2. QED BY <2>1 DEF Windows
<1>6. QED BY <1>1, <1>2, <1>3, <1>4, <1>5

(* A file of the user's goes only by his own edit, into the pending or rollback  *)
(* folder, or if it came after the installer's last look at its place, whatever  *)
(* command runs and wherever it dies.                                            *)
THEOREM UserFilesAreKept == Spec => UserFilesKept
<1>1. ASSUME AddonInv, [Next]_vars
      PROVE  [\A l \in Location : file[l].of = "user" /\ file'[l] # file[l] /\ edits' = edits =>
                 aside'[l] = aside[l] + 1 \/ file[l] \in late]_vars
  <2>1. CASE Next
    BY <1>1, <2>1, UserFiles
  <2>2. CASE UNCHANGED vars
    BY <2>2
  <2>3. QED BY <1>1, <2>1, <2>2
<1>2. QED BY <1>1, AddonInvariant, PTL DEF Spec, UserFilesKept

(* Only the step that forgets the addon drops its sidecar.                       *)
LEMMA SidecarGoes ==
  ASSUME AddonInv, [Next]_vars, NEW a \in Addon, sidecar[a] # None, sidecar'[a] = None
  PROVE  Forget /\ cmd.at = a /\ At("files") /\ cmd.left = {}
<1> USE DEF AddonInv
<1>1. Next /\ sidecar' # sidecar
  BY DEF vars, disk
<1>2. ~Migrate
  BY DEF Migrate
<1>3. ASSUME WriteSidecar PROVE FALSE
  <2>1. PICK b \in cmd.todo : cmd.seen[b] \in Record /\ sidecar' = [sidecar EXCEPT ![b] = cmd.seen[b]]
    BY <1>1, <1>3, WriteGoes
  <2>2. QED BY <2>1, Records DEF TypeOK
<1>4. ASSUME Mended PROVE FALSE
  <2>1. cmd.seen[cmd.at] \in Record /\ sidecar' = [sidecar EXCEPT ![cmd.at] = cmd.seen[cmd.at]]
    BY <1>4 DEF Mended, Enter, CmdOK, At
  <2>2. QED BY <2>1, Records DEF TypeOK
<1>5. Forget
  BY <1>1, <1>2, <1>3, <1>4, Frame
<1>6. QED BY <1>1, <1>5, ForgetGoes DEF TypeOK

LEMMA CountUser == ASSUME NEW a PROVE Cardinality({a} \cap users) = Times(a)
<1>1. CASE a \in users
  <2>1. {a} \cap users = {a}
    BY <1>1
  <2>2. QED BY <1>1, <2>1, FS_Singleton DEF Times
<1>2. CASE a \notin users
  <2>1. {a} \cap users = {}
    BY <1>2
  <2>2. QED BY <1>2, <2>1, FS_EmptySet DEF Times
<1>3. QED BY <1>1, <1>2

(* The sidecar goes last: when a removal drops it nothing of the addon is left   *)
(* that only it names (uninstall_addon).                                         *)
THEOREM NothingIsLeft == Spec => NothingLeft
<1>1. ASSUME AddonInv, [Next]_vars, NEW a \in Addon, sidecar[a] # None, sidecar'[a] = None
      PROVE  /\ a \notin hook /\ \A l \in Location \ orphan : file[l].of # a
             /\ allow[a] = Cardinality({a} \cap users) \/ <<a, "allowed">> \in torn
  <2>1. cmd.at = a /\ At("files") /\ cmd.left = {}
    BY <1>1, SidecarGoes
  <2>2. a \notin hook /\ \A l \in Location \ orphan : file[l].of # a
    BY <1>1, <2>1 DEF AddonInv, Removed, At
  <2>3. <<a, "allowed">> \in torn \/ Permitted(a)
    BY <1>1, PermissionOf DEF AddonInv
  <2>4. Times(a) + 0 = Times(a)
    BY DEF Times
  <2>5. allow[a] = Times(a) \/ <<a, "allowed">> \in torn
    BY <2>1, <2>3, <2>4 DEF Permitted, At
  <2>6. QED BY <2>2, <2>5, CountUser
<1>2. AddonInv /\ [Next]_vars =>
        [\A a \in Addon : sidecar[a] # None /\ sidecar'[a] = None =>
           /\ a \notin hook /\ \A l \in Location \ orphan : file[l].of # a
           /\ allow[a] = Cardinality({a} \cap users) \/ <<a, "allowed">> \in torn]_vars
  BY <1>1
<1>3. QED BY <1>2, AddonInvariant, PTL DEF Spec, NothingLeft

====
