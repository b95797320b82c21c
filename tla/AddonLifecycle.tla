---------------------------- MODULE AddonLifecycle ----------------------------
(* The addons of one host: their install, repair and removal, one command at a *)
(* time under the install lock (addon_installer.py, addon_uninstall.py,         *)
(* addon_migration.py, addon_skill_permissions.py, installer/cli.py). What an   *)
(* addon owns is known from its sidecar only: the contents its last install     *)
(* found in place. A removal writes a marker first, and every later install or  *)
(* removal goes on with it. A command may die between any two steps; the        *)
(* sources of addons move on, and the user changes files at every moment.       *)
EXTENDS Naturals, FiniteSets

CONSTANTS Addon, Skill, Extra, Versions, Linked, Legacy, None,
          MaxCommands, MaxEdits, MaxDeaths

Location == {Skill[a] : a \in Addon} \cup UNION {Extra[a] : a \in Addon}
Owned(a) == {Skill[a]} \cup Extra[a]
\* A version of an addon's, one of the contents the user wrote (no two alike), or nothing. A record
\* says of a missing file that there was none, or that it went before it was hashed.
Content == [of : Addon \cup {"none", "user", "absent"}, v : Nat]
Nothing == [of |-> "none", v |-> 0]
Absent == [of |-> "absent", v |-> 0]
Vanished == [of |-> "absent", v |-> 1]

\* No two addons have the skill name of one another (load_addon_targets); an extra may be in the way of
\* another addon's.
ASSUME AddonAssumption ==
  /\ DOMAIN Skill = Addon /\ DOMAIN Extra = Addon
  /\ \A a, b \in Addon : Skill[a] = Skill[b] => a = b
  /\ \A a \in Addon : Extra[a] \cap {Skill[b] : b \in Addon} = {}
  /\ Versions \in Nat \ {0} /\ Linked \in BOOLEAN /\ Legacy \subseteq Addon
  /\ {"none", "user", "absent"} \cap Addon = {} /\ None \notin [Location -> Content]

VARIABLES
  file,      \* location -> what is there: nothing, the user's, or a version of an addon's
  sidecar,   \* addon -> its record (location -> content, "none" where it has nothing) or None
  listed,    \* addon -> its targets in the install-state, or None
  marker,    \* addons with a removal marker
  hook,      \* addons whose hooks are registered
  allow,     \* addon -> how often the permission of its skill is in Claude's settings
  own,       \* addon -> the ownership file: "none", "added" by an install, or "found" there
  snapshot,  \* an install has left a snapshot of the skills
  aside,     \* location -> how many contents of the user's lie in the pending or the rollback folder
  version,   \* addon -> the version its source folder has
  cmd,       \* the command that runs
  users,     \* addons whose skill the user himself allowed
  gone,      \* addons removed and not installed again
  orphan,    \* locations an install or a repair wrote and has no record of yet
  torn,      \* addons for which a command died between two writes of one record
  late,      \* the user's contents that came between a look of the installer and what it does next
  commands, edits, deaths

disk == <<file, sidecar, listed, marker>>
settings == <<hook, allow, own>>
kept == <<snapshot, aside>>
ghosts == <<users, gone, orphan, torn, late>>
bounds == <<commands, edits, deaths>>
vars == <<disk, settings, kept, version, cmd, ghosts, bounds>>

Record == [Location -> Content]
Empty == [l \in Location |-> Nothing]
Idle == [pc |-> "idle", job |-> "none", asked |-> {}, todo |-> {}, at |-> None, left |-> {},
         blocked |-> FALSE, target |-> None, seen |-> [a \in Addon |-> Empty]]

TypeOK ==
  /\ file \in [Location -> Content]
  /\ sidecar \in [Addon -> Record \cup {None}] /\ listed \in [Addon -> Record \cup {None}]
  /\ marker \subseteq Addon /\ hook \subseteq Addon
  /\ allow \in [Addon -> 0..2] /\ own \in [Addon -> {"none", "added", "found"}]
  /\ snapshot \in BOOLEAN /\ aside \in [Location -> Nat]
  /\ version \in [Addon -> 1..Versions] /\ late \subseteq Content /\ edits \in Nat

(* An earlier installer listed its addons in the install-state only. *)
Init ==
  /\ version = [a \in Addon |-> 1]
  /\ file = [l \in Location |-> IF \E a \in Legacy : l = Skill[a]
                                THEN [of |-> CHOOSE a \in Legacy : l = Skill[a], v |-> 1] ELSE Nothing]
  /\ listed = [a \in Addon |-> IF a \in Legacy THEN [Empty EXCEPT ![Skill[a]] = [of |-> a, v |-> 1]] ELSE None]
  /\ sidecar = [a \in Addon |-> None] /\ marker = {} /\ hook = {}
  /\ allow = [a \in Addon |-> 0] /\ own = [a \in Addon |-> "none"]
  /\ snapshot \in BOOLEAN /\ aside = [l \in Location |-> 0]
  /\ cmd = Idle /\ users = {} /\ gone = {} /\ orphan = {} /\ torn = {} /\ late = {}
  /\ commands = 0 /\ edits = 0 /\ deaths = 0

-----------------------------------------------------------------------------
At(place) == cmd.pc = place
Goto(place) == cmd' = [cmd EXCEPT !.pc = place]
End == cmd' = Idle
Registered == {a \in Addon : sidecar[a] # None}
Recorded(a) == {l \in Location : sidecar[a] # None /\ sidecar[a][l] # Nothing}
Current(a) == [of |-> a, v |-> version[a]]
Skills(asked) == {Skill[a] : a \in asked}
Found(l, missing) == IF file[l] = Nothing THEN missing ELSE file[l]
\* What of the user's is at these locations is kept elsewhere.
PutAside(places) == aside' = [l \in Location |-> IF l \in places /\ file[l].of = "user" THEN aside[l] + 1 ELSE aside[l]]

Begin(job, asked) ==
  /\ At("idle") /\ commands < MaxCommands /\ commands' = commands + 1
  /\ cmd' = [Idle EXCEPT !.job = job, !.asked = asked,
                         !.todo = IF job = "repair" THEN Registered ELSE marker,
                         !.pc = IF job = "repair" THEN "mend" ELSE IF job = "install" THEN "preflight" ELSE "resume"]
  /\ UNCHANGED <<disk, settings, kept, version, ghosts, edits, deaths>>

(* The first install of a host moves a folder that is in its way, and that no   *)
(* installer marked, to the pending folder. A link stays.                       *)
Preflight ==
  /\ At("preflight") /\ Goto("resume")
  /\ \E away \in SUBSET Skills(cmd.asked) :
       /\ away # {} => ~snapshot
       /\ \A l \in away : file[l] # Nothing /\ ~(Linked /\ file[l].of \in Addon)
       /\ PutAside(away) /\ file' = [l \in Location |-> IF l \in away THEN Nothing ELSE file[l]]
  /\ UNCHANGED <<sidecar, listed, marker, settings, snapshot, version, ghosts, bounds>>

(* Pending removals first; then what was asked for. Full removal takes every   *)
(* addon that has a sidecar by then.                                           *)
Resume ==
  /\ At("resume")
  /\ IF cmd.todo # {}
     THEN \E a \in cmd.todo : cmd' = [cmd EXCEPT !.todo = @ \ {a}, !.at = a, !.pc = "mark"]
     ELSE cmd' = [cmd EXCEPT !.pc = "asked"]
  /\ UNCHANGED <<disk, settings, kept, version, ghosts, bounds>>
Asked ==
  /\ At("asked")
  /\ LET going == IF cmd.job = "full" THEN Registered ELSE cmd.asked IN
     \/ cmd.job = "install" /\ Goto("collide")
     \/ cmd.job # "install" /\ going = {} /\ End
     \/ cmd.job # "install" /\ \E a \in going :
            cmd' = [cmd EXCEPT !.todo = going \ {a}, !.asked = {}, !.job = "remove", !.at = a, !.pc = "mark"]
  /\ UNCHANGED <<disk, settings, kept, version, ghosts, bounds>>

-----------------------------------------------------------------------------
(* Removal of one addon (uninstall_addon). *)

Leave == cmd' = [cmd EXCEPT !.pc = "resume", !.at = None, !.left = {}, !.blocked = FALSE]

(* Without a sidecar there is at most a marker to clear. *)
Mark ==
  LET a == cmd.at IN
  /\ At("mark")
  /\ IF sidecar[a] = None THEN marker' = marker \ {a} /\ Leave
     ELSE marker' = marker \cup {a} /\ Goto("unhook")
  /\ UNCHANGED <<file, sidecar, listed, settings, kept, version, ghosts, bounds>>

Unhook ==
  /\ At("unhook") /\ hook' = hook \ {cmd.at} /\ Goto("disallow")
  /\ UNCHANGED <<disk, allow, own, kept, version, ghosts, bounds>>

(* One occurrence goes, if an install added it; one of unknown origin stops    *)
(* the removal.                                                                *)
Disallow ==
  LET a == cmd.at
      known == allow[a] = 0 \/ own[a] # "none" IN
  /\ At("disallow")
  /\ allow' = IF own[a] = "added" /\ allow[a] > 0 THEN [allow EXCEPT ![a] = @ - 1] ELSE allow
  /\ IF known THEN cmd' = [cmd EXCEPT !.pc = "disown", !.left = Recorded(a)] ELSE Leave
  /\ UNCHANGED <<disk, hook, own, kept, version, ghosts, bounds>>
Disown ==
  /\ At("disown") /\ own' = [own EXCEPT ![cmd.at] = "none"] /\ Goto("files")
  /\ UNCHANGED <<disk, hook, allow, kept, version, ghosts, bounds>>

(* A file goes if it is what the sidecar says; a changed one stays and with it *)
(* the sidecar. It is hashed first and removed then, whatever it is by then.    *)
Check ==
  \E l \in cmd.left :
    LET recorded == sidecar[cmd.at][l]
        remains == recorded # Absent /\ file[l] # Nothing IN
    /\ At("files")
    /\ cmd' = IF remains /\ file[l] = recorded
              THEN [cmd EXCEPT !.left = @ \ {l}, !.target = l, !.pc = "delete"]
              ELSE [cmd EXCEPT !.left = @ \ {l}, !.blocked = @ \/ remains]
    /\ UNCHANGED <<disk, settings, kept, version, ghosts, bounds>>
Delete ==
  /\ At("delete") /\ file' = [file EXCEPT ![cmd.target] = Nothing]
  /\ cmd' = [cmd EXCEPT !.target = None, !.pc = "files"]
  /\ UNCHANGED <<sidecar, listed, marker, settings, kept, version, ghosts, bounds>>
Forget ==
  LET a == cmd.at IN
  /\ At("files") /\ cmd.left = {}
  /\ IF cmd.blocked THEN Leave /\ UNCHANGED <<sidecar, gone>>
     ELSE sidecar' = [sidecar EXCEPT ![a] = None] /\ gone' = gone \cup {a} /\ Goto("prune")
  /\ UNCHANGED <<file, listed, marker, settings, kept, version, users, orphan, torn, late, bounds>>
(* A bug: the install-state keeps the addon. *)
PrunesNothing ==
  /\ At("prune") /\ Goto("unmark")
  /\ UNCHANGED <<disk, settings, kept, version, ghosts, bounds>>
Prune ==
  /\ At("prune") /\ listed' = [listed EXCEPT ![cmd.at] = None] /\ Goto("unmark")
  /\ UNCHANGED <<file, sidecar, marker, settings, kept, version, ghosts, bounds>>
Unmark ==
  /\ At("unmark") /\ marker' = marker \ {cmd.at} /\ Leave
  /\ UNCHANGED <<file, sidecar, listed, settings, kept, version, ghosts, bounds>>

-----------------------------------------------------------------------------
(* Install of the addons asked for, over what detect_collisions allows. Of two *)
(* records that name one location the later one counts.                        *)

OwnerOf(l) == {a \in Addon : l \in Recorded(a)}
SkillFree(a) ==
  LET now == file[Skill[a]] recorded == sidecar[a][Skill[a]] IN
  \/ now = Nothing
  \/ a \in OwnerOf(Skill[a]) /\ (now = recorded \/ (now = Current(a) /\ (Linked \/ recorded # Absent)))
  \/ OwnerOf(Skill[a]) = {} /\ Linked /\ now.of # "user"
ExtraFree(a, l) == file[l] = Nothing \/ (a \in OwnerOf(l) /\ file[l] = sidecar[a][l])
AllFree == \A a \in cmd.asked : SkillFree(a) /\ \A l \in Extra[a] : ExtraFree(a, l)
Disputed == \E a \in cmd.asked : \E l \in Owned(a) : Cardinality(OwnerOf(l)) > 1
Collide ==
  /\ At("collide")
  /\ \/ AllFree /\ Goto("place")
     \/ (~AllFree \/ Disputed) /\ End
  /\ UNCHANGED <<disk, settings, kept, version, ghosts, bounds>>

(* What has come to the place meanwhile goes to the rollback folder.           *)
Place ==
  /\ At("place")
  /\ file' = [l \in Location |-> IF \E a \in cmd.asked : l = Skill[a]
                                 THEN Current(CHOOSE a \in cmd.asked : l = Skill[a]) ELSE file[l]]
  /\ PutAside(Skills(cmd.asked)) /\ orphan' = orphan \cup Skills(cmd.asked)
  /\ Goto("hook")
  /\ UNCHANGED <<sidecar, listed, marker, settings, snapshot, version, users, gone, torn, late, bounds>>

(* The settings with hooks and permissions are written first, then the         *)
(* ownership file; what it held from an earlier install stays.                 *)
Hook ==
  /\ At("hook")
  /\ hook' = hook \cup cmd.asked
  /\ allow' = [a \in Addon |-> IF a \in cmd.asked /\ allow[a] = 0 THEN 1 ELSE allow[a]]
  /\ cmd' = [cmd EXCEPT !.pc = "own", !.todo = {a \in cmd.asked : allow[a] = 0}]
  /\ UNCHANGED <<disk, own, kept, version, ghosts, bounds>>
(* A bug: every permission the install finds counts as added. *)
OwnAll ==
  /\ At("own")
  /\ own' = [a \in Addon |-> IF a \in cmd.asked THEN "added" ELSE own[a]]
  /\ cmd' = [cmd EXCEPT !.pc = "verify", !.todo = {}]
  /\ UNCHANGED <<disk, hook, allow, kept, version, ghosts, bounds>>
Own ==
  /\ At("own")
  /\ own' = [a \in Addon |-> IF a \in cmd.todo THEN "added"
                             ELSE IF a \in cmd.asked /\ own[a] = "none" THEN "found" ELSE own[a]]
  /\ cmd' = [cmd EXCEPT !.pc = "verify", !.todo = {}]
  /\ UNCHANGED <<disk, hook, allow, kept, version, ghosts, bounds>>

(* A bug: whatever is there is recorded as the addon's.                        *)
VerifyNothing ==
  /\ At("verify") /\ Goto("snapshot")
  /\ UNCHANGED <<disk, settings, kept, version, ghosts, bounds>>
(* A skill that differs from its source stops the install, and the report of    *)
(* the failure takes the place of the install-state. A missing one does not.    *)
Verify ==
  /\ At("verify")
  /\ IF \A a \in cmd.asked : file[Skill[a]] \in {Nothing, Current(a)}
     THEN Goto("snapshot") /\ UNCHANGED listed
     ELSE End /\ listed' = [a \in Addon |-> None]
  /\ UNCHANGED <<file, sidecar, marker, settings, kept, version, ghosts, bounds>>

(* The ownership mark cannot be written where the user has put a file.         *)
Snapshot ==
  /\ At("snapshot")
  /\ \/ Goto("migrate") /\ snapshot' = TRUE
     \/ /\ ~Linked /\ \E a \in cmd.asked : file[Skill[a]].of = "user"
        /\ End /\ UNCHANGED snapshot
  /\ UNCHANGED <<disk, settings, aside, version, ghosts, bounds>>

(* Addons the install-state names and no sidecar does get one. *)
Migrate ==
  /\ At("migrate") /\ Goto("note")
  /\ sidecar' = [a \in Addon |-> IF sidecar[a] = None THEN listed[a] ELSE sidecar[a]]
  /\ UNCHANGED <<file, listed, marker, settings, kept, version, ghosts, bounds>>

-----------------------------------------------------------------------------
(* The records of an install: skills are hashed first, then every command and   *)
(* resource is checked once more, replaced, and hashed.                        *)
Note ==
  /\ At("note")
  /\ cmd' = [cmd EXCEPT !.pc = "provide", !.todo = cmd.asked,
                        !.left = {x \in cmd.asked \X Location : x[2] \in Extra[x[1]]},
                        !.seen = [a \in Addon |-> IF a \in cmd.asked
                                                  THEN [Empty EXCEPT ![Skill[a]] = Found(Skill[a], Absent)] ELSE Empty]]
  /\ UNCHANGED <<disk, settings, kept, version, ghosts, bounds>>
Provide ==
  /\ At("provide")
  /\ \E x \in cmd.left :
       IF ExtraFree(x[1], x[2])
       THEN cmd' = [cmd EXCEPT !.left = @ \ {x}, !.at = x[1], !.target = x[2], !.pc = "copy"]
       ELSE End
  /\ UNCHANGED <<disk, settings, kept, version, ghosts, bounds>>

(* A repair makes no skill where there is one by now. *)
Copy ==
  /\ At("copy")
  /\ IF cmd.job = "repair" /\ cmd.target = Skill[cmd.at] /\ file[cmd.target] # Nothing
     THEN cmd' = [cmd EXCEPT !.target = None, !.pc = "look"] /\ UNCHANGED <<file, orphan>>
     ELSE /\ file' = [file EXCEPT ![cmd.target] = Current(cmd.at)]
          /\ orphan' = orphan \cup {cmd.target} /\ Goto("hash")
  /\ UNCHANGED <<sidecar, listed, marker, settings, kept, version, users, gone, torn, late, bounds>>
Hash ==
  /\ At("hash")
  /\ LET record == [cmd.seen[cmd.at] EXCEPT ![cmd.target] = Found(cmd.target, Vanished)] IN
     cmd' = [cmd EXCEPT !.seen = [cmd.seen EXCEPT ![cmd.at] = record], !.target = None,
                        !.pc = IF cmd.job = "repair" THEN "look" ELSE "provide"]
  /\ UNCHANGED <<disk, settings, kept, version, ghosts, bounds>>

(* One sidecar per addon, with the hashes taken; then the install-state, from   *)
(* all sidecars, but with the skills asked for hashed anew.                     *)
Enter(a) == /\ sidecar' = [sidecar EXCEPT ![a] = cmd.seen[a]]
            /\ orphan' = {l \in orphan : file[l] # cmd.seen[a][l]}
WriteSidecar ==
  /\ At("provide") /\ cmd.left = {}
  /\ IF cmd.todo = {} THEN Goto("state") /\ UNCHANGED <<sidecar, gone, orphan>>
     ELSE \E a \in cmd.todo : Enter(a) /\ gone' = gone \ {a} /\ cmd' = [cmd EXCEPT !.todo = @ \ {a}]
  /\ UNCHANGED <<file, listed, marker, settings, kept, version, users, torn, late, bounds>>
WriteState ==
  /\ At("state") /\ End
  /\ listed' = [a \in Addon |-> IF a \in cmd.asked /\ sidecar[a] # None
                                 THEN [sidecar[a] EXCEPT ![Skill[a]] = Found(Skill[a], Absent)] ELSE sidecar[a]]
  /\ UNCHANGED <<file, sidecar, marker, settings, kept, version, ghosts, bounds>>

-----------------------------------------------------------------------------
(* Repair goes through what a sidecar names and places what is missing (Copy,   *)
(* Hash); then it writes the sidecar.                                          *)
Mend ==
  /\ At("mend")
  /\ \/ cmd.todo = {} /\ End
     \/ \E a \in cmd.todo : cmd' = [cmd EXCEPT !.todo = @ \ {a}, !.at = a, !.left = Recorded(a),
                                              !.seen = [@ EXCEPT ![a] = sidecar[a]], !.pc = "look"]
  /\ UNCHANGED <<disk, settings, kept, version, ghosts, bounds>>
Look ==
  /\ At("look")
  /\ \E l \in cmd.left :
       cmd' = IF file[l] = Nothing THEN [cmd EXCEPT !.left = @ \ {l}, !.target = l, !.pc = "copy"]
              ELSE [cmd EXCEPT !.left = @ \ {l}]
  /\ UNCHANGED <<disk, settings, kept, version, ghosts, bounds>>
Mended ==
  /\ At("look") /\ cmd.left = {} /\ Enter(cmd.at)
  /\ cmd' = [cmd EXCEPT !.pc = "mend", !.at = None]
  /\ UNCHANGED <<file, listed, marker, settings, kept, version, users, gone, torn, late, bounds>>

-----------------------------------------------------------------------------
Die ==
  /\ ~At("idle") /\ deaths < MaxDeaths /\ deaths' = deaths + 1 /\ End
  /\ torn' = torn \cup {<<a, "listed">> : a \in {b \in Addon : b = cmd.at /\ At("prune")}}
                  \cup {<<a, "allowed">> : a \in {b \in Addon : (b \in cmd.todo /\ At("own")) \/ (b = cmd.at /\ At("disown"))}}
  /\ UNCHANGED <<disk, settings, kept, version, users, gone, orphan, late, commands, edits>>

(* The user writes or takes away a file at any moment; he allows a skill; a     *)
(* source moves to its next version. What he writes where the installer has     *)
(* looked and not acted yet it takes for its own: a file it is about to remove, *)
(* to replace or to hash, and from its verification on the skills of an install.*)
Recording == {"snapshot", "migrate", "note", "provide", "copy", "hash", "state"}
InWindow(l) ==
  \/ cmd.pc \in {"delete", "copy", "hash"} /\ l = cmd.target
  \/ cmd.pc \in Recording /\ l \in Skills(cmd.asked)
EditFile ==
  /\ edits < MaxEdits /\ edits' = edits + 1
  /\ \E l \in Location, c \in {[of |-> "user", v |-> edits + 1], Nothing} :
       /\ c # file[l] /\ file' = [file EXCEPT ![l] = c]
       /\ late' = IF c # Nothing /\ InWindow(l) THEN late \cup {c} ELSE late
  /\ UNCHANGED <<sidecar, listed, marker, settings, kept, version, cmd, users, gone, orphan, torn, commands, deaths>>
AllowSkill ==
  /\ edits < MaxEdits /\ edits' = edits + 1 /\ At("idle")
  /\ \E a \in Addon \ users : /\ allow' = [allow EXCEPT ![a] = @ + 1]
                              /\ users' = users \cup {a}
  /\ UNCHANGED <<disk, hook, own, kept, version, cmd, gone, orphan, torn, late, commands, deaths>>
MoveSource ==
  /\ edits < MaxEdits /\ edits' = edits + 1 /\ At("idle")
  /\ \E a \in Addon : version[a] < Versions /\ version' = [version EXCEPT ![a] = @ + 1]
  /\ UNCHANGED <<disk, settings, kept, cmd, ghosts, commands, deaths>>

Command == \E job \in {"install", "remove"}, asked \in SUBSET Addon : asked # {} /\ Begin(job, asked)
RemovalStep == Resume \/ Asked \/ Mark \/ Unhook \/ Disallow \/ Disown \/ Check \/ Delete \/ Forget
               \/ Prune \/ Unmark
InstallStep == Preflight \/ Collide \/ Place \/ Hook \/ Own \/ Verify \/ Snapshot \/ Migrate \/ Note
               \/ Provide \/ Copy \/ Hash \/ WriteSidecar \/ WriteState
Next == Command \/ Begin("full", {}) \/ Begin("repair", {}) \/ RemovalStep \/ InstallStep
        \/ Mend \/ Look \/ Mended \/ Die \/ EditFile \/ AllowSkill \/ MoveSource
Spec == Init /\ [][Next]_vars

-----------------------------------------------------------------------------
(* No command destroys what the user put at an addon's location, though it      *)
(* reads ownership long before it acts on it (detect_collisions, _place_targets,*)
(* verify_after_copy, _safe_provision, _process_target): what comes between the *)
(* check for collisions and the placement is put aside. Only what he writes     *)
(* after the last look at its place can be lost.                                *)
UserFilesKept ==
  [][\A l \in Location :
       file[l].of = "user" /\ file'[l] # file[l] /\ edits' = edits =>
         aside'[l] = aside[l] + 1 \/ file[l] \in late]_vars

(* A removed addon does not come back by itself: no migration makes it a       *)
(* sidecar from an install-state that still lists it. It does after a removal  *)
(* that died between the two.                                                  *)
RemovedStaysGone == \A a \in gone : sidecar[a] = None \/ <<a, "listed">> \in torn

(* When the sidecar goes, nothing is left that only the sidecar names: no hook,*)
(* no file but what a command that died had not recorded, and of the           *)
(* permissions exactly the user's. The last fails after a death between the    *)
(* settings and the ownership file.                                            *)
NothingLeft ==
  [][\A a \in Addon : sidecar[a] # None /\ sidecar'[a] = None =>
       /\ a \notin hook /\ \A l \in Location \ orphan : file[l].of # a
       /\ allow[a] = Cardinality({a} \cap users) \/ <<a, "allowed">> \in torn]_vars

=============================================================================
