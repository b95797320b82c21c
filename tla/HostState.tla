------------------------------ MODULE HostState ------------------------------
(* What an installation for several hosts leaves outside its own files, and   *)
(* its removal: the repository's shared git hook path (installer/source.py),  *)
(* the settings it switches on in Codex's config.toml, each host's rule file, *)
(* skills and install-state, and the files the hosts share                    *)
(* (uninstall_cleanup.py, installer/lifecycle.py). An install writes the hook *)
(* path BEFORE it takes the install lock; everything else happens under it.   *)
(* Any command may die at any step; the next one goes on from what it finds.  *)
EXTENDS Naturals, FiniteSets

CONSTANTS Host, Codex, Proc, Checkout, UserPath, Unset, None,
          InitialPaths, InitialSettings, UserHooks,
          MaxCommands, MaxEdits, MaxDeaths

ASSUME HostAssumption ==
  /\ Codex \in Host
  /\ Checkout \cap UserPath = {} /\ Unset \notin Checkout \cup UserPath
  /\ None \notin Checkout \cup UserPath \cup {Unset} \cup Proc
  /\ InitialPaths \subseteq UserPath \cup {Unset}
  /\ InitialSettings \subseteq {"missing", "off", "on"} /\ UserHooks \in BOOLEAN

VARIABLES
  path,      \* core.hooksPath: a checkout's hooks folder, a value of the user's, or Unset
  record,    \* source-repo-hook-path.json: a change of the path, or None
  setting,   \* Codex's hooks flag and its trust in each checkout
  sidecar,   \* <host>-hook-feature-change.json and <host>-project-trust-change.json
  state,     \* host -> its install-state: the changes it records, or None
  source,    \* the install source the install record names, or None
  runtime,   \* the runtime that every host's hooks run is there
  hooks,     \* hosts whose hooks file has the suite's hooks
  rules,     \* host -> its rule file (CLAUDE.md, AGENTS.md)
  skill,     \* host -> the folder of a managed skill
  backup,    \* host -> that folder's one copy in uninstall-backup
  pending, archive,  \* host -> versions that wait for review, and archived ones
  lock, proc,
  users,     \* values the user ever gave the hook path
  theirs,    \* setting -> the user's value that an install's "on" replaced, or None
  mine,      \* <<host, "skill" or "text">>: what the user made of a skill or of the rules
  torn,      \* "path", "settings": written without the record that a removal reads
  cut,       \* a removal died inside a folder
  commands, edits, deaths

files == <<hooks, rules, skill, backup, pending, archive>>
shared == <<record, source, runtime>>
codex == <<setting, sidecar, theirs>>
ghosts == <<users, mine, torn, cut>>
bounds == <<commands, edits, deaths>>
vars == <<path, shared, codex, state, files, lock, proc, ghosts, bounds>>

Change == [before : UserPath \cup Checkout \cup {Unset}, after : Checkout]
Unrecorded == [before |-> Unset, after |-> None]
Kind == {"flag", "trust"}
Setting == {"flag"} \cup Checkout
Before == [of : Setting, before : {"missing", "off"}]
State == [path : Change \cup {Unrecorded}, flag : Before \cup {None}, trust : Before \cup {None}]
ASSUME ValueAssumption ==
  "flag" \notin Checkout /\ None \notin Change \cup Before \cup State
Folder == {"absent", "clean", "modified", "cut", "unmarked"}
RuleFile == {"absent", "ours", "both", "user", "marked"}
Place == {"idle", "check", "git", "record", "lock", "recheck", "place", "flag", "flagged",
          "trust", "trusted", "hooks", "state", "repair", "selected", "unhook", "path",
          "settings", "skill", "remove", "pending", "support", "runtime", "sidecars", "manifest"}
Idle == [pc |-> "idle", does |-> "none", host |-> None, checkout |-> None, adopt |-> FALSE,
         seen |-> None, change |-> Unrecorded, before |-> "missing"]

TypeOK ==
  /\ path \in UserPath \cup Checkout \cup {Unset}
  /\ record \in Change \cup {None} /\ source \in Checkout \cup {None} /\ runtime \in BOOLEAN
  /\ setting \in [Setting -> {"missing", "off", "on"}]
  /\ sidecar \in [Kind -> Before \cup {None}]
  /\ state \in [Host -> State \cup {None}]
  /\ hooks \subseteq Host /\ rules \in [Host -> RuleFile]
  /\ skill \in [Host -> Folder] /\ backup \in [Host -> Folder]
  /\ pending \in [Host -> SUBSET Folder] /\ archive \in [Host -> SUBSET Folder]
  /\ lock \in Proc \cup {None} /\ \A p \in Proc : proc[p].pc \in Place

Init ==
  /\ path \in InitialPaths /\ users = {path}
  /\ \E v \in InitialSettings : setting = [s \in Setting |-> IF s = "flag" THEN v ELSE "missing"]
  /\ sidecar = [k \in Kind |-> None] /\ theirs = [s \in Setting |-> None]
  /\ record = None /\ source = None /\ runtime = FALSE
  /\ state = [h \in Host |-> None] /\ hooks = {}
  /\ rules = [h \in Host |-> "absent"]
  /\ skill = [h \in Host |-> "absent"] /\ backup = skill
  /\ pending = [h \in Host |-> {}] /\ archive = pending
  /\ lock = None /\ proc = [p \in Proc |-> Idle]
  /\ mine = {} /\ torn = {} /\ cut = FALSE
  /\ commands = 0 /\ edits = 0 /\ deaths = 0

-----------------------------------------------------------------------------
At(p, place) == proc[p].pc = place
Goto(p, place) == proc' = [proc EXCEPT ![p].pc = place] /\ UNCHANGED lock
End(p) == /\ proc' = [proc EXCEPT ![p] = Idle]
          /\ lock' = IF lock = p THEN None ELSE lock
(* A bug: a removal does not look at the other hosts. *)
NoOthers(h) == {}
Others(h) == {g \in Host \ {h} : state[g] # None}

Start(p, job) ==
  /\ At(p, "idle") /\ commands < MaxCommands /\ commands' = commands + 1
  /\ proc' = [proc EXCEPT ![p] = job]
  /\ UNCHANGED <<path, shared, codex, state, files, lock, ghosts, edits, deaths>>

BeginInstall(p, h, w) ==
  Start(p, [Idle EXCEPT !.pc = "check", !.does = "place", !.host = h, !.checkout = w])
(* A removal starts at the lock; so does a repair, after the same source check. *)
BeginOther(p, h, does) ==
  /\ does = "repair" => source # None
  /\ Start(p, [Idle EXCEPT !.pc = "lock", !.does = does, !.host = h, !.checkout = source])

-----------------------------------------------------------------------------
(* Before the lock: the source check and the hook path. *)

MayInstall(p) == source \in {None, proc[p].checkout} \/ proc[p].adopt
CheckSource(p) ==
  /\ At(p, "check")
  /\ \/ /\ MayInstall(p)
        /\ proc' = [proc EXCEPT ![p].pc = "git", ![p].seen = source] /\ UNCHANGED lock
     \/ /\ ~MayInstall(p)
        /\ \/ End(p)
           \/ proc' = [proc EXCEPT ![p].pc = "git", ![p].seen = source, ![p].adopt = TRUE]
              /\ UNCHANGED lock
  /\ UNCHANGED <<path, shared, codex, state, files, ghosts, bounds>>

(* The change the installation records for a value: the last write's record   *)
(* comes first, then each host's install-state.                               *)
RecordsOf(v) ==
  {c \in {record} \cup {state[h].path : h \in {g \in Host : state[g] # None}} :
     c # None /\ c.after = v}
(* A bug: what an earlier install found is not looked up. *)
NothingRecorded(v) == {}
Recorded(v) == IF record \in RecordsOf(v) THEN {record} ELSE RecordsOf(v)

(* What the install says stood before: what a record says of the value in      *)
(* place, else that value. Its own value without a record leaves it unknown.   *)
Found(w) ==
  IF path = w THEN IF Recorded(w) = {} THEN {Unrecorded} ELSE Recorded(w)
  ELSE IF Recorded(path) = {} THEN {[before |-> path, after |-> w]}
  ELSE {[before |-> c.before, after |-> w] : c \in Recorded(path)}

WritePath(p) ==
  /\ At(p, "git")
  /\ \E c \in Found(proc[p].checkout) :
       proc' = [proc EXCEPT ![p].pc = IF c = Unrecorded THEN "lock" ELSE "record",
                            ![p].change = c]
  /\ path' = proc[p].checkout
  /\ torn' = torn \cup {w \in {"path"} : \E q \in Proc \ {p} : At(q, "record")}
  /\ UNCHANGED <<shared, codex, state, files, lock, users, mine, cut, bounds>>

WritePathRecord(p) ==
  /\ At(p, "record")
  /\ record' = proc[p].change
  /\ Goto(p, "lock")
  /\ UNCHANGED <<path, source, runtime, codex, state, files, ghosts, bounds>>

(* A lock that another command holds ends the command. *)
Acquire(p) ==
  /\ At(p, "lock")
  /\ IF lock # None THEN End(p)
     ELSE /\ lock' = p
          /\ proc' = [proc EXCEPT ![p].pc =
                        IF proc[p].does = "place" THEN "recheck" ELSE proc[p].does]
  /\ UNCHANGED <<path, shared, codex, state, files, ghosts, bounds>>

Recheck(p) ==
  /\ At(p, "recheck")
  /\ IF source = proc[p].seen \/ MayInstall(p) THEN Goto(p, "place") ELSE End(p)
  /\ UNCHANGED <<path, shared, codex, state, files, ghosts, bounds>>

-----------------------------------------------------------------------------
(* Install, under the lock. *)

(* A bug: what the install replaces is not kept. *)
PlacedOver(p) ==
  /\ At(p, "place")
  /\ skill' = [skill EXCEPT ![proc[p].host] = "clean"]
  /\ source' = proc[p].checkout /\ runtime' = TRUE
  /\ Goto(p, IF proc[p].host = Codex THEN "flag" ELSE "hooks")
  /\ UNCHANGED <<path, record, codex, state, hooks, rules, backup, pending, archive, ghosts, bounds>>

(* The user's version of a target is kept for review before it is replaced. *)
PlaceTargets(p) ==
  LET h == proc[p].host IN
  /\ At(p, "place")
  /\ pending' = [pending EXCEPT ![h] = @ \cup ({skill[h]} \ {"absent", "clean"})]
  /\ skill' = [skill EXCEPT ![h] = "clean"]
  /\ source' = proc[p].checkout /\ runtime' = TRUE
  /\ Goto(p, IF h = Codex THEN "flag" ELSE "hooks")
  /\ UNCHANGED <<path, record, codex, state, hooks, rules, backup, archive, ghosts, bounds>>

(* config.toml first, then the sidecar with the value it replaced. *)
SettingOf(p, k) == IF k = "flag" THEN "flag" ELSE proc[p].checkout
(* A bug: a setting that is on already is recorded as well. *)
SwitchedAgain(p, k) ==
  LET s == SettingOf(p, k) IN
  /\ At(p, k)
  /\ setting' = [setting EXCEPT ![s] = "on"]
  /\ theirs' = IF setting[s] = "on" THEN theirs ELSE [theirs EXCEPT ![s] = setting[s]]
  /\ proc' = [proc EXCEPT ![p].pc = IF k = "flag" THEN "flagged" ELSE "trusted",
                          ![p].before = IF setting[s] = "off" THEN "off" ELSE "missing"]
  /\ UNCHANGED <<path, shared, sidecar, state, files, lock, ghosts, bounds>>
SwitchOn(p, k) ==
  LET s == SettingOf(p, k) IN
  /\ At(p, k)
  /\ setting' = [setting EXCEPT ![s] = "on"]
  /\ theirs' = IF setting[s] = "on" THEN theirs ELSE [theirs EXCEPT ![s] = setting[s]]
  /\ proc' = [proc EXCEPT
       ![p].pc = IF setting[s] # "on" THEN IF k = "flag" THEN "flagged" ELSE "trusted"
                 ELSE IF k = "flag" THEN "trust" ELSE "hooks",
       ![p].before = IF setting[s] # "on" THEN setting[s] ELSE @]
  /\ UNCHANGED <<path, shared, sidecar, state, files, lock, ghosts, bounds>>
RecordSetting(p, k) ==
  /\ At(p, IF k = "flag" THEN "flagged" ELSE "trusted")
  /\ sidecar' = [sidecar EXCEPT ![k] = [of |-> SettingOf(p, k), before |-> proc[p].before]]
  /\ proc' = [proc EXCEPT ![p].pc = IF k = "flag" THEN "trust" ELSE "hooks",
                          ![p].before = "missing"]
  /\ UNCHANGED <<path, shared, setting, theirs, state, files, lock, ghosts, bounds>>

(* A rule file of the user's without a block is left alone (a proposal is     *)
(* written beside it); one that starts with the marker is taken for ours.     *)
RegisterHooks(p) ==
  LET h == proc[p].host IN
  /\ At(p, "hooks")
  /\ hooks' = hooks \cup {h}
  /\ rules' = [rules EXCEPT ![h] = IF @ \in {"user", "both"} THEN @ ELSE "ours"]
  /\ Goto(p, "state")
  /\ UNCHANGED <<path, shared, codex, state, skill, backup, pending, archive, ghosts, bounds>>

WriteState(p) ==
  LET h == proc[p].host
      Own(k) == IF h = Codex THEN sidecar[k] ELSE None IN
  /\ At(p, "state")
  /\ state' = [state EXCEPT ![h] = [path |-> proc[p].change,
                                    flag |-> Own("flag"), trust |-> Own("trust")]]
  /\ End(p)
  /\ UNCHANGED <<path, shared, codex, files, ghosts, bounds>>

(* Repair places what is missing and nothing else. *)
Repair(p) ==
  LET h == proc[p].host IN
  /\ At(p, "repair")
  /\ skill' = IF source = proc[p].checkout /\ skill[h] = "absent"
              THEN [skill EXCEPT ![h] = "clean"] ELSE skill
  /\ End(p)
  /\ UNCHANGED <<path, shared, codex, state, hooks, rules, backup, pending, archive, ghosts, bounds>>

-----------------------------------------------------------------------------
(* Removal. *)

Removed(file) == CASE file \in {"ours", "marked"} -> "absent"
                   [] file = "both" -> "user"
                   [] OTHER -> file

(* The user names the skill: it goes as it is, and with the last one the      *)
(* hooks and the rules. The install-state stays.                              *)
RemoveSelected(p) ==
  LET h == proc[p].host IN
  /\ At(p, "selected")
  /\ skill' = [skill EXCEPT ![h] = "absent"]
  /\ hooks' = hooks \ {h} /\ rules' = [rules EXCEPT ![h] = Removed(@)]
  /\ mine' = IF skill[h] = "absent" THEN mine ELSE mine \ {<<h, "skill">>}
  /\ End(p)
  /\ UNCHANGED <<path, shared, codex, state, backup, pending, archive, users, torn, cut, bounds>>

(* The full uninstall, in the order of build_report. Without an install-state *)
(* only hooks, rules and support files go.                                    *)
RemoveHooks(p) ==
  LET h == proc[p].host IN
  /\ At(p, "unhook")
  /\ hooks' = hooks \ {h} /\ rules' = [rules EXCEPT ![h] = Removed(@)]
  /\ Goto(p, IF state[h] = None THEN "pending" ELSE "path")
  /\ UNCHANGED <<path, shared, codex, state, skill, backup, pending, archive, ghosts, bounds>>

(* The last host gives the hook path back, if it still is what was written. *)
RestorePath(p) ==
  LET c == state[proc[p].host].path IN
  /\ At(p, "path")
  /\ path' = IF Others(proc[p].host) = {} /\ path = c.after THEN c.before ELSE path
  /\ Goto(p, "settings")
  /\ UNCHANGED <<shared, codex, state, files, ghosts, bounds>>

(* Codex's settings go back to what the install-state says, the hooks flag    *)
(* unless other hooks need it.                                                *)
Returned(s) == ((IF UserHooks THEN {} ELSE {s.flag}) \cup {s.trust}) \ {None}

RestoreSettings(p) ==
  LET Back == Returned(state[proc[p].host]) IN
  /\ At(p, "settings")
  /\ setting' = [x \in Setting |-> IF \E b \in Back : b.of = x
                                   THEN (CHOOSE b \in Back : b.of = x).before ELSE setting[x]]
  /\ theirs' = [x \in Setting |-> IF \E b \in Back : b.of = x THEN None ELSE theirs[x]]
  /\ Goto(p, "skill")
  /\ UNCHANGED <<path, shared, sidecar, state, files, ghosts, bounds>>

(* A folder as installed is removed; a changed one that still has its marker  *)
(* is first copied over its one place in uninstall-backup.                    *)
BackUp(p) ==
  LET h == proc[p].host IN
  /\ At(p, "skill")
  /\ backup' = IF skill[h] \in {"modified", "cut"} THEN [backup EXCEPT ![h] = skill[h]] ELSE backup
  /\ Goto(p, IF skill[h] \in {"absent", "unmarked"} THEN "pending" ELSE "remove")
  /\ UNCHANGED <<path, shared, codex, state, hooks, rules, skill, pending, archive, ghosts, bounds>>

RemoveSkill(p) ==
  /\ At(p, "remove")
  /\ skill' = [skill EXCEPT ![proc[p].host] = "absent"]
  /\ Goto(p, "pending")
  /\ UNCHANGED <<path, shared, codex, state, hooks, rules, backup, pending, archive, ghosts, bounds>>

(* What waits for review is copied to a new folder before it goes. *)
ArchivePending(p) ==
  LET h == proc[p].host IN
  /\ At(p, "pending")
  /\ archive' = [archive EXCEPT ![h] = @ \cup pending[h]]
  /\ pending' = [pending EXCEPT ![h] = {}]
  /\ Goto(p, "support")
  /\ UNCHANGED <<path, shared, codex, state, hooks, rules, skill, backup, ghosts, bounds>>

(* The record of the install and of the hook path, then the runtime go with   *)
(* the last host that has an install-state.                                   *)
RemoveSupport(p) ==
  LET last == Others(proc[p].host) = {} IN
  /\ \/ /\ At(p, "support") /\ Goto(p, "runtime")
        /\ source' = IF last THEN None ELSE source
        /\ record' = IF last THEN None ELSE record
        /\ torn' = torn \cup {w \in {"path"} : last /\ record # None /\ path = record.after}
        /\ UNCHANGED <<runtime, sidecar>>
     \/ /\ At(p, "runtime") /\ Goto(p, "sidecars")
        /\ runtime' = (runtime /\ ~last)
        /\ UNCHANGED <<source, record, sidecar, torn>>
     \/ /\ At(p, "sidecars") /\ Goto(p, "manifest")
        /\ sidecar' = IF proc[p].host = Codex THEN [k \in Kind |-> None] ELSE sidecar
        /\ UNCHANGED <<source, record, runtime, torn>>
  /\ UNCHANGED <<path, setting, theirs, state, files, users, mine, cut, bounds>>

RemoveState(p) ==
  /\ At(p, "manifest")
  /\ state' = [state EXCEPT ![proc[p].host] = None]
  /\ End(p)
  /\ UNCHANGED <<path, shared, codex, files, ghosts, bounds>>

-----------------------------------------------------------------------------
(* The command is killed or fails. Inside the removal of a folder it leaves a  *)
(* part of it, with its marker or without.                                     *)
Die(p) ==
  LET h == proc[p].host IN
  /\ ~At(p, "idle") /\ deaths < MaxDeaths /\ deaths' = deaths + 1
  /\ IF At(p, "remove") THEN \E left \in {skill[h], "cut", "unmarked"} :
                               skill' = [skill EXCEPT ![h] = left] /\ cut' = (cut \/ left # skill[h])
     ELSE UNCHANGED <<skill, cut>>
  /\ torn' = torn \cup {w \in {"path"} : At(p, "record")}
                  \cup {w \in {"settings"} : h = Codex /\ proc[p].pc \in
                           {"flagged", "trust", "trusted", "hooks", "state"}}
  /\ End(p)
  /\ UNCHANGED <<path, shared, codex, state, hooks, rules, backup, pending, archive, users, mine,
                 commands, edits>>

Edit == edits < MaxEdits /\ edits' = edits + 1 /\ UNCHANGED <<shared, sidecar, state, hooks,
          backup, pending, archive, lock, proc, torn, cut, commands, deaths>>
EditPath(v) ==
  /\ Edit /\ path' = v /\ users' = users \cup {v}
  /\ UNCHANGED <<setting, theirs, rules, skill, mine>>
EditSetting(v) ==
  /\ Edit /\ setting' = [setting EXCEPT !["flag"] = v] /\ theirs' = [theirs EXCEPT !["flag"] = None]
  /\ UNCHANGED <<path, rules, skill, users, mine>>
EditFiles(h) ==
  /\ Edit
  /\ \/ /\ skill[h] \in {"clean", "modified"} /\ (\A p \in Proc : lock = p => proc[p].host # h)
        /\ skill' = [skill EXCEPT ![h] = "modified"] /\ mine' = mine \cup {<<h, "skill">>}
        /\ UNCHANGED rules
     \/ /\ rules[h] # "marked" /\ mine' = mine \cup {<<h, "text">>}
        /\ rules' = [rules EXCEPT ![h] = IF @ \in {"ours", "both"} THEN "both" ELSE "user"]
        /\ UNCHANGED skill
     \/ /\ rules[h] = "both" /\ rules' = [rules EXCEPT ![h] = "marked"]
        /\ mine' = mine \ {<<h, "text">>} /\ UNCHANGED skill
  /\ UNCHANGED <<path, setting, theirs, users>>
UserStep == \/ \E v \in UserPath \cup {Unset} : EditPath(v)
            \/ \E v \in {"missing", "off", "on"} : EditSetting(v)
            \/ \E h \in Host : EditFiles(h)

InstallStep(p) ==
  \/ \E h \in Host, w \in Checkout : BeginInstall(p, h, w)
  \/ CheckSource(p) \/ WritePath(p) \/ WritePathRecord(p) \/ Acquire(p) \/ Recheck(p)
  \/ PlaceTargets(p) \/ \E k \in Kind : SwitchOn(p, k) \/ RecordSetting(p, k)
  \/ RegisterHooks(p) \/ WriteState(p) \/ Repair(p)
RemovalStep(p) ==
  \/ \E h \in Host, does \in {"repair", "selected", "unhook"} : BeginOther(p, h, does)
  \/ RemoveSelected(p) \/ RemoveHooks(p) \/ RestorePath(p) \/ RestoreSettings(p) \/ BackUp(p)
  \/ RemoveSkill(p) \/ ArchivePending(p) \/ RemoveSupport(p) \/ RemoveState(p)
CommandStep(p) == InstallStep(p) \/ RemovalStep(p) \/ Die(p)

Next == UserStep \/ \E p \in Proc : CommandStep(p)
Spec == Init /\ [][Next]_vars

-----------------------------------------------------------------------------
Does(p, from, to) == At(p, from) /\ proc'[p].pc = to

(* A removal never takes the runtime away from another host: a host with hooks *)
(* and an install-state finds it (_runtime_core_item).                         *)
HooksServed == \A h \in hooks : state[h] # None => runtime

(* The hook path only ever goes back to a value of the user's, and never to a  *)
(* checkout of ours that a second install, a moved install source or a stopped *)
(* install found in place (setup_git_hooks, _source_repo_hook_items).          *)
PathGoesBack ==
  [][\A p \in Proc : Does(p, "path", "settings") /\ path' # path => path' \in users \/ "path" \in torn]_vars

TrustRecorded == {state[h].trust.of : h \in {g \in Host : state[g] # None /\ state[g].trust # None}}

(* The removal of Codex leaves none of the settings an install switched on and *)
(* the user has not touched since, and gives each its value back. A checkout   *)
(* that is no longer the install source keeps its trust.                       *)
SettingsGoBack ==
  [][\A p \in Proc :
       /\ Does(p, "settings", "skill") => \A s \in Setting :
            setting'[s] # setting[s] => "settings" \in torn \/ theirs[s] \in {setting'[s], None}
       /\ At(p, "manifest") /\ state'[Codex] # state[Codex] => \A s \in Setting :
            theirs[s] = None \/ "settings" \in torn \/ (s = "flag" /\ UserHooks) \/ s \in Checkout \ TrustRecorded]_vars

(* A version of a skill that the user made is somewhere as he left it, and so  *)
(* is his text in a rule file, whatever commands stop or follow one another.   *)
(* Two exceptions: a removal that died inside the folder, whose rerun copies   *)
(* the part over the whole, and a file he left to begin with our marker.       *)
UserWorkKept ==
  /\ \A h \in Host : <<h, "skill">> \in mine =>
       cut \/ "modified" \in {skill[h], backup[h]} \cup pending[h] \cup archive[h]
  /\ \A h \in Host : <<h, "text">> \in mine => rules[h] \in {"user", "both"}
=============================================================================
