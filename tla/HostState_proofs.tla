-------------------------- MODULE HostState_proofs --------------------------
(* The state the hosts share, for any number of hosts, checkouts, commands,   *)
(* edits and deaths: a removal never takes the runtime from another host, the *)
(* user's work stays, and the hook path and Codex's settings go back to what  *)
(* the user had.                                                              *)
EXTENDS HostState, TLAPS

(* Places that only the holder of the lock is at. *)
Locked == {"recheck", "place", "flag", "flagged", "trust", "trusted", "hooks", "state",
           "repair", "selected", "unhook", "path", "settings", "skill", "remove", "pending",
           "support", "runtime", "sidecars", "manifest"}
(* An install that has placed, and a removal that has unregistered the hooks. *)
Placed == {"flag", "flagged", "trust", "trusted", "hooks", "state"}
Unhooked == {"path", "settings", "skill", "remove", "pending", "support", "runtime",
             "sidecars", "manifest"}

Fields == {"pc", "does", "host", "checkout", "change", "before"}
ProcFn == /\ DOMAIN proc = Proc /\ \A p \in Proc : Fields \subseteq DOMAIN proc[p]
          /\ lock \in Proc \cup {None}
HolderLocked == \A p \in Proc : proc[p].pc \in Locked => lock = p
Job == {"none", "place", "repair", "selected", "unhook"}
Jobs == \A p \in Proc : proc[p].does \in Job /\ (proc[p].pc # "idle" => proc[p].host \in Host)
StateFn == DOMAIN state = Host /\ hooks \subseteq Host
PlacedRuns == \A p \in Proc : proc[p].pc \in Placed => runtime
UnhookedIsOut == \A p \in Proc : proc[p].pc \in Unhooked => proc[p].host \notin hooks
ServedInv == /\ ProcFn /\ StateFn /\ Jobs /\ HolderLocked
             /\ PlacedRuns /\ UnhookedIsOut /\ HooksServed

LEMMA InitServed == Init => ServedInv
BY HostAssumption DEF Init, ServedInv, ProcFn, Fields, Job, StateFn, Jobs, HolderLocked, PlacedRuns, UnhookedIsOut,
       HooksServed, Idle, Locked, Placed, Unhooked

(* A step that moves one process and touches neither the runtime, the hooks nor *)
(* the install-states keeps the invariant if its new place claims nothing more. *)
Moved(p) ==
  /\ DOMAIN proc' = Proc /\ Fields \subseteq DOMAIN proc'[p]
  /\ \A q \in Proc \ {p} : proc'[q] = proc[q]
  /\ proc'[p].does \in Job /\ (proc'[p].pc # "idle" => proc'[p].host \in Host)
  /\ proc'[p].pc \in Locked => lock' = p
  /\ \/ lock' = lock
     \/ lock = None /\ lock' = p
     \/ lock = p /\ lock' = None /\ proc'[p].pc \notin Locked
Claims(p) ==
  /\ proc'[p].pc \in Placed => proc[p].pc \in Placed
  /\ proc'[p].pc \in Unhooked => proc[p].pc \in Unhooked /\ proc'[p].host = proc[p].host

LEMMA KeepsLock ==
  ASSUME ServedInv, NEW p \in Proc, Moved(p)
  PROVE  ProcFn' /\ Jobs' /\ HolderLocked'
BY HostAssumption DEF ServedInv, ProcFn, Jobs, HolderLocked, Moved

LEMMA KeepsServed ==
  ASSUME ServedInv, NEW p \in Proc, Moved(p), Claims(p), UNCHANGED <<runtime, hooks, state>>
  PROVE  ServedInv'
<1>1. StateFn' /\ HooksServed'
  BY DEF ServedInv, StateFn, HooksServed
<1>2. PlacedRuns' /\ UnhookedIsOut'
  BY DEF ServedInv, PlacedRuns, UnhookedIsOut, Moved, Claims
<1>3. QED BY <1>1, <1>2, KeepsLock DEF ServedInv

LEMMA Ended ==
  ASSUME ServedInv, NEW p \in Proc, End(p)
  PROVE  Moved(p) /\ Claims(p) /\ proc'[p].pc = "idle"
BY DEF ServedInv, ProcFn, HolderLocked, End, Moved, Claims, Idle, Fields, Job, Locked, Placed, Unhooked

(* Going from one place to the next, under the lock or before it. *)
LEMMA Went ==
  ASSUME ServedInv, NEW p \in Proc, NEW place, proc[p].pc # "idle", Goto(p, place),
         place \in Locked => proc[p].pc \in Locked
  PROVE  Moved(p) /\ proc'[p].pc = place /\ proc'[p].host = proc[p].host
BY DEF ServedInv, ProcFn, HolderLocked, Jobs, Goto, Moved, Fields

(* Whoever is at a place under the lock is there alone. *)
LEMMA Alone ==
  ASSUME ServedInv, NEW p \in Proc, proc[p].pc \in Locked, NEW q \in Proc,
         proc[q].pc \in Locked
  PROVE  q = p
BY DEF ServedInv, HolderLocked

LEMMA BeforeTheLock ==
  ASSUME ServedInv, NEW p \in Proc,
         \/ \E h \in Host, w \in Checkout : BeginInstall(p, h, w)
         \/ \E h \in Host, does \in {"repair", "selected", "unhook"} : BeginOther(p, h, does)
         \/ CheckSource(p) \/ WritePath(p) \/ WritePathRecord(p)
  PROVE  ServedInv'
<1> DEFINE Starts(h, place, does) ==
             /\ DOMAIN proc' = Proc /\ DOMAIN proc'[p] = DOMAIN Idle
             /\ \A q \in Proc \ {p} : proc'[q] = proc[q]
             /\ proc'[p].pc = place /\ proc'[p].does = does /\ proc'[p].host = h
             /\ UNCHANGED lock
<1>0. ASSUME NEW h \in Host, NEW place \in {"check", "lock"}, NEW does \in Job, Starts(h, place, does),
             UNCHANGED <<runtime, hooks, state>>
      PROVE  ServedInv'
  <2>1. Fields \subseteq DOMAIN Idle
    BY DEF Fields, Idle
  <2>2. Moved(p) /\ Claims(p)
    BY <1>0, <2>1 DEF Moved, Claims, Locked, Placed, Unhooked
  <2>3. QED BY <1>0, <2>2, KeepsServed
<1>1. ASSUME NEW h \in Host, NEW w \in Checkout, BeginInstall(p, h, w) PROVE ServedInv'
  <2>1. Starts(h, "check", "place")
    BY <1>1 DEF BeginInstall, Start, At, Idle, ServedInv, ProcFn
  <2>2. UNCHANGED <<runtime, hooks, state>>
    BY <1>1 DEF BeginInstall, Start, shared, files
  <2> HIDE DEF Starts
  <2>3. QED BY <1>0, <2>1, <2>2 DEF Job
<1>2. ASSUME NEW h \in Host, NEW does \in {"repair", "selected", "unhook"}, BeginOther(p, h, does)
      PROVE ServedInv'
  <2>1. Starts(h, "lock", does)
    BY <1>2 DEF BeginOther, Start, At, Idle, ServedInv, ProcFn
  <2>2. UNCHANGED <<runtime, hooks, state>>
    BY <1>2 DEF BeginOther, Start, shared, files
  <2> HIDE DEF Starts
  <2>3. QED BY <1>0, <2>1, <2>2 DEF Job
<1> USE DEF ServedInv, ProcFn, Jobs, Fields, Job, Locked, Placed, Unhooked, Moved, Claims
<1>3. CASE CheckSource(p)
  <2>1. CASE End(p)
    BY <1>3, <2>1, Ended, KeepsServed DEF CheckSource, shared, files
  <2>2. CASE ~End(p)
    <3>1. Moved(p) /\ Claims(p)
      BY <1>3, <2>2 DEF CheckSource, At
    <3>2. QED BY <1>3, <3>1, KeepsServed DEF CheckSource, shared, files
  <2>3. QED BY <2>1, <2>2
<1>4. CASE WritePath(p)
  <2>1. PICK c \in Found(proc[p].checkout) :
          proc' = [proc EXCEPT ![p].pc = IF c = Unrecorded THEN "lock" ELSE "record",
                               ![p].change = c]
    BY <1>4 DEF WritePath
  <2>4. /\ proc'[p].pc \in {"lock", "record"} /\ proc'[p].does = proc[p].does
        /\ proc'[p].host = proc[p].host /\ DOMAIN proc'[p] = DOMAIN proc[p] /\ proc[p].pc = "git"
        /\ DOMAIN proc' = Proc /\ \A q \in Proc \ {p} : proc'[q] = proc[q]
    BY <1>4, <2>1 DEF WritePath, At
  <2>5. UNCHANGED lock
    BY <1>4 DEF WritePath
  <2>2. Moved(p) /\ Claims(p)
    BY <2>4, <2>5
  <2>3. QED BY <1>4, <2>2, KeepsServed DEF WritePath, shared, files
<1>5. CASE WritePathRecord(p)
  <2>1. Moved(p) /\ Claims(p)
    BY <1>5, Went DEF WritePathRecord, At
  <2>2. QED BY <1>5, <2>1, KeepsServed DEF WritePathRecord, files
<1>6. QED BY <1>1, <1>2, <1>3, <1>4, <1>5

LEMMA AtTheLock ==
  ASSUME ServedInv, NEW p \in Proc, Acquire(p) \/ Recheck(p)
  PROVE  ServedInv'
<1>1. CASE End(p)
  BY <1>1, Ended, KeepsServed DEF Acquire, Recheck, shared, files
<1>2. CASE Acquire(p) /\ ~End(p)
  <2>1. Moved(p) /\ Claims(p)
    BY <1>2 DEF ServedInv, ProcFn, Jobs, Fields, Job, Locked, Placed, Unhooked, Moved, Claims, Acquire, At
  <2>2. QED BY <1>2, <2>1, KeepsServed DEF Acquire, shared, files
<1>3. CASE Recheck(p) /\ ~End(p)
  <2>1. Moved(p) /\ Claims(p)
    BY <1>3, Went DEF Recheck, At, Locked, Placed, Unhooked, Claims
  <2>2. QED BY <1>3, <2>1, KeepsServed DEF Recheck, shared, files
<1>4. QED BY <1>1, <1>2, <1>3

LEMMA InstallServes ==
  ASSUME ServedInv, NEW p \in Proc,
         \/ PlaceTargets(p) \/ RegisterHooks(p) \/ WriteState(p) \/ Repair(p)
         \/ \E k \in Kind : SwitchOn(p, k) \/ RecordSetting(p, k)
  PROVE  ServedInv'
<1>1. CASE PlaceTargets(p)
  <2>1. Moved(p) /\ proc'[p].pc \in Placed /\ proc'[p].pc \notin Unhooked
    BY <1>1, Went DEF PlaceTargets, At, Locked, Placed, Unhooked
  <2>2. runtime' /\ hooks' = hooks /\ state' = state
    BY <1>1 DEF PlaceTargets
  <2>3. StateFn' /\ PlacedRuns' /\ HooksServed'
    BY <2>2 DEF ServedInv, StateFn, PlacedRuns, HooksServed
  <2>4. UnhookedIsOut'
    BY <2>1, <2>2 DEF ServedInv, UnhookedIsOut, Moved
  <2>5. QED BY <2>1, <2>3, <2>4, KeepsLock DEF ServedInv
<1>2. CASE \E k \in Kind : SwitchOn(p, k) \/ RecordSetting(p, k)
  <2>1. Moved(p) /\ Claims(p)
    BY <1>2 DEF ServedInv, ProcFn, Jobs, HolderLocked, Fields, Job, Locked, Placed, Unhooked,
                Moved, Claims, SwitchOn, RecordSetting, At, Kind
  <2>2. QED BY <1>2, <2>1, KeepsServed DEF SwitchOn, RecordSetting, shared, files
<1>3. CASE RegisterHooks(p)
  <2>1. Moved(p) /\ proc'[p].pc = "state" /\ proc[p].host \in Host
    BY <1>3, Went DEF RegisterHooks, At, Locked, ServedInv, Jobs
  <2>2. runtime /\ runtime' = runtime /\ state' = state /\ hooks' = hooks \cup {proc[p].host}
    BY <1>3 DEF RegisterHooks, At, ServedInv, PlacedRuns, Placed, shared
  <2>3. StateFn' /\ PlacedRuns' /\ HooksServed'
    BY <2>1, <2>2 DEF ServedInv, StateFn, PlacedRuns, HooksServed
  <2>4. ASSUME NEW q \in Proc, q # p PROVE proc'[q].pc \notin Unhooked
    BY <1>3, <2>1, <2>4, Alone DEF RegisterHooks, At, Moved, Locked, Unhooked
  <2>5. UnhookedIsOut'
    BY <2>1, <2>4 DEF UnhookedIsOut, Unhooked
  <2>6. QED BY <2>1, <2>3, <2>5, KeepsLock DEF ServedInv
<1>4. CASE WriteState(p)
  <2>1. Moved(p) /\ Claims(p)
    BY <1>4, Ended DEF WriteState
  <2>2. runtime /\ runtime' = runtime /\ hooks' = hooks /\ DOMAIN state' = DOMAIN state
    BY <1>4 DEF WriteState, At, ServedInv, PlacedRuns, Placed, shared, files
  <2>3. StateFn' /\ PlacedRuns' /\ HooksServed'
    BY <2>1, <2>2 DEF ServedInv, StateFn, PlacedRuns, HooksServed
  <2>4. UnhookedIsOut'
    BY <2>1, <2>2 DEF ServedInv, UnhookedIsOut, Moved, Claims
  <2>5. QED BY <2>1, <2>3, <2>4, KeepsLock DEF ServedInv
<1>5. CASE Repair(p)
  BY <1>5, Ended, KeepsServed DEF Repair, shared
<1>6. QED BY <1>1, <1>2, <1>3, <1>4, <1>5

LEMMA RemovalServes ==
  ASSUME ServedInv, NEW p \in Proc,
         \/ RemoveSelected(p) \/ RemoveHooks(p) \/ RestorePath(p) \/ RestoreSettings(p)
         \/ BackUp(p) \/ RemoveSkill(p) \/ ArchivePending(p) \/ RemoveSupport(p) \/ RemoveState(p)
  PROVE  ServedInv'
<1>1. CASE RemoveSelected(p) \/ RemoveHooks(p)
  <2>1. Moved(p) /\ proc'[p].pc \notin Placed
        /\ (proc'[p].pc \in Unhooked => proc'[p].host = proc[p].host)
    <3>1. CASE RemoveSelected(p)
      BY <3>1, Ended DEF RemoveSelected, Placed, Unhooked
    <3>2. CASE RemoveHooks(p)
      <4>1. PICK place \in {"pending", "path"} : proc[p].pc = "unhook" /\ Goto(p, place)
        BY <3>2 DEF RemoveHooks, At
      <4>2. Moved(p) /\ proc'[p].pc = place /\ proc'[p].host = proc[p].host
        BY <4>1, Went DEF Locked
      <4>3. QED BY <4>2 DEF Placed
    <3>3. QED BY <1>1, <3>1, <3>2
  <2>2. runtime' = runtime /\ state' = state /\ hooks' = hooks \ {proc[p].host}
    BY <1>1 DEF RemoveSelected, RemoveHooks, shared
  <2>3. StateFn' /\ HooksServed'
    BY <2>2 DEF ServedInv, StateFn, HooksServed
  <2>4. PlacedRuns' /\ UnhookedIsOut'
    BY <2>1, <2>2 DEF ServedInv, PlacedRuns, UnhookedIsOut, Moved
  <2>5. QED BY <2>1, <2>3, <2>4, KeepsLock DEF ServedInv
<1>2. CASE RestorePath(p) \/ RestoreSettings(p) \/ BackUp(p) \/ RemoveSkill(p) \/ ArchivePending(p)
  <2>1. PICK place \in {"settings", "skill", "remove", "pending", "support"} :
          proc[p].pc \in Unhooked /\ Goto(p, place)
    <3>1. CASE RestorePath(p)
      BY <1>2, <3>1 DEF RestorePath, At, Unhooked
    <3>2. CASE RestoreSettings(p)
      BY <1>2, <3>2 DEF RestoreSettings, At, Unhooked
    <3>3. CASE BackUp(p)
      BY <1>2, <3>3 DEF BackUp, At, Unhooked
    <3>4. CASE RemoveSkill(p) \/ ArchivePending(p)
      BY <1>2, <3>4 DEF RemoveSkill, ArchivePending, At, Unhooked
    <3>5. QED BY <1>2, <3>1, <3>2, <3>3, <3>4
  <2>2. Moved(p) /\ proc'[p].pc = place /\ proc'[p].host = proc[p].host
    BY <2>1, Went DEF Locked, Unhooked
  <2>3. Claims(p)
    BY <2>1, <2>2 DEF Claims, Placed
  <2>4. UNCHANGED <<runtime, hooks, state>>
    BY <1>2 DEF RestorePath, RestoreSettings, BackUp, RemoveSkill, ArchivePending, shared, files
  <2>5. QED BY <2>2, <2>3, <2>4, KeepsServed
<1>3. CASE RemoveSupport(p)
  <2>1. /\ Moved(p) /\ Claims(p) /\ proc[p].pc \in {"support", "runtime", "sidecars"}
        /\ proc'[p].pc \notin Placed
    BY <1>3, Went DEF RemoveSupport, At, Locked, Placed, Unhooked, Claims
  <2>2. hooks' = hooks /\ state' = state
    BY <1>3 DEF RemoveSupport, files
  <2>8. runtime /\ Others(proc[p].host) # {} => runtime'
    BY <1>3 DEF RemoveSupport
  <2>3. proc[p].host \notin hooks
    BY <2>1 DEF ServedInv, UnhookedIsOut, Unhooked
  <2>4. StateFn' /\ HooksServed'
    BY <2>2, <2>8, <2>3 DEF ServedInv, StateFn, HooksServed, Others
  <2>5. ASSUME NEW q \in Proc, q # p PROVE proc'[q].pc \notin Placed
    BY <2>1, <2>5, Alone DEF Moved, Locked, Placed
  <2>6. PlacedRuns' /\ UnhookedIsOut'
    BY <2>1, <2>2, <2>5 DEF ServedInv, PlacedRuns, UnhookedIsOut, Moved, Claims
  <2>7. QED BY <2>1, <2>4, <2>6, KeepsLock DEF ServedInv
<1>4. CASE RemoveState(p)
  <2>1. Moved(p) /\ Claims(p)
    BY <1>4, Ended DEF RemoveState
  <2>2. /\ runtime' = runtime /\ hooks' = hooks /\ proc[p].host \notin hooks
        /\ state' = [state EXCEPT ![proc[p].host] = None]
    BY <1>4 DEF RemoveState, At, ServedInv, UnhookedIsOut, Unhooked, shared, files
  <2>3. StateFn' /\ HooksServed'
    BY <2>2 DEF ServedInv, StateFn, HooksServed
  <2>4. PlacedRuns' /\ UnhookedIsOut'
    BY <2>1, <2>2 DEF ServedInv, PlacedRuns, UnhookedIsOut, Moved, Claims
  <2>5. QED BY <2>1, <2>3, <2>4, KeepsLock DEF ServedInv
<1>5. QED BY <1>1, <1>2, <1>3, <1>4

LEMMA StepServed == ServedInv /\ [Next]_vars => ServedInv'
<1> SUFFICES ASSUME ServedInv, [Next]_vars PROVE ServedInv'
  OBVIOUS
<1>1. CASE UNCHANGED vars
  BY <1>1 DEF vars, shared, files, ServedInv, ProcFn, StateFn, Jobs, HolderLocked, PlacedRuns,
              UnhookedIsOut, HooksServed
<1>2. CASE UserStep
  <2>1. UNCHANGED <<runtime, hooks, state, lock, proc>>
    BY <1>2 DEF UserStep, EditPath, EditSetting, EditFiles, Edit, shared
  <2>2. QED BY <2>1 DEF ServedInv, ProcFn, StateFn, Jobs, HolderLocked, PlacedRuns,
                        UnhookedIsOut, HooksServed
<1>3. ASSUME NEW p \in Proc, CommandStep(p) PROVE ServedInv'
  <2>1. CASE Die(p)
    BY <2>1, Ended, KeepsServed DEF Die, shared
  <2>2. CASE InstallStep(p)
    BY <2>2, BeforeTheLock, AtTheLock, InstallServes DEF InstallStep
  <2>3. CASE RemovalStep(p)
    BY <2>3, BeforeTheLock, RemovalServes DEF RemovalStep
  <2>4. QED BY <1>3, <2>1, <2>2, <2>3 DEF CommandStep
<1>4. QED BY <1>1, <1>2, <1>3 DEF Next

(* A removal never takes the runtime away from another host's hooks            *)
(* (_runtime_core_item, _other_platform_install_states).                       *)
THEOREM RuntimeKept == Spec => []HooksServed
<1>1. ServedInv => HooksServed
  BY DEF ServedInv
<1>2. QED BY InitServed, StepServed, <1>1, PTL DEF Spec

-----------------------------------------------------------------------------
(* The types of the state and of what a command carries. *)

Installs == {"check", "git", "record", "recheck", "place"} \cup Placed
Typed(p) ==
  /\ proc[p].change \in Change \cup {Unrecorded} /\ proc[p].before \in {"missing", "off"}
  /\ proc[p].pc \in Installs => proc[p].does = "place"
  /\ proc[p].pc = "lock" => proc[p].does # "none"
  /\ proc[p].pc = "record" => proc[p].change \in Change
  /\ proc[p].does = "place" => proc[p].checkout \in Checkout
HostTypes ==
  /\ TypeOK
  /\ theirs \in [Setting -> {"missing", "off", None}]
  /\ \A p \in Proc : Typed(p)
  /\ \A p \in Proc : proc[p].pc \in {"path", "settings", "skill", "remove"} => state[proc[p].host] # None

(* The user's work. A removal copies a skill before it removes it, and the     *)
(* user's edits of that host's skill wait until the command is over.           *)
WorkInv ==
  /\ ~cut => \A h \in Host : skill[h] \in {"absent", "clean", "modified"}
  /\ ~cut => \A p \in Proc : At(p, "remove") /\ skill[proc[p].host] = "modified" => backup[proc[p].host] = "modified"
  /\ UserWorkKept

(* The hook path. What stood before a change, wherever it is recorded, is a    *)
(* value of the user's, and a path that is not his is in the record or on its  *)
(* way there.                                                                  *)
Known(c) == c.after # None => c.before \in users
PathKnown ==
  /\ record # None => record.before \in users
  /\ \A h \in Host : state[h] # None => Known(state[h].path)
  /\ \A p \in Proc : Known(proc[p].change)
  /\ \/ path \in users
     \/ record # None /\ record.after = path
     \/ \E p \in Proc : At(p, "record")
  /\ \A p \in Proc : At(p, "record") => path \in users \/ proc[p].change.after = path
PathInv == "path" \in torn \/ PathKnown

(* Codex's settings. Which setting a record is about; only Codex has some.     *)
Switching == {"flagged", "trust", "trusted", "hooks", "state"}
Restored == {"skill", "remove", "pending", "support", "runtime", "sidecars", "manifest"}
AboutFlag(b) == b # None => b.of = "flag"
AboutTrust(b) == b # None => b.of \in Checkout /\ b.before = "missing"
RecordsInv ==
  /\ \A w \in Checkout : setting[w] \in {"missing", "on"} /\ theirs[w] \in {"missing", None}
  /\ AboutFlag(sidecar["flag"]) /\ AboutTrust(sidecar["trust"])
  /\ \A h \in Host : state[h] # None =>
       /\ AboutFlag(state[h].flag) /\ AboutTrust(state[h].trust)
       /\ h # Codex => state[h].flag = None /\ state[h].trust = None
  /\ \A p \in Proc : /\ proc[p].pc \in {"flag", "flagged", "trust", "trusted"} => proc[p].host = Codex
                     /\ At(p, "trusted") => proc[p].before = "missing"

(* The record of the flag's change holds the value that was replaced, in the   *)
(* sidecar after it is written and in the install-state at the install's end.  *)
Agrees(b) == b # None /\ theirs["flag"] # None => b.before = theirs["flag"]
InSidecar == \E p \in Proc : At(p, "flagged")
InState == \E p \in Proc : proc[p].pc \in Switching /\ proc[p].host = Codex
FlagInv ==
  /\ \A p \in Proc : At(p, "flagged") /\ theirs["flag"] # None => proc[p].before = theirs["flag"]
  /\ InSidecar \/ (Agrees(sidecar["flag"]) /\ (UserHooks \/ (theirs["flag"] # None => sidecar["flag"] # None)))
  /\ InState \/ /\ state[Codex] # None => Agrees(state[Codex].flag)
                /\ UserHooks \/ (theirs["flag"] # None => state[Codex] # None /\ state[Codex].flag # None)
(* After its settings are given back a removal of Codex leaves none.           *)
BackInv ==
  \A p \in Proc : proc[p].pc \in Restored /\ proc[p].host = Codex /\ state[Codex] # None =>
    /\ UserHooks \/ theirs["flag"] = None
    /\ state[Codex].trust # None => theirs[state[Codex].trust.of] = None
SettingInv == RecordsInv /\ ("settings" \in torn \/ (FlagInv /\ BackInv))


(* How a step moves the process that takes it. *)
Same(p) == \A q \in Proc \ {p} : proc'[q] = proc[q]
Keeps(p) ==
  /\ proc'[p].does = proc[p].does /\ proc'[p].host = proc[p].host
  /\ proc'[p].checkout = proc[p].checkout
  /\ proc'[p].change = proc[p].change /\ proc'[p].before = proc[p].before
Goes(p, places) == proc'[p].pc \in places /\ Keeps(p)

LEMMA GotoMoves ==
  ASSUME ServedInv, NEW p \in Proc, NEW place, Goto(p, place)
  PROVE  Same(p) /\ Keeps(p) /\ proc'[p].pc = place
BY DEF ServedInv, ProcFn, Fields, Goto, Same, Keeps

LEMMA EndMoves ==
  ASSUME ServedInv, NEW p \in Proc, End(p)
  PROVE  Same(p) /\ proc'[p] = Idle
BY DEF ServedInv, ProcFn, End, Same

LEMMA StartMoves ==
  ASSUME ServedInv, NEW p \in Proc, NEW job, Start(p, job)
  PROVE  Same(p) /\ proc'[p] = job /\ proc[p].pc = "idle"
BY DEF ServedInv, ProcFn, Start, Same, At

(* What each command step does to the process. *)
Begun(p) ==
  \/ /\ proc'[p].pc = "check" /\ proc'[p].does = "place" /\ proc'[p].checkout \in Checkout
     /\ proc'[p].change = Unrecorded /\ proc'[p].before = "missing"
  \/ /\ proc'[p].pc = "lock" /\ proc'[p].does \in {"repair", "selected", "unhook"}
     /\ proc'[p].change = Unrecorded /\ proc'[p].before = "missing"

LEMMA BeginMoves ==
  ASSUME ServedInv, NEW p \in Proc,
         \/ \E h \in Host, w \in Checkout : BeginInstall(p, h, w)
         \/ \E h \in Host, does \in {"repair", "selected", "unhook"} : BeginOther(p, h, does)
  PROVE  Same(p) /\ Begun(p) /\ proc[p].pc = "idle"
<1>1. ASSUME NEW h \in Host, NEW w \in Checkout, BeginInstall(p, h, w) PROVE Same(p) /\ Begun(p) /\ proc[p].pc = "idle"
  <2>1. Start(p, [Idle EXCEPT !.pc = "check", !.does = "place", !.host = h, !.checkout = w])
    BY <1>1 DEF BeginInstall
  <2>2. Same(p) /\ proc[p].pc = "idle" /\ proc'[p] = [Idle EXCEPT !.pc = "check", !.does = "place", !.host = h, !.checkout = w]
    BY <2>1, StartMoves
  <2>3. Begun(p)
    BY <2>2 DEF Begun, Idle
  <2>4. QED BY <2>2, <2>3
<1>2. ASSUME NEW h \in Host, NEW does \in {"repair", "selected", "unhook"}, BeginOther(p, h, does)
      PROVE Same(p) /\ Begun(p) /\ proc[p].pc = "idle"
  <2>1. Start(p, [Idle EXCEPT !.pc = "lock", !.does = does, !.host = h, !.checkout = source])
    BY <1>2 DEF BeginOther
  <2>2. Same(p) /\ proc[p].pc = "idle" /\ proc'[p] = [Idle EXCEPT !.pc = "lock", !.does = does, !.host = h, !.checkout = source]
    BY <2>1, StartMoves
  <2>3. Begun(p)
    BY <2>2 DEF Begun, Idle
  <2>4. QED BY <2>2, <2>3
<1>3. QED BY <1>1, <1>2

LEMMA CheckMoves ==
  ASSUME ServedInv, NEW p \in Proc, CheckSource(p) \/ Acquire(p) \/ Recheck(p)
  PROVE  /\ Same(p)
         /\ \/ proc'[p] = Idle
            \/ proc[p].pc = "check" /\ Goes(p, {"git"})
            \/ proc[p].pc = "lock" /\ Goes(p, {IF proc[p].does = "place" THEN "recheck" ELSE proc[p].does})
            \/ proc[p].pc = "recheck" /\ Goes(p, {"place"})
<1>1. CASE End(p)
  BY <1>1, EndMoves
<1>2. CASE CheckSource(p) /\ ~End(p)
  BY <1>2 DEF CheckSource, At, Same, Goes, Keeps, ServedInv, ProcFn, Fields
<1>3. CASE Acquire(p) /\ ~End(p)
  BY <1>3 DEF Acquire, At, Same, Goes, Keeps, ServedInv, ProcFn, Fields
<1>4. CASE Recheck(p) /\ ~End(p)
  BY <1>4, GotoMoves DEF Recheck, At, Goes
<1>5. QED BY <1>1, <1>2, <1>3, <1>4

LEMMA WriteMoves ==
  ASSUME ServedInv, NEW p \in Proc, WritePath(p)
  PROVE  /\ Same(p) /\ proc[p].pc = "git"
         /\ proc'[p].does = proc[p].does /\ proc'[p].host = proc[p].host
         /\ proc'[p].checkout = proc[p].checkout /\ proc'[p].before = proc[p].before
         /\ proc'[p].change \in Found(proc[p].checkout)
         /\ proc'[p].pc = IF proc'[p].change = Unrecorded THEN "lock" ELSE "record"
<1>1. PICK c \in Found(proc[p].checkout) :
        proc' = [proc EXCEPT ![p].pc = IF c = Unrecorded THEN "lock" ELSE "record", ![p].change = c]
  BY DEF WritePath
<1>2. proc[p].pc = "git"
  BY DEF WritePath, At
<1>3. QED BY <1>1, <1>2 DEF Same, ServedInv, ProcFn, Fields

LEMMA SwitchMoves ==
  ASSUME ServedInv, NEW p \in Proc, NEW k \in Kind, SwitchOn(p, k) \/ RecordSetting(p, k)
  PROVE  /\ Same(p) /\ proc'[p].does = proc[p].does /\ proc'[p].host = proc[p].host
         /\ proc'[p].checkout = proc[p].checkout /\ proc'[p].change = proc[p].change
         /\ \/ /\ SwitchOn(p, k) /\ proc[p].pc = k /\ setting[SettingOf(p, k)] # "on"
               /\ proc'[p].pc = (IF k = "flag" THEN "flagged" ELSE "trusted")
               /\ proc'[p].before = setting[SettingOf(p, k)]
            \/ /\ SwitchOn(p, k) /\ proc[p].pc = k /\ setting[SettingOf(p, k)] = "on"
               /\ proc'[p].pc = (IF k = "flag" THEN "trust" ELSE "hooks")
               /\ proc'[p].before = proc[p].before
            \/ /\ RecordSetting(p, k) /\ proc[p].pc = (IF k = "flag" THEN "flagged" ELSE "trusted")
               /\ proc'[p].pc = (IF k = "flag" THEN "trust" ELSE "hooks")
               /\ proc'[p].before = "missing"
<1>1. CASE SwitchOn(p, k)
  BY <1>1 DEF SwitchOn, At, Same, ServedInv, ProcFn, Fields
<1>2. CASE RecordSetting(p, k)
  BY <1>2 DEF RecordSetting, At, Same, ServedInv, ProcFn, Fields
<1>3. QED BY <1>1, <1>2

LEMMA GoMoves ==
  ASSUME ServedInv, NEW p \in Proc
  PROVE  /\ WritePathRecord(p) => Same(p) /\ proc[p].pc = "record" /\ Goes(p, {"lock"})
         /\ PlaceTargets(p) => Same(p) /\ proc[p].pc = "place"
                               /\ Goes(p, IF proc[p].host = Codex THEN {"flag"} ELSE {"hooks"})
         /\ RegisterHooks(p) => Same(p) /\ proc[p].pc = "hooks" /\ Goes(p, {"state"})
         /\ RemoveHooks(p) => Same(p) /\ proc[p].pc = "unhook"
                               /\ Goes(p, IF state[proc[p].host] = None THEN {"pending"} ELSE {"path"})
         /\ RestorePath(p) => Same(p) /\ proc[p].pc = "path" /\ Goes(p, {"settings"})
         /\ RestoreSettings(p) => Same(p) /\ proc[p].pc = "settings" /\ Goes(p, {"skill"})
         /\ BackUp(p) => Same(p) /\ proc[p].pc = "skill"
              /\ Goes(p, IF skill[proc[p].host] \in {"absent", "unmarked"} THEN {"pending"} ELSE {"remove"})
         /\ RemoveSkill(p) => Same(p) /\ proc[p].pc = "remove" /\ Goes(p, {"pending"})
         /\ ArchivePending(p) => Same(p) /\ proc[p].pc = "pending" /\ Goes(p, {"support"})
<1>1. WritePathRecord(p) => Same(p) /\ proc[p].pc = "record" /\ Goes(p, {"lock"})
  BY GotoMoves DEF WritePathRecord, At, Goes
<1>2. PlaceTargets(p) => Same(p) /\ proc[p].pc = "place" /\ Goes(p, IF proc[p].host = Codex THEN {"flag"} ELSE {"hooks"})
  BY GotoMoves DEF PlaceTargets, At, Goes
<1>3. RegisterHooks(p) => Same(p) /\ proc[p].pc = "hooks" /\ Goes(p, {"state"})
  BY GotoMoves DEF RegisterHooks, At, Goes
<1>4. RemoveHooks(p) => Same(p) /\ proc[p].pc = "unhook" /\ Goes(p, IF state[proc[p].host] = None THEN {"pending"} ELSE {"path"})
  BY GotoMoves DEF RemoveHooks, At, Goes
<1>5. RestorePath(p) => Same(p) /\ proc[p].pc = "path" /\ Goes(p, {"settings"})
  BY GotoMoves DEF RestorePath, At, Goes
<1>6. RestoreSettings(p) => Same(p) /\ proc[p].pc = "settings" /\ Goes(p, {"skill"})
  BY GotoMoves DEF RestoreSettings, At, Goes
<1>7. BackUp(p) => Same(p) /\ proc[p].pc = "skill"
        /\ Goes(p, IF skill[proc[p].host] \in {"absent", "unmarked"} THEN {"pending"} ELSE {"remove"})
  BY GotoMoves DEF BackUp, At, Goes
<1>8. RemoveSkill(p) => Same(p) /\ proc[p].pc = "remove" /\ Goes(p, {"pending"})
  BY GotoMoves DEF RemoveSkill, At, Goes
<1>9. ArchivePending(p) => Same(p) /\ proc[p].pc = "pending" /\ Goes(p, {"support"})
  BY GotoMoves DEF ArchivePending, At, Goes
<1>10. QED BY <1>1, <1>2, <1>3, <1>4, <1>5, <1>6, <1>7, <1>8, <1>9

Finishes(p) == WriteState(p) \/ Repair(p) \/ RemoveSelected(p) \/ RemoveState(p) \/ Die(p)

LEMMA FinishMoves ==
  ASSUME ServedInv, NEW p \in Proc, Finishes(p)
  PROVE  Same(p) /\ proc'[p] = Idle
BY EndMoves DEF Finishes, WriteState, Repair, RemoveSelected, RemoveState, Die

LEMMA SupportMoves ==
  ASSUME ServedInv, NEW p \in Proc, RemoveSupport(p)
  PROVE  /\ Same(p) /\ Keeps(p) /\ proc[p].pc \in {"support", "runtime", "sidecars"}
         /\ proc'[p].pc = CASE proc[p].pc = "support" -> "runtime" [] proc[p].pc = "runtime" -> "sidecars"
                            [] OTHER -> "manifest"
<1>1. CASE At(p, "support")
  BY <1>1, GotoMoves DEF RemoveSupport, At
<1>2. CASE At(p, "runtime")
  BY <1>2, GotoMoves DEF RemoveSupport, At
<1>3. CASE At(p, "sidecars")
  BY <1>3, GotoMoves DEF RemoveSupport, At
<1>4. QED BY <1>1, <1>2, <1>3 DEF RemoveSupport

LEMMA SupportRecord ==
  ASSUME NEW p \in Proc, RemoveSupport(p), record' # record \/ source' # source
  PROVE  /\ At(p, "support") /\ source' \in {source, None} /\ record' \in {record, None}
         /\ record # None /\ record.after = path /\ record' # record => "path" \in torn'
BY DEF RemoveSupport

LEMMA SupportSidecar ==
  ASSUME NEW p \in Proc, RemoveSupport(p), sidecar' # sidecar
  PROVE  At(p, "sidecars") /\ proc[p].host = Codex /\ sidecar' = [k \in Kind |-> None]
BY DEF RemoveSupport


LEMMA InitTypes == Init => HostTypes
<1> SUFFICES ASSUME Init PROVE HostTypes
  OBVIOUS
<1>1. TypeOK
  BY HostAssumption DEF Init, TypeOK, Idle, Place, Folder, RuleFile
<1>2. theirs \in [Setting -> {"missing", "off", None}]
  BY DEF Init
<1>3. \A p \in Proc : Typed(p)
  BY DEF Init, Typed, Idle, Installs, Placed
<1>4. QED BY <1>1, <1>2, <1>3 DEF HostTypes, Init, Idle

(* A record of the installation is a change of the path it is asked about.     *)
LEMMA RecordTypes ==
  ASSUME HostTypes, NEW v \in UserPath \cup Checkout \cup {Unset}
  PROVE  \A c \in RecordsOf(v) : /\ c \in Change /\ c.after = v
                                 /\ (record # None /\ c = record) \/ \E h \in Host : state[h] # None /\ c = state[h].path
<1> SUFFICES ASSUME NEW c \in RecordsOf(v)
             PROVE  /\ c \in Change /\ c.after = v
                    /\ (record # None /\ c = record) \/ \E h \in Host : state[h] # None /\ c = state[h].path
  OBVIOUS
<1>1. c # None /\ c.after = v /\ v # None
  BY HostAssumption DEF RecordsOf
<1>2. CASE c = record
  BY <1>1, <1>2 DEF HostTypes, TypeOK
<1>3. CASE \E h \in Host : state[h] # None /\ c = state[h].path
  <2>1. c \in Change \cup {Unrecorded}
    BY <1>3 DEF HostTypes, TypeOK, State
  <2>2. c # Unrecorded
    BY <1>1 DEF Unrecorded
  <2>3. QED BY <1>1, <1>3, <2>1, <2>2
<1>4. QED BY <1>2, <1>3 DEF RecordsOf

(* Where a checkout stood before an install, and how the install knows it.     *)
LEMMA FoundTypes ==
  ASSUME HostTypes, NEW w \in Checkout, NEW c \in Found(w)
  PROVE  \/ c = Unrecorded /\ path = w /\ (record # None => record.after # path)
         \/ /\ c \in Change /\ c.after = w
            /\ \/ c.before = path /\ path # w /\ (record # None => record.after # path)
               \/ record # None /\ c.before = record.before
               \/ \E h \in Host : state[h] # None /\ state[h].path \in Change /\ c.before = state[h].path.before
<1>0. path \in UserPath \cup Checkout \cup {Unset}
  BY DEF HostTypes, TypeOK
<1>1. \A r \in Recorded(path) : r \in RecordsOf(path)
  BY DEF Recorded
<1>2. Recorded(path) = {} => (record # None => record.after # path)
  BY DEF Recorded, RecordsOf
<1>3. CASE path = w
  <2>1. CASE Recorded(path) = {}
    BY <1>2, <1>3, <2>1 DEF Found
  <2>2. CASE Recorded(path) # {}
    <3>1. c \in RecordsOf(path)
      BY <1>1, <1>3, <2>2 DEF Found
    <3>2. QED BY <1>0, <1>3, <3>1, RecordTypes
  <2>3. QED BY <2>1, <2>2
<1>4. CASE path # w
  <2>1. CASE Recorded(path) = {}
    <3>1. c = [before |-> path, after |-> w]
      BY <1>4, <2>1 DEF Found
    <3>2. QED BY <1>0, <1>2, <1>4, <2>1, <3>1 DEF Change
  <2>2. CASE Recorded(path) # {}
    <3>1. PICK r \in Recorded(path) : c = [before |-> r.before, after |-> w]
      BY <1>4, <2>2 DEF Found
    <3>2. r \in Change /\ ((record # None /\ r = record) \/ \E h \in Host : state[h] # None /\ r = state[h].path)
      BY <1>0, <1>1, RecordTypes
    <3>3. c \in Change /\ c.after = w /\ c.before = r.before
      BY <3>1, <3>2 DEF Change
    <3>4. QED BY <3>2, <3>3
  <2>3. QED BY <2>1, <2>2
<1>5. QED BY <1>3, <1>4

LEMMA IdleTypes ==
  ASSUME NEW p, proc'[p] = Idle
  PROVE  Typed(p)' /\ proc'[p].pc \in Place
BY DEF Typed, Idle, Installs, Placed, Place

LEMMA ProcTypes ==
  ASSUME ServedInv, HostTypes, NEW p \in Proc, CommandStep(p)
  PROVE  \A q \in Proc : Typed(q)' /\ proc'[q].pc \in Place
<1>1. Typed(p) /\ proc[p].pc \in Place /\ proc[p].does \in Job
  BY DEF HostTypes, TypeOK, ServedInv, Jobs
<1>2. ASSUME Same(p), Typed(p)', proc'[p].pc \in Place
      PROVE  \A q \in Proc : Typed(q)' /\ proc'[q].pc \in Place
  BY <1>2 DEF Same, HostTypes, TypeOK, Typed
<1> USE DEF Typed, Installs, Placed, Place
<1>3. CASE Finishes(p)
  BY <1>2, <1>3, FinishMoves, IdleTypes
<1>4. CASE \/ \E h \in Host, w \in Checkout : BeginInstall(p, h, w)
           \/ \E h \in Host, does \in {"repair", "selected", "unhook"} : BeginOther(p, h, does)
  BY <1>2, <1>4, BeginMoves DEF Begun
<1>5. CASE CheckSource(p) \/ Acquire(p) \/ Recheck(p)
  <2>1. CASE proc'[p] = Idle
    BY <1>2, <1>5, <2>1, CheckMoves, IdleTypes
  <2>2. CASE proc[p].pc \in {"check", "recheck"} /\ Goes(p, {"git", "place"})
    BY <1>1, <1>2, <1>5, <2>2, CheckMoves DEF Goes, Keeps
  <2>3. CASE proc[p].pc = "lock" /\ Goes(p, {IF proc[p].does = "place" THEN "recheck" ELSE proc[p].does})
    BY <1>1, <1>2, <1>5, <2>3, CheckMoves DEF Goes, Keeps, Job
  <2>4. QED BY <1>5, <2>1, <2>2, <2>3, CheckMoves DEF Goes
<1>6. CASE WritePath(p)
  <2>1. proc[p].checkout \in Checkout
    BY <1>1, <1>6, WriteMoves
  <2>2. proc'[p].change \in Change \cup {Unrecorded}
    BY <1>6, <2>1, WriteMoves, FoundTypes
  <2>3. QED BY <1>1, <1>2, <1>6, <2>2, WriteMoves
<1>7. CASE \E k \in Kind : SwitchOn(p, k) \/ RecordSetting(p, k)
  <2>1. PICK k \in Kind : SwitchOn(p, k) \/ RecordSetting(p, k)
    BY <1>7
  <2>2. k \in {"flag", "trust"} /\ (SettingOf(p, k) \in Setting /\ setting[SettingOf(p, k)] # "on"
                                    => setting[SettingOf(p, k)] \in {"missing", "off"})
    BY DEF Kind, HostTypes, TypeOK
  <2>3. SettingOf(p, k) \in Setting \/ proc[p].does # "place"
    BY <1>1 DEF SettingOf, Setting
  <2>4. QED BY <1>1, <1>2, <2>1, <2>2, <2>3, SwitchMoves
<1>8. CASE WritePathRecord(p) \/ PlaceTargets(p) \/ RegisterHooks(p)
  BY <1>1, <1>2, <1>8, GoMoves DEF Goes, Keeps
<1>9. CASE RemoveHooks(p) \/ RestorePath(p) \/ RestoreSettings(p)
  BY <1>1, <1>2, <1>9, GoMoves DEF Goes, Keeps
<1>10. CASE BackUp(p) \/ RemoveSkill(p) \/ ArchivePending(p)
  BY <1>1, <1>2, <1>10, GoMoves DEF Goes, Keeps
<1>11. CASE RemoveSupport(p)
  BY <1>1, <1>2, <1>11, SupportMoves DEF Keeps
<1>12. QED
  BY <1>3, <1>4, <1>5, <1>6, <1>7, <1>8, <1>9, <1>10, <1>11 DEF CommandStep, InstallStep, RemovalStep, Finishes

LEMMA StepTypes ==
  ASSUME ServedInv, HostTypes, NEW p \in Proc, CommandStep(p), ServedInv'
  PROVE  HostTypes'
<1>1. \A q \in Proc : Typed(q)' /\ proc'[q].pc \in Place
  BY ProcTypes
<1>2. lock' \in Proc \cup {None} /\ hooks' \subseteq Host
  BY DEF ServedInv, ProcFn, StateFn
<1>3. proc[p].pc # "idle" => proc[p].host \in Host
  BY DEF ServedInv, Jobs
<1>4. proc[p].pc \in Installs => proc[p].checkout \in Checkout
  BY DEF HostTypes, Typed
<1> USE DEF shared, codex, files, ghosts
<1>5. path' \in UserPath \cup Checkout \cup {Unset}
  <2>1. CASE WritePath(p)
    BY <1>4, <2>1 DEF WritePath, At, Installs
  <2>2. CASE RestorePath(p)
    <3>1. state[proc[p].host] \in State /\ proc[p].pc = "path"
      BY <1>3, <2>2 DEF RestorePath, At, HostTypes, TypeOK
    <3>3. state[proc[p].host].path \in Change \/ path' = path
      BY <2>2, <3>1, HostAssumption DEF RestorePath, HostTypes, TypeOK, State, Unrecorded
    <3>2. QED BY <2>2, <3>1, <3>3 DEF RestorePath, HostTypes, TypeOK, Change
  <2>3. CASE ~(WritePath(p) \/ RestorePath(p))
    <3>1. path' = path
      BY <2>3 DEF CommandStep, InstallStep, RemovalStep, Die, BeginInstall, BeginOther, Start, CheckSource,
         WritePathRecord, Acquire, Recheck, PlaceTargets, SwitchOn, RecordSetting, RegisterHooks, WriteState, Repair,
         RemoveSelected, RemoveHooks, RestoreSettings, BackUp, RemoveSkill, ArchivePending, RemoveSupport, RemoveState
    <3>2. QED BY <3>1 DEF HostTypes, TypeOK
  <2>4. QED BY <2>1, <2>2, <2>3
<1>6. record' \in Change \cup {None}
  <2>1. CASE WritePathRecord(p)
    <3>1. proc[p].change \in Change /\ record' = proc[p].change
      BY <2>1 DEF WritePathRecord, At, HostTypes, Typed
    <3>2. QED BY <3>1
  <2>2. CASE RemoveSupport(p)
    BY <2>2, SupportRecord DEF HostTypes, TypeOK
  <2>3. CASE ~(WritePathRecord(p) \/ RemoveSupport(p))
    <3>1. record' = record
      BY <2>3 DEF CommandStep, InstallStep, RemovalStep, Die, BeginInstall, BeginOther, Start, CheckSource,
         WritePath, Acquire, Recheck, PlaceTargets, SwitchOn, RecordSetting, RegisterHooks, WriteState, Repair,
         RemoveSelected, RemoveHooks, RestorePath, RestoreSettings, BackUp, RemoveSkill, ArchivePending, RemoveState
    <3>2. QED BY <3>1 DEF HostTypes, TypeOK
  <2>4. QED BY <2>1, <2>2, <2>3
<1>7. source' \in Checkout \cup {None} /\ runtime' \in BOOLEAN
  <2>1. CASE PlaceTargets(p)
    BY <1>4, <2>1 DEF PlaceTargets, At, Installs
  <2>2. CASE RemoveSupport(p)
    BY <2>2, SupportRecord DEF HostTypes, TypeOK, RemoveSupport
  <2>3. CASE ~(PlaceTargets(p) \/ RemoveSupport(p))
    <3>1. source' = source /\ runtime' = runtime
      BY <2>3 DEF CommandStep, InstallStep, RemovalStep, Die, BeginInstall, BeginOther, Start, CheckSource,
         WritePath, WritePathRecord, Acquire, Recheck, SwitchOn, RecordSetting, RegisterHooks, WriteState, Repair,
         RemoveSelected, RemoveHooks, RestorePath, RestoreSettings, BackUp, RemoveSkill, ArchivePending, RemoveState
    <3>2. QED BY <3>1 DEF HostTypes, TypeOK
  <2>4. QED BY <2>1, <2>2, <2>3
<1>8. /\ setting' \in [Setting -> {"missing", "off", "on"}] /\ theirs' \in [Setting -> {"missing", "off", None}]
      /\ sidecar' \in [Kind -> Before \cup {None}]
  <2>0. /\ setting \in [Setting -> {"missing", "off", "on"}] /\ theirs \in [Setting -> {"missing", "off", None}]
        /\ sidecar \in [Kind -> Before \cup {None}]
    BY DEF HostTypes, TypeOK
  <2>1. ASSUME NEW k \in Kind, SwitchOn(p, k)
        PROVE  setting' \in [Setting -> {"missing", "off", "on"}] /\ theirs' \in [Setting -> {"missing", "off", None}]
               /\ sidecar' = sidecar
    <3>1. SettingOf(p, k) \in Setting
      BY <1>4, <2>1 DEF SwitchOn, At, Installs, Placed, SettingOf, Setting, Kind
    <3>2. setting[SettingOf(p, k)] # "on" => setting[SettingOf(p, k)] \in {"missing", "off", None}
      BY <2>0, <3>1
    <3>3. QED BY <2>0, <2>1, <3>1, <3>2 DEF SwitchOn
  <2>2. ASSUME NEW k \in Kind, RecordSetting(p, k)
        PROVE  sidecar' \in [Kind -> Before \cup {None}] /\ setting' = setting /\ theirs' = theirs
    <3>1. SettingOf(p, k) \in Setting /\ proc[p].before \in {"missing", "off"}
      BY <1>4, <2>2 DEF RecordSetting, At, Installs, Placed, SettingOf, Setting, Kind, HostTypes, Typed
    <3>2. [of |-> SettingOf(p, k), before |-> proc[p].before] \in Before
      BY <3>1 DEF Before
    <3>3. QED BY <2>0, <2>2, <3>2 DEF RecordSetting
  <2>3. CASE RestoreSettings(p)
    <3>1. state[proc[p].host] \in State
      BY <1>3, <2>3 DEF RestoreSettings, At, HostTypes, TypeOK
    <3>2. Returned(state[proc[p].host]) \subseteq Before
      BY <3>1 DEF Returned, State
    <3>3. ASSUME NEW x \in Setting, \E b \in Returned(state[proc[p].host]) : b.of = x
          PROVE  (CHOOSE b \in Returned(state[proc[p].host]) : b.of = x).before \in {"missing", "off", "on"}
      BY <3>2, <3>3 DEF Before
    <3>4. setting' \in [Setting -> {"missing", "off", "on"}]
      BY <2>0, <2>3, <3>3 DEF RestoreSettings
    <3>5. theirs' \in [Setting -> {"missing", "off", None}] /\ sidecar' = sidecar
      BY <2>0, <2>3 DEF RestoreSettings
    <3>6. QED BY <2>0, <3>4, <3>5
  <2>4. CASE RemoveSupport(p)
    <3>1. setting' = setting /\ theirs' = theirs
      BY <2>4 DEF RemoveSupport
    <3>2. QED BY <2>0, <2>4, <3>1, SupportSidecar
  <2>5. CASE ~(\/ \E k \in Kind : SwitchOn(p, k) \/ RecordSetting(p, k)
               \/ RestoreSettings(p) \/ RemoveSupport(p))
    <3>1. UNCHANGED <<setting, theirs, sidecar>>
      BY <2>5 DEF CommandStep, InstallStep, RemovalStep, Die, BeginInstall, BeginOther, Start, CheckSource,
         WritePath, WritePathRecord, Acquire, Recheck, PlaceTargets, RegisterHooks, WriteState, Repair,
         RemoveSelected, RemoveHooks, RestorePath, BackUp, RemoveSkill, ArchivePending, RemoveState
    <3>2. QED BY <2>0, <3>1
  <2>6. QED BY <2>0, <2>1, <2>2, <2>3, <2>4, <2>5
<1>9. /\ state' \in [Host -> State \cup {None}]
      /\ \A q \in Proc : proc'[q].pc \in {"path", "settings", "skill", "remove"} => state'[proc'[q].host] # None
  <2>0. /\ state \in [Host -> State \cup {None}]
        /\ \A q \in Proc : proc[q].pc \in {"path", "settings", "skill", "remove"} => state[proc[q].host] # None
    BY DEF HostTypes, TypeOK
  <2>1. CASE WriteState(p) \/ RemoveState(p)
    <3>1. ASSUME NEW q \in Proc PROVE proc'[q].pc \notin {"path", "settings", "skill", "remove"}
      <4>1. CASE q = p
        BY <2>1, <4>1, FinishMoves DEF Finishes, Idle
      <4>2. CASE q # p
        BY <2>1, <4>2, FinishMoves, Alone DEF Finishes, Same, WriteState, RemoveState, At, Locked
      <4>3. QED BY <4>1, <4>2
    <3>2. CASE WriteState(p)
      <4>1. proc[p].change \in Change \cup {Unrecorded} /\ \A k \in Kind : sidecar[k] \in Before \cup {None}
        BY DEF HostTypes, TypeOK, Typed
      <4>2. PICK flag \in Before \cup {None}, trust \in Before \cup {None} :
              state' = [state EXCEPT ![proc[p].host] = [path |-> proc[p].change, flag |-> flag, trust |-> trust]]
        BY <3>2, <4>1 DEF WriteState, Kind
      <4>3. [path |-> proc[p].change, flag |-> flag, trust |-> trust] \in State
        BY <4>1 DEF State
      <4>4. QED BY <2>0, <3>1, <4>2, <4>3
    <3>3. CASE RemoveState(p)
      BY <2>0, <3>1, <3>3 DEF RemoveState
    <3>4. QED BY <2>1, <3>2, <3>3
  <2>2. CASE ~(WriteState(p) \/ RemoveState(p))
    <3>1. state' = state
      BY <2>2 DEF CommandStep, InstallStep, RemovalStep, Die, BeginInstall, BeginOther, Start, CheckSource,
         WritePath, WritePathRecord, Acquire, Recheck, PlaceTargets, SwitchOn, RecordSetting, RegisterHooks, Repair,
         RemoveSelected, RemoveHooks, RestorePath, RestoreSettings, BackUp, RemoveSkill, ArchivePending, RemoveSupport
    <3>2. ASSUME NEW q \in Proc, proc'[q].pc \in {"path", "settings", "skill", "remove"}
          PROVE  state[proc'[q].host] # None
      <4>1. CASE q # p
        <5>1. Same(p)
          BY BeginMoves, CheckMoves, WriteMoves, SwitchMoves, GoMoves, FinishMoves, SupportMoves
             DEF CommandStep, InstallStep, RemovalStep, Finishes
        <5>2. QED BY <2>0, <3>2, <4>1, <5>1 DEF Same
      <4>2. CASE q = p
        <5>1. RemoveHooks(p) \/ RestorePath(p) \/ RestoreSettings(p) \/ BackUp(p)
          <6>1. ~Finishes(p)
            BY <3>2, <4>2, FinishMoves DEF Idle
          <6>2. ~(\/ \E h \in Host, w \in Checkout : BeginInstall(p, h, w)
                  \/ \E h \in Host, does \in {"repair", "selected", "unhook"} : BeginOther(p, h, does))
            BY <3>2, <4>2, BeginMoves DEF Begun
          <6>3. ~(CheckSource(p) \/ Acquire(p) \/ Recheck(p))
            BY <3>2, <4>2, CheckMoves DEF Idle, Goes, ServedInv, Jobs, Job
          <6>4. ~WritePath(p) /\ ~RemoveSupport(p)
            BY <3>2, <4>2, WriteMoves, SupportMoves
          <6>5. ~\E k \in Kind : SwitchOn(p, k) \/ RecordSetting(p, k)
            BY <3>2, <4>2, SwitchMoves
          <6>6. ~(WritePathRecord(p) \/ PlaceTargets(p) \/ RegisterHooks(p) \/ RemoveSkill(p) \/ ArchivePending(p))
            BY <3>2, <4>2, GoMoves DEF Goes
          <6>7. QED BY <6>1, <6>2, <6>3, <6>4, <6>5, <6>6 DEF CommandStep, InstallStep, RemovalStep, Finishes
        <5>2. QED BY <2>0, <3>2, <4>2, <5>1, GoMoves DEF Goes, Keeps
      <4>3. QED BY <4>1, <4>2
    <3>3. QED BY <2>0, <3>1, <3>2
  <2>3. QED BY <2>1, <2>2
<1>10. /\ rules' \in [Host -> RuleFile] /\ skill' \in [Host -> Folder] /\ backup' \in [Host -> Folder]
       /\ pending' \in [Host -> SUBSET Folder] /\ archive' \in [Host -> SUBSET Folder]
  <2>0. /\ rules \in [Host -> RuleFile] /\ skill \in [Host -> Folder] /\ backup \in [Host -> Folder]
        /\ pending \in [Host -> SUBSET Folder] /\ archive \in [Host -> SUBSET Folder]
    BY DEF HostTypes, TypeOK
  <2>1. CASE PlaceTargets(p) \/ ArchivePending(p)
    <3>1. skill[proc[p].host] \in Folder /\ pending[proc[p].host] \subseteq Folder /\ archive[proc[p].host] \subseteq Folder
      BY <1>3, <2>0, <2>1 DEF PlaceTargets, ArchivePending, At
    <3>2. QED BY <2>0, <2>1, <3>1 DEF PlaceTargets, ArchivePending, Folder
  <2>2. CASE Repair(p) \/ RemoveSkill(p)
    BY <2>0, <2>2 DEF Repair, RemoveSkill, Folder
  <2>3. CASE RegisterHooks(p)
    BY <2>0, <2>3 DEF RegisterHooks, RuleFile
  <2>4. CASE RemoveSelected(p) \/ RemoveHooks(p)
    <3>1. rules[proc[p].host] \in RuleFile
      BY <1>3, <2>0, <2>4 DEF RemoveSelected, RemoveHooks, At
    <3>2. Removed(rules[proc[p].host]) \in RuleFile
      BY <3>1 DEF Removed, RuleFile
    <3>3. QED BY <2>0, <2>4, <3>2 DEF RemoveSelected, RemoveHooks, Folder
  <2>5. CASE BackUp(p)
    BY <1>3, <2>0, <2>5 DEF BackUp, At
  <2>6. CASE Die(p)
    BY <1>3, <2>0, <2>6 DEF Die, At, Folder
  <2>7. CASE ~(\/ PlaceTargets(p) \/ ArchivePending(p) \/ Repair(p) \/ RemoveSkill(p) \/ RegisterHooks(p)
               \/ RemoveSelected(p) \/ RemoveHooks(p) \/ BackUp(p) \/ Die(p))
    <3>1. UNCHANGED <<rules, skill, backup, pending, archive>>
      BY <2>7 DEF CommandStep, InstallStep, RemovalStep, BeginInstall, BeginOther, Start, CheckSource,
         WritePath, WritePathRecord, Acquire, Recheck, SwitchOn, RecordSetting, WriteState,
         RestorePath, RestoreSettings, RemoveSupport, RemoveState
    <3>2. QED BY <2>0, <3>1
  <2>8. QED BY <2>1, <2>2, <2>3, <2>4, <2>5, <2>6, <2>7
<1>20. QED
  BY <1>1, <1>2, <1>5, <1>6, <1>7, <1>8, <1>9, <1>10 DEF HostTypes, TypeOK


LEMMA UserTypes ==
  ASSUME ServedInv, HostTypes, UserStep
  PROVE  HostTypes'
<1>1. UNCHANGED <<record, source, runtime, sidecar, state, hooks, backup, pending, archive, lock, proc>>
  BY DEF UserStep, EditPath, EditSetting, EditFiles, Edit, shared
<1>2. path' \in UserPath \cup Checkout \cup {Unset}
  BY DEF UserStep, EditPath, EditSetting, EditFiles, Edit, HostTypes, TypeOK
<1>3. setting' \in [Setting -> {"missing", "off", "on"}] /\ theirs' \in [Setting -> {"missing", "off", None}]
  BY DEF UserStep, EditPath, EditSetting, EditFiles, Edit, HostTypes, TypeOK
<1>4. rules' \in [Host -> RuleFile] /\ skill' \in [Host -> Folder]
  <2>1. CASE \E h \in Host : EditFiles(h)
    BY <2>1 DEF EditFiles, Edit, HostTypes, TypeOK, RuleFile, Folder
  <2>2. CASE UNCHANGED <<rules, skill>>
    BY <2>2 DEF HostTypes, TypeOK
  <2>3. QED BY <2>1, <2>2 DEF UserStep, EditPath, EditSetting
<1>5. QED BY <1>1, <1>2, <1>3, <1>4 DEF HostTypes, TypeOK, Typed

LEMMA TypesInvariant == Spec => [](ServedInv /\ HostTypes)
<1>1. Init => ServedInv /\ HostTypes
  BY InitServed, InitTypes
<1>2. ServedInv /\ HostTypes /\ [Next]_vars => (ServedInv /\ HostTypes)'
  <2>1. CASE UNCHANGED vars
    BY <2>1, StepServed DEF vars, shared, codex, files, ghosts, HostTypes, TypeOK, Typed
  <2>2. QED BY <2>1, StepServed, StepTypes, UserTypes DEF Next
<1>3. QED BY <1>1, <1>2, PTL DEF Spec

-----------------------------------------------------------------------------
(* The work of the user. *)

LEMMA UserWork ==
  ASSUME ServedInv, HostTypes, WorkInv, UserStep
  PROVE  WorkInv'
<1>1. UNCHANGED <<backup, pending, archive, proc, cut>>
  BY DEF UserStep, EditPath, EditSetting, EditFiles, Edit
<1>2. CASE \E h \in Host : EditFiles(h)
  <2>1. PICK h \in Host : EditFiles(h)
    BY <1>2
  <2>2. /\ \A g \in Host : g # h => skill'[g] = skill[g] /\ rules'[g] = rules[g]
        /\ skill'[h] = skill[h] \/ (skill'[h] = "modified" /\ \A p \in Proc : lock = p => proc[p].host # h)
    BY <2>1 DEF EditFiles, HostTypes, TypeOK
  <2>3. ~cut => \A g \in Host : skill'[g] \in {"absent", "clean", "modified"}
    BY <2>2 DEF WorkInv
  <2>4. ASSUME ~cut, NEW p \in Proc, At(p, "remove"), skill'[proc[p].host] = "modified"
        PROVE  backup[proc[p].host] = "modified"
    <3>1. lock = p /\ proc[p].host \in Host
      BY <2>4 DEF ServedInv, HolderLocked, Jobs, At, Locked
    <3>2. QED BY <2>2, <2>4, <3>1 DEF WorkInv
  <2>5. ASSUME NEW g \in Host
        PROVE  /\ <<g, "skill">> \in mine' => cut \/ "modified" \in {skill'[g], backup[g]} \cup pending[g] \cup archive[g]
               /\ <<g, "text">> \in mine' => rules'[g] \in {"user", "both"}
    <3>1. CASE skill'[h] = "modified" /\ mine' = mine \cup {<<h, "skill">>} /\ UNCHANGED rules
      BY <2>2, <3>1 DEF WorkInv, UserWorkKept
    <3>2. CASE /\ mine' = mine \cup {<<h, "text">>} /\ UNCHANGED skill /\ rules'[h] \in {"user", "both"}
      BY <2>2, <3>2 DEF WorkInv, UserWorkKept
    <3>3. CASE mine' = mine \ {<<h, "text">>} /\ UNCHANGED skill
      BY <2>2, <3>3 DEF WorkInv, UserWorkKept
    <3>4. QED BY <2>1, <3>1, <3>2, <3>3 DEF EditFiles, HostTypes, TypeOK
  <2>6. QED BY <1>1, <2>3, <2>4, <2>5 DEF WorkInv, UserWorkKept, At
<1>3. CASE UNCHANGED <<skill, rules, mine>>
  BY <1>1, <1>3 DEF WorkInv, UserWorkKept, At
<1>4. QED BY <1>2, <1>3 DEF UserStep, EditPath, EditSetting

(* A step of a command that leaves the user's work alone. *)
LEMMA WorkAlone ==
  ASSUME ServedInv, WorkInv, NEW p \in Proc, Same(p), proc'[p].pc # "remove",
         UNCHANGED <<skill, backup, pending, archive, rules, mine, cut>>
  PROVE  WorkInv'
BY DEF WorkInv, UserWorkKept, At, Same

(* Under the lock: nobody else is about to remove a skill. *)
LEMMA NobodyRemoves ==
  ASSUME ServedInv, NEW p \in Proc, proc[p].pc \in Locked, Same(p), NEW q \in Proc, At(q, "remove")'
  PROVE  q = p
BY Alone DEF Same, At, Locked

LEMMA CommandWork ==
  ASSUME ServedInv, HostTypes, WorkInv, NEW p \in Proc, CommandStep(p)
  PROVE  WorkInv'
<1>1. proc[p].pc # "idle" => proc[p].host \in Host
  BY DEF ServedInv, Jobs
<1> DEFINE h == proc[p].host
<1>2. /\ rules \in [Host -> RuleFile] /\ skill \in [Host -> Folder] /\ backup \in [Host -> Folder]
      /\ pending \in [Host -> SUBSET Folder] /\ archive \in [Host -> SUBSET Folder]
  BY DEF HostTypes, TypeOK
<1> USE DEF files, ghosts
<1>3. CASE \/ \E g \in Host, w \in Checkout : BeginInstall(p, g, w)
           \/ \E g \in Host, does \in {"repair", "selected", "unhook"} : BeginOther(p, g, does)
  BY <1>3, BeginMoves, WorkAlone DEF Begun, BeginInstall, BeginOther, Start
<1>4. CASE CheckSource(p) \/ Acquire(p) \/ Recheck(p)
  <2>1. proc'[p].pc # "remove"
    BY <1>4, CheckMoves DEF Idle, Goes, ServedInv, Jobs, Job
  <2>2. QED BY <1>4, <2>1, CheckMoves, WorkAlone DEF CheckSource, Acquire, Recheck
<1>5. CASE WritePath(p) \/ WritePathRecord(p) \/ \E k \in Kind : SwitchOn(p, k) \/ RecordSetting(p, k)
  <2>1. Same(p) /\ proc'[p].pc # "remove"
    BY <1>5, WriteMoves, GoMoves, SwitchMoves DEF Goes
  <2>2. QED BY <1>5, <2>1, WorkAlone DEF WritePath, WritePathRecord, SwitchOn, RecordSetting
<1>6. CASE RestorePath(p) \/ RestoreSettings(p) \/ WriteState(p) \/ RemoveState(p)
  <2>1. Same(p) /\ proc'[p].pc # "remove"
    BY <1>6, GoMoves, FinishMoves DEF Goes, Finishes, Idle
  <2>2. QED BY <1>6, <2>1, WorkAlone DEF RestorePath, RestoreSettings, WriteState, RemoveState
<1>7. CASE RemoveSupport(p)
  BY <1>7, SupportMoves, WorkAlone DEF RemoveSupport
<1>8. CASE PlaceTargets(p)
  <2>1. Same(p) /\ proc'[p].pc # "remove" /\ proc[p].pc = "place"
    BY <1>8, GoMoves DEF Goes
  <2>2. /\ \A g \in Host : g # h => skill'[g] = skill[g] /\ pending'[g] = pending[g]
        /\ skill'[h] = "clean" /\ pending'[h] = pending[h] \cup ({skill[h]} \ {"absent", "clean"})
        /\ UNCHANGED <<backup, archive, rules, mine, cut>>
    BY <1>1, <1>2, <1>8, <2>1 DEF PlaceTargets
  <2>3. UserWorkKept'
    BY <2>2 DEF WorkInv, UserWorkKept
  <2>4. QED BY <2>1, <2>2, <2>3, NobodyRemoves DEF WorkInv, At, Locked
<1>9. CASE RegisterHooks(p) \/ RemoveHooks(p)
  <2>1. Same(p) /\ proc'[p].pc # "remove"
    BY <1>9, GoMoves DEF Goes
  <2>2. /\ \A g \in Host : rules[g] \in {"user", "both"} => rules'[g] \in {"user", "both"}
        /\ UNCHANGED <<skill, backup, pending, archive, mine, cut>>
    BY <1>2, <1>9 DEF RegisterHooks, RemoveHooks, Removed
  <2>3. QED BY <2>1, <2>2 DEF WorkInv, UserWorkKept, At, Same
<1>10. CASE Repair(p)
  <2>1. Same(p) /\ proc'[p].pc # "remove" /\ proc[p].pc = "repair"
    BY <1>10, FinishMoves DEF Finishes, Idle, Repair, At
  <2>2. /\ \A g \in Host : skill'[g] = skill[g] \/ (skill[g] = "absent" /\ skill'[g] = "clean")
        /\ UNCHANGED <<backup, pending, archive, rules, mine, cut>>
    BY <1>2, <1>10 DEF Repair
  <2>3. QED BY <2>1, <2>2, NobodyRemoves DEF WorkInv, UserWorkKept, At, Locked
<1>11. CASE RemoveSelected(p)
  <2>1. Same(p) /\ proc'[p].pc # "remove" /\ proc[p].pc = "selected"
    <3>1. Same(p) /\ proc'[p] = Idle
      BY <1>11, FinishMoves DEF Finishes
    <3>2. QED BY <1>11, <3>1 DEF Idle, RemoveSelected, At
  <2>2. /\ \A g \in Host : rules[g] \in {"user", "both"} => rules'[g] \in {"user", "both"}
        /\ \A g \in Host : g # h => skill'[g] = skill[g]
        /\ skill'[h] = "absent" /\ UNCHANGED <<backup, pending, archive, cut>>
        /\ mine' = (IF skill[h] = "absent" THEN mine ELSE mine \ {<<h, "skill">>})
    BY <1>1, <1>2, <1>11, <2>1 DEF RemoveSelected, Removed
  <2>3. UserWorkKept'
    BY <2>2 DEF WorkInv, UserWorkKept
  <2>4. QED BY <2>1, <2>2, <2>3, NobodyRemoves DEF WorkInv, At, Locked
<1>12. CASE BackUp(p)
  <2>1. Same(p) /\ proc[p].pc = "skill" /\ proc'[p].host = h /\ h \in Host
    BY <1>1, <1>12, GoMoves DEF Goes, Keeps
  <2>2. /\ \A g \in Host : g # h => backup'[g] = backup[g]
        /\ backup'[h] = (IF skill[h] \in {"modified", "cut"} THEN skill[h] ELSE backup[h])
        /\ UNCHANGED <<skill, pending, archive, rules, mine, cut>>
    BY <1>2, <1>12, <2>1 DEF BackUp
  <2>3. UserWorkKept'
    BY <2>1, <2>2 DEF WorkInv, UserWorkKept
  <2>4. \A q \in Proc : At(q, "remove")' => q = p
    BY <2>1, NobodyRemoves DEF Locked
  <2>5. QED BY <2>1, <2>2, <2>3, <2>4 DEF WorkInv
<1>13. CASE RemoveSkill(p)
  <2>1. Same(p) /\ proc[p].pc = "remove" /\ proc'[p].pc # "remove"
    BY <1>13, GoMoves DEF Goes
  <2>2. /\ \A g \in Host : g # h => skill'[g] = skill[g]
        /\ skill'[h] = "absent" /\ UNCHANGED <<backup, pending, archive, rules, mine, cut>>
    BY <1>1, <1>2, <1>13, <2>1 DEF RemoveSkill
  <2>3. ~cut /\ skill[h] = "modified" => backup[h] = "modified"
    BY <2>1 DEF WorkInv, At
  <2>4. UserWorkKept'
    BY <2>2, <2>3 DEF WorkInv, UserWorkKept
  <2>5. QED BY <2>1, <2>2, <2>4, NobodyRemoves DEF WorkInv, At, Locked
<1>14. CASE ArchivePending(p)
  <2>1. Same(p) /\ proc[p].pc = "pending" /\ proc'[p].pc # "remove"
    BY <1>14, GoMoves DEF Goes
  <2>2. /\ \A g \in Host : g # h => pending'[g] = pending[g] /\ archive'[g] = archive[g]
        /\ pending'[h] = {} /\ archive'[h] = archive[h] \cup pending[h]
        /\ UNCHANGED <<skill, backup, rules, mine, cut>>
    BY <1>1, <1>2, <1>14, <2>1 DEF ArchivePending
  <2>3. UserWorkKept'
    BY <2>2 DEF WorkInv, UserWorkKept
  <2>4. QED BY <2>1, <2>2, <2>3 DEF WorkInv, At, Same
<1>15. CASE Die(p)
  <2>1. Same(p) /\ proc'[p].pc # "remove" /\ proc[p].pc # "idle"
    BY <1>15, FinishMoves DEF Finishes, Idle, Die, At
  <2>2. /\ UNCHANGED <<backup, pending, archive, rules, mine>>
        /\ (cut => cut') /\ (~cut' => skill' = skill)
    <3>1. CASE At(p, "remove")
      <4>1. PICK left \in {skill[h], "cut", "unmarked"} :
              skill' = [skill EXCEPT ![h] = left] /\ cut' = (cut \/ left # skill[h])
        BY <1>15, <3>1 DEF Die
      <4>2. QED BY <1>2, <1>15, <4>1 DEF Die
    <3>2. CASE ~At(p, "remove")
      BY <1>15, <3>2 DEF Die
    <3>3. QED BY <3>1, <3>2
  <2>3. QED BY <2>1, <2>2 DEF WorkInv, UserWorkKept, At, Same
<1>16. QED
  BY <1>3, <1>4, <1>5, <1>6, <1>7, <1>8, <1>9, <1>10, <1>11, <1>12, <1>13, <1>14, <1>15
     DEF CommandStep, InstallStep, RemovalStep

(* A version of a skill that the user made is somewhere as he left it, and his *)
(* text in a rule file stays, whatever commands stop or follow one another     *)
(* (installer/lifecycle.py, uninstall_cleanup.py), except for a removal that   *)
(* died inside the folder.                                                     *)
THEOREM UserWorkIsKept == Spec => []UserWorkKept
<1>1. Init => WorkInv
  BY DEF Init, WorkInv, UserWorkKept, Idle, At
<1>2. ServedInv /\ HostTypes /\ WorkInv /\ [Next]_vars => WorkInv'
  <2>1. UNCHANGED vars /\ WorkInv => WorkInv'
    BY DEF vars, files, ghosts, WorkInv, UserWorkKept, At
  <2>2. QED BY <2>1, UserWork, CommandWork DEF Next
<1>3. WorkInv => UserWorkKept
  BY DEF WorkInv
<1>4. QED BY <1>1, <1>2, <1>3, TypesInvariant, PTL DEF Spec


-----------------------------------------------------------------------------
(* The hook path. *)

LEMMA PathStill ==
  ASSUME PathInv, NEW p \in Proc, Same(p), ~At(p, "record"), ~At(p, "record")',
         UNCHANGED <<path, record, state, users, torn>>,
         Known(proc[p].change) => Known(proc'[p].change)
  PROVE  PathInv'
BY DEF PathInv, PathKnown, Known, Same, At

LEMMA UserPaths ==
  ASSUME HostTypes, PathInv, UserStep
  PROVE  PathInv'
<1>1. UNCHANGED <<record, state, proc, torn>>
  BY DEF UserStep, EditPath, EditSetting, EditFiles, Edit, shared
<1>2. (path' = path /\ users' = users) \/ (path' \in users' /\ users \subseteq users')
  BY DEF UserStep, EditPath, EditSetting, EditFiles, Edit
<1>3. QED BY <1>1, <1>2 DEF PathInv, PathKnown, Known, At

LEMMA CommandPath ==
  ASSUME ServedInv, HostTypes, PathInv, NEW p \in Proc, CommandStep(p)
  PROVE  PathInv'
<1>1. (proc[p].pc # "idle" => proc[p].host \in Host) /\ path \in UserPath \cup Checkout \cup {Unset}
  BY DEF ServedInv, Jobs, HostTypes, TypeOK
<1>2. Known(Unrecorded)
  BY DEF Known, Unrecorded
<1>3. Known(Idle.change)
  BY <1>2 DEF Idle
<1> USE DEF shared, ghosts
<1>4. CASE \/ \E g \in Host, w \in Checkout : BeginInstall(p, g, w)
           \/ \E g \in Host, does \in {"repair", "selected", "unhook"} : BeginOther(p, g, does)
  <2>1. Same(p) /\ ~At(p, "record") /\ ~At(p, "record")' /\ proc'[p].change = Unrecorded
    BY <1>4, BeginMoves DEF Begun, At
  <2>2. QED BY <1>2, <1>4, <2>1, PathStill DEF BeginInstall, BeginOther, Start, At
<1>5. CASE CheckSource(p) \/ Acquire(p) \/ Recheck(p)
  <2>1. Same(p) /\ ~At(p, "record") /\ ~At(p, "record")' /\ (proc'[p] = Idle \/ proc'[p].change = proc[p].change)
    <3>1. CASE proc'[p] = Idle
      <4>1. ~At(p, "record")'
        BY <3>1 DEF At, Idle
      <4>2. Same(p) /\ ~At(p, "record")
        BY <1>5, CheckMoves DEF CheckSource, Acquire, Recheck, At
      <4>3. QED BY <3>1, <4>1, <4>2
    <3>2. CASE proc[p].pc \in {"check", "recheck"} /\ Goes(p, {"git", "place"})
      BY <1>5, <3>2, CheckMoves DEF Goes, Keeps, At
    <3>3. CASE proc[p].pc = "lock" /\ Goes(p, {IF proc[p].does = "place" THEN "recheck" ELSE proc[p].does})
      BY <1>5, <3>3, CheckMoves DEF Goes, Keeps, At, ServedInv, Jobs, Job
    <3>4. QED BY <1>5, <3>1, <3>2, <3>3, CheckMoves DEF Goes
  <2>2. QED BY <1>3, <1>5, <2>1, PathStill DEF CheckSource, Acquire, Recheck
<1>6. CASE WritePath(p)
  <2> DEFINE w == proc[p].checkout
             c == proc'[p].change
  <2>1. /\ Same(p) /\ proc[p].pc = "git" /\ w \in Checkout /\ c \in Found(w)
        /\ proc'[p].pc = (IF c = Unrecorded THEN "lock" ELSE "record")
        /\ UNCHANGED <<record, state, users>> /\ path' = w /\ torn \subseteq torn'
        /\ "path" \notin torn' => \A q \in Proc \ {p} : ~At(q, "record")
    BY <1>6, WriteMoves DEF WritePath, HostTypes, Typed, Installs
  <2>2. SUFFICES ASSUME "path" \notin torn' PROVE PathKnown'
    BY DEF PathInv
  <2>3. PathKnown
    BY <2>1, <2>2 DEF PathInv
  <2>4. \A q \in Proc : ~At(q, "record")
    BY <2>1, <2>2 DEF At
  <2>5. path \in users \/ (record # None /\ record.after = path)
    BY <2>3, <2>4 DEF PathKnown
  <2>6. CASE c = Unrecorded
    <3>1. path = w /\ (record # None => record.after # path)
      BY <2>1, <2>6, FoundTypes, HostAssumption DEF Unrecorded, HostTypes, Change
    <3>2. path' \in users
      BY <2>1, <2>5, <3>1
    <3>3. QED BY <1>2, <2>1, <2>3, <2>4, <2>6, <3>2 DEF PathKnown, Known, Same, At
  <2>7. CASE c # Unrecorded
    <3>1. c \in Change /\ c.after = w /\ c.before \in users
      <4>1. \A h \in Host : state[h] # None /\ state[h].path \in Change => state[h].path.before \in users
        BY <2>3, HostAssumption DEF PathKnown, Known, Change
      <4>2. QED BY <2>1, <2>3, <2>5, <2>7, <4>1, FoundTypes DEF PathKnown
    <3>2. proc'[p].pc = "record" /\ path' = c.after
      BY <2>1, <2>7, <3>1
    <3>3. QED BY <2>1, <2>3, <2>4, <3>1, <3>2 DEF PathKnown, Known, Same, At
  <2>8. QED BY <2>6, <2>7
<1>7. CASE WritePathRecord(p)
  <2>1. /\ Same(p) /\ proc[p].pc = "record" /\ proc'[p].pc = "lock" /\ proc'[p].change = proc[p].change
        /\ proc[p].change \in Change /\ record' = proc[p].change /\ UNCHANGED <<path, state, users, torn>>
    BY <1>7, GoMoves DEF Goes, Keeps, WritePathRecord, HostTypes, Typed
  <2>2. proc[p].change # None /\ proc[p].change.after # None
    BY <2>1, HostAssumption, ValueAssumption DEF Change
  <2>3. QED BY <2>1, <2>2 DEF PathInv, PathKnown, Known, Same, At
<1>8. CASE RestorePath(p)
  <2>1. /\ Same(p) /\ proc[p].pc = "path" /\ proc'[p].pc = "settings" /\ proc'[p].change = proc[p].change
        /\ UNCHANGED <<record, state, users, torn>> /\ proc[p].host \in Host /\ state[proc[p].host] # None
    BY <1>1, <1>8, GoMoves DEF Goes, Keeps, RestorePath, HostTypes
  <2>2. path' = path \/ (path' = state[proc[p].host].path.before /\ state[proc[p].host].path.after # None)
    BY <1>1, <1>8, HostAssumption DEF RestorePath
  <2>3. CASE path' = path
    BY <2>1, <2>3, PathStill DEF At
  <2>4. CASE path' # path
    <3>1. "path" \in torn \/ path' \in users
      BY <2>1, <2>2, <2>4 DEF PathInv, PathKnown, Known
    <3>2. QED BY <2>1, <3>1 DEF PathInv, PathKnown, Known, Same, At
  <2>5. QED BY <2>3, <2>4
<1>9. CASE WriteState(p) \/ RemoveState(p)
  <2>1. /\ Same(p) /\ proc'[p] = Idle /\ UNCHANGED <<path, record, users, torn>> /\ ~At(p, "record")
        /\ state \in [Host -> State \cup {None}] /\ proc[p].host \in Host
    BY <1>1, <1>9, FinishMoves DEF Finishes, WriteState, RemoveState, At, HostTypes, TypeOK
  <2>2. ~At(p, "record")'
    BY <2>1 DEF At, Idle
  <2>3. /\ \A g \in Host : g # proc[p].host => state'[g] = state[g]
        /\ state'[proc[p].host] = None \/ state'[proc[p].host].path = proc[p].change
    BY <1>9, <2>1 DEF WriteState, RemoveState
  <2>4. ASSUME PathKnown, NEW g \in Host, state'[g] # None PROVE Known(state'[g].path)
    BY <2>3, <2>4 DEF PathKnown
  <2>5. ASSUME PathKnown PROVE PathKnown'
    BY <1>3, <2>1, <2>2, <2>4, <2>5 DEF PathKnown, Known, Same, At
  <2>6. QED BY <2>1, <2>5 DEF PathInv
<1>10. CASE RemoveSupport(p)
  <2>1. /\ Same(p) /\ ~At(p, "record") /\ ~At(p, "record")' /\ proc'[p].change = proc[p].change
        /\ UNCHANGED <<path, state, users>> /\ torn \subseteq torn'
    BY <1>10, SupportMoves DEF RemoveSupport, Keeps, At
  <2>2. CASE record' = record
    BY <2>1, <2>2 DEF PathInv, PathKnown, Known, Same, At
  <2>3. CASE record' # record
    <3>1. record' = None /\ (record # None /\ record.after = path => "path" \in torn')
      BY <1>10, <2>3, SupportRecord
    <3>2. QED BY <2>1, <3>1 DEF PathInv, PathKnown, Known, Same, At
  <2>4. QED BY <2>2, <2>3
<1>11. CASE Die(p)
  <2>1. /\ Same(p) /\ proc'[p] = Idle /\ UNCHANGED <<path, record, state, users>> /\ torn \subseteq torn'
        /\ At(p, "record") => "path" \in torn'
    BY <1>11, FinishMoves DEF Finishes, Die
  <2>2. ~At(p, "record")'
    BY <2>1 DEF At, Idle
  <2>3. QED BY <1>3, <2>1, <2>2 DEF PathInv, PathKnown, Known, Same, At
<1>12. CASE Repair(p) \/ RemoveSelected(p)
  <2>1. Same(p) /\ proc'[p] = Idle /\ ~At(p, "record") /\ UNCHANGED <<path, record, state, users, torn>>
    BY <1>12, FinishMoves DEF Finishes, Repair, RemoveSelected, At
  <2>2. QED BY <1>3, <2>1, PathStill DEF Idle, At
<1>13. CASE \/ PlaceTargets(p) \/ RegisterHooks(p) \/ RemoveHooks(p) \/ RestoreSettings(p) \/ BackUp(p)
            \/ RemoveSkill(p) \/ ArchivePending(p)
  <2>1. Same(p) /\ ~At(p, "record") /\ ~At(p, "record")' /\ proc'[p].change = proc[p].change
    BY <1>13, GoMoves DEF Goes, Keeps, At
  <2>2. UNCHANGED <<path, record, state, users, torn>>
    BY <1>13 DEF PlaceTargets, RegisterHooks, RemoveHooks, RestoreSettings, BackUp, RemoveSkill, ArchivePending
  <2>3. QED BY <2>1, <2>2, PathStill
<1>14. CASE \E k \in Kind : SwitchOn(p, k) \/ RecordSetting(p, k)
  <2>1. Same(p) /\ ~At(p, "record") /\ ~At(p, "record")' /\ proc'[p].change = proc[p].change
    BY <1>14, SwitchMoves DEF At, Kind
  <2>2. QED BY <1>14, <2>1, PathStill DEF SwitchOn, RecordSetting
<1>15. QED
  BY <1>4, <1>5, <1>6, <1>7, <1>8, <1>9, <1>10, <1>11, <1>12, <1>13, <1>14 DEF CommandStep, InstallStep, RemovalStep

(* Only the steps of a command move it. *)
LEMMA ActsAlone ==
  ASSUME ServedInv, Next, NEW p \in Proc, proc'[p].pc # proc[p].pc
  PROVE  CommandStep(p)
<1>1. ~UserStep
  BY DEF UserStep, EditPath, EditSetting, EditFiles, Edit
<1>2. PICK q \in Proc : CommandStep(q)
  BY <1>1 DEF Next
<1>3. Same(q)
  BY <1>2, BeginMoves, CheckMoves, WriteMoves, SwitchMoves, GoMoves, FinishMoves, SupportMoves
     DEF CommandStep, InstallStep, RemovalStep, Finishes
<1>4. QED BY <1>2, <1>3 DEF Same

(* The hook path only ever goes back to a value of the user's                  *)
(* (_source_repo_hook_items), unless a command died between the path and its   *)
(* record, or another wrote the path between them.                             *)
THEOREM HookPathGoesBack == Spec => PathGoesBack
<1>1. Init => PathInv
  BY DEF Init, PathInv, PathKnown, Known, Idle, Unrecorded, At
<1>2. ServedInv /\ HostTypes /\ PathInv /\ [Next]_vars => PathInv'
  <2>1. UNCHANGED vars /\ PathInv => PathInv'
    BY DEF vars, shared, ghosts, PathInv, PathKnown, Known, At
  <2>2. QED BY <2>1, UserPaths, CommandPath DEF Next
<1>3. ServedInv /\ HostTypes /\ PathInv /\ PathInv' /\ [Next]_vars =>
        [\A p \in Proc : Does(p, "path", "settings") /\ path' # path => path' \in users \/ "path" \in torn]_vars
  <2> SUFFICES ASSUME ServedInv, HostTypes, PathInv, Next, NEW p \in Proc, Does(p, "path", "settings"), path' # path
               PROVE  path' \in users \/ "path" \in torn
    OBVIOUS
  <2>1. CommandStep(p)
    BY ActsAlone, Zenon DEF Does, At
  <2>2. RestorePath(p)
    <3>1. ~Die(p)
      BY FinishMoves DEF Does, Finishes, Idle
    <3>2. QED
      BY <2>1, <3>1 DEF Does, At, CommandStep, InstallStep, RemovalStep, BeginInstall, BeginOther, Start, CheckSource,
         WritePath, WritePathRecord, Acquire, Recheck, PlaceTargets, SwitchOn, RecordSetting, RegisterHooks, WriteState,
         Repair, RemoveSelected, RemoveHooks, RestoreSettings, BackUp, RemoveSkill, ArchivePending, RemoveSupport,
         RemoveState, Kind
  <2>3. proc[p].host \in Host /\ state[proc[p].host] # None /\ path # None
    BY HostAssumption DEF Does, At, HostTypes, TypeOK, ServedInv, Jobs
  <2>4. path' = state[proc[p].host].path.before /\ path = state[proc[p].host].path.after
    BY <2>2 DEF RestorePath
  <2>5. users' = users
    BY <2>2 DEF RestorePath, ghosts
  <2>6. QED BY <2>3, <2>4, <2>5 DEF PathInv, PathKnown, Known
<1>4. QED BY <1>1, <1>2, <1>3, TypesInvariant, PTL DEF Spec, PathGoesBack


-----------------------------------------------------------------------------
(* Codex's settings. *)

LEMMA StillSettings ==
  ASSUME SettingInv, NEW p \in Proc, Same(p), UNCHANGED <<setting, theirs, sidecar, state>>, torn \subseteq torn',
         "settings" \notin torn' /\ proc[p].host = Codex /\ proc[p].pc \in Switching =>
           proc[p].pc # "flagged" /\ proc'[p].pc \in Switching /\ proc'[p].host = Codex,
         proc'[p].pc \notin {"flagged", "trust", "trusted"}, proc'[p].pc = "flag" => proc'[p].host = Codex,
         proc'[p].pc \in Restored => \/ proc[p].pc \in Restored /\ proc'[p].host = proc[p].host
                                     \/ state[proc'[p].host] = None
  PROVE  SettingInv'
<1>1. RecordsInv'
  BY DEF SettingInv, RecordsInv, Same, At
<1>2. CASE "settings" \in torn'
  BY <1>1, <1>2 DEF SettingInv
<1>3. CASE "settings" \notin torn'
  <2>1. FlagInv /\ BackInv
    BY <1>3 DEF SettingInv
  <2>2. InSidecar => InSidecar'
    BY <1>3 DEF InSidecar, Same, At, SettingInv, RecordsInv, Switching
  <2>3. InState => InState'
    BY <1>3 DEF InState, Same
  <2>4. \A q \in Proc : At(q, "flagged")' => q # p /\ At(q, "flagged") /\ proc'[q] = proc[q]
    BY DEF At, Same
  <2>5. FlagInv'
    BY <2>1, <2>2, <2>3, <2>4 DEF FlagInv, Agrees
  <2>6. BackInv'
    BY <2>1 DEF BackInv, Same
  <2>7. QED BY <1>1, <2>5, <2>6 DEF SettingInv
<1>4. QED BY <1>2, <1>3

LEMMA UserSettings ==
  ASSUME HostTypes, SettingInv, UserStep
  PROVE  SettingInv'
<1>1. UNCHANGED <<sidecar, state, proc, torn>>
  BY DEF UserStep, EditPath, EditSetting, EditFiles, Edit
<1>2. /\ \A w \in Checkout : setting'[w] = setting[w] /\ theirs'[w] = theirs[w]
      /\ theirs'["flag"] \in {theirs["flag"], None}
  BY ValueAssumption DEF UserStep, EditPath, EditSetting, EditFiles, Edit, HostTypes, TypeOK, Setting
<1>3. RecordsInv'
  BY <1>1, <1>2 DEF SettingInv, RecordsInv, At
<1>4. FlagInv => FlagInv'
  BY <1>1, <1>2 DEF FlagInv, Agrees, InSidecar, InState, At
<1>5. RecordsInv /\ BackInv => BackInv'
  <2> SUFFICES ASSUME RecordsInv, BackInv, NEW p \in Proc, proc[p].pc \in Restored, proc[p].host = Codex, state[Codex] # None
               PROVE  /\ UserHooks \/ theirs'["flag"] = None
                      /\ state[Codex].trust # None => theirs'[state[Codex].trust.of] = None
    BY <1>1 DEF BackInv
  <2>1. state[Codex].trust # None => state[Codex].trust.of \in Checkout
    BY HostAssumption DEF RecordsInv, AboutTrust
  <2>2. QED BY <1>2, <2>1 DEF BackInv
<1>6. QED BY <1>1, <1>3, <1>4, <1>5 DEF SettingInv

(* While one process is at a place under the lock, no other one is.            *)
LEMMA OthersOut ==
  ASSUME ServedInv, NEW p \in Proc, proc[p].pc \in Locked, Same(p), NEW q \in Proc, q # p
  PROVE  /\ proc[q].pc \notin Switching \cup Restored \cup {"flag"}
         /\ proc'[q].pc \notin Switching \cup Restored \cup {"flag"}
BY Alone DEF Same, Locked, Switching, Restored

LEMMA SwitchSettings ==
  ASSUME ServedInv, HostTypes, SettingInv, NEW p \in Proc, NEW k \in Kind, SwitchOn(p, k)
  PROVE  SettingInv'
<1> DEFINE s == SettingOf(p, k)
<1>1. /\ Same(p) /\ proc[p].pc = k /\ k \in {"flag", "trust"} /\ proc'[p].host = Codex /\ UNCHANGED <<sidecar, state, torn>>
      /\ s \in Setting /\ (k = "trust" => s \in Checkout) /\ (k = "flag" => s = "flag")
      /\ \/ setting[s] # "on" /\ proc'[p].pc = (IF k = "flag" THEN "flagged" ELSE "trusted") /\ proc'[p].before = setting[s]
         \/ setting[s] = "on" /\ proc'[p].pc = (IF k = "flag" THEN "trust" ELSE "hooks")
  <2>1. /\ Same(p) /\ proc[p].pc = k /\ k \in {"flag", "trust"} /\ proc[p].host = Codex /\ UNCHANGED <<sidecar, state, torn>>
    BY SwitchMoves DEF SwitchOn, At, Kind, ghosts, SettingInv, RecordsInv
  <2>2. s \in Setting /\ (k = "trust" => s \in Checkout) /\ (k = "flag" => s = "flag")
    BY <2>1 DEF SettingOf, Setting, HostTypes, Typed, Installs, Placed
  <2>3. ~RecordSetting(p, k)
    BY <2>1 DEF RecordSetting, At
  <2>4. QED BY <2>1, <2>2, <2>3, SwitchMoves
<1>2. \A q \in Proc : q # p => /\ proc[q].pc \notin Switching \cup Restored \cup {"flag"}
                               /\ proc'[q].pc \notin Switching \cup Restored \cup {"flag"}
  BY <1>1, OthersOut DEF Locked
<1>3. /\ \A x \in Setting : x # s => setting'[x] = setting[x] /\ theirs'[x] = theirs[x]
      /\ setting'[s] = "on" /\ theirs'[s] = (IF setting[s] = "on" THEN theirs[s] ELSE setting[s])
  BY <1>1 DEF SwitchOn, HostTypes, TypeOK
<1>4. \A w \in Checkout : setting'[w] \in {"missing", "on"} /\ theirs'[w] \in {"missing", None}
  BY <1>1, <1>3, ValueAssumption DEF SettingInv, RecordsInv, Setting
<1>5. RecordsInv'
  <2>1. \A q \in Proc : /\ proc'[q].pc \in {"flag", "flagged", "trust", "trusted"} => proc'[q].host = Codex
                        /\ At(q, "trusted")' => proc'[q].before = "missing"
    BY <1>1, <1>2 DEF At, Switching, SettingInv, RecordsInv
  <2>2. QED BY <1>1, <1>4, <2>1 DEF SettingInv, RecordsInv
<1>6. BackInv'
  BY <1>1, <1>2 DEF BackInv, Restored
<1>7. InState'
  BY <1>1 DEF InState, Switching
<1>8. FlagInv => FlagInv'
  <2>1. CASE k = "flag" /\ setting[s] # "on"
    <3>1. InSidecar'
      BY <1>1, <2>1 DEF InSidecar, At
    <3>2. \A q \in Proc : At(q, "flagged")' => q = p
      BY <1>2 DEF At, Switching
    <3>3. QED BY <1>1, <1>3, <1>7, <2>1, <3>1, <3>2 DEF FlagInv
  <2>2. CASE ~(k = "flag" /\ setting[s] # "on")
    <3>1. theirs'["flag"] = theirs["flag"]
      BY <1>1, <1>3, <2>2, ValueAssumption DEF Setting
    <3>2. ~InSidecar /\ \A q \in Proc : ~At(q, "flagged")'
      BY <1>1, <1>2, <2>2 DEF InSidecar, At, Switching
    <3>3. QED BY <1>1, <1>7, <3>1, <3>2 DEF FlagInv, Agrees
  <2>3. QED BY <2>1, <2>2
<1>9. QED BY <1>1, <1>5, <1>6, <1>8 DEF SettingInv

LEMMA RecordSettings ==
  ASSUME ServedInv, HostTypes, SettingInv, NEW p \in Proc, NEW k \in Kind, RecordSetting(p, k)
  PROVE  SettingInv'
<1> DEFINE b == [of |-> SettingOf(p, k), before |-> proc[p].before]
<1>1. /\ Same(p) /\ k \in {"flag", "trust"} /\ proc[p].pc = (IF k = "flag" THEN "flagged" ELSE "trusted")
      /\ proc'[p].pc = (IF k = "flag" THEN "trust" ELSE "hooks")
      /\ proc[p].host = Codex /\ proc'[p].host = Codex /\ UNCHANGED <<setting, theirs, state, torn>>
  <2>1. k \in {"flag", "trust"} /\ ~SwitchOn(p, k) /\ proc[p].host = Codex /\ UNCHANGED <<setting, theirs, state, torn>>
    BY DEF RecordSetting, SwitchOn, At, Kind, ghosts, SettingInv, RecordsInv
  <2>2. QED BY <2>1, SwitchMoves
<1>2. \A q \in Proc : q # p => /\ proc[q].pc \notin Switching \cup Restored \cup {"flag"}
                               /\ proc'[q].pc \notin Switching \cup Restored \cup {"flag"}
  BY <1>1, OthersOut DEF Locked
<1>3. sidecar'[k] = b /\ \A j \in Kind : j # k => sidecar'[j] = sidecar[j]
  BY DEF RecordSetting, HostTypes, TypeOK
<1>4. b # None /\ b.before = proc[p].before /\ b.of = SettingOf(p, k)
  <2>1. SettingOf(p, k) \in Setting /\ proc[p].before \in {"missing", "off"}
    BY <1>1 DEF SettingOf, Setting, HostTypes, Typed, Installs, Placed
  <2>2. QED BY <2>1, ValueAssumption DEF Before
<1>5. RecordsInv'
  <2>1. AboutFlag(sidecar["flag"])' /\ AboutTrust(sidecar["trust"])'
    <3>1. k = "flag" => b.of = "flag"
      BY <1>4 DEF SettingOf
    <3>2. k = "trust" => b.of \in Checkout /\ b.before = "missing"
      BY <1>1, <1>4 DEF SettingOf, HostTypes, Typed, Installs, Placed, SettingInv, RecordsInv, At
    <3>3. QED BY <1>1, <1>3, <3>1, <3>2 DEF Kind, AboutFlag, AboutTrust, SettingInv, RecordsInv
  <2>2. \A q \in Proc : /\ proc'[q].pc \in {"flag", "flagged", "trust", "trusted"} => proc'[q].host = Codex
                        /\ At(q, "trusted")' => proc'[q].before = "missing"
    BY <1>1, <1>2 DEF At, Switching
  <2>3. QED BY <1>1, <2>1, <2>2 DEF SettingInv, RecordsInv
<1>6. BackInv'
  BY <1>1, <1>2 DEF BackInv, Restored
<1>7. InState'
  BY <1>1 DEF InState, Switching
<1>8. \A q \in Proc : ~At(q, "flagged")'
  BY <1>1, <1>2 DEF At, Switching
<1>9. FlagInv => FlagInv'
  <2>1. CASE k = "flag"
    <3>1. FlagInv => Agrees(sidecar["flag"])'
      BY <1>1, <1>3, <1>4, <2>1 DEF FlagInv, Agrees, At
    <3>2. QED BY <1>3, <1>4, <1>7, <1>8, <2>1, <3>1 DEF FlagInv
  <2>2. CASE k # "flag"
    <3>1. ~InSidecar
      BY <1>1, <1>2, <2>2 DEF InSidecar, At, Switching
    <3>2. QED BY <1>1, <1>3, <1>7, <1>8, <2>2, <3>1 DEF FlagInv, Agrees, Kind
  <2>3. QED BY <2>1, <2>2
<1>10. QED BY <1>1, <1>5, <1>6, <1>9 DEF SettingInv

LEMMA StateSettings ==
  ASSUME ServedInv, HostTypes, SettingInv, NEW p \in Proc, WriteState(p) \/ RemoveState(p)
  PROVE  SettingInv'
<1> DEFINE h == proc[p].host
<1>1. /\ Same(p) /\ proc'[p] = Idle /\ proc[p].pc \in {"state", "manifest"} /\ h \in Host
      /\ UNCHANGED <<setting, theirs, sidecar, torn>>
  BY FinishMoves DEF Finishes, WriteState, RemoveState, At, ServedInv, Jobs, codex, ghosts
<1>2. \A q \in Proc : q # p => /\ proc[q].pc \notin Switching \cup Restored \cup {"flag"}
                               /\ proc'[q].pc \notin Switching \cup Restored \cup {"flag"}
  BY <1>1, OthersOut DEF Locked
<1>3. proc'[p].pc = "idle"
  BY <1>1 DEF Idle
<1>4. \A q \in Proc : proc'[q].pc \notin Switching \cup Restored \cup {"flag"}
  BY <1>2, <1>3 DEF Switching, Restored
<1>5. ~InSidecar /\ ~InSidecar' /\ \A q \in Proc : ~At(q, "flagged")'
  BY <1>1, <1>2, <1>4 DEF InSidecar, At, Switching
<1>6. /\ \A g \in Host : g # h => state'[g] = state[g]
      /\ RemoveState(p) => state'[h] = None
      /\ WriteState(p) /\ h = Codex => state'[h] # None /\ state'[h].flag = sidecar["flag"] /\ state'[h].trust = sidecar["trust"]
      /\ WriteState(p) /\ h # Codex => state'[h].flag = None /\ state'[h].trust = None
  <2>1. CASE WriteState(p)
    <3>1. proc[p].change \in Change \cup {Unrecorded} /\ sidecar["flag"] \in Before \cup {None} /\ sidecar["trust"] \in Before \cup {None}
      BY DEF HostTypes, TypeOK, Typed, Kind
    <3>2. \E v \in State : /\ state' = [state EXCEPT ![h] = v]
                           /\ h = Codex => v.flag = sidecar["flag"] /\ v.trust = sidecar["trust"]
                           /\ h # Codex => v.flag = None /\ v.trust = None
      <4> DEFINE Written(flag, trust) == [path |-> proc[p].change, flag |-> flag, trust |-> trust]
      <4>1. CASE h = Codex
        <5>1. state' = [state EXCEPT ![h] = Written(sidecar["flag"], sidecar["trust"])]
          BY <2>1, <4>1 DEF WriteState
        <5>2. Written(sidecar["flag"], sidecar["trust"]) \in State
          BY <3>1 DEF State
        <5>3. QED BY <4>1, <5>1, <5>2
      <4>2. CASE h # Codex
        <5>1. state' = [state EXCEPT ![h] = Written(None, None)]
          BY <2>1, <4>2 DEF WriteState
        <5>2. Written(None, None) \in State
          BY <3>1 DEF State
        <5>3. QED BY <4>2, <5>1, <5>2
      <4>3. QED BY <4>1, <4>2
    <3>3. ~RemoveState(p)
      BY <2>1 DEF WriteState, RemoveState, At
    <3>4. QED BY <1>1, <3>2, <3>3, ValueAssumption DEF HostTypes, TypeOK
  <2>2. CASE RemoveState(p)
    <3>1. ~WriteState(p)
      BY <2>2 DEF WriteState, RemoveState, At
    <3>2. QED BY <1>1, <2>2, <3>1 DEF RemoveState, HostTypes, TypeOK
  <2>3. QED BY <2>1, <2>2
<1>7. RecordsInv'
  <2>1. ASSUME NEW g \in Host, state'[g] # None
        PROVE  /\ AboutFlag(state'[g].flag) /\ AboutTrust(state'[g].trust)
               /\ g # Codex => state'[g].flag = None /\ state'[g].trust = None
    BY <1>6, <2>1 DEF SettingInv, RecordsInv, AboutFlag, AboutTrust
  <2>2. QED BY <1>1, <1>4, <2>1 DEF SettingInv, RecordsInv, At, Switching
<1>8. BackInv'
  BY <1>4 DEF BackInv
<1>9. FlagInv /\ BackInv => FlagInv'
  <2> SUFFICES ASSUME FlagInv, BackInv
               PROVE  /\ state'[Codex] # None => Agrees(state[Codex].flag)'
                      /\ UserHooks \/ (theirs["flag"] # None => state'[Codex] # None /\ state'[Codex].flag # None)
    BY <1>1, <1>5 DEF FlagInv, Agrees
  <2>1. CASE h = Codex /\ WriteState(p)
    <3>1. ~RemoveState(p)
      BY <2>1 DEF WriteState, RemoveState, At
    <3>2. QED BY <1>1, <1>5, <1>6, <2>1, <3>1 DEF FlagInv, Agrees
  <2>2. CASE h = Codex /\ RemoveState(p)
    <3>1. proc[p].pc = "manifest" /\ ~WriteState(p)
      BY <2>2 DEF WriteState, RemoveState, At
    <3>2. ~InState
      BY <1>2, <3>1 DEF InState, Switching
    <3>3. UserHooks \/ theirs["flag"] = None
      BY <2>2, <3>1, <3>2 DEF FlagInv, BackInv, Restored
    <3>4. QED BY <1>1, <1>6, <2>2, <3>1, <3>3
  <2>3. CASE h # Codex
    <3>1. ~InState
      BY <1>2, <2>3 DEF InState
    <3>2. state'[Codex] = state[Codex]
      BY <1>6, <2>3, HostAssumption
    <3>3. QED BY <1>1, <3>1, <3>2 DEF FlagInv, Agrees
  <2>4. QED BY <2>1, <2>2, <2>3
<1>10. QED BY <1>1, <1>7, <1>8, <1>9 DEF SettingInv


LEMMA RestoredSettings ==
  ASSUME ServedInv, HostTypes, SettingInv, NEW p \in Proc, RestoreSettings(p)
  PROVE  /\ SettingInv'
         /\ "settings" \in torn \/ \A s \in Setting : setting'[s] # setting[s] => theirs[s] \in {setting'[s], None}
<1> DEFINE h == proc[p].host
           back == Returned(state[h])
<1>1. /\ Same(p) /\ proc[p].pc = "settings" /\ proc'[p].pc = "skill" /\ proc'[p].host = h /\ h \in Host
      /\ UNCHANGED <<sidecar, state, torn>> /\ state[h] \in State /\ state[h] # None
  BY GoMoves DEF RestoreSettings, Goes, Keeps, ServedInv, Jobs, ghosts, HostTypes, TypeOK
<1>2. \A q \in Proc : q # p => /\ proc[q].pc \notin Switching \cup Restored \cup {"flag"}
                               /\ proc'[q].pc \notin Switching \cup Restored \cup {"flag"}
  BY <1>1, OthersOut DEF Locked
<1>3. ~InSidecar /\ ~InState /\ \A q \in Proc : ~At(q, "flagged")'
  BY <1>1, <1>2 DEF InSidecar, InState, At, Switching
<1>4. /\ AboutFlag(state[h].flag) /\ AboutTrust(state[h].trust)
      /\ h # Codex => state[h].flag = None /\ state[h].trust = None
  BY <1>1 DEF SettingInv, RecordsInv
<1>5. ASSUME NEW x \in Setting
      PROVE  \/ /\ ~(\E b \in back : b.of = x) /\ setting'[x] = setting[x] /\ theirs'[x] = theirs[x]
                /\ x = "flag" => UserHooks \/ state[h].flag = None
                /\ state[h].trust # None => state[h].trust.of # x
             \/ \E b \in back : /\ b.of = x /\ setting'[x] = b.before /\ theirs'[x] = None
                                /\ x = "flag" => b = state[h].flag /\ b # None
                                /\ x # "flag" => b = state[h].trust /\ b # None
  <2>1. /\ setting'[x] = (IF \E b \in back : b.of = x THEN (CHOOSE b \in back : b.of = x).before ELSE setting[x])
        /\ theirs'[x] = (IF \E b \in back : b.of = x THEN None ELSE theirs[x])
    BY DEF RestoreSettings
  <2>2. CASE \E b \in back : b.of = x
    <3>1. PICK b \in back : b.of = x /\ setting'[x] = b.before
      BY <2>1, <2>2
    <3>2. b # None /\ (b = state[h].flag \/ b = state[h].trust)
      BY DEF Returned
    <3>3. /\ x = "flag" => b = state[h].flag
          /\ x # "flag" => b = state[h].trust
      BY <1>4, <3>1, <3>2, ValueAssumption DEF AboutFlag, AboutTrust
    <3>4. QED BY <2>1, <2>2, <3>1, <3>2, <3>3
  <2>3. CASE ~\E b \in back : b.of = x
    <3>1. x = "flag" => UserHooks \/ state[h].flag = None
      BY <1>4, <2>3 DEF Returned, AboutFlag
    <3>2. state[h].trust # None => state[h].trust.of # x
      BY <2>3 DEF Returned
    <3>3. QED BY <2>1, <2>3, <3>1, <3>2
  <2>4. QED BY <2>2, <2>3
<1>6. "flag" \in Setting /\ Checkout \subseteq Setting /\ "flag" \notin Checkout
  BY ValueAssumption DEF Setting
<1>7. RecordsInv'
  <2>1. \A w \in Checkout : setting'[w] \in {"missing", "on"} /\ theirs'[w] \in {"missing", None}
    BY <1>4, <1>5, <1>6 DEF SettingInv, RecordsInv, AboutTrust
  <2>2. QED BY <1>1, <1>2, <2>1 DEF SettingInv, RecordsInv, At, Switching
<1>8. theirs'["flag"] \in {theirs["flag"], None}
  BY <1>5, <1>6
<1>9. FlagInv => FlagInv'
  BY <1>1, <1>3, <1>8 DEF FlagInv, Agrees
<1>10. FlagInv => BackInv'
  <2> SUFFICES ASSUME FlagInv, h = Codex
               PROVE  /\ UserHooks \/ theirs'["flag"] = None
                      /\ state[Codex].trust # None => theirs'[state[Codex].trust.of] = None
    BY <1>1, <1>2 DEF BackInv
  <2>1. UserHooks \/ theirs'["flag"] = None
    BY <1>1, <1>3, <1>5, <1>6 DEF FlagInv
  <2>2. state[Codex].trust # None => theirs'[state[Codex].trust.of] = None
    BY <1>4, <1>5, <1>6 DEF AboutTrust
  <2>3. QED BY <2>1, <2>2
<1>11. ASSUME FlagInv, NEW s \in Setting, setting'[s] # setting[s]
       PROVE  theirs[s] \in {setting'[s], None}
  <2>1. h = Codex
    BY <1>4, <1>5, <1>11
  <2>2. CASE s = "flag"
    BY <1>1, <1>3, <1>5, <1>11, <2>1, <2>2 DEF FlagInv, Agrees
  <2>3. CASE s # "flag"
    BY <1>4, <1>5, <1>11, <2>3 DEF Setting, SettingInv, RecordsInv, AboutTrust
  <2>4. QED BY <2>2, <2>3
<1>12. QED BY <1>1, <1>7, <1>9, <1>10, <1>11 DEF SettingInv

LEMMA SidecarSettings ==
  ASSUME ServedInv, HostTypes, SettingInv, NEW p \in Proc, RemoveSupport(p), sidecar' # sidecar
  PROVE  SettingInv'
<1>1. /\ Same(p) /\ proc[p].pc = "sidecars" /\ proc'[p].pc = "manifest" /\ proc[p].host = Codex /\ proc'[p].host = Codex
      /\ sidecar' = [k \in Kind |-> None] /\ UNCHANGED <<setting, theirs, state, torn>>
  <2>1. At(p, "sidecars") /\ proc[p].host = Codex /\ sidecar' = [k \in Kind |-> None]
    BY SupportSidecar
  <2>2. QED BY <2>1, SupportMoves DEF RemoveSupport, At, Keeps
<1>2. \A q \in Proc : q # p => /\ proc[q].pc \notin Switching \cup Restored \cup {"flag"}
                               /\ proc'[q].pc \notin Switching \cup Restored \cup {"flag"}
  BY <1>1, OthersOut DEF Locked
<1>3. ~InState /\ \A q \in Proc : ~At(q, "flagged")'
  BY <1>1, <1>2 DEF InState, At, Switching
<1>4. sidecar'["flag"] = None /\ sidecar'["trust"] = None
  BY <1>1 DEF Kind
<1>5. RecordsInv'
  BY <1>1, <1>2, <1>4 DEF SettingInv, RecordsInv, AboutFlag, AboutTrust, At, Switching
<1>6. BackInv => BackInv'
  BY <1>1, <1>2 DEF BackInv, Restored
<1>7. FlagInv /\ BackInv => FlagInv'
  <2> SUFFICES ASSUME FlagInv, BackInv PROVE FlagInv'
    OBVIOUS
  <2>1. UserHooks \/ theirs["flag"] = None
    BY <1>1, <1>3 DEF FlagInv, BackInv, Restored
  <2>2. QED BY <1>1, <1>3, <1>4, <2>1 DEF FlagInv, Agrees
<1>8. QED BY <1>1, <1>5, <1>6, <1>7 DEF SettingInv

LEMMA CommandSettings ==
  ASSUME ServedInv, HostTypes, SettingInv, NEW p \in Proc, CommandStep(p)
  PROVE  SettingInv'
<1> USE DEF codex, ghosts
<1>1. CASE \/ \E g \in Host, w \in Checkout : BeginInstall(p, g, w)
           \/ \E g \in Host, does \in {"repair", "selected", "unhook"} : BeginOther(p, g, does)
  <2>1. Same(p) /\ proc[p].pc = "idle" /\ proc'[p].pc \in {"check", "lock"}
    BY <1>1, BeginMoves DEF Begun
  <2>2. UNCHANGED <<setting, theirs, sidecar, state, torn>>
    BY <1>1 DEF BeginInstall, BeginOther, Start
  <2>3. QED BY <2>1, <2>2, StillSettings DEF Switching, Restored
<1>2. CASE CheckSource(p) \/ Acquire(p) \/ Recheck(p)
  <2>1. Same(p) /\ proc[p].pc \in {"check", "lock", "recheck"}
    BY <1>2, CheckMoves DEF CheckSource, Acquire, Recheck, At
  <2>2. proc'[p].pc \in {"idle", "git", "recheck", "place", "none", "repair", "selected", "unhook"}
    BY <1>2, CheckMoves DEF Idle, Goes, ServedInv, Jobs, Job
  <2>3. UNCHANGED <<setting, theirs, sidecar, state, torn>>
    BY <1>2 DEF CheckSource, Acquire, Recheck
  <2>4. QED BY <2>1, <2>2, <2>3, StillSettings DEF Switching, Restored
<1>3. CASE WritePath(p) \/ WritePathRecord(p) \/ PlaceTargets(p)
  <2>1. Same(p) /\ proc[p].pc \in {"git", "record", "place"} /\ proc'[p].pc \in {"lock", "record", "flag", "hooks"}
        /\ (proc'[p].pc = "flag" => proc'[p].host = Codex)
    BY <1>3, WriteMoves, GoMoves DEF Goes, Keeps
  <2>2. UNCHANGED <<setting, theirs, sidecar, state>> /\ torn \subseteq torn'
    BY <1>3 DEF WritePath, WritePathRecord, PlaceTargets
  <2>3. QED BY <2>1, <2>2, StillSettings DEF Switching, Restored
<1>4. CASE RegisterHooks(p) \/ RemoveHooks(p) \/ RestorePath(p)
  <2>1. /\ Same(p) /\ proc[p].pc \in {"hooks", "unhook", "path"} /\ proc'[p].host = proc[p].host
        /\ proc[p].pc = "hooks" => proc'[p].pc = "state"
        /\ proc'[p].pc \in {"state", "path", "settings"} \/ (proc'[p].pc = "pending" /\ state[proc[p].host] = None)
    BY <1>4, GoMoves DEF Goes, Keeps
  <2>2. UNCHANGED <<setting, theirs, sidecar, state, torn>>
    BY <1>4 DEF RegisterHooks, RemoveHooks, RestorePath
  <2>3. QED BY <2>1, <2>2, StillSettings DEF Switching, Restored
<1>5. CASE BackUp(p) \/ RemoveSkill(p) \/ ArchivePending(p)
  <2>1. Same(p) /\ proc[p].pc \in Restored /\ proc'[p].pc \in Restored /\ proc'[p].host = proc[p].host
    BY <1>5, GoMoves DEF Goes, Keeps, Restored
  <2>2. UNCHANGED <<setting, theirs, sidecar, state, torn>>
    BY <1>5 DEF BackUp, RemoveSkill, ArchivePending
  <2>3. QED BY <2>1, <2>2, StillSettings DEF Switching, Restored
<1>6. CASE RemoveSupport(p) /\ sidecar' = sidecar
  <2>1. Same(p) /\ proc[p].pc \in Restored /\ proc'[p].pc \in Restored /\ proc'[p].host = proc[p].host
    BY <1>6, SupportMoves DEF Keeps, Restored
  <2>2. UNCHANGED <<setting, theirs, sidecar, state>> /\ torn \subseteq torn'
    BY <1>6 DEF RemoveSupport
  <2>3. QED BY <2>1, <2>2, StillSettings DEF Switching, Restored
<1>7. CASE Repair(p) \/ RemoveSelected(p)
  <2>1. Same(p) /\ proc'[p] = Idle
    BY <1>7, FinishMoves DEF Finishes
  <2>2. proc[p].pc \in {"repair", "selected"} /\ UNCHANGED <<setting, theirs, sidecar, state, torn>>
    BY <1>7 DEF Repair, RemoveSelected, At
  <2>3. proc'[p].pc = "idle"
    BY <2>1 DEF Idle
  <2>4. QED BY <2>1, <2>2, <2>3, StillSettings DEF Switching, Restored
<1>8. CASE Die(p)
  <2>1. Same(p) /\ proc'[p] = Idle
    BY <1>8, FinishMoves DEF Finishes
  <2>2. /\ UNCHANGED <<setting, theirs, sidecar, state>> /\ torn \subseteq torn'
        /\ proc[p].host = Codex /\ proc[p].pc \in Switching => "settings" \in torn'
    BY <1>8 DEF Die, Switching
  <2>3. proc'[p].pc = "idle"
    BY <2>1 DEF Idle
  <2>4. QED BY <2>1, <2>2, <2>3, StillSettings DEF Restored
<1>9. QED
  BY <1>1, <1>2, <1>3, <1>4, <1>5, <1>6, <1>7, <1>8, SwitchSettings, RecordSettings, StateSettings, RestoredSettings,
     SidecarSettings DEF CommandStep, InstallStep, RemovalStep

(* The removal of Codex gives each setting that an install switched on, and    *)
(* the user has not touched since, its value back and leaves none              *)
(* (_codex_hook_feature_item, _codex_project_trust_item), unless an install    *)
(* died between the setting and the record of it.                              *)
THEOREM CodexSettingsGoBack == Spec => SettingsGoBack
<1>1. Init => SettingInv
  <2>1. Init => RecordsInv
    BY ValueAssumption DEF Init, RecordsInv, AboutFlag, AboutTrust, Idle, At, Setting, Kind
  <2>2. Init => FlagInv /\ BackInv
    BY DEF Init, FlagInv, BackInv, Agrees, Idle, At, Restored, Setting, Kind
  <2>3. QED BY <2>1, <2>2 DEF SettingInv
<1>2. ServedInv /\ HostTypes /\ SettingInv /\ [Next]_vars => SettingInv'
  <2>1. UNCHANGED vars /\ SettingInv => SettingInv'
    BY DEF vars, codex, ghosts, SettingInv, RecordsInv, FlagInv, BackInv, InSidecar, InState, At, Agrees
  <2>2. QED BY <2>1, UserSettings, CommandSettings DEF Next
<1>3. ServedInv /\ HostTypes /\ SettingInv /\ [Next]_vars =>
  [\A p \in Proc :
       /\ Does(p, "settings", "skill") => \A s \in Setting :
            setting'[s] # setting[s] => "settings" \in torn \/ theirs[s] \in {setting'[s], None}
       /\ At(p, "manifest") /\ state'[Codex] # state[Codex] => \A s \in Setting :
            theirs[s] = None \/ "settings" \in torn \/ (s = "flag" /\ UserHooks) \/ s \in Checkout \ TrustRecorded]_vars
  <2> SUFFICES ASSUME ServedInv, HostTypes, SettingInv, Next, NEW p \in Proc, NEW s \in Setting
               PROVE  /\ Does(p, "settings", "skill") /\ setting'[s] # setting[s] =>
                           "settings" \in torn \/ theirs[s] \in {setting'[s], None}
                      /\ At(p, "manifest") /\ state'[Codex] # state[Codex] =>
                           theirs[s] = None \/ "settings" \in torn \/ (s = "flag" /\ UserHooks) \/ s \in Checkout \ TrustRecorded
    OBVIOUS
  <2>1. ASSUME Does(p, "settings", "skill") PROVE RestoreSettings(p)
    <3>1. CommandStep(p)
      BY <2>1, ActsAlone, Zenon DEF Does, At
    <3>2. ~Die(p)
      BY <2>1, FinishMoves DEF Does, Finishes, Idle
    <3>3. QED
      BY <2>1, <3>1, <3>2 DEF Does, At, CommandStep, InstallStep, RemovalStep, BeginInstall, BeginOther, Start, CheckSource,
         WritePath, WritePathRecord, Acquire, Recheck, PlaceTargets, SwitchOn, RecordSetting, RegisterHooks, WriteState,
         Repair, RemoveSelected, RemoveHooks, RestorePath, BackUp, RemoveSkill, ArchivePending, RemoveSupport,
         RemoveState, Kind
  <2>2. ASSUME At(p, "manifest"), state'[Codex] # state[Codex], "settings" \notin torn
        PROVE  theirs[s] = None \/ (s = "flag" /\ UserHooks) \/ s \in Checkout \ TrustRecorded
    <3>1. PICK q \in Proc : WriteState(q) \/ RemoveState(q)
      <4>1. ~UserStep
        BY <2>2 DEF UserStep, EditPath, EditSetting, EditFiles, Edit
      <4>2. ASSUME NEW q \in Proc, CommandStep(q), ~(WriteState(q) \/ RemoveState(q)) PROVE state' = state
        BY <4>2 DEF CommandStep, InstallStep, RemovalStep, BeginInstall, BeginOther, Start, CheckSource,
           WritePath, WritePathRecord, Acquire, Recheck, PlaceTargets, SwitchOn, RecordSetting, RegisterHooks,
           Repair, RemoveSelected, RemoveHooks, RestorePath, RestoreSettings, BackUp, RemoveSkill, ArchivePending,
           RemoveSupport, Die
      <4>3. QED BY <2>2, <4>1, <4>2 DEF Next
    <3>2. q = p
      BY <2>2, <3>1, Alone DEF WriteState, RemoveState, At, Locked
    <3>3. state[Codex] # None /\ proc[p].host = Codex
      <4>1. RemoveState(p) /\ state \in [Host -> State \cup {None}]
        BY <2>2, <3>1, <3>2 DEF WriteState, At, HostTypes, TypeOK
      <4>2. state' = [state EXCEPT ![proc[p].host] = None]
        BY <4>1 DEF RemoveState
      <4>3. QED BY <2>2, <4>1, <4>2, HostAssumption
    <3>4. UserHooks \/ theirs["flag"] = None
      BY <2>2, <3>3 DEF SettingInv, BackInv, At, Restored
    <3>5. s \in TrustRecorded => theirs[s] = None
      <4> SUFFICES ASSUME NEW h \in Host, state[h] # None, state[h].trust # None, s = state[h].trust.of
                   PROVE  theirs[s] = None
        BY DEF TrustRecorded
      <4>1. h = Codex
        BY DEF SettingInv, RecordsInv
      <4>2. QED BY <2>2, <3>3, <4>1 DEF SettingInv, BackInv, At, Restored
    <3>6. QED BY <3>4, <3>5 DEF Setting
  <2>3. QED BY <2>1, <2>2, RestoredSettings
<1>4. QED BY <1>1, <1>2, <1>3, TypesInvariant, PTL DEF Spec, SettingsGoBack

=============================================================================
