--------------------------- MODULE InstallPublish ---------------------------
(***************************************************************************)
(* The publish transaction of the installer                                *)
(* (_shared/install_transaction.py), the commands that run it under the    *)
(* install lock (_shared/installer/transaction.py, installer/cli.py) and   *)
(* the recovery of unfinished publishes by the next command                *)
(* (installer/lock.py).                                                    *)
(*                                                                         *)
(* One command runs at a time (module InstallLock says when that is so).   *)
(* A command first recovers the unfinished publishes, then makes publishes *)
(* one after the other.  It may die at every step; what it held in memory  *)
(* (pc, item, todo, plan, exit ...) is lost then and the disk stays: the   *)
(* install locations, the staged files, the kept originals, the journals   *)
(* and the install record.                                                 *)
(*                                                                         *)
(* Somebody else may change an install location at any time (Edit).        *)
(*                                                                         *)
(* A file is its content and an identity, the inode of the code: 0 for a   *)
(* file that was there from the start, k for one that publish k staged, -n *)
(* for the n-th edit.  Links are links to a checkout, which are removed in *)
(* one step; Trees are copied folders, whose removal passes through a      *)
(* partly removed folder.                                                  *)
(***************************************************************************)
EXTENDS Integers, FiniteSets

CONSTANTS
  NTargets,   \* the install locations 1..NTargets, in request order
  Links,      \* the links a publish may place: one for each checkout
  Trees,      \* the versions of a copied folder
  None,       \* nothing there
  Partial,    \* what a cut-short rmtree leaves of a folder
  Unreadable, \* an install record of another schema version
  MaxTx,      \* bound: publishes begun
  Keep,       \* finished rollback folders that stay
  MaxCrashes, \* bound: commands that die
  MaxFaults,  \* bound: operating-system or participant failures
  MaxEdits    \* bound: changes somebody else makes

Target == 1..NTargets
Tx == 1..MaxTx
Content == Links \cup Trees \cup {Partial}
Seen == Content \cup {None}
File == [c : Content, id : Int]
Slot == File \cup {None}
RecordValue == [Target -> Seen] \cup {Unreadable}

ASSUME PublishAssumption ==
  /\ NTargets \in Nat \ {0}
  /\ MaxTx \in Nat /\ Keep \in Nat /\ MaxCrashes \in Nat /\ MaxFaults \in Nat /\ MaxEdits \in Nat
  /\ Links \cap Trees = {} /\ Partial \notin Links \cup Trees
  /\ None \notin Content \cup File
  /\ Unreadable \notin [Target -> Seen]
  /\ "foreign" \notin Seen

VARIABLES
  \* on disk
  dest,     \* the install locations
  stage,    \* the staged copy or link of each publish and target
  kept,     \* the replaced original of each publish and target, under rollbacks/<txid>
  journal,  \* rollbacks/<txid>/journal.json and the saved record beside it
  record,   \* installed-payload.json: the content recorded for each location
  \* in the memory of the running command
  pc,       \* where it is
  tx,       \* the publish it makes: publishes are numbered as they begin
  request,  \* what it was asked for: kind, targets and their source content
  item,     \* ReplacementBatch.prepared
  todo,     \* the targets the running loop has left
  rec,      \* the publish the command recovers
  plan,     \* the actions of that recovery
  exit,     \* exit code of the last publish, 0 while there is no failure
  \* history
  unseen,   \* locations edited since the program last compared all of them
  touched,  \* locations edited since the last publish began
  overlaid, \* a publish began while an earlier one was unfinished
  crashes, faults, edits

disk == <<dest, stage, kept, journal, record>>
memory == <<tx, request, item, todo, rec, plan, exit>>
history == <<unseen, touched, overlaid>>
bounds == <<crashes, faults, edits>>
vars == <<dest, stage, kept, journal, record, pc, tx, request, item, todo, rec, plan, exit,
          unseen, touched, overlaid, crashes, faults, edits>>

----------------------------------------------------------------------------
(* Values *)

Phase == {"absent", "prepare", "done", "restored"}
Action == {"none", "put-back", "replace", "remove", "stuck"}
Journals == [phase : Phase, staged : BOOLEAN, targets : SUBSET Target,
             before : [Target -> Seen], candidate : [Target -> Seen], record : RecordValue]
Requests == [kind : {"link", "current", "copy"}, targets : SUBSET Target, content : Seen]
Item == [on : BOOLEAN, before : Slot, candidate : Slot, moved : BOOLEAN, after : Slot]

RecoverPlace == {"recover", "undo", "undo-rm", "undo-mark", "undo-stages"}
RestorePlace == {"before-restore", "check-restore", "restore", "restore-rm", "restore-put", "restore-mark",
                 "after-restore"}
PublishPlace == {"stage", "before-publish", "check", "move", "move-in", "after-publish", "finish", "retain",
                 "cleanup"} \cup RestorePlace
Place == {"idle", "ready"} \cup RecoverPlace \cup PublishPlace

(* content_digest.state: what recovery compares. *)
ContentOf(slot) == IF slot = None THEN None ELSE slot.c

NoSlots == [t \in Target |-> None]
NoJournal == [phase |-> "absent", staged |-> FALSE, targets |-> {},
              before |-> NoSlots, candidate |-> NoSlots, record |-> Unreadable]
NoItem == [on |-> FALSE, before |-> None, candidate |-> None, moved |-> FALSE, after |-> None]
NoItems == [t \in Target |-> NoItem]
NoPlan == [t \in Target |-> "none"]
NoRequest == [kind |-> "copy", targets |-> {}, content |-> None]

(* Journals that say neither done nor restored. *)
Unfinished == {k \in Tx : journal[k].phase = "prepare"}
Finished == {k \in Tx : journal[k].phase \in {"done", "restored"}}

(* The loops go through the targets in request order, the restores back. *)
First(t) == t \in todo /\ \A u \in todo : t <= u
Last(t) == t \in todo /\ \A u \in todo : u <= t

(* The memory of a command that ended or died. *)
Forget ==
  /\ request' = NoRequest
  /\ item' = NoItems
  /\ todo' = {}
  /\ rec' = 0
  /\ plan' = NoPlan
  /\ exit' = 0

Goto(place) == pc' = place

(* An operating-system or participant failure, within its bound. *)
Fault == faults < MaxFaults /\ faults' = faults + 1 /\ UNCHANGED <<crashes, edits>>
NoFault == UNCHANGED bounds

Init ==
  /\ dest \in [Target -> {None} \cup [c : Links \cup Trees, id : {0}]]
  /\ stage = [k \in Tx |-> NoSlots]
  /\ kept = [k \in Tx |-> NoSlots]
  /\ journal = [k \in Tx |-> NoJournal]
  /\ record \in {[t \in Target |-> ContentOf(dest[t])], Unreadable}
  /\ pc = "idle"
  /\ tx = 0
  /\ request = NoRequest
  /\ item = NoItems
  /\ todo = {}
  /\ rec = 0
  /\ plan = NoPlan
  /\ exit = 0
  /\ unseen = {} /\ touched = {} /\ overlaid = FALSE
  /\ crashes = 0 /\ faults = 0 /\ edits = 0

----------------------------------------------------------------------------
(* The command takes the lock and recovers the unfinished publishes. *)

StartCommand ==
  /\ pc = "idle"
  /\ Goto("recover")
  /\ UNCHANGED <<disk, memory, history, bounds>>

(* Mutant of RecoveryAction: the candidate is looked for before the         *)
(* original, which is the same where a version was installed again.        *)
CandidateFirst(k, t) ==
  LET j == journal[k]
      current == ContentOf(dest[t])
  IN  IF ~j.staged \/ (kept[k][t] = None /\ current = None) THEN "none"
      ELSE IF kept[k][t] # None
           THEN IF current = None THEN "put-back" ELSE IF current = j.candidate[t] THEN "replace" ELSE "stuck"
      ELSE IF current = j.candidate[t] THEN "remove"
      ELSE IF current = j.before[t] THEN "none" ELSE "stuck"

(* Mutant of RecoveryAction: whatever is at the location is replaced by    *)
(* the kept original.                                                      *)
ReplaceAnything(k, t) ==
  LET j == journal[k]
      current == ContentOf(dest[t])
  IN  IF ~j.staged THEN "none"
      ELSE IF kept[k][t] # None THEN IF current = None THEN "put-back" ELSE "replace"
      ELSE IF current = j.before[t] THEN "none"
      ELSE IF current = j.candidate[t] /\ j.before[t] = None THEN "remove" ELSE "stuck"

(* _recovery_action: what restores target t of publish k. *)
RecoveryAction(k, t) ==
  LET j == journal[k]
      current == ContentOf(dest[t])
  IN  IF ~j.staged THEN "none"
      ELSE IF kept[k][t] # None
           THEN IF current = None THEN "put-back"
                ELSE IF current = j.candidate[t] THEN "replace" ELSE "stuck"
      ELSE IF j.before[t] = None
           THEN IF current = None THEN "none"
                ELSE IF current = j.candidate[t] THEN "remove" ELSE "stuck"
      ELSE IF current = j.before[t] THEN "none" ELSE "stuck"

Newest(k) == k \in Unfinished /\ \A m \in Unfinished : m <= k

(* Every target is checked before any changes. *)
RecoverCheck(k) ==
  /\ pc = "recover" /\ Newest(k)
  /\ \A t \in journal[k].targets : RecoveryAction(k, t) # "stuck"
  /\ rec' = k
  /\ plan' = [t \in Target |-> IF t \in journal[k].targets THEN RecoveryAction(k, t) ELSE "none"]
  /\ todo' = {t \in journal[k].targets : RecoveryAction(k, t) # "none"}
  /\ unseen' = {}
  /\ Goto("undo")
  /\ UNCHANGED <<disk, tx, request, item, exit, touched, overlaid, bounds>>

(* The publish cannot be restored: the command releases the lock and stops. *)
RecoverRefused(k) ==
  /\ pc = "recover" /\ Newest(k)
  /\ \E t \in journal[k].targets : RecoveryAction(k, t) = "stuck"
  /\ Goto("idle")
  /\ Forget
  /\ UNCHANGED <<disk, tx, history, bounds>>

(* _remove_path of location t: a link goes in one step (next place `gone`), *)
(* a folder is first partly removed (next place `partly`).                  *)
StartRemoval(t, gone, partly) ==
  IF dest[t].c \in Links
    THEN dest' = [dest EXCEPT ![t] = None] /\ Goto(gone)
    ELSE dest' = [dest EXCEPT ![t].c = Partial] /\ Goto(partly)

(* The actions of the plan that follow a removal. *)
Removed(t) ==
  /\ plan' = [plan EXCEPT ![t] = IF @ = "replace" THEN "put-back" ELSE "none"]
  /\ todo' = IF plan[t] = "replace" THEN todo ELSE todo \ {t}

UndoRemove(t) ==
  /\ pc = "undo" /\ Last(t) /\ plan[t] \in {"replace", "remove"}
  /\ dest[t] # None
  /\ StartRemoval(t, "undo", "undo-rm")
  /\ IF dest[t].c \in Links THEN Removed(t) ELSE UNCHANGED <<plan, todo>>
  /\ UNCHANGED <<stage, kept, journal, record, tx, request, item, rec, exit, history, bounds>>

UndoRemoved(t) ==
  /\ pc = "undo-rm" /\ Last(t) /\ ContentOf(dest[t]) = Partial
  /\ dest' = [dest EXCEPT ![t] = None]
  /\ Removed(t)
  /\ Goto("undo")
  /\ UNCHANGED <<stage, kept, journal, record, tx, request, item, rec, exit, history, bounds>>

(* The kept original is renamed back to its location. *)
UndoPutBack(t) ==
  /\ pc = "undo" /\ Last(t) /\ plan[t] = "put-back"
  /\ dest[t] = None
  /\ dest' = [dest EXCEPT ![t] = kept[rec][t]]
  /\ kept' = [kept EXCEPT ![rec][t] = None]
  /\ todo' = todo \ {t}
  /\ UNCHANGED <<stage, journal, record, pc, tx, request, item, rec, plan, exit, history, bounds>>

(* What was to be removed is gone or was replaced meanwhile, or the place  *)
(* of the original is taken: recover fails and the command stops.          *)
UndoFails(t) ==
  /\ Last(t)
  /\ \/ pc = "undo" /\ plan[t] \in {"replace", "remove"} /\ dest[t] = None
     \/ pc = "undo" /\ plan[t] = "put-back" /\ dest[t] # None
     \/ pc = "undo-rm" /\ ContentOf(dest[t]) # Partial
  /\ Goto("idle")
  /\ Forget
  /\ UNCHANGED <<disk, tx, history, bounds>>

(* Mutant of UndoRecord: recover puts back the files only. *)
UndoFilesOnly ==
  /\ pc = "undo" /\ todo = {}
  /\ Goto("undo-mark")
  /\ UNCHANGED <<disk, memory, history, bounds>>

(* installed_payload.restore of the saved copy. *)
UndoRecord ==
  /\ pc = "undo" /\ todo = {}
  /\ record' = journal[rec].record
  /\ Goto("undo-mark")
  /\ UNCHANGED <<dest, stage, kept, journal, memory, history, bounds>>

UndoMark ==
  /\ pc = "undo-mark"
  /\ journal' = [journal EXCEPT ![rec].phase = "restored"]
  /\ Goto("undo-stages")
  /\ UNCHANGED <<dest, stage, kept, record, memory, history, bounds>>

(* The staged results the publish left go; the next unfinished publish.    *)
UndoStages ==
  /\ pc = "undo-stages"
  /\ stage' = [stage EXCEPT ![rec] =
       [t \in Target |-> IF journal[rec].staged /\ t \in journal[rec].targets
                            /\ ContentOf(@[t]) = journal[rec].candidate[t] THEN None ELSE @[t]]]
  /\ rec' = 0 /\ plan' = NoPlan
  /\ Goto("recover")
  /\ UNCHANGED <<dest, kept, journal, record, tx, request, item, todo, exit, history, bounds>>

(* Mutant of RecoveryDone: the command goes on without the recovery. *)
RecoverySkipped ==
  /\ pc = "recover"
  /\ Goto("ready")
  /\ UNCHANGED <<disk, memory, history, bounds>>

RecoveryDone ==
  /\ pc = "recover" /\ Unfinished = {}
  /\ Goto("ready")
  /\ UNCHANGED <<disk, memory, history, bounds>>

----------------------------------------------------------------------------
(* A publish. *)

(* link_or_copy falls back to a copy of the same target when the link      *)
(* publish ended with exit code 1; record_current_links reports a failure  *)
(* and goes on; after any other failure the command places nothing more.   *)
MayBegin(kind, T) ==
  \/ exit = 0
  \/ request.kind = "current"
  \/ exit = 1 /\ request.kind = "link" /\ kind = "copy" /\ T = request.targets

(* What a request of each kind names: one link that is not in place yet;   *)
(* links already in place, which are only recorded; a batch of copies.     *)
MayRequest(kind, T, c) ==
  /\ T # {}
  /\ CASE kind = "link" -> c \in Links /\ \E t \in T : T = {t} /\ ContentOf(dest[t]) # c
       [] kind = "current" -> c \in Links /\ \A t \in T : ContentOf(dest[t]) = c
       [] kind = "copy" -> c \in Trees

Replaced == IF request.kind = "current" THEN {} ELSE request.targets

(* Journal.begin: the record is saved and the journal says prepare. *)
Begin(kind, T, c) ==
  /\ pc = "ready" /\ tx < MaxTx
  /\ MayBegin(kind, T) /\ MayRequest(kind, T, c)
  /\ request' = [kind |-> kind, targets |-> T, content |-> c]
  /\ tx' = tx + 1
  /\ journal' = [journal EXCEPT ![tx + 1] =
       [NoJournal EXCEPT !.phase = "prepare", !.targets = Replaced', !.record = record]]
  /\ todo' = Replaced'
  /\ exit' = 0
  /\ touched' = {}
  /\ overlaid' = (overlaid \/ Unfinished # {})
  /\ Goto("stage")
  /\ UNCHANGED <<dest, stage, kept, record, item, rec, plan, unseen, bounds>>

(* The journal cannot be written: exit 1, nothing changed. *)
BeginFails(kind, T, c) ==
  /\ pc = "ready" /\ Fault
  /\ MayBegin(kind, T) /\ MayRequest(kind, T, c)
  /\ request' = [kind |-> kind, targets |-> T, content |-> c]
  /\ exit' = 1
  /\ UNCHANGED <<disk, pc, tx, item, todo, rec, plan, history>>

(* The command ends and releases the lock. *)
EndCommand ==
  /\ pc = "ready"
  /\ Goto("idle")
  /\ Forget
  /\ UNCHANGED <<disk, tx, history, bounds>>

(* The publish raised: `code` is its exit code so far. *)
Fails(code) == exit' = code /\ Goto("before-restore")

StageOne(t) ==
  /\ pc = "stage" /\ First(t)
  /\ LET staged == [c |-> request.content, id |-> tx]
     IN  /\ stage' = [stage EXCEPT ![tx][t] = staged]
         /\ item' = [item EXCEPT ![t] =
              [on |-> TRUE, before |-> dest[t], candidate |-> staged, moved |-> FALSE, after |-> None]]
  /\ todo' = todo \ {t}
  /\ UNCHANGED <<dest, kept, journal, record, pc, tx, request, rec, plan, exit, history, bounds>>

StageFails(t) ==
  /\ pc = "stage" /\ First(t) /\ Fault
  /\ item' = [item EXCEPT ![t] = [NoItem EXCEPT !.on = TRUE, !.before = dest[t]]]
  /\ Fails(1)
  /\ UNCHANGED <<disk, tx, request, todo, rec, plan, history>>

(* The journal names each original and each staged result. *)
SaveStaged ==
  /\ pc = "stage" /\ todo = {}
  /\ journal' = [journal EXCEPT ![tx] = [@ EXCEPT !.staged = TRUE,
       !.before = [t \in Target |-> IF t \in Replaced THEN ContentOf(dest[t]) ELSE None],
       !.candidate = [t \in Target |-> IF t \in Replaced THEN ContentOf(stage[tx][t]) ELSE None]]]
  /\ Goto("before-publish")
  /\ UNCHANGED <<dest, stage, kept, record, memory, history, bounds>>

(* The participants are called only when the publish replaces something.   *)
(* A participant's own exit code stays: 2 or 3 before the publish.         *)
BeforePublish ==
  /\ pc = "before-publish"
  /\ Goto("check")
  /\ UNCHANGED <<disk, memory, history, bounds>>

BeforePublishFails(code) ==
  /\ pc = "before-publish" /\ Replaced # {}
  /\ code \in {2, 3}
  /\ Fails(code)
  /\ UNCHANGED <<disk, tx, request, item, todo, rec, plan, history>>

(* No location and no staged result may have changed since the staging. *)
Check ==
  /\ pc = "check"
  /\ \A t \in Replaced : dest[t] = item[t].before /\ stage[tx][t] = item[t].candidate
  /\ todo' = Replaced
  /\ unseen' = {}
  /\ Goto("move")
  /\ UNCHANGED <<disk, tx, request, item, rec, plan, exit, touched, overlaid, bounds>>

CheckFails ==
  /\ pc = "check"
  /\ \E t \in Replaced : dest[t] # item[t].before \/ stage[tx][t] # item[t].candidate
  /\ Fails(1)
  /\ UNCHANGED <<disk, tx, request, item, todo, rec, plan, history, bounds>>

(* The original is renamed into the rollback folder. *)
MoveAside(t) ==
  /\ pc = "move" /\ First(t)
  /\ item[t].before # None /\ dest[t] # None
  /\ kept' = [kept EXCEPT ![tx][t] = dest[t]]
  /\ dest' = [dest EXCEPT ![t] = None]
  /\ Goto("move-in")
  /\ UNCHANGED <<stage, journal, record, memory, history, bounds>>

(* What the `finally` of the loop notes about target t, with `now` at its  *)
(* location: whether exactly the original was moved aside, and the         *)
(* candidate as the publish's own output unless the location is empty.     *)
Noted(t, now) ==
  [item EXCEPT ![t].moved = item[t].before # None /\ kept[tx][t] = item[t].before,
               ![t].after = IF now # None THEN item[t].candidate ELSE None]

(* The staged result is renamed to the location, which must be empty. *)
MoveIn(t) ==
  /\ pc = "move-in" \/ (pc = "move" /\ item[t].before = None)
  /\ First(t) /\ dest[t] = None
  /\ dest' = [dest EXCEPT ![t] = stage[tx][t]]
  /\ stage' = [stage EXCEPT ![tx][t] = None]
  /\ item' = Noted(t, stage[tx][t])
  /\ todo' = todo \ {t}
  /\ Goto("move")
  /\ UNCHANGED <<kept, journal, record, tx, request, rec, plan, exit, history, bounds>>

(* Either rename fails; the first one also when its source is gone, the    *)
(* second one also when its place is taken.                                *)
MoveFails(t) ==
  /\ pc \in {"move", "move-in"} /\ First(t)
  /\ IF (pc = "move" /\ item[t].before # None) <=> dest[t] = None THEN NoFault ELSE Fault
  /\ item' = Noted(t, dest[t])
  /\ Fails(1)
  /\ UNCHANGED <<disk, tx, request, todo, rec, plan, history>>

(* _write_record; a record this installer cannot read stays as it is. *)
WriteRecord ==
  /\ pc = "move" /\ todo = {}
  /\ record' = IF record = Unreadable THEN record
               ELSE [t \in Target |-> IF t \in request.targets THEN request.content ELSE record[t]]
  /\ Goto("after-publish")
  /\ UNCHANGED <<dest, stage, kept, journal, memory, history, bounds>>

AfterPublish ==
  /\ pc = "after-publish"
  /\ Goto("finish")
  /\ UNCHANGED <<disk, memory, history, bounds>>

(* A participant that could not resume says 4; its record write says 1. *)
AfterPublishFails(code) ==
  /\ pc = "after-publish" /\ Replaced # {}
  /\ code \in {1, 4}
  /\ Fails(code)
  /\ UNCHANGED <<disk, tx, request, item, todo, rec, plan, history>>

(* finalize: the journal says done. *)
MarkDone ==
  /\ pc = "finish"
  /\ journal' = [journal EXCEPT ![tx].phase = "done"]
  /\ Goto("retain")
  /\ UNCHANGED <<dest, stage, kept, record, memory, history, bounds>>

(* The journal or the record cannot be written. *)
WriteFails ==
  /\ (pc \in {"stage", "move"} /\ todo = {}) \/ pc = "finish"
  /\ Fault
  /\ Fails(1)
  /\ UNCHANGED <<disk, tx, request, item, todo, rec, plan, history>>

(* Mutant of Expired: retention counts and removes every older folder. *)
ExpiredAny == {k \in 1..tx : tx - k >= Keep}

(* The finished folders retention removes: an unfinished one is not        *)
(* eligible and does not count.                                            *)
Expired == {k \in Finished : Cardinality({m \in Finished : m > k}) >= Keep}

Retain ==
  /\ pc = "retain"
  /\ journal' = [k \in Tx |-> IF k \in Expired THEN NoJournal ELSE journal[k]]
  /\ kept' = [k \in Tx |-> IF k \in Expired THEN NoSlots ELSE kept[k]]
  /\ Goto("cleanup")
  /\ UNCHANGED <<dest, stage, record, memory, history, bounds>>

(* The staged results that are still as staged go. *)
Cleaned == [stage EXCEPT ![tx] = [t \in Target |-> IF item[t].on /\ @[t] = item[t].candidate THEN None ELSE @[t]]]

Cleanup ==
  /\ pc = "cleanup"
  /\ stage' = Cleaned
  /\ item' = NoItems
  /\ todo' = {}
  /\ Goto("ready")
  /\ UNCHANGED <<dest, kept, journal, record, tx, request, rec, plan, exit, history, bounds>>

----------------------------------------------------------------------------
(* The restore of a publish that raised. *)

BeforeRestore ==
  /\ pc = "before-restore"
  /\ Goto("check-restore")
  /\ UNCHANGED <<disk, memory, history, bounds>>

(* A restore step that fails ends the restore; a participant's code wins   *)
(* over the code of the publish, any other failure leaves it.              *)
BeforeRestoreFails ==
  /\ pc = "before-restore" /\ Replaced # {}
  /\ exit' = 5
  /\ Goto("cleanup")
  /\ UNCHANGED <<disk, tx, request, item, todo, rec, plan, history>>

Staged == {t \in Target : item[t].on}

(* The location holds its original, or what the publish left there while   *)
(* an original that was moved aside is still kept.                         *)
Restorable(t) ==
  \/ dest[t] = item[t].before
  \/ dest[t] = item[t].after /\ (item[t].moved => kept[tx][t] = item[t].before)

(* The complete set is validated before any published result is removed.   *)
CheckRestore ==
  /\ pc = "check-restore"
  /\ \A t \in Staged : Restorable(t)
  /\ todo' = Staged
  /\ unseen' = {}
  /\ Goto("restore")
  /\ UNCHANGED <<disk, tx, request, item, rec, plan, exit, touched, overlaid, bounds>>

CheckRestoreFails ==
  /\ pc = "check-restore"
  /\ \E t \in Staged : ~Restorable(t)
  /\ Goto("cleanup")
  /\ UNCHANGED <<disk, memory, history, bounds>>

RestoreSkip(t) ==
  /\ pc = "restore" /\ Last(t)
  /\ dest[t] = item[t].before
  /\ todo' = todo \ {t}
  /\ UNCHANGED <<disk, pc, tx, request, item, rec, plan, exit, history, bounds>>

RestoreRemove(t) ==
  /\ pc = "restore" /\ Last(t)
  /\ dest[t] \notin {item[t].before, None}
  /\ StartRemoval(t, "restore-put", "restore-rm")
  /\ UNCHANGED <<stage, kept, journal, record, memory, history, bounds>>

RestoreRemoved(t) ==
  /\ pc = "restore-rm" /\ Last(t) /\ ContentOf(dest[t]) = Partial
  /\ dest' = [dest EXCEPT ![t] = None]
  /\ Goto("restore-put")
  /\ UNCHANGED <<stage, kept, journal, record, memory, history, bounds>>

Emptied(t) == pc = "restore-put" \/ (pc = "restore" /\ dest[t] = None /\ item[t].before # None)

(* The original returns; then the location must hold the original. *)
RestorePutBack(t) ==
  /\ Last(t) /\ Emptied(t)
  /\ item[t].moved /\ kept[tx][t] # None /\ dest[t] = None
  /\ dest' = [dest EXCEPT ![t] = kept[tx][t]]
  /\ kept' = [kept EXCEPT ![tx][t] = None]
  /\ todo' = todo \ {t}
  /\ Goto("restore")
  /\ UNCHANGED <<stage, journal, record, tx, request, item, rec, plan, exit, history, bounds>>

RestoreBare(t) ==
  /\ Last(t) /\ Emptied(t) /\ ~item[t].moved
  /\ IF dest[t] = item[t].before
       THEN Goto("restore") /\ todo' = todo \ {t}
       ELSE Goto("cleanup") /\ UNCHANGED todo
  /\ UNCHANGED <<disk, tx, request, item, rec, plan, exit, history, bounds>>

(* What is being removed was replaced meanwhile, or the place of the       *)
(* original is taken.                                                      *)
RestoreBlocked(t) ==
  /\ Last(t)
  /\ \/ pc = "restore-rm" /\ ContentOf(dest[t]) # Partial
     \/ Emptied(t) /\ item[t].moved /\ dest[t] # None
  /\ Goto("cleanup")
  /\ UNCHANGED <<disk, memory, history, bounds>>

RestoreRecord ==
  /\ pc = "restore" /\ todo = {}
  /\ record' = journal[tx].record
  /\ Goto("restore-mark")
  /\ UNCHANGED <<dest, stage, kept, journal, memory, history, bounds>>

RestoreMark ==
  /\ pc = "restore-mark"
  /\ journal' = [journal EXCEPT ![tx].phase = "restored"]
  /\ Goto("after-restore")
  /\ UNCHANGED <<dest, stage, kept, record, memory, history, bounds>>

(* A removal, a rename, the record or the journal cannot be written. *)
RestoreFails ==
  /\ pc \in {"restore", "restore-rm", "restore-put", "restore-mark"} /\ Fault
  /\ Goto("cleanup")
  /\ UNCHANGED <<disk, memory, history>>

AfterRestore ==
  /\ pc = "after-restore"
  /\ Goto("cleanup")
  /\ UNCHANGED <<disk, memory, history, bounds>>

AfterRestoreFails ==
  /\ pc = "after-restore" /\ Replaced # {}
  /\ exit' = 5
  /\ Goto("cleanup")
  /\ UNCHANGED <<disk, tx, request, item, todo, rec, plan, history>>

----------------------------------------------------------------------------
(* The environment. *)

(* The command dies.  An operating-system error inside recover has the     *)
(* same effect: the child exits nonzero and the command stops.             *)
Crash ==
  /\ pc # "idle" /\ crashes < MaxCrashes
  /\ crashes' = crashes + 1
  /\ Goto("idle")
  /\ Forget
  /\ UNCHANGED <<disk, tx, history, faults, edits>>

(* Ctrl-C is no Exception: nothing is restored, the staging is cleaned.    *)
Interrupt ==
  /\ pc \in PublishPlace /\ crashes < MaxCrashes
  /\ crashes' = crashes + 1
  /\ stage' = Cleaned
  /\ Goto("idle")
  /\ Forget
  /\ UNCHANGED <<dest, kept, journal, record, tx, history, faults, edits>>

(* Somebody else removes, replaces or creates an install location. *)
Edit(t) ==
  /\ edits < MaxEdits
  /\ edits' = edits + 1
  /\ \E new \in {None} \cup [c : Trees, id : {-(edits + 1)}] :
       new # dest[t] /\ dest' = [dest EXCEPT ![t] = new]
  /\ unseen' = unseen \cup {t}
  /\ touched' = touched \cup {t}
  /\ UNCHANGED <<stage, kept, journal, record, pc, memory, overlaid, crashes, faults>>

----------------------------------------------------------------------------

Recover ==
  \/ \E k \in Tx : RecoverCheck(k) \/ RecoverRefused(k)
  \/ \E t \in Target : UndoRemove(t) \/ UndoRemoved(t) \/ UndoPutBack(t) \/ UndoFails(t)
  \/ UndoRecord \/ UndoMark \/ UndoStages \/ RecoveryDone

Publish ==
  \/ \E kind \in {"link", "current", "copy"}, T \in SUBSET Target, c \in Links \cup Trees :
        Begin(kind, T, c) \/ BeginFails(kind, T, c)
  \/ \E t \in Target : StageOne(t) \/ StageFails(t) \/ MoveAside(t) \/ MoveIn(t) \/ MoveFails(t)
  \/ SaveStaged \/ Check \/ CheckFails \/ WriteRecord \/ MarkDone \/ WriteFails \/ Retain \/ Cleanup \/ EndCommand

Restore ==
  \/ CheckRestore \/ CheckRestoreFails
  \/ \E t \in Target : RestoreSkip(t) \/ RestoreRemove(t) \/ RestoreRemoved(t) \/ RestorePutBack(t) \/ RestoreBare(t)
                          \/ RestoreBlocked(t)
  \/ RestoreRecord \/ RestoreMark \/ RestoreFails

(* The participants of this module's own Next may fail at every point;     *)
(* module GatewayPublish puts the gateway participant in their place.      *)
Participants ==
  \/ BeforePublish \/ AfterPublish \/ BeforeRestore \/ AfterRestore
  \/ Fault /\ (\E code \in {2, 3} : BeforePublishFails(code))
  \/ Fault /\ (\E code \in {1, 4} : AfterPublishFails(code))
  \/ Fault /\ BeforeRestoreFails
  \/ Fault /\ AfterRestoreFails

Environment == Crash \/ Interrupt \/ (\E t \in Target : Edit(t))

Next == StartCommand \/ Recover \/ Publish \/ Restore \/ Participants \/ Environment

Spec == Init /\ [][Next]_vars

----------------------------------------------------------------------------
(* Properties *)

TypeOK ==
  /\ dest \in [Target -> Slot]
  /\ stage \in [Tx -> [Target -> Slot]]
  /\ kept \in [Tx -> [Target -> Slot]]
  /\ journal \in [Tx -> Journals]
  /\ record \in RecordValue
  /\ pc \in Place
  /\ tx \in 0..MaxTx
  /\ request \in Requests
  /\ item \in [Target -> Item]
  /\ todo \in SUBSET Target
  /\ rec \in 0..MaxTx
  /\ plan \in [Target -> Action]
  /\ exit \in 0..5
  /\ unseen \in SUBSET Target /\ touched \in SUBSET Target /\ overlaid \in BOOLEAN
  /\ crashes \in 0..MaxCrashes /\ faults \in 0..MaxFaults /\ edits \in 0..MaxEdits

(* The original of every target of an unfinished publish is at its         *)
(* location or kept in the rollback folder, wherever the command died,     *)
(* the restore failed or the recovery itself was cut short.                *)
OriginalsKept ==
  ~overlaid =>
    \A k \in Unfinished : journal[k].staged =>
      \A t \in journal[k].targets \ touched :
        journal[k].before[t] # None =>
          journal[k].before[t] \in {ContentOf(dest[t]), ContentOf(kept[k][t])}

(* Retention and later publishes leave an unfinished publish alone: its    *)
(* journal stays, and a kept original leaves its folder only to its        *)
(* location.                                                               *)
UnfinishedStay ==
  [][\A k \in Unfinished :
       /\ journal'[k].phase # "absent"
       /\ \A t \in Target :
            kept[k][t] # None => kept[k][t] \in {kept'[k][t], dest'[t]}]_vars

(* record_after_recovery: the record once every unfinished publish is      *)
(* restored.                                                               *)
RecordAfterRecovery ==
  IF Unfinished = {} THEN record
  ELSE journal[CHOOSE k \in Unfinished : \A m \in Unfinished : k <= m].record

(* A file somebody else put at a location, other than a copy of what a     *)
(* publish staged there, is only lost when it came after the program last  *)
(* compared the locations: no check adopts it as the publish's own.        *)
ForeignKept ==
  [][\A t \in Target :
       /\ dest[t] # None /\ dest[t].id < 0 /\ dest[t].c # Partial
       /\ dest'[t] # dest[t] /\ edits' = edits
       /\ \A k \in Tx : kept'[k][t] # dest[t] /\ journal[k].candidate[t] # dest[t].c
       => t \in unseen]_vars

(* The installation as the next command restores it: the original of every *)
(* target an unfinished publish staged, every other location as it is. A   *)
(* location that somebody else changed holds "foreign" from then on.       *)
FilesAfterRecovery ==
  [t \in Target |->
    IF t \in touched THEN "foreign"
    ELSE IF \E k \in Unfinished : journal[k].staged /\ t \in journal[k].targets
    THEN journal[CHOOSE k \in Unfinished : \A m \in Unfinished : k <= m].before[t]
    ELSE ContentOf(dest[t])]

Installation == INSTANCE AbstractPublish WITH
  Value <- Seen, Foreign <- "foreign", files <- FilesAfterRecovery, recorded <- RecordAfterRecovery, open <- Unfinished # {}

(* A publish is all or nothing, in the files and in the record together,   *)
(* through crashes, failures, restores and recoveries, for every location  *)
(* that nobody else changes.                                               *)
AllOrNothing == Installation!AbsSpec

(* As long as commands are started and run, every publish is done or       *)
(* restored in the end, unless somebody interfered, a publish began over   *)
(* it or the removal of a folder was cut short.                            *)
EventuallyFinished ==
  []<>(\/ Unfinished = {}
       \/ overlaid \/ touched # {}
       \/ \E t \in Target : ContentOf(dest[t]) = Partial)

Commands == StartCommand \/ Recover \/ Publish \/ Restore \/ Participants
FairSpec == Spec /\ WF_vars(Commands)
=============================================================================
