------------------------ MODULE GatewayRegistration ------------------------
(***************************************************************************)
(* Registration, refresh and detachment of the context gateway service:    *)
(* the phase machine of _shared/context_gateway_transaction.py with the    *)
(* plans of context_gateway_plan.py and the effects of                     *)
(* context_gateway_platform.py.                                            *)
(*                                                                         *)
(* An operation runs under the install lock, so there is one at a time.    *)
(* Editors take no lock.  The steps an operation still has to make are     *)
(* kept as a sequence; a step that fails replaces it by the steps of the   *)
(* recovery.  A comparison with the planned content and the write that     *)
(* follows it are one step.  Contents stand for bytes, mode and inode.     *)
(***************************************************************************)
EXTENDS Naturals, Sequences, SequencesExt

CONSTANTS
  Missing,    \* no file
  Edited,     \* contents that somebody else wrote
  None,       \* nothing
  Other,      \* launchd runs a service of this label from another definition
  MaxOps,     \* bounds: commands,
  MaxFaults,  \* effects that raise or stay inconclusive,
  MaxEdits,   \* changes by others,
  MaxCrashes  \* and commands that die

(* The markers are told apart from each other and from contents and        *)
(* sections, which are records of these shapes.                            *)
ASSUME RegistrationAssumption ==
  /\ MaxOps \in Nat /\ MaxFaults \in Nat /\ MaxEdits \in Nat /\ MaxCrashes \in Nat
  /\ Missing # Edited /\ None \notin {Missing, Edited, Other, "register", "detach"}
  /\ {Missing, Edited, None, Other} \cap (Nat \cup [op : Nat, scope : Nat] \cup [block : Nat \cup {None, Edited}, rest : Nat]) = {}
  /\ None \notin [state : [op : Nat, scope : Nat], agent : [op : Nat, scope : Nat], block : Nat \cup {None}]

VARIABLES
  disk,     \* the launch agent, state.json, the Codex configuration, the legacy receipt
  folder,   \* what else is in the state folder: our backups and logs, and others' files
  record,   \* the service section of the install record, or None
  launchd,  \* what launchd runs: the state file its listener read, Other, or None
  todo,     \* the steps the operation still has to make
  run,      \* its plan and its journal
  exit,     \* the code the operation ends with, if no further step fails
  edited,   \* history: the paths, or the service, that others changed since the plan was read
  sure,     \* history: no 3 or 5, no crash and no edit so far
  bounds    \* counters of the bounds

vars == <<disk, folder, record, launchd, todo, run, exit, edited, sure, bounds>>

Path == {"agent", "state", "config", "legacy"}

(* The service files of one registration; scope stands for the listener:   *)
(* its port and its secret.                                                *)
Served(op, scope) == [op |-> op, scope |-> scope]

(* The Codex configuration: the provider blocks and the user's own text.   *)
Config(block, rest) == [block |-> block, rest |-> rest]
BlockOf(config) == IF config = Missing THEN None ELSE config.block
RestOf(config) == IF config = Missing THEN 0 ELSE config.rest

Section(state, agent, block) == [state |-> state, agent |-> agent, block |-> block]

NoRun == [kind |-> None, disk |-> [p \in Path |-> Missing], record |-> None, scope |-> None, was |-> None,
          stopped |-> FALSE, started |-> FALSE, recorded |-> FALSE, written |-> <<>>,
          after |-> [p \in Path |-> None]]

Scope == 1 .. MaxOps + 1
ServiceFile == [op : Scope, scope : Scope] \cup {Missing, Edited}
ConfigFile == [block : Scope \cup {None, Edited}, rest : Nat] \cup {Missing}
Effects == {"observe", "prepare", "stop", "verify-absence", "guards", "start", "readiness", "record",
            "stop-candidate", "record-back", "validate", "restore", "recheck", "restart", "clean"} \cup Path

TypeOK ==
  /\ disk \in [Path -> ServiceFile \cup ConfigFile]
  /\ disk["config"] \in ConfigFile /\ \A p \in Path \ {"config"} : disk[p] \in ServiceFile
  /\ folder \subseteq {"ours", "others"}
  /\ record \in [state : ServiceFile, agent : ServiceFile, block : Scope \cup {None}] \cup {None}
  /\ launchd \in [op : Scope, scope : Scope] \cup {None, Other, Edited}
  /\ todo \in Seq(Effects)
  /\ run.kind \in {"register", "detach", None} /\ run.scope \in Scope \cup {None}
  /\ run.written \in Seq(Path) /\ ToSet(run.written) \subseteq Path
  /\ exit \in {0, 2, 3, 4, 5}
  /\ edited \subseteq Path \cup {"service"} /\ sure \in BOOLEAN
  /\ bounds \in [ops : 0 .. MaxOps, faults : 0 .. MaxFaults, edits : 0 .. MaxEdits, crashes : 0 .. MaxCrashes]

(* Nothing is registered, or one registration is, with the receipt of an   *)
(* older version or without.  A migrated section has no block.             *)
Init ==
  /\ \/ /\ record = None
        /\ disk \in {[p \in Path |-> IF p = "config" THEN config ELSE Missing] :
                       config \in {Missing, Config(None, 1)}}
        /\ launchd \in {None, Other}
     \/ /\ record \in {Section(Served(1, 1), Served(1, 1), block) : block \in {1, None}}
        /\ disk \in {[agent |-> Served(1, 1), state |-> Served(1, 1), config |-> Config(1, 1), legacy |-> legacy] :
                       legacy \in {Missing, Served(1, 1)}}
        /\ launchd \in {Served(1, 1), None}
  /\ folder = {}
  /\ todo = <<>> /\ run = NoRun /\ exit = 0 /\ edited = {} /\ sure = TRUE
  /\ bounds = [ops |-> 0, faults |-> 0, edits |-> 0, crashes |-> 0]

Idle == todo = <<>>

----------------------------------------------------------------------------
(* The preconditions and the plans *)

(* validate_install: what the record does not name is preserved, and what  *)
(* it names must be as it says.                                            *)
MayRegister ==
  IF record = None
    THEN /\ disk["agent"] = Missing
         /\ disk["state"] = Missing /\ disk["legacy"] = Missing /\ folder = {}
         /\ BlockOf(disk["config"]) = None
    ELSE /\ disk["agent"] = record.agent
         /\ disk["state"] = record.state
         /\ record.block # None => BlockOf(disk["config"]) = record.block
         /\ BlockOf(disk["config"]) \in {None, record.state.scope}

(* detach_plan *)
MayDetach ==
  /\ record # None
  /\ disk["state"] = record.state /\ disk["agent"] = record.agent
  /\ BlockOf(disk["config"]) \in {None, record.state.scope}

May(kind) == IF kind = "register" THEN MayRegister ELSE MayDetach

(* The effects in their order. *)
Steps(kind) ==
  IF kind = "register"
    THEN <<"observe", "prepare", "stop", "verify-absence", "guards", "state", "agent", "start", "readiness",
           "config", "record">> \o (IF disk["legacy"] = Missing THEN <<>> ELSE <<"legacy">>)
    ELSE <<"observe", "stop", "verify-absence", "guards">>
           \o (IF disk["config"] = Missing THEN <<>> ELSE <<"config">>) \o <<"agent", "record">>

First == run.kind = "register" /\ run.record = None

(* The snapshots that must still be current. *)
Guards ==
  {"state", "agent", "config"} \cup
    (IF run.kind = "register" /\ run.disk["legacy"] # Missing THEN {"legacy"} ELSE {})
Current == \A p \in Guards : disk[p] = run.disk[p]

(* What a mutation leaves at its path. *)
After(p) ==
  IF p = "config"
    THEN IF run.kind = "register" THEN Config(run.scope, RestOf(run.disk[p])) ELSE Config(None, RestOf(run.disk[p]))
    ELSE IF run.kind = "register" /\ p # "legacy" THEN Served(bounds.ops + 1, run.scope) ELSE Missing

(* Mutant of SectionAfter: the fingerprint of the blocks before. *)
SectionOfOldBlock ==
  IF run.kind = "register" THEN Section(After("state"), After("agent"), BlockOf(run.disk["config"])) ELSE None

SectionAfter == IF run.kind = "register" THEN Section(After("state"), After("agent"), run.scope) ELSE None

(* A command reads the files and plans, or is blocked. *)
Begin(kind) ==
  /\ Idle
  /\ kind = "detach" => record # None
  /\ bounds.ops < MaxOps
  /\ bounds' = [bounds EXCEPT !.ops = @ + 1]
  /\ edited' = {}
  /\ IF May(kind)
       THEN /\ todo' = Steps(kind)
            /\ run' = [NoRun EXCEPT !.kind = kind, !.disk = disk, !.record = record,
                         !.scope = IF record = None THEN bounds'.ops + 1 ELSE record.state.scope]
            /\ exit' = 0
       ELSE /\ exit' = 2
            /\ run' = NoRun
            /\ UNCHANGED todo
  /\ UNCHANGED <<disk, folder, record, launchd, sure>>

(* A detach of nothing answers that it is missing. *)
DetachMissing ==
  /\ Idle
  /\ record = None
  /\ exit' = 0
  /\ run' = NoRun
  /\ UNCHANGED <<disk, folder, record, launchd, todo, edited, sure, bounds>>

----------------------------------------------------------------------------
(* How a step ends *)

At(step) == ~Idle /\ Head(todo) = step

Advance == todo' = Tail(todo) /\ UNCHANGED <<exit, edited, sure>>

Ends(code) ==
  /\ todo' = <<>>
  /\ exit' = code
  /\ sure' = (sure /\ code \notin {3, 5})
  /\ UNCHANGED edited

(* The steps of the reverse recovery. *)
Recovery(r) ==
  (IF r.started THEN <<"stop-candidate">> ELSE <<>>)
    \o ((IF r.recorded THEN <<"record-back">> ELSE <<>>)
    \o (<<"validate">>
    \o ([k \in DOMAIN r.written |-> "restore"]
    \o (<<"recheck">>
    \o ((IF r.was # None /\ r.stopped THEN <<"restart">> ELSE <<>>)
    \o (IF r.kind = "register" /\ r.record = None THEN <<"clean">> ELSE <<>>))))))

Fails(r) ==
  /\ run' = r
  /\ todo' = Recovery(r)
  /\ exit' = 4
  /\ UNCHANGED <<edited, sure>>

(* An effect raises, or an observation stays inconclusive. *)
Fault == bounds.faults < MaxFaults /\ bounds' = [bounds EXCEPT !.faults = @ + 1]
NoFault == UNCHANGED bounds

----------------------------------------------------------------------------
(* execute *)

(* The plan is still current and launchd's answer is clear; a running      *)
(* service that the record does not name is preserved.                     *)
Observe ==
  /\ At("observe")
  /\ \/ ~Current /\ Ends(2) /\ UNCHANGED <<run, bounds>>
     \/ Current /\ launchd = Other /\ Ends(3) /\ UNCHANGED <<run, bounds>>
     \/ Current /\ Fault /\ Ends(3) /\ UNCHANGED run
     \/ /\ Current /\ launchd # Other /\ NoFault
        /\ IF launchd # None /\ First
             THEN Ends(2) /\ UNCHANGED run
             ELSE run' = [run EXCEPT !.was = launchd] /\ Advance
  /\ UNCHANGED <<disk, folder, record, launchd>>

(* The state folder, the backups and the logs. *)
Prepare ==
  /\ At("prepare")
  /\ \/ folder' = folder \cup {"ours"} /\ Advance /\ NoFault /\ UNCHANGED run
     \/ folder' \in {folder, folder \cup {"ours"}} /\ Fault /\ Fails(run)
  /\ UNCHANGED <<disk, record, launchd>>

(* There is nothing to stop, or what runs is stopped and seen to be gone.  *)
Stop ==
  /\ At("stop")
  /\ IF run.was = None
       THEN Advance /\ NoFault /\ UNCHANGED <<run, launchd>>
     ELSE IF launchd = None
       THEN Ends(3) /\ NoFault /\ UNCHANGED <<run, launchd>>
       ELSE \/ launchd' = None /\ run' = [run EXCEPT !.stopped = TRUE] /\ Advance /\ NoFault
            \/ launchd' \in {launchd, None} /\ Fault /\ Ends(3) /\ UNCHANGED run
  /\ UNCHANGED <<disk, folder, record>>

(* Without confirmed absence no file changes; a service this operation did *)
(* stop comes back.                                                        *)
Unconfirmed == IF run.stopped THEN Fails(run) ELSE Ends(3) /\ UNCHANGED run

VerifyAbsence ==
  /\ At("verify-absence")
  /\ IF launchd # None
       THEN NoFault /\ Unconfirmed
       ELSE \/ Advance /\ NoFault /\ UNCHANGED run
            \/ Fault /\ Unconfirmed
  /\ UNCHANGED <<disk, folder, record, launchd>>

CheckGuards ==
  /\ At("guards")
  /\ IF Current THEN Advance /\ UNCHANGED run ELSE Fails(run)
  /\ UNCHANGED <<disk, folder, record, launchd, bounds>>

Unchanged(p) == disk[p] = run.disk[p]

(* A mutation: the content must be the planned one; the write returns, or  *)
(* raises before or after it replaced the file, and the look at what it    *)
(* left may raise too.                                                     *)
Apply(p) ==
  /\ At(p)
  /\ IF ~Unchanged(p)
       THEN Fails(run) /\ UNCHANGED <<disk, bounds>>
       ELSE \E content \in {disk[p], After(p)} :
              LET wrote == [run EXCEPT !.written = Append(@, p), !.after[p] = content]
              IN  /\ disk' = [disk EXCEPT ![p] = content]
                  /\ \/ content = After(p) /\ run' = wrote /\ Advance /\ NoFault
                     \/ Fault /\ \E seen \in {content, None} : Fails([wrote EXCEPT !.after[p] = seen])
  /\ UNCHANGED <<folder, record, launchd>>

(* What launchd runs after it loads the launch agent: a listener of the    *)
(* state file, if nobody changed the two.                                  *)
Loads ==
  IF disk["agent"] = Edited \/ disk["state"] = Missing THEN Edited ELSE disk["state"]

(* The listener answers for the scope of the plan. *)
Answers(service) == service \notin {None, Edited} /\ service.scope = run.scope

(* launchd loads no service twice.  A start that raises leaves the service *)
(* loaded or not.                                                          *)
Start ==
  /\ At("start")
  /\ LET started == [run EXCEPT !.started = TRUE]
     IN  IF disk["agent"] = Missing \/ launchd # None
           THEN Fails(started) /\ UNCHANGED <<launchd, bounds>>
           ELSE \/ launchd' = Loads /\ run' = started /\ Advance /\ NoFault
                \/ launchd' \in {None, Loads} /\ Fault /\ Fails(started)
  /\ UNCHANGED <<disk, folder, record>>

Readiness ==
  /\ At("readiness")
  /\ IF ~Answers(launchd)
       THEN Fails(run) /\ NoFault
       ELSE \/ Advance /\ NoFault /\ UNCHANGED run
            \/ Fault /\ Fails(run)
  /\ UNCHANGED <<disk, folder, record, launchd>>

(* The record writer is atomic. *)
Record ==
  /\ At("record")
  /\ \/ record' = SectionAfter /\ run' = [run EXCEPT !.recorded = TRUE] /\ Advance /\ NoFault
     \/ Fault /\ Fails(run) /\ UNCHANGED record
  /\ UNCHANGED <<disk, folder, launchd>>

----------------------------------------------------------------------------
(* The recovery: a step that fails ends it with 5 *)

Uncertain == Fault /\ Ends(5) /\ UNCHANGED run

StopCandidate ==
  /\ At("stop-candidate")
  /\ \/ launchd' = None /\ Advance /\ NoFault /\ UNCHANGED run
     \/ launchd' \in {launchd, None} /\ Uncertain
  /\ UNCHANGED <<disk, folder, record>>

RecordBack ==
  /\ At("record-back")
  /\ \/ record' = run.record /\ Advance /\ NoFault /\ UNCHANGED run
     \/ Uncertain /\ UNCHANGED record
  /\ UNCHANGED <<disk, folder, launchd>>

(* Every attempted change is as it was before or as the attempt left it,   *)
(* in full, before any file is restored.                                   *)
Restorable(p) == disk[p] = run.disk[p] \/ (disk[p] = run.after[p] /\ disk[p] = After(p))

Validate ==
  /\ At("validate")
  /\ IF \A p \in ToSet(run.written) : Restorable(p) THEN Advance ELSE Ends(5)
  /\ UNCHANGED <<disk, folder, record, launchd, run, bounds>>

(* Mutant of Foreign: a change after the validation is not seen. *)
NeverForeign(p) == FALSE

Foreign(p) == disk[p] # run.after[p]

(* The newest mutation is restored.  A write that raises may have replaced *)
(* the file.                                                               *)
Restore ==
  /\ At("restore")
  /\ LET p == Last(run.written)
         popped == [run EXCEPT !.written = Front(@)]
     IN  IF disk[p] = run.disk[p] THEN run' = popped /\ Advance /\ NoFault /\ UNCHANGED disk
         ELSE IF Foreign(p) THEN Ends(5) /\ NoFault /\ UNCHANGED <<disk, run>>
         ELSE \/ disk' = [disk EXCEPT ![p] = run.disk[p]] /\ run' = popped /\ Advance /\ NoFault
              \/ disk' \in {disk, [disk EXCEPT ![p] = run.disk[p]]} /\ Uncertain
  /\ UNCHANGED <<folder, record, launchd>>

(* A service whose files changed is never restarted. *)
Recheck ==
  /\ At("recheck")
  /\ IF Current THEN Advance ELSE Ends(5)
  /\ UNCHANGED <<disk, folder, record, launchd, run, bounds>>

(* The prior service comes back. *)
Restart ==
  /\ At("restart")
  /\ IF disk["agent"] = Missing \/ launchd # None
       THEN Ends(5) /\ UNCHANGED <<launchd, run, bounds>>
       ELSE \/ /\ launchd' = Loads /\ NoFault /\ UNCHANGED run
               /\ IF Answers(Loads) THEN Advance ELSE Ends(5)
            \/ launchd' \in {None, Loads} /\ Uncertain
  /\ UNCHANGED <<disk, folder, record>>

(* Mutant of Clean: the backups of a first registration stay. *)
KeepsFolder ==
  /\ At("clean")
  /\ Advance
  /\ UNCHANGED <<disk, folder, record, launchd, run, bounds>>

(* What a first registration made goes, if nothing else is beside it. *)
Clean ==
  /\ At("clean")
  /\ IF "others" \in folder
       THEN Ends(5) /\ UNCHANGED <<folder, run, bounds>>
       ELSE \/ folder' = {} /\ Advance /\ NoFault /\ UNCHANGED run
            \/ folder' \in {folder, {}} /\ Uncertain
  /\ UNCHANGED <<disk, record, launchd>>

----------------------------------------------------------------------------
(* Everybody else *)

(* An editor changes a file, or only damages our block in it, or it is     *)
(* removed by hand.                                                        *)
Edit(p) ==
  /\ bounds.edits < MaxEdits
  /\ \E content \in {Missing} \cup
          (IF p # "config" THEN {Edited} ELSE {Config(block, RestOf(disk[p]) + 1) : block \in {BlockOf(disk[p]), Edited}}) :
       disk' = [disk EXCEPT ![p] = content] /\ disk[p] # content
  /\ edited' = edited \cup {p}
  /\ sure' = FALSE
  /\ bounds' = [bounds EXCEPT !.edits = @ + 1]
  /\ UNCHANGED <<folder, record, launchd, todo, run, exit>>

(* A file of somebody else in the state folder. *)
Leave ==
  /\ bounds.edits < MaxEdits
  /\ folder' = folder \cup {"others"}
  /\ sure' = FALSE
  /\ bounds' = [bounds EXCEPT !.edits = @ + 1]
  /\ UNCHANGED <<disk, record, launchd, todo, run, exit, edited>>

(* Somebody loads or unloads the service by hand, or logs in.              *)
Load ==
  /\ bounds.edits < MaxEdits
  /\ launchd # Other /\ disk["agent"] # Missing
  /\ launchd' = IF launchd = None THEN Loads ELSE None
  /\ edited' = edited \cup {"service"}
  /\ sure' = FALSE
  /\ bounds' = [bounds EXCEPT !.edits = @ + 1]
  /\ UNCHANGED <<disk, folder, record, todo, run, exit>>

(* The user reviewed the state folder that a detach kept, and removes it.  *)
Review ==
  /\ Idle /\ record = None
  /\ folder' = {}
  /\ disk' = [disk EXCEPT !["state"] = Missing, !["legacy"] = Missing]
  /\ UNCHANGED <<record, launchd, todo, run, exit, edited, sure, bounds>>

(* The command dies: its journal was in memory. *)
Crash ==
  /\ ~Idle
  /\ bounds.crashes < MaxCrashes
  /\ bounds' = [bounds EXCEPT !.crashes = @ + 1]
  /\ todo' = <<>> /\ run' = NoRun
  /\ exit' = 5
  /\ sure' = FALSE
  /\ UNCHANGED <<disk, folder, record, launchd, edited>>

Execute ==
  \/ Observe \/ Prepare \/ Stop \/ VerifyAbsence \/ CheckGuards
  \/ (\E p \in Path : Apply(p)) \/ Start \/ Readiness \/ Record
Recover ==
  StopCandidate \/ RecordBack \/ Validate \/ Restore \/ Recheck \/ Restart \/ Clean

Next ==
  \/ \E kind \in {"register", "detach"} : Begin(kind)
  \/ DetachMissing
  \/ Execute
  \/ Recover
  \/ \E p \in Path : Edit(p)
  \/ Leave \/ Load \/ Review \/ Crash

Spec == Init /\ [][Next]_vars
----------------------------------------------------------------------------

(* Contents that are neither what the operation found nor what it writes   *)
(* are somebody else's: neither it nor its recovery changes them, however  *)
(* far they got (assert_current, _Journal.restore).                        *)
EditsKept ==
  [][\A p \in Path :
       ~Idle /\ disk[p] \notin {run.disk[p], After(p)} /\ bounds'.edits = bounds.edits => disk'[p] = disk[p]]_vars

(* The files, the record and the service say the same. *)
Coherent ==
  IF record = None
    THEN disk["agent"] = Missing /\ BlockOf(disk["config"]) = None /\ launchd \in {None, Other}
    ELSE MayRegister /\ MayDetach /\ launchd \in {None, disk["state"]}

(* After operations that ended with 0, 2 or 4 the next one may go on: the  *)
(* record names what is there, and a first registration that failed and    *)
(* was restored can be tried again.                                        *)
NeverStranded ==
  Idle /\ sure =>
    /\ Coherent
    /\ exit = 4 /\ record = None => MayRegister

(* A registration ends with a service that read the new state file, and    *)
(* with provider blocks that lead to it and that the record names.         *)
ProviderServed ==
  Idle /\ exit = 0 /\ run.kind = "register" /\ edited = {} =>
    /\ launchd = run.after["state"] /\ record.state = launchd
    /\ BlockOf(disk["config"]) = launchd.scope /\ record.block = launchd.scope
=============================================================================
