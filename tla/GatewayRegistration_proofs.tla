-------------------- MODULE GatewayRegistration_proofs --------------------
(***************************************************************************)
(* Three safety properties of the gateway registration, for every number   *)
(* of operations, faults, edits and crashes.                               *)
(*                                                                         *)
(* Contents of somebody else stay (EditsKept): a forward step compares     *)
(* with the plan, so there the property is its guard; a recovery compares  *)
(* with what the journal says that a write left, and JournalInv says what  *)
(* that can be.                                                            *)
(*                                                                         *)
(* A host that is registered is served (ProviderServed): PlanInv relates   *)
(* where an operation stands in its fixed order of steps to what it wrote, *)
(* recorded, stopped and started.                                          *)
(*                                                                         *)
(* Nobody's registration is lost without a way back (NeverStranded):       *)
(* SureInv says which files are certainly the ones of the record.          *)
(***************************************************************************)
EXTENDS GatewayRegistration, InstallLock, TLAPS

Services == [op : Nat, scope : Nat]
Configs == [block : Nat \cup {None, Edited}, rest : Nat]

(* The contents of the files, as far as the journal tells them apart.      *)
FilesOK(files) ==
  /\ files \in [Path -> Services \cup Configs \cup {Missing, Edited}]
  /\ files["config"] \in Configs \cup {Missing}

SectionOK(section) == section # None => section.state \in Services /\ section.agent \in Services

RunFields == {"kind", "disk", "record", "scope", "was", "stopped", "started", "recorded", "written", "after"}
BoundFields == {"ops", "faults", "edits", "crashes"}

RunOK ==
  /\ DOMAIN run = RunFields
  /\ FilesOK(run.disk)
  /\ SectionOK(run.record)
  /\ run.after \in [Path -> Services \cup Configs \cup {Missing, Edited, None}]
  /\ run.kind \in {"register", "detach"} /\ run.scope \in Nat

JournalInv ==
  /\ DOMAIN bounds = BoundFields /\ bounds.ops \in Nat /\ bounds.edits \in Nat
  /\ FilesOK(disk) /\ SectionOK(record)
  /\ ~Idle => RunOK /\ \A p \in Path : run.after[p] \in {run.disk[p], After(p), None}

----------------------------------------------------------------------------

(* What a mutation leaves. *)
LEMMA AfterType ==
  ASSUME JournalInv, ~Idle, NEW p \in Path
  PROVE  /\ After(p) \in Services \cup Configs \cup {Missing}
         /\ p = "config" => After(p) \in Configs
         /\ p \in {"state", "agent"} /\ run.kind = "register" => After(p) \in Services
  <1>1. RunOK /\ bounds.ops \in Nat  BY DEF JournalInv
  <1>2. CASE p = "config"
    <2>1. RestOf(run.disk[p]) \in Nat  BY <1>1, <1>2 DEF RestOf, RunOK, FilesOK, Configs
    <2>2. QED  BY <1>1, <1>2, <2>1 DEF After, Config, Configs, RunOK
  <1>3. CASE p # "config"
    BY <1>1, <1>3 DEF After, Served, Services, RunOK
  <1>4. QED  BY <1>2, <1>3

(* It is the same throughout the operation. *)
Same ==
  /\ run'.kind = run.kind /\ run'.disk = run.disk /\ run'.record = run.record /\ run'.scope = run.scope
  /\ DOMAIN run' = DOMAIN run
  /\ DOMAIN bounds' = DOMAIN bounds /\ bounds'.ops = bounds.ops /\ bounds'.edits \in Nat

LEMMA SameAfter ==
  ASSUME Same, NEW p \in Path
  PROVE  After(p)' = After(p)
  BY DEF Same, After, Config, Served, RestOf

(* A step of the operation that leaves what the journal says about         *)
(* contents.                                                               *)
LEMMA StepKeeps ==
  ASSUME JournalInv, ~Idle, Same, run'.after = run.after, FilesOK(disk'), SectionOK(record')
  PROVE  JournalInv'
  <1>1. \A p \in Path : After(p)' = After(p)  BY SameAfter
  <1>2. QED  BY <1>1 DEF JournalInv, RunOK, Same, FilesOK, SectionOK

(* The ends of a step. *)
LEMMA Counted ==
  ASSUME JournalInv, Fault \/ UNCHANGED bounds
  PROVE  DOMAIN bounds' = DOMAIN bounds /\ bounds'.ops = bounds.ops /\ bounds'.edits = bounds.edits
  BY DEF JournalInv, BoundFields, Fault

(* What a step notes in the memory of the operation, besides contents.     *)
Notes ==
  \/ UNCHANGED run
  \/ \E v : \/ run' = [run EXCEPT !.was = v] \/ run' = [run EXCEPT !.stopped = v]
            \/ run' = [run EXCEPT !.started = v] \/ run' = [run EXCEPT !.recorded = v]
            \/ run' = [run EXCEPT !.written = v]

LEMMA NotesSame ==
  ASSUME JournalInv, ~Idle, Fault \/ UNCHANGED bounds, Notes
  PROVE  Same /\ run'.after = run.after
  <1>1. RunOK  BY DEF JournalInv
  <1>2. QED  BY <1>1, Counted DEF Notes, Same, RunOK, RunFields, JournalInv

(* EditsKept of one step. *)
ForeignStay ==
  \A p \in Path :
    ~Idle /\ disk[p] \notin {run.disk[p], After(p)} /\ bounds'.edits = bounds.edits => disk'[p] = disk[p]

(* Most steps change no file. *)
LEMMA PlainStep ==
  ASSUME JournalInv, ~Idle, Fault \/ UNCHANGED bounds, Notes, UNCHANGED disk, SectionOK(record')
  PROVE  JournalInv' /\ ForeignStay
  <1>1. FilesOK(disk')  BY DEF JournalInv
  <1>2. QED  BY <1>1, NotesSame, StepKeeps DEF ForeignStay

LEMMA NotIdle == ASSUME NEW step, At(step) PROVE ~Idle
  BY DEF At

LEMMA ExecuteKeeps ==
  ASSUME JournalInv, Observe \/ Prepare \/ Stop \/ VerifyAbsence \/ CheckGuards \/ Start \/ Readiness \/ Record
  PROVE  JournalInv' /\ ForeignStay
  <1>1. SectionOK(record)  BY DEF JournalInv
  <1>2. CASE Observe
    <2>1. ~Idle /\ (Fault \/ UNCHANGED bounds) /\ Notes /\ UNCHANGED <<disk, record>>
      BY <1>2, NotIdle DEF Observe, NoFault, Notes
    <2>2. QED  BY <1>1, <2>1, PlainStep
  <1>3. CASE Prepare
    <2>1. ~Idle /\ (Fault \/ UNCHANGED bounds) /\ Notes /\ UNCHANGED <<disk, record>>
      BY <1>3, NotIdle DEF Prepare, NoFault, Fails, Notes
    <2>2. QED  BY <1>1, <2>1, PlainStep
  <1>4. CASE Stop
    <2>1. ~Idle /\ (Fault \/ UNCHANGED bounds) /\ Notes /\ UNCHANGED <<disk, record>>
      BY <1>4, NotIdle DEF Stop, NoFault, Notes
    <2>2. QED  BY <1>1, <2>1, PlainStep
  <1>5. CASE VerifyAbsence
    <2>1. ~Idle /\ (Fault \/ UNCHANGED bounds) /\ Notes /\ UNCHANGED <<disk, record>>
      BY <1>5, NotIdle DEF VerifyAbsence, Unconfirmed, Fails, NoFault, Notes
    <2>2. QED  BY <1>1, <2>1, PlainStep
  <1>6. CASE CheckGuards
    <2>1. ~Idle /\ (Fault \/ UNCHANGED bounds) /\ Notes /\ UNCHANGED <<disk, record>>
      BY <1>6, NotIdle DEF CheckGuards, Fails, Notes
    <2>2. QED  BY <1>1, <2>1, PlainStep
  <1>7. CASE Start
    <2>1. ~Idle /\ (Fault \/ UNCHANGED bounds) /\ Notes /\ UNCHANGED <<disk, record>>
      BY <1>7, NotIdle DEF Start, Fails, NoFault, Notes
    <2>2. QED  BY <1>1, <2>1, PlainStep
  <1>8. CASE Readiness
    <2>1. ~Idle /\ (Fault \/ UNCHANGED bounds) /\ Notes /\ UNCHANGED <<disk, record>>
      BY <1>8, NotIdle DEF Readiness, Fails, NoFault, Notes
    <2>2. QED  BY <1>1, <2>1, PlainStep
  <1>9. CASE Record
    <2>1. ~Idle /\ (Fault \/ UNCHANGED bounds) /\ Notes /\ UNCHANGED disk
      BY <1>9, NotIdle DEF Record, Fails, NoFault, Notes
    <2>2. SectionOK(SectionAfter)
      <3>1. CASE run.kind = "register"
        <4>1. After("state") \in Services /\ After("agent") \in Services  BY <2>1, <3>1, AfterType DEF Path
        <4>2. QED  BY <3>1, <4>1 DEF SectionOK, SectionAfter, Section
      <3>2. CASE run.kind # "register"
        BY <3>2 DEF SectionOK, SectionAfter
      <3>3. QED  BY <3>1, <3>2
    <2>3. SectionOK(record')  BY <1>1, <1>9, <2>2 DEF Record
    <2>4. QED  BY <2>1, <2>3, PlainStep
  <1>10. QED  BY <1>2, <1>3, <1>4, <1>5, <1>6, <1>7, <1>8, <1>9

LEMMA RecoverKeeps ==
  ASSUME JournalInv, StopCandidate \/ RecordBack \/ Validate \/ Recheck \/ Restart \/ Clean
  PROVE  JournalInv' /\ ForeignStay
  <1>1. SectionOK(record)  BY DEF JournalInv
  <1>2. CASE RecordBack
    <2>1. ~Idle /\ (Fault \/ UNCHANGED bounds) /\ Notes /\ UNCHANGED disk
      BY <1>2, NotIdle DEF RecordBack, Uncertain, NoFault, Notes
    <2>2. SectionOK(record')  BY <1>1, <1>2, <2>1 DEF RecordBack, JournalInv, RunOK
    <2>3. QED  BY <2>1, <2>2, PlainStep
  <1>3. CASE StopCandidate \/ Validate \/ Recheck \/ Restart \/ Clean
    <2>1. ~Idle /\ (Fault \/ UNCHANGED bounds) /\ Notes /\ UNCHANGED <<disk, record>>
      BY <1>3, NotIdle DEF StopCandidate, Validate, Recheck, Restart, Clean, Uncertain, NoFault, Notes
    <2>2. QED  BY <1>1, <2>1, PlainStep
  <1>4. QED  BY <1>2, <1>3

(* A mutation writes over what the plan read, and notes what it left.      *)
LEMMA ApplyKeeps ==
  ASSUME JournalInv, NEW p \in Path, Apply(p)
  PROVE  JournalInv' /\ ForeignStay
  <1>1. ~Idle /\ RunOK  BY NotIdle DEF Apply, JournalInv
  <1>2. CASE ~Unchanged(p)
    <2>1. Notes /\ UNCHANGED <<bounds, disk, record>>  BY <1>2 DEF Apply, Fails, Notes
    <2>2. QED  BY <1>1, <2>1, PlainStep DEF JournalInv
  <1>3. CASE Unchanged(p)
    <2>1. PICK content \in {disk[p], After(p)}, seen \in {disk[p], After(p), None} :
            /\ disk' = [disk EXCEPT ![p] = content]
            /\ run' = [[run EXCEPT !.written = Append(@, p), !.after[p] = content] EXCEPT !.after[p] = seen]
            /\ Fault \/ UNCHANGED bounds
      <3>1. PICK content \in {disk[p], After(p)} :
              LET wrote == [run EXCEPT !.written = Append(@, p), !.after[p] = content]
              IN  /\ disk' = [disk EXCEPT ![p] = content]
                  /\ \/ content = After(p) /\ run' = wrote /\ Advance /\ NoFault
                     \/ Fault /\ \E seen \in {content, None} : Fails([wrote EXCEPT !.after[p] = seen])
        BY <1>3 DEF Apply
      <3>2. CASE run' = [run EXCEPT !.written = Append(@, p), !.after[p] = content] /\ NoFault
        <4>1. run' = [[run EXCEPT !.written = Append(@, p), !.after[p] = content] EXCEPT !.after[p] = content]
          BY <1>1, <3>2 DEF RunOK, RunFields
        <4>2. QED  BY <3>1, <3>2, <4>1 DEF NoFault
      <3>3. CASE Fault /\ \E seen \in {content, None} :
                   run' = [[run EXCEPT !.written = Append(@, p), !.after[p] = content] EXCEPT !.after[p] = seen]
        BY <3>1, <3>3
      <3>4. QED  BY <3>1, <3>2, <3>3 DEF Fails
    <2>2. Same  BY <1>1, <2>1, Counted DEF Same, RunOK, RunFields, JournalInv
    <2>3. run'.after = [run.after EXCEPT ![p] = seen]  BY <1>1, <2>1 DEF RunOK, RunFields
    <2>4. /\ content \in Services \cup Configs \cup {Missing, Edited}
          /\ p = "config" => content \in Configs \cup {Missing}
      BY <1>1, AfterType DEF JournalInv, FilesOK
    <2>5. FilesOK(disk')  BY <2>1, <2>4 DEF JournalInv, FilesOK, Path
    <2>6. disk[p] = run.disk[p]  BY <1>3 DEF Unchanged
    <2>7. \A q \in Path : After(q)' = After(q)  BY <2>2, SameAfter
    <2>8. RunOK'
      <3>1. seen \in Services \cup Configs \cup {Missing, Edited, None}
        BY <1>1, AfterType DEF JournalInv, FilesOK
      <3>2. QED  BY <1>1, <2>2, <2>3, <3>1 DEF RunOK, Same
    <2>9. \A q \in Path : run'.after[q] \in {run'.disk[q], After(q)', None}
      BY <1>1, <2>2, <2>3, <2>6, <2>7 DEF Same, RunOK, JournalInv
    <2>10. UNCHANGED record  BY DEF Apply
    <2>11. JournalInv'
      BY <2>2, <2>5, <2>8, <2>9, <2>10 DEF JournalInv, Same
    <2>12. ForeignStay  BY <2>1, <2>6 DEF ForeignStay, JournalInv, FilesOK
    <2>13. QED  BY <2>11, <2>12
  <1>4. QED  BY <1>2, <1>3

(* A restore writes over what a mutation left, which is what the operation *)
(* found or writes.                                                        *)
LEMMA RestoreKeeps ==
  ASSUME JournalInv, Restore
  PROVE  JournalInv' /\ ForeignStay
  <1>1. ~Idle /\ RunOK  BY NotIdle DEF Restore, JournalInv
  <1>2. (Fault \/ UNCHANGED bounds) /\ Notes /\ UNCHANGED record
    BY DEF Restore, Uncertain, NoFault, Notes
  <1>3. CASE UNCHANGED disk
    BY <1>1, <1>2, <1>3, PlainStep DEF JournalInv
  <1>4. CASE ~UNCHANGED disk
    <2> DEFINE p == Last(run.written)
    <2>1. disk[p] = run.after[p] /\ disk' = [disk EXCEPT ![p] = run.disk[p]]
      BY <1>4 DEF Restore, Foreign
    <2>2. p \in Path  BY <1>4, <2>1 DEF JournalInv, FilesOK
    <2>3. None \notin Services \cup Configs \cup {Missing, Edited}
      BY RegistrationAssumption DEF Services, Configs
    <2>4. disk[p] \in {run.disk[p], After(p)}
      BY <1>1, <2>1, <2>2, <2>3 DEF JournalInv, FilesOK
    <2>5. FilesOK(disk')  BY <1>1, <2>1, <2>2 DEF JournalInv, FilesOK, RunOK, Path
    <2>6. JournalInv'  BY <1>1, <1>2, <2>5, NotesSame, StepKeeps DEF JournalInv
    <2>7. ForeignStay  BY <2>1, <2>2, <2>4 DEF ForeignStay, JournalInv, FilesOK
    <2>8. QED  BY <2>6, <2>7
  <1>5. QED  BY <1>3, <1>4

(* Somebody else's steps and the death of a command. *)
LEMMA OthersKeep ==
  ASSUME JournalInv, (\E p \in Path : Edit(p)) \/ Leave \/ Load \/ Review \/ Crash
  PROVE  JournalInv' /\ ForeignStay
  <1>1. CASE \E p \in Path : Edit(p)
    <2>1. PICK p \in Path : Edit(p)  BY <1>1
    <2>2. /\ bounds'.edits = bounds.edits + 1 /\ bounds'.edits \in Nat
          /\ bounds'.ops = bounds.ops /\ DOMAIN bounds' = DOMAIN bounds
      BY <2>1 DEF Edit, JournalInv, BoundFields
    <2>a. PICK content : /\ disk' = [disk EXCEPT ![p] = content]
                         /\ content \in {Missing} \cup
                              (IF p # "config" THEN {Edited} ELSE {Config(block, RestOf(disk[p]) + 1) : block \in {BlockOf(disk[p]), Edited}})
      BY <2>1 DEF Edit
    <2>3. content \in Configs \cup {Missing, Edited} /\ (p = "config" => content \in Configs \cup {Missing})
      <3>1. CASE p # "config"  BY <2>a, <3>1
      <3>2. CASE p = "config"
        <4>1. RestOf(disk[p]) \in Nat /\ BlockOf(disk[p]) \in Nat \cup {None, Edited}
          BY <3>2 DEF RestOf, BlockOf, JournalInv, FilesOK, Configs
        <4>2. QED  BY <2>a, <3>2, <4>1 DEF Config, Configs
      <3>3. QED  BY <3>1, <3>2
    <2>4. FilesOK(disk')  BY <2>a, <2>3 DEF JournalInv, FilesOK, Path
    <2>5. UNCHANGED <<run, todo, record>>  BY <2>1 DEF Edit
    <2>6. \A q \in Path : After(q)' = After(q)  BY <2>2, <2>5, SameAfter DEF Same
    <2>7. JournalInv'  BY <2>2, <2>4, <2>5, <2>6 DEF JournalInv, Idle, RunOK, SectionOK, FilesOK
    <2>8. bounds.edits # bounds'.edits  BY <2>2 DEF JournalInv
    <2>9. QED  BY <2>7, <2>8 DEF ForeignStay
  <1>2. CASE Leave \/ Load
    <2>1. bounds'.ops = bounds.ops /\ bounds'.edits \in Nat /\ DOMAIN bounds' = DOMAIN bounds /\ UNCHANGED <<disk, run, todo, record>>
      BY <1>2 DEF Leave, Load, JournalInv, BoundFields
    <2>2. \A q \in Path : After(q)' = After(q)  BY <2>1, SameAfter DEF Same
    <2>3. JournalInv'  BY <2>1, <2>2 DEF JournalInv, Idle, RunOK, SectionOK, FilesOK
    <2>4. QED  BY <2>1, <2>3 DEF ForeignStay
  <1>3. CASE Review
    <2>1. Idle /\ UNCHANGED <<todo, bounds, record>>
           /\ disk' = [disk EXCEPT !["state"] = Missing, !["legacy"] = Missing]
      BY <1>3 DEF Review
    <2>2. FilesOK(disk')  BY <2>1 DEF JournalInv, FilesOK, Path
    <2>3. QED  BY <2>1, <2>2 DEF JournalInv, Idle, ForeignStay, SectionOK
  <1>4. CASE Crash
    <2>1. Idle' /\ UNCHANGED <<disk, record>> /\ bounds'.ops = bounds.ops /\ bounds'.edits = bounds.edits /\ DOMAIN bounds' = DOMAIN bounds
      BY <1>4 DEF Crash, Idle, JournalInv, BoundFields
    <2>2. QED  BY <2>1 DEF JournalInv, ForeignStay, FilesOK, SectionOK
  <1>5. QED  BY <1>1, <1>2, <1>3, <1>4

(* A plan has seen nothing yet. *)
LEMMA BeginKeeps ==
  ASSUME JournalInv, (\E kind \in {"register", "detach"} : Begin(kind)) \/ DetachMissing
  PROVE  JournalInv' /\ ForeignStay
  <1>1. Idle /\ UNCHANGED <<disk, record>>  BY DEF Begin, DetachMissing
  <1>2. ForeignStay  BY <1>1 DEF ForeignStay
  <1>3. CASE DetachMissing
    BY <1>1, <1>2, <1>3 DEF DetachMissing, JournalInv, Idle, FilesOK, SectionOK
  <1>4. CASE \E kind \in {"register", "detach"} : Begin(kind)
    <2>1. PICK kind \in {"register", "detach"} : Begin(kind)  BY <1>4
    <2>2. bounds'.ops \in Nat /\ bounds'.ops = bounds.ops + 1 /\ bounds'.edits \in Nat /\ DOMAIN bounds' = BoundFields
      BY <2>1 DEF Begin, JournalInv, BoundFields
    <2>3. CASE ~May(kind)
      BY <1>1, <1>2, <2>1, <2>2, <2>3 DEF Begin, JournalInv, Idle, FilesOK, SectionOK
    <2>4. CASE May(kind)
      <3>1. run' = [NoRun EXCEPT !.kind = kind, !.disk = disk, !.record = record,
                      !.scope = IF record = None THEN bounds'.ops + 1 ELSE record.state.scope]
        BY <2>1, <2>4 DEF Begin
      <3>2. run'.kind = kind /\ run'.disk = disk /\ run'.record = record
             /\ run'.scope = (IF record = None THEN bounds'.ops + 1 ELSE record.state.scope)
             /\ run'.after = [p \in Path |-> None] /\ DOMAIN run' = RunFields
        BY <3>1 DEF NoRun, RunFields
      <3>3. run'.scope \in Nat  BY <2>2, <3>2 DEF JournalInv, SectionOK, Services
      <3>4. RunOK'  BY <1>1, <3>2, <3>3 DEF RunOK, JournalInv, FilesOK, SectionOK
      <3>5. \A p \in Path : run'.after[p] = None  BY <3>2
      <3>6. QED  BY <1>1, <1>2, <2>2, <3>4, <3>5 DEF JournalInv, FilesOK, SectionOK
    <2>5. QED  BY <2>3, <2>4
  <1>5. QED  BY <1>3, <1>4

LEMMA InitJournal == Init => JournalInv
  <1> SUFFICES ASSUME Init PROVE JournalInv
    OBVIOUS
  <1>1. Idle /\ DOMAIN bounds = BoundFields /\ bounds.ops \in Nat /\ bounds.edits \in Nat
    BY DEF Init, Idle, BoundFields
  <1>2. SectionOK(record)  BY DEF Init, SectionOK, Section, Served, Services
  <1>3. FilesOK(disk)
    BY DEF Init, FilesOK, Path, Config, Configs, Served, Services
  <1>4. QED  BY <1>1, <1>2, <1>3 DEF JournalInv

LEMMA NextKeeps == JournalInv /\ [Next]_vars => JournalInv' /\ (vars' = vars \/ ForeignStay)
  <1> SUFFICES ASSUME JournalInv, [Next]_vars PROVE JournalInv' /\ (vars' = vars \/ ForeignStay)
    OBVIOUS
  <1>1. CASE UNCHANGED vars
    BY <1>1 DEF vars, JournalInv, RunOK, FilesOK, SectionOK, Idle, After, Config, Served, RestOf
  <1>2. CASE \E p \in Path : Apply(p)  BY <1>2, ApplyKeeps
  <1>3. CASE Restore  BY <1>3, RestoreKeeps
  <1>4. CASE Observe \/ Prepare \/ Stop \/ VerifyAbsence \/ CheckGuards \/ Start \/ Readiness \/ Record
    BY <1>4, ExecuteKeeps
  <1>5. CASE StopCandidate \/ RecordBack \/ Validate \/ Recheck \/ Restart \/ Clean
    BY <1>5, RecoverKeeps
  <1>6. CASE (\E p \in Path : Edit(p)) \/ Leave \/ Load \/ Review \/ Crash
    BY <1>6, OthersKeep
  <1>7. CASE (\E kind \in {"register", "detach"} : Begin(kind)) \/ DetachMissing
    BY <1>7, BeginKeeps
  <1>8. QED  BY <1>1, <1>2, <1>3, <1>4, <1>5, <1>6, <1>7 DEF Next, Execute, Recover

(* Contents that are neither what an operation of the gateway registration *)
(* found nor what it writes are left as they are by it and by its          *)
(* recovery, for any number of operations, failures, edits and deaths.     *)
THEOREM ForeignContentsStay == Spec => EditsKept
  <1>1. JournalInv /\ [Next]_vars =>
          [\A p \in Path :
             ~Idle /\ disk[p] \notin {run.disk[p], After(p)} /\ bounds'.edits = bounds.edits => disk'[p] = disk[p]]_vars
    BY NextKeeps DEF ForeignStay
  <1>2. QED  BY <1>1, InitJournal, NextKeeps, PTL DEF Spec, EditsKept
----------------------------------------------------------------------------
(* What is left of a plan, from one of its steps on. *)

LegacyStep == IF run.disk["legacy"] = Missing THEN <<>> ELSE <<"legacy">>

OnRegisterPlan ==
  \/ todo = <<"observe", "prepare", "stop", "verify-absence", "guards", "state", "agent", "start", "readiness",
              "config", "record">> \o LegacyStep
  \/ todo = <<"prepare", "stop", "verify-absence", "guards", "state", "agent", "start", "readiness", "config",
              "record">> \o LegacyStep
  \/ todo = <<"stop", "verify-absence", "guards", "state", "agent", "start", "readiness", "config",
              "record">> \o LegacyStep
  \/ todo = <<"verify-absence", "guards", "state", "agent", "start", "readiness", "config", "record">> \o LegacyStep
  \/ todo = <<"guards", "state", "agent", "start", "readiness", "config", "record">> \o LegacyStep
  \/ todo = <<"state", "agent", "start", "readiness", "config", "record">> \o LegacyStep
  \/ todo = <<"agent", "start", "readiness", "config", "record">> \o LegacyStep
  \/ todo = <<"start", "readiness", "config", "record">> \o LegacyStep
  \/ todo = <<"readiness", "config", "record">> \o LegacyStep
  \/ todo = <<"config", "record">> \o LegacyStep
  \/ todo = <<"record">> \o LegacyStep
  \/ todo = <<"legacy">>

DetachFiles == IF run.disk["config"] = Missing THEN <<"agent", "record">> ELSE <<"config", "agent", "record">>

OnDetachPlan ==
  \/ todo = <<"observe", "stop", "verify-absence", "guards">> \o DetachFiles
  \/ todo = <<"stop", "verify-absence", "guards">> \o DetachFiles
  \/ todo = <<"verify-absence", "guards">> \o DetachFiles
  \/ todo = <<"guards">> \o DetachFiles
  \/ todo = <<"config", "agent", "record">> /\ run.disk["config"] # Missing
  \/ todo = <<"agent", "record">>
  \/ todo = <<"record">>

(* The steps after which a change stands. *)
AfterState == {"agent", "start", "readiness", "config", "record", "legacy"}
AfterAgent == {"start", "readiness", "config", "record", "legacy"}
AfterStart == {"readiness", "config", "record", "legacy"}
AfterConfig == {"record", "legacy"}

(* What a registration that nobody disturbed has done when a step is next. *)
Registered(next) ==
  /\ next \in AfterState => disk["state"] = After("state") /\ run.after["state"] = After("state")
  /\ next \in AfterAgent => disk["agent"] = After("agent")
  /\ next \in AfterStart => launchd = After("state")
  /\ next \in AfterConfig => disk["config"] = After("config")
  /\ next = "legacy" => record = SectionAfter

Detached(next) ==
  /\ next \in {"agent", "record"} => BlockOf(disk["config"]) = None
  /\ next = "record" => disk["agent"] = Missing

ServedNow ==
  /\ launchd = run.after["state"] /\ record.state = launchd
  /\ BlockOf(disk["config"]) = launchd.scope /\ record.block = launchd.scope

(* An operation that goes forward is on its plan; one that did not fail    *)
(* and met nobody has done what its plan says.                             *)
OnPlan ==
  IF run.kind = "register" THEN OnRegisterPlan ELSE OnDetachPlan

PlanInv ==
  exit = 0 =>
    /\ ~Idle => OnPlan
    /\ ~Idle /\ edited = {} => IF run.kind = "register" THEN Registered(Head(todo)) ELSE Detached(Head(todo))
    /\ Idle /\ edited = {} /\ run.kind = "register" => ServedNow

----------------------------------------------------------------------------
(* What a failed operation still has to undo. *)

CleanPart == IF run.kind = "register" /\ run.record = None THEN <<"clean">> ELSE <<>>
RestartPart == (IF run.was # None /\ run.stopped THEN <<"restart">> ELSE <<>>) \o CleanPart
RecheckPart == <<"recheck">> \o RestartPart
RestorePart == [k \in DOMAIN run.written |-> "restore"] \o RecheckPart
ValidatePart == <<"validate">> \o RestorePart
RecordPart == (IF run.recorded THEN <<"record-back">> ELSE <<>>) \o ValidatePart
StopPart == (IF run.started THEN <<"stop-candidate">> ELSE <<>>) \o RecordPart

(* The files and the section before the operation belong together. *)
Fits(files, section) ==
  /\ files["agent"] = section.agent
  /\ files["state"] = section.state
  /\ section.block # None => BlockOf(files["config"]) = section.block
  /\ BlockOf(files["config"]) \in {None, section.state.scope}

Fresh(files) ==
  /\ files["agent"] = Missing /\ files["state"] = Missing /\ files["legacy"] = Missing
  /\ BlockOf(files["config"]) = None

Planned ==
  IF run.record = None THEN run.kind = "register" /\ Fresh(run.disk)
  ELSE Fits(run.disk, run.record) /\ run.scope = run.record.state.scope

(* What launchd may run before the operation and after its recovery. *)
Prior == IF run.record = None THEN {None} ELSE {None, run.disk["state"]}

(* The files that the journal does not name are as they were. *)
Kept ==
  /\ run.written \in Seq(Path)
  /\ \A p \in Path \ ToSet(run.written) : disk[p] = run.disk[p]
  /\ run.stopped \in BOOLEAN /\ run.started \in BOOLEAN /\ run.recorded \in BOOLEAN

(* What was stopped runs no more, and what was not stopped still runs. *)
Quiet == IF run.was # None /\ ~run.stopped THEN launchd = run.was ELSE launchd = None

Before == {"observe", "prepare", "stop"}

Going(next) ==
  /\ ~run.recorded => record = run.record
  /\ next # "legacy" => ~run.recorded
  /\ next = "observe" => run.written = <<>>
  /\ next = "observe" => launchd \in Prior \cup (IF run.record = None THEN {Other} ELSE {})
  /\ next # "observe" => run.was \in Prior
  /\ next # "observe" /\ ~run.started => Quiet
  /\ next \notin Before => run.stopped \/ run.was = None
  /\ next \in Before => ~run.stopped
  /\ next \notin AfterStart => ~run.started
  /\ run.kind = "detach" => ~run.started

Recovering ==
  /\ \/ todo = StopPart /\ (~run.recorded => record = run.record) /\ (~run.started => Quiet)
     \/ todo = RecordPart /\ (~run.recorded => record = run.record) /\ Quiet
     \/ todo = ValidatePart /\ record = run.record /\ Quiet
     \/ todo = RestorePart /\ record = run.record /\ Quiet
     \/ todo = RestartPart /\ record = run.record /\ Quiet /\ run.written = <<>>
     \/ todo = CleanPart /\ record = run.record /\ launchd \in Prior /\ run.written = <<>>
  /\ run.started => run.stopped \/ run.was = None
  /\ run.was \in Prior

SureInv ==
  sure =>
    /\ edited = {}
    /\ Idle => Coherent /\ (exit = 4 /\ record = None => MayRegister)
    /\ ~Idle => /\ Planned /\ Kept /\ exit \in {0, 4}
                /\ exit = 0 => Going(Head(todo))
                /\ exit = 4 => Recovering


----------------------------------------------------------------------------
(* The next step of a plan. *)

(* How the steps that are left begin. *)
LEMMA Heads ==
  ASSUME NEW left, NEW rest \in Seq(Effects)
  PROVE  /\ left = <<"prepare", "stop", "verify-absence", "guards", "state", "agent", "start", "readiness", "config", "record">> \o rest => left # <<>> /\ Head(left) = "prepare"
         /\ left = <<"stop", "verify-absence", "guards", "state", "agent", "start", "readiness", "config", "record">> \o rest => left # <<>> /\ Head(left) = "stop"
         /\ left = <<"verify-absence", "guards", "state", "agent", "start", "readiness", "config", "record">> \o rest => left # <<>> /\ Head(left) = "verify-absence"
         /\ left = <<"guards", "state", "agent", "start", "readiness", "config", "record">> \o rest => left # <<>> /\ Head(left) = "guards"
         /\ left = <<"state", "agent", "start", "readiness", "config", "record">> \o rest => left # <<>> /\ Head(left) = "state"
         /\ left = <<"agent", "start", "readiness", "config", "record">> \o rest => left # <<>> /\ Head(left) = "agent"
         /\ left = <<"start", "readiness", "config", "record">> \o rest => left # <<>> /\ Head(left) = "start"
         /\ left = <<"readiness", "config", "record">> \o rest => left # <<>> /\ Head(left) = "readiness"
         /\ left = <<"config", "record">> \o rest => left # <<>> /\ Head(left) = "config"
         /\ left = <<"record">> \o rest => left # <<>> /\ Head(left) = "record"
         /\ left = <<"stop", "verify-absence", "guards">> \o rest => left # <<>> /\ Head(left) = "stop"
         /\ left = <<"verify-absence", "guards">> \o rest => left # <<>> /\ Head(left) = "verify-absence"
         /\ left = <<"guards">> \o rest => left # <<>> /\ Head(left) = "guards"
         /\ left = <<"legacy">> => left # <<>> /\ Head(left) = "legacy"
         /\ left = <<"config", "agent", "record">> => left # <<>> /\ Head(left) = "config"
         /\ left = <<"agent", "record">> => left # <<>> /\ Head(left) = "agent"
         /\ left = <<"record">> => left # <<>> /\ Head(left) = "record"
  OBVIOUS

LEMMA LegacyStepSeq == LegacyStep \in Seq(Effects) /\ (LegacyStep = <<>> \/ LegacyStep = <<"legacy">>)
  <1>1. "legacy" \in Effects  BY DEF Effects, Path
  <1>2. <<"legacy">> \in Seq(Effects)  BY <1>1
  <1>3. QED  BY <1>2 DEF LegacyStep

LEMMA RegisterNext ==
  ASSUME OnRegisterPlan, todo' = Tail(todo), LegacyStep' = LegacyStep
  PROVE  /\ ~Idle' => OnRegisterPlan'
         /\ Head(todo) = "observe" => ~Idle' /\ Head(todo') = "prepare"
         /\ Head(todo) = "prepare" => ~Idle' /\ Head(todo') = "stop"
         /\ Head(todo) = "stop" => ~Idle' /\ Head(todo') = "verify-absence"
         /\ Head(todo) = "verify-absence" => ~Idle' /\ Head(todo') = "guards"
         /\ Head(todo) = "guards" => ~Idle' /\ Head(todo') = "state"
         /\ Head(todo) = "state" => ~Idle' /\ Head(todo') = "agent"
         /\ Head(todo) = "agent" => ~Idle' /\ Head(todo') = "start"
         /\ Head(todo) = "start" => ~Idle' /\ Head(todo') = "readiness"
         /\ Head(todo) = "readiness" => ~Idle' /\ Head(todo') = "config"
         /\ Head(todo) = "config" => ~Idle' /\ Head(todo') = "record"
         /\ Head(todo) = "record" /\ ~Idle' => Head(todo') = "legacy"
         /\ Head(todo) = "legacy" => Idle'
         /\ Head(todo) \in {"observe", "prepare", "stop", "verify-absence", "guards", "state", "agent", "start", "readiness", "config", "record", "legacy"}
  <1>0. LegacyStep \in Seq(Effects) /\ (LegacyStep = <<>> \/ LegacyStep = <<"legacy">>)  BY LegacyStepSeq
  <1>1. CASE todo = <<"observe", "prepare", "stop", "verify-absence", "guards", "state", "agent", "start", "readiness", "config", "record">> \o LegacyStep
    <2>1. Head(todo) = "observe" /\ todo' = <<"prepare", "stop", "verify-absence", "guards", "state", "agent", "start", "readiness", "config", "record">> \o LegacyStep  BY <1>0, <1>1
    <2>2. todo' # <<>> /\ Head(todo') = "prepare"  BY <1>0, <2>1, Heads
    <2>3. OnRegisterPlan'  BY <2>1 DEF OnRegisterPlan
    <2>4. QED  BY <2>1, <2>2, <2>3 DEF Idle
  <1>2. CASE todo = <<"prepare", "stop", "verify-absence", "guards", "state", "agent", "start", "readiness", "config", "record">> \o LegacyStep
    <2>1. Head(todo) = "prepare" /\ todo' = <<"stop", "verify-absence", "guards", "state", "agent", "start", "readiness", "config", "record">> \o LegacyStep  BY <1>0, <1>2
    <2>2. todo' # <<>> /\ Head(todo') = "stop"  BY <1>0, <2>1, Heads
    <2>3. OnRegisterPlan'  BY <2>1 DEF OnRegisterPlan
    <2>4. QED  BY <2>1, <2>2, <2>3 DEF Idle
  <1>3. CASE todo = <<"stop", "verify-absence", "guards", "state", "agent", "start", "readiness", "config", "record">> \o LegacyStep
    <2>1. Head(todo) = "stop" /\ todo' = <<"verify-absence", "guards", "state", "agent", "start", "readiness", "config", "record">> \o LegacyStep  BY <1>0, <1>3
    <2>2. todo' # <<>> /\ Head(todo') = "verify-absence"  BY <1>0, <2>1, Heads
    <2>3. OnRegisterPlan'  BY <2>1 DEF OnRegisterPlan
    <2>4. QED  BY <2>1, <2>2, <2>3 DEF Idle
  <1>4. CASE todo = <<"verify-absence", "guards", "state", "agent", "start", "readiness", "config", "record">> \o LegacyStep
    <2>1. Head(todo) = "verify-absence" /\ todo' = <<"guards", "state", "agent", "start", "readiness", "config", "record">> \o LegacyStep  BY <1>0, <1>4
    <2>2. todo' # <<>> /\ Head(todo') = "guards"  BY <1>0, <2>1, Heads
    <2>3. OnRegisterPlan'  BY <2>1 DEF OnRegisterPlan
    <2>4. QED  BY <2>1, <2>2, <2>3 DEF Idle
  <1>5. CASE todo = <<"guards", "state", "agent", "start", "readiness", "config", "record">> \o LegacyStep
    <2>1. Head(todo) = "guards" /\ todo' = <<"state", "agent", "start", "readiness", "config", "record">> \o LegacyStep  BY <1>0, <1>5
    <2>2. todo' # <<>> /\ Head(todo') = "state"  BY <1>0, <2>1, Heads
    <2>3. OnRegisterPlan'  BY <2>1 DEF OnRegisterPlan
    <2>4. QED  BY <2>1, <2>2, <2>3 DEF Idle
  <1>6. CASE todo = <<"state", "agent", "start", "readiness", "config", "record">> \o LegacyStep
    <2>1. Head(todo) = "state" /\ todo' = <<"agent", "start", "readiness", "config", "record">> \o LegacyStep  BY <1>0, <1>6
    <2>2. todo' # <<>> /\ Head(todo') = "agent"  BY <1>0, <2>1, Heads
    <2>3. OnRegisterPlan'  BY <2>1 DEF OnRegisterPlan
    <2>4. QED  BY <2>1, <2>2, <2>3 DEF Idle
  <1>7. CASE todo = <<"agent", "start", "readiness", "config", "record">> \o LegacyStep
    <2>1. Head(todo) = "agent" /\ todo' = <<"start", "readiness", "config", "record">> \o LegacyStep  BY <1>0, <1>7
    <2>2. todo' # <<>> /\ Head(todo') = "start"  BY <1>0, <2>1, Heads
    <2>3. OnRegisterPlan'  BY <2>1 DEF OnRegisterPlan
    <2>4. QED  BY <2>1, <2>2, <2>3 DEF Idle
  <1>8. CASE todo = <<"start", "readiness", "config", "record">> \o LegacyStep
    <2>1. Head(todo) = "start" /\ todo' = <<"readiness", "config", "record">> \o LegacyStep  BY <1>0, <1>8
    <2>2. todo' # <<>> /\ Head(todo') = "readiness"  BY <1>0, <2>1, Heads
    <2>3. OnRegisterPlan'  BY <2>1 DEF OnRegisterPlan
    <2>4. QED  BY <2>1, <2>2, <2>3 DEF Idle
  <1>9. CASE todo = <<"readiness", "config", "record">> \o LegacyStep
    <2>1. Head(todo) = "readiness" /\ todo' = <<"config", "record">> \o LegacyStep  BY <1>0, <1>9
    <2>2. todo' # <<>> /\ Head(todo') = "config"  BY <1>0, <2>1, Heads
    <2>3. OnRegisterPlan'  BY <2>1 DEF OnRegisterPlan
    <2>4. QED  BY <2>1, <2>2, <2>3 DEF Idle
  <1>10. CASE todo = <<"config", "record">> \o LegacyStep
    <2>1. Head(todo) = "config" /\ todo' = <<"record">> \o LegacyStep  BY <1>0, <1>10
    <2>2. todo' # <<>> /\ Head(todo') = "record"  BY <1>0, <2>1, Heads
    <2>3. OnRegisterPlan'  BY <2>1 DEF OnRegisterPlan
    <2>4. QED  BY <2>1, <2>2, <2>3 DEF Idle
  <1>11. CASE todo = <<"record">> \o LegacyStep
    <2>1. Head(todo) = "record" /\ todo' = LegacyStep  BY <1>0, <1>11
    <2>2. todo' = <<>> \/ (todo' = <<"legacy">> /\ Head(todo') = "legacy")  BY <1>0, <2>1, Heads
    <2>3. QED  BY <2>1, <2>2 DEF Idle, OnRegisterPlan
  <1>12. CASE todo = <<"legacy">>
    <2>1. Head(todo) = "legacy" /\ todo' = <<>>  BY <1>12
    <2>2. QED  BY <2>1 DEF Idle
  <1>13. QED  BY <1>1, <1>2, <1>3, <1>4, <1>5, <1>6, <1>7, <1>8, <1>9, <1>10, <1>11, <1>12 DEF OnRegisterPlan

LEMMA DetachNext ==
  ASSUME OnDetachPlan, todo' = Tail(todo), DetachFiles' = DetachFiles, run'.disk = run.disk
  PROVE  /\ ~Idle' => OnDetachPlan'
         /\ Head(todo) = "observe" => ~Idle' /\ Head(todo') = "stop"
         /\ Head(todo) = "stop" => ~Idle' /\ Head(todo') = "verify-absence"
         /\ Head(todo) = "verify-absence" => ~Idle' /\ Head(todo') = "guards"
         /\ Head(todo) = "guards" => /\ ~Idle'
                                     /\ Head(todo') \in {"config", "agent"}
                                     /\ (Head(todo') = "agent" => run.disk["config"] = Missing)
         /\ Head(todo) = "config" => ~Idle' /\ Head(todo') = "agent"
         /\ Head(todo) = "agent" => ~Idle' /\ Head(todo') = "record"
         /\ Head(todo) = "record" => Idle'
         /\ Head(todo) \in {"observe", "stop", "verify-absence", "guards", "config", "agent", "record"}
  <1>0. /\ DetachFiles \in Seq(Effects) /\ DetachFiles # <<>>
        /\ \/ DetachFiles = <<"agent", "record">> /\ run.disk["config"] = Missing
           \/ DetachFiles = <<"config", "agent", "record">> /\ run.disk["config"] # Missing
    <2>1. "config" \in Effects /\ "agent" \in Effects /\ "record" \in Effects  BY DEF Effects, Path
    <2>2. <<"agent", "record">> \in Seq(Effects) /\ <<"config", "agent", "record">> \in Seq(Effects)  BY <2>1
    <2>3. QED  BY <2>2 DEF DetachFiles
  <1>1. CASE todo = <<"observe", "stop", "verify-absence", "guards">> \o DetachFiles
    <2>1. Head(todo) = "observe" /\ todo' = <<"stop", "verify-absence", "guards">> \o DetachFiles  BY <1>0, <1>1
    <2>2. todo' # <<>> /\ Head(todo') = "stop"  BY <1>0, <2>1, Heads
    <2>3. OnDetachPlan'  BY <2>1 DEF OnDetachPlan
    <2>4. QED  BY <2>1, <2>2, <2>3 DEF Idle
  <1>2. CASE todo = <<"stop", "verify-absence", "guards">> \o DetachFiles
    <2>1. Head(todo) = "stop" /\ todo' = <<"verify-absence", "guards">> \o DetachFiles  BY <1>0, <1>2
    <2>2. todo' # <<>> /\ Head(todo') = "verify-absence"  BY <1>0, <2>1, Heads
    <2>3. OnDetachPlan'  BY <2>1 DEF OnDetachPlan
    <2>4. QED  BY <2>1, <2>2, <2>3 DEF Idle
  <1>3. CASE todo = <<"verify-absence", "guards">> \o DetachFiles
    <2>1. Head(todo) = "verify-absence" /\ todo' = <<"guards">> \o DetachFiles  BY <1>0, <1>3
    <2>2. todo' # <<>> /\ Head(todo') = "guards"  BY <1>0, <2>1, Heads
    <2>3. OnDetachPlan'  BY <2>1 DEF OnDetachPlan
    <2>4. QED  BY <2>1, <2>2, <2>3 DEF Idle
  <1>4. CASE todo = <<"guards">> \o DetachFiles
    <2>1. Head(todo) = "guards" /\ todo' = DetachFiles  BY <1>0, <1>4
    <2>2. CASE DetachFiles = <<"agent", "record">> /\ run.disk["config"] = Missing
      <3>1. todo' # <<>> /\ Head(todo') = "agent"  BY <1>0, <2>1, <2>2, Heads
      <3>2. OnDetachPlan'  BY <2>1, <2>2 DEF OnDetachPlan
      <3>3. QED  BY <2>1, <2>2, <3>1, <3>2 DEF Idle
    <2>3. CASE DetachFiles = <<"config", "agent", "record">> /\ run.disk["config"] # Missing
      <3>1. todo' # <<>> /\ Head(todo') = "config"  BY <1>0, <2>1, <2>3, Heads
      <3>2. OnDetachPlan'  BY <2>1, <2>3 DEF OnDetachPlan
      <3>3. QED  BY <2>1, <3>1, <3>2 DEF Idle
    <2>4. QED  BY <1>0, <2>2, <2>3
  <1>5. CASE todo = <<"config", "agent", "record">>
    <2>1. Head(todo) = "config" /\ todo' = <<"agent", "record">>  BY <1>5
    <2>2. todo' # <<>> /\ Head(todo') = "agent"  BY <1>0, <2>1, Heads
    <2>3. QED  BY <2>1, <2>2 DEF Idle, OnDetachPlan
  <1>6. CASE todo = <<"agent", "record">>
    <2>1. Head(todo) = "agent" /\ todo' = <<"record">>  BY <1>6
    <2>2. todo' # <<>> /\ Head(todo') = "record"  BY <1>0, <2>1, Heads
    <2>3. QED  BY <2>1, <2>2 DEF Idle, OnDetachPlan
  <1>7. CASE todo = <<"record">>
    <2>1. Head(todo) = "record" /\ todo' = <<>>  BY <1>7
    <2>2. QED  BY <2>1 DEF Idle
  <1>8. QED  BY <1>1, <1>2, <1>3, <1>4, <1>5, <1>6, <1>7 DEF OnDetachPlan


----------------------------------------------------------------------------
(* Forward: an operation does what its plan says, in its order. *)

LEMMA Different ==
  /\ \A s \in Services : s \notin {Missing, Edited, None} /\ s # Other
  /\ \A c \in Configs : c # Missing
  BY RegistrationAssumption DEF Services, Configs

(* The rest of the plan, after a step that succeeds. *)
Ahead ==
  /\ Idle' => Head(todo) \in {"record", "legacy"}
  /\ ~Idle' => OnPlan'
  /\ run.kind = "register" =>
       /\ Head(todo) = "observe" => ~Idle' /\ Head(todo') = "prepare"
       /\ Head(todo) = "prepare" => ~Idle' /\ Head(todo') = "stop"
       /\ Head(todo) = "stop" => ~Idle' /\ Head(todo') = "verify-absence"
       /\ Head(todo) = "verify-absence" => ~Idle' /\ Head(todo') = "guards"
       /\ Head(todo) = "guards" => ~Idle' /\ Head(todo') = "state"
       /\ Head(todo) = "state" => ~Idle' /\ Head(todo') = "agent"
       /\ Head(todo) = "agent" => ~Idle' /\ Head(todo') = "start"
       /\ Head(todo) = "start" => ~Idle' /\ Head(todo') = "readiness"
       /\ Head(todo) = "readiness" => ~Idle' /\ Head(todo') = "config"
       /\ Head(todo) = "config" => ~Idle' /\ Head(todo') = "record"
       /\ Head(todo) = "record" => Idle' \/ Head(todo') = "legacy"
       /\ Head(todo) = "legacy" => Idle'
  /\ run.kind # "register" =>
       /\ Head(todo) = "observe" => ~Idle' /\ Head(todo') = "stop"
       /\ Head(todo) = "stop" => ~Idle' /\ Head(todo') = "verify-absence"
       /\ Head(todo) = "verify-absence" => ~Idle' /\ Head(todo') = "guards"
       /\ Head(todo) = "guards" => /\ ~Idle'
                                   /\ Head(todo') \in {"config", "agent"}
                                   /\ (Head(todo') = "agent" => run.disk["config"] = Missing)
       /\ Head(todo) = "config" => ~Idle' /\ Head(todo') = "agent"
       /\ Head(todo) = "agent" => ~Idle' /\ Head(todo') = "record"
       /\ Head(todo) = "record" => Idle'

(* The steps of the plans. *)
LEMMA PlanHeads ==
  ASSUME PlanInv, ~Idle, exit = 0
  PROVE  /\ run.kind = "register" =>
              Head(todo) \in {"observe", "prepare", "stop", "verify-absence", "guards", "state", "agent", "start",
                              "readiness", "config", "record", "legacy"}
         /\ run.kind # "register" =>
              Head(todo) \in {"observe", "stop", "verify-absence", "guards", "config", "agent", "record"}
  <1>1. CASE run.kind = "register"
    <2>1. OnRegisterPlan  BY <1>1 DEF PlanInv, OnPlan
    <2>2. PICK L \in Seq(Effects) : L = LegacyStep  BY LegacyStepSeq
    <2>3. QED  BY <1>1, <2>1, <2>2 DEF OnRegisterPlan
  <1>2. CASE run.kind # "register"
    <2>1. OnDetachPlan  BY <1>2 DEF PlanInv, OnPlan
    <2>2. PICK L \in Seq(Effects) : L = DetachFiles
      <3>1. "config" \in Effects /\ "agent" \in Effects /\ "record" \in Effects  BY DEF Effects, Path
      <3>2. <<"agent", "record">> \in Seq(Effects) /\ <<"config", "agent", "record">> \in Seq(Effects)  BY <3>1
      <3>3. QED  BY <3>2 DEF DetachFiles
    <2>3. QED  BY <1>2, <2>1, <2>2 DEF OnDetachPlan
  <1>3. QED  BY <1>1, <1>2

LEMMA GoesAhead ==
  ASSUME PlanInv, ~Idle, exit = 0, Same, Advance
  PROVE  Ahead
  <1>1. run'.kind = run.kind /\ run'.disk = run.disk /\ todo' = Tail(todo)  BY DEF Same, Advance
  <1>2. LegacyStep' = LegacyStep /\ DetachFiles' = DetachFiles  BY <1>1 DEF LegacyStep, DetachFiles
  <1>3. CASE run.kind = "register"
    <2>1. OnRegisterPlan  BY <1>3 DEF PlanInv, OnPlan
    <2>2. QED  BY <1>1, <1>2, <1>3, <2>1, RegisterNext DEF Ahead, OnPlan
  <1>4. CASE run.kind # "register"
    <2>1. OnDetachPlan  BY <1>4 DEF PlanInv, OnPlan
    <2>2. /\ Idle' => Head(todo) \in {"record", "legacy"}
          /\ ~Idle' => OnDetachPlan'
      BY <1>1, <1>2, <2>1, DetachNext
    <2>3. ~Idle' => OnPlan'  BY <1>1, <1>4, <2>2 DEF OnPlan
    <2>4. QED  BY <1>1, <1>2, <1>4, <2>1, <2>2, <2>3, DetachNext DEF Ahead
  <1>5. QED  BY <1>3, <1>4

(* An operation that failed has left its plan. *)
LEMMA OffPlan == ASSUME exit' # 0 PROVE PlanInv'
  BY DEF PlanInv

LEMMA EndsOff == ASSUME NEW code \in {2, 3, 5}, Ends(code) PROVE exit' # 0
  BY DEF Ends

LEMMA FailsOff == ASSUME NEW r, Fails(r) PROVE exit' # 0
  BY DEF Fails

(* The steps before the first change. *)
LEMMA EarlyPlan ==
  ASSUME JournalInv, PlanInv, Observe \/ Prepare \/ Stop \/ VerifyAbsence \/ CheckGuards
  PROVE  PlanInv'
  <1>1. ~Idle /\ (Fault \/ UNCHANGED bounds) /\ Notes /\ UNCHANGED disk
    <2>1. ~Idle /\ UNCHANGED disk  BY NotIdle DEF Observe, Prepare, Stop, VerifyAbsence, CheckGuards
    <2>2. CASE Observe  BY <2>1, <2>2 DEF Observe, NoFault, Notes
    <2>3. CASE Prepare  BY <2>1, <2>3 DEF Prepare, Fails, NoFault, Notes
    <2>4. CASE Stop  BY <2>1, <2>4 DEF Stop, NoFault, Notes
    <2>5. CASE VerifyAbsence  BY <2>1, <2>5 DEF VerifyAbsence, Unconfirmed, Fails, NoFault, Notes
    <2>6. CASE CheckGuards  BY <2>1, <2>6 DEF CheckGuards, Fails, Notes
    <2>7. QED  BY <2>2, <2>3, <2>4, <2>5, <2>6
  <1>2. Same  BY <1>1, NotesSame
  <1>3. Advance \/ exit' # 0
    <2>1. CASE Observe  BY <2>1, EndsOff DEF Observe
    <2>2. CASE Prepare  BY <2>2, FailsOff DEF Prepare
    <2>3. CASE Stop  BY <2>3, EndsOff DEF Stop
    <2>4. CASE VerifyAbsence  BY <2>4, EndsOff, FailsOff DEF VerifyAbsence, Unconfirmed
    <2>5. CASE CheckGuards  BY <2>5, FailsOff DEF CheckGuards
    <2>6. QED  BY <2>1, <2>2, <2>3, <2>4, <2>5
  <1>4. CASE exit' # 0  BY <1>4, OffPlan
  <1>5. CASE Advance /\ exit' = 0
    <2>1. exit = 0 /\ edited' = edited  BY <1>5 DEF Advance
    <2>2. Ahead  BY <1>1, <1>2, <1>5, <2>1, GoesAhead
    <2>3. Head(todo) \in {"observe", "prepare", "stop", "verify-absence", "guards"}
      BY DEF Observe, Prepare, Stop, VerifyAbsence, CheckGuards, At
    <2>4. ~Idle' /\ OnPlan'  BY <2>2, <2>3 DEF Ahead
    <2>5. CASE run.kind = "register"
      <3>1. Head(todo') \in {"prepare", "stop", "verify-absence", "guards", "state"}
        BY <2>2, <2>3, <2>5 DEF Ahead
      <3>2. Registered(Head(todo))'  BY <3>1 DEF Registered, AfterState, AfterAgent, AfterStart, AfterConfig
      <3>3. QED  BY <1>2, <2>4, <2>5, <3>2 DEF PlanInv, Same
    <2>6. CASE run.kind # "register"
      <3>1. Head(todo) \in {"observe", "stop", "verify-absence", "guards"}
        BY <1>1, <2>1, <2>3, <2>6, PlanHeads
      <3>2. CASE Head(todo') # "agent"
        <4>0. Head(todo) = "guards" => Head(todo') = "config"  BY <2>2, <2>6, <3>2 DEF Ahead
        <4>1. Head(todo') \in {"stop", "verify-absence", "guards", "config"}
          BY <2>2, <2>6, <3>1, <4>0 DEF Ahead
        <4>2. Detached(Head(todo))'  BY <4>1 DEF Detached
        <4>3. QED  BY <1>2, <2>4, <2>6, <4>2 DEF PlanInv, Same
      <3>3. CASE Head(todo') = "agent"
        <4>1. Head(todo) = "guards" /\ run.disk["config"] = Missing  BY <2>2, <2>6, <3>1, <3>3 DEF Ahead
        <4>2. CheckGuards  BY <4>1 DEF Observe, Prepare, Stop, VerifyAbsence, At
        <4>3. Current  BY <1>5, <4>2, FailsOff DEF CheckGuards
        <4>4. disk["config"] = Missing  BY <4>1, <4>3 DEF Current, Guards
        <4>5. disk'["config"] = Missing  BY <1>1, <4>4
        <4>6. BlockOf(disk["config"])' = None  BY <4>5 DEF BlockOf
        <4>7. Detached(Head(todo))'  BY <3>3, <4>6 DEF Detached
        <4>8. QED  BY <1>2, <2>4, <2>6, <4>7 DEF PlanInv, Same
      <3>4. QED  BY <3>2, <3>3
    <2>7. QED  BY <2>5, <2>6
  <1>6. QED  BY <1>3, <1>4, <1>5


(* A change to a file that succeeds. *)
LEMMA AppliedTo ==
  ASSUME JournalInv, NEW p \in Path, Apply(p), exit' = 0
  PROVE  /\ ~Idle /\ Head(todo) = p /\ Unchanged(p)
         /\ disk' = [disk EXCEPT ![p] = After(p)]
         /\ run' = [run EXCEPT !.written = Append(@, p), !.after[p] = After(p)]
         /\ Advance /\ UNCHANGED <<bounds, record, launchd>>
  <1>1. ~Idle /\ Head(todo) = p  BY DEF Apply, At
  <1>2. Unchanged(p)  BY FailsOff DEF Apply
  <1>3. PICK content \in {disk[p], After(p)} :
          LET wrote == [run EXCEPT !.written = Append(@, p), !.after[p] = content]
          IN  /\ disk' = [disk EXCEPT ![p] = content]
              /\ \/ content = After(p) /\ run' = wrote /\ Advance /\ NoFault
                 \/ Fault /\ \E seen \in {content, None} : Fails([wrote EXCEPT !.after[p] = seen])
    BY <1>2 DEF Apply
  <1>4. content = After(p) /\ run' = [run EXCEPT !.written = Append(@, p), !.after[p] = content] /\ Advance /\ NoFault
    BY <1>3, FailsOff
  <1>5. QED  BY <1>1, <1>2, <1>3, <1>4 DEF Apply, NoFault

LEMMA AppliedFacts ==
  ASSUME JournalInv, NEW p \in Path, Apply(p), exit' = 0
  PROVE  /\ Same /\ exit = 0 /\ edited' = edited /\ UNCHANGED <<record, launchd>>
         /\ disk'[p] = After(p) /\ run'.after[p] = After(p)
         /\ \A q \in Path : After(q)' = After(q)
         /\ \A q \in Path \ {p} : disk'[q] = disk[q] /\ run'.after[q] = run.after[q]
  <1>1. RunOK /\ ~Idle  BY AppliedTo DEF JournalInv
  <1>2. Same  BY <1>1, AppliedTo DEF Same, RunOK, RunFields, JournalInv
  <1>3. \A q \in Path : After(q)' = After(q)  BY <1>2, SameAfter
  <1>4. run'.after = [run.after EXCEPT ![p] = After(p)]  BY <1>1, AppliedTo DEF RunOK, RunFields
  <1>5. disk \in [Path -> Services \cup Configs \cup {Missing, Edited}]  BY DEF JournalInv, FilesOK
  <1>6. run.after \in [Path -> Services \cup Configs \cup {Missing, Edited, None}]  BY <1>1 DEF RunOK
  <1>7. \A q \in Path \ {p} : run'.after[q] = run.after[q]  BY <1>4, <1>6
  <1>8. run'.after[p] = After(p)  BY <1>4, <1>6
  <1>9. exit = 0 /\ edited' = edited /\ UNCHANGED <<record, launchd>>  BY AppliedTo DEF Advance
  <1>10. QED  BY <1>2, <1>3, <1>5, <1>7, <1>8, <1>9, AppliedTo

(* The blocks and the rest of the Codex configuration that is written. *)
LEMMA AfterConfigIs ==
  ASSUME JournalInv, ~Idle
  PROVE  BlockOf(After("config")) = IF run.kind = "register" THEN run.scope ELSE None
  <1>1. After("config") \in Configs  BY AfterType DEF Path
  <1>2. After("config") # Missing  BY <1>1, Different
  <1>3. QED  BY <1>2 DEF BlockOf, After, Config

LEMMA AfterServiceIs ==
  ASSUME JournalInv, ~Idle, run.kind = "register"
  PROVE  /\ After("state") = Served(bounds.ops + 1, run.scope) /\ After("agent") = After("state")
         /\ After("state").scope = run.scope
  BY DEF After, Served

(* What a finished registration leaves. *)
LEMMA RegisteredServed ==
  ASSUME JournalInv, ~Idle, run.kind = "register",
         launchd' = After("state"), run'.after["state"] = After("state"),
         disk'["config"] = After("config"), record' = SectionAfter
  PROVE  ServedNow'
  <1>1. BlockOf(disk["config"])' = run.scope  BY AfterConfigIs DEF BlockOf
  <1>2. After("state").scope = run.scope  BY AfterServiceIs
  <1>3. record'.state = After("state") /\ record'.block = run.scope  BY DEF SectionAfter, Section
  <1>4. QED  BY <1>1, <1>2, <1>3 DEF ServedNow

LEMMA ApplyPlan ==
  ASSUME JournalInv, PlanInv, NEW p \in Path, Apply(p)
  PROVE  PlanInv'
  <1>1. CASE exit' # 0  BY <1>1, OffPlan
  <1>2. CASE exit' = 0
    <2>1. /\ ~Idle /\ Head(todo) = p /\ Advance /\ Same /\ exit = 0 /\ edited' = edited
          /\ UNCHANGED <<record, launchd>>
          /\ disk'[p] = After(p) /\ run'.after[p] = After(p)
      BY <1>2, AppliedTo, AppliedFacts
    <2>2. /\ \A q \in Path : After(q)' = After(q)
          /\ \A q \in Path \ {p} : disk'[q] = disk[q] /\ run'.after[q] = run.after[q]
      BY <1>2, AppliedFacts
    <2>3. Ahead  BY <2>1, GoesAhead
    <2>4. ~Idle' => OnPlan'  BY <2>3 DEF Ahead
    <2>5. CASE run.kind = "register"
      <3>0. run'.kind = "register"  BY <2>1, <2>5 DEF Same
      <3>1. edited = {} => Registered(p)  BY <2>1, <2>5 DEF PlanInv
      <3>2. CASE p = "state"
        <4>1. ~Idle' /\ Head(todo') = "agent"  BY <2>1, <2>3, <2>5, <3>2 DEF Ahead
        <4>2. Registered(Head(todo))'
          BY <2>1, <2>2, <3>2, <4>1 DEF Registered, AfterState, AfterAgent, AfterStart, AfterConfig, Path
        <4>3. QED  BY <2>4, <3>0, <4>1, <4>2 DEF PlanInv
      <3>3. CASE p = "agent"
        <4>1. ~Idle' /\ Head(todo') = "start"  BY <2>1, <2>3, <2>5, <3>3 DEF Ahead
        <4>2. edited = {} => Registered(Head(todo))'
          BY <2>1, <2>2, <3>1, <3>3, <4>1 DEF Registered, AfterState, AfterAgent, AfterStart, AfterConfig, Path
        <4>3. QED  BY <2>1, <2>4, <3>0, <4>1, <4>2 DEF PlanInv
      <3>4. CASE p = "config"
        <4>1. ~Idle' /\ Head(todo') = "record"  BY <2>1, <2>3, <2>5, <3>4 DEF Ahead
        <4>2. edited = {} => Registered(Head(todo))'
          BY <2>1, <2>2, <3>1, <3>4, <4>1 DEF Registered, AfterState, AfterAgent, AfterStart, AfterConfig, Path
        <4>3. QED  BY <2>1, <2>4, <3>0, <4>1, <4>2 DEF PlanInv
      <3>5. CASE p = "legacy"
        <4>1. Idle'  BY <2>1, <2>3, <2>5, <3>5 DEF Ahead
        <4>2. edited = {} => /\ launchd = After("state") /\ run.after["state"] = After("state")
                             /\ disk["config"] = After("config") /\ record = SectionAfter
          BY <3>1, <3>5 DEF Registered, AfterState, AfterAgent, AfterStart, AfterConfig
        <4>3. edited = {} => ServedNow'
          BY <2>1, <2>2, <2>5, <3>5, <4>2, RegisteredServed DEF Path
        <4>4. QED  BY <2>1, <4>1, <4>3 DEF PlanInv
      <3>6. QED  BY <3>2, <3>3, <3>4, <3>5 DEF Path
    <2>6. CASE run.kind # "register"
      <3>0. run'.kind # "register"  BY <2>1, <2>6 DEF Same
      <3>1. edited = {} => Detached(p)  BY <2>1, <2>6 DEF PlanInv
      <3>2. p \in {"config", "agent"}  BY <2>1, <2>6, PlanHeads DEF Path
      <3>3. CASE p = "config"
        <4>1. ~Idle' /\ Head(todo') = "agent"  BY <2>1, <2>3, <2>6, <3>3 DEF Ahead
        <4>2. BlockOf(disk["config"])' = None  BY <2>1, <2>6, <3>3, AfterConfigIs DEF BlockOf
        <4>3. Detached(Head(todo))'  BY <4>1, <4>2 DEF Detached
        <4>4. QED  BY <2>4, <3>0, <4>1, <4>3 DEF PlanInv
      <3>4. CASE p = "agent"
        <4>1. ~Idle' /\ Head(todo') = "record"  BY <2>1, <2>3, <2>6, <3>4 DEF Ahead
        <4>2. disk'["agent"] = Missing  BY <2>1, <2>6, <3>4 DEF After
        <4>3. disk'["config"] = disk["config"]  BY <2>2, <3>4 DEF Path
        <4>4. edited = {} => BlockOf(disk["config"])' = None  BY <3>1, <3>4, <4>3 DEF Detached, BlockOf
        <4>5. edited = {} => Detached(Head(todo))'  BY <4>1, <4>2, <4>4 DEF Detached
        <4>6. QED  BY <2>1, <2>4, <3>0, <4>1, <4>5 DEF PlanInv
      <3>5. QED  BY <3>2, <3>3, <3>4
    <2>7. QED  BY <2>5, <2>6
  <1>3. QED  BY <1>1, <1>2

LEMMA StartPlan ==
  ASSUME JournalInv, PlanInv, Start
  PROVE  PlanInv'
  <1>1. CASE exit' # 0  BY <1>1, OffPlan
  <1>2. CASE exit' = 0
    <2>1. /\ ~Idle /\ Head(todo) = "start" /\ UNCHANGED disk
          /\ run' = [run EXCEPT !.started = TRUE] /\ launchd' = Loads /\ Advance /\ NoFault
      BY <1>2, FailsOff DEF Start, At
    <2>2. Notes /\ UNCHANGED bounds  BY <2>1 DEF Notes, NoFault
    <2>3. Same /\ run'.after = run.after  BY <2>1, <2>2, NotesSame
    <2>4. exit = 0 /\ edited' = edited  BY <1>2, <2>1 DEF Advance
    <2>5. run.kind = "register"  BY <2>1, <2>4, PlanHeads
    <2>6. Ahead  BY <2>1, <2>3, <2>4, GoesAhead
    <2>7. ~Idle' /\ OnPlan' /\ Head(todo') = "readiness"  BY <2>1, <2>5, <2>6 DEF Ahead
    <2>8. edited = {} => /\ disk["state"] = After("state") /\ disk["agent"] = After("agent")
                         /\ run.after["state"] = After("state")
      BY <2>1, <2>4, <2>5 DEF PlanInv, Registered, AfterState, AfterAgent
    <2>9. After("state") \in Services /\ After("agent") \in Services  BY <2>1, <2>5, AfterType DEF Path
    <2>10. edited = {} => Loads = After("state")  BY <2>8, <2>9, Different DEF Loads
    <2>11. \A q \in Path : After(q)' = After(q)  BY <2>3, SameAfter
    <2>12. edited = {} => Registered(Head(todo))'
      BY <2>1, <2>3, <2>7, <2>8, <2>10, <2>11
      DEF Registered, AfterState, AfterAgent, AfterStart, AfterConfig, Path
    <2>13. QED  BY <2>3, <2>4, <2>5, <2>7, <2>12 DEF PlanInv, Same
  <1>3. QED  BY <1>1, <1>2

LEMMA ReadinessPlan ==
  ASSUME JournalInv, PlanInv, Readiness
  PROVE  PlanInv'
  <1>1. CASE exit' # 0  BY <1>1, OffPlan
  <1>2. CASE exit' = 0
    <2>1. ~Idle /\ Head(todo) = "readiness" /\ Advance /\ UNCHANGED <<disk, record, launchd, run, bounds>>
      BY <1>2, FailsOff DEF Readiness, At, NoFault
    <2>2. Same  BY <2>1 DEF Same, JournalInv
    <2>3. exit = 0 /\ edited' = edited  BY <1>2, <2>1 DEF Advance
    <2>4. run.kind = "register"  BY <2>1, <2>3, PlanHeads
    <2>5. ~Idle' /\ OnPlan' /\ Head(todo') = "config"  BY <2>1, <2>2, <2>3, <2>4, GoesAhead DEF Ahead
    <2>6. edited = {} => Registered("readiness")  BY <2>1, <2>3, <2>4 DEF PlanInv
    <2>7. \A q \in Path : After(q)' = After(q)  BY <2>2, SameAfter
    <2>8. edited = {} => Registered(Head(todo))'
      BY <2>1, <2>5, <2>6, <2>7 DEF Registered, AfterState, AfterAgent, AfterStart, AfterConfig, Path
    <2>9. QED  BY <2>1, <2>3, <2>4, <2>5, <2>8 DEF PlanInv
  <1>3. QED  BY <1>1, <1>2

LEMMA RecordPlan ==
  ASSUME JournalInv, PlanInv, Record
  PROVE  PlanInv'
  <1>1. CASE exit' # 0  BY <1>1, OffPlan
  <1>2. CASE exit' = 0
    <2>1. /\ ~Idle /\ Head(todo) = "record" /\ Advance /\ UNCHANGED <<disk, launchd>>
          /\ record' = SectionAfter /\ run' = [run EXCEPT !.recorded = TRUE] /\ NoFault
      BY <1>2, FailsOff DEF Record, At
    <2>2. Notes /\ UNCHANGED bounds  BY <2>1 DEF Notes, NoFault
    <2>3. Same /\ run'.after = run.after  BY <2>1, <2>2, NotesSame
    <2>4. exit = 0 /\ edited' = edited  BY <1>2, <2>1 DEF Advance
    <2>5. Ahead  BY <2>1, <2>3, <2>4, GoesAhead
    <2>6. \A q \in Path : After(q)' = After(q)  BY <2>3, SameAfter
    <2>7. CASE run.kind = "register"
      <3>1. edited = {} => Registered("record")  BY <2>1, <2>4, <2>7 DEF PlanInv
      <3>2. edited = {} => ServedNow'
        BY <2>1, <2>3, <2>7, <3>1, RegisteredServed
        DEF Registered, AfterState, AfterAgent, AfterStart, AfterConfig
      <3>3. SectionAfter' = SectionAfter
        BY <2>3, <2>6, <2>7 DEF SectionAfter, Same, Path
      <3>4. edited = {} /\ ~Idle' => Registered(Head(todo))'
        BY <2>1, <2>3, <2>6, <3>1, <3>3 DEF Registered, AfterState, AfterAgent, AfterStart, AfterConfig, Path
      <3>5. QED  BY <2>3, <2>4, <2>5, <2>7, <3>2, <3>4 DEF PlanInv, Same, Ahead
    <2>8. CASE run.kind # "register"
      <3>1. Idle'  BY <2>1, <2>5, <2>8 DEF Ahead
      <3>2. QED  BY <2>3, <2>8, <3>1 DEF PlanInv, Same
    <2>9. QED  BY <2>7, <2>8
  <1>3. QED  BY <1>1, <1>2

(* A recovery is none that went forward. *)
LEMMA RecoverPlan ==
  ASSUME JournalInv, PlanInv, Recover
  PROVE  PlanInv'
  <1>1. ~Idle /\ Head(todo) \in {"stop-candidate", "record-back", "validate", "restore", "recheck", "restart", "clean"}
    BY DEF Recover, StopCandidate, RecordBack, Validate, Restore, Recheck, Restart, Clean, At
  <1>2. exit # 0  BY <1>1, PlanHeads
  <1>3. Advance \/ Ends(5)
    BY DEF Recover, StopCandidate, RecordBack, Validate, Restore, Recheck, Restart, Clean, Uncertain
  <1>4. exit' # 0  BY <1>2, <1>3 DEF Advance, Ends
  <1>5. QED  BY <1>4, OffPlan


(* Others leave the plan; what they change is noted. *)
LEMMA OthersPlan ==
  ASSUME JournalInv, PlanInv, (\E p \in Path : Edit(p)) \/ Leave \/ Load \/ Review \/ Crash
  PROVE  PlanInv'
  <1>1. CASE Crash  BY <1>1, OffPlan DEF Crash
  <1>2. CASE Review
    <2>1. Idle /\ UNCHANGED <<todo, run, exit, edited, record, launchd>>
           /\ disk' = [disk EXCEPT !["state"] = Missing, !["legacy"] = Missing]
      BY <1>2 DEF Review
    <2>2. Idle'  BY <2>1 DEF Idle
    <2>3. disk'["config"] = disk["config"]  BY <2>1 DEF JournalInv, FilesOK, Path
    <2>4. ServedNow => ServedNow'  BY <2>1, <2>3 DEF ServedNow, BlockOf
    <2>5. QED  BY <2>1, <2>2, <2>4 DEF PlanInv
  <1>3. CASE (\E p \in Path : Edit(p)) \/ Load
    <2>1. UNCHANGED <<todo, run, exit>> /\ edited' # {}  BY <1>3 DEF Edit, Load
    <2>2. Idle' = Idle  BY <2>1 DEF Idle
    <2>3. OnPlan => OnPlan'
      BY <2>1 DEF OnPlan, OnRegisterPlan, OnDetachPlan, LegacyStep, DetachFiles
    <2>4. QED  BY <2>1, <2>2, <2>3 DEF PlanInv
  <1>4. CASE Leave
    <2>1. UNCHANGED <<disk, record, launchd, todo, run, exit, edited>> /\ bounds'.ops = bounds.ops
      BY <1>4 DEF Leave, JournalInv, BoundFields
    <2>2. Idle' = Idle  BY <2>1 DEF Idle
    <2>3. OnPlan => OnPlan'
      BY <2>1 DEF OnPlan, OnRegisterPlan, OnDetachPlan, LegacyStep, DetachFiles
    <2>4. \A q \in Path : After(q)' = After(q)  BY <2>1 DEF After, Config, Served, RestOf
    <2>5. SectionAfter' = SectionAfter  BY <2>1, <2>4 DEF SectionAfter, Path
    <2>6. Registered(Head(todo)) => Registered(Head(todo))'  BY <2>1, <2>4, <2>5 DEF Registered, Path
    <2>7. Detached(Head(todo)) => Detached(Head(todo))'  BY <2>1 DEF Detached, BlockOf
    <2>8. ServedNow => ServedNow'  BY <2>1 DEF ServedNow, BlockOf
    <2>9. QED  BY <2>1, <2>2, <2>3, <2>6, <2>7, <2>8 DEF PlanInv
  <1>5. QED  BY <1>1, <1>2, <1>3, <1>4

(* A command starts at the beginning of its plan. *)
LEMMA StepsPlan ==
  ASSUME NEW kind \in {"register", "detach"}, todo' = Steps(kind), run'.kind = kind, run'.disk = disk
  PROVE  OnPlan' /\ ~Idle' /\ Head(todo') = "observe"
  <1>1. CASE kind = "register"
    <2>1. todo' = <<"observe", "prepare", "stop", "verify-absence", "guards", "state", "agent", "start", "readiness",
                    "config", "record">> \o LegacyStep'
      BY <1>1 DEF Steps, LegacyStep
    <2>2. OnRegisterPlan'  BY <2>1 DEF OnRegisterPlan
    <2>3. LegacyStep' \in Seq(Effects)
      <3>1. "legacy" \in Effects  BY DEF Effects, Path
      <3>2. <<"legacy">> \in Seq(Effects)  BY <3>1
      <3>3. QED  BY <3>2 DEF LegacyStep
    <2>4. todo' # <<>> /\ Head(todo') = "observe"  BY <2>1, <2>3
    <2>5. QED  BY <1>1, <2>2, <2>4 DEF OnPlan, Idle
  <1>2. CASE kind = "detach"
    <2>1. "config" \in Effects /\ "agent" \in Effects /\ "record" \in Effects  BY DEF Effects, Path
    <2>2. <<"agent", "record">> \in Seq(Effects) /\ <<"config", "agent", "record">> \in Seq(Effects)  BY <2>1
    <2>3. todo' = <<"observe", "stop", "verify-absence", "guards">> \o DetachFiles'
      <3>1. CASE disk["config"] = Missing
        <4>1. todo' = <<"observe", "stop", "verify-absence", "guards">> \o <<>> \o <<"agent", "record">>
          BY <1>2, <3>1 DEF Steps
        <4>2. DetachFiles' = <<"agent", "record">>  BY <3>1 DEF DetachFiles
        <4>3. <<"observe", "stop", "verify-absence", "guards">> \o <<>> = <<"observe", "stop", "verify-absence", "guards">>
          OBVIOUS
        <4>4. QED  BY <4>1, <4>2, <4>3
      <3>2. CASE disk["config"] # Missing
        <4>1. todo' = <<"observe", "stop", "verify-absence", "guards">> \o <<"config">> \o <<"agent", "record">>
          BY <1>2, <3>2 DEF Steps
        <4>2. DetachFiles' = <<"config", "agent", "record">>  BY <3>2 DEF DetachFiles
        <4>3. <<"observe", "stop", "verify-absence", "guards">> \o <<"config">> \o <<"agent", "record">>
                = <<"observe", "stop", "verify-absence", "guards">> \o <<"config", "agent", "record">>
          OBVIOUS
        <4>4. QED  BY <4>1, <4>2, <4>3
      <3>3. QED  BY <3>1, <3>2
    <2>4. DetachFiles' \in Seq(Effects)  BY <2>2 DEF DetachFiles
    <2>5. OnDetachPlan'  BY <2>3 DEF OnDetachPlan
    <2>6. todo' # <<>> /\ Head(todo') = "observe"  BY <2>3, <2>4
    <2>7. QED  BY <1>2, <2>5, <2>6 DEF OnPlan, Idle
  <1>3. QED  BY <1>1, <1>2

(* What a command begins with. *)
LEMMA Begun ==
  ASSUME JournalInv, NEW kind \in {"register", "detach"}, Begin(kind), May(kind)
  PROVE  /\ todo' = Steps(kind) /\ exit' = 0 /\ edited' = {}
         /\ run'.kind = kind /\ run'.disk = disk /\ run'.record = record
         /\ record # None => run'.scope = record.state.scope
         /\ run'.written = <<>> /\ run'.stopped = FALSE /\ run'.started = FALSE /\ run'.recorded = FALSE
  <1>1. run' = [NoRun EXCEPT !.kind = kind, !.disk = disk, !.record = record,
                  !.scope = IF record = None THEN bounds'.ops + 1 ELSE record.state.scope]
    BY DEF Begin
  <1>3. run'.kind = kind /\ run'.disk = disk /\ run'.record = record
         /\ run'.scope = (IF record = None THEN bounds'.ops + 1 ELSE record.state.scope)
    BY <1>1 DEF NoRun
  <1>4. run'.written = <<>> /\ run'.stopped = FALSE /\ run'.started = FALSE /\ run'.recorded = FALSE
    BY <1>1 DEF NoRun
  <1>5. todo' = Steps(kind) /\ exit' = 0 /\ edited' = {}  BY DEF Begin
  <1>6. QED  BY <1>3, <1>4, <1>5

LEMMA BeginPlan ==
  ASSUME JournalInv, PlanInv, (\E kind \in {"register", "detach"} : Begin(kind)) \/ DetachMissing
  PROVE  PlanInv'
  <1>1. CASE DetachMissing
    <2>1. Idle' /\ run'.kind = None  BY <1>1 DEF DetachMissing, Idle, NoRun
    <2>2. QED  BY <2>1, RegistrationAssumption DEF PlanInv
  <1>2. CASE \E kind \in {"register", "detach"} : Begin(kind)
    <2>1. PICK kind \in {"register", "detach"} : Begin(kind)  BY <1>2
    <2>2. CASE ~May(kind)  BY <2>1, <2>2, OffPlan DEF Begin
    <2>3. CASE May(kind)
      <3>1. OnPlan' /\ ~Idle' /\ Head(todo') = "observe"  BY <2>1, <2>3, Begun, StepsPlan
      <3>2. Registered(Head(todo))'  BY <3>1 DEF Registered, AfterState, AfterAgent, AfterStart, AfterConfig
      <3>3. Detached(Head(todo))'  BY <3>1 DEF Detached
      <3>4. QED  BY <3>1, <3>2, <3>3 DEF PlanInv
    <2>4. QED  BY <2>2, <2>3
  <1>3. QED  BY <1>1, <1>2

LEMMA InitPlan == Init => PlanInv
  <1> SUFFICES ASSUME Init PROVE PlanInv
    OBVIOUS
  <1>1. Idle /\ run.kind = None  BY DEF Init, Idle, NoRun
  <1>2. QED  BY <1>1, RegistrationAssumption DEF PlanInv


----------------------------------------------------------------------------
(* Backward: what is left of a recovery. *)

LEMMA Concat ==
  ASSUME NEW a \in Seq(Effects), NEW b \in Seq(Effects)
  PROVE  a \o b \in Seq(Effects) /\ <<>> \o b = b
  OBVIOUS

LEMMA PutFirst ==
  ASSUME NEW step \in Effects, NEW rest \in Seq(Effects)
  PROVE  /\ <<step>> \o rest \in Seq(Effects) /\ <<step>> \o rest # <<>>
         /\ Head(<<step>> \o rest) = step /\ Tail(<<step>> \o rest) = rest
  OBVIOUS

LEMMA Associates ==
  ASSUME NEW a \in Seq(Effects), NEW b \in Seq(Effects), NEW c \in Seq(Effects)
  PROVE  (a \o b) \o c = a \o (b \o c)
  OBVIOUS

LEMMA RecoverNames ==
  {"stop-candidate", "record-back", "validate", "restore", "recheck", "restart", "clean"} \subseteq Effects
  BY DEF Effects

LEMMA Singles ==
  ASSUME NEW step \in Effects
  PROVE  <<step>> \in Seq(Effects) /\ <<>> \in Seq(Effects)
  OBVIOUS

LEMMA Restores ==
  ASSUME NEW n \in Nat
  PROVE  /\ [k \in 1 .. n |-> "restore"] \in Seq(Effects)
         /\ Len([k \in 1 .. n |-> "restore"]) = n
         /\ n = 0 => [k \in 1 .. n |-> "restore"] = <<>>
  <1>1. "restore" \in Effects  BY RecoverNames
  <1>2. QED  BY <1>1

(* One restore less. *)
LEMMA RestoreNext ==
  ASSUME NEW n \in Nat, n > 0, NEW rest \in Seq(Effects)
  PROVE  /\ [k \in 1 .. n |-> "restore"] \o rest # <<>>
         /\ Head([k \in 1 .. n |-> "restore"] \o rest) = "restore"
         /\ Tail([k \in 1 .. n |-> "restore"] \o rest) = [k \in 1 .. n - 1 |-> "restore"] \o rest
  <1>1. "restore" \in Effects  BY RecoverNames
  <1> DEFINE s == [k \in 1 .. n |-> "restore"]
             u == [k \in 1 .. n - 1 |-> "restore"]
  <1>2. s \in Seq(Effects) /\ Len(s) = n /\ \A k \in 1 .. n : s[k] = "restore"
    BY <1>1
  <1>3. u \in Seq(Effects) /\ Len(u) = n - 1 /\ \A k \in 1 .. n - 1 : u[k] = "restore"
    BY <1>1
  <1> HIDE DEF s, u
  <1>4. s = <<"restore">> \o u  BY <1>1, <1>2, <1>3
  <1>5. s \o rest = <<"restore">> \o (u \o rest)  BY <1>1, <1>4, Associates, Singles
  <1>6. u \o rest \in Seq(Effects)  BY <1>3, Concat
  <1>7. s \o rest # <<>> /\ Head(s \o rest) = "restore" /\ Tail(s \o rest) = u \o rest
    BY <1>1, <1>5, <1>6, PutFirst
  <1>8. QED  BY <1>7 DEF s, u

LEMMA Parts ==
  ASSUME run.written \in Seq(Path)
  PROVE  /\ CleanPart \in Seq(Effects) /\ RestartPart \in Seq(Effects) /\ RecheckPart \in Seq(Effects)
         /\ RestorePart \in Seq(Effects) /\ ValidatePart \in Seq(Effects) /\ RecordPart \in Seq(Effects)
         /\ StopPart \in Seq(Effects)
  <1>1. CleanPart \in Seq(Effects)  BY RecoverNames, Singles DEF CleanPart
  <1>2. RestartPart \in Seq(Effects)  BY <1>1, RecoverNames, Singles, Concat DEF RestartPart
  <1>3. RecheckPart \in Seq(Effects)  BY <1>2, RecoverNames, PutFirst DEF RecheckPart
  <1>4. DOMAIN run.written = 1 .. Len(run.written) /\ Len(run.written) \in Nat  OBVIOUS
  <1>5. RestorePart \in Seq(Effects)  BY <1>3, <1>4, Restores, Concat DEF RestorePart
  <1>6. ValidatePart \in Seq(Effects)  BY <1>5, RecoverNames, PutFirst DEF ValidatePart
  <1>7. RecordPart \in Seq(Effects)  BY <1>6, RecoverNames, Singles, Concat DEF RecordPart
  <1>8. StopPart \in Seq(Effects)  BY <1>7, RecoverNames, Singles, Concat DEF StopPart
  <1>9. QED  BY <1>1, <1>2, <1>3, <1>5, <1>6, <1>7, <1>8

(* The recovery of a step that fails. *)
LEMMA RecoveryParts ==
  ASSUME todo' = Recovery(run')
  PROVE  todo' = StopPart'
  BY DEF Recovery, StopPart, RecordPart, ValidatePart, RestorePart, RecheckPart, RestartPart, CleanPart

(* The step that a recovery takes next, and what is left after it. *)
RestoreRest == [k \in 1 .. Len(run.written) - 1 |-> "restore"] \o RecheckPart

RecoverAt ==
  /\ Head(todo) = "stop-candidate" =>
       run.started /\ Tail(todo) = RecordPart /\ (~run.recorded => record = run.record)
  /\ Head(todo) = "record-back" => run.recorded /\ Tail(todo) = ValidatePart /\ Quiet
  /\ Head(todo) = "validate" => Tail(todo) = RestorePart /\ record = run.record /\ Quiet
  /\ Head(todo) = "restore" =>
       run.written # <<>> /\ Tail(todo) = RestoreRest /\ record = run.record /\ Quiet
  /\ Head(todo) = "recheck" =>
       run.written = <<>> /\ Tail(todo) = RestartPart /\ record = run.record /\ Quiet
  /\ Head(todo) = "restart" =>
       run.written = <<>> /\ Tail(todo) = CleanPart /\ record = run.record /\ Quiet
  /\ Head(todo) = "clean" =>
       run.written = <<>> /\ Tail(todo) = <<>> /\ record = run.record /\ launchd \in Prior
  /\ Head(todo) \in {"stop-candidate", "record-back", "validate", "restore", "recheck", "restart", "clean"}

LEMMA RecoverHeads ==
  ASSUME Kept, Recovering, ~Idle
  PROVE  RecoverAt
  <1>0. run.written \in Seq(Path) /\ DOMAIN run.written = 1 .. Len(run.written) /\ Len(run.written) \in Nat
         /\ (Len(run.written) = 0 <=> run.written = <<>>)
    BY DEF Kept
  <1>1. ASSUME todo = CleanPart, record = run.record, launchd \in Prior, run.written = <<>>
        PROVE  RecoverAt
    <2>1. todo = <<"clean">>  BY <1>1 DEF CleanPart, Idle
    <2>2. Head(todo) = "clean" /\ Tail(todo) = <<>>  BY <2>1
    <2>3. QED  BY <1>1, <2>2 DEF RecoverAt
  <1>2. ASSUME todo = RestartPart, record = run.record, Quiet, run.written = <<>>, run.was \in Prior
        PROVE  RecoverAt
    <2>1. CASE run.was # None /\ run.stopped
      <3>1. todo = <<"restart">> \o CleanPart  BY <1>2, <2>1 DEF RestartPart
      <3>2. Head(todo) = "restart" /\ Tail(todo) = CleanPart  BY <1>0, <3>1, Parts, PutFirst, RecoverNames
      <3>3. QED  BY <1>2, <3>2 DEF RecoverAt
    <2>2. CASE ~(run.was # None /\ run.stopped)
      <3>1. todo = CleanPart  BY <1>0, <1>2, <2>2, Parts, Concat DEF RestartPart
      <3>2. launchd \in Prior  BY <1>2, <2>2 DEF Quiet, Prior
      <3>3. QED  BY <1>1, <1>2, <3>1, <3>2
    <2>3. QED  BY <2>1, <2>2
  <1>3. ASSUME todo = RestorePart, record = run.record, Quiet, run.was \in Prior
        PROVE  RecoverAt
    <2>1. CASE run.written = <<>>
      <3>1. todo = RecheckPart  BY <1>0, <1>3, <2>1, Parts, Restores, Concat DEF RestorePart
      <3>2. Head(todo) = "recheck" /\ Tail(todo) = RestartPart
        BY <1>0, <3>1, Parts, PutFirst, RecoverNames DEF RecheckPart
      <3>3. QED  BY <1>3, <2>1, <3>2 DEF RecoverAt
    <2>2. CASE run.written # <<>>
      <3>1. Len(run.written) > 0  BY <1>0, <2>2
      <3>2. Head(todo) = "restore" /\ Tail(todo) = RestoreRest
        BY <1>0, <1>3, <3>1, Parts, RestoreNext DEF RestorePart, RestoreRest
      <3>3. QED  BY <1>3, <2>2, <3>2 DEF RecoverAt
    <2>3. QED  BY <2>1, <2>2
  <1>4. ASSUME todo = ValidatePart, record = run.record, Quiet
        PROVE  RecoverAt
    <2>1. Head(todo) = "validate" /\ Tail(todo) = RestorePart
      BY <1>0, <1>4, Parts, PutFirst, RecoverNames DEF ValidatePart
    <2>2. QED  BY <1>4, <2>1 DEF RecoverAt
  <1>5. ASSUME todo = RecordPart, ~run.recorded => record = run.record, Quiet
        PROVE  RecoverAt
    <2>1. CASE run.recorded
      <3>1. Head(todo) = "record-back" /\ Tail(todo) = ValidatePart
        BY <1>0, <1>5, <2>1, Parts, PutFirst, RecoverNames DEF RecordPart
      <3>2. QED  BY <1>5, <2>1, <3>1 DEF RecoverAt
    <2>2. CASE ~run.recorded
      <3>1. todo = ValidatePart  BY <1>0, <1>5, <2>2, Parts, Concat DEF RecordPart
      <3>2. QED  BY <1>4, <1>5, <2>2, <3>1
    <2>3. QED  BY <2>1, <2>2
  <1>6. ASSUME todo = StopPart, ~run.recorded => record = run.record, ~run.started => Quiet
        PROVE  RecoverAt
    <2>1. CASE run.started
      <3>1. Head(todo) = "stop-candidate" /\ Tail(todo) = RecordPart
        BY <1>0, <1>6, <2>1, Parts, PutFirst, RecoverNames DEF StopPart
      <3>2. QED  BY <1>6, <2>1, <3>1 DEF RecoverAt
    <2>2. CASE ~run.started
      <3>1. todo = RecordPart  BY <1>0, <1>6, <2>2, Parts, Concat DEF StopPart
      <3>2. QED  BY <1>5, <1>6, <2>2, <3>1
    <2>3. QED  BY <2>1, <2>2
  <1>7. QED  BY <1>1, <1>2, <1>3, <1>4, <1>5, <1>6 DEF Recovering


LEMMA FrontFacts ==
  ASSUME NEW s \in Seq(Path), s # <<>>
  PROVE  /\ Front(s) \in Seq(Path) /\ DOMAIN Front(s) = 1 .. Len(s) - 1 /\ Last(s) \in Path
         /\ Len(s) \in Nat /\ Len(s) > 0
         /\ ToSet(s) \subseteq ToSet(Front(s)) \cup {Last(s)}
  <1>1. Len(s) \in Nat /\ Len(s) > 0 /\ DOMAIN s = 1 .. Len(s)  OBVIOUS
  <1>2. \A i \in 1 .. Len(s) : s[i] \in Path  OBVIOUS
  <1>3. Last(s) \in Path  BY <1>1, <1>2 DEF Last
  <1>4. Len(Front(s)) = Len(s) - 1 /\ Front(s) \in Seq(Path) BY <1>1, <1>2 DEF Front
  <1>5. DOMAIN Front(s) = 1 .. Len(s) - 1  BY <1>1, <1>4
  <1>6. \A i \in 1 .. Len(s) - 1 : Front(s)[i] = s[i]  BY <1>1, <1>2 DEF Front
  <1>7. ASSUME NEW i \in 1 .. Len(s) PROVE s[i] \in ToSet(Front(s)) \cup {Last(s)}
    <2>1. CASE i = Len(s)  BY <2>1 DEF Last
    <2>2. CASE i # Len(s)
      <3>1. i \in 1 .. Len(s) - 1
        <4>1. PICK n \in Nat : n = Len(s)  BY <1>1
        <4>2. i \in 1 .. n /\ i # n  BY <2>2, <4>1
        <4>3. i \in 1 .. n - 1  BY <4>2
        <4>4. QED  BY <4>1, <4>3
      <3>2. i \in DOMAIN Front(s)  BY <1>5, <3>1
      <3>3. Front(s)[i] = s[i]  BY <1>6, <3>1
      <3>4. QED  BY <3>2, <3>3 DEF ToSet
    <2>3. QED  BY <2>1, <2>2
  <1>8. QED  BY <1>1, <1>3, <1>4, <1>5, <1>7 DEF ToSet
LEMMA AppendFacts ==
  ASSUME NEW s \in Seq(Path), NEW p \in Path
  PROVE  /\ Append(s, p) \in Seq(Path)
         /\ ToSet(s) \cup {p} \subseteq ToSet(Append(s, p))
  <1>1. DOMAIN s = 1 .. Len(s) /\ Len(s) \in Nat  OBVIOUS
  <1>2. DOMAIN Append(s, p) = 1 .. Len(s) + 1 /\ Append(s, p)[Len(s) + 1] = p  OBVIOUS
  <1>3. \A i \in 1 .. Len(s) : Append(s, p)[i] = s[i]  OBVIOUS
  <1>4. ASSUME NEW i \in DOMAIN s PROVE s[i] \in ToSet(Append(s, p))
    <2>1. i \in DOMAIN Append(s, p) /\ Append(s, p)[i] = s[i]  BY <1>1, <1>2, <1>3
    <2>2. QED  BY <2>1 DEF ToSet
  <1>5. p \in ToSet(Append(s, p))
    <2>1. Len(s) + 1 \in DOMAIN Append(s, p)  BY <1>1, <1>2
    <2>2. QED  BY <1>2, <2>1 DEF ToSet
  <1>6. QED  BY <1>4, <1>5 DEF ToSet


(* A recovery has always something left to do until its last steps. *)
LEMMA RecordGoes ==
  ASSUME run.written \in Seq(Path)
  PROVE  RecordPart # <<>> /\ ValidatePart # <<>> /\ RestorePart # <<>>
  <1>1. RecheckPart \in Seq(Effects) /\ RestorePart \in Seq(Effects) /\ ValidatePart \in Seq(Effects)  BY Parts
  <1>2. RestartPart \in Seq(Effects)  BY Parts
  <1>3. ValidatePart # <<>>  BY <1>1, PutFirst, RecoverNames DEF ValidatePart
  <1>4. RecordPart # <<>>
    <2>1. CASE run.recorded  BY <1>1, <2>1, PutFirst, RecoverNames DEF RecordPart
    <2>2. CASE ~run.recorded  BY <1>1, <1>3, <2>2, Concat DEF RecordPart
    <2>3. QED  BY <2>1, <2>2
  <1>5. RecheckPart # <<>>  BY <1>2, PutFirst, RecoverNames DEF RecheckPart
  <1>6. DOMAIN run.written = 1 .. Len(run.written) /\ Len(run.written) \in Nat  OBVIOUS
  <1>7. RestorePart # <<>>
    <2>1. CASE Len(run.written) = 0
      <3>1. RestorePart = RecheckPart  BY <1>1, <1>6, <2>1, Restores, Concat DEF RestorePart
      <3>2. QED  BY <1>5, <3>1
    <2>2. CASE Len(run.written) > 0  BY <1>1, <1>6, <2>2, RestoreNext DEF RestorePart
    <2>3. QED  BY <1>6, <2>1, <2>2
  <1>8. QED  BY <1>3, <1>4, <1>7

LEMMA RestGoes ==
  ASSUME run.written \in Seq(Path), run.written # <<>>
  PROVE  RestoreRest # <<>>
  <1>1. RecheckPart \in Seq(Effects) /\ RestartPart \in Seq(Effects)  BY Parts
  <1>2. RecheckPart # <<>>  BY <1>1, PutFirst, RecoverNames DEF RecheckPart
  <1>3. PICK n \in Nat : n = Len(run.written) - 1
    <2>1. Len(run.written) \in Nat /\ Len(run.written) > 0  OBVIOUS
    <2>2. PICK m \in Nat : m = Len(run.written)  BY <2>1
    <2>3. m > 0  BY <2>1, <2>2
    <2>4. m - 1 \in Nat  BY <2>3
    <2>5. QED  BY <2>2, <2>4
  <1>4. RestoreRest = [k \in 1 .. n |-> "restore"] \o RecheckPart  BY <1>3 DEF RestoreRest
  <1>5. CASE n = 0
    <2>1. RestoreRest = RecheckPart  BY <1>1, <1>4, <1>5, Restores, Concat
    <2>2. QED  BY <1>2, <2>1
  <1>6. CASE n > 0  BY <1>1, <1>4, <1>6, RestoreNext
  <1>7. QED  BY <1>5, <1>6

LEMMA RestartEmpty ==
  ASSUME run.written \in Seq(Path), RestartPart = <<>>
  PROVE  ~(run.was # None /\ run.stopped) /\ CleanPart = <<>>
  <1>1. CleanPart \in Seq(Effects)  BY Parts
  <1>2. CASE run.was # None /\ run.stopped  BY <1>1, <1>2, PutFirst, RecoverNames DEF RestartPart
  <1>3. CASE ~(run.was # None /\ run.stopped)  BY <1>1, <1>3, Concat DEF RestartPart
  <1>4. QED  BY <1>2, <1>3

LEMMA NoneWritten ==
  ASSUME run.written = <<>>
  PROVE  ToSet(run.written) = {}
  BY DEF ToSet


----------------------------------------------------------------------------
(* Nobody is stranded: forward and backward together. *)

(* The files and the section of before the operation, and a service that   *)
(* reads them or none, say the same.                                       *)
LEMMA PriorCoherent ==
  ASSUME Planned, \A p \in Path : disk'[p] = run.disk[p], record' = run.record,
         launchd' \in Prior \cup (IF run.record = None THEN {Other} ELSE {})
  PROVE  Coherent' /\ (record' = None /\ folder' = {} => MayRegister')
  <1>1. /\ disk'["agent"] = run.disk["agent"] /\ disk'["state"] = run.disk["state"]
        /\ disk'["config"] = run.disk["config"] /\ disk'["legacy"] = run.disk["legacy"]
    BY DEF Path
  <1>2. BlockOf(disk["config"])' = BlockOf(run.disk["config"])  BY <1>1 DEF BlockOf
  <1>3. CASE run.record = None
    <2>1. Fresh(run.disk)  BY <1>3 DEF Planned
    <2>2. disk'["agent"] = Missing /\ BlockOf(disk["config"])' = None /\ disk'["state"] = Missing
           /\ disk'["legacy"] = Missing
      BY <1>1, <1>2, <2>1 DEF Fresh
    <2>3. launchd' \in {None, Other}  BY <1>3 DEF Prior
    <2>4. QED  BY <1>3, <2>2, <2>3 DEF Coherent, MayRegister
  <1>4. CASE run.record # None
    <2>1. Fits(run.disk, run.record)  BY <1>4 DEF Planned
    <2>2. Fits(disk, record)'  BY <1>1, <1>2, <2>1 DEF Fits
    <2>3. launchd' \in {None, disk'["state"]}  BY <1>1, <1>4 DEF Prior
    <2>4. QED  BY <1>4, <2>2, <2>3 DEF Coherent, MayRegister, MayDetach, Fits
  <1>5. QED  BY <1>3, <1>4

LEMMA PlannedStays == ASSUME Planned, Same PROVE Planned' /\ Prior' = Prior
  BY DEF Planned, Same, Prior

(* Files that stay, and what the journal says of them. *)
LEMMA KeptStays ==
  ASSUME Kept, Same, UNCHANGED disk, run'.written = run.written,
         run'.stopped \in BOOLEAN, run'.started \in BOOLEAN, run'.recorded \in BOOLEAN
  PROVE  Kept'
  BY DEF Kept, Same

LEMMA GoesBack ==
  ASSUME edited' = {}, exit' = 4, Planned', Kept', ~Idle' => Recovering',
         Idle' => Coherent' /\ (record' = None => MayRegister')
  PROVE  SureInv'
  BY DEF SureInv

LEMMA RecoveringSure ==
  ASSUME SureInv, sure, ~Idle, exit = 4
  PROVE  edited = {} /\ Planned /\ Kept /\ Recovering /\ RecoverAt
  <1>1. edited = {} /\ Planned /\ Kept /\ Recovering  BY DEF SureInv
  <1>2. QED  BY <1>1, RecoverHeads

(* The parts of a recovery only depend on its plan and its journal. *)
LEMMA PartsStay ==
  ASSUME run' = run
  PROVE  /\ RecordPart' = RecordPart /\ ValidatePart' = ValidatePart /\ RestorePart' = RestorePart
         /\ RestartPart' = RestartPart /\ CleanPart' = CleanPart /\ Prior' = Prior /\ Planned' = Planned
  BY DEF RecordPart, ValidatePart, RestorePart, RecheckPart, RestartPart, CleanPart, Prior, Planned

LEMMA RecoverSure ==
  ASSUME JournalInv, PlanInv, SureInv, Recover, sure'
  PROVE  SureInv'
  <1>1. ~Idle /\ Head(todo) \in {"stop-candidate", "record-back", "validate", "restore", "recheck", "restart", "clean"}
    BY DEF Recover, StopCandidate, RecordBack, Validate, Restore, Recheck, Restart, Clean, At
  <1>2. exit # 0  BY <1>1, PlanHeads
  <1>3. ~Ends(5)  BY DEF Ends
  <1>4. Advance
    BY <1>3 DEF Recover, StopCandidate, RecordBack, Validate, Restore, Recheck, Restart, Clean, Uncertain
  <1>5. sure /\ exit' = exit /\ edited' = edited /\ todo' = Tail(todo)  BY <1>4 DEF Advance
  <1>6. exit = 4  BY <1>1, <1>2, <1>5 DEF SureInv
  <1>7. edited = {} /\ Planned /\ Kept /\ Recovering /\ RecoverAt  BY <1>1, <1>5, <1>6, RecoveringSure
  <1>8. (run.started => run.stopped \/ run.was = None) /\ run.was \in Prior  BY <1>7 DEF Recovering
  <1>9. ASSUME run' = run, UNCHANGED disk
        PROVE  /\ Planned' /\ Kept' /\ Prior' = Prior /\ edited' = {} /\ exit' = 4
               /\ (run'.started => run'.stopped \/ run'.was = None) /\ run'.was \in Prior'
    <2>1. Planned' /\ Prior' = Prior  BY <1>7, <1>9, PartsStay
    <2>2. Kept'  BY <1>7, <1>9 DEF Kept
    <2>3. QED  BY <1>5, <1>6, <1>7, <1>8, <1>9, <2>1, <2>2
  <1>10. CASE StopCandidate
    <2>1. Head(todo) = "stop-candidate" /\ launchd' = None /\ UNCHANGED <<disk, record, run>>
      BY <1>3, <1>10 DEF StopCandidate, At, Uncertain
    <2>2. run.started /\ todo' = RecordPart /\ (~run.recorded => record = run.record)
      BY <1>5, <1>7, <2>1 DEF RecoverAt
    <2>3. Quiet'  BY <1>8, <2>1, <2>2 DEF Quiet
    <2>4. todo' = RecordPart'  BY <2>1, <2>2, PartsStay
    <2>5. Recovering'  BY <1>9, <2>1, <2>2, <2>3, <2>4 DEF Recovering
    <2>6. todo' # <<>>  BY <1>7, <2>2, RecordGoes DEF Kept
    <2>7. QED  BY <1>9, <2>1, <2>5, <2>6, GoesBack DEF Idle
  <1>11. CASE RecordBack
    <2>1. Head(todo) = "record-back" /\ record' = run.record /\ UNCHANGED <<disk, launchd, run>>
      BY <1>3, <1>11 DEF RecordBack, At, Uncertain
    <2>2. todo' = ValidatePart /\ Quiet  BY <1>5, <1>7, <2>1 DEF RecoverAt
    <2>3. Quiet'  BY <2>1, <2>2 DEF Quiet
    <2>4. todo' = ValidatePart'  BY <2>1, <2>2, PartsStay
    <2>5. Recovering'  BY <1>9, <2>1, <2>3, <2>4 DEF Recovering
    <2>6. todo' # <<>>  BY <1>7, <2>2, RecordGoes DEF Kept
    <2>7. QED  BY <1>9, <2>1, <2>5, <2>6, GoesBack DEF Idle
  <1>12. CASE Validate
    <2>1. Head(todo) = "validate" /\ UNCHANGED <<disk, record, launchd, run>>  BY <1>12 DEF Validate, At
    <2>2. todo' = RestorePart /\ Quiet /\ record = run.record  BY <1>5, <1>7, <2>1 DEF RecoverAt
    <2>3. Quiet'  BY <2>1, <2>2 DEF Quiet
    <2>4. todo' = RestorePart'  BY <2>1, <2>2, PartsStay
    <2>5. Recovering'  BY <1>9, <2>1, <2>2, <2>3, <2>4 DEF Recovering
    <2>6. todo' # <<>>  BY <1>7, <2>2, RecordGoes DEF Kept
    <2>7. QED  BY <1>9, <2>1, <2>5, <2>6, GoesBack DEF Idle
  <1>13. CASE Restore
    <2>1. /\ Head(todo) = "restore" /\ UNCHANGED <<record, launchd>>
          /\ run' = [run EXCEPT !.written = Front(run.written)]
          /\ \/ disk' = disk /\ disk[Last(run.written)] = run.disk[Last(run.written)]
             \/ disk' = [disk EXCEPT ![Last(run.written)] = run.disk[Last(run.written)]]
          /\ Fault \/ UNCHANGED bounds
      BY <1>3, <1>13 DEF Restore, At, Uncertain, NoFault
    <2>2. run.written # <<>> /\ todo' = RestoreRest /\ Quiet /\ record = run.record
      BY <1>5, <1>7, <2>1 DEF RecoverAt
    <2>3. run.written \in Seq(Path)  BY <1>7 DEF Kept
    <2>4. RunOK  BY <1>1 DEF JournalInv
    <2>5. Same  BY <1>1, <2>1, NotesSame DEF Notes
    <2>6. /\ run'.written = Front(run.written) /\ run'.stopped = run.stopped /\ run'.started = run.started
          /\ run'.recorded = run.recorded /\ run'.was = run.was
      BY <2>1, <2>4 DEF RunOK, RunFields
    <2>7. Planned' /\ Prior' = Prior  BY <1>7, <2>5, PlannedStays
    <2>8. \A p \in Path \ ToSet(Front(run.written)) : disk'[p] = run.disk[p]
      <3>1. \A p \in Path \ ToSet(run.written) : disk[p] = run.disk[p]  BY <1>7 DEF Kept
      <3>2. ToSet(run.written) \subseteq ToSet(Front(run.written)) \cup {Last(run.written)}
             /\ Last(run.written) \in Path
        BY <2>2, <2>3, FrontFacts
      <3>3. DOMAIN disk = Path  BY DEF JournalInv, FilesOK
      <3>4. QED  BY <2>1, <3>1, <3>2, <3>3
    <2>9. Kept'
      <3>1. Front(run.written) \in Seq(Path)  BY <2>2, <2>3, FrontFacts
      <3>2. run'.disk = run.disk  BY <2>5 DEF Same
      <3>3. QED  BY <1>7, <2>6, <2>8, <3>1, <3>2 DEF Kept
    <2>10. Quiet'  BY <2>1, <2>2, <2>6 DEF Quiet
    <2>11. record' = run'.record  BY <2>1, <2>2, <2>5 DEF Same
    <2>12. RestoreRest = RestorePart'
      <3>1. DOMAIN Front(run.written) = 1 .. Len(run.written) - 1  BY <2>2, <2>3, FrontFacts
      <3>2. RecheckPart' = RecheckPart
        BY <2>5, <2>6 DEF RecheckPart, RestartPart, CleanPart, Same
      <3>3. QED  BY <2>6, <3>1, <3>2 DEF RestoreRest, RestorePart
    <2>13. Recovering'  BY <1>8, <2>2, <2>6, <2>7, <2>10, <2>11, <2>12 DEF Recovering
    <2>14. todo' # <<>>  BY <1>7, <2>2, <2>3, RestGoes
    <2>15. QED  BY <1>5, <1>6, <1>7, <2>7, <2>9, <2>13, <2>14, GoesBack DEF Idle
  <1>14. CASE Recheck
    <2>1. Head(todo) = "recheck" /\ UNCHANGED <<disk, record, launchd, run, folder>>  BY <1>14 DEF Recheck, At
    <2>2. todo' = RestartPart /\ Quiet /\ record = run.record /\ run.written = <<>>
      BY <1>5, <1>7, <2>1 DEF RecoverAt
    <2>3. Quiet'  BY <2>1, <2>2 DEF Quiet
    <2>4. todo' = RestartPart'  BY <2>1, <2>2, PartsStay
    <2>5. Recovering'  BY <1>9, <2>1, <2>2, <2>3, <2>4 DEF Recovering
    <2>6. ASSUME Idle'
          PROVE  Coherent' /\ (record' = None => MayRegister')
      <3>1. RestartPart = <<>>  BY <2>2, <2>6 DEF Idle
      <3>2. ~(run.was # None /\ run.stopped) /\ CleanPart = <<>>  BY <1>7, <3>1, RestartEmpty DEF Kept
      <3>3. launchd' \in Prior  BY <1>8, <2>1, <2>2, <3>2 DEF Quiet, Prior
      <3>4. run.record # None
        <4>1. ~(run.kind = "register" /\ run.record = None)  BY <3>2 DEF CleanPart
        <4>2. QED  BY <1>7, <4>1 DEF Planned
      <3>5. \A p \in Path : disk'[p] = run.disk[p]  BY <1>7, <2>1, <2>2, NoneWritten DEF Kept
      <3>6. Coherent'  BY <1>7, <2>1, <2>2, <3>3, <3>5, PriorCoherent
      <3>7. QED  BY <2>1, <2>2, <3>4, <3>6
    <2>7. QED  BY <1>9, <2>1, <2>5, <2>6, GoesBack
  <1>15. CASE Restart
    <2>1. /\ Head(todo) = "restart" /\ UNCHANGED <<disk, record, run, folder>>
          /\ launchd' = Loads /\ Answers(Loads)
      BY <1>3, <1>15 DEF Restart, At, Uncertain
    <2>2. todo' = CleanPart /\ record = run.record /\ run.written = <<>>
      BY <1>5, <1>7, <2>1 DEF RecoverAt
    <2>3. \A p \in Path : disk'[p] = run.disk[p] /\ disk[p] = run.disk[p]
      BY <1>7, <2>1, <2>2, NoneWritten DEF Kept
    <2>4. launchd' \in Prior
      <3>1. Loads # Edited /\ Loads # None  BY <2>1 DEF Answers
      <3>2. Loads = run.disk["state"] /\ disk["state"] # Missing  BY <2>3, <3>1 DEF Loads, Path
      <3>3. run.record # None  BY <1>7, <2>3, <3>2 DEF Planned, Fresh, Path
      <3>4. QED  BY <2>1, <3>2, <3>3 DEF Prior
    <2>5. todo' = CleanPart'  BY <2>1, <2>2, PartsStay
    <2>6. Recovering'  BY <1>9, <2>1, <2>2, <2>4, <2>5 DEF Recovering
    <2>7. ASSUME Idle'
          PROVE  Coherent' /\ (record' = None => MayRegister')
      <3>1. ~(run.kind = "register" /\ run.record = None)  BY <2>2, <2>7 DEF CleanPart, Idle
      <3>2. run.record # None  BY <1>7, <3>1 DEF Planned
      <3>3. Coherent'  BY <1>7, <2>1, <2>2, <2>3, <2>4, PriorCoherent
      <3>4. QED  BY <2>1, <2>2, <3>2, <3>3
    <2>8. QED  BY <1>9, <2>1, <2>6, <2>7, GoesBack
  <1>16. CASE Clean
    <2>1. Head(todo) = "clean" /\ UNCHANGED <<disk, record, launchd, run>> /\ folder' = {}
      BY <1>3, <1>16 DEF Clean, At, Uncertain
    <2>2. todo' = <<>> /\ record = run.record /\ run.written = <<>> /\ launchd \in Prior
      BY <1>5, <1>7, <2>1 DEF RecoverAt
    <2>3. \A p \in Path : disk'[p] = run.disk[p]  BY <1>7, <2>1, <2>2, NoneWritten DEF Kept
    <2>4. Coherent' /\ (record' = None => MayRegister')
      BY <1>7, <2>1, <2>2, <2>3, PriorCoherent
    <2>5. QED  BY <1>9, <2>1, <2>2, <2>4, GoesBack DEF Idle
  <1>17. QED  BY <1>10, <1>11, <1>12, <1>13, <1>14, <1>15, <1>16 DEF Recover


LEMMA RecoveryGoes ==
  ASSUME NEW r, r.written \in Seq(Path)
  PROVE  Recovery(r) # <<>>
  <1> DEFINE a == IF r.started THEN <<"stop-candidate">> ELSE <<>>
             b == IF r.recorded THEN <<"record-back">> ELSE <<>>
             d == [k \in DOMAIN r.written |-> "restore"]
             f == IF r.was # None /\ r.stopped THEN <<"restart">> ELSE <<>>
             g == IF r.kind = "register" /\ r.record = None THEN <<"clean">> ELSE <<>>
  <1>1. Recovery(r) = a \o (b \o (<<"validate">> \o (d \o (<<"recheck">> \o (f \o g)))))  BY DEF Recovery
  <1>2. DOMAIN r.written = 1 .. Len(r.written) /\ Len(r.written) \in Nat  OBVIOUS
  <1>3. a \in Seq(Effects) /\ b \in Seq(Effects) /\ f \in Seq(Effects) /\ g \in Seq(Effects)
    BY RecoverNames, Singles
  <1>4. d \in Seq(Effects)  BY <1>2, Restores
  <1> DEFINE t == f \o g
             u == <<"recheck">> \o t
             v == d \o u
             w == <<"validate">> \o v
             x == b \o w
  <1> HIDE DEF a, b, d, f, g
  <1>5. t \in Seq(Effects)  BY <1>3, Concat
  <1> HIDE DEF t
  <1>6. u \in Seq(Effects)  BY <1>5, PutFirst, RecoverNames
  <1> HIDE DEF u
  <1>7. v \in Seq(Effects)  BY <1>4, <1>6, Concat
  <1> HIDE DEF v
  <1>8. w \in Seq(Effects) /\ w # <<>>  BY <1>7, PutFirst, RecoverNames
  <1> HIDE DEF w
  <1>9. x \in Seq(Effects) /\ x # <<>>  BY <1>3, <1>8
  <1> HIDE DEF x
  <1>10. a \o x # <<>>  BY <1>3, <1>9
  <1>11. QED  BY <1>1, <1>10 DEF t, u, v, w, x

(* A step that fails leaves what its recovery needs. *)
LEMMA FailsSure ==
  ASSUME SureInv, ~Idle, sure', NEW r, Fails(r), Same, Kept',
         ~run'.recorded => record' = run'.record, ~run'.started => Quiet',
         run'.started => run'.stopped \/ run'.was = None, run'.was \in Prior'
  PROVE  SureInv'
  <1>1. run' = r /\ todo' = Recovery(run') /\ exit' = 4 /\ edited' = edited /\ sure  BY DEF Fails
  <1>2. Planned'  BY <1>1, PlannedStays DEF SureInv
  <1>3. todo' = StopPart'  BY <1>1, RecoveryParts
  <1>4. Recovering'  BY <1>3 DEF Recovering
  <1>5. run'.written \in Seq(Path)  BY DEF Kept
  <1>6. todo' # <<>>  BY <1>1, <1>5, RecoveryGoes
  <1>7. edited = {}  BY <1>1 DEF SureInv
  <1>8. QED  BY <1>1, <1>2, <1>4, <1>6, <1>7, GoesBack DEF Idle

LEMMA EndsSure == ASSUME NEW code \in {3, 5}, Ends(code) PROVE ~sure'
  BY DEF Ends

(* A forward step is of an operation that goes forward. *)
LEMMA GoingSure ==
  ASSUME SureInv, sure, ~Idle,
         Head(todo) \notin {"stop-candidate", "record-back", "validate", "restore", "recheck", "restart", "clean"}
  PROVE  edited = {} /\ Planned /\ Kept /\ exit = 0 /\ Going(Head(todo))
  <1>1. edited = {} /\ Planned /\ Kept /\ exit \in {0, 4}  BY DEF SureInv
  <1>2. exit # 4  BY RecoveringSure DEF RecoverAt
  <1>3. QED  BY <1>1, <1>2 DEF SureInv

(* What stays true when a step only takes the operation on. *)
LEMMA GoingOn ==
  ASSUME Going(Head(todo)), Same, UNCHANGED <<record, launchd>>,
         run'.was = run.was, run'.stopped = run.stopped, run'.started = run.started, run'.recorded = run.recorded,
         Head(todo) \notin {"observe", "legacy"}, Head(todo') \notin {"observe", "legacy"},
         Head(todo) \in Before <=> Head(todo') \in Before,
         Head(todo) \in AfterStart /\ run.started => Head(todo') \in AfterStart
  PROVE  Going(Head(todo))'
  BY DEF Going, Same, Prior, Quiet

LEMMA GoesOn ==
  ASSUME SureInv, sure, ~Idle, Same, Advance, exit = 0, Kept', Idle' => Coherent', ~Idle' => Going(Head(todo))'
  PROVE  SureInv'
  <1>1. exit' = 0 /\ edited' = edited  BY DEF Advance
  <1>2. edited = {} /\ Planned  BY DEF SureInv
  <1>3. Planned'  BY <1>2, PlannedStays
  <1>4. QED  BY <1>1, <1>2, <1>3 DEF SureInv


(* The order of the steps, for the facts that only depend on it. *)
LEMMA AheadOrder ==
  ASSUME PlanInv, ~Idle, exit = 0, Ahead
  PROVE  /\ Head(todo) = "observe" => ~Idle' /\ Head(todo') \in {"prepare", "stop"}
         /\ Head(todo) = "prepare" => ~Idle' /\ Head(todo') = "stop"
         /\ Head(todo) = "stop" => ~Idle' /\ Head(todo') = "verify-absence"
         /\ Head(todo) = "verify-absence" => ~Idle' /\ Head(todo') = "guards"
         /\ Head(todo) = "guards" => ~Idle' /\ Head(todo') \in {"state", "config", "agent"}
         /\ Head(todo) = "state" => ~Idle' /\ Head(todo') = "agent"
         /\ Head(todo) = "agent" => ~Idle' /\ Head(todo') \in {"start", "record"}
         /\ Head(todo) = "start" => ~Idle' /\ Head(todo') = "readiness"
         /\ Head(todo) = "readiness" => ~Idle' /\ Head(todo') = "config"
         /\ Head(todo) = "config" => ~Idle' /\ Head(todo') \in {"record", "agent"}
         /\ Head(todo) = "legacy" => Idle'
  <1>1. CASE run.kind = "register"  BY <1>1 DEF Ahead
  <1>2. CASE run.kind # "register"
    <2>1. Head(todo) \in {"observe", "stop", "verify-absence", "guards", "config", "agent", "record"}
      BY <1>2, PlanHeads
    <2>2. QED  BY <1>2, <2>1 DEF Ahead
  <1>3. QED  BY <1>1, <1>2

(* A step that only takes the operation on, or fails. *)
LEMMA PlainSure ==
  ASSUME JournalInv, PlanInv, SureInv, sure', ~Idle, UNCHANGED <<run, disk, record, launchd>>,
         Fault \/ UNCHANGED bounds, Advance \/ Fails(run),
         Head(todo) \in {"prepare", "verify-absence", "guards", "readiness"}
  PROVE  SureInv'
  <1>1. sure  BY DEF Advance, Fails
  <1>2. edited = {} /\ Planned /\ Kept /\ exit = 0 /\ Going(Head(todo))  BY <1>1, GoingSure
  <1>3. Same  BY NotesSame DEF Notes
  <1>4. Kept'  BY <1>2 DEF Kept
  <1>5. CASE Advance
    <2>1. Ahead  BY <1>2, <1>3, <1>5, GoesAhead
    <2>2. ~Idle' /\ Head(todo') \in {"stop", "guards", "state", "config", "agent"}
      BY <1>2, <2>1, AheadOrder
    <2>3. Head(todo) \in Before <=> Head(todo') \in Before
      BY <1>2, <2>1, AheadOrder DEF Before
    <2>4. Head(todo) \in AfterStart => Head(todo') \in AfterStart
      BY <1>2, <2>1, AheadOrder DEF AfterStart
    <2>5. Going(Head(todo))'  BY <1>2, <1>3, <2>2, <2>3, <2>4, GoingOn
    <2>6. QED  BY <1>1, <1>2, <1>3, <1>4, <1>5, <2>2, <2>5, GoesOn
  <1>6. CASE Fails(run)
    <2>1. /\ ~run.recorded => record = run.record
          /\ ~run.started => Quiet
          /\ run.was \in Prior
          /\ run.started => run.stopped \/ run.was = None
      BY <1>2 DEF Going, Before, AfterStart
    <2>2. Quiet' = Quiet /\ Prior' = Prior  BY DEF Quiet, Prior
    <2>3. QED  BY <1>3, <1>4, <1>6, <2>1, <2>2, FailsSure
  <1>7. QED  BY <1>5, <1>6

LEMMA ObserveSure ==
  ASSUME JournalInv, PlanInv, SureInv, Observe, sure'
  PROVE  SureInv'
  <1>1. ~Idle /\ Head(todo) = "observe" /\ UNCHANGED <<disk, folder, record, launchd>>
    BY NotIdle DEF Observe, At
  <1>2. sure  BY DEF Observe, Advance, Ends
  <1>3. edited = {} /\ Planned /\ Kept /\ exit = 0 /\ Going("observe")  BY <1>1, <1>2, GoingSure
  <1>4. record = run.record /\ launchd \in Prior \cup (IF run.record = None THEN {Other} ELSE {})
    BY <1>3 DEF Going
  <1>5. \A p \in Path : disk'[p] = run.disk[p]  BY <1>1, <1>3, NoneWritten DEF Kept, Going
  <1>6. CASE Ends(2)
    <2>1. Coherent'  BY <1>1, <1>3, <1>4, <1>5, PriorCoherent
    <2>2. Idle' /\ exit' = 2 /\ edited' = edited  BY <1>6 DEF Ends, Idle
    <2>3. QED  BY <1>3, <2>1, <2>2 DEF SureInv
  <1>7. CASE ~Ends(2)
    <2>1. launchd # Other /\ NoFault /\ run' = [run EXCEPT !.was = launchd] /\ Advance
      BY <1>7, EndsSure DEF Observe
    <2>2. Same  BY <1>1, <2>1, NotesSame DEF Notes, NoFault
    <2>3. RunOK  BY <1>1 DEF JournalInv
    <2>4. /\ run'.was = launchd /\ run'.stopped = run.stopped /\ run'.started = run.started
          /\ run'.recorded = run.recorded /\ run'.written = run.written
      BY <2>1, <2>3 DEF RunOK, RunFields
    <2>5. Kept'  BY <1>1, <1>3, <2>2, <2>4, KeptStays DEF Kept
    <2>6. ~Idle' /\ Head(todo') \in {"prepare", "stop"}
      BY <1>1, <1>3, <2>1, <2>2, GoesAhead, AheadOrder
    <2>7. Prior' = Prior  BY <1>3, <2>2, PlannedStays
    <2>8. run'.was \in Prior'  BY <1>4, <2>1, <2>4, <2>7
    <2>9. Quiet'  BY <1>1, <1>3, <2>4 DEF Quiet, Going, Before
    <2>10. ~run.stopped /\ ~run.started /\ ~run.recorded  BY <1>3 DEF Going, Before, AfterStart
    <2>11. record' = run'.record  BY <1>1, <1>4, <2>2 DEF Same
    <2>12. Going(Head(todo))'  BY <2>4, <2>6, <2>8, <2>9, <2>10, <2>11 DEF Going, Before
    <2>13. QED  BY <1>1, <1>2, <1>3, <2>1, <2>2, <2>5, <2>6, <2>12, GoesOn
  <1>8. QED  BY <1>6, <1>7

LEMMA StopSure ==
  ASSUME JournalInv, PlanInv, SureInv, Stop, sure'
  PROVE  SureInv'
  <1>1. ~Idle /\ Head(todo) = "stop" /\ UNCHANGED <<disk, folder, record>>
    BY NotIdle DEF Stop, At
  <1>2. sure  BY DEF Stop, Advance, Ends
  <1>3. edited = {} /\ Planned /\ Kept /\ exit = 0 /\ Going("stop")  BY <1>1, <1>2, GoingSure
  <1>4. Advance /\ NoFault  BY EndsSure DEF Stop
  <1>5. /\ run.was \in Prior /\ ~run.stopped /\ ~run.started /\ ~run.recorded /\ Quiet /\ record = run.record
    BY <1>3 DEF Going, Before, AfterStart
  <1>6. RunOK  BY <1>1 DEF JournalInv
  <1>7. /\ launchd' = None
        /\ \/ run' = run /\ run.was = None
           \/ run' = [run EXCEPT !.stopped = TRUE]
    BY <1>5, EndsSure DEF Stop, Quiet
  <1>8. Same  BY <1>1, <1>4, <1>7, NotesSame DEF Notes, NoFault
  <1>9. /\ run'.was = run.was /\ run'.started = run.started
        /\ run'.recorded = run.recorded /\ run'.written = run.written
        /\ run'.stopped \in BOOLEAN /\ (run'.stopped \/ run'.was = None)
    BY <1>3, <1>6, <1>7 DEF RunOK, RunFields, Kept
  <1>10. Kept'  BY <1>1, <1>3, <1>8, <1>9, KeptStays DEF Kept
  <1>11. ~Idle' /\ Head(todo') = "verify-absence"
    BY <1>1, <1>3, <1>4, <1>8, GoesAhead, AheadOrder
  <1>12. run'.was \in Prior'  BY <1>3, <1>5, <1>8, <1>9, PlannedStays
  <1>13. Quiet'  BY <1>7, <1>9 DEF Quiet
  <1>14. record' = run'.record  BY <1>1, <1>5, <1>8 DEF Same
  <1>15. Going(Head(todo))'
    BY <1>5, <1>9, <1>11, <1>12, <1>13, <1>14 DEF Going, Before
  <1>16. QED  BY <1>1, <1>2, <1>3, <1>4, <1>8, <1>10, <1>11, <1>15, GoesOn

LEMMA EarlySure ==
  ASSUME JournalInv, PlanInv, SureInv, sure', Prepare \/ VerifyAbsence \/ CheckGuards \/ Readiness
  PROVE  SureInv'
  <1>1. CASE Prepare
    <2>1. /\ ~Idle /\ Head(todo) = "prepare" /\ UNCHANGED <<run, disk, record, launchd>>
          /\ Fault \/ UNCHANGED bounds
          /\ Advance \/ Fails(run)
      BY <1>1, NotIdle DEF Prepare, At, NoFault, Fails
    <2>2. QED  BY <2>1, PlainSure
  <1>2. CASE VerifyAbsence
    <2>1. /\ ~Idle /\ Head(todo) = "verify-absence" /\ UNCHANGED <<run, disk, record, launchd>>
          /\ Fault \/ UNCHANGED bounds
          /\ Advance \/ Fails(run)
      BY <1>2, NotIdle, EndsSure DEF VerifyAbsence, Unconfirmed, At, NoFault, Fails
    <2>2. QED  BY <2>1, PlainSure
  <1>3. CASE CheckGuards
    <2>1. /\ ~Idle /\ Head(todo) = "guards" /\ UNCHANGED <<run, disk, record, launchd, bounds>>
          /\ Advance \/ Fails(run)
      BY <1>3, NotIdle DEF CheckGuards, At, Fails
    <2>2. QED  BY <2>1, PlainSure
  <1>4. CASE Readiness
    <2>1. /\ ~Idle /\ Head(todo) = "readiness" /\ UNCHANGED <<run, disk, record, launchd>>
          /\ Fault \/ UNCHANGED bounds
          /\ Advance \/ Fails(run)
      BY <1>4, NotIdle DEF Readiness, At, NoFault, Fails
    <2>2. QED  BY <2>1, PlainSure
  <1>5. QED  BY <1>1, <1>2, <1>3, <1>4


(* What an attempted change notes, however it ends. *)
LEMMA ApplyNotes ==
  ASSUME JournalInv, NEW p \in Path, Apply(p), Unchanged(p)
  PROVE  /\ run'.written = Append(run.written, p) /\ run'.was = run.was /\ run'.stopped = run.stopped
         /\ run'.started = run.started /\ run'.recorded = run.recorded
         /\ Same /\ UNCHANGED <<record, launchd>>
         /\ \A q \in Path \ {p} : disk'[q] = disk[q]
         /\ Advance \/ Fails(run')
  <1>0. RunOK /\ ~Idle  BY NotIdle DEF Apply, JournalInv
  <1>1. PICK content \in {disk[p], After(p)} :
          LET wrote == [run EXCEPT !.written = Append(@, p), !.after[p] = content]
          IN  /\ disk' = [disk EXCEPT ![p] = content]
              /\ \/ content = After(p) /\ run' = wrote /\ Advance /\ NoFault
                 \/ Fault /\ \E seen \in {content, None} : Fails([wrote EXCEPT !.after[p] = seen])
    BY DEF Apply
  <1>2. \A q \in Path \ {p} : disk'[q] = disk[q]  BY <1>1 DEF JournalInv, FilesOK
  <1>3. CASE run' = [run EXCEPT !.written = Append(@, p), !.after[p] = content] /\ Advance /\ NoFault
    <2>1. run'.written = Append(run.written, p) /\ run'.was = run.was /\ run'.stopped = run.stopped
           /\ run'.started = run.started /\ run'.recorded = run.recorded
      BY <1>0, <1>3 DEF RunOK, RunFields
    <2>2. Same  BY <1>0, <1>3, Counted DEF Same, RunOK, RunFields, JournalInv, NoFault
    <2>3. QED  BY <1>2, <1>3, <2>1, <2>2 DEF Apply
  <1>4. CASE Fault /\ \E seen \in {content, None} :
               Fails([[run EXCEPT !.written = Append(@, p), !.after[p] = content] EXCEPT !.after[p] = seen])
    <2>1. PICK seen \in {content, None} :
            Fails([[run EXCEPT !.written = Append(@, p), !.after[p] = content] EXCEPT !.after[p] = seen])
      BY <1>4
    <2>2. run' = [[run EXCEPT !.written = Append(@, p), !.after[p] = content] EXCEPT !.after[p] = seen]
      BY <2>1 DEF Fails
    <2>3. run'.written = Append(run.written, p) /\ run'.was = run.was /\ run'.stopped = run.stopped
           /\ run'.started = run.started /\ run'.recorded = run.recorded
      BY <1>0, <2>2 DEF RunOK, RunFields
    <2>4. Same  BY <1>0, <1>4, <2>2, Counted DEF Same, RunOK, RunFields, JournalInv
    <2>5. Fails(run')  BY <2>1, <2>2
    <2>6. QED  BY <1>2, <2>3, <2>4, <2>5 DEF Apply
  <1>5. QED  BY <1>1, <1>3, <1>4

(* A finished registration. *)
LEMMA RegisteredCoherent ==
  ASSUME JournalInv, ~Idle, run.kind = "register",
         disk'["agent"] = After("agent"), disk'["state"] = After("state"), disk'["config"] = After("config"),
         launchd' = After("state"), record' = SectionAfter
  PROVE  Coherent'
  <1>1. BlockOf(disk["config"])' = run.scope  BY AfterConfigIs DEF BlockOf
  <1>2. After("state").scope = run.scope  BY AfterServiceIs
  <1>3. record' = [state |-> After("state"), agent |-> After("agent"), block |-> run.scope]
    BY DEF SectionAfter, Section
  <1>4. After("state") \in Services /\ After("agent") \in Services /\ run.scope \in Nat
    BY AfterType DEF Path, JournalInv, RunOK
  <1>5. record' # None  BY <1>3, <1>4, RegistrationAssumption DEF Services
  <1>6. record'.state = After("state") /\ record'.agent = After("agent") /\ record'.block = run.scope  BY <1>3
  <1>7. MayRegister' /\ MayDetach'  BY <1>1, <1>2, <1>5, <1>6 DEF MayRegister, MayDetach
  <1>8. QED  BY <1>5, <1>7 DEF Coherent

LEMMA ApplySure ==
  ASSUME JournalInv, PlanInv, SureInv, NEW p \in Path, Apply(p), sure'
  PROVE  SureInv'
  <1>1. ~Idle /\ Head(todo) = p  BY NotIdle DEF Apply, At
  <1>2. sure
    <2>1. CASE ~Unchanged(p)  BY <2>1 DEF Apply, Fails
    <2>2. CASE Unchanged(p)  BY <2>2, ApplyNotes DEF Advance, Fails
    <2>3. QED  BY <2>1, <2>2
  <1>3. edited = {} /\ Planned /\ Kept /\ exit = 0 /\ Going(p)  BY <1>1, <1>2, GoingSure DEF Path
  <1>4. /\ ~run.recorded => record = run.record
        /\ ~run.started => Quiet
        /\ run.was \in Prior
        /\ run.stopped \/ run.was = None
    BY <1>3 DEF Going, Before, Path
  <1>5. CASE ~Unchanged(p)
    <2>1. Fails(run) /\ UNCHANGED <<run, disk, bounds, record, launchd>>  BY <1>5 DEF Apply, Fails
    <2>2. Same  BY <1>1, <2>1, NotesSame DEF Notes
    <2>3. Kept'  BY <1>3, <2>1 DEF Kept
    <2>4. Quiet' = Quiet /\ Prior' = Prior  BY <2>1 DEF Quiet, Prior
    <2>5. QED  BY <1>1, <1>4, <2>1, <2>2, <2>3, <2>4, FailsSure
  <1>6. CASE Unchanged(p)
    <2>1. /\ run'.written = Append(run.written, p) /\ run'.was = run.was /\ run'.stopped = run.stopped
          /\ run'.started = run.started /\ run'.recorded = run.recorded
          /\ Same /\ UNCHANGED <<record, launchd>>
          /\ \A q \in Path \ {p} : disk'[q] = disk[q]
          /\ Advance \/ Fails(run')
      BY <1>6, ApplyNotes
    <2>2. Kept'
      <3>1. run.written \in Seq(Path)  BY <1>3 DEF Kept
      <3>2. Append(run.written, p) \in Seq(Path) /\ ToSet(run.written) \cup {p} \subseteq ToSet(Append(run.written, p))
        BY <3>1, AppendFacts
      <3>3. \A q \in Path \ ToSet(Append(run.written, p)) : disk'[q] = run.disk[q]
        BY <1>3, <2>1, <3>2 DEF Kept
      <3>4. run'.disk = run.disk  BY <2>1 DEF Same
      <3>5. QED  BY <1>3, <2>1, <3>2, <3>3, <3>4 DEF Kept
    <2>3. Prior' = Prior /\ Quiet' = Quiet  BY <1>3, <2>1, PlannedStays DEF Quiet
    <2>4. CASE Fails(run')
      <3>1. ~run'.recorded => record' = run'.record  BY <1>4, <2>1 DEF Same
      <3>2. QED  BY <1>1, <1>4, <2>1, <2>2, <2>3, <2>4, <3>1, FailsSure
    <2>5. CASE Advance
      <3>1. Ahead  BY <1>1, <1>3, <2>1, <2>5, GoesAhead
      <3>2. CASE p # "legacy"
        <4>1. ~Idle' /\ Head(todo') \in {"agent", "start", "record"}
          BY <1>1, <1>3, <3>1, <3>2, AheadOrder DEF Path
        <4>2. Head(todo) \in AfterStart /\ run.started => Head(todo') \in AfterStart
          <5>1. ASSUME p = "config", run.started PROVE Head(todo') \in AfterStart
            <6>1. run.kind = "register"  BY <1>1, <1>3, <5>1 DEF Going, JournalInv, RunOK
            <6>2. QED  BY <1>1, <3>1, <5>1, <6>1 DEF Ahead, AfterStart
          <5>2. QED  BY <1>1, <3>2, <5>1 DEF AfterStart, Path
        <4>3. Going(Head(todo))'
          BY <1>1, <1>3, <2>1, <3>2, <4>1, <4>2, GoingOn DEF Before, Path
        <4>4. QED  BY <1>1, <1>2, <1>3, <2>1, <2>2, <2>5, <4>1, <4>3, GoesOn
      <3>3. CASE p = "legacy"
        <4>1. run.kind = "register"  BY <1>1, <1>3, <3>3, PlanHeads
        <4>2. Idle'  BY <1>1, <1>3, <3>1, <3>3, AheadOrder
        <4>3. /\ disk["state"] = After("state") /\ disk["agent"] = After("agent") /\ disk["config"] = After("config")
              /\ launchd = After("state") /\ record = SectionAfter
          BY <1>1, <1>3, <3>3, <4>1 DEF PlanInv, Registered, AfterState, AfterAgent, AfterStart, AfterConfig
        <4>4. disk'["state"] = disk["state"] /\ disk'["agent"] = disk["agent"] /\ disk'["config"] = disk["config"]
          BY <2>1, <3>3 DEF Path
        <4>5. Coherent'  BY <1>1, <2>1, <4>1, <4>3, <4>4, RegisteredCoherent
        <4>6. QED  BY <1>1, <1>2, <1>3, <2>1, <2>2, <2>5, <4>2, <4>5, GoesOn
      <3>4. QED  BY <3>2, <3>3
    <2>6. QED  BY <2>1, <2>4, <2>5
  <1>7. QED  BY <1>5, <1>6

LEMMA StartSure ==
  ASSUME JournalInv, PlanInv, SureInv, Start, sure'
  PROVE  SureInv'
  <1>1. /\ ~Idle /\ Head(todo) = "start" /\ UNCHANGED <<disk, record>>
        /\ run' = [run EXCEPT !.started = TRUE] /\ (Fault \/ UNCHANGED bounds)
        /\ Advance \/ Fails(run')
    BY NotIdle DEF Start, At, Fails, NoFault
  <1>2. sure  BY <1>1 DEF Advance, Fails
  <1>3. edited = {} /\ Planned /\ Kept /\ exit = 0 /\ Going("start")  BY <1>1, <1>2, GoingSure
  <1>4. Same  BY <1>1, NotesSame DEF Notes
  <1>5. RunOK  BY <1>1 DEF JournalInv
  <1>6. /\ run'.started = TRUE /\ run'.was = run.was /\ run'.stopped = run.stopped
        /\ run'.recorded = run.recorded /\ run'.written = run.written
    BY <1>1, <1>5 DEF RunOK, RunFields
  <1>7. /\ record = run.record /\ run.was \in Prior /\ ~run.recorded
        /\ run.stopped \/ run.was = None
        /\ run.kind # "detach"
    <2>1. run.kind = "register"  BY <1>1, <1>3, PlanHeads
    <2>2. QED  BY <1>3, <2>1 DEF Going, Before
  <1>8. Kept'  BY <1>1, <1>3, <1>4, <1>6, KeptStays DEF Kept
  <1>9. run'.was \in Prior' /\ record' = run'.record
    BY <1>1, <1>3, <1>4, <1>6, <1>7, PlannedStays DEF Same
  <1>10. CASE Fails(run')
    BY <1>1, <1>4, <1>6, <1>7, <1>8, <1>9, <1>10, FailsSure
  <1>11. CASE Advance
    <2>1. ~Idle' /\ Head(todo') = "readiness"  BY <1>1, <1>3, <1>4, <1>11, GoesAhead, AheadOrder
    <2>2. run'.kind # "detach"  BY <1>4, <1>7 DEF Same
    <2>3. Going(Head(todo))'  BY <1>6, <1>7, <1>9, <2>1, <2>2 DEF Going, AfterStart, Before
    <2>4. QED  BY <1>1, <1>2, <1>3, <1>4, <1>8, <1>11, <2>1, <2>3, GoesOn
  <1>12. QED  BY <1>1, <1>10, <1>11

LEMMA RecordSure ==
  ASSUME JournalInv, PlanInv, SureInv, Record, sure'
  PROVE  SureInv'
  <1>1. ~Idle /\ Head(todo) = "record" /\ UNCHANGED <<disk, launchd>>
    BY NotIdle DEF Record, At
  <1>2. sure  BY DEF Record, Advance, Fails
  <1>3. edited = {} /\ Planned /\ Kept /\ exit = 0 /\ Going("record")  BY <1>1, <1>2, GoingSure
  <1>4. /\ record = run.record /\ run.was \in Prior /\ ~run.recorded
        /\ run.stopped \/ run.was = None
        /\ ~run.started => Quiet
    BY <1>3 DEF Going, Before
  <1>5. CASE Fault /\ Fails(run) /\ UNCHANGED record
    <2>1. run' = run /\ UNCHANGED record  BY <1>5 DEF Fails
    <2>2. Same  BY <1>1, <1>5, <2>1, NotesSame DEF Notes
    <2>3. Kept'  BY <1>1, <1>3, <2>1 DEF Kept
    <2>4. Quiet' = Quiet /\ Prior' = Prior  BY <1>1, <2>1 DEF Quiet, Prior
    <2>5. QED  BY <1>1, <1>4, <1>5, <2>1, <2>2, <2>3, <2>4, FailsSure
  <1>6. CASE record' = SectionAfter /\ run' = [run EXCEPT !.recorded = TRUE] /\ Advance /\ NoFault
    <2>1. Same  BY <1>1, <1>6, NotesSame DEF Notes, NoFault
    <2>2. RunOK  BY <1>1 DEF JournalInv
    <2>3. /\ run'.started = run.started /\ run'.was = run.was /\ run'.stopped = run.stopped
          /\ run'.recorded = TRUE /\ run'.written = run.written
      BY <1>6, <2>2 DEF RunOK, RunFields
    <2>4. Kept'  BY <1>1, <1>3, <2>1, <2>3, KeptStays DEF Kept
    <2>5. Ahead  BY <1>1, <1>3, <1>6, <2>1, GoesAhead
    <2>6. CASE run.kind = "register"
      <3>1. Registered("record")  BY <1>1, <1>3, <2>6 DEF PlanInv
      <3>2. Coherent'
        BY <1>1, <1>6, <2>6, <3>1, RegisteredCoherent
        DEF Registered, AfterState, AfterAgent, AfterStart, AfterConfig
      <3>3. ASSUME ~Idle' PROVE Going(Head(todo))'
        <4>1. Head(todo') = "legacy"  BY <1>1, <2>5, <2>6, <3>3 DEF Ahead
        <4>2. Quiet' = Quiet /\ Prior' = Prior  BY <1>1, <1>3, <2>1, <2>3, PlannedStays DEF Quiet
        <4>3. run'.kind # "detach"  BY <2>1, <2>6 DEF Same
        <4>4. QED  BY <1>4, <2>3, <4>1, <4>2, <4>3 DEF Going, AfterStart, Before
      <3>4. QED  BY <1>1, <1>2, <1>3, <1>6, <2>1, <2>4, <3>2, <3>3, GoesOn
    <2>7. CASE run.kind # "register"
      <3>1. Idle'  BY <1>1, <2>5, <2>7 DEF Ahead
      <3>2. Detached("record")  BY <1>1, <1>3, <2>7 DEF PlanInv
      <3>3. record' = None  BY <1>6, <2>7 DEF SectionAfter
      <3>4. run.kind = "detach"  BY <2>2, <2>7 DEF RunOK
      <3>5. launchd = None  BY <1>3, <1>4, <3>4 DEF Quiet, Going
      <3>6. disk'["agent"] = Missing /\ BlockOf(disk["config"])' = None
        BY <1>1, <3>2 DEF Detached, BlockOf
      <3>7. Coherent'  BY <1>1, <3>3, <3>5, <3>6 DEF Coherent
      <3>8. QED  BY <1>1, <1>2, <1>3, <1>6, <2>1, <2>4, <3>1, <3>7, GoesOn
    <2>8. QED  BY <2>6, <2>7
  <1>7. QED  BY <1>5, <1>6 DEF Record

(* A command that plans from what belongs together. *)
LEMMA BeginSure ==
  ASSUME JournalInv, PlanInv, SureInv, (\E kind \in {"register", "detach"} : Begin(kind)) \/ DetachMissing, sure'
  PROVE  SureInv'
  <1>1. Idle /\ sure /\ UNCHANGED <<disk, folder, record, launchd>>  BY DEF Begin, DetachMissing
  <1>2. edited = {} /\ Coherent  BY <1>1 DEF SureInv
  <1>3. Coherent'
    BY <1>1, <1>2 DEF Coherent, MayRegister, MayDetach, BlockOf
  <1>4. CASE DetachMissing
    <2>1. Idle' /\ exit' = 0 /\ edited' = {}  BY <1>2, <1>4 DEF DetachMissing, Idle
    <2>2. QED  BY <1>3, <2>1 DEF SureInv
  <1>5. CASE \E kind \in {"register", "detach"} : Begin(kind)
    <2>1. PICK kind \in {"register", "detach"} : Begin(kind)  BY <1>5
    <2>2. CASE ~May(kind)
      <3>1. Idle' /\ exit' = 2 /\ edited' = {}  BY <1>1, <2>1, <2>2 DEF Begin, Idle
      <3>2. QED  BY <1>3, <3>1 DEF SureInv
    <2>3. CASE May(kind)
      <3>1. /\ todo' = Steps(kind) /\ exit' = 0 /\ edited' = {}
            /\ run'.kind = kind /\ run'.disk = disk /\ run'.record = record
            /\ record # None => run'.scope = record.state.scope
            /\ run'.written = <<>> /\ run'.stopped = FALSE /\ run'.started = FALSE /\ run'.recorded = FALSE
        BY <2>1, <2>3, Begun
      <3>2. ~Idle' /\ Head(todo') = "observe"  BY <3>1, StepsPlan
      <3>3. Planned'
        <4>1. CASE record = None
          <5>1. kind = "register"  BY <2>1, <4>1 DEF Begin
          <5>2. Fresh(disk)  BY <2>3, <4>1, <5>1 DEF May, MayRegister, Fresh
          <5>3. QED  BY <1>1, <3>1, <4>1, <5>1, <5>2 DEF Planned, Fresh, BlockOf
        <4>2. CASE record # None
          <5>1. Fits(disk, record)  BY <1>2, <4>2 DEF Coherent, MayRegister, Fits
          <5>2. QED  BY <1>1, <3>1, <4>2, <5>1 DEF Planned, Fits, BlockOf
        <4>3. QED  BY <4>1, <4>2
      <3>4. Kept'
        <4>1. run'.written \in Seq(Path)  BY <3>1
        <4>2. QED  BY <1>1, <3>1, <4>1 DEF Kept
      <3>5. launchd' \in Prior' \cup (IF run'.record = None THEN {Other} ELSE {})
        BY <1>1, <1>2, <3>1 DEF Prior, Coherent
      <3>6. Going(Head(todo))'
        BY <1>1, <3>1, <3>2, <3>5 DEF Going, Before
      <3>7. QED  BY <3>1, <3>2, <3>3, <3>4, <3>6 DEF SureInv
    <2>4. QED  BY <2>2, <2>3
  <1>6. QED  BY <1>4, <1>5

(* Whoever else does something makes the next command unsure, except the   *)
(* user who clears what a detach kept.                                     *)
LEMMA OthersSure ==
  ASSUME JournalInv, SureInv, (\E p \in Path : Edit(p)) \/ Leave \/ Load \/ Review \/ Crash, sure'
  PROVE  SureInv'
  <1>1. Review  BY DEF Edit, Leave, Load, Crash
  <1>2. /\ Idle /\ sure /\ record = None /\ folder' = {}
        /\ disk' = [disk EXCEPT !["state"] = Missing, !["legacy"] = Missing]
        /\ UNCHANGED <<record, launchd, todo, run, exit, edited>>
    BY <1>1 DEF Review
  <1>3. edited = {} /\ Coherent  BY <1>2 DEF SureInv
  <1>4. /\ disk'["agent"] = disk["agent"] /\ disk'["config"] = disk["config"]
        /\ disk'["state"] = Missing /\ disk'["legacy"] = Missing
    BY <1>2 DEF JournalInv, FilesOK, Path
  <1>5. Coherent' /\ MayRegister'  BY <1>2, <1>3, <1>4 DEF Coherent, MayRegister, BlockOf
  <1>6. QED  BY <1>2, <1>3, <1>5 DEF SureInv, Idle

LEMMA InitSure == Init => SureInv
  <1> SUFFICES ASSUME Init PROVE SureInv
    OBVIOUS
  <1>1. Idle /\ exit = 0 /\ edited = {}  BY DEF Init, Idle
  <1>2. Coherent
    <2>1. CASE record = None
      <3>1. /\ disk \in {[p \in Path |-> IF p = "config" THEN config ELSE Missing] : config \in {Missing, Config(None, 1)}}
            /\ launchd \in {None, Other}
        <4>1. \A block \in {1, None} : Section(Served(1, 1), Served(1, 1), block) # None
          BY RegistrationAssumption DEF Section, Served
        <4>2. QED  BY <2>1, <4>1 DEF Init
      <3>2. disk["agent"] = Missing /\ disk["config"] \in {Missing, Config(None, 1)}  BY <3>1 DEF Path
      <3>3. BlockOf(disk["config"]) = None  BY <3>2 DEF BlockOf, Config
      <3>4. QED  BY <2>1, <3>1, <3>2, <3>3 DEF Coherent
    <2>2. CASE record # None
      <3>1. PICK block \in {1, None} : record = Section(Served(1, 1), Served(1, 1), block)  BY <2>2 DEF Init
      <3>2. disk["agent"] = Served(1, 1) /\ disk["state"] = Served(1, 1) /\ disk["config"] = Config(1, 1)
             /\ launchd \in {Served(1, 1), None}
        BY <2>2 DEF Init
      <3>3. record.state = Served(1, 1) /\ record.agent = Served(1, 1) /\ record.block = block  BY <3>1 DEF Section
      <3>4. Config(1, 1) # Missing
        <4>1. Config(1, 1) \in Configs  BY DEF Config, Configs
        <4>2. QED  BY <4>1, Different
      <3>5. BlockOf(disk["config"]) = 1  BY <3>2, <3>4 DEF BlockOf, Config
      <3>6. Served(1, 1).scope = 1  BY DEF Served
      <3>7. QED  BY <2>2, <3>2, <3>3, <3>5, <3>6 DEF Coherent, MayRegister, MayDetach
    <2>3. QED  BY <2>1, <2>2
  <1>3. QED  BY <1>1, <1>2 DEF SureInv


LEMMA PlanHolds == JournalInv /\ PlanInv /\ [Next]_vars => PlanInv'
  <1> SUFFICES ASSUME JournalInv, PlanInv, [Next]_vars PROVE PlanInv'
    OBVIOUS
  <1>1. CASE UNCHANGED vars
    <2>1. UNCHANGED <<disk, record, launchd, todo, run, exit, edited, bounds>>  BY <1>1 DEF vars
    <2>2. Idle' = Idle  BY <2>1 DEF Idle
    <2>3. OnPlan' = OnPlan
      BY <2>1 DEF OnPlan, OnRegisterPlan, OnDetachPlan, LegacyStep, DetachFiles
    <2>4. \A q \in Path : After(q)' = After(q)  BY <2>1 DEF After, Config, Served, RestOf
    <2>5. SectionAfter' = SectionAfter  BY <2>1, <2>4 DEF SectionAfter, Path
    <2>6. Registered(Head(todo)) => Registered(Head(todo))'  BY <2>1, <2>4, <2>5 DEF Registered, Path
    <2>7. Detached(Head(todo)) => Detached(Head(todo))'  BY <2>1 DEF Detached, BlockOf
    <2>8. ServedNow => ServedNow'  BY <2>1 DEF ServedNow, BlockOf
    <2>9. QED  BY <2>1, <2>2, <2>3, <2>6, <2>7, <2>8 DEF PlanInv
  <1>2. CASE Observe \/ Prepare \/ Stop \/ VerifyAbsence \/ CheckGuards  BY <1>2, EarlyPlan
  <1>3. CASE \E p \in Path : Apply(p)  BY <1>3, ApplyPlan
  <1>4. CASE Start  BY <1>4, StartPlan
  <1>5. CASE Readiness  BY <1>5, ReadinessPlan
  <1>6. CASE Record  BY <1>6, RecordPlan
  <1>7. CASE Recover  BY <1>7, RecoverPlan
  <1>8. CASE (\E p \in Path : Edit(p)) \/ Leave \/ Load \/ Review \/ Crash  BY <1>8, OthersPlan
  <1>9. CASE (\E kind \in {"register", "detach"} : Begin(kind)) \/ DetachMissing  BY <1>9, BeginPlan
  <1>10. QED  BY <1>1, <1>2, <1>3, <1>4, <1>5, <1>6, <1>7, <1>8, <1>9 DEF Next, Execute

LEMMA SureHolds == JournalInv /\ PlanInv /\ SureInv /\ [Next]_vars => SureInv'
  <1> SUFFICES ASSUME JournalInv, PlanInv, SureInv, [Next]_vars, sure' PROVE SureInv'
    BY DEF SureInv
  <1>1. CASE UNCHANGED vars
    <2>1. UNCHANGED <<disk, folder, record, launchd, todo, run, exit, edited, sure>>  BY <1>1 DEF vars
    <2>2. Idle' = Idle  BY <2>1 DEF Idle
    <2>3. Coherent' = Coherent /\ MayRegister' = MayRegister
      BY <2>1 DEF Coherent, MayRegister, MayDetach, BlockOf
    <2>4. Planned' = Planned /\ Kept' = Kept /\ Quiet' = Quiet /\ Prior' = Prior
      BY <2>1 DEF Planned, Kept, Quiet, Prior
    <2>5. Going(Head(todo))' = Going(Head(todo))  BY <2>1, <2>4 DEF Going
    <2>6. StopPart' = StopPart  BY <2>1
      DEF StopPart, RecordPart, ValidatePart, RestorePart, RecheckPart, RestartPart, CleanPart
    <2>7. /\ RecordPart' = RecordPart /\ ValidatePart' = ValidatePart /\ RestorePart' = RestorePart
          /\ RestartPart' = RestartPart /\ CleanPart' = CleanPart
      BY <2>1, PartsStay
    <2>8. Recovering => Recovering'  BY <2>1, <2>4, <2>6, <2>7 DEF Recovering
    <2>9. QED  BY <2>1, <2>2, <2>3, <2>4, <2>5, <2>8 DEF SureInv
  <1>2. CASE Observe  BY <1>2, ObserveSure
  <1>3. CASE Prepare \/ VerifyAbsence \/ CheckGuards \/ Readiness  BY <1>3, EarlySure
  <1>4. CASE Stop  BY <1>4, StopSure
  <1>5. CASE \E p \in Path : Apply(p)  BY <1>5, ApplySure
  <1>6. CASE Start  BY <1>6, StartSure
  <1>7. CASE Record  BY <1>7, RecordSure
  <1>8. CASE Recover  BY <1>8, RecoverSure
  <1>9. CASE (\E p \in Path : Edit(p)) \/ Leave \/ Load \/ Review \/ Crash  BY <1>9, OthersSure
  <1>10. CASE (\E kind \in {"register", "detach"} : Begin(kind)) \/ DetachMissing  BY <1>10, BeginSure
  <1>11. QED
    BY <1>1, <1>2, <1>3, <1>4, <1>5, <1>6, <1>7, <1>8, <1>9, <1>10 DEF Next, Execute

(* A registration that ends well while nobody touches what it works on     *)
(* leaves a service that read the new state file, provider blocks that     *)
(* lead to it and a section that names both, whatever earlier commands,    *)
(* failures, edits and deaths left behind.                                 *)
THEOREM RegisteredIsServed == Spec => []ProviderServed
  <1>1. PlanInv => ProviderServed  BY DEF PlanInv, ProviderServed, ServedNow
  <1>2. QED  BY <1>1, InitJournal, NextKeeps, InitPlan, PlanHolds, PTL DEF Spec

(* As long as every operation ended with 0, 2 or 4 and nobody else         *)
(* interfered, files, section and service say the same between two         *)
(* operations, and a first registration that was undone can be tried       *)
(* again: wherever a step failed, the recovery brought everything back.    *)
THEOREM NobodyIsStranded == Spec => []NeverStranded
  <1>1. SureInv => NeverStranded  BY DEF SureInv, NeverStranded
  <1>2. QED  BY <1>1, InitJournal, NextKeeps, InitPlan, PlanHolds, InitSure, SureHolds, PTL DEF Spec

-----------------------------------------------------------------------------
(* The lock that the registration works under, operation_lock, is a user   *)
(* of the install lock (InstallLock), for any number of processes: the     *)
(* type invariant, and mutual exclusion as long as no live holder's lock   *)
(* was removed.                                                            *)

(* The file an exclusive create makes is a lock file, not its absence. *)
LEMMA NewLockFile ==
  ASSUME NEW p \in Proc
  PROVE  /\ [by |-> p, written |-> FALSE, old |-> FALSE] \in LockFile
         /\ [by |-> p, written |-> FALSE, old |-> FALSE] # NoLock
<1>1. [by |-> p, written |-> FALSE, old |-> FALSE] \in LockFile
  BY Zenon DEF LockFile
<1>2. NoLock \notin LockFile
  BY LockAssumption DEF LockFile
<1> QED
  BY <1>1, <1>2

(* Type correctness of the lock file and of every process's place. *)
THEOREM LockTypeCorrect == LockSpec => []LockTypeOK
<1>1. LockInit => LockTypeOK
  BY DEF LockInit, LockTypeOK, Place
<1>2. LockTypeOK /\ [LockNext]_lockVars => LockTypeOK'
  <2> SUFFICES ASSUME LockTypeOK, [LockNext]_lockVars
               PROVE  LockTypeOK'
    OBVIOUS
  <2> USE DEF LockTypeOK, Goto, Place, Waiting, Holding, LockFile
  <2>1. ASSUME NEW p \in Proc, StartCommand(p) PROVE LockTypeOK'
    BY <2>1 DEF StartCommand
  <2>2. ASSUME NEW p \in Proc, LockStep(p) PROVE LockTypeOK'
    <3>1. CASE Create(p)
      <4>1. CASE lock = NoLock
        <5>1. lock' = [by |-> p, written |-> FALSE, old |-> FALSE]
          BY <3>1, <4>1 DEF Create
        <5> QED
          BY <3>1, <4>1, <5>1, NewLockFile DEF Create
      <4>2. CASE lock # NoLock
        BY <3>1, <4>2 DEF Create
      <4> QED
        BY <4>1, <4>2
    <3>2. CASE Stat(p)
      BY <3>2 DEF Stat
    <3>3. CASE RemoveStale(p)
      BY <3>3 DEF RemoveStale, Unlink
    <3>4. CASE RemoveStaleFails(p)
      BY <3>4 DEF RemoveStaleFails
    <3>5. CASE WriteLock(p)
      BY <3>5, LockAssumption DEF WriteLock
    <3>8. CASE Snapshot(p)
      BY <3>8, LockAssumption DEF Snapshot, LockSnapshot
    <3>6. CASE RequireLock(p) \/ WriteRecord(p) \/ Finish(p) \/ CompareLock(p)
      BY <3>6 DEF RequireLock, WriteRecord, Finish, CompareLock, Ending
    <3>7. CASE Release(p)
      BY <3>7 DEF Release, Unlink
    <3> QED
      BY <2>2, <3>1, <3>2, <3>3, <3>4, <3>5, <3>6, <3>7, <3>8 DEF LockStep
  <2>3. ASSUME NEW p \in Proc, Die(p) PROVE LockTypeOK'
    BY <2>3 DEF Die
  <2>4. CASE Age
    BY <2>4, LockAssumption DEF Age
  <2>5. CASE Ended \/ UNCHANGED lockVars
    BY <2>5 DEF Ended, lockVars
  <2> QED
    BY <2>1, <2>2, <2>3, <2>4, <2>5 DEF LockNext
<1> QED
  BY <1>1, <1>2, PTL DEF LockSpec

(* The strengthening: until a live holder is robbed, the file at the path  *)
(* is the one the holder created.                                          *)
HoldersOwnLock == ~robbed => \A p \in Holders : lock # NoLock /\ lock.by = p

(* That strengthening is an invariant. *)
THEOREM OwnLockInvariant == LockSpec => []HoldersOwnLock
<1>1. LockInit => HoldersOwnLock
  BY DEF LockInit, HoldersOwnLock, Holders, Holding
<1>2. LockTypeOK /\ HoldersOwnLock /\ [LockNext]_lockVars => HoldersOwnLock'
  <2> SUFFICES ASSUME LockTypeOK, HoldersOwnLock, [LockNext]_lockVars, ~robbed'
               PROVE  \A q \in Holders' : lock' # NoLock /\ lock'.by = q
    BY DEF HoldersOwnLock
  <2> USE DEF LockTypeOK, HoldersOwnLock, Holders, Goto, Place, Waiting, Holding
  <2>1. ASSUME NEW p \in Proc, StartCommand(p) PROVE \A q \in Holders' : lock' # NoLock /\ lock'.by = q
    BY <2>1 DEF StartCommand
  <2>2. ASSUME NEW p \in Proc, LockStep(p) PROVE \A q \in Holders' : lock' # NoLock /\ lock'.by = q
    <3>1. CASE Create(p)
      <4>1. CASE lock = NoLock
        <5>1. lock' = [by |-> p, written |-> FALSE, old |-> FALSE]
          BY <3>1, <4>1 DEF Create
        <5> QED
          BY <3>1, <4>1, <5>1, NewLockFile DEF Create
      <4>2. CASE lock # NoLock
        BY <3>1, <4>2 DEF Create
      <4> QED
        BY <4>1, <4>2
    <3>2. CASE Stat(p)
      BY <3>2 DEF Stat
    <3>3. CASE RemoveStale(p)
      BY <3>3 DEF RemoveStale, Unlink
    <3>4. CASE RemoveStaleFails(p)
      BY <3>4 DEF RemoveStaleFails
    <3>5. CASE WriteLock(p)
      BY <3>5, LockAssumption DEF WriteLock, LockFile
    <3>8. CASE Snapshot(p)
      BY <3>8 DEF Snapshot
    <3>6. CASE RequireLock(p) \/ WriteRecord(p) \/ Finish(p) \/ CompareLock(p)
      BY <3>6 DEF RequireLock, WriteRecord, Finish, CompareLock, Ending
    <3>7. CASE Release(p)
      BY <3>7 DEF Release, Unlink
    <3> QED
      BY <2>2, <3>1, <3>2, <3>3, <3>4, <3>5, <3>6, <3>7, <3>8 DEF LockStep
  <2>3. ASSUME NEW p \in Proc, Die(p) PROVE \A q \in Holders' : lock' # NoLock /\ lock'.by = q
    BY <2>3 DEF Die
  <2>4. CASE Age
    BY <2>4, LockAssumption DEF Age, LockFile
  <2>5. CASE Ended \/ UNCHANGED lockVars
    BY <2>5 DEF Ended, lockVars
  <2> QED
    BY <2>1, <2>2, <2>3, <2>4, <2>5 DEF LockNext
<1> QED
  BY <1>1, <1>2, LockTypeCorrect, PTL DEF LockSpec

(* Two commands never hold the install lock at once unless a live holder's *)
(* lock was removed, for every set of processes and however commands       *)
(* interleave, die and outlive stale_seconds.                              *)
THEOREM LockExcludes == LockSpec => []ExclusionUnlessRobbed
<1>1. HoldersOwnLock => ExclusionUnlessRobbed
  BY DEF HoldersOwnLock, ExclusionUnlessRobbed, Exclusion
<1> QED
  BY <1>1, OwnLockInvariant, PTL

(* release_lock, which unlinks the path unseen, never is the first step to *)
(* remove a live holder's lock; the removal of a stale lock is.            *)
THEOREM ReleaseInnocent == LockSpec => ReleaseNeverRobsFirst
<1> DEFINE RobbedByWaiter == robbed' /\ ~robbed => \E p \in Proc : pc[p] = "unlink" /\ pc'[p] = "create"
<1>1. LockTypeOK /\ HoldersOwnLock /\ [LockNext]_lockVars => RobbedByWaiter
  <2> SUFFICES ASSUME LockTypeOK, HoldersOwnLock, [LockNext]_lockVars, robbed', ~robbed
               PROVE  \E p \in Proc : pc[p] = "unlink" /\ pc'[p] = "create"
    OBVIOUS
  <2>1. PICK p \in Proc : RemoveStale(p) \/ Release(p)
    BY DEF LockNext, StartCommand, LockStep, Die, Age, Ended, lockVars, Create, Stat, RemoveStaleFails, WriteLock, Snapshot,
           RequireLock, WriteRecord, Finish, CompareLock
  <2>2. CASE RemoveStale(p)
    BY <2>2 DEF RemoveStale, Goto, LockTypeOK
  <2>3. CASE Release(p)
    BY <2>3 DEF Release, Unlink, LockTypeOK, HoldersOwnLock, Holders, Holding
  <2> QED
    BY <2>1, <2>2, <2>3
<1> QED
  BY <1>1, LockTypeCorrect, OwnLockInvariant, PTL DEF LockSpec, ReleaseNeverRobsFirst
=============================================================================
